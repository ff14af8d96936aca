------------------------- MODULE StateJournal_proofs -------------------------
(***************************************************************************)
(* The store and its journal, for any number of processes, transactions,   *)
(* crashes, torn appends and takeovers, any window and any limits of the   *)
(* journal.                                                                *)
(*                                                                         *)
(* The properties say nothing of a transaction that is under way, so none  *)
(* of them is inductive.  JournalInd says for each position of the lock's  *)
(* holder what it has read and what is on disk, and for every state why a  *)
(* journal left over by a crash is not replayed: the snapshot its first    *)
(* record names is not the state that is committed (NotOf).                *)
(***************************************************************************)
EXTENDS StateJournal, SequenceTheorems, WellFoundedInduction, TLAPS

\* Completed lines can be read.
Sound ==
  \A i \in 1..Len(journal) : journal[i].ok \/ (i = Len(journal) /\ ~terminated)

\* A journal names the snapshot it was opened against, and that is not the
\* state of now: a checkpoint that replaces the snapshot disowns the journal.
NotOf(log) == journal # <<>> /\ journal[1].ok => journal[1].base # log

Issued == Seq(1..issued)
NumbersOK ==
  /\ snapshot \in Issued \cup {None}
  /\ committed.main \in Issued
  /\ txn.after.main \in Issued
  /\ \A i \in 1..Len(journal) : journal[i].base \in Issued \cup {None}

\* The files.
DiskOK ==
  /\ work = committed.work
  /\ ~terminated => journal # <<>> /\ ~journal[Len(journal)].ok
  /\ torn = 0 => \A i \in 1..Len(journal) : journal[i].ok
  /\ Replayed.fits
  /\ (JournalBelongs => Sound) => Replayed.main = committed.main
  /\ NotOf(committed.main)
  /\ JournalBelongs /\ Sound =>
       Len(journal) <= Replayed.applied + (IF terminated THEN 0 ELSE 1)

\* The holder is between loading and the change it makes.
Reading ==
  \/ txn.pc \in {"persistWork", "append"}
  \/ txn.pc \in {"ledger", "snapshot"} /\ txn.fold = "before"

\* It is about to make the snapshot of its result.
Folding == txn.pc \in {"ledger", "snapshot"} /\ txn.fold = "after"

\* A transaction that changes the main state and has not done so.
AppendsMain ==
  /\ txn.after.main = AppendEntry(txn.before.main, issued)
  /\ txn.after.main # txn.before.main /\ txn.after.main # snapshot
  /\ txn.after.work = work /\ txn.before.work = work

TxnOK ==
  /\ txn.pc = "none" <=> lock = None
  /\ Reading =>
       /\ JournalBelongs /\ Sound
       /\ Replayed.main = txn.before.main
       /\ txn.before.work = work
  /\ txn.pc = "persistWork" => issued # 0
  /\ txn.pc = "persistWork" =>
       \/ AppendsMain
       \/ txn.after.main = txn.before.main /\ txn.after.work = issued
  /\ txn.pc = "append" \/ (txn.pc \in {"ledger", "snapshot", "truncate"} /\ txn.fold = "before")
       => AppendsMain
  /\ Folding =>
       /\ txn.after.work = work
       /\ NotOf(txn.after.main)
       /\ \/ txn.after.main = committed.main
          \/ txn.after.main = AppendEntry(committed.main, issued)
  /\ txn.pc = "truncate" =>
       /\ snapshot = committed.main
       /\ txn.fold = "before" => txn.before.main = committed.main

\* Room.
Due == txn.pc \in {"ledger", "snapshot", "truncate"} /\ txn.fold = "after"
RoomOK ==
  /\ JournalBytes <= JournalMax
  /\ Len(journal) <= MaxEntries + crashes + torn - (IF Due THEN 0 ELSE 1)
  /\ txn.pc = "append" => JournalBytes + txn.size <= JournalMax
  /\ txn.pc \in {"ledger", "snapshot", "truncate"} /\ txn.fold = "before" => txn.size < JournalMax
  /\ txn.pc \in {"persistWork", "append"} => Len(journal) <= txn.entries + torn

JournalInd == TypeOK /\ NumbersOK /\ DiskOK /\ TxnOK /\ RoomOK

(***************************************************************************)
(* Induction up to a number, and functions defined by recursion on it.     *)
(***************************************************************************)
LEMMA UpTo ==
  ASSUME NEW n \in Nat, NEW T, 0 \in T, \A i \in 1..n : i - 1 \in T => i \in T
  PROVE  \A i \in 0..n : i \in T
<1> DEFINE Left == {i \in 0..n : i \notin T}
<1> SUFFICES ASSUME Left # {} PROVE FALSE
  OBVIOUS
<1> DEFINE R == {p \in Nat \X Nat : p[1] < p[2]}
<1>1. IsWellFoundedOn(R, Nat)
  BY NatLessThanWellFounded DEF OpToRel
<1>2. ASSUME NEW x \in Nat, NEW y \in Nat, y < x PROVE <<y, x>> \in R
  BY <1>2
<1>3. PICK x \in Left : \A y \in Left : ~ (<<y, x>> \in R)
  <2>1. Left \subseteq Nat
    OBVIOUS
  <2> HIDE DEF Left, R
  <2> QED BY <1>1, <2>1, WFMin
<1> HIDE DEF R
<1>4. x \in 0..n /\ x \notin T
  BY <1>3
<1>5. x \in Nat /\ x \in 1..n /\ x - 1 \in 0..n /\ x - 1 \in Nat /\ x - 1 < x
  BY <1>4
<1>6. x - 1 \in Left
  BY <1>4, <1>5
<1>7. <<x - 1, x>> \in R
  BY <1>2, <1>5
<1> QED BY <1>3, <1>6, <1>7

\* r[i] is what the first i of the functions F make of b.
FoldsTo(S, n, b, F, r) ==
  r \in [0..n -> S] /\ r[0] = b /\ \A i \in 1..n : r[i] = F[i][r[i - 1]]

LEMMA FoldExists ==
  ASSUME NEW S, NEW n \in Nat, NEW b \in S, NEW F, \A i \in 1..n : F[i] \in [S -> S]
  PROVE  \E r : FoldsTo(S, n, b, F, r)
<1> DEFINE Folds(m, r) == r \in [0..m -> S] /\ r[0] = b /\ \A i \in 1..m : r[i] = F[i][r[i - 1]]
           T == {m \in 0..n : \E r : Folds(m, r)}
<1>1. 0 \in T
  <2>1. Folds(0, [i \in 0..0 |-> b])
    OBVIOUS
  <2>2. \E r : Folds(0, r)
    BY <2>1
  <2> QED BY <2>2
<1>2. ASSUME NEW m \in 1..n, m - 1 \in T PROVE m \in T
  <2>1. PICK r : Folds(m - 1, r)
    BY <1>2
  <2> DEFINE q == [i \in 0..m |-> IF i = m THEN F[m][r[m - 1]] ELSE r[i]]
  <2>2. r[m - 1] \in S /\ F[m][r[m - 1]] \in S
    BY <2>1
  <2>3. q \in [0..m -> S]
    BY <2>1, <2>2
  <2>4. ASSUME NEW i \in 1..m PROVE q[i] = F[i][q[i - 1]]
    <3>1. CASE i = m
      BY <3>1
    <3>2. CASE i # m
      BY <2>1, <3>2
    <3> QED BY <3>1, <3>2
  <2>5. q[0] = b
    BY <2>1
  <2> HIDE DEF q
  <2>6. Folds(m, q)
    BY <2>3, <2>4, <2>5
  <2> QED BY <2>6
<1> HIDE DEF T
<1>3. n \in T
  BY <1>1, <1>2, UpTo
<1> QED BY <1>3 DEF T, FoldsTo

(***************************************************************************)
(* Replay.                                                                 *)
(***************************************************************************)
Change == [op : {"append", "assoc"}, from : Nat, value : Seq(Nat)]
Played == [fits : BOOLEAN, main : Seq(Nat), applied : Nat]
IsLine(l) == l.ok \in BOOLEAN /\ l.delta \in Change

LEMMA ApplyLineType ==
  ASSUME NEW s \in Played, NEW l, IsLine(l)
  PROVE  ApplyLine(s, l) \in Played
<1> DEFINE t == [s EXCEPT !.applied = @ + 1]
<1>1. t \in Played
  BY DEF Played
<1>2. s.main \o l.delta.value \in Seq(Nat) /\ t.main = s.main
  BY ConcatProperties DEF Played, IsLine, Change
<1> HIDE DEF t
<1>3. ApplyOp(t, l.delta) \in Played
  BY <1>1, <1>2 DEF ApplyOp, IsLine, Change, Played
<1> QED BY <1>3 DEF ApplyLine, t

\* What r[i] says for each i is what the first i lines make of the base.
Replays(base, lines, r) ==
  /\ r \in [0..Len(lines) -> Played]
  /\ r[0] = Unplayed(base)
  /\ \A i \in 1..Len(lines) : r[i] = ApplyLine(r[i - 1], lines[i])

LEMMA ReplaySteps ==
  ASSUME NEW base \in Seq(Nat), NEW lines, Len(lines) \in Nat,
         \A i \in 1..Len(lines) : IsLine(lines[i])
  PROVE  \E r : Replays(base, lines, r) /\ Replay(base, lines) = r[Len(lines)]
<1> DEFINE n == Len(lines)
           F == [i \in 1..n |-> [s \in Played |-> ApplyLine(s, lines[i])]]
           Upto(u) == u = [i \in 0..n |-> IF i = 0 THEN Unplayed(base) ELSE ApplyLine(u[i - 1], lines[i])]
           u == CHOOSE f : Upto(f)
<1>1. Unplayed(base) \in Played
  BY DEF Unplayed, Played
<1>2. ASSUME NEW i \in 1..n PROVE F[i] \in [Played -> Played]
  BY ApplyLineType
<1>3. \A i \in 1..n : \A s \in Played : F[i][s] = ApplyLine(s, lines[i])
  OBVIOUS
<1>4. n \in Nat /\ n = Len(lines)
  OBVIOUS
<1> HIDE DEF F, n
<1>5. PICK r : FoldsTo(Played, n, Unplayed(base), F, r)
  BY <1>1, <1>2, <1>4, FoldExists, Zenon
<1>6. r \in [0..n -> Played] /\ r[0] = Unplayed(base)
  BY <1>5 DEF FoldsTo
<1>7. ASSUME NEW i \in 1..n PROVE r[i] = ApplyLine(r[i - 1], lines[i])
  <2>1. i - 1 \in 0..n
    BY <1>4
  <2>2. r[i] = F[i][r[i - 1]] /\ r[i - 1] \in Played
    BY <1>5, <1>6, <2>1 DEF FoldsTo
  <2> QED BY <2>2, <1>3
<1>8. Upto(r)
  <2>1. ASSUME NEW i \in 0..n
        PROVE  r[i] = IF i = 0 THEN Unplayed(base) ELSE ApplyLine(r[i - 1], lines[i])
    BY <1>6, <1>7
  <2> QED BY <1>6, <2>1
<1>9. Upto(u)
  BY <1>8
<1>10. Replay(base, lines) = u[n]
  BY DEF Replay, n
<1> HIDE DEF u
<1>11. u[0] = Unplayed(base) /\ \A i \in 1..n : u[i] = ApplyLine(u[i - 1], lines[i])
  <2> DEFINE Val(i) == IF i = 0 THEN Unplayed(base) ELSE ApplyLine(u[i - 1], lines[i])
  <2>1. u = [i \in 0..n |-> Val(i)]
    BY <1>9
  <2> HIDE DEF Val
  <2>2. \A i \in 0..n : u[i] = Val(i)
    BY <2>1
  <2>3. 0 \in 0..n /\ \A i \in 1..n : i \in 0..n /\ i # 0
    BY <1>4
  <2> QED BY <2>2, <2>3 DEF Val
<1>12. \A i \in 0..n : u[i] = r[i]
  <2> DEFINE T == {i \in 0..n : u[i] = r[i]}
  <2>1. 0 \in T
    BY <1>4, <1>6, <1>11
  <2>2. \A i \in 1..n : i - 1 \in T => i \in T
    BY <1>4, <1>7, <1>11
  <2> HIDE DEF T
  <2>3. \A i \in 0..n : i \in T
    BY <1>4, <2>1, <2>2, UpTo
  <2> QED BY <2>3 DEF T
<1>13. Replays(base, lines, r)
  BY <1>4, <1>6, <1>7 DEF Replays
<1>14. u[n] = r[n] /\ n = Len(lines)
  BY <1>4, <1>12
<1> QED BY <1>10, <1>13, <1>14

LEMMA LineIs ==
  ASSUME JournalBounds, NEW l \in Line
  PROVE  IsLine(l) /\ l.size \in Nat /\ l.ok \in BOOLEAN
<1>1. l.delta.value \in Seq(1..MaxTxns) /\ 1..MaxTxns \subseteq Nat
  BY DEF Line, JournalBounds
<1>2. l.delta.value \in Seq(Nat)
  BY <1>1, SeqMonotonic
<1>3. l.delta \in Change
  <2>1. l.delta \in [op : {"append", "assoc"}, from : 0..Window, value : Seq(1..MaxTxns)]
    BY DEF Line
  <2> HIDE DEF Line
  <2> QED BY <2>1, <1>2 DEF Change, JournalBounds
<1> QED BY <1>3 DEF Line, IsLine

LEMMA LinesAre ==
  ASSUME JournalBounds, NEW lines \in Seq(Line)
  PROVE  /\ Len(lines) \in Nat
         /\ \A i \in 1..Len(lines) : /\ IsLine(lines[i]) /\ lines[i] \in Line
                                     /\ lines[i].size \in Nat /\ lines[i].ok \in BOOLEAN
<1>1. Len(lines) \in Nat /\ \A i \in 1..Len(lines) : lines[i] \in Line
  BY LenProperties, ElementOfSeq
<1> QED BY <1>1, LineIs

LEMMA ReplayType ==
  ASSUME JournalBounds, NEW base \in Seq(Nat), NEW lines \in Seq(Line)
  PROVE  Replay(base, lines) \in Played
<1>1. PICK r : Replays(base, lines, r) /\ Replay(base, lines) = r[Len(lines)]
  BY LinesAre, ReplaySteps
<1>2. Len(lines) \in 0..Len(lines)
  BY LinesAre
<1> QED BY <1>1, <1>2 DEF Replays

LEMMA ReplayEmpty ==
  ASSUME JournalBounds, NEW base \in Seq(Nat)
  PROVE  Replay(base, <<>>) = Unplayed(base)
<1>1. <<>> \in Seq(Line) /\ Len(<<>>) = 0
  BY EmptySeq
<1>2. PICK r : Replays(base, <<>>, r) /\ Replay(base, <<>>) = r[Len(<<>>)]
  BY <1>1, LinesAre, ReplaySteps
<1> QED BY <1>1, <1>2 DEF Replays

LEMMA ReplayAppend ==
  ASSUME JournalBounds, NEW base \in Seq(Nat), NEW lines \in Seq(Line), NEW l \in Line
  PROVE  Replay(base, Append(lines, l)) = ApplyLine(Replay(base, lines), l)
<1> DEFINE n == Len(lines)
           more == Append(lines, l)
<1>1. /\ more \in Seq(Line) /\ Len(more) = n + 1 /\ more[n + 1] = l /\ n \in Nat
      /\ \A i \in 1..n : more[i] = lines[i]
  BY AppendProperties, LenProperties
<1>2. PICK r : Replays(base, lines, r) /\ Replay(base, lines) = r[n]
  BY LinesAre, ReplaySteps
<1> HIDE DEF more
<1>3. PICK q : Replays(base, more, q) /\ Replay(base, more) = q[Len(more)]
  BY <1>1, LinesAre, ReplaySteps
<1>4. r[0] = Unplayed(base) /\ \A i \in 1..n : r[i] = ApplyLine(r[i - 1], lines[i])
  BY <1>2 DEF Replays
<1>5. q[0] = Unplayed(base) /\ \A i \in 1..(n + 1) : q[i] = ApplyLine(q[i - 1], more[i])
  BY <1>1, <1>3 DEF Replays
<1> HIDE DEF n
<1>6. \A i \in 0..n : r[i] = q[i]
  <2> DEFINE T == {i \in 0..n : r[i] = q[i]}
  <2>1. 0 \in T
    BY <1>1, <1>4, <1>5
  <2>2. \A i \in 1..n : i - 1 \in T => i \in T
    BY <1>1, <1>4, <1>5
  <2> HIDE DEF T
  <2>3. \A i \in 0..n : i \in T
    BY <1>1, <2>1, <2>2, UpTo
  <2> QED BY <2>3 DEF T
<1>7. q[n + 1] = ApplyLine(q[n], l) /\ r[n] = q[n]
  BY <1>1, <1>5, <1>6
<1> QED BY <1>1, <1>2, <1>3, <1>7 DEF more

(***************************************************************************)
(* Sizes.                                                                  *)
(***************************************************************************)
Counts(lines, r) ==
  /\ r \in [0..Len(lines) -> Nat]
  /\ r[0] = 0
  /\ \A i \in 1..Len(lines) : r[i] = r[i - 1] + lines[i].size

LEMMA BytesSteps ==
  ASSUME JournalBounds, NEW lines \in Seq(Line)
  PROVE  \E r : Counts(lines, r) /\ Bytes(lines) = r[Len(lines)]
<1> DEFINE n == Len(lines)
           F == [i \in 1..n |-> [s \in Nat |-> s + lines[i].size]]
           Upto(u) == u = [i \in 0..n |-> IF i = 0 THEN 0 ELSE u[i - 1] + lines[i].size]
           u == CHOOSE f : Upto(f)
<1>1. n \in Nat /\ n = Len(lines) /\ \A i \in 1..n : lines[i].size \in Nat
  BY LinesAre
<1>2. Bytes(lines) = u[n]
  BY DEF Bytes
<1>3. ASSUME NEW i \in 1..n PROVE F[i] \in [Nat -> Nat]
  BY <1>1
<1>4. \A i \in 1..n : \A s \in Nat : F[i][s] = s + lines[i].size
  OBVIOUS
<1> HIDE DEF F, n
<1>5. PICK r : FoldsTo(Nat, n, 0, F, r)
  BY <1>1, <1>3, FoldExists, Zenon
<1>6. r \in [0..n -> Nat] /\ r[0] = 0
  BY <1>5 DEF FoldsTo
<1>7. ASSUME NEW i \in 1..n PROVE r[i] = r[i - 1] + lines[i].size
  <2>1. i - 1 \in 0..n
    BY <1>1
  <2>2. r[i] = F[i][r[i - 1]] /\ r[i - 1] \in Nat
    BY <1>5, <1>6, <2>1 DEF FoldsTo
  <2> QED BY <2>2, <1>4
<1>8. Upto(r)
  <2>1. ASSUME NEW i \in 0..n
        PROVE  r[i] = IF i = 0 THEN 0 ELSE r[i - 1] + lines[i].size
    BY <1>6, <1>7
  <2> QED BY <1>6, <2>1
<1>9. Upto(u)
  BY <1>8
<1> HIDE DEF u
<1>10. u[0] = 0 /\ \A i \in 1..n : u[i] = u[i - 1] + lines[i].size
  <2> DEFINE Val(i) == IF i = 0 THEN 0 ELSE u[i - 1] + lines[i].size
  <2>1. u = [i \in 0..n |-> Val(i)]
    BY <1>9
  <2> HIDE DEF Val
  <2>2. \A i \in 0..n : u[i] = Val(i)
    BY <2>1
  <2>3. 0 \in 0..n /\ \A i \in 1..n : i \in 0..n /\ i # 0
    BY <1>1
  <2> QED BY <2>2, <2>3 DEF Val
<1>11. \A i \in 0..n : u[i] = r[i]
  <2> DEFINE T == {i \in 0..n : u[i] = r[i]}
  <2>1. 0 \in T
    BY <1>1, <1>6, <1>10
  <2>2. \A i \in 1..n : i - 1 \in T => i \in T
    BY <1>1, <1>7, <1>10
  <2> HIDE DEF T
  <2>3. \A i \in 0..n : i \in T
    BY <1>1, <2>1, <2>2, UpTo
  <2> QED BY <2>3 DEF T
<1>12. Counts(lines, r)
  BY <1>1, <1>6, <1>7 DEF Counts
<1>13. u[n] = r[n]
  BY <1>1, <1>11
<1> QED BY <1>1, <1>2, <1>12, <1>13

LEMMA BytesType ==
  ASSUME JournalBounds, NEW lines \in Seq(Line)
  PROVE  Bytes(lines) \in Nat
<1>1. PICK r : Counts(lines, r) /\ Bytes(lines) = r[Len(lines)]
  BY BytesSteps
<1>2. Len(lines) \in 0..Len(lines)
  BY LinesAre
<1> QED BY <1>1, <1>2 DEF Counts

LEMMA BytesEmpty ==
  ASSUME JournalBounds
  PROVE  Bytes(<<>>) = 0
<1>1. <<>> \in Seq(Line) /\ Len(<<>>) = 0
  BY EmptySeq
<1>2. PICK r : Counts(<<>>, r) /\ Bytes(<<>>) = r[Len(<<>>)]
  BY <1>1, BytesSteps
<1> QED BY <1>1, <1>2 DEF Counts

LEMMA BytesAppend ==
  ASSUME JournalBounds, NEW lines \in Seq(Line), NEW l \in Line
  PROVE  Bytes(Append(lines, l)) = Bytes(lines) + l.size
<1> DEFINE n == Len(lines)
           more == Append(lines, l)
<1>1. /\ more \in Seq(Line) /\ Len(more) = n + 1 /\ more[n + 1] = l /\ n \in Nat
      /\ \A i \in 1..n : more[i] = lines[i]
  BY AppendProperties, LenProperties
<1>2. PICK r : Counts(lines, r) /\ Bytes(lines) = r[n]
  BY BytesSteps
<1> HIDE DEF more
<1>3. PICK q : Counts(more, q) /\ Bytes(more) = q[Len(more)]
  BY <1>1, BytesSteps
<1>4. r[0] = 0 /\ \A i \in 1..n : r[i] = r[i - 1] + lines[i].size
  BY <1>2 DEF Counts
<1>5. q[0] = 0 /\ \A i \in 1..(n + 1) : q[i] = q[i - 1] + more[i].size
  BY <1>1, <1>3 DEF Counts
<1> HIDE DEF n
<1>6. \A i \in 0..n : r[i] = q[i]
  <2> DEFINE T == {i \in 0..n : r[i] = q[i]}
  <2>1. 0 \in T
    BY <1>1, <1>4, <1>5
  <2>2. \A i \in 1..n : i - 1 \in T => i \in T
    BY <1>1, <1>4, <1>5
  <2> HIDE DEF T
  <2>3. \A i \in 0..n : i \in T
    BY <1>1, <2>1, <2>2, UpTo
  <2> QED BY <2>3 DEF T
<1>7. q[n + 1] = q[n] + l.size /\ r[n] = q[n]
  BY <1>1, <1>5, <1>6
<1> QED BY <1>1, <1>2, <1>3, <1>7 DEF more

(***************************************************************************)
(* Entries, increments and lines.                                          *)
(***************************************************************************)
LEMMA EntryAdded ==
  ASSUME JournalBounds, NEW S, NEW log \in Seq(S), NEW n \in S, Len(log) <= Window
  PROVE  /\ AppendEntry(log, n) \in Seq(S)
         /\ Len(AppendEntry(log, n)) \in 1..Window
         /\ AppendEntry(log, n)[Len(AppendEntry(log, n))] = n
<1> DEFINE all == Append(log, n)
           L == Len(all)
           new == AppendEntry(log, n)
<1>1. all \in Seq(S) /\ L = Len(log) + 1 /\ all[L] = n /\ Len(log) \in Nat /\ L \in Nat
  BY AppendProperties, LenProperties
<1>2. \A i \in 1..L : all[i] \in S
  BY <1>1, ElementOfSeq
<1>3. new = IF L > Window THEN SubSeq(all, L - Window + 1, L) ELSE all
  BY DEF AppendEntry, Implemented!AppendEntry
<1>4. Window \in Nat \ {0}
  BY DEF JournalBounds
<1> HIDE DEF all, L, new
<1>5. CASE L > Window
  <2>1. L = Window + 1 /\ L - Window + 1 = 2 /\ 2 \in Int /\ L \in Int
    BY <1>1, <1>4, <1>5 DEF L
  <2>2. \A i \in 2..L : all[i] \in S
    BY <1>2
  <2>3. /\ SubSeq(all, 2, L) \in Seq(S)
        /\ Len(SubSeq(all, 2, L)) = IF 2 <= L THEN L - 2 + 1 ELSE 0
        /\ \A i \in 1..(L - 2 + 1) : SubSeq(all, 2, L)[i] = all[2 + i - 1]
    BY <2>1, <2>2, SubSeqProperties
  <2>4. Len(new) = Window /\ new \in Seq(S) /\ new[Window] = all[L]
    BY <1>3, <1>4, <1>5, <2>1, <2>3
  <2> QED BY <1>1, <1>4, <2>4 DEF new
<1>6. CASE ~(L > Window)
  BY <1>1, <1>3, <1>4, <1>6 DEF L, new
<1> QED BY <1>5, <1>6

\* The numbers of a log stay numbers when one more is issued.
LEMMA MoreNumbers ==
  ASSUME NEW k \in Nat
  PROVE  \A s \in Seq(1..k) : s \in Seq(1..(k + 1))
<1>1. 1..k \subseteq 1..(k + 1)
  OBVIOUS
<1> QED BY <1>1, SeqMonotonic

\* A new entry makes a log that is not one of the logs before it.
LEMMA EntryIsNew ==
  ASSUME JournalBounds, NEW log, NEW k \in Nat, log \in Seq(1..k), Len(log) <= Window,
         NEW old \in Seq(1..k)
  PROVE  AppendEntry(log, k + 1) # old
<1>1. log \in Seq(1..(k + 1)) /\ k + 1 \in 1..(k + 1)
  <2>1. log \in Seq(1..(k + 1))
    BY MoreNumbers
  <2>2. k + 1 \in 1..(k + 1)
    OBVIOUS
  <2> QED BY <2>1, <2>2
<1>2. /\ Len(AppendEntry(log, k + 1)) \in 1..Window
      /\ AppendEntry(log, k + 1)[Len(AppendEntry(log, k + 1))] = k + 1
  <2> DEFINE n == k + 1
             S == 1..n
  <2>1. log \in Seq(S) /\ n \in S
    BY <1>1
  <2> HIDE DEF S
  <2>2. Len(AppendEntry(log, n)) \in 1..Window /\ AppendEntry(log, n)[Len(AppendEntry(log, n))] = n
    BY <2>1, EntryAdded
  <2> QED BY <2>2
<1> SUFFICES ASSUME AppendEntry(log, k + 1) = old PROVE FALSE
  OBVIOUS
<1>3. Len(old) \in 1..Len(old) /\ old[Len(old)] = k + 1
  BY <1>2, LenProperties
<1>4. old[Len(old)] \in 1..k
  BY <1>3, ElementOfSeq
<1> QED BY <1>3, <1>4

LEMMA DeltaType ==
  ASSUME JournalBounds, NEW S, NEW before \in Seq(S), NEW after \in Seq(S), Len(before) <= Window
  PROVE  Delta(before, after) \in [op : {"append", "assoc"}, from : 0..Window, value : Seq(S)]
<1>1. Len(before) \in 0..Window /\ Len(before) + 1 \in Int /\ Len(after) \in Int /\ Len(after) \in Nat
  BY LenProperties DEF JournalBounds
<1>2. \A i \in (Len(before) + 1)..Len(after) : after[i] \in S
  BY <1>1, ElementOfSeq
<1>3. SubSeq(after, Len(before) + 1, Len(after)) \in Seq(S)
  BY <1>1, <1>2, SubSeqProperties
<1>4. 0 \in 0..Window
  BY DEF JournalBounds
<1> QED BY <1>1, <1>3, <1>4 DEF Delta

\* Applying the increment gives what it was computed from.
LEMMA DeltaRight ==
  ASSUME NEW s \in Played, NEW after \in Seq(Nat)
  PROVE  LET t == ApplyOp(s, Delta(s.main, after))
         IN  t.main = after /\ t.fits = s.fits /\ t.applied = s.applied
<1> DEFINE b == s.main
           n == Len(b)
           tail == SubSeq(after, n + 1, Len(after))
<1>1. b \in Seq(Nat) /\ n \in Nat /\ Len(after) \in Nat /\ n = Len(b) /\ b = s.main
  BY LenProperties DEF Played
<1> HIDE DEF n, b
<1>2. CASE b # <<>> /\ IsPrefix(b, after)
  <2>1. n <= Len(after) /\ SubSeq(b, 1, n) = SubSeq(after, 1, n)
    BY <1>1, <1>2 DEF IsPrefix
  <2>2. /\ SubSeq(b, 1, n) = b
        /\ tail \in Seq(Nat)
        /\ Len(tail) = Len(after) - n
        /\ \A i \in 1..(Len(after) - n) : tail[i] = after[n + i]
    <3>1. \A i \in (n + 1)..Len(after) : after[i] \in Nat
      BY <1>1, ElementOfSeq
    <3>2. /\ tail \in Seq(Nat)
          /\ Len(tail) = IF n + 1 <= Len(after) THEN Len(after) - (n + 1) + 1 ELSE 0
          /\ \A i \in 1..(Len(after) - (n + 1) + 1) : tail[i] = after[(n + 1) + i - 1]
      <4>1. n + 1 \in Int /\ Len(after) \in Int
        BY <1>1
      <4> QED BY <4>1, <3>1, SubSeqProperties
    <3>3. SubSeq(b, 1, n) = b
      BY <1>1, SubSeqFull
    <3> HIDE DEF tail
    <3>4. Len(tail) = Len(after) - n
      <4> DEFINE m == Len(after)
      <4>1. n \in Nat /\ m \in Nat /\ n <= m /\ Len(tail) = IF n + 1 <= m THEN m - (n + 1) + 1 ELSE 0
        BY <1>1, <2>1, <3>2
      <4> HIDE DEF m
      <4> QED BY <4>1 DEF m
    <3>5. ASSUME NEW i \in 1..(Len(after) - n) PROVE tail[i] = after[n + i]
      <4>1. i \in 1..(Len(after) - (n + 1) + 1) /\ (n + 1) + i - 1 = n + i
        BY <1>1
      <4> QED BY <3>2, <4>1
    <3> QED BY <3>2, <3>3, <3>4, <3>5
  <2>3. \A i \in 1..n : b[i] = after[i]
    <3>1. \A i \in 1..n : after[i] \in Nat
      <4>1. \A i \in 1..n : i \in 1..Len(after)
        BY <1>1, <2>1
      <4> QED BY <4>1, ElementOfSeq
    <3>2. \A i \in 1..(n - 1 + 1) : SubSeq(after, 1, n)[i] = after[1 + i - 1]
      <4>1. n \in Int /\ 1 \in Int
        BY <1>1
      <4> QED BY <4>1, <3>1, SubSeqProperties
    <3>3. ASSUME NEW i \in 1..n PROVE SubSeq(after, 1, n)[i] = after[i]
      <4>1. i \in 1..(n - 1 + 1) /\ 1 + i - 1 = i
        BY <1>1
      <4> QED BY <3>2, <4>1
    <3> QED BY <2>1, <2>2, <3>3
  <2>4. b \o tail = after
    <3>1. /\ b \o tail \in Seq(Nat) /\ Len(b \o tail) = n + Len(tail)
          /\ \A i \in 1..(n + Len(tail)) : (b \o tail)[i] = IF i <= n THEN b[i] ELSE tail[i - n]
      <4>1. tail \in Seq(Nat)
        BY <2>2
      <4> HIDE DEF tail
      <4> QED BY <1>1, <4>1, ConcatProperties
    <3> HIDE DEF tail
    <3>2. Len(b \o tail) = Len(after)
      BY <1>1, <2>1, <2>2, <3>1
    <3>3. ASSUME NEW i \in 1..Len(b \o tail) PROVE (b \o tail)[i] = after[i]
      <4>1. CASE i <= n
        BY <1>1, <2>1, <2>2, <2>3, <3>1, <3>2, <4>1
      <4>2. CASE ~(i <= n)
        <5>1. i - n \in 1..(Len(after) - n) /\ n + (i - n) = i
          BY <1>1, <3>2, <4>2
        <5> QED BY <1>1, <2>1, <2>2, <3>1, <3>2, <4>2, <5>1
      <4> QED BY <4>1, <4>2
    <3> QED BY <3>1, <3>2, <3>3, SeqEqual
  <2>5. Delta(b, after) = [op |-> "append", from |-> n, value |-> tail]
    BY <1>1, <1>2 DEF Delta
  <2> HIDE DEF tail
  <2>6. ApplyOp(s, Delta(b, after)) = [s EXCEPT !.main = @ \o tail]
    <3>1. Len(s.main) = n
      BY <1>1
    <3>2. /\ Delta(b, after).op = "append" /\ Delta(b, after).from = n
          /\ Delta(b, after).value = tail
      BY <2>5
    <3> QED BY <3>1, <3>2 DEF ApplyOp
  <2>7. s.main \o tail = after
    BY <1>1, <2>4
  <2>8. ApplyOp(s, Delta(b, after)).main = s.main \o tail
        /\ ApplyOp(s, Delta(b, after)).fits = s.fits
        /\ ApplyOp(s, Delta(b, after)).applied = s.applied
    BY <2>6 DEF Played
  <2> QED BY <1>1, <2>7, <2>8
<1>3. CASE ~(b # <<>> /\ IsPrefix(b, after))
  <2>1. Delta(b, after) = [op |-> "assoc", from |-> 0, value |-> after]
    BY <1>3 DEF Delta
  <2>2. ApplyOp(s, Delta(b, after)) = [s EXCEPT !.main = after]
    BY <2>1 DEF ApplyOp
  <2> QED BY <1>1, <2>2 DEF Played
<1> QED BY <1>2, <1>3

LEMMA GarbageIsLine ==
  ASSUME JournalBounds, NEW size \in Nat
  PROVE  Garbage(size) \in Line /\ ~Garbage(size).ok /\ Garbage(size).size = size
         /\ Garbage(size).base = None
<1>1. <<>> \in Seq(1..MaxTxns) /\ 0 \in 0..Window
  BY EmptySeq DEF JournalBounds
<1>2. NoDelta \in [op : {"append", "assoc"}, from : 0..Window, value : Seq(1..MaxTxns)]
  BY <1>1 DEF NoDelta
<1> HIDE DEF NoDelta
<1> QED BY <1>2 DEF Garbage, Line

\* A line written after an unfinished one is lost with it.
LEMMA WrittenGlued ==
  ASSUME JournalBounds, journal \in Seq(Line), ~terminated, journal # <<>>,
         ~journal[Len(journal)].ok, NEW l \in Line
  PROVE  /\ Written(l) \in Seq(Line)
         /\ Len(Written(l)) = Len(journal) /\ Len(journal) >= 1
         /\ \A i \in 1..(Len(journal) - 1) : Written(l)[i] = journal[i]
         /\ ~Written(l)[Len(journal)].ok /\ Written(l)[Len(journal)].base = None
         /\ Bytes(Written(l)) = JournalBytes + l.size
         /\ \A base \in Seq(Nat) : Replay(base, Written(l)) = Replay(base, journal)
<1> DEFINE n == Len(journal)
           f == Front(journal)
           g == Garbage(Last(journal).size + l.size)
<1>1. n \in Nat /\ n >= 1 /\ n = Len(journal)
  BY LenProperties, EmptySeq
<1>2. /\ \A i \in 1..n : journal[i] \in Line
      /\ journal[n] \in Line /\ Last(journal) = journal[n]
  BY <1>1, ElementOfSeq DEF Last
<1>3. journal[n].size \in Nat /\ l.size \in Nat /\ journal[n].size + l.size \in Nat
  BY <1>2, LineIs
<1> HIDE DEF n
<1>4. /\ f \in Seq(Line) /\ Len(f) = n - 1
      /\ \A i \in 1..(n - 1) : f[i] = journal[i]
  <2>1. /\ SubSeq(journal, 1, n - 1) \in Seq(Line)
        /\ Len(SubSeq(journal, 1, n - 1)) = IF 1 <= n - 1 THEN (n - 1) - 1 + 1 ELSE 0
        /\ \A i \in 1..((n - 1) - 1 + 1) : SubSeq(journal, 1, n - 1)[i] = journal[1 + i - 1]
    <3>1. n - 1 \in Int /\ 1 \in Int /\ \A i \in 1..(n - 1) : journal[i] \in Line
      BY <1>1, <1>2
    <3> QED BY <3>1, SubSeqProperties
  <2>2. f = SubSeq(journal, 1, n - 1)
    BY <1>1 DEF Front
  <2> HIDE DEF f
  <2>3. Len(f) = n - 1 /\ f \in Seq(Line)
    BY <1>1, <2>1, <2>2
  <2>4. ASSUME NEW i \in 1..(n - 1) PROVE f[i] = journal[i]
    <3>1. i \in 1..((n - 1) - 1 + 1) /\ 1 + i - 1 = i
      BY <1>1
    <3> QED BY <2>1, <2>2, <3>1
  <2> QED BY <2>3, <2>4
<1>5. Append(f, journal[n]) = journal
  <2>1. /\ Append(f, journal[n]) \in Seq(Line) /\ Len(Append(f, journal[n])) = Len(f) + 1
        /\ \A i \in 1..Len(f) : Append(f, journal[n])[i] = f[i]
        /\ Append(f, journal[n])[Len(f) + 1] = journal[n]
    BY <1>2, <1>4, AppendProperties
  <2> HIDE DEF f
  <2>2. Len(f) + 1 = n
    BY <1>1, <1>4
  <2>3. ASSUME NEW i \in 1..n PROVE Append(f, journal[n])[i] = journal[i]
    <3>1. CASE i = n
      BY <2>1, <2>2, <3>1
    <3>2. CASE i # n
      <4>1. i \in 1..Len(f) /\ i \in 1..(n - 1)
        BY <1>1, <1>4, <3>2
      <4> QED BY <1>4, <2>1, <4>1
    <3> QED BY <3>1, <3>2
  <2>4. Len(Append(f, journal[n])) = Len(journal)
    BY <1>1, <2>1, <2>2
  <2>5. \A i \in 1..Len(Append(f, journal[n])) : Append(f, journal[n])[i] = journal[i]
    BY <1>1, <2>3, <2>4
  <2> QED BY <2>1, <2>4, <2>5, SeqEqual
<1>6. Written(l) = Append(f, g)
  BY DEF Written
<1>7. g \in Line /\ ~g.ok /\ g.base = None /\ g.size = journal[n].size + l.size
  BY <1>2, <1>3, GarbageIsLine
<1> HIDE DEF f, g
<1>8. /\ Written(l) \in Seq(Line) /\ Len(Written(l)) = n
      /\ \A i \in 1..(n - 1) : Written(l)[i] = journal[i]
      /\ Written(l)[n] = g
  <2>1. /\ Append(f, g) \in Seq(Line) /\ Len(Append(f, g)) = Len(f) + 1
        /\ \A i \in 1..Len(f) : Append(f, g)[i] = f[i]
        /\ Append(f, g)[Len(f) + 1] = g
    BY <1>4, <1>7, AppendProperties
  <2>2. Len(f) + 1 = n
    BY <1>1, <1>4
  <2> QED BY <1>4, <1>6, <2>1, <2>2
<1>9. Bytes(Written(l)) = JournalBytes + l.size
  <2>1. Bytes(Append(f, g)) = Bytes(f) + (journal[n].size + l.size)
    BY <1>4, <1>7, BytesAppend
  <2>2. Bytes(Append(f, journal[n])) = Bytes(f) + journal[n].size
    BY <1>2, <1>4, BytesAppend
  <2>3. Bytes(f) \in Nat
    BY <1>4, BytesType
  <2>4. JournalBytes = Bytes(f) + journal[n].size
    BY <1>5, <2>2 DEF JournalBytes
  <2>5. Bytes(Written(l)) = Bytes(f) + (journal[n].size + l.size)
    BY <1>6, <2>1
  <2>6. Bytes(f) + (journal[n].size + l.size) = (Bytes(f) + journal[n].size) + l.size
    <3>1. \A a, b, c \in Nat : a + (b + c) = (a + b) + c
      OBVIOUS
    <3> QED BY <1>3, <2>3, <3>1
  <2> QED BY <2>4, <2>5, <2>6
<1>10. ASSUME NEW base \in Seq(Nat) PROVE Replay(base, Written(l)) = Replay(base, journal)
  <2>1. Replay(base, Append(f, g)) = ApplyLine(Replay(base, f), g)
    BY <1>4, <1>7, ReplayAppend
  <2>2. Replay(base, Append(f, journal[n])) = ApplyLine(Replay(base, f), journal[n])
    BY <1>2, <1>4, ReplayAppend
  <2>3. ~journal[n].ok
    BY <1>1
  <2> QED BY <1>5, <1>6, <1>7, <2>1, <2>2, <2>3 DEF ApplyLine
<1> QED BY <1>1, <1>7, <1>8, <1>9, <1>10

(***************************************************************************)
(* What the steps do to the files.                                         *)
(***************************************************************************)
LEMMA BaseIsLog ==
  ASSUME JournalBounds, TypeOK
  PROVE  Base \in Seq(Nat) /\ committed.main \in Seq(Nat) /\ Base \in Main
<1>1. 1..MaxTxns \subseteq Nat /\ <<>> \in Seq(1..MaxTxns) /\ Len(<<>>) = 0
  BY EmptySeq DEF JournalBounds
<1>2. committed.main \in Main
  BY DEF TypeOK, State
<1>3. <<>> \in Main
  BY <1>1 DEF Main, JournalBounds
<1>4. Base \in Main
  BY <1>3 DEF Base, TypeOK
<1>5. \A log \in Main : log \in Seq(Nat)
  BY <1>1, SeqMonotonic DEF Main
<1> QED BY <1>2, <1>4, <1>5

LEMMA ReplayedType ==
  ASSUME JournalBounds, TypeOK
  PROVE  Replayed \in Played
<1>1. Base \in Seq(Nat) /\ journal \in Seq(Line)
  BY BaseIsLog DEF TypeOK
<1>2. Unplayed(Base) \in Played
  BY <1>1 DEF Unplayed, Played
<1> QED BY <1>1, <1>2, ReplayType DEF Replayed

\* What can be loaded is what was committed.
LEMMA LoadsCommitted ==
  ASSUME JournalBounds, TypeOK, DiskOK
  PROVE  /\ Loadable <=> (JournalBelongs => Sound)
         /\ Loadable => Replayed.main = committed.main /\ Loaded = committed
<1>1. Loadable <=> (JournalBelongs => Sound)
  BY DEF Loadable, DiskOK, Sound
<1>2. ASSUME Loadable PROVE Replayed.main = committed.main /\ Loaded = committed
  <2>1. Replayed.main = committed.main /\ work = committed.work
    BY <1>1, <1>2 DEF DiskOK
  <2>2. committed \in [main : Main, work : 0..MaxTxns]
    BY DEF TypeOK, State
  <2> QED BY <2>1, <2>2 DEF Loaded
<1> QED BY <1>1, <1>2

\* An empty journal.
LEMMA NothingToReplay ==
  ASSUME JournalBounds, TypeOK, journal = <<>>
  PROVE  JournalBelongs /\ Sound /\ Replayed = Unplayed(Base) /\ JournalBytes = 0
         /\ Len(journal) = 0 /\ (\A log : NotOf(log))
<1>1. Len(journal) = 0 /\ JournalBelongs
  BY EmptySeq DEF JournalBelongs
<1>2. Replayed = Unplayed(Base)
  BY <1>1, BaseIsLog, ReplayEmpty DEF Replayed
<1>3. JournalBytes = 0
  BY BytesEmpty DEF JournalBytes
<1> QED BY <1>1, <1>2, <1>3 DEF Sound, NotOf

SameFiles == UNCHANGED <<snapshot, journal, terminated>>

LEMMA FilesKept ==
  ASSUME SameFiles
  PROVE  /\ JournalBelongs' = JournalBelongs /\ Replayed' = Replayed /\ Sound' = Sound
         /\ JournalBytes' = JournalBytes /\ Base' = Base
         /\ \A log : NotOf(log)' = NotOf(log)
BY DEF SameFiles, JournalBelongs, Replayed, Sound, JournalBytes, Base, NotOf

LEMMA DiskKept ==
  ASSUME DiskOK, SameFiles, torn' = torn, committed'.main = committed.main,
         work' = committed'.work
  PROVE  DiskOK'
<1>1. NotOf(committed.main)'
  BY FilesKept DEF DiskOK, NotOf, SameFiles
<1> QED BY <1>1, FilesKept DEF DiskOK, SameFiles

\* Loading moves a journal of another snapshot aside.
LEMMA DiskAfterLoading ==
  ASSUME JournalBounds, TypeOK, TypeOK', DiskOK, Loadable, SetAsideOrphan,
         UNCHANGED <<snapshot, work, committed, torn>>
  PROVE  /\ DiskOK' /\ JournalBelongs' /\ Sound'
         /\ Replayed' = Replayed
         /\ JournalBytes' <= JournalBytes
         /\ Len(journal') <= Len(journal)
         /\ \A log : NotOf(log) => NotOf(log)'
<1>1. CASE JournalBelongs
  <2>1. SameFiles /\ Sound
    BY <1>1, LoadsCommitted DEF SetAsideOrphan, SameFiles
  <2>2. DiskOK'
    BY <2>1, DiskKept DEF DiskOK
  <2>3. JournalBytes \in Nat /\ Len(journal) \in Nat
    BY BytesType, LenProperties DEF TypeOK, JournalBytes
  <2> QED BY <1>1, <2>1, <2>2, <2>3, FilesKept DEF SameFiles
<1>2. CASE ~JournalBelongs
  <2>1. journal' = <<>> /\ terminated' = TRUE
    BY <1>2 DEF SetAsideOrphan
  <2>2. /\ JournalBelongs' /\ Sound' /\ Replayed' = Unplayed(Base)' /\ JournalBytes' = 0
        /\ Len(journal') = 0 /\ (\A log : NotOf(log)')
    <3>1. Len(journal') = 0
      BY <2>1, EmptySeq
    <3>2. Replay(Base', journal') = Unplayed(Base')
      BY <2>1, BaseIsLog, ReplayEmpty DEF Base
    <3> QED BY <2>1, <3>1, <3>2, BytesEmpty
            DEF JournalBelongs, Sound, Replayed, Unplayed, JournalBytes, NotOf
  <2>3. Replayed' = Replayed
    BY <1>2, <2>2 DEF Replayed, Base, Unplayed
  <2>4. JournalBytes \in Nat /\ Len(journal) \in Nat /\ Replayed \in Played
    BY BytesType, LenProperties, ReplayedType DEF TypeOK, JournalBytes
  <2>5. Replayed.main = committed.main
    BY LoadsCommitted
  <2>6. DiskOK'
    BY <2>1, <2>2, <2>3, <2>4, <2>5 DEF DiskOK, Played
  <2> QED BY <2>2, <2>3, <2>4, <2>6
<1> QED BY <1>1, <1>2

LEMMA OneMoreApplied ==
  ASSUME NEW s \in Played
  PROVE  LET t == [s EXCEPT !.applied = @ + 1]
         IN  t \in Played /\ t.main = s.main /\ t.fits = s.fits /\ t.applied = s.applied + 1
BY DEF Played

\* A record of what a transaction changed, read back.
LEMMA RecordApplied ==
  ASSUME NEW s \in Played, NEW l, l.ok, NEW new \in Seq(Nat), l.delta = Delta(s.main, new)
  PROVE  /\ ApplyLine(s, l).main = new /\ ApplyLine(s, l).fits = s.fits
         /\ ApplyLine(s, l).applied = s.applied + 1
<1> DEFINE t == [s EXCEPT !.applied = @ + 1]
<1>1. t \in Played /\ t.main = s.main /\ t.fits = s.fits /\ t.applied = s.applied + 1
  BY OneMoreApplied
<1>2. ApplyLine(s, l) = ApplyOp(t, l.delta)
  BY DEF ApplyLine
<1> HIDE DEF t
<1>3. l.delta = Delta(t.main, new)
  BY <1>1
<1>4. /\ ApplyOp(t, Delta(t.main, new)).main = new
      /\ ApplyOp(t, Delta(t.main, new)).fits = t.fits
      /\ ApplyOp(t, Delta(t.main, new)).applied = t.applied
  BY <1>1, DeltaRight
<1> QED BY <1>1, <1>2, <1>3, <1>4

LEMMA DiskAfterRecord ==
  ASSUME JournalBounds, TypeOK, TypeOK', DiskOK, JournalBelongs, Sound,
         NEW l \in Line, l.ok, l.base = snapshot, committed'.main # snapshot,
         l.delta = Delta(Replayed.main, committed'.main),
         journal' = Written(l), terminated' = TRUE, snapshot' = snapshot, torn' = torn,
         work' = committed'.work
  PROVE  DiskOK' /\ Len(journal') <= Len(journal) + 1 /\ JournalBytes' = JournalBytes + l.size
<1> DEFINE n == Len(journal)
<1>1. journal \in Seq(Line) /\ n \in Nat /\ Base' = Base /\ Base \in Seq(Nat)
  BY LenProperties, BaseIsLog DEF TypeOK, Base
<1>2. committed'.main \in Seq(Nat) /\ Replayed \in Played /\ Replayed = Replay(Base, journal)
  <2>1. committed'.main \in Main /\ 1..MaxTxns \subseteq Nat
    BY DEF TypeOK, State
  <2>2. committed'.main \in Seq(Nat)
    BY <2>1, SeqMonotonic DEF Main
  <2> QED BY <2>2, ReplayedType DEF Replayed
<1>3. CASE terminated
  <2>1. journal' = Append(journal, l)
    BY <1>3 DEF Written
  <2>2. /\ Len(journal') = n + 1 /\ journal'[n + 1] = l
        /\ \A i \in 1..n : journal'[i] = journal[i]
    BY <1>1, <2>1, AppendProperties
  <2>3. JournalBytes' = JournalBytes + l.size
    BY <1>1, <2>1, BytesAppend DEF JournalBytes
  <2>4. Replay(Base, journal') = ApplyLine(Replayed, l)
    BY <1>1, <1>2, <2>1, ReplayAppend
  <2> HIDE DEF n
  <2>5. \A i \in 1..n : journal[i].ok
    BY <1>3 DEF Sound, n
  <2>6. journal' # <<>> /\ journal'[1].ok /\ journal'[1].base = snapshot
    <3>1. CASE n = 0
      <4>1. Len(journal') = 1 /\ journal'[1] = l
        BY <2>2, <3>1
      <4>2. Len(<<>>) = 0
        BY EmptySeq
      <4>3. journal' # <<>>
        <5> SUFFICES ASSUME journal' = <<>> PROVE FALSE
          OBVIOUS
        <5>1. Len(journal') = Len(<<>>)
          OBVIOUS
        <5> QED BY <4>1, <4>2, <5>1
      <4>4. journal'[1].ok
        BY <4>1, LineIs
      <4>5. journal'[1].base = snapshot
        BY <4>1
      <4> QED BY <4>3, <4>4, <4>5
    <3>2. CASE n # 0
      <4>1. 1 \in 1..n /\ journal # <<>> /\ journal' # <<>>
        BY <1>1, <2>2, <3>2, EmptySeq DEF n
      <4> QED BY <2>2, <2>5, <4>1 DEF JournalBelongs
    <3> QED BY <3>1, <3>2
  <2>7. JournalBelongs' /\ Replayed' = ApplyLine(Replayed, l)
    BY <1>1, <2>4, <2>6 DEF JournalBelongs, Replayed
  <2>8. \A i \in 1..Len(journal') : journal'[i].ok
    <3>1. ASSUME NEW i \in 1..(n + 1) PROVE journal'[i].ok
      BY <1>1, <2>2, <2>5, <3>1 DEF n
    <3> QED BY <2>2, <3>1
  <2>9. /\ Replayed'.main = committed'.main /\ Replayed'.fits
        /\ Replayed'.applied = Replayed.applied + 1
    BY <1>2, <2>7, RecordApplied DEF DiskOK
  <2>10. n <= Replayed.applied /\ Replayed.applied \in Nat
    BY <1>2, <1>3 DEF DiskOK, Played, n
  <2>11. NotOf(committed.main)'
    BY <2>6 DEF NotOf
  <2>12. Len(journal') <= Replayed'.applied + (IF terminated' THEN 0 ELSE 1)
    BY <1>1, <2>2, <2>9, <2>10 DEF n
  <2>13. DiskOK'
    BY <2>8, <2>9, <2>11, <2>12 DEF DiskOK
  <2> QED BY <1>1, <2>2, <2>3, <2>13 DEF n
<1>4. CASE ~terminated
  <2>1. journal # <<>> /\ ~journal[n].ok
    BY <1>4 DEF DiskOK
  <2>2. /\ Len(journal') = n /\ n >= 1
        /\ \A i \in 1..(n - 1) : journal'[i] = journal[i]
        /\ ~journal'[n].ok
        /\ JournalBytes' = JournalBytes + l.size
        /\ Replay(Base, journal') = Replay(Base, journal)
    BY <1>1, <1>4, <2>1, WrittenGlued DEF JournalBytes
  <2> HIDE DEF n
  <2>3. journal[1].ok /\ journal[1].base = snapshot
    BY <2>1 DEF JournalBelongs
  <2>4. n # 1 /\ 1 \in 1..(n - 1)
    BY <1>1, <2>1, <2>2, <2>3
  <2>5. journal'[1] = journal[1] /\ journal' # <<>>
    BY <2>2, <2>4, EmptySeq
  <2>6. JournalBelongs' /\ Replayed' = Replayed
    BY <1>1, <1>2, <2>2, <2>3, <2>5 DEF JournalBelongs, Replayed
  <2>7. ~Sound'
    BY <1>1, <2>2 DEF Sound
  <2>8. NotOf(committed.main)'
    BY <2>3, <2>5 DEF NotOf
  <2>9. torn # 0
    BY <1>1, <2>1, <2>2 DEF DiskOK, n
  <2>10. DiskOK'
    BY <2>6, <2>7, <2>8, <2>9 DEF DiskOK
  <2> QED BY <1>1, <2>2, <2>10 DEF n
<1> QED BY <1>3, <1>4

LEMMA DiskAfterTear ==
  ASSUME JournalBounds, TypeOK, TypeOK', DiskOK, JournalBelongs, Sound,
         NEW size \in Nat,
         journal' = Written(Garbage(size)), terminated' = FALSE, snapshot' = snapshot,
         torn' = torn + 1, UNCHANGED <<work, committed>>
  PROVE  DiskOK' /\ Len(journal') <= Len(journal) + 1 /\ JournalBytes' = JournalBytes + size
<1> DEFINE n == Len(journal)
           g == Garbage(size)
<1>1. journal \in Seq(Line) /\ n \in Nat /\ Base' = Base /\ Base \in Seq(Nat) /\ torn \in Nat
  BY LenProperties, BaseIsLog DEF TypeOK, Base, JournalBounds
<1>2. Replayed \in Played /\ Replayed = Replay(Base, journal) /\ Replayed.applied \in Nat
  BY ReplayedType DEF Replayed, Played
<1>3. g \in Line /\ ~g.ok /\ g.size = size /\ g.base = None
  BY GarbageIsLine
<1> HIDE DEF g
<1>4. Replayed.main = committed.main /\ Replayed.fits /\ torn' # 0
  BY <1>1 DEF DiskOK
<1>5. CASE terminated
  <2>1. journal' = Append(journal, g)
    BY <1>5 DEF Written, g
  <2>2. /\ Len(journal') = n + 1 /\ journal'[n + 1] = g
        /\ \A i \in 1..n : journal'[i] = journal[i]
    BY <1>1, <1>3, <2>1, AppendProperties
  <2>3. JournalBytes' = JournalBytes + size
    BY <1>1, <1>3, <2>1, BytesAppend DEF JournalBytes
  <2>4. Replay(Base, journal') = Replayed
    <3>1. Replay(Base, journal') = ApplyLine(Replayed, g)
      BY <1>1, <1>2, <1>3, <2>1, ReplayAppend
    <3> QED BY <1>3, <3>1 DEF ApplyLine
  <2> HIDE DEF n
  <2>5. \A i \in 1..n : journal[i].ok
    BY <1>5 DEF Sound, n
  <2>6. journal' # <<>> /\ ~journal'[Len(journal')].ok
    BY <1>1, <1>3, <2>2, EmptySeq
  <2>7. Sound'
    <3>1. ASSUME NEW i \in 1..(n + 1), i # n + 1 PROVE journal'[i].ok
      BY <1>1, <2>2, <2>5, <3>1
    <3> QED BY <1>1, <2>2, <3>1 DEF Sound
  <2>8. Replayed' = Replayed /\ NotOf(committed.main)'
    <3>1. CASE n = 0
      <4>1. journal = <<>> /\ journal'[1] = g
        BY <1>1, <2>2, <3>1, EmptySeq DEF n
      <4>2. ~JournalBelongs' /\ Replayed' = Unplayed(Base)
        BY <1>1, <1>3, <2>6, <4>1 DEF JournalBelongs, Replayed
      <4>3. Replayed = Unplayed(Base)
        BY <4>1, NothingToReplay
      <4> QED BY <1>3, <4>1, <4>2, <4>3 DEF NotOf
    <3>2. CASE n # 0
      <4>1. 1 \in 1..n /\ journal # <<>>
        BY <1>1, <2>2, <3>2, EmptySeq DEF n
      <4>2. journal'[1] = journal[1]
        BY <2>2, <4>1
      <4>3. JournalBelongs'
        BY <4>1, <4>2 DEF JournalBelongs
      <4>4. NotOf(committed.main)'
        BY <4>1, <4>2 DEF DiskOK, NotOf
      <4> QED BY <1>1, <2>4, <4>3, <4>4 DEF Replayed
    <3> QED BY <3>1, <3>2
  <2>9. n <= Replayed.applied
    BY <1>1, <1>2, <1>5 DEF DiskOK, n
  <2>10. Len(journal') <= Replayed'.applied + (IF terminated' THEN 0 ELSE 1)
    BY <1>1, <1>2, <2>2, <2>8, <2>9
  <2>11. DiskOK'
    BY <1>4, <2>6, <2>8, <2>10 DEF DiskOK
  <2> QED BY <1>1, <2>2, <2>3, <2>11 DEF n
<1>6. CASE ~terminated
  <2>1. journal # <<>> /\ ~journal[n].ok
    BY <1>6 DEF DiskOK
  <2>2. /\ Len(journal') = n /\ n >= 1
        /\ \A i \in 1..(n - 1) : journal'[i] = journal[i]
        /\ ~journal'[n].ok
        /\ JournalBytes' = JournalBytes + size
        /\ Replay(Base, journal') = Replay(Base, journal)
    BY <1>1, <1>3, <1>6, <2>1, WrittenGlued DEF JournalBytes, g
  <2> HIDE DEF n
  <2>3. journal[1].ok /\ journal[1].base = snapshot
    BY <2>1 DEF JournalBelongs
  <2>4. n # 1 /\ 1 \in 1..(n - 1)
    BY <1>1, <2>1, <2>2, <2>3
  <2>5. journal'[1] = journal[1] /\ journal' # <<>>
    BY <2>2, <2>4, EmptySeq
  <2>6. JournalBelongs' /\ Replayed' = Replayed
    BY <1>1, <1>2, <2>2, <2>3, <2>5 DEF JournalBelongs, Replayed
  <2>7. NotOf(committed.main)'
    BY <2>1, <2>5 DEF NotOf, DiskOK
  <2>8. n <= Replayed.applied + 1
    BY <1>6 DEF DiskOK, n
  <2>9. Len(journal') <= Replayed'.applied + (IF terminated' THEN 0 ELSE 1)
    BY <2>2, <2>6, <2>8
  <2>10. DiskOK'
    BY <1>4, <2>2, <2>5, <2>6, <2>7, <2>9 DEF DiskOK
  <2> QED BY <1>1, <2>2, <2>10 DEF n
<1> QED BY <1>5, <1>6

\* A snapshot of another state: the journal no longer belongs.
LEMMA DiskAfterSnapshot ==
  ASSUME JournalBounds, TypeOK, TypeOK', DiskOK, snapshot' # None,
         snapshot' = committed'.main, NotOf(snapshot'), UNCHANGED <<journal, terminated, torn>>,
         work' = committed'.work
  PROVE  DiskOK'
<1>1. NotOf(committed.main)'
  BY DEF NotOf
<1>2. Base' = committed'.main /\ Base' \in Seq(Nat) /\ journal \in Seq(Line)
  <2>1. Base' = committed'.main
    BY DEF Base
  <2>2. committed'.main \in Main /\ 1..MaxTxns \subseteq Nat
    BY DEF TypeOK, State
  <2>3. committed'.main \in Seq(Nat)
    BY <2>2, SeqMonotonic DEF Main
  <2> QED BY <2>1, <2>3 DEF TypeOK
<1>3. Replayed' = Unplayed(Base')
  <2>1. CASE journal = <<>>
    <3>1. Replay(Base', journal') = Unplayed(Base')
      BY <1>2, <2>1, ReplayEmpty
    <3> QED BY <3>1 DEF Replayed, Unplayed
  <2>2. CASE journal # <<>>
    BY <2>2 DEF Replayed, JournalBelongs, NotOf, Unplayed
  <2> QED BY <2>1, <2>2
<1>4. Replayed'.main = committed'.main /\ Replayed'.fits /\ Replayed'.applied = 0
  BY <1>2, <1>3 DEF Unplayed
<1>5. JournalBelongs' => journal' = <<>>
  BY DEF JournalBelongs, NotOf
<1>6. JournalBelongs' /\ Sound' => Len(journal') <= Replayed'.applied + (IF terminated' THEN 0 ELSE 1)
  BY <1>4, <1>5, EmptySeq
<1> QED BY <1>1, <1>4, <1>6 DEF DiskOK

LEMMA DiskAfterTruncate ==
  ASSUME JournalBounds, TypeOK, TypeOK', DiskOK, snapshot \in {None, committed.main},
         snapshot = None => committed.main = <<>>,
         journal' = <<>>, terminated' = TRUE, UNCHANGED <<snapshot, work, committed, torn>>
  PROVE  /\ DiskOK' /\ JournalBelongs' /\ Sound' /\ Replayed'.main = committed.main
         /\ Len(journal') = 0 /\ JournalBytes' = 0
<1>1. Base = committed.main /\ Base \in Seq(Nat) /\ Base' = Base
  BY BaseIsLog DEF Base
<1>2. Len(journal') = 0 /\ Replay(Base', journal') = Unplayed(Base') /\ JournalBytes' = 0
  BY <1>1, EmptySeq, ReplayEmpty, BytesEmpty DEF JournalBytes
<1>3. JournalBelongs' /\ Sound' /\ NotOf(committed.main)' /\ \A i \in 1..Len(journal') : journal'[i].ok
  BY <1>2 DEF JournalBelongs, Sound, NotOf
<1>4. Replayed'.main = committed.main /\ Replayed'.fits /\ Replayed'.applied = 0
  BY <1>1, <1>2, <1>3 DEF Replayed, Unplayed
<1>5. DiskOK'
  BY <1>2, <1>3, <1>4 DEF DiskOK
<1> QED BY <1>2, <1>3, <1>4, <1>5

(***************************************************************************)
(* The steps, one by one.                                                  *)
(***************************************************************************)
Phase == {"none", "persistWork", "ledger", "snapshot", "truncate", "append", "return"}
TxnType == [pc : Phase, before : State, after : State, fold : {"before", "after"},
            size : 1..JournalMax, entries : Nat]

LEMMA NoTxnType ==
  ASSUME JournalBounds
  PROVE  /\ NoTxn \in TxnType /\ Empty \in State
         /\ NoTxn.pc = "none" /\ NoTxn.fold = "after" /\ NoTxn.after = Empty
<1>1. <<>> \in Seq(1..MaxTxns) /\ Len(<<>>) = 0
  BY EmptySeq
<1>2. Empty \in State
  BY <1>1 DEF Empty, State, Main, JournalBounds
<1>3. 1 \in 1..JournalMax
  BY DEF JournalBounds
<1> QED BY <1>2, <1>3 DEF NoTxn, TxnType, Phase

\* What the bounds and the types say of numbers.
LEMMA NumberTypes ==
  ASSUME JournalBounds, TypeOK
  PROVE  /\ issued \in Nat /\ torn \in Nat /\ crashes \in Nat /\ Len(journal) \in Nat
         /\ JournalBytes \in Nat /\ txn.size \in Nat /\ txn.entries \in Nat
         /\ MaxEntries \in Nat \ {0} /\ JournalMax \in Nat \ {0}
         /\ Replayed.applied \in Nat
  BY BytesType, LenProperties, ReplayedType DEF TypeOK, JournalBounds, JournalBytes, Played

\* None is no log.
LEMMA NoneIsNoLog ==
  ASSUME JournalBounds, NEW log \in Main
  PROVE  log # None
BY DEF JournalBounds, Main

\* Only a torn append leaves a journal with a line more than was applied.
LEMMA LinesCounted ==
  ASSUME JournalBounds, TypeOK, DiskOK, JournalBelongs, Sound
  PROVE  Len(journal) <= Replayed.applied + torn
<1>1. Len(journal) \in Nat /\ torn \in Nat /\ Replayed.applied \in Nat
  BY NumberTypes
<1>2. CASE terminated
  BY <1>1, <1>2 DEF DiskOK
<1>3. CASE ~terminated
  <2>1. journal # <<>> /\ ~journal[Len(journal)].ok
    BY <1>3 DEF DiskOK
  <2>2. Len(journal) # 0
    BY <2>1, EmptySeq DEF TypeOK
  <2>3. torn # 0
    BY <1>1, <2>1, <2>2 DEF DiskOK
  <2>4. Len(journal) <= Replayed.applied + 1
    BY <1>3 DEF DiskOK
  <2> QED BY <1>1, <2>3, <2>4
<1> QED BY <1>2, <1>3

\* Loading, and what it leaves of the journal.
LEMMA LoadedLines ==
  ASSUME JournalBounds, TypeOK, TypeOK', DiskOK, Loadable, SetAsideOrphan
  PROVE  Len(journal') <= EntryCount + torn
<1>1. torn \in Nat /\ Replayed.applied \in Nat
  BY NumberTypes
<1>2. CASE JournalBelongs
  <2>1. Sound /\ journal' = journal
    BY <1>2, LoadsCommitted DEF SetAsideOrphan
  <2> QED BY <1>2, <2>1, LinesCounted DEF EntryCount
<1>3. CASE ~JournalBelongs
  <2>1. Len(journal') = 0
    BY <1>3, EmptySeq DEF SetAsideOrphan
  <2> QED BY <1>1, <2>1 DEF EntryCount
<1> QED BY <1>2, <1>3

\* A frame: the journal and the numbers in it.
LEMMA NumbersKept ==
  ASSUME NumbersOK, journal' \in {journal, <<>>}, UNCHANGED <<snapshot, issued>>,
         committed'.main \in {committed.main, txn.after.main},
         txn'.after.main \in {txn.after.main, committed.main, <<>>}
  PROVE  NumbersOK'
<1>1. Issued' = Issued /\ <<>> \in Issued
  BY EmptySeq DEF Issued
<1>2. \A i \in 1..Len(journal') : journal'[i].base \in Issued \cup {None}
  <2>1. CASE journal' = journal
    BY <2>1 DEF NumbersOK
  <2>2. CASE journal' = <<>>
    BY <2>2, EmptySeq
  <2> QED BY <2>1, <2>2
<1> QED BY <1>1, <1>2 DEF NumbersOK

LEMMA InitInd ==
  ASSUME JournalBounds, Init
  PROVE  JournalInd
<1>1. NoTxn \in TxnType /\ Empty \in State /\ NoTxn.pc = "none" /\ NoTxn.fold = "after"
      /\ NoTxn.after = Empty
  BY NoTxnType
<1>2. <<>> \in Seq(Line) /\ Len(<<>>) = 0 /\ \A S : <<>> \in Seq(S)
  BY EmptySeq
<1>3. TypeOK
  BY <1>1, <1>2 DEF Init, TypeOK, TxnType, Phase, JournalBounds
<1>4. JournalBelongs /\ Sound /\ Replayed = Unplayed(Base) /\ JournalBytes = 0
      /\ Len(journal) = 0 /\ (\A log : NotOf(log))
  BY <1>3, NothingToReplay DEF Init
<1>5. Empty.main = <<>> /\ Empty.work = 0
  BY DEF Empty
<1>6. NumbersOK
  BY <1>1, <1>2, <1>5 DEF Init, NumbersOK, Issued
<1>7. Replayed.main = <<>> /\ Replayed.fits /\ Replayed.applied = 0
  BY <1>4 DEF Base, Unplayed, Init
<1>8. DiskOK
  BY <1>4, <1>5, <1>7 DEF Init, DiskOK
<1>9. TxnOK
  BY <1>1 DEF Init, TxnOK, Reading, Folding
<1>10. RoomOK
  BY <1>1, <1>4 DEF Init, RoomOK, Due, JournalBounds
<1> QED BY <1>3, <1>6, <1>8, <1>9, <1>10 DEF JournalInd

LEMMA BeginStep ==
  ASSUME JournalBounds, JournalInd, NEW p \in Proc, Begin(p)
  PROVE  JournalInd'
<1> DEFINE x == issued + 1
<1>1. TypeOK /\ NumbersOK /\ DiskOK /\ TxnOK /\ RoomOK
  BY DEF JournalInd
<1>2. /\ lock = None /\ Loadable /\ issued < MaxTxns /\ lock' = p /\ issued' = x
      /\ SetAsideOrphan
      /\ UNCHANGED <<snapshot, work, mem, committed, bounds>>
  BY DEF Begin
<1>3. PICK size \in 1..JournalMax,
           after \in {[Loaded EXCEPT !.main = AppendEntry(@, issued + 1)],
                      [Loaded EXCEPT !.work = issued + 1]} :
        txn' = [pc |-> "persistWork", before |-> Loaded, after |-> after,
                fold |-> "after", size |-> size, entries |-> EntryCount]
  BY DEF Begin
<1>4. Loaded = committed /\ committed \in State /\ Replayed.main = committed.main
      /\ committed.main \in Main /\ committed.work \in 0..MaxTxns
  BY <1>1, <1>2, LoadsCommitted DEF TypeOK, State
<1>5. x \in 1..MaxTxns /\ x \in Nat /\ x = issued + 1 /\ issued \in Nat /\ MaxTxns \in Nat
  <2>1. issued \in Nat /\ MaxTxns \in Nat
    BY <1>1, NumberTypes DEF JournalBounds
  <2> QED BY <1>2, <2>1
<1> HIDE DEF x
<1>6. /\ committed.main \in Seq(1..MaxTxns) /\ committed.main \in Seq(1..issued)
      /\ committed.main \in Seq(1..x) /\ Len(committed.main) <= Window /\ x \in 1..x
  BY <1>1, <1>4, <1>5, MoreNumbers DEF Main, NumbersOK, Issued
<1> DEFINE new == AppendEntry(committed.main, x)
<1>7. new \in Main /\ new \in Seq(1..x)
  <2>1. new \in Seq(1..MaxTxns) /\ Len(new) \in 1..Window
    BY <1>5, <1>6, EntryAdded
  <2>2. new \in Seq(1..x)
    BY <1>6, EntryAdded
  <2> QED BY <2>1, <2>2 DEF Main
<1>8. new # committed.main /\ new # snapshot
  <2>1. \A old \in Seq(1..issued) : new # old
    BY <1>5, <1>6, EntryIsNew
  <2>2. new # None
    BY <1>7, NoneIsNoLog
  <2> QED BY <1>1, <1>6, <2>1, <2>2 DEF NumbersOK, Issued
<1> HIDE DEF new
<1>9. /\ after \in State
      /\ \/ after.main = new /\ after.work = committed.work
         \/ after.main = committed.main /\ after.work = x
  BY <1>3, <1>4, <1>5, <1>7 DEF State, new
<1>10. EntryCount \in Nat
  BY <1>1, NumberTypes DEF EntryCount
<1>11. txn' \in TxnType
  BY <1>3, <1>4, <1>9, <1>10 DEF TxnType, Phase
<1>12. /\ txn'.pc = "persistWork" /\ txn'.before = committed /\ txn'.after = after
       /\ txn'.entries = EntryCount
  BY <1>3, <1>4
<1>13. journal' \in {journal, <<>>} /\ terminated' \in BOOLEAN /\ journal' \in Seq(Line)
  <2>1. <<>> \in Seq(Line)
    BY EmptySeq
  <2> QED BY <1>1, <1>2, <2>1 DEF SetAsideOrphan, TypeOK
<1>14. TypeOK'
  BY <1>1, <1>2, <1>5, <1>11, <1>13 DEF TypeOK, TxnType, Phase, bounds
<1>15. /\ DiskOK' /\ JournalBelongs' /\ Sound'
       /\ Replayed' = Replayed
       /\ JournalBytes' <= JournalBytes
       /\ Len(journal') <= Len(journal)
       /\ \A log : NotOf(log) => NotOf(log)'
  BY <1>1, <1>2, <1>14, DiskAfterLoading DEF bounds
<1>16. NumbersOK'
  <2>1. Issued' = Seq(1..x) /\ \A s \in Issued : s \in Issued'
    BY <1>2, <1>5, MoreNumbers DEF Issued
  <2>2. \A i \in 1..Len(journal') : journal'[i].base \in Issued' \cup {None}
    <3>1. CASE journal' = journal
      BY <1>1, <2>1, <3>1 DEF NumbersOK
    <3>2. CASE journal' = <<>>
      BY <3>2, EmptySeq
    <3> QED BY <1>13, <3>1, <3>2
  <2>3. after.main \in Seq(1..x)
    BY <1>6, <1>7, <1>9
  <2> QED BY <1>1, <1>2, <1>12, <2>1, <2>2, <2>3 DEF NumbersOK
<1>17. TxnOK'
  <2>1. txn'.pc = "persistWork" /\ lock' # None
    BY <1>2, <1>12 DEF JournalBounds
  <2>2. /\ JournalBelongs' /\ Sound' /\ Replayed'.main = txn'.before.main
        /\ txn'.before.work = work'
    BY <1>1, <1>2, <1>4, <1>12, <1>15 DEF DiskOK
  <2>3. AppendsMain' \/ (txn'.after.main = txn'.before.main /\ txn'.after.work = issued')
    <3>1. CASE after.main = new /\ after.work = committed.work
      BY <1>1, <1>2, <1>8, <1>12, <3>1 DEF AppendsMain, DiskOK, new
    <3>2. CASE after.main = committed.main /\ after.work = x
      BY <1>2, <1>12, <3>2
    <3> QED BY <1>9, <3>1, <3>2
  <2>4. issued' # 0
    BY <1>2, <1>5
  <2> QED BY <2>1, <2>2, <2>3, <2>4 DEF TxnOK, Reading, Folding
<1>18. RoomOK'
  <2>1. txn.pc = "none"
    BY <1>1, <1>2 DEF TxnOK
  <2>2. Len(journal') <= EntryCount + torn
    BY <1>1, <1>2, <1>14, LoadedLines
  <2>3. JournalBytes' \in Nat /\ Len(journal') \in Nat
    BY <1>13, BytesType, LenProperties DEF JournalBytes
  <2>4. /\ JournalBytes <= JournalMax
        /\ Len(journal) <= MaxEntries + crashes + torn - 1
    BY <1>1, <2>1 DEF RoomOK, Due
  <2>5. crashes' = crashes /\ torn' = torn
    BY <1>2 DEF bounds
  <2>6. JournalBytes' <= JournalMax /\ Len(journal') <= MaxEntries + crashes + torn - 1
    <3>1. /\ torn \in Nat /\ crashes \in Nat /\ Len(journal) \in Nat
          /\ JournalBytes \in Nat /\ MaxEntries \in Nat /\ JournalMax \in Nat
      BY <1>1, NumberTypes
    <3>2. JournalBytes' <= JournalMax
      BY <1>15, <2>3, <2>4, <3>1
    <3> QED BY <1>15, <2>3, <2>4, <3>1, <3>2
  <2> QED BY <1>12, <2>2, <2>5, <2>6 DEF RoomOK, Due
<1> QED BY <1>14, <1>15, <1>16, <1>17, <1>18 DEF JournalInd

LEMMA PersistWorkStep ==
  ASSUME JournalBounds, JournalInd, NEW p \in Proc, PersistWork(p)
  PROVE  JournalInd'
<1>1. TypeOK /\ NumbersOK /\ DiskOK /\ TxnOK /\ RoomOK
  BY DEF JournalInd
<1>2. /\ lock = p /\ txn.pc = "persistWork"
      /\ work' = txn.after.work
      /\ committed' = [committed EXCEPT !.work = txn.after.work]
      /\ UNCHANGED <<snapshot, journal, terminated, mem, lock, issued, bounds>>
  BY DEF PersistWork
<1>3. txn \in TxnType /\ committed \in State /\ txn.after \in State /\ txn.before \in State
  BY <1>1 DEF TypeOK, TxnType, Phase
<1>4. committed'.main = committed.main /\ committed'.work = work' /\ committed' \in State
  BY <1>2, <1>3 DEF State
<1>5. /\ JournalBelongs /\ Sound /\ Replayed.main = txn.before.main
      /\ txn.before.work = work
      /\ \/ AppendsMain
         \/ txn.after.main = txn.before.main /\ txn.after.work = issued
  BY <1>1, <1>2 DEF TxnOK, Reading
<1>6. SameFiles /\ torn' = torn /\ crashes' = crashes
  BY <1>2 DEF SameFiles, bounds
<1>7. DiskOK'
  BY <1>1, <1>4, <1>6, DiskKept
<1>8. txn.before.main = committed.main
  BY <1>1, <1>5 DEF DiskOK
<1>9. /\ JournalBelongs' /\ Sound' /\ Replayed'.main = Replayed.main
      /\ JournalBytes' = JournalBytes
  BY <1>5, <1>6, FilesKept
<1>10. /\ JournalBytes <= JournalMax
      /\ Len(journal) <= MaxEntries + crashes + torn - 1
      /\ Len(journal) <= txn.entries + torn
  BY <1>1, <1>2 DEF RoomOK, Due
<1>11. txn.size \in Nat /\ JournalMax \in Nat /\ JournalBytes \in Nat
  BY <1>1, NumberTypes
<1>12. ASSUME NEW pc \in {"return", "ledger", "append"}, NEW fold \in {"after", "before"},
             txn' \in TxnType, txn'.pc = pc, txn'.fold = fold,
             txn'.before = txn.before, txn'.after = txn.after,
             txn'.size = txn.size, txn'.entries = txn.entries,
             pc # "return" => txn.before.main # txn.after.main,
             pc = "ledger" /\ fold = "before" => txn.size < JournalMax,
             pc = "append" => JournalBytes + txn.size <= JournalMax
      PROVE  JournalInd'
  <2>1. TypeOK'
    BY <1>1, <1>2, <1>3, <1>4, <1>12 DEF TypeOK, TxnType, Phase, bounds, State
  <2>2. NumbersOK'
    BY <1>1, <1>2, <1>4, <1>12, NumbersKept
  <2>3. TxnOK'
    <3>1. txn'.pc = "none" <=> lock' = None
      BY <1>1, <1>2, <1>12 DEF TxnOK
    <3>2. pc # "return" => AppendsMain /\ AppendsMain' /\ work' = work
      BY <1>2, <1>5, <1>12 DEF AppendsMain
    <3>3. pc # "return" => txn'.before.work = work'
      BY <1>5, <1>12, <3>2
    <3>4. pc # "return" => NotOf(txn.after.main)'
      <4>1. pc # "return" => NotOf(txn.after.main)
        BY <1>5, <3>2 DEF NotOf, AppendsMain, JournalBelongs
      <4> QED BY <1>6, <1>12, <4>1 DEF NotOf, SameFiles
    <3>5. pc # "return" => txn'.after.main = AppendEntry(committed'.main, issued')
      BY <1>2, <1>4, <1>8, <1>12, <3>2 DEF AppendsMain
    <3>6. pc # "return" => txn'.after.work = work'
      BY <3>2 DEF AppendsMain
    <3> QED BY <1>9, <1>5, <1>12, <3>1, <3>2, <3>3, <3>4, <3>5, <3>6 DEF TxnOK, Reading, Folding
  <2>4. RoomOK'
    <3>1. Len(journal') = Len(journal)
      BY <1>2
    <3>2. Len(journal') <= MaxEntries + crashes' + torn' - (IF Due' THEN 0 ELSE 1)
      BY <1>1, <1>6, <1>10, <3>1, NumberTypes
    <3> QED BY <1>6, <1>12, <1>9, <1>10, <3>1, <3>2 DEF RoomOK
  <2> QED BY <1>7, <2>1, <2>2, <2>3, <2>4 DEF JournalInd
<1>13. CASE txn.before.main = txn.after.main
  <2>1. txn' = [txn EXCEPT !.pc = "return"]
    BY <1>13 DEF PersistWork
  <2>2. txn' \in TxnType
    BY <1>3, <2>1 DEF TxnType, Phase
  <2>3. /\ txn'.pc = "return" /\ txn'.fold = txn.fold /\ txn'.before = txn.before
        /\ txn'.after = txn.after /\ txn'.size = txn.size /\ txn'.entries = txn.entries
        /\ txn.fold \in {"after", "before"}
    BY <1>3, <2>1 DEF TxnType
  <2> QED BY <1>12, <2>2, <2>3
<1>14. CASE txn.before.main # txn.after.main /\ txn.size >= JournalMax
  <2>1. txn' = [txn EXCEPT !.pc = "ledger", !.fold = "after"]
    <3>1. ~(txn.size < JournalMax)
      BY <1>11, <1>14
    <3> QED BY <1>14, <3>1 DEF PersistWork
  <2>2. txn' \in TxnType
    BY <1>3, <2>1 DEF TxnType, Phase
  <2>3. /\ txn'.pc = "ledger" /\ txn'.fold = "after" /\ txn'.before = txn.before
        /\ txn'.after = txn.after /\ txn'.size = txn.size /\ txn'.entries = txn.entries
    BY <1>3, <2>1 DEF TxnType
  <2> QED BY <1>12, <1>14, <2>2, <2>3
<1>15. CASE txn.before.main # txn.after.main /\ txn.size < JournalMax
            /\ JournalBytes + txn.size > JournalMax
  <2>1. txn' = [txn EXCEPT !.pc = "ledger", !.fold = "before"]
    <3>1. ~(txn.size >= JournalMax)
      BY <1>11, <1>15
    <3> QED BY <1>15, <3>1 DEF PersistWork
  <2>2. txn' \in TxnType
    BY <1>3, <2>1 DEF TxnType, Phase
  <2>3. /\ txn'.pc = "ledger" /\ txn'.fold = "before" /\ txn'.before = txn.before
        /\ txn'.after = txn.after /\ txn'.size = txn.size /\ txn'.entries = txn.entries
    BY <1>3, <2>1 DEF TxnType
  <2> QED BY <1>12, <1>15, <2>2, <2>3
<1>16. CASE txn.before.main # txn.after.main /\ ~(txn.size >= JournalMax)
            /\ ~(txn.size < JournalMax /\ JournalBytes + txn.size > JournalMax)
  <2>1. txn' = [txn EXCEPT !.pc = "append"]
    BY <1>16 DEF PersistWork
  <2>2. txn' \in TxnType
    BY <1>3, <2>1 DEF TxnType, Phase
  <2>3. /\ txn'.pc = "append" /\ txn'.fold = txn.fold /\ txn'.before = txn.before
        /\ txn'.after = txn.after /\ txn'.size = txn.size /\ txn'.entries = txn.entries
        /\ txn.fold \in {"after", "before"}
    BY <1>3, <2>1 DEF TxnType
  <2>4. JournalBytes + txn.size <= JournalMax
    BY <1>11, <1>16
  <2> QED BY <1>12, <1>16, <2>2, <2>3, <2>4
<1> QED BY <1>13, <1>14, <1>15, <1>16

LEMMA CheckpointLedgerStep ==
  ASSUME JournalBounds, JournalInd, NEW p \in Proc, CheckpointLedger(p)
  PROVE  JournalInd'
<1>1. TypeOK /\ NumbersOK /\ DiskOK /\ TxnOK /\ RoomOK
  BY DEF JournalInd
<1>2. /\ lock = p /\ txn.pc = "ledger"
      /\ work' = FoldValue.work
      /\ txn' = [txn EXCEPT !.pc = "snapshot"]
      /\ UNCHANGED <<snapshot, journal, terminated, mem, lock, committed, issued, bounds>>
  BY DEF CheckpointLedger
<1>3. txn \in TxnType /\ txn.fold \in {"before", "after"}
  BY <1>1 DEF TypeOK, TxnType, Phase
<1>4. txn' \in TxnType
  BY <1>2, <1>3 DEF TxnType, Phase
<1>5. /\ txn'.pc = "snapshot" /\ txn'.fold = txn.fold /\ txn'.before = txn.before
      /\ txn'.after = txn.after /\ txn'.size = txn.size /\ txn'.entries = txn.entries
  BY <1>2, <1>3 DEF TxnType
<1>6. work' = work
  BY <1>1, <1>2, <1>3 DEF FoldValue, TxnOK, Reading, Folding
<1>7. SameFiles /\ torn' = torn /\ crashes' = crashes /\ committed' = committed
  BY <1>2 DEF SameFiles, bounds
<1>8. DiskOK'
  BY <1>1, <1>6, <1>7, DiskKept DEF DiskOK
<1>9. TypeOK'
  BY <1>1, <1>2, <1>4, <1>6 DEF TypeOK, TxnType, Phase, bounds
<1>10. NumbersOK'
  BY <1>1, <1>2, <1>5, NumbersKept
<1>11. TxnOK'
  <2>1. /\ JournalBelongs' = JournalBelongs /\ Sound' = Sound /\ Replayed' = Replayed
    BY <1>7, FilesKept
  <2>2. NotOf(txn.after.main) => NotOf(txn.after.main)'
    BY <1>5, <1>7 DEF NotOf, SameFiles
  <2>3. AppendsMain => AppendsMain'
    BY <1>2, <1>5, <1>6 DEF AppendsMain
  <2> QED BY <1>1, <1>2, <1>3, <1>5, <1>6, <2>1, <2>2, <2>3 DEF TxnOK, Reading, Folding
<1>12. RoomOK'
  BY <1>1, <1>2, <1>5, <1>7, FilesKept DEF RoomOK, Due
<1> QED BY <1>8, <1>9, <1>10, <1>11, <1>12 DEF JournalInd

LEMMA CheckpointSnapshotStep ==
  ASSUME JournalBounds, JournalInd, NEW p \in Proc, CheckpointSnapshot(p)
  PROVE  JournalInd'
<1>1. TypeOK /\ NumbersOK /\ DiskOK /\ TxnOK /\ RoomOK
  BY DEF JournalInd
<1>2. /\ lock = p /\ txn.pc = "snapshot"
      /\ snapshot' = FoldValue.main
      /\ committed' = IF txn.fold = "after" THEN [committed EXCEPT !.main = txn.after.main]
                                            ELSE committed
      /\ txn' = [txn EXCEPT !.pc = "truncate"]
      /\ UNCHANGED <<journal, terminated, work, mem, lock, issued, bounds>>
  BY DEF CheckpointSnapshot
<1>3. txn \in TxnType /\ txn.fold \in {"before", "after"} /\ txn.after \in State
      /\ txn.before \in State /\ committed \in State
  BY <1>1 DEF TypeOK, TxnType, Phase
<1>4. txn' \in TxnType
  BY <1>2, <1>3 DEF TxnType, Phase
<1>5. /\ txn'.pc = "truncate" /\ txn'.fold = txn.fold /\ txn'.before = txn.before
      /\ txn'.after = txn.after /\ txn'.size = txn.size /\ txn'.entries = txn.entries
  BY <1>2, <1>3 DEF TxnType
<1>6. torn' = torn /\ crashes' = crashes
  BY <1>2 DEF bounds
<1>7. /\ committed' \in State /\ snapshot' = committed'.main /\ snapshot' \in Main
      /\ committed'.work = committed.work /\ NotOf(snapshot')
      /\ committed'.main \in {committed.main, txn.after.main}
      /\ txn.fold = "before" => committed' = committed /\ txn.before.main = committed.main
  <2>1. CASE txn.fold = "before"
    <3>1. Reading
      BY <1>2, <2>1 DEF Reading
    <3>2. txn.before.main = committed.main
      BY <1>1, <3>1 DEF TxnOK, DiskOK
    <3>3. committed' = committed /\ snapshot' = committed.main
      BY <1>2, <2>1, <3>2 DEF FoldValue
    <3>4. NotOf(snapshot')
      BY <1>1, <3>3 DEF DiskOK, NotOf
    <3> QED BY <1>3, <3>2, <3>3, <3>4 DEF State
  <2>2. CASE txn.fold = "after"
    <3>1. NotOf(txn.after.main)
      BY <1>1, <1>2, <2>2 DEF TxnOK, Folding
    <3>2. snapshot' = txn.after.main
      BY <1>2, <2>2 DEF FoldValue
    <3>3. /\ committed'.main = txn.after.main /\ committed'.work = committed.work
          /\ committed' \in State /\ txn.after.main \in Main
      BY <1>2, <1>3, <2>2 DEF State
    <3>4. NotOf(snapshot')
      BY <3>1, <3>2 DEF NotOf
    <3> QED BY <2>2, <3>2, <3>3, <3>4
  <2> QED BY <1>3, <2>1, <2>2
<1>8. TypeOK'
  BY <1>1, <1>2, <1>4, <1>7 DEF TypeOK, TxnType, Phase, bounds
<1>9. DiskOK'
  <2>1. snapshot' # None
    BY <1>7, NoneIsNoLog
  <2> QED BY <1>1, <1>2, <1>6, <1>7, <1>8, <2>1, DiskAfterSnapshot DEF DiskOK
<1>10. NumbersOK'
  BY <1>1, <1>2, <1>5, <1>7 DEF NumbersOK, Issued
<1>11. TxnOK'
  <2>1. txn.fold = "before" => AppendsMain
    BY <1>1, <1>2 DEF TxnOK
  <2>2. txn.fold = "before" => AppendsMain'
    BY <1>2, <1>5, <1>7, <2>1 DEF AppendsMain
  <2>3. lock' # None
    BY <1>1, <1>2 DEF TxnOK
  <2> QED BY <1>5, <1>7, <2>2, <2>3 DEF TxnOK, Reading, Folding
<1>12. RoomOK'
  BY <1>1, <1>2, <1>5, <1>6 DEF RoomOK, Due, JournalBytes
<1> QED BY <1>8, <1>9, <1>10, <1>11, <1>12 DEF JournalInd

LEMMA CheckpointTruncateStep ==
  ASSUME JournalBounds, JournalInd, NEW p \in Proc, CheckpointTruncate(p)
  PROVE  JournalInd'
<1>1. TypeOK /\ NumbersOK /\ DiskOK /\ TxnOK /\ RoomOK
  BY DEF JournalInd
<1>2. /\ lock = p /\ txn.pc = "truncate"
      /\ journal' = <<>> /\ terminated' = TRUE
      /\ txn' = [txn EXCEPT !.pc = IF txn.fold = "before" THEN "append" ELSE "return",
                            !.entries = 0]
      /\ UNCHANGED <<snapshot, work, mem, lock, committed, issued, bounds>>
  BY DEF CheckpointTruncate
<1>3. txn \in TxnType /\ txn.fold \in {"before", "after"}
  BY <1>1 DEF TypeOK, TxnType, Phase
<1>4. txn' \in TxnType
  BY <1>2, <1>3 DEF TxnType, Phase
<1>5. /\ txn'.pc = (IF txn.fold = "before" THEN "append" ELSE "return")
      /\ txn'.fold = txn.fold /\ txn'.before = txn.before
      /\ txn'.after = txn.after /\ txn'.size = txn.size /\ txn'.entries = 0
  BY <1>2, <1>3 DEF TxnType
<1>6. torn' = torn /\ crashes' = crashes
  BY <1>2 DEF bounds
<1>7. TypeOK'
  <2>1. journal' \in Seq(Line)
    BY <1>2, EmptySeq
  <2> QED BY <1>1, <1>2, <1>4, <2>1 DEF TypeOK, TxnType, Phase, bounds
<1>8. snapshot = committed.main /\ snapshot # None
  <2>1. committed.main \in Main
    BY <1>1 DEF TypeOK, State
  <2> QED BY <1>1, <1>2, <2>1, NoneIsNoLog DEF TxnOK
<1>9. /\ DiskOK' /\ JournalBelongs' /\ Sound' /\ Replayed'.main = committed.main
      /\ Len(journal') = 0 /\ JournalBytes' = 0
  BY <1>1, <1>2, <1>6, <1>7, <1>8, DiskAfterTruncate
<1>10. NumbersOK'
  BY <1>1, <1>2, <1>5, NumbersKept
<1>11. TxnOK'
  <2>1. txn.fold = "before" => AppendsMain /\ txn.before.main = committed.main
    BY <1>1, <1>2 DEF TxnOK
  <2>2. txn.fold = "before" => AppendsMain' /\ txn'.before.work = work'
    BY <1>2, <1>5, <2>1 DEF AppendsMain
  <2>3. lock' # None
    BY <1>1, <1>2 DEF TxnOK
  <2> QED BY <1>3, <1>5, <1>9, <2>1, <2>2, <2>3 DEF TxnOK, Reading, Folding
<1>12. RoomOK'
  <2>1. txn.fold = "before" => txn.size < JournalMax
    BY <1>1, <1>2 DEF RoomOK
  <2>2. /\ torn \in Nat /\ crashes \in Nat /\ MaxEntries \in Nat \ {0}
        /\ JournalMax \in Nat /\ txn.size \in Nat
    BY <1>1, NumberTypes
  <2>3. /\ Len(journal') <= MaxEntries + crashes' + torn' - 1
        /\ Len(journal') <= MaxEntries + crashes' + torn' - 0
        /\ Len(journal') <= 0 + torn' /\ JournalBytes' <= JournalMax
    BY <1>6, <1>9, <2>2
  <2>4. Len(journal') <= MaxEntries + crashes' + torn' - (IF Due' THEN 0 ELSE 1)
    BY <2>3
  <2>5. txn.fold = "before" => JournalBytes' + txn.size <= JournalMax
    BY <1>9, <2>1, <2>2
  <2>6. txn'.entries = 0 /\ txn'.size = txn.size
    BY <1>5
  <2>7. txn'.pc = "append" => txn.fold = "before"
    BY <1>5
  <2>8. txn'.pc \notin {"ledger", "snapshot", "truncate", "persistWork"}
    BY <1>5
  <2> QED BY <2>3, <2>4, <2>5, <2>6, <2>7, <2>8 DEF RoomOK
<1> QED BY <1>7, <1>9, <1>10, <1>11, <1>12 DEF JournalInd

LEMMA RecordIsLine ==
  ASSUME JournalBounds, TypeOK
  PROVE  /\ Record \in Line /\ Record.ok /\ Record.base = snapshot /\ Record.size = txn.size
         /\ Record.delta = Delta(txn.before.main, txn.after.main)
<1>1. txn.before \in State /\ txn.after \in State /\ txn.size \in Nat
  BY DEF TypeOK, JournalBounds
<1>2. /\ txn.before.main \in Seq(1..MaxTxns) /\ txn.after.main \in Seq(1..MaxTxns)
      /\ Len(txn.before.main) <= Window
  BY <1>1 DEF State, Main
<1>3. Delta(txn.before.main, txn.after.main)
        \in [op : {"append", "assoc"}, from : 0..Window, value : Seq(1..MaxTxns)]
  BY <1>2, DeltaType
<1>4. snapshot \in Seq(1..MaxTxns) \cup {None}
  BY DEF TypeOK, Main
<1> QED BY <1>1, <1>3, <1>4 DEF Record, Line

\* What a written line does to the bases of the journal.
LEMMA WrittenLine ==
  ASSUME JournalBounds, TypeOK, DiskOK, NEW l \in Line, NEW S, None \in S, l.base \in S,
         \A i \in 1..Len(journal) : journal[i].base \in S,
         NEW lines, lines = Written(l)
  PROVE  /\ lines \in Seq(Line)
         /\ \A i \in 1..Len(lines) : lines[i].base \in S
<1>1. journal \in Seq(Line) /\ Len(journal) \in Nat
  BY LenProperties DEF TypeOK
<1>2. CASE terminated
  <2>1. lines = Append(journal, l)
    BY <1>2 DEF Written
  <2>2. /\ lines \in Seq(Line) /\ Len(lines) = Len(journal) + 1
        /\ \A i \in 1..Len(journal) : lines[i] = journal[i]
        /\ lines[Len(journal) + 1] = l
    BY <1>1, <2>1, AppendProperties
  <2>3. ASSUME NEW i \in 1..(Len(journal) + 1) PROVE lines[i].base \in S
    <3>1. CASE i = Len(journal) + 1
      BY <2>2, <3>1
    <3>2. CASE i # Len(journal) + 1
      <4>1. i \in 1..Len(journal)
        BY <1>1, <3>2
      <4> QED BY <2>2, <4>1
    <3> QED BY <3>1, <3>2
  <2> QED BY <2>2, <2>3
<1>3. CASE ~terminated
  <2>1. journal # <<>> /\ ~journal[Len(journal)].ok
    BY <1>3 DEF DiskOK
  <2>2. /\ lines \in Seq(Line) /\ Len(lines) = Len(journal)
        /\ \A i \in 1..(Len(journal) - 1) : lines[i] = journal[i]
        /\ lines[Len(journal)].base = None
    BY <1>1, <1>3, <2>1, WrittenGlued
  <2>3. ASSUME NEW i \in 1..Len(journal) PROVE lines[i].base \in S
    <3>1. CASE i = Len(journal)
      BY <2>2, <3>1
    <3>2. CASE i # Len(journal)
      <4>1. i \in 1..(Len(journal) - 1)
        BY <1>1, <3>2
      <4> QED BY <2>2, <4>1
    <3> QED BY <3>1, <3>2
  <2> QED BY <2>2, <2>3
<1> QED BY <1>2, <1>3

LEMMA AppendRecordStep ==
  ASSUME JournalBounds, JournalInd, NEW p \in Proc, AppendRecord(p)
  PROVE  JournalInd'
<1>1. TypeOK /\ NumbersOK /\ DiskOK /\ TxnOK /\ RoomOK
  BY DEF JournalInd
<1> DEFINE due == txn.entries + 1 >= MaxEntries \/ JournalBytes + txn.size >= JournalMax
<1>2. /\ lock = p /\ txn.pc = "append"
      /\ journal' = Written(Record) /\ terminated' = TRUE
      /\ committed' = [committed EXCEPT !.main = txn.after.main]
      /\ txn' = [txn EXCEPT !.entries = @ + 1, !.fold = "after",
                            !.pc = IF due THEN "ledger" ELSE "return"]
      /\ UNCHANGED <<snapshot, work, mem, lock, issued, bounds>>
  BY DEF AppendRecord
<1> HIDE DEF due
<1>3. txn \in TxnType /\ committed \in State /\ txn.after \in State
  BY <1>1 DEF TypeOK, TxnType, Phase
<1>4. txn' \in TxnType
  <2>1. txn.entries + 1 \in Nat
    BY <1>3 DEF TxnType
  <2>2. (IF due THEN "ledger" ELSE "return") \in Phase
    BY DEF Phase
  <2> DEFINE e == txn.entries + 1
             pc == IF due THEN "ledger" ELSE "return"
  <2>3. txn' = [txn EXCEPT !.entries = e, !.fold = "after", !.pc = pc]
    BY <1>2, <1>3 DEF TxnType
  <2>4. e \in Nat /\ pc \in Phase
    BY <2>1, <2>2
  <2> HIDE DEF e, pc
  <2> QED BY <1>3, <2>3, <2>4 DEF TxnType
<1>5. /\ txn'.pc = (IF due THEN "ledger" ELSE "return")
      /\ txn'.fold = "after" /\ txn'.before = txn.before
      /\ txn'.after = txn.after /\ txn'.size = txn.size /\ txn'.entries = txn.entries + 1
  BY <1>2, <1>3 DEF TxnType
<1>6. torn' = torn /\ crashes' = crashes
  BY <1>2 DEF bounds
<1>7. committed'.main = txn.after.main /\ committed'.work = committed.work /\ committed' \in State
  BY <1>2, <1>3 DEF State
<1>8. /\ Record \in Line /\ Record.ok /\ Record.base = snapshot /\ Record.size = txn.size
      /\ Record.delta = Delta(txn.before.main, txn.after.main)
  BY <1>1, RecordIsLine
<1>9. /\ JournalBelongs /\ Sound /\ Replayed.main = txn.before.main /\ AppendsMain
  BY <1>1, <1>2 DEF TxnOK, Reading
<1>10. /\ journal' \in Seq(Line)
       /\ \A i \in 1..Len(journal') : journal'[i].base \in Issued \cup {None}
  BY <1>1, <1>2, <1>8, WrittenLine DEF NumbersOK
<1>11. TypeOK'
  BY <1>1, <1>2, <1>4, <1>7, <1>10 DEF TypeOK, TxnType, Phase, bounds
<1>12. DiskOK' /\ Len(journal') <= Len(journal) + 1 /\ JournalBytes' = JournalBytes + txn.size
  <2>1. committed'.main # snapshot
    BY <1>7, <1>9 DEF AppendsMain
  <2>2. Record.delta = Delta(Replayed.main, committed'.main)
    BY <1>7, <1>8, <1>9
  <2>3. work' = committed'.work
    BY <1>1, <1>2, <1>7 DEF DiskOK
  <2> DEFINE l == Record
  <2>4. /\ l \in Line /\ l.ok /\ l.base = snapshot /\ l.size = txn.size
        /\ l.delta = Delta(Replayed.main, committed'.main) /\ journal' = Written(l)
    BY <1>2, <1>8, <2>2
  <2> HIDE DEF l
  <2>5. DiskOK' /\ Len(journal') <= Len(journal) + 1 /\ JournalBytes' = JournalBytes + l.size
    BY <1>1, <1>2, <1>6, <1>9, <1>11, <2>1, <2>3, <2>4, DiskAfterRecord
  <2> QED BY <2>4, <2>5
<1>13. NumbersOK'
  <2>1. Issued' = Issued
    BY <1>2 DEF Issued
  <2> QED BY <1>1, <1>2, <1>5, <1>7, <1>10, <2>1 DEF NumbersOK
<1>14. TxnOK'
  <2>1. lock' # None
    BY <1>1, <1>2 DEF TxnOK
  <2>2. txn'.after.work = work' /\ txn'.after.main = committed'.main
    BY <1>2, <1>5, <1>7, <1>9 DEF AppendsMain
  <2>3. NotOf(committed.main)'
    BY <1>12 DEF DiskOK
  <2>4. NotOf(txn.after.main)'
    BY <2>2, <2>3 DEF NotOf
  <2> QED BY <1>5, <2>1, <2>2, <2>4 DEF TxnOK, Reading, Folding
<1>15. RoomOK'
  <2>1. /\ JournalBytes + txn.size <= JournalMax
        /\ Len(journal) <= MaxEntries + crashes + torn - 1
        /\ Len(journal) <= txn.entries + torn
    BY <1>1, <1>2 DEF RoomOK, Due
  <2>2. /\ torn \in Nat /\ crashes \in Nat /\ Len(journal) \in Nat /\ txn.entries \in Nat
        /\ MaxEntries \in Nat /\ Len(journal') \in Nat
    BY <1>1, <1>10, NumberTypes, LenProperties
  <2>3. Len(journal') <= MaxEntries + crashes' + torn' - (IF Due' THEN 0 ELSE 1)
    <3>1. CASE due
      <4>1. Due'
        BY <1>5, <3>1 DEF Due
      <4> QED BY <1>6, <1>12, <2>1, <2>2, <4>1
    <3>2. CASE ~due
      <4>1. ~(txn.entries + 1 >= MaxEntries)
        BY <3>2 DEF due
      <4>2. Len(journal') <= MaxEntries + crashes + torn - 1
        <5>1. \A e, m, c, t, l, k \in Nat :
                 ~(e + 1 >= m) /\ l <= e + t /\ k <= l + 1 => k <= m + c + t - 1
          OBVIOUS
        <5> QED BY <1>12, <2>1, <2>2, <4>1, <5>1
      <4> QED BY <1>6, <2>2, <4>2
    <3> QED BY <3>1, <3>2
  <2> QED BY <1>5, <1>12, <2>1, <2>3 DEF RoomOK
<1> QED BY <1>11, <1>12, <1>13, <1>14, <1>15 DEF JournalInd

LEMMA TornAppendStep ==
  ASSUME JournalBounds, JournalInd, NEW p \in Proc, TornAppend(p)
  PROVE  JournalInd'
<1>1. TypeOK /\ NumbersOK /\ DiskOK /\ TxnOK /\ RoomOK
  BY DEF JournalInd
<1>2. /\ lock = p /\ txn.pc = "append" /\ torn < MaxTorn
      /\ journal' = Written(Garbage(txn.size)) /\ terminated' = FALSE
      /\ torn' = torn + 1 /\ lock' = None /\ txn' = NoTxn
      /\ UNCHANGED <<snapshot, work, mem, committed, issued, crashes, oldWrites>>
  BY DEF TornAppend
<1>3. /\ NoTxn \in TxnType /\ NoTxn.pc = "none" /\ NoTxn.fold = "after"
      /\ NoTxn.after = Empty /\ Empty.main = <<>>
  BY NoTxnType DEF Empty
<1>4. txn.size \in Nat /\ torn \in Nat /\ crashes \in Nat /\ MaxEntries \in Nat
      /\ JournalMax \in Nat /\ JournalBytes \in Nat /\ Len(journal) \in Nat
  BY <1>1, NumberTypes
<1>5. JournalBelongs /\ Sound
  BY <1>1, <1>2 DEF TxnOK, Reading
<1>6. /\ Garbage(txn.size) \in Line /\ ~Garbage(txn.size).ok
      /\ Garbage(txn.size).base = None
  BY <1>4, GarbageIsLine
<1>7. /\ journal' \in Seq(Line)
      /\ \A i \in 1..Len(journal') : journal'[i].base \in Issued \cup {None}
  BY <1>1, <1>2, <1>6, WrittenLine DEF NumbersOK
<1>8. TypeOK'
  <2>1. torn' \in 0..MaxTorn
    BY <1>1, <1>2, <1>4 DEF JournalBounds
  <2> QED BY <1>1, <1>2, <1>3, <1>7, <2>1 DEF TypeOK, TxnType, Phase
<1>9. DiskOK' /\ Len(journal') <= Len(journal) + 1 /\ JournalBytes' = JournalBytes + txn.size
  BY <1>1, <1>2, <1>4, <1>5, <1>8, DiskAfterTear
<1>10. NumbersOK'
  <2>1. Issued' = Issued /\ <<>> \in Issued
    BY <1>2, EmptySeq DEF Issued
  <2> QED BY <1>1, <1>2, <1>3, <1>7, <2>1 DEF NumbersOK
<1>11. TxnOK'
  BY <1>2, <1>3 DEF TxnOK, Reading, Folding
<1>12. RoomOK'
  <2>1. JournalBytes + txn.size <= JournalMax /\ Len(journal) <= MaxEntries + crashes + torn - 1
    BY <1>1, <1>2 DEF RoomOK, Due
  <2>2. Len(journal') \in Nat
    BY <1>7, LenProperties
  <2>3. Len(journal') <= MaxEntries + crashes' + torn' - 1
    BY <1>2, <1>4, <1>9, <2>1, <2>2
  <2>4. txn'.pc = "none"
    BY <1>2, <1>3
  <2> QED BY <1>9, <2>1, <2>3, <2>4 DEF RoomOK, Due
<1> QED BY <1>8, <1>9, <1>10, <1>11, <1>12 DEF JournalInd

\* The lock is released and the files are as they were.
LEMMA Released ==
  ASSUME JournalBounds, JournalInd, SameFiles, lock' = None, txn' = NoTxn,
         mem' \in [Proc -> State], UNCHANGED <<work, committed, issued, torn, oldWrites>>,
         crashes' \in 0..MaxCrashes, crashes' >= crashes,
         Due => txn.pc = "return" \/ crashes' = crashes + 1
  PROVE  JournalInd'
<1>1. TypeOK /\ NumbersOK /\ DiskOK /\ TxnOK /\ RoomOK
  BY DEF JournalInd
<1>2. /\ NoTxn \in TxnType /\ NoTxn.pc = "none" /\ NoTxn.fold = "after"
      /\ NoTxn.after = Empty /\ Empty.main = <<>>
  BY NoTxnType DEF Empty
<1>3. TypeOK'
  BY <1>1, <1>2 DEF TypeOK, TxnType, Phase, SameFiles
<1>4. DiskOK'
  BY <1>1, DiskKept DEF DiskOK
<1>5. NumbersOK'
  BY <1>1, <1>2, NumbersKept DEF SameFiles
<1>6. TxnOK'
  BY <1>2 DEF TxnOK, Reading, Folding
<1>7. RoomOK'
  <2>1. /\ JournalBytes' <= JournalMax /\ txn'.pc = "none"
        /\ Len(journal') = Len(journal) /\ torn' = torn
    BY <1>1, <1>2, FilesKept DEF RoomOK, SameFiles
  <2>2. torn \in Nat /\ crashes \in Nat /\ crashes' \in Nat /\ MaxEntries \in Nat
        /\ Len(journal) \in Nat
    BY <1>1, NumberTypes DEF JournalBounds
  <2>3. Len(journal) <= MaxEntries + crashes + torn - (IF Due THEN 0 ELSE 1)
        /\ (Due => crashes' = crashes + 1)
    BY <1>1 DEF RoomOK, Due
  <2>4. Len(journal') <= MaxEntries + crashes' + torn' - 1
    <3>1. CASE Due
      BY <2>1, <2>2, <2>3, <3>1
    <3>2. CASE ~Due
      BY <2>1, <2>2, <2>3, <3>2
    <3> QED BY <3>1, <3>2
  <2> QED BY <2>1, <2>4 DEF RoomOK, Due
<1> QED BY <1>3, <1>4, <1>5, <1>6, <1>7 DEF JournalInd

LEMMA ReturnStep ==
  ASSUME JournalBounds, JournalInd, NEW p \in Proc, Return(p)
  PROVE  JournalInd'
<1>1. TypeOK
  BY DEF JournalInd
<1>2. /\ lock = p /\ txn.pc = "return" /\ mem' = [mem EXCEPT ![p] = txn.after]
      /\ lock' = None /\ txn' = NoTxn /\ UNCHANGED <<disk, committed, issued, bounds>>
  BY DEF Return
<1>3. mem' \in [Proc -> State]
  BY <1>1, <1>2 DEF TypeOK
<1>4. SameFiles /\ UNCHANGED <<work, committed, issued, torn, oldWrites>> /\ crashes' = crashes
  BY <1>2 DEF SameFiles, disk, bounds
<1>5. crashes' \in 0..MaxCrashes /\ crashes' >= crashes
  BY <1>1, <1>4 DEF TypeOK, JournalBounds
<1> QED BY <1>2, <1>3, <1>4, <1>5, Released

LEMMA CrashStep ==
  ASSUME JournalBounds, JournalInd, NEW p \in Proc, Crash(p)
  PROVE  JournalInd'
<1>1. TypeOK
  BY DEF JournalInd
<1>2. /\ crashes < MaxCrashes /\ crashes' = crashes + 1
      /\ lock' = None /\ txn' = NoTxn
      /\ UNCHANGED <<disk, mem, committed, issued, torn, oldWrites>>
  BY DEF Crash
<1>3. mem' \in [Proc -> State]
  BY <1>1, <1>2 DEF TypeOK
<1>4. SameFiles /\ UNCHANGED <<work, committed, issued, torn, oldWrites>>
  BY <1>2 DEF SameFiles, disk
<1>5. crashes' \in 0..MaxCrashes /\ crashes' >= crashes
  BY <1>1, <1>2 DEF TypeOK, JournalBounds
<1> QED BY <1>2, <1>3, <1>4, <1>5, Released

LEMMA FoldJournalStep ==
  ASSUME JournalBounds, JournalInd, NEW p \in Proc, FoldJournal(p)
  PROVE  JournalInd'
<1>1. TypeOK /\ NumbersOK /\ DiskOK /\ TxnOK /\ RoomOK
  BY DEF JournalInd
<1>2. /\ lock = None /\ Loadable /\ SetAsideOrphan
      /\ mem' = [mem EXCEPT ![p] = Loaded]
      /\ UNCHANGED <<snapshot, work, committed, issued, bounds>>
  BY DEF FoldJournal
<1>3. Loaded = committed /\ committed \in State /\ Loaded.main = committed.main
  BY <1>1, <1>2, LoadsCommitted DEF TypeOK
<1>4. txn.pc = "none"
  BY <1>1, <1>2 DEF TxnOK
<1>5. /\ NoTxn \in TxnType /\ NoTxn.fold = "after"
  BY NoTxnType
<1>6. EntryCount \in Nat
  BY <1>1, NumberTypes DEF EntryCount
<1> DEFINE folding == [NoTxn EXCEPT !.pc = "ledger", !.before = Loaded, !.after = Loaded,
                                    !.entries = EntryCount]
<1>7. /\ folding \in TxnType /\ folding.pc = "ledger" /\ folding.fold = "after"
      /\ folding.before = committed /\ folding.after = committed
  BY <1>3, <1>5, <1>6 DEF TxnType, Phase
<1>8. \/ lock' = p /\ txn' = folding
      \/ lock' = lock /\ txn' = txn
  BY DEF FoldJournal
<1> HIDE DEF folding
<1>9. txn' \in TxnType /\ lock' \in Proc \cup {None}
  BY <1>1, <1>7, <1>8 DEF TypeOK, TxnType, Phase
<1>10. /\ journal' \in {journal, <<>>} /\ terminated' \in BOOLEAN /\ journal' \in Seq(Line)
  BY <1>1, <1>2, EmptySeq DEF SetAsideOrphan, TypeOK
<1>11. TypeOK'
  <2>1. mem' \in [Proc -> State]
    BY <1>1, <1>2, <1>3 DEF TypeOK
  <2> QED BY <1>1, <1>2, <1>9, <1>10, <2>1 DEF TypeOK, TxnType, Phase, bounds
<1>12. torn' = torn /\ crashes' = crashes
  BY <1>2 DEF bounds
<1>13. /\ DiskOK' /\ JournalBelongs' /\ Sound' /\ Replayed' = Replayed
       /\ JournalBytes' <= JournalBytes
       /\ Len(journal') <= Len(journal)
       /\ \A log : NotOf(log) => NotOf(log)'
  BY <1>1, <1>2, <1>11, <1>12, DiskAfterLoading
<1>14. NumbersOK'
  BY <1>1, <1>2, <1>7, <1>8, <1>10, NumbersKept
<1>15. TxnOK'
  <2>1. CASE lock' = p /\ txn' = folding
    <3>1. p # None
      BY DEF JournalBounds
    <3>2. NotOf(committed.main)'
      BY <1>13 DEF DiskOK
    <3>3. committed' = committed /\ work' = committed.work
      BY <1>1, <1>2 DEF DiskOK
    <3>4. NotOf(txn.after.main)' /\ txn'.after.main = committed'.main /\ txn'.after.work = work'
      BY <1>7, <2>1, <3>2, <3>3 DEF NotOf
    <3> QED BY <1>7, <2>1, <3>1, <3>4 DEF TxnOK, Reading, Folding
  <2>2. CASE lock' = lock /\ txn' = txn
    BY <1>2, <1>4, <2>2 DEF TxnOK, Reading, Folding
  <2> QED BY <1>8, <2>1, <2>2
<1>16. RoomOK'
  <2>1. /\ JournalBytes <= JournalMax
        /\ Len(journal) <= MaxEntries + crashes + torn - 1
    BY <1>1, <1>4 DEF RoomOK, Due
  <2>2. /\ torn \in Nat /\ crashes \in Nat /\ MaxEntries \in Nat /\ JournalMax \in Nat
        /\ JournalBytes \in Nat /\ Len(journal) \in Nat
    BY <1>1, NumberTypes
  <2>3. JournalBytes' \in Nat /\ Len(journal') \in Nat
    BY <1>10, BytesType, LenProperties DEF JournalBytes
  <2>4. /\ JournalBytes' <= JournalMax
        /\ Len(journal') <= MaxEntries + crashes' + torn' - 1
        /\ Len(journal') <= MaxEntries + crashes' + torn' - 0
    BY <1>12, <1>13, <2>1, <2>2, <2>3
  <2>5. txn'.pc \in {"ledger", "none"} /\ (txn'.pc = "ledger" => txn'.fold = "after")
    BY <1>4, <1>7, <1>8
  <2> QED BY <2>4, <2>5 DEF RoomOK
<1> QED BY <1>11, <1>13, <1>14, <1>15, <1>16 DEF JournalInd

LEMMA OldBuildWritesStep ==
  ASSUME JournalBounds, JournalInd, OldBuildWrites
  PROVE  JournalInd'
<1> DEFINE x == issued + 1
<1>1. TypeOK /\ NumbersOK /\ DiskOK /\ TxnOK /\ RoomOK
  BY DEF JournalInd
<1>2. /\ oldWrites < MaxOldWrites /\ issued < MaxTxns /\ lock = None
      /\ oldWrites' = oldWrites + 1 /\ issued' = x
      /\ snapshot' = AppendEntry(Base, x)
      /\ committed' = [committed EXCEPT !.main = AppendEntry(Base, x)]
      /\ UNCHANGED <<journal, terminated, work, mem, lock, txn, crashes, torn>>
  BY DEF OldBuildWrites
<1>3. x \in 1..MaxTxns /\ x \in Nat /\ x = issued + 1 /\ issued \in Nat /\ x \in 1..x
  <2>1. issued \in Nat /\ MaxTxns \in Nat
    BY <1>1, NumberTypes DEF JournalBounds
  <2> QED BY <1>2, <2>1
<1> HIDE DEF x
<1>4. /\ Base \in Seq(1..MaxTxns) /\ Base \in Seq(1..issued) /\ Base \in Seq(1..x)
      /\ Len(Base) <= Window
  <2>1. Base \in Main
    BY <1>1, BaseIsLog
  <2>2. Base \in Seq(1..issued)
    BY <1>1, EmptySeq DEF Base, NumbersOK, Issued
  <2> QED BY <1>3, <2>1, <2>2, MoreNumbers DEF Main
<1> DEFINE new == AppendEntry(Base, x)
<1>5. new \in Main /\ new \in Seq(1..x)
  <2>1. new \in Seq(1..MaxTxns) /\ Len(new) \in 1..Window
    BY <1>3, <1>4, EntryAdded
  <2>2. new \in Seq(1..x)
    BY <1>3, <1>4, EntryAdded
  <2> QED BY <2>1, <2>2 DEF Main
<1>6. \A old \in Seq(1..issued) : new # old
  BY <1>3, <1>4, EntryIsNew
<1>7. new # None
  BY <1>5, NoneIsNoLog
<1> HIDE DEF new
<1>8. /\ committed' \in State /\ committed'.main = new /\ committed'.work = committed.work
      /\ snapshot' = new
  BY <1>1, <1>2, <1>5 DEF TypeOK, State, new
<1>9. NotOf(snapshot')
  <2>1. journal \in Seq(Line)
    BY <1>1 DEF TypeOK
  <2>2. journal # <<>> => 1 \in 1..Len(journal)
    BY <2>1, EmptySeq, LenProperties
  <2> QED BY <1>1, <1>6, <1>7, <1>8, <2>2 DEF NotOf, NumbersOK, Issued
<1>10. txn.pc = "none" /\ txn'.pc = "none"
  BY <1>1, <1>2 DEF TxnOK
<1>11. TypeOK'
  <2>1. oldWrites' \in 0..MaxOldWrites
    BY <1>1, <1>2 DEF TypeOK, JournalBounds
  <2>2. issued' \in 0..MaxTxns
    BY <1>2, <1>3
  <2> QED BY <1>1, <1>2, <1>5, <1>8, <2>1, <2>2 DEF TypeOK
<1>12. DiskOK'
  <2>1. work' = committed'.work
    BY <1>1, <1>2, <1>8 DEF DiskOK
  <2> QED BY <1>1, <1>2, <1>7, <1>8, <1>9, <1>11, <2>1, DiskAfterSnapshot
<1>13. NumbersOK'
  <2>1. Issued' = Seq(1..x) /\ \A s \in Issued : s \in Issued'
    BY <1>2, <1>3, MoreNumbers DEF Issued
  <2> QED BY <1>1, <1>2, <1>5, <1>8, <2>1 DEF NumbersOK
<1>14. TxnOK'
  BY <1>1, <1>2, <1>10 DEF TxnOK, Reading, Folding
<1>15. RoomOK'
  BY <1>1, <1>2, <1>10 DEF RoomOK, Due, JournalBytes
<1> QED BY <1>11, <1>12, <1>13, <1>14, <1>15 DEF JournalInd

LEMMA StepInd ==
  ASSUME JournalBounds, JournalInd, [Next]_vars
  PROVE  JournalInd'
<1>1. CASE UNCHANGED vars
  <2>1. /\ SameFiles
        /\ UNCHANGED <<work, mem, lock, txn, committed, issued, crashes, torn, oldWrites>>
    BY <1>1 DEF vars, disk, bounds, SameFiles
  <2>2. TypeOK'
    BY <2>1 DEF JournalInd, TypeOK, SameFiles
  <2>3. NumbersOK' /\ TxnOK' /\ RoomOK'
    BY <2>1, FilesKept DEF JournalInd, NumbersOK, Issued, TxnOK, RoomOK, AppendsMain, Reading,
       Folding, Due, SameFiles, NotOf
  <2>4. DiskOK'
    BY <2>1, DiskKept DEF JournalInd, DiskOK
  <2> QED BY <2>2, <2>3, <2>4 DEF JournalInd
<1>2. CASE OldBuildWrites
  BY <1>2, OldBuildWritesStep
<1>3. ASSUME NEW p \in Proc,
             Begin(p) \/ PersistWork(p) \/ CheckpointLedger(p) \/ CheckpointSnapshot(p)
               \/ CheckpointTruncate(p) \/ AppendRecord(p) \/ TornAppend(p) \/ Return(p)
               \/ FoldJournal(p) \/ Crash(p)
      PROVE  JournalInd'
  <2>1. CASE Begin(p)              BY <2>1, BeginStep
  <2>2. CASE PersistWork(p)        BY <2>2, PersistWorkStep
  <2>3. CASE CheckpointLedger(p)   BY <2>3, CheckpointLedgerStep
  <2>4. CASE CheckpointSnapshot(p) BY <2>4, CheckpointSnapshotStep
  <2>5. CASE CheckpointTruncate(p) BY <2>5, CheckpointTruncateStep
  <2>6. CASE AppendRecord(p)       BY <2>6, AppendRecordStep
  <2>7. CASE TornAppend(p)         BY <2>7, TornAppendStep
  <2>8. CASE Return(p)             BY <2>8, ReturnStep
  <2>9. CASE FoldJournal(p)        BY <2>9, FoldJournalStep
  <2>10. CASE Crash(p)             BY <2>10, CrashStep
  <2> QED BY <1>3, <2>1, <2>2, <2>3, <2>4, <2>5, <2>6, <2>7, <2>8, <2>9, <2>10
<1> QED BY <1>1, <1>2, <1>3 DEF Next

LEMMA JournalIndHolds == Spec => []JournalInd
<1>1. Init => JournalInd
  BY JournalBounds, InitInd
<1>2. JournalInd /\ [Next]_vars => JournalInd'
  BY JournalBounds, StepInd
<1> QED BY <1>1, <1>2, PTL DEF Spec

-----------------------------------------------------------------------------
(***************************************************************************)
(* What follows.                                                           *)
(***************************************************************************)

\* The types of the store's variables; a log on disk, in memory or in a
\* transaction is never longer than the retention window (retain-window).
THEOREM JournalTyped == Spec => []TypeOK
<1>1. JournalInd => TypeOK
  BY DEF JournalInd
<1> QED BY <1>1, JournalIndHolds, PTL

\* Whatever a process loads is what the committed transactions left
\* (load-state, replay-journal! against checkpoint! and persist-delta!), for
\* any number of crashes, torn appends and takeovers.
THEOREM LoadsWhatWasCommitted == Spec => []ReadsCommitted
<1>1. JournalInd => ReadsCommitted
  BY JournalBounds, LoadsCommitted DEF JournalInd, ReadsCommitted
<1> QED BY <1>1, JournalIndHolds, PTL

\* As long as no append was cut short the files can be loaded, whatever crashed
\* and whichever build wrote the snapshot.
THEOREM CrashesLeaveLoadable == Spec => []AlwaysLoadable
<1>1. ASSUME JournalInd, torn = 0 PROVE Loadable
  <2>1. Sound
    BY <1>1 DEF JournalInd, DiskOK, Sound
  <2> QED BY <1>1, <2>1, JournalBounds, LoadsCommitted DEF JournalInd
<1>2. JournalInd => AlwaysLoadable
  BY <1>1 DEF AlwaysLoadable
<1> QED BY <1>2, JournalIndHolds, PTL

\* persist-delta! makes room before it appends: the journal keeps its byte
\* budget, and a record beyond the entry bound stands for an interrupted
\* checkpoint or a torn append.
THEOREM JournalStaysSmall == Spec => []JournalBounded
<1>1. ASSUME JournalInd PROVE JournalBounded
  <2>1. /\ Len(journal) <= MaxEntries + crashes + torn - (IF Due THEN 0 ELSE 1)
        /\ JournalBytes <= JournalMax
    BY <1>1 DEF JournalInd, RoomOK
  <2>2. /\ torn \in Nat /\ crashes \in Nat /\ MaxEntries \in Nat /\ Len(journal) \in Nat
    BY <1>1, JournalBounds, NumberTypes DEF JournalInd
  <2>3. Len(journal) <= MaxEntries + crashes + torn
    <3>1. CASE Due
      BY <2>1, <2>2, <3>1
    <3>2. CASE ~Due
      BY <2>1, <2>2, <3>2
    <3> QED BY <3>1, <3>2
  <2> QED BY <2>1, <2>3 DEF JournalBounded
<1>2. JournalInd => JournalBounded
  BY <1>1
<1> QED BY <1>2, JournalIndHolds, PTL

\* The number a log of the window was extended by is one of its entries.
LEMMA EntryIsNumber ==
  ASSUME JournalBounds, NEW log \in Main, NEW n \in Nat, AppendEntry(log, n) \in Main
  PROVE  n \in 1..MaxTxns
<1> DEFINE new == AppendEntry(log, n)
<1>1. log \in Seq(Nat) /\ Len(log) <= Window
  <2>1. \A s \in Seq(1..MaxTxns) : s \in Seq(Nat)
    <3>1. 1..MaxTxns \subseteq Nat
      OBVIOUS
    <3> QED BY <3>1, SeqMonotonic
  <2> QED BY <2>1 DEF Main
<1>2. Len(new) \in 1..Window /\ new[Len(new)] = n
  BY <1>1, EntryAdded
<1>3. new \in Seq(1..MaxTxns)
  BY DEF Main
<1> HIDE DEF new
<1>4. Len(new) \in 1..Len(new)
  BY <1>2
<1> QED BY <1>2, <1>3, <1>4, ElementOfSeq

\* A step of the store is a step of the atomic store, or leaves its state.
LEMMA StepAtomic ==
  ASSUME JournalBounds, JournalInd, [Next]_vars
  PROVE  [Implemented!Next \/ OldBuildWrites]_<<committed>>
<1>1. TypeOK /\ TxnOK /\ DiskOK
  BY DEF JournalInd
<1>2. committed \in State /\ txn.after \in State /\ txn.before \in State /\ issued \in Nat
      /\ issued \in 0..MaxTxns /\ committed.main \in Main /\ txn.after.main \in Main
  BY <1>1, NumberTypes DEF TypeOK, State
<1>3. ASSUME txn.after.main = AppendEntry(committed.main, issued),
             committed' = [committed EXCEPT !.main = txn.after.main]
      PROVE  Implemented!Next
  <2>1. issued \in 1..MaxTxns
    BY <1>2, <1>3, EntryIsNumber
  <2>2. committed'.main = AppendEntry(committed.main, issued) /\ committed'.work = committed.work
    BY <1>2, <1>3 DEF State
  <2>3. committed'.main = Implemented!AppendEntry(committed.main, issued)
    BY <2>2 DEF AppendEntry
  <2> QED BY <2>1, <2>2, <2>3 DEF Implemented!Next, Implemented!MainTransaction
<1>4. ASSUME NEW p \in Proc, PersistWork(p)
      PROVE  committed' = committed \/ Implemented!Next
  <2>1. /\ txn.pc = "persistWork" /\ committed' = [committed EXCEPT !.work = txn.after.work]
    BY <1>4 DEF PersistWork
  <2>2. issued # 0 /\ (AppendsMain \/ txn.after.work = issued)
    BY <1>1, <2>1 DEF TxnOK
  <2>3. CASE AppendsMain
    <3>1. txn.after.work = committed.work
      BY <1>1, <2>3 DEF AppendsMain, DiskOK
    <3> QED BY <1>2, <2>1, <3>1 DEF State
  <2>4. CASE txn.after.work = issued
    <3>1. issued \in 1..MaxTxns
      BY <1>2, <2>2
    <3>2. committed'.work = issued /\ committed'.main = committed.main
      BY <1>2, <2>1, <2>4 DEF State
    <3> QED BY <3>1, <3>2 DEF Implemented!Next, Implemented!WorkTransaction
  <2> QED BY <2>2, <2>3, <2>4
<1>5. ASSUME NEW p \in Proc, CheckpointSnapshot(p)
      PROVE  committed' = committed \/ Implemented!Next
  <2>1. /\ txn.pc = "snapshot"
        /\ committed' = IF txn.fold = "after" THEN [committed EXCEPT !.main = txn.after.main]
                                              ELSE committed
    BY <1>5 DEF CheckpointSnapshot
  <2>2. CASE txn.fold = "after"
    <3>1. \/ txn.after.main = committed.main
          \/ txn.after.main = AppendEntry(committed.main, issued)
      BY <1>1, <2>1, <2>2 DEF TxnOK, Folding
    <3>2. committed' = [committed EXCEPT !.main = txn.after.main]
      BY <2>1, <2>2
    <3>3. CASE txn.after.main = committed.main
      BY <1>2, <3>2, <3>3 DEF State
    <3> QED BY <1>3, <3>1, <3>2, <3>3
  <2> QED BY <2>1, <2>2
<1>6. ASSUME NEW p \in Proc, AppendRecord(p)
      PROVE  Implemented!Next
  <2>1. txn.pc = "append" /\ committed' = [committed EXCEPT !.main = txn.after.main]
    BY <1>6 DEF AppendRecord
  <2>2. AppendsMain /\ txn.before.main = committed.main
    BY <1>1, <2>1 DEF TxnOK, Reading, DiskOK
  <2> QED BY <1>3, <2>1, <2>2 DEF AppendsMain
<1>7. CASE UNCHANGED vars
  BY <1>7 DEF vars
<1>8. ASSUME NEW p \in Proc,
             Begin(p) \/ CheckpointLedger(p) \/ CheckpointTruncate(p) \/ TornAppend(p)
               \/ Return(p) \/ FoldJournal(p) \/ Crash(p)
      PROVE  committed' = committed
  BY <1>8 DEF Begin, CheckpointLedger, CheckpointTruncate, TornAppend, Return, FoldJournal, Crash
<1> QED BY <1>4, <1>5, <1>6, <1>7, <1>8 DEF Next

\* The files implement the atomic store: every transaction takes effect in one
\* step, computed from the state the one before it committed, or not at all.
THEOREM JournalIsAtomic == Spec => ImplementsAtomicStore
<1>1. Init => Implemented!Init
  BY DEF Init, Empty, Implemented!Init
<1>2. JournalInd /\ [Next]_vars => [Implemented!Next \/ OldBuildWrites]_<<committed>>
  BY JournalBounds, StepAtomic
<1> QED BY <1>1, <1>2, JournalIndHolds, PTL DEF Spec, ImplementsAtomicStore
=============================================================================
