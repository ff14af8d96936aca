---------------------------- MODULE StateJournal ----------------------------
(***************************************************************************)
(* The durable store of store.cljk: a snapshot, and beside it a write-ahead*)
(* journal of increments of that snapshot.                                 *)
(*                                                                         *)
(* A transaction runs load, compute, persist under one lock shared by the  *)
(* processes of the data directory.  Loading replays the journal over the  *)
(* snapshot it was opened against (named by digest; a journal of another   *)
(* snapshot is moved aside, not replayed).  Persisting first stores the    *)
(* work ledger, then appends one record to the journal; a record that does *)
(* not fit makes room by a checkpoint, or becomes a snapshot of its own;   *)
(* a full journal is folded into a new snapshot.  A checkpoint writes the  *)
(* snapshot and then empties the journal, and a process can die between    *)
(* any two of these file operations.  An append cut short by a power loss  *)
(* or a full disk leaves part of a line.  A build without journalling may  *)
(* take over the directory and rewrite the snapshot alone.                 *)
(*                                                                         *)
(* The main state is one retained vector of transaction numbers (the       *)
(* transcript of append-message), which exercises both journal operations: *)
(* it grows at the end until the window is full, and is replaced whole     *)
(* after that.  The work ledger is a register: WorkPartitionStore is the   *)
(* module that shows it may be treated as one.                             *)
(***************************************************************************)
EXTENDS Integers, Sequences, SequencesExt

CONSTANTS
  Proc,           \* processes sharing the data directory
  None,           \* "nobody" / no file
  Window, MaxTxns,
  JournalMax,     \* journal-max-bytes, in units of the smallest record
  MaxEntries,     \* journal-max-entries
  MaxCrashes,     \* bound: transactions abandoned by a crash or an exception
  MaxTorn,        \* bound: appends cut short
  MaxOldWrites    \* bound: snapshots written by a build without journalling

ASSUME JournalBounds ==
  /\ Window \in Nat \ {0} /\ MaxTxns \in Nat
  /\ JournalMax \in Nat \ {0} /\ MaxEntries \in Nat \ {0}
  /\ MaxCrashes \in Nat /\ MaxTorn \in Nat /\ MaxOldWrites \in Nat
  /\ None \notin Proc \cup Seq(1..MaxTxns)

VARIABLES
  snapshot,    \* state.edn: the main state, None while there is no file
  journal,     \* state.journal.edn: its lines
  terminated,  \* the journal ends on a line break
  work,        \* the work ledger on disk
  mem,         \* mem[p]: the state atom of process p
  lock,        \* holder of the store lock
  txn,         \* the holder's transaction
  committed,   \* (history) the state the committed transactions left
  issued,      \* transactions issued so far; their numbers
  crashes, torn, oldWrites

disk == <<snapshot, journal, terminated, work>>
bounds == <<crashes, torn, oldWrites>>
vars == <<disk, mem, lock, txn, committed, issued, bounds>>

Implemented == INSTANCE AtomicStore WITH main <- committed.main, work <- committed.work

\* Mutation: the retention window is not applied.
AppendEntry_NoWindow(log, n) == Append(log, n)

AppendEntry(log, n) == Implemented!AppendEntry(log, n)

(***************************************************************************)
(* Journal records.                                                        *)
(***************************************************************************)

\* state-delta of a vector: the tail it grew by, or the whole value if it was
\* absent before or lost its first entry to the window.
Delta(before, after) ==
  IF before # <<>> /\ IsPrefix(before, after)
  THEN [op |-> "append", from |-> Len(before),
        value |-> SubSeq(after, Len(before) + 1, Len(after))]
  ELSE [op |-> "assoc", from |-> 0, value |-> after]

\* apply-op: a tail that is there already is left alone; one that does not fit
\* is refused.
ApplyOp(s, r) ==
  CASE r.op = "assoc" -> [s EXCEPT !.main = r.value]
    [] r.op = "append" /\ Len(s.main) = r.from -> [s EXCEPT !.main = @ \o r.value]
    [] r.op = "append" /\ Len(s.main) # r.from ->
         [s EXCEPT !.fits = @ /\ Len(s.main) >= r.from + Len(r.value)
                              /\ SubSeq(s.main, r.from + 1, r.from + Len(r.value)) = r.value]

\* A line: readable or not, the digest of the snapshot its record increments
\* (the snapshot itself stands for its digest), the operation and its size.
NoDelta == [op |-> "assoc", from |-> 0, value |-> <<>>]
Garbage(size) == [ok |-> FALSE, base |-> None, delta |-> NoDelta, size |-> size]

Bytes(lines) ==
  LET upTo[i \in 0..Len(lines)] == IF i = 0 THEN 0 ELSE upTo[i - 1] + lines[i].size
  IN  upTo[Len(lines)]

JournalBytes == Bytes(journal)

\* What the file holds after writing one more line: an unfinished last line
\* and the new record become one line, which no reader can parse.
Written(line) ==
  IF terminated \/ journal = <<>>
  THEN Append(journal, line)
  ELSE Append(Front(journal), Garbage(Last(journal).size + line.size))

(***************************************************************************)
(* Loading.                                                                *)
(***************************************************************************)
\* Mutation: belonging is not checked.
JournalBelongs_Always == TRUE

\* journal-belongs-to-snapshot?, asked of the first line; a line that cannot
\* be read names no snapshot.
JournalBelongs == journal # <<>> => journal[1].ok /\ journal[1].base = snapshot

\* The loop of replay-journal: what the first lines make of BASE, and how many
\* of them were applied; a line that cannot be read changes nothing (Loadable
\* says which may be passed over).
Unplayed(base) == [fits |-> TRUE, main |-> base, applied |-> 0]

ApplyLine(s, line) ==
  IF line.ok THEN ApplyOp([s EXCEPT !.applied = @ + 1], line.delta) ELSE s

Replay(base, lines) ==
  LET upTo[i \in 0..Len(lines)] ==
        IF i = 0 THEN Unplayed(base) ELSE ApplyLine(upTo[i - 1], lines[i])
  IN  upTo[Len(lines)]

Base == IF snapshot = None THEN <<>> ELSE snapshot

Replayed == IF JournalBelongs THEN Replay(Base, journal) ELSE Unplayed(Base)

\* load-state throws when a line other than an unfinished last one cannot be
\* read, or an operation does not fit.
Loadable ==
  /\ JournalBelongs => \A i \in 1..Len(journal) :
                         journal[i].ok \/ (i = Len(journal) /\ ~terminated)
  /\ Replayed.fits

Loaded == [main |-> Replayed.main, work |-> work]

EntryCount == Replayed.applied

\* archive-orphan-journal!: a journal of another snapshot is moved aside.
SetAsideOrphan ==
  /\ journal' = IF JournalBelongs THEN journal ELSE <<>>
  /\ terminated' = IF JournalBelongs THEN terminated ELSE TRUE

-----------------------------------------------------------------------------
Main == {log \in Seq(1..MaxTxns) : Len(log) <= Window}
State == [main : Main, work : 0..MaxTxns]
Empty == [main |-> <<>>, work |-> 0]

NoTxn == [pc |-> "none", before |-> Empty, after |-> Empty, fold |-> "after",
          size |-> 1, entries |-> 0]

Init ==
  /\ snapshot = None /\ journal = <<>> /\ terminated = TRUE /\ work = 0
  /\ mem = [p \in Proc |-> Empty]
  /\ lock = None /\ txn = NoTxn
  /\ committed = Empty
  /\ issued = 0
  /\ crashes = 0 /\ torn = 0 /\ oldWrites = 0

\* Mutation: the update is applied to the process's own atom, as it was before
\* transactions reloaded under the lock.
Begin_FromMemory(p) ==
  /\ lock = None /\ Loadable /\ issued < MaxTxns
  /\ lock' = p
  /\ issued' = issued + 1
  /\ SetAsideOrphan
  /\ \E size \in 1..JournalMax, after \in
         {[mem[p] EXCEPT !.main = AppendEntry(@, issued + 1)],
          [mem[p] EXCEPT !.work = issued + 1]} :
       txn' = [pc |-> "persistWork", before |-> mem[p], after |-> after,
               fold |-> "after", size |-> size, entries |-> EntryCount]
  /\ UNCHANGED <<snapshot, work, mem, committed, bounds>>

\* Mutation: one transaction changes both partitions.
Begin_BothPartitions(p) ==
  /\ lock = None /\ Loadable /\ issued < MaxTxns
  /\ lock' = p
  /\ issued' = issued + 1
  /\ SetAsideOrphan
  /\ \E size \in 1..JournalMax, after \in
         {[Loaded EXCEPT !.main = AppendEntry(@, issued + 1), !.work = issued + 1]} :
       txn' = [pc |-> "persistWork", before |-> Loaded, after |-> after,
               fold |-> "after", size |-> size, entries |-> EntryCount]
  /\ UNCHANGED <<snapshot, work, mem, committed, bounds>>

\* transact!: take the lock, reload, compute.  A transaction changes the main
\* state, or governed work (work_runtime's update-ledger!), never both.
Begin(p) ==
  /\ lock = None /\ Loadable /\ issued < MaxTxns
  /\ lock' = p
  /\ issued' = issued + 1
  /\ SetAsideOrphan
  /\ \E size \in 1..JournalMax, after \in
         {[Loaded EXCEPT !.main = AppendEntry(@, issued + 1)],
          [Loaded EXCEPT !.work = issued + 1]} :
       txn' = [pc |-> "persistWork", before |-> Loaded, after |-> after,
               fold |-> "after", size |-> size, entries |-> EntryCount]
  /\ UNCHANGED <<snapshot, work, mem, committed, bounds>>

\* Mutation: appends without making room first.
PersistWork_NoRoomCheck(p) ==
  /\ lock = p /\ txn.pc = "persistWork"
  /\ work' = txn.after.work
  /\ committed' = [committed EXCEPT !.work = txn.after.work]
  /\ txn' =
       CASE txn.before.main = txn.after.main -> [txn EXCEPT !.pc = "return"]
         [] txn.before.main # txn.after.main /\ txn.size >= JournalMax ->
              [txn EXCEPT !.pc = "ledger", !.fold = "after"]
         [] OTHER -> [txn EXCEPT !.pc = "append"]
  /\ UNCHANGED <<snapshot, journal, terminated, mem, lock, issued, bounds>>

\* persist-delta!: governed work first, then by the size of the record an own
\* snapshot, a checkpoint that makes room, or the append.
PersistWork(p) ==
  /\ lock = p /\ txn.pc = "persistWork"
  /\ work' = txn.after.work
  /\ committed' = [committed EXCEPT !.work = txn.after.work]
  /\ txn' =
       CASE txn.before.main = txn.after.main -> [txn EXCEPT !.pc = "return"]
         [] txn.before.main # txn.after.main /\ txn.size >= JournalMax ->
              [txn EXCEPT !.pc = "ledger", !.fold = "after"]
         [] txn.before.main # txn.after.main /\ txn.size < JournalMax
              /\ JournalBytes + txn.size > JournalMax ->
              [txn EXCEPT !.pc = "ledger", !.fold = "before"]
         [] OTHER -> [txn EXCEPT !.pc = "append"]
  /\ UNCHANGED <<snapshot, journal, terminated, mem, lock, issued, bounds>>

FoldValue == IF txn.fold = "before" THEN txn.before ELSE txn.after

\* persist-snapshot!: the work ledger of the folded state ...
CheckpointLedger(p) ==
  /\ lock = p /\ txn.pc = "ledger"
  /\ work' = FoldValue.work
  /\ txn' = [txn EXCEPT !.pc = "snapshot"]
  /\ UNCHANGED <<snapshot, journal, terminated, mem, lock, committed, issued, bounds>>

\* ... and its main state.
CheckpointSnapshot(p) ==
  /\ lock = p /\ txn.pc = "snapshot"
  /\ snapshot' = FoldValue.main
  /\ committed' = IF txn.fold = "after" THEN [committed EXCEPT !.main = txn.after.main]
                                        ELSE committed
  /\ txn' = [txn EXCEPT !.pc = "truncate"]
  /\ UNCHANGED <<journal, terminated, work, mem, lock, issued, bounds>>

\* checkpoint!: and only then the journal is emptied.
CheckpointTruncate(p) ==
  /\ lock = p /\ txn.pc = "truncate"
  /\ journal' = <<>> /\ terminated' = TRUE
  /\ txn' = [txn EXCEPT !.pc = IF txn.fold = "before" THEN "append" ELSE "return",
                        !.entries = 0]
  /\ UNCHANGED <<snapshot, work, mem, lock, committed, issued, bounds>>

Record == [ok |-> TRUE, base |-> snapshot, size |-> txn.size,
           delta |-> Delta(txn.before.main, txn.after.main)]

\* append-durable! of one record; checkpoint-due? folds a full journal.
AppendRecord(p) ==
  /\ lock = p /\ txn.pc = "append"
  /\ journal' = Written(Record) /\ terminated' = TRUE
  /\ committed' = [committed EXCEPT !.main = txn.after.main]
  /\ txn' = [txn EXCEPT !.entries = @ + 1, !.fold = "after",
               !.pc = IF txn.entries + 1 >= MaxEntries \/ JournalBytes + txn.size >= JournalMax
                      THEN "ledger" ELSE "return"]
  /\ UNCHANGED <<snapshot, work, mem, lock, issued, bounds>>

\* The append is cut short: part of the record, and no line break, is left,
\* and the transaction ends by an exception or with its process.
TornAppend(p) ==
  /\ torn < MaxTorn
  /\ lock = p /\ txn.pc = "append"
  /\ journal' = Written(Garbage(txn.size)) /\ terminated' = FALSE
  /\ torn' = torn + 1
  /\ lock' = None /\ txn' = NoTxn
  /\ UNCHANGED <<snapshot, work, mem, committed, issued, crashes, oldWrites>>

\* The transaction returns: the atom is set and the lock released.
Return(p) ==
  /\ lock = p /\ txn.pc = "return"
  /\ mem' = [mem EXCEPT ![p] = txn.after]
  /\ lock' = None /\ txn' = NoTxn
  /\ UNCHANGED <<disk, committed, issued, bounds>>

\* fold-journal! when a server starts: the loaded state is checkpointed if any
\* record was replayed.
FoldJournal(p) ==
  /\ lock = None /\ Loadable
  /\ SetAsideOrphan
  /\ mem' = [mem EXCEPT ![p] = Loaded]
  /\ IF EntryCount > 0
     THEN /\ lock' = p
          /\ txn' = [NoTxn EXCEPT !.pc = "ledger", !.before = Loaded, !.after = Loaded,
                                  !.entries = EntryCount]
     ELSE UNCHANGED <<lock, txn>>
  /\ UNCHANGED <<snapshot, work, committed, issued, bounds>>

\* The holder dies, or a file operation throws out of the transaction.
Crash(p) ==
  /\ crashes < MaxCrashes
  /\ lock = p
  /\ crashes' = crashes + 1
  /\ lock' = None /\ txn' = NoTxn
  /\ UNCHANGED <<disk, mem, committed, issued, torn, oldWrites>>

\* A build without journalling rewrites the snapshot from what it read of the
\* snapshot alone.  From here on its state is the state.
OldBuildWrites ==
  /\ oldWrites < MaxOldWrites /\ issued < MaxTxns
  /\ lock = None
  /\ oldWrites' = oldWrites + 1
  /\ issued' = issued + 1
  /\ snapshot' = AppendEntry(Base, issued + 1)
  /\ committed' = [committed EXCEPT !.main = AppendEntry(Base, issued + 1)]
  /\ UNCHANGED <<journal, terminated, work, mem, lock, txn, crashes, torn>>

Next ==
  \/ \E p \in Proc : \/ Begin(p)
                     \/ PersistWork(p)
                     \/ CheckpointLedger(p)
                     \/ CheckpointSnapshot(p)
                     \/ CheckpointTruncate(p)
                     \/ AppendRecord(p)
                     \/ TornAppend(p)
                     \/ Return(p)
                     \/ FoldJournal(p)
                     \/ Crash(p)
  \/ OldBuildWrites

Spec == Init /\ [][Next]_vars
-----------------------------------------------------------------------------
(***************************************************************************)
(* Properties.                                                             *)
(***************************************************************************)
Line == [ok : BOOLEAN, base : Seq(1..MaxTxns) \cup {None},
         delta : [op : {"append", "assoc"}, from : 0..Window, value : Seq(1..MaxTxns)],
         size : Nat]

\* The variables have their types; in particular the retention window bounds
\* every value a snapshot or a journal record holds (retain-window).
TypeOK ==
  /\ snapshot = None \/ snapshot \in Main
  /\ journal \in Seq(Line)
  /\ terminated \in BOOLEAN
  /\ work \in 0..MaxTxns
  /\ mem \in [Proc -> State]
  /\ lock \in Proc \cup {None}
  /\ txn \in [pc : {"none", "persistWork", "ledger", "snapshot", "truncate",
                    "append", "return"},
              before : State, after : State, fold : {"before", "after"},
              size : 1..JournalMax, entries : Nat]
  /\ committed \in State
  /\ issued \in 0..MaxTxns
  /\ crashes \in 0..MaxCrashes /\ torn \in 0..MaxTorn /\ oldWrites \in 0..MaxOldWrites

\* What a process loads is what the committed transactions left: nothing that
\* was acknowledged is missing, nothing is replayed twice, and no journal is
\* replayed over a snapshot it does not belong to, whichever file operations a
\* crash separated and whichever build wrote the snapshot (load-state and
\* replay-journal against checkpoint! and persist-delta!).
ReadsCommitted == Loadable => Loaded = committed

\* A crash of a process at any point leaves files the next process can load, as
\* does a takeover; only an append cut short may end that.
AlwaysLoadable == torn = 0 => Loadable

\* "Only the FINAL line can be torn": a line that was completed is readable.
CompletedLinesReadable ==
  \A i \in 1..Len(journal) : i < Len(journal) \/ terminated => journal[i].ok

\* The bound is a trigger, not a wall: although no transaction is refused for
\* lack of room, the journal never exceeds its byte budget, and every record
\* beyond the entry bound stands for one interrupted checkpoint (persist-delta!).
JournalBounded == JournalBytes <= JournalMax /\ Len(journal) <= MaxEntries + crashes + torn

\* The store implements the atomic one: each transaction is computed from the
\* state the previous one committed, by whatever process, and takes effect in
\* one step or not at all.  Only the old build knows nothing of the journal.
ImplementsAtomicStore ==
  Implemented!Init /\ [][Implemented!Next \/ OldBuildWrites]_<<committed>>
=============================================================================
