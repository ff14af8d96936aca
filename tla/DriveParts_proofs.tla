------------------------- MODULE DriveParts_proofs -------------------------
(***************************************************************************)
(* Proofs about the parts of the Drive page.                               *)
(***************************************************************************)
EXTENDS DriveParts, FiniteSetTheorems, SequenceTheorems, WellFoundedInduction, TLAPS

(***************************************************************************)
(* Sequences without one element, and with all of them changed.            *)
(***************************************************************************)

LEMMA Removed ==
  ASSUME NEW S, NEW s \in Seq(S), NEW i \in 1..Len(s)
  PROVE  /\ RemoveAt(s, i) \in Seq(S)
         /\ Len(RemoveAt(s, i)) = Len(s) - 1
         /\ \A j \in 1..(Len(s) - 1) : RemoveAt(s, i)[j] = IF j < i THEN s[j] ELSE s[j + 1]
<1> DEFINE front == SubSeq(s, 1, i - 1)
           back  == SubSeq(s, i + 1, Len(s))
<1>0. Len(s) \in Nat /\ i \in Nat /\ 1 <= i /\ i <= Len(s)
  BY LenProperties
<1>1. /\ front \in Seq(S) /\ Len(front) = i - 1
      /\ \A j \in 1..(i - 1) : front[j] = s[j]
  <2>1. \A j \in 1..(i - 1) : s[j] \in S
    BY <1>0, ElementOfSeq
  <2>2. /\ front \in Seq(S) /\ Len(front) = IF 1 <= i - 1 THEN (i - 1) - 1 + 1 ELSE 0
        /\ \A j \in 1..((i - 1) - 1 + 1) : front[j] = s[1 + j - 1]
    BY <1>0, <2>1, SubSeqProperties
  <2> HIDE DEF front
  <2> QED BY <2>2, <1>0
<1>2. /\ back \in Seq(S) /\ Len(back) = Len(s) - i
      /\ \A j \in 1..(Len(s) - i) : back[j] = s[i + j]
  <2>1. \A j \in (i + 1)..Len(s) : s[j] \in S
    BY <1>0, ElementOfSeq
  <2>2. /\ back \in Seq(S) /\ Len(back) = IF i + 1 <= Len(s) THEN Len(s) - (i + 1) + 1 ELSE 0
        /\ \A j \in 1..(Len(s) - (i + 1) + 1) : back[j] = s[(i + 1) + j - 1]
    BY <1>0, <2>1, SubSeqProperties
  <2> HIDE DEF back
  <2> QED BY <2>2, <1>0
<1>3. RemoveAt(s, i) = front \o back
  BY DEF RemoveAt
<1> HIDE DEF front, back
<1>4. /\ front \o back \in Seq(S) /\ Len(front \o back) = Len(front) + Len(back)
      /\ \A j \in 1..(Len(front) + Len(back)) :
           (front \o back)[j] = IF j <= Len(front) THEN front[j] ELSE back[j - Len(front)]
  BY <1>1, <1>2, ConcatProperties
<1>5. Len(front) + Len(back) = Len(s) - 1
  BY <1>0, <1>1, <1>2
<1>6. ASSUME NEW j \in 1..(Len(s) - 1)
      PROVE  (front \o back)[j] = IF j < i THEN s[j] ELSE s[j + 1]
  <2>1. CASE j < i
    <3>1. j \in 1..(i - 1) /\ j <= Len(front)
      BY <1>0, <1>1, <2>1
    <3> QED BY <3>1, <1>1, <1>4, <1>5, <2>1
  <2>2. CASE ~(j < i)
    <3>1. j - (i - 1) \in 1..(Len(s) - i) /\ ~(j <= Len(front)) /\ i + (j - (i - 1)) = j + 1
      BY <1>0, <1>1, <2>2
    <3> QED BY <3>1, <1>1, <1>2, <1>4, <1>5, <2>2
  <2> QED BY <2>1, <2>2
<1> QED BY <1>3, <1>4, <1>5, <1>6

\* Every element of the shorter sequence was in the longer one, and all but
\* the one removed are left.
LEMMA RemovedElements ==
  ASSUME NEW S, NEW s \in Seq(S), NEW i \in 1..Len(s)
  PROVE  /\ \A j \in 1..Len(RemoveAt(s, i)) : \E k \in 1..Len(s) : k # i /\ RemoveAt(s, i)[j] = s[k]
         /\ \A k \in 1..Len(s) : k # i => \E j \in 1..Len(RemoveAt(s, i)) : RemoveAt(s, i)[j] = s[k]
<1>0. Len(s) \in Nat
  BY LenProperties
<1>1. /\ Len(RemoveAt(s, i)) = Len(s) - 1
      /\ \A j \in 1..(Len(s) - 1) : RemoveAt(s, i)[j] = IF j < i THEN s[j] ELSE s[j + 1]
  BY Removed
<1>2. ASSUME NEW j \in 1..(Len(s) - 1)
      PROVE  \E k \in 1..Len(s) : k # i /\ RemoveAt(s, i)[j] = s[k]
  <2>1. CASE j < i
    BY <1>0, <1>1, <2>1
  <2>2. CASE ~(j < i)
    <3>1. j + 1 \in 1..Len(s) /\ j + 1 # i
      BY <1>0, <2>2
    <3> QED BY <1>1, <2>2, <3>1
  <2> QED BY <2>1, <2>2
<1>3. ASSUME NEW k \in 1..Len(s), k # i
      PROVE  \E j \in 1..(Len(s) - 1) : RemoveAt(s, i)[j] = s[k]
  <2>1. CASE k < i
    <3>1. k \in 1..(Len(s) - 1)
      BY <1>0, <2>1
    <3> QED BY <1>1, <2>1, <3>1
  <2>2. CASE ~(k < i)
    <3>1. k - 1 \in 1..(Len(s) - 1) /\ ~(k - 1 < i) /\ (k - 1) + 1 = k
      BY <1>0, <1>3, <2>2
    <3> QED BY <1>1, <3>1
  <2> QED BY <2>1, <2>2
<1> QED BY <1>1, <1>2, <1>3

(***************************************************************************)
(* The editor: its invariant.                                              *)
(***************************************************************************)

NoOne   == Doc \cup {NoDoc}
EditorT == [id : NoOne, open : BOOLEAN, mode : Mode, payload : Content, text : Content,
            etag : Etag, loading : BOOLEAN, failed : BOOLEAN]
PaneT   == [item : Item, open : BOOLEAN, mode : Mode, stale : BOOLEAN, content : Content]
ReqT    == [kind : Reads \cup Writes \cup {"list"}, doc : NoOne, live : BOOLEAN, from : Nat,
            content : Content, etag : Etag, answer : Nat]

\* What was never typed as text is of the version whose tag goes with it.
Clean(c, e) == c.text \/ c = Nothing \/ (c.doc = e[1] /\ c.seen = e[2])

HistoryOK ==
  /\ history \in [Doc -> Seq(Content)]
  /\ \A d \in Doc : \A n \in 1..Len(history[d]) :
       ~history[d][n].text => history[d][n].doc = d /\ history[d][n].seen = n - 1

ListOK ==
  /\ listed \in [Doc -> Nat] /\ matching \subseteq Doc /\ selected \in Item
  /\ selected.doc = NoDoc => selected.at = 0
  /\ acts \in 0..MaxActs

EditorOK ==
  /\ editor \in EditorT
  /\ editor.open => editor.payload # Nothing
  /\ Clean(editor.payload, editor.etag) /\ Clean(editor.text, editor.etag)

\* What is on the page is of a document, in the mode of the editor unless that
\* was closed behind it.
PaneOK ==
  /\ pane \in PaneT
  /\ pane.open => pane.item.doc # NoDoc
  /\ pane.item.doc = NoDoc => pane.item.at = 0
  /\ pane.open => editor.mode = pane.mode \/ (pane.stale /\ editor.mode = "preview")

\* A request is of a document, of the one on the page if its closures still
\* are, and a write carries what was made out of the version it names.
ReqOK(r, shown) ==
  /\ r.kind # "list" => r.doc \in Doc
  /\ r.live /\ r.kind # "list" => r.doc = shown
  /\ r.kind \in Writes /\ r.etag[1] = r.doc => Clean(r.content, r.etag)

QueueOK(q, shown) == q \in Seq(ReqT) /\ \A i \in 1..Len(q) : ReqOK(q[i], shown)

\* An automatic read of a document is under way.
Awaited(q, d) == \E i \in 1..Len(q) : q[i].kind = "auto" /\ q[i].doc = d

EditorInd ==
  /\ HistoryOK /\ ListOK /\ EditorOK /\ PaneOK /\ QueueOK(asked, pane.item.doc)
  /\ editor.loading => Awaited(asked, editor.id)

(***************************************************************************)
(* Contents, requests and queues of them.                                  *)
(***************************************************************************)

LEMMA NoDocIsNone == NoDoc \notin Doc
BY DriveAssumption

LEMMA ContentsTyped ==
  /\ Nothing \in Content
  /\ \A d \in Doc, n \in Nat : Version(d, n) \in Content /\ Version(d, n) # Nothing
BY NoDocIsNone DEF Nothing, Content, Version

LEMMA MadeOfVersion ==
  ASSUME NEW d, NEW n
  PROVE  Clean(Version(d, n), <<d, n>>) /\ ~Version(d, n).text /\ Version(d, n).doc = d /\ Version(d, n).seen = n
BY DEF Clean, Version

LEMMA NothingIsClean == \A e : Clean(Nothing, e)
BY DEF Clean

\* A character typed in a field, and one typed in the text box.
LEMMA Edited ==
  ASSUME NEW c \in Content, c # Nothing
  PROVE  /\ [c EXCEPT !.dirty = TRUE] \in Content /\ [c EXCEPT !.dirty = TRUE] # Nothing
         /\ \A e : Clean(c, e) => Clean([c EXCEPT !.dirty = TRUE], e)
         /\ [c EXCEPT !.dirty = TRUE].dirty
         /\ [c EXCEPT !.dirty = TRUE, !.text = TRUE] \in Content
         /\ [c EXCEPT !.dirty = TRUE, !.text = TRUE] # Nothing
         /\ \A e : Clean([c EXCEPT !.dirty = TRUE, !.text = TRUE], e)
         /\ [c EXCEPT !.dirty = TRUE, !.text = TRUE].dirty
<1> DEFINE c1 == [c EXCEPT !.dirty = TRUE]
           c2 == [c EXCEPT !.dirty = TRUE, !.text = TRUE]
<1>1. c1 \in Content /\ c1.dirty = TRUE /\ c1.doc = c.doc /\ c1.seen = c.seen /\ c1.text = c.text
  BY DEF Content
<1>2. c2 = [c1 EXCEPT !.text = TRUE]
  BY DEF Content
<1>3. c2 \in Content /\ c2.dirty = TRUE /\ c2.text = TRUE
  BY <1>1, <1>2 DEF Content
<1>4. Nothing.dirty = FALSE
  BY DEF Nothing
<1> HIDE DEF c1, c2
<1>5. \A e : (Clean(c, e) => Clean(c1, e)) /\ Clean(c2, e)
  BY <1>1, <1>3 DEF Clean
<1>6. c1 # Nothing /\ c2 # Nothing /\ c1.dirty /\ c2.dirty
  BY <1>1, <1>3, <1>4
<1> QED BY <1>1, <1>3, <1>5, <1>6 DEF c1, c2

LEMMA ClosedOK ==
  ASSUME NEW d \in NoOne
  PROVE  /\ Closed(d) \in EditorT /\ ~Closed(d).open /\ Closed(d).mode = "preview"
         /\ Closed(d).payload = Nothing /\ Closed(d).text = Nothing
         /\ ~Closed(d).loading /\ Closed(d).id = d
<1>1. <<NoDoc, 0>> \in Etag
  BY DEF Etag
<1>2. "preview" \in Mode
  BY DEF Mode
<1> QED BY <1>1, <1>2, ContentsTyped DEF Closed, EditorT

\* An editor filled with a version of a document is clean.
LEMMA OpenedOK ==
  ASSUME EditorOK, NEW d \in Doc, NEW n \in Nat, NEW text \in {Version(d, n), Nothing}
  PROVE  /\ Opened(d, n, text) \in EditorT /\ Opened(d, n, text).open
         /\ Opened(d, n, text).mode = editor.mode /\ Opened(d, n, text).id = d
         /\ Opened(d, n, text).payload = Version(d, n) /\ Opened(d, n, text).text = text
         /\ Opened(d, n, text).etag = <<d, n>> /\ ~Opened(d, n, text).loading
<1> DEFINE e0 == Closed(d)
           e1 == [e0 EXCEPT !.open = TRUE]
           e2 == [e1 EXCEPT !.mode = editor.mode]
           e3 == [e2 EXCEPT !.payload = Version(d, n)]
           e4 == [e3 EXCEPT !.text = text]
           e5 == [e4 EXCEPT !.etag = <<d, n>>]
<1>0. e0 \in EditorT /\ e0.id = d /\ ~e0.loading
  BY ClosedOK DEF NoOne
<1>a. editor.mode \in Mode /\ Version(d, n) \in Content /\ text \in Content /\ <<d, n>> \in Etag
  BY ContentsTyped DEF EditorOK, EditorT, Etag
<1>b. Opened(d, n, text) = e5
  BY DEF Opened
<1> HIDE DEF e0
<1>1. e1 \in EditorT /\ e1.open /\ e1.id = d /\ ~e1.loading
  BY <1>0 DEF EditorT
<1> HIDE DEF e1
<1>2. e2 \in EditorT /\ e2.open /\ e2.id = d /\ ~e2.loading /\ e2.mode = editor.mode
  BY <1>1, <1>a DEF EditorT
<1> HIDE DEF e2
<1>3. /\ e3 \in EditorT /\ e3.open /\ e3.id = d /\ ~e3.loading /\ e3.mode = editor.mode
      /\ e3.payload = Version(d, n)
  BY <1>2, <1>a DEF EditorT
<1> HIDE DEF e3
<1>4. /\ e4 \in EditorT /\ e4.open /\ e4.id = d /\ ~e4.loading /\ e4.mode = editor.mode
      /\ e4.payload = Version(d, n) /\ e4.text = text
  BY <1>3, <1>a DEF EditorT
<1> HIDE DEF e4
<1>5. /\ e5 \in EditorT /\ e5.open /\ e5.id = d /\ ~e5.loading /\ e5.mode = editor.mode
      /\ e5.payload = Version(d, n) /\ e5.text = text /\ e5.etag = <<d, n>>
  BY <1>4, <1>a DEF EditorT
<1> HIDE DEF e5
<1> QED BY <1>5, <1>b

LEMMA OpenedClean ==
  ASSUME EditorOK, NEW d \in Doc, NEW n \in Nat, NEW text \in {Version(d, n), Nothing},
         editor' = Opened(d, n, text)
  PROVE  EditorOK' /\ ~editor'.loading /\ editor'.mode = editor.mode
<1>1. Clean(Version(d, n), <<d, n>>) /\ Clean(text, <<d, n>>) /\ Version(d, n) # Nothing
  BY MadeOfVersion, NothingIsClean, ContentsTyped
<1> QED BY <1>1, OpenedOK DEF EditorOK

LEMMA ClosedClean ==
  ASSUME NEW d \in NoOne, editor' = Closed(d)
  PROVE  EditorOK' /\ ~editor'.loading /\ editor'.mode = "preview"
BY ClosedOK, NothingIsClean DEF EditorOK

\* A request as it is sent.
LEMMA RequestOK ==
  ASSUME HistoryOK, NEW k \in Reads \cup Writes \cup {"list"}, NEW d \in NoOne,
         NEW c \in Content, NEW e \in Etag
  PROVE  /\ Request(k, d, c, e) \in ReqT
         /\ Request(k, d, c, e).kind = k /\ Request(k, d, c, e).doc = d
         /\ Request(k, d, c, e).content = c /\ Request(k, d, c, e).etag = e
<1>1. (IF d = NoDoc THEN 0 ELSE Latest(d)) \in Nat
  <2>1. d # NoDoc => history[d] \in Seq(Content)
    BY DEF HistoryOK, NoOne
  <2> QED BY <2>1, LenProperties DEF Latest
<1> QED BY <1>1 DEF Request, ReqT

LEMMA AskOK ==
  ASSUME HistoryOK, NEW k \in Reads \cup {"list"}, NEW d \in NoOne
  PROVE  /\ Ask(k, d) \in ReqT /\ Ask(k, d).kind = k /\ Ask(k, d).doc = d
         /\ [Ask(k, d) EXCEPT !.live = FALSE] \in ReqT
         /\ [Ask(k, d) EXCEPT !.live = FALSE].kind = k /\ [Ask(k, d) EXCEPT !.live = FALSE].doc = d
<1>1. <<NoDoc, 0>> \in Etag
  BY DEF Etag, NoOne
<1>2. Ask(k, d) \in ReqT /\ Ask(k, d).kind = k /\ Ask(k, d).doc = d
  BY <1>1, RequestOK, ContentsTyped DEF Ask
<1> HIDE DEF Ask
<1> QED BY <1>2 DEF ReqT

\* No list or read is a write.
LEMMA Kinds ==
  /\ "list" \notin Writes /\ \A k \in Reads : k \notin Writes /\ k # "list"
  /\ {"auto", "open", "reread"} \subseteq Reads /\ {"save", "restore", "sort"} \subseteq Writes
BY DEF Reads, Writes

LEMMA QueueRemove ==
  ASSUME NEW q, NEW shown, QueueOK(q, shown), NEW i \in 1..Len(q)
  PROVE  /\ QueueOK(RemoveAt(q, i), shown)
         /\ \A d : Awaited(q, d) /\ (q[i].kind # "auto" \/ q[i].doc # d) => Awaited(RemoveAt(q, i), d)
<1>1. q \in Seq(ReqT) /\ \A k \in 1..Len(q) : ReqOK(q[k], shown)
  BY DEF QueueOK
<1>2. RemoveAt(q, i) \in Seq(ReqT)
  BY <1>1, Removed
<1>3. /\ \A j \in 1..Len(RemoveAt(q, i)) : \E k \in 1..Len(q) : RemoveAt(q, i)[j] = q[k]
      /\ \A k \in 1..Len(q) : k # i => \E j \in 1..Len(RemoveAt(q, i)) : RemoveAt(q, i)[j] = q[k]
  BY <1>1, RemovedElements
<1>4. QueueOK(RemoveAt(q, i), shown)
  BY <1>1, <1>2, <1>3 DEF QueueOK
<1>5. ASSUME NEW d, Awaited(q, d), q[i].kind # "auto" \/ q[i].doc # d
      PROVE  Awaited(RemoveAt(q, i), d)
  <2>1. PICK k \in 1..Len(q) : q[k].kind = "auto" /\ q[k].doc = d
    BY <1>5 DEF Awaited
  <2>2. k # i
    BY <1>5, <2>1
  <2> QED BY <1>3, <2>1, <2>2 DEF Awaited
<1> QED BY <1>4, <1>5

LEMMA QueueAppend ==
  ASSUME NEW q, NEW shown, QueueOK(q, shown), NEW r \in ReqT, ReqOK(r, shown)
  PROVE  /\ QueueOK(Append(q, r), shown)
         /\ \A d : Awaited(q, d) => Awaited(Append(q, r), d)
<1>1. q \in Seq(ReqT) /\ Len(q) \in Nat /\ \A k \in 1..Len(q) : ReqOK(q[k], shown)
  BY LenProperties DEF QueueOK
<1>2. /\ Append(q, r) \in Seq(ReqT) /\ Len(Append(q, r)) = Len(q) + 1
      /\ \A i \in 1..Len(q) : Append(q, r)[i] = q[i]
      /\ Append(q, r)[Len(q) + 1] = r
  BY <1>1, AppendProperties
<1>3. \A i \in 1..(Len(q) + 1) : i \in 1..Len(q) \/ i = Len(q) + 1
  BY <1>1
<1>4. \A i \in 1..Len(q) : i \in 1..(Len(q) + 1)
  BY <1>1
<1> QED BY <1>1, <1>2, <1>3, <1>4 DEF QueueOK, Awaited

LEMMA QueueExcept ==
  ASSUME NEW q, NEW shown, QueueOK(q, shown), NEW i \in 1..Len(q), NEW n \in Nat
  PROVE  /\ QueueOK([q EXCEPT ![i].answer = n], shown)
         /\ \A d : Awaited(q, d) => Awaited([q EXCEPT ![i].answer = n], d)
<1> DEFINE r == [q[i] EXCEPT !.answer = n]
           p == [q EXCEPT ![i] = r]
<1>1. q \in Seq(ReqT) /\ \A k \in 1..Len(q) : ReqOK(q[k], shown) /\ q[k] \in ReqT
  BY ElementOfSeq DEF QueueOK
<1>2. /\ r \in ReqT /\ r.kind = q[i].kind /\ r.doc = q[i].doc /\ r.live = q[i].live
      /\ r.content = q[i].content /\ r.etag = q[i].etag
  BY <1>1 DEF ReqT
<1>3. [q EXCEPT ![i].answer = n] = p
  OBVIOUS
<1> HIDE DEF r
<1>4. /\ p \in Seq(ReqT) /\ Len(p) = Len(q)
      /\ \A j \in 1..Len(q) : p[j] = IF j = i THEN r ELSE q[j]
  BY <1>1, <1>2, ExceptSeq
<1> HIDE DEF p
<1>5. ReqOK(r, shown)
  BY <1>1, <1>2 DEF ReqOK
<1>6. QueueOK(p, shown)
  BY <1>1, <1>4, <1>5 DEF QueueOK
<1>7. \A d : Awaited(q, d) => Awaited(p, d)
  BY <1>2, <1>4 DEF Awaited
<1> QED BY <1>3, <1>6, <1>7

\* After the page is drawn, the closures of the requests are off the page.
LEMMA QueueDetached ==
  ASSUME NEW q, NEW shown, QueueOK(q, shown), NEW new
  PROVE  /\ QueueOK(Detached(q), new)
         /\ \A d : Awaited(q, d) => Awaited(Detached(q), d)
<1>1. /\ q \in Seq(ReqT) /\ Len(q) \in Nat /\ DOMAIN q = 1..Len(q)
      /\ \A k \in 1..Len(q) : ReqOK(q[k], shown) /\ q[k] \in ReqT
  BY LenProperties, ElementOfSeq DEF QueueOK
<1>2. \A k \in 1..Len(q) :
        LET r == [q[k] EXCEPT !.live = FALSE]
        IN /\ r \in ReqT /\ r.kind = q[k].kind /\ r.doc = q[k].doc /\ ~r.live
           /\ r.content = q[k].content /\ r.etag = q[k].etag
  BY <1>1 DEF ReqT
<1>3. /\ DOMAIN Detached(q) = 1..Len(q)
      /\ \A k \in 1..Len(q) : Detached(q)[k] = [q[k] EXCEPT !.live = FALSE]
  BY <1>1 DEF Detached
<1>4. Detached(q) \in [1..Len(q) -> ReqT]
  BY <1>1, <1>2 DEF Detached
<1>5. Detached(q) \in Seq(ReqT) /\ Len(Detached(q)) = Len(q)
  <2>1. Detached(q) \in Seq(ReqT)
    BY <1>1, <1>4, SeqDef
  <2> QED BY <2>1, <1>1, <1>3, LenProperties
<1>6. \A k \in 1..Len(q) : ReqOK(Detached(q)[k], new)
  BY <1>1, <1>2, <1>3 DEF ReqOK
<1>7. QueueOK(Detached(q), new)
  BY <1>5, <1>6 DEF QueueOK
<1>8. \A d : Awaited(q, d) => Awaited(Detached(q), d)
  BY <1>2, <1>3, <1>5 DEF Awaited
<1> QED BY <1>7, <1>8

LEMMA PaneTyped ==
  ASSUME NEW item \in Item, NEW e \in EditorT
  PROVE  /\ PaneOf(item, e) \in PaneT /\ PaneOf(item, e).item = item
         /\ PaneOf(item, e).open = e.open /\ PaneOf(item, e).mode = e.mode /\ ~PaneOf(item, e).stale
BY ContentsTyped DEF PaneOf, PaneT, EditorT

\* What is on the page after the editor was replaced behind it.
LEMMA BehindOK ==
  ASSUME EditorOK, PaneOK, editor'.mode \in {editor.mode, "preview"}, pane' = Behind
  PROVE  PaneOK' /\ pane'.item = pane.item
<1>1. pane \in PaneT /\ editor.text \in Content /\ editor.payload \in Content
  BY DEF PaneOK, EditorOK, EditorT
<1>2. CASE pane.stale \/ ~pane.open
  <2>1. pane' = pane
    BY <1>2 DEF Behind
  <2> QED BY <2>1, <1>2 DEF PaneOK
<1>3. CASE ~(pane.stale \/ ~pane.open)
  <2> DEFINE c == IF pane.mode = "json" THEN editor.text ELSE editor.payload
             p1 == [pane EXCEPT !.stale = TRUE]
             p2 == [p1 EXCEPT !.content = c]
  <2>0. c \in Content
    BY <1>1
  <2>1. pane' = p2
    BY <1>3 DEF Behind
  <2> HIDE DEF c
  <2>2. p1 \in PaneT /\ p1.stale = TRUE /\ p1.item = pane.item /\ p1.open = pane.open /\ p1.mode = pane.mode
    BY <1>1 DEF PaneT
  <2> HIDE DEF p1
  <2>3. p2 \in PaneT /\ p2.stale = TRUE /\ p2.item = pane.item /\ p2.open = pane.open /\ p2.mode = pane.mode
    BY <2>2, <2>0 DEF PaneT
  <2> HIDE DEF p2
  <2> QED BY <2>1, <2>3, <1>3 DEF PaneOK
<1> QED BY <1>2, <1>3

\* What is on the page after it was drawn from the editor as it is now.
LEMMA DrawnOK ==
  ASSUME EditorOK', PaneOK, pane.item.doc # NoDoc, pane' = PaneOf(pane.item, editor')
  PROVE  PaneOK' /\ pane'.item = pane.item
<1>1. pane.item \in Item /\ editor' \in EditorT
  BY DEF PaneOK, PaneT, EditorOK
<1> QED BY <1>1, PaneTyped DEF PaneOK

(***************************************************************************)
(* Drawing the page.                                                       *)
(***************************************************************************)

LEMMA RenderKeeps ==
  ASSUME HistoryOK, EditorOK, NEW item0 \in Item, item0.doc = NoDoc => item0.at = 0,
         NEW in \in SUBSET Doc, listed' \in [Doc -> Nat],
         NEW q, NEW shown, QueueOK(q, shown), editor.loading => Awaited(q, editor.id),
         Render(editor, item0, in, q)
  PROVE  /\ selected' \in Item /\ (selected'.doc = NoDoc => selected'.at = 0)
         /\ EditorOK' /\ PaneOK' /\ QueueOK(asked', pane'.item.doc)
         /\ editor'.loading => Awaited(asked', editor'.id)
         /\ selected'.doc = NoDoc \/ selected'.doc = editor.id => Work(editor') = Work(editor)
<1> DEFINE item == IF item0.doc \in in THEN item0
                   ELSE IF in = {} THEN [doc |-> NoDoc, at |-> 0]
                   ELSE LET x == CHOOSE y \in in : TRUE IN [doc |-> x, at |-> listed'[x]]
           e    == IF item.doc = NoDoc THEN editor ELSE Fitting(editor, item.doc)
           auto == item.doc # NoDoc /\ Unread(e)
           tail == IF auto THEN <<Ask("auto", item.doc)>> ELSE <<>>
<1>1. /\ selected' = item /\ editor' = [e EXCEPT !.loading = @ \/ auto]
      /\ pane' = IF item.doc = NoDoc THEN PaneOf(item, Closed(NoDoc)) ELSE PaneOf(item, e)
      /\ asked' = Detached(q) \o tail
  BY DEF Render
<1>2. item \in Item /\ (item.doc = NoDoc => item.at = 0)
  <2>1. CASE item0.doc \in in
    BY <2>1
  <2>2. CASE item0.doc \notin in /\ in = {}
    BY <2>2 DEF Item
  <2>3. CASE item0.doc \notin in /\ in # {}
    <3>1. \E d \in in : TRUE
      BY <2>3
    <3>2. (CHOOSE y \in in : TRUE) \in in
      BY <3>1
    <3>3. PICK d \in Doc : d = CHOOSE y \in in : TRUE
      BY <3>2
    <3>4. item = [doc |-> d, at |-> listed'[d]]
      BY <2>3, <3>3
    <3> QED BY <3>3, <3>4, NoDocIsNone DEF Item
  <2> QED BY <2>1, <2>2, <2>3
<1>3. item.doc \in NoOne
  BY <1>2 DEF Item, NoOne
<1> HIDE DEF item
<1>4. /\ e \in EditorT /\ (e.open => e.payload # Nothing)
      /\ Clean(e.payload, e.etag) /\ Clean(e.text, e.etag)
      /\ e.loading => Awaited(q, e.id)
      /\ item.doc # NoDoc => e.id = item.doc
      /\ item.doc = NoDoc \/ item.doc = editor.id => e = editor
  <2>1. CASE item.doc = NoDoc \/ editor.id = item.doc
    <3>1. e = editor
      BY <2>1 DEF Fitting
    <3> QED BY <3>1, <2>1 DEF EditorOK
  <2>2. CASE ~(item.doc = NoDoc \/ editor.id = item.doc)
    <3>1. e = Closed(item.doc)
      BY <2>2 DEF Fitting
    <3> QED BY <3>1, <2>2, <1>3, ClosedOK, NothingIsClean
  <2> QED BY <2>1, <2>2
<1> HIDE DEF e
<1>5. auto \in BOOLEAN
  OBVIOUS
<1> HIDE DEF auto
<1>6. /\ editor' \in EditorT /\ editor'.id = e.id /\ editor'.open = e.open /\ editor'.mode = e.mode
      /\ editor'.payload = e.payload /\ editor'.text = e.text /\ editor'.etag = e.etag
      /\ editor'.loading <=> (e.loading \/ auto)
  BY <1>1, <1>4, <1>5 DEF EditorT
<1>7. EditorOK'
  BY <1>4, <1>6 DEF EditorOK
<1>8. PaneOK' /\ pane'.item = item
  <2>1. CASE item.doc = NoDoc
    <3>1. pane' = PaneOf(item, Closed(NoDoc)) /\ Closed(NoDoc) \in EditorT /\ ~Closed(NoDoc).open
      BY <1>1, <2>1, ClosedOK DEF NoOne
    <3> QED BY <3>1, <1>2, PaneTyped DEF PaneOK
  <2>2. CASE item.doc # NoDoc
    <3>1. pane' = PaneOf(item, e)
      BY <1>1, <2>2
    <3> QED BY <3>1, <2>2, <1>2, <1>4, <1>6, PaneTyped DEF PaneOK
  <2> QED BY <2>1, <2>2
<1>9. QueueOK(Detached(q), item.doc) /\ \A d : Awaited(q, d) => Awaited(Detached(q), d)
  BY QueueDetached
<1>10. QueueOK(asked', item.doc) /\ (e.loading => Awaited(asked', e.id)) /\ (auto => Awaited(asked', e.id))
  <2>1. CASE ~auto
    <3>1. Detached(q) \in Seq(ReqT)
      BY <1>9 DEF QueueOK
    <3>2. asked' = Detached(q)
      BY <3>1, <2>1, <1>1, ConcatEmptySeq
    <3> QED BY <2>1, <3>2, <1>4, <1>9
  <2>2. CASE auto
    <3> DEFINE r == Ask("auto", item.doc)
    <3>1. item.doc # NoDoc /\ item.doc \in Doc
      BY <2>2, <1>3 DEF auto, NoOne
    <3>2. r \in ReqT /\ r.kind = "auto" /\ r.doc = item.doc
      BY <1>3, AskOK, Kinds
    <3>3. ReqOK(r, item.doc)
      BY <3>1, <3>2, Kinds DEF ReqOK
    <3> HIDE DEF r
    <3>4. Detached(q) \in Seq(ReqT)
      BY <1>9 DEF QueueOK
    <3>5. asked' = Append(Detached(q), r)
      BY <3>2, <3>4, <2>2, <1>1, AppendIsConcat DEF r
    <3>6. QueueOK(asked', item.doc) /\ \A d : Awaited(Detached(q), d) => Awaited(asked', d)
      BY <1>9, <3>2, <3>3, <3>5, QueueAppend
    <3>7. Awaited(asked', item.doc)
      <4>1. Len(Detached(q)) \in Nat
        BY <3>4, LenProperties
      <4>2. Len(asked') = Len(Detached(q)) + 1 /\ asked'[Len(Detached(q)) + 1] = r
        BY <3>2, <3>4, <3>5, AppendProperties
      <4>3. Len(Detached(q)) + 1 \in 1..Len(asked')
        BY <4>1, <4>2
      <4> QED BY <4>2, <4>3, <3>2 DEF Awaited
    <3> QED BY <3>1, <3>6, <3>7, <1>4, <1>9
  <2> QED BY <2>1, <2>2
<1>11. editor'.loading => Awaited(asked', editor'.id)
  BY <1>6, <1>10
<1>12. selected'.doc = NoDoc \/ selected'.doc = editor.id => Work(editor') = Work(editor)
  BY <1>1, <1>4, <1>6 DEF Work
<1> QED BY <1>1, <1>2, <1>7, <1>8, <1>10, <1>11, <1>12

(***************************************************************************)
(* The steps of the editor: the person and the list.                       *)
(***************************************************************************)

LEMMA VersionsAreCounted ==
  ASSUME HistoryOK, NEW d \in Doc
  PROVE  history[d] \in Seq(Content) /\ Latest(d) \in Nat
<1>1. history[d] \in Seq(Content)
  BY DEF HistoryOK
<1> QED BY <1>1, LenProperties DEF Latest

LEMMA ActCounted ==
  ASSUME ListOK, Act
  PROVE  acts' \in 0..MaxActs
BY DriveAssumption DEF ListOK, Act

LEMMA PageDrawn ==
  ASSUME EditorInd, NEW item0 \in Item, item0.doc = NoDoc => item0.at = 0, NEW in \in SUBSET Doc,
         listed' \in [Doc -> Nat], matching' \subseteq Doc, acts' \in 0..MaxActs, UNCHANGED history,
         NEW q, QueueOK(q, pane.item.doc), editor.loading => Awaited(q, editor.id),
         Render(editor, item0, in, q)
  PROVE  EditorInd'
<1>1. HistoryOK /\ EditorOK
  BY DEF EditorInd
<1>2. HistoryOK'
  BY <1>1 DEF HistoryOK
<1>3. /\ selected' \in Item /\ (selected'.doc = NoDoc => selected'.at = 0)
      /\ EditorOK' /\ PaneOK' /\ QueueOK(asked', pane'.item.doc)
      /\ editor'.loading => Awaited(asked', editor'.id)
  BY <1>1, RenderKeeps
<1> QED BY <1>2, <1>3 DEF EditorInd, ListOK

LEMMA KeystrokeKeeps ==
  ASSUME EditorInd, NEW in \in SUBSET Doc, Keystroke(in)
  PROVE  EditorInd'
<1>1. ListOK /\ acts' \in 0..MaxActs
  BY ActCounted DEF EditorInd, Keystroke
<1>2. /\ listed' \in [Doc -> Nat] /\ matching' \subseteq Doc /\ UNCHANGED history
      /\ selected \in Item /\ (selected.doc = NoDoc => selected.at = 0)
      /\ Render(editor, selected, in, asked)
  BY <1>1 DEF Keystroke, ListOK
<1>3. QueueOK(asked, pane.item.doc) /\ (editor.loading => Awaited(asked, editor.id))
  BY DEF EditorInd
<1> QED BY <1>1, <1>2, <1>3, PageDrawn

LEMMA SelectKeeps ==
  ASSUME EditorInd, NEW d \in Doc, Select(d)
  PROVE  EditorInd'
<1>1. ListOK /\ acts' \in 0..MaxActs
  BY ActCounted DEF EditorInd, Select
<1> DEFINE item0 == [doc |-> d, at |-> listed[d]]
<1>2. item0 \in Item /\ item0.doc # NoDoc
  BY <1>1, NoDocIsNone DEF ListOK, Item
<1>3. /\ listed' \in [Doc -> Nat] /\ matching \in SUBSET Doc /\ matching' \subseteq Doc
      /\ UNCHANGED history /\ Render(editor, item0, matching, asked)
  BY <1>1 DEF Select, ListOK
<1>4. QueueOK(asked, pane.item.doc) /\ (editor.loading => Awaited(asked, editor.id))
  BY DEF EditorInd
<1> HIDE DEF item0
<1> QED BY <1>1, <1>2, <1>3, <1>4, PageDrawn

LEMMA ListArrivesKeeps ==
  ASSUME EditorInd, NEW i \in 1..Len(asked), ListArrives(i)
  PROVE  EditorInd'
<1>1. ListOK /\ HistoryOK /\ acts' = acts
  BY DEF EditorInd, ListArrives
<1> DEFINE q == RemoveAt(asked, i)
<1>2. listed' \in [Doc -> Nat]
  BY <1>1, VersionsAreCounted DEF ListArrives
<1>3. /\ matching \in SUBSET Doc /\ matching' \subseteq Doc /\ acts' \in 0..MaxActs /\ UNCHANGED history
      /\ selected \in Item /\ (selected.doc = NoDoc => selected.at = 0)
      /\ Render(editor, selected, matching, q)
  BY <1>1 DEF ListArrives, ListOK
<1>4. QueueOK(asked, pane.item.doc) /\ (editor.loading => Awaited(asked, editor.id))
  BY DEF EditorInd
<1>5. asked[i].kind # "auto"
  BY DEF ListArrives
<1>6. QueueOK(q, pane.item.doc) /\ (editor.loading => Awaited(q, editor.id))
  BY <1>4, <1>5, QueueRemove
<1> HIDE DEF q
<1> QED BY <1>2, <1>3, <1>6, PageDrawn

\* A request is sent and nothing else changes.
LEMMA Sent ==
  ASSUME EditorInd, NEW r \in ReqT, ReqOK(r, pane.item.doc), acts' \in 0..MaxActs,
         asked' = Append(asked, r),
         UNCHANGED <<history, listed, matching, selected, editor, pane>>
  PROVE  EditorInd'
<1>1. HistoryOK' /\ ListOK' /\ EditorOK' /\ PaneOK'
  BY DEF EditorInd, HistoryOK, ListOK, EditorOK, PaneOK
<1>2. QueueOK(asked', pane'.item.doc) /\ \A d : Awaited(asked, d) => Awaited(asked', d)
  BY QueueAppend DEF EditorInd
<1> QED BY <1>1, <1>2 DEF EditorInd

LEMMA RefreshKeeps ==
  ASSUME EditorInd, Refresh
  PROVE  EditorInd'
<1> DEFINE r == [List EXCEPT !.live = FALSE]
<1>1. r \in ReqT /\ r.kind = "list"
  BY AskOK DEF EditorInd, List, NoOne
<1>2. ReqOK(r, pane.item.doc)
  BY <1>1, Kinds DEF ReqOK
<1>3. acts' \in 0..MaxActs
  BY ActCounted DEF EditorInd, Refresh
<1>4. asked' = Append(asked, r) /\ UNCHANGED <<history, listed, matching, selected, editor, pane>>
  BY DEF Refresh
<1> HIDE DEF r
<1> QED BY <1>1, <1>2, <1>3, <1>4, Sent

LEMMA OpenClickKeeps ==
  ASSUME EditorInd, OpenClick
  PROVE  EditorInd'
<1> DEFINE r == Ask("open", pane.item.doc)
<1>1. pane.item.doc \in Doc
  BY DEF EditorInd, PaneOK, PaneT, Item, OpenClick
<1>2. r \in ReqT /\ r.kind = "open" /\ r.doc = pane.item.doc
  BY <1>1, AskOK, Kinds DEF EditorInd, NoOne
<1>3. ReqOK(r, pane.item.doc)
  BY <1>1, <1>2, Kinds DEF ReqOK
<1>4. acts' \in 0..MaxActs
  BY ActCounted DEF EditorInd, OpenClick
<1>5. asked' = Append(asked, r) /\ UNCHANGED <<history, listed, matching, selected, editor, pane>>
  BY DEF OpenClick
<1> HIDE DEF r
<1> QED BY <1>2, <1>3, <1>4, <1>5, Sent

LEMMA SaveClickKeeps ==
  ASSUME EditorInd, SaveClick
  PROVE  EditorInd'
<1> DEFINE c == IF editor.mode = "json" THEN editor.text ELSE editor.payload
           r == Request("save", pane.item.doc, c, SaveEtag)
<1>1. pane.item.doc \in Doc
  BY DEF EditorInd, PaneOK, PaneT, Item, SaveClick
<1>2. c \in Content /\ SaveEtag \in Etag /\ Clean(c, SaveEtag)
  BY DEF EditorInd, EditorOK, EditorT, SaveEtag
<1>3. asked' = Append(asked, r) /\ UNCHANGED <<history, listed, matching, selected, editor, pane>>
  BY DEF SaveClick
<1> HIDE DEF c
<1>4. r \in ReqT /\ r.kind = "save" /\ r.doc = pane.item.doc /\ r.content = c /\ r.etag = SaveEtag
  BY <1>1, <1>2, RequestOK, Kinds DEF EditorInd, NoOne
<1>5. ReqOK(r, pane.item.doc)
  BY <1>1, <1>2, <1>4 DEF ReqOK
<1>6. acts' \in 0..MaxActs
  BY ActCounted DEF EditorInd, SaveClick
<1> HIDE DEF r
<1> QED BY <1>3, <1>4, <1>5, <1>6, Sent

LEMMA RestoreClickKeeps ==
  ASSUME EditorInd, RestoreClick
  PROVE  EditorInd'
<1> DEFINE d == pane.item.doc
           n == pane.item.at
           r == Request("restore", d, Version(d, n), <<d, n>>)
<1>1. asked' = Append(asked, r) /\ UNCHANGED <<history, listed, matching, selected, editor, pane>>
  BY DEF RestoreClick
<1>2. d \in Doc /\ n \in Nat
  BY DEF EditorInd, PaneOK, PaneT, Item, RestoreClick
<1>3. Version(d, n) \in Content /\ Clean(Version(d, n), <<d, n>>) /\ <<d, n>> \in Etag
  BY <1>2, ContentsTyped, MadeOfVersion DEF Etag
<1>4. r \in ReqT /\ r.kind = "restore" /\ r.doc = d /\ r.content = Version(d, n) /\ r.etag = <<d, n>>
  BY <1>2, <1>3, RequestOK, Kinds DEF EditorInd, NoOne
<1>5. ReqOK(r, d)
  BY <1>2, <1>3, <1>4 DEF ReqOK
<1>6. acts' \in 0..MaxActs
  BY ActCounted DEF EditorInd, RestoreClick
<1> HIDE DEF r
<1> QED BY <1>1, <1>4, <1>5, <1>6, Sent

LEMMA SortClickKeeps ==
  ASSUME EditorInd, SortClick
  PROVE  EditorInd'
<1> DEFINE d == pane.item.doc
           e == IF editor.id = pane.item.doc THEN editor.etag ELSE <<pane.item.doc, pane.item.at>>
           r == Request("sort", d, Version(d, e[2]), e)
<1>1. asked' = Append(asked, r) /\ UNCHANGED <<history, listed, matching, selected, editor, pane>>
  BY DEF SortClick
<1>2. d \in Doc /\ pane.item.at \in Nat
  BY DEF EditorInd, PaneOK, PaneT, Item, SortClick
<1>3. e \in Etag /\ e[2] \in Nat
  BY <1>2 DEF EditorInd, EditorOK, EditorT, Etag
<1> HIDE DEF e
<1>4. Version(d, e[2]) \in Content /\ (e[1] = d => Clean(Version(d, e[2]), e))
  BY <1>2, <1>3, ContentsTyped, MadeOfVersion DEF Clean
<1>5. r \in ReqT /\ r.kind = "sort" /\ r.doc = d /\ r.content = Version(d, e[2]) /\ r.etag = e
  BY <1>2, <1>3, <1>4, RequestOK, Kinds DEF EditorInd, NoOne
<1>6. ReqOK(r, d)
  BY <1>2, <1>4, <1>5 DEF ReqOK
<1>7. acts' \in 0..MaxActs
  BY ActCounted DEF EditorInd, SortClick
<1> HIDE DEF r
<1> QED BY <1>1, <1>5, <1>6, <1>7, Sent

(***************************************************************************)
(* Typing.                                                                 *)
(***************************************************************************)

\* The editor is given a payload and the text derived from it.
LEMMA EditorGiven ==
  ASSUME EditorOK, NEW c \in Content, NEW t \in Content, NEW m \in Mode,
         Clean(c, editor.etag), Clean(t, editor.etag), editor.open => c # Nothing,
         editor' = [editor EXCEPT !.mode = m, !.payload = c, !.text = t]
  PROVE  /\ EditorOK' /\ editor'.mode = m /\ editor'.id = editor.id
         /\ editor'.loading = editor.loading /\ editor'.payload = c /\ editor'.text = t
<1> DEFINE e1 == [editor EXCEPT !.mode = m]
           e2 == [e1 EXCEPT !.payload = c]
           e3 == [e2 EXCEPT !.text = t]
           Same(e) == /\ e.id = editor.id /\ e.open = editor.open /\ e.etag = editor.etag
                      /\ e.loading = editor.loading /\ e \in EditorT
<1>0. editor \in EditorT
  BY DEF EditorOK
<1>1. editor' = e3
  OBVIOUS
<1>2. Same(e1) /\ e1.mode = m
  BY <1>0 DEF EditorT
<1> HIDE DEF e1
<1>3. Same(e2) /\ e2.mode = m /\ e2.payload = c
  BY <1>2 DEF EditorT
<1> HIDE DEF e2
<1>4. Same(e3) /\ e3.mode = m /\ e3.payload = c /\ e3.text = t
  BY <1>3 DEF EditorT
<1> HIDE DEF e3
<1> QED BY <1>1, <1>4 DEF EditorOK

LEMMA ShownTyped ==
  ASSUME EditorOK, PaneOK
  PROVE  Shown \in Content /\ editor.payload \in Content /\ editor.text \in Content /\ editor.mode \in Mode
BY DEF EditorOK, EditorT, PaneOK, PaneT, Shown

\* A step at the keyboard sends nothing and leaves the list alone.
LEMMA AtTheKeyboard ==
  ASSUME EditorInd, EditorOK', PaneOK', pane'.item = pane.item, acts' \in 0..MaxActs,
         editor'.loading = editor.loading, editor'.id = editor.id,
         UNCHANGED <<history, listed, matching, selected, asked>>
  PROVE  EditorInd'
<1>1. HistoryOK' /\ ListOK'
  BY DEF EditorInd, HistoryOK, ListOK
<1> QED BY <1>1 DEF EditorInd

\* What a field writes.
FieldPayload == IF pane.stale THEN editor.payload ELSE [editor.payload EXCEPT !.dirty = TRUE]

LEMMA FieldPayloadOK ==
  ASSUME EditorOK, pane.mode = "structured", Shown # Nothing
  PROVE  /\ FieldPayload \in Content /\ Clean(FieldPayload, editor.etag)
         /\ editor.open => FieldPayload # Nothing
         /\ editor.payload.dirty => FieldPayload.dirty
<1>1. editor.payload \in Content /\ Clean(editor.payload, editor.etag)
  BY DEF EditorOK, EditorT
<1>2. CASE pane.stale
  BY <1>1, <1>2 DEF EditorOK, FieldPayload
<1>3. CASE ~pane.stale
  <2>1. editor.payload # Nothing
    BY <1>3 DEF Shown
  <2>2. FieldPayload = [editor.payload EXCEPT !.dirty = TRUE]
    BY <1>3 DEF FieldPayload
  <2>3. /\ [editor.payload EXCEPT !.dirty = TRUE] \in Content
        /\ [editor.payload EXCEPT !.dirty = TRUE] # Nothing
        /\ Clean([editor.payload EXCEPT !.dirty = TRUE], editor.etag)
        /\ [editor.payload EXCEPT !.dirty = TRUE].dirty
    BY <1>1, <2>1, Edited
  <2> QED BY <2>2, <2>3
<1> QED BY <1>2, <1>3

LEMMA FieldWrites ==
  ASSUME EditorOK, pane.mode = "structured", Shown # Nothing,
         editor' = [editor EXCEPT !.payload = FieldPayload, !.text = FieldPayload]
  PROVE  /\ EditorOK' /\ editor'.mode = editor.mode /\ editor'.id = editor.id
         /\ editor'.loading = editor.loading /\ editor'.payload = FieldPayload
         /\ editor.payload.dirty => FieldPayload.dirty
<1>1. editor.mode \in Mode /\ editor \in EditorT
  BY DEF EditorOK, EditorT
<1>2. [editor EXCEPT !.mode = editor.mode] = editor
  BY <1>1 DEF EditorT
<1>3. editor' = [editor EXCEPT !.mode = editor.mode, !.payload = FieldPayload, !.text = FieldPayload]
  BY <1>2
<1> QED BY <1>1, <1>3, FieldPayloadOK, EditorGiven

LEMMA TypeInFieldKeeps ==
  ASSUME EditorInd, TypeInField
  PROVE  EditorInd' /\ (Work(editor).dirty => Work(editor').dirty)
<1>1. /\ pane.open /\ pane.mode = "structured" /\ Shown # Nothing
      /\ editor' = [editor EXCEPT !.payload = FieldPayload, !.text = FieldPayload]
      /\ pane' = IF pane.stale THEN [pane EXCEPT !.content.dirty = TRUE] ELSE pane
      /\ UNCHANGED <<history, listed, matching, selected, asked>>
  BY DEF TypeInField, FieldPayload
<1>2. acts' \in 0..MaxActs
  BY ActCounted DEF EditorInd, TypeInField
<1>3. /\ EditorOK' /\ editor'.mode = editor.mode /\ editor'.id = editor.id
      /\ editor'.loading = editor.loading /\ editor'.payload = FieldPayload
      /\ editor.payload.dirty => FieldPayload.dirty
  BY <1>1, FieldWrites DEF EditorInd
<1>4. PaneOK
  BY DEF EditorInd
<1>5. PaneOK' /\ pane'.item = pane.item
  <2>1. CASE pane.stale
    <3> DEFINE c == [pane.content EXCEPT !.dirty = TRUE]
               p == [pane EXCEPT !.content = c]
    <3>1. pane \in PaneT /\ pane.content \in Content
      BY <1>4 DEF PaneOK, PaneT
    <3>2. c \in Content
      BY <3>1 DEF Content
    <3>3. pane' = p
      BY <1>1, <2>1
    <3> HIDE DEF c
    <3>4. /\ p \in PaneT /\ p.item = pane.item /\ p.open = pane.open /\ p.mode = pane.mode
          /\ p.stale = pane.stale
      BY <3>1, <3>2 DEF PaneT
    <3> HIDE DEF p
    <3> QED BY <3>3, <3>4, <1>3, <1>4 DEF PaneOK
  <2>2. CASE ~pane.stale
    BY <2>2, <1>1, <1>3, <1>4 DEF PaneOK
  <2> QED BY <2>1, <2>2
<1>6. editor.mode # "json"
  BY <1>1, <1>4 DEF PaneOK
<1> QED BY <1>1, <1>2, <1>3, <1>5, <1>6, AtTheKeyboard DEF Work

LEMMA RebuildKeeps ==
  ASSUME EditorInd, Rebuild
  PROVE  EditorInd' /\ (Work(editor).dirty => Work(editor').dirty)
<1>1. /\ pane.open /\ pane.mode = "structured" /\ Shown # Nothing
      /\ editor' = [editor EXCEPT !.payload = FieldPayload, !.text = FieldPayload]
      /\ pane' = PaneOf(pane.item, editor')
      /\ UNCHANGED <<history, listed, matching, selected, asked>>
  BY DEF Rebuild, FieldPayload
<1>2. acts' \in 0..MaxActs
  BY ActCounted DEF EditorInd, Rebuild
<1>3. /\ EditorOK' /\ editor'.mode = editor.mode /\ editor'.id = editor.id
      /\ editor'.loading = editor.loading /\ editor'.payload = FieldPayload
      /\ editor.payload.dirty => FieldPayload.dirty
  BY <1>1, FieldWrites DEF EditorInd
<1>4. PaneOK
  BY DEF EditorInd
<1>5. PaneOK' /\ pane'.item = pane.item
  BY <1>1, <1>3, <1>4, DrawnOK DEF PaneOK
<1>6. editor.mode # "json"
  BY <1>1, <1>4 DEF PaneOK
<1> QED BY <1>1, <1>2, <1>3, <1>5, <1>6, AtTheKeyboard DEF Work

LEMMA TypeInTextKeeps ==
  ASSUME EditorInd, TypeInText
  PROVE  EditorInd' /\ (Work(editor).dirty => Work(editor').dirty)
<1> DEFINE text == [Shown EXCEPT !.dirty = TRUE, !.text = TRUE]
<1>1. /\ pane.open /\ pane.mode = "json" /\ Shown # Nothing
      /\ editor' = [editor EXCEPT !.text = text]
      /\ pane' = IF pane.stale THEN [pane EXCEPT !.content = text] ELSE pane
      /\ UNCHANGED <<history, listed, matching, selected, asked>>
  BY DEF TypeInText
<1>2. acts' \in 0..MaxActs
  BY ActCounted DEF EditorInd, TypeInText
<1>3. EditorOK /\ PaneOK /\ editor \in EditorT
  BY DEF EditorInd, EditorOK
<1>4. Shown \in Content /\ editor.payload \in Content /\ editor.mode \in Mode
  BY <1>3, ShownTyped
<1>5. text \in Content /\ Clean(text, editor.etag) /\ text.dirty
  BY <1>1, <1>4, Edited
<1> HIDE DEF text
<1>6. editor' = [editor EXCEPT !.mode = editor.mode, !.payload = editor.payload, !.text = text]
  <2>1. [editor EXCEPT !.mode = editor.mode] = editor
    BY <1>3 DEF EditorT
  <2>2. [editor EXCEPT !.payload = editor.payload] = editor
    BY <1>3 DEF EditorT
  <2> QED BY <1>1, <2>1, <2>2
<1>7. /\ EditorOK' /\ editor'.mode = editor.mode /\ editor'.id = editor.id
      /\ editor'.loading = editor.loading /\ editor'.payload = editor.payload /\ editor'.text = text
  <2>1. Clean(editor.payload, editor.etag) /\ (editor.open => editor.payload # Nothing)
    BY <1>3 DEF EditorOK
  <2> QED BY <2>1, <1>3, <1>4, <1>5, <1>6, EditorGiven
<1>8. PaneOK' /\ pane'.item = pane.item
  <2> DEFINE p == [pane EXCEPT !.content = text]
  <2>1. /\ p \in PaneT /\ p.item = pane.item /\ p.open = pane.open /\ p.mode = pane.mode
        /\ p.stale = pane.stale
    BY <1>3, <1>5 DEF PaneOK, PaneT
  <2>2. pane' = p \/ pane' = pane
    BY <1>1
  <2> HIDE DEF p
  <2> QED BY <2>1, <2>2, <1>3, <1>7 DEF PaneOK
<1> QED BY <1>1, <1>2, <1>5, <1>7, <1>8, AtTheKeyboard DEF Work

LEMMA ShowModeKeeps ==
  ASSUME EditorInd, NEW m \in Mode, ShowMode(m)
  PROVE  EditorInd' /\ (Work(editor).dirty => Work(editor').dirty)
<1> DEFINE c == IF editor.mode = "json" THEN editor.text ELSE editor.payload
           t == IF m = "json" THEN editor.payload ELSE editor.text
<1>1. /\ pane.open /\ editor.mode # m /\ Adoptable
      /\ pane' = PaneOf(pane.item, editor')
      /\ UNCHANGED <<history, listed, matching, selected, asked>>
  BY DEF ShowMode
<1>2. acts' \in 0..MaxActs
  BY ActCounted DEF EditorInd, ShowMode
<1>3. EditorOK /\ PaneOK /\ editor \in EditorT
  BY DEF EditorInd, EditorOK
<1>4. editor' = [editor EXCEPT !.mode = m, !.payload = c, !.text = t]
  BY <1>3 DEF ShowMode, EditorT
<1>5. /\ c \in Content /\ t \in Content /\ Clean(c, editor.etag) /\ Clean(t, editor.etag)
      /\ editor.open => c # Nothing
  BY <1>1, <1>3 DEF EditorOK, EditorT, Adoptable
<1>6. m = "json" => t = c
  BY <1>1
<1>7. Work(editor) = c
  BY DEF Work
<1> HIDE DEF c, t
<1>8. /\ EditorOK' /\ editor'.mode = m /\ editor'.id = editor.id
      /\ editor'.loading = editor.loading /\ editor'.payload = c /\ editor'.text = t
  BY <1>3, <1>4, <1>5, EditorGiven
<1>9. PaneOK' /\ pane'.item = pane.item
  BY <1>1, <1>3, <1>8, DrawnOK DEF PaneOK
<1> QED BY <1>1, <1>2, <1>6, <1>7, <1>8, <1>9, AtTheKeyboard DEF Work

(***************************************************************************)
(* The steps of the editor: the answers and the other people.              *)
(***************************************************************************)

\* A version is put on top of the one it was made of.
LEMMA Saved ==
  ASSUME HistoryOK, NEW d \in Doc, NEW c \in Content,
         ~c.text => c.doc = d /\ c.seen = Latest(d),
         history' = [history EXCEPT ![d] = Append(@, c)]
  PROVE  HistoryOK'
<1>1. history[d] \in Seq(Content) /\ Latest(d) \in Nat /\ Latest(d) = Len(history[d])
  BY VersionsAreCounted DEF Latest
<1> DEFINE s == Append(history[d], c)
<1>2. /\ s \in Seq(Content) /\ Len(s) = Len(history[d]) + 1
      /\ \A n \in 1..Len(history[d]) : s[n] = history[d][n]
      /\ s[Len(history[d]) + 1] = c
  BY <1>1, AppendProperties
<1>3. history' = [history EXCEPT ![d] = s]
  OBVIOUS
<1> HIDE DEF s
<1>4. history' \in [Doc -> Seq(Content)]
  BY <1>2, <1>3 DEF HistoryOK
<1>5. \A b \in Doc : history'[b] = IF b = d THEN s ELSE history[b]
  BY <1>3 DEF HistoryOK
<1>6. ASSUME NEW n \in 1..Len(s)
      PROVE  ~s[n].text => s[n].doc = d /\ s[n].seen = n - 1
  <2>1. CASE n = Len(history[d]) + 1
    <3>1. s[n] = c /\ n - 1 = Latest(d)
      BY <2>1, <1>1, <1>2
    <3> QED BY <3>1
  <2>2. CASE n # Len(history[d]) + 1
    <3>1. n \in 1..Len(history[d])
      BY <2>2, <1>1, <1>2
    <3>2. s[n] = history[d][n]
      BY <3>1, <1>2
    <3> QED BY <3>1, <3>2 DEF HistoryOK
  <2> QED BY <2>1, <2>2
<1> QED BY <1>4, <1>5, <1>6 DEF HistoryOK

\* The request that is answered, and what is left of the queue.
LEMMA Answered ==
  ASSUME EditorInd, NEW i \in 1..Len(asked)
  PROVE  /\ asked[i] \in ReqT /\ ReqOK(asked[i], pane.item.doc)
         /\ QueueOK(RemoveAt(asked, i), pane.item.doc)
         /\ editor.loading /\ (asked[i].kind # "auto" \/ asked[i].doc # editor.id)
              => Awaited(RemoveAt(asked, i), editor.id)
<1>1. QueueOK(asked, pane.item.doc) /\ (editor.loading => Awaited(asked, editor.id))
  BY DEF EditorInd
<1>2. asked[i] \in ReqT /\ ReqOK(asked[i], pane.item.doc)
  BY <1>1, ElementOfSeq DEF QueueOK
<1> QED BY <1>1, <1>2, QueueRemove

LEMMA Filled ==
  ASSUME EditorInd, NEW i \in 1..Len(asked), asked[i].kind \in Reads,
         NEW n \in asked[i].from..Latest(asked[i].doc),
         NEW text \in {Version(asked[i].doc, n), Nothing},
         editor' = Opened(asked[i].doc, n, text),
         pane' = IF asked[i].live THEN PaneOf(pane.item, editor') ELSE Behind
  PROVE  EditorOK' /\ PaneOK' /\ pane'.item = pane.item /\ ~editor'.loading
<1>1. EditorOK /\ PaneOK /\ HistoryOK
  BY DEF EditorInd
<1>2. asked[i].doc \in Doc /\ asked[i].from \in Nat /\ (asked[i].live => asked[i].doc = pane.item.doc)
  BY Answered, Kinds DEF ReqOK, ReqT
<1>3. n \in Nat
  BY <1>1, <1>2, VersionsAreCounted
<1>4. EditorOK' /\ ~editor'.loading /\ editor'.mode = editor.mode
  BY <1>1, <1>2, <1>3, OpenedClean
<1>5. PaneOK' /\ pane'.item = pane.item
  <2>1. CASE asked[i].live
    BY <2>1, <1>1, <1>2, <1>4, DrawnOK, NoDocIsNone
  <2>2. CASE ~asked[i].live
    BY <2>2, <1>1, <1>4, BehindOK
  <2> QED BY <2>1, <2>2
<1> QED BY <1>4, <1>5

LEMMA OpenArrivesKeeps ==
  ASSUME EditorInd, NEW i \in 1..Len(asked), NEW n \in asked[i].from..Latest(asked[i].doc),
         OpenArrives(i, n)
  PROVE  EditorInd'
<1> DEFINE v == Version(asked[i].doc, n)
<1>1. /\ asked[i].kind \in Reads /\ editor' = Opened(asked[i].doc, n, v)
      /\ pane' = IF asked[i].live THEN PaneOf(pane.item, editor') ELSE Behind
      /\ asked' = RemoveAt(asked, i)
      /\ UNCHANGED <<history, listed, matching, selected, acts>>
  BY Kinds DEF OpenArrives
<1>2. EditorOK' /\ PaneOK' /\ pane'.item = pane.item /\ ~editor'.loading
  BY <1>1, Filled
<1>3. HistoryOK' /\ ListOK'
  BY <1>1 DEF EditorInd, HistoryOK, ListOK
<1>4. QueueOK(asked', pane'.item.doc)
  BY <1>1, <1>2, Answered
<1> QED BY <1>2, <1>3, <1>4 DEF EditorInd

LEMMA AutoArrivesKeeps ==
  ASSUME EditorInd, NEW i \in 1..Len(asked), NEW n \in asked[i].from..Latest(asked[i].doc),
         AutoArrives(i, n)
  PROVE  EditorInd'
<1>1. /\ asked[i].kind = "auto" /\ asked[i].kind \in Reads /\ asked' = RemoveAt(asked, i)
      /\ UNCHANGED <<history, listed, matching, selected, acts>>
  BY Kinds DEF AutoArrives
<1>2. HistoryOK' /\ ListOK'
  BY <1>1 DEF EditorInd, HistoryOK, ListOK
<1>3. CASE editor.id # asked[i].doc
  <2>1. UNCHANGED <<editor, pane>>
    BY <1>3 DEF AutoArrives
  <2>2. EditorOK' /\ PaneOK'
    BY <2>1 DEF EditorInd, EditorOK, PaneOK
  <2>3. QueueOK(asked', pane'.item.doc) /\ (editor'.loading => Awaited(asked', editor'.id))
    BY <2>1, <1>1, <1>3, Answered
  <2> QED BY <1>2, <2>2, <2>3 DEF EditorInd
<1>4. CASE editor.id = asked[i].doc
  <2> DEFINE v == Version(asked[i].doc, n)
  <2>1. /\ editor' = Opened(asked[i].doc, n, v)
        /\ pane' = IF asked[i].live THEN PaneOf(pane.item, editor') ELSE Behind
    BY <1>4 DEF AutoArrives
  <2>2. EditorOK' /\ PaneOK' /\ pane'.item = pane.item /\ ~editor'.loading
    BY <1>1, <2>1, Filled
  <2>3. QueueOK(asked', pane'.item.doc)
    BY <1>1, <2>2, Answered
  <2> QED BY <1>2, <2>2, <2>3 DEF EditorInd
<1> QED BY <1>3, <1>4

LEMMA UnreadableOK ==
  ASSUME EditorOK
  PROVE  /\ Unreadable(editor) \in EditorT /\ ~Unreadable(editor).loading
         /\ Unreadable(editor).open = editor.open /\ Unreadable(editor).payload = editor.payload
         /\ Unreadable(editor).text = editor.text /\ Unreadable(editor).etag = editor.etag
         /\ Unreadable(editor).mode = editor.mode
<1> DEFINE e1 == [editor EXCEPT !.loading = FALSE]
           e2 == [e1 EXCEPT !.failed = TRUE]
           Same(e) == /\ e \in EditorT /\ e.loading = FALSE /\ e.open = editor.open /\ e.text = editor.text
                      /\ e.payload = editor.payload /\ e.etag = editor.etag /\ e.mode = editor.mode
<1>1. Same(e1)
  BY DEF EditorOK, EditorT
<1>2. Unreadable(editor) = e2
  BY DEF Unreadable
<1> HIDE DEF e1
<1>3. Same(e2)
  BY <1>1 DEF EditorT
<1> HIDE DEF e2
<1> QED BY <1>2, <1>3

LEMMA ReadFailsKeeps ==
  ASSUME EditorInd, NEW i \in 1..Len(asked), ReadFails(i)
  PROVE  EditorInd' /\ Work(editor') = Work(editor)
<1>1. /\ asked[i].kind \in Reads /\ asked' = RemoveAt(asked, i)
      /\ editor' = IF asked[i].kind = "auto" /\ editor.id = asked[i].doc THEN Unreadable(editor) ELSE editor
      /\ UNCHANGED <<history, listed, matching, selected, pane, acts>>
  BY DEF ReadFails
<1>2. HistoryOK' /\ ListOK' /\ EditorOK /\ PaneOK
  BY <1>1 DEF EditorInd, HistoryOK, ListOK
<1>3. QueueOK(asked', pane'.item.doc)
  BY <1>1, Answered
<1>4. CASE asked[i].kind = "auto" /\ editor.id = asked[i].doc
  <2>1. editor' = Unreadable(editor)
    BY <1>1, <1>4
  <2>2. EditorOK' /\ PaneOK' /\ ~editor'.loading /\ Work(editor') = Work(editor)
    BY <2>1, <1>1, <1>2, UnreadableOK DEF EditorOK, PaneOK, Work
  <2> QED BY <1>2, <1>3, <2>2 DEF EditorInd
<1>5. CASE ~(asked[i].kind = "auto" /\ editor.id = asked[i].doc)
  <2>1. editor' = editor
    BY <1>1, <1>5
  <2>2. EditorOK' /\ PaneOK'
    BY <2>1, <1>1, <1>2 DEF EditorOK, PaneOK
  <2>3. editor'.loading => Awaited(asked', editor'.id)
    BY <2>1, <1>1, <1>5, Answered
  <2> QED BY <1>2, <1>3, <2>1, <2>2, <2>3 DEF EditorInd
<1> QED BY <1>4, <1>5

LEMMA HandleKeeps ==
  ASSUME EditorInd, NEW i \in 1..Len(asked), Handle(i)
  PROVE  EditorInd'
<1> DEFINE r == asked[i]
           IsDone == IsCurrent(r.doc, r.etag) /\ r.content # Nothing
<1>1. /\ r.kind \in Writes /\ UNCHANGED <<listed, matching, selected, editor, pane, acts>>
      /\ IsDone => /\ history' = [history EXCEPT ![r.doc] = Append(@, r.content)]
                   /\ asked' = [asked EXCEPT ![i].answer = Latest(r.doc) + 1]
      /\ ~IsDone => /\ asked' = [asked EXCEPT ![i].answer = 1]
                    /\ UNCHANGED history
  BY DEF Handle
<1>2. r \in ReqT /\ r.doc \in Doc /\ r.content \in Content
      /\ (r.etag[1] = r.doc => Clean(r.content, r.etag))
  BY <1>1, Answered, Kinds DEF ReqOK, ReqT
<1>3. HistoryOK /\ QueueOK(asked, pane.item.doc) /\ (editor.loading => Awaited(asked, editor.id))
  BY DEF EditorInd
<1>4. ListOK' /\ EditorOK' /\ PaneOK'
  BY <1>1 DEF EditorInd, ListOK, EditorOK, PaneOK
<1>5. HistoryOK' /\ \E n \in Nat : asked' = [asked EXCEPT ![i].answer = n]
  <2>1. CASE IsDone
    <3>1. r.etag = <<r.doc, Latest(r.doc)>> /\ r.content # Nothing
      BY <2>1 DEF IsCurrent
    <3>2. r.etag[1] = r.doc /\ r.etag[2] = Latest(r.doc)
      BY <3>1
    <3>3. ~r.content.text => r.content.doc = r.doc /\ r.content.seen = Latest(r.doc)
      BY <3>1, <3>2, <1>2 DEF Clean
    <3>4. /\ history' = [history EXCEPT ![r.doc] = Append(@, r.content)]
          /\ asked' = [asked EXCEPT ![i].answer = Latest(r.doc) + 1]
      BY <2>1, <1>1
    <3>5. Latest(r.doc) + 1 \in Nat
      BY <1>2, <1>3, VersionsAreCounted
    <3> HIDE DEF r, IsDone
    <3>6. HistoryOK'
      BY <3>3, <3>4, <1>2, <1>3, Saved
    <3> QED BY <3>4, <3>5, <3>6
  <2>2. CASE ~IsDone
    <3>1. asked' = [asked EXCEPT ![i].answer = 1] /\ UNCHANGED history
      BY <2>2, <1>1
    <3> QED BY <3>1, <1>3 DEF HistoryOK
  <2> QED BY <2>1, <2>2
<1>6. PICK n \in Nat : asked' = [asked EXCEPT ![i].answer = n]
  BY <1>5
<1>7. QueueOK(asked', pane.item.doc) /\ \A d : Awaited(asked, d) => Awaited(asked', d)
  BY <1>3, <1>6, QueueExcept
<1> QED BY <1>1, <1>3, <1>4, <1>5, <1>7 DEF EditorInd

\* A list or a reread that is asked for in the name of an older request.
LEMMA AskedAfter ==
  ASSUME EditorInd, NEW i \in 1..Len(asked), NEW k \in {"list", "reread"}, NEW d \in NoOne,
         k = "reread" => d = asked[i].doc /\ d \in Doc, asked[i].kind # "list",
         asked' = Append(RemoveAt(asked, i), [Ask(k, d) EXCEPT !.live = asked[i].live])
  PROVE  /\ QueueOK(asked', pane.item.doc)
         /\ editor.loading /\ asked[i].kind # "auto" => Awaited(asked', editor.id)
<1> DEFINE r == [Ask(k, d) EXCEPT !.live = asked[i].live]
<1>1. /\ asked[i] \in ReqT /\ ReqOK(asked[i], pane.item.doc)
      /\ QueueOK(RemoveAt(asked, i), pane.item.doc)
      /\ editor.loading /\ (asked[i].kind # "auto" \/ asked[i].doc # editor.id)
           => Awaited(RemoveAt(asked, i), editor.id)
  BY Answered
<1>2. Ask(k, d) \in ReqT /\ Ask(k, d).kind = k /\ Ask(k, d).doc = d
  BY AskOK, Kinds DEF EditorInd
<1>3. asked[i].live \in BOOLEAN
  BY <1>1 DEF ReqT
<1>4. r \in ReqT /\ r.kind = k /\ r.doc = d /\ r.live = asked[i].live
  BY <1>2, <1>3 DEF ReqT
<1>5. ReqOK(r, pane.item.doc)
  <2>1. k \notin Writes
    BY Kinds
  <2> HIDE DEF r
  <2> QED BY <2>1, <1>1, <1>4 DEF ReqOK
<1>6. asked' = Append(RemoveAt(asked, i), r)
  OBVIOUS
<1> HIDE DEF r
<1> QED BY <1>1, <1>4, <1>5, <1>6, QueueAppend

LEMMA WriteArrivesKeeps ==
  ASSUME EditorInd, NEW i \in 1..Len(asked), WriteArrives(i)
  PROVE  EditorInd'
<1>1. /\ asked[i].kind \in {"save", "restore"} /\ editor' = Closed(asked[i].doc)
      /\ selected' = [doc |-> asked[i].doc, at |-> asked[i].answer]
      /\ pane' = Behind
      /\ asked' = Append(RemoveAt(asked, i), [Ask("list", NoDoc) EXCEPT !.live = asked[i].live])
      /\ UNCHANGED <<history, listed, matching, acts>>
  BY DEF WriteArrives, List
<1>2. asked[i].doc \in Doc /\ asked[i].answer \in Nat /\ asked[i].kind # "list"
  BY <1>1, Answered DEF ReqOK, ReqT
<1>3. EditorOK' /\ ~editor'.loading /\ editor'.mode = "preview"
  BY <1>1, <1>2, ClosedClean DEF NoOne
<1>4. PaneOK' /\ pane'.item = pane.item
  BY <1>1, <1>3, BehindOK DEF EditorInd
<1>5. HistoryOK' /\ ListOK'
  BY <1>1, <1>2, NoDocIsNone DEF EditorInd, HistoryOK, ListOK, Item
<1>6. QueueOK(asked', pane'.item.doc)
  BY <1>1, <1>2, <1>4, AskedAfter DEF NoOne
<1> QED BY <1>3, <1>4, <1>5, <1>6 DEF EditorInd

LEMMA RefusalArrivesKeeps ==
  ASSUME EditorInd, NEW i \in 1..Len(asked), RefusalArrives(i)
  PROVE  EditorInd' /\ editor' = editor
<1>1. /\ asked[i].kind \in Writes /\ editor' = editor /\ asked' = RemoveAt(asked, i)
      /\ UNCHANGED <<history, listed, matching, selected, pane, acts>>
  BY DEF RefusalArrives, Refused
<1>2. HistoryOK' /\ ListOK' /\ EditorOK' /\ PaneOK'
  BY <1>1 DEF EditorInd, HistoryOK, ListOK, EditorOK, PaneOK
<1>3. QueueOK(asked', pane'.item.doc) /\ (editor'.loading => Awaited(asked', editor'.id))
  BY <1>1, Answered DEF Writes
<1> QED BY <1>1, <1>2, <1>3 DEF EditorInd

LEMMA SortArrivesKeeps ==
  ASSUME EditorInd, NEW i \in 1..Len(asked), SortArrives(i)
  PROVE  EditorInd'
<1>1. /\ asked[i].kind = "sort"
      /\ UNCHANGED <<history, listed, matching, selected, editor, pane, acts>>
      /\ \/ asked' = Append(RemoveAt(asked, i), [Ask("reread", asked[i].doc) EXCEPT !.live = asked[i].live])
         \/ asked' = Append(RemoveAt(asked, i), [Ask("list", NoDoc) EXCEPT !.live = asked[i].live])
  BY DEF SortArrives, List
<1>2. HistoryOK' /\ ListOK' /\ EditorOK' /\ PaneOK'
  BY <1>1 DEF EditorInd, HistoryOK, ListOK, EditorOK, PaneOK
<1>3. asked[i].doc \in Doc
  BY <1>1, Answered DEF ReqOK
<1>4. QueueOK(asked', pane.item.doc) /\ (editor.loading => Awaited(asked', editor.id))
  BY <1>1, <1>3, AskedAfter DEF NoOne
<1> QED BY <1>1, <1>2, <1>4 DEF EditorInd

LEMMA RereadArrivesKeeps ==
  ASSUME EditorInd, NEW i \in 1..Len(asked), NEW n \in asked[i].from..Latest(asked[i].doc),
         RereadArrives(i, n)
  PROVE  EditorInd'
<1>1. /\ asked[i].kind = "reread" /\ asked[i].kind \in Reads
      /\ editor' = Opened(asked[i].doc, n, Nothing)
      /\ pane' = IF asked[i].live THEN PaneOf(pane.item, editor') ELSE Behind
      /\ asked' = Append(RemoveAt(asked, i), [Ask("list", NoDoc) EXCEPT !.live = asked[i].live])
      /\ UNCHANGED <<history, listed, matching, selected, acts>>
  BY Kinds DEF RereadArrives, List
<1>2. EditorOK' /\ PaneOK' /\ pane'.item = pane.item /\ ~editor'.loading
  BY <1>1, Filled
<1>3. HistoryOK' /\ ListOK'
  BY <1>1 DEF EditorInd, HistoryOK, ListOK
<1>4. QueueOK(asked', pane'.item.doc)
  BY <1>1, <1>2, AskedAfter DEF NoOne
<1> QED BY <1>2, <1>3, <1>4 DEF EditorInd

LEMMA ColleagueKeeps ==
  ASSUME EditorInd, NEW d \in Doc, Colleague(d)
  PROVE  EditorInd'
<1> DEFINE v == Version(d, Latest(d))
<1>1. HistoryOK /\ Latest(d) \in Nat
  BY VersionsAreCounted DEF EditorInd
<1>2. v \in Content /\ v.doc = d /\ v.seen = Latest(d)
  BY <1>1, ContentsTyped, MadeOfVersion
<1>3. history' = [history EXCEPT ![d] = Append(@, v)]
  BY DEF Colleague
<1> HIDE DEF v
<1>4. HistoryOK'
  BY <1>1, <1>2, <1>3, Saved
<1>5. acts' \in 0..MaxActs /\ UNCHANGED <<listed, matching, selected, editor, pane, asked>>
  BY ActCounted DEF EditorInd, Colleague
<1>6. ListOK' /\ EditorOK' /\ PaneOK'
  BY <1>5 DEF EditorInd, ListOK, EditorOK, PaneOK
<1> QED BY <1>4, <1>5, <1>6 DEF EditorInd

(***************************************************************************)
(* The editor: its theorem.                                                *)
(***************************************************************************)

LEMMA EditorBegins ==
  ASSUME Init
  PROVE  EditorInd
<1>1. /\ history = [d \in Doc |-> <<Version(d, 0)>>] /\ listed = [d \in Doc |-> 1]
      /\ matching = Doc /\ selected = [doc |-> NoDoc, at |-> 0] /\ editor = Closed(NoDoc)
      /\ pane = PaneOf(selected, editor) /\ asked = <<List>> /\ acts = 0
  BY DEF Init
<1>2. ASSUME NEW d \in Doc
      PROVE  /\ history[d] \in Seq(Content)
             /\ \A n \in 1..Len(history[d]) : history[d][n].doc = d /\ history[d][n].seen = n - 1
  <2> DEFINE v == Version(d, 0)
  <2>1. v \in Content /\ v.doc = d /\ v.seen = 0
    BY ContentsTyped, MadeOfVersion
  <2>2. history[d] = <<v>>
    BY <1>1
  <2> HIDE DEF v
  <2> QED BY <2>1, <2>2
<1>3. HistoryOK
  BY <1>1, <1>2 DEF HistoryOK
<1>4. NoDoc \in NoOne /\ selected \in Item
  BY <1>1 DEF Item, NoOne
<1>5. ListOK
  BY <1>1, <1>4, DriveAssumption DEF ListOK
<1>6. EditorOK /\ ~editor.loading
  BY <1>1, <1>4, ClosedOK, NothingIsClean DEF EditorOK
<1>7. PaneOK
  BY <1>1, <1>4, ClosedOK, PaneTyped DEF PaneOK
<1>8. QueueOK(asked, pane.item.doc)
  <2>1. List \in ReqT /\ List.kind = "list"
    BY <1>3, <1>4, AskOK DEF List
  <2>2. ReqOK(List, pane.item.doc)
    BY <2>1, Kinds DEF ReqOK
  <2> QED BY <2>1, <2>2, <1>1 DEF QueueOK
<1> QED BY <1>3, <1>5, <1>6, <1>7, <1>8 DEF EditorInd

LEMMA AnswersKeep ==
  ASSUME EditorInd, Answers
  PROVE  EditorInd'
<1>1. asked \in Seq(ReqT) /\ DOMAIN asked = 1..Len(asked)
  BY DEF EditorInd, QueueOK
<1>2. PICK i \in 1..Len(asked) :
        \/ ListArrives(i) \/ ReadFails(i) \/ Handle(i) \/ WriteArrives(i)
        \/ RefusalArrives(i) \/ SortArrives(i)
        \/ /\ asked[i].kind \in Reads
           /\ \E n \in asked[i].from..Latest(asked[i].doc) :
                OpenArrives(i, n) \/ AutoArrives(i, n) \/ RereadArrives(i, n)
  BY <1>1 DEF Answers
<1> QED BY <1>2, ListArrivesKeeps, ReadFailsKeeps, HandleKeeps, WriteArrivesKeeps, RefusalArrivesKeeps,
           SortArrivesKeeps, OpenArrivesKeeps, AutoArrivesKeeps, RereadArrivesKeeps

LEMMA EditorSteps ==
  ASSUME EditorInd, Next
  PROVE  EditorInd'
<1>1. CASE Answers
  BY <1>1, AnswersKeep
<1>2. CASE Person
  BY <1>2, KeystrokeKeeps, SelectKeeps, RefreshKeeps, OpenClickKeeps, TypeInFieldKeeps, RebuildKeeps,
     TypeInTextKeeps, ShowModeKeeps, SaveClickKeeps, RestoreClickKeeps, SortClickKeeps DEF Person
<1>3. CASE \E d \in Doc : Colleague(d)
  BY <1>3, ColleagueKeeps
<1> QED BY <1>1, <1>2, <1>3 DEF Next

LEMMA EditorRests ==
  ASSUME EditorInd, UNCHANGED vars
  PROVE  EditorInd'
<1>1. UNCHANGED <<history, listed, matching, selected, editor, pane, asked, acts>>
  BY DEF vars
<1>2. HistoryOK' /\ ListOK' /\ EditorOK' /\ PaneOK'
  BY <1>1 DEF EditorInd, HistoryOK, ListOK, EditorOK, PaneOK
<1> QED BY <1>1, <1>2 DEF EditorInd

LEMMA EditorIndImplies ==
  ASSUME EditorInd
  PROVE  EditorInv
<1>1. \A d \in Doc : history[d] \in Seq(Content) /\ DOMAIN history[d] = 1..Len(history[d])
  BY DEF EditorInd, HistoryOK
<1>2. asked \in Seq(ReqT) /\ DOMAIN asked = 1..Len(asked)
  BY DEF EditorInd, QueueOK
<1>3. TypeOK
  BY <1>1, <1>2 DEF TypeOK, EditorInd, ListOK, EditorOK, EditorT, PaneOK, PaneT, ReqT, NoOne
<1>4. OwnContent /\ FieldsLoseNoUpdate
  BY <1>1 DEF EditorInd, HistoryOK, OwnContent, FieldsLoseNoUpdate
<1>5. LoadingIsAsked
  BY <1>2 DEF EditorInd, Awaited, LoadingIsAsked
<1> QED BY <1>3, <1>4, <1>5 DEF EditorInv

LEMMA PartsStep ==
  ASSUME EditorInd, [PartsNext]_partVars
  PROVE  EditorInd'
<1>1. Next \/ UNCHANGED vars
  BY DEF PartsNext, partVars, Editor, Browser, Panels, Surfaces, editing
<1> QED BY <1>1, EditorSteps, EditorRests

\* Whatever documents there are and however requests of the page, answers and the
\* saves of other people are interleaved (documentActions, renderDrive and the
\* handlers of the server): what is saved out of the fields is made of the current
\* version of its own document, and a document that says it is loading is asked for.
THEOREM FieldsAreSafe == PartsSpec => []EditorInv
<1>1. PartsInit => EditorInd
  BY EditorBegins DEF PartsInit
<1>2. EditorInd /\ [PartsNext]_partVars => EditorInd'
  BY PartsStep
<1>3. EditorInd => EditorInv
  BY EditorIndImplies
<1> QED BY <1>1, <1>2, <1>3, PTL DEF PartsSpec

(***************************************************************************)
(* What was typed, and the drawing of the page.                            *)
(***************************************************************************)

OfKind(q, k) == {i \in 1..Len(q) : q[i].kind = k}

\* An answer leaves one request of its kind less, if what it asks next is of
\* another kind.
LEMMA FewerOfKind ==
  ASSUME NEW q \in Seq(ReqT), NEW i \in 1..Len(q), NEW r \in ReqT, r.kind # q[i].kind,
         NEW p \in {RemoveAt(q, i), Append(RemoveAt(q, i), r)}
  PROVE  ~(Cardinality(OfKind(p, q[i].kind)) >= Cardinality(OfKind(q, q[i].kind)))
<1> DEFINE k == q[i].kind
           s == RemoveAt(q, i)
           A == OfKind(s, k)
           B == OfKind(q, k)
           f == [j \in A |-> IF j < i THEN j ELSE j + 1]
<1>1. /\ s \in Seq(ReqT) /\ Len(s) = Len(q) - 1 /\ Len(q) \in Nat
      /\ \A j \in 1..(Len(q) - 1) : s[j] = IF j < i THEN q[j] ELSE q[j + 1]
  BY Removed, LenProperties
<1> HIDE DEF s
<1>2. OfKind(p, k) = A
  <2>1. CASE p = s
    BY <2>1
  <2>2. CASE p = Append(s, r)
    <3>1. /\ Len(p) = Len(s) + 1 /\ p[Len(s) + 1] = r
          /\ \A j \in 1..Len(s) : p[j] = s[j]
      BY <2>2, <1>1, AppendProperties
    <3>2. Len(s) \in Nat
      BY <1>1
    <3>3. \A j \in 1..Len(p) : j \in 1..Len(s) \/ j = Len(s) + 1
      BY <3>1, <3>2
    <3>4. \A j \in 1..Len(s) : j \in 1..Len(p)
      BY <3>1, <3>2
    <3> QED BY <3>1, <3>3, <3>4 DEF OfKind
  <2> QED BY <2>1, <2>2 DEF s
<1>3. IsFiniteSet(B) /\ i \in B
  <2>1. IsFiniteSet(1..Len(q)) /\ B \subseteq 1..Len(q)
    BY <1>1, FS_Interval DEF OfKind
  <2> QED BY <2>1, FS_Subset DEF OfKind
<1>4. /\ IsFiniteSet(B \ {i}) /\ Cardinality(B \ {i}) = Cardinality(B) - 1
      /\ Cardinality(B) \in Nat
  BY <1>3, FS_RemoveElement, FS_CardinalityType
<1>5. ASSUME NEW j \in A
      PROVE  f[j] \in B \ {i}
  <2>0. j \in 1..(Len(q) - 1) /\ s[j].kind = k
    BY <1>1 DEF OfKind
  <2>1. CASE j < i
    <3>1. j \in 1..Len(q) /\ j # i /\ s[j] = q[j]
      BY <2>0, <2>1, <1>1
    <3> QED BY <3>1, <2>0, <2>1 DEF OfKind
  <2>2. CASE ~(j < i)
    <3>1. j + 1 \in 1..Len(q) /\ j + 1 # i /\ s[j] = q[j + 1]
      BY <2>0, <2>2, <1>1
    <3> QED BY <3>1, <2>0, <2>2 DEF OfKind
  <2> QED BY <2>1, <2>2
<1>6. \A a, b \in A : f[a] = f[b] => a = b
  <2>1. \A a \in A : a \in Nat /\ i \in Nat
    BY <1>1 DEF OfKind
  <2> QED BY <2>1
<1>7. f \in Injection(A, B \ {i})
  <2>1. f \in [A -> B \ {i}]
    BY <1>5
  <2> HIDE DEF f
  <2> QED BY <2>1, <1>6 DEF Injection, IsInjective
<1>8. Cardinality(A) <= Cardinality(B \ {i}) /\ Cardinality(A) \in Nat
  <2>1. IsFiniteSet(A) /\ Cardinality(A) <= Cardinality(B \ {i})
    BY <1>4, <1>7, FS_Injection
  <2> QED BY <2>1, FS_CardinalityType
<1> HIDE DEF A, B, k
<1> QED BY <1>2, <1>4, <1>8 DEF A, B, k

\* An answer that fills or closes the editor is no longer waited for.
LEMMA AnswerCounts ==
  ASSUME EditorInd, NEW i \in 1..Len(asked), NEW k \in Reads \cup {"save", "restore"},
         asked[i].kind = k,
         \/ asked' = RemoveAt(asked, i)
         \/ \E live \in BOOLEAN : asked' = Append(RemoveAt(asked, i), [List EXCEPT !.live = live])
  PROVE  ~Unanswered(k)
<1>1. asked \in Seq(ReqT) /\ DOMAIN asked = 1..Len(asked)
  BY DEF EditorInd, QueueOK
<1>2. List \in ReqT /\ List.kind = "list"
  BY AskOK DEF EditorInd, List, NoOne
<1>3. PICK r \in ReqT : r.kind = "list" /\ asked' \in {RemoveAt(asked, i), Append(RemoveAt(asked, i), r)}
  <2>1. CASE asked' = RemoveAt(asked, i)
    BY <2>1, <1>2
  <2>2. CASE \E live \in BOOLEAN : asked' = Append(RemoveAt(asked, i), [List EXCEPT !.live = live])
    <3>1. PICK live \in BOOLEAN : asked' = Append(RemoveAt(asked, i), [List EXCEPT !.live = live])
      BY <2>2
    <3> DEFINE r == [List EXCEPT !.live = live]
    <3>2. r \in ReqT /\ r.kind = "list"
      BY <1>2 DEF ReqT
    <3>3. asked' = Append(RemoveAt(asked, i), r)
      BY <3>1
    <3> HIDE DEF r
    <3> QED BY <3>2, <3>3
  <2> QED BY <2>1, <2>2
<1>4. k # "list"
  BY DEF Reads
<1>5. asked' \in Seq(ReqT)
  <2>1. RemoveAt(asked, i) \in Seq(ReqT)
    BY <1>1, Removed
  <2> QED BY <2>1, <1>3, AppendProperties
<1>6. DOMAIN asked' = 1..Len(asked')
  BY <1>5
<1>7. ~(Cardinality(OfKind(asked', k)) >= Cardinality(OfKind(asked, k)))
  BY <1>1, <1>3, <1>4, FewerOfKind
<1> QED BY <1>1, <1>6, <1>7 DEF Unanswered, OfKind

\* A redrawing step leaves what the document shown holds as it is.
LEMMA RenderKeepsWork ==
  ASSUME EditorInd, NEW item0 \in Item, item0.doc = NoDoc => item0.at = 0, NEW in \in SUBSET Doc,
         listed' \in [Doc -> Nat],
         NEW q, QueueOK(q, pane.item.doc), editor.loading => Awaited(q, editor.id),
         Render(editor, item0, in, q), editor.id = selected.doc, selected'.doc = selected.doc
  PROVE  Work(editor') = Work(editor)
<1>1. HistoryOK /\ EditorOK
  BY DEF EditorInd
<1>2. selected'.doc = NoDoc \/ selected'.doc = editor.id => Work(editor') = Work(editor)
  BY <1>1, RenderKeeps
<1> QED BY <1>2

LEMMA AnswersKeepWork ==
  ASSUME EditorInd, Redrawn, Answers
  PROVE  Work(editor) = Work(editor')
<1>1. DOMAIN asked = 1..Len(asked)
  BY DEF EditorInd, QueueOK
<1>2. CASE \E i \in DOMAIN asked : RefusalArrives(i)
  BY <1>1, <1>2, RefusalArrivesKeeps
<1>3. CASE \A k \in Reads \cup {"save", "restore"} : Unanswered(k)
  <2>1. PICK i \in 1..Len(asked) :
        \/ ListArrives(i) \/ ReadFails(i) \/ Handle(i) \/ WriteArrives(i)
        \/ RefusalArrives(i) \/ SortArrives(i)
        \/ /\ asked[i].kind \in Reads
           /\ \E n \in asked[i].from..Latest(asked[i].doc) :
                OpenArrives(i, n) \/ AutoArrives(i, n) \/ RereadArrives(i, n)
    BY <1>1 DEF Answers
  <2>2. CASE ListArrives(i)
    <3> DEFINE q == RemoveAt(asked, i)
    <3>1. ListOK /\ HistoryOK /\ QueueOK(q, pane.item.doc) /\ asked[i].kind # "auto"
      BY <2>2, Answered DEF EditorInd, ListArrives
    <3>2. editor.loading => Awaited(q, editor.id)
      BY <3>1, Answered
    <3>3. listed' \in [Doc -> Nat]
      BY <2>2, <3>1, VersionsAreCounted DEF ListArrives
    <3>4. /\ Render(editor, selected, matching, q) /\ matching \in SUBSET Doc
          /\ selected \in Item /\ (selected.doc = NoDoc => selected.at = 0)
      BY <2>2, <3>1 DEF ListArrives, ListOK
    <3> HIDE DEF q
    <3> QED BY <3>1, <3>2, <3>3, <3>4, RenderKeepsWork DEF Redrawn
  <2>3. CASE ReadFails(i)
    BY <2>3, ReadFailsKeeps
  <2>4. CASE Handle(i) \/ SortArrives(i)
    BY <2>4 DEF Handle, SortArrives
  <2>5. CASE WriteArrives(i)
    <3>1. /\ asked[i].kind \in Reads \cup {"save", "restore"}
          /\ asked' = Append(RemoveAt(asked, i), [List EXCEPT !.live = asked[i].live])
      BY <2>5 DEF WriteArrives
    <3>2. asked[i].live \in BOOLEAN
      BY Answered DEF ReqT
    <3> QED BY <3>1, <3>2, <1>3, AnswerCounts
  <2>6. CASE RefusalArrives(i)
    BY <2>6, RefusalArrivesKeeps
  <2>7. CASE \E n \in asked[i].from..Latest(asked[i].doc) : OpenArrives(i, n) \/ AutoArrives(i, n)
    <3>1. asked[i].kind \in Reads \cup {"save", "restore"} /\ asked' = RemoveAt(asked, i)
      BY <2>7, Kinds DEF OpenArrives, AutoArrives
    <3> QED BY <3>1, <1>3, AnswerCounts
  <2>8. CASE \E n \in asked[i].from..Latest(asked[i].doc) : RereadArrives(i, n)
    <3>1. /\ asked[i].kind \in Reads \cup {"save", "restore"}
          /\ asked' = Append(RemoveAt(asked, i), [List EXCEPT !.live = asked[i].live])
      BY <2>8, Kinds DEF RereadArrives
    <3>2. asked[i].live \in BOOLEAN
      BY Answered DEF ReqT
    <3> QED BY <3>1, <3>2, <1>3, AnswerCounts
  <2> QED BY <2>1, <2>2, <2>3, <2>4, <2>5, <2>6, <2>7, <2>8
<1> QED BY <1>2, <1>3 DEF Redrawn

LEMMA PersonKeepsWork ==
  ASSUME EditorInd, Redrawn, Person
  PROVE  Work(editor).dirty => Work(editor').dirty
<1>1. ListOK /\ QueueOK(asked, pane.item.doc) /\ (editor.loading => Awaited(asked, editor.id))
  BY DEF EditorInd
<1>2. ASSUME NEW in \in SUBSET Doc, Keystroke(in)
      PROVE  Work(editor') = Work(editor)
  <2>1. /\ listed' \in [Doc -> Nat] /\ Render(editor, selected, in, asked)
        /\ selected \in Item /\ (selected.doc = NoDoc => selected.at = 0)
    BY <1>1, <1>2 DEF Keystroke, ListOK
  <2> QED BY <2>1, <1>1, RenderKeepsWork DEF Redrawn
<1>3. ASSUME NEW d \in Doc, Select(d)
      PROVE  Work(editor') = Work(editor)
  <2> DEFINE item0 == [doc |-> d, at |-> listed[d]]
  <2>1. item0 \in Item /\ item0.doc # NoDoc
    BY <1>1, NoDocIsNone DEF ListOK, Item
  <2>2. /\ listed' \in [Doc -> Nat] /\ matching \in SUBSET Doc /\ Render(editor, item0, matching, asked)
    BY <1>1, <1>3 DEF Select, ListOK
  <2> HIDE DEF item0
  <2> QED BY <2>1, <2>2, <1>1, RenderKeepsWork DEF Redrawn
<1>4. CASE Refresh \/ OpenClick \/ SaveClick \/ RestoreClick \/ SortClick
  BY <1>4 DEF Refresh, OpenClick, SaveClick, RestoreClick, SortClick
<1> QED BY <1>2, <1>3, <1>4, TypeInFieldKeeps, RebuildKeeps, TypeInTextKeeps, ShowModeKeeps DEF Person

LEMMA StepKeepsWork ==
  ASSUME EditorInd, [Next]_vars, Redrawn
  PROVE  Work(editor).dirty => Work(editor').dirty
<1>1. CASE Answers
  BY <1>1, AnswersKeepWork
<1>2. CASE Person
  BY <1>2, PersonKeepsWork
<1>3. CASE (\E d \in Doc : Colleague(d)) \/ UNCHANGED vars
  BY <1>3 DEF Colleague, vars
<1> QED BY <1>1, <1>2, <1>3 DEF Next

(***************************************************************************)
(* Free numbers.                                                           *)
(***************************************************************************)

\* A family of subsets of a finite set has a minimal member.
LEMMA Minimal ==
  ASSUME NEW S, IsFiniteSet(S), NEW F, F \subseteq SUBSET S, F # {}
  PROVE  \E x \in F : \A y \in F : y \subseteq x => y = x
<1>1. F \subseteq FiniteSubsetsOf(S)
  BY FS_FiniteSubsetsOfFinite
<1>2. PICK x \in F : \A y \in F : ~ (<<y, x>> \in StrictSubsetOrdering(S))
  BY <1>1, WFMin, FS_StrictSubsetOrderingWellFounded
<1>3. ASSUME NEW y \in F, y \subseteq x, y # x
      PROVE  <<y, x>> \in StrictSubsetOrdering(S)
  <2> DEFINE pr == <<y, x>>
  <2>1. pr \in (SUBSET S) \X (SUBSET S) /\ pr[1] \subseteq pr[2] /\ pr[1] # pr[2]
    BY <1>3
  <2> HIDE DEF pr
  <2>2. pr \in StrictSubsetOrdering(S)
    BY <2>1 DEF StrictSubsetOrdering
  <2> QED BY <2>2 DEF pr
<1>4. ASSUME NEW y \in F, y \subseteq x
      PROVE  y = x
  <2>1. ~ (<<y, x>> \in StrictSubsetOrdering(S))
    BY <1>2
  <2> QED BY <1>3, <1>4, <2>1
<1> QED BY <1>4

UpTo(S, n) == {z \in S : z <= n}

LEMMA Smallest ==
  ASSUME NEW S, \A z \in S : z \in Nat, S # {}, IsFiniteSet(S)
  PROVE  Min(S) \in S
<1> DEFINE F == {UpTo(S, n) : n \in S}
<1>1. F \subseteq SUBSET S /\ F # {} /\ IsFiniteSet(S)
  BY DEF UpTo
<1>2. (\A n \in S : UpTo(S, n) \in F) /\ \A x \in F : \E n \in S : x = UpTo(S, n)
  OBVIOUS
<1> HIDE DEF F
<1>3. \E x \in F : \A y \in F : y \subseteq x => y = x
  BY <1>1, Minimal
<1>4. PICK x \in F : \A y \in F : y \subseteq x => y = x
  BY <1>3
<1>5. PICK m \in S : x = UpTo(S, m)
  BY <1>2
<1>6. ASSUME NEW k \in S, k < m
      PROVE  FALSE
  <2>1. k \in Nat /\ m \in Nat
    OBVIOUS
  <2>2. ASSUME NEW z \in S, z <= k
        PROVE  z <= m
    <3>1. z \in Nat
      OBVIOUS
    <3> QED BY <3>1, <2>1, <2>2, <1>6
  <2>3. UpTo(S, k) \subseteq UpTo(S, m)
    BY <2>2 DEF UpTo
  <2>4. UpTo(S, k) = UpTo(S, m)
    BY <1>2, <1>4, <1>5, <2>3
  <2>5. m <= k
    BY <2>1, <2>4 DEF UpTo
  <2> QED BY <2>1, <2>5, <1>6
<1>7. \A k \in S : m =< k
  BY <1>6
<1> QED BY <1>7 DEF Min

\* There is a free number, and it is taken by nothing.
LEMMA FreeIsFree ==
  ASSUME NEW n \in Nat, NEW taken, IsFiniteSet(taken)
  PROVE  FirstFree(n, taken) \in Nat /\ FirstFree(n, taken) \notin taken
<1> DEFINE c == Cardinality(taken)
           I == n..(n + c)
           S == {m \in I : m \notin taken}
<1>1. c \in Nat
  BY FS_CardinalityType
<1> HIDE DEF c
<1>2. IsFiniteSet(I) /\ Cardinality(I) = c + 1 /\ I \in SUBSET Nat
  BY <1>1, FS_Interval
<1> HIDE DEF I
<1>3. S # {}
  <2> SUFFICES ASSUME I \subseteq taken PROVE FALSE
    OBVIOUS
  <2>1. Cardinality(I) <= Cardinality(taken)
    BY FS_Subset
  <2> QED BY <2>1, <1>1, <1>2 DEF c
<1>4. IsFiniteSet(S) /\ \A z \in S : z \in Nat
  BY <1>2, FS_Subset
<1>5. FirstFree(n, taken) = Min(S)
  BY DEF FirstFree, c, I
<1> HIDE DEF S
<1>6. Min(S) \in S
  BY <1>3, <1>4, Smallest
<1> QED BY <1>2, <1>5, <1>6 DEF S

(***************************************************************************)
(* Sequences of tabs, charts and slides.                                   *)
(***************************************************************************)

IsSeq(s) == \E S : s \in Seq(S)
Distinct(s) == \A i, j \in 1..Len(s) : s[i].id = s[j].id => i = j

LEMMA SeqShape ==
  ASSUME NEW s, IsSeq(s)
  PROVE  Len(s) \in Nat /\ DOMAIN s = 1..Len(s) /\ (s # <<>> => 1 <= Len(s))
<1>1. PICK S : s \in Seq(S)
  BY DEF IsSeq
<1>2. s = <<>> <=> Len(s) = 0
  BY <1>1, EmptySeq
<1> QED BY <1>1, <1>2, LenProperties

LEMMA SeqAppended ==
  ASSUME NEW s, IsSeq(s), NEW x
  PROVE  /\ IsSeq(Append(s, x)) /\ Len(Append(s, x)) = Len(s) + 1
         /\ \A i \in 1..Len(s) : Append(s, x)[i] = s[i]
         /\ Append(s, x)[Len(s) + 1] = x
<1>1. PICK S : s \in Seq(S)
  BY DEF IsSeq
<1> DEFINE T == S \cup {x}
<1>2. s \in Seq(T) /\ x \in T
  <2>1. \A i \in 1..Len(s) : s[i] \in T
    BY <1>1, ElementOfSeq
  <2>2. Len(s) \in Nat /\ s = [i \in 1..Len(s) |-> s[i]]
    BY <1>1, LenProperties
  <2> QED BY <2>1, <2>2, IsASeq
<1> HIDE DEF T
<1>3. /\ Append(s, x) \in Seq(T) /\ Len(Append(s, x)) = Len(s) + 1
      /\ \A i \in 1..Len(s) : Append(s, x)[i] = s[i]
      /\ Append(s, x)[Len(s) + 1] = x
  BY <1>2, AppendProperties
<1> QED BY <1>3 DEF IsSeq

LEMMA SeqReplaced ==
  ASSUME NEW s, IsSeq(s), NEW i \in 1..Len(s), NEW x
  PROVE  /\ IsSeq([s EXCEPT ![i] = x]) /\ Len([s EXCEPT ![i] = x]) = Len(s)
         /\ \A j \in 1..Len(s) : [s EXCEPT ![i] = x][j] = IF j = i THEN x ELSE s[j]
<1>1. PICK S : s \in Seq(S)
  BY DEF IsSeq
<1> DEFINE T == S \cup {x}
<1>2. s \in Seq(T) /\ x \in T
  <2>1. \A j \in 1..Len(s) : s[j] \in T
    BY <1>1, ElementOfSeq
  <2>2. Len(s) \in Nat /\ s = [j \in 1..Len(s) |-> s[j]]
    BY <1>1, LenProperties
  <2> QED BY <2>1, <2>2, IsASeq
<1> HIDE DEF T
<1>3. /\ [s EXCEPT ![i] = x] \in Seq(T) /\ Len([s EXCEPT ![i] = x]) = Len(s)
      /\ \A j \in 1..Len(s) : [s EXCEPT ![i] = x][j] = IF j = i THEN x ELSE s[j]
  BY <1>2, ExceptSeq
<1> QED BY <1>3 DEF IsSeq

LEMMA SeqRemoved ==
  ASSUME NEW s, IsSeq(s), NEW i \in 1..Len(s)
  PROVE  /\ IsSeq(RemoveAt(s, i)) /\ Len(RemoveAt(s, i)) = Len(s) - 1
         /\ \A j \in 1..(Len(s) - 1) : RemoveAt(s, i)[j] = IF j < i THEN s[j] ELSE s[j + 1]
<1>1. PICK S : s \in Seq(S)
  BY DEF IsSeq
<1> QED BY <1>1, Removed DEF IsSeq

\* The ids of a sequence; without repetition there are as many as elements.
LEMMA IdsCounted ==
  ASSUME NEW s, IsSeq(s)
  PROVE  /\ IsFiniteSet({s[i].id : i \in DOMAIN s})
         /\ Distinct(s) => Cardinality({s[i].id : i \in DOMAIN s}) = Len(s)
<1> DEFINE I == 1..Len(s)
           T == {s[i].id : i \in DOMAIN s}
           f == [i \in I |-> s[i].id]
<1>1. Len(s) \in Nat /\ DOMAIN s = I
  BY SeqShape
<1>2. IsFiniteSet(I) /\ Cardinality(I) = Len(s)
  <2>1. 1 \in Int /\ Len(s) \in Int
    BY <1>1
  <2>2. IsFiniteSet(1..Len(s)) /\ Cardinality(1..Len(s)) = IF 1 > Len(s) THEN 0 ELSE Len(s) - 1 + 1
    BY <2>1, FS_Interval
  <2> QED BY <1>1, <2>2
<1>3. f \in [I -> T] /\ (\A t \in T : \E i \in I : f[i] = t)
  <2>1. \A i \in I : s[i].id \in T
    BY <1>1
  <2>2. f \in [I -> T]
    BY <2>1
  <2>3. \A t \in T : \E i \in I : s[i].id = t
    BY <1>1
  <2> QED BY <2>2, <2>3
<1>4. Distinct(s) => \A i, j \in I : f[i] = f[j] => i = j
  BY DEF Distinct
<1> HIDE DEF I, T, f
<1>5. f \in Surjection(I, T)
  BY <1>3 DEF Surjection
<1>6. IsFiniteSet(T)
  BY <1>2, <1>5, FS_Surjection
<1>7. ASSUME Distinct(s)
      PROVE  Cardinality(T) = Len(s)
  <2>1. f \in Injection(I, T)
    BY <1>3, <1>4, <1>7 DEF Injection, IsInjective
  <2> QED BY <2>1, <1>2, <1>5, FS_Surjection
<1> QED BY <1>6, <1>7 DEF T

LEMMA DistinctAppended ==
  ASSUME NEW s, IsSeq(s), Distinct(s), NEW x, x.id \notin {s[i].id : i \in DOMAIN s}
  PROVE  Distinct(Append(s, x))
<1>1. Len(s) \in Nat /\ DOMAIN s = 1..Len(s)
  BY SeqShape
<1>2. /\ Len(Append(s, x)) = Len(s) + 1
      /\ \A i \in 1..Len(s) : Append(s, x)[i] = s[i]
      /\ Append(s, x)[Len(s) + 1] = x
  BY SeqAppended
<1>3. \A i \in 1..(Len(s) + 1) : i \in 1..Len(s) \/ i = Len(s) + 1
  BY <1>1
<1>4. ASSUME NEW i \in 1..(Len(s) + 1), NEW j \in 1..(Len(s) + 1),
             Append(s, x)[i].id = Append(s, x)[j].id
      PROVE  i = j
  <2>1. CASE i \in 1..Len(s) /\ j \in 1..Len(s)
    BY <2>1, <1>2, <1>4 DEF Distinct
  <2>2. CASE i = Len(s) + 1 /\ j \in 1..Len(s)
    <3>1. x.id = s[j].id
      BY <2>2, <1>2, <1>4
    <3> QED BY <3>1, <2>2, <1>1
  <2>3. CASE j = Len(s) + 1 /\ i \in 1..Len(s)
    <3>1. x.id = s[i].id
      BY <2>3, <1>2, <1>4
    <3> QED BY <3>1, <2>3, <1>1
  <2> QED BY <2>1, <2>2, <2>3, <1>3
<1> QED BY <1>2, <1>4 DEF Distinct

LEMMA DistinctRemoved ==
  ASSUME NEW s, IsSeq(s), Distinct(s), NEW i \in 1..Len(s)
  PROVE  Distinct(RemoveAt(s, i))
<1>1. Len(s) \in Nat
  BY SeqShape
<1>2. /\ Len(RemoveAt(s, i)) = Len(s) - 1
      /\ \A j \in 1..(Len(s) - 1) : RemoveAt(s, i)[j] = IF j < i THEN s[j] ELSE s[j + 1]
  BY SeqRemoved
<1>3. ASSUME NEW a \in 1..(Len(s) - 1), NEW b \in 1..(Len(s) - 1),
             RemoveAt(s, i)[a].id = RemoveAt(s, i)[b].id
      PROVE  a = b
  <2> DEFINE pa == IF a < i THEN a ELSE a + 1
             pb == IF b < i THEN b ELSE b + 1
  <2>1. pa \in 1..Len(s) /\ pb \in 1..Len(s) /\ (pa = pb => a = b)
    BY <1>1
  <2>2. RemoveAt(s, i)[a] = s[pa] /\ RemoveAt(s, i)[b] = s[pb]
    BY <1>2
  <2> HIDE DEF pa, pb
  <2> QED BY <2>1, <2>2, <1>3 DEF Distinct
<1> QED BY <1>2, <1>3 DEF Distinct

(***************************************************************************)
(* The workbook: cells.                                                    *)
(***************************************************************************)

CellMaps  == UNION {[P -> Cell] : P \in SUBSET Place}
NoEmpty(cells) == \A p \in DOMAIN cells : cells[p].content # "none" \/ cells[p].style # {}
ContentAt(cells, p) == IF p \in DOMAIN cells THEN cells[p].content ELSE "none"
\* Of each cell the value or the formatting is what it was.
HalfKept(old, new) ==
  \A p \in Place : ContentAt(old, p) = ContentAt(new, p) \/ StyleAt(old, p) = StyleAt(new, p)

LEMMA MapShape ==
  ASSUME NEW cells
  PROVE  cells \in CellMaps <=> cells \in [DOMAIN cells -> Cell] /\ DOMAIN cells \subseteq Place
<1>1. ASSUME cells \in CellMaps
      PROVE  cells \in [DOMAIN cells -> Cell] /\ DOMAIN cells \subseteq Place
  <2>1. PICK P \in SUBSET Place : cells \in [P -> Cell]
    BY <1>1 DEF CellMaps
  <2> QED BY <2>1
<1>2. ASSUME cells \in [DOMAIN cells -> Cell] /\ DOMAIN cells \subseteq Place
      PROVE  cells \in CellMaps
  BY <1>2 DEF CellMaps
<1> QED BY <1>1, <1>2

LEMMA PutOK ==
  ASSUME NEW cells \in CellMaps, NoEmpty(cells), NEW p \in Place, NEW c \in Cell,
         c.content # "none" \/ c.style # {},
         c.content = ContentAt(cells, p) \/ c.style = StyleAt(cells, p)
  PROVE  Put(cells, p, c) \in CellMaps /\ NoEmpty(Put(cells, p, c)) /\ HalfKept(cells, Put(cells, p, c))
<1>1. cells \in [DOMAIN cells -> Cell] /\ DOMAIN cells \subseteq Place
  BY MapShape
<1> DEFINE new == Put(cells, p, c)
<1>2. /\ DOMAIN new = DOMAIN cells \cup {p}
      /\ \A q \in DOMAIN cells \cup {p} : new[q] = IF q = p THEN c ELSE cells[q]
      /\ new = [q \in DOMAIN cells \cup {p} |-> new[q]]
  BY DEF Put
<1> HIDE DEF new
<1>3. \A q \in DOMAIN cells \cup {p} : new[q] \in Cell
  BY <1>1, <1>2
<1>4. new \in [DOMAIN cells \cup {p} -> Cell] /\ DOMAIN cells \cup {p} \subseteq Place
  BY <1>1, <1>2, <1>3
<1>5. new \in CellMaps
  BY <1>2, <1>4, MapShape
<1>6. NoEmpty(new)
  BY <1>2 DEF NoEmpty
<1>7. ASSUME NEW q \in Place
      PROVE  ContentAt(cells, q) = ContentAt(new, q) \/ StyleAt(cells, q) = StyleAt(new, q)
  <2>1. CASE q = p
    <3>1. ContentAt(new, q) = c.content /\ StyleAt(new, q) = c.style
      BY <2>1, <1>2 DEF ContentAt, StyleAt
    <3> QED BY <3>1, <2>1
  <2>2. CASE q # p
    <3>1. ContentAt(new, q) = ContentAt(cells, q)
      BY <2>2, <1>2 DEF ContentAt
    <3> QED BY <3>1
  <2> QED BY <2>1, <2>2
<1> QED BY <1>5, <1>6, <1>7 DEF HalfKept, new

LEMMA DropOK ==
  ASSUME NEW cells \in CellMaps, NoEmpty(cells), NEW p \in Place,
         ContentAt(cells, p) = "none" \/ StyleAt(cells, p) = {}
  PROVE  Drop(cells, p) \in CellMaps /\ NoEmpty(Drop(cells, p)) /\ HalfKept(cells, Drop(cells, p))
<1>1. cells \in [DOMAIN cells -> Cell] /\ DOMAIN cells \subseteq Place
  BY MapShape
<1> DEFINE new == Drop(cells, p)
<1>2. /\ DOMAIN new = DOMAIN cells \ {p}
      /\ \A q \in DOMAIN cells \ {p} : new[q] = cells[q]
      /\ new = [q \in DOMAIN cells \ {p} |-> new[q]]
  BY DEF Drop
<1> HIDE DEF new
<1>3. \A q \in DOMAIN cells \ {p} : new[q] \in Cell
  BY <1>1, <1>2
<1>4. new \in [DOMAIN cells \ {p} -> Cell] /\ DOMAIN cells \ {p} \subseteq Place
  BY <1>1, <1>2, <1>3
<1>5. new \in CellMaps
  BY <1>2, <1>4, MapShape
<1>6. NoEmpty(new)
  BY <1>2 DEF NoEmpty
<1>7. ASSUME NEW q \in Place
      PROVE  ContentAt(cells, q) = ContentAt(new, q) \/ StyleAt(cells, q) = StyleAt(new, q)
  <2>1. CASE q = p
    <3>1. ContentAt(new, q) = "none" /\ StyleAt(new, q) = {}
      BY <2>1, <1>2 DEF ContentAt, StyleAt
    <3> QED BY <3>1, <2>1
  <2>2. CASE q # p
    <3>1. ContentAt(new, q) = ContentAt(cells, q)
      BY <2>2, <1>2 DEF ContentAt
    <3> QED BY <3>1
  <2> QED BY <2>1, <2>2
<1> QED BY <1>5, <1>6, <1>7 DEF HalfKept, new

LEMMA StyleTyped ==
  ASSUME NEW cells \in CellMaps, NEW p \in Place
  PROVE  /\ StyleAt(cells, p) \in SUBSET Style
         /\ ContentAt(cells, p) \in {"none", "value", "formula"}
<1>1. cells \in [DOMAIN cells -> Cell]
  BY MapShape
<1> QED BY <1>1 DEF StyleAt, ContentAt, Cell

LEMMA TypedOK ==
  ASSUME NEW cells \in CellMaps, NoEmpty(cells), NEW p \in Place,
         NEW content \in {"none", "value", "formula"}
  PROVE  /\ Typed(cells, p, content) \in CellMaps /\ NoEmpty(Typed(cells, p, content))
         /\ HalfKept(cells, Typed(cells, p, content))
<1>1. CASE content = "none" /\ StyleAt(cells, p) = {}
  <2>1. Typed(cells, p, content) = Drop(cells, p)
    BY <1>1 DEF Typed
  <2> QED BY <2>1, <1>1, DropOK
<1>2. CASE ~(content = "none" /\ StyleAt(cells, p) = {})
  <2> DEFINE c == [content |-> content, style |-> StyleAt(cells, p)]
  <2>1. Typed(cells, p, content) = Put(cells, p, c)
    BY <1>2 DEF Typed
  <2>2. c \in Cell /\ c.content = content /\ c.style = StyleAt(cells, p)
    BY StyleTyped DEF Cell
  <2> HIDE DEF c
  <2> QED BY <2>1, <2>2, <1>2, PutOK
<1> QED BY <1>1, <1>2

LEMMA StyledOK ==
  ASSUME NEW cells \in CellMaps, NoEmpty(cells), NEW p \in Place, NEW style \in SUBSET Style
  PROVE  /\ Styled(cells, p, style) \in CellMaps /\ NoEmpty(Styled(cells, p, style))
         /\ HalfKept(cells, Styled(cells, p, style))
<1>1. CASE style = {} /\ ContentAt(cells, p) = "none"
  <2>1. Styled(cells, p, style) = Drop(cells, p)
    BY <1>1 DEF Styled, ContentAt
  <2> QED BY <2>1, <1>1, DropOK
<1>2. CASE ~(style = {} /\ ContentAt(cells, p) = "none")
  <2> DEFINE c == [content |-> ContentAt(cells, p), style |-> style]
  <2>1. Styled(cells, p, style) = Put(cells, p, c)
    BY <1>2 DEF Styled, ContentAt
  <2>2. c \in Cell /\ c.content = ContentAt(cells, p) /\ c.style = style
    BY StyleTyped DEF Cell
  <2> HIDE DEF c
  <2> QED BY <2>1, <2>2, <1>2, PutOK
<1> QED BY <1>1, <1>2

(***************************************************************************)
(* The workbook: tabs and charts.                                          *)
(***************************************************************************)

\* No two tabs have an id in common, and the one on screen is one of them.
TabsOK(ts) == ts \in Seq(Tab) /\ Distinct(ts) /\ \A i \in 1..Len(ts) : NoEmpty(ts[i].cells)

SheetInd ==
  /\ TabsOK(tabs) /\ cell \in Place \cup {Absent}
  /\ tab # Absent => \E i \in 1..Len(tabs) : tabs[i].id = tab
  /\ IsSeq(charts) /\ Distinct(charts)

\* Tabs that are not on screen are left alone, and a cell loses one half at most.
TabsKept ==
  /\ \A i \in DOMAIN tabs : tabs[i].id # tab => tabs[i] \in {tabs'[j] : j \in DOMAIN tabs'}
  /\ \A i \in DOMAIN tabs, j \in DOMAIN tabs' :
       tabs[i].id = tabs'[j].id => HalfKept(tabs[i].cells, tabs'[j].cells)

LEMMA TabTyped ==
  ASSUME NEW t
  PROVE  t \in Tab <=> /\ t = [id |-> t.id, title |-> t.title, cells |-> t.cells]
                       /\ t.id \in Nat /\ t.title \in Nat /\ t.cells \in CellMaps
<1>1. Tab = [id : Nat, title : Nat, cells : CellMaps]
  BY DEF Tab, CellMaps
<1> HIDE DEF CellMaps
<1> QED BY <1>1

LEMMA TabsShape ==
  ASSUME NEW ts, TabsOK(ts)
  PROVE  /\ Len(ts) \in Nat /\ DOMAIN ts = 1..Len(ts) /\ IsSeq(ts)
         /\ \A i \in 1..Len(ts) : ts[i] \in Tab
<1>1. ts \in Seq(Tab)
  BY DEF TabsOK
<1> QED BY <1>1, LenProperties, ElementOfSeq DEF IsSeq

LEMMA CurrentOK ==
  ASSUME SheetInd, tab # Absent
  PROVE  Current \in 1..Len(tabs) /\ tabs[Current].id = tab
<1>1. DOMAIN tabs = 1..Len(tabs)
  BY TabsShape DEF SheetInd
<1>2. \E i \in DOMAIN tabs : tabs[i].id = tab
  BY <1>1 DEF SheetInd
<1> QED BY <1>1, <1>2 DEF Current

LEMMA HalfIsKept == \A cells : HalfKept(cells, cells)
BY DEF HalfKept

LEMMA TabsRest ==
  ASSUME SheetInd, tabs' = tabs
  PROVE  TabsKept
<1>1. DOMAIN tabs = 1..Len(tabs) /\ Distinct(tabs)
  BY TabsShape DEF SheetInd, TabsOK
<1>2. \A i \in DOMAIN tabs : tabs[i] \in {tabs'[j] : j \in DOMAIN tabs'}
  OBVIOUS
<1>3. \A i \in DOMAIN tabs, j \in DOMAIN tabs' :
        tabs[i].id = tabs'[j].id => HalfKept(tabs[i].cells, tabs'[j].cells)
  BY <1>1, HalfIsKept DEF Distinct
<1> QED BY <1>2, <1>3 DEF TabsKept

\* The tab on screen is replaced by one with its id.
LEMMA TabReplaced ==
  ASSUME SheetInd, tab # Absent, NEW t \in Tab, t.id = tab, NoEmpty(t.cells),
         HalfKept(tabs[Current].cells, t.cells), tabs' = [tabs EXCEPT ![Current] = t]
  PROVE  TabsOK(tabs') /\ (\E i \in 1..Len(tabs') : tabs'[i].id = tab) /\ TabsKept
<1>1. Current \in 1..Len(tabs) /\ tabs[Current].id = tab
  BY CurrentOK
<1>2. TabsOK(tabs) /\ tabs \in Seq(Tab) /\ DOMAIN tabs = 1..Len(tabs)
  BY TabsShape DEF SheetInd, TabsOK
<1>3. /\ tabs' \in Seq(Tab) /\ Len(tabs') = Len(tabs) /\ DOMAIN tabs' = 1..Len(tabs)
      /\ \A j \in 1..Len(tabs) : tabs'[j] = IF j = Current THEN t ELSE tabs[j]
  <2>1. /\ tabs' \in Seq(Tab) /\ Len(tabs') = Len(tabs)
        /\ \A j \in 1..Len(tabs) : tabs'[j] = IF j = Current THEN t ELSE tabs[j]
    BY <1>1, <1>2, ExceptSeq
  <2> QED BY <2>1, <1>2
<1>4. \A j \in 1..Len(tabs) : tabs'[j].id = tabs[j].id
  BY <1>1, <1>3
<1>5. TabsOK(tabs')
  BY <1>2, <1>3, <1>4 DEF TabsOK, Distinct
<1>6. \A i \in 1..Len(tabs) : tabs[i].id # tab => tabs'[i] = tabs[i]
  BY <1>1, <1>3
<1>7. ASSUME NEW i \in 1..Len(tabs), NEW j \in 1..Len(tabs), tabs[i].id = tabs'[j].id
      PROVE  HalfKept(tabs[i].cells, tabs'[j].cells)
  <2>1. i = j
    BY <1>2, <1>4, <1>7 DEF TabsOK, Distinct
  <2> QED BY <2>1, <1>3, HalfIsKept
<1>8. TabsKept
  BY <1>2, <1>3, <1>6, <1>7 DEF TabsKept
<1> QED BY <1>1, <1>3, <1>4, <1>5, <1>8

LEMMA AddTabKeeps ==
  ASSUME SheetInd, AddTab
  PROVE  SheetInd' /\ TabsKept
<1> DEFINE id == FirstFree(Len(tabs) + 1, TabIds)
           t  == EmptyTab(id)
<1>1. tabs' = Append(tabs, t) /\ tab' = id /\ UNCHANGED <<charts, cell>>
  BY DEF AddTab
<1>2. TabsOK(tabs) /\ tabs \in Seq(Tab) /\ IsSeq(tabs) /\ Len(tabs) \in Nat /\ DOMAIN tabs = 1..Len(tabs)
  BY TabsShape DEF SheetInd, TabsOK
<1>3. IsFiniteSet(TabIds)
  BY <1>2, IdsCounted DEF TabIds
<1>4. id \in Nat /\ id \notin TabIds
  BY <1>2, <1>3, FreeIsFree
<1> HIDE DEF id
<1>5. NoCells \in CellMaps /\ NoEmpty(NoCells)
  <2>1. DOMAIN NoCells = {} /\ NoCells \in [{} -> Cell]
    BY DEF NoCells
  <2> QED BY <2>1, MapShape DEF NoEmpty
<1>6. t \in Tab /\ t.id = id /\ NoEmpty(t.cells)
  <2>1. t = [id |-> id, title |-> id, cells |-> NoCells]
    BY DEF EmptyTab
  <2> QED BY <2>1, <1>4, <1>5, TabTyped
<1> HIDE DEF t
<1>7. /\ tabs' \in Seq(Tab) /\ Len(tabs') = Len(tabs) + 1
      /\ \A i \in 1..Len(tabs) : tabs'[i] = tabs[i]
      /\ tabs'[Len(tabs) + 1] = t
  BY <1>1, <1>2, <1>6, AppendProperties
<1>8. Distinct(tabs')
  BY <1>1, <1>2, <1>4, <1>6, DistinctAppended DEF TabsOK, TabIds
<1>9. /\ DOMAIN tabs' = 1..(Len(tabs) + 1)
      /\ \A i \in 1..(Len(tabs) + 1) : i \in 1..Len(tabs) \/ i = Len(tabs) + 1
      /\ \A i \in 1..Len(tabs) : i \in 1..(Len(tabs) + 1)
      /\ Len(tabs) + 1 \in 1..(Len(tabs) + 1)
  BY <1>2, <1>7
<1>10. TabsOK(tabs')
  BY <1>2, <1>6, <1>7, <1>8, <1>9 DEF TabsOK
<1>11. \A i \in DOMAIN tabs : tabs[i] \in {tabs'[j] : j \in DOMAIN tabs'}
  BY <1>2, <1>7, <1>9
<1>12. ASSUME NEW i \in DOMAIN tabs, NEW j \in DOMAIN tabs', tabs[i].id = tabs'[j].id
       PROVE  HalfKept(tabs[i].cells, tabs'[j].cells)
  <2>1. j # Len(tabs) + 1
    BY <1>4, <1>6, <1>7, <1>12 DEF TabIds
  <2>2. j \in 1..Len(tabs) /\ tabs'[j] = tabs[j]
    BY <2>1, <1>7, <1>9
  <2>3. i = j
    BY <2>2, <1>2, <1>12 DEF TabsOK, Distinct
  <2> QED BY <2>2, <2>3, HalfIsKept
<1>13. TabsKept
  BY <1>11, <1>12 DEF TabsKept
<1>14. \E i \in 1..Len(tabs') : tabs'[i].id = tab'
  BY <1>1, <1>6, <1>7, <1>9
<1> QED BY <1>1, <1>10, <1>13, <1>14 DEF SheetInd

LEMMA SelectTabKeeps ==
  ASSUME SheetInd, NEW i \in DOMAIN tabs, SelectTab(i)
  PROVE  SheetInd' /\ TabsKept
<1>1. tab' = tabs[i].id /\ UNCHANGED <<tabs, charts, cell>>
  BY DEF SelectTab, payload
<1>2. DOMAIN tabs = 1..Len(tabs)
  BY TabsShape DEF SheetInd
<1> QED BY <1>1, <1>2, TabsRest DEF SheetInd

LEMMA RenameTabKeeps ==
  ASSUME SheetInd, NEW title \in DOMAIN tabs, RenameTab(title)
  PROVE  SheetInd' /\ TabsKept
<1> DEFINE t == [tabs[Current] EXCEPT !.title = title]
<1>1. tab # Absent /\ tabs' = [tabs EXCEPT ![Current] = t] /\ UNCHANGED <<charts, cell, tab>>
  BY DEF RenameTab, OnTab, view
<1>2. Current \in 1..Len(tabs) /\ tabs[Current].id = tab
  BY <1>1, CurrentOK
<1>3. tabs[Current] \in Tab /\ NoEmpty(tabs[Current].cells) /\ title \in Nat
  BY <1>2, TabsShape DEF SheetInd, TabsOK
<1>4. t \in Tab /\ t.id = tab /\ t.cells = tabs[Current].cells
  BY <1>2, <1>3 DEF Tab
<1> HIDE DEF t
<1>5. TabsOK(tabs') /\ (\E i \in 1..Len(tabs') : tabs'[i].id = tab) /\ TabsKept
  BY <1>1, <1>3, <1>4, HalfIsKept, TabReplaced
<1> QED BY <1>1, <1>5 DEF SheetInd

LEMMA GridKeeps ==
  ASSUME SheetInd, tab # Absent, NEW cells \in CellMaps, NoEmpty(cells),
         HalfKept(tabs[Current].cells, cells), Grid(cells)
  PROVE  TabsOK(tabs') /\ (\E i \in 1..Len(tabs') : tabs'[i].id = tab) /\ TabsKept
<1> DEFINE t == [tabs[Current] EXCEPT !.cells = cells]
<1>1. tabs' = [tabs EXCEPT ![Current] = t]
  BY DEF Grid
<1>2. Current \in 1..Len(tabs) /\ tabs[Current].id = tab
  BY CurrentOK
<1>3. tabs[Current] \in Tab
  BY <1>2, TabsShape DEF SheetInd
<1>4. t \in Tab /\ t.id = tab /\ t.cells = cells
  BY <1>2, <1>3 DEF Tab, CellMaps
<1> HIDE DEF t
<1> QED BY <1>1, <1>4, TabReplaced

LEMMA TypeCellKeeps ==
  ASSUME SheetInd, NEW p \in Place, NEW c \in {"none", "value", "formula"}, TypeCell(p, c)
  PROVE  SheetInd' /\ TabsKept
<1> DEFINE old == tabs[Current].cells
           new == Typed(tabs[Current].cells, p, c)
<1>1. tab # Absent /\ cell' = p /\ Grid(new) /\ UNCHANGED <<charts, tab>>
  BY DEF TypeCell, OnTab
<1>2. Current \in 1..Len(tabs)
  BY <1>1, CurrentOK
<1>3. old \in CellMaps /\ NoEmpty(old)
  BY <1>2, TabsShape, TabTyped DEF SheetInd, TabsOK
<1>4. new \in CellMaps /\ NoEmpty(new) /\ HalfKept(old, new)
  BY <1>3, TypedOK
<1> HIDE DEF new
<1>5. TabsOK(tabs') /\ (\E i \in 1..Len(tabs') : tabs'[i].id = tab) /\ TabsKept
  BY <1>1, <1>4, GridKeeps
<1> QED BY <1>1, <1>5 DEF SheetInd

LEMMA SetStyleKeeps ==
  ASSUME SheetInd, NEW k \in Style, SetStyle(k)
  PROVE  SheetInd' /\ TabsKept
<1> DEFINE old   == tabs[Current].cells
           was   == StyleAt(old, cell)
           style == IF k \in was THEN was \ {k} ELSE was \cup {k}
           new   == Styled(old, cell, style)
<1>1. tab # Absent /\ cell # Absent /\ Grid(new) /\ UNCHANGED <<charts, tab, cell>>
  BY DEF SetStyle, OnTab, view
<1>2. Current \in 1..Len(tabs) /\ cell \in Place
  BY <1>1, CurrentOK DEF SheetInd
<1>3. old \in CellMaps /\ NoEmpty(old)
  BY <1>2, TabsShape, TabTyped DEF SheetInd, TabsOK
<1> HIDE DEF old
<1>4. was \in SUBSET Style
  BY <1>2, <1>3, StyleTyped
<1> HIDE DEF was
<1>5. style \in SUBSET Style
  BY <1>4
<1> HIDE DEF style
<1>6. new \in CellMaps /\ NoEmpty(new) /\ HalfKept(old, new)
  BY <1>2, <1>3, <1>5, StyledOK
<1> HIDE DEF new
<1>7. TabsOK(tabs') /\ (\E i \in 1..Len(tabs') : tabs'[i].id = tab) /\ TabsKept
  BY <1>1, <1>6, GridKeeps DEF old
<1> QED BY <1>1, <1>7 DEF SheetInd

LEMMA RemoveTabKeeps ==
  ASSUME SheetInd, RemoveTab
  PROVE  SheetInd' /\ TabsKept
<1>1. /\ tab # Absent /\ Len(tabs) > 1 /\ tabs' = RemoveAt(tabs, Current) /\ tab' = tabs'[1].id
      /\ UNCHANGED <<charts, cell>>
  BY DEF RemoveTab, OnTab
<1>2. Current \in 1..Len(tabs) /\ tabs[Current].id = tab
  BY <1>1, CurrentOK
<1>3. TabsOK(tabs) /\ tabs \in Seq(Tab) /\ IsSeq(tabs) /\ Len(tabs) \in Nat /\ DOMAIN tabs = 1..Len(tabs)
  BY TabsShape DEF SheetInd, TabsOK
<1>4. tabs' \in Seq(Tab) /\ Len(tabs') = Len(tabs) - 1 /\ Distinct(tabs')
  BY <1>1, <1>2, <1>3, Removed, DistinctRemoved DEF TabsOK
<1>5. DOMAIN tabs' = 1..Len(tabs') /\ 1 \in 1..Len(tabs')
  BY <1>1, <1>3, <1>4
<1>6. /\ \A j \in 1..Len(tabs') : \E k \in 1..Len(tabs) : k # Current /\ tabs'[j] = tabs[k]
      /\ \A k \in 1..Len(tabs) : k # Current => \E j \in 1..Len(tabs') : tabs'[j] = tabs[k]
  BY <1>1, <1>2, <1>3, RemovedElements
<1>7. TabsOK(tabs')
  BY <1>3, <1>4, <1>6 DEF TabsOK
<1>8. \A i \in DOMAIN tabs : tabs[i].id # tab => tabs[i] \in {tabs'[j] : j \in DOMAIN tabs'}
  BY <1>2, <1>3, <1>5, <1>6
<1>9. ASSUME NEW i \in DOMAIN tabs, NEW j \in DOMAIN tabs', tabs[i].id = tabs'[j].id
      PROVE  HalfKept(tabs[i].cells, tabs'[j].cells)
  <2>1. PICK k \in 1..Len(tabs) : tabs'[j] = tabs[k]
    BY <1>5, <1>6
  <2>2. i = k
    BY <2>1, <1>3, <1>9 DEF TabsOK, Distinct
  <2> QED BY <2>1, <2>2, HalfIsKept
<1>10. TabsKept
  BY <1>8, <1>9 DEF TabsKept
<1>11. \E i \in 1..Len(tabs') : tabs'[i].id = tab'
  BY <1>1, <1>5
<1> QED BY <1>1, <1>7, <1>10, <1>11 DEF SheetInd

LEMMA ChartsKeep ==
  ASSUME SheetInd, AddChart \/ \E i \in DOMAIN charts : RemoveChart(i)
  PROVE  SheetInd' /\ TabsKept
<1>1. UNCHANGED <<tabs, tab, cell>>
  BY DEF AddChart, RemoveChart, view
<1>2. IsSeq(charts) /\ Distinct(charts) /\ Len(charts) \in Nat /\ DOMAIN charts = 1..Len(charts)
  BY SeqShape DEF SheetInd
<1>3. CASE AddChart
  <2> DEFINE id == FirstFree(Len(charts) + 1, ChartIds)
             c  == [id |-> id, title |-> tabs[Current].title]
  <2>1. charts' = Append(charts, c)
    BY <1>3 DEF AddChart
  <2>2. IsFiniteSet(ChartIds)
    BY <1>2, IdsCounted DEF ChartIds
  <2>a. Len(charts) + 1 \in Nat
    BY <1>2
  <2>3. id \notin ChartIds
    BY <2>a, <2>2, FreeIsFree
  <2>4. c.id = id
    OBVIOUS
  <2> HIDE DEF c, id
  <2>5. IsSeq(charts') /\ Distinct(charts')
    BY <1>2, <2>1, <2>3, <2>4, SeqAppended, DistinctAppended DEF ChartIds
  <2> QED BY <2>5, <1>1, TabsRest DEF SheetInd
<1>4. CASE \E i \in DOMAIN charts : RemoveChart(i)
  <2>1. PICK i \in 1..Len(charts) : charts' = RemoveAt(charts, i)
    BY <1>2, <1>4 DEF RemoveChart
  <2>2. IsSeq(charts') /\ Distinct(charts')
    BY <1>2, <2>1, SeqRemoved, DistinctRemoved
  <2> QED BY <2>2, <1>1, TabsRest DEF SheetInd
<1> QED BY <1>3, <1>4

LEMMA SheetsKeep ==
  ASSUME SheetInd, Sheets
  PROVE  SheetInd' /\ TabsKept
<1>1. CASE AddName \/ \E n \in names : RemoveName(n)
  <2>1. UNCHANGED <<tabs, tab, cell, charts>>
    BY <1>1 DEF AddName, RemoveName, view
  <2> QED BY <2>1, TabsRest DEF SheetInd
<1> QED BY <1>1, AddTabKeeps, RemoveTabKeeps, ChartsKeep, SelectTabKeeps, RenameTabKeeps, TypeCellKeeps,
           SetStyleKeeps DEF Sheets

(***************************************************************************)
(* The deck, and the surfaces together.                                    *)
(***************************************************************************)

StageInd == IsSeq(slides) /\ slide \in Nat \ {0} /\ StageHasSlide

LEMMA OnStageOK ==
  ASSUME IsSeq(slides), NEW i \in Nat \ {0}
  PROVE  /\ OnStage(i) \in Nat \ {0}
         /\ slides # <<>> => OnStage(i) \in DOMAIN slides
<1>1. CASE slides = <<>>
  BY <1>1 DEF OnStage
<1>2. CASE slides # <<>>
  <2>1. Len(slides) \in Nat /\ DOMAIN slides = 1..Len(slides) /\ 1 <= Len(slides)
    BY <1>2, SeqShape
  <2>2. (\E x \in {i, 1} : \A y \in {i, 1} : x >= y)
    BY i >= 1
  <2>3. Max({i, 1}) \in {i, 1} /\ \A y \in {i, 1} : Max({i, 1}) >= y
    BY <2>2 DEF Max
  <2> DEFINE m == Max({i, 1})
             n == Len(slides)
  <2>4. m \in Nat /\ m >= 1 /\ n \in Nat
    BY <2>1, <2>3
  <2>5. OnStage(i) = Min({m, n})
    BY <1>2 DEF OnStage
  <2> HIDE DEF m
  <2>6. \E x \in {m, n} : \A y \in {m, n} : x =< y
    BY <2>4
  <2>7. Min({m, n}) \in {m, n} /\ \A y \in {m, n} : Min({m, n}) =< y
    BY <2>6 DEF Min
  <2>8. OnStage(i) \in Nat /\ OnStage(i) >= 1 /\ OnStage(i) <= n
    BY <2>1, <2>4, <2>5, <2>7
  <2> QED BY <2>1, <2>8
<1> QED BY <1>1, <1>2

\* While slides are edited the deck is not previewed.
LEMMA SlidesEdited ==
  ASSUME mode' = mode, Form, IsSeq(slides'), slide' \in Nat \ {0}
  PROVE  StageInd'
BY DEF StageInd, StageHasSlide, Form

LEMMA ShapesEdited ==
  ASSUME StageInd, NEW i \in DOMAIN slides, NEW sh, Reshape(i, sh), slide' = i, mode' = mode, Form
  PROVE  StageInd'
<1>1. Len(slides) \in Nat /\ DOMAIN slides = 1..Len(slides) /\ IsSeq(slides)
  BY SeqShape DEF StageInd
<1> DEFINE x == [slides[i] EXCEPT !.shapes = sh]
<1>2. slides' = [slides EXCEPT ![i] = x]
  BY DEF Reshape
<1> HIDE DEF x
<1>3. IsSeq(slides')
  BY <1>1, <1>2, SeqReplaced
<1>4. slide' \in Nat \ {0}
  BY <1>1
<1> QED BY <1>3, <1>4, SlidesEdited

LEMMA RedoKeeps ==
  ASSUME StageInd, NEW i \in DOMAIN slides, NEW j, NEW sh, Redo(i, j, sh), Form
  PROVE  StageInd'
<1> DEFINE x == [slides[i].shapes EXCEPT ![j] = sh]
<1>1. Reshape(i, x) /\ slide' = i /\ mode' = mode
  BY DEF Redo
<1> HIDE DEF x
<1> QED BY <1>1, ShapesEdited

LEMMA ShapeStepsKeep ==
  ASSUME StageInd, NEW i \in DOMAIN slides, NEW j \in DOMAIN slides[i].shapes,
         \/ AddShapeRow(i, j) \/ AddShapeColumn(i, j)
         \/ \E m \in ShapeMark : MarkShape(i, j, m)
         \/ \E some \in BOOLEAN : SizeShape(i, j, some) \/ ColourShape(i, j, some)
         \/ \E typed \in {"nothing", "refused", "followed"} : LinkShape(i, j, typed)
         \/ \E r \in DOMAIN slides[i].shapes[j].rows : TypeInShapeTable(i, j, r) \/ RemoveShapeRow(i, j, r)
  PROVE  StageInd' /\ UNCHANGED <<tabs, tab, cell, charts>>
<1>1. Form /\ \E sh : Redo(i, j, sh)
  BY DEF AddShapeRow, AddShapeColumn, MarkShape, SizeShape, ColourShape, LinkShape, TypeInShapeTable,
         RemoveShapeRow, InShape, InSlide
<1>2. PICK sh : Redo(i, j, sh)
  BY <1>1
<1>3. UNCHANGED <<tabs, tab, cell, charts>>
  BY <1>2 DEF Redo
<1> QED BY <1>1, <1>2, <1>3, RedoKeeps

LEMMA DecksKeep ==
  ASSUME StageInd, Decks
  PROVE  StageInd' /\ UNCHANGED <<tabs, tab, cell, charts>>
<1>1. /\ Len(slides) \in Nat /\ DOMAIN slides = 1..Len(slides) /\ IsSeq(slides)
      /\ slide \in Nat \ {0}
  BY SeqShape DEF StageInd
<1>2. CASE AddSlide
  <2> DEFINE x == [id |-> Len(slides) + 1, shapes |-> <<>>, notes |-> FALSE]
  <2>1. slides' = Append(slides, x) /\ Form /\ UNCHANGED <<tabs, tab, cell, charts, slide, mode>>
    BY <1>2 DEF AddSlide, view
  <2> HIDE DEF x
  <2>2. IsSeq(slides')
    BY <1>1, <2>1, SeqAppended
  <2> QED BY <1>1, <2>1, <2>2, SlidesEdited
<1>3. ASSUME NEW i \in DOMAIN slides, RemoveSlide(i)
      PROVE  StageInd' /\ UNCHANGED <<tabs, tab, cell, charts>>
  <2>1. slides' = RemoveAt(slides, i) /\ slide' = i /\ Form /\ UNCHANGED <<tabs, tab, cell, charts, mode>>
    BY <1>3 DEF RemoveSlide, InSlide
  <2>2. IsSeq(slides') /\ slide' \in Nat \ {0}
    BY <1>1, <2>1, SeqRemoved
  <2> QED BY <2>1, <2>2, SlidesEdited
<1>4. ASSUME NEW i \in DOMAIN slides, ShowSlide(i)
      PROVE  StageInd' /\ UNCHANGED <<tabs, tab, cell, charts>>
  <2>1. slide' = OnStage(i) /\ UNCHANGED <<slides, kind, mode, tabs, tab, cell, charts>>
    BY <1>4 DEF ShowSlide, payload, Edit
  <2>2. OnStage(i) \in Nat \ {0} /\ (slides # <<>> => OnStage(i) \in DOMAIN slides)
    BY <1>1, OnStageOK
  <2> QED BY <1>1, <2>1, <2>2 DEF StageInd, StageHasSlide
<1>5. ASSUME NEW i \in DOMAIN slides, NEW sh \in ShapeKind, AddShape(i, sh)
      PROVE  StageInd' /\ UNCHANGED <<tabs, tab, cell, charts>>
  <2> DEFINE x == Append(slides[i].shapes, NewShape(Len(slides[i].shapes) + 1, sh))
  <2>1. Reshape(i, x) /\ slide' = i /\ Form /\ UNCHANGED <<tabs, tab, cell, charts, mode>>
    BY <1>5 DEF AddShape, InSlide
  <2> HIDE DEF x
  <2> QED BY <2>1, ShapesEdited
<1>6. ASSUME NEW i \in DOMAIN slides, NEW j \in DOMAIN slides[i].shapes, RemovePicture(i, j)
      PROVE  StageInd' /\ UNCHANGED <<tabs, tab, cell, charts>>
  <2> DEFINE x == RemoveAt(slides[i].shapes, j)
  <2>1. Reshape(i, x) /\ slide' = i /\ Form /\ UNCHANGED <<tabs, tab, cell, charts, mode>>
    BY <1>6 DEF RemovePicture, InSlide
  <2> HIDE DEF x
  <2> QED BY <2>1, ShapesEdited
<1>7. ASSUME NEW i \in DOMAIN slides, NEW some \in BOOLEAN, EditNotes(i, some)
      PROVE  StageInd' /\ UNCHANGED <<tabs, tab, cell, charts>>
  <2> DEFINE x == [slides[i] EXCEPT !.notes = some]
  <2>1. slides' = [slides EXCEPT ![i] = x] /\ slide' = i /\ Form /\ UNCHANGED <<tabs, tab, cell, charts, mode>>
    BY <1>7 DEF EditNotes, InSlide
  <2> HIDE DEF x
  <2>2. i \in 1..Len(slides) /\ slide' \in Nat \ {0}
    BY <1>1, <2>1
  <2>3. IsSeq(slides')
    BY <1>1, <2>1, <2>2, SeqReplaced
  <2> QED BY <2>1, <2>2, <2>3, SlidesEdited
<1> QED BY <1>2, <1>3, <1>4, <1>5, <1>6, <1>7, ShapeStepsKeep DEF Decks

LEMMA FormsAndDocsKeep ==
  ASSUME Forms \/ Docs
  PROVE  UNCHANGED <<kind, tabs, tab, cell, charts, slides, slide, mode>>
<1>1. CASE Forms
  BY <1>1 DEF Forms, AddField, EditField, RemoveField, Edit, view
<1>2. CASE Docs
  <2>1. CASE AddBlock \/ AddPicture
    BY <2>1 DEF AddBlock, AddPicture, Edit, view
  <2>2. ASSUME NEW i \in DOMAIN blocks,
               \/ RemoveBlock(i)
               \/ \E k \in BlockKind : SetBlockKind(i, k)
               \/ \E n \in 0..MaxText : TypeText(i, n)
               \/ \E from, to \in 0..MaxText :
                    AddLink(i, from, to) \/ \E mark \in Mark \ {"link"} : ToggleMark(i, from, to, mark)
        PROVE  UNCHANGED <<kind, tabs, tab, cell, charts, slides, slide, mode>>
    BY <2>2 DEF RemoveBlock, SetBlockKind, TypeText, AddLink, ToggleMark, InDocs, Rewrite, Edit, view
  <2>3. ASSUME NEW i \in DOMAIN blocks,
               \/ \E j \in DOMAIN blocks[i].runs : DropRun(i, j)
               \/ \E n \in 0..MaxEdits + 1 : EditItems(i, n)
               \/ AddTableRow(i) \/ AddTableColumn(i)
               \/ \E r \in DOMAIN blocks[i].rows : TypeInTable(i, r) \/ RemoveTableRow(i, r)
        PROVE  UNCHANGED <<kind, tabs, tab, cell, charts, slides, slide, mode>>
    BY <2>3 DEF DropRun, EditItems, AddTableRow, AddTableColumn, TypeInTable, RemoveTableRow, InDocs,
                Rewrite, Edit, view
  <2> QED BY <1>2, <2>1, <2>2, <2>3 DEF Docs
<1> QED BY <1>1, <1>2

LEMMA SheetsLeaveStage ==
  ASSUME Sheets
  PROVE  UNCHANGED <<kind, slides, slide, mode>>
BY DEF Sheets, AddTab, RemoveTab, AddName, AddChart, SelectTab, RenameTab, TypeCell, SetStyle, RemoveName,
       RemoveChart, InSheets, OnTab, Edit, payload, view

LEMMA SurfaceSteps ==
  ASSUME SheetInd, StageInd, [SurfaceNext]_surfaceVars
  PROVE  SheetInd' /\ StageInd' /\ TabsKept
<1>1. CASE UNCHANGED <<kind, tabs, tab, cell, charts, slides, slide, mode>>
  BY <1>1, TabsRest DEF SheetInd, StageInd, StageHasSlide
<1>2. CASE Forms \/ Docs
  BY <1>1, <1>2, FormsAndDocsKeep
<1>3. CASE Sheets
  BY <1>3, SheetsKeep, SheetsLeaveStage DEF StageInd, StageHasSlide
<1>4. CASE Decks
  BY <1>4, DecksKeep, TabsRest DEF SheetInd
<1>5. ASSUME NEW m \in {"preview", "structured"}, ShowSurface(m)
      PROVE  SheetInd' /\ StageInd' /\ TabsKept
  <2>1. /\ UNCHANGED <<kind, tabs, tab, cell, charts, slides>> /\ mode' = m
        /\ slide' = IF m = "preview" /\ kind = "slides" THEN OnStage(slide) ELSE slide
    BY <1>5 DEF ShowSurface, Edit, payload
  <2>2. OnStage(slide) \in Nat \ {0} /\ (slides # <<>> => OnStage(slide) \in DOMAIN slides)
    BY OnStageOK DEF StageInd
  <2>3. StageInd'
    BY <2>1, <2>2 DEF StageInd, StageHasSlide
  <2> QED BY <2>1, <2>3, TabsRest DEF SheetInd
<1>6. CASE UNCHANGED surfaceVars
  <2>1. UNCHANGED <<kind, tabs, tab, cell, charts, slides, slide, mode>>
    BY <1>6 DEF surfaceVars, payload, view
  <2> QED BY <2>1, <1>1
<1> QED BY <1>2, <1>3, <1>4, <1>5, <1>6 DEF SurfaceNext

LEMMA SurfaceBegins ==
  ASSUME SurfaceInit
  PROVE  SheetInd /\ StageInd
<1>1. <<>> \in Seq({}) /\ Len(<<>>) = 0
  BY EmptySeq
<1>2. IsSeq(charts) /\ Distinct(charts) /\ IsSeq(slides) /\ slides = <<>>
  BY <1>1 DEF SurfaceInit, IsSeq, Distinct
<1>3. StageInd
  BY <1>2 DEF StageInd, StageHasSlide, SurfaceInit
<1>4. (CHOOSE p \in Place : TRUE) \in Place
  BY EditorsAssumption
<1> DEFINE p == CHOOSE q \in Place : TRUE
           used == Put(NoCells, p, Value)
<1>5. NoCells \in CellMaps /\ NoEmpty(NoCells)
  <2>1. DOMAIN NoCells = {} /\ NoCells \in [{} -> Cell]
    BY DEF NoCells
  <2> QED BY <2>1, MapShape DEF NoEmpty
<1>6. used \in CellMaps /\ NoEmpty(used)
  <2>1. Value \in Cell /\ Value.content = "value" /\ Value.style = {}
    BY DEF Value, Cell
  <2>2. StyleAt(NoCells, p) = {}
    BY DEF StyleAt, NoCells
  <2> HIDE DEF p
  <2> QED BY <2>1, <2>2, <1>4, <1>5, PutOK DEF p
<1>7. TabsOK(tabs)
  <2>1. ASSUME NEW id \in Nat
        PROVE  EmptyTab(id) \in Tab /\ EmptyTab(id).id = id /\ EmptyTab(id).cells = NoCells
    <3>1. EmptyTab(id) = [id |-> id, title |-> id, cells |-> NoCells]
      BY DEF EmptyTab
    <3> QED BY <3>1, <1>5, TabTyped
  <2> DEFINE t == [EmptyTab(3) EXCEPT !.cells = used]
  <2>2. t \in Tab /\ t.id = 3 /\ t.cells = used
    <3>1. EmptyTab(3) \in Tab /\ EmptyTab(3).id = 3
      BY <2>1
    <3> HIDE DEF used
    <3> QED BY <3>1, <1>6 DEF Tab, CellMaps
  <2>3. tabs \in {<<>>, <<EmptyTab(1)>>, <<EmptyTab(2), t>>}
    BY DEF SurfaceInit
  <2> HIDE DEF t, used
  <2>4. CASE tabs = <<>>
    BY <2>4, <1>1 DEF TabsOK, Distinct
  <2>5. CASE tabs = <<EmptyTab(1)>>
    <3> DEFINE e == EmptyTab(1)
    <3>1. e \in Tab /\ e.id = 1 /\ NoEmpty(e.cells)
      BY <2>1, <1>5
    <3>2. tabs = <<e>>
      BY <2>5
    <3> HIDE DEF e
    <3> QED BY <3>1, <3>2 DEF TabsOK, Distinct
  <2>6. CASE tabs = <<EmptyTab(2), t>>
    <3> DEFINE e == EmptyTab(2)
    <3>1. e \in Tab /\ e.id = 2 /\ NoEmpty(e.cells)
      BY <2>1, <1>5
    <3>2. tabs = <<e, t>>
      BY <2>6
    <3> HIDE DEF e
    <3>3. tabs \in Seq(Tab) /\ Len(tabs) = 2 /\ tabs[1] = e /\ tabs[2] = t
      BY <3>1, <3>2, <2>2
    <3>4. \A i \in 1..2 : i = 1 \/ i = 2
      OBVIOUS
    <3> QED BY <3>1, <3>3, <3>4, <2>2, <1>6 DEF TabsOK, Distinct
  <2> QED BY <2>3, <2>4, <2>5, <2>6
<1>8. cell = Absent /\ (tab # Absent => tabs # <<>> /\ tab = tabs[1].id)
  BY DEF SurfaceInit
<1>9. tab # Absent => \E i \in 1..Len(tabs) : tabs[i].id = tab
  <2>1. IsSeq(tabs)
    BY <1>7, TabsShape
  <2>2. tabs # <<>> => 1 \in 1..Len(tabs)
    BY <2>1, SeqShape
  <2> QED BY <2>2, <1>8
<1> QED BY <1>2, <1>3, <1>7, <1>8, <1>9 DEF SheetInd

(***************************************************************************)
(* The theorems about what is typed.                                       *)
(***************************************************************************)

PartsInd == EditorInd /\ SheetInd /\ StageInd

LEMMA PartsKeep ==
  /\ PartsInit => PartsInd
  /\ PartsInd /\ [PartsNext]_partVars => PartsInd'
<1>1. PartsInit => PartsInd
  BY EditorBegins, SurfaceBegins DEF PartsInit, PartsInd
<1>2. [PartsNext]_partVars => [SurfaceNext]_surfaceVars
  BY DEF PartsNext, partVars, Editor, Browser, Panels, Surfaces
<1>3. PartsInd /\ [PartsNext]_partVars => PartsInd'
  BY <1>2, PartsStep, SurfaceSteps DEF PartsInd
<1> QED BY <1>1, <1>3

LEMMA PartsAlways == PartsSpec => []PartsInd
BY PartsKeep, PTL DEF PartsSpec

\* What was typed survives, whatever documents, cells and styles there are: the pane
\* that renderDrive builds anew and the refusal of a save leave the open editor's work
\* alone, another tab of a workbook is never touched, and a cell that is given a
\* formatting keeps its value, one that is given a value its formatting.
THEOREM TypingIsKept == PartsSpec => EditsKept
<1> DEFINE Kept1 == Redrawn => (Work(editor).dirty => Work(editor').dirty)
           Kept2 == \A i \in DOMAIN tabs : tabs[i].id # tab => tabs[i] \in {tabs'[j] : j \in DOMAIN tabs'}
           Kept3 == \A i \in DOMAIN tabs, j \in DOMAIN tabs' : tabs[i].id = tabs'[j].id =>
                      \A p \in Place :
                        LET old == tabs[i].cells
                            new == tabs'[j].cells
                            content(c) == IF p \in DOMAIN c THEN c[p].content ELSE "none"
                        IN content(old) = content(new) \/ StyleAt(old, p) = StyleAt(new, p)
<1>1. PartsInd /\ [PartsNext]_partVars => [Kept1]_vars
  <2>1. [PartsNext]_partVars => [Next]_vars
    BY DEF PartsNext, partVars, Editor, Browser, Panels, Surfaces, editing
  <2> QED BY <2>1, StepKeepsWork DEF PartsInd
<1>2. PartsInd /\ [PartsNext]_partVars => [Kept2]_surfaceVars /\ [Kept3]_surfaceVars
  <2>1. [PartsNext]_partVars => [SurfaceNext]_surfaceVars
    BY DEF PartsNext, partVars, Editor, Browser, Panels, Surfaces
  <2>2. TabsKept => Kept2 /\ Kept3
    BY DEF TabsKept, HalfKept, ContentAt
  <2> HIDE DEF Kept2, Kept3
  <2> QED BY <2>1, <2>2, SurfaceSteps DEF PartsInd
<1>3. PartsSpec => [][Kept1]_vars /\ [][Kept2]_surfaceVars /\ [][Kept3]_surfaceVars
  <2> HIDE DEF Kept1, Kept2, Kept3
  <2> QED BY <1>1, <1>2, PartsAlways, PTL DEF PartsSpec
<1>4. [][Kept1]_vars => RedrawKeepsEdits
  BY PTL DEF RedrawKeepsEdits
<1>5. [][Kept2]_surfaceVars => OtherTabsKept
  BY PTL DEF OtherTabsKept
<1>6. [][Kept3]_surfaceVars => ContentOrStyle
  BY PTL DEF ContentOrStyle
<1> HIDE DEF Kept1, Kept2, Kept3
<1> QED BY <1>3, <1>4, <1>5, <1>6, PTL DEF EditsKept

(***************************************************************************)
(* The panels under a document.                                            *)
(***************************************************************************)

ProposalT == [n : Nat, before : Nat, replaced : Nat, status : {"open", "accepted", "rejected"}]
AsideT == [loaded : {TRUE}, thread : {"none", "open", "resolved"}, replies : Nat, text : Nat,
           proposals : SUBSET ProposalT, links : SUBSET Nat, grant : BOOLEAN, answers : Nat]
VerbsOf(p) ==
  CASE p = "comments" -> {"comment", "reply", "resolve", "delete"}
    [] p = "suggestions" -> {"suggest", "accept", "reject"}
    [] p = "sharing" -> {"grant", "revoke", "link", "revoke-link", "deliver"}
    [] p = "answers" -> {"answer"}
    [] OTHER -> {}
KindsOf(p) ==
  CASE p = "pages" -> {"page"}
    [] p = "answers" -> {"read", "form", "post", "drive"}
    [] OTHER -> {"read", "post", "drive"}
PostT == [n : Nat, kind : {"read", "form", "post", "drive", "page"},
          verb : {"none", "workspace"} \cup UNION {VerbsOf(p) : p \in Panel},
          arg : Nat, paper : Paper, built : Nat, turn : Nat, ok : BOOLEAN,
          body : AsideT \cup {NotYet}]
SideT == [Paper -> AsideT]
ViewT == [index : 0..LastPage, doc : {NoPage} \cup 0..LastPage, loading : BOOLEAN, failed : BOOLEAN]
FigureT == [page : {NoPage} \cup 0..LastPage, prev : BOOLEAN, next : BOOLEAN]

\* A request is of the panel followed; one of the panel on the page is about the
\* document shown; one that was served carries what the server had.
RequestIn(r, p, d, b) ==
  /\ r \in PostT /\ r.kind \in KindsOf(p) /\ r.built <= b
  /\ r.built = b => r.paper = d
  /\ r.kind = "post" <=> r.verb \notin {"none", "workspace"}
  /\ r.kind = "post" => r.verb \in VerbsOf(p)
  /\ Served(r) => r.body \in AsideT
  /\ r.kind = "post" /\ r.ok => Served(r)
  /\ Served(r) /\ r.kind = "post" /\ p = "sharing" => r.ok
RequestsOK(ps, p, d, b) == IsFiniteSet(ps) /\ \A r \in ps : RequestIn(r, p, d, b)

\* One answer, or one delivery, at a time for each panel: its button is off meanwhile,
\* and as long as the questions of the form have not come.
Sending(r) == r.kind = "post" /\ r.verb \in {"answer", "deliver"}
SendOK(ps, on, b) ==
  /\ \A r, q \in ps : Sending(r) /\ Sending(q) /\ r.built = q.built => r = q
  /\ \A r, q \in ps : r.kind = "form" /\ q.kind = "form" /\ r.built = q.built => r = q
  /\ \A r \in ps : Sending(r) /\ r.built = b => ~on
  /\ \A r \in ps : r.kind = "form" /\ r.built = b => ~on /\ \A q \in ps : Sending(q) => q.built # b

\* One request for a page while pageState says so; the first asks once.
PagesOK(ps, v, asks) ==
  /\ v \in [Paper -> ViewT] /\ asks \in [Paper -> Int]
  /\ \A d \in Paper : asks[d] <= 1 /\ (Unseen(v[d]) => asks[d] <= 0)
  /\ \A r, q \in ps : r.kind = "page" /\ q.kind = "page" /\ r.paper = q.paper => r = q
  /\ \A r \in ps : r.kind = "page" => r.arg \in 0..LastPage /\ v[r.paper].loading
  /\ \A d \in Paper : v[d].loading =>
       v[d].doc = NoPage /\ \E r \in ps : r.kind = "page" /\ r.paper = d

\* Unless a page was turned, or the pane built anew, while one was coming.
TurnsOK(ps, v, f, d, b) ==
  /\ \A r \in ps : r.kind = "page" =>
       r.arg = v[r.paper].index /\ (r.paper = d => r.built = b)
  /\ \A e \in Paper : v[e].doc # NoPage /\ ~v[e].failed => v[e].doc = v[e].index
  /\ b > 0 => f.page = v[d].index \/ v[d].failed \/ v[d].loading

\* Whoever accepts or declines a suggestion has seen it, and a suggestion stays.
Proposed(m, side, d) == \E p \in side[d].proposals : p.n = m
SeenIn(s, side, d) == s.loaded => \A p \in s.proposals : Proposed(p.n, side, d)
ProposalsOK(ps, side, seen, d) ==
  /\ SeenIn(seen, side, d)
  /\ \A r \in ps : SeenIn(r.body, side, r.paper)
  /\ \A r \in ps : r.verb \in {"accept", "reject"} /\ r.kind = "post" => Proposed(r.arg, side, r.paper)
  /\ \A e \in Paper : \A p \in side[e].proposals : p.status = "accepted" => p.replaced = p.before

\* A link that is known belongs to one document, and no request is still to make it.
Making(r) == r.kind = "post" /\ r.verb = "link" /\ ~Served(r)
LinkOf(m, ps, side, d, count) ==
  /\ m \in 1..count
  /\ \A e \in Paper : m \in side[e].links => e = d
  /\ \A r \in ps : Making(r) => r.arg # m
KnownIn(s, ps, side, d, count) == s.loaded => \A m \in s.links : LinkOf(m, ps, side, d, count)
LinksOK(ps, side, seen, d, keys, given, count) ==
  /\ count \in Nat /\ keys \subseteq 1..count /\ given \subseteq 1..count
  /\ KnownIn(seen, ps, side, d, count)
  /\ \A r \in ps : KnownIn(r.body, ps, side, r.paper, count)
  /\ \A e \in Paper : KnownIn(side[e], ps, side, e, count)
  /\ \A r \in ps : r.kind = "post" /\ r.verb = "link" => r.arg \in 1..count
  /\ \A r, q \in ps : r.kind = "post" /\ r.verb = "link" /\ q.kind = "post" /\ q.verb = "link"
                      /\ r.arg = q.arg => r = q
  /\ \A r \in ps : Making(r) => r.arg \notin given
  /\ \A r \in ps : r.kind = "post" /\ r.verb = "revoke-link" =>
       /\ LinkOf(r.arg, ps, side, r.paper, count)
       /\ Served(r) => r.arg \notin side[r.paper].links
  /\ \A e \in Paper : side[e].links \cap given \subseteq keys

\* What carries the content of the document to the panel, and what will ask for it.
Carries(r, p, b) ==
  /\ r.built = b /\ Served(r)
  /\ r.kind = "read" \/ (p = "sharing" /\ r.kind = "post" /\ r.verb # "deliver")
Awaits(r, p, d, b) ==
  \/ r.built = b /\ r.kind = "read" /\ ~Served(r)
  \/ r.kind = "post" /\ Served(r) /\ r.ok /\ r.paper = d /\ ~(p = "sharing" /\ r.built = b)
\* Answers to one panel have different turns; when nothing is awaited the last of them,
\* or else the panel, has what the server has.
Latter(r, q, b) == r.built = b /\ q.built = b /\ Served(r) /\ Served(q) /\ r.turn = q.turn => r = q
SettleOK(ps, p, side, seen, d, b) ==
  b > 0 /\ (\A r \in ps : ~Awaits(r, p, d, b)) =>
    /\ (\A r \in ps : ~Carries(r, p, b)) => seen = side[d]
    /\ \A r \in ps : Carries(r, p, b) /\ (\A q \in ps : Carries(q, p, b) => q.turn <= r.turn)
         => r.body = side[d]

PanelInd ==
  /\ panel \in Panel /\ opened \in Paper /\ built \in Nat
  /\ panelActs \in 0..MaxPanelActs /\ paper \in SideT /\ figure \in FigureT
  /\ marked \in BOOLEAN /\ sendOn \in BOOLEAN /\ shownList \in AsideT \cup {NotYet}
  /\ RequestsOK(posted, panel, opened, built)
  /\ SendOK(posted, sendOn, built)
  /\ PagesOK(posted, pageView, pagesAsked)
  /\ panel = "pages" /\ slips \subseteq {"strayed"} => TurnsOK(posted, pageView, figure, opened, built)
  /\ ProposalsOK(posted, paper, shownList, opened)
  /\ LinksOK(posted, paper, shownList, opened, linkKeys, keysGiven, panelActs)
  /\ \A r, q \in posted : Latter(r, q, built)
  /\ panel # "pages" /\ slips \subseteq {"strayed"} =>
       SettleOK(posted, panel, paper, shownList, opened, built)
  /\ marked => panel = "comments" /\ ("strayed" \in slips \/ shownList.thread = "open")

---------------------------------------------------------------------------
(* What the server has beside a document.                                  *)

LEMMA PanelConsts ==
  /\ LastPage \in Nat /\ 0 < LastPage /\ MaxPanelActs \in Nat
  /\ NoPage \notin Nat /\ NoPage \in Int
BY PanelAssumption DEF NoPage

\* What a change o of what is beside a document, asked for by verb of m, may do: it
\* keeps the suggestions it finds, accepts those whose text is there, and concerns
\* links only when it makes one or takes one back.
Change(s, verb, m, o) ==
  /\ o.ok \in BOOLEAN /\ o.to \in AsideT
  /\ \A q \in s.proposals : \E w \in o.to.proposals : w.n = q.n
  /\ o.ok => \A w \in o.to.proposals :
       w.status = "accepted" => w \in s.proposals \/ w.replaced = w.before
  /\ verb = "link" => o.to.links = s.links \cup {m}
  /\ verb = "revoke-link" => o.to.links = s.links \ {m}
  /\ verb \notin {"link", "revoke-link"} => o.to.links = s.links
  /\ verb \in {"grant", "revoke", "link", "revoke-link", "deliver", "answer"} => o.ok
  /\ verb = "deliver" => o.to = s

LEMMA CommentedOK ==
  ASSUME NEW s \in AsideT, NEW verb \in {"comment", "reply", "resolve", "delete"}, NEW wanted
  PROVE  Change(s, verb, wanted, Commented(s, verb, wanted))
<1> DEFINE o == Commented(s, verb, wanted)
<1>1. o.ok \in BOOLEAN /\ o.to \in AsideT /\ o.to.proposals = s.proposals /\ o.to.links = s.links
  <2>1. CASE verb = "comment"
    <3>1. [s EXCEPT !.thread = "open"] \in AsideT
      BY DEF AsideT
    <3> QED BY <2>1, <3>1 DEF Commented, AsideT
  <2>2. CASE verb = "reply"
    <3>1. s.replies + 1 \in Nat
      BY DEF AsideT
    <3>2. /\ o.ok = (s.thread = "open")
          /\ o.to = [s EXCEPT !.replies = s.replies + 1]
      BY <2>2 DEF Commented
    <3>3. [s EXCEPT !.replies = s.replies + 1] \in AsideT
      BY <3>1 DEF AsideT
    <3> HIDE DEF o
    <3> QED BY <3>2, <3>3 DEF AsideT
  <2>3. CASE verb = "resolve"
    <3> DEFINE w == IF wanted = 1 THEN "resolved" ELSE "open"
    <3>1. w \in {"resolved", "open"}
      OBVIOUS
    <3>2. /\ o.ok = (s.thread # "none")
          /\ o.to = [s EXCEPT !.thread = w]
      BY <2>3 DEF Commented
    <3> HIDE DEF w, o
    <3>3. [s EXCEPT !.thread = w] \in AsideT
      BY <3>1 DEF AsideT
    <3> QED BY <3>2, <3>3 DEF AsideT
  <2>4. CASE verb = "delete"
    <3>1. [s EXCEPT !.thread = "none", !.replies = 0] \in AsideT
      BY DEF AsideT
    <3> QED BY <2>4, <3>1 DEF Commented, AsideT
  <2> QED BY <2>1, <2>2, <2>3, <2>4
<1> HIDE DEF o
<1>2. Change(s, verb, wanted, o)
  BY <1>1 DEF Change
<1> QED BY <1>2 DEF o

LEMMA SettledOK ==
  ASSUME NEW s \in AsideT, NEW p \in s.proposals, NEW status \in {"accepted", "rejected"}
  PROVE  /\ Settled(s, p, status) \in AsideT
         /\ Settled(s, p, status).links = s.links
         /\ \A q \in s.proposals : \E w \in Settled(s, p, status).proposals : w.n = q.n
         /\ \A w \in Settled(s, p, status).proposals :
              \/ w \in s.proposals
              \/ w.status = status /\ w.before = p.before /\ w.replaced = s.text
<1> DEFINE w0 == [p EXCEPT !.status = status, !.replaced = s.text]
           all == (s.proposals \ {p}) \cup {w0}
<1>1. p \in ProposalT /\ s.text \in Nat
  BY DEF AsideT
<1>2. w0 \in ProposalT /\ w0.n = p.n /\ w0.status = status /\ w0.before = p.before /\ w0.replaced = s.text
  BY <1>1 DEF ProposalT
<1> HIDE DEF w0
<1>3. all \subseteq ProposalT
  BY <1>2 DEF AsideT
<1>4. Settled(s, p, status) = [s EXCEPT !.proposals = all]
  BY DEF Settled, w0
<1>5. Settled(s, p, status) \in AsideT /\ Settled(s, p, status).proposals = all
      /\ Settled(s, p, status).links = s.links
  <2> HIDE DEF all
  <2> QED BY <1>3, <1>4 DEF AsideT
<1> QED BY <1>2, <1>5

LEMMA AcceptedOK ==
  ASSUME NEW s \in AsideT, NEW p \in s.proposals
  PROVE  /\ Accepted(s, p).ok \in BOOLEAN
         /\ Accepted(s, p).to \in AsideT
         /\ Accepted(s, p).to.links = s.links
         /\ \A q \in s.proposals : \E w \in Accepted(s, p).to.proposals : w.n = q.n
         /\ Accepted(s, p).ok => \A w \in Accepted(s, p).to.proposals :
              w \in s.proposals \/ w.replaced = w.before
<1> DEFINE to == [Settled(s, p, "accepted") EXCEPT !.text = p.n]
<1>1. /\ Settled(s, p, "accepted") \in AsideT
      /\ Settled(s, p, "accepted").links = s.links
      /\ \A q \in s.proposals : \E w \in Settled(s, p, "accepted").proposals : w.n = q.n
      /\ \A w \in Settled(s, p, "accepted").proposals :
           w \in s.proposals \/ (w.before = p.before /\ w.replaced = s.text)
  BY SettledOK
<1>2. p.n \in Nat
  BY DEF AsideT, ProposalT
<1>3. /\ to \in AsideT /\ to.links = Settled(s, p, "accepted").links
      /\ to.proposals = Settled(s, p, "accepted").proposals
  BY <1>1, <1>2 DEF AsideT
<1>4. Accepted(s, p).to = to /\ Accepted(s, p).ok = (p.status = "open" /\ p.before = s.text)
  BY DEF Accepted
<1> HIDE DEF to
<1> QED BY <1>1, <1>3, <1>4

LEMMA SuggestedOK ==
  ASSUME NEW s \in AsideT, NEW verb \in {"suggest", "accept", "reject"}, NEW m \in Nat,
         verb # "suggest" => \E p \in s.proposals : p.n = m
  PROVE  Change(s, verb, m, Suggested(s, verb, m))
<1> DEFINE o == Suggested(s, verb, m)
<1>1. CASE verb = "suggest"
  <2> DEFINE p0 == [n |-> m, before |-> s.text, replaced |-> 0, status |-> "open"]
             all == s.proposals \cup {p0}
  <2>1. p0 \in ProposalT /\ p0.status # "accepted"
    BY DEF ProposalT, AsideT
  <2> HIDE DEF p0
  <2>2. all \subseteq ProposalT
    BY <2>1 DEF AsideT
  <2>3. o.to = [s EXCEPT !.proposals = all] /\ o.ok = TRUE
    BY <1>1 DEF Suggested, p0
  <2> HIDE DEF o
  <2>4. LET to == [s EXCEPT !.proposals = all]
        IN  to \in AsideT /\ to.links = s.links /\ to.proposals = all
    <3> HIDE DEF all
    <3> QED BY <2>2 DEF AsideT
  <2>5. Change(s, verb, m, o)
    BY <1>1, <2>1, <2>3, <2>4 DEF Change
  <2> QED BY <2>5 DEF o
<1>2. CASE verb # "suggest"
  <2> DEFINE p == CHOOSE q \in s.proposals : q.n = m
  <2>1. p \in s.proposals
    BY <1>2
  <2>2. CASE verb = "accept"
    <3>1. o = Accepted(s, p)
      BY <2>2 DEF Suggested
    <3> HIDE DEF p
    <3>2. /\ Accepted(s, p).ok \in BOOLEAN
          /\ Accepted(s, p).to \in AsideT
          /\ Accepted(s, p).to.links = s.links
          /\ \A q \in s.proposals : \E w \in Accepted(s, p).to.proposals : w.n = q.n
          /\ Accepted(s, p).ok => \A w \in Accepted(s, p).to.proposals :
               w \in s.proposals \/ w.replaced = w.before
      BY <2>1, AcceptedOK
    <3> HIDE DEF o
    <3>3. Change(s, verb, m, o)
      BY <2>2, <3>1, <3>2 DEF Change
    <3> QED BY <3>3 DEF o
  <2>3. CASE verb = "reject"
    <3>1. o.to = Settled(s, p, "rejected") /\ o.ok = (p.status = "open")
      BY <2>3 DEF Suggested
    <3> HIDE DEF p
    <3>2. /\ Settled(s, p, "rejected") \in AsideT
          /\ Settled(s, p, "rejected").links = s.links
          /\ \A q \in s.proposals : \E w \in Settled(s, p, "rejected").proposals : w.n = q.n
          /\ \A w \in Settled(s, p, "rejected").proposals :
               w \in s.proposals \/ w.status = "rejected"
      BY <2>1, SettledOK
    <3> HIDE DEF o
    <3>3. Change(s, verb, m, o)
      BY <2>3, <3>1, <3>2 DEF Change
    <3> QED BY <3>3 DEF o
  <2> QED BY <1>2, <2>2, <2>3
<1> QED BY <1>1, <1>2

LEMMA SharedOK ==
  ASSUME NEW s \in AsideT, NEW verb \in {"grant", "revoke", "link", "revoke-link"}, NEW m \in Nat
  PROVE  Change(s, verb, m, Shared(s, verb, m))
<1> DEFINE o == Shared(s, verb, m)
<1>1. s.links \cup {m} \in SUBSET Nat /\ s.links \ {m} \in SUBSET Nat
  BY DEF AsideT
<1>2. /\ o.ok = TRUE /\ o.to \in AsideT /\ o.to.proposals = s.proposals
      /\ verb = "link" => o.to.links = s.links \cup {m}
      /\ verb = "revoke-link" => o.to.links = s.links \ {m}
      /\ verb \notin {"link", "revoke-link"} => o.to.links = s.links
  <2>1. CASE verb = "grant"
    BY <2>1 DEF Shared, AsideT
  <2>2. CASE verb = "revoke"
    BY <2>2 DEF Shared, AsideT
  <2>3. CASE verb = "link"
    BY <1>1, <2>3 DEF Shared, AsideT
  <2>4. CASE verb = "revoke-link"
    BY <1>1, <2>4 DEF Shared, AsideT
  <2> QED BY <2>1, <2>2, <2>3, <2>4
<1> HIDE DEF o
<1>3. verb # "deliver"
  OBVIOUS
<1>4. Change(s, verb, m, o)
  BY <1>2, <1>3 DEF Change
<1> QED BY <1>4 DEF o

LEMMA SubmittedOK ==
  ASSUME NEW s \in AsideT, NEW verb \in {"answer", "deliver"}, NEW m
  PROVE  Change(s, verb, m, Submitted(s, verb))
<1> DEFINE o == Submitted(s, verb)
<1>1. /\ o.ok = TRUE /\ o.to \in AsideT /\ o.to.proposals = s.proposals /\ o.to.links = s.links
      /\ verb # "answer" => o.to = s
  <2>1. CASE verb = "answer"
    <3>1. s.answers + 1 \in Nat
      BY DEF AsideT
    <3>2. o.to = [s EXCEPT !.answers = s.answers + 1] /\ o.ok = TRUE
      BY <2>1 DEF Submitted
    <3> HIDE DEF o
    <3> QED BY <2>1, <3>1, <3>2 DEF AsideT
  <2>2. CASE verb # "answer"
    BY <2>2 DEF Submitted
  <2> QED BY <2>1, <2>2
<1> HIDE DEF o
<1>2. Change(s, verb, m, o)
  BY <1>1 DEF Change
<1> QED BY <1>2 DEF o

LEMMA OutcomeOK ==
  ASSUME NEW s \in AsideT, NEW p \in Panel, NEW verb \in VerbsOf(p), NEW m \in Nat,
         verb \in {"accept", "reject"} => \E q \in s.proposals : q.n = m
  PROVE  Change(s, verb, m, Outcome(s, verb, m))
<1>1. CASE verb \in {"comment", "reply", "resolve", "delete"}
  <2>1. Outcome(s, verb, m) = Commented(s, verb, m)
    BY <1>1 DEF Outcome
  <2> QED BY <1>1, <2>1, CommentedOK
<1>2. CASE verb \in {"suggest", "accept", "reject"}
  <2>1. Outcome(s, verb, m) = Suggested(s, verb, m)
    BY <1>2 DEF Outcome
  <2> QED BY <1>2, <2>1, SuggestedOK
<1>3. CASE verb \in {"grant", "revoke", "link", "revoke-link"}
  <2>1. Outcome(s, verb, m) = Shared(s, verb, m)
    BY <1>3 DEF Outcome
  <2> QED BY <1>3, <2>1, SharedOK
<1>4. CASE verb \in {"answer", "deliver"}
  <2>1. Outcome(s, verb, m) = Submitted(s, verb)
    BY <1>4 DEF Outcome
  <2> QED BY <1>4, <2>1, SubmittedOK
<1>5. verb \in {"comment", "reply", "resolve", "delete", "suggest", "accept", "reject",
                "grant", "revoke", "link", "revoke-link", "answer", "deliver"}
  BY DEF VerbsOf, Panel
<1> QED BY <1>1, <1>2, <1>3, <1>4, <1>5

AtLeast(S, n) == {z \in S : z >= n}

LEMMA Largest ==
  ASSUME NEW S, \A z \in S : z \in Nat, S # {}, IsFiniteSet(S)
  PROVE  Max(S) \in S /\ \A z \in S : z <= Max(S)
<1> DEFINE F == {AtLeast(S, n) : n \in S}
<1>1. F \subseteq SUBSET S /\ F # {} /\ IsFiniteSet(S)
  BY DEF AtLeast
<1>2. (\A n \in S : AtLeast(S, n) \in F) /\ \A x \in F : \E n \in S : x = AtLeast(S, n)
  OBVIOUS
<1> HIDE DEF F
<1>3. \E x \in F : \A y \in F : y \subseteq x => y = x
  BY <1>1, Minimal
<1>4. PICK x \in F : \A y \in F : y \subseteq x => y = x
  BY <1>3
<1>5. PICK m \in S : x = AtLeast(S, m)
  BY <1>2
<1>6. ASSUME NEW k \in S, k > m
      PROVE  FALSE
  <2>1. k \in Nat /\ m \in Nat
    OBVIOUS
  <2>2. ASSUME NEW z \in S, z >= k
        PROVE  z >= m
    <3>1. z \in Nat
      OBVIOUS
    <3> QED BY <3>1, <2>1, <2>2, <1>6
  <2>3. AtLeast(S, k) \subseteq AtLeast(S, m)
    BY <2>2 DEF AtLeast
  <2>4. AtLeast(S, k) = AtLeast(S, m)
    BY <1>2, <1>4, <1>5, <2>3
  <2>5. m \in AtLeast(S, m)
    BY <2>1 DEF AtLeast
  <2>6. m >= k
    BY <2>4, <2>5 DEF AtLeast
  <2> QED BY <2>1, <2>6, <1>6
<1>7. \A z \in S : m >= z
  <2> SUFFICES ASSUME NEW z \in S PROVE m >= z
    OBVIOUS
  <2>1. z \in Nat /\ m \in Nat /\ ~(z > m)
    BY <1>6
  <2> QED BY <2>1
<1>8. Max(S) \in S /\ \A z \in S : Max(S) >= z
  BY <1>7 DEF Max
<1>9. \A z \in S : z <= Max(S)
  <2> SUFFICES ASSUME NEW z \in S PROVE z <= Max(S)
    OBVIOUS
  <2>1. z \in Nat /\ Max(S) \in Nat /\ Max(S) >= z
    BY <1>8
  <2> QED BY <2>1
<1> QED BY <1>8, <1>9

---------------------------------------------------------------------------
(* What the server does with a request.                                    *)

LEMMA TurnIsLatest ==
  ASSUME IsFiniteSet(posted), posted \subseteq PostT, NEW r \in posted
  PROVE  /\ NextTurn(r) \in Nat /\ NextTurn(r) > 0
         /\ \A q \in posted : q.built = r.built => q.turn < NextTurn(r)
<1> DEFINE same == {p \in posted : p.built = r.built}
           given == {q.turn : q \in same}
           S == {0} \cup given
<1>1. IsFiniteSet(same)
  BY FS_Subset
<1>2. IsFiniteSet(given)
  <2> HIDE DEF same
  <2> DEFINE f == [q \in same |-> q.turn]
  <2>1. f \in Surjection(same, given)
    BY DEF Surjection
  <2> HIDE DEF f, given
  <2> QED BY <1>1, <2>1, FS_Surjection
<1>3. IsFiniteSet(S)
  <2> HIDE DEF given
  <2>1. IsFiniteSet({0})
    BY FS_Singleton
  <2> QED BY <1>2, <2>1, FS_Union
<1>4. \A z \in S : z \in Nat
  BY DEF PostT
<1>5. Max(S) \in S /\ \A z \in S : z <= Max(S)
  <2> HIDE DEF S
  <2>1. 0 \in S
    BY DEF S
  <2> QED BY <1>3, <1>4, <2>1, Largest
<1>6. NextTurn(r) = 1 + Max(S)
  BY DEF NextTurn
<1>7. Max(S) \in Nat
  BY <1>4, <1>5
<1>8. \A q \in posted : q.built = r.built => q.turn \in S
  OBVIOUS
<1>9. \A q \in posted : q.turn \in Nat
  BY DEF PostT
<1> HIDE DEF S
<1> QED BY <1>5, <1>6, <1>7, <1>8, <1>9

\* The request r is answered: n is it with its answer, which tells of a document
\* after which has become paper[r.paper].
Answering(r, n, after) ==
  /\ n \in PostT /\ n.kind = r.kind /\ n.verb = r.verb /\ n.arg = r.arg
  /\ n.paper = r.paper /\ n.built = r.built
  /\ ~Served(r) /\ n.turn > 0 /\ n.body = after /\ after \in AsideT
  /\ posted' = (posted \ {r}) \cup {n} /\ paper' = [paper EXCEPT ![r.paper] = after]
  /\ \A q \in posted : q.built = r.built => q.turn < n.turn
  /\ \A q \in paper[r.paper].proposals : \E w \in after.proposals : w.n = q.n
  /\ \A w \in after.proposals :
       w.status = "accepted" => w \in paper[r.paper].proposals \/ w.replaced = w.before
  /\ r.kind = "post" /\ r.verb = "link" /\ n.ok => after.links = paper[r.paper].links \cup {r.arg}
  /\ r.kind = "post" /\ r.verb = "revoke-link" /\ n.ok => after.links = paper[r.paper].links \ {r.arg}
  /\ ~(r.kind = "post" /\ r.verb \in {"link", "revoke-link"}) => after.links = paper[r.paper].links
  /\ panel = "sharing" => n.ok
  /\ r.kind # "post" \/ ~n.ok \/ r.verb = "deliver" => after = paper[r.paper]

LEMMA ServeAnswers ==
  ASSUME PanelInd, NEW r \in posted, Serve(r)
  PROVE  \E n, after : Answering(r, n, after)
<1> DEFINE s == paper[r.paper]
           change == Outcome(s, r.verb, r.arg)
           fine == r.kind # "post" \/ change.ok
           after == IF r.kind = "post" /\ fine THEN change.to ELSE s
           t == NextTurn(r)
           n == [r EXCEPT !.turn = t, !.ok = fine, !.body = after]
<1>1. /\ r \in PostT /\ paper \in [Paper -> AsideT] /\ panel \in Panel
      /\ r.kind = "post" => r.verb \in VerbsOf(panel)
      /\ r.kind = "post" /\ r.verb \in {"accept", "reject"} => \E q \in s.proposals : q.n = r.arg
  BY DEF PanelInd, RequestsOK, RequestIn, ProposalsOK, Proposed, SideT
<1>2. s \in AsideT /\ r.arg \in Nat
  BY <1>1 DEF PostT
<1>3. r.kind = "post" => Change(s, r.verb, r.arg, change)
  <2> HIDE DEF s
  <2> SUFFICES ASSUME r.kind = "post" PROVE Change(s, r.verb, r.arg, change)
    OBVIOUS
  <2>1. r.verb \in VerbsOf(panel) /\ (r.verb \in {"accept", "reject"} => \E q \in s.proposals : q.n = r.arg)
        /\ panel \in Panel
    BY <1>1
  <2> QED BY <1>2, <2>1, OutcomeOK
<1>4. /\ paper' = [paper EXCEPT ![r.paper] = after] /\ posted' = (posted \ {r}) \cup {n} /\ ~Served(r)
  BY DEF Serve
<1>5. /\ t \in Nat /\ t > 0 /\ \A q \in posted : q.built = r.built => q.turn < t
  <2>1. IsFiniteSet(posted) /\ posted \subseteq PostT
    BY DEF PanelInd, RequestsOK, RequestIn
  <2> QED BY <2>1, TurnIsLatest
<1> HIDE DEF s, change, t
<1>6. fine \in BOOLEAN /\ after \in AsideT /\ (r.kind # "post" => fine)
  BY <1>2, <1>3 DEF Change
<1>7. /\ \A q \in s.proposals : \E w \in after.proposals : w.n = q.n
      /\ \A w \in after.proposals : w.status = "accepted" => w \in s.proposals \/ w.replaced = w.before
      /\ r.kind = "post" /\ r.verb = "link" /\ fine => after.links = s.links \cup {r.arg}
      /\ r.kind = "post" /\ r.verb = "revoke-link" /\ fine => after.links = s.links \ {r.arg}
      /\ ~(r.kind = "post" /\ r.verb \in {"link", "revoke-link"}) => after.links = s.links
      /\ panel = "sharing" => fine
      /\ r.kind # "post" \/ ~fine \/ r.verb = "deliver" => after = s
  <2>1. panel = "sharing" /\ r.kind = "post" =>
          r.verb \in {"grant", "revoke", "link", "revoke-link", "deliver"}
    BY <1>1 DEF VerbsOf
  <2>2. CASE r.kind = "post"
    BY <1>3, <2>1, <2>2 DEF Change
  <2>3. CASE r.kind # "post"
    BY <2>3
  <2> QED BY <2>2, <2>3
<1> HIDE DEF fine, after
<1>8. /\ n \in PostT /\ n.kind = r.kind /\ n.verb = r.verb /\ n.arg = r.arg
      /\ n.paper = r.paper /\ n.built = r.built /\ n.turn = t /\ n.body = after /\ (n.ok <=> fine)
  BY <1>1, <1>5, <1>6 DEF PostT
<1> HIDE DEF n
<1>9. Answering(r, n, after)
  BY <1>4, <1>5, <1>6, <1>7, <1>8 DEF Answering, s
<1> QED BY <1>9

---------------------------------------------------------------------------
(* What the parts of the invariant lose when requests come and go.         *)

\* Requests are gone, or are reads that know nothing new.
FromOld(qs, ps) ==
  \A n \in qs : n \in ps \/ /\ n.kind # "post" /\ n.turn = 0
                            /\ \/ n.body = NotYet
                               \/ \E r \in ps : n.body = r.body /\ n.paper = r.paper

\* What a panel shows is what it showed, nothing, or what a request carried.
ShownFrom(seen2, d2, seen, d, ps) ==
  seen2.loaded => \/ seen2 = seen /\ d2 = d
                  \/ \E r \in ps : seen2 = r.body /\ d2 = r.paper

LEMMA NotYetLoaded == ~NotYet.loaded
BY DEF NotYet

LEMMA SendLess ==
  ASSUME NEW ps, NEW qs, NEW on, NEW b, SendOK(ps, on, b),
         \A n \in qs : n \in ps \/ n.kind \notin {"post", "form"}
  PROVE  SendOK(qs, on, b)
BY DEF SendOK, Sending

LEMMA ProposalsLess ==
  ASSUME NEW ps, NEW qs, NEW side, NEW seen, NEW seen2, NEW d, NEW d2,
         ProposalsOK(ps, side, seen, d), FromOld(qs, ps), ShownFrom(seen2, d2, seen, d, ps)
  PROVE  ProposalsOK(qs, side, seen2, d2)
<1>1. SeenIn(seen2, side, d2)
  BY DEF ProposalsOK, SeenIn, ShownFrom
<1>2. \A r \in qs : SeenIn(r.body, side, r.paper)
  BY NotYetLoaded DEF ProposalsOK, SeenIn, FromOld
<1> QED BY <1>1, <1>2 DEF ProposalsOK, FromOld

LEMMA LinkStays ==
  ASSUME NEW ps, NEW qs, NEW side, NEW d, NEW m, NEW count \in Nat, NEW count2 \in Nat, count <= count2,
         LinkOf(m, ps, side, d, count), FromOld(qs, ps)
  PROVE  LinkOf(m, qs, side, d, count2)
<1>1. m \in 1..count2
  BY DEF LinkOf
<1>2. \A r \in qs : Making(r) => r \in ps
  BY DEF Making, FromOld
<1> QED BY <1>1, <1>2 DEF LinkOf

LEMMA LinksLess ==
  ASSUME NEW ps, NEW qs, NEW side, NEW seen, NEW seen2, NEW d, NEW d2, NEW keys, NEW given,
         NEW count, NEW count2 \in Nat, count <= count2,
         LinksOK(ps, side, seen, d, keys, given, count), FromOld(qs, ps),
         ShownFrom(seen2, d2, seen, d, ps)
  PROVE  LinksOK(qs, side, seen2, d2, keys, given, count2)
<1>0. count \in Nat
  BY DEF LinksOK
<1>1. \A s, e : KnownIn(s, ps, side, e, count) => KnownIn(s, qs, side, e, count2)
  <2> SUFFICES ASSUME NEW s, NEW e, KnownIn(s, ps, side, e, count), s.loaded, NEW m \in s.links
               PROVE  LinkOf(m, qs, side, e, count2)
    BY DEF KnownIn
  <2>1. LinkOf(m, ps, side, e, count)
    BY DEF KnownIn
  <2> QED BY <1>0, <2>1, LinkStays
<1>2. KnownIn(seen2, qs, side, d2, count2)
  <2>1. CASE ~seen2.loaded
    BY <2>1 DEF KnownIn
  <2>2. CASE seen2 = seen /\ d2 = d
    BY <2>2, <1>1 DEF LinksOK
  <2>3. CASE \E r \in ps : seen2 = r.body /\ d2 = r.paper
    BY <2>3, <1>1 DEF LinksOK
  <2> QED BY <2>1, <2>2, <2>3 DEF ShownFrom
<1>3. \A r \in qs : KnownIn(r.body, qs, side, r.paper, count2)
  <2> SUFFICES ASSUME NEW r \in qs PROVE KnownIn(r.body, qs, side, r.paper, count2)
    OBVIOUS
  <2>1. CASE r.body = NotYet
    BY <2>1, NotYetLoaded DEF KnownIn
  <2>2. CASE \E q \in ps : r.body = q.body /\ r.paper = q.paper
    BY <2>2, <1>1 DEF LinksOK
  <2> QED BY <2>1, <2>2 DEF FromOld
<1>4. \A e \in Paper : KnownIn(side[e], qs, side, e, count2)
  BY <1>1 DEF LinksOK
<1>5. \A r \in qs : r.kind = "post" => r \in ps
  BY DEF FromOld
<1>6. keys \subseteq 1..count2 /\ given \subseteq 1..count2
  BY <1>0 DEF LinksOK
<1>7. \A r \in qs : r.kind = "post" /\ r.verb = "link" => r.arg \in 1..count2
  BY <1>0, <1>5 DEF LinksOK
<1>8. \A r \in qs : r.kind = "post" /\ r.verb = "revoke-link" =>
        /\ LinkOf(r.arg, qs, side, r.paper, count2)
        /\ Served(r) => r.arg \notin side[r.paper].links
  <2> SUFFICES ASSUME NEW r \in qs, r.kind = "post", r.verb = "revoke-link"
               PROVE  /\ LinkOf(r.arg, qs, side, r.paper, count2)
                      /\ Served(r) => r.arg \notin side[r.paper].links
    OBVIOUS
  <2>1. /\ LinkOf(r.arg, ps, side, r.paper, count)
        /\ Served(r) => r.arg \notin side[r.paper].links
    BY <1>5 DEF LinksOK
  <2> QED BY <1>0, <2>1, LinkStays
<1>9. /\ \A r, q \in qs : r.kind = "post" /\ r.verb = "link" /\ q.kind = "post" /\ q.verb = "link"
                      /\ r.arg = q.arg => r = q
      /\ \A r \in qs : Making(r) => r.arg \notin given
      /\ \A e \in Paper : side[e].links \cap given \subseteq keys
  BY <1>5 DEF LinksOK, Making
<1> QED BY <1>2, <1>3, <1>4, <1>6, <1>7, <1>8, <1>9 DEF LinksOK

LEMMA LatterLess ==
  ASSUME NEW ps, NEW qs, NEW b, \A r, q \in ps : Latter(r, q, b),
         \A n \in qs : n \in ps \/ n.turn = 0
  PROVE  \A r, q \in qs : Latter(r, q, b)
BY DEF Latter, Served

\* Nothing but requests that are no pages' come and go.
LEMMA PagesLess ==
  ASSUME NEW ps, NEW qs, NEW v, NEW asks, PagesOK(ps, v, asks),
         \A r \in ps : r.kind = "page" => r \in qs,
         \A r \in qs : r.kind = "page" => r \in ps
  PROVE  PagesOK(qs, v, asks)
BY DEF PagesOK

---------------------------------------------------------------------------
(* The steps, one by one.                                                  *)

LEMMA DrawEditorKeeps ==
  ASSUME PanelInd, DrawEditor
  PROVE  PanelInd'
BY DEF PanelInd, DrawEditor, pageVars, keyVars

LEMMA ActsCounted ==
  ASSUME PanelInd, Acts
  PROVE  /\ panelActs \in Nat /\ panelActs' \in Nat /\ panelActs' = panelActs + 1
         /\ panelActs' \in 0..MaxPanelActs /\ panelActs <= panelActs' /\ panelActs' \in 1..panelActs'
BY PanelConsts DEF PanelInd, Acts

LEMMA ColleagueWritesKeeps ==
  ASSUME PanelInd, ColleagueWrites
  PROVE  PanelInd'
<1> DEFINE s == paper[opened]
<1>1. s \in AsideT /\ opened \in Paper /\ paper \in SideT
  BY DEF PanelInd, SideT
<1>2. PICK to : /\ paper' = [paper EXCEPT ![opened] = to]
                /\ to \in AsideT /\ to.proposals = s.proposals /\ to.links = s.links
  <2>1. PICK c \in {Commented(s, "resolve", 0), Commented(s, "resolve", 1),
               Submitted(s, "answer"),
               [ok |-> TRUE, to |-> [s EXCEPT !.text = MaxPanelActs + panelActs]]} :
          c.ok /\ paper' = [paper EXCEPT ![opened] = c.to]
    BY DEF ColleagueWrites
  <2>2. CASE c = Commented(s, "resolve", 0) \/ c = Commented(s, "resolve", 1)
    <3> PICK w \in {"resolved", "open"} : c.to = [s EXCEPT !.thread = w]
      BY <2>2 DEF Commented
    <3>1. c.to \in AsideT /\ c.to.proposals = s.proposals /\ c.to.links = s.links
      BY <1>1 DEF AsideT
    <3> QED BY <2>1, <3>1
  <2>3. CASE c = Submitted(s, "answer")
    <3> HIDE DEF s
    <3>1. s.answers + 1 \in Nat
      BY <1>1 DEF AsideT
    <3>2. c.to = [s EXCEPT !.answers = s.answers + 1]
      <4>1. Submitted(s, "answer").to = [s EXCEPT !.answers = s.answers + 1]
        BY DEF Submitted
      <4> QED BY <2>3, <4>1
    <3>3. c.to \in AsideT /\ c.to.proposals = s.proposals /\ c.to.links = s.links
      BY <1>1, <3>1, <3>2 DEF AsideT
    <3> QED BY <2>1, <3>3 DEF s
  <2>4. CASE c = [ok |-> TRUE, to |-> [s EXCEPT !.text = MaxPanelActs + panelActs]]
    <3>1. MaxPanelActs + panelActs \in Nat
      BY PanelConsts DEF PanelInd
    <3>2. c.to = [s EXCEPT !.text = MaxPanelActs + panelActs]
      BY <2>4
    <3> HIDE DEF s
    <3>3. c.to \in AsideT /\ c.to.proposals = s.proposals /\ c.to.links = s.links
      BY <1>1, <3>1, <3>2 DEF AsideT
    <3> QED BY <2>1, <3>3 DEF s
  <2> QED BY <2>1, <2>2, <2>3, <2>4
<1>3. /\ paper' \in SideT
      /\ \A e \in Paper : paper'[e].proposals = paper[e].proposals /\ paper'[e].links = paper[e].links
      /\ \A e : e \notin Paper => paper'[e] = paper[e]
  BY <1>1, <1>2 DEF SideT
<1>4. /\ UNCHANGED <<panel, opened, built, shownList, sendOn, marked, figure, pageView, pagesAsked,
                     linkKeys, keysGiven, posted>>
      /\ slips' = slips \cup {"colleague"} /\ Acts
  BY DEF ColleagueWrites, screen, pageVars, keyVars
<1>5. panelActs' \in 0..MaxPanelActs /\ panelActs \in Nat /\ panelActs' \in Nat /\ panelActs <= panelActs'
  BY <1>4, ActsCounted
<1>6. \A r \in posted : r.paper \in Paper
  BY DEF PanelInd, RequestsOK, RequestIn, PostT
<1>7. ProposalsOK(posted, paper', shownList, opened)
  BY <1>1, <1>3, <1>6 DEF PanelInd, ProposalsOK, SeenIn, Proposed
<1>8. \A m, e, k : LinkOf(m, posted, paper, e, k) => LinkOf(m, posted, paper', e, k)
  BY <1>3 DEF LinkOf
<1>9. LinksOK(posted, paper', shownList, opened, linkKeys, keysGiven, panelActs)
  <2>1. LinksOK(posted, paper, shownList, opened, linkKeys, keysGiven, panelActs)
    BY DEF PanelInd
  <2>2. \A z, e, k : KnownIn(z, posted, paper, e, k) => KnownIn(z, posted, paper', e, k)
    BY <1>8 DEF KnownIn
  <2>3. \A e \in Paper : KnownIn(paper'[e], posted, paper', e, panelActs)
    <3> SUFFICES ASSUME NEW e \in Paper, paper'[e].loaded, NEW m \in paper'[e].links
                 PROVE  LinkOf(m, posted, paper', e, panelActs)
      BY DEF KnownIn
    <3>1. paper[e].loaded /\ m \in paper[e].links
      BY <1>3 DEF PanelInd, SideT, AsideT
    <3> QED BY <2>1, <3>1, <1>8 DEF LinksOK, KnownIn
  <2>4. \A r \in posted : r.kind = "post" /\ r.verb = "revoke-link" =>
           /\ LinkOf(r.arg, posted, paper', r.paper, panelActs)
           /\ Served(r) => r.arg \notin paper'[r.paper].links
    BY <2>1, <1>3, <1>6, <1>8 DEF LinksOK
  <2>5. \A e \in Paper : paper'[e].links \cap keysGiven \subseteq linkKeys
    BY <2>1, <1>3 DEF LinksOK
  <2> QED BY <2>1, <2>2, <2>3, <2>4, <2>5 DEF LinksOK
<1>10. LinksOK(posted, paper', shownList, opened, linkKeys, keysGiven, panelActs')
  <2>1. FromOld(posted, posted) /\ ShownFrom(shownList, opened, shownList, opened, posted)
    BY DEF FromOld, ShownFrom
  <2> QED BY <1>5, <1>9, <2>1, LinksLess
<1>11. ~(slips' \subseteq {"strayed"})
  BY <1>4
<1> QED BY <1>3, <1>4, <1>5, <1>7, <1>10, <1>11 DEF PanelInd

LEMMA ServeKeepsRequests ==
  ASSUME PanelInd, NEW r \in posted, NEW n, NEW after, Answering(r, n, after),
         UNCHANGED <<panel, opened, built, sendOn, pageView, pagesAsked, figure>>
  PROVE  /\ RequestsOK(posted', panel, opened, built)
         /\ SendOK(posted', sendOn, built)
         /\ PagesOK(posted', pageView, pagesAsked)
         /\ TurnsOK(posted, pageView, figure, opened, built) =>
              TurnsOK(posted', pageView, figure, opened, built)
         /\ \A q, w \in posted' : Latter(q, w, built)
<1>1. /\ RequestsOK(posted, panel, opened, built)
      /\ SendOK(posted, sendOn, built)
      /\ PagesOK(posted, pageView, pagesAsked)
      /\ \A q, w \in posted : Latter(q, w, built)
  BY DEF PanelInd
<1>2. /\ n \in PostT /\ n.kind = r.kind /\ n.verb = r.verb /\ n.arg = r.arg
      /\ n.paper = r.paper /\ n.built = r.built /\ n.turn > 0 /\ n.body \in AsideT
      /\ posted' = (posted \ {r}) \cup {n} /\ (panel = "sharing" => n.ok)
      /\ \A q \in posted : q.built = r.built => q.turn < n.turn
  BY DEF Answering
<1>3. RequestsOK(posted', panel, opened, built)
  <2>1. IsFiniteSet(posted')
    <3>1. IsFiniteSet(posted \ {r}) /\ IsFiniteSet({n})
      BY <1>1, FS_Subset, FS_Singleton DEF RequestsOK
    <3> QED BY <1>2, <3>1, FS_Union
  <2>2. RequestIn(n, panel, opened, built)
    BY <1>1, <1>2 DEF RequestsOK, RequestIn, Served
  <2> QED BY <1>1, <1>2, <2>1, <2>2 DEF RequestsOK
<1>4. SendOK(posted', sendOn, built)
  BY <1>1, <1>2 DEF SendOK, Sending
<1>5. PagesOK(posted', pageView, pagesAsked)
  BY <1>1, <1>2 DEF PagesOK
<1>6. TurnsOK(posted, pageView, figure, opened, built) =>
        TurnsOK(posted', pageView, figure, opened, built)
  BY <1>2 DEF TurnsOK
<1>7. \A q, w \in posted' : Latter(q, w, built)
  <2>1. \A q \in posted : q.turn \in Nat
    BY <1>1 DEF RequestsOK, RequestIn, PostT
  <2>2. n.turn \in Nat
    BY <1>2 DEF PostT
  <2>3. \A q \in posted : q.built = built /\ n.built = built => q.turn # n.turn
    BY <1>2, <2>1, <2>2
  <2> QED BY <1>1, <1>2, <2>3 DEF Latter
<1> QED BY <1>3, <1>4, <1>5, <1>6, <1>7

LEMMA ServeKeepsProposals ==
  ASSUME PanelInd, NEW r \in posted, NEW n, NEW after, Answering(r, n, after)
  PROVE  ProposalsOK(posted', paper', shownList, opened)
<1>1. /\ ProposalsOK(posted, paper, shownList, opened) /\ paper \in [Paper -> AsideT]
      /\ \A q \in posted : q.paper \in Paper
  BY DEF PanelInd, SideT, RequestsOK, RequestIn, PostT
<1>2. /\ n.kind = r.kind /\ n.verb = r.verb /\ n.arg = r.arg /\ n.paper = r.paper /\ n.body = after
      /\ posted' = (posted \ {r}) \cup {n} /\ paper' = [paper EXCEPT ![r.paper] = after]
      /\ \A q \in paper[r.paper].proposals : \E w \in after.proposals : w.n = q.n
      /\ \A w \in after.proposals :
           w.status = "accepted" => w \in paper[r.paper].proposals \/ w.replaced = w.before
  BY DEF Answering
<1>3. paper'[r.paper] = after /\ \A e \in Paper : e # r.paper => paper'[e] = paper[e]
  BY <1>1, <1>2
<1>4. \A m, e : e \in Paper /\ Proposed(m, paper, e) => Proposed(m, paper', e)
  <2> SUFFICES ASSUME NEW m, NEW e \in Paper, Proposed(m, paper, e) PROVE Proposed(m, paper', e)
    OBVIOUS
  <2>1. CASE e = r.paper
    BY <1>2, <1>3, <2>1 DEF Proposed
  <2>2. CASE e # r.paper
    BY <1>3, <2>2 DEF Proposed
  <2> QED BY <2>1, <2>2
<1>5. \A s, e : e \in Paper /\ SeenIn(s, paper, e) => SeenIn(s, paper', e)
  BY <1>4 DEF SeenIn
<1>6. SeenIn(after, paper', r.paper)
  BY <1>3 DEF SeenIn, Proposed
<1>7. \A e \in Paper : \A p \in paper'[e].proposals : p.status = "accepted" => p.replaced = p.before
  <2> SUFFICES ASSUME NEW e \in Paper, NEW p \in paper'[e].proposals, p.status = "accepted"
               PROVE  p.replaced = p.before
    OBVIOUS
  <2>1. CASE e = r.paper
    BY <1>1, <1>2, <1>3, <2>1 DEF ProposalsOK
  <2>2. CASE e # r.paper
    BY <1>1, <1>3, <2>2 DEF ProposalsOK
  <2> QED BY <2>1, <2>2
<1>8. opened \in Paper
  BY DEF PanelInd
<1>9. /\ SeenIn(shownList, paper', opened)
      /\ \A q \in posted' : SeenIn(q.body, paper', q.paper)
  BY <1>1, <1>2, <1>5, <1>6, <1>8 DEF ProposalsOK
<1>10. \A q \in posted' : q.verb \in {"accept", "reject"} /\ q.kind = "post" =>
         Proposed(q.arg, paper', q.paper)
  BY <1>1, <1>2, <1>4 DEF ProposalsOK
<1> QED BY <1>7, <1>9, <1>10 DEF ProposalsOK

LEMMA ServeKeepsLinks ==
  ASSUME PanelInd, NEW r \in posted, NEW n, NEW after, Answering(r, n, after)
  PROVE  LinksOK(posted', paper', shownList, opened, linkKeys, keysGiven, panelActs)
<1>1. /\ LinksOK(posted, paper, shownList, opened, linkKeys, keysGiven, panelActs)
      /\ paper \in [Paper -> AsideT] /\ opened \in Paper
      /\ \A q \in posted : q.paper \in Paper
  BY DEF PanelInd, SideT, RequestsOK, RequestIn, PostT
<1>2. /\ n.kind = r.kind /\ n.verb = r.verb /\ n.arg = r.arg /\ n.paper = r.paper /\ n.body = after
      /\ posted' = (posted \ {r}) \cup {n} /\ paper' = [paper EXCEPT ![r.paper] = after]
      /\ ~Served(r) /\ Served(n) /\ after \in AsideT
      /\ r.kind = "post" /\ r.verb = "link" /\ n.ok => after.links = paper[r.paper].links \cup {r.arg}
      /\ r.kind = "post" /\ r.verb = "revoke-link" /\ n.ok => after.links = paper[r.paper].links \ {r.arg}
      /\ ~(r.kind = "post" /\ r.verb \in {"link", "revoke-link"}) => after.links = paper[r.paper].links
      /\ r.kind # "post" \/ ~n.ok => after = paper[r.paper]
  BY DEF Answering, Served
<1>3. paper'[r.paper] = after /\ \A e \in Paper : e # r.paper => paper'[e] = paper[e]
  BY <1>1, <1>2
<1>4. \A e \in Paper : paper'[e].links \subseteq paper[e].links \cup (IF Making(r) THEN {r.arg} ELSE {})
  <2> SUFFICES ASSUME NEW e \in Paper, NEW m \in paper'[e].links
               PROVE  m \in paper[e].links \/ (Making(r) /\ m = r.arg)
    OBVIOUS
  <2>1. CASE e = r.paper
    <3>1. m \in after.links
      BY <1>3, <2>1
    <3> QED BY <1>2, <2>1, <3>1 DEF Making
  <2>2. CASE e # r.paper
    BY <1>3, <2>2
  <2> QED BY <2>1, <2>2
<1>5. \A e \in Paper : \A m : m \in paper'[e].links /\ m \notin paper[e].links => Making(r) /\ m = r.arg /\ e = r.paper
  BY <1>3, <1>4
<1>6. \A q \in posted' : Making(q) => q \in posted /\ q # r
  BY <1>2 DEF Making
\* A known link is not the one that is made now.
<1>7. \A m, e : LinkOf(m, posted, paper, e, panelActs) => LinkOf(m, posted', paper', e, panelActs)
  <2> SUFFICES ASSUME NEW m, NEW e, LinkOf(m, posted, paper, e, panelActs)
               PROVE  LinkOf(m, posted', paper', e, panelActs)
    OBVIOUS
  <2>1. Making(r) => r.arg # m
    BY DEF LinkOf
  <2>2. \A f \in Paper : m \in paper'[f].links => f = e
    BY <1>5, <2>1 DEF LinkOf
  <2> QED BY <1>6, <2>2 DEF LinkOf
\* The one that is made now belongs to the document it is asked for.
<1>8. Making(r) => LinkOf(r.arg, posted', paper', r.paper, panelActs)
  <2> SUFFICES ASSUME Making(r) PROVE LinkOf(r.arg, posted', paper', r.paper, panelActs)
    OBVIOUS
  <2>1. r.arg \in 1..panelActs
    BY <1>1 DEF LinksOK, Making
  <2>2. \A q \in posted' : Making(q) => q.arg # r.arg
    BY <1>1, <1>6 DEF LinksOK, Making
  <2>3. \A e \in Paper : r.arg \notin paper[e].links
    <3> SUFFICES ASSUME NEW e \in Paper, r.arg \in paper[e].links PROVE FALSE
      OBVIOUS
    <3>1. paper[e].loaded
      BY <1>1 DEF AsideT
    <3>2. LinkOf(r.arg, posted, paper, e, panelActs)
      BY <1>1, <3>1 DEF LinksOK, KnownIn
    <3> QED BY <3>2 DEF LinkOf
  <2>4. \A e \in Paper : r.arg \in paper'[e].links => e = r.paper
    BY <1>5, <2>3
  <2> QED BY <2>1, <2>2, <2>4 DEF LinkOf
<1>9. \A s, e : KnownIn(s, posted, paper, e, panelActs) => KnownIn(s, posted', paper', e, panelActs)
  BY <1>7 DEF KnownIn
<1>10. \A e \in Paper : KnownIn(paper'[e], posted', paper', e, panelActs)
  <2> SUFFICES ASSUME NEW e \in Paper, NEW m \in paper'[e].links
               PROVE  LinkOf(m, posted', paper', e, panelActs)
    BY DEF KnownIn
  <2>1. CASE m \in paper[e].links
    <3>1. paper[e].loaded
      BY <1>1 DEF AsideT
    <3>2. LinkOf(m, posted, paper, e, panelActs)
      BY <1>1, <2>1, <3>1 DEF LinksOK, KnownIn
    <3> QED BY <1>7, <3>2
  <2>2. CASE m \notin paper[e].links
    BY <1>5, <1>8, <2>2
  <2> QED BY <2>1, <2>2
<1>11. \A q \in posted' : KnownIn(q.body, posted', paper', q.paper, panelActs)
  <2>1. KnownIn(after, posted', paper', r.paper, panelActs)
    BY <1>1, <1>3, <1>10
  <2> QED BY <1>1, <1>2, <1>9, <2>1 DEF LinksOK
<1>12. KnownIn(shownList, posted', paper', opened, panelActs)
  BY <1>1, <1>9 DEF LinksOK
<1>13. \A q \in posted' : q.kind = "post" /\ q.verb = "revoke-link" =>
         /\ LinkOf(q.arg, posted', paper', q.paper, panelActs)
         /\ Served(q) => q.arg \notin paper'[q.paper].links
  <2> SUFFICES ASSUME NEW q \in posted', q.kind = "post", q.verb = "revoke-link"
               PROVE  /\ LinkOf(q.arg, posted', paper', q.paper, panelActs)
                      /\ Served(q) => q.arg \notin paper'[q.paper].links
    OBVIOUS
  <2>1. CASE q = n
    <3>1. LinkOf(r.arg, posted, paper, r.paper, panelActs)
      BY <1>1, <1>2, <2>1 DEF LinksOK
    <3>2. n.ok
      <4>1. panel = "sharing"
        BY <1>2, <2>1 DEF PanelInd, RequestsOK, RequestIn, VerbsOf, Panel
      <4> QED BY <4>1 DEF Answering
    <3>3. r.arg \notin after.links
      BY <1>2, <2>1, <3>2
    <3> QED BY <1>2, <1>3, <1>7, <2>1, <3>1, <3>3
  <2>2. CASE q # n
    <3>1. q \in posted /\ LinkOf(q.arg, posted, paper, q.paper, panelActs)
          /\ (Served(q) => q.arg \notin paper[q.paper].links)
      BY <1>1, <1>2, <2>2 DEF LinksOK
    <3>2. Making(r) => r.arg # q.arg
      BY <3>1 DEF LinkOf
    <3>3. Served(q) => q.arg \notin paper'[q.paper].links
      BY <1>1, <1>5, <3>1, <3>2
    <3> QED BY <1>7, <3>1, <3>3
  <2> QED BY <2>1, <2>2
<1>14. /\ \A q \in posted' : q.kind = "post" /\ q.verb = "link" => q.arg \in 1..panelActs
       /\ \A q, w \in posted' : q.kind = "post" /\ q.verb = "link" /\ w.kind = "post" /\ w.verb = "link"
                                /\ q.arg = w.arg => q = w
  BY <1>1, <1>2 DEF LinksOK
<1>15. \A q \in posted' : Making(q) => q.arg \notin keysGiven
  BY <1>1, <1>6 DEF LinksOK
<1>16. \A e \in Paper : paper'[e].links \cap keysGiven \subseteq linkKeys
  <2>1. Making(r) => r.arg \notin keysGiven
    BY <1>1 DEF LinksOK
  <2> QED BY <1>1, <1>4, <2>1 DEF LinksOK
<1> QED BY <1>1, <1>10, <1>11, <1>12, <1>13, <1>14, <1>15, <1>16 DEF LinksOK

LEMMA ServeKeepsSettled ==
  ASSUME PanelInd, NEW r \in posted, NEW n, NEW after, Answering(r, n, after),
         SettleOK(posted, panel, paper, shownList, opened, built)
  PROVE  SettleOK(posted', panel, paper', shownList, opened, built)
<1> SUFFICES ASSUME built > 0, \A q \in posted' : ~Awaits(q, panel, opened, built)
             PROVE  /\ (\A q \in posted' : ~Carries(q, panel, built)) => shownList = paper'[opened]
                    /\ \A q \in posted' :
                         /\ Carries(q, panel, built)
                         /\ \A w \in posted' : Carries(w, panel, built) => w.turn <= q.turn
                         => q.body = paper'[opened]
  BY DEF SettleOK
<1>1. /\ paper \in [Paper -> AsideT] /\ opened \in Paper
      /\ \A q \in posted : /\ q.paper \in Paper /\ q.turn \in Nat
                           /\ q.built = built => q.paper = opened
  BY DEF PanelInd, SideT, RequestsOK, RequestIn, PostT
<1>2. /\ n.kind = r.kind /\ n.verb = r.verb /\ n.paper = r.paper /\ n.built = r.built /\ n.body = after
      /\ posted' = (posted \ {r}) \cup {n} /\ paper' = [paper EXCEPT ![r.paper] = after]
      /\ ~Served(r) /\ Served(n) /\ n.turn \in Nat
      /\ r.kind # "post" \/ ~n.ok \/ r.verb = "deliver" => after = paper[r.paper]
      /\ \A q \in posted : q.built = r.built => q.turn < n.turn
  BY DEF Answering, Served, PostT
<1>3. paper'[r.paper] = after /\ \A e \in Paper : e # r.paper => paper'[e] = paper[e]
  BY <1>1, <1>2
<1>4. CASE Carries(n, panel, built)
  <2>1. n.built = built /\ r.paper = opened
    BY <1>1, <1>2, <1>4 DEF Carries
  <2>2. ASSUME NEW q \in posted', Carries(q, panel, built), n.turn <= q.turn
        PROVE  q = n
    <3>1. q.built = built
      BY <2>2 DEF Carries
    <3>2. q \in posted => q.turn < n.turn /\ q.turn \in Nat
      BY <1>1, <1>2, <2>1, <3>1
    <3>3. q \notin posted
      BY <3>2, <2>2, <1>2
    <3> QED BY <1>2, <3>3
  <2> QED BY <1>2, <1>3, <1>4, <2>1, <2>2
<1>5. CASE ~Carries(n, panel, built)
  <2>1. ~Awaits(r, panel, opened, built)
    BY <1>2, <1>5 DEF Awaits, Carries
  <2>2. \A q \in posted : ~Awaits(q, panel, opened, built)
    BY <1>2, <2>1
  <2>3. paper'[opened] = paper[opened]
    <3>1. CASE r.paper # opened
      BY <1>1, <1>3, <3>1
    <3>2. CASE r.paper = opened /\ r.kind # "post"
      BY <1>2, <1>3, <3>2
    <3>3. CASE r.paper = opened /\ r.kind = "post"
      <4>1. ~Awaits(n, panel, opened, built)
        BY <1>2
      <4>2. ~n.ok \/ (panel = "sharing" /\ n.built = built)
        BY <1>2, <3>3, <4>1 DEF Awaits
      <4>3. ~n.ok \/ r.verb = "deliver"
        BY <1>2, <1>5, <3>3, <4>2 DEF Carries
      <4> QED BY <1>2, <1>3, <3>3, <4>3
    <3> QED BY <3>1, <3>2, <3>3
  <2>4. ~Carries(r, panel, built)
    BY <1>2 DEF Carries
  <2>5. \A q : q \in posted' /\ Carries(q, panel, built) <=> q \in posted /\ Carries(q, panel, built)
    BY <1>2, <1>5, <2>4
  <2>6. /\ (\A q \in posted : ~Carries(q, panel, built)) => shownList = paper[opened]
        /\ \A q \in posted :
             /\ Carries(q, panel, built)
             /\ \A w \in posted : Carries(w, panel, built) => w.turn <= q.turn
             => q.body = paper[opened]
    BY <2>2 DEF SettleOK
  <2> QED BY <2>3, <2>5, <2>6
<1> QED BY <1>4, <1>5

LEMMA ServeKeeps ==
  ASSUME PanelInd, NEW r \in posted, Serve(r)
  PROVE  PanelInd'
<1>1. PICK n, after : Answering(r, n, after)
  BY ServeAnswers
<1>2. UNCHANGED <<panel, opened, built, shownList, sendOn, marked, figure, pageView, pagesAsked,
                  linkKeys, keysGiven, panelActs, slips>>
  BY DEF Serve, screen, pageVars, keyVars
<1>3. /\ RequestsOK(posted', panel, opened, built)
      /\ SendOK(posted', sendOn, built)
      /\ PagesOK(posted', pageView, pagesAsked)
      /\ TurnsOK(posted, pageView, figure, opened, built) =>
           TurnsOK(posted', pageView, figure, opened, built)
      /\ \A q, w \in posted' : Latter(q, w, built)
  BY <1>1, <1>2, ServeKeepsRequests
<1>4. /\ ProposalsOK(posted', paper', shownList, opened)
      /\ LinksOK(posted', paper', shownList, opened, linkKeys, keysGiven, panelActs)
      /\ SettleOK(posted, panel, paper, shownList, opened, built) =>
           SettleOK(posted', panel, paper', shownList, opened, built)
  BY <1>1, ServeKeepsProposals, ServeKeepsLinks, ServeKeepsSettled
<1>5. paper' \in SideT
  <2>1. r.paper \in Paper /\ paper \in [Paper -> AsideT]
    BY DEF PanelInd, SideT, RequestsOK, RequestIn, PostT
  <2>2. paper' = [paper EXCEPT ![r.paper] = after] /\ after \in AsideT
    BY <1>1 DEF Answering
  <2> QED BY <2>1, <2>2 DEF SideT
<1> QED BY <1>2, <1>3, <1>4, <1>5 DEF PanelInd

\* A button on the page acts on what the panel shows.
LEMMA OfferedIsShown ==
  ASSUME PanelInd, NEW verb, NEW arg, <<verb, arg>> \in Offered
  PROVE  /\ verb \in VerbsOf(panel) /\ arg \in Nat
         /\ verb \in {"accept", "reject"} => Proposed(arg, paper, opened)
         /\ verb = "link" => arg = panelActs + 1
         /\ verb = "revoke-link" => LinkOf(arg, posted, paper, opened, panelActs)
         /\ verb \in {"answer", "deliver"} => sendOn
<1>1. /\ shownList \in AsideT \cup {NotYet} /\ panelActs \in Nat
      /\ SeenIn(shownList, paper, opened)
      /\ KnownIn(shownList, posted, paper, opened, panelActs)
      /\ panel \in Panel
  BY PanelConsts DEF PanelInd, ProposalsOK, LinksOK
<1>2. shownList.loaded => shownList \in AsideT
  BY <1>1, NotYetLoaded
<1>3. CASE panel = "comments"
  <2>1. <<verb, arg>> \in CommentButtons
    BY <1>3 DEF Offered
  <2>2. verb \in {"comment", "delete", "resolve", "reply"} /\ arg \in Nat
    BY <2>1 DEF CommentButtons
  <2> QED BY <1>3, <2>2 DEF VerbsOf
<1>4. CASE panel = "suggestions"
  <2>1. <<verb, arg>> \in SuggestionButtons
    BY <1>4 DEF Offered
  <2>2. CASE <<verb, arg>> = <<"suggest", panelActs + 1>>
    BY <1>1, <1>4, <2>2 DEF VerbsOf
  <2>3. CASE <<verb, arg>> # <<"suggest", panelActs + 1>>
    <3> DEFINE undecided == {q \in shownList.proposals : q.status = "open"}
               offers == {p.n : p \in undecided}
    <3>1. shownList.loaded /\ <<verb, arg>> \in {"accept", "reject"} \X offers
      BY <2>1, <2>3 DEF SuggestionButtons
    <3>2. verb \in {"accept", "reject"} /\ arg \in offers
      <4> HIDE DEF offers
      <4> QED BY <3>1
    <3>3. PICK p \in shownList.proposals : arg = p.n
      BY <3>2
    <3>4. arg \in Nat
      BY <1>2, <3>1, <3>3 DEF AsideT, ProposalT
    <3>5. Proposed(arg, paper, opened)
      BY <1>1, <3>1, <3>3 DEF SeenIn
    <3> QED BY <1>4, <3>2, <3>4, <3>5 DEF VerbsOf
  <2> QED BY <2>2, <2>3
<1>5. CASE panel = "sharing"
  <2>1. <<verb, arg>> \in SharingButtons
    BY <1>5 DEF Offered
  <2>2. CASE <<verb, arg>> \in {"revoke-link"} \X shownList.links /\ shownList.loaded
    <3>1. verb = "revoke-link" /\ arg \in shownList.links
      BY <2>2
    <3>2. LinkOf(arg, posted, paper, opened, panelActs)
      BY <1>1, <2>2, <3>1 DEF KnownIn
    <3>3. arg \in Nat
      BY <1>1, <3>2 DEF LinkOf
    <3> QED BY <1>5, <3>1, <3>2, <3>3 DEF VerbsOf
  <2>3. CASE ~(<<verb, arg>> \in {"revoke-link"} \X shownList.links /\ shownList.loaded)
    <3>1. \/ verb = "grant" /\ arg = 0
          \/ verb = "link" /\ arg = panelActs + 1
          \/ verb = "deliver" /\ arg = 0 /\ sendOn
          \/ verb = "revoke" /\ arg = 0
      BY <2>1, <2>3 DEF SharingButtons
    <3>2. verb \in {"grant", "link", "deliver", "revoke"}
      BY <3>1
    <3>3. arg \in Nat
      BY <1>1, <3>1
    <3> QED BY <1>5, <3>1, <3>2, <3>3 DEF VerbsOf
  <2> QED BY <2>2, <2>3
<1>6. CASE panel = "answers"
  <2>1. <<verb, arg>> \in AnswerButtons
    BY <1>6 DEF Offered
  <2>2. verb = "answer" /\ arg = 0 /\ sendOn
    BY <2>1 DEF AnswerButtons
  <2> QED BY <1>6, <2>2 DEF VerbsOf
<1>7. panel \in {"comments", "suggestions", "sharing", "answers"}
  BY DEF Offered
<1> QED BY <1>3, <1>4, <1>5, <1>6, <1>7

LEMMA PressKeeps ==
  ASSUME PanelInd, NEW verb, NEW arg, Press(verb, arg)
  PROVE  PanelInd'
<1> DEFINE n == Asking("post", verb, arg)
<1>1. /\ posted' = posted \cup {n} /\ sendOn' = Pressed(verb) /\ Acts /\ <<verb, arg>> \in Offered
      /\ UNCHANGED <<panel, paper, opened, built, shownList, marked, figure, pageView, pagesAsked,
                     linkKeys, keysGiven, slips>>
  BY DEF Press, pageVars, keyVars
<1>2. /\ verb \in VerbsOf(panel) /\ arg \in Nat
      /\ verb \in {"accept", "reject"} => Proposed(arg, paper, opened)
      /\ verb = "link" => arg = panelActs + 1
      /\ verb = "revoke-link" => LinkOf(arg, posted, paper, opened, panelActs)
      /\ verb \in {"answer", "deliver"} => sendOn
  BY <1>1, OfferedIsShown
<1>3. /\ panelActs \in Nat /\ panelActs' = panelActs + 1 /\ panelActs' \in Nat
      /\ panelActs' \in 0..MaxPanelActs /\ panelActs <= panelActs' /\ panelActs' \in 1..panelActs'
  BY <1>1, ActsCounted
<1>4. /\ n.kind = "post" /\ n.verb = verb /\ n.arg = arg /\ n.paper = opened /\ n.built = built
      /\ n.turn = 0 /\ n.ok = FALSE /\ n.body = NotYet
  BY DEF Asking
<1>5. /\ RequestsOK(posted, panel, opened, built) /\ SendOK(posted, sendOn, built)
      /\ PagesOK(posted, pageView, pagesAsked) /\ ProposalsOK(posted, paper, shownList, opened)
      /\ LinksOK(posted, paper, shownList, opened, linkKeys, keysGiven, panelActs)
      /\ \A q, w \in posted : Latter(q, w, built)
      /\ panel \in Panel /\ opened \in Paper /\ built \in Nat /\ sendOn \in BOOLEAN
  BY DEF PanelInd
<1>6. n \in PostT
  <2>1. verb \in UNION {VerbsOf(p) : p \in Panel}
    BY <1>2, <1>5
  <2> QED BY <2>1, <1>2, <1>3, <1>5 DEF Asking, PostT
<1> HIDE DEF n
<1>7. ~Served(n)
  BY <1>4 DEF Served
<1>8. verb \notin {"none", "workspace"} /\ panel # "pages" /\ "post" \in KindsOf(panel)
  BY <1>2, <1>5 DEF VerbsOf, Panel, KindsOf
<1>9. RequestsOK(posted', panel, opened, built)
  <2>1. IsFiniteSet(posted')
    BY <1>1, <1>5, FS_AddElement DEF RequestsOK
  <2>2. RequestIn(n, panel, opened, built)
    BY <1>2, <1>4, <1>5, <1>6, <1>7, <1>8 DEF RequestIn
  <2> QED BY <1>1, <1>5, <2>1, <2>2 DEF RequestsOK
<1>10. SendOK(posted', sendOn', built)
  <2>1. CASE verb \in {"answer", "deliver"}
    <3>1. sendOn' = FALSE /\ sendOn
      BY <1>1, <1>2, <2>1 DEF Pressed
    <3> QED BY <1>1, <1>4, <1>5, <3>1 DEF SendOK, Sending
  <2>2. CASE verb \notin {"answer", "deliver"}
    <3>1. sendOn' = sendOn /\ ~Sending(n)
      BY <1>1, <1>4, <1>5, <2>2 DEF Pressed, Sending
    <3> QED BY <1>1, <1>4, <1>5, <3>1 DEF SendOK
  <2> QED BY <2>1, <2>2
<1>11. PagesOK(posted', pageView, pagesAsked)
  BY <1>1, <1>4, <1>5, PagesLess
<1>12. ProposalsOK(posted', paper, shownList, opened)
  <2>1. SeenIn(n.body, paper, n.paper)
    BY <1>4, NotYetLoaded DEF SeenIn
  <2> QED BY <1>1, <1>2, <1>4, <1>5, <2>1 DEF ProposalsOK
<1>13. \A q, w \in posted' : Latter(q, w, built)
  BY <1>1, <1>5, <1>7 DEF Latter
<1>14. SettleOK(posted, panel, paper, shownList, opened, built) =>
         SettleOK(posted', panel, paper, shownList, opened, built)
  <2>1. ~Awaits(n, panel, opened, built) /\ ~Carries(n, panel, built)
    BY <1>4, <1>7 DEF Awaits, Carries
  <2> QED BY <1>1, <2>1 DEF SettleOK
<1>15. LinksOK(posted', paper, shownList, opened, linkKeys, keysGiven, panelActs')
  <2>1. \A m, e : LinkOf(m, posted, paper, e, panelActs) => LinkOf(m, posted', paper, e, panelActs')
    <3> SUFFICES ASSUME NEW m, NEW e, LinkOf(m, posted, paper, e, panelActs)
                 PROVE  LinkOf(m, posted', paper, e, panelActs')
      OBVIOUS
    <3>1. m \in 1..panelActs' /\ m # panelActs + 1
      BY <1>3 DEF LinkOf
    <3>2. \A q \in posted' : Making(q) => q.arg # m
      BY <1>1, <1>2, <1>4, <3>1 DEF LinkOf, Making
    <3> QED BY <3>1, <3>2 DEF LinkOf
  <2>2. \A s, e : KnownIn(s, posted, paper, e, panelActs) => KnownIn(s, posted', paper, e, panelActs')
    BY <2>1 DEF KnownIn
  <2>3. KnownIn(n.body, posted', paper, n.paper, panelActs')
    BY <1>4, NotYetLoaded DEF KnownIn
  <2>4. \A q \in posted : q.kind = "post" /\ q.verb = "link" => q.arg \in 1..panelActs' /\ q.arg # panelActs + 1
    BY <1>3, <1>5 DEF LinksOK
  <2>5. keysGiven \subseteq 1..panelActs' /\ linkKeys \subseteq 1..panelActs' /\ panelActs + 1 \notin keysGiven
    BY <1>3, <1>5 DEF LinksOK
  <2>6. \A q \in posted' : q.kind = "post" /\ q.verb = "link" => q.arg \in 1..panelActs'
    BY <1>1, <1>2, <1>3, <1>4, <2>4
  <2>7. \A q, w \in posted' : q.kind = "post" /\ q.verb = "link" /\ w.kind = "post" /\ w.verb = "link"
                                /\ q.arg = w.arg => q = w
    BY <1>1, <1>2, <1>4, <1>5, <2>4 DEF LinksOK
  <2>8. \A q \in posted' : Making(q) => q.arg \notin keysGiven
    BY <1>1, <1>2, <1>4, <1>5, <2>5 DEF LinksOK, Making
  <2>9. \A q \in posted' : q.kind = "post" /\ q.verb = "revoke-link" =>
          /\ LinkOf(q.arg, posted', paper, q.paper, panelActs')
          /\ Served(q) => q.arg \notin paper[q.paper].links
    BY <1>1, <1>2, <1>4, <1>5, <1>7, <2>1 DEF LinksOK
  <2>10. /\ KnownIn(shownList, posted', paper, opened, panelActs')
         /\ \A q \in posted' : KnownIn(q.body, posted', paper, q.paper, panelActs')
         /\ \A e \in Paper : KnownIn(paper[e], posted', paper, e, panelActs')
    BY <1>1, <1>5, <2>2, <2>3 DEF LinksOK
  <2> QED BY <1>3, <1>5, <2>5, <2>6, <2>7, <2>8, <2>9, <2>10 DEF LinksOK
<1>16. sendOn' \in BOOLEAN
  BY <1>1 DEF Pressed
<1> QED BY <1>1, <1>3, <1>8, <1>9, <1>10, <1>11, <1>12, <1>13, <1>14, <1>15, <1>16 DEF PanelInd

---------------------------------------------------------------------------
(* The pane and its pages.                                                 *)

\* A request of the page that is built: nobody has served it.
Fresh(n, what, d, b) ==
  /\ n \in PostT /\ n.kind = what /\ n.verb = "none" /\ n.paper = d /\ n.built = b
  /\ n.turn = 0 /\ n.ok = FALSE /\ n.body = NotYet

LEMMA FreshAsking ==
  ASSUME PanelInd, NEW what \in {"read", "form", "page"}, NEW i \in Nat
  PROVE  Fresh(Asking(what, "none", i), what, opened, built) /\ Asking(what, "none", i).arg = i
<1> DEFINE a == Asking(what, "none", i)
<1>1. panelActs \in Nat /\ opened \in Paper /\ built \in Nat
  BY PanelConsts DEF PanelInd
<1>2. a \in PostT
  BY <1>1 DEF Asking, PostT
<1>3. /\ a.kind = what /\ a.verb = "none" /\ a.paper = opened /\ a.built = built /\ a.arg = i
      /\ a.turn = 0 /\ a.ok = FALSE /\ a.body = NotYet
  BY DEF Asking
<1> QED BY <1>2, <1>3 DEF Fresh

LEMMA FreshMoved ==
  ASSUME NEW a, NEW what, NEW e, NEW c, Fresh(a, what, e, c), NEW d \in Paper, NEW b \in Nat
  PROVE  /\ Fresh([a EXCEPT !.paper = d, !.built = b], what, d, b)
         /\ [a EXCEPT !.paper = d, !.built = b].arg = a.arg
         /\ Fresh([[a EXCEPT !.paper = d] EXCEPT !.built = b], what, d, b)
         /\ [[a EXCEPT !.paper = d] EXCEPT !.built = b].arg = a.arg
<1> DEFINE n == [a EXCEPT !.paper = d, !.built = b]
           a2 == [a EXCEPT !.paper = d]
           m == [a2 EXCEPT !.built = b]
<1>1. a \in PostT /\ a.kind = what /\ a.verb = "none" /\ a.turn = 0 /\ a.ok = FALSE /\ a.body = NotYet
  BY DEF Fresh
<1>2. /\ n \in PostT /\ n.kind = a.kind /\ n.verb = a.verb /\ n.turn = a.turn /\ n.ok = a.ok
      /\ n.body = a.body /\ n.arg = a.arg /\ n.paper = d /\ n.built = b
  BY <1>1 DEF PostT
<1>3. /\ a2 \in PostT /\ a2.kind = a.kind /\ a2.verb = a.verb /\ a2.turn = a.turn /\ a2.ok = a.ok
      /\ a2.body = a.body /\ a2.arg = a.arg /\ a2.paper = d
  BY <1>1 DEF PostT
<1> HIDE DEF n, a2
<1>4. /\ m \in PostT /\ m.kind = a.kind /\ m.verb = a.verb /\ m.turn = a.turn /\ m.ok = a.ok
      /\ m.body = a.body /\ m.arg = a.arg /\ m.paper = d /\ m.built = b
  BY <1>3 DEF PostT
<1> HIDE DEF m
<1>5. Fresh(n, what, d, b) /\ Fresh(m, what, d, b)
  BY <1>1, <1>2, <1>4 DEF Fresh
<1> QED BY <1>2, <1>4, <1>5 DEF n, m, a2

LEMMA FreshReads ==
  ASSUME PanelInd, NEW what \in {"read", "form"}, NEW d \in Paper, NEW b \in Nat
  PROVE  Fresh([Asking(what, "none", 0) EXCEPT !.paper = d, !.built = b], what, d, b)
<1> DEFINE a == Asking(what, "none", 0)
<1>1. Fresh(a, what, opened, built)
  BY FreshAsking
<1> HIDE DEF a
<1>2. Fresh([a EXCEPT !.paper = d, !.built = b], what, d, b)
  BY <1>1, FreshMoved
<1> QED BY <1>2 DEF a

\* The request for page i of document d that its panel, the b-th, makes.
FirstPage(n, i, d, b) == n = [[Asking("page", "none", i) EXCEPT !.paper = d] EXCEPT !.built = b]

LEMMA FreshPage ==
  ASSUME PanelInd, NEW d \in Paper, NEW b \in Nat, NEW i \in 0..LastPage, NEW n, FirstPage(n, i, d, b)
  PROVE  Fresh(n, "page", d, b) /\ n.arg = i
<1> DEFINE a == Asking("page", "none", i)
<1>1. Fresh(a, "page", opened, built) /\ a.arg = i
  BY FreshAsking, PanelConsts
<1>2. n = [[a EXCEPT !.paper = d] EXCEPT !.built = b]
  BY DEF FirstPage
<1> HIDE DEF a
<1>3. /\ Fresh([[a EXCEPT !.paper = d] EXCEPT !.built = b], "page", d, b)
      /\ [[a EXCEPT !.paper = d] EXCEPT !.built = b].arg = a.arg
  BY <1>1, FreshMoved
<1> QED BY <1>1, <1>2, <1>3

LEMMA DrawPageTyped ==
  ASSUME NEW v \in ViewT, NEW f \in FigureT
  PROVE  /\ DrawPage(v, f) \in FigureT
         /\ ~v.failed => DrawPage(v, f).page = v.doc
BY PanelConsts DEF DrawPage, ViewT, FigureT

LEMMA BlankTyped == \A on \in BOOLEAN : Blank(on) \in FigureT
BY DEF Blank, FigureT

\* The requests that a new panel makes of its own are the panel's kind.
Newly(N, d) ==
  /\ IsFiniteSet(N)
  /\ \A n \in N : Fresh(n, n.kind, d, built + 1) /\ n.kind \in KindsOf(panel) /\ n.kind # "post"

LEMMA BuildRequests ==
  ASSUME PanelInd, NEW d \in Paper, NEW R, R \subseteq posted, NEW N, Newly(N, d),
         posted' = {r \in R : StillMatters(r)} \cup N,
         built' = built + 1, panelActs' \in Nat, panelActs <= panelActs'
  PROVE  /\ RequestsOK(posted', panel, d, built')
         /\ ProposalsOK(posted', paper, NotYet, d)
         /\ LinksOK(posted', paper, NotYet, d, linkKeys, keysGiven, panelActs')
         /\ \A r, q \in posted' : Latter(r, q, built')
         /\ \A on : (\A n \in N : n.kind = "form" => ~on /\ \A m \in N : m.kind = "form" => n = m)
                      => SendOK(posted', on, built')
<1>1. /\ RequestsOK(posted, panel, opened, built) /\ SendOK(posted, sendOn, built)
      /\ ProposalsOK(posted, paper, shownList, opened)
      /\ LinksOK(posted, paper, shownList, opened, linkKeys, keysGiven, panelActs)
      /\ built \in Nat /\ panel \in Panel
  BY DEF PanelInd
<1>2. /\ \A r \in posted : r.built <= built /\ r.built \in Nat /\ r.built # built'
      /\ \A n \in N : n.built = built' /\ n.turn = 0 /\ n.body = NotYet /\ n.kind # "post" /\ n.paper = d
      /\ \A r \in posted' : r \in N \/ r \in posted
  BY <1>1 DEF Newly, Fresh, RequestsOK, RequestIn, PostT
<1>3. RequestsOK(posted', panel, d, built')
  <2>1. IsFiniteSet(posted')
    <3>1. IsFiniteSet({r \in R : StillMatters(r)})
      BY <1>1, FS_Subset DEF RequestsOK
    <3> QED BY <3>1, FS_Union DEF Newly
  <2>2. ASSUME NEW n \in N PROVE RequestIn(n, panel, d, built')
    <3>1. Fresh(n, n.kind, d, built') /\ n.kind \in KindsOf(panel) /\ n.kind # "post"
      BY DEF Newly
    <3>2. ~Served(n) /\ n.built = built' /\ built' \in Nat /\ n.paper = d /\ n.verb = "none" /\ n \in PostT
      BY <1>1, <3>1 DEF Served, Fresh
    <3> QED BY <3>1, <3>2 DEF RequestIn
  <2>3. ASSUME NEW r \in posted PROVE RequestIn(r, panel, d, built')
    <3>1. RequestIn(r, panel, opened, built) /\ r.built # built' /\ r.built <= built'
      BY <1>1, <1>2 DEF RequestsOK
    <3> QED BY <3>1 DEF RequestIn
  <2> QED BY <1>2, <2>1, <2>2, <2>3 DEF RequestsOK
<1>4. FromOld(posted', posted) /\ ShownFrom(NotYet, d, shownList, opened, posted)
  BY <1>2, NotYetLoaded DEF FromOld, ShownFrom
<1>5. ProposalsOK(posted', paper, NotYet, d)
  BY <1>1, <1>4, ProposalsLess
<1>6. LinksOK(posted', paper, NotYet, d, linkKeys, keysGiven, panelActs')
  BY <1>1, <1>4, LinksLess
<1>7. \A r, q \in posted' : Latter(r, q, built')
  BY <1>2 DEF Latter, Served
<1>8. ASSUME NEW on, \A n \in N : n.kind = "form" => ~on /\ \A m \in N : m.kind = "form" => n = m
      PROVE  SendOK(posted', on, built')
  <2>1. \A r \in posted' : Sending(r) => r \in posted
    BY <1>2 DEF Sending
  <2>2. \A r, q \in posted' : r.kind = "form" /\ q.kind = "form" /\ r.built = q.built => r = q
    BY <1>1, <1>2, <1>8 DEF SendOK
  <2>3. \A r \in posted' : r.kind = "form" /\ r.built = built' => ~on
    BY <1>2, <1>8
  <2> QED BY <1>1, <1>2, <2>1, <2>2, <2>3 DEF SendOK
<1> QED BY <1>3, <1>5, <1>6, <1>7, <1>8

LEMMA BuildKeeps ==
  ASSUME PanelInd, NEW d \in Paper, NEW R, R \subseteq posted, Build(d, R),
         \A r \in posted : r.kind = "page" => r \in R,
         UNCHANGED <<panel, paper, linkKeys, keysGiven>>,
         panelActs' \in 0..MaxPanelActs, panelActs <= panelActs'
  PROVE  PanelInd'
<1> DEFINE others == {r \in R : StillMatters(r)}
           ask(what) == [Asking(what, "none", 0) EXCEPT !.paper = d, !.built = built + 1]
<1>0. /\ panel \in Panel /\ built \in Nat /\ built + 1 \in Nat /\ panelActs \in Nat /\ panelActs' \in Nat
      /\ PagesOK(posted, pageView, pagesAsked) /\ paper \in SideT /\ figure \in FigureT
  BY PanelConsts DEF PanelInd
<1>1. /\ opened' = d /\ built' = built + 1 /\ shownList' = NotYet /\ marked' = FALSE
      /\ sendOn' = (panel # "answers")
  BY DEF Build
<1>2. \A r \in posted : r.kind = "page" => r \in others
  BY DEF StillMatters
<1>3. CASE panel # "pages"
  <2> DEFINE N == {ask("read")} \cup (IF panel = "answers" THEN {ask("form")} ELSE {})
  <2>1. /\ posted' = others \cup {ask("read")} \cup (IF panel = "answers" THEN {ask("form")} ELSE {})
        /\ UNCHANGED <<pageView, pagesAsked, figure, slips>>
    BY <1>3 DEF Build, pageVars
  <2>2. posted' = others \cup N
    BY <2>1
  <2>3. Fresh(ask("read"), "read", d, built + 1) /\ Fresh(ask("form"), "form", d, built + 1)
    BY <1>0, FreshReads
  <2>4. ask("read") \in N /\ \A n \in N : n = ask("read") \/ (panel = "answers" /\ n = ask("form"))
    OBVIOUS
  <2>5. IsFiniteSet(N)
    BY FS_Singleton, FS_Union, FS_EmptySet
  <2> DEFINE a == ask("read")
             f == ask("form")
  <2>6. /\ Fresh(a, "read", d, built + 1) /\ Fresh(f, "form", d, built + 1)
        /\ a \in N /\ \A n \in N : n = a \/ (panel = "answers" /\ n = f)
    BY <2>3, <2>4
  <2> HIDE DEF a, f, N, others
  <2>7. Newly(N, d)
    <3>1. "read" \in KindsOf(panel) /\ (panel = "answers" => "form" \in KindsOf(panel))
      BY <1>0, <1>3 DEF KindsOf, Panel
    <3>2. a.kind = "read" /\ f.kind = "form"
      BY <2>6 DEF Fresh
    <3> QED BY <2>5, <2>6, <3>1, <3>2 DEF Newly
  <2>8. \A n \in N : n.kind = "form" => ~sendOn' /\ \A m \in N : m.kind = "form" => n = m
    BY <1>1, <2>6 DEF Fresh
  <2>9. /\ RequestsOK(posted', panel, d, built')
        /\ ProposalsOK(posted', paper, NotYet, d)
        /\ LinksOK(posted', paper, NotYet, d, linkKeys, keysGiven, panelActs')
        /\ \A r, q \in posted' : Latter(r, q, built')
        /\ SendOK(posted', sendOn', built')
    BY <1>0, <1>1, <2>2, <2>7, <2>8, BuildRequests DEF others
  <2>10. PagesOK(posted', pageView, pagesAsked)
    <3>1. \A n \in N : n.kind # "page"
      BY <2>6 DEF Fresh
    <3>2. others \subseteq posted
      BY DEF others
    <3> QED BY <1>0, <1>2, <2>2, <3>1, <3>2, PagesLess
  <2>11. SettleOK(posted', panel, paper, NotYet, d, built')
    <3>1. a \in posted' /\ Awaits(a, panel, d, built')
      BY <1>1, <2>2, <2>6 DEF Awaits, Fresh, Served
    <3> QED BY <3>1 DEF SettleOK
  <2>12. sendOn' \in BOOLEAN
    BY <1>1
  <2> QED BY <1>0, <1>1, <1>3, <2>1, <2>9, <2>10, <2>11, <2>12 DEF PanelInd
<1>4. CASE panel = "pages"
  <2> DEFINE v == pageView[d]
             n == [[Asking("page", "none", v.index) EXCEPT !.paper = d] EXCEPT !.built = built + 1]
             N == IF Unseen(v) THEN {n} ELSE {}
             w == IF Unseen(v) THEN [v EXCEPT !.loading = TRUE] ELSE v
             page == IF Unseen(v) THEN LoadPage(d, v) ELSE [view |-> v, requests |-> {}]
  <2>1. v \in ViewT /\ pageView \in [Paper -> ViewT] /\ pagesAsked \in [Paper -> Int]
    BY <1>0 DEF PagesOK
  <2>2. page.view = w /\ {[p EXCEPT !.built = built + 1] : p \in page.requests} = N
        /\ Cardinality(page.requests) = IF Unseen(v) THEN 1 ELSE 0
    <3>1. CASE Unseen(v)
      <4> DEFINE q == [Asking("page", "none", v.index) EXCEPT !.paper = d]
                 lv == [v EXCEPT !.loading = TRUE]
      <4>1. page = [view |-> lv, requests |-> {q}]
        BY <3>1 DEF LoadPage, Unseen
      <4>2. n = [q EXCEPT !.built = built + 1] /\ N = {n} /\ w = lv
        BY <3>1
      <4> HIDE DEF page, q, n, N, w, lv
      <4>3. page.view = w /\ page.requests = {q}
        BY <4>1, <4>2
      <4>4. {[p EXCEPT !.built = built + 1] : p \in {q}} = {[q EXCEPT !.built = built + 1]}
        OBVIOUS
      <4> QED BY <3>1, <4>2, <4>3, <4>4, FS_Singleton
    <3>2. CASE ~Unseen(v)
      BY <3>2, FS_EmptySet
    <3> QED BY <3>1, <3>2
  <2>3. /\ pageView' = [pageView EXCEPT ![d] = page.view]
        /\ figure' = DrawPage(v, Blank(TRUE))
        /\ posted' = others \cup {[p EXCEPT !.built = built + 1] : p \in page.requests}
        /\ pagesAsked' = [pagesAsked EXCEPT ![d] = @ + Cardinality(page.requests)]
        /\ slips' = IF v.loading THEN slips \cup {"rebuilt"} ELSE slips
    BY <1>4 DEF Build
  <2> HIDE DEF page
  <2>4. posted' = others \cup N /\ pageView' = [pageView EXCEPT ![d] = w]
        /\ pagesAsked' = [pagesAsked EXCEPT ![d] = pagesAsked[d] + IF Unseen(v) THEN 1 ELSE 0]
    BY <2>2, <2>3
  <2>5. Fresh(n, "page", d, built + 1) /\ n.arg = v.index
    <3>1. v.index \in 0..LastPage
      BY <2>1 DEF ViewT
    <3>2. FirstPage(n, v.index, d, built + 1)
      BY DEF FirstPage
    <3> HIDE DEF n, v, N, w
    <3> QED BY <1>0, <3>1, <3>2, FreshPage
  <2>6. w \in ViewT /\ w.index = v.index /\ w.doc = v.doc /\ w.failed = v.failed
        /\ w.loading = (v.loading \/ Unseen(v)) /\ ~Unseen(w)
    BY <2>1 DEF ViewT, Unseen
  <2>7. IsFiniteSet(N) /\ (\A m \in N : m = n /\ Unseen(v)) /\ (Unseen(v) => n \in N)
    BY FS_Singleton, FS_EmptySet
  <2> HIDE DEF n, w, N, others, v
  <2>8. Newly(N, d)
    BY <1>4, <2>5, <2>7 DEF Newly, Fresh, KindsOf
  <2>9. \A m \in N : m.kind # "form"
    BY <2>5, <2>7 DEF Fresh
  <2>10. /\ RequestsOK(posted', panel, d, built')
         /\ ProposalsOK(posted', paper, NotYet, d)
         /\ LinksOK(posted', paper, NotYet, d, linkKeys, keysGiven, panelActs')
         /\ \A r, q \in posted' : Latter(r, q, built')
         /\ SendOK(posted', sendOn', built')
    BY <1>0, <1>1, <2>4, <2>8, <2>9, BuildRequests DEF others
  <2>11. /\ pageView' \in [Paper -> ViewT] /\ pageView'[d] = w
         /\ \A e \in Paper : e # d => pageView'[e] = pageView[e]
         /\ pagesAsked' \in [Paper -> Int]
         /\ pagesAsked'[d] = pagesAsked[d] + IF Unseen(v) THEN 1 ELSE 0
         /\ \A e \in Paper : e # d => pagesAsked'[e] = pagesAsked[e]
    BY <2>1, <2>4, <2>6
  <2>12. \A r : r.kind = "page" /\ r \in posted' <=> r.kind = "page" /\ (r \in posted \/ r \in N)
    BY <1>2, <2>4 DEF others
  <2>13. /\ pageView[d] = v /\ n.kind = "page" /\ n.paper = d
         /\ Unseen(v) => ~v.loading /\ v.doc = NoPage
    BY <2>5 DEF v, Fresh, Unseen
  <2>14. PagesOK(posted', pageView', pagesAsked')
    <3>1. \A e \in Paper : pagesAsked'[e] <= 1 /\ (Unseen(pageView'[e]) => pagesAsked'[e] <= 0)
      <4>1. pagesAsked'[d] <= 1
        BY <1>0, <2>1, <2>11, <2>13 DEF PagesOK
      <4> QED BY <1>0, <2>6, <2>11, <4>1 DEF PagesOK
    <3>2. \A r, q \in posted' : r.kind = "page" /\ q.kind = "page" /\ r.paper = q.paper => r = q
      BY <1>0, <2>7, <2>12, <2>13 DEF PagesOK
    <3>3. \A r \in posted : r.kind = "page" => r.paper \in Paper
      BY DEF PanelInd, RequestsOK, RequestIn, PostT
    <3>4. v.index \in 0..LastPage
      BY <2>1 DEF ViewT
    <3>5. \A r \in posted' : r.kind = "page" => r.arg \in 0..LastPage /\ pageView'[r.paper].loading
      BY <1>0, <2>5, <2>6, <2>7, <2>11, <2>12, <2>13, <3>3, <3>4 DEF PagesOK
    <3>6. ASSUME NEW e \in Paper, pageView'[e].loading
          PROVE  pageView'[e].doc = NoPage /\ \E r \in posted' : r.kind = "page" /\ r.paper = e
      <4>1. CASE e = d /\ Unseen(v)
        BY <2>6, <2>7, <2>11, <2>12, <2>13, <4>1
      <4>2. CASE ~(e = d /\ Unseen(v))
        <5>1. pageView[e].loading /\ pageView'[e].doc = pageView[e].doc
          BY <2>6, <2>11, <2>13, <3>6, <4>2
        <5> QED BY <1>0, <2>12, <5>1 DEF PagesOK
      <4> QED BY <4>1, <4>2
    <3> QED BY <2>11, <3>1, <3>2, <3>5, <3>6 DEF PagesOK
  <2>15. figure' \in FigureT
    BY <2>1, <2>3, BlankTyped, DrawPageTyped
  <2>16. slips' \subseteq {"strayed"} => TurnsOK(posted', pageView', figure', d, built')
    <3> SUFFICES ASSUME slips' \subseteq {"strayed"} PROVE TurnsOK(posted', pageView', figure', d, built')
      OBVIOUS
    <3>1. ~v.loading /\ slips \subseteq {"strayed"}
      BY <2>3
    <3>2. TurnsOK(posted, pageView, figure, opened, built)
      BY <1>4, <3>1 DEF PanelInd
    <3>3. \A r \in posted : r.kind = "page" => r.paper # d /\ r.paper \in Paper
      BY <1>0, <2>13, <3>1 DEF PagesOK, PanelInd, RequestsOK, RequestIn, PostT
    <3>4. \A r \in posted' : r.kind = "page" =>
            r.arg = pageView'[r.paper].index /\ (r.paper = d => r.built = built')
      BY <1>1, <2>5, <2>6, <2>7, <2>11, <2>12, <3>2, <3>3 DEF TurnsOK, Fresh
    <3>5. \A e \in Paper : pageView'[e].doc # NoPage /\ ~pageView'[e].failed =>
            pageView'[e].doc = pageView'[e].index
      BY <2>6, <2>11, <2>13, <3>2 DEF TurnsOK
    <3>6. figure'.page = pageView'[d].index \/ pageView'[d].failed \/ pageView'[d].loading
      <4>1. CASE v.failed \/ Unseen(v)
        BY <2>6, <2>11, <4>1
      <4>2. CASE ~v.failed /\ ~Unseen(v)
        <5>1. v.doc # NoPage
          BY <3>1, <4>2 DEF Unseen
        <5>2. figure'.page = v.doc
          BY <2>1, <2>3, <4>2, BlankTyped, DrawPageTyped
        <5> QED BY <2>6, <2>11, <2>13, <3>2, <4>2, <5>1, <5>2 DEF TurnsOK
      <4> QED BY <4>1, <4>2
    <3> QED BY <3>4, <3>5, <3>6 DEF TurnsOK
  <2>17. sendOn' \in BOOLEAN
    BY <1>1
  <2> QED BY <1>0, <1>1, <1>4, <2>10, <2>14, <2>15, <2>16, <2>17 DEF PanelInd
<1> QED BY <1>3, <1>4

---------------------------------------------------------------------------
(* Pages are turned and come.                                              *)

\* A request that is asked again, or for the first time: nobody has served it, and
\* what it knows is known already.
Renewed(n) ==
  /\ n \in PostT /\ n.kind \in KindsOf(panel) /\ n.kind \notin {"post", "form"}
  /\ n.verb \in {"none", "workspace"} /\ n.turn = 0
  /\ n.built <= built /\ (n.built = built => n.paper = opened)
  /\ n.body = NotYet \/ \E r \in posted : n.body = r.body /\ n.paper = r.paper

LEMMA RequestsRenewed ==
  ASSUME PanelInd, NEW R, R \subseteq posted, NEW N, IsFiniteSet(N), \A n \in N : Renewed(n),
         posted' = R \cup N, NEW seen2, ShownFrom(seen2, opened, shownList, opened, posted),
         panelActs' \in Nat, panelActs <= panelActs'
  PROVE  /\ RequestsOK(posted', panel, opened, built)
         /\ SendOK(posted', sendOn, built)
         /\ FromOld(posted', posted)
         /\ ProposalsOK(posted', paper, seen2, opened)
         /\ LinksOK(posted', paper, seen2, opened, linkKeys, keysGiven, panelActs')
         /\ \A q, w \in posted' : Latter(q, w, built)
<1>1. /\ RequestsOK(posted, panel, opened, built) /\ SendOK(posted, sendOn, built)
      /\ ProposalsOK(posted, paper, shownList, opened)
      /\ LinksOK(posted, paper, shownList, opened, linkKeys, keysGiven, panelActs)
      /\ \A q, w \in posted : Latter(q, w, built)
  BY DEF PanelInd
<1>2. RequestsOK(posted', panel, opened, built)
  <2>1. IsFiniteSet(posted')
    <3>1. IsFiniteSet(R)
      BY <1>1, FS_Subset DEF RequestsOK
    <3> QED BY <3>1, FS_Union
  <2>2. ASSUME NEW n \in N PROVE RequestIn(n, panel, opened, built)
    <3>1. Renewed(n)
      OBVIOUS
    <3>2. ~Served(n)
      BY <3>1 DEF Served, Renewed
    <3> QED BY <3>1, <3>2 DEF RequestIn, Renewed
  <2> QED BY <1>1, <2>1, <2>2 DEF RequestsOK
<1>3. \A n \in posted' : n \in posted \/ Renewed(n)
  OBVIOUS
<1>4. FromOld(posted', posted)
  BY <1>3 DEF FromOld, Renewed
<1>5. SendOK(posted', sendOn, built)
  <2>1. \A n \in posted' : n \in posted \/ n.kind \notin {"post", "form"}
    BY <1>3 DEF Renewed
  <2> QED BY <1>1, <2>1, SendLess
<1>6. ProposalsOK(posted', paper, seen2, opened)
  BY <1>1, <1>4, ProposalsLess
<1>7. LinksOK(posted', paper, seen2, opened, linkKeys, keysGiven, panelActs')
  BY <1>1, <1>4, LinksLess
<1>8. \A q, w \in posted' : Latter(q, w, built)
  <2>1. \A n \in posted' : n \in posted \/ n.turn = 0
    BY <1>3 DEF Renewed
  <2> QED BY <1>1, <2>1, LatterLess
<1> QED BY <1>2, <1>4, <1>5, <1>6, <1>7, <1>8

LEMMA Squares == \A a, b \in Int : 0 <= a /\ a <= b => a * a <= b * b
<1> SUFFICES ASSUME NEW a \in Int, NEW b \in Int, 0 <= a, a <= b PROVE a * a <= b * b
  OBVIOUS
<1>1. a * a <= a * b
  OBVIOUS
<1>2. a * b <= b * b
  OBVIOUS
<1>3. a * a \in Int /\ a * b \in Int /\ b * b \in Int
  OBVIOUS
<1> QED BY <1>1, <1>2, <1>3

\* The turn goes to the page nearest to the one that was asked for.
LEMMA SquareLess ==
  ASSUME NEW a \in Int, NEW b \in Int, (a >= 0 /\ b >= a) \/ (a <= 0 /\ b <= a) \/ a = 0
  PROVE  a * a <= b * b
<1>1. CASE a >= 0 /\ b >= a
  BY <1>1, Squares
<1>2. CASE a <= 0 /\ b <= a
  <2>1. (-a) * (-a) <= (-b) * (-b)
    BY <1>2, Squares
  <2>2. (-a) * (-a) = a * a /\ (-b) * (-b) = b * b
    OBVIOUS
  <2> QED BY <2>1, <2>2
<1>3. CASE a = 0
  <2>1. b * b >= 0
    OBVIOUS
  <2> QED BY <1>3, <2>1
<1> QED BY <1>1, <1>2, <1>3

\* The turn goes to the page nearest to the one that was asked for.
LEMMA NearestPage ==
  ASSUME NEW last \in Nat, NEW x \in Int, NEW delta \in Int
  PROVE  (CHOOSE i \in 0 .. last :
            \A k \in 0 .. last : (i - x - delta) * (i - x - delta) <= (k - x - delta) * (k - x - delta))
         \in 0 .. last
<1> DEFINE t == x + delta
           w == IF t < 0 THEN 0 ELSE IF t > last THEN last ELSE t
<1>1. w \in 0 .. last
  OBVIOUS
<1>2. \A k \in 0 .. last : LET a == w - x - delta
                              b == k - x - delta
                          IN  /\ a \in Int /\ b \in Int
                              /\ (a >= 0 /\ b >= a) \/ (a <= 0 /\ b <= a) \/ a = 0
  OBVIOUS
<1> HIDE DEF w
<1>3. \A k \in 0 .. last : (w - x - delta) * (w - x - delta) <= (k - x - delta) * (k - x - delta)
  <2> SUFFICES ASSUME NEW k \in 0 .. last
               PROVE  (w - x - delta) * (w - x - delta) <= (k - x - delta) * (k - x - delta)
    OBVIOUS
  <2> DEFINE a == w - x - delta
             b == k - x - delta
  <2>1. /\ a \in Int /\ b \in Int
        /\ (a >= 0 /\ b >= a) \/ (a <= 0 /\ b <= a) \/ a = 0
    BY <1>2
  <2> HIDE DEF a, b
  <2>2. a * a <= b * b
    BY <2>1, SquareLess
  <2> QED BY <2>2, Zenon DEF a, b
<1> QED BY <1>1, <1>3

\* The request for a turned page.
TurnedPage(n, i) == n = [Asking("page", "none", i) EXCEPT !.paper = opened]

LEMMA FreshTurned ==
  ASSUME PanelInd, NEW i \in 0..LastPage, NEW n, TurnedPage(n, i)
  PROVE  Fresh(n, "page", opened, built) /\ n.arg = i
<1> DEFINE a == Asking("page", "none", i)
<1>1. Fresh(a, "page", opened, built) /\ a.arg = i /\ opened \in Paper
  BY FreshAsking, PanelConsts DEF PanelInd
<1>2. n = [a EXCEPT !.paper = opened]
  BY DEF TurnedPage
<1> HIDE DEF a
<1>3. /\ n \in PostT /\ n.kind = a.kind /\ n.verb = a.verb /\ n.turn = a.turn /\ n.ok = a.ok
      /\ n.body = a.body /\ n.arg = a.arg /\ n.paper = opened /\ n.built = a.built
  BY <1>1, <1>2 DEF PostT, Fresh
<1> QED BY <1>1, <1>3 DEF Fresh

\* The page is turned from what v tells of it to what w tells, with the request N.
Turning(v, w, to, N) ==
  /\ v = pageView[opened] /\ to \in 0..LastPage /\ w \in ViewT
  /\ w.index = to /\ w.doc = NoPage /\ w.failed = v.failed /\ w.loading
  /\ IsFiniteSet(N) /\ (v.loading => N = {})
  /\ ~v.loading => \E n \in N : N = {n} /\ Fresh(n, "page", opened, built) /\ n.arg = to
  /\ pageView' = [pageView EXCEPT ![opened] = w]
  /\ figure' \in FigureT
  /\ posted' = posted \cup N
  /\ pagesAsked' = [pagesAsked EXCEPT ![opened] = pagesAsked[opened] + (IF v.loading THEN -1 ELSE 0)]
  /\ slips' = IF v.loading THEN slips \cup {"turned"} ELSE slips

LEMMA TurnTurns ==
  ASSUME PanelInd, NEW delta \in {-1, 1}, Turn(delta)
  PROVE  \/ UNCHANGED <<pageView, pagesAsked, figure, posted, slips>>
         \/ \E v, w, to, N : Turning(v, w, to, N)
<1> DEFINE v == pageView[opened]
           last == IF v.doc = NoPage THEN 0 ELSE LastPage
           to == CHOOSE i \in 0 .. last :
                   \A k \in 0 .. last : (i - v.index - delta) * (i - v.index - delta)
                                         <= (k - v.index - delta) * (k - v.index - delta)
           turned == [v EXCEPT !.index = to, !.doc = NoPage]
           page == LoadPage(opened, turned)
<1>1. v \in ViewT /\ v.index \in Int /\ opened \in Paper /\ pageView \in [Paper -> ViewT]
      /\ pagesAsked \in [Paper -> Int] /\ figure \in FigureT
  BY PanelConsts DEF PanelInd, PagesOK, ViewT
<1>2. to \in 0..LastPage
  <2> DEFINE x == v.index
  <2>1. last \in Nat /\ last <= LastPage
    BY PanelConsts
  <2>2. x \in Int /\ delta \in Int
    BY <1>1
  <2> HIDE DEF v, last, x
  <2>3. (CHOOSE i \in 0 .. last :
            \A k \in 0 .. last : (i - x - delta) * (i - x - delta) <= (k - x - delta) * (k - x - delta))
         \in 0 .. last
    BY <2>1, <2>2, NearestPage
  <2>4. to \in 0..last
    BY <2>3, Zenon DEF x
  <2> HIDE DEF to
  <2> QED BY <2>1, <2>4, PanelConsts
<1>3. \/ to = v.index /\ UNCHANGED <<pageView, pagesAsked, figure, posted, slips>>
      \/ /\ pageView' = [pageView EXCEPT ![opened] = page.view]
         /\ figure' = DrawPage(turned, figure)
         /\ posted' = posted \cup page.requests
         /\ pagesAsked' = [pagesAsked EXCEPT ![opened] = @ + Cardinality(page.requests) - 1]
         /\ slips' = IF v.loading THEN slips \cup {"turned"} ELSE slips
  BY Zenon DEF Turn, pageVars
<1> HIDE DEF to
<1>4. /\ turned \in ViewT /\ turned.index = to /\ turned.doc = NoPage
      /\ turned.failed = v.failed /\ turned.loading = v.loading
  BY <1>1, <1>2, PanelConsts DEF ViewT
<1> HIDE DEF v, turned
<1>5. DrawPage(turned, figure) \in FigureT
  BY <1>1, <1>4, DrawPageTyped
<1>6. CASE v.loading
  <2>1. page.view = turned /\ page.requests = {}
    BY <1>4, <1>6 DEF LoadPage
  <2>2. IsFiniteSet({}) /\ Cardinality({}) = 0
    BY FS_EmptySet
  <2>3. pagesAsked[opened] + 0 - 1 = pagesAsked[opened] + -1
    BY <1>1
  <2> HIDE DEF page
  <2>4. ASSUME pageView' = [pageView EXCEPT ![opened] = page.view],
               figure' = DrawPage(turned, figure),
               posted' = posted \cup page.requests,
               pagesAsked' = [pagesAsked EXCEPT ![opened] = @ + Cardinality(page.requests) - 1],
               slips' = IF v.loading THEN slips \cup {"turned"} ELSE slips
        PROVE  Turning(v, turned, to, {})
    <3>1. pagesAsked' = [pagesAsked EXCEPT ![opened] = pagesAsked[opened] + -1]
      BY <2>1, <2>2, <2>3, <2>4
    <3> QED BY <1>2, <1>4, <1>5, <1>6, <2>1, <2>2, <2>4, <3>1 DEF Turning, v
  <2> QED BY <1>3, <2>4
<1>7. CASE ~v.loading
  <2> DEFINE n == [Asking("page", "none", turned.index) EXCEPT !.paper = opened]
             w == [turned EXCEPT !.loading = TRUE]
  <2>1. page.view = w /\ page.requests = {n}
    BY <1>4, <1>7 DEF LoadPage
  <2>2. IsFiniteSet({n}) /\ Cardinality({n}) = 1
    BY FS_Singleton
  <2>3. Fresh(n, "page", opened, built) /\ n.arg = to
    <3>1. TurnedPage(n, to)
      BY <1>4 DEF TurnedPage
    <3> HIDE DEF n
    <3> QED BY <1>2, <3>1, FreshTurned
  <2>4. /\ w \in ViewT /\ w.index = to /\ w.doc = NoPage /\ w.failed = v.failed /\ w.loading
    BY <1>4 DEF ViewT
  <2>5. pagesAsked[opened] + 1 - 1 = pagesAsked[opened] + 0
    BY <1>1
  <2> HIDE DEF page, n, w
  <2>6. ASSUME pageView' = [pageView EXCEPT ![opened] = page.view],
               figure' = DrawPage(turned, figure),
               posted' = posted \cup page.requests,
               pagesAsked' = [pagesAsked EXCEPT ![opened] = @ + Cardinality(page.requests) - 1],
               slips' = IF v.loading THEN slips \cup {"turned"} ELSE slips
        PROVE  Turning(v, w, to, {n})
    <3>1. pagesAsked' = [pagesAsked EXCEPT ![opened] = pagesAsked[opened] + 0]
      BY <2>1, <2>2, <2>5, <2>6
    <3> QED BY <1>2, <1>5, <1>7, <2>1, <2>2, <2>3, <2>4, <2>6, <3>1 DEF Turning, v
  <2> QED BY <1>3, <2>6
<1> QED BY <1>6, <1>7

LEMMA TurnKeeps ==
  ASSUME PanelInd, NEW delta \in {-1, 1}, Turn(delta)
  PROVE  PanelInd'
<1>1. /\ panel = "pages" /\ Acts
      /\ UNCHANGED <<panel, paper, opened, built, shownList, sendOn, marked, linkKeys, keysGiven>>
  BY DEF Turn, keyVars
<1>2. /\ panelActs' \in 0..MaxPanelActs /\ panelActs \in Nat /\ panelActs' \in Nat
      /\ panelActs <= panelActs'
  BY <1>1, ActsCounted
<1>3. ShownFrom(shownList, opened, shownList, opened, posted)
  BY DEF ShownFrom
<1>4. CASE UNCHANGED <<pageView, pagesAsked, figure, posted, slips>>
  <2>1. LinksOK(posted, paper, shownList, opened, linkKeys, keysGiven, panelActs')
    <3>1. FromOld(posted, posted)
      BY DEF FromOld
    <3> QED BY <1>2, <1>3, <3>1, LinksLess DEF PanelInd
  <2> QED BY <1>1, <1>2, <1>4, <2>1 DEF PanelInd
<1>5. CASE \E v, w, to, N : Turning(v, w, to, N)
  <2> PICK v, w, to, N : Turning(v, w, to, N)
    BY <1>5
  <2>1. /\ v = pageView[opened] /\ w \in ViewT /\ to \in 0..LastPage
        /\ w.index = to /\ w.doc = NoPage /\ w.failed = v.failed /\ w.loading
        /\ IsFiniteSet(N) /\ (v.loading => N = {})
        /\ \A n \in N : Fresh(n, "page", opened, built) /\ n.arg = to
        /\ \A n, m \in N : n = m
        /\ ~v.loading => \E n \in N : Fresh(n, "page", opened, built) /\ n.arg = to
        /\ posted' = posted \cup N
        /\ slips' = IF v.loading THEN slips \cup {"turned"} ELSE slips
        /\ figure' \in FigureT
    BY DEF Turning
  <2>2. /\ PagesOK(posted, pageView, pagesAsked) /\ opened \in Paper /\ built \in Nat /\ panel \in Panel
        /\ \A r \in posted : r.paper \in Paper
    BY DEF PanelInd, RequestsOK, RequestIn, PostT
  <2>3. /\ pageView' \in [Paper -> ViewT] /\ pageView'[opened] = w
        /\ \A e \in Paper : e # opened => pageView'[e] = pageView[e]
        /\ pagesAsked' \in [Paper -> Int]
        /\ pagesAsked'[opened] = pagesAsked[opened] + (IF v.loading THEN -1 ELSE 0)
        /\ \A e \in Paper : e # opened => pagesAsked'[e] = pagesAsked[e]
    BY <2>1, <2>2 DEF Turning, PagesOK
  <2>4. \A n \in N : Renewed(n)
    BY <1>1, <2>1, <2>2 DEF Renewed, Fresh, KindsOf
  <2>5. /\ RequestsOK(posted', panel, opened, built)
        /\ SendOK(posted', sendOn, built)
        /\ ProposalsOK(posted', paper, shownList, opened)
        /\ LinksOK(posted', paper, shownList, opened, linkKeys, keysGiven, panelActs')
        /\ \A q, x \in posted' : Latter(q, x, built)
    BY <1>2, <1>3, <2>1, <2>4, RequestsRenewed
  <2>6. \A r \in posted' : r \in posted \/ r \in N
    BY <2>1
  <2>7. \A n \in N : n.kind = "page" /\ n.paper = opened /\ n.built = built /\ n.arg = to /\ ~v.loading
    BY <2>1 DEF Fresh
  <2>8. PagesOK(posted', pageView', pagesAsked')
    <3>1. \A e \in Paper : pagesAsked'[e] <= 1 /\ (Unseen(pageView'[e]) => pagesAsked'[e] <= 0)
      <4>1. pagesAsked'[opened] <= 1 /\ ~Unseen(w)
        BY <2>1, <2>2, <2>3 DEF PagesOK, Unseen
      <4> QED BY <2>2, <2>3, <4>1 DEF PagesOK
    <3>2. \A r, q \in posted' : r.kind = "page" /\ q.kind = "page" /\ r.paper = q.paper => r = q
      <4>1. \A r \in posted, n \in N : ~(r.kind = "page" /\ r.paper = opened)
        BY <2>1, <2>2, <2>7 DEF PagesOK
      <4> QED BY <2>1, <2>2, <2>6, <2>7, <4>1 DEF PagesOK
    <3>3. \A r \in posted' : r.kind = "page" => r.arg \in 0..LastPage /\ pageView'[r.paper].loading
      BY <2>1, <2>2, <2>3, <2>6, <2>7 DEF PagesOK
    <3>4. ASSUME NEW e \in Paper, pageView'[e].loading
          PROVE  pageView'[e].doc = NoPage /\ \E r \in posted' : r.kind = "page" /\ r.paper = e
      <4>1. CASE e = opened /\ ~v.loading
        BY <2>1, <2>3, <2>7, <4>1
      <4>2. CASE e = opened /\ v.loading
        BY <2>1, <2>2, <2>3, <4>2 DEF PagesOK
      <4>3. CASE e # opened
        BY <2>1, <2>2, <2>3, <3>4, <4>3 DEF PagesOK
      <4> QED BY <4>1, <4>2, <4>3
    <3> QED BY <2>3, <3>1, <3>2, <3>3, <3>4 DEF PagesOK
  <2>9. slips' \subseteq {"strayed"} => TurnsOK(posted', pageView', figure', opened, built)
    <3> SUFFICES ASSUME slips' \subseteq {"strayed"}
                 PROVE  TurnsOK(posted', pageView', figure', opened, built)
      OBVIOUS
    <3>1. ~v.loading /\ slips \subseteq {"strayed"}
      BY <2>1
    <3>2. TurnsOK(posted, pageView, figure, opened, built)
      BY <1>1, <3>1 DEF PanelInd
    <3>3. \A r \in posted : r.kind = "page" => r.paper # opened
      BY <2>1, <2>2, <3>1 DEF PagesOK
    <3>4. \A r \in posted' : r.kind = "page" =>
            r.arg = pageView'[r.paper].index /\ (r.paper = opened => r.built = built)
      BY <2>1, <2>2, <2>3, <2>6, <2>7, <3>2, <3>3 DEF TurnsOK
    <3>5. \A e \in Paper : pageView'[e].doc # NoPage /\ ~pageView'[e].failed =>
            pageView'[e].doc = pageView'[e].index
      BY <2>1, <2>3, <3>2 DEF TurnsOK
    <3> QED BY <2>1, <2>3, <3>4, <3>5 DEF TurnsOK
  <2> QED BY <1>1, <1>2, <2>1, <2>5, <2>8, <2>9 DEF PanelInd
<1> QED BY <1>4, <1>5, TurnTurns

LEMMA PageArrivesKeeps ==
  ASSUME PanelInd, NEW r \in posted, PageArrives(r)
  PROVE  PanelInd'
<1> DEFINE old == pageView[r.paper]
           v == IF Served(r) THEN [old EXCEPT !.doc = r.arg, !.failed = FALSE, !.loading = FALSE]
                ELSE [old EXCEPT !.failed = TRUE, !.loading = FALSE]
           R == posted \ {r}
           none == {}
<1>1. /\ r.kind = "page" /\ pageView' = [pageView EXCEPT ![r.paper] = v]
      /\ figure' = IF OnPage(r) THEN DrawPage(v, figure) ELSE figure
      /\ posted' = posted \ {r}
      /\ UNCHANGED <<panel, paper, opened, built, shownList, sendOn, marked, pagesAsked, linkKeys,
                     keysGiven, panelActs, slips>>
  BY DEF PageArrives, keyVars
<1>2. /\ PagesOK(posted, pageView, pagesAsked) /\ panel \in Panel /\ figure \in FigureT
      /\ panelActs \in Nat /\ panelActs' \in Nat /\ panelActs <= panelActs'
      /\ \A q \in posted : q.paper \in Paper /\ q.kind \in KindsOf(panel)
                           /\ (q.built = built => q.paper = opened)
  BY <1>1, PanelConsts DEF PanelInd, RequestsOK, RequestIn, PostT
<1>3. panel = "pages"
  BY <1>1, <1>2 DEF KindsOf, Panel
<1>4. /\ old \in ViewT /\ old.loading /\ r.arg \in 0..LastPage
      /\ pageView \in [Paper -> ViewT] /\ r.paper \in Paper
  BY <1>1, <1>2 DEF PagesOK
<1>5. /\ v \in ViewT /\ v.index = old.index /\ ~v.loading
      /\ Served(r) => v.doc = r.arg /\ ~v.failed
      /\ ~Served(r) => v.failed
      /\ ~Unseen(v)
  <2>1. CASE Served(r)
    <3>1. v = [old EXCEPT !.doc = r.arg, !.failed = FALSE, !.loading = FALSE]
      BY <2>1
    <3> HIDE DEF v, old
    <3>2. /\ v \in ViewT /\ v.index = old.index /\ v.loading = FALSE /\ v.doc = r.arg /\ v.failed = FALSE
      BY <1>4, <3>1 DEF ViewT
    <3>3. r.arg # NoPage
      BY <1>4, PanelConsts
    <3> QED BY <2>1, <3>2, <3>3 DEF Unseen
  <2>2. CASE ~Served(r)
    <3>1. v = [old EXCEPT !.failed = TRUE, !.loading = FALSE]
      BY <2>2
    <3> HIDE DEF v, old
    <3>2. v \in ViewT /\ v.index = old.index /\ v.loading = FALSE /\ v.failed = TRUE
      BY <1>4, <3>1 DEF ViewT
    <3> QED BY <2>2, <3>2 DEF Unseen
  <2> QED BY <2>1, <2>2
<1> HIDE DEF v, old
<1>6. /\ pageView' \in [Paper -> ViewT] /\ pageView'[r.paper] = v
      /\ \A e \in Paper : e # r.paper => pageView'[e] = pageView[e]
  BY <1>1, <1>4, <1>5
<1>7. figure' \in FigureT
  BY <1>1, <1>2, <1>5, DrawPageTyped
<1>8. /\ RequestsOK(posted', panel, opened, built)
      /\ SendOK(posted', sendOn, built)
      /\ ProposalsOK(posted', paper, shownList, opened)
      /\ LinksOK(posted', paper, shownList, opened, linkKeys, keysGiven, panelActs')
      /\ \A q, x \in posted' : Latter(q, x, built)
  <2>1. /\ R \subseteq posted /\ IsFiniteSet(none) /\ (\A n \in none : Renewed(n))
        /\ posted' = R \cup none
    BY <1>1, FS_EmptySet
  <2>2. ShownFrom(shownList, opened, shownList, opened, posted)
    BY DEF ShownFrom
  <2> HIDE DEF R, none
  <2> QED BY <1>2, <2>1, <2>2, RequestsRenewed
<1>9. \A q \in posted' : q \in posted /\ (q.kind = "page" => q.paper # r.paper)
  BY <1>1, <1>2 DEF PagesOK
<1>10. PagesOK(posted', pageView', pagesAsked')
  <2>1. \A e \in Paper : pagesAsked'[e] <= 1 /\ (Unseen(pageView'[e]) => pagesAsked'[e] <= 0)
    BY <1>1, <1>2, <1>5, <1>6 DEF PagesOK
  <2>2. \A q \in posted' : q.kind = "page" => q.arg \in 0..LastPage /\ pageView'[q.paper].loading
    BY <1>2, <1>6, <1>9 DEF PagesOK
  <2>3. ASSUME NEW e \in Paper, pageView'[e].loading
        PROVE  pageView'[e].doc = NoPage /\ \E q \in posted' : q.kind = "page" /\ q.paper = e
    <3>1. e # r.paper /\ pageView'[e] = pageView[e]
      BY <1>5, <1>6, <2>3
    <3>2. pageView[e].doc = NoPage /\ \E q \in posted : q.kind = "page" /\ q.paper = e
      BY <1>2, <2>3, <3>1 DEF PagesOK
    <3> QED BY <1>1, <3>1, <3>2
  <2>4. pagesAsked' \in [Paper -> Int]
    BY <1>1, <1>2 DEF PagesOK
  <2>5. \A q, x \in posted' : q.kind = "page" /\ x.kind = "page" /\ q.paper = x.paper => q = x
    BY <1>2, <1>9 DEF PagesOK
  <2> QED BY <1>6, <2>1, <2>2, <2>3, <2>4, <2>5 DEF PagesOK
<1>11. slips' \subseteq {"strayed"} => TurnsOK(posted', pageView', figure', opened, built)
  <2> SUFFICES ASSUME slips' \subseteq {"strayed"}
               PROVE  TurnsOK(posted', pageView', figure', opened, built)
    OBVIOUS
  <2>1. TurnsOK(posted, pageView, figure, opened, built)
    BY <1>1, <1>3 DEF PanelInd
  <2>2. r.arg = old.index /\ (r.paper = opened => OnPage(r))
    BY <1>1, <2>1 DEF TurnsOK, OnPage, old
  <2>3. \A q \in posted' : q.kind = "page" =>
          q.arg = pageView'[q.paper].index /\ (q.paper = opened => q.built = built)
    BY <1>2, <1>6, <1>9, <2>1 DEF TurnsOK
  <2>4. \A e \in Paper : pageView'[e].doc # NoPage /\ ~pageView'[e].failed =>
          pageView'[e].doc = pageView'[e].index
    BY <1>5, <1>6, <2>1, <2>2 DEF TurnsOK
  <2>5. built > 0 => \/ figure'.page = pageView'[opened].index \/ pageView'[opened].failed
                     \/ pageView'[opened].loading
    <3>1. CASE OnPage(r)
      <4>1. r.paper = opened
        BY <1>2, <3>1 DEF OnPage
      <4>2. v.failed \/ figure'.page = v.doc
        BY <1>1, <1>2, <1>5, <3>1, DrawPageTyped
      <4> QED BY <1>5, <1>6, <2>2, <4>1, <4>2
    <3>2. CASE ~OnPage(r)
      <4>1. opened # r.paper /\ opened \in Paper
        BY <2>2, <3>2 DEF PanelInd
      <4> QED BY <1>1, <1>6, <2>1, <3>2, <4>1 DEF TurnsOK
    <3> QED BY <3>1, <3>2
  <2> QED BY <2>3, <2>4, <2>5 DEF TurnsOK
<1> QED BY <1>1, <1>3, <1>7, <1>8, <1>10, <1>11 DEF PanelInd

---------------------------------------------------------------------------
(* Answers come, or are lost.                                              *)

\* Nothing of the pages is touched by what is not one of their requests.
LEMMA PagesAside ==
  ASSUME PanelInd, UNCHANGED <<panel, opened, built, pageView, pagesAsked, figure>>,
         slips \subseteq slips',
         \A q \in posted : q.kind = "page" => q \in posted',
         \A q \in posted' : q.kind = "page" => q \in posted
  PROVE  /\ PagesOK(posted', pageView', pagesAsked')
         /\ panel' = "pages" /\ slips' \subseteq {"strayed"} =>
              TurnsOK(posted', pageView', figure', opened', built')
<1>1. PagesOK(posted', pageView, pagesAsked)
  BY PagesLess DEF PanelInd
<1>2. TurnsOK(posted, pageView, figure, opened, built) =>
        TurnsOK(posted', pageView, figure, opened, built)
  BY DEF TurnsOK
<1> QED BY <1>1, <1>2 DEF PanelInd

\* What carries nothing to the panel and asks for nothing may come and go.
LEMMA NeitherComes ==
  ASSUME NEW ps, NEW qs, NEW p, NEW side, NEW seen, NEW d, NEW b, SettleOK(ps, p, side, seen, d, b),
         \A q \in ps : q \in qs \/ (~Carries(q, p, b) /\ ~Awaits(q, p, d, b)),
         \A q \in qs : q \in ps \/ (~Carries(q, p, b) /\ ~Awaits(q, p, d, b))
  PROVE  SettleOK(qs, p, side, seen, d, b)
<1> SUFFICES ASSUME b > 0, \A q \in qs : ~Awaits(q, p, d, b)
             PROVE  /\ (\A q \in qs : ~Carries(q, p, b)) => seen = side[d]
                    /\ \A q \in qs :
                         Carries(q, p, b) /\ (\A w \in qs : Carries(w, p, b) => w.turn <= q.turn)
                         => q.body = side[d]
  BY DEF SettleOK
<1>1. \A q : q \in qs /\ Carries(q, p, b) <=> q \in ps /\ Carries(q, p, b)
  OBVIOUS
<1>2. \A q \in ps : ~Awaits(q, p, d, b)
  OBVIOUS
<1>3. /\ (\A q \in ps : ~Carries(q, p, b)) => seen = side[d]
      /\ \A q \in ps :
           Carries(q, p, b) /\ (\A w \in ps : Carries(w, p, b) => w.turn <= q.turn)
           => q.body = side[d]
  BY <1>2 DEF SettleOK
<1> QED BY <1>1, <1>3

\* The content comes to the panel, and no earlier one is still on its way.
LEMMA CarrierComes ==
  ASSUME NEW ps, NEW qs, NEW p, NEW side, NEW seen, NEW d, NEW b, SettleOK(ps, p, side, seen, d, b),
         NEW r \in ps, Carries(r, p, b), ~Awaits(r, p, d, b),
         \A q \in ps : q.turn \in Nat,
         \A q \in ps : Carries(q, p, b) => ~(q.turn < r.turn),
         \A q \in ps : q \in qs \/ q = r,
         \A q \in qs : (q \in ps /\ q # r) \/ (~Carries(q, p, b) /\ ~Awaits(q, p, d, b))
  PROVE  SettleOK(qs, p, side, r.body, d, b)
<1> SUFFICES ASSUME b > 0, \A q \in qs : ~Awaits(q, p, d, b)
             PROVE  /\ (\A q \in qs : ~Carries(q, p, b)) => r.body = side[d]
                    /\ \A q \in qs :
                         Carries(q, p, b) /\ (\A w \in qs : Carries(w, p, b) => w.turn <= q.turn)
                         => q.body = side[d]
  BY DEF SettleOK
<1>1. \A q \in ps : ~Awaits(q, p, d, b)
  OBVIOUS
<1>2. \A q \in ps :
        Carries(q, p, b) /\ (\A w \in ps : Carries(w, p, b) => w.turn <= q.turn)
        => q.body = side[d]
  BY <1>1 DEF SettleOK
<1>3. ASSUME \A q \in qs : ~Carries(q, p, b)
      PROVE  r.body = side[d]
  <2>1. \A w \in ps : Carries(w, p, b) => w = r
    BY <1>3
  <2> QED BY <1>2, <2>1
<1>4. ASSUME NEW q \in qs, Carries(q, p, b), \A w \in qs : Carries(w, p, b) => w.turn <= q.turn
      PROVE  q.body = side[d]
  <2>1. q \in ps
    BY <1>4
  <2>2. r.turn <= q.turn
    BY <1>4, <2>1
  <2>3. \A w \in ps : Carries(w, p, b) => w.turn <= q.turn
    BY <1>4, <2>2
  <2> QED BY <1>2, <1>4, <2>1, <2>3
<1> QED BY <1>3, <1>4

\* What comes is taken off the way: R is what is left of it, N what is asked for next.
LEMMA OthersStay ==
  ASSUME PanelInd, NEW r \in posted, r.kind # "page", NEW N, IsFiniteSet(N), \A n \in N : Renewed(n),
         posted' = (posted \ {r}) \cup N, \A n \in N : n.kind # "page",
         UNCHANGED <<panel, paper, opened, built, pageView, pagesAsked, figure, panelActs>>,
         slips \subseteq slips',
         shownList' = shownList \/ (OnPage(r) /\ Served(r) /\ shownList' = r.body)
  PROVE  /\ RequestsOK(posted', panel, opened, built)
         /\ SendOK(posted', sendOn, built)
         /\ FromOld(posted', posted)
         /\ ProposalsOK(posted', paper, shownList', opened)
         /\ LinksOK(posted', paper, shownList', opened, linkKeys, keysGiven, panelActs')
         /\ \A q, w \in posted' : Latter(q, w, built)
         /\ PagesOK(posted', pageView', pagesAsked')
         /\ panel' = "pages" /\ slips' \subseteq {"strayed"} =>
              TurnsOK(posted', pageView', figure', opened', built')
         /\ shownList' \in AsideT \cup {NotYet}
<1> DEFINE R == posted \ {r}
<1>1. /\ panelActs \in Nat /\ panelActs' \in Nat /\ panelActs <= panelActs'
      /\ r.built = built => r.paper = opened
      /\ Served(r) => r.body \in AsideT
  BY PanelConsts DEF PanelInd, RequestsOK, RequestIn
<1>2. ShownFrom(shownList', opened, shownList, opened, posted)
  BY <1>1 DEF ShownFrom, OnPage
<1>3. R \subseteq posted /\ posted' = R \cup N
  OBVIOUS
<1>4. shownList' \in AsideT \cup {NotYet}
  BY <1>1 DEF PanelInd
<1>5. /\ \A q \in posted : q.kind = "page" => q \in posted'
      /\ \A q \in posted' : q.kind = "page" => q \in posted
  OBVIOUS
<1>6. /\ PagesOK(posted', pageView', pagesAsked')
      /\ panel' = "pages" /\ slips' \subseteq {"strayed"} =>
           TurnsOK(posted', pageView', figure', opened', built')
  BY <1>5, PagesAside
<1> HIDE DEF R
<1>7. /\ RequestsOK(posted', panel, opened, built)
      /\ SendOK(posted', sendOn, built)
      /\ FromOld(posted', posted)
      /\ ProposalsOK(posted', paper, shownList', opened)
      /\ LinksOK(posted', paper, shownList', opened, linkKeys, keysGiven, panelActs')
      /\ \A q, w \in posted' : Latter(q, w, built)
  BY <1>1, <1>2, <1>3, RequestsRenewed
<1> QED BY <1>4, <1>6, <1>7

\* A request is repeated as one for the list or for the page.
LEMMA RenewedFrom ==
  ASSUME PanelInd, NEW r \in posted, NEW n, NEW what \in {"read", "drive"}, NEW verb \in {"none", "workspace"},
         n \in PostT, n.kind = what, n.verb = verb, n.turn = 0, n.paper = r.paper, n.built = r.built,
         n.body = r.body, r.kind \in {"read", "post"}
  PROVE  Renewed(n)
<1>1. RequestIn(r, panel, opened, built) /\ panel \in Panel
  BY DEF PanelInd, RequestsOK
<1>2. n.kind \in KindsOf(panel)
  BY <1>1 DEF RequestIn, KindsOf, Panel
<1>3. n.body = NotYet \/ \E q \in posted : n.body = q.body /\ n.paper = q.paper
  OBVIOUS
<1> QED BY <1>1, <1>2, <1>3 DEF Renewed, RequestIn

\* The flow that goes on after the list came: the page is read again.
ThenDrive(r) == [r EXCEPT !.kind = "drive", !.turn = 0]

LEMMA DriveNext1 ==
  ASSUME PanelInd, NEW r \in posted, r.kind = "read", r.verb = "workspace"
  PROVE  Renewed(ThenDrive(r)) /\ ThenDrive(r).kind = "drive" /\ ThenDrive(r).turn = 0
<1> DEFINE n == ThenDrive(r)
<1>1. r \in PostT
  BY DEF PanelInd, RequestsOK, RequestIn
<1>2. /\ n \in PostT /\ n.kind = "drive" /\ n.verb = r.verb /\ n.turn = 0 /\ n.paper = r.paper
      /\ n.built = r.built /\ n.body = r.body
  BY <1>1 DEF ThenDrive, PostT
<1> HIDE DEF n
<1>3. Renewed(n)
  BY <1>2, RenewedFrom
<1> QED BY <1>2, <1>3 DEF n

LEMMA ListComesKeeps ==
  ASSUME PanelInd, NEW r \in posted, ListComes(r)
  PROVE  PanelInd'
<1> DEFINE N == IF r.verb = "workspace" THEN {ThenDrive(r)} ELSE {}
<1>1. /\ r.kind = "read" /\ Served(r)
      /\ shownList' = IF OnPage(r) THEN r.body ELSE shownList
      /\ marked' = IF panel = "comments" THEN MarkOf(r.body) ELSE marked
      /\ slips' = IF OnPage(r) THEN Slip(r) ELSE slips \cup {"strayed"}
      /\ UNCHANGED <<panel, paper, opened, built, sendOn, pageView, pagesAsked, figure, linkKeys,
                     keysGiven, panelActs>>
  BY DEF ListComes, pageVars, keyVars
<1>2. posted' = (posted \ {r}) \cup N
  <2>1. CASE r.verb = "workspace"
    BY <2>1 DEF ListComes, ThenDrive
  <2>2. CASE r.verb # "workspace"
    BY <2>2 DEF ListComes
  <2> QED BY <2>1, <2>2
<1>3. IsFiniteSet(N) /\ \A n \in N : n = ThenDrive(r) /\ r.verb = "workspace"
  BY FS_Singleton, FS_EmptySet
<1> HIDE DEF N
<1>4. \A n \in N : Renewed(n) /\ n.kind = "drive" /\ n.turn = 0
  BY <1>1, <1>3, DriveNext1
<1>5. slips \subseteq slips' /\ (OnPage(r) /\ slips' \subseteq {"strayed"} => ~Overtaken(r))
  BY <1>1 DEF Slip
<1>6. /\ RequestsOK(posted', panel, opened, built)
      /\ SendOK(posted', sendOn, built)
      /\ ProposalsOK(posted', paper, shownList', opened)
      /\ LinksOK(posted', paper, shownList', opened, linkKeys, keysGiven, panelActs')
      /\ \A q, w \in posted' : Latter(q, w, built)
      /\ PagesOK(posted', pageView', pagesAsked')
      /\ panel' = "pages" /\ slips' \subseteq {"strayed"} =>
           TurnsOK(posted', pageView', figure', opened', built')
      /\ shownList' \in AsideT \cup {NotYet}
  BY <1>1, <1>2, <1>3, <1>4, <1>5, OthersStay
<1>7. panel' # "pages" /\ slips' \subseteq {"strayed"} =>
        SettleOK(posted', panel, paper, shownList', opened, built)
  <2> SUFFICES ASSUME panel # "pages", slips' \subseteq {"strayed"}
               PROVE  SettleOK(posted', panel, paper, shownList', opened, built)
    BY <1>1
  <2>1. SettleOK(posted, panel, paper, shownList, opened, built)
    BY <1>5 DEF PanelInd
  <2>2. \A n \in N : ~Carries(n, panel, built) /\ ~Awaits(n, panel, opened, built)
    BY <1>4 DEF Carries, Awaits, Served
  <2>3. ~Awaits(r, panel, opened, built)
    BY <1>1 DEF Awaits
  <2>4. \A q \in posted : q.turn \in Nat /\ (q.built = built => q.paper = opened)
    BY DEF PanelInd, RequestsOK, RequestIn, PostT
  <2>5. CASE OnPage(r)
    <3>1. Carries(r, panel, built)
      BY <1>1, <2>5 DEF Carries, OnPage
    <3>2. \A q \in posted : Carries(q, panel, built) => ~(q.turn < r.turn)
      BY <1>5, <2>4, <2>5 DEF Overtaken, Carries, OnPage
    <3> QED BY <1>1, <1>2, <2>1, <2>2, <2>3, <2>4, <2>5, <3>1, <3>2, CarrierComes
  <2>6. CASE ~OnPage(r)
    <3>1. ~Carries(r, panel, built)
      BY <1>1, <2>6 DEF Carries, OnPage
    <3> QED BY <1>1, <1>2, <2>1, <2>2, <2>3, <2>6, <3>1, NeitherComes
  <2> QED BY <2>5, <2>6
<1>8. marked' \in BOOLEAN /\ (marked' => panel = "comments" /\ ("strayed" \in slips' \/ shownList'.thread = "open"))
  BY <1>1 DEF PanelInd, MarkOf
<1> QED BY <1>1, <1>6, <1>7, <1>8 DEF PanelInd

LEMMA ReadIsLostKeeps ==
  ASSUME PanelInd, NEW r \in posted, ReadIsLost(r)
  PROVE  PanelInd'
<1> DEFINE N == IF r.kind = "read" /\ r.verb = "workspace" THEN {ThenDrive(r)} ELSE {}
<1>1. /\ r.kind \in {"read", "form", "drive"} /\ slips' = slips \cup {"lost"}
      /\ UNCHANGED <<panel, paper, opened, built, shownList, sendOn, marked, pageView, pagesAsked,
                     figure, linkKeys, keysGiven, panelActs>>
  BY DEF ReadIsLost, screen, pageVars, keyVars
<1>2. posted' = (posted \ {r}) \cup N
  <2>1. CASE r.kind = "read" /\ r.verb = "workspace"
    BY <2>1 DEF ReadIsLost, ThenDrive
  <2>2. CASE ~(r.kind = "read" /\ r.verb = "workspace")
    BY <2>2 DEF ReadIsLost
  <2> QED BY <2>1, <2>2
<1>3. IsFiniteSet(N) /\ \A n \in N : n = ThenDrive(r) /\ r.kind = "read" /\ r.verb = "workspace"
  BY FS_Singleton, FS_EmptySet
<1> HIDE DEF N
<1>4. \A n \in N : Renewed(n) /\ n.kind = "drive" /\ n.turn = 0
  BY <1>1, <1>3, DriveNext1
<1>5. slips \subseteq slips' /\ ~(slips' \subseteq {"strayed"})
  BY <1>1
<1>6. /\ RequestsOK(posted', panel, opened, built)
      /\ SendOK(posted', sendOn, built)
      /\ ProposalsOK(posted', paper, shownList', opened)
      /\ LinksOK(posted', paper, shownList', opened, linkKeys, keysGiven, panelActs')
      /\ \A q, w \in posted' : Latter(q, w, built)
      /\ PagesOK(posted', pageView', pagesAsked')
  BY <1>1, <1>2, <1>3, <1>4, <1>5, OthersStay
<1> QED BY <1>1, <1>5, <1>6 DEF PanelInd

LEMMA FormComesKeeps ==
  ASSUME PanelInd, NEW r \in posted, FormComes(r)
  PROVE  PanelInd'
<1> DEFINE none == {}
<1>1. /\ r.kind = "form" /\ posted' = posted \ {r}
      /\ sendOn' = IF OnPage(r) THEN TRUE ELSE sendOn
      /\ UNCHANGED <<panel, paper, opened, built, shownList, marked, pageView, pagesAsked,
                     figure, linkKeys, keysGiven, panelActs, slips>>
  BY DEF FormComes, pageVars, keyVars
<1>2. /\ IsFiniteSet(none) /\ (\A n \in none : Renewed(n) /\ n.kind # "page")
      /\ posted' = (posted \ {r}) \cup none
  BY <1>1, FS_EmptySet
<1> HIDE DEF none
<1>3. /\ RequestsOK(posted', panel, opened, built)
      /\ SendOK(posted', sendOn, built)
      /\ ProposalsOK(posted', paper, shownList', opened)
      /\ LinksOK(posted', paper, shownList', opened, linkKeys, keysGiven, panelActs')
      /\ \A q, w \in posted' : Latter(q, w, built)
      /\ PagesOK(posted', pageView', pagesAsked')
      /\ panel' = "pages" /\ slips' \subseteq {"strayed"} =>
           TurnsOK(posted', pageView', figure', opened', built')
  BY <1>1, <1>2, OthersStay
<1>4. SendOK(posted', sendOn', built)
  <2>1. SendOK(posted, sendOn, built)
    BY DEF PanelInd
  <2>2. CASE OnPage(r)
    <3>1. \A q \in posted' : Sending(q) => q.built # built
      BY <1>1, <2>1, <2>2 DEF SendOK, OnPage
    <3>2. \A q \in posted' : q.kind = "form" => q.built # built
      BY <1>1, <2>1, <2>2 DEF SendOK, OnPage
    <3> QED BY <1>3, <3>1, <3>2 DEF SendOK
  <2>3. CASE ~OnPage(r)
    BY <1>1, <1>3, <2>3
  <2> QED BY <2>2, <2>3
<1>5. SettleOK(posted, panel, paper, shownList, opened, built) =>
        SettleOK(posted', panel, paper, shownList, opened, built)
  <2>1. ~Carries(r, panel, built) /\ ~Awaits(r, panel, opened, built)
    BY <1>1 DEF Carries, Awaits
  <2> QED BY <1>1, <2>1, NeitherComes
<1>6. sendOn' \in BOOLEAN
  BY <1>1 DEF PanelInd
<1> QED BY <1>1, <1>3, <1>4, <1>5, <1>6 DEF PanelInd

\* A change is read again by the panel that made it.
ThenRead(r) == [r EXCEPT !.kind = "read", !.turn = 0,
                         !.verb = IF r.verb \in {"accept", "reject"} THEN "workspace" ELSE "none"]

LEMMA RereadNext ==
  ASSUME PanelInd, NEW r \in posted, r.kind = "post"
  PROVE  /\ Renewed(ThenRead(r)) /\ ThenRead(r).kind = "read" /\ ThenRead(r).turn = 0
         /\ ThenRead(r).built = r.built
<1> DEFINE n == ThenRead(r)
           verb == IF r.verb \in {"accept", "reject"} THEN "workspace" ELSE "none"
<1>1. r \in PostT
  BY DEF PanelInd, RequestsOK, RequestIn
<1>2. verb \in {"none", "workspace"}
  OBVIOUS
<1>3. n = [r EXCEPT !.kind = "read", !.turn = 0, !.verb = verb]
  BY DEF ThenRead
<1> HIDE DEF n, verb
<1>4. /\ n \in PostT /\ n.kind = "read" /\ n.verb = verb /\ n.turn = 0 /\ n.paper = r.paper
      /\ n.built = r.built /\ n.body = r.body
  BY <1>1, <1>2, <1>3 DEF PostT
<1>5. Renewed(n)
  BY <1>2, <1>4, RenewedFrom
<1> QED BY <1>4, <1>5 DEF n

\* The answer to r, lost or not, with ok as the panel sees it and the requests N after it.
PostAnswered(r, ok, N) ==
  /\ r.kind = "post" /\ ok \in {FALSE, r.ok}
  /\ linkKeys' = (IF ok /\ r.verb = "link" THEN linkKeys \cup {r.arg}
                  ELSE IF ok /\ r.verb = "revoke-link" THEN linkKeys \ {r.arg} ELSE linkKeys)
  /\ keysGiven' = IF ok /\ r.verb = "link" THEN keysGiven \cup {r.arg} ELSE keysGiven
  /\ posted' = (posted \ {r}) \cup N
  /\ IsFiniteSet(N)
  /\ \A n \in N : /\ Renewed(n) /\ n.kind = "read" /\ n.turn = 0 /\ n.built = r.built
  /\ ok /\ panel \in {"comments", "suggestions", "answers"} => N # {}
  /\ ~ok \/ panel = "sharing" => N = {}
  /\ shownList' = IF ok /\ panel = "sharing" /\ r.verb # "deliver" /\ OnPage(r)
                  THEN r.body ELSE shownList
  /\ slips' = IF ok # r.ok \/ ~Served(r) THEN slips \cup {"lost"}
              ELSE IF ~OnPage(r) THEN slips \cup {"detached"}
              ELSE IF panel = "sharing" /\ r.verb # "deliver" THEN Slip(r) ELSE slips

LEMMA PostIsAnswered ==
  ASSUME PanelInd, NEW r \in posted, PostComes(r)
  PROVE  \E ok, N : PostAnswered(r, ok, N)
<1>1. r \in PostT /\ r.kind = "post"
  BY DEF PanelInd, RequestsOK, RequestIn, PostComes
<1>2. PICK ok \in {FALSE, r.ok} :
        /\ linkKeys' = KeysAfter([r EXCEPT !.ok = ok])
        /\ keysGiven' = IF ok /\ r.verb = "link" THEN keysGiven \cup {r.arg} ELSE keysGiven
        /\ posted' = (posted \ {r}) \cup (IF ok THEN Reread(r) ELSE {})
        /\ shownList' = IF ok /\ panel = "sharing" /\ r.verb # "deliver" /\ OnPage(r)
                        THEN r.body ELSE shownList
        /\ slips' = IF ok # r.ok \/ ~Served(r) THEN slips \cup {"lost"}
                    ELSE IF ~OnPage(r) THEN slips \cup {"detached"}
                    ELSE IF panel = "sharing" /\ r.verb # "deliver" THEN Slip(r) ELSE slips
  BY DEF PostComes
<1>3. ok \in BOOLEAN
  BY <1>1 DEF PostT
<1>4. linkKeys' = (IF ok /\ r.verb = "link" THEN linkKeys \cup {r.arg}
                   ELSE IF ok /\ r.verb = "revoke-link" THEN linkKeys \ {r.arg} ELSE linkKeys)
  <2> DEFINE n == [r EXCEPT !.ok = ok]
  <2>1. n.verb = r.verb /\ n.arg = r.arg /\ (n.ok <=> ok)
    BY <1>1, <1>3 DEF PostT
  <2>2. linkKeys' = KeysAfter(n)
    BY <1>2
  <2> HIDE DEF n
  <2>3. CASE ok /\ r.verb = "link"
    BY <2>1, <2>2, <2>3 DEF KeysAfter
  <2>4. CASE ok /\ r.verb = "revoke-link"
    BY <2>1, <2>2, <2>4 DEF KeysAfter
  <2>5. CASE ~(ok /\ r.verb \in {"link", "revoke-link"})
    BY <2>1, <2>2, <2>5 DEF KeysAfter
  <2> QED BY <2>3, <2>4, <2>5
<1> DEFINE N == IF ok THEN Reread(r) ELSE {}
<1>5. /\ \A n \in N : n = ThenRead(r)
      /\ ok /\ panel \in {"comments", "suggestions", "answers"} => ThenRead(r) \in N
      /\ ~ok \/ panel = "sharing" => N = {}
      /\ N = {} \/ N = {ThenRead(r)}
  BY DEF Reread, ThenRead
<1>6. posted' = (posted \ {r}) \cup N
  BY <1>2
<1> HIDE DEF N
<1>7. IsFiniteSet(N)
  <2>1. N = {} \/ \E m : N = {m}
    BY <1>5
  <2>2. IsFiniteSet({})
    BY FS_EmptySet
  <2>3. \A m : IsFiniteSet({m})
    BY FS_Singleton
  <2> QED BY <2>1, <2>2, <2>3
<1>8. \A n \in N : Renewed(n) /\ n.kind = "read" /\ n.turn = 0 /\ n.built = r.built
  <2>1. /\ Renewed(ThenRead(r)) /\ ThenRead(r).kind = "read" /\ ThenRead(r).turn = 0
        /\ ThenRead(r).built = r.built
    BY <1>1, RereadNext
  <2> QED BY <1>5, <2>1
<1>9. PostAnswered(r, ok, N)
  BY <1>1, <1>2, <1>4, <1>5, <1>6, <1>7, <1>8 DEF PostAnswered
<1> QED BY <1>9

\* A link's key comes with it and goes with it.
LEMMA KeysKept ==
  ASSUME NEW qs, NEW side, NEW seen, NEW d, NEW keys, NEW given, NEW count,
         LinksOK(qs, side, seen, d, keys, given, count), NEW m \in 1..count,
         \A q \in qs : Making(q) => q.arg # m
  PROVE  /\ LinksOK(qs, side, seen, d, keys \cup {m}, given \cup {m}, count)
         /\ (\A e \in Paper : m \notin side[e].links) =>
              LinksOK(qs, side, seen, d, keys \ {m}, given, count)
<1>1. LinksOK(qs, side, seen, d, keys \cup {m}, given \cup {m}, count)
  <2>1. \A q \in qs : Making(q) => q.arg \notin given \cup {m}
    BY DEF LinksOK
  <2>2. \A e \in Paper : side[e].links \cap (given \cup {m}) \subseteq keys \cup {m}
    BY DEF LinksOK
  <2> QED BY <2>1, <2>2 DEF LinksOK
<1>2. ASSUME \A e \in Paper : m \notin side[e].links
      PROVE  LinksOK(qs, side, seen, d, keys \ {m}, given, count)
  <2>1. \A e \in Paper : side[e].links \cap given \subseteq keys \ {m}
    BY <1>2 DEF LinksOK
  <2> QED BY <2>1 DEF LinksOK
<1> QED BY <1>1, <1>2

LEMMA PostComesKeeps ==
  ASSUME PanelInd, NEW r \in posted, PostComes(r)
  PROVE  PanelInd'
<1> PICK ok, N : PostAnswered(r, ok, N)
  BY PostIsAnswered
<1>1. /\ UNCHANGED <<panel, paper, opened, built, marked, pageView, pagesAsked, figure, panelActs>>
      /\ sendOn' = IF OnPage(r) /\ r.verb \in {"answer", "deliver"} THEN TRUE ELSE sendOn
      /\ r.kind = "post"
  BY DEF PostComes, pageVars
<1>2. /\ posted' = (posted \ {r}) \cup N /\ IsFiniteSet(N)
      /\ \A n \in N : Renewed(n) /\ n.kind = "read" /\ n.turn = 0 /\ n.built = r.built
      /\ ok \in {FALSE, r.ok}
  BY DEF PostAnswered
<1>3. /\ r \in PostT /\ (r.built = built => r.paper = opened) /\ r.verb \in VerbsOf(panel)
      /\ Served(r) => r.body \in AsideT
      /\ r.ok => Served(r)
      /\ Served(r) /\ panel = "sharing" => r.ok
      /\ panel \in Panel
  BY <1>1 DEF PanelInd, RequestsOK, RequestIn
<1>4. slips \subseteq slips'
  BY DEF PostAnswered, Slip
<1>5. shownList' = shownList \/ (OnPage(r) /\ Served(r) /\ shownList' = r.body /\ panel = "sharing")
  BY <1>2, <1>3 DEF PostAnswered
<1>6. /\ RequestsOK(posted', panel, opened, built)
      /\ SendOK(posted', sendOn, built)
      /\ FromOld(posted', posted)
      /\ ProposalsOK(posted', paper, shownList', opened)
      /\ LinksOK(posted', paper, shownList', opened, linkKeys, keysGiven, panelActs')
      /\ \A q, w \in posted' : Latter(q, w, built)
      /\ PagesOK(posted', pageView', pagesAsked')
      /\ panel' = "pages" /\ slips' \subseteq {"strayed"} =>
           TurnsOK(posted', pageView', figure', opened', built')
      /\ shownList' \in AsideT \cup {NotYet}
  <2>1. \A n \in N : Renewed(n) /\ n.kind # "page"
    BY <1>2
  <2> QED BY <1>1, <1>2, <1>4, <1>5, <2>1, OthersStay
<1>7. SendOK(posted', sendOn', built)
  <2>1. SendOK(posted, sendOn, built)
    BY DEF PanelInd
  <2>2. CASE OnPage(r) /\ r.verb \in {"answer", "deliver"}
    <3>1. Sending(r) /\ r.built = built
      BY <1>1, <2>2 DEF Sending, OnPage
    <3>2. \A q \in posted' : Sending(q) => q.built # built
      BY <1>2, <2>1, <3>1 DEF SendOK, Sending
    <3>3. \A q \in posted' : q.kind = "form" => q.built # built
      BY <1>2, <2>1, <3>1 DEF SendOK
    <3> QED BY <1>6, <3>2, <3>3 DEF SendOK
  <2>3. CASE ~(OnPage(r) /\ r.verb \in {"answer", "deliver"})
    BY <1>1, <1>6, <2>3
  <2> QED BY <2>2, <2>3
<1>8. LinksOK(posted', paper, shownList', opened, linkKeys', keysGiven', panelActs')
  <2>1. LinksOK(posted, paper, shownList, opened, linkKeys, keysGiven, panelActs)
    BY DEF PanelInd
  <2>2. \A q \in posted' : Making(q) => q \in posted /\ q # r
    BY <1>2 DEF Making
  <2>3. CASE ok /\ r.verb = "link"
    <3>1. r.arg \in 1..panelActs' /\ \A q \in posted' : Making(q) => q.arg # r.arg
      BY <1>1, <2>1, <2>2, <2>3 DEF LinksOK, Making
    <3>2. linkKeys' = linkKeys \cup {r.arg} /\ keysGiven' = keysGiven \cup {r.arg}
      BY <2>3 DEF PostAnswered
    <3> QED BY <1>6, <3>1, <3>2, KeysKept
  <2>4. CASE ok /\ r.verb = "revoke-link"
    <3>1. Served(r) /\ r.ok
      BY <1>2, <1>3, <2>4
    <3>2. LinkOf(r.arg, posted, paper, r.paper, panelActs) /\ r.arg \notin paper[r.paper].links
      BY <1>1, <2>1, <2>4, <3>1 DEF LinksOK
    <3>3. \A e \in Paper : r.arg \notin paper[e].links
      BY <3>2 DEF LinkOf
    <3>4. r.arg \in 1..panelActs' /\ \A q \in posted' : Making(q) => q.arg # r.arg
      BY <1>1, <2>2, <3>2 DEF LinkOf
    <3>5. linkKeys' = linkKeys \ {r.arg} /\ keysGiven' = keysGiven
      BY <2>4 DEF PostAnswered
    <3> QED BY <1>6, <3>3, <3>4, <3>5, KeysKept
  <2>5. CASE ~(ok /\ r.verb \in {"link", "revoke-link"})
    <3>1. linkKeys' = linkKeys /\ keysGiven' = keysGiven
      BY <2>5 DEF PostAnswered
    <3> QED BY <1>6, <3>1
  <2> QED BY <2>3, <2>4, <2>5
<1>9. panel' # "pages" /\ slips' \subseteq {"strayed"} =>
        SettleOK(posted', panel, paper, shownList', opened, built)
  <2> SUFFICES ASSUME panel # "pages", slips' \subseteq {"strayed"}
               PROVE  SettleOK(posted', panel, paper, shownList', opened, built)
    BY <1>1
  <2>1. SettleOK(posted, panel, paper, shownList, opened, built)
    BY <1>4 DEF PanelInd
  <2>2. ok = r.ok /\ Served(r) /\ OnPage(r)
    BY DEF PostAnswered
  <2>3. \A q \in posted : q.turn \in Nat /\ (q.built = built => q.paper = opened)
    BY DEF PanelInd, RequestsOK, RequestIn, PostT
  <2>4. CASE panel = "sharing" /\ r.verb # "deliver"
    <3>1. N = {} /\ shownList' = r.body /\ slips' = Slip(r)
      BY <1>3, <2>2, <2>4 DEF PostAnswered
    <3>2. Carries(r, panel, built) /\ ~Awaits(r, panel, opened, built)
      BY <1>1, <2>2, <2>4 DEF Carries, Awaits, OnPage
    <3>3. ~Overtaken(r)
      BY <3>1 DEF Slip
    <3>4. \A q \in posted : Carries(q, panel, built) => ~(q.turn < r.turn)
      BY <2>2, <2>3, <3>3 DEF Overtaken, Carries, OnPage
    <3> QED BY <1>2, <2>1, <2>3, <3>1, <3>2, <3>4, CarrierComes
  <2>5. CASE panel = "sharing" /\ r.verb = "deliver"
    <3>1. N = {} /\ shownList' = shownList
      BY <2>5 DEF PostAnswered
    <3>2. ~Carries(r, panel, built) /\ ~Awaits(r, panel, opened, built)
      BY <1>1, <2>2, <2>5 DEF Carries, Awaits, OnPage
    <3> QED BY <1>2, <2>1, <3>1, <3>2, NeitherComes
  <2>6. CASE panel # "sharing" /\ ok
    <3>1. panel \in {"comments", "suggestions", "answers"}
      BY <1>3, <2>6 DEF VerbsOf, Panel
    <3>2. PICK n : n \in N
      BY <2>6, <3>1 DEF PostAnswered
    <3>3. n \in posted' /\ Awaits(n, panel, opened, built)
      BY <1>2, <2>2, <3>2 DEF Awaits, Served, OnPage
    <3> QED BY <3>3 DEF SettleOK
  <2>7. CASE panel # "sharing" /\ ~ok
    <3>1. N = {} /\ shownList' = shownList
      BY <2>7 DEF PostAnswered
    <3>2. ~Carries(r, panel, built) /\ ~Awaits(r, panel, opened, built)
      BY <1>1, <2>2, <2>7 DEF Carries, Awaits
    <3> QED BY <1>2, <2>1, <3>1, <3>2, NeitherComes
  <2> QED BY <2>4, <2>5, <2>6, <2>7
<1>10. marked' => panel' = "comments" /\ ("strayed" \in slips' \/ shownList'.thread = "open")
  BY <1>1, <1>4, <1>5 DEF PanelInd
<1>11. sendOn' \in BOOLEAN
  BY <1>1 DEF PanelInd
<1> QED BY <1>1, <1>6, <1>7, <1>8, <1>9, <1>10, <1>11 DEF PanelInd

---------------------------------------------------------------------------
(* Altogether.                                                             *)

LEMMA BuildsKeep ==
  /\ \A d \in Paper : PanelInd /\ (Redraw(d) \/ Jump(d)) => PanelInd'
  /\ \A r \in posted : PanelInd /\ DriveComes(r) => PanelInd'
<1>1. ASSUME NEW d \in Paper, PanelInd, Redraw(d) \/ Jump(d)
      PROVE  PanelInd'
  <2>1. Build(d, posted) /\ Acts /\ UNCHANGED <<panel, paper, linkKeys, keysGiven>>
    BY <1>1 DEF Redraw, Jump, keyVars
  <2>2. panelActs' \in 0..MaxPanelActs /\ panelActs <= panelActs'
    BY <1>1, <2>1, ActsCounted
  <2>3. posted \subseteq posted /\ \A r \in posted : r.kind = "page" => r \in posted
    OBVIOUS
  <2> QED BY <1>1, <2>1, <2>2, <2>3, BuildKeeps
<1>2. ASSUME NEW r \in posted, PanelInd, DriveComes(r)
      PROVE  PanelInd'
  <2>1. Build(opened, posted \ {r}) /\ UNCHANGED <<panel, paper, linkKeys, keysGiven, panelActs>>
        /\ r.kind = "drive"
    BY <1>2 DEF DriveComes, keyVars
  <2>2. panelActs' \in 0..MaxPanelActs /\ panelActs <= panelActs' /\ opened \in Paper
    BY <1>2, <2>1, PanelConsts DEF PanelInd
  <2>3. posted \ {r} \subseteq posted /\ \A q \in posted : q.kind = "page" => q \in posted \ {r}
    BY <2>1
  <2> QED BY <1>2, <2>1, <2>2, <2>3, BuildKeeps
<1> QED BY <1>1, <1>2

LEMMA PanelStep == PanelInd /\ [PanelNext]_panelVars => PanelInd'
<1> SUFFICES ASSUME PanelInd, [PanelNext]_panelVars PROVE PanelInd'
  OBVIOUS
<1>1. CASE \E d \in Paper : Redraw(d) \/ Jump(d)
  BY <1>1, BuildsKeep
<1>2. CASE DrawEditor
  BY <1>2, DrawEditorKeeps
<1>3. CASE ColleagueWrites
  BY <1>3, ColleagueWritesKeeps
<1>4. CASE \E delta \in {-1, 1} : Turn(delta)
  BY <1>4, TurnKeeps
<1>5. CASE \E b \in Offered : Press(b[1], b[2])
  BY <1>5, PressKeeps
<1>6. CASE \E r \in posted : Serve(r)
  BY <1>6, ServeKeeps
<1>7. CASE \E r \in posted : PageArrives(r)
  BY <1>7, PageArrivesKeeps
<1>8. CASE \E r \in posted : ListComes(r)
  BY <1>8, ListComesKeeps
<1>9. CASE \E r \in posted : FormComes(r)
  BY <1>9, FormComesKeeps
<1>10. CASE \E r \in posted : DriveComes(r)
  BY <1>10, BuildsKeep
<1>11. CASE \E r \in posted : PostComes(r)
  BY <1>11, PostComesKeeps
<1>12. CASE \E r \in posted : ReadIsLost(r)
  BY <1>12, ReadIsLostKeeps
<1>13. CASE UNCHANGED panelVars
  BY <1>13 DEF panelVars, screen, pageVars, keyVars, PanelInd
<1> QED BY <1>1, <1>2, <1>3, <1>4, <1>5, <1>6, <1>7, <1>8, <1>9, <1>10, <1>11, <1>12, <1>13 DEF PanelNext

LEMMA PanelBegins == PanelInit => PanelInd
<1> SUFFICES ASSUME PanelInit PROVE PanelInd
  OBVIOUS
<1>1. /\ panel \in Panel /\ paper = [d \in Paper |-> Aside] /\ built = 0 /\ panelActs = 0
      /\ shownList = NotYet /\ marked = FALSE /\ sendOn \in BOOLEAN
      /\ pageView = [d \in Paper |-> NewPages] /\ figure = Blank(FALSE)
      /\ pagesAsked = [d \in Paper |-> 0]
      /\ linkKeys = {} /\ keysGiven = {} /\ posted = {}
  BY DEF PanelInit
<1>2. opened \in Paper
  BY PanelAssumption DEF PanelInit
<1>3. Aside \in AsideT /\ Aside.proposals = {} /\ Aside.links = {}
  BY DEF Aside, AsideT
<1>4. NewPages \in ViewT /\ NewPages.doc = NoPage /\ NewPages.loading = FALSE
  BY PanelConsts DEF NewPages, ViewT
<1>5. panelActs \in 0..MaxPanelActs /\ panelActs \in Nat /\ built \in Nat
  BY <1>1, PanelConsts
<1>6. paper \in SideT /\ figure \in FigureT
  BY <1>1, <1>3, BlankTyped DEF SideT
<1>7. RequestsOK(posted, panel, opened, built) /\ SendOK(posted, sendOn, built)
  BY <1>1, FS_EmptySet DEF RequestsOK, SendOK
<1>8. PagesOK(posted, pageView, pagesAsked)
  <2> HIDE DEF NewPages
  <2> QED BY <1>1, <1>4 DEF PagesOK
<1>9. TurnsOK(posted, pageView, figure, opened, built)
  BY <1>1, <1>4 DEF TurnsOK
<1>10. ProposalsOK(posted, paper, shownList, opened)
  BY <1>1, <1>3, NotYetLoaded DEF ProposalsOK, SeenIn
<1>11. LinksOK(posted, paper, shownList, opened, linkKeys, keysGiven, panelActs)
  BY <1>1, <1>3, <1>5, NotYetLoaded DEF LinksOK, KnownIn
<1>12. SettleOK(posted, panel, paper, shownList, opened, built)
  BY <1>1 DEF SettleOK
<1> QED BY <1>1, <1>2, <1>5, <1>6, <1>7, <1>8, <1>9, <1>10, <1>11, <1>12 DEF PanelInd

LEMMA PanelIndImplies == PanelInd => PanelInv
<1> SUFFICES ASSUME PanelInd PROVE PanelInv
  OBVIOUS
<1>1. PanelTypeOK
  <2>1. linkKeys \subseteq Link
    <3>1. linkKeys \subseteq 1..panelActs /\ panelActs \in 0..MaxPanelActs
      BY DEF PanelInd, LinksOK
    <3> QED BY <3>1, PanelConsts DEF Link
  <2>2. \A r, q \in {p \in posted : p.verb \in {"answer", "deliver"} /\ p.kind = "post"} :
          r.built = q.built => r = q
    BY DEF PanelInd, SendOK, Sending
  <2> QED BY <2>1, <2>2 DEF PanelTypeOK, PanelInd
<1>2. PagesAskedOnce
  BY DEF PagesAskedOnce, PanelInd, PagesOK
<1>3. PanelsSettle
  <2> SUFFICES ASSUME posted = {}, built > 0, slips \subseteq {"strayed"}
               PROVE  IF panel = "pages"
                      THEN figure.page = pageView[opened].index \/ pageView[opened].failed
                      ELSE shownList = paper[opened]
    BY DEF PanelsSettle
  <2>1. CASE panel = "pages"
    <3>1. TurnsOK(posted, pageView, figure, opened, built) /\ PagesOK(posted, pageView, pagesAsked)
          /\ opened \in Paper
      BY <2>1 DEF PanelInd
    <3>2. ~pageView[opened].loading
      BY <3>1 DEF PagesOK
    <3> QED BY <2>1, <3>1, <3>2 DEF TurnsOK
  <2>2. CASE panel # "pages"
    <3>1. SettleOK(posted, panel, paper, shownList, opened, built)
      BY <2>2 DEF PanelInd
    <3> QED BY <2>2, <3>1 DEF SettleOK
  <2> QED BY <2>1, <2>2
<1>4. MarksAreOpen
  BY DEF MarksAreOpen, PanelInd
<1>5. AppliedToItsText
  BY DEF AppliedToItsText, PanelInd, ProposalsOK
<1>6. LiveLinksKeepKeys
  BY DEF LiveLinksKeepKeys, PanelInd, LinksOK
<1> QED BY <1>1, <1>2, <1>3, <1>4, <1>5, <1>6 DEF PanelInv

\* The panels under a document, whatever is pressed, rebuilt, lost or overtaken: what
\* each shows in the end is what the server has, pages are asked for once, a dot stands
\* on an open thread, an accepted suggestion replaced the text it was written about, and
\* a working link keeps its key.
THEOREM PanelsAgree == PartsSpec => []PanelInv
<1>1. PartsInit => PanelInd
  BY PanelBegins DEF PartsInit
<1>2. PanelInd /\ [PartsNext]_partVars => PanelInd'
  <2>1. [PartsNext]_partVars => [PanelNext]_panelVars
    BY DEF PartsNext, partVars, Editor, Browser, Panels, Surfaces
  <2> QED BY <2>1, PanelStep
<1> QED BY <1>1, <1>2, PanelIndImplies, PTL DEF PartsSpec

(***************************************************************************)
(* Ranks: in a finite total order the members have the ranks from 1 to     *)
(* their number, each member one of its own.                               *)
(***************************************************************************)

\* What stands above each member of a totally ordered set, itself included.
Ordering(S, U) ==
  /\ U \in [S -> SUBSET S]
  /\ \A x \in S : x \in U[x]
  /\ \A x, y \in S : x \in U[y] => U[x] \subseteq U[y]
  /\ \A x, y \in S : x \in U[y] \/ y \in U[x]
  /\ \A x, y \in S : x \in U[y] /\ y \in U[x] => x = y

Ranking(S, U) ==
  /\ \A x \in S : Cardinality(U[x]) \in 1 .. Cardinality(S)
  /\ \A x, y \in S : Cardinality(U[x]) = Cardinality(U[y]) => x = y
  /\ \A n \in 1 .. Cardinality(S) : \E x \in S : Cardinality(U[x]) = n
  /\ \A x, y \in S : x \in U[y] => Cardinality(U[x]) <= Cardinality(U[y])

LEMMA Ranked ==
  ASSUME NEW S, IsFiniteSet(S), NEW U, Ordering(S, U)
  PROVE  Ranking(S, U)
<1> DEFINE m == Cardinality(S)
           T == 1 .. m
           f == [x \in S |-> Cardinality(U[x])]
<1> USE DEF Ordering
<1>1. m \in Nat
  BY FS_CardinalityType
<1>2. ASSUME NEW x \in S
      PROVE  IsFiniteSet(U[x]) /\ Cardinality(U[x]) \in Nat /\ Cardinality(U[x]) <= m /\ Cardinality(U[x]) # 0
  <2>1. U[x] \in SUBSET S
    OBVIOUS
  <2>2. IsFiniteSet(U[x]) /\ Cardinality(U[x]) <= m
    BY <2>1, FS_Subset
  <2>3. Cardinality(U[x]) \in Nat
    BY <2>2, FS_CardinalityType
  <2>4. U[x] # {}
    OBVIOUS
  <2>5. Cardinality(U[x]) # 0
    BY <2>2, <2>4, FS_EmptySet
  <2> QED BY <2>2, <2>3, <2>5
<1>3. \A x \in S : Cardinality(U[x]) \in T
  BY <1>1, <1>2
<1>4. ASSUME NEW x \in S, NEW y \in S, x \in U[y]
      PROVE  /\ Cardinality(U[x]) <= Cardinality(U[y])
             /\ Cardinality(U[x]) = Cardinality(U[y]) => x = y
  <2>1. U[x] \in SUBSET U[y]
    BY <1>4
  <2>2. IsFiniteSet(U[y])
    BY <1>2
  <2>3. /\ Cardinality(U[x]) <= Cardinality(U[y])
        /\ Cardinality(U[y]) = Cardinality(U[x]) => U[y] = U[x]
    BY <2>1, <2>2, FS_Subset
  <2>4. U[y] = U[x] => x = y
    BY <1>4
  <2> QED BY <2>3, <2>4
<1>5. \A x, y \in S : Cardinality(U[x]) = Cardinality(U[y]) => x = y
  BY <1>4
<1>6. f \in Injection(S, T)
  BY <1>3, <1>5 DEF Injection, IsInjective
<1>7. IsFiniteSet(T) /\ Cardinality(T) = m
  <2>1. IsFiniteSet(T) /\ Cardinality(T) = IF 1 > m THEN 0 ELSE m - 1 + 1
    BY <1>1, FS_Interval
  <2> QED BY <1>1, <2>1
<1>8. f \in Surjection(S, T)
  <2> HIDE DEF f, T
  <2> QED BY <1>6, <1>7, FS_Injection
<1>9. \A n \in T : \E x \in S : Cardinality(U[x]) = n
  BY <1>8 DEF Surjection
<1> QED BY <1>3, <1>4, <1>5, <1>9 DEF Ranking

\* Places of a sequence have their ranks in the order of numbers.
LEMMA PlacesRanked ==
  ASSUME NEW P, IsFiniteSet(P), P \subseteq Nat
  PROVE  /\ Cardinality(P) \in Nat
         /\ \A n \in 1 .. Cardinality(P) : Nth(P, n) \in P
         /\ \A n, k \in 1 .. Cardinality(P) : Nth(P, n) = Nth(P, k) => n = k
         /\ \A i \in P : \E n \in 1 .. Cardinality(P) : Nth(P, n) = i
<1> DEFINE Below(i) == {k \in P : k <= i}
           U == [i \in P |-> Below(i)]
<1>1. U \in [P -> SUBSET P] /\ \A i \in P : U[i] = Below(i)
  OBVIOUS
<1>2. /\ \A x \in P : x \in U[x]
      /\ \A x, y \in P : x \in U[y] => U[x] \subseteq U[y]
      /\ \A x, y \in P : x \in U[y] \/ y \in U[x]
      /\ \A x, y \in P : x \in U[y] /\ y \in U[x] => x = y
  <2>1. \A x, y \in P : (x \in U[y] <=> x <= y)
    BY <1>1
  <2>2. \A x \in P : x \in Nat /\ U[x] \subseteq P
    BY <1>1
  <2> HIDE DEF U, Below
  <2>3. \A x, y \in P : x \in U[y] => U[x] \subseteq U[y]
    <3> SUFFICES ASSUME NEW x \in P, NEW y \in P, x \in U[y], NEW z \in U[x] PROVE z \in U[y]
      OBVIOUS
    <3>1. z \in P /\ z <= x /\ x <= y
      BY <2>1, <2>2
    <3> QED BY <3>1, <2>1, <2>2
  <2>4. \A x, y \in P : x <= y /\ y <= x => x = y
    <3> SUFFICES ASSUME NEW x \in P, NEW y \in P PROVE x <= y /\ y <= x => x = y
      OBVIOUS
    <3>1. x \in Nat /\ y \in Nat
      BY <2>2
    <3> QED BY <3>1
  <2>5. \A x, y \in P : x <= y \/ y <= x
    <3> SUFFICES ASSUME NEW x \in P, NEW y \in P PROVE x <= y \/ y <= x
      OBVIOUS
    <3>1. x \in Nat /\ y \in Nat
      BY <2>2
    <3> QED BY <3>1
  <2>6. \A x \in P : x <= x
    BY <2>2
  <2> QED BY <2>1, <2>3, <2>4, <2>5, <2>6
<1>3. /\ \A x \in P : Cardinality(U[x]) \in 1 .. Cardinality(P)
      /\ \A x, y \in P : Cardinality(U[x]) = Cardinality(U[y]) => x = y
      /\ \A n \in 1 .. Cardinality(P) : \E x \in P : Cardinality(U[x]) = n
  <2>1. U \in [P -> SUBSET P]
    BY <1>1
  <2> HIDE DEF U, Below
  <2>2. Ordering(P, U)
    BY <2>1, <1>2 DEF Ordering
  <2>3. Ranking(P, U)
    BY <2>2, Ranked
  <2> QED BY <2>3 DEF Ranking
<1>4. Cardinality(P) \in Nat
  BY FS_CardinalityType
<1>5. ASSUME NEW n \in 1 .. Cardinality(P)
      PROVE  Nth(P, n) \in P /\ Cardinality(U[Nth(P, n)]) = n
  <2>1. \E i \in P : Cardinality(Below(i)) = n
    BY <1>1, <1>3
  <2>2. Nth(P, n) \in P /\ Cardinality(Below(Nth(P, n))) = n
    BY <2>1 DEF Nth
  <2> QED BY <2>2, <1>1
<1>6. ASSUME NEW i \in P
      PROVE  \E n \in 1 .. Cardinality(P) : Nth(P, n) = i
  BY <1>3, <1>5
<1> QED BY <1>4, <1>5, <1>6

\* What is picked from a sequence is the members at the places, each once.
PicksFrom(p, s, P) ==
  /\ \A n \in DOMAIN p : \E i \in P : p[n] = s[i]
  /\ \A i \in P : \E n \in DOMAIN p : p[n] = s[i]
  /\ \A n, k \in DOMAIN p : n # k => \E i, j \in P : i # j /\ p[n] = s[i] /\ p[k] = s[j]

LEMMA PickedIs ==
  ASSUME NEW T, NEW s \in Seq(T), NEW P, P \subseteq DOMAIN s
  PROVE  Picked(s, P) \in Seq(T) /\ PicksFrom(Picked(s, P), s, P)
<1>1. Len(s) \in Nat /\ DOMAIN s = 1 .. Len(s) /\ \A i \in DOMAIN s : s[i] \in T
  OBVIOUS
<1>2. IsFiniteSet(P) /\ P \subseteq Nat
  <2>1. IsFiniteSet(1 .. Len(s))
    BY <1>1, FS_Interval
  <2>2. P \in SUBSET (1 .. Len(s))
    BY <1>1
  <2> QED BY <2>1, <2>2, FS_Subset
<1>3. PICK m : m = Cardinality(P)
  OBVIOUS
<1>4. /\ m \in Nat
      /\ \A n \in 1 .. m : Nth(P, n) \in P
      /\ \A n, k \in 1 .. m : Nth(P, n) = Nth(P, k) => n = k
      /\ \A i \in P : \E n \in 1 .. m : Nth(P, n) = i
  BY <1>2, <1>3, PlacesRanked
<1>5. Picked(s, P) = [n \in 1 .. m |-> s[Nth(P, n)]]
  BY <1>3 DEF Picked
<1>6. PICK p : p = Picked(s, P)
  OBVIOUS
<1>7. DOMAIN p = 1 .. m /\ \A n \in 1 .. m : p[n] = s[Nth(P, n)]
  BY <1>5, <1>6
<1>8. p \in Seq(T)
  <2>1. \A n \in 1 .. m : s[Nth(P, n)] \in T
    BY <1>1, <1>4
  <2> QED BY <2>1, <1>4, <1>5, <1>6
<1>9. /\ \A n \in DOMAIN p : \E i \in P : p[n] = s[i]
      /\ \A i \in P : \E n \in DOMAIN p : p[n] = s[i]
  BY <1>4, <1>7
<1>10. ASSUME NEW n \in DOMAIN p, NEW k \in DOMAIN p, n # k
       PROVE  \E i, j \in P : i # j /\ p[n] = s[i] /\ p[k] = s[j]
  <2>1. n \in 1 .. m /\ k \in 1 .. m
    BY <1>7
  <2>2. Nth(P, n) \in P /\ Nth(P, k) \in P /\ Nth(P, n) # Nth(P, k)
    BY <2>1, <1>4, <1>10
  <2> QED BY <2>1, <2>2, <1>7
<1> QED BY <1>6, <1>8, <1>9, <1>10 DEF PicksFrom

(***************************************************************************)
(* The invariant.                                                          *)
(***************************************************************************)

Row == [id : Entry, in : Folders]
RowsOK(items) ==
  /\ items \in Seq(Row)
  /\ \A i, k \in DOMAIN items : i # k => items[i].id # items[k].id

\* The store's clock: no two documents were written at the same time.
StoreOK ==
  /\ parent \in [Entry -> Folders] /\ stamp \in [Entry -> Nat] /\ changedAt \in [Entry -> Nat]
  /\ trashed \subseteq Entry
  /\ \A d \in Entry : stamp[d] <= changedAt[d]
  /\ \A d, e \in Entry : d # e /\ stamp[d] > 0 => stamp[d] # stamp[e]

\* A list holds what was written from a time on and before another, and not
\* changed after a third.
Listed(items, from, upTo, before) ==
  \A d \in Entry :
    Visible(d) /\ changedAt[d] <= upTo /\ stamp[d] >= from /\ (before = 0 \/ stamp[d] < before)
      => d \in Ids(items)

PageOK(p, before) ==
  /\ p.at \in Nat /\ p.at <= Time /\ p.cursor \in Nat
  /\ RowsOK(p.items)
  /\ Listed(p.items, p.cursor, p.at, before)

ListReads == {"folders", "list", "more"}

AnswerOK(r) ==
  /\ r.kind = "list" => PageOK(r.answer, 0)
  /\ r.kind = "more" => PageOK(r.answer, r.arg)
  /\ r.kind \notin ListReads /\ r.answer.ok => r.answer.id \in Entry

\* What a request looks like, whether it is answered or not.
Asked(r) ==
  /\ r = [n |-> r.n, kind |-> r.kind, arg |-> r.arg, then |-> r.then, answer |-> r.answer]
  /\ r.kind \in ListReads \cup {"create", "move", "rename", "trash", "restore", "purge"}
  /\ r.kind \in {"folders", "create"} => r.arg \in Folders
  /\ r.kind = "more" => r.arg \in Nat
  /\ r.kind = "move" => r.arg[1] \in Entry /\ r.arg[2] \in Folders
  /\ r.kind \in {"rename", "trash", "restore", "purge"} => r.arg \in Entry

CallOK(r) == Asked(r) /\ (r.answer.served => AnswerOK(r))

ListingOK ==
  /\ driveFolder \in Folders /\ folderData \in Folders
  /\ selectedDrive \in Entry \cup {NoEntry}
  /\ RowsOK(driveData)
  /\ driveCursor \in Nat /\ shownSince \in Nat /\ shownSince <= Time

CallsOK ==
  /\ driveActs \in 0 .. MaxDriveActs
  /\ IsFiniteSet(calls) /\ Cardinality(calls) <= driveActs
  /\ \A r \in calls : CallOK(r)

\* What a page on its way leaves out is on the list.
MoreFits(r) ==
  /\ Listed(driveData, r.arg, shownSince, 0)
  /\ r.answer.served => shownSince <= r.answer.at

PagesJoin ==
  /\ NothingSkipped
  /\ "more" \notin overtaken => \A r \in calls : r.kind = "more" => MoreFits(r)

FoldersFollow ==
  "folders" \notin overtaken => folderData = driveFolder \/ \E q \in calls : Leads(q)

BrowserInd == StoreOK /\ ListingOK /\ CallsOK /\ PagesJoin /\ FoldersFollow

---------------------------------------------------------------------------
(* The clock, and what a page holds.                                       *)

NewestTime(c) == CHOOSE t \in {c[d] : d \in Entry} : \A d \in Entry : c[d] <= t

LEMMA LatestIs ==
  ASSUME NEW c \in [Entry -> Nat]
  PROVE  /\ NewestTime(c) \in Nat /\ \E d \in Entry : NewestTime(c) = c[d]
         /\ \A d \in Entry : c[d] <= NewestTime(c)
<1> DEFINE S == {c[d] : d \in Entry}
           f == [d \in Entry |-> c[d]]
<1>1. IsFiniteSet(S)
  <2>1. f \in Surjection(Entry, S)
    BY DEF Surjection
  <2>2. IsFiniteSet(Entry)
    BY BrowserAssumption
  <2> HIDE DEF f, S
  <2> QED BY <2>1, <2>2, FS_Surjection
<1>2. S # {} /\ \A z \in S : z \in Nat
  BY BrowserAssumption
<1>3. \E t \in S : \A z \in S : z <= t
  <2> HIDE DEF S
  <2> QED BY <1>1, <1>2, Largest
<1>4. \E t \in S : \A d \in Entry : c[d] <= t
  BY <1>3
<1>5. NewestTime(c) \in S /\ \A d \in Entry : c[d] <= NewestTime(c)
  BY <1>4 DEF NewestTime
<1> QED BY <1>2, <1>5

LEMMA TimeIsLatest == Time = NewestTime(changedAt) /\ Time' = NewestTime(changedAt')
BY DEF Time, NewestTime

LEMMA TimeIs ==
  ASSUME changedAt \in [Entry -> Nat]
  PROVE  Time \in Nat /\ \A d \in Entry : changedAt[d] <= Time
BY LatestIs, TimeIsLatest

LEMMA ParentIs == ASSUME StoreOK, NEW d \in Entry PROVE parent[d] \in Folders
BY DEF StoreOK

LEMMA PageIs ==
  ASSUME StoreOK, NEW before \in Nat
  PROVE  Page(before).served /\ Page(before).at = Time /\ PageOK(Page(before), before)
<1> DEFINE rest == {d \in Entry : Visible(d) /\ (before = 0 \/ stamp[d] < before)}
           Later(d) == {e \in rest : stamp[e] >= stamp[d]}
           U == [d \in rest |-> Later(d)]
           rank(d) == Cardinality(Later(d))
           nth(i) == CHOOSE d \in rest : rank(d) = i
<1>1. rest \subseteq Entry /\ IsFiniteSet(rest)
  <2>1. rest \in SUBSET Entry
    OBVIOUS
  <2>2. IsFiniteSet(Entry)
    BY BrowserAssumption
  <2> HIDE DEF rest
  <2> QED BY <2>1, <2>2, FS_Subset
<1>2. /\ \A d \in rest : stamp[d] \in Nat
      /\ \A d, e \in rest : stamp[d] = stamp[e] => d = e
  BY <1>1 DEF StoreOK, Visible
<1>3. PICK m : m = Cardinality(rest)
  OBVIOUS
<1>4. m \in Nat
  BY <1>1, <1>3, FS_CardinalityType
<1>5. U \in [rest -> SUBSET rest] /\ \A d \in rest : U[d] = Later(d)
  OBVIOUS
<1>6. \A d, e \in rest : d \in U[e] <=> stamp[d] >= stamp[e]
  BY <1>5
<1>7. \A d \in rest : U[d] \subseteq rest
  BY <1>5
<1>8. /\ \A d \in rest : d \in U[d]
      /\ \A d, e \in rest : d \in U[e] => U[d] \subseteq U[e]
      /\ \A d, e \in rest : d \in U[e] \/ e \in U[d]
      /\ \A d, e \in rest : d \in U[e] /\ e \in U[d] => d = e
  <2> HIDE DEF rest, U, Later
  <2>1. \A d \in rest : stamp[d] >= stamp[d]
    BY <1>2
  <2>2. ASSUME NEW d \in rest, NEW e \in rest
        PROVE  /\ stamp[d] >= stamp[e] \/ stamp[e] >= stamp[d]
               /\ stamp[d] >= stamp[e] /\ stamp[e] >= stamp[d] => d = e
    <3>1. stamp[d] \in Nat /\ stamp[e] \in Nat
      BY <1>2
    <3>2. stamp[d] >= stamp[e] /\ stamp[e] >= stamp[d] => stamp[d] = stamp[e]
      BY <3>1
    <3> QED BY <3>1, <3>2, <1>2
  <2>3. ASSUME NEW d \in rest, NEW e \in rest, d \in U[e], NEW c \in U[d]
        PROVE  c \in U[e]
    <3>1. c \in rest
      BY <2>3, <1>7
    <3>2. stamp[d] >= stamp[e] /\ stamp[c] >= stamp[d]
      BY <3>1, <2>3, <1>6
    <3>3. stamp[c] \in Nat /\ stamp[d] \in Nat /\ stamp[e] \in Nat
      BY <3>1, <1>2
    <3>4. stamp[c] >= stamp[e]
      BY <3>2, <3>3
    <3> QED BY <3>1, <3>4, <1>6
  <2>4. \A d, e \in rest : d \in U[e] => U[d] \subseteq U[e]
    BY <2>3
  <2> QED BY <2>1, <2>2, <2>4, <1>6
<1>9. /\ \A d \in rest : Cardinality(U[d]) \in 1 .. m
      /\ \A d, e \in rest : Cardinality(U[d]) = Cardinality(U[e]) => d = e
      /\ \A n \in 1 .. m : \E d \in rest : Cardinality(U[d]) = n
      /\ \A d, e \in rest : d \in U[e] => Cardinality(U[d]) <= Cardinality(U[e])
  <2>1. U \in [rest -> SUBSET rest]
    BY <1>5
  <2> HIDE DEF rest, U, Later
  <2>2. Ordering(rest, U)
    BY <2>1, <1>8 DEF Ordering
  <2>3. Ranking(rest, U)
    BY <2>2, <1>1, Ranked
  <2> QED BY <2>3, <1>3 DEF Ranking
<1>10. /\ \A d \in rest : rank(d) \in 1 .. m
       /\ \A d, e \in rest : rank(d) = rank(e) => d = e
       /\ \A n \in 1 .. m : \E d \in rest : rank(d) = n
       /\ \A d, e \in rest : stamp[d] >= stamp[e] => rank(d) <= rank(e)
  <2>1. \A d \in rest : Cardinality(U[d]) = rank(d)
    BY <1>5
  <2> HIDE DEF rest, U, Later, rank
  <2> QED BY <2>1, <1>6, <1>9
<1>11. \A n \in 1 .. m : nth(n) \in rest /\ rank(nth(n)) = n
  <2> SUFFICES ASSUME NEW n \in 1 .. m PROVE nth(n) \in rest /\ rank(nth(n)) = n
    OBVIOUS
  <2>1. \E d \in rest : rank(d) = n
    BY <1>10
  <2> HIDE DEF rest, rank
  <2> QED BY <2>1
<1>12. PICK size : size = IF m < PageSize THEN m ELSE PageSize
  OBVIOUS
<1>13. size \in Nat /\ size <= m /\ (m > size => size >= 1)
  BY <1>4, <1>12, BrowserAssumption
<1>14. PICK p : p = Page(before)
  OBVIOUS
<1>15. /\ p.served = TRUE /\ p.at = Time
       /\ p.items = [i \in 1 .. size |-> [id |-> nth(i), in |-> parent[nth(i)]]]
       /\ p.cursor = IF m > size THEN stamp[nth(size)] ELSE 0
  BY <1>3, <1>12, <1>14 DEF Page
<1> HIDE DEF rest, Later, U, rank, nth
<1>16. \A n \in 1 .. size : n \in 1 .. m
  BY <1>4, <1>13
<1>17. RowsOK(p.items)
  <2>1. ASSUME NEW i \in 1 .. size
        PROVE  nth(i) \in Entry /\ [id |-> nth(i), in |-> parent[nth(i)]] \in Row
    <3>1. nth(i) \in Entry
      BY <1>1, <1>11, <1>16
    <3>2. parent[nth(i)] \in Folders
      BY <3>1, ParentIs
    <3> QED BY <3>1, <3>2 DEF Row
  <2>2. p.items \in Seq(Row)
    BY <2>1, <1>13, <1>15
  <2>3. DOMAIN p.items = 1 .. size /\ \A i \in 1 .. size : p.items[i].id = nth(i)
    BY <1>15
  <2>4. \A i, k \in 1 .. size : nth(i) = nth(k) => i = k
    BY <1>11, <1>16
  <2> QED BY <2>2, <2>3, <2>4 DEF RowsOK
<1>18. p.cursor \in Nat
  <2>1. m > size => size \in 1 .. m
    BY <1>4, <1>13
  <2>2. m > size => stamp[nth(size)] \in Nat
    BY <2>1, <1>2, <1>11
  <2> QED BY <2>2, <1>15
<1>19. p.at \in Nat /\ p.at <= Time
  <2>1. Time \in Nat
    BY TimeIs DEF StoreOK
  <2> QED BY <2>1, <1>15
<1>20. ASSUME NEW d \in rest, stamp[d] >= p.cursor
       PROVE  d \in Ids(p.items)
  <2>1. rank(d) <= size
    <3>1. rank(d) \in 1 .. m
      BY <1>10
    <3>2. CASE m > size
      <4>1. size \in 1 .. m
        BY <3>2, <1>4, <1>13
      <4>2. nth(size) \in rest /\ rank(nth(size)) = size
        BY <4>1, <1>11
      <4>3. stamp[d] >= stamp[nth(size)]
        BY <3>2, <1>15, <1>20
      <4> QED BY <4>2, <4>3, <1>10
    <3>3. CASE ~(m > size)
      BY <3>1, <3>3, <1>4, <1>13
    <3> QED BY <3>2, <3>3
  <2>2. PICK i : i = rank(d)
    OBVIOUS
  <2>3. i \in 1 .. size /\ i \in 1 .. m
    BY <2>1, <2>2, <1>4, <1>10, <1>13
  <2>4. nth(i) = d
    BY <2>2, <2>3, <1>10, <1>11
  <2>5. i \in DOMAIN p.items /\ p.items[i].id = d
    BY <2>3, <2>4, <1>15
  <2> QED BY <2>5 DEF Ids
<1>21. Listed(p.items, p.cursor, p.at, before)
  <2>1. \A d \in Entry : Visible(d) /\ (before = 0 \/ stamp[d] < before) => d \in rest
    BY DEF rest
  <2> QED BY <2>1, <1>20 DEF Listed
<1> QED BY <1>14, <1>15, <1>17, <1>18, <1>19, <1>21 DEF PageOK

---------------------------------------------------------------------------
(* What the store's steps leave as it was.                                 *)

\* Only what is changed from now on differs.
Newer ==
  /\ Time <= Time'
  /\ \A d \in Entry : Visible(d)' /\ changedAt'[d] <= Time =>
       Visible(d) /\ stamp'[d] = stamp[d] /\ changedAt'[d] = changedAt[d]

LEMMA NothingWritten ==
  ASSUME StoreOK, UNCHANGED <<stamp, trashed, changedAt>>, parent' \in [Entry -> Folders]
  PROVE  StoreOK' /\ Newer
<1>1. StoreOK'
  BY DEF StoreOK
<1>2. Time' = Time
  BY DEF Time
<1>3. Time \in Nat
  BY TimeIs DEF StoreOK
<1>4. Newer
  BY <1>2, <1>3 DEF Newer, Visible
<1> QED BY <1>1, <1>4

LEMMA TimePassed ==
  ASSUME StoreOK, NEW d \in Entry, changedAt' = [changedAt EXCEPT ![d] = Time + 1]
  PROVE  /\ changedAt' \in [Entry -> Nat] /\ Time \in Nat /\ Time' = Time + 1
         /\ changedAt'[d] = Time + 1 /\ \A e \in Entry : e # d => changedAt'[e] = changedAt[e]
         /\ \A e \in Entry : changedAt[e] <= Time
<1>1. changedAt \in [Entry -> Nat]
  BY DEF StoreOK
<1>2. Time \in Nat /\ \A e \in Entry : changedAt[e] <= Time
  BY <1>1, TimeIs
<1>3. PICK t : t = Time
  OBVIOUS
<1>4. changedAt' \in [Entry -> Nat]
  BY <1>1, <1>2
<1>5. changedAt'[d] = t + 1 /\ \A e \in Entry : e # d => changedAt'[e] = changedAt[e]
  BY <1>1, <1>3
<1>6. PICK u : u = Time'
  OBVIOUS
<1>7. u \in Nat /\ (\E e \in Entry : u = changedAt'[e]) /\ \A e \in Entry : changedAt'[e] <= u
  BY <1>4, <1>6, LatestIs, TimeIsLatest
<1>8. u = t + 1
  <2>1. t + 1 <= u
    BY <1>5, <1>7
  <2>2. PICK e \in Entry : u = changedAt'[e]
    BY <1>7
  <2>3. e # d => u <= t
    BY <2>2, <1>2, <1>3, <1>5
  <2>4. e = d => u = t + 1
    BY <2>2, <1>5
  <2> QED BY <2>1, <2>3, <2>4, <1>2, <1>3, <1>7
<1> QED BY <1>2, <1>3, <1>4, <1>5, <1>6, <1>8

LEMMA Written ==
  ASSUME StoreOK, NEW d \in Entry, Write(d), trashed' = trashed, parent' \in [Entry -> Folders]
  PROVE  StoreOK' /\ Newer
<1>1. stamp' = [stamp EXCEPT ![d] = Time + 1] /\ changedAt' = [changedAt EXCEPT ![d] = Time + 1]
  BY DEF Write
<1>2. PICK t : t = Time
  OBVIOUS
<1>3. /\ changedAt' \in [Entry -> Nat] /\ t \in Nat /\ Time' = t + 1
      /\ changedAt'[d] = t + 1 /\ \A e \in Entry : e # d => changedAt'[e] = changedAt[e]
      /\ \A e \in Entry : changedAt[e] <= t
  BY <1>1, <1>2, TimePassed
<1>4. /\ stamp \in [Entry -> Nat] /\ changedAt \in [Entry -> Nat]
      /\ \A e \in Entry : stamp[e] <= changedAt[e]
      /\ \A e, c \in Entry : e # c /\ stamp[e] > 0 => stamp[e] # stamp[c]
  BY DEF StoreOK
<1>5. /\ stamp' \in [Entry -> Nat]
      /\ stamp'[d] = t + 1 /\ \A e \in Entry : e # d => stamp'[e] = stamp[e]
  BY <1>1, <1>2, <1>3, <1>4
<1>6. \A e \in Entry : stamp[e] <= t
  <2> SUFFICES ASSUME NEW e \in Entry PROVE stamp[e] <= t
    OBVIOUS
  <2>1. stamp[e] \in Nat /\ changedAt[e] \in Nat /\ stamp[e] <= changedAt[e] /\ changedAt[e] <= t
    BY <1>3, <1>4
  <2> QED BY <2>1, <1>3
<1>7. \A e \in Entry : stamp'[e] <= changedAt'[e]
  <2> SUFFICES ASSUME NEW e \in Entry PROVE stamp'[e] <= changedAt'[e]
    OBVIOUS
  <2>1. CASE e = d
    BY <2>1, <1>3, <1>5
  <2>2. CASE e # d
    BY <2>2, <1>3, <1>4, <1>5
  <2> QED BY <2>1, <2>2
<1>8. ASSUME NEW e \in Entry, NEW c \in Entry, e # c, stamp'[e] > 0
      PROVE  stamp'[e] # stamp'[c]
  <2>1. e = d => stamp'[e] = t + 1 /\ stamp'[c] <= t /\ stamp'[c] \in Nat
    BY <1>5, <1>6, <1>8
  <2>2. c = d => stamp'[c] = t + 1 /\ stamp'[e] <= t /\ stamp'[e] \in Nat
    BY <1>5, <1>6, <1>8
  <2>3. e # d /\ c # d => stamp'[e] # stamp'[c]
    BY <1>4, <1>5, <1>8
  <2> QED BY <2>1, <2>2, <2>3, <1>3
<1>9. StoreOK'
  BY <1>3, <1>5, <1>7, <1>8 DEF StoreOK
<1>10. Newer
  <2>1. Time <= Time'
    BY <1>2, <1>3
  <2>2. ASSUME NEW e \in Entry, Visible(e)', changedAt'[e] <= Time
        PROVE  Visible(e) /\ stamp'[e] = stamp[e] /\ changedAt'[e] = changedAt[e]
    <3>1. e # d
      BY <2>2, <1>2, <1>3
    <3>2. stamp'[e] = stamp[e] /\ changedAt'[e] = changedAt[e]
      BY <3>1, <1>3, <1>5
    <3> QED BY <3>2, <2>2 DEF Visible
  <2> QED BY <2>1, <2>2 DEF Newer
<1> QED BY <1>9, <1>10

LEMMA Brought ==
  ASSUME StoreOK, NEW d \in Entry, changedAt' = [changedAt EXCEPT ![d] = Time + 1],
         trashed' = trashed \ {d}, UNCHANGED <<parent, stamp>>
  PROVE  StoreOK' /\ Newer
<1>2. PICK t : t = Time
  OBVIOUS
<1>3. /\ changedAt' \in [Entry -> Nat] /\ t \in Nat /\ Time' = t + 1
      /\ changedAt'[d] = t + 1 /\ \A e \in Entry : e # d => changedAt'[e] = changedAt[e]
      /\ \A e \in Entry : changedAt[e] <= t
  BY <1>2, TimePassed
<1>4. /\ stamp \in [Entry -> Nat] /\ changedAt \in [Entry -> Nat]
      /\ \A e \in Entry : stamp[e] <= changedAt[e]
  BY DEF StoreOK
<1>7. \A e \in Entry : stamp'[e] <= changedAt'[e]
  <2> SUFFICES ASSUME NEW e \in Entry PROVE stamp'[e] <= changedAt'[e]
    OBVIOUS
  <2>0. stamp[e] \in Nat /\ changedAt[e] \in Nat /\ stamp[e] <= changedAt[e] /\ changedAt[e] <= t
    BY <1>3, <1>4
  <2>1. CASE e = d
    BY <2>0, <2>1, <1>3
  <2>2. CASE e # d
    BY <2>0, <2>2, <1>3
  <2> QED BY <2>1, <2>2
<1>9. StoreOK'
  BY <1>3, <1>7 DEF StoreOK
<1>10. Newer
  <2>1. Time <= Time'
    BY <1>2, <1>3
  <2>2. ASSUME NEW e \in Entry, Visible(e)', changedAt'[e] <= Time
        PROVE  Visible(e) /\ stamp'[e] = stamp[e] /\ changedAt'[e] = changedAt[e]
    <3>1. e # d
      BY <2>2, <1>2, <1>3
    <3>2. changedAt'[e] = changedAt[e]
      BY <3>1, <1>3
    <3> QED BY <3>1, <3>2, <2>2 DEF Visible
  <2> QED BY <2>1, <2>2 DEF Newer
<1> QED BY <1>9, <1>10

LEMMA Hidden ==
  ASSUME StoreOK, NEW d \in Entry, UNCHANGED <<parent, changedAt>>,
         \/ stamp' = stamp /\ trashed' = trashed \cup {d}
         \/ stamp' = [stamp EXCEPT ![d] = 0] /\ trashed' = trashed \ {d}
  PROVE  StoreOK' /\ Newer
<1>1. /\ stamp \in [Entry -> Nat] /\ changedAt \in [Entry -> Nat]
      /\ \A e \in Entry : stamp[e] <= changedAt[e]
      /\ \A e, c \in Entry : e # c /\ stamp[e] > 0 => stamp[e] # stamp[c]
  BY DEF StoreOK
<1>2. Time \in Nat /\ Time' = Time
  BY <1>1, TimeIs DEF Time
<1>3. /\ stamp' \in [Entry -> Nat] /\ stamp'[d] \in {0, stamp[d]}
      /\ \A e \in Entry : e # d => stamp'[e] = stamp[e]
  BY <1>1
<1>4. \A e \in Entry : stamp'[e] <= changedAt'[e]
  <2> SUFFICES ASSUME NEW e \in Entry PROVE stamp'[e] <= changedAt'[e]
    OBVIOUS
  <2>1. stamp'[e] \in {0, stamp[e]}
    BY <1>3
  <2>2. stamp[e] <= changedAt[e] /\ stamp[e] \in Nat /\ changedAt[e] \in Nat
    BY <1>1
  <2> QED BY <2>1, <2>2
<1>5. ASSUME NEW e \in Entry, NEW c \in Entry, e # c, stamp'[e] > 0
      PROVE  stamp'[e] # stamp'[c]
  <2>1. stamp'[e] \in {0, stamp[e]} /\ stamp'[c] \in {0, stamp[c]}
    BY <1>3
  <2>2. stamp'[e] = stamp[e] /\ stamp[e] > 0
    BY <2>1, <1>5
  <2>3. stamp[e] # stamp[c]
    BY <2>2, <1>1, <1>5
  <2> QED BY <2>1, <2>2, <2>3
<1>6. StoreOK'
  BY <1>3, <1>4, <1>5 DEF StoreOK
<1>7. ASSUME NEW e \in Entry, Visible(e)'
      PROVE  Visible(e) /\ stamp'[e] = stamp[e]
  <2>1. CASE stamp' = stamp /\ trashed' = trashed \cup {d}
    BY <2>1, <1>7 DEF Visible
  <2>2. CASE stamp' = [stamp EXCEPT ![d] = 0] /\ trashed' = trashed \ {d}
    <3>1. stamp'[d] = 0
      BY <2>2, <1>1
    <3>2. e # d
      BY <3>1, <1>7 DEF Visible
    <3> QED BY <3>2, <2>2, <1>3, <1>7 DEF Visible
  <2> QED BY <2>1, <2>2
<1>8. Newer
  BY <1>2, <1>7 DEF Newer
<1> QED BY <1>6, <1>8

LEMMA ListedStill ==
  ASSUME StoreOK', Newer, Time \in Nat, NEW items, NEW from, NEW upTo \in Nat, upTo <= Time, NEW before,
         Listed(items, from, upTo, before)
  PROVE  Listed(items, from, upTo, before)'
<1> SUFFICES ASSUME NEW d \in Entry, Visible(d)', changedAt'[d] <= upTo, stamp'[d] >= from,
                    before = 0 \/ stamp'[d] < before
             PROVE  d \in Ids(items)
  BY DEF Listed
<1>1. changedAt'[d] \in Nat
  BY DEF StoreOK
<1>2. changedAt'[d] <= Time
  BY <1>1
<1>3. Visible(d) /\ stamp'[d] = stamp[d] /\ changedAt'[d] = changedAt[d]
  BY <1>2 DEF Newer
<1> QED BY <1>3 DEF Listed

LEMMA PageStill ==
  ASSUME StoreOK', Newer, Time \in Nat, Time' \in Nat, NEW p, NEW before, PageOK(p, before)
  PROVE  PageOK(p, before)'
<1>1. p.at \in Nat /\ p.at <= Time /\ Listed(p.items, p.cursor, p.at, before)
  BY DEF PageOK
<1>2. Listed(p.items, p.cursor, p.at, before)'
  BY <1>1, ListedStill
<1>3. p.at <= Time'
  BY <1>1 DEF Newer
<1> QED BY <1>2, <1>3 DEF PageOK, RowsOK

LEMMA CallStill ==
  ASSUME StoreOK', Newer, Time \in Nat, Time' \in Nat, NEW r, CallOK(r)
  PROVE  CallOK(r)'
<1>1. AnswerOK(r) => AnswerOK(r)'
  BY PageStill DEF AnswerOK
<1> QED BY <1>1 DEF CallOK

---------------------------------------------------------------------------
(* What the page's steps preserve.                                         *)

LEMMA CallsCounted ==
  ASSUME NEW S, IsFiniteSet(S), NEW n \in Nat, Cardinality(S) <= n, NEW x, NEW y
  PROVE  /\ IsFiniteSet(S \cup {y}) /\ Cardinality(S \cup {y}) <= n + 1
         /\ IsFiniteSet(S \ {x}) /\ Cardinality(S \ {x}) <= n
         /\ x \in S => IsFiniteSet((S \ {x}) \cup {y}) /\ Cardinality((S \ {x}) \cup {y}) <= n
<1>1. Cardinality(S) \in Nat
  BY FS_CardinalityType
<1>2. IsFiniteSet(S \cup {y}) /\ Cardinality(S \cup {y}) <= n + 1
  BY <1>1, FS_AddElement
<1>3. PICK R : R = S \ {x}
  OBVIOUS
<1>4. IsFiniteSet(R) /\ Cardinality(R) = IF x \in S THEN Cardinality(S) - 1 ELSE Cardinality(S)
  BY <1>3, FS_RemoveElement
<1>5. Cardinality(R) \in Nat
  BY <1>4, FS_CardinalityType
<1>6. /\ IsFiniteSet(R \cup {y})
      /\ Cardinality(R \cup {y}) = IF y \in R THEN Cardinality(R) ELSE Cardinality(R) + 1
  BY <1>4, FS_AddElement
<1>7. Cardinality(R) <= n
  BY <1>1, <1>4
<1>8. x \in S => Cardinality(R \cup {y}) <= n
  BY <1>1, <1>4, <1>5, <1>6
<1> QED BY <1>2, <1>3, <1>4, <1>6, <1>7, <1>8

\* Requests come one with each click, and an answer or a following request
\* takes the place of another.
LEMMA RequestsStay ==
  ASSUME CallsOK, StoreOK', Newer, Time \in Nat, Time' \in Nat, NEW r, NEW q,
         \/ calls' = calls /\ (driveActs' = driveActs \/ DriveAct)
         \/ calls' = calls \cup {q} /\ DriveAct /\ CallOK(q)'
         \/ calls' = calls \ {r} /\ driveActs' = driveActs
         \/ calls' = (calls \ {r}) \cup {q} /\ r \in calls /\ driveActs' = driveActs /\ CallOK(q)'
  PROVE  CallsOK'
<1>1. driveActs \in Nat /\ driveActs <= MaxDriveActs /\ MaxDriveActs \in Nat
  BY BrowserAssumption DEF CallsOK
<1>2. IsFiniteSet(calls) /\ Cardinality(calls) <= driveActs
  BY DEF CallsOK
<1>3. DriveAct => driveActs' = driveActs + 1 /\ driveActs < MaxDriveActs
  BY DEF DriveAct
<1>4. PICK n : n = driveActs
  OBVIOUS
<1>5. PICK S : S = calls
  OBVIOUS
<1>6. /\ IsFiniteSet(S \cup {q}) /\ Cardinality(S \cup {q}) <= n + 1
      /\ IsFiniteSet(S \ {r}) /\ Cardinality(S \ {r}) <= n
      /\ r \in S => IsFiniteSet((S \ {r}) \cup {q}) /\ Cardinality((S \ {r}) \cup {q}) <= n
  BY <1>1, <1>2, <1>4, <1>5, CallsCounted
<1>7. driveActs' \in 0 .. MaxDriveActs
  BY <1>1, <1>3
<1>8. IsFiniteSet(calls') /\ Cardinality(calls') <= driveActs'
  <2>1. CASE calls' = calls /\ (driveActs' = driveActs \/ DriveAct)
    <3>1. Cardinality(calls) \in Nat
      BY <1>2, FS_CardinalityType
    <3> QED BY <3>1, <2>1, <1>1, <1>2, <1>3
  <2>2. CASE calls' = calls \cup {q} /\ DriveAct
    BY <2>2, <1>3, <1>4, <1>5, <1>6
  <2>3. CASE calls' = calls \ {r} /\ driveActs' = driveActs
    BY <2>3, <1>4, <1>5, <1>6
  <2>4. CASE calls' = (calls \ {r}) \cup {q} /\ r \in calls /\ driveActs' = driveActs
    BY <2>4, <1>4, <1>5, <1>6
  <2> QED BY <2>1, <2>2, <2>3, <2>4
<1>9. \A c \in calls : CallOK(c)'
  BY CallStill DEF CallsOK
<1>10. \A c \in calls' : CallOK(c)'
  BY <1>9
<1> QED BY <1>7, <1>8, <1>10 DEF CallsOK

LEMMA PagesStay ==
  ASSUME StoreOK', Newer, Time \in Nat, PagesJoin, shownSince \in Nat, shownSince <= Time,
         UNCHANGED <<driveData, shownSince, driveCursor>>,
         "more" \notin overtaken' => "more" \notin overtaken,
         \A c \in calls' : c.kind = "more" =>
           \/ c.arg = driveCursor /\ ~c.answer.served
           \/ \E r \in calls : /\ r.kind = "more" /\ r.arg = c.arg
                               /\ c = r \/ ~c.answer.served \/ shownSince <= c.answer.at
  PROVE  PagesJoin'
<1> SUFFICES ASSUME "more" \notin overtaken'
             PROVE  /\ Listed(driveData, driveCursor, shownSince, 0)'
                    /\ \A c \in calls' : c.kind = "more" => MoreFits(c)'
  BY DEF PagesJoin, NothingSkipped, Listed
<1>1. /\ Listed(driveData, driveCursor, shownSince, 0)
      /\ \A c \in calls : c.kind = "more" => MoreFits(c)
  BY DEF PagesJoin, NothingSkipped, Listed
<1>2. PICK list, since : list = driveData /\ since = shownSince
  OBVIOUS
<1>3. ASSUME NEW from, Listed(driveData, from, shownSince, 0)
      PROVE  Listed(driveData, from, shownSince, 0)'
  <2>1. Listed(list, from, since, 0)
    BY <1>2, <1>3
  <2>2. since \in Nat /\ since <= Time
    BY <1>2
  <2>3. Listed(list, from, since, 0)'
    BY <2>1, <2>2, ListedStill
  <2>4. driveData' = list /\ shownSince' = since
    BY <1>2
  <2> QED BY <2>3, <2>4 DEF Listed
<1>4. PICK cursor : cursor = driveCursor
  OBVIOUS
<1>5. Listed(driveData, driveCursor, shownSince, 0)'
  <2>1. Listed(driveData, cursor, shownSince, 0)'
    BY <1>1, <1>3, <1>4
  <2> QED BY <2>1, <1>4 DEF Listed
<1>6. ASSUME NEW c \in calls', c.kind = "more"
      PROVE  MoreFits(c)'
  <2>1. CASE c.arg = driveCursor /\ ~c.answer.served
    <3>1. c.arg = cursor
      BY <2>1, <1>4
    <3>2. Listed(driveData, c.arg, shownSince, 0)'
      BY <3>1, <1>1, <1>3, <1>4
    <3> QED BY <3>2, <2>1 DEF MoreFits
  <2>2. CASE \E r \in calls : /\ r.kind = "more" /\ r.arg = c.arg
                              /\ c = r \/ ~c.answer.served \/ shownSince <= c.answer.at
    <3>1. PICK r \in calls : /\ r.kind = "more" /\ r.arg = c.arg
                             /\ c = r \/ ~c.answer.served \/ shownSince <= c.answer.at
      BY <2>2
    <3>2. MoreFits(r)
      BY <3>1, <1>1
    <3>3. Listed(driveData, r.arg, shownSince, 0)
      BY <3>2 DEF MoreFits
    <3>4. Listed(driveData, r.arg, shownSince, 0)'
      BY <3>3, <1>3
    <3>5. Listed(driveData, c.arg, shownSince, 0)'
      BY <3>1, <3>4 DEF Listed
    <3>6. c.answer.served => shownSince <= c.answer.at
      BY <3>1, <3>2 DEF MoreFits
    <3> QED BY <3>5, <3>6 DEF MoreFits
  <2> QED BY <1>6, <2>1, <2>2
<1> QED BY <1>5, <1>6

LEMMA FoldersStay ==
  ASSUME FoldersFollow, UNCHANGED <<driveFolder, folderData>>,
         "folders" \notin overtaken' => "folders" \notin overtaken,
         \A q \in calls : Leads(q) => "folders" \in overtaken' \/ \E c \in calls' : c.kind = q.kind /\ c.arg = q.arg
  PROVE  FoldersFollow'
BY DEF FoldersFollow, Leads

---------------------------------------------------------------------------
(* What is shown.                                                          *)

LEMMA ChosenIs ==
  ASSUME NEW items \in Seq(Row), NEW here, NEW query, NEW chosen \in Entry \cup {NoEntry}
  PROVE  Chosen(InView(items, here, query), chosen) \in Entry \cup {NoEntry}
<1>1. PICK P : P = {i \in DOMAIN items :
                     IF query = NoEntry THEN items[i].in = here ELSE items[i].id = query}
  OBVIOUS
<1>2. P \subseteq DOMAIN items
  BY <1>1
<1>3. PICK v : v = Picked(items, P)
  OBVIOUS
<1>4. v \in Seq(Row)
  BY <1>2, <1>3, PickedIs
<1>5. InView(items, here, query) = v
  BY <1>1, <1>3 DEF InView
<1>6. v # <<>> => v[1] \in Row
  BY <1>4
<1>7. \A w \in Row : w.id \in Entry
  BY DEF Row
<1> QED BY <1>5, <1>6, <1>7 DEF Chosen

LEMMA RowsJoined ==
  ASSUME NEW list, RowsOK(list), NEW items, RowsOK(items),
         NEW P, P = {i \in DOMAIN items : items[i].id \notin Ids(list)}
  PROVE  /\ RowsOK(list \o Picked(items, P))
         /\ Ids(list \o Picked(items, P)) = Ids(list) \cup Ids(items)
<1>1. PICK v : v = Picked(items, P)
  OBVIOUS
<1>2. /\ list \in Seq(Row) /\ items \in Seq(Row)
      /\ \A i, k \in DOMAIN list : i # k => list[i].id # list[k].id
      /\ \A i, k \in DOMAIN items : i # k => items[i].id # items[k].id
  BY DEF RowsOK
<1>3. P \subseteq DOMAIN items
  OBVIOUS
<1>4. /\ v \in Seq(Row)
      /\ \A n \in DOMAIN v : \E i \in P : v[n] = items[i]
      /\ \A i \in P : \E n \in DOMAIN v : v[n] = items[i]
      /\ \A n, k \in DOMAIN v : n # k => \E i, j \in P : i # j /\ v[n] = items[i] /\ v[k] = items[j]
  <2>1. v \in Seq(Row) /\ PicksFrom(v, items, P)
    BY <1>1, <1>2, <1>3, PickedIs
  <2> QED BY <2>1 DEF PicksFrom
<1>5. PICK w : w = list \o v
  OBVIOUS
<1>6. /\ w \in Seq(Row) /\ Len(w) = Len(list) + Len(v)
      /\ DOMAIN w = 1 .. Len(list) + Len(v) /\ DOMAIN v = 1 .. Len(v) /\ DOMAIN list = 1 .. Len(list)
      /\ Len(list) \in Nat /\ Len(v) \in Nat
      /\ \A i \in DOMAIN w : w[i] = IF i <= Len(list) THEN list[i] ELSE v[i - Len(list)]
  BY <1>2, <1>4, <1>5
<1>7. \A i \in DOMAIN v : v[i].id \notin Ids(list)
  BY <1>4
<1>8. ASSUME NEW i \in DOMAIN w, NEW k \in DOMAIN w, i # k
      PROVE  w[i].id # w[k].id
  <2>1. \A n, m \in DOMAIN v : n # m => v[n].id # v[m].id
    <3> SUFFICES ASSUME NEW n \in DOMAIN v, NEW m \in DOMAIN v, n # m PROVE v[n].id # v[m].id
      OBVIOUS
    <3>1. PICK h, j \in P : h # j /\ v[n] = items[h] /\ v[m] = items[j]
      BY <1>4
    <3> QED BY <3>1, <1>2, <1>3
  <2>2. \A n \in DOMAIN list : list[n].id \in Ids(list)
    BY DEF Ids
  <2>3. CASE i <= Len(list) /\ k <= Len(list)
    <3>1. i \in DOMAIN list /\ k \in DOMAIN list
      BY <2>3, <1>6
    <3> QED BY <3>1, <2>3, <1>2, <1>6, <1>8
  <2>4. CASE i <= Len(list) /\ k > Len(list)
    <3>1. i \in DOMAIN list /\ k - Len(list) \in DOMAIN v /\ w[i] = list[i] /\ w[k] = v[k - Len(list)]
      BY <2>4, <1>6
    <3> QED BY <3>1, <2>2, <1>7
  <2>5. CASE i > Len(list) /\ k <= Len(list)
    <3>1. k \in DOMAIN list /\ i - Len(list) \in DOMAIN v /\ w[k] = list[k] /\ w[i] = v[i - Len(list)]
      BY <2>5, <1>6
    <3> QED BY <3>1, <2>2, <1>7
  <2>6. CASE i > Len(list) /\ k > Len(list)
    <3>1. /\ i - Len(list) \in DOMAIN v /\ k - Len(list) \in DOMAIN v /\ i - Len(list) # k - Len(list)
          /\ w[i] = v[i - Len(list)] /\ w[k] = v[k - Len(list)]
      BY <2>6, <1>6, <1>8
    <3> QED BY <3>1, <2>1
  <2>7. i \in Nat /\ k \in Nat
    BY <1>6
  <2> QED BY <2>3, <2>4, <2>5, <2>6, <2>7, <1>6
<1>9. RowsOK(w)
  BY <1>6, <1>8 DEF RowsOK
<1>10. ASSUME NEW d \in Ids(list) \cup Ids(items)
       PROVE  d \in Ids(w)
  <2>1. CASE d \in Ids(list)
    <3>1. PICK n \in DOMAIN list : d = list[n].id
      BY <2>1 DEF Ids
    <3>2. n \in DOMAIN w /\ w[n] = list[n]
      BY <1>6
    <3> QED BY <3>1, <3>2 DEF Ids
  <2>2. CASE d \notin Ids(list)
    <3>1. PICK i \in DOMAIN items : d = items[i].id
      BY <1>10, <2>2 DEF Ids
    <3>2. PICK n \in DOMAIN v : v[n] = items[i]
      BY <3>1, <2>2, <1>4
    <3>3. n + Len(list) \in DOMAIN w /\ w[n + Len(list)] = v[n]
      BY <1>6
    <3> QED BY <3>1, <3>2, <3>3 DEF Ids
  <2> QED BY <2>1, <2>2
<1>11. ASSUME NEW d \in Ids(w)
       PROVE  d \in Ids(list) \cup Ids(items)
  <2>1. PICK n \in DOMAIN w : d = w[n].id
    BY <1>11 DEF Ids
  <2>2. CASE n <= Len(list)
    <3>1. n \in DOMAIN list /\ w[n] = list[n]
      BY <2>2, <1>6
    <3> QED BY <2>1, <3>1 DEF Ids
  <2>3. CASE n > Len(list)
    <3>1. n - Len(list) \in DOMAIN v /\ w[n] = v[n - Len(list)]
      BY <2>3, <1>6
    <3>2. PICK i \in P : v[n - Len(list)] = items[i]
      BY <3>1, <1>4
    <3> QED BY <2>1, <3>1, <3>2, <1>3 DEF Ids
  <2> QED BY <2>2, <2>3, <1>6
<1> QED BY <1>1, <1>5, <1>9, <1>10, <1>11

---------------------------------------------------------------------------
(* The steps.                                                              *)

LEMMA ClockTyped ==
  /\ StoreOK => Time \in Nat
  /\ StoreOK' => Time' \in Nat
BY LatestIs, TimeIsLatest DEF StoreOK

\* A step that leaves the list as it is.
LEMMA ListLeft ==
  ASSUME BrowserInd, StoreOK', Newer, CallsOK', FoldersFollow',
         UNCHANGED <<driveData, shownSince, driveCursor>>,
         selectedDrive' \in Entry \cup {NoEntry}, driveFolder' \in Folders, folderData' \in Folders,
         "more" \notin overtaken' => "more" \notin overtaken,
         \A c \in calls' : c.kind = "more" =>
           \/ c.arg = driveCursor /\ ~c.answer.served
           \/ \E r \in calls : /\ r.kind = "more" /\ r.arg = c.arg
                               /\ c = r \/ ~c.answer.served \/ shownSince <= c.answer.at
  PROVE  BrowserInd'
<1>1. Time \in Nat /\ Time' \in Nat
  BY ClockTyped DEF BrowserInd
<1>2. shownSince \in Nat /\ shownSince <= Time /\ PagesJoin
  BY DEF BrowserInd, ListingOK
<1>3. PagesJoin'
  BY <1>1, <1>2, PagesStay
<1>4. shownSince' <= Time'
  BY <1>1, <1>2 DEF Newer
<1>5. ListingOK'
  BY <1>4 DEF BrowserInd, ListingOK, RowsOK
<1> QED BY <1>3, <1>5 DEF BrowserInd

LEMMA Reanswered ==
  ASSUME NEW r, Asked(r), NEW value, NEW q, q = [r EXCEPT !.answer = value]
  PROVE  /\ Asked(q) /\ q.kind = r.kind /\ q.arg = r.arg /\ q.answer = value
BY DEF Asked

\* The server answers.
LEMMA AnswerGiven ==
  ASSUME BrowserInd, StoreOK', Newer, NEW r \in calls, NEW value, Given(r, value),
         NEW q, q = [r EXCEPT !.answer = value], value.served => AnswerOK(q)',
         r.kind = "more" => value.at = Time,
         UNCHANGED <<listing, driveActs, overtaken>>
  PROVE  BrowserInd'
<1>1. Time \in Nat /\ Time' \in Nat
  BY ClockTyped DEF BrowserInd
<1>2. Asked(r) /\ CallsOK
  BY DEF BrowserInd, CallsOK, CallOK
<1>3. Asked(q) /\ q.kind = r.kind /\ q.arg = r.arg /\ q.answer = value
  BY <1>2, Reanswered
<1>4. CallOK(q)'
  BY <1>3 DEF CallOK
<1>5. calls' = (calls \ {r}) \cup {q}
  BY DEF Given
<1>6. CallsOK'
  BY <1>1, <1>2, <1>4, <1>5, RequestsStay
<1>7. /\ driveFolder' = driveFolder /\ folderData' = folderData /\ overtaken' = overtaken
      /\ UNCHANGED <<driveData, shownSince, driveCursor, selectedDrive>>
  BY DEF listing
<1>8. FoldersFollow'
  <2>1. \A p \in calls : \E c \in calls' : c.kind = p.kind /\ c.arg = p.arg
    BY <1>3, <1>5
  <2>2. FoldersFollow
    BY DEF BrowserInd
  <2> QED BY <2>1, <2>2, <1>7, FoldersStay
<1>9. r.kind = "more" => shownSince <= value.at
  <2>1. shownSince \in Nat /\ shownSince <= Time
    BY DEF BrowserInd, ListingOK
  <2> QED BY <2>1
<1>10. \A c \in calls' : c.kind = "more" =>
           \/ c.arg = driveCursor /\ ~c.answer.served
           \/ \E p \in calls : /\ p.kind = "more" /\ p.arg = c.arg
                               /\ c = p \/ ~c.answer.served \/ shownSince <= c.answer.at
  BY <1>3, <1>5, <1>9
<1>11. selectedDrive' \in Entry \cup {NoEntry} /\ driveFolder' \in Folders /\ folderData' \in Folders
  BY <1>7 DEF BrowserInd, ListingOK
<1> QED BY <1>6, <1>7, <1>8, <1>10, <1>11, ListLeft

LEMMA ServeReadKeeps ==
  ASSUME BrowserInd, NEW r \in calls, ServeRead(r)
  PROVE  BrowserInd'
<1>1. StoreOK' /\ Newer
  BY NothingWritten DEF BrowserInd, ServeRead, stored, StoreOK
<1>2. Asked(r) /\ StoreOK /\ Time \in Nat /\ Time' \in Nat
  BY <1>1, ClockTyped DEF BrowserInd, CallsOK, CallOK
<1>3. UNCHANGED <<listing, driveActs, overtaken>> /\ r.kind \in ListReads
  BY DEF ServeRead, ListReads
<1>4. CASE r.kind = "folders"
  <2>1. PICK value : value = [served |-> TRUE, ok |-> r.arg \notin gone]
    OBVIOUS
  <2>2. Given(r, value)
    BY <1>4, <2>1 DEF ServeRead
  <2>3. PICK q : q = [r EXCEPT !.answer = value]
    OBVIOUS
  <2>4. q.kind = "folders"
    BY <1>2, <1>4, <2>3, Reanswered
  <2>5. AnswerOK(q)'
    BY <2>4 DEF AnswerOK, ListReads
  <2> QED BY <1>1, <1>3, <1>4, <2>2, <2>3, <2>5, AnswerGiven
<1>5. ASSUME NEW before \in Nat, NEW value, Given(r, value), value.at = Time, PageOK(value, before),
             r.kind = "list" => before = 0, r.kind = "more" => before = r.arg, r.kind # "folders"
      PROVE  BrowserInd'
  <2>1. PageOK(value, before)'
    BY <1>1, <1>2, <1>5, PageStill
  <2>2. PICK q : q = [r EXCEPT !.answer = value]
    OBVIOUS
  <2>3. q.kind = r.kind /\ q.arg = r.arg /\ q.answer = value
    BY <1>2, <2>2, Reanswered
  <2>4. AnswerOK(q)'
    BY <2>1, <2>3, <1>3, <1>5 DEF AnswerOK, ListReads
  <2> QED BY <1>1, <1>3, <1>5, <2>2, <2>4, AnswerGiven
<1>6. CASE r.kind = "list"
  <2>1. PICK value : value = Page(0)
    OBVIOUS
  <2>2. Given(r, value)
    BY <1>6, <2>1 DEF ServeRead
  <2>3. PICK before \in Nat : before = 0
    OBVIOUS
  <2>4. value.at = Time /\ PageOK(value, before)
    BY <1>2, <2>1, <2>3, PageIs
  <2>5. r.kind # "more" /\ r.kind # "folders"
    BY <1>6
  <2> QED BY <2>2, <2>3, <2>4, <2>5, <1>5
<1>7. CASE r.kind = "more"
  <2>1. PICK value : value = Page(r.arg)
    OBVIOUS
  <2>2. Given(r, value)
    BY <1>7, <2>1 DEF ServeRead
  <2>3. r.arg \in Nat
    BY <1>2, <1>7 DEF Asked
  <2>4. value.at = Time /\ PageOK(value, r.arg)
    BY <1>2, <2>1, <2>3, PageIs
  <2>5. r.kind # "list" /\ r.kind # "folders"
    BY <1>7
  <2> QED BY <2>2, <2>3, <2>4, <2>5, <1>5
<1> QED BY <1>3, <1>4, <1>6, <1>7 DEF ListReads

\* The answer to a change names its document.
LEMMA ChangeGiven ==
  ASSUME BrowserInd, StoreOK', Newer, NEW r \in calls, r.kind \notin ListReads,
         NEW value, Given(r, value), value.ok => value.id \in Entry,
         UNCHANGED <<listing, driveActs, overtaken>>
  PROVE  BrowserInd'
<1>1. PICK q : q = [r EXCEPT !.answer = value]
  OBVIOUS
<1>2. q.kind = r.kind /\ q.answer = value
  BY <1>1, Reanswered DEF BrowserInd, CallsOK, CallOK
<1>3. AnswerOK(q)'
  BY <1>2 DEF AnswerOK, ListReads
<1>4. r.kind # "more"
  BY DEF ListReads
<1> QED BY <1>1, <1>3, <1>4, AnswerGiven

LEMMA ServeCreateKeeps ==
  ASSUME BrowserInd, NEW r \in calls, ServeCreate(r)
  PROVE  BrowserInd'
<1>1. StoreOK /\ r.kind = "create" /\ r.kind \notin ListReads /\ UNCHANGED <<listing, driveActs, overtaken>>
  BY DEF BrowserInd, ServeCreate, ListReads
<1>2. r.arg \in Folders
  BY <1>1 DEF BrowserInd, CallsOK, CallOK, Asked
<1>3. CASE r.arg \in gone
  <2>1. Given(r, Failed) /\ UNCHANGED stored
    BY <1>3 DEF ServeCreate
  <2>2. StoreOK' /\ Newer
    BY <1>1, <2>1, NothingWritten DEF stored, StoreOK
  <2>3. PICK value : value = Failed
    OBVIOUS
  <2>4. value.ok = FALSE /\ Given(r, value)
    BY <2>1, <2>3 DEF Failed
  <2> QED BY <1>1, <2>2, <2>4, ChangeGiven
<1>4. CASE r.arg \notin gone
  <2>1. PICK d \in Entry : /\ Write(d) /\ parent' = [parent EXCEPT ![d] = r.arg]
                           /\ Given(r, Done(d)) /\ trashed' = trashed
    BY <1>4 DEF ServeCreate
  <2>2. parent' \in [Entry -> Folders]
    BY <1>1, <1>2, <2>1 DEF StoreOK
  <2>3. StoreOK' /\ Newer
    BY <1>1, <2>1, <2>2, Written
  <2>4. PICK value : value = Done(d)
    OBVIOUS
  <2>5. value.id \in Entry /\ Given(r, value)
    BY <2>1, <2>4 DEF Done
  <2> QED BY <1>1, <2>3, <2>5, ChangeGiven
<1> QED BY <1>3, <1>4

LEMMA ServeChangeKeeps ==
  ASSUME BrowserInd, NEW r \in calls, ServeChange(r)
  PROVE  BrowserInd'
<1>1. /\ StoreOK /\ r.kind \in {"move", "rename", "trash", "restore", "purge"} /\ r.kind \notin ListReads
      /\ UNCHANGED <<listing, driveActs, overtaken>>
  BY DEF BrowserInd, ServeChange, ListReads
<1>2. Asked(r)
  BY DEF BrowserInd, CallsOK, CallOK
<1>3. PICK d : d = IF r.kind = "move" THEN r.arg[1] ELSE r.arg
  OBVIOUS
<1>4. d \in Entry /\ (r.kind = "move" => r.arg[2] \in Folders)
  BY <1>1, <1>2, <1>3 DEF Asked
<1>5. PICK fine \in BOOLEAN :
        /\ Given(r, IF fine THEN Done(d) ELSE Failed)
        /\ parent' = IF fine /\ r.kind = "move" THEN [parent EXCEPT ![d] = r.arg[2]] ELSE parent
        /\ trashed' = IF ~fine THEN trashed
                      ELSE CASE r.kind = "trash" -> trashed \cup {d}
                             [] r.kind \in {"restore", "purge"} -> trashed \ {d}
                             [] OTHER -> trashed
        /\ stamp' = IF fine /\ r.kind = "purge" THEN [stamp EXCEPT ![d] = 0] ELSE stamp
        /\ changedAt' = IF fine /\ r.kind = "restore"
                        THEN [changedAt EXCEPT ![d] = Time + 1] ELSE changedAt
  <2>1. PICK fine : fine = CASE r.kind = "move" -> Visible(d) /\ r.arg[2] \notin gone
                             [] r.kind \in {"rename", "trash"} -> Visible(d)
                             [] OTHER -> d \in trashed
    OBVIOUS
  <2>2. fine \in BOOLEAN
    <3>1. CASE r.kind = "move"
      BY <2>1, <3>1 DEF Visible
    <3>2. CASE r.kind \in {"rename", "trash"}
      BY <2>1, <3>2 DEF Visible
    <3>3. CASE r.kind \in {"restore", "purge"}
      <4>1. r.kind # "move" /\ r.kind \notin {"rename", "trash"}
        BY <3>3
      <4>2. fine = (d \in trashed)
        BY <2>1, <4>1, Zenon
      <4> QED BY <4>2
    <3> QED BY <1>1, <3>1, <3>2, <3>3
  <2> QED BY <2>1, <2>2, <1>3 DEF ServeChange
<1>6. StoreOK' /\ Newer
  <2>1. CASE fine /\ r.kind = "restore"
    <3>1. /\ changedAt' = [changedAt EXCEPT ![d] = Time + 1] /\ trashed' = trashed \ {d}
          /\ UNCHANGED <<parent, stamp>>
      BY <1>5, <2>1
    <3> QED BY <1>1, <1>4, <3>1, Brought
  <2>2. CASE fine /\ r.kind \in {"trash", "purge"}
    <3>1. UNCHANGED <<parent, changedAt>>
      BY <1>5, <2>2
    <3>2. \/ stamp' = stamp /\ trashed' = trashed \cup {d}
          \/ stamp' = [stamp EXCEPT ![d] = 0] /\ trashed' = trashed \ {d}
      BY <1>5, <2>2
    <3> QED BY <1>1, <1>4, <3>1, <3>2, Hidden
  <2>3. CASE ~(fine /\ r.kind \in {"restore", "trash", "purge"})
    <3>1. UNCHANGED <<stamp, trashed, changedAt>>
      BY <1>1, <1>5, <2>3
    <3>2. parent' \in [Entry -> Folders]
      BY <1>1, <1>4, <1>5 DEF StoreOK
    <3> QED BY <1>1, <3>1, <3>2, NothingWritten
  <2> QED BY <2>1, <2>2, <2>3
<1>7. PICK value : value = IF fine THEN Done(d) ELSE Failed
  OBVIOUS
<1>8. Given(r, value) /\ (value.ok => value.id \in Entry)
  BY <1>4, <1>5, <1>7 DEF Done, Failed
<1> QED BY <1>1, <1>6, <1>8, ChangeGiven

\* The other session writes a document or removes a folder.
LEMMA OthersKeep ==
  ASSUME BrowserInd, (\E d \in Entry : OtherWrites(d)) \/ (\E f \in Folder : OtherRemoves(f))
  PROVE  BrowserInd'
<1>1. StoreOK' /\ Newer
  <2>1. StoreOK /\ parent \in [Entry -> Folders]
    BY DEF BrowserInd, StoreOK
  <2>2. CASE \E d \in Entry : OtherWrites(d)
    BY <2>1, <2>2, Written DEF OtherWrites
  <2>3. CASE \E f \in Folder : OtherRemoves(f)
    BY <2>1, <2>3, NothingWritten DEF OtherRemoves
  <2> QED BY <2>2, <2>3
<1>2. UNCHANGED <<listing, calls, overtaken>> /\ DriveAct
  BY DEF OtherWrites, OtherRemoves
<1>3. Time \in Nat /\ Time' \in Nat
  BY <1>1, ClockTyped DEF BrowserInd
<1>4. calls' = calls /\ overtaken' = overtaken /\ driveFolder' = driveFolder /\ folderData' = folderData
      /\ UNCHANGED <<driveData, shownSince, driveCursor, selectedDrive>>
  BY <1>2 DEF listing
<1>5. CallsOK'
  BY <1>1, <1>2, <1>3, <1>4, RequestsStay DEF BrowserInd
<1>6. FoldersFollow'
  BY <1>4, FoldersStay DEF BrowserInd
<1>7. selectedDrive' \in Entry \cup {NoEntry} /\ driveFolder' \in Folders /\ folderData' \in Folders
  BY <1>4 DEF BrowserInd, ListingOK
<1> QED BY <1>1, <1>4, <1>5, <1>6, <1>7, ListLeft

---------------------------------------------------------------------------
(* Clicks.                                                                 *)

LEMMA Untouched ==
  ASSUME BrowserInd, UNCHANGED stored
  PROVE  StoreOK' /\ Newer /\ Time \in Nat /\ Time' \in Nat
<1>1. StoreOK' /\ Newer
  BY NothingWritten DEF BrowserInd, stored, StoreOK
<1> QED BY <1>1, ClockTyped DEF BrowserInd

\* What the page asks for.
Askable(verb, arg) ==
  /\ verb \in {"folders", "more", "create", "move", "rename", "trash", "restore", "purge"}
  /\ verb \in {"folders", "create"} => arg \in Folders
  /\ verb = "more" => arg = driveCursor
  /\ verb = "move" => arg[1] \in Entry /\ arg[2] \in Folders
  /\ verb \in {"rename", "trash", "restore", "purge"} => arg \in Entry

\* A click that sends a request.
LEMMA SentKeeps ==
  ASSUME BrowserInd, NEW verb, NEW arg, NEW after, Send(Call(verb, arg, after)), DriveAct,
         Askable(verb, arg),
         UNCHANGED <<stored, folderData, driveData, shownSince, driveCursor, selectedDrive, overtaken>>,
         driveFolder' = driveFolder \/ (verb = "folders" /\ driveFolder' = arg)
  PROVE  BrowserInd'
<1>1. StoreOK' /\ Newer /\ Time \in Nat /\ Time' \in Nat
  BY Untouched
<1>2. PICK q : q = Call(verb, arg, after)
  OBVIOUS
<1>3. /\ q.kind = verb /\ q.arg = arg /\ ~q.answer.served
      /\ q = [n |-> q.n, kind |-> q.kind, arg |-> q.arg, then |-> q.then, answer |-> q.answer]
  BY <1>2 DEF Call, Pending
<1>4. driveCursor \in Nat
  BY DEF BrowserInd, ListingOK
<1>5. Asked(q)
  BY <1>3, <1>4 DEF Asked, ListReads, Askable
<1>6. CallOK(q)'
  BY <1>3, <1>5 DEF CallOK
<1>7. calls' = calls \cup {q}
  BY <1>2 DEF Send
<1>8. CallsOK'
  BY <1>1, <1>6, <1>7, RequestsStay DEF BrowserInd
<1>9. FoldersFollow'
  <2>1. CASE driveFolder' = driveFolder
    <3>1. \A p \in calls : \E c \in calls' : c.kind = p.kind /\ c.arg = p.arg
      BY <1>7
    <3> QED BY <2>1, <3>1, FoldersStay DEF BrowserInd
  <2>2. CASE verb = "folders" /\ driveFolder' = arg
    BY <2>2, <1>3, <1>7 DEF FoldersFollow, Leads
  <2> QED BY <2>1, <2>2
<1>10. selectedDrive' \in Entry \cup {NoEntry} /\ driveFolder' \in Folders /\ folderData' \in Folders
  BY DEF BrowserInd, ListingOK, Askable
<1>11. \A c \in calls' : c.kind = "more" =>
           \/ c.arg = driveCursor /\ ~c.answer.served
           \/ \E p \in calls : /\ p.kind = "more" /\ p.arg = c.arg
                               /\ c = p \/ ~c.answer.served \/ shownSince <= c.answer.at
  BY <1>3, <1>7 DEF Askable
<1> QED BY <1>1, <1>8, <1>9, <1>10, <1>11, ListLeft

\* A click that only draws, or nothing at all.
LEMMA ShownKeeps ==
  ASSUME BrowserInd, DriveAct, UNCHANGED <<stored, calls, driveFolder, folderData, driveData,
                                           shownSince, driveCursor, overtaken>>,
         selectedDrive' \in Entry \cup {NoEntry}
  PROVE  BrowserInd'
<1>1. StoreOK' /\ Newer /\ Time \in Nat /\ Time' \in Nat
  BY Untouched
<1>2. CallsOK'
  BY <1>1, RequestsStay DEF BrowserInd
<1>3. FoldersFollow'
  BY FoldersStay DEF BrowserInd
<1>4. driveFolder' \in Folders /\ folderData' \in Folders
  BY DEF BrowserInd, ListingOK
<1> QED BY <1>1, <1>2, <1>3, <1>4, ListLeft

LEMMA ClicksKeep ==
  ASSUME BrowserInd,
         \/ \E f \in Folders : GoToFolder(f) \/ MoveClick(f)
         \/ \E q \in Existing \cup {NoEntry} : TypeQuery(q)
         \/ \E d \in Entry : SelectEntry(d)
         \/ \E d \in Entry, verb \in {"trash", "restore", "purge"} : TrashClick(d, verb)
         \/ MoreClick \/ CreateClick \/ ChooseFile \/ ImportClick \/ CopyClick \/ RenameClick
  PROVE  BrowserInd'
<1>1. /\ driveFolder \in Folders /\ folderData \in Folders /\ selectedDrive \in Entry \cup {NoEntry}
      /\ driveData \in Seq(Row)
  BY DEF BrowserInd, ListingOK, RowsOK
<1>2. UNCHANGED listing => UNCHANGED <<driveFolder, folderData, driveData, shownSince, driveCursor, selectedDrive>>
  BY DEF listing
<1>3. ASSUME NEW f \in Folders, GoToFolder(f)
      PROVE  BrowserInd'
  <2>1. /\ Send(Call("folders", f, "render")) /\ DriveAct /\ driveFolder' = f
        /\ UNCHANGED <<stored, folderData, driveData, shownSince, driveCursor, selectedDrive, overtaken>>
    BY <1>3 DEF GoToFolder
  <2>2. Askable("folders", f)
    BY DEF Askable
  <2> QED BY <2>1, <2>2, SentKeeps
<1>4. ASSUME NEW f \in Folders, MoveClick(f)
      PROVE  BrowserInd'
  <2>1. PICK arg : arg = <<selectedDrive, f>>
    OBVIOUS
  <2>2. arg[1] \in Entry /\ arg[2] \in Folders
    BY <1>1, <1>4, <2>1 DEF MoveClick
  <2>3. Send(Call("move", arg, "folders")) /\ DriveAct /\ UNCHANGED <<stored, listing, overtaken>>
    BY <1>4, <2>1 DEF MoveClick
  <2>4. Askable("move", arg)
    BY <2>2 DEF Askable
  <2> QED BY <1>2, <2>3, <2>4, SentKeeps
<1>5. ASSUME NEW q \in Existing \cup {NoEntry}, TypeQuery(q)
      PROVE  BrowserInd'
  <2>1. selectedDrive' = Chosen(InView(driveData, folderData, q), selectedDrive)
    BY <1>5 DEF TypeQuery, RenderDrive
  <2>2. selectedDrive' \in Entry \cup {NoEntry}
    BY <1>1, <2>1, ChosenIs
  <2>3. DriveAct /\ UNCHANGED <<stored, calls, driveFolder, folderData, driveData, shownSince, driveCursor, overtaken>>
    BY <1>5 DEF TypeQuery, RenderDrive
  <2> QED BY <2>2, <2>3, ShownKeeps
<1>6. ASSUME NEW d \in Entry, SelectEntry(d)
      PROVE  BrowserInd'
  <2>1. selectedDrive' = Chosen(InView(driveData, folderData, driveQuery), d)
    BY <1>6 DEF SelectEntry, RenderDrive
  <2>2. selectedDrive' \in Entry \cup {NoEntry}
    BY <1>1, <2>1, ChosenIs
  <2>3. DriveAct /\ UNCHANGED <<stored, calls, driveFolder, folderData, driveData, shownSince, driveCursor, overtaken>>
    BY <1>6 DEF SelectEntry, RenderDrive
  <2> QED BY <2>2, <2>3, ShownKeeps
<1>7. ASSUME NEW d \in Entry, NEW verb \in {"trash", "restore", "purge"}, TrashClick(d, verb)
      PROVE  BrowserInd'
  <2>1. Send(Call(verb, d, "list")) /\ DriveAct /\ UNCHANGED <<stored, listing, overtaken>>
    BY <1>7 DEF TrashClick
  <2>2. Askable(verb, d)
    BY DEF Askable
  <2> QED BY <1>2, <2>1, <2>2, SentKeeps
<1>8. CASE MoreClick
  <2>1. Send(Call("more", driveCursor, "render")) /\ DriveAct /\ UNCHANGED <<stored, listing, overtaken>>
    BY <1>8 DEF MoreClick
  <2>2. Askable("more", driveCursor)
    BY DEF Askable
  <2> QED BY <1>2, <2>1, <2>2, SentKeeps
<1>9. CASE CreateClick \/ ImportClick \/ CopyClick \/ (ChooseFile /\ calls' # calls)
  <2>1. PICK after : Send(Call("create", driveFolder, after))
    BY <1>9 DEF CreateClick, ImportClick, CopyClick, ChooseFile
  <2>2. DriveAct /\ UNCHANGED <<stored, listing, overtaken>>
    BY <1>9 DEF CreateClick, ImportClick, CopyClick, ChooseFile
  <2>3. Askable("create", driveFolder)
    BY <1>1 DEF Askable
  <2> QED BY <1>2, <2>1, <2>2, <2>3, SentKeeps
<1>10. CASE RenameClick
  <2>1. selectedDrive \in Entry
    BY <1>1, <1>10 DEF RenameClick
  <2>2. Send(Call("rename", selectedDrive, "select")) /\ DriveAct /\ UNCHANGED <<stored, listing, overtaken>>
    BY <1>10 DEF RenameClick
  <2>3. Askable("rename", selectedDrive)
    BY <2>1 DEF Askable
  <2> QED BY <1>2, <2>2, <2>3, SentKeeps
<1>11. CASE ChooseFile /\ calls' = calls
  <2>1. DriveAct /\ UNCHANGED <<stored, listing, overtaken>>
    BY <1>11 DEF ChooseFile
  <2> QED BY <1>1, <1>2, <1>11, <2>1, ShownKeeps
<1> QED BY <1>3, <1>4, <1>5, <1>6, <1>7, <1>8, <1>9, <1>10, <1>11

---------------------------------------------------------------------------
(* Answers.                                                                *)

\* A request is taken away, or another takes its place.
LEMMA TakenKeeps ==
  ASSUME BrowserInd, NEW r \in calls, UNCHANGED <<stored, driveActs>>,
         \/ Arrived(r)
         \/ \E verb \in {"folders", "list"} : \E arg, after :
              Follow(r, verb, arg, after) /\ (verb = "folders" => arg \in Folders)
  PROVE  /\ CallsOK'
         /\ \A c \in calls' : c.kind = "more" => c \in calls \ {r}
         /\ \A c \in calls : c # r => c \in calls'
<1>1. StoreOK' /\ Newer /\ Time \in Nat /\ Time' \in Nat
  BY Untouched
<1>2. CallsOK /\ Asked(r)
  BY DEF BrowserInd, CallsOK, CallOK
<1>3. CASE Arrived(r)
  <2>1. calls' = calls \ {r}
    BY <1>3 DEF Arrived
  <2> QED BY <1>1, <1>2, <2>1, RequestsStay
<1>4. ASSUME NEW verb \in {"folders", "list"}, NEW arg, NEW after, Follow(r, verb, arg, after),
             verb = "folders" => arg \in Folders
      PROVE  /\ CallsOK'
             /\ \A c \in calls' : c.kind = "more" => c \in calls \ {r}
             /\ \A c \in calls : c # r => c \in calls'
  <2>1. PICK q : q = [r EXCEPT !.kind = verb, !.arg = arg, !.then = after, !.answer = Pending]
    BY Zenon
  <2>2. calls' = (calls \ {r}) \cup {q}
    BY <1>4, <2>1 DEF Follow
  <2>3. /\ q.kind = verb /\ q.arg = arg /\ q.answer = Pending
        /\ q = [n |-> q.n, kind |-> q.kind, arg |-> q.arg, then |-> q.then, answer |-> q.answer]
    BY <1>2, <2>1 DEF Asked
  <2>4. Asked(q) /\ ~q.answer.served
    BY <1>4, <2>3 DEF Asked, ListReads, Pending
  <2>5. CallOK(q)'
    BY <2>4 DEF CallOK
  <2>6. CallsOK'
    BY <1>1, <1>2, <2>2, <2>5, RequestsStay
  <2> QED BY <2>2, <2>3, <2>6
<1> QED BY <1>3, <1>4

LEMMA FoldersArriveKeeps ==
  ASSUME BrowserInd, NEW r \in calls, FoldersArrive(r)
  PROVE  BrowserInd'
<1>1. StoreOK' /\ Newer
  BY Untouched DEF FoldersArrive
<1>2. /\ driveFolder \in Folders /\ folderData \in Folders /\ selectedDrive \in Entry \cup {NoEntry}
      /\ driveData \in Seq(Row) /\ r.arg \in Folders /\ r.kind = "folders"
  BY DEF BrowserInd, ListingOK, RowsOK, CallsOK, CallOK, Asked, FoldersArrive
<1>3. /\ CallsOK'
      /\ \A c \in calls' : c.kind = "more" => c \in calls \ {r}
      /\ \A c \in calls : c # r => c \in calls'
  <2>1. UNCHANGED <<stored, driveActs>>
    BY DEF FoldersArrive
  <2>2. Arrived(r) \/ Follow(r, "list", 0, "render")
    BY DEF FoldersArrive
  <2> QED BY <2>1, <2>2, TakenKeeps
<1>4. UNCHANGED <<driveData, shownSince, driveCursor>>
  BY DEF FoldersArrive, RenderDrive
<1>5. ("more" \notin overtaken' => "more" \notin overtaken)
  BY DEF FoldersArrive
<1>6. selectedDrive' \in Entry \cup {NoEntry}
  <2>1. \/ selectedDrive' = Chosen(InView(driveData, r.arg, driveQuery), selectedDrive)
        \/ selectedDrive' = selectedDrive
    BY DEF FoldersArrive, RenderDrive
  <2> QED BY <2>1, <1>2, ChosenIs
<1>7. driveFolder' \in Folders /\ folderData' \in Folders
  BY <1>2 DEF FoldersArrive, RenderDrive, Folders
<1>8. FoldersFollow'
  <2> SUFFICES ASSUME "folders" \notin overtaken'
               PROVE  folderData' = driveFolder' \/ \E q \in calls' : Leads(q)'
    BY DEF FoldersFollow
  <2>1. r.answer.ok
    BY DEF FoldersArrive
  <2>2. folderData' = r.arg /\ driveFolder' = driveFolder
    BY <2>1 DEF FoldersArrive, RenderDrive
  <2>3. r.arg = driveFolder \/ \E q \in calls \ {r} : Leads(q)
    BY <2>1 DEF FoldersArrive
  <2>4. CASE \E q \in calls \ {r} : Leads(q)
    BY <2>2, <2>4, <1>3 DEF Leads
  <2> QED BY <2>2, <2>3, <2>4
<1>9. \A c \in calls' : c.kind = "more" =>
           \/ c.arg = driveCursor /\ ~c.answer.served
           \/ \E p \in calls : /\ p.kind = "more" /\ p.arg = c.arg
                               /\ c = p \/ ~c.answer.served \/ shownSince <= c.answer.at
  BY <1>3
<1> QED BY <1>1, <1>3, <1>4, <1>5, <1>6, <1>7, <1>8, <1>9, ListLeft

LEMMA ChangeArrivesKeeps ==
  ASSUME BrowserInd, NEW r \in calls, ChangeArrives(r)
  PROVE  BrowserInd'
<1>1. StoreOK' /\ Newer
  BY Untouched DEF ChangeArrives
<1>2. /\ driveFolder \in Folders /\ folderData \in Folders /\ selectedDrive \in Entry \cup {NoEntry}
      /\ r.kind \notin ListReads /\ r.answer.served /\ AnswerOK(r)
  BY DEF BrowserInd, ListingOK, CallsOK, CallOK, ChangeArrives, ListReads
<1>3. /\ CallsOK'
      /\ \A c \in calls' : c.kind = "more" => c \in calls \ {r}
      /\ \A c \in calls : c # r => c \in calls'
  <2>1. UNCHANGED <<stored, driveActs>>
    BY DEF ChangeArrives
  <2>2. Arrived(r) \/ Follow(r, "folders", driveFolder, "list") \/ Follow(r, "list", 0, "render")
    BY DEF ChangeArrives
  <2> QED BY <2>1, <2>2, <1>2, TakenKeeps
<1>4. UNCHANGED <<driveData, shownSince, driveCursor, driveFolder, folderData, overtaken>>
  BY DEF ChangeArrives
<1>5. selectedDrive' \in Entry \cup {NoEntry}
  BY <1>2 DEF ChangeArrives, AnswerOK
<1>6. FoldersFollow'
  <2>1. \A q \in calls : Leads(q) => q # r
    BY <1>2 DEF Leads, ListReads
  <2>2. \A q \in calls : Leads(q) => "folders" \in overtaken' \/ \E c \in calls' : c.kind = q.kind /\ c.arg = q.arg
    BY <2>1, <1>3
  <2> QED BY <2>2, <1>4, FoldersStay DEF BrowserInd
<1>7. \A c \in calls' : c.kind = "more" =>
           \/ c.arg = driveCursor /\ ~c.answer.served
           \/ \E p \in calls : /\ p.kind = "more" /\ p.arg = c.arg
                               /\ c = p \/ ~c.answer.served \/ shownSince <= c.answer.at
  BY <1>3
<1>8. driveFolder' \in Folders /\ folderData' \in Folders
  BY <1>2, <1>4
<1> QED BY <1>1, <1>3, <1>4, <1>5, <1>6, <1>7, <1>8, ListLeft

LEMMA RequestFailsKeeps ==
  ASSUME BrowserInd, NEW r \in calls, RequestFails(r)
  PROVE  BrowserInd'
<1>1. StoreOK' /\ Newer
  BY Untouched DEF RequestFails
<1>2. /\ driveFolder \in Folders /\ folderData \in Folders /\ selectedDrive \in Entry \cup {NoEntry}
  BY DEF BrowserInd, ListingOK
<1>3. /\ CallsOK'
      /\ \A c \in calls' : c.kind = "more" => c \in calls \ {r}
      /\ \A c \in calls : c # r => c \in calls'
  BY TakenKeeps DEF RequestFails
<1>4. UNCHANGED <<driveData, shownSince, driveCursor, driveFolder, folderData, selectedDrive>>
  BY DEF RequestFails, listing
<1>5. /\ "more" \notin overtaken' => "more" \notin overtaken
      /\ "folders" \notin overtaken' => "folders" \notin overtaken
  BY DEF RequestFails
<1>6. FoldersFollow'
  <2>1. \A q \in calls : Leads(q) => "folders" \in overtaken' \/ \E c \in calls' : c.kind = q.kind /\ c.arg = q.arg
    BY <1>3 DEF RequestFails
  <2> QED BY <2>1, <1>4, <1>5, FoldersStay DEF BrowserInd
<1>7. \A c \in calls' : c.kind = "more" =>
           \/ c.arg = driveCursor /\ ~c.answer.served
           \/ \E p \in calls : /\ p.kind = "more" /\ p.arg = c.arg
                               /\ c = p \/ ~c.answer.served \/ shownSince <= c.answer.at
  BY <1>3
<1>8. driveFolder' \in Folders /\ folderData' \in Folders /\ selectedDrive' \in Entry \cup {NoEntry}
  BY <1>2, <1>4
<1> QED BY <1>1, <1>3, <1>4, <1>5, <1>6, <1>7, <1>8, ListLeft

LEMMA FirstPageArrivesKeeps ==
  ASSUME BrowserInd, NEW r \in calls, FirstPageArrives(r)
  PROVE  BrowserInd'
<1>1. StoreOK' /\ Newer /\ Time \in Nat /\ Time' \in Nat
  BY Untouched DEF FirstPageArrives
<1>2. /\ driveFolder \in Folders /\ folderData \in Folders /\ selectedDrive \in Entry \cup {NoEntry}
      /\ r.kind = "list" /\ PageOK(r.answer, 0)
  BY DEF BrowserInd, ListingOK, CallsOK, CallOK, AnswerOK, FirstPageArrives
<1>3. /\ CallsOK'
      /\ \A c \in calls' : c.kind = "more" => c \in calls \ {r}
      /\ \A c \in calls : c # r => c \in calls'
  BY TakenKeeps DEF FirstPageArrives
<1>4. /\ driveData' = r.answer.items /\ driveCursor' = r.answer.cursor /\ shownSince' = r.answer.at
      /\ driveFolder' = driveFolder /\ folderData' = folderData
      /\ selectedDrive' = Chosen(InView(r.answer.items, folderData, driveQuery), selectedDrive)
  BY DEF FirstPageArrives, RenderDrive
<1>5. PICK p : p = r.answer
  OBVIOUS
<1>6. PageOK(p, 0)'
  <2>1. PageOK(p, 0)
    BY <1>2, <1>5
  <2> QED BY <2>1, <1>1, PageStill
<1>7. /\ RowsOK(p.items) /\ p.at \in Nat /\ p.at <= Time' /\ p.cursor \in Nat
      /\ Listed(p.items, p.cursor, p.at, 0)'
  BY <1>6 DEF PageOK, RowsOK
<1>8. ListingOK'
  <2>1. p.items \in Seq(Row)
    BY <1>7 DEF RowsOK
  <2>2. selectedDrive' \in Entry \cup {NoEntry}
    BY <2>1, <1>2, <1>4, <1>5, ChosenIs
  <2> QED BY <2>2, <1>2, <1>4, <1>5, <1>7 DEF ListingOK, RowsOK
<1>9. PagesJoin'
  <2> SUFFICES ASSUME "more" \notin overtaken'
               PROVE  /\ Listed(driveData, driveCursor, shownSince, 0)'
                      /\ \A c \in calls' : c.kind = "more" => MoreFits(c)'
    BY DEF PagesJoin, NothingSkipped, Listed
  <2>1. Listed(driveData, driveCursor, shownSince, 0)'
    BY <1>4, <1>5, <1>7 DEF Listed
  <2>2. ~\E q \in calls : q.kind = "more"
    BY DEF FirstPageArrives
  <2> QED BY <2>1, <2>2, <1>3
<1>10. FoldersFollow'
  <2>1. \A q \in calls : Leads(q) => q # r
    BY <1>2 DEF Leads
  <2>2. \A q \in calls : Leads(q) => "folders" \in overtaken' \/ \E c \in calls' : c.kind = q.kind /\ c.arg = q.arg
    BY <2>1, <1>3
  <2>3. "folders" \notin overtaken' => "folders" \notin overtaken
    BY DEF FirstPageArrives
  <2> QED BY <2>2, <2>3, <1>4, FoldersStay DEF BrowserInd
<1> QED BY <1>1, <1>3, <1>8, <1>9, <1>10 DEF BrowserInd

LEMMA MoreArrivesKeeps ==
  ASSUME BrowserInd, NEW r \in calls, MoreArrives(r)
  PROVE  BrowserInd'
<1>1. StoreOK' /\ Newer /\ Time \in Nat /\ Time' \in Nat
  BY Untouched DEF MoreArrives
<1>2. /\ driveFolder \in Folders /\ folderData \in Folders /\ selectedDrive \in Entry \cup {NoEntry}
      /\ RowsOK(driveData) /\ shownSince \in Nat /\ shownSince <= Time
  BY DEF BrowserInd, ListingOK
<1>3. /\ CallsOK'
      /\ \A c \in calls' : c.kind = "more" => c \in calls \ {r}
      /\ \A c \in calls : c # r => c \in calls'
  BY TakenKeeps DEF MoreArrives
<1>4. r.kind = "more" /\ r.answer.served /\ PageOK(r.answer, r.arg) /\ r.arg \in Nat
  BY DEF BrowserInd, CallsOK, CallOK, AnswerOK, Asked, MoreArrives
<1>5. PICK p : p = r.answer
  OBVIOUS
<1>6. PICK fresh : fresh = {i \in DOMAIN p.items : p.items[i].id \notin Ids(driveData)}
  OBVIOUS
<1>7. PICK list : list = driveData
  OBVIOUS
<1>8. PICK more : more = list \o Picked(p.items, fresh)
  OBVIOUS
<1>9. /\ driveData' = more /\ driveCursor' = p.cursor /\ shownSince' = shownSince
      /\ driveFolder' = driveFolder /\ folderData' = folderData /\ overtaken' = overtaken
      /\ selectedDrive' = Chosen(InView(more, folderData, driveQuery), selectedDrive)
  BY <1>5, <1>6, <1>7, <1>8 DEF MoreArrives, RenderDrive
<1>10. /\ RowsOK(p.items) /\ p.at \in Nat /\ p.at <= Time /\ p.cursor \in Nat
       /\ Listed(p.items, p.cursor, p.at, r.arg)
  BY <1>4, <1>5 DEF PageOK
<1>11. RowsOK(more) /\ Ids(more) = Ids(list) \cup Ids(p.items)
  BY <1>2, <1>6, <1>7, <1>8, <1>10, RowsJoined
<1>12. ListingOK'
  <2>1. more \in Seq(Row)
    BY <1>11 DEF RowsOK
  <2>2. selectedDrive' \in Entry \cup {NoEntry}
    BY <2>1, <1>2, <1>9, ChosenIs
  <2>3. shownSince' \in Nat /\ shownSince' <= Time'
    BY <1>1, <1>2, <1>9 DEF Newer
  <2> QED BY <2>2, <2>3, <1>2, <1>9, <1>10, <1>11 DEF ListingOK, RowsOK
<1>13. PagesJoin'
  <2> SUFFICES ASSUME "more" \notin overtaken'
               PROVE  /\ Listed(driveData, driveCursor, shownSince, 0)'
                      /\ \A c \in calls' : c.kind = "more" => MoreFits(c)'
    BY DEF PagesJoin, NothingSkipped, Listed
  <2>1. \A c \in calls : c.kind = "more" => MoreFits(c)
    BY <1>9 DEF BrowserInd, PagesJoin
  <2>2. PICK since \in Nat : since = shownSince
    BY <1>2
  <2>3. Listed(list, r.arg, since, 0) /\ since <= p.at
    BY <2>1, <2>2, <1>4, <1>5, <1>7 DEF MoreFits
  <2>4. Listed(more, p.cursor, since, 0)
    <3> SUFFICES ASSUME NEW d \in Entry, Visible(d), changedAt[d] <= since, stamp[d] >= p.cursor
                 PROVE  d \in Ids(more)
      BY DEF Listed
    <3>1. stamp[d] \in Nat /\ changedAt[d] \in Nat
      BY DEF BrowserInd, StoreOK
    <3>2. CASE stamp[d] >= r.arg
      <4>1. d \in Ids(list)
        BY <2>3, <3>2 DEF Listed
      <4> QED BY <4>1, <1>11
    <3>3. CASE stamp[d] < r.arg
      <4>1. changedAt[d] <= p.at
        BY <2>3, <3>1, <1>10
      <4>2. d \in Ids(p.items)
        BY <3>3, <4>1, <1>10 DEF Listed
      <4> QED BY <4>2, <1>11
    <3> QED BY <3>1, <3>2, <3>3, <1>4
  <2>5. since <= Time
    BY <2>2, <1>2
  <2>6. Listed(more, p.cursor, since, 0)'
    BY <2>4, <2>5, <1>1, ListedStill
  <2>7. Listed(driveData, driveCursor, shownSince, 0)'
    BY <2>2, <2>6, <1>9 DEF Listed
  <2>8. ASSUME NEW c \in calls', c.kind = "more"
        PROVE  MoreFits(c)'
    <3>1. MoreFits(c)
      BY <2>1, <2>8, <1>3
    <3>2. Listed(list, c.arg, since, 0) /\ (c.answer.served => since <= c.answer.at)
      BY <2>2, <3>1, <1>7 DEF MoreFits
    <3>3. Listed(more, c.arg, since, 0)
      BY <3>2, <1>11 DEF Listed
    <3>4. Listed(more, c.arg, since, 0)'
      BY <2>5, <3>3, <1>1, ListedStill
    <3>5. Listed(driveData, c.arg, shownSince, 0)'
      BY <2>2, <3>4, <1>9 DEF Listed
    <3> QED BY <2>2, <3>2, <3>5, <1>9 DEF MoreFits
  <2> QED BY <2>7, <2>8
<1>14. FoldersFollow'
  <2>1. \A q \in calls : Leads(q) => q # r
    BY <1>4 DEF Leads
  <2>2. \A q \in calls : Leads(q) => "folders" \in overtaken' \/ \E c \in calls' : c.kind = q.kind /\ c.arg = q.arg
    BY <2>1, <1>3
  <2> QED BY <2>2, <1>9, FoldersStay DEF BrowserInd
<1> QED BY <1>1, <1>3, <1>12, <1>13, <1>14 DEF BrowserInd

---------------------------------------------------------------------------
(* The theorem.                                                            *)

LEMMA DriveStep ==
  BrowserInd /\ [DriveNext]_driveVars => BrowserInd'
<1> SUFFICES ASSUME BrowserInd, [DriveNext]_driveVars PROVE BrowserInd'
  OBVIOUS
<1>1. CASE UNCHANGED driveVars
  <2>1. StoreOK' /\ Newer /\ Time \in Nat /\ Time' \in Nat
    BY <1>1, Untouched DEF driveVars
  <2>2. UNCHANGED <<listing, calls, driveActs, overtaken>>
    BY <1>1 DEF driveVars
  <2>3. UNCHANGED <<driveFolder, folderData, driveData, shownSince, driveCursor, selectedDrive>>
    BY <2>2 DEF listing
  <2>4. CallsOK'
    BY <2>1, <2>2, RequestsStay DEF BrowserInd
  <2>5. FoldersFollow'
    BY <2>2, <2>3, FoldersStay DEF BrowserInd
  <2>6. driveFolder' \in Folders /\ folderData' \in Folders /\ selectedDrive' \in Entry \cup {NoEntry}
    BY <2>3 DEF BrowserInd, ListingOK
  <2> QED BY <2>1, <2>2, <2>3, <2>4, <2>5, <2>6, ListLeft
<1>2. CASE \/ \E f \in Folders : GoToFolder(f) \/ MoveClick(f)
           \/ \E q \in Existing \cup {NoEntry} : TypeQuery(q)
           \/ \E d \in Entry : SelectEntry(d)
           \/ \E d \in Entry, verb \in {"trash", "restore", "purge"} : TrashClick(d, verb)
           \/ MoreClick \/ CreateClick \/ ChooseFile \/ ImportClick \/ CopyClick \/ RenameClick
  BY <1>2, ClicksKeep
<1>3. CASE (\E d \in Entry : OtherWrites(d)) \/ (\E f \in Folder : OtherRemoves(f))
  BY <1>3, OthersKeep
<1>4. ASSUME NEW r \in calls,
             \/ ServeRead(r) \/ ServeCreate(r) \/ ServeChange(r)
             \/ FoldersArrive(r) \/ FirstPageArrives(r) \/ MoreArrives(r) \/ ChangeArrives(r)
             \/ RequestFails(r)
      PROVE  BrowserInd'
  BY <1>4, ServeReadKeeps, ServeCreateKeeps, ServeChangeKeeps, FoldersArriveKeeps,
     FirstPageArrivesKeeps, MoreArrivesKeeps, ChangeArrivesKeeps, RequestFailsKeeps
<1> QED BY <1>1, <1>2, <1>3, <1>4 DEF DriveNext

LEMMA OrderExists ==
  ASSUME NEW S, IsFiniteSet(S)
  PROVE  \E f \in [S -> 1 .. Cardinality(S)] : \A d, e \in S : d # e => f[d] # f[e]
<1>1. PICK m : m = Cardinality(S)
  OBVIOUS
<1>2. PICK g : g \in Bijection(1 .. m, S)
  BY <1>1, FS_CardinalityType DEF ExistsBijection
<1>3. /\ g \in [1 .. m -> S] /\ \A d \in S : \E i \in 1 .. m : g[i] = d
  BY <1>2 DEF Bijection, Injection, Surjection
<1>4. PICK f : f = [d \in S |-> CHOOSE i \in 1 .. m : g[i] = d]
  OBVIOUS
<1>5. \A d \in S : f[d] \in 1 .. m /\ g[f[d]] = d
  BY <1>3, <1>4
<1>6. f \in [S -> 1 .. m]
  BY <1>4, <1>5
<1>7. \A d, e \in S : d # e => f[d] # f[e]
  BY <1>5
<1> QED BY <1>1, <1>6, <1>7

LEMMA DriveBegins == DriveInit => BrowserInd
<1> SUFFICES ASSUME DriveInit PROVE BrowserInd
  OBVIOUS
<1>1. PICK order : order = CHOOSE f \in [Existing -> 1 .. Cardinality(Existing)] :
                             \A d, e \in Existing : d # e => f[d] # f[e]
  OBVIOUS
<1>2. IsFiniteSet(Existing) /\ Cardinality(Existing) \in Nat
  <2>1. IsFiniteSet(Entry) /\ Existing \in SUBSET Entry
    BY BrowserAssumption
  <2>2. IsFiniteSet(Existing)
    BY <2>1, FS_Subset
  <2> QED BY <2>2, FS_CardinalityType
<1>3. /\ order \in [Existing -> 1 .. Cardinality(Existing)]
      /\ \A d, e \in Existing : d # e => order[d] # order[e]
  <2>1. \E f \in [Existing -> 1 .. Cardinality(Existing)] : \A d, e \in Existing : d # e => f[d] # f[e]
    BY <1>2, OrderExists
  <2> QED BY <2>1, <1>1
<1>4. /\ stamp = [d \in Entry |-> IF d \in Existing THEN order[d] ELSE 0]
      /\ parent = [d \in Entry |-> Root] /\ changedAt = stamp /\ trashed = {}
  BY <1>1 DEF DriveInit
<1>5. \A d \in Existing : order[d] \in Nat
  BY <1>2, <1>3
<1>6. StoreOK
  <2>1. stamp \in [Entry -> Nat]
    BY <1>4, <1>5
  <2>2. parent \in [Entry -> Folders]
    BY <1>4 DEF Folders
  <2>3. \A d \in Entry : stamp[d] <= changedAt[d]
    <3> SUFFICES ASSUME NEW d \in Entry PROVE stamp[d] <= changedAt[d]
      OBVIOUS
    <3>1. stamp[d] \in Nat
      BY <2>1
    <3> QED BY <3>1, <1>4
  <2>4. ASSUME NEW d \in Entry, NEW e \in Entry, d # e, stamp[d] > 0
        PROVE  stamp[d] # stamp[e]
    <3>1. d \in Existing /\ stamp[d] = order[d]
      BY <2>4, <1>4
    <3>2. CASE e \in Existing
      BY <2>4, <3>1, <3>2, <1>3, <1>4
    <3>3. CASE e \notin Existing
      BY <2>4, <3>3, <1>4
    <3> QED BY <3>2, <3>3
  <2> QED BY <2>1, <2>2, <2>3, <2>4, <1>4 DEF StoreOK
<1>7. PICK p : p = Page(0)
  OBVIOUS
<1>8. p.at = Time /\ PageOK(p, 0)
  <2>1. PICK before \in Nat : before = 0
    OBVIOUS
  <2> QED BY <2>1, <1>6, <1>7, PageIs
<1>9. /\ driveFolder = Root /\ folderData = Root /\ driveData = p.items /\ driveCursor = p.cursor
      /\ shownSince = p.at /\ calls = {} /\ driveActs = 0
      /\ selectedDrive = Chosen(InView(p.items, folderData, NoEntry), NoEntry)
  BY <1>7, <1>8 DEF DriveInit
<1>10. ListingOK
  <2>1. p.items \in Seq(Row)
    BY <1>8 DEF PageOK, RowsOK
  <2>2. NoEntry \in Entry \cup {NoEntry}
    OBVIOUS
  <2>3. selectedDrive \in Entry \cup {NoEntry}
    BY <2>1, <2>2, <1>9, ChosenIs
  <2> QED BY <2>3, <1>8, <1>9 DEF ListingOK, PageOK, Folders
<1>11. CallsOK
  BY <1>9, FS_EmptySet, BrowserAssumption DEF CallsOK
<1>12. PagesJoin
  <2>1. Listed(driveData, driveCursor, shownSince, 0)
    BY <1>8, <1>9 DEF PageOK
  <2> QED BY <2>1, <1>9 DEF PagesJoin, NothingSkipped, Listed
<1>13. FoldersFollow
  BY <1>9 DEF FoldersFollow
<1> QED BY <1>6, <1>10, <1>11, <1>12, <1>13 DEF BrowserInd

LEMMA BrowserIndImplies == BrowserInd => BrowserInv
<1> SUFFICES ASSUME BrowserInd PROVE BrowserInv
  OBVIOUS
<1>1. DriveTypeOK
  <2>1. /\ driveActs \in 0 .. MaxDriveActs /\ Cardinality(calls) <= driveActs /\ IsFiniteSet(calls)
    BY DEF BrowserInd, CallsOK
  <2>2. Cardinality(calls) \in Nat
    BY <2>1, FS_CardinalityType
  <2>3. Cardinality(calls) <= MaxDriveActs
    BY <2>1, <2>2, BrowserAssumption
  <2> QED BY <2>1, <2>3 DEF DriveTypeOK, BrowserInd, ListingOK, RowsOK
<1>2. NothingSkipped
  BY DEF BrowserInd, PagesJoin
<1>3. StandsWhereShown
  BY DEF BrowserInd, FoldersFollow, StandsWhereShown, Leads
<1> QED BY <1>1, <1>2, <1>3 DEF BrowserInv

\* In every behaviour of the page, the list shows every document that was there
\* when its first page was served, down to its cursor, and the folders are those
\* of the open folder or on their way, unless a request was overtaken.
THEOREM ListHasNoHoles == PartsSpec => []BrowserInv
<1>1. PartsInit => BrowserInd
  BY DriveBegins DEF PartsInit
<1>2. BrowserInd /\ [PartsNext]_partVars => BrowserInd'
  <2>1. [PartsNext]_partVars => [DriveNext]_driveVars
    BY DEF PartsNext, partVars, Editor, Browser, Panels, Surfaces, browsing
  <2> QED BY <2>1, DriveStep
<1>3. BrowserInd => BrowserInv
  BY BrowserIndImplies
<1> QED BY <1>1, <1>2, <1>3, PTL DEF PartsSpec

(***************************************************************************)
(* Sorting.                                                                *)
(***************************************************************************)

\* Another order of a sequence in which numbers only grow.
Rearranged(o, s, numbers) ==
  \E f \in [DOMAIN s -> DOMAIN s] :
    /\ \A n \in DOMAIN s : o[n] = s[f[n]]
    /\ \A i \in DOMAIN s : \E n \in DOMAIN s : f[n] = i
    /\ \A n, k \in DOMAIN s : n <= k => numbers[f[n]] <= numbers[f[k]]

LEMMA OrderedIs ==
  ASSUME NEW T, NEW s \in Seq(T), NEW numbers \in [DOMAIN s -> Nat]
  PROVE  /\ Ordered(s, numbers) \in Seq(T) /\ Len(Ordered(s, numbers)) = Len(s)
         /\ Rearranged(Ordered(s, numbers), s, numbers)
<1>1. Len(s) \in Nat /\ DOMAIN s = 1..Len(s) /\ \A i \in DOMAIN s : s[i] \in T
  OBVIOUS
<1> DEFINE D == DOMAIN s
           Rank(i) == Cardinality({k \in D : Before(numbers, k, i)})
           U == [i \in D |-> {k \in D : Before(numbers, k, i)}]
           f == [n \in D |-> CHOOSE i \in D : Rank(i) = n]
           o == Ordered(s, numbers)
<1>2. o = [n \in D |-> s[f[n]]]
  BY DEF Ordered
<1>3. U \in [D -> SUBSET D] /\ \A i, k \in D : k \in U[i] <=> Before(numbers, k, i)
  OBVIOUS
<1>4. \A i \in D : Rank(i) = Cardinality(U[i])
  OBVIOUS
<1>5. \A i \in D : i \in Nat /\ numbers[i] \in Nat
  BY <1>1
<1>6. \A n \in D : f[n] = CHOOSE i \in D : Rank(i) = n
  OBVIOUS
<1>7. IsFiniteSet(D) /\ Cardinality(D) = Len(s)
  <2>1. IsFiniteSet(1..Len(s)) /\ Cardinality(1..Len(s)) = IF 1 > Len(s) THEN 0 ELSE Len(s) - 1 + 1
    BY <1>1, FS_Interval
  <2> QED BY <1>1, <2>1
<1> HIDE DEF U
<1>8. Ordering(D, U)
  <2>1. /\ \A x \in D : x \in U[x]
        /\ \A x, y \in D : x \in U[y] \/ y \in U[x]
        /\ \A x, y \in D : x \in U[y] /\ y \in U[x] => x = y
    BY <1>3, <1>5 DEF Before
  <2>2. ASSUME NEW x \in D, NEW y \in D, x \in U[y], NEW z \in U[x]
        PROVE  z \in U[y]
    <3>1. z \in D
      BY <1>3
    <3>2. Before(numbers, z, x) /\ Before(numbers, x, y)
      BY <1>3, <2>2, <3>1
    <3>3. Before(numbers, z, y)
      BY <1>5, <3>1, <3>2 DEF Before
    <3> QED BY <1>3, <3>1, <3>3
  <2> HIDE DEF D
  <2> QED BY <1>3, <2>1, <2>2 DEF Ordering
<1>9. Ranking(D, U)
  BY <1>7, <1>8, Ranked
<1>10. /\ \A n \in D : f[n] \in D /\ Cardinality(U[f[n]]) = n
       /\ \A i \in D : Cardinality(U[i]) \in D
  <2>1. D = 1..Cardinality(D)
    BY <1>1, <1>7
  <2>2. \A i \in D : Cardinality(U[i]) \in D
    BY <1>9, <2>1 DEF Ranking
  <2>3. \A n \in D : \E i \in D : Rank(i) = n
    <3>1. \A n \in 1..Cardinality(D) : \E i \in D : Cardinality(U[i]) = n
      BY <1>9 DEF Ranking
    <3> HIDE DEF Rank, D
    <3>2. \A n \in D : \E i \in D : Cardinality(U[i]) = n
      BY <2>1, <3>1
    <3> QED BY <1>4, <3>2
  <2>4. ASSUME NEW n \in D
        PROVE  f[n] \in D /\ Cardinality(U[f[n]]) = n
    <3>1. \E i \in D : Rank(i) = n
      BY <2>3
    <3> HIDE DEF Rank, D
    <3>2. f[n] \in D /\ Rank(f[n]) = n
      BY <1>6, <3>1
    <3> QED BY <1>4, <3>2
  <2> HIDE DEF f, Rank, D
  <2> QED BY <2>2, <2>4
<1>11. ASSUME NEW i \in D
       PROVE  \E n \in D : f[n] = i
  <2>1. \A x, y \in D : Cardinality(U[x]) = Cardinality(U[y]) => x = y
    BY <1>9 DEF Ranking
  <2> HIDE DEF f
  <2> QED BY <1>10, <2>1
<1>12. ASSUME NEW n \in D, NEW k \in D, n <= k
       PROVE  numbers[f[n]] <= numbers[f[k]]
  <2>1. PICK i \in D : i = f[n] /\ Cardinality(U[i]) = n
    BY <1>10
  <2>2. PICK j \in D : j = f[k] /\ Cardinality(U[j]) = k
    BY <1>10
  <2>3. n \in Nat /\ k \in Nat
    BY <1>1
  <2>4. CASE i \in U[j]
    <3>1. Before(numbers, i, j)
      BY <1>3, <2>4
    <3>2. numbers[i] <= numbers[j]
      BY <1>5, <3>1 DEF Before
    <3> QED BY <2>1, <2>2, <3>2
  <2>5. CASE j \in U[i]
    <3>1. k <= n
      BY <1>9, <2>1, <2>2, <2>5 DEF Ranking
    <3>2. k = n
      BY <1>12, <2>3, <3>1
    <3>3. \A x, y \in D : Cardinality(U[x]) = Cardinality(U[y]) => x = y
      BY <1>9 DEF Ranking
    <3>4. i = j
      BY <2>1, <2>2, <3>2, <3>3
    <3>5. numbers[i] <= numbers[i]
      BY <1>5
    <3> QED BY <2>1, <2>2, <3>4, <3>5
  <2> QED BY <1>8, <2>4, <2>5 DEF Ordering
<1> HIDE DEF f
<1>13. o \in Seq(T) /\ Len(o) = Len(s)
  BY <1>1, <1>2, <1>10
<1>14. f \in [D -> D]
  <2>1. f = [n \in D |-> CHOOSE i \in D : Rank(i) = n]
    BY DEF f
  <2> HIDE DEF D, Rank
  <2> QED BY <1>10, <2>1
<1>15. \A n \in D : o[n] = s[f[n]]
  BY <1>2
<1> HIDE DEF o, Rank
<1>16. Rearranged(o, s, numbers)
  BY <1>11, <1>12, <1>14, <1>15 DEF Rearranged
<1> QED BY <1>13, <1>16 DEF o

\* What holds of 0 and, with each number below the last, of the next one.
LEMMA UpToLast ==
  ASSUME NEW last \in Nat, NEW G, G \subseteq 0..last, 0 \in G, \A n \in G : n < last => n + 1 \in G
  PROVE  last \in G
<1>1. IsFiniteSet(0..last)
  BY FS_Interval
<1>2. G \in SUBSET (0..last) /\ \A n \in G : n \in Nat /\ n <= last
  OBVIOUS
<1>3. IsFiniteSet(G)
  BY <1>1, <1>2, FS_Subset
<1>4. Max(G) \in G /\ \A n \in G : n <= Max(G)
  BY <1>2, <1>3, Largest
<1>5. PICK m \in G : \A n \in G : n <= m
  BY <1>4
<1>6. m < last => m + 1 \in G /\ m + 1 <= m
  BY <1>5
<1>7. m \in Nat /\ m <= last
  BY <1>2
<1>8. m = last
  BY <1>6, <1>7
<1> QED BY <1>5, <1>8

(***************************************************************************)
(* The pieces a text is drawn in.                                          *)
(***************************************************************************)

Piece == [from : Nat, to : Nat, run : BOOLEAN]

\* Pieces that draw a text up to an offset, once and in order.
Tiles(p, at) ==
  /\ p \in Seq(Piece)
  /\ \A j \in DOMAIN p : p[j].from = (IF j = 1 THEN 0 ELSE p[j - 1].to) /\ p[j].from < p[j].to
  /\ at = (IF p = <<>> THEN 0 ELSE p[Len(p)].to)
  /\ \A j \in DOMAIN p : p[j].to <= at

InRun(p, c) == \E j \in DOMAIN p : p[j].run /\ p[j].from <= c /\ c < p[j].to

\* One more piece, and what is drawn with it.
Added(p, q, at, to, run) ==
  /\ at \in Nat /\ to \in Nat /\ at < to /\ run \in BOOLEAN
  /\ Tiles(p, at) /\ q = p \o <<[from |-> at, to |-> to, run |-> run]>>
Grown(p, q, at, to, run) ==
  /\ Tiles(q, to)
  /\ \A c \in Nat : InRun(q, c) <=> InRun(p, c) \/ (run /\ at <= c /\ c < to)

LEMMA TileAdded ==
  ASSUME NEW p, NEW q, NEW at, NEW to, NEW run, Added(p, q, at, to, run)
  PROVE  Grown(p, q, at, to, run)
<1> USE DEF Added
<1> DEFINE x == [from |-> at, to |-> to, run |-> run]
<1>1. x \in Piece /\ x.from = at /\ x.to = to /\ x.run = run
  BY DEF Piece
<1> HIDE DEF x
<1>2. p \in Seq(Piece) /\ Len(p) \in Nat /\ DOMAIN p = 1..Len(p) /\ \A j \in DOMAIN p : p[j] \in Piece
  BY DEF Tiles
<1>3. /\ q \in Seq(Piece) /\ Len(q) = Len(p) + 1
      /\ \A j \in 1..Len(p) : q[j] = p[j]
      /\ q[Len(p) + 1] = x
  <2>1. q = p \o <<x>>
    BY DEF x
  <2>2. q = Append(p, x)
    BY <1>1, <1>2, <2>1
  <2> QED BY <1>1, <1>2, <2>2, AppendProperties
<1>4. DOMAIN q = 1..(Len(p) + 1) /\ q # <<>>
  BY <1>2, <1>3
<1>5. \A j \in DOMAIN p : p[j].from \in Nat /\ p[j].to \in Nat
  BY <1>2 DEF Piece
<1>6. p = <<>> <=> Len(p) = 0
  BY <1>2, EmptySeq
<1>7. ASSUME NEW j \in DOMAIN q
      PROVE  /\ q[j].from = (IF j = 1 THEN 0 ELSE q[j - 1].to) /\ q[j].from < q[j].to
             /\ q[j].to <= to
  <2>1. CASE j \in 1..Len(p)
    <3>1. j # 1 => j - 1 \in 1..Len(p)
      BY <1>2, <2>1
    <3>2. q[j] = p[j] /\ (j # 1 => q[j - 1] = p[j - 1])
      BY <1>3, <2>1, <3>1
    <3>3. p[j].from = (IF j = 1 THEN 0 ELSE p[j - 1].to) /\ p[j].from < p[j].to /\ p[j].to <= at
      BY <1>2, <2>1 DEF Tiles
    <3> QED BY <1>2, <1>5, <2>1, <3>2, <3>3
  <2>2. CASE j = Len(p) + 1
    <3>1. q[j] = x
      BY <1>3, <2>2
    <3>2. CASE p = <<>>
      BY <1>1, <1>6, <2>2, <3>1, <3>2 DEF Tiles
    <3>3. CASE p # <<>>
      <4>1. j # 1 /\ j - 1 = Len(p) /\ Len(p) \in 1..Len(p)
        BY <1>2, <1>6, <2>2, <3>3
      <4>2. q[j - 1] = p[Len(p)] /\ at = p[Len(p)].to
        BY <1>3, <3>3, <4>1 DEF Tiles
      <4> QED BY <1>1, <3>1, <4>1, <4>2
    <3> QED BY <3>2, <3>3
  <2> QED BY <1>2, <1>4, <2>1, <2>2
<1>8. to = q[Len(q)].to
  BY <1>1, <1>3
<1>9. ASSUME NEW c \in Nat
      PROVE  InRun(q, c) <=> InRun(p, c) \/ (run /\ at <= c /\ c < to)
  <2>1. ASSUME InRun(p, c) PROVE InRun(q, c)
    BY <1>2, <1>3, <1>4, <2>1 DEF InRun
  <2>2. ASSUME run, at <= c, c < to PROVE InRun(q, c)
    <3>1. Len(p) + 1 \in DOMAIN q
      BY <1>2, <1>4
    <3> QED BY <1>1, <1>3, <2>2, <3>1 DEF InRun
  <2>3. ASSUME InRun(q, c) PROVE InRun(p, c) \/ (run /\ at <= c /\ c < to)
    <3>1. PICK j \in 1..(Len(p) + 1) : q[j].run /\ q[j].from <= c /\ c < q[j].to
      BY <1>4, <2>3 DEF InRun
    <3>2. CASE j \in 1..Len(p)
      BY <1>2, <1>3, <3>1, <3>2 DEF InRun
    <3>3. CASE j = Len(p) + 1
      BY <1>1, <1>3, <3>1, <3>3
    <3> QED BY <1>2, <3>2, <3>3
  <2> QED BY <2>1, <2>2, <2>3
<1> QED BY <1>3, <1>4, <1>7, <1>8, <1>9 DEF Tiles, Grown

\* What is drawn of a text after some of its runs.
DrawnUpTo(d, rs, k) ==
  /\ d.at \in Nat /\ Tiles(d.pieces, d.at)
  /\ \A i \in 1..k : rs[i].to <= d.at
  /\ d.at = 0 \/ \E i \in 1..k : d.at = rs[i].to
  /\ \A c \in Nat : InRun(d.pieces, c) <=> \E i \in 1..k : rs[i].from <= c /\ c < rs[i].to

Sorted(rs) ==
  /\ \A i \in DOMAIN rs : rs[i].from \in Nat /\ rs[i].to \in Nat /\ rs[i].from < rs[i].to
  /\ \A i, j \in DOMAIN rs : i <= j => rs[i].from <= rs[j].from

LEMMA Larger == ASSUME NEW a \in Nat, NEW b \in Nat PROVE Max({a, b}) = IF a < b THEN b ELSE a
<1>1. IsFiniteSet({a, b})
  <2>1. IsFiniteSet({a} \cup {b})
    BY FS_Singleton, FS_AddElement
  <2>2. {a, b} = {a} \cup {b}
    OBVIOUS
  <2> QED BY <2>1, <2>2
<1>2. Max({a, b}) \in {a, b} /\ \A z \in {a, b} : z <= Max({a, b})
  BY <1>1, Largest
<1> QED BY <1>2

LEMMA RunDrawn ==
  ASSUME NEW rs, NEW n \in Nat, DOMAIN rs = 1..n, Sorted(rs), NEW k \in Nat, k < n,
         NEW d, DrawnUpTo(d, rs, k)
  PROVE  DrawnUpTo(DrawRun(d, rs[k + 1]), rs, k + 1)
<1> DEFINE r == rs[k + 1]
           at == d.at
           from == IF at < r.from THEN r.from ELSE at
<1>1. at \in Nat /\ r.from \in Nat /\ r.to \in Nat /\ r.from < r.to /\ Tiles(d.pieces, at)
  BY DEF DrawnUpTo, Sorted
<1>2. \A i \in 1..k : /\ rs[i].from \in Nat /\ rs[i].to \in Nat /\ rs[i].from < rs[i].to
                       /\ rs[i].from <= r.from /\ rs[i].to <= at
  BY DEF DrawnUpTo, Sorted
<1>3. from = Max({at, r.from})
  BY <1>1, Larger
<1>4. /\ at = 0 \/ \E i \in 1..k : at = rs[i].to
      /\ \A c \in Nat : InRun(d.pieces, c) <=> \E i \in 1..k : rs[i].from <= c /\ c < rs[i].to
  BY DEF DrawnUpTo
<1>5. \A i \in 1..(k + 1) : i \in 1..k \/ i = k + 1
  OBVIOUS
<1>6. k + 1 \in 1..(k + 1) /\ \A i \in 1..k : i \in 1..(k + 1)
  OBVIOUS
\* What of the run was drawn before.
<1>7. ASSUME NEW c \in Nat, r.from <= c, c < at
      PROVE  \E i \in 1..k : rs[i].from <= c /\ c < rs[i].to
  <2>1. PICK i \in 1..k : at = rs[i].to
    BY <1>1, <1>4, <1>7
  <2>2. rs[i].from <= c
    BY <1>1, <1>2, <1>7
  <2> QED BY <1>7, <2>1, <2>2
<1> HIDE DEF r
<1>8. CASE r.to <= from
  <2>1. DrawRun(d, r) = d
    BY <1>3, <1>8 DEF DrawRun
  <2>2. r.to <= at
    BY <1>1, <1>8
  <2>3. \A i \in 1..(k + 1) : rs[i].to <= at
    BY <1>2, <1>5, <2>2 DEF r
  <2>4. at = 0 \/ \E i \in 1..(k + 1) : at = rs[i].to
    BY <1>4, <1>6
  <2>5. ASSUME NEW c \in Nat
        PROVE  InRun(d.pieces, c) <=> \E i \in 1..(k + 1) : rs[i].from <= c /\ c < rs[i].to
    <3>1. r.from <= c /\ c < r.to => \E i \in 1..k : rs[i].from <= c /\ c < rs[i].to
      BY <1>1, <1>7, <2>2
    <3>2. (\E i \in 1..(k + 1) : rs[i].from <= c /\ c < rs[i].to)
            <=> \E i \in 1..k : rs[i].from <= c /\ c < rs[i].to
      BY <1>5, <1>6, <3>1 DEF r
    <3> QED BY <1>4, <3>2
  <2> QED BY <1>1, <2>1, <2>3, <2>4, <2>5 DEF DrawnUpTo, r
<1>9. CASE ~(r.to <= from)
  <2> DEFINE gap == IF from > at THEN <<[from |-> at, to |-> from, run |-> FALSE]>> ELSE <<>>
             p == d.pieces \o gap
             q == p \o <<[from |-> from, to |-> r.to, run |-> TRUE]>>
  <2>1. DrawRun(d, r) = [at |-> r.to, pieces |-> q]
    <3> DEFINE m == Max({at, r.from})
    <3>1. DrawRun(d, r) = IF r.to <= m THEN d
            ELSE [at |-> r.to,
                  pieces |-> d.pieces \o (IF m > at THEN <<[from |-> at, to |-> m, run |-> FALSE]>> ELSE <<>>)
                               \o <<[from |-> m, to |-> r.to, run |-> TRUE]>>]
      BY DEF DrawRun
    <3>2. m = from
      BY <1>3
    <3> HIDE DEF m, from
    <3> QED BY <1>9, <3>1, <3>2
  <2>2. from \in Nat /\ at <= from /\ from < r.to
    BY <1>1, <1>9
  <2> HIDE DEF from
  <2>3. Tiles(p, from) /\ \A c \in Nat : InRun(p, c) <=> InRun(d.pieces, c)
    <3>1. CASE from > at
      <4>1. p = d.pieces \o <<[from |-> at, to |-> from, run |-> FALSE]>>
        BY <3>1
      <4>2. at < from /\ FALSE \in BOOLEAN
        BY <1>1, <2>2, <3>1
      <4> HIDE DEF p, at
      <4>3. Added(d.pieces, p, at, from, FALSE)
        BY <1>1, <2>2, <4>1, <4>2 DEF Added
      <4>4. Grown(d.pieces, p, at, from, FALSE)
        BY <4>3, TileAdded
      <4> QED BY <4>4 DEF Grown
    <3>2. CASE from = at
      <4>1. d.pieces \in Seq(Piece)
        BY <1>1 DEF Tiles
      <4>a. gap = <<>>
        BY <1>1, <3>2
      <4>2. p = d.pieces
        BY <4>1, <4>a, ConcatEmptySeq
      <4> HIDE DEF p
      <4> QED BY <1>1, <3>2, <4>2
    <3>3. from > at \/ from = at
      BY <1>1, <2>2
    <3> HIDE DEF p, at, from
    <3> QED BY <3>1, <3>2, <3>3
  <2> HIDE DEF p
  <2>4. Tiles(q, r.to) /\ \A c \in Nat : InRun(q, c) <=> InRun(p, c) \/ (from <= c /\ c < r.to)
    <3>1. TRUE \in BOOLEAN /\ q = p \o <<[from |-> from, to |-> r.to, run |-> TRUE]>>
      OBVIOUS
    <3> HIDE DEF q
    <3>2. Added(p, q, from, r.to, TRUE)
      <4>1. from \in Nat /\ r.to \in Nat /\ from < r.to /\ Tiles(p, from)
        BY <1>1, <2>2, <2>3
      <4> HIDE DEF p, q
      <4> QED BY <3>1, <4>1 DEF Added
    <3>3. Grown(p, q, from, r.to, TRUE)
      BY <3>2, TileAdded
    <3> QED BY <3>3 DEF Grown
  <2> HIDE DEF q
  <2>5. \A i \in 1..(k + 1) : rs[i].to <= r.to
    <3>1. \A i \in 1..k : rs[i].to <= r.to
      BY <1>1, <1>2, <2>2
    <3>2. r.to <= r.to
      BY <1>1
    <3> QED BY <1>5, <3>1, <3>2 DEF r
  <2>6. \E i \in 1..(k + 1) : r.to = rs[i].to
    BY <1>6 DEF r
  <2>7. ASSUME NEW c \in Nat
        PROVE  InRun(q, c) <=> \E i \in 1..(k + 1) : rs[i].from <= c /\ c < rs[i].to
    <3> DEFINE Old == \E i \in 1..k : rs[i].from <= c /\ c < rs[i].to
    <3>1. (\E i \in 1..(k + 1) : rs[i].from <= c /\ c < rs[i].to) <=> Old \/ (r.from <= c /\ c < r.to)
      BY <1>5, <1>6 DEF r
    <3>2. InRun(q, c) <=> Old \/ (from <= c /\ c < r.to)
      BY <1>4, <2>3, <2>4
    <3>3. from <= c => r.from <= c
      BY <1>1, <2>2 DEF from
    <3>4. r.from <= c => from <= c \/ Old
      BY <1>1, <1>7 DEF from
    <3> HIDE DEF Old
    <3> QED BY <3>1, <3>2, <3>3, <3>4
  <2>8. PICK e : e = DrawRun(d, r)
    OBVIOUS
  <2>9. e.at = r.to /\ e.pieces = q
    BY <2>1, <2>8
  <2>10. DrawnUpTo(e, rs, k + 1)
    BY <1>1, <2>4, <2>5, <2>6, <2>7, <2>9 DEF DrawnUpTo
  <2> QED BY <2>8, <2>10 DEF r
<1> QED BY <1>8, <1>9 DEF r

\* The states the drawing goes through.
Drawing(f, rs, n) ==
  f = [k \in 0..n |-> IF k = 0 THEN [at |-> 0, pieces |-> <<>>] ELSE DrawRun(f[k - 1], rs[k])]

LEMMA DrawingExists == ASSUME NEW rs, NEW n \in Nat PROVE \E f : Drawing(f, rs, n)
<1> DEFINE start == [at |-> 0, pieces |-> <<>>]
           G == {m \in 0..n : \E f : Drawing(f, rs, m)}
<1>1. 0 \in G
  <2>1. PICK f : f = [k \in 0..0 |-> start]
    OBVIOUS
  <2>2. Drawing(f, rs, 0)
    <3>1. \A k \in 0..0 : k = 0
      OBVIOUS
    <3> HIDE DEF start
    <3> QED BY <2>1, <3>1 DEF Drawing, start
  <2> QED BY <2>2
<1>2. ASSUME NEW m \in G, m < n
      PROVE  m + 1 \in G
  <2>1. m \in Nat
    OBVIOUS
  <2>2. PICK f : Drawing(f, rs, m)
    OBVIOUS
  <2>3. PICK g : g = [k \in 0..(m + 1) |-> IF k = m + 1 THEN DrawRun(f[m], rs[m + 1]) ELSE f[k]]
    OBVIOUS
  <2>4. /\ DOMAIN g = 0..(m + 1) /\ g[m + 1] = DrawRun(f[m], rs[m + 1])
        /\ \A k \in 0..m : g[k] = f[k]
    BY <2>1, <2>3
  <2>5. /\ f[0] = start
        /\ \A k \in 0..m : k # 0 => f[k] = DrawRun(f[k - 1], rs[k])
    BY <2>1, <2>2 DEF Drawing
  <2>6. ASSUME NEW k \in 0..(m + 1)
        PROVE  g[k] = IF k = 0 THEN start ELSE DrawRun(g[k - 1], rs[k])
    <3>1. CASE k = 0
      BY <2>1, <2>4, <2>5, <3>1
    <3>2. CASE k \in 1..m
      <4>1. k \in 0..m /\ k - 1 \in 0..m /\ k # 0
        BY <2>1, <3>2
      <4>2. g[k] = f[k] /\ g[k - 1] = f[k - 1]
        BY <2>4, <4>1
      <4> HIDE DEF start
      <4> QED BY <2>5, <4>1, <4>2
    <3>3. CASE k = m + 1
      <4>1. k - 1 = m /\ m \in 0..m /\ k # 0
        BY <2>1, <3>3
      <4>2. g[k - 1] = f[m]
        BY <2>4, <4>1
      <4> HIDE DEF start
      <4> QED BY <2>4, <3>3, <4>1, <4>2
    <3> QED BY <2>1, <3>1, <3>2, <3>3
  <2>7. Drawing(g, rs, m + 1)
    <3>1. g = [k \in 0..(m + 1) |-> g[k]]
      BY <2>3
    <3> QED BY <2>4, <2>6, <3>1 DEF Drawing
  <2> QED BY <1>2, <2>1, <2>7
<1>3. n \in G
  <2> HIDE DEF G
  <2>1. G \subseteq 0..n
    BY DEF G
  <2> QED BY <1>1, <1>2, <2>1, UpToLast
<1> QED BY <1>3

LEMMA DrawnBy ==
  ASSUME NEW b
  PROVE  \E rs, f :
           /\ rs = Ordered(b.runs, [j \in DOMAIN b.runs |-> b.runs[j].from])
           /\ Len(rs) \in Nat => Drawing(f, rs, Len(rs))
           /\ Drawn(b) = f[Len(rs)].pieces
                \o (IF f[Len(rs)].at < b.text
                    THEN <<[from |-> f[Len(rs)].at, to |-> b.text, run |-> FALSE]>> ELSE <<>>)
<1>1. PICK rs : rs = Ordered(b.runs, [j \in DOMAIN b.runs |-> b.runs[j].from])
  OBVIOUS
<1>2. PICK f : f = CHOOSE g : Drawing(g, rs, Len(rs))
  OBVIOUS
<1>3. Len(rs) \in Nat => Drawing(f, rs, Len(rs))
  BY <1>2, DrawingExists
<1>4. f = CHOOSE done : done = [k \in 0..Len(rs) |-> IF k = 0 THEN [at |-> 0, pieces |-> <<>>] ELSE DrawRun(done[k - 1], rs[k])]
  BY <1>2 DEF Drawing
<1>5. Drawn(b) = f[Len(rs)].pieces
                \o (IF f[Len(rs)].at < b.text
                    THEN <<[from |-> f[Len(rs)].at, to |-> b.text, run |-> FALSE]>> ELSE <<>>)
  BY <1>1, <1>4 DEF Drawn
<1> QED BY <1>1, <1>3, <1>5

\* Runs that fit a text of n characters.
FitRuns(runs, n) ==
  runs \in Seq(Run) /\ \A j \in DOMAIN runs : runs[j].from < runs[j].to /\ runs[j].to <= n

\* Every character is drawn once and in order, and in a run exactly when one covers it.
DrawnWell(b) ==
  LET p == Drawn(b)
  IN /\ \A j \in DOMAIN p : p[j].from = (IF j = 1 THEN 0 ELSE p[j - 1].to) /\ p[j].from < p[j].to
     /\ b.text = (IF p = <<>> THEN 0 ELSE p[Len(p)].to)
     /\ \A c \in 0..(b.text - 1) :
          (\E j \in DOMAIN p : p[j].run /\ p[j].from <= c /\ c < p[j].to)
            <=> (\E k \in DOMAIN b.runs : b.runs[k].from <= c /\ c < b.runs[k].to)

LEMMA RunTyped == ASSUME NEW r \in Run PROVE r.from \in Nat /\ r.to \in Nat
BY EditorsAssumption DEF Run

\* The runs in the order they are drawn in are the same runs.
InOrder(rs, runs, n) ==
  /\ Sorted(rs) /\ Len(rs) \in Nat /\ DOMAIN rs = 1..Len(rs)
  /\ \A i \in DOMAIN rs : rs[i].to <= n
  /\ \A c : (\E k \in DOMAIN rs : rs[k].from <= c /\ c < rs[k].to)
              <=> (\E k \in DOMAIN runs : runs[k].from <= c /\ c < runs[k].to)

LEMMA RunsInOrder ==
  ASSUME NEW runs, NEW n \in Nat, FitRuns(runs, n)
  PROVE  InOrder(Ordered(runs, [j \in DOMAIN runs |-> runs[j].from]), runs, n)
<1> DEFINE num == [j \in DOMAIN runs |-> runs[j].from]
<1>1. runs \in Seq(Run) /\ DOMAIN runs = 1..Len(runs) /\ \A j \in DOMAIN runs : runs[j] \in Run
  BY DEF FitRuns
<1>2. \A j \in DOMAIN runs : /\ runs[j].from \in Nat /\ runs[j].to \in Nat
                             /\ runs[j].from < runs[j].to /\ runs[j].to <= n
  BY <1>1, RunTyped DEF FitRuns
<1>3. num \in [DOMAIN runs -> Nat] /\ \A j \in DOMAIN runs : num[j] = runs[j].from
  BY <1>2
<1>4. PICK rs : rs = Ordered(runs, num)
  OBVIOUS
<1> HIDE DEF num
<1>5. rs \in Seq(Run) /\ Len(rs) = Len(runs) /\ Rearranged(rs, runs, num)
  BY <1>1, <1>3, <1>4, OrderedIs
<1>6. Len(rs) \in Nat /\ DOMAIN rs = 1..Len(rs) /\ DOMAIN rs = DOMAIN runs
  <2>1. Len(rs) \in Nat /\ DOMAIN rs = 1..Len(rs)
    BY <1>5, LenProperties
  <2> QED BY <1>1, <1>5, <2>1
<1>7. PICK f \in [DOMAIN runs -> DOMAIN runs] :
        /\ \A m \in DOMAIN runs : rs[m] = runs[f[m]]
        /\ \A i \in DOMAIN runs : \E m \in DOMAIN runs : f[m] = i
        /\ \A m, k \in DOMAIN runs : m <= k => num[f[m]] <= num[f[k]]
  BY <1>5 DEF Rearranged
<1>8. \A m \in DOMAIN runs : f[m] \in DOMAIN runs
  OBVIOUS
<1>9. Sorted(rs)
  <2>1. ASSUME NEW i \in DOMAIN rs
        PROVE  rs[i].from \in Nat /\ rs[i].to \in Nat /\ rs[i].from < rs[i].to
    <3>1. f[i] \in DOMAIN runs /\ rs[i] = runs[f[i]]
      BY <1>6, <1>7, <1>8
    <3> QED BY <1>2, <3>1
  <2>2. ASSUME NEW i \in DOMAIN rs, NEW j \in DOMAIN rs, i <= j
        PROVE  rs[i].from <= rs[j].from
    <3>1. f[i] \in DOMAIN runs /\ rs[i] = runs[f[i]] /\ f[j] \in DOMAIN runs /\ rs[j] = runs[f[j]]
      BY <1>6, <1>7, <1>8
    <3>2. num[f[i]] <= num[f[j]]
      BY <1>6, <1>7, <2>2
    <3> QED BY <1>3, <3>1, <3>2
  <2> QED BY <2>1, <2>2 DEF Sorted
<1>10. ASSUME NEW i \in DOMAIN rs
       PROVE  rs[i].to <= n
  <2>1. f[i] \in DOMAIN runs /\ rs[i] = runs[f[i]]
    BY <1>6, <1>7, <1>8
  <2> QED BY <1>2, <2>1
<1>11. ASSUME NEW c
       PROVE  (\E k \in DOMAIN rs : rs[k].from <= c /\ c < rs[k].to)
                <=> (\E k \in DOMAIN runs : runs[k].from <= c /\ c < runs[k].to)
  <2>1. ASSUME NEW k \in DOMAIN rs, rs[k].from <= c /\ c < rs[k].to
        PROVE  \E i \in DOMAIN runs : runs[i].from <= c /\ c < runs[i].to
    <3>1. f[k] \in DOMAIN runs /\ rs[k] = runs[f[k]]
      BY <1>6, <1>7, <1>8
    <3> QED BY <2>1, <3>1
  <2>2. ASSUME NEW i \in DOMAIN runs, runs[i].from <= c /\ c < runs[i].to
        PROVE  \E k \in DOMAIN rs : rs[k].from <= c /\ c < rs[k].to
    <3>1. PICK k \in DOMAIN runs : f[k] = i
      BY <1>7
    <3> QED BY <2>2, <3>1, <1>6, <1>7
  <2> QED BY <2>1, <2>2
<1>12. InOrder(rs, runs, n)
  BY <1>6, <1>9, <1>10, <1>11 DEF InOrder
<1> QED BY <1>4, <1>12 DEF num

LEMMA AllRunsDrawn ==
  ASSUME NEW rs, NEW n \in Nat, DOMAIN rs = 1..n, Sorted(rs), NEW f, Drawing(f, rs, n)
  PROVE  DrawnUpTo(f[n], rs, n)
<1> DEFINE G == {m \in 0..n : DrawnUpTo(f[m], rs, m)}
<1>1. /\ f[0] = [at |-> 0, pieces |-> <<>>]
      /\ \A k \in 0..n : k # 0 => f[k] = DrawRun(f[k - 1], rs[k])
  BY DEF Drawing
<1>2. 0 \in G
  <2>1. f[0].at = 0 /\ f[0].pieces = <<>>
    BY <1>1
  <2>2. <<>> \in Seq(Piece) /\ DOMAIN <<>> = {}
    BY EmptySeq
  <2>3. Tiles(f[0].pieces, f[0].at)
    BY <2>1, <2>2 DEF Tiles
  <2>4. \A c : ~InRun(f[0].pieces, c)
    BY <2>1, <2>2 DEF InRun
  <2>5. 1..0 = {}
    OBVIOUS
  <2> QED BY <2>1, <2>3, <2>4, <2>5 DEF DrawnUpTo
<1>3. ASSUME NEW m \in G, m < n
      PROVE  m + 1 \in G
  <2>1. m \in Nat /\ DrawnUpTo(f[m], rs, m)
    OBVIOUS
  <2>2. m + 1 \in 0..n /\ m + 1 # 0 /\ (m + 1) - 1 = m
    BY <1>3, <2>1
  <2>3. f[m + 1] = DrawRun(f[m], rs[m + 1])
    BY <1>1, <2>2
  <2>4. DrawnUpTo(f[m + 1], rs, m + 1)
    BY <1>3, <2>1, <2>3, RunDrawn
  <2> QED BY <2>2, <2>4
<1>4. G \subseteq 0..n
  OBVIOUS
<1>5. n \in G
  <2> HIDE DEF G
  <2> QED BY <1>2, <1>3, <1>4, UpToLast
<1> QED BY <1>5

LEMMA BlockDrawn ==
  ASSUME NEW b, b.text \in Nat, FitRuns(b.runs, b.text)
  PROVE  DrawnWell(b)
<1>1. PICK rs, f :
           /\ rs = Ordered(b.runs, [j \in DOMAIN b.runs |-> b.runs[j].from])
           /\ Len(rs) \in Nat => Drawing(f, rs, Len(rs))
           /\ Drawn(b) = f[Len(rs)].pieces
                \o (IF f[Len(rs)].at < b.text
                    THEN <<[from |-> f[Len(rs)].at, to |-> b.text, run |-> FALSE]>> ELSE <<>>)
  BY DrawnBy
<1>2. /\ Sorted(rs) /\ Len(rs) \in Nat /\ DOMAIN rs = 1..Len(rs)
      /\ \A i \in DOMAIN rs : rs[i].to <= b.text
      /\ \A c : (\E k \in DOMAIN rs : rs[k].from <= c /\ c < rs[k].to)
                  <=> (\E k \in DOMAIN b.runs : b.runs[k].from <= c /\ c < b.runs[k].to)
  <2>1. InOrder(rs, b.runs, b.text)
    BY <1>1, RunsInOrder
  <2> QED BY <2>1 DEF InOrder
<1>3. PICK n \in Nat : n = Len(rs)
  BY <1>2
<1>4. PICK d : d = f[n]
  OBVIOUS
<1>5. DrawnUpTo(d, rs, n)
  BY <1>1, <1>2, <1>3, <1>4, AllRunsDrawn
<1>6. PICK text \in Nat : text = b.text
  OBVIOUS
<1>7. PICK p : p = Drawn(b)
  OBVIOUS
<1>8. p = d.pieces \o (IF d.at < text THEN <<[from |-> d.at, to |-> text, run |-> FALSE]>> ELSE <<>>)
  BY <1>1, <1>3, <1>4, <1>6, <1>7
<1>9. d.at \in Nat /\ d.at <= text /\ Tiles(d.pieces, d.at)
  BY <1>2, <1>3, <1>5, <1>6 DEF DrawnUpTo
<1>10. Tiles(p, text) /\ \A c \in Nat : InRun(p, c) <=> InRun(d.pieces, c)
  <2>1. CASE d.at < text
    <3>1. Added(d.pieces, p, d.at, text, FALSE)
      BY <1>8, <1>9, <2>1 DEF Added
    <3>2. Grown(d.pieces, p, d.at, text, FALSE)
      BY <3>1, TileAdded
    <3> QED BY <3>2 DEF Grown
  <2>2. CASE d.at = text
    <3>0. ~(d.at < text)
      BY <1>9, <2>2
    <3>1. p = d.pieces \o <<>>
      BY <1>8, <3>0, Zenon
    <3>2. d.pieces \in Seq(Piece)
      BY <1>9 DEF Tiles
    <3>3. p = d.pieces
      BY <3>1, <3>2, ConcatEmptySeq
    <3> QED BY <1>9, <2>2, <3>3
  <2> QED BY <1>9, <2>1, <2>2
<1>11. ASSUME NEW c \in 0..(text - 1)
       PROVE  InRun(p, c) <=> (\E k \in DOMAIN b.runs : b.runs[k].from <= c /\ c < b.runs[k].to)
  <2>1. InRun(d.pieces, c) <=> (\E k \in DOMAIN rs : rs[k].from <= c /\ c < rs[k].to)
    <3>1. c \in Nat /\ DOMAIN rs = 1..n
      BY <1>2, <1>3
    <3> QED BY <1>5, <3>1 DEF DrawnUpTo
  <2>2. InRun(p, c) <=> InRun(d.pieces, c)
    <3>1. c \in Nat
      OBVIOUS
    <3> QED BY <1>10, <3>1
  <2>3. (\E k \in DOMAIN rs : rs[k].from <= c /\ c < rs[k].to)
          <=> (\E k \in DOMAIN b.runs : b.runs[k].from <= c /\ c < b.runs[k].to)
    BY <1>2
  <2> QED BY <2>1, <2>2, <2>3
<1> QED BY <1>6, <1>7, <1>10, <1>11 DEF DrawnWell, Tiles, InRun

(***************************************************************************)
(* What is left of the payload: fields, blocks, names, charts and slides.  *)
(***************************************************************************)

FitBlock == {b \in Block : FitRuns(b.runs, b.text)}

LeftInd ==
  /\ kind \in {"forms", "docs", "sheets", "slides"}
  /\ mode \in {"preview", "structured"} /\ edits \in 0..MaxEdits
  /\ fields \in Seq(Field) /\ blocks \in Seq(FitBlock)
  /\ names \subseteq Nat /\ charts \in Seq(Chart) /\ slides \in Seq(Slide)

\* The rows of a table.
LEMMA WidthIs ==
  ASSUME NEW rows \in Seq(Nat)
  PROVE  Width(rows) \in Nat
<1> DEFINE S == {rows[i] : i \in DOMAIN rows}
           T == {1} \cup S
           f == [i \in DOMAIN rows |-> rows[i]]
<1>1. Len(rows) \in Nat /\ DOMAIN rows = 1..Len(rows) /\ \A i \in DOMAIN rows : rows[i] \in Nat
  OBVIOUS
<1>2. IsFiniteSet(DOMAIN rows)
  BY <1>1, FS_Interval
<1>3. f \in Surjection(DOMAIN rows, S)
  BY DEF Surjection
<1>4. IsFiniteSet(S)
  <2> HIDE DEF f, S
  <2> QED BY <1>2, <1>3, FS_Surjection
<1>5. \A z \in T : z \in Nat
  BY <1>1
<1>6. Width(rows) = Max(T)
  BY DEF Width
<1> HIDE DEF S
<1>7. IsFiniteSet(T) /\ T # {}
  BY <1>4, FS_Singleton, FS_Union
<1> HIDE DEF T
<1>8. Max(T) \in T
  BY <1>5, <1>7, Largest
<1> QED BY <1>5, <1>6, <1>8

LEMMA RowsEdited ==
  ASSUME NEW rows \in Seq(Nat)
  PROVE  /\ Append(rows, Width(rows)) \in Seq(Nat)
         /\ [r \in DOMAIN rows |-> rows[r] + 1] \in Seq(Nat)
         /\ \A r \in DOMAIN rows : RemoveAt(rows, r) \in Seq(Nat)
         /\ \A r \in DOMAIN rows : [rows EXCEPT ![r] = Width(rows)] \in Seq(Nat)
<1>1. PICK w \in Nat : w = Width(rows)
  BY WidthIs
<1>2. Len(rows) \in Nat /\ DOMAIN rows = 1..Len(rows) /\ \A i \in DOMAIN rows : rows[i] \in Nat
  OBVIOUS
<1>3. Append(rows, w) \in Seq(Nat)
  OBVIOUS
<1>4. \A r \in DOMAIN rows : RemoveAt(rows, r) \in Seq(Nat)
  BY <1>2, Removed
<1>5. \A r \in DOMAIN rows : [rows EXCEPT ![r] = w] \in Seq(Nat)
  BY <1>2, ExceptSeq
<1>6. [r \in DOMAIN rows |-> rows[r] + 1] \in Seq(Nat)
  <2>1. \A r \in 1..Len(rows) : rows[r] + 1 \in Nat
    BY <1>2
  <2> QED BY <1>2, <2>1
<1> QED BY <1>1, <1>3, <1>4, <1>5, <1>6

\* The runs of a block.
LEMMA RunAdded ==
  ASSUME NEW runs, NEW n \in Nat, FitRuns(runs, n), NEW r \in Run, r.from < r.to, r.to <= n
  PROVE  FitRuns(Append(runs, r), n)
<1>1. runs \in Seq(Run) /\ Len(runs) \in Nat /\ DOMAIN runs = 1..Len(runs)
  BY DEF FitRuns
<1>2. /\ Append(runs, r) \in Seq(Run) /\ Len(Append(runs, r)) = Len(runs) + 1
      /\ \A i \in 1..Len(runs) : Append(runs, r)[i] = runs[i]
      /\ Append(runs, r)[Len(runs) + 1] = r
  BY <1>1, AppendProperties
<1>3. PICK q : q = Append(runs, r)
  OBVIOUS
<1>4. DOMAIN q = 1..(Len(runs) + 1)
  BY <1>1, <1>2, <1>3, LenProperties
<1>5. ASSUME NEW j \in DOMAIN q
      PROVE  q[j].from < q[j].to /\ q[j].to <= n
  <2>1. j \in 1..Len(runs) \/ j = Len(runs) + 1
    BY <1>1, <1>4
  <2> QED BY <1>1, <1>2, <1>3, <2>1 DEF FitRuns
<1>6. FitRuns(q, n)
  BY <1>2, <1>3, <1>5 DEF FitRuns
<1> QED BY <1>3, <1>6

LEMMA RunRemoved ==
  ASSUME NEW runs, NEW n \in Nat, FitRuns(runs, n), NEW i \in DOMAIN runs
  PROVE  FitRuns(RemoveAt(runs, i), n)
<1>1. runs \in Seq(Run) /\ Len(runs) \in Nat /\ DOMAIN runs = 1..Len(runs)
  BY DEF FitRuns
<1>2. PICK q : q = RemoveAt(runs, i)
  OBVIOUS
<1>3. /\ q \in Seq(Run) /\ Len(q) = Len(runs) - 1
      /\ \A j \in 1..(Len(runs) - 1) : q[j] = IF j < i THEN runs[j] ELSE runs[j + 1]
  BY <1>1, <1>2, Removed
<1>4. DOMAIN q = 1..(Len(runs) - 1)
  BY <1>1, <1>3, LenProperties
<1>5. ASSUME NEW j \in DOMAIN q
      PROVE  q[j].from < q[j].to /\ q[j].to <= n
  <2>1. PICK k \in DOMAIN runs : q[j] = runs[k]
    <3>1. j \in DOMAIN runs /\ j + 1 \in DOMAIN runs
      BY <1>1, <1>4
    <3> QED BY <1>3, <1>4, <3>1
  <2> QED BY <2>1 DEF FitRuns
<1>6. FitRuns(q, n)
  BY <1>3, <1>5 DEF FitRuns
<1> QED BY <1>2, <1>6

LEMMA RunsCut ==
  ASSUME NEW runs, NEW n, FitRuns(runs, n), NEW m \in Nat
  PROVE  FitRuns(Picked(runs, {j \in DOMAIN runs : runs[j].to <= m}), m)
<1>1. runs \in Seq(Run)
  BY DEF FitRuns
<1>2. PICK P : P = {j \in DOMAIN runs : runs[j].to <= m}
  OBVIOUS
<1>3. P \subseteq DOMAIN runs /\ \A j \in P : runs[j].from < runs[j].to /\ runs[j].to <= m
  BY <1>2 DEF FitRuns
<1>4. PICK q : q = Picked(runs, P)
  OBVIOUS
<1>5. q \in Seq(Run) /\ PicksFrom(q, runs, P)
  BY <1>1, <1>3, <1>4, PickedIs
<1>6. \A j \in DOMAIN q : q[j].from < q[j].to /\ q[j].to <= m
  BY <1>3, <1>5 DEF PicksFrom
<1>7. FitRuns(q, m)
  BY <1>5, <1>6 DEF FitRuns
<1> QED BY <1>2, <1>4, <1>7

\* One block.
LEMMA BlockTyped ==
  ASSUME NEW b
  PROVE  b \in FitBlock <=>
           /\ b = [id |-> b.id, kind |-> b.kind, hasText |-> b.hasText, text |-> b.text,
                   runs |-> b.runs, items |-> b.items, rows |-> b.rows]
           /\ b.id \in Nat /\ b.kind \in BlockKind /\ b.hasText \in BOOLEAN /\ b.text \in 0..MaxText
           /\ FitRuns(b.runs, b.text) /\ b.items \in Nat /\ b.rows \in Seq(Nat)
<1>1. b \in FitBlock <=> b \in Block /\ FitRuns(b.runs, b.text)
  BY DEF FitBlock
<1>2. b \in Block <=>
           /\ b = [id |-> b.id, kind |-> b.kind, hasText |-> b.hasText, text |-> b.text,
                   runs |-> b.runs, items |-> b.items, rows |-> b.rows]
           /\ b.id \in Nat /\ b.kind \in BlockKind /\ b.hasText \in BOOLEAN /\ b.text \in 0..MaxText
           /\ b.runs \in Seq(Run) /\ b.items \in Nat /\ b.rows \in Seq(Nat)
  BY DEF Block
<1>3. FitRuns(b.runs, b.text) => b.runs \in Seq(Run)
  BY DEF FitRuns
<1> QED BY <1>1, <1>2, <1>3

LEMMA BlockEdited ==
  ASSUME NEW b \in FitBlock
  PROVE  /\ \A k \in BlockKind : [b EXCEPT !.kind = k] \in FitBlock
         /\ \A n \in Nat : [b EXCEPT !.items = n] \in FitBlock
         /\ \A rows \in Seq(Nat) : [b EXCEPT !.rows = rows] \in FitBlock
         /\ \A runs : FitRuns(runs, b.text) => [b EXCEPT !.runs = runs] \in FitBlock
         /\ \A n \in 0..MaxText : \A runs : FitRuns(runs, n) =>
              [b EXCEPT !.text = n, !.hasText = TRUE, !.runs = runs] \in FitBlock
<1>1. /\ b = [id |-> b.id, kind |-> b.kind, hasText |-> b.hasText, text |-> b.text,
                   runs |-> b.runs, items |-> b.items, rows |-> b.rows]
      /\ b.id \in Nat /\ b.kind \in BlockKind /\ b.hasText \in BOOLEAN /\ b.text \in 0..MaxText
      /\ FitRuns(b.runs, b.text) /\ b.items \in Nat /\ b.rows \in Seq(Nat)
  BY BlockTyped
<1>2. ASSUME NEW k \in BlockKind PROVE [b EXCEPT !.kind = k] \in FitBlock
  <2>1. PICK c : c = [b EXCEPT !.kind = k]
    OBVIOUS
  <2>2. c = [id |-> b.id, kind |-> k, hasText |-> b.hasText, text |-> b.text,
             runs |-> b.runs, items |-> b.items, rows |-> b.rows]
    BY <1>1, <2>1
  <2> QED BY <1>1, <2>1, <2>2, BlockTyped
<1>3. ASSUME NEW n \in Nat PROVE [b EXCEPT !.items = n] \in FitBlock
  <2>1. PICK c : c = [b EXCEPT !.items = n]
    OBVIOUS
  <2>2. c = [id |-> b.id, kind |-> b.kind, hasText |-> b.hasText, text |-> b.text,
             runs |-> b.runs, items |-> n, rows |-> b.rows]
    BY <1>1, <2>1
  <2> QED BY <1>1, <2>1, <2>2, BlockTyped
<1>4. ASSUME NEW rows \in Seq(Nat) PROVE [b EXCEPT !.rows = rows] \in FitBlock
  <2>1. PICK c : c = [b EXCEPT !.rows = rows]
    OBVIOUS
  <2>2. c = [id |-> b.id, kind |-> b.kind, hasText |-> b.hasText, text |-> b.text,
             runs |-> b.runs, items |-> b.items, rows |-> rows]
    BY <1>1, <2>1
  <2> QED BY <1>1, <2>1, <2>2, BlockTyped
<1>5. ASSUME NEW runs, FitRuns(runs, b.text) PROVE [b EXCEPT !.runs = runs] \in FitBlock
  <2>1. PICK c : c = [b EXCEPT !.runs = runs]
    OBVIOUS
  <2>2. c = [id |-> b.id, kind |-> b.kind, hasText |-> b.hasText, text |-> b.text,
             runs |-> runs, items |-> b.items, rows |-> b.rows]
    BY <1>1, <2>1
  <2> QED BY <1>1, <1>5, <2>1, <2>2, BlockTyped
<1>6. ASSUME NEW n \in 0..MaxText, NEW runs, FitRuns(runs, n)
      PROVE  [b EXCEPT !.text = n, !.hasText = TRUE, !.runs = runs] \in FitBlock
  <2>1. PICK c : c = [b EXCEPT !.text = n, !.hasText = TRUE, !.runs = runs]
    OBVIOUS
  <2>2. c = [id |-> b.id, kind |-> b.kind, hasText |-> TRUE, text |-> n,
             runs |-> runs, items |-> b.items, rows |-> b.rows]
    BY <1>1, <2>1
  <2>3. c.hasText = TRUE /\ c.text = n /\ c.runs = runs /\ c.id = b.id /\ c.kind = b.kind
    BY <2>2
  <2>4. c.items = b.items /\ c.rows = b.rows
    BY <2>2
  <2>5. c.hasText \in BOOLEAN
    BY <2>3
  <2>6. c = [id |-> c.id, kind |-> c.kind, hasText |-> c.hasText, text |-> c.text,
             runs |-> c.runs, items |-> c.items, rows |-> c.rows]
    BY <2>2, <2>3, <2>4
  <2>7. c \in FitBlock
    BY <1>1, <1>6, <2>3, <2>4, <2>5, <2>6, BlockTyped
  <2> QED BY <2>1, <2>7
<1> QED BY <1>2, <1>3, <1>4, <1>5, <1>6

LEMMA Rewritten ==
  ASSUME blocks \in Seq(FitBlock), NEW i \in DOMAIN blocks, NEW b \in FitBlock, Rewrite(i, b)
  PROVE  blocks' \in Seq(FitBlock)
<1>1. i \in 1..Len(blocks)
  BY LenProperties
<1>2. blocks' = [blocks EXCEPT ![i] = b]
  BY DEF Rewrite
<1> QED BY <1>1, <1>2, ExceptSeq

\* Steps in the text of a block.
LEMMA TextSteps ==
  ASSUME blocks \in Seq(FitBlock), NEW i \in DOMAIN blocks,
         \/ \E n \in 0..MaxText : TypeText(i, n)
         \/ \E from, to \in 0..MaxText :
              AddLink(i, from, to) \/ \E mark \in Mark \ {"link"} : ToggleMark(i, from, to, mark)
         \/ \E j \in DOMAIN blocks[i].runs : DropRun(i, j)
  PROVE  blocks' \in Seq(FitBlock)
<1>1. PICK b \in FitBlock : b = blocks[i]
  OBVIOUS
<1>2. b.text \in Nat /\ b.text \in 0..MaxText /\ FitRuns(b.runs, b.text)
  BY EditorsAssumption, BlockTyped
<1>3. ASSUME NEW n \in 0..MaxText, TypeText(i, n)
      PROVE  blocks' \in Seq(FitBlock)
  <2>1. PICK runs : runs = Picked(b.runs, {j \in DOMAIN b.runs : b.runs[j].to <= n})
    OBVIOUS
  <2>2. n \in Nat
    BY EditorsAssumption
  <2>3. FitRuns(runs, n)
    BY <1>2, <2>1, <2>2, RunsCut
  <2>4. PICK c : c = [b EXCEPT !.text = n, !.hasText = TRUE, !.runs = runs]
    OBVIOUS
  <2>5. c \in FitBlock
    BY <2>3, <2>4, BlockEdited
  <2>6. Rewrite(i, c)
    BY <1>1, <1>3, <2>1, <2>4 DEF TypeText
  <2> QED BY <2>5, <2>6, Rewritten
<1>4. ASSUME NEW runs, FitRuns(runs, b.text), Rewrite(i, [b EXCEPT !.runs = runs])
      PROVE  blocks' \in Seq(FitBlock)
  <2>1. PICK c : c = [b EXCEPT !.runs = runs]
    OBVIOUS
  <2>2. c \in FitBlock
    BY <1>4, <2>1, BlockEdited
  <2> QED BY <1>4, <2>1, <2>2, Rewritten
<1>5. ASSUME NEW from \in 0..MaxText, NEW to \in 0..MaxText, NEW mark \in Mark, from < to, to <= b.text
      PROVE  FitRuns(Append(b.runs, [from |-> from, to |-> to, mark |-> mark]), b.text)
  <2>1. PICK r : r = [from |-> from, to |-> to, mark |-> mark]
    OBVIOUS
  <2>2. r \in Run /\ r.from < r.to /\ r.to <= b.text
    BY <1>5, <2>1 DEF Run
  <2> QED BY <1>2, <2>1, <2>2, RunAdded
<1>6. ASSUME NEW from \in 0..MaxText, NEW to \in 0..MaxText, AddLink(i, from, to)
      PROVE  blocks' \in Seq(FitBlock)
  <2>1. PICK runs : runs = Append(b.runs, [from |-> from, to |-> to, mark |-> "link"])
    OBVIOUS
  <2>2. Rewrite(i, [b EXCEPT !.runs = runs]) /\ from < to /\ to <= b.text
    BY <1>1, <1>6, <2>1 DEF AddLink, Selected
  <2>3. "link" \in Mark
    BY DEF Mark
  <2>4. FitRuns(runs, b.text)
    BY <1>5, <2>1, <2>2, <2>3
  <2> QED BY <1>4, <2>2, <2>4
<1>7. ASSUME NEW from \in 0..MaxText, NEW to \in 0..MaxText, NEW mark \in Mark \ {"link"},
             ToggleMark(i, from, to, mark)
      PROVE  blocks' \in Seq(FitBlock)
  <2>1. PICK r : r = [from |-> from, to |-> to, mark |-> mark]
    OBVIOUS
  <2>2. PICK same : same = {j \in DOMAIN b.runs : b.runs[j] = r}
    OBVIOUS
  <2>3. PICK runs : runs = IF same # {} THEN RemoveAt(b.runs, Min(same)) ELSE Append(b.runs, r)
    OBVIOUS
  <2>4. Rewrite(i, [b EXCEPT !.runs = runs]) /\ from < to /\ to <= b.text
    BY <1>1, <1>7, <2>1, <2>2, <2>3 DEF ToggleMark, Selected
  <2>5. CASE same = {}
    <3>1. FitRuns(Append(b.runs, r), b.text)
      BY <1>5, <2>1, <2>4
    <3> QED BY <1>4, <2>3, <2>4, <2>5, <3>1
  <2>6. CASE same # {}
    <3>1. b.runs \in Seq(Run)
      BY <1>2 DEF FitRuns
    <3>2. Len(b.runs) \in Nat /\ DOMAIN b.runs = 1..Len(b.runs)
      BY <3>1
    <3>3. IsFiniteSet(DOMAIN b.runs)
      BY <3>2, FS_Interval
    <3>4. same \in SUBSET DOMAIN b.runs
      BY <2>2
    <3>5. IsFiniteSet(same)
      BY <3>3, <3>4, FS_Subset
    <3>6. \A z \in same : z \in Nat
      BY <3>2, <3>4
    <3>7. Min(same) \in same
      BY <2>6, <3>5, <3>6, Smallest
    <3>8. FitRuns(RemoveAt(b.runs, Min(same)), b.text)
      BY <1>2, <3>4, <3>7, RunRemoved
    <3> QED BY <1>4, <2>3, <2>4, <2>6, <3>8
  <2> QED BY <2>5, <2>6
<1>8. ASSUME NEW j \in DOMAIN blocks[i].runs, DropRun(i, j)
      PROVE  blocks' \in Seq(FitBlock)
  <2>1. PICK runs : runs = RemoveAt(b.runs, j)
    OBVIOUS
  <2>2. Rewrite(i, [b EXCEPT !.runs = runs])
    BY <1>1, <1>8, <2>1 DEF DropRun
  <2>3. FitRuns(runs, b.text)
    BY <1>1, <1>2, <2>1, RunRemoved
  <2> QED BY <1>4, <2>2, <2>3
<1> QED BY <1>3, <1>6, <1>7, <1>8

\* Steps in a list or a table.
LEMMA TableSteps ==
  ASSUME blocks \in Seq(FitBlock), NEW i \in DOMAIN blocks,
         \/ \E n \in 0..MaxEdits + 1 : EditItems(i, n)
         \/ AddTableRow(i) \/ AddTableColumn(i)
         \/ \E r \in DOMAIN blocks[i].rows : TypeInTable(i, r) \/ RemoveTableRow(i, r)
  PROVE  blocks' \in Seq(FitBlock)
<1>1. PICK b \in FitBlock : b = blocks[i]
  OBVIOUS
<1>2. b.rows \in Seq(Nat)
  BY BlockTyped
<1>3. ASSUME NEW rows \in Seq(Nat), Rewrite(i, [b EXCEPT !.rows = rows])
      PROVE  blocks' \in Seq(FitBlock)
  <2>1. PICK c : c = [b EXCEPT !.rows = rows]
    OBVIOUS
  <2>2. c \in FitBlock
    BY <2>1, BlockEdited
  <2> QED BY <1>3, <2>1, <2>2, Rewritten
<1>4. ASSUME NEW n \in 0..MaxEdits + 1, EditItems(i, n)
      PROVE  blocks' \in Seq(FitBlock)
  <2>1. PICK c : c = [b EXCEPT !.items = n]
    OBVIOUS
  <2>2. n \in Nat
    BY <1>4 DEF EditItems
  <2>3. c \in FitBlock
    BY <2>1, <2>2, BlockEdited
  <2>4. Rewrite(i, c)
    BY <1>1, <1>4, <2>1 DEF EditItems
  <2> QED BY <2>3, <2>4, Rewritten
<1>5. ASSUME AddTableRow(i)
      PROVE  blocks' \in Seq(FitBlock)
  <2>1. PICK rows : rows = Append(b.rows, Width(b.rows))
    OBVIOUS
  <2>2. Rewrite(i, [b EXCEPT !.rows = rows])
    BY <1>1, <1>5, <2>1 DEF AddTableRow
  <2>3. rows \in Seq(Nat)
    BY <1>2, <2>1, RowsEdited
  <2> QED BY <1>3, <2>2, <2>3
<1>6. ASSUME AddTableColumn(i)
      PROVE  blocks' \in Seq(FitBlock)
  <2>1. PICK none \in {<<>>, <<1>>} :
          Rewrite(i, [b EXCEPT !.rows = IF b.rows = <<>> THEN none ELSE [r \in DOMAIN b.rows |-> b.rows[r] + 1]])
    BY <1>1, <1>6 DEF AddTableColumn
  <2>2. PICK rows : rows = IF b.rows = <<>> THEN none ELSE [r \in DOMAIN b.rows |-> b.rows[r] + 1]
    OBVIOUS
  <2>3. <<>> \in Seq(Nat) /\ <<1>> \in Seq(Nat)
    OBVIOUS
  <2>4. [r \in DOMAIN b.rows |-> b.rows[r] + 1] \in Seq(Nat)
    BY <1>2, RowsEdited
  <2>5. rows \in Seq(Nat)
    BY <2>2, <2>3, <2>4
  <2> QED BY <1>3, <2>1, <2>2, <2>5
<1>7. ASSUME NEW r \in DOMAIN blocks[i].rows, TypeInTable(i, r)
      PROVE  blocks' \in Seq(FitBlock)
  <2>1. PICK rows : rows = [b.rows EXCEPT ![r] = Width(b.rows)]
    OBVIOUS
  <2>2. Rewrite(i, [b EXCEPT !.rows = rows])
    BY <1>1, <1>7, <2>1 DEF TypeInTable
  <2>3. rows \in Seq(Nat)
    BY <1>1, <1>2, <2>1, RowsEdited
  <2> QED BY <1>3, <2>2, <2>3
<1>8. ASSUME NEW r \in DOMAIN blocks[i].rows, RemoveTableRow(i, r)
      PROVE  blocks' \in Seq(FitBlock)
  <2>1. PICK rows : rows = RemoveAt(b.rows, r)
    OBVIOUS
  <2>2. Rewrite(i, [b EXCEPT !.rows = rows])
    BY <1>1, <1>8, <2>1 DEF RemoveTableRow
  <2>3. rows \in Seq(Nat)
    BY <1>1, <1>2, <2>1, RowsEdited
  <2> QED BY <1>3, <2>2, <2>3
<1> QED BY <1>4, <1>5, <1>6, <1>7, <1>8

LEMMA NoRuns == ASSUME NEW n PROVE FitRuns(<<>>, n)
<1>1. <<>> \in Seq(Run) /\ DOMAIN <<>> = {}
  BY EmptySeq
<1> QED BY <1>1 DEF FitRuns

LEMMA ImportedIs ==
  ASSUME NEW k \in BlockKind, NEW items \in Nat, NEW rows \in Seq(Nat), NEW id \in Nat
  PROVE  /\ Imported(k, items, rows) \in FitBlock
         /\ [Imported(k, items, rows) EXCEPT !.id = id] \in FitBlock
<1>1. PICK b : b = Imported(k, items, rows)
  OBVIOUS
<1>2. b = [id |-> 1, kind |-> k, hasText |-> FALSE, text |-> 0, runs |-> <<>>, items |-> items, rows |-> rows]
  BY <1>1 DEF Imported
<1>3. 0 \in 0..MaxText
  BY EditorsAssumption
<1>4. b \in FitBlock
  BY <1>2, <1>3, NoRuns, BlockTyped
<1>5. PICK c : c = [b EXCEPT !.id = id]
  OBVIOUS
<1>6. c = [id |-> id, kind |-> k, hasText |-> FALSE, text |-> 0, runs |-> <<>>, items |-> items, rows |-> rows]
  BY <1>2, <1>5
<1>7. c \in FitBlock
  BY <1>3, <1>6, NoRuns, BlockTyped
<1> QED BY <1>1, <1>4, <1>5, <1>7

LEMMA DocsKeepBlocks ==
  ASSUME LeftInd, Docs
  PROVE  blocks' \in Seq(FitBlock)
<1>1. blocks \in Seq(FitBlock) /\ Len(blocks) \in Nat /\ DOMAIN blocks = 1..Len(blocks)
  BY DEF LeftInd
<1>2. ASSUME AddBlock
      PROVE  blocks' \in Seq(FitBlock)
  <2>1. PICK b : b = [id |-> Len(blocks) + 1, kind |-> "paragraph", hasText |-> TRUE,
                      text |-> 0, runs |-> <<>>, items |-> 0, rows |-> <<>>]
    OBVIOUS
  <2>2. b.id \in Nat /\ b.kind \in BlockKind /\ b.text \in 0..MaxText /\ b.rows \in Seq(Nat)
    BY <1>1, <2>1, EditorsAssumption DEF BlockKind
  <2>3. b \in FitBlock
    BY <2>1, <2>2, NoRuns, BlockTyped
  <2> QED BY <1>1, <1>2, <2>1, <2>3, AppendProperties DEF AddBlock
<1>3. ASSUME AddPicture
      PROVE  blocks' \in Seq(FitBlock)
  <2>1. PICK b : b = [Imported("image", 0, <<>>) EXCEPT !.id = Len(blocks) + 1]
    OBVIOUS
  <2>2. "image" \in BlockKind /\ 0 \in Nat /\ <<>> \in Seq(Nat) /\ Len(blocks) + 1 \in Nat
    BY <1>1 DEF BlockKind
  <2>3. b \in FitBlock
    BY <2>1, <2>2, ImportedIs
  <2> QED BY <1>1, <1>3, <2>1, <2>3, AppendProperties DEF AddPicture
<1>4. ASSUME NEW i \in DOMAIN blocks, RemoveBlock(i)
      PROVE  blocks' \in Seq(FitBlock)
  BY <1>1, <1>4, Removed DEF RemoveBlock
<1>5. ASSUME NEW i \in DOMAIN blocks, NEW k \in BlockKind, SetBlockKind(i, k)
      PROVE  blocks' \in Seq(FitBlock)
  <2>1. PICK b \in FitBlock : b = blocks[i]
    BY <1>1
  <2>2. PICK c : c = [b EXCEPT !.kind = k]
    OBVIOUS
  <2>3. c \in FitBlock
    BY <2>2, BlockEdited
  <2>4. Rewrite(i, c)
    BY <1>5, <2>1, <2>2 DEF SetBlockKind
  <2> QED BY <1>1, <2>3, <2>4, Rewritten
<1>6. ASSUME NEW i \in DOMAIN blocks,
             \/ \E n \in 0..MaxText : TypeText(i, n)
             \/ \E from, to \in 0..MaxText :
                  AddLink(i, from, to) \/ \E mark \in Mark \ {"link"} : ToggleMark(i, from, to, mark)
             \/ \E j \in DOMAIN blocks[i].runs : DropRun(i, j)
      PROVE  blocks' \in Seq(FitBlock)
  BY <1>1, <1>6, TextSteps
<1>7. ASSUME NEW i \in DOMAIN blocks,
             \/ \E n \in 0..MaxEdits + 1 : EditItems(i, n)
             \/ AddTableRow(i) \/ AddTableColumn(i)
             \/ \E r \in DOMAIN blocks[i].rows : TypeInTable(i, r) \/ RemoveTableRow(i, r)
      PROVE  blocks' \in Seq(FitBlock)
  BY <1>1, <1>7, TableSteps
<1> QED BY <1>2, <1>3, <1>4, <1>5, <1>6, <1>7 DEF Docs

LEMMA FormsKeepFields ==
  ASSUME LeftInd, Forms
  PROVE  fields' \in Seq(Field)
<1>1. fields \in Seq(Field) /\ Len(fields) \in Nat /\ DOMAIN fields = 1..Len(fields)
  BY DEF LeftInd
<1>2. ASSUME AddField
      PROVE  fields' \in Seq(Field)
  <2>1. [id |-> Len(fields) + 1, type |-> "text", options |-> 0] \in Field
    BY <1>1 DEF Field, FieldType
  <2> QED BY <1>1, <1>2, <2>1, AppendProperties DEF AddField
<1>3. ASSUME NEW i \in DOMAIN fields, RemoveField(i)
      PROVE  fields' \in Seq(Field)
  BY <1>1, <1>3, Removed DEF RemoveField
<1>4. ASSUME NEW i \in DOMAIN fields, NEW type \in FieldType, NEW n \in 0..1, EditField(i, type, n)
      PROVE  fields' \in Seq(Field)
  <2>1. PICK f \in Field : f = fields[i]
    BY <1>1
  <2>2. PICK g : g = [f EXCEPT !.type = type, !.options = n]
    OBVIOUS
  <2>3. g \in Field
    <3>1. n \in Nat
      OBVIOUS
    <3> QED BY <2>2, <3>1 DEF Field
  <2>4. fields' = [fields EXCEPT ![i] = g]
    <3>1. fields' = [fields EXCEPT ![i].type = type, ![i].options = n]
      BY <1>4 DEF EditField
    <3>2. g = [fields[i] EXCEPT !.type = type, !.options = n]
      BY <2>1, <2>2
    <3> QED BY <3>1, <3>2, Zenon
  <2> QED BY <1>1, <2>3, <2>4, ExceptSeq
<1> QED BY <1>2, <1>3, <1>4 DEF Forms

LEMMA SheetsKeepNames ==
  ASSUME LeftInd, SheetInd, Sheets
  PROVE  names' \subseteq Nat /\ charts' \in Seq(Chart)
<1>1. names \subseteq Nat /\ charts \in Seq(Chart) /\ Len(charts) \in Nat /\ DOMAIN charts = 1..Len(charts)
  BY DEF LeftInd
<1>2. tab # Absent => tabs[Current].title \in Nat
  <2>1. \A i \in 1..Len(tabs) : tabs[i] \in Tab
    BY TabsShape DEF SheetInd
  <2> QED BY <2>1, CurrentOK, TabTyped
<1>3. CASE AddTab \/ RemoveTab \/ \E i \in DOMAIN tabs : SelectTab(i) \/ RenameTab(i)
  BY <1>1, <1>3 DEF AddTab, RemoveTab, SelectTab, RenameTab, payload
<1>4. CASE \/ \E p \in Place, c \in {"none", "value", "formula"} : TypeCell(p, c)
           \/ \E k \in Style : SetStyle(k)
  BY <1>1, <1>4 DEF TypeCell, SetStyle
<1>5. CASE AddName \/ \E n \in names : RemoveName(n)
  BY <1>1, <1>2, <1>5 DEF AddName, RemoveName, OnTab
<1>6. CASE AddChart
  <2>1. PICK c : c = [id |-> FirstFree(Len(charts) + 1, ChartIds), title |-> tabs[Current].title]
    OBVIOUS
  <2>2. IsSeq(charts)
    BY <1>1 DEF IsSeq
  <2>3. IsFiniteSet(ChartIds) /\ Len(charts) + 1 \in Nat
    BY <1>1, <2>2, IdsCounted DEF ChartIds
  <2>4. FirstFree(Len(charts) + 1, ChartIds) \in Nat
    BY <2>3, FreeIsFree
  <2>5. c \in Chart
    BY <1>2, <1>6, <2>1, <2>4 DEF Chart, AddChart, OnTab
  <2>6. charts' = Append(charts, c) /\ UNCHANGED names
    BY <1>6, <2>1 DEF AddChart
  <2> QED BY <1>1, <2>5, <2>6, AppendProperties
<1>7. CASE \E i \in DOMAIN charts : RemoveChart(i)
  BY <1>1, <1>7, Removed DEF RemoveChart
<1> QED BY <1>3, <1>4, <1>5, <1>6, <1>7 DEF Sheets

\* One shape, one slide.
LEMMA ShapeEdited ==
  ASSUME NEW x \in Shape
  PROVE  /\ \A keys \in SUBSET ShapeKey : [x EXCEPT !.keys = keys] \in Shape
         /\ \A rows \in Seq(Nat) : [x EXCEPT !.rows = rows] \in Shape
         /\ x.keys \in SUBSET ShapeKey /\ x.rows \in Seq(Nat)
BY DEF Shape

LEMMA SlideEdited ==
  ASSUME NEW x \in Slide
  PROVE  /\ \A shapes \in Seq(Shape) : [x EXCEPT !.shapes = shapes] \in Slide
         /\ \A some \in BOOLEAN : [x EXCEPT !.notes = some] \in Slide
         /\ x.shapes \in Seq(Shape)
BY DEF Slide

LEMMA ReshapedOK ==
  ASSUME LeftInd, NEW i \in DOMAIN slides, NEW shapes \in Seq(Shape), Reshape(i, shapes)
  PROVE  slides' \in Seq(Slide)
<1>1. slides \in Seq(Slide) /\ Len(slides) \in Nat /\ DOMAIN slides = 1..Len(slides)
  BY DEF LeftInd
<1>2. PICK x \in Slide : x = slides[i]
  BY <1>1
<1>3. PICK y : y = [x EXCEPT !.shapes = shapes]
  OBVIOUS
<1>4. y \in Slide
  BY <1>3, SlideEdited
<1>5. slides' = [slides EXCEPT ![i] = y]
  <2>1. y = [slides[i] EXCEPT !.shapes = shapes]
    BY <1>2, <1>3
  <2>2. slides' = [slides EXCEPT ![i].shapes = shapes]
    BY DEF Reshape
  <2> QED BY <2>1, <2>2, Zenon
<1> QED BY <1>1, <1>4, <1>5, ExceptSeq

LEMMA RedoneOK ==
  ASSUME LeftInd, NEW i \in DOMAIN slides, NEW j \in DOMAIN slides[i].shapes, NEW y \in Shape, Redo(i, j, y)
  PROVE  slides' \in Seq(Slide)
<1>1. PICK shapes : shapes = slides[i].shapes
  OBVIOUS
<1>2. shapes \in Seq(Shape)
  <2>1. slides[i] \in Slide
    BY DEF LeftInd
  <2> QED BY <1>1, <2>1, SlideEdited
<1>3. j \in 1..Len(shapes)
  BY <1>1, <1>2, LenProperties
<1>4. PICK new : new = [shapes EXCEPT ![j] = y]
  OBVIOUS
<1>5. new \in Seq(Shape)
  BY <1>2, <1>3, <1>4, ExceptSeq
<1>6. Reshape(i, new)
  BY <1>1, <1>4 DEF Redo
<1> QED BY <1>5, <1>6, ReshapedOK

\* Steps in one shape.
LEMMA ShapeStepsTyped ==
  ASSUME LeftInd, NEW i \in DOMAIN slides, NEW j \in DOMAIN slides[i].shapes,
         \/ AddShapeRow(i, j) \/ AddShapeColumn(i, j)
         \/ \E m \in ShapeMark : MarkShape(i, j, m)
         \/ \E some \in BOOLEAN : SizeShape(i, j, some) \/ ColourShape(i, j, some)
         \/ \E typed \in {"nothing", "refused", "followed"} : LinkShape(i, j, typed)
         \/ \E r \in DOMAIN slides[i].shapes[j].rows : TypeInShapeTable(i, j, r) \/ RemoveShapeRow(i, j, r)
  PROVE  slides' \in Seq(Slide)
<1>1. PICK x : x = slides[i].shapes[j]
  OBVIOUS
<1>2. x \in Shape
  <2>1. slides[i] \in Slide
    BY DEF LeftInd
  <2> QED BY <1>1, <2>1, SlideEdited
<1>3. x.keys \in SUBSET ShapeKey /\ x.rows \in Seq(Nat)
  BY <1>2, ShapeEdited
<1>4. ASSUME NEW keys \in SUBSET ShapeKey, Redo(i, j, [x EXCEPT !.keys = keys])
      PROVE  slides' \in Seq(Slide)
  <2>1. PICK y : y = [x EXCEPT !.keys = keys]
    OBVIOUS
  <2>2. y \in Shape
    BY <1>2, <2>1, ShapeEdited
  <2> QED BY <1>4, <2>1, <2>2, RedoneOK
<1>5. ASSUME NEW rows \in Seq(Nat), Redo(i, j, [x EXCEPT !.rows = rows])
      PROVE  slides' \in Seq(Slide)
  <2>1. PICK y : y = [x EXCEPT !.rows = rows]
    OBVIOUS
  <2>2. y \in Shape
    BY <1>2, <2>1, ShapeEdited
  <2> QED BY <1>5, <2>1, <2>2, RedoneOK
<1>6. ASSUME AddShapeRow(i, j)
      PROVE  slides' \in Seq(Slide)
  <2>1. PICK rows : rows = Append(x.rows, Width(x.rows))
    OBVIOUS
  <2>2. Redo(i, j, [x EXCEPT !.rows = rows])
    BY <1>1, <1>6, <2>1 DEF AddShapeRow
  <2> QED BY <1>3, <1>5, <2>1, <2>2, RowsEdited
<1>7. ASSUME AddShapeColumn(i, j)
      PROVE  slides' \in Seq(Slide)
  <2>1. PICK rows : rows = [r \in DOMAIN x.rows |-> x.rows[r] + 1]
    OBVIOUS
  <2>2. Redo(i, j, [x EXCEPT !.rows = rows])
    BY <1>1, <1>7, <2>1 DEF AddShapeColumn
  <2> QED BY <1>3, <1>5, <2>1, <2>2, RowsEdited
<1>8. ASSUME NEW r \in DOMAIN slides[i].shapes[j].rows, TypeInShapeTable(i, j, r)
      PROVE  slides' \in Seq(Slide)
  <2>1. PICK rows : rows = [x.rows EXCEPT ![r] = Width(x.rows)]
    OBVIOUS
  <2>2. Redo(i, j, [x EXCEPT !.rows = rows])
    BY <1>1, <1>8, <2>1 DEF TypeInShapeTable
  <2>3. rows \in Seq(Nat)
    BY <1>1, <1>3, <2>1, RowsEdited
  <2> QED BY <1>5, <2>2, <2>3
<1>9. ASSUME NEW r \in DOMAIN slides[i].shapes[j].rows, RemoveShapeRow(i, j, r)
      PROVE  slides' \in Seq(Slide)
  <2>1. PICK rows : rows = RemoveAt(x.rows, r)
    OBVIOUS
  <2>2. Redo(i, j, [x EXCEPT !.rows = rows])
    BY <1>1, <1>9, <2>1 DEF RemoveShapeRow
  <2>3. rows \in Seq(Nat)
    BY <1>1, <1>3, <2>1, RowsEdited
  <2> QED BY <1>5, <2>2, <2>3
<1>10. ASSUME NEW m \in ShapeMark, MarkShape(i, j, m)
       PROVE  slides' \in Seq(Slide)
  <2>1. PICK keys : keys = IF m \in x.keys THEN x.keys \ {m} ELSE x.keys \cup {m}
    OBVIOUS
  <2>2. Redo(i, j, [x EXCEPT !.keys = keys])
    BY <1>1, <1>10, <2>1 DEF MarkShape
  <2>3. keys \in SUBSET ShapeKey
    BY <1>3, <2>1 DEF ShapeKey
  <2> QED BY <1>4, <2>2, <2>3
<1>11. ASSUME NEW some \in BOOLEAN, SizeShape(i, j, some)
       PROVE  slides' \in Seq(Slide)
  <2>1. PICK keys : keys = IF some THEN x.keys \cup {"font-size"} ELSE x.keys \ {"font-size"}
    OBVIOUS
  <2>2. Redo(i, j, [x EXCEPT !.keys = keys])
    BY <1>1, <1>11, <2>1 DEF SizeShape
  <2>3. keys \in SUBSET ShapeKey
    BY <1>3, <2>1 DEF ShapeKey
  <2> QED BY <1>4, <2>2, <2>3
<1>12. ASSUME NEW some \in BOOLEAN, ColourShape(i, j, some)
       PROVE  slides' \in Seq(Slide)
  <2>1. PICK keys : keys = IF some THEN x.keys \cup {"color"} ELSE x.keys \ {"color"}
    OBVIOUS
  <2>2. Redo(i, j, [x EXCEPT !.keys = keys])
    BY <1>1, <1>12, <2>1 DEF ColourShape
  <2>3. keys \in SUBSET ShapeKey
    BY <1>3, <2>1 DEF ShapeKey
  <2> QED BY <1>4, <2>2, <2>3
<1>13. ASSUME NEW typed \in {"nothing", "refused", "followed"}, LinkShape(i, j, typed)
       PROVE  slides' \in Seq(Slide)
  <2>1. PICK keys : keys = CASE typed = "nothing" -> x.keys \ {"hyperlink"}
                             [] typed = "refused" -> x.keys
                             [] OTHER -> x.keys \cup {"hyperlink"}
    OBVIOUS
  <2>2. Redo(i, j, [x EXCEPT !.keys = keys])
    BY <1>1, <1>13, <2>1 DEF LinkShape
  <2>3. keys \in SUBSET ShapeKey
    BY <1>3, <2>1 DEF ShapeKey
  <2> QED BY <1>4, <2>2, <2>3
<1> QED BY <1>6, <1>7, <1>8, <1>9, <1>10, <1>11, <1>12, <1>13

LEMMA DecksKeepSlides ==
  ASSUME LeftInd, Decks
  PROVE  slides' \in Seq(Slide)
<1>1. slides \in Seq(Slide) /\ Len(slides) \in Nat /\ DOMAIN slides = 1..Len(slides)
  BY DEF LeftInd
<1>2. \A i \in DOMAIN slides : slides[i] \in Slide /\ slides[i].shapes \in Seq(Shape)
  BY <1>1, SlideEdited
<1>3. ASSUME AddSlide
      PROVE  slides' \in Seq(Slide)
  <2>1. PICK x : x = [id |-> Len(slides) + 1, shapes |-> <<>>, notes |-> FALSE]
    OBVIOUS
  <2>2. x \in Slide
    BY <1>1, <2>1 DEF Slide
  <2> QED BY <1>1, <1>3, <2>1, <2>2, AppendProperties DEF AddSlide
<1>4. ASSUME NEW i \in DOMAIN slides, RemoveSlide(i)
      PROVE  slides' \in Seq(Slide)
  BY <1>1, <1>4, Removed DEF RemoveSlide
<1>5. ASSUME NEW i \in DOMAIN slides, ShowSlide(i)
      PROVE  slides' \in Seq(Slide)
  BY <1>1, <1>5 DEF ShowSlide, payload
<1>6. ASSUME NEW i \in DOMAIN slides, NEW sh \in ShapeKind, AddShape(i, sh)
      PROVE  slides' \in Seq(Slide)
  <2>1. PICK x : x = NewShape(Len(slides[i].shapes) + 1, sh)
    OBVIOUS
  <2>2. Len(slides[i].shapes) + 1 \in Nat
    BY <1>2
  <2>3. x \in Shape
    BY <2>1, <2>2 DEF NewShape, Shape, ShapeKey
  <2>4. PICK shapes : shapes = Append(slides[i].shapes, x)
    OBVIOUS
  <2>5. shapes \in Seq(Shape)
    BY <1>2, <2>3, <2>4, AppendProperties
  <2>6. Reshape(i, shapes)
    BY <1>6, <2>1, <2>4 DEF AddShape
  <2> QED BY <2>5, <2>6, ReshapedOK
<1>7. ASSUME NEW i \in DOMAIN slides, NEW j \in DOMAIN slides[i].shapes, RemovePicture(i, j)
      PROVE  slides' \in Seq(Slide)
  <2>1. PICK shapes : shapes = RemoveAt(slides[i].shapes, j)
    OBVIOUS
  <2>2. j \in 1..Len(slides[i].shapes)
    BY <1>2, LenProperties
  <2>3. shapes \in Seq(Shape)
    BY <1>2, <2>1, <2>2, Removed
  <2>4. Reshape(i, shapes)
    BY <1>7, <2>1 DEF RemovePicture
  <2> QED BY <2>3, <2>4, ReshapedOK
<1>8. ASSUME NEW i \in DOMAIN slides, NEW some \in BOOLEAN, EditNotes(i, some)
      PROVE  slides' \in Seq(Slide)
  <2>1. PICK x \in Slide : x = slides[i]
    BY <1>2
  <2>2. PICK y : y = [x EXCEPT !.notes = some]
    OBVIOUS
  <2>3. y \in Slide
    BY <2>2, SlideEdited
  <2>4. slides' = [slides EXCEPT ![i] = y]
    <3>1. y = [slides[i] EXCEPT !.notes = some]
      BY <2>1, <2>2
    <3>2. slides' = [slides EXCEPT ![i].notes = some]
      BY <1>8 DEF EditNotes
    <3> QED BY <3>1, <3>2, Zenon
  <2> QED BY <1>1, <2>3, <2>4, ExceptSeq
<1> QED BY <1>3, <1>4, <1>5, <1>6, <1>7, <1>8, ShapeStepsTyped DEF Decks

(***************************************************************************)
(* All steps.                                                              *)
(***************************************************************************)

LEMMA EditsCounted == SurfaceNext => Edit
<1>1. Forms => Edit
  BY DEF Forms, AddField, RemoveField, EditField
<1>2. Docs => Edit
  BY DEF Docs, AddBlock, AddPicture, RemoveBlock, SetBlockKind, TypeText, AddLink, ToggleMark, DropRun,
         EditItems, AddTableRow, AddTableColumn, TypeInTable, RemoveTableRow, InDocs
<1>3. Sheets => Edit
  BY DEF Sheets, AddTab, RemoveTab, AddName, AddChart, SelectTab, RenameTab, TypeCell, SetStyle, RemoveName,
         RemoveChart, InSheets, OnTab
<1>4. Decks => Edit
  <2>1. \A i : \/ RemoveSlide(i) \/ ShowSlide(i)
               \/ \E sh \in ShapeKind : AddShape(i, sh)
               \/ \E some \in BOOLEAN : EditNotes(i, some)
              => Edit
    BY DEF RemoveSlide, ShowSlide, AddShape, EditNotes, InSlide
  <2>2. \A i, j : \/ RemovePicture(i, j) \/ AddShapeRow(i, j) \/ AddShapeColumn(i, j)
                  \/ \E mark \in ShapeMark : MarkShape(i, j, mark)
                  \/ \E some \in BOOLEAN : SizeShape(i, j, some) \/ ColourShape(i, j, some)
                  \/ \E typed \in {"nothing", "refused", "followed"} : LinkShape(i, j, typed)
                  \/ \E r : TypeInShapeTable(i, j, r) \/ RemoveShapeRow(i, j, r)
                 => Edit
    <3>1. \A i, j, r : TypeInShapeTable(i, j, r) \/ RemoveShapeRow(i, j, r) => Edit
      BY DEF TypeInShapeTable, RemoveShapeRow, InShape, InSlide
    <3>2. \A i, j, typed : LinkShape(i, j, typed) => Edit
      BY Zenon DEF LinkShape, InShape, InSlide
    <3>3. \A i, j, x : MarkShape(i, j, x) \/ SizeShape(i, j, x) \/ ColourShape(i, j, x) => Edit
      BY Zenon DEF MarkShape, SizeShape, ColourShape, InShape, InSlide
    <3>4. \A i, j : RemovePicture(i, j) \/ AddShapeRow(i, j) \/ AddShapeColumn(i, j) => Edit
      BY DEF RemovePicture, AddShapeRow, AddShapeColumn, InShape, InSlide
    <3> QED BY <3>1, <3>2, <3>3, <3>4
  <2>3. AddSlide => Edit
    BY DEF AddSlide
  <2> QED BY <2>1, <2>2, <2>3 DEF Decks
<1>5. \A m : ShowSurface(m) => Edit
  BY DEF ShowSurface
<1> QED BY <1>1, <1>2, <1>3, <1>4, <1>5 DEF SurfaceNext

\* Each kind of payload is edited alone.
LEMMA EditedAlone ==
  /\ Forms => UNCHANGED <<blocks, names, charts, slides, mode>>
  /\ Docs => UNCHANGED <<fields, names, charts, slides, mode>>
  /\ Sheets => UNCHANGED <<fields, blocks, slides, mode>>
  /\ Decks => UNCHANGED <<fields, blocks, names, charts, mode>>
<1>1. Forms => UNCHANGED <<blocks, names, charts, slides, mode>>
  BY DEF Forms, AddField, RemoveField, EditField, view
<1>2. Docs => UNCHANGED <<fields, names, charts, slides, mode>>
  <2>1. \A i : \/ RemoveBlock(i)
               \/ \E k \in BlockKind : SetBlockKind(i, k)
               \/ \E n \in 0..MaxText : TypeText(i, n)
               \/ \E from, to \in 0..MaxText :
                    AddLink(i, from, to) \/ \E mark \in Mark \ {"link"} : ToggleMark(i, from, to, mark)
              => UNCHANGED <<fields, names, charts, slides, mode>>
    BY DEF RemoveBlock, SetBlockKind, TypeText, AddLink, ToggleMark, Rewrite, view
  <2>2. \A i : \/ \E j : DropRun(i, j)
               \/ \E n : EditItems(i, n)
               \/ AddTableRow(i) \/ AddTableColumn(i)
               \/ \E r : TypeInTable(i, r) \/ RemoveTableRow(i, r)
              => UNCHANGED <<fields, names, charts, slides, mode>>
    BY DEF DropRun, EditItems, AddTableRow, AddTableColumn, TypeInTable, RemoveTableRow, Rewrite, view
  <2>3. AddBlock \/ AddPicture => UNCHANGED <<fields, names, charts, slides, mode>>
    BY DEF AddBlock, AddPicture, view
  <2> QED BY <2>1, <2>2, <2>3 DEF Docs
<1>3. Sheets => UNCHANGED <<fields, blocks, slides, mode>>
  BY DEF Sheets, AddTab, RemoveTab, AddName, AddChart, SelectTab, RenameTab, TypeCell, SetStyle, RemoveName,
         RemoveChart, payload, view
<1>4. Decks => UNCHANGED <<fields, blocks, names, charts, mode>>
  <2>1. \A i : \/ RemoveSlide(i) \/ ShowSlide(i)
               \/ \E sh \in ShapeKind : AddShape(i, sh)
               \/ \E some \in BOOLEAN : EditNotes(i, some)
               \/ \E j : RemovePicture(i, j)
              => UNCHANGED <<fields, blocks, names, charts, mode>>
    BY DEF RemoveSlide, ShowSlide, AddShape, EditNotes, RemovePicture, payload
  <2>2. \A i, j : \/ AddShapeRow(i, j) \/ AddShapeColumn(i, j)
                  \/ \E mark \in ShapeMark : MarkShape(i, j, mark)
                  \/ \E some \in BOOLEAN : SizeShape(i, j, some) \/ ColourShape(i, j, some)
                  \/ \E typed \in {"nothing", "refused", "followed"} : LinkShape(i, j, typed)
                  \/ \E r : TypeInShapeTable(i, j, r) \/ RemoveShapeRow(i, j, r)
                 => UNCHANGED <<fields, blocks, names, charts, mode>>
    <3>1. \A i, j, r : TypeInShapeTable(i, j, r) \/ RemoveShapeRow(i, j, r) => UNCHANGED <<fields, blocks, names, charts, mode>>
      BY DEF TypeInShapeTable, RemoveShapeRow, Redo
    <3>2. \A i, j, typed : LinkShape(i, j, typed) => UNCHANGED <<fields, blocks, names, charts, mode>>
      BY Zenon DEF LinkShape, Redo
    <3>3. \A i, j, x : MarkShape(i, j, x) \/ SizeShape(i, j, x) \/ ColourShape(i, j, x) => UNCHANGED <<fields, blocks, names, charts, mode>>
      BY Zenon DEF MarkShape, SizeShape, ColourShape, Redo
    <3>4. \A i, j : AddShapeRow(i, j) \/ AddShapeColumn(i, j) => UNCHANGED <<fields, blocks, names, charts, mode>>
      BY DEF AddShapeRow, AddShapeColumn, Redo
    <3> QED BY <3>1, <3>2, <3>3, <3>4
  <2>3. AddSlide => UNCHANGED <<fields, blocks, names, charts, mode>>
    BY DEF AddSlide, view
  <2> QED BY <2>1, <2>2, <2>3 DEF Decks
<1> QED BY <1>1, <1>2, <1>3, <1>4

LEMMA LeftKeeps ==
  ASSUME LeftInd, SheetInd, [SurfaceNext]_surfaceVars
  PROVE  LeftInd'
<1>1. CASE UNCHANGED surfaceVars
  BY <1>1 DEF LeftInd, surfaceVars, payload, view
<1>2. CASE SurfaceNext
  <2>1. kind' = kind /\ edits' \in 0..MaxEdits
    BY <1>2, EditsCounted, EditorsAssumption DEF Edit, LeftInd
  <2>2. CASE Forms
    BY <2>1, <2>2, FormsKeepFields, EditedAlone DEF LeftInd
  <2>3. CASE Docs
    BY <2>1, <2>3, DocsKeepBlocks, EditedAlone DEF LeftInd
  <2>4. CASE Sheets
    BY <2>1, <2>4, SheetsKeepNames, EditedAlone DEF LeftInd
  <2>5. CASE Decks
    BY <2>1, <2>5, DecksKeepSlides, EditedAlone DEF LeftInd
  <2>6. ASSUME NEW m \in {"preview", "structured"}, ShowSurface(m)
        PROVE  LeftInd'
    <3>1. UNCHANGED payload /\ mode' = m
      BY <2>6 DEF ShowSurface
    <3> QED BY <2>1, <2>6, <3>1 DEF LeftInd, payload
  <2> QED BY <1>2, <2>2, <2>3, <2>4, <2>5, <2>6 DEF SurfaceNext
<1> QED BY <1>1, <1>2

LEMMA LeftBegins == SurfaceInit => LeftInd
<1> SUFFICES ASSUME SurfaceInit PROVE LeftInd
  OBVIOUS
<1>1. /\ kind \in {"forms", "docs", "sheets", "slides"} /\ mode = "preview" /\ edits = 0
      /\ fields = <<>> /\ names = {} /\ charts = <<>> /\ slides = <<>>
      /\ blocks \in {<<>>, <<Imported("list", 1, <<>>)>>, <<Imported("table", 0, <<1, 2>>)>>}
  BY DEF SurfaceInit
<1>2. 0 \in 0..MaxEdits
  BY EditorsAssumption
<1>3. fields \in Seq(Field) /\ charts \in Seq(Chart) /\ slides \in Seq(Slide)
  BY <1>1
<1>4. blocks \in Seq(FitBlock)
  <2>1. PICK b, c : b = Imported("list", 1, <<>>) /\ c = Imported("table", 0, <<1, 2>>)
    OBVIOUS
  <2>2. "list" \in BlockKind /\ "table" \in BlockKind /\ 1 \in Nat /\ 0 \in Nat
    BY DEF BlockKind
  <2>3. <<>> \in Seq(Nat) /\ <<1, 2>> \in Seq(Nat)
    OBVIOUS
  <2>4. b \in FitBlock /\ c \in FitBlock
    BY <2>1, <2>2, <2>3, ImportedIs
  <2>5. blocks \in {<<>>, <<b>>, <<c>>}
    BY <1>1, <2>1
  <2>6. <<>> \in Seq(FitBlock) /\ <<b>> \in Seq(FitBlock) /\ <<c>> \in Seq(FitBlock)
    BY <2>4
  <2> QED BY <2>5, <2>6
<1> QED BY <1>1, <1>2, <1>3, <1>4 DEF LeftInd

LEMMA SurfaceIndImplies ==
  ASSUME LeftInd, SheetInd, StageInd
  PROVE  SurfaceInv
<1>1. \A i \in DOMAIN blocks : blocks[i] \in FitBlock
  BY DEF LeftInd
<1>2. SurfaceTypeOK
  <2>1. FitBlock \subseteq Block
    BY DEF FitBlock
  <2>2. blocks \in Seq(Block)
    BY <2>1 DEF LeftInd
  <2>3. tab \in Nat
    <3>1. CASE tab = Absent
      BY <3>1 DEF Absent
    <3>2. CASE tab # Absent
      <4>1. PICK i \in 1..Len(tabs) : tabs[i].id = tab
        BY <3>2 DEF SheetInd
      <4>2. tabs[i] \in Tab
        BY TabsShape DEF SheetInd
      <4> QED BY <4>1, <4>2, TabTyped
    <3> QED BY <3>1, <3>2
  <2> QED BY <2>2, <2>3 DEF SurfaceTypeOK, LeftInd, SheetInd, TabsOK, StageInd
<1>3. RunsFit
  BY <1>1, BlockTyped DEF RunsFit, FitRuns
<1>4. DrawnOnce
  <2>1. ASSUME NEW i \in DOMAIN blocks
        PROVE  DrawnWell(blocks[i])
    <3>1. blocks[i].text \in Nat /\ FitRuns(blocks[i].runs, blocks[i].text)
      BY <1>1, BlockTyped, EditorsAssumption
    <3> QED BY <3>1, BlockDrawn
  <2> QED BY <2>1 DEF DrawnOnce, DrawnWell
<1>5. NoEmptyCells
  BY TabsShape DEF SheetInd, TabsOK, NoEmptyCells, NoEmpty
<1>6. ChartIdsUnique
  BY IdsCounted DEF SheetInd, ChartIdsUnique, ChartIds
<1> QED BY <1>2, <1>3, <1>4, <1>5, <1>6 DEF SurfaceInv, StageInd

\* However long edits and previews alternate: the payload keeps the shape the server
\* accepts, no run points outside its text, the preview draws every character once,
\* in a run exactly when a stored one covers it, no cell is stored without content and
\* style, no two charts share the id by which the drawn picture is found, and the deck
\* shows one of its slides.
THEOREM StoredIsUsed == PartsSpec => []SurfaceInv
<1>1. PartsInit => LeftInd
  BY LeftBegins DEF PartsInit
<1>2. PartsInd /\ LeftInd /\ [PartsNext]_partVars => LeftInd'
  <2>1. [PartsNext]_partVars => [SurfaceNext]_surfaceVars
    BY DEF PartsNext, partVars, Editor, Browser, Panels, Surfaces
  <2> QED BY <2>1, LeftKeeps DEF PartsInd
<1>3. PartsInd /\ LeftInd => SurfaceInv
  BY SurfaceIndImplies DEF PartsInd
<1> QED BY <1>1, <1>2, <1>3, PartsAlways, PTL DEF PartsSpec
=============================================================================
