---------------------------- MODULE DriveEditor ----------------------------
(***************************************************************************)
(* The detail pane of the Drive (interaction.js) and the document editor   *)
(* in it.  driveEditor is one global that outlives the pane; the pane is   *)
(* rebuilt by every render, and the closures of an older pane go on when   *)
(* their answers arrive.  Other people save the same documents.            *)
(***************************************************************************)
EXTENDS Naturals, Sequences, SequencesExt, FiniteSets

CONSTANTS
  Doc,          \* documents of the list
  NoDoc,        \* no document
  MaxActs,      \* bound: acts of the person and saves of other people
  MaxAsked      \* bound: requests under way when the person acts

ASSUME DriveAssumption == NoDoc \notin Doc /\ MaxActs \in Nat /\ MaxAsked \in Nat \ {0}

VARIABLES
  history,      \* on the server: the versions of each document
  listed,       \* driveData: how many versions each item of the list has
  matching,     \* the items the words in the search box leave in the list
  selected,     \* selectedDrive: an item as some answer gave it
  editor,       \* driveEditor
  pane,         \* what is on the page, and the item its closures hold
  asked,        \* requests under way, in the order they were sent
  acts

vars == <<history, listed, matching, selected, editor, pane, asked, acts>>

Mode    == {"preview", "structured", "json"}
\* A payload or its text: of a document, made out of the version that was
\* current when it was read, with edits or not, and whether ever as text.
Content == [doc : Doc \cup {NoDoc}, seen : Nat, dirty : BOOLEAN, text : BOOLEAN]
Etag    == (Doc \cup {NoDoc}) \X Nat
Item    == [doc : Doc \cup {NoDoc}, at : Nat]
Reads   == {"auto", "open", "reread"}
Writes  == {"save", "restore", "sort"}

Nothing       == [doc |-> NoDoc, seen |-> 0, dirty |-> FALSE, text |-> FALSE]
Version(d, n) == [doc |-> d, seen |-> n, dirty |-> FALSE, text |-> FALSE]
Latest(d)     == Len(history[d])

\* closedEditor
Closed(d) == [id |-> d, open |-> FALSE, mode |-> "preview", payload |-> Nothing, text |-> Nothing,
              etag |-> <<NoDoc, 0>>, loading |-> FALSE, failed |-> FALSE]

\* openedEditor, and syncText unless the text is left empty.
Opened(d, n, text) ==
  [Closed(d) EXCEPT !.open = TRUE, !.mode = editor.mode, !.payload = Version(d, n), !.text = text,
                    !.etag = <<d, n>>]

\* renderPane: what the closures of `item` put on the page.
PaneOf(item, e) ==
  [item |-> item, open |-> e.open, mode |-> e.mode, stale |-> FALSE, content |-> Nothing]

\* The editor was replaced behind the pane, which goes on showing what it did.
Behind ==
  IF pane.stale \/ ~pane.open THEN pane
  ELSE [pane EXCEPT !.stale = TRUE,
                    !.content = IF pane.mode = "json" THEN editor.text ELSE editor.payload]

Request(kind, d, content, etag) ==
  [kind |-> kind, doc |-> d, live |-> TRUE, from |-> IF d = NoDoc THEN 0 ELSE Latest(d),
   content |-> content, etag |-> etag, answer |-> 0]
Ask(kind, d)  == Request(kind, d, Nothing, <<NoDoc, 0>>)
List          == Ask("list", NoDoc)
Detached(q)   == [i \in DOMAIN q |-> [q[i] EXCEPT !.live = FALSE]]
Waiting(kind) == \E i \in DOMAIN asked : asked[i].live /\ asked[i].kind = kind

Act == acts < MaxActs /\ Len(asked) < MaxAsked /\ acts' = acts + 1

\* Mutant: every render starts with a closed editor.
Fitting_Closed(e, d) == Closed(d)

\* documentActions resets an editor that is of another document.
Fitting(e, d) == IF e.id = d THEN e ELSE Closed(d)

\* The document is opened without being asked, once.
Unread(e) == e.payload = Nothing /\ ~e.loading /\ ~e.failed

\* renderDrive: the selection moves to the first item if its own is not in
\* the list; the pane is built anew and the older closures are off the page.
Render(e0, item0, in, q) ==
  LET item == IF item0.doc \in in THEN item0
              ELSE IF in = {} THEN [doc |-> NoDoc, at |-> 0]
              ELSE LET d == CHOOSE d \in in : TRUE IN [doc |-> d, at |-> listed'[d]]
      e    == IF item.doc = NoDoc THEN e0 ELSE Fitting(e0, item.doc)
      auto == item.doc # NoDoc /\ Unread(e)
  IN /\ selected' = item
     /\ editor' = [e EXCEPT !.loading = @ \/ auto]
     /\ pane' = IF item.doc = NoDoc THEN PaneOf(item, Closed(NoDoc)) ELSE PaneOf(item, e)
     /\ asked' = Detached(q) \o (IF auto THEN <<Ask("auto", item.doc)>> ELSE <<>>)

Init ==
  /\ history = [d \in Doc |-> <<Version(d, 0)>>]
  /\ listed = [d \in Doc |-> 1]
  /\ matching = Doc
  /\ selected = [doc |-> NoDoc, at |-> 0]
  /\ editor = Closed(NoDoc)
  /\ pane = PaneOf(selected, editor)
  /\ asked = <<List>>
  /\ acts = 0

(***************************************************************************)
(* The list.                                                               *)
(***************************************************************************)

\* A character in the search box.
Keystroke(in) ==
  /\ Act
  /\ matching' = in /\ UNCHANGED <<history, listed>>
  /\ Render(editor, selected, in, asked)

\* A row of the list, or a reference to another document, is clicked.
Select(d) ==
  /\ Act
  /\ d \in matching
  /\ UNCHANGED <<history, listed, matching>>
  /\ Render(editor, [doc |-> d, at |-> listed[d]], matching, asked)

\* loadWorkspace, as driveAction and the panels call it.
Refresh ==
  /\ Act
  /\ asked' = Append(asked, [List EXCEPT !.live = FALSE])
  /\ UNCHANGED <<history, listed, matching, selected, editor, pane>>

ListArrives(i) ==
  /\ asked[i].kind = "list"
  /\ listed' = [d \in Doc |-> Latest(d)]
  /\ UNCHANGED <<history, matching, acts>>
  /\ Render(editor, selected, matching, RemoveAt(asked, i))

(***************************************************************************)
(* Opening.                                                                *)
(***************************************************************************)

\* The edit button, a version, or the reload offered by a refused save.
OpenClick ==
  /\ Act
  /\ pane.item.doc # NoDoc /\ ~Waiting("open")
  /\ asked' = Append(asked, Ask("open", pane.item.doc))
  /\ UNCHANGED <<history, listed, matching, selected, editor, pane>>

\* load, openedEditor, syncText and renderPane, whose pane may be gone.
OpenArrives(i, n) ==
  /\ asked[i].kind = "open"
  /\ editor' = Opened(asked[i].doc, n, Version(asked[i].doc, n))
  /\ pane' = IF asked[i].live THEN PaneOf(pane.item, editor') ELSE Behind
  /\ asked' = RemoveAt(asked, i)
  /\ UNCHANGED <<history, listed, matching, selected, acts>>

\* Only the automatic open asks whether the editor is still of its document.
AutoArrives(i, n) ==
  /\ asked[i].kind = "auto"
  /\ IF editor.id # asked[i].doc THEN UNCHANGED <<editor, pane>>
     ELSE /\ editor' = Opened(asked[i].doc, n, Version(asked[i].doc, n))
          /\ pane' = IF asked[i].live THEN PaneOf(pane.item, editor') ELSE Behind
  /\ asked' = RemoveAt(asked, i)
  /\ UNCHANGED <<history, listed, matching, selected, acts>>

Unreadable(e) == [e EXCEPT !.loading = FALSE, !.failed = TRUE]

\* A read fails; the automatic one is not tried again by the next render.
ReadFails(i) ==
  /\ asked[i].kind \in Reads
  /\ editor' = IF asked[i].kind = "auto" /\ editor.id = asked[i].doc THEN Unreadable(editor) ELSE editor
  /\ asked' = RemoveAt(asked, i)
  /\ UNCHANGED <<history, listed, matching, selected, pane, acts>>

(***************************************************************************)
(* Editing.                                                                *)
(***************************************************************************)

Shown == IF pane.stale THEN pane.content
         ELSE IF pane.mode = "json" THEN editor.text ELSE editor.payload

\* A field writes into the object it was built from; its callback derives the
\* text from the editor's.
TypeInField ==
  /\ Act
  /\ pane.open /\ pane.mode = "structured" /\ Shown # Nothing
  /\ LET payload == IF pane.stale THEN editor.payload ELSE [editor.payload EXCEPT !.dirty = TRUE]
     IN editor' = [editor EXCEPT !.payload = payload, !.text = payload]
  /\ pane' = IF pane.stale THEN [pane EXCEPT !.content.dirty = TRUE] ELSE pane
  /\ UNCHANGED <<history, listed, matching, selected, asked>>

\* An edit that rebuilds the form draws the editor's payload.
Rebuild ==
  /\ Act
  /\ pane.open /\ pane.mode = "structured" /\ Shown # Nothing
  /\ LET payload == IF pane.stale THEN editor.payload ELSE [editor.payload EXCEPT !.dirty = TRUE]
     IN editor' = [editor EXCEPT !.payload = payload, !.text = payload]
  /\ pane' = PaneOf(pane.item, editor')
  /\ UNCHANGED <<history, listed, matching, selected, asked>>

\* The text box writes its whole value into the global, whoever's box it is.
TypeInText ==
  /\ Act
  /\ pane.open /\ pane.mode = "json" /\ Shown # Nothing
  /\ LET text == [Shown EXCEPT !.dirty = TRUE, !.text = TRUE]
     IN /\ editor' = [editor EXCEPT !.text = text]
        /\ pane' = IF pane.stale THEN [pane EXCEPT !.content = text] ELSE pane
  /\ UNCHANGED <<history, listed, matching, selected, asked>>

\* adoptText refuses what does not parse, as the text a reread leaves.
Adoptable == editor.mode = "json" => editor.text # Nothing

\* Leaving the JSON view adopts the text; entering it derives the text.
ShowMode(m) ==
  /\ Act
  /\ pane.open /\ editor.mode # m /\ Adoptable
  /\ editor' = [editor EXCEPT !.mode = m,
                  !.payload = IF editor.mode = "json" THEN editor.text ELSE @,
                  !.text = IF m = "json" THEN editor.payload ELSE @]
  /\ pane' = PaneOf(pane.item, editor')
  /\ UNCHANGED <<history, listed, matching, selected, asked>>

(***************************************************************************)
(* Writing.                                                                *)
(***************************************************************************)

SaveEtag == editor.etag

SaveClick ==
  /\ Act
  /\ pane.open /\ ~Waiting("save") /\ ~Waiting("list") /\ Adoptable
  /\ asked' = Append(asked, Request("save", pane.item.doc,
                              IF editor.mode = "json" THEN editor.text ELSE editor.payload, SaveEtag))
  /\ UNCHANGED <<history, listed, matching, selected, editor, pane>>

\* An old version is put on top of the one the item of the pane was listed at.
RestoreClick ==
  /\ Act
  /\ pane.item.at > 1 /\ ~Waiting("restore")
  /\ asked' = Append(asked, Request("restore", pane.item.doc, Version(pane.item.doc, pane.item.at),
                                    <<pane.item.doc, pane.item.at>>))
  /\ UNCHANGED <<history, listed, matching, selected, editor, pane>>

\* Cells are sorted, rows and columns inserted or deleted by the server.
SortClick ==
  /\ Act
  /\ pane.item.doc # NoDoc
  /\ LET etag == IF editor.id = pane.item.doc THEN editor.etag ELSE <<pane.item.doc, pane.item.at>>
     IN asked' = Append(asked, Request("sort", pane.item.doc, Version(pane.item.doc, etag[2]), etag))
  /\ UNCHANGED <<history, listed, matching, selected, editor, pane>>

\* Mutant: the entity tag is the number of the version.
IsCurrent_ByNumber(d, etag) == etag[2] = Latest(d)

\* Every write of a document gets a tag of its own.
IsCurrent(d, etag) == etag = <<d, Latest(d)>>

\* The server writes a version on top of the one the caller names, or refuses.
\* 1 is a refusal, more is the number of the version.
Handle(i) ==
  /\ asked[i].kind \in Writes /\ asked[i].answer = 0
  /\ LET r == asked[i]
     IN IF IsCurrent(r.doc, r.etag) /\ r.content # Nothing
        THEN /\ history' = [history EXCEPT ![r.doc] = Append(@, r.content)]
             /\ asked' = [asked EXCEPT ![i].answer = Latest(r.doc) + 1]
        ELSE /\ asked' = [asked EXCEPT ![i].answer = 1]
             /\ UNCHANGED history
  /\ UNCHANGED <<listed, matching, selected, editor, pane, acts>>

\* A save or a restore went through: the editor closes, whatever it holds, the
\* document is selected again and the list is read.
WriteArrives(i) ==
  /\ asked[i].kind \in {"save", "restore"} /\ asked[i].answer > 1
  /\ editor' = Closed(asked[i].doc)
  /\ selected' = [doc |-> asked[i].doc, at |-> asked[i].answer]
  /\ pane' = Behind
  /\ asked' = Append(RemoveAt(asked, i), [List EXCEPT !.live = asked[i].live])
  /\ UNCHANGED <<history, listed, matching, acts>>

\* A refused save keeps the editor.
Refused(e) == e

RefusalArrives(i) ==
  /\ asked[i].kind \in Writes /\ asked[i].answer = 1
  /\ editor' = Refused(editor)
  /\ asked' = RemoveAt(asked, i)
  /\ UNCHANGED <<history, listed, matching, selected, pane, acts>>

\* An editor that is open on the document is filled again.
SortArrives(i) ==
  /\ asked[i].kind = "sort" /\ asked[i].answer > 1
  /\ LET next == IF editor.id = asked[i].doc /\ editor.open THEN Ask("reread", asked[i].doc) ELSE List
     IN asked' = Append(RemoveAt(asked, i), [next EXCEPT !.live = asked[i].live])
  /\ UNCHANGED <<history, listed, matching, selected, editor, pane, acts>>

\* The text is not derived this time.
RereadArrives(i, n) ==
  /\ asked[i].kind = "reread"
  /\ editor' = Opened(asked[i].doc, n, Nothing)
  /\ pane' = IF asked[i].live THEN PaneOf(pane.item, editor') ELSE Behind
  /\ asked' = Append(RemoveAt(asked, i), [List EXCEPT !.live = asked[i].live])
  /\ UNCHANGED <<history, listed, matching, selected, acts>>

\* Somebody else saves.
Colleague(d) ==
  /\ Act
  /\ history' = [history EXCEPT ![d] = Append(@, Version(d, Latest(d)))]
  /\ UNCHANGED <<listed, matching, selected, editor, pane, asked>>

Answers ==
  \E i \in DOMAIN asked :
    \/ ListArrives(i) \/ ReadFails(i) \/ Handle(i) \/ WriteArrives(i)
    \/ RefusalArrives(i) \/ SortArrives(i)
    \/ /\ asked[i].kind \in Reads
       /\ \E n \in asked[i].from..Latest(asked[i].doc) :
            OpenArrives(i, n) \/ AutoArrives(i, n) \/ RereadArrives(i, n)

Person ==
  \/ \E in \in SUBSET Doc : Keystroke(in)
  \/ \E d \in Doc : Select(d)
  \/ Refresh \/ OpenClick \/ TypeInField \/ Rebuild \/ TypeInText
  \/ \E m \in Mode : ShowMode(m)
  \/ SaveClick \/ RestoreClick \/ SortClick

Next == Answers \/ Person \/ \E d \in Doc : Colleague(d)

Spec == Init /\ [][Next]_vars

(***************************************************************************)
(* Properties.                                                             *)
(***************************************************************************)

\* Types; an editor that is open has something to edit, although answers, refusals and
\* the choice of another document close and fill it in any order.
TypeOK ==
  /\ \A d \in Doc : history[d] \in Seq(Content)
  /\ listed \in [Doc -> Nat] /\ matching \subseteq Doc /\ selected \in Item
  /\ editor \in [id : Doc \cup {NoDoc}, open : BOOLEAN, mode : Mode, payload : Content,
                 text : Content, etag : Etag, loading : BOOLEAN, failed : BOOLEAN]
  /\ editor.open => editor.payload # Nothing
  /\ pane \in [item : Item, open : BOOLEAN, mode : Mode, stale : BOOLEAN, content : Content]
  /\ asked \in Seq([kind : Reads \cup Writes \cup {"list"}, doc : Doc \cup {NoDoc}, live : BOOLEAN,
                    from : Nat, content : Content, etag : Etag, answer : Nat])
  /\ acts \in 0..MaxActs

\* Out of the fields a document only ever gets versions of itself: a save whose
\* editor was filled with another document meanwhile is refused, because no two
\* documents share an etag.  Of text it does not hold: the box of one document,
\* still on the page, writes into the editor that a late answer has filled with
\* another, and there the text is saved when that one is selected again.
OwnContent == \A d \in Doc : \A n \in DOMAIN history[d] : ~history[d][n].text => history[d][n].doc = d

\* A save out of the fields never deletes a version its author has not read,
\* however the list, the editor and the pane were refreshed in between.
FieldsLoseNoUpdate ==
  \A d \in Doc : \A n \in DOMAIN history[d] : ~history[d][n].text => history[d][n].seen = n - 1

\* The same of every save, as the comment on the etag says of the program: it
\* is what stops one editor's save deleting another's.
NoLostUpdate ==
  \A d \in Doc : \A n \in DOMAIN history[d] : history[d][n].seen = n - 1

\* An editor that says it is loading has its answer coming: it does not wait
\* for one that was dropped, and the guard against a request per keystroke
\* does not lock the document.
LoadingIsAsked ==
  editor.loading => \E i \in DOMAIN asked : asked[i].kind = "auto" /\ asked[i].doc = editor.id

Work(e) == IF e.mode = "json" THEN e.text ELSE e.payload

Unanswered(kind) ==
  Cardinality({i \in DOMAIN asked' : asked'[i].kind = kind})
    >= Cardinality({i \in DOMAIN asked : asked[i].kind = kind})

\* The selection stays on a document, and no answer fills or closes its editor.
Redrawn ==
  /\ editor.id = selected.doc /\ selected'.doc = selected.doc
  /\ \/ \A k \in Reads \cup {"save", "restore"} : Unanswered(k)
     \/ \E i \in DOMAIN asked : RefusalArrives(i)

\* Such a step takes away nothing of what was typed into the document (renderDrive builds
\* its pane anew): no render, no list, no refusal.
RedrawKeepsEdits ==
  [][Redrawn => (Work(editor).dirty => Work(editor').dirty)]_vars

\* What is open is the document that was asked for, and no save of the fields
\* loses a version.
EditorInv == TypeOK /\ OwnContent /\ FieldsLoseNoUpdate /\ LoadingIsAsked
=============================================================================
