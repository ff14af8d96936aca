---------------------------- MODULE DriveBrowser ----------------------------
(***************************************************************************)
(* The Drive page of interaction.js outside the editor: the folder one     *)
(* stands in, the list that comes in pages, and what is created, uploaded, *)
(* moved, copied, trashed and restored there, while another session of the *)
(* same person writes too.  The server's part is documents.cljk.           *)
(***************************************************************************)
EXTENDS Integers, Sequences, FiniteSets, Picking

CONSTANTS
  Entry,          \* documents that exist or may be created
  Existing,     \* the ones that exist at first, in the root
  Folder,       \* folders besides the root
  PageSize,     \* default-page-size
  MaxDriveActs  \* bound: clicks on the page and writes of the other session

ASSUME BrowserAssumption ==
  /\ Existing \subseteq Entry /\ Entry # {} /\ IsFiniteSet(Entry)
  /\ PageSize \in Nat \ {0} /\ MaxDriveActs \in Nat

VARIABLES
  parent,       \* server: the folder of each document
  stamp,        \* server: when it was last written, 0 before it exists
  trashed,      \* server: documents in the trash
  gone,         \* server: folders another session has removed
  changedAt,    \* server: the last change of a document, its writing or its return
  driveFolder,  \* the folder one stands in
  folderData,   \* the folder the page shows
  driveData,    \* the list: documents and the folder each was in
  shownSince,   \* when the first page of that list was taken
  driveCursor,  \* where the next page starts, 0 at the end
  selectedDrive,
  driveQuery,   \* the search box: empty, or the name of a document
  choice,       \* the buttons that ask what a file should become
  calls,        \* requests and their answers under way
  driveActs,    \* clicks and writes so far
  overtaken     \* requests that failed or were answered after a later one

stored    == <<parent, stamp, trashed, gone, changedAt>>
listing    == <<driveFolder, folderData, driveData, shownSince, driveCursor, selectedDrive>>
driveVars == <<stored, listing, driveQuery, choice, calls, driveActs, overtaken>>

Root == "root"
NoEntry == "no document"
Folders == {Root} \cup Folder
Time == CHOOSE t \in {changedAt[d] : d \in Entry} : \A d \in Entry : changedAt[d] <= t
Visible(d) == stamp[d] > 0 /\ d \notin trashed

DriveAct == driveActs < MaxDriveActs /\ driveActs' = driveActs + 1
Pending == [served |-> FALSE]
Call(kind, arg, after) ==
  [n |-> driveActs, kind |-> kind, arg |-> arg, then |-> after, answer |-> Pending]

---------------------------------------------------------------------------
(* The list.                                                               *)

\* Mutant: the cursor is the first document of the next page.
Page_CursorBeyond(before) ==
  LET rest == {d \in Entry : Visible(d) /\ (before = 0 \/ stamp[d] < before)}
      rank(d) == Cardinality({e \in rest : stamp[e] >= stamp[d]})
      size == IF Cardinality(rest) < PageSize THEN Cardinality(rest) ELSE PageSize
      nth(i) == CHOOSE d \in rest : rank(d) = i
  IN  [served |-> TRUE, at |-> Time,
       items |-> [i \in 1 .. size |-> [id |-> nth(i), in |-> parent[nth(i)]]],
       cursor |-> IF Cardinality(rest) > size THEN stamp[nth(size + 1)] ELSE 0]

\* page: the next documents after a cursor, the last written first.
Page(before) ==
  LET rest == {d \in Entry : Visible(d) /\ (before = 0 \/ stamp[d] < before)}
      rank(d) == Cardinality({e \in rest : stamp[e] >= stamp[d]})
      size == IF Cardinality(rest) < PageSize THEN Cardinality(rest) ELSE PageSize
      nth(i) == CHOOSE d \in rest : rank(d) = i
  IN  [served |-> TRUE, at |-> Time,
       items |-> [i \in 1 .. size |-> [id |-> nth(i), in |-> parent[nth(i)]]],
       cursor |-> IF Cardinality(rest) > size THEN stamp[nth(size)] ELSE 0]

\* renderDrive: the documents of the folder, or wherever the search finds them.
InView(items, here, query) ==
  Picked(items, {i \in DOMAIN items :
                   IF query = NoEntry THEN items[i].in = here ELSE items[i].id = query})

\* renderDrive: a selection that is no longer in view moves to the first one.
Chosen(view, selected) ==
  IF \E i \in DOMAIN view : view[i].id = selected THEN selected
  ELSE IF view = <<>> THEN NoEntry ELSE view[1].id

RenderDrive(items, here, query, selected) ==
  /\ driveData' = items
  /\ folderData' = here
  /\ driveQuery' = query
  /\ selectedDrive' = Chosen(InView(items, here, query), selected)

---------------------------------------------------------------------------
(* Clicks.                                                                 *)

Send(r) == calls' = calls \cup {r}

\* goToFolder.
GoToFolder(f) ==
  /\ DriveAct /\ f # driveFolder
  /\ driveFolder' = f
  /\ Send(Call("folders", f, "render"))
  /\ UNCHANGED <<stored, folderData, driveData, shownSince, driveCursor, selectedDrive,
                 driveQuery, choice, overtaken>>

\* A key in the search box.
TypeQuery(q) ==
  /\ DriveAct /\ q # driveQuery
  /\ RenderDrive(driveData, folderData, q, selectedDrive)
  /\ UNCHANGED <<stored, driveFolder, shownSince, driveCursor, choice, calls, overtaken>>

\* A row of the list.
SelectEntry(d) ==
  /\ DriveAct
  /\ \E i \in DOMAIN InView(driveData, folderData, driveQuery) :
       InView(driveData, folderData, driveQuery)[i].id = d
  /\ RenderDrive(driveData, folderData, driveQuery, d)
  /\ UNCHANGED <<stored, driveFolder, shownSince, driveCursor, choice, calls, overtaken>>

\* loadMoreDrive.
MoreClick ==
  /\ DriveAct /\ driveCursor # 0
  /\ Send(Call("more", driveCursor, "render"))
  /\ UNCHANGED <<stored, listing, driveQuery, choice, overtaken>>

\* createDocument: what is made goes into the folder one stands in.
CreateClick ==
  /\ DriveAct
  /\ Send(Call("create", driveFolder, "select"))
  /\ UNCHANGED <<stored, listing, driveQuery, choice, overtaken>>

\* chooseWhatAFileBecomes: a file that can be read is calls about.
ChooseFile ==
  /\ DriveAct
  /\ \/ choice' = TRUE /\ calls' = calls
     \/ choice' = FALSE /\ Send(Call("create", driveFolder, "upload"))
  /\ UNCHANGED <<stored, listing, driveQuery, overtaken>>

\* importFile or uploadFile from one of the two buttons, which stay.
ImportClick ==
  /\ DriveAct /\ choice
  /\ Send(Call("create", driveFolder, "upload"))
  /\ UNCHANGED <<stored, listing, driveQuery, choice, overtaken>>

\* The copy button.
CopyClick ==
  /\ DriveAct /\ selectedDrive # NoEntry
  /\ Send(Call("create", driveFolder, "list"))
  /\ UNCHANGED <<stored, listing, driveQuery, choice, overtaken>>

\* createFolder and the folder picker of a document: the tree is read again.
MoveClick(f) ==
  /\ DriveAct /\ selectedDrive # NoEntry
  /\ Send(Call("move", <<selectedDrive, f>>, "folders"))
  /\ UNCHANGED <<stored, listing, driveQuery, choice, overtaken>>

\* The rename and the prune buttons: the answer's document is selected.
RenameClick ==
  /\ DriveAct /\ selectedDrive # NoEntry
  /\ Send(Call("rename", selectedDrive, "select"))
  /\ UNCHANGED <<stored, listing, driveQuery, choice, overtaken>>

\* driveAction: the trash button, and the rows of the trash.
TrashClick(d, verb) ==
  /\ DriveAct
  /\ IF verb = "trash" THEN selectedDrive = d ELSE d \in trashed
  /\ Send(Call(verb, d, "list"))
  /\ UNCHANGED <<stored, listing, driveQuery, choice, overtaken>>

---------------------------------------------------------------------------
(* The server.                                                             *)

Given(r, value) == calls' = (calls \ {r}) \cup {[r EXCEPT !.answer = value]}
Done(id) == [served |-> TRUE, ok |-> TRUE, id |-> id]
Failed == [served |-> TRUE, ok |-> FALSE, id |-> NoEntry]

ServeRead(r) ==
  /\ r.kind \in {"folders", "list", "more"} /\ ~r.answer.served
  /\ Given(r, CASE r.kind = "folders" -> [served |-> TRUE, ok |-> r.arg \notin gone]
                 [] r.kind = "list" -> Page(0)
                 [] OTHER -> Page(r.arg))
  /\ UNCHANGED <<stored, listing, driveQuery, choice, driveActs, overtaken>>

Write(d) ==
  /\ stamp' = [stamp EXCEPT ![d] = Time + 1]
  /\ changedAt' = [changedAt EXCEPT ![d] = Time + 1]

\* create!, import, upload, copy!: refused where there is no such folder.
ServeCreate(r) ==
  /\ r.kind = "create" /\ ~r.answer.served
  /\ IF r.arg \in gone
     THEN Given(r, Failed) /\ UNCHANGED stored
     ELSE \E d \in Entry :
            /\ changedAt[d] = 0
            /\ d = CHOOSE e \in Entry : changedAt[e] = 0
            /\ Write(d)
            /\ parent' = [parent EXCEPT ![d] = r.arg]
            /\ Given(r, Done(d))
            /\ UNCHANGED <<trashed, gone>>
  /\ UNCHANGED <<listing, driveQuery, choice, driveActs, overtaken>>

\* move!, rename!, prune!, trash!, restore!, purge!.
ServeChange(r) ==
  /\ r.kind \in {"move", "rename", "trash", "restore", "purge"} /\ ~r.answer.served
  /\ LET d == IF r.kind = "move" THEN r.arg[1] ELSE r.arg
         fine == CASE r.kind = "move" -> Visible(d) /\ r.arg[2] \notin gone
                   [] r.kind \in {"rename", "trash"} -> Visible(d)
                   [] OTHER -> d \in trashed
     IN  /\ Given(r, IF fine THEN Done(d) ELSE Failed)
         /\ parent' = IF fine /\ r.kind = "move" THEN [parent EXCEPT ![d] = r.arg[2]] ELSE parent
         /\ trashed' = IF ~fine THEN trashed
                       ELSE CASE r.kind = "trash" -> trashed \cup {d}
                              [] r.kind \in {"restore", "purge"} -> trashed \ {d}
                              [] OTHER -> trashed
         /\ stamp' = IF fine /\ r.kind = "purge" THEN [stamp EXCEPT ![d] = 0] ELSE stamp
         /\ changedAt' = IF fine /\ r.kind = "restore"
                         THEN [changedAt EXCEPT ![d] = Time + 1] ELSE changedAt
  /\ UNCHANGED <<gone, listing, driveQuery, choice, driveActs, overtaken>>

\* The other session saves a document or removes a folder.
OtherWrites(d) ==
  /\ DriveAct /\ Visible(d)
  /\ Write(d)
  /\ UNCHANGED <<parent, trashed, gone, listing, driveQuery, choice, calls, overtaken>>

OtherRemoves(f) ==
  /\ DriveAct /\ f \notin gone
  /\ gone' = gone \cup {f}
  /\ UNCHANGED <<parent, stamp, trashed, changedAt, listing, driveQuery, choice, calls, overtaken>>

---------------------------------------------------------------------------
(* Answers.                                                                *)

Arrived(r) == calls' = calls \ {r}
Follow(r, kind, arg, after) ==
  calls' = (calls \ {r}) \cup {[r EXCEPT !.kind = kind, !.arg = arg, !.then = after,
                                         !.answer = Pending]}

\* A request that will show the folder one stands in.
Leads(q) == q.kind = "folders" /\ q.arg = driveFolder

\* loadFolders: a folder that is gone leaves one at the root; what follows is
\* a drawing or the list.
FoldersArrive(r) ==
  /\ r.kind = "folders" /\ r.answer.served
  /\ IF r.answer.ok
     THEN /\ IF r.then = "render" THEN RenderDrive(driveData, r.arg, driveQuery, selectedDrive)
             ELSE folderData' = r.arg /\ UNCHANGED <<driveData, driveQuery, selectedDrive>>
          /\ overtaken' = IF r.arg # driveFolder /\ ~\E q \in calls \ {r} : Leads(q)
                          THEN overtaken \cup {"folders"} ELSE overtaken
          /\ UNCHANGED driveFolder
     ELSE /\ driveFolder' = Root
          /\ overtaken' = overtaken \cup {"folders"}
          /\ UNCHANGED <<folderData, driveData, driveQuery, selectedDrive>>
  /\ IF r.then = "list" THEN Follow(r, "list", 0, "render") ELSE Arrived(r)
  /\ UNCHANGED <<stored, shownSince, driveCursor, choice, driveActs>>

\* loadWorkspace: the first page replaces the list.
FirstPageArrives(r) ==
  /\ r.kind = "list" /\ r.answer.served
  /\ Arrived(r)
  /\ RenderDrive(r.answer.items, folderData, driveQuery, selectedDrive)
  /\ driveCursor' = r.answer.cursor
  /\ shownSince' = r.answer.at
  /\ overtaken' = IF \E q \in calls : q.kind = "more" THEN overtaken \cup {"more"} ELSE overtaken
  /\ UNCHANGED <<stored, driveFolder, choice, driveActs>>

Ids(items) == {items[i].id : i \in DOMAIN items}

\* loadMoreDrive: what is not on the list yet is appended.
MoreArrives(r) ==
  /\ r.kind = "more" /\ r.answer.served
  /\ Arrived(r)
  /\ LET items == r.answer.items
         fresh == {i \in DOMAIN items : items[i].id \notin Ids(driveData)}
     IN  RenderDrive(driveData \o Picked(items, fresh), folderData, driveQuery, selectedDrive)
  /\ driveCursor' = r.answer.cursor
  /\ UNCHANGED <<stored, driveFolder, shownSince, choice, driveActs, overtaken>>

\* A change was made: its document may be selected, and the list, or the tree
\* and then the list, is read again.  A refusal is only reported.
ChangeArrives(r) ==
  /\ r.kind \notin {"folders", "list", "more"} /\ r.answer.served
  /\ selectedDrive' = IF r.answer.ok /\ r.then = "select" THEN r.answer.id ELSE selectedDrive
  /\ choice' = IF r.answer.ok /\ r.then = "upload" THEN FALSE ELSE choice
  /\ IF ~r.answer.ok THEN Arrived(r)
     ELSE IF r.then \in {"upload", "folders"} THEN Follow(r, "folders", driveFolder, "list")
     ELSE Follow(r, "list", 0, "render")
  /\ UNCHANGED <<stored, driveFolder, folderData, driveData, shownSince, driveCursor,
                 driveQuery, driveActs, overtaken>>

\* A request fails on the way.
RequestFails(r) ==
  /\ Arrived(r)
  /\ overtaken' = IF Leads(r) THEN overtaken \cup {"folders"} ELSE overtaken
  /\ UNCHANGED <<stored, listing, driveQuery, choice, driveActs>>

---------------------------------------------------------------------------

DriveInit ==
  LET order == CHOOSE f \in [Existing -> 1 .. Cardinality(Existing)] :
                 \A d, e \in Existing : d # e => f[d] # f[e]
  IN  /\ parent = [d \in Entry |-> Root]
      /\ stamp = [d \in Entry |-> IF d \in Existing THEN order[d] ELSE 0]
      /\ changedAt = stamp
      /\ trashed = {} /\ gone = {}
      /\ driveFolder = Root /\ folderData = Root
      /\ driveData = Page(0).items
      /\ driveCursor = Page(0).cursor
      /\ shownSince = Time
      /\ selectedDrive = Chosen(InView(driveData, folderData, NoEntry), NoEntry)
      /\ driveQuery = NoEntry /\ choice = FALSE
      /\ calls = {} /\ driveActs = 0 /\ overtaken = {}

DriveNext ==
  \/ \E f \in Folders : GoToFolder(f) \/ MoveClick(f)
  \/ \E f \in Folder : OtherRemoves(f)
  \/ \E q \in Existing \cup {NoEntry} : TypeQuery(q)
  \/ \E d \in Entry : SelectEntry(d) \/ OtherWrites(d)
  \/ \E d \in Entry, verb \in {"trash", "restore", "purge"} : TrashClick(d, verb)
  \/ MoreClick \/ CreateClick \/ ChooseFile \/ ImportClick \/ CopyClick \/ RenameClick
  \/ \E r \in calls :
       \/ ServeRead(r) \/ ServeCreate(r) \/ ServeChange(r)
       \/ FoldersArrive(r) \/ FirstPageArrives(r) \/ MoreArrives(r) \/ ChangeArrives(r)
       \/ RequestFails(r)

---------------------------------------------------------------------------
(* Properties.                                                             *)

\* Types and bounds; no document is on the list twice, however often the next
\* page is called for and whatever is written meanwhile.
DriveTypeOK ==
  /\ driveFolder \in Folders /\ folderData \in Folders
  /\ selectedDrive \in Entry \cup {NoEntry}
  /\ driveActs \in 0 .. MaxDriveActs /\ Cardinality(calls) <= MaxDriveActs
  /\ \A i, k \in DOMAIN driveData : i # k => driveData[i].id # driveData[k].id

\* The pages leave nothing out: a document on the server that the cursor has
\* passed is on the list, or was written or brought back after the first page
\* was taken - unless the list was read again under a page that was on its way.
NothingSkipped ==
  "more" \notin overtaken =>
    \A d \in Entry : Visible(d) /\ stamp[d] >= driveCursor /\ changedAt[d] <= shownSince
                     => d \in Ids(driveData)

\* What is created lands in the folder on screen: with no folder request under
\* way the page shows the folder one stands in - unless answers came in another
\* order, one failed or the folder was gone.
StandsWhereShown ==
  "folders" \notin overtaken /\ (\A r \in calls : r.kind # "folders")
    => folderData = driveFolder

\* The list has no holes and belongs to the folder the page stands in.
BrowserInv == DriveTypeOK /\ NothingSkipped /\ StandsWhereShown
==============================================================================
