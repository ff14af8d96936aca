--------------------------- MODULE DocumentPanels ---------------------------
(***************************************************************************)
(* The panels under an open document of the Drive page: the pages of a     *)
(* PDF, references, suggestions, comments, sharing and the answers of a    *)
(* form (interaction.js), over documents.cljk.                             *)
(*                                                                         *)
(* The pane is rebuilt by every drawing of the list - a key in the search  *)
(* box is one - and each rebuilding makes new panels that ask for their    *)
(* content again; the old ones are off the page but still get their        *)
(* answers.  The panels share nothing but the selection and the pane, so a *)
(* behaviour follows one of them, chosen at its start.                     *)
(***************************************************************************)
EXTENDS Integers, FiniteSets, FiniteSetsExt

CONSTANTS
  Paper,         \* documents with the panel
  LastPage,      \* the index of the last page of a PDF
  MaxPanelActs   \* bound: clicks, redraws and the colleague's writes

ASSUME PanelAssumption == Paper # {} /\ LastPage \in Nat \ {0} /\ MaxPanelActs \in Nat

VARIABLES
  panel,        \* which panel the behaviour follows
  paper,        \* server: what is beside each document
  opened,       \* the selected document
  built,         \* how often the pane has been built
  shownList,    \* what the panel on the page shows
  sendOn,       \* its button that sends an answer or makes a delivery
  marked,       \* the marks of comments in the editor
  pageView,     \* pageState: of each document, whatever pane shows it
  figure,       \* the page on the panel on the page, with its two buttons
  pagesAsked,   \* (history) page requests of each document less its turns
  linkKeys,     \* sessionStorage: the fragment keys of share links
  keysGiven,    \* (history) links whose key has come
  posted,       \* requests and their answers under way
  panelActs,    \* clicks, redraws and writes so far
  slips         \* (history) what the page does not promise to survive

screen    == <<shownList, sendOn, marked, figure>>
pageVars  == <<pageView, pagesAsked>>
keyVars   == <<linkKeys, keysGiven>>
panelVars == <<panel, paper, opened, built, screen, pageVars, keyVars, posted, panelActs, slips>>

NotYet == [loaded |-> FALSE]
NoPage == -1
Blank(on) == [page |-> NoPage, prev |-> on, next |-> on]
Panel == {"pages", "references", "suggestions", "comments", "sharing", "answers"}
Link == 1 .. MaxPanelActs

Acts == panelActs < MaxPanelActs /\ panelActs' = panelActs + 1
Asking(kind, verb, arg) ==
  [n |-> panelActs, kind |-> kind, verb |-> verb, arg |-> arg, paper |-> opened, built |-> built,
   turn |-> 0, ok |-> FALSE, body |-> NotYet]
OnPage(r) == r.built = built
Served(r) == r.turn > 0

---------------------------------------------------------------------------
(* The server.  Beside a document are a comment thread with its replies,   *)
(* a block's text with the suggestions about it, links, grants and the     *)
(* answers of a form.                                                      *)

Aside == [loaded |-> TRUE, thread |-> "none", replies |-> 0, text |-> 0,
          proposals |-> {}, links |-> {}, grant |-> FALSE, answers |-> 0]

\* comment!, resolve-comment! and delete-comment!.
Commented(s, verb, wanted) ==
  CASE verb = "comment" -> [ok |-> s.thread = "none", to |-> [s EXCEPT !.thread = "open"]]
    [] verb = "reply" -> [ok |-> s.thread = "open", to |-> [s EXCEPT !.replies = @ + 1]]
    [] verb = "resolve" -> [ok |-> s.thread # "none",
                            to |-> [s EXCEPT !.thread = IF wanted = 1 THEN "resolved" ELSE "open"]]
    [] verb = "delete" -> [ok |-> s.thread # "none",
                           to |-> [s EXCEPT !.thread = "none", !.replies = 0]]

Settled(s, p, status) ==
  [s EXCEPT !.proposals = (@ \ {p}) \cup {[p EXCEPT !.status = status, !.replaced = s.text]}]

\* accept-suggestion!: only of an open suggestion whose block says what it said.
Accepted(s, p) ==
  [ok |-> p.status = "open" /\ p.before = s.text,
   to |-> [Settled(s, p, "accepted") EXCEPT !.text = p.n]]

\* suggest!, accept-suggestion! and reject-suggestion!.
Suggested(s, verb, n) ==
  IF verb = "suggest"
  THEN [ok |-> TRUE,
        to |-> [s EXCEPT !.proposals =
                  @ \cup {[n |-> n, before |-> s.text, replaced |-> 0, status |-> "open"]}]]
  ELSE LET p == CHOOSE q \in s.proposals : q.n = n
       IN  IF verb = "accept" THEN Accepted(s, p)
           ELSE [ok |-> p.status = "open", to |-> Settled(s, p, "rejected")]

\* grant!, revoke-grant!, create-link! and revoke-link!.
Shared(s, verb, n) ==
  [ok |-> TRUE,
   to |-> CASE verb = "grant" -> [s EXCEPT !.grant = TRUE]
            [] verb = "revoke" -> [s EXCEPT !.grant = FALSE]
            [] verb = "link" -> [s EXCEPT !.links = @ \cup {n}]
            [] verb = "revoke-link" -> [s EXCEPT !.links = @ \ {n}]]

\* submit!; a delivery changes nothing the panel lists.
Submitted(s, verb) ==
  [ok |-> TRUE, to |-> IF verb = "answer" THEN [s EXCEPT !.answers = @ + 1] ELSE s]

Outcome(s, verb, arg) ==
  CASE verb \in {"comment", "reply", "resolve", "delete"} -> Commented(s, verb, arg)
    [] verb \in {"suggest", "accept", "reject"} -> Suggested(s, verb, arg)
    [] verb \in {"grant", "revoke", "link", "revoke-link"} -> Shared(s, verb, arg)
    [] OTHER -> Submitted(s, verb)

\* The order in which the answers on their way to one panel were given.
NextTurn(r) == 1 + Max({0} \cup {q.turn : q \in {p \in posted : p.built = r.built}})

\* The server takes a request: a read of what is there, a page, or a change.
Serve(r) ==
  /\ ~Served(r)
  /\ LET s == paper[r.paper]
         change == Outcome(s, r.verb, r.arg)
         fine == r.kind # "post" \/ change.ok
         after == IF r.kind = "post" /\ fine THEN change.to ELSE s
     IN  /\ paper' = [paper EXCEPT ![r.paper] = after]
         /\ posted' = (posted \ {r})
              \cup {[r EXCEPT !.turn = NextTurn(r), !.ok = fine,
                              !.body = after]}
  /\ UNCHANGED <<panel, opened, built, screen, pageVars, keyVars, panelActs, slips>>

\* A colleague resolves or reopens the thread, rewrites the block, declines a
\* suggestion or answers the form: the panels are not told.
ColleagueWrites ==
  /\ Acts /\ built > 0
  /\ \E c \in {Commented(paper[opened], "resolve", 0), Commented(paper[opened], "resolve", 1),
               Submitted(paper[opened], "answer"),
               [ok |-> TRUE, to |-> [paper[opened] EXCEPT !.text = MaxPanelActs + panelActs]]} :
       /\ c.ok /\ c.to # paper[opened]
       /\ paper' = [paper EXCEPT ![opened] = c.to]
  /\ panel \in {"comments", "suggestions", "answers"}
  /\ slips' = slips \cup {"colleague"}
  /\ UNCHANGED <<panel, opened, built, screen, pageVars, keyVars, posted>>

---------------------------------------------------------------------------
(* The pane.                                                                *)

\* pagePanel's draw: without a page the buttons stay as they were.
DrawPage(v, was) ==
  IF v.failed THEN [page |-> NoPage, prev |-> FALSE, next |-> FALSE]
  ELSE IF v.doc = NoPage THEN [was EXCEPT !.page = NoPage]
  ELSE [page |-> v.doc, prev |-> v.index > 0, next |-> v.index < LastPage]

NewPages == [index |-> 0, doc |-> NoPage, loading |-> FALSE, failed |-> FALSE]

Unseen(v) == v.doc = NoPage /\ ~v.loading /\ ~v.failed

\* load of pagePanel: once at a time.
LoadPage(d, v) ==
  IF v.loading
  THEN [view |-> v, requests |-> {}]
  ELSE [view |-> [v EXCEPT !.loading = TRUE],
        requests |-> {[Asking("page", "none", v.index) EXCEPT !.paper = d]}]

\* What a panel that is gone has asked for still matters: pages are kept for the
\* document, a comment list draws marks, a settled suggestion draws the list.
\* Every other read would be drawn where nobody sees it and is left out.
StillMatters(r) == panel = "comments" \/ r.kind \in {"page", "post", "drive"} \/ r.verb = "workspace"

\* renderDrive: new panels for the selected document d, with their requests.
Build(d, requests) ==
  /\ opened' = d /\ built' = built + 1
  /\ shownList' = NotYet /\ marked' = FALSE
  /\ sendOn' = (panel # "answers")
  /\ LET others == {r \in requests : StillMatters(r)}
         ask(kind) == [Asking(kind, "none", 0) EXCEPT !.paper = d, !.built = built + 1]
         page == IF Unseen(pageView[d]) THEN LoadPage(d, pageView[d])
                 ELSE [view |-> pageView[d], requests |-> {}]
     IN  IF panel = "pages"
         THEN /\ pageView' = [pageView EXCEPT ![d] = page.view]
              /\ figure' = DrawPage(pageView[d], Blank(TRUE))
              /\ posted' = others \cup {[p EXCEPT !.built = built + 1] : p \in page.requests}
              /\ pagesAsked' = [pagesAsked EXCEPT ![d] = @ + Cardinality(page.requests)]
              /\ slips' = IF pageView[d].loading THEN slips \cup {"rebuilt"} ELSE slips
         ELSE /\ posted' = others \cup {ask("read")}
                                  \cup (IF panel = "answers" THEN {ask("form")} ELSE {})
              /\ UNCHANGED <<pageVars, figure, slips>>

\* A key in the search box, or another row of the list.
Redraw(d) ==
  /\ Acts /\ (built = 0 => d = opened)
  /\ Build(d, posted)
  /\ UNCHANGED <<panel, paper, keyVars>>

\* renderPane: the editor alone is drawn again, without marks.
DrawEditor ==
  /\ marked
  /\ marked' = FALSE
  /\ UNCHANGED <<panel, paper, opened, built, shownList, sendOn, pageVars, figure, keyVars,
                 posted, panelActs, slips>>

\* go of pagePanel: without a page the count is taken to be one.
Turn(delta) ==
  /\ panel = "pages" /\ Acts
  /\ IF delta = 1 THEN figure.next ELSE figure.prev
  /\ LET v == pageView[opened]
         last == IF v.doc = NoPage THEN 0 ELSE LastPage
         to == CHOOSE i \in 0 .. last :
                 \A k \in 0 .. last : (i - v.index - delta) * (i - v.index - delta)
                                       <= (k - v.index - delta) * (k - v.index - delta)
         turned == [v EXCEPT !.index = to, !.doc = NoPage]
         page == LoadPage(opened, turned)
     IN  IF to = v.index
         THEN UNCHANGED <<pageVars, figure, posted, slips>>
         ELSE /\ pageView' = [pageView EXCEPT ![opened] = page.view]
              /\ figure' = DrawPage(turned, figure)
              /\ posted' = posted \cup page.requests
              /\ pagesAsked' = [pagesAsked EXCEPT ![opened] = @ + Cardinality(page.requests) - 1]
              /\ slips' = IF v.loading THEN slips \cup {"turned"} ELSE slips
  /\ UNCHANGED <<panel, paper, opened, built, shownList, sendOn, marked, keyVars>>

\* The page, or the server's sentence why there is none: kept for the document,
\* drawn on the panel that asked.
PageArrives(r) ==
  /\ r.kind = "page"
  /\ LET v == IF Served(r)
              THEN [pageView[r.paper] EXCEPT !.doc = r.arg, !.failed = FALSE, !.loading = FALSE]
              ELSE [pageView[r.paper] EXCEPT !.failed = TRUE, !.loading = FALSE]
     IN  /\ pageView' = [pageView EXCEPT ![r.paper] = v]
         /\ figure' = IF OnPage(r) THEN DrawPage(v, figure) ELSE figure
  /\ posted' = posted \ {r}
  /\ UNCHANGED <<panel, paper, opened, built, shownList, sendOn, marked, pagesAsked, keyVars,
                 panelActs, slips>>

---------------------------------------------------------------------------
(* The buttons the panels offer.                                           *)

\* commentPanel's form and the rows its render makes: the resolve button asks
\* for the opposite of what it shows, and a resolved thread has no reply box.
CommentButtons ==
  IF ~shownList.loaded \/ shownList.thread = "none" THEN {<<"comment", 0>>}
  ELSE {<<"delete", 0>>, <<"resolve", IF shownList.thread = "open" THEN 1 ELSE 0>>}
       \cup (IF shownList.thread = "open" THEN {<<"reply", 0>>} ELSE {})

\* suggestionPanel: its form, and accept and decline on what is shown as open.
SuggestionButtons ==
  {<<"suggest", panelActs + 1>>}
  \cup (IF ~shownList.loaded THEN {}
        ELSE {"accept", "reject"} \X {p.n : p \in {q \in shownList.proposals : q.status = "open"}})

\* sharingPanel: its forms, and the button that takes back each entry.
SharingButtons ==
  {<<"grant", 0>>, <<"link", panelActs + 1>>}
  \cup (IF sendOn THEN {<<"deliver", 0>>} ELSE {})
  \cup (IF ~shownList.loaded THEN {}
        ELSE {"revoke-link"} \X shownList.links
             \cup (IF shownList.grant THEN {<<"revoke", 0>>} ELSE {}))

\* answerPanel: the send button alone.
AnswerButtons == IF sendOn THEN {<<"answer", 0>>} ELSE {}

\* referencePanel: the other document, once the references have come.
ReferenceButtons ==
  IF shownList.loaded THEN {"jump"} \X (Paper \ {opened}) ELSE {}

Offered ==
  CASE built = 0 -> {}
    [] panel = "comments" -> CommentButtons
    [] panel = "suggestions" -> SuggestionButtons
    [] panel = "sharing" -> SharingButtons
    [] panel = "answers" -> AnswerButtons
    [] OTHER -> {}

\* Sending an answer and making a delivery disable their button.
Pressed(verb) == sendOn /\ verb \notin {"answer", "deliver"}

Press(verb, arg) ==
  /\ Acts
  /\ <<verb, arg>> \in Offered
  /\ posted' = posted \cup {Asking("post", verb, arg)}
  /\ sendOn' = Pressed(verb)
  /\ UNCHANGED <<panel, paper, opened, built, shownList, marked, pageVars, figure, keyVars, slips>>

\* A reference jumps to the document it names.
Jump(d) ==
  /\ panel = "references" /\ Acts
  /\ <<"jump", d>> \in ReferenceButtons
  /\ Build(d, posted)
  /\ UNCHANGED <<panel, paper, keyVars>>

---------------------------------------------------------------------------
(* Answers.                                                                *)

\* An answer given earlier is still on its way to the same panel.
Overtaken(r) ==
  \E q \in posted \ {r} : q.paper = r.paper /\ q.built = r.built /\ Served(q) /\ q.turn < r.turn

Slip(r) == IF Overtaken(r) THEN slips \cup {"overtaken"} ELSE slips

\* reload of commentPanel: what is resolved is left out.
MarkOf(s) == s.thread = "open"

\* The list comes.  The marks are set across the page, whichever panel asked.
ListComes(r) ==
  /\ r.kind = "read" /\ Served(r)
  /\ shownList' = IF OnPage(r) THEN r.body ELSE shownList
  /\ marked' = IF panel = "comments" THEN MarkOf(r.body) ELSE marked
  /\ slips' = IF OnPage(r) THEN Slip(r) ELSE slips \cup {"strayed"}
  /\ IF r.verb = "workspace"
     THEN posted' = (posted \ {r}) \cup {[r EXCEPT !.kind = "drive", !.turn = 0]}
     ELSE posted' = posted \ {r}
  /\ UNCHANGED <<panel, paper, opened, built, sendOn, pageVars, figure, keyVars, panelActs>>

\* The questions of a form: only then may they be answered.
FormComes(r) ==
  /\ r.kind = "form" /\ Served(r)
  /\ sendOn' = IF OnPage(r) THEN TRUE ELSE sendOn
  /\ posted' = posted \ {r}
  /\ UNCHANGED <<panel, paper, opened, built, shownList, marked, pageVars, figure, keyVars,
                 panelActs, slips>>

\* loadWorkspace after a suggestion was settled.
DriveComes(r) ==
  /\ r.kind = "drive" /\ Served(r)
  /\ Build(opened, posted \ {r})
  /\ UNCHANGED <<panel, paper, keyVars, panelActs>>

\* Mutant: the list is not read again.
Reread_Not(r) == {}
\* What a panel does after a change went through: comments, suggestions and the
\* answers of a form are read again.
Reread(r) ==
  IF panel \in {"comments", "suggestions", "answers"}
  THEN {[r EXCEPT !.kind = "read", !.turn = 0,
                  !.verb = IF r.verb \in {"accept", "reject"} THEN "workspace" ELSE "none"]}
  ELSE {}

\* A new link's key is kept in the session, a dead one's removed.
KeysAfter(r) ==
  CASE r.verb = "link" /\ r.ok -> linkKeys \cup {r.arg}
    [] r.verb = "revoke-link" /\ r.ok -> linkKeys \ {r.arg}
    [] OTHER -> linkKeys

\* A change was answered, or the answer or the request was lost.
PostComes(r) ==
  /\ r.kind = "post"
  /\ \E ok \in {FALSE, r.ok} :
       /\ linkKeys' = KeysAfter([r EXCEPT !.ok = ok])
       /\ keysGiven' = IF ok /\ r.verb = "link" THEN keysGiven \cup {r.arg} ELSE keysGiven
       /\ posted' = (posted \ {r}) \cup (IF ok THEN Reread(r) ELSE {})
       /\ shownList' = IF ok /\ panel = "sharing" /\ r.verb # "deliver" /\ OnPage(r)
                       THEN r.body ELSE shownList
       /\ slips' = IF ok # r.ok \/ ~Served(r) THEN slips \cup {"lost"}
                   ELSE IF ~OnPage(r) THEN slips \cup {"detached"}
                   ELSE IF panel = "sharing" /\ r.verb # "deliver" THEN Slip(r) ELSE slips
  /\ sendOn' = IF OnPage(r) /\ r.verb \in {"answer", "deliver"} THEN TRUE ELSE sendOn
  /\ UNCHANGED <<panel, paper, opened, built, marked, pageVars, figure, panelActs>>

\* A read is lost: the panel stays as it is; the flow after it goes on.
ReadIsLost(r) ==
  /\ r.kind \in {"read", "form", "drive"}
  /\ IF r.kind = "read" /\ r.verb = "workspace"
     THEN posted' = (posted \ {r}) \cup {[r EXCEPT !.kind = "drive", !.turn = 0]}
     ELSE posted' = posted \ {r}
  /\ slips' = slips \cup {"lost"}
  /\ UNCHANGED <<panel, paper, opened, built, screen, pageVars, keyVars, panelActs>>

---------------------------------------------------------------------------

PanelInit ==
  /\ panel \in Panel
  /\ paper = [d \in Paper |-> Aside]
  /\ opened = CHOOSE d \in Paper : TRUE
  /\ built = 0 /\ panelActs = 0
  /\ shownList = NotYet /\ marked = FALSE /\ sendOn = (panel # "answers")
  /\ pageView = [d \in Paper |-> NewPages] /\ figure = Blank(FALSE)
  /\ pagesAsked = [d \in Paper |-> 0]
  /\ linkKeys = {} /\ keysGiven = {} /\ slips = {}
  /\ posted = {}

PanelNext ==
  \/ \E d \in Paper : Redraw(d) \/ Jump(d)
  \/ DrawEditor
  \/ ColleagueWrites
  \/ \E delta \in {-1, 1} : Turn(delta)
  \/ \E b \in Offered : Press(b[1], b[2])
  \/ \E r \in posted :
       \/ Serve(r)
       \/ PageArrives(r) \/ ListComes(r) \/ FormComes(r) \/ DriveComes(r) \/ PostComes(r)
       \/ ReadIsLost(r)

---------------------------------------------------------------------------
(* Properties.                                                             *)

\* Types and bounds; a panel sends one answer, or makes one delivery, at a time.
PanelTypeOK ==
  /\ panel \in Panel /\ opened \in Paper
  /\ panelActs \in 0 .. MaxPanelActs
  /\ linkKeys \subseteq Link
  /\ \A r, q \in {p \in posted : p.verb \in {"answer", "deliver"} /\ p.kind = "post"} :
       r.built = q.built => r = q

\* However often the pane is rebuilt - a key in the search box does it - a
\* document's pages are asked for once, and once more for each turn.
PagesAskedOnce == \A d \in Paper : pagesAsked[d] <= 1

\* With nothing under way a panel shows what the server has: after every change
\* of one's own, in whatever order the first list, the answer and the pane's
\* rebuilding came - unless an answer was lost or overtaken, a colleague wrote,
\* or the page was turned or the pane rebuilt while a page was coming.
PanelsSettle ==
  posted = {} /\ built > 0 /\ slips \subseteq {"strayed"} =>
    IF panel = "pages"
    THEN figure.page = pageView[opened].index \/ pageView[opened].failed
    ELSE shownList = paper[opened]

\* A dot stands on what an open thread points at: resolved or deleted ones have
\* none - unless the answer of a panel that is gone drew the marks.
MarksAreOpen ==
  marked /\ slips \cap {"strayed", "lost", "overtaken"} = {} => shownList.thread = "open"

\* An accepted suggestion replaced the text it was written about, whoever wrote
\* in between and however often its button was pressed.
AppliedToItsText ==
  \A d \in Paper : \A p \in paper[d].proposals : p.status = "accepted" => p.replaced = p.before

\* A link that works and was made in this session keeps its key: no refused or
\* lost revocation leaves a link that nobody can open.
LiveLinksKeepKeys ==
  \A d \in Paper : paper[d].links \cap keysGiven \subseteq linkKeys

\* Panels agree with the server in the end, mark their own document, and act
\* on the text they show.
PanelInv ==
  PanelTypeOK /\ PagesAskedOnce /\ PanelsSettle /\ MarksAreOpen /\ AppliedToItsText
  /\ LiveLinksKeepKeys
==============================================================================
