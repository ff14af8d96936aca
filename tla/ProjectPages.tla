---------------------------- MODULE ProjectPages ----------------------------
(***************************************************************************)
(* The Projects and Sites pages of interaction.js: the project that is     *)
(* selected, its board and its sites, and the editor of one site's HTML.   *)
(* An answer is applied only if what it answers is still selected.         *)
(***************************************************************************)
EXTENDS Integers, FiniteSets

CONSTANTS
  Project,        \* projects, those still to be created included
  SiteNumber,     \* sites of a project
  MaxProjectActs  \* bound: clicks, lists read and page loads

ASSUME ProjectAssumption == MaxProjectActs \in Nat

VARIABLES
  projects, sites,          \* on the server
  html,                     \* on the server: the site whose text a site holds
  listed,                   \* localProjects
  selectedProject,          \* selectedProjectId, kept in localStorage
  boardOf,                  \* the project whose board is on screen
  rowsOf, rows,             \* the project whose sites are on screen, and these
  selectedSite, panel, box, \* selectedSiteId, its editor, and the site whose text is in it
  unread,                   \* ghost: sites whose text could not be read when last asked for
  disabled,                 \* buttons that are disabled
  asked,                    \* requests under way
  projectActs               \* clicks, lists and page loads so far

projectServer == <<projects, sites, html>>
boards        == <<listed, selectedProject, boardOf>>
siteRows      == <<rowsOf, rows>>
siteEditor    == <<selectedSite, panel, box, unread>>
projectVars   == <<projectServer, boards, siteRows, siteEditor, disabled, asked, projectActs>>

NoProject == "no project"
NoSite    == <<NoProject, 0>>
Failed    == "failed"
ProjectSite == Project \X SiteNumber
ASSUME NoProjectAssumption == {NoProject, Failed} \cap Project = {}

Reading(kind, p) == [kind |-> kind, project |-> p, site |-> NoSite, text |-> NoSite]
OfSite(kind, s, text) == [kind |-> kind, project |-> selectedProject, site |-> s, text |-> text]

Lists(p) == IF p = NoProject THEN {} ELSE {Reading("board", p), Reading("sites", p)}
ProjectAct == projectActs < MaxProjectActs /\ projectActs' = projectActs + 1
Asks(requests) == asked' = asked \cup requests
Ends(r, requests) == asked' = (asked \ {r}) \cup requests

ProjectInit ==
  /\ projects = {} /\ sites = {} /\ html = [s \in ProjectSite |-> s]
  /\ listed = {} /\ selectedProject = NoProject /\ boardOf = NoProject
  /\ rowsOf = NoProject /\ rows = {}
  /\ selectedSite = NoSite /\ panel = FALSE /\ box = NoSite /\ unread = {}
  /\ disabled = {} /\ asked = {} /\ projectActs = 0

\* The page is loaded; the selected project is remembered from before, and it reads
\* the projects.
Loaded ==
  /\ listed' = {} /\ boardOf' = NoProject /\ rowsOf' = NoProject /\ rows' = {}
  /\ selectedSite' = NoSite /\ panel' = FALSE /\ box' = NoSite /\ unread' = {}
  /\ disabled' = {} /\ asked' = {Reading("projects", NoProject)}

\* For the first time, whatever projects and sites exist and was selected last.
OpenProjectPage ==
  /\ projectActs = 0 /\ ProjectAct
  /\ projects' \in SUBSET Project
  /\ \E numbers \in SUBSET SiteNumber : sites' = projects' \X numbers
  /\ selectedProject' \in Project \cup {NoProject}
  /\ Loaded
  /\ UNCHANGED html

LoadProjectPage == projectActs > 0 /\ ProjectAct /\ Loaded /\ UNCHANGED <<projectServer, selectedProject>>

(***************************************************************************)
(* Projects and their boards.                                              *)
(***************************************************************************)
\* loadLocalProjects, for the page and after changes of the organisms.
ListProjects ==
  /\ projectActs > 0 /\ ProjectAct
  /\ Asks({Reading("projects", NoProject)})
  /\ UNCHANGED <<projectServer, boards, siteRows, siteEditor, disabled>>

\* renderLocalProjects, then the board and the sites of the selected one are read.
ProjectsArrive(r) ==
  /\ r.kind = "projects"
  /\ listed' = projects
  /\ IF selectedProject \in projects THEN UNCHANGED selectedProject
     ELSE selectedProject' \in IF projects = {} THEN {NoProject} ELSE projects
  /\ Ends(r, Lists(selectedProject'))
  /\ IF selectedProject' = NoProject
     THEN boardOf' = NoProject /\ rowsOf' = NoProject /\ rows' = {} /\ panel' = FALSE
     ELSE UNCHANGED <<boardOf, siteRows, panel>>
  /\ UNCHANGED <<projectServer, selectedSite, box, unread, disabled, projectActs>>

\* selectWorkspaceProject
SelectProject(p) ==
  /\ ProjectAct
  /\ p \in listed
  /\ selectedProject' = p /\ selectedSite' = NoSite /\ panel' = FALSE
  /\ Asks(Lists(p))
  /\ UNCHANGED <<projectServer, listed, boardOf, siteRows, box, unread, disabled>>

\* loadProjectBoard: the board of the selected project; a failure is drawn for any.
BoardArrives(r) ==
  /\ r.kind = "board"
  /\ boardOf' \in IF r.project = selectedProject /\ r.project \in projects
                  THEN {r.project, Failed}
                  ELSE {boardOf, Failed}
  /\ Ends(r, {})
  /\ UNCHANGED <<projectServer, listed, selectedProject, siteRows, siteEditor, disabled, projectActs>>

\* A card on the board that is on screen is moved, under the path of the selected project.
MoveIssue ==
  /\ ProjectAct
  /\ boardOf \in Project /\ selectedProject # NoProject
  /\ Asks({[Reading("move", selectedProject) EXCEPT !.text = <<boardOf, 0>>]})
  /\ UNCHANGED <<projectServer, boards, siteRows, siteEditor, disabled>>

\* The board is read again; a card of another project is not found.
MoveArrives(r) ==
  /\ r.kind = "move"
  /\ \E ok \in IF r.text[1] = r.project THEN BOOLEAN ELSE {FALSE} :
       Ends(r, IF ok THEN Lists(selectedProject) \ {Reading("sites", selectedProject)} ELSE {})
  /\ UNCHANGED <<projectServer, boards, siteRows, siteEditor, disabled, projectActs>>

\* The forms for a project, an issue and a site; their button is off until the answer.
Create(kind) ==
  /\ projectActs > 0 /\ ProjectAct
  /\ kind \notin disabled /\ (kind # "create project" => selectedProject # NoProject)
  /\ disabled' = disabled \cup {kind}
  /\ Asks({Reading(kind, selectedProject)})
  /\ UNCHANGED <<projectServer, boards, siteRows, siteEditor>>

\* event.currentTarget is null after the wait, so reset() throws: what was created is
\* on the server, the page says that it failed and reads nothing again.
CreateArrives(r) ==
  /\ r.kind \in {"create project", "create issue", "create site"}
  /\ \/ /\ r.kind = "create project"
        /\ \E p \in Project \ projects : projects' = projects \cup {p}
        /\ UNCHANGED sites
     \/ /\ r.kind = "create site" /\ r.project \in projects
        /\ \E n \in SiteNumber : sites' = sites \cup {<<r.project, n>>}
        /\ UNCHANGED projects
     \/ UNCHANGED <<projects, sites>>
  /\ disabled' = disabled \ {r.kind}
  /\ Ends(r, {})
  /\ UNCHANGED <<html, boards, siteRows, siteEditor, projectActs>>

(***************************************************************************)
(* Sites.                                                                  *)
(***************************************************************************)
\* loadSites: the sites of the selected project; a failure is drawn for any.
SitesArrive(r) ==
  /\ r.kind = "sites"
  /\ LET of == {s \in sites : s[1] = r.project}
     IN \/ /\ r.project = selectedProject
           /\ rowsOf' = r.project /\ rows' = of
           /\ IF selectedSite \in of THEN UNCHANGED <<selectedSite, panel>>
              ELSE selectedSite' = NoSite /\ panel' = IF selectedSite = NoSite THEN panel ELSE FALSE
        \/ r.project # selectedProject /\ UNCHANGED <<siteRows, selectedSite, panel>>
        \/ rowsOf' = Failed /\ rows' = {} /\ UNCHANGED <<selectedSite, panel>>
  /\ Ends(r, {})
  /\ UNCHANGED <<projectServer, boards, box, unread, disabled, projectActs>>

\* selectSite: the row of a list on screen, asked for in the selected project.
SelectSite(s) ==
  /\ ProjectAct
  /\ s \in rows
  /\ selectedSite' = s
  /\ Asks({OfSite("site", s, NoSite)})
  /\ UNCHANGED <<projectServer, boards, siteRows, panel, box, unread, disabled>>

\* Mutant: the text is put into the editor whichever site is selected by now.
Answers_Late(r) == r.project = selectedProject

\* The answer of selectSite is the one the selected site waits for.
Answers(r) == r.project = selectedProject /\ r.site = selectedSite

\* The text of a site; it may not be read, and is not found in another project.
SiteArrives(r) ==
  /\ r.kind = "site"
  /\ \E ok \in IF r.site \in sites /\ r.site[1] = r.project THEN BOOLEAN ELSE {FALSE} :
       /\ unread' = IF ok THEN unread \ {r.site} ELSE unread \cup {r.site}
       /\ IF ok /\ Answers(r) THEN panel' = TRUE /\ box' = r.site ELSE UNCHANGED <<panel, box>>
  /\ Ends(r, {})
  /\ UNCHANGED <<projectServer, boards, siteRows, selectedSite, disabled, projectActs>>

\* Save and Publish of the open editor.
SiteButton(kind) ==
  /\ ProjectAct
  /\ panel /\ kind \notin disabled /\ selectedSite # NoSite /\ selectedProject # NoProject
  /\ disabled' = disabled \cup {kind}
  /\ Asks({OfSite(kind, selectedSite, box)})
  /\ UNCHANGED <<projectServer, boards, siteRows, siteEditor>>

\* event.currentTarget is null in `finally`: the button stays disabled on this page.
SiteButtonArrives(r) ==
  /\ r.kind \in {"save", "publish"}
  /\ \E ok \in IF r.site[1] = r.project THEN BOOLEAN ELSE {FALSE} :
       /\ html' = IF ok /\ r.kind = "save" THEN [html EXCEPT ![r.site] = r.text] ELSE html
       /\ Ends(r, (IF ok THEN Lists(selectedProject) \ {Reading("board", selectedProject)} ELSE {})
                  \cup (IF ok /\ r.kind = "save" /\ selectedSite # NoSite
                        THEN {OfSite("site", selectedSite, NoSite)} ELSE {}))
  /\ UNCHANGED <<projects, sites, boards, siteRows, siteEditor, disabled, projectActs>>

ProjectNext ==
  \/ ListProjects \/ MoveIssue \/ OpenProjectPage \/ LoadProjectPage
  \/ \E p \in listed : SelectProject(p)
  \/ \E s \in rows : SelectSite(s)
  \/ \E kind \in {"create project", "create issue", "create site"} : Create(kind)
  \/ \E kind \in {"save", "publish"} : SiteButton(kind)
  \/ \E r \in asked :
       \/ ProjectsArrive(r) \/ BoardArrives(r) \/ MoveArrives(r) \/ CreateArrives(r)
       \/ SitesArrive(r) \/ SiteArrives(r) \/ SiteButtonArrives(r)

ProjectSpec == ProjectInit /\ [][ProjectNext]_projectVars

(***************************************************************************)
(* Properties.                                                             *)
(***************************************************************************)
\* Types; an open editor is that of a site of the selected project, however the
\* lists and the site were answered after the project was left.
ProjectTypeOK ==
  /\ projects \subseteq Project /\ sites \subseteq ProjectSite /\ html \in [ProjectSite -> ProjectSite]
  /\ listed \subseteq Project /\ selectedProject \in Project \cup {NoProject}
  /\ boardOf \in Project \cup {NoProject, Failed}
  /\ rowsOf \in Project \cup {NoProject, Failed} /\ rows \subseteq sites
  /\ \A s \in rows : s[1] = rowsOf
  /\ {box, selectedSite} \cup unread \subseteq ProjectSite \cup {NoSite}
  /\ projectActs \in 0..MaxProjectActs
  /\ panel => selectedSite # NoSite /\ selectedSite[1] = selectedProject

\* A board or a list of another project than the selected one is on screen only
\* while its own is under way: no late answer covers what was selected after it.
ShownIsSelected ==
  /\ boardOf \in Project => boardOf = selectedProject \/ Reading("board", selectedProject) \in asked
  /\ rowsOf \in Project => rowsOf = selectedProject \/ Reading("sites", selectedProject) \in asked

\* The text in the editor is that of the selected site, but while that is being read
\* or could not be read; only then does Save store a site's text under another site.
TextIsOfItsSite ==
  panel => \/ box = selectedSite \/ selectedSite \in unread
           \/ \E r \in asked : r.kind = "site" /\ r.site = selectedSite

\* What is on screen, and in the editor, is of what is selected.
ProjectInv == ProjectTypeOK /\ ShownIsSelected /\ TextIsOfItsSite
=============================================================================
