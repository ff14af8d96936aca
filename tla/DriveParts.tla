----------------------------- MODULE DriveParts -----------------------------
(***************************************************************************)
(* The Drive page as its four parts: the editor and its versions           *)
(* (DriveEditor), the list and the folders (DriveBrowser), the panels      *)
(* under a document (DocumentPanels) and the surfaces that edit a payload  *)
(* in place (SurfaceEditors).  The parts meet in the drawing of the page,  *)
(* which each of them has; a behaviour follows one part, chosen at its     *)
(* start, while the others rest.                                           *)
(***************************************************************************)
EXTENDS DriveEditor, DriveBrowser, DocumentPanels, SurfaceEditors

VARIABLE part

editing  == vars
browsing == driveVars
partVars == <<part, editing, browsing, panelVars, surfaceVars>>

PartsInit ==
  /\ part \in {"editor", "browser", "panels", "surfaces"}
  /\ Init /\ DriveInit /\ PanelInit /\ SurfaceInit
  /\ part # "panels" => panel = "pages"
  /\ part # "surfaces" => kind = "forms"

Editor   == part = "editor" /\ Next /\ UNCHANGED <<part, browsing, panelVars, surfaceVars>>
Browser  == part = "browser" /\ DriveNext /\ UNCHANGED <<part, editing, panelVars, surfaceVars>>
Panels   == part = "panels" /\ PanelNext /\ UNCHANGED <<part, editing, browsing, surfaceVars>>
Surfaces == part = "surfaces" /\ SurfaceNext /\ UNCHANGED <<part, editing, browsing, panelVars>>

PartsNext == Editor \/ Browser \/ Panels \/ Surfaces

PartsSpec == PartsInit /\ [][PartsNext]_partVars

\* What was typed survives what is drawn or changed beside it: redrawings of
\* the pane, edits of another tab, edits of the other half of a cell.
EditsKept == RedrawKeepsEdits /\ OtherTabsKept /\ ContentOrStyle
=============================================================================
