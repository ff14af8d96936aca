--------------------------- MODULE SurfaceEditors ---------------------------
(***************************************************************************)
(* The structured editors of interaction.js: the fields, buttons and grids *)
(* that edit the projected payload of a form, a document, a workbook or a  *)
(* deck in place, and the previews that draw it.  One payload is open at a *)
(* time and its kind never changes.  Text is its length; a range of it is  *)
(* two offsets; a picture, a range or a title is a small number.           *)
(***************************************************************************)
EXTENDS Naturals, Sequences, FiniteSets, SequencesExt, FiniteSetsExt, Picking

CONSTANTS
  MaxEdits,     \* bound: how often the person edits
  MaxText,      \* bound: the longest text that is typed
  Place,        \* cells of a grid the person works in
  Style         \* keys of a style the bar can set

ASSUME EditorsAssumption == MaxEdits \in Nat /\ MaxText \in Nat /\ Place # {}

VARIABLES
  kind,         \* item.kind
  fields,       \* forms/fields
  blocks,       \* docs/blocks
  tabs,         \* sheets/tabs, in the order Object.keys gives
  names,        \* sheets/named-ranges: the titles they name
  charts,       \* sheets/charts
  slides,       \* slides/slides
  tab, cell,    \* driveEditor.tab, driveEditor.cell
  slide, mode,  \* driveEditor.slide, driveEditor.mode
  edits         \* how often the person has edited

payload == <<fields, blocks, tabs, names, charts, slides>>
view    == <<tab, cell, slide, mode>>
surfaceVars    == <<kind, payload, view, edits>>

Absent     == 0          \* a null selection, an empty string
FieldType  == {"text", "choice"}
BlockKind  == {"paragraph", "code", "list", "table", "image", "table-ref"}
TextKinds  == {"heading", "paragraph", "quote", "code"}
RefKinds   == {"table-ref", "file-ref", "deck-ref"}
Mark       == {"bold", "italic", "link"}
ShapeKind  == {"text", "rect", "image", "table"}
Run        == [from : 0..MaxText, to : 0..MaxText, mark : Mark]
Field      == [id : Nat, type : FieldType, options : Nat]
Block      == [id : Nat, kind : BlockKind, hasText : BOOLEAN, text : 0..MaxText,
               runs : Seq(Run), items : Nat, rows : Seq(Nat)]
Cell       == [content : {"none", "value", "formula"}, style : SUBSET Style]
Tab        == [id : Nat, title : Nat, cells : UNION {[P -> Cell] : P \in SUBSET Place}]
Chart      == [id : Nat, title : Nat]
ShapeMark  == {"bold", "italic", "underline", "strikethrough"}
ShapeKey   == ShapeMark \cup {"font-size", "color", "hyperlink"}
Shape      == [id : Nat, shape : ShapeKind, keys : SUBSET ShapeKey, rows : Seq(Nat)]
Slide      == [id : Nat, shapes : Seq(Shape), notes : BOOLEAN]

Edit       == edits < MaxEdits /\ edits' = edits + 1 /\ UNCHANGED kind
Form       == mode = "structured"
Width(rows) == Max({1} \cup {rows[i] : i \in DOMAIN rows})
NoCells    == [p \in {} |-> [content |-> "none", style |-> {}]]
EmptyTab(id) == [id |-> id, title |-> id, cells |-> NoCells]
Value      == [content |-> "value", style |-> {}]
Put(cells, p, c)  == [q \in DOMAIN cells \cup {p} |-> IF q = p THEN c ELSE cells[q]]
Drop(cells, p)    == [q \in DOMAIN cells \ {p} |-> cells[q]]
StyleAt(cells, p) == IF p \in DOMAIN cells THEN cells[p].style ELSE {}
FirstFree(n, taken) == Min({m \in n..(n + Cardinality(taken)) : m \notin taken})

\* What the server answers for an imported list or table has no docs/text; a
\* workbook may come without a tab, or with its first one removed.
Imported(k, items, rows) ==
  [id |-> 1, kind |-> k, hasText |-> FALSE, text |-> 0, runs |-> <<>>, items |-> items, rows |-> rows]

SurfaceInit ==
  /\ kind \in {"forms", "docs", "sheets", "slides"}
  /\ fields = <<>> /\ names = {} /\ charts = <<>> /\ slides = <<>>
  /\ blocks \in {<<>>, <<Imported("list", 1, <<>>)>>, <<Imported("table", 0, <<1, 2>>)>>}
  /\ kind # "docs" => blocks = <<>>
  /\ tabs \in {<<>>, <<EmptyTab(1)>>, <<EmptyTab(2), [EmptyTab(3) EXCEPT !.cells = Put(NoCells, CHOOSE p \in Place : TRUE, Value)]>>}
  /\ kind # "sheets" => tabs = <<>>
  /\ tab = IF tabs = <<>> THEN Absent ELSE tabs[1].id
  /\ cell = Absent /\ slide = 1 /\ mode = "preview" /\ edits = 0

(***************************************************************************)
(* Forms.                                                                  *)
(***************************************************************************)

AddField ==
  /\ Form /\ kind = "forms" /\ Edit
  /\ fields' = Append(fields, [id |-> Len(fields) + 1, type |-> "text", options |-> 0])
  /\ UNCHANGED <<blocks, tabs, names, charts, slides, view>>

\* A field that becomes a choice gets its options box; one that stops being
\* one keeps its options.
EditField(i, type, options) ==
  /\ Form /\ kind = "forms" /\ Edit
  /\ i \in DOMAIN fields
  /\ options # fields[i].options => type = "choice" /\ fields[i].type = "choice"
  /\ fields' = [fields EXCEPT ![i].type = type, ![i].options = options]
  /\ UNCHANGED <<blocks, tabs, names, charts, slides, view>>

RemoveField(i) ==
  /\ Form /\ kind = "forms" /\ Edit
  /\ i \in DOMAIN fields
  /\ fields' = RemoveAt(fields, i)
  /\ UNCHANGED <<blocks, tabs, names, charts, slides, view>>

(***************************************************************************)
(* Documents.                                                              *)
(***************************************************************************)

\* Which of the rows docsEditor builds for a block.
ShownAs(b) ==
  IF b.kind \in RefKinds THEN "target"
  ELSE IF b.hasText \/ b.kind \in TextKinds THEN "text"
  ELSE b.kind

InDocs(i, row) == Form /\ kind = "docs" /\ Edit /\ i \in DOMAIN blocks /\ ShownAs(blocks[i]) = row
Rewrite(i, b)  == blocks' = [blocks EXCEPT ![i] = b] /\ UNCHANGED <<fields, tabs, names, charts, slides, view>>

AddBlock ==
  /\ Form /\ kind = "docs" /\ Edit
  /\ blocks' = Append(blocks, [id |-> Len(blocks) + 1, kind |-> "paragraph", hasText |-> TRUE,
                               text |-> 0, runs |-> <<>>, items |-> 0, rows |-> <<>>])
  /\ UNCHANGED <<fields, tabs, names, charts, slides, view>>

\* A picture chosen from a file becomes a block of its own.
AddPicture ==
  /\ Form /\ kind = "docs" /\ Edit
  /\ blocks' = Append(blocks, [Imported("image", 0, <<>>) EXCEPT !.id = Len(blocks) + 1])
  /\ UNCHANGED <<fields, tabs, names, charts, slides, view>>

RemoveBlock(i) ==
  /\ Form /\ kind = "docs" /\ Edit
  /\ i \in DOMAIN blocks
  /\ blocks' = RemoveAt(blocks, i)
  /\ UNCHANGED <<fields, tabs, names, charts, slides, view>>

SetBlockKind(i, k) ==
  /\ Form /\ kind = "docs" /\ Edit
  /\ i \in DOMAIN blocks
  /\ Rewrite(i, [blocks[i] EXCEPT !.kind = k])

\* Typing drops every run whose range no longer fits the text.
TypeText(i, n) ==
  /\ InDocs(i, "text")
  /\ Rewrite(i, [blocks[i] EXCEPT !.text = n, !.hasText = TRUE,
                                  !.runs = Picked(@, {j \in DOMAIN @ : @[j].to <= n})])

\* The offsets of a selection in the field.
Selected(i, from, to) ==
  from < to /\ to <= blocks[i].text

\* A mark over the selection; the same mark over the same range is taken off.
ToggleMark(i, from, to, mark) ==
  /\ InDocs(i, "text") /\ blocks[i].kind # "code" /\ Selected(i, from, to)
  /\ LET runs == blocks[i].runs
         same == {j \in DOMAIN runs : runs[j] = [from |-> from, to |-> to, mark |-> mark]}
     IN Rewrite(i, [blocks[i] EXCEPT !.runs =
          IF same # {} THEN RemoveAt(runs, Min(same))
          ELSE Append(runs, [from |-> from, to |-> to, mark |-> mark])])

\* A link over the selection is added whatever is there.
AddLink(i, from, to) ==
  /\ InDocs(i, "text") /\ blocks[i].kind # "code" /\ Selected(i, from, to)
  /\ Rewrite(i, [blocks[i] EXCEPT !.runs = Append(@, [from |-> from, to |-> to, mark |-> "link"])])

\* The chip of a run takes it off.
DropRun(i, j) ==
  /\ InDocs(i, "text") /\ j \in DOMAIN blocks[i].runs
  /\ Rewrite(i, [blocks[i] EXCEPT !.runs = RemoveAt(@, j)])

\* The items of a list are added and removed one at a time.
EditItems(i, n) ==
  /\ InDocs(i, "list") /\ n \in {blocks[i].items + 1, blocks[i].items - 1} \cap Nat
  /\ Rewrite(i, [blocks[i] EXCEPT !.items = n])

\* Typing in a table fills the row out to the widest one.
TypeInTable(i, r) ==
  /\ InDocs(i, "table") /\ r \in DOMAIN blocks[i].rows
  /\ Rewrite(i, [blocks[i] EXCEPT !.rows[r] = Width(blocks[i].rows)])

AddTableRow(i) ==
  /\ InDocs(i, "table")
  /\ Rewrite(i, [blocks[i] EXCEPT !.rows = Append(@, Width(@))])

\* A column is one more cell in every row; of no rows, absent ones count as
\* one empty row and emptied ones as none.
AddTableColumn(i) ==
  /\ InDocs(i, "table")
  /\ \E none \in {<<>>, <<1>>} :
       Rewrite(i, [blocks[i] EXCEPT !.rows = IF @ = <<>> THEN none ELSE [r \in DOMAIN @ |-> @[r] + 1]])

RemoveTableRow(i, r) ==
  /\ InDocs(i, "table") /\ r \in DOMAIN blocks[i].rows
  /\ Rewrite(i, [blocks[i] EXCEPT !.rows = RemoveAt(@, r)])

(***************************************************************************)
(* Workbooks.  driveEditor.tab is put on the first tab by a render that    *)
(* finds it on none.                                                       *)
(***************************************************************************)

TabIds      == {tabs[i].id : i \in DOMAIN tabs}
Current     == CHOOSE i \in DOMAIN tabs : tabs[i].id = tab
InSheets    == Form /\ kind = "sheets" /\ Edit
OnTab       == InSheets /\ tab # Absent
Grid(cells) == tabs' = [tabs EXCEPT ![Current].cells = cells]

\* A new tab takes the first free number and is the one on screen.
AddTab ==
  /\ InSheets
  /\ LET id == FirstFree(Len(tabs) + 1, TabIds)
     IN /\ tabs' = Append(tabs, EmptyTab(id))
        /\ tab' = id
  /\ UNCHANGED <<fields, blocks, names, charts, slides, cell, slide, mode>>

\* A tab is chosen in the editor or in the preview, which share driveEditor.tab.
SelectTab(i) ==
  /\ kind = "sheets" /\ Edit
  /\ i \in DOMAIN tabs
  /\ tab' = tabs[i].id
  /\ UNCHANGED <<payload, cell, slide, mode>>

RenameTab(title) ==
  /\ OnTab
  /\ tabs' = [tabs EXCEPT ![Current].title = title]
  /\ UNCHANGED <<fields, blocks, names, charts, slides, view>>

\* Offered while there is another tab to go back to.
RemoveTab ==
  /\ OnTab /\ Len(tabs) > 1
  /\ tabs' = RemoveAt(tabs, Current)
  /\ tab' = tabs'[1].id
  /\ UNCHANGED <<fields, blocks, names, charts, slides, cell, slide, mode>>

\* Typing replaces the content and keeps the style; emptying a cell without a
\* style removes it.
Typed(cells, p, content) ==
  IF content = "none" /\ StyleAt(cells, p) = {} THEN Drop(cells, p)
  ELSE Put(cells, p, [content |-> content, style |-> StyleAt(cells, p)])

\* The cursor goes into a cell, which is also the cell the style bar acts on.
TypeCell(p, content) ==
  /\ OnTab
  /\ cell' = p
  /\ Grid(Typed(tabs[Current].cells, p, content))
  /\ UNCHANGED <<fields, blocks, names, charts, slides, tab, slide, mode>>

\* A style with nothing in it is not stored, nor a cell with nothing in it.
Styled(cells, p, style) ==
  LET content == IF p \in DOMAIN cells THEN cells[p].content ELSE "none"
  IN IF style = {} /\ content = "none" THEN Drop(cells, p)
     ELSE Put(cells, p, [content |-> content, style |-> style])

\* The bar toggles one key of the style of the cell the cursor is in; the cell
\* stays the same one when another tab is shown.
SetStyle(k) ==
  /\ OnTab /\ cell # Absent
  /\ LET old == StyleAt(tabs[Current].cells, cell)
     IN Grid(Styled(tabs[Current].cells, cell, IF k \in old THEN old \ {k} ELSE old \cup {k}))
  /\ UNCHANGED <<fields, blocks, names, charts, slides, view>>

\* A name is given to a range of the tab on screen, by the title it has now.
AddName ==
  /\ OnTab
  /\ names' = names \cup {tabs[Current].title}
  /\ UNCHANGED <<fields, blocks, tabs, charts, slides, view>>

RemoveName(n) ==
  /\ OnTab
  /\ n \in names
  /\ names' = names \ {n}
  /\ UNCHANGED <<fields, blocks, tabs, charts, slides, view>>

ChartIds == {charts[i].id : i \in DOMAIN charts}

AddChart ==
  /\ OnTab
  /\ charts' = Append(charts, [id |-> FirstFree(Len(charts) + 1, ChartIds), title |-> tabs[Current].title])
  /\ UNCHANGED <<fields, blocks, tabs, names, slides, view>>

RemoveChart(i) ==
  /\ OnTab
  /\ i \in DOMAIN charts
  /\ charts' = RemoveAt(charts, i)
  /\ UNCHANGED <<fields, blocks, tabs, names, slides, view>>

(***************************************************************************)
(* Decks.                                                                  *)
(***************************************************************************)

InSlide(i)      == Form /\ kind = "slides" /\ Edit /\ i \in DOMAIN slides
Reshape(i, sh)  == slides' = [slides EXCEPT ![i].shapes = sh]
\* The cursor is in the card of the slide, which becomes driveEditor.slide.
Redo(i, j, sh)  ==
  /\ slide' = i
  /\ Reshape(i, [slides[i].shapes EXCEPT ![j] = sh])
  /\ UNCHANGED <<fields, blocks, tabs, names, charts, tab, cell, mode>>
InShape(i, j, shape) == InSlide(i) /\ j \in DOMAIN slides[i].shapes /\ slides[i].shapes[j].shape \in shape
NewShape(id, shape) ==
  [id |-> id, shape |-> shape, keys |-> IF shape = "text" THEN {"font-size"} ELSE {},
   rows |-> IF shape = "table" THEN <<2, 2>> ELSE <<>>]

AddSlide ==
  /\ Form /\ kind = "slides" /\ Edit
  /\ slides' = Append(slides, [id |-> Len(slides) + 1, shapes |-> <<>>, notes |-> FALSE])
  /\ UNCHANGED <<fields, blocks, tabs, names, charts, view>>

\* The cursor enters the card of a slide to press one of its buttons.
RemoveSlide(i) ==
  /\ InSlide(i)
  /\ slide' = i
  /\ slides' = RemoveAt(slides, i)
  /\ UNCHANGED <<fields, blocks, tabs, names, charts, tab, cell, mode>>

AddShape(i, shape) ==
  /\ InSlide(i)
  /\ slide' = i
  /\ Reshape(i, Append(slides[i].shapes, NewShape(Len(slides[i].shapes) + 1, shape)))
  /\ UNCHANGED <<fields, blocks, tabs, names, charts, tab, cell, mode>>

\* A mark of a text box is a key that is there or absent, never false.
MarkShape(i, j, mark) ==
  /\ InShape(i, j, {"text"})
  /\ Redo(i, j, [slides[i].shapes[j] EXCEPT !.keys = IF mark \in @ THEN @ \ {mark} ELSE @ \cup {mark}])

\* A size that is no positive number is no size.
SizeShape(i, j, number) ==
  /\ InShape(i, j, {"text"})
  /\ Redo(i, j, [slides[i].shapes[j] EXCEPT !.keys =
                   IF number THEN @ \cup {"font-size"} ELSE @ \ {"font-size"}])

\* A colour that is not six hexadecimal digits is dropped.
ColourShape(i, j, hex) ==
  /\ InShape(i, j, {"text"})
  /\ Redo(i, j, [slides[i].shapes[j] EXCEPT !.keys =
                   IF hex THEN @ \cup {"color"} ELSE @ \ {"color"}])

\* shapeLink: emptied it is removed, of another scheme it is as it was.
LinkShape(i, j, typed) ==
  /\ InShape(i, j, ShapeKind)
  /\ Redo(i, j, [slides[i].shapes[j] EXCEPT !.keys =
       CASE typed = "nothing" -> @ \ {"hyperlink"}
         [] typed = "refused" -> @
         [] OTHER -> @ \cup {"hyperlink"}])

\* The table of a slide is edited as that of a document is.
TypeInShapeTable(i, j, r) ==
  /\ InShape(i, j, {"table"}) /\ r \in DOMAIN slides[i].shapes[j].rows
  /\ Redo(i, j, [slides[i].shapes[j] EXCEPT !.rows[r] = Width(slides[i].shapes[j].rows)])

RemoveShapeRow(i, j, r) ==
  /\ InShape(i, j, {"table"}) /\ r \in DOMAIN slides[i].shapes[j].rows
  /\ Redo(i, j, [slides[i].shapes[j] EXCEPT !.rows = RemoveAt(@, r)])

AddShapeRow(i, j) ==
  /\ InShape(i, j, {"table"})
  /\ Redo(i, j, [slides[i].shapes[j] EXCEPT !.rows = Append(@, Width(@))])

AddShapeColumn(i, j) ==
  /\ InShape(i, j, {"table"})
  /\ Redo(i, j, [slides[i].shapes[j] EXCEPT !.rows = [r \in DOMAIN @ |-> @[r] + 1]])

\* Only a picture can be removed from a slide.
RemovePicture(i, j) ==
  /\ InSlide(i)
  /\ j \in DOMAIN slides[i].shapes /\ slides[i].shapes[j].shape = "image"
  /\ slide' = i
  /\ Reshape(i, RemoveAt(slides[i].shapes, j))
  /\ UNCHANGED <<fields, blocks, tabs, names, charts, tab, cell, mode>>

\* Notes of nothing but space are removed rather than stored.
EditNotes(i, some) ==
  /\ InSlide(i)
  /\ slide' = i
  /\ slides' = [slides EXCEPT ![i].notes = some]
  /\ UNCHANGED <<fields, blocks, tabs, names, charts, tab, cell, mode>>

(***************************************************************************)
(* Previews.                                                               *)
(***************************************************************************)

\* slidesPreview brings the index of the slide on stage into the deck.
OnStage(i) == IF slides = <<>> THEN i ELSE Min({Max({i, 1}), Len(slides)})

ShowSurface(m) ==
  /\ mode # m /\ Edit
  /\ mode' = m
  /\ slide' = IF m = "preview" /\ kind = "slides" THEN OnStage(slide) ELSE slide
  /\ UNCHANGED <<payload, tab, cell>>

\* A thumbnail is pressed.
ShowSlide(i) ==
  /\ mode = "preview" /\ kind = "slides" /\ Edit
  /\ i \in DOMAIN slides
  /\ slide' = OnStage(i)
  /\ UNCHANGED <<payload, tab, cell, mode>>

\* Mutant: a run is drawn from where it begins.
DrawRun_FromItsStart(done, r) ==
  IF r.to <= done.at THEN done
  ELSE [at |-> r.to,
        pieces |-> done.pieces \o (IF r.from > done.at THEN <<[from |-> done.at, to |-> r.from, run |-> FALSE]>> ELSE <<>>)
                     \o <<[from |-> r.from, to |-> r.to, run |-> TRUE]>>]

\* A run starts where the one before it ended; one that is over by then is
\* not drawn.
DrawRun(done, r) ==
  LET from == Max({done.at, r.from})
  IN IF r.to <= from THEN done
     ELSE [at |-> r.to,
           pieces |-> done.pieces \o (IF from > done.at THEN <<[from |-> done.at, to |-> from, run |-> FALSE]>> ELSE <<>>)
                        \o <<[from |-> from, to |-> r.to, run |-> TRUE]>>]

\* docText: the pieces a block's text is drawn in.
Drawn(b) ==
  LET sorted == Ordered(b.runs, [j \in DOMAIN b.runs |-> b.runs[j].from])
      done[k \in 0..Len(sorted)] == IF k = 0 THEN [at |-> 0, pieces |-> <<>>]
                                   ELSE DrawRun(done[k - 1], sorted[k])
      last   == done[Len(sorted)]
  IN last.pieces \o (IF last.at < b.text THEN <<[from |-> last.at, to |-> b.text, run |-> FALSE]>> ELSE <<>>)

(***************************************************************************)
(* The editors, and the properties they are checked for.                   *)
(***************************************************************************)

Forms ==
  \/ AddField
  \/ \E i \in DOMAIN fields :
       RemoveField(i) \/ \E type \in FieldType, n \in 0..1 : EditField(i, type, n)

Docs ==
  \/ AddBlock \/ AddPicture
  \/ \E i \in DOMAIN blocks :
       \/ RemoveBlock(i)
       \/ \E k \in BlockKind : SetBlockKind(i, k)
       \/ \E n \in 0..MaxText : TypeText(i, n)
       \/ \E from, to \in 0..MaxText :
            AddLink(i, from, to) \/ \E mark \in Mark \ {"link"} : ToggleMark(i, from, to, mark)
       \/ \E j \in DOMAIN blocks[i].runs : DropRun(i, j)
       \/ \E n \in 0..MaxEdits + 1 : EditItems(i, n)
       \/ AddTableRow(i) \/ AddTableColumn(i)
       \/ \E r \in DOMAIN blocks[i].rows : TypeInTable(i, r) \/ RemoveTableRow(i, r)

Sheets ==
  \/ AddTab \/ RemoveTab \/ AddName \/ AddChart
  \/ \E i \in DOMAIN tabs : SelectTab(i) \/ RenameTab(i)
  \/ \E p \in Place, c \in {"none", "value", "formula"} : TypeCell(p, c)
  \/ \E k \in Style : SetStyle(k)
  \/ \E n \in names : RemoveName(n)
  \/ \E i \in DOMAIN charts : RemoveChart(i)

Decks ==
  \/ AddSlide
  \/ \E i \in DOMAIN slides :
       \/ RemoveSlide(i) \/ ShowSlide(i)
       \/ \E sh \in ShapeKind : AddShape(i, sh)
       \/ \E j \in DOMAIN slides[i].shapes :
            \/ RemovePicture(i, j) \/ AddShapeRow(i, j) \/ AddShapeColumn(i, j)
            \/ \E mark \in ShapeMark : MarkShape(i, j, mark)
            \/ \E some \in BOOLEAN : SizeShape(i, j, some) \/ ColourShape(i, j, some)
            \/ \E typed \in {"nothing", "refused", "followed"} : LinkShape(i, j, typed)
            \/ \E r \in DOMAIN slides[i].shapes[j].rows : TypeInShapeTable(i, j, r) \/ RemoveShapeRow(i, j, r)
       \/ \E some \in BOOLEAN : EditNotes(i, some)

SurfaceNext == Forms \/ Docs \/ Sheets \/ Decks \/ \E m \in {"preview", "structured"} : ShowSurface(m)

SurfaceSpec == SurfaceInit /\ [][SurfaceNext]_surfaceVars

\* Types; the slide on stage is never before the first one, and every structured value
\* keeps the shape the server accepts, after any order of edits.
SurfaceTypeOK ==
  /\ kind \in {"forms", "docs", "sheets", "slides"}
  /\ fields \in Seq(Field) /\ blocks \in Seq(Block) /\ tabs \in Seq(Tab)
  /\ names \subseteq Nat /\ charts \in Seq(Chart) /\ slides \in Seq(Slide)
  /\ tab \in Nat /\ cell \in Place \cup {Absent} /\ slide \in Nat \ {0}
  /\ mode \in {"preview", "structured"}
  /\ edits \in 0..MaxEdits

\* A run never points outside its text and never at nothing, however the text
\* has been shortened and retyped since the run was made.
RunsFit ==
  \A i \in DOMAIN blocks : \A j \in DOMAIN blocks[i].runs :
    LET r == blocks[i].runs[j] IN r.from < r.to /\ r.to <= blocks[i].text

\* The preview draws every character once and in order, and in a run exactly
\* when some stored run covers it, however the runs overlap.
DrawnOnce ==
  \A i \in DOMAIN blocks :
    LET b == blocks[i]
        p == Drawn(b)
    IN /\ \A j \in DOMAIN p : p[j].from = (IF j = 1 THEN 0 ELSE p[j - 1].to) /\ p[j].from < p[j].to
       /\ b.text = (IF p = <<>> THEN 0 ELSE p[Len(p)].to)
       /\ \A c \in 0..(b.text - 1) :
            (\E j \in DOMAIN p : p[j].run /\ p[j].from <= c /\ c < p[j].to)
              <=> (\E k \in DOMAIN b.runs : b.runs[k].from <= c /\ c < b.runs[k].to)

\* Whatever is done, a tab that is not on screen keeps its cells and its
\* title: a tab added after others were removed replaces none.
OtherTabsKept ==
  [][\A i \in DOMAIN tabs : tabs[i].id # tab => tabs[i] \in {tabs'[j] : j \in DOMAIN tabs'}]_surfaceVars

\* A value typed never costs a cell its formatting, and formatting never costs
\* it its value.
ContentOrStyle ==
  [][\A i \in DOMAIN tabs, j \in DOMAIN tabs' : tabs[i].id = tabs'[j].id =>
       \A p \in Place :
         LET old == tabs[i].cells
             new == tabs'[j].cells
             content(c) == IF p \in DOMAIN c THEN c[p].content ELSE "none"
         IN content(old) = content(new) \/ StyleAt(old, p) = StyleAt(new, p)]_surfaceVars

\* No cell is stored that has neither content nor style, after any order of
\* typing, emptying and formatting: the export sees used cells only.
NoEmptyCells ==
  \A i \in DOMAIN tabs : \A p \in DOMAIN tabs[i].cells :
    tabs[i].cells[p].content # "none" \/ tabs[i].cells[p].style # {}

\* Two charts never share an id, by which the drawn picture is found.
ChartIdsUnique == Cardinality(ChartIds) = Len(charts)

\* While a deck is previewed the slide on stage is one of its slides, though
\* slides were removed while the index pointed past them.
StageHasSlide == kind = "slides" /\ mode = "preview" /\ slides # <<>> => slide \in DOMAIN slides

\* The payload stays well formed through any sequence of edits.
SurfaceInv ==
  SurfaceTypeOK /\ RunsFit /\ DrawnOnce /\ NoEmptyCells /\ ChartIdsUnique /\ StageHasSlide
=============================================================================
