--------------------------- MODULE ResumeRender ---------------------------
(***************************************************************************)
(* render_document_pdf: cutting a document's rows into pages, then laying  *)
(* the pages out as numbered PDF objects that refer to one another.        *)
(*                                                                         *)
(* All columns of a row are cut at the same index, so a row is its height, *)
(* the number of lines of its longest column, and a document is a sequence *)
(* of source pages, each a sequence of row heights.  One step is one turn  *)
(* of a loop of the code.                                                  *)
(***************************************************************************)
EXTENDS Integers, Sequences

CONSTANTS Documents,    \* the documents to render
          PageLines     \* numbers of lines a page can hold

ASSUME RenderAssumption ==
  /\ PageLines \subseteq Nat \ {0}
  /\ Documents \subseteq Seq(Seq(Nat))
  /\ \A d \in Documents : Len(d) > 0 /\ \A i \in DOMAIN d : Len(d[i]) > 0

VARIABLES doc, available,   \* the input
          phase,            \* "idle", "rows", "objects" or "done"
          source, row,      \* the first pending row: doc[source][row]
          taken,            \* lines of it that are already placed
          page,             \* the page being filled: a sequence of slices
          remaining,        \* lines left on it
          pages,            \* the finished pages
          objects,          \* the list of PDF objects; entry 1 is a dummy
          contentIds, pageIds,  \* the ids noted while the list grows
          root              \* the id the trailer names, 0 before

input == <<doc, available>>
layout == <<source, row, taken, page, remaining, pages>>
file == <<objects, contentIds, pageIds, root>>
renderVars == <<input, phase, layout, file>>

Slice(from, to) == [source |-> source, row |-> row, from |-> from, to |-> to]

Blank == [type |-> "blank", refs |-> {}]

Ref(role, id) == [role |-> role, id |-> id]

RenderInit ==
  /\ doc = <<>> /\ available = 0
  /\ phase = "idle"
  /\ source = 1 /\ row = 1 /\ taken = 0
  /\ page = <<>> /\ remaining = 0 /\ pages = <<>>
  /\ objects = <<Blank>> /\ contentIds = <<>> /\ pageIds = <<>> /\ root = 0

---------------------------------------------------------------------------
(* _paginate_rows *)

(* The renderer is called with a document, whose style and paper size      *)
(* leave room for so many lines on a page.                                 *)
StartRender(d, lines) ==
  /\ phase = "idle" /\ phase' = "rows"
  /\ doc' = d /\ available' = lines /\ remaining' = lines
  /\ UNCHANGED <<source, row, taken, page, pages, file>>

Pending == source <= Len(doc) /\ row <= Len(doc[source])

Height == doc[source][row] - taken

CapacityUnbounded == remaining + 1            \* mutant: one line too many

Capacity == LET free == remaining - (IF page = <<>> THEN 0 ELSE 1)
            IN  IF free > 1 THEN free ELSE 1

Take == IF Height < Capacity THEN Height ELSE Capacity

PlaceRowAndAdvance ==                         \* mutant: rest of the row lost
  /\ phase = "rows" /\ Pending
  /\ page' = Append(page, Slice(taken, taken + Take))
  /\ remaining' = remaining - (Take + 1)
  /\ row' = row + 1 /\ taken' = 0
  /\ UNCHANGED <<input, phase, source, pages, file>>

(* Place as much of the first pending row as fits, with the line between   *)
(* rows, and turn the page when it is full or the row is not finished.     *)
PlaceRow ==
  /\ phase = "rows" /\ Pending
  /\ LET placed  == Append(page, Slice(taken, taken + Take))
         rest    == remaining - (Take + 1)
         rowDone == taken + Take = doc[source][row]
         turn    == rest <= 0 \/ ~rowDone
     IN  /\ row' = IF rowDone THEN row + 1 ELSE row
         /\ taken' = IF rowDone THEN 0 ELSE taken + Take
         /\ page' = IF turn THEN <<>> ELSE placed
         /\ pages' = IF turn THEN Append(pages, placed) ELSE pages
         /\ remaining' = IF turn THEN available ELSE rest
  /\ UNCHANGED <<input, phase, source, file>>

EndSourcePageAgain ==                         \* mutant: the page is not popped
  /\ phase = "rows" /\ source <= Len(doc) /\ ~Pending
  /\ pages' = IF page = <<>> THEN pages ELSE Append(pages, page)
  /\ page' = <<>> /\ remaining' = available
  /\ UNCHANGED <<input, phase, source, row, taken, file>>

(* A source page ends the page it shares with no other source page.        *)
EndSourcePage ==
  /\ phase = "rows" /\ source <= Len(doc) /\ ~Pending
  /\ pages' = IF page = <<>> THEN pages ELSE Append(pages, page)
  /\ page' = <<>> /\ remaining' = available
  /\ source' = source + 1 /\ row' = 1
  /\ UNCHANGED <<input, phase, taken, file>>

EndPagination ==
  /\ phase = "rows" /\ source > Len(doc)
  /\ phase' = "objects"
  /\ UNCHANGED <<input, layout, file>>

---------------------------------------------------------------------------
(* render_document_pdf: the list of objects.  Entry i of the list is       *)
(* written out as object i - 1, the dummy first entry being left out.      *)

(* The stream of a page, then a placeholder for the page itself.           *)
AddPage ==
  /\ phase = "objects" /\ Len(pageIds) < Len(pages)
  /\ contentIds' = Append(contentIds, Len(objects) + 1)
  /\ pageIds' = Append(pageIds, Len(objects) + 2)
  /\ objects' = objects \o <<[type |-> "stream", refs |-> {}], Blank>>
  /\ UNCHANGED <<input, phase, layout, root>>

(* The font and the placeholders of page tree and catalog; then every      *)
(* placeholder is replaced, at the place of its id.                        *)
FillObjects ==
  /\ phase = "objects" /\ Len(pageIds) = Len(pages)
  /\ LET fontId    == Len(objects) + 1
         pagesId   == fontId + 1
         catalogId == fontId + 2
         grown     == objects \o <<[type |-> "font", refs |-> {}], Blank, Blank>>
         Page(k)   == [type |-> "page",
                       refs |-> {Ref("pages", pagesId), Ref("font", fontId),
                                 Ref("stream", contentIds[k])}]
         Tree      == [type |-> "pages",
                       refs |-> {Ref("page", pageIds[k]) : k \in DOMAIN pageIds}]
         Catalog   == [type |-> "catalog", refs |-> {Ref("pages", pagesId)}]
     IN  /\ objects' = [i \in DOMAIN grown |->
              IF i = pagesId THEN Tree
              ELSE IF i = catalogId THEN Catalog
              ELSE IF \E k \in DOMAIN pageIds : pageIds[k] = i
                THEN Page(CHOOSE k \in DOMAIN pageIds : pageIds[k] = i)
              ELSE grown[i]]
         /\ root' = catalogId
  /\ phase' = "done"
  /\ UNCHANGED <<input, layout, contentIds, pageIds>>

RenderStep ==
  PlaceRow \/ EndSourcePage \/ EndPagination \/ AddPage \/ FillObjects

RenderNext ==
  \/ \E d \in Documents, lines \in PageLines : StartRender(d, lines)
  \/ RenderStep

RenderSpec ==
  RenderInit /\ [][RenderNext]_renderVars /\ WF_renderVars(RenderStep)

---------------------------------------------------------------------------
(* Properties *)

(* The pages so far, the one being filled included.                        *)
Printed == IF page = <<>> THEN pages ELSE Append(pages, page)

FinalSlice(p) == p[Len(p)]

Opens(s) == s.source = 1 /\ s.row = 1 /\ s.from = 0

Follows(s, t) ==
  \/ t.source = s.source /\ t.row = s.row /\ t.from = s.to
  \/ /\ s.to = doc[s.source][s.row] /\ t.from = 0
     /\ \/ t.source = s.source /\ t.row = s.row + 1
        \/ /\ t.source = s.source + 1 /\ t.row = 1
           /\ s.row = Len(doc[s.source])

Closes(s) ==
  /\ s.source = Len(doc) /\ s.row = Len(doc[s.source])
  /\ s.to = doc[s.source][s.row]

(* Within a page and from page to page, each slice starts where the one    *)
(* before it ended.                                                        *)
Continuous(p) == p # <<>> /\ \A k \in 1..(Len(p) - 1) : Follows(p[k], p[k + 1])

ReadingOrder(ps) ==
  /\ \A i \in DOMAIN ps : Continuous(ps[i])
  /\ \A i \in 1..(Len(ps) - 1) : Follows(FinalSlice(ps[i]), ps[i + 1][1])
  /\ ps # <<>> => Opens(ps[1][1])

(* "Render all content into bounded pages without silently dropping        *)
(* lines": the pages, none of them empty, are read from the first line of  *)
(* the document on without a gap, and at the end the last line of the last *)
(* row is on the last page.                                                *)
NoLineDropped ==
  /\ ReadingOrder(Printed)
  /\ phase \in {"objects", "done"} =>
       Printed # <<>> /\ Closes(FinalSlice(FinalSlice(Printed)))

(* The lines a page's slices are drawn from: _page_stream moves down by    *)
(* the height of a slice and one line.                                     *)
Lines(s) == s.to - s.from

DrawnFrom(p, top) ==
  /\ top[1] = 0
  /\ \A k \in 1..(Len(p) - 1) : top[k + 1] = top[k] + Lines(p[k]) + 1

Fits(p) == \E top \in [DOMAIN p -> 0..available] :
  DrawnFrom(p, top) /\ \A k \in DOMAIN p : top[k] + Lines(p[k]) <= available

(* A page, with one line between its rows, never runs into the margin.     *)
PageFits == \A i \in DOMAIN pages : Fits(pages[i])

(* No placeholder is left in the file.                                     *)
NoBlankObject == phase = "done" =>
  \A i \in 2..Len(objects) : objects[i].type # "blank"

(* Nothing overflows its page and nothing is left out of the file.         *)
LayoutOK == PageFits /\ NoBlankObject

(* The loop over pending rows ends.                                        *)
Renders == phase = "rows" ~> phase = "done"

(* "test_renderer_preserves_columns_and_pdf_structure": every reference in *)
(* the file, the trailer's included, leads to an object of its kind.       *)
Object(id) == objects[id + 1]

ReferencesResolve == phase = "done" =>
  /\ root + 1 \in DOMAIN objects /\ Object(root).type = "catalog"
  /\ \A i \in DOMAIN objects : \A ref \in objects[i].refs :
       ref.id + 1 \in DOMAIN objects /\ Object(ref.id).type = ref.role

---------------------------------------------------------------------------
(* The inductive invariant *)

Slices == [source : Nat \ {0}, row : Nat \ {0}, from : Nat, to : Nat]

Objects == [type : {"blank", "stream", "font", "page", "pages", "catalog"},
            refs : SUBSET [role : {"stream", "font", "page", "pages"}, id : Nat]]

RenderTypeOK ==
  /\ phase \in {"idle", "rows", "objects", "done"}
  /\ phase # "idle" => doc \in Documents /\ available \in PageLines
  /\ source \in Nat \ {0} /\ row \in Nat \ {0} /\ taken \in Nat /\ remaining \in Int
  /\ page \in Seq(Slices) /\ pages \in Seq(Seq(Slices))
  /\ objects \in Seq(Objects) /\ root \in Nat
  /\ contentIds \in Seq(Nat) /\ pageIds \in Seq(Nat) /\ Len(contentIds) = Len(pageIds)

(* Nothing is done before a document came in.                              *)
Untouched == phase = "idle" =>
  /\ source = 1 /\ row = 1 /\ taken = 0 /\ page = <<>> /\ pages = <<>>
  /\ objects = <<Blank>> /\ contentIds = <<>> /\ pageIds = <<>>

(* The first pending line is the one after the last line placed.           *)
ComesNext(s) ==
  /\ s.source \in DOMAIN doc /\ s.row \in DOMAIN doc[s.source]
  /\ \/ s.source = source /\ s.row = row /\ s.to = taken
     \/ /\ s.to = doc[s.source][s.row] /\ taken = 0
        /\ \/ source = s.source /\ row = s.row + 1
           \/ source = s.source + 1 /\ row = 1 /\ s.row = Len(doc[s.source])

Position == phase # "idle" =>
  /\ source <= Len(doc) + 1
  /\ source <= Len(doc) => row <= Len(doc[source]) + 1
  /\ source > Len(doc) => row = 1
  /\ taken > 0 => page = <<>> /\ Pending /\ taken < doc[source][row]
  /\ IF Printed = <<>> THEN source = 1 /\ row = 1 /\ taken = 0
     ELSE ComesNext(FinalSlice(FinalSlice(Printed)))

(* The page being filled has room for the next line where it will be drawn. *)
Room == phase # "idle" =>
  IF page = <<>> THEN remaining = available
  ELSE /\ source <= Len(doc) /\ remaining \in 1..available
       /\ \E top \in [DOMAIN page -> 0..available] :
            /\ DrawnFrom(page, top)
            /\ \A k \in DOMAIN page : top[k] + Lines(page[k]) <= available
            /\ top[Len(page)] + Lines(FinalSlice(page)) + 1 = available - remaining

(* A placeholder that is still blank is one whose id was noted.            *)
ToBeFilled == phase # "done" =>
  \A i \in DOMAIN objects \ {1} :
    objects[i].type = "blank" => \E k \in DOMAIN pageIds : pageIds[k] = i

AllRowsPlaced == phase \in {"objects", "done"} => source = Len(doc) + 1 /\ page = <<>>

RenderInv ==
  /\ RenderTypeOK /\ Untouched /\ Position /\ Room /\ ToBeFilled /\ AllRowsPlaced
  /\ NoLineDropped /\ LayoutOK
===========================================================================
