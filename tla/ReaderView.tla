------------------------------ MODULE ReaderView ------------------------------
(***************************************************************************)
(* What the reader shows of a document: the pages laid out one below the    *)
(* other, the zoom, the page it names, and the reading mode                 *)
(* (ui/components/isolated_pdf_view.py, ui/document_workspace.py).          *)
(*                                                                         *)
(* The reader is a record, so that a handler that sets off another one is a *)
(* composition of operators:                                               *)
(*   doc, status    _current_path, and the state of its RemotePdfDocument    *)
(*   mode, zoom, ceiling   _zoom_mode, _zoom and _fit_zoom_ceiling           *)
(*   heights, y     the heights of the pages laid out, and the scroll bar    *)
(*   port           the size of the viewport, the margins around a page left  *)
(*                  out                                                     *)
(*   page           the page of the navigator, from 1                        *)
(*   field, thumb   the page number written, 0 for none, and the active      *)
(*                  thumbnail                                               *)
(*   reading, before   _reading_mode and _zoom_before_reading                *)
(*   drawer, password                                                       *)
(* Lengths and zooms are whole numbers, rounded where the code rounds them;   *)
(* the smallest zoom, 0.01 there, is 1.  Horizontal scrolling is left out.    *)
(***************************************************************************)
EXTENDS Integers, Sequences

CONSTANTS
  Docs, NoDoc,
  Sheets,      \* the pages of each document: a sequence of [w, h]
  Ports,       \* the sizes the viewport may have, [w, h]
  Gap,         \* SPACING["md"], between two pages
  Tallest,     \* 100 000 there, the largest height of a page laid out
  Ceiling,     \* the largest zoom the user chooses, unless a page fits larger
  Opening      \* pdf_opening_mode: "width" or "view"

VARIABLE reader

vars == <<reader>>

NoZoom == [mode |-> "none", zoom |-> 0]
ZoomOf(v) == [mode |-> v.mode, zoom |-> v.zoom]
Lower(a, b) == IF a < b THEN a ELSE b
Higher(a, b) == IF a > b THEN a ELSE b
Within(n, low, high) == Higher(low, Lower(n, high))

\* round(n / d) of Python, to the even number in the middle.
Rounded(n, d) ==
  LET q == (2 * n + d) \div (2 * d)
  IN  IF (2 * n + d) % (2 * d) = 0 /\ q % 2 = 1 THEN q - 1 ELSE q

PagesOf(v) == IF v.status = "ready" THEN Sheets[v.doc] ELSE <<>>
Count(v) == Len(PagesOf(v))

-----------------------------------------------------------------------------
(* The layout. *)
Offsets(v) ==
  LET offset[p \in 1 .. Len(v.heights) + 1] ==
        IF p = 1 THEN 0 ELSE offset[p - 1] + v.heights[p - 1] + Gap
  IN  offset

\* bisect_right: how many pages, and the end, start at y or above.
StartingBy(v, y) ==
  LET offset == Offsets(v)
      above == {p \in DOMAIN offset : offset[p] <= y}
  IN  IF above = {} THEN 0 ELSE CHOOSE p \in above : \A q \in above : q <= p

\* _visible
Visible(v) ==
  Higher(1, StartingBy(v, v.y)) .. Lower(Len(v.heights), StartingBy(v, v.y + v.port.h) + 1)

Highest(v) == Higher(0, Offsets(v)[Len(v.heights) + 1] + Gap - v.port.h)

\* _update_page_status
StatusUpdated(v) ==
  IF Count(v) = 0 THEN [v EXCEPT !.field = 0]
  ELSE [v EXCEPT !.field = Within(v.page, 1, Count(v)), !.thumb = v.page]

PageSet(v, p) == IF p = v.page THEN v ELSE StatusUpdated([v EXCEPT !.page = p])

ScrolledQuietly(v) == IF v.heights = <<>> THEN v ELSE [v EXCEPT !.page = Higher(1, StartingBy(v, v.y))]

\* _scrolled
Scrolled(v) == IF v.heights = <<>> THEN v ELSE PageSet(v, Higher(1, StartingBy(v, v.y)))

\* The scroll bar tells of a value only when it changes.
ScrolledTo(v, y) ==
  LET kept == Within(y, 0, Highest(v))
  IN  IF kept = v.y THEN v ELSE Scrolled([v EXCEPT !.y = kept])

FitZoom(v, sheet) ==
  CASE v.mode = "width" -> Higher(1, v.port.w \div sheet.w)
    [] v.mode = "view" -> Higher(1, Lower(v.port.w \div sheet.w, v.port.h \div sheet.h))
    [] OTHER -> v.zoom

\* How far into page p the view begins: a part of its height and of the gap, at most all.
Into(v, p) ==
  IF p > Len(v.heights) THEN [part |-> 0, of |-> 1]
  ELSE [part |-> Within(v.y - Offsets(v)[p], 0, v.heights[p] + Gap), of |-> v.heights[p] + Gap]

\* _layout: the page named stays where it was, as far as the scroll bar goes.
LaidOut(v) ==
  LET sheets == PagesOf(v)
      into == Into(v, v.page)
      zoom == IF sheets = <<>> THEN v.zoom ELSE FitZoom(v, sheets[Lower(v.page, Count(v))])
      laid == [v EXCEPT !.zoom = zoom,
                        !.ceiling = IF sheets = <<>> \/ v.mode = "custom" THEN @
                                    ELSE Higher(Ceiling, zoom),
                        !.heights = [p \in DOMAIN sheets |-> Within(sheets[p].h * zoom, 1, Tallest)]]
      anchor == Lower(v.page, Count(v))
      y == Offsets(laid)[anchor] + Rounded(into.part * (laid.heights[anchor] + Gap), into.of)
  IN  IF sheets = <<>> THEN [laid EXCEPT !.y = 0]
      ELSE Scrolled([laid EXCEPT !.y = Within(y, 0, Highest(laid))])

ModeSet(v, mode) == LaidOut([v EXCEPT !.mode = mode])

\* The page at a height of the viewport: in a gap, the nearest one.
Top(v, p) == Offsets(v)[p] + Gap \div 2 - v.y
PageAt(v, at) ==
  LET under == {p \in Visible(v) : Top(v, p) <= at /\ at <= Top(v, p) + v.heights[p]}
      far == [p \in Visible(v) |-> LET twice == 2 * (Top(v, p) - at) + v.heights[p]
                                   IN  IF twice < 0 THEN -twice ELSE twice]
      near == {p \in Visible(v) : \A q \in Visible(v) : far[p] <= far[q]}
      first(S) == CHOOSE p \in S : \A q \in S : p <= q
  IN  IF under # {} THEN first(under) ELSE first(near)

\* setZoomFactor: the point of the page under the pointer stays under it.
ZoomSet(v, zoom, at) ==
  LET laid == LaidOut([v EXCEPT !.zoom = Within(zoom, 1, v.ceiling)])
      p == PageAt(v, at)
      moved == Rounded(Top(laid, p) * v.zoom + (at - Top(v, p)) * laid.zoom - at * v.zoom, v.zoom)
  IN  IF v.heights = <<>> THEN laid ELSE ScrolledTo(laid, laid.y + moved)

\* setZoomFactor without a point to keep.
ZoomGiven(v, zoom) == LaidOut([v EXCEPT !.zoom = Within(zoom, 1, v.ceiling)])

-----------------------------------------------------------------------------
(* Opening and closing. *)

\* pageCountChanged: the page number first, then _reset.
CountChanged(v) ==
  LaidOut([PageSet([StatusUpdated(v) EXCEPT !.ceiling = Ceiling], 1) EXCEPT !.y = 0])

\* load_document
Load(d) ==
  reader' = CountChanged([reader EXCEPT !.doc = d, !.status = "loading", !.password = FALSE,
                                        !.thumb = 0])

\* _document_loaded: the thumbnails start again.
Loaded ==
  /\ reader.status = "loading"
  /\ reader' = StatusUpdated([ModeSet(CountChanged([reader EXCEPT !.status = "ready"]), Opening)
                                EXCEPT !.thumb = 0])

LoadFailed(password) ==
  /\ reader.status = "loading"
  /\ reader' = [reader EXCEPT !.status = "error", !.password = password, !.field = 0,
                              !.drawer = IF password THEN "none" ELSE @]

\* _set_empty_state
Emptied ==
  /\ reader.doc # NoDoc
  /\ reader' = [CountChanged([reader EXCEPT !.doc = NoDoc, !.status = "none"])
                  EXCEPT !.password = FALSE, !.thumb = 0, !.drawer = "none",
                         !.reading = FALSE, !.before = NoZoom]

-----------------------------------------------------------------------------
(* The user. *)
Ready == reader.status = "ready"

\* _jump_to_page, by the field or a thumbnail, and _go_to_relative_page.
Jump(p) ==
  /\ Ready
  /\ LET to == Within(p, 1, Count(reader))
         moved == PageSet(ScrolledTo(reader, Offsets(reader)[to]), to)
     IN  reader' = StatusUpdated(moved)

\* The wheel, the keys and the scroll bar.
Scroll(y) == Ready /\ reader' = ScrolledTo(reader, y)

\* show_match: the match at some height of page p comes to a third of the viewport, were
\* the page laid out in its whole height.
ShowMatch(p, top) ==
  /\ Ready /\ p <= Count(reader) /\ top < PagesOf(reader)[p].h
  /\ LET y == Rounded(3 * (Offsets(reader)[p] + top * reader.zoom) - reader.port.h, 3)
     IN  reader' = PageSet(ScrolledTo(reader, y), p)

\* _zoom_by and _zoom_by_points, at the pointer or the middle.
Zoom(zoom, at) == reader.doc # NoDoc /\ reader' = ZoomSet(ModeSet(reader, "custom"), zoom, at)

\* _fit_page and _fit_width
Fit(mode) == reader.doc # NoDoc /\ reader' = ModeSet(reader, mode)

\* The window is resized, a drawer or a bar comes or goes.
Resize(port) == reader' = LaidOut([reader EXCEPT !.port = port])

\* set_reading_mode
EnterReading ==
  /\ reader.doc # NoDoc /\ ~reader.reading
  /\ reader' = ModeSet([reader EXCEPT !.reading = TRUE, !.before = ZoomOf(reader)], "width")

ReadingLeft(v) ==
  LET again == ModeSet([v EXCEPT !.reading = FALSE, !.before = NoZoom], v.before.mode)
  IN  IF v.before.mode = "custom" THEN ZoomGiven(again, v.before.zoom) ELSE again

LeaveReading == reader.reading /\ reader' = ReadingLeft(reader)

\* _toggle_pages_panel and _toggle_info_panel leave the reading mode first.
ToggleDrawer(which) ==
  /\ reader.doc # NoDoc /\ (which = "pages" => ~reader.password /\ reader.status # "loading")
  /\ LET v == IF reader.reading THEN ReadingLeft(reader) ELSE reader
     IN  reader' = [v EXCEPT !.drawer = IF @ = which THEN "none" ELSE which]

Init ==
  \E port \in Ports :
    reader = [doc |-> NoDoc, status |-> "none", mode |-> Opening, zoom |-> 1, ceiling |-> Ceiling,
              heights |-> <<>>, y |-> 0, port |-> port, page |-> 1, field |-> 0, thumb |-> 0,
              reading |-> FALSE, before |-> NoZoom, drawer |-> "none", password |-> FALSE]

Opens == Loaded \/ Emptied \/ (\E d \in Docs : Load(d)) \/ \E p \in BOOLEAN : LoadFailed(p)

LongestDoc == CHOOSE n \in {Len(Sheets[d]) : d \in Docs} :
                \A d \in Docs : Len(Sheets[d]) <= n

Moves ==
  \/ \E p \in 1 .. LongestDoc : Jump(p) \/ \E top \in {0, 3} : ShowMatch(p, top)
  \/ Ready /\ \E y \in 0 .. Highest(reader) : Scroll(y)

Zooms ==
  \/ \E zoom \in {reader.zoom - 1, reader.zoom + 1}, at \in {0, reader.port.h \div 2} : Zoom(zoom, at)
  \/ (\E mode \in {"width", "view"} : Fit(mode)) \/ (\E port \in Ports : Resize(port))
  \/ EnterReading \/ LeaveReading \/ \E which \in {"pages", "info"} : ToggleDrawer(which)

Next == Opens \/ Moves \/ Zooms

Spec == Init /\ [][Next]_vars

-----------------------------------------------------------------------------
\* A page higher than the largest height is laid out in that height.
IsCut(v, p) == v.heights[p] < PagesOf(v)[p].h * v.zoom

(* The page number, the thumbnail and the view agree.  Whatever was scrolled,    *)
(* zoomed, resized, searched or opened, the page named is one that is in view,   *)
(* the field and the active thumbnail name it too, and without pages no number   *)
(* is written; the zoom to come back to is kept while the page is read, and      *)
(* only then.  A match on a page cut at the largest height is excepted: it is     *)
(* scrolled to as if the page were whole, which may be past the page              *)
(* (_scrolled, _layout, jump, show_match, _update_page_status, set_reading_mode,  *)
(* _set_empty_state).                                                             *)
ReaderSaysWhereItIs ==
  /\ Ready => /\ reader.page \in Visible(reader) \/ IsCut(reader, reader.page)
              /\ reader.field = reader.page /\ reader.thumb = reader.page
  /\ ~Ready => reader.field = 0 /\ reader.heights = <<>>
  /\ reader.reading <=> reader.before # NoZoom
  /\ reader.reading => reader.doc # NoDoc
  /\ reader.password => reader.drawer # "pages"
=============================================================================
