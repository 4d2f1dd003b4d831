--------------------------- MODULE ReaderSelection ---------------------------
(***************************************************************************)
(* Selecting and copying text in the reader (ui/components/isolated_pdf_view.py). *)
(* The boxes of a page's text and the text between two carets both come from a *)
(* worker, so a press, a drag, a release and Ctrl+C may each be done before    *)
(* they are there, and an answer may come when something else is selected or   *)
(* another document open.                                                     *)
(*                                                                         *)
(*   opening, ready    how many times a document was opened, and whether it has  *)
(*                     its pages                                              *)
(*   layouts           _layouts: the pages whose boxes are kept, with how many     *)
(*                     characters they have, latest used last                   *)
(*   select            _selection_page (0 for none), _anchor, _focus,            *)
(*                     _selection_rects as the span they cover,                *)
(*                     _selection_text, _selection_id and _copy_pending;        *)
(*                     pressed: the left button is down                        *)
(*   pending           requests whose answer may still come; _layout_requests    *)
(*                     are the "lines" ones of the present opening              *)
(*   clipboard         the text last copied                                   *)
(*   made              every span the user has drawn in this opening since the   *)
(*                     last press                                             *)
(* A text is the span [page, low, high] it was taken from.  The pointer is       *)
(* always level with a character; where a caret falls is in TextLayouts.         *)
(***************************************************************************)
EXTENDS Integers, SequencesExt

CONSTANTS
  Texts,       \* how many characters each page has, 0 for a scan
  MaxLayouts,  \* _MAX_TEXT_LAYOUTS
  MaxOpenings, MaxRequests

VARIABLES opening, ready, layouts, select, pending, requests, clipboard, made

vars == <<opening, ready, layouts, select, pending, requests, clipboard, made>>

Pages == DOMAIN Texts
Places == 1 .. 3
NoText == [page |-> 0, low |-> 0, high |-> 0]
NoSelection == [page |-> 0, anchor |-> 0, focus |-> 0, drawn |-> NoText, text |-> NoText,
                id |-> 0, copying |-> FALSE, pressed |-> FALSE]

\* _clear_selection: the places of the last drag stay, of no use.
ClearedButItsText(s) == [s EXCEPT !.page = 0, !.drawn = NoText, !.copying = FALSE]
Cleared(s) == [NoSelection EXCEPT !.anchor = s.anchor, !.focus = s.focus, !.pressed = s.pressed]

Laid(kept) == {kept[i].page : i \in DOMAIN kept}
PlaceOf(kept, page) == CHOOSE i \in DOMAIN kept : kept[i].page = page
LayoutOf(kept, page) == kept[PlaceOf(kept, page)]
MovedToEnd(kept, page) == Append(RemoveAt(kept, PlaceOf(kept, page)), LayoutOf(kept, page))

Ask(kind, page, span) ==
  [id |-> requests + 1, of |-> opening, kind |-> kind, page |-> page, span |-> span]

Asking(q) == requests < MaxRequests /\ requests' = requests + 1 /\ pending' = pending \cup {q}

Wanted == {q.page : q \in {r \in pending : r.kind = "lines" /\ r.of = opening}}

\* The span between the two carets, when the boxes of the page are there.
Low(a, b) == IF a < b THEN a ELSE b
Carets(s, kept) ==
  IF s.page \notin Laid(kept) THEN NoText
  ELSE LET chars == LayoutOf(kept, s.page).chars
           from == Low(s.anchor, chars)  to == Low(s.focus, chars)
       IN  [page |-> s.page, low |-> Low(from, to), high |-> from + to - Low(from, to)]

IsEmpty(span) == span.low = span.high

\* _update_highlight
Highlighted(s, kept) ==
  LET span == Carets(s, kept)
  IN  [s EXCEPT !.drawn = IF IsEmpty(span) THEN NoText ELSE span]

\* _layout_for: the boxes are used, or asked for once.
LayoutFor(page) ==
  IF page \in Laid(layouts)
  THEN layouts' = MovedToEnd(layouts, page) /\ UNCHANGED <<pending, requests>>
  ELSE /\ UNCHANGED layouts
       /\ IF page \in Wanted THEN UNCHANGED <<pending, requests>>
          ELSE Asking(Ask("lines", page, NoText))

\* _request_selection: the answer to an earlier request is no longer waited for.
RequestSelection(s, kept, left) ==
  LET span == Carets(s, kept)
  IN  IF IsEmpty(span)
      THEN /\ select' = [s EXCEPT !.drawn = NoText]
           /\ pending' = left /\ UNCHANGED requests
      ELSE /\ requests < MaxRequests /\ requests' = requests + 1
           /\ pending' = left \cup {Ask("selection", s.page, span)}
           /\ select' = [s EXCEPT !.id = requests + 1]

-----------------------------------------------------------------------------
(* The document. *)

\* close and load: _reset forgets the boxes, their requests and the selection.
Load ==
  /\ opening < MaxOpenings
  /\ opening' = opening + 1 /\ ready' = FALSE
  /\ layouts' = <<>> /\ made' = {}
  /\ select' = Cleared(select)
  /\ UNCHANGED <<pending, requests, clipboard>>

\* The requests of before the pages came are none: no page could be pointed at.
Loaded ==
  /\ opening > 0 /\ ~ready
  /\ ready' = TRUE
  /\ UNCHANGED <<opening, layouts, select, pending, requests, clipboard, made>>

-----------------------------------------------------------------------------
(* The user. *)

\* mousePressEvent, over a page or, with page 0, beside every page.
Press(page, place) ==
  /\ ~select.pressed /\ (page # 0 => ready)
  /\ LET s == [Cleared(select) EXCEPT !.pressed = TRUE]
     IN  select' = IF page = 0 THEN s
                   ELSE [s EXCEPT !.page = page, !.anchor = place, !.focus = place]
  /\ IF page = 0 THEN UNCHANGED <<layouts, pending, requests>> ELSE LayoutFor(page)
  /\ made' = {}
  /\ UNCHANGED <<opening, ready, clipboard>>

\* A double click: Qt tells of it instead of a press, and nothing is cleared.
PressAgain ==
  /\ ~select.pressed /\ select.page # 0
  /\ select' = [select EXCEPT !.pressed = TRUE]
  /\ UNCHANGED <<opening, ready, layouts, pending, requests, clipboard, made>>

Drawn(s) == IF s.drawn = NoText THEN {} ELSE {s.drawn}

\* mouseMoveEvent with the button down.
Drag(place) ==
  /\ select.pressed /\ select.page # 0 /\ place # select.focus
  /\ select' = Highlighted([select EXCEPT !.focus = place], layouts)
  /\ made' = made \cup Drawn(select')
  /\ UNCHANGED <<opening, ready, layouts, pending, requests, clipboard>>

\* mouseReleaseEvent
Release ==
  /\ select.pressed
  /\ LET s == Highlighted([select EXCEPT !.pressed = FALSE], layouts)
     IN  /\ IF s.page = 0
            THEN select' = [select EXCEPT !.pressed = FALSE] /\ UNCHANGED <<pending, requests>>
            ELSE RequestSelection(s, layouts, pending)
         /\ made' = made \cup Drawn(s)
  /\ UNCHANGED <<opening, ready, layouts, clipboard>>

\* _update_cursor, with no button down, and _request_visible ahead of the pointer.
Hover(page) ==
  /\ ready /\ ~select.pressed
  /\ LayoutFor(page)
  /\ UNCHANGED <<opening, ready, select, clipboard, made>>

\* Ctrl+C: the text, or as soon as it comes.
Copy ==
  /\ IF select.text # NoText THEN clipboard' = select.text /\ UNCHANGED select
     ELSE /\ select' = [select EXCEPT !.copying = @ \/ select.id # 0 \/
                          (select.page # 0 /\ select.page \notin Laid(layouts))]
          /\ UNCHANGED clipboard
  /\ UNCHANGED <<opening, ready, layouts, pending, requests, made>>

-----------------------------------------------------------------------------
(* _result_ready. *)

\* The boxes of a page, none when the worker failed; the oldest ones make room.
LinesArrive(q, ok) ==
  /\ q \in pending /\ q.kind = "lines" /\ q.of = opening
  /\ LET all == Append(layouts, [page |-> q.page, chars |-> IF ok THEN Texts[q.page] ELSE 0])
         kept == IF Len(all) > MaxLayouts THEN Tail(all) ELSE all
         s == Highlighted(select, kept)
     IN  /\ layouts' = kept
         /\ IF q.page # select.page THEN UNCHANGED <<select, requests, made>>
                                         /\ pending' = pending \ {q}
            ELSE /\ made' = made \cup Drawn(s)
                 /\ IF s.pressed THEN select' = s /\ pending' = pending \ {q} /\ UNCHANGED requests
                    ELSE RequestSelection(s, kept, pending \ {q})
  /\ UNCHANGED <<opening, ready, clipboard>>

TextFilled(q, text) ==
  /\ select' = [select EXCEPT !.text = text, !.drawn = text, !.copying = FALSE]
  /\ clipboard' = IF select.copying THEN text ELSE clipboard

\* The text, or nothing when the worker failed.
TextArrives(q, ok) ==
  /\ q \in pending /\ q.kind = "selection"
  /\ pending' = pending \ {q}
  /\ IF q.of = opening /\ q.id = select.id
     THEN TextFilled(q, IF ok THEN q.span ELSE NoText)
     ELSE UNCHANGED <<select, clipboard>>
  /\ UNCHANGED <<opening, ready, layouts, requests, made>>

\* An answer to an earlier opening, and a request given up before its answer.
Dropped(q) ==
  /\ q \in pending /\ (q.of # opening \/ (q.kind = "selection" /\ q.id # select.id))
  /\ pending' = pending \ {q}
  /\ UNCHANGED <<opening, ready, layouts, select, requests, clipboard, made>>

Init ==
  /\ opening = 0 /\ ready = FALSE /\ layouts = <<>>
  /\ select = NoSelection
  /\ pending = {} /\ requests = 0 /\ clipboard = NoText /\ made = {}

Mouse ==
  \/ Release \/ PressAgain \/ Press(0, 0)
  \/ \E page \in Pages : Hover(page) \/ \E place \in Places : Press(page, place)
  \/ \E place \in Places : Drag(place)

Worker == \E q \in pending : Dropped(q) \/ \E ok \in BOOLEAN : LinesArrive(q, ok) \/ TextArrives(q, ok)

Next == Load \/ Loaded \/ Copy \/ Mouse \/ Worker

Spec == Init /\ [][Next]_vars

-----------------------------------------------------------------------------
(* What is copied was selected: the text put into the clipboard is a span the   *)
(* user drew since the last press, in the document on screen, or nothing when   *)
(* it could not be had; the highlight is on the page of the selection, and no    *)
(* more boxes are kept than allowed, each page once (_clear_selection,           *)
(* _request_selection, _result_ready, keyPressEvent, _reset).                   *)
CopyStep ==
  /\ clipboard' # clipboard => clipboard' \in made' \cup {NoText}
  /\ select'.text # NoText => select'.text \in made'
  /\ select'.drawn # NoText => select'.drawn.page = select'.page
  /\ Len(layouts') <= MaxLayouts /\ Laid(layouts') \cap Wanted' = {}

\* Every step is such a step.
CopiedIsSelected == [][CopyStep]_vars
=============================================================================
