----------------------------- MODULE TextLayouts -----------------------------
(***************************************************************************)
(* From the boxes of a page's text to carets and highlight, on a page shown  *)
(* upright or turned (ui/components/text_selection.py).                       *)
(*                                                                         *)
(* The boxes come in reading order as [x, y, w, h] of the page as displayed;   *)
(* lines and their direction are found from their shapes alone.  Computations  *)
(* happen in a reading frame: text runs along growing x, lines along growing y. *)
(* The unit is a fifth of a point, so that _INSET, 0.6 there, is a whole number. *)
(* Half a length is rounded down.                                             *)
(*                                                                         *)
(* The behaviours are those of a drag over a page that TLC chooses.            *)
(***************************************************************************)
EXTENDS Integers, Sequences, FiniteSetsExt, SequencesExt

CONSTANTS
  Pages,       \* pages: [w, h, boxes], upright
  Steps        \* the places of a page the pointer is put at, a grid

VARIABLE drag  \* [page, turn, from, to, layout as displayed, layout upright]

vars == <<drag>>

Inset == 3           \* _INSET
HoverMargin == 10    \* _HOVER_MARGIN

Lesser(a, b) == IF a < b THEN a ELSE b
Greater(a, b) == IF a > b THEN a ELSE b
Outside(low, high, n) == Greater(Greater(low - n, 0), n - high)
Pairs(s) == [i \in 1 .. Len(s) - 1 |-> <<s[i], s[i + 1]>>]  \* pairwise
HowMany(s, Test(_)) == Cardinality({i \in DOMAIN s : Test(s[i])})

-----------------------------------------------------------------------------
(* _Frame *)
Size(n) == IF n < 0 THEN -n ELSE n

ToFrame(f, p) ==
  IF f.vertical THEN [x |-> f.reading * p.y, y |-> f.lines * p.x]
  ELSE [x |-> f.reading * p.x, y |-> f.lines * p.y]

ToPage(f, p) ==
  IF f.vertical THEN [x |-> f.lines * p.y, y |-> f.reading * p.x]
  ELSE [x |-> f.reading * p.x, y |-> f.lines * p.y]

Corner(r) == [x |-> r.x, y |-> r.y]
FarCorner(r) == [x |-> r.x + r.w, y |-> r.y + r.h]
Spanning(a, b) ==
  [x |-> Lesser(a.x, b.x), y |-> Lesser(a.y, b.y), w |-> Size(b.x - a.x), h |-> Size(b.y - a.y)]
RectToFrame(f, r) == Spanning(ToFrame(f, Corner(r)), ToFrame(f, FarCorner(r)))
RectToPage(f, r) == Spanning(ToPage(f, Corner(r)), ToPage(f, FarCorner(r)))

-----------------------------------------------------------------------------
(* Lines. *)
Overlap(a, sizeA, b, sizeB) == Lesser(a + sizeA, b + sizeB) - Greater(a, b)

\* More than half of the smaller one.
LevelWith(a, b) == 2 * Overlap(a.y, a.h, b.y, b.h) > Lesser(a.h, b.h)
AboveOneAnother(a, b) == 2 * Overlap(a.x, a.w, b.x, b.w) > Lesser(a.w, b.w)

\* _group_lines: a box goes on with the line of the one before it, or starts a line.
GroupLines(boxes) ==
  FoldLeft(LAMBDA lines, box :
             IF lines # <<>> /\ LevelWith(Last(Last(lines)), box)
             THEN Append(Front(lines), Append(Last(lines), box))
             ELSE Append(lines, <<box>>),
           <<>>, boxes)

\* _reads_vertically: the shapes first, neighbours in a tie.
LongerThan(long, short, factor) == long * 2 > short * factor
ReadsVertically(boxes) ==
  LET beside(pair) == LevelWith(pair[1], pair[2])
      below(pair) == ~LevelWith(pair[1], pair[2]) /\ AboveOneAnother(pair[1], pair[2])
      times(n, Test(_)) == n * HowMany(boxes, Test)
      wide(b) == LongerThan(b.w, b.h, 3)
      veryWide(b) == LongerThan(b.w, b.h, 8)
      tall(b) == ~LongerThan(b.w, b.h, 3) /\ LongerThan(b.h, b.w, 3)
      veryTall(b) == ~LongerThan(b.w, b.h, 3) /\ LongerThan(b.h, b.w, 8)
  IN  HowMany(Pairs(boxes), beside) + times(2, wide) + times(2, veryWide)
        < HowMany(Pairs(boxes), below) + times(2, tall) + times(2, veryTall)

\* The sign most of the steps have.
Mostly(steps) ==
  LET back(n) == n < 0  on(n) == n > 0
  IN  IF HowMany(steps, back) > HowMany(steps, on) THEN -1 ELSE 1

Reading(vertical, reading, lines) ==
  [vertical |-> vertical, reading |-> reading, lines |-> lines]

Framed(f, boxes) == [i \in DOMAIN boxes |-> RectToFrame(f, boxes[i])]

\* _detect_frame
DetectFrame(boxes) ==
  LET vertical == ReadsVertically(boxes)
      lines == GroupLines(Framed(Reading(vertical, 1, 1), boxes))
      steps == [l \in DOMAIN lines |-> [i \in DOMAIN Pairs(lines[l]) |-> lines[l][i + 1].x - lines[l][i].x]]
      middle(l) == Min({b.y : b \in Range(l)}) + Max({b.y + b.h : b \in Range(l)})
      gaps == [i \in 1 .. Len(lines) - 1 |-> middle(lines[i + 1]) - middle(lines[i])]
  IN  Reading(vertical, Mostly(FlattenSeq(steps)), Mostly(gaps))

MakeLine(boxes) ==
  [boxes |-> boxes,
   start |-> Min({b.x : b \in Range(boxes)}), top |-> Min({b.y : b \in Range(boxes)}),
   end |-> Max({b.x + b.w : b \in Range(boxes)}),
   bottom |-> Max({b.y + b.h : b \in Range(boxes)})]

TextLayout(boxes) ==
  LET f == DetectFrame(boxes)
      groups == GroupLines(Framed(f, boxes))
  IN  [frame |-> f, lines |-> [i \in DOMAIN groups |-> MakeLine(groups[i])]]

-----------------------------------------------------------------------------
(* Carets and highlight. *)
IsTextAt(layout, point) ==
  LET p == ToFrame(layout.frame, point)
  IN  \E i \in DOMAIN layout.lines : \E b \in Range(layout.lines[i].boxes) :
         /\ b.x - HoverMargin <= p.x /\ p.x <= b.x + b.w + HoverMargin
         /\ b.y - HoverMargin <= p.y /\ p.y <= b.y + b.h + HoverMargin

\* The first of the nearest.
Nearest(s, far) ==
  CHOOSE i \in DOMAIN s :
    /\ \A j \in DOMAIN s : far[i] <= far[j]
    /\ \A j \in 1 .. i - 1 : far[i] < far[j]

\* Across the lines first.
LineOf(layout, p) ==
  LET lines == layout.lines
  IN  Nearest(lines, [i \in DOMAIN lines |-> 1000 * Outside(lines[i].top, lines[i].bottom, p.y)
                                              + Outside(lines[i].start, lines[i].end, p.x)])

Caret(layout, point) ==
  LET p == ToFrame(layout.frame, point)
      index == LineOf(layout, p)
      line == layout.lines[index]
      u == IF p.y < line.top THEN line.start ELSE IF p.y > line.bottom THEN line.end ELSE p.x
      box == line.boxes[Nearest(line.boxes, [i \in DOMAIN line.boxes |->
                          Outside(line.boxes[i].x, line.boxes[i].x + line.boxes[i].w, u)])]
      inside == IF box.w <= 2 * Inset THEN box.x + box.w \div 2
                ELSE Lesser(Greater(u, box.x + Inset), box.x + box.w - Inset)
  IN  [line |-> index, position |-> inside,
       at |-> ToPage(layout.frame, [x |-> inside, y |-> box.y + box.h \div 2])]

Precedes(a, b) == a.line < b.line \/ (a.line = b.line /\ a.position <= b.position)

Highlight(layout, start, end) ==
  LET first == IF Precedes(start, end) THEN start ELSE end
      last == IF Precedes(start, end) THEN end ELSE start
      low(i) == IF i = first.line THEN first.position ELSE layout.lines[i].start
      high(i) == IF i = last.line THEN last.position ELSE layout.lines[i].end
      rect(i) == [x |-> low(i), y |-> layout.lines[i].top, w |-> high(i) - low(i),
                  h |-> layout.lines[i].bottom - layout.lines[i].top]
  IN  {RectToPage(layout.frame, rect(i)) : i \in {j \in first.line .. last.line : high(j) > low(j)}}

-----------------------------------------------------------------------------
(* A page turned by so many quarters, as it is then displayed. *)
Quarter(page, p) == [x |-> page.h - p.y, y |-> p.x]
Turned(page, turn, p) ==
  CASE turn = 0 -> p
    [] turn = 1 -> Quarter(page, p)
    [] turn = 2 -> [x |-> page.w - p.x, y |-> page.h - p.y]
    [] turn = 3 -> [x |-> p.y, y |-> page.w - p.x]
TurnedRect(page, turn, r) == Spanning(Turned(page, turn, Corner(r)), Turned(page, turn, FarCorner(r)))
TurnedBoxes(page, turn) == [i \in DOMAIN page.boxes |-> TurnedRect(page, turn, page.boxes[i])]

Places(page) == {[x |-> (i * page.w) \div Steps, y |-> (j * page.h) \div Steps] : i, j \in 0 .. Steps}

Init ==
  \E page \in Pages, turn \in 0 .. 3 : \E p \in Places(page) :
    drag = [page |-> page, turn |-> turn, from |-> p, to |-> p,
            layout |-> TextLayout(TurnedBoxes(page, turn)), upright |-> TextLayout(page.boxes)]

Drag == \E p \in Places(drag.page) : drag' = [drag EXCEPT !.to = p]

Next == Drag

Spec == Init /\ [][Next]_vars

-----------------------------------------------------------------------------
Holds(r, b) == r.x <= b.x /\ r.y <= b.y /\ b.x + b.w <= r.x + r.w /\ b.y + b.h <= r.y + r.h

\* Which way a page is turned shows in the order of its lines and of the boxes of a line.
TellsItsDirection(layout) ==
  Len(layout.lines) > 1 /\ \E i \in DOMAIN layout.lines : Len(layout.lines[i].boxes) > 1
IsLevel(line, p) == line.top <= p.y /\ p.y <= line.bottom

(* A drag selects the same text however the page is displayed: on a page          *)
(* turned by any quarter, the highlight covers what it covers on the upright       *)
(* page.  A page that does not tell its direction is read as if it were upright or  *)
(* a quarter: there this holds for a page of one line only, between two places      *)
(* level with it.  On every page, each end of the drag is brought inside a box,       *)
(* where the pointer shows that there is text; and on an upright page what is covered  *)
(* is what stands between both ends in reading order: the boxes of every line           *)
(* between, none of a line outside, and nothing when the ends meet (TextLayout,          *)
(* _detect_frame, _reads_vertically).                                                    *)
SelectionFollowsTheText ==
  LET page == drag.page
      upright == drag.upright
      shown == drag.layout
      ends(layout, turn) == <<Caret(layout, Turned(page, turn, drag.from)),
                              Caret(layout, Turned(page, turn, drag.to))>>
      here == ends(shown, drag.turn)
      there == ends(upright, 0)
      rects == Highlight(upright, there[1], there[2])
      first == Lesser(there[1].line, there[2].line)
      last == Greater(there[1].line, there[2].line)
      level == /\ Len(upright.lines) = 1
               /\ IsLevel(upright.lines[1], drag.from) /\ IsLevel(upright.lines[1], drag.to)
  IN  /\ TellsItsDirection(upright) \/ level =>
           Highlight(shown, here[1], here[2]) = {TurnedRect(page, drag.turn, r) : r \in rects}
      /\ \A e \in Range(here) : IsTextAt(shown, e.at)
      /\ rects = {} <=> there[1] = there[2]
      /\ \A i \in DOMAIN upright.lines : \A b \in Range(upright.lines[i].boxes) :
           /\ first < i /\ i < last => \E r \in rects : Holds(r, b)
           /\ i < first \/ last < i => \A r \in rects : ~Holds(r, b)
=============================================================================
