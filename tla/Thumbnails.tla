----------------------------- MODULE Thumbnails -----------------------------
(***************************************************************************)
(* The miniatures of the pages of a document: the model of the list, the   *)
(* bounded cache of pictures, the queue of requests and the few renderings *)
(* under way, over the remote document whose tasks answer in any order     *)
(* (ui/components/page_thumbnails.py, ui/components/document_pages_panel.py *)
(* and their use of workers/render_client.py).                             *)
(*                                                                         *)
(* An opening is a call of set_document or clear_document.  A request is   *)
(* named by its opening and page instead of by the serial number of the    *)
(* code: a page is asked for again only after its answer was taken.  All   *)
(* pictures weigh the same, so that the cache, 64 MiB in the code, holds   *)
(* Capacity of them.                                                       *)
(***************************************************************************)
EXTENDS Naturals, Sequences, FiniteSets

CONSTANTS
  PageCounts,   \* bound: the page counts of documents
  Capacity,     \* pictures the cache holds
  MaxInFlight,  \* MAX_THUMBNAIL_RENDERS_IN_FLIGHT
  Batch,        \* batch_size: rows asked for at once in a strip
  Layouts,      \* "strip" (with the panel of pages) and "grid"
  StripOpenings,  \* bound: openings in a strip, whose order is fixed
  GridOpenings,   \* and in a grid, where rows move and are duplicated
  MaxRows       \* bound: rows of the list, duplicates included

ASSUME PagesAssumption ==
  /\ PageCounts \in SUBSET (Nat \ {0}) /\ PageCounts # {} /\ IsFiniteSet(PageCounts)
  /\ MaxRows \in Nat
ASSUME LimitsAssumption ==
  /\ Capacity \in Nat \ {0}
  /\ MaxInFlight \in Nat \ {0}
  /\ Batch \in Nat \ {0}
ASSUME OpeningsAssumption == StripOpenings \in Nat /\ GridOpenings \in Nat
ASSUME LayoutsAssumption == Layouts \subseteq {"strip", "grid"}

Pages == UNION {1 .. n : n \in PageCounts}
NoPage == 0
Document == 0     \* in a task: the page count of the document is asked for
Blank == 0        \* no picture

VARIABLES
  layout,    \* the layout of the list, fixed
  opening,   \* _document_generation
  status,    \* the status of the remote document
  announced, \* _pending_page_count, 0 for None
  source,    \* _source_page_count
  order,     \* the page of each row of the list
  states,    \* what the list says of each page
  icons,     \* the opening whose picture of the page the list shows
  buttons,   \* the opening whose picture of the page the panel shows
  kept,      \* the cache, least recently used first
  active,    \* the page of the current row
  nextRow,   \* _next_render_page
  queue,     \* the requests that wait, most urgent first
  slots,     \* the pages under way
  tasks,     \* the tasks of the document that run
  answers,   \* their answers on the way to the GUI thread
  timer,     \* the debounce timer of the grid is running
  asking,    \* a single shot of the panel is on its way
  away       \* the user leaves the window alone from now on

docVars == <<layout, opening, status, announced, source, order>>
listVars == <<icons, buttons, kept, active, nextRow>>
workVars == <<queue, slots, tasks, answers>>
vars == <<docVars, states, listVars, workVars, timer, asking, away>>

MaxOpenings == IF layout = "strip" THEN StripOpenings ELSE GridOpenings
Openings == 0 .. MaxOpenings
Pictures == [page : Pages, of : Openings]
Tasks == [of : Openings, page : Pages \cup {Document}]

(***************************************************************************)
(* The cache.                                                              *)
(***************************************************************************)
Members(s) == {s[i] : i \in DOMAIN s}

KeptPages(cache) == {cache[i].page : i \in DOMAIN cache}

Entry(cache, p) == CHOOSE k \in Members(cache) : k.page = p

Ascending(S) ==
  [n \in 1 .. Cardinality(S) |-> CHOOSE x \in S : Cardinality({y \in S : y <= x}) = n]

\* What stands at some places of a sequence, in order.
At(seq, places) == LET picked == Ascending(places) IN [n \in DOMAIN picked |-> seq[picked[n]]]

\* The cache without the pictures of some pages.
Without(cache, pages) == At(cache, {i \in DOMAIN cache : cache[i].page \notin pages})

\* Asking whether a page is in the cache reads it, and so makes it the last to be
\* evicted: the pages asked for go to the end, in the order they were last asked for.
Touch(cache, asked) ==
  LET lasts == {i \in DOMAIN asked : /\ asked[i] \in KeptPages(cache)
                                     /\ \A j \in i + 1 .. Len(asked) : asked[j] # asked[i]}
      again == At(asked, lasts)
  IN Without(cache, Members(asked)) \o [n \in DOMAIN again |-> Entry(cache, again[n])]

\* The cache after a picture joined it, and what that evicts.
PutOneMore(cache, picture) ==
  LET all == Without(cache, {picture.page}) \o <<picture>>
  IN IF Len(all) <= Capacity + 1 THEN all ELSE Tail(all)

Put(cache, picture) ==
  LET all == Without(cache, {picture.page}) \o <<picture>>
  IN IF Len(all) <= Capacity THEN all ELSE Tail(all)

(***************************************************************************)
(* The scheduler.                                                          *)
(***************************************************************************)
QueuedPages(q) == {q[i].page : i \in DOMAIN q}
Pending == QueuedPages(queue) \cup slots

Least(a, b) == IF a <= b THEN a ELSE b

\* The pages of `asked` that are not in `busy`, once each.
Fresh(asked, busy) ==
  LET firsts == {i \in DOMAIN asked : /\ asked[i] \notin busy
                                      /\ \A j \in 1 .. i - 1 : asked[j] # asked[i]}
  IN At(asked, firsts)

\* Requests go behind those that are as urgent; a page that waits or is under way is
\* not asked for again, nor made more urgent.
Insert(q, pages, priority) ==
  At(q, {i \in DOMAIN q : q[i].priority <= priority})
    \o [n \in DOMAIN pages |-> [page |-> pages[n], priority |-> priority]]
    \o At(q, {i \in DOMAIN q : q[i].priority > priority})

Enqueue(q, asked, priority) ==
  Insert(q, Fresh(asked, QueuedPages(q) \cup slots), priority)

\* _queue_pages: what the cache lacks and the list is long enough for.
QueuePages(q, cache, rows, asked, priority) ==
  Enqueue(q, At(asked, {i \in DOMAIN asked : asked[i] <= Len(rows) /\ asked[i] \notin KeptPages(cache)}),
          priority)

\* _pump_thumbnail_requests: free slots take the most urgent requests, q being the
\* requests that wait, busy the slots taken, said what the list says.
Pump(waiting, busy, said, running) ==
  \E q \in {waiting} :
    \E started \in {{q[i].page : i \in 1 .. Least(MaxInFlight - Cardinality(busy), Len(q))}} :
      /\ queue' = SubSeq(q, Cardinality(started) + 1, Len(q))
      /\ slots' = busy \cup started
      /\ tasks' = running \cup {[of |-> opening, page |-> p] : p \in started}
      /\ states' = [p \in Pages |-> IF p \in started THEN "loading" ELSE said[p]]

(***************************************************************************)
(* Opening and closing.                                                    *)
(***************************************************************************)
Init ==
  /\ layout \in Layouts
  /\ opening = 0 /\ status = "null"
  /\ announced = 0 /\ source = 0 /\ order = <<>>
  /\ states = [p \in Pages |-> "loading"]
  /\ icons = [p \in Pages |-> Blank] /\ buttons = [p \in Pages |-> Blank]
  /\ kept = <<>> /\ active = NoPage /\ nextRow = 0
  /\ queue = <<>> /\ slots = {} /\ tasks = {} /\ answers = {}
  /\ timer = FALSE /\ asking = FALSE /\ away = FALSE

FirstPages(n) == [i \in 1 .. n |-> i]

ResetListsKeepingPictures ==
  /\ states' = [p \in Pages |-> "loading"]
  /\ icons' = icons
  /\ buttons' = [p \in Pages |-> Blank]
  /\ kept' = <<>>
  /\ active' = NoPage
  /\ nextRow' = 0
  /\ queue' = <<>>
  /\ slots' = {}

\* What clear_document empties.  The tasks of the document are cancelled; an answer
\* that was sent already stays on its way.
ResetLists ==
  /\ states' = [p \in Pages |-> "loading"]
  /\ icons' = [p \in Pages |-> Blank]
  /\ buttons' = [p \in Pages |-> Blank]
  /\ kept' = <<>>
  /\ active' = NoPage
  /\ nextRow' = 0
  /\ queue' = <<>>
  /\ slots' = {}

\* set_document, with or without a page count known beforehand.  The list is filled at
\* once when it is known; the document answers later.
SetDocument(count) ==
  /\ opening < MaxOpenings
  /\ opening' = opening + 1
  /\ status' = "loading"
  /\ announced' = count
  /\ source' = count
  /\ order' = FirstPages(count)
  /\ ResetLists
  /\ tasks' = {[of |-> opening', page |-> Document]}
  /\ asking' = (layout = "strip" \/ asking)
  /\ UNCHANGED <<layout, answers, timer>>

ClearDocument ==
  /\ opening < MaxOpenings
  /\ status # "null"
  /\ opening' = opening + 1
  /\ status' = "null"
  /\ announced' = 0 /\ source' = 0
  /\ order' = <<>>
  /\ ResetLists
  /\ tasks' = {}
  /\ UNCHANGED <<layout, answers, timer, asking>>

(***************************************************************************)
(* Asking for pictures.                                                    *)
(***************************************************************************)
\* render_next_batch over the rows from nextRow on; every row is asked for at
\* priority 1.
AskForRows(rows, from) ==
  LET to == Least(Len(rows), from + Batch)
      asked == SubSeq(rows, from + 1, to)
  IN /\ kept' = Touch(kept, asked)
     /\ nextRow' = to
     /\ Pump(QueuePages(queue, kept, rows, asked, 1), slots, states, tasks)

\* The button "load more" of a strip.
RenderNextBatch ==
  /\ layout = "strip"
  /\ status = "ready"
  /\ nextRow < Len(order)
  /\ AskForRows(order, nextRow)
  /\ UNCHANGED <<docVars, icons, buttons, active, answers, timer, asking>>

\* Scrolling or resizing starts the timer of the grid, and the panel's single shot.
Scroll ==
  /\ IF layout = "grid" THEN timer' = TRUE /\ UNCHANGED asking
     ELSE asking' = TRUE /\ UNCHANGED timer
  /\ UNCHANGED <<docVars, states, listVars, workVars>>

Neighbors(shown) ==
  {p \in Pages : \E i \in DOMAIN shown :
       (p + 1 = shown[i]) \/ (p = shown[i] + 1 /\ shown[i] < source)}

\* _request_visible_thumbnails, the rows from first to last being in sight: the current
\* page first, then what is in sight, then what is next to it.
RequestVisible(first, last) ==
  /\ timer
  /\ timer' = FALSE
  /\ IF status # "ready"
     THEN UNCHANGED <<states, kept, queue, slots, tasks>>
     ELSE \E shown \in {SubSeq(order, first, last)} :
          \E current \in {IF active = NoPage THEN <<>> ELSE <<active>>} :
          \E around \in {Ascending(Neighbors(shown))} :
            /\ kept' = Touch(kept, current \o shown \o around)
            /\ \E q0 \in {QueuePages(queue, kept, order, current, 0)} :
               \E q1 \in {QueuePages(q0, kept, order, shown, 1)} :
                 Pump(QueuePages(q1, kept, order, around, 2), slots, states, tasks)
  /\ UNCHANGED <<docVars, icons, buttons, active, nextRow, answers, asking>>

\* ensure_thumbnail for each page of `asked`, in order.
Ensure(asked) ==
  IF status # "ready"
  THEN UNCHANGED <<states, queue, slots, tasks>>
  ELSE Pump(QueuePages(queue, kept, order, asked, 1), slots, states, tasks)

\* What the buttons show once the panel asked the cache for the pages in S.
Refreshed(S) ==
  [p \in Pages |->
     IF p \in S \cap KeptPages(kept)
     THEN Entry(kept, p).of
     ELSE buttons[p]]

\* The panel's _request_visible_thumbnails: the rows in sight and the active page.
PanelRequest(first, last) ==
  /\ asking
  /\ asking' = FALSE
  /\ LET shown == SubSeq(order, first, last)
         asked == IF active = NoPage \/ active \in Members(shown) THEN shown
                  ELSE Append(shown, active)
     IN /\ Ensure(asked)
        /\ kept' = Touch(kept, asked)
        /\ buttons' = Refreshed(Members(asked))
  /\ UNCHANGED <<docVars, icons, active, nextRow, answers, timer>>

\* The user makes a page current; the panel asks for its picture.
SetActivePage(p) ==
  /\ p \in Members(order)
  /\ active # p
  /\ active' = p
  /\ IF layout = "strip"
     THEN Ensure(<<p>>) /\ kept' = IF status = "ready" THEN Touch(kept, <<p>>) ELSE kept
     ELSE UNCHANGED <<states, queue, slots, tasks, kept>>
  /\ UNCHANGED <<docVars, icons, buttons, nextRow, answers, timer, asking>>

(***************************************************************************)
(* The order of the rows, in a grid.                                       *)
(***************************************************************************)
\* move_row_to_insertion, the row having another place afterwards.
MoveRow(row, target) ==
  /\ layout = "grid"
  /\ {row, target} \subseteq DOMAIN order /\ row # target
  /\ LET rest == [i \in 1 .. Len(order) - 1 |-> IF i < row THEN order[i] ELSE order[i + 1]]
     IN order' = SubSeq(rest, 1, target - 1) \o <<order[row]>>
                   \o SubSeq(rest, target, Len(rest))
  /\ UNCHANGED <<layout, opening, status, announced, source>>
  /\ UNCHANGED <<states, listVars, workVars, timer, asking>>

\* duplicate_selected: a copy of the row behind it, which becomes current.
DuplicateRow(row) ==
  /\ layout = "grid"
  /\ row \in DOMAIN order
  /\ Len(order) < MaxRows
  /\ order' = SubSeq(order, 1, row) \o SubSeq(order, row, Len(order))
  /\ active' = order[row]
  /\ UNCHANGED <<layout, opening, status, announced, source>>
  /\ UNCHANGED <<states, icons, buttons, kept, nextRow, workVars, timer, asking>>

(***************************************************************************)
(* The tasks and their answers.                                            *)
(***************************************************************************)
\* A task returns what the worker made of the page, or a failure.
TaskEnds(t, ok) ==
  /\ t \in tasks
  /\ tasks' = tasks \ {t}
  /\ answers' = answers \cup {[of |-> t.of, page |-> t.page, ok |-> ok]}
  /\ UNCHANGED <<docVars, states, listVars, queue, slots, timer, asking>>

\* _document_ready: the list is filled unless it was, its first row becomes current
\* unless one is, and the first pictures are asked for.
DocumentReady(a, count) ==
  /\ a \in answers /\ a.of = opening /\ a.page = Document /\ a.ok
  /\ answers' = answers \ {a}
  /\ status' = "ready"
  /\ LET n == IF announced # 0 THEN announced ELSE count
         rows == IF order = <<>> THEN FirstPages(n) ELSE order
     IN /\ order' = rows
        /\ source' = IF order = <<>> THEN n ELSE source
        /\ active' = IF active = NoPage THEN rows[1] ELSE active
        /\ IF layout = "strip"
           THEN AskForRows(rows, nextRow) /\ UNCHANGED timer
           ELSE timer' = TRUE /\ UNCHANGED <<kept, nextRow, queue, slots, tasks, states>>
  /\ UNCHANGED <<layout, opening, announced, icons, buttons, asking>>

\* The document could not be read: every page of the list is marked.
DocumentFailed(a) ==
  /\ a \in answers /\ a.of = opening /\ a.page = Document /\ ~a.ok
  /\ answers' = answers \ {a}
  /\ status' = "error"
  /\ states' = [p \in Pages |-> IF p \in Members(order) THEN "error" ELSE states[p]]
  /\ UNCHANGED <<layout, opening, announced, source, order>>
  /\ UNCHANGED <<listVars, queue, slots, tasks, timer, asking>>

\* An answer of an earlier opening is for nobody.
StaleAnswer(a) ==
  /\ a \in answers /\ a.of # opening
  /\ answers' = answers \ {a}
  /\ UNCHANGED <<docVars, states, listVars, queue, slots, tasks, timer, asking>>

\* _page_rendered, with a picture.  What it evicts from the cache loses its picture
\* in the list as well; the panel's buttons keep theirs.
PageRendered(a) ==
  /\ a \in answers /\ a.of = opening /\ a.page \in slots /\ a.ok
  /\ answers' = answers \ {a}
  /\ kept' = Put(kept, [page |-> a.page, of |-> a.of])
  /\ LET evicted == KeptPages(kept) \ KeptPages(kept')
         said == [p \in Pages |-> IF p = a.page THEN "ready"
                                  ELSE IF p \in evicted THEN "loading" ELSE states[p]]
     IN /\ icons' = [p \in Pages |-> IF p = a.page THEN a.of
                                     ELSE IF p \in evicted THEN Blank ELSE icons[p]]
        /\ Pump(queue, slots \ {a.page}, said, tasks)
  /\ buttons' = IF layout = "strip" THEN [buttons EXCEPT ![a.page] = a.of] ELSE buttons
  /\ UNCHANGED <<docVars, active, nextRow, timer, asking>>

PageFailedAndForgotten(a) ==
  /\ a \in answers /\ a.of = opening /\ a.page \in slots /\ ~a.ok
  /\ answers' = answers \ {a}
  /\ icons' = [icons EXCEPT ![a.page] = Blank]
  /\ states' = [states EXCEPT ![a.page] = "error"]
  /\ slots' = slots \ {a.page}
  /\ UNCHANGED <<docVars, buttons, kept, active, nextRow, queue, tasks, timer, asking>>

\* _page_rendered, without one: the page is marked and its slot given on.
PageFailed(a) ==
  /\ a \in answers /\ a.of = opening /\ a.page \in slots /\ ~a.ok
  /\ answers' = answers \ {a}
  /\ icons' = [icons EXCEPT ![a.page] = Blank]
  /\ Pump(queue, slots \ {a.page}, [states EXCEPT ![a.page] = "error"], tasks)
  /\ UNCHANGED <<docVars, buttons, kept, active, nextRow, timer, asking>>

Rows == {r \in (1 .. MaxRows) \X (1 .. MaxRows) :
           r[1] <= r[2] /\ r[2] <= Len(order)}

TimerFires ==
  \/ order = <<>> /\ RequestVisible(1, 0)
  \/ \E r \in Rows : RequestVisible(r[1], r[2])

PanelFires ==
  \/ order = <<>> /\ PanelRequest(1, 0)
  \/ \E r \in Rows : PanelRequest(r[1], r[2])

\* What only the user causes.
Gesture ==
  \/ \E count \in PageCounts \cup {0} : SetDocument(count)
  \/ ClearDocument
  \/ RenderNextBatch
  \/ Scroll
  \/ \E p \in Pages : SetActivePage(p)
  \/ \E row, target \in 1 .. MaxRows : MoveRow(row, target)
  \/ \E row \in 1 .. MaxRows : DuplicateRow(row)

Deliver(a) ==
  \/ \E count \in PageCounts : DocumentReady(a, count)
  \/ DocumentFailed(a)
  \/ StaleAnswer(a)
  \/ PageRendered(a)
  \/ PageFailed(a)

\* Only while pictures are awaited does it matter whether the user stays.
Leave ==
  /\ ~away /\ Pending # {}
  /\ away' = TRUE
  /\ UNCHANGED <<docVars, states, listVars, workVars, timer, asking>>

TaskReturns == \E t \in tasks, ok \in BOOLEAN : TaskEnds(t, ok)
AnswerArrives == \E a \in answers : Deliver(a)

Reaction ==
  /\ TimerFires \/ PanelFires \/ TaskReturns \/ AnswerArrives
  /\ away' = away

Next ==
  \/ ~away /\ Gesture /\ away' = away
  \/ Leave
  \/ Reaction

Spec == Init /\ [][Next]_vars

\* While some task runs or some answer is on its way, one of them goes on: a task's worker
\* has a deadline, and the event loop delivers.  Nothing is assumed of the timers and of
\* the user.
Fairness == WF_vars((TaskReturns \/ AnswerArrives) /\ away' = away)

FairSpec == Spec /\ Fairness

(***************************************************************************)
(* Properties.                                                             *)
(***************************************************************************)
TypeOK ==
  /\ layout \in Layouts
  /\ opening \in Openings
  /\ status \in {"null", "loading", "ready", "error"}
  /\ {announced, source} \subseteq PageCounts \cup {0}
  /\ order \in Seq(Pages)
  /\ states \in [Pages -> {"loading", "ready", "error"}]
  /\ icons \in [Pages -> Openings] /\ buttons \in [Pages -> Openings]
  /\ kept \in Seq(Pictures)
  /\ active \in Pages \cup {NoPage}
  /\ nextRow \in Nat
  /\ queue \in Seq([page : Pages, priority : 0 .. 2])
  /\ slots \in SUBSET Pages
  /\ tasks \in SUBSET Tasks
  /\ answers \in SUBSET [of : Openings, page : Pages \cup {Document}, ok : BOOLEAN]
  /\ timer \in BOOLEAN /\ asking \in BOOLEAN

\* Every picture in the list, on the panel's buttons and in the cache was made of the
\* document that is open now, although tasks of earlier ones answer after the change
\* (clear_document, RemotePdfDocument._completed).
PicturesAreOfThisOpening ==
  /\ \A p \in Pages : icons[p] \in {Blank, opening} /\ buttons[p] \in {Blank, opening}
  /\ \A i \in DOMAIN kept : kept[i].of = opening

\* The list holds exactly the pictures the bounded cache holds, and says "ready" of
\* exactly those pages: the bound is one on what the list shows, and no page is called
\* ready without a picture (_page_rendered, ThumbnailMemoryCache.put).
ListShowsTheCache ==
  /\ Len(kept) <= Capacity
  /\ KeptPages(kept) = {p \in Pages : icons[p] # Blank}
  /\ KeptPages(kept) = {p \in Pages : states[p] = "ready"}

\* Each slot of the scheduler is held by a task that will answer for it, and by one
\* only; a page waits only while all slots are taken, and neither waits nor is under
\* way when its picture is kept.  A slot that nobody frees would stop the queue for good
\* (ThumbnailRenderScheduler.start_available and complete).
SlotsAreAlive ==
  /\ Cardinality(slots) <= MaxInFlight
  /\ \A p \in slots :
       \/ [of |-> opening, page |-> p] \in tasks
       \/ \E ok \in BOOLEAN : [of |-> opening, page |-> p, ok |-> ok] \in answers
  /\ queue # <<>> => Cardinality(slots) = MaxInFlight
  /\ QueuedPages(queue) \cap slots = {}
  /\ KeptPages(kept) \cap Pending = {}

\* The list shows what the cache holds, and every page that waits has a task to wait for.
CacheAndSlotsAgree == ListShowsTheCache /\ SlotsAreAlive

\* Once the user stops scrolling and clicking, every page that waits or is under way gets
\* its answer (_pump_thumbnail_requests after each answer).
RequestsAreSettled ==
  \A p \in Pages : (away /\ p \in Pending) ~> (p \notin Pending)
=============================================================================
