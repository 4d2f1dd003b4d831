------------------------------ MODULE InsertPages ------------------------------
(***************************************************************************)
(* Insert pages of a PDF into another (ui/tool_pages/insert_pdf_pages_page  *)
(* .py): two sources, each counted in a thread of its own with one place in *)
(* its queue, the pages chosen in the second and the place in the first.    *)
(*                                                                         *)
(* The page is a record of functions over the two sides:                    *)
(*   input    _primary_path and _inserted_path                              *)
(*   count    the <<path, version>> whose pages were counted, NoCount if     *)
(*            None                                                          *)
(*   queued   _queued_primary_path and _queued_inserted_path                 *)
(*   running  the path each runner is busy with, from version print on       *)
(*   filed    the version each source check filed its answer under           *)
(* and of the plan: chosen, the selected pages of the second document, and    *)
(* position, the value of the field.  Version v of a file has v pages.  A     *)
(* refresh of the window by the answer itself is a step of its own here       *)
(* (CountedSources has it inside).                                           *)
(***************************************************************************)
EXTENDS Naturals

CONSTANTS Paths, NoPath,
  MaxVersion,  \* bound: the versions of each file
  Unusable     \* the <<path, version>> whose pages cannot be counted

VARIABLES
  disk,       \* the version of each file
  documents,  \* the open documents
  selected,   \* the selected one
  visible,    \* the page is on screen
  page,       \* the record above
  job         \* the request of the running job

vars == <<disk, documents, selected, visible, page, job>>

Sides == {"first", "second"}
NoCount == <<NoPath, 0>>
NoJob == [files |-> <<NoPath, NoPath>>]
JobRuns == job # NoJob
PagesOf(count) == 1 .. count[2]

Stale(g, side, path) == g.filed[side][path] # 0 /\ g.filed[side][path] # disk[path]

StartCount(g, side, path) == [g EXCEPT !.running[side] = path, !.print[side] = disk[path]]

\* The grid of the second document is emptied with it.
ForgetPlan(g, side) == IF side = "second" THEN [g EXCEPT !.chosen = {}] ELSE g

\* _set_primary_path and _set_inserted_path
SetPath(g, side, path) ==
  LET taken == ForgetPlan([g EXCEPT !.input[side] = path, !.count[side] = NoCount], side)
  IN  IF taken.running[side] # NoPath THEN [taken EXCEPT !.queued[side] = path]
      ELSE StartCount(taken, side, path)

\* _populate_positions: the place stays where it was if the document is long enough.
Populate(g) ==
  [g EXCEPT !.position = IF @ > g.count["first"][2] THEN g.count["first"][2] ELSE @]

CountedAs(g, side, path, version) ==
  LET told == [g EXCEPT !.count[side] = <<path, version>>]
  IN  IF side = "first" THEN Populate(told) ELSE [told EXCEPT !.chosen = 1 .. version]

Uncounted(g, side) == [g EXCEPT !.count[side] = NoCount]

Restarted(g, side, next) == IF next = NoPath THEN g ELSE StartCount(g, side, next)

AnswerForAny(g, side, path, version, ok) ==
  LET next == g.queued[side]
      free == [g EXCEPT !.running[side] = NoPath, !.queued[side] = NoPath,
                        !.filed[side][path] = disk[path]]
  IN  Restarted(IF ok THEN CountedAs(free, side, path, version) ELSE Uncounted(free, side),
                side, next)

\* _handle_count_result, the runner being free again.
Answer(g, side, path, version, ok) ==
  LET next == g.queued[side]
      free == [g EXCEPT !.running[side] = NoPath, !.queued[side] = NoPath,
                        !.filed[side][path] = disk[path]]
  IN  IF g.input[side] # path THEN Restarted(free, side, next)
      ELSE Restarted(IF ok THEN CountedAs(free, side, path, version) ELSE Uncounted(free, side),
                     side, IF next = path THEN NoPath ELSE next)

(***************************************************************************)
(* What the window gives to the page.                                      *)
(***************************************************************************)
TakeFirst(g, path) ==
  IF g.input["first"] # path \/ Stale(g, "first", path) THEN SetPath(g, "first", path) ELSE g

\* set_workspace_document: a second document is taken once, from those that are open.
TakeDocument(g, path) ==
  IF path = NoPath THEN {g}
  ELSE LET first == TakeFirst(g, path)
           others == documents \ {path}
       IN  IF first.input["second"] # NoPath \/ others = {} THEN {first}
           ELSE {SetPath(first, "second", p) : p \in others}

\* A tool that works is left alone.
Refreshes(g, path) == IF JobRuns THEN {g} ELSE TakeDocument(g, path)

HandleFirst(path) ==
  /\ visible /\ ~JobRuns
  /\ documents' = documents \cup {path} /\ selected' = path
  /\ page' = SetPath(page, "first", path)
  /\ UNCHANGED <<disk, visible, job>>

HandleSecond(path) ==
  /\ visible /\ ~JobRuns
  /\ documents' = documents \cup {path}
  /\ page' = SetPath(page, "second", path)
  /\ UNCHANGED <<disk, selected, visible, job>>

Select(path) ==
  /\ documents' = documents \cup {path} /\ selected' = path
  /\ page' \in IF visible THEN Refreshes(page, path) ELSE {page}
  /\ UNCHANGED <<disk, visible, job>>

Refresh ==
  /\ visible /\ page' \in Refreshes(page, selected)
  /\ UNCHANGED <<disk, documents, selected, visible, job>>

\* set_tool_launch_context, even during a job: the second of two chosen documents too.
ShowPage ==
  /\ ~visible /\ visible' = TRUE
  /\ \E g \in Refreshes(page, selected) :
       IF selected = NoPath THEN page' = g
       ELSE \/ page' = TakeFirst(g, selected)
            \/ \E p \in documents \ {selected} :
                 page' = IF g.input["second"] = p THEN TakeFirst(g, selected)
                         ELSE SetPath(TakeFirst(g, selected), "second", p)
  /\ UNCHANGED <<disk, documents, selected, job>>

LeavePage == visible /\ visible' = FALSE /\ UNCHANGED <<disk, documents, selected, page, job>>

(***************************************************************************)
(* The counts, the plan and the job.                                       *)
(***************************************************************************)
CountAnswers(side) ==
  /\ page.running[side] # NoPath
  /\ LET path == page.running[side]
     IN  \E v \in page.print[side] .. disk[path] :
           page' = Answer(page, side, path, v, <<path, v>> \notin Unusable)
  /\ UNCHANGED <<disk, documents, selected, visible, job>>

\* The grids and the field are disabled during a job, the field also without a count.
AtWork == visible /\ ~JobRuns
ChoosePages(S) ==
  /\ AtWork /\ page.count["second"] # NoCount /\ S \subseteq PagesOf(page.count["second"])
  /\ page' = [page EXCEPT !.chosen = S]
  /\ UNCHANGED <<disk, documents, selected, visible, job>>

ChoosePosition(n) ==
  /\ AtWork /\ page.count["first"] # NoCount /\ n <= page.count["first"][2]
  /\ page' = [page EXCEPT !.position = n]
  /\ UNCHANGED <<disk, documents, selected, visible, job>>

\* _blocker
Blocked ==
  \/ \E side \in Sides : page.count[side] = NoCount
  \/ page.input["first"] = page.input["second"]
  \/ page.chosen = {}

StartOperation ==
  /\ AtWork /\ ~Blocked
  /\ job' = [files |-> <<page.input["first"], page.input["second"]>>, pages |-> page.chosen,
             after |-> page.position]
  /\ UNCHANGED <<disk, documents, selected, visible, page>>

OperationFinished ==
  JobRuns /\ job' = NoJob /\ UNCHANGED <<disk, documents, selected, visible, page>>

Rewrite(path) ==
  /\ disk[path] < MaxVersion[path]
  /\ disk' = [disk EXCEPT ![path] = @ + 1]
  /\ UNCHANGED <<documents, selected, visible, page, job>>

Init ==
  /\ disk = [p \in Paths |-> 1] /\ documents = {} /\ selected = NoPath /\ visible = FALSE
  /\ page = [input |-> [s \in Sides |-> NoPath], count |-> [s \in Sides |-> NoCount],
             queued |-> [s \in Sides |-> NoPath], running |-> [s \in Sides |-> NoPath],
             print |-> [s \in Sides |-> 0], filed |-> [s \in Sides |-> [p \in Paths |-> 0]],
             chosen |-> {}, position |-> 0]
  /\ job = NoJob

WindowActs == Refresh \/ ShowPage \/ LeavePage
              \/ \E p \in Paths : HandleFirst(p) \/ HandleSecond(p) \/ Select(p) \/ Rewrite(p)

Numbers == UNION {0 .. MaxVersion[p] : p \in Paths}
UserPlans == StartOperation \/ (\E n \in Numbers : ChoosePosition(n))
             \/ \E S \in SUBSET (Numbers \ {0}) : ChoosePages(S)

Next == WindowActs \/ UserPlans \/ OperationFinished \/ \E s \in Sides : CountAnswers(s)

Spec == Init /\ [][Next]_vars

-----------------------------------------------------------------------------
(* What is inserted exists and fits.  The counts on the page are of its own   *)
(* two sources, whichever answers of earlier ones arrive; the pages chosen     *)
(* are pages of the second document and the place is in the first, although    *)
(* the selection and the field outlive changes of either source; and a job      *)
(* inserts pages of one document into another (_handle_count_result,           *)
(* _populate_positions, _build_job).                                         *)
InsertionFits ==
  /\ \A s \in Sides : page.count[s] # NoCount => page.count[s][1] = page.input[s]
  /\ page.chosen \subseteq PagesOf(page.count["second"])
  /\ page.count["first"] # NoCount => page.position <= page.count["first"][2]
  /\ JobRuns => job.files[1] # job.files[2] /\ job.pages # {}

=============================================================================
