------------------------------ MODULE SharePage ------------------------------
(***************************************************************************)
(* Check before sharing (ui/tool_pages/share_pdf_page.py,                   *)
(* engine/pdf_share.py): a PDF is inspected as soon as it is given, its     *)
(* metadata are removed or its pages photographed after a preview, and the *)
(* result is inspected in its turn.  One inspection and one job run at a    *)
(* time, each in a thread of its own, while the user goes on.              *)
(*                                                                         *)
(* The page is a record, so that a handler that calls another one is a     *)
(* composition of operators:                                               *)
(*   input, report, result, pending, loading, ready, discard, photo, final  *)
(*              the attributes of the page of these names                  *)
(*   inspecting whether an inspection runs; inspected, print: its file and  *)
(*              the identity that file had                                 *)
(*   preview    _preview_identity, 0 for None                              *)
(*   pictured   the version the photographed candidate was made from        *)
(*   previewing _preview_running                                           *)
(*   replace    "Replace this PDF" of the output zone                       *)
(*   usable     whether the controls are enabled, as last updated           *)
(* The identity of a file is the number of its version: it changes at each  *)
(* write and never comes back (its ctime is part of it).  Copy stands for   *)
(* the new file an operation makes.  What the source check refuses only     *)
(* keeps the user from starting, as the user may too.                      *)
(***************************************************************************)
EXTENDS Naturals

CONSTANTS
  Paths,       \* the files of the user
  Copy,        \* the output of an operation that replaces nothing
  NoPath,
  MaxVersion   \* bound: the versions of each file

Files == Paths \cup {Copy}
NoReport == [path |-> NoPath, version |-> 0]
NoJob == [kind |-> "none"]

VARIABLES
  disk,      \* the version of each file
  selected,  \* the document selected in the window
  visible,   \* the page is on screen
  page,      \* the record above
  job,       \* the running job
  asking,    \* the question before a replacement is on screen
  asked      \* history: the file the last confirmed question was about

screen == <<selected, visible>>
question == <<asking, asked>>
vars == <<disk, screen, page, job, question>>

BlankPage ==
  [input |-> NoPath, report |-> NoReport, result |-> NoPath, pending |-> FALSE,
   inspecting |-> FALSE, inspected |-> NoPath, print |-> 0, preview |-> 0,
   pictured |-> 0, loading |-> FALSE, ready |-> FALSE, previewing |-> FALSE,
   discard |-> FALSE, photo |-> FALSE, final |-> FALSE, replace |-> FALSE,
   usable |-> TRUE]

JobRuns == job # NoJob
Identity(p) == IF p = NoPath THEN 0 ELSE disk[p]
Busy(g) == JobRuns \/ g.inspecting \/ g.loading

(***************************************************************************)
(* The handlers of the page.                                               *)
(***************************************************************************)
UpdateState(g) == [g EXCEPT !.usable = ~Busy(g)]

ClearPreview(g) ==
  [g EXCEPT !.loading = FALSE, !.ready = FALSE, !.preview = 0, !.pictured = 0]

Inspect(g, p) ==
  UpdateState([g EXCEPT !.pending = FALSE, !.inspecting = TRUE, !.inspected = p,
                        !.print = Identity(p), !.report = NoReport])

InspectSource(g) == IF g.input # NoPath /\ ~Busy(g) THEN Inspect(g, g.input) ELSE g

\* A live inspection of the same version of the same file.
SameInspection(g, p) ==
  /\ ~g.discard /\ ~g.pending /\ g.inspecting
  /\ p = g.input /\ p = g.inspected /\ Identity(p) = g.print

\* A new source empties the output zone, and with it the box to replace.
GivenSource(g, p) ==
  ClearPreview([g EXCEPT !.discard = FALSE, !.input = p, !.report = NoReport,
                         !.result = NoPath, !.replace = FALSE])

\* _set_input
SetInput(g, p) ==
  IF JobRuns \/ SameInspection(g, p) THEN g
  ELSE LET given == GivenSource(g, p)
       IN  UpdateState(IF g.inspecting THEN [given EXCEPT !.pending = TRUE]
                       ELSE InspectSource(given))

\* set_workspace_document
SetDocument(g, p) ==
  IF g.discard \/ p # g.input \/ (g.report = NoReport /\ ~Busy(g)) THEN SetInput(g, p) ELSE g

\* _sync_page_workspace: a tool keeps the file it is processing.
Synced(g, p) == IF g.input # NoPath /\ Busy(g) THEN g ELSE SetDocument(g, p)

\* _destination_changed
DestinationChanged(g) == UpdateState([g EXCEPT !.result = IF g.final THEN @ ELSE NoPath])

\* _mode_changed
ModeChanged(g) ==
  UpdateState(InspectSource(ClearPreview([g EXCEPT !.photo = ~@, !.result = NoPath])))

\* _cancel_running; an accepted cancellation ends the job and the inspection as failed.
CancelRunning(g) ==
  LET stopped == [g EXCEPT !.pending = FALSE]
  IN  IF g.loading THEN UpdateState(ClearPreview(stopped)) ELSE stopped

\* hideEvent
Hidden(g) ==
  IF g.final THEN ClearPreview([g EXCEPT !.pending = FALSE])
  ELSE [ClearPreview(CancelRunning([g EXCEPT !.discard = TRUE])) EXCEPT !.report = NoReport]

(***************************************************************************)
(* The end of an inspection.                                               *)
(***************************************************************************)
Expected(g) == IF g.result # NoPath THEN g.result ELSE g.input

\* read: the version the inspection read, 0 if it failed.
Reported(g, read) ==
  IF g.inspected # Expected(g) THEN g
  ELSE [g EXCEPT !.report = IF Identity(g.inspected) = g.print /\ read # 0
                            THEN [path |-> g.inspected, version |-> read]
                            ELSE NoReport]

\* _inspection_finished
InspectionEnded(g, read) ==
  LET free == [g EXCEPT !.inspecting = FALSE]
  IN  CASE g.discard -> free
        [] ~g.discard /\ g.pending -> InspectSource(free)
        [] OTHER -> UpdateState(Reported(free, read))

(***************************************************************************)
(* The window.                                                             *)
(***************************************************************************)
\* NavigationController.show: the page is synchronised, then given the context.
Show(p) ==
  /\ ~asking
  /\ selected' = p /\ visible' = TRUE
  /\ page' = SetInput(Synced(page, p), p)
  /\ UNCHANGED <<disk, job, question>>

StopJob == job' = IF JobRuns THEN [job EXCEPT !.cancelled = TRUE] ELSE job

Hide ==
  /\ visible /\ ~asking
  /\ visible' = FALSE
  /\ page' = Hidden(page)
  /\ IF page.final THEN job' = job ELSE StopJob
  /\ UNCHANGED <<disk, selected, question>>

\* Another document is selected in the sidebar.
Select(p) ==
  /\ visible /\ ~asking /\ selected \notin {p, NoPath}
  /\ selected' = p
  /\ page' = Synced(page, p)
  /\ UNCHANGED <<disk, visible, job, question>>

\* _refresh_workspace_views, for a reason that is not of this page, a question or not.
Refreshed ==
  /\ visible /\ selected # NoPath
  /\ page' = Synced(page, selected)
  /\ page' # page
  /\ UNCHANGED <<disk, screen, job, question>>

(***************************************************************************)
(* The user.                                                               *)
(***************************************************************************)
Controls == visible /\ ~asking /\ page.usable

\* _handle_files: the file becomes the selected document too.
HandleFiles(p) ==
  /\ Controls /\ ~JobRuns
  /\ selected' = p
  /\ page' = Synced(SetInput(page, p), p)
  /\ UNCHANGED <<disk, visible, job, question>>

ChangeMode ==
  /\ Controls
  /\ page' = ModeChanged(page)
  /\ UNCHANGED <<disk, screen, job, question>>

Recompute ==
  /\ Controls /\ page.input # NoPath
  /\ page' = InspectSource(page)
  /\ UNCHANGED <<disk, screen, job, question>>

ToggleReplace ==
  /\ Controls /\ page.input # NoPath
  /\ page' = DestinationChanged([page EXCEPT !.replace = ~@])
  /\ UNCHANGED <<disk, screen, job, question>>

Cancel ==
  /\ visible /\ ~asking /\ Busy(page)
  /\ StopJob
  /\ page' = CancelRunning(page)
  /\ UNCHANGED <<disk, screen, question>>

(***************************************************************************)
(* The jobs.                                                               *)
(***************************************************************************)
NewJob ==
  [kind |-> "metadata", path |-> NoPath, identity |-> 0, previewed |-> 0, replaces |-> FALSE,
   opened |-> 0, cancelled |-> FALSE, done |-> FALSE, success |-> FALSE]

StartedUnidentified(g, kind) ==   \* mutant: the job photographs whatever it finds
  [NewJob EXCEPT !.kind = kind, !.path = g.input,
                 !.previewed = g.pictured, !.replaces = kind # "preview" /\ g.replace]

\* _build_job, _launch: a preview and a photograph carry the identity of the preview.
Started(g, kind) ==
  [NewJob EXCEPT !.kind = kind, !.path = g.input,
                 !.identity = IF kind = "metadata" THEN 0 ELSE g.preview,
                 !.previewed = g.pictured, !.replaces = kind # "preview" /\ g.replace]

\* _start_preview
StartPreview ==
  /\ Controls /\ page.photo /\ page.input # NoPath /\ ~Busy(page)
  /\ LET g == [ClearPreview(page) EXCEPT !.preview = Identity(page.input),
                                         !.previewing = TRUE, !.result = NoPath]
     IN  /\ job' = Started(g, "preview")
         /\ page' = [g EXCEPT !.usable = FALSE]
  /\ UNCHANGED <<disk, screen, question>>

FinalKind(g) == IF g.photo THEN "photo" ELSE "metadata"

\* _start, after the question: nothing is looked at again but that the file exists.
Launch(g) ==
  /\ job' = Started(g, FinalKind(g))
  /\ page' = [g EXCEPT !.result = NoPath, !.final = TRUE, !.usable = FALSE]

\* _start: blocked, refused because the source changed, asking, or launching.
Start ==
  /\ visible /\ ~asking /\ ~Busy(page) /\ page.input # NoPath
  /\ page.photo => page.ready
  /\ IF page.photo /\ Identity(page.input) # page.preview
     THEN /\ page' = UpdateState(ClearPreview(page))
          /\ UNCHANGED <<job, question>>
     ELSE IF page.replace
          THEN /\ asking' = TRUE /\ asked' = page.input
               /\ UNCHANGED <<page, job>>
          ELSE /\ Launch(page)
               /\ UNCHANGED question
  /\ UNCHANGED <<disk, screen>>

\* dialog.exec() returns: the window went on meanwhile.
Answer(yes) ==
  /\ asking /\ asking' = FALSE
  /\ IF yes THEN Launch(page) ELSE UNCHANGED <<page, job>>
  /\ UNCHANGED <<disk, screen, asked>>

\* run_share_job: the file is opened, and must be the version the page names.
EngineOpens ==
  /\ JobRuns /\ ~job.done /\ job.opened = 0
  /\ job' = IF job.identity \in {0, Identity(job.path)}
            THEN [job EXCEPT !.opened = Identity(job.path)]
            ELSE [job EXCEPT !.done = TRUE]
  /\ UNCHANGED <<disk, screen, page, question>>

\* The end of run_share_job: the file must still be the one opened; then the output is published.
EngineSucceeds ==
  /\ JobRuns /\ ~job.done /\ ~job.cancelled
  /\ job.opened # 0 /\ job.opened = Identity(job.path)
  /\ job' = [job EXCEPT !.done = TRUE, !.success = TRUE]
  /\ LET target == IF job.replaces THEN job.path ELSE Copy
     IN  IF job.kind = "preview" THEN UNCHANGED disk
         ELSE disk[target] < MaxVersion /\ disk' = [disk EXCEPT ![target] = @ + 1]
  /\ UNCHANGED <<screen, page, question>>

EngineFails ==
  /\ JobRuns /\ ~job.done
  /\ job' = [job EXCEPT !.done = TRUE]
  /\ UNCHANGED <<disk, screen, page, question>>

\* _update_state, when the job has just ended
Settled(g) == [g EXCEPT !.usable = ~g.inspecting /\ ~g.loading]

\* _operation_finished, of a preview
PreviewMade(g) ==
  LET ended == [g EXCEPT !.previewing = FALSE]
  IN  Settled(IF job.success /\ visible /\ Identity(g.input) = g.preview
              THEN [ended EXCEPT !.ready = FALSE, !.loading = TRUE, !.pictured = job.opened]
              ELSE ClearPreview(ended))

\* _operation_finished, of the operation itself: the result is inspected.
FinalMade(g) ==
  LET output == IF job.replaces THEN job.path ELSE Copy
      ended == [g EXCEPT !.final = FALSE]
      shown == ClearPreview([ended EXCEPT !.result = output])
  IN  Settled(IF ~job.success THEN ended
              ELSE IF g.discard \/ g.inspecting THEN shown
              ELSE Inspect(shown, output))

OperationFinished ==
  /\ JobRuns /\ job.done
  /\ job' = NoJob
  /\ page' = IF page.previewing THEN PreviewMade(page) ELSE FinalMade(page)
  /\ UNCHANGED <<disk, screen, question>>

\* _preview_loaded
PreviewLoaded(ok) ==
  /\ page.loading
  /\ page' = UpdateState(IF ok /\ visible /\ Identity(page.input) = page.preview
                         THEN [page EXCEPT !.loading = FALSE, !.ready = TRUE]
                         ELSE ClearPreview(page))
  /\ UNCHANGED <<disk, screen, job, question>>

\* The thread ends before the page hears of it: what it read, or nothing.
InspectionFinished(read) ==
  /\ page.inspecting
  /\ read \in {0} \cup page.print .. Identity(page.inspected)
  /\ page' = InspectionEnded(page, read)
  /\ UNCHANGED <<disk, screen, job, question>>

\* Another program writes a file.
Rewrite(p) ==
  /\ disk[p] < MaxVersion
  /\ disk' = [disk EXCEPT ![p] = @ + 1]
  /\ UNCHANGED <<screen, page, job, question>>

Init ==
  /\ disk = [f \in Files |-> IF f = Copy THEN 0 ELSE 1]
  /\ selected = NoPath /\ visible = FALSE
  /\ page = BlankPage
  /\ job = NoJob
  /\ asking = FALSE /\ asked = NoPath

Next ==
  \/ \E p \in Paths : Show(p) \/ Select(p) \/ HandleFiles(p) \/ Rewrite(p)
  \/ Hide \/ Refreshed
  \/ ChangeMode \/ Recompute \/ ToggleReplace \/ Cancel
  \/ StartPreview \/ Start
  \/ \E yes \in BOOLEAN : Answer(yes)
  \/ EngineOpens \/ EngineSucceeds \/ EngineFails
  \/ OperationFinished
  \/ \E ok \in BOOLEAN : PreviewLoaded(ok)
  \/ \E read \in 0 .. MaxVersion : InspectionFinished(read)

Spec == Init /\ [][Next]_vars
-----------------------------------------------------------------------------
(***************************************************************************)
(* Properties.                                                             *)
(***************************************************************************)

\* A source is replaced only when its own replacement was confirmed, and by photographs only
\* if a preview of it was on the page: the window goes on while the question is on screen.
ReplacedIsTheConfirmed ==
  JobRuns /\ job.replaces => job.path = asked /\ (job.kind = "photo" => job.previewed # 0)

\* What is photographed is the version whose photograph was looked at, whoever wrote the source
\* since, unless the preview was withdrawn while the question was on screen.
PhotographIsThePreview ==
  JobRuns /\ job.kind = "photo" /\ job.success => job.previewed \in {0, job.opened}

\* The report on the page is about its source or the copy made from it, never about a source
\* given before, whichever inspection ended last.
ReportIsOfTheSource ==
  page.report # NoReport => page.report.path \in {page.input, Copy}

\* A page off the screen neither shows nor loads a preview.
HiddenShowsNoPreview == ~visible => ~page.ready /\ ~page.loading

(* What the page does is what was shown and confirmed, and what it shows is *)
(* of its source, in whatever order the threads, the question and the        *)
(* refreshes of the window end (_confirm_replacement, _report_is_current,    *)
(* _inspection_finished, hideEvent).                                        *)
DoneAsShown ==
  ReplacedIsTheConfirmed /\ PhotographIsThePreview /\ ReportIsOfTheSource /\ HiddenShowsNoPreview

\* docs/wiki/en/features/share_check.md: "returning to the tool starts inspection again"
\* (unless an operation that goes on behind the other page still runs).
ReturnStartsInspection ==
  [][~visible /\ visible' /\ ~page.final => page'.inspecting]_vars
=============================================================================
