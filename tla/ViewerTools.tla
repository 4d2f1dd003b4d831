------------------------------ MODULE ViewerTools ------------------------------
(***************************************************************************)
(* Redact and watermark (ui/tool_pages/viewer_tool_page.py,                 *)
(* redact_pdf_page.py, watermark_pdf_page.py, ui/components/                *)
(* source_check.py, engine/pdf_share.py): the pages of a PDF are shown,     *)
(* the user sets on them what the job will do, and the job must treat what  *)
(* was shown.  A signed PDF is treated only if the user chooses a copy      *)
(* without its signatures.  Pages are rendered, files counted and jobs run  *)
(* in processes of their own, while another program may write the file.    *)
(*                                                                         *)
(* The page is a record:                                                   *)
(*   input      _input_path                                                *)
(*   identity   _loaded_identity, 0 for ()                                 *)
(*   status     of the document: "closed", "loading", "ready", "error"      *)
(*   drawn      the settings are enough to start (an area, a text)          *)
(*   seen       history: the versions of the pages shown since the loading  *)
(*   queued     a count of the input is waiting                            *)
(*   running    the file being counted, and in print its version then      *)
(*   known      _problems: the version an answer is filed under, 0 for none *)
(*   unusable   _problems: whether the answer names a problem              *)
(*   signed     _signed                                                    *)
(*   ticked     the choice of a copy without the signatures                 *)
(* Versions are as in SharePage; the count compares less of a file than     *)
(* its identity, which no version here tells apart.                        *)
(***************************************************************************)
EXTENDS Naturals

CONSTANTS
  Paths,       \* the files of the user
  NoPath,
  MaxVersion,  \* bound: the versions of each file
  Signed       \* the <<path, version>> that carry a signature

NoJob == [path |-> NoPath]

VARIABLES
  disk,     \* the version of each file
  clears,   \* a new source drops the settings: redact does, watermark does not; fixed
  page,     \* the record above
  picture,  \* the version of a page being rendered, 0 for none
  job,      \* the running job
  chosen    \* history: the file on the page when the choice was last ticked

vars == <<disk, clears, page, picture, job, chosen>>

BlankPage ==
  [input |-> NoPath, identity |-> 0, status |-> "closed", drawn |-> FALSE, seen |-> {},
   queued |-> FALSE, running |-> NoPath, print |-> 0,
   known |-> [p \in Paths |-> 0], unusable |-> [p \in Paths |-> FALSE],
   signed |-> [p \in Paths |-> FALSE], ticked |-> FALSE]

JobRuns == job # NoJob

(***************************************************************************)
(* The check of the source.                                                *)
(***************************************************************************)
Stale(g, p) == g.known[p] \notin {0, disk[p]}

\* _start_next
StartNext(g) ==
  IF g.running # NoPath \/ ~g.queued THEN g
  ELSE [g EXCEPT !.queued = FALSE, !.running = g.input, !.print = disk[g.input]]

\* check
Check(g) ==
  StartNext([g EXCEPT !.queued = g.known[g.input] # disk[g.input] /\ g.running # g.input])

\* _store: the choice falls when what is known of the signatures of the file changes.
Store(g, p, version, bad, sig) ==
  [g EXCEPT !.known[p] = version, !.unusable[p] = bad, !.signed[p] = sig,
            !.ticked = @ /\ g.signed[p] = sig]

AsksForTheChoice(g) == g.input # NoPath /\ g.signed[g.input]

\* blocker_text
CheckBlocks(g) ==
  \/ g.unusable[g.input]
  \/ g.running # NoPath \/ g.queued
  \/ AsksForTheChoice(g) /\ ~g.ticked

(***************************************************************************)
(* The source.                                                             *)
(***************************************************************************)
\* load_document: the identity is taken before anything is rendered.
Load(g, p) ==
  Check([g EXCEPT !.input = p, !.identity = disk[p], !.status = "loading",
                  !.drawn = @ /\ ~clears, !.seen = {}])

NeedsLoading(g, p) == g.input # p \/ Stale(g, p)

\* set_workspace_document and set_tool_launch_context
Given(g, p) == IF NeedsLoading(g, p) THEN Load(g, p) ELSE g

KeepsThePicture(g) ==   \* mutant: a picture asked before is shown after
  /\ page' = g
  /\ UNCHANGED <<disk, clears, picture, job, chosen>>

\* A loading drops the pictures asked before.
Reloaded(g) ==
  /\ page' = g
  /\ picture' = IF g = page THEN picture ELSE 0
  /\ UNCHANGED <<disk, clears, job, chosen>>

\* NavigationController.show: the context is given even while a job runs.
Show(p) == Reloaded(Given(IF JobRuns THEN page ELSE Given(page, p), p))

\* _sync_page_workspace, of a selection or of a refresh
Synced(p) == ~JobRuns /\ NeedsLoading(page, p) /\ Reloaded(Load(page, p))

\* _handle_files: the same file may be given again.
HandleFiles(p) == ~JobRuns /\ Reloaded(Load(page, p))

\* _clear_document, when no document is left
ClearDocument ==
  /\ ~JobRuns /\ page.input # NoPath
  /\ Reloaded([page EXCEPT !.input = NoPath, !.identity = 0, !.status = "closed",
                           !.drawn = @ /\ ~clears, !.seen = {}, !.queued = FALSE])

\* _document_loaded and _record_load_failure: a password is told to the check too.
LoadedWith(g, error) ==
  CASE error = "none" -> [g EXCEPT !.status = "ready"]
    [] error = "password" -> [g EXCEPT !.status = "error", !.known[g.input] = disk[g.input],
                                       !.unusable[g.input] = TRUE]
    [] error = "other" -> [g EXCEPT !.status = "error"]

DocumentLoaded(error) ==
  /\ page.status = "loading"
  /\ page' = LoadedWith(page, error)
  /\ UNCHANGED <<disk, clears, picture, job, chosen>>

\* A page is rendered from the file as it is, and shown some time later.
RenderPage ==
  /\ page.status = "ready" /\ picture = 0
  /\ picture' = disk[page.input]
  /\ UNCHANGED <<disk, clears, page, job, chosen>>

PageShown ==
  /\ picture # 0 /\ picture' = 0
  /\ page' = [page EXCEPT !.seen = @ \cup {picture}]
  /\ UNCHANGED <<disk, clears, job, chosen>>

\* _count_finished: a count that fails says nothing of the file.
CountFinished(read, answer) ==
  LET p == page.running
      sig == answer = "counted" /\ <<p, read>> \in Signed
      stored == Store([page EXCEPT !.running = NoPath], p, page.print, answer = "unusable", sig)
  IN  /\ p # NoPath /\ read \in page.print .. disk[p]
      /\ page' = StartNext(stored)
      /\ UNCHANGED <<disk, clears, picture, job, chosen>>

(***************************************************************************)
(* The settings and the job.                                               *)
(***************************************************************************)
\* The first area is drawn or the last removed, the text is typed or emptied.
Draw ==
  /\ ~JobRuns
  /\ clears => page.status = "ready" \/ page.drawn
  /\ page' = [page EXCEPT !.drawn = ~@]
  /\ UNCHANGED <<disk, clears, picture, job, chosen>>

\* The box stays enabled while a job runs.
Tick ==
  /\ AsksForTheChoice(page) /\ ~page.unusable[page.input]
  /\ page' = [page EXCEPT !.ticked = ~@]
  /\ chosen' = IF page.ticked THEN chosen ELSE page.input
  /\ UNCHANGED <<disk, clears, picture, job>>

\* _blocker
Blocked(g) ==
  \/ g.input = NoPath
  \/ CheckBlocks(g)
  \/ g.status # "ready"
  \/ disk[g.input] # g.identity
  \/ ~g.drawn

\* _start, _build_job
Start ==
  /\ ~JobRuns /\ ~Blocked(page)
  /\ job' = [path |-> page.input, identity |-> page.identity, seen |-> page.seen,
             allow |-> AsksForTheChoice(page) /\ page.ticked,
             opened |-> 0, ended |-> "no"]
  /\ UNCHANGED <<disk, clears, page, picture, chosen>>

SignatureRefused == <<job.path, disk[job.path]>> \in Signed /\ ~job.allow

\* run_share_job: the file opened must be the one named, and unsigned or its copy allowed.
EngineOpens ==
  /\ JobRuns /\ job.ended = "no" /\ job.opened = 0
  /\ job' = IF job.identity # disk[job.path] \/ SignatureRefused
            THEN [job EXCEPT !.ended = "failure"]
            ELSE [job EXCEPT !.opened = disk[job.path]]
  /\ UNCHANGED <<disk, clears, page, picture, chosen>>

\* Its end: the file must still be the one opened; a job may fail or be cancelled at any time.
EngineEnds(ended) ==
  /\ JobRuns /\ job.ended = "no"
  /\ ended = "success" => job.opened # 0 /\ job.opened = disk[job.path]
  /\ job' = [job EXCEPT !.ended = ended]
  /\ UNCHANGED <<disk, clears, page, picture, chosen>>

\* _job_finished
JobFinished ==
  /\ JobRuns /\ job.ended # "no"
  /\ job' = NoJob
  /\ UNCHANGED <<disk, clears, page, picture, chosen>>

\* Another program writes a file.
Rewrite(p) ==
  /\ disk[p] < MaxVersion[p]
  /\ disk' = [disk EXCEPT ![p] = @ + 1]
  /\ UNCHANGED <<clears, page, picture, job, chosen>>

Init ==
  /\ disk = [p \in Paths |-> 1]
  /\ clears \in BOOLEAN
  /\ page = BlankPage
  /\ picture = 0
  /\ job = NoJob
  /\ chosen = NoPath

Next ==
  \/ \E p \in Paths : Show(p) \/ Synced(p) \/ HandleFiles(p) \/ Rewrite(p)
  \/ ClearDocument
  \/ \E error \in {"none", "password", "other"} : DocumentLoaded(error)
  \/ RenderPage \/ PageShown
  \/ \E read \in UNION {1 .. MaxVersion[p] : p \in Paths}, answer \in {"counted", "unusable", "failed"} :
       CountFinished(read, answer)
  \/ Draw \/ Tick
  \/ Start
  \/ EngineOpens
  \/ \E ended \in {"success", "failure"} : EngineEnds(ended)
  \/ JobFinished

Spec == Init /\ [][Next]_vars
-----------------------------------------------------------------------------
(***************************************************************************)
(* Properties.                                                             *)
(***************************************************************************)

\* What is redacted or marked is the version on screen: every page the user saw since the
\* document was loaded was rendered from the version the job treated, whoever wrote the file.
TreatedIsShown == JobRuns /\ job.ended = "success" => job.seen \subseteq {job.opened}

\* A copy without signatures is made only of a signed file that the user asked it for
\* (source_check.py: "the choice is never carried over to another file").
UnsignedCopyWasAskedFor == JobRuns /\ job.allow => job.path = chosen
=============================================================================
