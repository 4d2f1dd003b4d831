------------------------------ MODULE FormTools ------------------------------
(***************************************************************************)
(* The tools that are a form: compress, protect, unlock, recognise the text *)
(* (ui/tool_pages/form_tool_page.py, compress_pdf_page.py,                 *)
(* password_pdf_page.py, ocr_pdf_page.py, ui/components/tool_flow.py and    *)
(* source_check.py): one page, the window that gives it documents, the     *)
(* thread that checks its source, its job, and the files and the language   *)
(* models, which change under it.                                          *)
(*                                                                         *)
(* The page is a record, so that a handler that calls another one is a     *)
(* composition of operators:                                               *)
(*   input     _input_path                                                 *)
(*   password, confirm   the two fields: what is typed, and for which input *)
(*   strong    the compression                                             *)
(*   installed, languages   the models found, and those ticked             *)
(*   pages, pagesFor   the last page asked for, 0 for none, and the input   *)
(*             it was typed for                                            *)
(*   counts, count   _known_counts and _page_count                          *)
(*   replace   "Replace this PDF" of the output zone                        *)
(*   result    what the action bar shows: the file and the settings of the  *)
(*             job                                                          *)
(*   known, running, print, queued   the source check: what it filed for    *)
(*             each path and under which version, the path being counted    *)
(*             and its version at the start, and whether the input waits    *)
(* Version v of a file has v pages.  The number of a version stands for the *)
(* signature of the file.  Free names of the output, progress and the       *)
(* choice of a copy without signatures (ViewerTools) are left out.          *)
(***************************************************************************)
EXTENDS Naturals, FiniteSets

CONSTANTS
  Paths, NoPath,
  MaxVersion,    \* bound: the versions of each file
  Locked,        \* the <<path, version>> that ask for a password
  Models,        \* the language models that may be installed
  MaxLanguages   \* OCR_MAX_SELECTED_LANGUAGES

VARIABLES
  tool,     \* the tool, fixed
  disk,     \* the version of each file
  models,   \* the models installed by the system's packages
  visible,  \* the page is on screen
  page,     \* the record above
  job,      \* the running job
  asked     \* the file whose replacement is being asked about, NoPath if none

vars == <<tool, disk, models, visible, page, job, asked>>

Tools == {"compress", "protect", "unlock", "ocr"}
AsksPassword == tool \in {"protect", "unlock"}
Versions == UNION {1 .. MaxVersion[p] : p \in Paths}
Places == Paths \cup {NoPath}
Secrets == [for : Places, text : {"valid", "invalid"}]
Empty == [for |-> NoPath, text |-> ""]
NotChecked == [filed |-> 0, problem |-> FALSE]
NoJob == [path |-> NoPath]
NoResult == [path |-> NoPath]

JobRuns == job # NoJob
Asking == asked # NoPath
SettingsOf(g) == [strong |-> g.strong, languages |-> g.languages, pages |-> g.pages]

(***************************************************************************)
(* The source check and the state of the page.                             *)
(***************************************************************************)
\* source_problem: the unlock tool has nothing to do with a PDF that opens.
ProblemOf(path, version) == IF tool = "unlock" THEN <<path, version>> \notin Locked
                            ELSE <<path, version>> \in Locked

Problem(g) == g.input # NoPath /\ g.known[g.input].problem
Checking(g) == g.running # NoPath \/ g.queued

ClearPasswords(g) == [g EXCEPT !.password = Empty, !.confirm = Empty]

\* _update_state: no password waits behind the fields that a problem hides.
UpdateState(g) == IF AsksPassword /\ Problem(g) THEN ClearPasswords(g) ELSE g

StartNext(g) ==
  IF g.running = NoPath /\ g.queued
  THEN [g EXCEPT !.running = g.input, !.print = disk[g.input], !.queued = FALSE] ELSE g

\* SourceCheck.check: only the present source stays in the queue.
Check(g, before) ==
  LET fresh == g.known[g.input] # NotChecked /\ g.known[g.input].filed = disk[g.input]
      waited == g.queued /\ before = g.input
  IN  UpdateState(StartNext([g EXCEPT !.queued = waited \/ (~fresh /\ g.input # g.running)]))

\* _settings_changed and _destination_changed
Changed(g) == UpdateState([g EXCEPT !.result = NoResult])

ForgottenButSecrets(g, path) ==
  [g EXCEPT !.input = path, !.result = NoResult, !.count = g.counts[path],
            !.pages = 0, !.pagesFor = NoPath, !.replace = FALSE]

\* What _set_input forgets of the document before.
Forgotten(g, path) ==
  [ClearPasswords(g) EXCEPT !.input = path, !.result = NoResult, !.count = g.counts[path],
                            !.pages = 0, !.pagesFor = NoPath, !.replace = FALSE]

\* _set_input: refused during a job; the same file is looked at again.
SetInput(g, path) ==
  IF JobRuns THEN g
  ELSE IF path = g.input THEN Check(g, path) ELSE Check(Forgotten(g, path), g.input)

\* _detect_installed_models, when the page is shown: a language is ticked if none is.
Detect(g) ==
  IF tool # "ocr" \/ JobRuns \/ models = g.installed THEN g
  ELSE IF g.languages # {} THEN [g EXCEPT !.installed = models]
  ELSE Changed([g EXCEPT !.installed = models, !.languages = {CHOOSE m \in models : TRUE}])

(***************************************************************************)
(* The window gives documents to the page, and shows and leaves it.        *)
(***************************************************************************)
\* A file is chosen or dropped in the panel, which is disabled during a job.
HandleFiles(path) ==
  /\ visible /\ ~JobRuns /\ ~Asking
  /\ page' = SetInput(page, path)
  /\ UNCHANGED <<tool, disk, models, visible, job, asked>>

\* set_workspace_document: the window refreshes the page on screen, even while the
\* question about a replacement waits for its answer.
Refresh(path) ==
  /\ visible
  /\ page' = SetInput(page, path)
  /\ UNCHANGED <<tool, disk, models, visible, job, asked>>

\* set_tool_launch_context, and the show event.
ShowPage(path) ==
  /\ ~visible /\ visible' = TRUE
  /\ page' = Detect(IF path = NoPath THEN page ELSE SetInput(page, path))
  /\ UNCHANGED <<tool, disk, models, job, asked>>

\* hideEvent of the password tools: nothing secret, and no replacement, stays on the page.
LeavePage ==
  /\ visible /\ ~Asking /\ visible' = FALSE
  /\ LET cleared == ClearPasswords(page)
     IN  page' = IF ~AsksPassword THEN page
                 ELSE IF ~cleared.replace THEN cleared
                 ELSE Changed([cleared EXCEPT !.replace = FALSE])
  /\ UNCHANGED <<tool, disk, models, job, asked>>

\* The user is at the page, and its controls are enabled.
AtWork == visible /\ ~JobRuns /\ ~Asking
Handled(g) == page' = g /\ UNCHANGED <<tool, disk, models, visible, job, asked>>

TypePassword(text) ==
  /\ AtWork /\ AsksPassword /\ ~Problem(page)
  /\ \/ Handled([page EXCEPT !.password = [for |-> page.input, text |-> text]])
     \/ tool = "protect" /\ Handled([page EXCEPT !.confirm = [for |-> page.input, text |-> text]])

\* Only these two tools offer to replace their source.
TickReplace ==
  /\ AtWork /\ AsksPassword /\ page.input # NoPath
  /\ Handled(Changed([page EXCEPT !.replace = ~@]))

ChooseCompression ==
  /\ AtWork /\ tool = "compress"
  /\ Handled(Changed([page EXCEPT !.strong = ~@]))

\* A fourth language is not offered.
TickLanguage(m) ==
  /\ AtWork /\ tool = "ocr" /\ m \in page.installed
  /\ \/ m \in page.languages /\ Handled(Changed([page EXCEPT !.languages = @ \ {m}]))
     \/ /\ m \notin page.languages /\ Cardinality(page.languages) < MaxLanguages
        /\ Handled(Changed([page EXCEPT !.languages = @ \cup {m}]))

TypePages(n) ==
  /\ AtWork /\ tool = "ocr"
  /\ Handled(Changed([page EXCEPT !.pages = n, !.pagesFor = IF n = 0 THEN NoPath ELSE page.input]))

\* _model_installed: the model is detected and ticked, if a box is left.
AddLanguage(m) ==
  /\ AtWork /\ tool = "ocr" /\ m \notin models
  /\ models' = models \cup {m}
  /\ LET found == [page EXCEPT !.installed = models']
         ticked == IF page.languages = {} THEN {CHOOSE x \in models' : TRUE} ELSE page.languages
         more == IF Cardinality(ticked) < MaxLanguages THEN ticked \cup {m} ELSE ticked
     IN  page' = IF more = page.languages THEN found
                 ELSE Changed([found EXCEPT !.languages = more])
  /\ UNCHANGED <<tool, disk, visible, job, asked>>

(***************************************************************************)
(* The check answers: for the file as it was at some moment of the count, or *)
(* with nothing to say of it.                                              *)
(***************************************************************************)
Filed(g, problem) == [g EXCEPT !.known[g.running] = [filed |-> g.print, problem |-> problem]]

\* _source_counted, of the recognition of text: what failed is no longer known.
Counted(g, number) ==
  LET all == [g.counts EXCEPT ![g.running] = number]
  IN  IF tool # "ocr" THEN g
      ELSE [g EXCEPT !.counts = all, !.count = IF g.running = g.input THEN number ELSE @]

Answered(g, number, problem) ==
  LET told == Counted(Filed(g, problem), number)
  IN  UpdateState(StartNext([told EXCEPT !.running = NoPath, !.print = 0]))

CheckAnswers ==
  /\ page.running # NoPath
  /\ \/ \E v \in page.print .. disk[page.running] :
          Handled(Answered(page, IF <<page.running, v>> \in Locked THEN 0 ELSE v,
                           ProblemOf(page.running, v)))
     \/ Handled(Answered(page, 0, FALSE))

(***************************************************************************)
(* The job.                                                                *)
(***************************************************************************)
PasswordReady == /\ page.password.text = "valid"
                 /\ tool = "protect" => page.confirm = page.password

PagesReady == page.pages = 0 \/ page.count = 0 \/ page.pages <= page.count

Blocked ==
  \/ page.input = NoPath \/ Problem(page) \/ Checking(page)
  \/ AsksPassword /\ ~PasswordReady
  \/ tool = "ocr" /\ (page.languages = {} \/ ~PagesReady)

\* _build_job and what follows: the passwords leave the page as the job takes them.
Begin(g) ==
  /\ job' = [path |-> g.input, settings |-> SettingsOf(g), password |-> g.password,
             replace |-> g.replace]
  /\ page' = UpdateState([ClearPasswords(g) EXCEPT !.result = NoResult])

\* A replacement is asked about first.
Start ==
  /\ AtWork /\ ~Blocked
  /\ IF page.replace THEN asked' = page.input /\ UNCHANGED <<page, job>>
     ELSE Begin(page) /\ UNCHANGED asked
  /\ UNCHANGED <<tool, disk, models, visible>>

AnswerNo == Asking /\ asked' = NoPath /\ UNCHANGED <<tool, disk, models, visible, page, job>>

\* A request without a password is refused by JobRequest, and nothing starts.
AnswerYes ==
  /\ Asking /\ asked' = NoPath
  /\ IF page.password = Empty THEN page' = [page EXCEPT !.result = NoResult] /\ UNCHANGED job
     ELSE Begin(page)
  /\ UNCHANGED <<tool, disk, models, visible>>

\* _operation_finished: a file replaced is another version of itself.
Finish(ok) ==
  /\ JobRuns
  /\ ok /\ job.replace => disk[job.path] < MaxVersion[job.path]
  /\ disk' = IF ok /\ job.replace THEN [disk EXCEPT ![job.path] = @ + 1] ELSE disk
  /\ page' = UpdateState([page EXCEPT !.result = [path |-> job.path, settings |-> job.settings]])
  /\ job' = NoJob
  /\ UNCHANGED <<tool, models, visible, asked>>

Rewrite(path) ==
  /\ disk[path] < MaxVersion[path]
  /\ disk' = [disk EXCEPT ![path] = @ + 1]
  /\ UNCHANGED <<tool, models, visible, page, job, asked>>

\* A package is installed beside the application; none is removed while it runs.
InstallModel(m) ==
  /\ tool = "ocr" /\ m \notin models
  /\ models' = models \cup {m}
  /\ UNCHANGED <<tool, disk, visible, page, job, asked>>

Init ==
  /\ tool \in Tools
  /\ disk = [p \in Paths |-> 1]
  /\ models = {}
  /\ visible = FALSE
  /\ page = [input |-> NoPath, password |-> Empty, confirm |-> Empty, strong |-> FALSE,
             installed |-> {}, languages |-> {}, pages |-> 0, pagesFor |-> NoPath,
             counts |-> [p \in Paths |-> 0], count |-> 0, replace |-> FALSE,
             result |-> NoResult, known |-> [p \in Paths |-> NotChecked],
             running |-> NoPath, print |-> 0, queued |-> FALSE]
  /\ job = NoJob /\ asked = NoPath

WindowActs == LeavePage \/ ShowPage(NoPath)
              \/ \E p \in Paths : HandleFiles(p) \/ Refresh(p) \/ ShowPage(p)

UserSets ==
  \/ \E text \in {"valid", "invalid"} : TypePassword(text)
  \/ TickReplace \/ ChooseCompression
  \/ \E m \in Models : TickLanguage(m) \/ AddLanguage(m)
  \/ \E n \in Versions \cup {0} : TypePages(n)

JobGoes == Start \/ AnswerNo \/ AnswerYes \/ \E ok \in BOOLEAN : Finish(ok)

Next == WindowActs \/ UserSets \/ CheckAnswers \/ JobGoes
        \/ (\E p \in Paths : Rewrite(p)) \/ (\E m \in Models : InstallModel(m))

Spec == Init /\ [][Next]_vars

-----------------------------------------------------------------------------
\* The types of the variables.
TypeOK ==
  /\ tool \in Tools
  /\ disk \in [Paths -> Versions] /\ models \subseteq Models /\ visible \in BOOLEAN
  /\ page.input \in Places /\ page.running \in Places
  /\ {page.password, page.confirm} \subseteq Secrets \cup {Empty}
  /\ page.languages \subseteq page.installed /\ page.installed \subseteq models
  /\ page.pages \in Versions \cup {0} /\ page.count \in Versions \cup {0}
  /\ page.known \in [Paths -> [filed : Versions \cup {0}, problem : BOOLEAN]]
  /\ asked \in Places /\ (Asking => ~JobRuns)

Typed == {s \in {page.password, page.confirm} : s # Empty}

(* Everything on the page belongs to the document on it.  A password was    *)
(* typed for it, during this visit, and never waits behind a problem; the    *)
(* pages asked for and their count are its own; a result on screen is of it  *)
(* and of the settings beside it; and a job that replaces a file has the     *)
(* password typed for that file, although the window goes on giving          *)
(* documents to the page while a source is checked, a job runs or a          *)
(* question waits (_set_input, _update_state, hideEvent, _settings_changed). *)
BelongsToTheDocument ==
  /\ \A s \in Typed : s.for = page.input /\ visible /\ ~Problem(page)
  /\ page.pages # 0 => page.pagesFor = page.input
  /\ page.count # 0 => page.count = page.counts[page.input]
  /\ page.result # NoResult =>
       page.result.path = page.input /\ page.result.settings = SettingsOf(page)
  /\ JobRuns => job.path = page.input /\ job.settings = SettingsOf(page)
  /\ JobRuns /\ AsksPassword => job.password.for = job.path

=============================================================================
