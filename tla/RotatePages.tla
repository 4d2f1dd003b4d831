------------------------------ MODULE RotatePages ------------------------------
(***************************************************************************)
(* Rotate pages (ui/tool_pages/rotate_pdf_page.py, the mixin of            *)
(* viewer_tool_page.py that gives it its source, and the remote document   *)
(* and renderer of workers/render_client.py): the user turns an angle by    *)
(* two buttons and chooses which pages it applies to, and the page on       *)
(* screen shows the active page as the job will write it.                   *)
(*                                                                         *)
(* The page is a record:                                                   *)
(*   input, count   _input_path, _page_count (0 for None)                   *)
(*   active, selected, target, angle, turning   the settings; turning is    *)
(*             _preview_rotation_enabled                                    *)
(*   status    the status of the document; failed is _load_error             *)
(*   wanted    the picture asked for by the last request, if it waits        *)
(*   shows     what the preview shows: a picture or a sentence               *)
(* Every document has Pages pages.  An answer of a request that was          *)
(* cancelled finds its number in no table: of those on their way, one is      *)
(* kept, for to ignore it changes nothing.  The result of a job is left out.  *)
(***************************************************************************)
EXTENDS Naturals

CONSTANTS Paths, NoPath,
  Pages,       \* the page numbers of a document
  Saved,       \* bound: the files other programs save again
  FullTurn     \* quarter turns that are none: 4, less for TLC

VARIABLES
  stale,     \* the files saved again since the source check answered for them
  selected,  \* the document selected in the window
  visible,   \* the page is on screen
  page,      \* the record above
  late,      \* the picture of a cancelled request on its way
  running    \* _job_runner.is_running

vars == <<stale, selected, visible, page, late, running>>

Sentence(text) == [path |-> NoPath, says |-> text]
NoPicture == Sentence("nothing")

-----------------------------------------------------------------------------
TargetPages(g) ==
  CASE g.target = "all" -> Pages [] g.target = "active" -> {g.active} [] OTHER -> g.selected

\* _preview_angle_for_active_page
PreviewAngle(g) ==
  IF ~g.turning THEN 0
  ELSE IF g.target \in {"all", "active"} \/ g.active \in g.selected THEN g.angle ELSE 0

\* _render_preview: the request before is cancelled.
RenderPreview(g) ==
  IF g.input = NoPath \/ g.count = 0 \/ g.status # "ready" THEN g
  ELSE [g EXCEPT !.wanted = [path |-> g.input, page |-> g.active, turn |-> PreviewAngle(g)]]

\* _rotation_options_changed
OptionsChanged(g) == RenderPreview(g)

\* load_document and _clear_document
Emptied(g) ==
  [g EXCEPT !.count = 0, !.active = 1, !.selected = {}, !.angle = 0, !.turning = FALSE,
            !.wanted = NoPicture, !.failed = FALSE]

LoadDocument(g, path) ==
  [Emptied(g) EXCEPT !.input = path, !.status = "loading", !.shows = Sentence("loading")]

ClearDocument(g) ==
  [Emptied(g) EXCEPT !.input = NoPath, !.status = "null", !.shows = Sentence("no document")]

\* set_workspace_document
TakeDocument(g, path) ==
  IF path = NoPath THEN ClearDocument(g)
  ELSE IF g.input # path \/ path \in stale THEN LoadDocument(g, path) ELSE g

\* The window leaves alone a tool that works on its document.
Synced(g, path) == IF running /\ g.input # NoPath THEN g ELSE TakeDocument(g, path)

\* A request that is replaced or dropped may answer still.
Handled(g) ==
  /\ page' = g
  /\ late' \in {late} \cup (IF g.wanted = page.wanted THEN {} ELSE {page.wanted})

(***************************************************************************)
(* The window.                                                             *)
(***************************************************************************)
HandleFiles(path) ==
  /\ visible /\ ~running
  /\ selected' = path
  /\ Handled(LoadDocument(page, path))
  /\ UNCHANGED <<stale, visible, running>>

Select(path) ==
  /\ path # selected /\ selected' = path
  /\ Handled(IF visible THEN Synced(page, path) ELSE page)
  /\ UNCHANGED <<stale, visible, running>>

Refresh ==
  /\ visible /\ Handled(Synced(page, selected))
  /\ UNCHANGED <<stale, selected, visible, running>>

\* set_tool_launch_context, even during a job.
ShowPage ==
  /\ ~visible /\ visible' = TRUE
  /\ Handled(IF selected = NoPath THEN Synced(page, NoPath)
             ELSE TakeDocument(Synced(page, selected), selected))
  /\ UNCHANGED <<stale, selected, running>>

LeavePage == visible /\ visible' = FALSE /\ UNCHANGED <<stale, selected, page, late, running>>

(***************************************************************************)
(* The document, the preview and the source check answer.                  *)
(***************************************************************************)
\* _document_loaded
Loaded(ok) ==
  /\ page.status = "loading"
  /\ Handled(IF ok THEN RenderPreview([page EXCEPT !.status = "ready", !.count = 1])
             ELSE [page EXCEPT !.status = "error", !.failed = TRUE,
                               !.shows = Sentence("unavailable")])
  /\ UNCHANGED <<stale, selected, visible, running>>

\* _preview_rendered, of the last request.
PreviewRendered(ok) ==
  /\ page.wanted # NoPicture
  /\ page' = [page EXCEPT !.wanted = NoPicture,
                          !.shows = IF ok THEN page.wanted ELSE Sentence("unavailable")]
  /\ UNCHANGED <<stale, selected, visible, late, running>>

\* _preview_rendered, of a request that was cancelled: its number is unknown.
Ignored(g, picture) == g

LateAnswer ==
  /\ late # NoPicture /\ late' = NoPicture
  /\ page' = Ignored(page, late)
  /\ UNCHANGED <<stale, selected, visible, running>>

\* SourceCheck._store: the answer is for the file as it is, unless that changed meanwhile.
CheckAnswers ==
  /\ page.input \in stale
  /\ stale' = stale \ {page.input}
  /\ UNCHANGED <<selected, visible, page, late, running>>

(***************************************************************************)
(* The settings, frozen while the job runs, and the job.                   *)
(***************************************************************************)
AtWork == visible /\ ~running
Set(g) == AtWork /\ Handled(OptionsChanged(g)) /\ UNCHANGED <<stale, selected, visible, running>>

Turn(a) == Set([page EXCEPT !.angle = (@ + a) % FullTurn, !.turning = TRUE])
ChooseTarget(t) == Set([page EXCEPT !.target = t])
SelectPages(S) == page.count # 0 /\ Set([page EXCEPT !.selected = S])

OtherPage(g, n) == [g EXCEPT !.active = n]

\* _active_page_changed
ActivePage(g, n) == RenderPreview([g EXCEPT !.active = n])

Activate(n) ==
  /\ AtWork /\ page.count # 0 /\ Handled(ActivePage(page, n))
  /\ UNCHANGED <<stale, selected, visible, running>>

Blocked == page.count = 0 \/ page.failed \/ page.angle = 0 \/ TargetPages(page) = {}

StartRotation ==
  /\ AtWork /\ ~Blocked
  /\ running' = TRUE
  /\ UNCHANGED <<stale, selected, visible, page, late>>

RotationFinished ==
  /\ running /\ running' = FALSE
  /\ UNCHANGED <<stale, selected, visible, page, late>>

Rewrite(path) ==
  /\ stale' = stale \cup {path}
  /\ UNCHANGED <<selected, visible, page, late, running>>

Init ==
  /\ stale = {} /\ selected = NoPath /\ visible = FALSE
  /\ page = [input |-> NoPath, count |-> 0, active |-> 1, selected |-> {}, target |-> "all",
             angle |-> 0, turning |-> FALSE, status |-> "null", failed |-> FALSE,
             wanted |-> NoPicture, shows |-> Sentence("no document")]
  /\ late = NoPicture /\ running = FALSE

WindowActs ==
  \/ Refresh \/ ShowPage \/ LeavePage \/ Select(NoPath)
  \/ (\E p \in Paths : HandleFiles(p) \/ Select(p))
  \/ (\E p \in Saved : Rewrite(p))

Answers == LateAnswer \/ (\E ok \in BOOLEAN : Loaded(ok) \/ PreviewRendered(ok))
           \/ CheckAnswers

UserSets == (\E a \in {1, FullTurn - 1} : Turn(a)) \/ (\E t \in {"all", "selected", "active"} : ChooseTarget(t))
            \/ (\E S \in SUBSET Pages : SelectPages(S)) \/ \E n \in Pages : Activate(n)

Next == WindowActs \/ Answers \/ UserSets \/ StartRotation \/ RotationFinished

Spec == Init /\ [][Next]_vars

-----------------------------------------------------------------------------
(* The page on screen is the one the job would write: it is never of        *)
(* another document, and once the last request has answered it is the       *)
(* active page, turned by the angle exactly if the job would turn it, in     *)
(* whatever order the answers came and the settings changed                  *)
(* (_render_preview, _preview_rendered, _target_pages).                      *)
PreviewIsTheRotation ==
  page.shows.path # NoPath =>
    /\ page.shows.path = page.input
    /\ page.wanted = NoPicture =>
         /\ page.shows.page = page.active
         /\ page.shows.turn = IF page.active \in TargetPages(page) THEN page.angle ELSE 0

=============================================================================
