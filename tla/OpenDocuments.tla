----------------------------- MODULE OpenDocuments -----------------------------
(***************************************************************************)
(* The main window over the open documents (ui/main_window.py,             *)
(* ui/controllers/navigation_controller.py, ui/job_registry.py): which     *)
(* page is shown, which file the reader and each tool hold, and what       *)
(* opening, dropping, selecting and removing documents does to them while  *)
(* the tools' jobs run.  Every action is a handler of the GUI thread; jobs *)
(* end in between.                                                         *)
(*                                                                         *)
(*   ws          the sessions (WorkspaceState)                             *)
(*   page        the page of the stack that is shown                       *)
(*   reader      _current_path of the document workspace                   *)
(*   tool[t]     _input_path of tool t's page                              *)
(*   job[t]      the file t's runner is working on, NoPath when idle       *)
(*   result[t]   the produced PDF t's action bar offers, else NoPath       *)
(*   produced    the output files that exist                               *)
(*   classifying the launcher's files are still being classified           *)
(*   asked       the file the last gesture asked to see, NoPath if none: a *)
(*               record for the properties, no variable of the code        *)
(*                                                                         *)
(* Tools come in two kinds: the form tools (compress, OCR, passwords,      *)
(* share), whose _set_input does nothing while their job runs, and the     *)
(* page tools, whose _set_input_path or load_document always obeys.        *)
(***************************************************************************)
EXTENDS WorkspaceState

CONSTANTS Sources,       \* the files the user has, as <<file, spelling>> paths
          Outputs,       \* the files the jobs may produce, as paths
          Tools,         \* the tools that have a page
          FormTools,     \* those that refuse a new input while they run
          LauncherFiles, \* the paths of the command line that prove to be PDFs
          Dropped,       \* the sequences of paths a drop may carry
          NoPath

ASSUME ToolsAssumption == FormTools \subseteq Tools /\ {"dashboard", "document"} \cap Tools = {}

Paths == Sources \cup Outputs
ASSUME PathsAssumption ==
    /\ NoPath \notin Paths
    /\ LauncherFiles \in Seq(Paths) /\ Dropped \subseteq Seq(Paths)
Pages == {"dashboard", "document"} \cup Tools

VARIABLES ws, page, reader, tool, job, result, produced, classifying, asked
vars == <<ws, page, reader, tool, job, result, produced, classifying, asked>>

Existing == Sources \cup produced
Running(t) == job[t] # NoPath

\* BusyDocumentRegistry.is_busy: some running tool names the file as its input.
IsBusy(path) == \E t \in Tools : Running(t) /\ tool[t] # NoPath /\ FileOf(tool[t]) = FileOf(path)

\* The path of the selected document of w, NoPath when nothing is selected.
SelectedPath(w) == IF Selected(w) = NoDocument THEN NoPath ELSE SelectedDocument(w).path

-----------------------------------------------------------------------------
(* Showing a page (NavigationController.show) and refreshing the one shown. *)

\* The input of t after set_workspace_document and set_tool_launch_context gave
\* it `path`: a form tool ignores it while running, a page tool takes it.
TakesInput(t, path) == IF Running(t) /\ t \in FormTools THEN tool[t] ELSE path

\* _sync_page_workspace on a tool: nothing while its job runs; without a
\* selection a page tool is emptied and a form tool keeps what it has.
Synced(t, w) ==
    IF Running(t) THEN tool[t]
    ELSE IF SelectedPath(w) # NoPath THEN SelectedPath(w)
    ELSE IF t \in FormTools THEN tool[t] ELSE NoPath

\* A new input clears the result that was on offer.
ToolHolds(t, path) ==
    /\ tool' = [tool EXCEPT ![t] = path]
    /\ result' = [result EXCEPT ![t] = IF path = tool[t] THEN @ ELSE NoPath]

\* _refresh_workspace_views after the sessions became w: only the page that is
\* shown follows.
Refresh(w) ==
    /\ reader' = IF page = "document" THEN SelectedPath(w) ELSE reader
    /\ IF page \in Tools THEN ToolHolds(page, Synced(page, w)) ELSE UNCHANGED <<tool, result>>

\* Refreshing the page shown, then showing the reader (_open_document_workspace).
RefreshAndShowReader(w) ==
    /\ page' = "document"
    /\ reader' = SelectedPath(w)
    /\ IF page \in Tools THEN ToolHolds(page, Synced(page, w)) ELSE UNCHANGED <<tool, result>>

\* show(t, context): the page is synchronised, then given the launch context,
\* whose input is the selected document; Home gives none without a selection.
ShowTool(t, w) ==
    /\ page' = t
    /\ ToolHolds(t, IF SelectedPath(w) = NoPath THEN Synced(t, w)
                    ELSE TakesInput(t, SelectedPath(w)))
    /\ UNCHANGED reader

-----------------------------------------------------------------------------
(* The sessions (sidebar). *)

CreateWorkspace ==
    /\ CanAddWorkspace(ws)
    /\ ws' = AddWorkspace(ws)
    /\ Refresh(ws')
    /\ asked' = NoPath
    /\ UNCHANGED <<page, job, produced, classifying>>

ActivateWorkspace(id) ==
    /\ id # ws.active
    /\ ws' = SelectWorkspace(ws, id)
    /\ Refresh(ws')
    /\ asked' = NoPath
    /\ UNCHANGED <<page, job, produced, classifying>>

\* The last session stays; a session with documents asks first.
DeleteWorkspace(id) ==
    /\ Len(ws.sessions) > 1
    /\ ws' = RemoveWorkspace(ws, id)
    /\ Refresh(ws')
    /\ asked' = NoPath
    /\ UNCHANGED <<page, job, produced, classifying>>

-----------------------------------------------------------------------------
(* The documents of the active session. *)

\* A document of the sidebar is clicked: selected, then read.
ActivateDocument(id) ==
    /\ ws' = SelectDocument(ws, id)
    /\ RefreshAndShowReader(ws')
    /\ asked' = Documents(ws)[IndexOf(Documents(ws), id)].path
    /\ UNCHANGED <<job, produced, classifying>>

\* A document is removed, unless a running job uses it.
RemoveOpenDocumentAnyway(id) ==
    /\ ws' = RemoveDocument(ws, id)
    /\ Refresh(ws')
    /\ asked' = NoPath
    /\ UNCHANGED <<page, job, produced, classifying>>
RemoveOpenDocument(id) ==
    /\ ~IsBusy(Documents(ws)[IndexOf(Documents(ws), id)].path)
    /\ ws' = RemoveDocument(ws, id)
    /\ Refresh(ws')
    /\ asked' = NoPath
    /\ UNCHANGED <<page, job, produced, classifying>>

\* _add_workspace_files: the first document that joined becomes the selection.
WithFiles(paths) ==
    LET added == Added(ws, paths)
        w     == AddDocuments(ws, paths)
    IN  IF added = <<>> THEN w ELSE SelectDocument(w, added[1].id)

\* A drop where no source is expected: on Home or on the reader.
DropOnWindow(paths) ==
    /\ page \notin Tools /\ ToSet(paths) \subseteq Existing
    /\ ws' = WithFiles(paths)
    /\ Refresh(ws')
    /\ asked' = NoPath
    /\ UNCHANGED <<page, job, produced, classifying>>

\* A drop (or Change PDF) on a tool: the tool takes it, tells the window, and
\* the window refreshes the tool.  The panel is disabled while the job runs.
DropOnTool(path) ==
    /\ page \in Tools /\ ~Running(page)
    /\ ws' = WithFiles(<<path>>)
    /\ LET refreshed == Synced(page, ws')
       IN  /\ tool' = [tool EXCEPT ![page] = refreshed]
           /\ result' = [result EXCEPT ![page] =
                            IF path = tool[page] /\ refreshed = path THEN @ ELSE NoPath]
    /\ asked' = path
    /\ UNCHANGED <<page, reader, job, produced, classifying>>

\* _open_document_workspace(paths, selected_path): the documents join, then the
\* first occurrence of the path in any session is selected, if that is possible.
Opened(paths, path) ==
    LET w == AddDocuments(ws, paths)
    IN  IF DocumentsByPath(w, path) = {} THEN w ELSE SelectDocument(w, FirstByPath(w, path).id)

\* OPEN PDF under a result.
OpenGenerated(path) ==
    /\ page \in Tools /\ result[page] = path
    /\ ws' = Opened(<<path>>, path)
    /\ RefreshAndShowReader(ws')
    /\ asked' = path
    /\ UNCHANGED <<job, produced, classifying>>

\* The files of the command line, once classified.
OpenInitial ==
    /\ classifying
    /\ classifying' = FALSE
    /\ ws' = Opened(LauncherFiles, LauncherFiles[1])
    /\ RefreshAndShowReader(ws')
    /\ asked' = LauncherFiles[1]
    /\ UNCHANGED <<job, produced>>

-----------------------------------------------------------------------------
(* The pages and the jobs. *)

ShowDashboard ==
    /\ page # "dashboard"
    /\ page' = "dashboard"
    /\ asked' = NoPath
    /\ UNCHANGED <<ws, reader, tool, job, result, produced, classifying>>

\* View PDF, or Back from a tool that was launched from the reader.
ShowReader ==
    /\ page # "document"
    /\ RefreshAndShowReader(ws)
    /\ asked' = NoPath
    /\ UNCHANGED <<ws, job, produced, classifying>>

ChooseTool(t) ==
    /\ ShowTool(t, ws)
    /\ asked' = NoPath
    /\ UNCHANGED <<ws, job, produced, classifying>>

\* CONTINUE WITH...: the result joins the active session, is selected there and
\* opens in another tool; the refresh that follows finds that tool shown.
ContinueWith(path, t) ==
    /\ page \in Tools \ {t} /\ result[page] = path
    /\ LET w   == AddDocuments(ws, <<path>>)
           doc == SelectSeq(Documents(w), LAMBDA d : FileOf(d.path) = FileOf(path))
       IN  IF doc = <<>>
           THEN ws' = w /\ UNCHANGED <<page, reader, tool, result>>
           ELSE ws' = SelectDocument(w, doc[1].id) /\ ShowTool(t, ws')
    /\ asked' = NoPath
    /\ UNCHANGED <<job, produced, classifying>>

StartJob(t) ==
    /\ page = t /\ ~Running(t) /\ tool[t] # NoPath
    /\ job' = [job EXCEPT ![t] = tool[t]]
    /\ result' = [result EXCEPT ![t] = NoPath]
    /\ asked' = NoPath
    /\ UNCHANGED <<ws, page, reader, tool, produced, classifying>>

JobSucceeds(t, path) ==
    /\ Running(t) /\ path \notin produced
    /\ job' = [job EXCEPT ![t] = NoPath]
    /\ result' = [result EXCEPT ![t] = path]
    /\ produced' = produced \cup {path}
    /\ asked' = NoPath
    /\ UNCHANGED <<ws, page, reader, tool, classifying>>

\* Failed or cancelled.
JobEndsWithout(t) ==
    /\ Running(t)
    /\ job' = [job EXCEPT ![t] = NoPath]
    /\ asked' = NoPath
    /\ UNCHANGED <<ws, page, reader, tool, result, produced, classifying>>

-----------------------------------------------------------------------------
Init ==
    /\ ws = FirstWorkspaces
    /\ page = "dashboard"
    /\ reader = NoPath
    /\ tool = [t \in Tools |-> NoPath]
    /\ job = [t \in Tools |-> NoPath]
    /\ result = [t \in Tools |-> NoPath]
    /\ produced = {}
    /\ classifying = (LauncherFiles # <<>>)
    /\ asked = NoPath

Sessions ==
    \/ CreateWorkspace
    \/ \E id \in Ids(ws.sessions) : ActivateWorkspace(id) \/ DeleteWorkspace(id)

OpenAndClose ==
    \/ \E id \in Ids(Documents(ws)) : ActivateDocument(id) \/ RemoveOpenDocument(id)
    \/ \E paths \in Dropped : DropOnWindow(paths)
    \/ \E path \in Existing : DropOnTool(path)
    \/ \E path \in produced : OpenGenerated(path)
    \/ OpenInitial

Working ==
    \/ ShowDashboard
    \/ ShowReader
    \/ \E t \in Tools : ChooseTool(t) \/ StartJob(t) \/ JobEndsWithout(t)
    \/ \E t \in Tools, path \in Outputs : JobSucceeds(t, path) \/ ContinueWith(path, t)

Next == Sessions \/ OpenAndClose \/ Working

Spec == Init /\ [][Next]_vars

-----------------------------------------------------------------------------
(* The types of the variables, and the sessions well formed: files listed  *)
(* once per session, one selection wherever there are documents, unique    *)
(* identifiers.                                                            *)
TypeOK ==
    /\ WellFormed(ws)
    /\ page \in Pages
    /\ reader \in Paths \cup {NoPath}
    /\ tool \in [Tools -> Paths \cup {NoPath}]
    /\ job \in [Tools -> Paths \cup {NoPath}]
    /\ result \in [Tools -> Outputs \cup {NoPath}]
    /\ produced \subseteq Outputs
    /\ classifying \in BOOLEAN
    /\ asked \in Paths \cup {NoPath}

(* While its session is open, a document the job of a form tool works on   *)
(* stays listed (_remove_workspace_document refuses to remove it; a page   *)
(* tool may have been given another file meanwhile, and is no protection). *)
StaysListed ==
    \A t \in FormTools, i \in DOMAIN ws.sessions, j \in DOMAIN ws'.sessions :
        /\ Running(t) /\ Running(t)'
        /\ ws.sessions[i].id = ws'.sessions[j].id
        /\ FileOf(job[t]) \in Files(ws.sessions[i].docs)
        => FileOf(job[t]) \in Files(ws'.sessions[j].docs)
BusyDocumentsStayListed == [][StaysListed]_vars

ListedHereAlone(path) ==
    \A i \in DOMAIN ws.sessions :
        FileOf(path) \in Files(ws.sessions[i].docs) <=> i = ActiveIndex(ws)

(* OPEN PDF, a launch with a file and a click on a document end on the     *)
(* reader showing that file, unless the session had no room for it or      *)
(* another session lists it too: the window looks for the file in every    *)
(* session and selects in the active one (_open_document_workspace).       *)
(* docs/wiki/en/features/share_check.md:41 "OPEN PDF opens the PDF".       *)
OpenedFileIsShown ==
    asked # NoPath /\ page = "document" /\ ListedHereAlone(asked)
        => FileOf(reader) = FileOf(asked)

(* What was opened is shown, and what is at work stays listed.             *)
ShownAndKept == []OpenedFileIsShown /\ BusyDocumentsStayListed

=============================================================================
