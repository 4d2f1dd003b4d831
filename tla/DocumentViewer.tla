---------------------------- MODULE DocumentViewer ----------------------------
(***************************************************************************)
(* The open document of a workspace: what is asked of the isolated render  *)
(* workers (workers/render_client.py), what the view shows of it           *)
(* (ui/components/isolated_pdf_view.py) and the inspection that follows    *)
(* each opening (ui/document_workspace.py).                                *)
(*                                                                         *)
(* A request is a task of a pool of Slots threads; its answer comes back   *)
(* as an event of the GUI thread, when other documents may have been       *)
(* opened, and the same document opened again, in between.  An opening is  *)
(* named by the generation of RemotePdfDocument, so that what belongs to   *)
(* an earlier opening of the same file is told from the present one.       *)
(***************************************************************************)
EXTENDS Integers, Sequences, FiniteSets

CONSTANTS
    Docs,           \* the files that can be opened
    NoDoc,          \* no file
    Slots,          \* threads of the render pool
    MaxPending,     \* page images asked for at once by a view
    MaxSerial       \* bound on the requests the user makes

ASSUME ConstantsAssumption ==
    /\ NoDoc \notin Docs
    /\ Slots \in Nat \ {0}
    /\ MaxPending \in Nat
    /\ MaxSerial \in Nat

VARIABLES
    path,           \* DocumentWorkspace._current_path
    generation,     \* RemotePdfDocument._generation
    serial,         \* RemotePdfDocument._serial
    status,         \* RemotePdfDocument._status
    pages,          \* generation whose page sizes are in _pages, or 0
    task,           \* every task made so far: its generation, action, cancelled
    tasks,          \* RemotePdfDocument._tasks
    pool,           \* tasks waiting for a thread of the pool
    working,        \* tasks in a thread of the pool
    answers,        \* events queued for the GUI thread: task and result
    asked,          \* IsolatedPdfView._requests (and the renderer's)
    images,         \* generations of the images of the cache
    search,         \* IsolatedPdfView._search_id, or 0
    query,          \* is there a query in the search field?
    matches,        \* generation of the matches shown, or 0
    password,       \* DocumentWorkspace._password_required
    inspecting,     \* file the inspection runner is working on
    queuedInspection,
    inspected       \* file of the inspection shown

remote == <<generation, serial, status, pages, task, tasks>>
threads == <<pool, working, answers>>
view == <<asked, images, search, query, matches>>
inspection == <<inspecting, queuedInspection, inspected>>
vars == <<path, remote, threads, view, password, inspection>>

Ids == 1..(2 * MaxSerial)
MaybeDoc == Docs \cup {NoDoc}
Actions == {"metadata", "render", "search"}

TypeOK ==
    /\ path \in MaybeDoc
    /\ generation \in Nat
    /\ serial \in 0..(2 * MaxSerial)
    /\ status \in {"Null", "Loading", "Ready", "Error"}
    /\ pages \in 0..generation
    /\ task \in [1..serial -> [gen : 0..generation, action : Actions, cancelled : BOOLEAN]]
    /\ tasks \subseteq 1..serial
    /\ pool \in Seq(1..serial)
    /\ working \subseteq 1..serial /\ Cardinality(working) <= Slots
    /\ answers \in Seq([id : 1..serial, result : {"ok", "password", "isolation", "load"}])
    /\ asked \subseteq 1..serial /\ Cardinality(asked) <= MaxPending
    /\ images \subseteq 0..generation
    /\ search \in 0..serial
    /\ matches \in 0..generation
    /\ {query, password} \subseteq BOOLEAN
    /\ {inspecting, queuedInspection, inspected} \subseteq MaybeDoc

Init ==
    /\ path = NoDoc
    /\ generation = 0
    /\ serial = 0
    /\ status = "Null"
    /\ pages = 0
    /\ task = <<>>
    /\ tasks = {}
    /\ pool = <<>>
    /\ working = {}
    /\ answers = <<>>
    /\ asked = {}
    /\ images = {}
    /\ search = 0
    /\ query = FALSE
    /\ matches = 0
    /\ password = FALSE
    /\ inspecting = NoDoc
    /\ queuedInspection = NoDoc
    /\ inspected = NoDoc

-----------------------------------------------------------------------------
(* Helpers.                                                                *)

(* _cancel_tasks and cancel_request: a task that is no longer there stays  *)
(* as it is.                                                               *)
Cancelled(some) ==
    [r \in 1..serial |-> IF r \in some THEN [task[r] EXCEPT !.cancelled = TRUE] ELSE task[r]]

NewTask(gen, action) == [gen |-> gen, action |-> action, cancelled |-> FALSE]

(* request(): the next serial, a task of the present generation, the pool. *)
Request(old, live, gen, action) ==
    /\ serial' = serial + 1
    /\ task' = Append(old, NewTask(gen, action))
    /\ tasks' = live \cup {serial + 1}
    /\ pool' = Append(pool, serial + 1)

(* _reset of the view: nothing of the previous pages stays. *)
ResetImages == asked' = {} /\ images' = {} /\ matches' = 0

-----------------------------------------------------------------------------
(* The user.                                                               *)

(* load_document: the document is closed (twice: by itself, then by load), *)
(* its tasks cancelled, the view reset; an open query is kept for later.   *)
Load(d) ==
    /\ serial < MaxSerial
    /\ path' = d
    /\ generation' = generation + 2
    /\ status' = "Loading"
    /\ pages' = 0
    /\ Request(Cancelled(tasks), {}, generation + 2, "metadata")
    /\ ResetImages
    /\ search' = 0
    /\ password' = FALSE
    /\ inspected' = NoDoc
    /\ UNCHANGED <<working, answers, query, inspecting, queuedInspection>>

(* _set_empty_state: the workspace has no document any more. *)
Empty ==
    /\ path # NoDoc
    /\ path' = NoDoc
    /\ generation' = generation + 1
    /\ status' = "Null"
    /\ pages' = 0
    /\ task' = Cancelled(tasks)
    /\ tasks' = {}
    /\ ResetImages
    /\ search' = 0
    /\ query' = FALSE
    /\ password' = FALSE
    /\ inspected' = NoDoc
    /\ queuedInspection' = NoDoc
    /\ UNCHANGED <<serial, threads, inspecting>>

(* _request_visible: an image of a page in view. *)
RequestPage ==
    /\ serial < MaxSerial
    /\ status = "Ready"
    /\ Cardinality(asked) < MaxPending
    /\ Request(task, tasks, generation, "render")
    /\ asked' = asked \cup {serial + 1}
    /\ UNCHANGED <<path, generation, status, pages, working, answers, images, search, query,
                   matches, password, inspection>>

(* search(): the search before it is cancelled. *)
Search ==
    /\ serial < MaxSerial
    /\ pages # 0
    /\ Request(Cancelled({search} \cap tasks), tasks \ {search}, generation, "search")
    /\ search' = serial + 1
    /\ query' = TRUE
    /\ matches' = 0
    /\ UNCHANGED <<path, generation, status, pages, working, answers, asked, images, password,
                   inspection>>

ClearSearch ==
    /\ query
    /\ task' = Cancelled({search} \cap tasks)
    /\ tasks' = tasks \ {search}
    /\ search' = 0
    /\ query' = FALSE
    /\ matches' = 0
    /\ UNCHANGED <<path, generation, serial, status, pages, threads, asked, images, password,
                   inspection>>

-----------------------------------------------------------------------------
(* The threads of the pool.                                                *)

(* A task that was cancelled while it waited does nothing. *)
TaskStarts ==
    /\ pool # <<>>
    /\ Cardinality(working) < Slots
    /\ pool' = Tail(pool)
    /\ working' = (IF task[Head(pool)].cancelled THEN working ELSE working \cup {Head(pool)})
    /\ UNCHANGED <<path, remote, answers, view, password, inspection>>

(* The worker answered, failed, was stopped or ran out of time; a task     *)
(* that was cancelled meanwhile says nothing.                              *)
TaskReturns(r) ==
    /\ r \in working
    /\ working' = working \ {r}
    /\ IF task[r].cancelled
          THEN UNCHANGED answers
          ELSE \E result \in {"ok", "password", "isolation", "load"} :
                  answers' = Append(answers, [id |-> r, result |-> result])
    /\ UNCHANGED <<path, remote, pool, view, password, inspection>>

-----------------------------------------------------------------------------
(* The GUI thread: one answer of the queue.                                *)

Answer == Head(answers)
Asked == task[Answer.id]

Receive(action) ==
    /\ answers # <<>>
    /\ Asked.action = action
    /\ answers' = Tail(answers)

IsCurrent == Asked.gen = generation

(* An answer to an earlier opening is dropped. *)
ReceiveStale ==
    /\ answers # <<>>
    /\ ~IsCurrent
    /\ answers' = Tail(answers)
    /\ tasks' = tasks \ {Answer.id}
    /\ UNCHANGED <<path, generation, serial, status, pages, task, pool, working, view, password,
                   inspection>>

(* _start_inspection, once the document is ready. *)
StartInspection(d) ==
    IF inspecting = NoDoc
       THEN inspecting' = d /\ UNCHANGED queuedInspection
       ELSE queuedInspection' = d /\ UNCHANGED inspecting

(* The pages are known: the view starts again, an open query is searched   *)
(* again, the inspection starts or is queued.                              *)
Loaded ==
    /\ Receive("metadata")
    /\ IsCurrent /\ Answer.result = "ok"
    /\ status' = "Ready"
    /\ pages' = generation
    /\ ResetImages
    /\ IF query
          THEN /\ Request(task, tasks \ {Answer.id}, generation, "search")
               /\ search' = serial + 1
          ELSE /\ tasks' = tasks \ {Answer.id}
               /\ search' = 0
               /\ UNCHANGED <<serial, task, pool>>
    /\ StartInspection(path)
    /\ UNCHANGED <<path, generation, working, query, password, inspected>>

LoadFailedSilently ==
    /\ Receive("metadata")
    /\ IsCurrent /\ Answer.result # "ok"
    /\ tasks' = tasks \ {Answer.id}
    /\ UNCHANGED <<path, generation, serial, status, pages, task, pool, working, view, password,
                   inspection>>

(* The document cannot be opened; a protected one closes the search too. *)
LoadFailed ==
    /\ Receive("metadata")
    /\ IsCurrent /\ Answer.result # "ok"
    /\ status' = "Error"
    /\ tasks' = tasks \ {Answer.id}
    /\ password' = (Answer.result = "password")
    /\ query' = (query /\ Answer.result # "password")
    /\ UNCHANGED <<path, generation, serial, pages, task, pool, working, asked, images, search,
                   matches, inspection>>

(* The renderer and the view both look the request up before they use it. *)
ImageArrives ==
    /\ Receive("render")
    /\ IsCurrent
    /\ tasks' = tasks \ {Answer.id}
    /\ asked' = asked \ {Answer.id}
    /\ images' = (IF Answer.id \in asked /\ Answer.result = "ok"
                     THEN images \cup {Asked.gen} ELSE images)
    /\ UNCHANGED <<path, generation, serial, status, pages, task, pool, working, search, query,
                   matches, password, inspection>>

(* Only the answer to the last search counts. *)
MatchesArrive ==
    /\ Receive("search")
    /\ IsCurrent
    /\ tasks' = tasks \ {Answer.id}
    /\ IF Answer.id = search
          THEN search' = 0 /\ matches' = (IF Answer.result = "ok" THEN Asked.gen ELSE 0)
          ELSE UNCHANGED <<search, matches>>
    /\ UNCHANGED <<path, generation, serial, status, pages, task, pool, working, asked, images,
                   query, password, inspection>>

InspectionShownAnyway ==
    /\ inspecting # NoDoc
    /\ inspected' = (IF path # NoDoc /\ ~password THEN inspecting ELSE inspected)
    /\ inspecting' = (IF queuedInspection # inspecting THEN queuedInspection ELSE NoDoc)
    /\ queuedInspection' = NoDoc
    /\ UNCHANGED <<path, remote, threads, view, password>>

(* _inspection_finished: shown if it is of the present file, then the      *)
(* queued file, unless it is the one just inspected.                       *)
InspectionFinished ==
    /\ inspecting # NoDoc
    /\ inspected' = (IF path = inspecting /\ ~password THEN inspecting ELSE inspected)
    /\ inspecting' = (IF queuedInspection # inspecting THEN queuedInspection ELSE NoDoc)
    /\ queuedInspection' = NoDoc
    /\ UNCHANGED <<path, remote, threads, view, password>>

-----------------------------------------------------------------------------
User == (\E d \in Docs : Load(d)) \/ Empty \/ RequestPage \/ Search \/ ClearSearch

Pool == TaskStarts \/ \E r \in working : TaskReturns(r)

Gui == ReceiveStale \/ Loaded \/ LoadFailed \/ ImageArrives \/ MatchesArrive

Next == User \/ Pool \/ Gui \/ InspectionFinished

Spec == Init /\ [][Next]_vars

(* Every worker has a time limit, the pool starts what waits, Qt delivers  *)
(* the events, and the inspection runner returns (see IsolatedJob).        *)
Fairness ==
    /\ WF_vars(TaskStarts)
    /\ \A r \in Ids : WF_vars(TaskReturns(r))
    /\ WF_vars(Gui)
    /\ WF_vars(InspectionFinished)

FairSpec == Spec /\ Fairness

-----------------------------------------------------------------------------
(* Nothing of an earlier opening is shown: neither its page sizes, nor     *)
(* images, nor matches, nor the inspection of another file, whatever the   *)
(* order in which answers come (_completed, _ready, _rendered,             *)
(* _result_ready, _inspection_finished).                                   *)
OnlyThePresentDocumentIsShown ==
    /\ pages \in {0, generation}
    /\ images \subseteq {generation}
    /\ matches \in {0, generation}
    /\ inspected \in {NoDoc, path}
    /\ path = NoDoc => images = {} /\ matches = 0 /\ inspected = NoDoc

(* Opening a document ends, in its pages or in an error, however busy the  *)
(* threads of the pool are with cancelled work; and a document that is     *)
(* open and readable is inspected, even when other documents were opened   *)
(* while the runner was busy.                                              *)
OpeningEnds ==
    /\ status = "Loading" ~> status # "Loading"
    /\ status = "Ready" ~> (status # "Ready" \/ inspected = path)
=============================================================================
