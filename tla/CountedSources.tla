----------------------------- MODULE CountedSources -----------------------------
(***************************************************************************)
(* The source of a tool on pages, from the moment a file is given to the   *)
(* tool until its pages are counted and a job is started on it             *)
(* (ui/tool_pages/visual_page_operation_page.py, page_operation_page.py,   *)
(* insert_blank_page.py, page_tool_mixin.py, ui/components/source_check.py,*)
(* workers/job_runner.py): one tool, the window that gives it the selected *)
(* document, the thread that counts, the thread that inspects for the      *)
(* reader, the cache the two threads share, and the files, which other     *)
(* programs rewrite.                                                       *)
(*                                                                         *)
(* The state of the tool is a record, so that a handler that calls another *)
(* one is a composition of operators:                                      *)
(*   input    _input_path                                                  *)
(*   status   what is said of it: loading, ready or failed                 *)
(*   count    <<path, version>> whose count _page_count is, NoCount if None *)
(*   queued   _queued_page_count_path                                      *)
(*   running  the path the count runner is busy with                       *)
(*   known    _problems of the source check: for each path, the version    *)
(*            the answer was filed under and the version it was read from, *)
(*            0 for an answer that says nothing of the file                *)
(* What the job will do, and its result, are the subject of PagePlans: here *)
(* a valid plan may be there as soon as the pages are counted.             *)
(***************************************************************************)
EXTENDS Naturals, Sequences, FiniteSets

CONSTANTS
  Paths,       \* the files of the user
  NoPath,
  MaxVersion,  \* bound: the versions of a file that other programs rewrite
  Rewritable,  \* these files
  Protected,   \* the files that ask for a password until they are rewritten
  Kinds,       \* "plan" (split, extract, remove, reorganise) and "blank"
  Capacity     \* max_entries of the cache

ASSUME PathsAssumption == NoPath \notin Paths /\ IsFiniteSet(Paths)
ASSUME VersionsAssumption == MaxVersion \in Nat \ {0}
ASSUME KindsAssumption == Kinds \subseteq {"plan", "blank"}
ASSUME ProtectedAssumption == Protected \subseteq Paths
ASSUME CapacityAssumption == Capacity \in Nat \ {0}

Versions == 1 .. MaxVersion
Files == Paths \X Versions
AsksPassword(file) == file[1] \in Protected /\ file[2] = 1

(***************************************************************************)
(* The bounded cache of what was learnt of each version of a file          *)
(* (workers/document_metadata_cache.py), as operators on its entries, the  *)
(* least recently used first.  A file version stands for the fingerprint   *)
(* of the code (device, inode, size, time of change).  An entry does not   *)
(* say how many pages there are but which version was read to tell it,     *)
(* Unread when nothing is known: that is what can go wrong.                *)
(***************************************************************************)
Unread == 0

EmptyCache == <<>>

CachedFiles(cache) == {cache[i].file : i \in DOMAIN cache}

Cached(cache, file) == CHOOSE e \in {cache[i] : i \in DOMAIN cache} : e.file = file

\* A file has one entry at most, and its place in the order closes behind it.
Without(cache, file) ==
  IF file \notin CachedFiles(cache) THEN cache
  ELSE LET place == CHOOSE i \in DOMAIN cache : cache[i].file = file
       IN  [i \in 1 .. Len(cache) - 1 |-> cache[IF i < place THEN i ELSE i + 1]]

\* lookup: what is known of the file, which becomes the last to be evicted.
CountOf(cache, file) ==
  IF file \in CachedFiles(cache) THEN Cached(cache, file).count ELSE Unread
InspectionOf(cache, file) ==
  IF file \in CachedFiles(cache) THEN Cached(cache, file).inspection ELSE Unread

LookedUp(cache, file) ==
  IF file \in CachedFiles(cache)
  THEN Append(Without(cache, file), Cached(cache, file)) ELSE cache

\* _store_locked
Stored(cache, entry) ==
  LET all == Append(Without(cache, entry.file), entry)
  IN  IF Len(all) > Capacity THEN Tail(all) ELSE all

\* An inspection that could not count keeps the count that was there.
StoreInspection(cache, file, read, counted) ==
  Stored(cache, [file |-> file, inspection |-> read,
                 count |-> IF counted THEN read ELSE CountOf(cache, file)])

\* A count keeps the inspection that was there.
StorePageCount(cache, file, read) ==
  Stored(cache, [file |-> file, count |-> read, inspection |-> InspectionOf(cache, file)])
NoCount == <<NoPath, Unread>>
NotChecked == [filed |-> 0, read |-> Unread]

VARIABLES
  kind,       \* the tool, fixed
  disk,       \* the version of each file
  cache,      \* SHARED_DOCUMENT_METADATA_CACHE
  listed,     \* the open documents
  selected,   \* the selected one
  shown,      \* the tool is the page on screen
  tool,       \* the record above
  job,        \* the path the running job works on, NoPath if none runs
  counting,   \* the thread of the count runner
  inspecting  \* the thread of the reader's inspection

window == <<listed, selected, shown>>
vars == <<kind, disk, cache, window, tool, job, counting, inspecting>>

(***************************************************************************)
(* The two threads.  Each remembers the fingerprint it took, reads the     *)
(* file in a process of its own, and stores what it read if the            *)
(* fingerprint is still the same.                                          *)
(***************************************************************************)
Idle == [phase |-> "idle", path |-> NoPath, print |-> 0, read |-> Unread, ok |-> FALSE]
Waiting(path) == [Idle EXCEPT !.phase = "starting", !.path = path]
Result(path, read, ok) ==
  [Idle EXCEPT !.phase = "answered", !.path = path, !.read = read, !.ok = ok]
Threads == [phase : {"idle", "starting", "reading", "storing", "answered"},
            path : Paths \cup {NoPath}, print : Versions \cup {0},
            read : Versions \cup {Unread}, ok : BOOLEAN]

FileNow(path) == <<path, disk[path]>>
FileOf(thread) == <<thread.path, thread.print>>

\* PageCountWorker.run: a version counted before is answered from the cache.
CountStarts ==
  /\ counting.phase = "starting"
  /\ LET known == CountOf(cache, FileNow(counting.path))
         begun == [counting EXCEPT !.print = disk[counting.path]]
     IN  counting' = IF known # Unread THEN Result(counting.path, known, TRUE)
                     ELSE [begun EXCEPT !.phase = "reading"]
  /\ cache' = LookedUp(cache, FileNow(counting.path))
  /\ UNCHANGED <<kind, disk, window, tool, job, inspecting>>

\* The worker process opens the file: it counts, or finds it protected.
CountReads ==
  /\ counting.phase = "reading"
  /\ LET ok == ~AsksPassword(FileNow(counting.path))
     IN  counting' = IF ok THEN [counting EXCEPT !.read = disk[counting.path], !.ok = TRUE,
                                                 !.phase = "storing"]
                     ELSE Result(counting.path, disk[counting.path], FALSE)
  /\ UNCHANGED <<kind, disk, cache, window, tool, job, inspecting>>

\* A timeout or an error of the process says nothing of the file.
CountFails ==
  /\ counting.phase = "reading"
  /\ counting' = Result(counting.path, Unread, FALSE)
  /\ UNCHANGED <<kind, disk, cache, window, tool, job, inspecting>>

StoredCountUnchecked ==
  StorePageCount(cache, FileOf(counting), counting.read)

StoredCount ==
  IF disk[counting.path] = counting.print
  THEN StorePageCount(cache, FileOf(counting), counting.read) ELSE cache

CountStored ==
  /\ counting.phase = "storing"
  /\ cache' = StoredCount
  /\ counting' = Result(counting.path, counting.read, TRUE)
  /\ UNCHANGED <<kind, disk, window, tool, job, inspecting>>

\* The reader, on screen, has the selected document inspected (its own use of the
\* answer is DocumentViewer's).
InspectionAsked ==
  /\ ~shown /\ selected # NoPath
  /\ inspecting.phase = "idle"
  /\ inspecting' = Waiting(selected)
  /\ UNCHANGED <<kind, disk, cache, window, tool, job, counting>>

\* inspect_document_cached
InspectionStarts ==
  /\ inspecting.phase = "starting"
  /\ inspecting' =
       IF InspectionOf(cache, FileNow(inspecting.path)) # Unread THEN Idle
       ELSE [inspecting EXCEPT !.phase = "reading", !.print = disk[inspecting.path]]
  /\ cache' = LookedUp(cache, FileNow(inspecting.path))
  /\ UNCHANGED <<kind, disk, window, tool, job, counting>>

InspectionReads ==
  /\ inspecting.phase = "reading"
  /\ inspecting' = [inspecting EXCEPT !.read = disk[inspecting.path],
                      !.ok = ~AsksPassword(FileNow(inspecting.path)),
                      !.phase = "storing"]
  /\ UNCHANGED <<kind, disk, cache, window, tool, job, counting>>

InspectionStored ==
  /\ inspecting.phase = "storing"
  /\ cache' = IF disk[inspecting.path] # inspecting.print THEN cache
              ELSE StoreInspection(cache, FileOf(inspecting), inspecting.read, inspecting.ok)
  /\ inspecting' = Idle
  /\ UNCHANGED <<kind, disk, window, tool, job, counting>>

\* Another program saves the file.
Rewrite(path) ==
  /\ path \in Rewritable /\ disk[path] < MaxVersion
  /\ disk' = [disk EXCEPT ![path] = @ + 1]
  /\ UNCHANGED <<kind, cache, window, tool, job, counting, inspecting>>

(***************************************************************************)
(* The tool's handlers.                                                    *)
(***************************************************************************)
Stale(t, path) == t.known[path] # NotChecked /\ t.known[path].filed # disk[path]

Problem(t) == t.known[t.input].read # Unread /\ AsksPassword(<<t.input, t.known[t.input].read>>)

\* QtPageCountRunner.start raises when it is busy: the handler ends there.
StartCount(t, path) == IF t.running = NoPath THEN [t EXCEPT !.running = path] ELSE t

\* _set_input_path
WithInput(t, path) == [t EXCEPT !.input = path, !.status = "loading", !.count = NoCount]

SetInput(t, path) ==
  IF t.running # NoPath THEN [WithInput(t, path) EXCEPT !.queued = path]
  ELSE StartCount(WithInput(t, path), path)

ClearInput(t) ==
  [t EXCEPT !.input = NoPath, !.status = "empty", !.count = NoCount, !.queued = NoPath]

\* set_workspace_document
TakeDocument(t, path) ==
  IF path = NoPath THEN IF kind = "blank" THEN t ELSE ClearInput(t)
  ELSE IF t.input # path \/ Stale(t, path) THEN SetInput(t, path) ELSE t

\* set_tool_launch_context
TakeContext(t, path) ==
  IF path = NoPath THEN t
  ELSE IF kind = "blank" \/ t.input # path \/ Stale(t, path) THEN SetInput(t, path) ELSE t

\* _sync_page_workspace: a tool keeps the file it is processing.
Busy(t) == job # NoPath /\ t.input # NoPath
Synced(t, choice) == IF Busy(t) THEN t ELSE TakeDocument(t, choice)

Refreshed(t, choice) == IF shown THEN Synced(t, choice) ELSE t

\* SourceCheck.record: the answer is filed under the version of the moment.
Recorded(t, answer) ==
  [t EXCEPT !.known[answer.path] = [filed |-> disk[answer.path], read |-> answer.read]]

AppliedAnyway(t, answer) ==
  IF answer.ok
  THEN [t EXCEPT !.count = <<answer.path, answer.read>>, !.status = "ready"]
  ELSE [t EXCEPT !.count = NoCount, !.status = "failed"]

\* The answer is for the present input, or for nobody.
Applied(t, answer) ==
  IF t.input # answer.path THEN t
  ELSE IF answer.ok
  THEN [t EXCEPT !.count = <<answer.path, answer.read>>, !.status = "ready"]
  ELSE [t EXCEPT !.count = NoCount, !.status = "failed"]

\* The window hears of the count, unless nothing was learnt of the file, and refreshes
\* what is on screen: the tool itself may be given another document meanwhile.
Announced(t, answer) ==
  IF answer.path \in listed /\ answer.read # Unread THEN Refreshed(t, selected) ELSE t

RestartDropped(t, next, path) == t

Restarted(t, next, path) ==
  IF next # NoPath /\ next # path THEN StartCount(t, next) ELSE t

\* _page_count_finished, the runner being free again.
Answered(t, answer) ==
  LET freed == [t EXCEPT !.running = NoPath, !.queued = NoPath]
  IN  Restarted(Applied(Recorded(Announced(freed, answer), answer), answer),
                t.queued, answer.path)

\* A count started by a handler runs in a thread of its own.
Handled(t) ==
  /\ tool' = t
  /\ counting' = IF t.running = tool.running THEN counting ELSE Waiting(t.running)

CountDelivered ==
  /\ counting.phase = "answered"
  /\ LET t == Answered(tool, [path |-> counting.path, read |-> counting.read, ok |-> counting.ok])
     IN  /\ tool' = t
         /\ counting' = IF t.running = NoPath THEN Idle ELSE Waiting(t.running)
  /\ UNCHANGED <<kind, disk, cache, window, job, inspecting>>

\* A file is dropped on the tool or chosen in its panel, which is disabled during a
\* job; the window lists it, and refreshes the tool.
HandleFiles(path) ==
  /\ shown /\ job = NoPath
  /\ listed' = listed \cup {path}
  /\ selected' = IF path \in listed THEN selected ELSE path
  /\ Handled(Synced(SetInput(tool, path), selected'))
  /\ UNCHANGED <<kind, disk, cache, shown, job, inspecting>>

(***************************************************************************)
(* The window: selecting, opening and closing documents, and going to and  *)
(* from the tool.                                                          *)
(***************************************************************************)
Select(path) ==
  /\ path # selected
  /\ listed' = listed \cup {path}
  /\ selected' = path
  /\ Handled(Refreshed(tool, path))
  /\ UNCHANGED <<kind, disk, cache, shown, job, inspecting>>

\* A document the tool works on is busy, and stays.
CloseDocument(path) ==
  /\ path \in listed
  /\ ~(Busy(tool) /\ tool.input = path)
  /\ listed' = listed \ {path}
  /\ \/ selected # path /\ selected' = selected
     \/ selected = path /\ selected' \in IF listed' = {} THEN {NoPath} ELSE listed'
  /\ Handled(Refreshed(tool, selected'))
  /\ UNCHANGED <<kind, disk, cache, shown, job, inspecting>>

ShowTool ==
  /\ shown' = TRUE
  /\ Handled(TakeContext(Synced(tool, selected), selected))
  /\ UNCHANGED <<kind, disk, cache, listed, selected, job, inspecting>>

LeaveTool ==
  /\ shown /\ shown' = FALSE
  /\ UNCHANGED <<kind, disk, cache, listed, selected, tool, job, counting, inspecting>>

(***************************************************************************)
(* The job.                                                                *)
(***************************************************************************)
\* _blocker: the blank page is not blocked by a count that is made again.
Blocked ==
  \/ tool.input = NoPath
  \/ Problem(tool)
  \/ tool.count = NoCount
  \/ tool.running # NoPath /\ kind # "blank"

StartOperation ==
  /\ shown /\ job = NoPath /\ ~Blocked
  /\ job' = tool.input
  /\ UNCHANGED <<kind, disk, cache, window, tool, counting, inspecting>>

OperationFinished ==
  /\ job # NoPath
  /\ job' = NoPath
  /\ UNCHANGED <<kind, disk, cache, window, tool, counting, inspecting>>

Init ==
  /\ kind \in Kinds
  /\ disk = [p \in Paths |-> 1]
  /\ cache = EmptyCache
  /\ listed = {} /\ selected = NoPath /\ shown = FALSE
  /\ tool = [input |-> NoPath, status |-> "empty", count |-> NoCount, queued |-> NoPath,
             running |-> NoPath, known |-> [p \in Paths |-> NotChecked]]
  /\ job = NoPath
  /\ counting = Idle /\ inspecting = Idle

CountWorks == CountStarts \/ CountReads \/ CountFails \/ CountStored \/ CountDelivered
InspectionWorks == InspectionStarts \/ InspectionReads \/ InspectionStored

UserActs ==
  \/ \E p \in Paths : HandleFiles(p) \/ Select(p) \/ CloseDocument(p)
  \/ ShowTool \/ LeaveTool \/ StartOperation \/ InspectionAsked

Next == CountWorks \/ InspectionWorks \/ UserActs \/ OperationFinished \/ \E p \in Paths : Rewrite(p)

Spec == Init /\ [][Next]_vars

\* The thread of a count ends within its timeout and its answer is delivered.
FairSpec == Spec /\ WF_vars(CountWorks)

-----------------------------------------------------------------------------
(* The types of the variables.  The count runner is busy exactly while its *)
(* thread has not delivered.                                               *)
TypeOK ==
  /\ kind \in Kinds
  /\ disk \in [Paths -> Versions]
  /\ cache \in Seq([file : Files, count : Versions \cup {Unread}, inspection : Versions \cup {Unread}])
  /\ Len(cache) <= Capacity
  /\ listed \subseteq Paths /\ selected \in listed \cup {NoPath} /\ shown \in BOOLEAN
  /\ tool \in [input : Paths \cup {NoPath}, status : {"empty", "loading", "ready", "failed"},
               count : Files \cup {NoCount}, queued : Paths \cup {NoPath},
               running : Paths \cup {NoPath},
               known : [Paths -> [filed : Versions \cup {0}, read : Versions \cup {Unread}]]]
  /\ job \in Paths \cup {NoPath}
  /\ counting \in Threads /\ inspecting \in Threads
  /\ counting.path = tool.running

(* What the cache tells of a version of a file was read from that version, *)
(* although the file may be saved again at any moment while two threads    *)
(* read it and store what they found (PageCountWorker.run,                 *)
(* inspect_document_cached: the fingerprint is taken again before the      *)
(* answer is kept).                                                        *)
CacheTellsTheTruth ==
  \A i \in DOMAIN cache :
    /\ cache[i].count \in {Unread, cache[i].file[2]}
    /\ cache[i].inspection \in {Unread, cache[i].file[2]}

(* The page count a tool shows, and starts its job from, is a count of its *)
(* present input and of no earlier one, whatever answers were on their way *)
(* when the input changed (_page_count_finished).                          *)
CountIsOfTheInput ==
  /\ tool.count # NoCount => tool.count[1] = tool.input
  /\ tool.status = "ready" <=> tool.count # NoCount

(* A source is counted or found unusable in the end, unless it is replaced *)
(* before: no succession of sources, returns to an earlier one, refreshes  *)
(* of the window and counts under way leaves the tool loading for ever     *)
(* (_queued_page_count_path).                                              *)
EverySourceIsCounted ==
  \A p \in Paths :
    tool.input = p /\ tool.status = "loading" ~> tool.input # p \/ tool.status # "loading"

=============================================================================
