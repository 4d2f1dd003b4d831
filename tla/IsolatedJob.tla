----------------------------- MODULE IsolatedJob -----------------------------
(***************************************************************************)
(* One job of the interface carried out by an isolated worker process:     *)
(* the Qt runner in the GUI thread (workers/job_runner.py,                 *)
(* document_inspection_runner.py, thread_shutdown.py), the exchange in the *)
(* runner's thread (workers/process_supervisor.py) and the process.        *)
(*                                                                         *)
(* The GUI thread starts jobs, cancels them and closes the window; what    *)
(* the runner's thread tells it arrives through its queue of events.       *)
(* cancel() runs in the GUI thread against the exchange of the other one,  *)
(* and both may be terminating the process at the same time.  Every wait   *)
(* for the process or for the thread has a limit: a process that does not  *)
(* die of SIGKILL in time is left to itself, and so is a thread that is    *)
(* late when the window closes.                                            *)
(*                                                                         *)
(* Publication of the outputs is one step here; OutputPublication and      *)
(* SourceReplacement show what happens inside it.                          *)
(***************************************************************************)
EXTENDS Integers, Sequences

CONSTANTS
    MaxStarts,      \* bound on the jobs started one after the other
    Kinds           \* kinds of runner: "job" publishes, "query" only answers

ASSUME ConstantsAssumption ==
    /\ MaxStarts \in Nat
    /\ Kinds \subseteq {"job", "query"}

VARIABLES
    starts,         \* jobs started so far
    running,        \* runner._running
    gui,            \* what the GUI thread is doing
    events,         \* events queued for the GUI thread
    pending,        \* runner._pending_result
    delivered,      \* results the interface received, in order
    thread,         \* the QThread of the runner
    quit,           \* quit() was called on it
    kind,           \* the kind of the runner
    pc,             \* next step of the exchange in that thread
    cancelEvent,    \* supervisor._cancel_event
    expired,        \* the deadline of the exchange has passed
    process,        \* the worker process of the present job
    exitCode,       \* 0 or 1, once it has exited
    killed,         \* SIGKILL was sent to its group
    active,         \* supervisor._active_process is set
    ending,         \* how far each thread is in _terminate_process_group
    result,         \* result of the exchange
    published,      \* the outputs of this job are in place
    accepted        \* cancel() returned True for this job

guiVars == <<starts, running, gui, events, pending, delivered>>
threadVars == <<thread, quit, kind>>
exchangeVars == <<pc, cancelEvent, expired, active, result, published>>
processVars == <<process, exitCode, killed>>
vars == <<guiVars, threadVars, exchangeVars, processVars, ending, accepted>>

Actors == {"gui", "thread"}
(* JobWorker.run catches every exception, its two sisters do not. *)
CatchesAll == kind = "job"
Publishes == kind = "job"

Results == {"success", "cancelled", "failed", "os_error"}
Steps == {"none", "acquire", "prepare", "spawn", "register", "communicate", "stopping",
          "stopping_again", "unregister", "after", "publish", "commit", "cleanup", "release", "emit"}
GuiStates == {"idle", "cancel_set", "cancel_read", "cancelling", "quitting", "waiting", "closed",
              "overdue"}
EndingSteps == {"no", "poll", "term", "wait", "kill", "wait_killed", "done"}

TypeOK ==
    /\ starts \in 0..MaxStarts
    /\ running \in BOOLEAN
    /\ gui \in [doing : GuiStates, closing : BOOLEAN]
    /\ events \in Seq({"finished", "quit", "delete"}) /\ Len(events) <= 3
    /\ pending \in Results \cup {"none"}
    /\ delivered \in Seq(Results)
    /\ thread \in {"none", "run", "loop", "ended"}
    /\ quit \in BOOLEAN
    /\ kind \in Kinds
    /\ pc \in Steps
    /\ {cancelEvent, expired, active, published, accepted, killed} \subseteq BOOLEAN
    /\ process \in {"none", "running", "exited"}
    /\ exitCode \in {0, 1}
    /\ ending \in [Actors -> EndingSteps]
    /\ result \in Results \cup {"none"}

Init ==
    /\ starts = 0
    /\ running = FALSE
    /\ gui = [doing |-> "idle", closing |-> FALSE]
    /\ events = <<>>
    /\ pending = "none"
    /\ delivered = <<>>
    /\ thread = "none"
    /\ quit = FALSE
    /\ kind \in Kinds
    /\ pc = "none"
    /\ cancelEvent = FALSE
    /\ expired = FALSE
    /\ process = "none"
    /\ exitCode = 0
    /\ killed = FALSE
    /\ active = FALSE
    /\ ending = [a \in Actors |-> "no"]
    /\ result = "none"
    /\ published = FALSE
    /\ accepted = FALSE

-----------------------------------------------------------------------------
GuiIdle == gui.doing = "idle"

GuiDoes(what) == gui' = [gui EXCEPT !.doing = what]

At(step) == thread = "run" /\ pc = step

Goto(step) == pc' = step

(* The exchange raises: nothing is published, the finally blocks run. *)
Raise(r, step) == result' = r /\ Goto(step)

Exchange(step) ==
    /\ At(step)
    /\ UNCHANGED <<guiVars, threadVars, accepted>>

-----------------------------------------------------------------------------
(* The GUI thread: start, cancel, close.                                   *)

Start ==
    /\ GuiIdle /\ ~gui.closing
    /\ ~running
    /\ starts < MaxStarts
    /\ starts' = starts + 1
    /\ running' = TRUE
    /\ pending' = "none"
    /\ thread' = "run"
    /\ quit' = FALSE
    /\ pc' = "acquire"
    /\ cancelEvent' = FALSE
    /\ expired' = FALSE
    /\ process' = "none"
    /\ exitCode' = 0
    /\ killed' = FALSE
    /\ active' = FALSE
    /\ result' = "none"
    /\ published' = FALSE
    /\ accepted' = FALSE
    /\ UNCHANGED <<gui, events, delivered, kind, ending>>

(* The user cancels: cancel() runs while a job is running. *)
Cancel ==
    /\ GuiIdle
    /\ running
    /\ GuiDoes("cancel_set")
    /\ UNCHANGED <<starts, running, events, pending, delivered, threadVars, exchangeVars,
                   processVars, ending, accepted>>

CancelSetsEvent ==
    /\ gui.doing = "cancel_set"
    /\ cancelEvent' = TRUE
    /\ GuiDoes("cancel_read")
    /\ UNCHANGED <<starts, running, events, pending, delivered, threadVars, pc, expired, active,
                   result, published, processVars, ending, accepted>>

AfterCancel == IF gui.closing THEN "quitting" ELSE "idle"

(* The active process is read under the state lock, then polled. *)
CancelReadsProcess ==
    /\ gui.doing = "cancel_read"
    /\ IF active /\ process = "running"
          THEN GuiDoes("cancelling") /\ ending' = [ending EXCEPT !["gui"] = "poll"]
          ELSE GuiDoes(AfterCancel) /\ UNCHANGED ending
    /\ UNCHANGED <<starts, running, events, pending, delivered, threadVars, exchangeVars,
                   processVars, accepted>>

CancelReturnsTrue ==
    /\ gui.doing = "cancelling"
    /\ ending["gui"] = "done"
    /\ ending' = [ending EXCEPT !["gui"] = "no"]
    /\ accepted' = TRUE
    /\ GuiDoes(AfterCancel)
    /\ UNCHANGED <<starts, running, events, pending, delivered, threadVars, exchangeVars,
                   processVars>>

(* The window closes: shutdown() cancels, calls quit and waits. *)
Close ==
    /\ GuiIdle /\ ~gui.closing
    /\ gui' = [doing |-> IF thread = "none" THEN "closed"
                         ELSE IF running THEN "cancel_set" ELSE "quitting",
               closing |-> TRUE]
    /\ UNCHANGED <<starts, running, events, pending, delivered, threadVars, exchangeVars,
                   processVars, ending, accepted>>

ShutdownLeavesQuitToSignal ==
    /\ gui.doing = "quitting"
    /\ GuiDoes("waiting")
    /\ UNCHANGED <<starts, running, events, pending, delivered, threadVars, exchangeVars,
                   processVars, ending, accepted>>

ShutdownQuits ==
    /\ gui.doing = "quitting"
    /\ quit' = TRUE
    /\ GuiDoes("waiting")
    /\ UNCHANGED <<starts, running, events, pending, delivered, thread, kind, exchangeVars,
                   processVars, ending, accepted>>

(* wait() returns True: the thread has ended. *)
ShutdownWaits ==
    /\ gui.doing = "waiting"
    /\ thread \in {"none", "ended"}
    /\ GuiDoes("closed")
    /\ UNCHANGED <<starts, running, events, pending, delivered, threadVars, exchangeVars,
                   processVars, ending, accepted>>

(* wait() returns False after SHUTDOWN_WAIT_MS.  The window does not look  *)
(* at the answer and closes with the thread still running.                 *)
ShutdownGivesUp ==
    /\ gui.doing = "waiting"
    /\ thread \notin {"none", "ended"}
    /\ GuiDoes("overdue")
    /\ UNCHANGED <<starts, running, events, pending, delivered, threadVars, exchangeVars,
                   processVars, ending, accepted>>

(* One event of the queue, as Qt delivers them in order. *)
HandleEvent ==
    /\ GuiIdle
    /\ events # <<>>
    /\ events' = Tail(events)
    /\ \/ /\ Head(events) = "finished"
          /\ pending' = result
          /\ UNCHANGED <<running, delivered, thread, quit>>
       \/ /\ Head(events) = "quit"
          /\ quit' = TRUE
          /\ UNCHANGED <<running, pending, delivered, thread>>
       \/ /\ Head(events) = "delete"
          /\ running' = FALSE
          /\ thread' = "none"
          /\ pending' = "none"
          /\ delivered' = (IF pending = "none" THEN delivered ELSE Append(delivered, pending))
          /\ UNCHANGED quit
    /\ UNCHANGED <<starts, gui, kind, exchangeVars, processVars, ending, accepted>>

-----------------------------------------------------------------------------
(* _terminate_process_group, in the GUI thread (cancel) or in the thread   *)
(* of the exchange.                                                        *)

TerminateStep(a) ==
    /\ \/ /\ ending[a] = "poll"
          /\ ending' = [ending EXCEPT ![a] = IF process = "running" THEN "term" ELSE "done"]
          /\ UNCHANGED killed
       \/ /\ ending[a] = "term"
          /\ ending' = [ending EXCEPT ![a] = "wait"]
          /\ UNCHANGED killed
       \/ /\ ending[a] = "wait"
          /\ ending' = [ending EXCEPT ![a] = IF process = "running" THEN "kill" ELSE "done"]
          /\ UNCHANGED killed
       \/ /\ ending[a] = "kill"
          /\ ending' = [ending EXCEPT ![a] = "wait_killed"]
          /\ killed' = TRUE
       \/ /\ ending[a] = "wait_killed"
          /\ process # "running"
          /\ ending' = [ending EXCEPT ![a] = "done"]
          /\ UNCHANGED killed
    /\ UNCHANGED <<guiVars, threadVars, exchangeVars, process, exitCode, accepted>>

(* SIGKILL is sent a second time and waited for again; the last wait is    *)
(* over with the process still there, and its TimeoutExpired suppressed.   *)
TerminateGivesUp(a) ==
    /\ ending[a] = "wait_killed"
    /\ process = "running"
    /\ ending' = [ending EXCEPT ![a] = "done"]
    /\ UNCHANGED <<guiVars, threadVars, exchangeVars, processVars, accepted>>

-----------------------------------------------------------------------------
(* The exchange, in the thread of the runner.                              *)

(* The run lock is free; a cancellation that came first, or a file that is *)
(* gone, ends the exchange before anything is created.                     *)
Acquire ==
    /\ Exchange("acquire")
    /\ \/ cancelEvent /\ Raise("cancelled", "release")
       \/ ~cancelEvent /\ UNCHANGED result /\ Goto("prepare")
       \/ ~cancelEvent /\ Raise("failed", "release")
       \/ ~cancelEvent /\ Raise("os_error", "release")
    /\ UNCHANGED <<cancelEvent, expired, active, published, processVars, ending>>

(* The private directory, the isolation and the command of the worker. *)
Prepare ==
    /\ Exchange("prepare")
    /\ \/ UNCHANGED result /\ Goto("spawn")
       \/ Raise("failed", "cleanup")
       \/ Raise("os_error", "release")
    /\ UNCHANGED <<cancelEvent, expired, active, published, processVars, ending>>

Spawn ==
    /\ Exchange("spawn")
    /\ \/ process' = "running" /\ UNCHANGED result /\ Goto("register")
       \/ UNCHANGED process /\ Raise("failed", "cleanup")
    /\ UNCHANGED <<cancelEvent, expired, active, published, exitCode, killed, ending>>

(* The process becomes the active one, visible to cancel(). *)
Register ==
    /\ Exchange("register")
    /\ active' = TRUE
    /\ Goto("communicate")
    /\ UNCHANGED <<cancelEvent, expired, result, published, processVars, ending>>

(* One turn of the loop that feeds the process and reads its answer; a     *)
(* cancellation may come after the last look, while the process exits.     *)
Communicate ==
    /\ Exchange("communicate")
    /\ \/ cancelEvent /\ Raise("cancelled", "stopping")
       \/ ~cancelEvent /\ expired /\ Raise("failed", "stopping")
       \/ process = "exited" /\ UNCHANGED result /\ Goto("unregister")
    /\ ending' = [ending EXCEPT !["thread"] = IF pc' = "stopping" THEN "poll" ELSE "no"]
    /\ UNCHANGED <<cancelEvent, expired, active, published, processVars>>

(* The answer of the worker is longer than any answer may be. *)
AnswerTooLong ==
    /\ Exchange("communicate")
    /\ process = "running" \/ ~cancelEvent
    /\ Raise("failed", "stopping")
    /\ ending' = [ending EXCEPT !["thread"] = "poll"]
    /\ UNCHANGED <<cancelEvent, expired, active, published, processVars>>

StoppedTooEarly ==
    /\ Exchange("stopping")
    /\ ending["thread"] \in {"wait", "done"}
    /\ ending' = [ending EXCEPT !["thread"] = "no"]
    /\ Goto("unregister")
    /\ UNCHANGED <<cancelEvent, expired, active, result, published, processVars>>

(* The finally block of _run_process ends a process that is still there a  *)
(* second time, then closes the pipes whether it is gone or not.           *)
Stopped ==
    /\ \E step \in {"stopping", "stopping_again"} : Exchange(step)
    /\ ending["thread"] = "done"
    /\ IF pc = "stopping" /\ process = "running"
          THEN ending' = [ending EXCEPT !["thread"] = "poll"] /\ Goto("stopping_again")
          ELSE ending' = [ending EXCEPT !["thread"] = "no"] /\ Goto("unregister")
    /\ UNCHANGED <<cancelEvent, expired, active, result, published, processVars>>

Unregister ==
    /\ Exchange("unregister")
    /\ active' = FALSE
    /\ Goto(IF result = "none" THEN "after" ELSE "cleanup")
    /\ UNCHANGED <<cancelEvent, expired, result, published, processVars, ending>>

AnswerBeforeCancel ==
    /\ Exchange("after")
    /\ \/ exitCode # 0 /\ Raise("failed", "cleanup")
       \/ exitCode = 0 /\ UNCHANGED result /\ Goto("publish")
    /\ UNCHANGED <<cancelEvent, expired, active, published, processVars, ending>>

(* Cancellation first, then the exit code, then the answer itself. *)
AfterRun ==
    /\ Exchange("after")
    /\ \/ cancelEvent /\ Raise("cancelled", "cleanup")
       \/ ~cancelEvent /\ Raise("failed", "cleanup")
       \/ ~cancelEvent /\ exitCode = 0 /\ UNCHANGED result /\ Goto("publish")
    /\ UNCHANGED <<cancelEvent, expired, active, published, processVars, ending>>

(* Everything is published but for the last look at the cancellation. *)
Publish ==
    /\ Exchange("publish")
    /\ \/ ~Publishes /\ Raise("success", "cleanup")
       \/ Publishes /\ UNCHANGED result /\ Goto("commit")
       \/ Publishes /\ cancelEvent /\ Raise("cancelled", "cleanup")
       \/ Publishes /\ Raise("failed", "cleanup")
    /\ UNCHANGED <<cancelEvent, expired, active, published, processVars, ending>>

CommitThenLook ==
    /\ Exchange("commit")
    /\ published' = TRUE
    /\ IF cancelEvent THEN Raise("cancelled", "cleanup") ELSE Raise("success", "cleanup")
    /\ UNCHANGED <<cancelEvent, expired, active, processVars, ending>>

Commit ==
    /\ Exchange("commit")
    /\ \/ cancelEvent /\ Raise("cancelled", "cleanup") /\ UNCHANGED published
       \/ ~cancelEvent /\ Raise("success", "cleanup") /\ published' = TRUE
       \/ ~cancelEvent /\ Raise("failed", "cleanup") /\ UNCHANGED published  \* the deadline
    /\ UNCHANGED <<cancelEvent, expired, active, processVars, ending>>

(* The private directory is removed; an error there replaces the result. *)
Cleanup ==
    /\ Exchange("cleanup")
    /\ \/ UNCHANGED result
       \/ result' = "os_error"
    /\ Goto("release")
    /\ UNCHANGED <<cancelEvent, expired, active, published, processVars, ending>>

Release ==
    /\ Exchange("release")
    /\ cancelEvent' = FALSE
    /\ Goto("emit")
    /\ UNCHANGED <<expired, active, result, published, processVars, ending>>

(* The worker emits `finished`, connected to the runner and to quit; an    *)
(* exception that the worker does not catch ends the slot without it.      *)
Emit ==
    /\ At("emit")
    /\ thread' = "loop"
    /\ Goto("none")
    /\ \/ /\ result = "os_error" => CatchesAll
          /\ events' = events \o <<"finished", "quit">>
       \/ /\ result = "os_error" /\ ~CatchesAll
          /\ UNCHANGED events
    /\ UNCHANGED <<starts, running, gui, pending, delivered, quit, kind, cancelEvent, expired, active,
                   result, published, processVars, ending, accepted>>

(* The event loop of the thread ends and the thread is to be deleted. *)
ThreadEnds ==
    /\ thread = "loop"
    /\ quit
    /\ thread' = "ended"
    /\ events' = Append(events, "delete")
    /\ UNCHANGED <<starts, running, gui, pending, delivered, quit, kind, exchangeVars, processVars,
                   ending, accepted>>

-----------------------------------------------------------------------------
(* The worker process and the clock.                                       *)

ProcessExits ==
    /\ process = "running"
    /\ process' = "exited"
    /\ exitCode' \in {0, 1}
    /\ UNCHANGED <<guiVars, threadVars, exchangeVars, killed, ending, accepted>>

DeadlinePasses ==
    /\ At("communicate")
    /\ ~expired
    /\ expired' = TRUE
    /\ UNCHANGED <<guiVars, threadVars, pc, cancelEvent, active, result, published, processVars,
                   ending, accepted>>

GuiStep == CancelSetsEvent \/ CancelReadsProcess \/ CancelReturnsTrue \/ ShutdownQuits
              \/ ShutdownWaits \/ HandleEvent \/ TerminateStep("gui")

ThreadStep == Acquire \/ Prepare \/ Spawn \/ Register \/ Communicate \/ Stopped \/ Unregister
                 \/ AfterRun \/ Publish \/ Commit \/ Cleanup \/ Release \/ Emit \/ ThreadEnds
                 \/ TerminateStep("thread")

UserStep == Start \/ Cancel \/ Close

GivesUp == ShutdownGivesUp \/ \E a \in Actors : TerminateGivesUp(a)

Next == GuiStep \/ ThreadStep \/ AnswerTooLong \/ GivesUp \/ UserStep \/ ProcessExits \/ DeadlinePasses

Spec == Init /\ [][Next]_vars

(* Both threads are scheduled, Qt delivers queued events between the       *)
(* clicks of the user, time passes, and SIGKILL is obeyed in the end.      *)
(* Nothing makes the worker process finish or answer by itself, and no     *)
(* wait has to give up.                                                    *)
Fairness ==
    /\ WF_vars(GuiStep)
    /\ SF_vars(HandleEvent)
    /\ WF_vars(ThreadStep)
    /\ WF_vars(DeadlinePasses)
    /\ WF_vars(killed /\ ProcessExits)

FairSpec == Spec /\ Fairness

-----------------------------------------------------------------------------
(* A cancellation that cancel() reported as accepted is never followed by  *)
(* a success of that job, however late the worker answered: the event is   *)
(* set before the process is looked at, and looked at after the process    *)
(* ended (ProcessSupervisor.cancel and _exchange).                         *)
AcceptedCancelNeverSucceeds == accepted => result # "success" /\ ~published

(* The worker is gone before its answer is used and its outputs published, *)
(* whichever of the two threads ended it; only one that was sent SIGKILL,  *)
(* and has not died of it in time, may still be there when the exchange    *)
(* goes on to remove its private directory, or when the window closes      *)
(* after the thread has ended (_run_process, its finally block,            *)
(* _terminate_process_group, shutdown_runner_thread).                      *)
WorkerGoneFirst ==
    /\ pc \in {"after", "publish", "commit"} \/ result = "success" \/ published
         => process # "running"
    /\ pc \notin {"register", "communicate", "stopping", "stopping_again"} \/ gui.doing = "closed"
         => process # "running" \/ killed

(* The interface is told what happened: a success was published if there   *)
(* was something to publish, a cancelled job published nothing             *)
(* (docs/wiki, merge: "Cancel stops processing without creating a file").  *)
DeliveredIsTrue ==
    [][delivered' # delivered =>
         LET told == delivered'[Len(delivered')] IN
         /\ told = "success" => published = Publishes
         /\ told = "cancelled" => ~published]_vars

(* Every job ends for the interface, even when the worker process hangs    *)
(* ("Without this, `finished` is never emitted and the tool stays in       *)
(* progress", JobWorker.run), and so does every query that no exception    *)
(* leaves which its worker does not catch.                                 *)
Escaped == result = "os_error" /\ ~CatchesAll
Responsive == running ~> (~running \/ gui.closing \/ Escaped)

(* A query always ends too, as the same words would have it of the two     *)
(* workers that catch one exception only (PageCountWorker.run).            *)
EveryQueryEnds == running ~> (~running \/ gui.closing)

(* Closing the window always ends, though the GUI thread delivers no event *)
(* while it waits, and not only because the wait gives up                  *)
(* (shutdown_runner_thread).                                               *)
CloseCompletes == gui.closing ~> gui.doing \in {"closed", "overdue"}
=============================================================================
