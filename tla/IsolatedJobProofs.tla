-------------------------- MODULE IsolatedJobProofs --------------------------
(***************************************************************************)
(* Cancelling and ending the worker of a job, for any number of jobs and   *)
(* for every kind of runner, and the files that are published, for any     *)
(* jobs and whatever their workers do; and that a job is understood, both  *)
(* ways.  The first argument follows the exchange: the event of a          *)
(* cancellation stays set until the exchange is released, and nothing      *)
(* leaves the steps that end the worker before the worker has ended or has *)
(* been sent SIGKILL, with nothing to be published then.                   *)
(***************************************************************************)
EXTENDS MCIsolatedJob, TLAPS, SequenceTheorems, FiniteSetTheorems, WellFoundedInduction

Early == {"acquire", "prepare", "spawn", "register", "communicate"}
Late == {"cleanup", "release", "emit", "none"}

(* What the steps of the two threads read and write. *)
Shape ==
    /\ gui \in [doing : GuiStates, closing : BOOLEAN]
    /\ thread \in {"none", "run", "loop", "ended"}
    /\ pc \in Steps
    /\ ending \in [Actors -> EndingSteps]
    /\ killed \in BOOLEAN
    /\ result \in Results \cup {"none"}
    /\ process \in {"none", "running", "exited"}
    /\ cancelEvent \in BOOLEAN
    /\ active \in BOOLEAN
    /\ published \in BOOLEAN
    /\ accepted \in BOOLEAN

(* The steps of the exchange happen in its thread, one job at a time. *)
ExchangeInThread ==
    /\ pc = "none" <=> thread # "run"
    /\ ~running => thread = "none"
    /\ gui.doing = "closed" => thread \in {"none", "ended"}

(* The events of a job are its result, the quit and the deletion of the    *)
(* thread, in that order; none is left when the next job may start.        *)
ResultTold == {<<"finished", "quit">>, <<"quit">>}
Ended == {<<"finished", "quit", "delete">>, <<"quit", "delete">>, <<"delete">>}

QueueInOrder ==
    /\ events \in {<<>>} \cup ResultTold \cup Ended
    /\ events \in ResultTold => thread = "loop"
    /\ events \in Ended => thread = "ended"
    /\ ~running => events = <<>>

(* Nothing is decided before the worker is done, nothing published before. *)
DecidedLate ==
    /\ pc \in Early \cup {"after", "publish", "commit"} => result = "none"
    /\ result = "success" => pc \in Late
    /\ published => pc \in Late /\ result \in {"success", "os_error"}

(* A worker runs between its start and the end of the waiting; one that    *)
(* still runs then was sent SIGKILL, and the exchange has failed.          *)
Ending == {"stopping", "stopping_again"}
WorkerInside ==
    /\ process = "running" =>
         \/ pc \in {"register", "communicate"} \cup Ending
         \/ killed /\ pc \in {"unregister"} \cup Late /\ result \notin {"none", "success"} /\ ~published
    /\ active => pc \in {"communicate", "unregister"} \cup Ending
    /\ ending["thread"] = "done" => process # "running" \/ killed
    /\ ending["thread"] = "wait_killed" => killed
    /\ ending["thread"] # "no" => pc \in Ending
    /\ pc \in Ending => result \notin {"none", "success"}

(* A cancellation stays visible until the exchange has been released. *)
CancelSeen ==
    /\ gui.doing = "cancel_read" => cancelEvent \/ pc \in {"emit", "none"}
    /\ gui.doing = "cancelling" \/ accepted =>
         /\ ~published
         /\ \/ cancelEvent /\ pc \in {"communicate", "unregister", "after"} \cup Ending
            \/ pc \in Late /\ result # "success"

IInv == Shape /\ ExchangeInThread /\ QueueInOrder /\ DecidedLate /\ WorkerInside /\ CancelSeen

LEMMA InitInv == Init => IInv
<1> USE DEF Init
<1>1. Init => Shape
  <2> SUFFICES ASSUME Init PROVE Shape OBVIOUS
  <2>1. gui \in [doing : GuiStates, closing : BOOLEAN] BY DEF GuiStates
  <2>2. ending \in [Actors -> EndingSteps] BY DEF Actors, EndingSteps
  <2>3. thread \in {"none", "run", "loop", "ended"} /\ pc \in Steps /\ result \in Results \cup {"none"}
    BY DEF Steps
  <2> QED BY <2>1, <2>2, <2>3 DEF Shape
<1>2. Init => ExchangeInThread BY DEF ExchangeInThread
<1>6. Init => QueueInOrder BY DEF QueueInOrder, ResultTold, Ended
<1>3. Init => DecidedLate BY DEF DecidedLate, Early
<1>4. Init => WorkerInside BY DEF WorkerInside, Actors, Ending
<1>5. Init => CancelSeen BY DEF CancelSeen
<1> QED BY <1>1, <1>2, <1>3, <1>4, <1>5, <1>6 DEF IInv

(* What is left of the queue once its head is handled.                     *)
LEMMA TailOfQueue ==
  ASSUME NEW q \in ResultTold \cup Ended
  PROVE  /\ Head(q) = "delete" => Tail(q) = <<>>
         /\ Head(q) # "delete" /\ q \in ResultTold => Tail(q) \in {<<>>} \cup ResultTold
         /\ Head(q) # "delete" /\ q \in Ended => Tail(q) \in Ended
         /\ Head(q) = "delete" => q \in Ended
<1>1. CASE q = <<"finished", "quit">>
  <2>1. Head(q) = "finished" /\ Tail(q) = <<"quit">> BY <1>1
  <2> QED BY <1>1, <2>1 DEF ResultTold, Ended
<1>2. CASE q = <<"quit">>
  <2>1. Head(q) = "quit" /\ Tail(q) = <<>> BY <1>2
  <2> QED BY <1>2, <2>1 DEF ResultTold, Ended
<1>3. CASE q = <<"finished", "quit", "delete">>
  <2>1. Head(q) = "finished" /\ Tail(q) = <<"quit", "delete">> BY <1>3
  <2> QED BY <1>3, <2>1 DEF ResultTold, Ended
<1>4. CASE q = <<"quit", "delete">>
  <2>1. Head(q) = "quit" /\ Tail(q) = <<"delete">> BY <1>4
  <2> QED BY <1>4, <2>1 DEF ResultTold, Ended
<1>5. CASE q = <<"delete">>
  <2>1. Head(q) = "delete" /\ Tail(q) = <<>> BY <1>5
  <2> QED BY <1>5, <2>1 DEF ResultTold, Ended
<1> QED BY <1>1, <1>2, <1>3, <1>4, <1>5 DEF ResultTold, Ended

(* Appending to a short queue.                                             *)
LEMMA AppendToOne ==
  ASSUME NEW a, NEW b
  PROVE  Append(<<a>>, b) = <<a, b>>
<1> DEFINE S == {a, b}
<1>1. Append(<<a>>, b) \in Seq(S) /\ <<a, b>> \in Seq(S) OBVIOUS
<1>2. Len(Append(<<a>>, b)) = 2 /\ Len(<<a, b>>) = 2 OBVIOUS
<1>3. Append(<<a>>, b)[1] = a /\ Append(<<a>>, b)[2] = b OBVIOUS
<1>4. \A i \in 1..2 : Append(<<a>>, b)[i] = <<a, b>>[i] BY <1>3
<1> QED BY <1>1, <1>2, <1>4, SeqEqual

LEMMA AppendToTwo ==
  ASSUME NEW a, NEW b, NEW c
  PROVE  Append(<<a, b>>, c) = <<a, b, c>>
<1> DEFINE S == {a, b, c}
<1>1. Append(<<a, b>>, c) \in Seq(S) /\ <<a, b, c>> \in Seq(S) OBVIOUS
<1>2. Len(Append(<<a, b>>, c)) = 3 /\ Len(<<a, b, c>>) = 3 OBVIOUS
<1>3. /\ Append(<<a, b>>, c)[1] = a /\ Append(<<a, b>>, c)[2] = b
      /\ Append(<<a, b>>, c)[3] = c
  OBVIOUS
<1>4. \A i \in 1..3 : Append(<<a, b>>, c)[i] = <<a, b, c>>[i] BY <1>3
<1> QED BY <1>1, <1>2, <1>4, SeqEqual

(* A queue that ends with a deletion is none of the others.                *)
LEMMA QueuesDiffer ==
  \A q \in ResultTold : q \notin Ended /\ q # <<>>
<1>1. \A q \in ResultTold : Len(q) \in 1..2 /\ q[Len(q)] = "quit"
  <2>1. Len(<<"quit">>) = 1 /\ Len(<<"finished", "quit">>) = 2 OBVIOUS
  <2> QED BY <2>1 DEF ResultTold
<1>2. \A q \in Ended : q[Len(q)] = "delete"
  <2> SUFFICES ASSUME NEW q \in Ended PROVE q[Len(q)] = "delete" OBVIOUS
  <2>1. CASE q = <<"delete">>
    <3>1. Len(q) = 1 /\ q[1] = "delete" BY <2>1
    <3> QED BY <3>1
  <2>2. CASE q = <<"quit", "delete">>
    <3>1. Len(q) = 2 /\ q[2] = "delete" BY <2>2
    <3> QED BY <3>1
  <2>3. CASE q = <<"finished", "quit", "delete">>
    <3>1. Len(q) = 3 /\ q[3] = "delete" BY <2>3
    <3> QED BY <3>1
  <2> QED BY <2>1, <2>2, <2>3 DEF Ended
<1>3. Len(<<>>) = 0 OBVIOUS
<1> QED BY <1>1, <1>2, <1>3

LEMMA EndedNotEmpty == <<>> \notin Ended
<1>1. \A q \in Ended : Len(q) \in 1..3
  <2>1. /\ Len(<<"delete">>) = 1 /\ Len(<<"quit", "delete">>) = 2
        /\ Len(<<"finished", "quit", "delete">>) = 3
    OBVIOUS
  <2> QED BY <2>1 DEF Ended
<1> QED BY <1>1

(* What a step does to the queue and to the threads.                       *)
LEMMA QueueStep == Shape /\ ExchangeInThread /\ QueueInOrder /\ [Next]_vars => QueueInOrder'
<1> SUFFICES ASSUME Shape, ExchangeInThread, QueueInOrder, [Next]_vars PROVE QueueInOrder'
  OBVIOUS
<1>1. CASE Start
  <2>1. events' = <<>> BY <1>1 DEF Start, QueueInOrder
  <2> QED BY <2>1 DEF QueueInOrder, ResultTold, Ended
<1>2. CASE HandleEvent
  <2>1. events \in ResultTold \cup Ended /\ events' = Tail(events)
    BY <1>2 DEF HandleEvent, QueueInOrder
  <2>2. CASE Head(events) = "delete"
    <3>1. events' = <<>> BY <2>1, <2>2, TailOfQueue
    <3> QED BY <3>1 DEF QueueInOrder, ResultTold, Ended
  <2>3. CASE Head(events) # "delete"
    <3>1. UNCHANGED <<running, thread>> BY <1>2, <2>3 DEF HandleEvent
    <3>2. running BY <2>1 DEF QueueInOrder, ResultTold, Ended
    <3>3. CASE events \in ResultTold
      <4>1. events' \in {<<>>} \cup ResultTold BY <2>1, <2>3, <3>3, TailOfQueue
      <4> QED BY <3>1, <3>2, <3>3, <4>1, QueuesDiffer, EndedNotEmpty DEF QueueInOrder
    <3>4. CASE events \in Ended
      <4>1. events' \in Ended BY <2>1, <2>3, <3>4, TailOfQueue
      <4> QED BY <3>1, <3>2, <3>4, <4>1, QueuesDiffer DEF QueueInOrder
    <3> QED BY <2>1, <3>3, <3>4
  <2> QED BY <2>2, <2>3
<1>3. CASE Emit
  <2>1. events = <<>> /\ running /\ running' = running /\ thread' = "loop"
    BY <1>3 DEF Emit, At, QueueInOrder, ExchangeInThread
  <2>2. events' = events \/ events' = <<>> \o <<"finished", "quit">> BY <1>3, <2>1 DEF Emit
  <2>3. <<>> \o <<"finished", "quit">> = <<"finished", "quit">> OBVIOUS
  <2>4. <<"finished", "quit">> \in ResultTold BY DEF ResultTold
  <2>5. CASE events' = events BY <2>1, <2>5, EndedNotEmpty DEF QueueInOrder
  <2>6. CASE events' = <<"finished", "quit">>
    <3>1. events' \in ResultTold BY <2>4, <2>6
    <3>2. events' \notin Ended BY <3>1, QueuesDiffer
    <3> QED BY <2>1, <3>1, <3>2 DEF QueueInOrder
  <2> QED BY <2>2, <2>3, <2>5, <2>6
<1>4. CASE ThreadEnds
  <2>1. /\ events \in {<<>>} \cup ResultTold /\ running /\ running' = running
        /\ thread' = "ended" /\ events' = Append(events, "delete")
    BY <1>4 DEF ThreadEnds, QueueInOrder, ExchangeInThread
  <2>2. events' \in Ended
    <3>1. Append(<<>>, "delete") = <<"delete">> OBVIOUS
    <3>2. Append(<<"quit">>, "delete") = <<"quit", "delete">>
      BY AppendToOne
    <3>3. Append(<<"finished", "quit">>, "delete") = <<"finished", "quit", "delete">>
      BY AppendToTwo
    <3> QED BY <2>1, <3>1, <3>2, <3>3 DEF ResultTold, Ended
  <2>3. events' \in Ended BY <2>2
  <2>4. events' \notin ResultTold BY <2>3, QueuesDiffer
  <2> QED BY <2>1, <2>3, <2>4 DEF QueueInOrder
<1>5. CASE ~Start /\ ~HandleEvent /\ ~Emit /\ ~ThreadEnds
  <2>1. UNCHANGED <<events, thread, running>>
    BY <1>5 DEF Next, GuiStep, ThreadStep, UserStep, Cancel, Close, CancelSetsEvent,
        CancelReadsProcess, CancelReturnsTrue, ShutdownQuits, ShutdownWaits, TerminateStep,
        Acquire, Prepare, Spawn, Register, Communicate, AnswerTooLong, Stopped, Unregister,
        AfterRun, Publish, Commit, Cleanup, Release, ProcessExits, DeadlinePasses, Exchange,
        GivesUp, ShutdownGivesUp, TerminateGivesUp, guiVars, threadVars, vars
  <2> QED BY <2>1 DEF QueueInOrder
<1> QED BY <1>1, <1>2, <1>3, <1>4, <1>5

LEMMA StepInv == IInv /\ [Next]_vars => IInv'
<1> SUFFICES ASSUME IInv, [Next]_vars
             PROVE  (Shape /\ ExchangeInThread /\ DecidedLate /\ WorkerInside /\ CancelSeen)'
  BY QueueStep DEF IInv
<1> USE DEF IInv, Shape, ExchangeInThread, DecidedLate, WorkerInside, CancelSeen, Early, Late,
            GuiStates, Steps, Actors, Results, GuiIdle, GuiDoes, At, Goto, Raise, Exchange,
            guiVars, threadVars, exchangeVars, processVars, Publishes, CatchesAll, Ending, EndingSteps
<1>1. CASE Start BY <1>1 DEF Start
<1>2. CASE Cancel BY <1>2 DEF Cancel
<1>3. CASE Close BY <1>3 DEF Close
<1>4. CASE CancelSetsEvent BY <1>4 DEF CancelSetsEvent
<1>5. CASE CancelReadsProcess BY <1>5 DEF CancelReadsProcess, AfterCancel
<1>6. CASE CancelReturnsTrue BY <1>6 DEF CancelReturnsTrue, AfterCancel
<1>7. CASE ShutdownQuits BY <1>7 DEF ShutdownQuits
<1>8. CASE ShutdownWaits BY <1>8 DEF ShutdownWaits
<1>9. CASE HandleEvent
  <2>1. /\ UNCHANGED <<gui, exchangeVars, processVars, ending, accepted>>
        /\ \/ UNCHANGED <<running, thread>>
           \/ running' = FALSE /\ thread' = "none" /\ Head(events) = "delete"
    BY <1>9 DEF HandleEvent
  <2>2. CASE UNCHANGED <<running, thread>> BY <2>1, <2>2
  <2>3. CASE running' = FALSE /\ thread' = "none" /\ Head(events) = "delete"
    <3>1. events \in Ended BY <1>9, <2>3, TailOfQueue DEF QueueInOrder, HandleEvent
    <3>2. pc = "none" BY <3>1 DEF QueueInOrder
    <3> QED BY <2>1, <2>3, <3>2
  <2> QED BY <2>1, <2>2, <2>3
<1>10. CASE TerminateStep("gui")
  <2>1. UNCHANGED <<guiVars, threadVars, exchangeVars, process, accepted>> BY <1>10 DEF TerminateStep
  <2>2. CASE killed' = TRUE /\ ending["gui"] = "kill" /\ ending' = [ending EXCEPT !["gui"] = "wait_killed"]
    BY <2>1, <2>2
  <2>3. CASE UNCHANGED killed /\ \E e \in EndingSteps \ {"wait_killed"} :
               /\ ending["gui"] # "no" /\ (e = "done" => process # "running")
               /\ ending' = [ending EXCEPT !["gui"] = e]
    BY <2>1, <2>3
  <2> QED BY <1>10, <2>2, <2>3 DEF TerminateStep
<1>11. CASE TerminateStep("thread")
  <2>1. UNCHANGED <<guiVars, threadVars, exchangeVars, process, accepted>> BY <1>11 DEF TerminateStep
  <2>2. CASE killed' = TRUE /\ ending["thread"] = "kill" /\ ending' = [ending EXCEPT !["thread"] = "wait_killed"]
    BY <2>1, <2>2
  <2>3. CASE UNCHANGED killed /\ \E e \in EndingSteps \ {"wait_killed"} :
               /\ ending["thread"] # "no" /\ (e = "done" => process # "running")
               /\ ending' = [ending EXCEPT !["thread"] = e]
    BY <2>1, <2>3
  <2> QED BY <1>11, <2>2, <2>3 DEF TerminateStep
<1>12. CASE Acquire BY <1>12 DEF Acquire
<1>13. CASE Prepare BY <1>13 DEF Prepare
<1>14. CASE Spawn
  <2>1. CASE process' = "running" /\ UNCHANGED result /\ pc' = "register"
    BY <1>14, <2>1 DEF Spawn
  <2>2. CASE UNCHANGED process /\ result' = "failed" /\ pc' = "cleanup"
    BY <1>14, <2>2 DEF Spawn
  <2> QED BY <1>14, <2>1, <2>2 DEF Spawn
<1>15. CASE Register BY <1>15 DEF Register
<1>16. CASE Communicate BY <1>16 DEF Communicate
<1>17. CASE AnswerTooLong BY <1>17 DEF AnswerTooLong
<1>18. CASE Stopped BY <1>18 DEF Stopped
<1>19. CASE Unregister BY <1>19, ZenonT(30) DEF Unregister
<1>20. CASE AfterRun BY <1>20 DEF AfterRun
<1>21. CASE Publish BY <1>21 DEF Publish
<1>22. CASE Commit
  <2>1. CASE cancelEvent /\ result' = "cancelled" /\ pc' = "cleanup" /\ UNCHANGED published
    BY <1>22, <2>1 DEF Commit
  <2>2. CASE ~cancelEvent /\ result' = "success" /\ pc' = "cleanup" /\ published' = TRUE
    BY <1>22, <2>2 DEF Commit
  <2>3. CASE ~cancelEvent /\ result' = "failed" /\ pc' = "cleanup" /\ UNCHANGED published
    BY <1>22, <2>3 DEF Commit
  <2> QED BY <1>22, <2>1, <2>2, <2>3 DEF Commit
<1>23. CASE Cleanup BY <1>23 DEF Cleanup
<1>24. CASE Release BY <1>24, ZenonT(30) DEF Release
<1>25. CASE Emit BY <1>25 DEF Emit
<1>26. CASE ThreadEnds BY <1>26 DEF ThreadEnds
<1>27. CASE ProcessExits BY <1>27 DEF ProcessExits
<1>28. CASE DeadlinePasses BY <1>28 DEF DeadlinePasses
<1>29. CASE UNCHANGED vars BY <1>29 DEF vars
<1>30. CASE ShutdownGivesUp BY <1>30 DEF ShutdownGivesUp
<1>31. CASE TerminateGivesUp("gui") BY <1>31 DEF TerminateGivesUp
<1>32. CASE TerminateGivesUp("thread") BY <1>32 DEF TerminateGivesUp
<1> QED BY <1>1, <1>2, <1>3, <1>4, <1>5, <1>6, <1>7, <1>8, <1>9, <1>10, <1>11, <1>12, <1>13,
           <1>14, <1>15, <1>16, <1>17, <1>18, <1>19, <1>20, <1>21, <1>22, <1>23, <1>24, <1>25,
           <1>26, <1>27, <1>28, <1>29, <1>30, <1>31, <1>32 DEF Next, GuiStep, ThreadStep, UserStep, GivesUp

(* The shape of the two threads holds in every state. *)
THEOREM InvariantHolds == Spec => []IInv
BY InitInv, StepInv, PTL DEF Spec

(* No job ends in success, or with its outputs in place, after cancel()    *)
(* returned True for it (ProcessSupervisor.cancel, _exchange).             *)
THEOREM AcceptedCancelHolds == Spec => []AcceptedCancelNeverSucceeds
<1>1. IInv => AcceptedCancelNeverSucceeds
  BY DEF IInv, CancelSeen, DecidedLate, AcceptedCancelNeverSucceeds, Late, Ending
<1> QED BY <1>1, InvariantHolds, PTL

(* The worker has ended before its answer is used and its outputs          *)
(* published; what the exchange and the window leave behind has been sent  *)
(* SIGKILL (_run_process, _terminate_process_group,                        *)
(* shutdown_runner_thread).                                                *)
THEOREM WorkerGoneFirstHolds == Spec => []WorkerGoneFirst
<1>1. IInv => WorkerGoneFirst
  BY DEF IInv, WorkerInside, ExchangeInThread, WorkerGoneFirst, DecidedLate, Late, Ending
<1> QED BY <1>1, InvariantHolds, PTL

-----------------------------------------------------------------------------
(* What the interface is told.  The runner keeps the result of the exchange *)
(* only once the exchange is over, and until it is told; a success has      *)
(* published exactly when the runner is one that publishes.                 *)

TruthInv ==
    /\ delivered \in Seq(Results)
    /\ pending \in Results \cup {"none"}
    /\ pending # "none" => pending = result /\ pc = "none"
    /\ result = "success" => published = Publishes

CommitPublishes == pc = "commit" => Publishes

LEMMA OnlyJobsCommit == CommitPublishes /\ [Next]_vars => CommitPublishes'
<1> SUFFICES ASSUME CommitPublishes, [Next]_vars PROVE CommitPublishes'
  OBVIOUS
<1>1. kind' = kind
  BY DEF Next, GuiStep, ThreadStep, UserStep, Start, Cancel, Close, CancelSetsEvent, CancelReadsProcess,
     CancelReturnsTrue, ShutdownQuits, ShutdownWaits, HandleEvent, TerminateStep, Acquire, Prepare, Spawn,
     Register, Communicate, AnswerTooLong, Stopped, Unregister, AfterRun, Publish, Commit, Cleanup, Release,
     Emit, ThreadEnds, GivesUp, ShutdownGivesUp, TerminateGivesUp, ProcessExits, DeadlinePasses,
     Exchange, threadVars, vars
<1>2. pc' = pc \/ pc' # "commit" \/ Publishes
  BY DEF Next, GuiStep, ThreadStep, UserStep, Start, Cancel, Close, CancelSetsEvent, CancelReadsProcess,
     CancelReturnsTrue, ShutdownQuits, ShutdownWaits, HandleEvent, TerminateStep, Acquire, Prepare, Spawn,
     Register, Communicate, AnswerTooLong, Stopped, Unregister, AfterRun, Publish, Commit, Cleanup, Release,
     Emit, ThreadEnds, GivesUp, ShutdownGivesUp, TerminateGivesUp, ProcessExits, DeadlinePasses,
     Raise, Goto, exchangeVars, vars
<1> QED
  BY <1>1, <1>2 DEF CommitPublishes, Publishes

LEMMA TruthStarts == Init => TruthInv
BY DEF Init, TruthInv

\* The result of the exchange is decided in its thread, before it is told.
LEMMA ResultIsDecided == IInv /\ CommitPublishes /\ TruthInv /\ ThreadStep => TruthInv'
<1> SUFFICES ASSUME IInv, CommitPublishes, TruthInv, ThreadStep PROVE TruthInv'
  OBVIOUS
<1> USE DEF TruthInv
<1>1. pc # "none" => pending = "none"
  OBVIOUS
<1>2. UNCHANGED <<delivered, pending, kind>> /\ Publishes' = Publishes
  BY DEF ThreadStep, Acquire, Prepare, Spawn, Register, Communicate, Stopped, Unregister, AfterRun, Publish,
     Commit, Cleanup, Release, Emit, ThreadEnds, TerminateStep, Exchange, guiVars, threadVars, Publishes
<1>3. CASE UNCHANGED <<result, published>> /\ (pc' = pc \/ pc # "none")
  BY <1>1, <1>2, <1>3
<1>4. CASE pc # "none" /\ result' # "success" /\ UNCHANGED published
  <2>1. result' \in Results \cup {"none"}
    BY StepInv DEF IInv, Shape, Next
  <2> QED
    BY <1>1, <1>2, <1>4
<1>5. CASE Acquire \/ Prepare \/ Spawn \/ Register \/ Communicate \/ Unregister \/ AfterRun \/ Cleanup
           \/ Release \/ Emit
  <2>1. pc # "none"
    BY <1>5 DEF Acquire, Prepare, Spawn, Register, Communicate, Unregister, AfterRun, Cleanup, Release, Emit,
       Exchange, At
  <2>2. UNCHANGED published /\ (UNCHANGED result \/ result' \in {"cancelled", "failed", "os_error"})
    BY <1>5 DEF Acquire, Prepare, Spawn, Register, Communicate, Unregister, AfterRun, Cleanup, Release, Emit,
       Raise
  <2> QED
    BY <1>3, <1>4, <2>1, <2>2
<1>6. CASE Publish
  <2>1. pc = "publish" /\ ~published /\ published' = published
    BY <1>6 DEF Publish, Exchange, At, IInv, DecidedLate, Early, Late
  <2>2. \/ result' = "success" /\ ~Publishes
        \/ result' = result
        \/ result' \in {"cancelled", "failed"}
    BY <1>6 DEF Publish, Raise
  <2>3. published \in BOOLEAN /\ Publishes \in BOOLEAN
    BY DEF IInv, Shape, Publishes
  <2>4. CASE result' = "success" /\ ~Publishes
    <3>1. published' = Publishes'
      BY <1>2, <2>1, <2>3, <2>4
    <3> QED
      BY <1>1, <1>2, <2>1, <3>1
  <2> QED
    BY <1>3, <1>4, <2>1, <2>2, <2>4
<1>7. CASE Commit
  <2>1. pc = "commit"
    BY <1>7 DEF Commit, Exchange, At
  <2>2. CASE result' = "success" /\ published' = TRUE
    <3>1. Publishes
      BY <2>1 DEF CommitPublishes
    <3>2. published' = Publishes'
      BY <1>2, <2>2, <3>1 DEF Publishes
    <3> QED
      BY <1>1, <1>2, <2>1, <3>2
  <2> QED
    BY <1>4, <1>7, <2>1, <2>2 DEF Commit, Raise
<1>8. CASE Stopped \/ ThreadEnds \/ TerminateStep("thread")
  <2>1. UNCHANGED <<result, published>> /\ (pc' = pc \/ pc # "none")
    BY <1>8 DEF Stopped, ThreadEnds, TerminateStep, exchangeVars, Exchange, At
  <2> QED
    BY <1>3, <2>1
<1> QED
  BY <1>5, <1>6, <1>7, <1>8 DEF ThreadStep

\* The runner keeps a result, tells it, and forgets it for the next job.
LEMMA ResultIsTold == IInv /\ TruthInv /\ HandleEvent => TruthInv'
<1> SUFFICES ASSUME IInv, TruthInv, HandleEvent PROVE TruthInv'
  OBVIOUS
<1> USE DEF TruthInv
<1>1. UNCHANGED <<result, published, pc, kind>> /\ Publishes' = Publishes
  BY DEF HandleEvent, exchangeVars, Publishes
<1>2. pc = "none"
  BY DEF HandleEvent, IInv, QueueInOrder, ExchangeInThread
<1>3. CASE pending' = result /\ delivered' = delivered
  BY <1>1, <1>2, <1>3 DEF IInv, Shape
<1>4. CASE pending' = pending /\ delivered' = delivered
  BY <1>1, <1>4
<1>5. CASE /\ pending' = "none"
           /\ delivered' = (IF pending = "none" THEN delivered ELSE Append(delivered, pending))
  <2>1. delivered' \in Seq(Results)
    BY <1>5
  <2> QED
    BY <1>1, <1>5, <2>1
<1> QED
  BY <1>3, <1>4, <1>5 DEF HandleEvent

LEMMA TruthSteps == IInv /\ CommitPublishes /\ TruthInv /\ [Next]_vars => TruthInv'
<1> SUFFICES ASSUME IInv, CommitPublishes, TruthInv, [Next]_vars PROVE TruthInv'
  OBVIOUS
<1>1. CASE Start
  BY <1>1 DEF Start, TruthInv, Results
<1>2. CASE AnswerTooLong
  BY <1>2 DEF AnswerTooLong, Exchange, At, Raise, Goto, guiVars, threadVars, TruthInv, Publishes, Results
<1>3. CASE \/ CancelSetsEvent \/ CancelReadsProcess \/ CancelReturnsTrue \/ ShutdownQuits \/ ShutdownWaits
           \/ TerminateStep("gui") \/ GivesUp \/ Cancel \/ Close \/ ProcessExits \/ DeadlinePasses \/ UNCHANGED vars
  <2>1. UNCHANGED <<delivered, pending, pc, result, published, kind>>
    BY <1>3 DEF CancelSetsEvent, CancelReadsProcess, CancelReturnsTrue, ShutdownQuits, ShutdownWaits,
       TerminateStep, GivesUp, ShutdownGivesUp, TerminateGivesUp, Cancel, Close, ProcessExits, DeadlinePasses,
       vars, guiVars, threadVars, exchangeVars
  <2> QED
    BY <2>1 DEF TruthInv, Publishes
<1> QED
  BY <1>1, <1>2, <1>3, ResultIsDecided, ResultIsTold DEF Next, GuiStep, UserStep

(* The interface is told what happened, for every kind of runner and any    *)
(* number of jobs: a success has published if there was something to        *)
(* publish, a cancelled job has published nothing (JobRunner._finish,       *)
(* docs/wiki, merge: "Cancel stops processing without creating a file").    *)
THEOREM TheTruthIsTold == Spec => DeliveredIsTrue
<1>1. Spec => [](IInv /\ CommitPublishes /\ TruthInv)
  <2>1. Init => IInv /\ CommitPublishes /\ TruthInv
    BY InitInv, TruthStarts DEF Init, CommitPublishes
  <2>2. IInv /\ CommitPublishes /\ TruthInv /\ [Next]_vars => (IInv /\ CommitPublishes /\ TruthInv)'
    BY StepInv, OnlyJobsCommit, TruthSteps
  <2> QED
    BY <2>1, <2>2, PTL DEF Spec
<1> DEFINE ToldTruly == delivered' # delivered =>
                     LET told == delivered'[Len(delivered')] IN
                       /\ told = "success" => published = Publishes
                       /\ told = "cancelled" => ~published
<1>2. IInv /\ TruthInv /\ [Next]_vars => ToldTruly
  <2> SUFFICES ASSUME IInv, TruthInv, [Next]_vars, delivered' # delivered
               PROVE  LET told == delivered'[Len(delivered')] IN
                        /\ told = "success" => published = Publishes
                        /\ told = "cancelled" => ~published
    OBVIOUS
  <2>1. HandleEvent
    BY DEF Next, GuiStep, ThreadStep, UserStep, Start, Cancel, Close, CancelSetsEvent, CancelReadsProcess,
       CancelReturnsTrue, ShutdownQuits, ShutdownWaits, TerminateStep, Acquire, Prepare, Spawn,
       Register, Communicate, AnswerTooLong, Stopped, Unregister, AfterRun, Publish, Commit, Cleanup, Release,
       Emit, ThreadEnds, GivesUp, ShutdownGivesUp, TerminateGivesUp, ProcessExits, DeadlinePasses,
     Exchange, guiVars, vars
  <2>2. pending # "none" /\ delivered' = Append(delivered, pending)
    BY <2>1 DEF HandleEvent
  <2>3. delivered'[Len(delivered')] = pending
    BY <2>2 DEF TruthInv
  <2>4. pending = result
    BY <2>2 DEF TruthInv
  <2>5. result = "success" => published = Publishes
    BY DEF TruthInv
  <2>6. result = "cancelled" => ~published
    BY DEF IInv, DecidedLate
  <2> QED
    BY <2>3, <2>4, <2>5, <2>6
<1>3. IInv /\ TruthInv /\ [Next]_vars => [ToldTruly]_vars
  BY <1>2
<1> QED
  BY <1>1, <1>3, PTL DEF Spec, DeliveredIsTrue

-----------------------------------------------------------------------------
(* The files of a job (WorkerExchange), for any jobs, any conduct of their *)
(* workers and any bounds.  What is published is a prefix of what was      *)
(* announced, from the answer of a worker that has ended well.             *)

\* A job and its worker, as they were when it started.
JobInv ==
  /\ wJob.kind \in {"split", "named", "staged"}
  /\ wJob.names \in Seq(STRING)
  /\ wJob.kind # "split" => Len(wJob.names) = 1
  /\ \A name \in DOMAIN wConduct.made :
        wConduct.made[name] \in {"regular", "link", "empty", "shared", "oversize"}

\* The files of the answer that is being published.
AnswerInv ==
  wTalk.pc = "publish" =>
    /\ Len(Pipes!Answer.files) = Len(wJob.names)
    /\ wJob.kind # "named" =>
         \A i \in 1 .. Len(wJob.names) : Pipes!Answer.files[i].name = wJob.names[i]

PublishedInv ==
  /\ wPublished \in Seq(STRING) /\ Len(wPublished) <= Len(wJob.names)
  /\ \A i \in 1 .. Len(wPublished) :
       wPublished[i] = wJob.names[i] /\ wConduct.made[wPublished[i]] = "regular"

PipesInv ==
  /\ JobInv /\ AnswerInv /\ PublishedInv
  /\ wTalk.pc \in {"talk", "check", "publish", "done"}
  /\ wTalk.pc = "done" <=> wOutcome # "none"
  /\ wTalk.pc \in {"talk", "check"} => wPublished = <<>>
  /\ wTalk.pc \in {"check", "publish"} => wWorker.stage = "exited"
  /\ wTalk.pc = "publish" \/ wOutcome = "success" => wWorker.code = 0 /\ wWorker.stage = "exited"
  /\ wOutcome = "success" => Len(wPublished) = Len(wJob.names)
  /\ wOutcome \notin {"none", "success"} => wPublished = <<>>

PipesTalk ==
  wTalk = [pc |-> wTalk.pc, sent |-> wTalk.sent, stdin |-> wTalk.stdin, stdout |-> wTalk.stdout,
           heard |-> wTalk.heard]

PipesWorker == wWorker = [stage |-> wWorker.stage, written |-> wWorker.written, code |-> wWorker.code]

\* The invariant, and that the loop's and the worker's records have their fields.
ExchangeInv == PipesInv /\ PipesTalk /\ PipesWorker

LEMMA ExchangeStarts == JobsInit => ExchangeInv
<1> SUFFICES ASSUME JobsInit PROVE ExchangeInv
  OBVIOUS
<1>1. PICK work \in Works : wJob = work.job /\ wConduct = work.conduct
  BY DEF JobsInit, Pipes!Init
<1>2. JobInv
  BY <1>1, WorksAssumption DEF JobInv
<1> QED
  BY <1>2 DEF JobsInit, Pipes!Init, ExchangeInv, PipesInv, PipesTalk, PipesWorker, AnswerInv, PublishedInv,
       JobInv

\* The loop ends with another result than success, and nothing is left of what it published.
LEMMA ExchangeEndsEmpty ==
  ASSUME ExchangeInv, NEW r, Pipes!Ends(r), r \notin {"none", "success"},
         UNCHANGED <<wJob, wConduct>>, PipesWorker'
  PROVE  ExchangeInv'
<1>1. wTalk' = [pc |-> "done", sent |-> wTalk.sent, stdin |-> wTalk.stdin, stdout |-> wTalk.stdout,
                heard |-> wTalk.heard]
  BY DEF Pipes!Ends, ExchangeInv, PipesTalk
<1>2. wOutcome' = r /\ wPublished' = <<>>
  BY DEF Pipes!Ends
<1> QED
  BY <1>1, <1>2 DEF ExchangeInv, PipesInv, PipesTalk, JobInv, AnswerInv, PublishedInv

LEMMA TerminatedKeepsFields ==
  ASSUME PipesWorker, Pipes!Terminated PROVE PipesWorker'
BY DEF PipesWorker, Pipes!Terminated

LEMMA LoopKeepsFields ==
  ASSUME ExchangeInv, NEW r, Pipes!Raises(r), r \notin {"none", "success"} PROVE ExchangeInv'
BY ExchangeEndsEmpty, TerminatedKeepsFields DEF Pipes!Raises, ExchangeInv

\* Steps that neither end the loop nor publish.
LEMMA LoopGoesOn ==
  ASSUME ExchangeInv, UNCHANGED <<wJob, wConduct, wPublished, wOutcome>>, wTalk.pc = "talk",
         PipesTalk', PipesWorker', wTalk'.pc = "talk" \/ (wTalk'.pc = "check" /\ wWorker'.stage = "exited")
  PROVE  ExchangeInv'
BY DEF ExchangeInv, PipesInv, JobInv, AnswerInv, PublishedInv

LEMMA WorkerGoesOn ==
  ASSUME ExchangeInv, UNCHANGED <<wJob, wConduct, wTalk, wPublished, wOutcome>>, PipesWorker',
         wWorker.stage = "exited" => wWorker' = wWorker
  PROVE  ExchangeInv'
BY DEF ExchangeInv, PipesInv, PipesTalk, JobInv, AnswerInv, PublishedInv, Pipes!Answer

LEMMA AnswerIsChecked ==
  ASSUME ExchangeInv, Pipes!ChecksAnswer PROVE ExchangeInv'
<1>1. wTalk.pc = "check" /\ PipesWorker' /\ UNCHANGED <<wJob, wConduct, wWorker>>
  BY DEF Pipes!ChecksAnswer, Pipes!At, ExchangeInv, PipesWorker
<1>2. \/ \E r : Pipes!Ends(r) /\ r \notin {"none", "success"}
      \/ /\ wTalk' = [wTalk EXCEPT !.pc = "publish"] /\ UNCHANGED <<wPublished, wOutcome>>
         /\ Pipes!Ended = "exit" /\ Pipes!FilesAreAnnounced(Pipes!Answer)
  <2>1. Pipes!Ended \notin {"none", "success"}
    BY DEF Pipes!Ended
  <2> QED
    BY <2>1 DEF Pipes!ChecksAnswer
<1>3. CASE \E r : Pipes!Ends(r) /\ r \notin {"none", "success"}
  BY <1>1, <1>3, ExchangeEndsEmpty
<1>4. CASE /\ wTalk' = [wTalk EXCEPT !.pc = "publish"] /\ UNCHANGED <<wPublished, wOutcome>>
           /\ Pipes!Ended = "exit" /\ Pipes!FilesAreAnnounced(Pipes!Answer)
  <2>1. wTalk' = [pc |-> "publish", sent |-> wTalk.sent, stdin |-> wTalk.stdin, stdout |-> wTalk.stdout,
                  heard |-> wTalk.heard]
    BY <1>4 DEF ExchangeInv, PipesTalk
  <2>2. wWorker.code = 0
    BY <1>4 DEF Pipes!Ended
  <2>3. Pipes!Answer' = Pipes!Answer
    BY <2>1 DEF Pipes!Answer
  <2>4. Len(Pipes!Answer.files) = Len(wJob.names)
    BY <1>4 DEF Pipes!FilesAreAnnounced, Pipes!CountIsRight
  <2>5. ASSUME wJob.kind # "named", NEW i \in 1 .. Len(wJob.names)
        PROVE  Pipes!Answer.files[i].name = wJob.names[i]
    <3>1. CASE wJob.kind = "split"
      BY <1>4, <2>5, <3>1 DEF Pipes!FilesAreAnnounced, ExchangeInv, PipesInv, JobInv
    <3>2. CASE wJob.kind = "staged"
      BY <1>4, <2>5, <3>2 DEF Pipes!FilesAreAnnounced, ExchangeInv, PipesInv, JobInv
    <3> QED
      BY <2>5, <3>1, <3>2 DEF ExchangeInv, PipesInv, JobInv
  <2>6. AnswerInv'
    BY <1>1, <2>3, <2>4, <2>5 DEF AnswerInv
  <2> QED
    BY <1>1, <1>4, <2>1, <2>2, <2>6 DEF ExchangeInv, PipesInv, PipesTalk, PipesWorker, JobInv, PublishedInv
<1> QED
  BY <1>2, <1>3, <1>4

LEMMA FileIsPublished ==
  ASSUME ExchangeInv, Pipes!Publishes PROVE ExchangeInv'
<1> DEFINE file == Pipes!Answer.files[Len(wPublished) + 1]
<1>1. wTalk.pc = "publish" /\ PipesWorker' /\ UNCHANGED <<wJob, wConduct, wWorker>>
  BY DEF Pipes!Publishes, Pipes!At, ExchangeInv, PipesWorker
<1>2. Pipes!Fault(file) \in {"none", "worker_protocol_error", "output_write_error"}
  BY DEF Pipes!Fault
<1>3. \/ \E r : Pipes!Ends(r) /\ r \notin {"none", "success"}
      \/ /\ Pipes!Fault(file) = "none" /\ wPublished' = Append(wPublished, file.name)
         /\ UNCHANGED <<wTalk, wOutcome>>
  BY <1>2 DEF Pipes!Publishes
<1>4. CASE \E r : Pipes!Ends(r) /\ r \notin {"none", "success"}
  BY <1>1, <1>4, ExchangeEndsEmpty
<1>5. CASE /\ Pipes!Fault(file) = "none" /\ wPublished' = Append(wPublished, file.name)
           /\ UNCHANGED <<wTalk, wOutcome>>
  <2>1. Len(wPublished) + 1 \in 1 .. Len(wJob.names)
    BY <1>1 DEF Pipes!Publishes, ExchangeInv, PipesInv, PublishedInv, AnswerInv, JobInv
  <2>2. file.name = wJob.names[Len(wPublished) + 1]
    <3>1. CASE wJob.kind = "named"
      <4>1. Len(wPublished) + 1 = 1
        BY <2>1, <3>1 DEF ExchangeInv, PipesInv, JobInv, PublishedInv
      <4>2. file.name = wJob.names[1]
        BY <1>5, <3>1 DEF Pipes!Fault
      <4> QED
        BY <4>1, <4>2
    <3>2. CASE wJob.kind # "named"
      BY <1>1, <2>1, <3>2 DEF ExchangeInv, PipesInv, AnswerInv
    <3> QED
      BY <3>1, <3>2
  <2>3. wConduct.made[file.name] = "regular"
    <3>1. file.name \in DOMAIN wConduct.made
      BY <1>5 DEF Pipes!Fault
    <3>2. wConduct.made[file.name] \notin {"link", "empty", "shared", "oversize"}
      BY <1>5 DEF Pipes!Fault
    <3> QED
      BY <3>1, <3>2 DEF ExchangeInv, PipesInv, JobInv
  <2>4. file.name \in STRING /\ wPublished \in Seq(STRING)
    BY <2>1, <2>2 DEF ExchangeInv, PipesInv, JobInv, PublishedInv
  <2> HIDE DEF file
  <2>5. wPublished' \in Seq(STRING) /\ Len(wPublished') = Len(wPublished) + 1
    BY <1>5, <2>4
  <2>6. \A i \in 1 .. Len(wPublished') :
          wPublished'[i] = IF i = Len(wPublished) + 1 THEN file.name ELSE wPublished[i]
    BY <1>5, <2>4
  <2>7. PublishedInv'
    BY <1>1, <2>1, <2>2, <2>3, <2>5, <2>6 DEF ExchangeInv, PipesInv, PublishedInv
  <2>8. AnswerInv' /\ JobInv'
    BY <1>1, <1>5 DEF ExchangeInv, PipesInv, AnswerInv, JobInv, Pipes!Answer
  <2> QED
    BY <1>1, <1>5, <2>7, <2>8 DEF ExchangeInv, PipesInv, PipesTalk
<1> QED
  BY <1>3, <1>4, <1>5

LEMMA AllIsPublished ==
  ASSUME ExchangeInv, Pipes!HasPublished PROVE ExchangeInv'
<1>1. PipesWorker' /\ UNCHANGED <<wJob, wConduct, wWorker>> /\ wTalk.pc = "publish"
      /\ Len(wPublished) = Len(wJob.names)
  BY DEF Pipes!HasPublished, Pipes!At, ExchangeInv, PipesInv, PipesWorker, AnswerInv
<1>2. \/ \E r : Pipes!Ends(r) /\ r \notin {"none", "success"}
      \/ wTalk' = [wTalk EXCEPT !.pc = "done"] /\ wOutcome' = "success" /\ UNCHANGED wPublished
  BY DEF Pipes!HasPublished
<1>3. CASE \E r : Pipes!Ends(r) /\ r \notin {"none", "success"}
  BY <1>1, <1>3, ExchangeEndsEmpty
<1>4. CASE wTalk' = [wTalk EXCEPT !.pc = "done"] /\ wOutcome' = "success" /\ UNCHANGED wPublished
  <2>1. wTalk' = [pc |-> "done", sent |-> wTalk.sent, stdin |-> wTalk.stdin, stdout |-> wTalk.stdout,
                  heard |-> wTalk.heard]
    BY <1>4 DEF ExchangeInv, PipesTalk
  <2> QED
    BY <1>1, <1>4, <2>1 DEF ExchangeInv, PipesInv, PipesTalk, JobInv, AnswerInv, PublishedInv
<1> QED
  BY <1>2, <1>3, <1>4

LEMMA ExchangeSteps == ExchangeInv /\ [Pipes!Next]_pipeVars => ExchangeInv'
<1> SUFFICES ASSUME ExchangeInv, [Pipes!Next]_pipeVars PROVE ExchangeInv'
  OBVIOUS
<1>1. CASE Pipes!StopsForCancel \/ Pipes!StopsForDeadline
  BY <1>1, LoopKeepsFields DEF Pipes!StopsForCancel, Pipes!StopsForDeadline
<1>2. CASE Pipes!Feeds
  <2>1. PipesTalk' /\ wTalk'.pc = wTalk.pc
    BY <1>2 DEF Pipes!Feeds, ExchangeInv, PipesTalk
  <2> QED
    BY <1>2, <2>1, LoopGoesOn DEF Pipes!Feeds, Pipes!Serving, Pipes!Looping, Pipes!At, ExchangeInv, PipesWorker
<1>3. CASE Pipes!Hears
  <2> DEFINE t == Pipes!Consumed([wTalk.heard EXCEPT !.output = @ \o wOutPipe])
  <2>1. \/ \E r : Pipes!Raises(r) /\ r \notin {"none", "success"}
        \/ wTalk' = [wTalk EXCEPT !.heard = t] /\ UNCHANGED <<wJob, wConduct, wWorker, wPublished, wOutcome>>
    BY <1>3 DEF Pipes!Hears
  <2> HIDE DEF t
  <2>2. CASE wTalk' = [wTalk EXCEPT !.heard = t] /\ UNCHANGED <<wJob, wConduct, wWorker, wPublished, wOutcome>>
    <3>1. PipesTalk' /\ wTalk'.pc = wTalk.pc
      BY <2>2 DEF ExchangeInv, PipesTalk
    <3>2. PipesWorker' /\ wTalk.pc = "talk"
      BY <1>3, <2>2 DEF Pipes!Hears, Pipes!Serving, Pipes!Looping, Pipes!At, ExchangeInv, PipesWorker
    <3> QED
      BY <2>2, <3>1, <3>2, LoopGoesOn
  <2> QED
    BY <2>1, <2>2, LoopKeepsFields
<1>4. CASE Pipes!HearsTheEnd \/ Pipes!HasHeard
  <2>1. PipesTalk' /\ PipesWorker' /\ (wTalk'.pc = "talk" \/ (wTalk'.pc = "check" /\ wWorker'.stage = "exited"))
    BY <1>4 DEF Pipes!HearsTheEnd, Pipes!HasHeard, Pipes!Serving, Pipes!Looping, Pipes!At, Pipes!Exited,
                ExchangeInv, PipesTalk, PipesWorker
  <2> QED
    BY <1>4, <2>1, LoopGoesOn DEF Pipes!HearsTheEnd, Pipes!HasHeard, Pipes!Serving, Pipes!Looping, Pipes!At
<1>5. CASE \/ Pipes!Worker \/ Pipes!WorkerFails \/ Pipes!HelperEnds \/ Pipes!Cancel \/ Pipes!DeadlinePasses
  <2>1. PipesWorker' /\ (wWorker.stage = "exited" => wWorker' = wWorker)
    BY <1>5 DEF Pipes!Worker, Pipes!WorkerReads, Pipes!WorkerHasRead, Pipes!WorkerWrites, Pipes!WorkerExits,
                Pipes!WorkerFails, Pipes!HelperEnds, Pipes!Cancel, Pipes!DeadlinePasses, Pipes!Exited,
                ExchangeInv, PipesWorker
  <2>2. UNCHANGED <<wJob, wConduct, wTalk, wPublished, wOutcome>>
    BY <1>5 DEF Pipes!Worker, Pipes!WorkerReads, Pipes!WorkerHasRead, Pipes!WorkerWrites, Pipes!WorkerExits,
                Pipes!WorkerFails, Pipes!HelperEnds, Pipes!Cancel, Pipes!DeadlinePasses
  <2> QED
    BY <2>1, <2>2, WorkerGoesOn
<1>6. CASE UNCHANGED pipeVars
  BY <1>6, WorkerGoesOn DEF pipeVars, ExchangeInv, PipesWorker
<1> QED
  BY <1>1, <1>2, <1>3, <1>4, <1>5, <1>6, AnswerIsChecked, FileIsPublished, AllIsPublished
     DEF Pipes!Next, Pipes!Supervisor

(* Whatever a worker writes, announces or leaves behind, and whatever the   *)
(* jobs are: a success publishes the announced files, all of them and in    *)
(* order, each a regular file of a worker that has ended well, and any      *)
(* other end none (ProcessSupervisor._exchange, _publish_structural_outputs, *)
(* _publish_staged_output).                                                 *)
THEOREM AnnouncedFilesOnly == JobsSpec => []OnlyTheAnnouncedFiles
<1>1. ExchangeInv /\ [JobsNext]_allVars => ExchangeInv'
  <2>1. [JobsNext]_allVars => [Pipes!Next]_pipeVars
    BY DEF JobsNext, allVars
  <2> QED
    BY <2>1, ExchangeSteps
<1>2. ExchangeInv => OnlyTheAnnouncedFiles
  <2> SUFFICES ASSUME ExchangeInv PROVE OnlyTheAnnouncedFiles
    OBVIOUS
  <2> USE DEF ExchangeInv, PipesInv, PublishedInv, JobInv
  <2>1. ASSUME wOutcome = "success" PROVE wPublished = wJob.names
    BY <2>1
  <2>2. wPublished # <<>> => Pipes!Exited /\ wWorker.code = 0
    BY DEF Pipes!Exited
  <2>3. \A i \in DOMAIN wPublished :
          wPublished[i] = wJob.names[i] /\ wConduct.made[wPublished[i]] = "regular"
    OBVIOUS
  <2> QED
    BY <2>1, <2>2, <2>3 DEF OnlyTheAnnouncedFiles, Pipes!OnlyTheAnnouncedFiles
<1> QED
  BY <1>1, <1>2, ExchangeStarts, PTL DEF JobsSpec

-----------------------------------------------------------------------------
(* Good work is believed.  Numbers that are reached one by one, and values *)
(* that are computed one after the other, take the place of recursion.     *)

\* The order of the natural numbers.
LEMMA LessOnNat ==
  \E less : IsWellFoundedOn(less, Nat) /\ \A k, m \in Nat : <<k, m>> \in less <=> k < m
<1>1. \A k, m \in Nat : (<<k, m>> \in OpToRel(<, Nat)) <=> k < m
  BY Zenon DEF OpToRel
<1> QED
  BY <1>1, NatLessThanWellFounded, Zenon

\* What is true of 0, and of a number when of the one before, is true of all.
LEMMA Reaches ==
  ASSUME NEW Reached, NEW n \in Nat, 0 \in Reached, \A i \in 1 .. n : i - 1 \in Reached => i \in Reached
  PROVE  \A i \in 0 .. n : i \in Reached
<1> SUFFICES ASSUME {i \in 0 .. n : i \notin Reached} # {} PROVE FALSE
  OBVIOUS
<1> DEFINE Bad == {i \in 0 .. n : i \notin Reached}
<1>1. Bad \subseteq Nat /\ Bad # {}
  OBVIOUS
<1> HIDE DEF Bad
<1>2. PICK less : IsWellFoundedOn(less, Nat) /\ \A k, m \in Nat : <<k, m>> \in less <=> k < m
  BY LessOnNat, Zenon
<1>3. PICK m \in Bad : \A k \in Bad : ~ (<<k, m>> \in less)
  <2>1. IsWellFoundedOn(less, Nat)
    BY <1>2
  <2>2. Bad \subseteq Nat
    BY <1>1
  <2>3. Bad # {}
    BY <1>1
  <2> QED
    BY <2>1, <2>2, <2>3, WFMin
<1>4. \A k \in Bad : ~(k < m)
  BY <1>1, <1>2, <1>3, Zenon
<1>5. m - 1 \in Bad /\ m - 1 < m
  BY DEF Bad
<1> QED
  BY <1>4, <1>5

StaysIn(S, n, F) == \A i \in 1 .. n, s \in S : F[<<i, s>>] \in S
IsComputed(S, base, n, F) ==
  \E f \in [0 .. n -> S] : f[0] = base /\ \A i \in 1 .. n : f[i] = F[<<i, f[i - 1]>>]

\* A value may be computed from one step to the next.
LEMMA StepByStep ==
  ASSUME NEW S, NEW base \in S, NEW n \in Nat, NEW F, StaysIn(S, n, F)
  PROVE  IsComputed(S, base, n, F)
<1> DEFINE Is(f, m) == /\ f \in [0 .. m -> S] /\ f[0] = base
                       /\ \A i \in 1 .. m : f[i] = F[<<i, f[i - 1]>>]
           Reached == {m \in 0 .. n : \E f : Is(f, m)}
<1>1. 0 \in Reached
  <2>1. Is([i \in 0 .. 0 |-> base], 0)
    OBVIOUS
  <2> HIDE DEF Is
  <2> QED
    BY <2>1
<1>2. ASSUME NEW m \in 1 .. n, m - 1 \in Reached PROVE m \in Reached
  <2>1. PICK g : Is(g, m - 1)
    BY <1>2
  <2> DEFINE h == [i \in 0 .. m |-> IF i = m THEN F[<<m, g[m - 1]>>] ELSE g[i]]
  <2>2. m - 1 \in 0 .. m - 1
    OBVIOUS
  <2>3. F[<<m, g[m - 1]>>] \in S
    BY <2>1, <2>2 DEF StaysIn
  <2>4. h \in [0 .. m -> S]
    <3> SUFFICES ASSUME NEW i \in 0 .. m PROVE h[i] \in S
      OBVIOUS
    <3>1. CASE i = m
      BY <2>3, <3>1
    <3>2. CASE i # m
      <4>1. i \in 0 .. m - 1
        BY <3>2
      <4> QED
        BY <2>1, <3>2, <4>1
    <3> QED
      BY <3>1, <3>2
  <2>5. h[0] = base
    BY <2>1
  <2>6. ASSUME NEW i \in 1 .. m PROVE h[i] = F[<<i, h[i - 1]>>]
    <3>1. i - 1 \in 0 .. m /\ i - 1 # m /\ h[i - 1] = g[i - 1]
      OBVIOUS
    <3>2. CASE i = m
      BY <3>1, <3>2
    <3>3. CASE i # m
      <4>1. i \in 1 .. m - 1
        BY <3>3
      <4>2. g[i] = F[<<i, g[i - 1]>>]
        BY <2>1, <4>1
      <4> QED
        BY <3>1, <3>3, <4>2
    <3> QED
      BY <3>2, <3>3
  <2>7. Is(h, m)
    BY <2>4, <2>5, <2>6
  <2> HIDE DEF Is
  <2> QED
    BY <2>7
<1>3. n \in 0 .. n
  OBVIOUS
<1> HIDE DEF Reached
<1>4. n \in Reached
  BY <1>1, <1>2, <1>3, Reaches
<1> QED
  BY <1>4 DEF Reached, IsComputed

-----------------------------------------------------------------------------
Writes == wConduct.writes
Written == {Writes[i] : i \in DOMAIN Writes}

\* What the supervisor has of the first n tokens of its worker: marks it has read, each two
\* tokens long, and what follows them.
Readings(n) ==
  {t \in [output : Seq(Written), marks : Nat, done : Nat, total : Nat] :
     /\ 2 * t.marks + Len(t.output) = n /\ 2 * t.marks + 3 <= Len(Writes)
     /\ \A i \in 1 .. Len(t.output) : t.output[i] = Writes[2 * t.marks + i]
     /\ t.marks = 0 => t.done = 0 /\ t.total = 0
     /\ t.marks # 0 => /\ t.done = Writes[2 * t.marks - 1].done
                       /\ t.total = Writes[2 * t.marks - 1].total}

Truthful == TellsTheTruth([job |-> wJob, conduct |-> wConduct])

LEMMA TruthIsMarksAndAnswer ==
  ASSUME Truthful
  PROVE  /\ Writes \in Seq(Written)
         /\ \E m \in 0 .. MaxMarks :
              /\ Len(Writes) = 2 * m + 3
              /\ \A i \in 1 .. m :
                   /\ Writes[2 * i - 1] = Pipes!Mark(Writes[2 * i - 1].done, Writes[2 * i - 1].total)
                   /\ Writes[2 * i - 1].total \in Nat \ {0}
                   /\ Writes[2 * i - 1].done \in 0 .. Writes[2 * i - 1].total
                   /\ Writes[2 * i] = Pipes!LineEnd
                   /\ i > 1 => /\ Writes[2 * i - 3].total = Writes[2 * i - 1].total
                               /\ Writes[2 * i - 3].done <= Writes[2 * i - 1].done
              /\ Writes[2 * m + 1] = Pipes!Half(1, Told(wJob))
              /\ Writes[2 * m + 2] = Pipes!Half(2, Told(wJob))
              /\ Writes[2 * m + 3] = Pipes!LineEnd
  BY DEF Truthful, TellsTheTruth, IsMark, Writes, Written, Tokens!Mark, Pipes!Mark, Tokens!LineEnd,
         Pipes!LineEnd, Tokens!Response, Tokens!Half, Pipes!Half

\* A mark that is heard whole is right, and read it leaves the rest.
LEMMA MarksAreSound ==
  ASSUME Truthful, NEW n \in Nat, NEW t \in Readings(n), Pipes!HasMark(t)
  PROVE  /\ Pipes!MarkIsSound(t) /\ Pipes!AfterMark(t) \in Readings(n)
         /\ Len(Pipes!AfterMark(t).output) + 2 = Len(t.output)
<1> DEFINE c == t.marks
           output == t.output
<1>1. PICK m \in 0 .. MaxMarks :
              /\ Len(Writes) = 2 * m + 3
              /\ \A i \in 1 .. m :
                   /\ Writes[2 * i - 1] = Pipes!Mark(Writes[2 * i - 1].done, Writes[2 * i - 1].total)
                   /\ Writes[2 * i - 1].total \in Nat \ {0}
                   /\ Writes[2 * i - 1].done \in 0 .. Writes[2 * i - 1].total
                   /\ Writes[2 * i] = Pipes!LineEnd
                   /\ i > 1 => /\ Writes[2 * i - 3].total = Writes[2 * i - 1].total
                               /\ Writes[2 * i - 3].done <= Writes[2 * i - 1].done
              /\ Writes[2 * m + 1] = Pipes!Half(1, Told(wJob))
  BY TruthIsMarksAndAnswer
<1>2. c \in Nat /\ 2 * c + 3 <= Len(Writes) /\ 2 * c + Len(output) = n
  BY DEF Readings
<1>2a. t = [output |-> output, marks |-> c, done |-> t.done, total |-> t.total]
       /\ output \in Seq(Written) /\ t.done \in Nat /\ t.total \in Nat
  BY DEF Readings
<1>2b. \A i \in 1 .. Len(output) : output[i] = Writes[2 * c + i]
  BY DEF Readings
<1>2c. /\ c = 0 => t.done = 0 /\ t.total = 0
       /\ c # 0 => t.done = Writes[2 * c - 1].done /\ t.total = Writes[2 * c - 1].total
  BY DEF Readings
<1>2d. t.marks = c /\ t.output = output
  OBVIOUS
<1>3. output # <<>> /\ Head(output).is = "mark" /\ \E i \in DOMAIN output : output[i] = Pipes!LineEnd
  BY DEF Pipes!HasMark, Pipes!HasLineEnd
<1> HIDE DEF c, output
<1>4. Len(output) \in Nat /\ DOMAIN output = 1 .. Len(output) /\ Len(output) >= 1
      /\ Head(output) = output[1]
  BY <1>2a, <1>3
<1>5. output[1] = Writes[2 * c + 1]
  BY <1>2b, <1>4
<1>6. c + 1 \in 1 .. m
  <2>1. c # m
    BY <1>1, <1>3, <1>4, <1>5 DEF Pipes!Half
  <2>2. m \in Nat /\ 2 * c + 3 <= 2 * m + 3
    BY <1>1, <1>2
  <2> QED
    BY <1>2, <2>1, <2>2
<1> DEFINE mark == Writes[2 * c + 1]
<1>7. 2 * (c + 1) - 1 = 2 * c + 1 /\ 2 * (c + 1) = 2 * c + 2 /\ 2 * (c + 1) - 3 = 2 * c - 1
  BY <1>2
<1>8. /\ mark = Pipes!Mark(mark.done, mark.total) /\ mark.total \in Nat \ {0}
      /\ mark.done \in 0 .. mark.total /\ Writes[2 * c + 2] = Pipes!LineEnd
      /\ c + 1 > 1 => /\ Writes[2 * c - 1].total = mark.total
                      /\ Writes[2 * c - 1].done <= mark.done
  <2>1. /\ Writes[2 * (c + 1) - 1] = Pipes!Mark(Writes[2 * (c + 1) - 1].done, Writes[2 * (c + 1) - 1].total)
        /\ Writes[2 * (c + 1) - 1].total \in Nat \ {0}
        /\ Writes[2 * (c + 1) - 1].done \in 0 .. Writes[2 * (c + 1) - 1].total
        /\ Writes[2 * (c + 1)] = Pipes!LineEnd
        /\ c + 1 > 1 => /\ Writes[2 * (c + 1) - 3].total = Writes[2 * (c + 1) - 1].total
                        /\ Writes[2 * (c + 1) - 3].done <= Writes[2 * (c + 1) - 1].done
    BY <1>1, <1>6
  <2> QED
    BY <1>7, <2>1
<1> HIDE DEF mark
<1>9. output[1] = mark
  BY <1>5 DEF mark
<1>10. output[1] # Pipes!LineEnd
  BY <1>8, <1>9 DEF Pipes!Mark, Pipes!LineEnd
<1>11. Len(output) >= 2
  BY <1>3, <1>4, <1>10
<1>12. output[2] = Pipes!LineEnd
  BY <1>2b, <1>4, <1>8, <1>11
<1>13. Pipes!FirstLineEnd(output) = 2
  <2>1. ASSUME NEW i \in 1 .. Len(output)
        PROVE  (output[i] = Pipes!LineEnd /\ \A j \in 1 .. i - 1 : output[j] # Pipes!LineEnd) <=> i = 2
    <3>1. CASE i = 1
      BY <1>10, <3>1
    <3>2. CASE i = 2
      BY <1>10, <1>12, <3>2
    <3>3. CASE i > 2
      <4>1. 2 \in 1 .. i - 1
        BY <3>3
      <4> QED
        BY <1>12, <3>3, <4>1
    <3> QED
      BY <1>4, <3>1, <3>2, <3>3
  <2>2. 2 \in DOMAIN output
    BY <1>4, <1>11
  <2> QED
    BY <1>4, <2>1, <2>2 DEF Pipes!FirstLineEnd
<1>14. mark.done \in Nat /\ mark.total \in Nat /\ mark.done <= mark.total /\ mark.total > 0
  BY <1>8
<1>15. t.done <= mark.done /\ t.total \in {0, mark.total}
  <2>1. CASE c = 0
    BY <1>2c, <1>14, <2>1
  <2>2. CASE c # 0
    <3>1. c + 1 > 1
      BY <1>2, <2>2
    <3> QED
      BY <1>2c, <1>8, <2>2, <3>1
  <2> QED
    BY <2>1, <2>2
<1>16. Pipes!MarkIsSound(t)
  <2>1. c < MaxMarks
    <3>1. m \in Nat /\ m <= MaxMarks
      BY PipesAssumption
    <3> QED
      BY <1>2, <1>6, <3>1, PipesAssumption
  <2>2. Head(t.output) = mark
    BY <1>2d, <1>4, <1>9
  <2> QED
    BY <1>2d, <1>13, <1>14, <1>15, <2>1, <2>2 DEF Pipes!MarkIsSound
<1> DEFINE rest == SubSeq(output, 3, Len(output))
<1>17. /\ rest \in Seq(Written) /\ Len(rest) = Len(output) - 2
       /\ \A i \in 1 .. Len(rest) : rest[i] = output[i + 2]
  <2>1. \A i \in 3 .. Len(output) : output[i] \in Written
    BY <1>2a, <1>4
  <2> QED
    BY <1>2a, <1>4, <1>11, <2>1, SubSeqProperties
<1>18. Pipes!AfterMark(t) = [output |-> rest, marks |-> c + 1, done |-> mark.done, total |-> mark.total]
  <2>1. Head(t.output) = mark /\ Pipes!Rest(t.output) = rest
    BY <1>2d, <1>4, <1>9, <1>13 DEF Pipes!Rest
  <2> HIDE DEF rest
  <2> QED
    BY <1>2d, <2>1 DEF Pipes!AfterMark
<1> DEFINE after == [output |-> rest, marks |-> c + 1, done |-> mark.done, total |-> mark.total]
<1> HIDE DEF rest
<1>19. after \in Readings(n)
  <2>1. after \in [output : Seq(Written), marks : Nat, done : Nat, total : Nat]
    BY <1>2, <1>14, <1>17
  <2>2. 2 * (c + 1) + Len(rest) = n
    <3>1. Len(rest) = Len(output) - 2
      BY <1>17
    <3> QED
      BY <1>2, <1>4, <3>1
  <2>3. 2 * (c + 1) + 3 <= Len(Writes)
    BY <1>1, <1>2, <1>6
  <2>4. \A i \in 1 .. Len(rest) : rest[i] = Writes[2 * (c + 1) + i]
    <3> SUFFICES ASSUME NEW i \in 1 .. Len(rest) PROVE rest[i] = Writes[2 * (c + 1) + i]
      OBVIOUS
    <3>1. i + 2 \in 1 .. Len(output) /\ 2 * c + (i + 2) = 2 * (c + 1) + i
      BY <1>2, <1>4, <1>17
    <3> QED
      BY <1>2b, <1>17, <3>1
  <2>5. c + 1 # 0
    BY <1>2
  <2> HIDE DEF mark
  <2>6. mark = Writes[2 * (c + 1) - 1]
    BY <1>7 DEF mark
  <2> QED
    BY <2>1, <2>2, <2>3, <2>4, <2>5, <2>6 DEF Readings
<1> QED
  <2>1. Pipes!AfterMark(t) = after /\ after.output = rest
    BY <1>18
  <2>2. Len(rest) + 2 = Len(output)
    BY <1>4, <1>11, <1>17
  <2> HIDE DEF after
  <2> QED
    BY <1>2d, <1>16, <1>19, <2>1, <2>2

\* What is left after the marks is no mark: all of them are read.
LEMMA MarksAreRead ==
  ASSUME Truthful, NEW n \in Nat, NEW t \in Readings(n)
  PROVE  Pipes!Consumed(t) \in Readings(n) /\ ~Pipes!HasMark(Pipes!Consumed(t))
<1> DEFINE S == Readings(n)
           L == Len(t.output)
           After(r) == IF Pipes!HasMark(r) /\ Pipes!MarkIsSound(r) THEN Pipes!AfterMark(r) ELSE r
           F == [p \in (1 .. L) \X S |-> After(p[2])]
           after[i \in 0 .. L] ==
             IF i = 0 THEN t
             ELSE LET before == after[i - 1]
                  IN  IF Pipes!HasMark(before) /\ Pipes!MarkIsSound(before)
                      THEN Pipes!AfterMark(before) ELSE before
<1>1. L \in Nat /\ t \in S
  BY DEF Readings
<1>2. \A r \in S : After(r) \in S
  BY MarksAreSound
<1> HIDE DEF S, After, L
<1>3. \A i \in 1 .. L, r \in S : F[<<i, r>>] = After(r)
  OBVIOUS
<1> HIDE DEF F
<1>4. IsComputed(S, t, L, F)
  <2>1. StaysIn(S, L, F)
    BY <1>2, <1>3 DEF StaysIn
  <2> QED
    BY <1>1, <2>1, StepByStep
<1>5. PICK f \in [0 .. L -> S] : f[0] = t /\ \A i \in 1 .. L : f[i] = F[<<i, f[i - 1]>>]
  BY <1>4 DEF IsComputed
<1>6. \A i \in 1 .. L : i - 1 \in 0 .. L /\ f[i - 1] \in S /\ f[i] = After(f[i - 1])
  <2> SUFFICES ASSUME NEW i \in 1 .. L
               PROVE  i - 1 \in 0 .. L /\ f[i - 1] \in S /\ f[i] = After(f[i - 1])
    OBVIOUS
  <2>1. i - 1 \in 0 .. L
    BY <1>1
  <2> QED
    BY <1>3, <1>5, <2>1
<1>7. f = [i \in 0 .. L |-> IF i = 0 THEN t ELSE After(f[i - 1])]
  <2> DEFINE G == [i \in 0 .. L |-> IF i = 0 THEN t ELSE After(f[i - 1])]
  <2>1. ASSUME NEW i \in 0 .. L PROVE f[i] = G[i]
    <3>1. CASE i = 0
      BY <1>5, <3>1
    <3>2. CASE i # 0
      <4>1. i \in 1 .. L
        BY <1>1, <3>2
      <4> QED
        BY <1>6, <3>2, <4>1
    <3> QED
      BY <3>1, <3>2
  <2> QED
    BY <2>1
<1>8. after = [i \in 0 .. L |-> IF i = 0 THEN t ELSE After(after[i - 1])]
  BY <1>7 DEF After
<1>9. Pipes!Consumed(t) = after[L]
  BY DEF Pipes!Consumed, L
<1> HIDE DEF after
<1>10. after[0] = t /\ \A i \in 1 .. L : i - 1 \in 0 .. L /\ after[i] = After(after[i - 1])
  BY <1>1, <1>8
<1> DEFINE Reached == {i \in 0 .. L : after[i] \in S /\ (Pipes!HasMark(after[i]) => Len(after[i].output) + i <= L)}
<1>11. 0 \in Reached
  BY <1>1, <1>10 DEF L
<1>12. ASSUME NEW i \in 1 .. L, i - 1 \in Reached PROVE i \in Reached
  <2> DEFINE before == after[i - 1]
  <2>1. before \in S /\ (Pipes!HasMark(before) => Len(before.output) + (i - 1) <= L)
    BY <1>12
  <2>2. after[i] = After(before) /\ after[i] \in S
    BY <1>2, <1>10, <2>1
  <2> HIDE DEF before
  <2>3. CASE Pipes!HasMark(before)
    <3>1. Len(Pipes!AfterMark(before).output) + 2 = Len(before.output) /\ after[i] = Pipes!AfterMark(before)
      BY <2>1, <2>2, <2>3, MarksAreSound DEF S, After
    <3>2. \A r \in S : r.output \in Seq(Written)
      BY DEF S, Readings
    <3>3. Len(after[i].output) \in Nat /\ Len(before.output) \in Nat
      BY <2>1, <2>2, <3>2
    <3> QED
      BY <1>1, <2>1, <2>2, <2>3, <3>1, <3>3
  <2>4. CASE ~Pipes!HasMark(before)
    BY <2>2, <2>4 DEF After
  <2> QED
    BY <2>3, <2>4
<1>13. L \in Reached
  <2> HIDE DEF Reached
  <2>1. \A i \in 0 .. L : i \in Reached
    BY <1>1, <1>11, <1>12, Reaches
  <2> QED
    BY <1>1, <2>1
<1>14. after[L] \in S /\ (Pipes!HasMark(after[L]) => Len(after[L].output) + L <= L)
  BY <1>13
<1>15. ~Pipes!HasMark(after[L])
  <2> SUFFICES ASSUME Pipes!HasMark(after[L]) PROVE FALSE
    OBVIOUS
  <2>1. after[L].output \in Seq(Written) /\ Len(after[L].output) \in Nat
    <3>1. after[L].output \in Seq(Written)
      <4>1. \A x \in S : x.output \in Seq(Written)
        BY DEF S, Readings
      <4> QED
        BY <1>14, <4>1
    <3> QED
      BY <3>1
  <2>2. Len(after[L].output) = 0
    BY <1>1, <1>14, <2>1
  <2>3. after[L].output = <<>>
    BY <2>1, <2>2
  <2> QED
    BY <2>3 DEF Pipes!HasMark
<1> QED
  BY <1>9, <1>14, <1>15 DEF S

\* Without a whole mark at its front, what was heard before the answer is a token at most.
LEMMA BeforeTheAnswer ==
  ASSUME Truthful, NEW n \in Nat, NEW t \in Readings(n), ~Pipes!HasMark(t),
         2 * t.marks + 3 < Len(Writes)
  PROVE  Len(t.output) <= 1
<1> SUFFICES ASSUME Len(t.output) > 1 PROVE FALSE
  BY DEF Readings
<1>1. PICK m \in 0 .. MaxMarks :
        /\ Len(Writes) = 2 * m + 3
        /\ \A i \in 1 .. m :
             /\ Writes[2 * i - 1] = Pipes!Mark(Writes[2 * i - 1].done, Writes[2 * i - 1].total)
             /\ Writes[2 * i] = Pipes!LineEnd
  BY TruthIsMarksAndAnswer
<1> DEFINE c == t.marks
           output == t.output
<1>2. c \in Nat /\ output \in Seq(Written)
  BY DEF Readings
<1>3. \A i \in 1 .. Len(output) : output[i] = Writes[2 * c + i]
  BY DEF Readings
<1>4. 2 * c + 3 < Len(Writes) /\ Len(output) > 1 /\ ~Pipes!HasMark(t)
  OBVIOUS
<1>5. Pipes!HasMark(t) <=> output # <<>> /\ Head(output).is = "mark" /\ Pipes!HasLineEnd(output)
  BY DEF Pipes!HasMark
<1> HIDE DEF c, output
<1>6. c + 1 \in 1 .. m
  <2>1. m \in Nat /\ 2 * c < 2 * m
    BY <1>1, <1>2, <1>4
  <2> QED
    BY <1>2, <2>1
<1>7. 2 * (c + 1) - 1 = 2 * c + 1 /\ 2 * (c + 1) = 2 * c + 2
  BY <1>2
<1>8. Writes[2 * c + 1].is = "mark" /\ Writes[2 * c + 2] = Pipes!LineEnd
  <2>1. /\ Writes[2 * (c + 1) - 1] = Pipes!Mark(Writes[2 * (c + 1) - 1].done, Writes[2 * (c + 1) - 1].total)
        /\ Writes[2 * (c + 1)] = Pipes!LineEnd
    BY <1>1, <1>6
  <2> QED
    BY <1>7, <2>1 DEF Pipes!Mark
<1>9. Len(output) \in Nat /\ DOMAIN output = 1 .. Len(output) /\ Head(output) = output[1] /\ output # <<>>
  BY <1>2, <1>4
<1>10. 1 \in DOMAIN output /\ 2 \in DOMAIN output
  BY <1>4, <1>9
<1>11. output[1] = Writes[2 * c + 1] /\ output[2] = Writes[2 * c + 2]
  BY <1>3, <1>9, <1>10
<1> QED
  BY <1>4, <1>5, <1>8, <1>9, <1>10, <1>11 DEF Pipes!HasLineEnd

-----------------------------------------------------------------------------
\* The supervisor, the pipe and the worker have one text between them.
Hearing ==
  LET heard == wTalk.heard
      before == 2 * heard.marks + Len(heard.output)
  IN  /\ heard \in Readings(before) /\ ~Pipes!HasMark(heard)
      /\ wOutPipe \in Seq(Written) /\ Len(wOutPipe) <= Capacity
      /\ before + Len(wOutPipe) = wWorker.written /\ wWorker.written <= Len(Writes)
      /\ \A i \in 1 .. Len(wOutPipe) : wOutPipe[i] = Writes[before + i]
      /\ Pipes!Exited => wWorker.written = Len(Writes) /\ wWorker.code = 0
      /\ ~wTalk.stdout => wOutPipe = <<>> /\ Pipes!Exited
      /\ wTalk.pc \in {"check", "publish"} => ~wTalk.stdout

GoodWork == Pipes!Sound /\ ~wCancel /\ ~wExpired

BelievedInv ==
  /\ wJob.names # <<>>
  /\ wConduct.tells = "the truth" => Truthful
  /\ GoodWork => wOutcome \in {"none", "success"} /\ (wOutcome = "none" => Hearing)

LEMMA HeardWhole ==
  ASSUME Truthful, Hearing, ~wTalk.stdout
  PROVE  wTalk.heard.output = Pipes!Response(Told(wJob))
<1> DEFINE c == wTalk.heard.marks
           output == wTalk.heard.output
           n == 2 * c + Len(output)
<1>1. PICK m \in 0 .. MaxMarks :
        /\ Len(Writes) = 2 * m + 3
        /\ Writes[2 * m + 1] = Pipes!Half(1, Told(wJob))
        /\ Writes[2 * m + 2] = Pipes!Half(2, Told(wJob))
        /\ Writes[2 * m + 3] = Pipes!LineEnd
  BY TruthIsMarksAndAnswer
<1>2. wTalk.heard \in Readings(n) /\ ~Pipes!HasMark(wTalk.heard)
  BY DEF Hearing
<1>3. c \in Nat /\ output \in Seq(Written) /\ 2 * c + 3 <= Len(Writes)
  BY <1>2 DEF Readings
<1>4. \A i \in 1 .. Len(output) : output[i] = Writes[2 * c + i]
  BY <1>2 DEF Readings
<1>5. n + Len(wOutPipe) = Len(Writes) /\ wOutPipe = <<>>
  BY DEF Hearing
<1>6. Len(output) \in Nat /\ n \in Nat
  <2>1. c \in Nat /\ output \in Seq(Written)
    BY <1>3
  <2> HIDE DEF c, output
  <2>2. Len(output) \in Nat
    BY <2>1
  <2> QED
    BY <2>1, <2>2
<1>7. n = Len(Writes)
  BY <1>5, <1>6
<1>8. 2 * c + 3 < Len(Writes) => Len(output) <= 1
  BY <1>2, <1>6, BeforeTheAnswer
<1> HIDE DEF c, output
<1>9. c = m /\ Len(output) = 3
  <2>1. m \in Nat /\ Len(Writes) = 2 * m + 3 /\ 2 * c + Len(output) = 2 * m + 3
    BY <1>1, <1>7
  <2>2. ~(c < m)
    BY <1>3, <1>6, <1>8, <2>1
  <2>3. c <= m
    BY <1>3, <2>1
  <2>4. c \in Nat
    BY <1>3
  <2>5. c = m
    BY <2>1, <2>2, <2>3, <2>4
  <2>6. 2 * m + Len(output) = 2 * m + 3
    BY <2>1, <2>5
  <2>7. Len(output) \in Nat /\ 2 * m \in Nat
    BY <1>6, <2>1
  <2>8. ASSUME NEW x \in Nat, NEW y \in Nat, x + y = x + 3 PROVE y = 3
    BY <2>8
  <2> QED
    BY <2>5, <2>6, <2>7, <2>8
<1>10. /\ output[1] = Pipes!Half(1, Told(wJob)) /\ output[2] = Pipes!Half(2, Told(wJob))
       /\ output[3] = Pipes!LineEnd
  BY <1>1, <1>4, <1>9
<1>11. output = <<Pipes!Half(1, Told(wJob)), Pipes!Half(2, Told(wJob)), Pipes!LineEnd>>
  BY <1>3, <1>9, <1>10
<1> QED
  BY <1>11 DEF output, Pipes!Response

LEMMA HeardMore ==
  ASSUME Hearing, wWorker.written \in Nat, NEW next \in Readings(wWorker.written), ~Pipes!HasMark(next),
         wTalk'.heard = next, wTalk'.pc = "talk", wTalk'.stdout = TRUE, wOutPipe' = <<>>,
         UNCHANGED <<wConduct, wWorker>>
  PROVE  Hearing'
<1>1. next.marks \in Nat /\ next.output \in Seq(Written)
      /\ 2 * next.marks + Len(next.output) = wWorker.written
  BY DEF Readings
<1>2. Writes' = Writes /\ Written' = Written
  BY DEF Writes, Written
<1>3. ASSUME NEW k PROVE Readings(k)' = Readings(k)
  BY <1>2 DEF Readings
<1>4. wTalk'.heard \in Readings(wWorker.written)
  OBVIOUS
<1>5. Pipes!Exited' => wWorker.written = Len(Writes) /\ wWorker.code = 0
  BY DEF Hearing, Pipes!Exited
<1>6. wOutPipe' \in Seq(Written) /\ Len(wOutPipe') = 0 /\ 0 <= Capacity /\ wWorker.written <= Len(Writes)
  BY PipesAssumption DEF Hearing
<1>7. wTalk'.heard.marks = next.marks /\ wTalk'.heard.output = next.output
  OBVIOUS
<1>8. 2 * wTalk'.heard.marks + Len(wTalk'.heard.output) + 0 = wWorker.written
      /\ wWorker.written = 2 * wTalk'.heard.marks + Len(wTalk'.heard.output)
  BY <1>1, <1>7
<1> QED
  BY <1>2, <1>3, <1>4, <1>5, <1>6, <1>8 DEF Hearing

\* What is heard next still is of the worker's text.
LEMMA HearsMore ==
  ASSUME ExchangeInv, Truthful, Hearing, Pipes!Hears
  PROVE  Hearing' /\ wOutcome' = wOutcome
<1> DEFINE c == wTalk.heard.marks
           output == wTalk.heard.output
           n == 2 * c + Len(output)
           joined == output \o wOutPipe
           t == [output |-> joined, marks |-> c, done |-> wTalk.heard.done, total |-> wTalk.heard.total]
<1>1. wTalk.heard \in Readings(n) /\ ~Pipes!HasMark(wTalk.heard)
  BY DEF Hearing
<1>2. /\ c \in Nat /\ output \in Seq(Written) /\ 2 * c + 3 <= Len(Writes)
      /\ wTalk.heard.done \in Nat /\ wTalk.heard.total \in Nat
  BY <1>1 DEF Readings
<1>3. wTalk.heard = [output |-> output, marks |-> c, done |-> wTalk.heard.done, total |-> wTalk.heard.total]
  BY <1>1 DEF Readings
<1>4. \A i \in 1 .. Len(output) : output[i] = Writes[2 * c + i]
  BY <1>1 DEF Readings
<1>5. /\ wOutPipe \in Seq(Written) /\ Len(wOutPipe) <= Capacity
      /\ n + Len(wOutPipe) = wWorker.written /\ wWorker.written <= Len(Writes)
  BY DEF Hearing
<1>6. \A i \in 1 .. Len(wOutPipe) : wOutPipe[i] = Writes[n + i]
  BY DEF Hearing
<1>7. Len(output) \in Nat /\ Len(wOutPipe) \in Nat /\ n \in Nat
  <2>1. c \in Nat /\ output \in Seq(Written) /\ wOutPipe \in Seq(Written)
    BY <1>2, <1>5
  <2> HIDE DEF c, output
  <2>2. Len(output) \in Nat /\ Len(wOutPipe) \in Nat
    BY <2>1
  <2> QED
    BY <2>1, <2>2
<1>8. joined \in Seq(Written) /\ Len(joined) = Len(output) + Len(wOutPipe)
  BY <1>2, <1>5, ConcatProperties
<1>9. \A i \in 1 .. Len(joined) : joined[i] = IF i <= Len(output) THEN output[i] ELSE wOutPipe[i - Len(output)]
  BY <1>2, <1>5, <1>8, ConcatProperties
<1>10. [wTalk.heard EXCEPT !.output = @ \o wOutPipe] = t
  <2>1. ASSUME NEW a, NEW b, NEW d, NEW e, NEW x
        PROVE  [[output |-> a, marks |-> b, done |-> d, total |-> e] EXCEPT !.output = x]
               = [output |-> x, marks |-> b, done |-> d, total |-> e]
    OBVIOUS
  <2>2. wTalk.heard.output \o wOutPipe = joined
    OBVIOUS
  <2> HIDE DEF c, output, joined
  <2>3. [wTalk.heard EXCEPT !.output = @ \o wOutPipe] = [wTalk.heard EXCEPT !.output = joined]
    BY <2>2
  <2> QED
    BY <1>3, <2>1, <2>3
<1> DEFINE next == Pipes!Consumed(t)
<1>11. t \in Readings(wWorker.written)
  <2> HIDE DEF c, output, joined
  <2>1. t \in [output : Seq(Written), marks : Nat, done : Nat, total : Nat]
    BY <1>2, <1>8
  <2>2. 2 * c + Len(joined) = wWorker.written
    BY <1>2, <1>5, <1>7, <1>8
  <2>3. \A i \in 1 .. Len(joined) : joined[i] = Writes[2 * c + i]
    <3> SUFFICES ASSUME NEW i \in 1 .. Len(joined) PROVE joined[i] = Writes[2 * c + i]
      OBVIOUS
    <3>1. CASE i <= Len(output)
      BY <1>4, <1>9, <3>1
    <3>2. CASE ~(i <= Len(output))
      <4>1. i - Len(output) \in 1 .. Len(wOutPipe) /\ n + (i - Len(output)) = 2 * c + i
        BY <1>2, <1>7, <1>8, <3>2
      <4>2. joined[i] = wOutPipe[i - Len(output)]
        BY <1>9, <3>2
      <4> QED
        BY <1>6, <4>1, <4>2
    <3> QED
      BY <3>1, <3>2
  <2>4. /\ c = 0 => wTalk.heard.done = 0 /\ wTalk.heard.total = 0
        /\ c # 0 => /\ wTalk.heard.done = Writes[2 * c - 1].done
                    /\ wTalk.heard.total = Writes[2 * c - 1].total
    BY <1>1 DEF Readings, c
  <2> QED
    BY <1>2, <2>1, <2>2, <2>3, <2>4 DEF Readings
<1>12. wWorker.written \in Nat
  BY <1>5, <1>7
<1>13. next \in Readings(wWorker.written) /\ ~Pipes!HasMark(next)
  BY <1>11, <1>12, MarksAreRead
<1>14. Len(output) + Len(wOutPipe) <= MaxOutput
  <2>1. CASE 2 * c + 3 < Len(Writes)
    <3>1. Len(output) <= 1
      BY <1>1, <1>7, <2>1, BeforeTheAnswer
    <3> QED
      BY <1>5, <1>7, <3>1, PipesAssumption
  <2>2. CASE ~(2 * c + 3 < Len(Writes))
    <3>1. Len(Writes) \in Nat
      BY TruthIsMarksAndAnswer
    <3>2. 2 * c + 3 = Len(Writes)
      BY <1>2, <2>2, <3>1
    <3>3. 2 * c + Len(output) + Len(wOutPipe) <= 2 * c + 3
      BY <1>5, <3>2
    <3> HIDE DEF c, output
    <3> QED
      BY <1>2, <1>7, <3>3, PipesAssumption
  <2> QED
    BY <2>1, <2>2
<1> HIDE DEF t, next
<1>15. /\ wTalk' = [wTalk EXCEPT !.heard = next] /\ wOutPipe' = <<>> /\ wTalk.stdout
       /\ UNCHANGED <<wJob, wConduct, wInPipe, wWorker, wHelper, wCancel, wExpired, wPublished, wOutcome>>
  <2>1. ~(Len(output) + Len(wOutPipe) > MaxOutput)
    BY <1>7, <1>14, PipesAssumption
  <2> QED
    BY <1>10, <1>13, <2>1 DEF Pipes!Hears, next
<1>16. wTalk'.heard = next /\ wTalk'.pc = wTalk.pc /\ wTalk'.stdout = wTalk.stdout
  BY <1>15 DEF ExchangeInv, PipesTalk
<1>17. wTalk.pc = "talk"
  BY DEF Pipes!Hears, Pipes!Serving, Pipes!Looping, Pipes!At
<1> QED
  BY <1>12, <1>13, <1>15, <1>16, <1>17, HeardMore

LEMMA HearingKept ==
  ASSUME Hearing, wTalk'.heard = wTalk.heard, wTalk'.stdout = wTalk.stdout,
         wTalk'.pc \in {"check", "publish"} => ~wTalk.stdout, UNCHANGED <<wConduct, wWorker, wOutPipe>>
  PROVE  Hearing'
<1>1. Writes' = Writes /\ Written' = Written
  BY DEF Writes, Written
<1>2. ASSUME NEW k PROVE Readings(k)' = Readings(k)
  BY <1>1 DEF Readings
<1>3. Pipes!Exited' = Pipes!Exited
  BY DEF Pipes!Exited
<1> QED
  BY <1>1, <1>2, <1>3 DEF Hearing

\* The loop waits for the worker's exit and for the end of its output.
LEMMA HearingEnds ==
  ASSUME ExchangeInv, Hearing, Pipes!HearsTheEnd \/ Pipes!HasHeard
  PROVE  Hearing' /\ wOutcome' = wOutcome
<1>1. CASE Pipes!HearsTheEnd
  <2>1. wTalk'.heard = wTalk.heard /\ wTalk'.stdout = FALSE /\ wTalk'.pc = wTalk.pc
    BY <1>1 DEF Pipes!HearsTheEnd, ExchangeInv, PipesTalk
  <2>2. wOutPipe = <<>> /\ Pipes!Exited /\ UNCHANGED <<wConduct, wWorker, wOutPipe, wOutcome>>
    BY <1>1 DEF Pipes!HearsTheEnd, Pipes!PipesHeld
  <2>3. Writes' = Writes /\ Written' = Written
    BY <2>2 DEF Writes, Written
  <2>4. ASSUME NEW k PROVE Readings(k)' = Readings(k)
    BY <2>3 DEF Readings
  <2>5. Pipes!Exited' = Pipes!Exited
    BY <2>2 DEF Pipes!Exited
  <2> QED
    BY <2>1, <2>2, <2>3, <2>4, <2>5 DEF Hearing
<1>2. CASE Pipes!HasHeard
  <2>1. wTalk'.heard = wTalk.heard /\ wTalk'.stdout = wTalk.stdout
    BY <1>2 DEF Pipes!HasHeard, ExchangeInv, PipesTalk
  <2> QED
    BY <1>2, <2>1, HearingKept DEF Pipes!HasHeard
<1> QED
  BY <1>1, <1>2

LEMMA HearingFeeds ==
  ASSUME ExchangeInv, Hearing, Pipes!Feeds PROVE Hearing' /\ wOutcome' = wOutcome
<1>1. wTalk'.heard = wTalk.heard /\ wTalk'.stdout = wTalk.stdout /\ wTalk'.pc = wTalk.pc
  BY DEF Pipes!Feeds, ExchangeInv, PipesTalk
<1> QED
  BY <1>1, HearingKept DEF Pipes!Feeds, Hearing

\* The worker adds to its text, or ends once it is whole.
LEMMA HearingWorks ==
  ASSUME ExchangeInv, Truthful, Hearing, wConduct.code = 0, Pipes!Worker
  PROVE  Hearing' /\ wOutcome' = wOutcome
<1>1. CASE Pipes!WorkerReads
  BY <1>1, HearingKept DEF Pipes!WorkerReads, Hearing
<1> DEFINE before == 2 * wTalk.heard.marks + Len(wTalk.heard.output)
<1>2. /\ wTalk.heard \in Readings(before) /\ ~Pipes!HasMark(wTalk.heard)
      /\ wOutPipe \in Seq(Written) /\ Len(wOutPipe) <= Capacity
      /\ before + Len(wOutPipe) = wWorker.written /\ wWorker.written <= Len(Writes)
      /\ \A i \in 1 .. Len(wOutPipe) : wOutPipe[i] = Writes[before + i]
  BY DEF Hearing
<1>3. /\ Pipes!Exited => wWorker.written = Len(Writes) /\ wWorker.code = 0
      /\ ~wTalk.stdout => wOutPipe = <<>> /\ Pipes!Exited
      /\ wTalk.pc \in {"check", "publish"} => ~wTalk.stdout
  BY DEF Hearing
<1>4. wTalk.heard.marks \in Nat /\ wTalk.heard.output \in Seq(Written)
  BY <1>2 DEF Readings
<1>5. before \in Nat /\ Len(wOutPipe) \in Nat
  <2>1. Len(wTalk.heard.output) \in Nat /\ Len(wOutPipe) \in Nat
    BY <1>2, <1>4
  <2> QED
    BY <1>4, <2>1
<1> HIDE DEF before
<1>6. wWorker = [stage |-> wWorker.stage, written |-> wWorker.written, code |-> wWorker.code]
  BY DEF ExchangeInv, PipesWorker
<1>7. CASE Pipes!WorkerHasRead \/ Pipes!WorkerExits
  <2>1. /\ UNCHANGED <<wConduct, wTalk, wOutPipe, wOutcome>> /\ ~Pipes!Exited
        /\ wWorker'.written = wWorker.written
        /\ Pipes!Exited' => wWorker.written = Len(Writes) /\ wWorker'.code = 0
    BY <1>6, <1>7 DEF Pipes!WorkerHasRead, Pipes!WorkerExits, Pipes!Exited, Writes
  <2>2. Writes' = Writes /\ Written' = Written
    BY <2>1 DEF Writes, Written
  <2>3. ASSUME NEW k PROVE Readings(k)' = Readings(k)
    BY <2>2 DEF Readings
  <2> QED
    BY <1>2, <1>3, <2>1, <2>2, <2>3 DEF Hearing, before
<1>8. CASE Pipes!WorkerWrites
  <2> DEFINE k == wWorker.written
  <2>1. /\ UNCHANGED <<wConduct, wTalk, wOutcome>> /\ ~Pipes!Exited /\ ~Pipes!Exited'
        /\ wWorker'.written = k + 1
    BY <1>6, <1>8 DEF Pipes!WorkerWrites, Pipes!Exited
  <2>2. k < Len(Writes) /\ Len(wOutPipe) < Capacity /\ wOutPipe' = Append(wOutPipe, Writes[k + 1])
    BY <1>8 DEF Pipes!WorkerWrites, Writes
  <2>3. Writes \in Seq(Written)
    BY TruthIsMarksAndAnswer
  <2>4. k \in Nat /\ before + Len(wOutPipe) = k
    BY <1>2, <1>5
  <2> HIDE DEF k
  <2>5. Len(Writes) \in Nat /\ k + 1 <= Len(Writes) /\ k + 1 \in 1 .. Len(Writes)
    BY <2>2, <2>3, <2>4
  <2>6. Writes[k + 1] \in Written
    BY <2>3, <2>5
  <2>7. /\ wOutPipe' \in Seq(Written) /\ Len(wOutPipe') = Len(wOutPipe) + 1
        /\ \A i \in 1 .. Len(wOutPipe') :
             wOutPipe'[i] = IF i = Len(wOutPipe) + 1 THEN Writes[k + 1] ELSE wOutPipe[i]
    BY <1>2, <2>2, <2>6
  <2>8. ASSUME NEW i \in 1 .. Len(wOutPipe') PROVE wOutPipe'[i] = Writes[before + i]
    <3>1. CASE i = Len(wOutPipe) + 1
      <4>1. before + i = k + 1
        BY <1>5, <2>4, <3>1
      <4> QED
        BY <2>7, <3>1, <4>1
    <3>2. CASE i # Len(wOutPipe) + 1
      <4>1. i \in 1 .. Len(wOutPipe)
        BY <1>5, <2>7, <3>2
      <4> QED
        BY <1>2, <2>7, <3>2, <4>1
    <3> QED
      BY <3>1, <3>2
  <2>9. before + Len(wOutPipe') = k + 1
    BY <1>5, <2>4, <2>7
  <2>10. Len(wOutPipe') <= Capacity
    BY <1>5, <2>2, <2>7, PipesAssumption
  <2>11. Writes' = Writes /\ Written' = Written /\ wTalk' = wTalk
    BY <2>1 DEF Writes, Written
  <2>12. ASSUME NEW n PROVE Readings(n)' = Readings(n)
    BY <2>11 DEF Readings
  <2>13. /\ ~wTalk'.stdout => FALSE
         /\ wTalk'.pc \in {"check", "publish"} => ~wTalk'.stdout
    BY <1>3, <2>1, <2>11
  <2>14. before' = before /\ wWorker'.written <= Len(Writes)
    BY <2>1, <2>5, <2>11 DEF before
  <2> QED
    BY <1>2, <2>1, <2>5, <2>7, <2>8, <2>9, <2>10, <2>11, <2>12, <2>13, <2>14 DEF Hearing, before
<1> QED
  BY <1>1, <1>7, <1>8 DEF Pipes!Worker

LEMMA TruthIsTheAnswer ==
  ASSUME Truthful, Hearing, ~wTalk.stdout
  PROVE  Pipes!Answer = Told(wJob) /\ Pipes!IsResponse(wTalk.heard.output)
<1> DEFINE output == wTalk.heard.output
<1>1. output = <<Pipes!Half(1, Told(wJob)), Pipes!Half(2, Told(wJob)), Pipes!LineEnd>>
  BY HeardWhole DEF Pipes!Response
<1>2. 1 \in DOMAIN output /\ output[1] = Pipes!Half(1, Told(wJob)) /\ Head(output) = output[1]
  BY <1>1
<1>3. output[1].is = "half" /\ output[1].answer = Told(wJob)
  BY <1>2 DEF Pipes!Half
<1>4. output = Pipes!Response(output[1].answer)
  BY <1>1, <1>3 DEF Pipes!Response
<1> QED
  BY <1>2, <1>3, <1>4 DEF Pipes!Answer, Pipes!IsResponse

\* The answer of good work is found right.
LEMMA TruthIsFound ==
  ASSUME ExchangeInv, wJob.names # <<>>
  PROVE  /\ Pipes!IsCoherent(Told(wJob)) /\ Told(wJob).success
         /\ Pipes!FilesAreAnnounced(Told(wJob)) /\ Len(Told(wJob).files) = Len(wJob.names)
         /\ \A i \in 1 .. Len(wJob.names) :
              Told(wJob).files[i] = [dir |-> "private", name |-> wJob.names[i]]
<1> DEFINE names == wJob.names
           files == Private(names)
<1>1. /\ Told(wJob).to = "this request" /\ Told(wJob).success = TRUE /\ Told(wJob).files = files
      /\ Told(wJob).remarks = wJob.remarks
  BY DEF Told
<1>2. names \in Seq(STRING) /\ names # <<>> /\ (wJob.kind = "staged" => Len(names) = 1)
  BY DEF ExchangeInv, PipesInv, JobInv
<1> HIDE DEF names
<1>3. Len(names) \in Nat /\ DOMAIN names = 1 .. Len(names) /\ Len(names) >= 1
  BY <1>2
<1>4. files = [i \in 1 .. Len(names) |-> [dir |-> "private", name |-> names[i]]]
  BY <1>3 DEF Private
<1> HIDE DEF files
<1>5. /\ Len(files) = Len(names) /\ DOMAIN files = 1 .. Len(names)
      /\ \A i \in 1 .. Len(names) : files[i] = [dir |-> "private", name |-> names[i]]
  BY <1>3, <1>4
<1>6. files # <<>>
  BY <1>3, <1>5
<1>7. [i \in DOMAIN files |-> files[i].name] = names
  <2>1. ASSUME NEW i \in 1 .. Len(names) PROVE files[i].name = names[i]
    BY <1>5
  <2>2. names = [i \in 1 .. Len(names) |-> names[i]]
    BY <1>2, <1>3
  <2> QED
    BY <1>5, <2>1, <2>2
<1>8. wJob.kind = "staged" => files = <<[dir |-> "private", name |-> names[1]]>>
  <2> SUFFICES ASSUME wJob.kind = "staged" PROVE files = <<[dir |-> "private", name |-> names[1]]>>
    OBVIOUS
  <2>1. Len(names) = 1 /\ 1 .. 1 = {1}
    BY <1>2
  <2>2. files = [i \in {1} |-> [dir |-> "private", name |-> names[i]]]
    BY <1>4, <2>1
  <2>3. ASSUME NEW x PROVE <<x>> = [i \in {1} |-> x]
    OBVIOUS
  <2>4. files = [i \in {1} |-> [dir |-> "private", name |-> names[1]]]
    BY <2>2
  <2> QED
    BY <2>3, <2>4
<1>9. Pipes!IsCoherent(Told(wJob))
  BY <1>1, <1>6 DEF Pipes!IsCoherent
<1>10. Pipes!FilesAreAnnounced(Told(wJob))
  <2>1. wJob.kind \in {"split", "named", "staged"}
    BY DEF ExchangeInv, PipesInv, JobInv
  <2>2. Pipes!CountIsRight(Told(wJob))
    BY <1>1, <1>5 DEF Pipes!CountIsRight, Pipes!RemarksAreRight, names
  <2>3. CASE wJob.kind = "split"
    BY <1>1, <1>7, <2>2, <2>3 DEF Pipes!FilesAreAnnounced, names
  <2>4. CASE wJob.kind = "named"
    BY <2>2, <2>4 DEF Pipes!FilesAreAnnounced
  <2>5. CASE wJob.kind = "staged"
    BY <1>1, <1>8, <2>2, <2>5 DEF Pipes!FilesAreAnnounced, names
  <2> QED
    BY <2>1, <2>3, <2>4, <2>5
<1> QED
  BY <1>1, <1>5, <1>9, <1>10 DEF names

\* The last steps of good work: it is found right, and its files are published.
LEMMA GoodWorkSucceeds ==
  ASSUME ExchangeInv, wJob.names # <<>>, Truthful, Hearing, GoodWork, wOutcome = "none",
         Pipes!ChecksAnswer \/ Pipes!Publishes \/ Pipes!HasPublished
  PROVE  wOutcome' = "success" \/ (wOutcome' = "none" /\ Hearing')
<1>1. wTalk.pc \in {"check", "publish"}
  BY DEF Pipes!ChecksAnswer, Pipes!Publishes, Pipes!HasPublished, Pipes!At
<1>2. ~wTalk.stdout /\ Pipes!Exited /\ wWorker.code = 0
  BY <1>1 DEF Hearing
<1>3. Pipes!Answer = Told(wJob) /\ Pipes!IsResponse(wTalk.heard.output)
  BY <1>2, TruthIsTheAnswer
<1>4. /\ Pipes!IsCoherent(Told(wJob)) /\ Told(wJob).success
      /\ Pipes!FilesAreAnnounced(Told(wJob)) /\ Len(Told(wJob).files) = Len(wJob.names)
      /\ \A i \in 1 .. Len(wJob.names) :
           Told(wJob).files[i] = [dir |-> "private", name |-> wJob.names[i]]
  BY TruthIsFound
<1>5. ~wCancel /\ ~wExpired
  BY DEF GoodWork
<1>6. CASE Pipes!ChecksAnswer
  <2>1. Pipes!Ended = "exit"
    BY <1>2, <1>5 DEF Pipes!Ended
  <2>2. wTalk' = [wTalk EXCEPT !.pc = "publish"]
        /\ UNCHANGED <<wConduct, wWorker, wOutPipe, wOutcome>>
    BY <1>3, <1>4, <1>6, <2>1 DEF Pipes!ChecksAnswer
  <2>3. wTalk'.heard = wTalk.heard /\ wTalk'.stdout = wTalk.stdout
    BY <2>2 DEF ExchangeInv, PipesTalk
  <2> QED
    BY <1>2, <2>2, <2>3, HearingKept
<1>7. CASE Pipes!Publishes
  <2> DEFINE k == Len(wPublished) + 1
             file == Told(wJob).files[k]
  <2>0. /\ wPublished \in Seq(STRING) /\ wJob.names \in Seq(STRING)
        /\ wJob.kind # "split" => Len(wJob.names) = 1
    BY DEF ExchangeInv, PipesInv, PublishedInv, JobInv
  <2>1. k \in 1 .. Len(wJob.names)
    <3>1. Len(wPublished) < Len(Told(wJob).files)
      BY <1>3, <1>7 DEF Pipes!Publishes
    <3>2. Len(wPublished) < Len(wJob.names)
      BY <1>4, <3>1
    <3>3. Len(wPublished) \in Nat /\ Len(wJob.names) \in Nat
      BY <2>0
    <3> QED
      BY <3>2, <3>3
  <2>2. file.dir = "private" /\ file.name = wJob.names[k]
    <3> HIDE DEF k
    <3>1. file = [dir |-> "private", name |-> wJob.names[k]]
      BY <1>4, <2>1
    <3> HIDE DEF file
    <3> QED
      BY <3>1
  <2>3. file.name \in DOMAIN wConduct.made /\ wConduct.made[file.name] = "regular"
    <3>1. k \in DOMAIN wJob.names
      BY <2>1 DEF ExchangeInv, PipesInv, JobInv
    <3> QED
      BY <2>2, <3>1 DEF GoodWork, Pipes!Sound
  <2>4. wJob.kind = "named" => file.name = wJob.names[1]
    <3>1. wJob.kind = "named" => k = 1
      <4>1. wJob.kind = "named" => Len(wJob.names) = 1
        BY <2>0
      <4> HIDE DEF k
      <4>2. wJob.kind = "named" => k \in 1 .. 1
        BY <2>1, <4>1
      <4> QED
        BY <4>2
    <3> QED
      BY <2>2, <3>1
  <2>5. Pipes!Answer.files[Len(wPublished) + 1] = file
    BY <1>3
  <2> HIDE DEF k, file
  <2>6. Pipes!Fault(file) = "none"
    BY <2>2, <2>3, <2>4 DEF Pipes!Fault
  <2>7. UNCHANGED <<wTalk, wConduct, wWorker, wOutPipe, wOutcome>>
    BY <1>5, <1>7, <2>5, <2>6 DEF Pipes!Publishes
  <2> QED
    BY <1>2, <2>7, HearingKept
<1>8. CASE Pipes!HasPublished
  BY <1>5, <1>8 DEF Pipes!HasPublished
<1> QED
  BY <1>6, <1>7, <1>8

LEMMA BelievedStarts == JobsInit => BelievedInv
<1> SUFFICES ASSUME JobsInit PROVE BelievedInv
  OBVIOUS
<1>1. PICK work \in Works : wJob = work.job /\ wConduct = work.conduct
  BY DEF JobsInit, Pipes!Init
<1>2. wJob.names # <<>>
  BY <1>1, WorksAssumption
<1>3. ASSUME wConduct.tells = "the truth" PROVE Truthful
  <2>1. TellsTheTruth(work)
    BY <1>1, <1>3, WorksAssumption
  <2> QED
    BY <1>1, <2>1 DEF Truthful, TellsTheTruth
<1>4. ASSUME GoodWork PROVE wOutcome = "none" /\ Hearing
  <2>1. Truthful
    BY <1>3, <1>4 DEF GoodWork, Pipes!Sound
  <2>2. Writes \in Seq(Written) /\ Len(Writes) \in Nat /\ 3 <= Len(Writes)
    <3>1. \E m \in Nat : Len(Writes) = 2 * m + 3
      BY <2>1, TruthIsMarksAndAnswer
    <3> QED
      BY <2>1, <3>1, TruthIsMarksAndAnswer
  <2>3. /\ wTalk.heard = [output |-> <<>>, marks |-> 0, done |-> 0, total |-> 0]
        /\ wTalk.pc = "talk" /\ wTalk.stdout = TRUE
        /\ wOutPipe = <<>> /\ wWorker.stage = "reads" /\ wWorker.written = 0 /\ wOutcome = "none"
    BY DEF JobsInit, Pipes!Init
  <2> DEFINE heard == [output |-> <<>>, marks |-> 0, done |-> 0, total |-> 0]
  <2>4. heard \in Readings(0) /\ ~Pipes!HasMark(heard) /\ 2 * heard.marks + Len(heard.output) = 0
    BY <2>2 DEF Readings, Pipes!HasMark
  <2> HIDE DEF heard
  <2>5. wTalk.heard = heard
    BY <2>3 DEF heard
  <2>6. /\ wOutPipe \in Seq(Written) /\ Len(wOutPipe) = 0 /\ 0 <= Capacity /\ 0 <= Len(Writes)
    BY <2>2, <2>3, PipesAssumption
  <2>7. ~Pipes!Exited
    BY <2>3 DEF Pipes!Exited
  <2> QED
    BY <2>3, <2>4, <2>5, <2>6, <2>7 DEF Hearing
<1> QED
  BY <1>2, <1>3, <1>4 DEF BelievedInv

LEMMA BelievedSteps == ExchangeInv /\ BelievedInv /\ [Pipes!Next]_pipeVars => BelievedInv'
<1> SUFFICES ASSUME ExchangeInv, BelievedInv, [Pipes!Next]_pipeVars PROVE BelievedInv'
  OBVIOUS
<1>1. UNCHANGED <<wJob, wConduct>> /\ (wCancel => wCancel') /\ (wExpired => wExpired')
  BY DEF Pipes!Next, Pipes!Supervisor, Pipes!StopsForCancel, Pipes!StopsForDeadline, Pipes!Raises, Pipes!Feeds,
         Pipes!Hears, Pipes!HearsTheEnd, Pipes!HasHeard, Pipes!ChecksAnswer, Pipes!Publishes, Pipes!HasPublished,
         Pipes!Worker, Pipes!WorkerReads, Pipes!WorkerHasRead, Pipes!WorkerWrites, Pipes!WorkerExits,
         Pipes!WorkerFails, Pipes!HelperEnds, Pipes!Cancel, Pipes!DeadlinePasses, pipeVars
<1>2. Truthful' = Truthful /\ Pipes!Sound' = Pipes!Sound
  BY <1>1 DEF Truthful, Pipes!Sound
<1>3. ASSUME GoodWork'
      PROVE  wOutcome' = "success" \/ (wOutcome' = "none" /\ Hearing')
  <2>1. GoodWork
    BY <1>1, <1>2, <1>3 DEF GoodWork
  <2>2. Truthful /\ wJob.names # <<>> /\ wConduct.code = 0 /\ ~wCancel /\ ~wExpired
    BY <2>1 DEF BelievedInv, GoodWork, Pipes!Sound
  <2>3. CASE wOutcome = "success"
    <3>1. wTalk.pc = "done"
      BY <2>3 DEF ExchangeInv, PipesInv
    <3>2. wOutcome' = wOutcome
      BY <3>1 DEF Pipes!Next, Pipes!Supervisor, Pipes!StopsForCancel, Pipes!StopsForDeadline, Pipes!Feeds,
         Pipes!Hears, Pipes!HearsTheEnd, Pipes!HasHeard, Pipes!ChecksAnswer, Pipes!Publishes, Pipes!HasPublished,
         Pipes!Worker, Pipes!WorkerReads, Pipes!WorkerHasRead, Pipes!WorkerWrites, Pipes!WorkerExits,
         Pipes!WorkerFails, Pipes!HelperEnds, Pipes!Cancel, Pipes!DeadlinePasses, Pipes!Looping, Pipes!Serving,
         Pipes!At, pipeVars
    <3> QED
      BY <2>3, <3>2
  <2>4. CASE wOutcome = "none" /\ Hearing
    <3>1. ~Pipes!StopsForCancel /\ ~Pipes!StopsForDeadline /\ ~Pipes!WorkerFails
      BY <2>2 DEF Pipes!StopsForCancel, Pipes!StopsForDeadline, Pipes!WorkerFails
    <3>2. CASE Pipes!Feeds
      BY <2>4, <3>2, HearingFeeds
    <3>3. CASE Pipes!Hears
      BY <2>2, <2>4, <3>3, HearsMore
    <3>4. CASE Pipes!HearsTheEnd \/ Pipes!HasHeard
      BY <2>4, <3>4, HearingEnds
    <3>5. CASE Pipes!ChecksAnswer \/ Pipes!Publishes \/ Pipes!HasPublished
      BY <2>1, <2>2, <2>4, <3>5, GoodWorkSucceeds
    <3>6. CASE Pipes!Worker
      BY <2>2, <2>4, <3>6, HearingWorks
    <3>7. CASE Pipes!HelperEnds \/ Pipes!Cancel \/ Pipes!DeadlinePasses \/ UNCHANGED pipeVars
      <4>1. UNCHANGED <<wTalk, wConduct, wWorker, wOutPipe, wOutcome>>
        BY <3>7 DEF Pipes!HelperEnds, Pipes!Cancel, Pipes!DeadlinePasses, pipeVars
      <4> QED
        BY <2>4, <4>1, HearingKept DEF Hearing
    <3> QED
      BY <3>1, <3>2, <3>3, <3>4, <3>5, <3>6, <3>7 DEF Pipes!Next, Pipes!Supervisor
  <2> QED
    BY <2>1, <2>3, <2>4 DEF BelievedInv
<1> QED
  BY <1>1, <1>2, <1>3 DEF BelievedInv

LEMMA GoodWorkIsPublished == BelievedInv => Pipes!WorkDoneIsPublished
BY DEF BelievedInv, GoodWork, Pipes!WorkDoneIsPublished

-----------------------------------------------------------------------------
(* A job is read as it was asked.                                          *)

\* A plan of n parts, none of them empty, has n pages and the pages of each part at least.
LEMMA PartsAreCounted ==
  ASSUME NEW S, NEW plan \in Seq(S), \A i \in 1 .. Len(plan) : Len(plan[i]) \in Nat \ {0}
  PROVE  /\ Messages!LengthOf(plan) \in Nat /\ Len(plan) <= Messages!LengthOf(plan)
         /\ \A i \in 1 .. Len(plan) : Len(plan[i]) <= Messages!LengthOf(plan)
<1> DEFINE n == Len(plan)
           F == [p \in (1 .. n) \X Nat |-> p[2] + Len(plan[p[1]])]
           total[i \in 0 .. n] == IF i = 0 THEN 0 ELSE total[i - 1] + Len(plan[i])
<1>1. n \in Nat
  OBVIOUS
<1>2. \A i \in 1 .. n, s \in Nat : F[<<i, s>>] = s + Len(plan[i])
  OBVIOUS
<1>3. \A i \in 1 .. n : Len(plan[i]) \in Nat /\ Len(plan[i]) >= 1
  OBVIOUS
<1>4. Messages!LengthOf(plan) = total[n]
  BY DEF Messages!LengthOf
<1> HIDE DEF n, F
<1>5. IsComputed(Nat, 0, n, F)
  <2>1. StaysIn(Nat, n, F)
    <3>1. ASSUME NEW i \in 1 .. n, NEW s \in Nat PROVE F[<<i, s>>] \in Nat
      <4>1. Len(plan[i]) \in Nat /\ F[<<i, s>>] = s + Len(plan[i])
        BY <1>2, <1>3
      <4> QED
        BY <4>1
    <3> QED
      BY <3>1 DEF StaysIn
  <2> QED
    BY <1>1, <2>1, StepByStep
<1>6. PICK f \in [0 .. n -> Nat] : f[0] = 0 /\ \A i \in 1 .. n : f[i] = F[<<i, f[i - 1]>>]
  BY <1>5 DEF IsComputed
<1>7. \A i \in 1 .. n : i - 1 \in 0 .. n /\ f[i - 1] \in Nat /\ f[i] = f[i - 1] + Len(plan[i])
  <2> SUFFICES ASSUME NEW i \in 1 .. n
               PROVE  i - 1 \in 0 .. n /\ f[i - 1] \in Nat /\ f[i] = f[i - 1] + Len(plan[i])
    OBVIOUS
  <2>1. i - 1 \in 0 .. n
    BY <1>1
  <2> QED
    BY <1>2, <1>6, <2>1
<1>8. f = [i \in 0 .. n |-> IF i = 0 THEN 0 ELSE f[i - 1] + Len(plan[i])]
  <2> DEFINE G == [i \in 0 .. n |-> IF i = 0 THEN 0 ELSE f[i - 1] + Len(plan[i])]
  <2>1. ASSUME NEW i \in 0 .. n PROVE f[i] = G[i]
    <3>1. CASE i = 0
      BY <1>6, <3>1
    <3>2. CASE i # 0
      <4>1. i \in 1 .. n
        BY <1>1, <3>2
      <4> QED
        BY <1>7, <3>2, <4>1
    <3> QED
      BY <3>1, <3>2
  <2> QED
    BY <2>1
<1>9. total = [i \in 0 .. n |-> IF i = 0 THEN 0 ELSE total[i - 1] + Len(plan[i])]
  BY <1>8
<1> HIDE DEF total
<1>10. total[0] = 0 /\ \A i \in 1 .. n : total[i] = total[i - 1] + Len(plan[i])
  <2>1. 0 \in 0 .. n /\ \A i \in 1 .. n : i \in 0 .. n /\ i # 0
    BY <1>1
  <2> QED
    BY <1>9, <2>1
<1> DEFINE Reached == {i \in 0 .. n : /\ total[i] \in Nat /\ i <= total[i]
                                   /\ \A j \in 1 .. i : Len(plan[j]) <= total[i]}
<1>11. 0 \in Reached
  BY <1>1, <1>10
<1>12. ASSUME NEW i \in 1 .. n, i - 1 \in Reached PROVE i \in Reached
  <2>1. /\ total[i - 1] \in Nat /\ i - 1 <= total[i - 1]
        /\ \A j \in 1 .. i - 1 : Len(plan[j]) <= total[i - 1]
    BY <1>12
  <2>2. Len(plan[i]) \in Nat /\ Len(plan[i]) >= 1
    BY <1>3
  <2>3. total[i] = total[i - 1] + Len(plan[i])
    BY <1>10
  <2>4. ASSUME NEW j \in 1 .. i PROVE Len(plan[j]) <= total[i]
    <3>1. CASE j = i
      BY <2>1, <2>2, <2>3, <3>1
    <3>2. CASE j # i
      <4>1. j \in 1 .. i - 1 /\ j \in 1 .. n
        BY <1>1, <3>2
      <4>2. Len(plan[j]) \in Nat /\ Len(plan[j]) <= total[i - 1]
        BY <1>3, <2>1, <4>1
      <4> QED
        BY <2>1, <2>2, <2>3, <4>2
    <3> QED
      BY <3>1, <3>2
  <2>5. total[i] \in Nat /\ i <= total[i] /\ i \in 0 .. n
    <3>1. total[i] \in Nat
      BY <2>1, <2>2, <2>3
    <3>2. i <= total[i]
      BY <2>1, <2>2, <2>3
    <3> QED
      BY <1>1, <3>1, <3>2
  <2> QED
    BY <2>4, <2>5
<1>13. n \in Reached
  <2> HIDE DEF Reached
  <2>1. \A i \in 0 .. n : i \in Reached
    BY <1>1, <1>11, <1>12, Reaches
  <2> QED
    BY <1>1, <2>1
<1>14. total[n] \in Nat /\ n <= total[n] /\ \A j \in 1 .. n : Len(plan[j]) <= total[n]
  BY <1>13
<1> QED
  BY <1>4, <1>14 DEF n

\* What a page may give its operation, the messages carry.
LEMMA SoundIsCarried ==
  ASSUME NEW op, NEW key, NEW v, Messages!IsSound(op, key, v), key # "output_path",
         key = "page_groups" => v \in Seq(Seq(Nat)), key = "ranges" => v \in Seq(Nat \X Nat)
  PROVE  Messages!ValueIsCarried(key, v)
<1>1. ASSUME NEW s, Messages!Pages(s) PROVE Messages!NumbersAreCarried(s)
  BY <1>1 DEF Messages!Pages, Messages!NumbersAreCarried, Messages!Range
<1>2. CASE key \in {"page_numbers", "page_order"}
  <2>1. v = <<>> \/ Messages!Pages(v)
    <3>1. CASE key = "page_numbers"
      BY <3>1 DEF Messages!IsSound
    <3>2. CASE key = "page_order"
      BY <3>2 DEF Messages!IsSound
    <3> QED
      BY <1>2, <3>1, <3>2
  <2>2. v = <<>> => Messages!NumbersAreCarried(v)
    BY LimitsAssumption DEF Messages!NumbersAreCarried, Messages!Range
  <2>3. Messages!NumbersAreCarried(v)
    BY <1>1, <2>1, <2>2
  <2>4. CASE key = "page_numbers"
    BY <2>3, <2>4 DEF Messages!ValueIsCarried
  <2>5. CASE key = "page_order"
    BY <2>3, <2>5 DEF Messages!ValueIsCarried
  <2> QED
    BY <1>2, <2>4, <2>5
<1>3. CASE key = "page_groups"
  <2>1. v \in Seq(Seq(Nat)) /\ \A i \in DOMAIN v : Messages!Pages(v[i])
    BY <1>3 DEF Messages!IsSound
  <2>2. Messages!LengthOf(v) <= MaxItems
    BY <1>3 DEF Messages!IsSound
  <2>3. Len(v) \in Nat /\ DOMAIN v = 1 .. Len(v)
    BY <2>1
  <2>4. \A i \in 1 .. Len(v) : Len(v[i]) \in Nat \ {0}
    <3> SUFFICES ASSUME NEW i \in 1 .. Len(v) PROVE Len(v[i]) \in Nat \ {0}
      OBVIOUS
    <3>1. v[i] \in Seq(Nat)
      BY <2>1, <2>3
    <3>2. v[i] # <<>>
      BY <2>1, <2>3 DEF Messages!Pages
    <3> QED
      BY <3>1, <3>2
  <2>5. Messages!LengthOf(v) \in Nat /\ Len(v) <= Messages!LengthOf(v)
    BY <2>1, <2>4, PartsAreCounted
  <2>6. Len(v) <= MaxItems
    BY <2>2, <2>3, <2>5, LimitsAssumption
  <2> QED
    BY <1>1, <1>3, <2>1, <2>6 DEF Messages!ValueIsCarried
<1>4. CASE key = "ranges"
  <2> DEFINE plan == Messages!RangePages(v)
  <2>1. v \in Seq(Nat \X Nat)
        /\ \A i \in DOMAIN v : v[i][1] \in 1 .. v[i][2] /\ v[i][2] <= MaxPage
    BY <1>4 DEF Messages!IsSound
  <2>2. Messages!LengthOf(plan) <= MaxItems
    BY <1>4 DEF Messages!IsSound
  <2>3. Len(v) \in Nat /\ DOMAIN v = 1 .. Len(v)
    BY <2>1
  <2>4. ASSUME NEW i \in 1 .. Len(v)
        PROVE  /\ Messages!PagesOf(v[i]) \in Seq(Nat) /\ Len(Messages!PagesOf(v[i])) \in Nat \ {0}
               /\ Messages!Range(Messages!PagesOf(v[i])) \subseteq 1 .. MaxPage
    <3>1. PICK first \in Nat, last \in Nat : v[i] = <<first, last>>
      <4>1. v[i] \in Nat \X Nat
        BY <2>1, <2>3
      <4> QED
        BY <4>1
    <3>2. 1 <= first /\ first <= last /\ last <= MaxPage
      <4>1. v[i][1] \in 1 .. v[i][2] /\ v[i][2] <= MaxPage
        BY <2>1, <2>3
      <4>2. v[i][1] = first /\ v[i][2] = last
        BY <3>1
      <4>3. first \in 1 .. last /\ last <= MaxPage
        BY <4>1, <4>2
      <4> QED
        BY <4>3
    <3>3. last - first + 1 \in Nat \ {0}
      BY <3>2
    <3>4. Messages!PagesOf(v[i]) = [k \in 1 .. (last - first + 1) |-> first + k - 1]
      BY <3>1 DEF Messages!PagesOf
    <3>5. \A k \in 1 .. (last - first + 1) : first + k - 1 \in Nat /\ first + k - 1 \in 1 .. MaxPage
      BY <3>2, LimitsAssumption
    <3> DEFINE many == last - first + 1
               pages == Messages!PagesOf(v[i])
    <3> HIDE DEF many, pages
    <3>6. many \in Nat \ {0} /\ pages = [k \in 1 .. many |-> first + k - 1]
      BY <3>3, <3>4 DEF many, pages
    <3>7. \A k \in 1 .. many : first + k - 1 \in Nat /\ first + k - 1 \in 1 .. MaxPage
      BY <3>5 DEF many
    <3>8. pages \in Seq(Nat) /\ Len(pages) = many /\ DOMAIN pages = 1 .. many
      BY <3>6, <3>7
    <3>9. Messages!Range(pages) \subseteq 1 .. MaxPage
      BY <3>6, <3>7, <3>8, Zenon DEF Messages!Range
    <3> QED
      BY <3>6, <3>8, <3>9 DEF pages
  <2>5. plan \in Seq(Seq(Nat)) /\ Len(plan) = Len(v)
        /\ \A i \in 1 .. Len(v) : plan[i] = Messages!PagesOf(v[i])
    BY <2>3, <2>4 DEF Messages!RangePages
  <2> HIDE DEF plan
  <2>6. \A i \in 1 .. Len(plan) : Len(plan[i]) \in Nat \ {0}
    BY <2>4, <2>5
  <2>7. /\ Messages!LengthOf(plan) \in Nat /\ Len(plan) <= Messages!LengthOf(plan)
        /\ \A i \in 1 .. Len(plan) : Len(plan[i]) <= Messages!LengthOf(plan)
    BY <2>5, <2>6, PartsAreCounted
  <2>8. Len(v) <= MaxItems
    BY <2>2, <2>3, <2>5, <2>7, LimitsAssumption
  <2>9. ASSUME NEW i \in DOMAIN v PROVE Messages!NumbersAreCarried(Messages!PagesOf(v[i]))
    <3>1. Len(plan[i]) <= Messages!LengthOf(plan) /\ Len(plan[i]) \in Nat
      BY <2>3, <2>5, <2>6, <2>7
    <3>2. Len(plan[i]) <= MaxItems
      BY <2>2, <2>7, <3>1, LimitsAssumption
    <3> QED
      BY <2>3, <2>4, <2>5, <3>2 DEF Messages!NumbersAreCarried
  <2> QED
    BY <1>4, <2>8, <2>9 DEF Messages!ValueIsCarried
<1>5. CASE key = "angle"
  BY <1>5 DEF Messages!IsSound, Messages!ValueIsCarried
<1>6. CASE key = "insert_after_page"
  BY <1>6 DEF Messages!IsSound, Messages!ValueIsCarried
<1>7. CASE key = "areas"
  BY <1>7 DEF Messages!IsSound, Messages!ValueIsCarried, Messages!AreasAreSound
<1>8. CASE key = "languages"
  BY <1>8 DEF Messages!IsSound, Messages!ValueIsCarried
<1>9. CASE key = "source_identity"
  BY <1>9 DEF Messages!IsSound, Messages!ValueIsCarried
<1>10. CASE key = "width_mm"
  BY <1>10 DEF Messages!IsSound, Messages!ValueIsCarried
<1>11. CASE key \notin {"page_numbers", "page_order", "page_groups", "ranges", "angle", "insert_after_page",
                       "areas", "languages", "source_identity", "width_mm"}
  BY <1>11 DEF Messages!ValueIsCarried
<1> QED
  BY <1>2, <1>3, <1>4, <1>5, <1>6, <1>7, <1>8, <1>9, <1>10, <1>11

LEMMA KeysOfOperations ==
  ASSUME NEW op \in Messages!Operations
  PROVE  /\ "page_numbers" \in Messages!Keys(op).may => op = "ocr"
         /\ op \in Messages!ReplacingOperations => "replace_input" \in Messages!Keys(op).may
         /\ op # "split" => "ranges" \notin Messages!Keys(op).must \cup Messages!Keys(op).may
         /\ "replace_input" \in Messages!Keys(op).may => op \in Messages!ReplacingOperations
BY DEF Messages!Operations, Messages!Keys, Messages!ReplacingOperations, Messages!PasswordOperations

\* JobRequests has its own FiniteSets.
LEMMA CountedAlike == ASSUME NEW S PROVE Messages!Cardinality(S) = Cardinality(S)
BY DEF Messages!Cardinality, Cardinality

\* What stands for an option that is not given is of use.
LEMMA DefaultsAreSound ==
  ASSUME NEW op \in Messages!Operations, NEW key \in DOMAIN Messages!Defaults,
         key = "page_numbers" => op = "ocr"
  PROVE  Messages!IsSound(op, key, Messages!Defaults[key])
<1>1. DOMAIN Messages!Defaults = {"replace_input", "allow_unsigned_copy", "source_identity", "languages",
                                  "page_numbers", "strength", "profile"}
  BY DEF Messages!Defaults
<1>2. CASE key = "languages"
  <2>1. Messages!Defaults["languages"] = <<"eng">>
    BY DEF Messages!Defaults
  <2>2. Messages!Range(<<"eng">>) = {"eng"}
    BY DEF Messages!Range
  <2>3. Messages!Cardinality({"eng"}) = 1
    BY FS_Singleton, CountedAlike
  <2>4. Messages!LanguagesAreSound(<<"eng">>)
    BY <2>2, <2>3 DEF Messages!LanguagesAreSound, Messages!NoneTwice
  <2> QED
    BY <1>2, <2>1, <2>4 DEF Messages!IsSound
<1>3. CASE key = "page_numbers"
  BY <1>3 DEF Messages!IsSound, Messages!Defaults
<1>4. CASE key = "source_identity"
  BY <1>4 DEF Messages!IsSound, Messages!Defaults, Messages!IdentityIsSound
<1>5. ASSUME NEW v
      PROVE  /\ Messages!IsSound(op, "replace_input", v) /\ Messages!IsSound(op, "allow_unsigned_copy", v)
             /\ Messages!IsSound(op, "strength", v) /\ Messages!IsSound(op, "profile", v)
  BY DEF Messages!IsSound
<1>6. CASE key \in {"replace_input", "allow_unsigned_copy", "strength", "profile"}
  BY <1>5, <1>6
<1> QED
  BY <1>1, <1>2, <1>3, <1>4, <1>6

\* A value a request may be given, of the type it has.
IsTyped(k, v) ==
  /\ k = "output_path" => Messages!IsPath(v)
  /\ k = "page_groups" => v \in Seq(Seq(Nat))
  /\ k = "ranges" => v \in Seq(Nat \X Nat)

\* A request that is well made, with a value for every option it may have.
IsComplete(j) ==
  LET keys == Messages!Keys(j.op)
  IN  /\ j = [op |-> j.op, inputs |-> j.inputs, dir |-> j.dir, options |-> j.options, password |-> j.password]
      /\ j.op \in Messages!Operations
      /\ j.options = [k \in DOMAIN j.options |-> j.options[k]]
      /\ keys.must \subseteq DOMAIN j.options /\ DOMAIN j.options \subseteq keys.must \cup keys.may
      /\ keys.may \cap DOMAIN Messages!Defaults \subseteq DOMAIN j.options
      /\ \A k \in DOMAIN j.options :
           Messages!IsSound(j.op, k, j.options[k]) /\ IsTyped(k, j.options[k])

\* What the defaults add to a request, and what they leave.
LEMMA MadeComplete ==
  ASSUME NEW r, Messages!IsAsked(r), Messages!IsJob(r)
  PROVE  LET j == Messages!Made(r)
         IN  /\ IsComplete(j)
             /\ j.op = r.op /\ j.inputs = r.inputs /\ j.dir = r.dir /\ j.password = r.password
             /\ DOMAIN r.options \subseteq DOMAIN j.options
             /\ \A k \in DOMAIN r.options : j.options[k] = r.options[k]
             /\ \A k \in {"output_path", "ranges", "page_groups"} :
                  k \in DOMAIN j.options <=> k \in DOMAIN r.options
<1> DEFINE given == DOMAIN r.options
           added == (Messages!Keys(r.op).may \cap DOMAIN Messages!Defaults) \ given
           C == [k \in given \cup added |-> IF k \in given THEN r.options[k] ELSE Messages!Defaults[k]]
           j == Messages!Made(r)
<1>1. r = [op |-> r.op, inputs |-> r.inputs, dir |-> r.dir, options |-> r.options, password |-> r.password]
      /\ r.op \in Messages!Operations
  BY DEF Messages!IsAsked
<1>2. C = Messages!Completed(r.op, r.options)
  BY DEF Messages!Completed
<1>3. j = [r EXCEPT !.options = C]
  BY <1>2 DEF Messages!Made
<1> HIDE DEF C, j
<1>4. j = [op |-> r.op, inputs |-> r.inputs, dir |-> r.dir, options |-> C, password |-> r.password]
  <2>1. ASSUME NEW a, NEW b, NEW c, NEW d, NEW e, NEW x
        PROVE  [[op |-> a, inputs |-> b, dir |-> c, options |-> d, password |-> e] EXCEPT !.options = x]
               = [op |-> a, inputs |-> b, dir |-> c, options |-> x, password |-> e]
    OBVIOUS
  <2> QED
    BY <1>1, <1>3, <2>1
<1>5. j.op = r.op /\ j.inputs = r.inputs /\ j.dir = r.dir /\ j.password = r.password /\ j.options = C
  BY <1>4
<1>6. /\ DOMAIN C = given \cup added
      /\ \A k \in given : C[k] = r.options[k]
      /\ \A k \in added : C[k] = Messages!Defaults[k]
  BY DEF C
<1>7. C = [k \in DOMAIN C |-> C[k]]
  BY DEF C
<1>8. /\ Messages!Keys(r.op).must \subseteq given
      /\ given \subseteq Messages!Keys(r.op).must \cup Messages!Keys(r.op).may
      /\ \A k \in given : Messages!IsSound(r.op, k, r.options[k])
  BY DEF Messages!IsJob
<1>9. /\ "output_path" \in given => Messages!IsPath(r.options["output_path"])
      /\ "page_groups" \in given => r.options["page_groups"] \in Seq(Seq(Nat))
      /\ "ranges" \in given => r.options["ranges"] \in Seq(Nat \X Nat)
  BY DEF Messages!IsAsked
<1>10. DOMAIN Messages!Defaults = {"replace_input", "allow_unsigned_copy", "source_identity", "languages",
                                   "page_numbers", "strength", "profile"}
  BY DEF Messages!Defaults
<1> HIDE DEF given, added
<1>11. "output_path" \notin added /\ "page_groups" \notin added /\ "ranges" \notin added
  BY <1>10 DEF added
<1>12. ASSUME NEW k \in DOMAIN C PROVE Messages!IsSound(r.op, k, C[k]) /\ IsTyped(k, C[k])
  <2>1. CASE k \in given
    BY <1>6, <1>8, <1>9, <2>1 DEF IsTyped
  <2>2. CASE k \in added
    <3>1. k \in DOMAIN Messages!Defaults /\ k \in Messages!Keys(r.op).may /\ C[k] = Messages!Defaults[k]
      BY <1>6, <2>2 DEF added
    <3>2. k = "page_numbers" => r.op = "ocr"
      BY <1>1, <3>1, KeysOfOperations
    <3>3. Messages!IsSound(r.op, k, C[k])
      BY <1>1, <3>1, <3>2, DefaultsAreSound
    <3> QED
      BY <1>11, <2>2, <3>3 DEF IsTyped
  <2> QED
    BY <1>6, <2>1, <2>2
<1>13. Messages!Keys(r.op).may \cap DOMAIN Messages!Defaults \subseteq DOMAIN C
  BY <1>6 DEF added
<1>14. DOMAIN C \subseteq Messages!Keys(r.op).must \cup Messages!Keys(r.op).may
  BY <1>6, <1>8 DEF added
<1>15. IsComplete(j)
  BY <1>1, <1>4, <1>5, <1>6, <1>7, <1>8, <1>12, <1>13, <1>14 DEF IsComplete
<1>16. \A k \in {"output_path", "ranges", "page_groups"} : k \in DOMAIN C <=> k \in given
  BY <1>6, <1>11
<1> QED
  BY <1>5, <1>6, <1>15, <1>16 DEF given, j

\* The same job, of the real files.
LEMMA FollowedIsComplete ==
  ASSUME NEW j, IsComplete(j)
  PROVE  LET f == Messages!Followed(j)
         IN  /\ IsComplete(f)
             /\ f.op = j.op /\ f.password = j.password /\ DOMAIN f.options = DOMAIN j.options
             /\ f.inputs = [i \in DOMAIN j.inputs |-> Messages!Real(j.inputs[i])]
             /\ \A k \in DOMAIN j.options :
                  f.options[k] = IF k = "output_path" THEN Messages!InRealDir(j.options[k]) ELSE j.options[k]
             /\ "output_path" \in DOMAIN j.options =>
                  f.options["output_path"].name = j.options["output_path"].name
<1> DEFINE O == j.options
           P == [k \in DOMAIN O |-> IF k = "output_path" THEN Messages!InRealDir(O[k]) ELSE O[k]]
           inputs == [i \in DOMAIN j.inputs |-> Messages!Real(j.inputs[i])]
           f == Messages!Followed(j)
<1>1. f = [op |-> j.op, inputs |-> inputs, dir |-> RealDir[j.dir], options |-> P, password |-> j.password]
  BY DEF Messages!Followed
<1> HIDE DEF f, P, inputs
<1>2. f.op = j.op /\ f.password = j.password /\ f.inputs = inputs /\ f.options = P
      /\ f = [op |-> f.op, inputs |-> f.inputs, dir |-> f.dir, options |-> f.options, password |-> f.password]
  BY <1>1
<1>3. /\ DOMAIN P = DOMAIN O /\ P = [k \in DOMAIN P |-> P[k]]
      /\ \A k \in DOMAIN O : P[k] = IF k = "output_path" THEN Messages!InRealDir(O[k]) ELSE O[k]
  BY DEF P
<1>4. /\ j.op \in Messages!Operations
      /\ Messages!Keys(j.op).must \subseteq DOMAIN O
      /\ DOMAIN O \subseteq Messages!Keys(j.op).must \cup Messages!Keys(j.op).may
      /\ Messages!Keys(j.op).may \cap DOMAIN Messages!Defaults \subseteq DOMAIN O
      /\ \A k \in DOMAIN O : Messages!IsSound(j.op, k, O[k]) /\ IsTyped(k, O[k])
  BY DEF IsComplete
<1>5. ASSUME NEW p, Messages!IsPath(p)
      PROVE  Messages!IsPath(Messages!InRealDir(p)) /\ Messages!InRealDir(p).name = p.name
  <2>1. p = [dir |-> p.dir, name |-> p.name]
    BY <1>5 DEF Messages!IsPath
  <2>2. Messages!InRealDir(p) = [dir |-> RealDir[p.dir], name |-> p.name]
    BY <2>1 DEF Messages!InRealDir
  <2> QED
    BY <2>2 DEF Messages!IsPath
<1>6. ASSUME NEW v PROVE Messages!IsSound(j.op, "output_path", v)
  BY DEF Messages!IsSound
<1> HIDE DEF O
<1>7. ASSUME NEW k \in DOMAIN P PROVE Messages!IsSound(j.op, k, P[k]) /\ IsTyped(k, P[k])
  <2>1. CASE k = "output_path"
    <3>1. Messages!IsPath(O[k]) /\ P[k] = Messages!InRealDir(O[k])
      BY <1>3, <1>4, <2>1 DEF IsTyped
    <3> QED
      BY <1>5, <1>6, <2>1, <3>1 DEF IsTyped
  <2>2. CASE k # "output_path"
    BY <1>3, <1>4, <2>2
  <2> QED
    BY <2>1, <2>2
<1>8. IsComplete(f)
  BY <1>2, <1>3, <1>4, <1>7 DEF IsComplete
<1>9. "output_path" \in DOMAIN O => P["output_path"].name = O["output_path"].name
  BY <1>3, <1>4, <1>5 DEF IsTyped
<1> QED
  BY <1>2, <1>3, <1>8, <1>9 DEF f, O, inputs

\* The output of a staged job has a name of its own.
PrivateName(j) == IF j.op \in Messages!StagedOperations THEN "candidate" ELSE Messages!Output(j).name

\* What the worker is told of a job: the same work, in its private directory.
LEMMA StagedIsComplete ==
  ASSUME NEW j, IsComplete(j)
  PROVE  LET s == Messages!Staged(j)
         IN  /\ IsComplete(s)
             /\ s.op = j.op /\ s.password = j.password /\ s.inputs = j.inputs /\ s.dir = "private"
             /\ DOMAIN s.options = DOMAIN j.options
             /\ \A k \in DOMAIN j.options \ {"output_path", "replace_input"} : s.options[k] = j.options[k]
             /\ "output_path" \in DOMAIN j.options =>
                  s.options["output_path"] = [dir |-> "private", name |-> PrivateName(j)]
             /\ ~Messages!Replaces(s)
<1> DEFINE O == j.options
           path == [dir |-> "private", name |-> PrivateName(j)]
           P == IF "output_path" \in DOMAIN O THEN [O EXCEPT !["output_path"] = path] ELSE O
           Q == IF j.op \in Messages!ReplacingOperations THEN [P EXCEPT !["replace_input"] = FALSE] ELSE P
           s == Messages!Staged(j)
<1>1. s = [op |-> j.op, inputs |-> j.inputs, dir |-> "private", options |-> Q, password |-> j.password]
  BY DEF Messages!Staged, Messages!Private, PrivateName, Messages!HasOutput
<1> HIDE DEF s, Q, path
<1>2. s.op = j.op /\ s.password = j.password /\ s.inputs = j.inputs /\ s.options = Q /\ s.dir = "private"
      /\ s = [op |-> s.op, inputs |-> s.inputs, dir |-> s.dir, options |-> s.options, password |-> s.password]
  BY <1>1
<1>3. /\ j.op \in Messages!Operations
      /\ Messages!Keys(j.op).must \subseteq DOMAIN O
      /\ DOMAIN O \subseteq Messages!Keys(j.op).must \cup Messages!Keys(j.op).may
      /\ Messages!Keys(j.op).may \cap DOMAIN Messages!Defaults \subseteq DOMAIN O
      /\ \A k \in DOMAIN O : Messages!IsSound(j.op, k, O[k]) /\ IsTyped(k, O[k])
      /\ O = [k \in DOMAIN O |-> O[k]]
  BY DEF IsComplete
<1> HIDE DEF O
<1>4. /\ DOMAIN P = DOMAIN O /\ P = [k \in DOMAIN P |-> P[k]]
      /\ \A k \in DOMAIN O : P[k] = IF k = "output_path" THEN path ELSE O[k]
  BY <1>3
<1> HIDE DEF P
<1>5. j.op \in Messages!ReplacingOperations => "replace_input" \in DOMAIN O
  <2>1. "replace_input" \in DOMAIN Messages!Defaults
    BY DEF Messages!Defaults
  <2> QED
    BY <1>3, <2>1, KeysOfOperations
<1>6. /\ DOMAIN Q = DOMAIN O /\ Q = [k \in DOMAIN Q |-> Q[k]]
      /\ \A k \in DOMAIN O \ {"replace_input"} : Q[k] = P[k]
      /\ j.op \in Messages!ReplacingOperations => Q["replace_input"] = FALSE
      /\ j.op \notin Messages!ReplacingOperations => Q = P
  BY <1>4, <1>5 DEF Q
<1>7. ASSUME NEW v
      PROVE  /\ Messages!IsSound(j.op, "output_path", v) /\ Messages!IsSound(j.op, "replace_input", v)
             /\ IsTyped("replace_input", v)
  BY DEF Messages!IsSound, IsTyped
<1>8. IsTyped("output_path", path)
  BY DEF path, IsTyped, Messages!IsPath
<1>9. ASSUME NEW k \in DOMAIN Q PROVE Messages!IsSound(j.op, k, Q[k]) /\ IsTyped(k, Q[k])
  <2>1. CASE k = "replace_input"
    BY <1>7, <2>1
  <2>2. CASE k = "output_path"
    <3>1. Q[k] = path
      BY <1>4, <1>6, <2>2
    <3> QED
      BY <1>7, <1>8, <2>2, <3>1
  <2>3. CASE k \notin {"replace_input", "output_path"}
    <3>1. Q[k] = O[k] /\ k \in DOMAIN O
      BY <1>4, <1>6, <2>3
    <3> QED
      BY <1>3, <3>1
  <2> QED
    BY <2>1, <2>2, <2>3
<1>10. IsComplete(s)
  BY <1>2, <1>3, <1>6, <1>9 DEF IsComplete
<1>11. ~Messages!Replaces(s)
  BY <1>2, <1>6 DEF Messages!Replaces
<1>12. /\ \A k \in DOMAIN O \ {"output_path", "replace_input"} : Q[k] = O[k]
       /\ "output_path" \in DOMAIN O => Q["output_path"] = path
  BY <1>4, <1>6
<1> QED
  BY <1>2, <1>6, <1>10, <1>11, <1>12 DEF s, O, path

\* Written, it is cleaner, and no longer.
LEMMA WrittenIsComplete ==
  ASSUME NEW j, IsComplete(j)
  PROVE  LET m == Messages!Written(j)
         IN  /\ IsComplete(m)
             /\ m.op = j.op /\ m.password = j.password /\ m.inputs = j.inputs /\ m.dir = j.dir
             /\ DOMAIN m.options = DOMAIN j.options
             /\ \A k \in DOMAIN j.options \ {"text"} : m.options[k] = j.options[k]
             /\ Messages!Size(m) = Messages!Size(j)
<1> DEFINE O == j.options
           P == [k \in DOMAIN O |-> IF k = "text" THEN Messages!Clean(O[k]) ELSE O[k]]
           m == Messages!Written(j)
<1>1. j = [op |-> j.op, inputs |-> j.inputs, dir |-> j.dir, options |-> j.options, password |-> j.password]
  BY DEF IsComplete
<1>2. m = [j EXCEPT !.options = P]
  <2>1. m = [j EXCEPT !.options = [k \in DOMAIN @ |-> IF k = "text" THEN Messages!Clean(@[k]) ELSE @[k]]]
    BY DEF Messages!Written
  <2> QED
    BY <1>1, <2>1
<1> HIDE DEF P, m
<1>3. m = [op |-> j.op, inputs |-> j.inputs, dir |-> j.dir, options |-> P, password |-> j.password]
  <2>1. ASSUME NEW a, NEW b, NEW c, NEW d, NEW e, NEW x
        PROVE  [[op |-> a, inputs |-> b, dir |-> c, options |-> d, password |-> e] EXCEPT !.options = x]
               = [op |-> a, inputs |-> b, dir |-> c, options |-> x, password |-> e]
    OBVIOUS
  <2> QED
    BY <1>1, <1>2, <2>1
<1>4. m.op = j.op /\ m.password = j.password /\ m.inputs = j.inputs /\ m.options = P /\ m.dir = j.dir
      /\ m = [op |-> m.op, inputs |-> m.inputs, dir |-> m.dir, options |-> m.options, password |-> m.password]
  BY <1>3
<1>5. /\ j.op \in Messages!Operations
      /\ Messages!Keys(j.op).must \subseteq DOMAIN O
      /\ DOMAIN O \subseteq Messages!Keys(j.op).must \cup Messages!Keys(j.op).may
      /\ Messages!Keys(j.op).may \cap DOMAIN Messages!Defaults \subseteq DOMAIN O
      /\ \A k \in DOMAIN O : Messages!IsSound(j.op, k, O[k]) /\ IsTyped(k, O[k])
  BY DEF IsComplete
<1>6. /\ DOMAIN P = DOMAIN O /\ P = [k \in DOMAIN P |-> P[k]]
      /\ \A k \in DOMAIN O : P[k] = IF k = "text" THEN Messages!Clean(O[k]) ELSE O[k]
  BY DEF P
<1> HIDE DEF O
<1>7. ASSUME NEW v, Messages!IsSound(j.op, "text", v)
      PROVE  Messages!IsSound(j.op, "text", Messages!Clean(v)) /\ IsTyped("text", Messages!Clean(v))
  <2>1. Messages!TextIsSound(v)
    BY <1>7 DEF Messages!IsSound
  <2>2. Messages!TextIsSound(Messages!Clean(v))
    BY <2>1 DEF Messages!TextIsSound, Messages!Clean
  <2>3. ASSUME NEW w, Messages!TextIsSound(w)
        PROVE  Messages!IsSound(j.op, "text", w) /\ IsTyped("text", w)
    BY <2>3 DEF Messages!IsSound, IsTyped
  <2> QED
    BY <2>2, <2>3
<1>8. ASSUME NEW k \in DOMAIN P PROVE Messages!IsSound(j.op, k, P[k]) /\ IsTyped(k, P[k])
  <2>1. CASE k = "text"
    BY <1>5, <1>6, <1>7, <2>1
  <2>2. CASE k # "text"
    BY <1>5, <1>6, <2>2
  <2> QED
    BY <2>1, <2>2
<1>9. IsComplete(m)
  BY <1>4, <1>5, <1>6, <1>8 DEF IsComplete
<1>10. Messages!Size(m) = Messages!Size(j)
  <2>1. ASSUME NEW k \in DOMAIN O PROVE Messages!SizeOf(k, P[k]) = Messages!SizeOf(k, O[k])
    <3>1. CASE k = "text"
      <4>1. ASSUME NEW v PROVE Messages!SizeOf("text", v) = 1
        BY DEF Messages!SizeOf
      <4> QED
        BY <3>1, <4>1
    <3>2. CASE k # "text"
      BY <1>6, <3>2
    <3> QED
      BY <3>1, <3>2
  <2>2. [k \in DOMAIN P |-> Messages!SizeOf(k, P[k])] = [k \in DOMAIN O |-> Messages!SizeOf(k, O[k])]
    BY <1>6, <2>1
  <2>3. [k \in DOMAIN m.options |-> Messages!SizeOf(k, m.options[k])]
        = [k \in DOMAIN j.options |-> Messages!SizeOf(k, j.options[k])]
    BY <1>4, <2>2 DEF O
  <2> QED
    BY <1>4, <2>3 DEF Messages!Size
<1> QED
  BY <1>4, <1>6, <1>9, <1>10 DEF m, O

\* The request of a page, with the defaults of its options, of the real files, and for the worker.
WellMade == Messages!Made(rAsked)
OfRealFiles == Messages!Followed(WellMade)
ForTheWorker == Messages!Staged(OfRealFiles)
OnThePipe == Messages!Written(ForTheWorker)

AskedWell == Messages!IsAsked(rAsked) /\ Messages!IsJob(rAsked)
InputsAreReal == \A i \in DOMAIN rAsked.inputs : Messages!Real(rAsked.inputs[i]) \in Files

\* What was asked for is in each of them.
LEMMA RequestIsKept ==
  ASSUME AskedWell
  PROVE  /\ IsComplete(WellMade) /\ IsComplete(OfRealFiles) /\ IsComplete(ForTheWorker) /\ IsComplete(OnThePipe)
         /\ WellMade.op = rAsked.op /\ WellMade.inputs = rAsked.inputs
         /\ OfRealFiles.op = rAsked.op /\ ForTheWorker.op = rAsked.op /\ OnThePipe.op = rAsked.op
         /\ OfRealFiles.inputs = [i \in DOMAIN rAsked.inputs |-> Messages!Real(rAsked.inputs[i])]
         /\ ForTheWorker.inputs = OfRealFiles.inputs /\ OnThePipe.inputs = OfRealFiles.inputs
         /\ OnThePipe.password = rAsked.password /\ OnThePipe.dir = "private"
         /\ DOMAIN OfRealFiles.options = DOMAIN WellMade.options
         /\ DOMAIN ForTheWorker.options = DOMAIN WellMade.options
         /\ DOMAIN OnThePipe.options = DOMAIN WellMade.options
         /\ DOMAIN rAsked.options \subseteq DOMAIN WellMade.options
         /\ \A k \in {"output_path", "ranges", "page_groups"} :
              k \in DOMAIN WellMade.options <=> k \in DOMAIN rAsked.options
         /\ \A k \in DOMAIN rAsked.options \ {"output_path", "replace_input", "text"} :
              OnThePipe.options[k] = rAsked.options[k]
         /\ \A k \in DOMAIN WellMade.options \ {"text"} : OnThePipe.options[k] = ForTheWorker.options[k]
         /\ "output_path" \in DOMAIN rAsked.options =>
              /\ OfRealFiles.options["output_path"].name = rAsked.options["output_path"].name
              /\ ForTheWorker.options["output_path"] = [dir |-> "private", name |-> PrivateName(OfRealFiles)]
         /\ Messages!Size(OnThePipe) = Messages!Size(ForTheWorker)
         /\ ~Messages!Replaces(OnThePipe)
<1>1. /\ IsComplete(WellMade)
      /\ WellMade.op = rAsked.op /\ WellMade.inputs = rAsked.inputs /\ WellMade.password = rAsked.password
      /\ DOMAIN rAsked.options \subseteq DOMAIN WellMade.options
      /\ \A k \in DOMAIN rAsked.options : WellMade.options[k] = rAsked.options[k]
      /\ \A k \in {"output_path", "ranges", "page_groups"} :
           k \in DOMAIN WellMade.options <=> k \in DOMAIN rAsked.options
  BY MadeComplete DEF AskedWell, WellMade
<1>2. /\ IsComplete(OfRealFiles)
      /\ OfRealFiles.op = WellMade.op /\ OfRealFiles.password = WellMade.password
      /\ DOMAIN OfRealFiles.options = DOMAIN WellMade.options
      /\ OfRealFiles.inputs = [i \in DOMAIN WellMade.inputs |-> Messages!Real(WellMade.inputs[i])]
      /\ \A k \in DOMAIN WellMade.options :
           OfRealFiles.options[k] = IF k = "output_path" THEN Messages!InRealDir(WellMade.options[k])
                                    ELSE WellMade.options[k]
      /\ "output_path" \in DOMAIN WellMade.options =>
           OfRealFiles.options["output_path"].name = WellMade.options["output_path"].name
  BY <1>1, FollowedIsComplete DEF OfRealFiles
<1>3. /\ IsComplete(ForTheWorker)
      /\ ForTheWorker.op = OfRealFiles.op /\ ForTheWorker.password = OfRealFiles.password
      /\ ForTheWorker.inputs = OfRealFiles.inputs /\ ForTheWorker.dir = "private"
      /\ DOMAIN ForTheWorker.options = DOMAIN OfRealFiles.options
      /\ \A k \in DOMAIN OfRealFiles.options \ {"output_path", "replace_input"} :
           ForTheWorker.options[k] = OfRealFiles.options[k]
      /\ "output_path" \in DOMAIN OfRealFiles.options =>
           ForTheWorker.options["output_path"] = [dir |-> "private", name |-> PrivateName(OfRealFiles)]
      /\ ~Messages!Replaces(ForTheWorker)
  BY <1>2, StagedIsComplete DEF ForTheWorker
<1>4. /\ IsComplete(OnThePipe)
      /\ OnThePipe.op = ForTheWorker.op /\ OnThePipe.password = ForTheWorker.password
      /\ OnThePipe.inputs = ForTheWorker.inputs /\ OnThePipe.dir = ForTheWorker.dir
      /\ DOMAIN OnThePipe.options = DOMAIN ForTheWorker.options
      /\ \A k \in DOMAIN ForTheWorker.options \ {"text"} : OnThePipe.options[k] = ForTheWorker.options[k]
      /\ Messages!Size(OnThePipe) = Messages!Size(ForTheWorker)
  BY <1>3, WrittenIsComplete DEF OnThePipe
<1>5. ASSUME NEW k \in DOMAIN rAsked.options \ {"output_path", "replace_input", "text"}
      PROVE  OnThePipe.options[k] = rAsked.options[k]
  <2>1. k \in DOMAIN WellMade.options /\ WellMade.options[k] = rAsked.options[k]
    BY <1>1
  <2>2. k \in DOMAIN OfRealFiles.options /\ OfRealFiles.options[k] = WellMade.options[k]
    BY <1>2, <2>1
  <2>3. k \in DOMAIN ForTheWorker.options /\ ForTheWorker.options[k] = OfRealFiles.options[k]
    BY <1>3, <2>2
  <2> QED
    BY <1>4, <2>1, <2>2, <2>3
<1>6. ~Messages!Replaces(OnThePipe)
  <2> SUFFICES ASSUME OnThePipe.op \in Messages!ReplacingOperations, OnThePipe.options["replace_input"]
               PROVE  FALSE
    BY DEF Messages!Replaces
  <2>1. ForTheWorker.op \in Messages!ReplacingOperations
    BY <1>4
  <2>2. "replace_input" \in DOMAIN ForTheWorker.options
    <3>1. "replace_input" \in DOMAIN Messages!Defaults
      BY DEF Messages!Defaults
    <3> QED
      BY <1>3, <2>1, <3>1, KeysOfOperations DEF IsComplete
  <2>3. OnThePipe.options["replace_input"] = ForTheWorker.options["replace_input"]
    BY <1>4, <2>2
  <2> QED
    BY <1>3, <2>1, <2>3 DEF Messages!Replaces
<1>7. "output_path" \in DOMAIN rAsked.options =>
        /\ OfRealFiles.options["output_path"].name = rAsked.options["output_path"].name
        /\ ForTheWorker.options["output_path"] = [dir |-> "private", name |-> PrivateName(OfRealFiles)]
  BY <1>1, <1>2, <1>3
<1>8. OfRealFiles.inputs = [i \in DOMAIN rAsked.inputs |-> Messages!Real(rAsked.inputs[i])]
  BY <1>1, <1>2
<1> QED
  BY <1>1, <1>2, <1>3, <1>4, <1>5, <1>6, <1>7, <1>8

\* A complete request is not completed again.
LEMMA CompleteStays ==
  ASSUME NEW j, IsComplete(j) PROVE Messages!Made(j) = j
<1> DEFINE O == j.options
           added == (Messages!Keys(j.op).may \cap DOMAIN Messages!Defaults) \ DOMAIN O
<1>1. added = {} /\ O = [k \in DOMAIN O |-> O[k]]
  BY DEF IsComplete
<1>2. Messages!Completed(j.op, O)
      = [k \in DOMAIN O \cup added |-> IF k \in DOMAIN O THEN O[k] ELSE Messages!Defaults[k]]
  BY DEF Messages!Completed
<1> HIDE DEF added
<1>3. [k \in DOMAIN O \cup added |-> IF k \in DOMAIN O THEN O[k] ELSE Messages!Defaults[k]] = [k \in DOMAIN O |-> O[k]]
  BY <1>1
<1>4. Messages!Made(j) = [j EXCEPT !.options = O]
  BY <1>1, <1>2, <1>3 DEF Messages!Made
<1>5. ASSUME NEW a, NEW b, NEW c, NEW d, NEW e
      PROVE  [[op |-> a, inputs |-> b, dir |-> c, options |-> d, password |-> e] EXCEPT !.options = d]
             = [op |-> a, inputs |-> b, dir |-> c, options |-> d, password |-> e]
  OBVIOUS
<1>6. j = [op |-> j.op, inputs |-> j.inputs, dir |-> j.dir, options |-> O, password |-> j.password]
  BY DEF IsComplete
<1> HIDE DEF O
<1> QED
  BY <1>4, <1>5, <1>6

\* A real path is the path of its file.
LEMMA RealIsReal == ASSUME NEW f \in Files PROVE Messages!Real(f) = f
<1>1. f = [dir |-> f.dir, name |-> f.name] /\ RealDir[f.dir] = f.dir /\ f \notin DOMAIN Links
  BY RequestsAssumption DEF Messages!IsPath
<1>2. Messages!InRealDir(f) = f
  BY <1>1 DEF Messages!InRealDir
<1> QED
  BY <1>1, <1>2 DEF Messages!Real

\* A request is not "no job", and a path was asked for.
LEMMA OperationIsOne == ASSUME NEW j, j.op \in Messages!Operations PROVE j # Messages!NoJob
BY DEF Messages!Operations, Messages!NoJob

LEMMA InputsAreGiven ==
  ASSUME AskedWell
  PROVE  /\ Len(rAsked.inputs) \in Nat \ {0} /\ DOMAIN rAsked.inputs = 1 .. Len(rAsked.inputs)
         /\ Len(OfRealFiles.inputs) = Len(rAsked.inputs) /\ DOMAIN OfRealFiles.inputs = DOMAIN rAsked.inputs
         /\ \A i \in DOMAIN rAsked.inputs : OfRealFiles.inputs[i] = Messages!Real(rAsked.inputs[i])
<1>1. rAsked.inputs \in Seq(Messages!Range(rAsked.inputs))
  BY DEF AskedWell, Messages!IsAsked
<1>2. Len(rAsked.inputs) \in Nat /\ DOMAIN rAsked.inputs = 1 .. Len(rAsked.inputs)
  BY <1>1
<1>3. Messages!ArityIsRight(rAsked.op, rAsked.inputs)
  BY DEF AskedWell, Messages!IsJob
<1>4. Len(rAsked.inputs) >= 1
  BY <1>2, <1>3 DEF Messages!ArityIsRight
<1>5. OfRealFiles.inputs = [i \in DOMAIN rAsked.inputs |-> Messages!Real(rAsked.inputs[i])]
  BY RequestIsKept
<1> QED
  BY <1>2, <1>4, <1>5

\* The worker finds what it reads well made.
LEMMA WorkerFindsAJob ==
  ASSUME AskedWell, InputsAreReal PROVE Messages!IsJob(OnThePipe)
<1> DEFINE m == OnThePipe
<1>1. /\ IsComplete(m) /\ m.op = rAsked.op /\ m.password = rAsked.password
      /\ DOMAIN m.options = DOMAIN WellMade.options /\ m.inputs = OfRealFiles.inputs
      /\ \A k \in {"output_path", "ranges", "page_groups"} :
           k \in DOMAIN WellMade.options <=> k \in DOMAIN rAsked.options
  BY RequestIsKept
<1> HIDE DEF m
<1>2. /\ Messages!Keys(m.op).must \subseteq DOMAIN m.options
      /\ DOMAIN m.options \subseteq Messages!Keys(m.op).must \cup Messages!Keys(m.op).may
      /\ \A k \in DOMAIN m.options : Messages!IsSound(m.op, k, m.options[k])
  BY <1>1 DEF IsComplete
<1>3. /\ rAsked.password = (rAsked.op \in Messages!PasswordOperations)
      /\ Messages!ArityIsRight(rAsked.op, rAsked.inputs)
      /\ rAsked.op = "split" => Messages!Cardinality({"ranges", "page_groups"} \cap DOMAIN rAsked.options) = 1
  BY DEF AskedWell, Messages!IsJob
<1>4. {"ranges", "page_groups"} \cap DOMAIN m.options = {"ranges", "page_groups"} \cap DOMAIN rAsked.options
  BY <1>1
<1>5. Messages!ArityIsRight(m.op, m.inputs)
  <2>1. /\ Len(m.inputs) = Len(rAsked.inputs) /\ DOMAIN m.inputs = 1 .. Len(rAsked.inputs)
        /\ \A i \in DOMAIN m.inputs : m.inputs[i] = Messages!Real(rAsked.inputs[i])
    BY <1>1, InputsAreGiven
  <2>2. ASSUME rAsked.op = "insert" PROVE Messages!Real(m.inputs[1]) # Messages!Real(m.inputs[2])
    <3>1. Len(rAsked.inputs) = 2 /\ Messages!Real(rAsked.inputs[1]) # Messages!Real(rAsked.inputs[2])
      BY <1>3, <2>2 DEF Messages!ArityIsRight
    <3>2. 1 \in DOMAIN m.inputs /\ 2 \in DOMAIN m.inputs /\ DOMAIN rAsked.inputs = DOMAIN m.inputs
      BY <2>1, <3>1, InputsAreGiven
    <3>3. m.inputs[1] \in Files /\ m.inputs[2] \in Files
      BY <2>1, <3>2 DEF InputsAreReal
    <3> QED
      BY <2>1, <3>1, <3>2, <3>3, RealIsReal
  <2> QED
    BY <1>1, <1>3, <2>1, <2>2 DEF Messages!ArityIsRight
<1> QED
  BY <1>1, <1>2, <1>3, <1>4, <1>5 DEF Messages!IsJob, m

\* It reads what fits and is well made.
LEMMA WorkerCanRead ==
  ASSUME AskedWell, InputsAreReal, Messages!CanBeWritten(ForTheWorker), Len(rAsked.inputs) <= MaxInputs
  PROVE  Messages!CanBeRead(OnThePipe)
<1> DEFINE m == OnThePipe
<1>1. /\ DOMAIN m.options = DOMAIN ForTheWorker.options /\ m.inputs = OfRealFiles.inputs
      /\ \A k \in DOMAIN m.options \ {"text"} : m.options[k] = ForTheWorker.options[k]
      /\ Messages!Size(m) = Messages!Size(ForTheWorker)
  BY RequestIsKept
<1>2. Messages!Fits(ForTheWorker)
      /\ \A k \in DOMAIN ForTheWorker.options : Messages!ValueIsCarried(k, ForTheWorker.options[k])
  BY DEF Messages!CanBeWritten
<1> HIDE DEF m
<1>3. Messages!Fits(m)
  BY <1>1, <1>2 DEF Messages!Fits
<1>4. Len(m.inputs) \in 1 .. MaxInputs
  <2>1. Len(m.inputs) = Len(rAsked.inputs) /\ Len(rAsked.inputs) \in Nat \ {0}
    BY <1>1, InputsAreGiven
  <2> QED
    BY <2>1, LimitsAssumption
<1>5. ASSUME NEW k \in DOMAIN m.options PROVE Messages!ValueIsCarried(k, m.options[k])
  <2>1. CASE k = "text"
    <3>1. ASSUME NEW v PROVE Messages!ValueIsCarried("text", v)
      BY DEF Messages!ValueIsCarried
    <3> QED
      BY <2>1, <3>1
  <2>2. CASE k # "text"
    BY <1>1, <1>2, <2>2
  <2> QED
    BY <2>1, <2>2
<1> QED
  BY <1>3, <1>4, <1>5, WorkerFindsAJob DEF Messages!CanBeRead, m

\* A job that cannot be written is too much or has a name that is not carried.
LEMMA WhatIsNotWritten ==
  ASSUME AskedWell, rJob = OfRealFiles,
         ~Messages!CanBeWritten(OfRealFiles) \/ ~Messages!CanBeWritten(ForTheWorker)
  PROVE  Messages!IsTooMuch \/ Messages!HasOddName
<1> SUFFICES ASSUME ~Messages!IsTooMuch, ~Messages!HasOddName
             PROVE  Messages!CanBeWritten(OfRealFiles) /\ Messages!CanBeWritten(ForTheWorker)
  OBVIOUS
<1>1. /\ IsComplete(OfRealFiles) /\ IsComplete(ForTheWorker)
      /\ ForTheWorker.inputs = OfRealFiles.inputs
      /\ DOMAIN ForTheWorker.options = DOMAIN OfRealFiles.options
      /\ "output_path" \in DOMAIN OfRealFiles.options <=> "output_path" \in DOMAIN rAsked.options
      /\ "output_path" \in DOMAIN rAsked.options =>
           /\ OfRealFiles.options["output_path"].name = rAsked.options["output_path"].name
           /\ ForTheWorker.options["output_path"] = [dir |-> "private", name |-> PrivateName(OfRealFiles)]
  BY RequestIsKept
<1>2. OfRealFiles.op \in Messages!Operations
  BY <1>1 DEF IsComplete
<1>3. Messages!Fits(OfRealFiles) /\ Messages!Fits(ForTheWorker)
  BY <1>2, OperationIsOne DEF Messages!IsTooMuch, ForTheWorker
<1>4. \A i \in DOMAIN OfRealFiles.inputs : Messages!IsCarried(OfRealFiles.inputs[i])
  BY InputsAreGiven DEF Messages!HasOddName, Messages!IsCarried
<1>5. "output_path" \in DOMAIN rAsked.options => rAsked.options["output_path"].name \notin Odd
  BY DEF Messages!HasOddName, Messages!HasOutput, Messages!Output
<1>6. ASSUME NEW j, IsComplete(j), "output_path" \in DOMAIN j.options => j.options["output_path"].name \notin Odd,
             NEW k \in DOMAIN j.options
      PROVE  Messages!ValueIsCarried(k, j.options[k])
  <2>1. Messages!IsSound(j.op, k, j.options[k]) /\ IsTyped(k, j.options[k])
    BY <1>6 DEF IsComplete
  <2>2. CASE k = "output_path"
    <3>1. ASSUME NEW v, v.name \notin Odd PROVE Messages!ValueIsCarried("output_path", v)
      BY <3>1 DEF Messages!ValueIsCarried, Messages!IsCarried
    <3> QED
      BY <1>6, <2>2, <3>1
  <2>3. CASE k # "output_path"
    BY <2>1, <2>3, SoundIsCarried DEF IsTyped
  <2> QED
    BY <2>2, <2>3
<1>7. "output_path" \in DOMAIN OfRealFiles.options => OfRealFiles.options["output_path"].name \notin Odd
  BY <1>1, <1>5
<1>8. "output_path" \in DOMAIN ForTheWorker.options => ForTheWorker.options["output_path"].name \notin Odd
  <2> SUFFICES ASSUME "output_path" \in DOMAIN ForTheWorker.options
               PROVE  ForTheWorker.options["output_path"].name \notin Odd
    OBVIOUS
  <2>1. ForTheWorker.options["output_path"].name = PrivateName(OfRealFiles)
    BY <1>1
  <2>2. PrivateName(OfRealFiles) \notin Odd
    BY <1>1, <1>5, RequestsAssumption DEF PrivateName, Messages!Output
  <2> QED
    BY <2>1, <2>2
<1>9. \A k \in DOMAIN OfRealFiles.options : Messages!ValueIsCarried(k, OfRealFiles.options[k])
  BY <1>1, <1>6, <1>7
<1>10. \A k \in DOMAIN ForTheWorker.options : Messages!ValueIsCarried(k, ForTheWorker.options[k])
  BY <1>1, <1>6, <1>8
<1> QED
  BY <1>1, <1>3, <1>4, <1>9, <1>10 DEF Messages!CanBeWritten

\* The worker counts the outputs as the page does.
LEMMA OutputsAreCounted ==
  ASSUME AskedWell
  PROVE  /\ Messages!OutputCount(OnThePipe) = Messages!OutputCount(rAsked)
         /\ Messages!OutputCount(rAsked) \in Nat \ {0}
         /\ rAsked.op # "split" => Messages!OutputCount(rAsked) = 1
<1>1. /\ OnThePipe.op = rAsked.op /\ DOMAIN OnThePipe.options = DOMAIN WellMade.options
      /\ \A k \in {"output_path", "ranges", "page_groups"} :
           k \in DOMAIN WellMade.options <=> k \in DOMAIN rAsked.options
      /\ \A k \in DOMAIN rAsked.options \ {"output_path", "replace_input", "text"} :
           OnThePipe.options[k] = rAsked.options[k]
  BY RequestIsKept
<1>2. CASE rAsked.op # "split"
  BY <1>1, <1>2 DEF Messages!OutputCount
<1>3. CASE rAsked.op = "split"
  <2> DEFINE O == rAsked.options
  <2>1. /\ "page_groups" \in DOMAIN O => O["page_groups"] \in Seq(Seq(Nat))
        /\ "ranges" \in DOMAIN O => O["ranges"] \in Seq(Nat \X Nat)
    BY DEF AskedWell, Messages!IsAsked
  <2>2. /\ \A k \in DOMAIN O : Messages!IsSound("split", k, O[k])
        /\ Messages!Cardinality({"ranges", "page_groups"} \cap DOMAIN O) = 1
    BY <1>3 DEF AskedWell, Messages!IsJob
  <2> HIDE DEF O
  <2>3. "ranges" \in DOMAIN O \/ "page_groups" \in DOMAIN O
    <3> SUFFICES ASSUME "ranges" \notin DOMAIN O, "page_groups" \notin DOMAIN O PROVE FALSE
      OBVIOUS
    <3>1. {"ranges", "page_groups"} \cap DOMAIN O = {}
      OBVIOUS
    <3>2. Messages!Cardinality({}) = 0
      BY FS_EmptySet, CountedAlike
    <3> QED
      BY <2>2, <3>1, <3>2
  <2>4. ASSUME NEW v, Messages!IsSound("split", "ranges", v) PROVE v # <<>>
    BY <2>4 DEF Messages!IsSound
  <2>5. ASSUME NEW v, Messages!IsSound("split", "page_groups", v) PROVE v # <<>>
    BY <2>5 DEF Messages!IsSound
  <2>6. CASE "ranges" \in DOMAIN O
    <3>1. O["ranges"] \in Seq(Nat \X Nat) /\ O["ranges"] # <<>>
      BY <2>1, <2>2, <2>4, <2>6
    <3>2. Messages!OutputCount(rAsked) = Len(O["ranges"]) /\ Messages!OutputCount(OnThePipe) = Len(O["ranges"])
      BY <1>1, <1>3, <2>6 DEF Messages!OutputCount, O
    <3>3. Len(O["ranges"]) \in Nat \ {0}
      BY <3>1
    <3> QED
      BY <1>3, <3>2, <3>3
  <2>7. CASE "ranges" \notin DOMAIN O
    <3>0. "page_groups" \in DOMAIN O
      BY <2>3, <2>7
    <3>1. O["page_groups"] \in Seq(Seq(Nat)) /\ O["page_groups"] # <<>>
      BY <2>1, <2>2, <2>5, <3>0
    <3>2. Messages!OutputCount(rAsked) = Len(O["page_groups"])
          /\ Messages!OutputCount(OnThePipe) = Len(O["page_groups"])
      BY <1>1, <1>3, <2>7, <3>0 DEF Messages!OutputCount, O
    <3>3. Len(O["page_groups"]) \in Nat \ {0}
      BY <3>1
    <3> QED
      BY <1>3, <3>2, <3>3
  <2> QED
    BY <2>6, <2>7
<1> QED
  BY <1>2, <1>3

\* What the worker answers is understood, unless it made too many files.
LEMMA AnswerIsUnderstood ==
  ASSUME AskedWell, rJob.op = rAsked.op, NEW r \in Messages!Results(OnThePipe), Messages!IsResult(r),
         ~Messages!IsTooMuch
  PROVE  Messages!AnswerIsRead(r)
<1>1. /\ Messages!OutputCount(OnThePipe) = Messages!OutputCount(rAsked)
      /\ Messages!OutputCount(rAsked) \in Nat \ {0} /\ OnThePipe.op = rAsked.op
  BY OutputsAreCounted, RequestIsKept
<1>2. Messages!OutputCount(rAsked) <= MaxOutputs
  BY <1>1, LimitsAssumption DEF Messages!IsTooMuch
<1>3. r.files \in {0, 1, Messages!OutputCount(rAsked)} /\ (rAsked.op # "compress" => r.gain = "none")
  <2>1. \/ r = Messages!Result(FALSE, 0, "pdf_error", "none")
        \/ OnThePipe.op = "compress" /\ r = Messages!Result(TRUE, 1, "", "smaller")
        \/ OnThePipe.op = "compress" /\ r = Messages!Result(FALSE, 0, "compression_no_gain", "not smaller")
        \/ r = Messages!Result(TRUE, Messages!OutputCount(OnThePipe), "", "none")
    BY DEF Messages!Results
  <2>2. ASSUME NEW s, NEW n, NEW c, NEW g
        PROVE  Messages!Result(s, n, c, g).files = n /\ Messages!Result(s, n, c, g).gain = g
    BY DEF Messages!Result
  <2>3. ASSUME NEW s, NEW n, NEW c, NEW g, r = Messages!Result(s, n, c, g)
        PROVE  r.files = n /\ r.gain = g
    BY <2>2, <2>3
  <2>4. CASE r = Messages!Result(FALSE, 0, "pdf_error", "none")
    <3>1. r.files = 0 /\ r.gain = "none"
      BY <2>3, <2>4
    <3> QED
      BY <3>1
  <2>5. CASE OnThePipe.op = "compress" /\ r = Messages!Result(TRUE, 1, "", "smaller")
    <3>1. r.files = 1
      BY <2>3, <2>5
    <3> QED
      BY <1>1, <2>5, <3>1
  <2>6. CASE OnThePipe.op = "compress" /\ r = Messages!Result(FALSE, 0, "compression_no_gain", "not smaller")
    <3>1. r.files = 0
      BY <2>3, <2>6
    <3> QED
      BY <1>1, <2>6, <3>1
  <2>7. CASE r = Messages!Result(TRUE, Messages!OutputCount(OnThePipe), "", "none")
    <3>1. r.files = Messages!OutputCount(OnThePipe) /\ r.gain = "none"
      BY <2>3, <2>7
    <3> QED
      BY <1>1, <3>1
  <2> QED
    BY <2>1, <2>4, <2>5, <2>6, <2>7
<1>4. r.files <= MaxOutputs
  BY <1>1, <1>2, <1>3, LimitsAssumption
<1> QED
  BY <1>3, <1>4 DEF Messages!AnswerIsRead

-----------------------------------------------------------------------------
OnItsWay == {"ready", "sent", "working", "answering"}

RequestInv ==
  /\ AskedWell
  /\ rStep \in {"asked", "named", "real", "safe", "written", "over"} \cup OnItsWay
  /\ rStep = "named" => rJob = WellMade
  /\ rStep \in {"real", "safe", "written"} \cup OnItsWay => rJob = OfRealFiles /\ InputsAreReal
  /\ rStep \in {"sent", "working", "answering"} =>
       Messages!CanBeWritten(ForTheWorker) /\ rMessage = OnThePipe
  /\ rStep \in {"working", "answering"} => rReceived = OnThePipe
  /\ rReceived # Messages!NoJob => rReceived = OnThePipe /\ rStep \in {"working", "answering", "over"}
  /\ rStep = "answering" => rAnswer \in Messages!Results(OnThePipe) /\ Messages!IsResult(rAnswer)
  /\ rOutcome # "none" => rStep = "over"
  /\ rOutcome \in {"worker_protocol_error", "worker_crashed"} => Messages!IsTooMuch \/ Messages!HasOddName

LEMMA RequestStarts == JobsInit => RequestInv
<1> SUFFICES ASSUME JobsInit PROVE RequestInv
  OBVIOUS
<1>1. /\ rAsked \in {r \in Requests : Messages!IsJob(r)} /\ rStep = "asked"
      /\ rReceived = Messages!NoJob /\ rOutcome = "none"
  BY DEF JobsInit, Messages!Init
<1>2. AskedWell
  BY <1>1, RequestsAssumption DEF AskedWell
<1> QED
  BY <1>1, <1>2 DEF RequestInv, OnItsWay

\* A page's values of the right types stay with the request.
LEMMA AskedStays ==
  ASSUME UNCHANGED rAsked
  PROVE  /\ AskedWell' = AskedWell /\ InputsAreReal' = InputsAreReal
         /\ WellMade' = WellMade /\ OfRealFiles' = OfRealFiles /\ ForTheWorker' = ForTheWorker
         /\ OnThePipe' = OnThePipe /\ Messages!HasOddName' = Messages!HasOddName
BY DEF AskedWell, InputsAreReal, WellMade, OfRealFiles, ForTheWorker, OnThePipe, Messages!HasOddName,
       Messages!HasOutput, Messages!Output

LEMMA RequestSteps == RequestInv /\ [Messages!Next]_requestVars => RequestInv'
<1> SUFFICES ASSUME RequestInv, [Messages!Next]_requestVars PROVE RequestInv'
  OBVIOUS
<1> USE DEF OnItsWay
<1>1. UNCHANGED rAsked
  BY DEF Messages!Next, Messages!Checks, Messages!FollowsLinks, Messages!ChecksOutput, Messages!WritesAsAsked,
         Messages!WritesForTheWorker, Messages!WorkerReads, Messages!WorkerAnswers, Messages!ReadsAnswer, requestVars
<1>2. /\ AskedWell' /\ InputsAreReal' = InputsAreReal
      /\ WellMade' = WellMade /\ OfRealFiles' = OfRealFiles /\ ForTheWorker' = ForTheWorker
      /\ OnThePipe' = OnThePipe /\ Messages!HasOddName' = Messages!HasOddName
      /\ Messages!CanBeWritten(ForTheWorker)' = Messages!CanBeWritten(ForTheWorker')
  BY <1>1, AskedStays DEF RequestInv, Messages!CanBeWritten
<1>3. CASE Messages!Checks
  <2>1. WellMade = Messages!Made(rAsked)
    BY DEF WellMade
  <2> QED
    BY <1>2, <1>3, <2>1 DEF RequestInv, Messages!Checks, Messages!Fails
<1>4. CASE Messages!FollowsLinks
  <2>1. rStep = "named" /\ rJob = WellMade /\ rReceived = Messages!NoJob /\ rOutcome = "none"
    BY <1>4 DEF RequestInv, Messages!FollowsLinks
  <2>2. WellMade.inputs = rAsked.inputs
    BY RequestIsKept DEF RequestInv
  <2>3. OfRealFiles = Messages!Followed(WellMade)
    BY DEF OfRealFiles
  <2>4. UNCHANGED <<rMessage, rReceived, rAnswer>>
        /\ \/ rStep' = "real" /\ rJob' = OfRealFiles /\ InputsAreReal /\ UNCHANGED rOutcome
           \/ rStep' = "over" /\ rOutcome' = "input_path_error"
    BY <1>4, <2>1, <2>2, <2>3 DEF Messages!FollowsLinks, Messages!Fails, InputsAreReal
  <2> QED
    BY <1>2, <2>1, <2>4 DEF RequestInv
<1>5. CASE Messages!ChecksOutput
  <2>1. /\ rStep \in {"real", "written"} /\ UNCHANGED <<rJob, rMessage, rReceived, rAnswer>>
        /\ \/ rStep' \in {"safe", "ready"} /\ UNCHANGED rOutcome
           \/ rStep' = "over" /\ rOutcome' = "dangerous_output"
    BY <1>5 DEF Messages!ChecksOutput, Messages!Fails
  <2> QED
    BY <1>2, <2>1 DEF RequestInv
<1>6. CASE Messages!WritesAsAsked
  <2>1. /\ rStep \in {"safe", "real"} /\ UNCHANGED <<rJob, rMessage, rReceived, rAnswer>>
        /\ \/ rStep' \in {"ready", "written"} /\ UNCHANGED rOutcome
           \/ rStep' = "over" /\ rOutcome' = "worker_protocol_error" /\ ~Messages!CanBeWritten(rJob)
    BY <1>6 DEF Messages!WritesAsAsked, Messages!Fails
  <2>2. rJob = OfRealFiles /\ rReceived = Messages!NoJob /\ AskedWell
    BY <2>1 DEF RequestInv
  <2>3. ~Messages!CanBeWritten(rJob) => (Messages!IsTooMuch \/ Messages!HasOddName)'
    <3>1. Messages!IsTooMuch' = Messages!IsTooMuch
      BY <1>1, <2>1 DEF Messages!IsTooMuch
    <3> QED
      BY <1>2, <2>2, <3>1, WhatIsNotWritten
  <2> QED
    BY <1>2, <2>1, <2>2, <2>3 DEF RequestInv
<1>7. CASE Messages!WritesForTheWorker
  <2>1. rStep = "ready" /\ rJob = OfRealFiles /\ rReceived = Messages!NoJob /\ AskedWell
    BY <1>7 DEF RequestInv, Messages!WritesForTheWorker
  <2>2. Messages!Staged(rJob) = ForTheWorker /\ Messages!Written(Messages!Staged(rJob)) = OnThePipe
    BY <2>1 DEF ForTheWorker, OnThePipe
  <2>3. /\ UNCHANGED <<rJob, rReceived, rAnswer>>
        /\ \/ /\ rStep' = "sent" /\ UNCHANGED rOutcome
              /\ Messages!CanBeWritten(ForTheWorker) /\ rMessage' = OnThePipe
           \/ rStep' = "over" /\ rOutcome' = "worker_protocol_error" /\ ~Messages!CanBeWritten(ForTheWorker)
    BY <1>7, <2>2 DEF Messages!WritesForTheWorker, Messages!Fails
  <2>4. ~Messages!CanBeWritten(ForTheWorker) => (Messages!IsTooMuch \/ Messages!HasOddName)'
    <3>1. Messages!IsTooMuch' = Messages!IsTooMuch
      BY <1>1, <2>3 DEF Messages!IsTooMuch
    <3> QED
      BY <1>2, <2>1, <3>1, WhatIsNotWritten
  <2> QED
    BY <1>2, <2>1, <2>3, <2>4 DEF RequestInv
<1>8. CASE Messages!WorkerReads
  <2>1. /\ rStep = "sent" /\ rJob = OfRealFiles /\ InputsAreReal /\ rMessage = OnThePipe /\ AskedWell
        /\ Messages!CanBeWritten(ForTheWorker) /\ rOutcome = "none" /\ rReceived = Messages!NoJob
    BY <1>8 DEF RequestInv, Messages!WorkerReads
  <2>2. Messages!Made(rMessage) = OnThePipe
    BY <2>1, CompleteStays, RequestIsKept
  <2>3. /\ UNCHANGED <<rJob, rMessage, rAnswer>>
        /\ \/ rStep' = "working" /\ UNCHANGED rOutcome /\ rReceived' = OnThePipe
           \/ /\ rStep' = "over" /\ rOutcome' = "worker_crashed" /\ UNCHANGED rReceived
              /\ ~Messages!CanBeRead(OnThePipe)
    BY <1>8, <2>1, <2>2 DEF Messages!WorkerReads, Messages!Fails
  <2>4. ~Messages!CanBeRead(OnThePipe) => Messages!IsTooMuch'
    <3>1. Messages!IsTooMuch' = Messages!IsTooMuch
      BY <1>1, <2>3 DEF Messages!IsTooMuch
    <3>2. ~Messages!CanBeRead(OnThePipe) => ~(Len(rAsked.inputs) <= MaxInputs)
      BY <2>1, WorkerCanRead
    <3>3. Len(rAsked.inputs) \in Nat
      BY <2>1, InputsAreGiven
    <3> QED
      BY <3>1, <3>2, <3>3, LimitsAssumption DEF Messages!IsTooMuch
  <2> QED
    BY <1>2, <2>1, <2>3, <2>4 DEF RequestInv
<1>9. CASE Messages!WorkerAnswers
  <2>1. rStep = "working" /\ rReceived = OnThePipe /\ rOutcome = "none"
    BY <1>9 DEF RequestInv, Messages!WorkerAnswers
  <2>2. /\ UNCHANGED <<rJob, rMessage, rReceived, rOutcome>> /\ rStep' = "answering"
        /\ rAnswer' \in Messages!Results(OnThePipe) /\ Messages!IsResult(rAnswer')
    BY <1>9, <2>1 DEF Messages!WorkerAnswers
  <2> QED
    BY <1>2, <2>1, <2>2 DEF RequestInv
<1>10. CASE Messages!ReadsAnswer
  <2>1. /\ rStep = "answering" /\ rReceived = OnThePipe /\ rJob = OfRealFiles /\ AskedWell
        /\ rAnswer \in Messages!Results(OnThePipe) /\ Messages!IsResult(rAnswer)
    BY <1>10 DEF RequestInv, Messages!ReadsAnswer
  <2>2. /\ UNCHANGED <<rJob, rMessage, rReceived, rAnswer>> /\ rStep' = "over"
        /\ \/ rOutcome' = "answered"
           \/ rOutcome' = "worker_protocol_error" /\ ~Messages!AnswerIsRead(rAnswer)
    BY <1>10 DEF Messages!ReadsAnswer, Messages!Fails
  <2>3. ~Messages!AnswerIsRead(rAnswer) => Messages!IsTooMuch'
    <3>1. Messages!IsTooMuch' = Messages!IsTooMuch
      BY <1>1, <2>2 DEF Messages!IsTooMuch
    <3>2. rJob.op = rAsked.op
      BY <2>1, RequestIsKept
    <3> QED
      BY <2>1, <3>1, <3>2, AnswerIsUnderstood
  <2> QED
    BY <1>2, <2>1, <2>2, <2>3 DEF RequestInv
<1>11. CASE UNCHANGED requestVars
  <2>1. Messages!IsTooMuch' = Messages!IsTooMuch
    BY <1>11 DEF Messages!IsTooMuch, requestVars
  <2>2. UNCHANGED <<rStep, rJob, rMessage, rReceived, rAnswer, rOutcome>>
    BY <1>11 DEF requestVars
  <2> QED
    BY <1>2, <2>1, <2>2 DEF RequestInv
<1> QED
  BY <1>3, <1>4, <1>5, <1>6, <1>7, <1>8, <1>9, <1>10, <1>11 DEF Messages!Next

LEMMA RequestArrives == RequestInv => Messages!JobArrivesAsAsked
<1> SUFFICES ASSUME RequestInv PROVE Messages!JobArrivesAsAsked
  OBVIOUS
<1>1. rOutcome \in {"worker_protocol_error", "worker_crashed"} => Messages!IsTooMuch \/ Messages!HasOddName
  BY DEF RequestInv
<1>2. ASSUME rReceived # Messages!NoJob PROVE Messages!ReadsTheSame /\ Messages!WritesInPrivate
  <2>1. rReceived = OnThePipe /\ AskedWell
    BY <1>2 DEF RequestInv
  <2>2. /\ OnThePipe.op = rAsked.op /\ OnThePipe.dir = "private" /\ OnThePipe.inputs = OfRealFiles.inputs
        /\ DOMAIN OnThePipe.options = DOMAIN WellMade.options
        /\ \A k \in {"output_path", "ranges", "page_groups"} :
             k \in DOMAIN WellMade.options <=> k \in DOMAIN rAsked.options
        /\ \A k \in DOMAIN rAsked.options \ {"output_path", "replace_input", "text"} :
             OnThePipe.options[k] = rAsked.options[k]
        /\ \A k \in DOMAIN WellMade.options \ {"text"} : OnThePipe.options[k] = ForTheWorker.options[k]
        /\ "output_path" \in DOMAIN rAsked.options =>
             ForTheWorker.options["output_path"] = [dir |-> "private", name |-> PrivateName(OfRealFiles)]
        /\ ~Messages!Replaces(OnThePipe)
    BY <2>1, RequestIsKept
  <2>3. /\ Len(OnThePipe.inputs) = Len(rAsked.inputs)
        /\ \A i \in DOMAIN rAsked.inputs : OnThePipe.inputs[i] = Messages!Real(rAsked.inputs[i])
    BY <2>1, <2>2, InputsAreGiven
  <2>4. "output_path" \in DOMAIN OnThePipe.options => OnThePipe.options["output_path"].dir = "private"
    <3> SUFFICES ASSUME "output_path" \in DOMAIN OnThePipe.options
                 PROVE  OnThePipe.options["output_path"].dir = "private"
      OBVIOUS
    <3>1. "output_path" \in DOMAIN rAsked.options /\ "output_path" \in DOMAIN WellMade.options
      BY <2>2
    <3>2. OnThePipe.options["output_path"] = [dir |-> "private", name |-> PrivateName(OfRealFiles)]
      BY <2>2, <3>1
    <3> QED
      BY <3>2
  <2>5. Messages!ReadsTheSame
    BY <2>1, <2>2, <2>3 DEF Messages!ReadsTheSame
  <2>6. Messages!WritesInPrivate
    BY <2>1, <2>2, <2>4 DEF Messages!WritesInPrivate, Messages!HasOutput, Messages!Output
  <2> QED
    BY <2>5, <2>6
<1> QED
  BY <1>1, <1>2 DEF Messages!JobArrivesAsAsked

(* Whatever a page asks for that is well made, and whatever folders, links  *)
(* and limits there are: the worker reads what was asked, of the real files *)
(* in their order, writes into its private directory and replaces nothing,  *)
(* and only an amount or a name the messages cannot carry ends in a fault   *)
(* of the protocol; and of any worker that does its work, the whole text is *)
(* heard however it is cut and however soon the process is gone, and the    *)
(* job succeeds unless it is cancelled or late (JobRequest, staged_job,     *)
(* encode_job_request, decode_request, _bounded_communicate, _exchange).    *)
THEOREM JobsUnderstood == JobsSpec => []JobsAreUnderstood
<1> DEFINE Inv == ExchangeInv /\ BelievedInv /\ RequestInv
<1>1. JobsInit => Inv
  BY ExchangeStarts, BelievedStarts, RequestStarts
<1>2. Inv /\ [JobsNext]_allVars => Inv'
  <2>1. [JobsNext]_allVars => [Pipes!Next]_pipeVars /\ [Messages!Next]_requestVars
    BY DEF JobsNext, allVars
  <2> QED
    BY <2>1, ExchangeSteps, BelievedSteps, RequestSteps
<1>3. Inv => JobsAreUnderstood
  BY GoodWorkIsPublished, RequestArrives DEF JobsAreUnderstood
<1> HIDE DEF Inv
<1> QED
  BY <1>1, <1>2, <1>3, PTL DEF JobsSpec
=============================================================================
