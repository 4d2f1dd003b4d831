----------------------- MODULE OutputPublicationProofs -----------------------
(***************************************************************************)
(* Proofs about OutputPublication for every number of outputs, about       *)
(* RenderMemory for every number of workers, and about VerifiedCopies and  *)
(* LayeredPages for every document, job and operation.  The inductive      *)
(* invariant of the first says which outputs may have their name at each   *)
(* step of the supervisor: those on the list `published`, and the current  *)
(* one from its link to the end of its withdrawal.  That of VerifiedCopies *)
(* says what a copy was made of, and what has been seen of it at each step *)
(* of its job; that of LayeredPages that the calls still to come are the   *)
(* rest of what was asked for, that those done are in the outputs page by  *)
(* page with the layers these show, and what the walk has met so far.      *)
(***************************************************************************)
EXTENDS MCPublication, TLAPS, FiniteSetTheorems, SequenceTheorems, WellFoundedInduction

(* Steps at which there is a current output. *)
HasCurrent == Publishing \cup {"withdraw", "withdraw_unlink", "discard"}

ControlInv ==
    /\ pc = "done" <=> outcome # "running"
    /\ pc \in HasCurrent => kept < N
    /\ pc = "close" => kept > 0
    /\ pc \in {"commit", "cleanup"} => kept = N
    /\ pc = "rollback_unlink" => kept > 0
    /\ pc \in Publishing \cup Ending => ~ioError
    /\ late => outcome = "failed"

(* An output with its name is on the list, or is the current one. *)
TrackedInv ==
    ~ioError =>
        /\ outcome = "running" =>
              \A i \in Outs : entry[i] = "own" =>
                  i <= kept \/ (pc \in AfterLink /\ i = kept + 1)
        /\ outcome = "failed" /\ ~late => \A i \in Outs : entry[i] # "own"

SyncedInv ==
    /\ NoTornOutput
    /\ pc = "link" => kept + 1 \in synced

(* Undisturbed, every output on the list has its name until the undoing. *)
PlacedInv ==
    ~tampered =>
        /\ pc \in Publishing \cup Ending =>
              \A i \in Outs : i <= kept => entry[i] = "own"
        /\ outcome = "success" \/ late => \A i \in Outs : entry[i] = "own"

(* What the identity check saw still holds at the unlink that follows it, *)
(* unless another program came in between.                                *)
WindowInv ==
    ~overtaken =>
    /\ At("withdraw_unlink") => entry[Current] = "own"
    /\ At("rollback_unlink") => entry[kept] = "own"

(* The steps at which the current output has a temporary. *)
HasTemporary == {"copy", "sync", "link", "verify", "tidy", "withdraw", "withdraw_unlink", "discard"}

TempInv ==
    /\ temp = "named" => ~tmpfile
    /\ outcome = "crashed" => temp # "anonymous"
    /\ ~ioError /\ outcome # "crashed" /\ pc \notin HasTemporary => temp = "none"

IInv == TypeOK /\ ControlInv /\ TrackedInv /\ SyncedInv /\ PlacedInv /\ WindowInv /\ TempInv
-----------------------------------------------------------------------------
LEMMA InitInv == Init => IInv
<1> SUFFICES ASSUME Init PROVE IInv
  OBVIOUS
<1> USE ConstantsAssumption DEF Init
<1>1. TypeOK
  <2>1. entry \in [Outs -> {"absent", "own", "foreign"}]
    OBVIOUS
  <2>2. kept \in 0..N /\ synced \subseteq Outs
    OBVIOUS
  <2>3. QED
    BY <2>1, <2>2 DEF TypeOK, Steps, Publishing
<1>2. \A i \in Outs : entry[i] # "own"
  OBVIOUS
<1>3. ControlInv
  BY DEF ControlInv, Publishing, HasCurrent
<1>4. TrackedInv /\ SyncedInv
  BY <1>2 DEF TrackedInv, SyncedInv, NoTornOutput
<1>5. PlacedInv
  BY DEF PlacedInv, Outs
<1>6. WindowInv /\ TempInv
  BY DEF WindowInv, TempInv, At
<1>7. QED
  BY <1>1, <1>3, <1>4, <1>5, <1>6 DEF IInv

(* Every step of the supervisor, of the user, of the clock, of other       *)
(* programs, and the crash, preserves the inductive invariant.             *)
LEMMA StepInv == IInv /\ [Next]_vars => IInv'
<1> SUFFICES ASSUME IInv, [Next]_vars PROVE IInv'
  OBVIOUS
<1> USE ConstantsAssumption
    DEF IInv, TypeOK, ControlInv, TrackedInv, SyncedInv, PlacedInv, NoTornOutput,
        WindowInv, TempInv, HasTemporary, Outs, Steps, Publishing, Ending, Undoing, HasCurrent, AfterLink,
        At, Goto, Finish, FailLate, Environment, Current
<1>1. CASE Prepare
  BY <1>1 DEF Prepare
<1>2. CASE RequireAbsent
  BY <1>2 DEF RequireAbsent
<1>3. CASE CreateTemporary
  BY <1>3 DEF CreateTemporary
<1>4. CASE Copy
  BY <1>4 DEF Copy
<1>5. CASE Sync
  <2>1. CASE synced' = synced \cup {kept + 1} /\ pc' = "link"
    <3>1. kept + 1 \in 1..N
      BY <1>5 DEF Sync
    <3>2. synced' \subseteq 1..N
      BY <2>1, <3>1
    <3>3. QED
      BY <1>5, <2>1, <3>2 DEF Sync
  <2>2. CASE UNCHANGED synced /\ pc' = "discard"
    BY <1>5, <2>2 DEF Sync
  <2>3. QED
    BY <1>5, <2>1, <2>2 DEF Sync
<1>6. CASE Link
  BY <1>6 DEF Link
<1>7. CASE Verify
  BY <1>7 DEF Verify
<1>8. CASE Tidy
  BY <1>8 DEF Tidy
<1>9. CASE Confirm
  BY <1>9 DEF Confirm
<1>10. CASE Commit
  BY <1>10 DEF Commit
<1>11. CASE WithdrawCheck
  BY <1>11 DEF WithdrawCheck
<1>12. CASE WithdrawUnlink
  BY <1>12, ZenonT(30) DEF WithdrawUnlink
<1>13. CASE Discard
  BY <1>13 DEF Discard
<1>14. CASE RollbackCheck
  <2>1. kept - 1 \in 0..N /\ kept \in Outs
    BY <1>14 DEF RollbackCheck
  <2>2. CASE entry[kept] = "own" /\ pc' = "rollback_unlink" /\ UNCHANGED <<kept, ioError>>
    BY <1>14, <2>2 DEF RollbackCheck
  <2>3. CASE entry[kept] # "own" /\ pc' = "rollback" /\ kept' = kept - 1 /\ UNCHANGED ioError
    BY <1>14, <2>1, <2>3 DEF RollbackCheck
  <2>4. CASE pc' = "rollback" /\ kept' = kept - 1 /\ ioError' = TRUE
    BY <1>14, <2>1, <2>4 DEF RollbackCheck
  <2>5. QED
    BY <1>14, <2>2, <2>3, <2>4 DEF RollbackCheck
<1>15. CASE RollbackUnlink
  <2>1. CASE pc' = "rollback"
    BY <1>15, <2>1 DEF RollbackUnlink
  <2>2. CASE ioError' = TRUE /\ outcome' = "failed"
    BY <1>15, <2>2 DEF RollbackUnlink
  <2>3. QED
    BY <1>15, <2>1, <2>2 DEF RollbackUnlink
<1>16. CASE RollbackDone
  BY <1>16 DEF RollbackDone
<1>17. CASE RequestCancel
  BY <1>17 DEF RequestCancel
<1>18. CASE DeadlinePasses
  BY <1>18 DEF DeadlinePasses
<1>19. CASE Crash
  BY <1>19 DEF Crash
<1>20. CASE OtherPrograms
  <2>1. PICK i \in Outs : /\ OthersTake(i) \/ OthersFree(i) \/ OthersTamper(i)
                          /\ overtaken' = (overtaken \/ UnlinkWindow(i))
    BY <1>20 DEF OtherPrograms
  <2>2. UNCHANGED <<temp, tmpfile, synced, kept, pc, cancel, expired, ioError, late, outcome>>
    BY <1>20 DEF OtherPrograms
  <2>3. CASE OthersTake(i)
    BY <2>1, <2>2, <2>3 DEF OthersTake, UnlinkWindow
  <2>4. CASE OthersFree(i)
    BY <2>1, <2>2, <2>4 DEF OthersFree, UnlinkWindow
  <2>5. CASE OthersTamper(i)
    <3>1. WindowInv'
      <4>1. SUFFICES ASSUME ~overtaken' PROVE WindowInv'
        OBVIOUS
      <4>2. ~overtaken /\ ~UnlinkWindow(i) /\ \A j \in Outs : j # i => entry'[j] = entry[j]
        BY <2>1, <2>5, <4>1 DEF OthersTamper
      <4>3. QED
        BY <2>2, <4>2 DEF UnlinkWindow
    <3>2. overtaken' \in BOOLEAN
      BY <2>1 DEF UnlinkWindow
    <3>3. QED
      BY <2>2, <2>5, <3>1, <3>2 DEF OthersTamper
  <2>6. QED
    BY <2>1, <2>3, <2>4, <2>5
<1>21. CASE UNCHANGED vars
  BY <1>21 DEF vars
<1>22. CASE Close
  <2>1. CASE UNCHANGED <<late, outcome>>
    BY <1>22, <2>1 DEF Close
  <2>2. CASE N = 1 /\ FailLate
    BY <1>22, <2>2 DEF Close
  <2>3. QED
    BY <1>22, <2>1, <2>2 DEF Close
<1>23. CASE CleanUp
  <2>1. CASE Finish("success") /\ UNCHANGED late
    BY <1>23, <2>1 DEF CleanUp
  <2>2. CASE FailLate
    BY <1>23, <2>2 DEF CleanUp
  <2>3. QED
    BY <1>23, <2>1, <2>2 DEF CleanUp
<1>24. QED
  BY <1>1, <1>2, <1>3, <1>4, <1>5, <1>6, <1>7, <1>8, <1>9, <1>10, <1>11, <1>12, <1>13, <1>14, <1>15, <1>16, <1>17, <1>18, <1>19, <1>20, <1>21, <1>22, <1>23 DEF Next, Supervisor, Publish, Undo

LEMMA Invariance == Spec => []IInv
<1>1. QED
  BY InitInv, StepInv, PTL DEF Spec

(* The variables keep their types, for every number of outputs. *)
THEOREM TypeCorrect == Spec => []TypeOK
<1>1. IInv => TypeOK
  BY DEF IInv
<1>2. QED
  BY Invariance, <1>1, PTL

(* A failed or cancelled job of any number of outputs leaves none of them  *)
(* behind, even when other programs remove or replace what it published,   *)
(* unless the system refuses a call of the undoing; or it leaves all of    *)
(* them, where the failure is one of those nothing is undone after.        *)
THEOREM FailureLeavesNoneOrAllHolds == Spec => []FailureLeavesNoneOrAll
<1>1. IInv => FailureLeavesNoneOrAll
  BY DEF IInv, TrackedInv, PlacedInv, FailureLeavesNoneOrAll
<1>2. QED
  BY Invariance, <1>1, PTL

(* A success is reported with every planned name leading to its file. *)
THEOREM SuccessMeansAllHolds == Spec => []SuccessMeansAll
<1>1. IInv => SuccessMeansAll
  BY DEF IInv, PlacedInv, SuccessMeansAll
<1>2. QED
  BY Invariance, <1>1, PTL

(* No planned name ever leads to a file whose content is not on disk. *)
THEOREM NoTornOutputHolds == Spec => []NoTornOutput
<1>1. IInv => NoTornOutput
  BY DEF IInv, SyncedInv
<1>2. QED
  BY Invariance, <1>1, PTL

(* Temporaries do not outlive the job, nor a crash where O_TMPFILE exists. *)
THEOREM NoStrayTemporaryHolds == Spec => []NoStrayTemporary
<1>1. IInv => NoStrayTemporary
  BY DEF IInv, TypeOK, TempInv, ControlInv, NoStrayTemporary, HasTemporary
<1>2. QED
  BY Invariance, <1>1, PTL

(* No step of a job touches an entry that another program made. *)
THEOREM ForeignUntouchedHolds == Spec => ForeignUntouched
<1>1. ASSUME IInv, [Next]_vars
      PROVE  [\A i \in Outs : entry[i] = "foreign" /\ entry'[i] # "foreign"
                                => OtherPrograms \/ overtaken]_vars
  <2> SUFFICES ASSUME NEW i \in Outs, entry[i] = "foreign", entry'[i] # "foreign", Next
               PROVE  OtherPrograms \/ overtaken
    BY <1>1 DEF vars
  <2>1. CASE Publish
    <3>1. entry' = entry \/ (entry[Current] = "absent" /\ entry' = [entry EXCEPT ![Current] = "own"])
      BY <2>1 DEF Publish, Prepare, RequireAbsent, CreateTemporary, Copy, Sync, Link,
                  Verify, Tidy, Confirm, Close, Commit, CleanUp
    <3>2. QED
      BY <1>1, <3>1 DEF IInv, TypeOK
  <2>2. CASE Undo
    <3>1. \/ entry' = entry
          \/ At("withdraw_unlink") /\ entry' = [entry EXCEPT ![Current] = "absent"]
          \/ At("rollback_unlink") /\ entry' = [entry EXCEPT ![kept] = "absent"]
      BY <2>2 DEF Undo, WithdrawCheck, WithdrawUnlink, Discard, RollbackCheck,
                  RollbackUnlink, RollbackDone
    <3>2. QED
      BY <1>1, <3>1 DEF IInv, TypeOK, WindowInv
  <2>3. CASE RequestCancel \/ DeadlinePasses \/ Crash
    BY <2>3 DEF RequestCancel, DeadlinePasses, Crash
  <2>4. QED
    BY <2>1, <2>2, <2>3 DEF Next, Supervisor
<1>2. QED
  BY Invariance, <1>1, PTL DEF Spec, ForeignUntouched
-----------------------------------------------------------------------------
(* The publication keeps the promise of OutputSet: each step is a step of  *)
(* it, or a stutter.                                                       *)

Visible == {i \in Outs : entry[i] = "own"}

LEMMA InitPromise == Init => Promise!AbsInit
BY DEF Init, Promise!AbsInit

LEMMA StepPromise == IInv /\ [Next]_vars => [Promise!AbsNext]_Promise!absVars
<1> SUFFICES ASSUME IInv, [Next]_vars PROVE [Promise!AbsNext]_Promise!absVars
  OBVIOUS
<1> USE ConstantsAssumption
    DEF IInv, TypeOK, Promise!absVars, Outs, At, Goto, Finish, FailLate, Environment, Current, Visible
<1>1. CASE \/ Prepare \/ RequireAbsent \/ CreateTemporary \/ Copy \/ Sync \/ Verify \/ Tidy
           \/ Confirm \/ Commit \/ RequestCancel \/ DeadlinePasses \/ UNCHANGED vars
  BY <1>1 DEF Prepare, RequireAbsent, CreateTemporary, Copy, Sync, Verify, Tidy, Confirm,
              Commit, RequestCancel, DeadlinePasses, vars
<1>2. CASE Link
  <2>1. CASE UNCHANGED entry
    BY <1>2, <2>1 DEF Link
  <2>2. CASE entry' # entry
    <3>1. kept + 1 \in 1..N
      BY <1>2 DEF Link, ControlInv, HasCurrent, Publishing
    <3>2. entry' = [entry EXCEPT ![kept + 1] = "own"]
      BY <1>2, <2>2 DEF Link
    <3>3. kept + 1 \notin Visible
      BY <1>2, <2>2 DEF Link
    <3>4. \A i \in 1..N : /\ entry[i] = "own" => i <= kept
                          /\ ~tampered => (entry[i] = "own" <=> i <= kept)
      BY <1>2 DEF Link, ControlInv, TrackedInv, PlacedInv, Publishing, AfterLink
    <3>5. Visible = 1..kept \/ tampered
      BY <3>1, <3>4
    <3>6. Visible' = Visible \cup {kept + 1}
      BY <3>1, <3>2
    <3>7. QED
      BY <1>2, <3>1, <3>3, <3>5, <3>6 DEF Link, Promise!AbsNext, Promise!Appear
  <2>3. QED
    BY <2>1, <2>2
<1>3. CASE CleanUp
  <2>1. Visible = 1..N \/ tampered
    BY <1>3 DEF CleanUp, ControlInv, PlacedInv, Ending
  <2>2. CASE outcome' = "success" /\ UNCHANGED late
    BY <1>3, <2>1, <2>2 DEF CleanUp, Promise!AbsNext, Promise!Succeed
  <2>3. CASE outcome' = "failed" /\ late' = TRUE
    BY <1>3, <2>1, <2>3 DEF CleanUp, Promise!AbsNext, Promise!FailLate
  <2>4. QED
    BY <1>3, <2>2, <2>3 DEF CleanUp
<1>4. CASE WithdrawUnlink
  <2>1. CASE ioError' = TRUE /\ UNCHANGED entry
    BY <1>4, <2>1 DEF WithdrawUnlink, Promise!AbsNext, Promise!Refuse
  <2>2. CASE UNCHANGED ioError /\ entry' = [entry EXCEPT ![kept + 1] = "absent"]
    <3>1. kept + 1 \in 1..N
      BY <1>4 DEF WithdrawUnlink, ControlInv, HasCurrent
    <3>2. Visible' = Visible \ {kept + 1}
      BY <2>2, <3>1
    <3>3. \A j \in Visible : j <= kept + 1 \/ ioError
      BY <1>4 DEF WithdrawUnlink, TrackedInv
    <3>4. CASE kept + 1 \in Visible
      BY <1>4, <2>2, <3>2, <3>3, <3>4
         DEF WithdrawUnlink, Promise!AbsNext, Promise!Withdraw
    <3>5. CASE kept + 1 \notin Visible
      BY <1>4, <2>2, <3>2, <3>5 DEF WithdrawUnlink
    <3>6. QED
      BY <3>4, <3>5
  <2>3. QED
    BY <1>4, <2>1, <2>2 DEF WithdrawUnlink
<1>5. CASE Discard
  BY <1>5 DEF Discard, Promise!AbsNext, Promise!Refuse
<1>6. CASE RollbackUnlink
  <2>1. CASE ioError' = TRUE /\ outcome' = "failed" /\ UNCHANGED entry
    BY <1>6, <2>1 DEF RollbackUnlink, Promise!AbsNext, Promise!Refuse
  <2>2. CASE UNCHANGED <<ioError, outcome>> /\ entry' = [entry EXCEPT ![kept] = "absent"]
    <3>1. kept \in 1..N
      BY <1>6 DEF RollbackUnlink, ControlInv
    <3>2. Visible' = Visible \ {kept}
      BY <2>2, <3>1
    <3>3. \A j \in Visible : j <= kept \/ ioError
      BY <1>6 DEF RollbackUnlink, TrackedInv, AfterLink
    <3>4. CASE kept \in Visible
      BY <1>6, <2>2, <3>2, <3>3, <3>4
         DEF RollbackUnlink, Promise!AbsNext, Promise!Withdraw
    <3>5. CASE kept \notin Visible
      BY <1>6, <2>2, <3>2, <3>5 DEF RollbackUnlink
    <3>6. QED
      BY <3>4, <3>5
  <2>3. QED
    BY <1>6, <2>1, <2>2 DEF RollbackUnlink
<1>7. CASE RollbackDone
  <2>1. Visible = {} \/ ioError
    BY <1>7 DEF RollbackDone, TrackedInv, AfterLink
  <2>2. QED
    BY <1>7, <2>1 DEF RollbackDone, Promise!AbsNext, Promise!Fail
<1>8. CASE Crash
  BY <1>8 DEF Crash, Promise!AbsNext, Promise!Die
<1>9. CASE OtherPrograms
  <2>1. CASE ~ \E i \in Outs : OthersTamper(i)
    <3>1. \A i \in Outs : entry'[i] = "own" <=> entry[i] = "own"
      BY <1>9, <2>1 DEF OtherPrograms, OthersTake, OthersFree
    <3>2. UNCHANGED tampered
      BY <1>9, <2>1 DEF OtherPrograms, OthersTake, OthersFree
    <3>3. QED
      BY <1>9, <3>1, <3>2 DEF OtherPrograms
  <2>2. CASE \E i \in Outs : OthersTamper(i)
    <3>1. PICK i \in Outs : OthersTamper(i)
      BY <2>2
    <3>2. i \in Visible /\ Visible' = Visible \ {i}
      BY <3>1 DEF OthersTamper
    <3>3. tampered' = TRUE
      BY <3>1 DEF OthersTamper
    <3>4. QED
      BY <1>9, <3>2, <3>3 DEF OtherPrograms, Promise!AbsNext, Promise!Disturb
  <2>3. QED
    BY <2>1, <2>2
<1>10. CASE Close
  <2>1. CASE UNCHANGED <<late, outcome>>
    BY <1>10, <2>1 DEF Close
  <2>2. CASE N = 1 /\ outcome' = "failed" /\ late' = TRUE
    <3>1. kept = N
      BY <1>10, <2>2 DEF Close, ControlInv
    <3>2. Visible = 1..N \/ tampered
      BY <1>10, <3>1 DEF Close, PlacedInv, Ending
    <3>3. QED
      BY <1>10, <2>2, <3>2 DEF Close, Promise!AbsNext, Promise!FailLate
  <2>3. QED
    BY <1>10, <2>1, <2>2 DEF Close
<1>11. CASE WithdrawCheck \/ RollbackCheck
  <2>1. CASE UNCHANGED ioError
    BY <1>11, <2>1 DEF WithdrawCheck, RollbackCheck
  <2>2. CASE ioError' = TRUE
    BY <1>11, <2>2 DEF WithdrawCheck, RollbackCheck, Promise!AbsNext, Promise!Refuse
  <2>3. QED
    BY <1>11, <2>1, <2>2 DEF WithdrawCheck, RollbackCheck
<1>12. QED
  BY <1>1, <1>2, <1>3, <1>4, <1>5, <1>6, <1>7, <1>8, <1>9, <1>10, <1>11
     DEF Next, Supervisor, Publish, Undo

(* Whatever the number of outputs, a job seen from outside behaves as      *)
(* OutputSet: all of its files, or none, or a prefix of them after a crash; *)
(* what a failure with files left may be, OutputSet says.                   *)
THEOREM PublicationImplementsPromise == Spec => KeepsPromise
<1>1. IInv /\ [Next]_vars => [Promise!AbsNext]_Promise!absVars
  BY StepPromise
<1>2. QED
  BY Invariance, InitPromise, <1>1, PTL DEF Spec, KeepsPromise, Promise!AbsSpec

-----------------------------------------------------------------------------
(* The budget of the drawers (RenderMemory), for any finite number of them  *)
(* and any room.  A drawer that waits was told nothing; the broker          *)
(* remembers every living drawer it has said yes to, until it ends, and     *)
(* says yes no more from then on.                                           *)

BrokerServes == broker \in {"listening", "sweeping", "creating", "created"}

\* The living drawers that were given a budget.
Answered == {w \in Drawers : Budgets!Living(w) /\ told[w] = "yes"}

BudgetTypes ==
  /\ stage \in [Drawers -> {"asking", "verifying", "working", "idle", "ended"}]
  /\ told \in [Drawers -> {"nothing", "yes", "no", "closed"}]
  /\ scope \in [Drawers -> {"none", "asked", "enforced", "stopped"}]
  /\ backlog \in Seq(Drawers)
  /\ peer \in Drawers \cup {NoDrawer}
  /\ broker \in {"listening", "sweeping", "creating", "created", "stopping", "ended", "killed"}
  /\ active \in SUBSET Drawers

\* Who waits for the broker waits once, and was told nothing.
WaitingInv ==
  /\ \A i, j \in 1 .. Len(backlog) : backlog[i] = backlog[j] => i = j
  /\ \A i \in 1 .. Len(backlog) : backlog[i] # peer
  /\ \A w \in Drawers : Budgets!Closed(w) => told[w] = "nothing" /\ stage[w] \in {"asking", "ended"}
  /\ \A w \in Drawers : stage[w] = "idle" => told[w] = "nothing" /\ ~Budgets!Closed(w)
  /\ peer # NoDrawer <=> broker \in {"sweeping", "creating", "created"}

\* Who draws was told yes and is limited.
DrawingInv ==
  /\ \A w \in Drawers : stage[w] \in {"verifying", "working"} => told[w] = "yes"
  /\ \A w \in Drawers : stage[w] = "working" => scope[w] \in {"enforced", "stopped"}

\* The room.
RoomInv ==
  /\ \A w \in active : told[w] = "yes"
  /\ BrokerServes => Answered \subseteq active /\ Cardinality(active) <= MaxActive
  /\ broker \in {"creating", "created"} => Cardinality(active) < MaxActive
  /\ Cardinality(Answered) <= MaxActive

RefusedInv == \A w \in DOMAIN fullWith : Cardinality(fullWith[w]) >= MaxActive

BudgetInv == BudgetTypes /\ WaitingInv /\ DrawingInv /\ RoomInv /\ RefusedInv

LEMMA SameCount == \A S : Budgets!Cardinality(S) = Cardinality(S)
BY DEF Budgets!Cardinality, Cardinality

LEMMA FewerDrawers ==
  ASSUME NEW S, NEW T, S \subseteq T, T \subseteq Drawers
  PROVE  Cardinality(S) \in Nat /\ Cardinality(T) \in Nat /\ Cardinality(S) <= Cardinality(T)
<1>1. IsFiniteSet(T)
  BY BudgetsAssumption, FS_Subset
<1> QED
  BY <1>1, FS_Subset, FS_CardinalityType

LEMMA BudgetStarts == FilesInit => BudgetInv
<1> SUFFICES ASSUME FilesInit PROVE BudgetInv
  OBVIOUS
<1> USE DEF FilesInit, Budgets!BudgetInit
<1>1. BudgetTypes /\ WaitingInv /\ DrawingInv /\ RefusedInv
  BY BudgetsAssumption DEF BudgetTypes, WaitingInv, DrawingInv, RefusedInv, Budgets!Closed
<1>2. Answered = {} /\ active = {} /\ Cardinality({}) = 0
  BY FS_EmptySet DEF Answered
<1>3. RoomInv
  BY <1>2, BudgetsAssumption DEF RoomInv
<1> QED
  BY <1>1, <1>3 DEF BudgetInv

\* Steps that neither the queue nor the answers notice.
LEMMA NobodyJoins ==
  ASSUME BudgetInv, UNCHANGED <<told, backlog, peer, broker, active, fullWith>>,
         NEW w \in Drawers, NEW s \in {"verifying", "working", "ended"}, stage' = [stage EXCEPT ![w] = s],
         Budgets!Living(w), s # "ended" => told[w] = "yes",
         UNCHANGED scope, s = "working" => scope[w] \in {"enforced", "stopped"}
  PROVE  BudgetInv'
<1> USE DEF BudgetInv
<1>1. stage' \in [Drawers -> {"asking", "verifying", "working", "idle", "ended"}]
  BY DEF BudgetTypes
<1>2. \A x \in Drawers : stage'[x] = IF x = w THEN s ELSE stage[x]
  BY DEF BudgetTypes
<1>3. BudgetTypes' /\ RefusedInv'
  BY <1>1 DEF BudgetTypes, RefusedInv
<1>4. \A x \in Drawers : Budgets!Closed(x)' <=> Budgets!Closed(x)
  BY DEF Budgets!Closed
<1>5. WaitingInv'
  <2>1. \A x \in Drawers : Budgets!Closed(x) => told[x] = "nothing" /\ stage'[x] \in {"asking", "ended"}
    BY <1>2 DEF WaitingInv
  <2>2. \A x \in Drawers : stage'[x] = "idle" => told[x] = "nothing" /\ ~Budgets!Closed(x)
    BY <1>2 DEF WaitingInv
  <2> QED
    BY <1>4, <2>1, <2>2 DEF WaitingInv
<1>6. DrawingInv'
  BY <1>2 DEF DrawingInv
<1>7. Answered' \subseteq Answered
  BY <1>2 DEF Answered, Budgets!Living, Budgets!LivingStages
<1>8. Cardinality(Answered') \in Nat /\ Cardinality(Answered) \in Nat /\ Cardinality(Answered') <= Cardinality(Answered)
  BY <1>7, FewerDrawers DEF Answered
<1>9. RoomInv'
  BY <1>7, <1>8, BudgetsAssumption DEF RoomInv, BrokerServes
<1> QED
  BY <1>3, <1>5, <1>6, <1>9

LEMMA DrawersStep ==
  ASSUME BudgetInv, NEW w \in Drawers,
         Budgets!ReadAnswer(w) \/ Budgets!Verify(w) \/ Budgets!End(w) \/ Budgets!KillStopped(w)
  PROVE  BudgetInv'
<1>1. CASE Budgets!ReadAnswer(w)
  <2> DEFINE s == IF told[w] = "yes" THEN "verifying" ELSE "ended"
  <2>1. stage' = [stage EXCEPT ![w] = s] /\ UNCHANGED <<told, scope, backlog, peer, broker, active, fullWith>>
    BY <1>1 DEF Budgets!ReadAnswer
  <2>2. s \in {"verifying", "working", "ended"} /\ (s # "ended" => told[w] = "yes") /\ s # "working"
    OBVIOUS
  <2>3. Budgets!Living(w)
    BY <1>1 DEF Budgets!ReadAnswer, Budgets!Living, Budgets!LivingStages
  <2> HIDE DEF s
  <2> QED
    BY <2>1, <2>2, <2>3, NobodyJoins
<1>2. CASE Budgets!Verify(w)
  <2>1. told[w] = "yes" /\ Budgets!Living(w)
    BY <1>2 DEF Budgets!Verify, BudgetInv, DrawingInv, Budgets!Living, Budgets!LivingStages
  <2> QED
    BY <1>2, <2>1, NobodyJoins DEF Budgets!Verify
<1>3. CASE Budgets!End(w) \/ Budgets!KillStopped(w)
  BY <1>3, NobodyJoins DEF Budgets!End, Budgets!KillStopped
<1> QED
  BY <1>1, <1>2, <1>3

LEMMA DrawerAsks ==
  ASSUME BudgetInv, NEW w \in Drawers, Budgets!Ask(w) PROVE BudgetInv'
<1> USE DEF BudgetInv
<1>1. /\ stage[w] = "idle" /\ told[w] = "nothing" /\ ~Budgets!Closed(w)
      /\ UNCHANGED <<told, scope, peer, broker, active, fullWith>>
  BY DEF Budgets!Ask, WaitingInv
<1>2. \/ stage' = [stage EXCEPT ![w] = "asking"] /\ backlog' = Append(backlog, w)
      \/ stage' = [stage EXCEPT ![w] = "ended"] /\ backlog' = backlog
  BY DEF Budgets!Ask
<1>3. \A x \in Drawers : x # w => stage'[x] = stage[x]
  BY <1>2 DEF BudgetTypes
<1>4. stage'[w] \in {"asking", "ended"} /\ stage' \in [Drawers -> {"asking", "verifying", "working", "idle", "ended"}]
  BY <1>2 DEF BudgetTypes
<1>5. backlog' \in Seq(Drawers)
  BY <1>2 DEF BudgetTypes
<1>6. \/ backlog' = backlog
      \/ /\ Len(backlog') = Len(backlog) + 1
         /\ \A i \in 1 .. Len(backlog) : backlog'[i] = backlog[i]
         /\ backlog'[Len(backlog) + 1] = w
  BY <1>2 DEF BudgetTypes
<1>7. \A x \in Drawers : Budgets!Closed(x)' => x = w \/ Budgets!Closed(x)
  BY <1>1, <1>5, <1>6 DEF Budgets!Closed, BudgetTypes
<1>8. BudgetTypes' /\ RefusedInv'
  BY <1>1, <1>4, <1>5 DEF BudgetTypes, RefusedInv
<1>9. WaitingInv'
  <2>0. w # peer /\ \A i \in 1 .. Len(backlog) : backlog[i] # w
    BY <1>1 DEF Budgets!Closed
  <2>1. \A i, j \in 1 .. Len(backlog') : backlog'[i] = backlog'[j] => i = j
    BY <1>5, <1>6, <2>0 DEF WaitingInv, BudgetTypes
  <2>2. \A i \in 1 .. Len(backlog') : backlog'[i] # peer
    BY <1>5, <1>6, <2>0 DEF WaitingInv, BudgetTypes
  <2>3. \A x \in Drawers : Budgets!Closed(x)' => told[x] = "nothing" /\ stage'[x] \in {"asking", "ended"}
    BY <1>1, <1>3, <1>4, <1>7 DEF WaitingInv
  <2>4. \A x \in Drawers : stage'[x] = "idle" => x # w /\ told[x] = "nothing" /\ ~Budgets!Closed(x)
    BY <1>1, <1>3, <1>4 DEF WaitingInv
  <2> QED
    BY <1>1, <1>7, <2>1, <2>2, <2>3, <2>4 DEF WaitingInv
<1>10. DrawingInv'
  BY <1>1, <1>3, <1>4 DEF DrawingInv
<1>11. Answered' \subseteq Answered
  BY <1>1, <1>3 DEF Answered, Budgets!Living, Budgets!LivingStages
<1>12. Cardinality(Answered') \in Nat /\ Cardinality(Answered) \in Nat /\ Cardinality(Answered') <= Cardinality(Answered)
  BY <1>11, FewerDrawers DEF Answered
<1>13. RoomInv'
  BY <1>1, <1>11, <1>12, BudgetsAssumption DEF RoomInv, BrokerServes
<1> QED
  BY <1>8, <1>9, <1>10, <1>13

\* A scope that changes without a drawer at work losing its limit.
LEMMA ScopeMoves ==
  ASSUME BudgetInv, UNCHANGED <<stage, told, backlog, peer, broker, active, fullWith>>,
         NEW w \in Drawers, NEW s \in {"asked", "enforced", "stopped"}, scope' = [scope EXCEPT ![w] = s],
         stage[w] # "working" \/ s # "asked"
  PROVE  BudgetInv'
<1> USE DEF BudgetInv
<1>1. BudgetTypes' /\ RefusedInv'
  BY DEF BudgetTypes, RefusedInv
<1>2. DrawingInv'
  BY DEF DrawingInv, BudgetTypes
<1>3. WaitingInv' /\ RoomInv'
  BY DEF WaitingInv, RoomInv, Budgets!Closed, Answered, Budgets!Living, BrokerServes
<1> QED
  BY <1>1, <1>2, <1>3

LEMMA BrokerAccepts ==
  ASSUME BudgetInv, Budgets!Accept PROVE BudgetInv'
<1> USE DEF BudgetInv
<1>1. /\ broker = "listening" /\ broker' = "sweeping" /\ backlog # <<>>
      /\ peer' = Head(backlog) /\ backlog' = Tail(backlog) /\ UNCHANGED <<stage, told, scope, active, fullWith>>
  BY DEF Budgets!Accept
<1>2. /\ peer' = backlog[1] /\ peer' \in Drawers /\ backlog' \in Seq(Drawers)
      /\ Len(backlog') = Len(backlog) - 1 /\ \A i \in 1 .. Len(backlog') : backlog'[i] = backlog[i + 1]
  BY <1>1 DEF BudgetTypes
<1>3. Len(backlog) \in Nat /\ 1 \in 1 .. Len(backlog)
      /\ \A i \in 1 .. Len(backlog') : i + 1 \in 1 .. Len(backlog)
  BY <1>1, <1>2 DEF BudgetTypes
<1>4. \A x \in Drawers : Budgets!Closed(x)' => Budgets!Closed(x)
  BY <1>2, <1>3 DEF Budgets!Closed
<1>5. BudgetTypes' /\ RefusedInv' /\ DrawingInv'
  BY <1>1, <1>2 DEF BudgetTypes, RefusedInv, DrawingInv
<1>6. WaitingInv'
  <2>1. ASSUME NEW i \in 1 .. Len(backlog'), NEW j \in 1 .. Len(backlog'), backlog'[i] = backlog'[j]
        PROVE  i = j
    <3>1. i + 1 \in 1 .. Len(backlog) /\ j + 1 \in 1 .. Len(backlog) /\ backlog[i + 1] = backlog[j + 1]
      BY <1>2, <1>3, <2>1
    <3>2. i + 1 = j + 1
      BY <3>1 DEF WaitingInv
    <3> QED
      BY <3>2
  <2>2. \A i \in 1 .. Len(backlog') : backlog'[i] # peer'
    BY <1>2, <1>3 DEF WaitingInv
  <2>3. peer' # NoDrawer
    BY <1>2, BudgetsAssumption
  <2> QED
    BY <1>1, <1>4, <2>1, <2>2, <2>3 DEF WaitingInv
<1>7. RoomInv'
  BY <1>1 DEF RoomInv, Answered, Budgets!Living, BrokerServes
<1> QED
  BY <1>5, <1>6, <1>7

\* The answer "no" to the one being served.
LEMMA PeerLeaves ==
  ASSUME BudgetInv, peer \in Drawers, NEW answer \in {"yes", "no"}, told' = [told EXCEPT ![peer] = answer],
         peer' = NoDrawer, broker' = "listening", UNCHANGED <<stage, backlog>>
  PROVE  WaitingInv' /\ told' \in [Drawers -> {"nothing", "yes", "no", "closed"}]
         /\ (\A w \in Drawers : w # peer => told'[w] = told[w])
         /\ (\A w \in Drawers : stage[w] \in {"verifying", "working"} => told'[w] = "yes")
<1> USE DEF BudgetInv
<1>1. \A w \in Drawers : told'[w] = IF w = peer THEN answer ELSE told[w]
  BY DEF BudgetTypes
<1>2. \A x \in Drawers : Budgets!Closed(x)' => Budgets!Closed(x) /\ x # peer
  BY BudgetsAssumption DEF Budgets!Closed, WaitingInv
<1>3. Budgets!Closed(peer)
  BY DEF Budgets!Closed
<1>4. stage[peer] \in {"asking", "ended"}
  BY <1>3 DEF WaitingInv
<1>5. WaitingInv'
  <2>1. \A i \in 1 .. Len(backlog) : backlog[i] # NoDrawer
    BY BudgetsAssumption DEF BudgetTypes
  <2>2. \A w \in Drawers : Budgets!Closed(w)' => told'[w] = "nothing" /\ stage'[w] \in {"asking", "ended"}
    BY <1>1, <1>2 DEF WaitingInv
  <2>3. \A w \in Drawers : stage'[w] = "idle" => told'[w] = "nothing" /\ ~Budgets!Closed(w)'
    BY <1>1, <1>2, <1>4 DEF WaitingInv
  <2> QED
    BY <2>1, <2>2, <2>3 DEF WaitingInv
<1>6. \A w \in Drawers : stage[w] \in {"verifying", "working"} => told'[w] = "yes"
  BY <1>1, <1>4 DEF DrawingInv
<1> QED
  BY <1>1, <1>5, <1>6 DEF BudgetTypes

LEMMA BrokerSweeps ==
  ASSUME BudgetInv, Budgets!Sweep PROVE BudgetInv'
<1> USE DEF BudgetInv
<1> DEFINE remembered == Budgets!Remembered
<1>1. broker = "sweeping" /\ peer \in Drawers /\ active' = remembered /\ UNCHANGED <<stage, scope, backlog>>
  BY DEF Budgets!Sweep, WaitingInv, BudgetTypes
<1>2. remembered \subseteq active /\ Answered \subseteq remembered /\ active \subseteq Drawers
  BY <1>1 DEF Budgets!Remembered, Answered, RoomInv, BrokerServes, BudgetTypes
<1>3. Cardinality(remembered) \in Nat /\ Cardinality(active) \in Nat /\ Cardinality(remembered) <= Cardinality(active)
  BY <1>2, FewerDrawers
<1>4. \A w \in remembered : told[w] = "yes" /\ Budgets!Living(w)
  BY DEF Budgets!Remembered, RoomInv
<1>5. told[peer] = "nothing" /\ peer \notin remembered
  BY <1>1, <1>4 DEF WaitingInv, Budgets!Closed
<1> HIDE DEF remembered
<1>6. CASE Cardinality(remembered) >= MaxActive
  <2> DEFINE counted == {x \in Drawers : Budgets!Living(x)} \ {peer}
  <2>1. /\ told' = [told EXCEPT ![peer] = "no"] /\ peer' = NoDrawer /\ broker' = "listening"
        /\ fullWith' = [w \in DOMAIN fullWith \cup {peer} |-> IF w = peer THEN counted ELSE fullWith[w]]
    BY <1>6, SameCount DEF Budgets!Sweep, remembered
  <2>2. WaitingInv' /\ told' \in [Drawers -> {"nothing", "yes", "no", "closed"}]
        /\ (\A w \in Drawers : w # peer => told'[w] = told[w])
        /\ (\A w \in Drawers : stage[w] \in {"verifying", "working"} => told'[w] = "yes")
    BY <1>1, <2>1, PeerLeaves
  <2>3. remembered \subseteq counted /\ counted \subseteq Drawers
    BY <1>2, <1>4, <1>5
  <2>4. Cardinality(counted) \in Nat /\ Cardinality(remembered) <= Cardinality(counted)
    BY <2>3, FewerDrawers
  <2>5. Cardinality(counted) >= MaxActive
    BY <1>3, <1>6, <2>4, BudgetsAssumption
  <2>6. RefusedInv'
    <3> HIDE DEF counted
    <3>1. \A w \in DOMAIN fullWith' : w = peer \/ w \in DOMAIN fullWith
      BY <2>1
    <3>2. fullWith'[peer] = counted /\ \A w \in DOMAIN fullWith : w # peer => fullWith'[w] = fullWith[w]
      BY <2>1
    <3> QED
      BY <2>5, <3>1, <3>2 DEF RefusedInv
  <2>7. BudgetTypes' /\ DrawingInv'
    BY <1>1, <1>2, <2>1, <2>2 DEF BudgetTypes, DrawingInv
  <2>8. told'[peer] = "no"
    BY <1>1, <2>1 DEF BudgetTypes
  <2>9. Answered' = Answered
    BY <1>1, <1>5, <2>2, <2>8 DEF Answered, Budgets!Living
  <2>10. RoomInv'
    BY <1>1, <1>2, <1>3, <1>4, <1>5, <2>1, <2>2, <2>9, BudgetsAssumption DEF RoomInv, BrokerServes
  <2> QED
    BY <2>2, <2>6, <2>7, <2>10
<1>7. CASE ~(Cardinality(remembered) >= MaxActive)
  <2>1. broker' = "creating" /\ UNCHANGED <<told, fullWith, peer>>
    BY <1>7, SameCount DEF Budgets!Sweep, remembered
  <2>2. BudgetTypes' /\ DrawingInv' /\ RefusedInv' /\ WaitingInv'
    BY <1>1, <1>2, <2>1 DEF BudgetTypes, DrawingInv, RefusedInv, WaitingInv, Budgets!Closed
  <2>3. Answered' = Answered
    BY <1>1, <2>1 DEF Answered, Budgets!Living
  <2>4. RoomInv'
    BY <1>1, <1>2, <1>3, <1>4, <1>7, <2>1, <2>3, BudgetsAssumption DEF RoomInv, BrokerServes
  <2> QED
    BY <2>2, <2>4
<1> QED
  BY <1>6, <1>7

LEMMA BrokerCreates ==
  ASSUME BudgetInv, Budgets!Create PROVE BudgetInv'
<1> USE DEF BudgetInv
<1>1. broker = "creating" /\ peer \in Drawers /\ UNCHANGED <<stage, backlog, active, fullWith>>
  BY DEF Budgets!Create, WaitingInv, BudgetTypes
<1>2. told[peer] = "nothing" /\ stage[peer] \in {"asking", "ended"}
  BY <1>1 DEF WaitingInv, Budgets!Closed
<1>3. scope' = scope \/ scope' = [scope EXCEPT ![peer] = "asked"]
  BY DEF Budgets!Create
<1>4. scope' \in [Drawers -> {"none", "asked", "enforced", "stopped"}]
      /\ \A w \in Drawers : w # peer => scope'[w] = scope[w]
  BY <1>3 DEF BudgetTypes
<1>5. CASE broker' = "created" /\ UNCHANGED <<told, peer>>
  <2>1. BudgetTypes' /\ RefusedInv' /\ WaitingInv'
    BY <1>1, <1>4, <1>5 DEF BudgetTypes, RefusedInv, WaitingInv, Budgets!Closed
  <2>2. DrawingInv'
    BY <1>1, <1>2, <1>4, <1>5 DEF DrawingInv
  <2>3. RoomInv'
    BY <1>1, <1>5 DEF RoomInv, BrokerServes, Answered, Budgets!Living
  <2> QED
    BY <2>1, <2>2, <2>3
<1>6. CASE told' = [told EXCEPT ![peer] = "no"] /\ broker' = "listening" /\ peer' = NoDrawer
  <2>1. WaitingInv' /\ told' \in [Drawers -> {"nothing", "yes", "no", "closed"}]
        /\ (\A w \in Drawers : w # peer => told'[w] = told[w])
        /\ (\A w \in Drawers : stage[w] \in {"verifying", "working"} => told'[w] = "yes")
    BY <1>1, <1>6, PeerLeaves
  <2>2. BudgetTypes' /\ RefusedInv'
    BY <1>1, <1>4, <1>6, <2>1 DEF BudgetTypes, RefusedInv
  <2>3. DrawingInv'
    BY <1>1, <1>2, <1>4, <2>1 DEF DrawingInv
  <2>4. told'[peer] = "no"
    BY <1>1, <1>6 DEF BudgetTypes
  <2>5. Answered' = Answered
    BY <1>1, <1>2, <2>1, <2>4 DEF Answered, Budgets!Living
  <2>6. RoomInv'
    BY <1>1, <1>2, <1>6, <2>1, <2>5 DEF RoomInv, BrokerServes, BudgetTypes
  <2> QED
    BY <2>1, <2>2, <2>3, <2>6
<1> QED
  BY <1>5, <1>6 DEF Budgets!Create

LEMMA BrokerRecords ==
  ASSUME BudgetInv, Budgets!Record PROVE BudgetInv'
<1> USE DEF BudgetInv
<1>1. /\ broker = "created" /\ peer \in Drawers /\ UNCHANGED <<stage, scope, backlog, fullWith>>
      /\ active' = active \cup {peer} /\ told' = [told EXCEPT ![peer] = "yes"]
      /\ peer' = NoDrawer /\ broker' = "listening"
  BY DEF Budgets!Record, WaitingInv, BudgetTypes
<1>2. told[peer] = "nothing" /\ peer \notin active /\ active \subseteq Drawers
  BY <1>1 DEF WaitingInv, Budgets!Closed, RoomInv, BudgetTypes
<1>3. WaitingInv' /\ told' \in [Drawers -> {"nothing", "yes", "no", "closed"}]
      /\ (\A w \in Drawers : w # peer => told'[w] = told[w])
      /\ (\A w \in Drawers : stage[w] \in {"verifying", "working"} => told'[w] = "yes")
  BY <1>1, PeerLeaves
<1>4. BudgetTypes' /\ RefusedInv' /\ DrawingInv'
  BY <1>1, <1>2, <1>3 DEF BudgetTypes, RefusedInv, DrawingInv
<1>5. told'[peer] = "yes"
  BY <1>1 DEF BudgetTypes
<1>6. IsFiniteSet(active)
  BY <1>2, BudgetsAssumption, FS_Subset
<1>7. Cardinality(active') = Cardinality(active) + 1 /\ Cardinality(active) \in Nat
  BY <1>1, <1>2, <1>6, FS_AddElement, FS_CardinalityType
<1>8. Answered' \subseteq active' /\ active' \subseteq Drawers
  BY <1>1, <1>2, <1>3 DEF Answered, Budgets!Living, RoomInv, BrokerServes
<1>9. Cardinality(Answered') \in Nat /\ Cardinality(active') \in Nat /\ Cardinality(Answered') <= Cardinality(active')
  BY <1>8, FewerDrawers
<1>10. Cardinality(active') <= MaxActive
  BY <1>1, <1>7, BudgetsAssumption DEF RoomInv
<1>11. \A w \in active' : told'[w] = "yes"
  BY <1>1, <1>2, <1>3, <1>5 DEF RoomInv
<1>12. RoomInv'
  BY <1>1, <1>8, <1>9, <1>10, <1>11, BudgetsAssumption DEF RoomInv
<1> QED
  BY <1>3, <1>4, <1>12

\* The broker ends; nothing more is answered.
LEMMA BrokerStops ==
  ASSUME BudgetInv, Budgets!Terminate \/ Budgets!Killed PROVE BudgetInv'
<1> USE DEF BudgetInv
<1>1. /\ broker' \in {"stopping", "killed"} /\ backlog' = <<>> /\ peer' = NoDrawer
      /\ told' = [w \in Drawers |-> IF Budgets!Closed(w) THEN "closed" ELSE told[w]]
      /\ UNCHANGED <<stage, scope, active, fullWith>>
  BY DEF Budgets!Terminate, Budgets!Killed
<1>2. \A w \in Drawers : ~Budgets!Closed(w)'
  BY <1>1, BudgetsAssumption DEF Budgets!Closed
<1>3. \A w \in Drawers : told[w] # "nothing" => told'[w] = told[w]
  BY <1>1 DEF WaitingInv
<1>4. \A w \in Drawers : stage[w] = "idle" => told'[w] = "nothing"
  BY <1>1 DEF WaitingInv
<1>5. told' \in [Drawers -> {"nothing", "yes", "no", "closed"}]
  BY <1>1 DEF BudgetTypes
<1>6. BudgetTypes' /\ RefusedInv'
  BY <1>1, <1>5 DEF BudgetTypes, RefusedInv
<1>7. WaitingInv'
  BY <1>1, <1>2, <1>4 DEF WaitingInv
<1>8. DrawingInv'
  BY <1>1, <1>3 DEF DrawingInv
<1>9. Answered' = Answered
  <2>1. \A w \in Drawers : told'[w] = "yes" <=> told[w] = "yes"
    BY <1>1, <1>3 DEF BudgetTypes
  <2> QED
    BY <1>1, <2>1 DEF Answered, Budgets!Living
<1>10. RoomInv'
  BY <1>1, <1>3, <1>9 DEF RoomInv, BrokerServes, BudgetTypes
<1> QED
  BY <1>6, <1>7, <1>8, <1>10

LEMMA BrokerLeaves ==
  ASSUME BudgetInv, Budgets!StopOne \/ Budgets!Leave PROVE BudgetInv'
<1> USE DEF BudgetInv
<1>1. broker = "stopping" /\ broker' \in {"stopping", "ended"} /\ UNCHANGED <<stage, told, backlog, peer, fullWith>>
      /\ active' \subseteq active
  BY DEF Budgets!StopOne, Budgets!Leave
<1>2. scope' = scope \/ \E w \in active : scope' = [scope EXCEPT ![w] = "stopped"]
  BY DEF Budgets!StopOne, Budgets!Leave
<1>3. scope' \in [Drawers -> {"none", "asked", "enforced", "stopped"}]
      /\ \A w \in Drawers : scope'[w] = scope[w] \/ scope'[w] = "stopped"
  BY <1>2 DEF BudgetTypes
<1>4. BudgetTypes' /\ RefusedInv' /\ WaitingInv'
  BY <1>1, <1>3 DEF BudgetTypes, RefusedInv, WaitingInv, Budgets!Closed
<1>5. DrawingInv'
  BY <1>1, <1>3 DEF DrawingInv
<1>6. RoomInv'
  BY <1>1 DEF RoomInv, BrokerServes, Answered, Budgets!Living
<1> QED
  BY <1>4, <1>5, <1>6

LEMMA BudgetSteps == BudgetInv /\ [Budgets!BudgetNext]_budgetVars => BudgetInv'
<1> SUFFICES ASSUME BudgetInv, [Budgets!BudgetNext]_budgetVars PROVE BudgetInv'
  OBVIOUS
<1>1. ASSUME NEW w \in Drawers, Budgets!Migrate(w) PROVE BudgetInv'
  <2>1. stage[w] # "working" \/ "enforced" # "asked"
    OBVIOUS
  <2> QED
    BY <1>1, <2>1, ScopeMoves DEF Budgets!Migrate
<1>2. CASE UNCHANGED budgetVars
  BY <1>2 DEF budgetVars, BudgetInv, BudgetTypes, WaitingInv, DrawingInv, RoomInv, RefusedInv, Answered,
              BrokerServes, Budgets!Closed, Budgets!Living
<1> QED
  BY <1>1, <1>2, DrawersStep, DrawerAsks, BrokerAccepts, BrokerSweeps, BrokerCreates, BrokerRecords,
     BrokerStops, BrokerLeaves DEF Budgets!BudgetNext

(* Whatever the number of drawers, the room and the moment at which a       *)
(* drawer or the broker ends: nothing is drawn without a limit, no more     *)
(* than the room are given a budget, and none is refused on account of one  *)
(* that has ended (render_memory_broker._register_peer, _create_scope,      *)
(* request_render_budget, verify_render_budget).                            *)
THEOREM BudgetOrNothingHolds == FilesSpec => []BudgetOrNothing
<1>1. BudgetInv /\ [FilesNext]_allVars => BudgetInv'
  <2>1. [FilesNext]_allVars => [Budgets!BudgetNext]_budgetVars
    BY DEF FilesNext, allVars
  <2> QED
    BY <2>1, BudgetSteps
<1>2. BudgetInv => BudgetOrNothing
  <2> SUFFICES ASSUME BudgetInv PROVE BudgetOrNothing
    OBVIOUS
  <2>1. Budgets!WorksUnderItsBudget
    BY DEF BudgetInv, DrawingInv, Budgets!WorksUnderItsBudget
  <2>2. Budgets!RefusedOnlyWhenFull
    BY SameCount DEF BudgetInv, RefusedInv, Budgets!RefusedOnlyWhenFull
  <2>3. Budgets!NeverMoreThanTheRoom
    BY SameCount DEF BudgetInv, RoomInv, Answered, Budgets!NeverMoreThanTheRoom
  <2> QED
    BY <2>1, <2>2, <2>3 DEF BudgetOrNothing, Budgets!BudgetOrNothing
<1> QED
  BY <1>1, <1>2, BudgetStarts, PTL DEF FilesSpec
-----------------------------------------------------------------------------
(* Sequences and division.                                                 *)

LEMMA LengthIs ==
  ASSUME NEW n \in Nat, NEW f, DOMAIN f = 1 .. n, f = [i \in 1 .. n |-> f[i]]
  PROVE  Len(f) = n
<1> DEFINE S == {f[i] : i \in 1 .. n}
<1>1. f \in [1 .. n -> S]
  OBVIOUS
<1>2. f \in Seq(S)
  BY <1>1
<1>3. DOMAIN f = 1 .. Len(f) /\ Len(f) \in Nat
  BY <1>2, LenProperties
<1> HIDE DEF S
<1> QED
  BY <1>3
-----------------------------------------------------------------------------
(* The pixels of an area (VerifiedCopies): where it is drawn, with a       *)
(* margin, and where it is looked for.                                     *)

LEMMA DivisionIs ==
  ASSUME NEW n \in Nat, NEW d \in Nat \ {0}
  PROVE  n \div d \in Nat /\ d * (n \div d) <= n /\ n < d * (n \div d) + d
OBVIOUS

LEMMA FloorIs ==
  ASSUME NEW n \in Nat, NEW d \in Nat \ {0}, NEW q, q = Copies!Floor(n, d)
  PROVE  q \in Nat /\ d * q <= n /\ n < d * q + d
BY DivisionIs DEF Copies!Floor

LEMMA CeilIs ==
  ASSUME NEW n \in Nat, NEW d \in Nat \ {0}, NEW c, c = Copies!Ceil(n, d)
  PROVE  /\ c \in Nat /\ n <= d * c /\ d * c < n + d /\ (n > 0 => c > 0)
<1>1. n + d - 1 \in Nat
  OBVIOUS
<1>2. c \in Nat /\ d * c <= n + d - 1 /\ n + d - 1 < d * c + d
  BY <1>1, DivisionIs DEF Copies!Ceil
<1>3. n > 0 => c > 0
  <2> SUFFICES ASSUME c = 0 PROVE n <= 0
    BY <1>2
  <2>1. d * c = 0
    OBVIOUS
  <2> QED
    BY <1>2, <2>1
<1> QED
  BY <1>2, <1>3

LEMMA TimesGrows ==
  ASSUME NEW d \in Nat, NEW i \in Int, NEW j \in Int, i <= j
  PROVE  d * i <= d * j
OBVIOUS

\* The pixels that an area from x to y touches, on a page of d.
LEMMA TouchedIs ==
  ASSUME NEW d \in Nat \ {0}, NEW x \in Nat, NEW y \in Nat, NEW i \in Nat
  PROVE  (i * d > x /\ (i - 1) * d < y) <=> i \in Copies!Floor(x, d) + 1 .. Copies!Ceil(y, d)
<1> DEFINE q == Copies!Floor(x, d)
           c == Copies!Ceil(y, d)
<1>1. q \in Nat /\ d * q <= x /\ x < d * q + d
  BY FloorIs
<1>2. c \in Nat /\ y <= d * c /\ d * c < y + d
  BY CeilIs
<1> HIDE DEF q, c
<1>3. ASSUME i >= q + 1 PROVE d * i > x
  <2>1. d * (q + 1) <= d * i
    BY <1>1, <1>3, TimesGrows
  <2>2. d * (q + 1) = d * q + d
    BY <1>1
  <2>3. d * i \in Nat /\ d * q \in Nat
    BY <1>1
  <2> QED
    BY <1>1, <2>1, <2>2, <2>3
<1>4. ASSUME i <= q PROVE ~(d * i > x)
  <2>1. d * i <= d * q
    BY <1>1, <1>4, TimesGrows
  <2>2. d * i \in Nat /\ d * q \in Nat
    BY <1>1
  <2> QED
    BY <1>1, <2>1, <2>2
<1>5. ASSUME i <= c PROVE d * (i - 1) < y
  <2>1. d * (i - 1) <= d * (c - 1)
    <3>1. i - 1 \in Int /\ c - 1 \in Int /\ i - 1 <= c - 1
      BY <1>2, <1>5
    <3> QED
      BY <3>1, TimesGrows
  <2>2. d * (c - 1) = d * c - d
    BY <1>2
  <2>3. d * (i - 1) \in Int /\ d * c \in Nat
    BY <1>2
  <2> QED
    BY <1>2, <2>1, <2>2, <2>3
<1>6. ASSUME i >= c + 1 PROVE ~(d * (i - 1) < y)
  <2>1. d * c <= d * (i - 1)
    <3>1. i - 1 \in Int /\ c <= i - 1
      BY <1>2, <1>6
    <3> QED
      BY <1>2, <3>1, TimesGrows
  <2>2. d * (i - 1) \in Int /\ d * c \in Nat
    BY <1>2
  <2> QED
    BY <1>2, <2>1, <2>2
<1>7. i * d = d * i /\ (i - 1) * d = d * (i - 1)
  OBVIOUS
<1>8. (i * d > x /\ (i - 1) * d < y) <=> (i >= q + 1 /\ i <= c)
  BY <1>1, <1>2, <1>3, <1>4, <1>5, <1>6, <1>7
<1> QED
  BY <1>1, <1>2, <1>8 DEF q, c

\* Where the last pixel of the areas was blackened, with the margin, though it was taken for
\* another scale, no area was taken for a place more than a pixel away from its own.
LEMMA NearEnough ==
  ASSUME NEW d \in Nat \ {0}, NEW u \in Nat \ {0}, NEW x \in Nat, NEW y \in Nat, x < y,
         Copies!Ceil(u * y, d) <= Copies!Ceil(y, d) + 1
  PROVE  Copies!Floor(u * x, d) <= Copies!Floor(x, d) + 1
<1> DEFINE c == Copies!Ceil(y, d)
           e == Copies!Ceil(u * y, d)
           q == Copies!Floor(x, d)
           p == Copies!Floor(u * x, d)
<1>1. u * y \in Nat /\ u * x \in Nat
  OBVIOUS
<1>2. c \in Nat /\ y <= d * c /\ d * c < y + d /\ c > 0
  BY CeilIs
<1>3. e \in Nat /\ u * y <= d * e
  BY <1>1, CeilIs
<1>4. q \in Nat /\ d * q <= x /\ x < d * q + d
  BY FloorIs
<1>5. p \in Nat /\ d * p <= u * x
  BY <1>1, FloorIs
<1>6. e <= c + 1
  OBVIOUS
<1> HIDE DEF c, e, q, p
<1>7. u * y <= d * c + d
  <2>1. d * e <= d * (c + 1)
    BY <1>2, <1>3, <1>6, TimesGrows
  <2>2. d * (c + 1) = d * c + d
    BY <1>2
  <2>3. d * e \in Nat /\ d * c \in Nat
    BY <1>2, <1>3
  <2> QED
    BY <1>1, <1>3, <2>1, <2>2, <2>3
<1>8. u * x < u * y
  <2>1. u * (x + 1) <= u * y
    BY TimesGrows
  <2>2. u * (x + 1) = u * x + u
    OBVIOUS
  <2> QED
    BY <1>1, <2>1, <2>2
<1>9. d * p < d * c + d
  BY <1>1, <1>2, <1>5, <1>7, <1>8
<1>10. p < c + 1
  <2> SUFFICES ASSUME p >= c + 1 PROVE FALSE
    BY <1>2, <1>5
  <2>1. d * (c + 1) <= d * p
    BY <1>2, <1>5, TimesGrows
  <2>2. d * (c + 1) = d * c + d
    BY <1>2
  <2>3. d * p \in Nat /\ d * c \in Nat
    BY <1>2, <1>5
  <2> QED
    BY <1>9, <2>1, <2>2, <2>3
<1>11. CASE u = 1
  <2>1. u * x = x
    BY <1>11
  <2> QED
    BY <1>4, <2>1 DEF q, p
<1>12. CASE u # 1 /\ c = 1
  BY <1>4, <1>5, <1>10, <1>12 DEF q, p
<1>13. CASE u # 1 /\ c = 2
  <2>1. CASE x >= d
    <3>1. q >= 1
      <4> SUFFICES ASSUME q = 0 PROVE FALSE
        BY <1>4
      <4>1. d * q = 0
        OBVIOUS
      <4> QED
        BY <1>4, <2>1, <4>1
    <3> QED
      BY <1>4, <1>5, <1>10, <1>13, <3>1 DEF q, p
  <2>2. CASE x < d
    <3>1. d * c = 2 * d
      BY <1>13
    <3>2. y > d /\ u * y <= 3 * d
      BY <1>1, <1>2, <1>7, <3>1
    <3>3. u = 2
      <4> SUFFICES ASSUME u >= 3 PROVE FALSE
        BY <1>13
      <4>1. y * 3 <= y * u
        BY TimesGrows
      <4>2. y * u = u * y
        OBVIOUS
      <4> QED
        BY <1>1, <3>2, <4>1, <4>2
    <3>4. u * x < 2 * d
      BY <2>2, <3>3
    <3>5. p < 2
      <4> SUFFICES ASSUME p >= 2 PROVE FALSE
        BY <1>5
      <4>1. d * 2 <= d * p
        BY <1>5, TimesGrows
      <4>2. d * p \in Nat
        BY <1>5
      <4> QED
        BY <1>1, <1>5, <3>4, <4>1, <4>2
    <3> QED
      BY <1>4, <1>5, <3>5 DEF q, p
  <2> QED
    BY <2>1, <2>2
<1>14. CASE u # 1 /\ c >= 3
  <2>1. y * 2 <= y * u
    <3>1. 2 <= u
      BY <1>14
    <3> QED
      BY <3>1, TimesGrows
  <2>2. y * u = u * y
    OBVIOUS
  <2>3. d * 3 <= d * c
    BY <1>2, <1>14, TimesGrows
  <2>4. d * c \in Nat
    BY <1>2
  <2> QED
    BY <1>1, <1>2, <1>7, <2>1, <2>2, <2>3, <2>4
<1> QED
  BY <1>2, <1>11, <1>12, <1>13, <1>14
LEMMA CeilGrows ==
  ASSUME NEW d \in Nat \ {0}, NEW k \in Nat, NEW n \in Nat, k <= n
  PROVE  Copies!Ceil(k, d) <= Copies!Ceil(n, d)
<1> DEFINE b == Copies!Ceil(k, d)
           c == Copies!Ceil(n, d)
<1>1. b \in Nat /\ d * b < k + d
  BY CeilIs
<1>2. c \in Nat /\ n <= d * c
  BY CeilIs
<1> HIDE DEF b, c
<1>3. SUFFICES ASSUME b >= c + 1 PROVE FALSE
  BY <1>1, <1>2 DEF b, c
<1>4. d * (c + 1) <= d * b
  BY <1>1, <1>2, <1>3, TimesGrows
<1>5. d * (c + 1) = d * c + d
  BY <1>2
<1>6. d * b \in Nat /\ d * c \in Nat
  BY <1>1, <1>2
<1> QED
  BY <1>1, <1>2, <1>4, <1>5, <1>6

LEMMA TimesGrowsToo ==
  ASSUME NEW u \in Nat \ {0}, NEW x \in Nat, NEW y \in Nat
  PROVE  u * x \in Nat /\ u * y \in Nat /\ (x < y => u * x < u * y) /\ (x <= y => u * x <= u * y) /\ x <= u * x
<1>1. ASSUME x < y PROVE u * x < u * y
  <2>1. u * (x + 1) <= u * y
    BY <1>1, TimesGrows
  <2>2. u * (x + 1) = u * x + u
    OBVIOUS
  <2> QED
    BY <2>1, <2>2
<1>2. x * 1 <= x * u
  BY TimesGrows
<1>3. x * u = u * x
  OBVIOUS
<1>4. u * x \in Nat /\ u * y \in Nat
  OBVIOUS
<1>5. x <= y => u * x <= u * y
  BY TimesGrows
<1> QED
  BY <1>1, <1>2, <1>3, <1>4, <1>5

\* What is black, with the margin, is at most two pixels away from the area.
LEMMA CloseBy ==
  ASSUME NEW d \in Nat \ {0}, NEW u \in Nat \ {0}, NEW v, v \in {1, u}, NEW x \in Nat, NEW y \in Nat, x < y,
         Copies!Floor(u * x, d) <= Copies!Floor(v * x, d) + 1,
         NEW i \in Nat, i >= 1, i >= Copies!Floor(v * x, d), i <= Copies!Ceil(v * y, d) + 1
  PROVE  \E j \in (IF i > 2 THEN i - 2 ELSE 1) .. i + 2 :
           j \in Copies!Floor(u * x, d) + 1 .. Copies!Ceil(u * y, d)
<1> DEFINE s == Copies!Floor(u * x, d)
           e == Copies!Ceil(u * y, d)
<1>0. v \in Nat \ {0} /\ u * x \in Nat /\ u * y \in Nat /\ u * x < u * y
  BY TimesGrowsToo
<1>1. s \in Nat /\ d * s <= u * x
  BY <1>0, FloorIs
<1>2. e \in Nat /\ u * y <= d * e
  BY <1>0, CeilIs
<1>3. s < e
  <2> HIDE DEF s, e
  <2> SUFFICES ASSUME e <= s PROVE FALSE
    BY <1>1, <1>2
  <2>1. d * e <= d * s
    BY <1>1, <1>2, TimesGrows
  <2>2. d * e \in Nat /\ d * s \in Nat
    BY <1>1, <1>2
  <2> QED
    BY <1>0, <1>1, <1>2, <2>1, <2>2
<1>4. Copies!Floor(v * x, d) \in Nat
  <2>1. v * x \in Nat
    BY <1>0
  <2> QED
    BY <2>1, FloorIs
<1>5. s <= i + 1
  BY <1>1, <1>4
<1>6. Copies!Ceil(v * y, d) <= e
  <2>1. CASE v = u
    BY <1>2, <2>1
  <2>2. CASE v = 1
    <3>1. v * y = y /\ y <= u * y
      BY <2>2, TimesGrowsToo
    <3> QED
      BY <1>0, <3>1, CeilGrows
  <2> QED
    BY <2>1, <2>2
<1>7. Copies!Ceil(v * y, d) \in Nat
  <2>1. v * y \in Nat
    BY <1>0
  <2> QED
    BY <2>1, CeilIs
<1>8. i <= e + 1
  BY <1>2, <1>6, <1>7
<1> HIDE DEF s, e
<1>9. CASE s >= i
  <2>1. s + 1 \in (IF i > 2 THEN i - 2 ELSE 1) .. i + 2 /\ s + 1 \in s + 1 .. e
    BY <1>1, <1>2, <1>3, <1>5, <1>9
  <2> QED
    BY <2>1 DEF s, e
<1>10. CASE s < i /\ i <= e
  <2>1. i \in (IF i > 2 THEN i - 2 ELSE 1) .. i + 2 /\ i \in s + 1 .. e
    BY <1>1, <1>2, <1>10
  <2> QED
    BY <2>1 DEF s, e
<1>11. CASE s < i /\ e < i
  <2>1. e \in (IF i > 2 THEN i - 2 ELSE 1) .. i + 2 /\ e \in s + 1 .. e
    BY <1>1, <1>2, <1>3, <1>8, <1>11
  <2> QED
    BY <2>1 DEF s, e
<1> QED
  BY <1>1, <1>2, <1>9, <1>10, <1>11

-----------------------------------------------------------------------------
LEMMA LessOnNat ==
  \E less : IsWellFoundedOn(less, Nat) /\ \A k, m \in Nat : <<k, m>> \in less <=> k < m
<1>1. \A k, m \in Nat : (<<k, m>> \in OpToRel(<, Nat)) <=> k < m
  BY Zenon DEF OpToRel
<1> QED
  BY <1>1, NatLessThanWellFounded, Zenon

\* A set of numbers has a least one.
LEMMA Least ==
  ASSUME NEW S, S \subseteq Nat, S # {}
  PROVE \E m \in S : \A k \in S : m <= k
<1>1. PICK less : IsWellFoundedOn(less, Nat) /\ \A k, m \in Nat : <<k, m>> \in less <=> k < m
  BY LessOnNat, Zenon
<1>2. IsWellFoundedOn(less, Nat)
  BY <1>1
<1>3. PICK m \in S : \A k \in S : ~ (<<k, m>> \in less)
  BY <1>2, WFMin
<1>4. ASSUME NEW k \in S
      PROVE  m <= k
  <2>1. <<k, m>> \in less <=> k < m
    BY <1>1, Zenon
  <2>2. <<k, m>> \notin less
    BY <1>3, Zenon
  <2>3. ~(k < m)
    BY <2>1, <2>2, Zenon
  <2> QED
    BY <2>3
<1> QED
  BY <1>4
-----------------------------------------------------------------------------
(* A copy of a whole document (VerifiedCopies), at each step of its job.   *)

CopyMade == {"written", "verified", "looking", "naming"}
CopyParsed == {"parsed"} \cup CopyMade
CopyHeld == {"held"} \cup CopyParsed

CopyTypes ==
  /\ cTask \in Copies!TaskRecords /\ cSlip \in Copies!Slips[cTask.op]
  /\ cStep \in {"asked", "failing", "done"} \cup CopyHeld
  /\ cVersion \in Nat /\ cKnown \in Nat /\ cUnsigned \in BOOLEAN /\ cCreated \in BOOLEAN

NoCopyYet == cStep \in {"asked", "held", "parsed"} => ~cCopy.there

\* The source is the one that was shown, and is read as it is from then on.
SourceIsKnown ==
  /\ cStep = "asked" => cReadAt = {}
  /\ cStep \in CopyHeld =>
       /\ cReadAt \subseteq cKnown .. cVersion /\ cKnown <= cVersion
       /\ cTask.op \in Copies!ShareOps \ {"metadata"} => cTask.identity \in {0, cKnown}

SignaturesAreKnown ==
  cStep \in CopyParsed => cUnsigned = (cTask.doc.sign = "signed") /\ cTask.doc.sign # "malformed"

\* The copy is what was built, right or wrong, from then on.
BuiltPages ==
  [i \in 1 .. (IF cSlip = "page lost" THEN Copies!Count - 1 ELSE Copies!Count) |-> Copies!PageOf(i)]
BuiltFrom(versions) ==
  [there |-> TRUE, whole |-> cSlip # "damaged", pages |-> BuiltPages,
   lock |-> Copies!LockOfCopy, sign |-> Copies!SignOfCopy,
   meta |-> IF cTask.op \in Copies!ImageOps \cup {"metadata"} THEN cSlip = "metadata kept" ELSE Copies!Doc.meta,
   catalog |-> cSlip # "catalog lost", smaller |-> cSlip # "larger", of |-> versions]
IsAsBuilt == cCopy = BuiltFrom(cCopy.of)
CopyIsOfTheTask ==
  cStep \in CopyMade =>
    /\ Copies!CanBeMade /\ IsAsBuilt /\ cCreated
    /\ cCopy.of # {} /\ cCopy.of \subseteq cKnown .. cVersion

CopyWasLookedAt ==
  /\ cStep \in {"verified", "looking", "naming"} => Copies!IsVerified
  /\ cStep \in {"looking", "naming"} => (cUnsigned => cCopy.sign = "none")
  /\ cStep = "naming" => cCopy.of = {cKnown}

CopyHasEnded ==
  /\ cStep = "failing" => cOutcome # "success" /\ (cCreated \/ cTask.op = "compress" \/ ~cCopy.there)
  /\ cStep = "done" => IF cOutcome = "success" THEN Copies!IsTrue ELSE ~cCopy.there

CopiesInv ==
  CopyTypes /\ NoCopyYet /\ SourceIsKnown /\ SignaturesAreKnown /\ CopyIsOfTheTask /\ CopyWasLookedAt /\ CopyHasEnded
-----------------------------------------------------------------------------
(* The pictures of a redaction.                                             *)

LEMMA TaskIs ==
  ASSUME cTask \in Copies!TaskRecords
  PROVE  /\ cTask.op \in {"metadata", "photocopy", "redact", "watermark", "ocr", "compress", "protect", "unlock"}
         /\ cTask.doc \in Copies!DocumentRecords /\ cTask.areas \subseteq Copies!AreaRecords
         /\ Copies!Count \in Nat
<1>1. cTask.op \in DOMAIN Copies!Slips /\ cTask.doc \in Copies!DocumentRecords
      /\ cTask.areas \subseteq Copies!AreaRecords
  BY DEF Copies!TaskRecords
<1>2. DOMAIN Copies!Slips =
        {"metadata", "photocopy", "redact", "watermark", "ocr", "compress", "protect", "unlock"}
  BY DEF Copies!Slips
<1>3. cTask.doc.pages \in Seq(Copies!PageRecords)
  BY <1>1 DEF Copies!DocumentRecords
<1>4. Copies!Count \in Nat
  BY <1>3, LenProperties DEF Copies!Count, Copies!Doc
<1> QED
  BY <1>1, <1>2, <1>4

LEMMA PageIs ==
  ASSUME cTask \in Copies!TaskRecords, NEW n \in 1 .. Copies!Count, NEW page, page = Copies!Doc.pages[n]
  PROVE  /\ page \in Copies!PageRecords /\ page.unit \in Nat \ {0} /\ page.points \in Nat \ {0}
         /\ Copies!Physical(page) \in Nat \ {0} /\ Copies!PixelWidth(page) \in Nat \ {0}
<1>1. cTask.doc.pages \in Seq(Copies!PageRecords)
  BY TaskIs DEF Copies!DocumentRecords
<1>2. page \in Copies!PageRecords
  BY <1>1, ElementOfSeq DEF Copies!Doc, Copies!Count
<1>3. page.unit \in Nat \ {0} /\ page.points \in Nat \ {0}
  BY <1>2 DEF Copies!PageRecords
<1>4. page.points * page.unit \in Nat \ {0}
  BY <1>3, TimesGrowsToo
<1>5. page.points * page.unit * Pixels \in Nat \ {0}
  <2>1. Pixels \in Nat \ {0}
    BY PixelsAssumption
  <2> QED
    BY <1>4, <2>1, TimesGrowsToo
<1>6. Copies!PixelWidth(page) \in Nat \ {0}
  <2>1. Points \in Nat \ {0}
    BY PixelsAssumption
  <2> DEFINE z == page.points * page.unit * Pixels
  <2>2. Copies!PixelWidth(page) = Copies!Ceil(z, Points)
    BY DEF Copies!PixelWidth, Copies!Physical
  <2>3. z \in Nat /\ z > 0
    BY <1>5
  <2> HIDE DEF z
  <2>4. Copies!Ceil(z, Points) \in Nat /\ Copies!Ceil(z, Points) > 0
    BY <2>1, <2>3, CeilIs
  <2> QED
    BY <2>2, <2>4
<1> QED
  BY <1>2, <1>3, <1>4, <1>6 DEF Copies!Physical

\* The sides of an area, in pixels times the physical size of the page.
LEMMA AreaIs ==
  ASSUME cTask \in Copies!TaskRecords, NEW n \in 1 .. Copies!Count, NEW a \in Copies!AreasOf(n),
         NEW S \in Nat \ {0}, NEW x, x = a.x * S, NEW y, y = (a.x + a.width) * S,
         NEW u \in Nat \ {0}
  PROVE  /\ a \in cTask.areas /\ a.page = n /\ a.x \in Nat /\ a.width \in Nat \ {0}
         /\ x \in Nat /\ y \in Nat /\ x < y
         /\ a.x * u * S = u * x /\ (a.x + a.width) * u * S = u * y
<1>1. a \in cTask.areas /\ a.page = n /\ a \in Copies!AreaRecords
  BY TaskIs DEF Copies!AreasOf
<1>2. a.x \in Nat /\ a.width \in Nat \ {0}
  BY <1>1 DEF Copies!AreaRecords
<1>3. S * a.x < S * (a.x + a.width)
  <2>1. a.x + a.width \in Nat /\ a.x < a.x + a.width
    BY <1>2
  <2> QED
    BY <1>2, <2>1, TimesGrowsToo
<1>4. S * a.x = a.x * S /\ S * (a.x + a.width) = (a.x + a.width) * S
  BY <1>2
<1>5. x \in Nat /\ y \in Nat
  BY <1>2
<1>6. a.x * u * S = u * x
  BY <1>2
<1>7. (a.x + a.width) * u * S = u * y
  <2> DEFINE z == a.x + a.width
  <2>1. z \in Nat
    BY <1>2
  <2> HIDE DEF z
  <2>2. z * u * S = u * (z * S)
    BY <2>1
  <2> QED
    BY <2>2 DEF z
<1> QED
  BY <1>1, <1>2, <1>3, <1>4, <1>5, <1>6, <1>7

LEMMA SidesAre ==
  ASSUME cTask \in Copies!TaskRecords, NEW n \in 1 .. Copies!Count, NEW a \in Copies!AreasOf(n),
         NEW S \in Nat \ {0}, NEW x, x = a.x * S, NEW y, y = (a.x + a.width) * S
  PROVE  a.x \in Nat /\ a.width \in Nat \ {0} /\ x \in Nat /\ y \in Nat /\ x < y
<1>1. 1 \in Nat \ {0}
  OBVIOUS
<1> QED
  BY <1>1, AreaIs

\* The pixels that are blackened for an area, at the scale it was taken for.
LEMMA BoxIs ==
  ASSUME cTask \in Copies!TaskRecords, NEW n \in 1 .. Copies!Count, NEW a \in Copies!AreasOf(n),
         NEW page, page = Copies!Doc.pages[n], NEW S, S = Copies!PixelWidth(page),
         NEW d, d = Copies!Physical(page), NEW v \in Nat \ {0}, NEW i \in Nat
  PROVE  i \in Copies!PixelBox(a, v) <=>
           i >= 1 /\ i >= Copies!Floor(v * (a.x * S), d)
             /\ i <= S /\ i <= Copies!Ceil(v * ((a.x + a.width) * S), d) + 1
<1> DEFINE x == a.x * S
           y == (a.x + a.width) * S
           q == Copies!Floor(v * x, d)
           c == Copies!Ceil(v * y, d)
<1>1. S \in Nat \ {0} /\ d \in Nat \ {0}
  BY PageIs
<1>2. a.page = n /\ x \in Nat /\ y \in Nat /\ a.x * v * S = v * x /\ (a.x + a.width) * v * S = v * y
  BY <1>1, AreaIs
<1>3. q \in Nat
  <2>1. v * x \in Nat
    BY <1>2
  <2> HIDE DEF x
  <2> QED
    BY <1>1, <2>1, FloorIs
<1>4. c \in Nat
  <2>1. v * y \in Nat
    BY <1>2
  <2> HIDE DEF y
  <2> QED
    BY <1>1, <2>1, CeilIs
<1>5. Copies!PixelBox(a, v) = Copies!LessOrNone(q, Margin) + 1 .. Copies!Lesser(S, c + Margin)
  <2> HIDE DEF x, y
  <2> QED
    BY <1>2 DEF Copies!PixelBox, Copies!Doc
<1>6. Margin = 1
  BY PixelsAssumption
<1> HIDE DEF q, c
<1>7. i \in Copies!LessOrNone(q, 1) + 1 .. Copies!Lesser(S, c + 1) <=>
        i >= 1 /\ i >= q /\ i <= S /\ i <= c + 1
  BY <1>1, <1>3, <1>4 DEF Copies!LessOrNone, Copies!Lesser
<1> QED
  BY <1>5, <1>6, <1>7 DEF q, c
\* An area is where it is hidden, and is found again there.
LEMMA HiddenWhere ==
  ASSUME cTask \in Copies!TaskRecords, NEW n \in 1 .. Copies!Count,
         NEW page, page = Copies!Doc.pages[n], NEW S, S = Copies!PixelWidth(page),
         NEW d, d = Copies!Physical(page), NEW u, u = page.unit, NEW i \in Nat
  PROVE  Copies!IsHidden(i, page, Copies!AreasOf(n)) <=>
           \E a \in Copies!AreasOf(n) :
             i \in Copies!Floor(u * (a.x * S), d) + 1 .. Copies!Ceil(u * ((a.x + a.width) * S), d)
<1>1. S \in Nat \ {0} /\ d \in Nat \ {0} /\ u \in Nat \ {0}
  BY PageIs
<1>2. ASSUME NEW a \in Copies!AreasOf(n)
      PROVE  (i * d > a.x * u * S /\ (i - 1) * d < (a.x + a.width) * u * S) <=>
             i \in Copies!Floor(u * (a.x * S), d) + 1 .. Copies!Ceil(u * ((a.x + a.width) * S), d)
  <2> DEFINE x == a.x * S
             y == (a.x + a.width) * S
  <2>1. x \in Nat /\ y \in Nat /\ a.x * u * S = u * x /\ (a.x + a.width) * u * S = u * y
    BY <1>1, <1>2, AreaIs
  <2> HIDE DEF x, y
  <2>2. u * x \in Nat /\ u * y \in Nat
    BY <1>1, <2>1
  <2>3. (i * d > u * x /\ (i - 1) * d < u * y) <=> i \in Copies!Floor(u * x, d) + 1 .. Copies!Ceil(u * y, d)
    BY <1>1, <2>2, TouchedIs
  <2>4. (i * d > a.x * u * S /\ (i - 1) * d < (a.x + a.width) * u * S) <=>
        i \in Copies!Floor(u * x, d) + 1 .. Copies!Ceil(u * y, d)
    BY <2>1, <2>3
  <2> QED
    BY <2>4 DEF x, y
<1> QED
  BY <1>2 DEF Copies!IsHidden

\* A set of areas has one that reaches farthest.
LEMMA Farthest ==
  ASSUME cTask \in Copies!TaskRecords, NEW n \in 1 .. Copies!Count,
         Copies!AreasOf(n) # {}, \A a \in Copies!AreasOf(n) : Copies!AreaFits(a)
  PROVE  \E m \in Copies!AreasOf(n) : \A a \in Copies!AreasOf(n) : a.x + a.width <= m.x + m.width
<1> DEFINE page == Copies!Doc.pages[n]
           room(a) == page.points - (a.x + a.width)
           rooms == {room(a) : a \in Copies!AreasOf(n)}
<1>1. page.points \in Nat
  BY PageIs
<1>2. ASSUME NEW a \in Copies!AreasOf(n)
      PROVE  a.x + a.width \in Nat /\ a.x + a.width <= page.points
  <2>1. a.page = n /\ a \in Copies!AreaRecords
    BY <1>2, TaskIs DEF Copies!AreasOf
  <2> QED
    BY <1>2, <2>1 DEF Copies!AreaFits, Copies!AreaRecords
<1> HIDE DEF page
<1>3. rooms \subseteq Nat /\ rooms # {}
  BY <1>1, <1>2
<1>4. PICK least \in rooms : \A k \in rooms : least <= k
  <2> HIDE DEF rooms
  <2> QED
    BY <1>3, Least
<1>5. PICK m \in Copies!AreasOf(n) : least = room(m)
  BY <1>4
<1>6. ASSUME NEW a \in Copies!AreasOf(n) PROVE a.x + a.width <= m.x + m.width
  <2>1. room(a) \in rooms
    OBVIOUS
  <2>2. room(m) <= room(a)
    BY <1>4, <1>5, <2>1
  <2>3. a.x + a.width \in Nat /\ m.x + m.width \in Nat
    BY <1>2
  <2> QED
    BY <1>1, <2>2, <2>3
<1> QED
  BY <1>6

\* What verify_redaction found black.
LEMMA FoundBlack ==
  ASSUME cTask \in Copies!TaskRecords, NEW n \in 1 .. Copies!Count, NEW a \in Copies!AreasOf(n),
         Copies!AreaFits(a), Copies!ImagesAreVerified, Copies!AreasAreVerified,
         NEW page, page = Copies!Doc.pages[n], NEW S, S = Copies!PixelWidth(page),
         NEW d, d = Copies!Physical(page), NEW u, u = page.unit,
         NEW i \in Copies!Floor(u * (a.x * S), d) + 1 .. Copies!Ceil(u * ((a.x + a.width) * S), d)
  PROVE  /\ i \in 1 .. S
         /\ cCopy.pages[n].picture[i] = 0
<1> DEFINE x == a.x * S
           y == (a.x + a.width) * S
<1>1. S \in Nat \ {0} /\ d \in Nat \ {0} /\ u \in Nat \ {0} /\ page.points \in Nat \ {0}
  BY PageIs
<1>2. /\ a \in cTask.areas /\ a.page = n /\ x \in Nat /\ y \in Nat
      /\ a.x * u * S = u * x /\ (a.x + a.width) * u * S = u * y /\ a.x \in Nat /\ a.width \in Nat \ {0}
  BY <1>1, AreaIs
<1>3. cCopy.pages[n].points = d /\ cCopy.pages[n].picture = Copies!ExpectedPicture(n)
  BY DEF Copies!ImagesAreVerified
<1>4. Len(cCopy.pages[n].picture) = S
  <2>1. DOMAIN Copies!ExpectedPicture(n) = 1 .. S
    BY DEF Copies!ExpectedPicture, Copies!BlackOut, Copies!Picture
  <2> DEFINE f == Copies!ExpectedPicture(n)
  <2>2. f = [k \in 1 .. S |-> f[k]]
    BY DEF Copies!ExpectedPicture, Copies!BlackOut, Copies!Picture
  <2> HIDE DEF f
  <2>3. DOMAIN f = 1 .. S
    BY <2>1 DEF f
  <2>4. Len(f) = S
    BY <1>1, <2>2, <2>3, LengthIs
  <2> QED
    BY <1>3, <2>4 DEF f
<1>5. u * y <= d * S
  <2> DEFINE z == a.x + a.width
  <2>1. z \in Nat /\ z <= page.points
    BY <1>2 DEF Copies!AreaFits
  <2>2. d = page.points * u
    BY DEF Copies!Physical
  <2>3. (u * S) * z <= (u * S) * page.points
    <3>1. u * S \in Nat
      BY <1>1
    <3> HIDE DEF z
    <3> QED
      BY <1>1, <2>1, <3>1, TimesGrows
  <2>4. (u * S) * page.points = d * S
    BY <1>1, <2>2
  <2>5. (u * S) * z = u * (z * S)
    <3> HIDE DEF z
    <3> QED
      BY <1>1, <2>1
  <2> QED
    BY <2>3, <2>4, <2>5
<1> HIDE DEF x, y
<1>6. u * x \in Nat /\ u * y \in Nat
  BY <1>1, <1>2
<1> DEFINE q == Copies!Floor(u * x, d)
           c == Copies!Ceil(u * y, d)
<1>7. q \in Nat
  BY <1>1, <1>6, FloorIs
<1>8. c \in Nat /\ d * c < u * y + d
  BY <1>1, <1>6, CeilIs
<1>9. i \in q + 1 .. c
  BY DEF x, y
<1> HIDE DEF q, c
<1>10. c <= S
  <2> SUFFICES ASSUME c >= S + 1 PROVE FALSE
    BY <1>1, <1>8
  <2>1. d * (S + 1) <= d * c
    BY <1>1, <1>8, TimesGrows
  <2>2. d * (S + 1) = d * S + d
    BY <1>1
  <2>3. d * c \in Nat /\ d * S \in Nat
    BY <1>1, <1>8
  <2> QED
    BY <1>1, <1>5, <1>6, <1>8, <2>1, <2>2, <2>3
<1>11. Copies!VerifiedBox(a) = q + 1 .. Copies!Lesser(S, c)
  BY <1>2, <1>3, <1>4 DEF Copies!VerifiedBox, Copies!Doc, q, c
<1>12. Copies!Lesser(S, c) = c
  BY <1>1, <1>8, <1>10 DEF Copies!Lesser
<1>13. i \in Copies!VerifiedBox(a)
  BY <1>9, <1>11, <1>12
<1>14. cCopy.pages[a.page].picture[i] = 0
  BY <1>2, <1>13 DEF Copies!AreasAreVerified
<1> QED
  BY <1>1, <1>2, <1>7, <1>8, <1>9, <1>10, <1>14
\* The scale the areas of a page are taken for.
TakenScale(n) == IF cSlip = "area unscaled" THEN 1 ELSE Copies!Doc.pages[n].unit

\* The pictures of a redaction.
LEMMA ExpectedIs ==
  ASSUME cTask \in Copies!TaskRecords, cTask.op = "redact", NEW n \in 1 .. Copies!Count,
         NEW page, page = Copies!Doc.pages[n], NEW S, S = Copies!PixelWidth(page), NEW i \in 1 .. S
  PROVE  Copies!ExpectedPicture(n)[i] = IF i \in Copies!Boxes(n, cSlip) THEN 0 ELSE i
BY DEF Copies!ExpectedPicture, Copies!BlackOut, Copies!Picture

LEMMA InABox ==
  ASSUME NEW n, NEW i, i \in Copies!Boxes(n, cSlip),
         NEW v, v = TakenScale(n)
  PROVE  \E a \in Copies!AreasOf(n) : i \in Copies!PixelBox(a, v)
BY DEF Copies!Boxes, TakenScale

\* Where the areas were taken for the wrong scale and were still found black, none was taken
\* for a place more than a pixel away.
LEMMA NoneFarAway ==
  ASSUME cTask \in Copies!TaskRecords, cTask.op = "redact", NEW n \in 1 .. Copies!Count,
         \A a \in Copies!AreasOf(n) : Copies!AreaFits(a),
         Copies!ImagesAreVerified, Copies!AreasAreVerified,
         NEW b \in Copies!AreasOf(n),
         NEW page, page = Copies!Doc.pages[n], NEW S, S = Copies!PixelWidth(page),
         NEW d, d = Copies!Physical(page), NEW u, u = page.unit,
         NEW v, v = TakenScale(n)
  PROVE  Copies!Floor(u * (b.x * S), d) <= Copies!Floor(v * (b.x * S), d) + 1
<1>1. S \in Nat \ {0} /\ d \in Nat \ {0} /\ u \in Nat \ {0}
  BY PageIs
<1> DEFINE x == b.x * S
<1>2. x \in Nat /\ u * x \in Nat /\ b.x \in Nat /\ b.width \in Nat \ {0} /\ x < (b.x + b.width) * S
  <2>1. x \in Nat /\ b.x \in Nat /\ b.width \in Nat \ {0} /\ x < (b.x + b.width) * S
    BY <1>1, SidesAre
  <2> HIDE DEF x
  <2>2. u * x \in Nat
    BY <1>1, <2>1
  <2> QED
    BY <2>1, <2>2
<1>3. CASE v = u
  <2> HIDE DEF x
  <2>1. Copies!Floor(u * x, d) \in Nat
    BY <1>1, <1>2, FloorIs
  <2> QED
    BY <1>3, <2>1 DEF x
<1>4. CASE cSlip = "area unscaled"
  <2>1. PICK m \in Copies!AreasOf(n) : \A a \in Copies!AreasOf(n) : a.x + a.width <= m.x + m.width
    BY Farthest
  <2> DEFINE y == (m.x + m.width) * S
             r == Copies!Ceil(u * y, d)
  <2>2. y \in Nat /\ m.x * S \in Nat /\ m.x * S < y /\ m.x \in Nat /\ m.width \in Nat \ {0}
    BY <1>1, SidesAre
  <2> HIDE DEF y
  <2>3. u * y \in Nat /\ u * (m.x * S) \in Nat /\ u * (m.x * S) < u * y
    <3> DEFINE z == m.x * S
    <3>1. z \in Nat /\ z < y
      BY <2>2
    <3> HIDE DEF z
    <3>2. u * y \in Nat /\ u * z \in Nat /\ u * z < u * y
      BY <1>1, <2>2, <3>1, TimesGrowsToo
    <3> QED
      BY <3>2 DEF z
  <2>4. r \in Nat /\ u * y <= d * r
    BY <1>1, <2>3, CeilIs
  <2> DEFINE q == Copies!Floor(u * (m.x * S), d)
  <2>5. q \in Nat /\ d * q <= u * (m.x * S)
    BY <1>1, <2>3, FloorIs
  <2> HIDE DEF r, q
  <2>6. q < r
    <3> SUFFICES ASSUME r <= q PROVE FALSE
      BY <2>4, <2>5
    <3>1. d * r <= d * q
      BY <1>1, <2>4, <2>5, TimesGrows
    <3>2. d * r \in Nat /\ d * q \in Nat
      BY <1>1, <2>4, <2>5
    <3> QED
      BY <2>3, <2>4, <2>5, <3>1, <3>2
  <2>7. r \in q + 1 .. r
    BY <2>4, <2>5, <2>6
  <2>8. r \in 1 .. S /\ cCopy.pages[n].picture[r] = 0
    <3>1. Copies!AreaFits(m)
      OBVIOUS
    <3>2. r \in Copies!Floor(u * (m.x * S), d) + 1 .. Copies!Ceil(u * ((m.x + m.width) * S), d)
      BY <2>7 DEF r, q, y
    <3> QED
      BY <3>1, <3>2, FoundBlack
  <2>9. Copies!ExpectedPicture(n)[r] = 0
    BY <2>8 DEF Copies!ImagesAreVerified
  <2>10. r \in Copies!Boxes(n, cSlip)
    BY <2>8, <2>9, ExpectedIs
  <2>11a. v = 1
    BY <1>4 DEF TakenScale
  <2>11. PICK a \in Copies!AreasOf(n) : r \in Copies!PixelBox(a, 1)
    BY <2>10, <2>11a, InABox
  <2> DEFINE z == (a.x + a.width) * S
  <2>12. z \in Nat /\ a.x \in Nat /\ a.width \in Nat \ {0}
    BY <1>1, SidesAre
  <2>13. r <= Copies!Ceil(1 * z, d) + 1
    <3>1. r \in Nat /\ 1 \in Nat \ {0}
      BY <2>4
    <3> QED
      BY <2>11, <3>1, BoxIs
  <2>14. z <= y
    <3>1. a.x + a.width <= m.x + m.width
      BY <2>1
    <3>2. S * (a.x + a.width) <= S * (m.x + m.width)
      <4>1. a.x + a.width \in Nat /\ m.x + m.width \in Nat
        BY <2>2, <2>12
      <4> QED
        BY <1>1, <3>1, <4>1, TimesGrows
    <3>3. S * (a.x + a.width) = z /\ S * (m.x + m.width) = y
      <4>1. a.x + a.width \in Nat /\ m.x + m.width \in Nat
        BY <2>2, <2>12
      <4> QED
        BY <1>1, <4>1 DEF y
    <3> QED
      BY <3>2, <3>3
  <2> HIDE DEF z
  <2>15. r <= Copies!Ceil(y, d) + 1
    <3>1. 1 * z = z
      BY <2>12
    <3>2. Copies!Ceil(z, d) <= Copies!Ceil(y, d)
      BY <1>1, <2>2, <2>12, <2>14, CeilGrows
    <3>3. Copies!Ceil(z, d) \in Nat /\ Copies!Ceil(y, d) \in Nat
      BY <1>1, <2>2, <2>12, CeilIs
    <3> QED
      BY <2>4, <2>13, <3>1, <3>2, <3>3
  <2>16. x < y
    <3>1. b.x + b.width <= m.x + m.width
      BY <2>1
    <3>2. S * (b.x + b.width) <= S * (m.x + m.width)
      <4>1. b.x + b.width \in Nat /\ m.x + m.width \in Nat
        BY <1>2, <2>2
      <4> QED
        BY <1>1, <3>1, <4>1, TimesGrows
    <3>3. S * (b.x + b.width) = (b.x + b.width) * S /\ S * (m.x + m.width) = y
      <4>1. b.x + b.width \in Nat /\ m.x + m.width \in Nat
        BY <1>2, <2>2
      <4> QED
        BY <1>1, <4>1 DEF y
    <3>4. (b.x + b.width) * S \in Nat
      BY <1>1, <1>2
    <3> QED
      BY <1>2, <2>2, <3>2, <3>3, <3>4
  <2> HIDE DEF x
  <2>17. Copies!Floor(u * x, d) <= Copies!Floor(x, d) + 1
    BY <1>1, <1>2, <2>2, <2>15, <2>16, NearEnough DEF r
  <2>18. v * x = x
    BY <1>2, <2>11a
  <2> QED
    BY <2>17, <2>18 DEF x
<1>5. v = u \/ cSlip = "area unscaled"
  BY DEF TakenScale
<1> QED
  BY <1>3, <1>4, <1>5

\* Hidden areas are black at every scale of the page, and nothing far from them is lost.
LEMMA RedactionIsTrue ==
  ASSUME cTask \in Copies!TaskRecords, cTask.op = "redact", Copies!ImagesAllowed,
         Copies!ImagesAreVerified, Copies!AreasAreVerified,
         NEW n \in 1 .. Copies!Count, NEW page, page = Copies!Doc.pages[n],
         NEW i \in 1 .. Copies!PixelWidth(page)
  PROVE  /\ Copies!IsHidden(i, page, Copies!AreasOf(n)) => cCopy.pages[n].picture[i] = 0
         /\ Copies!IsFar(i, page, Copies!AreasOf(n)) => cCopy.pages[n].picture[i] = i
<1> DEFINE S == Copies!PixelWidth(page)
           d == Copies!Physical(page)
           u == page.unit
           v == TakenScale(n)
<1>1. S \in Nat \ {0} /\ d \in Nat \ {0} /\ u \in Nat \ {0}
  BY PageIs
<1>2. \A a \in Copies!AreasOf(n) : Copies!AreaFits(a)
  BY DEF Copies!ImagesAllowed, Copies!AreasOf
<1>3. i \in Nat /\ i >= 1
  BY <1>1
<1>4. ASSUME Copies!IsHidden(i, page, Copies!AreasOf(n)) PROVE cCopy.pages[n].picture[i] = 0
  <2>1. PICK a \in Copies!AreasOf(n) :
          i \in Copies!Floor(u * (a.x * S), d) + 1 .. Copies!Ceil(u * ((a.x + a.width) * S), d)
    BY <1>3, <1>4, HiddenWhere
  <2>2. Copies!AreaFits(a)
    BY <1>2
  <2> QED
    BY <2>1, <2>2, FoundBlack
<1>5. ASSUME i \in Copies!Boxes(n, cSlip) PROVE ~Copies!IsFar(i, page, Copies!AreasOf(n))
  <2>1. PICK a \in Copies!AreasOf(n) : i \in Copies!PixelBox(a, v)
    BY <1>5, InABox
  <2> DEFINE x == a.x * S
             y == (a.x + a.width) * S
  <2>2. x \in Nat /\ y \in Nat /\ x < y
    BY <1>1, SidesAre
  <2>3. v \in Nat \ {0} /\ v \in {1, u}
    <3>1. v = 1 \/ v = page.unit
      BY DEF TakenScale
    <3> HIDE DEF v
    <3> QED
      BY <1>1, <3>1
  <2>4. i >= Copies!Floor(v * x, d) /\ i <= Copies!Ceil(v * y, d) + 1
    <3> HIDE DEF v
    <3> QED
      BY <1>3, <2>1, <2>3, BoxIs
  <2>5. Copies!Floor(u * x, d) <= Copies!Floor(v * x, d) + 1
    BY <1>2, NoneFarAway
  <2> HIDE DEF x, y, v
  <2>6. PICK j \in (IF i > 2 THEN i - 2 ELSE 1) .. i + 2 :
          j \in Copies!Floor(u * x, d) + 1 .. Copies!Ceil(u * y, d)
    BY <1>1, <1>3, <2>2, <2>3, <2>4, <2>5, CloseBy
  <2>7. j \in Nat
    BY <1>3, <2>6
  <2>8. Copies!IsHidden(j, page, Copies!AreasOf(n))
    BY <2>6, <2>7, HiddenWhere DEF x, y
  <2>9. Margin + 1 = 2
    BY PixelsAssumption
  <2> QED
    BY <2>6, <2>8, <2>9 DEF Copies!IsFar
<1>6. cCopy.pages[n].picture[i] = IF i \in Copies!Boxes(n, cSlip) THEN 0 ELSE i
  <2>1. cCopy.pages[n].picture = Copies!ExpectedPicture(n)
    BY DEF Copies!ImagesAreVerified
  <2> QED
    BY <2>1, ExpectedIs
<1> QED
  BY <1>4, <1>5, <1>6
-----------------------------------------------------------------------------
LEMMA BuiltIs ==
  ASSUME IsAsBuilt
  PROVE  /\ cCopy.there /\ cCopy.whole = (cSlip # "damaged")
         /\ cCopy.pages = BuiltPages /\ cCopy.lock = Copies!LockOfCopy /\ cCopy.sign = Copies!SignOfCopy
         /\ cTask.op \in Copies!ImageOps \cup {"metadata"} => cCopy.meta = (cSlip = "metadata kept")
         /\ cCopy.catalog = (cSlip # "catalog lost") /\ cCopy.smaller = (cSlip # "larger")
<1> DEFINE r == BuiltFrom(cCopy.of)
<1>1. r.there /\ r.whole = (cSlip # "damaged")
  BY DEF BuiltFrom
<1>2. r.pages = BuiltPages /\ r.lock = Copies!LockOfCopy /\ r.sign = Copies!SignOfCopy
  BY DEF BuiltFrom
<1>3. cTask.op \in Copies!ImageOps \cup {"metadata"} => r.meta = (cSlip = "metadata kept")
  BY DEF BuiltFrom
<1>4. r.catalog = (cSlip # "catalog lost") /\ r.smaller = (cSlip # "larger")
  BY DEF BuiltFrom
<1> HIDE DEF r
<1>5. cCopy = r
  BY DEF IsAsBuilt, r
<1> QED
  BY <1>1, <1>2, <1>3, <1>4, <1>5

\* A copy with as many pages as its document has them all.
LEMMA PagesAreBuilt ==
  ASSUME cTask \in Copies!TaskRecords, IsAsBuilt, Len(cCopy.pages) = Copies!Count, NEW i \in 1 .. Copies!Count
  PROVE  cCopy.pages[i] = Copies!PageOf(i)
<1>1. Copies!Count \in Nat
  BY TaskIs
<1>2. CASE cSlip = "page lost"
  <2> DEFINE n == Copies!Count - 1
  <2>1. n \in Nat
    BY <1>1
  <2>2. cCopy.pages = [k \in 1 .. n |-> Copies!PageOf(k)]
    BY <1>2, BuiltIs DEF BuiltPages
  <2> HIDE DEF n
  <2>3. DOMAIN cCopy.pages = 1 .. n /\ cCopy.pages = [k \in 1 .. n |-> cCopy.pages[k]]
    BY <2>2
  <2>4. Len(cCopy.pages) = n
    BY <2>1, <2>3, LengthIs
  <2> QED
    BY <1>1, <2>4 DEF n
<1>3. CASE cSlip # "page lost"
  BY <1>3, BuiltIs DEF BuiltPages
<1> QED
  BY <1>2, <1>3

LEMMA CopyIsUnsigned ==
  ASSUME cTask \in Copies!TaskRecords, IsAsBuilt,
         cUnsigned = (cTask.doc.sign = "signed"), cTask.doc.sign # "malformed",
         cUnsigned => cCopy.sign = "none"
  PROVE  cCopy.sign # "signed"
<1>1. CASE cTask.doc.sign = "signed"
  BY <1>1
<1>2. CASE cTask.doc.sign # "signed"
  <2>1. cCopy.sign \in {"none", cTask.doc.sign}
    BY BuiltIs DEF Copies!SignOfCopy, Copies!Doc
  <2> QED
    BY <1>2, <2>1
<1> QED
  BY <1>1, <1>2

LEMMA ImagesAreTrue ==
  ASSUME cTask \in Copies!TaskRecords, cSlip \in Copies!Slips[cTask.op], cTask.op \in Copies!ImageOps,
         IsAsBuilt, Copies!ImagesAllowed, Copies!ImagesAreVerified,
         cTask.op = "redact" => Copies!AreasAreVerified
  PROVE  Copies!HiddenIsGone /\ ~cCopy.meta
<1>1. cTask.op \in {"photocopy", "redact"}
  BY DEF Copies!ImageOps
<1>2. ~cCopy.meta
  <2>1. cSlip \in Copies!Slips["photocopy"] \/ cSlip \in Copies!Slips["redact"]
    BY <1>1
  <2>2. cSlip # "metadata kept"
    BY <2>1 DEF Copies!Slips, Copies!Anywhere
  <2> QED
    BY <2>2, BuiltIs
<1>3. ASSUME NEW n \in 1 .. Copies!Count
      PROVE  cCopy.pages[n].text = "" /\ ~cCopy.pages[n].extra
  BY <1>3 DEF Copies!ImagesAreVerified
<1>4. ASSUME NEW n \in 1 .. Copies!Count, NEW page, page = Copies!Doc.pages[n],
             NEW areas, areas = (IF cTask.op = "redact" THEN Copies!AreasOf(n) ELSE {}),
             NEW i \in 1 .. Copies!PixelWidth(page)
      PROVE  /\ Copies!IsHidden(i, page, areas) => cCopy.pages[n].picture[i] = 0
             /\ Copies!IsFar(i, page, areas) => cCopy.pages[n].picture[i] = i
  <2>1. CASE cTask.op = "redact"
    <3>1. areas = Copies!AreasOf(n)
      BY <1>4, <2>1
    <3> QED
      BY <1>4, <2>1, <3>1, RedactionIsTrue
  <2>2. CASE cTask.op = "photocopy"
    <3>1. areas = {}
      BY <1>4, <2>2
    <3>2. ~Copies!IsHidden(i, page, areas)
      BY <3>1 DEF Copies!IsHidden
    <3>3. cCopy.pages[n].picture = Copies!ExpectedPicture(n)
      BY <1>4 DEF Copies!ImagesAreVerified
    <3>4. Copies!ExpectedPicture(n)[i] = i
      BY <1>4, <2>2 DEF Copies!ExpectedPicture, Copies!BlackOut, Copies!Picture
    <3> QED
      BY <3>2, <3>3, <3>4
  <2> QED
    BY <1>1, <2>1, <2>2
<1> QED
  BY <1>2, <1>3, <1>4 DEF Copies!HiddenIsGone

\* What is left of a page that was not to be changed.
LEMMA LooksAsItDid ==
  ASSUME cTask \in Copies!TaskRecords, IsAsBuilt, Copies!GeometryIsKept,
         cTask.op \in {"metadata", "compress", "protect", "unlock"}
  PROVE  Copies!LooksAsBefore
<1>1. ASSUME NEW i \in 1 .. Copies!Count
      PROVE  cCopy.pages[i].look = "as it was" /\ cCopy.pages[i].turn = Copies!Doc.pages[i].turn
  <2>1. cCopy.pages[i].turn = Copies!Doc.pages[i].turn
    BY <1>1 DEF Copies!GeometryIsKept
  <2>2. Len(cCopy.pages) = Copies!Count
    BY DEF Copies!GeometryIsKept
  <2>3. cCopy.pages[i] = Copies!PageOf(i)
    BY <1>1, <2>2, PagesAreBuilt
  <2>4. Copies!PageOf(i) = Copies!Plain(Copies!Doc.pages[i])
    BY DEF Copies!PageOf, Copies!ImageOps
  <2>5. Copies!Plain(Copies!Doc.pages[i]).look = "as it was"
    BY DEF Copies!Plain
  <2> QED
    BY <2>1, <2>3, <2>4, <2>5
<1> QED
  BY <1>1 DEF Copies!LooksAsBefore

LEMMA LayersAreTrue ==
  ASSUME Copies!LayersAreVerified
  PROVE  Copies!LooksAsBefore /\ Copies!TextIsAsBefore((1 .. Copies!Count) \ Copies!Recognized)
<1>1. ASSUME NEW i \in 1 .. Copies!Count
      PROVE  /\ cCopy.pages[i].look = "as it was" /\ cCopy.pages[i].turn = Copies!Doc.pages[i].turn
             /\ i \notin Copies!Recognized => cCopy.pages[i].text = {Copies!Doc.pages[i].text} \ {""}
  <2>1. cCopy.pages[i].turn = Copies!Doc.pages[i].turn
    BY <1>1 DEF Copies!LayersAreVerified, Copies!GeometryIsKept
  <2> QED
    BY <1>1, <2>1 DEF Copies!LayersAreVerified, Copies!Plain
<1> QED
  BY <1>1 DEF Copies!LooksAsBefore, Copies!TextIsAsBefore

\* A copy that has passed every look at it is true.
LEMMA VerifiedIsTrue ==
  ASSUME cTask \in Copies!TaskRecords, cSlip \in Copies!Slips[cTask.op],
         Copies!CanBeMade, IsAsBuilt, Copies!IsVerified, cCopy.of = {cKnown},
         cUnsigned = (cTask.doc.sign = "signed"), cTask.doc.sign # "malformed",
         cUnsigned => cCopy.sign = "none", ~Copies!HasNoGain,
         cTask.op \in Copies!ShareOps \ {"metadata"} => cTask.identity \in {0, cKnown}
  PROVE  Copies!IsTrue
<1>1. cCopy.there /\ cCopy.whole
  BY BuiltIs DEF Copies!IsVerified
<1>2. cCopy.sign # "signed"
  BY CopyIsUnsigned
<1>3. CASE cTask.op \in Copies!ImageOps
  <2>1. cTask.op \in {"photocopy", "redact"}
    BY <1>3 DEF Copies!ImageOps
  <2>2. Copies!ImagesAllowed
    BY <1>3 DEF Copies!CanBeMade
  <2>3. Copies!ImagesAreVerified /\ (cTask.op = "redact" => Copies!AreasAreVerified)
    BY <1>3, <2>1 DEF Copies!IsVerified
  <2>4. Len(cCopy.pages) = Copies!Count
    BY <2>3 DEF Copies!ImagesAreVerified
  <2>5. Copies!HiddenIsGone /\ ~cCopy.meta
    BY <1>3, <2>2, <2>3, ImagesAreTrue
  <2> QED
    BY <1>1, <1>2, <1>3, <2>1, <2>4, <2>5 DEF Copies!IsTrue, Copies!PasswordOps
<1>4. CASE cTask.op = "watermark"
  <2>1. Copies!MarksAreVerified
    BY <1>4 DEF Copies!IsVerified
  <2> QED
    BY <1>1, <1>2, <1>4, <2>1 DEF Copies!IsTrue, Copies!ImageOps, Copies!PasswordOps, Copies!MarksAreVerified
<1>5. CASE cTask.op = "ocr"
  <2>1. Copies!LayersAreVerified
    BY <1>5 DEF Copies!IsVerified
  <2>2. Len(cCopy.pages) = Copies!Count
    BY <2>1 DEF Copies!LayersAreVerified, Copies!GeometryIsKept
  <2>3. Copies!LooksAsBefore /\ Copies!TextIsAsBefore((1 .. Copies!Count) \ Copies!Recognized)
    BY <2>1, LayersAreTrue
  <2> QED
    BY <1>1, <1>2, <1>5, <2>2, <2>3 DEF Copies!IsTrue, Copies!ImageOps, Copies!PasswordOps
<1>6. ASSUME cTask.op \in {"metadata", "compress", "protect", "unlock"}, Copies!GeometryIsKept
      PROVE  Copies!LooksAsBefore /\ Len(cCopy.pages) = Copies!Count
  BY <1>6, LooksAsItDid DEF Copies!GeometryIsKept
<1>7. CASE cTask.op = "metadata"
  <2>1. Copies!GeometryIsKept /\ ~cCopy.meta
    BY <1>7 DEF Copies!IsVerified, Copies!PropertiesAreGone, Copies!StructureIsKept
  <2>2. Copies!LooksAsBefore /\ Len(cCopy.pages) = Copies!Count
    BY <1>6, <1>7, <2>1
  <2> QED
    BY <1>1, <1>2, <1>7, <2>1, <2>2 DEF Copies!IsTrue, Copies!ImageOps, Copies!PasswordOps
<1>8. CASE cTask.op = "compress"
  <2>1. Copies!GeometryIsKept
    BY <1>8 DEF Copies!IsVerified, Copies!CompressionIsVerified, Copies!StructureIsKept
  <2>2. Copies!LooksAsBefore /\ Len(cCopy.pages) = Copies!Count
    BY <1>6, <1>8, <2>1
  <2>3. cCopy.smaller
    BY <1>8 DEF Copies!HasNoGain
  <2> QED
    BY <1>1, <1>2, <1>8, <2>2, <2>3 DEF Copies!IsTrue, Copies!ImageOps, Copies!PasswordOps
<1>9. CASE cTask.op \in Copies!PasswordOps
  <2>1. cTask.op \in {"protect", "unlock"}
    BY <1>9 DEF Copies!PasswordOps
  <2>2. Copies!LockIsVerified
    BY <1>9, <2>1 DEF Copies!IsVerified
  <2>3. Copies!GeometryIsKept /\ (cCopy.lock = "password") = (cTask.op = "protect")
    BY <2>1, <2>2 DEF Copies!LockIsVerified, Copies!StructureIsKept
  <2>4. Copies!LooksAsBefore /\ Len(cCopy.pages) = Copies!Count
    BY <1>6, <2>1, <2>3
  <2> QED
    BY <1>1, <1>2, <1>9, <2>1, <2>3, <2>4 DEF Copies!IsTrue, Copies!ImageOps, Copies!PasswordOps
<1> QED
  BY TaskIs, <1>3, <1>4, <1>5, <1>7, <1>8, <1>9 DEF Copies!ImageOps, Copies!PasswordOps
-----------------------------------------------------------------------------
(* What was built right is verified.                                        *)

LEMMA RightlyBuilt ==
  ASSUME cTask \in Copies!TaskRecords, IsAsBuilt, cSlip = "none"
  PROVE  /\ Len(cCopy.pages) = Copies!Count /\ cCopy.whole /\ cCopy.catalog
         /\ \A i \in 1 .. Copies!Count : cCopy.pages[i] = Copies!PageOf(i)
         /\ cCopy.lock = IF cTask.op = "protect" THEN "password" ELSE "none"
         /\ cTask.op \in Copies!ImageOps \cup {"metadata"} => ~cCopy.meta
<1>1. cCopy.pages = [i \in 1 .. Copies!Count |-> Copies!PageOf(i)]
  BY BuiltIs DEF BuiltPages
<1>2. Len(cCopy.pages) = Copies!Count
  <2>1. Copies!Count \in Nat
    BY TaskIs
  <2>2. DOMAIN cCopy.pages = 1 .. Copies!Count /\ cCopy.pages = [i \in 1 .. Copies!Count |-> cCopy.pages[i]]
    BY <1>1
  <2> QED
    BY <2>1, <2>2, LengthIs
<1>3. cCopy.whole /\ cCopy.catalog
  BY BuiltIs
<1>4. cCopy.lock = IF cTask.op = "protect" THEN "password" ELSE "none"
  <2>1. cCopy.lock = Copies!LockOfCopy
    BY BuiltIs
  <2> QED
    BY <2>1 DEF Copies!LockOfCopy
<1>5. cTask.op \in Copies!ImageOps \cup {"metadata"} => ~cCopy.meta
  BY BuiltIs
<1> QED
  BY <1>1, <1>2, <1>3, <1>4, <1>5

LEMMA PlainIs ==
  ASSUME NEW page, NEW plain, plain = Copies!Plain(page)
  PROVE  /\ plain.points = page.points /\ plain.unit = page.unit /\ plain.turn = page.turn
         /\ plain.annots = page.annots
BY DEF Copies!Plain

LEMMA RightImages ==
  ASSUME cTask \in Copies!TaskRecords, IsAsBuilt, cSlip = "none", cTask.op \in Copies!ImageOps
  PROVE  Copies!ImagesAreVerified
<1>1. ASSUME NEW i \in 1 .. Copies!Count
      PROVE  /\ cCopy.pages[i].points = Copies!Physical(Copies!Doc.pages[i]) /\ ~cCopy.pages[i].extra
             /\ cCopy.pages[i].text = "" /\ cCopy.pages[i].picture = Copies!ExpectedPicture(i)
  <2>1. Copies!PageOf(i) = Copies!ImagePage(i)
    BY DEF Copies!PageOf, Copies!ImageOps
  <2>2. cCopy.pages[i] = Copies!ImagePage(i)
    BY <1>1, <2>1, RightlyBuilt
  <2> DEFINE page == Copies!ImagePage(i)
  <2>3. ~page.extra
    BY DEF Copies!ImagePage
  <2>4. page.points = Copies!Physical(Copies!Doc.pages[i]) /\ page.text = ""
    BY DEF Copies!ImagePage
  <2>5. page.picture = Copies!ExpectedPicture(i)
    BY DEF Copies!ImagePage
  <2> HIDE DEF page
  <2>6. cCopy.pages[i] = page
    BY <2>2 DEF page
  <2> QED
    BY <2>3, <2>4, <2>5, <2>6
<1> QED
  BY <1>1, RightlyBuilt DEF Copies!ImagesAreVerified

LEMMA RightAreas ==
  ASSUME cTask \in Copies!TaskRecords, IsAsBuilt, cSlip = "none", cTask.op = "redact", Copies!ImagesAllowed
  PROVE  Copies!AreasAreVerified
<1>1. cTask.op \in Copies!ImageOps
  BY DEF Copies!ImageOps
<1>2. Copies!ImagesAreVerified
  BY <1>1, RightImages
<1> SUFFICES ASSUME NEW a \in cTask.areas, NEW i \in Copies!VerifiedBox(a)
             PROVE  cCopy.pages[a.page].picture[i] = 0
  BY DEF Copies!AreasAreVerified
<1> DEFINE n == a.page
           page == Copies!Doc.pages[n]
           S == Copies!PixelWidth(page)
           d == Copies!Physical(page)
           u == page.unit
           x == a.x * S
           y == (a.x + a.width) * S
           q == Copies!Floor(u * x, d)
           c == Copies!Ceil(u * y, d)
<1>3. n \in 1 .. Copies!Count /\ a \in Copies!AreasOf(n)
  BY DEF Copies!ImagesAllowed, Copies!AreaFits, Copies!AreasOf
<1>4. S \in Nat \ {0} /\ d \in Nat \ {0} /\ u \in Nat \ {0}
  BY <1>3, PageIs
<1>5. cCopy.pages[n].points = d /\ cCopy.pages[n].picture = Copies!ExpectedPicture(n)
  BY <1>2, <1>3 DEF Copies!ImagesAreVerified
<1>6. Len(cCopy.pages[n].picture) = S
  <2> DEFINE f == Copies!ExpectedPicture(n)
  <2>1. f = [k \in 1 .. S |-> f[k]]
    BY DEF Copies!ExpectedPicture, Copies!BlackOut, Copies!Picture
  <2> HIDE DEF f, S
  <2>2. DOMAIN f = 1 .. S
    BY <2>1
  <2>3. Len(f) = S
    BY <1>4, <2>1, <2>2, LengthIs
  <2> QED
    BY <1>5, <2>3 DEF f
<1>7. a.x * u * S = u * x /\ (a.x + a.width) * u * S = u * y /\ x \in Nat /\ y \in Nat
  <2> HIDE DEF n, S, u
  <2> QED
    BY <1>3, <1>4, AreaIs
<1>8. i \in q + 1 .. Copies!Lesser(S, c)
  BY <1>5, <1>6, <1>7 DEF Copies!VerifiedBox, Copies!Doc
<1>9. q \in Nat /\ c \in Nat
  <2> HIDE DEF S, d, u, x, y
  <2>1. u * x \in Nat /\ u * y \in Nat
    BY <1>4, <1>7
  <2> QED
    BY <1>4, <2>1, FloorIs, CeilIs
<1>10. i \in 1 .. S /\ i >= q /\ i <= c + 1
  <2> HIDE DEF q, c, S
  <2> QED
    BY <1>4, <1>8, <1>9 DEF Copies!Lesser
<1>11. i \in Copies!PixelBox(a, u)
  <2>1. i \in Nat /\ i >= 1 /\ i <= S
    BY <1>4, <1>10
  <2> QED
    BY <1>3, <1>4, <1>10, <2>1, BoxIs
<1>12. i \in Copies!Boxes(n, cSlip)
  BY <1>3, <1>11 DEF Copies!Boxes
<1>13. Copies!ExpectedPicture(n)[i] = 0
  <2> HIDE DEF n
  <2> QED
    BY <1>3, <1>10, <1>12, ExpectedIs
<1> QED
  BY <1>5, <1>13

LEMMA RightMarks ==
  ASSUME cTask \in Copies!TaskRecords, IsAsBuilt, cSlip = "none", cTask.op = "watermark"
  PROVE  Copies!MarksAreVerified
<1>1. ASSUME NEW i \in 1 .. Copies!Count
      PROVE  /\ cCopy.pages[i].annots = Copies!Doc.pages[i].annots
             /\ "mark" \in cCopy.pages[i].text /\ cCopy.pages[i].look = "marked"
  <2>1. cCopy.pages[i] = Copies!Marked(i)
    BY <1>1, RightlyBuilt DEF Copies!PageOf, Copies!ImageOps
  <2> DEFINE page == Copies!Plain(Copies!Doc.pages[i])
  <2>2. Copies!Marked(i) = [page EXCEPT !.text = @ \cup {"mark"}, !.look = "marked"]
    BY DEF Copies!Marked
  <2> QED
    BY <2>1, <2>2 DEF Copies!Plain
<1> QED
  BY <1>1, RightlyBuilt DEF Copies!MarksAreVerified

LEMMA RightLayers ==
  ASSUME cTask \in Copies!TaskRecords, IsAsBuilt, cSlip = "none", cTask.op = "ocr"
  PROVE  Copies!LayersAreVerified
<1>1. ASSUME NEW i \in 1 .. Copies!Count, NEW page, page = Copies!Plain(Copies!Doc.pages[i])
      PROVE  cCopy.pages[i] = IF i \in Copies!Recognized THEN [page EXCEPT !.text = @ \cup {"layer"}] ELSE page
  <2>1. cCopy.pages[i] = Copies!Layered(i)
    BY <1>1, RightlyBuilt DEF Copies!PageOf, Copies!ImageOps
  <2> QED
    BY <1>1, <2>1 DEF Copies!Layered
<1>2. ASSUME NEW i \in 1 .. Copies!Count
      PROVE  /\ cCopy.pages[i].points = Copies!Doc.pages[i].points
             /\ cCopy.pages[i].unit = Copies!Doc.pages[i].unit
             /\ cCopy.pages[i].turn = Copies!Doc.pages[i].turn
             /\ cCopy.pages[i].annots = Copies!Doc.pages[i].annots
  <2> DEFINE page == Copies!Plain(Copies!Doc.pages[i])
  <2>1. /\ page.points = Copies!Doc.pages[i].points /\ page.unit = Copies!Doc.pages[i].unit
        /\ page.turn = Copies!Doc.pages[i].turn /\ page.annots = Copies!Doc.pages[i].annots
    BY PlainIs
  <2>2. cCopy.pages[i] = IF i \in Copies!Recognized THEN [page EXCEPT !.text = @ \cup {"layer"}] ELSE page
    BY <1>1, <1>2
  <2> HIDE DEF page
  <2> QED
    BY <2>1, <2>2
<1>3. Copies!GeometryIsKept
  BY <1>2, RightlyBuilt DEF Copies!GeometryIsKept
<1>4. ASSUME NEW i \in 1 .. Copies!Count, NEW page, page = Copies!Plain(Copies!Doc.pages[i])
      PROVE  /\ cCopy.pages[i].look = page.look
             /\ i \notin Copies!Recognized => cCopy.pages[i].text = page.text
             /\ i \in Copies!Recognized => cCopy.pages[i].text # {} /\ cCopy.pages[i].text # page.text
  <2>1. page.text = {Copies!Doc.pages[i].text} \ {""}
    BY <1>4 DEF Copies!Plain
  <2>2. CASE i \in Copies!Recognized
    <3>1. Copies!Doc.pages[i].text = ""
      BY <2>2 DEF Copies!Recognized, Copies!Scanned
    <3>2. cCopy.pages[i] = [page EXCEPT !.text = page.text \cup {"layer"}]
      BY <1>1, <1>4, <2>2
    <3>3. cCopy.pages[i].text = {"layer"} /\ page.text = {}
      BY <1>4, <2>1, <3>1, <3>2 DEF Copies!Plain
    <3>4. cCopy.pages[i].look = page.look
      BY <1>4, <3>2 DEF Copies!Plain
    <3> QED
      BY <2>2, <3>3, <3>4
  <2>3. CASE i \notin Copies!Recognized
    BY <1>1, <1>4, <2>3
  <2> QED
    BY <2>2, <2>3
<1> QED
  BY <1>3, <1>4 DEF Copies!LayersAreVerified

LEMMA RightStructure ==
  ASSUME cTask \in Copies!TaskRecords, IsAsBuilt, cSlip = "none",
         cTask.op \in {"metadata", "compress", "protect", "unlock"}
  PROVE  Copies!StructureIsKept
<1>1. ASSUME NEW i \in 1 .. Copies!Count
      PROVE  /\ cCopy.pages[i].points = Copies!Doc.pages[i].points
             /\ cCopy.pages[i].unit = Copies!Doc.pages[i].unit
             /\ cCopy.pages[i].turn = Copies!Doc.pages[i].turn
             /\ cCopy.pages[i].annots = Copies!Doc.pages[i].annots
  <2>1. cCopy.pages[i] = Copies!Plain(Copies!Doc.pages[i])
    BY <1>1, RightlyBuilt DEF Copies!PageOf, Copies!ImageOps
  <2> QED
    BY <2>1, PlainIs
<1> QED
  BY <1>1, RightlyBuilt DEF Copies!StructureIsKept, Copies!GeometryIsKept

LEMMA RightIsVerified ==
  ASSUME cTask \in Copies!TaskRecords, Copies!CanBeMade, IsAsBuilt, cSlip = "none"
  PROVE  Copies!IsVerified
<1>1. cCopy.whole /\ cCopy.lock = (IF cTask.op = "protect" THEN "password" ELSE "none")
      /\ (cTask.op \in Copies!ImageOps \cup {"metadata"} => ~cCopy.meta)
  BY RightlyBuilt
<1>2. cTask.op \in Copies!ImageOps => Copies!ImagesAreVerified
  BY RightImages
<1>3. cTask.op = "redact" => Copies!AreasAreVerified
  <2> SUFFICES ASSUME cTask.op = "redact" PROVE Copies!AreasAreVerified
    OBVIOUS
  <2>1. Copies!ImagesAllowed
    BY DEF Copies!CanBeMade, Copies!ImageOps
  <2> QED
    BY <2>1, RightAreas
<1>4. cTask.op = "watermark" => Copies!MarksAreVerified
  BY RightMarks
<1>5. cTask.op = "ocr" => Copies!LayersAreVerified
  BY RightLayers
<1>6. cTask.op \in {"metadata", "compress", "protect", "unlock"} => Copies!StructureIsKept
  BY RightStructure
<1> QED
  BY <1>1, <1>2, <1>3, <1>4, <1>5, <1>6
     DEF Copies!IsVerified, Copies!ImageOps, Copies!PasswordOps, Copies!PropertiesAreGone,
         Copies!CompressionIsVerified, Copies!LockIsVerified
-----------------------------------------------------------------------------
(* What depends on the job and its copy stays while these do.               *)

LEMMA SameVerdict ==
  ASSUME UNCHANGED <<cTask, cSlip, cCopy>>
  PROVE  Copies!IsVerified' = Copies!IsVerified
BY DEF Copies!IsVerified, Copies!ImagesAreVerified, Copies!AreasAreVerified, Copies!MarksAreVerified,
  Copies!LayersAreVerified, Copies!CompressionIsVerified, Copies!LockIsVerified, Copies!PropertiesAreGone,
  Copies!StructureIsKept, Copies!GeometryIsKept, Copies!Count, Copies!Doc, Copies!ExpectedPicture, Copies!Boxes,
  Copies!PixelBox, Copies!AreasOf, Copies!VerifiedBox, Copies!Recognized, Copies!Scanned, Copies!Chosen

LEMMA SameMade ==
  ASSUME UNCHANGED <<cTask, cSlip, cUnsigned>>
  PROVE  Copies!CanBeMade' = Copies!CanBeMade
BY DEF Copies!CanBeMade, Copies!ImagesAllowed, Copies!CanBeMarked, Copies!CanBeRead, Copies!GeometryIsSupported,
  Copies!AreaFits, Copies!Count, Copies!Doc, Copies!Recognized, Copies!Scanned, Copies!Chosen

LEMMA SameParts ==
  ASSUME UNCHANGED <<cTask, cSlip, cUnsigned>>, NEW versions, versions = cCopy'.of
  PROVE  BuiltFrom(cCopy.of)' = BuiltFrom(versions)
<1>1. \A i : Copies!PageOf(i)' = Copies!PageOf(i)
  BY DEF Copies!PageOf, Copies!ImagePage, Copies!Marked, Copies!Layered,
    Copies!Count, Copies!Doc, Copies!ExpectedPicture, Copies!Boxes,
    Copies!PixelBox, Copies!AreasOf, Copies!Recognized, Copies!Scanned, Copies!Chosen
<1>2. BuiltPages' = BuiltPages
  BY <1>1 DEF BuiltPages, Copies!Count, Copies!Doc
<1>3. Copies!LockOfCopy' = Copies!LockOfCopy /\ Copies!SignOfCopy' = Copies!SignOfCopy
  BY DEF Copies!LockOfCopy, Copies!SignOfCopy, Copies!Doc
<1> QED
  BY <1>2, <1>3 DEF BuiltFrom, Copies!Doc

LEMMA SameBuilt ==
  ASSUME UNCHANGED <<cTask, cSlip, cUnsigned, cCopy>>
  PROVE  IsAsBuilt' = IsAsBuilt
<1>1. BuiltFrom(cCopy.of)' = BuiltFrom(cCopy.of)
  BY SameParts
<1> QED
  BY <1>1 DEF IsAsBuilt

LEMMA SameTruth ==
  ASSUME UNCHANGED <<cTask, cKnown, cCopy>>
  PROVE  Copies!IsTrue' = Copies!IsTrue
BY DEF Copies!IsTrue, Copies!HiddenIsGone, Copies!LooksAsBefore, Copies!TextIsAsBefore, 
  Copies!Count, Copies!Doc, Copies!AreasOf, Copies!IsHidden, Copies!IsFar, Copies!Recognized, Copies!Scanned, Copies!Chosen

LEMMA WhatIsBuilt == Copies!Built = BuiltFrom(cReadAt \cup {cVersion})
BY DEF Copies!Built, BuiltFrom, BuiltPages
-----------------------------------------------------------------------------
(* The steps of the job.                                                    *)

LEMMA CopyStarts == FilesInit => CopiesInv
<1> SUFFICES ASSUME FilesInit PROVE CopiesInv
  OBVIOUS
<1>1. Copies!Init
  BY DEF FilesInit
<1>2. cTask \in Copies!TaskRecords
  BY <1>1, CopiesAssumption DEF Copies!Init
<1>3. cStep = "asked" /\ cReadAt = {} /\ cCopy = Copies!NoCopy
  BY <1>1 DEF Copies!Init
<1>4. CopyTypes
  BY <1>1, <1>2 DEF Copies!Init, CopyTypes
<1>5. NoCopyYet
  BY <1>3 DEF NoCopyYet, Copies!NoCopy
<1>6. SourceIsKnown /\ SignaturesAreKnown /\ CopyIsOfTheTask /\ CopyWasLookedAt /\ CopyHasEnded
  BY <1>3 DEF SourceIsKnown, SignaturesAreKnown, CopyIsOfTheTask, CopyWasLookedAt, CopyHasEnded, CopyHeld, CopyParsed,
     CopyMade
<1> QED
  BY <1>4, <1>5, <1>6 DEF CopiesInv

\* The source is written, or its name leads elsewhere.
LEMMA CopySource ==
  ASSUME CopiesInv, Copies!Overwritten \/ Copies!Replaced PROVE CopiesInv'
<1> USE DEF CopiesInv
<1>1. /\ UNCHANGED <<cTask, cStep, cKnown, cReadAt, cUnsigned, cCreated, cSlip, cCopy, cOutcome>>
      /\ cVersion' \in {cVersion, cVersion + 1}
  BY DEF Copies!Overwritten, Copies!Replaced
<1>2. cVersion \in Nat /\ cVersion' \in Nat /\ cVersion <= cVersion' /\ cKnown \in Nat
  BY <1>1 DEF CopyTypes
<1>3. cKnown .. cVersion \subseteq cKnown .. cVersion'
  BY <1>2
<1>4. CopyTypes' /\ NoCopyYet'
  BY <1>1, <1>2 DEF CopyTypes, NoCopyYet
<1>5. SourceIsKnown'
  BY <1>1, <1>2, <1>3 DEF SourceIsKnown
<1>6. SignaturesAreKnown'
  BY <1>1 DEF SignaturesAreKnown
<1>7. CopyIsOfTheTask'
  <2>1. Copies!CanBeMade' = Copies!CanBeMade /\ IsAsBuilt' = IsAsBuilt
    BY <1>1, SameMade, SameBuilt
  <2> QED
    BY <1>1, <1>3, <2>1 DEF CopyIsOfTheTask
<1>8. CopyWasLookedAt'
  <2>1. Copies!IsVerified' = Copies!IsVerified
    BY <1>1, SameVerdict
  <2> QED
    BY <1>1, <2>1 DEF CopyWasLookedAt
<1>9. CopyHasEnded'
  <2>1. Copies!IsTrue' = Copies!IsTrue
    BY <1>1, SameTruth
  <2> QED
    BY <1>1, <2>1 DEF CopyHasEnded
<1> QED
  BY <1>4, <1>5, <1>6, <1>7, <1>8, <1>9

\* A job that is refused, or has nothing to do, goes to its last handler.
LEMMA CopyFails ==
  ASSUME CopyTypes', cStep' = "failing", cOutcome' # "success",
         cCreated' \/ cTask'.op = "compress" \/ ~cCopy'.there
  PROVE  CopiesInv'
<1>1. cStep' \notin {"asked", "held", "parsed", "done"} \cup CopyHeld
  BY DEF CopyHeld, CopyParsed, CopyMade
<1>2. cStep' \notin CopyHeld /\ cStep' \notin CopyParsed /\ cStep' \notin CopyMade
  BY <1>1 DEF CopyHeld, CopyParsed
<1>3. NoCopyYet' /\ SourceIsKnown' /\ SignaturesAreKnown'
  BY <1>1, <1>2 DEF NoCopyYet, SourceIsKnown, SignaturesAreKnown
<1>4. CopyIsOfTheTask' /\ CopyWasLookedAt'
  BY <1>1, <1>2 DEF CopyIsOfTheTask, CopyWasLookedAt, CopyMade
<1>5. CopyHasEnded'
  BY DEF CopyHasEnded
<1> QED
  BY <1>3, <1>4, <1>5 DEF CopiesInv

\* A job that is done has a true copy, or none.
LEMMA CopyEnds ==
  ASSUME CopyTypes', cStep' = "done", IF cOutcome' = "success" THEN Copies!IsTrue' ELSE ~cCopy'.there
  PROVE  CopiesInv'
<1>1. cStep' \notin CopyHeld /\ cStep' \notin CopyParsed /\ cStep' \notin CopyMade
  BY DEF CopyHeld, CopyParsed, CopyMade
<1>2. NoCopyYet' /\ SourceIsKnown' /\ SignaturesAreKnown'
  BY <1>1 DEF NoCopyYet, SourceIsKnown, SignaturesAreKnown
<1>3. CopyIsOfTheTask' /\ CopyWasLookedAt'
  BY <1>1 DEF CopyIsOfTheTask, CopyWasLookedAt
<1>4. CopyHasEnded'
  BY DEF CopyHasEnded
<1> QED
  BY <1>2, <1>3, <1>4 DEF CopiesInv

LEMMA CopyTakesIdentity ==
  ASSUME CopiesInv, Copies!TakesIdentity PROVE CopiesInv'
<1> USE DEF CopiesInv
<1>1. /\ cStep = "asked" /\ cKnown' = cVersion
      /\ UNCHANGED <<cTask, cVersion, cSlip, cReadAt, cUnsigned, cCreated, cCopy>>
  BY DEF Copies!TakesIdentity, Copies!Same
<1>2. cVersion \in Nat /\ cReadAt = {} /\ ~cCopy.there
  BY <1>1 DEF CopyTypes, SourceIsKnown, NoCopyYet
<1>3. cStep' \in {"held", "failing"}
  BY DEF Copies!TakesIdentity, Copies!Refused
<1>4. CopyTypes'
  BY <1>1, <1>2, <1>3 DEF CopyTypes, CopyHeld
<1>5. CASE cStep' = "failing"
  <2>1. cOutcome' = "refused"
    BY <1>5 DEF Copies!TakesIdentity, Copies!Refused
  <2> QED
    BY <1>1, <1>2, <1>4, <1>5, <2>1, CopyFails
<1>6. CASE cStep' = "held"
  <2>1. cTask.op \in Copies!ShareOps \ {"metadata"} => cTask.identity \in {0, cVersion}
    BY <1>6 DEF Copies!TakesIdentity, Copies!Refused
  <2>2. SourceIsKnown'
    BY <1>1, <1>2, <1>6, <2>1 DEF SourceIsKnown
  <2>3. SignaturesAreKnown' /\ CopyIsOfTheTask' /\ CopyWasLookedAt' /\ CopyHasEnded'
    BY <1>6 DEF SignaturesAreKnown, CopyIsOfTheTask, CopyWasLookedAt, CopyHasEnded, CopyParsed, CopyMade
  <2>4. NoCopyYet'
    BY <1>1, <1>2 DEF NoCopyYet
  <2> QED
    BY <1>4, <2>2, <2>3, <2>4
<1> QED
  BY <1>3, <1>5, <1>6

LEMMA CopyParses ==
  ASSUME CopiesInv, Copies!Parses PROVE CopiesInv'
<1> USE DEF CopiesInv
<1>1. /\ cStep = "held" /\ cReadAt' = cReadAt \cup {cVersion}
      /\ UNCHANGED <<cTask, cVersion, cSlip, cKnown, cCreated, cCopy>>
  BY DEF Copies!Parses, Copies!Same
<1>2. cVersion \in Nat /\ cKnown \in Nat /\ ~cCopy.there /\ cKnown <= cVersion /\ cReadAt \subseteq cKnown .. cVersion
      /\ (cTask.op \in Copies!ShareOps \ {"metadata"} => cTask.identity \in {0, cKnown})
  BY <1>1 DEF CopyTypes, SourceIsKnown, NoCopyYet, CopyHeld
<1>3. /\ cStep' \in {"parsed", "failing"}
      /\ cStep' = "failing" => cOutcome' \in {"refused", "nothing to do"}
      /\ cStep' = "parsed" => Copies!SignatureAllows
      /\ cUnsigned' = cUnsigned \/ cUnsigned' = (cTask.doc.sign = "signed")
      /\ cStep' = "parsed" => cUnsigned' = (cTask.doc.sign = "signed")
  BY DEF Copies!Parses, Copies!Refused, Copies!Doc
<1>4. CopyTypes'
  BY <1>1, <1>2, <1>3 DEF CopyTypes, CopyHeld, CopyParsed
<1>5. CASE cStep' = "failing"
  <2>1. cOutcome' # "success"
    BY <1>3, <1>5
  <2> QED
    BY <1>1, <1>2, <1>4, <1>5, <2>1, CopyFails
<1>6. CASE cStep' = "parsed"
  <2>1. SourceIsKnown'
    <3>1. cVersion \in cKnown .. cVersion
      BY <1>2
    <3> QED
      BY <1>1, <1>2, <1>6, <3>1 DEF SourceIsKnown
  <2>2. SignaturesAreKnown'
    <3>1. cTask.doc.sign # "malformed"
      BY <1>3, <1>6 DEF Copies!SignatureAllows, Copies!Doc
    <3> QED
      BY <1>1, <1>3, <1>6, <3>1 DEF SignaturesAreKnown
  <2>3. CopyIsOfTheTask' /\ CopyWasLookedAt' /\ CopyHasEnded'
    BY <1>6 DEF CopyIsOfTheTask, CopyWasLookedAt, CopyHasEnded, CopyMade
  <2>4. NoCopyYet'
    BY <1>1, <1>2 DEF NoCopyYet
  <2> QED
    BY <1>4, <2>1, <2>2, <2>3, <2>4
<1> QED
  BY <1>3, <1>5, <1>6

LEMMA CopyBuilds ==
  ASSUME CopiesInv, Copies!Builds PROVE CopiesInv'
<1> USE DEF CopiesInv
<1>1. /\ cStep = "parsed" /\ cReadAt' = cReadAt \cup {cVersion}
      /\ UNCHANGED <<cTask, cVersion, cSlip, cKnown, cUnsigned>>
  BY DEF Copies!Builds, Copies!Same
<1>2. cVersion \in Nat /\ cKnown \in Nat /\ ~cCopy.there /\ cKnown <= cVersion /\ cReadAt \subseteq cKnown .. cVersion
      /\ (cTask.op \in Copies!ShareOps \ {"metadata"} => cTask.identity \in {0, cKnown})
  BY <1>1 DEF CopyTypes, SourceIsKnown, NoCopyYet, CopyHeld, CopyParsed
<1>3. CASE Copies!CanBeMade
  <2>1. cCopy' = Copies!Built /\ cStep' = "written" /\ cCreated' = TRUE
    BY <1>3 DEF Copies!Builds
  <2> DEFINE versions == cReadAt \cup {cVersion}
  <2>2. versions # {} /\ versions \subseteq cKnown .. cVersion
    BY <1>2
  <2>3. cCopy' = BuiltFrom(versions)
    BY <2>1, WhatIsBuilt
  <2>4. cCopy'.of = versions
    <3>1. BuiltFrom(versions).of = versions
      BY DEF BuiltFrom
    <3> HIDE DEF versions
    <3> QED
      BY <2>3, <3>1
  <2> HIDE DEF versions
  <2>5. BuiltFrom(cCopy.of)' = BuiltFrom(versions)
    BY <1>1, <2>4, SameParts
  <2>6. IsAsBuilt'
    BY <2>3, <2>5 DEF IsAsBuilt
  <2>7. CopyTypes'
    BY <1>1, <2>1 DEF CopyTypes, CopyHeld, CopyParsed, CopyMade
  <2>8. NoCopyYet'
    BY <2>1 DEF NoCopyYet
  <2>9. SourceIsKnown'
    BY <1>1, <1>2, <2>1, <2>2 DEF SourceIsKnown, versions
  <2>10. SignaturesAreKnown'
    BY <1>1 DEF SignaturesAreKnown, CopyParsed
  <2>11. CopyIsOfTheTask'
    <3>1. Copies!CanBeMade'
      BY <1>1, <1>3, SameMade
    <3> QED
      BY <1>1, <2>1, <2>2, <2>4, <2>6, <3>1 DEF CopyIsOfTheTask
  <2>12. CopyWasLookedAt' /\ CopyHasEnded'
    BY <2>1 DEF CopyWasLookedAt, CopyHasEnded
  <2> QED
    BY <2>7, <2>8, <2>9, <2>10, <2>11, <2>12
<1>4. CASE ~Copies!CanBeMade
  <2>1. cStep' = "failing" /\ cOutcome' = "refused" /\ UNCHANGED <<cCopy, cCreated>>
    BY <1>4 DEF Copies!Builds, Copies!Refused
  <2>2. CopyTypes'
    BY <1>1, <2>1 DEF CopyTypes
  <2> QED
    BY <1>2, <2>1, <2>2, CopyFails
<1> QED
  BY <1>3, <1>4

LEMMA CopySaveFails ==
  ASSUME CopiesInv, Copies!SaveFails PROVE CopiesInv'
<1>1. /\ cStep = "parsed" /\ cStep' = "failing" /\ cOutcome' = "refused"
      /\ UNCHANGED <<cTask, cVersion, cSlip, cKnown, cUnsigned>>
      /\ cCopy' = (IF cTask.op \in Copies!ImageOps THEN Copies!NoCopy ELSE [Copies!Built EXCEPT !.whole = FALSE])
      /\ cCreated' = (cTask.op \notin Copies!ImageOps \cup {"compress"})
  BY DEF Copies!SaveFails, Copies!Same, Copies!Refused
<1>2. CopyTypes'
  BY <1>1 DEF CopiesInv, CopyTypes
<1>3. CASE cTask.op \in Copies!ImageOps
  <2>1. ~cCopy'.there
    BY <1>1, <1>3 DEF Copies!NoCopy
  <2> QED
    BY <1>1, <1>2, <2>1, CopyFails
<1>4. CASE cTask.op \notin Copies!ImageOps
  <2>1. cCreated' \/ cTask'.op = "compress"
    BY <1>1, <1>4
  <2> QED
    BY <1>1, <1>2, <2>1, CopyFails
<1> QED
  BY <1>3, <1>4

\* A look at the copy or at the held file: either it is refused, or all that was known of it
\* still holds, and what was found besides.
LEMMA CopyLooks ==
  ASSUME CopiesInv, cStep \in {"written", "verified", "looking"},
         UNCHANGED <<cTask, cVersion, cSlip, cKnown, cReadAt, cUnsigned, cCreated, cCopy>>,
         \/ cStep' = "failing" /\ cOutcome' = "refused"
         \/ cStep' \in {"verified", "looking", "naming"} /\ CopyWasLookedAt'
  PROVE  CopiesInv'
<1> USE DEF CopiesInv
<1>1. cStep \in CopyMade /\ cStep \in CopyParsed /\ cStep \in CopyHeld
  BY DEF CopyMade, CopyParsed, CopyHeld
<1>2. CopyTypes'
  BY DEF CopyTypes, CopyHeld, CopyParsed, CopyMade
<1>3. cCreated
  BY <1>1 DEF CopyIsOfTheTask
<1>4. CASE cStep' = "failing" /\ cOutcome' = "refused"
  BY <1>2, <1>3, <1>4, CopyFails
<1>5. CASE cStep' \in {"verified", "looking", "naming"} /\ CopyWasLookedAt'
  <2>1. NoCopyYet' /\ CopyHasEnded'
    BY <1>5 DEF NoCopyYet, CopyHasEnded
  <2>2. SourceIsKnown'
    BY <1>1, <1>5 DEF SourceIsKnown
  <2>3. SignaturesAreKnown'
    BY <1>1 DEF SignaturesAreKnown
  <2>4. CopyIsOfTheTask'
    <3>1. Copies!CanBeMade' = Copies!CanBeMade /\ IsAsBuilt' = IsAsBuilt
      BY SameMade, SameBuilt
    <3> QED
      BY <1>1, <3>1 DEF CopyIsOfTheTask
  <2> QED
    BY <1>2, <1>5, <2>1, <2>2, <2>3, <2>4
<1> QED
  BY <1>4, <1>5

LEMMA CopyVerifies ==
  ASSUME CopiesInv, Copies!Verifies \/ Copies!VerifiesUnsigned \/ Copies!LooksAtFile PROVE CopiesInv'
<1>1. UNCHANGED <<cTask, cVersion, cSlip, cKnown, cReadAt, cUnsigned, cCreated, cCopy>>
  BY DEF Copies!Verifies, Copies!VerifiesUnsigned, Copies!LooksAtFile, Copies!Same
<1>2. Copies!IsVerified' = Copies!IsVerified
  BY <1>1, SameVerdict
<1>3. CASE Copies!Verifies
  <2>1. cStep = "written" /\ (\/ cStep' = "failing" /\ cOutcome' = "refused"
                              \/ cStep' = "verified" /\ Copies!IsVerified)
    BY <1>3 DEF Copies!Verifies, Copies!Refused
  <2>2. cStep' = "verified" /\ Copies!IsVerified => CopyWasLookedAt'
    BY <1>2 DEF CopyWasLookedAt
  <2> QED
    BY <1>1, <2>1, <2>2, CopyLooks
<1>4. CASE Copies!VerifiesUnsigned
  <2>1. cStep = "verified" /\ (\/ cStep' = "failing" /\ cOutcome' = "refused"
                               \/ cStep' = "looking" /\ (cUnsigned => cCopy.sign = "none"))
    BY <1>4 DEF Copies!VerifiesUnsigned, Copies!Refused
  <2>2. Copies!IsVerified
    BY <2>1 DEF CopiesInv, CopyWasLookedAt
  <2>3. cStep' = "looking" /\ (cUnsigned => cCopy.sign = "none") => CopyWasLookedAt'
    BY <1>1, <1>2, <2>2 DEF CopyWasLookedAt
  <2> QED
    BY <1>1, <2>1, <2>3, CopyLooks
<1>5. CASE Copies!LooksAtFile
  <2>1. cStep = "looking" /\ (\/ cStep' = "failing" /\ cOutcome' = "refused"
                              \/ cStep' = "naming" /\ cVersion = cKnown)
    BY <1>5 DEF Copies!LooksAtFile, Copies!Refused
  <2>2. Copies!IsVerified /\ (cUnsigned => cCopy.sign = "none")
    BY <2>1 DEF CopiesInv, CopyWasLookedAt
  <2>3. cKnown \in Nat /\ cCopy.of # {} /\ cCopy.of \subseteq cKnown .. cVersion
    BY <2>1 DEF CopiesInv, CopyTypes, CopyIsOfTheTask, CopyMade
  <2>4. ASSUME cVersion = cKnown PROVE cCopy.of = {cKnown}
    <3>1. cKnown .. cVersion = {cKnown}
      BY <2>3, <2>4
    <3> QED
      BY <2>3, <3>1
  <2>5. cStep' = "naming" /\ cVersion = cKnown => CopyWasLookedAt'
    BY <1>1, <1>2, <2>2, <2>4 DEF CopyWasLookedAt
  <2> QED
    BY <1>1, <2>1, <2>5, CopyLooks
<1> QED
  BY <1>3, <1>4, <1>5

LEMMA CopyLooksAtName ==
  ASSUME CopiesInv, Copies!LooksAtName PROVE CopiesInv'
<1> USE DEF CopiesInv
<1>1. cStep = "naming" /\ UNCHANGED <<cTask, cVersion, cSlip, cKnown, cReadAt, cUnsigned, cCreated>>
  BY DEF Copies!LooksAtName, Copies!Same
<1>2. cCreated /\ Copies!CanBeMade /\ IsAsBuilt
  BY <1>1 DEF CopyIsOfTheTask, CopyMade
<1>3. Copies!IsVerified /\ (cUnsigned => cCopy.sign = "none") /\ cCopy.of = {cKnown}
  BY <1>1 DEF CopyWasLookedAt
<1>4. cUnsigned = (cTask.doc.sign = "signed") /\ cTask.doc.sign # "malformed"
  BY <1>1 DEF SignaturesAreKnown, CopyParsed, CopyMade
<1>5. cTask.op \in Copies!ShareOps \ {"metadata"} => cTask.identity \in {0, cKnown}
  BY <1>1 DEF SourceIsKnown, CopyHeld, CopyParsed, CopyMade
<1>6. \/ cStep' = "failing" /\ cOutcome' = "refused"
      \/ cStep' = "done" /\ cCopy' = Copies!NoCopy /\ cOutcome' = "no gain"
      \/ cStep' = "done" /\ cCopy' = cCopy /\ cOutcome' = "success" /\ ~Copies!HasNoGain
  BY DEF Copies!LooksAtName, Copies!Refused
<1>7. CopyTypes'
  BY <1>1, <1>6 DEF CopyTypes
<1>8. CASE cStep' = "failing" /\ cOutcome' = "refused"
  BY <1>1, <1>2, <1>7, <1>8, CopyFails
<1>9. CASE cStep' = "done" /\ cCopy' = Copies!NoCopy /\ cOutcome' = "no gain"
  BY <1>7, <1>9, CopyEnds DEF Copies!NoCopy
<1>10. CASE cStep' = "done" /\ cCopy' = cCopy /\ cOutcome' = "success" /\ ~Copies!HasNoGain
  <2>1. cTask \in Copies!TaskRecords /\ cSlip \in Copies!Slips[cTask.op]
    BY DEF CopyTypes
  <2>2. Copies!IsTrue
    BY <1>2, <1>3, <1>4, <1>5, <1>10, <2>1, VerifiedIsTrue
  <2>3. Copies!IsTrue'
    BY <1>1, <1>10, <2>2, SameTruth
  <2> QED
    BY <1>7, <1>10, <2>3, CopyEnds
<1> QED
  BY <1>6, <1>8, <1>9, <1>10

LEMMA CopyCleansUp ==
  ASSUME CopiesInv, Copies!CleansUp PROVE CopiesInv'
<1> USE DEF CopiesInv
<1>1. /\ cStep = "failing" /\ cStep' = "done" /\ cOutcome' = cOutcome
      /\ UNCHANGED <<cTask, cVersion, cSlip, cKnown, cReadAt, cUnsigned, cCreated>>
      /\ cCopy' = (IF cCreated \/ cTask.op = "compress" THEN Copies!NoCopy ELSE cCopy)
  BY DEF Copies!CleansUp, Copies!Same
<1>2. cOutcome # "success" /\ (cCreated \/ cTask.op = "compress" \/ ~cCopy.there)
  BY <1>1 DEF CopyHasEnded
<1>3. ~cCopy'.there
  BY <1>1, <1>2 DEF Copies!NoCopy
<1>4. CopyTypes'
  BY <1>1 DEF CopyTypes
<1> QED
  BY <1>1, <1>2, <1>3, <1>4, CopyEnds

LEMMA CopySteps == CopiesInv /\ [Copies!Next]_copyVars => CopiesInv'
<1> SUFFICES ASSUME CopiesInv, [Copies!Next]_copyVars PROVE CopiesInv'
  OBVIOUS
<1>1. CASE UNCHANGED copyVars
  <2>1. UNCHANGED <<cTask, cStep, cVersion, cMoved, cKnown, cReadAt, cUnsigned, cCreated, cSlip, cCopy, cOutcome>>
    BY <1>1 DEF copyVars
  <2>2. /\ Copies!CanBeMade' = Copies!CanBeMade /\ IsAsBuilt' = IsAsBuilt
        /\ Copies!IsVerified' = Copies!IsVerified /\ Copies!IsTrue' = Copies!IsTrue
    BY <2>1, SameMade, SameBuilt, SameVerdict, SameTruth
  <2> QED
    BY <2>1, <2>2 DEF CopiesInv, CopyTypes, NoCopyYet, SourceIsKnown, SignaturesAreKnown, CopyIsOfTheTask,
       CopyWasLookedAt, CopyHasEnded
<1> QED
  BY <1>1, CopySource, CopyTakesIdentity, CopyParses, CopyBuilds, CopySaveFails, CopyVerifies, CopyLooksAtName,
     CopyCleansUp DEF Copies!Next

(* Whatever the jobs that are asked for, the pages, the areas and the       *)
(* scales of their documents, whatever goes wrong in the building, and      *)
(* whenever the source is written: a copy of a whole document is true or    *)
(* is not there, and one that was built right is not refused (run_share_job,*)
(* run_ocr_job, run_compression_job, run_password_job and what they verify).*)
THEOREM CopiesOfDocumentsAreTrue == FilesSpec => []CopiesAreTrue
<1>1. CopiesInv /\ [FilesNext]_allVars => CopiesInv'
  <2>1. [FilesNext]_allVars => [Copies!Next]_copyVars
    BY DEF FilesNext, allVars
  <2> QED
    BY <2>1, CopySteps
<1>2. CopiesInv => Copies!OnlyTrueCopies
  <2> SUFFICES ASSUME CopiesInv PROVE Copies!OnlyTrueCopies
    OBVIOUS
  <2>1. cStep = "done" => IF cOutcome = "success" THEN Copies!IsTrue ELSE ~cCopy.there
    BY DEF CopiesInv, CopyHasEnded
  <2>2. cStep = "written" /\ cSlip = "none" => Copies!IsVerified
    BY RightIsVerified DEF CopiesInv, CopyTypes, CopyIsOfTheTask, CopyMade
  <2> QED
    BY <2>1, <2>2 DEF Copies!OnlyTrueCopies
<1>3. CopiesInv => CopiesAreTrue
  BY <1>2 DEF CopiesAreTrue
<1> QED
  BY <1>1, <1>3, CopyStarts, PTL DEF FilesSpec

-----------------------------------------------------------------------------
(* What LayeredPages makes of the documents.                               *)
\* A value may be computed from one step to the next.
StaysIn(S, n, F) == \A i \in 1 .. n, s \in S : F[<<i, s>>] \in S
IsComputed(S, base, n, F) ==
  \E f \in [0 .. n -> S] : f[0] = base /\ \A i \in 1 .. n : f[i] = F[<<i, f[i - 1]>>]

LEMMA StepByStep ==
  ASSUME NEW S, NEW base \in S, NEW n \in Nat, NEW F, StaysIn(S, n, F)
  PROVE  IsComputed(S, base, n, F)
<1> USE DEF StaysIn
<1> DEFINE Is(f, m) == /\ f \in [0 .. m -> S] /\ f[0] = base
                       /\ \A i \in 1 .. m : f[i] = F[<<i, f[i - 1]>>]
           bad == {m \in 0 .. n : \A f : ~Is(f, m)}
<1>1. bad = {}
  <2> SUFFICES ASSUME bad # {} PROVE FALSE OBVIOUS
  <2>0. bad \subseteq Nat OBVIOUS
  <2> HIDE DEF bad
  <2>1. PICK m \in bad : \A k \in bad : m <= k BY <2>0, Least
  <2>2. Is([i \in 0 .. 0 |-> base], 0) OBVIOUS
  <2> USE DEF bad
  <2>3. m # 0 /\ m \in 1 .. n
    <3>1. m \in 0 .. n BY <2>1
    <3>2. m # 0 BY <2>1, <2>2
    <3> QED BY <3>1, <3>2
  <2>4. m - 1 \in 0 .. n /\ m - 1 \notin bad BY <2>1, <2>3
  <2>5. PICK g : Is(g, m - 1) BY <2>4
  <2> DEFINE h == [i \in 0 .. m |-> IF i = m THEN F[<<m, g[m - 1]>>] ELSE g[i]]
  <2>6. g[m - 1] \in S BY <2>3, <2>5
  <2>7. F[<<m, g[m - 1]>>] \in S BY <2>3, <2>6
  <2>8. h \in [0 .. m -> S]
    <3> SUFFICES ASSUME NEW i \in 0 .. m PROVE h[i] \in S OBVIOUS
    <3>1. CASE i = m BY <2>7, <3>1
    <3>2. CASE i # m
      <4>1. i \in 0 .. m - 1 BY <2>3, <3>2
      <4> QED BY <2>5, <3>2, <4>1
    <3> QED BY <3>1, <3>2
  <2>9. h[0] = base BY <2>3, <2>5
  <2>10. ASSUME NEW i \in 1 .. m PROVE h[i] = F[<<i, h[i - 1]>>]
    <3>1. i - 1 \in 0 .. m /\ i - 1 # m /\ h[i - 1] = g[i - 1] BY <2>3
    <3>2. CASE i = m BY <3>1, <3>2
    <3>3. CASE i # m
      <4>1. i \in 1 .. m - 1 BY <2>3, <3>3
      <4>2. g[i] = F[<<i, g[i - 1]>>] BY <2>5, <4>1
      <4> QED BY <3>1, <3>3, <4>2
    <3> QED BY <3>2, <3>3
  <2>11. Is(h, m) BY <2>8, <2>9, <2>10
  <2> QED BY <2>1, <2>11
<1>2. n \in 0 .. n OBVIOUS
<1>3. \E f : Is(f, n) BY <1>1, <1>2
<1> QED BY <1>3 DEF IsComputed

LEMMA StepsReach ==
  ASSUME NEW n \in Nat, NEW Good, 0 \in Good, \A i \in 1 .. n : i - 1 \in Good => i \in Good
  PROVE  \A i \in 0 .. n : i \in Good
<1> DEFINE bad == {i \in 0 .. n : i \notin Good}
<1>1. bad = {}
  <2> SUFFICES ASSUME bad # {} PROVE FALSE
    OBVIOUS
  <2>1. bad \subseteq Nat
    OBVIOUS
  <2> HIDE DEF bad
  <2>2. PICK m \in bad : \A k \in bad : m <= k
    BY <2>1, Least
  <2> USE DEF bad
  <2>3. m \in 1 .. n
    BY <2>2
  <2>4. m - 1 \in 0 .. n /\ m - 1 \notin bad
    BY <2>2, <2>3
  <2> QED
    BY <2>2, <2>3, <2>4
<1> QED
  BY <1>1

-----------------------------------------------------------------------------
(* Sequences (LayeredPages).                                               *)

LEMMA CountedThere ==
  ASSUME NEW S PROVE Engine!Cardinality(S) = Cardinality(S) /\ Engine!IsFiniteSet(S) = IsFiniteSet(S)
BY DEF Engine!Cardinality, Cardinality, Engine!IsFiniteSet, IsFiniteSet

LEMMA RangeIs ==
  ASSUME NEW T, NEW s \in Seq(T)
  PROVE  /\ Engine!Range(s) \subseteq T
         /\ Engine!Range(<<>>) = {}
         /\ \A x \in T : Engine!Range(Append(s, x)) = Engine!Range(s) \cup {x}
<1>1. ASSUME NEW x \in T PROVE Engine!Range(Append(s, x)) = Engine!Range(s) \cup {x}
  <2> DEFINE more == Append(s, x)
  <2>1. DOMAIN more = 1 .. Len(s) + 1 /\ more[Len(s) + 1] = x /\ \A i \in 1 .. Len(s) : more[i] = s[i]
    OBVIOUS
  <2>2. Len(s) \in Nat /\ DOMAIN s = 1 .. Len(s)
    OBVIOUS
  <2> HIDE DEF more
  <2>3. ASSUME NEW y \in Engine!Range(more) PROVE y \in Engine!Range(s) \cup {x}
    <3>1. PICK i \in DOMAIN more : y = more[i]
      BY DEF Engine!Range
    <3> QED
      BY <2>1, <2>2, <3>1 DEF Engine!Range
  <2>4. ASSUME NEW y \in Engine!Range(s) PROVE y \in Engine!Range(more)
    <3>1. PICK i \in 1 .. Len(s) : y = s[i]
      BY <2>2 DEF Engine!Range
    <3>2. i \in DOMAIN more /\ more[i] = y
      BY <2>1, <2>2, <3>1
    <3> QED
      BY <3>2 DEF Engine!Range
  <2>5. x \in Engine!Range(more)
    <3>1. Len(s) + 1 \in DOMAIN more
      BY <2>1, <2>2
    <3> QED
      BY <2>1, <3>1 DEF Engine!Range
  <2>6. Engine!Range(more) = Engine!Range(s) \cup {x}
    BY <2>3, <2>4, <2>5
  <2> QED
    BY <2>6 DEF more
<1>2. Engine!Range(s) \subseteq T /\ Engine!Range(<<>>) = {}
  BY DEF Engine!Range
<1> QED
  BY <1>1, <1>2

LEMMA RangeOfBoth ==
  ASSUME NEW T, NEW s \in Seq(T), NEW t \in Seq(T)
  PROVE  Engine!Range(s \o t) = Engine!Range(s) \cup Engine!Range(t)
<1> DEFINE both == s \o t
           m == Len(s)
           n == Len(t)
<1>1. /\ m \in Nat /\ n \in Nat /\ DOMAIN s = 1 .. m /\ DOMAIN t = 1 .. n /\ DOMAIN both = 1 .. m + n
      /\ \A i \in 1 .. m + n : both[i] = IF i <= m THEN s[i] ELSE t[i - m]
  OBVIOUS
<1> HIDE DEF both, m, n
<1>2. ASSUME NEW y \in Engine!Range(both) PROVE y \in Engine!Range(s) \cup Engine!Range(t)
  <2>1. PICK i \in 1 .. m + n : y = both[i]
    BY <1>1 DEF Engine!Range
  <2>2. CASE i <= m
    BY <1>1, <2>1, <2>2 DEF Engine!Range
  <2>3. CASE ~(i <= m)
    <3>1. i - m \in 1 .. n /\ y = t[i - m]
      BY <1>1, <2>1, <2>3
    <3> QED
      BY <1>1, <3>1 DEF Engine!Range
  <2> QED
    BY <2>2, <2>3
<1>3. ASSUME NEW y \in Engine!Range(s) PROVE y \in Engine!Range(both)
  <2>1. PICK i \in 1 .. m : y = s[i]
    BY <1>1 DEF Engine!Range
  <2>2. i \in 1 .. m + n /\ both[i] = y
    BY <1>1, <2>1
  <2> QED
    BY <1>1, <2>2 DEF Engine!Range
<1>4. ASSUME NEW y \in Engine!Range(t) PROVE y \in Engine!Range(both)
  <2>1. PICK i \in 1 .. n : y = t[i]
    BY <1>1 DEF Engine!Range
  <2>2. i + m \in 1 .. m + n /\ ~(i + m <= m) /\ i + m - m = i
    BY <1>1
  <2>3. both[i + m] = y
    BY <1>1, <2>1, <2>2
  <2> QED
    BY <1>1, <2>2, <2>3 DEF Engine!Range
<1>5. Engine!Range(both) = Engine!Range(s) \cup Engine!Range(t)
  BY <1>2, <1>3, <1>4
<1> QED
  BY <1>5 DEF both

\* Unique, one element after the other.
LEMMA UniqueStepByStep ==
  ASSUME NEW T, NEW s \in Seq(T)
  PROVE  \E firsts \in [0 .. Len(s) -> Seq(T)] :
           /\ firsts[0] = <<>> /\ Engine!Unique(s) = firsts[Len(s)]
           /\ \A i \in 1 .. Len(s) :
                firsts[i] = IF s[i] \in Engine!Range(firsts[i - 1]) THEN firsts[i - 1]
                            ELSE Append(firsts[i - 1], s[i])
<1> DEFINE size == Len(s)
           S == Seq(T)
           More(list, x) == IF x \in Engine!Range(list) THEN list ELSE Append(list, x)
           F == [p \in (1 .. size) \X S |-> More(p[2], s[p[1]])]
           firsts[n \in 0 .. size] == IF n = 0 THEN <<>> ELSE More(firsts[n - 1], s[n])
<1>1. size \in Nat /\ <<>> \in S /\ \A i \in 1 .. size : s[i] \in T
  OBVIOUS
<1>2. \A i \in 1 .. size, list \in S : F[<<i, list>>] = More(list, s[i])
  OBVIOUS
<1>3. ASSUME NEW i \in 1 .. size, NEW list \in S PROVE More(list, s[i]) \in S
  BY <1>1
<1>4. Engine!Unique(s) = firsts[size]
  BY DEF Engine!Unique
<1> HIDE DEF S, F, More
<1>5. PICK f \in [0 .. size -> S] : f[0] = <<>> /\ \A i \in 1 .. size : f[i] = F[<<i, f[i - 1]>>]
  <2>1. StaysIn(S, size, F)
    BY <1>2, <1>3 DEF StaysIn
  <2>2. IsComputed(S, <<>>, size, F)
    BY <1>1, <2>1, StepByStep
  <2> QED
    BY <2>2 DEF IsComputed
<1>6. \A i \in 0 .. size : i # 0 => f[i - 1] \in S /\ i \in 1 .. size
  BY <1>1, <1>5
<1>7. f = [i \in 0 .. size |-> IF i = 0 THEN <<>> ELSE More(f[i - 1], s[i])]
  <2>1. ASSUME NEW i \in 0 .. size PROVE f[i] = IF i = 0 THEN <<>> ELSE More(f[i - 1], s[i])
    BY <1>2, <1>5, <1>6
  <2> QED
    BY <2>1
<1>8. firsts = [i \in 0 .. size |-> IF i = 0 THEN <<>> ELSE More(firsts[i - 1], s[i])]
  BY <1>7
<1> HIDE DEF firsts
<1>9. firsts[0] = <<>> /\ \A i \in 1 .. size : firsts[i] = More(firsts[i - 1], s[i])
  BY <1>1, <1>8
<1>10. \A i \in 0 .. size : firsts[i] \in S
  <2> DEFINE Good == {i \in 0 .. size : firsts[i] \in S}
  <2>1. 0 \in Good
    BY <1>1, <1>9
  <2>2. ASSUME NEW i \in 1 .. size, i - 1 \in Good PROVE i \in Good
    BY <1>1, <1>3, <1>9, <2>2
  <2> HIDE DEF Good
  <2>3. \A i \in 0 .. size : i \in Good
    BY <1>1, <2>1, <2>2, StepsReach
  <2> QED
    BY <2>3 DEF Good
<1>11. firsts \in [0 .. size -> S]
  BY <1>8, <1>10
<1> QED
  BY <1>4, <1>9, <1>11 DEF S, More


\* A sequence without repetitions, of the elements of the first n of another.
IsUnique(u, s, n) ==
  /\ Engine!Range(u) = {s[i] : i \in 1 .. n}
  /\ IsFiniteSet(Engine!Range(u)) /\ Len(u) = Cardinality(Engine!Range(u))
  /\ \A i, k \in 1 .. Len(u) : u[i] = u[k] => i = k

LEMMA OneMoreUnique ==
  ASSUME NEW T, NEW s \in Seq(T), NEW n \in 1 .. Len(s), NEW u \in Seq(T), IsUnique(u, s, n - 1),
         NEW more, more = IF s[n] \in Engine!Range(u) THEN u ELSE Append(u, s[n])
  PROVE  IsUnique(more, s, n)
<1> DEFINE x == s[n]
<1>1. x \in T /\ n \in Nat /\ {s[i] : i \in 1 .. n} = {s[i] : i \in 1 .. n - 1} \cup {x}
  <2>1. n \in 1 .. n /\ \A i \in 1 .. n : i \in 1 .. n - 1 \/ i = n
    OBVIOUS
  <2>2. \A i \in 1 .. n - 1 : i \in 1 .. n
    OBVIOUS
  <2> QED
    BY <2>1, <2>2
<1>2. CASE x \in Engine!Range(u)
  BY <1>1, <1>2 DEF IsUnique
<1>3. CASE x \notin Engine!Range(u)
  <2>1. more = Append(u, x)
    BY <1>3
  <2>2. Engine!Range(more) = Engine!Range(u) \cup {x}
    BY <1>1, <2>1, RangeIs
  <2>3. /\ Len(u) \in Nat /\ Len(more) = Len(u) + 1 /\ more[Len(u) + 1] = x
        /\ \A i \in 1 .. Len(u) : more[i] = u[i]
    BY <1>1, <2>1
  <2>4. IsFiniteSet(Engine!Range(more)) /\ Cardinality(Engine!Range(more)) = Cardinality(Engine!Range(u)) + 1
    <3>1. IsFiniteSet(Engine!Range(u)) /\ x \notin Engine!Range(u)
      BY <1>3 DEF IsUnique
    <3> QED
      BY <2>2, <3>1, FS_AddElement
  <2>5. Engine!Range(more) = {s[i] : i \in 1 .. n}
    BY <1>1, <2>2 DEF IsUnique
  <2>6. \A i \in 1 .. Len(u) : u[i] # x
    <3>1. DOMAIN u = 1 .. Len(u)
      OBVIOUS
    <3> QED
      BY <1>3, <3>1 DEF Engine!Range
  <2>7. ASSUME NEW i \in 1 .. Len(more), NEW k \in 1 .. Len(more), more[i] = more[k] PROVE i = k
    <3>1. i \in 1 .. Len(u) \/ i = Len(u) + 1
      BY <2>3
    <3>2. k \in 1 .. Len(u) \/ k = Len(u) + 1
      BY <2>3
    <3> QED
      BY <2>3, <2>6, <2>7, <3>1, <3>2 DEF IsUnique
  <2> QED
    BY <2>3, <2>4, <2>5, <2>7 DEF IsUnique
<1> QED
  BY <1>2, <1>3

LEMMA UniqueIs ==
  ASSUME NEW T, NEW s \in Seq(T)
  PROVE  Engine!Unique(s) \in Seq(T) /\ IsUnique(Engine!Unique(s), s, Len(s))
<1>1. PICK firsts \in [0 .. Len(s) -> Seq(T)] :
        /\ firsts[0] = <<>> /\ Engine!Unique(s) = firsts[Len(s)]
        /\ \A i \in 1 .. Len(s) :
             firsts[i] = IF s[i] \in Engine!Range(firsts[i - 1]) THEN firsts[i - 1]
                         ELSE Append(firsts[i - 1], s[i])
  BY UniqueStepByStep
<1>2. Len(s) \in Nat
  OBVIOUS
<1> DEFINE Good == {i \in 0 .. Len(s) : IsUnique(firsts[i], s, i)}
<1>3. 0 \in Good
  <2>1. Engine!Range(<<>>) = {}
    BY DEF Engine!Range
  <2>2. {s[i] : i \in 1 .. 0} = {} /\ Len(<<>>) = 0
    OBVIOUS
  <2>3. IsFiniteSet({}) /\ Cardinality({}) = 0
    BY FS_EmptySet
  <2>4. IsUnique(<<>>, s, 0)
    BY <2>1, <2>2, <2>3 DEF IsUnique
  <2> QED
    BY <1>1, <1>2, <2>4
<1>4. ASSUME NEW i \in 1 .. Len(s), i - 1 \in Good PROVE i \in Good
  <2>1. i - 1 \in 0 .. Len(s) /\ i \in 0 .. Len(s)
    BY <1>2
  <2>2. firsts[i - 1] \in Seq(T) /\ IsUnique(firsts[i - 1], s, i - 1)
    BY <1>1, <1>4, <2>1
  <2>3. IsUnique(firsts[i], s, i)
    BY <1>1, <2>2, OneMoreUnique
  <2> QED
    BY <2>1, <2>3
<1> HIDE DEF Good
<1>5. \A i \in 0 .. Len(s) : i \in Good
  BY <1>2, <1>3, <1>4, StepsReach
<1>6. Len(s) \in 0 .. Len(s)
  BY <1>2
<1> QED
  BY <1>1, <1>5, <1>6 DEF Good

\* Each element once.
LEMMA OnceEach ==
  ASSUME NEW T, NEW s \in Seq(T), NEW u, u = Engine!Unique(s)
  PROVE  /\ u \in Seq(T) /\ Engine!Range(u) = Engine!Range(s)
         /\ IsFiniteSet(Engine!Range(s)) /\ Len(u) = Cardinality(Engine!Range(s))
         /\ \A i, k \in 1 .. Len(u) : u[i] = u[k] => i = k
<1>1. DOMAIN s = 1 .. Len(s)
  OBVIOUS
<1>2. Engine!Range(s) = {s[i] : i \in 1 .. Len(s)}
  BY <1>1 DEF Engine!Range
<1>3. u \in Seq(T) /\ IsUnique(u, s, Len(s))
  BY UniqueIs
<1> QED
  BY <1>2, <1>3 DEF IsUnique

\* Those, one element after the other.
AreThose(those, s, S) ==
  /\ those[0] = <<>> /\ Engine!Those(s, S) = those[Len(s)]
  /\ \A i \in 1 .. Len(s) : those[i] = IF s[i] \in S THEN Append(those[i - 1], s[i]) ELSE those[i - 1]

LEMMA ThoseStepByStep ==
  ASSUME NEW T, NEW s \in Seq(T), NEW S
  PROVE  \E those \in [0 .. Len(s) -> Seq(T)] : AreThose(those, s, S)
<1> DEFINE size == Len(s)
           Lists == Seq(T)
           More(list, x) == IF x \in S THEN Append(list, x) ELSE list
           F == [p \in (1 .. size) \X Lists |-> More(p[2], s[p[1]])]
           those[n \in 0 .. size] == IF n = 0 THEN <<>> ELSE More(those[n - 1], s[n])
<1>1. size \in Nat /\ <<>> \in Lists /\ \A i \in 1 .. size : s[i] \in T
  OBVIOUS
<1>2. \A i \in 1 .. size, list \in Lists : F[<<i, list>>] = More(list, s[i])
  OBVIOUS
<1>3. ASSUME NEW i \in 1 .. size, NEW list \in Lists PROVE More(list, s[i]) \in Lists
  BY <1>1
<1>4. Engine!Those(s, S) = those[size]
  BY DEF Engine!Those
<1> HIDE DEF Lists, F, More
<1>5. PICK f \in [0 .. size -> Lists] : f[0] = <<>> /\ \A i \in 1 .. size : f[i] = F[<<i, f[i - 1]>>]
  <2>1. StaysIn(Lists, size, F)
    BY <1>2, <1>3 DEF StaysIn
  <2>2. IsComputed(Lists, <<>>, size, F)
    BY <1>1, <2>1, StepByStep
  <2> QED
    BY <2>2 DEF IsComputed
<1>6. \A i \in 0 .. size : i # 0 => f[i - 1] \in Lists /\ i \in 1 .. size
  BY <1>1, <1>5
<1>7. f = [i \in 0 .. size |-> IF i = 0 THEN <<>> ELSE More(f[i - 1], s[i])]
  <2>1. ASSUME NEW i \in 0 .. size PROVE f[i] = IF i = 0 THEN <<>> ELSE More(f[i - 1], s[i])
    BY <1>2, <1>5, <1>6
  <2> QED
    BY <2>1
<1>8. those = [i \in 0 .. size |-> IF i = 0 THEN <<>> ELSE More(those[i - 1], s[i])]
  BY <1>7
<1> HIDE DEF those
<1>9. those[0] = <<>> /\ \A i \in 1 .. size : those[i] = More(those[i - 1], s[i])
  BY <1>1, <1>8
<1>10. \A i \in 0 .. size : those[i] \in Lists
  <2> DEFINE Good == {i \in 0 .. size : those[i] \in Lists}
  <2>1. 0 \in Good
    BY <1>1, <1>9
  <2>2. ASSUME NEW i \in 1 .. size, i - 1 \in Good PROVE i \in Good
    BY <1>1, <1>3, <1>9, <2>2
  <2> HIDE DEF Good
  <2>3. \A i \in 0 .. size : i \in Good
    BY <1>1, <2>1, <2>2, StepsReach
  <2> QED
    BY <2>3 DEF Good
<1>11. those \in [0 .. size -> Lists]
  BY <1>8, <1>10
<1> QED
  BY <1>4, <1>9, <1>11 DEF Lists, More, AreThose

LEMMA ThoseAre ==
  ASSUME NEW T, NEW s \in Seq(T), NEW S
  PROVE  /\ Engine!Those(s, S) \in Seq(T)
         /\ Engine!Range(Engine!Those(s, S)) = Engine!Range(s) \cap S
<1>0. PICK those \in [0 .. Len(s) -> Seq(T)] : AreThose(those, s, S)
  BY ThoseStepByStep
<1>1. /\ those[0] = <<>> /\ Engine!Those(s, S) = those[Len(s)]
      /\ \A i \in 1 .. Len(s) :
           those[i] = IF s[i] \in S THEN Append(those[i - 1], s[i]) ELSE those[i - 1]
  BY <1>0 DEF AreThose
<1>2. Len(s) \in Nat /\ DOMAIN s = 1 .. Len(s)
  OBVIOUS
<1> DEFINE Good == {i \in 0 .. Len(s) : Engine!Range(those[i]) = {s[k] : k \in 1 .. i} \cap S}
<1>3. 0 \in Good
  <2>1. Engine!Range(<<>>) = {}
    BY DEF Engine!Range
  <2>2. {s[i] : i \in 1 .. 0} = {}
    OBVIOUS
  <2> QED
    BY <1>1, <1>2, <2>1, <2>2
<1>4. ASSUME NEW i \in 1 .. Len(s), i - 1 \in Good PROVE i \in Good
  <2>1. i - 1 \in 0 .. Len(s) /\ i \in 0 .. Len(s) /\ s[i] \in T
    BY <1>2
  <2>2. those[i - 1] \in Seq(T) /\ Engine!Range(those[i - 1]) = {s[k] : k \in 1 .. i - 1} \cap S
    BY <1>1, <1>4, <2>1
  <2>3. {s[k] : k \in 1 .. i} = {s[k] : k \in 1 .. i - 1} \cup {s[i]}
    <3>1. i \in 1 .. i /\ \A k \in 1 .. i : k \in 1 .. i - 1 \/ k = i
      OBVIOUS
    <3>2. \A k \in 1 .. i - 1 : k \in 1 .. i
      OBVIOUS
    <3> QED
      BY <3>1, <3>2
  <2>4. Engine!Range(Append(those[i - 1], s[i])) = Engine!Range(those[i - 1]) \cup {s[i]}
    BY <2>1, <2>2, RangeIs
  <2>5. Engine!Range(those[i]) = {s[k] : k \in 1 .. i} \cap S
    BY <1>1, <2>2, <2>3, <2>4
  <2> QED
    BY <2>1, <2>5
<1> HIDE DEF Good
<1>5. \A i \in 0 .. Len(s) : i \in Good
  BY <1>2, <1>3, <1>4, StepsReach
<1>6. Len(s) \in 0 .. Len(s)
  BY <1>2
<1>7. Engine!Range(s) = {s[k] : k \in 1 .. Len(s)}
  BY <1>2 DEF Engine!Range
<1> QED
  BY <1>1, <1>5, <1>6, <1>7 DEF Good

\* Of the first n numbers those in a set, each at the place of its rank.
LEMMA RanksAre ==
  ASSUME NEW n \in Nat, NEW S
  PROVE  LET keeps == Engine!Those(Engine!Upto(n), S)
             Rank(p) == Cardinality({q \in 1 .. p : q \in S})
         IN  /\ keeps \in Seq(1 .. n) /\ Len(keeps) = Rank(n)
             /\ \A p \in 1 .. n : p \in S => Rank(p) \in 1 .. Len(keeps) /\ keeps[Rank(p)] = p
<1> DEFINE s == Engine!Upto(n)
           T == 1 .. n
           Rank(p) == Cardinality({q \in 1 .. p : q \in S})
<1>1. s \in Seq(T) /\ Len(s) = n /\ \A i \in 1 .. n : s[i] = i
  BY DEF Engine!Upto
<1> HIDE DEF s
<1>0. PICK those \in [0 .. Len(s) -> Seq(T)] : AreThose(those, s, S)
  BY <1>1, ThoseStepByStep
<1>2. /\ those \in [0 .. n -> Seq(T)] /\ those[0] = <<>> /\ Engine!Those(s, S) = those[n]
      /\ \A i \in 1 .. n : those[i] = IF s[i] \in S THEN Append(those[i - 1], s[i]) ELSE those[i - 1]
  BY <1>0, <1>1 DEF AreThose
<1>3. /\ Rank(0) = 0
      /\ \A i \in 1 .. n : Rank(i) = IF i \in S THEN Rank(i - 1) + 1 ELSE Rank(i - 1)
      /\ \A i \in 0 .. n : Rank(i) \in Nat
  <2>1. {q \in 1 .. 0 : q \in S} = {}
    OBVIOUS
  <2>2. \A i \in 0 .. n : IsFiniteSet({q \in 1 .. i : q \in S})
    <3> SUFFICES ASSUME NEW i \in 0 .. n PROVE IsFiniteSet({q \in 1 .. i : q \in S})
      OBVIOUS
    <3>1. IsFiniteSet(1 .. i)
      BY FS_Interval
    <3>2. {q \in 1 .. i : q \in S} \in SUBSET (1 .. i)
      OBVIOUS
    <3> QED
      BY <3>1, <3>2, FS_Subset
  <2>3. ASSUME NEW i \in 1 .. n PROVE Rank(i) = IF i \in S THEN Rank(i - 1) + 1 ELSE Rank(i - 1)
    <3>1. i - 1 \in 0 .. n /\ i \notin {q \in 1 .. i - 1 : q \in S} /\ i \in 1 .. i
      OBVIOUS
    <3>2. \A q \in 1 .. i : q \in 1 .. i - 1 \/ q = i
      OBVIOUS
    <3>3. \A q \in 1 .. i - 1 : q \in 1 .. i
      OBVIOUS
    <3>4. {q \in 1 .. i : q \in S} =
            IF i \in S THEN {q \in 1 .. i - 1 : q \in S} \cup {i} ELSE {q \in 1 .. i - 1 : q \in S}
      BY <3>1, <3>2, <3>3
    <3>5. IsFiniteSet({q \in 1 .. i - 1 : q \in S})
      BY <2>2, <3>1
    <3> QED
      BY <3>1, <3>4, <3>5, FS_AddElement
  <2>4. \A i \in 0 .. n : Rank(i) \in Nat
    BY <2>2, FS_CardinalityType
  <2> QED
    BY <2>1, <2>3, <2>4, FS_EmptySet
<1> HIDE DEF Rank
<1> DEFINE Placed(i) ==
             /\ Len(those[i]) = Rank(i)
             /\ \A p \in 1 .. i : p \in S => Rank(p) \in 1 .. Len(those[i]) /\ those[i][Rank(p)] = p
           Good == {i \in 0 .. n : Placed(i)}
<1>4. 0 \in Good
  BY <1>2, <1>3
<1>5. ASSUME NEW i \in 1 .. n, i - 1 \in Good PROVE i \in Good
  <2>1. i - 1 \in 0 .. n /\ i \in 0 .. n /\ i \in T /\ s[i] = i
    BY <1>1
  <2>2. those[i - 1] \in Seq(T) /\ Placed(i - 1)
    BY <1>2, <1>5, <2>1
  <2>3. \A p \in 1 .. i : p \in 1 .. i - 1 \/ p = i
    OBVIOUS
  <2>4. CASE i \notin S
    <3>1. those[i] = those[i - 1] /\ Rank(i) = Rank(i - 1)
      BY <1>2, <1>3, <2>1, <2>4
    <3> QED
      BY <2>1, <2>2, <2>3, <2>4, <3>1
  <2>5. CASE i \in S
    <3> DEFINE list == those[i - 1]
               more == Append(list, i)
    <3>1. those[i] = more /\ Rank(i) = Rank(i - 1) + 1
      BY <1>2, <1>3, <2>1, <2>5
    <3>2. /\ Len(list) = Rank(i - 1) /\ Rank(i - 1) \in Nat
          /\ Len(more) = Len(list) + 1 /\ more[Len(list) + 1] = i
          /\ \A k \in 1 .. Len(list) : more[k] = list[k]
      <4>1. list \in Seq(T) /\ Len(list) = Rank(i - 1) /\ Rank(i - 1) \in Nat /\ i \in T
        BY <1>3, <2>1, <2>2
      <4> HIDE DEF list
      <4> QED
        BY <4>1
    <3>3. \A p \in 1 .. i - 1 : p \in S => Rank(p) \in 1 .. Len(list) /\ list[Rank(p)] = p
      BY <2>2
    <3> HIDE DEF list, more
    <3>4. \A k \in 1 .. Len(list) : k \in 1 .. Len(more)
      BY <3>2
    <3>5. Rank(i) \in 1 .. Len(more) /\ more[Rank(i)] = i
      BY <3>1, <3>2
    <3>6. \A p \in 1 .. i : p \in S => Rank(p) \in 1 .. Len(more) /\ more[Rank(p)] = p
      BY <2>3, <3>2, <3>3, <3>4, <3>5
    <3>7. Len(more) = Rank(i)
      BY <3>1, <3>2
    <3> QED
      BY <2>1, <3>1, <3>6, <3>7
  <2> QED
    BY <2>4, <2>5
<1> HIDE DEF Good
<1>6. \A i \in 0 .. n : i \in Good
  BY <1>4, <1>5, StepsReach
<1>7. n \in 0 .. n /\ n \in Good
  BY <1>6
<1>8. Placed(n) /\ those[n] \in Seq(T)
  BY <1>2, <1>7 DEF Good
<1> QED
  BY <1>2, <1>8 DEF Rank, s


-----------------------------------------------------------------------------
(* What is reached from a page (LayeredPages): the least set that has what *)
(* the page refers to and, of each dictionary and array in it, what that   *)
(* one refers to.                                                          *)

Ids(doc) == DOMAIN doc.objects
Kids(doc, x) == Engine!Range(doc.objects[x].kids)
IsOpened(doc, x) == doc.objects[x].kind \in {"dict", "array"}
IsClosed(doc, ids) == \A x \in ids : IsOpened(doc, x) => Kids(doc, x) \subseteq ids
Wider(doc, ids) == ids \cup UNION {Kids(doc, x) : x \in {y \in ids : IsOpened(doc, y)}}

LEMMA KidsAre ==
  ASSUME NEW doc, Engine!IsDocument(doc), NEW x \in Ids(doc)
  PROVE  /\ Kids(doc, x) \subseteq Ids(doc) /\ doc.objects[x].kids \in Seq(Ids(doc))
         /\ doc.objects[x].direct \in BOOLEAN
         /\ doc.objects[x].kind \in {"dict", "array", "layer", "pages", "scalar"}
<1>1. /\ doc.objects[x].kids \in Seq(Ids(doc)) /\ doc.objects[x].direct \in BOOLEAN
      /\ doc.objects[x].kind \in {"dict", "array", "layer", "pages", "scalar"}
  BY DEF Engine!IsDocument, Ids
<1> QED
  BY <1>1, RangeIs DEF Kids

LEMMA WiderIs ==
  ASSUME NEW doc, Engine!IsDocument(doc), NEW ids \in SUBSET Ids(doc)
  PROVE  /\ ids \subseteq Wider(doc, ids) /\ Wider(doc, ids) \in SUBSET Ids(doc)
         /\ ~IsClosed(doc, ids) => \E y \in Wider(doc, ids) : y \notin ids
         /\ IsClosed(doc, ids) => Wider(doc, ids) = ids
         /\ \A M \in SUBSET Ids(doc) : ids \subseteq M /\ IsClosed(doc, M) => Wider(doc, ids) \subseteq M
<1>1. \A x \in ids : Kids(doc, x) \subseteq Ids(doc)
  BY KidsAre
<1>2. \A y : y \in Wider(doc, ids) <=> y \in ids \/ \E x \in ids : IsOpened(doc, x) /\ y \in Kids(doc, x)
  BY DEF Wider
<1>3. ids \subseteq Wider(doc, ids) /\ Wider(doc, ids) \in SUBSET Ids(doc)
  BY <1>1, <1>2
<1>4. ASSUME ~IsClosed(doc, ids) PROVE \E y \in Wider(doc, ids) : y \notin ids
  <2>1. PICK x \in ids : IsOpened(doc, x) /\ ~(Kids(doc, x) \subseteq ids)
    BY <1>4 DEF IsClosed
  <2>2. PICK y \in Kids(doc, x) : y \notin ids
    BY <2>1
  <2> QED
    BY <1>2, <2>1, <2>2
<1>5. ASSUME NEW M \in SUBSET Ids(doc), ids \subseteq M, IsClosed(doc, M) PROVE Wider(doc, ids) \subseteq M
  BY <1>2, <1>5 DEF IsClosed
<1>6. IsClosed(doc, ids) => Wider(doc, ids) = ids
  BY <1>3, <1>5
<1> QED
  BY <1>3, <1>4, <1>5, <1>6

IsWidened(within, doc, roots, n) ==
  /\ within[0] = Engine!Range(roots)
  /\ \A i \in 1 .. n : within[i] = Wider(doc, within[i - 1])

LEMMA ReachedStepByStep ==
  ASSUME NEW doc, Engine!IsDocument(doc), NEW roots \in Seq(Ids(doc))
  PROVE  LET size == Cardinality(Ids(doc))
         IN  /\ size \in Nat /\ IsFiniteSet(Ids(doc))
             /\ \E within \in [0 .. size -> SUBSET Ids(doc)] :
                  IsWidened(within, doc, roots, size) /\ Engine!ReachedFrom(doc, roots) = within[size]
<1> DEFINE size == Cardinality(Ids(doc))
           S == SUBSET Ids(doc)
           F == [p \in (1 .. size) \X S |-> Wider(doc, p[2])]
           within[n \in 0 .. size] == IF n = 0 THEN Engine!Range(roots) ELSE Wider(doc, within[n - 1])
<1>1. IsFiniteSet(Ids(doc)) /\ size \in Nat
  <2>1. IsFiniteSet(Ids(doc))
    BY CountedThere DEF Engine!IsDocument, Ids
  <2> QED
    BY <2>1, FS_CardinalityType
<1>2. Engine!Range(roots) \in S
  BY RangeIs
<1>3. \A i \in 1 .. size, ids \in S : F[<<i, ids>>] = Wider(doc, ids)
  OBVIOUS
<1>4. \A ids \in S : Wider(doc, ids) \in S
  BY WiderIs
<1>5. Engine!ReachedFrom(doc, roots) = within[size]
  <2>1. Engine!Cardinality(DOMAIN doc.objects) = size
    BY CountedThere DEF Ids
  <2> QED
    BY <2>1 DEF Engine!ReachedFrom, Wider, Kids, IsOpened, Ids
<1> HIDE DEF S, F, size
<1>6. PICK f \in [0 .. size -> S] : f[0] = Engine!Range(roots) /\ \A i \in 1 .. size : f[i] = F[<<i, f[i - 1]>>]
  <2>1. StaysIn(S, size, F)
    BY <1>3, <1>4 DEF StaysIn
  <2>2. IsComputed(S, Engine!Range(roots), size, F)
    BY <1>1, <1>2, <2>1, StepByStep
  <2> QED
    BY <2>2 DEF IsComputed
<1>7. \A i \in 0 .. size : i # 0 => f[i - 1] \in S /\ i \in 1 .. size
  BY <1>1, <1>6
<1>8. f = [i \in 0 .. size |-> IF i = 0 THEN Engine!Range(roots) ELSE Wider(doc, f[i - 1])]
  <2>1. ASSUME NEW i \in 0 .. size PROVE f[i] = IF i = 0 THEN Engine!Range(roots) ELSE Wider(doc, f[i - 1])
    BY <1>3, <1>6, <1>7
  <2> QED
    BY <2>1
<1>9. within = [i \in 0 .. size |-> IF i = 0 THEN Engine!Range(roots) ELSE Wider(doc, within[i - 1])]
  BY <1>8
<1> HIDE DEF within
<1>10. within[0] = Engine!Range(roots) /\ \A i \in 1 .. size : within[i] = Wider(doc, within[i - 1])
  BY <1>1, <1>9
<1>11. \A i \in 0 .. size : within[i] \in S
  <2> DEFINE Good == {i \in 0 .. size : within[i] \in S}
  <2>1. 0 \in Good
    BY <1>1, <1>2, <1>10
  <2>2. ASSUME NEW i \in 1 .. size, i - 1 \in Good PROVE i \in Good
    BY <1>1, <1>4, <1>10, <2>2
  <2> HIDE DEF Good
  <2>3. \A i \in 0 .. size : i \in Good
    BY <1>1, <2>1, <2>2, StepsReach
  <2> QED
    BY <2>3 DEF Good
<1>12. within \in [0 .. size -> S]
  BY <1>9, <1>11
<1>13. IsWidened(within, doc, roots, size)
  BY <1>10 DEF IsWidened
<1> QED
  BY <1>1, <1>5, <1>12, <1>13 DEF S, size

LEMMA ReachedIs ==
  ASSUME NEW doc, Engine!IsDocument(doc), NEW roots \in Seq(Ids(doc)),
         NEW reached, reached = Engine!ReachedFrom(doc, roots)
  PROVE  /\ reached \in SUBSET Ids(doc) /\ Engine!Range(roots) \subseteq reached /\ IsClosed(doc, reached)
         /\ \A M \in SUBSET Ids(doc) : Engine!Range(roots) \subseteq M /\ IsClosed(doc, M) => reached \subseteq M
<1> DEFINE size == Cardinality(Ids(doc))
<1>1. size \in Nat /\ IsFiniteSet(Ids(doc))
  BY ReachedStepByStep
<1>2. PICK within \in [0 .. size -> SUBSET Ids(doc)] :
        IsWidened(within, doc, roots, size) /\ reached = within[size]
  BY ReachedStepByStep
<1>3. within[0] = Engine!Range(roots) /\ \A i \in 1 .. size : within[i] = Wider(doc, within[i - 1])
  BY <1>2 DEF IsWidened
<1>4. \A i \in 0 .. size : within[i] \in SUBSET Ids(doc)
  BY <1>2
<1>5. \A i \in 0 .. size : IsFiniteSet(within[i]) /\ Cardinality(within[i]) \in Nat
  BY <1>1, <1>4, FS_Subset, FS_CardinalityType
<1>6. 0 \in 0 .. size /\ size \in 0 .. size /\ \A i \in 1 .. size : i \in 0 .. size /\ i - 1 \in 0 .. size
  BY <1>1
<1> HIDE DEF size
<1>7. Engine!Range(roots) \subseteq within[size]
  <2> DEFINE Good == {i \in 0 .. size : Engine!Range(roots) \subseteq within[i]}
  <2>1. 0 \in Good
    BY <1>3, <1>6
  <2>2. ASSUME NEW i \in 1 .. size, i - 1 \in Good PROVE i \in Good
    <3>1. within[i - 1] \subseteq within[i]
      BY <1>3, <1>4, <1>6, WiderIs
    <3> QED
      BY <1>6, <2>2, <3>1
  <2> HIDE DEF Good
  <2>3. \A i \in 0 .. size : i \in Good
    BY <1>1, <2>1, <2>2, StepsReach
  <2> QED
    BY <1>6, <2>3 DEF Good
<1>8. ASSUME NEW M \in SUBSET Ids(doc), Engine!Range(roots) \subseteq M, IsClosed(doc, M)
      PROVE  within[size] \subseteq M
  <2> DEFINE Good == {i \in 0 .. size : within[i] \subseteq M}
  <2>1. 0 \in Good
    BY <1>3, <1>6, <1>8
  <2>2. ASSUME NEW i \in 1 .. size, i - 1 \in Good PROVE i \in Good
    <3>1. within[i - 1] \subseteq M /\ within[i - 1] \in SUBSET Ids(doc)
      BY <1>4, <2>2
    <3>2. Wider(doc, within[i - 1]) \subseteq M
      BY <1>8, <3>1, WiderIs
    <3> QED
      BY <1>3, <1>6, <3>2
  <2> HIDE DEF Good
  <2>3. \A i \in 0 .. size : i \in Good
    BY <1>1, <2>1, <2>2, StepsReach
  <2> QED
    BY <1>6, <2>3 DEF Good
<1>9. IsClosed(doc, within[size])
  <2> DEFINE Good == {i \in 0 .. size : IsClosed(doc, within[i]) \/ Cardinality(within[i]) >= i}
  <2>1. 0 \in Good
    BY <1>5, <1>6
  <2>2. ASSUME NEW i \in 1 .. size, i - 1 \in Good PROVE i \in Good
    <3> DEFINE old == within[i - 1]
               new == within[i]
    <3>1. /\ old \in SUBSET Ids(doc) /\ new = Wider(doc, old) /\ i \in Nat
          /\ IsFiniteSet(old) /\ Cardinality(old) \in Nat /\ IsFiniteSet(new) /\ Cardinality(new) \in Nat
          /\ IsClosed(doc, old) \/ Cardinality(old) >= i - 1
      BY <1>3, <1>4, <1>5, <1>6, <2>2
    <3> HIDE DEF old, new
    <3>2. CASE IsClosed(doc, old)
      <4>1. new = old
        BY <3>1, <3>2, WiderIs
      <4> QED
        BY <1>6, <3>2, <4>1 DEF new
    <3>3. CASE ~IsClosed(doc, old)
      <4>1. PICK y \in new : y \notin old
        BY <3>1, <3>3, WiderIs
      <4>2. old \subseteq new
        BY <3>1, WiderIs
      <4>3. IsFiniteSet(old \cup {y}) /\ Cardinality(old \cup {y}) = Cardinality(old) + 1
        BY <3>1, <4>1, FS_AddElement
      <4>4. old \cup {y} \in SUBSET new
        BY <4>1, <4>2
      <4>5. Cardinality(old \cup {y}) <= Cardinality(new)
        BY <3>1, <4>4, FS_Subset
      <4>6. Cardinality(new) >= i
        BY <3>1, <3>3, <4>3, <4>5
      <4> QED
        BY <1>6, <4>6 DEF new
    <3> QED
      BY <3>2, <3>3
  <2> HIDE DEF Good
  <2>3. \A i \in 0 .. size : i \in Good
    BY <1>1, <2>1, <2>2, StepsReach
  <2>4. IsClosed(doc, within[size]) \/ Cardinality(within[size]) >= size
    BY <1>6, <2>3 DEF Good
  <2>5. ASSUME Cardinality(within[size]) >= size PROVE IsClosed(doc, within[size])
    <3>1. within[size] \in SUBSET Ids(doc)
      BY <1>4, <1>6
    <3>2. Cardinality(within[size]) <= Cardinality(Ids(doc))
      BY <1>1, <3>1, FS_Subset
    <3>3. Cardinality(Ids(doc)) = Cardinality(within[size])
      BY <1>1, <1>5, <1>6, <2>5, <3>2 DEF size
    <3>4. Ids(doc) = within[size]
      BY <1>1, <3>1, <3>3, FS_Subset
    <3> QED
      BY <3>4, KidsAre DEF IsClosed
  <2> QED
    BY <2>4, <2>5
<1> QED
  BY <1>2, <1>4, <1>6, <1>7, <1>8, <1>9


-----------------------------------------------------------------------------
(* The copies of an operation (LayeredPages).                              *)

Numbers(t, i) == 1 .. Engine!PageCount(t, i)
CallRecords == [out : Nat, input : Nat, pages : Seq(Nat)]
IsCallOf(c, t) ==
  /\ c \in CallRecords /\ c.out \in Engine!OutputsOf(t)
  /\ t.op # "split" => c.out = 1
  /\ c.input = 0 => c = Engine!Blank
  /\ c.input # 0 => c.input \in DOMAIN t.inputs /\ \A i \in DOMAIN c.pages : c.pages[i] \in Numbers(t, c.input)

IsGiven(t) == t \in PageJobs /\ Engine!IsOperation(t) /\ t \in Engine!OperationRecords

LEMMA JobsAreOperations == \A t \in PageJobs : IsGiven(t)
BY PagesAssumption DEF IsGiven, Engine!IsOperation

LEMMA InputsAre ==
  ASSUME NEW t, IsGiven(t)
  PROVE  /\ t.inputs \in Seq(DOMAIN PageDocs) /\ Len(t.inputs) \in Nat \ {0} /\ DOMAIN t.inputs = 1 .. Len(t.inputs)
         /\ 1 \in DOMAIN t.inputs /\ (t.op = "insert" => 2 \in DOMAIN t.inputs)
         /\ \A i \in DOMAIN t.inputs : Engine!IsDocument(Engine!Doc(t, i)) /\ Engine!PageCount(t, i) \in Nat
         /\ t.pages \in Seq(Nat) /\ t.groups \in Seq(Seq(Nat)) /\ t.after \in Nat /\ t.angle \in Nat
         /\ t.op \in {"merge", "extract", "remove", "reorder", "rotate", "split", "insert", "blank"}
<1>1. /\ t.inputs \in Seq(DOMAIN PageDocs) /\ t.inputs # <<>>
      /\ t.pages \in Seq(Nat) /\ t.groups \in Seq(Seq(Nat)) /\ t.after \in Nat /\ t.angle \in Nat
      /\ t.op \in {"merge", "extract", "remove", "reorder", "rotate", "split", "insert", "blank"}
      /\ t.op = "insert" => Len(t.inputs) = 2
  BY DEF IsGiven, Engine!IsOperation, Engine!OperationRecords
<1>2. Len(t.inputs) \in Nat \ {0} /\ DOMAIN t.inputs = 1 .. Len(t.inputs)
  BY <1>1
<1>3. ASSUME NEW i \in DOMAIN t.inputs
      PROVE  Engine!IsDocument(Engine!Doc(t, i)) /\ Engine!PageCount(t, i) \in Nat
  <2>1. t.inputs[i] \in DOMAIN PageDocs
    BY <1>1
  <2>2. Engine!IsDocument(Engine!Doc(t, i))
    BY <2>1, PagesAssumption DEF Engine!Doc
  <2>3. Engine!Doc(t, i).pages \in Seq(Seq(DOMAIN Engine!Doc(t, i).objects))
    BY <2>2 DEF Engine!IsDocument
  <2>4. Len(Engine!Doc(t, i).pages) \in Nat
    BY <2>3
  <2> QED
    BY <2>2, <2>4 DEF Engine!PageCount
<1>4. 1 \in DOMAIN t.inputs /\ (t.op = "insert" => 2 \in DOMAIN t.inputs)
  <2>1. 1 \in 1 .. Len(t.inputs) /\ (Len(t.inputs) = 2 => 2 \in 1 .. Len(t.inputs))
    BY <1>2
  <2> QED
    BY <1>1, <1>2, <2>1
<1> QED
  BY <1>1, <1>2, <1>3, <1>4

LEMMA ListIs ==
  ASSUME NEW T, NEW n \in Nat, NEW s \in [1 .. n -> T] PROVE s \in Seq(T) /\ Len(s) = n
OBVIOUS

LEMMA ListsAre ==
  ASSUME NEW m \in Nat, NEW n \in Nat
  PROVE  /\ Engine!Upto(n) \in Seq(1 .. n) /\ Engine!Upto(n) \in Seq(Nat) /\ Len(Engine!Upto(n)) = n
         /\ \A i \in 1 .. n : Engine!Upto(n)[i] = i
         /\ m < n => /\ Engine!FromTo(m + 1, n) \in Seq(Nat) /\ Len(Engine!FromTo(m + 1, n)) = n - m
                     /\ \A i \in 1 .. n - m : Engine!FromTo(m + 1, n)[i] = m + i
<1>1. Engine!Upto(n) \in [1 .. n -> 1 .. n]
  BY DEF Engine!Upto
<1>2. ASSUME m < n
      PROVE  /\ Engine!FromTo(m + 1, n) \in [1 .. n - m -> Nat]
             /\ \A i \in 1 .. n - m : Engine!FromTo(m + 1, n)[i] = m + i
  <2>1. (IF n >= m + 1 THEN n - (m + 1) + 1 ELSE 0) = n - m
    BY <1>2
  <2>2. Engine!FromTo(m + 1, n) = [i \in 1 .. n - m |-> m + 1 + i - 1]
    BY <2>1 DEF Engine!FromTo
  <2> QED
    BY <2>2
<1>3. Engine!Upto(n) \in Seq(1 .. n) /\ Len(Engine!Upto(n)) = n /\ \A i \in 1 .. n : Engine!Upto(n)[i] = i
  BY <1>1 DEF Engine!Upto
<1>4. Engine!Upto(n) \in Seq(Nat)
  <2>1. Engine!Upto(n) \in [1 .. n -> Nat]
    BY DEF Engine!Upto
  <2> QED
    BY <2>1
<1>5. m < n => Engine!FromTo(m + 1, n) \in Seq(Nat) /\ Len(Engine!FromTo(m + 1, n)) = n - m
  <2> SUFFICES ASSUME m < n PROVE Engine!FromTo(m + 1, n) \in Seq(Nat) /\ Len(Engine!FromTo(m + 1, n)) = n - m
    OBVIOUS
  <2>1. n - m \in Nat
    OBVIOUS
  <2> QED
    BY <1>2, <2>1
<1> QED
  BY <1>2, <1>3, <1>4, <1>5

LEMMA ACall ==
  ASSUME NEW t, IsGiven(t), NEW out \in Engine!OutputsOf(t), out \in Nat, t.op # "split" => out = 1,
         NEW input \in DOMAIN t.inputs, NEW pages \in Seq(Nat),
         \A i \in DOMAIN pages : pages[i] \in Numbers(t, input)
  PROVE  IsCallOf(Engine!Copy(out, input, pages), t)
<1>1. input \in Nat /\ input # 0
  BY InputsAre
<1> QED
  BY <1>1 DEF IsCallOf, CallRecords, Engine!Copy

\* merge: every input, whole.
LEMMA MergesAre ==
  ASSUME NEW t, IsGiven(t), t.op = "merge"
  PROVE  LET C == Engine!Copies(t)
         IN  /\ C \in Seq(CallRecords) /\ Len(C) = Len(t.inputs)
             /\ \A i \in 1 .. Len(C) : IsCallOf(C[i], t) /\ C[i] = Engine!Copy(1, i, Engine!Upto(Engine!PageCount(t, i)))
<1> DEFINE C == Engine!Copies(t)
           Whole(i) == Engine!Copy(1, i, Engine!Upto(Engine!PageCount(t, i)))
<1>1. C = [i \in 1 .. Len(t.inputs) |-> Whole(i)]
  BY InputsAre DEF Engine!Copies, Engine!MergeCopies
<1>2. ASSUME NEW i \in 1 .. Len(t.inputs) PROVE IsCallOf(Whole(i), t)
  <2>1. i \in DOMAIN t.inputs /\ Engine!PageCount(t, i) \in Nat
    BY InputsAre
  <2>2. LET u == Engine!Upto(Engine!PageCount(t, i))
        IN  u \in Seq(Nat) /\ u \in Seq(Numbers(t, i))
    BY <2>1, ListsAre DEF Numbers
  <2>3. \A j \in DOMAIN Engine!Upto(Engine!PageCount(t, i)) :
          Engine!Upto(Engine!PageCount(t, i))[j] \in Numbers(t, i)
    BY <2>2
  <2>4. 1 \in Engine!OutputsOf(t)
    BY DEF Engine!OutputsOf
  <2> QED
    BY <2>1, <2>2, <2>3, <2>4, ACall
<1> HIDE DEF Whole
<1>3. \A i \in 1 .. Len(t.inputs) : Whole(i) \in CallRecords
  BY <1>2 DEF IsCallOf
<1>4. Len(t.inputs) \in Nat
  BY InputsAre
<1>5. C \in [1 .. Len(t.inputs) -> CallRecords]
  BY <1>1, <1>3
<1>6. C \in Seq(CallRecords) /\ Len(C) = Len(t.inputs)
  BY <1>4, <1>5
<1> QED
  BY <1>1, <1>2, <1>6 DEF Whole

LEMMA ExistingPages ==
  ASSUME NEW t, IsGiven(t), NEW i \in DOMAIN t.inputs, NEW pages \in Seq(Nat),
         Engine!PagesExist(pages, Engine!PageCount(t, i))
  PROVE  pages # <<>> /\ \A k \in DOMAIN pages : pages[k] \in Numbers(t, i)
BY DEF Engine!PagesExist, Numbers

\* extract, remove, reorder: one copy.
LEMMA SelectionsAre ==
  ASSUME NEW t, IsGiven(t), t.op \in {"extract", "remove", "reorder"}, Engine!IsValid(t),
         NEW pages, pages = IF t.op = "remove" THEN Engine!Remaining(t) ELSE t.pages
  PROVE  LET C == Engine!Copies(t)
         IN  /\ C \in Seq(CallRecords) /\ Len(C) = 1 /\ C[1] = Engine!Copy(1, 1, pages) /\ IsCallOf(C[1], t)
<1> DEFINE n == Engine!PageCount(t, 1)
<1>1. Engine!Copies(t) = <<Engine!Copy(1, 1, pages)>>
  BY DEF Engine!Copies, Engine!SelectionCopies
<1>2. n \in Nat /\ 1 \in DOMAIN t.inputs /\ t.pages \in Seq(Nat) /\ 1 \in Engine!OutputsOf(t)
  BY InputsAre DEF Engine!OutputsOf
<1>3. pages \in Seq(Nat) /\ \A k \in DOMAIN pages : pages[k] \in Numbers(t, 1)
  <2>1. CASE t.op = "remove"
    <3>1. Engine!Remaining(t) \in Seq(1 .. n)
      BY <1>2, RanksAre DEF Engine!Remaining
    <3>2. pages \in Seq(1 .. n)
      BY <2>1, <3>1
    <3>3. pages \in Seq(Nat) /\ \A k \in DOMAIN pages : pages[k] \in 1 .. n
      BY <1>2, <3>2
    <3> QED
      BY <3>3 DEF Numbers
  <2>2. CASE t.op # "remove"
    <3>1. Engine!PagesExist(t.pages, n)
      BY <2>2 DEF Engine!IsValid
    <3> QED
      BY <1>2, <2>2, <3>1, ExistingPages
  <2> QED
    BY <2>1, <2>2
<1>4. IsCallOf(Engine!Copy(1, 1, pages), t)
  BY <1>2, <1>3, ACall
<1>5. Engine!Copy(1, 1, pages) \in CallRecords
  BY <1>4 DEF IsCallOf
<1> QED
  BY <1>1, <1>4, <1>5

\* split: one copy for each output.
LEMMA SplitsAre ==
  ASSUME NEW t, IsGiven(t), t.op = "split", Engine!IsValid(t)
  PROVE  LET C == Engine!Copies(t)
         IN  /\ C \in Seq(CallRecords) /\ Len(C) = Len(t.groups) /\ Len(C) > 0
             /\ Engine!OutputsOf(t) = 1 .. Len(C)
             /\ \A i \in 1 .. Len(C) : IsCallOf(C[i], t) /\ C[i] = Engine!Copy(i, 1, t.groups[i])
<1> DEFINE C == Engine!Copies(t)
<1>1. t.groups \in Seq(Seq(Nat)) /\ Len(t.groups) \in Nat /\ DOMAIN t.groups = 1 .. Len(t.groups)
      /\ 1 \in DOMAIN t.inputs
  BY InputsAre
<1>2. t.groups # <<>> /\ \A i \in DOMAIN t.groups : Engine!PagesExist(t.groups[i], Engine!PageCount(t, 1))
  BY DEF Engine!IsValid
<1>3. Engine!OutputsOf(t) = 1 .. Len(t.groups)
  BY <1>1 DEF Engine!OutputsOf
<1>4. C = [i \in 1 .. Len(t.groups) |-> Engine!Copy(i, 1, t.groups[i])]
  BY <1>1 DEF Engine!Copies, Engine!SplitCopies
<1>5. ASSUME NEW i \in 1 .. Len(t.groups) PROVE IsCallOf(Engine!Copy(i, 1, t.groups[i]), t)
  <2>1. t.groups[i] \in Seq(Nat) /\ i \in Nat
    BY <1>1
  <2>2. \A k \in DOMAIN t.groups[i] : t.groups[i][k] \in Numbers(t, 1)
    BY <1>1, <1>2, <2>1, ExistingPages
  <2> QED
    BY <1>1, <1>3, <2>1, <2>2, ACall
<1>6. \A i \in 1 .. Len(t.groups) : Engine!Copy(i, 1, t.groups[i]) \in CallRecords
  BY <1>5 DEF IsCallOf
<1>7. C \in [1 .. Len(t.groups) -> CallRecords]
  BY <1>4, <1>6
<1> HIDE DEF C
<1>8. C \in Seq(CallRecords) /\ Len(C) = Len(t.groups)
  BY <1>1, <1>7, ListIs
<1>9. Len(t.groups) > 0
  BY <1>1, <1>2
<1> QED
  BY <1>3, <1>4, <1>5, <1>8, <1>9 DEF C


LEMMA AppendedIs ==
  ASSUME NEW T, NEW s \in Seq(T), NEW u \in Seq(T)
  PROVE  /\ s \o u \in Seq(T) /\ Len(s \o u) = Len(s) + Len(u)
         /\ \A i \in 1 .. Len(s) : (s \o u)[i] = s[i]
         /\ \A i \in 1 .. Len(u) : (s \o u)[Len(s) + i] = u[i]
OBVIOUS

\* insert, blank: what is before, what is inserted, what is after.
LEMMA InsertionsAre ==
  ASSUME NEW t, IsGiven(t), t.op \in {"insert", "blank"}, Engine!IsValid(t),
         NEW n, n = Engine!PageCount(t, 1),
         NEW mid, mid = IF t.op = "blank" THEN Engine!Blank ELSE Engine!Copy(1, 2, t.pages),
         NEW b, b = IF t.after > 0 THEN 1 ELSE 0,
         NEW a, a = IF t.after < n THEN 1 ELSE 0
  PROVE  LET C == Engine!Copies(t)
         IN  /\ C \in Seq(CallRecords) /\ Len(C) = b + 1 + a
             /\ C[b + 1] = mid /\ IsCallOf(mid, t)
             /\ b = 1 => C[1] = Engine!Copy(1, 1, Engine!Upto(t.after)) /\ IsCallOf(C[1], t)
             /\ a = 1 => C[b + 2] = Engine!Copy(1, 1, Engine!FromTo(t.after + 1, n)) /\ IsCallOf(C[b + 2], t)
             /\ n \in Nat /\ t.after \in 0 .. n
<1> DEFINE first == Engine!Copy(1, 1, Engine!Upto(t.after))
           final == Engine!Copy(1, 1, Engine!FromTo(t.after + 1, n))
           B == Engine!Before(t)
           A == Engine!After(t)
<1>1. /\ n \in Nat /\ t.after \in Nat /\ t.pages \in Seq(Nat) /\ 1 \in DOMAIN t.inputs /\ 1 \in Engine!OutputsOf(t)
      /\ t.op = "insert" => 2 \in DOMAIN t.inputs
  BY InputsAre DEF Engine!OutputsOf
<1>2. t.after \in 0 .. n /\ (t.op = "insert" => Engine!PagesExist(t.pages, Engine!PageCount(t, 2)))
  BY DEF Engine!IsValid
<1>3. IsCallOf(mid, t)
  <2>1. CASE t.op = "blank"
    <3>1. mid = [out |-> 1, input |-> 0, pages |-> <<>>]
      BY <2>1 DEF Engine!Blank
    <3> QED
      BY <1>1, <2>1, <3>1 DEF IsCallOf, CallRecords, Engine!Blank
  <2>2. CASE t.op = "insert"
    <3>1. \A k \in DOMAIN t.pages : t.pages[k] \in Numbers(t, 2)
      BY <1>1, <1>2, <2>2, ExistingPages
    <3> QED
      BY <1>1, <2>2, <3>1, ACall
  <2> QED
    BY <2>1, <2>2
<1>4. ASSUME t.after > 0 PROVE IsCallOf(first, t)
  <2>1. /\ Engine!Upto(t.after) \in Seq(Nat) /\ Len(Engine!Upto(t.after)) = t.after
        /\ \A i \in 1 .. t.after : Engine!Upto(t.after)[i] = i
    BY <1>1, ListsAre
  <2>2. \A k \in DOMAIN Engine!Upto(t.after) : Engine!Upto(t.after)[k] \in Numbers(t, 1)
    BY <1>1, <1>2, <2>1 DEF Numbers
  <2> QED
    BY <1>1, <2>1, <2>2, ACall
<1>5. ASSUME t.after < n PROVE IsCallOf(final, t)
  <2> DEFINE rest == Engine!FromTo(t.after + 1, n)
  <2>1. rest \in Seq(Nat) /\ Len(rest) = n - t.after /\ \A i \in 1 .. n - t.after : rest[i] = t.after + i
    BY <1>1, <1>5, ListsAre
  <2> HIDE DEF rest
  <2>2. DOMAIN rest = 1 .. n - t.after
    BY <2>1
  <2>3. \A k \in DOMAIN rest : rest[k] \in Numbers(t, 1)
    BY <1>1, <1>2, <2>1, <2>2 DEF Numbers
  <2> QED
    BY <1>1, <2>1, <2>3, ACall DEF rest
<1> HIDE DEF first, final
<1>6. mid \in CallRecords /\ (t.after > 0 => first \in CallRecords) /\ (t.after < n => final \in CallRecords)
  BY <1>3, <1>4, <1>5 DEF IsCallOf
<1>7. B \in Seq(CallRecords) /\ Len(B) = b /\ (b = 1 => B[1] = first)
  BY <1>6 DEF Engine!Before, first
<1>8. A \in Seq(CallRecords) /\ Len(A) = a /\ (a = 1 => A[1] = final)
  BY <1>6 DEF Engine!After, final
<1>9. Engine!Copies(t) = (B \o <<mid>>) \o A
  BY DEF Engine!Copies, Engine!InsertionCopies
<1> HIDE DEF A, B
<1>10. <<mid>> \in Seq(CallRecords) /\ Len(<<mid>>) = 1 /\ <<mid>>[1] = mid
  BY <1>6
<1>11. b \in {0, 1} /\ a \in {0, 1}
  OBVIOUS
<1>12. /\ B \o <<mid>> \in Seq(CallRecords) /\ Len(B \o <<mid>>) = b + 1
       /\ (B \o <<mid>>)[b + 1] = mid /\ (b = 1 => (B \o <<mid>>)[1] = first)
  <2>1. 1 \in 1 .. Len(<<mid>>) /\ (b = 1 => 1 \in 1 .. Len(B))
    BY <1>7, <1>10
  <2>2. /\ B \o <<mid>> \in Seq(CallRecords) /\ Len(B \o <<mid>>) = b + 1
        /\ (B \o <<mid>>)[b + 1] = <<mid>>[1] /\ (b = 1 => (B \o <<mid>>)[1] = B[1])
    BY <1>7, <1>10, <2>1, AppendedIs
  <2> QED
    BY <1>7, <1>10, <2>2
<1> DEFINE D == B \o <<mid>>
<1> HIDE DEF D
<1>13. /\ D \in Seq(CallRecords) /\ Len(D) = b + 1 /\ D[b + 1] = mid /\ (b = 1 => D[1] = first)
  BY <1>12 DEF D
<1>14. /\ D \o A \in Seq(CallRecords) /\ Len(D \o A) = b + 1 + a
       /\ (D \o A)[b + 1] = mid /\ (b = 1 => (D \o A)[1] = first) /\ (a = 1 => (D \o A)[b + 2] = final)
  <2>1. b + 1 \in 1 .. Len(D) /\ (b = 1 => 1 \in 1 .. Len(D)) /\ (a = 1 => 1 \in 1 .. Len(A)) /\ b + 2 = Len(D) + 1
    BY <1>8, <1>11, <1>13
  <2>2. /\ D \o A \in Seq(CallRecords) /\ Len(D \o A) = b + 1 + a
        /\ (D \o A)[b + 1] = D[b + 1] /\ (b = 1 => (D \o A)[1] = D[1]) /\ (a = 1 => (D \o A)[b + 2] = A[1])
    BY <1>8, <1>13, <2>1, AppendedIs
  <2> QED
    BY <1>8, <1>13, <2>2
<1> QED
  BY <1>1, <1>2, <1>3, <1>4, <1>5, <1>9, <1>11, <1>14 DEF D, first, final

\* Every copy of a valid operation is of existing pages, into an output of its own when it splits.
LEMMA CopiesAre ==
  ASSUME NEW t, IsGiven(t), t.op # "rotate", Engine!IsValid(t), NEW C, C = Engine!Copies(t)
  PROVE  /\ C \in Seq(CallRecords) /\ Len(C) > 0 /\ \A i \in 1 .. Len(C) : IsCallOf(C[i], t)
         /\ t.op = "split" => Engine!OutputsOf(t) = 1 .. Len(C) /\ \A i \in 1 .. Len(C) : C[i].out = i /\ C[i].input = 1
         /\ t.op # "split" => Engine!OutputsOf(t) = {1} /\ \A i \in 1 .. Len(C) : C[i].out = 1
<1>1. CASE t.op = "split"
  <2>1. /\ C \in Seq(CallRecords) /\ Len(C) > 0 /\ Engine!OutputsOf(t) = 1 .. Len(C)
        /\ \A i \in 1 .. Len(C) : IsCallOf(C[i], t) /\ C[i] = Engine!Copy(i, 1, t.groups[i])
    BY <1>1, SplitsAre
  <2>2. ASSUME NEW i \in 1 .. Len(C) PROVE C[i].out = i /\ C[i].input = 1
    <3>1. C[i] = [out |-> i, input |-> 1, pages |-> t.groups[i]]
      BY <2>1 DEF Engine!Copy
    <3> QED
      BY <3>1
  <2> QED
    BY <1>1, <2>1, <2>2
<1>2. ASSUME C \in Seq(CallRecords) /\ Len(C) > 0, t.op # "split", \A i \in 1 .. Len(C) : IsCallOf(C[i], t)
      PROVE  Engine!OutputsOf(t) = {1} /\ \A i \in 1 .. Len(C) : C[i].out = 1
  BY <1>2 DEF IsCallOf, Engine!OutputsOf
<1>3. CASE t.op = "merge"
  <2>1. Len(t.inputs) \in Nat \ {0}
    BY InputsAre
  <2>2. C \in Seq(CallRecords) /\ Len(C) > 0 /\ \A i \in 1 .. Len(C) : IsCallOf(C[i], t)
    BY <1>3, <2>1, MergesAre
  <2> QED
    BY <1>2, <1>3, <2>2
<1>4. CASE t.op \in {"extract", "remove", "reorder"}
  <2> DEFINE pages == IF t.op = "remove" THEN Engine!Remaining(t) ELSE t.pages
  <2>1. C \in Seq(CallRecords) /\ Len(C) = 1 /\ IsCallOf(C[1], t)
    BY <1>4, SelectionsAre
  <2>2. \A i \in 1 .. Len(C) : IsCallOf(C[i], t)
    BY <2>1
  <2> QED
    BY <1>2, <1>4, <2>1, <2>2
<1>5. CASE t.op \in {"insert", "blank"}
  <2> DEFINE n == Engine!PageCount(t, 1)
             mid == IF t.op = "blank" THEN Engine!Blank ELSE Engine!Copy(1, 2, t.pages)
             b == IF t.after > 0 THEN 1 ELSE 0
             a == IF t.after < n THEN 1 ELSE 0
  <2>1. /\ C \in Seq(CallRecords) /\ Len(C) = b + 1 + a /\ IsCallOf(C[b + 1], t)
        /\ (b = 1 => IsCallOf(C[1], t)) /\ (a = 1 => IsCallOf(C[b + 2], t))
    BY <1>5, InsertionsAre
  <2>2. b \in {0, 1} /\ a \in {0, 1}
    OBVIOUS
  <2> HIDE DEF a, b, n, mid
  <2>3. ASSUME NEW i \in 1 .. Len(C) PROVE IsCallOf(C[i], t)
    <3>1. i = b + 1 \/ (b = 1 /\ i = 1) \/ (a = 1 /\ i = b + 2)
      BY <2>1, <2>2
    <3> QED
      BY <2>1, <3>1
  <2>4. Len(C) > 0
    BY <2>1, <2>2
  <2> QED
    BY <1>2, <1>5, <2>1, <2>3, <2>4
<1>6. t.op \in {"merge", "extract", "remove", "reorder", "rotate", "split", "insert", "blank"}
  BY InputsAre
<1> QED
  BY <1>1, <1>3, <1>4, <1>5, <1>6


-----------------------------------------------------------------------------
(* What a copy adds to an output (LayeredPages): its pages behind those    *)
(* that are there, and the layers they reach.                              *)

Things == UNION {Ids(PageDocs[name]) : name \in DOMAIN PageDocs}
MadeRecords ==
  [pages : Seq(Nat \X Nat), turned : Seq(Nat), layers : Seq(Nat \X Things), off : SUBSET (Nat \X Things)]

Given(c) == IF c.input = 0 THEN <<<<0, 0>>>> ELSE [i \in DOMAIN c.pages |-> <<c.input, c.pages[i]>>]

\* start[i] pages come before those of copy i; those of the first k copies are where they belong.
IsStart(start, C) == start[1] = 0 /\ \A i \in 1 .. Len(C) : start[i + 1] = start[i] + Len(Given(C[i]))
Placed(pages, C, k, start) ==
  /\ Len(pages) = start[k + 1]
  /\ \A j \in 1 .. k : \A p \in 1 .. Len(Given(C[j])) :
       start[j] + p \in 1 .. Len(pages) /\ pages[start[j] + p] = Given(C[j])[p]

LEMMA GivenIs ==
  ASSUME NEW c \in CallRecords
  PROVE  /\ Given(c) \in Seq(Nat \X Nat) /\ (c.input = 0 => Given(c) = <<<<0, 0>>>> /\ Len(Given(c)) = 1)
         /\ c.input # 0 => Len(Given(c)) = Len(c.pages) /\ \A i \in 1 .. Len(c.pages) : Given(c)[i] = <<c.input, c.pages[i]>>
<1>1. c.input \in Nat /\ c.pages \in Seq(Nat)
  BY DEF CallRecords
<1>2. CASE c.input = 0
  <2>1. Given(c) = <<<<0, 0>>>> /\ <<0, 0>> \in Nat \X Nat
    BY <1>2 DEF Given
  <2> QED
    BY <1>2, <2>1
<1>3. CASE c.input # 0
  <2>1. Given(c) = [i \in 1 .. Len(c.pages) |-> <<c.input, c.pages[i]>>]
    BY <1>1, <1>3 DEF Given
  <2>2. \A i \in 1 .. Len(c.pages) : <<c.input, c.pages[i]>> \in Nat \X Nat
    BY <1>1
  <2>3. Given(c) \in [1 .. Len(c.pages) -> Nat \X Nat] /\ Len(c.pages) \in Nat
    BY <1>1, <2>1, <2>2
  <2>4. Given(c) \in Seq(Nat \X Nat) /\ Len(Given(c)) = Len(c.pages)
    BY <2>3, ListIs
  <2> QED
    BY <1>3, <2>1, <2>4
<1> QED
  BY <1>2, <1>3

LEMMA NextArePlaced ==
  ASSUME NEW C \in Seq(CallRecords), NEW k \in 0 .. Len(C) - 1, NEW start \in [1 .. Len(C) + 1 -> Nat], IsStart(start, C),
         NEW pages \in Seq(Nat \X Nat), Placed(pages, C, k, start),
         NEW more, more = pages \o Given(C[k + 1])
  PROVE  Placed(more, C, k + 1, start)
<1> DEFINE g == Given(C[k + 1])
<1>1. Len(C) \in Nat /\ k \in Nat /\ k + 1 \in 1 .. Len(C) /\ C[k + 1] \in CallRecords
  OBVIOUS
<1>2. g \in Seq(Nat \X Nat) /\ Len(g) \in Nat
  BY <1>1, GivenIs
<1>3. start[k + 1 + 1] = start[k + 1] + Len(g)
  BY <1>1 DEF IsStart
<1>4. Len(pages) = start[k + 1] /\ Len(pages) \in Nat
  BY DEF Placed
<1> HIDE DEF g
<1>5. more = pages \o g
  BY DEF g
<1>6. /\ Len(more) = Len(pages) + Len(g) /\ \A i \in 1 .. Len(pages) : more[i] = pages[i]
      /\ \A i \in 1 .. Len(g) : more[Len(pages) + i] = g[i]
  BY <1>2, <1>5, AppendedIs
<1>7. ASSUME NEW j \in 1 .. k + 1, NEW p \in 1 .. Len(Given(C[j]))
      PROVE  start[j] + p \in 1 .. Len(more) /\ more[start[j] + p] = Given(C[j])[p]
  <2>1. CASE j = k + 1
    <3>1. p \in 1 .. Len(g) /\ start[j] = Len(pages)
      BY <1>4, <2>1 DEF g
    <3>2. start[j] + p = Len(pages) + p
      BY <3>1
    <3>3. Len(pages) + p \in 1 .. Len(more)
      <4>1. Len(more) = Len(pages) + Len(g) /\ Len(pages) \in Nat /\ Len(g) \in Nat /\ p \in 1 .. Len(g)
        BY <1>2, <1>4, <1>6, <3>1
      <4> QED
        BY <4>1
    <3>4. more[Len(pages) + p] = g[p]
      BY <1>6, <3>1
    <3> QED
      BY <2>1, <3>2, <3>3, <3>4 DEF g
  <2>2. CASE j # k + 1
    <3>1. j \in 1 .. k
      BY <1>1, <2>2
    <3>2. start[j] + p \in 1 .. Len(pages) /\ pages[start[j] + p] = Given(C[j])[p]
      BY <3>1 DEF Placed
    <3>3. start[j] + p \in 1 .. Len(more)
      BY <1>2, <1>4, <1>6, <3>2
    <3> QED
      BY <1>6, <3>2, <3>3
  <2> QED
    BY <2>1, <2>2
<1> QED
  BY <1>3, <1>4, <1>6, <1>7 DEF Placed

\* The layers the pages of an output show, and the output that has them.
PagesIn(t, pages, i) == {p \in 1 .. Len(Engine!Doc(t, i).pages) : <<i, p>> \in Engine!Range(pages)}
LayersIn(t, pages, i) ==
  {g \in Engine!ReachedFromPages(Engine!Doc(t, i), PagesIn(t, pages, i)) :
     Engine!Doc(t, i).objects[g].kind = "layer" /\ g \in Engine!Listed(Engine!Doc(t, i))}
KeptIn(t, pages) == UNION {{<<i, g>> : g \in LayersIn(t, pages, i)} : i \in DOMAIN t.inputs}
HasItsLayers(t, output) ==
  LET keeps == KeptIn(t, output.pages)
  IN  /\ Engine!Range(output.layers) = keeps /\ Len(output.layers) = Cardinality(keeps)
      /\ output.off = {k \in keeps : k[2] \in Engine!Hidden(Engine!Doc(t, k[1]))}

LEMMA KeptIs ==
  ASSUME NEW t, NEW pages, NEW k
  PROVE  k \in KeptIn(t, pages) <=> \E i \in DOMAIN t.inputs : \E g \in LayersIn(t, pages, i) : k = <<i, g>>
BY DEF KeptIn

LEMMA LayerIs ==
  ASSUME NEW t, NEW pages, NEW i, NEW g
  PROVE  g \in LayersIn(t, pages, i) <=>
           /\ \E p \in PagesIn(t, pages, i) : g \in Engine!ReachedFrom(Engine!Doc(t, i), Engine!Doc(t, i).pages[p])
           /\ Engine!Doc(t, i).objects[g].kind = "layer" /\ g \in Engine!Listed(Engine!Doc(t, i))
BY DEF LayersIn, Engine!ReachedFromPages

\* A page more of no input shows nothing.
LEMMA BlankHasNoLayers ==
  ASSUME NEW t, IsGiven(t), NEW pages \in Seq(Nat \X Nat), NEW more, more = pages \o <<<<0, 0>>>>
  PROVE  KeptIn(t, more) = KeptIn(t, pages)
<1> DEFINE blank == <<<<0, 0>>>>
<1>1. blank \in Seq(Nat \X Nat) /\ Engine!Range(blank) = {<<0, 0>>}
  <2>1. <<0, 0>> \in Nat \X Nat
    OBVIOUS
  <2>2. DOMAIN blank = {1} /\ blank[1] = <<0, 0>> /\ blank \in Seq(Nat \X Nat)
    BY <2>1
  <2> HIDE DEF blank
  <2> QED
    BY <2>2 DEF Engine!Range
<1> HIDE DEF blank
<1>2. Engine!Range(more) = Engine!Range(pages) \cup {<<0, 0>>}
  <2>1. more = pages \o blank
    BY DEF blank
  <2>2. Engine!Range(pages \o blank) = Engine!Range(pages) \cup Engine!Range(blank)
    BY <1>1, RangeOfBoth
  <2> QED
    BY <1>1, <2>1, <2>2
<1>3. ASSUME NEW i \in DOMAIN t.inputs PROVE PagesIn(t, more, i) = PagesIn(t, pages, i)
  <2>1. i # 0
    BY InputsAre
  <2> QED
    BY <1>2, <2>1 DEF PagesIn
<1>4. \A i \in DOMAIN t.inputs : LayersIn(t, more, i) = LayersIn(t, pages, i)
  BY <1>3 DEF LayersIn
<1> QED
  BY <1>4 DEF KeptIn

\* The pages of a copy bring the layers they reach, and no others.
Brought(t, c) ==
  {g \in Engine!ReachedFromPages(Engine!Doc(t, c.input), Engine!Range(c.pages)) :
     Engine!Doc(t, c.input).objects[g].kind = "layer" /\ g \in Engine!Listed(Engine!Doc(t, c.input))}

ThingsBrought(t, c) == {<<c.input, g>> : g \in Brought(t, c)}

Follows(more, pages, c) == more = pages \o Given(c)
Brings(t, c, pages, more) == KeptIn(t, more) = KeptIn(t, pages) \cup ThingsBrought(t, c)

LEMMA BroughtAreKept ==
  ASSUME NEW t, IsGiven(t), NEW c, IsCallOf(c, t), c.input # 0, NEW pages \in Seq(Nat \X Nat),
         NEW more, Follows(more, pages, c)
  PROVE  Brings(t, c, pages, more)
<1> DEFINE doc(i) == Engine!Doc(t, i)
<1>1. /\ c \in CallRecords /\ c.input \in DOMAIN t.inputs /\ \A i \in DOMAIN c.pages : c.pages[i] \in Numbers(t, c.input)
      /\ c.pages \in Seq(Nat)
  BY DEF IsCallOf, CallRecords
<1>2. /\ Given(c) \in Seq(Nat \X Nat) /\ Len(Given(c)) = Len(c.pages)
      /\ \A i \in 1 .. Len(c.pages) : Given(c)[i] = <<c.input, c.pages[i]>>
  BY <1>1, GivenIs
<1>3. Engine!Range(Given(c)) = {<<c.input, p>> : p \in Engine!Range(c.pages)}
  <2>1. DOMAIN Given(c) = 1 .. Len(c.pages) /\ DOMAIN c.pages = 1 .. Len(c.pages)
    BY <1>1, <1>2
  <2> QED
    BY <1>2, <2>1 DEF Engine!Range
<1>4. Engine!Range(more) = Engine!Range(pages) \cup {<<c.input, p>> : p \in Engine!Range(c.pages)}
  BY <1>2, <1>3, RangeOfBoth DEF Follows
<1>5. \A p \in Engine!Range(c.pages) : p \in 1 .. Len(doc(c.input).pages)
  BY <1>1 DEF Engine!Range, Numbers, Engine!PageCount
<1>6. ASSUME NEW i \in DOMAIN t.inputs
      PROVE  PagesIn(t, more, i) = PagesIn(t, pages, i) \cup (IF i = c.input THEN Engine!Range(c.pages) ELSE {})
  BY <1>4, <1>5 DEF PagesIn
<1>7. ASSUME NEW i \in DOMAIN t.inputs, NEW g
      PROVE  g \in LayersIn(t, more, i) <=> g \in LayersIn(t, pages, i) \/ (i = c.input /\ g \in Brought(t, c))
  <2>1. g \in Brought(t, c) <=>
          /\ \E p \in Engine!Range(c.pages) : g \in Engine!ReachedFrom(doc(c.input), doc(c.input).pages[p])
          /\ doc(c.input).objects[g].kind = "layer" /\ g \in Engine!Listed(doc(c.input))
    BY DEF Brought, Engine!ReachedFromPages
  <2> QED
    BY <1>6, <2>1, LayerIs
<1>8. ASSUME NEW k PROVE k \in KeptIn(t, more) <=> k \in KeptIn(t, pages) \/ \E g \in Brought(t, c) : k = <<c.input, g>>
  BY <1>1, <1>7, KeptIs
<1> QED
  BY <1>8 DEF ThingsBrought, Brings


LEMMA ListedAre ==
  ASSUME NEW doc, Engine!IsDocument(doc)
  PROVE  /\ Engine!Listed(doc) \subseteq Ids(doc) /\ Engine!Hidden(doc) \subseteq Engine!Listed(doc)
         /\ doc.catalog.groups = <<>> => Engine!Listed(doc) = {}
<1>1. doc.catalog.groups \in Seq(Ids(doc))
  BY DEF Engine!IsDocument, Ids
<1>2. Engine!Range(doc.catalog.groups) \subseteq Ids(doc) /\ Engine!Range(<<>>) = {}
  BY <1>1, RangeIs
<1> QED
  BY <1>2 DEF Engine!Listed, Engine!Hidden

LEMMA IdsAreThings ==
  ASSUME NEW t, IsGiven(t), NEW i \in DOMAIN t.inputs
  PROVE  Ids(Engine!Doc(t, i)) \subseteq Things /\ Engine!IsDocument(Engine!Doc(t, i)) /\ i \in Nat
<1>1. t.inputs \in Seq(DOMAIN PageDocs) /\ Engine!IsDocument(Engine!Doc(t, i)) /\ i \in Nat
  BY InputsAre
<1>2. t.inputs[i] \in DOMAIN PageDocs
  BY <1>1
<1> QED
  BY <1>1, <1>2 DEF Things, Engine!Doc

\* What adds nothing to the layers.
LEMMA SameLayers ==
  ASSUME NEW t, NEW old \in MadeRecords, HasItsLayers(t, old), NEW new \in MadeRecords,
         new.layers = old.layers, new.off = old.off, KeptIn(t, new.pages) = KeptIn(t, old.pages)
  PROVE  HasItsLayers(t, new)
BY DEF HasItsLayers

\* Pairs one by one, and the set of them.
ArePairs(pairs, n, list) == DOMAIN pairs = DOMAIN list /\ \A i \in DOMAIN list : pairs[i] = <<n, list[i]>>
HoldsPairs(pairs, n, list) == Engine!Range(pairs) = {<<n, x>> : x \in Engine!Range(list)}

LEMMA RangeOfPairs ==
  ASSUME NEW n, NEW list, NEW pairs, ArePairs(pairs, n, list)
  PROVE  HoldsPairs(pairs, n, list)
BY DEF Engine!Range, ArePairs, HoldsPairs

LEMMA PreservedIs ==
  ASSUME NEW t, IsGiven(t), NEW c, IsCallOf(c, t), c.input # 0, NEW doc, doc = Engine!Doc(t, c.input),
         NEW reached \in Seq(Ids(doc)), Engine!Range(reached) \cap Engine!Listed(doc) = Brought(t, c),
         NEW found, found = Engine!Those(Engine!Unique(reached), Engine!Listed(doc)),
         NEW old \in MadeRecords, HasItsLayers(t, old), NEW pages, pages = old.pages \o Given(c),
         NEW layers, layers = Engine!Unique(old.layers \o [i \in DOMAIN found |-> <<c.input, found[i]>>]),
         NEW off, off = old.off \cup {<<c.input, g>> : g \in Engine!Range(found) \cap Engine!Hidden(doc)},
         NEW new, new = [pages |-> pages, turned |-> old.turned, layers |-> layers, off |-> off]
  PROVE  new \in MadeRecords /\ HasItsLayers(t, new)
<1> DEFINE copies == [i \in DOMAIN found |-> <<c.input, found[i]>>]
           LT == Nat \X Things
<1>1. /\ c \in CallRecords /\ c.input \in DOMAIN t.inputs
      /\ old.pages \in Seq(Nat \X Nat) /\ old.layers \in Seq(LT) /\ old.off \in SUBSET LT /\ old.turned \in Seq(Nat)
  BY DEF IsCallOf, MadeRecords
<1>2. Engine!IsDocument(doc) /\ Ids(doc) \subseteq Things /\ c.input \in Nat
  BY <1>1, IdsAreThings
<1>3. Engine!Unique(reached) \in Seq(Ids(doc)) /\ Engine!Range(Engine!Unique(reached)) = Engine!Range(reached)
  BY OnceEach
<1>4. found \in Seq(Ids(doc)) /\ Engine!Range(found) = Brought(t, c)
  <2> DEFINE u == Engine!Unique(reached)
             S == Engine!Listed(doc)
             T == Ids(doc)
  <2>1. u \in Seq(T) /\ Engine!Range(u) \cap S = Brought(t, c) /\ found = Engine!Those(u, S)
    BY <1>3
  <2> HIDE DEF u, S, T
  <2>2. Engine!Those(u, S) \in Seq(T) /\ Engine!Range(Engine!Those(u, S)) = Engine!Range(u) \cap S
    BY <2>1, ThoseAre
  <2> QED
    BY <2>1, <2>2 DEF T
<1>5. copies \in Seq(LT) /\ Engine!Range(copies) = ThingsBrought(t, c)
  <2>1. DOMAIN found = 1 .. Len(found) /\ Len(found) \in Nat /\ \A i \in 1 .. Len(found) : found[i] \in Ids(doc)
    BY <1>4
  <2>2. \A i \in 1 .. Len(found) : <<c.input, found[i]>> \in LT
    BY <1>2, <2>1
  <2>3. copies \in [1 .. Len(found) -> LT]
    BY <2>1, <2>2
  <2>4. copies \in Seq(LT)
    BY <2>1, <2>3, ListIs
  <2>5. ArePairs(copies, c.input, found)
    BY DEF ArePairs
  <2> HIDE DEF copies
  <2>6. HoldsPairs(copies, c.input, found)
    BY <2>5, RangeOfPairs
  <2> QED
    BY <1>4, <2>4, <2>6 DEF ThingsBrought, HoldsPairs
<1>6. layers = Engine!Unique(old.layers \o copies)
  OBVIOUS
<1> HIDE DEF copies
<1> DEFINE both == old.layers \o copies
<1>7. both \in Seq(LT) /\ Engine!Range(both) = Engine!Range(old.layers) \cup Engine!Range(copies)
  BY <1>1, <1>5, RangeOfBoth, AppendedIs
<1>8. layers = Engine!Unique(both)
  BY <1>6
<1> HIDE DEF both
<1>9. /\ layers \in Seq(LT) /\ Engine!Range(layers) = Engine!Range(both)
      /\ Len(layers) = Cardinality(Engine!Range(layers))
  <2>1. Engine!Unique(both) \in Seq(LT) /\ Engine!Range(Engine!Unique(both)) = Engine!Range(both)
        /\ Len(Engine!Unique(both)) = Cardinality(Engine!Range(both))
    BY <1>7, OnceEach
  <2> QED
    BY <1>8, <2>1
<1>10. KeptIn(t, pages) = KeptIn(t, old.pages) \cup ThingsBrought(t, c)
  <2> DEFINE older == old.pages
  <2>1. older \in Seq(Nat \X Nat) /\ pages = older \o Given(c)
    BY <1>1
  <2> HIDE DEF older
  <2>2. IsGiven(t) /\ IsCallOf(c, t) /\ c.input # 0
    OBVIOUS
  <2>3. Follows(pages, older, c)
    BY <2>1 DEF Follows
  <2>4. Brings(t, c, older, pages)
    BY <2>1, <2>2, <2>3, BroughtAreKept
  <2> QED
    BY <2>4 DEF older, Brings
<1>11. Engine!Range(old.layers) = KeptIn(t, old.pages) /\ old.off = {k \in KeptIn(t, old.pages) : k[2] \in Engine!Hidden(Engine!Doc(t, k[1]))}
  BY DEF HasItsLayers
<1>12. Engine!Range(layers) = KeptIn(t, pages)
  BY <1>5, <1>7, <1>9, <1>10, <1>11
<1>13. off = {k \in KeptIn(t, pages) : k[2] \in Engine!Hidden(Engine!Doc(t, k[1]))}
  <2>1. off = old.off \cup {<<c.input, g>> : g \in Brought(t, c) \cap Engine!Hidden(doc)}
    BY <1>4
  <2>2. \A g : LET k == <<c.input, g>> IN k[2] = g /\ Engine!Doc(t, k[1]) = doc
    OBVIOUS
  <2> QED
    BY <1>10, <1>11, <2>1, <2>2 DEF ThingsBrought
<1>14. new \in MadeRecords
  <2>1. pages \in Seq(Nat \X Nat)
    BY <1>1, GivenIs, AppendedIs
  <2>2. Brought(t, c) \subseteq Ids(doc)
    <3>1. Engine!Range(found) \subseteq Ids(doc)
      BY <1>4, RangeIs
    <3> QED
      BY <1>4, <3>1
  <2>3. off \in SUBSET LT
    BY <1>1, <1>2, <1>4, <2>2
  <2> HIDE DEF LT
  <2>4. layers \in Seq(LT) /\ old.turned \in Seq(Nat)
    BY <1>1, <1>9
  <2> QED
    BY <2>1, <2>3, <2>4 DEF MadeRecords, LT
<1>15. new.pages = pages /\ new.layers = layers /\ new.off = off
  OBVIOUS
<1> QED
  BY <1>9, <1>12, <1>13, <1>14, <1>15 DEF HasItsLayers


-----------------------------------------------------------------------------
(* The walk of a copy (LayeredPages): what it has opened, M, what waits on *)
(* its stack and what holds nothing are all that the pages so far and the  *)
(* objects of M refer to; nothing else is reached.                         *)

LEMMA PagesReached ==
  ASSUME NEW doc, Engine!IsDocument(doc), NEW P \in SUBSET (1 .. Len(doc.pages)),
         NEW R, R = Engine!ReachedFromPages(doc, P)
  PROVE  /\ R \in SUBSET Ids(doc) /\ IsClosed(doc, R)
         /\ \A p \in P : Engine!Range(doc.pages[p]) \subseteq R /\ doc.pages[p] \in Seq(Ids(doc))
         /\ \A M \in SUBSET Ids(doc) :
              IsClosed(doc, M) /\ (\A p \in P : Engine!Range(doc.pages[p]) \subseteq M) => R \subseteq M
<1>1. doc.pages \in Seq(Seq(Ids(doc)))
  BY DEF Engine!IsDocument, Ids
<1>2. \A p \in P : doc.pages[p] \in Seq(Ids(doc))
  BY <1>1
<1>3. ASSUME NEW p \in P, NEW reached, reached = Engine!ReachedFrom(doc, doc.pages[p])
      PROVE  /\ reached \in SUBSET Ids(doc) /\ Engine!Range(doc.pages[p]) \subseteq reached /\ IsClosed(doc, reached)
             /\ \A M \in SUBSET Ids(doc) : Engine!Range(doc.pages[p]) \subseteq M /\ IsClosed(doc, M) => reached \subseteq M
  <2> DEFINE roots == doc.pages[p]
  <2>1. roots \in Seq(Ids(doc)) /\ reached = Engine!ReachedFrom(doc, roots)
    BY <1>2, <1>3
  <2> HIDE DEF roots
  <2>2. /\ reached \in SUBSET Ids(doc) /\ Engine!Range(roots) \subseteq reached /\ IsClosed(doc, reached)
        /\ \A M \in SUBSET Ids(doc) : Engine!Range(roots) \subseteq M /\ IsClosed(doc, M) => reached \subseteq M
    BY <2>1, ReachedIs
  <2> QED
    BY <2>2 DEF roots
<1>4. \A x : x \in R <=> \E p \in P : x \in Engine!ReachedFrom(doc, doc.pages[p])
  BY DEF Engine!ReachedFromPages
<1>5. \A p \in P : Engine!ReachedFrom(doc, doc.pages[p]) \subseteq R
  BY <1>4
<1>6. R \in SUBSET Ids(doc)
  BY <1>3, <1>4
<1>7. IsClosed(doc, R)
  <2>1. ASSUME NEW x \in R, IsOpened(doc, x) PROVE Kids(doc, x) \subseteq R
    <3>1. PICK p \in P : x \in Engine!ReachedFrom(doc, doc.pages[p])
      BY <1>4
    <3>2. IsClosed(doc, Engine!ReachedFrom(doc, doc.pages[p]))
      BY <1>3
    <3>3. Kids(doc, x) \subseteq Engine!ReachedFrom(doc, doc.pages[p])
      BY <2>1, <3>1, <3>2 DEF IsClosed
    <3> QED
      BY <1>5, <3>3
  <2> QED
    BY <2>1 DEF IsClosed
<1>8. \A p \in P : Engine!Range(doc.pages[p]) \subseteq R
  BY <1>3, <1>5
<1>9. ASSUME NEW M \in SUBSET Ids(doc), IsClosed(doc, M), \A p \in P : Engine!Range(doc.pages[p]) \subseteq M
      PROVE  R \subseteq M
  <2>1. \A p \in P : Engine!ReachedFrom(doc, doc.pages[p]) \subseteq M
    BY <1>3, <1>9
  <2> QED
    BY <1>4, <2>1
<1> QED
  BY <1>2, <1>6, <1>7, <1>8, <1>9

IsScalar(doc, x) == doc.objects[x].kind = "scalar"
Met(doc, M, waiting) == M \cup Engine!Range(waiting) \cup {x \in Ids(doc) : IsScalar(doc, x)}
IsWalk(M, doc, P, met, found, waiting) ==
  /\ M \in SUBSET Ids(doc) /\ met \subseteq M
  /\ \A x \in Ids(doc) : x \in Engine!Range(found) <=> x \in M /\ doc.objects[x].kind = "layer"
  /\ \A x \in M : IsOpened(doc, x) => Kids(doc, x) \subseteq Met(doc, M, waiting)
  /\ \A p \in P : Engine!Range(doc.pages[p]) \subseteq Met(doc, M, waiting)
  /\ M \cup Engine!Range(waiting) \subseteq Engine!ReachedFromPages(doc, P)
HasWalked(doc, P, met, found, waiting) ==
  /\ found \in Seq(Ids(doc)) /\ waiting \in Seq(Ids(doc)) /\ P \in SUBSET (1 .. Len(doc.pages))
  /\ \E M : IsWalk(M, doc, P, met, found, waiting)

LEMMA NothingInIt == Engine!Range(<<>>) = {}
BY DEF Engine!Range

LEMMA WalkStarts ==
  ASSUME NEW doc, Engine!IsDocument(doc) PROVE HasWalked(doc, {}, {}, <<>>, <<>>)
<1>1. Engine!Range(<<>>) = {}
  BY NothingInIt
<1>2. IsWalk({}, doc, {}, {}, <<>>, <<>>)
  BY <1>1 DEF IsWalk
<1> QED
  BY <1>2 DEF HasWalked

\* The stack is empty: what the next page refers to is put on it.
LEMMA WalkTakesPage ==
  ASSUME NEW doc, Engine!IsDocument(doc), NEW P, NEW met, NEW found, HasWalked(doc, P, met, found, <<>>),
         NEW p \in 1 .. Len(doc.pages)
  PROVE  HasWalked(doc, P \cup {p}, met, found, doc.pages[p])
<1> DEFINE Q == P \cup {p}
           roots == doc.pages[p]
<1>1. PICK M : IsWalk(M, doc, P, met, found, <<>>)
  BY DEF HasWalked
<1>2. P \in SUBSET (1 .. Len(doc.pages)) /\ Q \in SUBSET (1 .. Len(doc.pages)) /\ p \in Q
  BY DEF HasWalked
<1> HIDE DEF Q
<1>3. roots \in Seq(Ids(doc)) /\ Engine!Range(roots) \subseteq Engine!ReachedFromPages(doc, Q)
  <2> DEFINE R == Engine!ReachedFromPages(doc, Q)
  <2>1. \A q \in Q : Engine!Range(doc.pages[q]) \subseteq R /\ doc.pages[q] \in Seq(Ids(doc))
    BY <1>2, PagesReached
  <2> QED
    BY <1>2, <2>1
<1>4. Engine!Range(<<>>) = {}
  BY NothingInIt
<1>5. Engine!ReachedFromPages(doc, P) \subseteq Engine!ReachedFromPages(doc, Q)
  BY DEF Engine!ReachedFromPages, Q
<1> HIDE DEF roots
<1>6. Met(doc, M, <<>>) \subseteq Met(doc, M, roots) /\ Engine!Range(roots) \subseteq Met(doc, M, roots)
  BY <1>4 DEF Met
<1>7. \A q \in Q : Engine!Range(doc.pages[q]) \subseteq Met(doc, M, roots)
  BY <1>1, <1>6 DEF IsWalk, roots, Q
<1>8. IsWalk(M, doc, Q, met, found, roots)
  BY <1>1, <1>3, <1>4, <1>5, <1>6, <1>7 DEF IsWalk
<1> QED
  BY <1>2, <1>3, <1>8 DEF HasWalked, roots, Q

\* A stack is what is below its top, and its top.
IsBelow(below, s) == below = SubSeq(s, 1, Len(s) - 1)

LEMMA TopIs ==
  ASSUME NEW T, NEW s \in Seq(T), s # <<>>, NEW below, IsBelow(below, s)
  PROVE  s[Len(s)] \in T /\ below \in Seq(T) /\ Engine!Range(s) = Engine!Range(below) \cup {s[Len(s)]}
<1>1. Len(s) \in Nat /\ Len(s) > 0
  OBVIOUS
<1>2. s[Len(s)] \in T /\ below \in Seq(T) /\ s = Append(below, s[Len(s)])
  BY <1>1 DEF IsBelow
<1> DEFINE top == s[Len(s)]
<1>3. top \in T /\ s = Append(below, top)
  BY <1>2
<1> HIDE DEF top
<1>4. Engine!Range(Append(below, top)) = Engine!Range(below) \cup {top}
  BY <1>2, <1>3, RangeIs
<1>5. Engine!Range(s) = Engine!Range(below) \cup {top}
  BY <1>3, <1>4
<1> QED
  BY <1>2, <1>5 DEF top

LEMMA TurnedRound ==
  ASSUME NEW T, NEW s \in Seq(T), NEW r, r = Engine!Reversed(s)
  PROVE  r \in Seq(T) /\ Engine!Range(r) = Engine!Range(s)
<1>1. Len(s) \in Nat /\ DOMAIN s = 1 .. Len(s)
  OBVIOUS
<1>2. \A i \in 1 .. Len(s) : Len(s) + 1 - i \in 1 .. Len(s) /\ Len(s) + 1 - (Len(s) + 1 - i) = i
  BY <1>1
<1>3. r = [i \in 1 .. Len(s) |-> s[Len(s) + 1 - i]]
  BY <1>1 DEF Engine!Reversed
<1>4. r \in [1 .. Len(s) -> T]
  BY <1>1, <1>2, <1>3
<1>5. r \in Seq(T) /\ DOMAIN r = 1 .. Len(s)
  BY <1>1, <1>4, ListIs
<1>6. \A i \in 1 .. Len(s) : r[i] = s[Len(s) + 1 - i] /\ s[i] = r[Len(s) + 1 - i]
  BY <1>1, <1>2, <1>3
<1> QED
  BY <1>1, <1>2, <1>5, <1>6 DEF Engine!Range

\* A scalar on the top, or what was met before, is passed over.
LEMMA WalkPasses ==
  ASSUME NEW doc, Engine!IsDocument(doc), NEW P, NEW met, NEW found, NEW waiting, HasWalked(doc, P, met, found, waiting),
         waiting # <<>>, NEW below, IsBelow(below, waiting), NEW top, top = waiting[Len(waiting)],
         IsScalar(doc, top) \/ top \in met
  PROVE  HasWalked(doc, P, met, found, below)
<1>1. PICK M : IsWalk(M, doc, P, met, found, waiting)
  BY DEF HasWalked
<1>2. waiting \in Seq(Ids(doc))
  BY DEF HasWalked
<1>3. top \in Ids(doc) /\ below \in Seq(Ids(doc)) /\ Engine!Range(waiting) = Engine!Range(below) \cup {top}
  BY <1>2, TopIs
<1>4. top \in M \/ IsScalar(doc, top)
  BY <1>1 DEF IsWalk
<1>5. Met(doc, M, below) = Met(doc, M, waiting)
  BY <1>3, <1>4 DEF Met
<1>6. IsWalk(M, doc, P, met, found, below)
  BY <1>1, <1>3, <1>5 DEF IsWalk
<1> QED
  BY <1>3, <1>6 DEF HasWalked

\* What is new on the top is opened, or is a layer, or a page.
LEMMA WalkVisits ==
  ASSUME NEW doc, Engine!IsDocument(doc), NEW P, NEW met, NEW found, NEW waiting, HasWalked(doc, P, met, found, waiting),
         waiting # <<>>, NEW below, IsBelow(below, waiting), NEW top, top = waiting[Len(waiting)],
         ~IsScalar(doc, top),
         NEW nextMet, nextMet = IF doc.objects[top].direct THEN met ELSE met \cup {top},
         NEW nextFound, nextFound = IF doc.objects[top].kind = "layer" THEN Append(found, top) ELSE found,
         NEW nextWaiting, nextWaiting = IF doc.objects[top].kind \in {"layer", "pages"} THEN below
                                        ELSE below \o Engine!Reversed(doc.objects[top].kids)
  PROVE  HasWalked(doc, P, nextMet, nextFound, nextWaiting)
<1> DEFINE R == Engine!ReachedFromPages(doc, P)
<1>1. PICK M : IsWalk(M, doc, P, met, found, waiting)
  BY DEF HasWalked
<1>2. waiting \in Seq(Ids(doc)) /\ found \in Seq(Ids(doc)) /\ P \in SUBSET (1 .. Len(doc.pages))
  BY DEF HasWalked
<1>3. top \in Ids(doc) /\ below \in Seq(Ids(doc)) /\ Engine!Range(waiting) = Engine!Range(below) \cup {top}
  BY <1>2, TopIs
<1>4. /\ Kids(doc, top) \subseteq Ids(doc) /\ doc.objects[top].kids \in Seq(Ids(doc))
      /\ doc.objects[top].kind \in {"dict", "array", "layer", "pages", "scalar"}
  BY <1>3, KidsAre
<1>5. IsClosed(doc, R) /\ R \in SUBSET Ids(doc) /\ M \cup Engine!Range(waiting) \subseteq R
  BY <1>1, <1>2, PagesReached DEF IsWalk
<1> HIDE DEF R
<1>6. Kids(doc, top) \subseteq R \/ ~IsOpened(doc, top)
  BY <1>3, <1>5 DEF IsClosed
<1>7. /\ nextWaiting \in Seq(Ids(doc)) /\ Engine!Range(below) \subseteq Engine!Range(nextWaiting)
      /\ Engine!Range(nextWaiting) \subseteq Engine!Range(below) \cup (IF IsOpened(doc, top) THEN Kids(doc, top) ELSE {})
      /\ IsOpened(doc, top) => Kids(doc, top) \subseteq Engine!Range(nextWaiting)
  <2>1. CASE doc.objects[top].kind \in {"layer", "pages"}
    BY <1>3, <2>1 DEF IsOpened
  <2>2. CASE doc.objects[top].kind \notin {"layer", "pages"}
    <3> DEFINE kids == Engine!Reversed(doc.objects[top].kids)
    <3>1. IsOpened(doc, top)
      BY <1>4, <2>2 DEF IsOpened, IsScalar
    <3>2. kids \in Seq(Ids(doc)) /\ Engine!Range(kids) = Kids(doc, top)
      BY <1>4, TurnedRound DEF Kids
    <3>3. nextWaiting = below \o kids
      BY <2>2
    <3> HIDE DEF kids
    <3>4. nextWaiting \in Seq(Ids(doc)) /\ Engine!Range(nextWaiting) = Engine!Range(below) \cup Engine!Range(kids)
      <4>1. Engine!Range(below \o kids) = Engine!Range(below) \cup Engine!Range(kids)
        BY <1>3, <3>2, RangeOfBoth
      <4>2. below \o kids \in Seq(Ids(doc))
        BY <1>3, <3>2, AppendedIs
      <4> QED
        BY <3>3, <4>1, <4>2
    <3> QED
      BY <3>1, <3>2, <3>4
  <2> QED
    BY <2>1, <2>2
<1> DEFINE grown == M \cup {top}
<1>8. grown \in SUBSET Ids(doc) /\ nextMet \subseteq grown
  BY <1>1, <1>3 DEF IsWalk
<1>9. nextFound \in Seq(Ids(doc))
      /\ Engine!Range(nextFound) = Engine!Range(found) \cup (IF doc.objects[top].kind = "layer" THEN {top} ELSE {})
  <2>1. Append(found, top) \in Seq(Ids(doc)) /\ Engine!Range(Append(found, top)) = Engine!Range(found) \cup {top}
    BY <1>2, <1>3, RangeIs
  <2> QED
    BY <1>2, <2>1
<1>10. \A x \in Ids(doc) : x \in Engine!Range(nextFound) <=> x \in grown /\ doc.objects[x].kind = "layer"
  <2>1. \A x \in Ids(doc) : x \in Engine!Range(found) <=> x \in M /\ doc.objects[x].kind = "layer"
    BY <1>1 DEF IsWalk
  <2> QED
    BY <1>9, <2>1
<1>11. Met(doc, M, waiting) \subseteq Met(doc, grown, nextWaiting)
  BY <1>3, <1>7 DEF Met
<1>12. \A x \in grown : IsOpened(doc, x) => Kids(doc, x) \subseteq Met(doc, grown, nextWaiting)
  <2>1. IsOpened(doc, top) => Kids(doc, top) \subseteq Met(doc, grown, nextWaiting)
    BY <1>7 DEF Met
  <2>2. \A x \in M : IsOpened(doc, x) => Kids(doc, x) \subseteq Met(doc, M, waiting)
    BY <1>1 DEF IsWalk
  <2> QED
    BY <1>11, <2>1, <2>2
<1>13. \A p \in P : Engine!Range(doc.pages[p]) \subseteq Met(doc, grown, nextWaiting)
  BY <1>1, <1>11 DEF IsWalk
<1>14. grown \cup Engine!Range(nextWaiting) \subseteq R
  BY <1>3, <1>5, <1>6, <1>7
<1> HIDE DEF grown
<1>15. IsWalk(grown, doc, P, nextMet, nextFound, nextWaiting)
  BY <1>8, <1>10, <1>12, <1>13, <1>14 DEF IsWalk, R
<1> QED
  BY <1>2, <1>7, <1>9, <1>15 DEF HasWalked

\* At its end it has found the layers that the pages reach.
LEMMA WalkEnds ==
  ASSUME NEW doc, Engine!IsDocument(doc), NEW P, NEW met, NEW found, HasWalked(doc, P, met, found, <<>>)
  PROVE  /\ found \in Seq(Ids(doc)) /\ P \in SUBSET (1 .. Len(doc.pages))
         /\ Engine!Range(found) = {g \in Engine!ReachedFromPages(doc, P) : doc.objects[g].kind = "layer"}
<1> DEFINE R == Engine!ReachedFromPages(doc, P)
<1>1. PICK M : IsWalk(M, doc, P, met, found, <<>>)
  BY DEF HasWalked
<1>2. found \in Seq(Ids(doc)) /\ P \in SUBSET (1 .. Len(doc.pages))
  BY DEF HasWalked
<1>3. Engine!Range(<<>>) = {}
  BY NothingInIt
<1> DEFINE scalars == {x \in Ids(doc) : IsScalar(doc, x)}
           S == M \cup scalars
<1>4. Met(doc, M, <<>>) = S
  BY <1>3 DEF Met
<1>5. \A x \in scalars : ~IsOpened(doc, x) /\ doc.objects[x].kind # "layer"
  BY DEF IsScalar, IsOpened
<1>6. M \in SUBSET Ids(doc) /\ S \in SUBSET Ids(doc) /\ M \subseteq R
  BY <1>1, <1>3 DEF IsWalk
<1>7. IsClosed(doc, S)
  BY <1>1, <1>4, <1>5 DEF IsWalk, IsClosed
<1>8. \A p \in P : Engine!Range(doc.pages[p]) \subseteq S
  BY <1>1, <1>4 DEF IsWalk
<1>9. R \subseteq S
  BY <1>2, <1>6, <1>7, <1>8, PagesReached
<1>10. \A x \in Ids(doc) : x \in Engine!Range(found) <=> x \in M /\ doc.objects[x].kind = "layer"
  BY <1>1 DEF IsWalk
<1>11. Engine!Range(found) \subseteq Ids(doc)
  BY <1>2, RangeIs
<1> QED
  BY <1>2, <1>5, <1>6, <1>9, <1>10, <1>11


-----------------------------------------------------------------------------
(* The operation at each step (LayeredPages): what is left to copy is the  *)
(* rest of what it copies; what is behind is in the outputs, page by page, *)
(* with the layers it shows; and the walk has what the pages looked at     *)
(* reach.                                                                  *)

Looking == {"look", "walk", "add"}
Busy == Looking \cup {"copy", "save"}
IsCarriedOut == step \in Busy \/ result = "success"
Copying == IsCarriedOut /\ task.op # "rotate"

IsRestOf(rest, C) ==
  /\ rest \in Seq(CallRecords) /\ Len(rest) <= Len(C)
  /\ \A i \in 1 .. Len(rest) : rest[i] = C[Len(C) - Len(rest) + i]

\* The first k copies of the operation have been made.
HasPages(m, t, k) ==
  LET C == Engine!Copies(t)
  IN  IF t.op = "split"
      THEN \A o \in 1 .. Len(C) : m[o].pages = IF o <= k THEN Given(C[o]) ELSE <<>>
      ELSE \A start \in [1 .. Len(C) + 1 -> Nat] : IsStart(start, C) => Placed(m[1].pages, C, k, start)

Behind == Len(Engine!Copies(task)) - Len(todo) + (IF step = "save" THEN 1 ELSE 0)

EngineTypes ==
  /\ task \in PageJobs /\ step \in Busy \cup {"open", "done"} /\ (result = "success" => step = "done")
  /\ made \in [Engine!OutputsOf(task) -> MadeRecords]
  /\ step = "open" => made = [o \in Engine!OutputsOf(task) |-> Engine!Empty]
  /\ task.op = "rotate" => step \in {"open", "save", "done"}
  /\ IsCarriedOut => Engine!IsValid(task)
TheRestIsTodo ==
  Copying => IsRestOf(todo, Engine!Copies(task)) /\ (IF step = "done" THEN todo = <<>> ELSE todo # <<>>)
BehindIsMade == Copying => HasPages(made, task, Behind)
TurnedIsMade ==
  IsCarriedOut /\ task.op = "rotate" =>
    /\ step = "save" => todo # <<>> /\ Tail(todo) = <<>>
    /\ made[1].pages = [i \in 1 .. Engine!PageCount(task, 1) |-> <<1, i>>] /\ made[1].turned = Engine!Turned(task)
LayersAreMade == task.op # "rotate" => \A o \in Engine!OutputsOf(task) : HasItsLayers(task, made[o])

LookedAt(c, n) == {c.pages[j] : j \in 1 .. n}
WalkGoesOn(c, doc) ==
  /\ c.input # 0 /\ at \in 1 .. Len(c.pages) + 1
  /\ step # "walk" => stack = <<>>
  /\ IF doc.catalog.groups # <<>>
     THEN HasWalked(doc, LookedAt(c, at - 1), seen, reachable, stack) /\ (step = "add" => at = Len(c.pages) + 1)
     ELSE step = "add"
LayersAreSought == step \in Looking => WalkGoesOn(Head(todo), Engine!Doc(task, Head(todo).input))

EngineInv ==
  EngineTypes /\ TheRestIsTodo /\ BehindIsMade /\ TurnedIsMade /\ LayersAreMade /\ LayersAreSought

LEMMA EmptyIs ==
  ASSUME NEW t PROVE Engine!Empty \in MadeRecords /\ Engine!Empty.pages = <<>> /\ HasItsLayers(t, Engine!Empty)
<1>1. Engine!Empty = [pages |-> <<>>, turned |-> <<>>, layers |-> <<>>, off |-> {}]
  BY DEF Engine!Empty
<1>2. Engine!Empty \in MadeRecords
  BY <1>1 DEF MadeRecords
<1>3. \A i : PagesIn(t, <<>>, i) = {}
  BY NothingInIt DEF PagesIn
<1>4. \A i, g : g \notin LayersIn(t, <<>>, i)
  BY <1>3, LayerIs
<1>5. KeptIn(t, <<>>) = {}
  BY <1>4, KeptIs
<1> QED
  BY <1>1, <1>2, <1>5, NothingInIt, FS_EmptySet DEF HasItsLayers

LEMMA EngineStarts == Engine!Init => EngineInv
<1> SUFFICES ASSUME Engine!Init PROVE EngineInv
  OBVIOUS
<1>1. task \in PageJobs /\ step = "open" /\ result = "none" /\ made = [o \in Engine!OutputsOf(task) |-> Engine!Empty]
  BY DEF Engine!Init
<1>2. \A o \in Engine!OutputsOf(task) : made[o] = Engine!Empty
  BY <1>1
<1>3. ~IsCarriedOut
  BY <1>1 DEF IsCarriedOut, Busy, Looking
<1>4. EngineTypes
  BY <1>1, <1>3, EmptyIs DEF EngineTypes
<1>5. LayersAreMade
  BY <1>2, EmptyIs DEF LayersAreMade
<1> QED
  BY <1>1, <1>3, <1>4, <1>5 DEF EngineInv, TheRestIsTodo, BehindIsMade, TurnedIsMade, LayersAreSought, Copying, Looking

\* The copy in hand.
LEMMA TheCopy ==
  ASSUME EngineInv, Copying, step # "done", NEW C, C = Engine!Copies(task)
  PROVE  /\ IsGiven(task) /\ Engine!IsValid(task) /\ C \in Seq(CallRecords) /\ Len(C) \in Nat
         /\ todo \in Seq(CallRecords) /\ todo # <<>> /\ Len(todo) \in 1 .. Len(C)
         /\ Head(todo) = C[Len(C) - Len(todo) + 1] /\ IsCallOf(Head(todo), task) /\ Head(todo) \in CallRecords
         /\ Head(todo).out \in Engine!OutputsOf(task) /\ Engine!Call = Head(todo)
         /\ IsRestOf(Tail(todo), C) /\ Len(Tail(todo)) = Len(todo) - 1
<1>1. IsGiven(task) /\ Engine!IsValid(task) /\ task.op # "rotate"
  BY JobsAreOperations DEF EngineInv, EngineTypes, Copying
<1>2. C \in Seq(CallRecords) /\ \A i \in 1 .. Len(C) : IsCallOf(C[i], task)
  BY <1>1, CopiesAre
<1>3. IsRestOf(todo, C) /\ todo # <<>>
  BY DEF EngineInv, TheRestIsTodo
<1>4. /\ todo \in Seq(CallRecords) /\ Len(todo) <= Len(C) /\ Len(todo) \in Nat /\ Len(C) \in Nat /\ Len(todo) > 0
      /\ \A i \in 1 .. Len(todo) : todo[i] = C[Len(C) - Len(todo) + i]
  BY <1>2, <1>3 DEF IsRestOf
<1>5. Head(todo) = todo[1] /\ Tail(todo) \in Seq(CallRecords) /\ Len(Tail(todo)) = Len(todo) - 1
      /\ \A i \in 1 .. Len(todo) - 1 : Tail(todo)[i] = todo[i + 1]
  BY <1>3, <1>4
<1>6. Len(C) - Len(todo) + 1 \in 1 .. Len(C) /\ 1 \in 1 .. Len(todo)
  BY <1>4
<1>7. Head(todo) = C[Len(C) - Len(todo) + 1] /\ IsCallOf(Head(todo), task)
  BY <1>2, <1>4, <1>5, <1>6
<1>8. Head(todo) \in CallRecords /\ Head(todo).out \in Engine!OutputsOf(task)
  BY <1>7 DEF IsCallOf
<1>9. IsRestOf(Tail(todo), C)
  <2>1. ASSUME NEW i \in 1 .. Len(Tail(todo)) PROVE Tail(todo)[i] = C[Len(C) - Len(Tail(todo)) + i]
    <3>1. i \in 1 .. Len(todo) - 1 /\ i + 1 \in 1 .. Len(todo)
      BY <1>4, <1>5
    <3>2. Len(C) - Len(todo) + (i + 1) = Len(C) - Len(Tail(todo)) + i
      BY <1>4, <1>5
    <3> QED
      BY <1>4, <1>5, <3>1, <3>2
  <2>2. Len(Tail(todo)) <= Len(C)
    BY <1>4, <1>5
  <2> QED
    BY <1>5, <2>1, <2>2 DEF IsRestOf
<1>10. Len(todo) \in 1 .. Len(C)
  BY <1>4
<1> QED
  BY <1>1, <1>2, <1>3, <1>4, <1>5, <1>7, <1>8, <1>9, <1>10 DEF Engine!Call

LEMMA EngineFails ==
  ASSUME EngineInv, step' = "done", result' # "success", UNCHANGED <<task, made>> PROVE EngineInv'
<1>1. ~IsCarriedOut'
  BY DEF IsCarriedOut, Busy, Looking
<1>2. EngineTypes' /\ LayersAreMade'
  BY <1>1 DEF EngineInv, EngineTypes, LayersAreMade
<1> QED
  BY <1>1, <1>2 DEF EngineInv, TheRestIsTodo, BehindIsMade, TurnedIsMade, LayersAreSought, Copying, Looking

\* A step of the walk.
LEMMA WalkStep ==
  ASSUME EngineInv, step \in Looking \cup {"copy"}, step' \in Looking, UNCHANGED <<task, todo, made, result>>,
         WalkGoesOn(Head(todo), Engine!Doc(task, Head(todo).input))'
  PROVE  EngineInv'
<1>1. IsCarriedOut /\ IsCarriedOut' /\ step # "save" /\ step' # "save" /\ step # "done" /\ step' \notin {"done", "open"}
      /\ result # "success"
  BY DEF IsCarriedOut, Busy, Looking, EngineInv, EngineTypes
<1>2. task.op # "rotate"
  BY DEF EngineInv, EngineTypes, Looking
<1>3. EngineTypes'
  BY <1>1, <1>2 DEF EngineInv, EngineTypes, Busy
<1>4. TheRestIsTodo' /\ BehindIsMade'
  BY <1>1, <1>2 DEF EngineInv, TheRestIsTodo, BehindIsMade, Behind, Copying
<1>5. TurnedIsMade' /\ LayersAreMade'
  BY <1>1, <1>2 DEF EngineInv, TurnedIsMade, LayersAreMade
<1>6. LayersAreSought'
  BY DEF LayersAreSought
<1> QED
  BY <1>3, <1>4, <1>5, <1>6 DEF EngineInv

LEMMA EngineOpens ==
  ASSUME EngineInv, Engine!Opens PROVE EngineInv'
<1>1. step = "open" /\ UNCHANGED <<task, made>>
  BY DEF Engine!Opens, Engine!Fails
<1>2. CASE ~Engine!IsValid(task)
  BY <1>1, <1>2, EngineFails DEF Engine!Opens, Engine!Fails
<1>3. CASE Engine!IsValid(task)
  <2> DEFINE C == Engine!Copies(task)
  <2>1. step' = "copy" /\ todo' = C /\ UNCHANGED <<task, made, result>> /\ task.op # "rotate"
    BY <1>3 DEF Engine!Opens
  <2>2. IsGiven(task) /\ made = [o \in Engine!OutputsOf(task) |-> Engine!Empty] /\ result # "success"
    BY <1>1, JobsAreOperations DEF EngineInv, EngineTypes
  <2>3. /\ C \in Seq(CallRecords) /\ Len(C) \in Nat /\ Len(C) > 0
        /\ task.op = "split" => Engine!OutputsOf(task) = 1 .. Len(C)
        /\ task.op # "split" => Engine!OutputsOf(task) = {1}
    BY <1>3, <2>1, <2>2, CopiesAre
  <2>4. \A o \in Engine!OutputsOf(task) : made[o].pages = <<>>
    BY <2>2, EmptyIs
  <2> HIDE DEF C
  <2>5. IsRestOf(C, C) /\ C # <<>>
    <3>1. Len(C) - Len(C) = 0 /\ \A i \in 1 .. Len(C) : 0 + i = i
      BY <2>3
    <3> QED
      BY <2>3, <3>1 DEF IsRestOf
  <2>6. HasPages(made, task, 0)
    <3>1. CASE task.op = "split"
      BY <2>3, <2>4, <3>1 DEF HasPages, C
    <3>2. CASE task.op # "split"
      <4>1. made[1].pages = <<>>
        BY <2>3, <2>4, <3>2
      <4>2. ASSUME NEW start, IsStart(start, C) PROVE Placed(made[1].pages, C, 0, start)
        BY <4>1, <4>2 DEF IsStart, Placed
      <4> QED
        BY <3>2, <4>2 DEF HasPages, C
    <3> QED
      BY <3>1, <3>2
  <2>7. Behind' = 0
    <3>1. Behind' = Len(C) - Len(C) + 0
      BY <2>1 DEF Behind, C
    <3> QED
      BY <2>3, <3>1
  <2>8. EngineTypes'
    BY <1>3, <2>1, <2>2 DEF EngineInv, EngineTypes, Busy
  <2>9. TheRestIsTodo'
    BY <2>1, <2>5 DEF TheRestIsTodo, C
  <2>10. BehindIsMade'
    BY <2>1, <2>6, <2>7 DEF BehindIsMade
  <2>11. TurnedIsMade' /\ LayersAreMade' /\ LayersAreSought'
    BY <2>1 DEF EngineInv, TurnedIsMade, LayersAreMade, LayersAreSought, Looking
  <2> QED
    BY <2>8, <2>9, <2>10, <2>11 DEF EngineInv
<1> QED
  BY <1>2, <1>3


LEMMA EngineRotates ==
  ASSUME EngineInv, Engine!Rotates PROVE EngineInv'
<1> DEFINE n == Engine!PageCount(task, 1)
           P == [i \in 1 .. n |-> <<1, i>>]
           T == Engine!Turned(task)
<1>1. /\ step = "open" /\ step' = "save" /\ task.op = "rotate" /\ Engine!IsValid(task) /\ UNCHANGED <<task, result>>
      /\ todo' = <<Engine!Copy(1, 1, Engine!Upto(n))>>
      /\ made' = [made EXCEPT ![1].pages = P, ![1].turned = T]
  BY DEF Engine!Rotates
<1>2. /\ task \in PageJobs /\ IsGiven(task) /\ made \in [{1} -> MadeRecords] /\ Engine!OutputsOf(task) = {1}
      /\ result # "success"
  BY <1>1, JobsAreOperations DEF EngineInv, EngineTypes, Engine!OutputsOf
<1>3. P \in Seq(Nat \X Nat)
  <2>1. n \in Nat
    BY <1>2, InputsAre
  <2>2. P \in [1 .. n -> Nat \X Nat]
    OBVIOUS
  <2> QED
    BY <2>1, <2>2, ListIs
<1>4. T \in Seq(Nat)
  <2>1. task.pages \in Seq(Nat)
    BY <1>2, InputsAre
  <2>2. Engine!Unique(task.pages) \in Seq(Nat)
    BY <2>1, OnceEach
  <2> QED
    BY <2>2 DEF Engine!Turned
<1> HIDE DEF P, T
<1>5. made' \in [{1} -> MadeRecords] /\ made'[1].pages = P /\ made'[1].turned = T
  BY <1>1, <1>2, <1>3, <1>4 DEF MadeRecords
<1>6. todo' # <<>> /\ Tail(todo') = <<>>
  BY <1>1
<1>7. EngineTypes'
  BY <1>1, <1>2, <1>5 DEF EngineTypes, Busy
<1>8. TurnedIsMade'
  BY <1>1, <1>5, <1>6 DEF TurnedIsMade, P, T
<1> QED
  BY <1>1, <1>7, <1>8 DEF EngineInv, TheRestIsTodo, BehindIsMade, LayersAreMade, LayersAreSought, Copying, Looking

\* The copy in hand, its document, and where the walk of its layers is.
LEMMA TheWalk ==
  ASSUME EngineInv, step \in Looking \cup {"copy"}, NEW c, c = Head(todo), NEW doc, doc = Engine!Doc(task, c.input)
  PROVE  /\ Engine!Call = c /\ IsCallOf(c, task) /\ c \in CallRecords /\ IsGiven(task) /\ todo # <<>> /\ Copying
         /\ Engine!Source = doc /\ Engine!Catalog = doc.catalog /\ (Engine!HasLayers <=> doc.catalog.groups # <<>>)
         /\ c.input # 0 => c.input \in DOMAIN task.inputs /\ Engine!IsDocument(doc)
         /\ c.pages \in Seq(Nat) /\ Len(c.pages) \in Nat
         /\ c.input # 0 => \A j \in 1 .. Len(c.pages) : c.pages[j] \in 1 .. Len(doc.pages)
<1>1. Copying /\ step # "done"
  BY DEF EngineInv, EngineTypes, Copying, IsCarriedOut, Busy, Looking
<1>2. Engine!Call = c /\ IsCallOf(c, task) /\ c \in CallRecords /\ IsGiven(task) /\ todo # <<>>
  BY <1>1, TheCopy
<1>3. c.pages \in Seq(Nat)
  BY <1>2 DEF CallRecords
<1>4. c.input # 0 => c.input \in DOMAIN task.inputs /\ \A i \in DOMAIN c.pages : c.pages[i] \in 1 .. Len(doc.pages)
  BY <1>2 DEF IsCallOf, Numbers, Engine!PageCount
<1>5. c.input # 0 => Engine!IsDocument(doc)
  BY <1>2, <1>4, IdsAreThings
<1>6. DOMAIN c.pages = 1 .. Len(c.pages) /\ Len(c.pages) \in Nat
  BY <1>3
<1> QED
  BY <1>1, <1>2, <1>3, <1>4, <1>5, <1>6 DEF Engine!Source, Engine!Catalog, Engine!HasLayers

LEMMA EngineReadsCatalog ==
  ASSUME EngineInv, Engine!ReadsCatalog PROVE EngineInv'
<1> DEFINE c == Head(todo)
           doc == Engine!Doc(task, c.input)
<1>1. step = "copy" /\ Engine!Call.input # 0
  BY DEF Engine!ReadsCatalog
<1>2. \/ step' = "done" /\ result' = "too_complex" /\ UNCHANGED <<task, made>>
      \/ /\ step' = IF Engine!HasLayers THEN "look" ELSE "add"
         /\ at' = 1 /\ stack' = <<>> /\ seen' = {} /\ reachable' = <<>> /\ UNCHANGED <<task, todo, made, result>>
  BY DEF Engine!ReadsCatalog, Engine!Fails
<1>3. CASE step' = "done" /\ result' = "too_complex" /\ UNCHANGED <<task, made>>
  BY <1>3, EngineFails
<1>4. CASE /\ step' = IF Engine!HasLayers THEN "look" ELSE "add"
           /\ at' = 1 /\ stack' = <<>> /\ seen' = {} /\ reachable' = <<>> /\ UNCHANGED <<task, todo, made, result>>
  <2>1. /\ c.input # 0 /\ Engine!IsDocument(doc) /\ Len(c.pages) \in Nat /\ (Engine!HasLayers <=> doc.catalog.groups # <<>>)
    BY <1>1, TheWalk
  <2>2. HasWalked(doc, {}, {}, <<>>, <<>>)
    BY <2>1, WalkStarts
  <2>3. LookedAt(c, 0) = {}
    BY DEF LookedAt
  <2>4. 1 \in 1 .. Len(c.pages) + 1 /\ 1 - 1 = 0
    BY <2>1
  <2>5. Head(todo') = c /\ Engine!Doc(task', c.input) = doc
    BY <1>4
  <2> HIDE DEF c, doc
  <2>6. WalkGoesOn(c, doc)'
    <3>1. step' # "walk" /\ (IF doc.catalog.groups # <<>> THEN step' = "look" ELSE step' = "add")
      BY <1>4, <2>1
    <3>2. c' = c /\ doc' = doc
      BY <1>4 DEF c, doc
    <3> QED
      BY <1>4, <2>1, <2>2, <2>3, <2>4, <3>1, <3>2 DEF WalkGoesOn
  <2> QED
    BY <1>1, <1>4, <2>6, WalkStep DEF Looking, c, doc
<1> QED
  BY <1>2, <1>3, <1>4

LEMMA EngineLooksAtPage ==
  ASSUME EngineInv, Engine!LooksAtPage PROVE EngineInv'
<1> DEFINE c == Head(todo)
           doc == Engine!Doc(task, c.input)
<1>1. step = "look" /\ stack = <<>> /\ UNCHANGED <<task, todo, made, result, seen, reachable>>
  BY DEF Engine!LooksAtPage
<1>2. /\ Engine!Call = c /\ Engine!Source = doc /\ Len(c.pages) \in Nat /\ (c.input # 0 => Engine!IsDocument(doc))
      /\ c.input # 0 => \A j \in 1 .. Len(c.pages) : c.pages[j] \in 1 .. Len(doc.pages)
  BY <1>1, TheWalk DEF Looking
<1>3. /\ c.input # 0 /\ at \in 1 .. Len(c.pages) + 1 /\ doc.catalog.groups # <<>>
      /\ HasWalked(doc, LookedAt(c, at - 1), seen, reachable, <<>>)
  BY <1>1 DEF EngineInv, LayersAreSought, Looking, WalkGoesOn
<1>4. \/ at > Len(c.pages) /\ step' = "add" /\ UNCHANGED <<at, stack>>
      \/ at <= Len(c.pages) /\ step' = "walk" /\ at' = at + 1 /\ stack' = doc.pages[c.pages[at]]
  BY <1>2, <1>3 DEF Engine!LooksAtPage
<1>5. c' = c /\ doc' = doc
  BY <1>1
<1> HIDE DEF c, doc
<1>6. CASE at > Len(c.pages) /\ step' = "add" /\ UNCHANGED <<at, stack>>
  <2>1. at = Len(c.pages) + 1
    BY <1>2, <1>3, <1>6
  <2>2. WalkGoesOn(c, doc)'
    BY <1>1, <1>3, <1>5, <1>6, <2>1 DEF WalkGoesOn
  <2> QED
    BY <1>1, <1>6, <2>2, WalkStep DEF Looking, c, doc
<1>7. CASE at <= Len(c.pages) /\ step' = "walk" /\ at' = at + 1 /\ stack' = doc.pages[c.pages[at]]
  <2> DEFINE p == c.pages[at]
             P == LookedAt(c, at - 1)
  <2>1. p \in 1 .. Len(doc.pages) /\ Engine!IsDocument(doc) /\ at \in Nat
    BY <1>2, <1>3, <1>7
  <2>2. HasWalked(doc, P \cup {p}, seen, reachable, doc.pages[p])
    <3>1. HasWalked(doc, P, seen, reachable, <<>>)
      BY <1>3
    <3> HIDE DEF P, p
    <3> QED
      BY <2>1, <3>1, WalkTakesPage
  <2>3. LookedAt(c, at) = P \cup {p}
    <3>1. \A j : j \in 1 .. at <=> j \in 1 .. at - 1 \/ j = at
      BY <1>3, <2>1
    <3> QED
      BY <3>1 DEF LookedAt
  <2>4. at' - 1 = at /\ at' \in 1 .. Len(c.pages) + 1
    BY <1>2, <1>3, <1>7
  <2> HIDE DEF P
  <2>5. HasWalked(doc, LookedAt(c, at' - 1), seen, reachable, stack')
    BY <1>7, <2>2, <2>3, <2>4
  <2>6. WalkGoesOn(c, doc)'
    BY <1>1, <1>3, <1>5, <1>7, <2>4, <2>5 DEF WalkGoesOn
  <2> QED
    BY <1>1, <1>7, <2>6, WalkStep DEF Looking, c, doc
<1> QED
  BY <1>4, <1>6, <1>7

LEMMA EngineVisits ==
  ASSUME EngineInv, Engine!Visits PROVE EngineInv'
<1> DEFINE c == Head(todo)
           doc == Engine!Doc(task, c.input)
           top == stack[Len(stack)]
           below == Engine!Below
           P == LookedAt(c, at - 1)
<1>1. step = "walk" /\ stack # <<>>
  BY DEF Engine!Visits
<1>2. Engine!Call = c /\ Engine!Source = doc /\ (c.input # 0 => Engine!IsDocument(doc))
  BY <1>1, TheWalk DEF Looking
<1>3. /\ c.input # 0 /\ at \in 1 .. Len(c.pages) + 1 /\ doc.catalog.groups # <<>> /\ Engine!IsDocument(doc)
      /\ HasWalked(doc, P, seen, reachable, stack)
  BY <1>1, <1>2 DEF EngineInv, LayersAreSought, Looking, WalkGoesOn
<1>4. IsBelow(below, stack) /\ Engine!Top = top /\ Engine!Object = doc.objects[top]
  BY <1>2 DEF IsBelow, Engine!Below, Engine!Top, Engine!Object
<1>5. Engine!IsNew <=> ~IsScalar(doc, top) /\ top \notin seen
  BY <1>4 DEF Engine!IsNew, IsScalar
<1> DEFINE nextSeen == IF doc.objects[top].direct THEN seen ELSE seen \cup {top}
           nextFound == IF doc.objects[top].kind = "layer" THEN Append(reachable, top) ELSE reachable
           nextStack == IF doc.objects[top].kind \in {"layer", "pages"} THEN below
                        ELSE below \o Engine!Reversed(doc.objects[top].kids)
<1>6. \/ step' = "done" /\ result' = "too_complex" /\ UNCHANGED <<task, made>>
      \/ /\ ~Engine!IsNew /\ stack' = below
         /\ UNCHANGED <<task, step, todo, at, seen, reachable, made, result>>
      \/ /\ Engine!IsNew /\ seen' = nextSeen /\ reachable' = nextFound /\ stack' = nextStack
         /\ UNCHANGED <<task, step, todo, at, made, result>>
  <2>1. CASE ~Engine!IsNew
    BY <2>1 DEF Engine!Visits
  <2>2. CASE Engine!IsNew
    BY <1>4, <2>2 DEF Engine!Visits, Engine!Fails
  <2> QED
    BY <2>1, <2>2
<1>7. CASE step' = "done" /\ result' = "too_complex" /\ UNCHANGED <<task, made>>
  BY <1>7, EngineFails
<1>8. ASSUME HasWalked(doc, P, seen', reachable', stack'), UNCHANGED <<task, step, todo, at, made, result>>
      PROVE  EngineInv'
  <2>1. c' = c /\ doc' = doc /\ P' = P
    BY <1>8
  <2> HIDE DEF c, doc, P
  <2>2. WalkGoesOn(c, doc)'
    BY <1>1, <1>3, <1>8, <2>1 DEF WalkGoesOn, P
  <2> QED
    BY <1>1, <1>8, <2>2, WalkStep DEF Looking, c, doc
<1> HIDE DEF below, top, P, doc
<1>9. CASE /\ ~Engine!IsNew /\ stack' = below
           /\ UNCHANGED <<task, step, todo, at, seen, reachable, made, result>>
  <2>1. HasWalked(doc, P, seen, reachable, below)
    BY <1>1, <1>3, <1>4, <1>5, <1>9, WalkPasses DEF top
  <2> QED
    BY <1>8, <1>9, <2>1
<1>10. CASE /\ Engine!IsNew /\ seen' = nextSeen /\ reachable' = nextFound /\ stack' = nextStack
            /\ UNCHANGED <<task, step, todo, at, made, result>>
  <2>1. ~IsScalar(doc, top) /\ top = stack[Len(stack)]
    BY <1>5, <1>10 DEF top
  <2>2. HasWalked(doc, P, nextSeen, nextFound, nextStack)
    BY <1>1, <1>3, <1>4, <2>1, WalkVisits
  <2> QED
    BY <1>8, <1>10, <2>2
<1> QED
  BY <1>6, <1>7, <1>9, <1>10

LEMMA EngineLeavesPage ==
  ASSUME EngineInv, Engine!LeavesPage PROVE EngineInv'
<1> DEFINE c == Head(todo)
           doc == Engine!Doc(task, c.input)
<1>1. step = "walk" /\ stack = <<>> /\ step' = "look" /\ UNCHANGED <<task, todo, at, stack, seen, reachable, made, result>>
  BY DEF Engine!LeavesPage
<1>2. WalkGoesOn(c, doc)
  BY <1>1 DEF EngineInv, LayersAreSought, Looking
<1>3. c' = c /\ doc' = doc
  BY <1>1
<1> HIDE DEF c, doc
<1>4. WalkGoesOn(c, doc)'
  BY <1>1, <1>2, <1>3 DEF WalkGoesOn
<1> QED
  BY <1>1, <1>4, WalkStep DEF Looking, c, doc


\* What the copy in hand puts into its output.
LEMMA EngineWrites ==
  ASSUME EngineInv, step \in {"add", "copy"}, NEW c, c = Head(todo), NEW old, old = made[c.out],
         NEW new \in MadeRecords, new.pages = old.pages \o Given(c), HasItsLayers(task, new),
         made' = [made EXCEPT ![c.out] = new], UNCHANGED <<task, result>>,
         \/ step' = "save" /\ todo' = todo
         \/ step' = "copy" /\ todo' = Tail(todo) /\ Len(todo) # 1
  PROVE  EngineInv'
<1> DEFINE C == Engine!Copies(task)
           k == Len(C) - Len(todo)
<1>1. /\ Copying /\ Copying' /\ step # "done" /\ step # "save" /\ IsCarriedOut' /\ task.op # "rotate" /\ result # "success"
      /\ step' \notin {"done", "open"} \cup Looking /\ IsGiven(task) /\ task \in PageJobs
  BY JobsAreOperations DEF EngineInv, EngineTypes, Copying, IsCarriedOut, Busy, Looking
<1>2. /\ Engine!IsValid(task) /\ C \in Seq(CallRecords) /\ Len(C) \in Nat
      /\ todo \in Seq(CallRecords) /\ todo # <<>> /\ Len(todo) \in 1 .. Len(C)
      /\ c = C[k + 1] /\ c \in CallRecords /\ c.out \in Engine!OutputsOf(task)
      /\ IsRestOf(Tail(todo), C) /\ Len(Tail(todo)) = Len(todo) - 1
  BY <1>1, TheCopy
<1>3. /\ task.op = "split" => Engine!OutputsOf(task) = 1 .. Len(C) /\ \A i \in 1 .. Len(C) : C[i].out = i
      /\ task.op # "split" => Engine!OutputsOf(task) = {1}
  BY <1>1, <1>2, CopiesAre
<1>4. made \in [Engine!OutputsOf(task) -> MadeRecords] /\ HasPages(made, task, k) /\ IsRestOf(todo, C)
  <2>1. Behind = Len(C) - Len(todo) + 0
    BY <1>1 DEF Behind
  <2>2. Behind = k
    BY <1>2, <2>1
  <2>3. HasPages(made, task, Behind) /\ IsRestOf(todo, C)
    BY <1>1 DEF EngineInv, BehindIsMade, TheRestIsTodo
  <2> QED
    BY <2>2, <2>3 DEF EngineInv, EngineTypes
<1>5. k \in 0 .. Len(C) - 1 /\ k + 1 \in 1 .. Len(C)
  BY <1>2
<1>6. made' \in [Engine!OutputsOf(task) -> MadeRecords] /\ made'[c.out] = new
      /\ \A o \in Engine!OutputsOf(task) : o # c.out => made'[o] = made[o]
  BY <1>2, <1>4
<1>7. Given(c) \in Seq(Nat \X Nat) /\ old \in MadeRecords /\ old.pages \in Seq(Nat \X Nat)
  BY <1>2, <1>4, GivenIs DEF MadeRecords
<1>8. Behind' = k + 1
  <2>1. CASE step' = "save" /\ todo' = todo
    <3>1. Behind' = Len(C) - Len(todo) + 1
      BY <1>1, <2>1 DEF Behind
    <3> QED
      BY <3>1
  <2>2. CASE step' = "copy" /\ todo' = Tail(todo)
    <3>1. Behind' = Len(C) - Len(Tail(todo)) + 0
      BY <2>2 DEF Behind
    <3> QED
      BY <1>2, <3>1
  <2> QED
    BY <2>1, <2>2
<1> HIDE DEF k
<1>9. HasPages(made', task, k + 1)
  <2>1. CASE task.op = "split"
    <3>1. c.out = k + 1 /\ Engine!OutputsOf(task) = 1 .. Len(C)
      BY <1>2, <1>3, <1>5, <2>1
    <3>2. \A o \in 1 .. Len(C) : made[o].pages = IF o <= k THEN Given(C[o]) ELSE <<>>
      BY <1>4, <2>1 DEF HasPages
    <3>3. old.pages = <<>>
      BY <1>5, <3>1, <3>2
    <3>4. new.pages = Given(c)
      BY <1>7, <3>3
    <3>5. ASSUME NEW o \in 1 .. Len(C) PROVE made'[o].pages = IF o <= k + 1 THEN Given(C[o]) ELSE <<>>
      <4>1. CASE o = k + 1
        BY <1>2, <1>5, <1>6, <3>1, <3>4, <4>1
      <4>2. CASE o # k + 1
        <5>1. made'[o] = made[o]
          BY <1>6, <3>1, <4>2
        <5>2. o <= k + 1 <=> o <= k
          BY <1>5, <4>2
        <5> QED
          BY <3>2, <5>1, <5>2
      <4> QED
        BY <4>1, <4>2
    <3> HIDE DEF C
    <3> QED
      BY <2>1, <3>5 DEF HasPages, C
  <2>2. CASE task.op # "split"
    <3>1. c.out = 1
      BY <1>2, <1>3, <2>2
    <3>2. \A start \in [1 .. Len(C) + 1 -> Nat] : IsStart(start, C) => Placed(old.pages, C, k, start)
      BY <1>4, <2>2, <3>1 DEF HasPages
    <3> HIDE DEF C
    <3>3. ASSUME NEW start \in [1 .. Len(C) + 1 -> Nat], IsStart(start, C) PROVE Placed(new.pages, C, k + 1, start)
      <4> DEFINE pages == old.pages
      <4>1. pages \in Seq(Nat \X Nat) /\ Placed(pages, C, k, start) /\ new.pages = pages \o Given(C[k + 1])
        BY <1>2, <1>7, <3>2, <3>3
      <4> HIDE DEF pages
      <4> QED
        BY <1>2, <1>5, <3>3, <4>1, NextArePlaced
    <3>4. made'[1].pages = new.pages
      BY <1>6, <3>1
    <3> QED
      BY <2>2, <3>3, <3>4 DEF HasPages, C
  <2> QED
    BY <2>1, <2>2
<1>10. EngineTypes'
  BY <1>1, <1>2, <1>6 DEF EngineInv, EngineTypes, Busy
<1>11. TheRestIsTodo'
  <2>1. IsRestOf(todo', C) /\ todo' # <<>>
    <3>1. Tail(todo) # <<>> \/ Len(todo) = 1
      <4> DEFINE rest == Tail(todo)
      <4>1. Len(todo) \in Nat /\ Len(rest) = Len(todo) - 1
        BY <1>2
      <4> HIDE DEF rest
      <4>2. rest = <<>> => Len(rest) = 0
        OBVIOUS
      <4>3. rest # <<>> \/ Len(todo) = 1
        BY <4>1, <4>2
      <4> QED
        BY <4>3 DEF rest
    <3> QED
      BY <1>2, <1>4, <3>1
  <2>2. C' = C
    OBVIOUS
  <2> HIDE DEF C
  <2> QED
    BY <1>1, <2>1, <2>2 DEF TheRestIsTodo, C
<1>12. BehindIsMade'
  BY <1>8, <1>9 DEF BehindIsMade
<1>13. LayersAreMade'
  <2>1. ASSUME NEW o \in Engine!OutputsOf(task) PROVE HasItsLayers(task, made'[o])
    BY <1>1, <1>6, <2>1 DEF EngineInv, LayersAreMade
  <2> QED
    BY <2>1 DEF LayersAreMade
<1> QED
  BY <1>1, <1>10, <1>11, <1>12, <1>13 DEF EngineInv, TurnedIsMade, LayersAreSought

LEMMA WhereNext ==
  ASSUME NEW out, step' = IF Engine!IsLastOf(out) THEN "save" ELSE "copy",
         todo' = IF Engine!IsLastOf(out) THEN todo ELSE Tail(todo)
  PROVE  (step' = "save" /\ todo' = todo) \/ (step' = "copy" /\ todo' = Tail(todo) /\ Len(todo) # 1)
BY DEF Engine!IsLastOf

LEMMA EngineAddsPages ==
  ASSUME EngineInv, Engine!AddsPages PROVE EngineInv'
<1> DEFINE c == Head(todo)
           doc == Engine!Doc(task, c.input)
           old == made[c.out]
           given == Given(c)
<1>1. step = "add" /\ UNCHANGED <<task, result>>
  BY DEF Engine!AddsPages
<1>2. /\ Engine!Call = c /\ IsCallOf(c, task) /\ c \in CallRecords /\ IsGiven(task) /\ Copying
      /\ Engine!Source = doc /\ Engine!Catalog = doc.catalog /\ (Engine!HasLayers <=> doc.catalog.groups # <<>>)
      /\ c.pages \in Seq(Nat) /\ Len(c.pages) \in Nat
  BY <1>1, TheWalk DEF Looking
<1>3. /\ c.input # 0 /\ (doc.catalog.groups # <<>> => at = Len(c.pages) + 1 /\ HasWalked(doc, LookedAt(c, at - 1), seen, reachable, <<>>))
  BY <1>1 DEF EngineInv, LayersAreSought, Looking, WalkGoesOn
<1>4. Engine!IsDocument(doc) /\ c.input \in DOMAIN task.inputs
  BY <1>1, <1>3, TheWalk DEF Looking
<1>5. /\ made' = [made EXCEPT ![c.out] = IF Engine!HasLayers THEN Engine!Preserved(Engine!Copied(old)) ELSE Engine!Copied(old)]
      /\ step' = (IF Engine!IsLastOf(c.out) THEN "save" ELSE "copy")
      /\ todo' = (IF Engine!IsLastOf(c.out) THEN todo ELSE Tail(todo))
  BY <1>2 DEF Engine!AddsPages
<1>6. (step' = "save" /\ todo' = todo) \/ (step' = "copy" /\ todo' = Tail(todo) /\ Len(todo) # 1)
  BY <1>5, WhereNext
<1>7. c.out \in Engine!OutputsOf(task) /\ made \in [Engine!OutputsOf(task) -> MadeRecords] /\ task.op # "rotate"
      /\ HasItsLayers(task, old)
  BY <1>2 DEF EngineInv, EngineTypes, LayersAreMade, IsCallOf, Copying
<1>8. old \in MadeRecords /\ old = [pages |-> old.pages, turned |-> old.turned, layers |-> old.layers, off |-> old.off]
      /\ old.pages \in Seq(Nat \X Nat)
  BY <1>7 DEF MadeRecords
<1>9. given \in Seq(Nat \X Nat) /\ given = [i \in DOMAIN c.pages |-> <<c.input, c.pages[i]>>]
  BY <1>2, <1>3, GivenIs DEF Given
<1> HIDE DEF given, doc, old
<1> DEFINE pages == old.pages \o given
<1>10. Engine!Copied(old) = [pages |-> pages, turned |-> old.turned, layers |-> old.layers, off |-> old.off]
  <2>1. Engine!Copied(old) = [old EXCEPT !.pages = old.pages \o [i \in DOMAIN c.pages |-> <<c.input, c.pages[i]>>]]
    BY <1>2 DEF Engine!Copied
  <2>2. Engine!Copied(old) = [old EXCEPT !.pages = pages]
    BY <1>9, <2>1
  <2> HIDE DEF pages
  <2> QED
    BY <1>8, <2>2
<1>11. pages \in Seq(Nat \X Nat)
  BY <1>8, <1>9, AppendedIs
<1>12. CASE ~Engine!HasLayers
  <2> DEFINE new == Engine!Copied(old)
  <2>1. new.pages = pages /\ new.layers = old.layers /\ new.off = old.off /\ new \in MadeRecords
    <3> HIDE DEF pages
    <3> QED
      BY <1>8, <1>10, <1>11 DEF MadeRecords
  <2>2. KeptIn(task, pages) = KeptIn(task, old.pages)
    <3>1. Brought(task, c) = {}
      BY <1>2, <1>4, <1>12, ListedAre DEF Brought, doc
    <3>2. ThingsBrought(task, c) = {}
      BY <3>1 DEF ThingsBrought
    <3> DEFINE older == old.pages
    <3>3. older \in Seq(Nat \X Nat) /\ pages = older \o Given(c)
      BY <1>8 DEF given
    <3>4. KeptIn(task, pages) = KeptIn(task, older) \cup ThingsBrought(task, c)
      <4>1. IsGiven(task) /\ IsCallOf(c, task) /\ c.input # 0
        BY <1>2, <1>3
      <4>2. Follows(pages, older, c)
        BY <3>3 DEF Follows
      <4> HIDE DEF older, pages, c
      <4>3. Brings(task, c, older, pages)
        BY <3>3, <4>1, <4>2, BroughtAreKept
      <4> QED
        BY <4>3 DEF Brings
    <3> QED
      BY <3>2, <3>4 DEF older
  <2> HIDE DEF new
  <2>3. HasItsLayers(task, new)
    BY <1>7, <1>8, <2>1, <2>2, SameLayers DEF old
  <2>4. made' = [made EXCEPT ![c.out] = new]
    BY <1>5, <1>12 DEF new, old
  <2>5. new.pages = old.pages \o Given(c) /\ old = made[c.out]
    BY <2>1 DEF given, old
  <2> QED
    BY <1>1, <1>6, <2>1, <2>3, <2>4, <2>5, EngineWrites
<1>13. CASE Engine!HasLayers
  <2> DEFINE found == Engine!Those(Engine!Unique(reachable), Engine!Listed(doc))
             layers == Engine!Unique(old.layers \o [i \in DOMAIN found |-> <<c.input, found[i]>>])
             off == old.off \cup {<<c.input, g>> : g \in Engine!Range(found) \cap Engine!Hidden(doc)}
             new == [pages |-> pages, turned |-> old.turned, layers |-> layers, off |-> off]
  <2>1. LookedAt(c, at - 1) = Engine!Range(c.pages) /\ HasWalked(doc, LookedAt(c, at - 1), seen, reachable, <<>>)
    <3>1. doc.catalog.groups # <<>> /\ at - 1 = Len(c.pages) /\ DOMAIN c.pages = 1 .. Len(c.pages)
      BY <1>2, <1>3, <1>13 DEF doc
    <3> QED
      BY <1>3, <3>1 DEF LookedAt, Engine!Range, doc
  <2>2. /\ reachable \in Seq(Ids(doc))
        /\ Engine!Range(reachable) = {g \in Engine!ReachedFromPages(doc, Engine!Range(c.pages)) : doc.objects[g].kind = "layer"}
    <3> DEFINE P == Engine!Range(c.pages)
    <3>1. HasWalked(doc, P, seen, reachable, <<>>)
      BY <2>1
    <3> HIDE DEF P
    <3>2. /\ reachable \in Seq(Ids(doc))
          /\ Engine!Range(reachable) = {g \in Engine!ReachedFromPages(doc, P) : doc.objects[g].kind = "layer"}
      BY <1>4, <3>1, WalkEnds DEF doc
    <3> QED
      BY <3>2 DEF P
  <2>3. Engine!Range(reachable) \cap Engine!Listed(doc) = Brought(task, c)
    BY <2>2 DEF Brought, doc
  <2>4. Engine!Preserved(Engine!Copied(old)) = new
    <3> DEFINE copied == Engine!Copied(old)
    <3>1. copied = [pages |-> pages, turned |-> old.turned, layers |-> old.layers, off |-> old.off]
      BY <1>10
    <3>2. Engine!Preserved(copied) =
            [copied EXCEPT !.layers = Engine!Unique(copied.layers \o [i \in DOMAIN found |-> <<c.input, found[i]>>]),
                           !.off = copied.off \cup {<<c.input, g>> : g \in Engine!Range(found) \cap Engine!Hidden(doc)}]
      BY <1>2 DEF Engine!Preserved, doc
    <3>3. copied.layers = old.layers /\ copied.off = old.off
      BY <3>1
    <3>4. Engine!Preserved(copied) = [copied EXCEPT !.layers = layers, !.off = off]
      BY <3>2, <3>3
    <3> HIDE DEF copied, layers, off, pages
    <3>5. Engine!Preserved(copied) = new
      BY <3>1, <3>4
    <3> QED
      BY <3>5 DEF copied
  <2>5. new \in MadeRecords /\ HasItsLayers(task, new)
    <3>1. HasItsLayers(task, old) /\ IsCallOf(c, task) /\ IsGiven(task) /\ c.input # 0 /\ pages = old.pages \o Given(c)
      BY <1>2, <1>3, <1>7 DEF given, old
    <3> QED
      BY <1>8, <2>2, <2>3, <3>1, PreservedIs DEF doc
  <2>6. new.pages = old.pages \o Given(c) /\ old = made[c.out]
    BY DEF given, old
  <2> HIDE DEF new
  <2>7. made' = [made EXCEPT ![c.out] = new]
    BY <1>5, <1>13, <2>4 DEF old
  <2> QED
    BY <1>1, <1>6, <2>5, <2>6, <2>7, EngineWrites
<1> QED
  BY <1>12, <1>13

LEMMA EngineAddsBlank ==
  ASSUME EngineInv, Engine!AddsBlank PROVE EngineInv'
<1> DEFINE c == Head(todo)
           old == made[1]
           pages == old.pages \o <<<<0, 0>>>>
           new == [pages |-> pages, turned |-> old.turned, layers |-> old.layers, off |-> old.off]
<1>1. step = "copy" /\ UNCHANGED <<task, result>> /\ Engine!Call.input = 0
  BY DEF Engine!AddsBlank
<1>2. /\ Engine!Call = c /\ IsCallOf(c, task) /\ c \in CallRecords /\ IsGiven(task) /\ Copying
  BY <1>1, TheWalk
<1>3. c.input = 0 /\ c.out = 1 /\ 1 \in Engine!OutputsOf(task) /\ Given(c) = <<<<0, 0>>>>
  BY <1>1, <1>2 DEF IsCallOf, Engine!Blank, Given
<1>4. /\ made' = [made EXCEPT ![1].pages = Append(@, <<0, 0>>)]
      /\ step' = (IF Engine!IsLastOf(1) THEN "save" ELSE "copy")
      /\ todo' = (IF Engine!IsLastOf(1) THEN todo ELSE Tail(todo))
  BY DEF Engine!AddsBlank
<1>5. (step' = "save" /\ todo' = todo) \/ (step' = "copy" /\ todo' = Tail(todo) /\ Len(todo) # 1)
  BY <1>4, WhereNext
<1>6. made \in [Engine!OutputsOf(task) -> MadeRecords] /\ HasItsLayers(task, old)
  BY <1>2, <1>3 DEF EngineInv, EngineTypes, LayersAreMade, Copying
<1>7. old \in MadeRecords /\ old = [pages |-> old.pages, turned |-> old.turned, layers |-> old.layers, off |-> old.off]
      /\ old.pages \in Seq(Nat \X Nat)
  BY <1>3, <1>6 DEF MadeRecords
<1>8. pages \in Seq(Nat \X Nat) /\ Append(old.pages, <<0, 0>>) = pages
  <2> DEFINE older == old.pages
             pair == <<0, 0>>
  <2>1. older \in Seq(Nat \X Nat) /\ pair \in Nat \X Nat
    BY <1>7
  <2> HIDE DEF older, pair
  <2>2. older \o <<pair>> \in Seq(Nat \X Nat) /\ Append(older, pair) = older \o <<pair>>
    BY <2>1
  <2> QED
    BY <2>2 DEF older, pair
<1>9. KeptIn(task, pages) = KeptIn(task, old.pages)
  <2> DEFINE older == old.pages
  <2>1. older \in Seq(Nat \X Nat) /\ pages = older \o <<<<0, 0>>>>
    BY <1>7
  <2> HIDE DEF older, pages
  <2>2. KeptIn(task, pages) = KeptIn(task, older)
    BY <1>2, <2>1, BlankHasNoLayers
  <2> QED
    BY <2>2 DEF older
<1>10. new.pages = old.pages \o Given(c)
  BY <1>3
<1> HIDE DEF pages, old
<1>11. new.pages = pages /\ new.layers = old.layers /\ new.off = old.off /\ new \in MadeRecords
  BY <1>7, <1>8 DEF MadeRecords
<1>12. made' = [made EXCEPT ![1] = new]
  <2>1. [old EXCEPT !.pages = pages] = new
    BY <1>7
  <2>2. made' = [made EXCEPT ![1] = [old EXCEPT !.pages = pages]]
    BY <1>3, <1>4, <1>6, <1>8 DEF old
  <2> QED
    BY <2>1, <2>2
<1> HIDE DEF new
<1>13. HasItsLayers(task, new)
  BY <1>6, <1>7, <1>9, <1>11, SameLayers
<1>14. old = made[c.out] /\ made' = [made EXCEPT ![c.out] = new]
  BY <1>3, <1>12 DEF old
<1> QED
  BY <1>1, <1>5, <1>10, <1>11, <1>13, <1>14, EngineWrites

LEMMA EngineSaves ==
  ASSUME EngineInv, Engine!Saves PROVE EngineInv'
<1>1. /\ step = "save" /\ todo' = Tail(todo) /\ UNCHANGED <<task, made>>
      /\ step' = (IF Tail(todo) = <<>> THEN "done" ELSE "copy")
      /\ result' = (IF Tail(todo) = <<>> THEN "success" ELSE result)
  BY DEF Engine!Saves
<1>2. IsCarriedOut /\ IsCarriedOut' /\ result # "success" /\ step' \notin Looking \cup {"save", "open"}
  BY <1>1 DEF EngineInv, EngineTypes, IsCarriedOut, Busy, Looking
<1>3. task.op = "rotate" => todo # <<>> /\ Tail(todo) = <<>>
  BY <1>1, <1>2 DEF EngineInv, TurnedIsMade
<1>4. EngineTypes'
  BY <1>1, <1>2, <1>3 DEF EngineInv, EngineTypes, Busy
<1>5. TurnedIsMade' /\ LayersAreMade' /\ LayersAreSought'
  BY <1>1, <1>2 DEF EngineInv, TurnedIsMade, LayersAreMade, LayersAreSought
<1>6. CASE task.op = "rotate"
  BY <1>1, <1>4, <1>5, <1>6 DEF EngineInv, TheRestIsTodo, BehindIsMade, Copying
<1>7. CASE task.op # "rotate"
  <2> DEFINE C == Engine!Copies(task)
  <2>1. Copying /\ step # "done"
    BY <1>1, <1>2, <1>7 DEF Copying
  <2>2. Len(C) \in Nat /\ Len(todo) \in 1 .. Len(C) /\ IsRestOf(Tail(todo), C) /\ Len(Tail(todo)) = Len(todo) - 1
    BY <2>1, TheCopy
  <2>3. TheRestIsTodo'
    BY <1>1, <2>2 DEF TheRestIsTodo
  <2>4. Behind' = Behind
    <3>1. Behind = Len(C) - Len(todo) + 1 /\ Behind' = Len(C) - Len(Tail(todo)) + 0
      BY <1>1, <1>2 DEF Behind
    <3>2. Len(C) - Len(Tail(todo)) + 0 = Len(C) - Len(todo) + 1
      <4> DEFINE rest == Tail(todo)
      <4>1. Len(C) \in Nat /\ Len(todo) \in Nat /\ Len(rest) = Len(todo) - 1
        BY <2>2
      <4> HIDE DEF C, rest
      <4>2. Len(C) - Len(rest) + 0 = Len(C) - Len(todo) + 1
        BY <4>1
      <4> QED
        BY <4>2 DEF rest
    <3> QED
      BY <3>1, <3>2
  <2>5. BehindIsMade'
    BY <1>1, <2>1, <2>4 DEF EngineInv, BehindIsMade
  <2> QED
    BY <1>4, <1>5, <2>3, <2>5 DEF EngineInv
<1> QED
  BY <1>6, <1>7

LEMMA EngineSteps == EngineInv /\ [Engine!Next]_engineVars => EngineInv'
<1> SUFFICES ASSUME EngineInv, [Engine!Next]_engineVars PROVE EngineInv'
  OBVIOUS
<1>1. CASE UNCHANGED engineVars
  <2>1. UNCHANGED <<task, step, todo, at, stack, seen, reachable, made, result>>
    BY <1>1 DEF engineVars
  <2> QED
    BY <2>1 DEF EngineInv, EngineTypes, TheRestIsTodo, BehindIsMade, TurnedIsMade, LayersAreMade, LayersAreSought,
       Copying, IsCarriedOut, Behind, WalkGoesOn
<1>2. CASE Engine!OpenFails \/ Engine!SaveFails
  <2>1. step' = "done" /\ result' # "success" /\ UNCHANGED <<task, made>>
    BY <1>2 DEF Engine!OpenFails, Engine!SaveFails, Engine!Fails
  <2> QED
    BY <2>1, EngineFails
<1> QED
  BY <1>1, <1>2, EngineRotates, EngineOpens, EngineReadsCatalog, EngineLooksAtPage, EngineVisits, EngineLeavesPage,
     EngineAddsPages, EngineAddsBlank, EngineSaves DEF Engine!Next


-----------------------------------------------------------------------------
(* What the pages of a result are (LayeredPages).                          *)

LEMMA OnSuccess ==
  ASSUME EngineInv, result = "success"
  PROVE  /\ IsGiven(task) /\ Engine!IsValid(task) /\ made \in [Engine!OutputsOf(task) -> MadeRecords]
         /\ task.op # "rotate" => HasPages(made, task, Len(Engine!Copies(task)))
         /\ task.op = "rotate" => /\ made[1].pages = [i \in 1 .. Engine!PageCount(task, 1) |-> <<1, i>>]
                                  /\ made[1].turned = Engine!Turned(task)
<1> DEFINE C == Engine!Copies(task)
<1>1. IsCarriedOut /\ step = "done" /\ task \in PageJobs /\ Engine!IsValid(task) /\ made \in [Engine!OutputsOf(task) -> MadeRecords]
  BY DEF EngineInv, EngineTypes, IsCarriedOut
<1>2. IsGiven(task)
  BY <1>1, JobsAreOperations
<1>3. ASSUME task.op # "rotate" PROVE HasPages(made, task, Len(C))
  <2>1. C \in Seq(CallRecords)
    BY <1>1, <1>2, <1>3, CopiesAre
  <2>2. todo = <<>> /\ HasPages(made, task, Behind)
    BY <1>1, <1>3 DEF EngineInv, TheRestIsTodo, BehindIsMade, Copying
  <2>3. Behind = Len(C) - 0 + 0
    BY <1>1, <2>2 DEF Behind
  <2>4. Len(C) - 0 + 0 = Len(C)
    <3> HIDE DEF C
    <3> QED
      BY <2>1
  <2> QED
    BY <2>2, <2>3, <2>4
<1> QED
  BY <1>1, <1>2, <1>3 DEF EngineInv, TurnedIsMade

LEMMA EmptyOfNone == IsFiniteSet({}) /\ Cardinality({}) = 0
BY FS_EmptySet

\* One copy: its pages.
LEMMA OneCopyIs ==
  ASSUME EngineInv, result = "success", task.op \in {"extract", "remove", "reorder"},
         NEW pages, pages = IF task.op = "remove" THEN Engine!Remaining(task) ELSE task.pages
  PROVE  /\ pages \in Seq(Nat) /\ Len(made[1].pages) = Len(pages)
         /\ \A p \in 1 .. Len(pages) : made[1].pages[p] = <<1, pages[p]>>
<1> DEFINE C == Engine!Copies(task)
           c == Engine!Copy(1, 1, pages)
           start == [i \in 1 .. 2 |-> IF i = 1 THEN 0 ELSE Len(pages)]
<1>1. IsGiven(task) /\ Engine!IsValid(task) /\ HasPages(made, task, Len(C))
  BY OnSuccess
<1>2. C \in Seq(CallRecords) /\ Len(C) = 1 /\ C[1] = c /\ IsCallOf(c, task)
  BY <1>1, SelectionsAre
<1>3. c \in CallRecords /\ c.input = 1 /\ c.pages = pages
  BY <1>2 DEF IsCallOf, Engine!Copy
<1>4. pages \in Seq(Nat)
  BY <1>3 DEF CallRecords
<1>5. Len(Given(c)) = Len(pages) /\ \A p \in 1 .. Len(pages) : Given(c)[p] = <<1, pages[p]>>
  BY <1>3, GivenIs
<1> HIDE DEF c, C
<1>6. start \in [1 .. Len(C) + 1 -> Nat] /\ start[1] = 0 /\ start[2] = Len(pages)
  BY <1>2, <1>4
<1>7. IsStart(start, C)
  <2>1. \A i \in 1 .. Len(C) : i = 1
    BY <1>2
  <2>2. start[1 + 1] = start[1] + Len(Given(C[1]))
    BY <1>2, <1>4, <1>5, <1>6
  <2> HIDE DEF start
  <2> QED
    BY <1>6, <2>1, <2>2 DEF IsStart
<1> HIDE DEF start
<1>8. Placed(made[1].pages, C, 1, start)
  BY <1>1, <1>2, <1>6, <1>7 DEF HasPages, C
<1>9. Len(made[1].pages) = Len(pages)
  BY <1>6, <1>8 DEF Placed
<1>10. ASSUME NEW p \in 1 .. Len(pages) PROVE made[1].pages[p] = <<1, pages[p]>>
  <2>1. 1 \in 1 .. 1 /\ p \in 1 .. Len(Given(C[1]))
    BY <1>2, <1>5
  <2>2. made[1].pages[start[1] + p] = Given(C[1])[p]
    BY <2>1, <1>8 DEF Placed
  <2>3. start[1] + p = p
    BY <1>6
  <2> QED
    BY <1>2, <1>5, <2>2, <2>3
<1> QED
  BY <1>4, <1>9, <1>10

LEMMA RemovedAsAsked ==
  ASSUME EngineInv, result = "success", task.op = "remove", NEW n, n = Engine!PageCount(task, 1)
  PROVE  /\ Engine!Has(1, Engine!Kept(n))
         /\ \A p \in 1 .. n : p \in Engine!Range(task.pages) \/ Engine!PageAt(1, Engine!Kept(p)) = <<1, p>>
<1> DEFINE S == (1 .. n) \ Engine!Range(task.pages)
           keeps == Engine!Those(Engine!Upto(n), S)
           Rank(p) == Cardinality({q \in 1 .. p : q \in S})
<1>1. n \in Nat
  BY OnSuccess, InputsAre
<1>2. Engine!Remaining(task) = keeps
  BY DEF Engine!Remaining
<1>3. keeps \in Seq(Nat) /\ Len(made[1].pages) = Len(keeps) /\ \A p \in 1 .. Len(keeps) : made[1].pages[p] = <<1, keeps[p]>>
  BY <1>2, OneCopyIs
<1>4. Len(keeps) = Rank(n) /\ \A p \in 1 .. n : p \in S => Rank(p) \in 1 .. Len(keeps) /\ keeps[Rank(p)] = p
  BY <1>1, RanksAre
<1>5. \A p \in 0 .. n : Engine!Kept(p) = Rank(p)
  <2>1. ASSUME NEW p \in 0 .. n PROVE Engine!Kept(p) = Rank(p)
    <3>1. {q \in 1 .. p : q \notin Engine!Range(task.pages)} = {q \in 1 .. p : q \in S}
      BY <1>1
    <3> QED
      BY <3>1, CountedThere DEF Engine!Kept
  <2> QED
    BY <2>1
<1> HIDE DEF keeps, Rank
<1>6. Engine!Has(1, Engine!Kept(n))
  BY <1>1, <1>3, <1>4, <1>5 DEF Engine!Has
<1>7. ASSUME NEW p \in 1 .. n, p \notin Engine!Range(task.pages) PROVE Engine!PageAt(1, Engine!Kept(p)) = <<1, p>>
  <2>1. p \in S /\ p \in 0 .. n
    BY <1>1, <1>7
  <2>2. Rank(p) \in 1 .. Len(keeps) /\ keeps[Rank(p)] = p /\ Engine!Kept(p) = Rank(p)
    BY <1>4, <1>5, <2>1
  <2>3. made[1].pages[Rank(p)] = <<1, p>>
    BY <1>3, <2>2
  <2> QED
    BY <2>2, <2>3 DEF Engine!PageAt
<1> QED
  BY <1>6, <1>7

\* A repeated page is turned once.
LEMMA TurnedAsAsked ==
  ASSUME EngineInv, result = "success", task.op = "rotate", NEW n, n = Engine!PageCount(task, 1)
  PROVE  /\ Engine!Has(1, n) /\ \A i \in 1 .. n : Engine!PageAt(1, i) = <<1, i>>
         /\ \A p \in 1 .. n :
              Engine!Cardinality({i \in DOMAIN made[1].turned : made[1].turned[i] = p})
                = IF task.angle # 0 /\ p \in Engine!Range(task.pages) THEN 1 ELSE 0
<1> DEFINE P == [i \in 1 .. n |-> <<1, i>>]
           T == Engine!Turned(task)
<1>1. made[1].pages = P /\ made[1].turned = T /\ n \in Nat /\ task.pages \in Seq(Nat)
  BY OnSuccess, InputsAre
<1>2. Len(P) = n
  <2>1. P \in [1 .. n -> Nat \X Nat]
    OBVIOUS
  <2> QED
    BY <1>1, <2>1, ListIs
<1>3. Engine!Has(1, n) /\ \A i \in 1 .. n : Engine!PageAt(1, i) = <<1, i>>
  BY <1>1, <1>2 DEF Engine!Has, Engine!PageAt
<1> HIDE DEF T
<1>4. ASSUME NEW p \in 1 .. n
      PROVE  Cardinality({i \in DOMAIN T : T[i] = p}) = IF task.angle # 0 /\ p \in Engine!Range(task.pages) THEN 1 ELSE 0
  <2> DEFINE where == {i \in DOMAIN T : T[i] = p}
  <2>1. CASE task.angle = 0
    <3>1. T = <<>>
      BY <2>1 DEF T, Engine!Turned
    <3>2. where = {}
      BY <3>1
    <3> QED
      BY <2>1, <3>2, EmptyOfNone
  <2>2. CASE task.angle # 0
    <3>1. T = Engine!Unique(task.pages)
      BY <2>2 DEF T, Engine!Turned
    <3>2. T \in Seq(Nat) /\ Engine!Range(T) = Engine!Range(task.pages) /\ \A i, k \in 1 .. Len(T) : T[i] = T[k] => i = k
      BY <1>1, <3>1, OnceEach
    <3>3. DOMAIN T = 1 .. Len(T)
      BY <3>2
    <3>4. CASE p \in Engine!Range(task.pages)
      <4>0. p \in Engine!Range(T)
        BY <3>2, <3>4
      <4>1. PICK i \in DOMAIN T : T[i] = p
        BY <4>0 DEF Engine!Range
      <4>2. where = {i}
        BY <3>2, <3>3, <4>1
      <4>3. Cardinality({i}) = 1
        BY FS_Singleton
      <4> QED
        BY <2>2, <3>4, <4>2, <4>3
    <3>5. CASE p \notin Engine!Range(task.pages)
      <4>1. where = {}
        BY <3>2, <3>5 DEF Engine!Range
      <4> QED
        BY <3>5, <4>1, EmptyOfNone
    <3> QED
      BY <3>4, <3>5
  <2> QED
    BY <2>1, <2>2
<1>5. ASSUME NEW p \in 1 .. n
      PROVE  Engine!Cardinality({i \in DOMAIN made[1].turned : made[1].turned[i] = p})
               = IF task.angle # 0 /\ p \in Engine!Range(task.pages) THEN 1 ELSE 0
  BY <1>1, <1>4, CountedThere
<1> QED
  BY <1>3, <1>5

LEMMA SplitAsAsked ==
  ASSUME EngineInv, result = "success", task.op = "split", NEW o \in DOMAIN task.groups
  PROVE  /\ Engine!Has(o, Len(task.groups[o]))
         /\ \A i \in DOMAIN task.groups[o] : Engine!PageAt(o, i) = <<1, task.groups[o][i]>>
<1> DEFINE C == Engine!Copies(task)
           group == task.groups[o]
           c == Engine!Copy(o, 1, group)
<1>1. IsGiven(task) /\ Engine!IsValid(task) /\ HasPages(made, task, Len(C)) /\ task.groups \in Seq(Seq(Nat))
  BY OnSuccess, InputsAre
<1>2. Len(C) = Len(task.groups) /\ \A i \in 1 .. Len(C) : IsCallOf(C[i], task) /\ C[i] = Engine!Copy(i, 1, task.groups[i])
  BY <1>1, SplitsAre
<1>3. o \in 1 .. Len(C) /\ group \in Seq(Nat) /\ DOMAIN group = 1 .. Len(group)
  BY <1>1, <1>2
<1>4. C[o] = c /\ c \in CallRecords /\ c.input = 1 /\ c.pages = group
  BY <1>2, <1>3 DEF IsCallOf, Engine!Copy
<1>5. Len(Given(c)) = Len(group) /\ \A i \in 1 .. Len(group) : Given(c)[i] = <<1, group[i]>>
  BY <1>4, GivenIs
<1>6. made[o].pages = Given(C[o])
  BY <1>1, <1>3 DEF HasPages
<1> HIDE DEF c, group
<1>7. Len(made[o].pages) = Len(group) /\ \A i \in DOMAIN group : made[o].pages[i] = <<1, group[i]>>
  BY <1>3, <1>4, <1>5, <1>6
<1> QED
  BY <1>7 DEF Engine!Has, Engine!PageAt, group


\* merge: the pages of an input come behind those of the inputs before.
IsBefore(sums, n) == sums[1] = 0 /\ \A k \in 1 .. n : sums[k + 1] = sums[k] + Engine!PageCount(task, k)

LEMMA PagesBeforeAre ==
  ASSUME NEW n, n = Len(task.inputs), IsGiven(task)
  PROVE  \E sums \in [1 .. n + 1 -> Nat] :
           IsBefore(sums, n) /\ \A i \in 1 .. n + 1 : Engine!PagesBefore(i) = sums[i]
<1> DEFINE count(k) == Engine!PageCount(task, k)
           F == [p \in (1 .. n) \X Nat |-> p[2] + count(p[1])]
           sums[k \in 1 .. n + 1] == IF k = 1 THEN 0 ELSE sums[k - 1] + count(k - 1)
<1>1. n \in Nat /\ \A k \in 1 .. n : count(k) \in Nat
  BY InputsAre
<1>2. \A i \in 1 .. n + 1 : Engine!PagesBefore(i) = sums[i]
  BY DEF Engine!PagesBefore
<1>3. \A k \in 1 .. n, m \in Nat : F[<<k, m>>] = m + count(k)
  OBVIOUS
<1> HIDE DEF F, count
<1>4. PICK f \in [0 .. n -> Nat] : f[0] = 0 /\ \A k \in 1 .. n : f[k] = F[<<k, f[k - 1]>>]
  <2>1. StaysIn(Nat, n, F)
    <3>1. ASSUME NEW k \in 1 .. n, NEW m \in Nat PROVE F[<<k, m>>] \in Nat
      <4>1. count(k) \in Nat /\ F[<<k, m>>] = m + count(k)
        BY <1>1, <1>3
      <4>2. m + count(k) \in Nat
        BY <4>1
      <4> QED
        BY <4>1, <4>2
    <3> QED
      BY <3>1 DEF StaysIn
  <2>2. IsComputed(Nat, 0, n, F)
    BY <1>1, <2>1, StepByStep
  <2> QED
    BY <2>2 DEF IsComputed
<1> DEFINE g == [k \in 1 .. n + 1 |-> f[k - 1]]
<1>5. \A k \in 1 .. n + 1 : k - 1 \in 0 .. n /\ (k # 1 => k - 1 \in 1 .. n /\ k - 1 \in 1 .. n + 1)
  BY <1>1
<1>6. \A k \in 1 .. n + 1 : g[k] \in Nat /\ g[k] = f[k - 1]
  BY <1>4, <1>5
<1>7. ASSUME NEW k \in 1 .. n + 1 PROVE g[k] = IF k = 1 THEN 0 ELSE g[k - 1] + count(k - 1)
  <2>1. CASE k = 1
    BY <1>4, <1>6, <2>1
  <2>2. CASE k # 1
    <3>1. k - 1 \in 1 .. n /\ k - 1 \in 1 .. n + 1 /\ f[k - 1] = F[<<k - 1, f[k - 1 - 1]>>]
      BY <1>4, <1>5, <2>2
    <3>2. g[k - 1] = f[k - 1 - 1] /\ g[k - 1] \in Nat /\ g[k] = f[k - 1]
      BY <1>6, <3>1
    <3> QED
      BY <1>3, <2>2, <3>1, <3>2
  <2> QED
    BY <2>1, <2>2
<1>8. g = [k \in 1 .. n + 1 |-> IF k = 1 THEN 0 ELSE g[k - 1] + count(k - 1)]
  BY <1>7
<1>9. sums = [k \in 1 .. n + 1 |-> IF k = 1 THEN 0 ELSE sums[k - 1] + count(k - 1)]
  <2> HIDE DEF g
  <2> QED
    BY <1>8
<1> HIDE DEF sums
<1>10. sums[1] = 0 /\ \A k \in 1 .. n : sums[k + 1] = sums[k] + count(k)
  <2>1. 1 \in 1 .. n + 1
    BY <1>1
  <2>2. ASSUME NEW k \in 1 .. n PROVE sums[k + 1] = sums[k] + count(k)
    <3>1. k + 1 \in 1 .. n + 1 /\ k + 1 # 1 /\ k + 1 - 1 = k
      BY <1>1
    <3>2. sums[k + 1] = sums[k + 1 - 1] + count(k + 1 - 1)
      BY <1>9, <3>1
    <3> QED
      BY <3>1, <3>2
  <2> QED
    BY <1>9, <2>1, <2>2
<1>11. \A k \in 0 .. n : sums[k + 1] \in Nat
  <2> DEFINE Good == {k \in 0 .. n : sums[k + 1] \in Nat}
  <2>1. 0 \in Good
    BY <1>1, <1>10
  <2>2. ASSUME NEW k \in 1 .. n, k - 1 \in Good PROVE k \in Good
    <3>1. k \in 0 .. n /\ k - 1 + 1 = k
      BY <1>1
    <3> QED
      BY <1>1, <1>10, <2>2, <3>1
  <2> HIDE DEF Good
  <2>3. \A k \in 0 .. n : k \in Good
    BY <1>1, <2>1, <2>2, StepsReach
  <2> QED
    BY <2>3 DEF Good
<1>12. \A k \in 1 .. n + 1 : sums[k] \in Nat
  <2>1. ASSUME NEW k \in 1 .. n + 1 PROVE sums[k] \in Nat
    <3>1. k - 1 \in 0 .. n /\ k - 1 + 1 = k
      BY <1>1
    <3> QED
      BY <1>11, <3>1
  <2> QED
    BY <2>1
<1>13. sums \in [1 .. n + 1 -> Nat]
  BY <1>9, <1>12
<1> QED
  BY <1>2, <1>10, <1>13 DEF IsBefore, count

LEMMA MergedAsAsked ==
  ASSUME EngineInv, result = "success", task.op = "merge"
  PROVE  /\ Engine!Has(1, Engine!PagesBefore(Len(task.inputs) + 1))
         /\ \A i \in DOMAIN task.inputs : \A p \in 1 .. Engine!PageCount(task, i) :
              Engine!PageAt(1, Engine!PagesBefore(i) + p) = <<i, p>>
<1> DEFINE C == Engine!Copies(task)
           n == Len(task.inputs)
           Whole(i) == Engine!Copy(1, i, Engine!Upto(Engine!PageCount(task, i)))
<1>1. IsGiven(task) /\ HasPages(made, task, Len(C))
  BY OnSuccess
<1>2. n \in Nat /\ DOMAIN task.inputs = 1 .. n /\ \A i \in 1 .. n : Engine!PageCount(task, i) \in Nat
  BY <1>1, InputsAre
<1>3. C \in Seq(CallRecords) /\ Len(C) = n /\ \A i \in 1 .. n : C[i] = Whole(i) /\ C[i] \in CallRecords
  BY <1>1, MergesAre DEF IsCallOf
<1>4. ASSUME NEW i \in 1 .. n
      PROVE  /\ Len(Given(C[i])) = Engine!PageCount(task, i)
             /\ \A p \in 1 .. Engine!PageCount(task, i) : Given(C[i])[p] = <<i, p>>
  <2> DEFINE c == C[i]
             u == Engine!Upto(Engine!PageCount(task, i))
  <2>1. c \in CallRecords /\ c.input = i /\ c.pages = u /\ i # 0
    <3>1. c \in CallRecords /\ c = Engine!Copy(1, i, u)
      BY <1>3
    <3> HIDE DEF c, u
    <3> QED
      BY <3>1 DEF Engine!Copy
  <2>2. Len(u) = Engine!PageCount(task, i) /\ \A p \in 1 .. Engine!PageCount(task, i) : u[p] = p
    BY <1>2, ListsAre
  <2> HIDE DEF c, u
  <2>3. Len(Given(c)) = Len(u) /\ \A p \in 1 .. Len(u) : Given(c)[p] = <<i, u[p]>>
    BY <2>1, GivenIs
  <2>4. Len(Given(c)) = Engine!PageCount(task, i) /\ \A p \in 1 .. Engine!PageCount(task, i) : Given(c)[p] = <<i, p>>
    BY <2>2, <2>3
  <2> QED
    BY <2>4 DEF c
<1>5. PICK sums \in [1 .. n + 1 -> Nat] :
        IsBefore(sums, n) /\ \A i \in 1 .. n + 1 : Engine!PagesBefore(i) = sums[i]
  BY <1>1, PagesBeforeAre
<1> HIDE DEF C, n
<1>6. IsStart(sums, C)
  BY <1>3, <1>4, <1>5 DEF IsStart, IsBefore
<1>7. sums \in [1 .. Len(C) + 1 -> Nat]
  BY <1>3, <1>5
<1>8. Placed(made[1].pages, C, Len(C), sums)
  BY <1>1, <1>6, <1>7 DEF HasPages, C
<1>9. n + 1 \in 1 .. n + 1 /\ \A i \in 1 .. n : i \in 1 .. n + 1
  BY <1>2
<1>10. Engine!Has(1, Engine!PagesBefore(n + 1))
  BY <1>3, <1>5, <1>8, <1>9 DEF Placed, Engine!Has
<1>11. ASSUME NEW i \in 1 .. n, NEW p \in 1 .. Engine!PageCount(task, i)
       PROVE  Engine!PageAt(1, Engine!PagesBefore(i) + p) = <<i, p>>
  <2>1. i \in 1 .. Len(C) /\ p \in 1 .. Len(Given(C[i])) /\ Given(C[i])[p] = <<i, p>>
    BY <1>3, <1>4
  <2>2. made[1].pages[sums[i] + p] = <<i, p>>
    BY <1>8, <2>1 DEF Placed
  <2>3. Engine!PagesBefore(i) = sums[i]
    BY <1>5, <1>9
  <2> QED
    BY <2>2, <2>3 DEF Engine!PageAt
<1> QED
  BY <1>2, <1>10, <1>11 DEF n

\* insert, blank: what was before, what is inserted, what was after.
LEMMA InsertedAsAsked ==
  ASSUME EngineInv, result = "success", task.op \in {"insert", "blank"},
         NEW n, n = Engine!PageCount(task, 1), NEW m, m = IF task.op = "blank" THEN 1 ELSE Len(task.pages)
  PROVE  /\ Engine!Has(1, n + m)
         /\ \A i \in 1 .. task.after : Engine!PageAt(1, i) = <<1, i>>
         /\ \A i \in 1 .. m : Engine!PageAt(1, task.after + i) = IF task.op = "blank" THEN <<0, 0>> ELSE <<2, task.pages[i]>>
         /\ \A i \in task.after + 1 .. n : Engine!PageAt(1, m + i) = <<1, i>>
<1> DEFINE C == Engine!Copies(task)
           mid == IF task.op = "blank" THEN Engine!Blank ELSE Engine!Copy(1, 2, task.pages)
           first == Engine!Copy(1, 1, Engine!Upto(task.after))
           final == Engine!Copy(1, 1, Engine!FromTo(task.after + 1, n))
           b == IF task.after > 0 THEN 1 ELSE 0
           a == IF task.after < n THEN 1 ELSE 0
           k == task.after
           start == [i \in 1 .. b + a + 2 |-> IF i = b + 3 THEN n + m ELSE IF i = b + 2 THEN k + m ELSE IF i = b + 1 THEN k ELSE 0]
           P == made[1].pages
           what(i) == IF task.op = "blank" THEN <<0, 0>> ELSE <<2, task.pages[i]>>
<1>1. IsGiven(task) /\ Engine!IsValid(task) /\ HasPages(made, task, Len(C)) /\ task.pages \in Seq(Nat)
  BY OnSuccess, InputsAre
<1>2. /\ C \in Seq(CallRecords) /\ Len(C) = b + 1 + a
      /\ C[b + 1] = mid /\ IsCallOf(mid, task)
      /\ b = 1 => C[1] = first /\ IsCallOf(C[1], task)
      /\ a = 1 => C[b + 2] = final /\ IsCallOf(C[b + 2], task)
      /\ n \in Nat /\ task.after \in 0 .. n
  BY <1>1, InsertionsAre
<1>3. /\ b \in {0, 1} /\ a \in {0, 1} /\ k \in Nat /\ k <= n /\ n \in Nat /\ (b = 1 <=> k > 0) /\ (b = 0 <=> k = 0)
      /\ (a = 1 <=> k < n) /\ (a = 0 <=> k = n) /\ m \in Nat
  BY <1>1, <1>2
<1>4. Len(Given(mid)) = m /\ \A i \in 1 .. m : Given(mid)[i] = what(i)
  <2>1. CASE task.op = "blank"
    <3>1. Given(mid) = <<<<0, 0>>>>
      BY <2>1 DEF Given, Engine!Blank
    <3>2. Len(Given(mid)) = 1 /\ Given(mid)[1] = <<0, 0>>
      BY <3>1
    <3>3. \A i \in 1 .. 1 : i = 1
      OBVIOUS
    <3> QED
      BY <2>1, <3>2, <3>3
  <2>2. CASE task.op # "blank"
    <3>1. mid \in CallRecords /\ mid.input = 2 /\ mid.pages = task.pages
      BY <1>2, <2>2 DEF IsCallOf, Engine!Copy
    <3>2. Len(Given(mid)) = Len(task.pages) /\ \A i \in 1 .. Len(task.pages) : Given(mid)[i] = <<2, task.pages[i]>>
      <4>1. mid \in CallRecords /\ mid.input # 0
        BY <3>1
      <4>2. Len(Given(mid)) = Len(mid.pages) /\ \A i \in 1 .. Len(mid.pages) : Given(mid)[i] = <<mid.input, mid.pages[i]>>
        BY <4>1, GivenIs
      <4> QED
        BY <3>1, <4>2
    <3> QED
      BY <2>2, <3>2
  <2> QED
    BY <2>1, <2>2
<1>5. ASSUME b = 1 PROVE Len(Given(first)) = k /\ \A i \in 1 .. k : Given(first)[i] = <<1, i>>
  <2> DEFINE u == Engine!Upto(k)
  <2>1. Len(u) = k /\ \A i \in 1 .. k : u[i] = i
    BY <1>3, ListsAre
  <2>2. first \in CallRecords /\ first.input = 1 /\ first.pages = u
    BY <1>2, <1>5 DEF IsCallOf, Engine!Copy
  <2> HIDE DEF u, first
  <2>3. Len(Given(first)) = Len(u) /\ \A i \in 1 .. Len(u) : Given(first)[i] = <<1, u[i]>>
    BY <2>2, GivenIs
  <2> QED
    BY <2>1, <2>3
<1>6. ASSUME a = 1 PROVE Len(Given(final)) = n - k /\ \A i \in 1 .. n - k : Given(final)[i] = <<1, k + i>>
  <2> DEFINE u == Engine!FromTo(k + 1, n)
  <2>1. Len(u) = n - k /\ \A i \in 1 .. n - k : u[i] = k + i
    BY <1>3, <1>6, ListsAre
  <2>2. final \in CallRecords /\ final.input = 1 /\ final.pages = u
    BY <1>2, <1>6 DEF IsCallOf, Engine!Copy
  <2> HIDE DEF u, final
  <2>3. Len(Given(final)) = Len(u) /\ \A i \in 1 .. Len(u) : Given(final)[i] = <<1, u[i]>>
    BY <2>2, GivenIs
  <2> QED
    BY <2>1, <2>3
<1> HIDE DEF C, mid, first, final, a, b, k, what
<1>7. /\ start \in [1 .. Len(C) + 1 -> Nat] /\ start[1] = 0 /\ start[b + 1] = k /\ start[b + 2] = k + m
      /\ a = 1 => start[b + 3] = n + m
  <2>1. Len(C) + 1 = b + a + 2
    BY <1>2, <1>3
  <2>2. start \in [1 .. b + a + 2 -> Nat]
    BY <1>3
  <2>3. 1 \in 1 .. b + a + 2 /\ b + 1 \in 1 .. b + a + 2 /\ b + 2 \in 1 .. b + a + 2 /\ (a = 1 => b + 3 \in 1 .. b + a + 2)
    BY <1>3
  <2>4. start[b + 1] = k /\ start[b + 2] = k + m /\ (a = 1 => start[b + 3] = n + m)
    BY <1>3, <2>3
  <2>5. start[1] = 0
    BY <1>3, <2>3
  <2> QED
    BY <2>1, <2>2, <2>4, <2>5
<1> HIDE DEF start
<1>8. IsStart(start, C)
  <2>1. ASSUME NEW i \in 1 .. Len(C) PROVE start[i + 1] = start[i] + Len(Given(C[i]))
    <3>1. (i = 1 /\ b = 1) \/ i = b + 1 \/ (a = 1 /\ i = b + 2)
      BY <1>2, <1>3
    <3>2. CASE i = 1 /\ b = 1
      <4>1. C[i] = first /\ i + 1 = b + 1
        BY <1>2, <3>2
      <4>2. start[i + 1] = k /\ start[i] = 0 /\ Len(Given(C[i])) = k
        BY <1>5, <1>7, <3>2, <4>1
      <4> QED
        BY <1>3, <4>2
    <3>3. CASE i = b + 1
      <4>1. C[i] = mid /\ i + 1 = b + 2
        BY <1>2, <1>3, <3>3
      <4> QED
        BY <1>4, <1>7, <3>3, <4>1
    <3>4. CASE a = 1 /\ i = b + 2
      <4>1. C[i] = final /\ i + 1 = b + 3
        BY <1>2, <1>3, <3>4
      <4>2. start[i + 1] = n + m /\ start[i] = k + m /\ Len(Given(C[i])) = n - k
        BY <1>6, <1>7, <3>4, <4>1
      <4> QED
        BY <1>3, <4>2
    <3> QED
      BY <3>1, <3>2, <3>3, <3>4
  <2> QED
    BY <1>7, <2>1 DEF IsStart
<1>9. Placed(P, C, Len(C), start)
  BY <1>1, <1>7, <1>8 DEF HasPages, C
<1> HIDE DEF P
<1>10. /\ Len(P) = start[Len(C) + 1]
       /\ \A j \in 1 .. Len(C) : \A p \in 1 .. Len(Given(C[j])) : P[start[j] + p] = Given(C[j])[p]
  BY <1>9 DEF Placed
<1>11. Len(P) = n + m
  <2>1. CASE a = 1
    <3>1. Len(C) + 1 = b + 3
      BY <1>2, <1>3, <2>1
    <3> QED
      BY <1>7, <1>10, <2>1, <3>1
  <2>2. CASE a = 0
    <3>1. Len(C) + 1 = b + 2 /\ k = n
      BY <1>2, <1>3, <2>2
    <3> QED
      BY <1>7, <1>10, <3>1
  <2> QED
    BY <1>3, <2>1, <2>2
<1>12. ASSUME NEW i \in 1 .. k PROVE P[i] = <<1, i>>
  <2>1. b = 1 /\ 1 \in 1 .. Len(C)
    BY <1>2, <1>3
  <2>2. C[1] = first /\ Len(Given(first)) = k /\ Given(first)[i] = <<1, i>>
    BY <1>2, <1>5, <2>1
  <2>3. P[start[1] + i] = <<1, i>>
    BY <1>10, <2>1, <2>2
  <2>4. start[1] + i = i
    BY <1>3, <1>7
  <2> QED
    BY <2>3, <2>4
<1>13. ASSUME NEW i \in 1 .. m PROVE P[k + i] = what(i)
  <2>1. b + 1 \in 1 .. Len(C)
    BY <1>2, <1>3
  <2>2. P[start[b + 1] + i] = Given(C[b + 1])[i]
    BY <1>2, <1>4, <1>10, <2>1
  <2> QED
    BY <1>2, <1>4, <1>7, <2>2
<1>14. ASSUME NEW i \in k + 1 .. n PROVE P[m + i] = <<1, i>>
  <2>1. a = 1 /\ b + 2 \in 1 .. Len(C) /\ i - k \in 1 .. n - k /\ k + (i - k) = i
    BY <1>2, <1>3
  <2>2. C[b + 2] = final /\ Len(Given(final)) = n - k /\ Given(final)[i - k] = <<1, k + (i - k)>>
    BY <1>2, <1>6, <2>1
  <2>3. P[start[b + 2] + (i - k)] = <<1, i>>
    BY <1>10, <2>1, <2>2
  <2>4. start[b + 2] + (i - k) = m + i
    BY <1>3, <1>7, <2>1
  <2> QED
    BY <2>3, <2>4
<1> QED
  BY <1>11, <1>12, <1>13, <1>14 DEF Engine!Has, Engine!PageAt, P, k, what

LEMMA PagesAsAsked == EngineInv => Engine!PagesAreAsAsked
<1> SUFFICES ASSUME EngineInv, result = "success" PROVE Engine!PagesAreAsAsked
  BY DEF Engine!PagesAreAsAsked, Engine!Succeeded
<1>1. task.op \in {"merge", "extract", "remove", "reorder", "rotate", "split", "insert", "blank"} /\ task.pages \in Seq(Nat)
  BY OnSuccess, InputsAre
<1>2. CASE task.op \in {"extract", "reorder"}
  <2>1. Len(made[1].pages) = Len(task.pages) /\ \A p \in 1 .. Len(task.pages) : made[1].pages[p] = <<1, task.pages[p]>>
    BY <1>2, OneCopyIs
  <2> QED
    BY <1>2, <2>1 DEF Engine!PagesAreAsAsked, Engine!Has, Engine!PageAt
<1>3. CASE task.op = "rotate"
  BY <1>3, TurnedAsAsked DEF Engine!PagesAreAsAsked
<1>4. CASE task.op = "remove"
  BY <1>4, RemovedAsAsked DEF Engine!PagesAreAsAsked
<1>5. CASE task.op = "split"
  BY <1>5, SplitAsAsked DEF Engine!PagesAreAsAsked
<1>6. CASE task.op = "merge"
  BY <1>6, MergedAsAsked DEF Engine!PagesAreAsAsked
<1>7. CASE task.op \in {"insert", "blank"}
  BY <1>7, InsertedAsAsked DEF Engine!PagesAreAsAsked
<1> QED
  BY <1>1, <1>2, <1>3, <1>4, <1>5, <1>6, <1>7

LEMMA LayersAsInTheirDocuments == EngineInv => Engine!LayersAreKept
<1> SUFFICES ASSUME EngineInv, result = "success", task.op # "rotate" PROVE Engine!LayersAreKept
  BY DEF Engine!LayersAreKept, Engine!Succeeded
<1>1. made \in [Engine!OutputsOf(task) -> MadeRecords] /\ \A o \in Engine!OutputsOf(task) : HasItsLayers(task, made[o])
  BY DEF EngineInv, EngineTypes, LayersAreMade
<1>2. \A o, i : Engine!LayersOf(o, i) = LayersIn(task, made[o].pages, i)
  BY DEF Engine!LayersOf, LayersIn, PagesIn
<1>3. \A o : UNION {{<<i, g>> : g \in Engine!LayersOf(o, i)} : i \in DOMAIN task.inputs} = KeptIn(task, made[o].pages)
  BY <1>2 DEF KeptIn
<1>4. ASSUME NEW o \in DOMAIN made
      PROVE  LET keeps == UNION {{<<i, g>> : g \in Engine!LayersOf(o, i)} : i \in DOMAIN task.inputs}
             IN  /\ Engine!Range(made[o].layers) = keeps /\ Len(made[o].layers) = Engine!Cardinality(keeps)
                 /\ made[o].off = {k \in keeps : k[2] \in Engine!Hidden(Engine!Doc(task, k[1]))}
  BY <1>1, <1>3, CountedThere DEF HasItsLayers
<1> QED
  BY <1>4 DEF Engine!LayersAreKept

(* Whatever the documents, the operations asked for and the budgets of the  *)
(* walk: the pages of a result are those that were asked for, in that      *)
(* order, and each shows and hides what it shows and hides in its document *)
(* (_copy_pages, _preserve_optional_content_defaults, merge_pdfs,          *)
(* remove_pages, insert_pdf_pages, ...).                                   *)
THEOREM PagesOfResultsAreTrue == FilesSpec => []PagesAreTrue
<1>1. EngineInv /\ [FilesNext]_allVars => EngineInv'
  <2>1. [FilesNext]_allVars => [Engine!Next]_engineVars
    BY DEF FilesNext, allVars
  <2> QED
    BY <2>1, EngineSteps
<1>2. EngineInv => PagesAreTrue
  BY PagesAsAsked, LayersAsInTheirDocuments DEF PagesAreTrue
<1>3. FilesInit => EngineInv
  BY EngineStarts DEF FilesInit
<1> QED
  BY <1>1, <1>2, <1>3, PTL DEF FilesSpec
=============================================================================
