-------------------------- MODULE OutputPublication --------------------------
(***************************************************************************)
(* Publication of the files of one PDF job by the process supervisor       *)
(* (workers/process_supervisor.py, utils/secure_paths.py).                 *)
(*                                                                         *)
(* The isolated worker has written its candidates in a private directory   *)
(* and has exited.  The supervisor now copies them, one after the other,   *)
(* into the folder the user chose: a private temporary file, its content   *)
(* forced to disk, link(2) to the final name, verification.  Any error, a  *)
(* cancellation or the deadline withdraws what was published.  One action  *)
(* is one system call another program can come before or after.            *)
(*                                                                         *)
(* Other programs share the folder: they may take a planned name at any    *)
(* time, free it again, and remove or replace a file the job has just      *)
(* published.                                                              *)
(***************************************************************************)
EXTENDS Integers

CONSTANT N  \* number of outputs; output i has the i-th planned name

ASSUME ConstantsAssumption == N \in Nat \ {0}

VARIABLES
    entry,          \* entry[i]: what the i-th name of the folder leads to
    tampered,       \* history: others removed or replaced an output of the job
    overtaken,      \* history: ... between the check of an undo and its unlink
    temp,           \* the private temporary of the output being written
    tmpfile,        \* does the file system offer O_TMPFILE?
    synced,         \* outputs whose whole content was forced to disk
    kept,           \* length of the list `published`: outputs being tracked
    pc,             \* next step of the supervisor
    cancel,         \* the cancellation event
    expired,        \* the deadline of the job has passed
    ioError,        \* the system refused a stat or an unlink of the undoing
    late,           \* the job failed where nothing is undone any more
    outcome         \* what the caller of the job was told

vars == <<entry, tampered, overtaken, temp, tmpfile, synced, kept, pc, cancel, expired, ioError,
          late, outcome>>

Outs == 1..N

(* The output being published; the list `published` holds those before it. *)
Current == kept + 1

Publishing == {"prepare", "open", "create", "copy", "sync", "link",
               "verify", "tidy", "confirm"}
Ending == {"close", "commit", "cleanup"}
Undoing == {"withdraw", "withdraw_unlink", "discard", "rollback", "rollback_unlink"}
Steps == Publishing \cup Ending \cup Undoing \cup {"done"}

(* Steps at which the current output may already have its final name. *)
AfterLink == {"verify", "tidy", "confirm", "withdraw", "withdraw_unlink"}

TypeOK ==
    /\ entry \in [Outs -> {"absent", "own", "foreign"}]
    /\ tampered \in BOOLEAN
    /\ overtaken \in BOOLEAN
    /\ temp \in {"none", "anonymous", "named"}
    /\ tmpfile \in BOOLEAN
    /\ synced \subseteq Outs
    /\ kept \in 0..N
    /\ pc \in Steps
    /\ cancel \in BOOLEAN
    /\ expired \in BOOLEAN
    /\ ioError \in BOOLEAN
    /\ late \in BOOLEAN
    /\ outcome \in {"running", "success", "failed", "crashed"}

Init ==
    /\ entry \in [Outs -> {"absent", "foreign"}]
    /\ tampered = FALSE
    /\ overtaken = FALSE
    /\ temp = "none"
    /\ tmpfile \in BOOLEAN
    /\ synced = {}
    /\ kept = 0
    /\ pc = "prepare"
    /\ cancel = FALSE
    /\ expired = FALSE
    /\ ioError = FALSE
    /\ late = FALSE
    /\ outcome = "running"

-----------------------------------------------------------------------------
(* Helpers: one step of the supervisor, and the ways it can end.           *)

At(step) == outcome = "running" /\ pc = step

Goto(step) == pc' = step

Finish(o) == pc' = "done" /\ outcome' = o

Environment == <<tampered, overtaken, tmpfile, cancel, expired>>

(* An error that no handler of the publication answers: the job fails, the *)
(* files stay.                                                             *)
FailLate == late' = TRUE /\ Finish("failed")

(* check_cancel and the checks of the copy loop. *)
MustStop == cancel \/ expired

-----------------------------------------------------------------------------
(* Plausible mistakes, each the body of one action below with one thing    *)
(* wrong; a run must notice when it takes the place of that action.        *)

(* Verify: a name lost after the link is not withdrawn. *)
VerifyNotWithdrawn ==
    /\ At("verify")
    /\ \/ entry[Current] = "own" /\ Goto("tidy")
       \/ Goto("discard")
    /\ UNCHANGED <<entry, temp, synced, kept, ioError, late, outcome, Environment>>

(* RollbackCheck: the name is trusted, the identity not compared. *)
RollbackByName ==
    /\ At("rollback")
    /\ kept > 0
    /\ Goto("rollback_unlink")
    /\ UNCHANGED <<entry, temp, synced, kept, ioError, late, outcome, Environment>>

(* RollbackDone: the first output of the list is forgotten. *)
RollbackStopsShort ==
    /\ At("rollback")
    /\ kept <= 1
    /\ Finish("failed")
    /\ UNCHANGED <<entry, temp, synced, kept, ioError, late, Environment>>

(* RollbackDone: the failure is not reported once a removal has failed. *)
RollbackNeverReported ==
    /\ At("rollback")
    /\ kept = 0
    /\ ~ioError
    /\ Finish("failed")
    /\ UNCHANGED <<entry, temp, synced, kept, ioError, late, Environment>>

-----------------------------------------------------------------------------
(* Publication of one output.                                              *)

(* prepare_new_output_path and the checks of the candidate: a taken name   *)
(* is refused, and so is a candidate of the wrong kind or size.            *)
Prepare ==
    /\ At("prepare")
    /\ \/ entry[Current] = "absent" /\ Goto("open")
       \/ Goto("rollback")
    /\ UNCHANGED <<entry, temp, synced, kept, ioError, late, outcome, Environment>>

(* The folder is opened and the name must be absent in it. *)
RequireAbsent ==
    /\ At("open")
    /\ \/ entry[Current] = "absent" /\ Goto("create")
       \/ Goto("rollback")
    /\ UNCHANGED <<entry, temp, synced, kept, ioError, late, outcome, Environment>>

(* O_TMPFILE, or a named temporary where the file system cannot. *)
CreateTemporary ==
    /\ At("create")
    /\ \/ temp' = (IF tmpfile THEN "anonymous" ELSE "named") /\ Goto("copy")
       \/ UNCHANGED temp /\ Goto("rollback")
    /\ UNCHANGED <<entry, synced, kept, ioError, late, outcome, Environment>>

(* Before each chunk the copy looks at the cancellation and the deadline. *)
Copy ==
    /\ At("copy")
    /\ \/ ~MustStop /\ Goto("sync")
       \/ Goto("discard")
    /\ UNCHANGED <<entry, temp, synced, kept, ioError, late, outcome, Environment>>

(* The last chunk is written, the mode set, the content forced to disk. *)
Sync ==
    /\ At("sync")
    /\ \/ synced' = synced \cup {Current} /\ Goto("link")
       \/ UNCHANGED synced /\ Goto("discard")
    /\ UNCHANGED <<entry, temp, kept, ioError, late, outcome, Environment>>

(* link(2): takes the name, or fails when there is an entry of that name. *)
Link ==
    /\ At("link")
    /\ \/ /\ entry[Current] = "absent"
          /\ entry' = [entry EXCEPT ![Current] = "own"]
          /\ Goto("verify")
       \/ UNCHANGED entry /\ Goto("discard")
    /\ UNCHANGED <<temp, synced, kept, ioError, late, outcome, Environment>>

(* The name must lead to the file just linked; the folder is forced to disk. *)
Verify ==
    /\ At("verify")
    /\ \/ entry[Current] = "own" /\ Goto("tidy")
       \/ Goto("withdraw")
    /\ UNCHANGED <<entry, temp, synced, kept, ioError, late, outcome, Environment>>

(* A named temporary loses its name; an anonymous one never had any. *)
Tidy ==
    /\ At("tidy")
    /\ \/ temp' = "none" /\ Goto("confirm")
       \/ temp = "named" /\ temp' \in {"named", "none"} /\ Goto("withdraw")
    /\ UNCHANGED <<entry, synced, kept, ioError, late, outcome, Environment>>

(* Last look at the name; the output joins the list with a descriptor. *)
Confirm ==
    /\ At("confirm")
    /\ \/ /\ entry[Current] = "own"
          /\ kept' = kept + 1
          /\ Goto("close")
       \/ UNCHANGED kept /\ Goto("withdraw")
    /\ UNCHANGED <<entry, temp, synced, ioError, late, outcome, Environment>>

(* The candidate is closed, which may fail.  The form for several outputs  *)
(* closes it where an error still undoes; _publish_staged_output, the form *)
(* for one, between the writing and its try, where none does.              *)
Close ==
    /\ At("close")
    /\ \/ Goto(IF kept = N THEN "commit" ELSE "prepare") /\ UNCHANGED <<late, outcome>>
       \/ Goto("rollback") /\ UNCHANGED <<late, outcome>>
       \/ N = 1 /\ FailLate
    /\ UNCHANGED <<entry, temp, synced, kept, ioError, Environment>>

(* The last look at the cancellation; _publish_staged_output, the form of  *)
(* this code for one output, looks at the deadline as well, the form for   *)
(* several does not: where it has passed, either may happen.               *)
Commit ==
    /\ At("commit")
    /\ \/ cancel /\ Goto("rollback")
       \/ expired /\ Goto("rollback")
       \/ ~cancel /\ Goto("cleanup")
    /\ UNCHANGED <<entry, temp, synced, kept, ioError, late, outcome, Environment>>

(* The private directory of the worker is removed before run_job returns;  *)
(* an error of this is taken for a failure of the job.                     *)
CleanUp ==
    /\ At("cleanup")
    /\ \/ Finish("success") /\ UNCHANGED late
       \/ FailLate
    /\ UNCHANGED <<entry, temp, synced, kept, ioError, Environment>>

-----------------------------------------------------------------------------
(* Undoing.                                                                *)

(* _unlink_if_same, its stat: only the file of this job is withdrawn, and  *)
(* none is when the stat fails.                                            *)
WithdrawCheck ==
    /\ At("withdraw")
    /\ \/ Goto(IF entry[Current] = "own" THEN "withdraw_unlink" ELSE "discard") /\ UNCHANGED ioError
       \/ Goto("discard") /\ ioError' = TRUE
    /\ UNCHANGED <<entry, temp, synced, kept, late, outcome, Environment>>

(* _unlink_if_same, its unlink; an error of the system is suppressed. *)
WithdrawUnlink ==
    /\ At("withdraw_unlink")
    /\ \/ entry' = [entry EXCEPT ![Current] = "absent"] /\ UNCHANGED ioError
       \/ UNCHANGED entry /\ ioError' = TRUE
    /\ Goto("discard")
    /\ UNCHANGED <<temp, synced, kept, late, outcome, Environment>>

(* The finally of the writer: the temporary goes, by name or by closing. *)
Discard ==
    /\ At("discard")
    /\ \/ temp' = "none" /\ UNCHANGED ioError
       \/ temp = "named" /\ UNCHANGED temp /\ ioError' = TRUE
    /\ Goto("rollback")
    /\ UNCHANGED <<entry, synced, kept, late, outcome, Environment>>

(* matches_current_entry for the last output still on the list: one that   *)
(* is not at its name, or that fstat or stat refuses to tell, is passed    *)
(* over, and the rollback goes on with those before it.                    *)
RollbackCheck ==
    /\ At("rollback")
    /\ kept > 0
    /\ \/ entry[kept] = "own" /\ Goto("rollback_unlink") /\ UNCHANGED <<kept, ioError>>
       \/ entry[kept] # "own" /\ Goto("rollback") /\ kept' = kept - 1 /\ UNCHANGED ioError
       \/ Goto("rollback") /\ kept' = kept - 1 /\ ioError' = TRUE
    /\ UNCHANGED <<entry, temp, synced, late, outcome, Environment>>

(* output.path.unlink(missing_ok=True); its error ends the rollback. *)
RollbackUnlink ==
    /\ At("rollback_unlink")
    /\ \/ /\ entry' = [entry EXCEPT ![kept] = "absent"]
          /\ kept' = kept - 1
          /\ Goto("rollback")
          /\ UNCHANGED <<ioError, outcome>>
       \/ /\ ioError' = TRUE
          /\ Finish("failed")
          /\ UNCHANGED <<entry, kept>>
    /\ UNCHANGED <<temp, synced, late, Environment>>

RollbackDone ==
    /\ At("rollback")
    /\ kept = 0
    /\ Finish("failed")
    /\ UNCHANGED <<entry, temp, synced, kept, ioError, late, Environment>>

Publish == Prepare \/ RequireAbsent \/ CreateTemporary \/ Copy \/ Sync \/ Link
              \/ Verify \/ Tidy \/ Confirm \/ Close \/ Commit \/ CleanUp

Undo == WithdrawCheck \/ WithdrawUnlink \/ Discard
              \/ RollbackCheck \/ RollbackUnlink \/ RollbackDone

Supervisor == Publish \/ Undo

-----------------------------------------------------------------------------
(* The user, the clock, a crash of the application, and other programs.    *)

RequestCancel ==
    /\ outcome = "running"
    /\ ~cancel
    /\ cancel' = TRUE
    /\ UNCHANGED <<entry, tampered, overtaken, temp, tmpfile, synced, kept, pc, expired, ioError, late, outcome>>

DeadlinePasses ==
    /\ outcome = "running"
    /\ ~expired
    /\ expired' = TRUE
    /\ UNCHANGED <<entry, tampered, overtaken, temp, tmpfile, synced, kept, pc, cancel, ioError, late, outcome>>

(* The application dies: an anonymous temporary goes with its descriptor. *)
Crash ==
    /\ outcome = "running"
    /\ Finish("crashed")
    /\ temp' = (IF temp = "anonymous" THEN "none" ELSE temp)
    /\ UNCHANGED <<entry, synced, kept, ioError, late, Environment>>

(* Between the identity check of an undo and its unlink by name, two       *)
(* adjacent calls, no call keeps others from the name.                     *)
UnlinkWindow(i) ==
    \/ At("withdraw_unlink") /\ i = Current
    \/ At("rollback_unlink") /\ i = kept

OthersTake(i) ==
    /\ entry[i] = "absent"
    /\ entry' = [entry EXCEPT ![i] = "foreign"]
    /\ UNCHANGED tampered

OthersFree(i) ==
    /\ entry[i] = "foreign"
    /\ entry' = [entry EXCEPT ![i] = "absent"]
    /\ UNCHANGED tampered

OthersTamper(i) ==
    /\ entry[i] = "own"
    /\ tampered' = TRUE
    /\ \E e \in {"absent", "foreign"} : entry' = [entry EXCEPT ![i] = e]

OtherPrograms ==
    /\ \E i \in Outs :
          /\ OthersTake(i) \/ OthersFree(i) \/ OthersTamper(i)
          /\ overtaken' = (overtaken \/ UnlinkWindow(i))
    /\ UNCHANGED <<temp, tmpfile, synced, kept, pc, cancel, expired, ioError, late, outcome>>

Next == Supervisor \/ RequestCancel \/ DeadlinePasses \/ Crash \/ OtherPrograms

Spec == Init /\ [][Next]_vars

(* The publication thread keeps running until the job is over. *)
FairSpec == Spec /\ WF_vars(Supervisor)
-----------------------------------------------------------------------------
(* Properties.                                                             *)

(* A failed or cancelled job leaves no file of its own under the planned   *)
(* names, whatever it had published before and whatever others did to it,  *)
(* unless the system refused a stat or an unlink of the undoing: the       *)
(* withdrawals of the writer (secure_paths.py:304-314) and of the          *)
(* supervisor (process_supervisor.py:632-636) cover together every step at *)
(* which an output has its name.  Where an error comes after all of them,  *)
(* from the closing of the one candidate or the removal of the private     *)
(* directory, the failed job leaves every file it announced: never some.   *)
FailureLeavesNoneOrAll ==
    outcome = "failed" =>
        /\ ~late /\ ~ioError => \A i \in Outs : entry[i] # "own"
        /\ late /\ ~tampered => \A i \in Outs : entry[i] = "own"

(* A success is reported only with every planned name leading to a file of *)
(* this job, as long as no one tampered with them.                         *)
SuccessMeansAll ==
    outcome = "success" /\ ~tampered => \A i \in Outs : entry[i] = "own"

(* At no time, hence after no crash, does a planned name lead to a file of *)
(* the job whose content is not completely on disk.                        *)
NoTornOutput == \A i \in Outs : entry[i] = "own" => i \in synced

(* A finished job leaves no temporary in the folder unless the system      *)
(* refused; a crash leaves one only where O_TMPFILE is not available.      *)
NoStrayTemporary ==
    /\ outcome \in {"success", "failed"} /\ ~ioError => temp = "none"
    /\ outcome = "crashed" /\ temp # "none" => ~tmpfile

(* The files of others are theirs: no step of the job, publishing or       *)
(* undoing, replaces or removes an entry it did not make, unless it got    *)
(* there between the identity check of an undo and the unlink by name      *)
(* (matches_current_entry, _unlink_if_same).                               *)
ForeignUntouched ==
    [][\A i \in Outs : entry[i] = "foreign" /\ entry'[i] # "foreign"
                          => OtherPrograms \/ overtaken]_vars

(* Publication, undoing included, always comes to an end.                  *)
Terminates == <>(outcome # "running")

(* The promise of the job, as the abstract specification states it.        *)
Promise == INSTANCE OutputSet WITH
    visible <- {i \in Outs : entry[i] = "own"},
    stuck <- ioError,
    disturbed <- tampered

KeepsPromise == Promise!AbsSpec
=============================================================================
