------------------------------ MODULE OutputSet ------------------------------
(***************************************************************************)
(* What a structural job promises about the N files it was asked to        *)
(* create: while the job runs the files may appear one after the other and *)
(* be withdrawn again, a success is only ever reported with all of them in *)
(* place, and a failure (a cancellation included) with none of them, unless *)
(* the system refused a call of the undoing, or with all of them, where it *)
(* is a late one: an error after the last step that is undone.  A crash    *)
(* promises nothing more than that the files present are the first ones of *)
(* the list.  Where other programs remove or replace the files meanwhile,  *)
(* a failure that is not late still leaves none of them.                   *)
(***************************************************************************)
EXTENDS Integers

CONSTANT N          \* number of files the job announces

VARIABLES
    visible,        \* the outputs whose name leads to the file of this job
    stuck,          \* the system refused a call that removes a file of this job
    disturbed,      \* others removed or replaced a file of this job
    late,           \* the failure came when nothing was undone any more
    outcome         \* what the caller of the job was told

absVars == <<visible, stuck, disturbed, late, outcome>>

AbsInit ==
    /\ visible = {}
    /\ stuck = FALSE
    /\ disturbed = FALSE
    /\ late = FALSE
    /\ outcome = "running"

(* The next output of the list appears under its name. *)
Appear ==
    /\ outcome = "running"
    /\ \E i \in (1..N) \ visible :
          /\ visible = 1..(i - 1) \/ disturbed
          /\ visible' = visible \cup {i}
    /\ UNCHANGED <<stuck, disturbed, late, outcome>>

(* The last output that appeared is withdrawn. *)
Withdraw ==
    /\ outcome = "running"
    /\ \E i \in visible :
          /\ \A j \in visible : j <= i \/ stuck
          /\ visible' = visible \ {i}
    /\ UNCHANGED <<stuck, disturbed, late, outcome>>

(* Another program removes or replaces a file, even after the job. *)
Disturb ==
    /\ \E i \in visible : visible' = visible \ {i}
    /\ disturbed' = TRUE
    /\ UNCHANGED <<stuck, late, outcome>>

(* The system refuses a call of the undoing; some callers are told at once. *)
Refuse ==
    /\ outcome = "running"
    /\ stuck' = TRUE
    /\ outcome' \in {"running", "failed"}
    /\ UNCHANGED <<visible, disturbed, late>>

Succeed ==
    /\ outcome = "running"
    /\ visible = 1..N \/ disturbed
    /\ outcome' = "success"
    /\ UNCHANGED <<visible, stuck, disturbed, late>>

Fail ==
    /\ outcome = "running"
    /\ visible = {} \/ stuck
    /\ outcome' = "failed"
    /\ UNCHANGED <<visible, stuck, disturbed, late>>

(* All the files are there, and the job fails nevertheless. *)
FailLate ==
    /\ outcome = "running"
    /\ visible = 1..N \/ disturbed
    /\ late' = TRUE
    /\ outcome' = "failed"
    /\ UNCHANGED <<visible, stuck, disturbed>>

Die ==
    /\ outcome = "running"
    /\ outcome' = "crashed"
    /\ UNCHANGED <<visible, stuck, disturbed, late>>

AbsNext == Appear \/ Withdraw \/ Disturb \/ Refuse \/ Succeed \/ Fail \/ FailLate \/ Die

AbsSpec == AbsInit /\ [][AbsNext]_absVars
=============================================================================
