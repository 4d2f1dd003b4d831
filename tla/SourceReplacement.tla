-------------------------- MODULE SourceReplacement --------------------------
(***************************************************************************)
(* "Replace this PDF": a protect, unlock, remove-metadata or photocopy job *)
(* whose output takes the place of its own source                          *)
(* (utils/secure_paths.py atomic_replace_source, called from               *)
(* workers/process_supervisor.py).                                         *)
(*                                                                         *)
(* The supervisor takes a snapshot of the source (its stat fields), the    *)
(* isolated worker reads the source and makes a candidate from it, and the *)
(* supervisor copies the candidate to a private temporary next to the      *)
(* source and renames it over the source, provided the stat fields are     *)
(* still those of the snapshot.  Another program may save the source again *)
(* or remove it at any time; each such edit is a new version.  Between the *)
(* rename and the report of the job come the closing of its files and the  *)
(* removal of the private directory: an error or an end of the process     *)
(* there leaves a source that is replaced by a job that did not succeed.   *)
(***************************************************************************)
EXTENDS Integers

CONSTANT MaxEdits   \* bound on the edits other programs make

ASSUME ConstantsAssumption == MaxEdits \in Nat

VARIABLES
    source,         \* what the name of the source leads to
    edits,          \* versions other programs have saved so far
    overtaken,      \* history: an edit fell between the last check and the rename
    snapshot,       \* the version whose stat fields were kept
    madeFrom,       \* the version the worker made its candidate from
    lost,           \* versions the rename made unreachable
    temp,           \* the private temporary
    tmpfile,        \* does the file system offer O_TMPFILE?
    synced,         \* the temporary is completely on disk
    pc,
    cancel,
    expired,
    inTime,         \* history: stopped or out of time before the last look at that
    late,           \* history: the job ended after the rename, without success
    outcome

sourceVars == <<source, edits, overtaken, snapshot, madeFrom, lost, temp, tmpfile, synced, pc,
          cancel, expired, inTime, late, outcome>>

(* Versions are numbered; NoFile and Ours are no version. *)
SourceVersions == 0..MaxEdits
NoFile == -1
Ours == -2

Steps == {"snapshot", "work", "check", "create", "copy", "sync", "recheck",
          "last_cancel", "name", "rename", "close", "cleanup", "discard", "done"}

(* From the last look at the source to the rename that replaces it. *)
Window == {"last_cancel", "name", "rename"}

(* Between the rename and the report. *)
Renamed == {"close", "cleanup"}

SourceTypeOK ==
    /\ source \in SourceVersions \cup {NoFile, Ours}
    /\ edits \in SourceVersions
    /\ overtaken \in BOOLEAN
    /\ snapshot \in SourceVersions \cup {NoFile}
    /\ madeFrom \in SourceVersions \cup {NoFile}
    /\ lost \subseteq SourceVersions
    /\ temp \in {"none", "anonymous", "named"}
    /\ tmpfile \in BOOLEAN
    /\ synced \in BOOLEAN
    /\ pc \in Steps
    /\ cancel \in BOOLEAN
    /\ expired \in BOOLEAN
    /\ inTime \in BOOLEAN
    /\ late \in BOOLEAN
    /\ outcome \in {"running", "success", "failed", "crashed"}

SourceInit ==
    /\ source = 0
    /\ edits = 0
    /\ overtaken = FALSE
    /\ snapshot = NoFile
    /\ madeFrom = NoFile
    /\ lost = {}
    /\ temp = "none"
    /\ tmpfile \in BOOLEAN
    /\ synced = FALSE
    /\ pc = "snapshot"
    /\ cancel = FALSE
    /\ expired = FALSE
    /\ inTime = FALSE
    /\ late = FALSE
    /\ outcome = "running"

-----------------------------------------------------------------------------
At(step) == outcome = "running" /\ pc = step

Goto(step) == pc' = step

Finish(o) == pc' = "done" /\ outcome' = o

World == <<edits, overtaken, tmpfile, cancel, expired, inTime>>

MustStop == cancel \/ expired

(* The fields of stat tell two versions apart. *)
SameAsSnapshot == source = snapshot

(* Plausible mistakes; see the actions of the same shape below. *)
RecheckSkipped ==
    /\ At("recheck")
    /\ Goto("last_cancel")
    /\ UNCHANGED <<source, snapshot, madeFrom, lost, temp, synced, late, outcome, World>>

CancelAfterRename ==
    /\ At("rename")
    /\ source' = Ours
    /\ lost' = lost \cup ({source} \cap SourceVersions)
    /\ temp' = "none"
    /\ IF cancel THEN Finish("failed") ELSE Goto("close") /\ UNCHANGED outcome
    /\ UNCHANGED <<snapshot, madeFrom, synced, late, World>>

CancelNotAskedAgain ==
    /\ At("last_cancel")
    /\ Goto("name")
    /\ UNCHANGED <<source, snapshot, madeFrom, lost, temp, synced, late, outcome, World>>

-----------------------------------------------------------------------------
(* snapshot_replacement_source: a regular PDF with a single name. *)
Snapshot ==
    /\ At("snapshot")
    /\ \/ source # NoFile /\ snapshot' = source /\ Goto("work")
       \/ UNCHANGED snapshot /\ Goto("discard")
    /\ UNCHANGED <<source, madeFrom, lost, temp, synced, late, outcome, World>>

(* The worker reads the source as it is by then; it may fail or be stopped. *)
Work ==
    /\ At("work")
    /\ \/ source # NoFile /\ madeFrom' = source /\ Goto("check")
       \/ UNCHANGED madeFrom /\ Goto("discard")
    /\ UNCHANGED <<source, snapshot, lost, temp, synced, late, outcome, World>>

(* check_cancel, then the first check_source. *)
Check ==
    /\ At("check")
    /\ \/ ~MustStop /\ SameAsSnapshot /\ Goto("create")
       \/ Goto("discard")
    /\ UNCHANGED <<source, snapshot, madeFrom, lost, temp, synced, late, outcome, World>>

Create ==
    /\ At("create")
    /\ \/ temp' = (IF tmpfile THEN "anonymous" ELSE "named") /\ Goto("copy")
       \/ UNCHANGED temp /\ Goto("discard")
    /\ UNCHANGED <<source, snapshot, madeFrom, lost, synced, late, outcome, World>>

(* check_cancel before every chunk and after the last. *)
Copy ==
    /\ At("copy")
    /\ \/ ~MustStop /\ Goto("sync")
       \/ Goto("discard")
    /\ UNCHANGED <<source, snapshot, madeFrom, lost, temp, synced, late, outcome, World>>

Sync ==
    /\ At("sync")
    /\ \/ synced' = TRUE /\ Goto("recheck")
       \/ UNCHANGED synced /\ Goto("discard")
    /\ UNCHANGED <<source, snapshot, madeFrom, lost, temp, late, outcome, World>>

(* The second check_source, after the complete write. *)
Recheck ==
    /\ At("recheck")
    /\ \/ SameAsSnapshot /\ Goto("last_cancel")
       \/ Goto("discard")
    /\ UNCHANGED <<source, snapshot, madeFrom, lost, temp, synced, late, outcome, World>>

(* before_replace: the last moment a cancellation counts. *)
LastCancel ==
    /\ At("last_cancel")
    /\ Goto(IF MustStop THEN "discard" ELSE "name")
    /\ UNCHANGED <<source, snapshot, madeFrom, lost, temp, synced, late, outcome, World>>

(* An anonymous temporary needs a name for the rename. *)
Name ==
    /\ At("name")
    /\ \/ temp' = "named" /\ Goto("rename")
       \/ temp = "anonymous" /\ UNCHANGED temp /\ Goto("discard")
    /\ UNCHANGED <<source, snapshot, madeFrom, lost, synced, late, outcome, World>>

(* os.replace; the forcing of the directory to disk may fail unnoticed. *)
Rename ==
    /\ At("rename")
    /\ \/ /\ source' = Ours
          /\ lost' = lost \cup ({source} \cap SourceVersions)
          /\ temp' = "none"
          /\ Goto("close")
       \/ /\ Goto("discard")
          /\ UNCHANGED <<source, lost, temp>>
    /\ UNCHANGED <<snapshot, madeFrom, synced, late, outcome, World>>

(* An error after the rename: run_job reports a failure all the same. *)
FailLate == late' = TRUE /\ Finish("failed")

(* The temporary, the folder and the candidate are closed. *)
Close ==
    /\ At("close")
    /\ \/ Goto("cleanup") /\ UNCHANGED <<late, outcome>>
       \/ FailLate
    /\ UNCHANGED <<source, snapshot, madeFrom, lost, temp, synced, World>>

(* The private directory of the worker is removed, and the job reported. *)
CleanUp ==
    /\ At("cleanup")
    /\ \/ Finish("success") /\ UNCHANGED late
       \/ FailLate
    /\ UNCHANGED <<source, snapshot, madeFrom, lost, temp, synced, World>>

(* The finally: a named temporary is unlinked, unless the system refuses,  *)
(* an anonymous one closed.                                                *)
Discard ==
    /\ At("discard")
    /\ temp' \in {"none"} \cup ({temp} \ {"anonymous"})
    /\ Finish("failed")
    /\ UNCHANGED <<source, snapshot, madeFrom, lost, synced, late, World>>

Supervisor == Snapshot \/ Work \/ Check \/ Create \/ Copy \/ Sync \/ Recheck
                 \/ LastCancel \/ Name \/ Rename \/ Close \/ CleanUp \/ Discard

-----------------------------------------------------------------------------
(* A stop that comes before the last look at it is in time. *)
Stops == inTime' = (inTime \/ pc \notin {"name", "rename"} \cup Renamed)

RequestCancel ==
    /\ outcome = "running" /\ ~cancel
    /\ cancel' = TRUE
    /\ Stops
    /\ UNCHANGED <<source, edits, overtaken, snapshot, madeFrom, lost, temp, tmpfile, synced, pc,
                   expired, late, outcome>>

DeadlinePasses ==
    /\ outcome = "running" /\ ~expired
    /\ expired' = TRUE
    /\ Stops
    /\ UNCHANGED <<source, edits, overtaken, snapshot, madeFrom, lost, temp, tmpfile, synced, pc,
                   cancel, late, outcome>>

Crash ==
    /\ outcome = "running"
    /\ Finish("crashed")
    /\ late' = (pc \in Renamed)
    /\ temp' = (IF temp = "anonymous" THEN "none" ELSE temp)
    /\ UNCHANGED <<source, snapshot, madeFrom, lost, synced, World>>

(* Another program saves its own next version, or removes the source. *)
OtherPrograms ==
    /\ outcome = "running"
    /\ overtaken' = (overtaken \/ pc \in Window)
    /\ \/ edits < MaxEdits /\ edits' = edits + 1 /\ source' = edits + 1
       \/ source # NoFile /\ source' = NoFile /\ UNCHANGED edits
    /\ UNCHANGED <<snapshot, madeFrom, lost, temp, tmpfile, synced, pc, cancel, expired,
                   inTime, late, outcome>>

SourceNext == Supervisor \/ RequestCancel \/ DeadlinePasses \/ Crash \/ OtherPrograms

SourceSpec == SourceInit /\ [][SourceNext]_sourceVars

-----------------------------------------------------------------------------
(* The only version a replacement makes unreachable is the one the user    *)
(* gave the job and the result was made from: a version saved by another   *)
(* program while the job ran is never the one that disappears, unless it   *)
(* was saved between the last check and the rename (the recheck narrows    *)
(* that window, no call closes it: atomic_replace_source).                 *)
OnlyTheTreatedVersionIsReplaced ==
    lost # {} /\ ~overtaken => lost = {snapshot} /\ madeFrom = snapshot

(* What is reported agrees with the file: a success with the version that  *)
(* was treated replaced, anything else, a crash included, with a source    *)
(* that is what the user or another program saved; only an error or an end *)
(* of the process after the rename leaves a replaced source without a      *)
(* report of it.                                                           *)
Replaced == source = Ours \/ lost # {}

ReportedAsItIs ==
    /\ outcome = "success" => lost = {snapshot} \/ overtaken
    /\ outcome \in {"failed", "crashed"} => (Replaced => late)
    /\ outcome = "running" => (Replaced => pc \in Renamed)

(* A cancellation or the deadline, when it comes before the last look at   *)
(* them, preserves the source, whatever fails afterwards.                  *)
StoppedInTimeIsIntact == inTime => ~Replaced

(* The rename only ever puts a complete file in the place of the source. *)
NoTornSource == source = Ours => synced

(* The four together: an edit of the user is lost only to a complete result *)
(* that was made from it, by a job that was not stopped in time, and the      *)
(* report of the job agrees with the file (atomic_replace_source, and the     *)
(* caller that takes its return for the success of the job).                  *)
ReplacementIsSafe ==
    OnlyTheTreatedVersionIsReplaced /\ ReportedAsItIs /\ StoppedInTimeIsIntact /\ NoTornSource

=============================================================================
