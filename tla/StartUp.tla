------------------------------- MODULE StartUp -------------------------------
(***************************************************************************)
(* The start of the application: the lock it shares with the updater of a  *)
(* source checkout, the files it was started with, which are inspected     *)
(* away from the window, and what waits for them, the first dialog and the *)
(* first update check (app/bootstrap.py, app/instance_lock.py,             *)
(* ui/controllers/startup_coordinator.py, the classification runner of     *)
(* workers/document_inspection_runner.py).                                 *)
(***************************************************************************)
EXTENDS Naturals, Sequences

CONSTANTS
  Launches,  \* the files the application can be started with: sequences of "pdf", "bad"
  Profiles   \* what settings.ini may hold: [completed, legacy, reopen : BOOLEAN]

VARIABLES
  holder,     \* of the lock: "none", "application" or "updater"
  marker,     \* priveopdf-update-unsafe is there
  window,     \* "locking", "looking" for the marker, "unlocked" to start, "open" or "refused"
  profile,
  given,      \* the files of the launch, numbered from 1
  runner,     \* "idle", "working", "inspecting" or "ended"
  at,         \* the file being classified
  valid,      \* numbers of the files that can be opened
  invalid,    \* how many cannot
  cancelled,  \* InitialDocumentClassificationWorker._cancel_requested
  timer,      \* StartupCoordinator._timer is running
  deferred,   \* _setup_deferred_for_classification
  dialog,     \* the first-run dialog is open
  leaving,    \* MainWindow._is_closing
  shown,      \* what _open_initial_documents was called with
  settled     \* history: how often the update checks were reached or disabled

startVars ==
  <<holder, marker, window, profile, given, runner, at, valid, invalid, cancelled, timer,
    deferred, dialog, leaving, shown, settled>>
lockVars == <<holder, marker>>
runnerVars == <<runner, at, valid, invalid, cancelled>>
setupVars == <<timer, deferred, dialog, settled, profile>>

StartInit ==
  /\ holder = "none" /\ marker \in BOOLEAN /\ window = "locking"
  /\ profile \in Profiles /\ given \in Launches
  /\ runner = "idle" /\ at = 0 /\ valid = <<>> /\ invalid = 0 /\ cancelled = FALSE
  /\ timer = FALSE /\ deferred = FALSE /\ dialog = FALSE /\ leaving = FALSE
  /\ shown = <<>> /\ settled = 0

-----------------------------------------------------------------------------
(* The lock.                                                               *)

\* The marker is looked at first.
LocksAfterTheMarker ==
  \/ window = "locking" /\ window' = (IF marker THEN "refused" ELSE "looking") /\ UNCHANGED holder
  \/ /\ window = "looking"
     /\ IF holder = "updater" THEN window' = "refused" /\ UNCHANGED holder
        ELSE window' = "unlocked" /\ holder' = "application"

\* try_acquire_shared, then unsafe_update_marker_exists.
LocksTheApplication ==
  \/ /\ window = "locking"
     /\ IF holder = "updater" THEN window' = "refused" /\ UNCHANGED holder
        ELSE window' = "looking" /\ holder' = "application"
  \/ /\ window = "looking"
     /\ IF marker THEN window' = "refused" /\ holder' = "none"
        ELSE window' = "unlocked" /\ UNCHANGED holder

Lock ==
  /\ LocksTheApplication
  /\ UNCHANGED <<marker, given, runnerVars, setupVars, leaving, shown>>

\* The updater works under the exclusive lock and marks the checkout while it is not safe;
\* when it dies the lock is free and the mark stays.
Updater ==
  /\ \/ holder = "none" /\ holder' = "updater" /\ UNCHANGED marker
     \/ holder = "updater" /\ marker' \in BOOLEAN /\ holder' \in {"updater", "none"}
  /\ UNCHANGED <<window, given, runnerVars, setupVars, leaving, shown>>

\* MainWindow.__init__ ends with StartupCoordinator.start: _route_initial_files, the timer.
Open ==
  /\ window = "unlocked" /\ window' = "open"
  /\ timer' = TRUE
  /\ IF given = <<>>
       THEN /\ shown' = IF profile.reopen THEN <<<<"last">>>> ELSE <<>>
            /\ UNCHANGED runner
       ELSE runner' = "working" /\ UNCHANGED shown
  /\ at' = 1
  /\ UNCHANGED <<lockVars, profile, given, valid, invalid, cancelled, deferred, dialog, leaving, settled>>

-----------------------------------------------------------------------------
(* The classification, in its thread.                                      *)

\* InitialDocumentClassificationWorker.run: one file, or the end.
TakeNext ==
  /\ runner = "working"
  /\ runner' = IF cancelled \/ at > Len(given) THEN "ended" ELSE "inspecting"
  /\ UNCHANGED <<lockVars, window, given, at, valid, invalid, cancelled, setupVars, leaving, shown>>

\* The inspection of a cancelled file may still answer; its refusal ends the run.
Inspected ==
  /\ runner = "inspecting"
  /\ \/ /\ runner' = "working" /\ at' = at + 1
        /\ IF given[at] = "pdf" THEN valid' = Append(valid, at) /\ UNCHANGED invalid
           ELSE invalid' = invalid + 1 /\ UNCHANGED valid
     \/ cancelled /\ runner' = "ended" /\ UNCHANGED <<at, valid, invalid>>
  /\ UNCHANGED <<lockVars, window, given, cancelled, setupVars, leaving, shown>>

\* _classification_finished, without starting the timer again.
CleanupAlone ==
  /\ runner = "ended" /\ runner' = "idle"
  /\ shown' = IF leaving \/ cancelled \/ valid = <<>> THEN shown ELSE Append(shown, valid)
  /\ UNCHANGED <<lockVars, window, given, at, valid, invalid, cancelled, setupVars, leaving>>

\* QtInitialDocumentClassificationRunner._cleanup and, in it, _classification_finished.
Cleanup ==
  /\ runner = "ended" /\ runner' = "idle"
  /\ shown' = IF leaving \/ cancelled \/ valid = <<>> THEN shown ELSE Append(shown, valid)
  /\ IF deferred /\ ~leaving THEN deferred' = FALSE /\ timer' = TRUE
     ELSE UNCHANGED <<deferred, timer>>
  /\ UNCHANGED <<lockVars, window, given, at, valid, invalid, cancelled, dialog, leaving, settled, profile>>

-----------------------------------------------------------------------------
(* What waits for it.                                                      *)

\* finish_startup
FinishStartup ==
  LET known == profile.completed \/ profile.legacy
  IN  IF leaving THEN UNCHANGED <<profile, dialog, settled>>
      ELSE /\ profile' = [profile EXCEPT !.completed = known]
           /\ IF known THEN settled' = settled + 1 /\ UNCHANGED dialog
              ELSE dialog' = TRUE /\ UNCHANGED settled

\* _finish_when_ready
TimerFires ==
  /\ timer /\ timer' = FALSE
  /\ IF runner # "idle" THEN deferred' = TRUE /\ UNCHANGED <<profile, dialog, settled>>
     ELSE FinishStartup /\ UNCHANGED deferred
  /\ UNCHANGED <<lockVars, window, given, runnerVars, leaving, shown>>

\* The dialog is accepted, and the update checks refreshed, or refused, and they are disabled.
DialogEnds ==
  /\ dialog /\ dialog' = FALSE
  /\ \E accepted \in BOOLEAN : profile' = [profile EXCEPT !.completed = accepted]
  /\ settled' = settled + 1
  /\ UNCHANGED <<lockVars, window, given, runnerVars, timer, deferred, leaving, shown>>

\* closeEvent: the timer is stopped, the classification cancelled.
Leave ==
  /\ window = "open" /\ ~leaving /\ leaving' = TRUE
  /\ timer' = FALSE
  /\ cancelled' = (cancelled \/ runner # "idle")
  /\ UNCHANGED <<lockVars, window, profile, given, runner, at, valid, invalid, deferred, dialog, shown, settled>>

StartNext ==
  \/ Lock \/ Updater \/ Open
  \/ TakeNext \/ Inspected \/ Cleanup
  \/ TimerFires \/ DialogEnds \/ Leave

StartSpec == StartInit /\ [][StartNext]_startVars

-----------------------------------------------------------------------------
(* Properties.                                                             *)

\* Nothing is left that could happen by itself.
AtRest == window = "open" /\ ~leaving /\ ~timer /\ ~dialog /\ runner = "idle"

\* The files that can be opened, by their number.
Openable == {i \in DOMAIN given : given[i] = "pdf"}

InOrder(numbers) == \A i, j \in DOMAIN numbers : i < j => numbers[i] < numbers[j]

\* The start happens once and to the end (StartupCoordinator, run_app): whichever of timer
\* and classification comes first, the first dialog and the update checks are reached once;
\* the files that can be opened are opened once, all and in order; and no window is open over
\* a checkout that an updater works on or left unsafe.
StartsOnce ==
  /\ settled <= 1
  /\ AtRest => settled = 1
  /\ AtRest /\ Openable # {} =>
       /\ Len(shown) = 1 /\ InOrder(shown[1])
       /\ {shown[1][i] : i \in DOMAIN shown[1]} = Openable
  /\ Len(shown) <= 1
  /\ window = "open" => holder # "updater" /\ ~marker
=============================================================================
