----------------------------- MODULE UpdateChecks -----------------------------
(***************************************************************************)
(* The update checks of the window (ui/controllers/update_controller.py)   *)
(* and the one runner they share (workers/update_runner.py).               *)
(*                                                                         *)
(* A check is automatic, when the preferences allow it, or manual, when    *)
(* the user confirms it; a manual check asked for while the runner is busy *)
(* is queued until the runner says that it is idle, which it does one      *)
(* event after it stopped being busy.  Dialogs are modal and run event     *)
(* loops of their own: only the last one opened hears the user, and the    *)
(* code after it runs with whatever changed meanwhile.                     *)
(***************************************************************************)
EXTENDS Integers, Sequences

CONSTANTS
    MaxInputs,      \* bound on what the user, or the clock, does to the checks
    NoResult        \* no result

Statuses == {"up_to_date", "not_verified", "update_available"}
Result == [status : Statuses, source : BOOLEAN]

ASSUME InputsAssumption ==
    /\ MaxInputs \in Nat
    /\ NoResult \notin Result

VARIABLES
    phase,          \* of the runner: idle, or the step its thread has reached
    sourceAllowed,  \* may the check running look at the source checkout?
    authorized,     \* QtUpdateCheckRunner._source_checkout_authorized_once
    found,          \* result of the check that has ended, until it is handled
    idles,          \* idle signals posted and not yet delivered
    pending,        \* origin of the manual check running, or "no"
    queued,         \* origin of the manual check waiting, or "no"
    latest,         \* UpdateController._latest_result
    cached,         \* the result kept in the settings
    automatic,      \* AppSettings.automatic_update_checks
    dialogs,        \* the modal dialogs open, the one in front first
    closing,        \* MainWindow._is_closing
    started,        \* did start-up reach its update check?
    inputs,         \* inputs so far
    waiting,        \* history: is a confirmed manual check unanswered?
    confirmed,      \* history: manual checks confirmed and accepted
    sourceChecks,   \* history: checks that looked at the source checkout
    installs        \* history: installers launched

check == <<phase, sourceAllowed, authorized, sourceChecks>>
manual == <<pending, queued, waiting, confirmed>>
checkResults == <<latest, cached>>
rest == <<automatic, dialogs, closing, started, inputs, installs>>
checkVars == <<check, found, idles, manual, checkResults, rest>>

Origins == {"sidebar", "options"}
MaybeResult == Result \cup {NoResult}
Dialog == {<<"options">>} \cup ({"consent"} \X Origins) \cup ({"offer", "note"} \X Result)

\* What a check can answer: the source checkout only if it may look there.
ResultsOf(allowed) == {r \in Result : r.source => allowed}

\* The dialog for a result: an offer to update, or a note.
Shown(result) == <<IF result.status = "update_available" THEN "offer" ELSE "note", result>>

ChecksTypeOK ==
    /\ phase \in {"idle", "checking", "ended", "handled"}
    /\ sourceAllowed \in BOOLEAN /\ authorized \in BOOLEAN
    /\ found \in MaybeResult /\ (phase = "ended" => found # NoResult)
    /\ idles \in Nat
    /\ pending \in Origins \cup {"no"} /\ queued \in Origins \cup {"no"}
    /\ latest \in MaybeResult /\ cached \in MaybeResult
    /\ automatic \in BOOLEAN /\ closing \in BOOLEAN /\ started \in BOOLEAN
    /\ inputs \in 0..MaxInputs
    /\ dialogs \in Seq(Dialog)
    /\ waiting \in BOOLEAN
    /\ confirmed \in Nat /\ sourceChecks \in Nat /\ installs \in Nat

ChecksInit ==
    /\ phase = "idle" /\ sourceAllowed = FALSE /\ authorized = FALSE
    /\ found = NoResult /\ idles = 0
    /\ pending = "no" /\ queued = "no"
    /\ latest = NoResult
    /\ cached \in {NoResult} \cup [status : Statuses, source : {FALSE}]
    /\ automatic \in BOOLEAN
    /\ dialogs = <<>>
    /\ closing = FALSE /\ started = FALSE
    /\ inputs = 0
    /\ waiting = FALSE /\ confirmed = 0 /\ sourceChecks = 0 /\ installs = 0

-----------------------------------------------------------------------------
(* The runner. *)

IsRunning == phase # "idle"

\* start does not use the authorization up.
StartKeepingAuthorization(authorization) ==
    /\ ~IsRunning
    /\ phase' = "checking"
    /\ sourceAllowed' = authorization
    /\ authorized' = authorization
    /\ sourceChecks' = sourceChecks + (IF authorization THEN 1 ELSE 0)

\* QtUpdateCheckRunner.start, with the authorization as it stands at the call.
Start(authorization) ==
    /\ ~IsRunning
    /\ phase' = "checking"
    /\ sourceAllowed' = authorization
    /\ authorized' = FALSE
    /\ sourceChecks' = sourceChecks + (IF authorization THEN 1 ELSE 0)

\* The thread: UpdateCheckWorker.run always ends with a result.
WorkerFinishes ==
    /\ phase = "checking"
    /\ phase' = "ended"
    /\ found' \in ResultsOf(sourceAllowed)
    /\ UNCHANGED <<sourceAllowed, authorized, sourceChecks, idles, manual, checkResults, rest>>

\* The end of the thread says nothing.
CleanupSilently ==
    /\ phase = "handled"
    /\ phase' = "idle"
    /\ UNCHANGED <<sourceAllowed, authorized, sourceChecks, found, idles, manual, checkResults, rest>>

\* _cleanup, when the thread is destroyed: the runner may start again at once,
\* and says that it is idle with a timer of zero.
Cleanup ==
    /\ phase = "handled"
    /\ phase' = "idle"
    /\ idles' = idles + 1
    /\ UNCHANGED <<sourceAllowed, authorized, sourceChecks, found, manual, checkResults, rest>>

-----------------------------------------------------------------------------
(* The controller. *)

\* refresh: an automatic check, unless a result kept from before will do.
\* The preference is a parameter: the dialog of options has just set it.
Refresh(allowed) ==
    LET fresh == cached # NoResult /\ cached.status # "update_available" IN
    /\ UNCHANGED <<cached, found, idles, manual>>
    /\ \/ closing /\ UNCHANGED <<check, latest>>
       \/ ~closing /\ ~allowed /\ latest' = NoResult /\ UNCHANGED check
       \/ ~closing /\ allowed /\ fresh /\ latest' = cached /\ UNCHANGED check
       \/ /\ ~closing /\ allowed /\ ~fresh
          /\ IF IsRunning THEN UNCHANGED check ELSE Start(authorized)
          /\ UNCHANGED latest

\* _begin_manual_check: the check is pending before the runner accepts it, and
\* a runner that is running raises.
Begin(origin) ==
    /\ pending' = origin
    /\ Start(TRUE) \/ (IsRunning /\ UNCHANGED check)

\* _start_manual_check, once the user has confirmed.
StartManual(origin) ==
    IF closing \/ pending # "no" \/ queued # "no"
    THEN UNCHANGED <<check, manual>>
    ELSE /\ waiting' = TRUE
         /\ confirmed' = confirmed + 1
         /\ \/ IsRunning /\ queued' = origin /\ UNCHANGED <<check, pending>>
            \/ ~IsRunning /\ Begin(origin) /\ UNCHANGED queued

\* The idle signal: _start_queued_manual_check.
Idle ==
    /\ idles > 0
    /\ idles' = idles - 1
    /\ queued' = "no"
    /\ \/ queued # "no" /\ ~closing /\ Begin(queued)
       \/ (queued = "no" \/ closing) /\ UNCHANGED <<check, pending>>
    /\ UNCHANGED <<found, waiting, confirmed, checkResults, rest>>

\* handle_finished: the result answers the manual check that is pending.
\* An update found is offered, anything else told; the dialog of options shows
\* the answer itself.  The timer of zero of the idle signal is older than the
\* result of a check started since, and fires first.
HandleFinished ==
    /\ phase = "ended" /\ idles = 0
    /\ phase' = "handled"
    /\ \/ closing /\ UNCHANGED <<manual, checkResults, dialogs>>
       \/ /\ ~closing
          /\ cached' = IF found.source THEN cached ELSE found
          /\ IF pending = "no"
             THEN /\ latest' = IF automatic THEN found ELSE NoResult
                  /\ UNCHANGED <<manual, dialogs>>
             ELSE /\ pending' = "no"
                  /\ waiting' = FALSE
                  /\ latest' = found
                  /\ dialogs' = IF pending = "options" THEN dialogs
                                ELSE <<Shown(found)>> \o dialogs
                  /\ UNCHANGED <<queued, confirmed>>
    /\ UNCHANGED <<sourceAllowed, authorized, sourceChecks, found, idles,
                   automatic, closing, started, inputs, installs>>

-----------------------------------------------------------------------------
(* The user and the window. *)

Input == inputs < MaxInputs /\ inputs' = inputs + 1
InFront(dialog) == dialogs # <<>> /\ Head(dialogs) = dialog

\* The end of start-up, which a refused first-run dialog cuts short.
FinishStartup ==
    /\ ~started /\ started' = TRUE
    /\ \/ Refresh(automatic)
       \/ latest' = NoResult /\ UNCHANGED <<check, found, idles, manual, cached>>
    /\ UNCHANGED <<automatic, dialogs, closing, inputs, installs>>

\* request_manual_check: an update already found is offered again.
RequestFromSidebar ==
    /\ Input /\ ~closing /\ dialogs = <<>>
    /\ dialogs' = IF latest # NoResult /\ latest.status = "update_available"
                  THEN <<Shown(latest)>> ELSE <<<<"consent", "sidebar">>>>
    /\ UNCHANGED <<check, found, idles, manual, checkResults, automatic, closing,
                   started, installs>>

OpenOptions ==
    /\ Input /\ ~closing /\ dialogs = <<>>
    /\ dialogs' = <<<<"options">>>>
    /\ UNCHANGED <<check, found, idles, manual, checkResults, automatic, closing,
                   started, installs>>

\* start_manual_check, from the dialog of options.
RequestFromOptions ==
    /\ InFront(<<"options">>)
    /\ Input
    /\ dialogs' = <<<<"consent", "options">>>> \o dialogs
    /\ UNCHANGED <<check, found, idles, manual, checkResults, automatic, closing,
                   started, installs>>

\* The dialog of consent returns: _confirm_manual_check.
ConfirmCheck(origin) ==
    /\ InFront(<<"consent", origin>>)
    /\ dialogs' = Tail(dialogs)
    /\ StartManual(origin)
    /\ UNCHANGED <<found, idles, checkResults, automatic, closing, started, inputs, installs>>

\* OptionsDialog._apply and MainWindow._apply_preferences.
ApplyPreferences(enabled) ==
    /\ InFront(<<"options">>)
    /\ automatic' = enabled
    /\ dialogs' = Tail(dialogs)
    /\ IF enabled THEN Refresh(enabled)
                  ELSE latest' = NoResult /\ UNCHANGED <<check, found, idles, manual, cached>>
    /\ UNCHANGED <<closing, started, inputs, installs>>

\* A dialog is refused, read, or leads to the page of the release.
Dismiss ==
    /\ dialogs # <<>>
    /\ dialogs' = Tail(dialogs)
    /\ UNCHANGED <<check, found, idles, manual, checkResults, automatic, closing,
                   started, inputs, installs>>

\* The update offered is a revision of the source checkout and is accepted:
\* open_dialog and _start_source_installation.  The installer waits for the
\* end of this process, so the window closes; if it cannot start, a box says so.
Install(result) ==
    /\ InFront(<<"offer", result>>) /\ result.source
    /\ \/ closing /\ dialogs' = Tail(dialogs) /\ UNCHANGED <<closing, installs>>
       \/ /\ ~closing
          /\ \/ dialogs' = Tail(dialogs) /\ closing' = TRUE /\ installs' = installs + 1
             \/ /\ dialogs' = <<<<"note", result>>>> \o Tail(dialogs)
                /\ UNCHANGED <<closing, installs>>
    /\ UNCHANGED <<check, found, idles, manual, checkResults, automatic, started, inputs>>

\* The result kept is a day old, or the local data is cleared.
ForgetCached ==
    /\ Input
    /\ cached # NoResult /\ cached' = NoResult
    /\ UNCHANGED <<check, found, idles, manual, latest, automatic, dialogs,
                   closing, started, installs>>

\* MainWindow.closeEvent, as far as it concerns the checks.
CloseWindow ==
    /\ ~closing /\ dialogs = <<>>
    /\ closing' = TRUE
    /\ UNCHANGED <<check, found, idles, manual, checkResults, automatic, dialogs,
                   started, inputs, installs>>

User ==
    \/ RequestFromSidebar \/ OpenOptions \/ RequestFromOptions
    \/ \E o \in Origins : ConfirmCheck(o)
    \/ \E enabled \in BOOLEAN : ApplyPreferences(enabled)
    \/ Dismiss
    \/ \E r \in Result : Install(r)
    \/ ForgetCached \/ CloseWindow

ChecksNext ==
    \/ WorkerFinishes \/ HandleFinished \/ Cleanup \/ Idle
    \/ FinishStartup \/ User

ChecksSpec == ChecksInit /\ [][ChecksNext]_checkVars

\* The network request has a timeout, and every dialog runs an event loop:
\* only the user owes nothing.
Fairness == WF_checkVars(WorkerFinishes) /\ WF_checkVars(HandleFinished) /\ WF_checkVars(Cleanup) /\ WF_checkVars(Idle)

FairChecksSpec == ChecksSpec /\ Fairness

-----------------------------------------------------------------------------
(* Properties. *)

\* A manual check that was confirmed is answered, queued or not, unless the
\* window closes: the runner always comes back to the queued one, and when an
\* automatic check slipped in before its idle signal, the result of that check
\* at least ends the wait (update_controller.py, _start_queued_manual_check and
\* handle_finished).  That it is answered by a check of its own is
\* ManualHasItsOwnCheck.
ManualIsAnswered == waiting ~> (~waiting \/ closing)

\* "It waits for the end of" an automatic check "and then starts its own; the
\* automatic result is not reused as a manual one" (docs/privacy.md:54-56):
\* what ends the wait of a manual check is the result of a check that was
\* started for it, which is one that may look at the source checkout.
ManualHasItsOwnCheck == [][pending # "no" /\ pending' = "no" => sourceAllowed]_checkVars

\* The source checkout is looked at at most once per confirmation: the
\* authorization is used up by the check it was given for, and no automatic
\* check inherits it (QtUpdateCheckRunner.authorize_source_checkout_once, start).
SourceCheckedOncePerConsent == sourceChecks <= confirmed

\* One installer at most is launched, though offers can be open on top of each
\* other and each goes on with its own when the dialog over it returns
\* (open_dialog, _start_source_installation).
InstallerStartsOnce == installs <= 1

=============================================================================
