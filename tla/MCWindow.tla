------------------------------- MODULE MCWindow -------------------------------
(***************************************************************************)
(* What the window does beside the documents on screen, for TLC, one part  *)
(* per behaviour, for they share no state but the wish for update checks   *)
(* that the start hands over:                                              *)
(*   updates  UpdateChecks, the checks and their dialogs                   *)
(*   start    StartUp, the lock, the files of the launch, the first dialog *)
(*   pages    ReleasePages, the processes behind a check and an open page  *)
(*   none     all at rest, beside another composition (MCApplication)      *)
(***************************************************************************)
EXTENDS UpdateChecks, WellFoundedInduction, TLAPS

CONSTANTS Launches, Profiles, Listings, Installed, MaxRequests, NoPage

Releases == [version : Nat, draft : BOOLEAN, page : {"own", "list", "unfit", "foreign"}]
StatusFiles == [id : Nat, ok : BOOLEAN]

ASSUME StartAssumption ==
  /\ Launches \subseteq Seq({"pdf", "bad"})
  /\ Profiles \subseteq [completed : BOOLEAN, legacy : BOOLEAN, reopen : BOOLEAN]
ASSUME ReleasesAssumption ==
  /\ Installed \in Nat \ {0} /\ MaxRequests \in Nat
  /\ Listings \subseteq Seq(Releases) /\ NoPage \notin Releases \cup StatusFiles

VARIABLES windowAtWork,
  holder, marker, window, profile, given, runner, startAt, valid, invalid, cancelled, timer,
  deferred, dialog, leaving, launchShown, settled,
  pageBacklog, serving, behind, verified, asked, waits, pageTold, request, status, opener, taken,
  accepted, opened, shown, missed, expected, pageLate

startVars ==
  <<holder, marker, window, profile, given, runner, startAt, valid, invalid, cancelled, timer,
    deferred, dialog, leaving, launchShown, settled>>
pageVars ==
  <<pageBacklog, serving, behind, verified, asked, waits, pageTold, request, status, opener, taken,
    accepted, opened, shown, missed, expected, pageLate>>
windowVars == <<windowAtWork, checkVars, startVars, pageVars>>

\* Launches without files, with files that can be opened, and with others among them.
SomeLaunches == {<<>>, <<"pdf">>, <<"bad">>, <<"pdf", "bad", "pdf">>, <<"bad", "pdf">>}
SomeProfiles == [completed : BOOLEAN, legacy : BOOLEAN, reopen : BOOLEAN]

\* Nothing newer, a draft before a newer release, an unreadable version, an address that is
\* not a release page, and the list of releases itself.
Release(version, page) == [version |-> version, draft |-> FALSE, page |-> page]
SomeListings ==
  {<<Release(Installed, "own")>>,
   <<[Release(Installed + 2, "own") EXCEPT !.draft = TRUE], Release(Installed + 1, "own")>>,
   <<Release(0, "own"), Release(Installed + 1, "own")>>,
   <<Release(Installed + 1, "unfit")>>,
   <<Release(Installed + 2, "list")>>}

Launch == INSTANCE StartUp WITH shown <- launchShown, at <- startAt
Browser == INSTANCE ReleasePages WITH
  backlog <- pageBacklog, told <- pageTold, late <- pageLate

AtUpdates == windowAtWork = "updates"
AtStart == windowAtWork = "start"
AtPages == windowAtWork = "pages"

WindowInit ==
  /\ windowAtWork \in {"none", "updates", "start", "pages"}
  /\ ChecksInit /\ (~AtUpdates => cached = NoResult /\ automatic)
  /\ Launch!StartInit
  /\ (~AtStart => ~marker /\ given = <<>> /\ profile = CHOOSE p \in Profiles : TRUE)
  /\ Browser!PagesInit

WindowNext ==
  /\ UNCHANGED windowAtWork
  /\ \/ AtUpdates /\ ChecksNext /\ UNCHANGED <<startVars, pageVars>>
     \/ AtStart /\ Launch!StartNext /\ UNCHANGED <<checkVars, pageVars>>
     \/ AtPages /\ Browser!PagesNext /\ UNCHANGED <<checkVars, startVars>>

\* The fairness of UpdateChecks!FairSpec.
WindowFairness ==
  /\ WF_checkVars(AtUpdates /\ WorkerFinishes) /\ WF_checkVars(AtUpdates /\ HandleFinished)
  /\ WF_checkVars(AtUpdates /\ Cleanup) /\ WF_checkVars(AtUpdates /\ Idle)

WindowSpec == WindowInit /\ [][WindowNext]_windowVars /\ WindowFairness

\* The start happens once and to the end, over a checkout at rest (StartUp).
StartsOnce == Launch!StartsOnce

\* What the window is told of a release page is true (ReleasePages).
AnswersAreTrue == Browser!AnswersAreTrue

-----------------------------------------------------------------------------
(* What the parts of MCWindow keep true for every value of their           *)
(* constants: the update checks under any number of inputs (UpdateChecks), *)
(* the start with any files and settings (StartUp), the release pages with *)
(* any lists of releases and any number of requests (ReleasePages).        *)

\* What a result leads to is a dialog.
LEMMA ShownIsADialog ==
    ASSUME NEW r \in Result PROVE Shown(r) \in Dialog
  BY DEF Shown, Dialog

\* A dialog opened in front, and the one in front closed, leave dialogs.
LEMMA DialogStack ==
    ASSUME NEW d \in Dialog, dialogs \in Seq(Dialog)
    PROVE  /\ <<d>> \in Seq(Dialog)
           /\ <<d>> \o dialogs \in Seq(Dialog)
           /\ dialogs # <<>> => Tail(dialogs) \in Seq(Dialog)
           /\ dialogs # <<>> => <<d>> \o Tail(dialogs) \in Seq(Dialog)
<1>1. <<d>> \in Seq(Dialog)
  OBVIOUS
<1>2. <<d>> \o dialogs \in Seq(Dialog)
  BY <1>1
<1>3. ASSUME dialogs # <<>> PROVE Tail(dialogs) \in Seq(Dialog)
  BY <1>3
<1>4. ASSUME dialogs # <<>> PROVE <<d>> \o Tail(dialogs) \in Seq(Dialog)
  BY <1>1, <1>3, <1>4
<1> QED
  BY <1>1, <1>2, <1>3, <1>4

LEMMA InitTypeOK == ChecksInit => ChecksTypeOK
<1> SUFFICES ASSUME ChecksInit PROVE ChecksTypeOK
  OBVIOUS
<1>1. cached \in MaybeResult
  BY DEF ChecksInit, MaybeResult, Result
<1>2. found \in MaybeResult /\ latest \in MaybeResult
  BY DEF ChecksInit, MaybeResult
<1>3. dialogs \in Seq(Dialog)
  BY DEF ChecksInit
<1>4. /\ phase \in {"idle", "checking", "ended", "handled"}
      /\ sourceAllowed \in BOOLEAN /\ authorized \in BOOLEAN
      /\ phase = "ended" => found # NoResult
      /\ idles \in Nat
  BY DEF ChecksInit
<1>5. /\ pending \in Origins \cup {"no"} /\ queued \in Origins \cup {"no"}
      /\ automatic \in BOOLEAN /\ closing \in BOOLEAN /\ started \in BOOLEAN
  BY DEF ChecksInit
<1>6. inputs \in 0..MaxInputs /\ confirmed \in Nat /\ sourceChecks \in Nat /\ installs \in Nat
  BY InputsAssumption DEF ChecksInit
<1>7. waiting \in BOOLEAN
  BY DEF ChecksInit
<1> QED
  BY <1>1, <1>2, <1>3, <1>4, <1>5, <1>6, <1>7 DEF ChecksTypeOK

LEMMA StepTypeOK == ChecksTypeOK /\ [ChecksNext]_checkVars => ChecksTypeOK'
<1> SUFFICES ASSUME ChecksTypeOK, [ChecksNext]_checkVars PROVE ChecksTypeOK'
  OBVIOUS
<1> USE InputsAssumption DEF ChecksTypeOK
<1>1. CASE WorkerFinishes
  BY <1>1 DEF WorkerFinishes, ResultsOf, MaybeResult, manual, checkResults, rest
<1>2. CASE HandleFinished
  <2>1. found \in Result
    BY <1>2 DEF HandleFinished, MaybeResult
  <2>2. <<Shown(found)>> \o dialogs \in Seq(Dialog)
    BY <2>1, ShownIsADialog, DialogStack
  <2> QED
    BY <1>2, <2>1, <2>2 DEF HandleFinished, MaybeResult, manual, checkResults
<1>3. CASE Cleanup
  BY <1>3 DEF Cleanup, manual, checkResults, rest
<1> DEFINE CheckTyped == /\ phase' \in {"idle", "checking", "ended", "handled"}
                         /\ phase' = "ended" => phase = "ended"
                         /\ sourceAllowed' \in BOOLEAN /\ authorized' \in BOOLEAN
                         /\ sourceChecks' \in Nat
           ManualTyped == /\ pending' \in Origins \cup {"no"}
                          /\ queued' \in Origins \cup {"no"}
                          /\ waiting' \in BOOLEAN
                          /\ confirmed' \in Nat
           KeepsTyped == /\ automatic' \in BOOLEAN /\ started' \in BOOLEAN
                         /\ inputs' \in 0..MaxInputs
                         /\ dialogs' \in Seq(Dialog)
                         /\ UNCHANGED <<closing, installs>>
<1>a. UNCHANGED check => CheckTyped
  <2>1. SUFFICES ASSUME UNCHANGED <<phase, sourceAllowed, authorized, sourceChecks>>
                 PROVE  CheckTyped
    BY DEF check
  <2>2. sourceAllowed' \in BOOLEAN /\ authorized' \in BOOLEAN
    BY <2>1
  <2> QED
    BY <2>1, <2>2
<1>b. ASSUME NEW allowed \in BOOLEAN, Start(allowed) PROVE CheckTyped
  <2>1. sourceAllowed' \in BOOLEAN /\ authorized' \in BOOLEAN
    BY <1>b DEF Start
  <2>2. sourceChecks' \in Nat
    BY <1>b DEF Start
  <2> QED
    BY <1>b, <2>1, <2>2 DEF Start
<1>c. UNCHANGED manual => ManualTyped
  BY DEF manual
<1>d. ASSUME NEW origin \in Origins, Begin(origin)
      PROVE  CheckTyped /\ pending' \in Origins \cup {"no"}
  <2>1. CheckTyped
    BY <1>a, <1>b, <1>d DEF Begin
  <2>2. pending' \in Origins \cup {"no"}
    BY <1>d DEF Begin
  <2> QED
    BY <2>1, <2>2
<1>e. ASSUME CheckTyped, ManualTyped, latest' \in MaybeResult, idles' \in Nat,
             UNCHANGED <<found, cached>>, KeepsTyped
      PROVE  ChecksTypeOK'
  BY <1>e
<1>4. CASE Idle
  <2>1. CheckTyped /\ pending' \in Origins \cup {"no"}
    <3>1. CASE queued # "no" /\ Begin(queued)
      BY <1>d, <3>1
    <3>2. CASE UNCHANGED <<check, pending>>
      BY <1>a, <3>2
    <3> QED
      BY <1>4, <3>1, <3>2 DEF Idle
  <2>2. ManualTyped
    BY <1>4, <2>1 DEF Idle
  <2>3. idles' \in Nat /\ latest' \in MaybeResult /\ UNCHANGED <<found, cached>>
    BY <1>4 DEF Idle, checkResults
  <2>4. KeepsTyped
    BY <1>4 DEF Idle, rest
  <2> QED
    BY <2>1, <2>2, <2>3, <2>4, <1>e
<1>5. ASSUME NEW allowed \in BOOLEAN, Refresh(allowed), KeepsTyped
      PROVE  ChecksTypeOK'
  <2>1. CheckTyped
    BY <1>a, <1>b, <1>5 DEF Refresh
  <2>2. ManualTyped
    BY <1>c, <1>5 DEF Refresh
  <2>3. latest' \in MaybeResult
    BY <1>5 DEF Refresh, MaybeResult
  <2> QED
    BY <1>e, <1>5, <2>1, <2>2, <2>3 DEF Refresh
<1>6. ASSUME UNCHANGED <<check, found, idles, manual, cached>>,
             latest' \in MaybeResult, KeepsTyped
      PROVE  ChecksTypeOK'
  BY <1>a, <1>c, <1>e, <1>6
<1>7. CASE FinishStartup
  <2>1. CASE Refresh(automatic)
    BY <1>5, <1>7, <2>1 DEF FinishStartup
  <2>2. CASE latest' = NoResult /\ UNCHANGED <<check, found, idles, manual, cached>>
    BY <1>6, <1>7, <2>2 DEF FinishStartup, MaybeResult
  <2> QED
    BY <1>7, <2>1, <2>2 DEF FinishStartup
<1>8. Input => inputs' \in 0..MaxInputs
  BY DEF Input
<1>9. CASE RequestFromSidebar
  <2>1. dialogs' \in Seq(Dialog)
    <3>1. CASE latest # NoResult
      BY <1>9, <3>1, ShownIsADialog, DialogStack DEF RequestFromSidebar, MaybeResult, Dialog, Origins
    <3>2. CASE latest = NoResult
      BY <1>9, <3>2 DEF RequestFromSidebar, Dialog, Origins
    <3> QED
      BY <3>1, <3>2
  <2> QED
    BY <1>6, <1>8, <1>9, <2>1 DEF RequestFromSidebar, checkResults
<1>10. CASE OpenOptions
  <2>1. dialogs' \in Seq(Dialog)
    BY <1>10 DEF OpenOptions, Dialog
  <2> QED
    BY <1>6, <1>8, <1>10, <2>1 DEF OpenOptions, checkResults
<1>11. CASE RequestFromOptions
  <2>1. <<"consent", "options">> \in Dialog
    BY DEF Dialog, Origins
  <2>2. dialogs' \in Seq(Dialog)
    BY <1>11, <2>1, DialogStack DEF RequestFromOptions
  <2> QED
    BY <1>6, <1>8, <1>11, <2>2 DEF RequestFromOptions, checkResults
<1>12. ASSUME dialogs # <<>> PROVE Tail(dialogs) \in Seq(Dialog)
  BY <1>12
<1>13. CASE Dismiss
  BY <1>6, <1>12, <1>13 DEF Dismiss, checkResults
<1>14. ASSUME NEW origin \in Origins, ConfirmCheck(origin)
       PROVE  ChecksTypeOK'
  <2>1. KeepsTyped
    BY <1>12, <1>14 DEF ConfirmCheck, InFront
  <2>2. StartManual(origin)
    BY <1>14 DEF ConfirmCheck
  <2>3. CheckTyped
    BY <1>a, <1>d, <2>2 DEF StartManual
  <2>4. ManualTyped
    <3>1. CASE UNCHANGED manual
      BY <1>c, <3>1
    <3>2. CASE waiting' = TRUE /\ confirmed' = confirmed + 1 /\ queued' = origin
               /\ UNCHANGED pending
      BY <3>2
    <3>3. CASE waiting' = TRUE /\ confirmed' = confirmed + 1 /\ Begin(origin)
               /\ UNCHANGED queued
      BY <1>d, <3>3
    <3> QED
      BY <2>2, <3>1, <3>2, <3>3 DEF StartManual
  <2> QED
    BY <1>14, <1>e, <2>1, <2>3, <2>4 DEF ConfirmCheck, checkResults
<1>15. ASSUME NEW enabled \in BOOLEAN, ApplyPreferences(enabled)
       PROVE  ChecksTypeOK'
  <2>1. dialogs' \in Seq(Dialog)
    BY <1>12, <1>15 DEF ApplyPreferences, InFront
  <2>2. CASE Refresh(enabled)
    BY <1>5, <1>15, <2>1, <2>2 DEF ApplyPreferences
  <2>3. CASE latest' = NoResult /\ UNCHANGED <<check, found, idles, manual, cached>>
    BY <1>6, <1>15, <2>1, <2>3 DEF ApplyPreferences, MaybeResult
  <2> QED
    BY <1>15, <2>2, <2>3 DEF ApplyPreferences
<1>16. ASSUME NEW result \in Result, Install(result)
       PROVE  ChecksTypeOK'
  <2>1. <<"note", result>> \in Dialog
    BY DEF Dialog
  <2>2. dialogs' \in Seq(Dialog)
    BY <1>12, <1>16, <2>1, DialogStack DEF Install, InFront
  <2>3. closing' \in BOOLEAN
    BY <1>16 DEF Install
  <2>4. installs' \in Nat
    BY <1>16 DEF Install
  <2>5. UNCHANGED <<check, found, idles, manual, checkResults, automatic, started, inputs>>
    BY <1>16 DEF Install
  <2> QED
    BY <2>2, <2>3, <2>4, <2>5 DEF check, manual, checkResults
<1>17. CASE ForgetCached
  BY <1>8, <1>17 DEF ForgetCached, MaybeResult, check, manual
<1>18. CASE CloseWindow
  BY <1>18 DEF CloseWindow, check, manual, checkResults
<1>19. CASE UNCHANGED checkVars
  BY <1>19 DEF checkVars, check, manual, checkResults, rest
<1> QED
  BY <1>1, <1>2, <1>3, <1>4, <1>7, <1>9, <1>10, <1>11, <1>13, <1>14, <1>15, <1>16,
     <1>17, <1>18, <1>19 DEF ChecksNext, User

\* Every variable keeps its type; the dialogs open are dialogs, whatever was
\* opened over what.
THEOREM Typing == ChecksSpec => []ChecksTypeOK
  BY InitTypeOK, StepTypeOK, PTL DEF ChecksSpec

\* The authorization never outlives the call it was given for, and a manual
\* check in the queue has a confirmation that no check has used; an installer
\* that was launched has closed the window.
IInv ==
    /\ confirmed \in Nat /\ sourceChecks \in Nat /\ installs \in Nat
    /\ authorized = FALSE
    /\ sourceChecks <= confirmed
    /\ queued # "no" => sourceChecks < confirmed
    /\ installs <= 1
    /\ ~closing => installs = 0

LEMMA InitIInv == ChecksInit => IInv
  BY DEF ChecksInit, IInv

LEMMA StepIInv == IInv /\ [ChecksNext]_checkVars => IInv'
<1> SUFFICES ASSUME IInv, [ChecksNext]_checkVars PROVE IInv'
  OBVIOUS
<1> USE DEF IInv
<1>1. CASE WorkerFinishes
  BY <1>1 DEF WorkerFinishes, manual, checkResults, rest
<1>2. CASE HandleFinished
  BY <1>2 DEF HandleFinished, manual
<1>3. CASE Cleanup
  BY <1>3 DEF Cleanup, manual, checkResults, rest
<1>4. CASE Idle
  BY <1>4 DEF Idle, Begin, Start, check, checkResults, rest
<1>5. ASSUME NEW allowed, Refresh(allowed), UNCHANGED <<closing, installs>>
      PROVE  IInv'
  BY <1>5 DEF Refresh, Start, check, manual
<1>6. CASE FinishStartup
  <2>1. CASE Refresh(automatic)
    BY <1>5, <1>6, <2>1 DEF FinishStartup
  <2>2. CASE UNCHANGED <<check, manual>>
    BY <1>6, <2>2 DEF FinishStartup, check, manual
  <2> QED
    BY <1>6, <2>1, <2>2 DEF FinishStartup
<1>7. CASE UNCHANGED <<check, manual, closing, installs>>
  BY <1>7 DEF check, manual
<1>8. CASE RequestFromSidebar \/ OpenOptions \/ RequestFromOptions \/ Dismiss \/ ForgetCached
  BY <1>7, <1>8 DEF RequestFromSidebar, OpenOptions, RequestFromOptions, Dismiss, ForgetCached
<1>9. ASSUME NEW origin \in Origins, ConfirmCheck(origin)
      PROVE  IInv'
  <2>1. UNCHANGED <<closing, installs>> /\ StartManual(origin)
    BY <1>9 DEF ConfirmCheck
  <2>2. CASE UNCHANGED <<check, manual>>
    BY <2>1, <2>2, <1>7
  <2>3. CASE UNCHANGED check /\ confirmed' = confirmed + 1
    BY <2>1, <2>3 DEF check
  <2>4. CASE ~IsRunning /\ Begin(origin) /\ UNCHANGED queued /\ confirmed' = confirmed + 1
             /\ queued = "no"
    BY <2>1, <2>4 DEF Begin, Start, check
  <2> QED
    BY <2>1, <2>2, <2>3, <2>4 DEF StartManual
<1>10. ASSUME NEW enabled \in BOOLEAN, ApplyPreferences(enabled)
       PROVE  IInv'
  <2>1. CASE Refresh(enabled)
    BY <1>5, <1>10, <2>1 DEF ApplyPreferences
  <2>2. CASE UNCHANGED <<check, manual>>
    BY <1>7, <1>10, <2>2 DEF ApplyPreferences
  <2> QED
    BY <1>10, <2>1, <2>2 DEF ApplyPreferences
<1>11. ASSUME NEW result \in Result, Install(result)
       PROVE  IInv'
  BY <1>11 DEF Install, check, manual
<1>12. CASE CloseWindow
  BY <1>12 DEF CloseWindow, check, manual
<1>13. CASE UNCHANGED checkVars
  BY <1>7, <1>13 DEF checkVars, rest
<1> QED
  BY <1>1, <1>2, <1>3, <1>4, <1>6, <1>8, <1>9, <1>10, <1>11, <1>12, <1>13 DEF ChecksNext, User

LEMMA Invariance == ChecksSpec => []IInv
  BY InitIInv, StepIInv, PTL DEF ChecksSpec

\* However many checks are asked for, queued or raised upon, the source checkout
\* is looked at once per confirmation at most (QtUpdateCheckRunner.start).
THEOREM SourceIsConfirmed == ChecksSpec => []SourceCheckedOncePerConsent
<1>1. IInv => SourceCheckedOncePerConsent
  BY DEF IInv, SourceCheckedOncePerConsent
<1> QED
  BY <1>1, Invariance, PTL

\* However the offers are nested, one installer at most is launched
\* (_start_source_installation).
THEOREM OneInstaller == ChecksSpec => []InstallerStartsOnce
<1>1. IInv => InstallerStartsOnce
  BY DEF IInv, InstallerStartsOnce
<1> QED
  BY <1>1, Invariance, PTL

-----------------------------------------------------------------------------
(* The start of the application (StartUp), for any files and settings.      *)
(* What waits for the classification, the timer that was put off included,  *)
(* is one thing that goes from hand to hand until the checks are reached.   *)

StartTypes ==
  /\ holder \in {"none", "application", "updater"} /\ marker \in BOOLEAN
  /\ window \in {"locking", "looking", "unlocked", "open", "refused"}
  /\ profile \in [completed : BOOLEAN, legacy : BOOLEAN, reopen : BOOLEAN]
  /\ given \in Seq({"pdf", "bad"})
  /\ runner \in {"idle", "working", "inspecting", "ended"}
  /\ startAt \in Nat /\ valid \in Seq(Nat) /\ invalid \in Nat
  /\ cancelled \in BOOLEAN /\ timer \in BOOLEAN /\ deferred \in BOOLEAN
  /\ dialog \in BOOLEAN /\ leaving \in BOOLEAN
  /\ settled \in {0, 1}

\* No updater beside an open window, and the lock is held before the marker is looked at.
LockInv ==
  /\ window \in {"looking", "unlocked", "open"} => holder = "application"
  /\ window \in {"unlocked", "open"} => ~marker

\* Before it is open, the window has begun nothing.
NotBegunInv ==
  window # "open" =>
    /\ runner = "idle" /\ valid = <<>> /\ launchShown = <<>> /\ settled = 0
    /\ ~timer /\ ~deferred /\ ~dialog /\ ~leaving /\ ~cancelled

\* The last step of the start waits in one place, and is taken once.
WaitsOnceInv ==
  /\ timer => ~deferred /\ ~dialog /\ settled = 0 /\ ~leaving
  /\ deferred => ~dialog /\ settled = 0
  /\ dialog => settled = 0
  /\ window = "open" /\ ~leaving => timer \/ deferred \/ dialog \/ settled = 1
  /\ deferred /\ ~leaving => runner # "idle"
  /\ cancelled => leaving

\* Of the files before `at`, those that can be opened are known, in order.
ClassifiedInv ==
  /\ runner = "inspecting" => startAt <= Len(given)
  /\ \A i, j \in 1 .. Len(valid) : i < j => valid[i] < valid[j]
  /\ \A i \in 1 .. Len(valid) : valid[i] < startAt /\ valid[i] \in 1 .. Len(given) /\ given[valid[i]] = "pdf"
  /\ window = "open" /\ given # <<>> =>
       \A n \in 1 .. Len(given) : n < startAt /\ given[n] = "pdf" => \E i \in 1 .. Len(valid) : valid[i] = n
  /\ window = "open" => startAt >= 1
  /\ window = "open" /\ runner \in {"ended", "idle"} /\ ~cancelled /\ given # <<>> => startAt > Len(given)

\* What was opened.
ShownInv ==
  /\ runner # "idle" => launchShown = <<>> /\ given # <<>> /\ window = "open"
  /\ window = "open" /\ given # <<>> /\ runner = "idle" /\ ~leaving =>
       launchShown = IF valid = <<>> THEN <<>> ELSE <<valid>>
  /\ \/ launchShown = <<>>
     \/ \E files : launchShown = <<files>>

StartInv ==
  StartTypes /\ LockInv /\ NotBegunInv /\ WaitsOnceInv /\ ClassifiedInv /\ ShownInv

LEMMA StartBegins == WindowInit => StartInv
<1> SUFFICES ASSUME WindowInit PROVE StartInv
  OBVIOUS
<1> USE DEF WindowInit, Launch!StartInit
<1>1. StartTypes
  <2>1. given \in Seq({"pdf", "bad"})
        /\ profile \in [completed : BOOLEAN, legacy : BOOLEAN, reopen : BOOLEAN]
    BY StartAssumption
  <2>2. valid \in Seq(Nat)
    OBVIOUS
  <2> QED
    BY <2>1, <2>2 DEF StartTypes
<1> QED
  BY <1>1 DEF StartInv, LockInv, NotBegunInv, WaitsOnceInv, ClassifiedInv, ShownInv

LEMMA LockSteps ==
  ASSUME StartInv, Launch!Lock \/ Launch!Updater PROVE StartInv'
<1> USE DEF StartInv
<1>1. UNCHANGED <<given, runner, startAt, valid, invalid, cancelled, timer, deferred, dialog, settled, profile,
                  leaving, launchShown>>
  BY DEF Launch!Lock, Launch!Updater, Launch!runnerVars, Launch!setupVars
<1>2. /\ holder' \in {"none", "application", "updater"} /\ marker' \in BOOLEAN
      /\ window' \in {"locking", "looking", "unlocked", "open", "refused"}
      /\ window' = "open" <=> window = "open"
  BY DEF Launch!Lock, Launch!Updater, Launch!LocksTheApplication, StartTypes
<1>3. LockInv'
  BY DEF Launch!Lock, Launch!Updater, Launch!LocksTheApplication, LockInv, StartTypes
<1>4. StartTypes'
  BY <1>1, <1>2 DEF StartTypes
<1>5. NotBegunInv' /\ WaitsOnceInv' /\ ClassifiedInv' /\ ShownInv'
  BY <1>1, <1>2 DEF NotBegunInv, WaitsOnceInv, ClassifiedInv, ShownInv
<1> QED
  BY <1>3, <1>4, <1>5

LEMMA WindowOpens ==
  ASSUME StartInv, Launch!Open PROVE StartInv'
<1> USE DEF StartInv
<1>1. /\ window = "unlocked" /\ window' = "open" /\ timer' = TRUE /\ startAt' = 1
      /\ UNCHANGED <<holder, marker, profile, given, valid, invalid, cancelled, deferred, dialog, leaving, settled>>
      /\ runner = "idle" /\ valid = <<>> /\ launchShown = <<>> /\ settled = 0
      /\ ~deferred /\ ~dialog /\ ~leaving /\ ~cancelled
  BY DEF Launch!Open, Launch!lockVars, NotBegunInv
<1>2. \/ given = <<>> /\ runner' = runner /\ (launchShown' = <<>> \/ launchShown' = <<<<"last">>>>)
      \/ given # <<>> /\ runner' = "working" /\ launchShown' = launchShown
  BY DEF Launch!Open
<1>3. StartTypes'
  BY <1>1, <1>2 DEF StartTypes
<1>4. LockInv' /\ NotBegunInv' /\ WaitsOnceInv'
  BY <1>1, <1>2 DEF LockInv, NotBegunInv, WaitsOnceInv
<1>5. ClassifiedInv' /\ ShownInv'
  BY <1>1, <1>2 DEF ClassifiedInv, ShownInv
<1> QED
  BY <1>3, <1>4, <1>5

LEMMA FileIsTaken ==
  ASSUME StartInv, Launch!TakeNext PROVE StartInv'
<1> USE DEF StartInv
<1>1. /\ runner = "working"
      /\ runner' = IF cancelled \/ startAt > Len(given) THEN "ended" ELSE "inspecting"
      /\ UNCHANGED <<holder, marker, window, profile, given, startAt, valid, invalid, cancelled, timer, deferred,
                     dialog, leaving, settled, launchShown>>
  BY DEF Launch!TakeNext, Launch!lockVars, Launch!setupVars
<1>2. StartTypes' /\ LockInv' /\ NotBegunInv' /\ WaitsOnceInv'
  BY <1>1 DEF StartTypes, LockInv, NotBegunInv, WaitsOnceInv
<1>3. Len(given) \in Nat /\ startAt \in Nat
  BY DEF StartTypes
<1>4. ClassifiedInv' /\ ShownInv'
  BY <1>1, <1>3 DEF ClassifiedInv, ShownInv
<1> QED
  BY <1>2, <1>4

LEMMA FileIsInspected ==
  ASSUME StartInv, Launch!Inspected PROVE StartInv'
<1> USE DEF StartInv
<1>1. /\ runner = "inspecting"
      /\ UNCHANGED <<holder, marker, window, profile, given, cancelled, timer, deferred, dialog, leaving,
                     settled, launchShown>>
  BY DEF Launch!Inspected, Launch!lockVars, Launch!setupVars
<1>2. window = "open" /\ given # <<>> /\ startAt \in Nat /\ Len(given) \in Nat /\ startAt >= 1 /\ startAt <= Len(given)
  BY <1>1 DEF StartTypes, ClassifiedInv, ShownInv
<1>3. LockInv' /\ NotBegunInv' /\ ShownInv'
  BY <1>1, <1>2 DEF Launch!Inspected, LockInv, NotBegunInv, ShownInv
<1>4. WaitsOnceInv'
  BY <1>1 DEF Launch!Inspected, WaitsOnceInv
<1>5. CASE runner' = "working" /\ startAt' = startAt + 1 /\ given[startAt] = "pdf" /\ valid' = Append(valid, startAt) /\ invalid' = invalid
  <2>1. StartTypes'
    BY <1>1, <1>5 DEF StartTypes
  <2>2. /\ Len(valid') = Len(valid) + 1 /\ Len(valid) \in Nat
        /\ valid'[Len(valid) + 1] = startAt /\ \A i \in 1 .. Len(valid) : valid'[i] = valid[i]
    BY <1>5 DEF StartTypes
  <2>3. \A i \in 1 .. Len(valid') : i = Len(valid) + 1 \/ i \in 1 .. Len(valid)
    BY <2>2
  <2>4. \A i \in 1 .. Len(valid') :
          valid'[i] \in Nat /\ valid'[i] < startAt + 1 /\ valid'[i] \in 1 .. Len(given) /\ given[valid'[i]] = "pdf"
    BY <1>2, <1>5, <2>2, <2>3 DEF ClassifiedInv, StartTypes
  <2>5. \A i, j \in 1 .. Len(valid') : i < j => valid'[i] < valid'[j]
    <3> SUFFICES ASSUME NEW i \in 1 .. Len(valid'), NEW j \in 1 .. Len(valid'), i < j
                 PROVE  valid'[i] < valid'[j]
      OBVIOUS
    <3>1. i \in 1 .. Len(valid)
      BY <2>2
    <3>2. CASE j \in 1 .. Len(valid)
      BY <2>2, <3>1, <3>2 DEF ClassifiedInv
    <3>3. CASE j = Len(valid) + 1
      BY <2>2, <3>1, <3>3 DEF ClassifiedInv
    <3> QED
      BY <2>3, <3>2, <3>3
  <2>6. ASSUME NEW n \in 1 .. Len(given), n < startAt + 1, given[n] = "pdf"
        PROVE  \E i \in 1 .. Len(valid') : valid'[i] = n
    <3>1. CASE n < startAt
      BY <1>2, <2>2, <2>6, <3>1 DEF ClassifiedInv
    <3>2. CASE n = startAt
      BY <2>2, <3>2
    <3> QED
      BY <1>2, <2>6, <3>1, <3>2
  <2>7. ClassifiedInv'
    BY <1>1, <1>2, <1>5, <2>4, <2>5, <2>6 DEF ClassifiedInv
  <2> QED
    BY <1>3, <1>4, <2>1, <2>7
<1>6. CASE runner' = "working" /\ startAt' = startAt + 1 /\ given[startAt] # "pdf" /\ valid' = valid /\ invalid' = invalid + 1
  <2>1. StartTypes'
    BY <1>1, <1>6 DEF StartTypes
  <2>2. \A i \in 1 .. Len(valid) : valid[i] \in Nat /\ valid[i] < startAt + 1
    BY <1>2 DEF ClassifiedInv, StartTypes
  <2>3. \A n \in 1 .. Len(given) : n < startAt + 1 /\ given[n] = "pdf" => n < startAt
    BY <1>2, <1>6
  <2>4. ClassifiedInv'
    BY <1>1, <1>2, <1>6, <2>2, <2>3 DEF ClassifiedInv
  <2> QED
    BY <1>3, <1>4, <2>1, <2>4
<1>7. CASE cancelled /\ runner' = "ended" /\ UNCHANGED <<startAt, valid, invalid>>
  BY <1>1, <1>3, <1>4, <1>7 DEF StartTypes, ClassifiedInv
<1> QED
  BY <1>5, <1>6, <1>7 DEF Launch!Inspected

LEMMA ClassificationEnds ==
  ASSUME StartInv, Launch!Cleanup PROVE StartInv'
<1> USE DEF StartInv
<1>1. /\ runner = "ended" /\ runner' = "idle"
      /\ launchShown' = IF leaving \/ cancelled \/ valid = <<>> THEN launchShown ELSE Append(launchShown, valid)
      /\ \/ deferred /\ ~leaving /\ deferred' = FALSE /\ timer' = TRUE
         \/ ~(deferred /\ ~leaving) /\ UNCHANGED <<deferred, timer>>
      /\ UNCHANGED <<holder, marker, window, profile, given, startAt, valid, invalid, cancelled, dialog, leaving, settled>>
  BY DEF Launch!Cleanup, Launch!lockVars
<1>2. launchShown = <<>> /\ given # <<>> /\ window = "open"
  BY <1>1 DEF ShownInv
<1>3. Append(<<>>, valid) = <<valid>>
  OBVIOUS
<1>4. StartTypes' /\ LockInv' /\ NotBegunInv'
  BY <1>1, <1>2 DEF StartTypes, LockInv, NotBegunInv
<1>5. WaitsOnceInv'
  BY <1>1 DEF WaitsOnceInv, StartTypes
<1>6. ClassifiedInv'
  BY <1>1 DEF ClassifiedInv
<1>7. launchShown' = IF leaving \/ cancelled \/ valid = <<>> THEN <<>> ELSE <<valid>>
  BY <1>1, <1>2, <1>3
<1>8. ShownInv'
  BY <1>1, <1>7 DEF ShownInv, WaitsOnceInv
<1> QED
  BY <1>4, <1>5, <1>6, <1>8

LEMMA StartIsFinished ==
  ASSUME StartInv, Launch!TimerFires \/ Launch!DialogEnds PROVE StartInv'
<1> USE DEF StartInv
<1>1. UNCHANGED <<holder, marker, window, given, runner, startAt, valid, invalid, cancelled, leaving, launchShown>>
  BY DEF Launch!TimerFires, Launch!DialogEnds, Launch!lockVars, Launch!runnerVars
<1>2. /\ profile' \in [completed : BOOLEAN, legacy : BOOLEAN, reopen : BOOLEAN]
      /\ \/ timer /\ ~timer' /\ runner # "idle" /\ deferred' = TRUE /\ UNCHANGED <<dialog, settled>>
         \/ timer /\ ~timer' /\ deferred' = deferred /\ settled' = settled + 1 /\ dialog' = dialog
         \/ timer /\ ~timer' /\ deferred' = deferred /\ settled' = settled /\ dialog' = TRUE
         \/ dialog /\ ~dialog' /\ settled' = settled + 1 /\ UNCHANGED <<timer, deferred>>
  <2>1. CASE Launch!DialogEnds
    BY <2>1 DEF Launch!DialogEnds, StartTypes
  <2>2. CASE Launch!TimerFires /\ runner # "idle"
    BY <2>2 DEF Launch!TimerFires, StartTypes
  <2>3. CASE Launch!TimerFires /\ runner = "idle"
    <3>1. ~leaving
      BY <2>3 DEF Launch!TimerFires, WaitsOnceInv
    <3> DEFINE known == profile.completed \/ profile.legacy
    <3>2. known \in BOOLEAN
      BY DEF StartTypes
    <3>3. profile' = [profile EXCEPT !.completed = known]
          /\ IF known THEN settled' = settled + 1 /\ UNCHANGED dialog ELSE dialog' = TRUE /\ UNCHANGED settled
      BY <2>3, <3>1 DEF Launch!TimerFires, Launch!FinishStartup
    <3>4. timer /\ timer' = FALSE /\ deferred' = deferred
      BY <2>3 DEF Launch!TimerFires
    <3> HIDE DEF known
    <3>5. profile' \in [completed : BOOLEAN, legacy : BOOLEAN, reopen : BOOLEAN]
      BY <3>2, <3>3 DEF StartTypes
    <3> QED
      BY <3>3, <3>4, <3>5
  <2> QED
    BY <2>1, <2>2, <2>3
<1>3. StartTypes'
  <2>1. settled \in {0, 1} /\ (timer => settled = 0) /\ (dialog => settled = 0)
    BY DEF StartTypes, WaitsOnceInv
  <2>2. settled' \in {0, 1}
    BY <1>2, <2>1
  <2>3. timer' \in BOOLEAN /\ deferred' \in BOOLEAN /\ dialog' \in BOOLEAN
    BY DEF Launch!TimerFires, Launch!DialogEnds, Launch!FinishStartup, StartTypes
  <2> QED
    BY <1>1, <1>2, <2>2, <2>3 DEF StartTypes
<1>4. LockInv' /\ NotBegunInv' /\ ClassifiedInv' /\ ShownInv'
  BY <1>1, <1>2 DEF LockInv, NotBegunInv, ClassifiedInv, ShownInv
<1>5. WaitsOnceInv'
  BY <1>1, <1>2, <1>3 DEF WaitsOnceInv, StartTypes
<1> QED
  BY <1>3, <1>4, <1>5

LEMMA WindowLeaves ==
  ASSUME StartInv, Launch!Leave PROVE StartInv'
<1> USE DEF StartInv
<1>1. /\ window = "open" /\ leaving' = TRUE /\ timer' = FALSE /\ cancelled' = (cancelled \/ runner # "idle")
      /\ UNCHANGED <<holder, marker, window, profile, given, runner, startAt, valid, invalid, deferred, dialog, launchShown,
                     settled>>
  BY DEF Launch!Leave, Launch!lockVars
<1>2. StartTypes' /\ LockInv' /\ NotBegunInv' /\ ShownInv'
  BY <1>1 DEF StartTypes, LockInv, NotBegunInv, ShownInv
<1>3. WaitsOnceInv' /\ ClassifiedInv'
  BY <1>1 DEF WaitsOnceInv, ClassifiedInv, StartTypes
<1> QED
  BY <1>2, <1>3

LEMMA StartSteps == StartInv /\ [Launch!StartNext]_startVars => StartInv'
<1>1. StartInv /\ UNCHANGED startVars => StartInv'
  BY DEF startVars, StartInv, StartTypes, LockInv, NotBegunInv, WaitsOnceInv, ClassifiedInv, ShownInv
<1> QED
  BY <1>1, LockSteps, WindowOpens, FileIsTaken, FileIsInspected, ClassificationEnds, StartIsFinished, WindowLeaves
     DEF Launch!StartNext

(* Whatever files the application is started with and in whatever order the *)
(* timer, the classification, the dialog and the closing come: the last     *)
(* step of the start is taken once, the files that can be opened are opened *)
(* once, all and in order, and no window is open beside an updater          *)
(* (StartupCoordinator, QtInitialDocumentClassificationRunner, run_app).    *)
THEOREM StartsOnceHolds == WindowSpec => []StartsOnce
<1>1. StartInv /\ [WindowNext]_windowVars => StartInv'
  <2>1. [WindowNext]_windowVars => [Launch!StartNext]_startVars
    BY DEF WindowNext, windowVars
  <2> QED
    BY <2>1, StartSteps
<1>2. StartInv => StartsOnce
  <2> SUFFICES ASSUME StartInv PROVE StartsOnce
    OBVIOUS
  <2> USE DEF StartInv
  <2>1. settled <= 1 /\ (window = "open" => holder # "updater" /\ ~marker)
    BY DEF StartTypes, LockInv
  <2>2. Launch!AtRest => settled = 1
    BY DEF Launch!AtRest, WaitsOnceInv, StartTypes
  <2>3. Len(launchShown) <= 1
    <3>1. CASE launchShown = <<>>
      BY <3>1
    <3>2. ASSUME NEW files, launchShown = <<files>>
          PROVE  Len(launchShown) <= 1
      BY <3>2
    <3> QED
      BY <3>1, <3>2 DEF ShownInv
  <2>4. ASSUME Launch!AtRest, Launch!Openable # {}
        PROVE  /\ Len(launchShown) = 1 /\ Launch!InOrder(launchShown[1])
               /\ {launchShown[1][i] : i \in DOMAIN launchShown[1]} = Launch!Openable
    <3>1. given # <<>> /\ Len(given) \in Nat /\ DOMAIN given = 1 .. Len(given)
          /\ DOMAIN valid = 1 .. Len(valid)
      BY <2>4 DEF Launch!Openable, StartTypes
    <3>2. startAt > Len(given) /\ startAt \in Nat /\ launchShown = IF valid = <<>> THEN <<>> ELSE <<valid>>
      BY <2>4, <3>1 DEF Launch!AtRest, ClassifiedInv, ShownInv, WaitsOnceInv, StartTypes
    <3>3. \A n \in Launch!Openable : \E i \in DOMAIN valid : valid[i] = n
      <4>1. window = "open"
        BY <2>4 DEF Launch!AtRest
      <4> SUFFICES ASSUME NEW n \in 1 .. Len(given), given[n] = "pdf"
                   PROVE  \E i \in DOMAIN valid : valid[i] = n
        BY <3>1 DEF Launch!Openable
      <4>2. n < startAt
        BY <3>1, <3>2
      <4>3. \E i \in 1 .. Len(valid) : valid[i] = n
        BY <3>1, <4>1, <4>2 DEF ClassifiedInv
      <4> QED
        BY <3>1, <4>3
    <3>4. \A i \in DOMAIN valid : valid[i] \in Launch!Openable
      BY <3>1 DEF Launch!Openable, ClassifiedInv
    <3>5. valid # <<>>
      BY <2>4, <3>3
    <3>6. launchShown = <<valid>> /\ Len(launchShown) = 1 /\ launchShown[1] = valid
      BY <3>2, <3>5
    <3>7. Launch!InOrder(valid)
      BY <3>1 DEF Launch!InOrder, ClassifiedInv
    <3>8. {valid[i] : i \in DOMAIN valid} = Launch!Openable
      BY <3>3, <3>4
    <3> QED
      BY <3>6, <3>7, <3>8
  <2> QED
    BY <2>1, <2>2, <2>3, <2>4 DEF StartsOnce, Launch!StartsOnce
<1> QED
  BY <1>1, <1>2, StartBegins, PTL DEF WindowSpec

-----------------------------------------------------------------------------
(* The release pages (ReleasePages), for any lists of releases and any      *)
(* number of requests.  The requests are served in the order they were      *)
(* made, so all that lies in the two files belongs to the one being served. *)

Queued == {pageBacklog[i] : i \in 1 .. Len(pageBacklog)}
IsCheck(id) == asked[id] = "check"

Newer == {release \in Releases : release.version > Installed}
Requests == [id : Nat, page : Newer, whole : BOOLEAN]

PageTypes ==
  /\ pageBacklog \in Seq(Nat) /\ asked \in Seq({"check", "open"})
  /\ serving \in {"idle", "checking", "asking", "waiting"}
  /\ opener \in {"idle", "taken", "opened"}
  /\ accepted \in BOOLEAN /\ pageLate \in BOOLEAN /\ missed \in BOOLEAN
  /\ verified \in Newer \cup {NoPage}
  /\ status = NoPage \/ status.ok \in BOOLEAN

\* The queue of the socket, what was told and what was opened are of requests that were made.
QueueInv ==
  /\ \A i, j \in 1 .. Len(pageBacklog) : i < j => pageBacklog[i] < pageBacklog[j]
  /\ Queued \subseteq 1 .. Len(asked)
  /\ waits \subseteq Queued
  /\ \A id \in Queued : id # Browser!Present => id \in behind
  /\ serving # "idle" => pageBacklog # <<>> /\ (serving = "checking" <=> IsCheck(Browser!Present))

\* The window shows the page of the last check, unless it gave one up, and the checks it
\* still waits for are the last ones.
ChecksInv ==
  /\ ~missed => verified = shown /\ \A id \in Queued : IsCheck(id) => id \in waits
  /\ \A id \in waits : IsCheck(id) => \A other \in Queued : IsCheck(other) => other <= id

\* A request made with no check under way finds the page the window shows.
ExpectedInv ==
  /\ DOMAIN expected \subseteq 1 .. Len(asked)
  /\ \A id \in DOMAIN expected \cap Queued :
       verified = expected[id] /\ \A other \in Queued : IsCheck(other) => id < other

\* The request file, the opener and the status file, one after the other, work on the request
\* being served.
FilesInv ==
  /\ request # NoPage =>
       /\ serving = "waiting" /\ status = NoPage /\ opener # "opened"
       /\ request \in Requests /\ request.id = Browser!Present /\ request.page = verified
  /\ opener # "idle" =>
       /\ serving = "waiting" /\ status = NoPage
       /\ taken.id = Browser!Present /\ (taken.page # NoPage => taken.page = verified)
  /\ opener = "opened" => request = NoPage /\ (accepted <=> Browser!OpenedFor(Browser!Present))
  /\ status # NoPage =>
       /\ serving = "waiting" /\ opener = "idle" /\ request = NoPage
       /\ status.ok <=> Browser!OpenedFor(Browser!Present)

\* A page handed to the desktop: what the broker is about to say of it, and what was said.
OpenedInv ==
  /\ \A o \in opened :
       /\ o.id \in 1 .. Len(asked) /\ o.page \in Newer
       /\ o.id \in Queued =>
            /\ o.id = Browser!Present /\ serving = "waiting"
            /\ (opener = "opened" /\ accepted) \/ status # NoPage
       /\ o.id \in DOMAIN expected => o.page = expected[o.id]
       /\ o.id \in DOMAIN pageTold => pageTold[o.id] \/ o.id \in behind
  /\ DOMAIN pageTold \subseteq 1 .. Len(asked)
  /\ \A id \in DOMAIN pageTold :
       /\ ~IsCheck(id) /\ id \in Queued => id \in behind
       /\ ~IsCheck(id) /\ pageTold[id] => Browser!OpenedFor(id)

PagesInv ==
  /\ PageTypes /\ QueueInv /\ ChecksInv /\ ExpectedInv
  /\ ~pageLate => FilesInv /\ OpenedInv

-----------------------------------------------------------------------------
(* A set of numbers has a least one.                                        *)
LEMMA LessOnNat ==
  \E less : IsWellFoundedOn(less, Nat) /\ \A k, m \in Nat : <<k, m>> \in less <=> k < m
<1>1. \A k, m \in Nat : (<<k, m>> \in OpToRel(<, Nat)) <=> k < m
  BY Zenon DEF OpToRel
<1> QED
  BY <1>1, NatLessThanWellFounded, Zenon

LEMMA Least ==
  ASSUME NEW S, S \subseteq Nat, S # {}
  PROVE \E m \in S : \A k \in S : m <= k
<1>1. PICK less : IsWellFoundedOn(less, Nat) /\ \A k, m \in Nat : <<k, m>> \in less <=> k < m
  BY LessOnNat, Zenon
<1>2. IsWellFoundedOn(less, Nat)
  BY <1>1
<1>3. PICK m \in S : \A k \in S : ~ (<<k, m>> \in less)
  BY <1>2, WFMin
<1>4. ASSUME NEW k \in S
      PROVE  m <= k
  <2>1. <<k, m>> \in less <=> k < m
    BY <1>1, Zenon
  <2>2. <<k, m>> \notin less
    BY <1>3, Zenon
  <2>3. ~(k < m)
    BY <2>1, <2>2, Zenon
  <2> QED
    BY <2>3
<1> QED
  BY <1>4

\* What a check may find is the page of a newer release.
LEMMA PageIsNewer ==
  ASSUME NEW listing \in Listings
  PROVE  Browser!PageOf(listing) \in Newer \cup {NoPage}
<1> DEFINE published == Browser!Published(listing)
           least == CHOOSE i \in published : \A j \in published : i <= j
<1>1. listing \in Seq(Releases)
  BY ReleasesAssumption
<1>2. CASE published = {}
  BY <1>2 DEF Browser!PageOf, Browser!FoundIn
<1>3. CASE published # {}
  <2>1. published \subseteq DOMAIN listing /\ published \subseteq Nat
    BY <1>1 DEF Browser!Published
  <2> HIDE DEF published
  <2>2. \E i \in published : \A j \in published : i <= j
    BY <1>3, <2>1, Least
  <2>3. least \in published
    BY <2>2
  <2> HIDE DEF least
  <2>4. listing[least] \in Releases
    BY <1>1, <2>1, <2>3
  <2>5. Browser!Selected(listing) = listing[least]
    BY DEF Browser!Selected, least, published
  <2> DEFINE first == listing[least]
  <2>6. first \in Releases /\ first.version \in Nat /\ Installed \in Nat
    BY <2>4, ReleasesAssumption DEF Releases
  <2>7. Browser!PageOf(listing) = NoPage \/ (Browser!PageOf(listing) = first /\ ~(first.version < Installed) /\ first.version # Installed)
    <3> HIDE DEF first
    <3>1. Browser!Selected(listing) = first
      BY <2>5 DEF first
    <3> QED
      BY <3>1 DEF Browser!PageOf, Browser!FoundIn
  <2> HIDE DEF first
  <2> QED
    BY <2>6, <2>7 DEF Newer
<1> QED
  BY <1>2, <1>3

\* The request answered leaves the queue, and the one made joins it at its end.
LEMMA QueueMovesOn ==
  ASSUME PageTypes, QueueInv, pageBacklog # <<>>, pageBacklog' = Tail(pageBacklog)
  PROVE  /\ Browser!Present \in Queued /\ Queued' = Queued \ {Browser!Present}
         /\ \A id \in Queued' : Browser!Present < id
         /\ \A i, j \in 1 .. Len(pageBacklog') : i < j => pageBacklog'[i] < pageBacklog'[j]
         /\ pageBacklog' \in Seq(Nat)
<1>1. /\ Len(pageBacklog) \in Nat /\ Len(pageBacklog) >= 1 /\ Browser!Present = pageBacklog[1]
      /\ Len(pageBacklog') = Len(pageBacklog) - 1 /\ pageBacklog' \in Seq(Nat)
      /\ \A i \in 1 .. Len(pageBacklog) : pageBacklog[i] \in Nat
  BY DEF PageTypes, Browser!Present
<1>2. \A i \in 1 .. Len(pageBacklog') : pageBacklog'[i] = pageBacklog[i + 1]
  BY <1>1 DEF PageTypes
<1>3. \A i, j \in 1 .. Len(pageBacklog) : i < j => pageBacklog[i] < pageBacklog[j]
  BY DEF QueueInv
<1>4. ASSUME NEW i \in 1 .. Len(pageBacklog'), NEW j \in 1 .. Len(pageBacklog'), i < j
      PROVE  pageBacklog'[i] < pageBacklog'[j]
  <2>1. i + 1 \in 1 .. Len(pageBacklog) /\ j + 1 \in 1 .. Len(pageBacklog) /\ i + 1 < j + 1
    BY <1>1, <1>4
  <2> QED
    BY <1>2, <1>3, <2>1
<1>5. \A i \in 1 .. Len(pageBacklog') : pageBacklog'[i] \in Queued /\ pageBacklog[1] < pageBacklog'[i]
  <2> SUFFICES ASSUME NEW i \in 1 .. Len(pageBacklog') PROVE pageBacklog'[i] \in Queued /\ pageBacklog[1] < pageBacklog'[i]
    OBVIOUS
  <2>1. i + 1 \in 1 .. Len(pageBacklog) /\ 1 < i + 1 /\ 1 \in 1 .. Len(pageBacklog)
    BY <1>1
  <2> QED
    BY <1>2, <1>3, <2>1 DEF Queued
<1>6. \A id \in Queued \ {pageBacklog[1]} : id \in Queued'
  <2> SUFFICES ASSUME NEW i \in 1 .. Len(pageBacklog), pageBacklog[i] # pageBacklog[1] PROVE pageBacklog[i] \in Queued'
    BY DEF Queued
  <2>1. i - 1 \in 1 .. Len(pageBacklog') /\ (i - 1) + 1 = i
    BY <1>1
  <2>2. pageBacklog'[i - 1] = pageBacklog[i]
    BY <1>2, <2>1
  <2> QED
    BY <2>1, <2>2 DEF Queued
<1>7. pageBacklog[1] \in Queued
  BY <1>1 DEF Queued
<1>8. \A id \in Queued' : id \in Queued /\ pageBacklog[1] < id /\ id # pageBacklog[1]
  <2> SUFFICES ASSUME NEW i \in 1 .. Len(pageBacklog')
               PROVE  pageBacklog'[i] \in Queued /\ pageBacklog[1] < pageBacklog'[i] /\ pageBacklog'[i] # pageBacklog[1]
    BY DEF Queued
  <2>1. pageBacklog'[i] \in Nat /\ pageBacklog[1] \in Nat
    BY <1>1
  <2> QED
    BY <1>5, <2>1
<1> QED
  BY <1>1, <1>4, <1>6, <1>7, <1>8

LEMMA QueueGrows ==
  ASSUME PageTypes, QueueInv, pageBacklog' = Append(pageBacklog, Len(asked) + 1)
  PROVE  /\ Queued' = Queued \cup {Len(asked) + 1} /\ Len(asked) + 1 \notin Queued
         /\ \A i, j \in 1 .. Len(pageBacklog') : i < j => pageBacklog'[i] < pageBacklog'[j]
         /\ pageBacklog' \in Seq(Nat) /\ pageBacklog' # <<>>
         /\ Browser!Present' = IF pageBacklog = <<>> THEN Len(asked) + 1 ELSE Browser!Present
         /\ \A id \in Queued : id < Len(asked) + 1
<1> DEFINE id == Len(asked) + 1
<1>1. /\ Len(asked) \in Nat /\ id \in Nat /\ Len(pageBacklog) \in Nat
      /\ pageBacklog' \in Seq(Nat) /\ Len(pageBacklog') = Len(pageBacklog) + 1
      /\ pageBacklog'[Len(pageBacklog) + 1] = id
      /\ \A i \in 1 .. Len(pageBacklog) : pageBacklog'[i] = pageBacklog[i]
  BY DEF PageTypes
<1>2. \A n \in Queued : n < id /\ n # id
  BY <1>1 DEF QueueInv
<1> HIDE DEF id
<1>3. \A i \in 1 .. Len(pageBacklog') : i = Len(pageBacklog) + 1 \/ i \in 1 .. Len(pageBacklog)
  BY <1>1
<1>4. \A i \in 1 .. Len(pageBacklog) : pageBacklog[i] \in Queued
  BY DEF Queued
<1>5. ASSUME NEW i \in 1 .. Len(pageBacklog'), NEW j \in 1 .. Len(pageBacklog'), i < j
      PROVE  pageBacklog'[i] < pageBacklog'[j]
  <2>1. i \in 1 .. Len(pageBacklog)
    BY <1>1, <1>5
  <2>2. CASE j \in 1 .. Len(pageBacklog)
    BY <1>1, <1>5, <2>1, <2>2 DEF QueueInv
  <2>3. CASE j = Len(pageBacklog) + 1
    BY <1>1, <1>2, <1>4, <2>1, <2>3
  <2> QED
    BY <1>3, <2>2, <2>3
<1>6. Queued' = Queued \cup {id}
  <2>1. \A i \in 1 .. Len(pageBacklog') : pageBacklog'[i] \in Queued \cup {id}
    BY <1>1, <1>3, <1>4
  <2>2. \A i \in 1 .. Len(pageBacklog) : pageBacklog[i] \in Queued'
    BY <1>1 DEF Queued
  <2>3. id \in Queued'
    BY <1>1 DEF Queued
  <2> QED
    BY <2>1, <2>2, <2>3 DEF Queued
<1>7. pageBacklog' # <<>> /\ Browser!Present' = IF pageBacklog = <<>> THEN id ELSE Browser!Present
  <2>1. pageBacklog' # <<>> /\ Browser!Present' = pageBacklog'[1]
    BY <1>1 DEF Browser!Present
  <2>2. CASE pageBacklog = <<>>
    BY <1>1, <2>1, <2>2
  <2>3. CASE pageBacklog # <<>>
    <3>1. Browser!Present = pageBacklog[1] /\ 1 \in 1 .. Len(pageBacklog)
      BY <2>3 DEF Browser!Present, PageTypes
    <3> QED
      BY <1>1, <2>1, <2>3, <3>1
  <2> QED
    BY <2>2, <2>3
<1> QED
  BY <1>1, <1>2, <1>5, <1>6, <1>7 DEF id

LEMMA PagesBegin == WindowInit => PagesInv
<1> SUFFICES ASSUME WindowInit PROVE PagesInv
  OBVIOUS
<1> USE DEF WindowInit, Browser!PagesInit
<1>1. PageTypes
  <2>1. pageBacklog \in Seq(Nat) /\ asked \in Seq({"check", "open"})
    OBVIOUS
  <2> QED
    BY <2>1 DEF PageTypes
<1>2. Queued = {} /\ DOMAIN pageTold = {} /\ DOMAIN expected = {}
  BY DEF Queued
<1>3. QueueInv /\ ChecksInv /\ ExpectedInv
  BY <1>2 DEF QueueInv, ChecksInv, ExpectedInv
<1>4. FilesInv /\ OpenedInv
  BY <1>2 DEF FilesInv, OpenedInv
<1> QED
  BY <1>1, <1>3, <1>4 DEF PagesInv

\* What a step that makes no request and answers none leaves as it is.
QueueStands == UNCHANGED <<pageBacklog, asked, behind, expected>>

LEMMA QueueStandsStill ==
  ASSUME QueueStands
  PROVE  /\ Queued' = Queued /\ Browser!Present' = Browser!Present
         /\ \A id : IsCheck(id)' = IsCheck(id)
  BY DEF QueueStands, Queued, Browser!Present, IsCheck

LEMMA RequestIsMade ==
  ASSUME PagesInv, NEW action \in {"check", "open"}, Browser!Ask(action) PROVE PagesInv'
<1> USE DEF PagesInv
<1>0. PICK id : id = Len(asked) + 1
  OBVIOUS
<1>1. /\ ~Browser!Waiting(action) /\ asked' = Append(asked, action) /\ pageBacklog' = Append(pageBacklog, id)
      /\ waits' = waits \cup {id}
      /\ behind' = IF pageBacklog = <<>> THEN behind ELSE behind \cup {id}
      /\ UNCHANGED <<serving, verified, pageTold, shown, missed, request, status, opener, taken, accepted, opened, pageLate>>
  BY <1>0 DEF Browser!Ask, Browser!windowVars, Browser!fileVars, Browser!openerVars
<1>2. expected' = IF action = "check" \/ missed \/ Browser!Waiting("check") THEN expected
                  ELSE Browser!With(expected, id, shown)
  BY <1>0 DEF Browser!Ask
<1>3. /\ Len(asked) \in Nat /\ id \in Nat /\ asked' \in Seq({"check", "open"}) /\ Len(asked') = id
      /\ asked'[id] = action /\ \A n \in 1 .. Len(asked) : asked'[n] = asked[n]
  BY <1>0, <1>1 DEF PageTypes
<1>4. /\ Queued' = Queued \cup {id} /\ id \notin Queued
      /\ \A i, j \in 1 .. Len(pageBacklog') : i < j => pageBacklog'[i] < pageBacklog'[j]
      /\ pageBacklog' \in Seq(Nat) /\ pageBacklog' # <<>>
      /\ Browser!Present' = IF pageBacklog = <<>> THEN id ELSE Browser!Present
      /\ \A n \in Queued : n < id
  BY <1>0, <1>1, QueueGrows
<1>5. /\ Queued \subseteq 1 .. Len(asked) /\ waits \subseteq Queued
      /\ \A n \in Queued : n \in Nat /\ IsCheck(n)' = IsCheck(n)
      /\ \A n \in 1 .. Len(asked) : n # id /\ n \in 1 .. id /\ IsCheck(n)' = IsCheck(n)
      /\ (IsCheck(id)' <=> action = "check")
      /\ id \in 1 .. Len(asked') /\ 1 .. Len(asked) \subseteq 1 .. Len(asked')
  <2>1. Queued \subseteq 1 .. Len(asked) /\ waits \subseteq Queued
    BY DEF QueueInv
  <2>2. \A n \in 1 .. Len(asked) : n \in Nat /\ n # id /\ n \in 1 .. id
    BY <1>0, <1>3
  <2>3. \A n \in 1 .. Len(asked) : IsCheck(n)' = IsCheck(n)
    BY <1>0, <1>3 DEF IsCheck
  <2>4. IsCheck(id)' <=> action = "check"
    BY <1>0, <1>3 DEF IsCheck
  <2>5. id \in 1 .. Len(asked') /\ 1 .. Len(asked) \subseteq 1 .. Len(asked')
    BY <1>0, <1>3
  <2> QED
    BY <2>1, <2>2, <2>3, <2>4, <2>5
<1>6. PageTypes'
  BY <1>1, <1>3, <1>4 DEF PageTypes
<1>7. QueueInv'
  <2>1. Queued' \subseteq 1 .. Len(asked')
    BY <1>3, <1>4, <1>5
  <2>2. ASSUME NEW n \in Queued', n # Browser!Present'
        PROVE  n \in behind'
    <3>1. CASE pageBacklog = <<>>
      <4>1. Queued = {}
        BY <3>1 DEF Queued
      <4> QED
        BY <1>4, <2>2, <3>1, <4>1
    <3>2. CASE pageBacklog # <<>>
      BY <1>1, <1>4, <2>2, <3>2 DEF QueueInv
    <3> QED
      BY <3>1, <3>2
  <2>3. serving # "idle" => pageBacklog # <<>> /\ Browser!Present \in Queued
    <3>1. pageBacklog # <<>> => 1 \in 1 .. Len(pageBacklog) /\ Browser!Present = pageBacklog[1]
      BY DEF PageTypes, Browser!Present
    <3> QED
      BY <3>1 DEF QueueInv, Queued
  <2>4. serving' # "idle" => pageBacklog' # <<>> /\ (serving' = "checking" <=> IsCheck(Browser!Present)')
    BY <1>1, <1>4, <1>5, <2>3 DEF QueueInv, IsCheck
  <2> QED
    BY <1>1, <1>4, <1>5, <2>1, <2>2, <2>4 DEF QueueInv
<1>8. ChecksInv'
  <2>1. ~missed' => verified' = shown' /\ \A n \in Queued' : IsCheck(n)' => n \in waits'
    BY <1>1, <1>4, <1>5 DEF ChecksInv
  <2>2. ASSUME NEW n \in waits', IsCheck(n)', NEW other \in Queued', IsCheck(other)'
        PROVE  other <= n
    <3>1. CASE n = id
      BY <1>3, <1>4, <1>5, <2>2, <3>1
    <3>2. CASE n # id
      <4>1. n \in waits /\ IsCheck(n)
        BY <1>1, <1>5, <2>2, <3>2
      <4>2. action # "check"
        BY <1>1, <4>1 DEF Browser!Waiting, IsCheck
      <4>3. other \in Queued /\ IsCheck(other)
        <5>1. other # id
          BY <1>5, <2>2, <4>2
        <5>2. other \in Queued
          BY <1>4, <2>2, <5>1
        <5> QED
          BY <1>5, <2>2, <5>2
      <4> QED
        BY <4>1, <4>3 DEF ChecksInv
    <3> QED
      BY <3>1, <3>2
  <2> QED
    BY <2>1, <2>2 DEF ChecksInv
<1>9. DOMAIN expected' \subseteq DOMAIN expected \cup {id}
      /\ \A n \in DOMAIN expected : n # id => n \in DOMAIN expected' /\ expected'[n] = expected[n]
      /\ (id \in DOMAIN expected' => expected' = Browser!With(expected, id, shown))
  <2>1. id \notin DOMAIN expected
    BY <1>5 DEF ExpectedInv
  <2> QED
    BY <1>2, <2>1 DEF Browser!With
<1>10. ExpectedInv'
  <2>1. DOMAIN expected' \subseteq 1 .. Len(asked')
    BY <1>5, <1>9 DEF ExpectedInv
  <2>2. ASSUME NEW n \in DOMAIN expected' \cap Queued'
        PROVE  verified' = expected'[n] /\ \A other \in Queued' : IsCheck(other)' => n < other
    <3>1. CASE n = id
      <4>1. action # "check" /\ ~missed /\ ~Browser!Waiting("check") /\ expected'[n] = shown
        <5>1. id \notin DOMAIN expected /\ id \in DOMAIN expected'
          BY <1>5, <2>2, <3>1 DEF ExpectedInv
        <5>2. expected' # expected
          <6> SUFFICES ASSUME expected' = expected PROVE FALSE
            OBVIOUS
          <6> QED
            BY <5>1
        <5> QED
          BY <1>2, <3>1, <5>1, <5>2 DEF Browser!With
      <4>2. verified = shown /\ \A other \in Queued : ~IsCheck(other)
        BY <4>1 DEF ChecksInv, Browser!Waiting, IsCheck
      <4> QED
        BY <1>1, <1>4, <1>5, <4>1, <4>2
    <3>2. CASE n # id
      <4>1. n \in DOMAIN expected \cap Queued /\ expected'[n] = expected[n]
        BY <1>4, <1>9, <2>2, <3>2
      <4>2. verified = expected[n] /\ \A other \in Queued : IsCheck(other) => n < other
        BY <4>1 DEF ExpectedInv
      <4> QED
        BY <1>1, <1>4, <1>5, <4>1, <4>2
    <3> QED
      BY <3>1, <3>2
  <2> QED
    BY <2>1, <2>2 DEF ExpectedInv
<1>11. ASSUME ~pageLate
       PROVE  FilesInv' /\ OpenedInv'
  <2>1. serving = "waiting" => Browser!Present' = Browser!Present
    BY <1>4 DEF QueueInv
  <2>2. FilesInv'
    BY <1>1, <1>11, <2>1 DEF FilesInv, Browser!OpenedFor
  <2>3. ASSUME NEW o \in opened
        PROVE  /\ o.id \in 1 .. Len(asked') /\ o.page \in Newer
               /\ o.id \in Queued' =>
                    /\ o.id = Browser!Present' /\ serving' = "waiting"
                    /\ (opener' = "opened" /\ accepted') \/ status' # NoPage
               /\ o.id \in DOMAIN expected' => o.page = expected'[o.id]
               /\ o.id \in DOMAIN pageTold' => pageTold'[o.id] \/ o.id \in behind'
    <3>1. o.id \in 1 .. Len(asked) /\ o.id # id
      BY <1>5, <1>11, <2>3 DEF OpenedInv
    <3>2. o.page \in Newer /\ o.id \in 1 .. Len(asked')
      BY <1>3, <1>5, <1>11, <2>3, <3>1 DEF OpenedInv
    <3>3. o.id \in Queued' => o.id \in Queued
      BY <1>4, <3>1
    <3>4. o.id \in DOMAIN expected' => o.page = expected'[o.id]
      BY <1>9, <1>11, <2>3, <3>1 DEF OpenedInv
    <3> QED
      BY <1>1, <1>11, <2>1, <2>3, <3>2, <3>3, <3>4 DEF OpenedInv
  <2>4. ASSUME NEW n \in DOMAIN pageTold
        PROVE  /\ n \in 1 .. Len(asked')
               /\ ~IsCheck(n)' /\ n \in Queued' => n \in behind'
               /\ ~IsCheck(n)' /\ pageTold[n] => Browser!OpenedFor(n)
    BY <1>1, <1>3, <1>4, <1>5, <1>11, <2>4 DEF OpenedInv
  <2> QED
    BY <1>1, <2>2, <2>3, <2>4 DEF OpenedInv, Browser!OpenedFor
<1> QED
  BY <1>1, <1>6, <1>7, <1>8, <1>10, <1>11

LEMMA WindowGivesUp ==
  ASSUME PagesInv, NEW id \in waits, Browser!GiveUp(id) PROVE PagesInv'
<1> USE DEF PagesInv
<1>1. /\ id = Browser!Present /\ asked[id] = "open" => id \in behind
      /\ waits' = waits \ {id} /\ pageTold' = Browser!With(pageTold, id, FALSE)
      /\ missed' = (missed \/ asked[id] = "check")
      /\ UNCHANGED <<pageBacklog, asked, behind, expected, shown, serving, verified, request, status, opener, taken,
                     accepted, opened, pageLate>>
  BY DEF Browser!GiveUp, Browser!fileVars, Browser!openerVars, Browser!Present
<1>2. /\ Queued' = Queued /\ Browser!Present' = Browser!Present /\ \A n : IsCheck(n)' = IsCheck(n)
  BY <1>1 DEF Queued, Browser!Present, IsCheck
<1>3. id \in Queued /\ Queued \subseteq 1 .. Len(asked) /\ (~IsCheck(id) => id \in behind)
  <2>1. id \in Queued /\ Queued \subseteq 1 .. Len(asked)
    BY DEF QueueInv
  <2>2. asked[id] \in {"check", "open"}
    BY <2>1 DEF PageTypes
  <2> QED
    BY <1>1, <2>1, <2>2 DEF IsCheck, QueueInv
<1>4. PageTypes'
  BY <1>1 DEF PageTypes
<1>5. QueueInv'
  BY <1>1, <1>2 DEF QueueInv, IsCheck
<1>6. ChecksInv' /\ ExpectedInv'
  BY <1>1, <1>2 DEF ChecksInv, ExpectedInv, IsCheck
<1>7. ASSUME ~pageLate
      PROVE  FilesInv' /\ OpenedInv'
  <2>1. FilesInv'
    BY <1>1, <1>2, <1>7 DEF FilesInv, Browser!OpenedFor
  <2>2. DOMAIN pageTold' = DOMAIN pageTold \cup {id} /\ ~pageTold'[id] /\ \A n \in DOMAIN pageTold : n # id => pageTold'[n] = pageTold[n]
    BY <1>1 DEF Browser!With
  <2>3. ASSUME NEW o \in opened, o.id \in DOMAIN pageTold'
        PROVE  pageTold'[o.id] \/ o.id \in behind
    <3>1. CASE o.id # id
      BY <1>7, <2>2, <2>3, <3>1 DEF OpenedInv
    <3>2. CASE o.id = id /\ ~IsCheck(id)
      BY <1>3, <3>2
    <3>3. CASE o.id = id /\ IsCheck(id)
      <4>1. id = Browser!Present /\ serving = "waiting"
        BY <1>3, <1>7, <2>3, <3>3 DEF OpenedInv
      <4> QED
        BY <3>3, <4>1 DEF QueueInv
    <3> QED
      BY <3>1, <3>2, <3>3
  <2>4. ASSUME NEW n \in DOMAIN pageTold'
        PROVE  /\ n \in 1 .. Len(asked)
               /\ ~IsCheck(n) /\ n \in Queued => n \in behind
               /\ ~IsCheck(n) /\ pageTold'[n] => Browser!OpenedFor(n)
    BY <1>3, <1>7, <2>2, <2>4 DEF OpenedInv
  <2> QED
    BY <1>1, <1>2, <1>7, <2>1, <2>3, <2>4 DEF OpenedInv, Browser!OpenedFor
<1> QED
  BY <1>1, <1>4, <1>5, <1>6, <1>7

\* What is left when the request being served has been answered.
LEMMA AnswerIsSent ==
  ASSUME PagesInv, NEW value, Browser!Answer(value), serving # "idle"
  PROVE  /\ pageBacklog' \in Seq(Nat) /\ QueueInv'
         /\ Browser!Present \in Queued /\ Browser!Present \in 1 .. Len(asked)
         /\ Queued' = Queued \ {Browser!Present}
         /\ \A id \in Queued' : Browser!Present < id /\ id \in Nat
         /\ UNCHANGED <<asked, behind, expected>> /\ waits' = waits \ {Browser!Present} /\ serving' = "idle"
         /\ \A id : IsCheck(id)' = IsCheck(id)
         /\ DOMAIN pageTold' \subseteq DOMAIN pageTold \cup {Browser!Present}
         /\ \A n \in DOMAIN pageTold : n # Browser!Present => n \in DOMAIN pageTold' /\ pageTold'[n] = pageTold[n]
         /\ \/ Browser!Present \in DOMAIN pageTold' /\ pageTold'[Browser!Present] = value
            \/ pageTold' = pageTold
<1>1. /\ pageBacklog' = Tail(pageBacklog) /\ waits' = waits \ {Browser!Present} /\ serving' = "idle"
      /\ pageTold' = IF Browser!Present \in waits THEN Browser!With(pageTold, Browser!Present, value) ELSE pageTold
      /\ UNCHANGED <<asked, behind, expected>>
  BY DEF Browser!Answer
<1>2. pageBacklog # <<>> /\ PageTypes /\ QueueInv
  BY DEF PagesInv, QueueInv
<1>3. /\ Browser!Present \in Queued /\ Queued' = Queued \ {Browser!Present}
      /\ \A id \in Queued' : Browser!Present < id
      /\ \A i, j \in 1 .. Len(pageBacklog') : i < j => pageBacklog'[i] < pageBacklog'[j]
      /\ pageBacklog' \in Seq(Nat)
  BY <1>1, <1>2, QueueMovesOn
<1>4. Queued \subseteq 1 .. Len(asked) /\ waits \subseteq Queued /\ \A id \in Queued : id # Browser!Present => id \in behind
  BY <1>2 DEF QueueInv
<1>5. QueueInv'
  BY <1>1, <1>3, <1>4 DEF QueueInv
<1>6. \A id : IsCheck(id)' = IsCheck(id)
  BY <1>1 DEF IsCheck
<1>7. \A id \in Queued' : id \in Nat
  BY <1>3, <1>4
<1>8. /\ DOMAIN pageTold' \subseteq DOMAIN pageTold \cup {Browser!Present}
      /\ \A n \in DOMAIN pageTold : n # Browser!Present => n \in DOMAIN pageTold' /\ pageTold'[n] = pageTold[n]
      /\ \/ Browser!Present \in DOMAIN pageTold' /\ pageTold'[Browser!Present] = value
         \/ pageTold' = pageTold
  <2>1. CASE Browser!Present \in waits
    <3>1. pageTold' = Browser!With(pageTold, Browser!Present, value)
      BY <1>1, <2>1
    <3> QED
      BY <3>1 DEF Browser!With
  <2>2. CASE Browser!Present \notin waits
    BY <1>1, <2>2
  <2> QED
    BY <2>1, <2>2
<1> QED
  BY <1>1, <1>3, <1>4, <1>5, <1>6, <1>7, <1>8

\* What the window is told of a page keeps what was told true, if it is true itself.
LEMMA PageIsAnswered ==
  ASSUME PagesInv, NEW value \in BOOLEAN, Browser!AnswerOpen(value), serving \in {"asking", "waiting"},
         UNCHANGED <<verified, opened, opener, taken, accepted>>, pageLate' \in BOOLEAN, pageLate => pageLate',
         status' = NoPage \/ status'.ok \in BOOLEAN,
         ~pageLate' => /\ request' = NoPage /\ status' = NoPage /\ opener = "idle"
                       /\ value <=> Browser!OpenedFor(Browser!Present)
  PROVE  PagesInv'
<1> USE DEF PagesInv
<1>1. Browser!Answer(value) /\ UNCHANGED <<shown, missed>> /\ serving # "idle"
  BY DEF Browser!AnswerOpen
<1>2. /\ pageBacklog' \in Seq(Nat) /\ QueueInv'
      /\ Browser!Present \in Queued /\ Browser!Present \in 1 .. Len(asked)
      /\ Queued' = Queued \ {Browser!Present}
      /\ UNCHANGED <<asked, behind, expected>> /\ waits' = waits \ {Browser!Present} /\ serving' = "idle"
      /\ \A id : IsCheck(id)' = IsCheck(id)
      /\ DOMAIN pageTold' \subseteq DOMAIN pageTold \cup {Browser!Present}
      /\ \A n \in DOMAIN pageTold : n # Browser!Present => n \in DOMAIN pageTold' /\ pageTold'[n] = pageTold[n]
      /\ \/ Browser!Present \in DOMAIN pageTold' /\ pageTold'[Browser!Present] = value
         \/ pageTold' = pageTold
  BY <1>1, AnswerIsSent
<1>3. PageTypes'
  BY <1>1, <1>2 DEF PageTypes
<1>4. ~IsCheck(Browser!Present)
  BY DEF QueueInv
<1>5. ChecksInv' /\ ExpectedInv'
  BY <1>1, <1>2, <1>4 DEF ChecksInv, ExpectedInv
<1>6. ASSUME ~pageLate'
      PROVE  FilesInv' /\ OpenedInv'
  <2>1. FilesInv' /\ ~pageLate
    BY <1>2, <1>6 DEF FilesInv, Browser!OpenedFor
  <2>2. ASSUME NEW o \in opened
        PROVE  /\ o.id \in 1 .. Len(asked) /\ o.page \in Newer
               /\ o.id \notin Queued'
               /\ o.id \in DOMAIN expected => o.page = expected[o.id]
               /\ o.id \in DOMAIN pageTold' => pageTold'[o.id] \/ o.id \in behind
    <3>1. /\ o.id \in 1 .. Len(asked) /\ o.page \in Newer
          /\ o.id \in Queued => o.id = Browser!Present
          /\ o.id \in DOMAIN expected => o.page = expected[o.id]
          /\ o.id \in DOMAIN pageTold => pageTold[o.id] \/ o.id \in behind
      BY <2>1, <2>2 DEF OpenedInv
    <3>2. o.id = Browser!Present => value
      BY <1>6, <2>2 DEF Browser!OpenedFor
    <3>3. o.id \in DOMAIN pageTold' => pageTold'[o.id] \/ o.id \in behind
      <4>1. CASE o.id # Browser!Present
        BY <1>2, <3>1, <4>1
      <4>2. CASE o.id = Browser!Present
        BY <1>2, <3>1, <3>2, <4>2
      <4> QED
        BY <4>1, <4>2
    <3> QED
      BY <1>2, <3>1, <3>3
  <2>3. ASSUME NEW n \in DOMAIN pageTold'
        PROVE  /\ n \in 1 .. Len(asked)
               /\ ~IsCheck(n) /\ n \in Queued' => n \in behind
               /\ ~IsCheck(n) /\ pageTold'[n] => Browser!OpenedFor(n)
    <3>1. \A m \in DOMAIN pageTold :
            /\ m \in 1 .. Len(asked)
            /\ ~IsCheck(m) /\ m \in Queued => m \in behind
            /\ ~IsCheck(m) /\ pageTold[m] => Browser!OpenedFor(m)
      BY <2>1 DEF OpenedInv
    <3>2. CASE pageTold' = pageTold \/ n # Browser!Present
      BY <1>2, <2>3, <3>1, <3>2
    <3>3. CASE n = Browser!Present /\ pageTold'[Browser!Present] = value
      BY <1>2, <1>6, <3>3
    <3> QED
      BY <1>2, <3>2, <3>3
  <2> QED
    BY <1>2, <2>1, <2>2, <2>3 DEF OpenedInv, Browser!OpenedFor
<1> QED
  BY <1>2, <1>3, <1>5, <1>6

LEMMA ReleasesAreChecked ==
  ASSUME PagesInv, Browser!Check PROVE PagesInv'
<1> USE DEF PagesInv
<1>1. PICK page \in {NoPage} \cup {Browser!PageOf(listing) : listing \in Listings} :
        /\ verified' = page /\ Browser!Answer(page # NoPage)
        /\ IF Browser!Present \in waits THEN shown' = page /\ missed' = FALSE ELSE UNCHANGED <<shown, missed>>
  BY DEF Browser!Check, Browser!VerifiedAfter
<1>2. /\ serving = "checking" /\ serving # "idle"
      /\ UNCHANGED <<request, status, opener, taken, accepted, opened, pageLate>>
  BY DEF Browser!Check, Browser!fileVars, Browser!openerVars
<1>3. page \in Newer \cup {NoPage}
  BY PageIsNewer
<1>4. /\ pageBacklog' \in Seq(Nat) /\ QueueInv'
      /\ Browser!Present \in Queued /\ Browser!Present \in 1 .. Len(asked)
      /\ Queued' = Queued \ {Browser!Present}
      /\ \A id \in Queued' : Browser!Present < id /\ id \in Nat
      /\ UNCHANGED <<asked, behind, expected>> /\ waits' = waits \ {Browser!Present} /\ serving' = "idle"
      /\ \A id : IsCheck(id)' = IsCheck(id)
      /\ DOMAIN pageTold' \subseteq DOMAIN pageTold \cup {Browser!Present}
      /\ \A n \in DOMAIN pageTold : n # Browser!Present => n \in DOMAIN pageTold' /\ pageTold'[n] = pageTold[n]
  BY <1>1, <1>2, AnswerIsSent
<1>5. IsCheck(Browser!Present)
  BY <1>2 DEF QueueInv
<1>6. PageTypes'
  <2>1. missed' \in BOOLEAN
    BY <1>1 DEF PageTypes
  <2> QED
    BY <1>1, <1>2, <1>3, <1>4, <2>1 DEF PageTypes
<1>7. Queued \subseteq 1 .. Len(asked) /\ waits \subseteq Queued /\ Len(asked) \in Nat
  BY DEF QueueInv, PageTypes
<1>8. ChecksInv'
  <2>1. CASE Browser!Present \in waits
    <3>1. \A id \in Queued' : ~IsCheck(id)
      <4> SUFFICES ASSUME NEW id \in Queued', IsCheck(id) PROVE FALSE
        OBVIOUS
      <4>1. id \in Queued /\ Browser!Present < id /\ id \in Nat /\ Browser!Present \in Nat
        BY <1>4, <1>7
      <4>2. id <= Browser!Present
        BY <1>5, <2>1, <4>1 DEF ChecksInv
      <4> QED
        BY <4>1, <4>2
    <3> QED
      BY <1>1, <1>4, <2>1, <3>1 DEF ChecksInv
  <2>2. CASE Browser!Present \notin waits
    BY <1>1, <1>4, <1>5, <2>2 DEF ChecksInv
  <2> QED
    BY <2>1, <2>2
<1>9. ExpectedInv'
  <2>1. ASSUME NEW id \in DOMAIN expected \cap Queued'
        PROVE  FALSE
    <3>1. id \in Queued /\ Browser!Present < id /\ id \in Nat /\ Browser!Present \in Nat
      BY <1>4, <1>7, <2>1
    <3>2. id < Browser!Present
      BY <1>4, <1>5, <2>1, <3>1 DEF ExpectedInv
    <3> QED
      BY <3>1, <3>2
  <2> QED
    BY <1>4, <2>1 DEF ExpectedInv
<1>10. ASSUME ~pageLate
       PROVE  FilesInv' /\ OpenedInv'
  <2>1. FilesInv'
    BY <1>2, <1>10 DEF FilesInv
  <2>2. ASSUME NEW o \in opened
        PROVE  o.id # Browser!Present /\ o.id \notin Queued'
    BY <1>2, <1>4, <1>10, <2>2 DEF OpenedInv
  <2>3. ASSUME NEW n \in DOMAIN pageTold'
        PROVE  /\ n \in 1 .. Len(asked)
               /\ ~IsCheck(n) /\ n \in Queued' => n \in behind
               /\ ~IsCheck(n) /\ pageTold'[n] => Browser!OpenedFor(n)
    BY <1>4, <1>5, <1>10, <2>3 DEF OpenedInv
  <2>4. ASSUME NEW o \in opened
        PROVE  /\ o.id \in 1 .. Len(asked) /\ o.page \in Newer
               /\ o.id \in DOMAIN expected => o.page = expected[o.id]
               /\ o.id \in DOMAIN pageTold' => pageTold'[o.id] \/ o.id \in behind
    BY <1>4, <1>10, <2>2, <2>4 DEF OpenedInv
  <2> QED
    BY <1>2, <1>4, <2>1, <2>2, <2>3, <2>4 DEF OpenedInv, Browser!OpenedFor
<1> QED
  BY <1>2, <1>4, <1>6, <1>8, <1>9, <1>10

LEMMA BrokerAccepts ==
  ASSUME PagesInv, Browser!Accept PROVE PagesInv'
<1> USE DEF PagesInv
<1>1. /\ serving = "idle" /\ pageBacklog # <<>>
      /\ serving' = IF IsCheck(Browser!Present) THEN "checking" ELSE "asking"
      /\ UNCHANGED <<waits, verified, pageTold, shown, missed, request, status, opener, taken, accepted, opened, pageLate>>
      /\ QueueStands
  BY DEF Browser!Accept, Browser!socketVars, Browser!windowVars, Browser!fileVars, Browser!openerVars, QueueStands, IsCheck
<1>2. Queued' = Queued /\ Browser!Present' = Browser!Present /\ \A id : IsCheck(id)' = IsCheck(id)
  BY <1>1, QueueStandsStill
<1>3. PageTypes'
  BY <1>1 DEF PageTypes, QueueStands
<1>4. QueueInv' /\ ChecksInv' /\ ExpectedInv'
  BY <1>1, <1>2 DEF QueueInv, ChecksInv, ExpectedInv, QueueStands
<1>5. ASSUME ~pageLate
      PROVE  FilesInv' /\ OpenedInv'
  BY <1>1, <1>2, <1>5 DEF FilesInv, OpenedInv, Browser!OpenedFor, QueueStands
<1> QED
  BY <1>1, <1>3, <1>4, <1>5

\* The steps that leave the queue, the checks and what the window knows alone.
OnlyFilesMove ==
  /\ QueueStands /\ UNCHANGED <<waits, verified, pageTold, shown, missed, pageLate>>
  /\ serving # "idle" /\ serving' # "idle" /\ serving' \in {"checking", "asking", "waiting"}
  /\ (serving' = "checking" <=> serving = "checking")

LEMMA OnlyFilesMoved ==
  ASSUME PagesInv, OnlyFilesMove, opener' \in {"idle", "taken", "opened"}, accepted' \in BOOLEAN,
         status' = NoPage \/ status'.ok \in BOOLEAN
  PROVE  /\ PageTypes' /\ QueueInv' /\ ChecksInv' /\ ExpectedInv'
         /\ Queued' = Queued /\ Browser!Present' = Browser!Present /\ Browser!Present \in Queued
         /\ ~IsCheck(Browser!Present) \/ serving = "checking"
<1> USE DEF PagesInv, OnlyFilesMove
<1>1. Queued' = Queued /\ Browser!Present' = Browser!Present /\ \A id : IsCheck(id)' = IsCheck(id)
  BY QueueStandsStill
<1>2. PageTypes'
  BY DEF PageTypes, QueueStands
<1>3. QueueInv' /\ ChecksInv' /\ ExpectedInv'
  BY <1>1 DEF QueueInv, ChecksInv, ExpectedInv, QueueStands
<1>4. Browser!Present \in Queued
  <2>1. pageBacklog # <<>> /\ pageBacklog \in Seq(Nat)
    BY DEF QueueInv, PageTypes
  <2>2. 1 \in 1 .. Len(pageBacklog) /\ Browser!Present = pageBacklog[1]
    BY <2>1 DEF Browser!Present
  <2> QED
    BY <2>2 DEF Queued
<1> QED
  BY <1>1, <1>2, <1>3, <1>4 DEF QueueInv

\* What holds of the pages opened as long as none is opened and the status says the same.
LEMMA NoPageIsOpened ==
  ASSUME PagesInv, OnlyFilesMove, ~pageLate, opened' = opened, Queued' = Queued, Browser!Present' = Browser!Present,
         \A o \in opened : o.id \in Queued => serving' = "waiting" /\ ((opener' = "opened" /\ accepted') \/ status' # NoPage)
  PROVE  OpenedInv'
<1>1. OpenedInv /\ \A id : IsCheck(id)' = IsCheck(id)
  BY QueueStandsStill DEF PagesInv, OnlyFilesMove
<1> QED
  BY <1>1 DEF OpenedInv, OnlyFilesMove, QueueStands, Browser!OpenedFor

LEMMA OpenerIsAsked ==
  ASSUME PagesInv, Browser!AskOpener PROVE PagesInv'
<1> USE DEF PagesInv
<1>1. serving = "asking" /\ UNCHANGED <<verified, opener, taken, accepted, opened, pageLate>>
  BY DEF Browser!AskOpener, Browser!openerVars
<1>2. ~pageLate => request = NoPage /\ opener = "idle" /\ status = NoPage
  BY <1>1 DEF FilesInv
<1>3. CASE ~Browser!MayBeOpened(verified)
  <2>1. Browser!AnswerOpen(FALSE) /\ UNCHANGED <<request, status>>
    BY <1>3 DEF Browser!AskOpener, Browser!fileVars
  <2>2. Browser!Answer(FALSE) /\ serving # "idle"
    BY <1>1, <2>1 DEF Browser!AnswerOpen
  <2>3. Browser!Present \in Queued
    BY <2>2, AnswerIsSent
  <2>4. ~pageLate => ~Browser!OpenedFor(Browser!Present)
    BY <1>1, <2>3 DEF OpenedInv, Browser!OpenedFor
  <2>5. pageLate' \in BOOLEAN /\ (pageLate => pageLate') /\ (status' = NoPage \/ status'.ok \in BOOLEAN)
    BY <1>1, <2>1 DEF PageTypes
  <2>6. ~pageLate' => /\ request' = NoPage /\ status' = NoPage /\ opener = "idle"
                      /\ FALSE <=> Browser!OpenedFor(Browser!Present)
    BY <1>1, <1>2, <2>1, <2>4
  <2> QED
    BY <1>1, <2>1, <2>5, <2>6, PageIsAnswered
<1>4. CASE Browser!MayBeOpened(verified)
  <2>1. /\ request' = [id |-> Browser!Present, page |-> verified, whole |-> FALSE]
        /\ status' = NoPage /\ serving' = "waiting"
        /\ UNCHANGED <<pageBacklog, asked, waits, behind, expected, pageTold, shown, missed>>
    BY <1>4 DEF Browser!AskOpener, Browser!socketVars, Browser!windowVars
  <2>2. OnlyFilesMove
    BY <1>1, <2>1 DEF OnlyFilesMove, QueueStands
  <2>3. opener' \in {"idle", "taken", "opened"} /\ accepted' \in BOOLEAN
        /\ (status' = NoPage \/ status'.ok \in BOOLEAN)
    BY <1>1, <2>1 DEF PageTypes
  <2>4. /\ PageTypes' /\ QueueInv' /\ ChecksInv' /\ ExpectedInv'
        /\ Queued' = Queued /\ Browser!Present' = Browser!Present /\ Browser!Present \in Queued
    BY <2>2, <2>3, OnlyFilesMoved
  <2>5. ASSUME ~pageLate
        PROVE  FilesInv' /\ OpenedInv'
    <3>1. \A o \in opened : o.id \notin Queued
      BY <1>1, <2>5 DEF OpenedInv
    <3>2. OpenedInv'
      BY <1>1, <2>2, <2>4, <2>5, <3>1, NoPageIsOpened
    <3>3. request' \in Requests /\ request'.id = Browser!Present /\ request'.page = verified
      <4>1. verified \in Newer
        BY <1>4 DEF Browser!MayBeOpened, PageTypes
      <4>2. Browser!Present \in Nat
        BY <2>4 DEF QueueInv, PageTypes
      <4> QED
        BY <2>1, <4>1, <4>2 DEF Requests
    <3>4. FilesInv'
      BY <1>1, <1>2, <2>1, <2>4, <2>5, <3>3 DEF FilesInv
    <3> QED
      BY <3>2, <3>4
  <2> QED
    BY <1>1, <2>4, <2>5
<1> QED
  BY <1>3, <1>4

LEMMA RequestIsWritten ==
  ASSUME PagesInv, Browser!WriteRequest PROVE PagesInv'
<1> USE DEF PagesInv
<1>1. /\ serving = "waiting" /\ serving' = serving /\ request # NoPage
      /\ request' = [request EXCEPT !.whole = TRUE]
      /\ UNCHANGED <<pageBacklog, asked, waits, behind, expected, pageTold, shown, missed, verified, status, opener, taken,
                     accepted, opened, pageLate>>
  BY DEF Browser!WriteRequest, Browser!socketVars, Browser!windowVars, Browser!openerVars
<1>2. OnlyFilesMove
  BY <1>1 DEF OnlyFilesMove, QueueStands
<1>3. opener' \in {"idle", "taken", "opened"} /\ accepted' \in BOOLEAN
      /\ (status' = NoPage \/ status'.ok \in BOOLEAN)
  BY <1>1 DEF PageTypes
<1>4. /\ PageTypes' /\ QueueInv' /\ ChecksInv' /\ ExpectedInv'
      /\ Queued' = Queued /\ Browser!Present' = Browser!Present
  BY <1>2, <1>3, OnlyFilesMoved
<1>5. ASSUME ~pageLate
      PROVE  FilesInv' /\ OpenedInv'
  <2>1. \A o \in opened : o.id \in Queued => (opener = "opened" /\ accepted) \/ status # NoPage
    BY <1>5 DEF OpenedInv
  <2>2. OpenedInv'
    BY <1>1, <1>2, <1>4, <1>5, <2>1, NoPageIsOpened
  <2>3. opener # "opened" /\ status = NoPage
    BY <1>1, <1>5 DEF FilesInv
  <2>4. request' \in Requests /\ request'.id = Browser!Present /\ request'.page = verified
    <3>1. request \in Requests /\ request.id = Browser!Present /\ request.page = verified
      BY <1>1, <1>5 DEF FilesInv
    <3>2. request' \in Requests /\ request'.id = request.id /\ request'.page = request.page
      BY <1>1, <3>1 DEF Requests
    <3> QED
      BY <3>1, <3>2
  <2>5. FilesInv'
    BY <1>1, <1>4, <1>5, <2>3, <2>4 DEF FilesInv, Browser!OpenedFor
  <2> QED
    BY <2>2, <2>5
<1> QED
  BY <1>1, <1>4, <1>5

LEMMA StatusComesOrNot ==
  ASSUME PagesInv, Browser!ReadStatus \/ Browser!Deadline PROVE PagesInv'
<1> USE DEF PagesInv
<1>1. serving \in {"asking", "waiting"} /\ serving = "waiting" /\ UNCHANGED <<verified, opener, taken, accepted, opened>>
  BY DEF Browser!ReadStatus, Browser!Deadline, Browser!openerVars
<1>2. CASE Browser!ReadStatus
  <2>1. Browser!AnswerOpen(status.ok) /\ status # NoPage /\ status' = NoPage /\ UNCHANGED <<request, pageLate>>
    BY <1>2 DEF Browser!ReadStatus
  <2>2. status.ok \in BOOLEAN /\ pageLate' \in BOOLEAN /\ (pageLate => pageLate')
    BY <2>1 DEF PageTypes
  <2>3. ~pageLate' => /\ request' = NoPage /\ status' = NoPage /\ opener = "idle"
                      /\ status.ok <=> Browser!OpenedFor(Browser!Present)
    BY <2>1 DEF FilesInv
  <2> QED
    BY <1>1, <2>1, <2>2, <2>3, PageIsAnswered
<1>3. CASE Browser!Deadline
  <2>1. Browser!AnswerOpen(FALSE) /\ status = NoPage /\ status' = NoPage /\ request' = NoPage
        /\ pageLate' = (pageLate \/ opener # "idle")
    BY <1>3 DEF Browser!Deadline
  <2>2. pageLate' \in BOOLEAN /\ (pageLate => pageLate')
    BY <2>1 DEF PageTypes
  <2>3. Browser!Present \in Queued
    BY <1>1, <2>1, AnswerIsSent DEF Browser!AnswerOpen
  <2>4. ~pageLate' => opener = "idle" /\ ~Browser!OpenedFor(Browser!Present)
    BY <1>1, <2>1, <2>3 DEF OpenedInv, Browser!OpenedFor
  <2>5. ~pageLate' => /\ request' = NoPage /\ status' = NoPage /\ opener = "idle"
                      /\ FALSE <=> Browser!OpenedFor(Browser!Present)
    BY <2>1, <2>4
  <2> QED
    BY <1>1, <2>1, <2>2, <2>5, PageIsAnswered
<1> QED
  BY <1>2, <1>3

\* With an opener that is slower than the broker waits, only the queue matters.
LEMMA OpenerMoves ==
  ASSUME PagesInv, Browser!Take \/ Browser!OpenPage \/ Browser!WriteStatus
  PROVE  /\ PageTypes' /\ QueueInv' /\ ChecksInv' /\ ExpectedInv'
         /\ Queued' = Queued /\ Browser!Present' = Browser!Present
         /\ pageLate' = pageLate /\ serving' = serving /\ QueueStands /\ UNCHANGED <<verified, pageTold>>
<1> USE DEF PagesInv
<1>1. QueueStands /\ UNCHANGED <<waits, verified, pageTold, shown, missed, pageLate, serving>>
  BY DEF Browser!Take, Browser!OpenPage, Browser!WriteStatus, Browser!socketVars, Browser!windowVars, QueueStands
<1>2. Queued' = Queued /\ Browser!Present' = Browser!Present /\ \A id : IsCheck(id)' = IsCheck(id)
  BY <1>1, QueueStandsStill
<1>3. QueueInv' /\ ChecksInv' /\ ExpectedInv'
  BY <1>1, <1>2 DEF QueueInv, ChecksInv, ExpectedInv, QueueStands
<1>4. opener' \in {"idle", "taken", "opened"} /\ accepted' \in BOOLEAN /\ (status' = NoPage \/ status'.ok \in BOOLEAN)
  <2>1. CASE Browser!Take
    BY <2>1 DEF Browser!Take, Browser!fileVars, PageTypes
  <2>2. CASE Browser!OpenPage
    BY <2>2 DEF Browser!OpenPage, PageTypes
  <2>3. CASE Browser!WriteStatus
    BY <2>3 DEF Browser!WriteStatus, PageTypes
  <2> QED
    BY <2>1, <2>2, <2>3
<1>5. PageTypes'
  BY <1>1, <1>4 DEF PageTypes, QueueStands
<1> QED
  BY <1>1, <1>2, <1>3, <1>5

LEMMA OpenerTakes ==
  ASSUME PagesInv, Browser!Take PROVE PagesInv'
<1>1. /\ PageTypes' /\ QueueInv' /\ ChecksInv' /\ ExpectedInv'
      /\ Queued' = Queued /\ Browser!Present' = Browser!Present
      /\ pageLate' = pageLate /\ serving' = serving /\ QueueStands /\ UNCHANGED <<verified, pageTold>>
  BY OpenerMoves
<1>2. /\ opener = "idle" /\ request # NoPage /\ opener' = "taken"
      /\ taken' = [id |-> request.id, page |-> IF request.whole THEN request.page ELSE NoPage]
      /\ UNCHANGED <<request, status, accepted, opened>>
  BY DEF Browser!Take, Browser!fileVars
<1>3. ASSUME ~pageLate
      PROVE  FilesInv' /\ OpenedInv'
  <2>1. FilesInv /\ OpenedInv
    BY <1>3 DEF PagesInv
  <2>2. serving = "waiting" /\ status = NoPage /\ request.id = Browser!Present /\ request.page = verified
    BY <1>2, <2>1 DEF FilesInv
  <2>3. taken'.id = Browser!Present /\ (taken'.page # NoPage => taken'.page = verified)
    BY <1>2, <2>2
  <2>4. FilesInv'
    BY <1>1, <1>2, <2>1, <2>2, <2>3 DEF FilesInv
  <2>5. OpenedInv'
    BY <1>1, <1>2, <2>1, <2>2 DEF OpenedInv, QueueStands, IsCheck, Browser!OpenedFor
  <2> QED
    BY <2>4, <2>5
<1> QED
  BY <1>1, <1>3 DEF PagesInv

LEMMA PageIsOpened ==
  ASSUME PagesInv, Browser!OpenPage PROVE PagesInv'
<1>1. /\ PageTypes' /\ QueueInv' /\ ChecksInv' /\ ExpectedInv'
      /\ Queued' = Queued /\ Browser!Present' = Browser!Present
      /\ pageLate' = pageLate /\ serving' = serving /\ QueueStands /\ UNCHANGED <<verified, pageTold>>
  BY OpenerMoves
<1>2. /\ opener = "taken" /\ opener' = "opened" /\ request' = NoPage /\ UNCHANGED <<status, taken>>
      /\ \/ taken.page # NoPage /\ accepted' \in BOOLEAN
            /\ opened' = IF accepted' THEN opened \cup {taken} ELSE opened
         \/ accepted' = FALSE /\ opened' = opened
  BY DEF Browser!OpenPage, Browser!MayBeOpened
<1>3. ASSUME ~pageLate
      PROVE  FilesInv' /\ OpenedInv'
  <2>1. FilesInv /\ OpenedInv /\ QueueInv /\ PageTypes /\ ExpectedInv
    BY <1>3 DEF PagesInv
  <2>2. /\ serving = "waiting" /\ status = NoPage /\ taken.id = Browser!Present
        /\ (taken.page # NoPage => taken.page = verified)
    BY <1>2, <2>1 DEF FilesInv
  <2>3. Browser!Present \in Queued /\ Queued \subseteq 1 .. Len(asked) /\ ~IsCheck(Browser!Present)
    <3>1. pageBacklog # <<>> /\ pageBacklog \in Seq(Nat)
      BY <2>1, <2>2 DEF QueueInv, PageTypes
    <3>2. 1 \in 1 .. Len(pageBacklog) /\ Browser!Present = pageBacklog[1]
      BY <3>1 DEF Browser!Present
    <3> QED
      BY <2>1, <2>2, <3>2 DEF Queued, QueueInv
  <2>4. ~Browser!OpenedFor(Browser!Present)
    BY <1>2, <2>1, <2>2, <2>3 DEF OpenedInv, Browser!OpenedFor
  <2>5. accepted' <=> Browser!OpenedFor(Browser!Present)'
    BY <1>1, <1>2, <2>2, <2>4 DEF Browser!OpenedFor
  <2>6. FilesInv'
    BY <1>1, <1>2, <2>2, <2>5 DEF FilesInv
  <2>7. ASSUME NEW o \in opened'
        PROVE  /\ o.id \in 1 .. Len(asked) /\ o.page \in Newer
               /\ o.id \in Queued => o.id = Browser!Present /\ accepted'
               /\ o.id \in DOMAIN expected => o.page = expected[o.id]
               /\ o.id \in DOMAIN pageTold => pageTold[o.id] \/ o.id \in behind
    <3>1. CASE o \in opened
      BY <1>2, <2>1, <2>2, <3>1 DEF OpenedInv
    <3>2. CASE o \notin opened
      <4>1. o = taken /\ taken.page # NoPage /\ accepted' = TRUE
        BY <1>2, <2>7, <3>2
      <4>2. o.id = Browser!Present /\ o.page = verified /\ verified \in Newer
        BY <2>1, <2>2, <4>1 DEF PageTypes
      <4>3. o.id \in DOMAIN expected => o.page = expected[o.id]
        BY <2>1, <2>3, <4>2 DEF ExpectedInv
      <4>4. o.id \in DOMAIN pageTold => o.id \in behind
        BY <2>1, <2>3, <4>2 DEF OpenedInv
      <4> QED
        BY <2>3, <4>1, <4>2, <4>3, <4>4
    <3> QED
      BY <3>1, <3>2
  <2>8. ASSUME NEW n \in DOMAIN pageTold
        PROVE  /\ n \in 1 .. Len(asked)
               /\ ~IsCheck(n) /\ n \in Queued => n \in behind
               /\ ~IsCheck(n) /\ pageTold[n] => Browser!OpenedFor(n)'
    <3>1. opened \subseteq opened'
      BY <1>2
    <3> QED
      BY <2>1, <2>8, <3>1 DEF OpenedInv, Browser!OpenedFor
  <2>9. OpenedInv'
    BY <1>1, <1>2, <2>2, <2>7, <2>8 DEF OpenedInv, QueueStands, IsCheck
  <2> QED
    BY <2>6, <2>9
<1> QED
  BY <1>1, <1>3 DEF PagesInv

LEMMA OpenerAnswers ==
  ASSUME PagesInv, Browser!WriteStatus PROVE PagesInv'
<1>1. /\ PageTypes' /\ QueueInv' /\ ChecksInv' /\ ExpectedInv'
      /\ Queued' = Queued /\ Browser!Present' = Browser!Present
      /\ pageLate' = pageLate /\ serving' = serving /\ QueueStands /\ UNCHANGED <<verified, pageTold>>
  BY OpenerMoves
<1>2. /\ opener = "opened" /\ opener' = "idle" /\ status' = [id |-> taken.id, ok |-> accepted]
      /\ UNCHANGED <<request, opened>>
  BY DEF Browser!WriteStatus
<1>3. ASSUME ~pageLate
      PROVE  FilesInv' /\ OpenedInv'
  <2>1. FilesInv /\ OpenedInv /\ QueueInv /\ PageTypes
    BY <1>3 DEF PagesInv
  <2>2. /\ serving = "waiting" /\ taken.id = Browser!Present /\ request = NoPage
        /\ (accepted <=> Browser!OpenedFor(Browser!Present))
    BY <1>2, <2>1 DEF FilesInv
  <2>3. taken.id \in Nat
    <3>1. pageBacklog # <<>> /\ pageBacklog \in Seq(Nat)
      BY <2>1, <2>2 DEF QueueInv, PageTypes
    <3> QED
      BY <2>2, <3>1 DEF Browser!Present
  <2>4. status' # NoPage /\ status'.ok = accepted
    BY <1>2, <2>1, <2>3, ReleasesAssumption DEF StatusFiles, PageTypes
  <2>5. FilesInv'
    BY <1>1, <1>2, <2>2, <2>4 DEF FilesInv, Browser!OpenedFor
  <2>6. OpenedInv'
    BY <1>1, <1>2, <2>1, <2>2, <2>4 DEF OpenedInv, QueueStands, IsCheck, Browser!OpenedFor
  <2> QED
    BY <2>5, <2>6
<1> QED
  BY <1>1, <1>3 DEF PagesInv

LEMMA PageSteps == PagesInv /\ [Browser!PagesNext]_pageVars => PagesInv'
<1>1. PagesInv /\ UNCHANGED pageVars => PagesInv'
  BY DEF pageVars, PagesInv, PageTypes, QueueInv, ChecksInv, ExpectedInv, FilesInv, OpenedInv, Queued, IsCheck,
         Browser!Present, Browser!OpenedFor
<1> QED
  BY <1>1, RequestIsMade, WindowGivesUp, BrokerAccepts, ReleasesAreChecked, OpenerIsAsked, RequestIsWritten,
     StatusComesOrNot, OpenerTakes, PageIsOpened, OpenerAnswers DEF Browser!PagesNext

(* Whatever the service lists and however often the window asks: unless the *)
(* opener is slower than the broker waits, a page the window is told is     *)
(* open was opened for that request, a page it is told is not open was not, *)
(* unless the request stood behind another, and a page that is opened is    *)
(* that of a newer version, the one the window showed if no check was under *)
(* way (_handle_connection, _open_release, release_opener.serve_once).      *)
THEOREM AnswersAreTrueHolds == WindowSpec => []AnswersAreTrue
<1>1. PagesInv /\ [WindowNext]_windowVars => PagesInv'
  <2>1. [WindowNext]_windowVars => [Browser!PagesNext]_pageVars
    BY DEF WindowNext, windowVars
  <2> QED
    BY <2>1, PageSteps
<1>2. PagesInv => AnswersAreTrue
  <2> SUFFICES ASSUME PagesInv, ~pageLate PROVE AnswersAreTrue
    BY DEF AnswersAreTrue, Browser!AnswersAreTrue
  <2>1. ASSUME NEW id \in DOMAIN pageTold, asked[id] = "open", pageTold[id]
        PROVE  Browser!OpenedFor(id)
    BY <2>1 DEF PagesInv, OpenedInv, IsCheck
  <2>2. ASSUME NEW o \in opened
        PROVE  /\ o.id \in DOMAIN pageTold => pageTold[o.id] \/ o.id \in behind
               /\ o.page.version > Installed
               /\ o.id \in DOMAIN expected => o.page = expected[o.id]
    BY <2>2 DEF PagesInv, OpenedInv, Newer
  <2> QED
    BY <2>1, <2>2 DEF AnswersAreTrue, Browser!AnswersAreTrue
<1> QED
  BY <1>1, <1>2, PagesBegin, PTL DEF WindowSpec
=============================================================================
