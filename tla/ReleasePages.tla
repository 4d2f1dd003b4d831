----------------------------- MODULE ReleasePages -----------------------------
(***************************************************************************)
(* The way from the window, which has no network, to a release page: the   *)
(* broker with the network answers one request after the other on a socket *)
(* (app/network_broker.py, app/update_checker.py); the opener, outside     *)
(* every confinement, takes the page the broker verified from a request    *)
(* file and says with a status file whether the desktop took it            *)
(* (app/release_opener.py).  The window waits a limited time for each      *)
(* answer, the broker for the opener.                                      *)
(***************************************************************************)
EXTENDS Naturals, Sequences, FiniteSets

CONSTANTS
  Listings,      \* lists of releases the service may answer: [version, 0 if it cannot be
                 \*   read, draft, page : "own", "list", "unfit" or "foreign"]
  Installed,     \* the version at work
  MaxRequests,   \* bound on the requests of the window
  NoPage

VARIABLES
  backlog,    \* of the socket: requests [id, action], the one being served first
  serving,    \* step of the broker: "idle", "checking", "asking", "waiting"
  behind,     \* history: open requests that found another request before them
  verified,   \* state["release_url"]
  asked,      \* history: the actions of the requests made, by their number
  waits,      \* the requests the window still waits for
  told,       \* answers that reached the window: id -> TRUE or FALSE (an update, a page opened)
  request,    \* open-release.request: [id, page, whole] or NoPage
  status,     \* open-release.status: [id, ok] or NoPage
  opener,     \* "idle", "taken", "opened": where serve_once is
  taken,      \* what it has taken: [id, page]
  accepted,   \* did the desktop take the page?
  opened,     \* history: [id, page] handed to the desktop
  shown,      \* the page of the last answer to a check the window has, or NoPage
  missed,     \* the window gave up on the last check
  expected,   \* history: open requests made with no check under way -> the page shown
  late        \* history: the broker stopped waiting while the opener was at work

pageVars ==
  <<backlog, serving, behind, verified, asked, waits, told, request, status, opener, taken,
    accepted, opened, shown, missed, expected, late>>
socketVars == <<backlog, asked, waits, behind, expected>>
windowVars == <<told, shown, missed>>
openerVars == <<opener, taken, accepted, opened>>
fileVars == <<request, status>>

PagesInit ==
  /\ backlog = <<>> /\ serving = "idle" /\ behind = {} /\ verified = NoPage
  /\ asked = <<>> /\ waits = {} /\ told = <<>>
  /\ shown = NoPage /\ missed = FALSE /\ expected = <<>>
  /\ request = NoPage /\ status = NoPage
  /\ opener = "idle" /\ taken = NoPage /\ accepted = FALSE /\ opened = {} /\ late = FALSE

-----------------------------------------------------------------------------
(* What a check finds.                                                     *)

\* _select_github_release: the first that is no draft.
Published(listing) == {i \in DOMAIN listing : ~listing[i].draft}
Selected(listing) ==
  listing[CHOOSE i \in Published(listing) : \A j \in Published(listing) : i <= j]

\* _check_github_releases, _result_from_versions.
FoundIn(listing) ==
  IF Published(listing) = {} THEN "not_verified"
  ELSE LET first == Selected(listing)
       IN  CASE first.page = "foreign" -> "not_verified"
             [] first.version < Installed -> "not_verified"
             [] first.version = Installed -> "up_to_date"
             [] OTHER -> "update_available"

\* _verified_release_url
PageOf(listing) == IF FoundIn(listing) = "update_available" THEN Selected(listing) ELSE NoPage

-----------------------------------------------------------------------------
(* The window.                                                             *)

Waiting(action) == \E id \in waits : asked[id] = action
With(f, x, v) == [i \in DOMAIN f \cup {x} |-> IF i = x THEN v ELSE f[i]]

\* request_update_check from the thread of the runner, request_open_release from the window:
\* one of each at a time.
Ask(action) ==
  LET id == Len(asked) + 1
  IN  /\ Len(asked) < MaxRequests
      /\ ~Waiting(action)
      /\ asked' = Append(asked, action)
      /\ backlog' = Append(backlog, id)
      /\ waits' = waits \cup {id}
      /\ behind' = IF backlog = <<>> THEN behind ELSE behind \cup {id}
      /\ expected' = IF action = "check" \/ missed \/ Waiting("check") THEN expected
                     ELSE With(expected, id, shown)
  /\ UNCHANGED <<serving, verified, windowVars, fileVars, openerVars, late>>

\* The answer does not come in time: no update, or the page is not opened, says the window.
\* It waits longer for a page than the broker waits for the opener, unless others came first.
GiveUp(id) ==
  /\ (id = Head(backlog) /\ asked[id] = "open") => id \in behind
  /\ waits' = waits \ {id}
  /\ told' = With(told, id, FALSE)
  /\ missed' = (missed \/ asked[id] = "check")
  /\ UNCHANGED <<backlog, asked, behind, expected, shown, serving, verified, fileVars, openerVars, late>>

-----------------------------------------------------------------------------
(* The broker.                                                             *)

Present == Head(backlog)

Accept ==
  /\ serving = "idle" /\ backlog # <<>>
  /\ serving' = IF asked[Present] = "check" THEN "checking" ELSE "asking"
  /\ UNCHANGED <<socketVars, verified, windowVars, fileVars, openerVars, late>>

\* The answer is sent, to nobody if the window gave up.
Answer(value) ==
  /\ serving' = "idle" /\ backlog' = Tail(backlog)
  /\ waits' = waits \ {Present}
  /\ told' = IF Present \in waits THEN With(told, Present, value) ELSE told
  /\ UNCHANGED <<asked, behind, expected>>
AnswerOpen(value) == Answer(value) /\ UNCHANGED <<shown, missed>>

\* A check that finds no update leaves the page of an earlier one.
VerifiedIsKept(page) == IF page = NoPage THEN verified ELSE page

\* _handle_connection: whatever the check found replaces what the last one had found.
VerifiedAfter(page) == page

Check ==
  /\ serving = "checking"
  /\ \E page \in {NoPage} \cup {PageOf(listing) : listing \in Listings} :
       /\ verified' = VerifiedAfter(page) /\ Answer(page # NoPage)
       /\ IF Present \in waits THEN shown' = page /\ missed' = FALSE ELSE UNCHANGED <<shown, missed>>
  /\ UNCHANGED <<fileVars, openerVars, late>>

\* is_release_page
MayBeOpened(page) == page # NoPage /\ page.page \in {"own", "list"}

\* _open_release up to the file: what is left of an earlier request goes away; the file is
\* there before it is written.
AskOpener ==
  /\ serving = "asking"
  /\ IF ~MayBeOpened(verified) THEN AnswerOpen(FALSE) /\ UNCHANGED fileVars
     ELSE /\ request' = [id |-> Present, page |-> verified, whole |-> FALSE]
          /\ status' = NoPage /\ serving' = "waiting"
          /\ UNCHANGED <<socketVars, windowVars>>
  /\ UNCHANGED <<verified, openerVars, late>>

WriteRequest ==
  /\ serving = "waiting" /\ request # NoPage /\ request.id = Present /\ ~request.whole
  /\ request' = [request EXCEPT !.whole = TRUE]
  /\ UNCHANGED <<socketVars, serving, verified, windowVars, status, openerVars, late>>

Written == request # NoPage => request.whole

ReadStatus ==
  /\ serving = "waiting" /\ Written /\ status # NoPage
  /\ AnswerOpen(status.ok) /\ status' = NoPage
  /\ UNCHANGED <<verified, request, openerVars, late>>

\* The request stays for an opener that comes too late.
LeavesTheRequest ==
  /\ serving = "waiting" /\ Written /\ status = NoPage
  /\ AnswerOpen(FALSE)
  /\ late' = (late \/ opener # "idle")
  /\ UNCHANGED <<verified, fileVars, openerVars>>

\* STATUS_WAIT_SECONDS without a status: the request is taken back.
Deadline ==
  /\ serving = "waiting" /\ Written /\ status = NoPage
  /\ AnswerOpen(FALSE) /\ request' = NoPage
  /\ late' = (late \/ opener # "idle")
  /\ UNCHANGED <<verified, status, openerVars>>

-----------------------------------------------------------------------------
(* The opener.                                                             *)

\* serve_once reads what is in the file at that moment; the name is removed afterwards.
Take ==
  /\ opener = "idle" /\ request # NoPage
  /\ opener' = "taken"
  /\ taken' = [id |-> request.id, page |-> IF request.whole THEN request.page ELSE NoPage]
  /\ UNCHANGED <<socketVars, serving, verified, windowVars, fileVars, accepted, opened, late>>

\* open_release_page
OpenPage ==
  /\ opener = "taken" /\ opener' = "opened"
  /\ request' = NoPage
  /\ IF MayBeOpened(taken.page)
       THEN accepted' \in BOOLEAN /\ opened' = IF accepted' THEN opened \cup {taken} ELSE opened
       ELSE accepted' = FALSE /\ UNCHANGED opened
  /\ UNCHANGED <<socketVars, serving, verified, windowVars, status, taken, late>>

WriteStatus ==
  /\ opener = "opened" /\ opener' = "idle"
  /\ status' = [id |-> taken.id, ok |-> accepted]
  /\ taken' = NoPage /\ accepted' = FALSE
  /\ UNCHANGED <<socketVars, serving, verified, windowVars, request, opened, late>>

PagesNext ==
  \/ \E action \in {"check", "open"} : Ask(action)
  \/ \E id \in waits : GiveUp(id)
  \/ Accept \/ Check \/ AskOpener \/ WriteRequest \/ ReadStatus \/ Deadline
  \/ Take \/ OpenPage \/ WriteStatus

PagesSpec == PagesInit /\ [][PagesNext]_pageVars

-----------------------------------------------------------------------------
(* Properties.                                                             *)

OpenedFor(id) == \E o \in opened : o.id = id

\* What the window is told of a page is true (_open_release, "True only once the opener
\* confirms"): told that it is open, this very request opened it; told that it is not, it is
\* not, unless the request stood behind another one.  The page is the one the window shows,
\* that of a newer version, if no check was under way.  An opener that is slower than the
\* broker waits is left out.
AnswersAreTrue ==
  ~late =>
    /\ \A id \in DOMAIN told : asked[id] = "open" /\ told[id] => OpenedFor(id)
    /\ \A o \in opened :
         /\ o.id \in DOMAIN told => told[o.id] \/ o.id \in behind
         /\ o.page.version > Installed
         /\ o.id \in DOMAIN expected => o.page = expected[o.id]
=============================================================================
