----------------------------- MODULE ReaderSearch -----------------------------
(***************************************************************************)
(* The search bar of the reader (ui/document_workspace.py) and the search   *)
(* of its view (ui/components/isolated_pdf_view.py): words are searched a    *)
(* moment after they were typed, in a worker whose answer may come when the  *)
(* bar was closed, other words were typed or another document was opened.   *)
(*                                                                         *)
(*   opening, status   how many times a document was opened, and how far the  *)
(*                     last opening is                                       *)
(*   bar               the bar: shown, the words typed, whether its timer runs *)
(*                     and the state it shows                                 *)
(*   view              the view: _query, _search_id (0 for none), and the       *)
(*                     matches it holds, as the opening and the words they are of *)
(*   pending           searches whose answer may still come                     *)
(* Which pages match, and the walk from match to match, are left out: see       *)
(* ShowMatch of ReaderView.                                                   *)
(***************************************************************************)
EXTENDS Integers

CONSTANTS
  Words,       \* what may be typed
  Blank,       \* the words of which nothing is left to search, among them no word
  NoWords,
  MaxOpenings, MaxSearches

VARIABLES opening, status, bar, view, pending, searches

vars == <<opening, status, bar, view, pending, searches>>

NoMatches == [of |-> 0, words |-> NoWords]
Cleared == [query |-> NoWords, id |-> 0, matches |-> NoMatches]
HasPages == status = "ready"

\* search(): without pages the words are forgotten.
Search(b, words, pages) ==
  IF words \in Blank \/ ~pages
  THEN /\ view' = Cleared /\ bar' = [b EXCEPT !.state = "idle"]
       /\ UNCHANGED <<pending, searches>>
  ELSE /\ searches < MaxSearches
       /\ searches' = searches + 1
       /\ view' = [Cleared EXCEPT !.query = words, !.id = searches + 1]
       /\ bar' = [b EXCEPT !.state = "running"]
       /\ pending' = pending \cup {[id |-> searches + 1, of |-> opening, words |-> words]}

\* _run_search
RunSearch(b) == Search([b EXCEPT !.timer = FALSE], b.words, HasPages)

ClosedStillTicking(b) == [b EXCEPT !.shown = FALSE, !.state = "idle"]

\* _close_search
Closed(b) == [b EXCEPT !.timer = FALSE, !.shown = FALSE, !.state = "idle"]
CloseSearch == bar' = Closed(bar) /\ view' = Cleared

-----------------------------------------------------------------------------
(* The document. *)

\* load_document: the pages go, the words of an open search stay.
Load ==
  /\ opening < MaxOpenings
  /\ opening' = opening + 1 /\ status' = "loading"
  /\ view' = [Cleared EXCEPT !.query = view.query]
  /\ bar' = [bar EXCEPT !.state = "idle"]
  /\ UNCHANGED <<pending, searches>>

\* _reset with pages: an open search follows the newly loaded document.
Loaded ==
  /\ status = "loading"
  /\ status' = "ready"
  /\ Search(bar, view.query, TRUE)
  /\ UNCHANGED opening

\* A protected document closes the bar, another failure leaves it.
LoadFailed(password) ==
  /\ status = "loading"
  /\ status' = IF password THEN "locked" ELSE "error"
  /\ IF password THEN CloseSearch ELSE UNCHANGED <<bar, view>>
  /\ UNCHANGED <<opening, pending, searches>>

\* _set_empty_state
Emptied ==
  /\ status # "none" /\ opening < MaxOpenings
  /\ status' = "none" /\ opening' = opening + 1
  /\ CloseSearch
  /\ UNCHANGED <<pending, searches>>

-----------------------------------------------------------------------------
(* The user. *)

\* _open_search: Ctrl+F or the button; the words of last time are searched again.
OpenSearch ==
  /\ status # "locked"
  /\ LET opened == [bar EXCEPT !.shown = TRUE]
     IN  IF opened.words \notin Blank /\ opened.state = "idle" THEN RunSearch(opened)
         ELSE bar' = opened /\ UNCHANGED <<view, pending, searches>>
  /\ UNCHANGED <<opening, status>>

\* The cross, Escape, or the button again.
UserCloses ==
  /\ bar.shown /\ status # "none"
  /\ CloseSearch
  /\ UNCHANGED <<opening, status, pending, searches>>

Type(words) ==
  /\ bar.shown /\ words # bar.words /\ status # "none"
  /\ bar' = [bar EXCEPT !.words = words, !.timer = TRUE]
  /\ UNCHANGED <<opening, status, view, pending, searches>>

TimerFires == bar.timer /\ RunSearch(bar) /\ UNCHANGED <<opening, status>>

\* Enter in the field; otherwise it goes to the next match.
Enter ==
  /\ bar.shown /\ status # "none" /\ (bar.timer \/ bar.state = "idle")
  /\ RunSearch(bar)
  /\ UNCHANGED <<opening, status>>

-----------------------------------------------------------------------------
\* _completed and _result_ready: an answer to an earlier opening, or to another search
\* than the last, changes nothing.
Answered(q, ok) ==
  /\ q \in pending
  /\ pending' = pending \ {q}
  /\ IF q.of = opening /\ q.id = view.id
     THEN /\ view' = [view EXCEPT !.id = 0,
                                  !.matches = IF ok THEN [of |-> q.of, words |-> q.words]
                                              ELSE NoMatches]
          /\ bar' = [bar EXCEPT !.state = IF ok THEN "done" ELSE "failed"]
     ELSE UNCHANGED <<view, bar>>
  /\ UNCHANGED <<opening, status, searches>>

\* A cancelled search whose answer was not sent yet says nothing.
GivenUp(q) ==
  /\ q \in pending /\ (q.of # opening \/ q.id # view.id)
  /\ pending' = pending \ {q}
  /\ UNCHANGED <<opening, status, bar, view, searches>>

Init ==
  /\ opening = 0 /\ status = "none"
  /\ bar = [shown |-> FALSE, words |-> NoWords, timer |-> FALSE, state |-> "idle"]
  /\ view = Cleared /\ pending = {} /\ searches = 0

Next ==
  \/ Load \/ Loaded \/ Emptied \/ (\E p \in BOOLEAN : LoadFailed(p))
  \/ OpenSearch \/ UserCloses \/ TimerFires \/ Enter \/ (\E w \in Words : Type(w))
  \/ \E q \in pending : GivenUp(q) \/ \E ok \in BOOLEAN : Answered(q, ok)

Spec == Init /\ [][Next]_vars

-----------------------------------------------------------------------------
(* What the bar and the pages show of a search is of the words in the field   *)
(* and of the document on screen: a closed bar leaves no search behind, the   *)
(* state shown tells whether an answer is awaited, the matches are of the     *)
(* present opening and of the words last searched, which are those of the     *)
(* field unless more was typed since, and the words the view still has when a  *)
(* document is loaded are searched in it (_close_search, _run_search,          *)
(* clear_search, search, _reset, _result_ready).  Words typed during the       *)
(* loading are not among them: see OpenSearchFollows.                          *)
SearchIsOfTheField ==
  /\ ~bar.shown => view = Cleared /\ ~bar.timer /\ bar.state = "idle"
  /\ bar.state = "running" <=> view.id # 0
  /\ view.id # 0 => \E q \in pending : q.id = view.id /\ q.of = opening /\ q.words = view.query
  /\ view.matches # NoMatches =>
       /\ HasPages /\ view.matches = [of |-> opening, words |-> view.query]
       /\ bar.state = "done"
  /\ bar.state # "idle" /\ ~bar.timer => view.query = bar.words
  /\ HasPages /\ view.query # NoWords => bar.state # "idle"

(* "An open search follows the newly loaded document" (_reset): once there are *)
(* pages and the timer has run out, the words in the field of the open bar     *)
(* have been searched.                                                        *)
OpenSearchFollows ==
  HasPages /\ bar.shown /\ ~bar.timer /\ bar.words \notin Blank => bar.state # "idle"
=============================================================================
