------------------------------ MODULE MergeList ------------------------------
(***************************************************************************)
(* The list of files of Merge (ui/tool_pages/merge_pdf_page.py) and the     *)
(* check of its files (ui/components/source_check.py): the list follows the *)
(* documents of the window, the user adds, removes and orders files, each   *)
(* file is counted once in a thread of its own, and an answer may change    *)
(* the list it was asked for.                                              *)
(*                                                                         *)
(* The page is a record, so that a handler that calls another one is a     *)
(* composition of operators:                                               *)
(*   list       the files, in the order of the merge                       *)
(*   removed    _removed_paths: the open documents that stay out           *)
(*   preloaded  _preloaded: the documents taken on arrival, if several      *)
(*   chosen     _selected_key: the one that stays if another is unusable    *)
(*   queue      the files to count                                         *)
(*   running    the file being counted, and in print its version then      *)
(*   known      _problems: the version an answer is filed under (0 for no   *)
(*              answer yet), and whether it says the file is unusable       *)
(*   result     the files of the result on screen, <<>> if none is          *)
(* Every handler that changes the list ends by checking the new list, so    *)
(* the sources of the check are the list.  The order of the open documents  *)
(* is any order; the name of the output is OutputPublication's subject.     *)
(***************************************************************************)
EXTENDS Integers, Sequences, FiniteSets

CONSTANTS
  Paths,           \* the files of the user
  NoPath,
  MaxVersion,      \* bound: the versions of each file, a function of Paths
  Protected,       \* the <<path, version>> that ask for a password
  MaxPreloaded     \* MAX_PRELOADED_DOCUMENTS

VARIABLES
  disk,     \* the version of each file
  open,     \* the documents of the active session
  locked,   \* those the window shows as protected
  shown,    \* Merge is the page on screen
  page,     \* the record above
  answer,   \* what the counting thread read: "pending" before
  rule,     \* a call of _apply_preload_rule is posted
  job,      \* the files of the running merge, <<>> if none runs
  takenOff  \* history: the files the user removed, and did not add, since the arrival

window == <<open, locked, shown>>
vars == <<disk, window, page, answer, rule, job, takenOff>>

FilesIn(list) == {list[i] : i \in DOMAIN list}
Orders(set) == {o \in [1 .. Cardinality(set) -> set] : FilesIn(o) = set}

\* What is left of a list: its k-th file is the one with k files of the set up to it.
Left(list, set) == {i \in DOMAIN list : list[i] \in set}
Place(left, i) == Cardinality({j \in left : j <= i})
Only(list, set) ==
  LET left == Left(list, set)
  IN  [k \in 1 .. Cardinality(left) |-> list[CHOOSE i \in left : Place(left, i) = k]]

Running == job # <<>>
NotCounted == [filed |-> 0, unusable |-> FALSE]

(***************************************************************************)
(* The check of the files.                                                 *)
(***************************************************************************)
StartNext(t) ==
  IF t.running # NoPath \/ t.queue = <<>> THEN t
  ELSE [t EXCEPT !.running = Head(t.queue), !.print = disk[Head(t.queue)], !.queue = Tail(@)]

\* check: a file is counted if it was never, or changed since.
Check(t, list) ==
  LET kept == Only(t.queue, FilesIn(list))
      asked == {p \in FilesIn(list) : t.known[p].filed # disk[p]}
      fresh == Only(list, asked \ (FilesIn(kept) \cup {t.running}))
  IN  StartNext([t EXCEPT !.list = list, !.queue = kept \o fresh])

\* _list_changed and _update_action_state, when the list changed.
ListChanged(t, list) ==
  IF list = t.list THEN t ELSE Check([t EXCEPT !.result = <<>>], list)

Checking(t) == t.running # NoPath \/ t.queue # <<>>

\* blocker_text and _update_action_state
Blocked(t) ==
  \/ \E p \in FilesIn(t.list) : t.known[p].unusable
  \/ Checking(t)
  \/ Len(t.list) < 2

(***************************************************************************)
(* The list and the documents of the window.                               *)
(***************************************************************************)
\* _add_files
AddFiles(t, files) == ListChanged(t, t.list \o Only(files, Paths \ FilesIn(t.list)))

\* set_workspace_documents
SyncedWithAll(t, docs) ==
  IF Running THEN t
  ELSE ListChanged(t, LET kept == Only(t.list, FilesIn(docs))
                      IN  kept \o Only(docs, Paths \ FilesIn(kept)))
Synced(t, docs) ==
  IF Running THEN t
  ELSE LET kept == Only(t.list, FilesIn(docs))
       IN  ListChanged(t, kept \o Only(docs, Paths \ (FilesIn(kept) \cup t.removed)))

\* The refresh of the window reaches the page on screen only.
Refreshed(t, docs) == IF shown THEN Synced(t, docs) ELSE t

\* preloads_open_documents
Preloads == Cardinality(open) \in 2 .. MaxPreloaded /\ open \cap locked = {}

\* set_tool_launch_context: the list starts again from the documents the context names.
Launched(t, docs, selected) ==
  LET files == IF open = {} THEN <<>> ELSE IF Preloads THEN docs ELSE <<selected>>
      emptied == Check([t EXCEPT !.result = <<>>, !.removed = {}], <<>>)
      listed == AddFiles(emptied, files)
  IN  IF open = {} THEN listed
      ELSE [listed EXCEPT !.preloaded = IF Len(files) > 1 THEN FilesIn(files) ELSE {},
                          !.chosen = selected,
                          !.removed = open \ FilesIn(files)]

\* NavigationController.show
Arrive(docs, selected) ==
  /\ shown' = TRUE
  /\ page' = IF Running THEN page ELSE Launched(Synced(page, docs), docs, selected)
  /\ takenOff' = IF Running THEN takenOff ELSE {}
  /\ UNCHANGED <<disk, open, locked, answer, rule, job>>

Leave ==
  /\ shown /\ shown' = FALSE
  /\ UNCHANGED <<disk, open, locked, page, answer, rule, job, takenOff>>

\* A document is opened from another page.
DocumentOpened(p) ==
  /\ ~shown /\ p \notin open
  /\ open' = open \cup {p}
  /\ UNCHANGED <<disk, locked, shown, page, answer, rule, job, takenOff>>

\* _remove_workspace_document: a document that a job works on stays.
DocumentClosed(p, docs) ==
  /\ p \in open /\ ~(Running /\ p \in FilesIn(page.list))
  /\ open' = open \ {p} /\ locked' = locked \ {p}
  /\ page' = Refreshed(page, Only(docs, open \ {p}))
  /\ UNCHANGED <<disk, shown, answer, rule, job, takenOff>>

\* Another session becomes the active one.
SessionChanged(set, docs) ==
  /\ set # open
  /\ open' = set /\ locked' = locked \cap set
  /\ page' = Refreshed(page, docs)
  /\ UNCHANGED <<disk, shown, answer, rule, job, takenOff>>

\* The reader, on screen, counts a document and the window notes what it finds.
ReaderCounts(p) ==
  /\ ~shown /\ p \in open
  /\ locked' = IF <<p, disk[p]>> \in Protected THEN locked \cup {p} ELSE locked \ {p}
  /\ UNCHANGED <<disk, open, shown, page, answer, rule, job, takenOff>>

(***************************************************************************)
(* The user on the page.  Everything is disabled during the job.           *)
(***************************************************************************)
\* _handle_files: the file joins the list, then the documents.
HandleFiles(p, docs) ==
  /\ shown /\ ~Running
  /\ open' = open \cup {p}
  /\ page' = Synced(AddFiles([page EXCEPT !.removed = @ \ {p}], <<p>>), docs)
  /\ takenOff' = takenOff \ {p}
  /\ UNCHANGED <<disk, locked, shown, answer, rule, job>>

\* _remove_key
RemoveKey(p) ==
  /\ shown /\ ~Running /\ p \in FilesIn(page.list)
  /\ page' = ListChanged([page EXCEPT !.removed = @ \cup {p}],
                         Only(page.list, Paths \ {p}))
  /\ takenOff' = takenOff \cup {p}
  /\ UNCHANGED <<disk, window, answer, rule, job>>

\* _move_selected, or a row dragged elsewhere.
ListReordered(order) ==
  /\ shown /\ ~Running /\ order # page.list
  /\ page' = ListChanged(page, order)
  /\ UNCHANGED <<disk, window, answer, rule, job, takenOff>>

StartMerge ==
  /\ shown /\ ~Running /\ ~Blocked(page)
  /\ job' = page.list
  /\ page' = [page EXCEPT !.result = <<>>]
  /\ UNCHANGED <<disk, window, answer, rule, takenOff>>

\* _merge_finished: the documents that changed meanwhile wait for the next refresh.
MergeFinished(success) ==
  /\ Running
  /\ job' = <<>>
  /\ page' = [page EXCEPT !.result = IF success THEN job ELSE <<>>]
  /\ UNCHANGED <<disk, window, answer, rule, takenOff>>

(***************************************************************************)
(* The count.                                                              *)
(***************************************************************************)
\* The worker process opens the file; it may fail without a word on the file.
CountReads ==
  /\ page.running # NoPath /\ answer = "pending"
  /\ answer' \in
       {"unsaid", IF <<page.running, disk[page.running]>> \in Protected THEN "protected" ELSE "usable"}
  /\ UNCHANGED <<disk, window, page, rule, job, takenOff>>

\* _count_finished: the answer is filed, the window hears of it and refreshes the page,
\* the next count starts.
AnswerFiled(t) ==
  [t EXCEPT !.running = NoPath,
            !.known[t.running] = [filed |-> t.print, unusable |-> answer = "protected"]]

CountFinished(docs) ==
  /\ answer # "pending"
  /\ LET p == page.running
         heard == p \in open /\ answer # "unsaid"
         filed == AnswerFiled(page)
     IN  /\ locked' = IF ~heard THEN locked
                      ELSE IF answer = "protected" THEN locked \cup {p} ELSE locked \ {p}
         /\ page' = StartNext(IF heard THEN Refreshed(filed, docs) ELSE filed)
  /\ rule' = TRUE
  /\ answer' = "pending"
  /\ UNCHANGED <<disk, open, shown, job, takenOff>>

\* _apply_preload_rule: if a document taken on arrival is unusable, the chosen one stays.
LeftOut(t) == {p \in FilesIn(t.list) : p \in t.preloaded /\ p # t.chosen}
RuleApplies(t) == ~Running /\ \E p \in t.preloaded : t.known[p].unusable

ApplyPreloadRule ==
  /\ rule /\ rule' = FALSE
  /\ page' = IF ~RuleApplies(page) THEN page
             ELSE ListChanged([page EXCEPT !.removed = @ \cup LeftOut(page), !.preloaded = {},
                                           !.result = <<>>],
                              Only(page.list, Paths \ LeftOut(page)))
  /\ UNCHANGED <<disk, window, answer, job, takenOff>>

\* A file is saved by another program, or unlocked in place by another tool.
Rewritten(p) ==
  /\ disk[p] < MaxVersion[p]
  /\ disk' = [disk EXCEPT ![p] = @ + 1]
  /\ UNCHANGED <<window, page, answer, rule, job, takenOff>>

Init ==
  /\ disk = [p \in Paths |-> 1]
  /\ open = {} /\ locked = {} /\ shown = FALSE
  /\ page = [list |-> <<>>, removed |-> {}, preloaded |-> {}, chosen |-> NoPath,
             queue |-> <<>>, running |-> NoPath, print |-> 0,
             known |-> [p \in Paths |-> NotCounted], result |-> <<>>]
  /\ answer = "pending" /\ rule = FALSE
  /\ job = <<>>
  /\ takenOff = {}

CountWorks == CountReads \/ \E docs \in Orders(open) : CountFinished(docs)

Next ==
  \/ \E docs \in Orders(open) :
       \/ \E selected \in IF open = {} THEN {NoPath} ELSE open : Arrive(docs, selected)
       \/ \E p \in open : DocumentClosed(p, docs)
  \/ Leave
  \/ \E set \in SUBSET Paths : \E docs \in Orders(set) : SessionChanged(set, docs)
  \/ \E p \in Paths :
       \/ DocumentOpened(p) \/ ReaderCounts(p) \/ Rewritten(p) \/ RemoveKey(p)
       \/ \E docs \in Orders(open \cup {p}) : HandleFiles(p, docs)
  \/ \E order \in Orders(FilesIn(page.list)) : ListReordered(order)
  \/ StartMerge \/ \E success \in BOOLEAN : MergeFinished(success)
  \/ CountWorks
  \/ ApplyPreloadRule

Spec == Init /\ [][Next]_vars

-----------------------------------------------------------------------------
(* A file taken off the list does not come back by itself: only when the    *)
(* user adds it again, or comes to Merge anew (set_workspace_documents:     *)
(* "Refreshes keep the user's order and removals").                         *)
RemovedStaysOff == takenOff \cap FilesIn(page.list) = {}

(* The files of the running job, and those of the result, are the files on  *)
(* screen in their order: no refresh, no late answer and no posted rule     *)
(* changes the list under a job, and what changes it clears the result.     *)
JobIsOfTheList ==
  /\ Running => job = page.list
  /\ page.result # <<>> => page.result = page.list

(* The merge is of the list as the user left it, before and during the job. *)
ListIsTheUsers == RemovedStaysOff /\ JobIsOfTheList

=============================================================================
