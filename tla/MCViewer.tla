------------------------------- MODULE MCViewer -------------------------------
(***************************************************************************)
(* The reader for TLC: one of its parts at work per behaviour, the others as *)
(* they were made, for no two share a state.                                 *)
(*   rendering   DocumentViewer                                             *)
(*   pages       ReaderView: three pages of different sizes, or one           *)
(*   search      ReaderSearch: two words and an empty field                   *)
(*   selection   ReaderSelection: two pages, of which one has its boxes kept   *)
(*   text        TextLayouts: a paragraph, amounts, a scan, one line, a title     *)
(*   worker      RenderAnswers: documents within the limits and beyond them      *)
(***************************************************************************)
EXTENDS DocumentViewer, TLAPS, SequenceTheorems

CONSTANTS
  a, b,
  Words, Blank, NoWords, MaxSearches,    \* of ReaderSearch
  Texts, MaxLayouts, MaxRequests,        \* of ReaderSelection
  MaxOpenings                            \* of both

ASSUME WordsAssumption == NoWords \in Words /\ NoWords \in Blank
ASSUME BoundsAssumption == {MaxSearches, MaxLayouts, MaxRequests, MaxOpenings} \subseteq Nat

VARIABLES
  atWork, reader, sOpening, sStatus, sBar, sView, sPending, sSearches,
  tOpening, tReady, tLayouts, tSelect, tPending, tRequests, tClipboard, tMade, drag,
  wDoc, wKnown, wRequest, wResult

viewerVars == vars
searchVars == <<sOpening, sStatus, sBar, sView, sPending, sSearches>>
selectionVars == <<tOpening, tReady, tLayouts, tSelect, tPending, tRequests, tClipboard, tMade>>
workerVars == <<wDoc, wKnown, wRequest, wResult>>
allVars == <<atWork, viewerVars, reader, searchVars, selectionVars, drag, workerVars>>

-----------------------------------------------------------------------------
(* Sheets of several sizes, pages whose text runs in words, in a column of *)
(* amounts with its total or in the uneven boxes of a recognised scan, and *)
(* documents that reach the limits of the rendering worker or pass them.   *)

Sheet(w, h) == [w |-> w, h |-> h]
ThreeSheets == <<Sheet(2, 4), Sheet(1, 1), Sheet(2, 3)>>
OneSheet == <<Sheet(1, 2)>>
ViewPorts == {Sheet(2, 3), Sheet(4, 5)}

Box(x, y, w, h) == [x |-> x, y |-> y, w |-> w, h |-> h]
Paragraph ==
  [w |-> 130, h |-> 70,
   boxes |-> <<Box(10, 10, 60, 20), Box(80, 10, 40, 20), Box(10, 40, 80, 20), Box(100, 40, 20, 20)>>]
Amounts ==
  [w |-> 120, h |-> 130,
   boxes |-> <<Box(80, 10, 30, 20), Box(70, 40, 40, 20), Box(60, 70, 50, 20), Box(10, 100, 40, 20),
               Box(70, 100, 40, 20)>>]
Scanned ==
  [w |-> 120, h |-> 90,
   boxes |-> <<Box(10, 12, 40, 20), Box(60, 10, 44, 22), Box(106, 10, 4, 8), Box(10, 40, 90, 20),
               Box(10, 66, 20, 16)>>]
Heading == [w |-> 120, h |-> 50, boxes |-> <<Box(10, 15, 50, 20), Box(70, 15, 40, 20)>>]
Title == [w |-> 120, h |-> 80, boxes |-> <<Box(10, 10, 100, 20), Box(10, 40, 50, 20)>>]
TextPages == {Paragraph, Amounts, Scanned, Heading, Title}

APage(w, h, boxes) == [side |-> "plain", laid |-> Sheet(w, h), boxes |-> boxes]
ADocument(sheets, hits) == [lock |-> "none", pages |-> sheets, hits |-> hits]
Plain(n) == [i \in 1 .. n |-> "plain"]

\* More text, boxes and matches than a request may bring back.
Full ==
  ADocument(<<APage(3, 4, Plain(5)), APage(1, 90, Plain(2)), APage(200, 7, <<"empty", "plain">>)>>,
            <<Plain(4), <<"empty">>, Plain(1), Plain(1)>>)
Odd ==
  ADocument(<<APage(9, 9, <<"hair", "plain">>), APage(5, 9, <<"far">>), APage(40, 60, <<"long">>)>>,
            <<<<"plain", "hair">>>>)
Unreadable ==
  {[Full EXCEPT !.lock = "password"], [Full EXCEPT !.lock = "load"], ADocument(<<>>, <<>>),
   ADocument([i \in 1 .. 4 |-> APage(1, 1, <<>>)], <<>>),
   ADocument(<<[APage(2, 2, <<>>) EXCEPT !.side = "far"]>>, <<>>)}
OfOnePage == {ADocument(<<APage(w, h, <<>>)>>, <<>>) : w, h \in {1, 2, 5, 8, 9, 17, 100}}
SampleDocuments == {Full, Odd} \cup Unreadable \cup OfOnePage

-----------------------------------------------------------------------------
ThreeSheetsOrOne == [d \in Docs |-> IF d = a THEN ThreeSheets ELSE OneSheet]

\* Two pages, with three characters and with two.
TwoTexts == <<3, 2>>

View == INSTANCE ReaderView WITH
  Sheets <- ThreeSheetsOrOne, Ports <- ViewPorts, Gap <- 2, Ceiling <- 2, Tallest <- 5,
  Opening <- "view"

Finder == INSTANCE ReaderSearch WITH
  opening <- sOpening, status <- sStatus, bar <- sBar, view <- sView, pending <- sPending,
  searches <- sSearches

Selection == INSTANCE ReaderSelection WITH
  opening <- tOpening, ready <- tReady, layouts <- tLayouts, select <- tSelect,
  pending <- tPending, requests <- tRequests, clipboard <- tClipboard, made <- tMade

Text == INSTANCE TextLayouts WITH Pages <- TextPages, Steps <- 3

Worker == INSTANCE RenderAnswers WITH
  Documents <- SampleDocuments, Conducts <- {"good", "gone", "unconfined", "crash"},
  MaxPages <- 3, MaxSide <- 8, MaxPixels <- 24, MaxRects <- 3, MaxMatches <- 2, MaxBoxes <- 2,
  MaxText <- 4,
  doc <- wDoc, known <- wKnown, request <- wRequest, result <- wResult

ReaderInit ==
  /\ atWork \in {"rendering", "pages", "search", "selection", "text", "worker"}
  /\ Init
  /\ View!Init /\ (atWork # "pages" => reader.port.w = 2)
  /\ Finder!Init
  /\ Selection!Init
  /\ IF atWork = "text" THEN Text!Init ELSE drag = [page |-> Paragraph]
  /\ Worker!Init /\ (atWork # "worker" => wDoc = Odd)

ReaderNext ==
  /\ UNCHANGED atWork
  /\ \/ /\ atWork = "rendering" /\ Next
        /\ UNCHANGED <<reader, searchVars, selectionVars, drag, workerVars>>
     \/ /\ atWork = "pages" /\ View!Next
        /\ UNCHANGED <<viewerVars, searchVars, selectionVars, drag, workerVars>>
     \/ /\ atWork = "search" /\ Finder!Next
        /\ UNCHANGED <<viewerVars, reader, selectionVars, drag, workerVars>>
     \/ /\ atWork = "selection" /\ Selection!Next
        /\ UNCHANGED <<viewerVars, reader, searchVars, drag, workerVars>>
     \/ /\ atWork = "text" /\ Text!Next
        /\ UNCHANGED <<viewerVars, reader, searchVars, selectionVars, workerVars>>
     \/ /\ atWork = "worker" /\ Worker!Next
        /\ UNCHANGED <<viewerVars, reader, searchVars, selectionVars, drag>>

\* A side that is not at work stays in its initial state, where no step of DocumentViewer's
\* Fairness is enabled.
ReaderSpec == ReaderInit /\ [][ReaderNext]_allVars /\ Fairness

\* What the bar and the pages show of a search is of the words in the field and of the
\* document on screen (ReaderSearch).
SearchIsOfTheField == Finder!SearchIsOfTheField

\* What the reader tells is what it shows (ReaderView, TextLayouts, RenderAnswers).
ReaderTellsWhatItShows ==
  /\ View!ReaderSaysWhereItIs
  /\ atWork = "text" => Text!SelectionFollowsTheText
  /\ Worker!LimitsAgree

\* What is copied was selected (ReaderSelection).
CopiedIsSelected == [][Selection!CopyStep]_selectionVars

-----------------------------------------------------------------------------
(* Nothing of an earlier opening is shown, for any files, any number of    *)
(* threads and of requests.  The argument is about generations: each       *)
(* closing and each opening makes the generation greater than that of      *)
(* every task made before, so a window without a document has no task of   *)
(* its generation left whose answer could fill it.                         *)

Results == {"ok", "password", "isolation", "load"}
Tasks == [gen : Nat, action : Actions, cancelled : BOOLEAN]

Typed ==
  /\ path \in MaybeDoc
  /\ generation \in Nat /\ serial \in Nat /\ pages \in Nat
  /\ task \in [1..serial -> Tasks]
  /\ tasks \subseteq 1..serial
  /\ pool \in Seq(1..serial)
  /\ working \subseteq 1..serial
  /\ answers \in Seq([id : 1..serial, result : Results])

\* No task is of a later opening.
NoneAhead == \A r \in 1..serial : task[r].gen <= generation

\* Without a document there is nothing to wait for.
EmptyIsEmpty ==
  path = NoDoc => /\ status = "Null" /\ pages = 0
                  /\ \A r \in 1..serial : task[r].gen # generation

IInv == Typed /\ NoneAhead /\ EmptyIsEmpty /\ OnlyThePresentDocumentIsShown

-----------------------------------------------------------------------------
LEMMA AppendTask ==
  ASSUME NEW n \in Nat, NEW f \in [1..n -> Tasks], NEW x \in Tasks
  PROVE  /\ Append(f, x) \in [1..(n + 1) -> Tasks]
         /\ \A i \in 1..n : Append(f, x)[i] = f[i]
         /\ Append(f, x)[n + 1] = x
<1>1. f \in Seq(Tasks) /\ Len(f) = n BY SMT
<1>2. Append(f, x) \in Seq(Tasks) /\ Len(Append(f, x)) = n + 1 BY <1>1, AppendProperties
<1>3. Append(f, x) \in [1..(n + 1) -> Tasks] BY <1>2, LenProperties
<1> QED BY <1>1, <1>3, AppendProperties

LEMMA SeqGrows ==
  ASSUME NEW n \in Nat, NEW s \in Seq(1..n)
  PROVE  /\ s \in Seq(1..(n + 1))
         /\ Append(s, n + 1) \in Seq(1..(n + 1))
<1>1. 1..n \subseteq 1..(n + 1) /\ n + 1 \in 1..(n + 1) BY SMT
<1>2. s \in Seq(1..(n + 1)) BY <1>1, SeqMonotonic
<1> QED BY <1>1, <1>2, AppendProperties

LEMMA AnswersGrow ==
  ASSUME NEW n \in Nat, NEW s \in Seq([id : 1..n, result : Results])
  PROVE  s \in Seq([id : 1..(n + 1), result : Results])
<1>1. [id : 1..n, result : Results] \subseteq [id : 1..(n + 1), result : Results] BY SMT
<1> QED BY <1>1, SeqMonotonic

\* What cancelling leaves of the tasks.
LEMMA CancelledKeeps ==
  ASSUME Typed, NEW STATE some
  PROVE  /\ Cancelled(some) \in [1..serial -> Tasks]
         /\ \A r \in 1..serial : Cancelled(some)[r].gen = task[r].gen
<1>1. \A r \in 1..serial : task[r] \in Tasks BY DEF Typed
<1>2. \A r \in 1..serial : [task[r] EXCEPT !.cancelled = TRUE] \in Tasks BY <1>1 DEF Tasks
<1>3. \A r \in 1..serial : [task[r] EXCEPT !.cancelled = TRUE].gen = task[r].gen BY <1>1 DEF Tasks
<1> QED BY <1>1, <1>2, <1>3 DEF Cancelled

\* A request of the present opening keeps the types.
LEMMA RequestKeeps ==
  ASSUME Typed, NEW STATE old, old \in [1..serial -> Tasks], NEW STATE live, live \in SUBSET (1..serial),
         NEW gen \in Nat, NEW action \in Actions,
         Request(old, live, gen, action)
  PROVE  /\ serial' = serial + 1
         /\ task' \in [1..serial' -> Tasks]
         /\ tasks' \subseteq 1..serial'
         /\ pool' \in Seq(1..serial')
         /\ \A r \in 1..serial : task'[r] = old[r]
         /\ task'[serial'].gen = gen
<1>1. serial \in Nat /\ serial' = serial + 1 BY DEF Typed, Request
<1>2. NewTask(gen, action) \in Tasks /\ NewTask(gen, action).gen = gen BY DEF NewTask, Tasks
<1> DEFINE new == NewTask(gen, action)
<1>3. task' = Append(old, new) BY DEF Request
<1>4. /\ Append(old, new) \in [1..(serial + 1) -> Tasks]
      /\ \A r \in 1..serial : Append(old, new)[r] = old[r]
      /\ Append(old, new)[serial + 1] = new
  <2>1. ASSUME NEW x \in Tasks
        PROVE  /\ Append(old, x) \in [1..(serial + 1) -> Tasks]
               /\ \A r \in 1..serial : Append(old, x)[r] = old[r]
               /\ Append(old, x)[serial + 1] = x
    BY <1>1, AppendTask
  <2> QED BY <1>2, <2>1
<1>5. tasks' \subseteq 1..serial' BY <1>1, SMT DEF Request
<1>6. pool' \in Seq(1..serial') BY <1>1, SeqGrows DEF Request, Typed
<1> QED BY <1>1, <1>2, <1>3, <1>4, <1>5, <1>6

-----------------------------------------------------------------------------
LEMMA InitInv == Init => IInv
<1> SUFFICES ASSUME Init PROVE IInv OBVIOUS
<1>1. Typed BY EmptySeq, SMT DEF Init, Typed, MaybeDoc
<1>2. NoneAhead /\ EmptyIsEmpty BY SMT DEF Init, NoneAhead, EmptyIsEmpty
<1>3. OnlyThePresentDocumentIsShown BY DEF Init, OnlyThePresentDocumentIsShown
<1> QED BY <1>1, <1>2, <1>3 DEF IInv

\* The answer at the head of the queue is that of a task made.
LEMMA AnswerOfATask ==
  ASSUME Typed, answers # <<>>
  PROVE  /\ Answer.id \in 1..serial
         /\ Tail(answers) \in Seq([id : 1..serial, result : Results])
<1>1. Head(answers) \in [id : 1..serial, result : Results] BY HeadTailProperties DEF Typed
<1> QED BY <1>1, HeadTailProperties DEF Typed, Answer

\* A step that makes no request and leaves the openings as they are keeps the types, if
\* what it does to the queues does.
LEMMA SameOpening ==
  ASSUME IInv, UNCHANGED <<path, generation, serial, pages>>,
         \/ UNCHANGED task
         \/ \E some : task' = Cancelled(some)
  PROVE  /\ task' \in [1..serial -> Tasks] /\ NoneAhead'
         /\ (path = NoDoc => \A r \in 1..serial : task[r].gen # generation)'
<1>1. /\ task' \in [1..serial -> Tasks]
      /\ \A r \in 1..serial : task'[r].gen = task[r].gen
  BY CancelledKeeps DEF IInv, Typed
<1> QED BY <1>1 DEF IInv, NoneAhead, EmptyIsEmpty

LEMMA StepInv == IInv /\ [Next]_vars => IInv'
<1> SUFFICES ASSUME IInv, [Next]_vars PROVE IInv' OBVIOUS
<1> USE DEF IInv
<1>0. Typed /\ NoneAhead /\ EmptyIsEmpty /\ OnlyThePresentDocumentIsShown OBVIOUS
<1>g. serial \in Nat /\ generation \in Nat BY DEF Typed
<1>1. ASSUME NEW d \in Docs, Load(d) PROVE IInv'
  <2>1. Request(Cancelled(tasks), {}, generation + 2, "metadata") BY <1>1 DEF Load
  <2>2. Cancelled(tasks) \in [1..serial -> Tasks]
    BY CancelledKeeps
  <2>3. /\ serial' = serial + 1 /\ task' \in [1..serial' -> Tasks] /\ tasks' \subseteq 1..serial'
        /\ pool' \in Seq(1..serial')
        /\ \A r \in 1..serial : task'[r] = Cancelled(tasks)[r]
        /\ task'[serial'].gen = generation + 2
    <3>1. generation + 2 \in Nat /\ "metadata" \in Actions BY <1>g DEF Actions
    <3> QED BY <2>1, <2>2, <3>1, RequestKeeps
  <2>4. Typed'
    <3>1. answers' \in Seq([id : 1..serial', result : Results]) BY <1>1, <2>3, AnswersGrow DEF Load, Typed
    <3>2. working' \subseteq 1..serial' BY <1>1, <2>3, <1>g, SMT DEF Load, Typed
    <3>3. path' \in MaybeDoc BY <1>1 DEF Load, MaybeDoc
    <3>4. generation' \in Nat /\ pages' \in Nat /\ serial' \in Nat BY <1>1, <1>g, <2>3, SMT DEF Load
    <3> QED BY <2>3, <3>1, <3>2, <3>3, <3>4 DEF Typed
  <2>5. NoneAhead'
    <3>1. \A r \in 1..serial : task'[r].gen = task[r].gen BY <2>3, CancelledKeeps
    <3>2. \A r \in 1..serial : task[r].gen \in Nat BY DEF Typed, Tasks
    <3>3. generation' = generation + 2 BY <1>1 DEF Load
    <3> QED BY <2>3, <3>1, <3>2, <3>3, <1>g, SMT DEF NoneAhead
  <2>6. path' # NoDoc BY <1>1, ConstantsAssumption DEF Load
  <2>7. OnlyThePresentDocumentIsShown'
    BY <1>1, <2>6 DEF Load, ResetImages, OnlyThePresentDocumentIsShown
  <2> QED BY <2>4, <2>5, <2>6, <2>7 DEF EmptyIsEmpty
<1>2. ASSUME Empty PROVE IInv'
  <2>1. task' \in [1..serial -> Tasks] /\ \A r \in 1..serial : task'[r].gen = task[r].gen
    BY <1>2, CancelledKeeps DEF Empty
  <2>2. \A r \in 1..serial : task[r].gen \in Nat BY DEF Typed, Tasks
  <2>3. Typed' BY <1>2, <1>g, <2>1, SMT DEF Empty, Typed, threads, MaybeDoc
  <2>4. \A r \in 1..serial' : task'[r].gen < generation' BY <1>2, <1>g, <2>1, <2>2, SMT DEF Empty, NoneAhead
  <2>5. NoneAhead' /\ EmptyIsEmpty'
    <3>1. \A r \in 1..serial' : task'[r].gen \in Nat BY <1>2, <2>1, <2>2 DEF Empty
    <3>2. generation' \in Nat BY <2>3 DEF Typed
    <3>3. status' = "Null" /\ pages' = 0 BY <1>2 DEF Empty
    <3> QED BY <2>4, <3>1, <3>2, <3>3, SMT DEF NoneAhead, EmptyIsEmpty
  <2>6. OnlyThePresentDocumentIsShown' BY <1>2 DEF Empty, ResetImages, OnlyThePresentDocumentIsShown
  <2> QED BY <2>3, <2>5, <2>6
\* A request of the present opening, of a page or of words.
<1>3. ASSUME NEW STATE old, old \in [1..serial -> Tasks],
             NEW STATE live, live \in SUBSET (1..serial), NEW action \in Actions,
             \A r \in 1..serial : old[r].gen = task[r].gen,
             Request(old, live, generation, action), path # NoDoc,
             UNCHANGED <<path, generation, working>>,
             pages' \in Nat,
             answers' \in Seq([id : 1..serial, result : Results])
      PROVE  Typed' /\ NoneAhead' /\ EmptyIsEmpty'
  <2>1. /\ serial' = serial + 1 /\ task' \in [1..serial' -> Tasks] /\ tasks' \subseteq 1..serial'
        /\ pool' \in Seq(1..serial')
        /\ \A r \in 1..serial : task'[r] = old[r]
        /\ task'[serial'].gen = generation
    BY <1>3, <1>g, RequestKeeps
  <2>2. Typed'
    <3>1. answers' \in Seq([id : 1..serial', result : Results]) BY <1>3, <1>g, <2>1, AnswersGrow
    <3>2. working' \subseteq 1..serial' BY <1>3, <2>1, <1>g, SMT DEF Typed
    <3>3. serial' \in Nat BY <1>g, <2>1
    <3> QED BY <1>3, <2>1, <3>1, <3>2, <3>3 DEF Typed
  <2>3. NoneAhead'
    <3>1. \A r \in 1..serial : task'[r].gen <= generation BY <1>3, <2>1 DEF NoneAhead
    <3>2. \A r \in 1..(serial + 1) : r \in 1..serial \/ r = serial + 1 BY <1>g, SMT
    <3>3. generation <= generation BY <1>g, SMT
    <3> QED BY <1>3, <2>1, <3>1, <3>2, <3>3 DEF NoneAhead
  <2> QED BY <1>3, <2>2, <2>3 DEF EmptyIsEmpty
<1>4. ASSUME RequestPage PROVE IInv'
  <2>1. path # NoDoc BY <1>4 DEF RequestPage, EmptyIsEmpty
  <2>2. Typed' /\ NoneAhead' /\ EmptyIsEmpty'
    BY <1>3, <1>4, <2>1 DEF RequestPage, Typed, Actions
  <2>3. OnlyThePresentDocumentIsShown'
    BY <1>4 DEF RequestPage, inspection, OnlyThePresentDocumentIsShown
  <2> QED BY <2>2, <2>3
<1>5. ASSUME Search PROVE IInv'
  <2>1. path # NoDoc BY <1>5 DEF Search, EmptyIsEmpty
  <2> DEFINE old == Cancelled({search} \cap tasks)
  <2>2. old \in [1..serial -> Tasks] /\ \A r \in 1..serial : old[r].gen = task[r].gen
    BY CancelledKeeps
  <2>3. Request(old, tasks \ {search}, generation, "search") BY <1>5 DEF Search
  <2>4. tasks \ {search} \in SUBSET (1..serial) /\ "search" \in Actions BY DEF Typed, Actions
  <2>5. UNCHANGED <<path, generation, working, pages, answers>> BY <1>5 DEF Search
  <2>6. pages' \in Nat /\ answers' \in Seq([id : 1..serial, result : Results]) BY <2>5 DEF Typed
  <2> HIDE DEF old
  <2>7. Typed' /\ NoneAhead' /\ EmptyIsEmpty'
    BY <1>3, <2>1, <2>2, <2>3, <2>4, <2>5, <2>6
  <2>8. OnlyThePresentDocumentIsShown'
    BY <1>5 DEF Search, inspection, OnlyThePresentDocumentIsShown
  <2> QED BY <2>7, <2>8
<1>6. ASSUME ClearSearch PROVE IInv'
  <2>1. task' \in [1..serial -> Tasks] /\ NoneAhead'
        /\ (path = NoDoc => \A r \in 1..serial : task[r].gen # generation)'
    BY <1>6, SameOpening DEF ClearSearch
  <2>2. Typed' BY <1>6, <2>1 DEF ClearSearch, Typed, threads
  <2>3. EmptyIsEmpty' BY <1>6, <2>1 DEF ClearSearch, EmptyIsEmpty
  <2>4. OnlyThePresentDocumentIsShown'
    BY <1>6 DEF ClearSearch, inspection, OnlyThePresentDocumentIsShown
  <2> QED BY <2>1, <2>2, <2>3, <2>4
<1>7. ASSUME TaskStarts PROVE IInv'
  <2>1. Head(pool) \in 1..serial /\ Tail(pool) \in Seq(1..serial)
    BY <1>7, HeadTailProperties DEF TaskStarts, Typed
  <2>2. Typed' BY <1>7, <2>1 DEF TaskStarts, remote, Typed
  <2> QED BY <1>7, <2>2
       DEF TaskStarts, remote, view, inspection, NoneAhead, EmptyIsEmpty, OnlyThePresentDocumentIsShown
<1>8. ASSUME NEW r \in working, TaskReturns(r) PROVE IInv'
  <2>1. answers' \in Seq([id : 1..serial, result : Results])
    <3>1. CASE task[r].cancelled BY <1>8, <3>1 DEF TaskReturns, Typed
    <3>2. CASE ~task[r].cancelled
      <4>1. PICK result \in Results : answers' = Append(answers, [id |-> r, result |-> result])
        BY <1>8, <3>2 DEF TaskReturns, Results
      <4>2. [id |-> r, result |-> result] \in [id : 1..serial, result : Results] BY DEF Typed
      <4> QED BY <4>1, <4>2, AppendProperties DEF Typed
    <3> QED BY <3>1, <3>2
  <2>2. Typed' BY <1>8, <2>1 DEF TaskReturns, remote, Typed
  <2> QED BY <1>8, <2>2
       DEF TaskReturns, remote, view, inspection, NoneAhead, EmptyIsEmpty, OnlyThePresentDocumentIsShown
<1>9. ASSUME ReceiveStale PROVE IInv'
  <2>1. Typed' BY <1>9, AnswerOfATask DEF ReceiveStale, Typed
  <2> QED BY <1>9, <2>1
       DEF ReceiveStale, view, inspection, NoneAhead, EmptyIsEmpty, OnlyThePresentDocumentIsShown
\* An answer to the present opening finds its document still there.
<1>10. ASSUME answers # <<>>, IsCurrent PROVE path # NoDoc
  BY <1>10, AnswerOfATask DEF IsCurrent, Asked, EmptyIsEmpty
<1>11. ASSUME Loaded PROVE IInv'
  <2>1. answers # <<>> /\ IsCurrent /\ answers' = Tail(answers) BY <1>11 DEF Loaded, Receive
  <2>2. path # NoDoc BY <1>10, <2>1
  <2>3. answers' \in Seq([id : 1..serial, result : Results]) BY <2>1, AnswerOfATask
  <2>4. UNCHANGED <<path, generation, working, inspected>> /\ pages' = generation BY <1>11 DEF Loaded
  <2>5. Typed' /\ NoneAhead' /\ EmptyIsEmpty'
    <3>1. CASE query
      <4>1. Request(task, tasks \ {Answer.id}, generation, "search") BY <1>11, <3>1 DEF Loaded
      <4>2. tasks \ {Answer.id} \in SUBSET (1..serial) /\ "search" \in Actions BY DEF Typed, Actions
      <4>3. task \in [1..serial -> Tasks] BY DEF Typed
      <4>4. pages' \in Nat BY <2>4, <1>g
      <4> QED BY <1>3, <2>2, <2>3, <2>4, <4>1, <4>2, <4>3, <4>4
    <3>2. CASE ~query
      <4>1. tasks' = tasks \ {Answer.id} /\ UNCHANGED <<serial, task, pool>> BY <1>11, <3>2 DEF Loaded
      <4>2. Typed' BY <2>3, <2>4, <4>1 DEF Typed
      <4> QED BY <2>2, <2>4, <4>1, <4>2 DEF NoneAhead, EmptyIsEmpty
    <3> QED BY <3>1, <3>2
  <2>6. OnlyThePresentDocumentIsShown'
    BY <1>11, <2>2, <2>4 DEF Loaded, ResetImages, OnlyThePresentDocumentIsShown
  <2> QED BY <2>5, <2>6
<1>12. ASSUME LoadFailed PROVE IInv'
  <2>1. answers # <<>> /\ IsCurrent /\ answers' = Tail(answers) BY <1>12 DEF LoadFailed, Receive
  <2>2. path # NoDoc BY <1>10, <2>1
  <2>3. Typed' BY <1>12, <2>1, AnswerOfATask DEF LoadFailed, Typed
  <2> QED BY <1>12, <2>2, <2>3 DEF LoadFailed, inspection, NoneAhead, EmptyIsEmpty, OnlyThePresentDocumentIsShown
<1>13. ASSUME ImageArrives PROVE IInv'
  <2>1. answers # <<>> /\ IsCurrent /\ answers' = Tail(answers) BY <1>13 DEF ImageArrives, Receive
  <2>2. path # NoDoc BY <1>10, <2>1
  <2>3. Typed' BY <1>13, <2>1, AnswerOfATask DEF ImageArrives, Typed
  <2>4. images' \subseteq {generation'}
    BY <1>13, <2>1 DEF ImageArrives, IsCurrent, OnlyThePresentDocumentIsShown
  <2> QED BY <1>13, <2>2, <2>3, <2>4
       DEF ImageArrives, inspection, NoneAhead, EmptyIsEmpty, OnlyThePresentDocumentIsShown
<1>14. ASSUME MatchesArrive PROVE IInv'
  <2>1. answers # <<>> /\ IsCurrent /\ answers' = Tail(answers) BY <1>14 DEF MatchesArrive, Receive
  <2>2. path # NoDoc BY <1>10, <2>1
  <2>3. Typed' BY <1>14, <2>1, AnswerOfATask DEF MatchesArrive, Typed
  <2>4. matches' \in {0, generation'}
    BY <1>14, <2>1 DEF MatchesArrive, IsCurrent, OnlyThePresentDocumentIsShown
  <2> QED BY <1>14, <2>2, <2>3, <2>4
       DEF MatchesArrive, inspection, NoneAhead, EmptyIsEmpty, OnlyThePresentDocumentIsShown
<1>15. ASSUME InspectionFinished PROVE IInv'
  BY <1>15 DEF InspectionFinished, remote, threads, view, Typed, NoneAhead, EmptyIsEmpty,
               OnlyThePresentDocumentIsShown
<1>16. ASSUME UNCHANGED vars PROVE IInv'
  BY <1>16 DEF vars, remote, threads, view, inspection, Typed, NoneAhead, EmptyIsEmpty,
               OnlyThePresentDocumentIsShown
<1> QED
  BY <1>1, <1>2, <1>4, <1>5, <1>6, <1>7, <1>8, <1>9, <1>11, <1>12, <1>13, <1>14, <1>15, <1>16
  DEF Next, User, Pool, Gui

\* Nothing of an earlier opening is shown, whatever the order in which the threads of the
\* pool answer (RemotePdfDocument._completed, IsolatedPdfView._result_ready,
\* DocumentWorkspace._inspection_finished).
THEOREM OnlyThePresentIsShown == ReaderSpec => []OnlyThePresentDocumentIsShown
<1>1. ReaderInit => IInv
  BY InitInv DEF ReaderInit
<1>2. [ReaderNext]_allVars => [Next]_vars
  BY DEF ReaderNext, allVars, viewerVars
<1>3. IInv => OnlyThePresentDocumentIsShown
  BY DEF IInv
<1> QED
  BY <1>1, <1>2, <1>3, StepInv, PTL DEF ReaderSpec
-----------------------------------------------------------------------------
(* The search, for any words and any number of openings and searches.  Each *)
(* search has a number of its own, so the answer with the number the view   *)
(* waits for is of the words it asked; and the view remembers words only    *)
(* with the field, unless more was typed since.                             *)

States == {"idle", "running", "done", "failed"}
Bars == [shown : BOOLEAN, words : Words, timer : BOOLEAN, state : States]
Views == [query : Words, id : Nat, matches : [of : Nat, words : Words]]

FinderTyped ==
  /\ sOpening \in Nat /\ sSearches \in Nat
  /\ sBar \in Bars /\ sView \in Views
  /\ \A q \in sPending : q.id \in 1 .. sSearches /\ q.words \in Words

SearchesDiffer == \A q, r \in sPending : q.id = r.id => q = r

FinderInv ==
  /\ FinderTyped /\ SearchesDiffer /\ Finder!SearchIsOfTheField
  /\ sView.id # 0 => Finder!HasPages
  /\ sView.query # NoWords /\ ~sBar.timer => sView.query = sBar.words
  /\ sBar.state # "idle" => sView.query # NoWords

LEMMA FinderStarts == ReaderInit => FinderInv
BY WordsAssumption DEF ReaderInit, Finder!Init, FinderInv, FinderTyped, SearchesDiffer, Finder!SearchIsOfTheField,
   Finder!HasPages, Finder!Cleared, Finder!NoMatches, Bars, Views, States

\* The bar is closed, or the words are forgotten: nothing of a search is left.
LEMMA SearchIsForgotten ==
  ASSUME FinderInv, sView' = Finder!Cleared, sBar' \in Bars, sBar'.state = "idle",
         ~sBar'.shown => ~sBar'.timer, sOpening' \in Nat, UNCHANGED <<sPending, sSearches>>
  PROVE  FinderInv'
<1>1. sView' = [query |-> NoWords, id |-> 0, matches |-> [of |-> 0, words |-> NoWords]]
  BY DEF Finder!Cleared, Finder!NoMatches
<1>2. FinderTyped'
  BY <1>1, WordsAssumption DEF FinderInv, FinderTyped, Views
<1>3. Finder!SearchIsOfTheField'
  BY <1>1 DEF Finder!SearchIsOfTheField, Finder!Cleared, Finder!NoMatches
<1> QED
  BY <1>1, <1>2, <1>3 DEF FinderInv, SearchesDiffer

\* A search begins, of words that are those of the field unless more was typed since.
LEMMA SearchBegins ==
  ASSUME FinderInv, NEW bar \in Bars, NEW words \in Words, NEW withPages \in BOOLEAN,
         Finder!Search(bar, words, withPages), sOpening' = sOpening, withPages => Finder!HasPages',
         words # NoWords => bar.shown, ~bar.shown => ~bar.timer,
         words # NoWords /\ ~bar.timer => words = bar.words
  PROVE  FinderInv'
<1>1. CASE words \in Blank \/ ~withPages
  <2>1. sView' = Finder!Cleared /\ sBar' = [bar EXCEPT !.state = "idle"] /\ UNCHANGED <<sPending, sSearches>>
    BY <1>1 DEF Finder!Search
  <2>2. sBar' \in Bars /\ sBar'.state = "idle" /\ sBar'.shown = bar.shown /\ sBar'.timer = bar.timer
    BY <2>1 DEF Bars, States
  <2> QED
    BY <2>1, <2>2, SearchIsForgotten DEF FinderInv, FinderTyped
<1>2. CASE words \notin Blank /\ withPages
  <2> DEFINE newest == [id |-> sSearches + 1, of |-> sOpening, words |-> words]
  <2>1. /\ sSearches' = sSearches + 1
        /\ sView' = [Finder!Cleared EXCEPT !.query = words, !.id = sSearches + 1]
        /\ sBar' = [bar EXCEPT !.state = "running"]
        /\ sPending' = sPending \cup {newest}
    BY <1>2 DEF Finder!Search
  <2>2. sView' = [query |-> words, id |-> sSearches + 1, matches |-> Finder!NoMatches]
    BY <2>1 DEF Finder!Cleared
  <2>3. /\ sBar' \in Bars /\ sBar'.state = "running" /\ sBar'.shown = bar.shown
        /\ sBar'.timer = bar.timer /\ sBar'.words = bar.words
    BY <2>1 DEF Bars, States
  <2>4. sSearches \in Nat /\ sOpening \in Nat /\ words # NoWords
    BY <1>2, WordsAssumption DEF FinderInv, FinderTyped
  <2>5. FinderTyped'
    BY <2>1, <2>2, <2>3, <2>4, WordsAssumption DEF FinderInv, FinderTyped, Views, Finder!NoMatches
  <2>6. SearchesDiffer'
    BY <2>1, <2>4 DEF FinderInv, FinderTyped, SearchesDiffer
  <2>7. Finder!SearchIsOfTheField'
    <3>1. newest \in sPending' /\ newest.id = sView'.id /\ newest.of = sOpening' /\ newest.words = sView'.query
      BY <2>1, <2>2
    <3>2. sView'.matches = Finder!NoMatches /\ sView'.id # 0 /\ sView'.query = words
      BY <2>2, <2>4
    <3> QED
      BY <2>3, <2>4, <3>1, <3>2 DEF Finder!SearchIsOfTheField
  <2> QED
    BY <1>2, <2>2, <2>3, <2>4, <2>5, <2>6, <2>7 DEF FinderInv
<1> QED
  BY <1>1, <1>2

\* Nothing but the bar changes: it is shown, or more is typed into it.
LEMMA FieldGoesOn ==
  ASSUME FinderInv, sBar' \in Bars, sBar'.shown, sBar'.state = sBar.state,
         sBar'.timer \/ (sBar'.timer = sBar.timer /\ sBar'.words = sBar.words),
         UNCHANGED <<sOpening, sStatus, sView, sPending, sSearches>>
  PROVE  FinderInv'
BY DEF FinderInv, FinderTyped, SearchesDiffer, Finder!SearchIsOfTheField, Finder!HasPages

LEMMA SearchRuns ==
  ASSUME FinderInv, NEW bar \in Bars, bar.shown, Finder!RunSearch(bar), UNCHANGED <<sOpening, sStatus>>
  PROVE  FinderInv'
<1> DEFINE next == [bar EXCEPT !.timer = FALSE]
<1>1. next \in Bars /\ next.shown /\ ~next.timer /\ next.words = bar.words /\ bar.words \in Words
  BY DEF Bars
<1>2. Finder!Search(next, bar.words, Finder!HasPages)
  BY DEF Finder!RunSearch
<1>3. Finder!HasPages \in BOOLEAN /\ Finder!HasPages' = Finder!HasPages
  BY DEF Finder!HasPages
<1> HIDE DEF next
<1> QED
  BY <1>1, <1>2, <1>3, SearchBegins

LEMMA FinderSteps == FinderInv /\ [Finder!Next]_searchVars => FinderInv'
<1> SUFFICES ASSUME FinderInv, [Finder!Next]_searchVars PROVE FinderInv'
  OBVIOUS
<1> DEFINE closed == [sBar EXCEPT !.timer = FALSE, !.shown = FALSE, !.state = "idle"]
<1>0. sBar \in Bars /\ sView \in Views /\ sOpening \in Nat
  BY DEF FinderInv, FinderTyped
<1>a. closed \in Bars /\ ~closed.timer /\ ~closed.shown /\ closed.state = "idle"
  BY <1>0 DEF Bars, States
<1>1. CASE Finder!Load
  <2>1. sView' = [query |-> sView.query, id |-> 0, matches |-> Finder!NoMatches]
    BY <1>1 DEF Finder!Load, Finder!Cleared
  <2>2. sBar' \in Bars /\ sBar'.state = "idle" /\ sBar'.shown = sBar.shown /\ sBar'.timer = sBar.timer
        /\ sBar'.words = sBar.words
    BY <1>0, <1>1 DEF Finder!Load, Bars, States
  <2>3. sOpening' \in Nat /\ sStatus' = "loading" /\ UNCHANGED <<sPending, sSearches>>
    BY <1>0, <1>1 DEF Finder!Load
  <2>4. ~sBar.shown => sView' = Finder!Cleared
    BY <2>1 DEF FinderInv, Finder!SearchIsOfTheField, Finder!Cleared
  <2>5. FinderTyped'
    BY <1>0, <2>1, <2>2, <2>3, WordsAssumption DEF FinderInv, FinderTyped, Views, Finder!NoMatches
  <2>6. Finder!SearchIsOfTheField'
    BY <2>1, <2>2, <2>3, <2>4 DEF FinderInv, Finder!SearchIsOfTheField, Finder!HasPages
  <2> QED
    BY <2>1, <2>2, <2>3, <2>5, <2>6 DEF FinderInv, SearchesDiffer
<1>2. CASE Finder!Loaded
  <2>1. Finder!Search(sBar, sView.query, TRUE) /\ sOpening' = sOpening /\ Finder!HasPages'
    BY <1>2 DEF Finder!Loaded, Finder!HasPages
  <2>2. sView.query \in Words
    BY <1>0 DEF Views
  <2>3. sView.query # NoWords => sBar.shown
    BY DEF FinderInv, Finder!SearchIsOfTheField, Finder!Cleared
  <2>4. ~sBar.shown => ~sBar.timer
    BY DEF FinderInv, Finder!SearchIsOfTheField
  <2> QED
    BY <1>0, <2>1, <2>2, <2>3, <2>4, SearchBegins DEF FinderInv
<1>3. CASE Finder!Emptied \/ Finder!UserCloses
  <2>1. sBar' = closed /\ sView' = Finder!Cleared /\ UNCHANGED <<sPending, sSearches>> /\ sOpening' \in Nat
    BY <1>0, <1>3 DEF Finder!Emptied, Finder!UserCloses, Finder!CloseSearch, Finder!Closed
  <2> QED
    BY <1>a, <2>1, SearchIsForgotten
<1>4. ASSUME NEW p \in BOOLEAN, Finder!LoadFailed(p) PROVE FinderInv'
  <2>1. CASE p
    <3>1. sBar' = closed /\ sView' = Finder!Cleared /\ UNCHANGED <<sOpening, sPending, sSearches>>
      BY <1>4, <2>1 DEF Finder!LoadFailed, Finder!CloseSearch, Finder!Closed
    <3> QED
      BY <1>0, <1>a, <3>1, SearchIsForgotten
  <2>2. CASE ~p
    BY <1>4, <2>2 DEF Finder!LoadFailed, FinderInv, FinderTyped, SearchesDiffer, Finder!SearchIsOfTheField,
       Finder!HasPages
  <2> QED
    BY <2>1, <2>2
<1>5. CASE Finder!OpenSearch
  <2> DEFINE opened == [sBar EXCEPT !.shown = TRUE]
  <2>1. /\ opened \in Bars /\ opened.shown /\ opened.state = sBar.state
        /\ opened.timer = sBar.timer /\ opened.words = sBar.words
    BY <1>0 DEF Bars
  <2>2. /\ UNCHANGED <<sOpening, sStatus>>
        /\ Finder!RunSearch(opened) \/ (sBar' = opened /\ UNCHANGED <<sView, sPending, sSearches>>)
    BY <1>5 DEF Finder!OpenSearch
  <2> HIDE DEF opened
  <2> QED
    BY <2>1, <2>2, SearchRuns, FieldGoesOn
<1>6. CASE Finder!TimerFires \/ Finder!Enter
  <2>1. sBar.shown
    BY <1>6 DEF Finder!TimerFires, Finder!Enter, FinderInv, Finder!SearchIsOfTheField
  <2> QED
    BY <1>0, <1>6, <2>1, SearchRuns DEF Finder!TimerFires, Finder!Enter
<1>7. ASSUME NEW w \in Words, Finder!Type(w) PROVE FinderInv'
  <2>1. sBar' = [sBar EXCEPT !.words = w, !.timer = TRUE] /\ sBar.shown
        /\ UNCHANGED <<sOpening, sStatus, sView, sPending, sSearches>>
    BY <1>7 DEF Finder!Type
  <2>2. sBar' \in Bars /\ sBar'.shown /\ sBar'.state = sBar.state /\ sBar'.timer
    BY <1>0, <2>1 DEF Bars
  <2> QED
    BY <2>1, <2>2, FieldGoesOn
<1>8. ASSUME NEW q \in sPending, q.of # sOpening \/ q.id # sView.id, sPending' = sPending \ {q},
             UNCHANGED <<sOpening, sStatus, sBar, sView, sSearches>>
      PROVE  FinderInv'
  <2>1. FinderTyped' /\ SearchesDiffer'
    BY <1>8 DEF FinderInv, FinderTyped, SearchesDiffer
  <2>2. sView.id # 0 => \E r \in sPending' : r.id = sView.id /\ r.of = sOpening /\ r.words = sView.query
    BY <1>8 DEF FinderInv, Finder!SearchIsOfTheField
  <2>3. Finder!SearchIsOfTheField'
    BY <1>8, <2>2 DEF FinderInv, Finder!SearchIsOfTheField, Finder!HasPages
  <2> QED
    BY <1>8, <2>1, <2>3 DEF FinderInv, Finder!HasPages
<1>9. ASSUME NEW q \in sPending, Finder!GivenUp(q) PROVE FinderInv'
  BY <1>8, <1>9 DEF Finder!GivenUp
<1>10. ASSUME NEW q \in sPending, NEW ok \in BOOLEAN, Finder!Answered(q, ok) PROVE FinderInv'
  <2>1. sPending' = sPending \ {q} /\ UNCHANGED <<sOpening, sStatus, sSearches>>
    BY <1>10 DEF Finder!Answered
  <2>2. CASE q.of = sOpening /\ q.id = sView.id
    <3> DEFINE found == IF ok THEN [of |-> q.of, words |-> q.words] ELSE Finder!NoMatches
               state == IF ok THEN "done" ELSE "failed"
    <3>1. /\ sView' = [sView EXCEPT !.id = 0, !.matches = found]
          /\ sBar' = [sBar EXCEPT !.state = state]
      BY <1>10, <2>2 DEF Finder!Answered
    <3>2. sView' = [query |-> sView.query, id |-> 0, matches |-> found]
      BY <1>0, <3>1 DEF Views
    <3>3. /\ sBar' \in Bars /\ sBar'.state = state /\ sBar'.shown = sBar.shown
          /\ sBar'.timer = sBar.timer /\ sBar'.words = sBar.words
      BY <1>0, <3>1 DEF Bars, States
    <3>4. q.id # 0 /\ q.words \in Words
      BY <1>10 DEF FinderInv, FinderTyped
    <3>5. q.words = sView.query /\ Finder!HasPages /\ sBar.state = "running" /\ sBar.shown
      BY <2>2, <3>4 DEF FinderInv, SearchesDiffer, Finder!SearchIsOfTheField, Finder!Cleared
    <3>6. FinderTyped'
      BY <1>0, <2>1, <2>2, <3>2, <3>3, <3>4, WordsAssumption
         DEF FinderInv, FinderTyped, Views, Finder!NoMatches
    <3>7. Finder!SearchIsOfTheField'
      BY <2>1, <2>2, <3>2, <3>3, <3>5 DEF FinderInv, Finder!SearchIsOfTheField, Finder!HasPages
    <3> QED
      BY <2>1, <3>2, <3>3, <3>5, <3>6, <3>7 DEF FinderInv, SearchesDiffer
  <2>3. CASE ~(q.of = sOpening /\ q.id = sView.id)
    BY <1>8, <1>10, <2>1, <2>3 DEF Finder!Answered
  <2> QED
    BY <2>2, <2>3
<1>11. CASE UNCHANGED searchVars
  BY <1>11 DEF searchVars, FinderInv, FinderTyped, SearchesDiffer, Finder!SearchIsOfTheField, Finder!HasPages
<1> QED
  BY <1>1, <1>2, <1>3, <1>4, <1>5, <1>6, <1>7, <1>9, <1>10, <1>11 DEF Finder!Next

(* Whatever is typed, closed, opened and answered in whatever order: the     *)
(* state of the bar and the matches are of the words of the field and of the *)
(* document on screen (DocumentWorkspace._run_search, _close_search,         *)
(* IsolatedPdfView.search, _result_ready).                                   *)
THEOREM TheFieldIsSearched == ReaderSpec => []SearchIsOfTheField
<1>1. [ReaderNext]_allVars => [Finder!Next]_searchVars
  BY DEF ReaderNext, allVars
<1>2. FinderInv => SearchIsOfTheField
  BY DEF FinderInv, SearchIsOfTheField
<1> QED
  BY <1>1, <1>2, FinderStarts, FinderSteps, PTL DEF ReaderSpec
-----------------------------------------------------------------------------
(* The selection, for any pages, any number of openings and of requests and *)
(* any limit of the boxes kept.  Requests are numbered, and only the last    *)
(* request for text is waited for: its span was drawn since the last press,  *)
(* which forgets the number, as an opening does.                             *)

Kept == [page : DOMAIN Texts, chars : {Texts[p] : p \in DOMAIN Texts} \cup {0}]

\* A selection is a record of these fields.
IsSelect(s) ==
  s = [page |-> s.page, anchor |-> s.anchor, focus |-> s.focus, drawn |-> s.drawn, text |-> s.text,
       id |-> s.id, copying |-> s.copying, pressed |-> s.pressed]

SelectionTyped ==
  /\ tOpening \in Nat /\ tRequests \in Nat
  /\ tLayouts \in Seq(Kept) /\ Len(tLayouts) <= MaxLayouts
  /\ IsSelect(tSelect) /\ tSelect.id \in 0 .. tRequests
  /\ \A q \in tPending :
       /\ q.id \in 1 .. tRequests /\ q.of \in 0 .. tOpening
       /\ q.kind \in {"lines", "selection"}
       /\ q.kind = "lines" => q.page \in DOMAIN Texts

\* The boxes of a page are asked for once, and not when they are kept.
LinesOnce ==
  /\ \A q, r \in tPending :
       q.kind = "lines" /\ r.kind = "lines" /\ q.of = tOpening /\ r.of = tOpening /\ q.page = r.page => q = r
  /\ \A q \in tPending : q.kind = "lines" /\ q.of = tOpening => q.page \notin Selection!Laid(tLayouts)

\* The text that is waited for, and the one that came, were drawn on the selection's page.
TextIsDrawn ==
  /\ \A q \in tPending :
       q.kind = "selection" /\ q.of = tOpening /\ q.id = tSelect.id =>
         q.span \in tMade /\ q.span.page = tSelect.page
  /\ tSelect.text # Selection!NoText => tSelect.text \in tMade
  /\ tSelect.drawn # Selection!NoText => tSelect.drawn.page = tSelect.page

SelectionInv == SelectionTyped /\ LinesOnce /\ TextIsDrawn

LEMMA SelectionStarts == ReaderInit => SelectionInv
BY BoundsAssumption DEF ReaderInit, Selection!Init, SelectionInv, SelectionTyped, LinesOnce, TextIsDrawn,
   IsSelect, Selection!NoSelection, Selection!NoText

LEMMA CaretsAreOfThePage ==
  ASSUME NEW s, NEW kept, ~Selection!IsEmpty(Selection!Carets(s, kept))
  PROVE  Selection!Carets(s, kept).page = s.page /\ Selection!Carets(s, kept) # Selection!NoText
<1>1. ~Selection!IsEmpty(Selection!NoText) = FALSE
  BY DEF Selection!IsEmpty, Selection!NoText
<1>2. s.page \in Selection!Laid(kept)
  BY <1>1 DEF Selection!Carets
<1> QED
  BY <1>1, <1>2 DEF Selection!Carets

\* The highlight changes, and nothing else of the selection.
LEMMA HighlightChanges ==
  ASSUME NEW s, NEW kept, IsSelect(s)
  PROVE  LET h == Selection!Highlighted(s, kept)
         IN  /\ IsSelect(h) /\ h.page = s.page /\ h.text = s.text /\ h.id = s.id
             /\ h.anchor = s.anchor /\ h.focus = s.focus /\ h.pressed = s.pressed
             /\ h.drawn # Selection!NoText => h.drawn.page = s.page
             /\ Selection!Carets(h, kept) = Selection!Carets(s, kept)
             /\ ~Selection!IsEmpty(Selection!Carets(s, kept)) => h.drawn = Selection!Carets(s, kept)
<1> DEFINE span == Selection!Carets(s, kept)
           drawn == IF Selection!IsEmpty(span) THEN Selection!NoText ELSE span
           h == Selection!Highlighted(s, kept)
<1>1. h = [s EXCEPT !.drawn = drawn]
  BY DEF Selection!Highlighted
<1>2. drawn # Selection!NoText => drawn.page = s.page
  BY CaretsAreOfThePage
<1>3. ~Selection!IsEmpty(span) => drawn = span
  OBVIOUS
<1> HIDE DEF drawn, h
<1>4. h = [page |-> s.page, anchor |-> s.anchor, focus |-> s.focus, drawn |-> drawn, text |-> s.text,
           id |-> s.id, copying |-> s.copying, pressed |-> s.pressed]
  BY <1>1 DEF IsSelect
<1>5. Selection!Carets(h, kept) = span
  BY <1>4 DEF Selection!Carets
<1> QED
  BY <1>2, <1>3, <1>4, <1>5 DEF IsSelect, h

\* The page with boxes is moved to the end of the list: the same pages, as many.
LEMMA MovedIsKept ==
  ASSUME NEW kept \in Seq(Kept), NEW page \in Selection!Laid(kept)
  PROVE  LET moved == Selection!MovedToEnd(kept, page)
         IN  /\ moved \in Seq(Kept) /\ Len(moved) = Len(kept)
             /\ Selection!Laid(moved) \subseteq Selection!Laid(kept)
<1> DEFINE i == Selection!PlaceOf(kept, page)
           moved == Selection!MovedToEnd(kept, page)
<1>1. i \in DOMAIN kept /\ kept[i].page = page
  BY DEF Selection!PlaceOf, Selection!Laid
<1>2. i \in 1 .. Len(kept) /\ kept[i] \in Kept
  BY <1>1
<1>3. moved = Append(SubSeq(kept, 1, i - 1) \o SubSeq(kept, i + 1, Len(kept)), kept[i])
  BY DEF Selection!MovedToEnd, Selection!RemoveAt, Selection!LayoutOf
<1> HIDE DEF i, moved
<1> DEFINE front == SubSeq(kept, 1, i - 1)
           back == SubSeq(kept, i + 1, Len(kept))
<1>4. /\ front \in Seq(Kept) /\ Len(front) = i - 1
      /\ \A j \in 1 .. i - 1 : front[j] = kept[j]
  BY <1>2
<1>5. /\ back \in Seq(Kept) /\ Len(back) = Len(kept) - i
      /\ \A j \in 1 .. Len(kept) - i : back[j] = kept[i + j]
  BY <1>2
<1> HIDE DEF front, back
<1>6. moved = Append(front \o back, kept[i])
  BY <1>3 DEF front, back
<1> DEFINE joined == front \o back
<1>7. /\ joined \in Seq(Kept) /\ Len(joined) = Len(kept) - 1
      /\ \A j \in 1 .. i - 1 : joined[j] = kept[j]
      /\ \A j \in i .. Len(kept) - 1 : joined[j] = kept[j + 1]
  <2>1. joined \in Seq(Kept) /\ Len(joined) = Len(kept) - 1
    BY <1>2, <1>4, <1>5
  <2>2. \A j \in 1 .. i - 1 : joined[j] = kept[j]
    BY <1>2, <1>4, <1>5
  <2>3. ASSUME NEW j \in i .. Len(kept) - 1 PROVE joined[j] = kept[j + 1]
    <3>1. joined[j] = back[j - i + 1]
      BY <1>2, <1>4, <1>5
    <3>2. j - i + 1 \in 1 .. Len(kept) - i /\ i + (j - i + 1) = j + 1
      BY <1>2
    <3>3. back[j - i + 1] = kept[j + 1]
      BY <1>5, <3>2
    <3> QED BY <3>1, <3>3
  <2> QED
    BY <2>1, <2>2, <2>3
<1> HIDE DEF joined
<1>8. /\ moved \in Seq(Kept) /\ Len(moved) = Len(kept)
      /\ \A j \in DOMAIN moved : moved[j] = IF j = Len(kept) THEN kept[i] ELSE joined[j]
  <2> DEFINE last == kept[i]
  <2>1. moved = Append(joined, last) /\ last \in Kept
    BY <1>2, <1>6 DEF joined
  <2> HIDE DEF last
  <2>2. moved \in Seq(Kept) /\ Len(moved) = Len(joined) + 1
    BY <1>7, <2>1
  <2>3. \A j \in DOMAIN moved : moved[j] = IF j = Len(joined) + 1 THEN last ELSE joined[j]
    BY <1>7, <2>1
  <2> QED
    BY <1>2, <1>7, <2>2, <2>3 DEF last
<1>9. ASSUME NEW j \in DOMAIN moved PROVE \E k \in DOMAIN kept : moved[j] = kept[k]
  <2>1. j \in 1 .. Len(kept)
    BY <1>8
  <2>2. CASE j = Len(kept)
    BY <1>1, <1>8, <2>2
  <2>3. CASE j \in 1 .. i - 1
    <3>1. moved[j] = kept[j] BY <1>2, <1>7, <1>8, <2>1, <2>3
    <3> QED BY <2>1, <3>1
  <2>4. CASE j \in i .. Len(kept) - 1
    <3>1. moved[j] = kept[j + 1] BY <1>2, <1>7, <1>8, <2>1, <2>4
    <3>2. j + 1 \in DOMAIN kept BY <1>2, <2>4
    <3> QED BY <3>1, <3>2
  <2> QED
    BY <1>2, <2>1, <2>2, <2>3, <2>4
<1>10. Selection!Laid(moved) \subseteq Selection!Laid(kept)
  BY <1>9 DEF Selection!Laid
<1> QED
  BY <1>8, <1>10 DEF moved

\* Of a page under the pointer the boxes are used or asked for; the selection is the
\* caller's, cleared or as it was.
LEMMA PageIsPointedAt ==
  ASSUME SelectionInv, NEW page \in DOMAIN Texts, Selection!LayoutFor(page), tOpening' = tOpening,
         IsSelect(tSelect'), tSelect'.id \in {0, tSelect.id},
         tSelect'.id = 0 \/ (tSelect'.page = tSelect.page /\ tMade' = tMade),
         tSelect'.text # Selection!NoText => tSelect'.text \in tMade',
         tSelect'.drawn # Selection!NoText => tSelect'.drawn.page = tSelect'.page
  PROVE  SelectionInv'
<1>1. tLayouts \in Seq(Kept) /\ tRequests \in Nat
  BY DEF SelectionInv, SelectionTyped
<1>2. CASE page \in Selection!Laid(tLayouts)
  <2>1. tLayouts' = Selection!MovedToEnd(tLayouts, page) /\ UNCHANGED <<tPending, tRequests>>
    BY <1>2 DEF Selection!LayoutFor
  <2>2. tLayouts' \in Seq(Kept) /\ Len(tLayouts') = Len(tLayouts)
        /\ Selection!Laid(tLayouts)' \subseteq Selection!Laid(tLayouts)
    BY <1>1, <1>2, <2>1, MovedIsKept DEF Selection!Laid
  <2>3. SelectionTyped' /\ LinesOnce'
    BY <2>1, <2>2 DEF SelectionInv, SelectionTyped, LinesOnce
  <2> QED
    BY <2>1, <2>3 DEF SelectionInv, SelectionTyped, TextIsDrawn
<1>3. CASE page \notin Selection!Laid(tLayouts) /\ page \in Selection!Wanted
  <2>1. UNCHANGED <<tLayouts, tPending, tRequests>>
    BY <1>3 DEF Selection!LayoutFor
  <2> QED
    BY <2>1 DEF SelectionInv, SelectionTyped, LinesOnce, TextIsDrawn, Selection!Laid
<1>4. CASE page \notin Selection!Laid(tLayouts) /\ page \notin Selection!Wanted
  <2> DEFINE new == [id |-> tRequests + 1, of |-> tOpening, kind |-> "lines", page |-> page,
                     span |-> Selection!NoText]
  <2>1. tLayouts' = tLayouts /\ tRequests' = tRequests + 1 /\ tPending' = tPending \cup {new}
    BY <1>4 DEF Selection!LayoutFor, Selection!Asking, Selection!Ask
  <2>2. \A q \in tPending : q.kind = "lines" /\ q.of = tOpening => q.page # page
    BY <1>4 DEF Selection!Wanted
  <2>3. SelectionTyped'
    BY <1>1, <2>1 DEF SelectionInv, SelectionTyped
  <2>4. LinesOnce'
    BY <1>4, <2>1, <2>2 DEF SelectionInv, LinesOnce, Selection!Laid
  <2>5. TextIsDrawn'
    BY <2>1 DEF SelectionInv, SelectionTyped, TextIsDrawn
  <2> QED
    BY <2>3, <2>4, <2>5 DEF SelectionInv
<1> QED
  BY <1>2, <1>3, <1>4

\* The text between the carets of a highlighted selection is asked for; left are the requests
\* that were there, and kept the boxes from now on.
LEMMA TextIsRequested ==
  ASSUME SelectionInv, NEW s, NEW kept, NEW left,
         IsSelect(s), s.page = tSelect.page, s.id = tSelect.id, s.text = tSelect.text,
         s.drawn # Selection!NoText => s.drawn.page = s.page,
         ~Selection!IsEmpty(Selection!Carets(s, kept)) => s.drawn = Selection!Carets(s, kept),
         left \subseteq tPending, Selection!RequestSelection(s, kept, left), tOpening' = tOpening,
         tLayouts' = kept, kept \in Seq(Kept), Len(kept) <= MaxLayouts,
         \A q \in left : q.kind = "lines" /\ q.of = tOpening => q.page \notin Selection!Laid(kept),
         tMade' = tMade \cup Selection!Drawn(s)
  PROVE  SelectionInv'
<1> DEFINE span == Selection!Carets(s, kept)
<1>1. CASE Selection!IsEmpty(span)
  <2>1. tSelect' = [s EXCEPT !.drawn = Selection!NoText] /\ tPending' = left /\ UNCHANGED tRequests
    BY <1>1 DEF Selection!RequestSelection
  <2>2. /\ IsSelect(tSelect') /\ tSelect'.page = s.page /\ tSelect'.id = s.id /\ tSelect'.text = s.text
        /\ tSelect'.drawn = Selection!NoText
    BY <2>1 DEF IsSelect
  <2>3. SelectionTyped'
    BY <2>1, <2>2 DEF SelectionInv, SelectionTyped
  <2>4. LinesOnce'
    BY <2>1 DEF SelectionInv, LinesOnce
  <2>5. TextIsDrawn'
    BY <2>1, <2>2 DEF SelectionInv, TextIsDrawn
  <2> QED
    BY <2>3, <2>4, <2>5 DEF SelectionInv
<1>2. CASE ~Selection!IsEmpty(span)
  <2> DEFINE new == [id |-> tRequests + 1, of |-> tOpening, kind |-> "selection", page |-> s.page, span |-> span]
  <2>1. tSelect' = [s EXCEPT !.id = tRequests + 1] /\ tRequests' = tRequests + 1
        /\ tPending' = left \cup {new}
    BY <1>2 DEF Selection!RequestSelection, Selection!Ask
  <2>2. /\ IsSelect(tSelect') /\ tSelect'.page = s.page /\ tSelect'.id = tRequests + 1
        /\ tSelect'.text = s.text /\ tSelect'.drawn = s.drawn
    BY <2>1 DEF IsSelect
  <2>3. tRequests \in Nat /\ tOpening \in Nat
    BY DEF SelectionInv, SelectionTyped
  <2>4. SelectionTyped'
    BY <2>1, <2>2, <2>3 DEF SelectionInv, SelectionTyped
  <2>5. LinesOnce'
    BY <2>1 DEF SelectionInv, LinesOnce
  <2>6. span \in tMade' /\ span.page = s.page
    BY <1>2, CaretsAreOfThePage DEF Selection!Drawn
  <2>7. \A q \in left : q.id # tRequests + 1
    BY <2>3 DEF SelectionInv, SelectionTyped
  <2>8. TextIsDrawn'
    BY <2>1, <2>2, <2>6, <2>7 DEF SelectionInv, TextIsDrawn
  <2> QED
    BY <2>4, <2>5, <2>8 DEF SelectionInv
<1> QED
  BY <1>1, <1>2

\* The selection keeps its page, its text and its number, and more may have been drawn.
LEMMA SelectionGoesOn ==
  ASSUME SelectionInv, IsSelect(tSelect'), tSelect'.page = tSelect.page, tSelect'.id = tSelect.id,
         tSelect'.text = tSelect.text, tSelect'.drawn # Selection!NoText => tSelect'.drawn.page = tSelect.page,
         tPending' \subseteq tPending, tMade \subseteq tMade',
         UNCHANGED <<tOpening, tLayouts, tRequests>>
  PROVE  SelectionInv'
BY DEF SelectionInv, SelectionTyped, LinesOnce, TextIsDrawn, Selection!Laid

\* The boxes of a page arrive.
LEMMA BoxesArrive ==
  ASSUME SelectionInv, NEW q \in tPending, NEW ok \in BOOLEAN, Selection!LinesArrive(q, ok)
  PROVE  SelectionInv'
<1> DEFINE layout == [page |-> q.page, chars |-> IF ok THEN Texts[q.page] ELSE 0]
           all == Append(tLayouts, layout)
           kept == IF Len(all) > MaxLayouts THEN Tail(all) ELSE all
           s == Selection!Highlighted(tSelect, kept)
<1>1. q.kind = "lines" /\ q.of = tOpening /\ q.page \in DOMAIN Texts /\ tLayouts \in Seq(Kept)
      /\ Len(tLayouts) <= MaxLayouts /\ IsSelect(tSelect) /\ MaxLayouts \in Nat
  BY BoundsAssumption DEF Selection!LinesArrive, SelectionInv, SelectionTyped
<1>2. layout \in Kept
  BY <1>1 DEF Kept
<1>3. /\ tLayouts' = kept /\ tOpening' = tOpening
      /\ \/ UNCHANGED <<tSelect, tRequests, tMade>> /\ tPending' = tPending \ {q}
         \/ /\ tMade' = tMade \cup Selection!Drawn(s)
            /\ \/ tSelect' = s /\ tPending' = tPending \ {q} /\ UNCHANGED tRequests
               \/ Selection!RequestSelection(s, kept, tPending \ {q})
  BY DEF Selection!LinesArrive
<1>4. /\ all \in Seq(Kept) /\ Len(all) = Len(tLayouts) + 1
      /\ \A i \in DOMAIN all : (i \in DOMAIN tLayouts /\ all[i] = tLayouts[i]) \/ all[i] = layout
  <2> HIDE DEF layout
  <2> QED BY <1>1, <1>2
<1> HIDE DEF all
<1>5. /\ kept \in Seq(Kept) /\ Len(kept) <= MaxLayouts
      /\ \A i \in DOMAIN kept : \E j \in DOMAIN all : kept[i] = all[j]
  <2>1. CASE Len(all) > MaxLayouts
    <3>1. kept = Tail(all) /\ Tail(all) \in Seq(Kept) /\ Len(Tail(all)) = Len(all) - 1
      BY <1>1, <1>4, <2>1
    <3>2. \A i \in DOMAIN Tail(all) : Tail(all)[i] = all[i + 1] /\ i + 1 \in DOMAIN all
      BY <1>1, <1>4, <2>1
    <3> QED
      BY <1>1, <1>4, <3>1, <3>2
  <2>2. CASE ~(Len(all) > MaxLayouts)
    BY <1>1, <1>4, <2>2
  <2> QED
    BY <2>1, <2>2
<1> HIDE DEF kept
<1>6. \A r \in tPending \ {q} : r.kind = "lines" /\ r.of = tOpening => r.page \notin Selection!Laid(kept)
  <2> SUFFICES ASSUME NEW r \in tPending \ {q}, r.kind = "lines", r.of = tOpening, NEW i \in DOMAIN kept,
                      kept[i].page = r.page
               PROVE  FALSE
    BY DEF Selection!Laid
  <2>1. r.page # q.page /\ r.page \notin Selection!Laid(tLayouts)
    BY <1>1 DEF SelectionInv, LinesOnce
  <2>2. \/ \E j \in DOMAIN tLayouts : kept[i] = tLayouts[j]
        \/ kept[i] = layout
    BY <1>4, <1>5
  <2> QED
    BY <2>1, <2>2 DEF Selection!Laid
<1>7. /\ IsSelect(s) /\ s.page = tSelect.page /\ s.text = tSelect.text /\ s.id = tSelect.id
      /\ s.drawn # Selection!NoText => s.drawn.page = s.page
      /\ ~Selection!IsEmpty(Selection!Carets(s, kept)) => s.drawn = Selection!Carets(s, kept)
  BY <1>1, HighlightChanges
<1> HIDE DEF s
<1>8. CASE /\ tPending' = tPending \ {q} /\ tRequests' = tRequests /\ tMade \subseteq tMade'
           /\ (tSelect' = tSelect \/ tSelect' = s)
  <2>1. /\ IsSelect(tSelect') /\ tSelect'.page = tSelect.page /\ tSelect'.id = tSelect.id
        /\ tSelect'.text = tSelect.text
        /\ tSelect'.drawn # Selection!NoText => tSelect'.drawn.page = tSelect.page
    BY <1>1, <1>7, <1>8 DEF SelectionInv, TextIsDrawn
  <2>2. SelectionTyped'
    BY <1>3, <1>5, <1>8, <2>1 DEF SelectionInv, SelectionTyped
  <2>3. LinesOnce'
    BY <1>3, <1>6, <1>8 DEF SelectionInv, LinesOnce
  <2>4. TextIsDrawn'
    BY <1>3, <1>8, <2>1 DEF SelectionInv, TextIsDrawn
  <2> QED
    BY <2>2, <2>3, <2>4 DEF SelectionInv
<1>9. CASE Selection!RequestSelection(s, kept, tPending \ {q}) /\ tMade' = tMade \cup Selection!Drawn(s)
  BY <1>3, <1>5, <1>6, <1>7, <1>9, TextIsRequested
<1> QED
  BY <1>3, <1>8, <1>9

\* The text arrives, or the failure of its worker, of the last request only.
LEMMA TextIsFilled ==
  ASSUME SelectionInv, NEW q \in tPending, NEW ok \in BOOLEAN, Selection!TextArrives(q, ok)
  PROVE  SelectionInv' /\ (tClipboard' # tClipboard => tClipboard' \in tMade' \cup {Selection!NoText})
<1>1. q.kind = "selection" /\ tPending' = tPending \ {q}
      /\ UNCHANGED <<tOpening, tLayouts, tRequests, tMade>> /\ IsSelect(tSelect)
  BY DEF Selection!TextArrives, SelectionInv, SelectionTyped
<1>2. CASE q.of = tOpening /\ q.id = tSelect.id
  <2> DEFINE text == IF ok THEN q.span ELSE Selection!NoText
  <2>1. /\ tSelect' = [tSelect EXCEPT !.text = text, !.drawn = text, !.copying = FALSE]
        /\ tClipboard' = IF tSelect.copying THEN text ELSE tClipboard
    BY <1>2 DEF Selection!TextArrives, Selection!TextFilled
  <2>2. text # Selection!NoText => text \in tMade /\ text.page = tSelect.page
    BY <1>1, <1>2 DEF SelectionInv, TextIsDrawn
  <2> HIDE DEF text
  <2>3. tSelect' = [page |-> tSelect.page, anchor |-> tSelect.anchor, focus |-> tSelect.focus, drawn |-> text,
                    text |-> text, id |-> tSelect.id, copying |-> FALSE, pressed |-> tSelect.pressed]
    BY <1>1, <2>1 DEF IsSelect
  <2>4. SelectionTyped'
    BY <1>1, <2>3 DEF SelectionInv, SelectionTyped, IsSelect
  <2>5. LinesOnce' /\ TextIsDrawn'
    BY <1>1, <2>2, <2>3 DEF SelectionInv, LinesOnce, TextIsDrawn, Selection!Laid
  <2> QED
    BY <1>1, <2>1, <2>2, <2>4, <2>5 DEF SelectionInv
<1>3. CASE ~(q.of = tOpening /\ q.id = tSelect.id)
  <2>1. UNCHANGED <<tSelect, tClipboard>>
    BY <1>3 DEF Selection!TextArrives
  <2>2. SelectionInv'
    BY <1>1, <2>1, SelectionGoesOn DEF SelectionInv, TextIsDrawn
  <2> QED
    BY <2>1, <2>2
<1> QED
  BY <1>2, <1>3
\* The button goes down or up; a selection is cleared.
LEMMA ButtonChanges ==
  ASSUME NEW s, NEW r, NEW e, IsSelect(s), r = [s EXCEPT !.pressed = e]
  PROVE  r = [page |-> s.page, anchor |-> s.anchor, focus |-> s.focus, drawn |-> s.drawn, text |-> s.text,
              id |-> s.id, copying |-> s.copying, pressed |-> e]
BY DEF IsSelect

LEMMA SelectionIsCleared ==
  ASSUME NEW s, NEW r, r = Selection!Cleared(s)
  PROVE  r = [page |-> 0, anchor |-> s.anchor, focus |-> s.focus, drawn |-> Selection!NoText,
              text |-> Selection!NoText, id |-> 0, copying |-> FALSE, pressed |-> s.pressed]
BY DEF Selection!Cleared, Selection!NoSelection

LEMMA SelectionSteps ==
  SelectionInv /\ [Selection!Next]_selectionVars =>
    SelectionInv' /\ (tClipboard' # tClipboard => tClipboard' \in tMade' \cup {Selection!NoText})
<1> SUFFICES ASSUME SelectionInv, [Selection!Next]_selectionVars
             PROVE  SelectionInv' /\ (tClipboard' # tClipboard => tClipboard' \in tMade' \cup {Selection!NoText})
  OBVIOUS
<1>0. IsSelect(tSelect) /\ tSelect.id \in Nat /\ tOpening \in Nat /\ tRequests \in Nat
  BY DEF SelectionInv, SelectionTyped
<1>1. CASE Selection!Load
  <2>1. tSelect' = Selection!Cleared(tSelect) /\ tLayouts' = <<>> /\ tOpening' = tOpening + 1
        /\ UNCHANGED <<tPending, tRequests, tClipboard>>
    BY <1>1 DEF Selection!Load
  <2>2. /\ IsSelect(tSelect') /\ tSelect'.id = 0 /\ tSelect'.text = Selection!NoText
        /\ tSelect'.drawn = Selection!NoText
    BY <2>1 DEF IsSelect, Selection!Cleared, Selection!NoSelection
  <2>3. SelectionTyped'
    BY <1>0, <2>1, <2>2, BoundsAssumption DEF SelectionInv, SelectionTyped
  <2>4. \A q \in tPending : q.of # tOpening'
    BY <1>0, <2>1 DEF SelectionInv, SelectionTyped
  <2>5. LinesOnce' /\ TextIsDrawn'
    BY <2>1, <2>2, <2>4 DEF LinesOnce, TextIsDrawn
  <2> QED
    BY <2>1, <2>3, <2>5 DEF SelectionInv
<1>2. CASE Selection!Loaded
  BY <1>2, SelectionGoesOn DEF Selection!Loaded, SelectionInv, SelectionTyped, TextIsDrawn
<1>3. CASE Selection!Copy
  <2>1. UNCHANGED <<tOpening, tLayouts, tPending, tRequests, tMade>>
    BY <1>3 DEF Selection!Copy
  <2>2. CASE tSelect.text # Selection!NoText
    <3>1. tClipboard' = tSelect.text /\ UNCHANGED tSelect
      BY <1>3, <2>2 DEF Selection!Copy
    <3> QED
      BY <1>0, <2>1, <2>2, <3>1, SelectionGoesOn DEF SelectionInv, TextIsDrawn
  <2>3. CASE tSelect.text = Selection!NoText
    <3> DEFINE copying == tSelect.copying \/ tSelect.id # 0 \/
                            (tSelect.page # 0 /\ tSelect.page \notin Selection!Laid(tLayouts))
    <3>1. tSelect' = [tSelect EXCEPT !.copying = copying] /\ UNCHANGED tClipboard
      BY <1>3, <2>3 DEF Selection!Copy
    <3> HIDE DEF copying
    <3>2. /\ IsSelect(tSelect') /\ tSelect'.page = tSelect.page /\ tSelect'.id = tSelect.id
          /\ tSelect'.text = tSelect.text /\ tSelect'.drawn = tSelect.drawn
      BY <1>0, <3>1 DEF IsSelect
    <3> QED
      BY <2>1, <3>1, <3>2, SelectionGoesOn DEF SelectionInv, TextIsDrawn
  <2> QED
    BY <2>2, <2>3
<1>4. ASSUME NEW page, NEW place, page = 0 \/ page \in DOMAIN Texts, Selection!Press(page, place)
      PROVE  SelectionInv' /\ UNCHANGED tClipboard
  <2> DEFINE s == [Selection!Cleared(tSelect) EXCEPT !.pressed = TRUE]
  <2>1. s = [page |-> 0, anchor |-> tSelect.anchor, focus |-> tSelect.focus, drawn |-> Selection!NoText,
             text |-> Selection!NoText, id |-> 0, copying |-> FALSE, pressed |-> TRUE]
    <3> DEFINE c == Selection!Cleared(tSelect)
    <3>1. c = [page |-> 0, anchor |-> tSelect.anchor, focus |-> tSelect.focus, drawn |-> Selection!NoText,
               text |-> Selection!NoText, id |-> 0, copying |-> FALSE, pressed |-> tSelect.pressed]
      BY SelectionIsCleared
    <3> HIDE DEF c
    <3>2. s = [c EXCEPT !.pressed = TRUE] /\ IsSelect(c)
      BY <3>1 DEF c, IsSelect
    <3> HIDE DEF s
    <3> QED
      BY <3>1, <3>2, ButtonChanges
  <2>2. tSelect' = (IF page = 0 THEN s ELSE [s EXCEPT !.page = page, !.anchor = place, !.focus = place])
        /\ tMade' = {} /\ UNCHANGED <<tOpening, tReady, tClipboard>>
    BY <1>4 DEF Selection!Press
  <2>3. /\ IsSelect(tSelect') /\ tSelect'.id = 0 /\ tSelect'.text = Selection!NoText
        /\ tSelect'.drawn = Selection!NoText
    BY <2>1, <2>2 DEF IsSelect
  <2> HIDE DEF s
  <2>4. CASE page = 0
    <3>1. UNCHANGED <<tLayouts, tPending, tRequests>>
      BY <1>4, <2>4 DEF Selection!Press
    <3> QED
      BY <2>2, <2>3, <3>1 DEF SelectionInv, SelectionTyped, LinesOnce, TextIsDrawn, Selection!Laid
  <2>5. CASE page # 0
    <3>1. Selection!LayoutFor(page)
      BY <1>4, <2>5 DEF Selection!Press
    <3> QED
      BY <1>4, <2>2, <2>3, <2>5, <3>1, PageIsPointedAt
  <2> QED
    BY <2>4, <2>5
<1>5. CASE Selection!PressAgain
  <2>1. tSelect' = [tSelect EXCEPT !.pressed = TRUE]
        /\ UNCHANGED <<tOpening, tLayouts, tPending, tRequests, tClipboard, tMade>>
    BY <1>5 DEF Selection!PressAgain
  <2>2. /\ IsSelect(tSelect') /\ tSelect'.page = tSelect.page /\ tSelect'.id = tSelect.id
        /\ tSelect'.text = tSelect.text /\ tSelect'.drawn = tSelect.drawn
    BY <1>0, <2>1 DEF IsSelect
  <2> QED
    BY <2>1, <2>2, SelectionGoesOn DEF SelectionInv, TextIsDrawn
<1>6. ASSUME NEW place, Selection!Drag(place) PROVE SelectionInv' /\ UNCHANGED tClipboard
  <2> DEFINE moved == [tSelect EXCEPT !.focus = place]
  <2>1. /\ IsSelect(moved) /\ moved.page = tSelect.page /\ moved.id = tSelect.id
        /\ moved.text = tSelect.text
    BY <1>0 DEF IsSelect
  <2>2. /\ tSelect' = Selection!Highlighted(moved, tLayouts) /\ tMade \subseteq tMade'
        /\ UNCHANGED <<tOpening, tLayouts, tPending, tRequests, tClipboard>>
    BY <1>6 DEF Selection!Drag
  <2> HIDE DEF moved
  <2> QED
    BY <2>1, <2>2, HighlightChanges, SelectionGoesOn
<1>7. CASE Selection!Release
  <2> DEFINE up == [tSelect EXCEPT !.pressed = FALSE]
             s == Selection!Highlighted(up, tLayouts)
  <2>1. /\ IsSelect(up) /\ up.page = tSelect.page /\ up.id = tSelect.id
        /\ up.text = tSelect.text /\ up.drawn = tSelect.drawn
    <3>1. up = [page |-> tSelect.page, anchor |-> tSelect.anchor, focus |-> tSelect.focus,
                drawn |-> tSelect.drawn, text |-> tSelect.text, id |-> tSelect.id,
                copying |-> tSelect.copying, pressed |-> FALSE]
      BY <1>0, ButtonChanges
    <3> HIDE DEF up
    <3> QED
      BY <3>1 DEF IsSelect
  <2>2. /\ tMade' = tMade \cup Selection!Drawn(s) /\ UNCHANGED <<tOpening, tLayouts, tClipboard>>
        /\ \/ tSelect' = up /\ UNCHANGED <<tPending, tRequests>>
           \/ Selection!RequestSelection(s, tLayouts, tPending)
    BY <1>7 DEF Selection!Release
  <2> HIDE DEF up
  <2>3. /\ IsSelect(s) /\ s.page = up.page /\ s.text = up.text /\ s.id = up.id
        /\ s.drawn # Selection!NoText => s.drawn.page = s.page
        /\ ~Selection!IsEmpty(Selection!Carets(s, tLayouts)) => s.drawn = Selection!Carets(s, tLayouts)
    BY <2>1, HighlightChanges
  <2> HIDE DEF s
  <2>4. CASE tSelect' = up /\ UNCHANGED <<tPending, tRequests>>
    BY <2>1, <2>2, <2>4, SelectionGoesOn DEF SelectionInv, TextIsDrawn
  <2>5. CASE Selection!RequestSelection(s, tLayouts, tPending)
    <3>1. /\ tLayouts \in Seq(Kept) /\ Len(tLayouts) <= MaxLayouts
          /\ \A q \in tPending : q.kind = "lines" /\ q.of = tOpening => q.page \notin Selection!Laid(tLayouts)
      BY DEF SelectionInv, SelectionTyped, LinesOnce
    <3> QED
      BY <2>1, <2>2, <2>3, <2>5, <3>1, TextIsRequested
  <2> QED
    BY <2>2, <2>4, <2>5
<1>8. ASSUME NEW page \in DOMAIN Texts, Selection!Hover(page) PROVE SelectionInv' /\ UNCHANGED tClipboard
  BY <1>0, <1>8, PageIsPointedAt DEF Selection!Hover, SelectionInv, TextIsDrawn
<1>9. ASSUME NEW q \in tPending, Selection!Dropped(q) PROVE SelectionInv' /\ UNCHANGED tClipboard
  BY <1>0, <1>9, SelectionGoesOn DEF Selection!Dropped, SelectionInv, TextIsDrawn
<1>10. ASSUME NEW q \in tPending, NEW ok \in BOOLEAN, Selection!LinesArrive(q, ok)
       PROVE  SelectionInv' /\ UNCHANGED tClipboard
  BY <1>10, BoxesArrive DEF Selection!LinesArrive
<1>11. CASE UNCHANGED selectionVars
  BY <1>0, <1>11, SelectionGoesOn DEF selectionVars, SelectionInv, TextIsDrawn
<1>12. CASE Selection!Mouse
  BY <1>4, <1>5, <1>6, <1>7, <1>8, <1>12 DEF Selection!Mouse, Selection!Release, Selection!PressAgain,
     Selection!Pages
<1>13. CASE Selection!Worker
  BY <1>9, <1>10, <1>13, TextIsFilled DEF Selection!Worker
<1> QED
  BY <1>1, <1>2, <1>3, <1>11, <1>12, <1>13 DEF Selection!Next, Selection!Load, Selection!Loaded

(* However the mouse, the keyboard, the boxes and the texts follow each      *)
(* other: what reaches the clipboard is a span the user drew since the last  *)
(* press in the document on screen, or nothing; the highlight is on the page *)
(* of the selection; and the boxes kept stay within their limit              *)
(* (IsolatedPdfView._clear_selection, _request_selection, _result_ready).    *)
THEOREM TheDrawnIsCopied == ReaderSpec => CopiedIsSelected
<1>1. [ReaderNext]_allVars => [Selection!Next]_selectionVars
  BY DEF ReaderNext, allVars
<1>2. SelectionInv /\ [Selection!Next]_selectionVars => SelectionInv' /\ [Selection!CopyStep]_selectionVars
  <2> SUFFICES ASSUME SelectionInv, [Selection!Next]_selectionVars
               PROVE  SelectionInv' /\ Selection!CopyStep
    OBVIOUS
  <2>1. SelectionInv' /\ (tClipboard' # tClipboard => tClipboard' \in tMade' \cup {Selection!NoText})
    BY SelectionSteps
  <2>2. Selection!Laid(tLayouts') \cap Selection!Wanted' = {}
    BY <2>1 DEF SelectionInv, LinesOnce, Selection!Wanted, Selection!Laid
  <2> QED
    BY <2>1, <2>2 DEF SelectionInv, SelectionTyped, TextIsDrawn, Selection!CopyStep
<1> QED
  BY <1>1, <1>2, SelectionStarts, PTL DEF ReaderSpec, CopiedIsSelected
=============================================================================
