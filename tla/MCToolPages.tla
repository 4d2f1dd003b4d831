---------------------------- MODULE MCToolPages ----------------------------
(***************************************************************************)
(* Tool pages and the replacement of a source for TLC: one of them at work *)
(* per behaviour, the others as they were made, for no two share a state.  *)
(*   replacement  SourceReplacement                                        *)
(*   merge        MergeList: a protected file that may be unlocked, and one *)
(*                that is not                                              *)
(*   share        SharePage                                                *)
(*   viewer       ViewerTools: two signed files, the first of which may     *)
(*                lose its signature                                       *)
(*   form         FormTools: a file that may be protected, two models of     *)
(*                which one may be ticked                                   *)
(*   rotation     RotatePages: two pages, half a turn is a full one          *)
(*   insertion    InsertPages: a file that can be counted once rewritten     *)
(*   none         all at rest, beside another composition (MCDocumentTools)  *)
(***************************************************************************)
EXTENDS SourceReplacement, FiniteSets, Sequences, FiniteSetTheorems, TLAPS

CONSTANTS a, b, UserFiles, NoUserFile, NewFile, MaxPreloaded,
  FileVersions, LockedVersions, SignedVersions, Models,
  ShareVersions, MaxLanguages, ShownPages, Saved, FullTurn

ASSUME ToolConstants ==
  /\ IsFiniteSet(UserFiles) /\ NoUserFile \notin UserFiles /\ NewFile \notin UserFiles \cup {NoUserFile}
  /\ FileVersions \in [UserFiles -> Nat \ {0}] /\ ShareVersions \in Nat \ {0}
  /\ 1 \in ShownPages /\ ShownPages \subseteq Nat /\ FullTurn \in Nat \ {0}

VARIABLES
  toolAtWork,
  mDisk, mOpen, mLocked, mShown, mPage, mAnswer, mRule, mJob, mTakenOff,
  sDisk, sSelected, sVisible, sPage, sJob, sAsking, sAsked,
  vDisk, vClears, vPage, vPicture, vJob, vChosen,
  fTool, fDisk, fModels, fVisible, fPage, fJob, fAsked,
  rStale, rSelected, rVisible, rPage, rLate, rRunning,
  iDisk, iDocuments, iSelected, iVisible, iPage, iJob

TwoOfA == [p \in UserFiles |-> IF p = a THEN 2 ELSE 1]
FirstOfA == {<<a, 1>>}
FirstOfBoth == {<<a, 1>>, <<b, 1>>}

mergeVars == <<mDisk, mOpen, mLocked, mShown, mPage, mAnswer, mRule, mJob, mTakenOff>>
shareVars == <<sDisk, sSelected, sVisible, sPage, sJob, sAsking, sAsked>>
viewerVars == <<vDisk, vClears, vPage, vPicture, vJob, vChosen>>
formVars == <<fTool, fDisk, fModels, fVisible, fPage, fJob, fAsked>>
rotationVars == <<rStale, rSelected, rVisible, rPage, rLate, rRunning>>
insertionVars == <<iDisk, iDocuments, iSelected, iVisible, iPage, iJob>>
toolVars == <<toolAtWork, sourceVars, mergeVars, shareVars, viewerVars, formVars,
             rotationVars, insertionVars>>

Merge == INSTANCE MergeList WITH
  Paths <- UserFiles, NoPath <- NoUserFile,
  MaxVersion <- FileVersions, Protected <- LockedVersions,
  disk <- mDisk, open <- mOpen, locked <- mLocked, shown <- mShown, page <- mPage,
  answer <- mAnswer, rule <- mRule, job <- mJob, takenOff <- mTakenOff

Share == INSTANCE SharePage WITH
  Paths <- UserFiles, NoPath <- NoUserFile,
  MaxVersion <- ShareVersions, Copy <- NewFile,
  disk <- sDisk, selected <- sSelected, visible <- sVisible, page <- sPage, job <- sJob,
  asking <- sAsking, asked <- sAsked

Viewer == INSTANCE ViewerTools WITH
  Paths <- UserFiles, NoPath <- NoUserFile,
  MaxVersion <- FileVersions, Signed <- SignedVersions,
  disk <- vDisk, clears <- vClears, page <- vPage, picture <- vPicture, job <- vJob,
  chosen <- vChosen

Form == INSTANCE FormTools WITH
  Paths <- UserFiles, NoPath <- NoUserFile,
  MaxVersion <- FileVersions, Locked <- LockedVersions,
  tool <- fTool, disk <- fDisk, models <- fModels, visible <- fVisible, page <- fPage,
  job <- fJob, asked <- fAsked

Rotation == INSTANCE RotatePages WITH
  Paths <- UserFiles, NoPath <- NoUserFile, Pages <- ShownPages,
  stale <- rStale, selected <- rSelected, visible <- rVisible, page <- rPage, late <- rLate,
  running <- rRunning

Insertion == INSTANCE InsertPages WITH
  Paths <- UserFiles, NoPath <- NoUserFile,
  MaxVersion <- FileVersions, Unusable <- LockedVersions,
  disk <- iDisk, documents <- iDocuments, selected <- iSelected, visible <- iVisible,
  page <- iPage, job <- iJob

ToolInit ==
  /\ toolAtWork \in
       {"none", "replacement", "merge", "share", "viewer", "form", "rotation", "insertion"}
  /\ SourceInit /\ (toolAtWork # "replacement" => ~tmpfile)
  /\ Merge!Init
  /\ Share!Init
  /\ Viewer!Init /\ (toolAtWork # "viewer" => ~vClears)
  /\ Form!Init /\ (toolAtWork # "form" => fTool = "ocr")
  /\ Rotation!Init
  /\ Insertion!Init

ToolNext ==
  /\ UNCHANGED toolAtWork
  /\ \/ /\ toolAtWork = "replacement" /\ SourceNext
        /\ UNCHANGED <<mergeVars, shareVars, viewerVars, formVars,
                       rotationVars, insertionVars>>
     \/ /\ toolAtWork = "merge" /\ Merge!Next
        /\ UNCHANGED <<sourceVars, shareVars, viewerVars, formVars,
                       rotationVars, insertionVars>>
     \/ /\ toolAtWork = "share" /\ Share!Next
        /\ UNCHANGED <<sourceVars, mergeVars, viewerVars, formVars,
                       rotationVars, insertionVars>>
     \/ /\ toolAtWork = "viewer" /\ Viewer!Next
        /\ UNCHANGED <<sourceVars, mergeVars, shareVars, formVars,
                       rotationVars, insertionVars>>
     \/ /\ toolAtWork = "form" /\ Form!Next
        /\ UNCHANGED <<sourceVars, mergeVars, shareVars, viewerVars,
                       rotationVars, insertionVars>>
     \/ /\ toolAtWork = "rotation" /\ Rotation!Next
        /\ UNCHANGED <<sourceVars, mergeVars, shareVars, viewerVars,
                       formVars, insertionVars>>
     \/ /\ toolAtWork = "insertion" /\ Insertion!Next
        /\ UNCHANGED <<sourceVars, mergeVars, shareVars, viewerVars,
                       formVars, rotationVars>>

ToolSpec == ToolInit /\ [][ToolNext]_toolVars

\* The tools of the reader alone.
ChoiceSpec == toolAtWork = "viewer" /\ ToolInit /\ [][ToolNext]_toolVars

\* The merge is of the list as the user left it (MergeList).
ListIsTheUsers == Merge!ListIsTheUsers

\* What Check before sharing does was shown and confirmed (SharePage), the pages on screen are
\* those the tool treats (ViewerTools), and as it will write them (RotatePages).
DoneAsShown == Share!DoneAsShown /\ Viewer!TreatedIsShown /\ Rotation!PreviewIsTheRotation

\* A copy without signatures was asked for, for that very file (ViewerTools).
UnsignedCopyWasAskedFor == Viewer!UnsignedCopyWasAskedFor

\* Everything on a form belongs to the document on it (FormTools).
BelongsToTheDocument == Form!BelongsToTheDocument

\* What is inserted exists, and fits (InsertPages).
InsertionFits == Insertion!InsertionFits

-----------------------------------------------------------------------------
(* Proofs about the tool pages and the replacement of a source, for any     *)
(* files, versions, pages and settings: an inductive invariant of each part *)
(* on its own state (ReplacementInv, MergeInv, ShareInv, ViewerInv, FormInv, *)
(* RotationInv, InsertionInv), and the theorems over their composition at   *)
(* the end.                                                                *)

-----------------------------------------------------------------------------
(* The replacement of a source.                                              *)

(* Steps that come after the worker. *)
AfterWork == {"check", "create", "copy", "sync", "recheck"} \cup Window

OutcomeInv ==
    /\ pc = "done" <=> outcome # "running"
    /\ late => outcome \in {"failed", "crashed"}
    /\ Replaced => late \/ outcome = "success" \/ pc \in Renamed
    /\ pc \in Renamed \/ late \/ outcome = "success" => ~inTime
    /\ pc \in Renamed \/ outcome = "success" => lost = {snapshot} \/ overtaken

(* Once the last look is passed, who was stopped in time is not stopped. *)
StopInv ==
    /\ inTime => cancel \/ expired
    /\ pc \in {"name", "rename"} => ~inTime

SyncedInv ==
    /\ source = Ours => synced
    /\ outcome = "running" /\ pc \in {"recheck"} \cup Window => synced

(* A saved version that disagrees with the snapshot differs from it for    *)
(* ever: others only ever save versions that did not exist before.         *)
VersionInv ==
    /\ source <= edits
    /\ snapshot <= edits
    /\ outcome = "running" /\ pc \in AfterWork =>
          /\ snapshot # NoFile
          /\ source = snapshot => madeFrom = snapshot
    /\ outcome = "running" /\ pc = "work" => snapshot # NoFile

(* Until it is overtaken, the window finds the version of the snapshot. *)
RenameWindowInv ==
    ~overtaken /\ outcome = "running" /\ pc \in Window => source = snapshot

ReplacementInv == SourceTypeOK /\ OutcomeInv /\ StopInv /\ SyncedInv /\ VersionInv /\ RenameWindowInv
          /\ OnlyTheTreatedVersionIsReplaced

LEMMA ReplacementInit == SourceInit => ReplacementInv
<1> SUFFICES ASSUME SourceInit PROVE ReplacementInv
  OBVIOUS
<1> USE ConstantsAssumption DEF SourceInit, SourceVersions, NoFile, Ours
<1>1. SourceTypeOK
  <2>1. lost = {} /\ edits \in 0..MaxEdits /\ source \in 0..MaxEdits
    OBVIOUS
  <2>2. QED
    BY <2>1 DEF SourceTypeOK, Steps
<1>2. OutcomeInv /\ StopInv /\ SyncedInv /\ VersionInv
  BY DEF OutcomeInv, StopInv, SyncedInv, VersionInv, AfterWork, Window, Renamed, Replaced
<1>3. RenameWindowInv /\ OnlyTheTreatedVersionIsReplaced
  BY DEF RenameWindowInv, Window, OnlyTheTreatedVersionIsReplaced
<1>4. QED
  BY <1>1, <1>2, <1>3 DEF ReplacementInv

LEMMA ReplacementStep == ReplacementInv /\ [SourceNext]_sourceVars => ReplacementInv'
<1> SUFFICES ASSUME ReplacementInv, [SourceNext]_sourceVars PROVE ReplacementInv'
  OBVIOUS
<1> USE ConstantsAssumption
    DEF ReplacementInv, SourceTypeOK, OutcomeInv, StopInv, SyncedInv, VersionInv, RenameWindowInv,
        OnlyTheTreatedVersionIsReplaced, Replaced, SourceVersions, NoFile, Ours, Steps, Window,
        Renamed, Stops, FailLate, AfterWork, At, Goto, Finish, World, MustStop, SameAsSnapshot
<1>1. CASE Snapshot
  BY <1>1 DEF Snapshot
<1>2. CASE Work
  BY <1>2 DEF Work
<1>3. CASE Check
  BY <1>3 DEF Check
<1>4. CASE Create
  BY <1>4 DEF Create
<1>5. CASE Copy
  BY <1>5 DEF Copy
<1>6. CASE Sync
  BY <1>6, ZenonT(30) DEF Sync
<1>7. CASE Recheck
  BY <1>7 DEF Recheck
<1>8. CASE LastCancel
  BY <1>8 DEF LastCancel
<1>9. CASE Name
  BY <1>9 DEF Name
<1>10. CASE Rename
  <2>1. CASE pc' = "close"
    <3>1. lost = {}
      BY <1>10 DEF Rename
    <3>2. lost' \subseteq {source} /\ lost' \subseteq 0..MaxEdits
      BY <1>10, <2>1, <3>1 DEF Rename
    <3>3. ~overtaken => source = snapshot /\ madeFrom = snapshot
      BY <1>10, <2>1 DEF Rename
    <3>4. OnlyTheTreatedVersionIsReplaced'
      BY <1>10, <2>1, <3>2, <3>3 DEF Rename
    <3>5. lost' = {snapshot'} \/ overtaken'
      BY <1>10, <2>1, <3>1, <3>3 DEF Rename
    <3>6. QED
      BY <1>10, <2>1, <3>2, <3>4, <3>5 DEF Rename
  <2>2. CASE pc' = "discard"
    BY <1>10, <2>2 DEF Rename
  <2>3. QED
    BY <1>10, <2>1, <2>2 DEF Rename
<1>11. CASE Discard
  BY <1>11 DEF Discard
<1>12. CASE RequestCancel
  BY <1>12 DEF RequestCancel
<1>13. CASE DeadlinePasses
  BY <1>13 DEF DeadlinePasses
<1>14. CASE Crash
  <2>1. outcome = "running" /\ ~late
    BY <1>14 DEF Crash
  <2>2. CASE pc \in Renamed
    <3>1. late' = TRUE
      BY <1>14, <2>2 DEF Crash
    <3>2. QED
      BY <1>14, <2>1, <2>2, <3>1 DEF Crash
  <2>3. CASE pc \notin Renamed
    <3>1. late' = FALSE
      BY <1>14, <2>3 DEF Crash
    <3>2. QED
      BY <1>14, <2>1, <2>3, <3>1 DEF Crash
  <2>4. QED
    BY <2>2, <2>3
<1>15. CASE OtherPrograms
  BY <1>15 DEF OtherPrograms
<1>16. CASE UNCHANGED sourceVars
  BY <1>16 DEF sourceVars
<1>17. CASE Close \/ CleanUp
  <2>1. outcome = "running" /\ ~late /\ pc \in Renamed
    BY <1>17 DEF Close, CleanUp
  <2>2. UNCHANGED <<source, snapshot, madeFrom, lost, temp, synced, World>>
    BY <1>17 DEF Close, CleanUp
  <2>3. CASE FailLate
    BY <2>1, <2>2, <2>3
  <2>4. CASE pc' = "cleanup" /\ UNCHANGED <<late, outcome>>
    BY <2>1, <2>2, <2>4
  <2>5. CASE Finish("success") /\ UNCHANGED late
    BY <2>1, <2>2, <2>5
  <2>6. QED
    BY <1>17, <2>3, <2>4, <2>5 DEF Close, CleanUp
<1>18. QED
  BY <1>1, <1>2, <1>3, <1>4, <1>5, <1>6, <1>7, <1>8, <1>9, <1>10, <1>11, <1>12, <1>13, <1>14, <1>15, <1>16, <1>17 DEF SourceNext, Supervisor

LEMMA ReplacementInvariance == SourceSpec => []ReplacementInv
BY ReplacementInit, ReplacementStep, PTL DEF SourceSpec

(* The replaced version is the one the result was made from, unless an edit  *)
(* falls between the last check and the rename; the report agrees with the    *)
(* file, but for an error or an end of the process after the rename; a stop   *)
(* before the last look at it preserves the source; and what takes its place  *)
(* is complete (atomic_replace_source).                                       *)
THEOREM ReplacementStaysSafe == SourceSpec => []ReplacementIsSafe
<1>1. ReplacementInv => OnlyTheTreatedVersionIsReplaced
  BY DEF ReplacementInv
<1>2. ReplacementInv => ReportedAsItIs /\ StoppedInTimeIsIntact
  BY DEF ReplacementInv, SourceTypeOK, OutcomeInv, StopInv, Renamed, ReportedAsItIs,
         StoppedInTimeIsIntact
<1>3. ReplacementInv => NoTornSource
  BY DEF ReplacementInv, SyncedInv, NoTornSource
<1>4. ReplacementInv => ReplacementIsSafe
  BY <1>1, <1>2, <1>3 DEF ReplacementIsSafe
<1>5. QED
  BY ReplacementInvariance, <1>4, PTL

-----------------------------------------------------------------------------
(* Merge: the list is the user's.                                            *)

LEMMA MergeCardinality == \A S : Merge!Cardinality(S) = Cardinality(S)
BY DEF Merge!Cardinality, Cardinality

LEMMA PlacesAreTaken ==
  ASSUME NEW left \in SUBSET Nat, IsFiniteSet(left)
  PROVE  /\ Cardinality(left) \in Nat
         /\ \A k \in 1 .. Cardinality(left) : \E i \in left : Merge!Place(left, i) = k
<1> DEFINE n == Cardinality(left)
           Before(i) == {j \in left : j <= i}
           place == [i \in left |-> Merge!Place(left, i)]
<1>1. n \in Nat BY FS_CardinalityType
<1>2. \A i \in left : /\ Before(i) \in SUBSET left /\ i \in Before(i)
                      /\ IsFiniteSet(Before(i)) /\ Cardinality(Before(i)) \in 1 .. n
  <2> TAKE i \in left
  <2>1. Before(i) \in SUBSET left /\ i \in Before(i) OBVIOUS
  <2>2. IsFiniteSet(Before(i)) /\ Cardinality(Before(i)) <= n BY <2>1, FS_Subset
  <2>3. Cardinality(Before(i)) \in Nat /\ Cardinality(Before(i)) # 0
    BY <2>1, <2>2, FS_CardinalityType, FS_EmptySet
  <2> QED BY <1>1, <2>1, <2>2, <2>3
<1>3. \A i, j \in left : i < j => Cardinality(Before(i)) # Cardinality(Before(j))
  <2> SUFFICES ASSUME NEW i \in left, NEW j \in left, i < j,
                      Cardinality(Before(i)) = Cardinality(Before(j))
               PROVE  FALSE
    OBVIOUS
  <2>1. i \in Nat /\ j \in Nat OBVIOUS
  <2>3. \A k \in left : k <= i => k <= j BY <2>1
  <2>4. ~(j <= i) BY <2>1
  <2>5. Before(i) \in SUBSET Before(j) /\ j \notin Before(i) BY <2>3, <2>4
  <2>2. Before(i) = Before(j) BY <1>2, <2>5, FS_Subset
  <2> QED BY <1>2, <2>5, <2>2
<1>4. \A i \in left : Merge!Place(left, i) = Cardinality(Before(i))
  BY MergeCardinality DEF Merge!Place
<1> HIDE DEF Before
<1>5. place \in Injection(left, 1 .. n)
  <2>1. place \in [left -> 1 .. n] BY <1>2, <1>4
  <2>2. \A i, j \in left : place[i] = place[j] => i = j
    <3> SUFFICES ASSUME NEW i \in left, NEW j \in left, place[i] = place[j] PROVE i = j OBVIOUS
    <3>1. Cardinality(Before(i)) = Cardinality(Before(j)) BY <1>4
    <3>2. i \in Nat /\ j \in Nat OBVIOUS
    <3> QED BY <1>3, <3>1, <3>2
  <2> QED BY <2>1, <2>2 DEF Injection, IsInjective
<1>6. IsFiniteSet(1 .. n) /\ Cardinality(1 .. n) = n BY <1>1, FS_Interval
<1>7. place \in Surjection(left, 1 .. n) BY <1>5, <1>6, FS_Injection
<1>8. \A k \in 1 .. n : \E i \in left : place[i] = k BY <1>7 DEF Surjection
<1> QED BY <1>1, <1>8

LEMMA WhatIsLeft ==
  ASSUME NEW S, NEW list \in Seq(S), NEW set
  PROVE  /\ Merge!Only(list, set) \in Seq(S)
         /\ Merge!FilesIn(Merge!Only(list, set)) \subseteq Merge!FilesIn(list) \cap set
<1> DEFINE left == Merge!Left(list, set)
           n == Cardinality(left)
           Placed(k) == CHOOSE i \in left : Merge!Place(left, i) = k
           only == [k \in 1 .. n |-> list[Placed(k)]]
<1>1. left \subseteq DOMAIN list /\ DOMAIN list = 1 .. Len(list) /\ Len(list) \in Nat
  BY DEF Merge!Left
<1>2. left \in SUBSET Nat /\ IsFiniteSet(left)
  <2>1. IsFiniteSet(1 .. Len(list)) BY <1>1, FS_Interval
  <2> QED BY <1>1, <2>1, FS_Subset
<1>3. n \in Nat /\ \A k \in 1 .. n : Placed(k) \in left BY <1>2, PlacesAreTaken
<1>4. Merge!Only(list, set) = only BY MergeCardinality DEF Merge!Only
<1>5. \A i \in left : list[i] \in S /\ list[i] \in set /\ i \in DOMAIN list BY <1>1 DEF Merge!Left
<1> HIDE DEF left, Placed
<1>6. only \in [1 .. n -> S] BY <1>3, <1>5
<1>7. only \in Seq(S) BY <1>3, <1>6
<1>8. \A k \in 1 .. n : only[k] \in Merge!FilesIn(list) \cap set
  BY <1>3, <1>5 DEF Merge!FilesIn
<1>9. DOMAIN only = 1 .. n OBVIOUS
<1> QED BY <1>4, <1>7, <1>8, <1>9 DEF Merge!FilesIn

LEMMA FilesAreJoined ==
  ASSUME NEW S, NEW x \in Seq(S), NEW y \in Seq(S)
  PROVE  x \o y \in Seq(S) /\ Merge!FilesIn(x \o y) \subseteq Merge!FilesIn(x) \cup Merge!FilesIn(y)
<1>1. /\ x \o y \in Seq(S) /\ DOMAIN (x \o y) = 1 .. Len(x) + Len(y)
      /\ DOMAIN x = 1 .. Len(x) /\ DOMAIN y = 1 .. Len(y) /\ Len(x) \in Nat /\ Len(y) \in Nat
  OBVIOUS
<1>2. ASSUME NEW i \in 1 .. Len(x) + Len(y)
      PROVE  (x \o y)[i] \in Merge!FilesIn(x) \cup Merge!FilesIn(y)
  <2>1. CASE i <= Len(x)
    <3>1. (x \o y)[i] = x[i] /\ i \in DOMAIN x BY <1>1, <1>2, <2>1
    <3> QED BY <3>1 DEF Merge!FilesIn
  <2>2. CASE ~(i <= Len(x))
    <3>1. (x \o y)[i] = y[i - Len(x)] /\ i - Len(x) \in DOMAIN y BY <1>1, <1>2, <2>2
    <3> QED BY <3>1 DEF Merge!FilesIn
  <2> QED BY <2>1, <2>2
<1> QED BY <1>1, <1>2 DEF Merge!FilesIn

MergeLists == Seq(UserFiles)
MergeNumbers == Int
MergeCounts == [UserFiles -> MergeNumbers]
MergeKnown == [UserFiles -> [filed : MergeNumbers, unusable : BOOLEAN]]

MergePages ==
  [list : MergeLists, removed : SUBSET UserFiles, preloaded : SUBSET UserFiles, chosen : UserFiles \cup {NoUserFile},
   queue : MergeLists, running : UserFiles \cup {NoUserFile}, print : MergeNumbers, known : MergeKnown,
   result : MergeLists]

\* The result is of the list.
Unmixed(t) == t \in MergePages /\ (t.result # <<>> => t.result = t.list)

\* The list and what is kept off it are the same.
SameList(t, u) == Unmixed(u) /\ u.list = t.list /\ u.removed = t.removed

\* Nothing kept off the list joins it.
NothingReturns(t, u) ==
  /\ Unmixed(u) /\ u.removed = t.removed
  /\ Merge!FilesIn(u.list) \subseteq Merge!FilesIn(t.list) \cup (UserFiles \ t.removed)

MergeInv ==
  /\ mDisk \in MergeCounts /\ mOpen \in SUBSET UserFiles /\ mJob \in MergeLists
  /\ Unmixed(mPage)
  /\ mTakenOff \subseteq mPage.removed /\ mTakenOff \cap Merge!FilesIn(mPage.list) = {}
  /\ Merge!Running => mJob = mPage.list

LEMMA OrdersAreLists ==
  ASSUME NEW set \in SUBSET UserFiles
  PROVE  Merge!Orders(set) \subseteq MergeLists
<1>1. IsFiniteSet(UserFiles) BY ToolConstants
<1>2. Cardinality(set) \in Nat BY <1>1, FS_Subset, FS_CardinalityType
<1>3. Merge!Orders(set) \subseteq [1 .. Cardinality(set) -> set]
  BY MergeCardinality DEF Merge!Orders
<1> QED BY <1>2, <1>3 DEF MergeLists

LEMMA MergeStartsNext ==
  ASSUME NEW t, Unmixed(t), mDisk \in MergeCounts
  PROVE  SameList(t, Merge!StartNext(t)) /\ Merge!StartNext(t).result = t.result
<1> DEFINE q == Tail(t.queue)
           n == mDisk[Head(t.queue)]
           h == [t EXCEPT !.running = Head(t.queue), !.print = n, !.queue = q]
<1>1. CASE t.running # NoUserFile \/ t.queue = <<>>
  BY <1>1 DEF Merge!StartNext, SameList
<1>2. CASE ~(t.running # NoUserFile \/ t.queue = <<>>)
  <2>1. t.queue \in Seq(UserFiles) /\ t \in MergePages BY DEF Unmixed, MergePages, MergeLists
  <2>2. Head(t.queue) \in UserFiles /\ q \in MergeLists BY <1>2, <2>1 DEF MergeLists
  <2>3. n \in MergeNumbers BY <2>2 DEF MergeCounts
  <2>4. Merge!StartNext(t) = h BY <1>2 DEF Merge!StartNext
  <2> HIDE DEF q, n
  <2>5. h \in MergePages /\ h.list = t.list /\ h.removed = t.removed /\ h.result = t.result
    BY <2>1, <2>2, <2>3 DEF MergePages
  <2> QED BY <2>4, <2>5 DEF SameList, Unmixed
<1> QED BY <1>1, <1>2

LEMMA MergeChecked ==
  ASSUME NEW t \in MergePages, NEW list \in MergeLists, t.result = <<>>, mDisk \in MergeCounts
  PROVE  LET u == Merge!Check(t, list)
         IN  Unmixed(u) /\ u.list = list /\ u.removed = t.removed /\ u.result = <<>>
<1> DEFINE kept == Merge!Only(t.queue, Merge!FilesIn(list))
           asked == {p \in Merge!FilesIn(list) : t.known[p].filed # mDisk[p]}
           fresh == Merge!Only(list, asked \ (Merge!FilesIn(kept) \cup {t.running}))
           q == kept \o fresh
           h == [t EXCEPT !.list = list, !.queue = q]
<1>1. Merge!Check(t, list) = Merge!StartNext(h) BY DEF Merge!Check
<1>2. kept \in Seq(UserFiles)
  <2>1. t.queue \in Seq(UserFiles) BY DEF MergePages, MergeLists
  <2> QED BY <2>1, WhatIsLeft
<1>3. fresh \in Seq(UserFiles)
  <2>1. list \in Seq(UserFiles) BY DEF MergeLists
  <2> HIDE DEF kept, asked
  <2> QED BY <2>1, WhatIsLeft
<1> HIDE DEF kept, fresh
<1>4. q \in MergeLists BY <1>2, <1>3 DEF MergeLists
<1> HIDE DEF q
<1>5. h \in MergePages /\ h.list = list /\ h.removed = t.removed /\ h.result = <<>>
  BY <1>4 DEF MergePages
<1> HIDE DEF h
<1>6. Unmixed(h) BY <1>5 DEF Unmixed
<1> QED BY <1>1, <1>5, <1>6, MergeStartsNext DEF SameList

LEMMA MergeListChanged ==
  ASSUME NEW t, Unmixed(t), NEW list \in MergeLists, mDisk \in MergeCounts
  PROVE  LET u == Merge!ListChanged(t, list)
         IN  Unmixed(u) /\ u.list = list /\ u.removed = t.removed
<1>1. CASE list = t.list BY <1>1 DEF Merge!ListChanged
<1>2. CASE list # t.list
  <2> DEFINE h == [t EXCEPT !.result = <<>>]
  <2>1. Merge!ListChanged(t, list) = Merge!Check(h, list) BY <1>2 DEF Merge!ListChanged
  <2>2. <<>> \in MergeLists BY DEF MergeLists
  <2>3. h \in MergePages /\ h.removed = t.removed /\ h.result = <<>>
    BY <2>2 DEF Unmixed, MergePages
  <2> HIDE DEF h
  <2> QED BY <2>1, <2>3, MergeChecked
<1> QED BY <1>1, <1>2

LEMMA MergeAdds ==
  ASSUME NEW t, Unmixed(t), NEW files \in MergeLists, mDisk \in MergeCounts
  PROVE  LET u == Merge!AddFiles(t, files)
         IN  /\ Unmixed(u) /\ u.removed = t.removed
             /\ Merge!FilesIn(u.list) \subseteq Merge!FilesIn(t.list) \cup Merge!FilesIn(files)
<1> DEFINE more == Merge!Only(files, UserFiles \ Merge!FilesIn(t.list))
           list == t.list \o more
<1>1. t.list \in Seq(UserFiles) /\ files \in Seq(UserFiles) BY DEF Unmixed, MergePages, MergeLists
<1>2. more \in Seq(UserFiles) /\ Merge!FilesIn(more) \subseteq Merge!FilesIn(files) BY <1>1, WhatIsLeft
<1>3. Merge!AddFiles(t, files) = Merge!ListChanged(t, list) BY DEF Merge!AddFiles
<1> HIDE DEF more
<1>4. list \in Seq(UserFiles) /\ Merge!FilesIn(list) \subseteq Merge!FilesIn(t.list) \cup Merge!FilesIn(files)
  BY <1>1, <1>2, FilesAreJoined
<1> HIDE DEF list
<1> QED BY <1>3, <1>4, MergeListChanged DEF MergeLists

LEMMA MergeSynced ==
  ASSUME NEW t, Unmixed(t), NEW docs \in MergeLists, mDisk \in MergeCounts
  PROVE  /\ NothingReturns(t, Merge!Synced(t, docs)) /\ NothingReturns(t, Merge!Refreshed(t, docs))
         /\ Merge!Running => Merge!Synced(t, docs) = t /\ Merge!Refreshed(t, docs) = t
<1> DEFINE kept == Merge!Only(t.list, Merge!FilesIn(docs))
           more == Merge!Only(docs, UserFiles \ (Merge!FilesIn(kept) \cup t.removed))
           list == kept \o more
<1>1. NothingReturns(t, t) BY DEF NothingReturns
<1>2. CASE Merge!Running BY <1>1, <1>2 DEF Merge!Synced, Merge!Refreshed
<1>3. CASE ~Merge!Running
  <2>1. t.list \in Seq(UserFiles) /\ docs \in Seq(UserFiles) BY DEF Unmixed, MergePages, MergeLists
  <2>2. Merge!Synced(t, docs) = Merge!ListChanged(t, list) BY <1>3 DEF Merge!Synced
  <2>3. kept \in Seq(UserFiles) /\ Merge!FilesIn(kept) \subseteq Merge!FilesIn(t.list) BY <2>1, WhatIsLeft
  <2>4. more \in Seq(UserFiles) /\ Merge!FilesIn(more) \subseteq UserFiles \ t.removed
    <3> HIDE DEF kept
    <3> QED BY <2>1, WhatIsLeft
  <2> HIDE DEF kept, more
  <2>5. list \in Seq(UserFiles) /\ Merge!FilesIn(list) \subseteq Merge!FilesIn(t.list) \cup (UserFiles \ t.removed)
    BY <2>3, <2>4, FilesAreJoined
  <2> HIDE DEF list
  <2>6. NothingReturns(t, Merge!Synced(t, docs))
    BY <2>2, <2>5, MergeListChanged DEF MergeLists, NothingReturns
  <2> QED BY <1>1, <1>3, <2>6 DEF Merge!Refreshed
<1> QED BY <1>2, <1>3

LEMMA MergeInit == Merge!Init => MergeInv
<1> SUFFICES ASSUME Merge!Init PROVE MergeInv OBVIOUS
<1>1. <<>> \in MergeLists /\ 0 \in MergeNumbers
      /\ [p \in UserFiles |-> 1] \in MergeCounts /\ [p \in UserFiles |-> Merge!NotCounted] \in MergeKnown
  BY DEF MergeLists, MergeNumbers, MergeCounts, MergeKnown, Merge!NotCounted
<1>2. mPage \in MergePages /\ mPage.result = <<>> BY <1>1 DEF Merge!Init, MergePages
<1> QED BY <1>1, <1>2 DEF Merge!Init, MergeInv, Unmixed, Merge!Running

\* A handler of the page, while no merge runs: what was taken off does not come back.
LEMMA MergeHandled ==
  ASSUME MergeInv, ~Merge!Running, ~Merge!Running', Unmixed(mPage)', mJob' \in MergeLists,
         mDisk' \in MergeCounts, mOpen' \in SUBSET UserFiles,
         mTakenOff' \subseteq mPage'.removed, mTakenOff' \cap Merge!FilesIn(mPage'.list) = {}
  PROVE  MergeInv'
BY DEF MergeInv, Merge!FilesIn

\* Its list stays, or what joins it was not taken off.
LEMMA MergeRefreshes ==
  ASSUME MergeInv, UNCHANGED <<mJob, mTakenOff>>, mDisk' \in MergeCounts, mOpen' \in SUBSET UserFiles,
         NothingReturns(mPage, mPage'),
         Merge!Running => mPage'.list = mPage.list
  PROVE  MergeInv'
<1>1. Unmixed(mPage)' BY DEF NothingReturns, Unmixed
<1>2. mTakenOff \cap Merge!FilesIn(mPage'.list) = {} /\ mTakenOff \subseteq mPage'.removed
  BY DEF MergeInv, NothingReturns
<1> QED BY <1>1, <1>2 DEF MergeInv, Merge!Running, Merge!FilesIn

LEMMA MergeStep == MergeInv /\ [Merge!Next]_mergeVars => MergeInv'
<1> SUFFICES ASSUME MergeInv, [Merge!Next]_mergeVars PROVE MergeInv' OBVIOUS
<1>0. /\ mDisk \in MergeCounts /\ mOpen \in SUBSET UserFiles /\ mJob \in MergeLists
      /\ Unmixed(mPage) /\ mPage \in MergePages
      /\ mTakenOff \subseteq mPage.removed /\ mTakenOff \cap Merge!FilesIn(mPage.list) = {}
      /\ (Merge!Running => mJob = mPage.list)
  BY DEF MergeInv, Unmixed
<1>e. <<>> \in MergeLists /\ \A p \in UserFiles : <<p>> \in MergeLists /\ Merge!FilesIn(<<p>>) = {p}
  BY DEF MergeLists, Merge!FilesIn
<1>u. NothingReturns(mPage, mPage) BY <1>0 DEF NothingReturns
\* Nothing of the page changes.
<1>n. ASSUME UNCHANGED <<mPage, mJob, mTakenOff>>, mDisk' \in MergeCounts, mOpen' \in SUBSET UserFiles
      PROVE  MergeInv'
  BY <1>n, <1>u, MergeRefreshes
<1>1. ASSUME NEW docs \in Merge!Orders(mOpen), NEW selected \in IF mOpen = {} THEN {NoUserFile} ELSE mOpen,
             Merge!Arrive(docs, selected)
      PROVE  MergeInv'
  <2>1. UNCHANGED <<mDisk, mOpen, mJob>> BY <1>1 DEF Merge!Arrive
  <2>2. CASE Merge!Running
    BY <1>0, <1>1, <1>n, <2>1, <2>2 DEF Merge!Arrive
  <2>3. CASE ~Merge!Running
    <3> DEFINE t == Merge!Synced(mPage, docs)
               files == IF mOpen = {} THEN <<>> ELSE IF Merge!Preloads THEN docs ELSE <<selected>>
               blank == [t EXCEPT !.result = <<>>, !.removed = {}]
               emptied == Merge!Check(blank, <<>>)
               listed == Merge!AddFiles(emptied, files)
               taken == IF Len(files) > 1 THEN Merge!FilesIn(files) ELSE {}
               away == mOpen \ Merge!FilesIn(files)
               whole == [listed EXCEPT !.preloaded = taken, !.chosen = selected, !.removed = away]
    <3>1. mPage' = IF mOpen = {} THEN listed ELSE whole
      BY <1>1, <2>3 DEF Merge!Arrive, Merge!Launched
    <3>2. mTakenOff' = {} BY <1>1, <2>3 DEF Merge!Arrive
    <3>3. docs \in MergeLists BY <1>0, OrdersAreLists
    <3>4. Unmixed(t) BY <1>0, <3>3, MergeSynced DEF NothingReturns
    <3>5. files \in MergeLists BY <1>0, <1>1, <1>e, <3>3
    <3> HIDE DEF t
    <3>6. blank \in MergePages /\ blank.result = <<>> BY <1>e, <3>4 DEF Unmixed, MergePages
    <3> HIDE DEF blank
    <3>7. Unmixed(emptied) BY <1>0, <1>e, <3>6, MergeChecked
    <3> HIDE DEF emptied
    <3>8. Unmixed(listed) BY <1>0, <3>5, <3>7, MergeAdds
    <3> HIDE DEF listed
    <3>9. Merge!FilesIn(files) \in SUBSET UserFiles
      <4>1. files \in Seq(UserFiles) BY <3>5 DEF MergeLists
      <4> QED BY <4>1 DEF Merge!FilesIn
    <3>10. taken \in SUBSET UserFiles /\ away \in SUBSET UserFiles /\ selected \in UserFiles \cup {NoUserFile}
      BY <1>0, <1>1, <3>9
    <3> HIDE DEF taken, away
    <3>11. whole \in MergePages /\ whole.list = listed.list /\ whole.result = listed.result
      BY <3>8, <3>10 DEF Unmixed, MergePages
    <3>12. Unmixed(mPage') BY <3>1, <3>8, <3>11 DEF Unmixed
    <3>13. Unmixed(mPage)' BY <3>12 DEF Unmixed
    <3>14. ~Merge!Running' BY <2>1, <2>3 DEF Merge!Running
    <3> QED BY <1>0, <2>1, <2>3, <3>2, <3>13, <3>14, MergeHandled
  <2> QED BY <2>2, <2>3
<1>2. ASSUME \/ Merge!Leave
             \/ \E p \in UserFiles : Merge!DocumentOpened(p) \/ Merge!ReaderCounts(p)
             \/ Merge!CountReads
      PROVE  MergeInv'
  <2>1. UNCHANGED <<mPage, mJob, mTakenOff, mDisk>> /\ mOpen' \in SUBSET UserFiles
    BY <1>0, <1>2 DEF Merge!Leave, Merge!DocumentOpened, Merge!ReaderCounts, Merge!CountReads, Merge!window
  <2> QED BY <1>0, <1>n, <2>1
<1>3. ASSUME NEW docs \in MergeLists, mPage' = Merge!Refreshed(mPage, docs),
             UNCHANGED <<mJob, mTakenOff, mDisk>>, mOpen' \in SUBSET UserFiles
      PROVE  MergeInv'
  <2>1. /\ NothingReturns(mPage, mPage') /\ (Merge!Running => mPage' = mPage)
    BY <1>0, <1>3, MergeSynced
  <2> QED BY <1>0, <1>3, <2>1, MergeRefreshes
<1>4. ASSUME NEW p \in mOpen, NEW docs \in Merge!Orders(mOpen), Merge!DocumentClosed(p, docs) PROVE MergeInv'
  <2>1. docs \in Seq(UserFiles) BY <1>0, OrdersAreLists DEF MergeLists
  <2>2. Merge!Only(docs, mOpen \ {p}) \in MergeLists BY <2>1, WhatIsLeft DEF MergeLists
  <2> QED BY <1>0, <1>3, <1>4, <2>2 DEF Merge!DocumentClosed
<1>5. ASSUME NEW set \in SUBSET UserFiles, NEW docs \in Merge!Orders(set), Merge!SessionChanged(set, docs)
      PROVE  MergeInv'
  <2>1. docs \in MergeLists BY OrdersAreLists
  <2> QED BY <1>3, <1>5, <2>1 DEF Merge!SessionChanged
<1>6. ASSUME NEW p \in UserFiles, NEW docs \in Merge!Orders(mOpen \cup {p}), Merge!HandleFiles(p, docs)
      PROVE  MergeInv'
  <2> DEFINE rest == mPage.removed \ {p}
             g == [mPage EXCEPT !.removed = rest]
             h == Merge!AddFiles(g, <<p>>)
  <2>1. /\ ~Merge!Running /\ mPage' = Merge!Synced(h, docs) /\ mTakenOff' = mTakenOff \ {p}
        /\ UNCHANGED <<mDisk, mJob>> /\ mOpen' = mOpen \cup {p}
    BY <1>6 DEF Merge!HandleFiles
  <2>2. docs \in MergeLists /\ mOpen' \in SUBSET UserFiles
    <3>1. mOpen \cup {p} \in SUBSET UserFiles BY <1>0
    <3> QED BY <2>1, <3>1, OrdersAreLists
  <2>3. rest \in SUBSET UserFiles BY <1>0 DEF MergePages
  <2>4. mTakenOff \ {p} \subseteq rest BY <1>0
  <2> HIDE DEF rest
  <2>5. /\ g \in MergePages /\ g.list = mPage.list /\ g.removed = rest /\ g.result = mPage.result
    BY <1>0, <2>3 DEF MergePages
  <2> HIDE DEF g
  <2>6. Unmixed(g) BY <1>0, <2>5 DEF Unmixed
  <2>7. /\ Unmixed(h) /\ h.removed = rest
        /\ Merge!FilesIn(h.list) \subseteq Merge!FilesIn(mPage.list) \cup {p}
    <3>1. mDisk \in MergeCounts BY <1>0
    <3>2. <<p>> \in MergeLists /\ Merge!FilesIn(<<p>>) = {p} BY <1>e
    <3>3. /\ Unmixed(h) /\ h.removed = g.removed
          /\ Merge!FilesIn(h.list) \subseteq Merge!FilesIn(g.list) \cup Merge!FilesIn(<<p>>)
      BY <2>6, <3>1, <3>2, MergeAdds
    <3> QED BY <2>5, <3>2, <3>3
  <2> HIDE DEF h
  <2>8. NothingReturns(h, mPage') BY <1>0, <2>1, <2>2, <2>7, MergeSynced
  <2>9. Unmixed(mPage)' BY <2>8 DEF NothingReturns, Unmixed
  <2>10. /\ mTakenOff' \subseteq mPage'.removed
         /\ mTakenOff' \cap Merge!FilesIn(mPage'.list) = {}
    BY <1>0, <2>1, <2>4, <2>7, <2>8 DEF NothingReturns
  <2>11. ~Merge!Running' BY <2>1 DEF Merge!Running
  <2> QED BY <1>0, <2>1, <2>2, <2>9, <2>10, <2>11, MergeHandled
<1>7. ASSUME NEW p \in UserFiles, Merge!RemoveKey(p) PROVE MergeInv'
  <2> DEFINE more == mPage.removed \cup {p}
             g == [mPage EXCEPT !.removed = more]
             list == Merge!Only(mPage.list, UserFiles \ {p})
  <2>1. /\ ~Merge!Running /\ mPage' = Merge!ListChanged(g, list) /\ mTakenOff' = mTakenOff \cup {p}
        /\ UNCHANGED <<mDisk, mOpen, mJob>>
    BY <1>7 DEF Merge!RemoveKey, Merge!window
  <2>2. more \in SUBSET UserFiles BY <1>0 DEF MergePages
  <2>3. mTakenOff \cup {p} \subseteq more BY <1>0
  <2> HIDE DEF more
  <2>4. /\ g \in MergePages /\ g.list = mPage.list /\ g.removed = more /\ g.result = mPage.result
    BY <1>0, <2>2 DEF MergePages
  <2> HIDE DEF g
  <2>5. Unmixed(g) BY <1>0, <2>4 DEF Unmixed
  <2>6. list \in MergeLists /\ Merge!FilesIn(list) \subseteq Merge!FilesIn(mPage.list) \cap (UserFiles \ {p})
    <3>1. mPage.list \in Seq(UserFiles) BY <1>0 DEF MergePages, MergeLists
    <3> QED BY <3>1, WhatIsLeft DEF MergeLists
  <2> HIDE DEF list
  <2>7. Unmixed(mPage') /\ mPage'.list = list /\ mPage'.removed = more
    BY <1>0, <2>1, <2>4, <2>5, <2>6, MergeListChanged
  <2>8. Unmixed(mPage)' BY <2>7 DEF Unmixed
  <2>9. /\ mTakenOff' \subseteq mPage'.removed
        /\ mTakenOff' \cap Merge!FilesIn(mPage'.list) = {}
    BY <1>0, <2>1, <2>3, <2>6, <2>7
  <2>10. ~Merge!Running' BY <2>1 DEF Merge!Running
  <2> QED BY <1>0, <2>1, <2>8, <2>9, <2>10, MergeHandled
<1>8. ASSUME NEW order \in Merge!Orders(Merge!FilesIn(mPage.list)), Merge!ListReordered(order) PROVE MergeInv'
  <2>1. /\ ~Merge!Running /\ mPage' = Merge!ListChanged(mPage, order)
        /\ UNCHANGED <<mDisk, mOpen, mJob, mTakenOff>>
    BY <1>8 DEF Merge!ListReordered, Merge!window
  <2>2. Merge!FilesIn(mPage.list) \in SUBSET UserFiles
    <3>1. mPage.list \in Seq(UserFiles) BY <1>0 DEF MergePages, MergeLists
    <3> QED BY <3>1 DEF Merge!FilesIn
  <2>3. order \in MergeLists BY <2>2, OrdersAreLists
  <2>4. Merge!FilesIn(order) = Merge!FilesIn(mPage.list) BY DEF Merge!Orders
  <2>5. Unmixed(mPage') /\ mPage'.list = order /\ mPage'.removed = mPage.removed
    BY <1>0, <2>1, <2>3, MergeListChanged
  <2>6. NothingReturns(mPage, mPage') BY <2>4, <2>5 DEF NothingReturns
  <2> QED BY <1>0, <2>1, <2>6, MergeRefreshes
<1>9. ASSUME Merge!StartMerge PROVE MergeInv'
  <2> DEFINE h == [mPage EXCEPT !.result = <<>>]
  <2>1. mJob' = mPage.list /\ mPage' = h /\ UNCHANGED <<mDisk, mOpen, mTakenOff>>
    BY <1>9 DEF Merge!StartMerge, Merge!window
  <2>2. /\ h \in MergePages /\ h.list = mPage.list /\ h.removed = mPage.removed /\ h.result = <<>>
    BY <1>0, <1>e DEF MergePages
  <2> HIDE DEF h
  <2>3. mPage.list \in MergeLists BY <1>0 DEF MergePages
  <2> QED BY <1>0, <2>1, <2>2, <2>3 DEF MergeInv, Unmixed, Merge!FilesIn
<1>10. ASSUME NEW success \in BOOLEAN, Merge!MergeFinished(success) PROVE MergeInv'
  <2> DEFINE r == IF success THEN mJob ELSE <<>>
             h == [mPage EXCEPT !.result = r]
  <2>1. Merge!Running /\ mJob' = <<>> /\ mPage' = h /\ UNCHANGED <<mDisk, mOpen, mTakenOff>>
    BY <1>10 DEF Merge!MergeFinished, Merge!window
  <2>2. r \in MergeLists /\ r \in {<<>>, mPage.list} BY <1>0, <1>e, <2>1
  <2> HIDE DEF r
  <2>3. /\ h \in MergePages /\ h.list = mPage.list /\ h.removed = mPage.removed /\ h.result = r
    BY <1>0, <2>2 DEF MergePages
  <2> HIDE DEF h
  <2>4. ~Merge!Running' BY <2>1 DEF Merge!Running
  <2> QED BY <1>0, <1>e, <2>1, <2>2, <2>3, <2>4 DEF MergeInv, Unmixed, Merge!FilesIn
<1>11. ASSUME NEW docs \in Merge!Orders(mOpen), Merge!CountFinished(docs) PROVE MergeInv'
  <2> DEFINE bad == mAnswer = "protected"
             entry == [filed |-> mPage.print, unusable |-> bad]
             known == [mPage.known EXCEPT ![mPage.running] = entry]
             filed == [mPage EXCEPT !.running = NoUserFile, !.known = known]
             next == IF mPage.running \in mOpen /\ mAnswer # "unsaid" THEN Merge!Refreshed(filed, docs)
                     ELSE filed
  <2>1. Merge!AnswerFiled(mPage) = filed BY DEF Merge!AnswerFiled
  <2>2. /\ mPage' = Merge!StartNext(next) /\ UNCHANGED <<mDisk, mOpen, mJob, mTakenOff>>
    BY <1>11, <2>1 DEF Merge!CountFinished
  <2>3. docs \in MergeLists BY <1>0, OrdersAreLists
  <2>4. mPage.known \in MergeKnown /\ mPage.print \in MergeNumbers BY <1>0 DEF MergePages
  <2>5. bad \in BOOLEAN OBVIOUS
  <2> HIDE DEF bad
  <2>6. known \in MergeKnown BY <2>4, <2>5 DEF MergeKnown
  <2> HIDE DEF known
  <2>7. /\ filed \in MergePages /\ filed.list = mPage.list /\ filed.removed = mPage.removed
        /\ filed.result = mPage.result
    BY <1>0, <2>6 DEF MergePages
  <2> HIDE DEF filed
  <2>8. Unmixed(filed) BY <1>0, <2>7 DEF Unmixed
  <2>9. NothingReturns(filed, next) /\ (Merge!Running => next = filed)
    BY <1>0, <2>3, <2>8, MergeSynced DEF NothingReturns
  <2> HIDE DEF next
  <2>10. SameList(next, mPage') BY <1>0, <2>2, <2>9, MergeStartsNext DEF NothingReturns
  <2>11. NothingReturns(mPage, mPage') /\ (Merge!Running => mPage'.list = mPage.list)
    BY <2>7, <2>9, <2>10 DEF NothingReturns, SameList
  <2> QED BY <1>0, <2>2, <2>11, MergeRefreshes
<1>12. ASSUME Merge!ApplyPreloadRule PROVE MergeInv'
  <2>1. UNCHANGED <<mDisk, mOpen, mJob, mTakenOff>> BY <1>12 DEF Merge!ApplyPreloadRule, Merge!window
  <2>2. CASE ~Merge!RuleApplies(mPage)
    BY <1>0, <1>12, <1>n, <2>1, <2>2 DEF Merge!ApplyPreloadRule
  <2>3. CASE Merge!RuleApplies(mPage)
    <3> DEFINE out == Merge!LeftOut(mPage)
               more == mPage.removed \cup out
               g == [mPage EXCEPT !.removed = more, !.preloaded = {}, !.result = <<>>]
               list == Merge!Only(mPage.list, UserFiles \ out)
    <3>1. ~Merge!Running /\ mPage' = Merge!ListChanged(g, list)
      BY <1>12, <2>3 DEF Merge!ApplyPreloadRule, Merge!RuleApplies
    <3>2. mPage.list \in Seq(UserFiles) BY <1>0 DEF MergePages, MergeLists
    <3>3. out \in SUBSET UserFiles BY <3>2 DEF Merge!LeftOut, Merge!FilesIn
    <3> HIDE DEF out
    <3>4. more \in SUBSET UserFiles /\ mPage.removed \subseteq more BY <1>0, <3>3 DEF MergePages
    <3> HIDE DEF more
    <3>5. /\ g \in MergePages /\ g.removed = more /\ g.result = <<>>
      BY <1>0, <1>e, <3>4 DEF MergePages
    <3> HIDE DEF g
    <3>6. list \in MergeLists /\ Merge!FilesIn(list) \subseteq Merge!FilesIn(mPage.list)
      BY <3>2, WhatIsLeft DEF MergeLists
    <3> HIDE DEF list
    <3>7. Unmixed(g) BY <3>5 DEF Unmixed
    <3>8. Unmixed(mPage') /\ mPage'.list = list /\ mPage'.removed = more
      BY <1>0, <3>1, <3>5, <3>6, <3>7, MergeListChanged
    <3>9. Unmixed(mPage)' BY <3>8 DEF Unmixed
    <3>10. ~Merge!Running' BY <2>1, <3>1 DEF Merge!Running
    <3> QED BY <1>0, <2>1, <3>1, <3>4, <3>6, <3>8, <3>9, <3>10, MergeHandled
  <2> QED BY <2>2, <2>3
<1>13. ASSUME NEW p \in UserFiles, Merge!Rewritten(p) PROVE MergeInv'
  <2>1. mDisk[p] \in Int BY <1>0 DEF MergeCounts, MergeNumbers
  <2>2. mDisk[p] + 1 \in MergeNumbers BY <2>1, SMT DEF MergeNumbers
  <2>3. mDisk' \in MergeCounts /\ UNCHANGED <<mOpen, mPage, mJob, mTakenOff>>
    BY <1>0, <1>13, <2>2 DEF Merge!Rewritten, MergeCounts, Merge!window
  <2> QED BY <1>0, <1>n, <2>3
<1>14. ASSUME UNCHANGED mergeVars PROVE MergeInv'
  BY <1>0, <1>14, <1>n DEF mergeVars
<1> QED
  BY <1>1, <1>2, <1>4, <1>5, <1>6, <1>7, <1>8, <1>9, <1>10, <1>11, <1>12, <1>13, <1>14
  DEF Merge!Next, Merge!CountWorks

LEMMA MergeShows == MergeInv => Merge!ListIsTheUsers
BY DEF MergeInv, Unmixed, Merge!ListIsTheUsers, Merge!RemovedStaysOff, Merge!JobIsOfTheList

LEMMA NaturalsAreOrdered == \A n \in Nat : n <= n
BY SMT

-----------------------------------------------------------------------------
(* Check before sharing.                                                     *)

SharedFiles == UserFiles \cup {NewFile}

SharePages ==
  [input : UserFiles \cup {NoUserFile}, report : [path : SharedFiles \cup {NoUserFile}, version : Nat],
   result : SharedFiles \cup {NoUserFile}, pending : BOOLEAN, inspecting : BOOLEAN,
   inspected : SharedFiles \cup {NoUserFile}, print : Nat, preview : Nat, pictured : Nat,
   loading : BOOLEAN, ready : BOOLEAN, previewing : BOOLEAN, discard : BOOLEAN, photo : BOOLEAN,
   final : BOOLEAN, replace : BOOLEAN, usable : BOOLEAN]

ShareJobs ==
  [kind : {"metadata", "preview", "photo"}, path : UserFiles, identity : Nat, previewed : Nat,
   replaces : BOOLEAN, opened : Nat, cancelled : BOOLEAN, done : BOOLEAN, success : BOOLEAN]

\* A preview that is ready, or will be, was made from the version it names; the result and the
\* report are of the source or of its copy.
Reporting(g) ==
  /\ g.pictured \in {0, g.preview}
  /\ g.ready \/ g.loading => g.pictured # 0
  /\ g.result \in {NoUserFile, g.input, NewFile}
  /\ g.report # Share!NoReport => g.report.path \in {g.input, NewFile}

ShareSound == {g \in SharePages : Reporting(g)}

\* What a handler may leave: the same source and preview, or less of a preview, or a new source.
StillShown(g, h) ==
  /\ h \in ShareSound
  /\ h.input = g.input /\ h.preview = g.preview /\ h.pictured = g.pictured
  /\ h.ready = g.ready /\ h.loading = g.loading
  /\ h.previewing = g.previewing /\ h.photo = g.photo /\ h.replace = g.replace

Withdrawn(g, h) ==
  /\ h \in ShareSound
  /\ h.preview = 0 /\ h.pictured = 0 /\ ~h.ready /\ ~h.loading
  /\ h.input = g.input /\ h.previewing = g.previewing

Kept(g, h) ==
  /\ h \in ShareSound
  /\ h.preview \in {0, g.preview} /\ h.input = g.input /\ h.previewing = g.previewing

Renewed(g, h) ==
  /\ ~Share!JobRuns /\ h \in ShareSound /\ h.input \in UserFiles
  /\ ~h.replace /\ ~h.ready /\ ~h.loading /\ h.previewing = g.previewing

\* A job works on the source, opened no other version than the one it names, photographs the one
\* that was previewed, and replaces what the question was about.
JobInv(j) ==
  /\ j \in ShareJobs /\ j.path = sPage.input
  /\ j.kind = "preview" => j.identity # 0 /\ ~j.replaces
  /\ sPage.previewing => j.kind = "preview" /\ sPage.preview \in {0, j.identity}
  /\ j.identity # 0 => j.opened \in {0, j.identity}
  /\ j.success => j.opened # 0
  /\ j.kind = "photo" => j.previewed \in {0, j.identity}
  /\ j.replaces => j.path = sAsked /\ (j.kind = "photo" => j.previewed # 0)

AskingInv ==
  /\ ~Share!JobRuns /\ ~sPage.loading /\ sPage.input \in UserFiles
  /\ sPage.replace => sPage.input = sAsked /\ (sPage.photo => sPage.pictured # 0)

ShareInv ==
  /\ sDisk \in [SharedFiles -> Nat] /\ (\A p \in UserFiles : sDisk[p] # 0)
  /\ sSelected \in UserFiles \cup {NoUserFile} /\ sVisible \in BOOLEAN /\ sAsking \in BOOLEAN
  /\ sPage \in ShareSound
  /\ ~sVisible => ~sPage.ready /\ ~sPage.loading
  /\ sPage.previewing => Share!JobRuns
  /\ Share!JobRuns => JobInv(sJob)
  /\ sAsking => AskingInv

DiskIsTyped == sDisk \in [SharedFiles -> Nat]

LEMMA Identities ==
  ASSUME DiskIsTyped
  PROVE  \A p \in SharedFiles \cup {NoUserFile} : Share!Identity(p) \in Nat
BY DEF DiskIsTyped, Share!Identity

LEMMA Stillness ==
  ASSUME NEW g \in ShareSound, NEW h, NEW k, StillShown(g, h), StillShown(h, k)
  PROVE  StillShown(g, g) /\ StillShown(g, k)
BY DEF StillShown

LEMMA SharedIsTyped ==
  ASSUME NEW g \in ShareSound
  PROVE  g \in SharePages /\ Reporting(g) /\ g.inspected \in SharedFiles \cup {NoUserFile}
         /\ g.input \in SharedFiles \cup {NoUserFile}
BY DEF ShareSound, SharePages, SharedFiles

LEMMA StateUpdated ==
  ASSUME NEW g \in ShareSound
  PROVE  StillShown(g, Share!UpdateState(g)) /\ StillShown(g, Share!Settled(g))
<1>1. /\ Share!UpdateState(g) = [g EXCEPT !.usable = ~Share!Busy(g)]
      /\ Share!Settled(g) = [g EXCEPT !.usable = ~g.inspecting /\ ~g.loading]
      /\ (~Share!Busy(g)) \in BOOLEAN
  BY DEF Share!UpdateState, Share!Settled
<1>2. ASSUME NEW u \in BOOLEAN PROVE StillShown(g, [g EXCEPT !.usable = u])
  <2> DEFINE h == [g EXCEPT !.usable = u]
  <2>1. /\ h \in SharePages /\ h.input = g.input /\ h.preview = g.preview /\ h.pictured = g.pictured
        /\ h.ready = g.ready /\ h.loading = g.loading /\ h.result = g.result /\ h.report = g.report
        /\ h.previewing = g.previewing /\ h.photo = g.photo /\ h.replace = g.replace
    BY DEF ShareSound, SharePages
  <2> HIDE DEF h
  <2>2. StillShown(g, h) BY <2>1 DEF StillShown, ShareSound, Reporting
  <2> QED BY <2>2 DEF h
<1> QED BY <1>1, <1>2

LEMMA PreviewCleared ==
  ASSUME NEW g \in ShareSound
  PROVE  /\ Withdrawn(g, Share!ClearPreview(g)) /\ Share!ClearPreview(g).photo = g.photo
         /\ Share!ClearPreview(g).result = g.result
<1> DEFINE h == [g EXCEPT !.loading = FALSE, !.ready = FALSE, !.preview = 0, !.pictured = 0]
<1>1. /\ h \in SharePages /\ h.input = g.input /\ h.preview = 0 /\ h.pictured = 0
      /\ ~h.ready /\ ~h.loading /\ h.result = g.result /\ h.report = g.report
      /\ h.previewing = g.previewing /\ h.photo = g.photo /\ h.replace = g.replace
  BY DEF ShareSound, SharePages
<1>2. Share!ClearPreview(g) = h BY DEF Share!ClearPreview
<1> HIDE DEF h
<1> QED BY <1>1, <1>2 DEF Withdrawn, ShareSound, Reporting

LEMMA Inspected ==
  ASSUME NEW g \in ShareSound, NEW p \in SharedFiles \cup {NoUserFile}, DiskIsTyped
  PROVE  StillShown(g, Share!Inspect(g, p)) /\ StillShown(g, Share!InspectSource(g))
<1>1. ASSUME NEW q \in SharedFiles \cup {NoUserFile} PROVE StillShown(g, Share!Inspect(g, q))
  <2> DEFINE h == [g EXCEPT !.pending = FALSE, !.inspecting = TRUE, !.inspected = q,
                            !.print = Share!Identity(q), !.report = Share!NoReport]
  <2>1. Share!Identity(q) \in Nat BY Identities
  <2>2. Share!NoReport \in [path : SharedFiles \cup {NoUserFile}, version : Nat] BY DEF Share!NoReport
  <2>3. /\ h \in SharePages /\ h.input = g.input /\ h.preview = g.preview /\ h.pictured = g.pictured
        /\ h.ready = g.ready /\ h.loading = g.loading /\ h.result = g.result /\ h.report = Share!NoReport
        /\ h.previewing = g.previewing /\ h.photo = g.photo /\ h.replace = g.replace
    BY <2>1, <2>2 DEF ShareSound, SharePages
  <2>4. Share!Inspect(g, q) = Share!UpdateState(h) BY DEF Share!Inspect
  <2> HIDE DEF h
  <2>5. StillShown(g, h) BY <2>3 DEF StillShown, ShareSound, Reporting
  <2>6. StillShown(h, Share!UpdateState(h)) BY <2>5, StateUpdated DEF StillShown
  <2> QED BY <2>4, <2>5, <2>6, Stillness
<1>2. g.input \in SharedFiles \cup {NoUserFile} BY SharedIsTyped
<1> QED BY <1>1, <1>2 DEF Share!InspectSource, StillShown

LEMMA SourceSet ==
  ASSUME NEW g \in ShareSound, NEW p \in UserFiles, DiskIsTyped
  PROVE  Share!SetInput(g, p) = g \/ Renewed(g, Share!SetInput(g, p))
<1>1. CASE Share!JobRuns \/ Share!SameInspection(g, p) BY <1>1 DEF Share!SetInput
<1>2. CASE ~(Share!JobRuns \/ Share!SameInspection(g, p))
  <2> DEFINE k == [g EXCEPT !.discard = FALSE, !.input = p, !.report = Share!NoReport,
                            !.result = NoUserFile, !.replace = FALSE]
             given == Share!ClearPreview(k)
             later == [given EXCEPT !.pending = TRUE]
             next == IF g.inspecting THEN later ELSE Share!InspectSource(given)
  <2>1. Share!NoReport \in [path : SharedFiles \cup {NoUserFile}, version : Nat] BY DEF Share!NoReport
  <2>2. /\ k \in SharePages /\ k.report = Share!NoReport /\ k.result = NoUserFile /\ ~k.replace
        /\ k.input = p /\ k.pictured = g.pictured /\ k.preview = g.preview /\ k.ready = g.ready /\ k.loading = g.loading
        /\ k.previewing = g.previewing
    BY <2>1 DEF ShareSound, SharePages
  <2>3. Share!SetInput(g, p) = Share!UpdateState(next) BY <1>2 DEF Share!SetInput, Share!GivenSource
  <2>4. k \in ShareSound BY <2>2, SharedIsTyped DEF ShareSound, Reporting
  <2>5. given = [k EXCEPT !.loading = FALSE, !.ready = FALSE, !.preview = 0, !.pictured = 0]
    BY DEF Share!ClearPreview
  <2> HIDE DEF k
  <2>6. Withdrawn(k, given) /\ given.replace = k.replace
    BY <2>2, <2>4, <2>5, PreviewCleared DEF SharePages
  <2> HIDE DEF given
  <2>7. given \in ShareSound BY <2>6 DEF Withdrawn
  <2>8. StillShown(given, later)
    <3>1. /\ later \in SharePages /\ later.input = given.input /\ later.preview = given.preview
          /\ later.pictured = given.pictured /\ later.ready = given.ready /\ later.loading = given.loading
          /\ later.result = given.result /\ later.report = given.report
          /\ later.previewing = given.previewing /\ later.photo = given.photo /\ later.replace = given.replace
      BY <2>7 DEF ShareSound, SharePages
    <3> HIDE DEF later
    <3> QED BY <2>7, <3>1 DEF StillShown, ShareSound, Reporting
  <2> HIDE DEF later
  <2>9. StillShown(given, next) BY <2>7, <2>8, Inspected
  <2> HIDE DEF next
  <2>10. StillShown(next, Share!UpdateState(next)) BY <2>9, StateUpdated DEF StillShown
  <2> QED BY <1>2, <2>2, <2>3, <2>6, <2>9, <2>10 DEF Renewed, StillShown, Withdrawn
<1> QED BY <1>1, <1>2

LEMMA SourceSynced ==
  ASSUME NEW g \in ShareSound, NEW p \in UserFiles, DiskIsTyped
  PROVE  Share!Synced(g, p) = g \/ Renewed(g, Share!Synced(g, p))
BY SourceSet DEF Share!Synced, Share!SetDocument

LEMMA InspectionEnds ==
  ASSUME NEW g \in ShareSound, NEW read \in Nat, DiskIsTyped
  PROVE  StillShown(g, Share!InspectionEnded(g, read))
<1> DEFINE free == [g EXCEPT !.inspecting = FALSE]
<1>1. /\ free \in SharePages /\ free.input = g.input /\ free.preview = g.preview
      /\ free.pictured = g.pictured /\ free.ready = g.ready /\ free.loading = g.loading
      /\ free.result = g.result /\ free.report = g.report
      /\ free.previewing = g.previewing /\ free.photo = g.photo /\ free.replace = g.replace
  BY DEF ShareSound, SharePages
<1>2. Share!InspectionEnded(g, read) \in
        {free, Share!InspectSource(free), Share!UpdateState(Share!Reported(free, read))}
  BY DEF Share!InspectionEnded, ShareSound, SharePages
<1> HIDE DEF free
<1>3. StillShown(g, free) BY <1>1 DEF StillShown, ShareSound, Reporting
<1>4. free \in ShareSound BY <1>3 DEF StillShown
<1> DEFINE r == IF Share!Identity(free.inspected) = free.print /\ read # 0
                THEN [path |-> free.inspected, version |-> read] ELSE Share!NoReport
           told == [free EXCEPT !.report = r]
<1>5. StillShown(free, Share!Reported(free, read))
  <2>1. CASE free.inspected # Share!Expected(free)
    BY <1>4, <2>1 DEF Share!Reported, StillShown
  <2>2. CASE free.inspected = Share!Expected(free)
    <3>1. Share!Reported(free, read) = told BY <2>2 DEF Share!Reported
    <3>2. r \in [path : SharedFiles \cup {NoUserFile}, version : Nat]
      BY <1>1, SharedIsTyped, <1>4 DEF Share!NoReport
    <3>3. r # Share!NoReport => r.path = Share!Expected(free) BY <2>2
    <3> HIDE DEF r
    <3>4. /\ told \in SharePages /\ told.input = free.input /\ told.preview = free.preview
          /\ told.pictured = free.pictured /\ told.ready = free.ready /\ told.loading = free.loading
          /\ told.result = free.result /\ told.report = r
          /\ told.previewing = free.previewing /\ told.photo = free.photo /\ told.replace = free.replace
      BY <1>1, <3>2 DEF SharePages
    <3> HIDE DEF told
    <3>5. Reporting(free) BY <1>4 DEF ShareSound
    <3>6. Share!Expected(free) \in {free.input, NewFile} BY <3>5 DEF Share!Expected, Reporting
    <3>7. Reporting(told) BY <3>3, <3>4, <3>5, <3>6 DEF Reporting
    <3> QED BY <3>1, <3>4, <3>7 DEF StillShown, ShareSound
  <2> QED BY <2>1, <2>2
<1>6. StillShown(free, Share!UpdateState(Share!Reported(free, read)))
  <2>1. Share!Reported(free, read) \in ShareSound BY <1>5 DEF StillShown
  <2> QED BY <1>4, <1>5, <2>1, StateUpdated, Stillness
<1>7. StillShown(free, Share!InspectSource(free))
  <2>1. NoUserFile \in SharedFiles \cup {NoUserFile} OBVIOUS
  <2> QED BY <1>4, <2>1, Inspected
<1> QED BY <1>2, <1>3, <1>6, <1>7, Stillness

LEMMA ShareInit == Share!Init => ShareInv
<1> SUFFICES ASSUME Share!Init PROVE ShareInv OBVIOUS
<1>1. sPage \in SharePages BY DEF Share!Init, Share!BlankPage, SharePages, Share!NoReport
<1>2. Reporting(sPage) BY DEF Share!Init, Share!BlankPage, Reporting
<1>3. sDisk \in [SharedFiles -> Nat] /\ \A p \in UserFiles : sDisk[p] # 0
  BY ToolConstants DEF Share!Init, Share!Files, SharedFiles
<1> QED BY <1>1, <1>2, <1>3 DEF Share!Init, Share!BlankPage, ShareInv, ShareSound, Share!JobRuns

\* The page is handled, and nothing of a job or a question.
LEMMA ShareHandled ==
  ASSUME ShareInv, UNCHANGED <<sDisk, sAsking, sAsked>>,
         sJob' = sJob \/ (Share!JobRuns /\ sJob' = [sJob EXCEPT !.cancelled = TRUE]),
         sSelected' \in UserFiles \cup {NoUserFile}, sVisible' \in BOOLEAN,
         \/ StillShown(sPage, sPage') \/ Renewed(sPage, sPage') \/ sPage' = sPage
         \/ ~sAsking /\ Kept(sPage, sPage'),
         ~sVisible' => ~sPage'.ready /\ ~sPage'.loading
  PROVE  ShareInv'
<1>1. sPage' \in ShareSound BY DEF ShareInv, StillShown, Kept, Renewed
<1>2. Share!JobRuns => JobInv(sJob) BY DEF ShareInv
<1>3. Share!JobRuns' <=> Share!JobRuns
  <2>1. CASE Share!JobRuns /\ sJob' = [sJob EXCEPT !.cancelled = TRUE]
    <3>1. sJob \in ShareJobs BY <1>2, <2>1 DEF JobInv
    <3>2. sJob'.kind \in {"metadata", "preview", "photo"} BY <2>1, <3>1 DEF ShareJobs
    <3>3. sJob' # Share!NoJob BY <3>2 DEF Share!NoJob
    <3> QED BY <2>1, <3>3 DEF Share!JobRuns, Share!NoJob
  <2>2. CASE sJob' = sJob BY <2>2 DEF Share!JobRuns, Share!NoJob
  <2> QED BY <2>1, <2>2
<1>4. sPage'.previewing = sPage.previewing BY DEF StillShown, Kept, Renewed
<1>5. Share!JobRuns => JobInv(sJob)'
  <2> SUFFICES ASSUME Share!JobRuns PROVE JobInv(sJob)' OBVIOUS
  <2>1. sPage'.input = sPage.input /\ sPage'.preview \in {0, sPage.preview}
    BY DEF StillShown, Kept, Renewed
  <2>2. sJob \in ShareJobs BY <1>2 DEF JobInv
  <2>3. /\ sJob' \in ShareJobs /\ sJob'.path = sJob.path /\ sJob'.kind = sJob.kind
        /\ sJob'.identity = sJob.identity /\ sJob'.replaces = sJob.replaces /\ sJob'.opened = sJob.opened
        /\ sJob'.success = sJob.success /\ sJob'.previewed = sJob.previewed
    BY <2>2 DEF ShareJobs
  <2> QED BY <1>2, <1>4, <2>1, <2>3 DEF JobInv
<1>6. sAsking => AskingInv'
  <2> SUFFICES ASSUME sAsking PROVE AskingInv' OBVIOUS
  <2>1. AskingInv BY DEF ShareInv
  <2> QED BY <1>3, <2>1 DEF AskingInv, StillShown, Renewed
<1> QED BY <1>1, <1>3, <1>4, <1>5, <1>6 DEF ShareInv

LEMMA RunningCancelled ==
  ASSUME NEW g \in ShareSound
  PROVE  Kept(g, Share!CancelRunning(g)) /\ (Share!CancelRunning(g).loading => FALSE)
         /\ Kept(g, Share!Hidden(g)) /\ ~Share!Hidden(g).ready /\ ~Share!Hidden(g).loading
<1>1. ASSUME NEW k \in ShareSound
      PROVE  Kept(k, Share!CancelRunning(k)) /\ ~Share!CancelRunning(k).loading
  <2> DEFINE stopped == [k EXCEPT !.pending = FALSE]
  <2>1. /\ stopped \in SharePages /\ stopped.input = k.input /\ stopped.preview = k.preview
        /\ stopped.pictured = k.pictured /\ stopped.ready = k.ready /\ stopped.loading = k.loading
        /\ stopped.result = k.result /\ stopped.report = k.report
        /\ stopped.previewing = k.previewing
    BY DEF ShareSound, SharePages
  <2>2. Share!CancelRunning(k) = IF k.loading THEN Share!UpdateState(Share!ClearPreview(stopped)) ELSE stopped
    BY DEF Share!CancelRunning
  <2> HIDE DEF stopped
  <2>3. stopped \in ShareSound BY <2>1 DEF ShareSound, Reporting
  <2>4. Withdrawn(stopped, Share!ClearPreview(stopped)) BY <2>3, PreviewCleared
  <2>5. StillShown(Share!ClearPreview(stopped), Share!UpdateState(Share!ClearPreview(stopped)))
    BY <2>4, StateUpdated DEF Withdrawn
  <2> QED BY <2>1, <2>2, <2>3, <2>4, <2>5 DEF Kept, Withdrawn, StillShown
<1> DEFINE f == [g EXCEPT !.pending = FALSE]
           d == [g EXCEPT !.discard = TRUE]
           c == Share!ClearPreview(Share!CancelRunning(d))
           h == [c EXCEPT !.report = Share!NoReport]
<1>2. /\ f \in SharePages /\ f.input = g.input /\ f.preview = g.preview
      /\ f.pictured = g.pictured /\ f.ready = g.ready /\ f.loading = g.loading
      /\ f.result = g.result /\ f.report = g.report /\ f.previewing = g.previewing
  BY DEF ShareSound, SharePages
<1>3. /\ d \in SharePages /\ d.input = g.input /\ d.preview = g.preview
      /\ d.pictured = g.pictured /\ d.ready = g.ready /\ d.loading = g.loading
      /\ d.result = g.result /\ d.report = g.report /\ d.previewing = g.previewing
  BY DEF ShareSound, SharePages
<1>4. Share!Hidden(g) = IF g.final THEN Share!ClearPreview(f) ELSE h BY DEF Share!Hidden
<1> HIDE DEF f, d
<1>5. f \in ShareSound /\ d \in ShareSound BY <1>2, <1>3 DEF ShareSound, Reporting
<1>6. Withdrawn(f, Share!ClearPreview(f)) BY <1>5, PreviewCleared
<1>7. Kept(d, Share!CancelRunning(d)) BY <1>1, <1>5
<1>8. Withdrawn(Share!CancelRunning(d), c) BY <1>7, PreviewCleared DEF Kept
<1> HIDE DEF c
<1>9. /\ h \in SharePages /\ h.input = c.input /\ h.preview = c.preview
      /\ h.pictured = c.pictured /\ h.ready = c.ready /\ h.loading = c.loading
      /\ h.result = c.result /\ h.report = Share!NoReport /\ h.previewing = c.previewing
  <2>1. Share!NoReport \in [path : SharedFiles \cup {NoUserFile}, version : Nat] BY DEF Share!NoReport
  <2> QED BY <1>8, <2>1 DEF Withdrawn, ShareSound, SharePages
<1> HIDE DEF h
<1>10. h \in ShareSound BY <1>8, <1>9 DEF Withdrawn, ShareSound, Reporting
<1> QED BY <1>1, <1>2, <1>3, <1>4, <1>6, <1>7, <1>8, <1>9, <1>10 DEF Withdrawn, Kept

LEMMA SettingsChanged ==
  ASSUME NEW g \in ShareSound, DiskIsTyped
  PROVE  /\ Kept(g, Share!ModeChanged(g)) /\ ~Share!ModeChanged(g).ready /\ ~Share!ModeChanged(g).loading
         /\ \A r \in BOOLEAN : LET h == Share!DestinationChanged([g EXCEPT !.replace = r])
                               IN  Kept(g, h) /\ h.ready = g.ready /\ h.loading = g.loading
<1>1. Kept(g, Share!ModeChanged(g)) /\ ~Share!ModeChanged(g).ready /\ ~Share!ModeChanged(g).loading
  <2> DEFINE k == [g EXCEPT !.photo = ~g.photo, !.result = NoUserFile]
             c == Share!ClearPreview(k)
             i == Share!InspectSource(c)
  <2>1. /\ k \in SharePages /\ k.input = g.input /\ k.preview = g.preview
        /\ k.pictured = g.pictured /\ k.ready = g.ready /\ k.loading = g.loading
        /\ k.result = NoUserFile /\ k.report = g.report /\ k.previewing = g.previewing
    BY DEF ShareSound, SharePages
  <2>2. Share!ModeChanged(g) = Share!UpdateState(i) BY DEF Share!ModeChanged
  <2> HIDE DEF k
  <2>3. k \in ShareSound BY <2>1 DEF ShareSound, Reporting
  <2>4. Withdrawn(k, c) BY <2>3, PreviewCleared
  <2> HIDE DEF c
  <2>5. StillShown(c, i) BY <2>4, Inspected DEF Withdrawn
  <2> HIDE DEF i
  <2>6. StillShown(i, Share!UpdateState(i)) BY <2>5, StateUpdated DEF StillShown
  <2> QED BY <2>1, <2>2, <2>4, <2>5, <2>6 DEF Withdrawn, StillShown, Kept
<1>2. ASSUME NEW r \in BOOLEAN
      PROVE  LET h == Share!DestinationChanged([g EXCEPT !.replace = r])
             IN  Kept(g, h) /\ h.ready = g.ready /\ h.loading = g.loading
  <2> DEFINE k == [g EXCEPT !.replace = r]
             i == [k EXCEPT !.result = IF k.final THEN k.result ELSE NoUserFile]
  <2>1. /\ k \in SharePages /\ k.input = g.input /\ k.preview = g.preview
        /\ k.pictured = g.pictured /\ k.ready = g.ready /\ k.loading = g.loading
        /\ k.result = g.result /\ k.report = g.report /\ k.previewing = g.previewing
    BY DEF ShareSound, SharePages
  <2>2. Share!DestinationChanged(k) = Share!UpdateState(i) BY DEF Share!DestinationChanged
  <2> HIDE DEF k
  <2>3. /\ i \in SharePages /\ i.input = k.input /\ i.preview = k.preview
        /\ i.pictured = k.pictured /\ i.ready = k.ready /\ i.loading = k.loading
        /\ i.result \in {NoUserFile, k.result} /\ i.report = k.report /\ i.previewing = k.previewing
    BY <2>1 DEF SharePages
  <2> HIDE DEF i
  <2>4. i \in ShareSound BY <2>1, <2>3 DEF ShareSound, Reporting
  <2>5. StillShown(i, Share!UpdateState(i)) BY <2>4, StateUpdated
  <2>6. Kept(g, Share!UpdateState(i)) BY <2>1, <2>3, <2>5 DEF StillShown, Kept
  <2> QED BY <2>1, <2>2, <2>3, <2>5, <2>6 DEF StillShown, k
<1> QED BY <1>1, <1>2

\* The operation itself begins, on what the question was about if it replaces.
LEMMA Launches ==
  ASSUME ShareInv, ~Share!JobRuns, Share!Launch(sPage), sPage.input \in UserFiles, sAsking' = FALSE,
         UNCHANGED <<sDisk, sSelected, sVisible>>,
         sPage.replace => sPage.input = sAsked' /\ (sPage.photo => sPage.pictured # 0)
  PROVE  ShareInv'
<1> DEFINE kind == Share!FinalKind(sPage)
           j == Share!Started(sPage, kind)
           h == [sPage EXCEPT !.result = NoUserFile, !.final = TRUE, !.usable = FALSE]
<1>1. sPage \in ShareSound /\ sPage \in SharePages /\ Reporting(sPage) /\ ~sPage.previewing
      /\ (~sVisible => ~sPage.ready /\ ~sPage.loading)
  BY DEF ShareInv, ShareSound
<1>2. /\ h \in SharePages /\ h.input = sPage.input /\ h.preview = sPage.preview
      /\ h.pictured = sPage.pictured /\ h.ready = sPage.ready /\ h.loading = sPage.loading
      /\ h.result = NoUserFile /\ h.report = sPage.report /\ h.previewing = sPage.previewing
  BY <1>1 DEF SharePages
<1>3. sJob' = j /\ sPage' = h BY DEF Share!Launch
<1> HIDE DEF h
<1>4. h \in ShareSound BY <1>1, <1>2 DEF ShareSound, Reporting
<1>5. kind = IF sPage.photo THEN "photo" ELSE "metadata" BY DEF Share!FinalKind
<1> HIDE DEF kind
<1>6. /\ j \in ShareJobs /\ j.kind = kind /\ j.path = sPage.input
      /\ j.identity = (IF kind = "metadata" THEN 0 ELSE sPage.preview)
      /\ j.previewed = sPage.pictured /\ j.replaces = (kind # "preview" /\ sPage.replace)
      /\ j.opened = 0 /\ ~j.success
  BY <1>1, <1>5, ZenonT(30) DEF SharePages, ShareJobs, Share!Started, Share!NewJob
<1> HIDE DEF j
<1>7. JobInv(sJob)' BY <1>1, <1>2, <1>3, <1>5, <1>6 DEF JobInv, Reporting
<1> QED BY <1>1, <1>2, <1>3, <1>4, <1>7 DEF ShareInv

LEMMA ShareStep == ShareInv /\ [Share!Next]_shareVars => ShareInv'
<1> SUFFICES ASSUME ShareInv, [Share!Next]_shareVars PROVE ShareInv' OBVIOUS
<1>0. /\ DiskIsTyped /\ sDisk \in [SharedFiles -> Nat] /\ (\A p \in UserFiles : sDisk[p] # 0)
      /\ sSelected \in UserFiles \cup {NoUserFile} /\ sVisible \in BOOLEAN /\ sAsking \in BOOLEAN
      /\ sPage \in ShareSound /\ sPage \in SharePages /\ Reporting(sPage)
      /\ (~sVisible => ~sPage.ready /\ ~sPage.loading)
      /\ (sPage.previewing => Share!JobRuns)
      /\ (Share!JobRuns => JobInv(sJob))
      /\ (sAsking => AskingInv)
  BY DEF ShareInv, ShareSound, DiskIsTyped
<1>d. \A p \in SharedFiles \cup {NoUserFile} : Share!Identity(p) \in Nat BY <1>0, Identities
<1>p. \A p \in UserFiles : Share!Identity(p) = sDisk[p] /\ Share!Identity(p) # 0
  BY <1>0, ToolConstants DEF Share!Identity
<1>n. StillShown(sPage, sPage) BY <1>0 DEF StillShown
<1>1. ASSUME NEW p \in UserFiles, Share!Show(p) PROVE ShareInv'
  <2> DEFINE g == Share!Synced(sPage, p)
             h == Share!SetInput(g, p)
  <2>1. g = sPage \/ Renewed(sPage, g) BY <1>0, SourceSynced
  <2>2. sPage' = h /\ sSelected' = p /\ sVisible' = TRUE /\ UNCHANGED <<sDisk, sJob, sAsking, sAsked>> /\ ~sAsking
    BY <1>1 DEF Share!Show, Share!question
  <2> HIDE DEF g
  <2>3. g \in ShareSound BY <1>0, <2>1 DEF Renewed
  <2>4. h = g \/ Renewed(g, h) BY <1>0, <2>3, SourceSet
  <2> HIDE DEF h
  <2>5. h = sPage \/ Renewed(sPage, h) BY <2>1, <2>4 DEF Renewed
  <2> QED BY <2>2, <2>5, ShareHandled
<1>2. ASSUME NEW p \in UserFiles, Share!Select(p) PROVE ShareInv'
  <2>1. sPage' = sPage \/ Renewed(sPage, sPage') BY <1>0, <1>2, SourceSynced DEF Share!Select
  <2>2. sSelected' = p /\ UNCHANGED <<sDisk, sVisible, sJob, sAsking, sAsked>>
    BY <1>2 DEF Share!Select, Share!question
  <2>3. ~sVisible' => ~sPage'.ready /\ ~sPage'.loading BY <1>0, <2>1, <2>2 DEF Renewed
  <2> QED BY <1>0, <2>1, <2>2, <2>3, ShareHandled
<1>3. ASSUME NEW p \in UserFiles, Share!HandleFiles(p) PROVE ShareInv'
  <2> DEFINE g == Share!SetInput(sPage, p)
             h == Share!Synced(g, p)
  <2>1. g = sPage \/ Renewed(sPage, g) BY <1>0, SourceSet
  <2>2. sPage' = h /\ sSelected' = p /\ UNCHANGED <<sDisk, sVisible, sJob, sAsking, sAsked>> /\ ~sAsking
    BY <1>3 DEF Share!HandleFiles, Share!Controls, Share!question
  <2> HIDE DEF g
  <2>3. g \in ShareSound BY <1>0, <2>1 DEF Renewed
  <2>4. h = g \/ Renewed(g, h) BY <1>0, <2>3, SourceSynced
  <2> HIDE DEF h
  <2>5. h = sPage \/ Renewed(sPage, h) BY <2>1, <2>4 DEF Renewed
  <2>6. ~sVisible' => ~sPage'.ready /\ ~sPage'.loading BY <1>0, <2>2, <2>5 DEF Renewed
  <2> QED BY <1>0, <2>2, <2>5, <2>6, ShareHandled
<1>4. ASSUME Share!Refreshed PROVE ShareInv'
  <2>1. sSelected \in UserFiles /\ sPage' = Share!Synced(sPage, sSelected)
        /\ UNCHANGED <<sDisk, sSelected, sVisible, sJob, sAsking, sAsked>>
    BY <1>0, <1>4 DEF Share!Refreshed, Share!screen, Share!question
  <2>2. sPage' = sPage \/ Renewed(sPage, sPage') BY <1>0, <2>1, SourceSynced
  <2> QED BY <1>0, <2>1, <2>2, ShareHandled DEF Renewed
<1>5. ASSUME Share!Hide PROVE ShareInv'
  <2>1. sPage' = Share!Hidden(sPage) /\ ~sAsking /\ sVisible' = FALSE
        /\ UNCHANGED <<sDisk, sSelected, sAsking, sAsked>>
        /\ (sJob' = sJob \/ (Share!JobRuns /\ sJob' = [sJob EXCEPT !.cancelled = TRUE]))
    BY <1>5 DEF Share!Hide, Share!StopJob, Share!question
  <2> QED BY <1>0, <2>1, RunningCancelled, ShareHandled
<1>6. ASSUME Share!Cancel PROVE ShareInv'
  <2>1. sPage' = Share!CancelRunning(sPage) /\ ~sAsking /\ sVisible
        /\ UNCHANGED <<sDisk, sSelected, sVisible, sAsking, sAsked>>
        /\ (sJob' = sJob \/ (Share!JobRuns /\ sJob' = [sJob EXCEPT !.cancelled = TRUE]))
    BY <1>6 DEF Share!Cancel, Share!StopJob, Share!screen, Share!question
  <2> QED BY <1>0, <2>1, RunningCancelled, ShareHandled
<1>7. ASSUME Share!ChangeMode \/ Share!Recompute \/ Share!ToggleReplace PROVE ShareInv'
  <2>1. ~sAsking /\ UNCHANGED <<sDisk, sSelected, sVisible, sJob, sAsking, sAsked>>
    BY <1>7 DEF Share!ChangeMode, Share!Recompute, Share!ToggleReplace, Share!Controls, Share!screen,
                Share!question
  <2>2. \/ sPage' = Share!ModeChanged(sPage) \/ sPage' = Share!InspectSource(sPage)
        \/ sPage' = Share!DestinationChanged([sPage EXCEPT !.replace = ~sPage.replace])
    BY <1>7 DEF Share!ChangeMode, Share!Recompute, Share!ToggleReplace
  <2>3. CASE sPage' = Share!ModeChanged(sPage)
    BY <1>0, <2>1, <2>3, SettingsChanged, ShareHandled
  <2>4. CASE sPage' = Share!InspectSource(sPage)
    <3>1. NoUserFile \in SharedFiles \cup {NoUserFile} OBVIOUS
    <3>2. StillShown(sPage, sPage') BY <1>0, <2>4, <3>1, Inspected
    <3>3. ~sVisible' => ~sPage'.ready /\ ~sPage'.loading BY <1>0, <2>1, <3>2 DEF StillShown
    <3> QED BY <1>0, <2>1, <3>2, <3>3, ShareHandled
  <2>5. CASE sPage' = Share!DestinationChanged([sPage EXCEPT !.replace = ~sPage.replace])
    <3>1. (~sPage.replace) \in BOOLEAN OBVIOUS
    <3>2. Kept(sPage, sPage') /\ sPage'.ready = sPage.ready /\ sPage'.loading = sPage.loading
      BY <1>0, <2>5, <3>1, SettingsChanged
    <3>3. ~sVisible' => ~sPage'.ready /\ ~sPage'.loading BY <1>0, <2>1, <3>2
    <3> QED BY <1>0, <2>1, <3>2, <3>3, ShareHandled
  <2> QED BY <2>2, <2>3, <2>4, <2>5
<1>8. ASSUME Share!StartPreview PROVE ShareInv'
  <2> DEFINE c == Share!ClearPreview(sPage)
             n == Share!Identity(sPage.input)
             g == [c EXCEPT !.preview = n, !.previewing = TRUE, !.result = NoUserFile]
             h == [g EXCEPT !.usable = FALSE]
             j == Share!Started(g, "preview")
  <2>1. /\ sVisible /\ ~sAsking /\ sPage.input \in UserFiles /\ ~Share!JobRuns /\ sJob' = j /\ sPage' = h
        /\ UNCHANGED <<sDisk, sSelected, sVisible, sAsking, sAsked>>
    BY <1>0, <1>8 DEF Share!StartPreview, Share!Controls, Share!Busy, Share!screen, Share!question, SharePages
  <2>2. n \in Nat /\ n # 0 BY <1>d, <1>p, <2>1 DEF SharedFiles
  <2>3. c \in SharePages /\ Withdrawn(sPage, c) BY <1>0, PreviewCleared DEF Withdrawn, ShareSound
  <2> HIDE DEF c, n
  <2>4. /\ g \in SharePages /\ g.input = sPage.input /\ g.preview = n /\ g.previewing
        /\ g.pictured = 0 /\ ~g.ready /\ ~g.loading /\ g.result = NoUserFile /\ g.report = c.report
    BY <2>2, <2>3 DEF Withdrawn, SharePages
  <2> HIDE DEF g
  <2>5. /\ h \in SharePages /\ h.input = g.input /\ h.preview = n /\ h.previewing
        /\ h.pictured = 0 /\ ~h.ready /\ ~h.loading /\ h.result = NoUserFile /\ h.report = c.report
    BY <2>4 DEF SharePages
  <2> HIDE DEF h
  <2>6. h \in ShareSound BY <2>3, <2>4, <2>5 DEF Withdrawn, ShareSound, Reporting
  <2>7. /\ j \in ShareJobs /\ j.kind = "preview" /\ j.path = sPage.input /\ j.identity = n
        /\ ~j.replaces /\ j.opened = 0 /\ ~j.success
    BY <2>1, <2>4 DEF SharePages, ShareJobs, Share!Started, Share!NewJob
  <2> HIDE DEF j
  <2>8. JobInv(sJob)' BY <2>1, <2>2, <2>4, <2>5, <2>7 DEF JobInv
  <2>9. j # Share!NoJob BY <2>7 DEF Share!NoJob
  <2>10. Share!JobRuns' BY <2>1, <2>9 DEF Share!JobRuns, Share!NoJob
  <2> QED BY <1>0, <2>1, <2>5, <2>6, <2>8, <2>10 DEF ShareInv
<1>9. ASSUME Share!Start PROVE ShareInv'
  <2>1. /\ sVisible /\ ~sAsking /\ ~Share!JobRuns /\ ~sPage.loading /\ sPage.input \in UserFiles
        /\ (sPage.photo => sPage.pictured # 0)
        /\ UNCHANGED <<sDisk, sSelected, sVisible>>
    BY <1>0, <1>9 DEF Share!Start, Share!Busy, Share!screen, SharePages, Reporting
  <2>2. CASE sPage.photo /\ Share!Identity(sPage.input) # sPage.preview
    <3> DEFINE c == Share!ClearPreview(sPage)
    <3>1. sPage' = Share!UpdateState(c) /\ UNCHANGED <<sJob, sAsking, sAsked>>
      BY <1>9, <2>2 DEF Share!Start, Share!question
    <3>2. Withdrawn(sPage, c) BY <1>0, PreviewCleared
    <3> HIDE DEF c
    <3>3. StillShown(c, sPage') BY <3>1, <3>2, StateUpdated DEF Withdrawn
    <3>4. Kept(sPage, sPage') /\ ~sPage'.ready /\ ~sPage'.loading
      BY <3>2, <3>3 DEF Withdrawn, StillShown, Kept
    <3> QED BY <1>0, <2>1, <3>1, <3>4, ShareHandled
  <2>3. CASE ~(sPage.photo /\ Share!Identity(sPage.input) # sPage.preview) /\ sPage.replace
    <3>1. sAsking' = TRUE /\ sAsked' = sPage.input /\ UNCHANGED <<sPage, sJob>>
      BY <1>9, <2>3 DEF Share!Start
    <3>2. AskingInv' BY <2>1, <3>1 DEF AskingInv, Share!JobRuns, Share!NoJob
    <3> QED BY <1>0, <2>1, <3>1, <3>2 DEF ShareInv, Share!JobRuns, Share!NoJob
  <2>4. CASE ~(sPage.photo /\ Share!Identity(sPage.input) # sPage.preview) /\ ~sPage.replace
    <3>1. Share!Launch(sPage) /\ UNCHANGED <<sAsking, sAsked>>
      BY <1>9, <2>4 DEF Share!Start, Share!question
    <3>2. sAsking' = FALSE BY <1>0, <2>1, <3>1
    <3> QED BY <2>1, <2>4, <3>1, <3>2, Launches
  <2> QED BY <2>2, <2>3, <2>4
<1>10. ASSUME NEW yes \in BOOLEAN, Share!Answer(yes) PROVE ShareInv'
  <2>1. AskingInv /\ sAsking' = FALSE /\ UNCHANGED <<sDisk, sSelected, sVisible, sAsked>>
    BY <1>0, <1>10 DEF Share!Answer, Share!screen
  <2>2. CASE yes
    <3>1. Share!Launch(sPage) BY <1>10, <2>2 DEF Share!Answer
    <3> QED BY <2>1, <3>1, Launches DEF AskingInv
  <2>3. CASE ~yes
    <3>1. UNCHANGED <<sPage, sJob>> BY <1>10, <2>3 DEF Share!Answer
    <3> QED BY <1>0, <2>1, <3>1 DEF ShareInv, JobInv, Share!JobRuns, Share!NoJob
  <2> QED BY <2>2, <2>3
\* A step of the engine, which touches neither the page nor the question.
<1>11. ASSUME Share!JobRuns, JobInv(sJob)', sJob'.kind # "none",
              sDisk' \in [SharedFiles -> Nat], \A p \in UserFiles : sDisk'[p] # 0,
              UNCHANGED <<sSelected, sVisible, sPage, sAsking, sAsked>>
       PROVE  ShareInv'
  <2>1. Share!JobRuns' BY <1>11 DEF Share!JobRuns, Share!NoJob
  <2>2. ~sAsking BY <1>0, <1>11 DEF AskingInv
  <2> QED BY <1>0, <1>11, <2>1, <2>2 DEF ShareInv
<1>12. ASSUME Share!EngineOpens PROVE ShareInv'
  <2>1. JobInv(sJob) /\ sJob \in ShareJobs BY <1>0, <1>12 DEF Share!EngineOpens, JobInv
  <2> DEFINE n == Share!Identity(sJob.path)
  <2>2. n \in Nat /\ n # 0 BY <1>d, <1>p, <2>1 DEF ShareJobs, SharedFiles
  <2>3. /\ Share!JobRuns /\ UNCHANGED <<sDisk, sSelected, sVisible, sPage, sAsking, sAsked>>
        /\ \/ sJob.identity \in {0, n} /\ sJob' = [sJob EXCEPT !.opened = n]
           \/ sJob' = [sJob EXCEPT !.done = TRUE]
    BY <1>12 DEF Share!EngineOpens, Share!screen, Share!question
  <2> HIDE DEF n
  <2>4. /\ sJob' \in ShareJobs /\ sJob'.path = sJob.path /\ sJob'.kind = sJob.kind
        /\ sJob'.identity = sJob.identity /\ sJob'.replaces = sJob.replaces
        /\ sJob'.success = sJob.success /\ sJob'.previewed = sJob.previewed
        /\ (sJob'.opened = sJob.opened \/ (sJob.identity \in {0, n} /\ sJob'.opened = n))
    BY <2>1, <2>2, <2>3 DEF ShareJobs
  <2>5. JobInv(sJob)' BY <2>1, <2>2, <2>3, <2>4 DEF JobInv
  <2>6. sJob'.kind # "none" BY <2>4 DEF ShareJobs
  <2> QED BY <1>0, <1>11, <2>3, <2>5, <2>6
<1>13. ASSUME Share!EngineSucceeds \/ Share!EngineFails PROVE ShareInv'
  <2>1. JobInv(sJob) /\ sJob \in ShareJobs /\ Share!JobRuns
    BY <1>0, <1>13 DEF Share!EngineSucceeds, Share!EngineFails, JobInv
  <2>2. /\ UNCHANGED <<sSelected, sVisible, sPage, sAsking, sAsked>>
        /\ \/ sJob.opened # 0 /\ sJob' = [sJob EXCEPT !.done = TRUE, !.success = TRUE]
           \/ sJob' = [sJob EXCEPT !.done = TRUE]
    BY <1>13 DEF Share!EngineSucceeds, Share!EngineFails, Share!screen, Share!question
  <2>3. /\ sJob' \in ShareJobs /\ sJob'.path = sJob.path /\ sJob'.kind = sJob.kind
        /\ sJob'.identity = sJob.identity /\ sJob'.replaces = sJob.replaces
        /\ sJob'.opened = sJob.opened /\ sJob'.previewed = sJob.previewed
        /\ (sJob'.success => sJob.success \/ sJob.opened # 0)
    BY <2>1, <2>2 DEF ShareJobs
  <2>4. JobInv(sJob)' BY <2>1, <2>2, <2>3 DEF JobInv
  <2>5. sJob'.kind # "none" BY <2>3 DEF ShareJobs
  <2> DEFINE target == IF sJob.replaces THEN sJob.path ELSE NewFile
  <2>6. sDisk' = sDisk \/ sDisk' = [sDisk EXCEPT ![target] = sDisk[target] + 1]
    BY <1>13 DEF Share!EngineSucceeds, Share!EngineFails
  <2>7. target \in SharedFiles BY <2>1 DEF ShareJobs, SharedFiles
  <2> HIDE DEF target
  <2>8. sDisk[target] + 1 \in Nat /\ sDisk[target] + 1 # 0
    <3>1. sDisk[target] \in Nat BY <1>0, <2>7
    <3> QED BY <3>1, SMT
  <2>9. sDisk' \in [SharedFiles -> Nat] /\ \A p \in UserFiles : sDisk'[p] # 0
    BY <1>0, <2>6, <2>7, <2>8 DEF SharedFiles
  <2> QED BY <1>11, <2>1, <2>2, <2>4, <2>5, <2>9
<1>14. ASSUME Share!OperationFinished PROVE ShareInv'
  <2>1. JobInv(sJob) /\ sJob \in ShareJobs /\ ~sAsking
    BY <1>0, <1>14 DEF Share!OperationFinished, JobInv, AskingInv
  <2>2. /\ sJob' = Share!NoJob /\ UNCHANGED <<sDisk, sSelected, sVisible, sAsking, sAsked>>
        /\ sPage' = IF sPage.previewing THEN Share!PreviewMade(sPage) ELSE Share!FinalMade(sPage)
    BY <1>14 DEF Share!OperationFinished, Share!screen, Share!question
  <2>3. ASSUME sPage' \in ShareSound, ~sPage'.previewing, ~sVisible => ~sPage'.ready /\ ~sPage'.loading
        PROVE  ShareInv'
    BY <1>0, <2>1, <2>2, <2>3 DEF ShareInv, Share!JobRuns, Share!NoJob
  <2>4. CASE sPage.previewing
    <3> DEFINE ended == [sPage EXCEPT !.previewing = FALSE]
               made == [ended EXCEPT !.ready = FALSE, !.loading = TRUE, !.pictured = sJob.opened]
               good == sJob.success /\ sVisible /\ Share!Identity(sPage.input) = sPage.preview
               next == IF good THEN made ELSE Share!ClearPreview(ended)
    <3>1. sPage' = Share!Settled(next) BY <2>2, <2>4 DEF Share!PreviewMade
    <3>2. /\ ended \in SharePages /\ ended.input = sPage.input /\ ended.preview = sPage.preview
          /\ ended.pictured = sPage.pictured /\ ended.ready = sPage.ready /\ ended.loading = sPage.loading
          /\ ended.result = sPage.result /\ ended.report = sPage.report /\ ~ended.previewing
      BY <1>0 DEF SharePages
    <3> HIDE DEF ended
    <3>3. ended \in ShareSound BY <1>0, <3>2 DEF ShareSound, Reporting
    <3>4. ASSUME good PROVE made \in ShareSound /\ ~made.previewing
      <4>1. sPage.preview # 0 /\ sJob.identity = sPage.preview /\ sJob.opened = sPage.preview
        BY <1>p, <2>1, <2>4, <3>4 DEF JobInv, ShareJobs
      <4>2. /\ made \in SharePages /\ made.input = ended.input /\ made.preview = ended.preview
            /\ made.pictured = sJob.opened /\ ~made.ready /\ made.result = ended.result
            /\ made.report = ended.report /\ ~made.previewing
        BY <2>1, <3>2 DEF SharePages, ShareJobs
      <4> HIDE DEF made
      <4> QED BY <3>2, <3>3, <4>1, <4>2 DEF ShareSound, Reporting
    <3>5. Withdrawn(ended, Share!ClearPreview(ended)) BY <3>3, PreviewCleared
    <3>6. next \in ShareSound /\ ~next.previewing /\ (~sVisible => ~next.ready /\ ~next.loading)
      BY <3>2, <3>4, <3>5 DEF Withdrawn
    <3> HIDE DEF next
    <3>7. StillShown(next, sPage') BY <3>1, <3>6, StateUpdated
    <3> QED BY <2>3, <3>6, <3>7 DEF StillShown
  <2>5. CASE ~sPage.previewing
    <3> DEFINE output == IF sJob.replaces THEN sJob.path ELSE NewFile
               ended == [sPage EXCEPT !.final = FALSE]
               k == [ended EXCEPT !.result = output]
               shown == Share!ClearPreview(k)
               next == IF ~sJob.success THEN ended
                       ELSE IF sPage.discard \/ sPage.inspecting THEN shown
                       ELSE Share!Inspect(shown, output)
    <3>1. sPage' = Share!Settled(next) BY <2>2, <2>5 DEF Share!FinalMade
    <3>2. /\ ended \in SharePages /\ ended.input = sPage.input /\ ended.preview = sPage.preview
          /\ ended.pictured = sPage.pictured /\ ended.ready = sPage.ready /\ ended.loading = sPage.loading
          /\ ended.result = sPage.result /\ ended.report = sPage.report /\ ~ended.previewing
      BY <1>0, <2>5 DEF SharePages
    <3>3. output \in SharedFiles /\ output \in {sPage.input, NewFile}
      BY <2>1 DEF JobInv, ShareJobs, SharedFiles
    <3> HIDE DEF ended, output
    <3>4. ended \in ShareSound BY <1>0, <3>2 DEF ShareSound, Reporting
    <3>5. /\ k \in SharePages /\ k.input = ended.input /\ k.preview = ended.preview
          /\ k.pictured = ended.pictured /\ k.ready = ended.ready /\ k.loading = ended.loading
          /\ k.result = output /\ k.report = ended.report /\ ~k.previewing
      BY <3>2, <3>3 DEF SharePages
    <3> HIDE DEF k
    <3>6. k \in ShareSound BY <3>2, <3>3, <3>4, <3>5 DEF ShareSound, Reporting
    <3>7. Withdrawn(k, shown) BY <3>6, PreviewCleared
    <3> HIDE DEF shown
    <3>8. StillShown(shown, Share!Inspect(shown, output)) BY <1>0, <3>3, <3>7, Inspected DEF Withdrawn
    <3>9. next \in ShareSound /\ ~next.previewing /\ (~sVisible => ~next.ready /\ ~next.loading)
      BY <1>0, <3>2, <3>4, <3>5, <3>7, <3>8 DEF Withdrawn, StillShown
    <3> HIDE DEF next
    <3>10. StillShown(next, sPage') BY <3>1, <3>9, StateUpdated
    <3> QED BY <2>3, <3>9, <3>10 DEF StillShown
  <2> QED BY <2>4, <2>5
<1>15. ASSUME NEW ok \in BOOLEAN, Share!PreviewLoaded(ok) PROVE ShareInv'
  <2> DEFINE good == ok /\ sVisible /\ Share!Identity(sPage.input) = sPage.preview
             made == [sPage EXCEPT !.loading = FALSE, !.ready = TRUE]
             next == IF good THEN made ELSE Share!ClearPreview(sPage)
  <2>1. /\ sPage.loading /\ ~sAsking /\ sPage' = Share!UpdateState(next)
        /\ UNCHANGED <<sDisk, sSelected, sVisible, sJob, sAsking, sAsked>>
    BY <1>0, <1>15 DEF Share!PreviewLoaded, Share!screen, Share!question, AskingInv
  <2>2. /\ made \in SharePages /\ made.input = sPage.input /\ made.preview = sPage.preview
        /\ made.pictured = sPage.pictured /\ made.result = sPage.result
        /\ made.report = sPage.report /\ made.previewing = sPage.previewing
    BY <1>0 DEF SharePages
  <2> HIDE DEF made
  <2>3. made \in ShareSound BY <1>0, <2>1, <2>2 DEF ShareSound, Reporting
  <2>4. Withdrawn(sPage, Share!ClearPreview(sPage)) BY <1>0, PreviewCleared
  <2>5. Kept(sPage, next) /\ (~sVisible => ~next.ready /\ ~next.loading)
    BY <2>2, <2>3, <2>4 DEF Withdrawn, Kept
  <2> HIDE DEF next
  <2>6. StillShown(next, sPage') BY <2>1, <2>5, StateUpdated DEF Kept
  <2>7. Kept(sPage, sPage') /\ (~sVisible => ~sPage'.ready /\ ~sPage'.loading)
    BY <2>5, <2>6 DEF Kept, StillShown
  <2> QED BY <1>0, <2>1, <2>7, ShareHandled
<1>16. ASSUME NEW read \in 0 .. ShareVersions, Share!InspectionFinished(read) PROVE ShareInv'
  <2>1. read \in Nat BY ToolConstants, SMT
  <2>2. sPage' = Share!InspectionEnded(sPage, read)
        /\ UNCHANGED <<sDisk, sSelected, sVisible, sJob, sAsking, sAsked>>
    BY <1>16 DEF Share!InspectionFinished, Share!screen, Share!question
  <2>3. StillShown(sPage, sPage') BY <1>0, <2>1, <2>2, InspectionEnds
  <2>4. ~sVisible' => ~sPage'.ready /\ ~sPage'.loading BY <1>0, <2>2, <2>3 DEF StillShown
  <2> QED BY <1>0, <2>2, <2>3, <2>4, ShareHandled
<1>17. ASSUME NEW p \in UserFiles, Share!Rewrite(p) PROVE ShareInv'
  <2>1. sDisk' = [sDisk EXCEPT ![p] = sDisk[p] + 1] /\ UNCHANGED <<sSelected, sVisible, sPage, sJob, sAsking, sAsked>>
    BY <1>17 DEF Share!Rewrite, Share!screen, Share!question
  <2>2. sDisk[p] + 1 \in Nat /\ sDisk[p] + 1 # 0
    <3>1. sDisk[p] \in Nat BY <1>0 DEF SharedFiles
    <3> QED BY <3>1, SMT
  <2>3. sDisk' \in [SharedFiles -> Nat] /\ \A q \in UserFiles : sDisk'[q] # 0
    BY <1>0, <2>1, <2>2 DEF SharedFiles
  <2> QED BY <1>0, <2>1, <2>3 DEF ShareInv, JobInv, AskingInv, Share!JobRuns, Share!NoJob
<1>18. ASSUME UNCHANGED shareVars PROVE ShareInv'
  BY <1>0, <1>18 DEF shareVars, ShareInv, JobInv, AskingInv, Share!JobRuns, Share!NoJob
<1> QED
  BY <1>1, <1>2, <1>3, <1>4, <1>5, <1>6, <1>7, <1>8, <1>9, <1>10, <1>12, <1>13, <1>14, <1>15, <1>16, <1>17, <1>18
  DEF Share!Next

LEMMA ShareDoes == ShareInv => Share!DoneAsShown
<1> SUFFICES ASSUME ShareInv PROVE Share!DoneAsShown OBVIOUS
<1>1. Reporting(sPage) BY DEF ShareInv, ShareSound
<1>2. Share!JobRuns => JobInv(sJob) BY DEF ShareInv
<1>3. Share!ReplacedIsTheConfirmed BY <1>2 DEF JobInv, Share!ReplacedIsTheConfirmed
<1>4. Share!PhotographIsThePreview BY <1>2 DEF JobInv, Share!PhotographIsThePreview
<1>5. Share!ReportIsOfTheSource BY <1>1 DEF Reporting, Share!ReportIsOfTheSource
<1>6. Share!HiddenShowsNoPreview BY DEF ShareInv, Share!HiddenShowsNoPreview
<1> QED BY <1>3, <1>4, <1>5, <1>6 DEF Share!DoneAsShown

-----------------------------------------------------------------------------
(* Redact and watermark.                                                     *)

ViewerPages ==
  [input : UserFiles \cup {NoUserFile}, identity : Nat, status : {"closed", "loading", "ready", "error"},
   drawn : BOOLEAN, seen : SUBSET Nat, queued : BOOLEAN, running : UserFiles \cup {NoUserFile}, print : Nat,
   known : [UserFiles -> Nat], unusable : [UserFiles -> BOOLEAN], signed : [UserFiles -> BOOLEAN], ticked : BOOLEAN]

ViewerJobs ==
  [path : UserFiles, identity : Nat, seen : SUBSET Nat, allow : BOOLEAN, opened : Nat,
   ended : {"no", "success", "failure"}]

\* The pages shown were rendered since the loading.
SeenSinceLoaded(g) ==
  /\ g.status \in {"loading", "ready"} \/ g.queued => g.input \in UserFiles
  /\ g.input \in UserFiles =>
       /\ g.identity <= vDisk[g.input]
       /\ \A v \in g.seen : g.identity <= v /\ v <= vDisk[g.input]

\* A job has seen the version it names only, and opened no other.
TreatsWhatItSaw(j) ==
  /\ j.seen \subseteq {j.identity} /\ j.opened \in {0, j.identity}
  /\ j.ended = "success" => j.opened # 0

ViewerInv ==
  /\ vDisk \in [UserFiles -> Nat] /\ vClears \in BOOLEAN /\ vPicture \in Nat
  /\ vPage \in ViewerPages /\ SeenSinceLoaded(vPage)
  /\ vPicture # 0 =>
       vPage.input \in UserFiles /\ vPage.identity <= vPicture /\ vPicture <= vDisk[vPage.input]
  /\ Viewer!JobRuns => vJob \in ViewerJobs /\ TreatsWhatItSaw(vJob)

\* The same document, and what was seen of it.
SameDocument(g, h) ==
  /\ h \in ViewerPages
  /\ h.input = g.input /\ h.identity = g.identity /\ h.status = g.status /\ h.seen = g.seen
  /\ h.queued => g.input \in UserFiles


LEMMA ViewerChecks ==
  ASSUME NEW g \in ViewerPages, vDisk \in [UserFiles -> Nat]
  PROVE  /\ (g.queued => g.input \in UserFiles) => SameDocument(g, Viewer!StartNext(g))
         /\ g.input \in UserFiles => SameDocument(g, Viewer!Check(g))
<1>1. ASSUME NEW h \in ViewerPages, h.queued => h.input \in UserFiles
      PROVE  SameDocument(h, Viewer!StartNext(h))
  <2>1. CASE h.running # NoUserFile \/ ~h.queued
    BY <1>1, <2>1 DEF Viewer!StartNext, SameDocument
  <2>2. CASE ~(h.running # NoUserFile \/ ~h.queued)
    <3> DEFINE k == [h EXCEPT !.queued = FALSE, !.running = h.input, !.print = vDisk[h.input]]
    <3>1. vDisk[h.input] \in Nat BY <1>1, <2>2
    <3>2. k \in ViewerPages BY <1>1, <2>2, <3>1 DEF ViewerPages
    <3>3. Viewer!StartNext(h) = k BY <2>2 DEF Viewer!StartNext
    <3>4. k.input = h.input /\ k.identity = h.identity /\ k.status = h.status /\ k.seen = h.seen /\ ~k.queued
      BY <1>1 DEF ViewerPages
    <3> QED BY <3>2, <3>3, <3>4 DEF SameDocument
  <2> QED BY <2>1, <2>2
<1>2. ASSUME g.input \in UserFiles PROVE SameDocument(g, Viewer!Check(g))
  <2> DEFINE waits == g.known[g.input] # vDisk[g.input] /\ g.running # g.input
             k == [g EXCEPT !.queued = waits]
  <2>1. k \in ViewerPages /\ k.input = g.input /\ k.identity = g.identity /\ k.status = g.status
        /\ k.seen = g.seen
    BY DEF ViewerPages
  <2>2. Viewer!Check(g) = Viewer!StartNext(k) BY DEF Viewer!Check
  <2> HIDE DEF k
  <2>3. SameDocument(k, Viewer!StartNext(k)) BY <1>1, <1>2, <2>1
  <2> QED BY <1>2, <2>1, <2>2, <2>3 DEF SameDocument
<1> QED BY <1>1, <1>2

LEMMA ViewerLoads ==
  ASSUME NEW g \in ViewerPages, NEW p \in UserFiles, vDisk \in [UserFiles -> Nat], vClears \in BOOLEAN
  PROVE  /\ Viewer!Load(g, p) \in ViewerPages /\ SeenSinceLoaded(Viewer!Load(g, p))
         /\ Viewer!Given(g, p) \in {g, Viewer!Load(g, p)}
<1> DEFINE k == [g EXCEPT !.input = p, !.identity = vDisk[p], !.status = "loading",
                          !.drawn = g.drawn /\ ~vClears, !.seen = {}]
<1>1. k \in ViewerPages BY DEF ViewerPages
<1>2. k.input = p /\ k.identity = vDisk[p] /\ k.seen = {} BY DEF ViewerPages
<1>3. Viewer!Load(g, p) = Viewer!Check(k) BY DEF Viewer!Load
<1> HIDE DEF k
<1>4. SameDocument(k, Viewer!Check(k)) BY <1>1, <1>2, ViewerChecks
<1>5. vDisk[p] <= vDisk[p] BY NaturalsAreOrdered
<1>6. Viewer!Given(g, p) \in {g, Viewer!Load(g, p)} BY DEF Viewer!Given
<1> QED BY <1>2, <1>3, <1>4, <1>5, <1>6 DEF SameDocument, SeenSinceLoaded

LEMMA ViewerReloads ==
  ASSUME ViewerInv, NEW STATE g, g \in ViewerPages, SeenSinceLoaded(g), Viewer!Reloaded(g)
  PROVE  ViewerInv'
<1>1. vPage' = g /\ vPicture' = (IF g = vPage THEN vPicture ELSE 0)
      /\ UNCHANGED <<vDisk, vClears, vJob, vChosen>>
  BY DEF Viewer!Reloaded
<1> QED BY <1>1 DEF ViewerInv, SeenSinceLoaded, TreatsWhatItSaw, Viewer!JobRuns, Viewer!NoJob

LEMMA ViewerInit == Viewer!Init => ViewerInv
<1> SUFFICES ASSUME Viewer!Init PROVE ViewerInv OBVIOUS
<1>1. vPage \in ViewerPages BY DEF Viewer!Init, Viewer!BlankPage, ViewerPages
<1>2. SeenSinceLoaded(vPage) BY ToolConstants DEF Viewer!Init, Viewer!BlankPage, SeenSinceLoaded
<1> QED BY <1>1, <1>2 DEF Viewer!Init, ViewerInv, Viewer!JobRuns

LEMMA ViewerStep == ViewerInv /\ [Viewer!Next]_viewerVars => ViewerInv'
<1> SUFFICES ASSUME ViewerInv, [Viewer!Next]_viewerVars PROVE ViewerInv' OBVIOUS
<1>0. /\ vDisk \in [UserFiles -> Nat] /\ vClears \in BOOLEAN /\ vPicture \in Nat
      /\ vPage \in ViewerPages /\ SeenSinceLoaded(vPage)
      /\ vPicture # 0 =>
           vPage.input \in UserFiles /\ vPage.identity <= vPicture /\ vPicture <= vDisk[vPage.input]
      /\ Viewer!JobRuns => vJob \in ViewerJobs /\ TreatsWhatItSaw(vJob)
  BY DEF ViewerInv
<1>1. ASSUME NEW p \in UserFiles, Viewer!Show(p) \/ Viewer!Synced(p) \/ Viewer!HandleFiles(p) PROVE ViewerInv'
  <2> DEFINE given == IF Viewer!JobRuns THEN vPage ELSE Viewer!Given(vPage, p)
             shown == Viewer!Given(given, p)
             loaded == Viewer!Load(vPage, p)
  <2>1. given \in ViewerPages /\ SeenSinceLoaded(given) BY <1>0, ViewerLoads
  <2>2. Viewer!Show(p) => Viewer!Reloaded(shown) BY DEF Viewer!Show
  <2> HIDE DEF given
  <2>3. shown \in ViewerPages /\ SeenSinceLoaded(shown) BY <1>0, <2>1, ViewerLoads
  <2>4. loaded \in ViewerPages /\ SeenSinceLoaded(loaded) BY <1>0, ViewerLoads
  <2>5. Viewer!Synced(p) \/ Viewer!HandleFiles(p) => Viewer!Reloaded(loaded)
    BY DEF Viewer!Synced, Viewer!HandleFiles
  <2> HIDE DEF shown, loaded
  <2> QED BY <1>1, <2>2, <2>3, <2>4, <2>5, ViewerReloads
<1>2. ASSUME Viewer!ClearDocument PROVE ViewerInv'
  <2> DEFINE k == [vPage EXCEPT !.input = NoUserFile, !.identity = 0, !.status = "closed",
                                !.drawn = vPage.drawn /\ ~vClears, !.seen = {}, !.queued = FALSE]
  <2>1. k \in ViewerPages BY <1>0 DEF ViewerPages
  <2>2. k.input = NoUserFile /\ k.status = "closed" /\ ~k.queued BY <1>0 DEF ViewerPages
  <2>3. Viewer!Reloaded(k) BY <1>2 DEF Viewer!ClearDocument
  <2> HIDE DEF k
  <2>4. SeenSinceLoaded(k) BY <2>2, ToolConstants DEF SeenSinceLoaded
  <2> QED BY <2>1, <2>3, <2>4, ViewerReloads
\* Of the page, neither the document nor what was seen of it changes.
<1>3. ASSUME SameDocument(vPage, vPage') \/ (vPage.input \in UserFiles /\ vPage' \in ViewerPages
               /\ vPage'.input = vPage.input /\ vPage'.identity = vPage.identity
               /\ vPage'.seen = vPage.seen),
             UNCHANGED <<vDisk, vClears, vPicture, vJob>>
      PROVE  ViewerInv'
  BY <1>0, <1>3 DEF SameDocument, ViewerInv, SeenSinceLoaded, TreatsWhatItSaw, Viewer!JobRuns, Viewer!NoJob
<1>4. ASSUME NEW error \in {"none", "password", "other"}, Viewer!DocumentLoaded(error) PROVE ViewerInv'
  <2>1. vPage.input \in UserFiles BY <1>0, <1>4 DEF Viewer!DocumentLoaded, SeenSinceLoaded
  <2>2. vDisk[vPage.input] \in Nat BY <1>0, <2>1
  <2>3. CASE error = "none"
    <3>1. vPage' = [vPage EXCEPT !.status = "ready"]
      BY <1>4, <2>3 DEF Viewer!DocumentLoaded, Viewer!LoadedWith
    <3> QED BY <1>0, <1>3, <1>4, <2>1, <3>1 DEF Viewer!DocumentLoaded, ViewerPages
  <2>4. CASE error = "password"
    <3>1. vPage' = [vPage EXCEPT !.status = "error", !.known[vPage.input] = vDisk[vPage.input],
                                 !.unusable[vPage.input] = TRUE]
      BY <1>4, <2>4 DEF Viewer!DocumentLoaded, Viewer!LoadedWith
    <3>2. /\ vPage' \in ViewerPages /\ vPage'.input = vPage.input
          /\ vPage'.identity = vPage.identity /\ vPage'.seen = vPage.seen
      BY <1>0, <2>1, <2>2, <3>1 DEF ViewerPages
    <3> QED BY <1>0, <1>3, <1>4, <2>1, <3>2 DEF Viewer!DocumentLoaded
  <2>5. CASE error = "other"
    <3>1. vPage' = [vPage EXCEPT !.status = "error"]
      BY <1>4, <2>5 DEF Viewer!DocumentLoaded, Viewer!LoadedWith
    <3> QED BY <1>0, <1>3, <1>4, <2>1, <3>1 DEF Viewer!DocumentLoaded, ViewerPages
  <2> QED BY <2>3, <2>4, <2>5
<1>5. ASSUME Viewer!RenderPage PROVE ViewerInv'
  <2>1. vPage.input \in UserFiles BY <1>0, <1>5 DEF Viewer!RenderPage, SeenSinceLoaded
  <2>2. vDisk[vPage.input] \in Nat /\ vDisk[vPage.input] <= vDisk[vPage.input]
    BY <1>0, <2>1, NaturalsAreOrdered
  <2> QED BY <1>0, <1>5, <2>1, <2>2
       DEF Viewer!RenderPage, ViewerInv, SeenSinceLoaded, TreatsWhatItSaw, Viewer!JobRuns, Viewer!NoJob
<1>6. ASSUME Viewer!PageShown PROVE ViewerInv'
  <2>1. vPage' = [vPage EXCEPT !.seen = vPage.seen \cup {vPicture}] BY <1>6 DEF Viewer!PageShown
  <2>2. /\ vPage' \in ViewerPages /\ vPage'.input = vPage.input /\ vPage'.identity = vPage.identity
        /\ vPage'.status = vPage.status /\ vPage'.queued = vPage.queued
        /\ vPage'.seen = vPage.seen \cup {vPicture}
    BY <1>0, <2>1 DEF ViewerPages
  <2>3. vPicture' = 0 /\ vPicture # 0 /\ UNCHANGED <<vDisk, vClears, vJob, vChosen>>
    BY <1>6 DEF Viewer!PageShown
  <2>4. SeenSinceLoaded(vPage)' BY <1>0, <2>2, <2>3 DEF SeenSinceLoaded
  <2> QED BY <1>0, <2>2, <2>3, <2>4 DEF ViewerInv, TreatsWhatItSaw, Viewer!JobRuns, Viewer!NoJob
<1>7. ASSUME NEW read, NEW answer, Viewer!CountFinished(read, answer) PROVE ViewerInv'
  <2> DEFINE p == vPage.running
             sig == answer = "counted" /\ <<p, read>> \in SignedVersions
             free == [vPage EXCEPT !.running = NoUserFile]
             stored == Viewer!Store(free, p, vPage.print, answer = "unusable", sig)
  <2>1. p \in UserFiles /\ vPage' = Viewer!StartNext(stored) /\ UNCHANGED <<vDisk, vClears, vPicture, vJob>>
    BY <1>0, <1>7 DEF Viewer!CountFinished, ViewerPages
  <2>2. /\ free \in ViewerPages /\ free.input = vPage.input /\ free.identity = vPage.identity
        /\ free.status = vPage.status /\ free.seen = vPage.seen /\ free.queued = vPage.queued
    BY <1>0 DEF ViewerPages
  <2> HIDE DEF free
  <2>3. sig \in BOOLEAN /\ (answer = "unusable") \in BOOLEAN /\ vPage.print \in Nat
    BY <1>0 DEF ViewerPages
  <2>4. /\ stored \in ViewerPages /\ stored.input = vPage.input /\ stored.identity = vPage.identity
        /\ stored.status = vPage.status /\ stored.seen = vPage.seen /\ stored.queued = vPage.queued
    BY <2>1, <2>2, <2>3 DEF ViewerPages, Viewer!Store
  <2> HIDE DEF stored
  <2>5. SameDocument(stored, Viewer!StartNext(stored))
    BY <1>0, <2>4, ViewerChecks DEF SeenSinceLoaded
  <2> QED BY <1>3, <2>1, <2>4, <2>5 DEF SameDocument
<1>8. ASSUME Viewer!Draw \/ Viewer!Tick PROVE ViewerInv'
  <2>1. vPage' = [vPage EXCEPT !.drawn = ~vPage.drawn] \/ vPage' = [vPage EXCEPT !.ticked = ~vPage.ticked]
    BY <1>8 DEF Viewer!Draw, Viewer!Tick
  <2>2. /\ vPage' \in ViewerPages /\ vPage'.input = vPage.input /\ vPage'.identity = vPage.identity
        /\ vPage'.status = vPage.status /\ vPage'.queued = vPage.queued /\ vPage'.seen = vPage.seen
    BY <1>0, <2>1 DEF ViewerPages
  <2> QED BY <1>0, <1>3, <1>8, <2>2 DEF Viewer!Draw, Viewer!Tick, SameDocument, SeenSinceLoaded
<1>9. ASSUME Viewer!Start PROVE ViewerInv'
  <2> DEFINE j == [path |-> vPage.input, identity |-> vPage.identity, seen |-> vPage.seen,
                   allow |-> Viewer!AsksForTheChoice(vPage) /\ vPage.ticked, opened |-> 0, ended |-> "no"]
  <2>1. /\ vPage.input \in UserFiles /\ vDisk[vPage.input] = vPage.identity /\ vJob' = j
        /\ UNCHANGED <<vDisk, vClears, vPage, vPicture, vChosen>>
    BY <1>0, <1>9 DEF Viewer!Start, Viewer!Blocked, ViewerPages
  <2>2. j \in ViewerJobs BY <1>0, <2>1 DEF ViewerPages, ViewerJobs, Viewer!AsksForTheChoice
  <2>3. ASSUME NEW v \in vPage.seen PROVE v = vPage.identity
    <3>1. vPage.identity <= v /\ v <= vPage.identity /\ v \in Nat /\ vPage.identity \in Nat
      BY <1>0, <2>1 DEF SeenSinceLoaded, ViewerPages
    <3> QED BY <3>1, SMT
  <2>4. TreatsWhatItSaw(j) BY <2>3 DEF TreatsWhatItSaw
  <2> HIDE DEF j
  <2> QED BY <1>0, <2>1, <2>2, <2>4 DEF ViewerInv, SeenSinceLoaded, TreatsWhatItSaw
<1>10. ASSUME Viewer!EngineOpens PROVE ViewerInv'
  <2>1. vJob \in ViewerJobs /\ TreatsWhatItSaw(vJob) /\ vJob.ended = "no"
    BY <1>0, <1>10 DEF Viewer!EngineOpens
  <2>2. \/ vJob' = [vJob EXCEPT !.ended = "failure"]
        \/ vJob.identity = vDisk[vJob.path] /\ vJob' = [vJob EXCEPT !.opened = vDisk[vJob.path]]
    BY <1>10 DEF Viewer!EngineOpens
  <2>3. vJob' \in ViewerJobs /\ TreatsWhatItSaw(vJob')
    BY <1>0, <2>1, <2>2 DEF ViewerJobs, TreatsWhatItSaw
  <2>4. UNCHANGED <<vDisk, vClears, vPage, vPicture>> BY <1>10 DEF Viewer!EngineOpens
  <2> QED BY <1>0, <2>3, <2>4 DEF ViewerInv, SeenSinceLoaded, TreatsWhatItSaw
<1>11. ASSUME NEW ended \in {"success", "failure"}, Viewer!EngineEnds(ended) PROVE ViewerInv'
  <2>1. vJob \in ViewerJobs /\ TreatsWhatItSaw(vJob) /\ (ended = "success" => vJob.opened # 0)
        /\ vJob' = [vJob EXCEPT !.ended = ended]
    BY <1>0, <1>11 DEF Viewer!EngineEnds
  <2>2. vJob' \in ViewerJobs /\ TreatsWhatItSaw(vJob') BY <2>1 DEF ViewerJobs, TreatsWhatItSaw
  <2>3. UNCHANGED <<vDisk, vClears, vPage, vPicture>> BY <1>11 DEF Viewer!EngineEnds
  <2> QED BY <1>0, <2>2, <2>3 DEF ViewerInv, SeenSinceLoaded, TreatsWhatItSaw
<1>12. ASSUME Viewer!JobFinished PROVE ViewerInv'
  BY <1>0, <1>12 DEF Viewer!JobFinished, ViewerInv, SeenSinceLoaded, Viewer!JobRuns
\* Another version leaves what was seen before it.
<1>13. ASSUME NEW p \in UserFiles, Viewer!Rewrite(p) PROVE ViewerInv'
  <2>1. vDisk' = [vDisk EXCEPT ![p] = vDisk[p] + 1] BY <1>13 DEF Viewer!Rewrite
  <2>2. vDisk' \in [UserFiles -> Nat] /\ \A q \in UserFiles, n \in Nat : n <= vDisk[q] => n <= vDisk'[q]
    <3>1. vDisk[p] + 1 \in Nat /\ \A n \in Nat : n <= vDisk[p] => n <= vDisk[p] + 1 BY <1>0, SMT
    <3>2. vDisk' \in [UserFiles -> Nat] /\ vDisk'[p] = vDisk[p] + 1 /\ \A q \in UserFiles \ {p} : vDisk'[q] = vDisk[q]
      BY <1>0, <2>1, <3>1
    <3> QED BY <3>1, <3>2
  <2>3. UNCHANGED <<vClears, vPage, vPicture, vJob, vChosen>> BY <1>13 DEF Viewer!Rewrite
  <2>4. vPage.identity \in Nat /\ vPage.seen \subseteq Nat BY <1>0 DEF ViewerPages
  <2>5. SeenSinceLoaded(vPage)'
    <3>1. vPage.input \in UserFiles => vPage.identity <= vDisk'[vPage.input]
      BY <1>0, <2>2, <2>4 DEF SeenSinceLoaded
    <3>2. vPage.input \in UserFiles =>
            \A v \in vPage.seen : vPage.identity <= v /\ v <= vDisk'[vPage.input]
      BY <1>0, <2>2, <2>4 DEF SeenSinceLoaded
    <3> QED BY <1>0, <2>3, <3>1, <3>2 DEF SeenSinceLoaded
  <2>6. vPicture # 0 => vPicture <= vDisk'[vPage.input] BY <1>0, <2>2
  <2> QED BY <1>0, <2>2, <2>3, <2>5, <2>6 DEF ViewerInv, TreatsWhatItSaw, Viewer!JobRuns, Viewer!NoJob
<1>14. ASSUME UNCHANGED viewerVars PROVE ViewerInv'
  BY <1>0, <1>14 DEF viewerVars, ViewerInv, SeenSinceLoaded, TreatsWhatItSaw, Viewer!JobRuns, Viewer!NoJob
<1> QED
  BY <1>1, <1>2, <1>4, <1>5, <1>6, <1>7, <1>8, <1>9, <1>10, <1>11, <1>12, <1>13, <1>14 DEF Viewer!Next

LEMMA ViewerShows == ViewerInv => Viewer!TreatedIsShown
BY DEF ViewerInv, TreatsWhatItSaw, Viewer!TreatedIsShown

-----------------------------------------------------------------------------
(* The forms.                                                                *)

FormNumbers == Int
FormSettings == [strong : BOOLEAN, languages : SUBSET Models, pages : FormNumbers]
FormSecrets == [for : UserFiles \cup {NoUserFile}, text : {"", "valid", "invalid"}]
FormResults == {Form!NoResult} \cup [path : UserFiles, settings : FormSettings]

FormCounts == [UserFiles -> FormNumbers]
FormKnown == [UserFiles -> [filed : FormNumbers, problem : BOOLEAN]]

FormPages ==
  [input : UserFiles \cup {NoUserFile}, password : FormSecrets, confirm : FormSecrets, strong : BOOLEAN,
   installed : SUBSET Models, languages : SUBSET Models, pages : FormNumbers,
   pagesFor : UserFiles \cup {NoUserFile}, counts : FormCounts, count : FormNumbers, replace : BOOLEAN,
   result : FormResults, known : FormKnown,
   running : UserFiles \cup {NoUserFile}, print : FormNumbers, queued : BOOLEAN]

\* What is on the page is of its document; a password was typed at a page on screen.
Belonging(g, shown) ==
  /\ g \in FormPages
  /\ \A s \in {g.password, g.confirm} : s # Form!Empty => s.for = g.input /\ shown /\ Form!AsksPassword
  /\ g.pages # 0 => g.pagesFor = g.input
  /\ g.count # 0 => g.input # NoUserFile /\ g.count = g.counts[g.input]
  /\ g.result # Form!NoResult => g.result.path = g.input /\ g.result.settings = Form!SettingsOf(g)
  /\ g.queued => g.input # NoUserFile

\* No password waits behind a problem.
Uncovered(g) == \A s \in {g.password, g.confirm} : s # Form!Empty => ~Form!Problem(g)

\* The page has the same document, settings and models.
Alike(g, h) ==
  /\ h.input = g.input /\ h.installed = g.installed
  /\ h.strong = g.strong /\ h.languages = g.languages /\ h.pages = g.pages

FormJobInv ==
  /\ fJob.path \in UserFiles /\ fJob.path = fPage.input /\ fJob.settings = Form!SettingsOf(fPage)
  /\ Form!AsksPassword => fJob.password.for = fJob.path

FormInv ==
  /\ fDisk \in FormCounts /\ fModels \subseteq Models /\ fPage.installed \subseteq fModels
  /\ fVisible \in BOOLEAN
  /\ Belonging(fPage, fVisible) /\ Uncovered(fPage)
  /\ Form!JobRuns => FormJobInv
  /\ Form!Asking => ~Form!JobRuns /\ fPage.input # NoUserFile

LEMMA SecretsCleared ==
  ASSUME NEW g, NEW shown, Belonging(g, shown)
  PROVE  /\ \A w : Belonging(Form!ClearPasswords(g), w)
         /\ Uncovered(Form!ClearPasswords(g)) /\ Alike(g, Form!ClearPasswords(g))
         /\ Form!ClearPasswords(g).replace = g.replace
         /\ Form!ClearPasswords(g).password = Form!Empty /\ Form!ClearPasswords(g).confirm = Form!Empty
<1> DEFINE h == [g EXCEPT !.password = Form!Empty, !.confirm = Form!Empty]
<1>1. Form!Empty \in FormSecrets BY DEF Form!Empty, FormSecrets
<1>2. /\ h \in FormPages /\ h.password = Form!Empty /\ h.confirm = Form!Empty
      /\ h.input = g.input /\ h.installed = g.installed /\ h.pagesFor = g.pagesFor
      /\ h.strong = g.strong /\ h.languages = g.languages /\ h.pages = g.pages
      /\ h.count = g.count /\ h.counts = g.counts /\ h.result = g.result /\ h.queued = g.queued
      /\ h.replace = g.replace
  BY <1>1 DEF Belonging, FormPages
<1>3. Form!ClearPasswords(g) = h BY DEF Form!ClearPasswords
<1> HIDE DEF h
<1>4. Form!SettingsOf(h) = Form!SettingsOf(g) BY <1>2 DEF Form!SettingsOf
<1>5. \A w : Belonging(h, w) BY <1>2, <1>4 DEF Belonging
<1> QED BY <1>2, <1>3, <1>5 DEF Uncovered, Alike

LEMMA FormUpdated ==
  ASSUME NEW g, NEW shown, Belonging(g, shown)
  PROVE  /\ Belonging(Form!UpdateState(g), shown) /\ Uncovered(Form!UpdateState(g))
         /\ Alike(g, Form!UpdateState(g))
<1>1. CASE Form!AsksPassword /\ Form!Problem(g)
  BY <1>1, SecretsCleared DEF Form!UpdateState
<1>2. CASE ~(Form!AsksPassword /\ Form!Problem(g))
  BY <1>2 DEF Form!UpdateState, Belonging, Uncovered, Alike
<1> QED BY <1>1, <1>2

\* Only the source check of a page, its counts or its boxes change.
LEMMA FormBookkeeping ==
  ASSUME NEW g, NEW shown, Belonging(g, shown), NEW h \in FormPages,
         h.password = g.password, h.confirm = g.confirm, Alike(g, h), h.pagesFor = g.pagesFor,
         h.count # 0 => h.input # NoUserFile /\ h.count = h.counts[h.input],
         h.result \in {g.result, Form!NoResult}, h.queued => h.input # NoUserFile
  PROVE  Belonging(h, shown)
<1>1. Form!SettingsOf(h) = Form!SettingsOf(g) BY DEF Form!SettingsOf, Alike
<1> QED BY <1>1 DEF Belonging, Alike

LEMMA FormStartsNext ==
  ASSUME NEW g, NEW shown, Belonging(g, shown), fDisk \in FormCounts
  PROVE  Belonging(Form!StartNext(g), shown) /\ Alike(g, Form!StartNext(g))
<1> DEFINE h == [g EXCEPT !.running = g.input, !.print = fDisk[g.input], !.queued = FALSE]
<1>1. CASE g.running = NoUserFile /\ g.queued
  <2>1. g.input \in UserFiles /\ fDisk[g.input] \in FormNumbers BY <1>1 DEF Belonging, FormPages, FormCounts
  <2>2. /\ h \in FormPages /\ h.password = g.password /\ h.confirm = g.confirm /\ Alike(g, h)
        /\ h.pagesFor = g.pagesFor /\ h.count = g.count /\ h.counts = g.counts
        /\ h.result = g.result /\ ~h.queued /\ h.input = g.input
    BY <2>1 DEF Belonging, FormPages, Alike
  <2>3. Form!StartNext(g) = h BY <1>1 DEF Form!StartNext
  <2> HIDE DEF h
  <2> QED BY <2>2, <2>3, FormBookkeeping DEF Belonging
<1>2. CASE ~(g.running = NoUserFile /\ g.queued)
  BY <1>2 DEF Form!StartNext, Alike
<1> QED BY <1>1, <1>2

LEMMA FormChecked ==
  ASSUME NEW g, NEW shown, NEW before, Belonging(g, shown), g.input \in UserFiles, fDisk \in FormCounts,
         ToolConstants
  PROVE  /\ Belonging(Form!Check(g, before), shown) /\ Uncovered(Form!Check(g, before))
         /\ Alike(g, Form!Check(g, before))
<1> DEFINE q == (g.queued /\ before = g.input)
                \/ (~(g.known[g.input] # Form!NotChecked /\ g.known[g.input].filed = fDisk[g.input])
                    /\ g.input # g.running)
           h == [g EXCEPT !.queued = q]
           n == Form!StartNext(h)
<1>1. Form!Check(g, before) = Form!UpdateState(n) BY DEF Form!Check
<1>2. q \in BOOLEAN OBVIOUS
<1> HIDE DEF q
<1>3. /\ h \in FormPages /\ h.password = g.password /\ h.confirm = g.confirm /\ Alike(g, h)
      /\ h.pagesFor = g.pagesFor /\ h.count = g.count /\ h.counts = g.counts
      /\ h.result = g.result /\ h.input = g.input
  BY <1>2 DEF Belonging, FormPages, Alike
<1> HIDE DEF h
<1>4. Belonging(h, shown) BY <1>3, FormBookkeeping DEF Belonging, ToolConstants
<1>5. Belonging(n, shown) /\ Alike(h, n) BY <1>4, FormStartsNext
<1> HIDE DEF n
<1>6. Belonging(Form!UpdateState(n), shown) /\ Uncovered(Form!UpdateState(n)) /\ Alike(n, Form!UpdateState(n))
  BY <1>5, FormUpdated
<1> QED BY <1>1, <1>3, <1>5, <1>6 DEF Alike

LEMMA FormGiven ==
  ASSUME NEW g, NEW shown, NEW path \in UserFiles, Belonging(g, shown), ~Form!JobRuns,
         fDisk \in FormCounts, ToolConstants
  PROVE  /\ Belonging(Form!SetInput(g, path), shown) /\ Uncovered(Form!SetInput(g, path))
         /\ Form!SetInput(g, path).input = path /\ Form!SetInput(g, path).installed = g.installed
<1>1. CASE path = g.input
  BY <1>1, FormChecked DEF Form!SetInput, Alike
<1>2. CASE path # g.input
  <2> DEFINE c == Form!ClearPasswords(g)
             h == [c EXCEPT !.input = path, !.result = Form!NoResult, !.count = g.counts[path],
                            !.pages = 0, !.pagesFor = NoUserFile, !.replace = FALSE]
             k == Form!Check(h, g.input)
  <2>1. Form!SetInput(g, path) = k BY <1>2 DEF Form!SetInput, Form!Forgotten
  <2>2. /\ Belonging(c, shown) /\ Alike(g, c) /\ c.password = Form!Empty /\ c.confirm = Form!Empty
        /\ c.counts = g.counts
    BY SecretsCleared DEF Form!ClearPasswords, Belonging, FormPages
  <2>3. c \in FormPages BY <2>2 DEF Belonging
  <2>4. g.counts[path] \in FormNumbers /\ 0 \in FormNumbers /\ Form!NoResult \in FormResults
    BY DEF Belonging, FormPages, FormResults, FormCounts, FormNumbers
  <2> HIDE DEF c
  <2>5. /\ h \in FormPages /\ h.input = path /\ h.result = Form!NoResult /\ h.count = h.counts[path]
        /\ h.pages = 0 /\ h.password = Form!Empty /\ h.confirm = Form!Empty /\ h.installed = g.installed
    <3>1. h \in FormPages BY <2>3, <2>4 DEF FormPages
    <3>2. h.counts = c.counts /\ h.count = g.counts[path] BY <2>3 DEF FormPages
    <3> QED BY <2>2, <2>3, <3>1, <3>2 DEF FormPages, Alike
  <2> HIDE DEF h
  <2>6. Belonging(h, shown) BY <2>5 DEF Belonging, ToolConstants
  <2>7. Belonging(k, shown) /\ Uncovered(k) /\ Alike(h, k) BY <2>5, <2>6, FormChecked
  <2> QED BY <2>1, <2>5, <2>7 DEF Alike
<1> QED BY <1>1, <1>2

\* A setting is changed: the result leaves the page.
LEMMA FormChanged ==
  ASSUME NEW g \in FormPages, NEW shown,
         \A s \in {g.password, g.confirm} : s # Form!Empty => s.for = g.input /\ shown /\ Form!AsksPassword,
         g.pages # 0 => g.pagesFor = g.input,
         g.count # 0 => g.input # NoUserFile /\ g.count = g.counts[g.input],
         g.queued => g.input # NoUserFile
  PROVE  /\ Belonging(Form!Changed(g), shown) /\ Uncovered(Form!Changed(g)) /\ Alike(g, Form!Changed(g))
<1> DEFINE h == [g EXCEPT !.result = Form!NoResult]
<1>1. Form!NoResult \in FormResults BY DEF FormResults
<1>2. /\ h \in FormPages /\ h.password = g.password /\ h.confirm = g.confirm /\ Alike(g, h)
      /\ h.pagesFor = g.pagesFor /\ h.count = g.count /\ h.counts = g.counts
      /\ h.result = Form!NoResult /\ h.queued = g.queued /\ h.input = g.input /\ h.pages = g.pages
  BY <1>1 DEF FormPages, Alike
<1>3. Form!Changed(g) = Form!UpdateState(h) BY DEF Form!Changed
<1> HIDE DEF h
<1>4. Belonging(h, shown) BY <1>2 DEF Belonging
<1> QED BY <1>2, <1>3, <1>4, FormUpdated DEF Alike

\* The page is handled, and nothing of a job or a question.
LEMMA FormHandles ==
  ASSUME FormInv, UNCHANGED <<fTool, fJob, fAsked>>, fVisible' \in BOOLEAN,
         fDisk' \in FormCounts, fModels' \subseteq Models, fPage'.installed \subseteq fModels',
         Belonging(fPage, fVisible)', Uncovered(fPage)',
         \/ Alike(fPage, fPage')
         \/ ~Form!JobRuns /\ (Form!Asking => fPage'.input \in UserFiles)
  PROVE  FormInv'
<1>1. Form!JobRuns' = Form!JobRuns /\ Form!Asking' = Form!Asking
  BY DEF Form!JobRuns, Form!NoJob, Form!Asking
<1>2. Form!JobRuns => FormJobInv'
  BY DEF FormInv, FormJobInv, Form!AsksPassword, Alike, Form!SettingsOf
<1>3. Form!Asking => ~Form!JobRuns /\ fPage'.input # NoUserFile
  BY ToolConstants DEF FormInv, Alike
<1> QED BY <1>1, <1>2, <1>3 DEF FormInv

LEMMA FormInit == Form!Init => FormInv
<1> SUFFICES ASSUME Form!Init PROVE FormInv OBVIOUS
<1>1. Form!Empty \in FormSecrets /\ Form!NoResult \in FormResults
  BY DEF FormSecrets, Form!Empty, FormResults
<1>2. 0 \in FormNumbers /\ [p \in UserFiles |-> 0] \in FormCounts
      /\ [p \in UserFiles |-> Form!NotChecked] \in FormKnown
  BY DEF Form!NotChecked, FormCounts, FormKnown, FormNumbers
<1>3. fPage \in FormPages /\ fPage.installed = {} /\ fPage.password = Form!Empty
      /\ fPage.confirm = Form!Empty /\ fPage.pages = 0 /\ fPage.count = 0
      /\ fPage.result = Form!NoResult /\ ~fPage.queued
  BY <1>1, <1>2 DEF Form!Init, FormPages
<1>4. Belonging(fPage, fVisible) /\ Uncovered(fPage)
  BY <1>3 DEF Belonging, Uncovered
<1>5. ~Form!JobRuns /\ ~Form!Asking BY DEF Form!Init, Form!JobRuns, Form!Asking
<1>6. fDisk \in FormCounts /\ fModels = {} /\ fVisible = FALSE BY DEF Form!Init, FormCounts, FormNumbers
<1> QED BY <1>3, <1>4, <1>5, <1>6 DEF FormInv


\* The models are detected: the first one is ticked if none is.
LEMMA FormDetects ==
  ASSUME NEW g, NEW shown, Belonging(g, shown), Uncovered(g), fModels \subseteq Models,
         g.installed \subseteq fModels
  PROVE  /\ Belonging(Form!Detect(g), shown) /\ Uncovered(Form!Detect(g))
         /\ Form!Detect(g).input = g.input /\ Form!Detect(g).installed \subseteq fModels
         /\ Form!JobRuns => Form!Detect(g) = g
<1>1. CASE fTool # "ocr" \/ Form!JobRuns \/ fModels = g.installed
  BY <1>1 DEF Form!Detect
<1>2. CASE /\ ~(fTool # "ocr" \/ Form!JobRuns \/ fModels = g.installed) /\ g.languages # {}
  <2> DEFINE h == [g EXCEPT !.installed = fModels]
  <2>1. Form!Detect(g) = h BY <1>2 DEF Form!Detect
  <2>2. g \in FormPages /\ fModels \in SUBSET Models BY DEF Belonging
  <2>3. /\ h \in FormPages /\ h.input = g.input /\ h.installed = fModels /\ h.password = g.password
        /\ h.confirm = g.confirm /\ h.pages = g.pages /\ h.pagesFor = g.pagesFor
        /\ h.count = g.count /\ h.counts = g.counts /\ h.result = g.result
        /\ h.queued = g.queued /\ h.known = g.known
        /\ h.strong = g.strong /\ h.languages = g.languages
    BY <2>2 DEF FormPages
  <2> HIDE DEF h
  <2>4. Form!SettingsOf(h) = Form!SettingsOf(g) BY <2>3 DEF Form!SettingsOf
  <2>5. Belonging(h, shown) /\ Uncovered(h)
    BY <2>3, <2>4 DEF Belonging, Uncovered, Form!Problem
  <2> QED BY <1>2, <2>1, <2>3, <2>5
<1>3. CASE /\ ~(fTool # "ocr" \/ Form!JobRuns \/ fModels = g.installed) /\ g.languages = {}
  <2> DEFINE first == CHOOSE m \in fModels : TRUE
             h == [g EXCEPT !.installed = fModels, !.languages = {first}]
  <2>1. Form!Detect(g) = Form!Changed(h) BY <1>3 DEF Form!Detect
  <2>2. first \in fModels
    <3>1. \E m \in fModels : TRUE BY <1>3
    <3> QED BY <3>1
  <2> HIDE DEF first
  <2>3. g \in FormPages /\ fModels \in SUBSET Models /\ {first} \in SUBSET Models BY <2>2 DEF Belonging
  <2>4. /\ h \in FormPages /\ h.input = g.input /\ h.installed = fModels /\ h.password = g.password
        /\ h.confirm = g.confirm /\ h.pages = g.pages /\ h.pagesFor = g.pagesFor
        /\ h.count = g.count /\ h.counts = g.counts /\ h.queued = g.queued
    BY <2>3 DEF FormPages
  <2> HIDE DEF h
  <2>5. /\ Belonging(Form!Changed(h), shown) /\ Uncovered(Form!Changed(h)) /\ Alike(h, Form!Changed(h))
    BY <2>4, FormChanged DEF Belonging
  <2> QED BY <1>3, <2>1, <2>4, <2>5 DEF Alike
<1> QED BY <1>1, <1>2, <1>3

\* Another setting of a page at work.
LEMMA FormSets ==
  ASSUME FormInv, ~Form!JobRuns, UNCHANGED <<fTool, fDisk, fVisible, fJob, fAsked>>,
         fModels' \subseteq Models, NEW h \in FormPages, fPage' = Form!Changed(h),
         h.installed \subseteq fModels',
         h.input = fPage.input, h.password = fPage.password, h.confirm = fPage.confirm,
         h.count = fPage.count, h.counts = fPage.counts, h.queued = fPage.queued,
         h.pages # 0 => h.pagesFor = h.input
  PROVE  FormInv'
<1>1. Belonging(fPage, fVisible) BY DEF FormInv
<1>2. /\ Belonging(Form!Changed(h), fVisible) /\ Uncovered(Form!Changed(h)) /\ Alike(h, Form!Changed(h))
  BY <1>1, FormChanged DEF Belonging
<1>3. Belonging(fPage, fVisible)' /\ Uncovered(fPage)'
  BY <1>2 DEF Belonging, Uncovered, Form!AsksPassword, Form!Problem
<1>4. fPage'.installed \subseteq fModels' /\ fPage'.input = fPage.input BY <1>2 DEF Alike
<1>5. Form!Asking => fPage'.input \in UserFiles BY <1>1, <1>4 DEF FormInv, Belonging, FormPages
<1> QED BY <1>3, <1>4, <1>5, FormHandles DEF FormInv

LEMMA FormStep == FormInv /\ [Form!Next]_formVars => FormInv'
<1> SUFFICES ASSUME FormInv, [Form!Next]_formVars PROVE FormInv' OBVIOUS
<1>0. /\ fDisk \in FormCounts /\ fModels \subseteq Models /\ fPage.installed \subseteq fModels
      /\ fVisible \in BOOLEAN /\ Belonging(fPage, fVisible) /\ Uncovered(fPage) /\ fPage \in FormPages
      /\ (Form!JobRuns => FormJobInv)
      /\ (Form!Asking => ~Form!JobRuns /\ fPage.input # NoUserFile)
  BY DEF FormInv, Belonging
<1>t. Form!NoResult \in FormResults /\ Form!Empty \in FormSecrets /\ 0 \in FormNumbers
  BY DEF FormResults, FormSecrets, Form!Empty, FormNumbers
\* A document is given to a page that is on screen, or that is shown with it.
<1>a. ASSUME NEW p \in UserFiles, NEW w \in BOOLEAN, fVisible => w
      PROVE  LET h == Form!SetInput(fPage, p)
             IN  /\ Belonging(h, w) /\ Uncovered(h) /\ h.installed = fPage.installed
                 /\ \/ Alike(fPage, h)
                    \/ ~Form!JobRuns /\ h.input \in UserFiles
  <2>1. Belonging(fPage, w) BY <1>0, <1>a DEF Belonging
  <2>2. CASE Form!JobRuns BY <1>0, <2>1, <2>2 DEF Form!SetInput, Alike
  <2>3. CASE ~Form!JobRuns
    <3> DEFINE h == Form!SetInput(fPage, p)
    <3>1. Belonging(h, w) /\ Uncovered(h) /\ h.input = p /\ h.installed = fPage.installed
      BY <1>0, <2>1, <2>3, FormGiven, ToolConstants
    <3> HIDE DEF h
    <3>2. h.input \in UserFiles BY <3>1
    <3> QED BY <2>3, <3>1, <3>2 DEF h
  <2> QED BY <2>2, <2>3
<1>1. ASSUME NEW p \in UserFiles, Form!HandleFiles(p) \/ Form!Refresh(p) PROVE FormInv'
  <2>1. fPage' = Form!SetInput(fPage, p) /\ UNCHANGED <<fTool, fDisk, fModels, fVisible, fJob, fAsked>>
    BY <1>1 DEF Form!HandleFiles, Form!Refresh
  <2>2. /\ Belonging(fPage', fVisible) /\ Uncovered(fPage') /\ fPage'.installed = fPage.installed
        /\ \/ Alike(fPage, fPage')
           \/ ~Form!JobRuns /\ fPage'.input \in UserFiles
    BY <1>a, <1>0, <2>1
  <2>3. Belonging(fPage, fVisible)' /\ Uncovered(fPage)'
    BY <2>1, <2>2 DEF Belonging, Uncovered, Form!AsksPassword, Form!Problem
  <2> QED BY <1>0, <2>1, <2>2, <2>3, FormHandles
<1>2. ASSUME NEW p \in UserFiles \cup {NoUserFile}, Form!ShowPage(p) PROVE FormInv'
  <2> DEFINE g == IF p = NoUserFile THEN fPage ELSE Form!SetInput(fPage, p)
  <2>1. fVisible' = TRUE /\ fPage' = Form!Detect(g) /\ UNCHANGED <<fTool, fDisk, fModels, fJob, fAsked>>
    BY <1>2 DEF Form!ShowPage
  <2>2. /\ Belonging(g, TRUE) /\ Uncovered(g) /\ g.installed = fPage.installed
        /\ \/ Alike(fPage, g)
           \/ ~Form!JobRuns /\ g.input \in UserFiles
    <3>1. CASE p = NoUserFile BY <1>0, <3>1 DEF Belonging, Alike
    <3>2. CASE p # NoUserFile BY <1>a, <3>2
    <3> QED BY <3>1, <3>2
  <2> HIDE DEF g
  <2>3. /\ Belonging(fPage', TRUE) /\ Uncovered(fPage') /\ fPage'.input = g.input
        /\ fPage'.installed \subseteq fModels /\ (Form!JobRuns => fPage' = g)
    BY <1>0, <2>1, <2>2, FormDetects
  <2>4. Belonging(fPage, fVisible)' /\ Uncovered(fPage)'
    BY <2>1, <2>3 DEF Belonging, Uncovered, Form!AsksPassword, Form!Problem
  <2>5. \/ Alike(fPage, fPage')
        \/ ~Form!JobRuns /\ (Form!Asking => fPage'.input \in UserFiles)
    BY <1>0, <2>2, <2>3 DEF Alike, FormPages
  <2> QED BY <1>0, <2>1, <2>3, <2>4, <2>5, FormHandles
<1>3. ASSUME Form!LeavePage PROVE FormInv'
  <2> DEFINE c == Form!ClearPasswords(fPage)
             h == [c EXCEPT !.replace = FALSE]
  <2>1. /\ fVisible' = FALSE /\ UNCHANGED <<fTool, fDisk, fModels, fJob, fAsked>>
        /\ \/ ~Form!AsksPassword /\ fPage' = fPage
           \/ fPage' = c
           \/ fPage' = Form!Changed(h)
    BY <1>3 DEF Form!LeavePage
  <2>2. Belonging(c, FALSE) /\ Uncovered(c) /\ Alike(fPage, c)
        /\ c.password = Form!Empty /\ c.confirm = Form!Empty
    BY <1>0, SecretsCleared
  <2> HIDE DEF c
  <2>3. ASSUME Belonging(fPage', FALSE), Uncovered(fPage'), Alike(fPage, fPage') PROVE FormInv'
    <3>1. Belonging(fPage, fVisible)' /\ Uncovered(fPage)'
      BY <2>1, <2>3 DEF Belonging, Uncovered, Form!AsksPassword, Form!Problem
    <3> QED BY <1>0, <2>1, <2>3, <3>1, FormHandles DEF Alike
  <2>4. CASE ~Form!AsksPassword /\ fPage' = fPage
    BY <1>0, <2>3, <2>4 DEF Belonging, Alike
  <2>5. CASE fPage' = c BY <2>2, <2>3, <2>5
  <2>6. CASE fPage' = Form!Changed(h)
    <3>1. /\ h \in FormPages /\ h.input = c.input /\ h.installed = c.installed
          /\ h.password = c.password /\ h.confirm = c.confirm /\ h.pages = c.pages
          /\ h.pagesFor = c.pagesFor /\ h.count = c.count /\ h.counts = c.counts
          /\ h.queued = c.queued /\ h.strong = c.strong /\ h.languages = c.languages
      BY <2>2 DEF Belonging, FormPages
    <3> HIDE DEF h
    <3>2. \A s \in {h.password, h.confirm} : s # Form!Empty => s.for = h.input /\ FALSE /\ Form!AsksPassword
      BY <2>2, <3>1
    <3>3. /\ h.pages # 0 => h.pagesFor = h.input
          /\ h.count # 0 => h.input # NoUserFile /\ h.count = h.counts[h.input]
          /\ h.queued => h.input # NoUserFile
      BY <2>2, <3>1 DEF Belonging
    <3>4. Belonging(Form!Changed(h), FALSE) /\ Uncovered(Form!Changed(h)) /\ Alike(h, Form!Changed(h))
      BY <3>1, <3>2, <3>3, FormChanged
    <3> QED BY <2>2, <2>3, <2>6, <3>1, <3>4 DEF Alike
  <2> QED BY <2>1, <2>4, <2>5, <2>6
<1>4. ASSUME NEW text \in {"valid", "invalid"}, Form!TypePassword(text) PROVE FormInv'
  <2> DEFINE s == [for |-> fPage.input, text |-> text]
  <2>1. /\ Form!AsksPassword /\ ~Form!Problem(fPage) /\ fVisible
        /\ UNCHANGED <<fTool, fDisk, fModels, fVisible, fJob, fAsked>>
        /\ \/ fPage' = [fPage EXCEPT !.password = s]
           \/ fPage' = [fPage EXCEPT !.confirm = s]
    BY <1>4 DEF Form!TypePassword, Form!AtWork, Form!Handled
  <2>2. s \in FormSecrets /\ s.for = fPage.input BY <1>0 DEF FormSecrets, FormPages
  <2> HIDE DEF s
  <2>3. /\ fPage' \in FormPages /\ fPage'.password \in {fPage.password, s}
        /\ fPage'.confirm \in {fPage.confirm, s} /\ Alike(fPage, fPage')
        /\ fPage'.pagesFor = fPage.pagesFor /\ fPage'.count = fPage.count
        /\ fPage'.counts = fPage.counts /\ fPage'.result = fPage.result
        /\ fPage'.queued = fPage.queued /\ fPage'.known = fPage.known
    BY <1>0, <2>1, <2>2 DEF FormPages, Alike
  <2>4. Form!SettingsOf(fPage') = Form!SettingsOf(fPage) BY <2>3 DEF Form!SettingsOf, Alike
  <2>5. Belonging(fPage', fVisible) /\ Uncovered(fPage')
    BY <1>0, <2>1, <2>2, <2>3, <2>4 DEF Belonging, Uncovered, Alike, Form!Problem
  <2>6. Belonging(fPage, fVisible)' /\ Uncovered(fPage)'
    BY <2>1, <2>5 DEF Belonging, Uncovered, Form!AsksPassword, Form!Problem
  <2> QED BY <1>0, <2>1, <2>3, <2>6, FormHandles DEF Alike
<1>5. ASSUME Form!TickReplace \/ Form!ChooseCompression PROVE FormInv'
  <2>1. ~Form!JobRuns /\ UNCHANGED <<fTool, fDisk, fModels, fVisible, fJob, fAsked>>
    BY <1>5 DEF Form!TickReplace, Form!ChooseCompression, Form!AtWork, Form!Handled
  <2>2. PICK h \in {[fPage EXCEPT !.replace = ~fPage.replace], [fPage EXCEPT !.strong = ~fPage.strong]} :
             fPage' = Form!Changed(h)
    BY <1>5 DEF Form!TickReplace, Form!ChooseCompression, Form!Handled
  <2>3. (~fPage.replace) \in BOOLEAN /\ (~fPage.strong) \in BOOLEAN OBVIOUS
  <2>0. fPage \in FormPages BY <1>0 DEF Belonging
  <2>4. /\ h \in FormPages /\ h.input = fPage.input /\ h.installed = fPage.installed
        /\ h.password = fPage.password /\ h.confirm = fPage.confirm /\ h.pages = fPage.pages
        /\ h.pagesFor = fPage.pagesFor /\ h.count = fPage.count /\ h.counts = fPage.counts
        /\ h.queued = fPage.queued
    <3>1. CASE h = [fPage EXCEPT !.replace = ~fPage.replace] BY <2>0, <2>3, <3>1 DEF FormPages
    <3>2. CASE h = [fPage EXCEPT !.strong = ~fPage.strong] BY <2>0, <2>3, <3>2 DEF FormPages
    <3> QED BY <2>2, <3>1, <3>2
  <2>5. h.pages # 0 => h.pagesFor = h.input BY <1>0, <2>4 DEF Belonging
  <2> QED BY <1>0, <2>1, <2>2, <2>4, <2>5, FormSets
<1>6. ASSUME NEW m \in Models, Form!TickLanguage(m) PROVE FormInv'
  <2>1. ~Form!JobRuns /\ UNCHANGED <<fTool, fDisk, fModels, fVisible, fJob, fAsked>>
    BY <1>6 DEF Form!TickLanguage, Form!AtWork, Form!Handled
  <2>2. PICK l \in SUBSET Models : fPage' = Form!Changed([fPage EXCEPT !.languages = l])
    BY <1>0, <1>6 DEF Form!TickLanguage, Form!Handled, FormPages
  <2> DEFINE h == [fPage EXCEPT !.languages = l]
  <2>4. /\ h \in FormPages /\ h.input = fPage.input /\ h.installed = fPage.installed
        /\ h.password = fPage.password /\ h.confirm = fPage.confirm /\ h.pages = fPage.pages
        /\ h.pagesFor = fPage.pagesFor /\ h.count = fPage.count /\ h.counts = fPage.counts
        /\ h.queued = fPage.queued
    BY <1>0 DEF FormPages
  <2>3. fPage' = Form!Changed(h) BY <2>2
  <2> HIDE DEF h
  <2>5. h.pages # 0 => h.pagesFor = h.input BY <1>0, <2>4 DEF Belonging
  <2> QED BY <1>0, <2>1, <2>3, <2>4, <2>5, FormSets
<1>7. ASSUME NEW n \in Form!Versions \cup {0}, Form!TypePages(n) PROVE FormInv'
  <2> DEFINE q == IF n = 0 THEN NoUserFile ELSE fPage.input
             h == [fPage EXCEPT !.pages = n, !.pagesFor = q]
  <2>1. ~Form!JobRuns /\ UNCHANGED <<fTool, fDisk, fModels, fVisible, fJob, fAsked>>
        /\ fPage' = Form!Changed(h)
    BY <1>7 DEF Form!TypePages, Form!AtWork, Form!Handled
  <2>2. n \in FormNumbers
    BY ToolConstants DEF Form!Versions, FormNumbers
  <2>3. q \in UserFiles \cup {NoUserFile} BY <1>0 DEF FormPages
  <2>4. n # 0 => q = fPage.input OBVIOUS
  <2> HIDE DEF q
  <2>5. /\ h \in FormPages /\ h.input = fPage.input /\ h.installed = fPage.installed
        /\ h.password = fPage.password /\ h.confirm = fPage.confirm /\ h.pages = n
        /\ h.pagesFor = q /\ h.count = fPage.count /\ h.counts = fPage.counts
        /\ h.queued = fPage.queued
    BY <1>0, <2>2, <2>3 DEF FormPages
  <2> HIDE DEF h
  <2> QED BY <1>0, <2>1, <2>4, <2>5, FormSets
<1>8. ASSUME NEW m \in Models, Form!AddLanguage(m) PROVE FormInv'
  <2> DEFINE first == CHOOSE x \in fModels' : TRUE
             found == [fPage EXCEPT !.installed = fModels']
             ticked == IF fPage.languages = {} THEN {first} ELSE fPage.languages
             With(more) == [found EXCEPT !.languages = more]
  <2>1. /\ ~Form!JobRuns /\ UNCHANGED <<fTool, fDisk, fVisible, fJob, fAsked>>
        /\ fModels' = fModels \cup {m}
    BY <1>8 DEF Form!AddLanguage, Form!AtWork
  <2>9. PICK more \in {ticked, ticked \cup {m}} : fPage' = found \/ fPage' = Form!Changed(With(more))
    BY <1>8 DEF Form!AddLanguage
  <2> DEFINE h == With(more)
  <2>10. fPage' = found \/ fPage' = Form!Changed(h) BY <2>9
  <2>2. first \in fModels'
    <3>1. \E x \in fModels' : TRUE BY <2>1
    <3> QED BY <3>1
  <2>3. fModels' \in SUBSET Models BY <1>0, <2>1
  <2> HIDE DEF first
  <2>4. more \in SUBSET Models BY <1>0, <2>2, <2>3 DEF FormPages
  <2>5. /\ found \in FormPages /\ found.input = fPage.input /\ found.installed = fModels'
        /\ found.password = fPage.password /\ found.confirm = fPage.confirm /\ found.pages = fPage.pages
        /\ found.pagesFor = fPage.pagesFor /\ found.count = fPage.count /\ found.counts = fPage.counts
        /\ found.queued = fPage.queued
    BY <1>0, <2>3 DEF FormPages
  <2>6. /\ found.result = fPage.result /\ found.known = fPage.known
        /\ found.strong = fPage.strong /\ found.languages = fPage.languages
    BY <1>0, <2>3 DEF FormPages
  <2> HIDE DEF found
  <2>7. CASE fPage' = found
    <3>1. Form!SettingsOf(found) = Form!SettingsOf(fPage) BY <2>5, <2>6 DEF Form!SettingsOf
    <3>2. Belonging(found, fVisible) /\ Uncovered(found)
      BY <1>0, <2>5, <2>6, <3>1 DEF Belonging, Uncovered, Form!Problem
    <3>3. Belonging(fPage, fVisible)' /\ Uncovered(fPage)'
      BY <2>1, <2>7, <3>2 DEF Belonging, Uncovered, Form!AsksPassword, Form!Problem
    <3>4. Form!Asking => fPage'.input \in UserFiles BY <1>0, <2>5, <2>7 DEF FormPages
    <3> QED BY <1>0, <2>1, <2>3, <2>5, <2>7, <3>3, <3>4, FormHandles
  <2>8. CASE fPage' = Form!Changed(h)
    <3>1. /\ h \in FormPages /\ h.input = fPage.input /\ h.installed = fModels'
          /\ h.password = fPage.password /\ h.confirm = fPage.confirm /\ h.pages = fPage.pages
          /\ h.pagesFor = fPage.pagesFor /\ h.count = fPage.count /\ h.counts = fPage.counts
          /\ h.queued = fPage.queued
      BY <2>4, <2>5 DEF FormPages
    <3> HIDE DEF h
    <3>2. h.pages # 0 => h.pagesFor = h.input BY <1>0, <3>1 DEF Belonging
    <3> QED BY <2>1, <2>3, <2>8, <3>1, <3>2, FormSets
  <2> QED BY <2>7, <2>8, <2>10
\* The source check answers, for the file it was asked about.
<1>9. ASSUME NEW number \in FormNumbers, NEW problem \in BOOLEAN, fPage.running \in UserFiles,
             Form!Handled(Form!Answered(fPage, number, problem))
      PROVE  FormInv'
  <2> DEFINE entry == [filed |-> fPage.print, problem |-> problem]
             known == [fPage.known EXCEPT ![fPage.running] = entry]
             filed == [fPage EXCEPT !.known = known]
             all == [filed.counts EXCEPT ![filed.running] = number]
             count == IF filed.running = filed.input THEN number ELSE filed.count
             told == IF fTool # "ocr" THEN filed ELSE [filed EXCEPT !.counts = all, !.count = count]
             h == [told EXCEPT !.running = NoUserFile, !.print = 0]
             n == Form!StartNext(h)
  <2>1. fPage' = Form!UpdateState(n) /\ UNCHANGED <<fTool, fDisk, fModels, fVisible, fJob, fAsked>>
    BY <1>9 DEF Form!Handled, Form!Answered, Form!Counted, Form!Filed
  <2>2. fPage.known \in FormKnown /\ entry \in [filed : FormNumbers, problem : BOOLEAN]
    BY <1>0 DEF FormPages
  <2> HIDE DEF entry
  <2>3. known \in FormKnown BY <2>2 DEF FormKnown
  <2> HIDE DEF known
  <2>4. /\ filed \in FormPages /\ filed.input = fPage.input /\ filed.installed = fPage.installed
        /\ filed.password = fPage.password /\ filed.confirm = fPage.confirm /\ filed.pages = fPage.pages
        /\ filed.pagesFor = fPage.pagesFor /\ filed.count = fPage.count /\ filed.counts = fPage.counts
        /\ filed.queued = fPage.queued /\ filed.running = fPage.running
        /\ filed.strong = fPage.strong /\ filed.languages = fPage.languages
        /\ filed.result = fPage.result
    BY <1>0, <2>3 DEF FormPages
  <2> HIDE DEF filed
  <2>5. filed.counts \in FormCounts /\ filed.count \in FormNumbers BY <2>4 DEF FormPages
  <2>6. all \in FormCounts /\ count \in FormNumbers BY <1>9, <2>5 DEF FormCounts
  <2>7. count # 0 => filed.input # NoUserFile /\ count = all[filed.input]
    <3>1. CASE filed.running = filed.input BY <1>9, <2>4, <2>5, <3>1, ToolConstants DEF FormCounts, ToolConstants
    <3>2. CASE filed.running # filed.input
      <4>1. filed.count # 0 => filed.input # NoUserFile /\ filed.count = filed.counts[filed.input]
        BY <1>0, <2>4 DEF Belonging
      <4>2. filed.input # NoUserFile => filed.input \in UserFiles BY <1>0, <2>4 DEF FormPages
      <4> QED BY <2>5, <3>2, <4>1, <4>2 DEF FormCounts
    <3> QED BY <3>1, <3>2
  <2> HIDE DEF all, count
  <2>8. /\ told \in FormPages /\ Alike(filed, told)
        /\ told.password = filed.password /\ told.confirm = filed.confirm
        /\ told.pagesFor = filed.pagesFor /\ told.queued = filed.queued
        /\ told.result = filed.result
    BY <2>4, <2>6 DEF FormPages, Alike
  <2>9. told.count = 0 \/ (told.input # NoUserFile /\ told.count = told.counts[told.input])
    BY <1>0, <2>4, <2>6, <2>7 DEF FormPages, Belonging
  <2> HIDE DEF told
  <2>10. /\ h \in FormPages /\ Alike(told, h)
         /\ h.password = told.password /\ h.confirm = told.confirm
         /\ h.pagesFor = told.pagesFor /\ h.queued = told.queued
         /\ h.result = told.result /\ h.count = told.count /\ h.counts = told.counts
    BY <1>t, <2>8 DEF FormPages, Alike
  <2> HIDE DEF h
  <2>11. Alike(fPage, h) BY <2>4, <2>8, <2>10 DEF Alike
  <2>12. Belonging(h, fVisible)
    BY <1>0, <2>4, <2>8, <2>9, <2>10, <2>11, FormBookkeeping DEF Belonging, Alike
  <2>13. Belonging(n, fVisible) /\ Alike(h, n) BY <1>0, <2>12, FormStartsNext
  <2> HIDE DEF n
  <2>14. Belonging(fPage', fVisible) /\ Uncovered(fPage') /\ Alike(n, fPage') BY <2>1, <2>13, FormUpdated
  <2>15. Belonging(fPage, fVisible)' /\ Uncovered(fPage)'
    BY <2>1, <2>14 DEF Belonging, Uncovered, Form!AsksPassword, Form!Problem
  <2>16. Alike(fPage, fPage') BY <2>11, <2>13, <2>14 DEF Alike
  <2> QED BY <1>0, <2>1, <2>15, <2>16, FormHandles DEF Alike
<1>10. ASSUME Form!CheckAnswers PROVE FormInv'
  <2>1. fPage.running \in UserFiles BY <1>0, <1>10 DEF Form!CheckAnswers, FormPages
  <2>2. PICK number \in FormNumbers, problem \in BOOLEAN : Form!Handled(Form!Answered(fPage, number, problem))
    <3>1. CASE Form!Handled(Form!Answered(fPage, 0, FALSE)) BY <1>t, <3>1
    <3>2. ASSUME NEW v \in fPage.print .. fDisk[fPage.running],
                 Form!Handled(Form!Answered(fPage, IF <<fPage.running, v>> \in LockedVersions THEN 0 ELSE v,
                                            Form!ProblemOf(fPage.running, v)))
          PROVE  \E number \in FormNumbers, problem \in BOOLEAN :
                    Form!Handled(Form!Answered(fPage, number, problem))
      <4>1. (IF <<fPage.running, v>> \in LockedVersions THEN 0 ELSE v) \in FormNumbers BY DEF FormNumbers
      <4>2. Form!ProblemOf(fPage.running, v) \in BOOLEAN
        <5> DEFINE locked == <<fPage.running, v>> \in LockedVersions
        <5>1. locked \in BOOLEAN /\ (~locked) \in BOOLEAN OBVIOUS
        <5>2. Form!ProblemOf(fPage.running, v) = IF fTool = "unlock" THEN ~locked ELSE locked
          BY DEF Form!ProblemOf
        <5> QED BY <5>1, <5>2
      <4> QED BY <3>2, <4>1, <4>2
    <3> QED BY <1>10, <3>1, <3>2 DEF Form!CheckAnswers
  <2> QED BY <1>9, <2>1, <2>2
\* The job takes the page as it is, and the password typed for its document.
<1>11. ASSUME Form!Begin(fPage), ~Form!JobRuns, fPage.input \in UserFiles,
              Form!AsksPassword => fPage.password # Form!Empty,
              ~Form!Asking', UNCHANGED <<fTool, fDisk, fModels, fVisible>>
       PROVE  FormInv'
  <2> DEFINE c == Form!ClearPasswords(fPage)
             h == [c EXCEPT !.result = Form!NoResult]
  <2>1. /\ fJob' = [path |-> fPage.input, settings |-> Form!SettingsOf(fPage),
                    password |-> fPage.password, replace |-> fPage.replace]
        /\ fPage' = Form!Changed(c)
    BY <1>11 DEF Form!Begin, Form!Changed
  <2>2. Belonging(c, fVisible) /\ Alike(fPage, c) BY <1>0, SecretsCleared
  <2> HIDE DEF c
  <2>3. Belonging(fPage', fVisible) /\ Uncovered(fPage') /\ Alike(c, fPage')
    BY <2>1, <2>2, FormChanged DEF Belonging
  <2>4. Alike(fPage, fPage') BY <2>2, <2>3 DEF Alike
  <2>5. Form!SettingsOf(fPage)' = Form!SettingsOf(fPage) BY <2>4 DEF Alike, Form!SettingsOf
  <2>6. Belonging(fPage, fVisible)' /\ Uncovered(fPage)'
    BY <1>11, <2>3 DEF Belonging, Uncovered, Form!AsksPassword, Form!Problem
  <2>7. FormJobInv'
    <3>1. Form!AsksPassword => fPage.password.for = fPage.input BY <1>0, <1>11 DEF Belonging
    <3> QED BY <1>11, <2>1, <2>4, <2>5, <3>1 DEF FormJobInv, Alike, Form!AsksPassword
  <2> QED BY <1>0, <1>11, <2>4, <2>6, <2>7 DEF FormInv, Alike
<1>12. ASSUME Form!Start PROVE FormInv'
  <2>1. /\ ~Form!JobRuns /\ ~Form!Asking /\ UNCHANGED <<fTool, fDisk, fModels, fVisible>>
        /\ fPage.input \in UserFiles /\ (Form!AsksPassword => fPage.password # Form!Empty)
    <3>1. /\ ~Form!JobRuns /\ ~Form!Asking /\ UNCHANGED <<fTool, fDisk, fModels, fVisible>>
          /\ ~Form!Blocked
      BY <1>12 DEF Form!Start, Form!AtWork
    <3>2. fPage.input \in UserFiles BY <1>0, <3>1 DEF Form!Blocked, FormPages
    <3>3. Form!AsksPassword => fPage.password.text = "valid" BY <3>1 DEF Form!Blocked, Form!PasswordReady
    <3>4. Form!Empty.text # "valid" BY DEF Form!Empty
    <3> QED BY <3>1, <3>2, <3>3, <3>4
  <2>2. CASE fPage.replace
    <3>1. UNCHANGED <<fPage, fJob>> BY <1>12, <2>2 DEF Form!Start
    <3>2. ~Form!JobRuns' BY <2>1, <3>1 DEF Form!JobRuns, Form!NoJob
    <3> QED BY <1>0, <2>1, <3>1, <3>2, ToolConstants
        DEF FormInv, Belonging, Uncovered, Form!AsksPassword, Form!Problem
  <2>3. CASE ~fPage.replace
    <3>1. Form!Begin(fPage) /\ UNCHANGED fAsked BY <1>12, <2>3 DEF Form!Start
    <3> QED BY <1>11, <2>1, <3>1 DEF Form!Asking
  <2> QED BY <2>2, <2>3
<1>13. ASSUME Form!AnswerNo \/ Form!AnswerYes PROVE FormInv'
  <2>1. /\ Form!Asking /\ fAsked' = NoUserFile /\ UNCHANGED <<fTool, fDisk, fModels, fVisible>>
        /\ ~Form!JobRuns /\ fPage.input \in UserFiles
    BY <1>0, <1>13 DEF Form!AnswerNo, Form!AnswerYes, FormPages
  <2>2. ~Form!Asking' BY <2>1 DEF Form!Asking
  <2>3. CASE UNCHANGED <<fPage, fJob>>
    <3>1. ~Form!JobRuns' BY <2>1, <2>3 DEF Form!JobRuns, Form!NoJob
    <3> QED BY <1>0, <2>1, <2>2, <2>3, <3>1
        DEF FormInv, Belonging, Uncovered, Form!AsksPassword, Form!Problem
  <2>4. CASE fPage' = [fPage EXCEPT !.result = Form!NoResult] /\ UNCHANGED fJob
    <3> DEFINE h == [fPage EXCEPT !.result = Form!NoResult]
    <3>1. /\ h \in FormPages /\ Alike(fPage, h)
          /\ h.password = fPage.password /\ h.confirm = fPage.confirm
          /\ h.pagesFor = fPage.pagesFor /\ h.queued = fPage.queued /\ h.known = fPage.known
          /\ h.result = Form!NoResult /\ h.count = fPage.count /\ h.counts = fPage.counts
      BY <1>0, <1>t DEF FormPages, Alike
    <3> HIDE DEF h
    <3>2. Belonging(h, fVisible) BY <1>0, <3>1, FormBookkeeping DEF Belonging, Alike
    <3>3. Uncovered(h) BY <1>0, <3>1 DEF Uncovered, Alike, Form!Problem
    <3>4. Belonging(fPage, fVisible)' /\ Uncovered(fPage)'
      BY <2>1, <2>4, <3>2, <3>3 DEF h, Belonging, Uncovered, Form!AsksPassword, Form!Problem
    <3>5. ~Form!JobRuns' BY <2>1, <2>4 DEF Form!JobRuns, Form!NoJob
    <3>6. fPage' = h BY <2>4 DEF h
    <3> QED BY <1>0, <2>1, <2>2, <3>1, <3>4, <3>5, <3>6 DEF FormInv, Alike
  <2>5. CASE Form!Begin(fPage) /\ fPage.password # Form!Empty
    BY <1>11, <2>1, <2>2, <2>5
  <2> QED BY <1>13, <2>3, <2>4, <2>5 DEF Form!AnswerNo, Form!AnswerYes
<1>14. ASSUME NEW ok \in BOOLEAN, Form!Finish(ok) PROVE FormInv'
  <2> DEFINE made == [path |-> fJob.path, settings |-> fJob.settings]
             h == [fPage EXCEPT !.result = made]
  <2>1. /\ Form!JobRuns /\ fJob' = Form!NoJob /\ UNCHANGED <<fTool, fModels, fVisible, fAsked>>
        /\ fPage' = Form!UpdateState(h)
        /\ fDisk' = fDisk \/ fDisk' = [fDisk EXCEPT ![fJob.path] = fDisk[fJob.path] + 1]
    BY <1>14 DEF Form!Finish
  <2>2. FormJobInv BY <1>0, <2>1
  <2>3. Form!SettingsOf(fPage) \in FormSettings BY <1>0 DEF FormPages, FormSettings, Form!SettingsOf
  <2>4. made \in FormResults /\ made.path = fPage.input /\ made.settings = Form!SettingsOf(fPage)
    BY <2>2, <2>3 DEF FormJobInv, FormResults
  <2> HIDE DEF made
  <2>5. /\ h \in FormPages /\ Alike(fPage, h)
        /\ h.password = fPage.password /\ h.confirm = fPage.confirm
        /\ h.pagesFor = fPage.pagesFor /\ h.queued = fPage.queued
        /\ h.result = made /\ h.count = fPage.count /\ h.counts = fPage.counts
    BY <1>0, <2>4 DEF FormPages, Alike
  <2> HIDE DEF h
  <2>6. Form!SettingsOf(h) = Form!SettingsOf(fPage) BY <2>5 DEF Alike, Form!SettingsOf
  <2>7. Belonging(h, fVisible) BY <1>0, <2>4, <2>5, <2>6 DEF Belonging, Alike
  <2>8. Belonging(fPage', fVisible) /\ Uncovered(fPage') /\ Alike(h, fPage') BY <2>1, <2>7, FormUpdated
  <2>9. Belonging(fPage, fVisible)' /\ Uncovered(fPage)'
    BY <2>1, <2>8 DEF Belonging, Uncovered, Form!AsksPassword, Form!Problem
  <2>10. fDisk' \in FormCounts
    <3>1. fDisk[fJob.path] \in Int BY <1>0, <2>2 DEF FormJobInv, FormCounts, FormNumbers
    <3>2. fDisk[fJob.path] + 1 \in Int BY <3>1, SMT
    <3> QED BY <1>0, <2>1, <3>2 DEF FormCounts, FormNumbers
  <2>11. ~Form!JobRuns' /\ ~Form!Asking'
    BY <1>0, <2>1 DEF Form!JobRuns, Form!NoJob, Form!Asking
  <2> QED BY <1>0, <2>1, <2>5, <2>8, <2>9, <2>10, <2>11 DEF FormInv, Alike
\* The world changes, and the page does not.
<1>15. ASSUME UNCHANGED <<fTool, fVisible, fPage, fJob, fAsked>>, fDisk' \in FormCounts,
              fModels' \subseteq Models, fModels \subseteq fModels'
       PROVE  FormInv'
  BY <1>0, <1>15
  DEF FormInv, FormJobInv, Form!JobRuns, Form!NoJob, Form!Asking, Belonging, Uncovered, Form!Problem,
      Form!AsksPassword
<1>16. ASSUME NEW p \in UserFiles, Form!Rewrite(p) PROVE FormInv'
  <2>1. fDisk[p] \in Int BY <1>0 DEF FormCounts, FormNumbers
  <2>2. fDisk[p] + 1 \in Int BY <2>1, SMT
  <2>3. fDisk' \in FormCounts BY <1>0, <1>16, <2>2 DEF Form!Rewrite, FormCounts, FormNumbers
  <2> QED BY <1>0, <1>15, <1>16, <2>3 DEF Form!Rewrite
<1>17. ASSUME NEW m \in Models, Form!InstallModel(m) PROVE FormInv'
  BY <1>0, <1>15, <1>17 DEF Form!InstallModel
<1>18. ASSUME UNCHANGED formVars PROVE FormInv'
  BY <1>0, <1>15, <1>18 DEF formVars
<1>19. CASE Form!WindowActs BY <1>1, <1>2, <1>3, <1>19 DEF Form!WindowActs
<1>20. CASE Form!UserSets BY <1>4, <1>5, <1>6, <1>7, <1>8, <1>20 DEF Form!UserSets
<1>21. CASE Form!JobGoes BY <1>12, <1>13, <1>14, <1>21 DEF Form!JobGoes
<1> QED BY <1>10, <1>16, <1>17, <1>18, <1>19, <1>20, <1>21 DEF Form!Next

LEMMA FormShows == FormInv => Form!BelongsToTheDocument
<1> SUFFICES ASSUME FormInv PROVE Form!BelongsToTheDocument OBVIOUS
<1>1. Belonging(fPage, fVisible) /\ Uncovered(fPage) BY DEF FormInv
<1>2. Form!JobRuns => FormJobInv BY DEF FormInv
<1> QED BY <1>1, <1>2 DEF Form!BelongsToTheDocument, Form!Typed, Belonging, Uncovered, FormJobInv

-----------------------------------------------------------------------------
(* Rotate pages.                                                             *)

Pictures == [path : UserFiles, page : ShownPages, turn : Nat]

RotationPages ==
  [input : UserFiles \cup {NoUserFile}, count : {0, 1}, active : ShownPages, selected : SUBSET ShownPages,
   target : {"all", "selected", "active"}, angle : Nat, turning : BOOLEAN,
   status : {"null", "loading", "ready", "error"}, failed : BOOLEAN,
   wanted : Pictures \cup {Rotation!NoPicture},
   shows : Pictures \cup {Rotation!Sentence(text) : text \in {"loading", "no document", "unavailable"}}]

\* The picture of the active page as the job would write it.
AsWritten(g, picture) ==
  /\ picture.path = g.input /\ picture.page = g.active
  /\ picture.turn = IF g.active \in Rotation!TargetPages(g) THEN g.angle ELSE 0

\* A picture is shown or asked for of a ready document only; the last asked for is as it will
\* be written, and so is the one shown when none is.
Pictured(g) ==
  /\ g.status \in {"loading", "ready"} => g.input \in UserFiles
  /\ ~g.turning => g.angle = 0
  /\ g.wanted # Rotation!NoPicture \/ g.shows \in Pictures => g.status = "ready" /\ g.count # 0
  /\ g.wanted # Rotation!NoPicture => AsWritten(g, g.wanted)
  /\ g.shows \in Pictures =>
       g.shows.path = g.input /\ (g.wanted = Rotation!NoPicture => AsWritten(g, g.shows))

Previewed == {g \in RotationPages : Pictured(g)}

RotationInv == rPage \in Previewed /\ rSelected \in UserFiles \cup {NoUserFile}

LEMMA PicturesAreNoSentences ==
  /\ Rotation!NoPicture \notin Pictures
  /\ \A text : Rotation!Sentence(text) \notin Pictures
BY ToolConstants DEF Pictures, Rotation!NoPicture, Rotation!Sentence

LEMMA AngleIsWritten ==
  ASSUME NEW g \in RotationPages, ~g.turning => g.angle = 0
  PROVE  /\ Rotation!PreviewAngle(g) = IF g.active \in Rotation!TargetPages(g) THEN g.angle ELSE 0
         /\ Rotation!PreviewAngle(g) \in Nat
BY DEF RotationPages, Rotation!PreviewAngle, Rotation!TargetPages

\* A document whose settings changed, before the preview follows.
Changed(g) ==
  /\ g \in RotationPages /\ (~g.turning => g.angle = 0)
  /\ g.status \in {"loading", "ready"} => g.input \in UserFiles
  /\ g.wanted # Rotation!NoPicture \/ g.shows \in Pictures => g.status = "ready" /\ g.count # 0
  /\ g.shows \in Pictures => g.shows.path = g.input

LEMMA RenderedIsPictured ==
  ASSUME NEW g, Changed(g)
  PROVE  Rotation!RenderPreview(g) \in Previewed
<1> DEFINE p == [path |-> g.input, page |-> g.active, turn |-> Rotation!PreviewAngle(g)]
           h == [g EXCEPT !.wanted = p]
<1>1. CASE g.input = NoUserFile \/ g.count = 0 \/ g.status # "ready"
  <2>1. Rotation!RenderPreview(g) = g BY <1>1 DEF Rotation!RenderPreview
  <2>2. g.wanted = Rotation!NoPicture /\ g.shows \notin Pictures
    BY <1>1, ToolConstants DEF Changed
  <2> QED BY <2>1, <2>2 DEF Changed, Previewed, Pictured
<1>2. CASE ~(g.input = NoUserFile \/ g.count = 0 \/ g.status # "ready")
  <2>1. Rotation!RenderPreview(g) = h BY <1>2 DEF Rotation!RenderPreview
  <2>2. p \in Pictures /\ p.path = g.input /\ p.page = g.active
        /\ p.turn = IF g.active \in Rotation!TargetPages(g) THEN g.angle ELSE 0
    BY <1>2, AngleIsWritten DEF Changed, Pictures, RotationPages
  <2> HIDE DEF p
  <2>3. /\ h \in RotationPages /\ h.wanted = p /\ h.status = g.status /\ h.input = g.input
        /\ h.count = g.count /\ h.turning = g.turning /\ h.angle = g.angle /\ h.shows = g.shows
        /\ h.active = g.active /\ h.target = g.target /\ h.selected = g.selected
    BY <2>2 DEF Changed, RotationPages
  <2> HIDE DEF h
  <2>4. Rotation!TargetPages(h) = Rotation!TargetPages(g) BY <2>3 DEF Rotation!TargetPages
  <2>5. AsWritten(h, p) BY <2>2, <2>3, <2>4 DEF AsWritten
  <2>6. p # Rotation!NoPicture BY <2>2, PicturesAreNoSentences
  <2> QED BY <1>2, <2>1, <2>3, <2>5, <2>6 DEF Changed, Previewed, Pictured
<1> QED BY <1>1, <1>2

LEMMA NothingPictured ==
  ASSUME NEW g \in RotationPages
  PROVE  /\ \A path \in UserFiles : Rotation!LoadDocument(g, path) \in Previewed
         /\ Rotation!ClearDocument(g) \in Previewed
<1> DEFINE e == Rotation!Emptied(g)
<1>1. 0 \in Nat /\ 1 \in ShownPages /\ Rotation!NoPicture \in Pictures \cup {Rotation!NoPicture}
  BY ToolConstants
<1>2. e \in RotationPages /\ e.wanted = Rotation!NoPicture /\ e.angle = 0
  BY <1>1 DEF Rotation!Emptied, RotationPages
<1> HIDE DEF e
<1> DEFINE s == Rotation!Sentence("loading")
           d == Rotation!Sentence("no document")
           l(path) == [e EXCEPT !.input = path, !.status = "loading", !.shows = s]
           c == [e EXCEPT !.input = NoUserFile, !.status = "null", !.shows = d]
<1>3. (\A path : Rotation!LoadDocument(g, path) = l(path)) /\ Rotation!ClearDocument(g) = c
  BY DEF Rotation!LoadDocument, Rotation!ClearDocument, e
<1>4. {s, d} \subseteq {Rotation!Sentence(text) : text \in {"loading", "no document", "unavailable"}}
      /\ s \notin Pictures /\ d \notin Pictures
  BY PicturesAreNoSentences
<1> HIDE DEF s, d
<1>5. ASSUME NEW path \in UserFiles PROVE l(path) \in Previewed
  <2> DEFINE m == l(path)
  <2>1. m \in RotationPages /\ m.shows = s /\ m.wanted = Rotation!NoPicture /\ m.angle = 0 /\ m.input = path
    BY <1>2, <1>4 DEF RotationPages
  <2> HIDE DEF m
  <2>2. m \in Previewed BY <1>4, <2>1 DEF Previewed, Pictured
  <2> QED BY <2>2 DEF m
<1>6. c \in RotationPages /\ c.shows = d /\ c.wanted = Rotation!NoPicture /\ c.angle = 0 /\ c.status = "null"
  BY <1>2, <1>4 DEF RotationPages
<1> HIDE DEF l, c
<1>8. c \in Previewed BY <1>4, <1>6 DEF Previewed, Pictured
<1> QED BY <1>3, <1>5, <1>8

LEMMA TakenIsPictured ==
  ASSUME NEW g \in Previewed, NEW path \in UserFiles \cup {NoUserFile}
  PROVE  Rotation!TakeDocument(g, path) \in Previewed /\ Rotation!Synced(g, path) \in Previewed
<1>1. g \in RotationPages BY DEF Previewed
<1>2. /\ \A p \in UserFiles : Rotation!LoadDocument(g, p) \in Previewed
      /\ Rotation!ClearDocument(g) \in Previewed
  BY <1>1, NothingPictured
<1> QED BY <1>2 DEF Rotation!TakeDocument, Rotation!Synced

LEMMA RotationInit == Rotation!Init => RotationInv
<1> SUFFICES ASSUME Rotation!Init PROVE RotationInv OBVIOUS
<1>1. rPage \in RotationPages
  BY ToolConstants DEF Rotation!Init, RotationPages
<1>2. rPage.shows \notin Pictures /\ rPage.wanted = Rotation!NoPicture /\ rPage.angle = 0 /\ rPage.status = "null"
  BY PicturesAreNoSentences DEF Rotation!Init
<1> QED BY <1>1, <1>2 DEF Rotation!Init, RotationInv, Previewed, Pictured

LEMMA RotationStep == RotationInv /\ [Rotation!Next]_rotationVars => RotationInv'
<1> SUFFICES ASSUME RotationInv, [Rotation!Next]_rotationVars PROVE RotationInv' OBVIOUS
<1>0. rPage \in Previewed /\ rPage \in RotationPages /\ Pictured(rPage) /\ rSelected \in UserFiles \cup {NoUserFile}
  BY DEF RotationInv, Previewed
<1>1. ASSUME NEW path \in UserFiles, Rotation!HandleFiles(path) PROVE RotationInv'
  BY <1>0, <1>1, NothingPictured DEF Rotation!HandleFiles, Rotation!Handled, RotationInv
<1>2. ASSUME NEW path \in UserFiles \cup {NoUserFile}, Rotation!Select(path) PROVE RotationInv'
  BY <1>0, <1>2, TakenIsPictured DEF Rotation!Select, Rotation!Handled, RotationInv
<1>3. ASSUME Rotation!Refresh \/ Rotation!ShowPage PROVE RotationInv'
  <2>1. NoUserFile \in UserFiles \cup {NoUserFile} OBVIOUS
  <2>2. Rotation!Synced(rPage, rSelected) \in Previewed BY <1>0, TakenIsPictured
  <2>3. Rotation!TakeDocument(Rotation!Synced(rPage, rSelected), rSelected) \in Previewed
    BY <1>0, <2>2, TakenIsPictured
  <2> QED BY <1>0, <1>3, <2>1, <2>2, <2>3, TakenIsPictured
       DEF Rotation!Refresh, Rotation!ShowPage, Rotation!Handled, RotationInv
<1>4. ASSUME NEW ok \in BOOLEAN, Rotation!Loaded(ok) PROVE RotationInv'
  <2> DEFINE u == Rotation!Sentence("unavailable")
             r == [rPage EXCEPT !.status = "ready", !.count = 1]
             e == [rPage EXCEPT !.status = "error", !.failed = TRUE, !.shows = u]
  <2>1. rPage.input \in UserFiles /\ rPage.wanted = Rotation!NoPicture /\ rPage.shows \notin Pictures
    BY <1>0, <1>4 DEF Rotation!Loaded, Pictured
  <2>2. /\ r \in RotationPages /\ r.input = rPage.input /\ r.wanted = rPage.wanted /\ r.shows = rPage.shows
        /\ r.turning = rPage.turning /\ r.angle = rPage.angle
    BY <1>0 DEF RotationPages
  <2>3. Changed(r) BY <1>0, <2>1, <2>2 DEF Changed, Pictured
  <2>4. u \notin Pictures /\ u \in {Rotation!Sentence(text) : text \in {"loading", "no document", "unavailable"}}
    BY PicturesAreNoSentences
  <2>5. rPage' = IF ok THEN Rotation!RenderPreview(r) ELSE e
    BY <1>4 DEF Rotation!Loaded, Rotation!Handled
  <2> HIDE DEF u, r
  <2>6. /\ e \in RotationPages /\ e.status = "error" /\ e.wanted = rPage.wanted /\ e.shows = u
        /\ e.turning = rPage.turning /\ e.angle = rPage.angle
    BY <1>0, <2>4 DEF RotationPages
  <2> HIDE DEF e
  <2>7. e \in Previewed BY <1>0, <2>1, <2>4, <2>6 DEF Previewed, Pictured
  <2>8. rPage' \in Previewed BY <2>3, <2>5, <2>7, RenderedIsPictured
  <2> QED BY <1>0, <1>4, <2>8 DEF Rotation!Loaded, RotationInv
<1>5. ASSUME NEW ok \in BOOLEAN, Rotation!PreviewRendered(ok) PROVE RotationInv'
  <2> DEFINE u == Rotation!Sentence("unavailable")
             s == IF ok THEN rPage.wanted ELSE u
             r == [rPage EXCEPT !.wanted = Rotation!NoPicture, !.shows = s]
  <2>1. rPage.wanted \in Pictures /\ AsWritten(rPage, rPage.wanted) /\ rPage.status = "ready" /\ rPage.count # 0
    BY <1>0, <1>5 DEF Rotation!PreviewRendered, Pictured, RotationPages
  <2>2. u \notin Pictures /\ u \in {Rotation!Sentence(text) : text \in {"loading", "no document", "unavailable"}}
    BY PicturesAreNoSentences
  <2>3. rPage' = r BY <1>5 DEF Rotation!PreviewRendered
  <2>4. s \in Pictures \cup {Rotation!Sentence(text) : text \in {"loading", "no document", "unavailable"}}
        /\ (s \in Pictures => AsWritten(rPage, s))
    BY <2>1, <2>2
  <2> HIDE DEF u, s
  <2>5. /\ r \in RotationPages /\ r.wanted = Rotation!NoPicture /\ r.shows = s /\ r.status = rPage.status
        /\ r.input = rPage.input /\ r.count = rPage.count /\ r.turning = rPage.turning /\ r.angle = rPage.angle
        /\ r.active = rPage.active /\ r.target = rPage.target /\ r.selected = rPage.selected
    BY <1>0, <2>4 DEF RotationPages
  <2> HIDE DEF r
  <2>6. Rotation!TargetPages(r) = Rotation!TargetPages(rPage) BY <2>5 DEF Rotation!TargetPages
  <2>7. s \in Pictures => s.path = r.input /\ AsWritten(r, s) BY <2>4, <2>5, <2>6 DEF AsWritten
  <2>8. r \in Previewed BY <1>0, <2>1, <2>5, <2>7 DEF Previewed, Pictured
  <2> QED BY <1>0, <1>5, <2>3, <2>8 DEF Rotation!PreviewRendered, RotationInv
<1>6. ASSUME Rotation!LateAnswer PROVE RotationInv'
  BY <1>0, <1>6 DEF Rotation!LateAnswer, Rotation!Ignored, RotationInv
\* A setting changes, or another page becomes the active one: the preview follows.
<1>7. ASSUME NEW g, g \in RotationPages, ~g.turning => g.angle = 0,
             g.input = rPage.input, g.status = rPage.status, g.count = rPage.count,
             g.wanted = rPage.wanted, g.shows = rPage.shows
      PROVE  Rotation!RenderPreview(g) \in Previewed
  BY <1>0, <1>7, RenderedIsPictured DEF Changed, Pictured
<1>8. ASSUME NEW turn \in {1, FullTurn - 1}, Rotation!Turn(turn) PROVE RotationInv'
  <2> DEFINE n == (rPage.angle + turn) % FullTurn
             g == [rPage EXCEPT !.angle = n, !.turning = TRUE]
  <2>1. rPage' = Rotation!RenderPreview(g) /\ UNCHANGED rSelected
    BY <1>8 DEF Rotation!Turn, Rotation!Set, Rotation!Handled, Rotation!OptionsChanged
  <2>2. rPage.angle \in Nat BY <1>0 DEF RotationPages
  <2>3. n \in Nat BY <2>2, ToolConstants, SMT
  <2> HIDE DEF n
  <2>4. /\ g \in RotationPages /\ g.turning /\ g.input = rPage.input /\ g.status = rPage.status
        /\ g.count = rPage.count /\ g.wanted = rPage.wanted /\ g.shows = rPage.shows
    BY <1>0, <2>3 DEF RotationPages
  <2> HIDE DEF g
  <2> QED BY <1>0, <1>7, <2>1, <2>4 DEF RotationInv
<1>9. ASSUME NEW t \in {"all", "selected", "active"}, Rotation!ChooseTarget(t) PROVE RotationInv'
  <2> DEFINE g == [rPage EXCEPT !.target = t]
  <2>1. rPage' = Rotation!RenderPreview(g) /\ UNCHANGED rSelected
    BY <1>9 DEF Rotation!ChooseTarget, Rotation!Set, Rotation!Handled, Rotation!OptionsChanged
  <2>2. /\ g \in RotationPages /\ g.turning = rPage.turning /\ g.angle = rPage.angle
        /\ g.input = rPage.input /\ g.status = rPage.status
        /\ g.count = rPage.count /\ g.wanted = rPage.wanted /\ g.shows = rPage.shows
    BY <1>0 DEF RotationPages
  <2> HIDE DEF g
  <2> QED BY <1>0, <1>7, <2>1, <2>2 DEF RotationInv, Pictured
<1>10. ASSUME NEW S \in SUBSET ShownPages, Rotation!SelectPages(S) PROVE RotationInv'
  <2> DEFINE g == [rPage EXCEPT !.selected = S]
  <2>1. rPage' = Rotation!RenderPreview(g) /\ UNCHANGED rSelected
    BY <1>10 DEF Rotation!SelectPages, Rotation!Set, Rotation!Handled, Rotation!OptionsChanged
  <2>2. /\ g \in RotationPages /\ g.turning = rPage.turning /\ g.angle = rPage.angle
        /\ g.input = rPage.input /\ g.status = rPage.status
        /\ g.count = rPage.count /\ g.wanted = rPage.wanted /\ g.shows = rPage.shows
    BY <1>0 DEF RotationPages
  <2> HIDE DEF g
  <2> QED BY <1>0, <1>7, <2>1, <2>2 DEF RotationInv, Pictured
<1>11. ASSUME NEW n \in ShownPages, Rotation!Activate(n) PROVE RotationInv'
  <2> DEFINE g == [rPage EXCEPT !.active = n]
  <2>1. rPage' = Rotation!RenderPreview(g) /\ UNCHANGED rSelected
    BY <1>11 DEF Rotation!Activate, Rotation!ActivePage, Rotation!Handled
  <2>2. /\ g \in RotationPages /\ g.turning = rPage.turning /\ g.angle = rPage.angle
        /\ g.input = rPage.input /\ g.status = rPage.status
        /\ g.count = rPage.count /\ g.wanted = rPage.wanted /\ g.shows = rPage.shows
    BY <1>0 DEF RotationPages
  <2> HIDE DEF g
  <2> QED BY <1>0, <1>7, <2>1, <2>2 DEF RotationInv, Pictured
<1>12. ASSUME UNCHANGED <<rPage, rSelected>> PROVE RotationInv'
  BY <1>0, <1>12 DEF RotationInv
<1>13. ASSUME Rotation!WindowActs PROVE RotationInv'
  <2>1. ASSUME NEW p \in Saved, Rotation!Rewrite(p) PROVE UNCHANGED <<rPage, rSelected>>
    BY <2>1 DEF Rotation!Rewrite
  <2> QED BY <1>1, <1>2, <1>3, <1>12, <1>13, <2>1 DEF Rotation!WindowActs, Rotation!LeavePage
<1>14. ASSUME Rotation!Answers PROVE RotationInv'
  BY <1>4, <1>5, <1>6, <1>12, <1>14 DEF Rotation!Answers, Rotation!CheckAnswers
<1>15. ASSUME Rotation!UserSets PROVE RotationInv'
  BY <1>8, <1>9, <1>10, <1>11, <1>15 DEF Rotation!UserSets
<1>16. ASSUME Rotation!StartRotation \/ Rotation!RotationFinished \/ UNCHANGED rotationVars
       PROVE  RotationInv'
  BY <1>12, <1>16 DEF Rotation!StartRotation, Rotation!RotationFinished, rotationVars
<1> QED BY <1>13, <1>14, <1>15, <1>16 DEF Rotation!Next

LEMMA RotationShows == RotationInv => Rotation!PreviewIsTheRotation
<1> SUFFICES ASSUME RotationInv, rPage.shows.path # NoUserFile
             PROVE  rPage.shows.path = rPage.input
                    /\ (rPage.wanted = Rotation!NoPicture => AsWritten(rPage, rPage.shows))
  BY DEF Rotation!PreviewIsTheRotation, AsWritten
<1>1. rPage \in RotationPages /\ Pictured(rPage) BY DEF RotationInv, Previewed
<1>2. \A text : Rotation!Sentence(text).path = NoUserFile BY DEF Rotation!Sentence
<1>3. rPage.shows \in Pictures
  <2>1. rPage.shows \in
          Pictures \cup {Rotation!Sentence(text) : text \in {"loading", "no document", "unavailable"}}
    BY <1>1 DEF RotationPages
  <2>2. \A text : rPage.shows # Rotation!Sentence(text) BY <1>2
  <2> QED BY <2>1, <2>2
<1> QED BY <1>1, <1>3 DEF Pictured

-----------------------------------------------------------------------------
(* Insert pages.                                                             *)

Sides == {"first", "second"}
Counts == (UserFiles \X Nat) \cup {Insertion!NoCount}

InsertionPages ==
  [input : [Sides -> UserFiles \cup {NoUserFile}], count : [Sides -> Counts],
   queued : [Sides -> UserFiles \cup {NoUserFile}], running : [Sides -> UserFiles \cup {NoUserFile}],
   print : [Sides -> Nat], filed : [Sides -> [UserFiles -> Nat]],
   chosen : SUBSET Nat, position : Nat]

\* The count of a side is of its input; the one under way is of its input too, or its input
\* waits.
SideFits(g, side) ==
  /\ g.count[side] # Insertion!NoCount => g.count[side][1] = g.input[side] /\ g.running[side] = NoUserFile
  /\ g.running[side] = NoUserFile => g.queued[side] = NoUserFile
  /\ g.running[side] # NoUserFile =>
       \/ g.queued[side] = g.input[side] /\ g.queued[side] # NoUserFile
       \/ g.queued[side] = NoUserFile /\ g.running[side] = g.input[side]

PlanFits(g) ==
  /\ g.chosen \subseteq 1 .. g.count["second"][2]
  /\ g.count["first"] # Insertion!NoCount => g.position <= g.count["first"][2]

Fitting == {g \in InsertionPages : (\A side \in Sides : SideFits(g, side)) /\ PlanFits(g)}

InsertionInv ==
  /\ iDisk \in [UserFiles -> Nat] /\ iDocuments \subseteq UserFiles /\ iSelected \in UserFiles \cup {NoUserFile}
  /\ iPage \in Fitting
  /\ Insertion!JobRuns => iJob.files[1] # iJob.files[2] /\ iJob.pages # {}

LEMMA NothingCounted ==
  /\ Insertion!NoCount[1] = NoUserFile /\ Insertion!NoCount[2] = 0 /\ 1 .. 0 = {}
  /\ NoUserFile \notin UserFiles
  /\ \A path \in UserFiles : \A version : <<path, version>> # Insertion!NoCount
BY ToolConstants DEF Insertion!NoCount

\* A function of the sides changed at one.
LEMMA OneSideChanged ==
  ASSUME NEW T, NEW f \in [Sides -> T], NEW side \in Sides, NEW value \in T
  PROVE  /\ [f EXCEPT ![side] = value] \in [Sides -> T]
         /\ [f EXCEPT ![side] = value][side] = value
         /\ \A other \in Sides \ {side} : [f EXCEPT ![side] = value][other] = f[other]
OBVIOUS

LEMMA StartedFits ==
  ASSUME NEW g \in InsertionPages, NEW side \in Sides, NEW path \in UserFiles,
         iDisk \in [UserFiles -> Nat],
         PlanFits(g), \A other \in Sides \ {side} : SideFits(g, other),
         g.count[side] = Insertion!NoCount, g.queued[side] = NoUserFile, g.input[side] = path
  PROVE  Insertion!StartCount(g, side, path) \in Fitting
<1> DEFINE r == [g.running EXCEPT ![side] = path]
           p == [g.print EXCEPT ![side] = iDisk[path]]
           h == [g EXCEPT !.running = r, !.print = p]
<1>1. Insertion!StartCount(g, side, path) = h BY DEF Insertion!StartCount, InsertionPages
<1>2. /\ r \in [Sides -> UserFiles \cup {NoUserFile}] /\ r[side] = path
      /\ \A other \in Sides \ {side} : r[other] = g.running[other]
  BY DEF InsertionPages
<1>3. p \in [Sides -> Nat] BY DEF InsertionPages
<1> HIDE DEF r, p
<1>4. /\ h \in InsertionPages /\ h.running = r /\ h.count = g.count /\ h.queued = g.queued
      /\ h.input = g.input /\ h.chosen = g.chosen /\ h.position = g.position
  BY <1>2, <1>3 DEF InsertionPages
<1> HIDE DEF h
<1>5. SideFits(h, side) BY <1>2, <1>4, NothingCounted DEF SideFits
<1>6. \A other \in Sides \ {side} : SideFits(h, other) BY <1>2, <1>4 DEF SideFits
<1>7. PlanFits(h) BY <1>4 DEF PlanFits
<1> QED BY <1>1, <1>4, <1>5, <1>6, <1>7 DEF Fitting

LEMMA PathFits ==
  ASSUME NEW g \in Fitting, NEW side \in Sides, NEW path \in UserFiles, iDisk \in [UserFiles -> Nat]
  PROVE  Insertion!SetPath(g, side, path) \in Fitting
<1> DEFINE i == [g.input EXCEPT ![side] = path]
           c == [g.count EXCEPT ![side] = Insertion!NoCount]
           taken == [g EXCEPT !.input = i, !.count = c]
           t == Insertion!ForgetPlan(taken, side)
           q == [t.queued EXCEPT ![side] = path]
           w == [t EXCEPT !.queued = q]
<1>0. g \in InsertionPages /\ PlanFits(g) /\ \A s \in Sides : SideFits(g, s) BY DEF Fitting
<1>1. /\ i \in [Sides -> UserFiles \cup {NoUserFile}] /\ i[side] = path
      /\ \A other \in Sides \ {side} : i[other] = g.input[other]
  BY <1>0 DEF InsertionPages
<1>2. /\ c \in [Sides -> Counts] /\ c[side] = Insertion!NoCount
      /\ \A other \in Sides \ {side} : c[other] = g.count[other]
  BY <1>0 DEF InsertionPages, Counts
<1>3. Insertion!SetPath(g, side, path) = IF t.running[side] # NoUserFile THEN w
                                         ELSE Insertion!StartCount(t, side, path)
  BY <1>0 DEF Insertion!SetPath, InsertionPages
<1> HIDE DEF i, c
<1>4. /\ taken \in InsertionPages /\ taken.input = i /\ taken.count = c /\ taken.queued = g.queued
      /\ taken.running = g.running /\ taken.chosen = g.chosen /\ taken.position = g.position
  BY <1>0, <1>1, <1>2 DEF InsertionPages
<1> HIDE DEF taken
<1>5. /\ t \in InsertionPages /\ t.input = i /\ t.count = c /\ t.queued = g.queued
      /\ t.running = g.running /\ t.position = g.position
      /\ t.chosen = IF side = "second" THEN {} ELSE g.chosen
  BY <1>4 DEF InsertionPages, Insertion!ForgetPlan
<1> HIDE DEF t
<1>6. /\ q \in [Sides -> UserFiles \cup {NoUserFile}] /\ q[side] = path
      /\ \A other \in Sides \ {side} : q[other] = g.queued[other]
  BY <1>0, <1>5 DEF InsertionPages
<1> HIDE DEF q
<1>7. PlanFits(t) BY <1>0, <1>2, <1>5 DEF PlanFits, Sides
<1>8. \A other \in Sides \ {side} : SideFits(t, other) BY <1>0, <1>1, <1>2, <1>5 DEF SideFits
<1>9. CASE t.running[side] # NoUserFile
  <2>1. /\ w \in InsertionPages /\ w.input = i /\ w.count = c /\ w.queued = q
        /\ w.running = t.running /\ w.chosen = t.chosen /\ w.position = t.position
    BY <1>5, <1>6 DEF InsertionPages
  <2> HIDE DEF w
  <2>2. SideFits(w, side)
    <3>1. w.queued[side] = path /\ w.input[side] = path /\ path # NoUserFile BY <1>1, <1>6, <2>1, NothingCounted
    <3>2. w.count[side] = Insertion!NoCount /\ w.running[side] # NoUserFile BY <1>2, <1>9, <2>1
    <3> QED BY <3>1, <3>2 DEF SideFits
  <2>3. \A other \in Sides \ {side} : SideFits(w, other) BY <1>5, <1>6, <1>8, <2>1 DEF SideFits
  <2>4. PlanFits(w) BY <1>5, <1>7, <2>1 DEF PlanFits
  <2> QED BY <1>3, <1>9, <2>1, <2>2, <2>3, <2>4 DEF Fitting
<1>10. CASE t.running[side] = NoUserFile
  <2>1. t.queued[side] = NoUserFile BY <1>0, <1>5, <1>10 DEF SideFits
  <2> QED BY <1>1, <1>2, <1>3, <1>5, <1>7, <1>8, <1>10, <2>1, StartedFits
<1> QED BY <1>9, <1>10

LEMMA GivenFits ==
  ASSUME NEW g \in Fitting, NEW path \in UserFiles \cup {NoUserFile}, iDisk \in [UserFiles -> Nat],
         iDocuments \subseteq UserFiles
  PROVE  /\ path \in UserFiles => Insertion!TakeFirst(g, path) \in Fitting
         /\ Insertion!Refreshes(g, path) \subseteq Fitting
<1>1. "first" \in Sides /\ "second" \in Sides BY DEF Sides
<1>2. path \in UserFiles => Insertion!TakeFirst(g, path) \in Fitting
  BY <1>1, PathFits DEF Insertion!TakeFirst
<1>3. Insertion!TakeDocument(g, path) \subseteq Fitting
  <2>1. CASE path = NoUserFile BY <2>1 DEF Insertion!TakeDocument
  <2>2. CASE path # NoUserFile
    <3> DEFINE first == Insertion!TakeFirst(g, path)
    <3>1. first \in Fitting BY <1>2, <2>2
    <3>2. Insertion!TakeDocument(g, path)
            \subseteq {first} \cup {Insertion!SetPath(first, "second", p) : p \in iDocuments \ {path}}
      BY <2>2 DEF Insertion!TakeDocument
    <3> HIDE DEF first
    <3>3. \A p \in iDocuments : Insertion!SetPath(first, "second", p) \in Fitting
      BY <1>1, <3>1, PathFits
    <3> QED BY <3>1, <3>2, <3>3
  <2> QED BY <2>1, <2>2
<1> QED BY <1>2, <1>3 DEF Insertion!Refreshes

\* The count of a side that is answered: its runner is free and nothing waits.
LEMMA CountedFits ==
  ASSUME NEW g \in InsertionPages, NEW side \in Sides, NEW path \in UserFiles, NEW version \in Nat,
         g.input[side] = path, g.running[side] = NoUserFile, g.queued[side] = NoUserFile,
         PlanFits(g), \A other \in Sides \ {side} : SideFits(g, other)
  PROVE  Insertion!CountedAs(g, side, path, version) \in Fitting
<1> DEFINE c == [g.count EXCEPT ![side] = <<path, version>>]
           told == [g EXCEPT !.count = c]
<1>1. /\ c \in [Sides -> Counts] /\ c[side] = <<path, version>>
      /\ \A other \in Sides \ {side} : c[other] = g.count[other]
  BY DEF InsertionPages, Counts
<1>2. Insertion!CountedAs(g, side, path, version) =
        IF side = "first" THEN Insertion!Populate(told) ELSE [told EXCEPT !.chosen = 1 .. version]
  BY DEF Insertion!CountedAs, InsertionPages
<1> HIDE DEF c
<1>3. /\ told \in InsertionPages /\ told.count = c /\ told.input = g.input /\ told.queued = g.queued
      /\ told.running = g.running /\ told.chosen = g.chosen /\ told.position = g.position
  BY <1>1 DEF InsertionPages
<1> HIDE DEF told
<1>4. CASE side = "first"
  <2> DEFINE n == IF told.position > told.count["first"][2] THEN told.count["first"][2] ELSE told.position
             h == [told EXCEPT !.position = n]
  <2>1. Insertion!Populate(told) = h BY <1>3 DEF Insertion!Populate, InsertionPages
  <2>2. told.position \in Nat /\ told.count["first"][2] = version /\ told.count["second"] = g.count["second"]
    BY <1>1, <1>3, <1>4 DEF InsertionPages, Sides
  <2>3. n \in Nat /\ n <= version BY <2>2, SMT
  <2> HIDE DEF n
  <2>4. /\ h \in InsertionPages /\ h.count = c /\ h.input = g.input /\ h.queued = g.queued
        /\ h.running = g.running /\ h.chosen = g.chosen /\ h.position = n
    BY <1>3, <2>3 DEF InsertionPages
  <2> HIDE DEF h
  <2>5. PlanFits(h) BY <1>3, <2>2, <2>3, <2>4 DEF PlanFits
  <2>6. \A s \in Sides : SideFits(h, s) BY <1>1, <2>4, NothingCounted DEF SideFits
  <2> QED BY <1>2, <1>4, <2>1, <2>4, <2>5, <2>6 DEF Fitting
<1>5. CASE side = "second"
  <2> DEFINE h == [told EXCEPT !.chosen = 1 .. version]
  <2>1. 1 .. version \subseteq Nat BY SMT
  <2>2. /\ h \in InsertionPages /\ h.count = c /\ h.input = g.input /\ h.queued = g.queued
        /\ h.running = g.running /\ h.chosen = 1 .. version /\ h.position = g.position
    BY <1>3, <2>1 DEF InsertionPages
  <2>3. Insertion!CountedAs(g, side, path, version) = h BY <1>2, <1>5
  <2> HIDE DEF h
  <2>4. h.count["second"][2] = version /\ h.count["first"] = g.count["first"]
    BY <1>1, <1>5, <2>2 DEF Sides
  <2>5. PlanFits(h) BY <2>2, <2>4 DEF PlanFits
  <2>6. \A s \in Sides : SideFits(h, s) BY <1>1, <2>2, NothingCounted DEF SideFits
  <2> QED BY <2>2, <2>3, <2>5, <2>6 DEF Fitting
<1> QED BY <1>4, <1>5 DEF Sides

LEMMA UncountedFits ==
  ASSUME NEW g \in InsertionPages, NEW side \in Sides,
         g.running[side] = NoUserFile, g.queued[side] = NoUserFile, g.count[side] = Insertion!NoCount,
         PlanFits(g), \A other \in Sides \ {side} : SideFits(g, other)
  PROVE  Insertion!Uncounted(g, side) \in Fitting
<1>1. [g.count EXCEPT ![side] = Insertion!NoCount] = g.count BY DEF InsertionPages
<1>2. Insertion!Uncounted(g, side) = [g EXCEPT !.count = g.count]
  BY <1>1 DEF Insertion!Uncounted, InsertionPages
<1>3. Insertion!Uncounted(g, side) = g BY <1>2 DEF InsertionPages
<1>4. SideFits(g, side) BY DEF SideFits
<1> QED BY <1>3, <1>4 DEF Fitting

LEMMA AnsweredFits ==
  ASSUME NEW g \in Fitting, NEW side \in Sides, NEW version \in Nat, NEW ok \in BOOLEAN,
         g.running[side] \in UserFiles, iDisk \in [UserFiles -> Nat]
  PROVE  Insertion!Answer(g, side, g.running[side], version, ok) \in Fitting
<1> DEFINE path == g.running[side]
           next == g.queued[side]
           r == [g.running EXCEPT ![side] = NoUserFile]
           q == [g.queued EXCEPT ![side] = NoUserFile]
           f == [g.filed EXCEPT ![side][path] = iDisk[path]]
           free == [g EXCEPT !.running = r, !.queued = q, !.filed = f]
           counted == Insertion!CountedAs(free, side, path, version)
           none == Insertion!Uncounted(free, side)
<1>0. g \in InsertionPages /\ PlanFits(g) /\ \A s \in Sides : SideFits(g, s) BY DEF Fitting
<1>1. Insertion!Answer(g, side, path, version, ok) =
        IF g.input[side] # path THEN Insertion!Restarted(free, side, next)
        ELSE Insertion!Restarted(IF ok THEN counted ELSE none, side, IF next = path THEN NoUserFile ELSE next)
  BY <1>0 DEF Insertion!Answer, InsertionPages
<1>2. /\ r \in [Sides -> UserFiles \cup {NoUserFile}] /\ r[side] = NoUserFile
      /\ \A other \in Sides \ {side} : r[other] = g.running[other]
  BY <1>0 DEF InsertionPages
<1>3. /\ q \in [Sides -> UserFiles \cup {NoUserFile}] /\ q[side] = NoUserFile
      /\ \A other \in Sides \ {side} : q[other] = g.queued[other]
  BY <1>0 DEF InsertionPages
<1>4. f \in [Sides -> [UserFiles -> Nat]] BY <1>0 DEF InsertionPages
<1>5. path \in UserFiles /\ path # NoUserFile BY ToolConstants
<1> HIDE DEF r, q, f, path
<1>6. /\ free \in InsertionPages /\ free.running = r /\ free.queued = q /\ free.input = g.input
      /\ free.count = g.count /\ free.chosen = g.chosen /\ free.position = g.position
  BY <1>0, <1>2, <1>3, <1>4 DEF InsertionPages
<1> HIDE DEF free
<1>7. PlanFits(free) BY <1>0, <1>6 DEF PlanFits
<1>8. \A other \in Sides \ {side} : SideFits(free, other) BY <1>0, <1>2, <1>3, <1>6 DEF SideFits
<1>9. g.count[side] = Insertion!NoCount BY <1>0, <1>5 DEF SideFits, path
<1>10. CASE g.input[side] # path
  <2>1. next = g.input[side] /\ next # NoUserFile
    <3>1. g.running[side] = path /\ g.running[side] # NoUserFile BY <1>5 DEF path
    <3>2. SideFits(g, side) BY <1>0
    <3>3. g.queued[side] = g.input[side] /\ g.queued[side] # NoUserFile BY <1>10, <3>1, <3>2 DEF SideFits
    <3> QED BY <3>3
  <2>2. next \in UserFiles BY <1>0, <2>1 DEF InsertionPages
  <2>3. Insertion!Answer(g, side, path, version, ok) = Insertion!StartCount(free, side, next)
    BY <1>1, <1>10, <2>1 DEF Insertion!Restarted
  <2>4. Insertion!StartCount(free, side, next) \in Fitting
    BY <1>3, <1>6, <1>7, <1>8, <1>9, <2>1, <2>2, StartedFits
  <2> QED BY <2>3, <2>4 DEF path
<1>11. CASE g.input[side] = path
  <2>1. next \in {NoUserFile, path} BY <1>0, <1>5, <1>11 DEF SideFits, path
  <2>2. Insertion!Answer(g, side, path, version, ok) = IF ok THEN counted ELSE none
    BY <1>1, <1>11, <2>1 DEF Insertion!Restarted
  <2>3. counted \in Fitting BY <1>2, <1>3, <1>5, <1>6, <1>7, <1>8, <1>11, CountedFits
  <2>4. none \in Fitting BY <1>2, <1>3, <1>6, <1>7, <1>8, <1>9, UncountedFits
  <2> QED BY <2>2, <2>3, <2>4 DEF path
<1> QED BY <1>10, <1>11

LEMMA InsertionInit == Insertion!Init => InsertionInv
<1> SUFFICES ASSUME Insertion!Init PROVE InsertionInv OBVIOUS
<1>1. iPage \in InsertionPages
  BY DEF Insertion!Init, InsertionPages, Counts, Sides, Insertion!Sides
<1>2. \A s \in Sides : SideFits(iPage, s) BY DEF Insertion!Init, Sides, Insertion!Sides, SideFits
<1>3. PlanFits(iPage) BY DEF Insertion!Init, PlanFits, Insertion!Sides
<1> QED BY <1>1, <1>2, <1>3 DEF Insertion!Init, InsertionInv, Fitting, Insertion!JobRuns

LEMMA InsertionStep == InsertionInv /\ [Insertion!Next]_insertionVars => InsertionInv'
<1> SUFFICES ASSUME InsertionInv, [Insertion!Next]_insertionVars PROVE InsertionInv' OBVIOUS
<1>0. /\ iDisk \in [UserFiles -> Nat] /\ iDocuments \subseteq UserFiles /\ iSelected \in UserFiles \cup {NoUserFile}
      /\ iPage \in Fitting /\ iPage \in InsertionPages /\ PlanFits(iPage)
      /\ \A s \in Sides : SideFits(iPage, s)
      /\ Insertion!JobRuns => iJob.files[1] # iJob.files[2] /\ iJob.pages # {}
  BY DEF InsertionInv, Fitting
<1>s. "first" \in Sides /\ "second" \in Sides BY DEF Sides
<1>1. ASSUME iPage' \in Fitting, iDocuments' \subseteq UserFiles, iSelected' \in UserFiles \cup {NoUserFile},
             UNCHANGED <<iDisk, iJob>>
      PROVE  InsertionInv'
  BY <1>0, <1>1 DEF InsertionInv, Insertion!JobRuns, Insertion!NoJob
<1>2. ASSUME NEW p \in UserFiles, Insertion!HandleFirst(p) \/ Insertion!HandleSecond(p) \/ Insertion!Select(p)
      PROVE  InsertionInv'
  <2>1. iDocuments' \subseteq UserFiles /\ iSelected' \in UserFiles \cup {NoUserFile} /\ UNCHANGED <<iDisk, iJob>>
    BY <1>0, <1>2 DEF Insertion!HandleFirst, Insertion!HandleSecond, Insertion!Select
  <2>2. iPage' \in Fitting
    BY <1>0, <1>2, <1>s, PathFits, GivenFits
    DEF Insertion!HandleFirst, Insertion!HandleSecond, Insertion!Select
  <2> QED BY <1>1, <2>1, <2>2
<1>3. ASSUME Insertion!Refresh PROVE InsertionInv'
  BY <1>0, <1>1, <1>3, GivenFits DEF Insertion!Refresh
<1>4. ASSUME Insertion!ShowPage PROVE InsertionInv'
  <2>1. PICK g \in Insertion!Refreshes(iPage, iSelected) :
          IF iSelected = NoUserFile THEN iPage' = g
          ELSE \/ iPage' = Insertion!TakeFirst(g, iSelected)
               \/ \E p \in iDocuments \ {iSelected} :
                    iPage' = IF g.input["second"] = p THEN Insertion!TakeFirst(g, iSelected)
                             ELSE Insertion!SetPath(Insertion!TakeFirst(g, iSelected), "second", p)
    BY <1>4 DEF Insertion!ShowPage
  <2>2. g \in Fitting BY <1>0, GivenFits
  <2>3. iSelected \in UserFiles => Insertion!TakeFirst(g, iSelected) \in Fitting BY <1>0, <2>2, GivenFits
  <2>4. ASSUME iSelected \in UserFiles, NEW p \in iDocuments
        PROVE  Insertion!SetPath(Insertion!TakeFirst(g, iSelected), "second", p) \in Fitting
    BY <1>0, <1>s, <2>3, <2>4, PathFits
  <2>5. iPage' \in Fitting BY <1>0, <2>1, <2>2, <2>3, <2>4
  <2> QED BY <1>0, <1>1, <1>4, <2>5 DEF Insertion!ShowPage
<1>5. ASSUME Insertion!LeavePage PROVE InsertionInv'
  BY <1>0, <1>1, <1>5 DEF Insertion!LeavePage
<1>6. ASSUME NEW p \in UserFiles, Insertion!Rewrite(p) PROVE InsertionInv'
  <2>1. iDisk[p] + 1 \in Nat BY <1>0, SMT
  <2>2. iDisk' \in [UserFiles -> Nat] BY <1>0, <1>6, <2>1 DEF Insertion!Rewrite
  <2> QED BY <1>0, <1>6, <2>2 DEF Insertion!Rewrite, InsertionInv, Insertion!JobRuns, Insertion!NoJob
<1>7. ASSUME NEW side \in Sides, Insertion!CountAnswers(side) PROVE InsertionInv'
  <2> DEFINE path == iPage.running[side]
  <2>1. PICK v \in iPage.print[side] .. iDisk[path] :
          iPage' = Insertion!Answer(iPage, side, path, v, <<path, v>> \notin LockedVersions)
    BY <1>7 DEF Insertion!CountAnswers
  <2>2. path \in UserFiles BY <1>0, <1>7 DEF Insertion!CountAnswers, InsertionPages
  <2>3. iPage.print[side] \in Nat /\ iDisk[path] \in Nat BY <1>0, <2>2 DEF InsertionPages
  <2>4. v \in Nat BY <2>3, SMT
  <2>5. iPage' \in Fitting BY <1>0, <2>1, <2>2, <2>4, AnsweredFits
  <2> QED BY <1>0, <1>1, <1>7, <2>5 DEF Insertion!CountAnswers
<1>8. ASSUME NEW S, Insertion!ChoosePages(S) PROVE InsertionInv'
  <2> DEFINE h == [iPage EXCEPT !.chosen = S]
  <2>1. S \subseteq 1 .. iPage.count["second"][2] /\ iPage.count["second"] \in Counts
    BY <1>0, <1>8, <1>s DEF Insertion!ChoosePages, Insertion!PagesOf, InsertionPages
  <2>2. S \subseteq Nat BY <2>1, NothingCounted, SMT DEF Counts
  <2>3. /\ h \in InsertionPages /\ h.count = iPage.count /\ h.input = iPage.input /\ h.queued = iPage.queued
        /\ h.running = iPage.running /\ h.position = iPage.position /\ h.chosen = S
    BY <1>0, <2>2 DEF InsertionPages
  <2>4. iPage' = h BY <1>8 DEF Insertion!ChoosePages
  <2> HIDE DEF h
  <2>5. h \in Fitting BY <1>0, <2>1, <2>3 DEF Fitting, SideFits, PlanFits
  <2> QED BY <1>0, <1>1, <1>8, <2>4, <2>5 DEF Insertion!ChoosePages
<1>9. ASSUME NEW n \in Nat, Insertion!ChoosePosition(n) PROVE InsertionInv'
  <2> DEFINE h == [iPage EXCEPT !.position = n]
  <2>1. n <= iPage.count["first"][2] /\ iPage' = h BY <1>9 DEF Insertion!ChoosePosition
  <2>2. /\ h \in InsertionPages /\ h.count = iPage.count /\ h.input = iPage.input /\ h.queued = iPage.queued
        /\ h.running = iPage.running /\ h.position = n /\ h.chosen = iPage.chosen
    BY <1>0 DEF InsertionPages
  <2> HIDE DEF h
  <2>3. h \in Fitting BY <1>0, <2>1, <2>2 DEF Fitting, SideFits, PlanFits
  <2> QED BY <1>0, <1>1, <1>9, <2>1, <2>3 DEF Insertion!ChoosePosition
<1>10. ASSUME Insertion!StartOperation PROVE InsertionInv'
  <2>1. /\ iJob' = [files |-> <<iPage.input["first"], iPage.input["second"]>>, pages |-> iPage.chosen,
                    after |-> iPage.position]
        /\ iPage.input["first"] # iPage.input["second"] /\ iPage.chosen # {}
        /\ UNCHANGED <<iDisk, iDocuments, iSelected, iPage>>
    BY <1>10 DEF Insertion!StartOperation, Insertion!Blocked
  <2> QED BY <1>0, <2>1 DEF InsertionInv
<1>11. ASSUME Insertion!OperationFinished PROVE InsertionInv'
  BY <1>0, <1>11 DEF Insertion!OperationFinished, InsertionInv, Insertion!JobRuns
<1>12. ASSUME UNCHANGED insertionVars PROVE InsertionInv'
  BY <1>0, <1>1, <1>12 DEF insertionVars
<1>13. Insertion!Numbers \subseteq Nat
  <2>1. \A p \in UserFiles : FileVersions[p] \in Nat BY ToolConstants
  <2> QED BY <2>1, SMT DEF Insertion!Numbers
<1>14. ASSUME Insertion!WindowActs PROVE InsertionInv'
  BY <1>2, <1>3, <1>4, <1>5, <1>6, <1>14 DEF Insertion!WindowActs
<1>15. ASSUME Insertion!UserPlans PROVE InsertionInv'
  BY <1>8, <1>9, <1>10, <1>13, <1>15 DEF Insertion!UserPlans
<1> QED BY <1>7, <1>11, <1>12, <1>14, <1>15 DEF Insertion!Next, Insertion!Sides, Sides

LEMMA InsertionShows == InsertionInv => Insertion!InsertionFits
BY DEF InsertionInv, Fitting, SideFits, PlanFits, Insertion!InsertionFits, Insertion!PagesOf, Insertion!Sides, Sides

-----------------------------------------------------------------------------
(* The composition: one part is at work, the others do not move.             *)

ToolInv == MergeInv /\ ShareInv /\ ViewerInv /\ FormInv /\ RotationInv /\ InsertionInv

LEMMA ToolPagesInit == ToolInit => ToolInv /\ SourceInit
BY MergeInit, ShareInit, ViewerInit, FormInit, RotationInit, InsertionInit DEF ToolInit, ToolInv

LEMMA OnePartMoves ==
  ASSUME [ToolNext]_toolVars
  PROVE  /\ [SourceNext]_sourceVars /\ [Merge!Next]_mergeVars /\ [Share!Next]_shareVars
         /\ [Viewer!Next]_viewerVars /\ [Form!Next]_formVars
         /\ [Rotation!Next]_rotationVars /\ [Insertion!Next]_insertionVars
<1>1. CASE UNCHANGED toolVars BY <1>1 DEF toolVars, sourceVars
<1>2. CASE ToolNext BY <1>2 DEF ToolNext, sourceVars
<1> QED BY <1>1, <1>2

LEMMA ToolPagesStep == ToolInv /\ [ToolNext]_toolVars => ToolInv'
BY OnePartMoves, MergeStep, ShareStep, ViewerStep, FormStep, RotationStep, InsertionStep DEF ToolInv

LEMMA ToolPagesInvariance == ToolSpec => []ToolInv
BY ToolPagesInit, ToolPagesStep, PTL DEF ToolSpec

LEMMA ToolPagesReplace == ToolSpec => SourceSpec
BY ToolPagesInit, OnePartMoves, PTL DEF ToolSpec, SourceSpec

(* The list of Merge keeps out what the user took off it, and a running merge *)
(* and its result are of the list on screen, whatever the window refreshes,   *)
(* whichever count answers late and whenever the posted rule runs             *)
(* (merge_pdf_page.py).                                                      *)
THEOREM ListStaysTheUsers == ToolSpec => []ListIsTheUsers
<1>1. ToolInv => ListIsTheUsers BY MergeShows DEF ToolInv, ListIsTheUsers
<1> QED BY <1>1, ToolPagesInvariance, PTL

(* What Check before sharing replaces was confirmed, what it photographs was  *)
(* shown, what it reports is of its source, and nothing is shown off screen   *)
(* (share_check_page.py); redact and watermark treat the version whose pages  *)
(* the user looked at (pdf_viewer_tool_page.py), and the preview of Rotate is *)
(* the page as the job would write it (rotate_pdf_page.py): for any files,    *)
(* pages and versions.                                                        *)
THEOREM DoneStaysAsShown == ToolSpec => []DoneAsShown
<1>1. ToolInv => DoneAsShown
  BY ShareDoes, ViewerShows, RotationShows DEF ToolInv, DoneAsShown
<1> QED BY <1>1, ToolPagesInvariance, PTL

(* A password, the pages, the result and the job of a form are those of the   *)
(* document on it, whatever the window gives to the page while a check, a job *)
(* or a question waits (form_tool_page.py, password_pdf_page.py,              *)
(* ocr_pdf_page.py, compress_pdf_page.py).                                   *)
THEOREM FormBelongsToTheDocument == ToolSpec => []BelongsToTheDocument
<1>1. ToolInv => BelongsToTheDocument BY FormShows DEF ToolInv, BelongsToTheDocument
<1> QED BY <1>1, ToolPagesInvariance, PTL

(* The pages chosen for an insertion exist in the second document as counted, *)
(* and the position is in the first one (insert_pdf_pages_page.py).           *)
THEOREM InsertedFits == ToolSpec => []InsertionFits
<1>1. ToolInv => InsertionFits BY InsertionShows DEF ToolInv, InsertionFits
<1> QED BY <1>1, ToolPagesInvariance, PTL

(* The replacement of a source, as a part of the composition: an edit that     *)
(* falls before the last check is never lost, nor is the source to a job that  *)
(* was stopped in time or that failed before its rename.                       *)
THEOREM NoEditIsLost == ToolSpec => []ReplacementIsSafe
BY ToolPagesReplace, ReplacementStaysSafe, PTL
=============================================================================
