------------------------------ MODULE MCPageTools ------------------------------
(***************************************************************************)
(* The tools on pages: the count of their source (CountedSources), and     *)
(* the plan of a job with its result (PagePlans), which need no more of    *)
(* the count than its number; for TLC, with the proofs of both.            *)
(*                                                                         *)
(* What is remembered of a file, and what a tool says of its source, are   *)
(* true whatever number of files, of versions and of entries of the cache. *)
(* The versions of a file only grow: what a thread reads lies between the  *)
(* fingerprint it took before and the version of the file after, and when  *)
(* these are equal it was read from that version.                          *)
(*                                                                         *)
(* A plan that the page accepts is sound: it leaves the engine nothing to  *)
(* refuse while the file stays as it was counted.  The running job, and    *)
(* the result on screen, have such a plan, and it is the one the settings  *)
(* give, as long as the page heard of every change.                        *)
(***************************************************************************)
EXTENDS CountedSources, Integers, TLAPS, SequenceTheorems, FunctionTheorems, FiniteSetTheorems,
        NaturalsInduction, WellFoundedInduction

CONSTANTS Operations, PageCounts, Texts, MaxGroups, MaxListed, MaxFile   \* of PagePlans

VARIABLES operation, portable, onDisk, counted, settings, folder, target, planned, bar, unheard

plansVars == <<operation, portable, onDisk, counted, settings, folder, target, planned, bar, unheard>>

Plans == INSTANCE PagePlans WITH count <- counted, s <- settings, job <- planned

PlansConstants == PageCounts \subseteq Nat \ {0} /\ Texts \subseteq Seq(Nat \X Nat)
ASSUME PlansAssumption == PlansConstants /\ <<>> \in Texts /\ MaxGroups \in Nat /\ MaxGroups >= 2

\* Texts for TLC: a range, out of the pages of a short source, the same twice, nonsense.
SomeTexts == {<<>>, << <<1, 2>> >>, << <<1, 2>>, <<1, 2>> >>, << <<2, 1>> >>}

\* The plans alone: no file was given to the tool that counts.
PlansInit == Plans!Init /\ Init /\ kind = "plan"
PlansNext == Plans!Next /\ UNCHANGED vars
PlansSpec == PlansInit /\ [][PlansNext]_<<vars, plansVars>>

\* What the page accepts the engine carries out, and the files of a success are those
\* planned and announced (PagePlans).
PlansAreCarriedOut == Plans!PlansAreCarriedOut

\* The success on screen is of the settings on screen (PagePlans).
ResultIsOfTheSettings == Plans!ResultIsOfTheSettings

-----------------------------------------------------------------------------
(* The count of the source.                                                *)

MaybePath == Paths \cup {NoPath}
Reads == Versions \cup {Unread}

\* The entries that tell the truth of their file.
Entries == [file : Files, count : Reads, inspection : Reads]
TrueEntries ==
  {e \in Entries : e.count \in {Unread, e.file[2]} /\ e.inspection \in {Unread, e.file[2]}}

Tools ==
  [input : MaybePath, status : {"empty", "loading", "ready", "failed"}, count : Files \cup {NoCount},
   queued : MaybePath, running : MaybePath, known : [Paths -> [filed : Versions \cup {0}, read : Reads]]]

\* What a tool says of its source is of its source.
Told(t) ==
  /\ t.count # NoCount => t.count[1] = t.input
  /\ t.status = "ready" <=> t.count # NoCount

Sound == {t \in Tools : Told(t)}

\* A handler leaves a tool sound, and starts counts of real files only.
Follows(t, u) == u \in Sound /\ u.running \in {t.running} \cup Paths

CacheInv == cache \in Seq(TrueEntries) /\ Len(cache) <= Capacity

\* What a thread has read lies between its fingerprint and the present version.
Between(thread) ==
  /\ thread \in Threads
  /\ thread.phase # "idle" => thread.path \in Paths
  /\ thread.phase \in {"reading", "storing"} =>
       thread.print \in Versions /\ thread.print <= disk[thread.path]
  /\ thread.phase = "storing" =>
       thread.read \in Versions /\ thread.print <= thread.read /\ thread.read <= disk[thread.path]

WindowInv ==
  /\ kind \in Kinds /\ disk \in [Paths -> Versions]
  /\ listed \subseteq Paths /\ selected \in listed \cup {NoPath} /\ shown \in BOOLEAN
  /\ job \in MaybePath

CountInv ==
  /\ counting.path = tool.running
  /\ counting.phase = "idle" <=> tool.running = NoPath
  /\ counting.phase = "answered" => (counting.ok => counting.read \in Versions)

IInv ==
  /\ WindowInv /\ CacheInv /\ tool \in Sound
  /\ Between(counting) /\ Between(inspecting) /\ CountInv

-----------------------------------------------------------------------------
(* The cache.                                                              *)

LEMMA WithoutProperties ==
  ASSUME NEW c \in Seq(TrueEntries), NEW file
  PROVE  /\ Without(c, file) \in Seq(TrueEntries)
         /\ Len(Without(c, file)) <= Len(c)
         /\ (file \in CachedFiles(c) => Len(Without(c, file)) + 1 = Len(c))
<1>1. Len(c) \in Nat /\ DOMAIN c = 1 .. Len(c) /\ \A i \in 1 .. Len(c) : c[i] \in TrueEntries
  BY LenProperties, ElementOfSeq
<1>2. CASE file \notin CachedFiles(c)
  <2>1. Without(c, file) = c BY <1>2 DEF Without
  <2>2. Len(c) <= Len(c) BY <1>1, SMT
  <2> QED BY <1>2, <2>1, <2>2
<1>3. CASE file \in CachedFiles(c)
  <2> DEFINE place == CHOOSE i \in DOMAIN c : c[i].file = file
             rest == [i \in 1 .. Len(c) - 1 |-> c[IF i < place THEN i ELSE i + 1]]
  <2>1. Without(c, file) = rest BY <1>3 DEF Without
  <2>2. place \in 1 .. Len(c) BY <1>1, <1>3 DEF CachedFiles
  <2>3. Len(c) - 1 \in Nat BY <1>1, <2>2, SMT
  <2> HIDE DEF place
  <2>4. ASSUME NEW i \in 1 .. Len(c) - 1 PROVE c[IF i < place THEN i ELSE i + 1] \in TrueEntries
    <3>1. (IF i < place THEN i ELSE i + 1) \in 1 .. Len(c) BY <1>1, <2>2, SMT
    <3> QED BY <1>1, <3>1
  <2>5. rest \in [1 .. Len(c) - 1 -> TrueEntries] BY <2>4
  <2> HIDE DEF rest
  <2>6. rest \in Seq(TrueEntries) /\ Len(rest) = Len(c) - 1 BY <2>3, <2>5, SMT
  <2> QED BY <1>1, <2>1, <2>6, SMT
<1> QED BY <1>2, <1>3

LEMMA CachedIsTrue ==
  ASSUME NEW c \in Seq(TrueEntries), NEW file \in Files, file \in CachedFiles(c)
  PROVE  Cached(c, file) \in TrueEntries /\ Cached(c, file).file = file
<1>1. DOMAIN c = 1 .. Len(c) /\ \A i \in 1 .. Len(c) : c[i] \in TrueEntries
  BY LenProperties, ElementOfSeq
<1>2. \E e \in {c[i] : i \in DOMAIN c} : e.file = file BY DEF CachedFiles
<1>3. Cached(c, file) \in {c[i] : i \in DOMAIN c} /\ Cached(c, file).file = file
  BY <1>2 DEF Cached
<1> QED BY <1>1, <1>3

LEMMA WhatIsKnown ==
  ASSUME NEW c \in Seq(TrueEntries), NEW file \in Files
  PROVE  CountOf(c, file) \in {Unread, file[2]} /\ InspectionOf(c, file) \in {Unread, file[2]}
BY CachedIsTrue DEF CountOf, InspectionOf, TrueEntries

LEMMA LookedUpKeeps ==
  ASSUME NEW c \in Seq(TrueEntries), NEW file \in Files
  PROVE  LookedUp(c, file) \in Seq(TrueEntries) /\ Len(LookedUp(c, file)) = Len(c)
<1>1. CASE file \notin CachedFiles(c) BY <1>1 DEF LookedUp
<1>2. CASE file \in CachedFiles(c)
  <2> DEFINE rest == Without(c, file)
             entry == Cached(c, file)
  <2>1. rest \in Seq(TrueEntries) /\ Len(rest) + 1 = Len(c) BY <1>2, WithoutProperties
  <2>2. entry \in TrueEntries BY <1>2, CachedIsTrue
  <2>3. LookedUp(c, file) = Append(rest, entry) BY <1>2 DEF LookedUp
  <2> HIDE DEF rest, entry
  <2> QED BY <2>1, <2>2, <2>3, AppendProperties
<1> QED BY <1>1, <1>2

LEMMA StoredKeeps ==
  ASSUME NEW c \in Seq(TrueEntries), NEW entry \in TrueEntries, Len(c) <= Capacity
  PROVE  Stored(c, entry) \in Seq(TrueEntries) /\ Len(Stored(c, entry)) <= Capacity
<1> DEFINE rest == Without(c, entry.file)
           all == Append(rest, entry)
<1>1. rest \in Seq(TrueEntries) /\ Len(rest) <= Len(c) BY WithoutProperties
<1>2. Stored(c, entry) = IF Len(all) > Capacity THEN Tail(all) ELSE all BY DEF Stored
<1> HIDE DEF rest
<1>3. all \in Seq(TrueEntries) /\ all # <<>> /\ Len(all) = Len(rest) + 1
  BY <1>1, AppendProperties
<1>4. Len(rest) \in Nat /\ Len(c) \in Nat /\ Capacity \in Nat BY <1>1, LenProperties, CapacityAssumption
<1> HIDE DEF all
<1>5. Tail(all) \in Seq(TrueEntries) /\ Len(Tail(all)) = Len(all) - 1 BY <1>3, HeadTailProperties
<1> QED BY <1>1, <1>2, <1>3, <1>4, <1>5, SMT

\* An answer that was read from the version it is filed under.
LEMMA FiledIsTrue ==
  ASSUME NEW c \in Seq(TrueEntries), NEW path \in Paths, NEW version \in Versions, NEW pagesKnown \in BOOLEAN,
         Len(c) <= Capacity
  PROVE  /\ StorePageCount(c, <<path, version>>, version) \in Seq(TrueEntries)
         /\ Len(StorePageCount(c, <<path, version>>, version)) <= Capacity
         /\ StoreInspection(c, <<path, version>>, version, pagesKnown) \in Seq(TrueEntries)
         /\ Len(StoreInspection(c, <<path, version>>, version, pagesKnown)) <= Capacity
<1> DEFINE file == <<path, version>>
           one == [file |-> file, count |-> version, inspection |-> InspectionOf(c, file)]
           other == [file |-> file, inspection |-> version,
                     count |-> IF pagesKnown THEN version ELSE CountOf(c, file)]
<1>1. file \in Files /\ file[2] = version BY DEF Files
<1>2. InspectionOf(c, file) \in {Unread, version} /\ CountOf(c, file) \in {Unread, version}
  BY <1>1, WhatIsKnown
<1>3. one \in TrueEntries BY <1>1, <1>2 DEF TrueEntries, Entries, Reads
<1>4. other \in TrueEntries BY <1>1, <1>2 DEF TrueEntries, Entries, Reads
<1>5. /\ StorePageCount(c, file, version) = Stored(c, one)
      /\ StoreInspection(c, file, version, pagesKnown) = Stored(c, other)
  BY DEF StorePageCount, StoreInspection
<1> HIDE DEF one, other
<1> QED BY <1>3, <1>4, <1>5, StoredKeeps

-----------------------------------------------------------------------------
(* The tool.                                                               *)

LEMMA NoCountIsNone == NoCount \notin Files /\ NoPath \notin Paths
BY PathsAssumption DEF NoCount, Files

LEMMA FollowsTwice ==
  ASSUME NEW t, NEW u, NEW v, Follows(t, u), Follows(u, v)
  PROVE  Follows(t, v)
BY DEF Follows

LEMMA SetInputFollows ==
  ASSUME NEW t \in Sound, NEW path \in Paths
  PROVE  Follows(t, SetInput(t, path))
<1>1. WithInput(t, path) \in Tools /\ Told(WithInput(t, path)) /\ WithInput(t, path).running = t.running
  BY DEF WithInput, Sound, Tools, Told, MaybePath
<1> DEFINE w == WithInput(t, path)
<1> HIDE DEF w
<1>2. w \in Tools /\ Told(w) /\ w.running = t.running BY <1>1 DEF w
<1>3. [w EXCEPT !.queued = path] \in Sound /\ [w EXCEPT !.queued = path].running = w.running
  BY <1>2 DEF Sound, Tools, Told, MaybePath
<1>4. [w EXCEPT !.running = path] \in Sound /\ [w EXCEPT !.running = path].running = path
  BY <1>2 DEF Sound, Tools, Told, MaybePath
<1>5. SetInput(t, path) \in {[w EXCEPT !.queued = path], [w EXCEPT !.running = path], w}
  BY DEF SetInput, StartCount, w
<1> QED BY <1>2, <1>3, <1>4, <1>5 DEF Follows, Sound

LEMMA TakingFollows ==
  ASSUME NEW t \in Sound, NEW path \in MaybePath
  PROVE  /\ Follows(t, TakeDocument(t, path))
         /\ Follows(t, TakeContext(t, path))
<1>1. Follows(t, t) BY DEF Follows
<1>2. ClearInput(t) \in Sound /\ ClearInput(t).running = t.running
  BY DEF ClearInput, Sound, Tools, Told, MaybePath
<1>3. path # NoPath => Follows(t, SetInput(t, path)) BY SetInputFollows DEF MaybePath
<1> QED BY <1>1, <1>2, <1>3 DEF TakeDocument, TakeContext, Follows

LEMMA RefreshFollows ==
  ASSUME NEW t \in Sound, NEW choice \in MaybePath
  PROVE  Follows(t, Synced(t, choice)) /\ Follows(t, Refreshed(t, choice))
<1>1. Follows(t, t) BY DEF Follows
<1> QED BY <1>1, TakingFollows DEF Synced, Refreshed

Answers == [path : Paths, read : Reads, ok : BOOLEAN]

LEMMA RecordedFollows ==
  ASSUME NEW t \in Sound, NEW answer \in Answers, disk \in [Paths -> Versions]
  PROVE  Follows(t, Recorded(t, answer))
<1>1. [filed |-> disk[answer.path], read |-> answer.read] \in [filed : Versions \cup {0}, read : Reads]
  BY DEF Answers
<1>2. [t.known EXCEPT ![answer.path] = [filed |-> disk[answer.path], read |-> answer.read]]
        \in [Paths -> [filed : Versions \cup {0}, read : Reads]]
  BY <1>1 DEF Sound, Tools, Answers
<1> DEFINE k == [t.known EXCEPT ![answer.path] = [filed |-> disk[answer.path], read |-> answer.read]]
<1>3. Recorded(t, answer) = [t EXCEPT !.known = k] BY DEF Recorded
<1> HIDE DEF k
<1>4. k \in [Paths -> [filed : Versions \cup {0}, read : Reads]] BY <1>2 DEF k
<1>5. [t EXCEPT !.known = k] \in Sound /\ [t EXCEPT !.known = k].running = t.running
  BY <1>4 DEF Sound, Tools, Told
<1> QED BY <1>3, <1>5 DEF Follows

LEMMA AppliedFollows ==
  ASSUME NEW t \in Sound, NEW answer \in Answers, answer.ok => answer.read \in Versions
  PROVE  Follows(t, Applied(t, answer))
<1>1. CASE t.input # answer.path BY <1>1 DEF Applied, Follows
<1>2. CASE t.input = answer.path /\ answer.ok
  <2> DEFINE c == <<answer.path, answer.read>>
  <2>1. c \in Files /\ c # NoCount /\ c[1] = t.input
    BY <1>2, NoCountIsNone DEF Answers, Files, NoCount
  <2>2. Applied(t, answer) = [t EXCEPT !.count = c, !.status = "ready"] BY <1>2 DEF Applied
  <2> HIDE DEF c
  <2>3. [t EXCEPT !.count = c, !.status = "ready"] \in Sound
        /\ [t EXCEPT !.count = c, !.status = "ready"].running = t.running
    BY <2>1 DEF Sound, Tools, Told
  <2> QED BY <2>2, <2>3 DEF Follows
<1>3. CASE t.input = answer.path /\ ~answer.ok
  <2>1. Applied(t, answer) = [t EXCEPT !.count = NoCount, !.status = "failed"] BY <1>3 DEF Applied
  <2>2. [t EXCEPT !.count = NoCount, !.status = "failed"] \in Sound
        /\ [t EXCEPT !.count = NoCount, !.status = "failed"].running = t.running
    BY DEF Sound, Tools, Told
  <2> QED BY <2>1, <2>2 DEF Follows
<1> QED BY <1>1, <1>2, <1>3

LEMMA AnsweredFollows ==
  ASSUME NEW t \in Sound, NEW answer \in Answers, answer.ok => answer.read \in Versions,
         disk \in [Paths -> Versions], selected \in MaybePath
  PROVE  Answered(t, answer) \in Sound /\ Answered(t, answer).running \in MaybePath
<1> DEFINE freed == [t EXCEPT !.running = NoPath, !.queued = NoPath]
           heard == Announced(freed, answer)
           noted == Recorded(heard, answer)
           used == Applied(noted, answer)
<1>1. freed \in Sound /\ freed.running = NoPath BY DEF Sound, Tools, Told, MaybePath
<1>2. t.queued \in MaybePath BY DEF Sound, Tools
<1>3. Answered(t, answer) = Restarted(used, t.queued, answer.path) BY DEF Answered
<1> HIDE DEF freed
<1>4. heard \in Sound BY <1>1, RefreshFollows DEF Announced, Follows
<1> HIDE DEF heard
<1>5. noted \in Sound BY <1>4, RecordedFollows DEF Follows
<1> HIDE DEF noted
<1>6. used \in Sound BY <1>5, AppliedFollows DEF Follows
<1> HIDE DEF used
<1>7. t.queued \in Paths => [used EXCEPT !.running = t.queued] \in Sound
  BY <1>6 DEF Sound, Tools, Told, MaybePath
<1>8. Restarted(used, t.queued, answer.path) \in Sound
  BY <1>2, <1>6, <1>7 DEF Restarted, StartCount, MaybePath
<1> QED BY <1>3, <1>8 DEF Sound, Tools

-----------------------------------------------------------------------------
LEMMA VersionsAreOrdered ==
  /\ Versions \subseteq Nat
  /\ \A v \in Versions : v <= v
  /\ \A v, w \in Versions : v <= w /\ w <= v => v = w
BY VersionsAssumption, SMT DEF Versions

LEMMA InitInv == Init => IInv
<1> SUFFICES ASSUME Init PROVE IInv OBVIOUS
<1>1. 1 \in Versions /\ 0 \notin Versions BY VersionsAssumption, SMT DEF Versions
<1>2. WindowInv BY <1>1 DEF Init, WindowInv, MaybePath
<1>3. CacheInv
  <2>1. <<>> \in Seq(TrueEntries) /\ Len(<<>>) = 0 BY EmptySeq
  <2> QED BY <2>1, CapacityAssumption, SMT DEF Init, CacheInv, EmptyCache
<1>4. tool \in Sound
  <2>1. NotChecked \in [filed : Versions \cup {0}, read : Reads] BY DEF NotChecked, Reads
  <2>2. tool \in Tools BY <2>1 DEF Init, Tools, MaybePath
  <2> QED BY <2>2 DEF Init, Sound, Told
<1>5. Idle \in Threads /\ Idle.phase = "idle" /\ Idle.path = NoPath BY DEF Idle, Threads, Unread
<1>6. Between(counting) /\ Between(inspecting) BY <1>5 DEF Init, Between
<1>7. CountInv BY <1>5 DEF Init, CountInv
<1> QED BY <1>2, <1>3, <1>4, <1>6, <1>7 DEF IInv

\* A thread of which nothing changes, nor the file it reads.
LEMMA SameThread ==
  ASSUME NEW thread, Between(thread), UNCHANGED disk
  PROVE  Between(thread)'
BY DEF Between

\* A count that is started, or goes on: what a handler leaves (Handled).
LEMMA HandledKeeps ==
  ASSUME IInv, NEW STATE t, Follows(tool, t), Handled(t), UNCHANGED <<disk, inspecting>>
  PROVE  tool' \in Sound /\ Between(counting)' /\ Between(inspecting)' /\ CountInv'
<1>1. tool' = t /\ t \in Sound /\ t.running \in {tool.running} \cup Paths BY DEF Handled, Follows
<1>2. Between(inspecting)' BY DEF IInv, Between
<1>3. CASE t.running = tool.running
  <2>1. counting' = counting BY <1>3 DEF Handled
  <2> QED BY <1>1, <1>2, <1>3, <2>1 DEF IInv, Between, CountInv
<1>4. CASE t.running # tool.running
  <2>1. counting' = Waiting(t.running) /\ t.running \in Paths BY <1>1, <1>4 DEF Handled
  <2>2. /\ counting' \in Threads /\ counting'.phase = "starting" /\ counting'.path = t.running
    BY <2>1 DEF Waiting, Idle, Threads, Unread
  <2>3. Between(counting)' BY <2>1, <2>2 DEF Between
  <2>4. CountInv' BY <1>1, <2>1, <2>2, NoCountIsNone DEF CountInv
  <2> QED BY <1>1, <1>2, <2>3, <2>4
<1> QED BY <1>3, <1>4

LEMMA StepInv == IInv /\ [Next]_vars => IInv'
<1> SUFFICES ASSUME IInv, [Next]_vars PROVE IInv' OBVIOUS
<1>0. /\ WindowInv /\ CacheInv /\ tool \in Sound
      /\ Between(counting) /\ Between(inspecting) /\ CountInv
  BY DEF IInv
<1>v. Versions \subseteq Nat /\ 0 \notin Versions /\ MaxVersion \in Nat BY VersionsAssumption, SMT DEF Versions
<1>s. selected \in MaybePath BY <1>0 DEF WindowInv, MaybePath
<1>1. ASSUME CountStarts PROVE IInv'
  <2>1. counting.path \in Paths /\ disk[counting.path] \in Versions
    BY <1>0, <1>1 DEF CountStarts, Between, WindowInv
  <2> DEFINE file == FileNow(counting.path)
             known == CountOf(cache, file)
             begun == [counting EXCEPT !.print = disk[counting.path]]
  <2>2. file \in Files /\ file[2] = disk[counting.path] BY <2>1 DEF FileNow, Files
  <2>3. known \in {Unread, disk[counting.path]} BY <1>0, <2>2, WhatIsKnown DEF CacheInv
  <2>4. CacheInv' BY <1>0, <1>1, <2>2, LookedUpKeeps DEF CacheInv, CountStarts
  <2>5. counting' = IF known # Unread THEN Result(counting.path, known, TRUE)
                    ELSE [begun EXCEPT !.phase = "reading"]
    BY <1>1 DEF CountStarts
  <2> HIDE DEF known
  <2>6. CASE known # Unread
    <3>1. counting' = Result(counting.path, known, TRUE) /\ known \in Versions BY <2>1, <2>3, <2>5, <2>6
    <3>2. counting' \in Threads /\ counting'.phase = "answered" /\ counting'.path = counting.path
          /\ counting'.read = known
      BY <2>1, <3>1 DEF Result, Idle, Threads
    <3> QED BY <1>0, <1>1, <2>1, <2>4, <3>1, <3>2, NoCountIsNone, SameThread
         DEF CountStarts, window, IInv, WindowInv, Between, CountInv
  <2>7. CASE known = Unread
    <3>1. counting' = [begun EXCEPT !.phase = "reading"] BY <2>5, <2>7
    <3>2. /\ counting' \in Threads /\ counting'.phase = "reading" /\ counting'.path = counting.path
          /\ counting'.print = disk[counting.path]
      BY <1>0, <2>1, <3>1 DEF Threads, Between
    <3>3. disk[counting.path] <= disk[counting.path] BY <2>1, VersionsAreOrdered
    <3> QED BY <1>0, <1>1, <2>1, <2>4, <3>2, <3>3, NoCountIsNone, SameThread
         DEF CountStarts, window, IInv, WindowInv, Between, CountInv
  <2> QED BY <2>6, <2>7
<1>2. ASSUME CountReads PROVE IInv'
  <2>1. /\ counting.path \in Paths /\ disk[counting.path] \in Versions
        /\ counting.print \in Versions /\ counting.print <= disk[counting.path]
        /\ counting \in Threads /\ counting.phase = "reading"
    BY <1>0, <1>2 DEF CountReads, Between, WindowInv
  <2>2. disk[counting.path] <= disk[counting.path] BY <2>1, VersionsAreOrdered
  <2> DEFINE ok == ~AsksPassword(FileNow(counting.path))
             next == [counting EXCEPT !.read = disk[counting.path], !.ok = TRUE, !.phase = "storing"]
             told == Result(counting.path, disk[counting.path], FALSE)
  <2>3. counting' = IF ok THEN next ELSE told BY <1>2 DEF CountReads
  <2>4. /\ next \in Threads /\ next.phase = "storing" /\ next.path = counting.path
        /\ next.print = counting.print /\ next.read = disk[counting.path]
    BY <2>1 DEF Threads
  <2>5. told \in Threads /\ told.phase = "answered" /\ told.path = counting.path /\ told.ok = FALSE
    BY <2>1 DEF Result, Idle, Threads
  <2> HIDE DEF next, told, ok
  <2>6. Between(counting)' BY <1>2, <2>1, <2>2, <2>3, <2>4, <2>5 DEF CountReads, Between
  <2>7. CountInv' BY <1>0, <1>2, <2>1, <2>3, <2>4, <2>5 DEF CountReads, CountInv
  <2> QED BY <1>0, <1>2, <2>6, <2>7, SameThread DEF CountReads, window, IInv, WindowInv, CacheInv
<1>3. ASSUME CountFails PROVE IInv'
  <2>1. counting.path \in Paths /\ counting.phase = "reading" BY <1>0, <1>3 DEF CountFails, Between
  <2>2. counting' \in Threads /\ counting'.phase = "answered" /\ counting'.path = counting.path
        /\ counting'.ok = FALSE
    BY <1>3, <2>1 DEF CountFails, Result, Idle, Threads
  <2>3. Between(counting)' BY <2>1, <2>2 DEF Between
  <2>4. CountInv' BY <1>0, <1>3, <2>1, <2>2 DEF CountFails, CountInv
  <2> QED BY <1>0, <1>3, <2>3, <2>4, SameThread DEF CountFails, window, IInv, WindowInv, CacheInv
<1>4. ASSUME CountStored PROVE IInv'
  <2>1. /\ counting.path \in Paths /\ disk[counting.path] \in Versions
        /\ counting.print \in Versions /\ counting.read \in Versions
        /\ counting.print <= counting.read /\ counting.read <= disk[counting.path]
    BY <1>0, <1>4 DEF CountStored, Between, WindowInv
  <2>2. CacheInv'
    <3>1. CASE disk[counting.path] = counting.print
      <4>1. counting.read = counting.print BY <2>1, <3>1, VersionsAreOrdered
      <4>2. cache' = StorePageCount(cache, <<counting.path, counting.print>>, counting.print)
        BY <1>4, <3>1, <4>1 DEF CountStored, StoredCount, FileOf
      <4> QED BY <1>0, <2>1, <4>2, FiledIsTrue DEF CacheInv
    <3>2. CASE disk[counting.path] # counting.print
      BY <1>0, <1>4, <3>2 DEF CountStored, StoredCount, CacheInv
    <3> QED BY <3>1, <3>2
  <2>3. counting' \in Threads /\ counting'.phase = "answered" /\ counting'.path = counting.path
        /\ counting'.read = counting.read
    BY <1>4, <2>1 DEF CountStored, Result, Idle, Threads
  <2>4. Between(counting)' BY <2>1, <2>3 DEF Between
  <2>5. CountInv' BY <1>0, <1>4, <2>1, <2>3 DEF CountStored, CountInv
  <2> QED BY <1>0, <1>4, <2>2, <2>4, <2>5, SameThread DEF CountStored, window, IInv, WindowInv
<1>5. ASSUME CountDelivered PROVE IInv'
  <2> DEFINE answer == [path |-> counting.path, read |-> counting.read, ok |-> counting.ok]
             t == Answered(tool, answer)
  <2>1. answer \in Answers /\ (answer.ok => answer.read \in Versions)
    BY <1>0, <1>5 DEF CountDelivered, Between, CountInv, Threads, Answers, Reads
  <2>2. tool' = t /\ counting' = IF t.running = NoPath THEN Idle ELSE Waiting(t.running)
    BY <1>5 DEF CountDelivered
  <2> HIDE DEF answer
  <2>3. t \in Sound /\ t.running \in MaybePath BY <1>0, <1>s, <2>1, AnsweredFollows DEF WindowInv
  <2> HIDE DEF t
  <2>4. CASE t.running = NoPath
    <3>1. counting' = Idle BY <2>2, <2>4
    <3>2. counting' \in Threads /\ counting'.phase = "idle" /\ counting'.path = NoPath
      BY <3>1 DEF Idle, Threads, Unread
    <3>3. Between(counting)' /\ CountInv' BY <2>2, <2>4, <3>2 DEF Between, CountInv
    <3> QED BY <1>0, <1>5, <2>2, <2>3, <3>3, SameThread DEF CountDelivered, window, IInv, WindowInv, CacheInv
  <2>5. CASE t.running # NoPath
    <3>1. counting' = Waiting(t.running) /\ t.running \in Paths BY <2>2, <2>3, <2>5 DEF MaybePath
    <3>2. counting' \in Threads /\ counting'.phase = "starting" /\ counting'.path = t.running
      BY <3>1 DEF Waiting, Idle, Threads, Unread
    <3>3. Between(counting)' /\ CountInv' BY <2>2, <2>5, <3>1, <3>2 DEF Between, CountInv
    <3> QED BY <1>0, <1>5, <2>2, <2>3, <3>3, SameThread DEF CountDelivered, window, IInv, WindowInv, CacheInv
  <2> QED BY <2>4, <2>5
<1>6. ASSUME InspectionAsked PROVE IInv'
  <2>1. selected \in Paths /\ inspecting' = Waiting(selected)
    BY <1>0, <1>6 DEF InspectionAsked, WindowInv
  <2>2. inspecting' \in Threads /\ inspecting'.phase = "starting" /\ inspecting'.path = selected
    BY <2>1 DEF Waiting, Idle, Threads, Unread
  <2>3. Between(inspecting)' BY <2>1, <2>2 DEF Between
  <2> QED BY <1>0, <1>6, <2>3, SameThread DEF InspectionAsked, window, IInv, WindowInv, CacheInv, CountInv
<1>7. ASSUME InspectionStarts PROVE IInv'
  <2>1. inspecting.path \in Paths /\ disk[inspecting.path] \in Versions /\ inspecting \in Threads
    BY <1>0, <1>7 DEF InspectionStarts, Between, WindowInv
  <2>2. FileNow(inspecting.path) \in Files BY <2>1 DEF FileNow, Files
  <2>3. CacheInv' BY <1>0, <1>7, <2>2, LookedUpKeeps DEF CacheInv, InspectionStarts
  <2> DEFINE begun == [inspecting EXCEPT !.phase = "reading", !.print = disk[inspecting.path]]
  <2>4. inspecting' = Idle \/ inspecting' = begun BY <1>7 DEF InspectionStarts
  <2>5. Idle \in Threads /\ Idle.phase = "idle" BY DEF Idle, Threads, Unread
  <2>6. /\ begun \in Threads /\ begun.phase = "reading" /\ begun.path = inspecting.path
        /\ begun.print = disk[inspecting.path]
    BY <2>1 DEF Threads
  <2> HIDE DEF begun
  <2>7. disk[inspecting.path] <= disk[inspecting.path] BY <2>1, VersionsAreOrdered
  <2>8. Between(inspecting)' BY <1>7, <2>1, <2>4, <2>5, <2>6, <2>7 DEF InspectionStarts, Between
  <2> QED BY <1>0, <1>7, <2>3, <2>8, SameThread DEF InspectionStarts, window, IInv, WindowInv, CountInv
<1>8. ASSUME InspectionReads PROVE IInv'
  <2>1. /\ inspecting.path \in Paths /\ disk[inspecting.path] \in Versions /\ inspecting \in Threads
        /\ inspecting.print \in Versions /\ inspecting.print <= disk[inspecting.path]
    BY <1>0, <1>8 DEF InspectionReads, Between, WindowInv
  <2>2. /\ inspecting' \in Threads /\ inspecting'.phase = "storing" /\ inspecting'.path = inspecting.path
        /\ inspecting'.print = inspecting.print /\ inspecting'.read = disk[inspecting.path]
    BY <1>8, <2>1 DEF InspectionReads, Threads
  <2>3. disk[inspecting.path] <= disk[inspecting.path] BY <2>1, VersionsAreOrdered
  <2>4. Between(inspecting)' BY <1>8, <2>1, <2>2, <2>3 DEF InspectionReads, Between
  <2> QED BY <1>0, <1>8, <2>4, SameThread DEF InspectionReads, window, IInv, WindowInv, CacheInv, CountInv
<1>9. ASSUME InspectionStored PROVE IInv'
  <2>1. /\ inspecting.path \in Paths /\ disk[inspecting.path] \in Versions /\ inspecting.ok \in BOOLEAN
        /\ inspecting.print \in Versions /\ inspecting.read \in Versions
        /\ inspecting.print <= inspecting.read /\ inspecting.read <= disk[inspecting.path]
    BY <1>0, <1>9 DEF InspectionStored, Between, WindowInv, Threads
  <2>2. CacheInv'
    <3>1. CASE disk[inspecting.path] = inspecting.print
      <4>1. inspecting.read = inspecting.print BY <2>1, <3>1, VersionsAreOrdered
      <4>2. cache' = StoreInspection(cache, <<inspecting.path, inspecting.print>>, inspecting.print,
                                     inspecting.ok)
        BY <1>9, <3>1, <4>1 DEF InspectionStored, FileOf
      <4> QED BY <1>0, <2>1, <4>2, FiledIsTrue DEF CacheInv
    <3>2. CASE disk[inspecting.path] # inspecting.print
      BY <1>0, <1>9, <3>2 DEF InspectionStored, CacheInv
    <3> QED BY <3>1, <3>2
  <2>3. Idle \in Threads /\ Idle.phase = "idle" BY DEF Idle, Threads, Unread
  <2>4. Between(inspecting)' BY <1>9, <2>3 DEF InspectionStored, Between
  <2> QED BY <1>0, <1>9, <2>2, <2>4, SameThread DEF InspectionStored, window, IInv, WindowInv, CountInv
\* Another version leaves what was read before it.
<1>10. ASSUME NEW path \in Paths, Rewrite(path) PROVE IInv'
  <2>1. disk \in [Paths -> Versions] /\ disk' \in [Paths -> Versions]
        /\ \A p \in Paths : disk[p] <= disk'[p]
    <3>1. disk \in [Paths -> Versions] BY <1>0 DEF WindowInv
    <3>2. disk[path] + 1 \in Versions /\ disk[path] <= disk[path] + 1
      BY <1>10, <1>v, <3>1, SMT DEF Rewrite, Versions
    <3>3. disk' = [disk EXCEPT ![path] = disk[path] + 1] BY <1>10 DEF Rewrite
    <3>4. \A p \in Paths : disk'[p] = disk[p] \/ (p = path /\ disk'[p] = disk[p] + 1) BY <3>1, <3>3
    <3>5. \A p \in Paths : disk[p] <= disk[p] BY <3>1, VersionsAreOrdered
    <3> QED BY <3>1, <3>2, <3>3, <3>4, <3>5
  <2>2. ASSUME NEW thread, Between(thread)
        PROVE  /\ thread.phase \in {"reading", "storing"} => thread.print <= disk'[thread.path]
               /\ thread.phase = "storing" => thread.read <= disk'[thread.path]
    <3>1. CASE thread.phase \in {"reading", "storing"}
      <4>1. thread.path \in Paths /\ thread.print \in Nat /\ disk[thread.path] \in Nat
            /\ disk'[thread.path] \in Nat /\ disk[thread.path] <= disk'[thread.path]
            /\ thread.print <= disk[thread.path]
        BY <1>v, <2>1, <2>2, <3>1 DEF Between
      <4>2. thread.phase = "storing" => thread.read \in Nat /\ thread.read <= disk[thread.path]
        BY <1>v, <2>2 DEF Between
      <4> QED BY <4>1, <4>2, SMT
    <3> QED BY <3>1
  <2>3. UNCHANGED <<kind, cache, window, tool, job, counting, inspecting>> BY <1>10 DEF Rewrite
  <2>4. Between(counting)' BY <1>0, <2>2, <2>3 DEF Between
  <2>5. Between(inspecting)' BY <1>0, <2>2, <2>3 DEF Between
  <2> QED BY <1>0, <2>1, <2>3, <2>4, <2>5 DEF window, IInv, WindowInv, CacheInv, CountInv
<1>11. ASSUME NEW path \in Paths, HandleFiles(path) PROVE IInv'
  <2> DEFINE u == SetInput(tool, path)
             t == Synced(u, selected')
  <2>1. selected' \in listed' \cup {NoPath} /\ listed' \subseteq Paths
    BY <1>0, <1>11 DEF HandleFiles, WindowInv
  <2>2. selected' \in MaybePath BY <2>1 DEF MaybePath
  <2>3. Follows(tool, u) BY <1>0, SetInputFollows
  <2> HIDE DEF u
  <2>4. Follows(u, t) BY <2>2, <2>3, RefreshFollows DEF Follows
  <2>5. Handled(t) BY <1>11 DEF HandleFiles, u
  <2> HIDE DEF t
  <2>6. Follows(tool, t) BY <2>3, <2>4, FollowsTwice
  <2>7. tool' \in Sound /\ Between(counting)' /\ Between(inspecting)' /\ CountInv'
    BY <1>11, <2>5, <2>6, HandledKeeps DEF HandleFiles
  <2> QED BY <1>0, <1>11, <2>1, <2>7 DEF HandleFiles, IInv, WindowInv, CacheInv
<1>12. ASSUME NEW path \in Paths, Select(path) PROVE IInv'
  <2> DEFINE t == Refreshed(tool, path)
  <2>1. Follows(tool, t) BY <1>0, RefreshFollows DEF MaybePath
  <2>2. Handled(t) BY <1>12 DEF Select
  <2> HIDE DEF t
  <2>3. tool' \in Sound /\ Between(counting)' /\ Between(inspecting)' /\ CountInv'
    BY <1>12, <2>1, <2>2, HandledKeeps DEF Select
  <2> QED BY <1>0, <1>12, <2>3 DEF Select, IInv, WindowInv, CacheInv
<1>13. ASSUME NEW path \in Paths, CloseDocument(path) PROVE IInv'
  <2> DEFINE t == Refreshed(tool, selected')
  <2>1. selected' \in listed' \cup {NoPath} /\ listed' \subseteq Paths
    BY <1>0, <1>13 DEF CloseDocument, WindowInv
  <2>2. Follows(tool, t) BY <1>0, <2>1, RefreshFollows DEF MaybePath
  <2>3. Handled(t) BY <1>13 DEF CloseDocument
  <2> HIDE DEF t
  <2>4. tool' \in Sound /\ Between(counting)' /\ Between(inspecting)' /\ CountInv'
    BY <1>13, <2>2, <2>3, HandledKeeps DEF CloseDocument
  <2> QED BY <1>0, <1>13, <2>1, <2>4 DEF CloseDocument, IInv, WindowInv, CacheInv
<1>14. ASSUME ShowTool PROVE IInv'
  <2> DEFINE u == Synced(tool, selected)
             t == TakeContext(u, selected)
  <2>1. Follows(tool, u) BY <1>0, <1>s, RefreshFollows
  <2> HIDE DEF u
  <2>2. Follows(u, t) BY <1>s, <2>1, TakingFollows DEF Follows
  <2>3. Handled(t) BY <1>14 DEF ShowTool, u
  <2> HIDE DEF t
  <2>4. Follows(tool, t) BY <2>1, <2>2, FollowsTwice
  <2>5. tool' \in Sound /\ Between(counting)' /\ Between(inspecting)' /\ CountInv'
    BY <1>14, <2>3, <2>4, HandledKeeps DEF ShowTool
  <2> QED BY <1>0, <1>14, <2>5 DEF ShowTool, IInv, WindowInv, CacheInv
<1>15. ASSUME LeaveTool \/ StartOperation \/ OperationFinished PROVE IInv'
  <2>1. tool.input \in MaybePath BY <1>0 DEF Sound, Tools
  <2>2. UNCHANGED <<kind, disk, cache, listed, selected, tool, counting, inspecting>>
    BY <1>15 DEF LeaveTool, StartOperation, OperationFinished, window
  <2>3. shown' \in BOOLEAN /\ job' \in MaybePath
    BY <1>0, <1>15, <2>1 DEF LeaveTool, StartOperation, OperationFinished, window, WindowInv, MaybePath
  <2> QED BY <1>0, <2>2, <2>3, SameThread DEF IInv, WindowInv, CacheInv, CountInv
<1>16. ASSUME UNCHANGED vars PROVE IInv'
  BY <1>0, <1>16, SameThread DEF vars, window, IInv, WindowInv, CacheInv, CountInv
<1> QED
  BY <1>1, <1>2, <1>3, <1>4, <1>5, <1>6, <1>7, <1>8, <1>9, <1>10, <1>11, <1>12, <1>13, <1>14, <1>15, <1>16
  DEF Next, CountWorks, InspectionWorks, UserActs

LEMMA Invariant == Spec => []IInv
BY InitInv, StepInv, PTL DEF Spec

-----------------------------------------------------------------------------
\* The variables keep their types, and the runner of counts is busy exactly while its thread
\* has not delivered.
THEOREM TypeCorrect == Spec => []TypeOK
<1>1. IInv => TypeOK
  <2> SUFFICES ASSUME IInv PROVE TypeOK OBVIOUS
  <2>1. WindowInv /\ CacheInv /\ tool \in Sound /\ Between(counting) /\ Between(inspecting) /\ CountInv
    BY DEF IInv
  <2>2. TrueEntries \subseteq [file : Files, count : Versions \cup {Unread}, inspection : Versions \cup {Unread}]
    BY DEF TrueEntries, Entries, Reads
  <2>3. cache \in Seq([file : Files, count : Versions \cup {Unread}, inspection : Versions \cup {Unread}])
    BY <2>1, <2>2, SeqMonotonic DEF CacheInv
  <2> QED BY <2>1, <2>3
       DEF TypeOK, WindowInv, CacheInv, Sound, Tools, Reads, Between, CountInv, MaybePath
<1> QED BY Invariant, <1>1, PTL

\* What the cache tells of a version of a file was read from that version, for any number of
\* files, versions and entries, and with two threads that read and store while other programs
\* save (PageCountWorker.run, inspect_document_cached, DocumentMetadataCache).
THEOREM CacheIsTrue == Spec => []CacheTellsTheTruth
<1>1. IInv => CacheTellsTheTruth
  <2> SUFFICES ASSUME IInv PROVE CacheTellsTheTruth OBVIOUS
  <2>1. DOMAIN cache = 1 .. Len(cache) /\ \A i \in 1 .. Len(cache) : cache[i] \in TrueEntries
    BY LenProperties, ElementOfSeq DEF IInv, CacheInv
  <2> QED BY <2>1 DEF CacheTellsTheTruth, TrueEntries
<1> QED BY Invariant, <1>1, PTL

\* The page count a tool shows is one of its present input (_page_count_finished).
THEOREM CountIsOfThePresent == Spec => []CountIsOfTheInput
<1>1. IInv => CountIsOfTheInput BY DEF IInv, Sound, Told, CountIsOfTheInput
<1> QED BY Invariant, <1>1, PTL

-----------------------------------------------------------------------------
(* The plans of the tools on pages (PagePlans), for any numbers of pages,  *)
(* texts and limits of the outputs.                                        *)
LEMMA SameCardinality == \A S : Plans!Cardinality(S) = Cardinality(S)
BY DEF Plans!Cardinality, Cardinality

\* The order of the numbers, as a well-founded relation.
LEMMA LessOnNat ==
  \E less : IsWellFoundedOn(less, Nat) /\ \A k, m \in Nat : <<k, m>> \in less <=> k < m
<1>1. \A k, m \in Nat : (<<k, m>> \in OpToRel(<, Nat)) <=> k < m
  BY Zenon DEF OpToRel
<1> QED
  BY <1>1, NatLessThanWellFounded, Zenon

\* A set of numbers has a least one.
LEMMA Least ==
  ASSUME NEW S, S \subseteq Nat, S # {}
  PROVE \E m \in S : \A k \in S : m <= k
<1>1. PICK less : IsWellFoundedOn(less, Nat) /\ \A k, m \in Nat : <<k, m>> \in less <=> k < m
  BY LessOnNat, Zenon
<1>2. IsWellFoundedOn(less, Nat)
  BY <1>1
<1>3. PICK m \in S : \A k \in S : ~ (<<k, m>> \in less)
  BY <1>2, WFMin
<1>4. ASSUME NEW k \in S
      PROVE  m <= k
  <2>1. <<k, m>> \in less <=> k < m
    BY <1>1, Zenon
  <2>2. <<k, m>> \notin less
    BY <1>3, Zenon
  <2>3. ~(k < m)
    BY <2>1, <2>2, Zenon
  <2> QED
    BY <2>3
<1> QED
  BY <1>4

\* The pages of a source, or the outputs of a split, can be listed in order.
Listing(S) == {list \in [1 .. Cardinality(S) -> S] : Plans!Increasing(list)}

LEMMA EveryPartCanBeListed ==
  ASSUME NEW n \in Nat, NEW S \in SUBSET (1 .. n)
  PROVE  IsFiniteSet(S) /\ Cardinality(S) \in Nat /\ Listing(S) # {}
<1> DEFINE bad == {m \in Nat : \E T \in SUBSET (1 .. m) : Listing(T) = {}}
<1>0. \A m \in Nat : IsFiniteSet(1 .. m)
  BY FS_Interval
<1>1. bad = {}
  <2> SUFFICES ASSUME bad # {} PROVE FALSE
    OBVIOUS
  <2>1. bad \subseteq Nat
    OBVIOUS
  <2> HIDE DEF bad
  <2>2. PICK m \in bad : \A k \in bad : m <= k
    BY <2>1, Least
  <2>3. m \in Nat /\ \E T \in SUBSET (1 .. m) : Listing(T) = {}
    BY <2>2 DEF bad
  <2>4. PICK T \in SUBSET (1 .. m) : Listing(T) = {}
    BY <2>3
  <2>5. IsFiniteSet(T)
    BY <1>0, <2>3, FS_Subset
  <2>6. T # {}
    <3> SUFFICES ASSUME T = {} PROVE FALSE
      OBVIOUS
    <3>1. Cardinality(T) = 0
      BY FS_EmptySet
    <3>2. <<>> \in Listing(T)
      BY <3>1 DEF Listing, Plans!Increasing
    <3> QED
      BY <2>4, <3>2
  <2>7. m # 0 /\ m - 1 \in Nat
    <3>1. ASSUME m = 0 PROVE FALSE
      <4>1. T \subseteq 1 .. 0
        BY <3>1
      <4>2. 1 .. 0 = {}
        OBVIOUS
      <4> QED
        BY <2>6, <4>1, <4>2
    <3> QED
      BY <2>3, <3>1
  <2>8. m - 1 \notin bad
    BY <2>2, <2>3, <2>7
  <2>9. \A U \in SUBSET (1 .. m - 1) : Listing(U) # {}
    BY <2>7, <2>8 DEF bad
  <2> DEFINE U == T \ {m}
  <2>10. U \in SUBSET (1 .. m - 1)
    BY <2>3
  <2>11. PICK list : list \in Listing(U)
    BY <2>9, <2>10
  <2>12. m \in T
    <3> SUFFICES ASSUME m \notin T PROVE FALSE
      OBVIOUS
    <3>1. U = T
      OBVIOUS
    <3> QED
      BY <2>4, <2>11, <3>1
  <2>13. Cardinality(T) \in Nat /\ Cardinality(U) \in Nat /\ Cardinality(T) = Cardinality(U) + 1
    <3>1. IsFiniteSet(U) /\ Cardinality(U) = Cardinality(T) - 1
      BY <2>5, <2>12, FS_RemoveElement
    <3>2. Cardinality(T) \in Nat /\ Cardinality(U) \in Nat
      BY <2>5, <3>1, FS_CardinalityType
    <3> HIDE DEF U
    <3> QED
      BY <3>1, <3>2
  <2>14. list \in [1 .. Cardinality(U) -> U] /\ Plans!Increasing(list)
    BY <2>11 DEF Listing
  <2>18. U \subseteq T
    OBVIOUS
  <2> HIDE DEF U
  <2> DEFINE longer == [i \in 1 .. Cardinality(T) |-> IF i = Cardinality(T) THEN m ELSE list[i]]
  <2>15. longer \in [1 .. Cardinality(T) -> T]
    <3> SUFFICES ASSUME NEW i \in 1 .. Cardinality(T) PROVE longer[i] \in T
      OBVIOUS
    <3>1. CASE i = Cardinality(T)
      BY <2>12, <3>1
    <3>2. CASE i # Cardinality(T)
      <4>1. i \in 1 .. Cardinality(U)
        BY <2>13, <3>2
      <4>2. list[i] \in U
        BY <2>14, <4>1
      <4> QED
        BY <2>18, <3>2, <4>2
    <3> QED
      BY <3>1, <3>2
  <2>16. ASSUME NEW i \in 1 .. Cardinality(T), NEW j \in 1 .. Cardinality(T), i < j
         PROVE  longer[i] < longer[j]
    <3>1. i \in 1 .. Cardinality(U) /\ longer[i] = list[i] /\ list[i] \in 1 .. m - 1
      <4> DEFINE t == Cardinality(T)
      <4>1. i \in Nat /\ t \in Nat /\ i # t /\ i \in 1 .. Cardinality(U)
        BY <2>13, <2>16
      <4>2. longer[i] = list[i]
        BY <4>1
      <4>3. list[i] \in U
        BY <2>14, <4>1
      <4> QED
        BY <2>10, <4>1, <4>2, <4>3
    <3>2. CASE j = Cardinality(T)
      BY <2>3, <3>1, <3>2
    <3>3. CASE j # Cardinality(T)
      <4>1. j \in 1 .. Cardinality(U) /\ longer[j] = list[j]
        BY <2>13, <3>3
      <4>2. list[i] < list[j]
        BY <2>14, <2>16, <3>1, <4>1 DEF Plans!Increasing
      <4> QED
        BY <3>1, <4>1, <4>2
    <3> QED
      BY <3>2, <3>3
  <2>17. longer \in Listing(T)
    <3>1. DOMAIN longer = 1 .. Cardinality(T)
      OBVIOUS
    <3> HIDE DEF longer
    <3> QED
      BY <2>15, <2>16, <3>1 DEF Listing, Plans!Increasing
  <2> QED
    BY <2>4, <2>17
<1>2. IsFiniteSet(S) /\ Cardinality(S) \in Nat
  BY <1>0, FS_Subset, FS_CardinalityType
<1> QED
  BY <1>1, <1>2

LEMMA InOrderLists ==
  ASSUME NEW n \in Nat, NEW S \in SUBSET (1 .. n)
  PROVE  /\ Cardinality(S) \in Nat
         /\ Plans!InOrder(S) \in [1 .. Cardinality(S) -> S]
         /\ Plans!Increasing(Plans!InOrder(S))
         /\ Plans!ToSet(Plans!InOrder(S)) = S
         /\ S # {} => Plans!InOrder(S) # <<>>
<1> DEFINE order == Plans!InOrder(S)
<1>1. IsFiniteSet(S) /\ Cardinality(S) \in Nat /\ Listing(S) # {}
  BY EveryPartCanBeListed
<1>2. order \in [1 .. Cardinality(S) -> S] /\ Plans!Increasing(order)
  BY <1>1, SameCardinality DEF Listing, Plans!InOrder
<1> HIDE DEF order
<1>3. ASSUME NEW i \in 1 .. Cardinality(S), NEW j \in 1 .. Cardinality(S), order[i] = order[j]
      PROVE  i = j
  <2>1. i < j => order[i] < order[j]
    BY <1>2 DEF Plans!Increasing
  <2>2. j < i => order[j] < order[i]
    BY <1>2 DEF Plans!Increasing
  <2>3. order[i] \in S /\ order[j] \in S
    BY <1>2
  <2>4. order[i] \in Nat /\ order[j] \in Nat
    <3>1. \A p \in S : p \in Nat
      OBVIOUS
    <3> QED
      BY <2>3, <3>1
  <2> QED
    BY <1>1, <1>3, <2>1, <2>2, <2>4
<1>4. order \in Injection(1 .. Cardinality(S), S)
  BY <1>2, <1>3 DEF Injection, IsInjective
<1>5. Cardinality(1 .. Cardinality(S)) = Cardinality(S)
  BY <1>1, FS_Interval
<1>6. order \in Surjection(1 .. Cardinality(S), S)
  BY <1>1, <1>4, <1>5, FS_Injection
<1>7. Plans!ToSet(order) = S
  BY <1>2, <1>6 DEF Surjection, Plans!ToSet
<1>8. S # {} => order # <<>>
  BY <1>7 DEF Plans!ToSet
<1> QED
  BY <1>1, <1>2, <1>7, <1>8 DEF order

-----------------------------------------------------------------------------
(* The plans: what the page accepts is sound for the pages it counted.     *)

\* A part of consecutive pages is known by its ends.
LEMMA IntervalEnds ==
  ASSUME NEW a \in Nat, NEW b \in Nat, a <= b
  PROVE  LET part == Plans!Interval(a, b)
         IN  /\ DOMAIN part = 1 .. (b + 1 - a) /\ part # <<>>
             /\ Head(part) = a /\ Plans!Last(part) = b
             /\ Plans!ToSet(part) = a .. b
             /\ Plans!Increasing(part)
<1> DEFINE part == Plans!Interval(a, b)
           k == b + 1 - a
<1>1. k \in Nat /\ k >= 1
  OBVIOUS
<1>2. part = [i \in 1 .. k |-> a + i - 1]
  BY DEF Plans!Interval
<1>3. part \in [1 .. k -> Nat]
  BY <1>1, <1>2
<1>4. part \in Seq(Nat)
  BY <1>1, <1>3, SeqDef
<1>5. DOMAIN part = 1 .. k
  BY <1>2
<1>9. \A i \in 1 .. k : part[i] = a + i - 1
  BY <1>2
<1> HIDE DEF part
<1>6. Len(part) = k
  BY <1>1, <1>4, <1>5
<1>7. Head(part) = a /\ part # <<>>
  BY <1>1, <1>4, <1>5, <1>6, <1>9
<1>8. Plans!Last(part) = b
  BY <1>1, <1>6, <1>9 DEF Plans!Last
<1>10. Plans!ToSet(part) = a .. b
  <2>1. \A i \in 1 .. k : part[i] \in a .. b
    BY <1>9
  <2>2. \A p \in a .. b : p + 1 - a \in 1 .. k /\ part[p + 1 - a] = p
    BY <1>9
  <2> HIDE DEF k
  <2> QED
    BY <1>5, <2>1, <2>2 DEF Plans!ToSet
<1>11. Plans!Increasing(part)
  BY <1>5, <1>9 DEF Plans!Increasing
<1> QED
  BY <1>5, <1>7, <1>8, <1>10, <1>11 DEF part

\* A part ends before the next one begins.
InTurn(parts) ==
  \A i, j \in DOMAIN parts : i < j =>
    \A p \in Plans!ToSet(parts[i]), q \in Plans!ToSet(parts[j]) : p < q

\* Cutting n pages every size pages keeps each of them, once and in order.
LEMMA EveryNCutsInOrder ==
  ASSUME NEW n \in Nat \ {0}, NEW size \in Nat \ {0}
  PROVE  LET parts == Plans!EveryN(n, size)
         IN  /\ Plans!Pages(parts) = 1 .. n
             /\ \A i \in DOMAIN parts : parts[i] # <<>> /\ Plans!Increasing(parts[i])
             /\ Plans!Apart(parts) /\ InTurn(parts)
<1> DEFINE parts == Plans!EveryN(n, size)
           k == (n + size - 1) \div size
           first(i) == (i - 1) * size + 1
           last(i) == Plans!Min2(i * size, n)
<1>1. k \in Nat /\ k * size <= n + size - 1 /\ n + size - 1 < k * size + size
  <2> DEFINE m == n + size - 1
  <2>1. m \in Nat
    OBVIOUS
  <2> HIDE DEF m
  <2>2. (m \div size) \in Nat
    BY <2>1
  <2>3. (m \div size) * size <= m
    BY <2>1
  <2>4. m < (m \div size) * size + size
    BY <2>1
  <2> QED
    BY <2>2, <2>3, <2>4 DEF m
<1>2. DOMAIN parts = 1 .. k /\ \A i \in 1 .. k : parts[i] = Plans!Interval(first(i), last(i))
  BY DEF Plans!EveryN
<1> HIDE DEF parts, k
<1>3. ASSUME NEW i \in Nat, NEW j \in Nat, i <= j
      PROVE  i * size <= j * size /\ i * size \in Nat
  <2>1. i * size <= j * size
    BY <1>3
  <2>2. i * size \in Nat
    OBVIOUS
  <2> QED
    BY <2>1, <2>2
<1>4. ASSUME NEW i \in Int PROVE (i - 1) * size = i * size - size
  OBVIOUS
<1>5. ASSUME NEW i \in 1 .. k
      PROVE  /\ first(i) \in Nat \ {0} /\ last(i) \in Nat
             /\ first(i) <= last(i) /\ last(i) <= n /\ last(i) <= i * size
  <2>1. i \in Nat /\ i - 1 \in Nat /\ i <= k
    BY <1>1
  <2>2. (i - 1) * size = i * size - size
    BY <1>4, <2>1
  <2>3. i * size <= k * size /\ i * size \in Nat
    BY <1>1, <1>3, <2>1
  <2>4. k * size \in Nat /\ (i - 1) * size \in Nat
    BY <1>1, <1>3, <2>1
  <2> QED
    BY <1>1, <2>2, <2>3, <2>4 DEF Plans!Min2
<1>6. ASSUME NEW i \in 1 .. k
      PROVE  /\ Plans!ToSet(parts[i]) = first(i) .. last(i)
             /\ parts[i] # <<>> /\ Plans!Increasing(parts[i])
  <2> HIDE DEF first, last
  <2> QED
    BY <1>2, <1>5, IntervalEnds
<1>7. ASSUME NEW i \in 1 .. k, NEW j \in 1 .. k, i < j PROVE last(i) < first(j)
  <2>1. i \in Nat /\ j - 1 \in Nat /\ i <= j - 1
    BY <1>1, <1>7
  <2>2. i * size <= (j - 1) * size /\ i * size \in Nat /\ (j - 1) * size \in Nat
    BY <1>3, <2>1
  <2>3. last(i) <= i * size /\ last(i) \in Nat
    BY <1>5
  <2> HIDE DEF last
  <2> QED
    BY <2>2, <2>3
<1>8. InTurn(parts)
  <2> SUFFICES ASSUME NEW i \in 1 .. k, NEW j \in 1 .. k, i < j,
                      NEW p \in Plans!ToSet(parts[i]), NEW q \in Plans!ToSet(parts[j])
               PROVE  p < q
    BY <1>2 DEF InTurn
  <2>1. p \in first(i) .. last(i) /\ q \in first(j) .. last(j)
    BY <1>6
  <2>2. last(i) < first(j) /\ last(i) \in Nat /\ first(j) \in Nat
    BY <1>5, <1>7
  <2> HIDE DEF first, last
  <2> QED
    BY <2>1, <2>2
<1>9. Plans!Apart(parts)
  <2> SUFFICES ASSUME NEW i \in 1 .. k, NEW j \in 1 .. k, i # j, NEW p,
                      p \in Plans!ToSet(parts[i]), p \in Plans!ToSet(parts[j])
               PROVE  FALSE
    BY <1>2 DEF Plans!Apart
  <2>1. i < j \/ j < i
    OBVIOUS
  <2>2. p \in Nat
    <3>1. p \in first(i) .. last(i)
      BY <1>6
    <3> HIDE DEF first, last
    <3> QED
      BY <1>5, <3>1
  <2>3. i < j => p < p
    BY <1>2, <1>8 DEF InTurn
  <2>4. j < i => p < p
    BY <1>2, <1>8 DEF InTurn
  <2> QED
    BY <2>1, <2>2, <2>3, <2>4
<1>10. ASSUME NEW p \in 1 .. n PROVE \E i \in 1 .. k : p \in first(i) .. last(i)
  <2> DEFINE d == (p - 1) \div size
  <2>1. p - 1 \in Nat
    OBVIOUS
  <2>2. d \in Nat /\ d * size <= p - 1 /\ p - 1 < d * size + size
    <3> DEFINE m == p - 1
    <3> HIDE DEF m
    <3>0. m \in Nat
      BY <2>1 DEF m
    <3>1. (m \div size) \in Nat
      BY <3>0
    <3>2. (m \div size) * size <= m
      BY <3>0
    <3>3. m < (m \div size) * size + size
      BY <3>0
    <3> QED
      BY <3>1, <3>2, <3>3 DEF m
  <2> HIDE DEF d
  <2>3. (d + 1 - 1) * size = (d + 1) * size - size /\ d + 1 - 1 = d
    BY <1>4, <2>2
  <2>4. d + 1 <= k
    <3> SUFFICES ASSUME k <= d PROVE FALSE
      BY <1>1, <2>2
    <3>1. k * size <= d * size /\ k * size \in Nat
      BY <1>1, <1>3, <2>2
    <3>2. d * size \in Nat
      BY <1>3, <2>2
    <3> QED
      BY <1>1, <2>2, <3>1, <3>2
  <2>5. d + 1 \in 1 .. k
    BY <1>1, <2>2, <2>4
  <2>6. (d + 1) * size = d * size + size /\ d * size \in Nat
    <3>1. d * size \in Nat
      BY <1>3, <2>2
    <3>2. (d + 1) * size \in Nat
      BY <2>2, <1>3
    <3> QED
      BY <2>3, <3>1, <3>2
  <2>7. p \in first(d + 1) .. last(d + 1)
    BY <2>2, <2>3, <2>6 DEF Plans!Min2
  <2> HIDE DEF first, last
  <2> QED
    BY <2>5, <2>7
<1>11. Plans!Pages(parts) = 1 .. n
  <2>1. ASSUME NEW i \in 1 .. k PROVE first(i) .. last(i) \subseteq 1 .. n
    <3> HIDE DEF first, last
    <3> QED
      BY <1>5
  <2> HIDE DEF first, last
  <2> QED
    BY <1>2, <1>6, <1>10, <2>1 DEF Plans!Pages
<1> QED
  BY <1>2, <1>6, <1>8, <1>9, <1>11 DEF parts

\* The empty outputs of a split are left out, and adding one changes nothing.
IsList(g) == g \in Seq({g[i] : i \in DOMAIN g})

LEMMA EmptyOutputsAreLeftOut ==
  ASSUME NEW g, IsList(g)
  PROVE  /\ \A i \in DOMAIN Plans!NonEmpty(g) : Plans!NonEmpty(g)[i] # <<>>
         /\ Plans!NonEmpty(Append(g, <<>>)) = Plans!NonEmpty(g)
<1> DEFINE filled(list) == {i \in DOMAIN list : list[i] # <<>>}
           order == Plans!InOrder(filled(g))
           longer == Append(g, <<>>)
<1>1. Len(g) \in Nat /\ DOMAIN g = 1 .. Len(g)
  BY DEF IsList
<1>2. filled(g) \in SUBSET (1 .. Len(g))
  BY <1>1
<1>3. Plans!ToSet(order) = filled(g)
  <2> HIDE DEF filled
  <2> QED
    BY <1>1, <1>2, InOrderLists
<1>4. \A i \in DOMAIN order : order[i] \in filled(g)
  BY <1>3 DEF Plans!ToSet
<1>5. DOMAIN longer = 1 .. Len(g) + 1 /\ longer[Len(g) + 1] = <<>>
      /\ \A i \in 1 .. Len(g) : longer[i] = g[i]
  <2> DEFINE T == {g[i] : i \in DOMAIN g} \cup {<<>>}
  <2>1. g \in Seq(T)
    BY <1>1 DEF IsList
  <2>2. <<>> \in T
    OBVIOUS
  <2> HIDE DEF T
  <2> QED
    BY <2>1, <2>2, AppendProperties
<1> HIDE DEF longer
<1>6. filled(longer) = filled(g)
  BY <1>1, <1>5
<1>7. \A i \in DOMAIN order : longer[order[i]] = g[order[i]] /\ g[order[i]] # <<>>
  BY <1>1, <1>4, <1>5
<1>8. Plans!NonEmpty(g) = [i \in DOMAIN order |-> g[order[i]]]
  BY DEF Plans!NonEmpty
<1>9. Plans!NonEmpty(longer) = [i \in DOMAIN order |-> longer[order[i]]]
  BY <1>6 DEF Plans!NonEmpty
<1> HIDE DEF order
<1> QED
  BY <1>7, <1>8, <1>9 DEF longer

\* A plan for a source of n pages that leaves the engine nothing to refuse, but for a range
\* of a split that is named twice.
SoundPlan(plan, n) ==
  /\ Plans!Valid(plan.parts, n)
  /\ \A i \in DOMAIN plan.parts : plan.parts[i] # <<>>
  /\ operation # "split" => plan.kind = "pages" /\ DOMAIN plan.parts = {1}
  /\ operation = "split" => plan.kind \in {"groups", "ranges"}
  /\ operation = "remove" => Plans!ToSet(plan.parts[1]) # 1 .. n
  /\ plan.kind = "groups" => Plans!Apart(plan.parts)
  /\ plan.kind = "ranges" =>
       \A i, j \in DOMAIN plan.parts :
         /\ Head(plan.parts[i]) = Head(plan.parts[j])
         /\ Plans!Last(plan.parts[i]) = Plans!Last(plan.parts[j])
         => plan.parts[i] = plan.parts[j]

\* The settings as the handlers leave them.
AreSettings(t) ==
  t = [mode |-> t.mode, size |-> t.size, sizeMax |-> t.sizeMax, groups |-> t.groups,
       marked |-> t.marked, text |-> t.text, dirty |-> t.dirty, visible |-> t.visible]

TypedSettings(t) ==
  /\ AreSettings(t)
  /\ t.size \in Nat \ {0} /\ t.sizeMax \in Nat /\ IsList(t.groups)
  /\ t.text # <<>> /\ (operation = "split" \/ t.dirty) => t.text \in Texts

LEMMA OnePart ==
  ASSUME NEW list PROVE Plans!Pages(<<list>>) = Plans!ToSet(list) /\ DOMAIN <<list>> = {1}
BY DEF Plans!Pages

LEMMA TypedTextsAreSound ==
  ASSUME PlansConstants, NEW n \in Nat \ {0}, NEW t, TypedSettings(t), Plans!ManualRangeActive(t),
         Plans!ManualPlan(t, n) # Plans!NoPlan
  PROVE  SoundPlan(Plans!ManualPlan(t, n), n)
<1> DEFINE parts == Plans!Parsed(t.text)
           plan == Plans!ManualPlan(t, n)
<1>1. t.text # <<>> /\ (operation = "split" \/ t.dirty)
  BY DEF Plans!ManualRangeActive
<1>2. t.text \in Seq(Nat \X Nat)
  BY <1>1 DEF TypedSettings, PlansConstants
<1>3. Plans!Parses(t.text) /\ Plans!Valid(plan.parts, n)
      /\ ~(operation = "remove" /\ Plans!Pages(plan.parts) = 1 .. n)
  BY DEF Plans!ManualPlan
<1>4. operation = "split" => plan.kind = "ranges" /\ plan.parts = parts
  BY DEF Plans!ManualPlan, Plans!NoPlan
<1>5. operation # "split" => plan.kind = "pages" /\ plan.parts = <<Plans!FlattenSeq(parts)>>
  BY DEF Plans!ManualPlan, Plans!NoPlan
<1> HIDE DEF plan
<1>6. CASE operation = "split"
  <2>1. ASSUME NEW i \in DOMAIN parts
        PROVE  /\ parts[i] = Plans!Interval(t.text[i][1], t.text[i][2])
               /\ parts[i] # <<>> /\ Head(parts[i]) = t.text[i][1]
               /\ Plans!Last(parts[i]) = t.text[i][2]
    <3>1. i \in DOMAIN t.text /\ parts[i] = Plans!Interval(t.text[i][1], t.text[i][2])
      BY DEF Plans!Parsed
    <3>2. t.text[i] \in Nat \X Nat
      BY <1>2, <3>1
    <3>3. t.text[i][1] \in Nat /\ t.text[i][2] \in Nat /\ t.text[i][1] <= t.text[i][2]
      BY <1>3, <3>1, <3>2 DEF Plans!Parses
    <3> HIDE DEF parts
    <3> QED
      BY <3>1, <3>3, IntervalEnds
  <2> HIDE DEF parts
  <2> QED
    <3>1. plan.kind = "ranges" /\ plan.parts = parts
      BY <1>4, <1>6
    <3>2. ASSUME NEW i \in DOMAIN parts, NEW j \in DOMAIN parts,
                 Head(parts[i]) = Head(parts[j]), Plans!Last(parts[i]) = Plans!Last(parts[j])
          PROVE  parts[i] = parts[j]
      <4>1. t.text[i][1] = t.text[j][1] /\ t.text[i][2] = t.text[j][2]
        BY <2>1, <3>2
      <4>2. parts[i] = Plans!Interval(t.text[i][1], t.text[i][2])
            /\ parts[j] = Plans!Interval(t.text[j][1], t.text[j][2])
        BY <2>1
      <4> QED
        BY <4>1, <4>2
    <3>3. \A i \in DOMAIN parts : parts[i] # <<>>
      BY <2>1
    <3>4. Plans!Valid(parts, n)
      BY <1>3, <3>1
    <3>5. plan.kind # "groups" /\ operation # "remove"
      BY <1>6, <3>1
    <3>6. SoundPlan(plan, n)
      BY <1>6, <3>1, <3>2, <3>3, <3>4, <3>5, Zenon DEF SoundPlan
    <3> QED
      BY <3>6 DEF plan
<1>7. CASE operation # "split"
  <2> DEFINE list == Plans!FlattenSeq(parts)
  <2> HIDE DEF parts
  <2>1. plan.kind = "pages" /\ plan.parts = <<list>>
    BY <1>5, <1>7
  <2> HIDE DEF list
  <2>2. DOMAIN plan.parts = {1} /\ plan.parts[1] = list /\ Plans!Pages(plan.parts) = Plans!ToSet(list)
    BY <2>1, OnePart
  <2>3. list # <<>>
    BY <1>3, <2>2 DEF Plans!Valid, Plans!ToSet
  <2> QED
    <3>1. Plans!Valid(plan.parts, n)
      BY <1>3
    <3>2. \A i \in DOMAIN plan.parts : plan.parts[i] # <<>>
      BY <2>2, <2>3
    <3>3. operation = "remove" => Plans!ToSet(plan.parts[1]) # 1 .. n
      BY <1>3, <2>2
    <3>4. plan.kind # "groups" /\ plan.kind # "ranges"
      BY <2>1
    <3>5. SoundPlan(plan, n)
      BY <1>7, <2>1, <2>2, <3>1, <3>2, <3>3, <3>4, Zenon DEF SoundPlan
    <3> QED
      BY <3>5 DEF plan
<1> QED
  BY <1>6, <1>7 DEF plan

LEMMA SplitsAreSound ==
  ASSUME NEW n \in Nat \ {0}, NEW t, TypedSettings(t), operation = "split",
         Plans!SplitPlan(t, n) # Plans!NoPlan
  PROVE  SoundPlan(Plans!SplitPlan(t, n), n)
<1> DEFINE plan == Plans!SplitPlan(t, n)
           size == IF t.mode = "every_n" THEN t.size ELSE 1
<1>1. CASE t.mode = "groups"
  <2> DEFINE groups == Plans!NonEmpty(t.groups)
  <2>1. plan = [kind |-> "groups", parts |-> groups] /\ Plans!Apart(groups) /\ Plans!Valid(groups, n)
    BY <1>1 DEF Plans!SplitPlan, Plans!GroupsPlan
  <2>2. \A i \in DOMAIN groups : groups[i] # <<>>
    BY EmptyOutputsAreLeftOut DEF TypedSettings
  <2> HIDE DEF groups, plan
  <2>3. SoundPlan(plan, n)
    BY <2>1, <2>2 DEF SoundPlan
  <2> QED
    BY <2>3 DEF plan
<1>2. CASE t.mode # "groups"
  <2> DEFINE parts == Plans!EveryN(n, size)
  <2>1. size \in Nat \ {0}
    BY DEF TypedSettings
  <2>2. plan = [kind |-> "groups", parts |-> parts]
    BY <1>2 DEF Plans!SplitPlan
  <2> HIDE DEF size, plan
  <2>3. Plans!Pages(parts) = 1 .. n /\ Plans!Apart(parts) /\ \A i \in DOMAIN parts : parts[i] # <<>>
    BY <2>1, EveryNCutsInOrder
  <2> HIDE DEF parts
  <2>4. Plans!Valid(parts, n)
    BY <2>3 DEF Plans!Valid
  <2>5. SoundPlan(plan, n)
    BY <2>2, <2>3, <2>4 DEF SoundPlan
  <2> QED
    BY <2>5 DEF plan
<1> QED
  BY <1>1, <1>2

LEMMA MarkedPagesAreSound ==
  ASSUME NEW n \in Nat \ {0}, NEW t, operation # "split", Plans!MarkedPlan(t, n) # Plans!NoPlan
  PROVE  SoundPlan(Plans!MarkedPlan(t, n), n)
<1> DEFINE plan == Plans!MarkedPlan(t, n)
<1>1. plan = [kind |-> "pages", parts |-> <<t.marked>>] /\ Plans!Valid(<<t.marked>>, n)
      /\ ~(operation = "remove" /\ Plans!ToSet(t.marked) = 1 .. n)
  BY DEF Plans!MarkedPlan
<1> HIDE DEF plan
<1>2. Plans!Pages(plan.parts) = Plans!ToSet(t.marked) /\ DOMAIN plan.parts = {1}
      /\ plan.parts[1] = t.marked
  BY <1>1, OnePart
<1>3. t.marked # <<>>
  BY <1>1, <1>2 DEF Plans!Valid, Plans!ToSet
<1>4. SoundPlan(plan, n)
  BY <1>1, <1>2, <1>3 DEF SoundPlan
<1> QED
  BY <1>4 DEF plan

LEMMA PlansAreSound ==
  ASSUME PlansConstants, NEW n \in PageCounts, NEW t, TypedSettings(t), Plans!Plan(t, n) # Plans!NoPlan
  PROVE  SoundPlan(Plans!Plan(t, n), n)
<1>1. n \in Nat \ {0}
  BY DEF PlansConstants
<1>2. CASE Plans!ManualRangeActive(t)
  <2>1. Plans!Plan(t, n) = Plans!ManualPlan(t, n)
    BY <1>1, <1>2 DEF Plans!Plan
  <2> QED
    BY <1>1, <1>2, <2>1, TypedTextsAreSound
<1>3. CASE ~Plans!ManualRangeActive(t) /\ operation = "split"
  <2>1. Plans!Plan(t, n) = Plans!SplitPlan(t, n)
    BY <1>1, <1>3 DEF Plans!Plan
  <2> QED
    BY <1>1, <1>3, <2>1, SplitsAreSound
<1>4. CASE ~Plans!ManualRangeActive(t) /\ operation # "split"
  <2>1. Plans!Plan(t, n) = Plans!MarkedPlan(t, n)
    BY <1>1, <1>4 DEF Plans!Plan
  <2> QED
    BY <1>1, <1>4, <2>1, MarkedPagesAreSound
<1> QED
  BY <1>2, <1>3, <1>4

-----------------------------------------------------------------------------
(* The steps.                                                              *)

\* A job is what it was started as, and fits the source that was counted.
IsJob(j) ==
  j = [kind |-> j.kind, plan |-> j.plan, target |-> j.target, announced |-> j.announced,
       counted |-> j.counted, replaced |-> j.replaced]

Fits(j) ==
  /\ j.kind = operation /\ j.counted \in PageCounts
  /\ SoundPlan(j.plan, j.counted)
  /\ operation = "split" /\ portable => j.announced = Plans!Names(j.plan, j.target)

\* The settings are still those of the job, unless the source was given anew.
OfTheSettings(j) ==
  j.replaced \/ (counted # 0 /\ counted = j.counted /\ j.plan = Plans!Plan(settings, counted))

\* What a success shows was written from a source of some number of pages.
Made(result) ==
  \E n \in PageCounts :
    LET names == Plans!Names(result.job.plan, result.job.target)
        contents == Plans!Contents(result.job.kind, result.job.plan, n)
    IN  /\ <<>> \notin Plans!ToSet(contents)
        /\ result.files = [i \in DOMAIN names |-> [name |-> names[i], pages |-> contents[i]]]

\* The outputs of a split made by dragging may change without the page hearing of it, its
\* other settings may not.
PlansInv ==
  /\ onDisk \in PageCounts /\ counted \in PageCounts \cup {0}
  /\ TypedSettings(settings)
  /\ IsJob(planned) /\ bar = [offered |-> bar.offered, result |-> bar.result]
  /\ unheard /\ operation = "split" => settings.mode = "groups"
  /\ planned.kind # "none" => Fits(planned) /\ OfTheSettings(planned)
  /\ bar.result.shown =>
       /\ Fits(bar.result.job) /\ Made(bar.result)
       /\ unheard \/ OfTheSettings(bar.result.job)

LEMMA PlansStart ==
  ASSUME PlansConstants PROVE Plans!Init => PlansInv
<1> SUFFICES ASSUME Plans!Init PROVE PlansInv
  OBVIOUS
<1> USE DEF Plans!Init
<1>1. onDisk \in PageCounts /\ counted = 0 /\ planned = Plans!NoJob /\ ~bar.result.shown /\ ~unheard
      /\ planned.kind = "none"
  BY DEF Plans!NoResult, Plans!NoJob
<1>2. IsJob(planned)
  BY <1>1 DEF IsJob, Plans!NoJob
<1>3. bar = [offered |-> bar.offered, result |-> bar.result]
  OBVIOUS
<1>4. AreSettings(settings)
  BY DEF AreSettings
<1>5. settings.groups = << <<>>, <<>> >> /\ settings.size = 2 /\ settings.sizeMax = 2
      /\ settings.text = <<>>
  OBVIOUS
<1>6. IsList(<< <<>>, <<>> >>)
  BY DEF IsList
<1>7. TypedSettings(settings)
  BY <1>4, <1>5, <1>6 DEF TypedSettings
<1> QED
  BY <1>1, <1>2, <1>3, <1>7 DEF PlansInv

\* A list with other values is a list.
LEMMA ListsKeepTheirPlaces ==
  ASSUME NEW g, IsList(g), NEW h, DOMAIN h = DOMAIN g, h = [i \in DOMAIN h |-> h[i]]
  PROVE  IsList(h)
<1>1. Len(g) \in Nat /\ DOMAIN g = 1 .. Len(g)
  BY DEF IsList
<1> DEFINE T == {h[i] : i \in DOMAIN h}
<1>2. h \in [1 .. Len(g) -> T]
  BY <1>1
<1>3. h \in Seq(T)
  <2> HIDE DEF T
  <2> QED
    BY <1>1, <1>2, SeqDef
<1> QED
  BY <1>3 DEF IsList

\* What a handler makes of the settings, one field at a time.
LEMMA SettingsChangeByField ==
  ASSUME NEW t, AreSettings(t), NEW x
  PROVE  /\ [t EXCEPT !.mode = x] = [mode |-> x, size |-> t.size, sizeMax |-> t.sizeMax,
              groups |-> t.groups, marked |-> t.marked, text |-> t.text, dirty |-> t.dirty,
              visible |-> t.visible]
         /\ [t EXCEPT !.size = x] = [mode |-> t.mode, size |-> x, sizeMax |-> t.sizeMax,
              groups |-> t.groups, marked |-> t.marked, text |-> t.text, dirty |-> t.dirty,
              visible |-> t.visible]
         /\ [t EXCEPT !.groups = x] = [mode |-> t.mode, size |-> t.size, sizeMax |-> t.sizeMax,
              groups |-> x, marked |-> t.marked, text |-> t.text, dirty |-> t.dirty,
              visible |-> t.visible]
         /\ [t EXCEPT !.marked = x] = [mode |-> t.mode, size |-> t.size, sizeMax |-> t.sizeMax,
              groups |-> t.groups, marked |-> x, text |-> t.text, dirty |-> t.dirty,
              visible |-> t.visible]
         /\ [t EXCEPT !.text = x] = [mode |-> t.mode, size |-> t.size, sizeMax |-> t.sizeMax,
              groups |-> t.groups, marked |-> t.marked, text |-> x, dirty |-> t.dirty,
              visible |-> t.visible]
BY DEF AreSettings

LEMMA SettingsChangeByFlag ==
  ASSUME NEW t, AreSettings(t), NEW x
  PROVE  /\ [t EXCEPT !.sizeMax = x] = [mode |-> t.mode, size |-> t.size, sizeMax |-> x,
              groups |-> t.groups, marked |-> t.marked, text |-> t.text, dirty |-> t.dirty,
              visible |-> t.visible]
         /\ [t EXCEPT !.dirty = x] = [mode |-> t.mode, size |-> t.size, sizeMax |-> t.sizeMax,
              groups |-> t.groups, marked |-> t.marked, text |-> t.text, dirty |-> x,
              visible |-> t.visible]
         /\ [t EXCEPT !.visible = x] = [mode |-> t.mode, size |-> t.size, sizeMax |-> t.sizeMax,
              groups |-> t.groups, marked |-> t.marked, text |-> t.text, dirty |-> t.dirty,
              visible |-> x]
BY DEF AreSettings

\* Other outputs, other marked pages and the expression that follows them.
LEMMA SyncedSettingsAreTyped ==
  ASSUME NEW t, TypedSettings(t), NEW x
  PROVE  /\ TypedSettings(Plans!Synced(t))
         /\ TypedSettings([t EXCEPT !.marked = x])
         /\ IsList(x) => TypedSettings([t EXCEPT !.groups = x])
<1> DEFINE text == IF operation = "split" THEN <<>> ELSE Plans!RangesOf(Plans!ToSet(t.marked))
<1>1. AreSettings(t)
  BY DEF TypedSettings
<1>2. ASSUME t.dirty PROVE TypedSettings(Plans!Synced(t))
  <2>1. Plans!Synced(t) = t
    BY <1>2 DEF Plans!Synced
  <2> QED
    BY <2>1
<1>3. ASSUME ~t.dirty PROVE TypedSettings(Plans!Synced(t))
  <2>1. Plans!Synced(t) = [t EXCEPT !.text = text]
    BY <1>3 DEF Plans!Synced
  <2>2. operation = "split" => text = <<>>
    OBVIOUS
  <2> HIDE DEF text
  <2> DEFINE u == [t EXCEPT !.text = text]
  <2>3. u = [mode |-> t.mode, size |-> t.size, sizeMax |-> t.sizeMax, groups |-> t.groups,
             marked |-> t.marked, text |-> text, dirty |-> t.dirty, visible |-> t.visible]
    BY <1>1, SettingsChangeByField
  <2> HIDE DEF u
  <2>4. AreSettings(u) /\ u.size = t.size /\ u.sizeMax = t.sizeMax /\ u.groups = t.groups
        /\ u.text = text /\ u.dirty = t.dirty
    BY <2>3 DEF AreSettings
  <2>5. TypedSettings(u)
    BY <1>3, <2>2, <2>4 DEF TypedSettings
  <2> QED
    BY <2>1, <2>5 DEF u
<1>4. TypedSettings([t EXCEPT !.marked = x])
  <2> DEFINE u == [t EXCEPT !.marked = x]
  <2>1. u = [mode |-> t.mode, size |-> t.size, sizeMax |-> t.sizeMax, groups |-> t.groups,
             marked |-> x, text |-> t.text, dirty |-> t.dirty, visible |-> t.visible]
    BY <1>1, SettingsChangeByField
  <2> HIDE DEF u
  <2>2. AreSettings(u) /\ u.size = t.size /\ u.sizeMax = t.sizeMax /\ u.groups = t.groups
        /\ u.text = t.text /\ u.dirty = t.dirty
    BY <2>1 DEF AreSettings
  <2>3. TypedSettings(u)
    BY <2>2 DEF TypedSettings
  <2> QED
    BY <2>3 DEF u
<1>5. ASSUME IsList(x) PROVE TypedSettings([t EXCEPT !.groups = x])
  <2> DEFINE u == [t EXCEPT !.groups = x]
  <2>1. u = [mode |-> t.mode, size |-> t.size, sizeMax |-> t.sizeMax, groups |-> x,
             marked |-> t.marked, text |-> t.text, dirty |-> t.dirty, visible |-> t.visible]
    BY <1>1, SettingsChangeByField
  <2> HIDE DEF u
  <2>2. AreSettings(u) /\ u.size = t.size /\ u.sizeMax = t.sizeMax /\ u.groups = x
        /\ u.text = t.text /\ u.dirty = t.dirty
    BY <2>1 DEF AreSettings
  <2>3. TypedSettings(u)
    BY <1>5, <2>2 DEF TypedSettings
  <2> QED
    BY <2>3 DEF u
<1> QED
  BY <1>2, <1>3, <1>4, <1>5

\* The plan depends on the settings, on the count and on the tool, which does not change.
LEMMA PlanIsKept ==
  ASSUME UNCHANGED <<operation, settings, counted>>
  PROVE  Plans!Plan(settings, counted)' = Plans!Plan(settings, counted)
BY DEF Plans!Plan, Plans!ManualRangeActive, Plans!ManualPlan, Plans!SplitPlan, Plans!MarkedPlan

LEMMA JobsStayFit ==
  ASSUME UNCHANGED <<operation, portable>>, NEW j, Fits(j)
  PROVE  Fits(j)'
BY DEF Fits, SoundPlan

\* What a result shows does not change, and stays of the settings when these do not.
LEMMA ResultStaysFit ==
  ASSUME UNCHANGED <<operation, portable>>, bar'.result = bar.result,
         Fits(bar.result.job), Made(bar.result)
  PROVE  Fits(bar.result.job)' /\ Made(bar.result)'
<1>1. Fits(bar.result.job)'
  BY DEF Fits, SoundPlan
<1>2. Made(bar.result)'
  BY DEF Made
<1> QED
  BY <1>1, <1>2

\* A handler that ends with clear_result.
LEMMA EditsKeepPlansInv ==
  ASSUME PlansInv, Plans!Editing, NEW t, TypedSettings(t), Plans!Edited(t)
  PROVE  PlansInv'
<1>1. settings' = t /\ ~unheard' /\ planned' = planned /\ planned.kind = "none"
      /\ UNCHANGED <<operation, portable, onDisk, counted, folder, target>>
  BY DEF Plans!Edited, Plans!Editing, Plans!constant, Plans!files
<1>2. bar' = [offered |-> bar'.offered, result |-> bar'.result] /\ ~bar'.result.shown
  BY DEF Plans!Edited, Plans!Offer, Plans!NoResult
<1>3. TypedSettings(settings)'
  BY <1>1 DEF TypedSettings, AreSettings, IsList
<1> QED
  BY <1>1, <1>2, <1>3 DEF PlansInv, IsJob

\* A handler that says nothing to the page.
LEMMA UnheardEditsKeepPlansInv ==
  ASSUME PlansInv, Plans!Editing, NEW t, TypedSettings(t), Plans!EditedUnheard(t),
         operation = "split" => t.mode = "groups"
  PROVE  PlansInv'
<1>1. settings' = t /\ unheard' /\ planned' = planned /\ planned.kind = "none" /\ bar' = bar
      /\ UNCHANGED <<operation, portable, onDisk, counted, folder, target>>
  BY DEF Plans!EditedUnheard, Plans!Editing, Plans!constant, Plans!files
<1>2. TypedSettings(settings)'
  BY <1>1 DEF TypedSettings, AreSettings, IsList
<1>3. bar.result.shown => Fits(bar.result.job)' /\ Made(bar.result)'
  BY <1>1, ResultStaysFit DEF PlansInv
<1> QED
  BY <1>1, <1>2, <1>3 DEF PlansInv, IsJob

\* The settings, with other outputs.
LEMMA OtherOutputs ==
  ASSUME PlansInv, NEW h, DOMAIN h = DOMAIN settings.groups, h = [i \in DOMAIN h |-> h[i]]
  PROVE  TypedSettings([settings EXCEPT !.groups = h])
<1>1. IsList(h)
  BY ListsKeepTheirPlaces DEF PlansInv, TypedSettings
<1> QED
  BY <1>1, SyncedSettingsAreTyped DEF PlansInv

LEMMA DropsKeepPlansInv ==
  ASSUME PlansInv, NEW g \in DOMAIN settings.groups, NEW pages, NEW index,
         Plans!SplitPagesDropped(g, pages, index)
  PROVE  PlansInv'
<1> DEFINE groups == Plans!DroppedOn(settings.groups, g, pages, index)
           t == [settings EXCEPT !.groups = groups]
<1>1. DOMAIN groups = DOMAIN settings.groups /\ groups = [i \in DOMAIN groups |-> groups[i]]
  BY DEF Plans!DroppedOn
<1>2. Plans!Editing /\ Plans!Edited(Plans!Synced(t))
  BY DEF Plans!SplitPagesDropped
<1> HIDE DEF groups
<1>3. TypedSettings(t)
  BY <1>1, OtherOutputs
<1> HIDE DEF t
<1>4. TypedSettings(Plans!Synced(t))
  BY <1>3, SyncedSettingsAreTyped
<1> QED
  BY <1>2, <1>4, EditsKeepPlansInv

LEMMA CopiesKeepPlansInv ==
  ASSUME PlansInv, NEW g \in DOMAIN settings.groups, NEW h, NEW page,
         Plans!OutputPageCopied(g, h, page)
  PROVE  PlansInv'
<1> DEFINE groups == [settings.groups EXCEPT ![g] = Append(settings.groups[g], page)]
           t == [settings EXCEPT !.groups = groups]
<1>1. DOMAIN groups = DOMAIN settings.groups /\ groups = [i \in DOMAIN groups |-> groups[i]]
  OBVIOUS
<1>2. Plans!Editing /\ Plans!EditedUnheard(t) /\ settings.mode = "groups"
  BY DEF Plans!OutputPageCopied
<1> HIDE DEF groups
<1>3. TypedSettings(t)
  BY <1>1, OtherOutputs
<1>4. t.mode = settings.mode
  BY SettingsChangeByField DEF PlansInv, TypedSettings
<1> HIDE DEF t
<1> QED
  BY <1>2, <1>3, <1>4, UnheardEditsKeepPlansInv

LEMMA OutputMovesKeepPlansInv ==
  ASSUME PlansInv, NEW g \in DOMAIN settings.groups, NEW from, NEW index,
         Plans!OutputPageMoved(g, from, index)
  PROVE  PlansInv'
<1> DEFINE groups == [settings.groups EXCEPT ![g] = Plans!Moved(settings.groups[g], from, index)]
           t == [settings EXCEPT !.groups = groups]
<1>1. DOMAIN groups = DOMAIN settings.groups /\ groups = [i \in DOMAIN groups |-> groups[i]]
  OBVIOUS
<1>2. Plans!Editing /\ Plans!Edited(Plans!Synced(t))
  BY DEF Plans!OutputPageMoved
<1> HIDE DEF groups
<1>3. TypedSettings(t)
  BY <1>1, OtherOutputs
<1> HIDE DEF t
<1>4. TypedSettings(Plans!Synced(t))
  BY <1>3, SyncedSettingsAreTyped
<1> QED
  BY <1>2, <1>4, EditsKeepPlansInv

LEMMA OutputRemovalsKeepPlansInv ==
  ASSUME PlansInv, NEW g \in DOMAIN settings.groups, NEW page, Plans!OutputPageRemoved(g, page)
  PROVE  PlansInv'
<1> DEFINE groups == [settings.groups EXCEPT ![g] = Plans!Without(settings.groups[g], {page})]
           t == [settings EXCEPT !.groups = groups]
<1>1. DOMAIN groups = DOMAIN settings.groups /\ groups = [i \in DOMAIN groups |-> groups[i]]
  OBVIOUS
<1>2. Plans!Editing /\ Plans!Edited(Plans!Synced(t))
  BY DEF Plans!OutputPageRemoved
<1> HIDE DEF groups
<1>3. TypedSettings(t)
  BY <1>1, OtherOutputs
<1> HIDE DEF t
<1>4. TypedSettings(Plans!Synced(t))
  BY <1>3, SyncedSettingsAreTyped
<1> QED
  BY <1>2, <1>4, EditsKeepPlansInv

\* Extracting and removing mark pages.
LEMMA MarksKeepPlansInv ==
  ASSUME PlansInv, Plans!Editing, NEW x, Plans!Edited(Plans!Synced([settings EXCEPT !.marked = x]))
  PROVE  PlansInv'
<1> DEFINE t == [settings EXCEPT !.marked = x]
<1>1. TypedSettings(t)
  BY SyncedSettingsAreTyped DEF PlansInv
<1> HIDE DEF t
<1>2. TypedSettings(Plans!Synced(t))
  BY <1>1, SyncedSettingsAreTyped
<1>3. Plans!Edited(Plans!Synced(t))
  BY DEF t
<1> QED
  BY <1>2, <1>3, EditsKeepPlansInv

LEMMA MarkingKeepsPlansInv ==
  ASSUME PlansInv, NEW pages, NEW index, NEW from, NEW page,
         \/ Plans!ExtractPagesDropped(pages, index) \/ Plans!ExtractPageMoved(from, index)
         \/ Plans!SourcePageClicked(page) \/ Plans!ExtractPageRemoved(page)
  PROVE  PlansInv'
<1>1. CASE Plans!ExtractPagesDropped(pages, index)
  BY <1>1, MarksKeepPlansInv DEF Plans!ExtractPagesDropped
<1>2. CASE Plans!ExtractPageMoved(from, index)
  BY <1>2, MarksKeepPlansInv DEF Plans!ExtractPageMoved
<1>3. CASE Plans!SourcePageClicked(page)
  BY <1>3, MarksKeepPlansInv DEF Plans!SourcePageClicked
<1>4. CASE Plans!ExtractPageRemoved(page)
  BY <1>4, MarksKeepPlansInv DEF Plans!ExtractPageRemoved
<1> QED
  BY <1>1, <1>2, <1>3, <1>4

LEMMA TypingKeepsPlansInv ==
  ASSUME PlansInv, NEW text \in Texts, Plans!ManualTextEdited(text)
  PROVE  PlansInv'
<1> DEFINE t == [settings EXCEPT !.text = text, !.dirty = TRUE]
<1>1. Plans!Editing /\ Plans!Edited(t)
  BY DEF Plans!ManualTextEdited
<1>2. AreSettings(settings)
  BY DEF PlansInv, TypedSettings
<1>3. t = [mode |-> settings.mode, size |-> settings.size, sizeMax |-> settings.sizeMax,
           groups |-> settings.groups, marked |-> settings.marked, text |-> text, dirty |-> TRUE,
           visible |-> settings.visible]
  <2> DEFINE u == [settings EXCEPT !.text = text]
  <2>1. t = [u EXCEPT !.dirty = TRUE]
    OBVIOUS
  <2>2. u = [mode |-> settings.mode, size |-> settings.size, sizeMax |-> settings.sizeMax,
             groups |-> settings.groups, marked |-> settings.marked, text |-> text,
             dirty |-> settings.dirty, visible |-> settings.visible]
    BY <1>2, SettingsChangeByField
  <2> HIDE DEF u, t
  <2>3. AreSettings(u) /\ u.mode = settings.mode /\ u.size = settings.size
        /\ u.sizeMax = settings.sizeMax /\ u.groups = settings.groups
        /\ u.marked = settings.marked /\ u.text = text /\ u.visible = settings.visible
    BY <2>2 DEF AreSettings
  <2>4. t = [mode |-> u.mode, size |-> u.size, sizeMax |-> u.sizeMax, groups |-> u.groups,
             marked |-> u.marked, text |-> u.text, dirty |-> TRUE, visible |-> u.visible]
    BY <2>1, <2>3, SettingsChangeByFlag
  <2> QED
    BY <2>3, <2>4
<1> HIDE DEF t
<1>4. AreSettings(t) /\ t.size = settings.size /\ t.sizeMax = settings.sizeMax
      /\ t.groups = settings.groups /\ t.text = text
  BY <1>3 DEF AreSettings
<1>5. TypedSettings(t)
  BY <1>4 DEF TypedSettings, PlansInv
<1> QED
  BY <1>1, <1>5, EditsKeepPlansInv

LEMMA ModesKeepPlansInv ==
  ASSUME PlansInv, NEW mode, Plans!SplitModeChanged(mode)
  PROVE  PlansInv'
<1> DEFINE t == [settings EXCEPT !.mode = mode]
<1>1. Plans!Editing /\ Plans!Edited(t)
  BY DEF Plans!SplitModeChanged
<1>2. AreSettings(settings)
  BY DEF PlansInv, TypedSettings
<1>3. t = [mode |-> mode, size |-> settings.size, sizeMax |-> settings.sizeMax,
           groups |-> settings.groups, marked |-> settings.marked, text |-> settings.text,
           dirty |-> settings.dirty, visible |-> settings.visible]
  BY <1>2, SettingsChangeByField
<1> HIDE DEF t
<1>4. AreSettings(t) /\ t.size = settings.size /\ t.sizeMax = settings.sizeMax
      /\ t.groups = settings.groups /\ t.text = settings.text /\ t.dirty = settings.dirty
  BY <1>3 DEF AreSettings
<1>5. TypedSettings(t)
  BY <1>4 DEF TypedSettings, PlansInv
<1> QED
  BY <1>1, <1>5, EditsKeepPlansInv

LEMMA SizesKeepPlansInv ==
  ASSUME PlansInv, NEW size, Plans!SplitSizeChanged(size)
  PROVE  PlansInv'
<1> DEFINE t == [settings EXCEPT !.size = size]
<1>1. Plans!Editing /\ Plans!Edited(t) /\ size \in 1 .. settings.sizeMax
  BY DEF Plans!SplitSizeChanged
<1>2. AreSettings(settings) /\ settings.sizeMax \in Nat
  BY DEF PlansInv, TypedSettings
<1>3. t = [mode |-> settings.mode, size |-> size, sizeMax |-> settings.sizeMax,
           groups |-> settings.groups, marked |-> settings.marked, text |-> settings.text,
           dirty |-> settings.dirty, visible |-> settings.visible]
  BY <1>2, SettingsChangeByField
<1> HIDE DEF t
<1>4. AreSettings(t) /\ t.size = size /\ t.sizeMax = settings.sizeMax
      /\ t.groups = settings.groups /\ t.text = settings.text /\ t.dirty = settings.dirty
  BY <1>3 DEF AreSettings
<1>5. size \in Nat \ {0}
  BY <1>1, <1>2
<1>6. TypedSettings(t)
  BY <1>4, <1>5 DEF TypedSettings, PlansInv
<1> QED
  BY <1>1, <1>6, EditsKeepPlansInv

LEMMA TogglesKeepPlansInv ==
  ASSUME PlansInv, Plans!ToggleAdvanced
  PROVE  PlansInv'
<1> DEFINE t == [settings EXCEPT !.visible = ~settings.visible]
<1>1. Plans!Editing /\ Plans!EditedUnheard(t) /\ operation # "split"
  BY DEF Plans!ToggleAdvanced
<1>2. AreSettings(settings)
  BY DEF PlansInv, TypedSettings
<1>3. t = [mode |-> settings.mode, size |-> settings.size, sizeMax |-> settings.sizeMax,
           groups |-> settings.groups, marked |-> settings.marked, text |-> settings.text,
           dirty |-> settings.dirty, visible |-> ~settings.visible]
  BY <1>2, SettingsChangeByFlag
<1> HIDE DEF t
<1>4. AreSettings(t) /\ t.size = settings.size /\ t.sizeMax = settings.sizeMax
      /\ t.groups = settings.groups /\ t.text = settings.text /\ t.dirty = settings.dirty
  BY <1>3 DEF AreSettings
<1>5. TypedSettings(t)
  BY <1>4 DEF TypedSettings, PlansInv
<1> QED
  BY <1>1, <1>5, UnheardEditsKeepPlansInv

\* Without an expression, which nobody edited.
LEMMA ForgottenTextIsTyped ==
  ASSUME NEW t, TypedSettings(t)
  PROVE  TypedSettings([t EXCEPT !.text = <<>>, !.dirty = FALSE])
<1> DEFINE u == [t EXCEPT !.text = <<>>]
           v == [t EXCEPT !.text = <<>>, !.dirty = FALSE]
<1>1. v = [u EXCEPT !.dirty = FALSE]
  OBVIOUS
<1>2. AreSettings(t)
  BY DEF TypedSettings
<1>3. u = [mode |-> t.mode, size |-> t.size, sizeMax |-> t.sizeMax, groups |-> t.groups,
           marked |-> t.marked, text |-> <<>>, dirty |-> t.dirty, visible |-> t.visible]
  BY <1>2, SettingsChangeByField
<1> HIDE DEF u, v
<1>4. AreSettings(u) /\ u.size = t.size /\ u.sizeMax = t.sizeMax /\ u.groups = t.groups
      /\ u.text = <<>>
  BY <1>3 DEF AreSettings
<1>5. v = [mode |-> u.mode, size |-> u.size, sizeMax |-> u.sizeMax, groups |-> u.groups,
           marked |-> u.marked, text |-> u.text, dirty |-> FALSE, visible |-> u.visible]
  BY <1>1, <1>4, SettingsChangeByFlag
<1>6. AreSettings(v) /\ v.size = t.size /\ v.sizeMax = t.sizeMax /\ v.groups = t.groups
      /\ v.text = <<>>
  BY <1>4, <1>5 DEF AreSettings
<1>7. TypedSettings(v)
  BY <1>6 DEF TypedSettings
<1> QED
  BY <1>7 DEF v

\* A new output is empty: the plan is what it was.
LEMMA AddedOutputsKeepPlansInv ==
  ASSUME PlansInv, Plans!AddSplitGroup
  PROVE  PlansInv'
<1> DEFINE groups == Append(settings.groups, <<>>)
           t == [settings EXCEPT !.groups = groups]
<1>1. settings' = t /\ planned.kind = "none" /\ operation = "split" /\ settings.mode = "groups"
      /\ bar' = [offered |-> bar'.offered, result |-> bar.result]
      /\ UNCHANGED <<operation, portable, onDisk, counted, folder, target, planned, unheard>>
  BY DEF Plans!AddSplitGroup, Plans!Editing, Plans!Offer, Plans!constant, Plans!files
<1>2. IsList(settings.groups) /\ AreSettings(settings)
  BY DEF PlansInv, TypedSettings
<1>3. IsList(groups)
  <2> DEFINE T == {settings.groups[i] : i \in DOMAIN settings.groups} \cup {<<>>}
             U == {groups[i] : i \in DOMAIN groups}
  <2>1. settings.groups \in Seq(T) /\ <<>> \in T
    <3>1. Len(settings.groups) \in Nat /\ settings.groups \in [1 .. Len(settings.groups) -> T]
      BY <1>2 DEF IsList
    <3> HIDE DEF T
    <3>2. settings.groups \in Seq(T)
      BY <3>1, SeqDef
    <3> QED
      BY <3>2 DEF T
  <2> HIDE DEF T
  <2>2. groups \in Seq(T)
    BY <2>1, AppendProperties
  <2> HIDE DEF groups
  <2>3. Len(groups) \in Nat /\ groups \in [1 .. Len(groups) -> U]
    BY <2>2
  <2> HIDE DEF U
  <2>4. groups \in Seq(U)
    BY <2>3, SeqDef
  <2> QED
    BY <2>4 DEF IsList, U
<1>4. TypedSettings(t)
  BY <1>3, SyncedSettingsAreTyped DEF PlansInv
<1>5. t.mode = settings.mode /\ t.groups = groups /\ t.text = settings.text
  BY <1>2, SettingsChangeByField
<1>6. Plans!NonEmpty(groups) = Plans!NonEmpty(settings.groups)
  BY <1>2, EmptyOutputsAreLeftOut
<1> HIDE DEF t, groups
<1>7. Plans!Plan(t, counted) = Plans!Plan(settings, counted)
  <2>1. ~Plans!ManualRangeActive(t) /\ ~Plans!ManualRangeActive(settings)
    BY <1>1, <1>5 DEF Plans!ManualRangeActive
  <2>2. Plans!GroupsPlan(t, counted) = Plans!GroupsPlan(settings, counted)
    BY <1>5, <1>6 DEF Plans!GroupsPlan
  <2>3. Plans!SplitPlan(t, counted) = Plans!SplitPlan(settings, counted)
    BY <1>1, <1>5, <2>2 DEF Plans!SplitPlan
  <2> QED
    BY <1>1, <2>1, <2>3 DEF Plans!Plan
<1>8. Plans!Plan(settings, counted)' = Plans!Plan(t, counted)
  BY <1>1 DEF Plans!Plan, Plans!ManualRangeActive, Plans!ManualPlan, Plans!SplitPlan, Plans!MarkedPlan
<1>9. bar'.result = bar.result
  BY <1>1
<1>10. bar.result.shown => Fits(bar.result.job)' /\ Made(bar.result)'
  BY <1>1, <1>9, ResultStaysFit DEF PlansInv
<1>11. OfTheSettings(bar.result.job) => OfTheSettings(bar.result.job)'
  BY <1>1, <1>7, <1>8, <1>9 DEF OfTheSettings
<1>12. TypedSettings(settings)'
  BY <1>1, <1>4 DEF TypedSettings, AreSettings, IsList
<1>13. bar' = [offered |-> bar'.offered, result |-> bar'.result]
  BY <1>1
<1> QED
  BY <1>1, <1>5, <1>9, <1>10, <1>11, <1>12, <1>13 DEF PlansInv, IsJob

LEMMA ChosenFoldersKeepPlansInv ==
  ASSUME PlansInv, Plans!OutputChosen
  PROVE  PlansInv'
<1>1. planned.kind = "none" /\ bar' = [offered |-> bar'.offered, result |-> bar'.result]
      /\ ~bar'.result.shown
      /\ UNCHANGED <<operation, portable, onDisk, counted, settings, planned, unheard>>
  BY DEF Plans!OutputChosen, Plans!Editing, Plans!constant, Plans!NoResult
<1>2. TypedSettings(settings)'
  BY <1>1 DEF PlansInv, TypedSettings, AreSettings, IsList
<1> QED
  BY <1>1, <1>2 DEF PlansInv, IsJob

LEMMA PlansSettingsStep ==
  ASSUME PlansInv, Plans!SettingsChange
  PROVE  PlansInv'
<1>1. CASE \E g \in DOMAIN settings.groups :
             \/ \E pages \in SUBSET (1 .. counted) \ {{}}, index \in 0 .. MaxListed :
                  Plans!SplitPagesDropped(g, Plans!InOrder(pages), index)
             \/ \E h \in DOMAIN settings.groups, page \in 1 .. counted :
                  Plans!OutputPageCopied(g, h, page)
             \/ \E from, index \in 0 .. MaxListed : Plans!OutputPageMoved(g, from, index)
             \/ \E page \in 1 .. counted : Plans!OutputPageRemoved(g, page)
  BY <1>1, DropsKeepPlansInv, CopiesKeepPlansInv, OutputMovesKeepPlansInv, OutputRemovalsKeepPlansInv
<1>2. CASE \/ \E pages \in SUBSET (1 .. counted) \ {{}}, index \in 0 .. counted :
                Plans!ExtractPagesDropped(Plans!InOrder(pages), index)
           \/ \E from, index \in 0 .. counted : Plans!ExtractPageMoved(from, index)
           \/ \E page \in 1 .. counted : Plans!SourcePageClicked(page) \/ Plans!ExtractPageRemoved(page)
  BY <1>2, MarkingKeepsPlansInv
<1>3. CASE \E text \in Texts : Plans!ManualTextEdited(text)
  BY <1>3, TypingKeepsPlansInv
<1>4. CASE \E mode \in Plans!Modes : Plans!SplitModeChanged(mode)
  BY <1>4, ModesKeepPlansInv
<1>5. CASE \E size \in 1 .. settings.sizeMax : Plans!SplitSizeChanged(size)
  BY <1>5, SizesKeepPlansInv
<1>6. CASE Plans!AddSplitGroup \/ Plans!ToggleAdvanced \/ Plans!OutputChosen
  BY <1>6, AddedOutputsKeepPlansInv, TogglesKeepPlansInv, ChosenFoldersKeepPlansInv
<1> QED
  BY <1>1, <1>2, <1>3, <1>4, <1>5, <1>6 DEF Plans!SettingsChange

\* The source is given anew: a running job is marked, and everything else forgotten.
LEMMA GivenAnewKeepsPlansInv ==
  ASSUME PlansInv, Plans!SetInputPath
  PROVE  PlansInv'
<1> DEFINE groups == [g \in DOMAIN settings.groups |-> <<>>]
           t == [[settings EXCEPT !.groups = groups] EXCEPT !.marked = <<>>]
           u == [t EXCEPT !.text = <<>>, !.dirty = FALSE]
<1>1. counted' = 0 /\ ~unheard' /\ bar' = [offered |-> bar'.offered, result |-> bar'.result]
      /\ ~bar'.result.shown /\ UNCHANGED <<operation, portable, onDisk, folder>>
      /\ planned' = [planned EXCEPT !.replaced = planned.kind # "none"]
  BY DEF Plans!SetInputPath, Plans!constant, Plans!NoResult
<1>2. settings' = u
  BY DEF Plans!SetInputPath
<1>3. TypedSettings([settings EXCEPT !.groups = groups])
  BY OtherOutputs
<1>4. TypedSettings(t)
  BY <1>3, SyncedSettingsAreTyped
<1> HIDE DEF t
<1>5. TypedSettings(u)
  BY <1>4, ForgottenTextIsTyped
<1> HIDE DEF u
<1>6. TypedSettings(settings)'
  BY <1>1, <1>2, <1>5 DEF TypedSettings, AreSettings, IsList
<1>7. planned' = [kind |-> planned.kind, plan |-> planned.plan, target |-> planned.target,
                  announced |-> planned.announced, counted |-> planned.counted,
                  replaced |-> planned.kind # "none"]
  BY <1>1 DEF PlansInv, IsJob
<1>8. IsJob(planned)'
  BY <1>7 DEF IsJob
<1>9. planned.kind # "none" => Fits(planned)' /\ OfTheSettings(planned)'
  <2>1. planned'.kind = planned.kind /\ planned'.plan = planned.plan
        /\ planned'.target = planned.target /\ planned'.announced = planned.announced
        /\ planned'.counted = planned.counted /\ planned'.replaced = (planned.kind # "none")
    BY <1>7
  <2>2. planned.kind # "none" => Fits(planned)
    BY DEF PlansInv
  <2>3. Fits(planned) => Fits(planned)'
    BY <1>1, <2>1 DEF Fits, SoundPlan
  <2>4. planned.kind # "none" => OfTheSettings(planned)'
    BY <2>1 DEF OfTheSettings
  <2> QED
    BY <2>2, <2>3, <2>4
<1>10. planned'.kind = planned.kind
  BY <1>7
<1> QED
  BY <1>1, <1>6, <1>8, <1>9, <1>10 DEF PlansInv

\* The count arrives: until then no result is shown, but of a source given anew.
LEMMA CountsKeepPlansInv ==
  ASSUME PlansConstants, PlansInv, Plans!PageCountFinished
  PROVE  PlansInv'
<1> DEFINE u == [settings EXCEPT !.sizeMax = onDisk]
           t == [settings EXCEPT !.sizeMax = onDisk, !.size = Plans!Min2(2, onDisk)]
<1>1. counted = 0 /\ counted' = onDisk /\ settings' = t
      /\ bar' = [offered |-> bar'.offered, result |-> bar.result]
      /\ UNCHANGED <<operation, portable, onDisk, folder, target, planned, unheard>>
  BY DEF Plans!PageCountFinished, Plans!Offer, Plans!constant, Plans!files
<1>2. onDisk \in Nat \ {0} /\ Plans!Min2(2, onDisk) \in Nat \ {0}
  BY DEF PlansInv, PlansConstants, Plans!Min2
<1>3. AreSettings(settings)
  BY DEF PlansInv, TypedSettings
<1>4. u = [mode |-> settings.mode, size |-> settings.size, sizeMax |-> onDisk,
           groups |-> settings.groups, marked |-> settings.marked, text |-> settings.text,
           dirty |-> settings.dirty, visible |-> settings.visible]
  BY <1>3, SettingsChangeByFlag
<1>5. t = [u EXCEPT !.size = Plans!Min2(2, onDisk)]
  OBVIOUS
<1> HIDE DEF u, t
<1>6. AreSettings(u) /\ u.mode = settings.mode /\ u.sizeMax = onDisk /\ u.groups = settings.groups
      /\ u.text = settings.text /\ u.dirty = settings.dirty
  BY <1>4 DEF AreSettings
<1>7. t = [mode |-> u.mode, size |-> Plans!Min2(2, onDisk), sizeMax |-> u.sizeMax,
           groups |-> u.groups, marked |-> u.marked, text |-> u.text, dirty |-> u.dirty,
           visible |-> u.visible]
  BY <1>5, <1>6, SettingsChangeByField
<1>8. AreSettings(t) /\ t.mode = settings.mode /\ t.size = Plans!Min2(2, onDisk) /\ t.sizeMax = onDisk
      /\ t.groups = settings.groups /\ t.text = settings.text /\ t.dirty = settings.dirty
  BY <1>6, <1>7 DEF AreSettings
<1>9. TypedSettings(t)
  BY <1>2, <1>8 DEF PlansInv, TypedSettings
<1>10. TypedSettings(settings)'
  BY <1>1, <1>9 DEF TypedSettings, AreSettings, IsList
<1>11. bar'.result = bar.result /\ bar' = [offered |-> bar'.offered, result |-> bar'.result]
  BY <1>1
<1>12. bar.result.shown => Fits(bar.result.job)' /\ Made(bar.result)'
  BY <1>1, <1>11, ResultStaysFit DEF PlansInv
<1>13. OfTheSettings(bar.result.job) => OfTheSettings(bar.result.job)'
  BY <1>1, <1>11 DEF OfTheSettings
<1>14. Fits(planned) => Fits(planned)'
  BY <1>1 DEF Fits, SoundPlan
<1>15. OfTheSettings(planned) => OfTheSettings(planned)'
  BY <1>1 DEF OfTheSettings
<1> QED
  BY <1>1, <1>8, <1>10, <1>11, <1>12, <1>13, <1>14, <1>15 DEF PlansInv, IsJob

LEMMA OthersKeepPlansInv ==
  ASSUME PlansInv, NEW n \in PageCounts, NEW name,
         Plans!SourceRewritten(n) \/ Plans!NameTaken(name) \/ Plans!FolderTidied \/ UNCHANGED Plans!vars
  PROVE  PlansInv'
<1>1. onDisk' \in PageCounts
      /\ UNCHANGED <<operation, portable, counted, settings, planned, bar, unheard>>
  BY DEF PlansInv, Plans!SourceRewritten, Plans!NameTaken, Plans!FolderTidied, Plans!vars,
         Plans!constant, Plans!files
<1>2. TypedSettings(settings)'
  BY <1>1 DEF PlansInv, TypedSettings, AreSettings, IsList
<1>3. bar.result.shown => Fits(bar.result.job)' /\ Made(bar.result)'
  BY <1>1, ResultStaysFit DEF PlansInv
<1>4. OfTheSettings(bar.result.job) => OfTheSettings(bar.result.job)'
  BY <1>1, PlanIsKept DEF OfTheSettings
<1>5. Fits(planned) => Fits(planned)'
  BY <1>1 DEF Fits, SoundPlan
<1>6. OfTheSettings(planned) => OfTheSettings(planned)'
  BY <1>1, PlanIsKept DEF OfTheSettings
<1> QED
  BY <1>1, <1>2, <1>3, <1>4, <1>5, <1>6 DEF PlansInv, IsJob

\* A job starts with the plan of the settings, which the page accepted.
LEMMA StartsKeepPlansInv ==
  ASSUME PlansConstants, PlansInv, Plans!StartOperation
  PROVE  PlansInv'
<1> DEFINE plan == Plans!Plan(settings, counted)
<1>1. planned' = [kind |-> operation, plan |-> plan, target |-> target,
                  announced |-> Plans!SplitNames(plan), counted |-> counted, replaced |-> FALSE]
      /\ bar' = [bar EXCEPT !.result = Plans!NoResult] /\ ~unheard'
      /\ UNCHANGED <<operation, portable, onDisk, counted, settings, folder, target>>
  BY DEF Plans!StartOperation, Plans!constant, Plans!files
<1>2. ~Plans!Blocked(settings, counted, folder)
  BY DEF Plans!StartOperation
<1>3. counted # 0 /\ plan # Plans!NoPlan
  BY <1>2 DEF Plans!Blocked
<1>4. counted \in PageCounts /\ SoundPlan(plan, counted)
  BY <1>3, PlansAreSound DEF PlansInv
<1>5. bar' = [offered |-> bar'.offered, result |-> bar'.result] /\ ~bar'.result.shown
  BY <1>1 DEF PlansInv, Plans!NoResult
<1>6. TypedSettings(settings)'
  BY <1>1 DEF PlansInv, TypedSettings, AreSettings, IsList
<1>7. operation = "split" /\ portable => Plans!SplitNames(plan) = Plans!Names(plan, target)
  BY DEF Plans!SplitNames
<1>8. Plans!Plan(settings, counted)' = plan
  BY <1>1, PlanIsKept
<1> HIDE DEF plan
<1>9. IsJob(planned)' /\ planned'.kind = operation /\ planned'.plan = plan
      /\ planned'.target = target /\ planned'.announced = Plans!SplitNames(plan)
      /\ planned'.counted = counted /\ ~planned'.replaced
  BY <1>1 DEF IsJob
<1>10. SoundPlan(planned.plan, planned.counted)'
  BY <1>1, <1>4, <1>9 DEF SoundPlan
<1>11. Fits(planned)'
  BY <1>1, <1>4, <1>7, <1>9, <1>10 DEF Fits
<1>12. OfTheSettings(planned)'
  BY <1>1, <1>3, <1>8, <1>9 DEF OfTheSettings
<1> QED
  BY <1>1, <1>5, <1>6, <1>9, <1>11, <1>12 DEF PlansInv

\* A job ends, with a result or without one.
LEMMA EndsKeepPlansInv ==
  ASSUME PlansInv, planned.kind # "none", NEW result, NEW taken, Plans!Finished(result, taken),
         result.shown => result.job = planned /\ Made(result)
  PROVE  PlansInv'
<1>1. bar' = [offered |-> bar'.offered, result |-> result] /\ planned' = Plans!NoJob
      /\ UNCHANGED <<operation, portable, onDisk, counted, settings, unheard>>
  BY DEF Plans!Finished, Plans!constant
<1>2. IsJob(planned)' /\ planned'.kind = "none"
  BY <1>1 DEF IsJob, Plans!NoJob
<1>3. bar'.result = result
  BY <1>1
<1>4. Fits(planned) /\ OfTheSettings(planned)
  BY DEF PlansInv
<1>5. result.shown => Fits(bar.result.job)'
  BY <1>1, <1>3, <1>4 DEF Fits, SoundPlan
<1>6. result.shown => OfTheSettings(bar.result.job)'
  BY <1>1, <1>3, <1>4, PlanIsKept DEF OfTheSettings
<1>7. result.shown => Made(bar.result)'
  BY <1>3 DEF Made
<1>8. TypedSettings(settings)'
  BY <1>1 DEF PlansInv, TypedSettings, AreSettings, IsList
<1>9. bar' = [offered |-> bar'.offered, result |-> bar'.result]
  BY <1>1, <1>3
<1>10. UNCHANGED <<operation, onDisk, counted, settings, unheard>>
  BY <1>1
<1> QED
  BY <1>2, <1>3, <1>5, <1>6, <1>7, <1>8, <1>9, <1>10 DEF PlansInv

LEMMA SuccessesKeepPlansInv ==
  ASSUME PlansInv, Plans!OperationSucceeds
  PROVE  PlansInv'
<1> DEFINE names == Plans!Names(planned.plan, planned.target)
           contents == Plans!Contents(planned.kind, planned.plan, onDisk)
           written == [i \in DOMAIN names |-> [name |-> names[i], pages |-> contents[i]]]
           result == [shown |-> TRUE, job |-> planned, files |-> written]
           taken == folder \cup Plans!ToSet(names)
<1>1. planned.kind # "none" /\ Plans!Refusal(names) = "none" /\ Plans!Finished(result, taken)
  BY DEF Plans!OperationSucceeds
<1>2. <<>> \notin Plans!ToSet(contents)
  BY <1>1 DEF Plans!Refusal
<1> HIDE DEF written
<1>3. result.job = planned /\ result.files = written
  OBVIOUS
<1> HIDE DEF result
<1>4. Made(result)
  BY <1>2, <1>3 DEF Made, PlansInv, written
<1> HIDE DEF taken
<1> QED
  BY <1>1, <1>3, <1>4, EndsKeepPlansInv

LEMMA FailuresKeepPlansInv ==
  ASSUME PlansInv, Plans!OperationFails
  PROVE  PlansInv'
<1>1. planned.kind # "none" /\ Plans!Finished(Plans!NoResult, folder)
  BY DEF Plans!OperationFails
<1>2. ~Plans!NoResult.shown
  BY DEF Plans!NoResult
<1> QED
  BY <1>1, <1>2, EndsKeepPlansInv

LEMMA PlansStep ==
  ASSUME PlansConstants, PlansInv, [Plans!Next]_Plans!vars
  PROVE  PlansInv'
<1>1. CASE Plans!SettingsChange
  BY <1>1, PlansSettingsStep
<1>2. CASE Plans!SetInputPath
  BY <1>2, GivenAnewKeepsPlansInv
<1>3. CASE Plans!PageCountFinished
  BY <1>3, CountsKeepPlansInv
<1>4. CASE \E n \in PageCounts : Plans!SourceRewritten(n)
  BY <1>4, OthersKeepPlansInv
<1>5. CASE \/ Plans!NameTaken(IF operation = "split" THEN <<"part", 1>> ELSE <<"file", 1>>)
           \/ Plans!FolderTidied \/ UNCHANGED Plans!vars
  <2>1. onDisk \in PageCounts
    BY DEF PlansInv
  <2> QED
    BY <1>5, <2>1, OthersKeepPlansInv
<1>6. CASE Plans!StartOperation
  BY <1>6, StartsKeepPlansInv
<1>7. CASE Plans!OperationSucceeds
  BY <1>7, SuccessesKeepPlansInv
<1>8. CASE Plans!OperationFails
  BY <1>8, FailuresKeepPlansInv
<1> QED
  BY <1>1, <1>2, <1>3, <1>4, <1>5, <1>6, <1>7, <1>8 DEF Plans!Next

-----------------------------------------------------------------------------
(* What the engine makes of a sound plan.                                  *)

\* The engine has one output for each part of a plan, and none is empty.
LEMMA ContentsAreFull ==
  ASSUME NEW plan, NEW n \in Nat, SoundPlan(plan, n)
  PROVE  <<>> \notin Plans!ToSet(Plans!Contents(operation, plan, n))
<1>1. CASE operation # "remove"
  BY <1>1 DEF SoundPlan, Plans!Contents, Plans!ToSet
<1>2. CASE operation = "remove"
  <2> DEFINE left == 1 .. n \ Plans!ToSet(plan.parts[1])
  <2>1. Plans!Contents(operation, plan, n) = <<Plans!InOrder(left)>>
    BY <1>2 DEF Plans!Contents
  <2>2. DOMAIN plan.parts = {1} /\ Plans!ToSet(plan.parts[1]) # 1 .. n
        /\ Plans!Pages(plan.parts) \subseteq 1 .. n
    BY <1>2 DEF SoundPlan, Plans!Valid
  <2>3. Plans!ToSet(plan.parts[1]) \subseteq 1 .. n
    BY <2>2 DEF Plans!Pages
  <2>4. left # {} /\ left \in SUBSET (1 .. n)
    BY <2>2, <2>3
  <2> HIDE DEF left
  <2>5. Plans!InOrder(left) # <<>>
    BY <2>4, InOrderLists
  <2> QED
    BY <2>1, <2>5 DEF Plans!ToSet
<1> QED
  BY <1>1, <1>2

\* Two files of a job have the same name only when two ranges are the same.
LEMMA NamesTellPartsApart ==
  ASSUME NEW plan, NEW n, SoundPlan(plan, n), NEW k,
         NEW i \in DOMAIN Plans!Names(plan, k), NEW j \in DOMAIN Plans!Names(plan, k), i # j,
         Plans!Names(plan, k)[i] = Plans!Names(plan, k)[j]
  PROVE  plan.kind = "ranges" /\ \E p, q \in DOMAIN plan.parts : p # q /\ plan.parts[p] = plan.parts[q]
<1>1. plan.kind # "pages"
  BY DEF Plans!Names
<1>2. plan.kind \in {"groups", "ranges"}
  BY <1>1 DEF SoundPlan
<1>3. i \in DOMAIN plan.parts /\ j \in DOMAIN plan.parts
  BY <1>1 DEF Plans!Names
<1>4. plan.kind # "groups"
  <2> SUFFICES ASSUME plan.kind = "groups" PROVE FALSE
    OBVIOUS
  <2>1. Plans!Names(plan, k)[i] = <<"part", i>> /\ Plans!Names(plan, k)[j] = <<"part", j>>
    BY <1>3 DEF Plans!Names
  <2>2. <<"part", i>>[2] = i /\ <<"part", j>>[2] = j
    OBVIOUS
  <2> QED
    BY <2>1, <2>2, Zenon
<1>5. plan.kind = "ranges"
  BY <1>2, <1>4
<1>6. Plans!Names(plan, k)[i] = <<"pages", Head(plan.parts[i]), Plans!Last(plan.parts[i])>>
      /\ Plans!Names(plan, k)[j] = <<"pages", Head(plan.parts[j]), Plans!Last(plan.parts[j])>>
  BY <1>3, <1>5 DEF Plans!Names
<1>7. Head(plan.parts[i]) = Head(plan.parts[j]) /\ Plans!Last(plan.parts[i]) = Plans!Last(plan.parts[j])
  <2> DEFINE from == Head(plan.parts[i])
             upto == Plans!Last(plan.parts[i])
             c == Head(plan.parts[j])
             d == Plans!Last(plan.parts[j])
  <2>1. <<"pages", from, upto>> = <<"pages", c, d>>
    BY <1>6, Zenon
  <2> HIDE DEF from, upto, c, d
  <2>2. <<"pages", from, upto>>[2] = from /\ <<"pages", from, upto>>[3] = upto
        /\ <<"pages", c, d>>[2] = c /\ <<"pages", c, d>>[3] = d
    OBVIOUS
  <2>3. from = c /\ upto = d
    BY <2>1, <2>2, Zenon
  <2> QED
    BY <2>3 DEF from, upto, c, d
<1>8. plan.parts[i] = plan.parts[j]
  BY <1>3, <1>5, <1>7 DEF SoundPlan
<1> QED
  BY <1>3, <1>5, <1>8

\* The page and the engine agree on what can be done.
LEMMA PlansInvAccepts ==
  ASSUME PlansConstants, PlansInv
  PROVE  Plans!AcceptedPlansAreCarriedOut
<1> DEFINE names == Plans!Names(planned.plan, planned.target)
<1> SUFFICES ASSUME planned.kind # "none"
             PROVE  /\ Plans!Refusal(names) = "selection" => onDisk # planned.counted
                    /\ Plans!Refusal(names) = "names" =>
                         /\ planned.plan.kind = "ranges"
                         /\ \E i, j \in DOMAIN planned.plan.parts :
                              i # j /\ planned.plan.parts[i] = planned.plan.parts[j]
  BY DEF Plans!AcceptedPlansAreCarriedOut
<1>1. Fits(planned) /\ onDisk \in Nat /\ planned.kind = operation
  BY DEF PlansInv, Fits, PlansConstants
<1>2. SoundPlan(planned.plan, planned.counted)
  BY <1>1 DEF Fits
<1>3. ASSUME onDisk = planned.counted PROVE Plans!Refusal(names) # "selection"
  <2>1. Plans!Valid(planned.plan.parts, onDisk)
    BY <1>2, <1>3 DEF SoundPlan
  <2>2. <<>> \notin Plans!ToSet(Plans!Contents(planned.kind, planned.plan, onDisk))
    BY <1>1, <1>2, <1>3, ContentsAreFull
  <2> HIDE DEF names
  <2> QED
    BY <2>1, <2>2 DEF Plans!Refusal
<1>4. ASSUME Plans!Refusal(names) = "names"
      PROVE  \E i, j \in DOMAIN names : i # j /\ names[i] = names[j]
  <2> HIDE DEF names
  <2> QED
    BY <1>4 DEF Plans!Refusal
<1>5. Plans!Refusal(names) = "names" =>
        /\ planned.plan.kind = "ranges"
        /\ \E i, j \in DOMAIN planned.plan.parts :
             i # j /\ planned.plan.parts[i] = planned.plan.parts[j]
  BY <1>2, <1>4, NamesTellPartsApart
<1> QED
  BY <1>3, <1>5

\* The files of a success.
LEMMA PlansInvFiles ==
  ASSUME PlansConstants, PlansInv
  PROVE  Plans!FilesAreAsPlanned
<1> DEFINE done == bar.result.job
           made == bar.result.files
           pages == [i \in DOMAIN made |-> made[i].pages]
           names == Plans!Names(done.plan, done.target)
<1> SUFFICES ASSUME bar.result.shown
             PROVE  /\ done.kind = "split" /\ portable =>
                         [i \in DOMAIN made |-> made[i].name] = done.announced
                    /\ done.plan.kind = "groups" => Plans!Apart(pages)
                    /\ done.plan.kind = "groups" /\ ~done.replaced
                       /\ settings.mode \in {"every_n", "single_pages"} =>
                         /\ Plans!Pages(pages) = 1 .. done.counted
                         /\ \A i \in DOMAIN pages : Plans!Increasing(pages[i])
                         /\ \A i, j \in DOMAIN pages : i < j =>
                              \A p \in Plans!ToSet(pages[i]), q \in Plans!ToSet(pages[j]) : p < q
                    /\ done.kind = "remove" =>
                         /\ pages[1] # <<>> /\ Plans!Increasing(pages[1])
                         /\ Plans!ToSet(pages[1]) \cap Plans!ToSet(done.plan.parts[1]) = {}
  BY DEF Plans!FilesAreAsPlanned
<1>1. Fits(done) /\ Made(bar.result) /\ (unheard \/ OfTheSettings(done))
  BY DEF PlansInv
<1>2. SoundPlan(done.plan, done.counted) /\ done.kind = operation /\ done.counted \in PageCounts
  BY <1>1 DEF Fits
<1>3. PICK n \in PageCounts :
        LET contents == Plans!Contents(done.kind, done.plan, n)
        IN  /\ <<>> \notin Plans!ToSet(contents)
            /\ made = [i \in DOMAIN names |-> [name |-> names[i], pages |-> contents[i]]]
  BY <1>1 DEF Made
<1> DEFINE contents == Plans!Contents(done.kind, done.plan, n)
<1>4. DOMAIN made = DOMAIN names /\ DOMAIN pages = DOMAIN names
      /\ \A i \in DOMAIN names : made[i].name = names[i] /\ pages[i] = contents[i]
  BY <1>3
<1>5. <<>> \notin Plans!ToSet(contents)
  BY <1>3
<1>6. done.kind = "split" /\ portable => [i \in DOMAIN made |-> made[i].name] = done.announced
  <2> SUFFICES ASSUME done.kind = "split", portable
               PROVE  [i \in DOMAIN made |-> made[i].name] = done.announced
    OBVIOUS
  <2>1. done.announced = names
    BY <1>1, <1>2 DEF Fits
  <2>2. done.plan.kind # "pages"
    BY <1>2 DEF SoundPlan
  <2>3. names = [i \in DOMAIN names |-> names[i]]
    BY <2>2 DEF Plans!Names
  <2>4. [i \in DOMAIN made |-> made[i].name] = [i \in DOMAIN names |-> names[i]]
    <3> HIDE DEF names, made, pages, contents
    <3> QED
      BY <1>4
  <2> QED
    BY <2>1, <2>3, <2>4
\* The outputs of a split are the parts of its plan.
<1>7. ASSUME done.plan.kind = "groups"
      PROVE  /\ operation = "split" /\ DOMAIN pages = DOMAIN done.plan.parts
             /\ \A i \in DOMAIN pages : pages[i] = done.plan.parts[i]
  <2>1. operation = "split"
    BY <1>2, <1>7 DEF SoundPlan
  <2>2. DOMAIN names = DOMAIN done.plan.parts
    BY <1>7 DEF Plans!Names
  <2>3. contents = done.plan.parts
    BY <1>2, <2>1 DEF Plans!Contents
  <2> QED
    BY <1>4, <2>1, <2>2, <2>3
<1>8. done.plan.kind = "groups" => Plans!Apart(pages)
  <2> SUFFICES ASSUME done.plan.kind = "groups" PROVE Plans!Apart(pages)
    OBVIOUS
  <2>1. Plans!Apart(done.plan.parts)
    BY <1>2 DEF SoundPlan
  <2>2. DOMAIN pages = DOMAIN done.plan.parts /\ \A i \in DOMAIN pages : pages[i] = done.plan.parts[i]
    BY <1>7
  <2> HIDE DEF pages, done
  <2> QED
    BY <2>1, <2>2 DEF Plans!Apart
<1>9. ASSUME done.plan.kind = "groups", ~done.replaced,
             settings.mode \in {"every_n", "single_pages"}
      PROVE  /\ Plans!Pages(pages) = 1 .. done.counted
             /\ \A i \in DOMAIN pages : Plans!Increasing(pages[i])
             /\ \A i, j \in DOMAIN pages : i < j =>
                  \A p \in Plans!ToSet(pages[i]), q \in Plans!ToSet(pages[j]) : p < q
  <2> DEFINE size == IF settings.mode = "every_n" THEN settings.size ELSE 1
             parts == Plans!EveryN(counted, size)
  <2>1. operation = "split" /\ settings.mode # "groups"
    BY <1>7, <1>9
  <2>2. ~unheard
    BY <2>1 DEF PlansInv
  <2>3. counted # 0 /\ done.counted = counted /\ done.plan = Plans!Plan(settings, counted)
    BY <1>1, <1>9, <2>2 DEF OfTheSettings
  <2>4. ~Plans!ManualRangeActive(settings)
    BY <1>9, <2>1 DEF Plans!ManualRangeActive
  <2>5. done.plan = [kind |-> "groups", parts |-> parts]
    BY <1>9, <2>1, <2>3, <2>4 DEF Plans!Plan, Plans!SplitPlan
  <2>6. size \in Nat \ {0} /\ counted \in Nat \ {0}
    BY <2>3 DEF PlansInv, TypedSettings, PlansConstants
  <2>7. DOMAIN pages = DOMAIN parts /\ \A i \in DOMAIN pages : pages[i] = parts[i]
    BY <1>7, <1>9, <2>5
  <2> HIDE DEF size
  <2>8. /\ Plans!Pages(parts) = 1 .. counted
        /\ \A i \in DOMAIN parts : Plans!Increasing(parts[i])
        /\ InTurn(parts)
    BY <2>6, EveryNCutsInOrder
  <2> HIDE DEF parts, pages
  <2>9. Plans!Pages(pages) = 1 .. done.counted
    BY <2>3, <2>7, <2>8 DEF Plans!Pages
  <2>10. \A i \in DOMAIN pages : Plans!Increasing(pages[i])
    BY <2>7, <2>8
  <2>11. InTurn(pages)
    BY <2>7, <2>8 DEF InTurn
  <2> QED
    BY <2>9, <2>10, <2>11 DEF InTurn
<1>10. ASSUME done.kind = "remove"
       PROVE  /\ pages[1] # <<>> /\ Plans!Increasing(pages[1])
              /\ Plans!ToSet(pages[1]) \cap Plans!ToSet(done.plan.parts[1]) = {}
  <2> DEFINE left == 1 .. n \ Plans!ToSet(done.plan.parts[1])
  <2>1. contents = <<Plans!InOrder(left)>>
    BY <1>10 DEF Plans!Contents
  <2>2. done.plan.kind = "pages"
    BY <1>2, <1>10 DEF SoundPlan
  <2>3. DOMAIN names = {1}
    BY <2>2 DEF Plans!Names
  <2>4. pages[1] = Plans!InOrder(left)
    BY <1>4, <2>1, <2>3
  <2>5. left \in SUBSET (1 .. n) /\ n \in Nat
    BY DEF PlansConstants
  <2>6. pages[1] # <<>>
    BY <1>5, <2>1, <2>4 DEF Plans!ToSet
  <2> HIDE DEF left
  <2>7. Plans!Increasing(pages[1]) /\ Plans!ToSet(pages[1]) = left
    BY <2>4, <2>5, InOrderLists
  <2> QED
    BY <2>6, <2>7 DEF left
<1> QED
  BY <1>6, <1>8, <1>9, <1>10

\* For any numbers of pages, texts and limits: what the page accepts (_blocker,
\* SplitPlanModel, PageSelectionModel) the engine does not refuse, unless the file changed
\* or a range is named twice; and the files are those planned and announced.
THEOREM AcceptedPlansSucceed == Plans!Spec => []PlansAreCarriedOut
<1>1. Plans!Init => PlansInv
  BY PlansStart, PlansAssumption
<1>2. PlansInv /\ [Plans!Next]_Plans!vars => PlansInv'
  BY PlansStep, PlansAssumption
<1>3. PlansInv => PlansAreCarriedOut
  BY PlansInvAccepts, PlansInvFiles, PlansAssumption DEF PlansAreCarriedOut, Plans!PlansAreCarriedOut
<1> QED
  BY <1>1, <1>2, <1>3, PTL DEF Plans!Spec

\* A success on screen is of the settings on screen, whatever was changed and in whatever
\* order, but for the three exceptions the property names (clear_result).
THEOREM ResultsMatchTheSettings == Plans!Spec => []ResultIsOfTheSettings
<1>1. Plans!Init => PlansInv
  BY PlansStart, PlansAssumption
<1>2. PlansInv /\ [Plans!Next]_Plans!vars => PlansInv'
  BY PlansStep, PlansAssumption
<1>3. PlansInv => ResultIsOfTheSettings
  BY DEF PlansInv, OfTheSettings, Plans!ResultIsOfTheSettings, ResultIsOfTheSettings
<1> QED
  BY <1>1, <1>2, <1>3, PTL DEF Plans!Spec

===============================================================================
