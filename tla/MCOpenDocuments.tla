--------------------------- MODULE MCOpenDocuments ---------------------------
(***************************************************************************)
(* The open documents for TLC, one part per behaviour:                     *)
(*   documents  OpenDocuments, a window at work on its sessions            *)
(*   memory     SessionMemory, what is kept of them from one start to the  *)
(*              next                                                       *)
(* Both run the operations of WorkspaceState.  The memory depends on the   *)
(* window only through the sessions that an operation leaves, so it has    *)
(* sessions of its own and needs neither pages nor tools.                  *)
(***************************************************************************)
EXTENDS OpenDocuments, FiniteSetTheorems, SequenceTheorems, WellFoundedInduction, TLAPS

CONSTANTS Windows, PdfFiles, Link, MaxStored, MaxUnsaved

ASSUME MemoryAssumption == Link \notin PdfFiles /\ MaxStored \in Nat /\ MaxUnsaved \in Nat \ {0}

VARIABLES atWork, phase, kept, mem, dirty, unsaved, disk, present, target

memoryVars == <<phase, kept, mem, dirty, unsaved, disk, present, target>>
allVars == <<atWork, vars, memoryVars>>

PlainA == <<"a", "plain">>
Output == <<"out", "plain">>
OneSource == {PlainA}
OneOutput == {Output}
OneAtATime == {<<path>> : path \in Paths}
LaunchWithA == <<PlainA>>

Memory == INSTANCE SessionMemory WITH ws <- kept

AtDocuments == atWork = "documents"
AtMemory == atWork = "memory"

DocumentsInit ==
  /\ atWork \in {"documents", "memory"}
  /\ Init
  /\ Memory!Init
  /\ ~AtMemory => target = (CHOOSE f \in PdfFiles : TRUE) /\ disk.session = Memory!NoSession

DocumentsNext ==
  /\ UNCHANGED atWork
  /\ \/ AtDocuments /\ Next /\ UNCHANGED memoryVars
     \/ AtMemory /\ Memory!Next /\ UNCHANGED vars

DocumentsSpec == DocumentsInit /\ [][DocumentsNext]_allVars

\* The settings file holds no path of a document without the consent to remember it
\* (SessionMemory).
NothingStoredWithoutConsent == AtMemory => Memory!NothingStoredWithoutConsent

\* A window that was closed starts again with the same sessions (SessionMemory).
RestoredAsClosed == [][Memory!StartsAsClosed]_memoryVars

-----------------------------------------------------------------------------
(* What holds of the open documents for any files, tools and limits: the   *)
(* settings hold no path without the consent, the file that is opened is   *)
(* the one shown, what a tool is at work on stays listed, the sessions     *)
(* stay well formed, and a window that was closed starts again with its    *)
(* sessions.                                                               *)

-----------------------------------------------------------------------------
(* What the memory of a single window keeps true, for any files and bounds: *)
(* what is not marked as changed is as the file has it, and a window that    *)
(* has no consent has nothing left to write.                                 *)

MemoryInv(w) ==
  /\ disk.consent = "no" => disk.session = Memory!NoSession
  /\ dirty \in [Windows -> SUBSET {"consent", "session"}]
  /\ mem \in [Windows -> [consent : {mem[w].consent}, session : {mem[w].session}]]
  /\ disk = [consent |-> disk.consent, session |-> disk.session]
  /\ phase \in [Windows -> {"off", "running", "closed", "crashed"}]
  /\ phase[w] # "running" => dirty[w] = {}
  /\ phase[w] = "running" =>
       /\ mem[w].consent \in {"no", "yes"}
       /\ "consent" \notin dirty[w] => disk.consent = mem[w].consent
       /\ "session" \notin dirty[w] => disk.session = mem[w].session
       /\ mem[w].consent = "no" => dirty[w] = {} /\ mem[w].session = Memory!NoSession

LEMMA MemoryStarts ==
  ASSUME NEW w, Windows = {w}, DocumentsInit PROVE MemoryInv(w)
<1>1. mem[w] = disk /\ dirty[w] = {} /\ phase[w] = "off"
  BY DEF DocumentsInit, Memory!Init
<1>2. disk.consent = "absent" /\ disk = [consent |-> disk.consent, session |-> disk.session]
  BY DEF DocumentsInit, Memory!Init
<1> QED
  BY <1>1, <1>2 DEF MemoryInv, DocumentsInit, Memory!Init

\* A write leaves the window with what the file has.
LEMMA WriteAgrees ==
  ASSUME NEW w, Windows = {w}, MemoryInv(w), NEW memory, NEW keys, Memory!Write(w, memory, keys),
         phase[w] = "running", phase' \in [Windows -> {"off", "running", "closed", "crashed"}],
         LET c == IF "consent" \in keys THEN memory.consent ELSE disk.consent
             s == IF "session" \in keys THEN memory.session ELSE disk.session
         IN  c \in {"no", "yes"} /\ (c = "no" => s = Memory!NoSession)
  PROVE  MemoryInv(w)'
<1> DEFINE c == IF "consent" \in keys THEN memory.consent ELSE disk.consent
           s == IF "session" \in keys THEN memory.session ELSE disk.session
<1>1. c \in {"no", "yes"} /\ (c = "no" => s = Memory!NoSession)
  OBVIOUS
<1>2. disk' = [consent |-> c, session |-> s]
  BY DEF Memory!Write
<1> HIDE DEF c, s
<1>3. disk'.consent = c /\ disk'.session = s
  BY <1>2
<1>4. mem' = [x \in Windows |-> disk'] /\ mem'[w] = disk'
  BY DEF Memory!Write, MemoryInv
<1>5. dirty' = [x \in Windows |-> {}] /\ dirty'[w] = {}
  BY DEF Memory!Write, MemoryInv
<1>6. mem' \in [Windows -> [consent : {mem'[w].consent}, session : {mem'[w].session}]]
  BY <1>2, <1>3, <1>4
<1> QED
  BY <1>1, <1>2, <1>3, <1>4, <1>5, <1>6 DEF MemoryInv

\* What the window saves of its sessions, whatever they are.
LEMMA PersistAgrees ==
  ASSUME NEW w, Windows = {w}, MemoryInv(w), NEW s, Memory!Persist(w, s),
         phase[w] = "running", UNCHANGED phase
  PROVE  MemoryInv(w)'
<1>1. CASE mem[w].consent = "yes"
  <2> DEFINE stored == Memory!Stored(s)
  <2>1. mem' = [mem EXCEPT ![w].session = stored] /\ dirty' = [dirty EXCEPT ![w] = @ \cup {"session"}]
        /\ disk' = disk
    BY <1>1 DEF Memory!Persist
  <2> HIDE DEF stored
  <2>2. mem'[w] = [consent |-> "yes", session |-> stored]
    BY <1>1, <2>1 DEF MemoryInv
  <2>3. mem' = [x \in Windows |-> mem'[w]]
    BY <2>1 DEF MemoryInv
  <2> QED
    BY <1>1, <2>1, <2>2, <2>3 DEF MemoryInv
<1>2. CASE mem[w].consent # "yes" /\ mem[w].session # Memory!NoSession
  BY <1>2 DEF MemoryInv
<1>3. CASE mem[w].consent # "yes" /\ mem[w].session = Memory!NoSession
  BY <1>3 DEF MemoryInv, Memory!Persist
<1> QED
  BY <1>1, <1>2, <1>3

LEMMA MemorySteps ==
  ASSUME NEW w, Windows = {w}, MemoryInv(w), [Memory!Next]_memoryVars PROVE MemoryInv(w)'
<1>1. ASSUME NEW s, Memory!Save(w, s) PROVE MemoryInv(w)'
  BY <1>1, PersistAgrees DEF Memory!Save, Memory!Running
<1>2. CASE \/ Memory!CreateWorkspace(w) \/ Memory!ActivateWorkspace(w) \/ Memory!DeleteWorkspace(w)
           \/ Memory!ActivateDocument(w) \/ Memory!RemoveOpenDocument(w) \/ Memory!AddFiles(w)
  <2>1. \E s : Memory!Save(w, s)
    BY <1>2 DEF Memory!CreateWorkspace, Memory!ActivateWorkspace, Memory!DeleteWorkspace,
                Memory!ActivateDocument, Memory!RemoveOpenDocument, Memory!AddFiles
  <2> QED
    BY <1>1, <2>1
<1>3. CASE Memory!GiveConsent(w)
  <2> DEFINE stored == Memory!Stored(kept[w])
  <2>1. /\ mem' = [mem EXCEPT ![w] = [consent |-> "yes", session |-> stored]]
        /\ dirty' = [dirty EXCEPT ![w] = @ \cup {"consent", "session"}]
        /\ disk' = disk /\ phase' = phase /\ phase[w] = "running"
    BY <1>3 DEF Memory!GiveConsent, Memory!Running
  <2> HIDE DEF stored
  <2>2. mem'[w] = [consent |-> "yes", session |-> stored] /\ mem' = [x \in Windows |-> mem'[w]]
    BY <2>1 DEF MemoryInv
  <2> QED
    BY <2>1, <2>2 DEF MemoryInv
<1>4. CASE Memory!RevokeConsent(w)
  BY <1>4, WriteAgrees DEF Memory!RevokeConsent, Memory!Running, MemoryInv
<1>5. CASE Memory!Flush(w) \/ Memory!QtWrites(w)
  <2>1. phase[w] = "running" /\ phase' = phase /\ Memory!Write(w, mem[w], dirty[w])
    BY <1>5 DEF Memory!Flush, Memory!QtWrites, Memory!Running
  <2> QED
    BY <2>1, WriteAgrees DEF MemoryInv
<1>6. CASE Memory!Close(w)
  <2>1. phase[w] = "running" /\ phase' = [phase EXCEPT ![w] = "closed"]
    BY <1>6 DEF Memory!Close, Memory!Running
  <2>2. phase' \in [Windows -> {"off", "running", "closed", "crashed"}]
    BY <2>1 DEF MemoryInv
  <2>3. CASE mem[w].consent = "yes"
    <3> DEFINE memory == [mem[w] EXCEPT !.session = Memory!Stored(kept[w])]
               keys == dirty[w] \cup {"session"}
    <3>1. Memory!Write(w, memory, keys)
      BY <1>6, <2>3 DEF Memory!Close
    <3>2. memory.consent = "yes"
      BY <2>3 DEF MemoryInv
    <3>3. "consent" \notin keys => disk.consent = "yes"
      BY <2>1, <2>3 DEF MemoryInv
    <3> HIDE DEF memory, keys
    <3> QED
      BY <2>1, <2>2, <3>1, <3>2, <3>3, WriteAgrees
  <2>4. CASE mem[w].consent = "no"
    BY <1>6, <2>1, <2>2, <2>4, WriteAgrees DEF MemoryInv, Memory!Close
  <2> QED
    BY <2>1, <2>3, <2>4 DEF MemoryInv
<1>7. CASE Memory!Crash(w)
  <2>1. mem' = [x \in Windows |-> disk]
    BY <1>7 DEF Memory!Crash, MemoryInv
  <2>2. phase' \in [Windows -> {"off", "running", "closed", "crashed"}] /\ phase'[w] = "crashed"
    BY <1>7 DEF Memory!Crash, MemoryInv
  <2>3. dirty' = [x \in Windows |-> {}] /\ disk' = disk
    BY <1>7 DEF Memory!Crash, MemoryInv
  <2> QED
    BY <2>1, <2>2, <2>3 DEF MemoryInv
<1>8. CASE Memory!Start(w)
  <2> DEFINE file == IF disk.consent = "yes" THEN disk
                     ELSE [consent |-> "no", session |-> Memory!NoSession]
  <2>1. disk' = file /\ mem' = [mem EXCEPT ![w] = file] /\ phase' = [phase EXCEPT ![w] = "running"]
        /\ dirty' = dirty
    BY <1>8 DEF Memory!Start
  <2>2. file.consent \in {"no", "yes"} /\ (file.consent = "no" => file.session = Memory!NoSession)
        /\ file = [consent |-> file.consent, session |-> file.session]
    BY DEF MemoryInv
  <2> HIDE DEF file
  <2>3. mem' = [x \in Windows |-> file] /\ phase'[w] = "running"
    BY <2>1 DEF MemoryInv
  <2>4. dirty[w] = {}
    BY <1>8 DEF Memory!Start, Memory!Running, MemoryInv
  <2> QED
    BY <2>1, <2>2, <2>3, <2>4 DEF MemoryInv
<1>9. CASE Memory!OtherPrograms \/ UNCHANGED memoryVars
  BY <1>9 DEF Memory!OtherPrograms, Memory!settings, memoryVars, MemoryInv
<1> QED
  BY <1>2, <1>3, <1>4, <1>5, <1>6, <1>7, <1>8, <1>9 DEF Memory!Next, Memory!WindowStep

\* Of a single application, whatever its documents, its bounds and the moment it is killed:
\* the settings file holds no path without the consent, and is rid of every path while the
\* consent is off (Settings.set_remember_open_documents, set_workspace_session_json).  With
\* two applications over one file it does not hold.
THEOREM ConsentIsKept ==
  ASSUME NEW w, Windows = {w} PROVE DocumentsSpec => []NothingStoredWithoutConsent
<1>1. DocumentsInit => MemoryInv(w)
  BY MemoryStarts
<1>2. MemoryInv(w) /\ [DocumentsNext]_allVars => MemoryInv(w)'
  <2>1. [DocumentsNext]_allVars => [Memory!Next]_memoryVars
    BY DEF DocumentsNext, allVars
  <2> QED
    BY <2>1, MemorySteps
<1>3. MemoryInv(w) => NothingStoredWithoutConsent
  BY DEF MemoryInv, NothingStoredWithoutConsent, Memory!NothingStoredWithoutConsent, Memory!Running
<1> QED
  BY <1>1, <1>2, <1>3, PTL DEF DocumentsSpec

-----------------------------------------------------------------------------
(* What add_documents makes of its candidates, one after the other.        *)

\* The order of the numbers, as a well-founded relation.
LEMMA LessOnNat ==
  \E less : IsWellFoundedOn(less, Nat) /\ \A k, m \in Nat : <<k, m>> \in less <=> k < m
<1>1. \A k, m \in Nat : (<<k, m>> \in OpToRel(<, Nat)) <=> k < m
  BY Zenon DEF OpToRel
<1> QED
  BY <1>1, NatLessThanWellFounded, Zenon

\* A set of numbers has a least one.
LEMMA Least ==
  ASSUME NEW S, S \subseteq Nat, S # {}
  PROVE \E m \in S : \A k \in S : m <= k
<1>1. PICK less : IsWellFoundedOn(less, Nat) /\ \A k, m \in Nat : <<k, m>> \in less <=> k < m
  BY LessOnNat, Zenon
<1>2. IsWellFoundedOn(less, Nat)
  BY <1>1
<1>3. PICK m \in S : \A k \in S : ~ (<<k, m>> \in less)
  BY <1>2, WFMin
<1>4. ASSUME NEW k \in S
      PROVE  m <= k
  <2>1. <<k, m>> \in less <=> k < m
    BY <1>1, Zenon
  <2>2. <<k, m>> \notin less
    BY <1>3, Zenon
  <2>3. ~(k < m)
    BY <2>1, <2>2, Zenon
  <2> QED
    BY <2>3
<1> QED
  BY <1>4

\* A value may be computed from one step to the next.
StaysIn(S, n, F) == \A i \in 1 .. n, s \in S : F[<<i, s>>] \in S
IsComputed(S, base, n, F) ==
  \E f \in [0 .. n -> S] : f[0] = base /\ \A i \in 1 .. n : f[i] = F[<<i, f[i - 1]>>]

LEMMA StepByStep ==
  ASSUME NEW S, NEW base \in S, NEW n \in Nat, NEW F, StaysIn(S, n, F)
  PROVE  IsComputed(S, base, n, F)
<1> USE DEF StaysIn
<1> DEFINE Is(f, m) == /\ f \in [0 .. m -> S] /\ f[0] = base
                       /\ \A i \in 1 .. m : f[i] = F[<<i, f[i - 1]>>]
           bad == {m \in 0 .. n : \A f : ~Is(f, m)}
<1>1. bad = {}
  <2> SUFFICES ASSUME bad # {} PROVE FALSE OBVIOUS
  <2>0. bad \subseteq Nat OBVIOUS
  <2> HIDE DEF bad
  <2>1. PICK m \in bad : \A k \in bad : m <= k BY <2>0, Least
  <2>2. Is([i \in 0 .. 0 |-> base], 0) OBVIOUS
  <2> USE DEF bad
  <2>3. m # 0 /\ m \in 1 .. n
    <3>1. m \in 0 .. n BY <2>1
    <3>2. m # 0 BY <2>1, <2>2
    <3> QED BY <3>1, <3>2
  <2>4. m - 1 \in 0 .. n /\ m - 1 \notin bad BY <2>1, <2>3
  <2>5. PICK g : Is(g, m - 1) BY <2>4
  <2> DEFINE h == [i \in 0 .. m |-> IF i = m THEN F[<<m, g[m - 1]>>] ELSE g[i]]
  <2>6. g[m - 1] \in S BY <2>3, <2>5
  <2>7. F[<<m, g[m - 1]>>] \in S BY <2>3, <2>6
  <2>8. h \in [0 .. m -> S]
    <3> SUFFICES ASSUME NEW i \in 0 .. m PROVE h[i] \in S OBVIOUS
    <3>1. CASE i = m BY <2>7, <3>1
    <3>2. CASE i # m
      <4>1. i \in 0 .. m - 1 BY <2>3, <3>2
      <4> QED BY <2>5, <3>2, <4>1
    <3> QED BY <3>1, <3>2
  <2>9. h[0] = base BY <2>3, <2>5
  <2>10. ASSUME NEW i \in 1 .. m PROVE h[i] = F[<<i, h[i - 1]>>]
    <3>1. i - 1 \in 0 .. m /\ i - 1 # m /\ h[i - 1] = g[i - 1] BY <2>3
    <3>2. CASE i = m BY <3>1, <3>2
    <3>3. CASE i # m
      <4>1. i \in 1 .. m - 1 BY <2>3, <3>3
      <4>2. g[i] = F[<<i, g[i - 1]>>] BY <2>5, <4>1
      <4> QED BY <3>1, <3>3, <4>2
    <3> QED BY <3>2, <3>3
  <2>11. Is(h, m) BY <2>8, <2>9, <2>10
  <2> QED BY <2>1, <2>11
<1>2. n \in 0 .. n OBVIOUS
<1>3. \E f : Is(f, n) BY <1>1, <1>2
<1> QED BY <1>3 DEF IsComputed

\* add_documents: whatever every candidate keeps true of the list is true of its end.
LEMMA JoinedStepByStep ==
  ASSUME NEW w, NEW S, Documents(w) \in S, NEW paths, Len(paths) \in Nat,
         \A docs \in S, i \in 1 .. Len(paths) : Join(w, docs, paths[i]) \in S
  PROVE  \E known \in [0 .. Len(paths) -> S] :
           /\ known[0] = Documents(w) /\ Joined(w, paths) = known[Len(paths)]
           /\ \A i \in 1 .. Len(paths) : known[i] = Join(w, known[i - 1], paths[i])
<1> DEFINE F == [p \in (1 .. Len(paths)) \X S |-> Join(w, p[2], paths[p[1]])]
           known[n \in 0 .. Len(paths)] ==
             IF n = 0 THEN Documents(w) ELSE Join(w, known[n - 1], paths[n])
<1>1. \A i \in 1 .. Len(paths), docs \in S : F[<<i, docs>>] = Join(w, docs, paths[i])
  OBVIOUS
<1>0. \A i \in 1 .. Len(paths), docs \in S : F[<<i, docs>>] \in S BY <1>1
<1> HIDE DEF F
<1>2. PICK f \in [0 .. Len(paths) -> S] :
        f[0] = Documents(w) /\ \A i \in 1 .. Len(paths) : f[i] = F[<<i, f[i - 1]>>]
  <2>1. StaysIn(S, Len(paths), F) BY <1>0 DEF StaysIn
  <2>2. IsComputed(S, Documents(w), Len(paths), F) BY <2>1, StepByStep
  <2> QED BY <2>2 DEF IsComputed
<1>3. \A i \in 0 .. Len(paths) : i # 0 => f[i - 1] \in S /\ i \in 1 .. Len(paths)
  OBVIOUS
<1> DEFINE G == [i \in 0 .. Len(paths) |-> IF i = 0 THEN Documents(w) ELSE Join(w, f[i - 1], paths[i])]
<1>4. f = G
  <2>1. ASSUME NEW i \in 0 .. Len(paths) PROVE f[i] = G[i]
    <3>1. CASE i = 0 BY <1>2, <3>1
    <3>2. CASE i # 0 BY <1>1, <1>2, <1>3, <3>2
    <3> QED BY <3>1, <3>2
  <2> QED BY <2>1
<1>5. known = [i \in 0 .. Len(paths) |->
                 IF i = 0 THEN Documents(w) ELSE Join(w, known[i - 1], paths[i])]
  BY <1>4
<1>6. Joined(w, paths) = known[Len(paths)] BY DEF Joined
<1> HIDE DEF known
<1>7. known[0] = Documents(w) /\ \A i \in 1 .. Len(paths) : known[i] = Join(w, known[i - 1], paths[i])
  BY <1>5
<1> DEFINE bad == {i \in 0 .. Len(paths) : known[i] \notin S}
<1>8. bad = {}
  <2> SUFFICES ASSUME bad # {} PROVE FALSE OBVIOUS
  <2>1. bad \subseteq Nat OBVIOUS
  <2> HIDE DEF bad
  <2>2. PICK m \in bad : \A k \in bad : m <= k BY <2>1, Least
  <2> USE DEF bad
  <2>3. m \in 1 .. Len(paths) BY <1>7, <2>2
  <2>4. m - 1 \in 0 .. Len(paths) /\ m - 1 \notin bad BY <2>2, <2>3
  <2>5. known[m - 1] \in S BY <2>4
  <2> QED BY <1>7, <2>2, <2>3, <2>5
<1>9. known \in [0 .. Len(paths) -> S] BY <1>5, <1>8
<1> QED BY <1>6, <1>7, <1>9

-----------------------------------------------------------------------------
(* The operations of WorkspaceState, for any files and limits.  Good       *)
(* sessions have identifiers of their own, list a file once under the      *)
(* identifier that goes with it, and have one of their documents selected  *)
(* when they have any.                                                     *)

FileNames(P) == {FileOf(p) : p \in P}
DocIds(P) == Nat \X FileNames(P)
DocRecords(P) == [id : DocIds(P), path : P]
SessionRecords(P) == [id : Nat, docs : Seq(DocRecords(P)), selected : DocIds(P) \cup {NoDocument}]

GoodSession(P, s) ==
  /\ s \in SessionRecords(P)
  /\ \A i \in DOMAIN s.docs : s.docs[i].id = <<s.id, FileOf(s.docs[i].path)>>
  /\ ListsFilesOnce(s)
  /\ HasItsSelection(s)

SessionsInv(P, w) ==
  /\ w \in [active : Nat, sessions : Seq(SessionRecords(P))]
  /\ Len(w.sessions) \in 1 .. MaxWorkspaces
  /\ w.active \in Ids(w.sessions)
  /\ \A i, j \in DOMAIN w.sessions : i # j => w.sessions[i].id # w.sessions[j].id
  /\ \A i \in DOMAIN w.sessions : GoodSession(P, w.sessions[i])

\* A session of w that is one of v too lists there what it listed, but for the files `gone`.
KeepsBut(w, v, gone) ==
  \A i \in DOMAIN w.sessions, j \in DOMAIN v.sessions :
    w.sessions[i].id = v.sessions[j].id
      => Files(w.sessions[i].docs) \ gone \subseteq Files(v.sessions[j].docs)

\* The index of an identifier that occurs.
LEMMA IndexIs ==
  ASSUME NEW list, NEW id \in Ids(list)
  PROVE  IndexOf(list, id) \in DOMAIN list /\ list[IndexOf(list, id)].id = id
BY DEF Ids, IndexOf

\* The active session is one of the sessions.
LEMMA ActiveIs ==
  ASSUME NEW P, NEW w, SessionsInv(P, w)
  PROVE  /\ ActiveIndex(w) \in DOMAIN w.sessions /\ Active(w).id = w.active
         /\ Active(w) = w.sessions[ActiveIndex(w)] /\ GoodSession(P, Active(w))
<1>1. ActiveIndex(w) \in DOMAIN w.sessions /\ w.sessions[ActiveIndex(w)].id = w.active
  BY IndexIs DEF SessionsInv, ActiveIndex
<1> QED
  BY <1>1 DEF SessionsInv, Active

\* What is known of a good session, field by field.
LEMMA GoodMeansTyped ==
  ASSUME NEW P, NEW s, GoodSession(P, s)
  PROVE  /\ s = [id |-> s.id, docs |-> s.docs, selected |-> s.selected]
         /\ s.id \in Nat /\ s.docs \in Seq(DocRecords(P)) /\ s.selected \in DocIds(P) \cup {NoDocument}
         /\ Len(s.docs) \in Nat /\ DOMAIN s.docs = 1 .. Len(s.docs)
         /\ \A i \in 1 .. Len(s.docs) :
              /\ s.docs[i].path \in P
              /\ s.docs[i].id = <<s.id, FileOf(s.docs[i].path)>>
              /\ s.docs[i].id # NoDocument
              /\ s.docs[i].id \in DocIds(P)
<1>1. s = [id |-> s.id, docs |-> s.docs, selected |-> s.selected]
      /\ s.id \in Nat /\ s.docs \in Seq(DocRecords(P)) /\ s.selected \in DocIds(P) \cup {NoDocument}
  BY DEF GoodSession, SessionRecords
<1>2. Len(s.docs) \in Nat /\ DOMAIN s.docs = 1 .. Len(s.docs)
  BY <1>1
<1>3. ASSUME NEW i \in 1 .. Len(s.docs)
      PROVE  s.docs[i].path \in P /\ s.docs[i].id \in DocIds(P)
             /\ s.docs[i].id = <<s.id, FileOf(s.docs[i].path)>>
  <2>1. s.docs[i] \in DocRecords(P)
    BY <1>1
  <2> QED
    BY <1>2, <2>1 DEF DocRecords, GoodSession
<1>4. ASSUME NEW d \in DocIds(P) PROVE d # NoDocument
  <2>1. \E x, y : d = <<x, y>> BY DEF DocIds
  <2> QED BY <2>1 DEF NoDocument
<1> QED
  BY <1>1, <1>2, <1>3, <1>4

\* Good sessions are well formed; no document identifier names two documents.
LEMMA SessionsInvMeansWellFormed ==
  ASSUME NEW P, NEW w, SessionsInv(P, w) PROVE WellFormed(w)
<1>1. ASSUME NEW i \in DOMAIN w.sessions, NEW j \in DOMAIN w.sessions, i # j
      PROVE  /\ w.sessions[i].id # w.sessions[j].id
             /\ Ids(w.sessions[i].docs) \cap Ids(w.sessions[j].docs) = {}
  <2>1. w.sessions[i].id # w.sessions[j].id /\ GoodSession(P, w.sessions[i]) /\ GoodSession(P, w.sessions[j])
    BY <1>1 DEF SessionsInv
  <2>2. ASSUME NEW k \in DOMAIN w.sessions[i].docs, NEW m \in DOMAIN w.sessions[j].docs
        PROVE  w.sessions[i].docs[k].id # w.sessions[j].docs[m].id
    <3>1. w.sessions[i].docs[k].id[1] = w.sessions[i].id
      BY <2>1 DEF GoodSession
    <3>2. w.sessions[j].docs[m].id[1] = w.sessions[j].id
      BY <2>1 DEF GoodSession
    <3> QED BY <2>1, <3>1, <3>2
  <2> QED
    BY <2>1, <2>2 DEF Ids
<1>2. NamesAreUnique(w)
  BY <1>1 DEF SessionsInv, NamesAreUnique
<1>3. \A i \in DOMAIN w.sessions : ListsFilesOnce(w.sessions[i]) /\ HasItsSelection(w.sessions[i])
  BY DEF SessionsInv, GoodSession
<1> QED
  BY <1>2, <1>3 DEF WellFormed

\* The active session gives its place to another one of its identifier.
LEMMA ReplacedActive ==
  ASSUME NEW P, NEW w, SessionsInv(P, w), NEW s, GoodSession(P, s), s.id = w.active
  PROVE  /\ SessionsInv(P, ReplaceActive(w, s))
         /\ ReplaceActive(w, s).active = w.active
         /\ ActiveIndex(ReplaceActive(w, s)) = ActiveIndex(w)
         /\ Active(ReplaceActive(w, s)) = s
         /\ DOMAIN ReplaceActive(w, s).sessions = DOMAIN w.sessions
         /\ \A i \in DOMAIN w.sessions : i # ActiveIndex(w) =>
              ReplaceActive(w, s).sessions[i] = w.sessions[i]
<1> DEFINE k == ActiveIndex(w)
           v == ReplaceActive(w, s)
<1>1. k \in DOMAIN w.sessions /\ w.sessions[k].id = w.active
  BY ActiveIs DEF Active
<1>2. w.sessions \in Seq(SessionRecords(P)) /\ w.active \in Nat
      /\ w = [active |-> w.active, sessions |-> w.sessions]
  BY DEF SessionsInv
<1>3. v = [active |-> w.active, sessions |-> [w.sessions EXCEPT ![k] = s]]
  <2> DEFINE id == w.active
             list == w.sessions
  <2>1. w = [active |-> id, sessions |-> list] /\ v = [w EXCEPT !.sessions[k] = s]
    BY <1>2 DEF ReplaceActive
  <2> HIDE DEF id, list, k, v
  <2>2. v = [active |-> id, sessions |-> [list EXCEPT ![k] = s]]
    BY <2>1
  <2> QED
    BY <2>2 DEF id, list
<1>4. s \in SessionRecords(P)
  BY DEF GoodSession
<1> HIDE DEF k, v
<1>5. v.sessions \in Seq(SessionRecords(P)) /\ Len(v.sessions) = Len(w.sessions)
      /\ DOMAIN v.sessions = DOMAIN w.sessions /\ v.active = w.active
  <2> DEFINE list == [w.sessions EXCEPT ![k] = s]
  <2>1. list \in Seq(SessionRecords(P)) /\ Len(list) = Len(w.sessions)
        /\ DOMAIN list = DOMAIN w.sessions
    BY <1>1, <1>2, <1>4
  <2>2. v = [active |-> w.active, sessions |-> list]
    BY <1>3
  <2> HIDE DEF list
  <2>3. v.sessions = list /\ v.active = w.active
    BY <2>2
  <2> QED
    BY <2>1, <2>3
<1>6. v.sessions[k] = s /\ \A i \in DOMAIN w.sessions : i # k => v.sessions[i] = w.sessions[i]
  BY <1>1, <1>2, <1>3
<1>7. \A i \in DOMAIN v.sessions : v.sessions[i].id = w.sessions[i].id
  BY <1>1, <1>5, <1>6
<1>8. \A i, j \in DOMAIN v.sessions : i # j => v.sessions[i].id # v.sessions[j].id
  BY <1>5, <1>7 DEF SessionsInv
<1>9. v.active \in Ids(v.sessions)
  BY <1>1, <1>5, <1>6 DEF Ids
<1>10. \A i \in DOMAIN v.sessions : GoodSession(P, v.sessions[i])
  BY <1>5, <1>6 DEF SessionsInv
<1>11. v \in [active : Nat, sessions : Seq(SessionRecords(P))]
  BY <1>2, <1>3, <1>5
<1>12. SessionsInv(P, v)
  BY <1>5, <1>8, <1>9, <1>10, <1>11 DEF SessionsInv
<1>13. ActiveIndex(v) = k
  <2>1. ActiveIndex(v) \in DOMAIN v.sessions /\ v.sessions[ActiveIndex(v)].id = v.active
    BY <1>12, ActiveIs DEF Active
  <2> QED BY <1>1, <1>5, <1>6, <1>8, <2>1
<1>14. Active(v) = s
  BY <1>6, <1>13 DEF Active
<1> QED
  BY <1>5, <1>6, <1>12, <1>13, <1>14 DEF k, v

\* What replaces the active session by one with the same documents, or more, loses no file.
LEMMA ReplacedKeeps ==
  ASSUME NEW P, NEW w, SessionsInv(P, w), NEW s, GoodSession(P, s), s.id = w.active, NEW gone,
         Files(Documents(w)) \ gone \subseteq Files(s.docs)
  PROVE  KeepsBut(w, ReplaceActive(w, s), gone)
<1> DEFINE k == ActiveIndex(w)
           v == ReplaceActive(w, s)
<1>1. k \in DOMAIN w.sessions /\ Documents(w) = w.sessions[k].docs
  BY ActiveIs DEF Documents
<1>2. DOMAIN v.sessions = DOMAIN w.sessions /\ v.sessions[k] = s
      /\ \A i \in DOMAIN w.sessions : i # k => v.sessions[i] = w.sessions[i]
  <2>1. ActiveIndex(v) = k /\ Active(v) = s
    BY ReplacedActive
  <2> QED
    BY <2>1, ReplacedActive DEF Active
<1>3. \A i \in DOMAIN w.sessions : v.sessions[i].id = w.sessions[i].id
  BY <1>1, <1>2, ActiveIs DEF Active
<1> HIDE DEF k, v
<1>4. ASSUME NEW i \in DOMAIN w.sessions, NEW j \in DOMAIN v.sessions,
             w.sessions[i].id = v.sessions[j].id
      PROVE  Files(w.sessions[i].docs) \ gone \subseteq Files(v.sessions[j].docs)
  <2>1. i = j
    BY <1>2, <1>3, <1>4 DEF SessionsInv
  <2> QED
    BY <1>1, <1>2, <2>1
<1> QED
  BY <1>4 DEF KeepsBut, v

\* A document of the session may be its selection.
LEMMA SelectedGood ==
  ASSUME NEW P, NEW s, GoodSession(P, s), NEW id \in Ids(s.docs)
  PROVE  /\ GoodSession(P, [s EXCEPT !.selected = id]) /\ [s EXCEPT !.selected = id].id = s.id
         /\ [s EXCEPT !.selected = id].docs = s.docs /\ [s EXCEPT !.selected = id].selected = id
<1>1. PICK i \in 1 .. Len(s.docs) : id = s.docs[i].id
  BY GoodMeansTyped DEF Ids
<1>2. id \in DocIds(P)
  BY <1>1, GoodMeansTyped
<1> DEFINE t == [s EXCEPT !.selected = id]
<1>3. t = [id |-> s.id, docs |-> s.docs, selected |-> id]
  BY GoodMeansTyped
<1>4. s.id \in Nat /\ s.docs \in Seq(DocRecords(P))
  BY GoodMeansTyped
<1> HIDE DEF t
<1>5. t \in SessionRecords(P)
  BY <1>2, <1>3, <1>4 DEF SessionRecords
<1>6. t.id = s.id /\ t.docs = s.docs /\ t.selected = id
  BY <1>3
<1>7. ListsFilesOnce(t)
  BY <1>6 DEF GoodSession, ListsFilesOnce
<1>8. HasItsSelection(t)
  BY <1>6, <1>1 DEF HasItsSelection, Ids
<1> QED
  BY <1>5, <1>6, <1>7, <1>8 DEF GoodSession, t

\* Selecting changes neither the documents nor the active session, and selects what it is
\* given when that is a document of the active session.
LEMMA DocumentIsSelected ==
  ASSUME NEW P, NEW w, SessionsInv(P, w), NEW id
  PROVE  /\ SessionsInv(P, SelectDocument(w, id))
         /\ KeepsBut(w, SelectDocument(w, id), {})
         /\ Documents(SelectDocument(w, id)) = Documents(w)
         /\ ActiveIndex(SelectDocument(w, id)) = ActiveIndex(w)
         /\ DOMAIN SelectDocument(w, id).sessions = DOMAIN w.sessions
         /\ \A i \in DOMAIN w.sessions :
              /\ SelectDocument(w, id).sessions[i].docs = w.sessions[i].docs
              /\ SelectDocument(w, id).sessions[i].id = w.sessions[i].id
         /\ id \in Ids(Documents(w)) => Selected(SelectDocument(w, id)) = id
<1>1. CASE id \notin Ids(Documents(w))
  <2>1. SelectDocument(w, id) = w
    BY <1>1 DEF SelectDocument
  <2>2. KeepsBut(w, w, {})
    BY DEF KeepsBut, SessionsInv
  <2> QED
    BY <1>1, <2>1, <2>2
<1>2. CASE id \in Ids(Documents(w))
  <2> DEFINE s == [Active(w) EXCEPT !.selected = id]
             v == ReplaceActive(w, s)
  <2>1. v = SelectDocument(w, id)
    BY <1>2 DEF SelectDocument
  <2>2. GoodSession(P, Active(w)) /\ Active(w).id = w.active /\ id \in Ids(Active(w).docs)
    BY <1>2, ActiveIs DEF Documents
  <2>3. GoodSession(P, s) /\ s.id = w.active /\ s.docs = Documents(w) /\ s.selected = id
    BY <2>2, SelectedGood DEF Documents
  <2> HIDE DEF s
  <2>4. SessionsInv(P, v) /\ ActiveIndex(v) = ActiveIndex(w) /\ Active(v) = s
        /\ DOMAIN v.sessions = DOMAIN w.sessions
        /\ \A i \in DOMAIN w.sessions : i # ActiveIndex(w) => v.sessions[i] = w.sessions[i]
    BY <2>3, ReplacedActive
  <2>5. KeepsBut(w, v, {})
    BY <2>3, ReplacedKeeps
  <2>6. \A i \in DOMAIN w.sessions : v.sessions[i].docs = w.sessions[i].docs
                                    /\ v.sessions[i].id = w.sessions[i].id
    BY <2>2, <2>3, <2>4 DEF Documents, Active
  <2>7. Documents(v) = Documents(w) /\ Selected(v) = id
    BY <2>3, <2>4 DEF Documents, Selected
  <2> QED
    BY <2>1, <2>4, <2>5, <2>6, <2>7
<1> QED
  BY <1>1, <1>2

\* A candidate that joins is the last of the list, under the identifier of its file.
Extends(docs, more) ==
  Len(docs) <= Len(more) /\ \A i \in 1 .. Len(docs) : more[i] = docs[i]
MayHave(P, id, docs) ==
  /\ docs \in Seq(DocRecords(P))
  /\ Len(docs) <= MaxDocuments
  /\ \A i \in 1 .. Len(docs) : docs[i].id = <<id, FileOf(docs[i].path)>>
  /\ \A i, j \in 1 .. Len(docs) : i # j => FileOf(docs[i].path) # FileOf(docs[j].path)

LEMMA JoinKeeps ==
  ASSUME NEW P, NEW w, w.active \in Nat, NEW docs, MayHave(P, w.active, docs), NEW path \in P
  PROVE  MayHave(P, w.active, Join(w, docs, path)) /\ Extends(docs, Join(w, docs, path))
<1> DEFINE d == [id |-> <<w.active, FileOf(path)>>, path |-> path]
<1>1. docs \in Seq(DocRecords(P)) /\ Len(docs) \in Nat /\ DOMAIN docs = 1 .. Len(docs)
  BY DEF MayHave
<1>2. CASE Len(docs) >= MaxDocuments \/ FileOf(path) \in Files(docs)
  BY <1>1, <1>2 DEF Join, Extends
<1>3. CASE ~(Len(docs) >= MaxDocuments \/ FileOf(path) \in Files(docs))
  <2>1. Join(w, docs, path) = Append(docs, d)
    BY <1>3 DEF Join
  <2>2. d \in DocRecords(P) /\ d.id = <<w.active, FileOf(path)>> /\ d.path = path
    BY DEF DocRecords, DocIds, FileNames
  <2> HIDE DEF d
  <2> DEFINE more == Append(docs, d)
  <2>3. more \in Seq(DocRecords(P)) /\ Len(more) = Len(docs) + 1 /\ more[Len(docs) + 1] = d
        /\ \A i \in 1 .. Len(docs) : more[i] = docs[i]
    BY <1>1, <2>2
  <2>4. Len(more) <= MaxDocuments
    BY <1>1, <1>3, <2>3, LimitsAssumption
  <2>5. \A i \in 1 .. Len(docs) : FileOf(docs[i].path) # FileOf(path)
    BY <1>1, <1>3 DEF Files
  <2> HIDE DEF more
  <2>6. \A i \in 1 .. Len(more) : i \in 1 .. Len(docs) \/ i = Len(docs) + 1
    BY <1>1, <2>3
  <2>7. \A i \in 1 .. Len(more) : more[i].id = <<w.active, FileOf(more[i].path)>>
    BY <2>2, <2>3, <2>6 DEF MayHave
  <2>8. \A i, j \in 1 .. Len(more) : i # j => FileOf(more[i].path) # FileOf(more[j].path)
    BY <2>2, <2>3, <2>5, <2>6 DEF MayHave
  <2>9. Extends(docs, more)
    BY <1>1, <2>3 DEF Extends
  <2> QED
    BY <2>1, <2>3, <2>4, <2>7, <2>8, <2>9 DEF MayHave, more
<1> QED
  BY <1>2, <1>3

\* So are all the candidates, and the documents that were there stay where they were.
LEMMA AllJoin ==
  ASSUME NEW P, NEW w, SessionsInv(P, w), NEW paths \in Seq(P)
  PROVE  MayHave(P, w.active, Joined(w, paths)) /\ Extends(Documents(w), Joined(w, paths))
<1>1. w.active \in Nat /\ Len(paths) \in Nat
  BY DEF SessionsInv
<1>2. MayHave(P, w.active, Documents(w)) /\ Documents(w) \in Seq(DocRecords(P))
  <2>1. GoodSession(P, Active(w)) /\ Active(w).id = w.active
    BY ActiveIs
  <2>2. Active(w).docs \in Seq(DocRecords(P)) /\ DOMAIN Active(w).docs = 1 .. Len(Active(w).docs)
    BY <2>1, GoodMeansTyped
  <2> QED
    BY <2>1, <2>2 DEF MayHave, GoodSession, ListsFilesOnce, Documents
<1> DEFINE S == {docs \in Seq(DocRecords(P)) : MayHave(P, w.active, docs) /\ Extends(Documents(w), docs)}
<1>3. Documents(w) \in S
  BY <1>2 DEF Extends
<1>4. ASSUME NEW docs \in S, NEW i \in 1 .. Len(paths)
      PROVE  Join(w, docs, paths[i]) \in S
  <2>1. paths[i] \in P
    OBVIOUS
  <2> DEFINE more == Join(w, docs, paths[i])
  <2>2. MayHave(P, w.active, more) /\ Extends(docs, more)
    BY <1>1, <2>1, JoinKeeps
  <2> HIDE DEF more
  <2>3. Extends(Documents(w), more)
    <3>1. Len(Documents(w)) \in Nat /\ Len(docs) \in Nat /\ Len(more) \in Nat
      BY <1>2, <2>2 DEF MayHave
    <3> QED
      BY <2>2, <3>1 DEF Extends
  <2> QED
    BY <2>2, <2>3 DEF MayHave, more
<1> HIDE DEF S
<1>5. \E known \in [0 .. Len(paths) -> S] : Joined(w, paths) = known[Len(paths)]
  BY <1>1, <1>3, <1>4, JoinedStepByStep
<1>6. Joined(w, paths) \in S
  BY <1>1, <1>5
<1> QED
  BY <1>6 DEF S

\* Two fields changed at once.
LEMMA TwoChanged ==
  ASSUME NEW P, NEW r, GoodSession(P, r), NEW e, NEW y
  PROVE  [r EXCEPT !.docs = e, !.selected = y] = [id |-> r.id, docs |-> e, selected |-> y]
<1>0. r = [id |-> r.id, docs |-> r.docs, selected |-> r.selected]
  BY GoodMeansTyped
<1> DEFINE q == [r EXCEPT !.docs = e]
<1>1. q = [id |-> r.id, docs |-> e, selected |-> r.selected]
  BY <1>0
<1>2. [r EXCEPT !.docs = e, !.selected = y] = [q EXCEPT !.selected = y]
  BY <1>0
<1> HIDE DEF q
<1>3. [q EXCEPT !.selected = y] = [id |-> r.id, docs |-> e, selected |-> y]
  BY <1>1
<1> QED
  BY <1>2, <1>3

\* A session with other documents and another selection.
LEMMA GoodFromDocs ==
  ASSUME NEW P, NEW s, GoodSession(P, s), NEW docs, MayHave(P, s.id, docs), NEW selected,
         IF docs = <<>> THEN selected = NoDocument ELSE selected \in Ids(docs)
  PROVE  GoodSession(P, [s EXCEPT !.docs = docs, !.selected = selected])
<1> DEFINE t == [s EXCEPT !.docs = docs, !.selected = selected]
<1>1. t = [id |-> s.id, docs |-> docs, selected |-> selected]
  BY TwoChanged
<1>2. s.id \in Nat /\ docs \in Seq(DocRecords(P)) /\ DOMAIN docs = 1 .. Len(docs)
  BY GoodMeansTyped DEF MayHave
<1>3. selected \in DocIds(P) \cup {NoDocument}
  <2>1. \A i \in 1 .. Len(docs) : docs[i].id \in DocIds(P)
    <3>1. \A i \in 1 .. Len(docs) : docs[i] \in DocRecords(P)
      BY <1>2
    <3> QED
      BY <3>1 DEF DocRecords
  <2> QED
    BY <1>2, <2>1 DEF Ids
<1> HIDE DEF t
<1>4. t.id = s.id /\ t.docs = docs /\ t.selected = selected
  BY <1>1
<1>5. t \in SessionRecords(P)
  BY <1>1, <1>2, <1>3 DEF SessionRecords
<1>6. ListsFilesOnce(t)
  BY <1>2, <1>4 DEF MayHave, ListsFilesOnce
<1>7. HasItsSelection(t)
  BY <1>4 DEF HasItsSelection
<1> QED
  BY <1>2, <1>4, <1>5, <1>6, <1>7 DEF GoodSession, MayHave, t

\* add_documents keeps the sessions good, and loses nothing.
LEMMA DocumentsAreAdded ==
  ASSUME NEW P, NEW w, SessionsInv(P, w), NEW paths \in Seq(P)
  PROVE  SessionsInv(P, AddDocuments(w, paths)) /\ KeepsBut(w, AddDocuments(w, paths), {})
<1> DEFINE old == Active(w)
           docs == Joined(w, paths)
           selected == IF old.selected = NoDocument THEN FirstOrNone(docs) ELSE old.selected
           s == [old EXCEPT !.docs = docs, !.selected = selected]
<1>1. GoodSession(P, old) /\ old.id = w.active
  BY ActiveIs
<1>2. MayHave(P, old.id, docs) /\ Extends(old.docs, docs)
  BY <1>1, AllJoin DEF Documents
<1>3. old.docs \in Seq(DocRecords(P)) /\ Len(old.docs) \in Nat /\ DOMAIN old.docs = 1 .. Len(old.docs)
      /\ docs \in Seq(DocRecords(P)) /\ Len(docs) \in Nat /\ DOMAIN docs = 1 .. Len(docs)
  BY <1>1, <1>2, GoodMeansTyped DEF MayHave
<1>4. old = [id |-> old.id, docs |-> old.docs, selected |-> old.selected]
  BY <1>1, GoodMeansTyped
<1>5. AddDocuments(w, paths) = ReplaceActive(w, s)
  BY <1>4 DEF AddDocuments
<1> HIDE DEF old, docs
<1>6. Ids(old.docs) \subseteq Ids(docs)
  BY <1>2, <1>3 DEF Extends, Ids
<1>7. Files(old.docs) \subseteq Files(docs)
  BY <1>2, <1>3 DEF Extends, Files
<1>8. IF docs = <<>> THEN selected = NoDocument ELSE selected \in Ids(docs)
  <2>1. CASE old.docs = <<>>
    <3>1. old.selected = NoDocument
      BY <1>1, <2>1 DEF GoodSession, HasItsSelection
    <3>2. docs # <<>> => 1 \in DOMAIN docs
      BY <1>3
    <3> QED
      BY <3>1, <3>2 DEF FirstOrNone, Ids
  <2>2. CASE old.docs # <<>>
    <3>1. old.selected \in Ids(old.docs)
      BY <1>1, <2>2 DEF GoodSession, HasItsSelection
    <3>2. old.selected # NoDocument
      BY <1>1, <1>3, <3>1, GoodMeansTyped DEF Ids
    <3>3. docs # <<>>
      <4>1. \E i \in 1 .. Len(docs) : old.selected = docs[i].id
        BY <1>3, <1>6, <3>1 DEF Ids
      <4>2. Len(docs) # 0
        BY <1>3, <4>1
      <4> QED
        BY <4>2
    <3> QED
      BY <1>6, <3>1, <3>2, <3>3
  <2> QED
    BY <2>1, <2>2
<1> HIDE DEF selected
<1>9. GoodSession(P, s)
  BY <1>1, <1>2, <1>8, GoodFromDocs
<1>10. s.id = w.active /\ s.docs = docs
  BY <1>1, <1>4
<1>11. Files(Documents(w)) \ {} \subseteq Files(s.docs)
  BY <1>7, <1>10 DEF Documents, old
<1> HIDE DEF s
<1> QED
  BY <1>5, <1>9, <1>10, <1>11, ReplacedActive, ReplacedKeeps

\* What RemoveAt leaves: the others, in their order.
LEMMA OneIsRemoved ==
  ASSUME NEW T, NEW list \in Seq(T), NEW k \in 1 .. Len(list)
  PROVE  /\ RemoveAt(list, k) \in Seq(T)
         /\ Len(RemoveAt(list, k)) = Len(list) - 1
         /\ \A j \in 1 .. Len(list) - 1 :
              RemoveAt(list, k)[j] = list[IF j < k THEN j ELSE j + 1]
<1> DEFINE before == SubSeq(list, 1, k - 1)
           after == SubSeq(list, k + 1, Len(list))
<1>1. Len(list) \in Nat
  OBVIOUS
<1>2. before \in Seq(T) /\ Len(before) = k - 1 /\ \A j \in 1 .. k - 1 : before[j] = list[j]
  OBVIOUS
<1>3. after \in Seq(T) /\ Len(after) = Len(list) - k
      /\ \A j \in 1 .. Len(list) - k : after[j] = list[k + j]
  OBVIOUS
<1>4. RemoveAt(list, k) = before \o after
  BY DEF RemoveAt
<1> HIDE DEF before, after
<1>5. before \o after \in Seq(T) /\ Len(before \o after) = Len(list) - 1
  <2>1. before \o after \in Seq(T) /\ Len(before \o after) = Len(before) + Len(after)
    <3>1. before \in Seq(T) /\ after \in Seq(T)
      BY <1>2, <1>3
    <3> QED
      BY <3>1
  <2>2. (k - 1) + (Len(list) - k) = Len(list) - 1
    BY <1>1
  <2> QED
    BY <1>2, <1>3, <2>1, <2>2
<1>6. ASSUME NEW j \in 1 .. Len(list) - 1
      PROVE  (before \o after)[j] = list[IF j < k THEN j ELSE j + 1]
  <2>1. CASE j < k
    BY <1>1, <1>2, <1>3, <2>1
  <2>2. CASE ~(j < k)
    <3>1. j - (k - 1) \in 1 .. Len(list) - k /\ k + (j - (k - 1)) = j + 1
      BY <1>1, <2>2
    <3>2. (before \o after)[j] = after[j - (k - 1)]
      BY <1>1, <1>2, <1>3, <2>2
    <3> QED
      BY <1>3, <2>2, <3>1, <3>2
  <2> QED
    BY <2>1, <2>2
<1> QED
  BY <1>4, <1>5, <1>6

\* remove_document loses no file but that of the document.
LEMMA DocumentIsRemoved ==
  ASSUME NEW P, NEW w, SessionsInv(P, w), NEW id \in Ids(Documents(w))
  PROVE  /\ SessionsInv(P, RemoveDocument(w, id))
         /\ KeepsBut(w, RemoveDocument(w, id),
                     {FileOf(Documents(w)[IndexOf(Documents(w), id)].path)})
<1> DEFINE old == Active(w)
           docs == old.docs
           k == IndexOf(docs, id)
           rest == RemoveAt(docs, k)
           next == IF rest = <<>> THEN NoDocument
                   ELSE rest[IF k <= Len(rest) THEN k ELSE Len(rest)].id
           selected == IF old.selected = id THEN next ELSE old.selected
           s == [old EXCEPT !.docs = rest, !.selected = selected]
           at(j) == IF j < k THEN j ELSE j + 1
<1>1. GoodSession(P, old) /\ old.id = w.active
  BY ActiveIs
<1>2. docs \in Seq(DocRecords(P)) /\ Len(docs) \in Nat /\ DOMAIN docs = 1 .. Len(docs)
      /\ old = [id |-> old.id, docs |-> docs, selected |-> old.selected]
  BY <1>1, GoodMeansTyped
<1>3. k \in 1 .. Len(docs) /\ docs[k].id = id
  BY <1>2, IndexIs DEF Documents
<1>4. rest \in Seq(DocRecords(P)) /\ Len(rest) = Len(docs) - 1
      /\ \A j \in 1 .. Len(docs) - 1 : rest[j] = docs[at(j)]
  BY <1>2, <1>3, OneIsRemoved
<1>5. RemoveDocument(w, id) = ReplaceActive(w, s)
  <2>1. [old EXCEPT !.docs = rest, !.selected = IF @ = id THEN next ELSE @] = s
    BY <1>2
  <2> QED
    BY <2>1 DEF RemoveDocument, Documents
<1> HIDE DEF old, docs, k, rest
<1>6. /\ DOMAIN rest = 1 .. Len(rest) /\ Len(rest) \in Nat
      /\ \A j \in 1 .. Len(rest) : at(j) \in 1 .. Len(docs) /\ at(j) # k /\ rest[j] = docs[at(j)]
      /\ \A i, j \in 1 .. Len(rest) : at(i) = at(j) => i = j
  BY <1>2, <1>3, <1>4
<1>7. \A i \in 1 .. Len(docs) : i # k => \E j \in 1 .. Len(rest) : at(j) = i
  <2> SUFFICES ASSUME NEW i \in 1 .. Len(docs), i # k
               PROVE  \E j \in 1 .. Len(rest) : at(j) = i
    OBVIOUS
  <2>1. CASE i < k
    BY <1>2, <1>3, <1>4, <2>1
  <2>2. CASE ~(i < k)
    <3>1. i - 1 \in 1 .. Len(rest) /\ at(i - 1) = i
      BY <1>2, <1>3, <1>4, <2>2
    <3> QED
      BY <3>1
  <2> QED
    BY <2>1, <2>2
<1> HIDE DEF at
<1>8. MayHave(P, old.id, rest)
  <2>1. /\ Len(docs) <= MaxDocuments
        /\ \A i \in 1 .. Len(docs) : docs[i].id = <<old.id, FileOf(docs[i].path)>>
        /\ \A i, j \in 1 .. Len(docs) : i # j => FileOf(docs[i].path) # FileOf(docs[j].path)
    BY <1>1, <1>2 DEF GoodSession, ListsFilesOnce, docs
  <2>2. Len(rest) <= MaxDocuments
    BY <1>2, <1>4, <2>1, LimitsAssumption
  <2>3. \A j \in 1 .. Len(rest) : rest[j].id = <<old.id, FileOf(rest[j].path)>>
    BY <1>6, <2>1
  <2>4. ASSUME NEW i \in 1 .. Len(rest), NEW j \in 1 .. Len(rest), i # j
        PROVE  FileOf(rest[i].path) # FileOf(rest[j].path)
    <3>1. at(i) \in 1 .. Len(docs) /\ at(j) \in 1 .. Len(docs) /\ at(i) # at(j)
          /\ rest[i] = docs[at(i)] /\ rest[j] = docs[at(j)]
      BY <1>6, <2>4
    <3> QED
      BY <2>1, <3>1
  <2> QED
    BY <1>4, <2>2, <2>3, <2>4 DEF MayHave
<1>9. \A x \in Ids(docs) : x # id => x \in Ids(rest)
  <2> SUFFICES ASSUME NEW i \in 1 .. Len(docs), docs[i].id # id
               PROVE  docs[i].id \in Ids(rest)
    BY <1>2 DEF Ids
  <2>1. PICK j \in 1 .. Len(rest) : at(j) = i
    BY <1>3, <1>7
  <2> QED
    BY <1>6, <2>1 DEF Ids
<1>10. IF rest = <<>> THEN selected = NoDocument ELSE selected \in Ids(rest)
  <2>0. docs # <<>>
    <3>1. Len(docs) # 0
      BY <1>2, <1>3
    <3> QED
      BY <3>1
  <2>1. old.selected \in Ids(docs)
    BY <1>1, <2>0 DEF GoodSession, HasItsSelection, docs
  <2>2. rest = <<>> => Ids(rest) = {}
    BY DEF Ids
  <2>3. rest # <<>> => next \in Ids(rest)
    <3> SUFFICES ASSUME rest # <<>> PROVE next \in Ids(rest)
      OBVIOUS
    <3>0. DOMAIN rest = {} => rest = <<>>
      BY <1>4
    <3>1. Len(rest) # 0
      BY <1>6, <3>0
    <3>2. (IF k <= Len(rest) THEN k ELSE Len(rest)) \in 1 .. Len(rest)
      BY <1>2, <1>3, <1>6, <3>1
    <3> QED
      BY <1>6, <3>2 DEF Ids
  <2> QED
    BY <1>9, <2>1, <2>2, <2>3
<1> HIDE DEF selected, next
<1>11. GoodSession(P, s)
  BY <1>1, <1>8, <1>10, GoodFromDocs
<1>12. s.id = w.active /\ s.docs = rest
  BY <1>1, TwoChanged
<1>13. Files(docs) \ {FileOf(docs[k].path)} \subseteq Files(rest)
  <2> SUFFICES ASSUME NEW i \in 1 .. Len(docs), FileOf(docs[i].path) # FileOf(docs[k].path)
               PROVE  FileOf(docs[i].path) \in Files(rest)
    BY <1>2 DEF Files
  <2>1. PICK j \in 1 .. Len(rest) : at(j) = i
    BY <1>7
  <2> QED
    BY <1>6, <2>1 DEF Files
<1> HIDE DEF s
<1>14. Documents(w) = docs
  BY DEF Documents, docs, old
<1>15. SessionsInv(P, ReplaceActive(w, s)) /\ KeepsBut(w, ReplaceActive(w, s), {FileOf(docs[k].path)})
  BY <1>11, <1>12, <1>13, <1>14, ReplacedActive, ReplacedKeeps
<1> QED
  BY <1>5, <1>14, <1>15 DEF k

\* select_workspace.
LEMMA WorkspaceIsSelected ==
  ASSUME NEW P, NEW w, SessionsInv(P, w), NEW id \in Ids(w.sessions)
  PROVE  SessionsInv(P, SelectWorkspace(w, id)) /\ KeepsBut(w, SelectWorkspace(w, id), {})
<1>1. w = [active |-> w.active, sessions |-> w.sessions] /\ w.sessions \in Seq(SessionRecords(P))
  BY DEF SessionsInv
<1>2. SelectWorkspace(w, id) = [active |-> id, sessions |-> w.sessions]
  BY <1>1 DEF SelectWorkspace
<1>3. id \in Nat
  <2>1. PICK i \in DOMAIN w.sessions : id = w.sessions[i].id
    BY DEF Ids
  <2>2. w.sessions[i] \in SessionRecords(P)
    BY <1>1, <2>1
  <2> QED
    BY <2>1, <2>2 DEF SessionRecords
<1> DEFINE v == [active |-> id, sessions |-> w.sessions]
<1>4. v.active = id /\ v.sessions = w.sessions /\ v \in [active : Nat, sessions : Seq(SessionRecords(P))]
  BY <1>1, <1>3
<1> HIDE DEF v
<1>5. SessionsInv(P, v)
  BY <1>4 DEF SessionsInv
<1>6. KeepsBut(w, v, {})
  BY <1>4 DEF KeepsBut, SessionsInv
<1> QED
  BY <1>2, <1>5, <1>6 DEF v

\* remove_workspace: every session that stays has its documents.
LEMMA WorkspaceIsRemoved ==
  ASSUME NEW P, NEW w, SessionsInv(P, w), NEW id \in Ids(w.sessions), Len(w.sessions) > 1
  PROVE  SessionsInv(P, RemoveWorkspace(w, id)) /\ KeepsBut(w, RemoveWorkspace(w, id), {})
<1> DEFINE list == w.sessions
           k == IndexOf(list, id)
           rest == RemoveAt(list, k)
           active == IF w.active # id THEN w.active
                     ELSE rest[IF k <= Len(rest) THEN k ELSE Len(rest)].id
           v == [active |-> active, sessions |-> rest]
           at(j) == IF j < k THEN j ELSE j + 1
<1>1. list \in Seq(SessionRecords(P)) /\ Len(list) \in Nat /\ DOMAIN list = 1 .. Len(list)
  BY DEF SessionsInv
<1>2. k \in 1 .. Len(list) /\ list[k].id = id
  BY <1>1, IndexIs
<1>3. rest \in Seq(SessionRecords(P)) /\ Len(rest) = Len(list) - 1
      /\ \A j \in 1 .. Len(list) - 1 : rest[j] = list[at(j)]
  BY <1>1, <1>2, OneIsRemoved
<1>4. RemoveWorkspace(w, id) = v
  BY DEF RemoveWorkspace
<1>5. /\ Len(list) > 1 /\ Len(list) <= MaxWorkspaces
      /\ \A i, j \in 1 .. Len(list) : i # j => list[i].id # list[j].id
      /\ \A i \in 1 .. Len(list) : GoodSession(P, list[i])
      /\ w.active \in Ids(list)
  <2>1. Len(list) > 1 /\ Len(list) \in 1 .. MaxWorkspaces /\ w.active \in Ids(list)
    BY DEF SessionsInv
  <2>2. \A i, j \in 1 .. Len(list) : i # j => list[i].id # list[j].id
    BY <1>1 DEF SessionsInv
  <2>3. \A i \in 1 .. Len(list) : GoodSession(P, list[i])
    BY <1>1 DEF SessionsInv
  <2> QED
    BY <1>1, <2>1, <2>2, <2>3, LimitsAssumption
<1> HIDE DEF list, k, rest
<1>6. /\ DOMAIN rest = 1 .. Len(rest) /\ Len(rest) \in Nat
      /\ \A j \in 1 .. Len(rest) : at(j) \in 1 .. Len(list) /\ at(j) # k /\ rest[j] = list[at(j)]
      /\ \A i, j \in 1 .. Len(rest) : at(i) = at(j) => i = j
  BY <1>1, <1>2, <1>3
<1>7. \A i \in 1 .. Len(list) : i # k => \E j \in 1 .. Len(rest) : at(j) = i
  <2> SUFFICES ASSUME NEW i \in 1 .. Len(list), i # k
               PROVE  \E j \in 1 .. Len(rest) : at(j) = i
    OBVIOUS
  <2>1. CASE i < k
    BY <1>1, <1>2, <1>3, <2>1
  <2>2. CASE ~(i < k)
    <3>1. i - 1 \in 1 .. Len(rest) /\ at(i - 1) = i
      BY <1>1, <1>2, <1>3, <2>2
    <3> QED
      BY <3>1
  <2> QED
    BY <2>1, <2>2
<1> HIDE DEF at
<1>8. active \in Ids(rest)
  <2>1. CASE w.active # id
    <3>1. PICK i \in 1 .. Len(list) : w.active = list[i].id
      BY <1>1, <1>5 DEF Ids
    <3>2. PICK j \in 1 .. Len(rest) : at(j) = i
      BY <1>2, <1>7, <2>1, <3>1
    <3> QED
      BY <1>6, <2>1, <3>1, <3>2 DEF Ids
  <2>2. CASE w.active = id
    <3>1. (IF k <= Len(rest) THEN k ELSE Len(rest)) \in 1 .. Len(rest)
      BY <1>1, <1>2, <1>3, <1>5
    <3> QED
      BY <1>6, <2>2, <3>1 DEF Ids
  <2> QED
    BY <2>1, <2>2
<1>9. active \in Nat
  <2>1. PICK j \in 1 .. Len(rest) : active = rest[j].id
    BY <1>6, <1>8 DEF Ids
  <2>2. rest[j] \in SessionRecords(P)
    BY <1>3, <2>1
  <2> QED
    BY <2>1, <2>2 DEF SessionRecords
<1> HIDE DEF active
<1>10. v.active = active /\ v.sessions = rest /\ v \in [active : Nat, sessions : Seq(SessionRecords(P))]
  BY <1>3, <1>9
<1> HIDE DEF v
<1>11. Len(rest) \in 1 .. MaxWorkspaces
  BY <1>1, <1>3, <1>5, LimitsAssumption
<1>12. \A i, j \in 1 .. Len(rest) : i # j => rest[i].id # rest[j].id
  BY <1>5, <1>6
<1>13. SessionsInv(P, v)
  <2>1. \A i \in 1 .. Len(rest) : GoodSession(P, rest[i])
    BY <1>5, <1>6
  <2>2. DOMAIN v.sessions = 1 .. Len(rest) /\ DOMAIN rest = 1 .. Len(rest)
    BY <1>6, <1>10
  <2> QED
    BY <1>8, <1>10, <1>11, <1>12, <2>1, <2>2 DEF SessionsInv
<1>14. KeepsBut(w, v, {})
  <2> SUFFICES ASSUME NEW i \in 1 .. Len(list), NEW j \in 1 .. Len(rest), list[i].id = rest[j].id
               PROVE  Files(list[i].docs) \ {} \subseteq Files(rest[j].docs)
    BY <1>1, <1>6, <1>10 DEF KeepsBut, list
  <2>1. i = at(j)
    BY <1>5, <1>6
  <2> QED
    BY <1>6, <2>1
<1> QED
  BY <1>4, <1>13, <1>14

\* A new session has an identifier of its own.
LEMMA FreshIsFresh ==
  ASSUME NEW list, Len(list) \in Nat, DOMAIN list = 1 .. Len(list)
  PROVE  FreshId(Ids(list)) \in Nat /\ FreshId(Ids(list)) \notin Ids(list)
<1> DEFINE used == Ids(list)
           free == (1 .. Cardinality(used) + 1) \ used
           f == [i \in 1 .. Len(list) |-> list[i].id]
<1>1. f \in Surjection(1 .. Len(list), used)
  BY DEF Surjection, Ids
<1>2. IsFiniteSet(1 .. Len(list))
  BY FS_Interval
<1>3. IsFiniteSet(used) /\ Cardinality(used) \in Nat
  BY <1>1, <1>2, FS_Surjection, FS_CardinalityType
<1> HIDE DEF used, f
<1>4. free # {}
  <2> SUFFICES ASSUME free = {} PROVE FALSE
    OBVIOUS
  <2>1. (1 .. Cardinality(used) + 1) \in SUBSET used
    OBVIOUS
  <2>2. Cardinality(1 .. Cardinality(used) + 1) <= Cardinality(used)
    BY <1>3, <2>1, FS_Subset
  <2>3. Cardinality(1 .. Cardinality(used) + 1) = Cardinality(used) + 1
    <3>1. 1 \in Int /\ Cardinality(used) + 1 \in Int /\ ~(1 > Cardinality(used) + 1)
          /\ (Cardinality(used) + 1) - 1 + 1 = Cardinality(used) + 1
      BY <1>3
    <3> QED
      BY <3>1, FS_Interval
  <2> QED
    BY <1>3, <2>2, <2>3
<1>5. free \subseteq Nat
  BY <1>3
<1>6. FreshId(used) = CHOOSE m \in free : \A k \in free : m <= k
  BY DEF FreshId, Min
<1> HIDE DEF free
<1>7. \E m \in free : \A k \in free : m <= k
  BY <1>4, <1>5, Least
<1>8. FreshId(used) \in free
  BY <1>6, <1>7
<1> QED
  BY <1>5, <1>8 DEF free, used

\* A session without documents.
LEMMA EmptyIsGood ==
  ASSUME NEW P, NEW id \in Nat PROVE GoodSession(P, [id |-> id, docs |-> <<>>, selected |-> NoDocument])
<1> DEFINE s == [id |-> id, docs |-> <<>>, selected |-> NoDocument]
<1>1. s \in SessionRecords(P)
  BY DEF SessionRecords
<1>2. s.docs = <<>> /\ s.selected = NoDocument
  OBVIOUS
<1> HIDE DEF s
<1>3. Len(s.docs) = 0 /\ DOMAIN s.docs = {}
  BY <1>2
<1> QED
  BY <1>1, <1>2, <1>3, LimitsAssumption DEF GoodSession, ListsFilesOnce, HasItsSelection, s

\* add_workspace.
LEMMA WorkspaceIsAdded ==
  ASSUME NEW P, NEW w, SessionsInv(P, w), CanAddWorkspace(w)
  PROVE  SessionsInv(P, AddWorkspace(w)) /\ KeepsBut(w, AddWorkspace(w), {})
<1> DEFINE list == w.sessions
           id == FreshId(Ids(list))
           s == [id |-> id, docs |-> <<>>, selected |-> NoDocument]
           more == Append(list, s)
           v == [active |-> id, sessions |-> more]
<1>1. /\ list \in Seq(SessionRecords(P)) /\ Len(list) \in Nat /\ DOMAIN list = 1 .. Len(list)
      /\ \A i, j \in 1 .. Len(list) : i # j => list[i].id # list[j].id
      /\ \A i \in 1 .. Len(list) : GoodSession(P, list[i])
  BY DEF SessionsInv
<1>2. id \in Nat /\ id \notin Ids(list)
  BY <1>1, FreshIsFresh
<1>3. AddWorkspace(w) = v
  BY DEF AddWorkspace
<1>4. Len(list) < MaxWorkspaces
  BY DEF CanAddWorkspace
<1> HIDE DEF list, id
<1>5. GoodSession(P, s) /\ s.id = id
  BY <1>2, EmptyIsGood
<1>6. s \in SessionRecords(P)
  BY <1>5 DEF GoodSession
<1> HIDE DEF s
<1>7. more \in Seq(SessionRecords(P)) /\ Len(more) = Len(list) + 1 /\ DOMAIN more = 1 .. Len(list) + 1
      /\ more[Len(list) + 1] = s /\ \A i \in 1 .. Len(list) : more[i] = list[i]
  BY <1>1, <1>6
<1>8. \A i \in 1 .. Len(list) + 1 : i \in 1 .. Len(list) \/ i = Len(list) + 1
  BY <1>1
<1>9. \A i \in 1 .. Len(list) : list[i].id # id
  BY <1>1, <1>2 DEF Ids
<1> HIDE DEF more
<1>10. v.active = id /\ v.sessions = more /\ v \in [active : Nat, sessions : Seq(SessionRecords(P))]
  BY <1>2, <1>7
<1> HIDE DEF v
<1>11. \A i, j \in DOMAIN more : i # j => more[i].id # more[j].id
  BY <1>1, <1>5, <1>7, <1>8, <1>9
<1>12. ASSUME NEW i \in DOMAIN more PROVE GoodSession(P, more[i])
  <2>1. CASE i \in 1 .. Len(list)
    BY <1>1, <1>7, <2>1
  <2>2. CASE i = Len(list) + 1
    BY <1>5, <1>7, <2>2
  <2> QED
    BY <1>7, <1>8, <2>1, <2>2
<1>13. id \in Ids(more)
  <2>1. Len(list) + 1 \in DOMAIN more
    BY <1>1, <1>7
  <2> QED
    BY <1>5, <1>7, <2>1 DEF Ids
<1>14. Len(more) \in 1 .. MaxWorkspaces
  BY <1>1, <1>4, <1>7, LimitsAssumption
<1>15. SessionsInv(P, v)
  BY <1>10, <1>11, <1>12, <1>13, <1>14 DEF SessionsInv
<1>16. KeepsBut(w, v, {})
  <2> SUFFICES ASSUME NEW i \in 1 .. Len(list), NEW j \in DOMAIN more, list[i].id = more[j].id
               PROVE  Files(list[i].docs) \ {} \subseteq Files(more[j].docs)
    BY <1>1, <1>10 DEF KeepsBut, list
  <2>1. j \in 1 .. Len(list)
    BY <1>5, <1>7, <1>8, <1>9
  <2>2. i = j
    BY <1>1, <1>7, <2>1
  <2> QED
    BY <1>7, <2>2
<1> QED
  BY <1>3, <1>15, <1>16

\* "Session 1".
LEMMA FirstIsGood == ASSUME NEW P PROVE SessionsInv(P, FirstWorkspaces)
<1> DEFINE s == [id |-> 1, docs |-> <<>>, selected |-> NoDocument]
           v == [active |-> 1, sessions |-> <<s>>]
<1>1. GoodSession(P, s) /\ s.id = 1
  BY EmptyIsGood
<1>2. s \in SessionRecords(P)
  BY <1>1 DEF GoodSession
<1>3. v = FirstWorkspaces
  BY DEF FirstWorkspaces
<1> HIDE DEF s
<1>4. v.active = 1 /\ v.sessions = <<s>> /\ v \in [active : Nat, sessions : Seq(SessionRecords(P))]
  BY <1>2
<1> HIDE DEF v
<1>5. Len(v.sessions) = 1 /\ DOMAIN v.sessions = {1} /\ v.sessions[1] = s
  BY <1>4
<1> QED
  BY <1>1, <1>3, <1>4, <1>5, LimitsAssumption DEF SessionsInv, Ids

\* The path of the selection, which its identifier determines.
LEMMA SelectedPathIs ==
  ASSUME NEW w, SessionsInv(Paths, w)
  PROVE  /\ SelectedPath(w) \in Paths \cup {NoPath}
         /\ \A id \in Ids(Documents(w)) :
              /\ Documents(w)[IndexOf(Documents(w), id)].path \in Paths
              /\ Documents(w)[IndexOf(Documents(w), id)].id = id
              /\ FileOf(Documents(w)[IndexOf(Documents(w), id)].path) = id[2]
              /\ Selected(w) = id => SelectedPath(w) = Documents(w)[IndexOf(Documents(w), id)].path
<1> DEFINE docs == Documents(w)
<1>1. GoodSession(Paths, Active(w)) /\ docs = Active(w).docs
  BY ActiveIs DEF Documents
<1>2. DOMAIN docs = 1 .. Len(docs)
      /\ \A i \in 1 .. Len(docs) : docs[i].path \in Paths /\ docs[i].id # NoDocument
                                   /\ docs[i].id = <<Active(w).id, FileOf(docs[i].path)>>
  BY <1>1, GoodMeansTyped
<1> HIDE DEF docs
<1>3. ASSUME NEW id \in Ids(docs)
      PROVE  /\ docs[IndexOf(docs, id)].path \in Paths /\ docs[IndexOf(docs, id)].id = id
             /\ FileOf(docs[IndexOf(docs, id)].path) = id[2] /\ id # NoDocument
  <2>1. IndexOf(docs, id) \in 1 .. Len(docs) /\ docs[IndexOf(docs, id)].id = id
    BY <1>2, IndexIs
  <2> QED
    BY <1>2, <2>1
<1>4. \A id \in Ids(docs) : Selected(w) = id => SelectedPath(w) = docs[IndexOf(docs, id)].path
  BY <1>3 DEF SelectedPath, SelectedDocument, docs
<1>5. Selected(w) = NoDocument \/ Selected(w) \in Ids(docs)
  BY <1>1 DEF GoodSession, HasItsSelection, Selected
<1>6. SelectedPath(w) \in Paths \cup {NoPath}
  BY <1>3, <1>4, <1>5 DEF SelectedPath
<1> QED
  BY <1>3, <1>4, <1>6 DEF docs

\* _open_document_workspace: when no other session lists the file, it is selected.
LEMMA FilesAreOpened ==
  ASSUME SessionsInv(Paths, ws), NEW paths \in Seq(Paths), NEW path \in Paths
  PROVE  /\ SessionsInv(Paths, Opened(paths, path)) /\ KeepsBut(ws, Opened(paths, path), {})
         /\ (\A i \in DOMAIN Opened(paths, path).sessions :
               FileOf(path) \in Files(Opened(paths, path).sessions[i].docs)
                 <=> i = ActiveIndex(Opened(paths, path)))
            => FileOf(SelectedPath(Opened(paths, path))) = FileOf(path)
<1> DEFINE w == AddDocuments(ws, paths)
           v == Opened(paths, path)
           found == DocumentsByPath(w, path)
           first == FirstByPath(w, path)
<1>1. SessionsInv(Paths, w) /\ KeepsBut(ws, w, {})
  BY DocumentsAreAdded
<1>2. v = IF found = {} THEN w ELSE SelectDocument(w, first.id)
  BY DEF Opened
<1>3. SessionsInv(Paths, SelectDocument(w, first.id)) /\ KeepsBut(w, SelectDocument(w, first.id), {})
      /\ Documents(SelectDocument(w, first.id)) = Documents(w)
      /\ ActiveIndex(SelectDocument(w, first.id)) = ActiveIndex(w)
      /\ DOMAIN SelectDocument(w, first.id).sessions = DOMAIN w.sessions
      /\ (\A i \in DOMAIN w.sessions :
            /\ SelectDocument(w, first.id).sessions[i].docs = w.sessions[i].docs
            /\ SelectDocument(w, first.id).sessions[i].id = w.sessions[i].id)
      /\ (first.id \in Ids(Documents(w)) => Selected(SelectDocument(w, first.id)) = first.id)
  BY <1>1, DocumentIsSelected
<1> HIDE DEF w, v, found
<1>4. SessionsInv(Paths, v)
  BY <1>1, <1>2, <1>3
<1>5. KeepsBut(ws, v, {})
  <2>1. CASE found = {}
    BY <1>1, <1>2, <2>1
  <2>2. CASE found # {}
    <3>1. v = SelectDocument(w, first.id)
      BY <1>2, <2>2
    <3>2. DOMAIN v.sessions = DOMAIN w.sessions
          /\ \A i \in DOMAIN w.sessions : v.sessions[i].docs = w.sessions[i].docs
                                         /\ v.sessions[i].id = w.sessions[i].id
      BY <1>3, <3>1
    <3> QED
      BY <1>1, <3>2 DEF KeepsBut
  <2> QED
    BY <2>1, <2>2
<1>6. ASSUME \A i \in DOMAIN v.sessions :
               FileOf(path) \in Files(v.sessions[i].docs) <=> i = ActiveIndex(v)
      PROVE  FileOf(SelectedPath(v)) = FileOf(path)
  <2> DEFINE k == ActiveIndex(w)
             docs == Documents(w)
             Holds(e) == /\ e.in \in DOMAIN w.sessions
                         /\ \E j \in DOMAIN w.sessions[e.in].docs :
                              /\ e.doc = w.sessions[e.in].docs[j]
                              /\ FileOf(w.sessions[e.in].docs[j].path) = FileOf(path)
  <2>1. DOMAIN v.sessions = DOMAIN w.sessions /\ ActiveIndex(v) = k
        /\ \A i \in DOMAIN w.sessions : v.sessions[i].docs = w.sessions[i].docs
    BY <1>2, <1>3
  <2>2. k \in DOMAIN w.sessions /\ docs = w.sessions[k].docs /\ k \in Nat
    <3>1. k \in DOMAIN w.sessions /\ docs = w.sessions[k].docs
      BY <1>1, ActiveIs DEF Documents
    <3>2. w.sessions \in Seq(SessionRecords(Paths))
      BY <1>1 DEF SessionsInv
    <3> QED
      BY <3>1, <3>2
  <2> HIDE DEF k, docs
  <2>3. \A i \in DOMAIN w.sessions : FileOf(path) \in Files(w.sessions[i].docs) <=> i = k
    BY <1>6, <2>1
  <2>4. found = UNION {{[in |-> i, doc |-> w.sessions[i].docs[j]] :
                          j \in {m \in DOMAIN w.sessions[i].docs :
                                   FileOf(w.sessions[i].docs[m].path) = FileOf(path)}} :
                       i \in DOMAIN w.sessions}
    BY DEF found, DocumentsByPath
  <2>5. ASSUME NEW e \in found PROVE Holds(e) /\ e.in = k
    <3>1. PICK i \in DOMAIN w.sessions :
                 e \in {[in |-> i, doc |-> w.sessions[i].docs[j]] :
                          j \in {m \in DOMAIN w.sessions[i].docs :
                                   FileOf(w.sessions[i].docs[m].path) = FileOf(path)}}
      BY <2>4, <2>5
    <3>2. PICK j \in DOMAIN w.sessions[i].docs :
                 /\ FileOf(w.sessions[i].docs[j].path) = FileOf(path)
                 /\ e = [in |-> i, doc |-> w.sessions[i].docs[j]]
      BY <3>1
    <3>3. FileOf(path) \in Files(w.sessions[i].docs)
      BY <3>2 DEF Files
    <3>4. i = k
      BY <2>3, <3>3
    <3> QED
      BY <3>2, <3>4
  <2>6. found # {}
    <3>1. PICK m \in DOMAIN docs : FileOf(docs[m].path) = FileOf(path)
      BY <2>2, <2>3 DEF Files
    <3>2. [in |-> k, doc |-> docs[m]] \in
             {[in |-> k, doc |-> w.sessions[k].docs[j]] :
                 j \in {x \in DOMAIN w.sessions[k].docs :
                          FileOf(w.sessions[k].docs[x].path) = FileOf(path)}}
      BY <2>2, <3>1
    <3>3. [in |-> k, doc |-> docs[m]] \in found
      BY <2>2, <2>4, <3>2
    <3> QED
      BY <3>3
  <2>7. \E e \in found : \A other \in found : e.in <= other.in
    BY <2>2, <2>5, <2>6
  <2>8. PICK e \in found : first = e.doc
    <3>1. first = (CHOOSE e \in found : \A other \in found : e.in <= other.in).doc
      BY DEF FirstByPath, found
    <3> QED
      BY <2>7, <3>1
  <2>9. Holds(e) /\ e.in = k
    BY <2>5
  <2>10. PICK j \in DOMAIN docs : first = docs[j] /\ FileOf(docs[j].path) = FileOf(path)
    BY <2>2, <2>8, <2>9
  <2> HIDE DEF first
  <2>11. first.id \in Ids(docs)
    BY <2>10 DEF Ids
  <2>12. first.id[2] = FileOf(path)
    <3>1. GoodSession(Paths, Active(w)) /\ docs = Active(w).docs
      BY <1>1, ActiveIs DEF docs, Documents
    <3>2. first.id = <<Active(w).id, FileOf(docs[j].path)>>
      BY <2>10, <3>1 DEF GoodSession
    <3> QED
      BY <2>10, <3>2
  <2>13. v = SelectDocument(w, first.id)
    BY <1>2, <2>6 DEF first
  <2>14. Selected(v) = first.id /\ Documents(v) = docs
    BY <1>3, <2>11, <2>13 DEF docs, first
  <2>15. SelectedPath(v) = docs[IndexOf(docs, first.id)].path
         /\ FileOf(docs[IndexOf(docs, first.id)].path) = first.id[2]
    BY <1>4, <2>11, <2>14, SelectedPathIs
  <2> QED
    BY <2>12, <2>15
<1> QED
  BY <1>4, <1>5, <1>6 DEF v

-----------------------------------------------------------------------------
(* The window.  A running form tool holds the file it works on, so that    *)
(* is_busy is asked of the right file.                                     *)

DocumentsInv ==
  /\ SessionsInv(Paths, ws)
  /\ page \in Pages
  /\ reader \in Paths \cup {NoPath}
  /\ tool \in [Tools -> Paths \cup {NoPath}]
  /\ job \in [Tools -> Paths \cup {NoPath}]
  /\ result \in [Tools -> Outputs \cup {NoPath}]
  /\ produced \subseteq Outputs
  /\ classifying \in BOOLEAN /\ (classifying => LauncherFiles # <<>>)
  /\ asked \in Paths \cup {NoPath}
  /\ \A t \in FormTools : Running(t) => tool[t] = job[t]

\* What may have become of the tools: every running form tool holds what it held.
ToolsFollow ==
  /\ tool' \in [Tools -> Paths \cup {NoPath}]
  /\ result' \in [Tools -> Outputs \cup {NoPath}]
  /\ \A t \in FormTools : Running(t) => tool'[t] = tool[t]

\* What a tool is synchronised with.
LEMMA SyncedIs ==
  ASSUME DocumentsInv, NEW w, SessionsInv(Paths, w), NEW t \in Tools
  PROVE  /\ Synced(t, w) \in Paths \cup {NoPath}
         /\ Running(t) => Synced(t, w) = tool[t]
BY SelectedPathIs DEF Synced, DocumentsInv

\* A tool that is given an input.
LEMMA HeldFollows ==
  ASSUME DocumentsInv, NEW t \in Tools, NEW path \in Paths \cup {NoPath}, ToolHolds(t, path),
         Running(t) /\ t \in FormTools => path = tool[t]
  PROVE  ToolsFollow
<1>1. tool' = [tool EXCEPT ![t] = path]
      /\ result' = [result EXCEPT ![t] = IF path = tool[t] THEN result[t] ELSE NoPath]
  BY DEF ToolHolds, DocumentsInv
<1>2. tool \in [Tools -> Paths \cup {NoPath}] /\ result \in [Tools -> Outputs \cup {NoPath}]
  BY DEF DocumentsInv
<1>3. tool' \in [Tools -> Paths \cup {NoPath}] /\ result' \in [Tools -> Outputs \cup {NoPath}]
  BY <1>1, <1>2
<1>4. \A u \in FormTools : Running(u) => tool'[u] = tool[u]
  BY <1>1, <1>2, ToolsAssumption
<1> QED
  BY <1>3, <1>4 DEF ToolsFollow

\* The page that is shown, if it is a tool's, is given the selection.
LEMMA ThePageFollows ==
  ASSUME DocumentsInv, NEW w, SessionsInv(Paths, w),
         IF page \in Tools THEN ToolHolds(page, Synced(page, w)) ELSE UNCHANGED <<tool, result>>
  PROVE  ToolsFollow
<1>1. CASE page \in Tools
  <2> DEFINE path == Synced(page, w)
  <2>1. ToolHolds(page, path)
    BY <1>1
  <2>2. path \in Paths \cup {NoPath} /\ (Running(page) => path = tool[page])
    BY <1>1, SyncedIs
  <2> HIDE DEF path
  <2> QED
    BY <1>1, <2>1, <2>2, HeldFollows
<1>2. CASE page \notin Tools
  <2>1. tool' = tool /\ result' = result
    BY <1>2
  <2> QED
    BY <2>1 DEF ToolsFollow, DocumentsInv
<1> QED
  BY <1>1, <1>2

\* _refresh_workspace_views.
LEMMA RefreshFollows ==
  ASSUME DocumentsInv, NEW w, SessionsInv(Paths, w), Refresh(w)
  PROVE  ToolsFollow /\ reader' \in Paths \cup {NoPath}
<1>1. reader' \in Paths \cup {NoPath}
  BY SelectedPathIs DEF Refresh, DocumentsInv
<1>2. IF page \in Tools THEN ToolHolds(page, Synced(page, w)) ELSE UNCHANGED <<tool, result>>
  BY DEF Refresh
<1> QED
  BY <1>1, <1>2, ThePageFollows

\* A refresh that ends on the reader.
LEMMA ReaderFollows ==
  ASSUME DocumentsInv, NEW w, SessionsInv(Paths, w), RefreshAndShowReader(w)
  PROVE  ToolsFollow /\ page' = "document" /\ reader' = SelectedPath(w)
         /\ reader' \in Paths \cup {NoPath}
<1>1. page' = "document" /\ reader' = SelectedPath(w) /\ reader' \in Paths \cup {NoPath}
  BY SelectedPathIs DEF RefreshAndShowReader
<1>2. IF page \in Tools THEN ToolHolds(page, Synced(page, w)) ELSE UNCHANGED <<tool, result>>
  BY DEF RefreshAndShowReader
<1> QED
  BY <1>1, <1>2, ThePageFollows

\* A tool that is shown.
LEMMA ShownFollows ==
  ASSUME DocumentsInv, NEW w, SessionsInv(Paths, w), NEW t \in Tools, ShowTool(t, w)
  PROVE  ToolsFollow /\ page' = t /\ reader' = reader
<1> DEFINE path == IF SelectedPath(w) = NoPath THEN Synced(t, w)
                   ELSE TakesInput(t, SelectedPath(w))
<1>1. ToolHolds(t, path) /\ page' = t /\ reader' = reader
  BY DEF ShowTool
<1>2. path \in Paths \cup {NoPath}
  BY SyncedIs, SelectedPathIs DEF TakesInput, DocumentsInv
<1>3. Running(t) /\ t \in FormTools => path = tool[t]
  BY SyncedIs DEF TakesInput
<1> HIDE DEF path
<1> QED
  BY <1>1, <1>2, <1>3, HeldFollows

\* What a step must show: the invariant again, and what the properties say.
GoesWell == DocumentsInv' /\ OpenedFileIsShown' /\ StaysListed

\* Sessions that lose no file at work.
LEMMA WhatIsKept ==
  ASSUME DocumentsInv, NEW gone, KeepsBut(ws, ws', gone),
         \A t \in FormTools : Running(t) => FileOf(job[t]) \notin gone
  PROVE  StaysListed
BY DEF StaysListed, KeepsBut

\* A step that asks for nothing.
LEMMA NothingAsked ==
  ASSUME DocumentsInv, SessionsInv(Paths, ws'), StaysListed, ToolsFollow, asked' = NoPath,
         page' \in Pages, reader' \in Paths \cup {NoPath}, UNCHANGED <<job, produced, classifying>>
  PROVE  GoesWell
<1>1. DocumentsInv'
  <2>1. \A t \in FormTools : Running(t)' => tool'[t] = job'[t]
    BY DEF ToolsFollow, DocumentsInv, Running
  <2> QED
    BY <2>1 DEF DocumentsInv, ToolsFollow, Pages
<1> QED
  BY <1>1 DEF GoesWell, OpenedFileIsShown

\* Sessions that do not change.
LEMMA StutterKeeps == ASSUME SessionsInv(Paths, ws), ws' = ws PROVE KeepsBut(ws, ws', {})
BY DEF KeepsBut, SessionsInv

\* Sessions that lose no file at all.
LEMMA KeptWhole ==
  ASSUME DocumentsInv, KeepsBut(ws, ws', {}) PROVE StaysListed
BY WhatIsKept

\* The sidebar.
LEMMA SidebarGoesWell ==
  ASSUME DocumentsInv, Sessions PROVE GoesWell
<1> USE DEF DocumentsInv
<1>1. CASE CreateWorkspace
  <2>1. SessionsInv(Paths, AddWorkspace(ws)) /\ KeepsBut(ws, AddWorkspace(ws), {})
    BY <1>1, WorkspaceIsAdded DEF CreateWorkspace
  <2>2. ws' = AddWorkspace(ws) /\ Refresh(ws') /\ asked' = NoPath
        /\ UNCHANGED <<page, job, produced, classifying>>
    BY <1>1 DEF CreateWorkspace
  <2>3. SessionsInv(Paths, ws') /\ KeepsBut(ws, ws', {})
    BY <2>1, <2>2
  <2> QED
    BY <2>2, <2>3, KeptWhole, RefreshFollows, NothingAsked
<1>2. ASSUME NEW id \in Ids(ws.sessions), ActivateWorkspace(id) PROVE GoesWell
  <2>1. SessionsInv(Paths, SelectWorkspace(ws, id)) /\ KeepsBut(ws, SelectWorkspace(ws, id), {})
    BY WorkspaceIsSelected
  <2>2. ws' = SelectWorkspace(ws, id) /\ Refresh(ws') /\ asked' = NoPath
        /\ UNCHANGED <<page, job, produced, classifying>>
    BY <1>2 DEF ActivateWorkspace
  <2>3. SessionsInv(Paths, ws') /\ KeepsBut(ws, ws', {})
    BY <2>1, <2>2
  <2> QED
    BY <2>2, <2>3, KeptWhole, RefreshFollows, NothingAsked
<1>3. ASSUME NEW id \in Ids(ws.sessions), DeleteWorkspace(id) PROVE GoesWell
  <2>1. SessionsInv(Paths, RemoveWorkspace(ws, id)) /\ KeepsBut(ws, RemoveWorkspace(ws, id), {})
    BY <1>3, WorkspaceIsRemoved DEF DeleteWorkspace
  <2>2. ws' = RemoveWorkspace(ws, id) /\ Refresh(ws') /\ asked' = NoPath
        /\ UNCHANGED <<page, job, produced, classifying>>
    BY <1>3 DEF DeleteWorkspace
  <2>3. SessionsInv(Paths, ws') /\ KeepsBut(ws, ws', {})
    BY <2>1, <2>2
  <2> QED
    BY <2>2, <2>3, KeptWhole, RefreshFollows, NothingAsked
<1> QED
  BY <1>1, <1>2, <1>3 DEF Sessions

\* A step that ends on the reader, which may have been asked for a document.
LEMMA ReaderAsked ==
  ASSUME DocumentsInv, SessionsInv(Paths, ws'), KeepsBut(ws, ws', {}), RefreshAndShowReader(ws'),
         asked' \in Paths \cup {NoPath},
         asked' # NoPath /\ ListedHereAlone(asked)' => FileOf(SelectedPath(ws')) = FileOf(asked'),
         UNCHANGED <<job, produced>>, classifying' = classifying \/ classifying' = FALSE
  PROVE  GoesWell
<1>1. ToolsFollow /\ page' = "document" /\ reader' = SelectedPath(ws')
      /\ reader' \in Paths \cup {NoPath}
  BY ReaderFollows
<1>2. StaysListed
  BY KeptWhole
<1>3. OpenedFileIsShown'
  BY <1>1 DEF OpenedFileIsShown
<1>4. \A t \in FormTools : Running(t)' => tool'[t] = job'[t]
  BY <1>1 DEF ToolsFollow, DocumentsInv, Running
<1>5. classifying' \in BOOLEAN /\ (classifying' => LauncherFiles # <<>>)
  <2>1. classifying \in BOOLEAN /\ (classifying => LauncherFiles # <<>>)
    BY DEF DocumentsInv
  <2>2. CASE classifying' = classifying
    BY <2>1, <2>2, Zenon
  <2>3. CASE classifying' = FALSE
    BY <2>3, Zenon
  <2> QED
    BY <2>2, <2>3
<1>6. job' \in [Tools -> Paths \cup {NoPath}] /\ produced' \subseteq Outputs
  BY DEF DocumentsInv
<1>7. page' \in Pages
  BY <1>1 DEF Pages
<1>8. DocumentsInv'
  BY <1>1, <1>4, <1>5, <1>6, <1>7 DEF DocumentsInv, ToolsFollow
<1> QED
  BY <1>2, <1>3, <1>8 DEF GoesWell

\* A document of the sidebar is clicked.
LEMMA ActivateGoesWell ==
  ASSUME DocumentsInv, NEW id \in Ids(Documents(ws)), ActivateDocument(id) PROVE GoesWell
<1> DEFINE path == Documents(ws)[IndexOf(Documents(ws), id)].path
<1>1. SessionsInv(Paths, ws)
  BY DEF DocumentsInv
<1>2. ws' = SelectDocument(ws, id) /\ RefreshAndShowReader(ws') /\ asked' = path
      /\ UNCHANGED <<job, produced, classifying>>
  BY DEF ActivateDocument
<1>3. SessionsInv(Paths, ws') /\ KeepsBut(ws, ws', {}) /\ Documents(ws') = Documents(ws) /\ Selected(ws') = id
  BY <1>1, <1>2, DocumentIsSelected
<1>4. path \in Paths
  BY <1>1, SelectedPathIs
<1>5. SelectedPath(ws') = path
  BY <1>3, SelectedPathIs
<1> HIDE DEF path
<1> QED
  BY <1>2, <1>3, <1>4, <1>5, ReaderAsked

\* A document is removed: no form tool is at work on it.
LEMMA RemoveGoesWell ==
  ASSUME DocumentsInv, NEW id \in Ids(Documents(ws)), RemoveOpenDocument(id) PROVE GoesWell
<1> DEFINE path == Documents(ws)[IndexOf(Documents(ws), id)].path
<1>1. SessionsInv(Paths, ws)
  BY DEF DocumentsInv
<1>2. ws' = RemoveDocument(ws, id) /\ Refresh(ws') /\ asked' = NoPath /\ ~IsBusy(path)
      /\ UNCHANGED <<page, job, produced, classifying>>
  BY DEF RemoveOpenDocument
<1>3. SessionsInv(Paths, ws') /\ KeepsBut(ws, ws', {FileOf(path)})
  BY <1>1, <1>2, DocumentIsRemoved
<1> HIDE DEF path
<1>4. \A t \in FormTools : Running(t) => FileOf(job[t]) \notin {FileOf(path)}
  BY <1>2, ToolsAssumption DEF IsBusy, Running, DocumentsInv
<1>5. StaysListed
  BY <1>3, <1>4, WhatIsKept
<1> QED
  BY <1>2, <1>3, <1>5, RefreshFollows, NothingAsked DEF DocumentsInv

\* _add_workspace_files.
LEMMA WithFilesKeeps ==
  ASSUME SessionsInv(Paths, ws), NEW paths \in Seq(Paths)
  PROVE  SessionsInv(Paths, WithFiles(paths)) /\ KeepsBut(ws, WithFiles(paths), {})
<1> DEFINE w == AddDocuments(ws, paths)
           id == Added(ws, paths)[1].id
<1>1. SessionsInv(Paths, w) /\ KeepsBut(ws, w, {})
  BY DocumentsAreAdded
<1>2. WithFiles(paths) = w \/ WithFiles(paths) = SelectDocument(w, id)
  BY DEF WithFiles
<1> HIDE DEF w, id
<1>3. SessionsInv(Paths, SelectDocument(w, id)) /\ KeepsBut(ws, SelectDocument(w, id), {})
  <2>1. /\ SessionsInv(Paths, SelectDocument(w, id))
        /\ DOMAIN SelectDocument(w, id).sessions = DOMAIN w.sessions
        /\ \A i \in DOMAIN w.sessions :
              /\ SelectDocument(w, id).sessions[i].docs = w.sessions[i].docs
              /\ SelectDocument(w, id).sessions[i].id = w.sessions[i].id
    BY <1>1, DocumentIsSelected
  <2> QED
    BY <1>1, <2>1 DEF KeepsBut
<1> QED
  BY <1>1, <1>2, <1>3

\* Drops, OPEN PDF and the files of the command line.
LEMMA OpenAndCloseGoesWell ==
  ASSUME DocumentsInv, OpenAndClose PROVE GoesWell
<1>0. SessionsInv(Paths, ws)
  BY DEF DocumentsInv
<1>1. ASSUME NEW paths \in Dropped, DropOnWindow(paths) PROVE GoesWell
  <2>1. paths \in Seq(Paths)
    BY PathsAssumption
  <2>2. ws' = WithFiles(paths) /\ Refresh(ws') /\ asked' = NoPath
        /\ UNCHANGED <<page, job, produced, classifying>>
    BY <1>1 DEF DropOnWindow
  <2>3. SessionsInv(Paths, ws') /\ KeepsBut(ws, ws', {})
    BY <1>0, <2>1, <2>2, WithFilesKeeps
  <2> QED
    BY <2>2, <2>3, KeptWhole, RefreshFollows, NothingAsked DEF DocumentsInv
<1>2. ASSUME NEW path \in Existing, DropOnTool(path) PROVE GoesWell
  <2>1. path \in Paths /\ <<path>> \in Seq(Paths)
    BY DEF DocumentsInv, Existing, Paths
  <2>2. page \in Tools /\ ~Running(page) /\ ws' = WithFiles(<<path>>)
        /\ asked' = path /\ UNCHANGED <<page, reader, job, produced, classifying>>
    BY <1>2 DEF DropOnTool
  <2>3. SessionsInv(Paths, ws') /\ KeepsBut(ws, ws', {})
    BY <1>0, <2>1, <2>2, WithFilesKeeps
  <2> DEFINE refreshed == Synced(page, ws')
             offered == IF path = tool[page] /\ refreshed = path THEN result[page] ELSE NoPath
  <2>4. refreshed \in Paths \cup {NoPath}
    BY <2>2, <2>3, SyncedIs
  <2>5. tool' = [tool EXCEPT ![page] = refreshed] /\ result' = [result EXCEPT ![page] = offered]
    BY <1>2 DEF DropOnTool
  <2>6. offered \in Outputs \cup {NoPath}
    BY <2>2 DEF DocumentsInv
  <2> HIDE DEF refreshed, offered
  <2>7. tool' \in [Tools -> Paths \cup {NoPath}] /\ result' \in [Tools -> Outputs \cup {NoPath}]
    BY <2>4, <2>5, <2>6 DEF DocumentsInv
  <2>8. \A t \in FormTools : Running(t)' => tool'[t] = job'[t]
    BY <2>2, <2>5, ToolsAssumption DEF DocumentsInv, Running
  <2>9. page' # "document"
    BY <2>2, ToolsAssumption
  <2>10. DocumentsInv'
    BY <2>1, <2>2, <2>3, <2>7, <2>8 DEF DocumentsInv
  <2>11. OpenedFileIsShown'
    BY <2>9 DEF OpenedFileIsShown
  <2> QED
    BY <2>3, <2>10, <2>11, KeptWhole DEF GoesWell
<1>3. ASSUME NEW paths \in Seq(Paths), NEW path \in Paths, ws' = Opened(paths, path),
             RefreshAndShowReader(ws'), asked' = path, UNCHANGED <<job, produced>>,
             classifying' = classifying \/ classifying' = FALSE
      PROVE  GoesWell
  <2>1. SessionsInv(Paths, ws') /\ KeepsBut(ws, ws', {})
    BY <1>0, <1>3, FilesAreOpened
  <2>2. ASSUME ListedHereAlone(asked)' PROVE FileOf(SelectedPath(ws')) = FileOf(asked')
    <3>1. \A i \in DOMAIN ws'.sessions :
             FileOf(path) \in Files(ws'.sessions[i].docs) <=> i = ActiveIndex(ws')
      BY <1>3, <2>2 DEF ListedHereAlone
    <3> QED
      BY <1>0, <1>3, <3>1, FilesAreOpened
  <2> QED
    BY <1>3, <2>1, <2>2, ReaderAsked
<1>4. ASSUME NEW path \in produced, OpenGenerated(path) PROVE GoesWell
  <2>1. path \in Paths /\ <<path>> \in Seq(Paths)
    BY DEF DocumentsInv, Paths
  <2> QED
    BY <1>3, <1>4, <2>1 DEF OpenGenerated
<1>5. CASE OpenInitial
  <2>1. LauncherFiles \in Seq(Paths) /\ LauncherFiles # <<>>
    BY <1>5, PathsAssumption DEF OpenInitial, DocumentsInv
  <2>2. LauncherFiles[1] \in Paths
    BY <2>1
  <2> QED
    BY <1>3, <1>5, <2>1, <2>2 DEF OpenInitial
<1> QED
  BY <1>1, <1>2, <1>4, <1>5, ActivateGoesWell, RemoveGoesWell DEF OpenAndClose

\* The pages and the jobs.
LEMMA WorkingGoesWell ==
  ASSUME DocumentsInv, Working PROVE GoesWell
<1>0. SessionsInv(Paths, ws)
  BY DEF DocumentsInv
<1>1. CASE ShowDashboard
  <2>1. KeepsBut(ws, ws', {}) /\ SessionsInv(Paths, ws')
    BY <1>0, <1>1, StutterKeeps DEF ShowDashboard
  <2>2. page' \in Pages /\ ToolsFollow /\ reader' \in Paths \cup {NoPath}
    BY <1>1 DEF ShowDashboard, ToolsFollow, DocumentsInv, Pages
  <2> QED
    BY <1>1, <2>1, <2>2, KeptWhole, NothingAsked DEF ShowDashboard
<1>2. CASE ShowReader
  <2>1. KeepsBut(ws, ws', {}) /\ SessionsInv(Paths, ws') /\ ws' = ws
    BY <1>0, <1>2, StutterKeeps DEF ShowReader
  <2>2. RefreshAndShowReader(ws')
    BY <1>2, <2>1 DEF ShowReader
  <2> QED
    BY <1>2, <2>1, <2>2, ReaderAsked DEF ShowReader
<1>3. ASSUME NEW t \in Tools, ChooseTool(t) PROVE GoesWell
  <2>1. KeepsBut(ws, ws', {}) /\ SessionsInv(Paths, ws') /\ ws' = ws
    BY <1>0, <1>3, StutterKeeps DEF ChooseTool
  <2>2. ToolsFollow /\ page' = t /\ reader' = reader
    BY <1>0, <1>3, ShownFollows DEF ChooseTool
  <2>3. page' \in Pages /\ reader' \in Paths \cup {NoPath}
    BY <2>2 DEF Pages, DocumentsInv
  <2> QED
    BY <1>3, <2>1, <2>2, <2>3, KeptWhole, NothingAsked DEF ChooseTool
<1>4. ASSUME NEW path \in Outputs, NEW t \in Tools, ContinueWith(path, t) PROVE GoesWell
  <2> DEFINE w == AddDocuments(ws, <<path>>)
             doc == SelectSeq(Documents(w), LAMBDA d : FileOf(d.path) = FileOf(path))
             id == doc[1].id
  <2>1. <<path>> \in Seq(Paths)
    BY DEF Paths
  <2>2. SessionsInv(Paths, w) /\ KeepsBut(ws, w, {})
    BY <1>0, <2>1, DocumentsAreAdded
  <2>3. \/ ws' = w /\ UNCHANGED <<page, reader, tool, result>>
        \/ ws' = SelectDocument(w, id) /\ ShowTool(t, ws')
    BY <1>4 DEF ContinueWith
  <2>4. asked' = NoPath /\ UNCHANGED <<job, produced, classifying>>
    BY <1>4 DEF ContinueWith
  <2> HIDE DEF w, id
  <2>5. CASE ws' = w /\ UNCHANGED <<page, reader, tool, result>>
    <3>1. ToolsFollow /\ page' \in Pages /\ reader' \in Paths \cup {NoPath}
      BY <2>5 DEF ToolsFollow, DocumentsInv
    <3> QED
      BY <2>2, <2>4, <2>5, <3>1, KeptWhole, NothingAsked
  <2>6. CASE ws' = SelectDocument(w, id) /\ ShowTool(t, ws')
    <3>1. /\ SessionsInv(Paths, ws')
          /\ DOMAIN ws'.sessions = DOMAIN w.sessions
          /\ \A i \in DOMAIN w.sessions :
                ws'.sessions[i].docs = w.sessions[i].docs /\ ws'.sessions[i].id = w.sessions[i].id
      BY <2>2, <2>6, DocumentIsSelected
    <3>2. KeepsBut(ws, ws', {})
      BY <2>2, <3>1 DEF KeepsBut
    <3>3. ToolsFollow /\ page' = t /\ reader' = reader
      BY <2>6, <3>1, ShownFollows
    <3>4. page' \in Pages /\ reader' \in Paths \cup {NoPath}
      BY <3>3 DEF Pages, DocumentsInv
    <3> QED
      BY <2>4, <3>1, <3>2, <3>3, <3>4, KeptWhole, NothingAsked
  <2> QED
    BY <2>3, <2>5, <2>6
<1>5. ASSUME NEW t \in Tools, StartJob(t) \/ JobEndsWithout(t) \/ \E path \in Outputs : JobSucceeds(t, path)
      PROVE  GoesWell
  <2>1. ws' = ws /\ page' = page /\ reader' = reader /\ tool' = tool /\ classifying' = classifying
        /\ asked' = NoPath
    BY <1>5 DEF StartJob, JobEndsWithout, JobSucceeds
  <2>2. KeepsBut(ws, ws', {}) /\ SessionsInv(Paths, ws')
    BY <1>0, <2>1, StutterKeeps
  <2>3. job' = [job EXCEPT ![t] = tool[t]] \/ job' = [job EXCEPT ![t] = NoPath]
    BY <1>5 DEF StartJob, JobEndsWithout, JobSucceeds
  <2>4. result' \in [Tools -> Outputs \cup {NoPath}] /\ produced' \subseteq Outputs
    BY <1>5 DEF StartJob, JobEndsWithout, JobSucceeds, DocumentsInv
  <2>5. job' \in [Tools -> Paths \cup {NoPath}]
    BY <2>3 DEF DocumentsInv
  <2>6. \A u \in FormTools : Running(u)' => tool'[u] = job'[u]
    BY <2>1, <2>3, ToolsAssumption DEF Running, DocumentsInv
  <2>7. DocumentsInv'
    BY <2>1, <2>2, <2>4, <2>5, <2>6 DEF DocumentsInv
  <2> QED
    BY <2>1, <2>2, <2>7, KeptWhole DEF GoesWell, OpenedFileIsShown
<1> QED
  BY <1>1, <1>2, <1>3, <1>4, <1>5 DEF Working

\* The first state.
LEMMA DocumentsStart == DocumentsInit => DocumentsInv /\ OpenedFileIsShown
<1> SUFFICES ASSUME Init PROVE DocumentsInv /\ OpenedFileIsShown
  BY DEF DocumentsInit
<1>1. SessionsInv(Paths, ws)
  BY FirstIsGood DEF Init
<1>2. DocumentsInv
  BY <1>1, ToolsAssumption DEF Init, DocumentsInv, Pages, Running
<1> QED
  BY <1>2 DEF Init, OpenedFileIsShown

\* Every step of the window, whatever the memory does beside it.
LEMMA DocumentsStep ==
  ASSUME DocumentsInv, OpenedFileIsShown, [DocumentsNext]_allVars
  PROVE  DocumentsInv' /\ OpenedFileIsShown' /\ [StaysListed]_vars
<1>1. CASE Next
  BY <1>1, SidebarGoesWell, OpenAndCloseGoesWell, WorkingGoesWell DEF Next, GoesWell
<1>2. CASE UNCHANGED vars
  <2>1. DocumentsInv'
    BY <1>2 DEF vars, DocumentsInv, Running
  <2>2. OpenedFileIsShown'
    BY <1>2 DEF vars, OpenedFileIsShown, ListedHereAlone
  <2> QED
    BY <1>2, <2>1, <2>2
<1> QED
  BY <1>1, <1>2 DEF DocumentsNext, allVars

\* Of any sessions, tools, files and limits: OPEN PDF, a launch with a file and a click on a
\* document end on the reader showing that file, unless there was no room for it or another
\* session lists it too; and the document a form tool works on stays listed in every session
\* that stays (_open_document_workspace, _remove_workspace_document).
THEOREM OpenedIsShownAndBusyKept == DocumentsSpec => ShownAndKept
<1>1. DocumentsInit => DocumentsInv /\ OpenedFileIsShown
  BY DocumentsStart
<1>2. DocumentsInv /\ OpenedFileIsShown /\ [DocumentsNext]_allVars
        => DocumentsInv' /\ OpenedFileIsShown' /\ [StaysListed]_vars
  BY DocumentsStep
<1> QED
  BY <1>1, <1>2, PTL DEF DocumentsSpec, ShownAndKept, BusyDocumentsStayListed

\* Whatever the gestures and their order, the sessions stay well formed: within their limits,
\* under identifiers of their own, each file once per session, and a selection wherever there
\* are documents (WorkspaceState).
THEOREM SessionsAreWellFormed == DocumentsSpec => []TypeOK
<1>1. DocumentsInit => DocumentsInv /\ OpenedFileIsShown
  BY DocumentsStart
<1>2. DocumentsInv /\ OpenedFileIsShown /\ [DocumentsNext]_allVars => (DocumentsInv /\ OpenedFileIsShown)'
  BY DocumentsStep
<1>3. DocumentsInv => TypeOK
  BY SessionsInvMeansWellFormed DEF DocumentsInv, TypeOK
<1> QED
  BY <1>1, <1>2, <1>3, PTL DEF DocumentsSpec

-----------------------------------------------------------------------------
(* The memory runs the operations of WorkspaceState on sessions of its own. *)

LEMMA SameSessions ==
  /\ Memory!FirstWorkspaces = FirstWorkspaces
  /\ \A w : /\ Memory!CanAddWorkspace(w) = CanAddWorkspace(w)
            /\ Memory!AddWorkspace(w) = AddWorkspace(w)
            /\ Memory!Documents(w) = Documents(w)
  /\ \A w, id : /\ Memory!SelectWorkspace(w, id) = SelectWorkspace(w, id)
                /\ Memory!RemoveWorkspace(w, id) = RemoveWorkspace(w, id)
                /\ Memory!SelectDocument(w, id) = SelectDocument(w, id)
                /\ Memory!RemoveDocument(w, id) = RemoveDocument(w, id)
  /\ \A list : Memory!Ids(list) = Ids(list)
  /\ \A list, id : Memory!IndexOf(list, id) = IndexOf(list, id)
<1>1. Memory!NoDocument = NoDocument /\ Memory!FirstWorkspaces = FirstWorkspaces
  BY DEF Memory!NoDocument, NoDocument, Memory!FirstWorkspaces, FirstWorkspaces
<1>2. \A list : Memory!Ids(list) = Ids(list)
  BY DEF Memory!Ids, Ids
<1>3. \A list, id : Memory!IndexOf(list, id) = IndexOf(list, id)
  BY DEF Memory!IndexOf, IndexOf
<1>4. \A w : Memory!ActiveIndex(w) = ActiveIndex(w) /\ Memory!Active(w) = Active(w)
             /\ Memory!Documents(w) = Documents(w)
  BY <1>3 DEF Memory!ActiveIndex, ActiveIndex, Memory!Active, Active, Memory!Documents, Documents
<1>5. \A w, s : Memory!ReplaceActive(w, s) = ReplaceActive(w, s)
  BY <1>4 DEF Memory!ReplaceActive, ReplaceActive
<1>6. \A used : Memory!FreshId(used) = FreshId(used)
  BY DEF Memory!FreshId, FreshId, Memory!Min, Min, Memory!Cardinality, Cardinality
<1>7. \A w : Memory!CanAddWorkspace(w) = CanAddWorkspace(w) /\ Memory!AddWorkspace(w) = AddWorkspace(w)
  BY <1>1, <1>2, <1>6 DEF Memory!CanAddWorkspace, CanAddWorkspace, Memory!AddWorkspace, AddWorkspace
<1>8. \A w, id : Memory!SelectWorkspace(w, id) = SelectWorkspace(w, id)
  BY DEF Memory!SelectWorkspace, SelectWorkspace
<1>9. \A list, i : Memory!RemoveAt(list, i) = RemoveAt(list, i)
  BY DEF Memory!RemoveAt, RemoveAt
<1>10. \A w, id : Memory!RemoveWorkspace(w, id) = RemoveWorkspace(w, id)
  BY <1>3, <1>9 DEF Memory!RemoveWorkspace, RemoveWorkspace
<1>11. \A w, id : Memory!SelectDocument(w, id) = SelectDocument(w, id)
  BY <1>2, <1>4, <1>5 DEF Memory!SelectDocument, SelectDocument
<1>12. \A w, id : Memory!RemoveDocument(w, id) = RemoveDocument(w, id)
  BY <1>1, <1>3, <1>4, <1>5, <1>9 DEF Memory!RemoveDocument, RemoveDocument
<1> QED
  BY <1>1, <1>2, <1>3, <1>4, <1>7, <1>8, <1>10, <1>11, <1>12

LEMMA SameAdded ==
  ASSUME NEW w, NEW paths
  PROVE  /\ Memory!AddDocuments(w, paths) = AddDocuments(w, paths)
         /\ Memory!Added(w, paths) = Added(w, paths)
<1>1. Memory!Joined(w, paths) = Joined(w, paths)
  BY DEF Memory!Joined, Joined, Memory!Join, Join, Memory!Documents, Documents, Memory!Active, Active,
         Memory!ActiveIndex, ActiveIndex, Memory!IndexOf, IndexOf, Memory!Files, Files, Memory!FileOf, FileOf
<1>2. \A u, s : Memory!ReplaceActive(u, s) = ReplaceActive(u, s)
  BY DEF Memory!ReplaceActive, ReplaceActive, Memory!ActiveIndex, ActiveIndex, Memory!IndexOf, IndexOf
<1>3. Memory!Active(w) = Active(w) /\ \A docs : Memory!FirstOrNone(docs) = FirstOrNone(docs)
  BY DEF Memory!Active, Active, Memory!ActiveIndex, ActiveIndex, Memory!IndexOf, IndexOf,
         Memory!FirstOrNone, FirstOrNone, Memory!NoDocument, NoDocument
<1>4. Memory!NoDocument = NoDocument
  BY DEF Memory!NoDocument, NoDocument
<1>5. Memory!AddDocuments(w, paths) = AddDocuments(w, paths)
  BY <1>1, <1>2, <1>3, <1>4 DEF Memory!AddDocuments, AddDocuments
<1>6. Memory!Added(w, paths) = Added(w, paths)
  BY <1>5, SameSessions DEF Memory!Added, Added
<1> QED
  BY <1>5, <1>6

-----------------------------------------------------------------------------
(* What is stored of the sessions.                                         *)

MemoryPaths == PdfFiles \X Memory!Names

\* The documents before a session are those of the sessions before it.
LEMMA DocumentsAdd ==
  ASSUME NEW list, Len(list) \in Nat, \A n \in 1 .. Len(list) : Len(list[n].docs) \in Nat
  PROVE  /\ \A i \in 1 .. Len(list) + 1 : Memory!DocumentsBefore(list, i) \in Nat
         /\ \A i \in 1 .. Len(list) :
              Memory!DocumentsBefore(list, i + 1) = Memory!DocumentsBefore(list, i) + Len(list[i].docs)
<1> DEFINE N == Len(list)
           size == [n \in 1 .. N |-> Len(list[n].docs)]
           F == [p \in (1 .. N) \X Nat |-> p[2] + size[p[1]]]
           total[n \in 0 .. N] == IF n = 0 THEN 0 ELSE total[n - 1] + Len(list[n].docs)
<1>1. N \in Nat /\ \A n \in 1 .. N : size[n] \in Nat /\ size[n] = Len(list[n].docs)
  OBVIOUS
<1>2. \A i \in 1 .. N, k \in Nat : F[<<i, k>>] = k + size[i]
  OBVIOUS
<1> HIDE DEF N, size, F
<1>3. PICK f \in [0 .. N -> Nat] : f[0] = 0 /\ \A i \in 1 .. N : f[i] = F[<<i, f[i - 1]>>]
  <2>0. ASSUME NEW i \in 1 .. N, NEW k \in Nat PROVE F[<<i, k>>] \in Nat
    BY <1>1, <1>2
  <2>1. StaysIn(Nat, N, F)
    BY <2>0 DEF StaysIn
  <2>2. IsComputed(Nat, 0, N, F)
    BY <1>1, <2>1, StepByStep
  <2> QED
    BY <2>2 DEF IsComputed
<1>4. \A i \in 0 .. N : i # 0 => f[i - 1] \in Nat /\ i \in 1 .. N /\ i - 1 \in 0 .. N
  BY <1>1, <1>3
<1> DEFINE G == [i \in 0 .. N |-> IF i = 0 THEN 0 ELSE f[i - 1] + Len(list[i].docs)]
<1>5. f = G
  <2>1. ASSUME NEW i \in 0 .. N PROVE f[i] = G[i]
    <3>1. CASE i = 0
      BY <1>3, <3>1
    <3>2. CASE i # 0
      BY <1>1, <1>2, <1>3, <1>4, <3>2
    <3> QED
      BY <3>1, <3>2
  <2> QED
    BY <2>1
<1>6. total = [i \in 0 .. N |-> IF i = 0 THEN 0 ELSE total[i - 1] + Len(list[i].docs)]
  BY <1>5
<1>7. \A i : Memory!DocumentsBefore(list, i) = total[i - 1]
  BY DEF Memory!DocumentsBefore, N
<1> HIDE DEF total, G
<1>8. total[0] = 0 /\ \A i \in 1 .. N : total[i] = total[i - 1] + size[i]
  BY <1>1, <1>6
<1> DEFINE bad == {i \in 0 .. N : total[i] \notin Nat}
<1>9. bad = {}
  <2> SUFFICES ASSUME bad # {} PROVE FALSE
    OBVIOUS
  <2>1. bad \subseteq Nat
    BY <1>1
  <2> HIDE DEF bad
  <2>2. PICK m \in bad : \A k \in bad : m <= k
    BY <2>1, Least
  <2> USE DEF bad
  <2>3. m \in 1 .. N
    BY <1>1, <1>8, <2>2
  <2>4. m - 1 \in 0 .. N /\ m - 1 \notin bad
    BY <1>1, <2>2, <2>3
  <2>5. total[m - 1] \in Nat
    BY <2>4
  <2>6. size[m] \in Nat /\ total[m] = total[m - 1] + size[m]
    BY <1>1, <1>8, <2>3
  <2>7. total[m] \in Nat
    BY <2>5, <2>6
  <2> QED
    BY <2>2, <2>7
<1>10. \A i \in 1 .. N + 1 : i - 1 \in 0 .. N
  BY <1>1
<1>11. ASSUME NEW i \in 1 .. N
       PROVE  total[(i + 1) - 1] = total[i - 1] + Len(list[i].docs)
  <2>1. (i + 1) - 1 = i
    BY <1>1
  <2> QED
    BY <1>1, <1>8, <2>1
<1> QED
  BY <1>7, <1>9, <1>10, <1>11 DEF N

\* A session has no more documents than all of them.
LEMMA RoomForAll ==
  ASSUME NEW list, Len(list) \in Nat, \A n \in 1 .. Len(list) : Len(list[n].docs) \in Nat,
         NEW i \in 1 .. Len(list)
  PROVE  Memory!DocumentsBefore(list, i) + Len(list[i].docs) <= Memory!DocumentsBefore(list, Len(list) + 1)
<1> DEFINE N == Len(list)
           D(k) == Memory!DocumentsBefore(list, k)
           bad == {n \in 0 .. N : i + 1 + n <= N + 1 /\ ~(D(i + 1) <= D(i + 1 + n))}
<1>1. /\ N \in Nat /\ \A k \in 1 .. N + 1 : D(k) \in Nat
      /\ \A k \in 1 .. N : D(k + 1) = D(k) + Len(list[k].docs) /\ Len(list[k].docs) \in Nat
  BY DocumentsAdd
<1> HIDE DEF N, D
<1>2. i \in 1 .. N
  BY DEF N
<1>3. bad = {}
  <2> SUFFICES ASSUME bad # {} PROVE FALSE
    OBVIOUS
  <2>1. bad \subseteq Nat
    BY <1>1
  <2> HIDE DEF bad
  <2>2. PICK m \in bad : \A k \in bad : m <= k
    BY <2>1, Least
  <2> USE DEF bad
  <2>3. m \in 0 .. N /\ i + 1 + m <= N + 1 /\ ~(D(i + 1) <= D(i + 1 + m))
    BY <2>2
  <2>4. m # 0
    <3>1. i + 1 + 0 = i + 1 /\ i + 1 \in 1 .. N + 1
      BY <1>1, <1>2
    <3> QED
      BY <1>1, <2>3, <3>1
  <2>5. m - 1 \in 0 .. N /\ m - 1 \notin bad /\ i + 1 + (m - 1) <= N + 1
    <3>1. m - 1 \in 0 .. N /\ i + 1 + (m - 1) <= N + 1 /\ ~(m <= m - 1)
      BY <1>1, <1>2, <2>3, <2>4
    <3> HIDE DEF bad
    <3>2. m - 1 \notin bad
      BY <2>2, <3>1
    <3> QED
      BY <3>1, <3>2
  <2>6. D(i + 1) <= D(i + 1 + (m - 1))
    BY <2>5
  <2>7. i + 1 + (m - 1) = i + m /\ i + m \in 1 .. N /\ i + 1 + m = (i + m) + 1 /\ i + 1 \in 1 .. N + 1
    BY <1>1, <1>2, <2>3, <2>4
  <2>8. D(i + 1) <= D(i + m) /\ D((i + m) + 1) = D(i + m) + Len(list[i + m].docs)
        /\ ~(D(i + 1) <= D((i + m) + 1))
    BY <1>1, <2>3, <2>6, <2>7
  <2>9. D(i + 1) \in Nat /\ D(i + m) \in Nat /\ Len(list[i + m].docs) \in Nat
    BY <1>1, <2>7
  <2> QED
    BY <2>8, <2>9
<1>4. N - i \in 0 .. N /\ i + 1 + (N - i) = N + 1 /\ i + 1 + (N - i) <= N + 1
  BY <1>1, <1>2
<1>5. D(i + 1) <= D(N + 1)
  BY <1>3, <1>4
<1> QED
  BY <1>1, <1>2, <1>5 DEF N, D

\* What is stored of a session: its first documents, and all of them when they are few.
LEMMA StoredDocumentsAre ==
  ASSUME NEW v, SessionsInv(MemoryPaths, v), NEW i \in 1 .. Len(v.sessions), NEW few,
         few = Memory!StoredDocuments(v.sessions, i)
  PROVE  /\ Len(few) \in Nat /\ DOMAIN few = 1 .. Len(few) /\ Len(few) <= Len(v.sessions[i].docs)
         /\ \A j \in 1 .. Len(few) :
              few[j] = [id |-> v.sessions[i].docs[j].id, name |-> v.sessions[i].docs[j].path[2]]
         /\ Memory!DocumentCount(v) <= MaxStored => Len(few) = Len(v.sessions[i].docs)
         /\ few \in Seq(ToSet(few))
<1> DEFINE list == v.sessions
           docs == list[i].docs
           before == Memory!DocumentsBefore(list, i)
           room == IF before < MaxStored THEN MaxStored - before ELSE 0
           long == IF Len(docs) < room THEN Len(docs) ELSE room
           shortened == SubSeq(docs, 1, long)
<1>1. Len(list) \in Nat /\ DOMAIN list = 1 .. Len(list)
      /\ \A n \in 1 .. Len(list) : GoodSession(MemoryPaths, list[n])
  BY DEF SessionsInv
<1>2. \A n \in 1 .. Len(list) : Len(list[n].docs) \in Nat
  BY <1>1, GoodMeansTyped
<1>3. docs \in Seq(DocRecords(MemoryPaths)) /\ Len(docs) \in Nat
  BY <1>1, GoodMeansTyped
<1>4. before \in Nat
  <2>1. i \in 1 .. Len(list) + 1
    BY <1>1
  <2> QED
    BY <1>1, <1>2, <2>1, DocumentsAdd
<1>5. long \in 0 .. Len(docs)
  BY <1>3, <1>4, MemoryAssumption
<1>6. Memory!DocumentCount(v) <= MaxStored => long = Len(docs)
  <2>1. before + Len(docs) <= Memory!DocumentsBefore(list, Len(list) + 1)
    BY <1>1, <1>2, RoomForAll
  <2>2. Memory!DocumentsBefore(list, Len(list) + 1) \in Nat
    <3>1. Len(list) + 1 \in 1 .. Len(list) + 1
      BY <1>1
    <3> QED
      BY <1>1, <1>2, <3>1, DocumentsAdd
  <2> HIDE DEF before
  <2> QED
    BY <1>3, <1>4, <2>1, <2>2, MemoryAssumption DEF Memory!DocumentCount
<1>7. few = [j \in DOMAIN shortened |-> [id |-> shortened[j].id, name |-> shortened[j].path[2]]]
  BY DEF Memory!StoredDocuments
<1> HIDE DEF list, docs, long
<1>8. DOMAIN shortened = 1 .. long /\ \A j \in 1 .. long : shortened[j] = docs[j]
  BY <1>3, <1>5
<1> HIDE DEF shortened
<1>9. DOMAIN few = 1 .. long /\ \A j \in 1 .. long : few[j] = [id |-> docs[j].id, name |-> docs[j].path[2]]
  BY <1>7, <1>8
<1>10. long \in Nat /\ long <= Len(docs)
  BY <1>3, <1>5
<1>11. few \in [1 .. long -> ToSet(few)]
  BY <1>7, <1>9 DEF ToSet
<1>12. few \in Seq(ToSet(few)) /\ Len(few) = long
  BY <1>10, <1>11
<1> QED
  BY <1>6, <1>9, <1>10, <1>12 DEF docs, list

\* What is stored names the sessions.
StoredSession(v, i) ==
  [id |-> v.sessions[i].id, docs |-> Memory!StoredDocuments(v.sessions, i),
   selected |-> IF v.sessions[i].selected \in Ids(Memory!StoredDocuments(v.sessions, i))
                THEN v.sessions[i].selected
                ELSE Memory!FirstOrNone(Memory!StoredDocuments(v.sessions, i))]

LEMMA StoredIs ==
  ASSUME NEW v
  PROVE  /\ Memory!Stored(v).active = v.active
         /\ Memory!Stored(v).sessions = [i \in DOMAIN v.sessions |-> StoredSession(v, i)]
         /\ Memory!Stored(v) # Memory!NoSession
<1>1. Memory!Stored(v) = [active |-> v.active, sessions |-> [i \in DOMAIN v.sessions |-> StoredSession(v, i)]]
  BY SameSessions DEF Memory!Stored, StoredSession
<1>2. DOMAIN Memory!Stored(v) = {"active", "sessions"}
  BY <1>1
<1>3. DOMAIN Memory!NoSession = {}
  BY DEF Memory!NoSession
<1> QED
  BY <1>1, <1>2, <1>3

-----------------------------------------------------------------------------
(* What is found again of a stored session.                                *)

\* The list `some` is taken from the first n documents of `all`, in their order.
TakenInOrder(some, all, n) ==
  \A i, k \in 1 .. Len(some) : i < k =>
    \E p, q \in 1 .. n : p < q /\ some[i] = all[p] /\ some[k] = all[q]

\* The list `some` is what is kept of the first n documents of `all`.
IsKept(some, all, n) ==
  /\ some \in Seq(ToSet(all)) /\ Len(some) <= n
  /\ \A i \in 1 .. Len(some) : Memory!LeadsTo(some[i].name) \in present
  /\ \A i \in 1 .. Len(some) : \E p \in 1 .. n : some[i] = all[p]
  /\ \A i, k \in 1 .. Len(some) : i < k => Memory!LeadsTo(some[i].name) # Memory!LeadsTo(some[k].name)
  /\ TakenInOrder(some, all, n)
  /\ \A p \in 1 .. n : Memory!LeadsTo(all[p].name) \in present =>
       \E i \in 1 .. Len(some) : Memory!LeadsTo(some[i].name) = Memory!LeadsTo(all[p].name)

LEMMA OneMoreKept ==
  ASSUME NEW all, Len(all) \in Nat, DOMAIN all = 1 .. Len(all), NEW n \in 1 .. Len(all),
         NEW some, IsKept(some, all, n - 1)
  PROVE  IsKept(Memory!KeepToo(some, all[n]), all, n)
<1> DEFINE doc == all[n]
           File(d) == Memory!LeadsTo(d.name)
<1>1. some \in Seq(ToSet(all)) /\ Len(some) \in Nat /\ DOMAIN some = 1 .. Len(some) /\ Len(some) <= n - 1
  BY DEF IsKept
<1>2. /\ \A i \in 1 .. Len(some) : File(some[i]) \in present
      /\ \A i \in 1 .. Len(some) : \E p \in 1 .. n - 1 : some[i] = all[p]
      /\ \A i, k \in 1 .. Len(some) : i < k => File(some[i]) # File(some[k])
      /\ \A p \in 1 .. n - 1 : File(all[p]) \in present =>
           \E i \in 1 .. Len(some) : File(some[i]) = File(all[p])
  BY DEF IsKept
<1>0. \A i, k \in 1 .. Len(some) : i < k =>
        \E p, q \in 1 .. n - 1 : p < q /\ some[i] = all[p] /\ some[k] = all[q]
  BY DEF IsKept, TakenInOrder
<1>3. doc \in ToSet(all)
  BY DEF ToSet
<1>4. \A p \in 1 .. n : p \in 1 .. n - 1 \/ p = n
  OBVIOUS
<1>5. \A p \in 1 .. n - 1 : p \in 1 .. n /\ p < n
  OBVIOUS
<1>6. n - 1 < n /\ n \in 1 .. n
  OBVIOUS
<1>7. CASE File(doc) \notin present \/ \E i \in DOMAIN some : File(some[i]) = File(doc)
  <2>1. Memory!KeepToo(some, all[n]) = some
    BY <1>7 DEF Memory!KeepToo
  <2>2. Len(some) <= n
    BY <1>1
  <2>3. ASSUME NEW i \in 1 .. Len(some) PROVE \E p \in 1 .. n : some[i] = all[p]
    <3>1. PICK p \in 1 .. n - 1 : some[i] = all[p]
      BY <1>2
    <3> QED
      BY <1>5, <3>1
  <2>4. ASSUME NEW i \in 1 .. Len(some), NEW k \in 1 .. Len(some), i < k
        PROVE  \E p, q \in 1 .. n : p < q /\ some[i] = all[p] /\ some[k] = all[q]
    <3>1. PICK p \in 1 .. n - 1, q \in 1 .. n - 1 : p < q /\ some[i] = all[p] /\ some[k] = all[q]
      BY <1>0, <2>4
    <3> QED
      BY <1>5, <3>1
  <2>5. \A p \in 1 .. n : File(all[p]) \in present => \E i \in 1 .. Len(some) : File(some[i]) = File(all[p])
    BY <1>1, <1>2, <1>4, <1>7
  <2> QED
    <3>1. TakenInOrder(some, all, n)
      BY <2>4 DEF TakenInOrder
    <3>2. IsKept(some, all, n)
      BY <1>1, <1>2, <2>2, <2>3, <2>5, <3>1 DEF IsKept
    <3> QED
      BY <2>1, <3>2
<1>8. CASE ~(File(doc) \notin present \/ \E i \in DOMAIN some : File(some[i]) = File(doc))
  <2> DEFINE more == Append(some, doc)
  <2>1. Memory!KeepToo(some, all[n]) = more
    BY <1>8 DEF Memory!KeepToo
  <2>2. more \in Seq(ToSet(all)) /\ Len(more) = Len(some) + 1 /\ more[Len(some) + 1] = doc
        /\ \A i \in 1 .. Len(some) : more[i] = some[i]
    BY <1>1, <1>3
  <2> HIDE DEF more
  <2>3. Len(more) <= n /\ \A i \in 1 .. Len(more) : i \in 1 .. Len(some) \/ i = Len(some) + 1
    BY <1>1, <2>2
  <2>4. \A i \in 1 .. Len(some) : i < Len(some) + 1 /\ i \in 1 .. Len(more)
    BY <1>1, <2>2
  <2>5. File(doc) \in present /\ \A i \in 1 .. Len(some) : File(some[i]) # File(doc)
    BY <1>1, <1>8
  <2>6. \A i \in 1 .. Len(more) : File(more[i]) \in present
    BY <1>2, <2>2, <2>3, <2>5
  <2>7. ASSUME NEW i \in 1 .. Len(more) PROVE \E p \in 1 .. n : more[i] = all[p]
    <3>1. CASE i \in 1 .. Len(some)
      <4>1. PICK p \in 1 .. n - 1 : some[i] = all[p]
        BY <1>2, <3>1
      <4> QED
        BY <1>5, <2>2, <3>1, <4>1
    <3>2. CASE i = Len(some) + 1
      BY <1>6, <2>2, <3>2
    <3> QED
      BY <2>3, <3>1, <3>2
  <2>8. ASSUME NEW i \in 1 .. Len(more), NEW k \in 1 .. Len(more), i < k
        PROVE  /\ File(more[i]) # File(more[k])
               /\ \E p, q \in 1 .. n : p < q /\ more[i] = all[p] /\ more[k] = all[q]
    <3>1. i \in 1 .. Len(some) /\ more[i] = some[i]
      BY <1>1, <2>2, <2>8
    <3>2. CASE k \in 1 .. Len(some)
      <4>1. File(some[i]) # File(some[k]) /\ more[k] = some[k]
        BY <1>2, <2>2, <2>8, <3>1, <3>2
      <4>2. PICK p \in 1 .. n - 1, q \in 1 .. n - 1 : p < q /\ some[i] = all[p] /\ some[k] = all[q]
        BY <1>0, <2>8, <3>1, <3>2
      <4>3. p \in 1 .. n /\ q \in 1 .. n
        BY <1>5
      <4> QED
        BY <3>1, <4>1, <4>2, <4>3
    <3>3. CASE k = Len(some) + 1
      <4>1. PICK p \in 1 .. n - 1 : some[i] = all[p]
        BY <1>2, <3>1
      <4>2. more[i] = all[p] /\ more[k] = all[n] /\ p \in 1 .. n /\ p < n
        BY <1>5, <2>2, <3>1, <3>3, <4>1
      <4>3. File(more[i]) # File(more[k])
        BY <2>2, <2>5, <3>1, <3>3
      <4> QED
        BY <1>6, <4>2, <4>3
    <3> QED
      BY <2>3, <3>2, <3>3
  <2>9. ASSUME NEW p \in 1 .. n, File(all[p]) \in present
        PROVE  \E i \in 1 .. Len(more) : File(more[i]) = File(all[p])
    <3>1. CASE p \in 1 .. n - 1
      <4>1. PICK i \in 1 .. Len(some) : File(some[i]) = File(all[p])
        BY <1>2, <2>9, <3>1
      <4>2. i \in 1 .. Len(more) /\ more[i] = some[i]
        BY <2>2, <2>4
      <4> QED
        BY <4>1, <4>2
    <3>2. CASE p = n
      <4>1. Len(some) + 1 \in 1 .. Len(more)
        BY <1>1, <2>2
      <4> QED
        BY <2>2, <3>2, <4>1
    <3> QED
      BY <1>4, <3>1, <3>2
  <2>10. TakenInOrder(more, all, n)
    BY <2>8 DEF TakenInOrder
  <2>11. \A i, k \in 1 .. Len(more) : i < k => File(more[i]) # File(more[k])
    BY <2>8
  <2>12. IsKept(more, all, n)
    BY <2>2, <2>3, <2>6, <2>7, <2>9, <2>10, <2>11 DEF IsKept
  <2> QED
    BY <2>1, <2>12
<1> QED
  BY <1>7, <1>8

LEMMA KeptIs ==
  ASSUME NEW session, Len(session.docs) \in Nat, DOMAIN session.docs = 1 .. Len(session.docs)
  PROVE  IsKept(Memory!Kept(session), session.docs, Len(session.docs))
<1> DEFINE all == session.docs
           N == Len(all)
           S == Seq(ToSet(all))
           F == [p \in (1 .. N) \X S |-> Memory!KeepToo(p[2], all[p[1]])]
           some[n \in 0 .. N] == IF n = 0 THEN <<>> ELSE Memory!KeepToo(some[n - 1], all[n])
<1>1. N \in Nat /\ <<>> \in S
  OBVIOUS
<1>2. \A i \in 1 .. N, list \in S : F[<<i, list>>] = Memory!KeepToo(list, all[i])
  OBVIOUS
<1>3. ASSUME NEW i \in 1 .. N, NEW list \in S PROVE Memory!KeepToo(list, all[i]) \in S
  <2>1. all[i] \in ToSet(all)
    BY DEF ToSet
  <2>2. Append(list, all[i]) \in S
    BY <2>1
  <2>3. Memory!KeepToo(list, all[i]) = list \/ Memory!KeepToo(list, all[i]) = Append(list, all[i])
    BY DEF Memory!KeepToo
  <2> HIDE DEF S
  <2> QED
    BY <2>2, <2>3
<1> HIDE DEF S, F
<1>4. PICK f \in [0 .. N -> S] : f[0] = <<>> /\ \A i \in 1 .. N : f[i] = F[<<i, f[i - 1]>>]
  <2>1. StaysIn(S, N, F)
    BY <1>2, <1>3 DEF StaysIn
  <2>2. IsComputed(S, <<>>, N, F)
    BY <1>1, <2>1, StepByStep
  <2> QED
    BY <2>2 DEF IsComputed
<1>5. \A i \in 0 .. N : i # 0 => f[i - 1] \in S /\ i \in 1 .. N
  BY <1>1, <1>4
<1> DEFINE G == [i \in 0 .. N |-> IF i = 0 THEN <<>> ELSE Memory!KeepToo(f[i - 1], all[i])]
<1>6. f = G
  <2>1. ASSUME NEW i \in 0 .. N PROVE f[i] = G[i]
    <3>1. CASE i = 0
      BY <1>4, <3>1
    <3>2. CASE i # 0
      BY <1>2, <1>4, <1>5, <3>2
    <3> QED
      BY <3>1, <3>2
  <2> QED
    BY <2>1
<1>7. some = [i \in 0 .. N |-> IF i = 0 THEN <<>> ELSE Memory!KeepToo(some[i - 1], all[i])]
  BY <1>6
<1>8. Memory!Kept(session) = some[N]
  BY DEF Memory!Kept
<1> HIDE DEF some, G
<1>9. some[0] = <<>> /\ \A i \in 1 .. N : some[i] = Memory!KeepToo(some[i - 1], all[i])
  <2> HIDE DEF all, N
  <2>1. 0 \in 0 .. N /\ \A i \in 1 .. N : i \in 0 .. N /\ i # 0
    BY <1>1
  <2>2. \A i \in 0 .. N : some[i] = IF i = 0 THEN <<>> ELSE Memory!KeepToo(some[i - 1], all[i])
    BY <1>7
  <2> QED
    BY <2>1, <2>2
<1> DEFINE bad == {n \in 0 .. N : ~IsKept(some[n], all, n)}
<1>10. bad = {}
  <2> SUFFICES ASSUME bad # {} PROVE FALSE
    OBVIOUS
  <2>1. bad \subseteq Nat
    BY <1>1
  <2> HIDE DEF bad
  <2>2. PICK m \in bad : \A k \in bad : m <= k
    BY <2>1, Least
  <2> USE DEF bad
  <2>3. m \in 0 .. N /\ ~IsKept(some[m], all, m)
    BY <2>2
  <2>4. CASE m = 0
    <3>1. some[m] = <<>> /\ Len(some[m]) = 0
      BY <1>9, <2>4
    <3>2. \A i \in 1 .. 0 : FALSE
      OBVIOUS
    <3> QED
      BY <2>3, <2>4, <3>1, <3>2 DEF IsKept, TakenInOrder
  <2>5. CASE m # 0
    <3>1. m \in 1 .. N /\ m - 1 \in 0 .. N /\ ~(m <= m - 1)
      BY <1>1, <2>3, <2>5
    <3>2. IsKept(some[m - 1], all, m - 1)
      BY <2>2, <3>1
    <3>3. some[m] = Memory!KeepToo(some[m - 1], all[m])
      BY <1>9, <3>1
    <3> HIDE DEF all
    <3>4. Len(all) \in Nat /\ DOMAIN all = 1 .. Len(all)
      BY DEF all
    <3>5. IsKept(Memory!KeepToo(some[m - 1], all[m]), all, m)
      BY <3>1, <3>2, <3>4, OneMoreKept
    <3> QED
      BY <2>3, <3>3, <3>5
  <2> QED
    BY <2>4, <2>5
<1> QED
  BY <1>1, <1>8, <1>10

-----------------------------------------------------------------------------
\* A stored session that is read again: it is good, and when there was room for every
\* document it is what is left of the one that was stored.
LEMMA RestoredSessionIs ==
  ASSUME NEW v, SessionsInv(MemoryPaths, v), target \in PdfFiles, NEW i \in 1 .. Len(v.sessions),
         NEW now, now = Memory!RestoredSession(StoredSession(v, i))
  PROVE  /\ GoodSession(MemoryPaths, now) /\ now.id = v.sessions[i].id
         /\ Memory!DocumentCount(v) <= MaxStored => Memory!IsLeftOf(now, v.sessions[i])
<1> DEFINE old == v.sessions[i]
           docs == old.docs
           stored == StoredSession(v, i)
           few == stored.docs
           some == Memory!Kept(stored)
           File(d) == Memory!LeadsTo(d.name)
           found(d) == [id |-> <<old.id, File(d)>>, path |-> <<File(d), d.name>>]
<1>1. GoodSession(MemoryPaths, old)
  BY DEF SessionsInv
<1>2. /\ old.id \in Nat /\ Len(docs) \in Nat /\ DOMAIN docs = 1 .. Len(docs)
      /\ \A j \in 1 .. Len(docs) :
           docs[j].path \in MemoryPaths /\ docs[j].id = <<old.id, FileOf(docs[j].path)>>
  BY <1>1, GoodMeansTyped
<1>3. /\ few = Memory!StoredDocuments(v.sessions, i) /\ stored.id = old.id
      /\ stored.selected = IF old.selected \in Ids(few) THEN old.selected ELSE Memory!FirstOrNone(few)
  BY DEF StoredSession
<1>4. /\ Len(few) \in Nat /\ DOMAIN few = 1 .. Len(few) /\ Len(few) <= Len(docs)
      /\ \A j \in 1 .. Len(few) : few[j] = [id |-> docs[j].id, name |-> docs[j].path[2]]
      /\ Memory!DocumentCount(v) <= MaxStored => Len(few) = Len(docs)
  <2> DEFINE list == Memory!StoredDocuments(v.sessions, i)
  <2>1. /\ Len(list) \in Nat /\ DOMAIN list = 1 .. Len(list) /\ Len(list) <= Len(v.sessions[i].docs)
        /\ \A j \in 1 .. Len(list) :
             list[j] = [id |-> v.sessions[i].docs[j].id, name |-> v.sessions[i].docs[j].path[2]]
        /\ Memory!DocumentCount(v) <= MaxStored => Len(list) = Len(v.sessions[i].docs)
        /\ list \in Seq(ToSet(list))
    <3> HIDE DEF docs, few, old, stored
    <3> QED
      BY StoredDocumentsAre, Zenon
  <2>2. few = list
    BY <1>3
  <2> HIDE DEF few, list
  <2> QED
    BY <2>1, <2>2
<1>5. IsKept(some, few, Len(few))
  BY <1>4, KeptIs
<1>6. some \in Seq(ToSet(few)) /\ Len(some) \in Nat /\ DOMAIN some = 1 .. Len(some) /\ Len(some) <= Len(few)
  BY <1>5 DEF IsKept
<1>7. ASSUME NEW j \in 1 .. Len(few)
      PROVE  /\ few[j].name \in Memory!Names /\ File(few[j]) \in PdfFiles
             /\ few[j].name = docs[j].path[2] /\ few[j].id = docs[j].id /\ j \in 1 .. Len(docs)
  <2>1. j \in 1 .. Len(docs)
    BY <1>2, <1>4
  <2>2. few[j].name = docs[j].path[2] /\ few[j].id = docs[j].id
    <3> HIDE DEF few, docs
    <3>1. few[j] = [id |-> docs[j].id, name |-> docs[j].path[2]]
      BY <1>4
    <3> QED
      BY <3>1
  <2>3. docs[j].path[2] \in Memory!Names
    BY <1>2, <2>1 DEF MemoryPaths
  <2>4. File(few[j]) \in PdfFiles
    BY <2>2, <2>3 DEF Memory!LeadsTo, Memory!Names
  <2> QED
    BY <2>1, <2>2, <2>3, <2>4
<1>8. ASSUME NEW k \in 1 .. Len(some)
      PROVE  some[k].name \in Memory!Names /\ File(some[k]) \in PdfFiles
  <2>1. PICK p \in 1 .. Len(few) : some[k] = few[p]
    BY <1>5 DEF IsKept
  <2> QED
    BY <1>7, <2>1
<1>9. \A d : Memory!Found(stored, d) = found(d)
  BY <1>3 DEF Memory!Found, Memory!PathOf
<1>10. now = [id |-> old.id, docs |-> [k \in DOMAIN some |-> Memory!Found(stored, some[k])],
              selected |-> Memory!RestoredSelection(stored, some)]
  BY <1>3 DEF Memory!RestoredSession
<1> HIDE DEF some, few, docs, old, stored
<1>11. now.id = old.id /\ now.docs = [k \in 1 .. Len(some) |-> found(some[k])]
       /\ now.selected = Memory!RestoredSelection(stored, some)
  BY <1>6, <1>9, <1>10
<1>12. ASSUME NEW k \in 1 .. Len(some)
       PROVE  found(some[k]) \in DocRecords(MemoryPaths)
  <2> DEFINE path == <<File(some[k]), some[k].name>>
  <2>1. path \in MemoryPaths /\ FileOf(path) = File(some[k])
    BY <1>8 DEF MemoryPaths, FileOf
  <2>2. <<old.id, File(some[k])>> \in DocIds(MemoryPaths)
    BY <1>2, <2>1 DEF DocIds, FileNames
  <2> QED
    BY <2>1, <2>2 DEF DocRecords
<1>13. /\ now.docs \in Seq(DocRecords(MemoryPaths))
       /\ Len(now.docs) = Len(some) /\ DOMAIN now.docs = 1 .. Len(some)
       /\ \A k \in 1 .. Len(some) : now.docs[k].id = <<old.id, File(some[k])>>
                                   /\ now.docs[k].path = <<File(some[k]), some[k].name>>
  <2>1. now.docs \in [1 .. Len(some) -> DocRecords(MemoryPaths)]
    BY <1>11, <1>12
  <2>2. now.docs \in Seq(DocRecords(MemoryPaths)) /\ Len(now.docs) = Len(some)
    BY <1>6, <2>1
  <2> QED
    BY <1>11, <2>2
<1>14. \A k, m \in 1 .. Len(some) : k # m => File(some[k]) # File(some[m])
  <2>1. \A k, m \in 1 .. Len(some) : k < m => File(some[k]) # File(some[m])
    BY <1>5 DEF IsKept
  <2>2. \A k, m \in 1 .. Len(some) : k # m => k < m \/ m < k
    OBVIOUS
  <2> QED
    BY <2>1, <2>2
<1>15. some = <<>> => now.selected = NoDocument
  BY <1>11 DEF Memory!RestoredSelection, Memory!NoDocument, NoDocument
<1>16. ASSUME some # <<>>
       PROVE  \E m \in 1 .. Len(some) :
                now.selected = now.docs[m].id
                /\ (stored.selected \in Ids(some) => some[m].id = stored.selected)
  <2> DEFINE m == IF stored.selected \in Ids(some) THEN IndexOf(some, stored.selected) ELSE 1
  <2>1. m \in 1 .. Len(some) /\ (stored.selected \in Ids(some) => some[m].id = stored.selected)
    <3>1. 1 \in 1 .. Len(some)
      BY <1>6, <1>16
    <3>2. stored.selected \in Ids(some) => IndexOf(some, stored.selected) \in DOMAIN some
                                           /\ some[IndexOf(some, stored.selected)].id = stored.selected
      BY IndexIs
    <3> QED
      BY <1>6, <3>1, <3>2
  <2>2. Memory!RestoredSelection(stored, some) = found(some[m]).id
    <3>1. Memory!RestoredSelection(stored, some)
          = Memory!Found(stored, IF stored.selected \in Ids(some)
                                 THEN some[IndexOf(some, stored.selected)] ELSE some[1]).id
      BY <1>16, SameSessions DEF Memory!RestoredSelection
    <3>2. (IF stored.selected \in Ids(some) THEN some[IndexOf(some, stored.selected)] ELSE some[1]) = some[m]
      OBVIOUS
    <3> HIDE DEF m, found
    <3> QED
      BY <1>9, <3>1, <3>2
  <2>3. now.docs[m].id = found(some[m]).id
    BY <1>13, <2>1
  <2> HIDE DEF m
  <2> QED
    BY <1>11, <2>1, <2>2, <2>3
<1>17. GoodSession(MemoryPaths, now)
  <2>1. /\ now.docs = <<>> => now.selected = NoDocument
        /\ now.docs # <<>> => \E m \in 1 .. Len(some) : now.selected = now.docs[m].id
    <3>1. now.docs = <<>> <=> some = <<>>
      BY <1>6, <1>13
    <3> QED
      BY <1>15, <1>16, <3>1
  <2>2. HasItsSelection(now)
    BY <1>13, <2>1 DEF HasItsSelection, Ids
  <2>3. now.selected \in DocIds(MemoryPaths) \cup {NoDocument}
    <3>1. \A m \in 1 .. Len(some) : now.docs[m] \in DocRecords(MemoryPaths)
      BY <1>11, <1>12
    <3> QED
      BY <2>1, <3>1 DEF DocRecords
  <2>4. now = [id |-> old.id, docs |-> now.docs, selected |-> now.selected]
    BY <1>10
  <2>5. now \in SessionRecords(MemoryPaths)
    BY <1>2, <1>13, <2>3, <2>4 DEF SessionRecords
  <2>6. ListsFilesOnce(now)
    <3>1. Len(docs) <= MaxDocuments
      BY <1>1 DEF GoodSession, ListsFilesOnce, docs
    <3>2. Len(now.docs) <= MaxDocuments
      <4>1. Len(docs) \in Nat /\ Len(few) \in Nat /\ Len(some) \in Nat /\ MaxDocuments \in Nat
        BY <1>2, <1>4, <1>6, LimitsAssumption
      <4>2. Len(now.docs) = Len(some) /\ Len(some) <= Len(few) /\ Len(few) <= Len(docs)
        BY <1>4, <1>6, <1>13
      <4> QED
        BY <3>1, <4>1, <4>2
    <3>3. \A k \in 1 .. Len(some) : FileOf(now.docs[k].path) = File(some[k])
      BY <1>13 DEF FileOf
    <3> QED
      BY <1>13, <1>14, <3>2, <3>3 DEF ListsFilesOnce
  <2>7. \A k \in DOMAIN now.docs : now.docs[k].id = <<now.id, FileOf(now.docs[k].path)>>
    BY <1>11, <1>13 DEF FileOf
  <2> QED
    BY <2>2, <2>5, <2>6, <2>7 DEF GoodSession
<1>18. ASSUME Memory!DocumentCount(v) <= MaxStored PROVE Memory!IsLeftOf(now, old)
  <2> DEFINE Name(j) == docs[j].path[2]
             there == {j \in DOMAIN docs : Memory!LeadsTo(Name(j)) \in present}
  <2>1. Len(few) = Len(docs) /\ \A j \in DOMAIN docs : few[j].name = Name(j) /\ few[j].id = docs[j].id
    BY <1>2, <1>4, <1>7, <1>18
  <2>2. ASSUME NEW k \in 1 .. Len(some), NEW p \in 1 .. Len(few), some[k] = few[p]
        PROVE  p \in there /\ Name(p) = now.docs[k].path[2] /\ File(some[k]) = Memory!LeadsTo(Name(p))
    <3>1. File(some[k]) \in present
      BY <1>5 DEF IsKept
    <3>2. p \in DOMAIN docs /\ some[k].name = Name(p)
      BY <1>2, <2>1, <2>2
    <3> QED
      BY <1>13, <3>1, <3>2
  <2>3. ASSUME NEW k \in DOMAIN now.docs, NEW m \in DOMAIN now.docs, k < m
        PROVE  \E p, q \in there : p < q /\ Name(p) = now.docs[k].path[2] /\ Name(q) = now.docs[m].path[2]
    <3>1. k \in 1 .. Len(some) /\ m \in 1 .. Len(some)
      BY <1>13
    <3>2. PICK p \in 1 .. Len(few), q \in 1 .. Len(few) : p < q /\ some[k] = few[p] /\ some[m] = few[q]
      <4>1. TakenInOrder(some, few, Len(few))
        BY <1>5 DEF IsKept
      <4> HIDE DEF there, File, found
      <4> QED
        BY <2>3, <3>1, <4>1 DEF TakenInOrder
    <3> HIDE DEF there, Name
    <3> QED
      BY <2>2, <3>1, <3>2
  <2>4. ASSUME NEW p \in there
        PROVE  \E k \in 1 .. Len(some) : File(some[k]) = Memory!LeadsTo(Name(p))
    <3>1. p \in DOMAIN docs /\ Memory!LeadsTo(Name(p)) \in present
      OBVIOUS
    <3>2. p \in 1 .. Len(few) /\ few[p].name = Name(p)
      BY <1>2, <2>1, <3>1
    <3>3. \A q \in 1 .. Len(few) : Memory!LeadsTo(few[q].name) \in present =>
            \E k \in 1 .. Len(some) : Memory!LeadsTo(some[k].name) = Memory!LeadsTo(few[q].name)
      BY <1>5 DEF IsKept
    <3> HIDE DEF there, Name
    <3> QED
      BY <3>1, <3>2, <3>3
  <2>5. Files(now.docs) = {Memory!LeadsTo(Name(p)) : p \in there}
    <3>1. Files(now.docs) = {File(some[k]) : k \in 1 .. Len(some)}
      BY <1>13 DEF Files, FileOf
    <3>2. ASSUME NEW k \in 1 .. Len(some) PROVE \E p \in there : File(some[k]) = Memory!LeadsTo(Name(p))
      <4>1. PICK p \in 1 .. Len(few) : some[k] = few[p]
        BY <1>5 DEF IsKept
      <4> HIDE DEF there, Name
      <4> QED
        BY <2>2, <4>1
    <3> HIDE DEF there, Name
    <3> QED
      BY <2>4, <3>1, <3>2
  <2>6. ASSUME NEW p \in there, docs[p].id = old.selected,
               \A q \in there : Memory!LeadsTo(Name(q)) = Memory!LeadsTo(Name(p)) => q = p
        PROVE  now.selected = <<now.id, Memory!LeadsTo(Name(p))>>
    <3>1. PICK k \in 1 .. Len(some) : File(some[k]) = Memory!LeadsTo(Name(p))
      BY <2>4
    <3>2. PICK q \in 1 .. Len(few) : some[k] = few[q]
      BY <1>5 DEF IsKept
    <3>3. p \in DOMAIN docs
      OBVIOUS
    <3>4. q = p
      <4>1. q \in there /\ File(some[k]) = Memory!LeadsTo(Name(q))
        BY <2>2, <3>2
      <4> HIDE DEF there, Name
      <4> QED
        BY <2>6, <3>1, <4>1
    <3>5. old.selected \in Ids(few) /\ stored.selected = old.selected
      BY <1>2, <1>3, <1>4, <2>1, <2>6, <3>3 DEF Ids
    <3>6. some[k].id = old.selected /\ old.selected \in Ids(some)
      BY <1>6, <2>1, <2>6, <3>2, <3>3, <3>4 DEF Ids
    <3>7. some # <<>>
      BY <1>6
    <3>8. PICK m \in 1 .. Len(some) : now.selected = now.docs[m].id /\ some[m].id = old.selected
      BY <1>16, <3>5, <3>6, <3>7
    <3>9. PICK r \in 1 .. Len(few) : some[m] = few[r]
      BY <1>5 DEF IsKept
    <3>10. r \in DOMAIN docs /\ docs[r].id = docs[p].id
      BY <1>7, <1>2, <2>6, <3>8, <3>9
    <3>11. r = p
      <4>1. FileOf(docs[r].path) = FileOf(docs[p].path)
        BY <1>2, <3>3, <3>10
      <4> QED
        BY <1>1, <3>3, <3>10, <4>1 DEF GoodSession, ListsFilesOnce, docs
    <3>12. File(some[m]) = Memory!LeadsTo(Name(p))
      BY <2>1, <3>3, <3>9, <3>11
    <3> QED
      BY <1>11, <1>13, <3>8, <3>12
  <2>7. Memory!Files(now.docs) = Files(now.docs)
    BY DEF Memory!Files, Files, Memory!FileOf, FileOf
  <2> HIDE DEF File, found
  <2> QED
    BY <1>11, <2>3, <2>5, <2>6, <2>7 DEF Memory!IsLeftOf, docs
<1> QED
  BY <1>11, <1>17, <1>18 DEF old

\* What was stored of good sessions is restored as good sessions, the same ones.
LEMMA RestoredIs ==
  ASSUME NEW v, SessionsInv(MemoryPaths, v), target \in PdfFiles, NEW again,
         again = Memory!Restored(Memory!Stored(v))
  PROVE  /\ SessionsInv(MemoryPaths, again) /\ again.active = v.active
         /\ Len(again.sessions) = Len(v.sessions)
         /\ Memory!DocumentCount(v) <= MaxStored =>
              \A i \in DOMAIN v.sessions : Memory!IsLeftOf(again.sessions[i], v.sessions[i])
<1> DEFINE N == Len(v.sessions)
<1>1. /\ N \in Nat /\ N \in 1 .. MaxWorkspaces /\ DOMAIN v.sessions = 1 .. N /\ v.active \in Nat
      /\ v.active \in Ids(v.sessions)
      /\ \A i, j \in 1 .. N : i # j => v.sessions[i].id # v.sessions[j].id
  BY DEF SessionsInv
<1>2. /\ Memory!Stored(v).active = v.active /\ Memory!Stored(v) # Memory!NoSession
      /\ Memory!Stored(v).sessions = [i \in 1 .. N |-> StoredSession(v, i)]
  BY <1>1, StoredIs
<1>3. again = [active |-> v.active,
               sessions |-> [i \in 1 .. N |-> Memory!RestoredSession(StoredSession(v, i))]]
  <2> DEFINE s == Memory!Stored(v)
  <2>1. again = IF s = Memory!NoSession THEN Memory!FirstWorkspaces
                ELSE [active |-> s.active,
                      sessions |-> [i \in DOMAIN s.sessions |-> Memory!RestoredSession(s.sessions[i])]]
    BY DEF Memory!Restored
  <2> HIDE DEF s, N
  <2>2. s.active = v.active /\ s # Memory!NoSession /\ s.sessions = [i \in 1 .. N |-> StoredSession(v, i)]
    BY <1>2 DEF s
  <2> QED
    BY <2>1, <2>2
<1>4. ASSUME NEW i \in 1 .. N
      PROVE  /\ GoodSession(MemoryPaths, Memory!RestoredSession(StoredSession(v, i)))
             /\ Memory!RestoredSession(StoredSession(v, i)).id = v.sessions[i].id
             /\ Memory!DocumentCount(v) <= MaxStored =>
                  Memory!IsLeftOf(Memory!RestoredSession(StoredSession(v, i)), v.sessions[i])
  BY <1>1, RestoredSessionIs
<1> DEFINE list == again.sessions
<1>5. /\ again = [active |-> v.active, sessions |-> list]
      /\ DOMAIN list = 1 .. N /\ \A i \in 1 .. N : list[i] = Memory!RestoredSession(StoredSession(v, i))
      /\ list = [i \in 1 .. N |-> list[i]]
  BY <1>3
<1>6. again.active = v.active
  BY <1>3
<1> HIDE DEF N, list
<1>7. /\ \A i \in 1 .. N : GoodSession(MemoryPaths, list[i]) /\ list[i].id = v.sessions[i].id
      /\ Memory!DocumentCount(v) <= MaxStored =>
           \A i \in 1 .. N : Memory!IsLeftOf(list[i], v.sessions[i])
  BY <1>4, <1>5
<1>8. list \in Seq(SessionRecords(MemoryPaths)) /\ Len(list) = N
  <2>1. list \in [1 .. N -> SessionRecords(MemoryPaths)]
    BY <1>5, <1>7 DEF GoodSession
  <2> QED
    BY <1>1, <2>1
<1>9. again \in [active : Nat, sessions : Seq(SessionRecords(MemoryPaths))]
  BY <1>1, <1>5, <1>8
<1>10. v.active \in Ids(list)
  BY <1>1, <1>5, <1>7 DEF Ids
<1>11. \A i, j \in 1 .. N : i # j => list[i].id # list[j].id
  BY <1>1, <1>7
<1>12. SessionsInv(MemoryPaths, again)
  BY <1>1, <1>5, <1>6, <1>7, <1>8, <1>9, <1>10, <1>11 DEF SessionsInv, list
<1> QED
  BY <1>1, <1>5, <1>6, <1>7, <1>8, <1>12 DEF list, N

-----------------------------------------------------------------------------
(* A window that is alone with its settings file: its sessions are good,   *)
(* what is stored are good sessions too, and once it is closed with the    *)
(* consent the file has its last ones.                                     *)

IsRemembered(session) ==
  session = Memory!NoSession
  \/ \E v : SessionsInv(MemoryPaths, v) /\ session = Memory!Stored(v)

RememberedInv(w) ==
  /\ MemoryInv(w)
  /\ target \in PdfFiles
  /\ kept \in [Windows -> {kept[w]}]
  /\ SessionsInv(MemoryPaths, kept[w])
  /\ IsRemembered(disk.session) /\ IsRemembered(mem[w].session)
  /\ phase[w] = "closed" /\ disk.consent = "yes" => disk.session = Memory!Stored(kept[w])

LEMMA RememberedStarts ==
  ASSUME NEW w, Windows = {w}, DocumentsInit PROVE RememberedInv(w)
<1>1. target \in PdfFiles /\ kept = [x \in Windows |-> FirstWorkspaces] /\ phase[w] = "off" /\ mem[w] = disk
  BY SameSessions DEF DocumentsInit, Memory!Init
<1>2. SessionsInv(MemoryPaths, FirstWorkspaces)
  BY FirstIsGood
<1>3. IsRemembered(disk.session)
  <2>1. CASE disk.session = Memory!NoSession
    BY <2>1 DEF IsRemembered
  <2>2. CASE disk.session # Memory!NoSession
    <3>1. PICK f \in PdfFiles :
            disk.session = Memory!Stored(Memory!AddDocuments(Memory!FirstWorkspaces, <<Memory!PathOf(f)>>))
      BY <2>2 DEF DocumentsInit, Memory!Init
    <3>2. Memory!PathOf(f) \in MemoryPaths
      BY <1>1 DEF Memory!PathOf, Memory!LeadsTo, Memory!Names, MemoryPaths
    <3>3. <<Memory!PathOf(f)>> \in Seq(MemoryPaths)
      BY <3>2
    <3>4. SessionsInv(MemoryPaths, AddDocuments(FirstWorkspaces, <<Memory!PathOf(f)>>))
      BY <1>2, <3>3, DocumentsAreAdded
    <3>5. disk.session = Memory!Stored(AddDocuments(FirstWorkspaces, <<Memory!PathOf(f)>>))
      BY <3>1, SameSessions, SameAdded
    <3> QED
      BY <3>4, <3>5 DEF IsRemembered
  <2> QED
    BY <2>1, <2>2
<1> QED
  BY <1>1, <1>2, <1>3, MemoryStarts DEF RememberedInv

\* What an operation of the window makes of its sessions.
LEMMA OperationsKeepGood ==
  ASSUME NEW w, Windows = {w}, RememberedInv(w),
         \/ Memory!CreateWorkspace(w) \/ Memory!ActivateWorkspace(w) \/ Memory!DeleteWorkspace(w)
         \/ Memory!ActivateDocument(w) \/ Memory!RemoveOpenDocument(w) \/ Memory!AddFiles(w)
  PROVE  \E s : SessionsInv(MemoryPaths, s) /\ Memory!Save(w, s)
<1> DEFINE u == kept[w]
<1>1. SessionsInv(MemoryPaths, u) /\ target \in PdfFiles
  BY DEF RememberedInv
<1>2. CASE Memory!CreateWorkspace(w)
  <2>1. CanAddWorkspace(u) /\ Memory!Save(w, AddWorkspace(u))
    BY <1>2, SameSessions DEF Memory!CreateWorkspace
  <2> QED
    BY <1>1, <2>1, WorkspaceIsAdded
<1>3. CASE Memory!ActivateWorkspace(w)
  <2>1. PICK id \in Ids(u.sessions) : Memory!Save(w, SelectWorkspace(u, id))
    BY <1>3, SameSessions DEF Memory!ActivateWorkspace
  <2> QED
    BY <1>1, <2>1, WorkspaceIsSelected
<1>4. CASE Memory!DeleteWorkspace(w)
  <2>1. Len(u.sessions) > 1
    BY <1>4 DEF Memory!DeleteWorkspace
  <2>2. PICK id \in Ids(u.sessions) : Memory!Save(w, RemoveWorkspace(u, id))
    BY <1>4, SameSessions DEF Memory!DeleteWorkspace
  <2> QED
    BY <1>1, <2>1, <2>2, WorkspaceIsRemoved
<1>5. CASE Memory!ActivateDocument(w)
  <2>1. PICK id : Memory!Save(w, SelectDocument(u, id))
    BY <1>5, SameSessions DEF Memory!ActivateDocument
  <2> QED
    BY <1>1, <2>1, DocumentIsSelected
<1>6. CASE Memory!RemoveOpenDocument(w)
  <2>1. PICK id \in Ids(Documents(u)) : Memory!Save(w, RemoveDocument(u, id))
    BY <1>6, SameSessions DEF Memory!RemoveOpenDocument
  <2> QED
    BY <1>1, <2>1, DocumentIsRemoved
<1>7. CASE Memory!AddFiles(w)
  <2>1. PICK name \in Memory!Names :
          LET added == Memory!Added(u, <<Memory!PathOf(name)>>)
              s     == Memory!AddDocuments(u, <<Memory!PathOf(name)>>)
          IN  Memory!Save(w, IF added = <<>> THEN s ELSE Memory!SelectDocument(s, added[1].id))
    BY <1>7 DEF Memory!AddFiles
  <2> DEFINE paths == <<Memory!PathOf(name)>>
             s == AddDocuments(u, paths)
             added == Added(u, paths)
  <2>2. Memory!PathOf(name) \in MemoryPaths
    BY <1>1 DEF Memory!PathOf, Memory!LeadsTo, Memory!Names, MemoryPaths
  <2>3. paths \in Seq(MemoryPaths)
    BY <2>2
  <2>4. Memory!Save(w, IF added = <<>> THEN s ELSE SelectDocument(s, added[1].id))
    BY <2>1, SameAdded, SameSessions
  <2>5. SessionsInv(MemoryPaths, s)
    BY <1>1, <2>3, DocumentsAreAdded
  <2> HIDE DEF s, added
  <2>6. SessionsInv(MemoryPaths, SelectDocument(s, added[1].id))
    BY <2>5, DocumentIsSelected
  <2> QED
    BY <2>4, <2>5, <2>6
<1> QED
  BY <1>2, <1>3, <1>4, <1>5, <1>6, <1>7

\* One window is all there is.
LEMMA OnlyItsOwn ==
  ASSUME NEW w, Windows = {w}, RememberedInv(w), NEW s, kept' = [kept EXCEPT ![w] = s]
  PROVE  kept'[w] = s /\ kept' \in [Windows -> {kept'[w]}]
BY DEF RememberedInv

\* What stays remembered when the window saves its sessions.
LEMMA SavedIsRemembered ==
  ASSUME NEW w, Windows = {w}, RememberedInv(w), NEW s, SessionsInv(MemoryPaths, s), Memory!Save(w, s)
  PROVE  RememberedInv(w)'
<1>1. /\ phase[w] = "running" /\ phase' = phase /\ kept' = [kept EXCEPT ![w] = s] /\ Memory!Persist(w, s)
      /\ target' = target
  BY DEF Memory!Save, Memory!Running, Memory!world
<1>2. MemoryInv(w)'
  BY <1>1, PersistAgrees DEF RememberedInv
<1>3. kept'[w] = s /\ kept' \in [Windows -> {kept'[w]}]
  BY <1>1, OnlyItsOwn
<1>4. IsRemembered(Memory!Stored(s)) /\ IsRemembered(Memory!NoSession)
  BY DEF IsRemembered
<1>5. mem \in [Windows -> [consent : {mem[w].consent}, session : {mem[w].session}]]
  BY DEF RememberedInv, MemoryInv
<1>6. IsRemembered(disk'.session) /\ IsRemembered(mem'[w].session)
  <2>1. CASE mem[w].consent = "yes"
    <3> DEFINE stored == Memory!Stored(s)
    <3>1. mem' = [mem EXCEPT ![w].session = stored] /\ disk' = disk
      BY <1>1, <2>1 DEF Memory!Persist
    <3> HIDE DEF stored
    <3>2. mem'[w].session = stored
      BY <1>5, <3>1
    <3> QED
      BY <1>4, <3>1, <3>2 DEF RememberedInv, stored
  <2>2. CASE mem[w].consent # "yes" /\ mem[w].session # Memory!NoSession
    <3> DEFINE memory == [mem[w] EXCEPT !.session = Memory!NoSession]
    <3>1. Memory!Write(w, memory, dirty[w] \cup {"session"})
      BY <1>1, <2>2 DEF Memory!Persist
    <3>2. memory.session = Memory!NoSession
      BY <1>5
    <3> HIDE DEF memory
    <3>3. disk'.session = Memory!NoSession /\ mem' = [mem EXCEPT ![w] = disk']
      BY <3>1, <3>2 DEF Memory!Write
    <3>4. mem'[w] = disk'
      BY <1>5, <3>3
    <3> QED
      BY <1>4, <3>3, <3>4
  <2>3. CASE mem[w].consent # "yes" /\ mem[w].session = Memory!NoSession
    BY <1>1, <2>3 DEF Memory!Persist, RememberedInv
  <2> QED
    BY <2>1, <2>2, <2>3
<1> QED
  BY <1>1, <1>2, <1>3, <1>6 DEF RememberedInv

\* What a write leaves.
LEMMA WrittenIsRemembered ==
  ASSUME NEW w, Windows = {w}, RememberedInv(w), NEW memory, NEW keys,
         Memory!Write(w, memory, keys), IsRemembered(memory.session)
  PROVE  /\ IsRemembered(disk'.session) /\ IsRemembered(mem'[w].session)
         /\ "session" \in keys => disk'.session = memory.session
         /\ disk'.consent = IF "consent" \in keys THEN memory.consent ELSE disk.consent
<1>1. disk' = [consent |-> IF "consent" \in keys THEN memory.consent ELSE disk.consent,
               session |-> IF "session" \in keys THEN memory.session ELSE disk.session]
      /\ mem' = [mem EXCEPT ![w] = disk']
  BY DEF Memory!Write
<1>2. mem'[w] = disk'
  BY <1>1 DEF RememberedInv, MemoryInv
<1>3. disk'.session = memory.session \/ disk'.session = disk.session
  BY <1>1
<1> QED
  BY <1>1, <1>2, <1>3 DEF RememberedInv

LEMMA RememberedSteps ==
  ASSUME NEW w, Windows = {w}, RememberedInv(w), [Memory!Next]_memoryVars PROVE RememberedInv(w)'
<1>1. MemoryInv(w)'
  BY MemorySteps DEF RememberedInv
<1>2. /\ mem \in [Windows -> [consent : {mem[w].consent}, session : {mem[w].session}]]
      /\ phase \in [Windows -> {"off", "running", "closed", "crashed"}]
      /\ phase[w] = "running" => mem[w].consent \in {"no", "yes"}
      /\ phase[w] = "running" /\ mem[w].consent = "no" =>
           mem[w].session = Memory!NoSession /\ dirty[w] = {} /\ disk.consent = "no"
  BY DEF RememberedInv, MemoryInv
<1>3. IsRemembered(Memory!NoSession)
  BY DEF IsRemembered
<1>4. CASE \/ Memory!CreateWorkspace(w) \/ Memory!ActivateWorkspace(w) \/ Memory!DeleteWorkspace(w)
           \/ Memory!ActivateDocument(w) \/ Memory!RemoveOpenDocument(w) \/ Memory!AddFiles(w)
  BY <1>4, OperationsKeepGood, SavedIsRemembered
<1>5. CASE Memory!GiveConsent(w)
  <2> DEFINE stored == Memory!Stored(kept[w])
  <2>1. /\ phase[w] = "running" /\ phase' = phase /\ kept' = kept /\ disk' = disk /\ target' = target
        /\ mem' = [mem EXCEPT ![w] = [consent |-> "yes", session |-> stored]]
    BY <1>5 DEF Memory!GiveConsent, Memory!Running, Memory!world
  <2>2. IsRemembered(stored)
    BY DEF IsRemembered, RememberedInv
  <2> HIDE DEF stored
  <2>3. mem'[w].session = stored
    BY <1>2, <2>1
  <2> QED
    BY <1>1, <2>1, <2>2, <2>3 DEF RememberedInv
<1>6. CASE Memory!RevokeConsent(w) \/ Memory!Flush(w) \/ Memory!QtWrites(w)
  <2>1. /\ phase[w] = "running" /\ phase' = phase /\ kept' = kept /\ target' = target
        /\ \E memory, keys : Memory!Write(w, memory, keys) /\ IsRemembered(memory.session)
    BY <1>3, <1>6 DEF Memory!RevokeConsent, Memory!Flush, Memory!QtWrites, Memory!Running, Memory!world,
                      RememberedInv
  <2>2. IsRemembered(disk'.session) /\ IsRemembered(mem'[w].session)
    BY <2>1, WrittenIsRemembered
  <2> QED
    BY <1>1, <2>1, <2>2 DEF RememberedInv
<1>7. CASE Memory!Close(w)
  <2>1. phase[w] = "running" /\ phase' = [phase EXCEPT ![w] = "closed"] /\ kept' = kept /\ target' = target
    BY <1>7 DEF Memory!Close, Memory!Running, Memory!world
  <2>2. CASE mem[w].consent = "yes"
    <3> DEFINE stored == Memory!Stored(kept[w])
               memory == [mem[w] EXCEPT !.session = stored]
               keys == dirty[w] \cup {"session"}
    <3>1. Memory!Write(w, memory, keys)
      BY <1>7, <2>2 DEF Memory!Close
    <3>2. IsRemembered(stored)
      BY DEF IsRemembered, RememberedInv
    <3>3. memory.session = stored
      BY <1>2
    <3> HIDE DEF memory, stored
    <3>4. IsRemembered(disk'.session) /\ IsRemembered(mem'[w].session) /\ disk'.session = stored
      BY <3>1, <3>2, <3>3, WrittenIsRemembered
    <3> QED
      BY <1>1, <2>1, <3>4 DEF RememberedInv, stored
  <2>3. CASE mem[w].consent = "no"
    <3> DEFINE memory == [mem[w] EXCEPT !.session = Memory!NoSession]
    <3>1. Memory!Write(w, memory, {})
      BY <1>2, <1>7, <2>1, <2>3 DEF Memory!Close
    <3>2. IsRemembered(memory.session)
      BY <1>2, <1>3
    <3> HIDE DEF memory
    <3>3. IsRemembered(disk'.session) /\ IsRemembered(mem'[w].session) /\ disk'.consent = "no"
      BY <1>2, <2>1, <2>3, <3>1, <3>2, WrittenIsRemembered
    <3> QED
      BY <1>1, <2>1, <3>3 DEF RememberedInv
  <2> QED
    BY <1>2, <2>1, <2>2, <2>3
<1>8. CASE Memory!Crash(w)
  <2>1. /\ phase' = [phase EXCEPT ![w] = "crashed"] /\ disk' = disk /\ target' = target
        /\ kept' = [kept EXCEPT ![w] = Memory!FirstWorkspaces] /\ mem' = [mem EXCEPT ![w] = disk]
    BY <1>8 DEF Memory!Crash, Memory!world
  <2>2. kept'[w] = FirstWorkspaces /\ kept' \in [Windows -> {kept'[w]}]
    BY <2>1, OnlyItsOwn, SameSessions
  <2>3. mem'[w] = disk /\ phase'[w] = "crashed"
    BY <1>2, <2>1
  <2>4. SessionsInv(MemoryPaths, FirstWorkspaces)
    BY FirstIsGood
  <2> QED
    BY <1>1, <2>1, <2>2, <2>3, <2>4 DEF RememberedInv
<1>9. CASE Memory!Start(w)
  <2> DEFINE file == IF disk.consent = "yes" THEN disk ELSE [consent |-> "no", session |-> Memory!NoSession]
  <2>1. /\ phase' = [phase EXCEPT ![w] = "running"] /\ disk' = file /\ mem' = [mem EXCEPT ![w] = file]
        /\ kept' = [kept EXCEPT ![w] = Memory!Restored(file.session)] /\ target' = target
    BY <1>9 DEF Memory!Start, Memory!world
  <2>2. IsRemembered(file.session)
    BY <1>3 DEF RememberedInv
  <2> HIDE DEF file
  <2>3. kept'[w] = Memory!Restored(file.session) /\ kept' \in [Windows -> {kept'[w]}]
    BY <2>1, OnlyItsOwn
  <2>4. mem'[w] = file /\ phase'[w] = "running"
    BY <1>2, <2>1
  <2>5. SessionsInv(MemoryPaths, Memory!Restored(file.session))
    <3>1. CASE file.session = Memory!NoSession
      <4>1. Memory!Restored(file.session) = FirstWorkspaces
        BY <3>1, SameSessions DEF Memory!Restored
      <4> QED
        BY <4>1, FirstIsGood
    <3>2. CASE \E v : SessionsInv(MemoryPaths, v) /\ file.session = Memory!Stored(v)
      <4>1. PICK v : SessionsInv(MemoryPaths, v) /\ file.session = Memory!Stored(v)
        BY <3>2
      <4>2. target \in PdfFiles
        BY DEF RememberedInv
      <4> QED
        BY <4>1, <4>2, RestoredIs
    <3> QED
      BY <2>2, <3>1, <3>2 DEF IsRemembered
  <2> QED
    BY <1>1, <2>1, <2>2, <2>3, <2>4, <2>5 DEF RememberedInv
<1>10. CASE Memory!OtherPrograms \/ UNCHANGED memoryVars
  <2>1. /\ phase' = phase /\ kept' = kept /\ mem' = mem /\ disk' = disk
        /\ (target \in PdfFiles => target' \in PdfFiles)
    BY <1>10 DEF Memory!OtherPrograms, Memory!settings, memoryVars
  <2> QED
    BY <1>1, <2>1 DEF RememberedInv
<1> QED
  BY <1>4, <1>5, <1>6, <1>7, <1>8, <1>9, <1>10 DEF Memory!Next, Memory!WindowStep

\* The start of a closed window.
LEMMA ItStartsAsClosed ==
  ASSUME NEW w, Windows = {w}, RememberedInv(w), [Memory!Next]_memoryVars,
         phase[w] = "closed", phase'[w] = "running", disk.consent = "yes",
         Memory!DocumentCount(kept[w]) <= MaxStored
  PROVE  /\ kept'[w].active = kept[w].active
         /\ Len(kept'[w].sessions) = Len(kept[w].sessions)
         /\ \A i \in DOMAIN kept[w].sessions :
              Memory!IsLeftOf(kept'[w].sessions[i], kept[w].sessions[i])
<1>1. Memory!Start(w)
  <2>1. CASE Memory!OtherPrograms \/ UNCHANGED memoryVars
    BY <2>1 DEF Memory!OtherPrograms, memoryVars
  <2>2. CASE Memory!WindowStep(w) /\ ~Memory!Start(w)
    <3>1. Memory!Running(w)
      BY <2>2 DEF Memory!WindowStep, Memory!CreateWorkspace, Memory!ActivateWorkspace, Memory!DeleteWorkspace,
                  Memory!ActivateDocument, Memory!RemoveOpenDocument, Memory!AddFiles, Memory!Save,
                  Memory!GiveConsent, Memory!RevokeConsent, Memory!Flush, Memory!QtWrites,
                  Memory!Close, Memory!Crash
    <3> QED
      BY <3>1 DEF Memory!Running
  <2> QED
    BY <2>1, <2>2 DEF Memory!Next
<1>2. kept' = [kept EXCEPT ![w] = Memory!Restored(disk.session)]
  BY <1>1 DEF Memory!Start
<1>3. kept'[w] = Memory!Restored(disk.session)
  BY <1>2, OnlyItsOwn
<1>4. disk.session = Memory!Stored(kept[w]) /\ SessionsInv(MemoryPaths, kept[w]) /\ target \in PdfFiles
  BY DEF RememberedInv
<1> QED
  BY <1>3, <1>4, RestoredIs

\* Of a single application, whatever its documents and its bounds, and whatever other programs
\* did to the files meanwhile: a window closed with the consent to remember starts again with
\* the same sessions, the same active one, and in each what is left of its documents in their
\* order, with its selection if that is left (serialize_workspace_session,
\* restore_workspace_session).
THEOREM ClosedIsRestored ==
  ASSUME NEW w, Windows = {w} PROVE DocumentsSpec => RestoredAsClosed
<1>1. DocumentsInit => RememberedInv(w)
  BY RememberedStarts
<1>2. [DocumentsNext]_allVars => [Memory!Next]_memoryVars
  BY DEF DocumentsNext, allVars, memoryVars
<1>3. RememberedInv(w) /\ [DocumentsNext]_allVars => RememberedInv(w)'
  BY <1>2, RememberedSteps
<1>4. RememberedInv(w) /\ [DocumentsNext]_allVars => [Memory!StartsAsClosed]_memoryVars
  BY <1>2, ItStartsAsClosed DEF Memory!StartsAsClosed
<1> QED
  BY <1>1, <1>3, <1>4, PTL DEF DocumentsSpec, RestoredAsClosed
=============================================================================
