----------------------------- MODULE SessionMemory -----------------------------
(***************************************************************************)
(* What is remembered of the open documents from one start to the next     *)
(* (app/settings.py, app/workspace_session.py,                             *)
(* ui/controllers/workspace_controller.py): the sessions of each window    *)
(* that runs, the settings as its QSettings holds them, and the settings   *)
(* file, which several running applications may share.  The file is        *)
(* written some time after each change, at once when the consent to        *)
(* remember is withdrawn, and on closing; the application may be killed in *)
(* between.  Meanwhile other programs move the documents.                  *)
(*                                                                         *)
(*   phase[w]   "off" before its first start, "running", "closed" by the   *)
(*              user, or "crashed"                                         *)
(*   ws[w]      the sessions of the window; once it was closed, its last   *)
(*   mem[w]     its QSettings: the consent and the stored sessions         *)
(*   dirty[w]   the keys it changed since it last wrote the file           *)
(*   unsaved[w] how many times the debounced write was asked for since     *)
(*   disk       the settings file                                          *)
(*   present    the PDF files that exist                                   *)
(*   target     the file the symbolic link Link leads to                   *)
(*                                                                         *)
(* A document is stored under its name: a file, or Link.  The size limit   *)
(* of the stored text is a number of documents here.                       *)
(***************************************************************************)
EXTENDS WorkspaceState

CONSTANTS Windows,      \* running applications that share a settings file
          PdfFiles,     \* the files
          Link,         \* the name of a symbolic link to one of them
          MaxStored,    \* documents that fit in MAX_SESSION_PAYLOAD_BYTES
          MaxUnsaved    \* bound on the operations between two writes, at least one

VARIABLES phase, ws, mem, dirty, unsaved, disk, present, target
settings == <<mem, dirty, unsaved, disk>>
world == <<present, target>>
vars == <<phase, ws, settings, world>>

NoSession == <<>>
Names == PdfFiles \cup {Link}
LeadsTo(name) == IF name = Link THEN target ELSE name
PathOf(name) == <<LeadsTo(name), name>>

Running(w) == phase[w] = "running"

-----------------------------------------------------------------------------
(* serialize_workspace_session and restore_workspace_session. *)

\* How many documents the sessions before the i-th have.
DocumentsBefore(sessions, i) ==
    LET total[n \in 0 .. Len(sessions)] ==
            IF n = 0 THEN 0 ELSE total[n - 1] + Len(sessions[n].docs)
    IN  total[i - 1]

\* Documents are dropped from the end of the last session that has any, until
\* the text is short enough: what stays is the beginning.
StoredDocuments(sessions, i) ==
    LET before == DocumentsBefore(sessions, i)
        room   == IF before < MaxStored THEN MaxStored - before ELSE 0
        kept   == SubSeq(sessions[i].docs, 1, IF Len(sessions[i].docs) < room
                                              THEN Len(sessions[i].docs) ELSE room)
    IN  [j \in DOMAIN kept |-> [id |-> kept[j].id, name |-> kept[j].path[2]]]

Stored(w) ==
    LET StoredSession(i) ==
            LET docs == StoredDocuments(w.sessions, i)
            IN  [id |-> w.sessions[i].id, docs |-> docs,
                 selected |-> IF w.sessions[i].selected \in Ids(docs)
                              THEN w.sessions[i].selected ELSE FirstOrNone(docs)]
    IN  [active |-> w.active, sessions |-> [i \in DOMAIN w.sessions |-> StoredSession(i)]]

\* A stored document that is found, under the identifier of WorkspaceState.
Found(session, doc) ==
    [id |-> <<session.id, LeadsTo(doc.name)>>, path |-> PathOf(doc.name)]

\* Names that lead nowhere are dropped, and those that by now lead to a file
\* already listed.
KeepToo(docs, doc) ==
    IF \/ LeadsTo(doc.name) \notin present
       \/ \E i \in DOMAIN docs : LeadsTo(docs[i].name) = LeadsTo(doc.name)
    THEN docs ELSE Append(docs, doc)

Kept(session) ==
    LET kept[n \in 0 .. Len(session.docs)] ==
            IF n = 0 THEN <<>> ELSE KeepToo(kept[n - 1], session.docs[n])
    IN  kept[Len(session.docs)]

\* A selection that is gone passes to the first document.
FirstSelected(session, docs) == IF docs = <<>> THEN NoDocument ELSE Found(session, docs[1]).id
RestoredSelection(session, docs) ==
    IF docs = <<>> THEN NoDocument
    ELSE Found(session, IF session.selected \in Ids(docs)
                        THEN docs[IndexOf(docs, session.selected)] ELSE docs[1]).id

RestoredSession(session) ==
    LET docs == Kept(session)
    IN  [id |-> session.id, docs |-> [i \in DOMAIN docs |-> Found(session, docs[i])],
         selected |-> RestoredSelection(session, docs)]

Restored(stored) ==
    IF stored = NoSession THEN FirstWorkspaces
    ELSE [active   |-> stored.active,
          sessions |-> [i \in DOMAIN stored.sessions |-> RestoredSession(stored.sessions[i])]]

-----------------------------------------------------------------------------
(* The settings of window w. *)

\* QSettings.sync: the keys changed here go to the file, the others come from it.
Write(w, memory, keys) ==
    LET file == [consent |-> IF "consent" \in keys THEN memory.consent ELSE disk.consent,
                 session |-> IF "session" \in keys THEN memory.session ELSE disk.session]
    IN  /\ disk' = file
        /\ mem' = [mem EXCEPT ![w] = file]
        /\ dirty' = [dirty EXCEPT ![w] = {}]

\* WorkspaceController.persist with the sessions s: nothing is stored without
\* the consent, and what was stored is removed from the file at once.
Persist(w, s) ==
    IF mem[w].consent = "yes"
    THEN /\ mem' = [mem EXCEPT ![w].session = Stored(s)]
         /\ dirty' = [dirty EXCEPT ![w] = @ \cup {"session"}]
         /\ UNCHANGED disk
    ELSE IF mem[w].session # NoSession
    THEN Write(w, [mem[w] EXCEPT !.session = NoSession], dirty[w] \cup {"session"})
    ELSE UNCHANGED <<mem, dirty, disk>>

\* An operation of the window on its sessions ends by saving them.
Save(w, s) ==
    /\ Running(w) /\ unsaved[w] < MaxUnsaved
    /\ ws' = [ws EXCEPT ![w] = s]
    /\ Persist(w, s)
    /\ unsaved' = [unsaved EXCEPT ![w] = @ + 1]
    /\ UNCHANGED <<phase, world>>

-----------------------------------------------------------------------------
(* The operations of a window. *)

CreateWorkspace(w) == CanAddWorkspace(ws[w]) /\ Save(w, AddWorkspace(ws[w]))

ActivateWorkspace(w) ==
    \E id \in Ids(ws[w].sessions) \ {ws[w].active} : Save(w, SelectWorkspace(ws[w], id))

DeleteWorkspace(w) ==
    /\ Len(ws[w].sessions) > 1
    /\ \E id \in Ids(ws[w].sessions) : Save(w, RemoveWorkspace(ws[w], id))

ActivateDocument(w) ==
    \E id \in Ids(Documents(ws[w])) : Save(w, SelectDocument(ws[w], id))

RemoveOpenDocument(w) ==
    \E id \in Ids(Documents(ws[w])) : Save(w, RemoveDocument(ws[w], id))

\* A document is dropped, which joins and is selected.  A drop of several saves once.
AddFiles(w) ==
    \E name \in {n \in Names : LeadsTo(n) \in present} :
        LET added == Added(ws[w], <<PathOf(name)>>)
            s     == AddDocuments(ws[w], <<PathOf(name)>>)
        IN  Save(w, IF added = <<>> THEN s ELSE SelectDocument(s, added[1].id))

\* The options are accepted with the consent, given now or before: the sessions are saved in
\* the same handler, and one write is asked for both.
GiveConsent(w) ==
    /\ Running(w) /\ unsaved[w] < MaxUnsaved
    /\ mem' = [mem EXCEPT ![w] = [consent |-> "yes", session |-> Stored(ws[w])]]
    /\ dirty' = [dirty EXCEPT ![w] = @ \cup {"consent", "session"}]
    /\ unsaved' = [unsaved EXCEPT ![w] = @ + 1]
    /\ UNCHANGED <<phase, ws, disk, world>>

RevokeLater(w) ==
    /\ Running(w) /\ unsaved[w] < MaxUnsaved
    /\ mem[w].consent = "yes"
    /\ mem' = [mem EXCEPT ![w] = [consent |-> "no", session |-> NoSession]]
    /\ dirty' = [dirty EXCEPT ![w] = {"consent", "session"}]
    /\ unsaved' = [unsaved EXCEPT ![w] = @ + 1]
    /\ UNCHANGED <<phase, ws, disk, world>>

\* The options are accepted without the consent, which asks for one more write of the other
\* settings, or CLEAR LOCAL DATA.
RevokeConsent(w) ==
    /\ Running(w)
    /\ Write(w, [consent |-> "no", session |-> NoSession], {"consent", "session"})
    /\ \E asked \in {0, 1} : unsaved' = [unsaved EXCEPT ![w] = asked]
    /\ UNCHANGED <<phase, ws, world>>

\* The debounced write.
Flush(w) ==
    /\ Running(w) /\ unsaved[w] > 0
    /\ Write(w, mem[w], dirty[w])
    /\ unsaved' = [unsaved EXCEPT ![w] = 0]
    /\ UNCHANGED <<phase, ws, world>>

\* QSettings also writes by itself, from the event loop.
QtWrites(w) ==
    /\ Running(w) /\ dirty[w] # {}
    /\ Write(w, mem[w], dirty[w])
    /\ UNCHANGED <<phase, ws, unsaved, world>>

\* WorkspaceController.close: a last persist, then the write.
Close(w) ==
    /\ Running(w)
    /\ phase' = [phase EXCEPT ![w] = "closed"]
    /\ IF mem[w].consent = "yes"
       THEN Write(w, [mem[w] EXCEPT !.session = Stored(ws[w])], dirty[w] \cup {"session"})
       ELSE Write(w, [mem[w] EXCEPT !.session = NoSession],
                  dirty[w] \cup (IF mem[w].session = NoSession THEN {} ELSE {"session"}))
    /\ unsaved' = [unsaved EXCEPT ![w] = 0]
    /\ UNCHANGED <<ws, world>>

Crash(w) ==
    /\ Running(w)
    /\ phase' = [phase EXCEPT ![w] = "crashed"]
    /\ ws' = [ws EXCEPT ![w] = FirstWorkspaces]
    /\ mem' = [mem EXCEPT ![w] = disk]
    /\ dirty' = [dirty EXCEPT ![w] = {}]
    /\ unsaved' = [unsaved EXCEPT ![w] = 0]
    /\ UNCHANGED <<disk, world>>

\* A profile of an older release never gave its consent: what it stored is
\* erased before anything is read; so is anything found without the consent.
Start(w) ==
    /\ ~Running(w)
    /\ phase' = [phase EXCEPT ![w] = "running"]
    /\ LET file == IF disk.consent = "yes" THEN disk ELSE [consent |-> "no", session |-> NoSession]
       IN  /\ disk' = file
           /\ mem' = [mem EXCEPT ![w] = file]
           /\ ws' = [ws EXCEPT ![w] = Restored(file.session)]
    /\ UNCHANGED <<dirty, unsaved, world>>

\* Other programs remove documents, bring them back and move the link.
OtherPrograms ==
    /\ \/ \E f \in PdfFiles :
             /\ present' = IF f \in present THEN present \ {f} ELSE present \cup {f}
             /\ UNCHANGED target
       \/ target' \in PdfFiles \ {target} /\ UNCHANGED present
    /\ UNCHANGED <<phase, ws, settings>>

-----------------------------------------------------------------------------
\* A new profile, or one that an older release left with documents in it.
Init ==
    /\ phase = [w \in Windows |-> "off"]
    /\ ws = [w \in Windows |-> FirstWorkspaces]
    /\ present = PdfFiles
    /\ target \in PdfFiles
    /\ disk \in {[consent |-> "absent", session |-> session] :
                    session \in {NoSession} \cup
                        {Stored(AddDocuments(FirstWorkspaces, <<PathOf(f)>>)) : f \in PdfFiles}}
    /\ mem = [w \in Windows |-> disk]
    /\ dirty = [w \in Windows |-> {}]
    /\ unsaved = [w \in Windows |-> 0]

WindowStep(w) ==
    \/ CreateWorkspace(w) \/ ActivateWorkspace(w) \/ DeleteWorkspace(w)
    \/ ActivateDocument(w) \/ RemoveOpenDocument(w) \/ AddFiles(w)
    \/ GiveConsent(w) \/ RevokeConsent(w)
    \/ Flush(w) \/ QtWrites(w)
    \/ Close(w) \/ Crash(w) \/ Start(w)

Next == OtherPrograms \/ \E w \in Windows : WindowStep(w)

Spec == Init /\ [][Next]_vars

-----------------------------------------------------------------------------
(* The types of the variables, and the sessions of every window well       *)
(* formed, restored ones included, whatever became of the files meanwhile. *)
TypeOK ==
    /\ phase \in [Windows -> {"off", "running", "closed", "crashed"}]
    /\ \A w \in Windows : WellFormed(ws[w])
    /\ \A w \in Windows : mem[w].consent \in {"absent", "no", "yes"}
    /\ dirty \in [Windows -> SUBSET {"consent", "session"}]
    /\ unsaved \in [Windows -> 0 .. MaxUnsaved]
    /\ disk.consent \in {"absent", "no", "yes"}
    /\ present \subseteq PdfFiles /\ target \in PdfFiles

(* The settings file holds no path of a document without the consent that *)
(* it holds too, not even when both wait to be written and the window is   *)
(* killed before, between other writes or after (set_workspace_session_json,       *)
(* _migrate_settings; docs/privacy.md:17 "Par defaut, aucun chemin de      *)
(* document ouvert n'est persiste. La memorisation locale est un           *)
(* consentement explicite"); and where a window runs in which the consent  *)
(* is off, the file is rid of the paths already, for their removal waits   *)
(* for no write (settings.py:222 "Revoking path persistence is             *)
(* privacy-sensitive and must not wait for a timer").                      *)
NothingStoredWithoutConsent ==
    /\ disk.consent = "no" => disk.session = NoSession
    /\ \A w \in Windows : Running(w) /\ mem[w].consent = "no" => disk.session = NoSession

DocumentCount(s) == DocumentsBefore(s.sessions, Len(s.sessions) + 1)

(* Session `now` lists what is left of session `before`, in the same       *)
(* order, with the same selection if it is left.                           *)
IsLeftOf(now, before) ==
    LET Name(i) == before.docs[i].path[2]
        left == {i \in DOMAIN before.docs : LeadsTo(Name(i)) \in present}
    IN  /\ now.id = before.id
        /\ \A i, j \in DOMAIN now.docs : i < j =>
              \E p, q \in left :
                 p < q /\ Name(p) = now.docs[i].path[2] /\ Name(q) = now.docs[j].path[2]
        /\ Files(now.docs) = {LeadsTo(Name(i)) : i \in left}
        /\ \A i \in left :
              /\ before.docs[i].id = before.selected
              /\ \A j \in left : LeadsTo(Name(j)) = LeadsTo(Name(i)) => j = i
              => now.selected = <<now.id, LeadsTo(Name(i))>>

(* A window that was closed with the consent to remember starts again with *)
(* the same sessions, the same active one and in each of them what is left *)
(* of its documents, when they were few enough to be stored                *)
(* (serialize_workspace_session, restore_workspace_session).               *)
StartsAsClosed ==
    \A w \in Windows :
       /\ phase[w] = "closed" /\ phase'[w] = "running"
       /\ disk.consent = "yes" /\ DocumentCount(ws[w]) <= MaxStored
       => /\ ws'[w].active = ws[w].active
          /\ Len(ws'[w].sessions) = Len(ws[w].sessions)
          /\ \A i \in DOMAIN ws[w].sessions :
                IsLeftOf(ws'[w].sessions[i], ws[w].sessions[i])
=============================================================================
