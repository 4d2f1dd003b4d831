---------------------------- MODULE WorkspaceState ----------------------------
(***************************************************************************)
(* The sessions of open documents (ui/workspace_state.py): what each       *)
(* operation of WorkspaceState makes of the sessions, as operators on a    *)
(* record `ws`.  OpenDocuments runs them behind the main window, and       *)
(* SessionMemory behind the settings file.                                 *)
(*                                                                         *)
(*   ws.sessions  the tuple _workspaces, each an [id, docs, selected]      *)
(*   ws.active    _active_workspace_id                                     *)
(*                                                                         *)
(* A path is a pair <<file, spelling>>: two spellings of one file (a       *)
(* symbolic link, a relative path) have the same resolved_path.            *)
(* Identifiers are uuid4 in the code, and nothing keeps one it no longer   *)
(* shows.  Here a new session gets the least number in no use, and a       *)
(* document the pair of its session and its file, so that the same         *)
(* documents are the same state whichever way they were opened.  Session   *)
(* names and page counts change nothing modelled here.                     *)
(***************************************************************************)
EXTENDS Naturals, Sequences, SequencesExt

CONSTANTS MaxWorkspaces,   \* MAX_WORKSPACES, 5 in the code
          MaxDocuments     \* MAX_DOCUMENTS_PER_WORKSPACE, 100 in the code

ASSUME LimitsAssumption == MaxWorkspaces \in Nat \ {0} /\ MaxDocuments \in Nat \ {0}

NoDocument == <<>>

FileOf(path) == path[1]

Ids(list) == {list[i].id : i \in DOMAIN list}
Files(docs) == {FileOf(docs[i].path) : i \in DOMAIN docs}
IndexOf(list, id) == CHOOSE i \in DOMAIN list : list[i].id = id

\* The identifier a new session gets: one that no session has.
FreshId(used) == Min((1 .. Cardinality(used) + 1) \ used)

ActiveIndex(ws) == IndexOf(ws.sessions, ws.active)
Active(ws) == ws.sessions[ActiveIndex(ws)]
Documents(ws) == Active(ws).docs
Selected(ws) == Active(ws).selected

\* The selected document, which the caller knows to exist.
SelectedDocument(ws) == Documents(ws)[IndexOf(Documents(ws), Selected(ws))]

\* documents_by_path: every occurrence of the file, as the session and the document in it.
DocumentsByPath(ws, path) ==
    UNION {{[in |-> i, doc |-> ws.sessions[i].docs[j]] :
              j \in {k \in DOMAIN ws.sessions[i].docs :
                        FileOf(ws.sessions[i].docs[k].path) = FileOf(path)}} :
           i \in DOMAIN ws.sessions}

\* The first of them; a session lists a file once.
FirstByPath(ws, path) ==
    (CHOOSE found \in DocumentsByPath(ws, path) :
        \A other \in DocumentsByPath(ws, path) : found.in <= other.in).doc

ReplaceActive(ws, session) == [ws EXCEPT !.sessions[ActiveIndex(ws)] = session]

FirstOrNone(docs) == IF docs = <<>> THEN NoDocument ELSE docs[1].id

-----------------------------------------------------------------------------
\* A window that has nothing to restore: "Session 1", empty.
FirstWorkspaces == [active |-> 1, sessions |-> <<[id |-> 1, docs |-> <<>>, selected |-> NoDocument]>>]

CanAddWorkspace(ws) == Len(ws.sessions) < MaxWorkspaces

AddWorkspace(ws) ==
    LET id == FreshId(Ids(ws.sessions))
    IN  [active   |-> id,
         sessions |-> Append(ws.sessions, [id |-> id, docs |-> <<>>, selected |-> NoDocument])]

SelectWorkspace(ws, id) == [ws EXCEPT !.active = id]

\* The active session gives its place to the one that takes its index, or to the last.
RemoveWorkspace(ws, id) ==
    LET index == IndexOf(ws.sessions, id)
        rest  == RemoveAt(ws.sessions, index)
    IN  [active   |-> IF ws.active # id THEN ws.active
                      ELSE rest[IF index <= Len(rest) THEN index ELSE Len(rest)].id,
         sessions |-> rest]

\* One candidate of add_documents: refused when the session is full or already
\* holds the file under any spelling.
Join(ws, docs, path) ==
    IF Len(docs) >= MaxDocuments \/ FileOf(path) \in Files(docs)
    THEN docs
    ELSE Append(docs, [id |-> <<ws.active, FileOf(path)>>, path |-> path])

\* The candidates of add_documents, one after the other.
Joined(ws, paths) ==
    LET known[n \in 0 .. Len(paths)] ==
            IF n = 0 THEN Documents(ws) ELSE Join(ws, known[n - 1], paths[n])
    IN  known[Len(paths)]

\* add_documents: the first document of an empty session becomes its selection.
AddDocuments(ws, paths) ==
    LET docs == Joined(ws, paths)
    IN  ReplaceActive(ws, [Active(ws) EXCEPT
            !.docs = docs,
            !.selected = IF @ = NoDocument THEN FirstOrNone(docs) ELSE @])

\* What add_documents returns: the documents that joined.
Added(ws, paths) ==
    LET docs == Documents(AddDocuments(ws, paths))
    IN  SubSeq(docs, Len(Documents(ws)) + 1, Len(docs))

\* Only a document of the active session can be selected.
SelectDocument(ws, id) ==
    IF id \in Ids(Documents(ws))
    THEN ReplaceActive(ws, [Active(ws) EXCEPT !.selected = id])
    ELSE ws

\* A removed selection passes to the document that takes its place, or to the last.
RemoveDocument(ws, id) ==
    LET index == IndexOf(Documents(ws), id)
        rest  == RemoveAt(Documents(ws), index)
        next  == IF rest = <<>> THEN NoDocument
                 ELSE rest[IF index <= Len(rest) THEN index ELSE Len(rest)].id
    IN  ReplaceActive(ws, [Active(ws) EXCEPT
            !.docs = rest, !.selected = IF @ = id THEN next ELSE @])

-----------------------------------------------------------------------------
(* What the sessions promise, whatever ran on them. *)

\* One session is active, and no identifier names two things.
NamesAreUnique(ws) ==
    /\ Len(ws.sessions) \in 1 .. MaxWorkspaces
    /\ ws.active \in Ids(ws.sessions)
    /\ \A i, j \in DOMAIN ws.sessions :
          i # j => /\ ws.sessions[i].id # ws.sessions[j].id
                   /\ Ids(ws.sessions[i].docs) \cap Ids(ws.sessions[j].docs) = {}

\* A session lists a file once, under whatever spelling it was opened.
ListsFilesOnce(session) ==
    /\ Len(session.docs) <= MaxDocuments
    /\ \A i, j \in DOMAIN session.docs :
          i # j => FileOf(session.docs[i].path) # FileOf(session.docs[j].path)

\* A session that has documents has one of them selected.
HasItsSelection(session) ==
    IF session.docs = <<>> THEN session.selected = NoDocument
    ELSE session.selected \in Ids(session.docs)

WellFormed(ws) ==
    /\ NamesAreUnique(ws)
    /\ \A i \in DOMAIN ws.sessions :
          ListsFilesOnce(ws.sessions[i]) /\ HasItsSelection(ws.sessions[i])
=============================================================================
