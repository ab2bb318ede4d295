-------------------------- MODULE CorrectionSessions --------------------------
(***************************************************************************)
(* Correction sessions (apps/server/src/correction-session-manager.ts and   *)
(* correction-session-store.ts): copies of one game's ledger in memory,    *)
(* edited by requests that queue on a session's mutex, and committed to    *)
(* the workspace, which other requests write as well.                      *)
(***************************************************************************)
EXTENDS Naturals, Sequences, FiniteSets

CONSTANTS
    Client,       \* requests in flight
    Session,      \* session IDs
    Document,
    Blocking,     \* documents with blocking findings
    Limit,        \* sessions that may be open: 64 in the code
    MaxVersion, MaxWrites,   \* bounds: edits of a session, other writers
    None

ASSUME LimitAssumption == Limit \in Nat \ {0} /\ {MaxVersion, MaxWrites} \subseteq Nat
ASSUME NoneAssumption == None \notin Client \cup Session \cup Document

VARIABLES
    ledger,       \* the game's current document and its authority, or None
    superseded,   \* documents that can be restored
    writer,       \* the session that wrote ledger and was told so, or None
    writes,       \* how often others have
    sessions,     \* open sessions
    used,         \* IDs that newId has given
    idle,         \* sessions not looked at for 30 minutes
    mutex,        \* requests of each session's AsyncMutex, its holder first
    pc, req       \* where each request awaits, and its locals

workspace == <<ledger, superseded, writer, writes>>
store == <<sessions, used, idle, mutex>>
vars == <<workspace, store, pc, req>>

Ledger == [document : Document, authority : {"staging", "quarantine"}]
Entry == [before : Document, after : Document]
Record == [version : Nat, document : Document, base : Document,
           authority : {"staging", "quarantine", "superseded"},
           current : Ledger \cup {None},
           undo : Seq(Entry), redo : Seq(Entry)]
ASSUME NoRecordAssumption == None \notin Record
Changes == {"apply", "undo", "redo"}
Kinds == Changes \cup {"preview", "commit", "delete"}
Working == {"computing", "checking", "saving"}

Top(s) == s[Len(s)]
Pop(s) == SubSeq(s, 1, Len(s) - 1)

Open == {s \in Session : sessions[s] # None}
Goto(c, step) == pc' = [pc EXCEPT ![c] = step]
Access(s) == idle' = idle \ {s}

-----------------------------------------------------------------------------
(* create *)

\* Mutant: a session whose mutex is taken is recycled as well.
IsBusyNever(s) == FALSE

IsBusy(s) == mutex[s] # <<>>

\* makeRoom: sessions without unsaved edits that nobody uses.
Evicted == {s \in Open : sessions[s].undo = <<>> /\ ~IsBusy(s) /\ s \in idle}
Kept == [s \in Session |-> IF s \in Evicted THEN None ELSE sessions[s]]
HasRoom == Cardinality(Open \ Evicted) < Limit

Create(c) ==
    /\ pc[c] = "idle"
    /\ sessions' = Kept /\ idle' = idle \ Evicted
    /\ IF HasRoom THEN Goto(c, "reading") ELSE UNCHANGED pc
    /\ UNCHANGED <<workspace, used, mutex, req>>

New(document, authority, current) ==
    [version |-> 0, document |-> document, base |-> document, authority |-> authority,
     current |-> current, undo |-> <<>>, redo |-> <<>>]

\* readCurrentDocumentSnapshot or readSupersededSnapshot; it may also fail.
Read(c) ==
    /\ pc[c] = "reading"
    /\ \/ Goto(c, "idle") /\ UNCHANGED req
       \/ /\ ledger # None /\ Goto(c, "compiling")
          /\ req' = [req EXCEPT ![c] = New(ledger.document, ledger.authority, None)]
       \/ \E d \in superseded :
             /\ Goto(c, "compiling")
             /\ req' = [req EXCEPT ![c] = New(d, "superseded", ledger)]
    /\ UNCHANGED <<workspace, store>>

\* The document is compiled, or is not: sessions.add.
Add(c) ==
    /\ pc[c] = "compiling"
    /\ \/ UNCHANGED <<sessions, used, idle>>
       \/ /\ ~HasRoom /\ UNCHANGED used
          /\ sessions' = Kept /\ idle' = idle \ Evicted
       \/ /\ HasRoom /\ Session \ used # {}
          /\ LET s == CHOOSE n \in Session \ used : TRUE IN
             /\ sessions' = [Kept EXCEPT ![s] = req[c]]
             /\ used' = used \cup {s} /\ idle' = idle \ Evicted
    /\ Goto(c, "idle") /\ req' = [req EXCEPT ![c] = None]
    /\ UNCHANGED <<workspace, mutex>>

-----------------------------------------------------------------------------
(* withSessionLock *)

\* A request for a session that is not there is refused at once.  Of the
\* versions a client may have seen, the last but one stands for all old ones.
Ask(c) ==
    /\ pc[c] = "idle"
    /\ \E s \in Open, kind \in Kinds, allow \in BOOLEAN :
        /\ sessions[s].version < MaxVersion /\ (allow => kind = "commit")
        /\ mutex' = [mutex EXCEPT ![s] = Append(@, c)]
        /\ \E n \in {sessions[s].version, sessions[s].version - 1} \cap Nat :
              req' = [req EXCEPT ![c] = [session |-> s, expected |-> n, kind |-> kind,
                                         allow |-> allow, entry |-> None]]
    /\ Goto(c, "waiting")
    /\ UNCHANGED <<workspace, sessions, used, idle>>

\* get, original and sourceEvidence, which do not wait.
Get(s) ==
    /\ s \in Open /\ Access(s)
    /\ UNCHANGED <<workspace, sessions, used, mutex, pc, req>>

Holds(c) == mutex[req[c].session] # <<>> /\ Head(mutex[req[c].session]) = c

\* Mutant: the operation has thrown, and the mutex is not released.
EndStanding(c) == Goto(c, "idle") /\ req' = [req EXCEPT ![c] = None] /\ UNCHANGED mutex

\* The answer, and the mutex to the next one (finally).
End(c) ==
    /\ Goto(c, "idle") /\ req' = [req EXCEPT ![c] = None]
    /\ mutex' = [mutex EXCEPT ![req[c].session] = Tail(@)]

Refuse(c) == End(c) /\ UNCHANGED <<workspace, sessions, used>>

\* Mutant: any version will do.
IsOpen(c) == sessions[req[c].session] # None

\* requiredVersion
IsCurrent(c) ==
    LET r == sessions[req[c].session] IN r # None /\ r.version = req[c].expected

\* What commit is ready to write.
MayCommit(r, allow) ==
    /\ \/ r.undo # <<>>
       \/ r.authority = "quarantine" /\ r.document \notin Blocking
       \/ r.authority = "superseded"
    /\ r.document \in Blocking => allow

\* The checks an operation makes before its first await.
MayBegin(c) ==
    LET r == sessions[req[c].session] IN
    /\ IsCurrent(c)
    /\ req[c].kind = "undo" => r.undo # <<>>
    /\ req[c].kind = "redo" => r.redo # <<>>
    /\ req[c].kind = "commit" => MayCommit(r, req[c].allow)

\* The mutex has come to c.
Enters(c) == pc[c] = "waiting" /\ Holds(c) /\ Access(req[c].session)

Reject(c) == Enters(c) /\ ~MayBegin(c) /\ Refuse(c)

Delete(c) ==
    /\ Enters(c) /\ MayBegin(c) /\ req[c].kind = "delete"
    /\ sessions' = [sessions EXCEPT ![req[c].session] = None]
    /\ End(c)
    /\ UNCHANGED <<workspace, used>>

BeginCommit(c) ==
    /\ Enters(c) /\ MayBegin(c) /\ req[c].kind = "commit"
    /\ Goto(c, "checking")
    /\ UNCHANGED <<workspace, sessions, used, mutex, req>>

-----------------------------------------------------------------------------
(* command, loadOriginal, undo, redo *)

\* The entry of the history an operation is about; a preview is about none.
Entries(r, kind) ==
    CASE kind = "apply" -> {[before |-> r.document, after |-> d] : d \in Document}
      [] kind = "undo" -> {Top(r.undo)}
      [] kind = "redo" -> {Top(r.redo)}
      [] OTHER -> {None}

Compute(c) ==
    /\ Enters(c) /\ MayBegin(c) /\ req[c].kind \in Changes \cup {"preview"}
    /\ \E entry \in Entries(sessions[req[c].session], req[c].kind) :
          req' = [req EXCEPT ![c].entry = entry]
    /\ Goto(c, "computing")
    /\ UNCHANGED <<workspace, sessions, used, mutex>>

\* Mutant: a new edit leaves what was undone before it.
AppliedBeside(r, entry) ==
    [r EXCEPT !.version = @ + 1, !.document = entry.after, !.undo = Append(@, entry)]

Applied(r, entry) ==
    [r EXCEPT !.version = @ + 1, !.document = entry.after, !.undo = Append(@, entry),
              !.redo = <<>>]

Undone(r, entry) ==
    [r EXCEPT !.version = @ + 1, !.document = entry.before, !.undo = Pop(@),
              !.redo = Append(@, entry)]

Redone(r, entry) ==
    [r EXCEPT !.version = @ + 1, !.document = entry.after, !.undo = Append(@, entry),
              !.redo = Pop(@)]

\* The computation is done.
Computed(c) ==
    LET s == req[c].session
        r == sessions[s]
        entry == req[c].entry
    IN
    /\ pc[c] = "computing"
    /\ \/ req[c].kind = "preview" /\ UNCHANGED sessions
       \/ req[c].kind = "apply" /\ sessions' = [sessions EXCEPT ![s] = Applied(r, entry)]
       \/ req[c].kind = "undo" /\ sessions' = [sessions EXCEPT ![s] = Undone(r, entry)]
       \/ req[c].kind = "redo" /\ sessions' = [sessions EXCEPT ![s] = Redone(r, entry)]
    /\ End(c)
    /\ UNCHANGED <<workspace, used, idle>>

\* The computation, or a read or write of the workspace, has failed.
Fail(c) == pc[c] \in Working /\ Refuse(c) /\ UNCHANGED idle

-----------------------------------------------------------------------------
(* commit *)

\* StagingWorkspace.commitCorrection compares the base ...
Check(c) ==
    LET r == sessions[req[c].session]
        isBase == IF r.authority = "superseded" THEN ledger = r.current
                  ELSE ledger = [document |-> r.base, authority |-> r.authority]
    IN
    /\ pc[c] = "checking"
    /\ \/ ~isBase /\ Refuse(c)
       \/ isBase /\ Goto(c, "saving") /\ UNCHANGED <<workspace, sessions, used, mutex, req>>
    /\ UNCHANGED idle

Target(r) == IF r.document \in Blocking THEN "quarantine" ELSE "staging"

\* Mutant: the session goes on from the base it had.
CommittedOn(r) ==
    [r EXCEPT !.version = @ + 1, !.authority = Target(r), !.current = None,
              !.undo = <<>>, !.redo = <<>>]

Committed(r) ==
    [r EXCEPT !.version = @ + 1, !.base = r.document, !.authority = Target(r),
              !.current = None, !.undo = <<>>, !.redo = <<>>]

\* ... and writes: see WorkspaceStore.  It may fail after the document is
\* current, and then the session is not told.
Save(c) ==
    LET s == req[c].session
        r == sessions[s]
        old == IF ledger = None THEN {} ELSE {ledger.document}
    IN
    /\ pc[c] = "saving"
    /\ ledger' = [document |-> r.document, authority |-> Target(r)]
    /\ superseded' = superseded \cup (old \ {r.document})
    /\ \/ /\ writer' = s
          /\ sessions' = [sessions EXCEPT ![s] = Committed(r)]
       \/ writer' = None /\ UNCHANGED sessions
    /\ End(c)
    /\ UNCHANGED <<writes, used, idle>>

\* A collection, an import or another workspace request.
Write ==
    /\ writes < MaxWrites /\ writes' = writes + 1
    /\ ledger' \in Ledger \cup {None} /\ ledger' # ledger
    /\ ledger' # None /\ ledger'.authority = "staging" => ledger'.document \notin Blocking
    /\ superseded' = superseded \cup (IF ledger = None THEN {} ELSE {ledger.document})
    /\ writer' = None
    /\ UNCHANGED <<store, pc, req>>

\* Half an hour passes.
Pass ==
    /\ Open # {} /\ idle' = Open
    /\ UNCHANGED <<workspace, sessions, used, mutex, pc, req>>

-----------------------------------------------------------------------------

Init ==
    /\ ledger \in Ledger \cup {None}
    /\ ledger # None /\ ledger.authority = "staging" => ledger.document \notin Blocking
    /\ superseded = {}
    /\ writer = None /\ writes = 0
    /\ sessions = [s \in Session |-> None] /\ used = {} /\ idle = {}
    /\ mutex = [s \in Session |-> <<>>]
    /\ pc = [c \in Client |-> "idle"] /\ req = [c \in Client |-> None]

Next == \/ \E c \in Client :
               \/ Create(c) \/ Read(c) \/ Add(c)
               \/ Ask(c) \/ Reject(c) \/ Delete(c) \/ Fail(c)
               \/ Compute(c) \/ Computed(c)
               \/ BeginCommit(c) \/ Check(c) \/ Save(c)
        \/ \E s \in Session : Get(s)
        \/ Write \/ Pass

Spec == Init /\ [][Next]_vars

-----------------------------------------------------------------------------
(* Properties *)

Request == [session : Session, expected : Nat, kind : Kinds, allow : BOOLEAN,
            entry : Entry \cup {None}]

TypeOK ==
    /\ ledger \in Ledger \cup {None} /\ superseded \subseteq Document
    /\ writer \in Session \cup {None} /\ writes \in Nat
    /\ sessions \in [Session -> Record \cup {None}]
    /\ used \subseteq Session /\ idle \subseteq Session
    /\ mutex \in [Session -> Seq(Client)]
    /\ pc \in [Client -> {"idle", "reading", "compiling", "waiting"} \cup Working]
    /\ req \in [Client -> Request \cup Record \cup {None}]

Connected(from, path, to) ==
    IF path = <<>> THEN from = to
    ELSE /\ path[1].before = from /\ path[Len(path)].after = to
         /\ \A i \in 1 .. Len(path) - 1 : path[i].after = path[i + 1].before

Resumes(from, path) ==
    /\ path # <<>> => path[Len(path)].before = from
    /\ \A i \in 1 .. Len(path) - 1 : path[i].before = path[i + 1].after

\* A session's history leads from its base to the document it shows, and on to
\* what was undone: nothing that can be undone or redone is off the path, and a
\* session without edits, which may be recycled, shows its base.
HistoryIsConnected ==
    \A s \in Open : /\ Connected(sessions[s].base, sessions[s].undo, sessions[s].document)
                    /\ Resumes(sessions[s].document, sessions[s].redo)

\* makeRoom is called before the awaits of create and again after them: there
\* are never more sessions than the limit, however many are created at once.
LimitHolds == Cardinality(Open) <= Limit

\* A session that was told its commit succeeded can commit again, as long as
\* nobody else has written: its base is what it wrote.
OwnCommitIsBase ==
    writer \in Open =>
        ledger = [document |-> sessions[writer].base, authority |-> sessions[writer].authority]

\* What create and commit leave for the requests after them.
RoomAndBaseHold == LimitHolds /\ OwnCommitIsBase

Uses(c, s) == pc[c] \in Working \cup {"waiting"} /\ req[c].session = s

\* Whoever waits for a mutex waits for a request that is still in flight on the
\* same session, and everyone in flight has a place: none waits for ever.
MutexIsPassedOn ==
    /\ \A s \in Session : \A i \in 1 .. Len(mutex[s]) : Uses(mutex[s][i], s)
    /\ \A c \in Client : pc[c] \in Working \cup {"waiting"} =>
           \E i \in 1 .. Len(mutex[req[c].session]) : mutex[req[c].session][i] = c

\* A session changes to its next version, and only at the end of a request that
\* was made for the version before it.
StaleChangesNothing ==
    [][\A s \in Open : sessions'[s] \notin {None, sessions[s]} =>
          /\ sessions'[s].version = sessions[s].version + 1
          /\ \E c \in Client : /\ pc[c] \in Working /\ pc'[c] = "idle" /\ Uses(c, s)
                               /\ req[c].expected = sessions[s].version]_vars

\* A session goes when it is deleted by its version, or recycled while it has no
\* unsaved edit and no request in flight.
EditsAreKept ==
    [][\A s \in Open : sessions'[s] = None =>
          \/ sessions[s].undo = <<>> /\ \A c \in Client : ~Uses(c, s)
          \/ \E c \in Client : /\ Uses(c, s) /\ req[c].kind = "delete"
                               /\ req[c].expected = sessions[s].version]_vars

=============================================================================
