--------------------------- MODULE WorkspaceStore ---------------------------
(***************************************************************************)
(* The staging workspace of one game: the files under active/, current/,   *)
(* superseded/, original/ and journals/, the requests that change them in  *)
(* the API process, and the startup that repairs them after a crash.       *)
(* packages/persistence/src: staging-workspace.ts, workspace-*-store.ts.   *)
(*                                                                         *)
(* Every path holds the game ID, so games share no file and one game is    *)
(* modelled.  A step ends where the code awaits a file write, or an answer *)
(* that another request can change before the next step.                   *)
(*                                                                         *)
(* A definition marked "mutant" is a mistaken form of the one below it; no  *)
(* action uses it, and a property is shown to notice the mistake.          *)
(***************************************************************************)
EXTENDS Naturals, Sequences, FiniteSets

CONSTANTS
    Operation,     \* requests that may be in flight together
    Startup,       \* the actor that runs StagingWorkspace.open
    Document,      \* ledgers with their findings: one value per contentHash
    Failure,       \* source failure records
    Blocking,      \* the documents that carry a blocking finding
    WithFindings,  \* the documents with findings, hence with a sidecar file
    DocumentHash,  \* documentHash: ledgers that differ in findings may share it
    Kinds,         \* the kinds of request the environment makes
    JournalId,     \* file names of journals (random, hence in no order)
    MaxConcurrentJobs,   \* KBO_COLLECTION_CONCURRENCY
    MaxGeneration,                      \* bound of the generation numbers
    MaxStarts, MaxCrashes, MaxFaults,   \* bounds of the environment
    None

Content == Document \cup Failure
Artifact == [gen : 1 .. MaxGeneration, content : Content]
Entry == Artifact \cup {None}
Actor == Operation \cup {Startup}

\* collect, fail, import: collection and import, one at a time per game.
\* reopen, ensure: a sealed revision becomes a draft.  correct, restore:
\* commitCorrection on the current document or on a superseded snapshot.
CollectionKinds == {"collect", "fail"}
GatedKinds == CollectionKinds \cup {"import"}
CorrectionKinds == {"correct", "restore"}
AllKinds == GatedKinds \cup CorrectionKinds \cup {"reopen", "ensure"}

ASSUME ContentAssumption ==
    /\ Document \cap Failure = {}
    /\ Blocking \subseteq Document
    /\ WithFindings \subseteq Document
    /\ DocumentHash \in [Document -> Document]
ASSUME ActorAssumption == Startup \notin Operation
ASSUME NoneAssumption == None \notin Artifact \cup JournalId \cup Content
ASSUME KindsAssumption == Kinds \subseteq AllKinds
ASSUME BoundAssumption ==
    {MaxConcurrentJobs, MaxGeneration, MaxStarts, MaxCrashes, MaxFaults} \subseteq Nat

VARIABLES
    active, activeFindings,          \* artifacts, and those with a sidecar
    superseded, supersededFindings,  \* the same for archived artifacts
    current,                         \* what current/<gameId>.json points to
    transitions, corrections,        \* journal files
    original, originalFindings,      \* the first ledger and its findings
    mode,                            \* "open", "recovering" or "blocked"
    pc, op,                          \* per actor: next step, request
    gate, chain,                     \* queues: withGameOperation, transitions
    starts, crashes, faults          \* how much of the bounds is used

files == <<active, activeFindings, superseded, supersededFindings>>
originals == <<original, originalFindings>>
journals == <<transitions, corrections>>
queues == <<gate, chain>>
bounds == <<starts, crashes, faults>>
vars == <<files, current, journals, originals, mode, pc, op, queues, bounds>>

-----------------------------------------------------------------------------
(* Data *)

IsDocument(e) == e # None /\ e.content \in Document
ContentOf(e) == IF e = None THEN None ELSE e.content
Authority(c) == IF c \in Failure THEN "source_failure"
                ELSE IF c \in Blocking THEN "quarantine" ELSE "ready"

\* What readVerifiedDocument and readVerifiedFindings accept: the file is
\* there and, with its sidecar, has the contentHash in its name.
Intact(x) == x \in active /\ (x.content \in WithFindings => x \in activeFindings)

SnapshotIntact(x) ==
    /\ x \in superseded
    /\ x.content \in WithFindings => x \in supersededFindings

SameDocument(c, d) == DocumentHash[c] = DocumentHash[d]

\* nextGeneration: one more than every generation in use.
IsNextGeneration(g, previous) ==
    LET used == {x.gen : x \in active \cup superseded \cup ({previous} \ {None})}
    IN  /\ \A u \in used : u < g
        /\ g = 1 \/ g - 1 \in used

NoRequest == [kind |-> "none", content |-> None, base |-> None, token |-> None,
              previous |-> None, target |-> None, journal |-> None,
              correction |-> None]

Request ==
    [kind : AllKinds \cup {"none"}, content : Content \cup {None},
     base : Entry, token : Entry, previous : Entry, target : Entry,
     journal : JournalId \cup {None}, correction : JournalId \cup {None}]

WritingSteps == {"originalFindings", "originalDocument", "openCorrection",
    "document", "findings", "queued", "point", "archive", "archiveFindings",
    "closeTransition", "closeCorrection"}
Steps == WritingSteps \cup {"idle", "target", "waiting", "gate", "check", "remove",
    "original", "verify", "read", "scan", "transitions", "corrections", "integrity"}

-----------------------------------------------------------------------------
(* Control: an actor's next step, the two promise queues, and errors. *)

Goto(a, step) == pc' = [pc EXCEPT ![a] = step]
Update(a, request) == op' = [op EXCEPT ![a] = request]
IsHead(q, a) == q # <<>> /\ Head(q) = a

\* Mutant: an answered request keeps its place.
StillWaiting(q, a) == q

Without(q, a) == IF IsHead(q, a) THEN Tail(q) ELSE q

\* The request is answered: its promise leaves the queues it heads.
Leave(a) ==
    /\ Goto(a, "idle") /\ Update(a, NoRequest)
    /\ gate' = Without(gate, a) /\ chain' = Without(chain, a)

\* The request throws, or returns with nothing to do; what it has written
\* stays.  A throw in open() closes the workspace: the server does not start.
Throw(a) ==
    /\ Leave(a)
    /\ mode' = IF a = Startup THEN "blocked" ELSE mode
    /\ UNCHANGED <<files, current, journals, originals, bounds>>

\* saveReady or saveQuarantine has returned: commitCorrection still has its
\* journal to remove.
Saved(a) ==
    /\ IF op[a].correction # None
       THEN Goto(a, "closeCorrection") /\ UNCHANGED <<op, gate>>
            /\ chain' = Without(chain, a)
       ELSE Leave(a)
    /\ UNCHANGED mode

\* transitionCurrent: wait for the game's earlier transitions.
Enqueue(a) ==
    /\ Goto(a, "queued") /\ chain' = Append(chain, a)

-----------------------------------------------------------------------------
(* Requests *)

\* A correction session or an import job holds the artifact it was made for,
\* a session on a snapshot also the current content of that moment.
Begin(a, kind, content, base) ==
    /\ Update(a, [NoRequest EXCEPT !.kind = kind, !.content = content,
                                   !.base = base, !.token = current])
    /\ Goto(a, CASE kind \in CollectionKinds -> "target"
                 [] kind = "import" -> "waiting"
                 [] OTHER -> "check")

IsReady(e) == IsDocument(e) /\ Authority(e.content) = "ready"

\* Collection jobs are limited in number, and skip a game that is ready.
MayCollect ==
    /\ ~IsReady(current)
    /\ Cardinality({b \in Operation : op[b].kind \in CollectionKinds})
            < MaxConcurrentJobs

Start(a) ==
    /\ mode = "open" /\ pc[a] = "idle" /\ starts < MaxStarts
    /\ starts' = starts + 1
    /\ \E kind \in Kinds :
        \/ /\ kind = "collect" /\ MayCollect
           /\ \E c \in Document : Begin(a, kind, c, None)
        \/ /\ kind = "fail" /\ MayCollect
           /\ \E c \in Failure : Begin(a, kind, c, None)
        \/ kind = "import" /\ IsReady(current) /\ Begin(a, kind, None, current)
        \/ /\ kind = "correct" /\ IsDocument(current)
           /\ \E c \in Document : Begin(a, kind, c, current)
        \/ /\ kind = "restore"
           /\ \E x \in superseded, c \in Document :
                  SnapshotIntact(x) /\ IsDocument(x) /\ Begin(a, kind, c, x)
        \/ /\ kind \in {"reopen", "ensure"}
           /\ \E c \in Document : Begin(a, kind, c, None)
    /\ UNCHANGED <<files, current, journals, originals, mode, queues, crashes, faults>>

\* A collection takes its token after the look at the catalog, before the
\* source is read.
TakeToken(a) ==
    /\ pc[a] = "target"
    /\ Update(a, [op[a] EXCEPT !.token = current])
    /\ Goto(a, "waiting")
    /\ UNCHANGED <<files, current, journals, originals, mode, queues, bounds>>

\* withGameOperation, once the source is read or the import's turn has come.
EnterGate(a) ==
    /\ pc[a] = "waiting"
    /\ Goto(a, "gate") /\ gate' = Append(gate, a)
    /\ UNCHANGED <<files, current, journals, originals, mode, op, chain, bounds>>

\* Mutant: the hash is not compared.
IsStillReady(r) == IsReady(current) /\ Intact(current)

IsImported(r) ==
    /\ IsReady(current) /\ Intact(current)
    /\ SameDocument(current.content, r.base.content)

\* The checks a request makes before it writes.  A collection compares the
\* manifest, an import and a correction the document hash, a restore the
\* content hash of current; ensure only opens a draft where there is none.
Admissible(a) ==
    LET r == op[a] IN
    CASE r.kind \in CollectionKinds -> current = r.token
      [] r.kind = "import" -> IsImported(r)
      [] r.kind = "correct" ->
            /\ IsDocument(current) /\ Intact(current)
            /\ Authority(current.content) = Authority(r.base.content)
            /\ SameDocument(current.content, r.base.content)
      [] r.kind = "restore" ->
            SnapshotIntact(r.base) /\ ContentOf(current) = ContentOf(r.token)
      [] r.kind = "ensure" -> ~IsDocument(current)
      [] OTHER -> TRUE

\* Mutant: a ledger is saved without its original.
AfterCheckUnkept(a) == IF op[a].kind = "import" THEN "remove" ELSE "read"

AfterCheck(a) == CASE op[a].kind = "import" -> "remove"
                   [] op[a].kind = "fail" -> "read"
                   [] OTHER -> "original"

\* From here on a correction starts from the document it has found.
Checked(a) == IF op[a].kind = "correct" THEN [op[a] EXCEPT !.base = current] ELSE op[a]

\* A job may also be cancelled, or refused by what the database holds.
Check(a) ==
    /\ \/ pc[a] = "check"
       \/ pc[a] = "gate" /\ IsHead(gate, a)
    /\ \/ ~Admissible(a) /\ Throw(a)
       \/ op[a].kind \in GatedKinds /\ Throw(a)
       \/ /\ Admissible(a)
          /\ Goto(a, AfterCheck(a)) /\ Update(a, Checked(a))
          /\ UNCHANGED <<files, current, journals, originals, mode, queues, bounds>>

\* removeImportedStaging reads the manifest a second time, after the hash.
ReadRemoved(a) ==
    /\ pc[a] = "remove"
    /\ \/ ~IsReady(current) /\ Throw(a)
       \/ /\ IsReady(current)
          /\ Update(a, [op[a] EXCEPT !.previous = current])
          /\ Enqueue(a)
          /\ UNCHANGED <<files, current, journals, originals, mode, gate, bounds>>

-----------------------------------------------------------------------------
(* saveOriginalIfAbsent: the findings file before the document file.  A    *)
(* correction saves the document it starts from; the second call, made by  *)
(* saveReady when the journal is applied, finds that file.                 *)

OriginalContent(a) ==
    IF op[a].kind \in CorrectionKinds THEN op[a].base.content ELSE op[a].content

\* Mutant: a correction is saved without its journal.
AfterOriginalUnjournaled(a) == "read"

AfterOriginal(a) ==
    IF op[a].kind \in CorrectionKinds /\ op[a].correction = None
    THEN "openCorrection" ELSE "read"

\* Mutant: the file is written although it exists.
AlwaysMissing == TRUE

OriginalMissing == original = None

ReadOriginal(a) ==
    /\ pc[a] = "original"
    /\ Goto(a, IF OriginalMissing THEN "originalFindings" ELSE AfterOriginal(a))
    /\ UNCHANGED <<files, current, journals, originals, mode, op, queues, bounds>>

\* Mutant: the findings of the first ledger are dropped.
NoFindings(a) == None

\* Recovery passes an empty list of findings: the sidecar is removed.
OriginalFindings(a) ==
    IF a # Startup /\ OriginalContent(a) \in WithFindings
    THEN OriginalContent(a) ELSE None

WriteOriginalFindings(a) ==
    /\ pc[a] = "originalFindings"
    /\ originalFindings' = OriginalFindings(a)
    /\ Goto(a, "originalDocument")
    /\ UNCHANGED <<files, current, journals, original, mode, op, queues, bounds>>

WriteOriginalDocument(a) ==
    /\ pc[a] = "originalDocument"
    /\ original' = OriginalContent(a)
    /\ Goto(a, "verify")
    /\ UNCHANGED <<files, current, journals, originalFindings, mode, op, queues, bounds>>

\* The file is read back; a ledger written over it meanwhile is an error.
VerifyOriginal(a) ==
    /\ pc[a] = "verify"
    /\ \/ ~SameDocument(original, OriginalContent(a)) /\ Throw(a)
       \/ /\ SameDocument(original, OriginalContent(a))
          /\ Goto(a, AfterOriginal(a))
          /\ UNCHANGED <<files, current, journals, originals, mode, op, queues, bounds>>

Unlinked(js, id) == {j \in js : j.id # id}

\* WorkspaceJournalStore.commitCorrection: the journal, then saveReady or
\* saveQuarantine, which check nothing against the base any more.
OpenCorrection(a) ==
    /\ pc[a] = "openCorrection"
    /\ \E id \in JournalId \ {j.id : j \in corrections} :
        /\ corrections' = corrections \cup
              {[id |-> id, before |-> op[a].base, content |-> op[a].content]}
        /\ Update(a, [op[a] EXCEPT !.correction = id])
    /\ Goto(a, "read")
    /\ UNCHANGED <<files, current, transitions, originals, mode, queues, bounds>>

CloseCorrection(a) ==
    /\ pc[a] = "closeCorrection"
    /\ corrections' = Unlinked(corrections, op[a].correction)
    /\ IF a = Startup
       THEN Goto(a, "corrections") /\ Update(a, NoRequest) /\ UNCHANGED queues
       ELSE Leave(a)
    /\ UNCHANGED <<files, current, transitions, originals, mode, bounds>>

-----------------------------------------------------------------------------
(* transitionDocument and saveSourceFailure up to the transition. *)

\* Mutant: only the check before the save compares the token.
TokenUnchecked(a) == TRUE

TokenHolds(a) == op[a].kind \in CollectionKinds => current = op[a].token

NothingToSave(a) ==
    \/ op[a].kind = "ensure" /\ IsDocument(current)
    \/ op[a].content \in Document /\ ContentOf(current) = op[a].content

ReadCurrent(a) ==
    /\ pc[a] = "read"
    /\ \/ ~TokenHolds(a) /\ Throw(a)
       \/ /\ TokenHolds(a) /\ NothingToSave(a)
          /\ Saved(a) /\ UNCHANGED <<files, current, journals, originals, bounds>>
       \/ /\ TokenHolds(a) /\ ~NothingToSave(a)
          /\ Update(a, [op[a] EXCEPT !.previous = current]) /\ Goto(a, "scan")
          /\ UNCHANGED <<files, current, journals, originals, mode, queues, bounds>>

\* An active artifact with the same content is used again.  A failure record
\* holds the time it was made and never is.
Reusable(a) ==
    {x \in active : x.content = op[a].content /\ x.content \in Document}

Scan(a) ==
    /\ pc[a] = "scan"
    /\ \/ \E x, y \in Reusable(a) : (x # y \/ ~Intact(x)) /\ Throw(a)
       \/ \E x \in Reusable(a) :
            /\ Reusable(a) = {x} /\ Intact(x)
            /\ Update(a, [op[a] EXCEPT !.target = x]) /\ Enqueue(a)
            /\ UNCHANGED <<files, current, journals, originals, mode, gate, bounds>>
       \/ /\ Reusable(a) = {}
          /\ \E g \in 1 .. MaxGeneration :
                /\ IsNextGeneration(g, op[a].previous)
                /\ Update(a, [op[a] EXCEPT !.target = [gen |-> g, content |-> op[a].content]])
          /\ Goto(a, "document")
          /\ UNCHANGED <<files, current, journals, originals, mode, queues, bounds>>

WriteDocument(a) ==
    /\ pc[a] = "document"
    /\ active' = active \cup {op[a].target}
    /\ IF op[a].content \in WithFindings
       THEN Goto(a, "findings") /\ UNCHANGED chain
       ELSE Enqueue(a)
    /\ UNCHANGED <<activeFindings, superseded, supersededFindings, current,
                   journals, originals, mode, op, gate, bounds>>

WriteFindings(a) ==
    /\ pc[a] = "findings"
    /\ activeFindings' = activeFindings \cup {op[a].target}
    /\ Enqueue(a)
    /\ UNCHANGED <<active, superseded, supersededFindings, current, journals,
                   originals, mode, op, gate, bounds>>

-----------------------------------------------------------------------------
(* performCurrentTransition and rollForwardWorkspaceTransition. *)

Readable(target) == target = None \/ Intact(target)

OpenTransition(a) ==
    /\ pc[a] = "queued" /\ IsHead(chain, a)
    /\ LET r == op[a] IN
       \/ ~(current = r.previous /\ Readable(r.target)) /\ Throw(a)
       \/ /\ current = r.previous /\ Readable(r.target)
          /\ \E id \in JournalId \ {j.id : j \in transitions} :
                /\ transitions' = transitions \cup
                      {[id |-> id, previous |-> r.previous, target |-> r.target]}
                /\ Update(a, [r EXCEPT !.journal = id])
          /\ Goto(a, "point")
          /\ UNCHANGED <<files, current, corrections, originals, mode, queues, bounds>>

\* Mutant: what a removal displaces stays active.
AfterReplacement(r) ==
    IF r.previous # None /\ r.target # None /\ r.previous # r.target
    THEN "archive" ELSE "closeTransition"

AfterPoint(r) ==
    IF r.previous # None /\ r.previous # r.target THEN "archive" ELSE "closeTransition"

\* The manifest is replaced, or removed, in one atomic step.
Point(a) ==
    /\ pc[a] = "point"
    /\ LET r == op[a] IN
       \/ ~Readable(r.target) /\ Throw(a)
       \/ /\ Readable(r.target)
          /\ current' = r.target
          /\ Goto(a, AfterPoint(r))
          /\ UNCHANGED <<files, journals, originals, mode, op, queues, bounds>>

\* Mutant: the new artifact is archived.
Incoming(a) == op[a].target

Displaced(a) == op[a].previous

\* Mutant: the sidecar is left behind.
AfterArchiveAlone(x) == "closeTransition"

AfterArchive(x) ==
    IF x.content \in WithFindings THEN "archiveFindings" ELSE "closeTransition"

\* moveArtifactForRecovery: a source that is gone must be there already.
Archive(a) ==
    /\ pc[a] = "archive"
    /\ LET x == Displaced(a) IN
       \/ x \notin active /\ x \notin superseded /\ Throw(a)
       \/ /\ x \in active \cup superseded
          /\ active' = active \ {x}
          /\ superseded' = superseded \cup {x}
          /\ Goto(a, AfterArchive(x))
          /\ UNCHANGED <<activeFindings, supersededFindings, current, journals,
                         originals, mode, op, queues, bounds>>

\* Mutant: the sidecar is deleted.
Deleted(x, from) == {}

\* moveOptionalArtifactForRecovery: nothing to move is no error.
Moved(x, from) == {x} \cap from

ArchiveFindings(a) ==
    /\ pc[a] = "archiveFindings"
    /\ activeFindings' = activeFindings \ {Displaced(a)}
    /\ supersededFindings' = supersededFindings \cup Moved(Displaced(a), activeFindings)
    /\ Goto(a, "closeTransition")
    /\ UNCHANGED <<active, superseded, current, journals, originals, mode, op,
                   queues, bounds>>

CloseTransition(a) ==
    /\ pc[a] = "closeTransition"
    /\ transitions' = Unlinked(transitions, op[a].journal)
    /\ IF op[a].kind = "none"      \* recoverWorkspaceTransitions
       THEN Goto(a, "transitions") /\ Update(a, NoRequest) /\ UNCHANGED <<mode, queues>>
       ELSE Saved(a)
    /\ UNCHANGED <<files, current, corrections, originals, bounds>>

-----------------------------------------------------------------------------
(* A file operation fails (a full disk, a locked file) and the request with *)
(* it; the process dies; StagingWorkspace.open starts over.                 *)

Fault(a) ==
    /\ pc[a] \in WritingSteps /\ (pc[a] = "queued" => IsHead(chain, a))
    /\ faults < MaxFaults
    /\ faults' = faults + 1
    /\ Leave(a)
    /\ UNCHANGED <<files, current, journals, originals, mode, starts, crashes>>

Crash ==
    /\ mode # "blocked" /\ crashes < MaxCrashes
    /\ crashes' = crashes + 1
    /\ mode' = "recovering"
    /\ pc' = [a \in Actor |-> IF a = Startup THEN "transitions" ELSE "idle"]
    /\ op' = [a \in Actor |-> NoRequest]
    /\ gate' = <<>> /\ chain' = <<>>
    /\ UNCHANGED <<files, current, journals, originals, starts, faults>>

RecoverTransition ==
    /\ pc[Startup] = "transitions"
    /\ \/ \E j \in transitions :
            /\ Update(Startup, [NoRequest EXCEPT !.previous = j.previous,
                                    !.target = j.target, !.journal = j.id])
            /\ Goto(Startup, "point")
       \/ transitions = {} /\ Goto(Startup, "corrections") /\ UNCHANGED op
    /\ UNCHANGED <<files, current, journals, originals, mode, queues, bounds>>

\* Mutant: the journal's two ledgers are confused.
ReplayedBefore(j) == [NoRequest EXCEPT !.kind = "correct",
    !.content = j.before.content, !.base = j.before, !.correction = j.id]

\* rollForwardCorrection: saveReady or saveQuarantine without a token.
Replayed(j) == [NoRequest EXCEPT !.kind = "correct",
    !.content = j.content, !.base = j.before, !.correction = j.id]

RecoverCorrection ==
    /\ pc[Startup] = "corrections"
    /\ \/ \E j \in corrections :
            /\ Update(Startup, Replayed(j))
            /\ Goto(Startup, "original")
       \/ corrections = {} /\ Goto(Startup, "integrity") /\ UNCHANGED op
    /\ UNCHANGED <<files, current, journals, originals, mode, queues, bounds>>

\* assertWorkspaceIntegrity: current is readable, no other artifact is active.
Sound == Readable(current) /\ active \subseteq {current}

CheckIntegrity ==
    /\ pc[Startup] = "integrity"
    /\ mode' = IF Sound THEN "open" ELSE "blocked"
    /\ Goto(Startup, "idle")
    /\ UNCHANGED <<files, current, journals, originals, op, queues, bounds>>

-----------------------------------------------------------------------------

\* A new workspace, or one settled on the first record of its game.
Init ==
    /\ \E x \in Entry :
        /\ x # None => x.gen = 1
        /\ current = x /\ active = {x} \ {None}
        /\ activeFindings = {y \in active : y.content \in WithFindings}
        /\ original = IF IsDocument(x) THEN x.content ELSE None
        /\ originalFindings = IF original \in WithFindings THEN original ELSE None
    /\ superseded = {} /\ supersededFindings = {}
    /\ transitions = {} /\ corrections = {}
    /\ mode = "open"
    /\ pc = [a \in Actor |-> "idle"] /\ op = [a \in Actor |-> NoRequest]
    /\ gate = <<>> /\ chain = <<>>
    /\ starts = 0 /\ crashes = 0 /\ faults = 0

Step(a) ==
    \/ TakeToken(a) \/ EnterGate(a) \/ Check(a) \/ ReadRemoved(a)
    \/ ReadOriginal(a) \/ WriteOriginalFindings(a) \/ WriteOriginalDocument(a)
    \/ VerifyOriginal(a) \/ OpenCorrection(a) \/ CloseCorrection(a)
    \/ ReadCurrent(a) \/ Scan(a) \/ WriteDocument(a) \/ WriteFindings(a)
    \/ OpenTransition(a) \/ Point(a) \/ Archive(a) \/ ArchiveFindings(a)
    \/ CloseTransition(a)

Recover == RecoverTransition \/ RecoverCorrection \/ CheckIntegrity

Next ==
    \/ \E a \in Operation : Start(a) \/ Fault(a)
    \/ \E a \in Actor : Step(a)
    \/ Crash \/ Recover

Spec == Init /\ [][Next]_vars

\* The event loop runs every promise that can go on; nothing else is fair.
Progress ==
    /\ \A a \in Actor : WF_vars(Step(a))
    /\ WF_vars(Recover)
FairSpec == Spec /\ Progress

-----------------------------------------------------------------------------
(* Properties *)

TypeOK ==
    /\ active \in SUBSET Artifact /\ activeFindings \in SUBSET Artifact
    /\ superseded \in SUBSET Artifact /\ supersededFindings \in SUBSET Artifact
    /\ current \in Entry
    /\ transitions \in SUBSET [id : JournalId, previous : Entry, target : Entry]
    /\ corrections \in SUBSET [id : JournalId, before : Artifact, content : Content]
    /\ original \in Content \cup {None} /\ originalFindings \in Content \cup {None}
    /\ mode \in {"open", "recovering", "blocked"}
    /\ pc \in [Actor -> Steps]
    /\ op \in [Actor -> Request]
    /\ gate \in Seq(Actor) /\ chain \in Seq(Actor)
    /\ starts \in Nat /\ crashes \in Nat /\ faults \in Nat

\* The manifest always points to an active artifact that is complete, at
\* every step of every transition, crash, repair and failed write: no reader
\* finds the current ledger missing or with a wrong content hash.
CurrentResolves == Readable(current)

\* What a transition has archived can be read back whole, so that it can be
\* restored, except while a journal is there to finish moving it.
SupersededRestorable ==
    \A x \in superseded : SnapshotIntact(x) \/ \E j \in transitions : j.previous = x

\* No ledger is current before the first ledger of its game is kept.
LedgerHasOriginal == IsDocument(current) => original # None

\* The findings kept with the first ledger are the ones it was found with.
OriginalComplete ==
    original # None =>
        originalFindings = (IF original \in WithFindings THEN original ELSE None)

\* What the workspace promises of the game: no artifact that was ever
\* complete is lost, and current only moves to a complete one.
Kept == {x \in active \cup superseded :
            x.content \in WithFindings => x \in activeFindings \cup supersededFindings}
Ledger == INSTANCE EvidenceLedger WITH head <- current, entries <- Kept
LedgerSpec == Ledger!Spec

\* The first ledger is written once, whoever saves later.
OriginalWrittenOnce == [][original # None => original' = original]_vars

\* A collection, hours after its target was fixed, replaces exactly the
\* manifest of that moment: edits made meanwhile are not overwritten.
SaveReplacesItsToken ==
    [][\A a \in Operation :
        pc[a] = "point" /\ op[a].kind \in CollectionKinds /\ current' # current
            => current = op[a].token]_vars

\* The cleanup after an import removes the ledger that was imported, never
\* one that took its place.
ImportRemovesItsLedger ==
    [][\A a \in Operation :
        pc[a] = "point" /\ op[a].kind = "import" /\ current' # current
            => IsDocument(current) /\ SameDocument(current.content, op[a].base.content)]_vars

\* A correction replaces the ledger its session was opened on: any other is
\* refused as stale.
CorrectionReplacesItsBase ==
    [][\A a \in Actor :
        pc[a] = "point" /\ op[a].kind = "correct" /\ current' # current
            => IsDocument(current) /\ SameDocument(current.content, op[a].base.content)]_vars

\* With nothing in flight the directory passes the integrity check of the
\* next startup.
QuietWorkspaceReopens ==
    mode = "open" /\ (\A a \in Operation : pc[a] \in {"idle", "target", "waiting", "gate"})
        => Sound /\ transitions = {} /\ corrections = {}

\* Startup refuses a workspace only for an artifact whose save was cut off
\* before its journal: one newer than all that ever was current.
BlockedOnlyByUnfinishedSave ==
    mode = "blocked" =>
        /\ transitions = {}
        /\ \A x \in active \ {current} :
            \A y \in superseded \cup ({current} \ {None}) : y.gen < x.gen

\* What is left behind, by requests that were answered or by a process that
\* died, lets the workspace open again.
WorkspaceReopens == QuietWorkspaceReopens /\ BlockedOnlyByUnfinishedSave

\* Every request is answered, whatever it waits for, unless the process dies, and
\* repair comes to an end: the workspace opens or says why it does not.
WorkEnds == <>[](mode # "recovering" /\ \A a \in Operation : pc[a] = "idle")

\* Saved a second time, by a request that looked for it before it was written.
SavedTwice(x) == \E y \in (active \cup superseded) \ {x} : y.content = x.content

\* Requests that write corrections may die at any step: the next startup takes up
\* what their journals say, and refuses the workspace only for an artifact cut off
\* between its two files, or saved under two generations.
CorrectionCrashRecovers ==
    mode = "blocked" => \E x \in active \ {current} : ~Intact(x) \/ SavedTwice(x)

\* A correction whose journal is on disk when the process dies is current at some
\* time before the workspace opens again: repair removes a journal only when its
\* ledger is current, and opens the workspace only when no journal is left.
JournaledCorrectionSurvives ==
    [][mode = "recovering" =>
        /\ \A j \in corrections \ corrections' : ContentOf(current) = j.content
        /\ mode' = "open" => corrections = {}]_vars

=============================================================================
