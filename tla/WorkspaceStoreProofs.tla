------------------------ MODULE WorkspaceStoreProofs ------------------------
(***************************************************************************)
(* Proofs about WorkspaceStore for every value of its constants: its       *)
(* invariant, and what follows from it, namely that the original is kept   *)
(* first, a collection overwrites no later edit, and the workspace         *)
(* implements EvidenceLedger.  The second part is about what it leaves     *)
(* behind.                                                                 *)
(***************************************************************************)
EXTENDS WorkspaceStore, TLAPS

(* The steps between the transition journal's creation and its removal. *)
Moving == {"point", "archive", "archiveFindings", "closeTransition"}

(* The steps that use the content to be saved. *)
Saving == {"original", "originalFindings", "originalDocument", "verify",
           "openCorrection", "read", "scan"}

(* A request carries what its next step needs. *)
WellFormed ==
    \A a \in Actor :
        /\ op[a].kind \in CorrectionKinds => op[a].base \in Artifact
        /\ op[a].kind \notin {"none", "import"} => op[a].content \in Content
        /\ pc[a] \in Saving => op[a].kind \notin {"none", "import"}
        /\ pc[a] \in {"target", "waiting", "gate", "check"} => op[a].kind # "none"
        /\ pc[a] = "openCorrection" => op[a].kind \in CorrectionKinds
        /\ pc[a] \in {"document", "findings"} => op[a].target \in Artifact
        /\ pc[a] \in {"archive", "archiveFindings"} => op[a].previous \in Artifact

(* Startup runs alone; a request in transition heads the game's chain. *)
Exclusive ==
    /\ mode = "open" => pc[Startup] = "idle"
    /\ mode # "open" => \A a \in Operation : pc[a] = "idle"
    /\ \A a \in Operation : pc[a] \in Moving => IsHead(chain, a)

(* What is being archived is not what the manifest points to. *)
Displacing ==
    \A a \in Actor :
        pc[a] \in {"archive", "archiveFindings"} => current # op[a].previous

IInv == TypeOK /\ WellFormed /\ Exclusive /\ Displacing /\ CurrentResolves

-----------------------------------------------------------------------------

\* The request and pc of one actor may change: what remains to be shown.
LEMMA ActorTypes ==
    ASSUME TypeOK, NEW a \in Actor, NEW step \in Steps, NEW request \in Request
    PROVE  /\ [pc EXCEPT ![a] = step] \in [Actor -> Steps]
           /\ [op EXCEPT ![a] = request] \in [Actor -> Request]
BY DEF TypeOK

\* An idle actor's request is a request.
LEMMA NoRequestType == NoRequest \in Request
BY DEF NoRequest, Request, Entry

\* A queue stays a queue, and its head keeps its place when another actor
\* joins or leaves it.
LEMMA QueueTypes ==
    ASSUME NEW q \in Seq(Actor), NEW a \in Actor
    PROVE  /\ Without(q, a) \in Seq(Actor)
           /\ Append(q, a) \in Seq(Actor)
           /\ \A b \in Actor \ {a} :
                 IsHead(q, b) => IsHead(Without(q, a), b) /\ IsHead(Append(q, a), b)
<1>1. Without(q, a) \in Seq(Actor)
    BY DEF Without, IsHead
<1>2. Append(q, a) \in Seq(Actor)
    OBVIOUS
<1>3. ASSUME NEW b \in Actor \ {a}, IsHead(q, b)
      PROVE  IsHead(Without(q, a), b) /\ IsHead(Append(q, a), b)
    <2>1. Without(q, a) = q
        BY <1>3 DEF Without, IsHead
    <2>2. Head(Append(q, a)) = Head(q) /\ Append(q, a) # <<>>
        BY <1>3 DEF IsHead
    <2> QED BY <1>3, <2>1, <2>2 DEF IsHead
<1> QED BY <1>1, <1>2, <1>3

\* An answer or an error leaves every part of the invariant as it is.
LEMMA LeaveKeeps ==
    ASSUME IInv, NEW a \in Actor, pc[a] # "idle", Leave(a),
           UNCHANGED <<active, activeFindings, current>>
    PROVE  /\ pc' \in [Actor -> Steps] /\ op' \in [Actor -> Request]
           /\ gate' \in Seq(Actor) /\ chain' \in Seq(Actor)
           /\ WellFormed' /\ Displacing' /\ CurrentResolves'
           /\ \A b \in Operation : pc'[b] \in Moving => IsHead(chain', b)
<1>1. pc' \in [Actor -> Steps] /\ op' \in [Actor -> Request]
    BY ActorTypes, NoRequestType DEF IInv, Leave, Goto, Update, Steps
<1>2. gate' \in Seq(Actor) /\ chain' \in Seq(Actor)
    BY QueueTypes DEF IInv, TypeOK, Leave
<1>3. /\ pc'[a] = "idle" /\ op'[a] = NoRequest
      /\ \A b \in Actor \ {a} : pc'[b] = pc[b] /\ op'[b] = op[b]
    BY DEF IInv, TypeOK, Leave, Goto, Update
<1>4. WellFormed'
    BY <1>3 DEF IInv, WellFormed, NoRequest, Saving, CorrectionKinds
<1>5. Displacing'
    BY <1>3 DEF IInv, Displacing
<1>6. CurrentResolves'
    BY DEF IInv, CurrentResolves, Readable, Intact
<1>7. \A b \in Operation : pc'[b] \in Moving => IsHead(chain', b)
    BY <1>3, QueueTypes DEF IInv, TypeOK, Exclusive, Leave, Moving, Actor
<1> QED BY <1>1, <1>2, <1>4, <1>5, <1>6, <1>7

\* A refused request changes only its own actor, and startup the mode.
LEMMA ThrowKeeps ==
    ASSUME IInv, NEW a \in Actor, pc[a] # "idle", Throw(a)
    PROVE  IInv'
<1>1. /\ Leave(a)
      /\ UNCHANGED <<active, activeFindings, superseded, supersededFindings, current,
                     transitions, corrections, original, originalFindings,
                     starts, crashes, faults>>
    BY DEF Throw, files, journals, originals, bounds
<1>2. TypeOK'
    BY <1>1, LeaveKeeps DEF IInv, TypeOK, Throw
<1>3. Exclusive'
    <2>1. pc'[a] = "idle" /\ \A b \in Actor \ {a} : pc'[b] = pc[b]
        BY <1>1 DEF IInv, TypeOK, Leave, Goto
    <2>2. mode' = "open" => pc'[Startup] = "idle"
        BY <2>1 DEF IInv, Exclusive, Throw, Actor
    <2>3. mode' # "open" => \A b \in Operation : pc'[b] = "idle"
        BY <2>1, ActorAssumption DEF IInv, Exclusive, Throw, Actor
    <2> QED BY <1>1, <2>2, <2>3, LeaveKeeps DEF Exclusive
<1> QED BY <1>1, <1>2, <1>3, LeaveKeeps DEF IInv

\* saveReady and saveQuarantine return to commitCorrection or to their caller.
LEMMA SavedKeeps ==
    ASSUME IInv, NEW a \in Actor, pc[a] \in {"read", "closeTransition"}, Saved(a),
           transitions' \subseteq transitions,
           UNCHANGED <<active, activeFindings, superseded, supersededFindings, current,
                       corrections, original, originalFindings, starts, crashes, faults>>
    PROVE  IInv'
<1>1. CASE op[a].correction = None
    <2>1. Leave(a) /\ mode' = mode
        BY <1>1 DEF Saved
    <2>2. TypeOK'
        BY <2>1, LeaveKeeps DEF IInv, TypeOK
    <2>3. Exclusive'
        BY <2>1, LeaveKeeps DEF IInv, TypeOK, Exclusive, Leave, Goto, Actor
    <2> QED BY <2>1, <2>2, <2>3, LeaveKeeps DEF IInv
<1>2. CASE op[a].correction # None
    <2>1. /\ pc' = [pc EXCEPT ![a] = "closeCorrection"] /\ chain' = Without(chain, a)
          /\ UNCHANGED <<op, gate, mode>>
        BY <1>2 DEF Saved, Goto
    <2>2. TypeOK'
        BY <2>1, ActorTypes, QueueTypes DEF IInv, TypeOK, Steps, WritingSteps
    <2>3. /\ pc'[a] = "closeCorrection"
          /\ \A b \in Actor \ {a} : pc'[b] = pc[b]
        BY <2>1 DEF IInv, TypeOK
    <2>4. WellFormed' /\ Displacing' /\ CurrentResolves'
        BY <2>1, <2>3 DEF IInv, WellFormed, Displacing, CurrentResolves, Readable,
                          Intact, Saving
    <2>5. Exclusive'
        BY <2>1, <2>3, QueueTypes DEF IInv, TypeOK, Exclusive, Moving, Actor
    <2> QED BY <2>2, <2>4, <2>5 DEF IInv
<1> QED BY <1>1, <1>2

\* A step that takes one actor on, outside the transition itself, and leaves
\* the active artifacts and the manifest alone.
LEMMA GotoKeeps ==
    ASSUME IInv, NEW a \in Actor,
           pc[a] # "idle" \/ (mode = "open" /\ a \in Operation),
           NEW step \in Steps \ (Moving \cup {"idle"}), NEW request \in Request,
           pc' = [pc EXCEPT ![a] = step], op' = [op EXCEPT ![a] = request],
           chain' \in {chain, Append(chain, a)},
           active \subseteq active', activeFindings \subseteq activeFindings',
           UNCHANGED <<current, mode>>,
           request.kind \in CorrectionKinds => request.base \in Artifact,
           request.kind \notin {"none", "import"} => request.content \in Content,
           step \in Saving => request.kind \notin {"none", "import"},
           step \in {"target", "waiting", "gate", "check"} => request.kind # "none",
           step = "openCorrection" => request.kind \in CorrectionKinds,
           step \in {"document", "findings"} => request.target \in Artifact
    PROVE  /\ pc' \in [Actor -> Steps] /\ op' \in [Actor -> Request]
           /\ chain' \in Seq(Actor)
           /\ WellFormed' /\ Exclusive' /\ Displacing' /\ CurrentResolves'
<1>1. /\ pc'[a] = step /\ op'[a] = request
      /\ \A b \in Actor \ {a} : pc'[b] = pc[b] /\ op'[b] = op[b]
    BY DEF IInv, TypeOK
<1>2. pc' \in [Actor -> Steps] /\ op' \in [Actor -> Request]
    BY DEF IInv, TypeOK
<1>0. chain \in Seq(Actor)
    BY DEF IInv, TypeOK
<1>3. /\ chain' \in Seq(Actor)
      /\ \A b \in Actor \ {a} : IsHead(chain, b) => IsHead(chain', b)
    <2>1. CASE chain' = chain
        BY <1>0, <2>1 DEF IsHead
    <2>2. CASE chain' = Append(chain, a)
        BY <1>0, <2>2, QueueTypes
    <2> QED BY <2>1, <2>2
<1>4. WellFormed'
    BY <1>1 DEF IInv, WellFormed, Moving
<1>5. Displacing'
    BY <1>1 DEF IInv, Displacing, Moving
<1>6. CurrentResolves'
    BY DEF IInv, CurrentResolves, Readable, Intact
<1>7. Exclusive'
    <2>1. mode = "open" => pc'[Startup] = "idle"
        BY <1>1, ActorAssumption DEF IInv, Exclusive, Actor
    <2>2. mode # "open" => \A b \in Operation : pc'[b] = "idle"
        BY <1>1, ActorAssumption DEF IInv, Exclusive, Actor
    <2>3. \A b \in Operation : pc'[b] \in Moving => IsHead(chain', b)
        BY <1>1, <1>3 DEF IInv, Exclusive, Actor
    <2> QED BY <2>1, <2>2, <2>3 DEF Exclusive
<1> QED BY <1>2, <1>3, <1>4, <1>5, <1>6, <1>7

-----------------------------------------------------------------------------
(* One lemma per action. *)

\* A request starts with the manifest it has seen and what it is to save.
LEMMA BeginKeeps ==
    ASSUME IInv, NEW a \in Operation, mode = "open", pc[a] = "idle",
           NEW kind \in AllKinds, NEW content \in Content \cup {None},
           NEW base \in Entry,
           kind \in CorrectionKinds => base \in Artifact,
           kind # "import" => content \in Content,
           Begin(a, kind, content, base), starts' = starts + 1,
           UNCHANGED <<files, current, journals, originals, mode, queues, crashes, faults>>
    PROVE  IInv'
<1> DEFINE request == [NoRequest EXCEPT !.kind = kind, !.content = content,
                                        !.base = base, !.token = current]
           step == CASE kind \in CollectionKinds -> "target"
                     [] kind = "import" -> "waiting"
                     [] OTHER -> "check"
<1>1. pc' = [pc EXCEPT ![a] = step] /\ op' = [op EXCEPT ![a] = request]
    BY DEF Begin, Update, Goto
<1>2. request \in Request
    BY DEF IInv, TypeOK, Request, NoRequest, Entry
<1>3. /\ request.kind = kind /\ request.content = content /\ request.base = base
      /\ kind # "none"
    BY DEF NoRequest, AllKinds, GatedKinds, CollectionKinds, CorrectionKinds
<1>4. step \in Steps \ (Moving \cup {"idle"}) /\ step \notin Saving
      /\ step \notin {"openCorrection", "document", "findings"}
    BY DEF Steps, Moving, Saving
<1> HIDE DEF request, step
<1>5. /\ pc' \in [Actor -> Steps] /\ op' \in [Actor -> Request]
      /\ chain' \in Seq(Actor)
      /\ WellFormed' /\ Exclusive' /\ Displacing' /\ CurrentResolves'
    BY <1>1, <1>2, <1>3, <1>4, GotoKeeps DEF files, queues, Actor
<1>6. TypeOK'
    BY <1>5 DEF IInv, TypeOK, files, journals, originals, queues
<1> QED BY <1>5, <1>6 DEF IInv

\* Start: collection, import, correction, restore and revision requests.
LEMMA StartKeeps ==
    ASSUME IInv, NEW a \in Operation, Start(a)
    PROVE  IInv'
<1>1. PICK kind \in Kinds, content \in Content \cup {None}, base \in Entry :
        /\ Begin(a, kind, content, base)
        /\ kind \in CorrectionKinds => base \in Artifact
        /\ kind # "import" => content \in Content
    <2>1. current \in Entry /\ superseded \subseteq Artifact
        BY DEF IInv, TypeOK
    <2>2. IsDocument(current) => current \in Artifact
        BY <2>1 DEF IsDocument, Entry
    <2> QED
        BY <2>1, <2>2 DEF Start, Content, Entry, CorrectionKinds, IsReady
<1>2. kind \in AllKinds
    BY KindsAssumption
<1> QED BY <1>1, <1>2, BeginKeeps DEF Start

\* TakeToken and EnterGate: the token of a collection, withGameOperation.
LEMMA EnterGateKeeps ==
    ASSUME IInv, NEW a \in Actor, TakeToken(a) \/ EnterGate(a)
    PROVE  IInv'
<1>1. PICK step \in {"waiting", "gate"}, request \in Request :
        /\ pc' = [pc EXCEPT ![a] = step] /\ op' = [op EXCEPT ![a] = request]
        /\ request.kind = op[a].kind /\ request.content = op[a].content
        /\ request.base = op[a].base
    <2>1. CASE TakeToken(a)
        <3> DEFINE request == [op[a] EXCEPT !.token = current]
        <3>1. pc' = [pc EXCEPT ![a] = "waiting"] /\ op' = [op EXCEPT ![a] = request]
            BY <2>1 DEF TakeToken, Update, Goto
        <3>2. /\ request \in Request /\ request.kind = op[a].kind
              /\ request.content = op[a].content /\ request.base = op[a].base
            BY DEF IInv, TypeOK, Request
        <3> QED BY <3>1, <3>2
    <2>2. CASE EnterGate(a)
        BY <2>2 DEF EnterGate, Goto, IInv, TypeOK
    <2> QED BY <2>1, <2>2
<1>2. /\ pc' \in [Actor -> Steps] /\ op' \in [Actor -> Request]
      /\ chain' \in Seq(Actor)
      /\ WellFormed' /\ Exclusive' /\ Displacing' /\ CurrentResolves'
    <2>1. /\ step \in Steps \ (Moving \cup {"idle"}) /\ step \notin Saving
          /\ step \notin {"openCorrection", "document", "findings"}
        BY DEF Steps, Moving, Saving
    <2>2. /\ op[a].kind \in CorrectionKinds => op[a].base \in Artifact
          /\ op[a].kind \notin {"none", "import"} => op[a].content \in Content
          /\ op[a].kind # "none" /\ pc[a] # "idle"
          /\ UNCHANGED <<active, activeFindings, current, mode, chain>>
        BY DEF IInv, WellFormed, TakeToken, EnterGate, files, queues
    <2> QED BY <1>1, <2>1, <2>2, GotoKeeps
<1>3. gate' \in Seq(Actor)
    <2>1. gate \in Seq(Actor) /\ gate' \in {gate, Append(gate, a)}
        BY DEF IInv, TypeOK, TakeToken, EnterGate, queues
    <2> QED BY <2>1
<1>4. TypeOK'
    BY <1>2, <1>3 DEF IInv, TypeOK, TakeToken, EnterGate, files, journals, originals, bounds
<1> QED BY <1>2, <1>4 DEF IInv

\* Check: the guard a request passes before it writes.
LEMMA CheckKeeps ==
    ASSUME IInv, NEW a \in Actor, Check(a)
    PROVE  IInv'
<1>1. CASE Throw(a)
    BY <1>1, ThrowKeeps DEF Check
<1>2. CASE ~Throw(a)
    <2>1. /\ pc' = [pc EXCEPT ![a] = AfterCheck(a)] /\ op' = [op EXCEPT ![a] = Checked(a)]
          /\ UNCHANGED <<files, current, journals, originals, mode, queues, bounds>>
          /\ Admissible(a) /\ pc[a] # "idle"
        BY <1>2 DEF Check, Goto, Update
    <2>2. /\ op[a] \in Request /\ op[a].kind # "none"
          /\ op[a].kind \in CorrectionKinds => op[a].base \in Artifact
          /\ op[a].kind \notin {"none", "import"} => op[a].content \in Content
        BY DEF IInv, TypeOK, WellFormed, Check
    <2>3. /\ Checked(a) \in Request /\ Checked(a).kind = op[a].kind
          /\ Checked(a).content = op[a].content
          /\ op[a].kind \in CorrectionKinds => Checked(a).base \in Artifact
        <3>1. CASE op[a].kind = "correct"
            <4>1. current \in Artifact
                BY <2>1, <3>1 DEF Admissible, IsDocument, CollectionKinds, IInv, TypeOK, Entry
            <4> QED BY <2>2, <3>1, <4>1 DEF Checked, Request, Entry
        <3>2. CASE op[a].kind # "correct"
            BY <2>2, <3>2 DEF Checked
        <3> QED BY <3>1, <3>2
    <2>4. /\ AfterCheck(a) \in Steps \ (Moving \cup {"idle"})
          /\ AfterCheck(a) \in Saving => op[a].kind # "import"
          /\ AfterCheck(a) \notin {"target", "waiting", "gate", "check", "openCorrection",
                                   "document", "findings"}
        BY DEF AfterCheck, Steps, Moving, Saving
    <2>5. /\ pc' \in [Actor -> Steps] /\ op' \in [Actor -> Request]
          /\ chain' \in Seq(Actor)
          /\ WellFormed' /\ Exclusive' /\ Displacing' /\ CurrentResolves'
        BY <2>1, <2>2, <2>3, <2>4, GotoKeeps DEF files, queues
    <2>6. TypeOK'
        BY <2>1, <2>5 DEF IInv, TypeOK, files, journals, originals, queues, bounds
    <2> QED BY <2>5, <2>6 DEF IInv
<1> QED BY <1>1, <1>2

\* One step ahead for an actor outside the transition: the common shape of
\* the remaining actions that keep the request's kind, content and base.
LEMMA AdvanceKeeps ==
    ASSUME IInv, NEW a \in Actor, pc[a] # "idle",
           NEW step \in Steps \ (Moving \cup {"idle"}), NEW request \in Request,
           pc' = [pc EXCEPT ![a] = step], op' = [op EXCEPT ![a] = request],
           chain' \in {chain, Append(chain, a)},
           active \subseteq active', activeFindings \subseteq activeFindings',
           UNCHANGED <<current, mode>>,
           request.kind = op[a].kind, request.base = op[a].base,
           request.content = op[a].content,
           step \in Saving => pc[a] \in Saving,
           step \notin {"target", "waiting", "gate", "check"},
           step = "openCorrection" => op[a].kind \in CorrectionKinds,
           step \in {"document", "findings"} => request.target \in Artifact
    PROVE  /\ pc' \in [Actor -> Steps] /\ op' \in [Actor -> Request]
           /\ chain' \in Seq(Actor)
           /\ WellFormed' /\ Exclusive' /\ Displacing' /\ CurrentResolves'
<1>1. /\ op[a].kind \in CorrectionKinds => op[a].base \in Artifact
      /\ op[a].kind \notin {"none", "import"} => op[a].content \in Content
      /\ pc[a] \in Saving => op[a].kind \notin {"none", "import"}
    BY DEF IInv, WellFormed
<1> QED BY <1>1, GotoKeeps

\* The fields a request fills in on its way keep it a request.
LEMMA RequestFields ==
    ASSUME IInv, NEW a \in Actor, NEW x \in Entry, NEW id \in JournalId
    PROVE  /\ op[a] \in Request
           /\ op = [op EXCEPT ![a] = op[a]]
           /\ [op[a] EXCEPT !.previous = x] \in Request
           /\ [op[a] EXCEPT !.target = x] \in Request
           /\ [op[a] EXCEPT !.journal = id] \in Request
           /\ [op[a] EXCEPT !.correction = id] \in Request
           /\ current \in Entry
BY DEF IInv, TypeOK, Request

\* ReadRemoved: removeImportedStaging chooses what to remove.
LEMMA ReadRemovedKeeps ==
    ASSUME IInv, NEW a \in Actor, ReadRemoved(a)
    PROVE  IInv'
<1>1. CASE Throw(a)
    BY <1>1, ThrowKeeps DEF ReadRemoved
<1>2. CASE ~Throw(a)
    <2> DEFINE request == [op[a] EXCEPT !.previous = current]
    <2>1. /\ pc' = [pc EXCEPT ![a] = "queued"] /\ op' = [op EXCEPT ![a] = request]
          /\ chain' = Append(chain, a) /\ pc[a] = "remove"
          /\ UNCHANGED <<files, current, journals, originals, mode, gate, bounds>>
        BY <1>2 DEF ReadRemoved, Update, Enqueue, Goto
    <2>2. /\ request \in Request /\ request.kind = op[a].kind
          /\ request.base = op[a].base /\ request.content = op[a].content
        BY DEF IInv, TypeOK, Request
    <2>3. /\ "queued" \in Steps \ (Moving \cup {"idle"}) /\ "queued" \notin Saving
        BY DEF Steps, WritingSteps, Moving, Saving
    <2> HIDE DEF request
    <2>4. /\ pc' \in [Actor -> Steps] /\ op' \in [Actor -> Request]
          /\ chain' \in Seq(Actor)
          /\ WellFormed' /\ Exclusive' /\ Displacing' /\ CurrentResolves'
        BY <2>1, <2>2, <2>3, AdvanceKeeps DEF files
    <2>5. TypeOK'
        BY <2>1, <2>4 DEF IInv, TypeOK, files, journals, originals, bounds
    <2> QED BY <2>4, <2>5 DEF IInv
<1> QED BY <1>1, <1>2

\* saveOriginalIfAbsent: the original and its findings.
LEMMA OriginalKeeps ==
    ASSUME IInv, NEW a \in Actor,
           \/ ReadOriginal(a) \/ WriteOriginalFindings(a) \/ WriteOriginalDocument(a)
           \/ VerifyOriginal(a)
    PROVE  IInv'
<1>0. CASE Throw(a)
    <2>1. pc[a] # "idle"
        BY DEF ReadOriginal, WriteOriginalFindings, WriteOriginalDocument, VerifyOriginal
    <2> QED BY <1>0, <2>1, ThrowKeeps
<1>1. ASSUME ~Throw(a)
      PROVE \E step \in {"originalFindings", "originalDocument", "verify", AfterOriginal(a)} :
               /\ pc' = [pc EXCEPT ![a] = step] /\ op' = [op EXCEPT ![a] = op[a]]
    BY <1>1, RequestFields DEF ReadOriginal, WriteOriginalFindings, WriteOriginalDocument,
                         VerifyOriginal, Goto, IInv, TypeOK
<1>2. CASE ~Throw(a)
    <2>1. PICK step \in {"originalFindings", "originalDocument", "verify", AfterOriginal(a)} :
             /\ pc' = [pc EXCEPT ![a] = step] /\ op' = [op EXCEPT ![a] = op[a]]
        BY <1>1, <1>2
    <2>2. /\ step \in Steps \ (Moving \cup {"idle"}) /\ pc[a] \in Saving
          /\ step = "openCorrection" => op[a].kind \in CorrectionKinds
          /\ step \notin {"target", "waiting", "gate", "check", "document", "findings"}
        BY DEF AfterOriginal, Steps, WritingSteps, Moving, Saving, ReadOriginal,
               WriteOriginalFindings, WriteOriginalDocument, VerifyOriginal
    <2>3. UNCHANGED <<files, current, journals, mode, queues, bounds>>
        BY <1>2 DEF ReadOriginal, WriteOriginalFindings, WriteOriginalDocument,
                    VerifyOriginal, originals
    <2>4. original' \in Content \cup {None} /\ originalFindings' \in Content \cup {None}
        <3>1. OriginalContent(a) \in Content \cup {None}
            BY DEF OriginalContent, IInv, TypeOK, WellFormed, Request, Artifact
        <3> QED
            BY <1>2, <3>1 DEF IInv, TypeOK, ReadOriginal, WriteOriginalFindings,
                        WriteOriginalDocument, VerifyOriginal, OriginalFindings, originals
    <2>5. /\ pc' \in [Actor -> Steps] /\ op' \in [Actor -> Request]
          /\ chain' \in Seq(Actor)
          /\ WellFormed' /\ Exclusive' /\ Displacing' /\ CurrentResolves'
        <3>1. op[a] \in Request
            BY DEF IInv, TypeOK
        <3>2. pc[a] # "idle"
            BY <2>2 DEF Saving
        <3> QED BY <2>1, <2>2, <2>3, <3>1, <3>2, AdvanceKeeps DEF files, queues
    <2>6. TypeOK'
        BY <2>3, <2>4, <2>5 DEF IInv, TypeOK, files, journals, queues, bounds
    <2> QED BY <2>5, <2>6 DEF IInv
<1> QED BY <1>0, <1>2

\* OpenCorrection: the correction journal is written.
LEMMA OpenCorrectionKeeps ==
    ASSUME IInv, NEW a \in Actor, OpenCorrection(a)
    PROVE  IInv'
<1>1. PICK id \in JournalId :
        /\ corrections' = corrections \cup
              {[id |-> id, before |-> op[a].base, content |-> op[a].content]}
        /\ op' = [op EXCEPT ![a] = [op[a] EXCEPT !.correction = id]]
    BY DEF OpenCorrection, Update
<1> DEFINE request == [op[a] EXCEPT !.correction = id]
<1>2. /\ request \in Request /\ request.kind = op[a].kind
      /\ request.base = op[a].base /\ request.content = op[a].content
    BY DEF IInv, TypeOK, Request
<1>3. /\ pc[a] = "openCorrection" /\ pc' = [pc EXCEPT ![a] = "read"]
      /\ UNCHANGED <<files, current, transitions, originals, mode, queues, bounds>>
    BY DEF OpenCorrection, Goto
<1>4. op[a].base \in Artifact /\ op[a].content \in Content
    BY <1>3 DEF IInv, WellFormed, CorrectionKinds
<1> HIDE DEF request
<1>5. /\ pc' \in [Actor -> Steps] /\ op' \in [Actor -> Request]
      /\ chain' \in Seq(Actor)
      /\ WellFormed' /\ Exclusive' /\ Displacing' /\ CurrentResolves'
    <2>1. "read" \in Steps \ (Moving \cup {"idle"}) /\ pc[a] \in Saving
        BY <1>3 DEF Steps, Moving, Saving
    <2>2. op' = [op EXCEPT ![a] = request]
        BY <1>1 DEF request
    <2> QED BY <1>2, <1>3, <2>1, <2>2, AdvanceKeeps DEF files, queues
<1>6. TypeOK'
    BY <1>1, <1>3, <1>4, <1>5 DEF IInv, TypeOK, files, originals, queues, bounds
<1> QED BY <1>5, <1>6 DEF IInv

\* CloseCorrection: the correction journal is removed.
LEMMA CloseCorrectionKeeps ==
    ASSUME IInv, NEW a \in Actor, CloseCorrection(a)
    PROVE  IInv'
<1>1. /\ pc[a] = "closeCorrection" /\ corrections' \subseteq corrections
      /\ UNCHANGED <<files, current, transitions, originals, mode, bounds>>
    BY DEF CloseCorrection, Unlinked
<1>2. CASE a # Startup
    <2>1. Leave(a)
        BY <1>2 DEF CloseCorrection
    <2>2. /\ pc' \in [Actor -> Steps] /\ op' \in [Actor -> Request]
          /\ gate' \in Seq(Actor) /\ chain' \in Seq(Actor)
          /\ WellFormed' /\ Displacing' /\ CurrentResolves'
          /\ \A b \in Operation : pc'[b] \in Moving => IsHead(chain', b)
        BY <1>1, <2>1, LeaveKeeps DEF files
    <2>3. TypeOK'
        BY <1>1, <2>2 DEF IInv, TypeOK, files, originals, bounds
    <2>4. Exclusive'
        BY <1>1, <2>1, <2>2 DEF IInv, TypeOK, Exclusive, Leave, Goto, Actor
    <2> QED BY <2>2, <2>3, <2>4 DEF IInv
<1>3. CASE a = Startup
    <2>1. /\ pc' = [pc EXCEPT ![a] = "corrections"] /\ op' = [op EXCEPT ![a] = NoRequest]
          /\ UNCHANGED queues
        BY <1>3 DEF CloseCorrection, Goto, Update
    <2>2. /\ "corrections" \in Steps \ (Moving \cup {"idle"}) /\ "corrections" \notin Saving
          /\ NoRequest.kind = "none" /\ "none" \notin CorrectionKinds
        BY DEF Steps, Moving, Saving, NoRequest, CorrectionKinds
    <2>3. /\ pc' \in [Actor -> Steps] /\ op' \in [Actor -> Request]
          /\ chain' \in Seq(Actor)
          /\ WellFormed' /\ Exclusive' /\ Displacing' /\ CurrentResolves'
        BY <1>1, <2>1, <2>2, NoRequestType, GotoKeeps DEF files, queues
    <2>4. TypeOK'
        BY <1>1, <2>1, <2>3 DEF IInv, TypeOK, files, originals, queues, bounds
    <2> QED BY <2>3, <2>4 DEF IInv
<1> QED BY <1>2, <1>3

\* ReadCurrent: the token is compared and the manifest remembered.
LEMMA ReadCurrentKeeps ==
    ASSUME IInv, NEW a \in Actor, ReadCurrent(a)
    PROVE  IInv'
<1>1. CASE Throw(a)
    BY <1>1, ThrowKeeps DEF ReadCurrent
<1>2. CASE Saved(a) /\ UNCHANGED <<files, current, journals, originals, bounds>>
    BY <1>2, SavedKeeps DEF ReadCurrent, files, journals, originals, bounds
<1>3. CASE /\ Update(a, [op[a] EXCEPT !.previous = current]) /\ Goto(a, "scan")
           /\ UNCHANGED <<files, current, journals, originals, mode, queues, bounds>>
    <2> DEFINE request == [op[a] EXCEPT !.previous = current]
    <2>1. /\ pc' = [pc EXCEPT ![a] = "scan"] /\ op' = [op EXCEPT ![a] = request]
          /\ pc[a] = "read"
        BY <1>3 DEF ReadCurrent, Update, Goto
    <2>2. /\ request \in Request /\ request.kind = op[a].kind
          /\ request.base = op[a].base /\ request.content = op[a].content
        BY DEF IInv, TypeOK, Request
    <2>3. "scan" \in Steps \ (Moving \cup {"idle"}) /\ pc[a] \in Saving
        BY <2>1 DEF Steps, Moving, Saving
    <2> HIDE DEF request
    <2>4. /\ pc' \in [Actor -> Steps] /\ op' \in [Actor -> Request]
          /\ chain' \in Seq(Actor)
          /\ WellFormed' /\ Exclusive' /\ Displacing' /\ CurrentResolves'
        BY <1>3, <2>1, <2>2, <2>3, AdvanceKeeps DEF files, queues
    <2>5. TypeOK'
        BY <1>3, <2>4 DEF IInv, TypeOK, files, journals, originals, queues, bounds
    <2> QED BY <2>4, <2>5 DEF IInv
<1> QED BY <1>1, <1>2, <1>3 DEF ReadCurrent

\* What a scan chooses as target holds the content to be saved.
LEMMA ScanChooses ==
    ASSUME IInv, NEW a \in Actor, Scan(a), ~Throw(a)
    PROVE  \E x \in Artifact, step \in {"queued", "document"} :
            /\ x.content = op[a].content
            /\ op' = [op EXCEPT ![a] = [op[a] EXCEPT !.target = x]]
            /\ pc' = [pc EXCEPT ![a] = step]
            /\ chain' \in {chain, Append(chain, a)}
            /\ UNCHANGED <<files, current, journals, originals, mode, gate, bounds>>
<1>1. op[a].content \in Content
    BY DEF IInv, WellFormed, Scan, Saving
<1>2. \A g \in 1 .. MaxGeneration :
        /\ [gen |-> g, content |-> op[a].content] \in Artifact
        /\ [gen |-> g, content |-> op[a].content].content = op[a].content
    BY <1>1 DEF Artifact
<1>3. \A x \in Reusable(a) : x \in Artifact /\ x.content = op[a].content
    BY DEF Reusable, IInv, TypeOK
<1> QED BY <1>2, <1>3 DEF Scan, Update, Goto, Enqueue, queues

\* Scan: an artifact is found again, or a new generation is chosen.
LEMMA ScanKeeps ==
    ASSUME IInv, NEW a \in Actor, Scan(a)
    PROVE  IInv'
<1>1. CASE Throw(a)
    BY <1>1, ThrowKeeps DEF Scan
<1>2. CASE ~Throw(a)
    <2>1. PICK x \in Artifact, step \in {"queued", "document"} :
            /\ op' = [op EXCEPT ![a] = [op[a] EXCEPT !.target = x]]
            /\ pc' = [pc EXCEPT ![a] = step]
            /\ chain' \in {chain, Append(chain, a)}
            /\ UNCHANGED <<files, current, journals, originals, mode, gate, bounds>>
        BY <1>2, ScanChooses
    <2> DEFINE request == [op[a] EXCEPT !.target = x]
    <2>2. /\ request \in Request /\ request.kind = op[a].kind /\ request.target = x
          /\ request.base = op[a].base /\ request.content = op[a].content
        BY DEF IInv, TypeOK, Request, Entry
    <2>3. /\ step \in Steps \ (Moving \cup {"idle"}) /\ step \notin Saving
          /\ step \notin {"target", "waiting", "gate", "check"} /\ pc[a] = "scan"
        BY DEF Steps, WritingSteps, Moving, Saving, Scan
    <2>4. op' = [op EXCEPT ![a] = request]
        BY <2>1
    <2> HIDE DEF request
    <2>5. /\ pc' \in [Actor -> Steps] /\ op' \in [Actor -> Request]
          /\ chain' \in Seq(Actor)
          /\ WellFormed' /\ Exclusive' /\ Displacing' /\ CurrentResolves'
        BY <2>1, <2>2, <2>3, <2>4, AdvanceKeeps DEF files, Saving
    <2>6. TypeOK'
        BY <2>1, <2>5 DEF IInv, TypeOK, files, journals, originals, bounds
    <2> QED BY <2>5, <2>6 DEF IInv
<1> QED BY <1>1, <1>2

\* The two files of a new artifact are written; the manifest waits.
LEMMA WriteArtifactKeeps ==
    ASSUME IInv, NEW a \in Actor, WriteDocument(a) \/ WriteFindings(a)
    PROVE  IInv'
<1>1. PICK step \in {"findings", "queued"} :
        /\ pc' = [pc EXCEPT ![a] = step] /\ op' = [op EXCEPT ![a] = op[a]]
        /\ chain' \in {chain, Append(chain, a)}
    BY DEF WriteDocument, WriteFindings, Goto, Enqueue, IInv, TypeOK
<1>2. op[a].target \in Artifact /\ op[a] \in Request
    BY DEF IInv, TypeOK, WellFormed, WriteDocument, WriteFindings
<1>3. /\ active \subseteq active' /\ active' \subseteq active \cup {op[a].target}
      /\ activeFindings \subseteq activeFindings'
      /\ activeFindings' \subseteq activeFindings \cup {op[a].target}
      /\ UNCHANGED <<superseded, supersededFindings, current, journals, originals,
                     mode, gate, bounds>>
    BY DEF WriteDocument, WriteFindings
<1>4. /\ step \in Steps \ (Moving \cup {"idle"}) /\ step \notin Saving
      /\ step \notin {"target", "waiting", "gate", "check", "openCorrection"}
      /\ pc[a] # "idle"
    BY DEF Steps, WritingSteps, Moving, Saving, WriteDocument, WriteFindings
<1>5. /\ pc' \in [Actor -> Steps] /\ op' \in [Actor -> Request]
      /\ chain' \in Seq(Actor)
      /\ WellFormed' /\ Exclusive' /\ Displacing' /\ CurrentResolves'
    BY <1>1, <1>2, <1>3, <1>4, AdvanceKeeps
<1>6. TypeOK'
    BY <1>2, <1>3, <1>5 DEF IInv, TypeOK, journals, originals, bounds
<1> QED BY <1>5, <1>6 DEF IInv

-----------------------------------------------------------------------------
(* The transition: one actor at a time. *)

\* transitionCurrent runs the transitions of a game one after another, and
\* startup before all requests: at most one actor is inside a transition.
LEMMA MovesAlone ==
    ASSUME IInv, NEW a \in Actor, NEW b \in Actor \ {a},
           pc[a] \in Moving \/ (pc[a] = "queued" /\ IsHead(chain, a))
    PROVE  pc[b] \notin Moving
<1>1. Moving \cap {"idle", "queued"} = {}
    BY DEF Moving
<1>2. CASE a \in Operation /\ b \in Operation
    BY <1>1, <1>2 DEF IInv, Exclusive, IsHead
<1>3. CASE a = Startup \/ b = Startup
    BY <1>1, <1>3, ActorAssumption DEF IInv, Exclusive, Actor
<1> QED BY <1>2, <1>3 DEF Actor

\* A step inside the transition, or into it.
LEMMA MoveKeeps ==
    ASSUME IInv, NEW a \in Actor,
           \/ pc[a] \in Moving
           \/ pc[a] = "queued" /\ IsHead(chain, a)
           \/ a = Startup /\ pc[a] = "transitions",
           NEW step \in Moving, NEW request \in Request,
           pc' = [pc EXCEPT ![a] = step], op' = [op EXCEPT ![a] = request],
           UNCHANGED <<mode, queues>>,
           request.kind \in CorrectionKinds => request.base \in Artifact,
           request.kind \notin {"none", "import"} => request.content \in Content,
           step \in {"archive", "archiveFindings"} => request.previous \in Artifact
    PROVE  /\ pc' \in [Actor -> Steps] /\ op' \in [Actor -> Request]
           /\ WellFormed' /\ Exclusive'
<1>1. /\ pc'[a] = step /\ op'[a] = request
      /\ \A b \in Actor \ {a} : pc'[b] = pc[b] /\ op'[b] = op[b]
    BY DEF IInv, TypeOK
<1>2. step \in Steps /\ step \notin Saving /\ step # "idle"
      /\ step \notin {"target", "waiting", "gate", "check", "openCorrection", "document", "findings"}
    BY DEF Moving, Steps, WritingSteps, Saving
<1>3. pc' \in [Actor -> Steps] /\ op' \in [Actor -> Request]
    BY <1>2 DEF IInv, TypeOK
<1>4. WellFormed'
    BY <1>1, <1>2 DEF IInv, WellFormed
<1>5. pc[a] # "idle"
    BY DEF Moving
<1>6. Exclusive'
    <2>1. mode = "open" => pc'[Startup] = "idle"
        BY <1>1, <1>5, ActorAssumption DEF IInv, Exclusive, Actor
    <2>2. mode # "open" => \A b \in Operation : pc'[b] = "idle"
        BY <1>1, <1>5, ActorAssumption DEF IInv, Exclusive, Actor
    <2>3. \A b \in Operation : pc'[b] \in Moving => IsHead(chain, b)
        BY <1>1, ActorAssumption DEF IInv, Exclusive, Actor
    <2> QED BY <2>1, <2>2, <2>3 DEF Exclusive, queues
<1> QED BY <1>3, <1>4, <1>6

\* With the manifest and its artifact left alone, the other two parts follow.
LEMMA PointerKeeps ==
    ASSUME IInv, NEW a \in Actor, NEW x \in Artifact, current # x,
           \A b \in Actor \ {a} : pc'[b] = pc[b] /\ op'[b] = op[b],
           pc'[a] \in {"archive", "archiveFindings"} => op'[a].previous = x,
           active \ {x} \subseteq active', activeFindings \ {x} \subseteq activeFindings',
           UNCHANGED current
    PROVE  Displacing' /\ CurrentResolves'
<1>1. Displacing'
    BY DEF IInv, Displacing
<1>2. CurrentResolves'
    BY DEF IInv, CurrentResolves, Readable, Intact
<1> QED BY <1>1, <1>2

\* OpenTransition: the transition journal is written.
LEMMA OpenTransitionKeeps ==
    ASSUME IInv, NEW a \in Actor, OpenTransition(a)
    PROVE  IInv'
<1>1. CASE Throw(a)
    BY <1>1, ThrowKeeps DEF OpenTransition
<1>2. CASE ~Throw(a)
    <2>1. PICK id \in JournalId :
            /\ transitions' = transitions \cup
                {[id |-> id, previous |-> op[a].previous, target |-> op[a].target]}
            /\ op' = [op EXCEPT ![a] = [op[a] EXCEPT !.journal = id]]
            /\ pc' = [pc EXCEPT ![a] = "point"]
            /\ UNCHANGED <<files, current, corrections, originals, mode, queues, bounds>>
        BY <1>2 DEF OpenTransition, Update, Goto
    <2> DEFINE request == [op[a] EXCEPT !.journal = id]
    <2>2. /\ request \in Request /\ request.kind = op[a].kind
          /\ request.base = op[a].base /\ request.content = op[a].content
          /\ op[a].previous \in Entry /\ op[a].target \in Entry
        BY DEF IInv, TypeOK, Request
    <2>3. "point" \in Moving
        BY DEF Moving
    <2>4. /\ op[a].kind \in CorrectionKinds => op[a].base \in Artifact
          /\ op[a].kind \notin {"none", "import"} => op[a].content \in Content
        BY DEF IInv, WellFormed
    <2>5. op' = [op EXCEPT ![a] = request]
        BY <2>1
    <2> HIDE DEF request
    <2>6. /\ pc' \in [Actor -> Steps] /\ op' \in [Actor -> Request]
          /\ WellFormed' /\ Exclusive'
        BY <2>1, <2>2, <2>3, <2>4, <2>5, MoveKeeps DEF OpenTransition
    <2>7. Displacing' /\ CurrentResolves'
        <3>1. /\ pc'[a] = "point"
              /\ \A b \in Actor \ {a} : pc'[b] = pc[b] /\ op'[b] = op[b]
            BY <2>1 DEF IInv, TypeOK
        <3>2. Displacing'
            BY <2>1, <3>1 DEF IInv, Displacing
        <3>3. CurrentResolves'
            BY <2>1 DEF IInv, CurrentResolves, Readable, Intact, files
        <3> QED BY <3>2, <3>3
    <2>8. TypeOK'
        BY <2>1, <2>2, <2>6 DEF IInv, TypeOK, files, originals, queues, bounds
    <2> QED BY <2>6, <2>7, <2>8 DEF IInv
<1> QED BY <1>1, <1>2

\* Point: the manifest is replaced, after its target was read once more.
LEMMA PointKeeps ==
    ASSUME IInv, NEW a \in Actor, Point(a)
    PROVE  IInv'
<1>1. CASE Throw(a)
    BY <1>1, ThrowKeeps DEF Point
<1>2. CASE ~Throw(a)
    <2>1. /\ pc[a] = "point" /\ Readable(op[a].target) /\ current' = op[a].target
          /\ pc' = [pc EXCEPT ![a] = AfterPoint(op[a])] /\ op' = [op EXCEPT ![a] = op[a]]
          /\ UNCHANGED <<files, journals, originals, mode, op, queues, bounds>>
        BY <1>2 DEF Point, Goto, IInv, TypeOK
    <2>2. /\ op[a] \in Request /\ op[a].previous \in Entry /\ op[a].target \in Entry
          /\ op[a].kind \in CorrectionKinds => op[a].base \in Artifact
          /\ op[a].kind \notin {"none", "import"} => op[a].content \in Content
        BY DEF IInv, TypeOK, WellFormed, Request
    <2>3. /\ AfterPoint(op[a]) \in {"archive", "closeTransition"}
          /\ AfterPoint(op[a]) = "archive" =>
                op[a].previous \in Artifact /\ op[a].previous # op[a].target
        BY <2>2 DEF AfterPoint, Entry
    <2>4. /\ pc' \in [Actor -> Steps] /\ op' \in [Actor -> Request]
          /\ WellFormed' /\ Exclusive'
        BY <2>1, <2>2, <2>3, MoveKeeps DEF Moving
    <2>5. Displacing'
        <3>1. \A b \in Actor \ {a} : pc'[b] \notin Moving
            BY <2>1, MovesAlone DEF IInv, TypeOK, Moving
        <3>2. pc'[a] = AfterPoint(op[a])
            BY <2>1 DEF IInv, TypeOK
        <3> QED BY <2>1, <2>3, <3>1, <3>2 DEF Displacing, Moving
    <2>6. CurrentResolves'
        BY <2>1 DEF CurrentResolves, Readable, Intact, files
    <2>7. TypeOK'
        BY <2>1, <2>2, <2>4 DEF IInv, TypeOK, files, journals, originals, queues, bounds
    <2> QED BY <2>4, <2>5, <2>6, <2>7 DEF IInv
<1> QED BY <1>1, <1>2

\* Archive and ArchiveFindings: what was displaced leaves active/.
LEMMA ArchiveKeeps ==
    ASSUME IInv, NEW a \in Actor, Archive(a) \/ ArchiveFindings(a)
    PROVE  IInv'
<1>1. CASE Throw(a)
    <2>1. pc[a] # "idle"
        BY DEF Archive, ArchiveFindings
    <2> QED BY <1>1, <2>1, ThrowKeeps
<1>2. CASE ~Throw(a)
    <2> DEFINE x == op[a].previous
    <2>1. PICK step \in {"archiveFindings", "closeTransition"} :
            pc' = [pc EXCEPT ![a] = step] /\ op' = [op EXCEPT ![a] = op[a]]
        BY <1>2 DEF Archive, ArchiveFindings, AfterArchive, Goto, IInv, TypeOK
    <2>2. /\ pc[a] \in {"archive", "archiveFindings"}
          /\ active \ {x} \subseteq active' /\ active' \subseteq active
          /\ activeFindings \ {x} \subseteq activeFindings'
          /\ activeFindings' \subseteq activeFindings
          /\ superseded' \subseteq superseded \cup {x}
          /\ supersededFindings' \subseteq supersededFindings \cup {x}
          /\ UNCHANGED <<current, journals, originals, mode, op, queues, bounds>>
        BY <1>2 DEF Archive, ArchiveFindings, Displaced, Moved
    <2>3. /\ x \in Artifact /\ current # x /\ op[a] \in Request
          /\ op[a].kind \in CorrectionKinds => op[a].base \in Artifact
          /\ op[a].kind \notin {"none", "import"} => op[a].content \in Content
        BY <2>2 DEF IInv, TypeOK, WellFormed, Displacing
    <2>4. /\ pc' \in [Actor -> Steps] /\ op' \in [Actor -> Request]
          /\ WellFormed' /\ Exclusive'
        BY <2>1, <2>2, <2>3, MoveKeeps DEF Moving
    <2>5. Displacing' /\ CurrentResolves'
        <3>1. /\ op'[a] = op[a]
              /\ \A b \in Actor \ {a} : pc'[b] = pc[b] /\ op'[b] = op[b]
            BY <2>1 DEF IInv, TypeOK
        <3> HIDE DEF x
        <3>2. op'[a].previous = x
            BY <3>1 DEF x
        <3> QED BY <2>2, <2>3, <3>1, <3>2, PointerKeeps
    <2>6. TypeOK'
        BY <2>2, <2>3, <2>4 DEF IInv, TypeOK, journals, originals, queues, bounds
    <2> QED BY <2>4, <2>5, <2>6 DEF IInv
<1> QED BY <1>1, <1>2

\* CloseTransition: the transition journal is removed.
LEMMA CloseTransitionKeeps ==
    ASSUME IInv, NEW a \in Actor, CloseTransition(a)
    PROVE  IInv'
<1>1. /\ pc[a] = "closeTransition" /\ transitions' \subseteq transitions
      /\ UNCHANGED <<files, current, corrections, originals, bounds>>
    BY DEF CloseTransition, Unlinked
<1>2. CASE Saved(a)
    BY <1>1, <1>2, SavedKeeps DEF files, originals, bounds
<1>3. CASE ~Saved(a)
    <2>1. /\ pc' = [pc EXCEPT ![a] = "transitions"] /\ op' = [op EXCEPT ![a] = NoRequest]
          /\ UNCHANGED <<mode, queues>>
        BY <1>3 DEF CloseTransition, Goto, Update
    <2>2. /\ "transitions" \in Steps \ (Moving \cup {"idle"}) /\ "transitions" \notin Saving
          /\ NoRequest.kind = "none" /\ "none" \notin CorrectionKinds
        BY DEF Steps, Moving, Saving, NoRequest, CorrectionKinds
    <2>3. /\ pc' \in [Actor -> Steps] /\ op' \in [Actor -> Request]
          /\ chain' \in Seq(Actor)
          /\ WellFormed' /\ Exclusive' /\ Displacing' /\ CurrentResolves'
        BY <1>1, <2>1, <2>2, NoRequestType, GotoKeeps DEF files, queues
    <2>4. TypeOK'
        BY <1>1, <2>1, <2>3 DEF IInv, TypeOK, files, originals, queues, bounds
    <2> QED BY <2>3, <2>4 DEF IInv
<1> QED BY <1>2, <1>3

\* A failed write ends its request as an error does.
LEMMA FaultKeeps ==
    ASSUME IInv, NEW a \in Operation, Fault(a)
    PROVE  IInv'
<1>1. /\ a \in Actor /\ pc[a] # "idle" /\ Leave(a) /\ faults' = faults + 1
      /\ UNCHANGED <<active, activeFindings, superseded, supersededFindings, current,
                     transitions, corrections, original, originalFindings, mode,
                     starts, crashes>>
    BY DEF Fault, Actor, WritingSteps, files, journals, originals
<1>2. TypeOK'
    BY <1>1, LeaveKeeps DEF IInv, TypeOK
<1>3. Exclusive'
    BY <1>1, LeaveKeeps DEF IInv, TypeOK, Exclusive, Leave, Goto, Actor
<1> QED BY <1>1, <1>2, <1>3, LeaveKeeps DEF IInv

-----------------------------------------------------------------------------
(* Crash and repair. *)

\* A crash leaves the files and empties the memory.
LEMMA CrashKeeps ==
    ASSUME IInv, Crash
    PROVE  IInv'
<1>1. /\ pc' = [a \in Actor |-> IF a = Startup THEN "transitions" ELSE "idle"]
      /\ op' = [a \in Actor |-> NoRequest]
      /\ gate' = <<>> /\ chain' = <<>> /\ mode' = "recovering"
      /\ crashes' = crashes + 1
      /\ UNCHANGED <<files, current, journals, originals, starts, faults>>
    BY DEF Crash
<1>2. TypeOK'
    <2>1. pc' \in [Actor -> Steps] /\ op' \in [Actor -> Request]
        BY <1>1, NoRequestType DEF Steps
    <2>2. gate' \in Seq(Actor) /\ chain' \in Seq(Actor)
        BY <1>1
    <2> QED BY <1>1, <2>1, <2>2 DEF IInv, TypeOK, files, journals, originals
<1>3. \A a \in Actor : pc'[a] \in {"idle", "transitions"} /\ op'[a] = NoRequest
    BY <1>1
<1>4. WellFormed'
    BY <1>3 DEF WellFormed, NoRequest, Saving, CorrectionKinds
<1>5. Exclusive'
    <2>1. \A a \in Operation : pc'[a] = "idle"
        BY <1>1, ActorAssumption DEF Actor
    <2> QED BY <1>1, <2>1 DEF Exclusive, Moving
<1>6. Displacing'
    BY <1>3 DEF Displacing
<1>7. CurrentResolves'
    BY <1>1 DEF IInv, CurrentResolves, Readable, Intact, files
<1> QED BY <1>2, <1>4, <1>5, <1>6, <1>7 DEF IInv

\* Startup takes up a journalled transition, or goes on to the corrections.
LEMMA RecoverTransitionKeeps ==
    ASSUME IInv, RecoverTransition
    PROVE  IInv'
<1>1. /\ pc[Startup] = "transitions" /\ Startup \in Actor
      /\ UNCHANGED <<active, activeFindings, superseded, supersededFindings, current,
                     transitions, corrections, original, originalFindings, mode,
                     gate, chain, starts, crashes, faults>>
    BY DEF RecoverTransition, Actor, files, journals, originals, queues, bounds
<1>2. CASE \E j \in transitions :
            /\ Update(Startup, [NoRequest EXCEPT !.previous = j.previous,
                                    !.target = j.target, !.journal = j.id])
            /\ Goto(Startup, "point")
    <2>1. PICK j \in transitions :
            /\ op' = [op EXCEPT ![Startup] =
                  [NoRequest EXCEPT !.previous = j.previous,
                                    !.target = j.target, !.journal = j.id]]
            /\ pc' = [pc EXCEPT ![Startup] = "point"]
        BY <1>2 DEF Update, Goto
    <2> DEFINE request == [NoRequest EXCEPT !.previous = j.previous,
                                    !.target = j.target, !.journal = j.id]
    <2>2. j.previous \in Entry /\ j.target \in Entry /\ j.id \in JournalId
        BY DEF IInv, TypeOK
    <2>3. request \in Request /\ request.kind = "none"
        BY <2>2 DEF NoRequest, Request, Entry
    <2>4. op' = [op EXCEPT ![Startup] = request]
        BY <2>1
    <2>5. "point" \in Moving /\ "none" \notin CorrectionKinds
        BY DEF Moving, CorrectionKinds
    <2> HIDE DEF request
    <2>6. /\ pc' \in [Actor -> Steps] /\ op' \in [Actor -> Request]
          /\ WellFormed' /\ Exclusive'
        BY <1>1, <2>1, <2>3, <2>4, <2>5, MoveKeeps DEF queues
    <2>7. \A a \in Actor : pc'[a] \in {"archive", "archiveFindings"} =>
                pc[a] = pc'[a] /\ op[a] = op'[a]
        BY <2>1, <2>4 DEF IInv, TypeOK
    <2>8. Displacing'
        BY <1>1, <2>7 DEF IInv, Displacing
    <2>9. CurrentResolves'
        BY <1>1 DEF IInv, CurrentResolves, Readable, Intact
    <2>10. TypeOK'
        BY <1>1, <2>6 DEF IInv, TypeOK
    <2> QED BY <2>6, <2>8, <2>9, <2>10 DEF IInv
<1>3. CASE Goto(Startup, "corrections") /\ UNCHANGED op
    <2>1. /\ pc' = [pc EXCEPT ![Startup] = "corrections"]
          /\ op' = [op EXCEPT ![Startup] = op[Startup]]
          /\ op[Startup] \in Request
        BY <1>1, <1>3 DEF Goto, IInv, TypeOK
    <2>2. /\ "corrections" \in Steps \ (Moving \cup {"idle"})
          /\ "corrections" \notin Saving
        BY DEF Steps, Moving, Saving
    <2>3. /\ op[Startup].kind \in CorrectionKinds => op[Startup].base \in Artifact
          /\ op[Startup].kind \notin {"none", "import"} => op[Startup].content \in Content
        BY <1>1 DEF IInv, WellFormed
    <2>4. /\ pc' \in [Actor -> Steps] /\ op' \in [Actor -> Request]
          /\ WellFormed' /\ Exclusive' /\ Displacing' /\ CurrentResolves'
        BY <1>1, <2>1, <2>2, <2>3, GotoKeeps
    <2>5. TypeOK'
        BY <1>1, <2>4 DEF IInv, TypeOK
    <2> QED BY <2>4, <2>5 DEF IInv
<1> QED BY <1>2, <1>3 DEF RecoverTransition

\* Startup replays a correction from its journal, or goes on to the check.
LEMMA RecoverCorrectionKeeps ==
    ASSUME IInv, RecoverCorrection
    PROVE  IInv'
<1>1. /\ pc[Startup] = "corrections" /\ Startup \in Actor
      /\ UNCHANGED <<active, activeFindings, superseded, supersededFindings, current,
                     transitions, corrections, original, originalFindings, mode,
                     gate, chain, starts, crashes, faults>>
    BY DEF RecoverCorrection, Actor, files, journals, originals, queues, bounds
<1>2. PICK step \in {"original", "integrity"}, request \in Request :
        /\ op' = [op EXCEPT ![Startup] = request]
        /\ pc' = [pc EXCEPT ![Startup] = step]
        /\ request.kind \in CorrectionKinds => request.base \in Artifact
        /\ request.kind \notin {"none", "import"} => request.content \in Content
        /\ step = "original" => request.kind = "correct"
    <2>1. CASE \E j \in corrections :
                Update(Startup, Replayed(j)) /\ Goto(Startup, "original")
        <3>1. PICK j \in corrections :
                Update(Startup, Replayed(j)) /\ Goto(Startup, "original")
            BY <2>1
        <3>2. j.before \in Artifact /\ j.content \in Content /\ j.id \in JournalId
            BY DEF IInv, TypeOK
        <3>3. /\ Replayed(j) \in Request /\ Replayed(j).kind = "correct"
              /\ Replayed(j).base = j.before /\ Replayed(j).content = j.content
            BY <3>2 DEF Replayed, NoRequest, Request, Entry, AllKinds, CorrectionKinds
        <3> QED BY <3>1, <3>2, <3>3 DEF Update, Goto
    <2>2. CASE Goto(Startup, "integrity") /\ UNCHANGED op
        <3>1. op' = [op EXCEPT ![Startup] = op[Startup]] /\ op[Startup] \in Request
            BY <1>1, <2>2 DEF IInv, TypeOK
        <3>2. /\ op[Startup].kind \in CorrectionKinds => op[Startup].base \in Artifact
              /\ op[Startup].kind \notin {"none", "import"} => op[Startup].content \in Content
            BY <1>1 DEF IInv, WellFormed
        <3> QED BY <2>2, <3>1, <3>2 DEF Goto
    <2> QED BY <2>1, <2>2 DEF RecoverCorrection
<1>3. /\ step \in Steps \ (Moving \cup {"idle"})
      /\ step \in Saving => step = "original"
      /\ step \notin {"target", "waiting", "gate", "check", "openCorrection", "document", "findings"}
    BY DEF Steps, Moving, Saving
<1>4. /\ pc' \in [Actor -> Steps] /\ op' \in [Actor -> Request]
      /\ WellFormed' /\ Exclusive' /\ Displacing' /\ CurrentResolves'
    BY <1>1, <1>2, <1>3, GotoKeeps
<1>5. TypeOK'
    BY <1>1, <1>4 DEF IInv, TypeOK
<1> QED BY <1>4, <1>5 DEF IInv

\* The integrity check opens the workspace or closes it.
LEMMA CheckIntegrityKeeps ==
    ASSUME IInv, CheckIntegrity
    PROVE  IInv'
<1>1. /\ pc[Startup] = "integrity" /\ Startup \in Actor
      /\ mode' \in {"open", "blocked"}
      /\ pc' = [pc EXCEPT ![Startup] = "idle"]
      /\ UNCHANGED <<active, activeFindings, superseded, supersededFindings, current,
                     transitions, corrections, original, originalFindings, op,
                     gate, chain, starts, crashes, faults>>
    BY DEF CheckIntegrity, Goto, Actor, files, journals, originals, queues, bounds
<1>2. /\ pc'[Startup] = "idle"
      /\ \A b \in Operation : pc'[b] = pc[b] /\ pc[b] = "idle"
    BY <1>1, ActorAssumption DEF IInv, TypeOK, Exclusive, Actor
<1>3. TypeOK'
    BY <1>1 DEF IInv, TypeOK, Steps
<1>4. \A a \in Actor : pc'[a] = "idle"
    BY <1>2 DEF Actor
<1>5. WellFormed'
    BY <1>1, <1>4 DEF IInv, WellFormed, Saving
<1>6. Exclusive' /\ Displacing'
    BY <1>1, <1>2, <1>4 DEF Exclusive, Displacing, Moving
<1>7. CurrentResolves'
    BY <1>1 DEF IInv, CurrentResolves, Readable, Intact
<1> QED BY <1>3, <1>5, <1>6, <1>7 DEF IInv

-----------------------------------------------------------------------------
(* The invariant *)

\* A new or settled workspace satisfies the invariant.
LEMMA InitKeeps == Init => IInv
<1> SUFFICES ASSUME Init PROVE IInv
    OBVIOUS
<1>1. PICK x \in Entry :
        /\ current = x /\ active = {x} \ {None}
        /\ activeFindings = {y \in active : y.content \in WithFindings}
        /\ original = IF IsDocument(x) THEN x.content ELSE None
        /\ originalFindings = IF original \in WithFindings THEN original ELSE None
    BY DEF Init
<1>2. active \in SUBSET Artifact /\ activeFindings \in SUBSET Artifact
    BY <1>1 DEF Entry
<1>3. original \in Content \cup {None} /\ originalFindings \in Content \cup {None}
    BY <1>1 DEF IsDocument, Content
<1>4. pc \in [Actor -> Steps] /\ op \in [Actor -> Request]
    BY NoRequestType DEF Init, Steps
<1>5. TypeOK
    BY <1>1, <1>2, <1>3, <1>4 DEF Init, TypeOK
<1>6. \A a \in Actor : pc[a] = "idle" /\ op[a] = NoRequest
    BY DEF Init
<1>7. WellFormed /\ Exclusive /\ Displacing
    BY <1>6 DEF Init, WellFormed, Exclusive, Displacing, NoRequest, Saving,
                CorrectionKinds, Moving, Actor
<1>8. CurrentResolves
    BY <1>1 DEF CurrentResolves, Readable, Intact
<1> QED BY <1>5, <1>7, <1>8 DEF IInv

\* Every step of the workspace keeps the invariant.
LEMMA NextKeeps == IInv /\ [Next]_vars => IInv'
<1> SUFFICES ASSUME IInv, [Next]_vars PROVE IInv'
    OBVIOUS
<1>1. ASSUME NEW a \in Operation, Start(a) PROVE IInv'
    BY <1>1, StartKeeps
<1>2. ASSUME NEW a \in Operation, Fault(a) PROVE IInv'
    BY <1>2, FaultKeeps
<1>3. ASSUME NEW a \in Actor, Step(a) PROVE IInv'
    <2>1. CASE TakeToken(a) \/ EnterGate(a)  BY <2>1, EnterGateKeeps
    <2>2. CASE Check(a)  BY <2>2, CheckKeeps
    <2>3. CASE ReadRemoved(a)  BY <2>3, ReadRemovedKeeps
    <2>4. CASE \/ ReadOriginal(a) \/ WriteOriginalFindings(a) \/ WriteOriginalDocument(a)
               \/ VerifyOriginal(a)
        BY <2>4, OriginalKeeps
    <2>5. CASE OpenCorrection(a)  BY <2>5, OpenCorrectionKeeps
    <2>6. CASE CloseCorrection(a)  BY <2>6, CloseCorrectionKeeps
    <2>7. CASE ReadCurrent(a)  BY <2>7, ReadCurrentKeeps
    <2>8. CASE Scan(a)  BY <2>8, ScanKeeps
    <2>9. CASE WriteDocument(a) \/ WriteFindings(a)  BY <2>9, WriteArtifactKeeps
    <2>10. CASE OpenTransition(a)  BY <2>10, OpenTransitionKeeps
    <2>11. CASE Point(a)  BY <2>11, PointKeeps
    <2>12. CASE Archive(a) \/ ArchiveFindings(a)  BY <2>12, ArchiveKeeps
    <2>13. CASE CloseTransition(a)  BY <2>13, CloseTransitionKeeps
    <2> QED BY <1>3, <2>1, <2>2, <2>3, <2>4, <2>5, <2>6, <2>7, <2>8, <2>9, <2>10,
               <2>11, <2>12, <2>13 DEF Step
<1>4. CASE Crash
    BY <1>4, CrashKeeps
<1>5. CASE Recover
    BY <1>5, RecoverTransitionKeeps, RecoverCorrectionKeeps, CheckIntegrityKeeps DEF Recover
<1>6. CASE UNCHANGED vars
    BY <1>6 DEF vars, files, journals, originals, queues, bounds, IInv, TypeOK, WellFormed,
            Exclusive, Displacing, CurrentResolves, Readable, Intact
<1> QED BY <1>1, <1>2, <1>3, <1>4, <1>5, <1>6 DEF Next

\* The strengthened invariant holds of every run of the workspace.
THEOREM Invariance == Spec => []IInv
<1> QED BY InitKeeps, NextKeeps, PTL DEF Spec

\* Every variable keeps its type: files, journals, requests and queues.
THEOREM TypeCorrect == Spec => []TypeOK
<1>1. IInv => TypeOK
    BY DEF IInv
<1> QED BY <1>1, Invariance, PTL

\* However many requests, crashes and failed writes interleave, the manifest
\* points to nothing or to a complete active artifact: performCurrentTransition
\* lets no reader find the current ledger missing or with a wrong content hash.
THEOREM CurrentAlwaysResolves == Spec => []CurrentResolves
<1>1. IInv => CurrentResolves
    BY DEF IInv
<1> QED BY <1>1, Invariance, PTL

-----------------------------------------------------------------------------
(* The first ledger is kept before any ledger is current. *)

\* A request that has, or may get, a ledger to make current.
Publishing(request, step) ==
    \/ IsDocument(request.target)
    \/ step \in {"verify", "openCorrection", "read", "scan"} /\ request.content \in Document
    \/ request.kind = "fail" /\ request.content \in Document

NoLedger ==
    /\ ~IsDocument(current)
    /\ \A j \in transitions : ~IsDocument(j.target)
    /\ \A a \in Actor : ~Publishing(op[a], pc[a])

OriginalFirst == original # None \/ NoLedger

\* The original is never removed.
LEMMA OriginalStays ==
    ASSUME IInv, Next, original # None
    PROVE  original' # None
<1>1. ASSUME NEW a \in Actor, WriteOriginalDocument(a) PROVE original' # None
    <2>1. /\ op[a].kind \in CorrectionKinds => op[a].base \in Artifact
          /\ op[a].content \in Content
        BY <1>1 DEF IInv, WellFormed, WriteOriginalDocument, Saving
    <2>2. OriginalContent(a) \in Content
        BY <2>1 DEF OriginalContent, Artifact
    <2> QED BY <1>1, <2>2, NoneAssumption DEF WriteOriginalDocument
<1>2. ASSUME NEW a \in Actor, Step(a), ~WriteOriginalDocument(a) PROVE original' = original
    BY <1>2 DEF Step, TakeToken, EnterGate, Check, ReadRemoved, ReadOriginal,
        WriteOriginalFindings, VerifyOriginal, OpenCorrection, CloseCorrection,
        ReadCurrent, Scan, WriteDocument, WriteFindings, OpenTransition, Point, Archive, ArchiveFindings,
        CloseTransition, Throw, originals
<1>3. ASSUME NEW a \in Operation, Start(a) \/ Fault(a) PROVE original' = original
    BY <1>3 DEF Start, Fault, originals
<1>4. ASSUME Crash \/ Recover PROVE original' = original
    BY <1>4 DEF Crash, Recover, RecoverTransition, RecoverCorrection, CheckIntegrity, originals
<1> QED BY <1>1, <1>2, <1>3, <1>4 DEF Next

\* One actor goes on without a ledger to publish.
LEMMA ActorStays ==
    ASSUME IInv, NoLedger, NEW a \in Actor, NEW step, NEW request,
           pc' = [pc EXCEPT ![a] = step], op' = [op EXCEPT ![a] = request],
           ~Publishing(request, step), UNCHANGED current,
           \A j \in transitions' : ~IsDocument(j.target)
    PROVE  NoLedger'
<1>1. \A b \in Actor : ~Publishing(op'[b], pc'[b])
    BY DEF IInv, TypeOK, NoLedger
<1> QED BY <1>1 DEF NoLedger, IsDocument, Publishing

\* No request, no ledger.
LEMMA LeaveStays ==
    ASSUME IInv, NoLedger, NEW a \in Actor, Leave(a), UNCHANGED current,
           transitions' \subseteq transitions
    PROVE  NoLedger'
<1>1. ~Publishing(NoRequest, "idle")
    BY DEF Publishing, NoRequest, IsDocument
<1>2. \A j \in transitions' : ~IsDocument(j.target)
    BY DEF NoLedger
<1> QED BY <1>1, <1>2, ActorStays DEF Leave, Goto, Update

\* A new request has no target yet, and a failure is no ledger.
LEMMA StartStays ==
    ASSUME IInv, NoLedger, NEW a \in Operation, Start(a)
    PROVE  NoLedger'
<1>1. PICK kind, content, base :
        Begin(a, kind, content, base) /\ (kind = "fail" => content \notin Document)
    BY ContentAssumption DEF Start
<1> DEFINE request == [NoRequest EXCEPT !.kind = kind, !.content = content,
                                        !.base = base, !.token = current]
<1> DEFINE step == CASE kind \in CollectionKinds -> "target"
                     [] kind = "import" -> "waiting"
                     [] OTHER -> "check"
<1>2. pc' = [pc EXCEPT ![a] = step] /\ step \in {"target", "waiting", "check"}
    BY <1>1 DEF Begin, Goto
<1>3. op' = [op EXCEPT ![a] = request]
    BY <1>1 DEF Begin, Update
<1>4. request.kind = kind /\ request.content = content /\ request.target = None
    BY DEF NoRequest
<1> HIDE DEF request, step
<1>5. ~Publishing(request, step)
    BY <1>1, <1>2, <1>4 DEF Publishing, IsDocument
<1> QED BY <1>2, <1>3, <1>5, ActorStays DEF Start, NoLedger, journals, Actor

\* Every step of a request keeps the original first.
LEMMA StepKeepsOriginalFirst ==
    ASSUME IInv, NoLedger, original = None, NEW a \in Actor, Step(a)
    PROVE  OriginalFirst'
<1> USE DEF OriginalFirst
<1>0. /\ ~Publishing(op[a], pc[a])
      /\ \A j \in transitions : ~IsDocument(j.target)
      /\ op = [op EXCEPT ![a] = op[a]] /\ pc = [pc EXCEPT ![a] = pc[a]]
    BY DEF NoLedger, IInv, TypeOK
<1>1. CASE Throw(a)
    BY <1>1, LeaveStays DEF Throw, journals
<1>2. CASE TakeToken(a) \/ EnterGate(a)
    <2>1. PICK step \in {"waiting", "gate"}, request \in {op[a], [op[a] EXCEPT !.token = current]} :
            pc' = [pc EXCEPT ![a] = step] /\ op' = [op EXCEPT ![a] = request]
        BY <1>0, <1>2 DEF TakeToken, EnterGate, Goto, Update
    <2>2. ~Publishing(request, step)
        BY <1>0 DEF Publishing, IInv, TypeOK, Request
    <2> QED BY <1>0, <1>2, <2>1, <2>2, ActorStays DEF TakeToken, EnterGate, journals
<1>3. CASE Check(a) /\ ~Throw(a)
    <2>1. /\ pc' = [pc EXCEPT ![a] = AfterCheck(a)] /\ op' = [op EXCEPT ![a] = Checked(a)]
          /\ UNCHANGED <<current, transitions>>
        BY <1>3 DEF Check, Goto, Update, journals
    <2>2. /\ Checked(a).target = op[a].target /\ Checked(a).kind = op[a].kind
          /\ Checked(a).content = op[a].content
        BY DEF Checked, IInv, TypeOK, Request
    <2>3. AfterCheck(a) \in {"verify", "openCorrection", "read", "scan"} => op[a].kind = "fail"
        BY DEF AfterCheck
    <2>4. ~Publishing(Checked(a), AfterCheck(a))
        BY <1>0, <2>2, <2>3 DEF Publishing
    <2> QED BY <1>0, <2>1, <2>4, ActorStays
<1>4. CASE ReadRemoved(a) /\ ~Throw(a)
    <2> DEFINE request == [op[a] EXCEPT !.previous = current]
    <2>1. /\ pc' = [pc EXCEPT ![a] = "queued"] /\ op' = [op EXCEPT ![a] = request]
          /\ UNCHANGED <<current, transitions>>
        BY <1>4 DEF ReadRemoved, Enqueue, Goto, Update, journals
    <2>2. ~Publishing(request, "queued")
        BY <1>0 DEF Publishing, IInv, TypeOK, Request
    <2> HIDE DEF request
    <2> QED BY <1>0, <2>1, <2>2, ActorStays
<1>5. CASE ReadOriginal(a) \/ WriteOriginalFindings(a)
    <2>1. PICK step \in {"originalFindings", "originalDocument"} :
            /\ pc' = [pc EXCEPT ![a] = step] /\ op' = [op EXCEPT ![a] = op[a]]
            /\ UNCHANGED <<current, transitions>>
        BY <1>0, <1>5 DEF ReadOriginal, WriteOriginalFindings, OriginalMissing, Goto, journals
    <2>2. ~Publishing(op[a], step)
        BY <1>0 DEF Publishing
    <2> QED BY <1>0, <2>1, <2>2, ActorStays
<1>6. CASE WriteOriginalDocument(a)
    <2>1. /\ op[a].kind \in CorrectionKinds => op[a].base \in Artifact
          /\ op[a].content \in Content
        BY <1>6 DEF IInv, WellFormed, WriteOriginalDocument, Saving
    <2>2. OriginalContent(a) \in Content
        BY <2>1 DEF OriginalContent, Artifact
    <2> QED BY <1>6, <2>2, NoneAssumption DEF WriteOriginalDocument
<1>17. CASE VerifyOriginal(a) /\ ~Throw(a)
    <2>1. /\ pc' = [pc EXCEPT ![a] = AfterOriginal(a)] /\ op' = [op EXCEPT ![a] = op[a]]
          /\ UNCHANGED <<current, transitions>> /\ pc[a] = "verify"
        BY <1>0, <1>17 DEF VerifyOriginal, Goto, journals
    <2>2. ~Publishing(op[a], AfterOriginal(a))
        BY <1>0, <2>1 DEF Publishing
    <2> QED BY <1>0, <2>1, <2>2, ActorStays
<1>7. CASE OpenCorrection(a)
    <2>1. PICK id : /\ op' = [op EXCEPT ![a] = [op[a] EXCEPT !.correction = id]]
                    /\ pc' = [pc EXCEPT ![a] = "read"]
                    /\ UNCHANGED <<current, transitions>> /\ pc[a] = "openCorrection"
        BY <1>7 DEF OpenCorrection, Goto, Update
    <2> DEFINE request == [op[a] EXCEPT !.correction = id]
    <2>2. ~Publishing(request, "read")
        BY <1>0, <2>1 DEF Publishing, IInv, TypeOK, Request
    <2>3. op' = [op EXCEPT ![a] = request]
        BY <2>1
    <2> HIDE DEF request
    <2> QED BY <1>0, <2>1, <2>2, <2>3, ActorStays
<1>8. CASE CloseCorrection(a)
    <2>1. CASE Leave(a)
        BY <1>8, <2>1, LeaveStays DEF CloseCorrection
    <2>2. CASE ~Leave(a)
        <3>1. /\ pc' = [pc EXCEPT ![a] = "corrections"] /\ op' = [op EXCEPT ![a] = NoRequest]
              /\ UNCHANGED <<current, transitions>>
            BY <1>8, <2>2 DEF CloseCorrection, Goto, Update
        <3>2. ~Publishing(NoRequest, "corrections")
            BY DEF Publishing, NoRequest, IsDocument
        <3> QED BY <1>0, <3>1, <3>2, ActorStays
    <2> QED BY <2>1, <2>2
<1>9. ASSUME Saved(a), UNCHANGED current, transitions' \subseteq transitions
      PROVE  NoLedger'
    <2>1. CASE Leave(a)
        BY <1>9, <2>1, LeaveStays
    <2>2. CASE ~Leave(a)
        <3>1. pc' = [pc EXCEPT ![a] = "closeCorrection"] /\ op' = [op EXCEPT ![a] = op[a]]
            BY <1>0, <1>9, <2>2 DEF Saved, Goto
        <3>2. ~Publishing(op[a], "closeCorrection")
            BY <1>0 DEF Publishing
        <3> QED BY <1>0, <1>9, <3>1, <3>2, ActorStays
    <2> QED BY <2>1, <2>2
<1>10. CASE ReadCurrent(a) /\ ~Throw(a)
    <2>1. CASE Saved(a)
        BY <1>9, <1>10, <2>1 DEF ReadCurrent, journals
    <2>2. CASE ~Saved(a)
        <3> DEFINE request == [op[a] EXCEPT !.previous = current]
        <3>1. /\ pc' = [pc EXCEPT ![a] = "scan"] /\ op' = [op EXCEPT ![a] = request]
              /\ UNCHANGED <<current, transitions>> /\ pc[a] = "read"
            BY <1>10, <2>2 DEF ReadCurrent, Goto, Update, journals
        <3>2. ~Publishing(request, "scan")
            BY <1>0, <3>1 DEF Publishing, IInv, TypeOK, Request
        <3> HIDE DEF request
        <3> QED BY <1>0, <3>1, <3>2, ActorStays
    <2> QED BY <2>1, <2>2
<1>11. CASE Scan(a) /\ ~Throw(a)
    <2>1. PICK x \in Artifact, step \in {"queued", "document"} :
            /\ op' = [op EXCEPT ![a] = [op[a] EXCEPT !.target = x]]
            /\ pc' = [pc EXCEPT ![a] = step] /\ x.content = op[a].content
            /\ UNCHANGED <<current, transitions>> /\ pc[a] = "scan"
        <3>1. pc[a] = "scan"
            BY <1>11 DEF Scan
        <3> QED BY <1>11, <3>1, ScanChooses DEF journals
    <2>2. op[a].content \notin Document
        BY <1>0, <2>1 DEF Publishing
    <2> DEFINE request == [op[a] EXCEPT !.target = x]
    <2>3. /\ request.target = x /\ request.content = op[a].content
          /\ request.kind = op[a].kind
        BY DEF IInv, TypeOK, Request
    <2>4. ~Publishing(request, step)
        BY <2>1, <2>2, <2>3 DEF Publishing, IsDocument
    <2>5. op' = [op EXCEPT ![a] = request]
        BY <2>1
    <2> HIDE DEF request
    <2> QED BY <1>0, <2>1, <2>4, <2>5, ActorStays
<1>12. CASE WriteDocument(a) \/ WriteFindings(a)
    <2>1. PICK step \in {"findings", "queued"} :
            /\ pc' = [pc EXCEPT ![a] = step] /\ op' = [op EXCEPT ![a] = op[a]]
            /\ UNCHANGED <<current, transitions>>
        BY <1>0, <1>12 DEF WriteDocument, WriteFindings, Goto, Enqueue, journals
    <2>2. ~Publishing(op[a], step)
        BY <1>0 DEF Publishing
    <2> QED BY <1>0, <2>1, <2>2, ActorStays
<1>13. CASE OpenTransition(a) /\ ~Throw(a)
    <2>1. PICK id : /\ op' = [op EXCEPT ![a] = [op[a] EXCEPT !.journal = id]]
                    /\ pc' = [pc EXCEPT ![a] = "point"] /\ UNCHANGED current
                    /\ \A j \in transitions' : j \in transitions \/ j.target = op[a].target
        BY <1>13 DEF OpenTransition, Goto, Update
    <2> DEFINE request == [op[a] EXCEPT !.journal = id]
    <2>2. ~Publishing(request, "point")
        BY <1>0 DEF Publishing, IInv, TypeOK, Request
    <2>3. \A j \in transitions' : ~IsDocument(j.target)
        BY <1>0, <2>1 DEF Publishing
    <2>4. op' = [op EXCEPT ![a] = request]
        BY <2>1
    <2> HIDE DEF request
    <2> QED BY <2>1, <2>2, <2>3, <2>4, ActorStays
<1>14. CASE Point(a) /\ ~Throw(a)
    <2>1. /\ pc' = [pc EXCEPT ![a] = AfterPoint(op[a])] /\ op' = op
          /\ current' = op[a].target /\ transitions' = transitions
        BY <1>14 DEF Point, Goto, journals
    <2>2. ~IsDocument(current')
        BY <1>0, <2>1 DEF Publishing
    <2>3. AfterPoint(op[a]) \notin {"verify", "openCorrection", "read", "scan"}
        BY DEF AfterPoint
    <2>4. \A b \in Actor : ~Publishing(op'[b], pc'[b])
        BY <2>1, <2>3 DEF NoLedger, Publishing, IInv, TypeOK
    <2> QED BY <1>0, <2>1, <2>2, <2>4 DEF NoLedger, Publishing, IsDocument
<1>15. CASE (Archive(a) \/ ArchiveFindings(a)) /\ ~Throw(a)
    <2>1. PICK step \in {"archiveFindings", "closeTransition"} :
            /\ pc' = [pc EXCEPT ![a] = step] /\ op' = [op EXCEPT ![a] = op[a]]
            /\ UNCHANGED <<current, transitions>>
        BY <1>0, <1>15 DEF Archive, ArchiveFindings, AfterArchive, Goto, journals
    <2>2. ~Publishing(op[a], step)
        BY <1>0 DEF Publishing
    <2> QED BY <1>0, <2>1, <2>2, ActorStays
<1>16. CASE CloseTransition(a)
    <2>1. UNCHANGED current /\ transitions' \subseteq transitions
        BY <1>16 DEF CloseTransition, Unlinked
    <2>2. CASE Saved(a)
        BY <1>9, <2>1, <2>2
    <2>3. CASE ~Saved(a)
        <3>1. pc' = [pc EXCEPT ![a] = "transitions"] /\ op' = [op EXCEPT ![a] = NoRequest]
            BY <1>16, <2>3 DEF CloseTransition, Goto, Update
        <3>2. ~Publishing(NoRequest, "transitions")
            BY DEF Publishing, NoRequest, IsDocument
        <3> QED BY <1>0, <2>1, <3>1, <3>2, ActorStays
    <2> QED BY <2>2, <2>3
<1> QED BY <1>1, <1>2, <1>3, <1>4, <1>5, <1>6, <1>7, <1>8, <1>10, <1>11, <1>12, <1>13,
           <1>14, <1>15, <1>16, <1>17 DEF Step

\* Crash and repair keep the original first.
LEMMA RepairKeepsOriginalFirst ==
    ASSUME IInv, NoLedger, Crash \/ Recover
    PROVE  NoLedger'
<1>0. Startup \in Actor /\ ~Publishing(op[Startup], pc[Startup])
    BY DEF NoLedger, Actor
<1>1. CASE Crash
    <2>1. \A a \in Actor : op'[a] = NoRequest /\ pc'[a] \in {"idle", "transitions"}
        BY <1>1 DEF Crash
    <2>2. \A a \in Actor : ~Publishing(op'[a], pc'[a])
        BY <2>1 DEF Publishing, NoRequest, IsDocument
    <2> QED BY <1>1, <2>2 DEF Crash, NoLedger, IsDocument, Publishing, journals
<1>2. ASSUME NEW step \in {"corrections", "integrity", "idle"},
             pc' = [pc EXCEPT ![Startup] = step], UNCHANGED <<op, current, transitions>>
      PROVE  NoLedger'
    <2>1. op' = [op EXCEPT ![Startup] = op[Startup]]
        BY <1>2 DEF IInv, TypeOK
    <2>2. ~Publishing(op[Startup], step)
        BY <1>0 DEF Publishing
    <2>3. \A j \in transitions' : ~IsDocument(j.target)
        BY <1>2 DEF NoLedger
    <2> QED BY <1>0, <1>2, <2>1, <2>2, <2>3, ActorStays
<1>3. CASE RecoverTransition
    <2>1. CASE Goto(Startup, "corrections") /\ UNCHANGED op
        BY <1>2, <1>3, <2>1 DEF RecoverTransition, Goto, journals
    <2>2. CASE ~(Goto(Startup, "corrections") /\ UNCHANGED op)
        <3>1. PICK j \in transitions :
                /\ op' = [op EXCEPT ![Startup] =
                      [NoRequest EXCEPT !.previous = j.previous,
                                        !.target = j.target, !.journal = j.id]]
                /\ pc' = [pc EXCEPT ![Startup] = "point"]
                /\ UNCHANGED <<current, transitions>>
            BY <1>3, <2>2 DEF RecoverTransition, Update, Goto, journals
        <3> DEFINE request == [NoRequest EXCEPT !.previous = j.previous,
                                        !.target = j.target, !.journal = j.id]
        <3>2. request.target = j.target /\ request.kind = "none"
            BY DEF NoRequest
        <3>3. ~Publishing(request, "point")
            BY <3>2 DEF Publishing, NoLedger
        <3>4. op' = [op EXCEPT ![Startup] = request]
            BY <3>1
        <3> HIDE DEF request
        <3> QED BY <1>0, <3>1, <3>3, <3>4, ActorStays DEF NoLedger
    <2> QED BY <2>1, <2>2
<1>4. CASE RecoverCorrection
    <2>1. CASE Goto(Startup, "integrity") /\ UNCHANGED op
        BY <1>2, <1>4, <2>1 DEF RecoverCorrection, Goto, journals
    <2>2. CASE ~(Goto(Startup, "integrity") /\ UNCHANGED op)
        <3>1. PICK j \in corrections :
                /\ op' = [op EXCEPT ![Startup] = Replayed(j)]
                /\ pc' = [pc EXCEPT ![Startup] = "original"]
                /\ UNCHANGED <<current, transitions>>
            BY <1>4, <2>2 DEF RecoverCorrection, Update, Goto, journals
        <3>2. Replayed(j).target = None /\ Replayed(j).kind = "correct"
            BY DEF Replayed, NoRequest
        <3>3. ~Publishing(Replayed(j), "original")
            BY <3>2 DEF Publishing, IsDocument
        <3> QED BY <1>0, <3>1, <3>3, ActorStays DEF NoLedger
    <2> QED BY <2>1, <2>2
<1>5. CASE CheckIntegrity
    BY <1>2, <1>5 DEF CheckIntegrity, Goto, journals
<1> QED BY <1>1, <1>3, <1>4, <1>5 DEF Recover

\* saveOriginalIfAbsent runs before every save of a ledger, and what a crash
\* leaves in a journal was saved after it: no ledger is current, not even
\* after a repair, before the first ledger of its game is kept.
THEOREM OriginalAlwaysKept == Spec => []LedgerHasOriginal
<1>1. Init => OriginalFirst
    <2> SUFFICES ASSUME Init PROVE OriginalFirst
        OBVIOUS
    <2>1. CASE IsDocument(current)
        <3>1. original = current.content /\ current \in Entry /\ current # None
            BY <2>1 DEF Init, IsDocument
        <3>2. current.content \in Content
            BY <2>1 DEF IsDocument, Content
        <3> QED BY <3>1, <3>2, NoneAssumption DEF OriginalFirst
    <2>2. CASE ~IsDocument(current)
        <3>1. \A a \in Actor : op[a] = NoRequest /\ pc[a] = "idle" /\ transitions = {}
            BY DEF Init
        <3>2. transitions = {}
            BY DEF Init
        <3>3. \A a \in Actor : ~Publishing(op[a], pc[a])
            BY <3>1 DEF Publishing, NoRequest, IsDocument
        <3> QED BY <2>2, <3>2, <3>3 DEF OriginalFirst, NoLedger
    <2> QED BY <2>1, <2>2
<1>2. IInv /\ OriginalFirst /\ [Next]_vars => OriginalFirst'
    <2> SUFFICES ASSUME IInv, OriginalFirst, [Next]_vars PROVE OriginalFirst'
        OBVIOUS
    <2>1. CASE UNCHANGED vars
        BY <2>1 DEF vars, originals, journals, OriginalFirst, NoLedger, Publishing, IsDocument
    <2>2. CASE Next /\ original # None
        BY <2>2, OriginalStays DEF OriginalFirst
    <2>3. CASE Next /\ original = None
        <3>1. NoLedger
            BY <2>3 DEF OriginalFirst
        <3>2. ASSUME NEW a \in Operation, Start(a) PROVE NoLedger'
            BY <3>1, <3>2, StartStays
        <3>3. ASSUME NEW a \in Operation, Fault(a) PROVE NoLedger'
            BY <3>1, <3>3, LeaveStays DEF Fault, journals, Actor
        <3>4. ASSUME NEW a \in Actor, Step(a) PROVE OriginalFirst'
            BY <2>3, <3>1, <3>4, StepKeepsOriginalFirst
        <3>5. ASSUME Crash \/ Recover PROVE NoLedger'
            BY <3>1, <3>5, RepairKeepsOriginalFirst
        <3> QED BY <2>3, <3>2, <3>3, <3>4, <3>5 DEF Next, OriginalFirst
    <2> QED BY <2>1, <2>2, <2>3
<1>3. OriginalFirst => LedgerHasOriginal
    BY DEF OriginalFirst, NoLedger, LedgerHasOriginal
<1> QED BY <1>1, <1>2, <1>3, Invariance, PTL DEF Spec

-----------------------------------------------------------------------------
(* A collection replaces the manifest it was made for. *)

Fixing == {"scan", "document", "findings", "queued", "point"}

\* What a request will displace is its token's manifest, and is current when
\* the manifest is replaced.
Fixed(request, step, entry) ==
    /\ step \in Fixing /\ request.kind \in CollectionKinds
           => request.previous = request.token
    /\ step = "point" => entry = request.previous
    /\ step = "remove" => request.kind = "import"

TokensFixed == \A a \in Operation : Fixed(op[a], pc[a], current)

\* A step is one actor's.
LEMMA StepLocal ==
    ASSUME IInv, NEW a \in Actor, Step(a) \/ Start(a) \/ Fault(a), NEW b \in Actor \ {a}
    PROVE  pc'[b] = pc[b] /\ op'[b] = op[b]
<1>1. PICK step, request :
        /\ pc' = [pc EXCEPT ![a] = step]
        /\ op' = op \/ op' = [op EXCEPT ![a] = request]
    <2>1. CASE Start(a) \/ Fault(a) \/ Throw(a)
        BY <2>1 DEF Start, Begin, Fault, Throw, Leave, Goto, Update
    <2>2. CASE \/ TakeToken(a) \/ EnterGate(a) \/ (Check(a) /\ ~Throw(a))
               \/ (ReadRemoved(a) /\ ~Throw(a))
        BY <2>2 DEF TakeToken, EnterGate, Check, ReadRemoved, Enqueue, Goto, Update
    <2>3. CASE \/ ReadOriginal(a) \/ WriteOriginalFindings(a) \/ WriteOriginalDocument(a)
               \/ (VerifyOriginal(a) /\ ~Throw(a)) \/ OpenCorrection(a) \/ CloseCorrection(a)
        BY <2>3 DEF ReadOriginal, WriteOriginalFindings, WriteOriginalDocument,
                    VerifyOriginal, OpenCorrection, CloseCorrection, Leave, Goto, Update
    <2>4. CASE (ReadCurrent(a) /\ ~Throw(a)) \/ CloseTransition(a)
        BY <2>4 DEF ReadCurrent, CloseTransition, Saved, Leave, Goto, Update
    <2>5. CASE Scan(a) /\ ~Throw(a)
        <3>1. PICK x \in Artifact, step \in {"queued", "document"} :
                /\ op' = [op EXCEPT ![a] = [op[a] EXCEPT !.target = x]]
                /\ pc' = [pc EXCEPT ![a] = step]
            BY <2>5, ScanChooses
        <3> QED BY <3>1
    <2>6. CASE \/ WriteDocument(a) \/ WriteFindings(a) \/ (OpenTransition(a) /\ ~Throw(a))
               \/ (Point(a) /\ ~Throw(a)) \/ (Archive(a) /\ ~Throw(a)) \/ ArchiveFindings(a)
        BY <2>6 DEF WriteDocument, WriteFindings, OpenTransition, Point, Archive,
                    ArchiveFindings, Enqueue, Goto, Update
    <2> QED BY <2>1, <2>2, <2>3, <2>4, <2>5, <2>6 DEF Step
<1> QED BY <1>1 DEF IInv, TypeOK

\* The manifest changes in Point alone.
LEMMA OnlyPointMoves ==
    ASSUME NEW a \in Actor, Step(a), current' # current
    PROVE  Point(a) /\ current' = op[a].target
BY DEF Step, TakeToken, EnterGate, Check, ReadRemoved, ReadOriginal, WriteOriginalFindings,
    WriteOriginalDocument, VerifyOriginal, OpenCorrection, CloseCorrection, ReadCurrent,
    Scan, WriteDocument, WriteFindings, OpenTransition, Point, Archive, ArchiveFindings,
    CloseTransition, Throw

\* A step leaves its own actor with a fixed token.
LEMMA StepFixes ==
    ASSUME IInv, TokensFixed, NEW a \in Operation, Step(a)
    PROVE  Fixed(op'[a], pc'[a], current')
<1>0. a \in Actor /\ Fixed(op[a], pc[a], current) /\ op[a] \in Request
    BY DEF TokensFixed, Actor, IInv, TypeOK
<1>1. ASSUME NEW step \in Steps \ (Fixing \cup {"remove"}), pc' = [pc EXCEPT ![a] = step]
      PROVE  Fixed(op'[a], pc'[a], current')
    BY <1>0, <1>1 DEF Fixed, Fixing, IInv, TypeOK
<1>2. ASSUME NEW step \in Steps \ {"point", "remove"}, pc' = [pc EXCEPT ![a] = step],
             NEW request, op' = [op EXCEPT ![a] = request],
             request.kind \in CollectionKinds => request.previous = request.token
      PROVE  Fixed(op'[a], pc'[a], current')
    BY <1>0, <1>2 DEF Fixed, IInv, TypeOK
<1>3. CASE Throw(a)
    BY <1>1, <1>3 DEF Throw, Leave, Goto, Steps, Fixing
<1>4. CASE TakeToken(a) \/ EnterGate(a)
    BY <1>1, <1>4 DEF TakeToken, EnterGate, Goto, Steps, Fixing
<1>5. CASE Check(a) /\ ~Throw(a)
    <2>1. pc'[a] = AfterCheck(a) /\ op'[a] = Checked(a)
        BY <1>0, <1>5 DEF Check, Goto, Update, IInv, TypeOK
    <2>2. Checked(a).kind = op[a].kind
        BY <1>0 DEF Checked, Request
    <2> QED BY <2>1, <2>2 DEF AfterCheck, Fixed, Fixing
<1>6. CASE ReadRemoved(a) /\ ~Throw(a)
    <2> DEFINE request == [op[a] EXCEPT !.previous = current]
    <2>1. /\ pc' = [pc EXCEPT ![a] = "queued"] /\ op' = [op EXCEPT ![a] = request]
          /\ pc[a] = "remove"
        BY <1>6 DEF ReadRemoved, Enqueue, Goto, Update
    <2>2. request.kind \notin CollectionKinds
        BY <1>0, <2>1 DEF Fixed, Request, CollectionKinds
    <2>3. "queued" \in Steps \ {"point", "remove"}
        BY DEF Steps, WritingSteps
    <2> HIDE DEF request
    <2> QED BY <1>2, <2>1, <2>2, <2>3
<1>7. CASE \/ ReadOriginal(a) \/ WriteOriginalFindings(a) \/ WriteOriginalDocument(a)
           \/ (VerifyOriginal(a) /\ ~Throw(a))
    BY <1>1, <1>7 DEF ReadOriginal, WriteOriginalFindings, WriteOriginalDocument,
                      VerifyOriginal, AfterOriginal, Goto, Steps, WritingSteps, Fixing
<1>8. CASE OpenCorrection(a) \/ CloseCorrection(a)
    BY <1>1, <1>8 DEF OpenCorrection, CloseCorrection, Leave, Goto, Steps, Fixing
<1>9. CASE (ReadCurrent(a) /\ ~Throw(a)) \/ CloseTransition(a)
    <2>1. CASE Saved(a)
        BY <1>1, <2>1 DEF Saved, Leave, Goto, Steps, WritingSteps, Fixing
    <2>2. CASE ReadCurrent(a) /\ ~Throw(a) /\ ~Saved(a)
        <3> DEFINE request == [op[a] EXCEPT !.previous = current]
        <3>1. /\ pc' = [pc EXCEPT ![a] = "scan"] /\ op' = [op EXCEPT ![a] = request]
              /\ TokenHolds(a)
            BY <2>2 DEF ReadCurrent, Goto, Update
        <3>2. request.kind \in CollectionKinds => request.previous = request.token
            BY <1>0, <3>1 DEF TokenHolds, Request
        <3>3. "scan" \in Steps \ {"point", "remove"}
            BY DEF Steps
        <3> HIDE DEF request
        <3> QED BY <1>2, <3>1, <3>2, <3>3
    <2>3. CASE CloseTransition(a) /\ ~Saved(a)
        BY <1>1, <2>3 DEF CloseTransition, Goto, Steps, Fixing
    <2> QED BY <1>9, <2>1, <2>2, <2>3
<1>10. CASE Scan(a) /\ ~Throw(a)
    <2>1. PICK x \in Artifact, step \in {"queued", "document"} :
            /\ op' = [op EXCEPT ![a] = [op[a] EXCEPT !.target = x]]
            /\ pc' = [pc EXCEPT ![a] = step]
        BY <1>0, <1>10, ScanChooses
    <2> DEFINE request == [op[a] EXCEPT !.target = x]
    <2>2. pc[a] = "scan"
        BY <1>10 DEF Scan
    <2>3. request.kind \in CollectionKinds => request.previous = request.token
        BY <1>0, <2>2 DEF Fixed, Fixing, Request
    <2>4. step \in Steps \ {"point", "remove"} /\ op' = [op EXCEPT ![a] = request]
        BY <2>1 DEF Steps, WritingSteps
    <2> HIDE DEF request
    <2> QED BY <1>2, <2>1, <2>3, <2>4
<1>11. CASE WriteDocument(a) \/ WriteFindings(a)
    <2>1. PICK step \in {"findings", "queued"} :
            /\ pc' = [pc EXCEPT ![a] = step] /\ op' = [op EXCEPT ![a] = op[a]]
            /\ pc[a] \in Fixing
        BY <1>11 DEF WriteDocument, WriteFindings, Goto, Enqueue, Fixing, IInv, TypeOK
    <2>2. op[a].kind \in CollectionKinds => op[a].previous = op[a].token
        BY <1>0, <2>1 DEF Fixed
    <2>3. step \in Steps \ {"point", "remove"}
        BY DEF Steps, WritingSteps
    <2> QED BY <1>2, <2>1, <2>2, <2>3
<1>12. CASE OpenTransition(a) /\ ~Throw(a)
    <2>1. PICK id \in JournalId : op' = [op EXCEPT ![a] = [op[a] EXCEPT !.journal = id]]
        BY <1>12 DEF OpenTransition, Update
    <2>2. /\ pc'[a] = "point" /\ current' = current /\ current = op[a].previous
          /\ pc[a] \in Fixing
        BY <1>0, <1>12 DEF OpenTransition, Goto, IInv, TypeOK, Fixing
    <2>3. /\ op'[a].kind = op[a].kind /\ op'[a].previous = op[a].previous
          /\ op'[a].token = op[a].token
        BY <1>0, <2>1 DEF IInv, TypeOK, Request
    <2> QED BY <1>0, <2>2, <2>3 DEF Fixed
<1>13. CASE \/ (Point(a) /\ ~Throw(a)) \/ (Archive(a) /\ ~Throw(a))
            \/ ArchiveFindings(a)
    BY <1>1, <1>13 DEF Point, Archive, ArchiveFindings, AfterPoint, AfterArchive, Goto,
                       Steps, WritingSteps, Fixing
<1> QED BY <1>3, <1>4, <1>5, <1>6, <1>7, <1>8, <1>9, <1>10, <1>11, <1>12, <1>13 DEF Step

\* Between the look at the manifest and its replacement no other request gets
\* in: a collection overwrites no edit made after its target was fixed.
THEOREM SavesReplaceTheirTokens == Spec => SaveReplacesItsToken
<1>1. Init => TokensFixed
    BY DEF Init, TokensFixed, Fixed, Fixing, Actor
<1>2. IInv /\ TokensFixed /\ [Next]_vars => TokensFixed'
    <2> SUFFICES ASSUME IInv, TokensFixed, [Next]_vars PROVE TokensFixed'
        OBVIOUS
    <2>1. ASSUME NEW a \in Actor, Step(a) PROVE TokensFixed'
        <3>1. SUFFICES ASSUME NEW b \in Operation PROVE Fixed(op'[b], pc'[b], current')
            BY DEF TokensFixed
        <3>2. CASE a = b
            BY <2>1, <3>2, StepFixes
        <3>3. CASE a # b
            <4>1. pc'[b] = pc[b] /\ op'[b] = op[b] /\ Fixed(op[b], pc[b], current)
                BY <2>1, <3>3, StepLocal DEF TokensFixed, Actor
            <4>2. CASE current' = current
                BY <4>1, <4>2
            <4>3. CASE current' # current
                <5>1. pc[a] \in Moving
                    BY <2>1, <4>3, OnlyPointMoves DEF Point, Moving
                <5>2. pc[b] \notin Moving
                    BY <3>3, <5>1, MovesAlone DEF Actor
                <5> QED BY <4>1, <5>2 DEF Fixed, Moving
            <4> QED BY <4>2, <4>3
        <3> QED BY <3>2, <3>3
    <2>2. ASSUME NEW a \in Operation, Start(a) \/ Fault(a) PROVE TokensFixed'
        <3>1. /\ current' = current
              /\ \A b \in Operation \ {a} : pc'[b] = pc[b] /\ op'[b] = op[b]
            BY <2>2, StepLocal DEF Start, Fault, Actor
        <3>2. pc'[a] \in {"idle", "target", "waiting", "check"}
            BY <2>2 DEF Start, Begin, Fault, Leave, Goto, IInv, TypeOK, Actor
        <3> QED BY <3>1, <3>2 DEF TokensFixed, Fixed, Fixing
    <2>3. CASE Crash
        <3>1. \A b \in Operation : pc'[b] = "idle"
            BY <2>3, ActorAssumption DEF Crash, Actor
        <3> QED BY <3>1 DEF TokensFixed, Fixed, Fixing
    <2>4. CASE Recover
        <3>1. current' = current /\ \A b \in Operation : pc'[b] = pc[b] /\ op'[b] = op[b]
            BY <2>4, ActorAssumption DEF Recover, RecoverTransition, RecoverCorrection,
               CheckIntegrity, Goto, Update, IInv, TypeOK, Actor
        <3> QED BY <3>1 DEF TokensFixed
    <2>5. CASE UNCHANGED vars
        BY <2>5 DEF vars, TokensFixed
    <2> QED BY <2>1, <2>2, <2>3, <2>4, <2>5 DEF Next
<1>3. TokensFixed => [\A a \in Operation :
            pc[a] = "point" /\ op[a].kind \in CollectionKinds /\ current' # current
                => current = op[a].token]_vars
    BY DEF TokensFixed, Fixed, Fixing
<1> QED BY <1>1, <1>2, <1>3, Invariance, PTL DEF Spec, SaveReplacesItsToken

-----------------------------------------------------------------------------
(* The workspace implements the ledger of EvidenceLedger. *)

\* A complete artifact is among the kept ones.
LEMMA ReadableIsKept ==
    ASSUME NEW x, Readable(x)
    PROVE  x \in Kept \cup {None}
BY DEF Readable, Intact, Kept

\* The start of the workspace is a start of the ledger.
LEMMA InitRefines == Init => Ledger!Init
<1> SUFFICES ASSUME Init PROVE Ledger!Init
    OBVIOUS
<1>1. active \subseteq Artifact /\ superseded \subseteq Artifact /\ Readable(current)
    BY InitKeeps DEF IInv, TypeOK, CurrentResolves
<1>2. Kept \subseteq Artifact
    BY <1>1 DEF Kept
<1> QED BY <1>1, <1>2, ReadableIsKept DEF Ledger!Init

\* A step that moves no file and leaves the manifest alone is no step of the
\* ledger.
LEMMA FilesStutter ==
    ASSUME UNCHANGED <<files, current>>
    PROVE  UNCHANGED Ledger!ledger
BY DEF files, Kept, Ledger!ledger

\* Writing an artifact stores it as soon as it is complete.
LEMMA WriteStores ==
    ASSUME IInv, NEW a \in Actor, WriteDocument(a) \/ WriteFindings(a)
    PROVE  [Ledger!Next]_Ledger!ledger
<1> DEFINE x == op[a].target
<1>1. x \in Artifact
    BY DEF IInv, WellFormed, WriteDocument, WriteFindings
<1>2. Kept' = Kept \/ Kept' = Kept \cup {x}
    BY DEF WriteDocument, WriteFindings, Kept
<1>3. current' = current
    BY DEF WriteDocument, WriteFindings
<1>4. CASE Kept' = Kept
    BY <1>3, <1>4 DEF Ledger!ledger
<1>5. CASE Kept' = Kept \cup {x}
    <2>1. Ledger!Store(x)
        BY <1>3, <1>5 DEF Ledger!Store
    <2> QED BY <1>1, <2>1 DEF Ledger!Next
<1> QED BY <1>2, <1>4, <1>5

\* Replacing the manifest moves the head to an artifact that is kept.
LEMMA PointMoves ==
    ASSUME IInv, NEW a \in Actor, Point(a)
    PROVE  [Ledger!Next]_Ledger!ledger
<1>1. CASE Throw(a)
    BY <1>1, FilesStutter DEF Throw
<1>2. CASE ~Throw(a)
    <2> DEFINE x == op[a].target
    <2>1. Readable(x) /\ current' = x /\ UNCHANGED files
        BY <1>2 DEF Point
    <2>2. Kept' = Kept
        BY <2>1 DEF files, Kept
    <2>3. x \in Kept \cup {None}
        BY <2>1, ReadableIsKept
    <2>4. x \in Artifact \cup {None}
        BY DEF IInv, TypeOK, Request, Entry
    <2>5. Ledger!Move(x)
        BY <2>1, <2>2, <2>3 DEF Ledger!Move
    <2> QED BY <2>4, <2>5 DEF Ledger!Next
<1> QED BY <1>1, <1>2

\* Archiving takes an artifact from one directory to another.
LEMMA ArchiveStutters ==
    ASSUME NEW a \in Actor, Archive(a) \/ ArchiveFindings(a)
    PROVE  UNCHANGED Ledger!ledger
<1>1. CASE Throw(a)
    BY <1>1, FilesStutter DEF Throw
<1>2. CASE ~Throw(a)
    <2>1. /\ active' \cup superseded' = active \cup superseded
          /\ activeFindings' \cup supersededFindings'
                = activeFindings \cup supersededFindings
          /\ current' = current
        BY <1>2 DEF Archive, ArchiveFindings, Moved
    <2> QED BY <2>1 DEF Kept, Ledger!ledger
<1> QED BY <1>1, <1>2

\* Every step of the workspace is one of the ledger, or changes nothing in it.
LEMMA NextRefines == IInv /\ [Next]_vars => [Ledger!Next]_Ledger!ledger
<1> SUFFICES ASSUME IInv, [Next]_vars PROVE [Ledger!Next]_Ledger!ledger
    OBVIOUS
<1>1. ASSUME NEW a \in Operation, Start(a) \/ Fault(a)
      PROVE  [Ledger!Next]_Ledger!ledger
    BY <1>1, FilesStutter DEF Start, Fault
<1>2. ASSUME NEW a \in Actor, Step(a)
      PROVE  [Ledger!Next]_Ledger!ledger
    <2>1. CASE WriteDocument(a) \/ WriteFindings(a)
        BY <2>1, WriteStores
    <2>2. CASE Point(a)
        BY <2>2, PointMoves
    <2>3. CASE Archive(a) \/ ArchiveFindings(a)
        BY <2>3, ArchiveStutters
    <2>4. CASE \/ TakeToken(a) \/ EnterGate(a) \/ Check(a) \/ ReadRemoved(a) \/ ReadOriginal(a)
               \/ WriteOriginalFindings(a) \/ WriteOriginalDocument(a) \/ VerifyOriginal(a)
        <3>1. UNCHANGED <<files, current>>
            BY <2>4 DEF TakeToken, EnterGate, Check, ReadRemoved, ReadOriginal,
                        WriteOriginalFindings, WriteOriginalDocument, VerifyOriginal, Throw
        <3> QED BY <3>1, FilesStutter
    <2>5. CASE \/ OpenCorrection(a) \/ CloseCorrection(a) \/ ReadCurrent(a)
               \/ Scan(a) \/ OpenTransition(a) \/ CloseTransition(a)
        <3>1. UNCHANGED <<files, current>>
            BY <2>5 DEF OpenCorrection, CloseCorrection, ReadCurrent, Scan,
                        OpenTransition, CloseTransition, Throw
        <3> QED BY <3>1, FilesStutter
    <2> QED BY <1>2, <2>1, <2>2, <2>3, <2>4, <2>5 DEF Step
<1>3. CASE Crash \/ Recover
    BY <1>3, FilesStutter DEF Crash, Recover, RecoverTransition, RecoverCorrection,
                              CheckIntegrity
<1>4. CASE UNCHANGED vars
    BY <1>4, FilesStutter DEF vars
<1> QED BY <1>1, <1>2, <1>3, <1>4 DEF Next

\* No save, archive, repair or failed write loses or changes a complete
\* artifact, and current only moves, in one step, to one: the workspace of
\* StagingWorkspace implements the ledger of EvidenceLedger.
THEOREM ImplementsLedger == Spec => LedgerSpec
<1>1. Spec => [][Ledger!Next]_Ledger!ledger
    BY Invariance, NextRefines, PTL DEF Spec
<1> QED BY <1>1, InitRefines, PTL DEF Spec, LedgerSpec, Ledger!Spec

-----------------------------------------------------------------------------
(***************************************************************************)
(* What the workspace leaves behind: artifacts that are archived can be    *)
(* restored, a correction with a journal becomes current, and with         *)
(* collections and imports alone, or with corrections alone, startup takes *)
(* up what it finds in the middle of anything.                             *)
(***************************************************************************)

(* What a transition archives can be restored. *)

\* The sidecar of an artifact is in one of the two directories.
Whole(x) == x.content \in WithFindings => x \in activeFindings \cup supersededFindings

JournalOf(r) == [id |-> r.journal, previous |-> r.previous, target |-> r.target]

JournalsDiffer == \A i, j \in transitions : i.id = j.id => i = j
JournalsReplace ==
    \A j \in transitions : j.previous # j.target /\ (j.previous # None => Whole(j.previous))

\* A request replaces what it displaces by something else, its journal says so until
\* it is unlinked, and by then both files have been moved.
Replacing(r, step) ==
    /\ step \in {"target", "waiting", "gate", "check", "remove"} => r.target = None
    /\ step = "scan" => r.content \notin Document \/ ContentOf(r.previous) # r.content
    /\ step \in {"document", "findings", "queued"} => r.previous # r.target
    /\ step \in Moving => JournalOf(r) \in transitions
    /\ step = "archiveFindings" => r.previous \in superseded
    /\ step = "closeTransition" => r.previous = None \/ SnapshotIntact(r.previous)

ArchiveInv ==
    /\ JournalsDiffer /\ JournalsReplace
    /\ \A a \in Actor : Replacing(op[a], pc[a])
    /\ SupersededRestorable

\* Who archives takes nothing back, so what others have archived stays restorable.
LEMMA OneReplaces ==
    ASSUME ArchiveInv, NEW a \in Actor,
           \A b \in Actor \ {a} : pc'[b] = pc[b] /\ op'[b] = op[b],
           Replacing(op[a], pc[a])', UNCHANGED <<transitions, superseded>>,
           supersededFindings \subseteq supersededFindings',
           activeFindings \cup supersededFindings
              \subseteq activeFindings' \cup supersededFindings'
    PROVE  ArchiveInv'
<1>1. \A b \in Actor : Replacing(op[b], pc[b])'
    BY DEF ArchiveInv, Replacing, JournalOf, SnapshotIntact
<1>2. JournalsDiffer' /\ JournalsReplace'
    BY DEF ArchiveInv, JournalsDiffer, JournalsReplace, Whole
<1>3. SupersededRestorable'
    BY DEF ArchiveInv, SupersededRestorable, SnapshotIntact
<1> QED BY <1>1, <1>2, <1>3 DEF ArchiveInv

\* A request that is answered has nothing to replace.
LEMMA LeftReplacesNothing ==
    ASSUME IInv, NEW a \in Actor, Leave(a)
    PROVE  Replacing(op[a], pc[a])'
<1>1. pc'[a] = "idle"
    BY DEF Leave, Goto, IInv, TypeOK
<1> QED BY <1>1 DEF Replacing, Moving

\* A step before the transition chooses a target other than what it displaces.
LEMMA EarlyStepReplaces ==
    ASSUME IInv, ArchiveInv, NEW a \in Actor,
           \/ TakeToken(a) \/ EnterGate(a) \/ Check(a) \/ ReadRemoved(a) \/ ReadOriginal(a)
           \/ WriteOriginalFindings(a) \/ WriteOriginalDocument(a) \/ VerifyOriginal(a)
           \/ OpenCorrection(a) \/ CloseCorrection(a) \/ ReadCurrent(a)
    PROVE  Replacing(op[a], pc[a])'
<1>0. Replacing(op[a], pc[a]) /\ op[a] \in Request /\ pc \in [Actor -> Steps] /\ op \in [Actor -> Request]
    BY DEF ArchiveInv, IInv, TypeOK
<1>1. CASE Leave(a)
    BY <1>1, LeftReplacesNothing
<1>2. CASE Throw(a)
    BY <1>2, LeftReplacesNothing DEF Throw
<1>3. ASSUME NEW step \in {"original", "read", "originalFindings", "originalDocument", "verify",
                 "openCorrection", "closeCorrection", "corrections"}, pc' = [pc EXCEPT ![a] = step]
      PROVE  Replacing(op[a], pc[a])'
    BY <1>0, <1>3 DEF Replacing, Moving
<1>4. CASE TakeToken(a) \/ EnterGate(a)
    BY <1>0, <1>4 DEF TakeToken, EnterGate, Goto, Update, Replacing, Moving, Request
<1>5. CASE Check(a) /\ ~Throw(a)
    <2>1. pc'[a] = AfterCheck(a) /\ op'[a].target = None
        BY <1>0, <1>5 DEF Check, Checked, Goto, Update, Replacing, Request
    <2> QED BY <2>1 DEF AfterCheck, Replacing, Moving
<1>6. CASE ReadRemoved(a) /\ ~Throw(a)
    <2>1. pc'[a] = "queued" /\ op'[a].target = None /\ op'[a].previous = current
        BY <1>0, <1>6 DEF ReadRemoved, Enqueue, Goto, Update, Replacing, Request
    <2>2. current # None
        BY <1>6 DEF ReadRemoved, IsReady, IsDocument
    <2> QED BY <2>1, <2>2 DEF Replacing, Moving
<1>7. CASE ReadOriginal(a) \/ WriteOriginalFindings(a) \/ WriteOriginalDocument(a)
           \/ (VerifyOriginal(a) /\ ~Throw(a)) \/ OpenCorrection(a)
           \/ (CloseCorrection(a) /\ ~Leave(a))
    BY <1>3, <1>7 DEF ReadOriginal, WriteOriginalFindings, WriteOriginalDocument,
         VerifyOriginal, OpenCorrection, CloseCorrection, AfterOriginal, Goto
<1>8. CASE ReadCurrent(a) /\ ~Throw(a) /\ ~Leave(a)
    <2>1. CASE Saved(a)
        BY <1>3, <1>8, <2>1 DEF Saved, Goto
    <2>2. CASE ~Saved(a)
        <3>1. /\ pc'[a] = "scan" /\ op'[a].content = op[a].content /\ op'[a].previous = current
              /\ ~NothingToSave(a)
            BY <1>0, <1>8, <2>2 DEF ReadCurrent, Goto, Update, Request
        <3>2. current' = current
            BY <1>8, <2>2 DEF ReadCurrent
        <3> QED BY <3>1, <3>2 DEF NothingToSave, Replacing, Moving
    <2> QED BY <2>1, <2>2
<1> QED BY <1>1, <1>2, <1>4, <1>5, <1>6, <1>7, <1>8

\* Scan finds an artifact with the content, or takes a new generation.
LEMMA ScanReplaces ==
    ASSUME IInv, ArchiveInv, NEW a \in Actor, Scan(a)
    PROVE  Replacing(op[a], pc[a])'
<1>0. Replacing(op[a], pc[a]) /\ op[a] \in Request /\ pc \in [Actor -> Steps] /\ op \in [Actor -> Request]
    BY DEF ArchiveInv, IInv, TypeOK
<1>1. CASE Throw(a)
    BY <1>1, LeftReplacesNothing DEF Throw
<1>2. CASE ~Throw(a)
    <2> DEFINE New(g) == [gen |-> g, content |-> op[a].content]
    <2>1. PICK x : /\ op' = [op EXCEPT ![a] = [op[a] EXCEPT !.target = x]]
                   /\ \/ x \in Reusable(a)
                      \/ \E g \in 1 .. MaxGeneration :
                            IsNextGeneration(g, op[a].previous) /\ x = New(g)
        BY <1>2 DEF Scan, Update
    <2>2. pc'[a] \in {"queued", "document"}
        BY <1>0, <1>2 DEF Scan, Enqueue, Goto
    <2>3. op'[a].target = x /\ op'[a].previous = op[a].previous
        BY <1>0, <2>1 DEF Request
    <2>4. CASE x \in Reusable(a)
        <3>1. ContentOf(op[a].previous) # x.content /\ x \in Artifact
            BY <1>0, <1>2, <2>4 DEF Reusable, Replacing, Scan, IInv, TypeOK
        <3>2. x # op[a].previous
            BY <3>1, NoneAssumption DEF ContentOf
        <3> QED BY <2>2, <2>3, <3>2 DEF Replacing, Moving
    <2>5. ASSUME NEW g \in 1 .. MaxGeneration, IsNextGeneration(g, op[a].previous), x = New(g)
          PROVE  x # op[a].previous
        <3>1. New(g) \in Artifact /\ New(g).gen = g
            BY <1>2 DEF Artifact, IInv, WellFormed, Scan, Saving
        <3>2. CASE op[a].previous = None
            BY <2>5, <3>1, <3>2, NoneAssumption
        <3>3. CASE op[a].previous # None
            <4>1. op[a].previous.gen < g
                BY <2>5, <3>3 DEF IsNextGeneration
            <4> QED BY <2>5, <3>1, <4>1
        <3> QED BY <3>2, <3>3
    <2> QED BY <2>1, <2>2, <2>3, <2>4, <2>5 DEF Replacing, Moving
<1> QED BY <1>1, <1>2

\* The files of an artifact, the journal and the manifest that name it.
LEMMA TransitionReplaces ==
    ASSUME IInv, ArchiveInv, NEW a \in Actor,
           WriteDocument(a) \/ WriteFindings(a) \/ Point(a) \/ ArchiveFindings(a)
    PROVE  Replacing(op[a], pc[a])'
<1>0. Replacing(op[a], pc[a]) /\ pc \in [Actor -> Steps] /\ op \in [Actor -> Request]
    BY DEF ArchiveInv, IInv, TypeOK
<1>1. CASE Throw(a)
    BY <1>1, LeftReplacesNothing DEF Throw
<1>2. CASE WriteDocument(a) \/ WriteFindings(a)
    BY <1>0, <1>2 DEF WriteDocument, WriteFindings, Enqueue, Goto, Replacing, Moving
<1>3. CASE Point(a) /\ ~Throw(a)
    <2>1. /\ pc'[a] = AfterPoint(op[a]) /\ op' = op /\ transitions' = transitions
          /\ JournalOf(op[a]) \in transitions
        BY <1>0, <1>3 DEF Point, Goto, journals, Replacing, Moving
    <2>2. op[a].previous # op[a].target
        BY <2>1 DEF ArchiveInv, JournalsReplace, JournalOf
    <2> QED BY <2>1, <2>2 DEF AfterPoint, Replacing, JournalOf
<1>4. CASE ArchiveFindings(a)
    <2> DEFINE x == op[a].previous
    <2>1. /\ x \in superseded /\ superseded' = superseded
          /\ pc'[a] = "closeTransition" /\ op' = op /\ transitions' = transitions
          /\ JournalOf(op[a]) \in transitions
        BY <1>0, <1>4 DEF ArchiveFindings, Goto, journals, Replacing, Moving
    <2>2. x # None => Whole(x)
        BY <2>1 DEF ArchiveInv, JournalsReplace, JournalOf
    <2>3. x # None => SnapshotIntact(x)'
        BY <1>4, <2>1, <2>2 DEF ArchiveFindings, Displaced, Moved, Whole, SnapshotIntact
    <2> QED BY <2>1, <2>3 DEF Replacing, JournalOf
<1> QED BY <1>1, <1>2, <1>3, <1>4

\* Neither directory loses a sidecar that the other does not get.
LEMMA SidecarsStay ==
    ASSUME IInv, NEW a \in Actor, Step(a), ~Archive(a), ~OpenTransition(a), ~CloseTransition(a)
    PROVE  /\ UNCHANGED <<transitions, superseded>>
           /\ supersededFindings \subseteq supersededFindings'
           /\ activeFindings \cup supersededFindings
                 \subseteq activeFindings' \cup supersededFindings'
<1>1. CASE UNCHANGED <<transitions, activeFindings, superseded, supersededFindings>>
    BY <1>1
<1>2. CASE WriteFindings(a)
    BY <1>2 DEF WriteFindings, journals
<1>3. CASE ArchiveFindings(a)
    BY <1>3 DEF ArchiveFindings, Displaced, Moved, journals
<1> QED BY <1>1, <1>2, <1>3 DEF Step, TakeToken, EnterGate, Check, ReadRemoved, ReadOriginal,
        WriteOriginalFindings, WriteOriginalDocument, VerifyOriginal, OpenCorrection,
        CloseCorrection, ReadCurrent, Scan, WriteDocument, Point, Throw, files, journals

\* The journal is written while the artifact it displaces is current and complete.
LEMMA OpenTransitionReplaces ==
    ASSUME IInv, ArchiveInv, NEW a \in Actor, OpenTransition(a)
    PROVE  ArchiveInv'
<1>0. /\ pc \in [Actor -> Steps] /\ op \in [Actor -> Request] /\ op[a] \in Request
      /\ \A b \in Actor \ {a} : pc'[b] = pc[b] /\ op'[b] = op[b]
    BY StepLocal DEF IInv, TypeOK, Step
<1>1. CASE Throw(a)
    BY <1>0, <1>1, LeftReplacesNothing, OneReplaces DEF Throw, files, journals
<1>2. CASE ~Throw(a)
    <2>1. PICK id \in JournalId \ {j.id : j \in transitions} :
            /\ transitions' = transitions \cup
                  {[id |-> id, previous |-> op[a].previous, target |-> op[a].target]}
            /\ op' = [op EXCEPT ![a] = [op[a] EXCEPT !.journal = id]]
        BY <1>2 DEF OpenTransition, Update
    <2> DEFINE new == [id |-> id, previous |-> op[a].previous, target |-> op[a].target]
    <2>2. /\ current = op[a].previous /\ pc'[a] = "point" /\ pc[a] = "queued"
          /\ UNCHANGED <<active, activeFindings, superseded, supersededFindings, current>>
        BY <1>0, <1>2 DEF OpenTransition, Goto, files
    <2>3. JournalOf(op'[a]) = new
        BY <1>0, <2>1 DEF JournalOf, Request
    <2>4. new.previous # new.target /\ (new.previous # None => Whole(new.previous))
        BY <1>0, <2>2 DEF ArchiveInv, Replacing, IInv, CurrentResolves, Readable, Intact, Whole
    <2>5. JournalsReplace'
        BY <2>1, <2>2, <2>4 DEF ArchiveInv, JournalsReplace, Whole
    <2>6. JournalsDiffer'
        BY <2>1 DEF ArchiveInv, JournalsDiffer
    <2>7. \A b \in Actor : Replacing(op[b], pc[b])'
        BY <1>0, <2>1, <2>2, <2>3 DEF ArchiveInv, Replacing, SnapshotIntact, JournalOf
    <2>8. SupersededRestorable'
        BY <2>1, <2>2 DEF ArchiveInv, SupersededRestorable, SnapshotIntact
    <2> QED BY <2>5, <2>6, <2>7, <2>8 DEF ArchiveInv
<1> QED BY <1>1, <1>2

\* What is moved first has a journal that says so.
LEMMA ArchiveReplaces ==
    ASSUME IInv, ArchiveInv, NEW a \in Actor, Archive(a)
    PROVE  ArchiveInv'
<1>0. /\ pc \in [Actor -> Steps] /\ op \in [Actor -> Request] /\ op[a] \in Request
      /\ \A b \in Actor \ {a} : pc'[b] = pc[b] /\ op'[b] = op[b]
    BY StepLocal DEF IInv, TypeOK, Step
<1>1. CASE Throw(a)
    BY <1>0, <1>1, LeftReplacesNothing, OneReplaces DEF Throw, files, journals
<1>2. CASE ~Throw(a)
    <2> DEFINE x == op[a].previous
    <2>1. /\ superseded' = superseded \cup {x} /\ pc'[a] = AfterArchive(x) /\ op' = op
          /\ UNCHANGED <<activeFindings, supersededFindings, transitions>>
          /\ JournalOf(op[a]) \in transitions
        BY <1>0, <1>2 DEF Archive, Displaced, Goto, journals, ArchiveInv, Replacing, Moving
    <2>2. \A b \in Actor : Replacing(op[b], pc[b])'
        BY <1>0, <2>1 DEF AfterArchive, ArchiveInv, Replacing, SnapshotIntact, JournalOf
    <2>3. SupersededRestorable'
        BY <2>1 DEF ArchiveInv, SupersededRestorable, SnapshotIntact, JournalOf
    <2>4. JournalsDiffer' /\ JournalsReplace'
        BY <2>1 DEF ArchiveInv, JournalsDiffer, JournalsReplace, Whole
    <2> QED BY <2>2, <2>3, <2>4 DEF ArchiveInv
<1> QED BY <1>1, <1>2

\* The journal goes when both files are there.
LEMMA CloseTransitionReplaces ==
    ASSUME IInv, ArchiveInv, NEW a \in Actor, CloseTransition(a)
    PROVE  ArchiveInv'
<1>0. /\ pc \in [Actor -> Steps] /\ op \in [Actor -> Request] /\ op[a] \in Request
      /\ \A b \in Actor \ {a} : pc'[b] = pc[b] /\ op'[b] = op[b]
      /\ pc[a] = "closeTransition" /\ Replacing(op[a], pc[a])
    BY StepLocal DEF IInv, TypeOK, Step, CloseTransition, ArchiveInv
<1>1. pc'[a] \in {"idle", "transitions", "closeCorrection"}
    BY <1>0 DEF CloseTransition, Saved, Leave, Goto
<1>2. /\ transitions' = {j \in transitions : j.id # op[a].journal}
      /\ UNCHANGED <<activeFindings, superseded, supersededFindings>>
    BY DEF CloseTransition, Unlinked, files
<1>3. JournalOf(op[a]) \in transitions /\ JournalOf(op[a]).id = op[a].journal
    BY <1>0 DEF Replacing, Moving, JournalOf
<1>4. \A b \in Actor \ {a} : pc[b] \notin Moving
    BY <1>0, MovesAlone DEF Moving
<1>5. \A b \in Actor : Replacing(op[b], pc[b])'
    BY <1>0, <1>1, <1>2, <1>4 DEF ArchiveInv, Replacing, Moving, SnapshotIntact
<1>6. JournalsDiffer' /\ JournalsReplace'
    BY <1>2 DEF ArchiveInv, JournalsDiffer, JournalsReplace, Whole
<1>7. ASSUME NEW x \in superseded', ~SnapshotIntact(x)'
      PROVE  \E j \in transitions' : j.previous = x
    <2>1. x \in superseded /\ ~SnapshotIntact(x)
        BY <1>2, <1>7 DEF SnapshotIntact
    <2>2. PICK j \in transitions : j.previous = x
        BY <2>1 DEF ArchiveInv, SupersededRestorable
    <2>3. x # None
        BY <2>1, NoneAssumption DEF IInv, TypeOK
    <2>4. op[a].previous # x
        BY <1>0, <2>1, <2>3 DEF Replacing
    <2>5. j.id # op[a].journal
        BY <1>3, <2>2, <2>4 DEF ArchiveInv, JournalsDiffer, JournalOf
    <2> QED BY <1>2, <2>2, <2>5
<1>8. SupersededRestorable'
    BY <1>7 DEF SupersededRestorable
<1> QED BY <1>5, <1>6, <1>8 DEF ArchiveInv

\* Startup takes over a journal as it was left.
LEMMA RecoverReplaces ==
    ASSUME IInv, ArchiveInv, Recover
    PROVE  ArchiveInv'
<1>0. /\ pc \in [Actor -> Steps] /\ op \in [Actor -> Request] /\ Startup \in Actor
      /\ UNCHANGED <<files, transitions>>
      /\ \A b \in Actor \ {Startup} : pc'[b] = pc[b] /\ op'[b] = op[b]
    BY DEF Recover, RecoverTransition, RecoverCorrection, CheckIntegrity, Goto, Update,
           journals, IInv, TypeOK, Actor
<1>1. CASE RecoverTransition /\ pc'[Startup] = "point"
    <2>1. PICK j \in transitions : op'[Startup] =
            [NoRequest EXCEPT !.previous = j.previous, !.target = j.target, !.journal = j.id]
        BY <1>0, <1>1 DEF RecoverTransition, Update, Goto
    <2>2. j = [id |-> j.id, previous |-> j.previous, target |-> j.target]
        BY DEF IInv, TypeOK
    <2>3. JournalOf(op'[Startup]) = j
        BY <2>1, <2>2 DEF JournalOf, NoRequest
    <2>4. Replacing(op[Startup], pc[Startup])'
        BY <1>0, <1>1, <2>3 DEF Replacing, JournalOf
    <2> QED BY <1>0, <2>4, OneReplaces DEF files
<1>2. CASE pc'[Startup] \in {"corrections", "original", "integrity", "idle"}
    <2>1. Replacing(op[Startup], pc[Startup])'
        BY <1>2 DEF Replacing, Moving
    <2> QED BY <1>0, <2>1, OneReplaces DEF files
<1> QED BY <1>0, <1>1, <1>2 DEF Recover, RecoverTransition, RecoverCorrection, CheckIntegrity, Goto

LEMMA ArchiveInitially == Init => ArchiveInv
BY DEF Init, ArchiveInv, JournalsDiffer, JournalsReplace, Replacing, SupersededRestorable, Moving

LEMMA ArchiveInductive == IInv /\ ArchiveInv /\ [Next]_vars => ArchiveInv'
<1> SUFFICES ASSUME IInv, ArchiveInv, [Next]_vars PROVE ArchiveInv'
    OBVIOUS
<1>1. ASSUME NEW a \in Actor, Step(a), ~Archive(a), ~OpenTransition(a), ~CloseTransition(a)
      PROVE  ArchiveInv'
    <2>1. Replacing(op[a], pc[a])'
        BY <1>1, EarlyStepReplaces, ScanReplaces, TransitionReplaces DEF Step
    <2> QED BY <1>1, <2>1, SidecarsStay, StepLocal, OneReplaces
<1>2. ASSUME NEW a \in Actor, Step(a), Archive(a) \/ OpenTransition(a) \/ CloseTransition(a)
      PROVE  ArchiveInv'
    BY <1>2, ArchiveReplaces, OpenTransitionReplaces, CloseTransitionReplaces
<1>3. ASSUME NEW a \in Operation, Start(a)
      PROVE  ArchiveInv'
    <2>1. PICK kind, content, base : Begin(a, kind, content, base)
        BY <1>3 DEF Start
    <2>2. pc'[a] \in {"target", "waiting", "check"} /\ op'[a].target = None
        BY <2>1 DEF Begin, Goto, Update, NoRequest, IInv, TypeOK, Actor
    <2>3. Replacing(op[a], pc[a])'
        BY <2>2 DEF Replacing, Moving
    <2>4. UNCHANGED <<files, transitions>> /\ a \in Actor
        BY <1>3 DEF Start, journals, Actor
    <2> QED BY <1>3, <2>3, <2>4, StepLocal, OneReplaces DEF files
<1>4. ASSUME NEW a \in Operation, Fault(a)
      PROVE  ArchiveInv'
    <2>1. UNCHANGED <<files, transitions>> /\ a \in Actor /\ Leave(a)
        BY <1>4 DEF Fault, journals, Actor
    <2> QED BY <1>4, <2>1, LeftReplacesNothing, StepLocal, OneReplaces DEF files
<1>5. CASE Crash
    <2>1. /\ UNCHANGED <<files, transitions>>
          /\ \A a \in Actor : pc'[a] \in {"transitions", "idle"}
        BY <1>5 DEF Crash, journals
    <2>2. \A a \in Actor : Replacing(op[a], pc[a])'
        BY <2>1 DEF Replacing, Moving
    <2> QED BY <2>1, <2>2 DEF ArchiveInv, JournalsDiffer, JournalsReplace, Whole,
               SupersededRestorable, SnapshotIntact, files
<1>6. CASE UNCHANGED vars
    BY <1>6 DEF vars, files, journals, ArchiveInv, JournalsDiffer, JournalsReplace, Replacing,
            JournalOf, Whole, SupersededRestorable, SnapshotIntact
<1> QED BY <1>1, <1>2, <1>3, <1>4, <1>5, <1>6, RecoverReplaces DEF Next

\* However transitions, failed writes and crashes interleave, what was archived can be read
\* back whole, or a journal is there to finish moving it (rollForwardWorkspaceTransition).
THEOREM SupersededAlwaysRestorable == Spec => []SupersededRestorable
<1>1. ArchiveInv => SupersededRestorable
    BY DEF ArchiveInv
<1> QED BY <1>1, ArchiveInitially, ArchiveInductive, Invariance, PTL DEF Spec


-----------------------------------------------------------------------------
(* Collections and imports alone: withGameOperation lets one in at a time. *)

OnlyGated == Kinds \subseteq GatedKinds

Quiet == {"idle", "target", "waiting", "gate"}
Inside == {"remove", "original", "originalFindings", "originalDocument", "verify", "read",
           "scan", "document", "findings", "queued"} \cup Moving
Repairing == {"idle", "transitions", "corrections", "integrity"} \cup Moving

\* There are no corrections to journal or to replay, and who is past the gate heads it.
GateInv ==
    /\ corrections = {}
    /\ \A a \in Actor : op[a].kind \notin CorrectionKinds /\ op[a].correction = None
    /\ \A a \in Operation :
        /\ pc[a] \in Quiet \cup Inside
        /\ pc[a] \in Inside => IsHead(gate, a) /\ op[a].kind # "none"
    /\ pc[Startup] \in Repairing
    /\ op[Startup].kind = "none"

\* What a step of a request past the gate, or to it, does to the request.
GatedStep(a) ==
    /\ corrections' = corrections
    /\ gate' \in {gate, Append(gate, a), Without(gate, a)}
    /\ pc'[a] \in Quiet \cup Inside
    /\ pc'[a] \in Inside =>
          /\ gate' = gate /\ op'[a].kind # "none"
          /\ pc[a] \in Inside \/ (pc[a] = "gate" /\ IsHead(gate, a))
    /\ op'[a].kind \notin CorrectionKinds /\ op'[a].correction = None

LEMMA LeftGate ==
    ASSUME IInv, NEW a \in Actor, Leave(a), corrections' = corrections
    PROVE  GatedStep(a)
<1>1. pc'[a] = "idle" /\ op'[a] = NoRequest /\ gate' = Without(gate, a)
    BY DEF Leave, Goto, Update, IInv, TypeOK
<1> QED BY <1>1 DEF GatedStep, Quiet, Inside, Moving, NoRequest, CorrectionKinds

\* A request is answered, or goes on with its kind.
LEMMA StepIsGated ==
    ASSUME IInv, GateInv, NEW a \in Operation, Step(a)
    PROVE  GatedStep(a)
<1>0. /\ pc \in [Actor -> Steps] /\ op \in [Actor -> Request] /\ op[a] \in Request /\ a \in Actor
      /\ op[a].kind \notin CorrectionKinds /\ op[a].correction = None
      /\ pc[a] \in Quiet \cup Inside
      /\ pc[a] \in Inside => op[a].kind # "none"
    BY DEF IInv, TypeOK, GateInv, Actor
<1>1. CASE Throw(a)
    BY <1>0, <1>1, LeftGate DEF Throw, journals
<1>2. CASE Leave(a) /\ corrections' = corrections
    BY <1>0, <1>2, LeftGate
<1>3. CASE TakeToken(a) \/ EnterGate(a)
    BY <1>0, <1>3 DEF TakeToken, EnterGate, Goto, Update, GatedStep, Quiet, Inside, Moving,
          Request, queues, journals
<1>4. CASE Check(a) /\ ~Throw(a)
    <2>1. /\ pc'[a] = AfterCheck(a) /\ op'[a] = op[a]
          /\ pc[a] = "gate" /\ IsHead(gate, a) /\ op[a].kind # "none"
          /\ UNCHANGED <<gate, corrections>>
        BY <1>0, <1>4 DEF Check, Checked, Goto, Update, Quiet, Inside, Moving, CorrectionKinds,
              queues, journals, IInv, WellFormed
    <2> QED BY <1>0, <2>1 DEF AfterCheck, GatedStep, Inside
<1>5. CASE ReadRemoved(a) /\ ~Throw(a)
    BY <1>0, <1>5 DEF ReadRemoved, Enqueue, Goto, Update, GatedStep, Inside, Request, journals
<1>6. CASE \/ ReadOriginal(a) \/ WriteOriginalFindings(a) \/ WriteOriginalDocument(a)
           \/ (VerifyOriginal(a) /\ ~Throw(a))
    <2>1. /\ pc'[a] \in {"originalFindings", "originalDocument", "verify", "read"}
          /\ op' = op /\ UNCHANGED <<gate, corrections>> /\ pc[a] \in Inside
        BY <1>0, <1>6 DEF ReadOriginal, WriteOriginalFindings, WriteOriginalDocument,
              VerifyOriginal, AfterOriginal, Goto, Inside, queues, journals
    <2> QED BY <1>0, <2>1 DEF GatedStep, Inside
<1>7. ~OpenCorrection(a) /\ ~CloseCorrection(a)
    BY <1>0 DEF OpenCorrection, CloseCorrection, Quiet, Inside, Moving
<1>8. CASE ReadCurrent(a) /\ ~Throw(a) /\ ~Leave(a)
    BY <1>0, <1>8 DEF ReadCurrent, Saved, Goto, Update, GatedStep, Inside, Request, queues, journals
<1>9. CASE Scan(a) /\ ~Throw(a)
    <2>1. PICK x \in Artifact, step \in {"queued", "document"} :
            /\ op' = [op EXCEPT ![a] = [op[a] EXCEPT !.target = x]]
            /\ pc' = [pc EXCEPT ![a] = step]
            /\ UNCHANGED <<gate, corrections>>
        BY <1>0, <1>9, ScanChooses DEF journals
    <2>2. pc[a] \in Inside
        BY <1>9 DEF Scan, Inside
    <2> QED BY <1>0, <2>1, <2>2 DEF GatedStep, Inside, Request
<1>10. CASE WriteDocument(a) \/ WriteFindings(a)
    BY <1>0, <1>10 DEF WriteDocument, WriteFindings, Enqueue, Goto, GatedStep, Inside, journals
<1>11. CASE OpenTransition(a) /\ ~Throw(a)
    BY <1>0, <1>11 DEF OpenTransition, Goto, Update, GatedStep, Inside, Moving, Request, queues
<1>12. CASE (Point(a) /\ ~Throw(a)) \/ (Archive(a) /\ ~Throw(a)) \/ ArchiveFindings(a)
    BY <1>0, <1>12 DEF Point, AfterPoint, Archive, AfterArchive, ArchiveFindings, Goto, GatedStep,
          Inside, Moving, queues, journals
<1>13. CASE CloseTransition(a)
    <2>1. Leave(a) /\ corrections' = corrections
        BY <1>0, <1>13 DEF CloseTransition, Saved, Inside, Moving
    <2> QED BY <1>0, <2>1, LeftGate
<1>14. CASE ReadCurrent(a) /\ Leave(a)
    BY <1>2, <1>14, <1>1 DEF ReadCurrent, journals
<1> QED BY <1>1, <1>3, <1>4, <1>5, <1>6, <1>7, <1>8, <1>9, <1>10, <1>11, <1>12, <1>13, <1>14 DEF Step

\* A request that starts is none of the corrections.
LEMMA StartIsGated ==
    ASSUME OnlyGated, IInv, GateInv, NEW a \in Operation, Start(a)
    PROVE  GatedStep(a)
<1>1. PICK kind, content, base : kind \in Kinds /\ Begin(a, kind, content, base)
    BY DEF Start
<1>2. kind \in {"collect", "fail", "import"}
    BY <1>1 DEF OnlyGated, GatedKinds, CollectionKinds
<1>3. /\ pc'[a] \in {"target", "waiting"} /\ op'[a].kind = kind /\ op'[a].correction = None
    BY <1>1, <1>2 DEF Begin, Goto, Update, NoRequest, IInv, TypeOK, Actor, CollectionKinds
<1> QED BY <1>2, <1>3 DEF Start, GatedStep, Quiet, Inside, Moving, CorrectionKinds, queues, journals

\* Nobody else is past the gate when the head of it goes on.
LEMMA GatedStepKeeps ==
    ASSUME IInv, GateInv, NEW a \in Operation, GatedStep(a), Step(a) \/ Start(a) \/ Fault(a)
    PROVE  GateInv'
<1>1. a \in Actor /\ \A b \in Actor \ {a} : pc'[b] = pc[b] /\ op'[b] = op[b]
    BY StepLocal DEF Actor
<1>2. \A b \in Actor \ {a} : IsHead(gate, b) => IsHead(gate', b)
    <2>1. gate \in Seq(Actor) /\ a \in Actor
        BY <1>1 DEF IInv, TypeOK
    <2>2. \A b \in Actor \ {a} : IsHead(gate, b) =>
            IsHead(Without(gate, a), b) /\ IsHead(Append(gate, a), b)
        BY <2>1, QueueTypes
    <2> QED BY <2>2 DEF GatedStep
<1>3. \A b \in Actor : op'[b].kind \notin CorrectionKinds /\ op'[b].correction = None
    BY <1>1 DEF GateInv, GatedStep
<1>4. ASSUME NEW b \in Operation
      PROVE  /\ pc'[b] \in Quiet \cup Inside
             /\ pc'[b] \in Inside => IsHead(gate', b) /\ op'[b].kind # "none"
    <2>1. CASE b = a
        BY <2>1 DEF GateInv, GatedStep
    <2>2. CASE b # a
        BY <1>1, <1>2, <2>2 DEF GateInv, Actor
    <2> QED BY <2>1, <2>2
<1>5. pc'[Startup] = pc[Startup] /\ op'[Startup] = op[Startup]
    BY <1>1, ActorAssumption DEF Actor
<1> QED BY <1>1, <1>3, <1>4, <1>5 DEF GateInv, GatedStep

\* Startup repairs transitions alone.
LEMMA StartupIsGated ==
    ASSUME IInv, GateInv, Step(Startup) \/ Recover
    PROVE  GateInv'
<1>0. /\ pc \in [Actor -> Steps] /\ op \in [Actor -> Request] /\ Startup \in Actor
      /\ pc[Startup] \in Repairing /\ op[Startup].kind = "none" /\ op[Startup].correction = None
    BY DEF IInv, TypeOK, GateInv, Actor
<1>1. \A b \in Actor \ {Startup} : pc'[b] = pc[b] /\ op'[b] = op[b]
    <2>1. CASE Step(Startup)
        BY <1>0, <2>1, StepLocal
    <2>2. CASE Recover
        BY <1>0, <2>2 DEF Recover, RecoverTransition, RecoverCorrection, CheckIntegrity, Goto, Update
    <2> QED BY <2>1, <2>2
<1>2. CASE pc[Startup] # "idle"
    <2>1. \A b \in Operation : pc[b] = "idle"
        BY <1>2 DEF IInv, Exclusive
    <2>2. \A b \in Operation : pc'[b] = "idle" /\ b \in Actor /\ op'[b] = op[b]
        BY <1>1, <2>1, ActorAssumption DEF Actor
    <2>3. /\ corrections' = {} /\ pc'[Startup] \in Repairing /\ op'[Startup].kind = "none"
          /\ op'[Startup].correction = None
        <3>1. CASE Recover
            <4>1. CASE RecoverTransition
                <5>1. CASE op' = op
                    BY <1>0, <4>1, <5>1 DEF RecoverTransition, Goto, Repairing, Moving, journals, GateInv
                <5>2. ASSUME NEW j, op' = [op EXCEPT ![Startup] = [NoRequest EXCEPT
                             !.previous = j.previous, !.target = j.target, !.journal = j.id]]
                      PROVE  op'[Startup].kind = "none" /\ op'[Startup].correction = None
                    BY <1>0, <5>2 DEF NoRequest
                <5> QED BY <1>0, <4>1, <5>1, <5>2 DEF RecoverTransition, Goto, Update, Repairing,
                           Moving, journals, GateInv
            <4>2. CASE RecoverCorrection
                BY <1>0, <4>2 DEF RecoverCorrection, Goto, Repairing, journals, GateInv
            <4>3. CASE CheckIntegrity
                BY <1>0, <4>3 DEF CheckIntegrity, Goto, Repairing, journals, GateInv
            <4> QED BY <3>1, <4>1, <4>2, <4>3 DEF Recover
        <3>2. CASE Step(Startup)
            <4>1. Point(Startup) \/ Archive(Startup) \/ ArchiveFindings(Startup) \/ CloseTransition(Startup)
                BY <1>0, <1>2, <3>2 DEF Step, Repairing, Moving, TakeToken, EnterGate, Check, ReadRemoved, ReadOriginal,
                    WriteOriginalFindings, WriteOriginalDocument, VerifyOriginal, OpenCorrection, CloseCorrection,
                    ReadCurrent, Scan, WriteDocument, WriteFindings, OpenTransition
            <4>2. CASE Throw(Startup)
                BY <1>0, <4>2 DEF Throw, Leave, Goto, Update, NoRequest, Repairing, journals, GateInv
            <4>3. CASE ~Throw(Startup)
                BY <1>0, <4>1, <4>3 DEF Point, AfterPoint, Archive, AfterArchive, ArchiveFindings,
                   CloseTransition, Goto, Update, NoRequest, Repairing, Moving, journals, GateInv
            <4> QED BY <4>2, <4>3
        <3> QED BY <3>1, <3>2
    <2>4. \A b \in Actor : op'[b].kind \notin CorrectionKinds /\ op'[b].correction = None
        BY <1>1, <2>3 DEF GateInv, CorrectionKinds
    <2> QED BY <2>2, <2>3, <2>4 DEF GateInv, Quiet, Inside, Moving
<1>3. CASE pc[Startup] = "idle"
    BY <1>3 DEF Step, Recover, RecoverTransition, RecoverCorrection, CheckIntegrity, TakeToken,
        EnterGate, Check, ReadRemoved, ReadOriginal, WriteOriginalFindings, WriteOriginalDocument,
        VerifyOriginal, OpenCorrection, CloseCorrection, ReadCurrent, Scan, WriteDocument,
        WriteFindings, OpenTransition, Point, Archive, ArchiveFindings, CloseTransition
<1> QED BY <1>2, <1>3

LEMMA GateInitially == Init => GateInv
BY ActorAssumption DEF Init, GateInv, NoRequest, Actor, Quiet, Inside, Repairing, Moving, CorrectionKinds

LEMMA GateInductive ==
    ASSUME OnlyGated PROVE IInv /\ GateInv /\ [Next]_vars => GateInv'
<1> SUFFICES ASSUME IInv, GateInv, [Next]_vars PROVE GateInv'
    OBVIOUS
<1>1. ASSUME NEW a \in Operation, Start(a) PROVE GateInv'
    BY <1>1, StartIsGated, GatedStepKeeps
<1>2. ASSUME NEW a \in Operation, Fault(a) PROVE GateInv'
    BY <1>2, LeftGate, GatedStepKeeps DEF Fault, journals, Actor
<1>3. ASSUME NEW a \in Actor, Step(a) PROVE GateInv'
    BY <1>3, StepIsGated, GatedStepKeeps, StartupIsGated DEF Actor
<1>4. CASE Crash
    <2>1. /\ pc'[Startup] = "transitions" /\ \A a \in Operation : pc'[a] = "idle"
          /\ \A a \in Actor : op'[a] = NoRequest
          /\ corrections' = corrections
        BY <1>4, ActorAssumption DEF Crash, journals, Actor
    <2> QED BY <2>1 DEF GateInv, NoRequest, Actor, Quiet, Inside, Repairing, Moving, CorrectionKinds
<1>5. CASE Recover
    BY <1>5, StartupIsGated
<1>6. CASE UNCHANGED vars
    BY <1>6 DEF vars, GateInv, journals, queues, IsHead
<1> QED BY <1>1, <1>2, <1>3, <1>4, <1>5, <1>6 DEF Next

-----------------------------------------------------------------------------
(* The first ledger, and the ledger that an import removes. *)

\* The original is written by whoever has seen that it is missing, with its findings.
OriginalKept ==
    /\ OriginalComplete
    /\ \A a \in Operation :
        /\ pc[a] \in {"originalFindings", "originalDocument"} => original = None
        /\ pc[a] = "originalDocument" => originalFindings = OriginalFindings(a)

\* An import finds the ledger it has imported current until it removes it.
ImportedIsCurrent ==
    \A a \in Operation : op[a].kind = "import" =>
        /\ pc[a] \in {"remove", "queued", "point"} =>
              IsDocument(current) /\ SameDocument(current.content, op[a].base.content)
        /\ pc[a] \notin {"document", "findings"}

KeptInv == OriginalKept /\ ImportedIsCurrent

\* One request is past the gate, and none while startup repairs.
LEMMA InsideAlone ==
    ASSUME IInv, GateInv, NEW a \in Operation, NEW b \in Actor \ {a}, pc[a] \in Inside
    PROVE  pc[b] \notin Inside
<1>1. CASE b \in Operation
    BY <1>1 DEF GateInv, IsHead
<1>2. CASE b = Startup
    <2>1. mode = "open"
        BY DEF IInv, Exclusive, Inside, Moving
    <2> QED BY <1>2, <2>1 DEF IInv, Exclusive, Inside, Moving
<1> QED BY <1>1, <1>2 DEF Actor

\* Who writes the original is past the gate.
LEMMA OriginalsStay ==
    ASSUME IInv, GateInv, Next, UNCHANGED originals => FALSE
    PROVE  \E a \in Operation : WriteOriginalFindings(a) \/ WriteOriginalDocument(a)
<1>1. ASSUME NEW a \in Actor, Step(a), ~WriteOriginalFindings(a), ~WriteOriginalDocument(a)
      PROVE  UNCHANGED originals
    BY <1>1 DEF Step, TakeToken, EnterGate, Check, ReadRemoved, ReadOriginal, VerifyOriginal,
        OpenCorrection, CloseCorrection, ReadCurrent, Scan, WriteDocument, WriteFindings,
        OpenTransition, Point, Archive, ArchiveFindings, CloseTransition, Throw
<1>2. ASSUME NEW a \in Operation, Start(a) \/ Fault(a) PROVE UNCHANGED originals
    BY <1>2 DEF Start, Fault
<1>3. ASSUME Crash \/ Recover PROVE UNCHANGED originals
    BY <1>3 DEF Crash, Recover, RecoverTransition, RecoverCorrection, CheckIntegrity
<1>4. ~WriteOriginalFindings(Startup) /\ ~WriteOriginalDocument(Startup)
    BY DEF GateInv, Repairing, Moving, WriteOriginalFindings, WriteOriginalDocument
<1> QED BY <1>1, <1>2, <1>3, <1>4 DEF Next, Actor

\* The findings are written before the document, for the same ledger.
LEMMA OriginalStep ==
    ASSUME IInv, GateInv, OriginalKept, NEW a \in Operation,
           WriteOriginalFindings(a) \/ WriteOriginalDocument(a)
    PROVE  OriginalKept' /\ original = None
<1>0. /\ pc \in [Actor -> Steps] /\ a \in Actor /\ op' = op
      /\ pc' = [pc EXCEPT ![a] = IF WriteOriginalFindings(a) THEN "originalDocument" ELSE "verify"]
    BY DEF IInv, TypeOK, Actor, WriteOriginalFindings, WriteOriginalDocument, Goto
<1>1. pc[a] \in Inside /\ original = None
    BY DEF OriginalKept, WriteOriginalFindings, WriteOriginalDocument, Inside
<1>2. \A b \in Operation \ {a} : pc'[b] = pc[b] /\ pc[b] \notin Inside
    BY <1>0, <1>1, InsideAlone DEF Actor
<1>3. OriginalContent(a) = op[a].content /\ op[a].content \in Content /\ a # Startup
    BY ActorAssumption DEF OriginalContent, GateInv, Actor, IInv, WellFormed, Saving,
       WriteOriginalFindings, WriteOriginalDocument
<1>4. CASE WriteOriginalFindings(a)
    <2>1. original' = None /\ originalFindings' = OriginalFindings(a) /\ OriginalFindings(a)' = OriginalFindings(a)
        BY <1>0, <1>1, <1>4 DEF WriteOriginalFindings, OriginalFindings, OriginalContent
    <2> QED BY <1>0, <1>1, <1>2, <2>1 DEF OriginalKept, OriginalComplete, Inside
<1>5. CASE WriteOriginalDocument(a)
    <2>1. original' = op[a].content /\ originalFindings' = OriginalFindings(a) /\ pc'[a] = "verify"
        BY <1>0, <1>3, <1>5 DEF WriteOriginalDocument, OriginalKept, Goto
    <2>2. OriginalFindings(a) = IF op[a].content \in WithFindings THEN op[a].content ELSE None
        BY <1>3 DEF OriginalFindings
    <2> QED BY <1>1, <1>2, <2>1, <2>2 DEF OriginalKept, OriginalComplete, Inside
<1> QED BY <1>1, <1>4, <1>5

\* Any other step goes to the original's only from the look that finds none.
LEMMA OtherStepsKeepOriginal ==
    ASSUME IInv, GateInv, OriginalKept, [Next]_vars, UNCHANGED originals,
           \A a \in Operation : ~WriteOriginalFindings(a)
    PROVE  OriginalKept'
<1>0. pc \in [Actor -> Steps] /\ OriginalComplete'
    BY DEF IInv, TypeOK, OriginalKept, OriginalComplete, originals
<1>1. SUFFICES ASSUME NEW b \in Operation, pc'[b] \in {"originalFindings", "originalDocument"}
      PROVE  \/ pc'[b] = "originalFindings" /\ original = None
             \/ pc'[b] = pc[b] /\ op'[b] = op[b]
    BY <1>0 DEF OriginalKept, originals, OriginalFindings, OriginalContent
<1>2. ASSUME NEW a \in Actor, Step(a) \/ Start(a) \/ Fault(a), a # b
      PROVE  pc'[b] = pc[b] /\ op'[b] = op[b]
    BY <1>2, StepLocal DEF Actor
<1>3. ASSUME Step(b) PROVE pc'[b] = "originalFindings" /\ original = None
    <2>0. b \in Actor
        BY DEF Actor
    <2>1. CASE ReadOriginal(b)
        BY <1>0, <1>1, <2>0, <2>1 DEF ReadOriginal, OriginalMissing, AfterOriginal, Goto
    <2>2. CASE Scan(b) /\ ~Throw(b)
        BY <1>0, <1>1, <2>0, <2>2, ScanChooses
    <2>3. CASE Throw(b) \/ Leave(b)
        BY <1>0, <1>1, <2>0, <2>3 DEF Throw, Leave, Goto
    <2>4. CASE ~ReadOriginal(b) /\ ~Scan(b) /\ ~Throw(b) /\ ~Leave(b)
        BY <1>0, <1>1, <1>3, <2>0, <2>4 DEF Step, TakeToken, EnterGate, Check, AfterCheck, ReadRemoved, Enqueue,
           WriteOriginalFindings, WriteOriginalDocument, VerifyOriginal, AfterOriginal, OpenCorrection,
           CloseCorrection, ReadCurrent, Saved, WriteDocument, WriteFindings, OpenTransition, Point, AfterPoint,
           Archive, AfterArchive, ArchiveFindings, CloseTransition, Goto
    <2> QED BY <1>3, <2>1, <2>2, <2>3, <2>4
<1>4. ~Start(b) /\ ~Fault(b)
    BY <1>0, <1>1 DEF Start, Begin, Fault, Leave, Goto, Actor
<1>5. CASE Crash
    BY <1>1, <1>5, ActorAssumption DEF Crash, Actor
<1>6. CASE Recover
    BY <1>6, <1>0, ActorAssumption DEF Recover, RecoverTransition, RecoverCorrection,
       CheckIntegrity, Goto, Update, IInv, TypeOK, Actor
<1>7. CASE UNCHANGED vars
    BY <1>7 DEF vars
<1> QED BY <1>2, <1>3, <1>4, <1>5, <1>6, <1>7 DEF Next, Actor

\* The manifest is replaced by who is past the gate, or by startup.
LEMMA ManifestStays ==
    ASSUME IInv, GateInv, [Next]_vars, current' # current
    PROVE  \E a \in Actor : Point(a) /\ \A b \in Operation \ {a} : pc'[b] = pc[b] /\ pc[b] \notin Inside
<1>1. PICK a \in Actor : Step(a)
    BY DEF Next, Start, Fault, Crash, Recover, RecoverTransition, RecoverCorrection,
           CheckIntegrity, vars
<1>2. Point(a)
    BY <1>1, OnlyPointMoves
<1>3. \A b \in Operation \ {a} : pc'[b] = pc[b]
    BY <1>1, StepLocal DEF Actor
<1>4. CASE a \in Operation
    BY <1>2, <1>3, <1>4, InsideAlone DEF Point, Inside, Moving, Actor
<1>5. CASE a = Startup
    <2>1. \A b \in Operation : pc[b] = "idle"
        BY <1>2, <1>5 DEF IInv, Exclusive, Point
    <2> QED BY <1>2, <1>3, <2>1 DEF Inside, Moving
<1> QED BY <1>2, <1>3, <1>4, <1>5 DEF Actor

LEMMA ImportedStays ==
    ASSUME IInv, GateInv, ImportedIsCurrent, [Next]_vars
    PROVE  ImportedIsCurrent'
<1>0. pc \in [Actor -> Steps] /\ op \in [Actor -> Request] /\ \A b \in Operation : b \in Actor /\ op[b] \in Request
    BY DEF IInv, TypeOK, Actor
<1> DEFINE Holds(b) == op[b].kind = "import" =>
        /\ pc[b] \in {"remove", "queued", "point"} =>
              IsDocument(current) /\ SameDocument(current.content, op[b].base.content)
        /\ pc[b] \notin {"document", "findings"}
<1>1. ASSUME NEW b \in Operation, pc'[b] = pc[b], op'[b] = op[b], current' = current \/ pc[b] \notin Inside
      PROVE  Holds(b)'
    BY <1>1 DEF ImportedIsCurrent, IsDocument, SameDocument, Inside, Moving
<1>2. ASSUME NEW b \in Operation, Step(b) PROVE Holds(b)'
    <2>1. ASSUME pc'[b] \notin {"remove", "queued", "point", "document", "findings"} PROVE Holds(b)'
        BY <2>1
    <2>2. CASE Throw(b) \/ Leave(b)
        BY <1>0, <2>1, <2>2 DEF Throw, Leave, Goto
    <2>3. CASE Check(b) /\ ~Throw(b)
        <3>1. pc'[b] = AfterCheck(b) /\ op'[b].kind = op[b].kind /\ current' = current
            BY <1>0, <2>3 DEF Check, Checked, Goto, Update, Request
        <3>2. CASE op[b].kind = "import"
            BY <1>0, <2>3, <3>1, <3>2 DEF Check, Admissible, IsImported, IsReady, Checked, AfterCheck,
               Update, CollectionKinds
        <3> QED BY <3>1, <3>2
    <2>4. CASE ReadRemoved(b) /\ ~Throw(b)
        BY <1>0, <2>4 DEF ReadRemoved, Enqueue, Goto, Update, Request, ImportedIsCurrent
    <2>5. CASE ReadCurrent(b) /\ ~Throw(b) /\ ~Leave(b)
        BY <1>0, <2>1, <2>5 DEF ReadCurrent, Saved, Goto
    <2>6. CASE Scan(b) /\ ~Throw(b)
        <3>1. op'[b].kind = op[b].kind
            BY <1>0, <2>6, ScanChooses DEF Request
        <3> QED BY <1>0, <2>6, <3>1 DEF Scan, IInv, WellFormed, Saving
    <2>7. CASE WriteDocument(b) \/ WriteFindings(b)
        BY <1>0, <2>7 DEF WriteDocument, WriteFindings, ImportedIsCurrent
    <2>8. CASE OpenTransition(b) /\ ~Throw(b)
        BY <1>0, <2>8 DEF OpenTransition, Goto, Update, Request, ImportedIsCurrent
    <2>9. CASE ~Throw(b) /\ ~Leave(b) /\ ~Check(b) /\ ~ReadRemoved(b) /\ ~ReadCurrent(b) /\ ~Scan(b)
               /\ ~WriteDocument(b) /\ ~WriteFindings(b) /\ ~OpenTransition(b)
        <3>1. pc'[b] \notin {"remove", "queued", "point", "document", "findings"}
            BY <1>0, <1>2, <2>9 DEF Step, TakeToken, EnterGate, ReadOriginal, WriteOriginalFindings,
               WriteOriginalDocument, VerifyOriginal, AfterOriginal, OpenCorrection, CloseCorrection, Point,
               AfterPoint, Archive, AfterArchive, ArchiveFindings, CloseTransition, Saved, Goto
        <3> QED BY <2>1, <3>1
    <2> QED BY <2>2, <2>3, <2>4, <2>5, <2>6, <2>7, <2>8, <2>9
<1>3. ASSUME NEW a \in Actor, Step(a) PROVE ImportedIsCurrent'
    <2>1. \A b \in Operation \ {a} : pc'[b] = pc[b] /\ op'[b] = op[b]
        BY <1>3, StepLocal DEF Actor
    <2>2. CASE current' = current
        BY <1>1, <1>2, <1>3, <2>1, <2>2 DEF ImportedIsCurrent
    <2>3. CASE current' # current
        <3>1. Point(a)
            BY <1>3, <2>3, OnlyPointMoves
        <3>2. \A b \in Operation \ {a} : pc[b] \notin Inside
            <4>1. PICK c \in Actor : Point(c) /\ \A b \in Operation \ {c} : pc'[b] = pc[b] /\ pc[b] \notin Inside
                BY <2>3, ManifestStays
            <4>2. c = a
                BY <3>1, <4>1, MovesAlone DEF Point, Moving
            <4> QED BY <4>1, <4>2
        <3> QED BY <1>1, <1>2, <1>3, <2>1, <3>2 DEF ImportedIsCurrent
    <2> QED BY <2>2, <2>3
<1>4. ASSUME NEW a \in Operation, Start(a) \/ Fault(a) PROVE ImportedIsCurrent'
    <2>1. \A b \in Operation \ {a} : pc'[b] = pc[b] /\ op'[b] = op[b]
        BY <1>4, StepLocal DEF Actor
    <2>2. pc'[a] \in {"idle", "target", "waiting", "check"} /\ current' = current
        BY <1>0, <1>4 DEF Start, Begin, Fault, Leave, Goto
    <2> QED BY <1>1, <2>1, <2>2 DEF ImportedIsCurrent
<1>5. CASE Crash
    <2>1. \A b \in Operation : pc'[b] = "idle"
        BY <1>5, ActorAssumption DEF Crash, Actor
    <2> QED BY <2>1 DEF ImportedIsCurrent
<1>6. CASE Recover
    <2>1. current' = current /\ \A b \in Operation : pc'[b] = pc[b] /\ op'[b] = op[b]
        BY <1>0, <1>6, ActorAssumption DEF Recover, RecoverTransition, RecoverCorrection, CheckIntegrity,
           Goto, Update
    <2> QED BY <1>1, <2>1 DEF ImportedIsCurrent
<1>7. CASE UNCHANGED vars
    BY <1>1, <1>7 DEF vars, ImportedIsCurrent
<1> QED BY <1>3, <1>4, <1>5, <1>6, <1>7 DEF Next

GatedInv == GateInv /\ KeptInv

LEMMA GatedInitially == Init => GatedInv
<1> SUFFICES ASSUME Init PROVE GatedInv
    OBVIOUS
<1>1. \A a \in Operation : pc[a] = "idle" /\ op[a].kind = "none"
    BY DEF Init, NoRequest, Actor
<1>2. OriginalComplete
    BY DEF Init, OriginalComplete
<1> QED BY <1>1, <1>2, GateInitially DEF GatedInv, KeptInv, OriginalKept, ImportedIsCurrent

LEMMA GatedInductive ==
    ASSUME OnlyGated PROVE IInv /\ GatedInv /\ [Next]_vars => GatedInv'
<1> SUFFICES ASSUME IInv, GatedInv, [Next]_vars PROVE GatedInv'
    OBVIOUS
<1>1. OriginalKept'
    <2>1. CASE \E a \in Operation : WriteOriginalFindings(a) \/ WriteOriginalDocument(a)
        BY <2>1, OriginalStep DEF GatedInv, KeptInv
    <2>2. CASE ~\E a \in Operation : WriteOriginalFindings(a) \/ WriteOriginalDocument(a)
        <3>1. UNCHANGED originals
            BY <2>2, OriginalsStay DEF GatedInv, vars
        <3> QED BY <2>2, <3>1, OtherStepsKeepOriginal DEF GatedInv, KeptInv
    <2> QED BY <2>1, <2>2
<1> QED BY <1>1, GateInductive, ImportedStays DEF GatedInv, KeptInv

\* With collections and imports alone, the findings kept with the first ledger are the ones it was
\* found with, whatever fails and whenever the process dies (saveOriginalIfAbsent).
THEOREM OriginalAlwaysComplete == ASSUME OnlyGated PROVE Spec => []OriginalComplete
<1>1. GatedInv => OriginalComplete
    BY DEF GatedInv, KeptInv, OriginalKept
<1> QED BY <1>1, GatedInitially, GatedInductive, Invariance, PTL DEF Spec

\* With collections and imports alone, the first ledger is written once: nobody writes another
\* between the look that finds none and the write.
THEOREM OriginalIsWrittenOnce == ASSUME OnlyGated PROVE Spec => OriginalWrittenOnce
<1>1. IInv /\ GatedInv /\ [Next]_vars => [original # None => original' = original]_vars
    BY OriginalsStay, OriginalStep DEF GatedInv, KeptInv, originals
<1> QED BY <1>1, GatedInitially, GatedInductive, Invariance, PTL DEF Spec, OriginalWrittenOnce

\* With collections and imports alone, the cleanup after an import removes the ledger that was
\* imported: between its hash and the removal nobody makes another current.
THEOREM ImportsRemoveTheirLedgers == ASSUME OnlyGated PROVE Spec => ImportRemovesItsLedger
<1>1. GatedInv => [\A a \in Operation :
          pc[a] = "point" /\ op[a].kind = "import" /\ current' # current
            => IsDocument(current) /\ SameDocument(current.content, op[a].base.content)]_vars
    BY DEF GatedInv, KeptInv, ImportedIsCurrent
<1> QED BY <1>1, GatedInitially, GatedInductive, Invariance, PTL DEF Spec, ImportRemovesItsLedger

-----------------------------------------------------------------------------
(* What a request or a process that died leaves lets the workspace open again. *)

NothingFails == MaxFaults = 0

\* A generation above all that were ever current.
Newer(x) == \A y \in superseded \cup ({current} \ {None}) : y.gen < x.gen

Settled == transitions = {} /\ active \subseteq {current}

\* What is left of a save that has no journal yet.
Unfinished == transitions = {} /\ \A x \in active \ {current} : Newer(x)

\* What a journal leaves to be done.
Resumes(j) ==
    /\ active \subseteq {j.previous, j.target} /\ Readable(j.target)
    /\ j.previous \in active \cup superseded \cup {None}

\* A request finds the workspace settled, and knows all that it adds to it.
Phase(r, step) ==
    /\ step \in Inside \ (Moving \cup {"findings", "queued"}) => Settled
    /\ step \in {"scan", "document", "findings", "queued"} => r.previous = current
    /\ step \in {"document", "findings", "queued"} => r.target = None \/ Newer(r.target)
    /\ step \in {"findings", "queued"} => transitions = {} /\ active \subseteq {current, r.target}
    /\ step \in {"document", "findings"} => r.target.content = r.content
    /\ step = "findings" => r.target \in active
    /\ step = "queued" => Readable(r.target)
    /\ step \in Moving => transitions = {JournalOf(r)} /\ Resumes(r)
    /\ step \in Moving \ {"point"} => current = r.target
    /\ step \in {"archiveFindings", "closeTransition"} => active \subseteq {r.target}
    /\ step \in {"corrections", "integrity"} => Unfinished

Left ==
    /\ mode = "open" /\ (\A a \in Operation : pc[a] \notin Inside) => Settled
    /\ mode = "recovering" => Unfinished \/ \E j \in transitions : transitions = {j} /\ Resumes(j)
    /\ mode = "blocked" => Unfinished /\ pc[Startup] = "idle"

ReopenInv ==
    /\ faults = 0
    /\ \A a \in Actor : Phase(op[a], pc[a])
    /\ Left

\* A workspace between two requests.
LEMMA SettledIsUnfinished == Settled => Unfinished
BY DEF Settled, Unfinished

\* Whatever request is under way, what it leaves can be taken up by startup.
LEMMA PhasesAreLeft ==
    ASSUME IInv, GateInv, ReopenInv, mode # "blocked"
    PROVE  Unfinished \/ \E j \in transitions : transitions = {j} /\ Resumes(j)
<1>1. CASE mode = "recovering"
    BY <1>1 DEF ReopenInv, Left
<1>2. CASE mode = "open" /\ \A a \in Operation : pc[a] \notin Inside
    BY <1>2, SettledIsUnfinished DEF ReopenInv, Left
<1>3. ASSUME NEW a \in Operation, pc[a] \in Inside
      PROVE  Unfinished \/ \E j \in transitions : transitions = {j} /\ Resumes(j)
    <2>0. Phase(op[a], pc[a])
        BY DEF ReopenInv, Actor
    <2>1. CASE pc[a] \in Moving
        <3>1. transitions = {JournalOf(op[a])} /\ Resumes(op[a])
            BY <2>0, <2>1 DEF Phase
        <3>2. Resumes(JournalOf(op[a]))
            BY <3>1 DEF Resumes, JournalOf
        <3> QED BY <3>1, <3>2
    <2>2. CASE pc[a] \in {"findings", "queued"}
        <3>1. transitions = {} /\ active \subseteq {current, op[a].target}
              /\ (op[a].target = None \/ Newer(op[a].target))
            BY <2>0, <2>2 DEF Phase
        <3>2. None \notin active
            BY NoneAssumption DEF IInv, TypeOK
        <3> QED BY <3>1, <3>2 DEF Unfinished
    <2>3. CASE pc[a] \in Inside \ (Moving \cup {"findings", "queued"})
        BY <2>0, <2>3, SettledIsUnfinished DEF Phase
    <2> QED BY <1>3, <2>1, <2>2, <2>3
<1> QED BY <1>1, <1>2, <1>3 DEF IInv, TypeOK

\* Of those that are not past the gate nothing is said; so what one request makes of its
\* phase, or leaves settled, is all there is.
LEMMA PhaseOfOne ==
    ASSUME IInv, GateInv, ReopenInv, NEW a \in Operation, UNCHANGED <<mode, faults>>,
           pc[a] \in Inside \/ (pc[a] = "gate" /\ IsHead(gate, a)),
           \A b \in Actor \ {a} : pc'[b] = pc[b] /\ op'[b] = op[b],
           pc'[a] \in Inside \cup {"idle"}, Phase(op[a], pc[a])', pc'[a] = "idle" => Settled'
    PROVE  ReopenInv'
<1>1. mode = "open" /\ a \in Actor /\ a # Startup
    BY ActorAssumption DEF IInv, Exclusive, Inside, Moving, Actor
<1>2. \A b \in Operation \ {a} : pc[b] \notin Inside /\ pc[b] \in Quiet
    <2>1. CASE pc[a] \in Inside
        BY <2>1, InsideAlone DEF GateInv, Actor
    <2>2. CASE pc[a] = "gate" /\ IsHead(gate, a)
        BY <2>2 DEF GateInv, IsHead
    <2> QED BY <2>1, <2>2
<1>3. pc[Startup] = "idle" /\ Startup \in Actor
    BY <1>1 DEF IInv, Exclusive, Actor
<1>4. \A b \in Actor \ {a} : pc'[b] \in Quiet
    BY <1>2, <1>3 DEF Actor, Quiet
<1>5. \A b \in Actor : Phase(op[b], pc[b])'
    BY <1>4 DEF Phase, Quiet, Inside, Moving
<1>6. Left'
    BY <1>1 DEF Left
<1> QED BY <1>5, <1>6 DEF ReopenInv

\* Requests before the gate, and new ones, see nothing and leave nothing.
LEMMA QuietStep ==
    ASSUME IInv, GateInv, ReopenInv, NEW a \in Operation, pc[a] \in Quiet, pc'[a] \in Quiet,
           \A b \in Actor \ {a} : pc'[b] = pc[b] /\ op'[b] = op[b],
           UNCHANGED <<files, current, transitions, mode, faults>>
    PROVE  ReopenInv'
<1>1. \A b \in Actor : Phase(op[b], pc[b])'
    <2>1. Phase(op[a], pc[a])'
        BY DEF Phase, Quiet, Inside, Moving
    <2>2. ASSUME NEW b \in Actor \ {a} PROVE Phase(op[b], pc[b])'
        BY <2>2 DEF ReopenInv, Phase, Settled, Unfinished, Newer, Resumes, JournalOf, Readable, Intact, files
    <2> QED BY <2>1, <2>2
<1>2. ASSUME \A b \in Operation : pc'[b] \notin Inside PROVE \A b \in Operation : pc[b] \notin Inside
    BY <1>2 DEF Quiet, Inside, Moving, Actor
<1>3. pc'[Startup] = pc[Startup]
    BY ActorAssumption DEF Actor
<1>4. Left'
    BY <1>2, <1>3 DEF ReopenInv, Left, Settled, Unfinished, Newer, Resumes, Readable, Intact, files
<1> QED BY <1>1, <1>4 DEF ReopenInv

\* What comes before the journal.
LEMMA BeforeJournal ==
    ASSUME IInv, ArchiveInv, GateInv, ReopenInv, NEW a \in Operation, Step(a),
           pc[a] \in Inside \ (Moving \cup {"queued"})
    PROVE  /\ UNCHANGED <<mode, faults>> /\ pc'[a] \in Inside \cup {"idle"}
           /\ Phase(op[a], pc[a])' /\ (pc'[a] = "idle" => Settled')
<1>0. /\ pc \in [Actor -> Steps] /\ op \in [Actor -> Request] /\ op[a] \in Request /\ a \in Actor
      /\ a # Startup /\ op[a].kind \notin CorrectionKinds /\ op[a].correction = None
      /\ Phase(op[a], pc[a]) /\ Replacing(op[a], pc[a])
    BY ActorAssumption DEF IInv, TypeOK, Actor, GateInv, ReopenInv, ArchiveInv
<1>1. ASSUME Settled, Leave(a), UNCHANGED <<files, current, transitions, mode, faults>>
      PROVE  /\ UNCHANGED <<mode, faults>> /\ pc'[a] \in Inside \cup {"idle"}
             /\ Phase(op[a], pc[a])' /\ (pc'[a] = "idle" => Settled')
    <2>1. pc'[a] = "idle"
        BY <1>0, <1>1 DEF Leave, Goto
    <2> QED BY <1>1, <2>1 DEF Settled, files, Phase, Inside, Moving
<1>2. CASE pc[a] = "remove"
    <2>1. ReadRemoved(a) /\ Settled /\ op[a].target = None
        BY <1>0, <1>2 DEF Step, Phase, Replacing, Inside, Moving, TakeToken, EnterGate, Check, ReadOriginal, WriteOriginalFindings,
           WriteOriginalDocument, VerifyOriginal, OpenCorrection, CloseCorrection, ReadCurrent, Scan,
           WriteDocument, WriteFindings, OpenTransition, Point, Archive, ArchiveFindings, CloseTransition
    <2>2. CASE Throw(a)
        BY <1>0, <1>1, <2>1, <2>2 DEF Throw, bounds, journals
    <2>3. CASE ~Throw(a)
        <3>1. /\ pc'[a] = "queued" /\ op'[a].target = None /\ op'[a].previous = current
              /\ UNCHANGED <<files, current, transitions, mode, faults>>
            BY <1>0, <2>1, <2>3 DEF ReadRemoved, Enqueue, Goto, Update, Request, journals, bounds
        <3> QED BY <2>1, <3>1 DEF Phase, Settled, Readable, files, Inside, Moving
    <2> QED BY <2>2, <2>3
<1>3. CASE pc[a] \in {"original", "originalFindings", "originalDocument", "verify"}
    <2>1. /\ ReadOriginal(a) \/ WriteOriginalFindings(a) \/ WriteOriginalDocument(a) \/ VerifyOriginal(a)
          /\ Settled
        BY <1>0, <1>3 DEF Step, Phase, Inside, Moving, TakeToken, EnterGate, Check, ReadRemoved,
           OpenCorrection, CloseCorrection, ReadCurrent, Scan,
           WriteDocument, WriteFindings, OpenTransition, Point, Archive, ArchiveFindings, CloseTransition
    <2>2. CASE Throw(a)
        BY <1>0, <1>1, <2>1, <2>2 DEF Throw, bounds, journals
    <2>3. CASE ~Throw(a)
        <3>1. /\ pc'[a] \in {"originalFindings", "originalDocument", "verify", "read"}
              /\ UNCHANGED <<files, current, transitions, mode, faults>>
            BY <1>0, <2>1, <2>3 DEF ReadOriginal, WriteOriginalFindings, WriteOriginalDocument,
               VerifyOriginal, AfterOriginal, Goto, journals, bounds
        <3> QED BY <2>1, <3>1 DEF Phase, Settled, files, Inside, Moving
    <2> QED BY <2>2, <2>3
<1>4. CASE pc[a] = "read"
    <2>1. ReadCurrent(a) /\ Settled
        BY <1>0, <1>4 DEF Step, Phase, Inside, Moving, TakeToken, EnterGate, Check, ReadRemoved, ReadOriginal, WriteOriginalFindings,
           WriteOriginalDocument, VerifyOriginal, OpenCorrection, CloseCorrection, Scan,
           WriteDocument, WriteFindings, OpenTransition, Point, Archive, ArchiveFindings, CloseTransition
    <2>2. CASE Throw(a)
        BY <1>0, <1>1, <2>1, <2>2 DEF Throw, bounds, journals
    <2>3. CASE Saved(a) /\ UNCHANGED <<files, current, journals, originals, bounds>>
        <3>1. Leave(a) /\ UNCHANGED <<files, current, transitions, mode, faults>>
            BY <1>0, <2>3 DEF Saved, journals, bounds
        <3> QED BY <1>1, <2>1, <3>1
    <2>4. CASE ~Throw(a) /\ ~(Saved(a) /\ UNCHANGED <<files, current, journals, originals, bounds>>)
        <3>1. /\ pc'[a] = "scan" /\ op'[a].previous = current
              /\ UNCHANGED <<files, current, transitions, mode, faults>>
            BY <1>0, <2>1, <2>4 DEF ReadCurrent, Goto, Update, Request, journals, bounds
        <3> QED BY <2>1, <3>1 DEF Phase, Settled, files, Inside, Moving
    <2> QED BY <2>2, <2>3, <2>4
<1>5. CASE pc[a] = "scan"
    <2>1. Scan(a) /\ Settled /\ op[a].previous = current
        BY <1>0, <1>5 DEF Step, Phase, Inside, Moving, TakeToken, EnterGate, Check, ReadRemoved, ReadOriginal, WriteOriginalFindings,
           WriteOriginalDocument, VerifyOriginal, OpenCorrection, CloseCorrection, ReadCurrent,
           WriteDocument, WriteFindings, OpenTransition, Point, Archive, ArchiveFindings, CloseTransition
    <2>2. Reusable(a) = {}
        <3>1. SUFFICES ASSUME NEW x \in Reusable(a) PROVE FALSE
            OBVIOUS
        <3>2. x = current /\ x # None /\ x.content = op[a].content /\ x.content \in Document
            BY <2>1, NoneAssumption DEF Reusable, Settled, IInv, TypeOK
        <3> QED BY <1>0, <1>5, <2>1, <3>2 DEF Replacing, ContentOf
    <2> DEFINE New(g) == [gen |-> g, content |-> op[a].content]
    <2>3. PICK g \in 1 .. MaxGeneration :
            IsNextGeneration(g, op[a].previous) /\ op' = [op EXCEPT ![a] = [op[a] EXCEPT !.target = New(g)]]
        BY <2>1, <2>2 DEF Scan, Update
    <2>4. /\ op'[a].target = New(g) /\ op'[a].previous = current /\ op'[a].content = op[a].content
        BY <1>0, <2>1, <2>3 DEF Request
    <2>5. pc'[a] = "document" /\ UNCHANGED <<files, current, transitions, mode, faults>>
        BY <1>0, <2>1, <2>2 DEF Scan, Goto, journals, bounds
    <2>6. Newer(New(g))
        BY <2>1, <2>3 DEF IsNextGeneration, Newer
    <2> HIDE DEF New
    <2>7. Newer(op[a].target)'
        BY <2>4, <2>5, <2>6 DEF Newer, files
    <2>8. op'[a].target.content = op'[a].content
        BY <2>4 DEF New
    <2> QED BY <2>1, <2>4, <2>5, <2>7, <2>8 DEF Phase, Settled, files, Inside, Moving
<1>6. CASE pc[a] = "document"
    <2> DEFINE x == op[a].target
    <2>1. /\ WriteDocument(a) /\ Settled /\ op[a].previous = current /\ (x = None \/ Newer(x))
          /\ x.content = op[a].content
        BY <1>0, <1>6 DEF Step, Phase, Inside, Moving, TakeToken, EnterGate, Check, ReadRemoved, ReadOriginal, WriteOriginalFindings,
           WriteOriginalDocument, VerifyOriginal, OpenCorrection, CloseCorrection, ReadCurrent, Scan,
           WriteFindings, OpenTransition, Point, Archive, ArchiveFindings, CloseTransition
    <2>2. /\ active' = active \cup {x} /\ op' = op
          /\ UNCHANGED <<activeFindings, superseded, current, transitions, mode, faults>>
        BY <2>1 DEF WriteDocument, Enqueue, journals, bounds
    <2>3. pc'[a] = IF x.content \in WithFindings THEN "findings" ELSE "queued"
        BY <1>0, <2>1 DEF WriteDocument, Enqueue, Goto
    <2>4. pc'[a] = "queued" => Readable(x)'
        BY <2>2, <2>3 DEF Readable, Intact
    <2>5. x = None \/ Newer(x)'
        BY <2>1, <2>2 DEF Newer
    <2> QED BY <2>1, <2>2, <2>3, <2>4, <2>5 DEF Phase, Settled, Inside, Moving
<1>7. CASE pc[a] = "findings"
    <2> DEFINE x == op[a].target
    <2>1. /\ WriteFindings(a) /\ op[a].previous = current /\ (x = None \/ Newer(x))
          /\ transitions = {} /\ active \subseteq {current, x} /\ x \in active
        BY <1>0, <1>7 DEF Step, Phase, Inside, Moving, TakeToken, EnterGate, Check, ReadRemoved, ReadOriginal, WriteOriginalFindings,
           WriteOriginalDocument, VerifyOriginal, OpenCorrection, CloseCorrection, ReadCurrent, Scan,
           WriteDocument, OpenTransition, Point, Archive, ArchiveFindings, CloseTransition
    <2>2. /\ activeFindings' = activeFindings \cup {x} /\ op' = op /\ pc'[a] = "queued"
          /\ UNCHANGED <<active, superseded, current, transitions, mode, faults>>
        BY <1>0, <2>1 DEF WriteFindings, Enqueue, Goto, journals, bounds
    <2>3. Readable(x)'
        BY <2>1, <2>2 DEF Readable, Intact
    <2>4. x = None \/ Newer(x)'
        BY <2>1, <2>2 DEF Newer
    <2> QED BY <2>1, <2>2, <2>3, <2>4 DEF Phase, Inside, Moving
<1> QED BY <1>2, <1>3, <1>4, <1>5, <1>6, <1>7 DEF Inside

\* The journal is written with everything it needs to be rolled forward.
LEMMA QueuedPhase ==
    ASSUME IInv, GateInv, ReopenInv, NEW a \in Operation, pc[a] = "queued", OpenTransition(a)
    PROVE  UNCHANGED <<mode, faults>> /\ pc'[a] = "point" /\ Phase(op[a], pc[a])'
<1>0. /\ pc \in [Actor -> Steps] /\ op \in [Actor -> Request] /\ op[a] \in Request /\ a \in Actor
      /\ Phase(op[a], pc[a])
    BY DEF IInv, TypeOK, Actor, ReopenInv
<1>1. /\ op[a].previous = current /\ transitions = {} /\ active \subseteq {current, op[a].target}
      /\ Readable(op[a].target)
    BY <1>0 DEF Phase
<1>2. PICK id \in JournalId :
        /\ transitions' = {[id |-> id, previous |-> op[a].previous, target |-> op[a].target]}
        /\ op' = [op EXCEPT ![a] = [op[a] EXCEPT !.journal = id]]
    BY <1>1 DEF OpenTransition, Update
<1>3. pc'[a] = "point" /\ UNCHANGED <<files, current, mode, faults>>
    BY <1>0, <1>1 DEF OpenTransition, Goto, bounds
<1>4. /\ op'[a].journal = id /\ op'[a].previous = current /\ op'[a].target = op[a].target
    BY <1>0, <1>1, <1>2 DEF Request
<1>5. transitions' = {JournalOf(op'[a])}
    BY <1>1, <1>2, <1>4 DEF JournalOf
<1>6. current \in active \cup {None}
    BY DEF IInv, CurrentResolves, Readable, Intact
<1>7. Resumes(op[a])'
    BY <1>1, <1>3, <1>4, <1>6 DEF Resumes, Readable, Intact, files
<1> QED BY <1>3, <1>5, <1>7 DEF Phase, Inside, Moving, JournalOf

\* A journal is rolled forward to its end: nothing it needs is missing.
LEMMA MovingPhase ==
    ASSUME IInv, ArchiveInv, ReopenInv, NEW a \in Actor, pc[a] \in Moving, Step(a)
    PROVE  \/ /\ pc'[a] \in Moving /\ Phase(op[a], pc[a])' /\ UNCHANGED <<mode, faults>>
           \/ CloseTransition(a) /\ Settled'
<1> DEFINE r == op[a]
<1>0. /\ pc \in [Actor -> Steps] /\ Phase(r, pc[a]) /\ Replacing(r, pc[a])
      /\ current \in Entry /\ None \notin active
    BY NoneAssumption DEF IInv, TypeOK, ReopenInv, ArchiveInv
<1>1. /\ transitions = {JournalOf(r)} /\ active \subseteq {r.previous, r.target}
      /\ Readable(r.target) /\ r.previous \in active \cup superseded \cup {None}
    BY <1>0 DEF Phase, Resumes
<1>2. r.previous # r.target
    BY <1>1 DEF ArchiveInv, JournalsReplace, JournalOf
<1>3. Point(a) \/ Archive(a) \/ ArchiveFindings(a) \/ CloseTransition(a)
    BY DEF Step, Moving, TakeToken, EnterGate, Check, ReadRemoved, ReadOriginal, WriteOriginalFindings,
       WriteOriginalDocument, VerifyOriginal, OpenCorrection, CloseCorrection, ReadCurrent, Scan,
       WriteDocument, WriteFindings, OpenTransition
<1>4. ASSUME NEW step \in Moving \ {"point"}, pc'[a] = step, op' = op, current' = r.target,
             active' \subseteq active, active' \subseteq {r.previous, r.target}, Readable(r.target)',
             r.previous \in active' \cup superseded' \cup {None}, transitions' = transitions,
             step \in {"archiveFindings", "closeTransition"} => active' \subseteq {r.target}
      PROVE  pc'[a] \in Moving /\ Phase(op[a], pc[a])'
    <2>1. Resumes(op[a])' /\ transitions' = {JournalOf(op[a])}'
        BY <1>1, <1>4 DEF Resumes, JournalOf
    <2> QED BY <1>4, <2>1 DEF Phase, Inside, Moving
<1>5. CASE Point(a)
    <2>1. /\ current' = r.target /\ pc'[a] = AfterPoint(r) /\ op' = op
          /\ UNCHANGED <<files, transitions, mode, faults>>
        BY <1>0, <1>1, <1>5 DEF Point, Goto, journals, bounds
    <2>2. Readable(r.target)'
        BY <1>1, <2>1 DEF Readable, Intact, files
    <2>3. AfterPoint(r) = "archive" \/ (AfterPoint(r) = "closeTransition" /\ active \subseteq {r.target})
        BY <1>0, <1>1, <1>2 DEF AfterPoint
    <2> QED BY <1>1, <1>4, <2>1, <2>2, <2>3 DEF files, Moving
<1>6. CASE Archive(a)
    <2>0. r.previous \in Artifact /\ r.previous \in active \cup superseded /\ current = r.target
        BY <1>0, <1>1, <1>6, NoneAssumption DEF Archive, IInv, WellFormed, Phase, Moving
    <2>1. /\ active' = active \ {r.previous} /\ superseded' = superseded \cup {r.previous}
          /\ pc'[a] = AfterArchive(r.previous) /\ op' = op
          /\ UNCHANGED <<activeFindings, current, transitions, mode, faults>>
        BY <1>0, <1>6, <2>0 DEF Archive, Displaced, Goto, journals, bounds
    <2>2. Readable(r.target)'
        BY <1>1, <1>2, <2>1 DEF Readable, Intact
    <2>3. AfterArchive(r.previous) \in {"archiveFindings", "closeTransition"}
        BY DEF AfterArchive
    <2>4. active' \subseteq {r.target}
        BY <1>1, <2>1
    <2> QED BY <1>1, <1>4, <2>0, <2>1, <2>2, <2>3, <2>4 DEF Moving
<1>7. CASE ArchiveFindings(a)
    <2>0. current = r.target /\ active \subseteq {r.target}
        BY <1>0, <1>7 DEF ArchiveFindings, Phase, Moving
    <2>1. /\ activeFindings' = activeFindings \ {r.previous} /\ pc'[a] = "closeTransition" /\ op' = op
          /\ UNCHANGED <<active, superseded, current, transitions, mode, faults>>
        BY <1>0, <1>7 DEF ArchiveFindings, Displaced, Goto, journals, bounds
    <2>2. Readable(r.target)'
        BY <1>1, <1>2, <2>1 DEF Readable, Intact
    <2> QED BY <1>1, <1>4, <2>0, <2>1, <2>2 DEF Moving
<1>8. CASE CloseTransition(a)
    <2>1. current = r.target /\ active \subseteq {r.target}
        BY <1>0, <1>8 DEF CloseTransition, Phase, Moving
    <2>2. transitions' = {} /\ active' = active /\ current' = current
        BY <1>1, <1>8 DEF CloseTransition, Unlinked, JournalOf, files
    <2> QED BY <1>8, <2>1, <2>2 DEF Settled
<1> QED BY <1>3, <1>5, <1>6, <1>7, <1>8

\* One request, at any of its steps.
LEMMA RequestStepReopens ==
    ASSUME IInv, ArchiveInv, GateInv, ReopenInv, NEW a \in Operation, Step(a)
    PROVE  ReopenInv'
<1>0. /\ pc \in [Actor -> Steps] /\ a \in Actor /\ a # Startup /\ pc[a] \in Quiet \cup Inside
      /\ \A b \in Actor \ {a} : pc'[b] = pc[b] /\ op'[b] = op[b]
    BY ActorAssumption, StepLocal DEF IInv, TypeOK, Actor, GateInv
<1>1. CASE pc[a] \in {"target", "waiting"}
    <2>1. TakeToken(a) \/ EnterGate(a)
        BY <1>1 DEF Step, Check, ReadRemoved, ReadOriginal, WriteOriginalFindings,
           WriteOriginalDocument, VerifyOriginal, OpenCorrection, CloseCorrection, ReadCurrent, Scan,
           WriteDocument, WriteFindings, OpenTransition, Point, Archive, ArchiveFindings, CloseTransition
    <2>2. pc'[a] \in Quiet /\ UNCHANGED <<files, current, transitions, mode, faults>>
        BY <1>0, <2>1 DEF TakeToken, EnterGate, Goto, Quiet, journals, bounds
    <2> QED BY <1>0, <1>1, <2>2, QuietStep DEF Quiet
<1>2. CASE pc[a] = "gate"
    <2>1. Check(a) /\ IsHead(gate, a)
        BY <1>2 DEF Step, TakeToken, EnterGate, Check, ReadRemoved, ReadOriginal, WriteOriginalFindings,
           WriteOriginalDocument, VerifyOriginal, OpenCorrection, CloseCorrection, ReadCurrent, Scan,
           WriteDocument, WriteFindings, OpenTransition, Point, Archive, ArchiveFindings, CloseTransition
    <2>2. \A b \in Operation : pc[b] \notin Inside
        BY <1>2, <2>1 DEF GateInv, IsHead, Inside, Moving
    <2>3. mode = "open"
        BY <1>2 DEF IInv, Exclusive
    <2>4. Settled
        BY <2>2, <2>3 DEF ReopenInv, Left
    <2>5. UNCHANGED <<files, current, transitions, mode, faults>>
        BY <1>0, <2>1 DEF Check, Throw, journals, bounds
    <2>6. pc'[a] \in {"idle", "remove", "original", "read"}
        BY <1>0, <2>1 DEF Check, Throw, Leave, Goto, AfterCheck
    <2>7. Settled'
        BY <2>4, <2>5 DEF Settled, files
    <2>8. Phase(op[a], pc[a])'
        BY <2>6, <2>7 DEF Phase, Moving, Inside
    <2>9. pc'[a] \in Inside \cup {"idle"}
        BY <2>6 DEF Inside
    <2> QED BY <1>0, <1>2, <2>1, <2>5, <2>7, <2>8, <2>9, PhaseOfOne
<1>3. CASE pc[a] \in Inside \ (Moving \cup {"queued"})
    BY <1>0, <1>3, BeforeJournal, PhaseOfOne
<1>4. CASE pc[a] = "queued"
    <2>1. OpenTransition(a)
        BY <1>4 DEF Step, TakeToken, EnterGate, Check, ReadRemoved, ReadOriginal, WriteOriginalFindings,
           WriteOriginalDocument, VerifyOriginal, OpenCorrection, CloseCorrection, ReadCurrent, Scan,
           WriteDocument, WriteFindings, Point, Archive, ArchiveFindings, CloseTransition
    <2>2. UNCHANGED <<mode, faults>> /\ pc'[a] = "point" /\ Phase(op[a], pc[a])'
        BY <1>4, <2>1, QueuedPhase
    <2>3. pc[a] \in Inside /\ pc'[a] \in Inside /\ pc'[a] # "idle"
        BY <1>4, <2>2 DEF Inside, Moving
    <2> QED BY <1>0, <2>2, <2>3, PhaseOfOne
<1>5. CASE pc[a] \in Moving
    <2>1. CASE pc'[a] \in Moving /\ Phase(op[a], pc[a])' /\ UNCHANGED <<mode, faults>>
        <3>1. pc[a] \in Inside /\ pc'[a] \in Inside /\ pc'[a] # "idle"
            BY <1>5, <2>1 DEF Inside, Moving
        <3> QED BY <1>0, <2>1, <3>1, PhaseOfOne
    <2>2. CASE CloseTransition(a) /\ Settled'
        <3>1. op[a].kind # "none" /\ op[a].correction = None
            BY <1>0, <1>5 DEF GateInv, Inside
        <3>2. pc'[a] = "idle" /\ UNCHANGED <<mode, faults>>
            BY <1>0, <2>2, <3>1 DEF CloseTransition, Saved, Leave, Goto, bounds
        <3>3. Phase(op[a], pc[a])'
            BY <3>2 DEF Phase, Moving, Inside
        <3>4. pc[a] \in Inside
            BY <1>5 DEF Inside
        <3> QED BY <1>0, <2>2, <3>2, <3>3, <3>4, PhaseOfOne
    <2> QED BY <1>0, <1>5, <2>1, <2>2, MovingPhase
<1>6. CASE pc[a] = "idle"
    BY <1>6 DEF Step, TakeToken, EnterGate, Check, ReadRemoved, ReadOriginal, WriteOriginalFindings,
       WriteOriginalDocument, VerifyOriginal, OpenCorrection, CloseCorrection, ReadCurrent, Scan,
       WriteDocument, WriteFindings, OpenTransition, Point, Archive, ArchiveFindings, CloseTransition
<1> QED BY <1>0, <1>1, <1>2, <1>3, <1>4, <1>5, <1>6 DEF Quiet, Inside

\* Startup, and the process that died, leave every request idle.
LEMMA StartupReopens ==
    ASSUME IInv, GateInv, ReopenInv, \A b \in Operation : pc'[b] = "idle", UNCHANGED faults,
           Phase(op[Startup], pc[Startup])', Left'
    PROVE  ReopenInv'
<1>1. \A b \in Actor : Phase(op[b], pc[b])'
    BY DEF Actor, Phase, Inside, Moving
<1> QED BY <1>1 DEF ReopenInv

\* Startup rolls the journal forward, then looks at what is active.
LEMMA RepairReopens ==
    ASSUME IInv, ArchiveInv, GateInv, ReopenInv, Step(Startup) \/ Recover
    PROVE  ReopenInv'
<1>0. /\ pc \in [Actor -> Steps] /\ op \in [Actor -> Request] /\ Startup \in Actor
      /\ Phase(op[Startup], pc[Startup]) /\ pc[Startup] \in Repairing /\ Startup \notin Operation
    BY ActorAssumption DEF IInv, TypeOK, GateInv, Actor, ReopenInv
<1>1. pc[Startup] # "idle"
    BY DEF Step, Recover, RecoverTransition, RecoverCorrection, CheckIntegrity, TakeToken,
        EnterGate, Check, ReadRemoved, ReadOriginal, WriteOriginalFindings, WriteOriginalDocument,
        VerifyOriginal, OpenCorrection, CloseCorrection, ReadCurrent, Scan, WriteDocument,
        WriteFindings, OpenTransition, Point, Archive, ArchiveFindings, CloseTransition
<1>2. mode = "recovering" /\ \A b \in Operation : pc[b] = "idle"
    BY <1>1 DEF IInv, TypeOK, Exclusive, ReopenInv, Left
<1>3. \A b \in Operation : pc'[b] = "idle"
    <2>1. CASE Step(Startup)
        BY <1>0, <1>2, <2>1, StepLocal DEF Actor
    <2>2. CASE Recover
        <3>1. \A b \in Operation : b \in Actor /\ b # Startup
            BY <1>0 DEF Actor
        <3>2. PICK step : pc' = [pc EXCEPT ![Startup] = step]
            BY <2>2 DEF Recover, RecoverTransition, RecoverCorrection, CheckIntegrity, Goto
        <3> QED BY <1>0, <1>2, <3>1, <3>2
    <2> QED BY <2>1, <2>2
<1>4. CASE pc[Startup] \in Moving
    <2>0. Step(Startup)
        BY <1>4 DEF Recover, RecoverTransition, RecoverCorrection, CheckIntegrity, Moving
    <2>1. CASE pc'[Startup] \in Moving /\ Phase(op[Startup], pc[Startup])' /\ UNCHANGED <<mode, faults>>
        <3>1. transitions' = {JournalOf(op[Startup])}' /\ Resumes(op[Startup])'
            BY <2>1 DEF Phase
        <3>2. Resumes(JournalOf(op[Startup]))'
            BY <3>1 DEF Resumes, JournalOf
        <3>3. Left'
            BY <1>2, <2>1, <3>1, <3>2 DEF Left
        <3> QED BY <1>3, <2>1, <3>3, StartupReopens
    <2>2. CASE CloseTransition(Startup) /\ Settled'
        <3>1. pc'[Startup] = "transitions" /\ UNCHANGED <<mode, faults>>
            BY <1>0, <2>2 DEF CloseTransition, Goto, GateInv, bounds
        <3>2. Unfinished'
            BY <2>2 DEF Settled, Unfinished
        <3>3. Left'
            BY <1>2, <3>1, <3>2 DEF Left
        <3>4. Phase(op[Startup], pc[Startup])'
            BY <3>1 DEF Phase, Moving, Inside
        <3> QED BY <1>3, <3>1, <3>3, <3>4, StartupReopens
    <2> QED BY <1>0, <1>4, <2>0, <2>1, <2>2, MovingPhase
<1>5. CASE pc[Startup] \in {"transitions", "corrections", "integrity"}
    <2>0. Recover /\ UNCHANGED <<files, current, journals, bounds>>
        <3>1. ~Step(Startup)
            BY <1>5 DEF Step, TakeToken,
               EnterGate, Check, ReadRemoved, ReadOriginal, WriteOriginalFindings, WriteOriginalDocument,
               VerifyOriginal, OpenCorrection, CloseCorrection, ReadCurrent, Scan, WriteDocument,
               WriteFindings, OpenTransition, Point, Archive, ArchiveFindings, CloseTransition
        <3> QED BY <3>1 DEF Recover, RecoverTransition, RecoverCorrection, CheckIntegrity
    <2>1. Unfinished \/ \E j \in transitions : transitions = {j} /\ Resumes(j)
        BY <1>2 DEF ReopenInv, Left
    <2>2. (Unfinished \/ \E j \in transitions : transitions = {j} /\ Resumes(j))'
        BY <2>0, <2>1 DEF Unfinished, Newer, Resumes, Readable, Intact, files, journals
    <2>3. CASE pc[Startup] = "transitions" /\ transitions # {}
        <3>1. PICK j \in transitions : op' = [op EXCEPT ![Startup] =
                 [NoRequest EXCEPT !.previous = j.previous, !.target = j.target, !.journal = j.id]]
            BY <2>0, <2>3 DEF Recover, RecoverTransition, RecoverCorrection, CheckIntegrity, Update
        <3>2. pc'[Startup] = "point" /\ mode' = mode
            BY <1>0, <2>0, <2>3 DEF Recover, RecoverTransition, RecoverCorrection, CheckIntegrity, Goto
        <3>3. /\ op'[Startup].previous = j.previous /\ op'[Startup].target = j.target
              /\ op'[Startup].journal = j.id
            BY <1>0, <3>1 DEF NoRequest
        <3>4. transitions = {j} /\ Resumes(j)
            BY <2>1, <2>3 DEF Unfinished
        <3>5. j = [id |-> j.id, previous |-> j.previous, target |-> j.target]
            BY DEF IInv, TypeOK
        <3>6. transitions' = {JournalOf(op'[Startup])}
            BY <2>0, <3>3, <3>4, <3>5 DEF JournalOf, journals
        <3>7. Resumes(op[Startup])'
            BY <2>0, <3>3, <3>4 DEF Resumes, Readable, Intact, files
        <3>8. Phase(op[Startup], pc[Startup])'
            BY <3>2, <3>6, <3>7 DEF Phase, Moving, Inside, JournalOf
        <3>9. Left'
            BY <1>2, <2>2, <3>2 DEF Left
        <3> QED BY <1>3, <2>0, <3>8, <3>9, StartupReopens DEF bounds
    <2>4. CASE pc[Startup] = "corrections" \/ (pc[Startup] = "transitions" /\ transitions = {})
        <3>1. pc'[Startup] \in {"corrections", "integrity"} /\ mode' = mode
            BY <1>0, <2>0, <2>4 DEF Recover, RecoverTransition, RecoverCorrection, CheckIntegrity, Goto, GateInv
        <3>2. Unfinished
            BY <1>0, <2>1, <2>4 DEF Phase
        <3>3. Unfinished'
            BY <2>0, <3>2 DEF Unfinished, Newer, files, journals
        <3>4. Phase(op[Startup], pc[Startup])'
            BY <3>1, <3>3 DEF Phase, Moving, Inside
        <3>5. Left'
            BY <1>2, <2>2, <3>1 DEF Left
        <3> QED BY <1>3, <2>0, <3>4, <3>5, StartupReopens DEF bounds
    <2>5. CASE pc[Startup] = "integrity"
        <3>1. pc'[Startup] = "idle" /\ mode' = IF Sound THEN "open" ELSE "blocked"
            BY <1>0, <2>0, <2>5 DEF Recover, RecoverTransition, RecoverCorrection, CheckIntegrity, Goto
        <3>2. Unfinished
            BY <1>0, <2>5 DEF Phase
        <3>3. Unfinished' /\ (Sound => Settled')
            BY <2>0, <3>2 DEF Unfinished, Newer, files, journals, Sound, Settled
        <3>4. Phase(op[Startup], pc[Startup])'
            BY <3>1 DEF Phase, Moving, Inside
        <3>5. Left'
            BY <3>1, <3>3 DEF Left
        <3> QED BY <1>3, <2>0, <3>4, <3>5, StartupReopens DEF bounds
    <2> QED BY <1>5, <2>3, <2>4, <2>5
<1> QED BY <1>0, <1>1, <1>4, <1>5 DEF Repairing

LEMMA ReopenInitially == Init => ReopenInv
<1> SUFFICES ASSUME Init PROVE ReopenInv
    OBVIOUS
<1>1. Settled /\ faults = 0 /\ mode = "open" /\ \A a \in Actor : pc[a] = "idle"
    BY DEF Init, Settled
<1> QED BY <1>1 DEF ReopenInv, Phase, Left, Moving, Inside

LEMMA ReopenInductive ==
    ASSUME OnlyGated, NothingFails
    PROVE  IInv /\ ArchiveInv /\ GateInv /\ ReopenInv /\ [Next]_vars => ReopenInv'
<1> SUFFICES ASSUME IInv, ArchiveInv, GateInv, ReopenInv, [Next]_vars PROVE ReopenInv'
    OBVIOUS
<1>1. ASSUME NEW a \in Operation, Start(a) PROVE ReopenInv'
    <2>1. PICK kind, content, base : kind \in Kinds /\ Begin(a, kind, content, base)
        BY <1>1 DEF Start
    <2>2. pc[a] \in Quiet /\ pc'[a] \in Quiet
        BY <1>1, <2>1 DEF Start, Begin, Goto, Quiet, OnlyGated, GatedKinds, CollectionKinds, IInv, TypeOK, Actor
    <2>3. UNCHANGED <<files, current, transitions, mode, faults>> /\ a \in Actor
        BY <1>1 DEF Start, journals, Actor
    <2>4. \A b \in Actor \ {a} : pc'[b] = pc[b] /\ op'[b] = op[b]
        BY <1>1, <2>3, StepLocal
    <2> QED BY <2>2, <2>3, <2>4, QuietStep
<1>2. ASSUME NEW a \in Operation, Fault(a) PROVE FALSE
    BY <1>2 DEF Fault, ReopenInv, NothingFails
<1>3. ASSUME NEW a \in Actor, Step(a) PROVE ReopenInv'
    BY <1>3, RequestStepReopens, RepairReopens DEF Actor
<1>4. CASE Crash
    <2>1. /\ pc'[Startup] = "transitions" /\ \A a \in Operation : pc'[a] = "idle"
          /\ mode # "blocked" /\ mode' = "recovering" /\ UNCHANGED <<files, current, transitions, faults>>
        BY <1>4, ActorAssumption DEF Crash, Actor, journals
    <2>2. Unfinished \/ \E j \in transitions : transitions = {j} /\ Resumes(j)
        BY <2>1, PhasesAreLeft
    <2>3. (Unfinished \/ \E j \in transitions : transitions = {j} /\ Resumes(j))'
        BY <2>1, <2>2 DEF Unfinished, Newer, Resumes, Readable, Intact, files
    <2>4. Left'
        BY <2>1, <2>3 DEF Left
    <2>5. Phase(op[Startup], pc[Startup])'
        BY <2>1 DEF Phase, Moving, Inside
    <2> QED BY <2>1, <2>4, <2>5, StartupReopens
<1>5. CASE Recover
    BY <1>5, RepairReopens
<1>6. CASE UNCHANGED vars
    BY <1>6 DEF vars, files, journals, bounds, ReopenInv, Phase, Left, Settled, Unfinished, Newer, Resumes,
            JournalOf, Readable, Intact
<1> QED BY <1>1, <1>2, <1>3, <1>4, <1>5, <1>6 DEF Next

\* With collections and imports alone, and no write that fails, whatever requests were answered and
\* whenever the process died, StagingWorkspace.open opens the workspace, or refuses it for a save
\* that was cut off before its journal.
THEOREM Reopens == ASSUME OnlyGated, NothingFails PROVE Spec => []WorkspaceReopens
<1>1. IInv /\ GateInv /\ ReopenInv => WorkspaceReopens
    <2> SUFFICES ASSUME IInv, GateInv, ReopenInv PROVE WorkspaceReopens
        OBVIOUS
    <2>1. ASSUME mode = "open", \A a \in Operation : pc[a] \in {"idle", "target", "waiting", "gate"}
          PROVE  Sound /\ transitions = {} /\ corrections = {}
        <3>1. \A a \in Operation : pc[a] \notin Inside
            BY <2>1 DEF Inside, Moving
        <3>2. Settled
            BY <2>1, <3>1 DEF ReopenInv, Left
        <3> QED BY <3>2 DEF Settled, Sound, IInv, CurrentResolves, GateInv
    <2>2. BlockedOnlyByUnfinishedSave
        BY DEF ReopenInv, Left, Unfinished, Newer, BlockedOnlyByUnfinishedSave
    <2> QED BY <2>1, <2>2 DEF WorkspaceReopens, QuietWorkspaceReopens
<1> QED BY <1>1, ArchiveInitially, ArchiveInductive, GateInitially, GateInductive, ReopenInitially,
        ReopenInductive, Invariance, PTL DEF Spec

-----------------------------------------------------------------------------
(* Corrections: what a journal says is made current, by its request or by startup. *)

Unjournaled == {"idle", "target", "waiting", "gate", "check", "remove", "transitions",
                "corrections", "integrity"}
Targeting == {"document", "findings", "queued"} \cup Moving

CorrectionsDiffer == \A i, j \in corrections : i.id = j.id => i = j
OneOwner ==
    \A a, b \in Actor : op[a].correction = op[b].correction /\ op[a].correction # None => a = b

\* Who has a journal saves the ledger of the journal.
Carries(r, step) ==
    r.correction # None =>
        /\ r.kind \in CorrectionKinds /\ step \notin Unjournaled
        /\ \E j \in corrections : j.id = r.correction /\ j.content = r.content
        /\ step \in Targeting => r.target # None /\ r.target.content = r.content

\* Startup removes the journal of a correction when its ledger is current.
SurviveInv ==
    /\ CorrectionsDiffer /\ OneOwner
    /\ \A a \in Actor : Carries(op[a], pc[a])
    /\ pc[Startup] \in (Moving \ {"point"}) \cup {"closeCorrection"} /\ op[Startup].correction # None
          => ContentOf(current) = op[Startup].content
    /\ pc[Startup] = "integrity" => corrections = {}

\* The journals of others stay when one request goes on.
LEMMA OneGoesOn ==
    ASSUME SurviveInv, NEW a \in Actor,
           \A b \in Actor \ {a} : pc'[b] = pc[b] /\ op'[b] = op[b],
           corrections' \subseteq corrections,
           \A j \in corrections \ corrections' : j.id = op[a].correction,
           op'[a].correction \in {op[a].correction, None}, Carries(op[a], pc[a])'
    PROVE  CorrectionsDiffer' /\ OneOwner' /\ \A b \in Actor : Carries(op[b], pc[b])'
<1>1. CorrectionsDiffer'
    BY DEF SurviveInv, CorrectionsDiffer
<1>2. OneOwner'
    BY DEF SurviveInv, OneOwner
<1>3. ASSUME NEW b \in Actor \ {a} PROVE Carries(op[b], pc[b])'
    <2>1. Carries(op[b], pc[b]) /\ (op[b].correction # None => op[b].correction # op[a].correction)
        BY DEF SurviveInv, OneOwner
    <2> QED BY <2>1 DEF Carries
<1> QED BY <1>1, <1>2, <1>3

\* An answered request has no journal.
LEMMA LeaveCarriesNothing ==
    ASSUME IInv, NEW a \in Actor, op' = [op EXCEPT ![a] = NoRequest]
    PROVE  op'[a].correction = None /\ Carries(op[a], pc[a])'
<1>1. op'[a] = NoRequest
    BY DEF IInv, TypeOK
<1> QED BY <1>1 DEF Carries, NoRequest

\* Every step of a request with a journal brings the ledger of the journal closer.
LEMMA StepCarries ==
    ASSUME IInv, SurviveInv, NEW a \in Actor, Step(a), ~OpenCorrection(a)
    PROVE  op'[a].correction \in {op[a].correction, None} /\ Carries(op[a], pc[a])'
<1>0. /\ pc \in [Actor -> Steps] /\ op \in [Actor -> Request] /\ op[a] \in Request
      /\ Carries(op[a], pc[a])
    BY DEF IInv, TypeOK, SurviveInv
<1>1. CASE Throw(a) \/ Leave(a)
    BY <1>1, LeaveCarriesNothing DEF Throw, Leave, Update
<1>2. ASSUME op' = op, corrections' = corrections, pc'[a] \notin Unjournaled,
             pc'[a] \in Targeting => pc[a] \in Targeting
      PROVE  op'[a].correction \in {op[a].correction, None} /\ Carries(op[a], pc[a])'
    BY <1>0, <1>2 DEF Carries
<1>3. CASE TakeToken(a) \/ EnterGate(a) \/ (Check(a) /\ ~Throw(a)) \/ (ReadRemoved(a) /\ ~Throw(a))
    <2>1. pc[a] \in Unjournaled
        BY <1>3 DEF TakeToken, EnterGate, Check, ReadRemoved, Unjournaled
    <2>2. op[a].correction = None
        BY <1>0, <2>1 DEF Carries
    <2>3. op'[a].correction = op[a].correction
        BY <1>0, <1>3 DEF TakeToken, EnterGate, Check, Checked, ReadRemoved, Update, Request
    <2> QED BY <2>2, <2>3 DEF Carries
<1>4. CASE \/ ReadOriginal(a) \/ WriteOriginalFindings(a) \/ WriteOriginalDocument(a)
           \/ (VerifyOriginal(a) /\ ~Throw(a))
    <2>1. /\ pc'[a] \in {"originalFindings", "originalDocument", "verify", "openCorrection", "read"}
          /\ op' = op /\ corrections' = corrections
        BY <1>0, <1>4 DEF ReadOriginal, WriteOriginalFindings, WriteOriginalDocument, VerifyOriginal,
           AfterOriginal, Goto, journals
    <2> QED BY <1>2, <2>1 DEF Unjournaled, Targeting, Moving
<1>5. CASE CloseCorrection(a)
    BY <1>5, <1>1, LeaveCarriesNothing DEF CloseCorrection, Update
<1>6. ASSUME Saved(a), ~Leave(a), corrections' = corrections
      PROVE  op'[a].correction \in {op[a].correction, None} /\ Carries(op[a], pc[a])'
    <2>1. pc'[a] = "closeCorrection" /\ op' = op
        BY <1>0, <1>6 DEF Saved, Goto
    <2> QED BY <1>2, <1>6, <2>1 DEF Unjournaled, Targeting, Moving
<1>7. CASE ReadCurrent(a) /\ ~Throw(a) /\ ~Leave(a)
    <2>1. CASE Saved(a)
        BY <1>6, <1>7, <2>1 DEF ReadCurrent, journals
    <2>2. CASE ~Saved(a)
        <3>1. /\ pc'[a] = "scan" /\ corrections' = corrections
              /\ op'[a].correction = op[a].correction /\ op'[a].content = op[a].content
              /\ op'[a].kind = op[a].kind
            BY <1>0, <1>7, <2>2 DEF ReadCurrent, Goto, Update, Request, journals
        <3> QED BY <1>0, <3>1 DEF Carries, Unjournaled, Targeting, Moving
    <2> QED BY <2>1, <2>2
<1>8. CASE Scan(a) /\ ~Throw(a)
    <2>1. PICK x \in Artifact, step \in {"queued", "document"} :
            /\ x.content = op[a].content
            /\ op' = [op EXCEPT ![a] = [op[a] EXCEPT !.target = x]]
            /\ pc' = [pc EXCEPT ![a] = step]
            /\ corrections' = corrections
        BY <1>8, ScanChooses DEF journals
    <2>2. /\ pc'[a] = step /\ op'[a].target = x /\ op'[a].correction = op[a].correction
          /\ op'[a].content = op[a].content /\ x # None
        BY <1>0, <2>1, NoneAssumption DEF Request
    <2> QED BY <1>0, <2>1, <2>2 DEF Carries, Unjournaled
<1>9. CASE \/ WriteDocument(a) \/ WriteFindings(a) \/ (Point(a) /\ ~Throw(a))
           \/ (Archive(a) /\ ~Throw(a)) \/ ArchiveFindings(a)
    <2>1. /\ pc'[a] \in {"findings", "queued", "archive", "archiveFindings", "closeTransition"}
          /\ pc[a] \in Targeting /\ op' = op /\ corrections' = corrections
        BY <1>0, <1>9 DEF WriteDocument, WriteFindings, Enqueue, Point, AfterPoint, Archive, AfterArchive,
           ArchiveFindings, Goto, journals, Targeting, Moving
    <2> QED BY <1>2, <2>1 DEF Unjournaled
<1>10. CASE OpenTransition(a) /\ ~Throw(a)
    <2>1. /\ pc'[a] = "point" /\ pc[a] \in Targeting /\ corrections' = corrections
          /\ op'[a].correction = op[a].correction /\ op'[a].content = op[a].content
          /\ op'[a].target = op[a].target /\ op'[a].kind = op[a].kind
        BY <1>0, <1>10 DEF OpenTransition, Goto, Update, Request, Targeting
    <2> QED BY <1>0, <2>1 DEF Carries, Unjournaled
<1>11. CASE CloseTransition(a)
    <2>1. CASE Saved(a)
        BY <1>1, <1>6, <1>11, <2>1 DEF CloseTransition
    <2>2. CASE ~Saved(a)
        BY <1>11, <2>2, LeaveCarriesNothing DEF CloseTransition, Update
    <2> QED BY <2>1, <2>2
<1> QED BY <1>1, <1>3, <1>4, <1>5, <1>7, <1>8, <1>9, <1>10, <1>11 DEF Step

\* A journal of a correction is removed by its owner alone.
LEMMA CorrectionsLeft ==
    ASSUME IInv, NEW a \in Actor, Step(a), ~OpenCorrection(a)
    PROVE  /\ corrections' \subseteq corrections
           /\ \A j \in corrections \ corrections' : j.id = op[a].correction /\ CloseCorrection(a)
<1>1. CASE CloseCorrection(a)
    BY <1>1 DEF CloseCorrection, Unlinked
<1>2. CASE ~CloseCorrection(a)
    <2>1. corrections' = corrections
        BY <1>2 DEF Step, TakeToken, EnterGate, Check, ReadRemoved, ReadOriginal,
           WriteOriginalFindings, WriteOriginalDocument, VerifyOriginal, ReadCurrent, Scan, WriteDocument,
           WriteFindings, OpenTransition, Point, Archive, ArchiveFindings, CloseTransition, Throw, journals
    <2> QED BY <2>1
<1> QED BY <1>1, <1>2

\* A new journal has a name, and an owner, of its own.
LEMMA OpenCorrectionCarries ==
    ASSUME IInv, SurviveInv, NEW a \in Actor, OpenCorrection(a)
    PROVE  CorrectionsDiffer' /\ OneOwner' /\ \A b \in Actor : Carries(op[b], pc[b])'
<1>0. /\ pc \in [Actor -> Steps] /\ op \in [Actor -> Request] /\ op[a] \in Request
      /\ \A b \in Actor \ {a} : pc'[b] = pc[b] /\ op'[b] = op[b]
    BY StepLocal DEF IInv, TypeOK, Step
<1>1. PICK id \in JournalId \ {j.id : j \in corrections} :
        /\ corrections' = corrections \cup
              {[id |-> id, before |-> op[a].base, content |-> op[a].content]}
        /\ op' = [op EXCEPT ![a] = [op[a] EXCEPT !.correction = id]]
    BY DEF OpenCorrection, Update
<1> DEFINE new == [id |-> id, before |-> op[a].base, content |-> op[a].content]
<1>2. /\ pc'[a] = "read" /\ op'[a].correction = id /\ op'[a].content = op[a].content
      /\ op'[a].kind \in CorrectionKinds
    BY <1>0, <1>1 DEF OpenCorrection, Goto, Request, IInv, WellFormed
<1>3. CorrectionsDiffer'
    BY <1>1 DEF SurviveInv, CorrectionsDiffer
<1>4. \A b \in Actor \ {a} : op[b].correction # id
    BY <1>1, NoneAssumption DEF SurviveInv, Carries
<1>5. OneOwner'
    BY <1>0, <1>2, <1>4 DEF SurviveInv, OneOwner
<1>6. \A b \in Actor \ {a} : Carries(op[b], pc[b])'
    BY <1>0, <1>1 DEF SurviveInv, Carries
<1>7. Carries(op[a], pc[a])'
    <2>1. new \in corrections' /\ new.id = id /\ new.content = op[a].content
        BY <1>1
    <2> HIDE DEF new
    <2> QED BY <1>2, <2>1 DEF Carries, Unjournaled, Targeting, Moving
<1> QED BY <1>3, <1>5, <1>6, <1>7

\* While the workspace is open startup is over.
LEMMA RequestSurvives ==
    ASSUME IInv, SurviveInv, NEW a \in Operation, Step(a) \/ Start(a) \/ Fault(a)
    PROVE  SurviveInv'
<1>0. /\ pc \in [Actor -> Steps] /\ op \in [Actor -> Request] /\ a \in Actor /\ a # Startup
      /\ Startup \in Actor
      /\ \A b \in Actor \ {a} : pc'[b] = pc[b] /\ op'[b] = op[b]
    BY StepLocal, ActorAssumption DEF IInv, TypeOK, Actor
<1>1. pc[Startup] = "idle"
    <2>1. mode = "open" \/ pc[a] = "idle"
        BY DEF IInv, TypeOK, Exclusive
    <2>2. pc[a] = "idle" => mode = "open"
        BY DEF Step, Start, Fault, WritingSteps, TakeToken, EnterGate, Check, ReadRemoved, ReadOriginal, WriteOriginalFindings,
           WriteOriginalDocument, VerifyOriginal, OpenCorrection, CloseCorrection, ReadCurrent, Scan,
           WriteDocument, WriteFindings, OpenTransition, Point, Archive, ArchiveFindings, CloseTransition
    <2> QED BY <2>1, <2>2 DEF IInv, Exclusive
<1>2. CorrectionsDiffer' /\ OneOwner' /\ \A b \in Actor : Carries(op[b], pc[b])'
    <2>1. CASE Step(a) /\ ~OpenCorrection(a)
        BY <1>0, <2>1, StepCarries, CorrectionsLeft, OneGoesOn
    <2>2. CASE OpenCorrection(a)
        BY <1>0, <2>2, OpenCorrectionCarries
    <2>3. CASE Start(a)
        <3>1. PICK kind, content, base : Begin(a, kind, content, base)
            BY <2>3 DEF Start
        <3>2. op'[a].correction = None /\ corrections' = corrections
            BY <1>0, <2>3, <3>1 DEF Begin, Update, NoRequest, Start, journals
        <3> QED BY <1>0, <3>2, OneGoesOn DEF Carries
    <2>4. CASE Fault(a)
        <3>1. op'[a].correction = None /\ Carries(op[a], pc[a])' /\ corrections' = corrections
            BY <1>0, <2>4, LeaveCarriesNothing DEF Fault, Leave, Update, journals
        <3> QED BY <1>0, <3>1, OneGoesOn
    <2> QED BY <2>1, <2>2, <2>3, <2>4
<1>3. pc'[Startup] = "idle"
    BY <1>0, <1>1
<1> QED BY <1>2, <1>3 DEF SurviveInv, Moving

\* What startup replays is current when it has been saved.
LEMMA StartupSaves ==
    ASSUME IInv, SurviveInv, Step(Startup),
           pc'[Startup] \in (Moving \ {"point"}) \cup {"closeCorrection"}, op'[Startup].correction # None
    PROVE  ContentOf(current') = op'[Startup].content
<1>0. /\ pc \in [Actor -> Steps] /\ op \in [Actor -> Request] /\ Startup \in Actor
      /\ op[Startup] \in Request /\ Carries(op[Startup], pc[Startup])
    BY DEF IInv, TypeOK, SurviveInv, Actor
<1>1. ~Throw(Startup) /\ ~Leave(Startup)
    BY <1>0 DEF Throw, Leave, Goto, Moving
<1>2. CASE Point(Startup)
    <2>1. op' = op /\ current' = op[Startup].target /\ pc[Startup] \in Targeting
        BY <1>1, <1>2 DEF Point, Targeting, Moving
    <2> QED BY <1>0, <2>1 DEF Carries, ContentOf
<1>3. CASE ReadCurrent(Startup)
    <2>1. CASE Saved(Startup)
        <3>1. op' = op /\ current' = current /\ op[Startup].correction # None
            BY <1>0, <1>1, <1>3, <2>1 DEF ReadCurrent, Saved
        <3>2. pc[Startup] = "read" /\ NothingToSave(Startup)
            BY <1>0, <1>1, <1>3, <2>1 DEF ReadCurrent, Saved, Goto
        <3>3. op[Startup].kind # "ensure"
            BY <1>0, <3>1 DEF Carries, CorrectionKinds
        <3> QED BY <3>1, <3>2, <3>3 DEF NothingToSave
    <2>2. CASE ~Saved(Startup)
        BY <1>0, <1>1, <1>3, <2>2 DEF ReadCurrent, Goto, Moving
    <2> QED BY <2>1, <2>2
<1>4. CASE (Archive(Startup) \/ ArchiveFindings(Startup) \/ CloseTransition(Startup))
    <2>1. pc[Startup] \in Moving \ {"point"} /\ current' = current
        BY <1>1, <1>4 DEF Archive, ArchiveFindings, CloseTransition, Moving
    <2>2. op' = op
        BY <1>0, <1>1, <1>4 DEF Archive, ArchiveFindings, CloseTransition, Saved, Update, NoRequest
    <2> QED BY <2>1, <2>2 DEF SurviveInv
<1>5. CASE ~Point(Startup) /\ ~ReadCurrent(Startup) /\ ~Archive(Startup) /\ ~ArchiveFindings(Startup)
           /\ ~CloseTransition(Startup)
    <2>1. CASE Scan(Startup)
        BY <1>0, <1>1, <2>1, ScanChooses DEF Moving
    <2>2. CASE ~Scan(Startup)
        BY <1>0, <1>1, <1>5, <2>2 DEF Step, TakeToken, EnterGate, Check, AfterCheck, ReadRemoved, Enqueue,
           ReadOriginal, WriteOriginalFindings, WriteOriginalDocument, VerifyOriginal, AfterOriginal,
           OpenCorrection, CloseCorrection, WriteDocument, WriteFindings, OpenTransition, Goto, Moving
    <2> QED BY <2>1, <2>2
<1> QED BY <1>2, <1>3, <1>4, <1>5

\* Startup takes over a journal as it finds it.
LEMMA RecoverSurvives ==
    ASSUME IInv, SurviveInv, Recover
    PROVE  SurviveInv'
<1>0. /\ pc \in [Actor -> Steps] /\ op \in [Actor -> Request] /\ Startup \in Actor
      /\ Carries(op[Startup], pc[Startup])
      /\ UNCHANGED <<current, corrections>>
    BY DEF IInv, TypeOK, SurviveInv, Actor, Recover, RecoverTransition, RecoverCorrection,
           CheckIntegrity, journals
<1>1. \A b \in Actor \ {Startup} : pc'[b] = pc[b] /\ op'[b] = op[b]
    BY <1>0 DEF Recover, RecoverTransition, RecoverCorrection, CheckIntegrity, Goto, Update
<1>2. pc[Startup] \in {"transitions", "corrections", "integrity"} /\ op[Startup].correction = None
    <2>1. pc[Startup] \in {"transitions", "corrections", "integrity"}
        BY DEF Recover, RecoverTransition, RecoverCorrection, CheckIntegrity
    <2> QED BY <1>0, <2>1 DEF Carries, Unjournaled
<1>3. \A b \in Operation : op[b].correction = None
    <2>1. mode # "open" /\ \A b \in Operation : b \in Actor
        BY <1>2 DEF IInv, Exclusive, Actor
    <2>2. \A b \in Operation : pc[b] = "idle"
        BY <2>1 DEF IInv, Exclusive
    <2> QED BY <2>1, <2>2 DEF SurviveInv, Carries, Unjournaled
<1>4. CASE op'[Startup].correction = None /\ pc'[Startup] # "integrity"
    BY <1>0, <1>1, <1>4 DEF SurviveInv, CorrectionsDiffer, OneOwner, Carries
<1>5. CASE RecoverTransition
    <2>1. CASE op' = op
        <3>1. pc'[Startup] \in {"point", "corrections"}
            BY <1>0, <1>5 DEF RecoverTransition, Goto
        <3> QED BY <1>2, <1>4, <2>1, <3>1
    <2>2. ASSUME NEW j, op' = [op EXCEPT ![Startup] = [NoRequest EXCEPT !.previous = j.previous,
                                          !.target = j.target, !.journal = j.id]]
          PROVE  op'[Startup].correction = None
        BY <1>0, <2>2 DEF NoRequest
    <2>3. pc'[Startup] \in {"point", "corrections"}
        BY <1>0, <1>5 DEF RecoverTransition, Goto
    <2>4. op'[Startup].correction = None
        BY <1>2, <1>5, <2>2 DEF RecoverTransition, Update
    <2> QED BY <1>4, <2>3, <2>4
<1>6. CASE RecoverCorrection /\ op' = op
    <2>1. corrections' = {} \/ pc'[Startup] # "integrity"
        BY <1>0, <1>6 DEF RecoverCorrection, Goto
    <2>2. pc'[Startup] \in {"original", "integrity"}
        BY <1>0, <1>6 DEF RecoverCorrection, Goto
    <2> QED BY <1>0, <1>1, <1>2, <1>6, <2>1, <2>2
        DEF SurviveInv, CorrectionsDiffer, OneOwner, Carries, Moving
<1>7. CASE RecoverCorrection /\ op' # op
    <2>1. PICK j \in corrections : op' = [op EXCEPT ![Startup] = Replayed(j)] /\ pc'[Startup] = "original"
        BY <1>0, <1>7 DEF RecoverCorrection, Update, Goto
    <2>2. /\ op'[Startup].correction = j.id /\ op'[Startup].content = j.content
          /\ op'[Startup].kind = "correct"
        BY <1>0, <2>1 DEF Replayed, NoRequest
    <2>3. Carries(op[Startup], pc[Startup])'
        BY <1>0, <2>1, <2>2 DEF Carries, Unjournaled, Targeting, Moving, CorrectionKinds
    <2>4. OneOwner'
        BY <1>1, <1>3 DEF OneOwner, Actor
    <2>5. \A b \in Actor \ {Startup} : Carries(op[b], pc[b])'
        BY <1>0, <1>1 DEF SurviveInv, Carries
    <2> QED BY <1>0, <2>1, <2>3, <2>4, <2>5 DEF SurviveInv, CorrectionsDiffer, Moving
<1>8. CASE CheckIntegrity
    <2>1. op' = op /\ pc'[Startup] = "idle"
        BY <1>0, <1>8 DEF CheckIntegrity, Goto
    <2> QED BY <1>2, <1>4, <2>1
<1> QED BY <1>5, <1>6, <1>7, <1>8 DEF Recover

LEMMA SurviveInitially == Init => SurviveInv
BY ActorAssumption DEF Init, SurviveInv, CorrectionsDiffer, OneOwner, Carries, NoRequest, Moving, Actor

LEMMA SurviveInductive == IInv /\ SurviveInv /\ [Next]_vars => SurviveInv'
<1> SUFFICES ASSUME IInv, SurviveInv, [Next]_vars PROVE SurviveInv'
    OBVIOUS
<1>0. Startup \in Actor
    BY DEF Actor
<1>1. ASSUME NEW a \in Operation, Step(a) \/ Start(a) \/ Fault(a) PROVE SurviveInv'
    BY <1>1, RequestSurvives
<1>2. CASE Step(Startup)
    <2>1. \A b \in Actor \ {Startup} : pc'[b] = pc[b] /\ op'[b] = op[b]
        BY <1>0, <1>2, StepLocal
    <2>2. CorrectionsDiffer' /\ OneOwner' /\ \A b \in Actor : Carries(op[b], pc[b])'
        <3>1. CASE OpenCorrection(Startup)
            BY <1>0, <3>1, OpenCorrectionCarries
        <3>2. CASE ~OpenCorrection(Startup)
            BY <1>0, <1>2, <2>1, <3>2, StepCarries, CorrectionsLeft, OneGoesOn
        <3> QED BY <3>1, <3>2
    <2>3. pc'[Startup] # "integrity"
        <3>1. pc \in [Actor -> Steps]
            BY DEF IInv, TypeOK
        <3>2. CASE Scan(Startup) /\ ~Throw(Startup)
            BY <1>0, <3>1, <3>2, ScanChooses
        <3>3. CASE Throw(Startup) \/ Leave(Startup)
            BY <1>0, <3>1, <3>3 DEF Throw, Leave, Goto
        <3>4. CASE ~Scan(Startup) /\ ~Throw(Startup) /\ ~Leave(Startup)
            BY <1>0, <1>2, <3>1, <3>4 DEF Step, TakeToken, EnterGate, Check, AfterCheck, ReadRemoved, Enqueue,
               ReadOriginal, WriteOriginalFindings, WriteOriginalDocument, VerifyOriginal, AfterOriginal,
               OpenCorrection, CloseCorrection, ReadCurrent, Saved, WriteDocument, WriteFindings,
               OpenTransition, Point, AfterPoint, Archive, AfterArchive, ArchiveFindings, CloseTransition, Goto
        <3> QED BY <3>2, <3>3, <3>4
    <2> QED BY <1>2, <2>2, <2>3, StartupSaves DEF SurviveInv, ContentOf
<1>3. CASE Crash
    <2>1. /\ \A a \in Actor : op'[a] = NoRequest
          /\ pc'[Startup] = "transitions" /\ corrections' = corrections
        BY <1>0, <1>3 DEF Crash, journals
    <2> QED BY <2>1 DEF SurviveInv, CorrectionsDiffer, OneOwner, Carries, NoRequest, Moving
<1>4. CASE UNCHANGED vars
    BY <1>4 DEF vars, SurviveInv, CorrectionsDiffer, OneOwner, Carries, ContentOf, journals
<1> QED BY <1>1, <1>2, <1>3, <1>4, RecoverSurvives DEF Next, Actor

\* However often the process dies, also within repair, a correction whose journal is on disk becomes
\* current before the workspace opens again (recoverCorrectionJournals, rollForwardCorrection).
THEOREM JournaledSurvives == Spec => JournaledCorrectionSurvives
<1>1. ASSUME IInv, SurviveInv, [Next]_vars, mode = "recovering"
      PROVE  /\ \A j \in corrections \ corrections' : ContentOf(current) = j.content
             /\ mode' = "open" => corrections = {}
    <2>0. /\ Startup \in Actor /\ \A b \in Operation : pc[b] = "idle"
          /\ \A b \in Operation : ~Step(b) /\ ~Start(b) /\ ~Fault(b)
        <3>1. \A b \in Operation : pc[b] = "idle"
            BY <1>1 DEF IInv, Exclusive
        <3> QED BY <1>1, <3>1 DEF Actor, Step, Start, Fault, WritingSteps, TakeToken, EnterGate, Check, ReadRemoved,
           ReadOriginal, WriteOriginalFindings, WriteOriginalDocument, VerifyOriginal, OpenCorrection,
           CloseCorrection, ReadCurrent, Scan, WriteDocument, WriteFindings, OpenTransition, Point, Archive,
           ArchiveFindings, CloseTransition
    <2>1. ASSUME NEW j \in corrections \ corrections' PROVE ContentOf(current) = j.content
        <3>1. ~Recover /\ ~Crash /\ ~OpenCorrection(Startup)
            BY <2>1 DEF Recover, RecoverTransition, RecoverCorrection, CheckIntegrity, Crash, OpenCorrection,
               journals
        <3>2. Step(Startup)
            BY <1>1, <2>0, <2>1, <3>1 DEF Next, Actor, vars, journals
        <3>3. CloseCorrection(Startup) /\ j.id = op[Startup].correction
            BY <1>1, <2>0, <2>1, <3>1, <3>2, CorrectionsLeft
        <3>4. op[Startup].correction # None
            BY <1>1, <3>3, NoneAssumption DEF IInv, TypeOK
        <3>5. PICK i \in corrections : i.id = op[Startup].correction /\ i.content = op[Startup].content
            BY <1>1, <2>0, <3>4 DEF SurviveInv, Carries
        <3>6. i = j
            BY <1>1, <3>3, <3>5 DEF SurviveInv, CorrectionsDiffer
        <3> QED BY <1>1, <3>3, <3>4, <3>5, <3>6 DEF SurviveInv, CloseCorrection
    <2>2. ASSUME mode' = "open" PROVE corrections = {}
        <3>1. ~Step(Startup) /\ ~Crash /\ mode' # mode
            BY <1>1, <2>2 DEF Crash, Step, TakeToken, EnterGate, Check, ReadRemoved,
               ReadOriginal, WriteOriginalFindings, WriteOriginalDocument, VerifyOriginal, OpenCorrection,
               CloseCorrection, ReadCurrent, Scan, WriteDocument, WriteFindings, OpenTransition, Point, Archive,
               ArchiveFindings, CloseTransition, Throw, Saved, Leave
        <3>2. CheckIntegrity
            BY <1>1, <2>0, <3>1 DEF Next, Actor, vars, Recover, RecoverTransition, RecoverCorrection
        <3> QED BY <1>1, <3>2 DEF CheckIntegrity, SurviveInv
    <2> QED BY <2>1, <2>2
<1>2. IInv /\ SurviveInv /\ [Next]_vars =>
        [mode = "recovering" =>
            /\ \A j \in corrections \ corrections' : ContentOf(current) = j.content
            /\ mode' = "open" => corrections = {}]_vars
    BY <1>1
<1> QED BY <1>2, SurviveInitially, SurviveInductive, Invariance, PTL DEF Spec, JournaledCorrectionSurvives

-----------------------------------------------------------------------------
(* Corrections alone: what they leave active has a journal, or was saved twice. *)

OnlyCorrections == Kinds \subseteq CorrectionKinds

\* A journal on disk whose request has not made another artifact of its ledger current.
Journaled(x) ==
    \E j \in corrections :
        /\ j.content = x.content
        /\ \A a \in Operation :
              op[a].correction = j.id =>
                  op[a].target = x /\ pc[a] \in {"findings", "queued", "point"}

\* A transition goes on to archive it.
Retiring(x) ==
    \/ \E a \in Actor : pc[a] = "archive" /\ op[a].previous = x
    \/ /\ pc[Startup] \in {"transitions", "point"}
       /\ \E t \in transitions : t.previous = x

Accounted(x) == SavedTwice(x) \/ Journaled(x) \/ Retiring(x)

\* Transitions come one after another, and startup can finish the one it finds.
Rolls(t) ==
    /\ Readable(t.target) /\ current \in {t.previous, t.target}
    /\ t.previous \in active \cup superseded \cup {None}

OneTransition ==
    /\ transitions = {} \/ \E t \in transitions : transitions = {t} /\ Rolls(t)
    /\ \A a \in Actor :
          pc[a] \in Moving =>
              transitions = {JournalOf(op[a])} /\ (pc[a] # "point" => current = op[a].target)
    /\ transitions = {} \/ pc[Startup] = "transitions" \/ \E a \in Actor : pc[a] \in Moving

\* A request writes no artifact before its journal, and startup none without one.
Corrects(r, step) ==
    /\ r.kind \in CorrectionKinds \cup {"none"}
    /\ step # "remove"
    /\ step \in {"read", "scan", "document", "findings", "queued", "closeCorrection"}
          => r.correction # None
    /\ step \in Moving => r.correction # None \/ r.kind = "none"

\* Nothing changes under startup.
Replaying(r, step) ==
    /\ r.kind \in {"correct", "none"}
    /\ step \notin {"target", "waiting", "gate", "check", "openCorrection"}
    /\ step \in {"original", "originalFindings", "originalDocument", "verify"} => r.correction # None
    /\ step = "verify" => original = OriginalContent(Startup)
    /\ step \in {"scan", "document", "findings", "queued"} => r.previous = current
    /\ step = "findings" => r.target \in active
    /\ step = "queued" => Readable(r.target)

CrashInv ==
    /\ faults = 0
    /\ mode = "blocked" => pc[Startup] = "idle"
    /\ \A a \in Actor : Corrects(op[a], pc[a])
    /\ Replaying(op[Startup], pc[Startup])
    /\ OneTransition
    /\ \A x \in active \ {current} : Accounted(x)
    /\ CorrectionCrashRecovers

RepairInv == IInv /\ ArchiveInv /\ SurviveInv /\ CrashInv

\* A request is in flight only while the workspace is open, when startup is over.
LEMMA RequestsWhileOpen ==
    ASSUME IInv, NEW a \in Operation, pc[a] # "idle"
    PROVE  mode = "open" /\ pc[Startup] = "idle"
BY DEF IInv, TypeOK, Exclusive

\* An answered request corrects nothing, replays nothing and retires nothing.
LEMMA AnsweredCorrects ==
    ASSUME IInv, NEW a \in Actor, Leave(a)
    PROVE  pc'[a] = "idle" /\ op'[a] = NoRequest /\ Corrects(op[a], pc[a])'
<1>1. pc'[a] = "idle" /\ op'[a] = NoRequest
    BY DEF Leave, Goto, Update, IInv, TypeOK
<1> QED BY <1>1 DEF Corrects, NoRequest, Moving

\* Whichever way a correction goes, it has its journal before it reads what to save.
LEMMA StepCorrects ==
    ASSUME IInv, SurviveInv, NEW a \in Actor, Corrects(op[a], pc[a]), Step(a)
    PROVE  Corrects(op[a], pc[a])'
<1>0. /\ pc \in [Actor -> Steps] /\ op \in [Actor -> Request] /\ op[a] \in Request
      /\ pc[a] \in Saving => op[a].kind \in CorrectionKinds
    BY DEF IInv, TypeOK, WellFormed, Corrects
<1>1. CASE Throw(a) \/ Leave(a)
    BY <1>1, AnsweredCorrects DEF Throw
<1>2. CASE TakeToken(a) \/ EnterGate(a) \/ (Check(a) /\ ~Throw(a))
    <2>1. op'[a].kind = op[a].kind /\ op[a].kind # "none"
        BY <1>0, <1>2 DEF TakeToken, EnterGate, Check, Checked, Update, Request, IInv, WellFormed
    <2>2. pc'[a] \in {"waiting", "gate", "original"}
        BY <1>0, <1>2, <2>1 DEF TakeToken, EnterGate, Check, AfterCheck, Goto, Corrects, CorrectionKinds
    <2> QED BY <2>1, <2>2 DEF Corrects, Moving
<1>3. CASE \/ ReadOriginal(a) \/ WriteOriginalFindings(a) \/ WriteOriginalDocument(a)
           \/ (VerifyOriginal(a) /\ ~Throw(a))
    <2>1. /\ op' = op /\ pc[a] \in Saving
          /\ pc'[a] \in {"originalFindings", "originalDocument", "verify", "openCorrection"}
             \/ (pc'[a] = "read" /\ op[a].correction # None)
        BY <1>0, <1>3 DEF ReadOriginal, WriteOriginalFindings, WriteOriginalDocument, VerifyOriginal,
           AfterOriginal, Goto, Saving
    <2> QED BY <1>0, <2>1 DEF Corrects, Moving
<1>4. CASE OpenCorrection(a)
    <2>1. PICK id \in JournalId : op' = [op EXCEPT ![a] = [op[a] EXCEPT !.correction = id]]
        BY <1>4 DEF OpenCorrection, Update
    <2>2. op'[a].correction # None /\ op'[a].kind = op[a].kind /\ pc'[a] = "read"
        BY <1>0, <1>4, <2>1, NoneAssumption DEF OpenCorrection, Goto, Request
    <2> QED BY <2>2 DEF Corrects, Moving
<1>5. CASE CloseCorrection(a) /\ ~Leave(a)
    <2>1. op'[a] = NoRequest /\ pc'[a] = "corrections"
        BY <1>0, <1>5 DEF CloseCorrection, Goto, Update
    <2> QED BY <2>1 DEF Corrects, NoRequest, Moving
<1>6. ASSUME Saved(a), ~Leave(a) PROVE Corrects(op[a], pc[a])'
    <2>1. pc'[a] = "closeCorrection" /\ op' = op /\ op[a].correction # None
        BY <1>0, <1>6 DEF Saved, Goto
    <2> QED BY <2>1 DEF Corrects, Moving
<1>7. CASE ReadCurrent(a) /\ ~Throw(a) /\ ~Leave(a)
    <2>1. CASE Saved(a)
        BY <1>6, <1>7, <2>1
    <2>2. CASE ~Saved(a)
        <3>1. /\ pc'[a] = "scan" /\ pc[a] = "read"
              /\ op'[a].correction = op[a].correction /\ op'[a].kind = op[a].kind
            BY <1>0, <1>7, <2>2 DEF ReadCurrent, Goto, Update, Request
        <3> QED BY <3>1 DEF Corrects, Moving
    <2> QED BY <2>1, <2>2
<1>8. CASE Scan(a) /\ ~Throw(a)
    <2>1. PICK x \in Artifact, step \in {"queued", "document"} :
            /\ op' = [op EXCEPT ![a] = [op[a] EXCEPT !.target = x]]
            /\ pc' = [pc EXCEPT ![a] = step]
        BY <1>8, ScanChooses
    <2>2. /\ pc'[a] = step /\ op'[a].correction = op[a].correction /\ op'[a].kind = op[a].kind
          /\ pc[a] = "scan"
        BY <1>0, <1>8, <2>1 DEF Request, Scan
    <2> QED BY <2>1, <2>2 DEF Corrects, Moving
<1>9. CASE \/ WriteDocument(a) \/ WriteFindings(a) \/ (Point(a) /\ ~Throw(a))
           \/ (Archive(a) /\ ~Throw(a)) \/ ArchiveFindings(a)
    <2>1. /\ op' = op
          /\ \/ pc[a] \in {"document", "findings"} /\ pc'[a] \in {"findings", "queued"}
             \/ pc[a] \in Moving /\ pc'[a] \in Moving
        BY <1>0, <1>9 DEF WriteDocument, WriteFindings, Enqueue, Point, AfterPoint, Archive, AfterArchive,
           ArchiveFindings, Goto, Moving
    <2> QED BY <2>1 DEF Corrects, Moving
<1>10. CASE OpenTransition(a) /\ ~Throw(a)
    <2>1. /\ pc'[a] = "point" /\ pc[a] = "queued"
          /\ op'[a].correction = op[a].correction /\ op'[a].kind = op[a].kind
        BY <1>0, <1>10 DEF OpenTransition, Goto, Update, Request
    <2> QED BY <2>1 DEF Corrects, Moving
<1>11. CASE CloseTransition(a) /\ ~Leave(a)
    <2>1. CASE Saved(a)
        BY <1>6, <1>11, <2>1
    <2>2. CASE ~Saved(a)
        <3>1. op'[a] = NoRequest /\ pc'[a] = "transitions"
            BY <1>0, <1>11, <2>2 DEF CloseTransition, Goto, Update
        <3> QED BY <3>1 DEF Corrects, NoRequest, Moving
    <2> QED BY <2>1, <2>2
<1>12. ~ReadRemoved(a)
    BY DEF ReadRemoved, Corrects
<1> QED BY <1>1, <1>2, <1>3, <1>4, <1>5, <1>7, <1>8, <1>9, <1>10, <1>11, <1>12 DEF Step

\* Startup never throws but for a ledger it finds twice, or in pieces.
LEMMA StartupGoesOn ==
    ASSUME RepairInv, Step(Startup), Throw(Startup)
    PROVE  Scan(Startup)
<1>0. /\ Startup \in Actor /\ Replaying(op[Startup], pc[Startup]) /\ Corrects(op[Startup], pc[Startup])
      /\ OneTransition
    BY DEF RepairInv, CrashInv, Actor
<1>1. pc[Startup] \notin {"target", "waiting", "gate", "check", "remove", "openCorrection"}
    BY <1>0 DEF Replaying, Corrects
<1>2. pc'[Startup] = "idle"
    BY DEF Throw, Leave, Goto, RepairInv, IInv, TypeOK, Actor
<1>3. ~VerifyOriginal(Startup)
    BY <1>0, <1>2 DEF VerifyOriginal, Replaying, SameDocument, AfterOriginal, Goto, RepairInv, IInv, TypeOK
<1>4. ASSUME ReadCurrent(Startup) PROVE FALSE
    <2>1. TokenHolds(Startup)
        BY <1>0 DEF Replaying, TokenHolds, CollectionKinds
    <2>2. pc'[Startup] # "idle"
        BY <1>0, <1>4, <2>1 DEF ReadCurrent, Goto, RepairInv, IInv, TypeOK, Saved, Corrects
    <2> QED BY <1>2, <2>2
<1>5. ASSUME OpenTransition(Startup) PROVE FALSE
    <2>1. current = op[Startup].previous /\ Readable(op[Startup].target)
        BY <1>0, <1>5 DEF OpenTransition, Replaying
    <2> QED BY <1>0, <1>2, <1>5, <2>1 DEF OpenTransition, Goto, RepairInv, IInv, TypeOK
<1>6. ASSUME pc[Startup] \in Moving
      PROVE  Readable(op[Startup].target) /\ op[Startup].previous \in active \cup superseded \cup {None}
    <2>1. transitions = {JournalOf(op[Startup])}
        BY <1>0, <1>6 DEF OneTransition
    <2>2. Rolls(JournalOf(op[Startup]))
        BY <1>0, <2>1 DEF OneTransition
    <2> QED BY <2>2 DEF Rolls, JournalOf
<1>7. ~Point(Startup)
    BY <1>0, <1>2, <1>6 DEF Point, AfterPoint, Goto, Moving, RepairInv, IInv, TypeOK
<1>8. ASSUME Archive(Startup) PROVE FALSE
    <2>1. op[Startup].previous \in active \cup superseded
        BY <1>0, <1>6, <1>8, NoneAssumption DEF Archive, Moving, RepairInv, IInv, WellFormed
    <2> QED BY <1>0, <1>2, <1>8, <2>1 DEF Archive, Displaced, AfterArchive, Goto, RepairInv, IInv, TypeOK
<1>9. pc \in [Actor -> Steps]
    BY DEF RepairInv, IInv, TypeOK
<1>10. ~CloseTransition(Startup)
    <2>1. ASSUME CloseTransition(Startup)
          PROVE  op[Startup].kind = "none" \/ op[Startup].correction # None
        BY <1>0, <2>1 DEF Corrects, Moving, CloseTransition
    <2> QED BY <1>0, <1>2, <1>9, <2>1 DEF CloseTransition, Saved, Goto
<1> QED BY <1>0, <1>1, <1>2, <1>3, <1>4, <1>5, <1>7, <1>8, <1>9, <1>10 DEF Step, TakeToken, EnterGate, Check,
        ReadRemoved, ReadOriginal, AfterOriginal, WriteOriginalFindings, WriteOriginalDocument, OpenCorrection,
        CloseCorrection, WriteDocument, WriteFindings, Enqueue, ArchiveFindings, Goto

\* What startup replays it finds as it was when it looked.
LEMMA StartupReplays ==
    ASSUME RepairInv, Step(Startup), ~Throw(Startup)
    PROVE  Replaying(op[Startup], pc[Startup])'
<1>0. /\ pc \in [Actor -> Steps] /\ op \in [Actor -> Request] /\ op[Startup] \in Request
      /\ Startup \in Actor
      /\ Replaying(op[Startup], pc[Startup]) /\ Corrects(op[Startup], pc[Startup])
      /\ Carries(op[Startup], pc[Startup])
    BY DEF RepairInv, IInv, TypeOK, SurviveInv, CrashInv, Actor
<1>1. pc[Startup] \notin {"target", "waiting", "gate", "check", "remove", "openCorrection"}
    BY <1>0 DEF Replaying, Corrects
<1>2. CASE Leave(Startup)
    <2>1. pc'[Startup] = "idle" /\ op'[Startup] = NoRequest
        BY <1>0, <1>2, AnsweredCorrects DEF RepairInv
    <2> QED BY <2>1 DEF Replaying, NoRequest
<1>3. ASSUME op' = op, pc'[Startup] \in {"originalFindings", "originalDocument", "read", "closeCorrection"} \cup Moving,
             pc'[Startup] \in {"originalFindings", "originalDocument"} => op[Startup].correction # None
      PROVE  Replaying(op[Startup], pc[Startup])'
    BY <1>0, <1>3 DEF Replaying, Moving
<1>4. CASE \/ ReadOriginal(Startup) \/ WriteOriginalFindings(Startup)
           \/ (VerifyOriginal(Startup) /\ ~Throw(Startup))
    <2>1. /\ op' = op /\ op[Startup].correction # None
          /\ pc'[Startup] \in {"originalFindings", "originalDocument", "read"}
        BY <1>0, <1>4 DEF ReadOriginal, WriteOriginalFindings, VerifyOriginal, AfterOriginal, Goto, Replaying
    <2> QED BY <1>3, <2>1
<1>5. CASE WriteOriginalDocument(Startup)
    <2>1. /\ op' = op /\ op[Startup].correction # None /\ pc'[Startup] = "verify"
          /\ original' = OriginalContent(Startup)
        BY <1>0, <1>5 DEF WriteOriginalDocument, Goto, Replaying
    <2> QED BY <1>0, <2>1 DEF Replaying, OriginalContent
<1>6. CASE CloseCorrection(Startup) /\ ~Leave(Startup)
    <2>1. op'[Startup] = NoRequest /\ pc'[Startup] = "corrections"
        BY <1>0, <1>6 DEF CloseCorrection, Goto, Update
    <2> QED BY <2>1 DEF Replaying, NoRequest
<1>7. ASSUME Saved(Startup), ~Leave(Startup) PROVE Replaying(op[Startup], pc[Startup])'
    BY <1>0, <1>3, <1>7 DEF Saved, Goto
<1>8. CASE ReadCurrent(Startup) /\ ~Leave(Startup)
    <2>1. CASE Saved(Startup)
        BY <1>7, <1>8, <2>1
    <2>2. CASE ~Saved(Startup)
        <3>1. /\ pc'[Startup] = "scan" /\ op'[Startup].kind = op[Startup].kind
              /\ op'[Startup].previous = current /\ current' = current
            BY <1>0, <1>8, <2>2 DEF ReadCurrent, Goto, Update, Request
        <3> QED BY <1>0, <3>1 DEF Replaying
    <2> QED BY <2>1, <2>2
<1>9. CASE Scan(Startup)
    <2>1. PICK x \in Artifact : op' = [op EXCEPT ![Startup] = [op[Startup] EXCEPT !.target = x]]
        BY <1>0, <1>9, ScanChooses DEF RepairInv
    <2>2. /\ op'[Startup].target = x /\ op'[Startup].previous = current /\ current' = current
          /\ op'[Startup].kind = op[Startup].kind
          /\ UNCHANGED <<active, activeFindings>>
        BY <1>0, <1>9, <2>1 DEF Scan, Replaying, Request, files
    <2>3. pc'[Startup] = "document" \/ (pc'[Startup] = "queued" /\ Intact(x))
        <3>1. CASE Reusable(Startup) = {}
            BY <1>0, <1>9, <3>1 DEF Scan, Goto
        <3>2. CASE Reusable(Startup) # {}
            <4>1. PICK y \in Reusable(Startup) :
                    /\ Intact(y) /\ op' = [op EXCEPT ![Startup] = [op[Startup] EXCEPT !.target = y]]
                    /\ pc' = [pc EXCEPT ![Startup] = "queued"]
                BY <1>9, <3>2 DEF Scan, Update, Enqueue, Goto
            <4>2. op'[Startup].target = y
                BY <1>0, <4>1 DEF Request
            <4> QED BY <1>0, <2>2, <4>1, <4>2
        <3> QED BY <3>1, <3>2
    <2> QED BY <1>0, <2>2, <2>3 DEF Replaying, Readable, Intact
<1>10. CASE WriteDocument(Startup)
    <2>1. /\ op' = op /\ current' = current /\ op[Startup].previous = current
          /\ op[Startup].target.content = op[Startup].content
          /\ op[Startup].target \in active'
          /\ pc'[Startup] = "findings" \/ (pc'[Startup] = "queued" /\ op[Startup].content \notin WithFindings)
        <3>1. op[Startup].correction # None
            BY <1>0, <1>10 DEF WriteDocument, Corrects
        <3> QED BY <1>0, <1>10, <3>1 DEF WriteDocument, Enqueue, Goto, Replaying, Carries, Targeting
    <2> QED BY <1>0, <2>1 DEF Replaying, Readable, Intact
<1>11. CASE WriteFindings(Startup)
    <2>1. /\ op' = op /\ current' = current /\ op[Startup].previous = current
          /\ pc'[Startup] = "queued" /\ op[Startup].target \in active'
          /\ op[Startup].target \in activeFindings'
        BY <1>0, <1>11 DEF WriteFindings, Enqueue, Goto, Replaying
    <2> QED BY <1>0, <2>1 DEF Replaying, Readable, Intact
<1>12. CASE OpenTransition(Startup)
    <2>1. pc'[Startup] = "point" /\ op'[Startup].kind = op[Startup].kind
        BY <1>0, <1>12 DEF OpenTransition, Goto, Update, Request
    <2> QED BY <1>0, <2>1 DEF Replaying
<1>13. CASE Point(Startup) \/ Archive(Startup) \/ ArchiveFindings(Startup)
    <2>1. op' = op /\ pc'[Startup] \in Moving
        BY <1>0, <1>13 DEF Point, AfterPoint, Archive, AfterArchive, ArchiveFindings, Goto, Moving
    <2> QED BY <1>3, <2>1 DEF Moving
<1>14. CASE CloseTransition(Startup) /\ ~Leave(Startup)
    <2>1. CASE Saved(Startup)
        BY <1>7, <1>14, <2>1
    <2>2. CASE ~Saved(Startup)
        <3>1. op'[Startup] = NoRequest /\ pc'[Startup] = "transitions"
            BY <1>0, <1>14, <2>2 DEF CloseTransition, Goto, Update
        <3> QED BY <3>1 DEF Replaying, NoRequest
    <2> QED BY <2>1, <2>2
<1> QED BY <1>1, <1>2, <1>4, <1>5, <1>6, <1>8, <1>9, <1>10, <1>11, <1>12, <1>13, <1>14 DEF Step, TakeToken, EnterGate, Check,
        ReadRemoved, OpenCorrection

\* Before its transition a request adds files, and stays on the target it has chosen.
LEMMA BeforeTransition ==
    ASSUME IInv, NEW a \in Actor, Step(a), pc[a] \notin Moving, ~OpenTransition(a) \/ Throw(a)
    PROVE  /\ UNCHANGED <<transitions, current, superseded>>
           /\ active \subseteq active' /\ activeFindings \subseteq activeFindings'
           /\ pc'[a] \notin Moving \cup {"transitions"}
           /\ pc[a] \in {"findings", "queued"} =>
                 \/ op'[a] = NoRequest
                 \/ op' = op /\ pc'[a] = "queued"
           /\ active' = active \/ WriteDocument(a)
<1>0. pc \in [Actor -> Steps] /\ op \in [Actor -> Request]
    BY DEF IInv, TypeOK
<1>1. CASE Throw(a)
    BY <1>1, AnsweredCorrects DEF Throw, files, journals, Moving
<1>2. CASE \/ TakeToken(a) \/ EnterGate(a) \/ (Check(a) /\ ~Throw(a)) \/ (ReadRemoved(a) /\ ~Throw(a))
           \/ ReadOriginal(a) \/ WriteOriginalFindings(a) \/ WriteOriginalDocument(a)
           \/ (VerifyOriginal(a) /\ ~Throw(a)) \/ OpenCorrection(a)
    BY <1>0, <1>2 DEF TakeToken, EnterGate, Check, AfterCheck, ReadRemoved, Enqueue, ReadOriginal,
       WriteOriginalFindings, WriteOriginalDocument, VerifyOriginal, AfterOriginal, OpenCorrection, Goto,
       files, journals, Moving
<1>3. CASE CloseCorrection(a) \/ (ReadCurrent(a) /\ ~Throw(a))
    <2>1. /\ UNCHANGED <<transitions, files, current>> /\ pc[a] \in {"closeCorrection", "read"}
          /\ pc'[a] \in {"corrections", "idle", "closeCorrection", "scan"}
        BY <1>0, <1>3 DEF CloseCorrection, ReadCurrent, Saved, Leave, Goto, journals
    <2> QED BY <2>1 DEF files, Moving
<1>4. CASE Scan(a) /\ ~Throw(a)
    <2>1. /\ UNCHANGED <<transitions, files, current>> /\ pc[a] = "scan"
          /\ pc'[a] \in {"document", "queued"}
        BY <1>0, <1>4, ScanChooses DEF Scan, journals
    <2> QED BY <2>1 DEF files, Moving
<1>5. CASE WriteDocument(a)
    BY <1>0, <1>5 DEF WriteDocument, Enqueue, Goto, journals, Moving
<1>6. CASE WriteFindings(a)
    BY <1>0, <1>6 DEF WriteFindings, Enqueue, Goto, journals, Moving
<1> QED BY <1>1, <1>2, <1>3, <1>4, <1>5, <1>6 DEF Step, Moving, Point, Archive, ArchiveFindings, CloseTransition

\* Who begins a transition begins it alone.
LEMMA TransitionBegins ==
    ASSUME RepairInv, NEW a \in Actor, pc[a] = "queued", IsHead(chain, a)
    PROVE  /\ transitions = {} /\ pc[Startup] \notin {"transitions"} \cup Moving
           /\ \A b \in Actor : pc[b] \notin Moving
<1>1. \A b \in Actor : pc[b] \notin Moving
    BY MovesAlone DEF RepairInv, Moving
<1>2. pc[Startup] # "transitions" /\ Startup \in Actor
    BY RequestsWhileOpen DEF RepairInv, Actor
<1> QED BY <1>1, <1>2 DEF RepairInv, CrashInv, OneTransition

\* Whoever is within a transition has the only journal, and can go on.
LEMMA TransitionGoesOn ==
    ASSUME RepairInv, NEW a \in Actor, pc[a] \in Moving
    PROVE  /\ transitions = {JournalOf(op[a])} /\ Rolls(JournalOf(op[a]))
           /\ Readable(op[a].target) /\ op[a].previous # op[a].target
           /\ (\A b \in Actor \ {a} : pc[b] \notin Moving) /\ pc[Startup] # "transitions"
           /\ pc[a] # "point" => current = op[a].target
           /\ pc[a] = "archive" => op[a].previous \in active \cup superseded
<1>1. transitions = {JournalOf(op[a])} /\ (pc[a] # "point" => current = op[a].target)
    BY DEF RepairInv, CrashInv, OneTransition
<1>2. Rolls(JournalOf(op[a]))
    BY <1>1 DEF RepairInv, CrashInv, OneTransition
<1>3. op[a].previous # op[a].target
    BY <1>1 DEF RepairInv, ArchiveInv, JournalsReplace, JournalOf
<1>4. (\A b \in Actor \ {a} : pc[b] \notin Moving) /\ pc[Startup] # "transitions"
    <2>1. \A b \in Actor \ {a} : pc[b] \notin Moving
        BY MovesAlone DEF RepairInv
    <2>2. CASE a \in Operation
        BY <2>1, <2>2, RequestsWhileOpen DEF RepairInv, Moving
    <2>3. CASE a = Startup
        BY <2>1, <2>3 DEF Moving
    <2> QED BY <2>2, <2>3 DEF Actor
<1>5. Readable(op[a].target) /\ op[a].previous \in active \cup superseded \cup {None}
    BY <1>2 DEF Rolls, JournalOf
<1>6. pc[a] = "archive" => op[a].previous # None
    BY NoneAssumption DEF RepairInv, IInv, WellFormed
<1> QED BY <1>1, <1>2, <1>3, <1>4, <1>5, <1>6

\* One transition at a time, whoever makes the step.
LEMMA StepTransits ==
    ASSUME RepairInv, NEW a \in Actor, Step(a)
    PROVE  OneTransition'
<1>0. /\ pc \in [Actor -> Steps] /\ op \in [Actor -> Request] /\ op[a] \in Request /\ Startup \in Actor
      /\ \A b \in Actor \ {a} : pc'[b] = pc[b] /\ op'[b] = op[b]
      /\ OneTransition
    BY StepLocal DEF RepairInv, IInv, TypeOK, Actor, CrashInv
<1>1. CASE pc[a] \notin Moving /\ (~OpenTransition(a) \/ Throw(a))
    <2>1. /\ UNCHANGED <<transitions, current, superseded>>
          /\ active \subseteq active' /\ activeFindings \subseteq activeFindings'
          /\ pc'[a] \notin Moving \cup {"transitions"}
        BY <1>1, BeforeTransition DEF RepairInv
    <2>2. \A t \in transitions : Rolls(t) => Rolls(t)'
        BY <2>1 DEF Rolls, Readable, Intact
    <2>3. \A b \in Actor : pc'[b] \in Moving => b # a /\ pc[b] \in Moving /\ op'[b] = op[b]
        BY <1>0, <2>1
    <2>4. transitions' = {} \/ pc'[Startup] = "transitions" \/ \E b \in Actor : pc'[b] \in Moving
        <3>1. a # Startup \/ pc[Startup] # "transitions"
            BY DEF Step, TakeToken, EnterGate, Check, ReadRemoved, ReadOriginal, WriteOriginalFindings,
               WriteOriginalDocument, VerifyOriginal, OpenCorrection, CloseCorrection, ReadCurrent, Scan,
               WriteDocument, WriteFindings, OpenTransition, Point, Archive, ArchiveFindings, CloseTransition
        <3> QED BY <1>0, <1>1, <2>1, <3>1 DEF OneTransition
    <2> QED BY <1>0, <2>1, <2>2, <2>3, <2>4 DEF OneTransition, JournalOf
<1>2. CASE OpenTransition(a) /\ ~Throw(a)
    <2>1. PICK id \in JournalId :
            /\ transitions' = transitions \cup
                  {[id |-> id, previous |-> op[a].previous, target |-> op[a].target]}
            /\ op' = [op EXCEPT ![a] = [op[a] EXCEPT !.journal = id]]
        BY <1>2 DEF OpenTransition, Update
    <2>2. /\ current = op[a].previous /\ Readable(op[a].target) /\ pc'[a] = "point"
          /\ UNCHANGED <<active, activeFindings, superseded, current>>
          /\ pc[a] = "queued" /\ IsHead(chain, a)
        BY <1>0, <1>2 DEF OpenTransition, Goto, files
    <2>3. transitions = {} /\ \A b \in Actor : pc[b] \notin Moving
        BY <2>2, TransitionBegins
    <2>4. /\ op'[a].previous = op[a].previous /\ op'[a].target = op[a].target
          /\ op'[a].journal = id
        BY <1>0, <2>1 DEF Request
    <2>5. transitions' = {JournalOf(op'[a])}
        BY <2>1, <2>3, <2>4 DEF JournalOf
    <2>6. current \in active \cup {None}
        BY DEF RepairInv, IInv, CurrentResolves, Readable, Intact
    <2>7. Rolls(JournalOf(op[a]))'
        BY <2>2, <2>4, <2>6 DEF Rolls, JournalOf, Readable, Intact
    <2>8. \A b \in Actor : pc'[b] \in Moving => b = a
        BY <1>0, <2>3
    <2> QED BY <2>2, <2>5, <2>7, <2>8 DEF OneTransition, Moving
<1>3. CASE pc[a] \in Moving
    <2> DEFINE t == JournalOf(op[a])
    <2>1. /\ transitions = {t} /\ Rolls(t)
          /\ Readable(op[a].target) /\ op[a].previous # op[a].target
          /\ (\A b \in Actor \ {a} : pc[b] \notin Moving) /\ pc[Startup] # "transitions"
          /\ pc[a] # "point" => current = op[a].target
          /\ pc[a] = "archive" => op[a].previous \in active \cup superseded
        BY <1>3, TransitionGoesOn
    <2>2. ASSUME op' = op, transitions' = transitions, Rolls(t)', pc'[a] \in Moving,
                 pc'[a] # "point" => current' = op[a].target
          PROVE  OneTransition'
        <3>1. transitions' = {JournalOf(op'[a])} /\ JournalOf(op'[a]) = t
            BY <2>1, <2>2
        <3>2. \A b \in Actor : pc'[b] \in Moving => b = a
            BY <1>0, <2>1
        <3> QED BY <2>2, <3>1, <3>2 DEF OneTransition
    <2>3. CASE Point(a)
        <3>1. /\ op' = op /\ transitions' = transitions /\ current' = op[a].target /\ pc'[a] \in Moving
              /\ UNCHANGED <<active, activeFindings, superseded>>
            BY <1>0, <2>1, <2>3 DEF Point, AfterPoint, Goto, Moving, journals, files
        <3>2. Rolls(t)'
            BY <2>1, <3>1 DEF Rolls, JournalOf, Readable, Intact
        <3> QED BY <2>2, <3>1, <3>2
    <2>4. CASE Archive(a)
        <3>1. /\ op' = op /\ transitions' = transitions /\ current' = current /\ pc'[a] \in Moving
              /\ active' = active \ {op[a].previous} /\ superseded' = superseded \cup {op[a].previous}
              /\ activeFindings' = activeFindings /\ current = op[a].target
              /\ pc'[a] # "point"
            BY <1>0, <2>1, <2>4 DEF Archive, Displaced, AfterArchive, Goto, Moving, journals, Throw
        <3>2. Rolls(t)'
            BY <2>1, <3>1 DEF Rolls, JournalOf, Readable, Intact
        <3> QED BY <2>2, <3>1, <3>2
    <2>5. CASE ArchiveFindings(a)
        <3>1. /\ op' = op /\ transitions' = transitions /\ current' = current /\ pc'[a] = "closeTransition"
              /\ UNCHANGED <<active, superseded>> /\ activeFindings' = activeFindings \ {op[a].previous}
              /\ current = op[a].target
            BY <1>0, <2>1, <2>5 DEF ArchiveFindings, Displaced, Goto, journals
        <3>2. Rolls(t)'
            BY <2>1, <3>1 DEF Rolls, JournalOf, Readable, Intact
        <3> QED BY <2>2, <3>1, <3>2 DEF Moving
    <2>6. CASE CloseTransition(a)
        <3>1. /\ transitions' = {} /\ pc'[a] \notin Moving
            <4>1. transitions' = {j \in transitions : j.id # op[a].journal} /\ t.id = op[a].journal
                BY <2>6 DEF CloseTransition, Unlinked, JournalOf
            <4>2. transitions' = {}
                BY <2>1, <4>1
            <4> QED BY <1>0, <2>6, <4>2 DEF CloseTransition, Saved, Leave, Goto, Moving
        <3>2. \A b \in Actor : pc'[b] \notin Moving
            BY <1>0, <2>1, <3>1
        <3> QED BY <3>1, <3>2 DEF OneTransition
    <2> QED BY <1>3, <2>3, <2>4, <2>5, <2>6 DEF Step, Moving, TakeToken, EnterGate, Check, ReadRemoved,
            ReadOriginal, WriteOriginalFindings, WriteOriginalDocument, VerifyOriginal, OpenCorrection,
            CloseCorrection, ReadCurrent, Scan, WriteDocument, WriteFindings, OpenTransition
<1> QED BY <1>1, <1>2, <1>3 DEF OpenTransition, Moving

\* Nobody gets a journal that is on disk.
LEMMA OwnersStay ==
    ASSUME IInv, SurviveInv, NEW a \in Actor, Step(a), NEW j \in corrections, op'[a].correction = j.id
    PROVE  op[a].correction = j.id
<1>1. j.id # None
    BY NoneAssumption DEF IInv, TypeOK
<1>2. CASE OpenCorrection(a)
    <2>1. PICK id \in JournalId \ {k.id : k \in corrections} :
            op' = [op EXCEPT ![a] = [op[a] EXCEPT !.correction = id]]
        BY <1>2 DEF OpenCorrection, Update
    <2>2. op'[a].correction = id
        BY <2>1 DEF IInv, TypeOK, Request
    <2> QED BY <2>1, <2>2
<1>3. CASE ~OpenCorrection(a)
    BY <1>1, <1>3, StepCarries
<1> QED BY <1>2, <1>3

\* What is accounted for stays so unless its journal goes, or its owner takes another.
LEMMA AccountStays ==
    ASSUME NEW a \in Actor, NEW x, Accounted(x),
           \A b \in Actor \ {a} : pc'[b] = pc[b] /\ op'[b] = op[b],
           active \cup superseded \subseteq active' \cup superseded',
           \A j \in corrections : j.content = x.content =>
              /\ j \in corrections'
              /\ op'[a].correction = j.id => op[a].correction = j.id
              /\ op'[a].correction = j.id /\ op[a].target = x /\ pc[a] \in {"findings", "queued", "point"}
                    => op'[a].target = x /\ pc'[a] \in {"findings", "queued", "point"},
           pc[a] = "archive" => op[a].previous # x,
           pc[Startup] \in {"transitions", "point"} =>
              transitions' = transitions /\ pc'[Startup] \in {"transitions", "point"}
    PROVE  Accounted(x)'
<1>1. CASE SavedTwice(x)
    BY <1>1 DEF SavedTwice, Accounted
<1>2. CASE Journaled(x)
    <2>1. PICK j : /\ j \in corrections /\ j.content = x.content
                   /\ \A b \in Operation :
                        op[b].correction = j.id =>
                            op[b].target = x /\ pc[b] \in {"findings", "queued", "point"}
        BY <1>2 DEF Journaled
    <2>2. ASSUME NEW b \in Operation, op'[b].correction = j.id
          PROVE  op'[b].target = x /\ pc'[b] \in {"findings", "queued", "point"}
        <3>1. CASE b = a
            BY <2>1, <2>2, <3>1
        <3>2. CASE b # a
            BY <2>1, <2>2, <3>2 DEF Actor
        <3> QED BY <3>1, <3>2
    <2> QED BY <2>1, <2>2 DEF Journaled, Accounted
<1>3. CASE Retiring(x)
    BY <1>3 DEF Retiring, Accounted
<1> QED BY <1>1, <1>2, <1>3 DEF Accounted

\* What a correction writes before its transition has its journal.
LEMMA EarlyStepAccounts ==
    ASSUME RepairInv, NEW a \in Actor, Step(a), pc[a] \notin Moving, ~OpenTransition(a) \/ Throw(a),
           NEW x \in active' \ {current'}
    PROVE  Accounted(x)'
<1>0. /\ pc \in [Actor -> Steps] /\ op \in [Actor -> Request] /\ op[a] \in Request
      /\ \A b \in Actor \ {a} : pc'[b] = pc[b] /\ op'[b] = op[b]
      /\ Carries(op[a], pc[a])
    BY StepLocal DEF RepairInv, IInv, TypeOK, SurviveInv
<1>1. /\ UNCHANGED <<transitions, current, superseded>>
      /\ active \subseteq active'
      /\ pc[a] \in {"findings", "queued"} => op'[a] = NoRequest \/ (op' = op /\ pc'[a] = "queued")
      /\ active' = active \/ WriteDocument(a)
    BY BeforeTransition DEF RepairInv
<1>2. /\ \A j \in corrections : op'[a].correction = j.id => op[a].correction = j.id
      /\ \A j \in corrections : j.id # None
    BY OwnersStay, NoneAssumption DEF RepairInv, IInv, TypeOK
<1>3. a # Startup \/ pc[Startup] \notin {"transitions", "point"}
    BY DEF Moving, Step, TakeToken, EnterGate, Check, ReadRemoved, ReadOriginal, WriteOriginalFindings,
       WriteOriginalDocument, VerifyOriginal, OpenCorrection, CloseCorrection, ReadCurrent, Scan,
       WriteDocument, WriteFindings, OpenTransition, Point, Archive, ArchiveFindings, CloseTransition
<1>4. CASE x \in active /\ ~CloseCorrection(a)
    <2>1. Accounted(x)
        BY <1>1, <1>4 DEF RepairInv, CrashInv
    <2>2. corrections \subseteq corrections'
        <3>1. CASE OpenCorrection(a)
            BY <3>1 DEF OpenCorrection
        <3>2. CASE ~OpenCorrection(a)
            BY <1>4, <3>2, CorrectionsLeft DEF RepairInv
        <3> QED BY <3>1, <3>2
    <2>3. pc[a] # "archive" /\ pc[a] # "point"
        BY DEF Moving
    <2>4. pc[Startup] \in {"transitions", "point"} => pc'[Startup] = pc[Startup]
        BY <1>0, <1>3 DEF Actor
    <2>5. op'[a] = NoRequest => op'[a].correction = None
        BY DEF NoRequest
    <2>6. active \cup superseded \subseteq active' \cup superseded'
        BY <1>1
    <2>7. \A j \in corrections : j.content = x.content =>
              /\ j \in corrections'
              /\ op'[a].correction = j.id => op[a].correction = j.id
              /\ op'[a].correction = j.id /\ op[a].target = x /\ pc[a] \in {"findings", "queued", "point"}
                    => op'[a].target = x /\ pc'[a] \in {"findings", "queued", "point"}
        BY <1>1, <1>2, <2>2, <2>3, <2>5
    <2> QED BY <1>0, <1>1, <2>1, <2>3, <2>4, <2>6, <2>7, AccountStays
<1>5. CASE x \notin active
    <2>1. /\ WriteDocument(a) /\ x = op[a].target /\ op' = op /\ corrections' = corrections
          /\ pc'[a] \in {"findings", "queued"} /\ pc[a] = "document"
        BY <1>0, <1>1, <1>5 DEF WriteDocument, Enqueue, Goto, journals
    <2>2. op[a].correction # None
        BY <2>1 DEF RepairInv, CrashInv, Corrects
    <2>3. op[a].target.content = op[a].content
        BY <1>0, <2>1, <2>2 DEF Carries, Targeting
    <2>4. PICK j \in corrections : j.id = op[a].correction /\ j.content = op[a].content
        BY <1>0, <2>2 DEF Carries
    <2>5. \A b \in Operation : op'[b].correction = j.id => b = a
        BY <2>1, <2>2, <2>4 DEF RepairInv, SurviveInv, OneOwner, Actor
    <2>6. Journaled(x)'
        BY <2>1, <2>3, <2>4, <2>5 DEF Journaled
    <2> QED BY <2>6 DEF Accounted
<1>6. CASE x \in active /\ CloseCorrection(a)
    <2>1. /\ corrections' = {j \in corrections : j.id # op[a].correction}
          /\ op'[a] = NoRequest /\ pc[a] = "closeCorrection" /\ UNCHANGED files
        BY <1>0, <1>6 DEF CloseCorrection, Unlinked, Leave, Update
    <2>2. Accounted(x) /\ x # current
        BY <1>1, <1>6 DEF RepairInv, CrashInv
    <2>3. op'[a].correction = None
        BY <2>1 DEF NoRequest
    <2>4. ASSUME NEW j \in corrections, j.id = op[a].correction, j.content = x.content
          PROVE  SavedTwice(x) \/ a \in Operation
        <3>1. CASE a = Startup
            <4>1. op[a].correction # None
                BY <1>2, <2>4
            <4>2. PICK i \in corrections : i.id = op[a].correction /\ i.content = op[a].content
                BY <1>0, <4>1 DEF Carries
            <4>3. i = j
                BY <2>4, <4>2 DEF RepairInv, SurviveInv, CorrectionsDiffer
            <4>4. ContentOf(current) = x.content
                BY <2>1, <2>4, <3>1, <4>1, <4>2, <4>3 DEF RepairInv, SurviveInv
            <4>5. x.content # None
                BY <1>6, NoneAssumption DEF RepairInv, IInv, TypeOK, Artifact
            <4>6. current # None /\ current.content = x.content
                BY <4>4, <4>5 DEF ContentOf
            <4>7. current \in active
                BY <4>6 DEF RepairInv, IInv, CurrentResolves, Readable, Intact
            <4> QED BY <2>2, <4>6, <4>7 DEF SavedTwice
        <3> QED BY <3>1 DEF Actor
    <2>5. CASE SavedTwice(x)
        BY <2>1, <2>5 DEF SavedTwice, Accounted, files
    <2>6. CASE Retiring(x)
        <3>1. pc[Startup] \in {"transitions", "point"} => pc'[Startup] = pc[Startup]
            BY <1>0, <1>3 DEF Actor
        <3> QED BY <1>0, <1>1, <2>1, <2>6, <3>1 DEF Retiring, Accounted
    <2>7. CASE Journaled(x) /\ ~SavedTwice(x)
        <3>1. PICK j : /\ j \in corrections /\ j.content = x.content
                       /\ \A b \in Operation :
                            op[b].correction = j.id =>
                                op[b].target = x /\ pc[b] \in {"findings", "queued", "point"}
            BY <2>7 DEF Journaled
        <3>2. j.id # op[a].correction
            BY <2>1, <2>4, <2>7, <3>1
        <3>3. j \in corrections' /\ j.id # None
            BY <1>2, <2>1, <3>1, <3>2
        <3>4. \A b \in Operation : op'[b].correction = j.id => b # a
            BY <2>3, <3>3
        <3>5. Journaled(x)'
            BY <1>0, <3>1, <3>3, <3>4 DEF Journaled, Actor
        <3> QED BY <3>5 DEF Accounted
    <2> QED BY <2>2, <2>5, <2>6, <2>7 DEF Accounted
<1> QED BY <1>1, <1>4, <1>5, <1>6

\* What a transition displaces is retired by it, at the latest after a crash.
LEMMA TransitionAccounts ==
    ASSUME RepairInv, NEW a \in Actor, Step(a),
           pc[a] \in Moving \/ (OpenTransition(a) /\ ~Throw(a)), NEW x \in active' \ {current'}
    PROVE  Accounted(x)'
<1>0. /\ pc \in [Actor -> Steps] /\ op \in [Actor -> Request] /\ op[a] \in Request
      /\ \A b \in Actor \ {a} : pc'[b] = pc[b] /\ op'[b] = op[b]
      /\ None \notin active
    BY StepLocal, NoneAssumption DEF RepairInv, IInv, TypeOK
<1>1. /\ \A j \in corrections : op'[a].correction = j.id => op[a].correction = j.id
      /\ \A j \in corrections : j.id # None
    BY OwnersStay, NoneAssumption DEF RepairInv, IInv, TypeOK
<1>2. \A y \in active \ {current} : Accounted(y)
    BY DEF RepairInv, CrashInv
<1>3. CASE OpenTransition(a) /\ ~Throw(a)
    <2>1. PICK id \in JournalId : op' = [op EXCEPT ![a] = [op[a] EXCEPT !.journal = id]]
        BY <1>3 DEF OpenTransition, Update
    <2>2. /\ UNCHANGED <<active, superseded, current, corrections>>
          /\ pc[a] = "queued" /\ pc'[a] = "point" /\ IsHead(chain, a)
          /\ op'[a].target = op[a].target
        BY <1>0, <1>3, <2>1 DEF OpenTransition, Goto, files, Request
    <2>3. pc[Startup] \notin {"transitions", "point"}
        BY <2>2, TransitionBegins DEF Moving
    <2> QED BY <1>0, <1>1, <1>2, <2>2, <2>3, AccountStays
<1>4. CASE pc[a] \in Moving
    <2>1. /\ transitions = {JournalOf(op[a])} /\ Rolls(JournalOf(op[a]))
          /\ Readable(op[a].target) /\ op[a].previous # op[a].target
          /\ (\A b \in Actor \ {a} : pc[b] \notin Moving) /\ pc[Startup] # "transitions"
          /\ pc[a] # "point" => current = op[a].target
          /\ pc[a] = "archive" => op[a].previous \in active \cup superseded
        BY <1>4, TransitionGoesOn
    <2>2. Startup # a => pc[Startup] \notin {"transitions", "point"}
        BY <2>1 DEF Moving, Actor
    <2>3. CASE Point(a)
        <3>1. /\ op' = op /\ current' = op[a].target /\ pc'[a] = AfterPoint(op[a])
              /\ UNCHANGED <<active, superseded, corrections>> /\ pc[a] = "point"
            BY <1>0, <2>1, <2>3 DEF Point, Goto, journals, files
        <3>2. CASE x = op[a].previous
            <4>1. pc'[a] = "archive"
                BY <1>0, <2>1, <3>1, <3>2 DEF AfterPoint
            <4> QED BY <3>1, <3>2, <4>1 DEF Retiring, Accounted
        <3>3. CASE x # op[a].previous
            <4>1. current \in {op[a].previous, op[a].target}
                BY <2>1 DEF Rolls, JournalOf
            <4>2. Accounted(x) /\ x \in active /\ x # op[a].target
                BY <1>2, <3>1, <3>3, <4>1
            <4>3. CASE SavedTwice(x)
                BY <3>1, <4>3 DEF SavedTwice, Accounted
            <4>4. CASE Journaled(x)
                <5>1. PICK j : /\ j \in corrections /\ j.content = x.content
                               /\ \A b \in Operation :
                                    op[b].correction = j.id =>
                                        op[b].target = x /\ pc[b] \in {"findings", "queued", "point"}
                    BY <4>4 DEF Journaled
                <5>2. \A b \in Operation : op[b].correction = j.id => b # a
                    BY <4>2, <5>1
                <5>3. Journaled(x)'
                    BY <1>0, <3>1, <5>1, <5>2 DEF Journaled, Actor
                <5> QED BY <5>3 DEF Accounted
            <4>5. ~Retiring(x)
                <5>1. \A b \in Actor : pc[b] # "archive"
                    BY <2>1, <3>1 DEF Moving
                <5>2. \A t \in transitions : t.previous # x
                    BY <2>1, <3>3 DEF JournalOf
                <5> QED BY <5>1, <5>2 DEF Retiring
            <4> QED BY <4>2, <4>3, <4>4, <4>5 DEF Accounted
        <3> QED BY <3>2, <3>3
    <2>4. CASE Archive(a)
        <3>1. /\ op' = op /\ current' = current /\ active' = active \ {op[a].previous}
              /\ superseded' = superseded \cup {op[a].previous}
              /\ corrections' = corrections /\ pc[a] = "archive"
            BY <1>0, <2>1, <2>4 DEF Archive, Displaced, journals, Throw
        <3>2. Accounted(x) /\ op[a].previous # x
            BY <1>2, <3>1
        <3>3. pc[Startup] \notin {"transitions", "point"}
            BY <2>2, <3>1
        <3>4. active \cup superseded \subseteq active' \cup superseded'
            BY <3>1
        <3> QED BY <1>0, <3>1, <3>2, <3>3, <3>4, AccountStays
    <2>5. CASE ArchiveFindings(a)
        <3>1. /\ op' = op /\ UNCHANGED <<current, active, superseded, corrections>>
              /\ pc[a] = "archiveFindings"
            BY <2>5 DEF ArchiveFindings, journals
        <3>2. pc[Startup] \notin {"transitions", "point"}
            BY <2>2, <3>1
        <3> QED BY <1>0, <1>2, <3>1, <3>2, AccountStays
    <2>6. CASE CloseTransition(a)
        <3>1. /\ UNCHANGED <<current, active, superseded, corrections>>
              /\ pc[a] = "closeTransition"
            BY <2>6 DEF CloseTransition, files
        <3>2. pc[Startup] \notin {"transitions", "point"}
            BY <2>2, <3>1
        <3> QED BY <1>0, <1>1, <1>2, <3>1, <3>2, AccountStays
    <2> QED BY <1>4, <2>3, <2>4, <2>5, <2>6 DEF Step, Moving, TakeToken, EnterGate, Check, ReadRemoved,
            ReadOriginal, WriteOriginalFindings, WriteOriginalDocument, VerifyOriginal, OpenCorrection,
            CloseCorrection, ReadCurrent, Scan, WriteDocument, WriteFindings, OpenTransition
<1> QED BY <1>3, <1>4

\* Startup refuses a workspace for what was saved twice, or in pieces.
LEMMA RefusedForALedger ==
    ASSUME RepairInv, Step(Startup) \/ CheckIntegrity, mode # "blocked", mode' = "blocked"
    PROVE  CorrectionCrashRecovers'
<1>0. Readable(current) /\ Startup \in Actor
    BY DEF RepairInv, IInv, CurrentResolves, Actor
<1>1. CASE CheckIntegrity
    <2>1. PICK x \in active \ {current} : Accounted(x)
        BY <1>0, <1>1 DEF CheckIntegrity, Sound, RepairInv, CrashInv
    <2>2. corrections = {} /\ pc[Startup] = "integrity"
        BY <1>1 DEF CheckIntegrity, RepairInv, SurviveInv
    <2>3. \A b \in Actor : pc[b] # "archive"
        BY <2>2, RequestsWhileOpen DEF RepairInv, Actor
    <2>4. SavedTwice(x)
        BY <2>1, <2>2, <2>3 DEF Accounted, Journaled, Retiring
    <2>5. UNCHANGED <<active, superseded, activeFindings, current>>
        BY <1>1 DEF CheckIntegrity, files
    <2> QED BY <2>4, <2>5 DEF CorrectionCrashRecovers, SavedTwice
<1>2. CASE Step(Startup)
    <2>1. Throw(Startup)
        BY <1>2 DEF Step, TakeToken, EnterGate, Check, ReadRemoved, ReadOriginal, WriteOriginalFindings,
           WriteOriginalDocument, VerifyOriginal, OpenCorrection, CloseCorrection, ReadCurrent, Saved, Scan,
           WriteDocument, WriteFindings, OpenTransition, Point, Archive, ArchiveFindings, CloseTransition
    <2>2. Scan(Startup) /\ UNCHANGED <<active, superseded, activeFindings, current>>
        BY <1>2, <2>1, StartupGoesOn DEF Throw, files
    <2>3. PICK x \in Reusable(Startup), y \in Reusable(Startup) : x # y \/ ~Intact(x)
        <3>1. pc'[Startup] = "idle"
            BY <1>0, <2>1, AnsweredCorrects DEF Throw, RepairInv
        <3> QED BY <1>0, <2>2, <3>1 DEF Scan, Enqueue, Goto, RepairInv, IInv, TypeOK
    <2>4. x \in active /\ y \in active /\ x.content = y.content /\ x # None
        BY <2>3, NoneAssumption DEF Reusable, RepairInv, IInv, TypeOK
    <2>5. CASE x # y
        <3>1. PICK z \in active \ {current} : SavedTwice(z)
            BY <2>4, <2>5 DEF SavedTwice
        <3> QED BY <2>2, <3>1 DEF CorrectionCrashRecovers, SavedTwice
    <2>6. CASE ~Intact(x)
        <3>1. x # current
            BY <1>0, <2>4, <2>6 DEF Readable
        <3> QED BY <2>2, <2>4, <2>6, <3>1 DEF CorrectionCrashRecovers, Intact
    <2> QED BY <2>3, <2>5, <2>6
<1> QED BY <1>1, <1>2

\* Startup takes over what is there, as it is.
LEMMA RecoverAccounts ==
    ASSUME RepairInv, Recover
    PROVE  CrashInv'
<1>0. /\ pc \in [Actor -> Steps] /\ op \in [Actor -> Request] /\ Startup \in Actor
      /\ UNCHANGED <<active, activeFindings, superseded, current, journals, original, faults>>
      /\ \A b \in Actor \ {Startup} : pc'[b] = pc[b] /\ op'[b] = op[b]
      /\ pc[Startup] \in {"transitions", "corrections", "integrity"}
      /\ Corrects(op[Startup], pc[Startup]) /\ Replaying(op[Startup], pc[Startup])
      /\ OneTransition
    BY DEF RepairInv, IInv, TypeOK, CrashInv, Recover, RecoverTransition, RecoverCorrection, CheckIntegrity,
           files, originals, bounds, Goto, Update, Actor
<1>1. /\ \A b \in Actor : pc[b] \notin Moving
      /\ mode # "blocked"
    BY <1>0, RequestsWhileOpen DEF RepairInv, CrashInv, Moving, Actor
<1>2. /\ Corrects(op[Startup], pc[Startup])' /\ Replaying(op[Startup], pc[Startup])' /\ OneTransition'
      /\ \A x \in active : Accounted(x) => Accounted(x)'
    <2>1. ASSUME transitions = {} \/ pc'[Startup] = "transitions", pc'[Startup] \notin Moving
          PROVE  OneTransition'
        <3>1. transitions = {}
            BY <1>0, <2>1 DEF Recover, RecoverTransition, RecoverCorrection, CheckIntegrity, Goto
        <3> QED BY <1>0, <1>1, <2>1, <3>1 DEF OneTransition, journals
    <2>2. ASSUME NEW x, Accounted(x), transitions = {} \/ pc'[Startup] \in {"transitions", "point"}
          PROVE  Accounted(x)'
        <3>1. CASE SavedTwice(x)
            BY <1>0, <3>1 DEF SavedTwice, Accounted
        <3>2. CASE Journaled(x)
            <4>1. \A b \in Operation : b \in Actor \ {Startup}
                BY ActorAssumption DEF Actor
            <4> QED BY <1>0, <3>2, <4>1 DEF Journaled, Accounted, journals
        <3>3. CASE Retiring(x)
            BY <1>0, <1>1, <2>2, <3>3 DEF Retiring, Accounted, journals, Moving
        <3> QED BY <2>2, <3>1, <3>2, <3>3 DEF Accounted
    <2>3. CASE RecoverTransition /\ pc'[Startup] = "point"
        <3>1. PICK j \in transitions : op'[Startup] =
                [NoRequest EXCEPT !.previous = j.previous, !.target = j.target, !.journal = j.id]
            BY <1>0, <2>3 DEF RecoverTransition, Update, Goto
        <3>2. j = [id |-> j.id, previous |-> j.previous, target |-> j.target]
            BY DEF RepairInv, IInv, TypeOK
        <3>3. JournalOf(op'[Startup]) = j /\ op'[Startup].kind = "none"
            BY <3>1, <3>2 DEF JournalOf, NoRequest
        <3>4. transitions' = {j} /\ Rolls(j)
            BY <1>0 DEF OneTransition, journals
        <3>5. \A b \in Actor \ {Startup} : pc'[b] \notin Moving
            BY <1>0, <1>1
        <3>6. Rolls(j)'
            BY <1>0, <3>4 DEF Rolls, Readable, Intact
        <3>7. OneTransition'
            BY <1>0, <2>3, <3>3, <3>4, <3>5, <3>6 DEF OneTransition, Moving
        <3>8. Corrects(op[Startup], pc[Startup])' /\ Replaying(op[Startup], pc[Startup])'
            BY <2>3, <3>3 DEF Corrects, Replaying, Moving
        <3> QED BY <2>2, <2>3, <3>7, <3>8
    <2>4. CASE RecoverCorrection /\ pc'[Startup] = "original"
        <3>1. PICK j \in corrections : op'[Startup] = Replayed(j)
            BY <1>0, <2>4 DEF RecoverCorrection, Update, Goto
        <3>2. op'[Startup].kind = "correct" /\ op'[Startup].correction # None
            BY <3>1, NoneAssumption DEF Replayed, NoRequest, RepairInv, IInv, TypeOK
        <3>3. Corrects(op[Startup], pc[Startup])' /\ Replaying(op[Startup], pc[Startup])'
            BY <2>4, <3>2 DEF Corrects, Replaying, Moving, CorrectionKinds
        <3>4. transitions = {}
            BY <1>1, <2>4 DEF RecoverCorrection, RepairInv, CrashInv, OneTransition
        <3> QED BY <2>1, <2>2, <2>4, <3>3, <3>4 DEF Moving
    <2>5. CASE op' = op /\ pc'[Startup] \in {"corrections", "integrity", "idle"}
        <3>1. transitions = {}
            BY <1>0, <1>1, <2>5 DEF Recover, RecoverTransition, RecoverCorrection, CheckIntegrity, OneTransition,
               Goto
        <3>2. Corrects(op[Startup], pc[Startup])' /\ Replaying(op[Startup], pc[Startup])'
            BY <1>0, <2>5 DEF Corrects, Replaying, Moving
        <3> QED BY <2>1, <2>2, <2>5, <3>1, <3>2 DEF Moving
    <2> QED BY <1>0, <2>3, <2>4, <2>5 DEF Recover, RecoverTransition, RecoverCorrection, CheckIntegrity, Goto, Update
<1>3. \A a \in Actor : Corrects(op[a], pc[a])'
    BY <1>0, <1>2 DEF RepairInv, CrashInv
<1>4. \A x \in active' \ {current'} : Accounted(x)'
    BY <1>0, <1>2 DEF RepairInv, CrashInv
<1>5. mode' = "blocked" => pc'[Startup] = "idle" /\ CheckIntegrity
    BY <1>0, <1>1 DEF Recover, RecoverTransition, RecoverCorrection, CheckIntegrity, Goto
<1>6. CorrectionCrashRecovers'
    BY <1>1, <1>5, RefusedForALedger DEF CorrectionCrashRecovers
<1> QED BY <1>0, <1>2, <1>3, <1>4, <1>5, <1>6 DEF RepairInv, CrashInv

LEMMA CrashInitially == Init => CrashInv
<1> SUFFICES ASSUME Init PROVE CrashInv
    OBVIOUS
<1>1. \A a \in Actor : pc[a] = "idle" /\ op[a] = NoRequest
    BY DEF Init
<1>2. \A a \in Actor : Corrects(op[a], pc[a])
    BY <1>1 DEF Corrects, NoRequest, Moving
<1>3. Replaying(op[Startup], pc[Startup])
    BY <1>1 DEF Replaying, NoRequest, Actor
<1>4. OneTransition
    BY <1>1 DEF Init, OneTransition, Moving
<1>5. \A x \in active \ {current} : Accounted(x)
    BY DEF Init
<1> QED BY <1>1, <1>2, <1>3, <1>4, <1>5 DEF Init, CrashInv, CorrectionCrashRecovers

\* One step of a request, or of startup.
LEMMA StepRepairs ==
    ASSUME RepairInv, NEW a \in Actor, Step(a)
    PROVE  CrashInv'
<1>0. /\ \A b \in Actor \ {a} : pc'[b] = pc[b] /\ op'[b] = op[b]
      /\ Startup \in Actor
    BY StepLocal DEF RepairInv, Actor
<1>1. \A b \in Actor : Corrects(op[b], pc[b])'
    BY <1>0, StepCorrects DEF RepairInv, CrashInv
<1>2. OneTransition'
    BY StepTransits
<1>3. \A x \in active' \ {current'} : Accounted(x)'
    BY EarlyStepAccounts, TransitionAccounts
<1>4. faults' = 0
    BY DEF RepairInv, CrashInv, bounds, Step, TakeToken, EnterGate, Check, ReadRemoved, ReadOriginal,
       WriteOriginalFindings, WriteOriginalDocument, VerifyOriginal, OpenCorrection, CloseCorrection,
       ReadCurrent, Scan, WriteDocument, WriteFindings, OpenTransition, Point, Archive, ArchiveFindings,
       CloseTransition, Throw
<1>5. pc[a] # "idle" /\ (mode' = mode \/ (a = Startup /\ Throw(a)))
    BY DEF Step, TakeToken, EnterGate, Check, ReadRemoved, ReadOriginal, WriteOriginalFindings,
       WriteOriginalDocument, VerifyOriginal, OpenCorrection, CloseCorrection, ReadCurrent, Saved, Scan,
       WriteDocument, WriteFindings, OpenTransition, Point, Archive, ArchiveFindings, CloseTransition, Throw
<1>6. mode # "blocked"
    BY <1>5, RequestsWhileOpen DEF RepairInv, CrashInv, Actor
<1>7. CASE a = Startup
    <2>1. Replaying(op[Startup], pc[Startup])' /\ (mode' = "blocked" => pc'[Startup] = "idle")
        <3>1. CASE Throw(a)
            <4>1. pc'[a] = "idle" /\ op'[a] = NoRequest
                BY <3>1, AnsweredCorrects DEF Throw, RepairInv
            <4> QED BY <1>7, <4>1 DEF Replaying, NoRequest
        <3>2. CASE ~Throw(a)
            BY <1>5, <1>6, <1>7, <3>2, StartupReplays
        <3> QED BY <3>1, <3>2
    <2>2. CorrectionCrashRecovers'
        BY <1>6, <1>7, RefusedForALedger DEF CorrectionCrashRecovers
    <2> QED BY <1>1, <1>2, <1>3, <1>4, <2>1, <2>2 DEF CrashInv
<1>8. CASE a # Startup
    <2>1. pc[Startup] = "idle" /\ pc'[Startup] = "idle" /\ op'[Startup] = op[Startup]
        BY <1>0, <1>5, <1>8, RequestsWhileOpen DEF RepairInv, Actor
    <2>2. Replaying(op[Startup], pc[Startup])'
        BY <2>1 DEF Replaying, RepairInv, CrashInv
    <2>3. mode' # "blocked"
        BY <1>5, <1>6, <1>8
    <2> QED BY <1>1, <1>2, <1>3, <1>4, <2>2, <2>3 DEF CrashInv, CorrectionCrashRecovers
<1> QED BY <1>7, <1>8

\* The process dies: what was being archived is in its journal, what was written has one, and no
\* request has a journal any more.
LEMMA CrashRepairs ==
    ASSUME RepairInv, Crash
    PROVE  CrashInv'
<1>0. /\ \A a \in Actor : op'[a] = NoRequest
      /\ \A a \in Operation : pc'[a] = "idle"
      /\ pc'[Startup] = "transitions" /\ Startup \in Actor /\ mode' = "recovering"
      /\ UNCHANGED <<active, activeFindings, superseded, current, journals, faults>>
    BY ActorAssumption DEF Crash, Actor, files
<1>1. \A a \in Actor : pc'[a] \notin Moving /\ pc'[a] \in {"idle", "transitions"}
    BY <1>0 DEF Actor, Moving
<1>2. \A a \in Actor : Corrects(op[a], pc[a])'
    BY <1>0, <1>1 DEF Corrects, NoRequest
<1>3. Replaying(op[Startup], pc[Startup])'
    BY <1>0 DEF Replaying, NoRequest
<1>4. OneTransition'
    BY <1>0, <1>1 DEF RepairInv, CrashInv, OneTransition, Rolls, Readable, Intact, journals
<1>5. ASSUME NEW x \in active' \ {current'}
      PROVE  Accounted(x)'
    <2>1. Accounted(x)
        BY <1>0, <1>5 DEF RepairInv, CrashInv
    <2>2. CASE SavedTwice(x)
        BY <1>0, <2>2 DEF SavedTwice, Accounted
    <2>3. CASE Journaled(x)
        <3>1. PICK j : j \in corrections /\ j.content = x.content
            BY <2>3 DEF Journaled
        <3>2. j.id # None
            BY <3>1, NoneAssumption DEF RepairInv, IInv, TypeOK
        <3>3. \A a \in Operation : op'[a].correction # j.id
            BY <1>0, <3>2 DEF NoRequest, Actor
        <3> QED BY <1>0, <3>1, <3>3 DEF Journaled, Accounted, journals
    <2>4. CASE Retiring(x)
        <3>1. \E t \in transitions : t.previous = x
            <4>1. ASSUME NEW a \in Actor, pc[a] = "archive", op[a].previous = x
                  PROVE  \E t \in transitions : t.previous = x
                <5>1. pc[a] \in Moving
                    BY <4>1 DEF Moving
                <5>2. transitions = {JournalOf(op[a])}
                    BY <5>1, TransitionGoesOn
                <5>3. JournalOf(op[a]).previous = x
                    BY <4>1 DEF JournalOf
                <5> QED BY <5>2, <5>3
            <4> QED BY <2>4, <4>1 DEF Retiring
        <3> QED BY <1>0, <3>1 DEF Retiring, Accounted, journals
    <2> QED BY <2>1, <2>2, <2>3, <2>4 DEF Accounted
<1> QED BY <1>0, <1>2, <1>3, <1>4, <1>5 DEF RepairInv, CrashInv, CorrectionCrashRecovers

\* A new request has nothing to do with what is there.
LEMMA StartRepairs ==
    ASSUME RepairInv, OnlyCorrections, NEW a \in Operation, Start(a)
    PROVE  CrashInv'
<1>0. /\ \A b \in Actor \ {a} : pc'[b] = pc[b] /\ op'[b] = op[b]
      /\ a \in Actor /\ a # Startup /\ pc[Startup] = "idle" /\ mode = "open" /\ pc[a] = "idle"
      /\ Startup \in Actor
      /\ UNCHANGED <<active, activeFindings, superseded, current, journals, mode, faults>>
    BY StepLocal, ActorAssumption DEF RepairInv, IInv, Exclusive, Actor, Start, files
<1>1. PICK kind, content, base : kind \in Kinds /\ Begin(a, kind, content, base)
    BY DEF Start
<1>2. kind \in CorrectionKinds
    BY <1>1 DEF OnlyCorrections
<1>3. op'[a].kind = kind /\ op'[a].correction = None /\ pc'[a] = "check"
    BY <1>0, <1>1, <1>2 DEF Begin, Goto, Update, NoRequest, CorrectionKinds, CollectionKinds, RepairInv, IInv,
       TypeOK
<1>4. \A b \in Actor : Corrects(op[b], pc[b])'
    BY <1>0, <1>2, <1>3 DEF Corrects, Moving, RepairInv, CrashInv
<1>5. Replaying(op[Startup], pc[Startup])'
    BY <1>0 DEF Replaying, RepairInv, CrashInv
<1>6. OneTransition'
    <2>1. \A b \in Actor : pc'[b] \in Moving => b # a
        BY <1>3 DEF Moving
    <2>2. \A b \in Actor : pc[b] \in Moving => b # a
        BY <1>0 DEF Moving
    <2> QED BY <1>0, <2>1, <2>2 DEF RepairInv, CrashInv, OneTransition, Rolls, Readable, Intact, journals
<1>7. ASSUME NEW x \in active' \ {current'}
      PROVE  Accounted(x)'
    <2>1. Accounted(x)
        BY <1>0, <1>7 DEF RepairInv, CrashInv
    <2>2. \A j \in corrections : j \in corrections' /\ op'[a].correction # j.id
        BY <1>0, <1>3, NoneAssumption DEF RepairInv, IInv, TypeOK, journals
    <2> QED BY <1>0, <2>1, <2>2, AccountStays
<1> QED BY <1>0, <1>4, <1>5, <1>6, <1>7 DEF RepairInv, CrashInv, CorrectionCrashRecovers

LEMMA CrashInductive ==
    ASSUME OnlyCorrections, NothingFails
    PROVE  IInv /\ ArchiveInv /\ SurviveInv /\ CrashInv /\ [Next]_vars => CrashInv'
<1> SUFFICES ASSUME RepairInv, [Next]_vars PROVE CrashInv'
    BY DEF RepairInv
<1>1. ASSUME NEW a \in Operation, Fault(a) PROVE CrashInv'
    BY <1>1 DEF Fault, NothingFails, RepairInv, CrashInv
<1>2. CASE UNCHANGED vars
    BY <1>2 DEF vars, files, journals, originals, queues, bounds, RepairInv, CrashInv, Corrects, Replaying,
       OriginalContent, OneTransition, Rolls, JournalOf, Readable, Intact, Accounted, SavedTwice, Journaled, Retiring,
       CorrectionCrashRecovers
<1> QED BY <1>1, <1>2, StepRepairs, StartRepairs, CrashRepairs, RecoverAccounts DEF Next

\* With corrections alone, whose writes succeed, startup takes up whatever a crash has left, also a
\* crash within repair: it refuses the workspace only for an artifact that was cut off between its two
\* files, or for a ledger that was saved under two generations (recoverCorrectionJournals,
\* reusableActiveDocument, assertWorkspaceIntegrity).
THEOREM CrashesRecover == ASSUME OnlyCorrections, NothingFails PROVE Spec => []CorrectionCrashRecovers
<1>1. CrashInv => CorrectionCrashRecovers
    BY DEF CrashInv
<1> QED BY <1>1, ArchiveInitially, ArchiveInductive, SurviveInitially, SurviveInductive, CrashInitially,
        CrashInductive, Invariance, PTL DEF Spec

=============================================================================
