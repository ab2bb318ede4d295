----------------------- MODULE CorrectionSessionsProofs -----------------------
(***************************************************************************)
(* Theorems about CorrectionSessions, for any number of requests, sessions *)
(* and edits.                                                              *)
(***************************************************************************)
EXTENDS CorrectionSessions, SequenceTheorems, FiniteSetTheorems, TLAPS

\* What a request carries where it awaits.
Carries(c) ==
    /\ pc[c] = "compiling" =>
          /\ req[c] \in Record /\ req[c].undo = <<>> /\ req[c].redo = <<>>
          /\ req[c].base = req[c].document
    /\ pc[c] \in Working \cup {"waiting"} => req[c] \in Request

\* At work on a session, it has the mutex, and the version it came for.
Owns(c) == pc[c] \in Working => Holds(c) /\ IsCurrent(c)

\* The entry is that of the session it has.
Fits(c) ==
    LET r == sessions[req[c].session]
        entry == req[c].entry
    IN
    /\ pc[c] = "computing" =>
          /\ req[c].kind = "apply" => entry \in Entry /\ entry.before = r.document
          /\ req[c].kind = "undo" => r.undo # <<>> /\ entry = Top(r.undo)
          /\ req[c].kind = "redo" => r.redo # <<>> /\ entry = Top(r.redo)

InPlace(c) == Carries(c) /\ Owns(c) /\ Fits(c)

OpenIsUsed == Open \subseteq used

IInv == /\ TypeOK /\ OpenIsUsed /\ HistoryIsConnected
        /\ \A c \in Client : InPlace(c)

-----------------------------------------------------------------------------
(* Histories *)

LEMMA PopProperties ==
    ASSUME NEW S, NEW path \in Seq(S), path # <<>>
    PROVE  /\ Len(path) \in Nat \ {0} /\ Top(path) \in S
           /\ Pop(path) \in Seq(S) /\ Len(Pop(path)) = Len(path) - 1
           /\ \A i \in 1 .. Len(path) - 1 : Pop(path)[i] = path[i]
<1>1. Len(path) \in Nat \ {0} BY EmptySeq, LenProperties
<1>2. Top(path) \in S BY <1>1, ElementOfSeq DEF Top
<1>3. \A i \in 1 .. Len(path) - 1 : path[i] \in S BY <1>1, ElementOfSeq
<1>4. /\ Pop(path) \in Seq(S)
      /\ Len(Pop(path)) = IF 1 <= Len(path) - 1 THEN Len(path) - 1 ELSE 0
      /\ \A i \in 1 .. Len(path) - 1 : Pop(path)[i] = path[i]
  BY <1>1, <1>3, SubSeqProperties DEF Pop
<1>5. Len(Pop(path)) = Len(path) - 1
  <2>1. \A n \in Nat \ {0} : (IF 1 <= n - 1 THEN n - 1 ELSE 0) = n - 1 OBVIOUS
  <2> QED BY <1>1, <1>4, <2>1
<1> HIDE DEF Pop
<1> QED BY <1>1, <1>2, <1>4, <1>5

LEMMA ConnectedAppend ==
    ASSUME NEW from, NEW path \in Seq(Entry), NEW entry \in Entry,
           Connected(from, path, entry.before)
    PROVE  Connected(from, Append(path, entry), entry.after)
<1>1. /\ Append(path, entry) # <<>> /\ Len(Append(path, entry)) = Len(path) + 1
      /\ \A i \in 1 .. Len(path) : Append(path, entry)[i] = path[i]
      /\ Append(path, entry)[Len(path) + 1] = entry
  BY AppendProperties
<1>2. CASE path = <<>> BY <1>1, <1>2 DEF Connected
<1>3. CASE path # <<>> BY <1>1, <1>3, PopProperties DEF Connected
<1> QED BY <1>2, <1>3

LEMMA ConnectedPop ==
    ASSUME NEW from, NEW to, NEW path \in Seq(Entry), path # <<>>,
           Connected(from, path, to)
    PROVE  Connected(from, Pop(path), Top(path).before) /\ Top(path).after = to
<1>1. /\ Len(path) \in Nat \ {0}
      /\ Pop(path) \in Seq(Entry) /\ Len(Pop(path)) = Len(path) - 1
      /\ \A i \in 1 .. Len(path) - 1 : Pop(path)[i] = path[i]
  BY PopProperties
<1>2. CASE Len(path) = 1
  BY <1>1, <1>2, EmptySeq DEF Connected, Top
<1>3. CASE Len(path) # 1
  <2>1. Pop(path) # <<>> BY <1>1, <1>3
  <2> QED BY <1>1, <1>3, <2>1 DEF Connected, Top
<1> QED BY <1>2, <1>3

LEMMA ResumesAppend ==
    ASSUME NEW path \in Seq(Entry), NEW entry \in Entry, Resumes(entry.after, path)
    PROVE  Resumes(entry.before, Append(path, entry))
<1>1. /\ Append(path, entry) # <<>> /\ Len(Append(path, entry)) = Len(path) + 1
      /\ \A i \in 1 .. Len(path) : Append(path, entry)[i] = path[i]
      /\ Append(path, entry)[Len(path) + 1] = entry
  BY AppendProperties
<1>2. CASE path = <<>> BY <1>1, <1>2 DEF Resumes
<1>3. CASE path # <<>> BY <1>1, <1>3, PopProperties DEF Resumes
<1> QED BY <1>2, <1>3

LEMMA ResumesPop ==
    ASSUME NEW from, NEW path \in Seq(Entry), path # <<>>, Resumes(from, path)
    PROVE  Resumes(Top(path).after, Pop(path)) /\ Top(path).before = from
<1>1. /\ Len(path) \in Nat \ {0}
      /\ Pop(path) \in Seq(Entry) /\ Len(Pop(path)) = Len(path) - 1
      /\ \A i \in 1 .. Len(path) - 1 : Pop(path)[i] = path[i]
  BY PopProperties
<1>2. CASE Len(path) = 1
  BY <1>1, <1>2, EmptySeq DEF Resumes, Top
<1>3. CASE Len(path) # 1
  BY <1>1, <1>3 DEF Resumes, Top
<1> QED BY <1>2, <1>3

-----------------------------------------------------------------------------
(* What an operation makes of a session *)

Sound(r) == /\ Connected(r.base, r.undo, r.document)
            /\ Resumes(r.document, r.redo)

LEMMA AppliedIsSound ==
    ASSUME NEW r \in Record, NEW entry \in Entry, Sound(r), entry.before = r.document
    PROVE  Applied(r, entry) \in Record /\ Sound(Applied(r, entry))
<1>1. r.undo \in Seq(Entry) /\ r.version + 1 \in Nat BY DEF Record
<1>2. Append(r.undo, entry) \in Seq(Entry) BY <1>1, AppendProperties
<1>3. Connected(r.base, Append(r.undo, entry), entry.after)
  BY <1>1, ConnectedAppend DEF Sound
<1>4. Resumes(entry.after, <<>>) BY DEF Resumes
<1>5. Applied(r, entry) \in Record BY <1>1, <1>2, EmptySeq DEF Applied, Record, Entry
<1>6. /\ Applied(r, entry).base = r.base /\ Applied(r, entry).document = entry.after
      /\ Applied(r, entry).undo = Append(r.undo, entry) /\ Applied(r, entry).redo = <<>>
  BY DEF Applied, Record
<1> QED BY <1>3, <1>4, <1>5, <1>6 DEF Sound

LEMMA UndoneIsSound ==
    ASSUME NEW r \in Record, Sound(r), r.undo # <<>>
    PROVE  Undone(r, Top(r.undo)) \in Record /\ Sound(Undone(r, Top(r.undo)))
<1> DEFINE entry == Top(r.undo)
<1>1. r.undo \in Seq(Entry) /\ r.redo \in Seq(Entry) /\ r.version + 1 \in Nat
  BY DEF Record
<1>2. entry \in Entry /\ Pop(r.undo) \in Seq(Entry) BY <1>1, PopProperties
<1>3. Connected(r.base, Pop(r.undo), entry.before) /\ entry.after = r.document
  BY <1>1, ConnectedPop DEF Sound
<1>4. Resumes(entry.before, Append(r.redo, entry))
  BY <1>1, <1>2, <1>3, ResumesAppend DEF Sound
<1>5. Append(r.redo, entry) \in Seq(Entry) BY <1>1, <1>2, AppendProperties
<1> HIDE DEF entry
<1>6. Undone(r, entry) \in Record BY <1>1, <1>2, <1>5 DEF Undone, Record, Entry
<1>7. /\ Undone(r, entry).base = r.base /\ Undone(r, entry).document = entry.before
      /\ Undone(r, entry).undo = Pop(r.undo)
      /\ Undone(r, entry).redo = Append(r.redo, entry)
  BY DEF Undone, Record
<1> QED BY <1>3, <1>4, <1>6, <1>7 DEF Sound, entry

LEMMA RedoneIsSound ==
    ASSUME NEW r \in Record, Sound(r), r.redo # <<>>
    PROVE  Redone(r, Top(r.redo)) \in Record /\ Sound(Redone(r, Top(r.redo)))
<1> DEFINE entry == Top(r.redo)
<1>1. r.undo \in Seq(Entry) /\ r.redo \in Seq(Entry) /\ r.version + 1 \in Nat
  BY DEF Record
<1>2. entry \in Entry /\ Pop(r.redo) \in Seq(Entry) BY <1>1, PopProperties
<1>3. Resumes(entry.after, Pop(r.redo)) /\ entry.before = r.document
  BY <1>1, ResumesPop DEF Sound
<1>4. Connected(r.base, Append(r.undo, entry), entry.after)
  BY <1>1, <1>2, <1>3, ConnectedAppend DEF Sound
<1>5. Append(r.undo, entry) \in Seq(Entry) BY <1>1, <1>2, AppendProperties
<1> HIDE DEF entry
<1>6. Redone(r, entry) \in Record BY <1>1, <1>2, <1>5 DEF Redone, Record, Entry
<1>7. /\ Redone(r, entry).base = r.base /\ Redone(r, entry).document = entry.after
      /\ Redone(r, entry).undo = Append(r.undo, entry)
      /\ Redone(r, entry).redo = Pop(r.redo)
  BY DEF Redone, Record
<1> QED BY <1>3, <1>4, <1>6, <1>7 DEF Sound, entry

LEMMA CommittedIsSound ==
    ASSUME NEW r \in Record
    PROVE  Committed(r) \in Record /\ Sound(Committed(r))
<1>0. /\ r.version + 1 \in Nat /\ r.document \in Document
      /\ Target(r) \in {"staging", "quarantine"}
  BY DEF Record, Target
<1>1. Committed(r) \in Record BY <1>0, EmptySeq DEF Committed, Record
<1>2. /\ Committed(r).base = r.document /\ Committed(r).document = r.document
      /\ Committed(r).undo = <<>> /\ Committed(r).redo = <<>>
  BY DEF Committed, Record
<1>3. Connected(r.document, <<>>, r.document) /\ Resumes(r.document, <<>>)
  BY DEF Connected, Resumes
<1> QED BY <1>1, <1>2, <1>3 DEF Sound

LEMMA NewIsSound ==
    ASSUME NEW d \in Document, NEW a \in {"staging", "quarantine", "superseded"},
           NEW l \in Ledger \cup {None}
    PROVE  New(d, a, l) \in Record
<1> QED BY EmptySeq DEF New, Record

-----------------------------------------------------------------------------
(* The invariant *)

LEMMA Initially == Init => IInv
<1> SUFFICES ASSUME Init PROVE IInv OBVIOUS
<1> USE DEF Init
<1>1. TypeOK BY LimitAssumption, EmptySeq DEF TypeOK, Ledger
<1>2. Open = {} BY DEF Open
<1>3. \A c \in Client : InPlace(c) BY DEF InPlace, Carries, Owns, Fits, Working
<1> QED BY <1>1, <1>2, <1>3 DEF IInv, OpenIsUsed, HistoryIsConnected

LEMMA OpenIsSound ==
    ASSUME IInv, NEW s \in Open
    PROVE  s \in Session /\ s \in used /\ sessions[s] \in Record /\ Sound(sessions[s])
<1> QED BY DEF IInv, TypeOK, Open, OpenIsUsed, HistoryIsConnected, Sound

LEMMA AtWork ==
    ASSUME IInv, NEW c \in Client, pc[c] \in Working
    PROVE  /\ req[c] \in Request /\ req[c].session \in Open
           /\ mutex[req[c].session] # <<>> /\ Head(mutex[req[c].session]) = c
<1>1. req[c] \in Request BY DEF IInv, InPlace, Carries
<1>2. req[c].session \in Session BY <1>1 DEF Request
<1> QED BY <1>1, <1>2 DEF IInv, InPlace, Owns, Holds, IsCurrent, Open

\* Whoever keeps its session and its mutex stays in place.
LEMMA StaysInPlace ==
    ASSUME IInv, NEW e \in Client, pc'[e] = pc[e], req'[e] = req[e],
           pc[e] \in Working =>
               LET s == req[e].session IN
               /\ sessions'[s] = sessions[s]
               /\ mutex'[s] # <<>> /\ Head(mutex'[s]) = Head(mutex[s])
    PROVE  InPlace(e)'
<1>1. Carries(e)' BY DEF IInv, InPlace, Carries
<1>2. Owns(e)' BY DEF IInv, InPlace, Owns, Holds, IsCurrent
<1>3. Fits(e)' BY DEF IInv, InPlace, Fits, Working
<1> QED BY <1>1, <1>2, <1>3 DEF InPlace

\* The end of a request disturbs none of the others, whatever it has done to
\* its own session.
LEMMA EndKeepsPlaces ==
    ASSUME IInv, NEW c \in Client, req[c] \in Request, Holds(c), End(c),
           \A s \in Session \ {req[c].session} : sessions'[s] = sessions[s]
    PROVE  /\ mutex' \in [Session -> Seq(Client)]
           /\ pc' \in [Client -> {"idle", "reading", "compiling", "waiting"} \cup Working]
           /\ req' \in [Client -> Request \cup Record \cup {None}]
           /\ \A e \in Client : InPlace(e)'
<1> DEFINE own == req[c].session
<1>1. own \in Session /\ mutex[own] \in Seq(Client) BY DEF Request, IInv, TypeOK
<1>2. Tail(mutex[own]) \in Seq(Client) BY <1>1, HeadTailProperties DEF Holds
<1>3. /\ mutex' \in [Session -> Seq(Client)]
      /\ pc' \in [Client -> {"idle", "reading", "compiling", "waiting"} \cup Working]
      /\ req' \in [Client -> Request \cup Record \cup {None}]
  BY <1>1, <1>2 DEF IInv, TypeOK, End, Goto
<1>4. InPlace(c)'
  BY DEF IInv, TypeOK, End, Goto, InPlace, Carries, Owns, Fits, Working
<1>5. ASSUME NEW e \in Client, e # c PROVE InPlace(e)'
  <2>1. pc'[e] = pc[e] /\ req'[e] = req[e] BY <1>5 DEF IInv, TypeOK, End, Goto
  <2>2. ASSUME pc[e] \in Working
        PROVE  /\ req[e].session \in Session \ {own}
               /\ mutex[req[e].session] # <<>>
    BY <1>5, <2>2, AtWork DEF Holds, Open
  <2>3. \A s \in Session \ {own} : mutex'[s] = mutex[s] BY DEF End, IInv, TypeOK
  <2> QED BY <2>1, <2>2, <2>3, StaysInPlace
<1> QED BY <1>3, <1>4, <1>5

\* One session is replaced.
LEMMA ReplacedIsSound ==
    ASSUME IInv, NEW s \in Session, s \in used, NEW r \in Record, Sound(r),
           sessions' = [sessions EXCEPT ![s] = r], used' = used
    PROVE  /\ sessions' \in [Session -> Record \cup {None}]
           /\ OpenIsUsed' /\ HistoryIsConnected'
<1>1. sessions' \in [Session -> Record \cup {None}] BY DEF IInv, TypeOK
<1>2. /\ sessions'[s] = r
      /\ \A n \in Session \ {s} : sessions'[n] = sessions[n]
  BY DEF IInv, TypeOK
<1>3. Open' \subseteq Open \cup {s} BY <1>2 DEF Open
<1>4. OpenIsUsed' BY <1>3 DEF OpenIsUsed, IInv
<1>5. ASSUME NEW n \in Open' PROVE Sound(sessions'[n])
  BY <1>2, <1>3, OpenIsSound DEF Open
<1> QED BY <1>1, <1>4, <1>5 DEF HistoryIsConnected, Sound

\* Sessions are only closed.
LEMMA ClosedIsSound ==
    ASSUME IInv, used' = used, sessions' \in [Session -> Record \cup {None}],
           \A s \in Session : sessions'[s] \in {sessions[s], None}
    PROVE  OpenIsUsed' /\ HistoryIsConnected'
<1>1. Open' \subseteq Open BY DEF Open
<1>2. \A s \in Open' : sessions'[s] = sessions[s] BY DEF Open
<1> QED BY <1>1, <1>2 DEF OpenIsUsed, IInv, HistoryIsConnected

\* No session that a request works on is recycled.
LEMMA RecycledIsFree ==
    ASSUME IInv, NEW c \in Client, pc[c] \in Working
    PROVE  Kept[req[c].session] = sessions[req[c].session]
<1> QED BY AtWork DEF Kept, Evicted, IsBusy, Open

LEMMA KeptIsTyped ==
    ASSUME IInv
    PROVE  /\ Kept \in [Session -> Record \cup {None}]
           /\ \A s \in Session : Kept[s] \in {sessions[s], None}
<1> QED BY DEF IInv, TypeOK, Kept

-----------------------------------------------------------------------------
(* Every action *)

LEMMA CreateKeeps == ASSUME IInv, NEW c \in Client, Create(c) PROVE IInv'
<1> USE DEF Create, Goto
<1>1. /\ sessions' \in [Session -> Record \cup {None}]
      /\ OpenIsUsed' /\ HistoryIsConnected'
  BY KeptIsTyped, ClosedIsSound
<1>2. TypeOK' BY <1>1 DEF IInv, TypeOK, workspace
<1>3. InPlace(c)'
  BY DEF IInv, TypeOK, InPlace, Carries, Owns, Fits, Working
<1>4. ASSUME NEW e \in Client, e # c PROVE InPlace(e)'
  <2>1. pc'[e] = pc[e] /\ req'[e] = req[e] BY <1>4 DEF IInv, TypeOK
  <2>2. mutex' = mutex /\ sessions' = Kept OBVIOUS
  <2> QED BY <2>1, <2>2, RecycledIsFree, AtWork, StaysInPlace
<1> QED BY <1>1, <1>2, <1>3, <1>4 DEF IInv

LEMMA ReadKeeps == ASSUME IInv, NEW c \in Client, Read(c) PROVE IInv'
<1> USE DEF Read, Goto, workspace, store
<1>1. ASSUME ledger # None
      PROVE  LET r == New(ledger.document, ledger.authority, None) IN
             r \in Record /\ r.undo = <<>> /\ r.redo = <<>> /\ r.base = r.document
  <2>1. ledger.document \in Document /\ ledger.authority \in {"staging", "quarantine"}
    BY <1>1 DEF IInv, TypeOK, Ledger
  <2> QED BY <2>1, NewIsSound DEF New
<1>2. ASSUME NEW d \in superseded
      PROVE  LET r == New(d, "superseded", ledger) IN
             r \in Record /\ r.undo = <<>> /\ r.redo = <<>> /\ r.base = r.document
  <2>1. d \in Document /\ ledger \in Ledger \cup {None} BY DEF IInv, TypeOK
  <2> QED BY <2>1, NewIsSound DEF New
<1>3. TypeOK' BY <1>1, <1>2 DEF IInv, TypeOK
<1>4. OpenIsUsed' /\ HistoryIsConnected'
  BY DEF IInv, OpenIsUsed, HistoryIsConnected, Open
<1>5. InPlace(c)'
  BY <1>1, <1>2 DEF IInv, TypeOK, InPlace, Carries, Owns, Fits, Working
<1>6. ASSUME NEW e \in Client, e # c PROVE InPlace(e)'
  <2>1. pc'[e] = pc[e] /\ req'[e] = req[e] BY <1>6 DEF IInv, TypeOK
  <2>2. mutex' = mutex /\ sessions' = sessions OBVIOUS
  <2> QED BY <2>1, <2>2, AtWork, StaysInPlace
<1> QED BY <1>3, <1>4, <1>5, <1>6 DEF IInv

LEMMA AddKeeps == ASSUME IInv, NEW c \in Client, Add(c) PROVE IInv'
<1> DEFINE s == CHOOSE n \in Session \ used : TRUE
<1>1. /\ pc[c] = "compiling" /\ mutex' = mutex
      /\ pc' = [pc EXCEPT ![c] = "idle"] /\ req' = [req EXCEPT ![c] = None]
      /\ ledger' = ledger /\ superseded' = superseded /\ writer' = writer /\ writes' = writes
      /\ idle' \subseteq Session
  BY DEF Add, Goto, workspace, IInv, TypeOK
<1>2. req[c] \in Record /\ Sound(req[c])
  <2>1. /\ req[c] \in Record /\ req[c].undo = <<>> /\ req[c].redo = <<>>
        /\ req[c].base = req[c].document
    BY <1>1 DEF IInv, InPlace, Carries
  <2> QED BY <2>1 DEF Sound, Connected, Resumes
<1>3. ASSUME NEW e \in Client, e # c, pc[e] \in Working =>
                 sessions'[req[e].session] = sessions[req[e].session]
      PROVE  InPlace(e)'
  <2>1. pc'[e] = pc[e] /\ req'[e] = req[e] BY <1>1, <1>3 DEF IInv, TypeOK
  <2> QED BY <1>1, <1>3, <2>1, AtWork, StaysInPlace
<1>4. InPlace(c)'
  BY <1>1 DEF IInv, TypeOK, InPlace, Carries, Owns, Fits, Working
<1>5. CASE sessions' \in {sessions, Kept} /\ used' = used
  <2>1. /\ sessions' \in [Session -> Record \cup {None}]
        /\ \A n \in Session : sessions'[n] \in {sessions[n], None}
    BY <1>5, KeptIsTyped DEF IInv, TypeOK
  <2>2. OpenIsUsed' /\ HistoryIsConnected' BY <1>5, <2>1, ClosedIsSound
  <2>3. TypeOK' BY <1>1, <1>5, <2>1 DEF IInv, TypeOK
  <2>4. \A e \in Client : InPlace(e)' BY <1>3, <1>4, <1>5, RecycledIsFree
  <2> QED BY <2>2, <2>3, <2>4 DEF IInv
<1>6. CASE /\ Session \ used # {} /\ used' = used \cup {s}
           /\ sessions' = [Kept EXCEPT ![s] = req[c]]
  <2>1. s \in Session \ used BY <1>6
  <2> HIDE DEF s
  <2>2. sessions' \in [Session -> Record \cup {None}]
    BY <1>2, <1>6, KeptIsTyped
  <2>3. /\ sessions'[s] = req[c]
        /\ \A n \in Session \ {s} : sessions'[n] = Kept[n]
    BY <1>6, <2>1, KeptIsTyped
  <2>4. Open' \subseteq Open \cup {s} BY <2>3, KeptIsTyped DEF Open
  <2>5. OpenIsUsed' BY <1>6, <2>4 DEF OpenIsUsed, IInv
  <2>6. ASSUME NEW n \in Open' PROVE Sound(sessions'[n])
    BY <1>2, <2>3, KeptIsTyped, OpenIsSound DEF Open
  <2>7. HistoryIsConnected' BY <2>6 DEF HistoryIsConnected, Sound
  <2>8. TypeOK' BY <1>1, <1>6, <2>1, <2>2 DEF IInv, TypeOK
  <2>9. ASSUME NEW e \in Client, pc[e] \in Working
        PROVE  sessions'[req[e].session] = sessions[req[e].session]
    BY <2>1, <2>3, <2>9, AtWork, OpenIsSound, RecycledIsFree
  <2> QED BY <1>3, <1>4, <2>5, <2>7, <2>8, <2>9 DEF IInv
<1> QED BY <1>5, <1>6 DEF Add

LEMMA AskKeeps == ASSUME IInv, NEW c \in Client, Ask(c) PROVE IInv'
<1>1. PICK s \in Open, kind \in Kinds, allow \in BOOLEAN :
        /\ mutex' = [mutex EXCEPT ![s] = Append(@, c)]
        /\ \E n \in {sessions[s].version, sessions[s].version - 1} \cap Nat :
              req' = [req EXCEPT ![c] = [session |-> s, expected |-> n, kind |-> kind,
                                         allow |-> allow, entry |-> None]]
  BY Zenon DEF Ask
<1>2. /\ pc' = [pc EXCEPT ![c] = "waiting"] /\ UNCHANGED <<workspace, sessions, used, idle>>
  BY DEF Ask, Goto
<1>3. s \in Session /\ mutex[s] \in Seq(Client) BY DEF Open, IInv, TypeOK
<1>4. Append(mutex[s], c) \in Seq(Client) /\ Append(mutex[s], c) # <<>>
  BY <1>3, AppendProperties
<1>5. req'[c] \in Request BY <1>1, <1>3 DEF IInv, TypeOK, Request
<1>6. TypeOK' BY <1>1, <1>2, <1>3, <1>4, <1>5 DEF IInv, TypeOK, workspace
<1>7. OpenIsUsed' /\ HistoryIsConnected'
  BY <1>2 DEF IInv, OpenIsUsed, HistoryIsConnected, Open
<1>8. InPlace(c)'
  BY <1>2, <1>5 DEF IInv, TypeOK, InPlace, Carries, Owns, Fits, Working
<1>9. ASSUME NEW e \in Client, e # c PROVE InPlace(e)'
  <2>1. pc'[e] = pc[e] /\ req'[e] = req[e] BY <1>1, <1>2, <1>9 DEF IInv, TypeOK
  <2>2. ASSUME mutex[s] # <<>>
        PROVE  mutex'[s] # <<>> /\ Head(mutex'[s]) = Head(mutex[s])
    BY <1>1, <1>3, <1>4, <2>2, HeadTailAppend DEF IInv, TypeOK
  <2>3. \A m \in Session \ {s} : mutex'[m] = mutex[m] BY <1>1 DEF IInv, TypeOK
  <2> QED BY <1>2, <2>1, <2>2, <2>3, AtWork, StaysInPlace DEF Open
<1> QED BY <1>6, <1>7, <1>8, <1>9 DEF IInv

\* What only time and other writers of the workspace do.
LEMMA OutsideKeeps ==
    ASSUME IInv, UNCHANGED <<sessions, used, mutex, pc, req>>,
           ledger' \in Ledger \cup {None}, superseded' \subseteq Document,
           writer' \in Session \cup {None}, writes' \in Nat, idle' \subseteq Session
    PROVE  IInv'
<1>1. TypeOK' BY DEF IInv, TypeOK
<1>2. OpenIsUsed' /\ HistoryIsConnected'
  BY DEF IInv, OpenIsUsed, HistoryIsConnected, Open
<1>3. ASSUME NEW e \in Client PROVE InPlace(e)' BY AtWork, StaysInPlace
<1> QED BY <1>1, <1>2, <1>3 DEF IInv

LEMMA GetKeeps == ASSUME IInv, NEW s \in Session, Get(s) PROVE IInv'
<1> QED BY OutsideKeeps DEF Get, Access, workspace, IInv, TypeOK

LEMMA PassKeeps == ASSUME IInv, Pass PROVE IInv'
<1> QED BY OutsideKeeps DEF Pass, Open, workspace, IInv, TypeOK

LEMMA WriteKeeps == ASSUME IInv, Write PROVE IInv'
<1>1. superseded' \subseteq Document BY DEF Write, IInv, TypeOK, Ledger
<1>2. idle' \subseteq Session /\ UNCHANGED <<sessions, used, mutex, pc, req>>
  BY DEF Write, store, IInv, TypeOK
<1>3. writer' \in Session \cup {None} /\ writes' \in Nat /\ ledger' \in Ledger \cup {None}
  BY DEF Write, IInv, TypeOK
<1> QED BY <1>1, <1>2, <1>3, OutsideKeeps

LEMMA EntersWithRequest ==
    ASSUME IInv, NEW c \in Client, Enters(c)
    PROVE  /\ req[c] \in Request /\ req[c].session \in Session /\ Holds(c)
           /\ idle' \subseteq Session
<1>1. req[c] \in Request BY DEF IInv, InPlace, Carries, Enters
<1> QED BY <1>1 DEF Request, Enters, Access, IInv, TypeOK

LEMMA BeginsCurrent ==
    ASSUME IInv, NEW c \in Client, Enters(c), MayBegin(c)
    PROVE  /\ req[c].session \in Open /\ IsCurrent(c)
           /\ req[c].kind = "undo" => sessions[req[c].session].undo # <<>>
           /\ req[c].kind = "redo" => sessions[req[c].session].redo # <<>>
<1> QED BY EntersWithRequest DEF MayBegin, IsCurrent, Open

\* A request that ends without a trace.
LEMMA RefuseKeeps ==
    ASSUME IInv, NEW c \in Client, req[c] \in Request, Holds(c), Refuse(c),
           idle' \subseteq Session
    PROVE  IInv'
<1>1. UNCHANGED <<workspace, sessions, used>> /\ End(c) BY DEF Refuse
<1>2. /\ mutex' \in [Session -> Seq(Client)]
      /\ pc' \in [Client -> {"idle", "reading", "compiling", "waiting"} \cup Working]
      /\ req' \in [Client -> Request \cup Record \cup {None}]
      /\ \A e \in Client : InPlace(e)'
  BY <1>1, EndKeepsPlaces
<1>3. TypeOK' BY <1>1, <1>2 DEF IInv, TypeOK, workspace
<1>4. OpenIsUsed' /\ HistoryIsConnected'
  BY <1>1 DEF IInv, OpenIsUsed, HistoryIsConnected, Open
<1> QED BY <1>2, <1>3, <1>4 DEF IInv

LEMMA RejectKeeps == ASSUME IInv, NEW c \in Client, Reject(c) PROVE IInv'
<1> QED BY EntersWithRequest, RefuseKeeps DEF Reject

LEMMA FailKeeps == ASSUME IInv, NEW c \in Client, Fail(c) PROVE IInv'
<1>1. req[c] \in Request /\ Holds(c) BY AtWork DEF Fail, Holds
<1> QED BY <1>1, RefuseKeeps DEF Fail, IInv, TypeOK

LEMMA DeleteKeeps == ASSUME IInv, NEW c \in Client, Delete(c) PROVE IInv'
<1> DEFINE own == req[c].session
<1>1. req[c] \in Request /\ own \in Session /\ Holds(c) /\ idle' \subseteq Session
  BY EntersWithRequest DEF Delete
<1>2. /\ sessions' = [sessions EXCEPT ![own] = None] /\ End(c)
      /\ UNCHANGED <<workspace, used>>
  BY DEF Delete
<1>3. /\ sessions' \in [Session -> Record \cup {None}]
      /\ \A s \in Session : sessions'[s] \in {sessions[s], None}
      /\ \A s \in Session \ {own} : sessions'[s] = sessions[s]
  BY <1>1, <1>2 DEF IInv, TypeOK
<1>4. /\ mutex' \in [Session -> Seq(Client)]
      /\ pc' \in [Client -> {"idle", "reading", "compiling", "waiting"} \cup Working]
      /\ req' \in [Client -> Request \cup Record \cup {None}]
      /\ \A e \in Client : InPlace(e)'
  BY <1>1, <1>2, <1>3, EndKeepsPlaces
<1>5. TypeOK' BY <1>1, <1>2, <1>3, <1>4 DEF IInv, TypeOK, workspace
<1>6. OpenIsUsed' /\ HistoryIsConnected' BY <1>2, <1>3, ClosedIsSound
<1> QED BY <1>4, <1>5, <1>6 DEF IInv

\* A request that goes on with the mutex it has.
LEMMA GoesOn ==
    ASSUME IInv, NEW c \in Client, UNCHANGED <<workspace, sessions, used, mutex>>,
           idle' \subseteq Session, Holds(c), IsCurrent(c),
           NEW step \in Working, Goto(c, step),
           NEW r \in Request, req' = [req EXCEPT ![c] = r],
           r.session = req[c].session, r.expected = req[c].expected,
           step = "computing" =>
               LET old == sessions[r.session] IN
               /\ r.kind = "apply" => r.entry \in Entry /\ r.entry.before = old.document
               /\ r.kind = "undo" => old.undo # <<>> /\ r.entry = Top(old.undo)
               /\ r.kind = "redo" => old.redo # <<>> /\ r.entry = Top(old.redo)
    PROVE  IInv'
<1>1. TypeOK' BY DEF IInv, TypeOK, Goto, Working, workspace
<1>2. OpenIsUsed' /\ HistoryIsConnected'
  BY DEF IInv, OpenIsUsed, HistoryIsConnected, Open
<1>3. pc'[c] = step /\ req'[c] = r BY DEF IInv, TypeOK, Goto
<1>4. Carries(c)' BY <1>3 DEF Carries, Working
<1>5. Owns(c)' BY <1>3 DEF Owns, Holds, IsCurrent
<1>6. Fits(c)' BY <1>3 DEF Fits
<1>7. ASSUME NEW e \in Client, e # c PROVE InPlace(e)'
  <2>1. pc'[e] = pc[e] /\ req'[e] = req[e] BY <1>7 DEF IInv, TypeOK, Goto
  <2> QED BY <2>1, AtWork, StaysInPlace
<1> QED BY <1>1, <1>2, <1>4, <1>5, <1>6, <1>7 DEF IInv, InPlace

LEMMA BeginCommitKeeps == ASSUME IInv, NEW c \in Client, BeginCommit(c) PROVE IInv'
<1>1. req[c] \in Request /\ Holds(c) /\ idle' \subseteq Session /\ IsCurrent(c)
  BY EntersWithRequest, BeginsCurrent DEF BeginCommit
<1>2. req' = [req EXCEPT ![c] = req[c]] BY DEF BeginCommit, IInv, TypeOK
<1>3. Goto(c, "checking") /\ UNCHANGED <<workspace, sessions, used, mutex>>
  BY DEF BeginCommit
<1>4. "checking" \in Working /\ "checking" # "computing" BY DEF Working
<1> QED BY <1>1, <1>2, <1>3, <1>4, GoesOn

LEMMA ComputeKeeps == ASSUME IInv, NEW c \in Client, Compute(c) PROVE IInv'
<1> DEFINE old == sessions[req[c].session]
<1>1. req[c] \in Request /\ Holds(c) /\ idle' \subseteq Session
  BY EntersWithRequest DEF Compute
<1>2. /\ IsCurrent(c) /\ old \in Record
      /\ req[c].kind = "undo" => old.undo # <<>>
      /\ req[c].kind = "redo" => old.redo # <<>>
  BY BeginsCurrent, OpenIsSound DEF Compute
<1>3. old.undo \in Seq(Entry) /\ old.redo \in Seq(Entry) /\ old.document \in Document
  BY <1>2 DEF Record
<1>4. PICK entry \in Entries(old, req[c].kind) : req' = [req EXCEPT ![c].entry = entry]
  BY DEF Compute
<1> HIDE DEF old
<1>5. /\ req[c].kind = "apply" => entry \in Entry /\ entry.before = old.document
      /\ req[c].kind = "undo" => entry \in Entry /\ entry = Top(old.undo)
      /\ req[c].kind = "redo" => entry \in Entry /\ entry = Top(old.redo)
      /\ entry \in Entry \cup {None}
  <2>1. req[c].kind \in {"apply", "undo", "redo", "preview"} BY DEF Compute, Changes
  <2>2. CASE req[c].kind = "apply" BY <1>3, <1>4, <2>2 DEF Entries, Entry
  <2>3. CASE req[c].kind = "undo" BY <1>2, <1>3, <1>4, <2>3, PopProperties DEF Entries
  <2>4. CASE req[c].kind = "redo" BY <1>2, <1>3, <1>4, <2>4, PopProperties DEF Entries
  <2>5. CASE req[c].kind = "preview" BY <1>4, <2>5 DEF Entries
  <2> QED BY <2>1, <2>2, <2>3, <2>4, <2>5
<1> DEFINE r == [req[c] EXCEPT !.entry = entry]
<1>6. /\ r \in Request /\ r.session = req[c].session /\ r.expected = req[c].expected
      /\ r.kind = req[c].kind /\ r.entry = entry
  BY <1>1, <1>5 DEF Request
<1>7. req' = [req EXCEPT ![c] = r] BY <1>4
<1>8. Goto(c, "computing") /\ UNCHANGED <<workspace, sessions, used, mutex>>
  BY DEF Compute
<1>9. "computing" \in Working BY DEF Working
<1> HIDE DEF r
<1> QED BY <1>1, <1>2, <1>5, <1>6, <1>7, <1>8, <1>9, GoesOn DEF old

LEMMA ComputedKeeps == ASSUME IInv, NEW c \in Client, Computed(c) PROVE IInv'
<1> DEFINE own == req[c].session
           old == sessions[own]
           entry == req[c].entry
<1>1. /\ pc[c] = "computing" /\ End(c) /\ UNCHANGED <<workspace, used, idle>>
  BY DEF Computed
<1>2. /\ req[c] \in Request /\ own \in Open /\ Holds(c)
      /\ req[c].kind = "apply" => entry \in Entry /\ entry.before = old.document
      /\ req[c].kind = "undo" => old.undo # <<>> /\ entry = Top(old.undo)
      /\ req[c].kind = "redo" => old.redo # <<>> /\ entry = Top(old.redo)
  BY <1>1, AtWork DEF Holds, Working, IInv, InPlace, Fits
<1>3. own \in Session /\ own \in used /\ old \in Record /\ Sound(old) BY <1>2, OpenIsSound
<1>4. CASE req[c].kind = "preview" /\ UNCHANGED sessions
  <2>1. Refuse(c) /\ idle' \subseteq Session BY <1>1, <1>4 DEF Refuse, IInv, TypeOK
  <2> QED BY <1>2, <2>1, RefuseKeeps
<1>5. ASSUME NEW r \in Record, Sound(r), sessions' = [sessions EXCEPT ![own] = r]
      PROVE  IInv'
  <2>1. /\ sessions' \in [Session -> Record \cup {None}]
        /\ OpenIsUsed' /\ HistoryIsConnected'
    BY <1>1, <1>3, <1>5, ReplacedIsSound
  <2>2. \A s \in Session \ {own} : sessions'[s] = sessions[s]
    BY <1>5 DEF IInv, TypeOK
  <2>3. /\ mutex' \in [Session -> Seq(Client)]
        /\ pc' \in [Client -> {"idle", "reading", "compiling", "waiting"} \cup Working]
        /\ req' \in [Client -> Request \cup Record \cup {None}]
        /\ \A e \in Client : InPlace(e)'
    BY <1>1, <1>2, <2>2, EndKeepsPlaces
  <2>4. TypeOK' BY <1>1, <2>1, <2>3 DEF IInv, TypeOK, workspace
  <2> QED BY <2>1, <2>3, <2>4 DEF IInv
<1>6. CASE /\ req[c].kind = "apply"
           /\ sessions' = [sessions EXCEPT ![own] = Applied(old, entry)]
  BY <1>2, <1>3, <1>5, <1>6, AppliedIsSound
<1>7. CASE req[c].kind = "undo" /\ sessions' = [sessions EXCEPT ![own] = Undone(old, entry)]
  BY <1>2, <1>3, <1>5, <1>7, UndoneIsSound
<1>8. CASE req[c].kind = "redo" /\ sessions' = [sessions EXCEPT ![own] = Redone(old, entry)]
  BY <1>2, <1>3, <1>5, <1>8, RedoneIsSound
<1> QED BY <1>4, <1>6, <1>7, <1>8 DEF Computed

LEMMA CheckKeeps == ASSUME IInv, NEW c \in Client, Check(c) PROVE IInv'
<1>1. pc[c] = "checking" /\ idle' = idle BY DEF Check
<1>2. req[c] \in Request /\ Holds(c) /\ IsCurrent(c) /\ idle' \subseteq Session
  BY <1>1, AtWork DEF Holds, Working, IInv, InPlace, Owns, TypeOK
<1>3. CASE Refuse(c) BY <1>2, <1>3, RefuseKeeps
<1>4. CASE Goto(c, "saving") /\ UNCHANGED <<workspace, sessions, used, mutex, req>>
  <2>1. req' = [req EXCEPT ![c] = req[c]] BY <1>4 DEF IInv, TypeOK
  <2>2. "saving" \in Working /\ "saving" # "computing" BY DEF Working
  <2>3. UNCHANGED <<workspace, sessions, used, mutex>> BY <1>4
  <2> QED BY <1>2, <1>4, <2>1, <2>2, <2>3, GoesOn
<1> QED BY <1>3, <1>4 DEF Check

LEMMA SaveKeeps == ASSUME IInv, NEW c \in Client, Save(c) PROVE IInv'
<1> DEFINE own == req[c].session
           old == sessions[own]
<1>1. /\ pc[c] = "saving" /\ End(c) /\ UNCHANGED <<writes, used, idle>>
      /\ ledger' = [document |-> old.document, authority |-> Target(old)]
      /\ superseded' \subseteq superseded
             \cup (IF ledger = None THEN {} ELSE {ledger.document})
      /\ writer' \in {own, None}
      /\ sessions' \in {sessions, [sessions EXCEPT ![own] = Committed(old)]}
  BY DEF Save
<1>2. req[c] \in Request /\ own \in Open /\ Holds(c)
  BY <1>1, AtWork DEF Holds, Working
<1>3. own \in Session /\ own \in used /\ old \in Record /\ Sound(old) BY <1>2, OpenIsSound
<1>4. Committed(old) \in Record /\ Sound(Committed(old)) BY <1>3, CommittedIsSound
<1>5. /\ sessions' \in [Session -> Record \cup {None}]
      /\ OpenIsUsed' /\ HistoryIsConnected'
      /\ \A s \in Session \ {own} : sessions'[s] = sessions[s]
  <2>1. CASE sessions' = sessions
    BY <1>1, <2>1 DEF IInv, TypeOK, OpenIsUsed, HistoryIsConnected, Open
  <2>2. CASE sessions' = [sessions EXCEPT ![own] = Committed(old)]
    <3>1. \A s \in Session \ {own} : sessions'[s] = sessions[s]
      BY <2>2 DEF IInv, TypeOK
    <3> QED BY <1>1, <1>3, <1>4, <2>2, <3>1, ReplacedIsSound
  <2> QED BY <1>1, <2>1, <2>2
<1>6. /\ mutex' \in [Session -> Seq(Client)]
      /\ pc' \in [Client -> {"idle", "reading", "compiling", "waiting"} \cup Working]
      /\ req' \in [Client -> Request \cup Record \cup {None}]
      /\ \A e \in Client : InPlace(e)'
  BY <1>1, <1>2, <1>5, EndKeepsPlaces
<1>7. ledger' \in Ledger /\ superseded' \subseteq Document
  <2>1. old.document \in Document /\ Target(old) \in {"staging", "quarantine"}
    BY <1>3 DEF Record, Target
  <2>2. ledger # None => ledger.document \in Document BY DEF IInv, TypeOK, Ledger
  <2>3. superseded \subseteq Document BY DEF IInv, TypeOK
  <2> QED BY <1>1, <2>1, <2>2, <2>3 DEF Ledger
<1>8. TypeOK' BY <1>1, <1>3, <1>5, <1>6, <1>7 DEF IInv, TypeOK
<1> QED BY <1>5, <1>6, <1>8 DEF IInv

LEMMA Inductive == IInv /\ [Next]_vars => IInv'
<1> SUFFICES ASSUME IInv, [Next]_vars PROVE IInv' OBVIOUS
<1>1. ASSUME NEW c \in Client, Create(c) \/ Read(c) \/ Add(c) \/ Ask(c) PROVE IInv'
  BY <1>1, CreateKeeps, ReadKeeps, AddKeeps, AskKeeps
<1>2. ASSUME NEW c \in Client, Reject(c) \/ Delete(c) \/ Fail(c) PROVE IInv'
  BY <1>2, RejectKeeps, DeleteKeeps, FailKeeps
<1>3. ASSUME NEW c \in Client, Compute(c) \/ Computed(c) PROVE IInv'
  BY <1>3, ComputeKeeps, ComputedKeeps
<1>4. ASSUME NEW c \in Client, BeginCommit(c) \/ Check(c) \/ Save(c) PROVE IInv'
  BY <1>4, BeginCommitKeeps, CheckKeeps, SaveKeeps
<1>5. ASSUME NEW s \in Session, Get(s) PROVE IInv' BY <1>5, GetKeeps
<1>6. CASE Write \/ Pass BY <1>6, WriteKeeps, PassKeeps
<1>7. CASE UNCHANGED vars
  <2>1. UNCHANGED <<sessions, used, mutex, pc, req>>
        /\ UNCHANGED <<ledger, superseded, writer, writes, idle>>
    BY <1>7 DEF vars, workspace, store
  <2> QED BY <2>1, OutsideKeeps DEF IInv, TypeOK
<1> QED BY <1>1, <1>2, <1>3, <1>4, <1>5, <1>6, <1>7 DEF Next

-----------------------------------------------------------------------------
(* The queues *)

\* The queue of a session's mutex is made of the requests in flight on it, each
\* once.
QueuesMatch ==
    /\ \A s \in Session : \A i \in 1 .. Len(mutex[s]) : Uses(mutex[s][i], s)
    /\ \A s \in Session : \A c \in Client :
          Uses(c, s) => \E i \in 1 .. Len(mutex[s]) : mutex[s][i] = c
    /\ \A s \in Session : \A i, j \in 1 .. Len(mutex[s]) : mutex[s][i] = mutex[s][j] => i = j

LEMMA QueuesInitially == Init => QueuesMatch
<1> SUFFICES ASSUME Init PROVE QueuesMatch OBVIOUS
<1>1. \A s \in Session : mutex[s] = <<>> /\ 1 .. Len(mutex[s]) = {} BY DEF Init
<1>2. \A c \in Client, s \in Session : ~Uses(c, s) BY DEF Init, Uses, Working
<1> QED BY <1>1, <1>2 DEF QueuesMatch

LEMMA QueuesStand ==
    ASSUME IInv, QueuesMatch, mutex' = mutex,
           \A c \in Client, s \in Session : Uses(c, s)' <=> Uses(c, s)
    PROVE  QueuesMatch'
<1>1. \A s \in Session : \A i \in 1 .. Len(mutex[s]) : mutex[s][i] \in Client
  BY ElementOfSeq DEF IInv, TypeOK
<1> QED BY <1>1 DEF QueuesMatch

LEMMA QueuesAsk ==
    ASSUME IInv, QueuesMatch, NEW c \in Client, Ask(c) PROVE QueuesMatch'
<1>1. PICK s \in Open, kind \in Kinds, allow \in BOOLEAN :
        /\ mutex' = [mutex EXCEPT ![s] = Append(@, c)]
        /\ \E n \in {sessions[s].version, sessions[s].version - 1} \cap Nat :
              req' = [req EXCEPT ![c] = [session |-> s, expected |-> n, kind |-> kind,
                                         allow |-> allow, entry |-> None]]
  BY Zenon DEF Ask
<1>2. s \in Session /\ mutex[s] \in Seq(Client) BY DEF Open, IInv, TypeOK
<1>3. /\ Len(mutex'[s]) = Len(mutex[s]) + 1 /\ Len(mutex[s]) \in Nat
      /\ \A i \in 1 .. Len(mutex[s]) : mutex'[s][i] = mutex[s][i]
      /\ mutex'[s][Len(mutex[s]) + 1] = c
      /\ \A n \in Session \ {s} : mutex'[n] = mutex[n]
  BY <1>1, <1>2, AppendProperties, LenProperties DEF IInv, TypeOK
<1>4. /\ Uses(c, s)' /\ \A n \in Session \ {s} : ~Uses(c, n)'
      /\ \A n \in Session : ~Uses(c, n)
      /\ \A e \in Client \ {c}, n \in Session : Uses(e, n)' <=> Uses(e, n)
  BY <1>1 DEF Ask, Goto, Uses, Working, IInv, TypeOK
<1>5. \A n \in Session : \A i \in 1 .. Len(mutex[n]) : mutex[n][i] \in Client \ {c}
  BY <1>4, ElementOfSeq DEF IInv, TypeOK, QueuesMatch
<1>6. \A n \in Session : \A i, j \in 1 .. Len(mutex'[n]) :
         mutex'[n][i] = mutex'[n][j] => i = j
  <2>1. ASSUME NEW n \in Session, NEW i \in 1 .. Len(mutex'[n]),
               NEW j \in 1 .. Len(mutex'[n]), mutex'[n][i] = mutex'[n][j]
        PROVE  i = j
    <3>1. CASE n = s
      <4> DEFINE last == Len(mutex[s]) + 1
      <4>1. \A k \in 1 .. Len(mutex'[s]) : k # last =>
               k \in 1 .. Len(mutex[s]) /\ mutex'[s][k] = mutex[s][k] /\ mutex[s][k] # c
        BY <1>2, <1>3, <1>5
      <4>2. mutex'[s][last] = c BY <1>3
      <4>3. i = last <=> j = last BY <2>1, <3>1, <4>1, <4>2
      <4>4. i # last => i = j BY <1>2, <2>1, <3>1, <4>1, <4>3 DEF QueuesMatch
      <4> QED BY <4>3, <4>4
    <3>2. CASE n # s BY <1>3, <2>1, <3>2 DEF QueuesMatch
    <3> QED BY <3>1, <3>2
  <2> QED BY <2>1
<1>7. ASSUME NEW n \in Session, NEW i \in 1 .. Len(mutex'[n]), NEW e, e = mutex'[n][i]
      PROVE  Uses(e, n)'
  <2>1. CASE n = s /\ i = Len(mutex[s]) + 1 BY <1>3, <1>4, <1>7, <2>1
  <2>2. CASE ~(n = s /\ i = Len(mutex[s]) + 1)
    <3>1. i \in 1 .. Len(mutex[n]) /\ e = mutex[n][i] BY <1>2, <1>3, <1>7, <2>2
    <3>2. e \in Client \ {c} /\ Uses(e, n) BY <1>5, <3>1 DEF QueuesMatch
    <3> QED BY <1>4, <3>2
  <2> QED BY <2>1, <2>2
<1>8. \A n \in Session : \A i \in 1 .. Len(mutex'[n]) : Uses(mutex[n][i], n)'
  BY <1>7 DEF Uses
<1>9. ASSUME NEW n \in Session, NEW e \in Client, Uses(e, n)'
      PROVE  \E i \in 1 .. Len(mutex'[n]) : mutex'[n][i] = e
  BY <1>3, <1>4, <1>9 DEF QueuesMatch
<1> QED BY <1>6, <1>8, <1>9 DEF QueuesMatch

LEMMA QueuesEnd ==
    ASSUME IInv, QueuesMatch, NEW c \in Client, req[c].session \in Session, Holds(c), End(c)
    PROVE  QueuesMatch'
<1> DEFINE s == req[c].session
<1>1. s \in Session /\ mutex[s] \in Seq(Client) /\ mutex[s] # <<>> /\ mutex[s][1] = c
  BY DEF Holds, IInv, TypeOK
<1>2. /\ Len(mutex[s]) \in Nat \ {0} /\ Len(mutex'[s]) = Len(mutex[s]) - 1
      /\ \A i \in 1 .. Len(mutex'[s]) : mutex'[s][i] = mutex[s][i + 1]
      /\ \A n \in Session \ {s} : mutex'[n] = mutex[n]
  BY <1>1, EmptySeq, LenProperties, HeadTailProperties DEF End, IInv, TypeOK
<1>3. \A n \in Session : ~Uses(c, n)' BY DEF End, Goto, Uses, Working, IInv, TypeOK
<1>4. \A e \in Client \ {c}, n \in Session : Uses(e, n)' <=> Uses(e, n)
  BY DEF End, Goto, Uses, IInv, TypeOK
<1>5. \A n \in Session : \A i \in 1 .. Len(mutex[n]) :
         mutex[n][i] \in Client /\ (mutex[n][i] = c => n = s /\ i = 1)
  <2>1. ASSUME NEW n \in Session, NEW i \in 1 .. Len(mutex[n])
        PROVE  mutex[n][i] \in Client /\ (mutex[n][i] = c => n = s /\ i = 1)
    <3>1. mutex[n][i] \in Client BY ElementOfSeq DEF IInv, TypeOK
    <3>2. mutex[n][i] = c => n = s BY DEF QueuesMatch, Uses
    <3>3. mutex[n][i] = c /\ n = s => i = 1 BY <1>1, <1>2 DEF QueuesMatch
    <3> QED BY <3>1, <3>2, <3>3
  <2> QED BY <2>1
<1> HIDE DEF s
<1>6. \A n \in Session : \A i \in 1 .. Len(mutex'[n]) : Uses(mutex[n][i], n)'
  <2>1. ASSUME NEW n \in Session, NEW i \in 1 .. Len(mutex'[n]), NEW e, e = mutex'[n][i]
        PROVE  Uses(e, n)'
    <3>1. PICK j \in 1 .. Len(mutex[n]) : e = mutex[n][j] /\ (n = s => j # 1)
      <4>1. CASE n = s
        <5>1. i + 1 \in 1 .. Len(mutex[s]) /\ i + 1 # 1 BY <1>2, <2>1, <4>1
        <5> QED BY <1>2, <2>1, <4>1, <5>1
      <4>2. CASE n # s BY <1>2, <2>1, <4>2
      <4> QED BY <4>1, <4>2
    <3>2. e \in Client \ {c} /\ Uses(e, n) BY <1>5, <3>1 DEF QueuesMatch
    <3> QED BY <1>4, <3>2
  <2> QED BY <2>1 DEF Uses
<1>7. ASSUME NEW n \in Session, NEW e \in Client, Uses(e, n)'
      PROVE  \E i \in 1 .. Len(mutex'[n]) : mutex'[n][i] = e
  <2>1. e # c /\ Uses(e, n) BY <1>3, <1>4, <1>7
  <2>2. PICK i \in 1 .. Len(mutex[n]) : mutex[n][i] = e BY <2>1 DEF QueuesMatch
  <2>3. CASE n = s
    <3>1. i # 1 BY <1>1, <2>1, <2>2, <2>3
    <3>2. i - 1 \in 1 .. Len(mutex'[s]) /\ (i - 1) + 1 = i BY <1>2, <2>3, <3>1
    <3>3. mutex'[s][i - 1] = e BY <1>2, <2>2, <2>3, <3>2
    <3> QED BY <2>3, <3>2, <3>3
  <2>4. CASE n # s BY <1>2, <2>2, <2>4
  <2> QED BY <2>3, <2>4
<1>8. ASSUME NEW n \in Session, NEW i \in 1 .. Len(mutex'[n]), NEW j \in 1 .. Len(mutex'[n]),
             mutex'[n][i] = mutex'[n][j]
      PROVE  i = j
  <2>1. CASE n = s
    <3>1. i + 1 \in 1 .. Len(mutex[s]) /\ j + 1 \in 1 .. Len(mutex[s]) BY <1>2, <2>1
    <3>2. mutex[s][i + 1] = mutex[s][j + 1] BY <1>2, <1>8, <2>1
    <3>3. i + 1 = j + 1 BY <1>1, <3>1, <3>2 DEF QueuesMatch
    <3> QED BY <3>3
  <2>2. CASE n # s BY <1>2, <1>8, <2>2 DEF QueuesMatch
  <2> QED BY <2>1, <2>2
<1> QED BY <1>6, <1>7, <1>8 DEF QueuesMatch

\* Only asking and ending touch a queue or a place in it.
LEMMA QueuesKept == IInv /\ QueuesMatch /\ [Next]_vars => QueuesMatch'
<1> SUFFICES ASSUME IInv, QueuesMatch, [Next]_vars PROVE QueuesMatch' OBVIOUS
<1>1. ASSUME NEW c \in Client, Create(c) \/ Read(c) PROVE QueuesMatch'
  <2>1. /\ mutex' = mutex
        /\ \A e \in Client \ {c} : pc'[e] = pc[e] /\ req'[e] = req[e]
        /\ pc[c] \in {"idle", "reading"} /\ pc'[c] \in {"idle", "reading", "compiling"}
    BY <1>1 DEF Create, Read, Goto, store, IInv, TypeOK
  <2>2. \A e \in Client, s \in Session : Uses(e, s)' <=> Uses(e, s)
    BY <2>1 DEF Uses, Working
  <2> QED BY <2>1, <2>2, QueuesStand
<1>2. ASSUME NEW c \in Client, Add(c) PROVE QueuesMatch'
  <2>1. /\ mutex' = mutex
        /\ \A e \in Client \ {c} : pc'[e] = pc[e] /\ req'[e] = req[e]
        /\ pc[c] = "compiling" /\ pc'[c] = "idle"
    BY <1>2 DEF Add, Goto, IInv, TypeOK
  <2>2. \A e \in Client, s \in Session : Uses(e, s)' <=> Uses(e, s)
    BY <2>1 DEF Uses, Working
  <2> QED BY <2>1, <2>2, QueuesStand
<1>3. ASSUME NEW c \in Client, Ask(c) PROVE QueuesMatch' BY <1>3, QueuesAsk
<1>4. ASSUME NEW c \in Client, req[c].session \in Session, Holds(c), End(c) PROVE QueuesMatch'
  BY <1>4, QueuesEnd
<1>5. ASSUME NEW c \in Client, Reject(c) \/ Delete(c) PROVE QueuesMatch'
  BY <1>4, <1>5, EntersWithRequest DEF Reject, Refuse, Delete
<1>6. ASSUME NEW c \in Client, pc[c] \in Working, End(c) PROVE QueuesMatch'
  BY <1>4, <1>6, AtWork DEF Holds, Open
<1>7. ASSUME NEW c \in Client, Fail(c) \/ Computed(c) \/ Save(c) PROVE QueuesMatch'
  BY <1>6, <1>7 DEF Fail, Refuse, Computed, Save, Working
<1>8. ASSUME NEW c \in Client, pc[c] \in Working \cup {"waiting"},
             mutex' = mutex, req'[c].session = req[c].session,
             \A e \in Client \ {c} : pc'[e] = pc[e] /\ req'[e] = req[e],
             pc'[c] \in Working
      PROVE  QueuesMatch'
  <2>1. \A e \in Client, s \in Session : Uses(e, s)' <=> Uses(e, s)
    BY <1>8 DEF Uses
  <2> QED BY <1>8, <2>1, QueuesStand
<1>9. ASSUME NEW c \in Client, Compute(c) PROVE QueuesMatch'
  <2>1. PICK entry \in Entries(sessions[req[c].session], req[c].kind) :
            req' = [req EXCEPT ![c].entry = entry]
    BY <1>9 DEF Compute
  <2>2. req[c] \in Request BY <1>9, EntersWithRequest DEF Compute
  <2>3. /\ req'[c].session = req[c].session
        /\ \A e \in Client \ {c} : req'[e] = req[e]
    BY <2>1, <2>2 DEF IInv, TypeOK, Request
  <2> QED BY <1>8, <1>9, <2>3 DEF Compute, Enters, Goto, Working, IInv, TypeOK
<1>10. ASSUME NEW c \in Client, BeginCommit(c) PROVE QueuesMatch'
  BY <1>8, <1>10 DEF BeginCommit, Enters, Goto, Working, IInv, TypeOK
<1>11. ASSUME NEW c \in Client, Check(c) PROVE QueuesMatch'
  <2>1. pc[c] \in Working BY <1>11 DEF Check, Working
  <2>2. CASE Refuse(c) BY <1>6, <2>1, <2>2 DEF Refuse
  <2>3. CASE Goto(c, "saving") /\ UNCHANGED <<workspace, sessions, used, mutex, req>>
    BY <1>8, <2>1, <2>3 DEF Goto, Working, IInv, TypeOK
  <2> QED BY <1>11, <2>2, <2>3 DEF Check
<1>12. ASSUME UNCHANGED <<mutex, pc, req>> PROVE QueuesMatch'
  BY <1>12, QueuesStand DEF Uses
<1>13. ASSUME NEW s \in Session, Get(s) PROVE QueuesMatch' BY <1>12, <1>13 DEF Get
<1>14. CASE Write \/ Pass BY <1>12, <1>14 DEF Write, Pass, store
<1>15. CASE UNCHANGED vars BY <1>12, <1>15 DEF vars, store
<1> QED BY <1>1, <1>2, <1>3, <1>5, <1>7, <1>9, <1>10, <1>11, <1>13, <1>14, <1>15 DEF Next

-----------------------------------------------------------------------------
(* What a step may do to a session *)

\* An open session changes at the end of the request that has its mutex ...
ChangedBy(c, s) ==
    /\ pc[c] \in Working /\ pc'[c] = "idle" /\ Uses(c, s)
    /\ req[c].expected = sessions[s].version
    /\ sessions'[s].version = sessions[s].version + 1

\* ... or is closed by a delete that has it, or because nobody uses it.
ClosedBy(c, s) ==
    Uses(c, s) /\ req[c].kind = "delete" /\ req[c].expected = sessions[s].version

Unneeded(s) == sessions[s].undo = <<>> /\ \A c \in Client : ~Uses(c, s)

LEMMA RecycledIsUnneeded ==
    ASSUME IInv, QueuesMatch, NEW s \in Evicted PROVE Unneeded(s)
<1>1. s \in Session /\ mutex[s] = <<>> /\ 1 .. Len(mutex[s]) = {}
  BY DEF Evicted, Open, IsBusy
<1> QED BY <1>1 DEF Evicted, Unneeded, QueuesMatch

LEMMA StepOfSession ==
    ASSUME IInv, QueuesMatch, Next, NEW s \in Open, sessions'[s] # sessions[s]
    PROVE  \/ sessions'[s] = None /\ Unneeded(s)
           \/ sessions'[s] = None /\ \E c \in Client : ClosedBy(c, s)
           \/ sessions'[s] # None /\ \E c \in Client : ChangedBy(c, s)
<1>1. s \in Session /\ s \in used /\ sessions[s] \in Record /\ sessions[s] # None
  BY OpenIsSound DEF Open
<1>2. sessions'[s] # Kept[s] \/ (sessions'[s] = None /\ Unneeded(s))
  BY <1>1, RecycledIsUnneeded DEF Kept
<1>3. ASSUME NEW c \in Client, Create(c) \/ Add(c)
      PROVE  sessions'[s] = None /\ Unneeded(s)
  <2>1. CASE sessions' \in {sessions, Kept} BY <1>2, <2>1
  <2> DEFINE n == CHOOSE m \in Session \ used : TRUE
  <2>2. CASE Session \ used # {} /\ sessions' = [Kept EXCEPT ![n] = req[c]]
    <3>1. n # s BY <1>1, <2>2
    <3> HIDE DEF n
    <3> QED BY <1>1, <1>2, <2>2, <3>1, KeptIsTyped
  <2> QED BY <1>3, <2>1, <2>2 DEF Create, Add
<1>4. ASSUME NEW c \in Client, Delete(c) PROVE sessions'[s] = None /\ ClosedBy(c, s)
  <2>1. /\ req[c].session \in Open /\ IsCurrent(c) /\ req[c].kind = "delete"
        /\ sessions' = [sessions EXCEPT ![req[c].session] = None] /\ pc[c] = "waiting"
    BY <1>4, BeginsCurrent DEF Delete, Enters
  <2> QED BY <1>1, <2>1 DEF ClosedBy, Uses, IsCurrent, IInv, TypeOK
<1>5. ASSUME NEW c \in Client, pc[c] \in Working, End(c), NEW r \in Record,
             sessions' = [sessions EXCEPT ![req[c].session] = r],
             r.version = sessions[req[c].session].version + 1
      PROVE  sessions'[s] # None /\ ChangedBy(c, s)
  <2>1. IsCurrent(c) /\ pc'[c] = "idle" BY <1>5 DEF IInv, InPlace, Owns, End, Goto, TypeOK
  <2>2. s = req[c].session /\ sessions'[s] = r BY <1>1, <1>5 DEF IInv, TypeOK
  <2>3. r # None BY NoRecordAssumption
  <2> QED BY <1>5, <2>1, <2>2, <2>3 DEF ChangedBy, Uses, IsCurrent
<1>6. ASSUME NEW c \in Client, Computed(c)
      PROVE  sessions'[s] # None /\ ChangedBy(c, s)
  <2> DEFINE own == req[c].session
             old == sessions[own]
             entry == req[c].entry
  <2>1. /\ pc[c] = "computing" /\ End(c)
        /\ \/ UNCHANGED sessions
           \/ /\ req[c].kind = "apply"
              /\ sessions' = [sessions EXCEPT ![own] = Applied(old, entry)]
           \/ req[c].kind = "undo" /\ sessions' = [sessions EXCEPT ![own] = Undone(old, entry)]
           \/ req[c].kind = "redo" /\ sessions' = [sessions EXCEPT ![own] = Redone(old, entry)]
    BY <1>6 DEF Computed
  <2>2. /\ pc[c] \in Working /\ own \in Open /\ old \in Record /\ Sound(old)
        /\ req[c].kind = "apply" => entry \in Entry /\ entry.before = old.document
        /\ req[c].kind = "undo" => old.undo # <<>> /\ entry = Top(old.undo)
        /\ req[c].kind = "redo" => old.redo # <<>> /\ entry = Top(old.redo)
    BY <2>1, AtWork, OpenIsSound DEF Working, IInv, InPlace, Fits
  <2>3. CASE /\ req[c].kind = "apply"
             /\ sessions' = [sessions EXCEPT ![own] = Applied(old, entry)]
    <3>1. Applied(old, entry).version = old.version + 1 BY <2>2 DEF Applied, Record
    <3> QED BY <1>5, <2>1, <2>2, <2>3, <3>1, AppliedIsSound
  <2>4. CASE req[c].kind = "undo" /\ sessions' = [sessions EXCEPT ![own] = Undone(old, entry)]
    <3>1. Undone(old, entry).version = old.version + 1 BY <2>2 DEF Undone, Record
    <3> QED BY <1>5, <2>1, <2>2, <2>4, <3>1, UndoneIsSound
  <2>5. CASE req[c].kind = "redo" /\ sessions' = [sessions EXCEPT ![own] = Redone(old, entry)]
    <3>1. Redone(old, entry).version = old.version + 1 BY <2>2 DEF Redone, Record
    <3> QED BY <1>5, <2>1, <2>2, <2>5, <3>1, RedoneIsSound
  <2> QED BY <2>1, <2>3, <2>4, <2>5
<1>7. ASSUME NEW c \in Client, Save(c)
      PROVE  sessions'[s] # None /\ ChangedBy(c, s)
  <2> DEFINE own == req[c].session
             old == sessions[own]
  <2>1. /\ pc[c] \in Working /\ End(c)
        /\ sessions' \in {sessions, [sessions EXCEPT ![own] = Committed(old)]}
    BY <1>7 DEF Save, Working
  <2>2. old \in Record BY <2>1, AtWork, OpenIsSound
  <2>3. Committed(old).version = old.version + 1 BY <2>2 DEF Committed, Record
  <2> QED BY <1>5, <2>1, <2>2, <2>3, CommittedIsSound
<1> QED BY <1>3, <1>4, <1>6, <1>7 DEF Next, Read, Ask, Reject, Refuse, Fail, Compute,
        BeginCommit, Check, Get, Write, Pass, store

-----------------------------------------------------------------------------
(* The theorems *)

LEMMA InvariantHolds == Spec => []IInv
<1> QED BY Initially, Inductive, PTL DEF Spec

LEMMA QueuesHold == Spec => []QueuesMatch
<1> QED BY QueuesInitially, QueuesKept, InvariantHolds, PTL DEF Spec

\* Sessions, requests and the queue of every mutex stay well formed, for any
\* number of concurrent requests.
THEOREM TypeCorrect == Spec => []TypeOK
<1>1. IInv => TypeOK BY DEF IInv
<1> QED BY <1>1, InvariantHolds, PTL

\* After any number of edits, undos and redos the history of every session leads
\* from its base to the document it shows (apply, undo and redo of
\* correction-session-manager.ts keep it so across their awaits).
THEOREM HistoryConnected == Spec => []HistoryIsConnected
<1>1. IInv => HistoryIsConnected BY DEF IInv
<1> QED BY <1>1, InvariantHolds, PTL

\* Every open session changes only to its next version, at the end of a request
\* that was made for the version before it (requiredVersion, checked once the
\* mutex is held): no request works on a session it has not seen.
THEOREM VersionsAreGuarded == Spec => StaleChangesNothing
<1>1. IInv /\ QueuesMatch /\ [Next]_vars =>
        [\A s \in Open : sessions'[s] \notin {None, sessions[s]} =>
            /\ sessions'[s].version = sessions[s].version + 1
            /\ \E c \in Client : /\ pc[c] \in Working /\ pc'[c] = "idle" /\ Uses(c, s)
                                 /\ req[c].expected = sessions[s].version]_vars
  BY StepOfSession DEF ChangedBy
<1> QED BY <1>1, InvariantHolds, QueuesHold, PTL DEF Spec, StaleChangesNothing

\* No session with unsaved edits or a request in flight is recycled by makeRoom;
\* it goes when it is deleted by the version its client has seen.
THEOREM EditsKept == Spec => EditsAreKept
<1>1. IInv /\ QueuesMatch /\ [Next]_vars =>
        [\A s \in Open : sessions'[s] = None =>
            \/ sessions[s].undo = <<>> /\ \A c \in Client : ~Uses(c, s)
            \/ \E c \in Client : /\ Uses(c, s) /\ req[c].kind = "delete"
                                 /\ req[c].expected = sessions[s].version]_vars
  BY StepOfSession DEF ClosedBy, Unneeded, Open, vars, store
<1> QED BY <1>1, InvariantHolds, QueuesHold, PTL DEF Spec, EditsAreKept

\* Whoever waits for a session's mutex waits for a request in flight on the same
\* session, and everyone in flight has a place (AsyncMutex releases in a
\* finally, so that an operation that throws passes it on too).
THEOREM MutexPassedOn == Spec => []MutexIsPassedOn
<1>1. IInv /\ QueuesMatch => MutexIsPassedOn
  <2> SUFFICES ASSUME IInv, QueuesMatch PROVE MutexIsPassedOn OBVIOUS
  <2>1. ASSUME NEW c \in Client, pc[c] \in Working \cup {"waiting"}
        PROVE  \E i \in 1 .. Len(mutex[req[c].session]) : mutex[req[c].session][i] = c
    <3>1. req[c].session \in Session BY <2>1 DEF IInv, InPlace, Carries, Request
    <3> QED BY <2>1, <3>1 DEF QueuesMatch, Uses
  <2> QED BY <2>1 DEF MutexIsPassedOn, QueuesMatch
<1> QED BY <1>1, InvariantHolds, QueuesHold, PTL

-----------------------------------------------------------------------------
(* How many sessions there are, and what a commit leaves to the session it *)
(* was made from.                                                          *)

\* There is room for the sessions that are open.
Bounded == IsFiniteSet(Open) /\ Cardinality(Open) <= Limit

\* The session that wrote the ledger has an ID that is not given again.
WriterIsUsed == writer \in used \cup {None}

RoomInv == Bounded /\ WriterIsUsed /\ OwnCommitIsBase

LEMMA RoomInitially == Init => RoomInv
<1> SUFFICES ASSUME Init PROVE RoomInv OBVIOUS
<1>1. Open = {} BY DEF Init, Open
<1>2. Bounded BY <1>1, FS_EmptySet, LimitAssumption DEF Bounded
<1> QED BY <1>1, <1>2 DEF Init, RoomInv, WriterIsUsed, OwnCommitIsBase

-----------------------------------------------------------------------------
(* The limit *)

\* A step that opens no session keeps the bound ...
LEMMA FewerAreBounded ==
    ASSUME Bounded, Open' \subseteq Open PROVE Bounded'
<1>1. IsFiniteSet(Open') /\ Cardinality(Open') <= Cardinality(Open)
  BY FS_Subset DEF Bounded
<1>2. Cardinality(Open') \in Nat /\ Cardinality(Open) \in Nat
  BY <1>1, FS_CardinalityType DEF Bounded
<1> QED BY <1>1, <1>2, LimitAssumption DEF Bounded

\* ... and so does one that opens a session where makeRoom has left a place.
LEMMA OneMoreIsBounded ==
    ASSUME Bounded, HasRoom, NEW s, Open' \subseteq (Open \ Evicted) \cup {s} PROVE Bounded'
<1> DEFINE left == Open \ Evicted
           most == left \cup {s}
<1>1. IsFiniteSet(left) BY FS_Subset DEF Bounded
<1>2. Cardinality(left) \in Nat /\ Cardinality(left) < Limit
  BY <1>1, FS_CardinalityType DEF HasRoom
<1>3. IsFiniteSet(most) /\ Cardinality(most) <= Cardinality(left) + 1
  BY <1>1, <1>2, FS_AddElement
<1>4. IsFiniteSet(Open') /\ Cardinality(Open') <= Cardinality(most)
  BY <1>3, FS_Subset
<1>5. Cardinality(Open') \in Nat /\ Cardinality(most) \in Nat
  BY <1>3, <1>4, FS_CardinalityType
<1> HIDE DEF left, most
<1> QED BY <1>2, <1>3, <1>4, <1>5, LimitAssumption DEF Bounded

\* Add is the only step that opens a session.
LEMMA RoomIsKept == ASSUME IInv, Bounded, [Next]_vars PROVE Bounded'
<1>1. CASE \A s \in Session : sessions'[s] # None => sessions[s] # None
  BY <1>1, FewerAreBounded DEF Open
<1>2. ASSUME NEW c \in Client, Add(c) PROVE Bounded'
  <2> DEFINE n == CHOOSE m \in Session \ used : TRUE
  <2>1. CASE sessions' \in {sessions, Kept}
    BY <1>1, <2>1, KeptIsTyped
  <2>2. CASE HasRoom /\ Session \ used # {} /\ sessions' = [Kept EXCEPT ![n] = req[c]]
    <3> HIDE DEF n
    <3>1. ASSUME NEW s \in Open', s # n PROVE s \in Open \ Evicted
      BY <2>2, <3>1, KeptIsTyped DEF Open, Kept
    <3> QED BY <2>2, <3>1, OneMoreIsBounded
  <2> QED BY <1>2, <2>1, <2>2 DEF Add
<1>3. ASSUME NEW c \in Client, Create(c) \/ Delete(c) PROVE Bounded'
  BY <1>1, <1>3, KeptIsTyped DEF Create, Delete, IInv, TypeOK
<1>4. ASSUME NEW c \in Client, Computed(c) \/ Save(c) PROVE Bounded'
  <2>1. pc[c] \in Working /\ \E r : sessions' \in {sessions, [sessions EXCEPT ![req[c].session] = r]}
    BY <1>4 DEF Computed, Save, Working
  <2>2. sessions[req[c].session] # None BY <2>1, AtWork DEF Open
  <2> QED BY <1>1, <2>1, <2>2 DEF IInv, TypeOK
<1>5. CASE UNCHANGED sessions BY <1>1, <1>5
<1> QED BY <1>2, <1>3, <1>4, <1>5 DEF Next, Read, Ask, Reject, Refuse, Fail, Compute,
        BeginCommit, Check, Get, Write, Pass, store, vars

-----------------------------------------------------------------------------
(* The base of the next commit *)

\* What an edit makes of a session leaves its base alone.
LEMMA EditsLeaveTheBase ==
    ASSUME NEW r \in Record, NEW entry
    PROVE  /\ Applied(r, entry).base = r.base /\ Applied(r, entry).authority = r.authority
           /\ Undone(r, entry).base = r.base /\ Undone(r, entry).authority = r.authority
           /\ Redone(r, entry).base = r.base /\ Redone(r, entry).authority = r.authority
<1> QED BY DEF Applied, Undone, Redone, Record

\* A step that writes no ledger keeps it, when it leaves the base of every open
\* session that was open.
LEMMA BaseStays ==
    ASSUME WriterIsUsed, OwnCommitIsBase, UNCHANGED <<ledger, writer>>, used \subseteq used',
           \A s \in Open' \cap used :
              /\ s \in Open
              /\ sessions'[s].base = sessions[s].base
              /\ sessions'[s].authority = sessions[s].authority
    PROVE  WriterIsUsed' /\ OwnCommitIsBase'
<1>1. None \notin Open' BY NoneAssumption DEF Open
<1> QED BY <1>1 DEF WriterIsUsed, OwnCommitIsBase

LEMMA BaseIsKept ==
    ASSUME IInv, WriterIsUsed, OwnCommitIsBase, [Next]_vars
    PROVE  WriterIsUsed' /\ OwnCommitIsBase'
<1>1. CASE UNCHANGED <<sessions, used, ledger, writer>>
  BY <1>1, BaseStays DEF Open
<1>2. CASE /\ UNCHANGED <<ledger, writer, used>>
           /\ \A s \in Session : sessions'[s] \in {sessions[s], None}
  BY <1>2, BaseStays DEF Open
<1>3. ASSUME NEW c \in Client, Add(c) PROVE WriterIsUsed' /\ OwnCommitIsBase'
  <2> DEFINE n == CHOOSE m \in Session \ used : TRUE
  <2>1. CASE sessions' \in {sessions, Kept} /\ used' = used
    BY <1>2, <1>3, <2>1, KeptIsTyped DEF Add, workspace
  <2>2. CASE /\ Session \ used # {} /\ sessions' = [Kept EXCEPT ![n] = req[c]]
             /\ used' = used \cup {n}
    <3>1. n \notin used BY <2>2
    <3> HIDE DEF n
    <3>2. ASSUME NEW s \in Open' \cap used PROVE s \in Open /\ sessions'[s] = sessions[s]
      BY <2>2, <3>1, <3>2, KeptIsTyped DEF Open
    <3> QED BY <1>3, <2>2, <3>2, BaseStays DEF Add, workspace
  <2> QED BY <1>3, <2>1, <2>2 DEF Add
<1>4. ASSUME NEW c \in Client, Create(c) PROVE WriterIsUsed' /\ OwnCommitIsBase'
  BY <1>2, <1>4, KeptIsTyped DEF Create, workspace
<1>5. ASSUME NEW c \in Client, Delete(c) PROVE WriterIsUsed' /\ OwnCommitIsBase'
  BY <1>2, <1>5 DEF Delete, workspace, IInv, TypeOK
<1>6. ASSUME NEW c \in Client, Computed(c) PROVE WriterIsUsed' /\ OwnCommitIsBase'
  <2> DEFINE own == req[c].session
             old == sessions[own]
             entry == req[c].entry
  <2>1. own \in Open /\ own \in Session /\ old \in Record
    BY <1>6, AtWork, OpenIsSound DEF Computed, Working
  <2>2. UNCHANGED <<ledger, writer, used>>
        /\ sessions' \in {sessions, [sessions EXCEPT ![own] = Applied(old, entry)],
                          [sessions EXCEPT ![own] = Undone(old, entry)],
                          [sessions EXCEPT ![own] = Redone(old, entry)]}
    BY <1>6 DEF Computed, workspace
  <2>3. sessions \in [Session -> Record \cup {None}] BY DEF IInv, TypeOK
  <2> HIDE DEF own, entry
  <2>4. ASSUME NEW s \in Open'
        PROVE  /\ s \in Open /\ sessions'[s].base = sessions[s].base
               /\ sessions'[s].authority = sessions[s].authority
    <3>1. CASE s = own BY <2>1, <2>2, <2>3, <3>1, EditsLeaveTheBase
    <3>2. CASE s # own BY <2>2, <2>3, <2>4, <3>2 DEF Open
    <3> QED BY <3>1, <3>2
  <2> QED BY <2>2, <2>4, BaseStays
<1>7. ASSUME NEW c \in Client, Save(c) PROVE WriterIsUsed' /\ OwnCommitIsBase'
  <2> DEFINE own == req[c].session
             old == sessions[own]
  <2>1. own \in Session /\ own \in used /\ old \in Record
    BY <1>7, AtWork, OpenIsSound DEF Save, Working
  <2>2. CASE writer' = own /\ sessions' = [sessions EXCEPT ![own] = Committed(old)]
    <3>1. sessions'[own] = Committed(old) BY <2>1, <2>2 DEF IInv, TypeOK
    <3>2. Committed(old).base = old.document /\ Committed(old).authority = Target(old)
      BY <2>1 DEF Committed, Record
    <3>3. ledger' = [document |-> old.document, authority |-> Target(old)] /\ used' = used
      BY <1>7 DEF Save
    <3> QED BY <2>1, <2>2, <3>1, <3>2, <3>3 DEF WriterIsUsed, OwnCommitIsBase
  <2>3. CASE writer' = None
    BY <2>3, NoneAssumption DEF WriterIsUsed, OwnCommitIsBase, Open
  <2> QED BY <1>7, <2>2, <2>3 DEF Save
<1>8. CASE Write
  BY <1>8, NoneAssumption DEF Write, WriterIsUsed, OwnCommitIsBase, Open
<1> QED BY <1>1, <1>3, <1>4, <1>5, <1>6, <1>7, <1>8 DEF Next, Read, Ask, Reject, Refuse, Fail,
        Compute, BeginCommit, Check, Get, Pass, store, workspace, vars

-----------------------------------------------------------------------------
LEMMA RoomInductive == IInv /\ RoomInv /\ [Next]_vars => RoomInv'
<1> QED BY RoomIsKept, BaseIsKept DEF RoomInv

\* However many sessions are created at once, there are never more than the limit, since
\* sessions.add looks again after the awaits of create; and a session whose commit succeeded
\* is on the ledger it wrote, through edits and undos, until somebody else writes one.
THEOREM RoomAndBase == Spec => []RoomAndBaseHold
<1>1. RoomInv => RoomAndBaseHold BY DEF RoomInv, Bounded, RoomAndBaseHold, LimitHolds
<1> QED BY <1>1, RoomInitially, RoomInductive, InvariantHolds, PTL DEF Spec

=============================================================================
