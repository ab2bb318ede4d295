------------------------- MODULE RevisionStoreProofs -------------------------
(***************************************************************************)
(* RevisionStore implements RevisionChain, for any number of clients,      *)
(* games and documents, and whatever transactions fail; the catalog that   *)
(* imports share is complete, and its locks have one order but for teams.  *)
(***************************************************************************)
EXTENDS RevisionStore, FiniteSetTheorems, WellFoundedInduction, TLAPS

\* Steps of a transaction that holds its game's row.
Held == {"season", "away", "home", "players", "choices", "commit"}

TypeInv ==
    /\ current \in [Game -> Nat]
    /\ revisions \in [Game -> SUBSET [revision : Nat, document : Document]]
    /\ pc \in [Client -> Working \cup {"idle"}]
    /\ doc \in [Client -> Document \cup {None}] /\ revision \in [Client -> Nat]
    /\ row \in [Game -> Client \cup {None}]

HasDocument == \A c \in Client : pc[c] # "idle" => doc[c] \in Document

\* A transaction past its check holds the row, and what it checked still holds.
HeldRow == \A c \in Client : pc[c] \in Held =>
    /\ row[GameOf(c)] = c
    /\ revision[c] = current[GameOf(c)] + 1
    /\ IsFromCurrent(GameOf(c), doc[c])

\* One that found no row goes on only if there is still none.
NewGame == \A c \in Client : pc[c] = "insert" => revision[c] = 1 /\ Base[doc[c]] = None

IInv == TypeInv /\ HasDocument /\ HeldRow /\ NewGame /\ RevisionsAreNumbered

-----------------------------------------------------------------------------

LEMMA GameOfDocument ==
    ASSUME HasDocument, NEW c \in Client, pc[c] # "idle"
    PROVE  GameOf(c) \in Game
  BY LedgerAssumption DEF HasDocument, GameOf

LEMMA InitInv == Init => IInv
<1> SUFFICES ASSUME Init PROVE IInv OBVIOUS
<1>1. /\ revisions \in [Game -> SUBSET {Chain!Sealed(1, d) : d \in Document}]
      /\ \A h \in Game : \A r, s \in revisions[h] : r = s
      /\ current = [h \in Game |-> IF revisions[h] = {} THEN 0 ELSE 1]
  BY DEF Init, Chain!Init
<1>2. TypeInv
  BY <1>1 DEF TypeInv, Init, Working, Chain!Sealed
<1>3. RevisionsAreNumbered
  <2> SUFFICES ASSUME NEW g \in Game
               PROVE  /\ {r.revision : r \in revisions[g]} = 1 .. current[g]
                      /\ \A r, s \in revisions[g] : r.revision = s.revision => r = s
    BY DEF RevisionsAreNumbered
  <2>1. \A r \in revisions[g] : r.revision = 1
    BY <1>1 DEF Chain!Sealed
  <2>2. CASE revisions[g] = {}
    <3>1. current[g] = 0 BY <1>1, <2>2
    <3>2. 1 .. current[g] = {} BY <3>1
    <3> QED BY <2>2, <3>2
  <2>3. CASE revisions[g] # {}
    <3>1. current[g] = 1 BY <1>1, <2>3
    <3>2. 1 .. current[g] = {1} BY <3>1
    <3>3. {r.revision : r \in revisions[g]} = {1} BY <2>1, <2>3
    <3> QED BY <1>1, <3>2, <3>3
  <2> QED BY <2>2, <2>3
<1> QED BY <1>2, <1>3 DEF IInv, Init, HasDocument, HeldRow, NewGame, Held

\* What a step that commits nothing must keep of another transaction.
LEMMA Bystander ==
    ASSUME IInv, NEW c \in Client, NEW x \in Client, x # c,
           UNCHANGED <<current, revisions>>,
           pc'[x] = pc[x], doc'[x] = doc[x], revision'[x] = revision[x],
           \A g \in Game : row[g] = x => row'[g] = x
    PROVE  /\ pc'[x] # "idle" => doc'[x] \in Document
           /\ pc'[x] \in Held =>
                 /\ row'[GameOf(x)'] = x
                 /\ revision'[x] = current'[GameOf(x)'] + 1
                 /\ IsFromCurrent(GameOf(x), doc[x])'
           /\ pc'[x] = "insert" => revision'[x] = 1 /\ Base[doc'[x]] = None
<1>1. GameOf(x)' = GameOf(x) BY DEF GameOf
<1>2. pc[x] \in Held => GameOf(x) \in Game
  BY GameOfDocument DEF IInv, Held
<1> QED BY <1>1, <1>2 DEF IInv, HasDocument, HeldRow, NewGame, IsFromCurrent

\* An import that ends without COMMIT leaves nothing behind.
LEMMA RollbackInv ==
    ASSUME IInv, NEW c \in Client, Rollback(c)
    PROVE  IInv'
<1>1. UNCHANGED <<current, revisions, doc, revision>> /\ pc' = [pc EXCEPT ![c] = "idle"]
  BY DEF Rollback, Goto, committed
<1>2. row' = [g \in Game |-> IF row[g] = c THEN None ELSE row[g]]
  BY DEF Rollback, Release
<1>3. TypeInv' BY <1>1, <1>2 DEF IInv, TypeInv
<1>4. \A x \in Client : x # c =>
          /\ pc'[x] = pc[x] /\ \A g \in Game : row[g] = x => row'[g] = x
  BY <1>1, <1>2 DEF IInv, TypeInv
<1>5. pc'[c] = "idle" BY <1>1 DEF IInv, TypeInv
<1>6. HasDocument' /\ HeldRow' /\ NewGame'
  BY <1>1, <1>4, <1>5, Bystander DEF HasDocument, HeldRow, NewGame, Held
<1> QED BY <1>1, <1>3, <1>6 DEF IInv, RevisionsAreNumbered

\* A step inside a transaction that neither takes a row nor commits.
LEMMA InsideInv ==
    ASSUME IInv, NEW c \in Client, UNCHANGED <<current, revisions, doc, revision, row>>,
           NEW step \in Working, pc' = [pc EXCEPT ![c] = step],
           pc[c] # "idle", step \in Held => pc[c] \in Held, step # "insert"
    PROVE  IInv'
<1>1. TypeInv' BY DEF IInv, TypeInv
<1>2. \A x \in Client : x # c => pc'[x] = pc[x]
  BY DEF IInv, TypeInv
<1>3. pc'[c] = step BY DEF IInv, TypeInv
<1>4. \A x \in Client : GameOf(x)' = GameOf(x)
  BY DEF GameOf
<1>5. HasDocument' /\ HeldRow' /\ NewGame'
  BY <1>2, <1>3, <1>4 DEF IInv, HasDocument, HeldRow, NewGame, IsFromCurrent
<1> QED BY <1>1, <1>5 DEF IInv, RevisionsAreNumbered

LEMMA LockGameInv ==
    ASSUME IInv, NEW c \in Client, LockGame(c)
    PROVE  IInv'
<1> DEFINE g == GameOf(c)
<1>g. g \in Game /\ pc[c] = "lock" /\ doc[c] \in Document
  BY GameOfDocument DEF LockGame, IInv, HasDocument
<1>1. CASE Rollback(c) BY <1>1, RollbackInv
<1>2. CASE /\ IsFromCurrent(g, doc[c])
           /\ revision' = [revision EXCEPT ![c] = current[g] + 1]
           /\ current[g] = 0 /\ Goto(c, "insert") /\ UNCHANGED row
           /\ UNCHANGED <<committed, doc>>
  <2>1. UNCHANGED <<current, revisions>> BY <1>2 DEF committed
  <2>2. TypeInv' BY <1>2, <1>g, <2>1 DEF IInv, TypeInv, Goto, Working
  <2>3. /\ pc'[c] = "insert" /\ revision'[c] = 1
        /\ \A x \in Client : x # c => pc'[x] = pc[x] /\ revision'[x] = revision[x]
    BY <1>2, <1>g DEF IInv, TypeInv, Goto
  <2>4. Base[doc'[c]] = None BY <1>2 DEF IsFromCurrent
  <2>5. HasDocument' /\ HeldRow' /\ NewGame'
    BY <1>2, <1>g, <2>1, <2>3, <2>4, Bystander DEF HasDocument, HeldRow, NewGame, Held
  <2> QED BY <2>1, <2>2, <2>5 DEF IInv, RevisionsAreNumbered
<1>3. CASE /\ IsFromCurrent(g, doc[c])
           /\ revision' = [revision EXCEPT ![c] = current[g] + 1]
           /\ current[g] # 0 /\ Goto(c, "season") /\ row' = [row EXCEPT ![g] = c]
           /\ UNCHANGED <<committed, doc>> /\ Free(c)
  <2>1. UNCHANGED <<current, revisions>> BY <1>3 DEF committed
  <2>2. TypeInv' BY <1>3, <1>g, <2>1 DEF IInv, TypeInv, Goto, Working
  <2>3. /\ pc'[c] = "season" /\ revision'[c] = current[g] + 1 /\ row'[g] = c
        /\ \A x \in Client : x # c => pc'[x] = pc[x] /\ revision'[x] = revision[x]
    BY <1>3, <1>g DEF IInv, TypeInv, Goto
  <2>4. row[g] \in {None, c} BY <1>3, <1>g DEF Free, Awaited, Upserting
  <2>5. \A x \in Client : x # c => \A h \in Game : row[h] = x => row'[h] = x
    BY <1>3, <2>4, NoneAssumption DEF IInv, TypeInv
  <2>6. GameOf(c)' = g BY <1>3 DEF GameOf
  <2>7. IsFromCurrent(g, doc[c])' BY <1>3, <2>1, <2>6 DEF IsFromCurrent
  <2>8. HasDocument' /\ HeldRow' /\ NewGame'
    BY <1>3, <1>g, <2>1, <2>3, <2>5, <2>6, <2>7, Bystander
    DEF HasDocument, HeldRow, NewGame, Held
  <2> QED BY <2>1, <2>2, <2>8 DEF IInv, RevisionsAreNumbered
<1> QED BY <1>1, <1>2, <1>3 DEF LockGame

LEMMA InsertGameInv ==
    ASSUME IInv, NEW c \in Client, InsertGame(c)
    PROVE  IInv'
<1> DEFINE g == GameOf(c)
<1>g. g \in Game /\ pc[c] = "insert" /\ doc[c] \in Document
  BY GameOfDocument DEF InsertGame, IInv, HasDocument
<1>1. CASE Rollback(c) BY <1>1, RollbackInv
<1>2. CASE /\ current[g] = 0 /\ row' = [row EXCEPT ![g] = c] /\ Goto(c, "season")
           /\ UNCHANGED <<committed, doc, revision>> /\ Free(c)
  <2>1. UNCHANGED <<current, revisions>> BY <1>2 DEF committed
  <2>2. TypeInv' BY <1>2, <1>g, <2>1 DEF IInv, TypeInv, Goto, Working
  <2>3. /\ pc'[c] = "season" /\ row'[g] = c
        /\ \A x \in Client : x # c => pc'[x] = pc[x]
    BY <1>2, <1>g DEF IInv, TypeInv, Goto
  <2>4. row[g] \in {None, c} BY <1>2, <1>g DEF Free, Awaited, Upserting
  <2>5. \A x \in Client : x # c => \A h \in Game : row[h] = x => row'[h] = x
    BY <1>2, <2>4, NoneAssumption DEF IInv, TypeInv
  <2>6. GameOf(c)' = g BY <1>2 DEF GameOf
  <2>7. revision[c] = current[g] + 1 /\ IsFromCurrent(g, doc[c])'
    BY <1>2, <1>g, <2>1, <2>6 DEF IsFromCurrent, IInv, NewGame
  <2>8. HasDocument' /\ HeldRow' /\ NewGame'
    BY <1>2, <1>g, <2>1, <2>3, <2>5, <2>6, <2>7, Bystander
    DEF HasDocument, HeldRow, NewGame, Held
  <2> QED BY <2>1, <2>2, <2>8 DEF IInv, RevisionsAreNumbered
<1> QED BY <1>1, <1>2 DEF InsertGame

\* COMMIT appends to the chain.
LEMMA CommitAppends ==
    ASSUME IInv, NEW c \in Client, Commit(c)
    PROVE  Chain!Append(GameOf(c), doc[c])
<1>1. GameOf(c) \in Game /\ pc[c] = "commit"
  BY GameOfDocument DEF Commit, IInv
<1>2. revision[c] = current[GameOf(c)] + 1 /\ IsFromCurrent(GameOf(c), doc[c])
  BY <1>1 DEF IInv, HeldRow, Held
<1>3. Chain!IsNext(GameOf(c), doc[c])
  BY <1>2 DEF Chain!IsNext, IsFromCurrent
<1> QED BY <1>1, <1>2, <1>3 DEF Chain!Append, Commit, IInv, TypeInv, Sealed, Chain!Sealed

\* A chain stays numbered when it grows.
LEMMA AppendNumbered ==
    ASSUME TypeInv, RevisionsAreNumbered, NEW g \in Game, NEW d \in Document,
           current' = [current EXCEPT ![g] = @ + 1],
           revisions' = [revisions EXCEPT ![g] = @ \cup {Sealed(current[g] + 1, d)}]
    PROVE  RevisionsAreNumbered'
<1> SUFFICES ASSUME NEW h \in Game
             PROVE  /\ {r.revision : r \in revisions'[h]} = 1 .. current'[h]
                    /\ \A r, s \in revisions'[h] : r.revision = s.revision => r = s
  BY DEF RevisionsAreNumbered
<1>1. /\ {r.revision : r \in revisions[h]} = 1 .. current[h]
      /\ \A r, s \in revisions[h] : r.revision = s.revision => r = s
  BY DEF RevisionsAreNumbered
<1>2. CASE h # g
  <2>1. revisions'[h] = revisions[h] /\ current'[h] = current[h]
    BY <1>2 DEF TypeInv
  <2> QED BY <1>1, <2>1
<1>3. CASE h = g
  <2> DEFINE n == current[g]
  <2>1. n \in Nat /\ current'[h] = n + 1 BY <1>3 DEF TypeInv
  <2>2. revisions'[h] = revisions[h] \cup {Sealed(n + 1, d)} BY <1>3 DEF TypeInv
  <2>3. Sealed(n + 1, d).revision = n + 1 BY DEF Sealed
  <2>4. {r.revision : r \in revisions'[h]} = {r.revision : r \in revisions[h]} \cup {n + 1}
    BY <2>2, <2>3
  <2>5. {r.revision : r \in revisions[h]} = 1 .. n BY <1>1, <1>3
  <2>6. (1 .. n) \cup {n + 1} = 1 .. (n + 1) BY <2>1
  <2>7. \A r \in revisions[h] : r.revision \in 1 .. n BY <2>5
  <2>8. \A r \in revisions[h] : r.revision # n + 1 BY <2>7, <2>1
  <2>9. \A r, s \in revisions'[h] : r.revision = s.revision => r = s
    BY <1>1, <2>2, <2>3, <2>8
  <2> QED BY <2>1, <2>4, <2>5, <2>6, <2>9
<1> QED BY <1>2, <1>3

LEMMA CommitInv ==
    ASSUME IInv, NEW c \in Client, Commit(c)
    PROVE  IInv'
<1> DEFINE g == GameOf(c)
<1>g. /\ g \in Game /\ pc[c] = "commit" /\ doc[c] \in Document /\ row[g] = c
      /\ revision[c] = current[g] + 1
  BY GameOfDocument DEF Commit, IInv, HasDocument, HeldRow, Held
<1>1. /\ current' = [current EXCEPT ![g] = @ + 1]
      /\ revisions' = [revisions EXCEPT ![g] = @ \cup {Sealed(current[g] + 1, doc[c])}]
  BY <1>g DEF Commit, IInv, TypeInv
<1>2. RevisionsAreNumbered'
  BY <1>g, <1>1, AppendNumbered DEF IInv
<1>3. UNCHANGED <<doc, revision>> /\ pc' = [pc EXCEPT ![c] = "idle"]
  BY DEF Commit, Goto
<1>4. row' = [h \in Game |-> IF row[h] = c THEN None ELSE row[h]]
  BY DEF Commit, Release
<1>5. TypeInv'
  <2>1. Sealed(current[g] + 1, doc[c]) \in [revision : Nat, document : Document]
    BY <1>g DEF Sealed, IInv, TypeInv
  <2>2. current' \in [Game -> Nat] BY <1>g, <1>1 DEF IInv, TypeInv
  <2>3. revisions' \in [Game -> SUBSET [revision : Nat, document : Document]]
    BY <1>g, <1>1, <2>1 DEF IInv, TypeInv
  <2> QED BY <1>3, <1>4, <2>2, <2>3 DEF IInv, TypeInv
<1>6. pc'[c] = "idle" /\ \A x \in Client : x # c => pc'[x] = pc[x]
  BY <1>3 DEF IInv, TypeInv
<1>7. \A x \in Client : GameOf(x)' = GameOf(x)
  BY <1>3 DEF GameOf
<1>8. HasDocument' /\ NewGame'
  BY <1>3, <1>6 DEF IInv, HasDocument, NewGame
<1>9. HeldRow'
  <2> SUFFICES ASSUME NEW x \in Client, pc'[x] \in Held
               PROVE  /\ row'[GameOf(x)'] = x
                      /\ revision'[x] = current'[GameOf(x)'] + 1
                      /\ IsFromCurrent(GameOf(x), doc[x])'
    BY DEF HeldRow
  <2>1. x # c /\ pc[x] \in Held BY <1>6 DEF Held
  <2>2. GameOf(x) \in Game BY <2>1, GameOfDocument DEF IInv, Held
  <2>3. row[GameOf(x)] = x /\ revision[x] = current[GameOf(x)] + 1
        /\ IsFromCurrent(GameOf(x), doc[x])
    BY <2>1 DEF IInv, HeldRow
  <2>4. GameOf(x) # g BY <1>g, <2>1, <2>3
  <2>5. /\ current'[GameOf(x)] = current[GameOf(x)]
        /\ revisions'[GameOf(x)] = revisions[GameOf(x)]
    BY <1>1, <2>2, <2>4 DEF IInv, TypeInv
  <2> QED BY <1>3, <1>4, <1>7, <2>1, <2>2, <2>3, <2>5 DEF IsFromCurrent
<1> QED BY <1>2, <1>5, <1>8, <1>9 DEF IInv

LEMMA ImportInv ==
    ASSUME IInv, NEW c \in Client, Import(c)
    PROVE  IInv'
<1>1. /\ UNCHANGED <<current, revisions, revision, row>> /\ pc[c] = "idle"
      /\ pc' = [pc EXCEPT ![c] = "heights"]
  BY DEF Import, committed, Goto, locks
<1>2. PICK d \in Document : doc' = [doc EXCEPT ![c] = d] BY DEF Import
<1>3. TypeInv' BY <1>1, <1>2 DEF IInv, TypeInv, Working
<1>4. /\ pc'[c] = "heights" /\ doc'[c] \in Document
      /\ \A x \in Client : x # c => pc'[x] = pc[x] /\ doc'[x] = doc[x]
  BY <1>1, <1>2 DEF IInv, TypeInv
<1>5. HasDocument' /\ HeldRow' /\ NewGame'
  BY <1>1, <1>4, Bystander DEF HasDocument, HeldRow, NewGame, Held
<1> QED BY <1>1, <1>3, <1>5 DEF IInv, RevisionsAreNumbered

\* Every step preserves the invariant.
LEMMA NextInv == IInv /\ [Next]_vars => IInv'
<1> SUFFICES ASSUME IInv, [Next]_vars PROVE IInv' OBVIOUS
<1>1. CASE UNCHANGED vars
  BY <1>1 DEF vars, committed, locks, IInv, TypeInv, HasDocument, HeldRow, NewGame,
     GameOf, IsFromCurrent, RevisionsAreNumbered
<1>2. ASSUME NEW c \in Client, Import(c) PROVE IInv' BY <1>2, ImportInv
<1>3. ASSUME NEW c \in Client, WriteHeights(c) PROVE IInv'
  <2>1. /\ UNCHANGED <<current, revisions, doc, revision, row>> /\ pc[c] = "heights"
        /\ pc' = [pc EXCEPT ![c] = "lock"]
    BY <1>3 DEF WriteHeights, committed, Goto
  <2> QED BY <2>1, InsideInv DEF Held, Working
<1>4. ASSUME NEW c \in Client, LockGame(c) PROVE IInv' BY <1>4, LockGameInv
<1>5. ASSUME NEW c \in Client, InsertGame(c) PROVE IInv' BY <1>5, InsertGameInv
<1>6. ASSUME NEW c \in Client, Upsert(c) PROVE IInv'
  <2>1. UNCHANGED <<current, revisions, doc, revision, row>>
    BY <1>6 DEF Upsert, committed
  <2>2. pc[c] \in {"season", "away", "home", "players"}
    BY <1>6 DEF Upsert, Upserting
  <2>3. \E step \in {"away", "home", "players"} : pc' = [pc EXCEPT ![c] = step]
    <3>1. CASE pc[c] = "players"
      <4>1. pc' = pc BY <1>6, <3>1 DEF Upsert
      <4> QED BY <3>1, <4>1 DEF IInv, TypeInv
    <3>2. CASE pc[c] # "players"
      BY <1>6, <3>2 DEF Upsert, Goto
    <3> QED BY <3>1, <3>2
  <2> QED BY <2>1, <2>2, <2>3, InsideInv DEF Held, Working
<1>7. ASSUME NEW c \in Client, Write(c) PROVE IInv'
  <2>1. /\ UNCHANGED <<current, revisions, doc, revision, row>> /\ pc[c] = "players"
        /\ pc' = [pc EXCEPT ![c] = "choices"]
    BY <1>7 DEF Write, committed, Goto, locks
  <2> QED BY <2>1, InsideInv DEF Held, Working
<1>8. ASSUME NEW c \in Client, ResolveHeights(c) PROVE IInv'
  <2>1. /\ UNCHANGED <<current, revisions, doc, revision, row>> /\ pc[c] = "choices"
        /\ pc' = [pc EXCEPT ![c] = "commit"]
    BY <1>8 DEF ResolveHeights, committed, Goto
  <2> QED BY <2>1, InsideInv DEF Held, Working
<1>9. ASSUME NEW c \in Client, Commit(c) PROVE IInv' BY <1>9, CommitInv
<1>10. ASSUME NEW c \in Client, EndDeadlock(c) \/ Fail(c) PROVE IInv'
  BY <1>10, RollbackInv DEF EndDeadlock, Fail
<1> QED BY <1>1, <1>2, <1>3, <1>4, <1>5, <1>6, <1>7, <1>8, <1>9, <1>10 DEF Next, Step

LEMMA Invariance == Spec => []IInv
  BY InitInv, NextInv, PTL DEF Spec

-----------------------------------------------------------------------------

\* The revisions of a game are numbered without a gap or a duplicate, however
\* imports of it interleave (importRevision under FOR UPDATE).
THEOREM Numbered == Spec => []RevisionsAreNumbered
<1>1. IInv => RevisionsAreNumbered BY DEF IInv
<1> QED BY <1>1, Invariance, PTL

\* Outside COMMIT nothing committed changes.
LEMMA OnlyCommit ==
    ASSUME [Next]_vars, \A c \in Client : ~Commit(c)
    PROVE  UNCHANGED <<current, revisions>>
<1>1. CASE UNCHANGED vars BY <1>1 DEF vars, committed
<1>2. CASE Next
  BY <1>2 DEF Next, Step, Import, WriteHeights, LockGame, InsertGame, Upsert, Write,
     ResolveHeights, EndDeadlock, Fail, Rollback, committed
<1> QED BY <1>1, <1>2

\* importRevision only appends to a game's chain of revisions, and only a
\* document made from the current one.
THEOREM ImplementsChain == Spec => ChainSpec
<1>1. Init => Chain!Init BY DEF Init
<1>2. IInv /\ [Next]_vars => [Chain!Next]_(Chain!chain)
  <2> SUFFICES ASSUME IInv, [Next]_vars PROVE [Chain!Next]_(Chain!chain) OBVIOUS
  <2>1. CASE \E c \in Client : Commit(c)
    <3>1. PICK c \in Client : Commit(c) BY <2>1
    <3>2. GameOf(c) \in Game /\ doc[c] \in Document
      BY <3>1, GameOfDocument DEF Commit, IInv, HasDocument
    <3>3. Chain!Append(GameOf(c), doc[c]) BY <3>1, CommitAppends
    <3> QED BY <3>2, <3>3 DEF Chain!Next
  <2>2. CASE \A c \in Client : ~Commit(c)
    BY <2>2, OnlyCommit DEF Chain!chain
  <2> QED BY <2>1, <2>2
<1> QED BY <1>1, <1>2, Invariance, PTL DEF Spec, ChainSpec, Chain!Spec

\* A revision that importRevision has returned stays sealed with its document,
\* as long as the client does not begin another import.
THEOREM Answered == Spec => []AnsweredIsSealed
<1> DEFINE A == IInv /\ (answer \in [Client -> [revision : Nat, document : Document]
                                          \cup {None, Failed}]) /\ AnsweredIsSealed
<1>1. Init => A
  BY InitInv DEF Init, AnsweredIsSealed
<1>2. A /\ IInv' /\ [Next]_vars => A'
  <2> SUFFICES ASSUME A, IInv', [Next]_vars PROVE A' OBVIOUS
  <2>1. CASE \E c \in Client : Commit(c)
    <3>1. PICK c \in Client : Commit(c) BY <2>1
    <3>2. GameOf(c) \in Game /\ doc[c] \in Document
      BY <3>1, GameOfDocument DEF Commit, IInv, HasDocument
    <3>3. UNCHANGED doc /\ \A x \in Client : GameOf(x)' = GameOf(x)
      BY <3>1 DEF Commit, GameOf
    <3>4. \A g \in Game : revisions[g] \subseteq revisions'[g]
      BY <3>1 DEF Commit, IInv, TypeInv
    <3>5. Sealed(revision[c], doc[c]) \in revisions'[GameOf(c)]
      BY <3>1, <3>2 DEF Commit, IInv, TypeInv
    <3>6. Sealed(revision[c], doc[c]) \in [revision : Nat, document : Document]
      BY <3>2 DEF Sealed, IInv, TypeInv
    <3>7. \/ answer' = [answer EXCEPT ![c] = Sealed(revision[c], doc[c])]
          \/ answer' = [answer EXCEPT ![c] = Failed]
      BY <3>1 DEF Commit
    <3>8. answer' \in [Client -> [revision : Nat, document : Document] \cup {None, Failed}]
      BY <3>6, <3>7
    <3>9. ASSUME NEW x \in Client, answer'[x] \notin {None, Failed}
          PROVE  answer'[x] \in revisions'[GameOf(x)']
      <4>1. CASE x = c BY <3>3, <3>5, <3>7, <3>9, <4>1
      <4>2. CASE x # c
        <5>1. answer'[x] = answer[x] BY <3>7, <4>2
        <5>2. answer[x] \in revisions[GameOf(x)] BY <3>9, <5>1 DEF AnsweredIsSealed
        <5> QED BY <3>1, <3>3, <3>4, <5>1, <5>2 DEF Commit, IInv, TypeInv
      <4> QED BY <4>1, <4>2
    <3> QED BY <3>8, <3>9 DEF AnsweredIsSealed
  <2>2. CASE \A c \in Client : ~Commit(c)
    <3>1. UNCHANGED revisions BY <2>2, OnlyCommit
    <3>2. \/ UNCHANGED <<answer, doc>>
          \/ \E c \in Client : answer' = [answer EXCEPT ![c] = None]
                 /\ \A x \in Client \ {c} : doc'[x] = doc[x]
          \/ \E c \in Client : answer' = [answer EXCEPT ![c] = Failed] /\ UNCHANGED doc
      <4>1. CASE UNCHANGED vars BY <4>1 DEF vars
      <4>2. ASSUME NEW c \in Client, Import(c)
            PROVE  answer' = [answer EXCEPT ![c] = None]
                   /\ \A x \in Client \ {c} : doc'[x] = doc[x]
        BY <4>2 DEF Import, IInv, TypeInv
      <4>3. ASSUME NEW c \in Client, Rollback(c)
            PROVE  answer' = [answer EXCEPT ![c] = Failed] /\ UNCHANGED doc
        BY <4>3 DEF Rollback
      <4>4. ASSUME NEW c \in Client, Step(c) \/ Fail(c), ~Rollback(c)
            PROVE  UNCHANGED <<answer, doc>>
        BY <2>2, <4>4 DEF Step, WriteHeights, LockGame, InsertGame, Upsert, Write,
           ResolveHeights, EndDeadlock, Fail
      <4> QED BY <4>1, <4>2, <4>3, <4>4 DEF Next
    <3>3. answer' \in [Client -> [revision : Nat, document : Document] \cup {None, Failed}]
      BY <3>2
    <3>4. ASSUME NEW x \in Client, answer'[x] \notin {None, Failed}
          PROVE  answer'[x] = answer[x] /\ doc'[x] = doc[x]
      BY <3>2, <3>4
    <3> QED BY <3>1, <3>3, <3>4 DEF AnsweredIsSealed, GameOf
  <2> QED BY <2>1, <2>2
<1>3. A => AnsweredIsSealed OBVIOUS
<1> QED BY <1>1, <1>2, <1>3, Invariance, PTL DEF Spec

-----------------------------------------------------------------------------
(* The catalog *)

LockTypes ==
    /\ catalog \in SUBSET Key /\ left \in [Client -> SUBSET Player]
    /\ inserted \in [Key -> Client \cup {None}]
    /\ bundleLock \in [Bundle -> Client \cup {None}] /\ choices \in Client \cup {None}

PastAway == {"home", "players", "choices", "commit"}
PastHome == {"players", "choices", "commit"}

\* A transaction has inserted the rows its step is past, players in order.
HasInserted(c, k) ==
    \/ k = Season /\ pc[c] \in {"away"} \cup PastAway
    \/ k = Ledger[doc[c]].away /\ pc[c] \in PastAway
    \/ k = Ledger[doc[c]].home /\ pc[c] \in PastHome
    \/ k \in Player /\ pc[c] \in PastHome /\ \A p \in left[c] : k < p

\* It holds no lock of a step to come.
LocksInOrder(c) ==
    /\ \A k \in Key : inserted[k] = c => HasInserted(c, k)
    /\ \A g \in Game : row[g] = c => pc[c] \in Held
    /\ \A b \in Bundle : bundleLock[b] = c => pc[c] \in {"lock", "insert"} \cup Held
    /\ choices = c => pc[c] = "commit"
    /\ pc[c] \in {"choices", "commit"} => left[c] = {}

\* The rows it will refer to are committed, or its own, once it is past them.
Seen(c) == catalog \cup {k \in Key : inserted[k] = c}
SeesRows(c) ==
    /\ pc[c] \in {"away"} \cup PastAway => Season \in Seen(c)
    /\ pc[c] \in PastAway => Ledger[doc[c]].away \in Seen(c)
    /\ pc[c] \in PastHome => Ledger[doc[c]].home \in Seen(c)
    /\ pc[c] # "idle" => Rostered(doc[c]) \subseteq Seen(c) \cup left[c]

SharedInv ==
    /\ LockTypes /\ CatalogIsComplete
    /\ \A c \in Client : LocksInOrder(c) /\ SeesRows(c)

\* Of some subsets of a finite set, one contains no other.
LEMMA Smallest ==
    ASSUME NEW P, IsFiniteSet(P), NEW F, \A A \in F : A \subseteq P, F # {}
    PROVE  \E A \in F : \A B \in F : B \subseteq A => B = A
<1>0. F \subseteq SUBSET P OBVIOUS
<1>1. IsWellFoundedOn(StrictSubsetOrdering(P), SUBSET P)
  BY FS_StrictSubsetOrderingWellFounded, FS_FiniteSubsetsOfFinite
<1>2. PICK A \in F : \A B \in F : ~(<<B, A>> \in StrictSubsetOrdering(P))
  BY <1>1, <1>0, WFMin
<1> QED BY <1>2 DEF StrictSubsetOrdering

\* Finitely many numbers have a least and a greatest one.
LEMMA Least ==
    ASSUME NEW P \in SUBSET Nat, IsFiniteSet(P), NEW T \in SUBSET P, T # {}
    PROVE  \E p \in T : \A q \in T : p <= q
<1> DEFINE below(p) == {q \in P : q < p}
           F == {below(p) : p \in T}
<1>1. (\A A \in F : A \subseteq P) /\ F # {} OBVIOUS
<1>2. PICK A \in F : \A B \in F : B \subseteq A => B = A
  <2> HIDE DEF F
  <2> QED BY <1>1, Smallest
<1>3. PICK p \in T : A = below(p) OBVIOUS
<1>4. ASSUME NEW q \in T, ~(p <= q) PROVE FALSE
  <2>1. q \in Nat /\ p \in Nat /\ q < p BY <1>4
  <2>2. ASSUME NEW r \in below(q) PROVE r \in below(p)
    <3>1. r \in P /\ r \in Nat /\ r < q OBVIOUS
    <3>2. r < p BY <2>1, <3>1
    <3> QED BY <3>1, <3>2
  <2>3. q \in below(p) /\ q \notin below(q) BY <2>1
  <2> QED BY <1>2, <1>3, <2>2, <2>3
<1> QED BY <1>4

LEMMA Greatest ==
    ASSUME NEW P \in SUBSET Nat, IsFiniteSet(P), NEW T \in SUBSET P, T # {}
    PROVE  \E p \in T : \A q \in T : q <= p
<1> DEFINE above(p) == {q \in P : p < q}
           F == {above(p) : p \in T}
<1>1. (\A A \in F : A \subseteq P) /\ F # {} OBVIOUS
<1>2. PICK A \in F : \A B \in F : B \subseteq A => B = A
  <2> HIDE DEF F
  <2> QED BY <1>1, Smallest
<1>3. PICK p \in T : A = above(p) OBVIOUS
<1>4. ASSUME NEW q \in T, ~(q <= p) PROVE FALSE
  <2>1. q \in Nat /\ p \in Nat /\ p < q BY <1>4
  <2>2. ASSUME NEW r \in above(q) PROVE r \in above(p)
    <3>1. r \in P /\ r \in Nat /\ q < r OBVIOUS
    <3>2. p < r BY <2>1, <3>1
    <3> QED BY <3>1, <3>2
  <2>3. q \in above(p) /\ q \notin above(q) BY <2>1
  <2> QED BY <1>2, <1>3, <2>2, <2>3
<1> QED BY <1>4

\* The player inserted next comes before all that are left.
LEMMA NextPlayerIsLeast ==
    ASSUME NEW c \in Client, left[c] \in SUBSET Player, left[c] # {}
    PROVE  NextPlayer(c) \in left[c] /\ \A p \in left[c] : NextPlayer(c) <= p
<1>1. \E p \in left[c] : \A q \in left[c] : p <= q
  BY PlayerAssumption, Least
<1> QED BY <1>1 DEF NextPlayer

LEMMA DocumentRows ==
    ASSUME NEW d \in Document
    PROVE  /\ Ledger[d].away \in Team /\ Ledger[d].home \in Team
           /\ Ledger[d].game \in Game /\ Ledger[d].bundle \in Bundle
           /\ Rostered(d) \subseteq Player
<1>1. Ledger[d].roster \in Seq(Player) BY LedgerAssumption
<1>2. Rostered(d) \subseteq Player BY <1>1 DEF Rostered
<1> QED BY <1>2, LedgerAssumption

\* What a step of another import leaves of one.
LEMMA Bystands ==
    ASSUME IInv, SharedInv, NEW x \in Client,
           pc'[x] = pc[x], doc'[x] = doc[x], left'[x] = left[x],
           catalog \subseteq catalog',
           \A k \in Key : inserted'[k] = x <=> inserted[k] = x,
           \A g \in Game : row'[g] = x => row[g] = x,
           \A b \in Bundle : bundleLock'[b] = x => bundleLock[b] = x,
           choices' = x => choices = x
    PROVE  LocksInOrder(x)' /\ SeesRows(x)'
<1>1. LocksInOrder(x) /\ SeesRows(x) BY DEF SharedInv
<1>2. \A k \in Key : HasInserted(x, k)' <=> HasInserted(x, k)
  BY DEF HasInserted
<1>3. LocksInOrder(x)' BY <1>1, <1>2 DEF LocksInOrder
<1>4. Seen(x) \subseteq Seen(x)' BY DEF Seen
<1>5. SeesRows(x)' BY <1>1, <1>4 DEF SeesRows
<1> QED BY <1>3, <1>5

LEMMA SharedInit == Init => SharedInv
<1> SUFFICES ASSUME Init PROVE SharedInv OBVIOUS
<1> DEFINE known == {r.document : r \in UNION {revisions[g] : g \in Game}}
<1>1. /\ pc = [c \in Client |-> "idle"] /\ left = [c \in Client |-> {}]
      /\ row = [g \in Game |-> None] /\ inserted = [k \in Key |-> None]
      /\ bundleLock = [b \in Bundle |-> None] /\ choices = None
  BY DEF Init
<1>2. PICK season \in SUBSET {Season} :
        /\ known # {} => season = {Season}
        /\ catalog = season \cup UNION {{Ledger[d].away, Ledger[d].home} \cup Rostered(d)
                                         : d \in known}
  BY DEF Init
<1>3. known \subseteq Document
  BY InitInv DEF IInv, TypeInv
<1>4. catalog \subseteq Key
  BY <1>2, <1>3, DocumentRows DEF Key
<1>5. CatalogIsComplete
  <2> SUFFICES ASSUME NEW g \in Game, NEW r \in revisions[g]
               PROVE {Season, Ledger[r.document].away, Ledger[r.document].home}
                        \cup Rostered(r.document) \subseteq catalog
    BY DEF CatalogIsComplete
  <2>1. r.document \in known OBVIOUS
  <2> QED BY <1>2, <2>1
<1>6. LockTypes BY <1>1, <1>4 DEF LockTypes
<1>7. \A c \in Client : LocksInOrder(c) /\ SeesRows(c)
  BY <1>1, NoneAssumption DEF LocksInOrder, SeesRows, Held, PastAway, PastHome
<1> QED BY <1>5, <1>6, <1>7 DEF SharedInv

\* An import that ends holds nothing, and the others keep what they hold.
LEMMA SharedEnd ==
    ASSUME IInv, SharedInv, NEW c \in Client, Goto(c, "idle"), Release(c),
           UNCHANGED <<doc, left>>, catalog \subseteq catalog'
    PROVE  \A x \in Client : LocksInOrder(x)' /\ SeesRows(x)'
<1>1. pc' = [pc EXCEPT ![c] = "idle"] BY DEF Goto
<1>2. /\ \A g \in Game : row'[g] = IF row[g] = c THEN None ELSE row[g]
      /\ \A k \in Key : inserted'[k] = IF inserted[k] = c THEN None ELSE inserted[k]
      /\ \A b \in Bundle : bundleLock'[b] = IF bundleLock[b] = c THEN None ELSE bundleLock[b]
      /\ choices' = IF choices = c THEN None ELSE choices
  BY DEF Release
<1>3. ASSUME NEW x \in Client, x # c PROVE LocksInOrder(x)' /\ SeesRows(x)'
  BY <1>1, <1>2, <1>3, Bystands, NoneAssumption DEF IInv, TypeInv
<1>4. pc'[c] = "idle" BY <1>1 DEF IInv, TypeInv
<1>5. LocksInOrder(c)'
  BY <1>2, <1>4, NoneAssumption DEF LocksInOrder
<1>6. SeesRows(c)' BY <1>4 DEF SeesRows, PastAway, PastHome
<1> QED BY <1>3, <1>5, <1>6

LEMMA ReleaseTypes ==
    ASSUME LockTypes, NEW c \in Client, Release(c), UNCHANGED left, catalog' \in SUBSET Key
    PROVE  LockTypes'
  BY DEF LockTypes, Release

LEMMA SharedRollback ==
    ASSUME IInv, SharedInv, NEW c \in Client, Rollback(c)
    PROVE  SharedInv'
<1>1. /\ UNCHANGED <<current, revisions, catalog, doc, left>> /\ Goto(c, "idle") /\ Release(c)
  BY DEF Rollback, committed
<1>2. LockTypes' BY <1>1, ReleaseTypes DEF SharedInv, LockTypes
<1>3. CatalogIsComplete' BY <1>1 DEF SharedInv, CatalogIsComplete
<1>4. \A x \in Client : LocksInOrder(x)' /\ SeesRows(x)' BY <1>1, SharedEnd
<1> QED BY <1>2, <1>3, <1>4 DEF SharedInv

\* COMMIT makes the rows the revision refers to everybody's.
LEMMA SharedCommit ==
    ASSUME IInv, SharedInv, NEW c \in Client, Commit(c)
    PROVE  SharedInv'
<1>1. /\ UNCHANGED <<doc, left>> /\ Goto(c, "idle") /\ Release(c)
      /\ catalog' = Seen(c) /\ pc[c] = "commit"
  BY DEF Commit, Seen
<1>2. LockTypes' BY <1>1, ReleaseTypes DEF SharedInv, LockTypes, Seen
<1>3. \A x \in Client : LocksInOrder(x)' /\ SeesRows(x)' BY <1>1, SharedEnd DEF Seen
<1>4. ASSUME NEW g \in Game, NEW r \in revisions'[g]
      PROVE  {Season, Ledger[r.document].away, Ledger[r.document].home}
                \cup Rostered(r.document) \subseteq catalog'
  <2>1. CASE r \in revisions[g]
    BY <1>1, <2>1 DEF SharedInv, CatalogIsComplete, Seen
  <2>2. CASE r = Sealed(revision[c], doc[c])
    <3>1. r.document = doc[c] BY <2>2 DEF Sealed
    <3>2. left[c] = {} BY <1>1 DEF SharedInv, LocksInOrder
    <3>3. {Season, Ledger[doc[c]].away, Ledger[doc[c]].home} \cup Rostered(doc[c])
            \subseteq Seen(c)
      BY <1>1, <3>2 DEF SharedInv, SeesRows, PastAway, PastHome
    <3> QED BY <1>1, <3>1, <3>3
  <2>3. r \in revisions[g] \/ r = Sealed(revision[c], doc[c])
    BY DEF Commit, IInv, TypeInv
  <2> QED BY <2>1, <2>2, <2>3
<1> QED BY <1>2, <1>3, <1>4 DEF SharedInv, CatalogIsComplete

\* A step of a transaction that takes no lock.
LEMMA SharedInside ==
    ASSUME IInv, SharedInv, NEW c \in Client, UNCHANGED <<current, revisions, catalog>>,
           LockTypes', \A x \in Client : x # c => pc'[x] = pc[x] /\ doc'[x] = doc[x]
                                                  /\ left'[x] = left[x],
           \A x \in Client : x # c =>
               /\ \A k \in Key : inserted'[k] = x <=> inserted[k] = x
               /\ \A g \in Game : row'[g] = x => row[g] = x
               /\ \A b \in Bundle : bundleLock'[b] = x => bundleLock[b] = x
               /\ choices' = x => choices = x,
           LocksInOrder(c)', SeesRows(c)'
    PROVE  SharedInv'
<1>1. CatalogIsComplete' BY DEF SharedInv, CatalogIsComplete
<1>2. ASSUME NEW x \in Client, x # c PROVE LocksInOrder(x)' /\ SeesRows(x)'
  BY <1>2, Bystands
<1> QED BY <1>1, <1>2 DEF SharedInv

LEMMA SharedImport ==
    ASSUME IInv, SharedInv, NEW c \in Client, Import(c)
    PROVE  SharedInv'
<1>1. /\ UNCHANGED <<current, revisions, catalog, row, inserted, bundleLock, choices>>
      /\ pc[c] = "idle" /\ pc' = [pc EXCEPT ![c] = "heights"]
  BY DEF Import, committed, locks, Goto
<1>2. PICK d \in Document : /\ doc' = [doc EXCEPT ![c] = d]
                            /\ left' = [left EXCEPT ![c] = Rostered(d)]
  BY DEF Import
<1>3. Rostered(d) \subseteq Player BY DocumentRows
<1>4. LockTypes' BY <1>1, <1>2, <1>3 DEF SharedInv, LockTypes
<1>5. /\ pc'[c] = "heights" /\ doc'[c] = d /\ left'[c] = Rostered(d)
      /\ \A x \in Client : x # c => pc'[x] = pc[x] /\ doc'[x] = doc[x] /\ left'[x] = left[x]
  BY <1>1, <1>2 DEF SharedInv, LockTypes, IInv, TypeInv
<1>6. LocksInOrder(c) BY DEF SharedInv
<1>7. LocksInOrder(c)'
  BY <1>1, <1>5, <1>6 DEF LocksInOrder, HasInserted, Held, PastAway, PastHome
<1>8. SeesRows(c)' BY <1>5 DEF SeesRows, PastAway, PastHome
<1> QED BY <1>1, <1>4, <1>5, <1>7, <1>8, SharedInside

LEMMA SharedHeights ==
    ASSUME IInv, SharedInv, NEW c \in Client, WriteHeights(c)
    PROVE  SharedInv'
<1>1. /\ UNCHANGED <<current, revisions, catalog, doc, left, row, inserted, choices>>
      /\ pc[c] = "heights" /\ pc' = [pc EXCEPT ![c] = "lock"]
      /\ bundleLock' = [bundleLock EXCEPT ![BundleOf(c)] = c]
  BY DEF WriteHeights, committed, Goto
<1>2. bundleLock[BundleOf(c)] \in {None, c}
  <2>1. Awaited(c) = bundleLock[BundleOf(c)] BY <1>1 DEF Awaited, Upserting
  <2> QED BY <2>1 DEF WriteHeights, Free
<1>3. LockTypes' BY <1>1 DEF SharedInv, LockTypes
<1>4. pc'[c] = "lock" /\ \A x \in Client : x # c => pc'[x] = pc[x]
  BY <1>1 DEF IInv, TypeInv
<1>5. \A x \in Client : x # c => \A b \in Bundle : bundleLock'[b] = x => bundleLock[b] = x
  BY <1>1, <1>2, NoneAssumption DEF SharedInv, LockTypes
<1>6. LocksInOrder(c) /\ SeesRows(c) BY DEF SharedInv
<1>7. LocksInOrder(c)'
  BY <1>1, <1>4, <1>6 DEF LocksInOrder, HasInserted, Held, PastAway, PastHome
<1>8. SeesRows(c)' BY <1>1, <1>4, <1>6 DEF SeesRows, Seen, PastAway, PastHome
<1> QED BY <1>1, <1>3, <1>4, <1>5, <1>7, <1>8, SharedInside

\* The row of the game, locked or inserted.
LEMMA SharedRow ==
    ASSUME IInv, SharedInv, NEW c \in Client, pc[c] \in {"lock", "insert"},
           UNCHANGED <<current, revisions, catalog, doc, left, inserted, bundleLock, choices>>,
           \/ pc' = [pc EXCEPT ![c] = "insert"] /\ UNCHANGED row
           \/ /\ pc' = [pc EXCEPT ![c] = "season"]
              /\ row' = [row EXCEPT ![GameOf(c)] = c]
    PROVE  SharedInv'
<1>1. LockTypes' BY DEF SharedInv, LockTypes
<1>2. \A x \in Client : x # c => pc'[x] = pc[x]
  BY DEF IInv, TypeInv
<1>3. \A x \in Client : x # c => \A g \in Game : row'[g] = x => row[g] = x
  BY DEF IInv, TypeInv
<1>4. \/ pc'[c] = "insert" /\ UNCHANGED row
      \/ pc'[c] = "season"
  BY DEF IInv, TypeInv
<1>5. LocksInOrder(c) /\ SeesRows(c) BY DEF SharedInv
<1>6. LocksInOrder(c)'
  BY <1>4, <1>5 DEF LocksInOrder, HasInserted, Held, PastAway, PastHome
<1>7. SeesRows(c)' BY <1>4, <1>5 DEF SeesRows, Seen, PastAway, PastHome
<1> QED BY <1>1, <1>2, <1>3, <1>6, <1>7, SharedInside

LEMMA SharedGame ==
    ASSUME IInv, SharedInv, NEW c \in Client, LockGame(c) \/ InsertGame(c)
    PROVE  SharedInv'
<1>1. CASE Rollback(c) BY <1>1, SharedRollback
<1>2. CASE ~Rollback(c)
  <2>1. /\ UNCHANGED <<current, revisions, catalog, doc, left, inserted, bundleLock, choices>>
        /\ pc[c] \in {"lock", "insert"}
        /\ \/ pc' = [pc EXCEPT ![c] = "insert"] /\ UNCHANGED row
           \/ /\ pc' = [pc EXCEPT ![c] = "season"]
              /\ row' = [row EXCEPT ![GameOf(c)] = c]
    BY <1>2 DEF LockGame, InsertGame, committed, Goto
  <2> QED BY <2>1, SharedRow
<1> QED BY <1>1, <1>2

LEMMA SharedUpsert ==
    ASSUME IInv, SharedInv, NEW c \in Client, Upsert(c)
    PROVE  SharedInv'
<1> DEFINE k == NextKey(c)
<1>1. /\ UNCHANGED <<current, revisions, catalog, doc, row, bundleLock, choices>>
      /\ Upserting(c)
      /\ inserted' = IF k \in catalog THEN inserted ELSE [inserted EXCEPT ![k] = c]
  BY DEF Upsert, committed
<1>2. doc[c] \in Document
  BY <1>1 DEF Upserting, IInv, HasDocument
<1>3. /\ Ledger[doc[c]].away \in Team /\ Ledger[doc[c]].home \in Team
      /\ Rostered(doc[c]) \subseteq Player
  BY <1>2, DocumentRows
<1>4. left[c] \in SUBSET Player BY DEF SharedInv, LockTypes
<1>5. /\ pc[c] = "season" => k = Season
      /\ pc[c] = "away" => k = Ledger[doc[c]].away
      /\ pc[c] = "home" => k = Ledger[doc[c]].home
      /\ pc[c] = "players" => k \in left[c] /\ \A p \in left[c] : k <= p
  BY <1>1, <1>4, NextPlayerIsLeast DEF NextKey, Upserting
<1>6. k \in Key
  BY <1>1, <1>3, <1>4, <1>5 DEF Key, Upserting
<1>7. inserted[k] \in {None, c}
  BY <1>1 DEF Upsert, Free, Awaited, Upserting
<1>8. /\ pc[c] = "players" => pc' = pc /\ left' = [left EXCEPT ![c] = @ \ {k}]
      /\ pc[c] # "players" => UNCHANGED left
      /\ pc[c] = "season" => pc' = [pc EXCEPT ![c] = "away"]
      /\ pc[c] = "away" => pc' = [pc EXCEPT ![c] = "home"]
      /\ pc[c] = "home" => pc' = [pc EXCEPT ![c] = "players"]
  BY <1>1 DEF Upsert, Goto, Upserting
<1>9. /\ pc[c] = "players" => pc'[c] = "players" /\ left'[c] = left[c] \ {k}
      /\ pc[c] # "players" => left'[c] = left[c]
      /\ pc[c] = "season" => pc'[c] = "away"
      /\ pc[c] = "away" => pc'[c] = "home"
      /\ pc[c] = "home" => pc'[c] = "players"
      /\ \A x \in Client : x # c => pc'[x] = pc[x] /\ left'[x] = left[x]
  <2> HIDE DEF k
  <2> QED BY <1>1, <1>8 DEF Upserting, SharedInv, LockTypes, IInv, TypeInv
<1>10. LockTypes'
  <2> HIDE DEF k
  <2>1. left' \in [Client -> SUBSET Player] BY <1>8 DEF SharedInv, LockTypes
  <2>2. inserted' \in [Key -> Client \cup {None}] BY <1>1 DEF SharedInv, LockTypes
  <2> QED BY <1>1, <2>1, <2>2 DEF SharedInv, LockTypes
<1>11. \A x \in Client : x # c => \A h \in Key : inserted'[h] = x <=> inserted[h] = x
  <2> HIDE DEF k
  <2> QED BY <1>1, <1>7, NoneAssumption DEF SharedInv, LockTypes
<1>12. /\ \A h \in Key : inserted'[h] = c => inserted[h] = c \/ h = k
       /\ Seen(c)' = Seen(c) \cup {k}
  <2> HIDE DEF k
  <2>1. inserted \in [Key -> Client \cup {None}] BY DEF SharedInv, LockTypes
  <2>2. \A h \in Key : inserted'[h] = c <=> inserted[h] = c \/ (h = k /\ k \notin catalog)
    BY <1>1, <1>6, <1>7, <2>1
  <2> QED BY <1>1, <1>6, <2>2 DEF Seen
<1>13. LocksInOrder(c) /\ SeesRows(c) BY DEF SharedInv
<1>14. ASSUME NEW h \in Key, inserted'[h] = c PROVE HasInserted(c, h)'
  <2> HIDE DEF k
  <2>1. CASE inserted[h] = c
    <3>1. HasInserted(c, h) BY <1>13, <2>1 DEF LocksInOrder
    <3> QED BY <1>1, <1>9, <3>1 DEF HasInserted, Upserting, PastAway, PastHome
  <2>2. CASE h = k
    <3>1. CASE pc[c] = "players"
      <4>1. k \in Player /\ \A p \in left'[c] : k < p
        <5>1. k \in Nat /\ \A p \in left'[c] : p \in Nat /\ k <= p /\ p # k
          BY <1>4, <1>5, <1>9, <3>1, PlayerAssumption
        <5> QED BY <1>4, <1>5, <3>1, <5>1
      <4> QED BY <1>9, <2>2, <3>1, <4>1 DEF HasInserted, PastHome
    <3>2. CASE pc[c] # "players"
      BY <1>1, <1>5, <1>9, <2>2, <3>2 DEF HasInserted, Upserting, PastAway, PastHome
    <3> QED BY <3>1, <3>2
  <2> QED BY <1>12, <1>14, <2>1, <2>2
<1>15. LocksInOrder(c)'
  <2> HIDE DEF k
  <2>1. pc[c] \in {"season", "away", "home", "players"} BY <1>1 DEF Upserting
  <2>2. pc'[c] \in {"away", "home", "players"} BY <1>9, <2>1
  <2>3. choices # c BY <1>13, <2>1 DEF LocksInOrder
  <2> QED BY <1>1, <1>14, <2>2, <2>3 DEF LocksInOrder, Held
<1>16. SeesRows(c)'
  <2> HIDE DEF k
  <2>1. pc[c] \in {"season", "away", "home", "players"} BY <1>1 DEF Upserting
  <2>2. Rostered(doc[c]) \subseteq Seen(c)' \cup left'[c]
    BY <1>9, <1>12, <1>13, <2>1 DEF SeesRows
  <2> QED BY <1>1, <1>5, <1>9, <1>12, <1>13, <2>1, <2>2 DEF SeesRows, PastAway, PastHome
<1> QED BY <1>1, <1>9, <1>10, <1>11, <1>15, <1>16, SharedInside

LEMMA SharedWrite ==
    ASSUME IInv, SharedInv, NEW c \in Client, Write(c) \/ ResolveHeights(c)
    PROVE  SharedInv'
<1>1. /\ UNCHANGED <<current, revisions, catalog, doc, left, row, inserted, bundleLock>>
      /\ \/ /\ pc[c] = "players" /\ left[c] = {} /\ UNCHANGED choices
            /\ pc' = [pc EXCEPT ![c] = "choices"]
         \/ /\ pc[c] = "choices" /\ choices' = c
            /\ pc' = [pc EXCEPT ![c] = "commit"]
  BY DEF Write, ResolveHeights, committed, locks, Goto
<1>2. LockTypes' BY <1>1 DEF SharedInv, LockTypes
<1>3. /\ \A x \in Client : x # c => pc'[x] = pc[x]
      /\ \/ pc[c] = "players" /\ left[c] = {} /\ UNCHANGED choices /\ pc'[c] = "choices"
         \/ pc[c] = "choices" /\ choices' = c /\ pc'[c] = "commit"
  BY <1>1 DEF IInv, TypeInv
<1>4. LocksInOrder(c) /\ SeesRows(c) BY DEF SharedInv
<1>5. LocksInOrder(c)'
  BY <1>1, <1>3, <1>4 DEF LocksInOrder, HasInserted, Held, PastAway, PastHome
<1>6. SeesRows(c)' BY <1>1, <1>3, <1>4 DEF SeesRows, Seen, PastAway, PastHome
<1> QED BY <1>1, <1>2, <1>3, <1>5, <1>6, SharedInside

LEMMA SharedNext == IInv /\ SharedInv /\ [Next]_vars => SharedInv'
<1> SUFFICES ASSUME IInv, SharedInv, [Next]_vars PROVE SharedInv' OBVIOUS
<1>1. CASE UNCHANGED vars
  <2>1. UNCHANGED <<current, revisions, catalog, pc, doc, left, row, inserted, bundleLock,
                    choices>>
    BY <1>1 DEF vars, committed, locks
  <2>2. LockTypes' /\ CatalogIsComplete'
    BY <2>1 DEF SharedInv, LockTypes, CatalogIsComplete
  <2>3. \A x \in Client : LocksInOrder(x)' /\ SeesRows(x)' BY <2>1, Bystands
  <2> QED BY <2>2, <2>3 DEF SharedInv
<1>2. ASSUME NEW c \in Client, Import(c) \/ Step(c) \/ Fail(c) PROVE SharedInv'
  BY <1>2, SharedImport, SharedHeights, SharedGame, SharedUpsert, SharedWrite, SharedCommit,
     SharedRollback DEF Step, Fail, EndDeadlock
<1> QED BY <1>1, <1>2 DEF Next

LEMMA SharedInvariance == Spec => []SharedInv
  BY Invariance, SharedInit, SharedNext, PTL DEF Spec

-----------------------------------------------------------------------------

\* Whoever is waited for is further in the order of the locks; only in the
\* rows of two teams it may be as far.
LEMMA WaitsForFurther ==
    ASSUME IInv, SharedInv, NEW x \in Client, NEW y \in Client, Awaited(x) = y
    PROVE  /\ pc[x] \notin {"idle", "commit"}
           /\ pc[x] = "heights" => pc[y] \in {"lock", "insert"} \cup Held
           /\ pc[x] \in {"lock", "insert"} => pc[y] \in Held
           /\ pc[x] = "season" => pc[y] \in {"away"} \cup PastAway
           /\ pc[x] = "away" => pc[y] \in PastAway
           /\ pc[x] = "home" =>
                 \/ pc[y] \in PastHome
                 \/ pc[y] = "home" /\ Ledger[doc[x]].home = Ledger[doc[y]].away
           /\ pc[x] = "players" =>
                 /\ left[x] # {} /\ pc[y] \in PastHome
                 /\ \A p \in left[y] : NextPlayer(x) < p
           /\ pc[x] = "choices" => pc[y] = "commit"
<1>1. y # None BY NoneAssumption
<1>2. LocksInOrder(y) /\ inserted \in [Key -> Client \cup {None}]
  BY DEF SharedInv, LockTypes
<1>3. pc[x] \notin {"idle", "commit"}
  BY <1>1 DEF Awaited, Upserting
<1>4. doc[x] \in Document BY <1>3 DEF IInv, HasDocument
<1>5. /\ GameOf(x) \in Game /\ BundleOf(x) \in Bundle
      /\ Ledger[doc[x]].away \in Team /\ Ledger[doc[x]].home \in Team
  BY <1>4, DocumentRows DEF GameOf, BundleOf
<1>6. CASE pc[x] = "heights"
  <2>1. bundleLock[BundleOf(x)] = y BY <1>6 DEF Awaited, Upserting
  <2> QED BY <1>2, <1>5, <1>6, <2>1 DEF LocksInOrder
<1>7. CASE pc[x] \in {"lock", "insert"}
  <2>1. row[GameOf(x)] = y BY <1>1, <1>7 DEF Awaited, Upserting
  <2> QED BY <1>2, <1>5, <1>7, <2>1 DEF LocksInOrder
<1>8. CASE pc[x] \in {"season", "away", "home"}
  <2>1. inserted[NextKey(x)] = y BY <1>8 DEF Awaited, Upserting
  <2>2. /\ pc[x] = "season" => NextKey(x) = Season
        /\ pc[x] = "away" => NextKey(x) = Ledger[doc[x]].away
        /\ pc[x] = "home" => NextKey(x) = Ledger[doc[x]].home
    BY DEF NextKey
  <2>3. HasInserted(y, NextKey(x))
    <3>1. NextKey(x) \in Key BY <1>5, <1>8, <2>2 DEF Key
    <3> QED BY <1>2, <2>1, <3>1 DEF LocksInOrder
  <2>4. pc[x] = "season" => pc[y] \in {"away"} \cup PastAway
    BY <2>2, <2>3 DEF HasInserted, PastAway, PastHome
  <2>5. pc[x] \in {"away", "home"} => NextKey(x) \in Team /\ NextKey(x) \notin {Season} \cup Player
    BY <1>5, <2>2, KeyAssumption
  <2>6. pc[x] = "away" => pc[y] \in PastAway
    BY <2>3, <2>5 DEF HasInserted, PastAway, PastHome
  <2>7. pc[x] = "home" => \/ pc[y] \in PastHome
                          \/ pc[y] = "home" /\ Ledger[doc[x]].home = Ledger[doc[y]].away
    BY <2>2, <2>3, <2>5 DEF HasInserted, PastAway, PastHome
  <2> QED BY <1>8, <2>4, <2>6, <2>7
<1>9. CASE pc[x] = "players"
  <2>1. left[x] # {} /\ inserted[NextKey(x)] = y /\ NextKey(x) = NextPlayer(x)
    BY <1>1, <1>9 DEF Awaited, Upserting, NextKey
  <2>2. NextPlayer(x) \in Player
    BY <2>1, NextPlayerIsLeast DEF SharedInv, LockTypes
  <2>3. HasInserted(y, NextPlayer(x))
    BY <1>2, <2>1, <2>2 DEF LocksInOrder, Key
  <2>4. NextPlayer(x) \notin {Season} \cup Team BY <2>2, KeyAssumption
  <2>6. CASE pc[y] \in PastHome /\ \A p \in left[y] : NextPlayer(x) < p
    BY <1>9, <2>1, <2>6
  <2>7. pc[y] \in PastAway => NextPlayer(x) \notin {Ledger[doc[y]].away, Ledger[doc[y]].home}
    <3>1. pc[y] \in PastAway => doc[y] \in Document
      BY DEF IInv, HasDocument, PastAway
    <3> QED BY <2>4, <3>1, DocumentRows
  <2>8. PastHome \subseteq PastAway BY DEF PastHome, PastAway
  <2> QED BY <2>3, <2>4, <2>6, <2>7, <2>8 DEF HasInserted
<1>10. CASE pc[x] = "choices"
  <2>1. choices = y BY <1>10 DEF Awaited, Upserting
  <2> QED BY <1>2, <1>10, <2>1 DEF LocksInOrder
<1> QED BY <1>3, <1>6, <1>7, <1>8, <1>9, <1>10 DEF IInv, TypeInv, Working

\* Imports that all wait for one another have not come to their players, and
\* some wait for their home teams.
LEMMA DeadlockIsOverTeams == IInv /\ SharedInv => DeadlockNeedsTeamCycle
<1> SUFFICES ASSUME IInv, SharedInv, NEW S \in SUBSET Client, S # {}, Stuck(S)
             PROVE  \E C \in (SUBSET S) \ {{}} : \A x \in C : \E y \in C \ {x} :
                        pc[x] = "home" /\ Ledger[doc[x]].home = Ledger[doc[y]].away
  BY DEF DeadlockNeedsTeamCycle
<1>1. \A x \in S : x \in Client /\ Awaited(x) \in S \ {x} /\ Awaited(x) \in Client
  BY DEF Stuck
<1>2. \A x \in S : pc[x] \notin {"idle", "commit"}
  BY <1>1, WaitsForFurther
<1>3. \A x \in S : pc[x] # "choices"
  BY <1>1, <1>2, WaitsForFurther
<1>4. \A x \in S : pc[x] # "players"
  <2> DEFINE T == {NextPlayer(x) : x \in {z \in S : pc[z] = "players"}}
  <2>1. ASSUME NEW x \in S, pc[x] = "players"
        PROVE  /\ NextPlayer(x) \in left[x] /\ left[x] \subseteq Player
               /\ pc[Awaited(x)] = "players"
               /\ \A p \in left[Awaited(x)] : NextPlayer(x) < p
    <3>1. left[x] # {} /\ pc[Awaited(x)] \in PastHome
          /\ \A p \in left[Awaited(x)] : NextPlayer(x) < p
      BY <1>1, <2>1, WaitsForFurther
    <3>2. left[x] \subseteq Player BY <1>1 DEF SharedInv, LockTypes
    <3>3. NextPlayer(x) \in left[x] BY <1>1, <3>1, <3>2, NextPlayerIsLeast
    <3> QED BY <1>1, <1>2, <1>3, <3>1, <3>2, <3>3 DEF PastHome
  <2>2. T \subseteq Player BY <2>1
  <2>3. SUFFICES ASSUME T # {} PROVE FALSE OBVIOUS
  <2>4. PICK p \in T : \A q \in T : q <= p
    <3> HIDE DEF T
    <3> QED BY <2>2, <2>3, Greatest, PlayerAssumption
  <2>5. PICK x \in S : pc[x] = "players" /\ p = NextPlayer(x) OBVIOUS
  <2>6. /\ Awaited(x) \in S /\ pc[Awaited(x)] = "players"
        /\ NextPlayer(Awaited(x)) \in T /\ p < NextPlayer(Awaited(x))
    BY <1>1, <2>1, <2>5
  <2>7. p \in Nat /\ NextPlayer(Awaited(x)) \in Nat
    BY <2>2, <2>6, PlayerAssumption
  <2> QED BY <2>4, <2>6, <2>7
<1>5. \A x \in S : pc[x] \in {"heights", "lock", "insert", "season", "away", "home"}
  BY <1>1, <1>2, <1>3, <1>4 DEF IInv, TypeInv, Working
<1> DEFINE C == {x \in S : pc[x] = "home"}
<1>6. \A x \in S : pc[x] = "home" =>
          Awaited(x) \in C \ {x} /\ Ledger[doc[x]].home = Ledger[doc[Awaited(x)]].away
  BY <1>1, <1>5, WaitsForFurther DEF PastHome
<1>7. \A x \in S : pc[x] = "away" => Awaited(x) \in C
  BY <1>1, <1>5, WaitsForFurther DEF PastAway
<1>8. \A x \in S : pc[x] = "season" => C # {}
  BY <1>1, <1>5, <1>7, WaitsForFurther DEF PastAway
<1>9. \A x \in S : pc[x] \in {"lock", "insert"} => C # {}
  BY <1>1, <1>5, <1>7, <1>8, WaitsForFurther DEF Held
<1>10. \A x \in S : pc[x] = "heights" => C # {}
  BY <1>1, <1>5, <1>7, <1>8, <1>9, WaitsForFurther DEF Held
<1>11. C # {} BY <1>5, <1>7, <1>8, <1>9, <1>10
<1>12. C \in (SUBSET S) \ {{}} BY <1>11
<1>13. \A x \in C : \E y \in C \ {x} :
           pc[x] = "home" /\ Ledger[doc[x]].home = Ledger[doc[y]].away
  BY <1>6
<1> HIDE DEF C
<1> QED BY <1>12, <1>13

\* A revision finds the season, the teams and the players it refers to,
\* however imports share the inserting of them and whichever fail; and such
\* imports wait for one another only over a cycle of teams, so that the order
\* in which upsertGameCatalog and resolvePlayerHeights lock is one order.
THEOREM CatalogShared == Spec => []CatalogIsShared
<1>1. IInv /\ SharedInv => CatalogIsShared
  BY DeadlockIsOverTeams DEF SharedInv, CatalogIsShared
<1> QED BY <1>1, Invariance, SharedInvariance, PTL

=============================================================================
