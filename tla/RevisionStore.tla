---------------------------- MODULE RevisionStore ----------------------------
(***************************************************************************)
(* GameRevisionStore.importRevision: PostgreSQL transactions that seal one  *)
(* revision of a game each (packages/persistence/src/revision-store.ts).   *)
(* One action is one statement that can wait for another transaction, or   *)
(* whose outcome another can see.  Isolation is READ COMMITTED.            *)
(***************************************************************************)
EXTENDS Naturals, Sequences, FiniteSets

CONSTANTS
    Client,        \* imports that may run together
    Game, Document, Bundle, Season,
    Team,          \* a team with its entry in the season
    Player,        \* players by their place in the order of names
    Ledger,        \* what an import reads of a document
    MaxImports, MaxLost,   \* bounds of the environment
    None,
    Failed         \* an import that has thrown

Base == [d \in Document |-> Ledger[d].base]

ASSUME PlayerAssumption == Player \subseteq Nat /\ IsFiniteSet(Player)
ASSUME KeyAssumption == Season \notin Team \cup Player /\ Team \cap Player = {}
ASSUME LedgerAssumption ==
    Ledger \in [Document -> [game : Game, bundle : Bundle, away : Team, home : Team,
                    roster : Seq(Player),
                    base : [revision : Nat \ {0}, document : Document] \cup {None}]]
ASSUME StoreAssumption == MaxImports \in Nat /\ MaxLost \in Nat
ASSUME NoneAssumption == None \notin Client \cup Document /\ None # Failed

VARIABLES
    current, revisions,  \* committed: RevisionChain
    catalog,             \* committed rows of the season, teams and players
    pc, doc, revision,   \* of each import: step, document, number given
    left,                \* players it has yet to insert
    row,                 \* who has locked, or inserted, a game's row
    inserted,            \* who has inserted a row of the catalog
    bundleLock, choices, \* advisory locks of player heights
    answer,              \* what the last import of a client has returned
    imports, lost        \* how much of the bounds is used

committed == <<current, revisions, catalog>>
locks == <<row, inserted, bundleLock, choices>>
bounds == <<imports, lost>>
vars == <<committed, pc, doc, revision, left, locks, answer, bounds>>

Chain == INSTANCE RevisionChain

Key == {Season} \cup Team \cup Player
Sealed(n, d) == [revision |-> n, document |-> d]
Working == {"heights", "lock", "insert", "season", "away", "home", "players",
            "choices", "commit"}
GameOf(c) == Ledger[doc[c]].game
BundleOf(c) == Ledger[doc[c]].bundle

-----------------------------------------------------------------------------
(* Locks *)

Rostered(d) == {Ledger[d].roster[i] : i \in 1 .. Len(Ledger[d].roster)}

\* Mutant: players are inserted as the ledger lists them.
NextListed(c) ==
    LET roster == Ledger[doc[c]].roster IN
    roster[CHOOSE i \in 1 .. Len(roster) :
              roster[i] \in left[c] /\ \A j \in 1 .. i - 1 : roster[j] \notin left[c]]

\* upsertGameCatalog inserts players in the order of their names.
NextPlayer(c) == CHOOSE p \in left[c] : \A q \in left[c] : p <= q

NextKey(c) == CASE pc[c] = "season" -> Season
                [] pc[c] = "away" -> Ledger[doc[c]].away
                [] pc[c] = "home" -> Ledger[doc[c]].home
                [] OTHER -> NextPlayer(c)

Upserting(c) == pc[c] \in {"season", "away", "home"} \/ (pc[c] = "players" /\ left[c] # {})

\* The transaction the next statement of c waits for.  A row that is not
\* committed is no row to SELECT FOR UPDATE, but INSERT waits for its fate.
Awaited(c) ==
    CASE pc[c] = "heights" -> bundleLock[BundleOf(c)]
      [] pc[c] = "lock" -> IF current[GameOf(c)] = 0 THEN None ELSE row[GameOf(c)]
      [] pc[c] = "insert" -> row[GameOf(c)]
      [] Upserting(c) -> inserted[NextKey(c)]
      [] pc[c] = "choices" -> choices
      [] OTHER -> None

Free(c) == Awaited(c) \in {None, c}

Stuck(S) == \A c \in S : Awaited(c) \in S \ {c}

Deadlocked(c) == \E S \in SUBSET Client : c \in S /\ Stuck(S)

Goto(c, step) == pc' = [pc EXCEPT ![c] = step]

\* What a transaction holds until its end.
Release(c) ==
    /\ row' = [g \in Game |-> IF row[g] = c THEN None ELSE row[g]]
    /\ inserted' = [k \in Key |-> IF inserted[k] = c THEN None ELSE inserted[k]]
    /\ bundleLock' = [b \in Bundle |-> IF bundleLock[b] = c THEN None ELSE bundleLock[b]]
    /\ choices' = IF choices = c THEN None ELSE choices

\* Mutant: the connection goes back to the pool with its transaction open.
Abandon(c) ==
    /\ Goto(c, "idle") /\ answer' = [answer EXCEPT ![c] = Failed]
    /\ UNCHANGED <<committed, doc, revision, left, locks, bounds>>

\* ROLLBACK, and the import throws.
Rollback(c) ==
    /\ Goto(c, "idle") /\ answer' = [answer EXCEPT ![c] = Failed]
    /\ Release(c)
    /\ UNCHANGED <<committed, doc, revision, left, bounds>>

-----------------------------------------------------------------------------
(* importRevision.  A document with blocking findings is rejected before    *)
(* the transaction begins and is not modelled.                             *)

Import(c) ==
    /\ pc[c] = "idle" /\ imports < MaxImports
    /\ imports' = imports + 1
    /\ \E d \in Document :
        /\ doc' = [doc EXCEPT ![c] = d]
        /\ left' = [left EXCEPT ![c] = Rostered(d)]
    /\ Goto(c, "heights")
    /\ answer' = [answer EXCEPT ![c] = None]
    /\ UNCHANGED <<committed, revision, locks, lost>>

WriteHeights(c) ==
    /\ pc[c] = "heights" /\ Free(c)
    /\ bundleLock' = [bundleLock EXCEPT ![BundleOf(c)] = c]
    /\ Goto(c, "lock")
    /\ UNCHANGED <<committed, doc, revision, left, row, inserted, choices, answer, bounds>>

\* Mutant: the number of the base is not compared.
IsFromSome(g, d) ==
    IF current[g] = 0 THEN Base[d] = None ELSE Base[d] \in revisions[g]

IsFromCurrent(g, d) ==
    IF current[g] = 0 THEN Base[d] = None
    ELSE Base[d] \in revisions[g] /\ Base[d].revision = current[g]

\* SELECT ... FOR UPDATE, and the comparison with revisionBase.
LockGame(c) ==
    /\ pc[c] = "lock" /\ Free(c)
    /\ LET g == GameOf(c) IN
       \/ ~IsFromCurrent(g, doc[c]) /\ Rollback(c)
       \/ /\ IsFromCurrent(g, doc[c])
          /\ revision' = [revision EXCEPT ![c] = current[g] + 1]
          /\ IF current[g] = 0 THEN Goto(c, "insert") /\ UNCHANGED row
             ELSE Goto(c, "season") /\ row' = [row EXCEPT ![g] = c]
          /\ UNCHANGED <<committed, doc, left, inserted, bundleLock, choices, answer, bounds>>

\* INSERT INTO games: an error when the row was committed meanwhile.
InsertGame(c) ==
    /\ pc[c] = "insert" /\ Free(c)
    /\ LET g == GameOf(c) IN
       \/ current[g] # 0 /\ Rollback(c)
       \/ /\ current[g] = 0
          /\ row' = [row EXCEPT ![g] = c]
          /\ Goto(c, "season")
          /\ UNCHANGED <<committed, doc, revision, left, inserted, bundleLock, choices,
                         answer, bounds>>

\* INSERT ... ON CONFLICT DO NOTHING, row by row.
Upsert(c) ==
    /\ Upserting(c) /\ Free(c)
    /\ inserted' = IF NextKey(c) \in catalog THEN inserted
                   ELSE [inserted EXCEPT ![NextKey(c)] = c]
    /\ IF pc[c] = "players"
       THEN left' = [left EXCEPT ![c] = @ \ {NextKey(c)}] /\ UNCHANGED pc
       ELSE /\ Goto(c, CASE pc[c] = "season" -> "away"
                         [] pc[c] = "away" -> "home"
                         [] OTHER -> "players")
            /\ UNCHANGED left
    /\ UNCHANGED <<committed, doc, revision, row, bundleLock, choices, answer, bounds>>

\* Manifest, facts and their verification, the seal and the pointer: what
\* they write is seen at COMMIT.
Write(c) ==
    /\ pc[c] = "players" /\ left[c] = {}
    /\ Goto(c, "choices")
    /\ UNCHANGED <<committed, doc, revision, left, locks, answer, bounds>>

\* resolvePlayerHeights: one import of a season at a time.
ResolveHeights(c) ==
    /\ pc[c] = "choices" /\ Free(c)
    /\ choices' = c
    /\ Goto(c, "commit")
    /\ UNCHANGED <<committed, doc, revision, left, row, inserted, bundleLock, answer, bounds>>

\* Mutant: the result is returned without COMMIT.
ReturnUncommitted(c) ==
    /\ pc[c] = "commit"
    /\ Goto(c, "idle")
    /\ answer' = [answer EXCEPT ![c] = Sealed(revision[c], doc[c])]
    /\ Release(c)
    /\ UNCHANGED <<committed, doc, revision, left, bounds>>

\* COMMIT; its answer may be lost, and then the import throws as well.
Commit(c) ==
    /\ pc[c] = "commit"
    /\ LET g == GameOf(c) IN
       /\ current' = [current EXCEPT ![g] = revision[c]]
       /\ revisions' = [revisions EXCEPT ![g] = @ \cup {Sealed(revision[c], doc[c])}]
    /\ catalog' = catalog \cup {k \in Key : inserted[k] = c}
    /\ \/ answer' = [answer EXCEPT ![c] = Sealed(revision[c], doc[c])] /\ UNCHANGED lost
       \/ /\ lost < MaxLost /\ lost' = lost + 1
          /\ answer' = [answer EXCEPT ![c] = Failed]
    /\ Goto(c, "idle") /\ Release(c)
    /\ UNCHANGED <<doc, revision, left, imports>>

\* A statement fails, or the process dies.
Fail(c) == pc[c] \in Working /\ Rollback(c)

\* PostgreSQL ends one transaction of a cycle of waiting ones.
EndDeadlock(c) == pc[c] \in Working /\ Deadlocked(c) /\ Rollback(c)

-----------------------------------------------------------------------------

\* Nothing, or one revision of some games, imported by an earlier process;
\* of the season, perhaps other games of other teams.
Init ==
    /\ Chain!Init
    /\ \A g \in Game : \A r \in revisions[g] :
           Ledger[r.document].game = g /\ Base[r.document] = None
    /\ LET known == {r.document : r \in UNION {revisions[g] : g \in Game}} IN
       \E season \in IF known = {} THEN {{}, {Season}} ELSE {{Season}} :
           catalog = season \cup UNION {{Ledger[d].away, Ledger[d].home} \cup Rostered(d)
                                         : d \in known}
    /\ pc = [c \in Client |-> "idle"]
    /\ doc = [c \in Client |-> None]
    /\ revision = [c \in Client |-> 0] /\ left = [c \in Client |-> {}]
    /\ row = [g \in Game |-> None] /\ inserted = [k \in Key |-> None]
    /\ bundleLock = [b \in Bundle |-> None] /\ choices = None
    /\ answer = [c \in Client |-> None]
    /\ imports = 0 /\ lost = 0

Step(c) ==
    \/ WriteHeights(c) \/ LockGame(c) \/ InsertGame(c) \/ Upsert(c) \/ Write(c)
    \/ ResolveHeights(c) \/ Commit(c) \/ EndDeadlock(c)

Next == \E c \in Client : Import(c) \/ Step(c) \/ Fail(c)

Spec == Init /\ [][Next]_vars

\* The database goes on with a transaction that need not wait, and finds
\* deadlocks; nothing else is fair.
FairSpec == Spec /\ \A c \in Client : WF_vars(Step(c))

-----------------------------------------------------------------------------
(* Properties *)

TypeOK ==
    /\ current \in [Game -> Nat]
    /\ revisions \in [Game -> SUBSET [revision : Nat, document : Document]]
    /\ catalog \in SUBSET Key
    /\ pc \in [Client -> Working \cup {"idle"}]
    /\ doc \in [Client -> Document \cup {None}] /\ revision \in [Client -> Nat]
    /\ left \in [Client -> SUBSET Player]
    /\ row \in [Game -> Client \cup {None}] /\ inserted \in [Key -> Client \cup {None}]
    /\ bundleLock \in [Bundle -> Client \cup {None}] /\ choices \in Client \cup {None}
    /\ answer \in [Client -> [revision : Nat, document : Document] \cup {None, Failed}]
    /\ imports \in Nat /\ lost \in Nat

\* Concurrent imports of a game append to one chain of revisions: two made
\* from the same base never both succeed, and none is changed.
ChainSpec == Chain!Spec

\* The numbers of a game's revisions are 1 to current, each once.
RevisionsAreNumbered ==
    \A g \in Game :
        /\ {r.revision : r \in revisions[g]} = 1 .. current[g]
        /\ \A r, s \in revisions[g] : r.revision = s.revision => r = s

\* An import that has returned a revision has sealed it, with its document.
AnsweredIsSealed ==
    \A c \in Client :
        answer[c] \notin {None, Failed} => answer[c] \in revisions[GameOf(c)]

\* Every sealed revision finds the teams and players it refers to.
CatalogIsComplete ==
    \A g \in Game : \A r \in revisions[g] :
        {Season, Ledger[r.document].away, Ledger[r.document].home}
            \cup Rostered(r.document) \subseteq catalog

\* Imports wait for each other in a cycle only over teams they introduce: each
\* waits for its home team, which another has introduced as its away team
\* (two teams change sides, or more of them go round).  The order of the locks
\* is otherwise the same in every import.
DeadlockNeedsTeamCycle ==
    \A S \in (SUBSET Client) \ {{}} : Stuck(S) =>
        \E C \in (SUBSET S) \ {{}} : \A x \in C : \E y \in C \ {x} :
            pc[x] = "home" /\ Ledger[doc[x]].home = Ledger[doc[y]].away

\* What concurrent imports of one catalog do to each other.
CatalogIsShared == CatalogIsComplete /\ DeadlockNeedsTeamCycle

\* Every import ends, whatever it waits for.
ImportsEnd == \A c \in Client : pc[c] # "idle" ~> pc[c] = "idle"

=============================================================================
