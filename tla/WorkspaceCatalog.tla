--------------------------- MODULE WorkspaceCatalog ---------------------------
(***************************************************************************)
(* The display index of the staging workspace                               *)
(* (packages/persistence/src/workspace-catalog.ts) and the transitions that *)
(* make its items stale (staging-workspace.ts): the index reads a game's    *)
(* files while a transition moves them, and an answer to a caller must not  *)
(* be older than what was finished before the call.                         *)
(***************************************************************************)
EXTENDS Naturals, FiniteSets

CONSTANTS
    CatalogGame,      \* games
    CatalogCall,      \* calls of snapshot()
    BatchSize,        \* the 16 of refresh()
    MaxTransitions    \* bound of the transitions of a game

ASSUME CatalogAssumption == BatchSize \in Nat \ {0} /\ MaxTransitions \in Nat

VARIABLES
    stored,       \* the version of a game's current entry on disk
    transitions,  \* transitions of a game that have begun
    chained,      \* those of them that have not ended
    items,        \* the version of a game's item in the index
    dirtyAt,      \* the Map dirty: a generation, or 0 for a game it does not have
    catalogGeneration,
    refreshing,   \* a refresh is in flight
    batch,        \* the generation at which the refresh is reading a game, or 0
    opened,       \* the version that read has found, or NotRead
    batchFailed,  \* a read of the batch has thrown
    catalogCall   \* per call: [step, needs, got]

catalogVars == <<stored, transitions, chained, items, dirtyAt, catalogGeneration,
                 refreshing, batch, opened, batchFailed, catalogCall>>

NotRead == MaxTransitions + 1
Dirty == {g \in CatalogGame : dirtyAt[g] # 0}
Reading == {g \in CatalogGame : batch[g] # 0}
NoBatch == [g \in CatalogGame |-> 0]
Nothing == [g \in CatalogGame |-> 0]

CatalogInit ==
    /\ stored = Nothing /\ items = Nothing
    /\ transitions = Nothing /\ chained = Nothing
    /\ dirtyAt = Nothing /\ catalogGeneration = 0
    /\ refreshing = FALSE /\ batch = NoBatch /\ opened = [g \in CatalogGame |-> NotRead]
    /\ batchFailed = FALSE
    /\ catalogCall = [c \in CatalogCall |-> [step |-> "none", needs |-> Nothing, got |-> Nothing]]

Invalidate(g) ==
    /\ catalogGeneration' = catalogGeneration + 1
    /\ dirtyAt' = [dirtyAt EXCEPT ![g] = catalogGeneration + 1]

-----------------------------------------------------------------------------
(* Transitions *)

\* transitionCurrent() up to its await: behind the game's other transitions.
TransitionBegins(g) ==
    /\ transitions[g] < MaxTransitions
    /\ transitions' = [transitions EXCEPT ![g] = @ + 1]
    /\ chained' = [chained EXCEPT ![g] = @ + 1]
    /\ Invalidate(g)
    /\ UNCHANGED <<stored, items, refreshing, batch, opened, batchFailed, catalogCall>>

\* The current pointer changes, in the first transition of the chain.
TransitionCommits(g) ==
    /\ stored[g] < transitions[g] - chained[g] + 1 /\ chained[g] > 0
    /\ stored' = [stored EXCEPT ![g] = transitions[g] - chained[g] + 1]
    /\ UNCHANGED <<transitions, chained, items, dirtyAt, catalogGeneration, refreshing,
                   batch, opened, batchFailed, catalogCall>>

\* The finally of transitionCurrent(), whether the transition failed or not.
TransitionEnds(g) ==
    /\ chained[g] > 0
    /\ chained' = [chained EXCEPT ![g] = @ - 1]
    /\ Invalidate(g)
    /\ UNCHANGED <<stored, transitions, items, refreshing, batch, opened, batchFailed, catalogCall>>

-----------------------------------------------------------------------------
(* refresh() *)

\* One round of its loop: up to BatchSize of the dirty games are read.
BatchBegins ==
    /\ refreshing /\ Reading = {} /\ Dirty # {} /\ ~ batchFailed
    /\ \E gs \in SUBSET Dirty :
          /\ Cardinality(gs) = IF Cardinality(Dirty) < BatchSize THEN Cardinality(Dirty) ELSE BatchSize
          /\ batch' = [g \in CatalogGame |-> IF g \in gs THEN dirtyAt[g] ELSE 0]
    /\ opened' = [g \in CatalogGame |-> NotRead]
    /\ UNCHANGED <<stored, transitions, chained, items, dirtyAt, catalogGeneration,
                   refreshing, batchFailed, catalogCall>>

\* load() of a game finds what is there.
Opens(g) ==
    /\ g \in Reading /\ opened[g] = NotRead
    /\ opened' = [opened EXCEPT ![g] = stored[g]]
    /\ UNCHANGED <<stored, transitions, chained, items, dirtyAt, catalogGeneration,
                   refreshing, batch, batchFailed, catalogCall>>

\* Mutant: what was read is kept though the game was invalidated meanwhile.
LandsAlways(g) ==
    /\ g \in Reading /\ opened[g] # NotRead
    /\ batch' = [batch EXCEPT ![g] = 0]
    /\ items' = [items EXCEPT ![g] = opened[g]]
    /\ dirtyAt' = [dirtyAt EXCEPT ![g] = 0]
    /\ UNCHANGED <<stored, transitions, chained, catalogGeneration, refreshing, opened, batchFailed, catalogCall>>

Lands(g) ==
    /\ g \in Reading /\ opened[g] # NotRead
    /\ batch' = [batch EXCEPT ![g] = 0]
    /\ IF dirtyAt[g] = batch[g]
       THEN /\ items' = [items EXCEPT ![g] = opened[g]]
            /\ dirtyAt' = [dirtyAt EXCEPT ![g] = 0]
       ELSE UNCHANGED <<items, dirtyAt>>
    /\ UNCHANGED <<stored, transitions, chained, catalogGeneration, refreshing, opened, batchFailed, catalogCall>>

\* load() throws: of no account when the game was invalidated since.
LoadThrows(g) ==
    /\ g \in Reading
    /\ batch' = [batch EXCEPT ![g] = 0]
    /\ batchFailed' = (batchFailed \/ dirtyAt[g] = batch[g])
    /\ UNCHANGED <<stored, transitions, chained, items, dirtyAt, catalogGeneration,
                   refreshing, opened, catalogCall>>

\* The refresh rejects once the other reads of the batch have landed, and with
\* it those that wait.
RefreshFails ==
    /\ Reading = {} /\ batchFailed
    /\ refreshing' = FALSE /\ batchFailed' = FALSE
    /\ catalogCall' = [c \in CatalogCall |->
          IF catalogCall[c].step = "waiting" THEN [catalogCall[c] EXCEPT !.step = "failed"]
          ELSE catalogCall[c]]
    /\ UNCHANGED <<stored, transitions, chained, items, dirtyAt, catalogGeneration, batch, opened>>

RefreshEnds ==
    /\ refreshing /\ Reading = {} /\ Dirty = {} /\ ~ batchFailed
    /\ refreshing' = FALSE
    /\ UNCHANGED <<stored, transitions, chained, items, dirtyAt, catalogGeneration,
                   batch, opened, batchFailed, catalogCall>>

-----------------------------------------------------------------------------
(* snapshot() *)

\* What the caller may rely on: the games whose transitions have all ended.
SnapshotCalled(c) ==
    /\ catalogCall[c].step = "none"
    /\ catalogCall' = [catalogCall EXCEPT ![c] =
          [step |-> "asking",
           needs |-> [g \in CatalogGame |-> IF chained[g] = 0 THEN stored[g] ELSE 0],
           got |-> Nothing]]
    /\ UNCHANGED <<stored, transitions, chained, items, dirtyAt, catalogGeneration,
                   refreshing, batch, opened, batchFailed>>

\* while (dirty.size > 0) await refresh(), which joins one that is in flight.
SnapshotWaits(c) ==
    /\ \/ catalogCall[c].step = "asking" /\ Dirty # {}
       \/ catalogCall[c].step = "waiting" /\ ~ refreshing /\ Dirty # {}
    /\ catalogCall' = [catalogCall EXCEPT ![c].step = "waiting"]
    /\ refreshing' = TRUE
    /\ UNCHANGED <<stored, transitions, chained, items, dirtyAt, catalogGeneration, batch, opened,
                   batchFailed>>

SnapshotAnswers(c) ==
    /\ Dirty = {}
    /\ \/ catalogCall[c].step = "asking"
       \/ catalogCall[c].step = "waiting" /\ ~ refreshing
    /\ catalogCall' = [catalogCall EXCEPT ![c].step = "answered", ![c].got = items]
    /\ UNCHANGED <<stored, transitions, chained, items, dirtyAt, catalogGeneration,
                   refreshing, batch, opened, batchFailed>>

CatalogNext ==
    \/ BatchBegins \/ RefreshEnds \/ RefreshFails
    \/ \E g \in CatalogGame : \/ TransitionBegins(g) \/ TransitionCommits(g) \/ TransitionEnds(g)
                              \/ Opens(g) \/ Lands(g) \/ LoadThrows(g)
    \/ \E c \in CatalogCall : SnapshotCalled(c) \/ SnapshotWaits(c) \/ SnapshotAnswers(c)

CatalogSpec == CatalogInit /\ [][CatalogNext]_catalogVars

-----------------------------------------------------------------------------
\* The index shows a game as it is on disk once its transitions have ended and
\* it is not dirty, and no answer is older than a transition that had ended
\* when the call was made, though the files moved while the index read them.
CatalogIsCurrent ==
    /\ \A g \in CatalogGame : dirtyAt[g] = 0 /\ chained[g] = 0 => items[g] = stored[g]
    /\ \A c \in CatalogCall : catalogCall[c].step = "answered" =>
          \A g \in CatalogGame : catalogCall[c].needs[g] <= catalogCall[c].got[g]

=============================================================================
