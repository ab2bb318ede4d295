---------------------------- MODULE RevisionChain ----------------------------
(***************************************************************************)
(* What the database promises of each game: its revisions are numbered     *)
(* from 1, are never changed or removed, and each new one was made from    *)
(* the one that was current.                                               *)
(***************************************************************************)
EXTENDS Naturals

CONSTANTS Game, Document,
          Base,     \* what a document was made from: a revision, or None
          None

VARIABLES current,    \* the number of a game's current revision, 0 if none
          revisions   \* its revisions
chain == <<current, revisions>>

Sealed(n, d) == [revision |-> n, document |-> d]

\* A document that was made from what is current.
IsNext(g, d) ==
    \/ current[g] = 0 /\ Base[d] = None
    \/ Base[d] \in revisions[g] /\ Base[d].revision = current[g]

Init == \E g \in [Game -> SUBSET {Sealed(1, d) : d \in Document}] :
    /\ revisions = g
    /\ \A h \in Game : \A r, s \in g[h] : r = s
    /\ current = [h \in Game |-> IF g[h] = {} THEN 0 ELSE 1]

Append(g, d) ==
    /\ IsNext(g, d)
    /\ current' = [current EXCEPT ![g] = @ + 1]
    /\ revisions' = [revisions EXCEPT ![g] = @ \cup {Sealed(current[g] + 1, d)}]

Next == \E g \in Game, d \in Document : Append(g, d)

Spec == Init /\ [][Next]_chain

=============================================================================
