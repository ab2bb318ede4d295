--------------------------- MODULE EvidenceLedger ---------------------------
(***************************************************************************)
(* What the staging workspace promises of one game: artifacts are stored   *)
(* one at a time and never lost or changed, and the head is moved, in one  *)
(* step, to an artifact stored before, or to none.                         *)
(***************************************************************************)
CONSTANTS Artifact, None

VARIABLES head, entries
ledger == <<head, entries>>

Init ==
    /\ entries \in SUBSET Artifact
    /\ head \in entries \cup {None}

Store(e) ==
    /\ entries' = entries \cup {e}
    /\ UNCHANGED head

Move(e) ==
    /\ e \in entries \cup {None}
    /\ head' = e
    /\ UNCHANGED entries

Next ==
    \/ \E e \in Artifact : Store(e)
    \/ \E e \in Artifact \cup {None} : Move(e)

Spec == Init /\ [][Next]_ledger

=============================================================================
