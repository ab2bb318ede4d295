---------------------------- MODULE MCImportJobs ----------------------------
(* Finite instances of ImportJobs for TLC. *)
EXTENDS ImportJobs

CONSTANTS g1, g2, first, second, third, rival, other

\* first, second and third are a game's revisions in turn; rival is another
\* second one; other is the first of the second game.
MCLedger == [d \in Document |->
    [game |-> IF d = other THEN g2 ELSE g1,
     base |-> CASE d \in {second, rival} -> [revision |-> 1, document |-> first]
                [] d = third -> [revision |-> 2, document |-> second]
                [] OTHER -> None]]

=============================================================================
