--------------------------- MODULE MCRevisionStore ---------------------------
(* Finite instances of RevisionStore for TLC. *)
EXTENDS RevisionStore

CONSTANTS g1, g2, b1, b2, b3, t1, t2, first, other, second, rival, return, rematch

\* first and other introduce the same game, second and rival correct first;
\* return and rematch are another game of the same teams, the former with the
\* teams reversed and the latter with its players in another order.
MCLedger == [d \in Document |->
    [game |-> IF d \in {return, rematch} THEN g2 ELSE g1,
     bundle |-> CASE d \in {return, rematch} -> b3 [] d \in {other, rival} -> b2 [] OTHER -> b1,
     away |-> IF d = return THEN t2 ELSE t1,
     home |-> IF d = return THEN t1 ELSE t2,
     roster |-> CASE d = second -> <<1, 2, 3>> [] d = rematch -> <<3, 2>>
                  [] d = rival -> <<2>> [] OTHER -> <<1>>,
     base |-> IF d \in {second, rival} THEN [revision |-> 1, document |-> first] ELSE None]]

=============================================================================
