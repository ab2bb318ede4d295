-------------------------- MODULE MCWorkspaceStore --------------------------
(* Finite instances of WorkspaceStore for TLC. *)
EXTENDS WorkspaceStore, TLC

CONSTANTS d1, d2, d3, f1

\* d1 carries a warning, d2 a blocking finding of the compiler alone.
MCWithFindings == {d1}
MCBlocking == {d2}
\* d1 and d3 are one ledger with different findings.
MCDocumentHash == [d \in Document |-> IF d = d3 THEN d1 ELSE d]

MCSymmetry == Permutations(Operation) \cup Permutations(JournalId)

=============================================================================
