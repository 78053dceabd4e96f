--------------------------- MODULE MCDeriveQueue ---------------------------
(* Symmetry for the runs of DeriveQueue that check safety.                 *)
EXTENDS DeriveQueue, TLC

\* The processes of a kind run the same code, and stamps are only compared for
\* equality.
Symmetry == Permutations(Worker) \cup Permutations(Stamp) \cup Permutations(Session)

=============================================================================
