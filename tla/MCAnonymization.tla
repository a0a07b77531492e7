---------------------------- MODULE MCAnonymization ----------------------------
(* Anonymization for TLC. *)
EXTENDS Anonymization, TLC

\* Rows are told apart by nothing.
Symmetry == Permutations(Customers) \cup Permutations(Conversations)
            \cup Permutations(Rows) \cup Permutations(Requests)
=============================================================================
