---------------------------- MODULE MCQualification ----------------------------
(* Qualification for TLC. *)
EXTENDS Qualification, TLC

\* Rows are used once each and told apart by nothing; so are the updates that
\* alarm nobody.
Symmetry == Permutations(Sessions) \cup Permutations(Leads) \cup Permutations(Cases)
            \cup Permutations(Handlers) \cup Permutations(Messages \ Alarming) \cup Permutations(Presses)
            \cup Permutations(Calls)
=============================================================================
