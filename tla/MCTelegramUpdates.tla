--------------------------- MODULE MCTelegramUpdates ---------------------------
(* TelegramUpdates for TLC. *)
EXTENDS TelegramUpdates, TLC

\* Calls and updates are interchangeable.
Symmetry == Permutations(Runs) \cup Permutations(Updates)
=============================================================================
