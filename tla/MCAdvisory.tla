------------------------------- MODULE MCAdvisory -------------------------------
(* Advisory for TLC. *)
EXTENDS Advisory
=============================================================================
