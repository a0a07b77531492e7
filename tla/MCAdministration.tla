---------------------------- MODULE MCAdministration ----------------------------
(* Administration for TLC. *)
EXTENDS Administration, TLC

Few == [r \in Rows |-> IF r = "tenant" THEN 3 ELSE 2]

Symmetry == Permutations(Members \ {Founder}) \cup Permutations(Credentials)
            \cup Permutations(ProvisionKeys) \cup Permutations(Requests) \cup Permutations(Values)
=============================================================================
