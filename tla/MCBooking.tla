------------------------------ MODULE MCBooking ------------------------------
(* Constants of Booking for TLC. *)
EXTENDS Booking, TLC

CONSTANTS OpenStarts   \* the grid instants of the one or two services

MCOpens == [sv \in Services |-> OpenStarts]
MCDuration == [sv \in Services |-> 2]
MCBuffer == [sv \in Services |-> 1]

\* Row identifiers and requests are interchangeable.
Symmetry == Permutations(Customers) \cup Permutations(Drafts)
              \cup Permutations(Holds) \cup Permutations(Bookings) \cup Permutations(Requests)
=============================================================================
