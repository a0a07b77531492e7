------------------------- MODULE MCAvailability -------------------------
(* Companies and diaries for TLC. *)
EXTENDS Availability, TLC

On(a, b) == [start |-> a, end |-> b, open |-> TRUE]
Pause(a, b) == [start |-> a, end |-> b, open |-> FALSE]
From(a, b, day) == [first |-> a, last |-> b, closed |-> day = {}, day |-> day]

\* A day of hours with a break, then a day without; two openings a day; the same
\* with a closed date and a date of other hours; overrides that clash and that
\* meet; hours to the last tick of a day; and openings that meet.
Broken == [week |-> (0 :> {On(1, 7), Pause(3, 5)} @@ 1 :> {}), overrides |-> {}]
Split == [week |-> [w \in {0, 1} |-> {On(0, 2), On(4, 6)}], overrides |-> {}]
Special == [Split EXCEPT !.overrides = {From(0, 0, {}), From(1, 1, {On(2, 7), Pause(4, 5)})}]
Faulty == [Broken EXCEPT !.overrides = {From(1, 2, {On(1, 4), On(3, 6)}), From(2, 2, {})}]
Meeting == [week |-> [w \in {0, 1} |-> {On(1, 5), On(5, 7), Pause(2, 3)}], overrides |-> {}]
Late == [week |-> (0 :> {On(6, 7)} @@ 1 :> {On(0, 7), Pause(1, 2), Pause(4, 6)}), overrides |-> {}]

\* No clock change; two ticks skipped, at two times of the day; two repeated, within
\* hours, at a boundary of them, at midnight and after it.
MCZones == {[at |-> 0, shift |-> 0], [at |-> 11, shift |-> 2], [at |-> 9, shift |-> 2],
            [at |-> 13, shift |-> -2], [at |-> 12, shift |-> -2], [at |-> 16, shift |-> -2],
            [at |-> 17, shift |-> -2]}

MCCompanies ==
  {[zone |-> zone, hours |-> s,
    resources |-> (1 :> [hours |-> s, capacity |-> 1, active |-> active]
                   @@ 2 :> [hours |-> Split, capacity |-> 2, active |-> TRUE])] :
     zone \in MCZones, s \in {Broken, Split, Special, Faulty, Late, Meeting}, active \in BOOLEAN}

Busy(a, b, n) == [start |-> a, end |-> b, used |-> n]
MCDiaries == {{}, {Busy(9, 11, 1)}, {Busy(9, 10, 1), Busy(10, 12, 1)}, {Busy(11, 14, 2)}}

MCInstants == 0..24
=========================================================================
