--------------------------- MODULE AppointmentBook ---------------------------
(***************************************************************************)
(* What the appointment store promises, without drafts, holds, clocks or   *)
(* requests in flight: a book whose entries are made, moved and struck out *)
(* one at a time, in which no two standing entries of a resource overlap.  *)
(***************************************************************************)
EXTENDS Integers

CONSTANTS Appointments, Resources

VARIABLE book   \* book[a]: the entry of appointment a

Free(a, r, lo, hi) ==
  \A o \in Appointments \ {a} :
    book[o].status = "confirmed" /\ book[o].resource = r =>
      book[o].end <= lo \/ hi <= book[o].start

Init == \A a \in Appointments : book[a].status = "unused"

\* Only the entry of a changes, to a standing entry on free time.
Write(a) ==
  LET entry == book'[a]
  IN /\ entry.status = "confirmed"
     /\ entry.resource \in Resources
     /\ entry.start < entry.end
     /\ Free(a, entry.resource, entry.start, entry.end)
     /\ book' = [book EXCEPT ![a] = entry]

\* A new appointment is confirmed.
Make(a) == book[a].status = "unused" /\ Write(a)

\* A confirmed appointment is rescheduled in one step.
Move(a) == book[a].status = "confirmed" /\ Write(a)

\* A confirmed appointment is cancelled, for good.
Strike(a) ==
  /\ book[a].status = "confirmed"
  /\ book' = [book EXCEPT ![a].status = "cancelled"]

Next == \E a \in Appointments : Make(a) \/ Move(a) \/ Strike(a)

Spec == Init /\ [][Next]_book
=============================================================================
