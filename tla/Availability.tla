----------------------------- MODULE Availability -----------------------------
(***************************************************************************)
(* The questions that a company's schedules answer: whether it is open,    *)
(* when it opens next, by when a case is due, and which times of a date a  *)
(* service, active and bookable, can be booked at, from the schedules and  *)
(* the diaries of its resources.  A question changes nothing but its       *)
(* answer.                                                                 *)
(***************************************************************************)
EXTENDS BusinessHours

CONSTANTS
  Companies,       \* the companies that are asked
  Resources,       \* resources, in the order of their ids
  Diaries,         \* sets of busy periods that a resource may have
  Instants,        \* instants that are asked about
  Dates,           \* dates that are asked about
  ServiceTimes,    \* durations that a response may take
  SlotInterval, Duration, CleanupBuffer, MinimumNotice, BookingHorizon

ASSUME AvailabilityAssumption ==
  /\ ServiceTimes \subseteq Int /\ Resources \subseteq Nat /\ Instants \subseteq Nat /\ Dates \subseteq Nat
  /\ {SlotInterval, Duration} \subseteq Nat \ {0}
  /\ {CleanupBuffer, MinimumNotice, BookingHorizon} \subseteq Nat
  /\ \A d \in Diaries : /\ IsFiniteSet(d)
                        /\ \A p \in d : /\ {p.start, p.end} \subseteq Int /\ p.start < p.end
                                        /\ p.used \in Nat
  /\ \A c \in Companies :
       /\ c.zone.at \in Int /\ c.zone.shift \in -DayLength..DayLength
       /\ ValidSchedule(c.hours)
       /\ \A r \in Resources : /\ ValidSchedule(c.resources[r].hours)
                               /\ c.resources[r].capacity \in Nat \ {0}

VARIABLES
  company,
  diary,           \* appointments with their cleanup, unexpired holds, absences
  answer

vars == <<company, diary, answer>>

Unasked == [question |-> "none", at |-> 0, about |-> 0, result |-> {}]

\* What _availability_context and _load_schedule read.
Init ==
  /\ company \in Companies
  /\ diary \in [Resources -> Diaries]
  /\ answer = Unasked

\* A question is answered with pairs of an instant and, of a slot, a resource.
One(instant) == {<<instant, Never>>}

\* One question is enough: no answer depends on an earlier one.
Answer(question, at, about, result) ==
  /\ answer = Unasked
  /\ answer' = [question |-> question, at |-> at, about |-> about, result |-> result]
  /\ UNCHANGED <<company, diary>>

-----------------------------------------------------------------------------
(* Hours *)

Today(i) == Date(company.zone, i)

Valid(date) == IsValid(company.hours, company.zone, date)

\* GetBusinessStatus and GetNextOpening, which the Telegram page asks together:
\* an instant at which the company is open is the answer itself.
AskNextOpening(at) ==
  Answer("next", at, 0,
         One(IF ~Valid(Today(at)) THEN Invalid
             ELSE IF IsOpen(company.hours, company.zone, at) THEN at
             ELSE NextOpening(company.hours, company.zone, at)))

\* The response deadline of a case that is requested or queued.
AskDueAt(at, time) == Answer("due", at, time, One(DueAt(company.hours, company.zone, at, time)))

-----------------------------------------------------------------------------
(* Slots *)

\* The places that busy periods take up.
UsedBy(periods) == MapThenSumSet(LAMBDA p : p.used, periods)

Used(r, from, to) == UsedBy({p \in diary[r] : p.start < to /\ from < p.end})

HasCapacity(r, from, to) == Used(r, from, to) < company.resources[r].capacity

ClosesAfterTheEnd(start, date, closing) ==                   \* faulty variant
  Local(company.zone, start + Duration) <= date * DayLength + closing

\* An appointment and its cleanup end by the closing time of its own date.
EndsInTime(start, date, closing) ==
  LET end == start + Duration + CleanupBuffer
  IN  /\ Date(company.zone, end) = date
      /\ Local(company.zone, end) <= date * DayLength + closing

\* The steps of the grid, which counts from midnight, in the hours of a date.
Cursors(r, date) ==
  {c \in Times \X Hours(company.resources[r].hours, date) :
     c[1] % SlotInterval = 0 /\ c[2][1] <= c[1] /\ c[1] < c[2][2]}

\* The starts that a resource offers: both instants of a time that is repeated.
Starts(r, date, now) ==
  {start \in UNION {{i \in Candidates(company.zone, date * DayLength + c[1]) :
                       EndsInTime(i, date, c[2][2])} : c \in Cursors(r, date)} :
     /\ now + MinimumNotice <= start /\ start <= now + BookingHorizon
     /\ HasCapacity(r, start, start + Duration + CleanupBuffer)}

Active == {r \in Resources : company.resources[r].active}

\* calculate_availability: a start is offered once, of the first resource.
Slots(date, now) ==
  LET starts == [r \in Active |-> Starts(r, date, now)]
  IN  {<<i, Min({r \in Active : i \in starts[r]})>> : i \in UNION {starts[r] : r \in Active}}

SlotsValid(date) == \A r \in Active : IsValid(company.resources[r].hours, company.zone, date)

\* BookingApplication.availability, and what a date that is pressed shows.
AskSlots(date, now) ==
  Answer("slots", now, date, IF SlotsValid(date) THEN Slots(date, now) ELSE One(Invalid))

\* booking_slot_page, by which the press of a time is found again: the time of
\* day, beyond the last one when the clock shows it for the second time.
Page(start) ==
  LET again == \E i \in Candidates(company.zone, Local(company.zone, start)) : i < start
  IN  Time(company.zone, start) + (IF again THEN DayLength ELSE 0)

-----------------------------------------------------------------------------
Next ==
  \/ \E at \in Instants : \/ AskNextOpening(at)
                          \/ \E time \in ServiceTimes : AskDueAt(at, time)
                          \/ \E date \in Dates : AskSlots(date, at)

Spec == Init /\ [][Next]_vars

-----------------------------------------------------------------------------
(* Properties *)

\* What a schedule tells a reader: the wall clock shows a time in an opening of
\* the day, or of the override that replaces it, and in no break.
AdvertisedIn(s, o, i) ==
  /\ o.open /\ Time(company.zone, i) \in o.start..(o.end - 1)
  /\ \A b \in DayOf(s, Today(i)) : ~b.open => Time(company.zone, i) \notin b.start..(b.end - 1)

Advertised(s, i) == \E o \in DayOf(s, Today(i)) : AdvertisedIn(s, o, i)

\* "An opening uses the earlier instant and a closing uses the later instant,
\* preserving the full advertised wall-time window."
InWindow(s, i) ==
  LET near == (i - 2 * DayLength)..(i + 2 * DayLength)
  IN  \E date \in {Today(j) : j \in near} : \E p \in Hours(s, date) :
        /\ \E j \in near : j <= i /\ Local(company.zone, j) = date * DayLength + p[1]
        /\ \E j \in near : j > i /\ Local(company.zone, j) = date * DayLength + p[2]

\* A date on which the clock repeats a time.
Repeats(date) == \E t \in Times : Cardinality(Candidates(company.zone, date * DayLength + t)) = 2

Asked(question) == answer.question = question /\ answer.result # One(Invalid)

Results == {r[1] : r \in answer.result}

\* The next opening is the first instant at which the company is open by the wall
\* clock, over breaks, overrides, days without hours and skipped times; when the
\* clock is set back it may be a later one, never one at which it is closed.
NextOpeningIsFirst ==
  Asked("next") =>
    \A next \in Results :
      LET last == Today(answer.at) + Horizon
          span == IF next = Never
                  THEN {i \in answer.at..((last + 2) * DayLength) : Today(i) <= last}
                  ELSE answer.at..(next - 1)
      IN  /\ next # Never => Advertised(company.hours, next)
          /\ \A i \in span : Advertised(company.hours, i) => Repeats(Today(i))

\* A response is due when the service time has passed in the hours as they are
\* advertised, each instant counted once, clock changes or not, unless the clock
\* goes back to an earlier date than the one that the count begins with.
DeadlineCountsOpenTime ==
  Asked("due") /\ (\A i \in answer.at..(answer.at + DayLength) : Today(i) >= Today(answer.at)) =>
    \A due \in Results :
      /\ InWindow(company.hours, due - 1)
      /\ Cardinality({i \in answer.at..(due - 1) : InWindow(company.hours, i)}) = answer.about

\* What is offered lies in the resource's hours from the start to the end of the
\* cleanup and finds fewer periods than it has places at every instant; what is
\* wholly idle in one opening of them is offered; and a press finds its own time
\* again.  Two openings that meet are not one: nothing is offered across them.
OfferMatchesTheDiary ==
  Asked("slots") =>
    LET date == answer.about
        Taken(start) == start..(start + Duration + CleanupBuffer - 1)
        HoursOf(r) == company.resources[r].hours
        Places(r, i) == UsedBy({p \in diary[r] : i \in p.start..(p.end - 1)})
        Idle(r, start) == \A i \in Taken(start) : Places(r, i) = 0
        ToBook(start) == start - answer.at \in MinimumNotice..BookingHorizon
    IN  /\ \A slot \in answer.result :
             /\ ToBook(slot[1])
             /\ \A i \in Taken(slot[1]) : /\ InWindow(HoursOf(slot[2]), i)
                                          /\ Places(slot[2], i) < company.resources[slot[2]].capacity
             /\ \A other \in answer.result : Page(other[1]) = Page(slot[1]) => other = slot
        /\ ~Repeats(date) =>
             \A r \in Active, i \in ((date - 1) * DayLength)..((date + 2) * DayLength) :
               /\ Today(i) = date /\ Time(company.zone, i) % SlotInterval = 0
               /\ ToBook(i) /\ Idle(r, i)
               /\ \E o \in DayOf(HoursOf(r), date) :
                    \A j \in Taken(i) : Today(j) = date /\ AdvertisedIn(HoursOf(r), o, j)
               /\ Date(company.zone, i + Duration + CleanupBuffer) = date
               => \E slot \in answer.result : slot[1] = i /\ slot[2] <= r
================================================================================
