---------------------------- MODULE BusinessHours ----------------------------
(***************************************************************************)
(* The schedule engine: what the weekly hours, their breaks, the overrides *)
(* of dates and the clock changes of a zone say about instants.  An        *)
(* instant, a date and a time of day are numbers; DayLength of the ticks   *)
(* that a wall clock shows make a date.  A zone is one clock change: its   *)
(* wall clock shows shift more from the instant at on.                     *)
(***************************************************************************)
EXTENDS Integers, FiniteSetsExt, Folds

CONSTANTS
  DayLength,     \* ticks of a local day
  WeekLength,    \* days of a week
  Horizon        \* days that a search goes on

ASSUME HoursAssumption ==
  DayLength \in Nat \ {0} /\ WeekLength \in Nat \ {0} /\ Horizon \in Nat \ {0}

Times == 0..(DayLength - 1)

\* What stands for no instant, and for an InvalidScheduleError.
Never == -1
Invalid == -2

-----------------------------------------------------------------------------
(* Schedules *)

Interval == {i \in [start : Times, end : Times, open : BOOLEAN] : i.start < i.end}

Overlapping(i, j) == i.start < j.end /\ j.start < i.end

\* What BusinessSchedule accepts for a weekday.  An override is not examined.
ValidDay(day) ==
  /\ day \subseteq Interval
  /\ \A i, j \in day : i.open /\ j.open /\ i # j => ~Overlapping(i, j)
  /\ \A b \in day : b.open \/ \E i \in day : i.open /\ i.start <= b.start /\ b.end <= i.end

ValidOverride(o) ==
  o.first <= o.last /\ o.day \subseteq Interval /\ (o.closed <=> o.day = {})

ValidSchedule(s) ==
  /\ DOMAIN s.week = 0..(WeekLength - 1)
  /\ \A w \in DOMAIN s.week : ValidDay(s.week[w])
  /\ \A o \in s.overrides : ValidOverride(o)

-----------------------------------------------------------------------------
(* The wall clock *)

Local(zone, i) == IF i < zone.at THEN i ELSE i + zone.shift

Date(zone, i) == Local(zone, i) \div DayLength
Time(zone, i) == Local(zone, i) % DayLength

\* _valid_local_candidates: the instants that the clock shows n at, with either
\* fold; a time that the clock skips has none, one that it repeats has two.
Candidates(zone, n) == {i \in {n, n - zone.shift} : Local(zone, i) = n}

CloseEarly(zone, date, t) ==                                 \* faulty variant
  Min(Candidates(zone, date * DayLength + t))

\* resolve_local_boundary of a boundary that has a candidate.
OpenAt(zone, date, t) == Min(Candidates(zone, date * DayLength + t))
CloseAt(zone, date, t) == Max(Candidates(zone, date * DayLength + t))

-----------------------------------------------------------------------------
(* The hours of a date *)

\* What a break leaves of pieces of an opening.
Without(pause, pieces) ==
  UNION {{p \in {<<piece[1], Min({piece[2], pause.start})>>,
                 <<Max({piece[1], pause.end}), piece[2]>>} : p[1] < p[2]} : piece \in pieces}

\* The pieces of an opening, less the breaks of its day.
Pieces(opening, day) ==
  FoldSet(Without, {<<opening.start, opening.end>>}, {b \in day : ~b.open})

\* Whether pieces of two openings overlap.
Clash(day) ==
  \E i, j \in day : /\ i.open /\ j.open /\ i # j
                    /\ \E p \in Pieces(i, day), q \in Pieces(j, day) : p[1] < q[2] /\ q[1] < p[2]

\* override_for: the overrides that apply on a date.
Applying(s, date) == {o \in s.overrides : o.first <= date /\ date <= o.last}

\* An override replaces the hours of its dates.
DayOf(s, date) ==
  IF Applying(s, date) = {} THEN s.week[date % WeekLength]
                            ELSE (CHOOSE o \in Applying(s, date) : TRUE).day

Hours(s, date) == UNION {Pieces(i, DayOf(s, date)) : i \in {j \in DayOf(s, date) : j.open}}

\* Whether effective_day raises no error: one override at most, no clash, and
\* boundaries that the clock shows and that keep their order.
IsValid(s, zone, date) ==
  /\ Cardinality(Applying(s, date)) <= 1
  /\ ~Clash(DayOf(s, date))
  /\ \A p \in Hours(s, date) :
       /\ \A t \in {p[1], p[2]} : Candidates(zone, date * DayLength + t) # {}
       /\ OpenAt(zone, date, p[1]) < CloseAt(zone, date, p[2])

-----------------------------------------------------------------------------
(* Questions *)

OpenAtClosing(s, zone, i) ==                                 \* faulty variant
  \E p \in Hours(s, Date(zone, i)) : p[1] <= Time(zone, i) /\ Time(zone, i) <= p[2]

\* is_open on a valid day: by what the wall clock shows.
IsOpen(s, zone, i) ==
  \E p \in Hours(s, Date(zone, i)) : p[1] <= Time(zone, i) /\ Time(zone, i) < p[2]

\* The openings that next_opening takes on a day of its search; on the first it
\* leaves out those that the wall clock has passed.
Ahead(s, zone, at, offset) ==
  LET date == Date(zone, at) + offset
  IN  {OpenAt(zone, date, p[1]) : p \in {h \in Hours(s, date) :
         (offset = 0 => h[1] > Time(zone, at)) /\ OpenAt(zone, date, h[1]) > at}}

\* next_opening of an instant at which it is not open: the search ends at the
\* first day that has an opening or no valid hours.
NextOpening(s, zone, at) ==
  LET stops == {offset \in 0..Horizon :
                  \/ ~IsValid(s, zone, Date(zone, at) + offset)
                  \/ Ahead(s, zone, at, offset) # {}}
  IN  IF stops = {} THEN Never
      ELSE IF ~IsValid(s, zone, Date(zone, at) + Min(stops)) THEN Invalid
      ELSE Min(Ahead(s, zone, at, Min(stops)))

\* The elapsed time of a piece of the hours.
Span(zone, date, p) == <<OpenAt(zone, date, p[1]), CloseAt(zone, date, p[2])>>

\* What is left of the service time after a span, and the instant it was used up.
Work(work, span) ==
  LET from == Max({work.cursor, span[1]})
  IN  IF work.due # Never \/ from >= span[2] THEN work
      ELSE IF work.left <= span[2] - from THEN [work EXCEPT !.due = from + work.left]
      ELSE [work EXCEPT !.left = @ - (span[2] - from), !.cursor = span[2]]

\* The pieces of a date are worked off in the order of their wall times.
Latest(pieces) == CHOOSE p \in pieces : \A q \in pieces : q[1] <= p[1]

WorkDay(s, zone, date, work) ==
  IF work.due # Never THEN work
  ELSE IF ~IsValid(s, zone, date) THEN [work EXCEPT !.due = Invalid]
  ELSE MapThenFoldSet(LAMBDA p, done : Work(done, Span(zone, date, p)), work, LAMBDA p : p,
                      Latest, Hours(s, date))

\* The dates are worked off one after the other.
WorkDays(s, zone, dates, work) ==
  MapThenFoldSet(LAMBDA date, done : WorkDay(s, zone, date, done), work, LAMBDA date : date,
                 Max, dates)

\* business_due_at: no instant within the horizon is an InvalidScheduleError too.
DueAt(s, zone, at, time) ==
  LET dates == Date(zone, at)..(Date(zone, at) + Horizon)
      work == WorkDays(s, zone, dates, [due |-> Never, left |-> time, cursor |-> at])
  IN  IF time <= 0 \/ work.due = Never THEN Invalid ELSE work.due
=============================================================================
