------------------------------- MODULE Booking -------------------------------
(***************************************************************************)
(* The appointment store: drafts, slot holds and appointments of one       *)
(* tenant, as the transactions of SQLAlchemyBookingStore change them.      *)
(*                                                                         *)
(* A request reads the clock before its transaction starts, so what it     *)
(* decides may rest on a past instant: a transaction that is one step here *)
(* uses any reading of Readings, and a transaction of several steps keeps  *)
(* the reading it began with.  MaxLag bounds the age of a reading when it  *)
(* is used.  A request is split where PostgreSQL's READ COMMITTED lets        *)
(* another transaction commit in between: after a read without a lock, and *)
(* while it waits for an advisory lock.  Every refusal rolls back, so a    *)
(* refused request is Rollback, which a crash may cause as well.           *)
(***************************************************************************)
EXTENDS Integers, FiniteSets, Sequences

CONSTANTS
  Customers,       \* customers, each with one conversation (its identity)
  Services,        \* active, bookable services
  Resources,       \* single-capacity resources, in the order of their ids
  Opens,           \* Opens[sv]: grid instants at which sv fits an opening
  Duration,        \* Duration[sv] of the appointment
  Buffer,          \* Buffer[sv]: cleanup time after it
  DayLength,       \* ticks of a local day
  MinimumNotice, BookingHorizon, HoldDuration, DraftDuration, ChangeCutoff,
  Drafts, Holds, Bookings,   \* row identifiers
  Requests,        \* handler invocations in flight
  ExpiryLimit,     \* rows one run of expire_holds takes
  MaxLag,          \* bound: ticks between reading the clock and using it
  MaxTime,         \* bound: last tick
  Nil

ASSUME BookingAssumption ==
  /\ Resources \subseteq Nat /\ IsFiniteSet(Resources)
  /\ Opens \in [Services -> SUBSET Nat]
  /\ Duration \in [Services -> Nat \ {0}]
  /\ Buffer \in [Services -> Nat]
  /\ DayLength \in Nat \ {0}
  /\ {MinimumNotice, BookingHorizon, HoldDuration, DraftDuration} \subseteq Nat
  /\ {ChangeCutoff, ExpiryLimit, MaxLag, MaxTime} \subseteq Nat
  /\ Nil \notin Customers \cup Services \cup Resources \cup Drafts
                \cup Holds \cup Bookings \cup Nat

VARIABLES
  clock,
  serving,      \* tenants.status is active and its booking entitlement enabled
  drafts,      \* booking_drafts
  holds,       \* slot_holds
  bookings,    \* bookings with their booking_status_history
  outbox,      \* outbox_events written with an appointment change
  workflow,    \* conversations.active_workflow
  req          \* requests in flight

vars == <<clock, serving, drafts, holds, bookings, outbox, workflow, req>>
store == <<serving, drafts, holds, bookings, outbox, workflow>>

-----------------------------------------------------------------------------
(* Rows *)

NoDraft == [status |-> "unused", customer |-> Nil, service |-> Nil,
            reschedules |-> Nil, date |-> Nil, contact |-> "none",
            hold |-> Nil, expires |-> 0]

NoHold == [status |-> "unused", draft |-> Nil, label |-> 0, service |-> Nil,
           resource |-> Nil, start |-> 0, end |-> 0, expires |-> 0]

NoBooking == [status |-> "unused", customer |-> Nil, service |-> Nil,
              resource |-> Nil, hold |-> Nil, start |-> 0, end |-> 0,
              key |-> Nil, history |-> <<>>]

NoRequest == [step |-> "idle", draft |-> Nil, hold |-> Nil, wanted |-> 0,
              choice |-> 0, slot |-> <<0, Nil>>, now |-> 0]

Statuses == {"held", "confirmed", "reschedule_pending", "cancelled", "draft"}
Workflows == {"none", "booking:date", "booking:name",
              "booking:phone", "booking:review"}
Steps == {"idle", "choose", "recheck", "answered", "confirm", "refused",
          "expire_draft", "expire_hold"}

DraftRow == [status : {"unused", "active", "cancelled", "expired", "confirmed"},
             customer : Customers \cup {Nil}, service : Services \cup {Nil},
             reschedules : Bookings \cup {Nil}, date : Nat \cup {Nil},
             contact : {"none", "name", "both"}, hold : Holds \cup {Nil},
             expires : Nat]

HoldRow == [status : {"unused", "active", "released", "expired", "consumed"},
            draft : Drafts \cup {Nil}, label : Nat,
            service : Services \cup {Nil}, resource : Resources \cup {Nil},
            start : Nat, end : Nat, expires : Nat]

BookingRow == [status : {"unused", "confirmed", "cancelled"},
               customer : Customers \cup {Nil}, service : Services \cup {Nil},
               resource : Resources \cup {Nil}, hold : Holds \cup {Nil},
               start : Nat, end : Nat, key : Drafts \cup {Nil},
               history : Seq(Statuses \X Statuses)]

Request == [step : Steps, draft : Drafts \cup {Nil}, hold : Holds \cup {Nil},
            wanted : Nat, choice : Nat,
            slot : Nat \X (Resources \cup {Nil}), now : Nat]

Event == {"confirmed", "rescheduled", "cancelled"} \X Bookings \X Nat

TypeOK ==
  /\ clock \in Nat
  /\ serving \in BOOLEAN
  /\ drafts \in [Drafts -> DraftRow]
  /\ holds \in [Holds -> HoldRow]
  /\ bookings \in [Bookings -> BookingRow]
  /\ outbox \subseteq Event
  /\ workflow \in [Customers -> Workflows]
  /\ req \in [Requests -> Request]

-----------------------------------------------------------------------------
(* Availability *)

\* Every instant some service may start at.
Grid == UNION {Opens[sv] : sv \in Services}

Overlap(lo1, hi1, lo2, hi2) == lo1 < hi2 /\ lo2 < hi1

BusyIgnoringHolds(hs, r, lo, hi, now) ==                     \* faulty variant
  \E b \in Bookings : /\ bookings[b].status = "confirmed"
                      /\ bookings[b].resource = r
                      /\ Overlap(bookings[b].start, bookings[b].end, lo, hi)

BusyIgnoringCleanup(hs, r, lo, hi, now) ==                   \* faulty variant
  \/ BusyIgnoringHolds(hs, r, lo, hi, now)
  \/ \E h \in Holds : /\ hs[h].status = "active" /\ hs[h].resource = r
                       /\ hs[h].expires > now
                       /\ Overlap(hs[h].start, hs[h].end, lo, hi)

\* [lo, hi) on resource r meets an appointment and its cleanup time, or an
\* unexpired hold, among the rows the query at instant now returns.
Busy(hs, r, lo, hi, now) ==
  \/ \E b \in Bookings :
       /\ bookings[b].status = "confirmed"
       /\ bookings[b].resource = r
       /\ bookings[b].end > now
       /\ Overlap(bookings[b].start,
                  bookings[b].end + Buffer[bookings[b].service], lo, hi)
  \/ \E h \in Holds :
       /\ hs[h].status = "active"
       /\ hs[h].resource = r
       /\ hs[h].expires > now
       /\ hs[h].end > now
       /\ Overlap(hs[h].start, hs[h].end, lo, hi)

\* calculate_availability: one slot per start, on the first free resource.
Slots(hs, sv, date, now) ==
  LET occupied(s) == s + Duration[sv] + Buffer[sv]
      free(s, r) == ~Busy(hs, r, s, occupied(s), now)
  IN {slot \in Opens[sv] \X Resources :
        LET s == slot[1]
            r == slot[2]
        IN /\ s \div DayLength = date
           /\ now + MinimumNotice <= s
           /\ s <= now + BookingHorizon
           /\ free(s, r)
           /\ \A q \in Resources : q < r => ~free(s, q)}

PositionFromMinusOne(slot, slots) ==                         \* faulty variant
  Cardinality({other \in slots : other[1] < slot[1]}) - 1

\* The place of a slot in the list the engine returns, sorted by start.
Position(slot, slots) == Cardinality({other \in slots : other[1] < slot[1]})

\* booking_slot_page: the button of a slot carries its local time of day.
Label(s) == s % DayLength

-----------------------------------------------------------------------------
(* Clock readings, locks and identities *)

Readings == {now \in 0..clock : clock - now <= MaxLag}

\* SELECT ... FOR UPDATE on a draft held while waiting for a resource lock.
Locked(d) == \E t \in Requests : req[t].step = "recheck" /\ req[t].draft = d

ActiveDrafts(c) ==
  {d \in Drafts : drafts[d].status = "active" /\ drafts[d].customer = c}

\* _owned_draft: the locked draft is active and not expired at now.
Owned(d, now) ==
  /\ ~Locked(d)
  /\ drafts[d].status = "active"
  /\ now < drafts[d].expires

\* Rows of which are set to status to, if they are active.
Retire(which, to) ==
  [h \in Holds |-> IF h \in which /\ holds[h].status = "active"
                     THEN [holds[h] EXCEPT !.status = to]
                     ELSE holds[h]]

-----------------------------------------------------------------------------
Init ==
  /\ clock = 0
  /\ serving = TRUE
  /\ drafts = [d \in Drafts |-> NoDraft]
  /\ holds = [h \in Holds |-> NoHold]
  /\ bookings = [b \in Bookings |-> NoBooking]
  /\ outbox = {}
  /\ workflow = [c \in Customers |-> "none"]
  /\ req = [t \in Requests |-> NoRequest]

(* Drafts *)

\* start_draft, under the identity lock; rb is the appointment to move.
StartDraft(c, sv, rb) ==
  \E now \in Readings, d \in Drafts :
    /\ drafts[d].status = "unused"
    /\ Resources # {}
    /\ rb # Nil => /\ bookings[rb].status = "confirmed"
                   /\ bookings[rb].customer = c
                   /\ bookings[rb].service = sv
    /\ \A e \in ActiveDrafts(c) : ~Locked(e)
    /\ drafts' = [e \in Drafts |->
         IF e = d
           THEN [NoDraft EXCEPT !.status = "active", !.customer = c,
                                !.service = sv, !.reschedules = rb,
                                !.expires = now + DraftDuration]
         ELSE IF e \in ActiveDrafts(c)
           THEN [drafts[e] EXCEPT !.status = "cancelled"]
         ELSE drafts[e]]
    /\ holds' = Retire({h \in Holds : /\ holds[h].draft # Nil
                                      /\ drafts[holds[h].draft].customer = c},
                       "released")
    /\ workflow' = [workflow EXCEPT ![c] = "booking:date"]
    /\ UNCHANGED <<clock, serving, bookings, outbox, req>>

\* select_date, for a date from today to the horizon.
SelectDate(d, date) ==
  \E now \in Readings :
    /\ Owned(d, now)
    /\ now \div DayLength <= date
    /\ date <= (now + BookingHorizon) \div DayLength
    /\ drafts' = [drafts EXCEPT ![d].date = date]
    /\ UNCHANGED <<clock, serving, holds, bookings, outbox, workflow, req>>

\* booking_text: once a time is held, the customer's next two texts are the
\* name and the phone; update_contact with a valid value.
UpdateContact(d) ==
  \E now \in Readings :
    /\ Owned(d, now)
    /\ drafts[d].hold # Nil
    /\ drafts[d].contact # "both"
    /\ LET named == drafts[d].contact = "name"
       IN /\ drafts' = [drafts EXCEPT ![d].contact =
                          IF named THEN "both" ELSE "name"]
          /\ workflow' = [workflow EXCEPT ![drafts[d].customer] =
                          IF named THEN "booking:review" ELSE "booking:phone"]
    /\ UNCHANGED <<clock, serving, holds, bookings, outbox, req>>

\* cancel_draft, under the identity lock.
CancelDraft(c) ==
  /\ ActiveDrafts(c) # {}
  /\ \A d \in ActiveDrafts(c) : ~Locked(d)
  /\ drafts' = [d \in Drafts |-> IF d \in ActiveDrafts(c)
                                   THEN [drafts[d] EXCEPT !.status = "cancelled"]
                                   ELSE drafts[d]]
  /\ holds' = Retire({h \in Holds : holds[h].draft \in ActiveDrafts(c)},
                     "released")
  /\ workflow' = [workflow EXCEPT ![c] = "none"]
  /\ UNCHANGED <<clock, serving, bookings, outbox, req>>

\* get_active_draft reads, without a lock, a draft that has expired ...
ReadExpiredDraft(t, d) ==
  /\ req[t].step = "idle"
  /\ drafts[d].status = "active"
  /\ drafts[d].expires <= clock
  /\ req' = [req EXCEPT ![t] = [NoRequest EXCEPT
       !.step = "expire_draft", !.draft = d, !.hold = drafts[d].hold]]
  /\ UNCHANGED <<clock, store>>

\* ... and writes its status, whatever it is by now.
ExpireDraft(t) ==
  LET d == req[t].draft
  IN /\ req[t].step = "expire_draft"
     /\ ~Locked(d)
     /\ holds' = Retire({req[t].hold}, "expired")
     /\ drafts' = [drafts EXCEPT ![d].status = "expired"]
     /\ req' = [req EXCEPT ![t] = NoRequest]
     /\ UNCHANGED <<clock, serving, bookings, outbox, workflow>>

(* Holds *)

\* choose_booking_slot: the button of the slot starting at s is pressed.  The
\* list is computed in a transaction of its own; create_hold gets the place
\* of the slot in it.
PressSlot(t, d, s) ==
  /\ req[t].step = "idle"
  /\ Owned(d, clock)
  /\ drafts[d].date # Nil
  /\ LET slots == Slots(holds, drafts[d].service, drafts[d].date, clock)
     IN \E slot \in slots :
          /\ slot[1] = s
          /\ req' = [req EXCEPT ![t] = [NoRequest EXCEPT
               !.step = "choose", !.draft = d, !.wanted = s,
               !.choice = Position(slot, slots)]]
  /\ UNCHANGED <<clock, store>>

\* Holds made under the button that t's customer pressed: the idempotency key
\* names the draft and the label of the button.
Made(t) ==
  {h \in Holds : /\ holds[h].status # "unused"
                 /\ holds[h].draft = req[t].draft
                 /\ holds[h].label = Label(req[t].wanted)}

\* The answer to the press: hold h.
Answered(t, h) == [NoRequest EXCEPT !.step = "answered", !.hold = h,
                     !.draft = req[t].draft, !.wanted = req[t].wanted]

\* create_hold, repeated key: the hold is the answer, whatever became of it.
ReturnHold(t) ==
  /\ req[t].step = "choose"
  /\ \E h \in Made(t) :
       req' = [req EXCEPT ![t] = Answered(t, h)]
  /\ UNCHANGED <<clock, store>>

\* create_hold, new key: lock the draft and take the slot at the given place
\* of the list as it is now; then wait for the lock of that slot's resource.
ChooseSlot(t) ==
  LET d == req[t].draft
  IN /\ req[t].step = "choose"
     /\ Made(t) = {}
     /\ \E now \in Readings :
          LET slots == Slots(holds, drafts[d].service, drafts[d].date, now)
          IN /\ Owned(d, now)
             /\ \E slot \in slots :
                  /\ Position(slot, slots) = req[t].choice
                  /\ req' = [req EXCEPT ![t].step = "recheck",
                                        ![t].slot = slot, ![t].now = now]
     /\ UNCHANGED <<clock, store>>

\* With the resource locked: release the draft's own hold, read availability
\* again, and insert the hold if the slot is still free.
TakeHold(t) ==
  LET d == req[t].draft
      sv == drafts[d].service
      s == req[t].slot[1]
      released == Retire({drafts[d].hold}, "released")
  IN /\ req[t].step = "recheck"
     /\ req[t].now + HoldDuration <= MaxTime   \* bound: it can expire
     /\ req[t].slot \in Slots(released, sv, drafts[d].date, req[t].now)
     /\ \E h \in Holds :
          /\ holds[h].status = "unused"
          /\ holds' = [released EXCEPT ![h] =
               [status |-> "active", draft |-> d,
                label |-> Label(req[t].wanted), service |-> sv,
                resource |-> req[t].slot[2], start |-> s,
                end |-> s + Duration[sv] + Buffer[sv],
                expires |-> req[t].now + HoldDuration]]
          /\ drafts' = [drafts EXCEPT ![d].hold = h]
          /\ req' = [req EXCEPT ![t] = Answered(t, h)]
     /\ workflow' = [workflow EXCEPT ![drafts[d].customer] = "booking:name"]
     /\ UNCHANGED <<clock, serving, bookings, outbox>>

\* get_hold reads, without a lock, an active hold that has expired ...
ReadExpiredHold(t, h) ==
  /\ req[t].step = "idle"
  /\ holds[h].status = "active"
  /\ holds[h].expires <= clock
  /\ req' = [req EXCEPT ![t] = [NoRequest EXCEPT
       !.step = "expire_hold", !.hold = h]]
  /\ UNCHANGED <<clock, store>>

\* ... and writes its status, whatever it is by now.
ExpireHold(t) ==
  /\ req[t].step = "expire_hold"
  /\ holds' = [holds EXCEPT ![req[t].hold].status = "expired"]
  /\ req' = [req EXCEPT ![t] = NoRequest]
  /\ UNCHANGED <<clock, serving, drafts, bookings, outbox, workflow>>

\* The holds an expiry run at instant now looks for.
DueOfClosedDrafts(now) ==                                    \* faulty variant
  {h \in Holds : /\ serving
                 /\ holds[h].status = "active" /\ holds[h].expires <= now
                 /\ drafts[holds[h].draft].status # "active"}

Due(now) ==
  {h \in Holds : serving /\ holds[h].status = "active" /\ holds[h].expires <= now}

\* expire_holds: at most ExpiryLimit of the expired holds; which ones depends
\* on the rows it skips because another transaction has them locked.  It
\* passes over a tenant that is suspended or may not take bookings.
ExpireHolds ==
  \E now \in Readings : \E due \in SUBSET Due(now) :
    /\ due # {}
    /\ Cardinality(due) <= ExpiryLimit
    /\ holds' = Retire(due, "expired")
    /\ UNCHANGED <<clock, serving, drafts, bookings, outbox, workflow, req>>

(* Appointments *)

NoConstraint(b, r, lo, hi) == TRUE                           \* faulty variant

\* ex_bookings_resource_active_overlap: the exclusion constraint on the
\* [start, end) of the other confirmed appointments of the resource.
NoClash(b, r, lo, hi) ==
  \A o \in Bookings \ {b} :
    bookings[o].status = "confirmed" /\ bookings[o].resource = r =>
      ~Overlap(bookings[o].start, bookings[o].end, lo, hi)

\* The appointment a retry of d's confirmation finds: by idempotency key, or
\* by the hold of the draft once that is confirmed.
Confirmed(d) ==
  {b \in Bookings :
     \/ bookings[b].key = d
     \/ /\ drafts[d].status = "confirmed"
        /\ drafts[d].hold # Nil
        /\ bookings[b].hold = drafts[d].hold}

\* The button of the review is pressed, maybe again; confirm's first read:
\* nothing was committed for this draft yet.
RequestConfirm(t, d) ==
  /\ req[t].step = "idle"
  /\ drafts[d].contact = "both"
  /\ Confirmed(d) = {}
  /\ req' = [req EXCEPT ![t] = [NoRequest EXCEPT
       !.step = "confirm", !.draft = d, !.now = clock]]
  /\ UNCHANGED <<clock, store>>

ConfirmableExpired(d, now) ==                                \* faulty variant
  /\ Owned(d, now) /\ drafts[d].hold # Nil /\ drafts[d].contact = "both"
  /\ holds[drafts[d].hold].status = "active"

ConfirmableAgain(d, now) ==                                  \* faulty variant
  /\ ~Locked(d) /\ drafts[d].hold # Nil /\ drafts[d].contact = "both"
  /\ now < holds[drafts[d].hold].expires

\* The draft is owned, complete, and its hold active and unexpired.
Confirmable(d, now) ==
  /\ Owned(d, now)
  /\ drafts[d].hold # Nil
  /\ drafts[d].contact = "both"
  /\ holds[drafts[d].hold].status = "active"
  /\ now < holds[drafts[d].hold].expires

\* The rest of confirm, once the appointment row is written.
Consume(t, d) ==
  /\ holds' = [holds EXCEPT ![drafts[d].hold].status = "consumed"]
  /\ drafts' = [drafts EXCEPT ![d].status = "confirmed"]
  /\ workflow' = [workflow EXCEPT ![drafts[d].customer] = "none"]
  /\ req' = [req EXCEPT ![t] = NoRequest]
  /\ UNCHANGED <<clock, serving>>

\* confirm of a new appointment.
ConfirmNew(t) ==
  LET d == req[t].draft
      h == drafts[d].hold
      end == holds[h].start + Duration[holds[h].service]
  IN /\ req[t].step = "confirm"
     /\ Confirmable(d, req[t].now)
     /\ drafts[d].reschedules = Nil
     /\ \E b \in Bookings :
          /\ bookings[b].status = "unused"
          /\ NoClash(b, holds[h].resource, holds[h].start, end)
          /\ bookings' = [bookings EXCEPT ![b] =
               [status |-> "confirmed", customer |-> drafts[d].customer,
                service |-> holds[h].service, resource |-> holds[h].resource,
                hold |-> h, start |-> holds[h].start, end |-> end, key |-> d,
                history |-> <<<<"draft", "held">>, <<"held", "confirmed">>>>]]
          /\ outbox' = outbox \cup {<<"confirmed", b, 0>>}
     /\ Consume(t, d)

\* _next_history_sequence.
SequenceReused(past) == Len(past)                            \* faulty variant
NextSequence(past) == Len(past) + 1

\* An appointment may be changed until ChangeCutoff before its start.
BeforeCutoff(b, now) == bookings[b].start - now >= ChangeCutoff

\* confirm of a draft that reschedules an appointment: it moves in place.
ConfirmReschedule(t) ==
  LET d == req[t].draft
      h == drafts[d].hold
      b == drafts[d].reschedules
      end == holds[h].start + Duration[holds[h].service]
      past == bookings[b].history
  IN /\ req[t].step = "confirm"
     /\ Confirmable(d, req[t].now)
     /\ b # Nil
     /\ bookings[b].status = "confirmed"
     /\ BeforeCutoff(b, req[t].now)
     /\ NoClash(b, holds[h].resource, holds[h].start, end)
     /\ bookings' = [bookings EXCEPT ![b] =
          [@ EXCEPT !.resource = holds[h].resource, !.hold = h,
                    !.start = holds[h].start, !.end = end,
                    !.history = past \o
                      <<<<"confirmed", "reschedule_pending">>,
                        <<"reschedule_pending", "confirmed">>>>]]
     /\ outbox' = outbox \cup {<<"rescheduled", b, NextSequence(past)>>}
     /\ Consume(t, d)

\* confirm finds the draft locked by it no longer active: "not found".
RefuseConfirm(t) ==
  /\ req[t].step = "confirm"
  /\ ~Locked(req[t].draft)
  /\ drafts[req[t].draft].status # "active"
  /\ req' = [req EXCEPT ![t].step = "refused", ![t].now = 0]
  /\ UNCHANGED <<clock, store>>

\* cancel_booking.
CancelBooking(b) ==
  \E now \in Readings :
    /\ bookings[b].status = "confirmed"
    /\ BeforeCutoff(b, now)
    /\ bookings' = [bookings EXCEPT ![b] =
         [bookings[b] EXCEPT
            !.status = "cancelled",
            !.history = Append(@, <<"confirmed", "cancelled">>)]]
    /\ outbox' = outbox \cup {<<"cancelled", b, 0>>}
    /\ UNCHANGED <<clock, serving, drafts, holds, workflow, req>>

(* Environment *)

\* A request in flight is refused, or its process dies: nothing is committed.
Rollback(t) ==
  /\ req[t].step \notin {"idle", "answered", "refused"}
  /\ req' = [req EXCEPT ![t] = NoRequest]
  /\ UNCHANGED <<clock, store>>

\* The customer has got the answer.
Answer(t) ==
  /\ req[t].step \in {"answered", "refused"}
  /\ req' = [req EXCEPT ![t] = NoRequest]
  /\ UNCHANGED <<clock, store>>

\* The tenant's administrators suspend or reactivate it, or change its booking
\* entitlement.  The entry points ask for both in a
\* transaction of their own, before the handler starts, and the store does
\* not ask again: a handler let in before still takes any of its steps.
ChangeService ==
  /\ serving' = ~serving
  /\ UNCHANGED <<clock, drafts, holds, bookings, outbox, workflow, req>>

Tick ==
  /\ clock < MaxTime
  /\ \A t \in Requests :
       req[t].step \in {"recheck", "confirm"} => clock - req[t].now < MaxLag
  /\ clock' = clock + 1
  /\ UNCHANGED <<store, req>>

-----------------------------------------------------------------------------
RequestStep(t) ==
  \/ \E d \in Drafts : ReadExpiredDraft(t, d) \/ RequestConfirm(t, d)
  \/ \E d \in Drafts, s \in Grid : PressSlot(t, d, s)
  \/ \E h \in Holds : ReadExpiredHold(t, h)
  \/ ExpireDraft(t) \/ ExpireHold(t)
  \/ ReturnHold(t) \/ ChooseSlot(t) \/ TakeHold(t)
  \/ ConfirmNew(t) \/ ConfirmReschedule(t) \/ RefuseConfirm(t)
  \/ Rollback(t) \/ Answer(t)

CustomerStep(c) ==
  \/ CancelDraft(c)
  \/ \E sv \in Services, rb \in Bookings \cup {Nil} : StartDraft(c, sv, rb)

Next ==
  \/ \E t \in Requests : RequestStep(t)
  \/ \E c \in Customers : CustomerStep(c)
  \/ \E d \in Drafts, s \in Grid : SelectDate(d, s \div DayLength)
  \/ \E d \in Drafts : UpdateContact(d)
  \/ \E b \in Bookings : CancelBooking(b)
  \/ ExpireHolds
  \/ ChangeService \/ Tick

Spec == Init /\ [][Next]_vars

-----------------------------------------------------------------------------
(* Properties *)

\* A hold that no reader of an up-to-date clock may ignore.
Live(h) == holds[h].status = "active" /\ clock < holds[h].expires

Booked(b) == bookings[b].status = "confirmed"

\* The end of the cleanup time of an appointment.
CleanupEnd(b) == bookings[b].end + Buffer[bookings[b].service]

\* Two live holds never claim the same time of one resource, however old the
\* clock readings of the create_hold calls that made them.
LiveHoldsDisjoint ==
  \A h, g \in Holds :
    Live(h) /\ Live(g) /\ h # g /\ holds[h].resource = holds[g].resource =>
      ~Overlap(holds[h].start, holds[h].end, holds[g].start, holds[g].end)

\* A live hold is never on time that an appointment or its cleanup takes, so
\* that confirming it can not fail on the exclusion constraint.  This is what
\* re-reading availability under the resource lock is for; confirm, which
\* does not re-read it, keeps it only if its clock reading is current.
HoldsClearOfAppointments ==
  \A h \in Holds, b \in Bookings :
    Live(h) /\ Booked(b) /\ holds[h].resource = bookings[b].resource =>
      ~Overlap(holds[h].start, holds[h].end, bookings[b].start, CleanupEnd(b))

\* No appointment starts in the cleanup time of another: the exclusion
\* constraint knows nothing of the cleanup time, only the holds reserve it.
CleanupRespected ==
  \A b, o \in Bookings :
    /\ Booked(b) /\ Booked(o) /\ b # o
    /\ bookings[b].resource = bookings[o].resource
    => ~Overlap(bookings[b].start, CleanupEnd(b),
                bookings[o].start, CleanupEnd(o))

\* Every draft pays for one change at most: no two appointments come from one
\* draft or rest on one hold, through double presses and retries.
OneAppointmentPerDraft ==
  \A b, o \in Bookings :
    b # o /\ bookings[b].status # "unused" /\ bookings[o].status # "unused" =>
      bookings[b].key # bookings[o].key /\ bookings[b].hold # bookings[o].hold

\* The status history of an appointment is a chain from its draft to its
\* present status, and every customer-visible link of it wrote its event.
HistoryAndEvents ==
  \A b \in Bookings :
    LET past == bookings[b].history
    IN bookings[b].status # "unused" =>
       /\ past[1][1] = "draft"
       /\ past[Len(past)][2] = bookings[b].status
       /\ \A i \in 2..Len(past) : past[i][1] = past[i - 1][2]
       /\ {e \in outbox : e[2] = b} =
            {<<"confirmed", b, 0>>}
            \cup {<<"cancelled", b, 0>> : i \in {j \in 1..Len(past) :
                                            past[j][2] = "cancelled"}}
            \cup {<<"rescheduled", b, i>> : i \in {j \in 1..Len(past) :
                                            past[j][2] = "reschedule_pending"}}

\* An appointment is made or moved by consuming a hold that had not expired
\* (by more than the age of the clock reading), and it takes the held time.
ConfirmConsumesLiveHold ==
  [][\A b \in Bookings :
       Booked(b)' /\ (~Booked(b) \/ bookings'[b].start # bookings[b].start) =>
         LET h == bookings'[b].hold
         IN /\ holds[h].status = "active"
            /\ holds'[h].status = "consumed"
            /\ clock < holds[h].expires + MaxLag
            /\ bookings'[b].start = holds[h].start
            /\ bookings'[b].resource = holds[h].resource]_vars

\* The store implements the appointment book: under any age of the clock
\* readings, appointments are made, moved and cancelled one at a time, in one
\* step each, and never overlap.
Book == INSTANCE AppointmentBook
          WITH Appointments <- Bookings,
               book <- [b \in Bookings |->
                          [status   |-> bookings[b].status,
                           resource |-> bookings[b].resource,
                           start    |-> bookings[b].start,
                           end      |-> bookings[b].end]]
ImplementsAppointmentBook == Book!Spec

\* The expiry job frees every hold that is not consumed, whatever became of
\* its draft, unless the tenant is suspended or loses the entitlement first: its
\* holds then stay, and those that are left end once it is back for good.
HoldsEnd ==
  \A h \in Holds :
    holds[h].status = "active" ~> holds[h].status # "active" \/ ~serving

\* A transaction in flight commits or is rolled back.
Finish(t) ==
  \/ TakeHold(t)
  \/ ConfirmNew(t) \/ ConfirmReschedule(t) \/ RefuseConfirm(t)
  \/ Rollback(t)

\* Time passes, although transactions that take at most MaxLag hold Tick back
\* for a moment, and the worker's beat keeps starting expire_holds, which has
\* something to do only for a tenant in service.  PostgreSQL ends every
\* transaction.  Nothing obliges a customer to act, a request to succeed, or
\* the tenant to stay in service.
FairSpec ==
  /\ Spec
  /\ SF_vars(Tick)
  /\ WF_vars(ExpireHolds)
  /\ \A t \in Requests : WF_vars(Finish(t))

=============================================================================
