---------------------------- MODULE BookingProofs ----------------------------
(***************************************************************************)
(* Theorems of Booking for any customers, services, resources, openings    *)
(* and policy.                                                             *)
(***************************************************************************)
EXTENDS Booking, FiniteSetTheorems, TLAPS

-----------------------------------------------------------------------------
(* The inductive invariant *)

\* A row in use is complete, and says what the row it was made from says.
RowsComplete ==
  /\ \A d \in Drafts :
       IF drafts[d].status = "unused"
         THEN drafts[d] = NoDraft
         ELSE drafts[d].customer \in Customers /\ drafts[d].service \in Services
  /\ \A h \in Holds : holds[h].status # "unused" =>
       /\ holds[h].draft \in Drafts
       /\ holds[h].service \in Services
       /\ holds[h].resource \in Resources
       /\ holds[h].end = holds[h].start + Duration[holds[h].service]
                                        + Buffer[holds[h].service]
  /\ \A d \in Drafts : drafts[d].hold # Nil =>
       /\ holds[drafts[d].hold].status # "unused"
       /\ holds[drafts[d].hold].service = drafts[d].service
  /\ \A b \in Bookings : bookings[b].status # "unused" =>
       /\ bookings[b].service \in Services
       /\ bookings[b].resource \in Resources
       /\ bookings[b].end = bookings[b].start + Duration[bookings[b].service]
  /\ \A d \in Drafts : drafts[d].reschedules # Nil =>
       /\ bookings[drafts[d].reschedules].status # "unused"
       /\ bookings[drafts[d].reschedules].service = drafts[d].service

\* A request in flight is about rows in use, and about the recent past.
RequestComplete(r) ==
  /\ r.step \in {"choose", "recheck", "answered", "confirm", "refused",
                 "expire_draft"}
       => r.draft \in Drafts /\ drafts[r.draft].status # "unused"
  /\ r.step \in {"answered", "expire_hold"}
       => r.hold \in Holds /\ holds[r.hold].status # "unused"
  /\ r.step = "recheck"
       => /\ r.slot \in Nat \X Resources
          /\ r.now + MinimumNotice <= r.slot[1]
  /\ r.step \in {"recheck", "confirm"}
       => r.now <= clock /\ clock <= r.now + MaxLag

RequestsComplete == \A t \in Requests : RequestComplete(req[t])

Complete == TypeOK /\ RowsComplete /\ RequestsComplete

-----------------------------------------------------------------------------
(* Lemmas about the operators *)

\* How long a service and the cleaning after it take.
LEMMA ServiceTimes ==
  ASSUME NEW sv \in Services
  PROVE  Duration[sv] \in Nat /\ Duration[sv] > 0 /\ Buffer[sv] \in Nat
BY BookingAssumption

\* Every period the store goes by is a number.
LEMMA PeriodsAreNumbers ==
  /\ MinimumNotice \in Nat /\ BookingHorizon \in Nat /\ HoldDuration \in Nat
  /\ DraftDuration \in Nat /\ ChangeCutoff \in Nat /\ MaxLag \in Nat
BY BookingAssumption

\* What starts at an instant ends, and is cleaned up after, at one.
LEMMA EndIsAnInstant ==
  ASSUME NEW sv \in Services, NEW start \in Nat
  PROVE  /\ start + Duration[sv] \in Nat
         /\ start + Duration[sv] + Buffer[sv] \in Nat
BY ServiceTimes

\* Retiring holds changes nothing but the status of active ones.
LEMMA RetireRetires ==
  ASSUME holds \in [Holds -> HoldRow],
         NEW which, NEW to \in {"released", "expired"}
  PROVE  /\ Retire(which, to) \in [Holds -> HoldRow]
         /\ \A h \in Holds :
              LET new == Retire(which, to)[h]
              IN /\ new = holds[h] \/ (holds[h].status = "active" /\ new.status = to)
                 /\ new.draft = holds[h].draft
                 /\ new.label = holds[h].label
                 /\ new.service = holds[h].service
                 /\ new.resource = holds[h].resource
                 /\ new.start = holds[h].start
                 /\ new.end = holds[h].end
                 /\ new.expires = holds[h].expires
<1>1. Retire(which, to) \in [Holds -> HoldRow]
  BY DEF Retire, HoldRow
<1>2. QED
  BY <1>1 DEF Retire, HoldRow

\* An offered slot is one of the opening instants, with notice, on a resource
\* that is free for the appointment and its cleanup time.
LEMMA SlotIsFree ==
  ASSUME NEW hs, NEW sv \in Services, NEW date, NEW now,
         NEW slot \in Slots(hs, sv, date, now)
  PROVE  /\ slot \in Nat \X Resources
         /\ slot[1] \in Opens[sv]
         /\ now + MinimumNotice <= slot[1]
         /\ ~Busy(hs, slot[2], slot[1],
                  slot[1] + Duration[sv] + Buffer[sv], now)
BY BookingAssumption DEF Slots

\* The place of an offered slot in its list is a number.
LEMMA PositionType ==
  ASSUME NEW hs, NEW sv \in Services, NEW date, NEW now,
         NEW slot \in Slots(hs, sv, date, now)
  PROVE  Position(slot, Slots(hs, sv, date, now)) \in Nat
<1> DEFINE before == {other \in Slots(hs, sv, date, now) : other[1] < slot[1]}
<1>1. slot[1] \in Nat
  BY SlotIsFree
<1>2. before \subseteq (0..slot[1]) \X Resources
  <2> SUFFICES ASSUME NEW other \in before
               PROVE  other \in (0..slot[1]) \X Resources
    OBVIOUS
  <2>1. other \in Nat \X Resources /\ other[1] < slot[1]
    BY SlotIsFree
  <2>2. QED
    BY <1>1, <2>1
<1>3. IsFiniteSet((0..slot[1]) \X Resources)
  <2>1. IsFiniteSet(0..slot[1])
    BY <1>1, FS_Interval
  <2>2. IsFiniteSet(Resources)
    BY BookingAssumption
  <2>3. QED
    BY <2>1, <2>2, FS_Product
<1>4. IsFiniteSet(before)
  BY <1>2, <1>3, FS_Subset
<1>5. QED
  BY <1>4, FS_CardinalityType DEF Position

\* No row in use is freed: what holds of a request's rows keeps holding.
RowsStay ==
  /\ \A d \in Drafts : drafts[d].status # "unused" => drafts'[d].status # "unused"
  /\ \A h \in Holds : holds[h].status # "unused" => holds'[h].status # "unused"

\* A step of request t that leaves t's own entry complete, and takes no row out of
\* use, leaves every request complete.
LEMMA OthersStayComplete ==
  ASSUME RequestsComplete, RowsStay, clock' = clock,
         NEW t \in Requests, NEW r, RequestComplete(r)',
         req \in [Requests -> Request], req' = [req EXCEPT ![t] = r]
  PROVE  RequestsComplete'
BY DEF RequestsComplete, RequestComplete, RowsStay

\* A step that touches no request and takes no row out of use leaves them complete.
LEMMA AllStayComplete ==
  ASSUME RequestsComplete, RowsStay, clock' = clock, req' = req
  PROVE  RequestsComplete'
BY DEF RequestsComplete, RequestComplete, RowsStay

\* A step that only changes a request.
LEMMA RequestStepComplete ==
  ASSUME Complete, UNCHANGED <<clock, store>>,
         NEW t \in Requests, NEW r \in Request, RequestComplete(r),
         req' = [req EXCEPT ![t] = r]
  PROVE  Complete'
<1> USE DEF Complete, store
<1>1. TypeOK'
  BY DEF TypeOK
<1>2. RowsComplete'
  BY DEF RowsComplete
<1>3. RequestsComplete'
  <2>1. RowsStay /\ RequestComplete(r)'
    BY DEF RowsStay, RequestComplete
  <2>2. QED
    BY <2>1, OthersStayComplete DEF TypeOK
<1>4. QED
  BY <1>1, <1>2, <1>3

-----------------------------------------------------------------------------
(* Every action keeps the rows complete *)

\* The empty store is complete.
LEMMA InitComplete == Init => Complete
BY BookingAssumption DEF Init, Complete, TypeOK, RowsComplete, RequestsComplete,
   RequestComplete, NoDraft, NoHold, NoBooking, NoRequest, DraftRow, HoldRow,
   BookingRow, Request, Steps, Workflows, Event, Statuses

\* Actions that only record what a request has read.
LEMMA ReadersKeepComplete ==
  ASSUME Complete, NEW t \in Requests,
         \/ \E d \in Drafts : ReadExpiredDraft(t, d) \/ RequestConfirm(t, d)
         \/ \E d \in Drafts, s \in Grid : PressSlot(t, d, s)
         \/ \E h \in Holds : ReadExpiredHold(t, h)
         \/ ReturnHold(t) \/ ChooseSlot(t) \/ RefuseConfirm(t)
         \/ Rollback(t) \/ Answer(t)
  PROVE  Complete'
<1> USE DEF Complete
<1>r. ASSUME NEW r \in Request, RequestComplete(r), UNCHANGED <<clock, store>>,
             req' = [req EXCEPT ![t] = r]
      PROVE  Complete'
  BY <1>r, RequestStepComplete
<1>n. NoRequest \in Request /\ RequestComplete(NoRequest)
  BY DEF NoRequest, Request, RequestComplete, Steps
<1>c. clock \in Nat /\ req[t] \in Request /\ RequestComplete(req[t])
  BY DEF TypeOK, RequestsComplete
<1>1. ASSUME NEW d \in Drafts, ReadExpiredDraft(t, d)
      PROVE  Complete'
  <2> DEFINE r == [NoRequest EXCEPT !.step = "expire_draft", !.draft = d,
                                    !.hold = drafts[d].hold]
  <2>1. r \in Request
    BY DEF NoRequest, Request, Steps, TypeOK, DraftRow
  <2>2. RequestComplete(r)
    BY <1>1 DEF ReadExpiredDraft, RequestComplete, NoRequest
  <2>3. QED
    BY <1>1, <1>r, <2>1, <2>2 DEF ReadExpiredDraft
<1>2. ASSUME NEW d \in Drafts, RequestConfirm(t, d)
      PROVE  Complete'
  <2> DEFINE r == [NoRequest EXCEPT !.step = "confirm", !.draft = d, !.now = clock]
  <2>1. r \in Request
    BY <1>c DEF NoRequest, Request, Steps
  <2>2. RequestComplete(r)
    <3>1. drafts[d].status # "unused"
      <4>1. drafts[d].status = "unused" => drafts[d] = NoDraft
        BY DEF RowsComplete
      <4>2. NoDraft.contact = "none" /\ drafts[d].contact = "both"
        BY <1>2 DEF RequestConfirm, NoDraft
      <4>3. QED
        BY <4>1, <4>2
    <3>2. clock <= clock + MaxLag
      BY <1>c, PeriodsAreNumbers
    <3>3. QED
      BY <1>c, <3>1, <3>2 DEF RequestComplete, NoRequest
  <2>3. QED
    BY <1>2, <1>r, <2>1, <2>2 DEF RequestConfirm
<1>3. ASSUME NEW d \in Drafts, NEW s \in Grid, PressSlot(t, d, s)
      PROVE  Complete'
  <2> DEFINE slots == Slots(holds, drafts[d].service, drafts[d].date, clock)
             r(slot) == [NoRequest EXCEPT !.step = "choose", !.draft = d,
                           !.wanted = s, !.choice = Position(slot, slots)]
  <2>1. PICK slot \in slots : slot[1] = s /\ req' = [req EXCEPT ![t] = r(slot)]
    BY <1>3 DEF PressSlot
  <2>2. drafts[d].status # "unused" /\ drafts[d].service \in Services
    BY <1>3 DEF PressSlot, Owned, RowsComplete
  <2>3. s \in Nat /\ Position(slot, slots) \in Nat
    BY <2>1, <2>2, SlotIsFree, PositionType
  <2>4. r(slot) \in Request
    BY <2>3 DEF NoRequest, Request, Steps
  <2>5. RequestComplete(r(slot))
    BY <2>2 DEF RequestComplete, NoRequest
  <2>6. QED
    BY <1>3, <1>r, <2>1, <2>4, <2>5 DEF PressSlot
<1>4. ASSUME NEW h \in Holds, ReadExpiredHold(t, h)
      PROVE  Complete'
  <2> DEFINE r == [NoRequest EXCEPT !.step = "expire_hold", !.hold = h]
  <2>1. r \in Request
    BY DEF NoRequest, Request, Steps
  <2>2. RequestComplete(r)
    BY <1>4 DEF ReadExpiredHold, RequestComplete, NoRequest
  <2>3. QED
    BY <1>4, <1>r, <2>1, <2>2 DEF ReadExpiredHold
<1>5. ASSUME ReturnHold(t)
      PROVE  Complete'
  <2>1. PICK h \in Made(t) : req' = [req EXCEPT ![t] = Answered(t, h)]
    BY <1>5 DEF ReturnHold
  <2>2. h \in Holds /\ holds[h].status # "unused"
    BY DEF Made
  <2>3. Answered(t, h) \in Request
    BY <1>c, <2>2 DEF Answered, NoRequest, Request, Steps
  <2>4. RequestComplete(Answered(t, h))
    BY <1>5, <1>c, <2>2 DEF ReturnHold, Answered, RequestComplete, NoRequest
  <2>5. QED
    BY <1>5, <1>r, <2>1, <2>3, <2>4 DEF ReturnHold
<1>6. ASSUME ChooseSlot(t)
      PROVE  Complete'
  <2> DEFINE d == req[t].draft
             r(slot, now) == [req[t] EXCEPT !.step = "recheck", !.slot = slot,
                                            !.now = now]
  <2>1. d \in Drafts /\ drafts[d].service \in Services
    BY <1>6, <1>c DEF ChooseSlot, RequestComplete, RowsComplete
  <2>2. PICK now \in Readings :
        \E slot \in Slots(holds, drafts[d].service, drafts[d].date, now) :
          req' = [req EXCEPT ![t].step = "recheck", ![t].slot = slot,
                             ![t].now = now]
    BY <1>6 DEF ChooseSlot
  <2>3. PICK slot \in Slots(holds, drafts[d].service, drafts[d].date, now) :
          req' = [req EXCEPT ![t].step = "recheck", ![t].slot = slot,
                             ![t].now = now]
    BY <2>2
  <2>4. slot \in Nat \X Resources /\ now + MinimumNotice <= slot[1]
    BY <2>1, SlotIsFree
  <2>5. now \in Nat /\ now <= clock /\ clock <= now + MaxLag
    BY <1>c, PeriodsAreNumbers DEF Readings
  <2>6. req' = [req EXCEPT ![t] = r(slot, now)]
    BY <2>3 DEF TypeOK
  <2>7. r(slot, now) \in Request
    BY <1>c, <2>4, <2>5 DEF Request, Steps
  <2>8. RequestComplete(r(slot, now))
    BY <1>6, <1>c, <2>4, <2>5 DEF ChooseSlot, RequestComplete, Request
  <2>9. QED
    BY <1>6, <1>r, <2>6, <2>7, <2>8 DEF ChooseSlot
<1>7. ASSUME RefuseConfirm(t)
      PROVE  Complete'
  <2> DEFINE r == [req[t] EXCEPT !.step = "refused", !.now = 0]
  <2>1. r \in Request
    BY <1>c DEF Request, Steps
  <2>2. RequestComplete(r)
    BY <1>7, <1>c DEF RefuseConfirm, RequestComplete, Request
  <2>3. req' = [req EXCEPT ![t] = r]
    BY <1>7 DEF RefuseConfirm, TypeOK
  <2>4. QED
    BY <1>7, <1>r, <2>1, <2>2, <2>3 DEF RefuseConfirm
<1>8. ASSUME Rollback(t) \/ Answer(t)
      PROVE  Complete'
  BY <1>8, <1>r, <1>n DEF Rollback, Answer
<1>9. QED
  BY <1>1, <1>2, <1>3, <1>4, <1>5, <1>6, <1>7, <1>8

\* Retirement keeps what the rows say of each other.
LEMMA RetireKeepsRows ==
  ASSUME Complete, NEW which, NEW to \in {"released", "expired"}
  PROVE  LET new == Retire(which, to)
         IN /\ new \in [Holds -> HoldRow]
            /\ \A h \in Holds :
                 /\ new[h].status = "unused" <=> holds[h].status = "unused"
                 /\ new[h].status = "active" => new[h] = holds[h]
                 /\ new[h].draft = holds[h].draft
                 /\ new[h].service = holds[h].service
                 /\ new[h].resource = holds[h].resource
                 /\ new[h].start = holds[h].start
                 /\ new[h].end = holds[h].end
<1>1. holds \in [Holds -> HoldRow]
  BY DEF Complete, TypeOK
<1>2. to # "unused" /\ to # "active"
  OBVIOUS
<1>3. QED
  BY <1>1, <1>2, RetireRetires

\* A step that retires holds and changes drafts without freeing, re-pointing
\* or re-assigning one.
LEMMA DraftsAndRetirement ==
  ASSUME Complete, UNCHANGED <<clock, serving, bookings, outbox>>,
         workflow' \in [Customers -> Workflows],
         drafts' \in [Drafts -> DraftRow],
         \A d \in Drafts :
           /\ drafts[d].status # "unused" =>
                /\ drafts'[d].status # "unused"
                /\ drafts'[d].service = drafts[d].service
           /\ IF drafts'[d].status = "unused"
                THEN drafts'[d] = NoDraft
                ELSE drafts'[d].customer \in Customers /\ drafts'[d].service \in Services
           /\ drafts'[d].hold # Nil =>
                drafts[d].status # "unused" /\ drafts'[d].hold = drafts[d].hold
           /\ drafts'[d].reschedules # Nil =>
                /\ bookings[drafts'[d].reschedules].status # "unused"
                /\ bookings[drafts'[d].reschedules].service = drafts'[d].service,
         NEW which, NEW to \in {"released", "expired"},
         holds' = Retire(which, to) \/ holds' = holds,
         req' = req \/ (\E t \in Requests : req' = [req EXCEPT ![t] = NoRequest])
  PROVE  Complete'
<1> USE DEF Complete
<1>1. /\ holds' \in [Holds -> HoldRow]
      /\ \A h \in Holds :
           /\ holds'[h].status = "unused" <=> holds[h].status = "unused"
           /\ holds'[h].draft = holds[h].draft
           /\ holds'[h].service = holds[h].service
           /\ holds'[h].resource = holds[h].resource
           /\ holds'[h].start = holds[h].start
           /\ holds'[h].end = holds[h].end
  BY RetireKeepsRows DEF TypeOK
<1>2. NoRequest \in Request /\ RequestComplete(NoRequest)'
  BY DEF NoRequest, Request, RequestComplete, Steps
<1>3. TypeOK'
  BY <1>1, <1>2 DEF TypeOK
<1>4. RowsComplete'
  <2>1. \A h \in Holds : holds'[h].status # "unused" =>
          /\ holds'[h].draft \in Drafts
          /\ holds'[h].service \in Services
          /\ holds'[h].resource \in Resources
          /\ holds'[h].end = holds'[h].start + Duration[holds'[h].service]
                                              + Buffer[holds'[h].service]
    BY <1>1 DEF RowsComplete
  <2>2. ASSUME NEW d \in Drafts, drafts'[d].hold # Nil
        PROVE  /\ holds'[drafts'[d].hold].status # "unused"
               /\ holds'[drafts'[d].hold].service = drafts'[d].service
    <3>1. drafts'[d].hold = drafts[d].hold /\ drafts'[d].service = drafts[d].service
      BY <2>2
    <3>2. drafts[d].hold \in Holds
      BY <2>2, <3>1 DEF TypeOK, DraftRow
    <3>3. QED
      BY <1>1, <2>2, <3>1, <3>2 DEF RowsComplete
  <2>3. \A b \in Bookings : bookings'[b].status # "unused" =>
          /\ bookings'[b].service \in Services
          /\ bookings'[b].resource \in Resources
          /\ bookings'[b].end = bookings'[b].start + Duration[bookings'[b].service]
    BY DEF RowsComplete
  <2>4. QED
    BY <2>1, <2>2, <2>3 DEF RowsComplete
<1>5. RequestsComplete'
  <2>1. RowsStay
    BY <1>1 DEF RowsStay
  <2>2. CASE req' = req
    BY <2>1, <2>2, AllStayComplete
  <2>3. CASE \E t \in Requests : req' = [req EXCEPT ![t] = NoRequest]
    BY <1>2, <2>1, <2>3, OthersStayComplete DEF TypeOK
  <2>4. QED
    BY <2>2, <2>3
<1>6. QED
  BY <1>3, <1>4, <1>5

\* start and reschedule write a whole draft, and retire the draft they replace.
LEMMA StartDraftKeepsComplete ==
  ASSUME Complete, NEW c \in Customers, NEW sv \in Services,
         NEW rb \in Bookings \cup {Nil}, StartDraft(c, sv, rb)
  PROVE  Complete'
<1> USE DEF Complete
<1>1. PICK now \in Readings, d \in Drafts :
        /\ drafts[d].status = "unused"
        /\ drafts' = [e \in Drafts |->
             IF e = d
               THEN [NoDraft EXCEPT !.status = "active", !.customer = c,
                                    !.service = sv, !.reschedules = rb,
                                    !.expires = now + DraftDuration]
             ELSE IF e \in ActiveDrafts(c)
               THEN [drafts[e] EXCEPT !.status = "cancelled"]
             ELSE drafts[e]]
  BY DEF StartDraft
<1>2. drafts'[d] = [status |-> "active", customer |-> c, service |-> sv,
                    reschedules |-> rb, date |-> Nil, contact |-> "none",
                    hold |-> Nil, expires |-> now + DraftDuration]
  BY <1>1 DEF NoDraft
<1>3. drafts'[d] \in DraftRow
  <2>1. now + DraftDuration \in Nat
    BY PeriodsAreNumbers DEF Readings, TypeOK
  <2>2. QED
    BY <1>2, <2>1 DEF DraftRow
<1>4. \A e \in Drafts \ {d} :
        /\ drafts'[e] \in DraftRow
        /\ \/ drafts'[e] = drafts[e]
           \/ /\ drafts[e].status = "active" /\ drafts'[e].status = "cancelled"
              /\ drafts'[e].customer = drafts[e].customer
              /\ drafts'[e].service = drafts[e].service
              /\ drafts'[e].hold = drafts[e].hold
              /\ drafts'[e].reschedules = drafts[e].reschedules
  BY SMTT(60), <1>1 DEF ActiveDrafts, DraftRow, TypeOK
<1>5. drafts' \in [Drafts -> DraftRow]
  BY <1>1, <1>3, <1>4
<1>6. workflow' \in [Customers -> Workflows]
  BY DEF StartDraft, TypeOK, Workflows
<1>7. rb # Nil => bookings[rb].status # "unused" /\ bookings[rb].service = sv
  BY DEF StartDraft
<1>8. \A e \in Drafts :
           /\ drafts[e].status # "unused" =>
                /\ drafts'[e].status # "unused"
                /\ drafts'[e].service = drafts[e].service
           /\ IF drafts'[e].status = "unused"
                THEN drafts'[e] = NoDraft
                ELSE drafts'[e].customer \in Customers /\ drafts'[e].service \in Services
           /\ drafts'[e].hold # Nil =>
                drafts[e].status # "unused" /\ drafts'[e].hold = drafts[e].hold
           /\ drafts'[e].reschedules # Nil =>
                /\ bookings[drafts'[e].reschedules].status # "unused"
                /\ bookings[drafts'[e].reschedules].service = drafts'[e].service
  <2> TAKE e \in Drafts
  <2>1. CASE e = d
    <3>1. drafts[d].status = "unused" /\ drafts'[d].status = "active"
      BY <1>1, <1>2
    <3>2. drafts'[d].hold = Nil /\ drafts'[d].customer = c
      BY <1>2
    <3>3. drafts'[d].service = sv /\ drafts'[d].reschedules = rb
      BY <1>2
    <3>4. QED
      BY <1>7, <2>1, <3>1, <3>2, <3>3
  <2>2. CASE e # d
    <3>1. drafts[e].status = "unused" => drafts[e].hold = Nil
      BY DEF RowsComplete, NoDraft
    <3>2. QED
      BY <1>4, <2>2, <3>1 DEF RowsComplete
  <2>3. QED
    BY <2>1, <2>2
<1>9. QED
  BY <1>5, <1>6, <1>8, DraftsAndRetirement DEF StartDraft

\* Choosing a date or a contact changes no row that another one quotes.
LEMMA DraftActionsKeepComplete ==
  ASSUME Complete,
         \/ \E d \in Drafts, date \in Nat : SelectDate(d, date)
         \/ \E d \in Drafts : UpdateContact(d)
         \/ \E c \in Customers : CancelDraft(c)
         \/ \E t \in Requests : ExpireDraft(t)
  PROVE  Complete'
<1> USE DEF Complete
<1>0. \A e \in Drafts : drafts[e].status = "unused" => drafts[e].hold = Nil
  BY DEF RowsComplete, NoDraft
<1>r. ASSUME UNCHANGED <<clock, serving, bookings, outbox>>,
             workflow' \in [Customers -> Workflows],
             drafts' \in [Drafts -> DraftRow],
             \A d \in Drafts :
                 \/ drafts'[d] = drafts[d]
                 \/ /\ drafts'[d].status # "unused" /\ drafts[d].status # "unused"
                    /\ drafts'[d].service = drafts[d].service
                    /\ drafts'[d].customer = drafts[d].customer
                    /\ drafts'[d].hold = drafts[d].hold
                    /\ drafts'[d].reschedules = drafts[d].reschedules,
             NEW which, NEW to \in {"released", "expired"},
             holds' = Retire(which, to) \/ holds' = holds,
             req' = req \/ (\E t \in Requests : req' = [req EXCEPT ![t] = NoRequest])
      PROVE  Complete'
  <2>1. \A e \in Drafts :
           /\ drafts[e].status # "unused" =>
                /\ drafts'[e].status # "unused"
                /\ drafts'[e].service = drafts[e].service
           /\ IF drafts'[e].status = "unused"
                THEN drafts'[e] = NoDraft
                ELSE drafts'[e].customer \in Customers /\ drafts'[e].service \in Services
           /\ drafts'[e].hold # Nil =>
                drafts[e].status # "unused" /\ drafts'[e].hold = drafts[e].hold
           /\ drafts'[e].reschedules # Nil =>
                /\ bookings[drafts'[e].reschedules].status # "unused"
                /\ bookings[drafts'[e].reschedules].service = drafts'[e].service
    BY <1>0, <1>r DEF RowsComplete
  <2>2. QED
    BY <1>r, <2>1, DraftsAndRetirement
<1>1. ASSUME NEW d \in Drafts, NEW date \in Nat, SelectDate(d, date)
      PROVE  Complete'
  <2>1. drafts' = [drafts EXCEPT ![d].date = date] /\ drafts[d].status = "active"
    BY <1>1 DEF SelectDate, Owned
  <2>2. drafts' \in [Drafts -> DraftRow]
    BY SMTT(60), <2>1 DEF TypeOK, DraftRow
  <2>3. \A e \in Drafts :
          \/ drafts'[e] = drafts[e]
          \/ /\ drafts'[e].status # "unused" /\ drafts[e].status # "unused"
             /\ drafts'[e].service = drafts[e].service
             /\ drafts'[e].customer = drafts[e].customer
             /\ drafts'[e].hold = drafts[e].hold
             /\ drafts'[e].reschedules = drafts[e].reschedules
    BY <2>1 DEF TypeOK, DraftRow
  <2>4. QED
    BY <1>1, <1>r, <2>2, <2>3 DEF SelectDate, TypeOK
<1>2. ASSUME NEW d \in Drafts, UpdateContact(d)
      PROVE  Complete'
  <2>1. PICK con \in {"name", "both"} : drafts' = [drafts EXCEPT ![d].contact = con]
    BY <1>2 DEF UpdateContact
  <2>2. drafts[d].status = "active" /\ drafts[d].customer \in Customers
    BY <1>2 DEF UpdateContact, Owned, RowsComplete
  <2>3. drafts' \in [Drafts -> DraftRow]
    BY SMTT(60), <2>1 DEF TypeOK, DraftRow
  <2>4. \A e \in Drafts :
          \/ drafts'[e] = drafts[e]
          \/ /\ drafts'[e].status # "unused" /\ drafts[e].status # "unused"
             /\ drafts'[e].service = drafts[e].service
             /\ drafts'[e].customer = drafts[e].customer
             /\ drafts'[e].hold = drafts[e].hold
             /\ drafts'[e].reschedules = drafts[e].reschedules
    BY <2>1, <2>2 DEF TypeOK, DraftRow
  <2>5. workflow' \in [Customers -> Workflows]
    BY <1>2 DEF UpdateContact, TypeOK, Workflows
  <2>6. QED
    BY <1>2, <1>r, <2>3, <2>4, <2>5 DEF UpdateContact
<1>3. ASSUME NEW c \in Customers, CancelDraft(c)
      PROVE  Complete'
  <2>1. drafts' = [d \in Drafts |-> IF d \in ActiveDrafts(c)
                                      THEN [drafts[d] EXCEPT !.status = "cancelled"]
                                      ELSE drafts[d]]
    BY <1>3 DEF CancelDraft
  <2>2. \A e \in Drafts :
          /\ drafts'[e] \in DraftRow
          /\ \/ drafts'[e] = drafts[e]
             \/ /\ drafts'[e].status # "unused" /\ drafts[e].status # "unused"
                /\ drafts'[e].service = drafts[e].service
                /\ drafts'[e].customer = drafts[e].customer
                /\ drafts'[e].hold = drafts[e].hold
                /\ drafts'[e].reschedules = drafts[e].reschedules
    <3> SUFFICES ASSUME NEW e \in Drafts, drafts'[e] # drafts[e]
                 PROVE  /\ drafts'[e] \in DraftRow
                        /\ drafts'[e].status # "unused" /\ drafts[e].status # "unused"
                        /\ drafts'[e].service = drafts[e].service
                        /\ drafts'[e].customer = drafts[e].customer
                        /\ drafts'[e].hold = drafts[e].hold
                        /\ drafts'[e].reschedules = drafts[e].reschedules
      BY DEF TypeOK
    <3>1. drafts[e] \in DraftRow
      BY DEF TypeOK
    <3>2. drafts[e].status = "active" /\ drafts'[e] = [drafts[e] EXCEPT !.status = "cancelled"]
      BY <2>1 DEF ActiveDrafts
    <3>3. QED
      BY <3>1, <3>2 DEF DraftRow
  <2>3. drafts' \in [Drafts -> DraftRow]
    BY <2>1, <2>2
  <2>4. workflow' \in [Customers -> Workflows]
    BY <1>3 DEF CancelDraft, TypeOK, Workflows
  <2>5. QED
    BY <1>3, <1>r, <2>2, <2>3, <2>4 DEF CancelDraft
<1>4. ASSUME NEW t \in Requests, ExpireDraft(t)
      PROVE  Complete'
  <2> DEFINE d == req[t].draft
  <2>1. d \in Drafts /\ drafts[d].status # "unused"
    BY <1>4 DEF ExpireDraft, RequestsComplete, RequestComplete
  <2>2. drafts' = [drafts EXCEPT ![d].status = "expired"]
    BY <1>4 DEF ExpireDraft
  <2>3. drafts' \in [Drafts -> DraftRow]
    BY SMTT(60), <2>1, <2>2 DEF TypeOK, DraftRow
  <2>4. \A e \in Drafts :
          \/ drafts'[e] = drafts[e]
          \/ /\ drafts'[e].status # "unused" /\ drafts[e].status # "unused"
             /\ drafts'[e].service = drafts[e].service
             /\ drafts'[e].customer = drafts[e].customer
             /\ drafts'[e].hold = drafts[e].hold
             /\ drafts'[e].reschedules = drafts[e].reschedules
    BY <2>1, <2>2 DEF TypeOK, DraftRow
  <2>5. QED
    BY <1>4, <1>r, <2>3, <2>4 DEF ExpireDraft, TypeOK
<1>5. QED
  BY <1>1, <1>2, <1>3, <1>4

\* What TakeHold does, with the slot it re-read under the resource lock.
LEMMA TakeHoldEffect ==
  ASSUME Complete, NEW t \in Requests, TakeHold(t)
  PROVE  LET d == req[t].draft
             sv == drafts[d].service
             slot == req[t].slot
             released == Retire({drafts[d].hold}, "released")
         IN /\ d \in Drafts /\ sv \in Services /\ drafts[d].status # "unused"
            /\ slot \in Nat \X Resources
            /\ req[t].now \in Nat /\ req[t].now <= clock
            /\ req[t].now + MinimumNotice <= slot[1]
            /\ clock <= req[t].now + MaxLag
            /\ ~Busy(released, slot[2], slot[1],
                     slot[1] + Duration[sv] + Buffer[sv], req[t].now)
            /\ released \in [Holds -> HoldRow]
            /\ \E h \in Holds :
                 /\ holds[h].status = "unused"
                 /\ holds' = [released EXCEPT ![h] =
                      [status |-> "active", draft |-> d,
                       label |-> Label(req[t].wanted), service |-> sv,
                       resource |-> slot[2], start |-> slot[1],
                       end |-> slot[1] + Duration[sv] + Buffer[sv],
                       expires |-> req[t].now + HoldDuration]]
                 /\ holds'[h] \in HoldRow
                 /\ drafts' = [drafts EXCEPT ![d].hold = h]
                 /\ req' = [req EXCEPT ![t] = Answered(t, h)]
<1> DEFINE d == req[t].draft
           sv == drafts[d].service
           slot == req[t].slot
           released == Retire({drafts[d].hold}, "released")
<1>1. d \in Drafts /\ drafts[d].status # "unused"
  BY DEF TakeHold, Complete, RequestsComplete, RequestComplete
<1>2. sv \in Services
  BY <1>1 DEF Complete, RowsComplete
<1>3. slot \in Slots(released, sv, drafts[d].date, req[t].now)
  BY DEF TakeHold
<1>4. /\ slot \in Nat \X Resources
      /\ req[t].now + MinimumNotice <= slot[1]
      /\ ~Busy(released, slot[2], slot[1],
               slot[1] + Duration[sv] + Buffer[sv], req[t].now)
  BY <1>2, <1>3, SlotIsFree
<1>5. req[t].now \in Nat /\ req[t].now <= clock /\ clock <= req[t].now + MaxLag
  BY DEF TakeHold, Complete, TypeOK, Request, RequestsComplete, RequestComplete
<1>6. released \in [Holds -> HoldRow]
  BY SMTT(60), RetireKeepsRows
<1>7. PICK h \in Holds :
        /\ holds[h].status = "unused"
        /\ holds' = [released EXCEPT ![h] =
             [status |-> "active", draft |-> d,
              label |-> Label(req[t].wanted), service |-> sv,
              resource |-> slot[2], start |-> slot[1],
              end |-> slot[1] + Duration[sv] + Buffer[sv],
              expires |-> req[t].now + HoldDuration]]
        /\ drafts' = [drafts EXCEPT ![d].hold = h]
        /\ req' = [req EXCEPT ![t] = Answered(t, h)]
  BY DEF TakeHold
<1>8. holds'[h] \in HoldRow
  <2>1. req[t].now + HoldDuration \in Nat /\ Label(req[t].wanted) \in Nat
    BY <1>5, BookingAssumption DEF Complete, TypeOK, Request, Label
  <2>2. /\ slot[1] \in Nat /\ slot[2] \in Resources
        /\ slot[1] + Duration[sv] + Buffer[sv] \in Nat
    BY <1>2, <1>4, BookingAssumption
  <2>3. holds'[h] = [status |-> "active", draft |-> d,
              label |-> Label(req[t].wanted), service |-> sv,
              resource |-> slot[2], start |-> slot[1],
              end |-> slot[1] + Duration[sv] + Buffer[sv],
              expires |-> req[t].now + HoldDuration]
    BY <1>6, <1>7
  <2>4. QED
    BY <1>1, <1>2, <2>1, <2>2, <2>3 DEF HoldRow
<1>9. QED
  BY ZenonT(60), <1>1, <1>2, <1>4, <1>5, <1>6, <1>7, <1>8

\* A hold is taken for the draft's service, from the slot that was rechecked.
LEMMA TakeHoldKeepsComplete ==
  ASSUME Complete, NEW t \in Requests, TakeHold(t)
  PROVE  Complete'
<1> DEFINE d == req[t].draft
           sv == drafts[d].service
           slot == req[t].slot
           released == Retire({drafts[d].hold}, "released")
<1>1. /\ d \in Drafts /\ sv \in Services /\ drafts[d].status # "unused"
      /\ slot \in Nat \X Resources
      /\ released \in [Holds -> HoldRow]
  BY TakeHoldEffect
<1>2. PICK h \in Holds :
        /\ holds[h].status = "unused"
        /\ holds' = [released EXCEPT ![h] =
             [status |-> "active", draft |-> d,
              label |-> Label(req[t].wanted), service |-> sv,
              resource |-> slot[2], start |-> slot[1],
              end |-> slot[1] + Duration[sv] + Buffer[sv],
              expires |-> req[t].now + HoldDuration]]
        /\ holds'[h] \in HoldRow
        /\ drafts' = [drafts EXCEPT ![d].hold = h]
        /\ req' = [req EXCEPT ![t] = Answered(t, h)]
  BY TakeHoldEffect
<1>3. /\ drafts \in [Drafts -> DraftRow] /\ req \in [Requests -> Request]
      /\ drafts[d].customer \in Customers
  BY <1>1 DEF Complete, TypeOK, RowsComplete
<1>4. drafts'[d] = [drafts[d] EXCEPT !.hold = h] /\ drafts'[d] \in DraftRow
  BY <1>1, <1>2, <1>3 DEF DraftRow
<1>5. /\ drafts' \in [Drafts -> DraftRow]
      /\ \A e \in Drafts \ {d} : drafts'[e] = drafts[e]
  BY <1>1, <1>2, <1>3, <1>4
<1>6. /\ holds'[h].status = "active" /\ holds'[h].draft = d
      /\ holds'[h].service = sv /\ holds'[h].resource = slot[2]
      /\ holds'[h].start = slot[1]
      /\ holds'[h].end = slot[1] + Duration[sv] + Buffer[sv]
  BY <1>1, <1>2
<1>7. /\ holds' \in [Holds -> HoldRow]
      /\ \A g \in Holds \ {h} : holds'[g] = released[g]
  BY <1>1, <1>2
<1>8. \A g \in Holds : /\ released[g].status = "unused" <=> holds[g].status = "unused"
                       /\ released[g].draft = holds[g].draft
                       /\ released[g].service = holds[g].service
                       /\ released[g].resource = holds[g].resource
                       /\ released[g].start = holds[g].start
                       /\ released[g].end = holds[g].end
  BY RetireKeepsRows
<1>9. Answered(t, h) \in Request
  BY <1>1, <1>3 DEF Answered, NoRequest, Request, Steps
<1>10. TypeOK'
  <2>1. workflow' \in [Customers -> Workflows] /\ UNCHANGED <<clock, serving, bookings, outbox>>
    BY <1>3 DEF TakeHold, Complete, TypeOK, Workflows
  <2>2. req' \in [Requests -> Request]
    BY <1>2, <1>3, <1>9
  <2>3. QED
    BY <1>5, <1>7, <2>1, <2>2 DEF Complete, TypeOK
<1>11. RowsComplete'
  <2>1. ASSUME NEW e \in Drafts
        PROVE  IF drafts'[e].status = "unused"
                 THEN drafts'[e] = NoDraft
                 ELSE drafts'[e].customer \in Customers /\ drafts'[e].service \in Services
    <3>1. CASE e = d
      BY <1>1, <1>3, <1>4, <3>1 DEF DraftRow
    <3>2. CASE e # d
      BY <1>5, <3>2 DEF Complete, RowsComplete
    <3>3. QED
      BY <3>1, <3>2
  <2>2. ASSUME NEW g \in Holds, holds'[g].status # "unused"
        PROVE  /\ holds'[g].draft \in Drafts
               /\ holds'[g].service \in Services
               /\ holds'[g].resource \in Resources
               /\ holds'[g].end = holds'[g].start + Duration[holds'[g].service]
                                                   + Buffer[holds'[g].service]
    <3>1. CASE g = h
      BY <1>1, <1>6, <3>1
    <3>2. CASE g # h
      <4>1. holds'[g] = released[g] /\ holds[g].status # "unused"
        BY <1>7, <1>8, <2>2, <3>2
      <4>2. /\ holds[g].draft \in Drafts
            /\ holds[g].service \in Services
            /\ holds[g].resource \in Resources
            /\ holds[g].end = holds[g].start + Duration[holds[g].service]
                                            + Buffer[holds[g].service]
        BY <4>1 DEF Complete, RowsComplete
      <4>3. QED
        BY <1>8, <4>1, <4>2
    <3>3. QED
      BY <3>1, <3>2
  <2>3. ASSUME NEW e \in Drafts, drafts'[e].hold # Nil
        PROVE  /\ holds'[drafts'[e].hold].status # "unused"
               /\ holds'[drafts'[e].hold].service = drafts'[e].service
    <3>1. CASE e = d
      BY SMTT(60), <1>1, <1>3, <1>4, <1>6, <3>1 DEF DraftRow
    <3>2. CASE e # d
      <4>1. drafts'[e] = drafts[e] /\ drafts[e].hold \in Holds
        BY <1>3, <1>5, <2>3, <3>2 DEF DraftRow
      <4>2. /\ holds[drafts[e].hold].status # "unused"
            /\ holds[drafts[e].hold].service = drafts[e].service
        BY <2>3, <4>1 DEF Complete, RowsComplete
      <4>3. drafts[e].hold # h
        BY <1>2, <4>2
      <4> HIDE DEF released
      <4>4. holds'[drafts[e].hold] = released[drafts[e].hold]
        BY <1>7, <4>1, <4>3
      <4>5. QED
        BY <1>8, <4>1, <4>2, <4>4
    <3>3. QED
      BY <3>1, <3>2
  <2>4. bookings' = bookings
    BY DEF TakeHold
  <2>5. ASSUME NEW e \in Drafts, drafts'[e].reschedules # Nil
        PROVE  /\ bookings'[drafts'[e].reschedules].status # "unused"
               /\ bookings'[drafts'[e].reschedules].service = drafts'[e].service
    <3>1. /\ drafts'[e].reschedules = drafts[e].reschedules
          /\ drafts'[e].service = drafts[e].service
      BY <1>3, <1>4, <1>5 DEF DraftRow
    <3>2. QED
      BY <2>4, <2>5, <3>1 DEF Complete, RowsComplete
  <2>6. QED
    BY <2>1, <2>2, <2>3, <2>4, <2>5 DEF Complete, RowsComplete
<1>12. RequestsComplete'
  <2>1. RowsStay
    <3>1. \A e \in Drafts : drafts'[e].status = drafts[e].status
      BY SMTT(60), <1>3, <1>4, <1>5 DEF DraftRow
    <3>2. \A g \in Holds : holds[g].status # "unused" => holds'[g].status # "unused"
      BY <1>2, <1>7, <1>8
    <3>3. QED
      BY <3>1, <3>2 DEF RowsStay
  <2>2. PICK r : r = Answered(t, h)
    OBVIOUS
  <2>3. r.step = "answered" /\ r.draft = d /\ r.hold = h
    BY <2>2 DEF Answered, NoRequest
  <2>4. RequestComplete(r)'
    BY <1>1, <1>6, <2>1, <2>3 DEF RequestComplete, RowsStay
  <2>5. QED
    BY <1>2, <1>3, <2>1, <2>2, <2>4, OthersStayComplete DEF TakeHold, Complete
<1>13. QED
  BY <1>10, <1>11, <1>12 DEF Complete

\* Expiry, by the worker or by a refused confirmation, changes statuses only.
LEMMA ExpiryKeepsComplete ==
  ASSUME Complete, ExpireHolds \/ \E t \in Requests : ExpireHold(t)
  PROVE  Complete'
<1> USE DEF Complete
<1>1. CASE ExpireHolds
  <2>1. PICK due : holds' = Retire(due, "expired")
    BY <1>1 DEF ExpireHolds
  <2>2. \A e \in Drafts : drafts[e].status = "unused" => drafts[e].hold = Nil
    BY DEF RowsComplete, NoDraft
  <2>3. UNCHANGED <<clock, serving, drafts, bookings, outbox, workflow, req>>
    BY <1>1 DEF ExpireHolds
  <2>4. \A e \in Drafts :
           /\ drafts[e].status # "unused" =>
                /\ drafts'[e].status # "unused"
                /\ drafts'[e].service = drafts[e].service
           /\ IF drafts'[e].status = "unused"
                THEN drafts'[e] = NoDraft
                ELSE drafts'[e].customer \in Customers /\ drafts'[e].service \in Services
           /\ drafts'[e].hold # Nil =>
                drafts[e].status # "unused" /\ drafts'[e].hold = drafts[e].hold
           /\ drafts'[e].reschedules # Nil =>
                /\ bookings[drafts'[e].reschedules].status # "unused"
                /\ bookings[drafts'[e].reschedules].service = drafts'[e].service
    BY <2>2, <2>3 DEF RowsComplete
  <2>5. QED
    BY <2>1, <2>3, <2>4, DraftsAndRetirement DEF TypeOK
<1>2. ASSUME NEW t \in Requests, ExpireHold(t)
      PROVE  Complete'
  <2> DEFINE h == req[t].hold
  <2>1. h \in Holds /\ holds[h].status # "unused"
    BY <1>2 DEF ExpireHold, RequestsComplete, RequestComplete
  <2>2. holds' = [holds EXCEPT ![h].status = "expired"]
    BY <1>2 DEF ExpireHold
  <2>3. UNCHANGED <<clock, serving, drafts, bookings, outbox, workflow>>
        /\ req' = [req EXCEPT ![t] = NoRequest]
    BY <1>2 DEF ExpireHold
  <2>4. /\ holds' \in [Holds -> HoldRow]
        /\ \A g \in Holds : /\ holds'[g].status = "unused" <=> holds[g].status = "unused"
                            /\ holds'[g].draft = holds[g].draft
                            /\ holds'[g].service = holds[g].service
                            /\ holds'[g].resource = holds[g].resource
                            /\ holds'[g].start = holds[g].start
                            /\ holds'[g].end = holds[g].end
    BY <2>1, <2>2 DEF TypeOK, HoldRow
  <2>5. NoRequest \in Request /\ RequestComplete(NoRequest)'
    BY DEF NoRequest, Request, RequestComplete, Steps
  <2>6. TypeOK'
    BY <2>3, <2>4, <2>5 DEF TypeOK
  <2>7. RowsComplete'
    <3>1. \A d \in Drafts : drafts[d].hold \in Holds \cup {Nil}
      BY DEF TypeOK, DraftRow
    <3>2. QED
      BY <2>3, <2>4, <3>1 DEF RowsComplete
  <2>8. RequestsComplete'
    <3>1. RowsStay
      BY <2>3, <2>4 DEF RowsStay
    <3>2. QED
      BY <2>3, <2>5, <3>1, OthersStayComplete DEF TypeOK
  <2>9. QED
    BY <2>6, <2>7, <2>8
<1>3. QED
  BY <1>1, <1>2

\* A confirmed appointment row is well formed if its parts are.
LEMMA ConfirmingKeepsComplete ==
  ASSUME Complete, NEW t \in Requests, req[t].step = "confirm",
         Confirmable(req[t].draft, req[t].now), Consume(t, req[t].draft),
         NEW b \in Bookings, NEW row \in BookingRow,
         bookings' = [bookings EXCEPT ![b] = row],
         row.service \in Services, row.resource \in Resources,
         bookings[b].status = "unused" \/ row.service = bookings[b].service,
         row.status # "unused",
         row.end = row.start + Duration[row.service],
         outbox' \subseteq Event
  PROVE  Complete'
<1> USE DEF Complete
<1> DEFINE d == req[t].draft
           h == drafts[d].hold
<1>1. d \in Drafts /\ drafts[d].status = "active"
  BY DEF RequestsComplete, RequestComplete, Confirmable, Owned
<1>2. h \in Holds /\ holds[h].status = "active" /\ drafts[d].customer \in Customers
  BY <1>1 DEF Confirmable, TypeOK, DraftRow, RowsComplete
<1>3. /\ holds' = [holds EXCEPT ![h].status = "consumed"]
      /\ drafts' = [drafts EXCEPT ![d].status = "confirmed"]
      /\ workflow' = [workflow EXCEPT ![drafts[d].customer] = "none"]
      /\ req' = [req EXCEPT ![t] = NoRequest]
      /\ clock' = clock /\ serving' = serving
  BY SMTT(60) DEF Consume
<1>4. /\ holds' \in [Holds -> HoldRow]
      /\ \A g \in Holds : /\ holds'[g].status = "unused" <=> holds[g].status = "unused"
                          /\ holds'[g].draft = holds[g].draft
                          /\ holds'[g].service = holds[g].service
                          /\ holds'[g].resource = holds[g].resource
                          /\ holds'[g].start = holds[g].start
                          /\ holds'[g].end = holds[g].end
  <2> HIDE DEF h
  <2>1. holds \in [Holds -> HoldRow]
    BY DEF TypeOK
  <2>2. [holds[h] EXCEPT !.status = "consumed"] \in HoldRow
    BY <1>2, <2>1 DEF HoldRow
  <2>3. /\ holds' \in [Holds -> HoldRow]
        /\ \A g \in Holds :
             holds'[g] = IF g = h THEN [holds[h] EXCEPT !.status = "consumed"] ELSE holds[g]
    BY <1>2, <1>3, <2>1, <2>2
  <2>4. QED
    BY <1>2, <2>1, <2>3 DEF HoldRow
<1>5. /\ drafts' \in [Drafts -> DraftRow]
      /\ \A e \in Drafts \ {d} : drafts'[e] = drafts[e]
      /\ drafts'[d].status = "confirmed"
      /\ drafts'[d].customer = drafts[d].customer
      /\ drafts'[d].service = drafts[d].service
      /\ drafts'[d].hold = drafts[d].hold
      /\ drafts'[d].reschedules = drafts[d].reschedules
  <2> HIDE DEF d
  <2>1. drafts \in [Drafts -> DraftRow]
    BY DEF TypeOK
  <2>2. [drafts[d] EXCEPT !.status = "confirmed"] \in DraftRow
    BY <1>1, <2>1 DEF DraftRow
  <2>3. /\ drafts' \in [Drafts -> DraftRow]
        /\ \A e \in Drafts :
             drafts'[e] = IF e = d THEN [drafts[d] EXCEPT !.status = "confirmed"] ELSE drafts[e]
    BY <1>1, <1>3, <2>1, <2>2
  <2>4. QED
    BY <1>1, <2>1, <2>3 DEF DraftRow
<1>6. /\ bookings' \in [Bookings -> BookingRow]
      /\ bookings'[b] = row
      /\ \A o \in Bookings \ {b} : bookings'[o] = bookings[o]
  BY DEF TypeOK
<1>7. NoRequest \in Request /\ RequestComplete(NoRequest)'
  BY SMTT(60) DEF NoRequest, Request, RequestComplete, Steps
<1>8. TypeOK'
  BY <1>3, <1>4, <1>5, <1>6, <1>7 DEF TypeOK, Workflows
<1>9. RowsComplete'
  <2>1. \A e \in Drafts :
          IF drafts'[e].status = "unused"
            THEN drafts'[e] = NoDraft
            ELSE drafts'[e].customer \in Customers /\ drafts'[e].service \in Services
    BY <1>1, <1>5 DEF RowsComplete
  <2>2. \A g \in Holds : holds'[g].status # "unused" =>
          /\ holds'[g].draft \in Drafts
          /\ holds'[g].service \in Services
          /\ holds'[g].resource \in Resources
          /\ holds'[g].end = holds'[g].start + Duration[holds'[g].service]
                                              + Buffer[holds'[g].service]
    BY <1>4 DEF RowsComplete
  <2>3. ASSUME NEW e \in Drafts, drafts'[e].hold # Nil
        PROVE  /\ holds'[drafts'[e].hold].status # "unused"
               /\ holds'[drafts'[e].hold].service = drafts'[e].service
    <3>1. /\ drafts'[e].hold = drafts[e].hold /\ drafts'[e].service = drafts[e].service
          /\ drafts[e].hold \in Holds
      BY <1>5, <2>3 DEF TypeOK, DraftRow
    <3>2. QED
      BY <1>4, <2>3, <3>1 DEF RowsComplete
  <2>4. \A o \in Bookings : bookings'[o].status # "unused" =>
          /\ bookings'[o].service \in Services
          /\ bookings'[o].resource \in Resources
          /\ bookings'[o].end = bookings'[o].start + Duration[bookings'[o].service]
    BY <1>6 DEF RowsComplete
  <2>5. ASSUME NEW e \in Drafts, drafts'[e].reschedules # Nil
        PROVE  /\ bookings'[drafts'[e].reschedules].status # "unused"
               /\ bookings'[drafts'[e].reschedules].service = drafts'[e].service
    <3>1. /\ drafts'[e].reschedules = drafts[e].reschedules
          /\ drafts'[e].service = drafts[e].service
          /\ drafts[e].reschedules \in Bookings
      BY <1>5, <2>5 DEF TypeOK, DraftRow
    <3>2. /\ bookings[drafts[e].reschedules].status # "unused"
          /\ bookings[drafts[e].reschedules].service = drafts[e].service
      BY <2>5, <3>1 DEF RowsComplete
    <3>3. QED
      BY <1>6, <3>1, <3>2
  <2>6. QED
    BY <2>1, <2>2, <2>3, <2>4, <2>5 DEF RowsComplete
<1>10. RequestsComplete'
  <2>1. RowsStay
    BY <1>1, <1>4, <1>5 DEF RowsStay
  <2>2. QED
    BY ZenonT(60), <1>3, <1>7, <2>1, OthersStayComplete DEF TypeOK
<1>11. QED
  BY <1>8, <1>9, <1>10

\* The appointment ConfirmNew writes, from the hold it consumes.
LEMMA ConfirmNewEffect ==
  ASSUME Complete, NEW t \in Requests, ConfirmNew(t)
  PROVE  LET d == req[t].draft
             h == drafts[d].hold
         IN /\ req[t].step = "confirm"
            /\ d \in Drafts /\ h \in Holds
            /\ Confirmable(d, req[t].now) /\ Consume(t, d)
            /\ \E b \in Bookings, row \in BookingRow :
                 /\ bookings[b].status = "unused"
                 /\ NoClash(b, row.resource, row.start, row.end)
                 /\ bookings' = [bookings EXCEPT ![b] = row]
                 /\ row.status = "confirmed"
                 /\ row.hold = h
                 /\ row.service = holds[h].service /\ row.service \in Services
                 /\ row.resource = holds[h].resource /\ row.resource \in Resources
                 /\ row.start = holds[h].start
                 /\ row.end = row.start + Duration[row.service]
                 /\ row.key = d
                 /\ row.history = <<<<"draft", "held">>, <<"held", "confirmed">>>>
                 /\ outbox' = outbox \cup {<<"confirmed", b, 0>>}
<1> USE DEF Complete
<1> DEFINE d == req[t].draft
           h == drafts[d].hold
           end == holds[h].start + Duration[holds[h].service]
           row == [status |-> "confirmed", customer |-> drafts[d].customer,
                   service |-> holds[h].service, resource |-> holds[h].resource,
                   hold |-> h, start |-> holds[h].start, end |-> end, key |-> d,
                   history |-> <<<<"draft", "held">>, <<"held", "confirmed">>>>]
<1>1. req[t].step = "confirm" /\ Confirmable(d, req[t].now) /\ Consume(t, d)
  BY ZenonT(60) DEF ConfirmNew
<1>2. d \in Drafts /\ h \in Holds /\ holds[h].status = "active"
  BY <1>1 DEF RequestsComplete, RequestComplete, Confirmable, TypeOK, DraftRow
<1>3. /\ holds[h].service \in Services /\ holds[h].resource \in Resources
      /\ holds[h].start \in Nat
      /\ drafts[d].customer \in Customers
  <2>1. holds[h].status # "unused" /\ drafts[d].status = "active"
    BY <1>1, <1>2 DEF Confirmable, Owned
  <2>2. holds[h] \in HoldRow
    BY SMTT(60), <1>2 DEF TypeOK
  <2>3. QED
    BY <1>2, <2>1, <2>2 DEF RowsComplete, HoldRow
<1>4. row \in BookingRow
  <2>1. end \in Nat
    BY <1>3, EndIsAnInstant
  <2>2. <<<<"draft", "held">>, <<"held", "confirmed">>>> \in Seq(Statuses \X Statuses)
    BY DEF Statuses
  <2>3. QED
    BY <1>2, <1>3, <2>1, <2>2 DEF BookingRow
<1>5. PICK b \in Bookings :
        /\ bookings[b].status = "unused"
        /\ NoClash(b, holds[h].resource, holds[h].start, end)
        /\ bookings' = [bookings EXCEPT ![b] = row]
        /\ outbox' = outbox \cup {<<"confirmed", b, 0>>}
  BY ZenonT(60) DEF ConfirmNew
<1>6. QED
  BY ZenonT(60), <1>1, <1>2, <1>3, <1>4, <1>5

\* The appointment ConfirmReschedule writes in place of the one it moves.
LEMMA ConfirmRescheduleEffect ==
  ASSUME Complete, NEW t \in Requests, ConfirmReschedule(t)
  PROVE  LET d == req[t].draft
             h == drafts[d].hold
             b == drafts[d].reschedules
         IN /\ req[t].step = "confirm"
            /\ d \in Drafts /\ h \in Holds /\ b \in Bookings
            /\ Confirmable(d, req[t].now) /\ Consume(t, d)
            /\ bookings[b].status = "confirmed"
            /\ BeforeCutoff(b, req[t].now)
            /\ \E row \in BookingRow :
                 /\ NoClash(b, row.resource, row.start, row.end)
                 /\ bookings' = [bookings EXCEPT ![b] = row]
                 /\ row.status = "confirmed"
                 /\ row.hold = h
                 /\ row.service = holds[h].service /\ row.service \in Services
                 /\ row.service = bookings[b].service
                 /\ row.resource = holds[h].resource /\ row.resource \in Resources
                 /\ row.start = holds[h].start
                 /\ row.end = row.start + Duration[row.service]
                 /\ row.key = bookings[b].key
                 /\ row.history = bookings[b].history \o
                      <<<<"confirmed", "reschedule_pending">>,
                        <<"reschedule_pending", "confirmed">>>>
                 /\ outbox' = outbox \cup
                      {<<"rescheduled", b, NextSequence(bookings[b].history)>>}
            /\ outbox' \subseteq Event
<1> USE DEF Complete
<1> DEFINE d == req[t].draft
           h == drafts[d].hold
           b == drafts[d].reschedules
           past == bookings[b].history
           end == holds[h].start + Duration[holds[h].service]
           row == [bookings[b] EXCEPT
                     !.resource = holds[h].resource, !.hold = h,
                     !.start = holds[h].start, !.end = end,
                     !.history = past \o
                        <<<<"confirmed", "reschedule_pending">>,
                          <<"reschedule_pending", "confirmed">>>>]
<1>1. /\ req[t].step = "confirm" /\ Confirmable(d, req[t].now) /\ Consume(t, d)
      /\ b # Nil /\ bookings[b].status = "confirmed"
      /\ BeforeCutoff(b, req[t].now)
      /\ NoClash(b, holds[h].resource, holds[h].start, end)
  BY ZenonT(60) DEF ConfirmReschedule
<1>2. d \in Drafts /\ h \in Holds /\ b \in Bookings /\ holds[h].status = "active"
  BY <1>1 DEF RequestsComplete, RequestComplete, Confirmable, TypeOK, DraftRow
<1>3. holds[h] \in HoldRow /\ bookings[b] \in BookingRow
  BY SMTT(60), <1>2 DEF TypeOK
<1>4. /\ holds[h].service \in Services /\ holds[h].resource \in Resources
      /\ holds[h].start \in Nat
      /\ bookings[b].service = holds[h].service
  BY ZenonT(60), <1>1, <1>2, <1>3 DEF RowsComplete, HoldRow, Confirmable
<1>5. end \in Nat
  BY <1>4, EndIsAnInstant
<1>6. past \in Seq(Statuses \X Statuses)
  BY <1>3 DEF BookingRow
<1>7. past \o <<<<"confirmed", "reschedule_pending">>,
                <<"reschedule_pending", "confirmed">>>> \in Seq(Statuses \X Statuses)
  <2>1. <<<<"confirmed", "reschedule_pending">>,
          <<"reschedule_pending", "confirmed">>>> \in Seq(Statuses \X Statuses)
    BY DEF Statuses
  <2>2. QED
    BY <1>6, <2>1
<1>8. row \in BookingRow
  BY ZenonT(60), <1>2, <1>3, <1>4, <1>5, <1>7 DEF BookingRow
<1>9. outbox' \subseteq Event
  <2>1. NextSequence(past) \in Nat
    <3> HIDE DEF past
    <3>1. Len(past) \in Nat
      BY SMTT(60), <1>6
    <3>2. QED
      BY <3>1 DEF NextSequence
  <2>2. outbox' = outbox \cup {<<"rescheduled", b, NextSequence(past)>>}
    BY ZenonT(60) DEF ConfirmReschedule
  <2> DEFINE n == NextSequence(past)
  <2>3. outbox \subseteq Event
    BY DEF TypeOK
  <2> HIDE DEF n, b
  <2>4. <<"rescheduled", b, n>> \in Event
    BY <1>2, <2>1 DEF Event, n
  <2>5. QED
    BY <2>2, <2>3, <2>4 DEF n
<1>10. bookings' = [bookings EXCEPT ![b] = row]
  BY ZenonT(60) DEF ConfirmReschedule
<1>11. /\ row.status = "confirmed" /\ row.hold = h
       /\ row.service = bookings[b].service
       /\ row.resource = holds[h].resource
       /\ row.start = holds[h].start /\ row.end = end
       /\ row.key = bookings[b].key
       /\ row.history = past \o
            <<<<"confirmed", "reschedule_pending">>,
              <<"reschedule_pending", "confirmed">>>>
  BY ZenonT(60), <1>1, <1>2, <1>3 DEF BookingRow
<1>12. outbox' = outbox \cup {<<"rescheduled", b, NextSequence(past)>>}
  BY ZenonT(60) DEF ConfirmReschedule
<1>13. QED
  BY ZenonT(60), <1>1, <1>2, <1>4, <1>8, <1>9, <1>10, <1>11, <1>12

\* A confirmed booking copies the service, the resource and the times of its hold.
LEMMA ConfirmKeepsComplete ==
  ASSUME Complete, NEW t \in Requests, ConfirmNew(t) \/ ConfirmReschedule(t)
  PROVE  Complete'
<1>1. CASE ConfirmNew(t)
  <2>1. PICK b \in Bookings, row \in BookingRow :
          /\ bookings[b].status = "unused"
          /\ bookings' = [bookings EXCEPT ![b] = row]
          /\ row.status = "confirmed"
          /\ row.service \in Services /\ row.resource \in Resources
          /\ row.end = row.start + Duration[row.service]
          /\ outbox' = outbox \cup {<<"confirmed", b, 0>>}
    BY <1>1, ConfirmNewEffect
  <2>2. outbox' \subseteq Event
    BY <2>1 DEF Complete, TypeOK, Event
  <2>3. QED
    BY <1>1, <2>1, <2>2, ConfirmNewEffect, ConfirmingKeepsComplete
<1>2. CASE ConfirmReschedule(t)
  BY <1>2, ConfirmRescheduleEffect, ConfirmingKeepsComplete
<1>3. QED
  BY <1>1, <1>2

\* Only the status and the history of a cancelled appointment change.
LEMMA CancelEffect ==
  ASSUME Complete, NEW b \in Bookings, CancelBooking(b)
  PROVE  /\ bookings[b].status = "confirmed"
         /\ UNCHANGED <<clock, serving, drafts, holds, workflow, req>>
         /\ bookings' \in [Bookings -> BookingRow]
         /\ \A o \in Bookings \ {b} : bookings'[o] = bookings[o]
         /\ bookings'[b].status = "cancelled"
         /\ bookings'[b].service = bookings[b].service
         /\ bookings'[b].resource = bookings[b].resource
         /\ bookings'[b].start = bookings[b].start
         /\ bookings'[b].end = bookings[b].end
         /\ bookings'[b].key = bookings[b].key
         /\ bookings'[b].hold = bookings[b].hold
         /\ bookings'[b].history = Append(bookings[b].history, <<"confirmed", "cancelled">>)
         /\ outbox' = outbox \cup {<<"cancelled", b, 0>>}
         /\ outbox' \subseteq Event
<1> DEFINE new == Append(bookings[b].history, <<"confirmed", "cancelled">>)
           row == [bookings[b] EXCEPT !.status = "cancelled", !.history = new]
<1>1. /\ bookings[b].status = "confirmed"
      /\ bookings' = [bookings EXCEPT ![b] = row]
      /\ outbox' = outbox \cup {<<"cancelled", b, 0>>}
      /\ UNCHANGED <<clock, serving, drafts, holds, workflow, req>>
  BY DEF CancelBooking
<1>2. bookings \in [Bookings -> BookingRow] /\ outbox \subseteq Event
  BY DEF Complete, TypeOK
<1>3. new \in Seq(Statuses \X Statuses)
  BY <1>2 DEF BookingRow, Statuses
<1>4. row \in BookingRow
  BY ZenonT(60), <1>2, <1>3 DEF BookingRow
<1>5. /\ row.status = "cancelled" /\ row.service = bookings[b].service
      /\ row.resource = bookings[b].resource /\ row.start = bookings[b].start
      /\ row.end = bookings[b].end /\ row.key = bookings[b].key
      /\ row.hold = bookings[b].hold /\ row.history = new
  BY <1>2 DEF BookingRow
<1>6. outbox' \subseteq Event
  BY <1>1, <1>2 DEF Event
<1>7. /\ bookings' \in [Bookings -> BookingRow] /\ bookings'[b] = row
      /\ \A o \in Bookings \ {b} : bookings'[o] = bookings[o]
  <2> HIDE DEF row
  <2>1. QED
    BY <1>1, <1>2, <1>4
<1> HIDE DEF row
<1>8. QED
  BY <1>1, <1>5, <1>6, <1>7

\* Cancelling changes the status of a row, which stays in use.
LEMMA CancelKeepsComplete ==
  ASSUME Complete, NEW b \in Bookings, CancelBooking(b)
  PROVE  Complete'
<1> USE DEF Complete
<1>1. TypeOK'
  BY CancelEffect DEF TypeOK
<1>2. RowsComplete'
  <2>1. \A d \in Drafts : drafts[d].reschedules \in Bookings \cup {Nil}
    BY DEF TypeOK, DraftRow
  <2>2. /\ drafts' = drafts /\ holds' = holds
        /\ \A o \in Bookings :
             /\ bookings'[o].status = "unused" <=> bookings[o].status = "unused"
             /\ bookings'[o].service = bookings[o].service
             /\ bookings'[o].resource = bookings[o].resource
             /\ bookings'[o].start = bookings[o].start
             /\ bookings'[o].end = bookings[o].end
    <3>1. /\ bookings[b].status = "confirmed" /\ bookings'[b].status = "cancelled"
          /\ \A o \in Bookings \ {b} : bookings'[o] = bookings[o]
      BY CancelEffect
    <3>2. QED
      BY <3>1, CancelEffect
  <2>3. QED
    BY <2>1, <2>2 DEF RowsComplete
<1>3. RequestsComplete'
  BY CancelEffect, AllStayComplete DEF RowsStay
<1>4. QED
  BY <1>1, <1>2, <1>3

\* The clock moves only while no request would be older than MaxLag.
LEMMA TickKeepsComplete ==
  ASSUME Complete, Tick
  PROVE  Complete'
<1> USE DEF Complete, Tick, store
<1>1. TypeOK'
  BY DEF TypeOK
<1>2. RowsComplete'
  BY DEF RowsComplete
<1>3. RequestsComplete'
  <2> SUFFICES ASSUME NEW t \in Requests
               PROVE  RequestComplete(req[t])'
    BY DEF RequestsComplete
  <2>1. RequestComplete(req[t]) /\ req[t] \in Request
    BY DEF RequestsComplete, TypeOK
  <2>2. req[t].step \in {"recheck", "confirm"} =>
          req[t].now <= clock' /\ clock' <= req[t].now + MaxLag
    BY <2>1, BookingAssumption DEF RequestComplete, Request, TypeOK
  <2>3. QED
    BY <2>1, <2>2 DEF RequestComplete
<1>4. QED
  BY <1>1, <1>2, <1>3

\* Suspending a tenant touches no row of the store.
LEMMA ServiceKeepsComplete ==
  ASSUME Complete, ChangeService
  PROVE  Complete'
<1> USE DEF Complete, ChangeService
<1>1. TypeOK'
  BY DEF TypeOK
<1>2. RowsComplete'
  BY DEF RowsComplete
<1>3. RequestsComplete'
  BY AllStayComplete DEF RowsStay
<1>4. QED
  BY <1>1, <1>2, <1>3

\* Complete is inductive.
LEMMA StepComplete == Complete /\ [Next]_vars => Complete'
<1> SUFFICES ASSUME Complete, [Next]_vars
             PROVE  Complete'
  OBVIOUS
<1>1. ASSUME NEW t \in Requests, RequestStep(t)
      PROVE  Complete'
  BY <1>1, ReadersKeepComplete, DraftActionsKeepComplete, ExpiryKeepsComplete,
     TakeHoldKeepsComplete, ConfirmKeepsComplete DEF RequestStep
<1>2. ASSUME NEW c \in Customers, CustomerStep(c)
      PROVE  Complete'
  BY <1>2, StartDraftKeepsComplete, DraftActionsKeepComplete DEF CustomerStep
<1>3. ASSUME NEW d \in Drafts, NEW s \in Grid, SelectDate(d, s \div DayLength)
      PROVE  Complete'
  <2>1. s \div DayLength \in Nat
    BY BookingAssumption DEF Grid
  <2>2. QED
    BY <1>3, <2>1, DraftActionsKeepComplete
<1>4. ASSUME NEW d \in Drafts, UpdateContact(d)
      PROVE  Complete'
  BY <1>4, DraftActionsKeepComplete
<1>5. ASSUME NEW b \in Bookings, CancelBooking(b)
      PROVE  Complete'
  BY <1>5, CancelKeepsComplete
<1>6. CASE ExpireHolds
  BY <1>6, ExpiryKeepsComplete
<1>7. CASE Tick
  BY <1>7, TickKeepsComplete
<1>8. CASE ChangeService
  BY <1>8, ServiceKeepsComplete
<1>9. CASE UNCHANGED vars
  BY <1>9, AllStayComplete DEF vars, Complete, TypeOK, RowsComplete, RowsStay
<1>10. QED
  BY <1>1, <1>2, <1>3, <1>4, <1>5, <1>6, <1>7, <1>8, <1>9 DEF Next

\* The inductive invariant holds in every reachable state.
LEMMA AlwaysComplete == Spec => []Complete
BY InitComplete, StepComplete, PTL DEF Spec

-----------------------------------------------------------------------------
(* Theorems *)

\* Every row has its type and a request in flight always names rows in use:
\* no handler of booking.py meets a row without its service, hold or draft.
THEOREM TypeCorrect == Spec => []TypeOK
<1>1. Complete => TypeOK
  BY DEF Complete
<1>2. QED
  BY <1>1, AlwaysComplete, PTL

\* Only TakeHold makes or changes an active hold.
LEMMA OnlyTakeHoldReserves ==
  ASSUME Complete, [Next]_vars, \A t \in Requests : ~TakeHold(t)
  PROVE  /\ clock \in Nat /\ clock' \in Nat /\ clock <= clock'
         /\ \A h \in Holds : holds'[h].status = "active" => holds'[h] = holds[h]
<1> DEFINE Goal == /\ clock \in Nat /\ clock' \in Nat /\ clock <= clock'
                   /\ \A h \in Holds : holds'[h].status = "active" =>
                                          holds'[h] = holds[h]
<1>0. clock \in Nat /\ holds \in [Holds -> HoldRow]
  BY DEF Complete, TypeOK
<1>s. ASSUME clock' = clock, holds' = holds
      PROVE  Goal
  BY <1>0, <1>s
<1>e. ASSUME clock' = clock, NEW which, NEW to \in {"released", "expired"},
             holds' = Retire(which, to)
      PROVE  Goal
  BY <1>0, <1>e, RetireKeepsRows
<1>u. ASSUME clock' = clock, NEW h \in Holds, NEW to \in {"expired", "consumed"},
             holds' = [holds EXCEPT ![h].status = to]
      PROVE  Goal
  BY <1>0, <1>u
<1>1. ASSUME NEW t \in Requests, RequestStep(t)
      PROVE  Goal
  <2>1. CASE \/ \E d \in Drafts : ReadExpiredDraft(t, d) \/ RequestConfirm(t, d)
             \/ \E d \in Drafts, s \in Grid : PressSlot(t, d, s)
             \/ \E h \in Holds : ReadExpiredHold(t, h)
             \/ ReturnHold(t) \/ ChooseSlot(t) \/ RefuseConfirm(t)
             \/ Rollback(t) \/ Answer(t)
    BY <1>s, <2>1 DEF ReadExpiredDraft, RequestConfirm, PressSlot, ReadExpiredHold,
       ReturnHold, ChooseSlot, RefuseConfirm, Rollback, Answer, store
  <2>2. CASE ExpireDraft(t)
    BY <1>e, <2>2 DEF ExpireDraft
  <2>3. CASE ExpireHold(t)
    <3>1. req[t].hold \in Holds
      BY <2>3 DEF ExpireHold, Complete, RequestsComplete, RequestComplete
    <3>2. QED
      BY ZenonT(60), <1>u, <2>3, <3>1 DEF ExpireHold
  <2>4. CASE ConfirmNew(t) \/ ConfirmReschedule(t)
    <3>1. drafts[req[t].draft].hold \in Holds /\ Consume(t, req[t].draft)
      <4>1. CASE ConfirmNew(t)
        BY <4>1, ConfirmNewEffect
      <4>2. CASE ConfirmReschedule(t)
        BY <4>2, ConfirmRescheduleEffect
      <4>3. QED
        BY <2>4, <4>1, <4>2
    <3>2. QED
      BY ZenonT(60), <1>u, <3>1 DEF Consume
  <2>5. QED
    BY SMTT(60), <1>1, <2>1, <2>2, <2>3, <2>4 DEF RequestStep
<1>2. ASSUME NEW c \in Customers, CustomerStep(c)
      PROVE  Goal
  BY <1>2, <1>e DEF CustomerStep, CancelDraft, StartDraft
<1>3. ASSUME NEW d \in Drafts, NEW s \in Grid, SelectDate(d, s \div DayLength)
      PROVE  Goal
  BY <1>3, <1>s DEF SelectDate
<1>4. ASSUME NEW d \in Drafts, UpdateContact(d)
      PROVE  Goal
  BY <1>4, <1>s DEF UpdateContact
<1>5. ASSUME NEW b \in Bookings, CancelBooking(b)
      PROVE  Goal
  BY <1>5, <1>s DEF CancelBooking
<1>6. CASE ExpireHolds
  BY <1>6, <1>e DEF ExpireHolds
<1>7. CASE Tick
  BY <1>0, <1>7 DEF Tick, store
<1>8. CASE ChangeService \/ UNCHANGED vars
  BY <1>8, <1>s DEF ChangeService, vars
<1>9. QED
  BY <1>1, <1>2, <1>3, <1>4, <1>5, <1>6, <1>7, <1>8 DEF Next

\* A hold taken on a free slot meets no live hold.  The reading of the clock
\* may be old: what was live then includes what is live now, and a hold the
\* query leaves out because it ends before the reading ends before the slot.
LEMMA TakeHoldKeepsDisjoint ==
  ASSUME Complete, LiveHoldsDisjoint, NEW t \in Requests, TakeHold(t)
  PROVE  LiveHoldsDisjoint'
<1> DEFINE d == req[t].draft
           sv == drafts[d].service
           slot == req[t].slot
           now == req[t].now
           released == Retire({drafts[d].hold}, "released")
           end == slot[1] + Duration[sv] + Buffer[sv]
<1>1. /\ d \in Drafts /\ sv \in Services
      /\ slot \in Nat \X Resources
      /\ now \in Nat /\ now <= clock /\ now + MinimumNotice <= slot[1]
      /\ ~Busy(released, slot[2], slot[1], end, now)
      /\ released \in [Holds -> HoldRow]
  BY TakeHoldEffect
<1>2. PICK h \in Holds :
        holds' = [released EXCEPT ![h] =
             [status |-> "active", draft |-> d,
              label |-> Label(req[t].wanted), service |-> sv,
              resource |-> slot[2], start |-> slot[1], end |-> end,
              expires |-> now + HoldDuration]]
  BY TakeHoldEffect
<1>3. /\ holds'[h].resource = slot[2] /\ holds'[h].start = slot[1]
      /\ holds'[h].end = end
      /\ \A g \in Holds \ {h} : holds'[g] = released[g]
  BY <1>1, <1>2
<1>4. clock' = clock /\ clock \in Nat
  BY DEF TakeHold, Complete, TypeOK
<1>5. ASSUME NEW g \in Holds \ {h}, Live(g)'
      PROVE  holds'[g] = holds[g] /\ Live(g) /\ holds[g] \in HoldRow
             /\ released[g] = holds[g]
  <2>1. holds'[g] = released[g] /\ released[g].status = "active"
    BY <1>3, <1>5 DEF Live
  <2>2. released[g] = holds[g]
    BY <2>1, RetireKeepsRows
  <2>3. holds[g] \in HoldRow
    BY DEF Complete, TypeOK
  <2>4. QED
    BY <1>4, <1>5, <2>1, <2>2, <2>3 DEF Live
<1>6. ASSUME NEW g \in Holds \ {h}, Live(g)', holds'[g].resource = slot[2]
      PROVE  ~Overlap(slot[1], end, holds[g].start, holds[g].end)
  <2>1. /\ released[g].status = "active" /\ released[g].resource = slot[2]
        /\ released[g].expires > now /\ released[g].start = holds[g].start
        /\ released[g].end = holds[g].end /\ holds[g].end \in Nat
    <3>1. /\ released[g] = holds[g] /\ holds'[g] = holds[g] /\ holds[g] \in HoldRow
          /\ holds[g].status = "active" /\ clock < holds[g].expires
      BY <1>5, <1>6 DEF Live
    <3>2. holds[g].expires \in Nat /\ holds[g].end \in Nat
      BY <3>1 DEF HoldRow
    <3>3. holds[g].expires > now
      BY SMTT(60), <1>1, <1>4, <3>1, <3>2
    <3>4. QED
      BY <1>6, <3>1, <3>2, <3>3
  <2>2. CASE holds[g].end > now
    BY ZenonT(60), <1>1, <2>1, <2>2 DEF Busy, Overlap
  <2>3. CASE ~(holds[g].end > now)
    <3>1. holds[g].end <= slot[1]
      BY <1>1, <2>1, <2>3, BookingAssumption
    <3>2. QED
      BY <1>1, <2>1, <3>1 DEF Overlap
  <2>4. QED
    BY <2>2, <2>3
<1>7. SUFFICES ASSUME NEW f \in Holds, NEW g \in Holds, Live(f)', Live(g)', f # g,
                      holds'[f].resource = holds'[g].resource
               PROVE  ~Overlap(holds'[f].start, holds'[f].end,
                               holds'[g].start, holds'[g].end)
  BY DEF LiveHoldsDisjoint
<1>8. CASE f = h
  BY <1>3, <1>5, <1>6, <1>7, <1>8
<1>9. CASE g = h
  BY <1>3, <1>5, <1>6, <1>7, <1>9 DEF Overlap
<1>10. CASE f # h /\ g # h
  BY <1>5, <1>7, <1>10 DEF LiveHoldsDisjoint
<1>11. QED
  BY <1>8, <1>9, <1>10

\* No two live holds of a resource overlap, whatever the age of the clock
\* readings with which create_hold made them.
THEOREM HoldsDisjoint == Spec => []LiveHoldsDisjoint
<1>1. Init => LiveHoldsDisjoint
  BY DEF Init, LiveHoldsDisjoint, Live, NoHold
<1>2. Complete /\ LiveHoldsDisjoint /\ [Next]_vars => LiveHoldsDisjoint'
  <2> SUFFICES ASSUME Complete, LiveHoldsDisjoint, [Next]_vars
               PROVE  LiveHoldsDisjoint'
    OBVIOUS
  <2>1. CASE \E t \in Requests : TakeHold(t)
    BY <2>1, TakeHoldKeepsDisjoint
  <2>2. CASE \A t \in Requests : ~TakeHold(t)
    <3>1. \A h \in Holds : Live(h)' => Live(h) /\ holds'[h] = holds[h]
      <4>1. \A h \in Holds : holds[h].expires \in Nat
        BY DEF Complete, TypeOK, HoldRow
      <4>2. QED
        BY <2>2, <4>1, OnlyTakeHoldReserves DEF Live
    <3>2. QED
      BY <3>1 DEF LiveHoldsDisjoint
  <2>3. QED
    BY <2>1, <2>2
<1>3. QED
  BY <1>1, <1>2, AlwaysComplete, PTL DEF Spec

-----------------------------------------------------------------------------
(* How appointments change *)

\* What the two ways of confirming a draft have in common: request t writes the
\* appointment b, from the hold of its draft, on time that is free of others.
Confirms(t, b, row) ==
  LET d == req[t].draft
      h == drafts[d].hold
  IN /\ req[t].step = "confirm"
     /\ d \in Drafts /\ h \in Holds
     /\ Confirmable(d, req[t].now) /\ Consume(t, d)
     /\ NoClash(b, row.resource, row.start, row.end)
     /\ bookings' = [bookings EXCEPT ![b] = row]
     /\ row \in BookingRow
     /\ row.status = "confirmed"
     /\ row.hold = h
     /\ row.service = holds[h].service /\ row.service \in Services
     /\ row.resource = holds[h].resource /\ row.resource \in Resources
     /\ row.start = holds[h].start
     /\ row.end = row.start + Duration[row.service]
     /\ \/ bookings[b].status = "unused" /\ row.key = d
        \/ bookings[b].status = "confirmed" /\ row.key = bookings[b].key

\* Appointments and their events are written by three actions only.
LEMMA AppointmentSteps ==
  ASSUME [Next]_vars
  PROVE  \/ bookings' = bookings /\ outbox' = outbox
         \/ \E t \in Requests : ConfirmNew(t) \/ ConfirmReschedule(t)
         \/ \E b \in Bookings : CancelBooking(b)
<1> DEFINE Same == bookings' = bookings /\ outbox' = outbox
<1>1. ASSUME NEW t \in Requests, RequestStep(t), ~ConfirmNew(t), ~ConfirmReschedule(t)
      PROVE  Same
  BY <1>1 DEF RequestStep, ReadExpiredDraft, RequestConfirm, PressSlot, ReadExpiredHold,
     ReturnHold, ChooseSlot, RefuseConfirm, Rollback, Answer, ExpireDraft, ExpireHold,
     TakeHold, store
<1>2. ASSUME NEW c \in Customers, CustomerStep(c)
      PROVE  Same
  BY ZenonT(60), <1>2 DEF CustomerStep, CancelDraft, StartDraft
<1>3. ASSUME NEW d \in Drafts, \/ \E s \in Grid : SelectDate(d, s \div DayLength)
                               \/ UpdateContact(d)
      PROVE  Same
  BY <1>3 DEF SelectDate, UpdateContact
<1>4. ASSUME ExpireHolds \/ ChangeService \/ Tick \/ UNCHANGED vars
      PROVE  Same
  BY <1>4 DEF ExpireHolds, ChangeService, Tick, vars, store
<1>5. QED
  BY <1>1, <1>2, <1>3, <1>4 DEF Next

\* Appointments change only when a draft is confirmed or one is cancelled.
LEMMA AppointmentChanges ==
  ASSUME Complete, [Next]_vars
  PROVE  \/ bookings' = bookings /\ outbox' = outbox
         \/ \E t \in Requests, b \in Bookings, row \in BookingRow : Confirms(t, b, row)
         \/ \E b \in Bookings : CancelBooking(b)
<1>1. ASSUME NEW t \in Requests, ConfirmNew(t)
      PROVE  \E b \in Bookings, row \in BookingRow : Confirms(t, b, row)
  BY <1>1, ConfirmNewEffect DEF Confirms
<1>2. ASSUME NEW t \in Requests, ConfirmReschedule(t)
      PROVE  \E b \in Bookings, row \in BookingRow : Confirms(t, b, row)
  BY <1>2, ConfirmRescheduleEffect DEF Confirms
<1>3. QED
  BY <1>1, <1>2, AppointmentSteps

\* A confirmation consumes a live hold, by its own reading of the clock.
LEMMA ConfirmsEffect ==
  ASSUME Complete, NEW t \in Requests, NEW b \in Bookings, NEW row \in BookingRow,
         Confirms(t, b, row)
  PROVE  LET d == req[t].draft
             h == drafts[d].hold
         IN /\ h \in Holds /\ holds[h].status = "active"
            /\ drafts[d].status = "active"
            /\ req[t].now \in Nat /\ clock \in Nat /\ holds[h].expires \in Nat
            /\ req[t].now < holds[h].expires
            /\ req[t].now <= clock /\ clock <= req[t].now + MaxLag
            /\ clock' = clock
            /\ holds'[h].status = "consumed"
            /\ \A g \in Holds \ {h} : holds'[g] = holds[g]
            /\ bookings'[b] = row
            /\ \A o \in Bookings \ {b} : bookings'[o] = bookings[o]
            /\ \A e \in Drafts \ {d} : drafts'[e] = drafts[e]
            /\ drafts'[d].status = "confirmed"
<1> DEFINE d == req[t].draft
           h == drafts[d].hold
<1>1. d \in Drafts /\ h \in Holds /\ Confirmable(d, req[t].now) /\ Consume(t, d)
      /\ bookings' = [bookings EXCEPT ![b] = row] /\ req[t].step = "confirm"
  BY DEF Confirms
<1>2. /\ holds[h].status = "active" /\ drafts[d].status = "active"
      /\ req[t].now < holds[h].expires
  BY <1>1 DEF Confirmable, Owned
<1>3. req[t].now \in Nat /\ clock \in Nat /\ holds[h].expires \in Nat
  BY <1>1 DEF Complete, TypeOK, Request, HoldRow
<1>4. req[t].now <= clock /\ clock <= req[t].now + MaxLag
  BY <1>1 DEF Complete, RequestsComplete, RequestComplete
<1>5. /\ holds' = [holds EXCEPT ![h].status = "consumed"]
      /\ drafts' = [drafts EXCEPT ![d].status = "confirmed"]
      /\ clock' = clock
  BY <1>1 DEF Consume
<1>6. /\ holds'[h].status = "consumed" /\ drafts'[d].status = "confirmed"
      /\ \A g \in Holds \ {h} : holds'[g] = holds[g]
      /\ \A e \in Drafts \ {d} : drafts'[e] = drafts[e]
  BY <1>1, <1>5 DEF Complete, TypeOK, HoldRow, DraftRow
<1>7. /\ bookings'[b] = row
      /\ \A o \in Bookings \ {b} : bookings'[o] = bookings[o]
  BY <1>1 DEF Complete, TypeOK
<1>8. QED
  BY <1>1, <1>2, <1>3, <1>4, <1>5, <1>6, <1>7

\* Confirming makes or moves an appointment at the time of a hold that the
\* store saw active and, by a reading at most MaxLag old, unexpired.
THEOREM ConfirmationsConsumeLiveHolds == Spec => ConfirmConsumesLiveHold
<1>1. ASSUME Complete, [Next]_vars, NEW b \in Bookings, Booked(b)',
             ~Booked(b) \/ bookings'[b].start # bookings[b].start
      PROVE  LET h == bookings'[b].hold
             IN /\ holds[h].status = "active"
                /\ holds'[h].status = "consumed"
                /\ clock < holds[h].expires + MaxLag
                /\ bookings'[b].start = holds[h].start
                /\ bookings'[b].resource = holds[h].resource
  <2>1. bookings' # bookings
    BY <1>1 DEF Booked
  <2>2. ASSUME NEW o \in Bookings, CancelBooking(o)
        PROVE  FALSE
    BY <1>1, <2>2, CancelEffect DEF Booked
  <2>3. PICK t \in Requests, o \in Bookings, row \in BookingRow : Confirms(t, o, row)
    BY <1>1, <2>1, <2>2, AppointmentChanges
  <2> DEFINE h == drafts[req[t].draft].hold
  <2>4. o = b /\ bookings'[b] = row
    BY <1>1, <2>3, ConfirmsEffect DEF Booked
  <2>5. row.hold = h /\ row.start = holds[h].start /\ row.resource = holds[h].resource
    BY <2>3 DEF Confirms
  <2>6. clock < holds[h].expires + MaxLag
    BY <1>1, <2>3, ConfirmsEffect, BookingAssumption
  <2>7. holds[h].status = "active" /\ holds'[h].status = "consumed"
    BY <1>1, <2>3, ConfirmsEffect
  <2>8. QED
    BY <2>4, <2>5, <2>6, <2>7
<1>2. Complete /\ [Next]_vars =>
        [\A b \in Bookings :
           Booked(b)' /\ (~Booked(b) \/ bookings'[b].start # bookings[b].start) =>
             LET h == bookings'[b].hold
             IN /\ holds[h].status = "active"
                /\ holds'[h].status = "consumed"
                /\ clock < holds[h].expires + MaxLag
                /\ bookings'[b].start = holds[h].start
                /\ bookings'[b].resource = holds[h].resource]_vars
  BY <1>1
<1>3. QED
  BY <1>2, AlwaysComplete, PTL DEF Spec, ConfirmConsumesLiveHold

-----------------------------------------------------------------------------
(* The appointment book *)

\* The entries of the book: bookings without what only the store knows.
LEMMA Entries ==
  ASSUME Complete, NEW b \in Bookings
  PROVE  /\ bookings[b].start \in Nat /\ bookings[b].end \in Nat
         /\ bookings[b] \in BookingRow
         /\ bookings[b].status # "unused" =>
              bookings[b].resource \in Resources /\ bookings[b].start < bookings[b].end
<1>1. bookings[b] \in BookingRow
  BY DEF Complete, TypeOK
<1>2. bookings[b].start \in Nat /\ bookings[b].end \in Nat
  BY <1>1 DEF BookingRow
<1>3. bookings[b].status # "unused" =>
        bookings[b].resource \in Resources /\ bookings[b].start < bookings[b].end
  BY <1>2, BookingAssumption DEF Complete, RowsComplete
<1>4. QED
  BY <1>1, <1>2, <1>3

\* Every transaction of the store that changes appointments makes, moves or
\* strikes one entry of the appointment book: the exclusion constraint and the
\* resource lock make confirm and cancel_booking look atomic.
THEOREM StoreImplementsBook == Spec => ImplementsAppointmentBook
<1> DEFINE entry(b) == [status   |-> bookings[b].status,
                        resource |-> bookings[b].resource,
                        start    |-> bookings[b].start,
                        end      |-> bookings[b].end]
           book == [b \in Bookings |-> entry(b)]
<1>1. Init => Book!Init
  BY DEF Init, Book!Init, NoBooking
<1>2. ASSUME Complete, Complete', [Next]_vars
      PROVE  [Book!Next]_book
  <2>1. CASE bookings' = bookings
    BY <2>1
  <2>2. ASSUME NEW t \in Requests, NEW b \in Bookings, NEW row \in BookingRow,
               Confirms(t, b, row)
        PROVE  Book!Next
    <3>1. /\ bookings'[b] = row
          /\ \A o \in Bookings \ {b} : bookings'[o] = bookings[o]
      BY <1>2, <2>2, ConfirmsEffect
    <3>2. /\ row.status = "confirmed"
          /\ NoClash(b, row.resource, row.start, row.end)
          /\ bookings[b].status \in {"unused", "confirmed"}
      BY <2>2 DEF Confirms
    <3>3. /\ row.resource \in Resources /\ row.start < row.end
          /\ row.start \in Nat /\ row.end \in Nat
      <4>1. row \in BookingRow /\ row.service \in Services /\ row.resource \in Resources
            /\ row.end = row.start + Duration[row.service]
        BY <2>2 DEF Confirms
      <4>2. row.start \in Nat /\ row.end \in Nat
        BY <4>1 DEF BookingRow
      <4>3. QED
        BY <4>1, <4>2, BookingAssumption
    <3>4. Book!Free(b, row.resource, row.start, row.end)
      BY <1>2, <3>2, <3>3, Entries DEF NoClash, Overlap, Book!Free
    <3>5. book' = [book EXCEPT ![b] = book'[b]]
      BY <3>1
    <3>6. Book!Write(b)
      BY <3>1, <3>2, <3>3, <3>4, <3>5 DEF Book!Write
    <3>7. QED
      BY <3>2, <3>6 DEF Book!Next, Book!Make, Book!Move
  <2>3. ASSUME NEW b \in Bookings, CancelBooking(b)
        PROVE  Book!Next
    <3>1. book' = [book EXCEPT ![b].status = "cancelled"]
      <4>1. \A o \in Bookings \ {b} : book'[o] = book[o]
        BY <1>2, <2>3, CancelEffect
      <4>2. book'[b] = [book[b] EXCEPT !.status = "cancelled"]
        BY <1>2, <2>3, CancelEffect
      <4>3. /\ book = [o \in Bookings |-> book[o]]
            /\ book' = [o \in Bookings |-> book'[o]]
        OBVIOUS
      <4> HIDE DEF book
      <4>4. QED
        BY <4>1, <4>2, <4>3
    <3>2. book[b].status = "confirmed"
      BY <1>2, <2>3, CancelEffect
    <3>3. QED
      BY <3>1, <3>2 DEF Book!Next, Book!Strike
  <2>4. QED
    BY <1>2, <2>1, <2>2, <2>3, AppointmentChanges
<1>3. Complete /\ [Next]_vars => [Book!Next]_book
  BY <1>2, StepComplete
<1>4. QED
  BY <1>1, <1>3, AlwaysComplete, PTL DEF Spec, ImplementsAppointmentBook, Book!Spec

-----------------------------------------------------------------------------
(* One appointment for a draft *)

\* An appointment comes from a draft and rests on a hold, which are both over
\* and done with: neither can be confirmed or consumed again.
Settled ==
  \A b \in Bookings : bookings[b].status # "unused" =>
    /\ bookings[b].key \in Drafts
    /\ drafts[bookings[b].key].status \notin {"unused", "active"}
    /\ bookings[b].hold \in Holds
    /\ holds[bookings[b].hold].status \notin {"unused", "active"}

\* A draft or hold that is closed is never opened again: start_draft and
\* create_hold insert rows, and every other write closes one.
LEMMA ClosedForGood ==
  ASSUME Complete, [Next]_vars
  PROVE  /\ \A d \in Drafts : drafts[d].status \notin {"unused", "active"} =>
                                drafts'[d].status \notin {"unused", "active"}
         /\ \A h \in Holds : holds[h].status \notin {"unused", "active"} =>
                               holds'[h].status \notin {"unused", "active"}
<1> DEFINE Closed(status) == status \notin {"unused", "active"}
           DraftsStay == \A d \in Drafts : Closed(drafts[d].status) => Closed(drafts'[d].status)
           HoldsStay == \A h \in Holds : Closed(holds[h].status) => Closed(holds'[h].status)
<1>0. /\ holds \in [Holds -> HoldRow] /\ drafts \in [Drafts -> DraftRow]
      /\ \A r \in Requests : req[r].step \in {"recheck", "expire_draft"} =>
                               req[r].draft \in Drafts
      /\ \A r \in Requests : req[r].step = "expire_hold" => req[r].hold \in Holds
  BY DEF Complete, TypeOK, RequestsComplete, RequestComplete
<1>r. ASSUME NEW which, NEW to \in {"released", "expired"}, holds' = Retire(which, to)
      PROVE  HoldsStay
  BY <1>0, <1>r DEF Retire, HoldRow
<1>w. ASSUME NEW h \in Holds, NEW to \in {"expired", "consumed"},
             holds' = [holds EXCEPT ![h].status = to]
      PROVE  HoldsStay
  BY <1>0, <1>w DEF HoldRow
<1>x. ASSUME NEW d \in Drafts, NEW to \in {"expired", "confirmed"},
             drafts' = [drafts EXCEPT ![d].status = to]
      PROVE  DraftsStay
  BY <1>0, <1>x DEF DraftRow
<1>1. ASSUME NEW t \in Requests, TakeHold(t)
      PROVE  DraftsStay /\ HoldsStay
  <2> DEFINE d == req[t].draft
             released == Retire({drafts[d].hold}, "released")
  <2>1. PICK h \in Holds :
          /\ holds[h].status = "unused"
          /\ \E row : holds' = [released EXCEPT ![h] = row]
          /\ drafts' = [drafts EXCEPT ![d].hold = h]
    BY ZenonT(60), <1>1 DEF TakeHold
  <2>2. \A g \in Holds : Closed(holds[g].status) => Closed(released[g].status)
    BY <1>0 DEF Retire, HoldRow
  <2>3. \A g \in Holds \ {h} : holds'[g] = released[g]
    BY <2>1 DEF Retire
  <2>4. HoldsStay
    BY <2>1, <2>2, <2>3
  <2>5. DraftsStay
    BY <1>0, <2>1 DEF DraftRow
  <2>6. QED
    BY <2>4, <2>5
<1>2. ASSUME NEW t \in Requests, RequestStep(t), ~TakeHold(t)
      PROVE  DraftsStay /\ HoldsStay
  <2>1. CASE \/ \E d \in Drafts : ReadExpiredDraft(t, d) \/ RequestConfirm(t, d)
             \/ \E d \in Drafts, s \in Grid : PressSlot(t, d, s)
             \/ \E h \in Holds : ReadExpiredHold(t, h)
             \/ ReturnHold(t) \/ ChooseSlot(t) \/ RefuseConfirm(t)
             \/ Rollback(t) \/ Answer(t)
    BY ZenonT(60), <2>1 DEF ReadExpiredDraft, RequestConfirm, PressSlot, ReadExpiredHold,
       ReturnHold, ChooseSlot, RefuseConfirm, Rollback, Answer, store
  <2>2. CASE ExpireDraft(t)
    BY <1>0, <1>r, <1>x, <2>2 DEF ExpireDraft
  <2>3. CASE ExpireHold(t)
    BY <1>0, <1>w, <2>3 DEF ExpireHold
  <2>4. CASE ConfirmNew(t) \/ ConfirmReschedule(t)
    <3>1. /\ drafts[req[t].draft].hold \in Holds /\ req[t].draft \in Drafts
          /\ Consume(t, req[t].draft)
      BY <2>4, ConfirmNewEffect, ConfirmRescheduleEffect
    <3>2. QED
      BY <1>w, <1>x, <3>1 DEF Consume
  <2>5. QED
    BY <1>2, <2>1, <2>2, <2>3, <2>4 DEF RequestStep
<1>3. ASSUME NEW c \in Customers, CancelDraft(c)
      PROVE  DraftsStay /\ HoldsStay
  <2>1. DraftsStay
    BY <1>0, <1>3 DEF CancelDraft, DraftRow
  <2>2. QED
    BY <1>r, <1>3, <2>1 DEF CancelDraft
<1>4. ASSUME NEW c \in Customers, NEW sv \in Services, NEW rb \in Bookings \cup {Nil},
             StartDraft(c, sv, rb)
      PROVE  DraftsStay /\ HoldsStay
  <2>1. PICK now \in Readings, d \in Drafts :
          /\ drafts[d].status = "unused"
          /\ drafts' = [e \in Drafts |->
               IF e = d
                 THEN [NoDraft EXCEPT !.status = "active", !.customer = c,
                                      !.service = sv, !.reschedules = rb,
                                      !.expires = now + DraftDuration]
               ELSE IF e \in ActiveDrafts(c)
                 THEN [drafts[e] EXCEPT !.status = "cancelled"]
               ELSE drafts[e]]
    BY ZenonT(60), <1>4 DEF StartDraft
  <2>2. DraftsStay
    BY <1>0, <2>1 DEF DraftRow
  <2>3. HoldsStay
    BY <1>r, <1>4 DEF StartDraft
  <2>4. QED
    BY <2>2, <2>3
<1>5. ASSUME NEW d \in Drafts, \/ \E s \in Grid : SelectDate(d, s \div DayLength)
                               \/ UpdateContact(d)
      PROVE  DraftsStay /\ HoldsStay
  <2>1. holds' = holds /\ \A e \in Drafts : drafts'[e].status = drafts[e].status
    BY <1>0, <1>5 DEF SelectDate, UpdateContact, DraftRow
  <2>2. QED
    BY <2>1
<1>6. ASSUME ExpireHolds
      PROVE  DraftsStay /\ HoldsStay
  BY <1>r, <1>6 DEF ExpireHolds
<1>7. ASSUME \/ ChangeService \/ Tick \/ UNCHANGED vars
             \/ \E b \in Bookings : CancelBooking(b)
      PROVE  DraftsStay /\ HoldsStay
  BY <1>7 DEF ChangeService, Tick, CancelBooking, vars, store
<1>8. QED
  BY <1>1, <1>2, <1>3, <1>4, <1>5, <1>6, <1>7 DEF Next, CustomerStep

\* Settled is inductive.
LEMMA StepSettled ==
  ASSUME Complete, Settled, [Next]_vars
  PROVE  Settled'
<1>1. CASE bookings' = bookings
  BY <1>1, ClosedForGood DEF Settled
<1>2. ASSUME NEW t \in Requests, NEW b \in Bookings, NEW row \in BookingRow,
             Confirms(t, b, row)
      PROVE  Settled'
  <2>1. /\ bookings'[b] = row
        /\ \A o \in Bookings \ {b} : bookings'[o] = bookings[o]
    BY <1>2, ConfirmsEffect
  <2>2. row.hold \in Holds /\ holds'[row.hold].status \notin {"unused", "active"}
    BY <1>2, ConfirmsEffect DEF Confirms
  <2>3. row.key \in Drafts /\ drafts'[row.key].status \notin {"unused", "active"}
    <3>1. CASE row.key = req[t].draft
      BY <1>2, <3>1, ConfirmsEffect DEF Confirms
    <3>2. CASE bookings[b].status = "confirmed" /\ row.key = bookings[b].key
      BY <3>2, ClosedForGood DEF Settled
    <3>3. QED
      BY <1>2, <3>1, <3>2 DEF Confirms
  <2>4. QED
    BY <2>1, <2>2, <2>3, ClosedForGood DEF Settled
<1>3. ASSUME NEW b \in Bookings, CancelBooking(b)
      PROVE  Settled'
  <2>1. bookings'[b].key = bookings[b].key /\ bookings'[b].hold = bookings[b].hold
    BY <1>3, CancelEffect
  <2>2. bookings[b].status # "unused"
    BY <1>3, CancelEffect
  <2>3. \A o \in Bookings \ {b} : bookings'[o] = bookings[o]
    BY <1>3, CancelEffect
  <2>4. QED
    BY <2>1, <2>2, <2>3, ClosedForGood DEF Settled
<1>4. QED
  BY <1>1, <1>2, <1>3, AppointmentChanges

\* A draft is confirmed once and a hold consumed once, however often the
\* review's button is pressed and the confirmation repeated.
THEOREM DraftsMakeOneAppointment == Spec => []OneAppointmentPerDraft
<1>1. Init => Settled /\ OneAppointmentPerDraft
  BY DEF Init, Settled, OneAppointmentPerDraft, NoBooking
<1>2. ASSUME Complete, Settled, OneAppointmentPerDraft, [Next]_vars
      PROVE  OneAppointmentPerDraft'
  <2>1. CASE bookings' = bookings
    BY <1>2, <2>1 DEF OneAppointmentPerDraft
  <2>2. ASSUME NEW t \in Requests, NEW b \in Bookings, NEW row \in BookingRow,
               Confirms(t, b, row)
        PROVE  OneAppointmentPerDraft'
    <3>1. /\ bookings'[b] = row
          /\ \A o \in Bookings \ {b} : bookings'[o] = bookings[o]
          /\ drafts[req[t].draft].status = "active"
          /\ holds[drafts[req[t].draft].hold].status = "active"
      BY <1>2, <2>2, ConfirmsEffect
    <3>2. /\ row.hold = drafts[req[t].draft].hold
          /\ \/ bookings[b].status = "unused" /\ row.key = req[t].draft
             \/ bookings[b].status = "confirmed" /\ row.key = bookings[b].key
      BY <2>2 DEF Confirms
    <3>3. ASSUME NEW o \in Bookings \ {b}, bookings[o].status # "unused"
          PROVE  bookings[o].key # row.key /\ bookings[o].hold # row.hold
      BY <1>2, <3>1, <3>2, <3>3 DEF Settled, OneAppointmentPerDraft
    <3>4. QED
      BY <1>2, <3>1, <3>3 DEF OneAppointmentPerDraft
  <2>3. ASSUME NEW b \in Bookings, CancelBooking(b)
        PROVE  OneAppointmentPerDraft'
    <3>1. /\ bookings[b].status # "unused"
          /\ \A o \in Bookings : /\ bookings'[o].key = bookings[o].key
                                 /\ bookings'[o].hold = bookings[o].hold
                                 /\ o # b => bookings'[o] = bookings[o]
      BY <1>2, <2>3, CancelEffect
    <3>2. QED
      BY <1>2, <3>1 DEF OneAppointmentPerDraft
  <2>4. QED
    BY <1>2, <2>1, <2>2, <2>3, AppointmentChanges
<1>3. Complete /\ Settled /\ OneAppointmentPerDraft /\ [Next]_vars =>
        Settled' /\ OneAppointmentPerDraft'
  BY <1>2, StepSettled
<1>4. QED
  BY <1>1, <1>3, AlwaysComplete, PTL DEF Spec

-----------------------------------------------------------------------------
(* Cleanup times *)

\* Two ways for the cleanup time of an appointment to be lost: confirm does not
\* read availability again, so an old reading of the clock may consume a hold
\* whose time was given away; and availability forgets an appointment when it
\* ends, so its cleanup time is protected only by the notice every start needs.
CurrentReadings == MaxLag = 0
NoticeCoversCleanup == \A sv \in Services : Buffer[sv] <= MinimumNotice

\* create_hold takes no time of an appointment or of its cleanup, however old
\* its reading of the clock.
LEMMA TakeHoldKeepsClear ==
  ASSUME NoticeCoversCleanup, Complete, HoldsClearOfAppointments,
         NEW t \in Requests, TakeHold(t)
  PROVE  HoldsClearOfAppointments'
<1> DEFINE d == req[t].draft
           sv == drafts[d].service
           slot == req[t].slot
           now == req[t].now
           released == Retire({drafts[d].hold}, "released")
           end == slot[1] + Duration[sv] + Buffer[sv]
<1>1. /\ sv \in Services
      /\ slot \in Nat \X Resources
      /\ now \in Nat /\ now <= clock /\ now + MinimumNotice <= slot[1]
      /\ ~Busy(released, slot[2], slot[1], end, now)
      /\ released \in [Holds -> HoldRow]
  BY TakeHoldEffect
<1>2. PICK h \in Holds :
        holds' = [released EXCEPT ![h] =
             [status |-> "active", draft |-> d,
              label |-> Label(req[t].wanted), service |-> sv,
              resource |-> slot[2], start |-> slot[1], end |-> end,
              expires |-> now + HoldDuration]]
  BY TakeHoldEffect
<1>3. /\ holds'[h].resource = slot[2] /\ holds'[h].start = slot[1]
      /\ holds'[h].end = end
      /\ \A g \in Holds \ {h} : holds'[g] = released[g]
  BY <1>1, <1>2
<1>4. clock' = clock /\ bookings' = bookings /\ clock \in Nat
  BY DEF TakeHold, Complete, TypeOK
<1>5. SUFFICES ASSUME NEW g \in Holds, NEW b \in Bookings, Live(g)', Booked(b),
                      holds'[g].resource = bookings[b].resource
               PROVE  ~Overlap(holds'[g].start, holds'[g].end,
                               bookings[b].start, CleanupEnd(b))
  BY <1>4 DEF HoldsClearOfAppointments, Booked, CleanupEnd
<1>6. CASE g # h
  <2>1. holds'[g] = released[g] /\ released[g].status = "active"
    BY <1>3, <1>5, <1>6 DEF Live
  <2>2. released[g] = holds[g]
    BY <2>1, RetireKeepsRows
  <2>3. Live(g)
    BY <1>4, <1>5, <2>1, <2>2 DEF Live
  <2>4. QED
    BY <1>5, <2>1, <2>2, <2>3 DEF HoldsClearOfAppointments
<1>7. CASE g = h
  <2>1. /\ bookings[b].start \in Nat /\ bookings[b].end \in Nat
        /\ bookings[b].service \in Services
    BY <1>5, Entries DEF Booked, Complete, RowsComplete
  <2>2. /\ Buffer[bookings[b].service] \in Nat
        /\ Buffer[bookings[b].service] <= MinimumNotice /\ MinimumNotice \in Nat
    BY <2>1, BookingAssumption DEF NoticeCoversCleanup
  <2>3. CASE bookings[b].end > now
    <3>1. ~Overlap(bookings[b].start, CleanupEnd(b), slot[1], end)
      BY <1>1, <1>3, <1>5, <1>7, <2>3 DEF Busy, Booked, CleanupEnd
    <3>2. QED
      BY <1>3, <1>7, <3>1 DEF Overlap
  <2>4. CASE ~(bookings[b].end > now)
    <3>1. CleanupEnd(b) <= slot[1]
      BY <1>1, <2>1, <2>2, <2>4 DEF CleanupEnd
    <3>2. slot[1] \in Nat /\ CleanupEnd(b) \in Nat
      BY <1>1, <2>1, <2>2 DEF CleanupEnd
    <3>3. QED
      BY <1>3, <1>7, <3>1, <3>2 DEF Overlap
  <2>5. QED
    BY <2>3, <2>4
<1>8. QED
  BY <1>6, <1>7

\* Under a current reading, the time that confirm gives to an appointment was
\* reserved, with its cleanup time, by a live hold: it is clear of the other
\* live holds and of the other appointments.
LEMMA ConfirmKeepsClear ==
  ASSUME CurrentReadings, Complete, LiveHoldsDisjoint, HoldsClearOfAppointments,
         CleanupRespected, NEW t \in Requests, NEW b \in Bookings,
         NEW row \in BookingRow, Confirms(t, b, row)
  PROVE  HoldsClearOfAppointments' /\ CleanupRespected'
<1> DEFINE h == drafts[req[t].draft].hold
<1>1. /\ h \in Holds /\ Live(h)
      /\ clock' = clock /\ holds'[h].status = "consumed"
      /\ \A g \in Holds \ {h} : holds'[g] = holds[g]
      /\ bookings'[b] = row
      /\ \A o \in Bookings \ {b} : bookings'[o] = bookings[o]
  BY ConfirmsEffect DEF CurrentReadings, Live
<1>2. /\ row.status = "confirmed"
      /\ row.resource = holds[h].resource /\ row.start = holds[h].start
      /\ row.end + Buffer[row.service] = holds[h].end
  <2>1. /\ row.status = "confirmed"
        /\ row.service = holds[h].service
        /\ row.resource = holds[h].resource /\ row.start = holds[h].start
        /\ row.end = row.start + Duration[row.service]
    BY DEF Confirms
  <2>2. holds[h].end = holds[h].start + Duration[holds[h].service]
                                      + Buffer[holds[h].service]
    BY <1>1 DEF Complete, RowsComplete, Live
  <2>3. QED
    BY <2>1, <2>2
<1>3. \A g \in Holds : Live(g)' => g # h /\ Live(g) /\ holds'[g] = holds[g]
  BY <1>1 DEF Live
<1>4. HoldsClearOfAppointments'
  <2> SUFFICES ASSUME NEW g \in Holds, NEW o \in Bookings, Live(g)', Booked(o)',
                      holds'[g].resource = bookings'[o].resource
               PROVE  ~Overlap(holds'[g].start, holds'[g].end,
                               bookings'[o].start, CleanupEnd(o)')
    BY DEF HoldsClearOfAppointments
  <2>1. CASE o = b
    <3>1. CleanupEnd(o)' = holds[h].end
      BY <1>1, <1>2, <2>1 DEF CleanupEnd
    <3>2. QED
      BY <1>1, <1>2, <1>3, <2>1, <3>1 DEF LiveHoldsDisjoint
  <2>2. CASE o # b
    <3>1. bookings'[o] = bookings[o] /\ Booked(o) /\ CleanupEnd(o)' = CleanupEnd(o)
      BY <1>1, <2>2 DEF Booked, CleanupEnd
    <3>2. QED
      BY <1>3, <3>1 DEF HoldsClearOfAppointments
  <2>3. QED
    BY <2>1, <2>2
<1>5. ASSUME NEW o \in Bookings \ {b}, Booked(o), bookings[o].resource = row.resource
      PROVE  ~Overlap(holds[h].start, holds[h].end, bookings[o].start, CleanupEnd(o))
  BY <1>1, <1>2, <1>5 DEF HoldsClearOfAppointments
<1>6. CleanupRespected'
  <2> SUFFICES ASSUME NEW p \in Bookings, NEW o \in Bookings, Booked(p)', Booked(o)',
                      p # o, bookings'[p].resource = bookings'[o].resource
               PROVE  ~Overlap(bookings'[p].start, CleanupEnd(p)',
                               bookings'[o].start, CleanupEnd(o)')
    BY DEF CleanupRespected
  <2>1. /\ CleanupEnd(b)' = holds[h].end /\ bookings'[b].start = holds[h].start
        /\ bookings'[b].resource = row.resource
    BY <1>1, <1>2 DEF CleanupEnd
  <2>2. \A e \in Bookings \ {b} :
          /\ bookings'[e] = bookings[e]
          /\ Booked(e)' = Booked(e) /\ CleanupEnd(e)' = CleanupEnd(e)
    BY <1>1 DEF Booked, CleanupEnd
  <2>3. CASE p = b
    BY <1>5, <2>1, <2>2, <2>3
  <2>4. CASE o = b
    <3>1. ~Overlap(holds[h].start, holds[h].end, bookings[p].start, CleanupEnd(p))
      BY <1>5, <2>1, <2>2, <2>4
    <3>2. QED
      BY <2>1, <2>2, <2>4, <3>1 DEF Overlap
  <2>5. CASE p # b /\ o # b
    BY <2>2, <2>5 DEF CleanupRespected
  <2>6. QED
    BY <2>3, <2>4, <2>5
<1>7. QED
  BY <1>4, <1>6

\* Every other step ends or removes claims to time.
LEMMA StepKeepsClear ==
  ASSUME CurrentReadings, NoticeCoversCleanup, Complete, LiveHoldsDisjoint,
         HoldsClearOfAppointments, CleanupRespected, [Next]_vars
  PROVE  HoldsClearOfAppointments' /\ CleanupRespected'
<1>1. CASE \E t \in Requests : TakeHold(t)
  <2>1. HoldsClearOfAppointments'
    BY <1>1, TakeHoldKeepsClear
  <2>2. bookings' = bookings
    BY <1>1 DEF TakeHold
  <2>3. QED
    BY <2>1, <2>2 DEF CleanupRespected, Booked, CleanupEnd
<1>2. CASE \A t \in Requests : ~TakeHold(t)
  <2>1. \A h \in Holds : Live(h)' => Live(h) /\ holds'[h] = holds[h]
    <3>1. \A h \in Holds : holds[h].expires \in Nat
      BY DEF Complete, TypeOK, HoldRow
    <3>2. QED
      BY <1>2, <3>1, OnlyTakeHoldReserves DEF Live
  <2>2. ASSUME \A b \in Bookings : Booked(b)' => Booked(b) /\
                 /\ bookings'[b].resource = bookings[b].resource
                 /\ bookings'[b].start = bookings[b].start
                 /\ CleanupEnd(b)' = CleanupEnd(b)
        PROVE  HoldsClearOfAppointments' /\ CleanupRespected'
    BY <2>1, <2>2 DEF HoldsClearOfAppointments, CleanupRespected
  <2>3. CASE bookings' = bookings
    BY <2>2, <2>3 DEF Booked, CleanupEnd
  <2>4. CASE \E b \in Bookings : CancelBooking(b)
    BY <2>2, <2>4, CancelEffect DEF Booked, CleanupEnd
  <2>5. QED
    BY <2>3, <2>4, ConfirmKeepsClear, AppointmentChanges
<1>3. QED
  BY <1>1, <1>2

\* If no reading of the clock is old when it is used, and the cleanup time of
\* no service is longer than the notice, then a live hold is never on time that
\* an appointment or its cleanup takes: what create_hold's second reading of
\* availability, under the resource lock, is for.
THEOREM HoldsKeepClear ==
  ASSUME CurrentReadings, NoticeCoversCleanup
  PROVE  Spec => [](HoldsClearOfAppointments /\ CleanupRespected)
<1>1. Init => HoldsClearOfAppointments /\ CleanupRespected
  BY DEF Init, HoldsClearOfAppointments, CleanupRespected, Live, Booked, NoHold, NoBooking
<1>2. Complete /\ LiveHoldsDisjoint /\ HoldsClearOfAppointments /\ CleanupRespected
        /\ [Next]_vars => HoldsClearOfAppointments' /\ CleanupRespected'
  BY StepKeepsClear
<1>3. QED
  BY <1>1, <1>2, AlwaysComplete, HoldsDisjoint, PTL DEF Spec

\* Under the same conditions no appointment starts in the cleanup time of
\* another, which the exclusion constraint of the database does not know.
THEOREM CleanupIsKept ==
  ASSUME CurrentReadings, NoticeCoversCleanup
  PROVE  Spec => []CleanupRespected
BY HoldsKeepClear, PTL

\* An appointment is never made or moved onto time that somebody else holds: what
\* a second reading of availability by confirm would see to.
ConfirmationTakesFreeTime ==
  [][\A b \in Bookings :
       Booked(b)' /\ (~Booked(b) \/ bookings'[b].start # bookings[b].start) =>
         \A h \in Holds \ {bookings'[b].hold} :
           Live(h) /\ holds[h].resource = bookings'[b].resource =>
             ~Overlap(holds[h].start, holds[h].end,
                      bookings'[b].start, bookings'[b].end)]_vars

\* If no reading of the clock is old when it is used, confirm need not read
\* availability again: the hold that it consumes is live, and has kept every
\* other live hold from its time.
THEOREM CurrentConfirmationsAreClear ==
  ASSUME CurrentReadings
  PROVE  Spec => ConfirmationTakesFreeTime
<1>1. ASSUME Complete, LiveHoldsDisjoint, [Next]_vars, NEW b \in Bookings, Booked(b)',
             ~Booked(b) \/ bookings'[b].start # bookings[b].start,
             NEW g \in Holds \ {bookings'[b].hold}, Live(g),
             holds[g].resource = bookings'[b].resource
      PROVE  ~Overlap(holds[g].start, holds[g].end, bookings'[b].start, bookings'[b].end)
  <2>1. bookings' # bookings
    BY <1>1 DEF Booked
  <2>2. ASSUME NEW o \in Bookings, CancelBooking(o)
        PROVE  FALSE
    BY <1>1, <2>2, CancelEffect DEF Booked
  <2>3. PICK t \in Requests, o \in Bookings, row \in BookingRow : Confirms(t, o, row)
    BY <1>1, <2>1, <2>2, AppointmentChanges
  <2> DEFINE h == drafts[req[t].draft].hold
  <2>4. o = b /\ bookings'[b] = row
    BY <1>1, <2>3, ConfirmsEffect DEF Booked
  <2>5. h \in Holds /\ Live(h)
    BY <1>1, <2>3, ConfirmsEffect DEF CurrentReadings, Live
  <2>6. /\ row.hold = h /\ row.resource = holds[h].resource /\ row.start = holds[h].start
        /\ row.end = row.start + Duration[holds[h].service]
    BY <2>3 DEF Confirms
  <2>7. /\ holds[h].end = row.end + Buffer[holds[h].service]
        /\ holds[h].service \in Services /\ row.end \in Nat /\ holds[h].end \in Nat
    <3>1. /\ holds[h].end = holds[h].start + Duration[holds[h].service]
                                           + Buffer[holds[h].service]
          /\ holds[h].service \in Services
      BY <1>1, <2>5 DEF Complete, RowsComplete, Live
    <3>2. row.end \in Nat /\ holds[h].end \in Nat
      BY <1>1, <2>5 DEF Complete, TypeOK, HoldRow, BookingRow
    <3>3. QED
      BY <2>6, <3>1, <3>2
  <2> HIDE DEF h
  <2>8. row.end <= holds[h].end
    <3>1. Buffer[holds[h].service] \in Nat
      BY <2>7, ServiceTimes
    <3>2. QED
      BY <2>7, <3>1
  <2>9. ~Overlap(holds[g].start, holds[g].end, holds[h].start, holds[h].end)
    BY <1>1, <2>4, <2>5, <2>6 DEF LiveHoldsDisjoint
  <2>10. /\ holds[g].start \in Nat /\ holds[g].end \in Nat /\ holds[h].start \in Nat
    BY <1>1, <2>5 DEF Complete, TypeOK, HoldRow
  <2>11. QED
    BY <2>4, <2>6, <2>7, <2>8, <2>9, <2>10 DEF Overlap
<1>2. Complete /\ LiveHoldsDisjoint /\ [Next]_vars =>
        [\A b \in Bookings :
           Booked(b)' /\ (~Booked(b) \/ bookings'[b].start # bookings[b].start) =>
             \A h \in Holds \ {bookings'[b].hold} :
               Live(h) /\ holds[h].resource = bookings'[b].resource =>
                 ~Overlap(holds[h].start, holds[h].end,
                          bookings'[b].start, bookings'[b].end)]_vars
  BY <1>1
<1>3. QED
  BY <1>2, AlwaysComplete, HoldsDisjoint, PTL DEF Spec, ConfirmationTakesFreeTime

-----------------------------------------------------------------------------
(* History and events *)

Links == Seq(Statuses \X Statuses)

\* A history that begins at the draft, each link where the one before it ends.
Chain(past) ==
  /\ Len(past) >= 1
  /\ past[1][1] = "draft"
  /\ \A i \in 2..Len(past) : past[i][1] = past[i - 1][2]

\* The events that the links of b's history announce.
Announced(b, past) ==
  {<<"confirmed", b, 0>>}
  \cup {<<"cancelled", b, 0>> : i \in {j \in 1..Len(past) : past[j][2] = "cancelled"}}
  \cup {<<"rescheduled", b, i>> : i \in {j \in 1..Len(past) :
                                           past[j][2] = "reschedule_pending"}}

EventsOf(b) == {e \in outbox : e[2] = b}

\* HistoryAndEvents, by its parts, and nothing is announced of unused rows.
Recorded ==
  \A b \in Bookings :
    IF bookings[b].status = "unused"
      THEN EventsOf(b) = {}
      ELSE LET past == bookings[b].history
           IN /\ Chain(past)
              /\ past[Len(past)][2] = bookings[b].status
              /\ EventsOf(b) = Announced(b, past)

\* A link from where a chain ends makes a longer chain, and announces itself.
LEMMA ChainGrows ==
  ASSUME NEW past \in Links, Chain(past), NEW from \in Statuses, NEW to \in Statuses,
         past[Len(past)][2] = from, NEW b
  PROVE  LET new == Append(past, <<from, to>>)
         IN /\ new \in Links /\ Len(new) = Len(past) + 1
            /\ Chain(new)
            /\ new[Len(new)][2] = to
            /\ Announced(b, new) =
                 Announced(b, past)
                 \cup (IF to = "cancelled" THEN {<<"cancelled", b, 0>>} ELSE {})
                 \cup (IF to = "reschedule_pending"
                         THEN {<<"rescheduled", b, Len(past) + 1>>} ELSE {})
<1> DEFINE new == Append(past, <<from, to>>)
           link == <<from, to>>
<1>1. link \in Statuses \X Statuses /\ link[1] = from /\ link[2] = to
  OBVIOUS
<1> HIDE DEF link
<1>2. /\ new \in Links /\ Len(new) = Len(past) + 1 /\ Len(past) \in Nat
      /\ \A i \in 1..Len(past) : new[i] = past[i]
      /\ new[Len(past) + 1] = link
  BY <1>1 DEF Links, link
<1> HIDE DEF new
<1>3. Chain(new)
  <2>1. Len(new) >= 1 /\ new[1][1] = "draft"
    BY <1>2 DEF Chain
  <2>2. ASSUME NEW i \in 2..Len(new)
        PROVE  new[i][1] = new[i - 1][2]
    <3>1. CASE i \in 2..Len(past)
      <4>1. i \in 1..Len(past) /\ i - 1 \in 1..Len(past)
        BY <1>2, <3>1
      <4>2. QED
        BY <1>2, <3>1, <4>1 DEF Chain
    <3>2. CASE i = Len(past) + 1
      <4>1. i - 1 = Len(past) /\ Len(past) \in 1..Len(past)
        BY <1>2, <3>2 DEF Chain
      <4>2. QED
        BY <1>1, <1>2, <3>2, <4>1
    <3>3. QED
      BY <1>2, <3>1, <3>2
  <2>3. QED
    BY <2>1, <2>2 DEF Chain
<1>4. new[Len(new)][2] = to
  BY <1>1, <1>2
<1>5. ASSUME NEW status
      PROVE  {j \in 1..Len(new) : new[j][2] = status} =
               {j \in 1..Len(past) : past[j][2] = status}
               \cup (IF to = status THEN {Len(past) + 1} ELSE {})
  <2>1. 1..Len(new) = (1..Len(past)) \cup {Len(past) + 1}
    BY <1>2
  <2>2. \A j \in 1..Len(past) : new[j][2] = past[j][2]
    BY <1>2
  <2>3. new[Len(past) + 1][2] = to /\ Len(past) + 1 \notin 1..Len(past)
    BY <1>1, <1>2
  <2>4. QED
    BY <2>1, <2>2, <2>3
<1>6. Announced(b, new) =
        Announced(b, past)
        \cup (IF to = "cancelled" THEN {<<"cancelled", b, 0>>} ELSE {})
        \cup (IF to = "reschedule_pending"
                THEN {<<"rescheduled", b, Len(past) + 1>>} ELSE {})
  <2>1. {j \in 1..Len(new) : new[j][2] = "cancelled"} =
          {j \in 1..Len(past) : past[j][2] = "cancelled"}
          \cup (IF to = "cancelled" THEN {Len(past) + 1} ELSE {})
    BY <1>5
  <2>2. {j \in 1..Len(new) : new[j][2] = "reschedule_pending"} =
          {j \in 1..Len(past) : past[j][2] = "reschedule_pending"}
          \cup (IF to = "reschedule_pending" THEN {Len(past) + 1} ELSE {})
    BY <1>5
  <2>3. QED
    BY <2>1, <2>2 DEF Announced
<1>7. QED
  BY <1>2, <1>3, <1>4, <1>6 DEF new, link

\* The two links of a change of time announce one event.
LEMMA ChainMoves ==
  ASSUME NEW past \in Links, Chain(past), past[Len(past)][2] = "confirmed", NEW b
  PROVE  LET moved == past \o <<<<"confirmed", "reschedule_pending">>,
                                <<"reschedule_pending", "confirmed">>>>
         IN /\ Chain(moved)
            /\ moved[Len(moved)][2] = "confirmed"
            /\ Announced(b, moved) = Announced(b, past)
                                        \cup {<<"rescheduled", b, Len(past) + 1>>}
<1> DEFINE pending == Append(past, <<"confirmed", "reschedule_pending">>)
           moved == Append(pending, <<"reschedule_pending", "confirmed">>)
<1>0. "confirmed" \in Statuses /\ "reschedule_pending" \in Statuses
  BY DEF Statuses
<1>1. /\ pending \in Links /\ Chain(pending)
      /\ pending[Len(pending)][2] = "reschedule_pending"
      /\ Announced(b, pending) = Announced(b, past)
                                   \cup {<<"rescheduled", b, Len(past) + 1>>}
  BY <1>0, ChainGrows
<1>2. /\ Chain(moved) /\ moved[Len(moved)][2] = "confirmed"
      /\ Announced(b, moved) = Announced(b, pending)
  <2> HIDE DEF pending
  <2>1. QED
    BY <1>0, <1>1, ChainGrows
<1>3. past \o <<<<"confirmed", "reschedule_pending">>,
               <<"reschedule_pending", "confirmed">>>> = moved
  <2> DEFINE p == <<"confirmed", "reschedule_pending">>
             q == <<"reschedule_pending", "confirmed">>
  <2>1. p \in Statuses \X Statuses /\ q \in Statuses \X Statuses
    BY <1>0
  <2> HIDE DEF p, q
  <2>2. past \o <<p, q>> = Append(Append(past, p), q)
    BY <2>1 DEF Links
  <2>3. QED
    BY <2>2 DEF p, q
<1> HIDE DEF pending, moved
<1>4. QED
  BY <1>1, <1>2, <1>3

\* A step that writes the appointment b and announces e of it.
LEMMA RecordedAfterWrite ==
  ASSUME Complete, Recorded, NEW b \in Bookings, NEW e, e[2] = b,
         \A o \in Bookings \ {b} : bookings'[o] = bookings[o],
         outbox' = outbox \cup {e},
         bookings'[b].status # "unused",
         Chain(bookings'[b].history),
         bookings'[b].history[Len(bookings'[b].history)][2] = bookings'[b].status,
         EventsOf(b) \cup {e} = Announced(b, bookings'[b].history)
  PROVE  Recorded'
<1>1. EventsOf(b)' = EventsOf(b) \cup {e}
  BY DEF EventsOf
<1>2. \A o \in Bookings \ {b} : EventsOf(o)' = EventsOf(o)
  BY DEF EventsOf
<1>3. ASSUME NEW o \in Bookings \ {b}
      PROVE  IF bookings'[o].status = "unused"
               THEN EventsOf(o)' = {}
               ELSE LET past == bookings'[o].history
                    IN /\ Chain(past)
                       /\ past[Len(past)][2] = bookings'[o].status
                       /\ EventsOf(o)' = Announced(o, past)
  BY <1>2, <1>3 DEF Recorded
<1>4. QED
  BY <1>1, <1>3 DEF Recorded

\* Recorded is inductive.
LEMMA StepRecorded ==
  ASSUME Complete, Recorded, [Next]_vars
  PROVE  Recorded'
<1>0. \A b \in Bookings : bookings[b] \in BookingRow /\ bookings[b].history \in Links
  BY DEF Complete, TypeOK, BookingRow, Links
<1>1. ASSUME NEW t \in Requests, ConfirmNew(t)
      PROVE  Recorded'
  <2>1. PICK b \in Bookings, row \in BookingRow :
          /\ bookings[b].status = "unused"
          /\ bookings' = [bookings EXCEPT ![b] = row]
          /\ row.status = "confirmed"
          /\ row.history = <<<<"draft", "held">>, <<"held", "confirmed">>>>
          /\ outbox' = outbox \cup {<<"confirmed", b, 0>>}
    BY <1>1, ConfirmNewEffect
  <2> DEFINE past == <<<<"draft", "held">>, <<"held", "confirmed">>>>
  <2>2. /\ bookings'[b] = row
        /\ \A o \in Bookings \ {b} : bookings'[o] = bookings[o]
    BY <2>1 DEF Complete, TypeOK
  <2>3. Len(past) = 2 /\ Chain(past) /\ past[Len(past)][2] = "confirmed"
    BY DEF Chain
  <2>4. Announced(b, past) = {<<"confirmed", b, 0>>}
    <3>1. \A j \in 1..Len(past) : past[j][2] \notin {"cancelled", "reschedule_pending"}
      BY <2>3
    <3>2. QED
      BY <3>1 DEF Announced
  <2>5. EventsOf(b) = {}
    BY <2>1 DEF Recorded
  <2>6. QED
    BY <2>1, <2>2, <2>3, <2>4, <2>5, RecordedAfterWrite
<1>2. ASSUME NEW t \in Requests, ConfirmReschedule(t)
      PROVE  Recorded'
  <2> DEFINE b == drafts[req[t].draft].reschedules
             past == bookings[b].history
             moved == past \o <<<<"confirmed", "reschedule_pending">>,
                                <<"reschedule_pending", "confirmed">>>>
  <2>1. PICK row \in BookingRow :
          /\ b \in Bookings /\ bookings[b].status = "confirmed"
          /\ bookings' = [bookings EXCEPT ![b] = row]
          /\ row.status = "confirmed"
          /\ row.history = moved
          /\ outbox' = outbox \cup {<<"rescheduled", b, NextSequence(past)>>}
    BY <1>2, ConfirmRescheduleEffect
  <2>2. /\ bookings'[b] = row
        /\ \A o \in Bookings \ {b} : bookings'[o] = bookings[o]
    BY <2>1 DEF Complete, TypeOK
  <2>3. /\ past \in Links /\ Chain(past) /\ past[Len(past)][2] = "confirmed"
        /\ EventsOf(b) = Announced(b, past)
    BY <1>0, <2>1 DEF Recorded
  <2>4. /\ Chain(moved) /\ moved[Len(moved)][2] = "confirmed"
        /\ Announced(b, moved) = Announced(b, past)
                                   \cup {<<"rescheduled", b, NextSequence(past)>>}
    BY <2>3, ChainMoves DEF NextSequence
  <2> HIDE DEF moved, past, b
  <2>5. QED
    BY <2>1, <2>2, <2>3, <2>4, RecordedAfterWrite
<1>3. ASSUME NEW b \in Bookings, CancelBooking(b)
      PROVE  Recorded'
  <2> DEFINE past == bookings[b].history
             new == Append(past, <<"confirmed", "cancelled">>)
  <2>1. /\ bookings[b].status = "confirmed"
        /\ \A o \in Bookings \ {b} : bookings'[o] = bookings[o]
        /\ bookings'[b].status = "cancelled" /\ bookings'[b].history = new
        /\ outbox' = outbox \cup {<<"cancelled", b, 0>>}
    BY <1>3, CancelEffect
  <2>2. /\ past \in Links /\ Chain(past) /\ past[Len(past)][2] = "confirmed"
        /\ EventsOf(b) = Announced(b, past)
    BY <1>0, <2>1 DEF Recorded
  <2>3. /\ Chain(new) /\ new[Len(new)][2] = "cancelled"
        /\ Announced(b, new) = Announced(b, past) \cup {<<"cancelled", b, 0>>}
    BY <2>2, ChainGrows DEF Statuses
  <2> HIDE DEF new
  <2>4. QED
    BY <2>1, <2>2, <2>3, RecordedAfterWrite
<1>4. CASE bookings' = bookings /\ outbox' = outbox
  BY <1>4 DEF Recorded, EventsOf
<1>5. QED
  BY <1>1, <1>2, <1>3, <1>4, AppointmentSteps

\* The history of an appointment is a chain from its draft to its present
\* status, and the outbox holds an event for every link that a customer or a
\* subscriber is to hear of, and no other.
THEOREM HistoryAlwaysTold == Spec => []HistoryAndEvents
<1>1. Init => Recorded
  BY DEF Init, Recorded, NoBooking, EventsOf
<1>2. Complete /\ Recorded /\ [Next]_vars => Recorded'
  BY StepRecorded
<1>3. Recorded => HistoryAndEvents
  BY DEF Recorded, HistoryAndEvents, Chain, Announced, EventsOf
<1>4. QED
  BY <1>1, <1>2, <1>3, AlwaysComplete, PTL DEF Spec

=============================================================================
