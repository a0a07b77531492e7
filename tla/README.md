# TLA+ models and proofs of the business assistant

The program under `src/` is a modular monolith: Telegram updates arrive at a
FastAPI webhook, handlers call application services, the services call stores
that run PostgreSQL transactions (READ COMMITTED, rolled back by any exception),
and Celery workers, started by a beat, work off what the transactions leave
behind. What is hard about it lies between the transactions: which of them may
interleave, what was read before a lock or a wait and is used after it, which
calls die or are repeated. The modules here are about that.

## Components

| Component | State | Operations | Interacts with |
|---|---|---|---|
| Appointments (`persistence/booking.py`, `application/bookings`) | `booking_drafts`, `slot_holds`, `bookings` with history, the conversation's active workflow | start, date, hold, contact, confirm, reschedule, cancel, expire | writes events to the outbox; expiry is a worker task |
| Availability (`bookings/engine.py`, `scheduling/engine.py`) | none (pure) | slots of a day, business deadlines | read by appointments and handoffs |
| Outbox and notifications (`persistence/background.py`, `application/background`) | `outbox_events`, `notification_subscriptions`, `notification_deliveries` | subscribe, dispatch, claim, send, record | events of appointments, leads, handoffs; Telegram |
| Telegram updates (`persistence/telegram.py`, `presentation/telegram`) | `telegram_updates`, identities, conversations | claim, handle, complete, fail, resolve | every handler runs inside it |
| Qualification and leads (`persistence/qualification.py`, `application/leads`) | schemas, sessions, leads | start, consent, answer, edit, submit, cancel | creates handoffs, outbox events |
| Handoffs (same store, `application/handoffs`) | `handoff_cases`, conversation status | create or get, claim, resolve, reopen, return to bot | pauses every bot workflow |
| Privacy (`persistence/privacy.py`) | retention policy, privacy actions | anonymize, preview, run retention | rewrites rows of all of the above |
| Administration (`persistence/administration.py`) | tenants, members, credentials, entitlements | provision, transition, upsert/revoke member, create/rotate/revoke credential | gates updates and workers |
| Knowledge (`persistence/knowledge.py`) | documents, chunks with embeddings | ingest, publish, archive, re-index, search | AI answers |
| AI runtime (`application/ai`) | `ai_operations` | bounded retry loop with a deterministic fallback | provider, telemetry |
| Telegram identities (`persistence/telegram.py`) | customers, channel identities, conversations | resolve | every update; anonymization |
| HTTP API, catalog, observability, configuration, seed | - | queries, plumbing | - |

What makes each correct, and what is hard about it:

* **Appointments.** No overlap of appointments, cleanup times and live holds; a
  confirmed appointment comes from one live hold; no orphan reservations; a
  complete history. Hard: requests read the clock before their transaction,
  read rows before locking them, and wait for advisory locks.
* **Notifications.** Nothing lost, repetitions bounded, finished means finished.
  Hard: claims by lease without fencing, crashes between send and record.
* **Telegram updates.** Handled at least once, completed once, at most one run
  at a time unless a claim went stale. Hard: redelivery during processing.
* **Qualification and handoffs.** One active session, one open lead and one
  requested case per conversation; nothing stored without consent; a message used
  once. Hard: submit against edit, which makes a lead differ from its session and
  reopens completed ones; two ways to create a handoff that do not know each other.
* **Privacy.** Nothing personal of a customer when the anonymization commits, and
  nothing written into what it has emptied; records erased by the policy in
  force, and erased some day. Hard: requests in flight that still hold the old
  identity, policies that change between the task's transactions.
* **Administration.** Provisioned once, no live key of a removed member, no
  update of settings lost, an owner left by every demotion. Hard: roles read
  before the transaction that uses them, counts and sweeps without locks.
* **Knowledge and AI.** No text waits for ever for a provider, the telemetry says how
  its operation ended, and everything that can be retrieved gets the vector of the
  configured model. Hard: embeddings computed between two transactions, cancellation
  at every wait.
* **Business hours.** The engine says what the schedule advertises, through
  breaks, overrides and clock changes. Hard: wall times that occur twice or never.

`PROJECT.json` lists every hazard at its line with the properties that cover it.

## Modules

In every module `Init` is the tables as the migrations create them, a type such as
`HoldRow` the columns of a table that matter, an action a transaction or a part of
one, and `Next` the operations that buttons, messages, HTTP requests and the beat
may start. What renders, validates or authenticates on the way to an operation is
abstracted into the choice of its inputs, unless a property is about it.

### Booking, with AppointmentBook and MCBooking

State: one variable per table (`drafts`, `holds`, `bookings` with their history,
`outbox`, `workflow`), the `clock`, `req`, the handler invocations in flight, and
`serving`, whether the tenant is active and entitled to bookings.
One action per transaction, or per part of one where READ COMMITTED lets another
transaction commit in between:

| Code | Actions |
|---|---|
| `start_draft`, `select_date`, `update_contact`, `cancel_draft` | `StartDraft`, `SelectDate`, `UpdateContact`, `CancelDraft` |
| `get_active_draft`, `get_hold` of an expired row | `ReadExpiredDraft` then `ExpireDraft`, `ReadExpiredHold` then `ExpireHold` |
| a pressed slot button, `create_hold` | `PressSlot`, then `ReturnHold` or `ChooseSlot` and `TakeHold` |
| `confirm` | `RequestConfirm`, then `ConfirmNew`, `ConfirmReschedule` or `RefuseConfirm` |
| `cancel_booking`, `expire_holds` | `CancelBooking`, `ExpireHolds` |
| a suspension, a reactivation, a change of the entitlement | `ChangeService` |
| an exception, a deadlock abort, a dead process | `Rollback` |

A request uses a clock reading up to `MaxLag` ticks old. `MaxLag = 0` describes
transactions that never wait, `MaxLag = 1` those that wait for a lock across one
instant that matters. Slots are the instants of `Opens`; time zones, working
hours and exceptions only decide which instants these are. Resources have
capacity one; names and phone numbers are reduced to which of them are given.
Only `ExpireHolds` asks for `serving`: the store's other operations rely on what
their entry points have asked in an earlier transaction, so that a handler let in
before a suspension takes its steps all the same.

`AppointmentBook` is what the store promises its callers: a book in which
appointments are made, moved and struck out one at a time and never overlap.
`ImplementsAppointmentBook` maps `bookings` to it.

### NotificationDelivery, with DeliveryContract and MCNotificationDelivery

State: the `outbox`, what each subscription `wanted`, `deliveries`, and `worker`,
the runs of the delivery task with the claims each still has to send. Due times
and leases are the flags `due` and `stale`. `DispatchOutbox` and `Claim` are one
transaction each, `Send` is the gateway, `Record` the transaction of `_finish`.
Telegram may have taken a message although the gateway reports a network error.
`accepted` and `lost` only record history for the properties.

`DeliveryContract` is what the outbox promises about the messages of its events,
without runs, batches, leases and backoffs: deliveries are planned when their event
is published and never later, a subscriber gets one message at most per attempt, a
delivery is called sent only after a message was taken, and what is settled stays
so. `ImplementsDeliveryContract` maps outbox and deliveries to it.

### TelegramUpdates, with MCTelegramUpdates

State: what `telegram` knows of each update, the `ledger`, and `run`, the webhook
calls with the step each has reached and whether Telegram still listens. `Admit`
is the tenant gate, `Claim`, `Complete` and `Fail` the ledger's transactions,
`Handle` everything the handler does. Telegram is external: it repeats an
update until it hears a 2xx, and waits for one answer before it repeats.

### Handoff, and Qualification with MCQualification

`Handoff` is the part of a conversation that staff and the human-help route share:
`cases`, the conversation's `status`, and `ask`, the runs of that route.
`Qualification` extends it by `sessions`, `leads`, the `processed` update keys, the
`workflow` the conversation names, and `run`, the handlers in flight. `late` and
`reviewed` stand for `expires_at` and for the buttons the customer has on the
screen; `qualified` for the events in the outbox.

| Code | Actions |
|---|---|
| `human_help`, `create_or_get` | `AskHuman`, then `LookForCase` and `CreateCase`, or `AskFails` |
| `transition` | `ClaimCase`, `ResolveCase`, `ReopenCase`, `ReturnToBot` |
| `start` of service and store | `BeginStart`, then `Start` |
| `decide_consent`, `record_answer`, `review` for an edit | `BeginConsent`, `BeginAnswer`, `BeginEdit`, then `DecideConsent`, `RecordAnswer`, `Edit` |
| `submit`, `complete` | `BeginSubmit`, then `LookForLead` and `Complete` |
| `active_session` of a late session, `cancel` | `ReadLate`, `Cancel` |
| an exception, a dead process, an answer from what was read | `Leave` |

A handler first reads the active session in one transaction (`Begin...`, which the
pause check of the dispatcher guards) and acts on the session in a second, which
locks its row and checks only what the code checks there. `complete` is split where
it looks for a lead, since there may be no row to lock. `Locked` keeps everyone
else from the row of a session that is being completed.

### Administration, with MCAdministration

State: the tenant's `status`, the versioned `settings` (the tenant, its profile and
its entitlements are rows of one kind), `members`, `keys`, the provisioning
`record`, the `answers` that provisioning gave, and `req`, the HTTP requests. A
request first authenticates (`Authenticate` leaves it admitted with the role of its
key) and then acts with the role it had; `May` is `Principal.require`.

| Code | Actions |
|---|---|
| `provision` | `OpenProvision`, then `Provision` or `Replay` |
| `tenant`, `business_profile`, `entitlements`, then an update of what was read | `ReadSettings`, then `UpdateSettings` or `SetEntitlement` |
| `transition_tenant` | `TransitionTenant` |
| `upsert_member` | `OpenUpsert`, then `Upsert` |
| `revoke_member` | `OpenRevoke`, `SweepKeys`, `RevokeMember` |
| `create_credential`, `rotate_credential`, `revoke_credential` | `OpenCreate` and `CreateKey`, `OpenRotate` and `RotateKey`, `RevokeKey` |
| a refusal, a deadlock, the deadline of requests, a dead process | `Fail` |

`TenantFree`, `MemberFree` and `KeyFree` are the row locks, those included that
PostgreSQL takes on the row a foreign key refers to; they decide which of the
interleavings above are possible.

### Anonymization, and Retention

`Anonymization`: `customers`, the `identity` of one person on Telegram,
`conversations`, and `rows` for everything that holds personal data, of three kinds
(`draft`, `session`, `case`) that differ in which later writes they admit.
`OpenResolve`, `ResolveNew` and `ResolveKnown` are the identity middleware; `Start`,
`Write`, `Finish` and `Edit` what a handler does with the identity it was given;
`Claim`, `Settle`, `Reopen` and `ReturnToBot` staff. `OpenErasure`, `Sweep` and
`Anonymize` are the one transaction of `anonymize_customer`, cut where it has
found its rows and where it has locked them.

`Retention`: `policies` with versions, the tenants' `records` and when they ended,
the `actions` already executed (keyed by day and policy version), and `run`, the
tasks with the batch each has read. `ReadDue` reads the batch; `Open`, then
`Execute`, `Conflict` or `Replay` is one tenant of it; `Fail` the death of a task.
`IsBatch` says which sequences of tenants the ordered, limited query may return.

### Knowledge, and Advisory with MCAdvisory

`Knowledge`: the configured `model`, `documents` with the model of their vector,
`ingestion` and re-indexing tasks in flight. `OpenIngest` and `Ingest`,
`ListCandidates` and `UpdateEmbedding` are the two transactions around a call of the
embedding provider. `Advisory` extends it by `exec`, the handling of each free text,
and `records`, its telemetry: `Call`, `Respond`, `Reject`, `Overdue`, `Retry`, `Record`
are the steps of `AIRuntime.execute`, `Route` that of the router, `Embed`,
`SearchWords` and `SearchVectors` the answer from the knowledge base, and `Cancel`
meets the handler at each of its waits. `Show` is the end of a handling: its page, or
an exception of what the page needs, which nobody in the handler catches.

### BusinessHours, and Availability with MCAvailability

`BusinessHours` is the schedule engine as operators: a local day is `DayLength`
ticks, a zone one clock change, an instant a number. `DayOf`, `Hours`, `IsOpen`,
`NextOpening` and `DueAt` are `effective_day`, `is_open`, `next_opening` and
`business_due_at`; `OpenAt` and `CloseAt` resolve a wall time that occurs twice or
never. The deadline is two folds, `WorkDay` over the pieces of a date and `WorkDays`
over the dates, each in their order. `Availability` adds resources and their diaries and `calculate_availability`
(`Slots`), and asks one question per behaviour. `Advertised` and `InWindow` are the
reference: they look at one instant and the schedule, and know no search, no
pieces and no boundaries; `UsedBy` counts the places that periods of a diary take.

## Runs and what they show

| Run | Bounds | Shows |
|---|---|---|
| booking_contention | 2 customers, 1 service, 1 resource, 2 slots less than an appointment apart, current readings | holds keep clear of appointments and cleanup times |
| booking_lag | the same with one slot, readings one tick old | holds stay disjoint, one appointment per draft, only holds that had not expired are confirmed, the book is implemented |
| booking_reschedule | 1 customer, cutoff, 4 instants, suspensions, fair | histories and events agree, every hold ends while the tenant is in service |
| delivery | 1 event, 2 subscribers, 2 runs, 2 attempts, 1 crash or outlived lease, fair | no event is lost, repetitions are bounded, the delivery contract is implemented |
| updates | 2 updates, 3 calls, 3 mishaps | runs per update are bounded by stale claims, completed means handled and stays so, an update is acknowledged for a reason |
| qualification | 2 sessions, 2 handlers, 2 messages, 4 presses, 2 fields, an optional one first | one active session, nothing stored without consent, a message is used once, one open lead, the workflow names the active session |
| handoff | 2 calls, 2 runs of the route, 3 cases, 1 session with an alarming answer | asking for a person queues one case at a time, with a key that no case has |
| administration | 2 members, 2 keys, 2 requests, 2 provisioning keys, versions up to 3 | provisioned once, no live key of a removed member, no update lost, demotions leave an owner |
| anonymization | 2 customers, 3 conversations, 2 rows, 2 requests | nothing is left at the commit, emptied drafts stay empty |
| retention | 2 tenants in one batch, 1 record each, 2 days, 2 versions, fair | only what has expired by the policy in force is erased, and all of it is |
| assistant | 1 text, 1 retry, 2 documents, 1 ingestion, 2 tasks, batches of one, 2 changes of the model, fair | every handling ends, its telemetry says how, vectors converge |
| hours | 6 schedules, 7 zones, 4 diaries for each of 2 resources, 25 instants, 3 dates | next opening, deadline and slots are what the schedule advertises |

Two slots, two requests and two customers are the smallest instance in which one
request changes what another has read; a third would only repeat a pair, since every
property speaks of two holds, two appointments or one hold and one appointment. Two
attempts distinguish a retry from an exhausted delivery, and one mishap is enough
for a run to act on a claim it has lost; three calls let a third run in on a claim
that a stale run failed. Two handlers and two sessions let one be started while a
handler still holds the other; four presses are those of consent and submission of
both. Two members and two keys let one owner remove the other while that other's key
is rotated; three versions of the tenant's row let a client write over what two
others wrote. A second customer is the one that a message resolves to after the
first was anonymized, and a third conversation is what a closed one is followed by.
In `retention` the second tenant is the one that waits behind a conflict of the
first. A batch of one and two documents make a backlog; of three models the third
lets a task of the second write over the vector that another task has just made with
the third. Days of eight ticks leave room for two openings and a break, weeks of two
days for a day without hours, and a shift of two ticks for a clock change shorter
and longer than an opening; `hours` depends on no step order, so that its instance
is a set of inputs rather than a bound on behaviours. Symmetry is used where nothing
but safety is checked, and rows, customers and calls are interchangeable there.

`RecordsExpire` assumes a batch as large as the number of tenants that have opted
in; `HoldsEnd` asks nothing while the tenant is suspended or not entitled;
`EveryHandlingEnds` does not ask for a page, and `RecordTellsTheOutcome` speaks of
texts whose handling is not cancelled; `NextOpeningIsFirst` allows a later opening
on a date on which the clock repeats a time; `DeadlineCountsOpenTime` assumes that
the clock does not go back to an earlier date than the one the count begins with;
what `OfferMatchesTheDiary` says is offered lies in one opening. Why is in the next
section. The type invariants of `Administration`, `Anonymization`, `Retention` and
`Advisory` were checked by TLC while they were developed, and are now left to their
proofs.

## Known divergences

What the code does that its documents say otherwise, or that a property had to
leave out. The models follow the code.

* *Selecting a time again* (`navigation.py:171`). The idempotency key of a hold is
  the draft and the time of day, so that the same time on another date, or after
  the hold ended, is answered with the old hold.
* *Confirmation does not look at availability again* (`booking.py:813`). With a
  reading of the clock taken before it waited for its locks it accepts a hold that
  has just expired, and the time may be held by another customer by then.
* *Holds of a suspended tenant* (`booking.py:1086`). The expiry job visits only
  tenants that are active and entitled, as
  docs/operations/phase-12-tenant-administration.md:30 says of suspension; what is
  on hold there stays active, though it blocks nobody once its time is over.
* *Attempts beyond the limit* (`background.py:184`). Attempts are limited where an
  outcome is recorded, not where a delivery is claimed: one whose runs die is
  claimed for ever. `RepetitionsBounded` therefore counts claims taken over.
* *A lost update* (`middleware.py:123`). The redelivery of an update in progress is
  acknowledged; when the first call then fails unheard, nobody repeats it.
* *A revived session* (`qualification.py:571`). An edit in flight beside a
  submission sets the completed session back to in progress; `OneActiveSession`
  holds because the index refuses a second one.
* *The last owner* (`administration.py:432`). "The final active owner cannot be
  demoted or revoked." (docs/operations/phase-12-tenant-administration.md:19). Two
  removals at a time each see the other owner and take both. Demotions lock the
  tenant, which is what `DemotionKeepsAnOwner` says.
* *Repeated hours* (`engine.py:83`). By ADR 0006 an opening takes the earlier and a
  closing the later instant of a repeated time. `business_due_at` and the slots do;
  `is_open` and `next_opening` go by the wall clock and say closed where the first
  pass has shown the closing time. A clock set back over midnight makes the
  deadline start from the later date: hours of the earlier date that the clock shows
  again are not counted. TLC finds `DeadlineCountsOpenTime` violated without its
  condition.
* *Openings that meet* (`bookings/engine.py:57`). Two openings of a day that meet are
  open without a pause to `is_open`, but an appointment across the instant at which
  they meet is not offered, for `calculate_availability` looks at one at a time.
* *Records of the AI runtime* (`runtime.py:133`). ADR 0010 has one record per
  operation; a cancellation in the wait between attempts leaves none, one that
  meets the writing of a record leaves two.
* *A text without a page* (`knowledge/service.py:139`). A query that is empty when
  normalized or longer than 2000 characters is an error raised before the fallback
  to a person begins, and neither `route_free_text` nor the dispatcher catches it; a
  statement that fails in the search, or in what a page asks for, ends likewise.
  The text gets no page; its update is delivered again, and a query of that length
  fails again.
* *Retention of contact data* (`privacy.py:646`) asks that all conversations of a
  customer be closed, and only anonymization closes one, so it never applies.
* *Closed conversations open again.* The domain model gives `closed` no successor
  (`domain/conversations/model.py:32`); the stores of the handoffs set the status
  without it, and reopening or returning a case opens the conversation.
* *An archived source* (`application/knowledge/service.py:237`) cannot be ingested
  again: its checksum is found, whatever the status of its document.
* *Batches of tenants* (`privacy.py:61`). The task takes the first tenants in the
  order of their ids, every day the same; with more than a batch of them the rest
  are never served.

## Fairness

`Booking!FairSpec`: time passes (`SF` of `Tick`, which transactions no older than
`MaxLag` hold back for a moment); the beat starts `expire_holds` every minute; a
transaction in flight commits or rolls back. No customer has to act, and the tenant
need not be in service: the job then has nothing to do, which is why `HoldsEnd` lets a
hold of such a tenant stay.
`NotificationDelivery!FairSpec`: the beat starts dispatcher and delivery task
every five seconds; a live run sends and records; backoffs and leases end. The
gateway may fail for ever, the tenant may be suspended. It is assumed that no
event makes its own projection fail (such an event would block its batch).
`Retention!FairSpec`: the beat starts the task every day; a task that a dying worker
had not finished is delivered again (`task_acks_late`), so that no step of a batch
fails for ever; days need not pass. `Advisory!FairSpec`: the handler goes on and its
timer fires, the provider of the route may never answer, nothing has to be
cancelled; the beat starts the re-indexing task again and again, and a task that gets
batch after batch does not fail before it has updated anything each time.
`TelegramUpdates` has no liveness property: an update may be lost, as told above.
`Qualification` and `Handoff` have none either: no scheduler ends a session or a
case, only the customer and staff do. `Administration` and `Anonymization` answer
requests that nobody has to make.

## Proofs

Eight modules state theorems for all values of the constants that satisfy the named
assumption of the module they are about. Every inductive invariant below was
checked by TLC before it was proved. The lemmas go by action: each says that one
action keeps the invariant, and `Step...` puts them together.

| Module | Theorems | Inductive invariant |
|---|---|---|
| BookingProofs | all properties of its three runs but `HoldsEnd`, two of them under conditions | `Complete`, `Settled`, `Recorded` |
| NotificationDeliveryProofs | `TypeOK`, `RepetitionsBounded`, `ImplementsDeliveryContract` | `AttemptsAccounted`, `AcceptedWasTaken` |
| TelegramUpdatesProofs | all properties of `updates` | `Accounted` |
| QualificationProofs | all properties of `qualification` and `handoff` | `SessionsInOrder`, `CasesInOrder` |
| AdministrationProofs | `TypeOK`, and all properties of `administration` | `Orderly` |
| PrivacyProofs | both `TypeOK`, all properties of `anonymization`, `PeriodInForce` | `Kept`, `InForce` |
| AdvisoryProofs | `TypeOK`, `RecordTellsTheOutcome` | `Consistent` |
| AvailabilityProofs | all properties of `hours` | `Answered` |

**BookingProofs.** `Complete` adds to the types that rows in use are fully filled in
and agree with each other (`RowsComplete`: a hold in use spans the duration and
buffer of its service, an appointment the duration, a draft with a hold asks for its
service) and that what a request in flight remembers is still true
(`RequestsComplete`).

* `HoldsDisjoint` follows from one observation, `OnlyTakeHoldReserves`: only
  `TakeHold` makes a hold active, and it has re-read availability, so that
  `SlotIsFree` makes the new hold disjoint from every live one. The reading of the
  clock is never ahead of the clock, so a hold that is live now was live for it.
* `StoreImplementsBook` is the refinement. `AppointmentChanges` says that a step
  that touches appointments is `Confirms` (an appointment made, or moved) or
  `CancelBooking`; the exclusion constraint, which both confirmations pass, is what
  the book asks of an entry that is written. The age of readings plays no part:
  this holds for every `MaxLag`.
* `DraftsMakeOneAppointment` needs `Settled`: the draft and the hold of an
  appointment are closed, and a closed row is never opened again (`ClosedForGood`),
  so that nothing can be confirmed twice.
* `HistoryAlwaysTold` needs `Recorded`, which says of unused rows that nothing was
  announced of them; `ChainGrows` and `ChainMoves` are about the one and the two
  links that a step appends.
* `HoldsKeepClear`, `CleanupIsKept` and `CurrentConfirmationsAreClear` hold under
  conditions. `CurrentReadings` is `MaxLag = 0`: no transaction uses a reading from
  before an instant that matters. Without it `confirm` may accept a hold that has
  just expired, over the hold of another customer. `NoticeCoversCleanup` says that no
  buffer is longer than the minimum notice: availability reads only appointments that have not ended
  (`booking.py:250`), so that a cleanup time which still goes on is protected by the
  notice alone. The schema allows a notice of zero (`models.py:577`), the demonstration
  data have two hours against buffers of minutes. With a notice of 0, a buffer of 1
  and a slot right after an appointment TLC finds `HoldsClearOfAppointments`
  violated, so neither condition can be left out.

**NotificationDeliveryProofs.** The bound on repetitions is an account of attempts.
What a run has in hand are attempts that its delivery has counted, no two runs hold
the same one, and none is sent twice by its run; so a subscriber got at most one
message per attempt that no run has still to send (`AcceptedWereSent`). A delivery
waits once when it is written and once for every settled attempt that may be
followed by a retry, and only a claim taken over from another run ends no wait
(`WaitsWereSettled`). Attempts, not statuses, are counted, which is why a record
that comes late does no harm. `OutboxKeepsItsContract` is the refinement: each
step writes, publishes, takes, receives or settles, or stutters.

**TelegramUpdatesProofs.** `Accounted` counts the runs that hold an update: at most
one per expired claim, and one more while the claim in the ledger is not stale
(`HoldersCounted`). A record ends one run and at most that one live claim, so the
count survives although nothing fences `complete` and `fail`. A run about to record
success has handled its update (`RunsKnowTheirUpdate`), which makes `completed` mean
handled. `CompletedIsFinal` holds though a stale run may record a failure: `fail`
writes only a row that is still processing.

**QualificationProofs.** `CasesInOrder` says that whoever is about to create a case
is alone, has seen no requested case open (`CreatorIsAlone`) and none with its key:
between his read and his write only a reopened case or one of a qualification can
join.
`SessionsInOrder` says of each row that what it holds was consented to and that each
stored message was processed for it (`SessionInOrder`), and of each handler what it
has read and may still rely on (`RunInOrder`): consent is never taken back, so a
stale read of it does no harm; the status and the open lead hold only while the row
is locked (`OneCompletes`). `WritingKeepsOrder` treats the three actions that write
one row alike. The least missing field exists because the numbers of the fields are
well founded (`LeastNumber`).

**AdministrationProofs.** `Orderly` says of each request what it has read and may
still rely on: a removal's choice of keys has all but those that were made by
requests begun before (`SweepsAll`), the other owner that a demotion has counted
stays until it writes (`LeavesAnOwner`), a row still at the version a client has
seen is the row it has seen (`SawTheRow`). The last two rest on which locks exclude
each other (`LocksHeld`).

**PrivacyProofs.** A sweep has found everything of its customer
(`SweepsComplete`): while the customer's row is locked nobody can add a conversation
or a row, and a request that resolved the person earlier holds a conversation that
still is that customer's (`RequestsHold`), so that what it writes is among what
was found. A retention task may hold a policy that is no longer stored; `Known` says
that if its version is the stored one then so is its period, and `RunInForce` that
between opening and executing the version is the stored one, for the tenant is
locked. The day only moves on, so that what had expired still has.

**AdvisoryProofs.** `Told` follows a text: nothing is recorded before the provider's
part is over, then at most its status, and a status of "cancelled" leads to no
page. A record written just before a cancellation may stay beside another, but only
under a handling that ends without a page.

**AvailabilityProofs.** The invariant is simple, `Answered`: an answer is what the
engine computes from the company and the diaries, which no question changes. The
work is about what it computes, which are folds over finite sets (the breaks of a
day, the pieces of a date, the dates of a search, the periods of a diary). A fold is
a recursive function, and no induction theorem of the library can be used; the
proofs therefore go by `SmallestSubset`: of the subsets of a finite set that violate
a claim, one has no violating subset below it. From it follow that the fold of a
finite set exists and is unique (`FoldExists`, `FoldIsUnique`), whatever picks the
next element, and each claim about a fold.

* `PiecesOfAnOpening`, `HoursOfADate`: what is left of the openings of a date holds
  the times that an opening holds and no break, so that what is advertised and what
  is open agree (`AdvertisedIsOpen`).
* `Boundaries`, `NothingOutside`, `SetBack`: an opening is the first instant that shows
  its time and a closing the last, nothing shows a time of the window outside them,
  and an instant shows no later time than an earlier one only where the clock
  repeats both.
* `NextOpeningIsTheFirst`: a day that the search has passed had no opening ahead, and
  an advertised instant is at or after the opening of its piece (`OpenIsAhead`).
* `OffersMatchTheDiary`: places are a sum over the periods that meet the appointment,
  no less than over those that meet one of its instants (`UsedByLess`), and nothing
  where each instant is idle (`UsedByNone`); `PagesAreApart` shows that the label of a
  slot tells the two passes of a repeated time apart.
* `DeadlinesCountOpenTime`: `Worked` says of the windows gone through that each of
  their instants has been counted once, that they end at the cursor or before, and that
  what was counted and what is left make the service time. `WindowWorked` is the
  step: windows are gone through in the order of their openings, so that an instant
  of the next one that lies before the cursor is in one that was counted, though
  windows overlap in elapsed time where the clock is set back.
  `DayWorked` and `NextDateWorked` carry it through the two folds.

The assumptions are types of constants and that `Nil` differs from every other
value; that ids which queries order are numbers; that sets are finite where the
code counts or sorts them; that schedules are ones that `BusinessSchedule` accepts,
that a clock change is no longer than a day, and that busy periods are not empty.
What bounds a model is a constant of any size.

Checked by TLC only: the liveness properties (`HoldsEnd`, `EventsReachSubscribers`,
`RecordsExpire`, `ReindexConverges`, `EveryHandlingEnds`), which are out of the
prover's reach.

## Not modelled

Rendering, token signatures, metrics, settings and seed data have no state that
other components rely on; the catalog and the other read-only queries change
nothing, and the migrations are the initial states. Pooled capacity above one and
staff-required services are left out of `Booking` (`Availability` has capacities); the
polling mode for local development out of `TelegramUpdates`; the read-only health
view and the rows that record worker runs out of `NotificationDelivery`; adding and
publishing schemas, validation and scores out of `Qualification`; audit events out
of `Administration`, but for the locks that inserting them takes; chunking, ranking
and the validator's table of routes out of `Knowledge` and `Advisory`, where which
response is which is a choice. `conversations.active_workflow` has writers in
`Booking` and in `Qualification`; each module has its own copy and speaks only of
what it wrote. A zone has one clock change.

Three hazards have no property, for the code gives them none to keep: the key of
a selected time, the lost update (both above), and the several open cases that a
qualification or a reopening may leave beside a requested one. A lead whose
answers are older than those of its session is a fourth.

## Plan

1. A property of leads and sessions (`leads/service.py:106`), once submission locks
   what it scores; as the code stands none holds.
2. Further theorems about what is modelled: that holds and drafts are never opened
   again as a property of its own, that an execution of retention is not repeated
   on its day.
3. Pooled capacity above one in `Booking`, and zones with several clock changes in
   `BusinessHours`.
