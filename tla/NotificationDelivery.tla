------------------------- MODULE NotificationDelivery -------------------------
(***************************************************************************)
(* Background delivery of one tenant's events to its staff subscriptions:  *)
(* the outbox dispatcher and the notification workers.                     *)
(*                                                                         *)
(* dispatch_outbox and claim_notifications are one transaction each.  A    *)
(* worker then sends its batch one by one, outside of any transaction, and *)
(* records each outcome in a transaction of its own.  Due times and leases *)
(* are the flags due and stale, which time may raise at any moment.        *)
(***************************************************************************)
EXTENDS Integers, FiniteSets

CONSTANTS
  Events,          \* outbox events that other components may write
  EventType,       \* EventType[e]
  Types,           \* event types a subscription may name
  Subscriptions,   \* (channel, recipient) pairs
  Workers,         \* runs of the delivery task at a time
  BatchSize,       \* rows one run claims
  MaxAttempts,     \* RetryPolicy.max_attempts
  MaxMishaps,      \* bound: crashes of a run and leases outlived by one
  Idle

ASSUME DeliveryAssumption ==
  /\ EventType \in [Events -> Types]
  /\ BatchSize \in Nat \ {0} /\ MaxAttempts \in Nat \ {0} /\ MaxMishaps \in Nat
  /\ Idle \notin Events \X Subscriptions

VARIABLES
  serving,         \* the tenant is active and entitled to notifications
  outbox,          \* outbox_events: status
  wanted,          \* wanted[s]: event types of the enabled subscription s
  deliveries,      \* notification_deliveries, by event and subscription
  worker,          \* runs of deliver_notifications in flight
  accepted,        \* accepted[n]: messages of delivery n Telegram has taken
  lost,            \* lost[n]: times n was claimed from a run that held it
  mishaps

vars == <<serving, outbox, wanted, deliveries, worker, accepted, lost, mishaps>>

Deliveries == Events \X Subscriptions
NoDelivery == [status |-> "none", attempts |-> 0, due |-> FALSE, stale |-> FALSE]
NoWork == [batch |-> {}, current |-> Idle, attempt |-> 0, outcome |-> "none"]

DeliveryRow == [status : {"none", "pending", "processing", "sent", "dead_letter"},
                attempts : Nat, due : BOOLEAN, stale : BOOLEAN]

\* The claims still to be sent, each with the attempt it stands for, and the
\* one whose outcome is known and not yet recorded.
Work == [batch : SUBSET (Deliveries \X Nat), current : Deliveries \cup {Idle},
         attempt : Nat,
         outcome : {"none", "accepted", "retryable", "permanent"}]

TypeOK ==
  /\ serving \in BOOLEAN
  /\ outbox \in [Events -> {"unwritten", "pending", "published"}]
  /\ wanted \in [Subscriptions -> SUBSET Types]
  /\ deliveries \in [Deliveries -> DeliveryRow]
  /\ worker \in [Workers -> Work]
  /\ accepted \in [Deliveries -> Nat]
  /\ lost \in [Deliveries -> Nat]
  /\ mishaps \in 0..MaxMishaps

Init ==
  /\ serving = TRUE
  /\ outbox = [e \in Events |-> "unwritten"]
  /\ wanted = [s \in Subscriptions |-> {}]
  /\ deliveries = [n \in Deliveries |-> NoDelivery]
  /\ worker = [w \in Workers |-> NoWork]
  /\ accepted = [n \in Deliveries |-> 0]
  /\ lost = [n \in Deliveries |-> 0]
  /\ mishaps = 0

-----------------------------------------------------------------------------
(* The outbox and its projection *)

\* The tenant's administrators suspend or activate it, or change its
\* entitlements.
ChangeService ==
  /\ serving' = ~serving
  /\ UNCHANGED <<outbox, wanted, deliveries, worker, accepted, lost, mishaps>>

\* save_subscription replaces what the recipient already had.
SaveSubscription(s, types) ==
  /\ wanted' = [wanted EXCEPT ![s] = types]
  /\ UNCHANGED <<serving, outbox, deliveries, worker, accepted, lost, mishaps>>

\* A booking, a lead or a handoff writes its event with its own change.
WriteEvent(e) ==
  /\ outbox[e] = "unwritten"
  /\ outbox' = [outbox EXCEPT ![e] = "pending"]
  /\ UNCHANGED <<serving, wanted, deliveries, worker, accepted, lost, mishaps>>

\* on_conflict_do_nothing: the deliveries a published event still needs.
Projected(n) ==
  /\ EventType[n[1]] \in wanted[n[2]]
  /\ deliveries[n].status = "none"

\* dispatch_outbox takes some pending events; a failure takes none of them.
\* Its attempts are counted in the same transaction that publishes, so they
\* never exceed one and its dead letter branch is never taken.
DispatchOutbox ==
  \E taken \in SUBSET {e \in Events : outbox[e] = "pending"} :
    /\ serving
    /\ taken # {}
    /\ Cardinality(taken) <= BatchSize
    /\ outbox' = [e \in Events |-> IF e \in taken THEN "published" ELSE outbox[e]]
    /\ deliveries' = [n \in Deliveries |->
         IF n[1] \in taken /\ Projected(n)
           THEN [NoDelivery EXCEPT !.status = "pending", !.due = TRUE]
           ELSE deliveries[n]]
    /\ UNCHANGED <<serving, wanted, worker, accepted, lost, mishaps>>

-----------------------------------------------------------------------------
(* The delivery task *)

ClaimableDueOnly(n) ==                                       \* faulty variant
  deliveries[n].status = "pending" /\ deliveries[n].due

\* The rows claim_notifications looks for.
Claimable(n) ==
  \/ deliveries[n].status = "pending" /\ deliveries[n].due
  \/ deliveries[n].status = "processing" /\ deliveries[n].stale

\* claim_notifications, SKIP LOCKED.
Claim(w) ==
  \E taken \in SUBSET {n \in Deliveries : Claimable(n)} :
    /\ worker[w] = NoWork
    /\ serving
    /\ taken # {}
    /\ Cardinality(taken) <= BatchSize
    /\ deliveries' = [n \in Deliveries |->
         IF n \in taken
           THEN [status |-> "processing", attempts |-> deliveries[n].attempts + 1,
                 due |-> FALSE, stale |-> FALSE]
           ELSE deliveries[n]]
    /\ worker' = [worker EXCEPT ![w] =
         [NoWork EXCEPT !.batch = {<<n, deliveries[n].attempts + 1>> : n \in taken}]]
    /\ lost' = [n \in Deliveries |->
         IF n \in taken /\ deliveries[n].status = "processing" THEN lost[n] + 1
                                                               ELSE lost[n]]
    /\ UNCHANGED <<serving, outbox, wanted, accepted, mishaps>>

\* The gateway sends one message of the batch.  A payload that can not be
\* rendered and a refusal are permanent failures that reach nobody; a network
\* error or any unexpected exception is retryable, and Telegram may have
\* taken the message although its answer was lost.
Send(w) ==
  \E claim \in worker[w].batch,
     outcome \in {"accepted", "retryable", "permanent"}, taken \in BOOLEAN :
    /\ worker[w].current = Idle
    /\ outcome = "accepted" => taken
    /\ outcome = "permanent" => ~taken
    /\ worker' = [worker EXCEPT ![w] =
         [batch |-> worker[w].batch \ {claim}, current |-> claim[1],
          attempt |-> claim[2], outcome |-> outcome]]
    /\ accepted' = IF taken
                     THEN [accepted EXCEPT ![claim[1]] = @ + 1]
                     ELSE accepted
    /\ UNCHANGED <<serving, outbox, wanted, deliveries, lost, mishaps>>

RetryOneMore(outcome, attempt) ==                            \* faulty variant
  outcome = "retryable" /\ attempt <= MaxAttempts

\* Whether a failure is retried, by the attempt number of the claim.
Retries(outcome, attempt) == outcome = "retryable" /\ attempt < MaxAttempts

StatusFailed(outcome, attempt) ==                            \* faulty variant
  IF outcome = "accepted" THEN "sent"
  ELSE IF Retries(outcome, attempt) THEN "pending" ELSE "failed"

\* mark_delivered, retry_delivery or dead_letter.
StatusAfter(outcome, attempt) ==
  IF outcome = "accepted" THEN "sent"
  ELSE IF Retries(outcome, attempt) THEN "pending" ELSE "dead_letter"

FinishesAnyRow(n) == deliveries[n].status # "none"           \* faulty variant

\* _finish writes only to a row that is processing, whoever processes it.
Finishes(n) == deliveries[n].status = "processing"

\* The run records the outcome, and ends when its batch is done.
Record(w) ==
  LET n == worker[w].current
  IN /\ n # Idle
     /\ deliveries' = [deliveries EXCEPT ![n] =
          IF ~Finishes(n) THEN @
          ELSE [@ EXCEPT !.status = StatusAfter(worker[w].outcome,
                                                worker[w].attempt),
                         !.stale = FALSE]]
     /\ worker' = [worker EXCEPT ![w] =
          [NoWork EXCEPT !.batch = worker[w].batch]]
     /\ UNCHANGED <<serving, outbox, wanted, accepted, lost, mishaps>>

-----------------------------------------------------------------------------
(* Time and failures *)

\* Some run still has n to send or to record.
Held(n) ==
  \E w \in Workers : \/ worker[w].current = n
                     \/ \E claim \in worker[w].batch : claim[1] = n

\* The process dies, the task's time limit or a database error ends the run:
\* what it has not recorded it never will.
Crash(w) ==
  /\ worker[w] # NoWork
  /\ mishaps < MaxMishaps
  /\ mishaps' = mishaps + 1
  /\ worker' = [worker EXCEPT ![w] = NoWork]
  /\ UNCHANGED <<serving, outbox, wanted, deliveries, accepted, lost>>

\* The backoff of a retried delivery has passed.
BecomeDue(n) ==
  /\ deliveries[n].status = "pending" /\ ~deliveries[n].due
  /\ deliveries' = [deliveries EXCEPT ![n].due = TRUE]
  /\ UNCHANGED <<serving, outbox, wanted, worker, accepted, lost, mishaps>>

\* The lease of a claim has passed, its run being dead ...
LeaseEnds(n) ==
  /\ deliveries[n].status = "processing" /\ ~deliveries[n].stale
  /\ ~Held(n)
  /\ deliveries' = [deliveries EXCEPT ![n].stale = TRUE]
  /\ UNCHANGED <<serving, outbox, wanted, worker, accepted, lost, mishaps>>

\* ... or only slow: the lease counts from the start of the whole batch.
LeaseOutlived(n) ==
  /\ deliveries[n].status = "processing" /\ ~deliveries[n].stale
  /\ Held(n)
  /\ mishaps < MaxMishaps
  /\ mishaps' = mishaps + 1
  /\ deliveries' = [deliveries EXCEPT ![n].stale = TRUE]
  /\ UNCHANGED <<serving, outbox, wanted, worker, accepted, lost>>

-----------------------------------------------------------------------------
Next ==
  \/ ChangeService
  \/ \E s \in Subscriptions, types \in SUBSET Types \ {{}} : SaveSubscription(s, types)
  \/ \E e \in Events : WriteEvent(e)
  \/ DispatchOutbox
  \/ \E w \in Workers : Claim(w) \/ Send(w) \/ Record(w) \/ Crash(w)
  \/ \E n \in Deliveries : BecomeDue(n) \/ LeaseEnds(n) \/ LeaseOutlived(n)

Spec == Init /\ [][Next]_vars

\* The beat starts the dispatcher and the delivery task every five seconds,
\* a run that is alive goes on, and time passes.  The gateway may fail for
\* ever, and nothing obliges the tenant to stay active.
FairSpec ==
  /\ Spec
  /\ WF_vars(DispatchOutbox)
  /\ \A w \in Workers : WF_vars(Claim(w)) /\ WF_vars(Send(w)) /\ WF_vars(Record(w))
  /\ \A n \in Deliveries : WF_vars(BecomeDue(n)) /\ WF_vars(LeaseEnds(n))

-----------------------------------------------------------------------------
(* Properties *)

\* What at-least-once delivery may cost a subscriber: a message for every
\* attempt, and an attempt beyond the limit only for every claim that was
\* taken over from another run, however runs, retries and late outcomes
\* interleave.
RepetitionsBounded ==
  \A n \in Deliveries :
    /\ accepted[n] <= deliveries[n].attempts
    /\ deliveries[n].attempts <= MaxAttempts + lost[n]

\* The outbox keeps its contract: dispatch_outbox, claim_notifications, the
\* gateway and _finish change nothing but as DeliveryContract allows, whoever
\* records a late outcome and whoever is taken over while it sends.  A row is
\* marked sent only for a message that Telegram took, be it for another run.
Contract ==
  INSTANCE DeliveryContract
    WITH status <- [n \in Deliveries |-> deliveries[n].status],
         attempts <- [n \in Deliveries |-> deliveries[n].attempts],
         received <- accepted

ImplementsDeliveryContract == Contract!Spec

\* "This limitation is preferred to silent loss": a subscriber to the type of
\* a written event gets it, or leaves a dead letter for the operator, however
\* many runs die on the way, as long as the tenant does not stay suspended.
EventsReachSubscribers ==
  \A e \in Events, s \in Subscriptions :
    <>[]serving /\ [](outbox[e] = "pending" => EventType[e] \in wanted[s]) =>
      (outbox[e] = "pending" ~>
         deliveries[<<e, s>>].status \in {"sent", "dead_letter"})
=============================================================================
