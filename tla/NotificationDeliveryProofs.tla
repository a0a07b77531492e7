---------------------- MODULE NotificationDeliveryProofs ----------------------
(***************************************************************************)
(* Theorems of NotificationDelivery for any events, subscriptions, runs of *)
(* the delivery task, batch size, attempt limit and number of mishaps.     *)
(***************************************************************************)
EXTENDS NotificationDelivery, FiniteSetTheorems, TLAPS

-----------------------------------------------------------------------------
(* The inductive invariant *)

\* What run w has in hand, each a delivery with the attempt it stands for: the
\* claims still to be sent and the one to be recorded.
Claims(w) ==
  worker[w].batch \cup
    (IF worker[w].current = Idle
       THEN {} ELSE {<<worker[w].current, worker[w].attempt>>})

\* A run holds only attempts that its delivery has counted.
ClaimsWereCounted ==
  \A w \in Workers : \A claim \in Claims(w) :
    claim[2] \in 1..deliveries[claim[1]].attempts

\* Nobody else holds the attempt a run holds, a lease that passed or not.
AttemptsHaveOneRun ==
  \A w1, w2 \in Workers : w1 # w2 => Claims(w1) \cap Claims(w2) = {}

\* What a run is about to record it will not send again.
SentIsNotUnsent ==
  \A w \in Workers : worker[w].current # Idle =>
    <<worker[w].current, worker[w].attempt>> \notin worker[w].batch

UncountedAtFirst ==
  \A n \in Deliveries : deliveries[n].status = "none" => deliveries[n].attempts = 0

\* The attempts of n that no run has still to send.
SentAttempts(n) ==
  {a \in 1..deliveries[n].attempts :
     \A w \in Workers : <<n, a>> \notin worker[w].batch}

\* Of the attempts of n that may be followed by a retry, those no run holds.
SettledAttempts(n) ==
  {a \in 1..(MaxAttempts - 1) :
     /\ a <= deliveries[n].attempts
     /\ \A w \in Workers : <<n, a>> \notin Claims(w)}

AcceptedWereSent ==
  \A n \in Deliveries : accepted[n] <= Cardinality(SentAttempts(n))

Waiting(n) == IF deliveries[n].status = "pending" THEN 1 ELSE 0

\* A delivery waits once when it is written, and once for every settled attempt
\* that could be followed by a retry; every claim that was not taken from
\* another run ends one of these waits.
WaitsWereSettled ==
  \A n \in Deliveries :
    deliveries[n].attempts + Waiting(n)
      <= lost[n] + 1 + Cardinality(SettledAttempts(n))

AttemptsAccounted ==
  /\ TypeOK
  /\ ClaimsWereCounted
  /\ AttemptsHaveOneRun
  /\ SentIsNotUnsent
  /\ UncountedAtFirst
  /\ AcceptedWereSent
  /\ WaitsWereSettled

-----------------------------------------------------------------------------
(* Lemmas *)

\* The first k attempts are k.
LEMMA FirstAttempts ==
  ASSUME NEW k \in Nat
  PROVE  IsFiniteSet(1..k) /\ Cardinality(1..k) = k
<1>1. 1 \in Int /\ k \in Int
  OBVIOUS
<1>2. /\ IsFiniteSet(1..k)
      /\ Cardinality(1..k) = IF 1 > k THEN 0 ELSE k - 1 + 1
  BY <1>1, FS_Interval
<1>3. QED
  BY <1>2

\* The attempts counted for a delivery are finitely many.
LEMMA AttemptsFinite ==
  ASSUME TypeOK, NEW n \in Deliveries
  PROVE  /\ deliveries[n].attempts \in Nat
         /\ IsFiniteSet(SentAttempts(n)) /\ IsFiniteSet(SettledAttempts(n))
         /\ Cardinality(SentAttempts(n)) \in Nat
         /\ Cardinality(SentAttempts(n)) <= deliveries[n].attempts
         /\ Cardinality(SettledAttempts(n)) \in Nat
         /\ Cardinality(SettledAttempts(n)) <= MaxAttempts - 1
<1>1. deliveries[n].attempts \in Nat
  BY DEF TypeOK, DeliveryRow
<1>2. /\ IsFiniteSet(1..deliveries[n].attempts)
      /\ Cardinality(1..deliveries[n].attempts) = deliveries[n].attempts
  BY <1>1, FirstAttempts
<1>3. /\ IsFiniteSet(1..(MaxAttempts - 1))
      /\ Cardinality(1..(MaxAttempts - 1)) = MaxAttempts - 1
  <2>1. MaxAttempts - 1 \in Nat
    BY DeliveryAssumption
  <2>2. QED
    BY <2>1, FirstAttempts
<1>4. /\ SentAttempts(n) \in SUBSET (1..deliveries[n].attempts)
      /\ SettledAttempts(n) \in SUBSET (1..(MaxAttempts - 1))
  BY DEF SentAttempts, SettledAttempts
<1>5. /\ IsFiniteSet(SentAttempts(n))
      /\ Cardinality(SentAttempts(n)) <= deliveries[n].attempts
  BY <1>2, <1>4, FS_Subset
<1>6. /\ IsFiniteSet(SettledAttempts(n))
      /\ Cardinality(SettledAttempts(n)) <= MaxAttempts - 1
  BY <1>3, <1>4, FS_Subset
<1>7. QED
  BY <1>1, <1>5, <1>6, FS_CardinalityType

\* No claim for a run that does not work.
LEMMA NoClaims ==
  ASSUME NEW w, worker[w] = NoWork
  PROVE  Claims(w) = {}
BY DEF Claims, NoWork

\* What a run has in hand are attempts of deliveries.
LEMMA ClaimsType ==
  ASSUME TypeOK, NEW w \in Workers
  PROVE  Claims(w) \subseteq Deliveries \X Nat
<1>1. worker[w] \in Work
  BY DEF TypeOK
<1>2. QED
  BY <1>1 DEF Claims, Work

\* An attempt once sent or settled is counted for good.
LEMMA CountsGrow ==
  ASSUME TypeOK', NEW n \in Deliveries
  PROVE  /\ IsFiniteSet(SentAttempts(n)') /\ IsFiniteSet(SettledAttempts(n)')
         /\ Cardinality(SentAttempts(n)') \in Nat
         /\ Cardinality(SettledAttempts(n)') \in Nat
         /\ SentAttempts(n) \subseteq SentAttempts(n)' =>
              Cardinality(SentAttempts(n)) <= Cardinality(SentAttempts(n)')
         /\ SettledAttempts(n) \subseteq SettledAttempts(n)' =>
              Cardinality(SettledAttempts(n)) <= Cardinality(SettledAttempts(n)')
<1>1. IsFiniteSet(SentAttempts(n)') /\ IsFiniteSet(SettledAttempts(n)')
  <2>1. /\ SentAttempts(n)' \in SUBSET (1..deliveries'[n].attempts)
        /\ SettledAttempts(n)' \in SUBSET (1..(MaxAttempts - 1))
    BY DEF SentAttempts, SettledAttempts
  <2>2. deliveries'[n].attempts \in Nat /\ MaxAttempts - 1 \in Nat
    BY DeliveryAssumption DEF TypeOK, DeliveryRow
  <2>3. IsFiniteSet(1..deliveries'[n].attempts) /\ IsFiniteSet(1..(MaxAttempts - 1))
    BY <2>2, FirstAttempts
  <2>4. QED
    BY <2>1, <2>3, FS_Subset
<1>2. QED
  BY <1>1, FS_Subset, FS_CardinalityType

\* A step that gives no run a claim, takes no count back and sends nothing
\* keeps the account, when what it lets wait has settled one more attempt.
LEMMA FewerClaims ==
  ASSUME AttemptsAccounted, TypeOK', UncountedAtFirst',
         accepted' = accepted, lost' = lost,
         \A n \in Deliveries :
           /\ deliveries'[n].attempts = deliveries[n].attempts
           /\ \/ Waiting(n)' <= Waiting(n)
              \/ /\ Waiting(n) = 0
                 /\ Cardinality(SettledAttempts(n)) + 1
                      <= Cardinality(SettledAttempts(n)'),
         \A w \in Workers : \/ worker'[w] = worker[w]
                            \/ worker'[w] = NoWork
                            \/ worker'[w] = [NoWork EXCEPT !.batch = worker[w].batch]
  PROVE  AttemptsAccounted'
<1> USE DEF AttemptsAccounted
<1>1. \A w \in Workers : /\ worker'[w].batch \subseteq worker[w].batch
                         /\ Claims(w)' \subseteq Claims(w)
                         /\ worker'[w].current # Idle => worker'[w] = worker[w]
  <2> SUFFICES ASSUME NEW w \in Workers
               PROVE  /\ worker'[w].batch \subseteq worker[w].batch
                      /\ Claims(w)' \subseteq Claims(w)
                      /\ worker'[w].current # Idle => worker'[w] = worker[w]
    OBVIOUS
  <2>1. CASE worker'[w] = worker[w]
    BY <2>1 DEF Claims
  <2>2. CASE worker'[w] # worker[w]
    <3>1. NoWork.current = Idle /\ NoWork.batch = {}
      BY DEF NoWork
    <3>2. /\ [NoWork EXCEPT !.batch = worker[w].batch].current = Idle
          /\ [NoWork EXCEPT !.batch = worker[w].batch].batch = worker[w].batch
      BY DEF NoWork
    <3>3. worker'[w] \in {NoWork, [NoWork EXCEPT !.batch = worker[w].batch]}
      BY <2>2
    <3>4. worker'[w].current = Idle /\ worker'[w].batch \subseteq worker[w].batch
      BY <3>1, <3>2, <3>3
    <3>5. QED
      BY <2>2, <3>4 DEF Claims
  <2>3. QED
    BY <2>1, <2>2
<1>2. ClaimsWereCounted'
  BY <1>1, ClaimsType DEF ClaimsWereCounted
<1>3. AttemptsHaveOneRun' /\ SentIsNotUnsent'
  BY <1>1 DEF AttemptsHaveOneRun, SentIsNotUnsent
<1>4. \A n \in Deliveries : /\ SentAttempts(n) \subseteq SentAttempts(n)'
                            /\ SettledAttempts(n) \subseteq SettledAttempts(n)'
  BY <1>1 DEF SentAttempts, SettledAttempts
<1>5. AcceptedWereSent'
  <2> SUFFICES ASSUME NEW n \in Deliveries
               PROVE  accepted'[n] <= Cardinality(SentAttempts(n)')
    BY DEF AcceptedWereSent
  <2>1. /\ Cardinality(SentAttempts(n)) <= Cardinality(SentAttempts(n)')
        /\ Cardinality(SentAttempts(n)') \in Nat
        /\ accepted[n] <= Cardinality(SentAttempts(n))
    BY <1>4, CountsGrow DEF AcceptedWereSent
  <2>2. accepted[n] \in Nat /\ Cardinality(SentAttempts(n)) \in Nat
    BY AttemptsFinite DEF TypeOK
  <2>3. QED
    BY <2>1, <2>2
<1>6. WaitsWereSettled'
  <2> SUFFICES ASSUME NEW n \in Deliveries
               PROVE  deliveries'[n].attempts + Waiting(n)'
                        <= lost'[n] + 1 + Cardinality(SettledAttempts(n)')
    BY DEF WaitsWereSettled
  <2>1. /\ Cardinality(SettledAttempts(n)) <= Cardinality(SettledAttempts(n)')
        /\ Cardinality(SettledAttempts(n)') \in Nat
    BY <1>4, CountsGrow
  <2>2. deliveries[n].attempts + Waiting(n)
          <= lost[n] + 1 + Cardinality(SettledAttempts(n))
    BY DEF WaitsWereSettled
  <2>3. /\ deliveries[n].attempts \in Nat /\ lost[n] \in Nat
        /\ Waiting(n) \in {0, 1} /\ Waiting(n)' \in {0, 1}
        /\ Cardinality(SettledAttempts(n)) \in Nat
    BY AttemptsFinite DEF TypeOK, Waiting
  <2>4. QED
    BY <2>1, <2>2, <2>3
<1>7. QED
  BY <1>2, <1>3, <1>5, <1>6

\* The start: nothing is written and nobody works.
LEMMA InitAttempts == Init => AttemptsAccounted
<1> SUFFICES ASSUME Init PROVE AttemptsAccounted
  OBVIOUS
<1>1. TypeOK
  <2>1. NoDelivery \in DeliveryRow
    BY DEF NoDelivery, DeliveryRow
  <2>2. NoWork \in Work
    BY DEF NoWork, Work
  <2>3. QED
    BY <2>1, <2>2, DeliveryAssumption DEF Init, TypeOK
<1>2. \A w \in Workers : Claims(w) = {} /\ worker[w].current = Idle
  BY NoClaims DEF Init, NoWork
<1>3. ClaimsWereCounted /\ AttemptsHaveOneRun /\ SentIsNotUnsent
  BY <1>2 DEF ClaimsWereCounted, AttemptsHaveOneRun, SentIsNotUnsent
<1>4. UncountedAtFirst
  BY DEF Init, UncountedAtFirst, NoDelivery
<1>5. AcceptedWereSent /\ WaitsWereSettled
  <2> SUFFICES ASSUME NEW n \in Deliveries
               PROVE  /\ accepted[n] <= Cardinality(SentAttempts(n))
                      /\ deliveries[n].attempts + Waiting(n)
                           <= lost[n] + 1 + Cardinality(SettledAttempts(n))
    BY DEF AcceptedWereSent, WaitsWereSettled
  <2>1. /\ accepted[n] = 0 /\ lost[n] = 0
        /\ deliveries[n].attempts = 0 /\ Waiting(n) = 0
    BY DEF Init, NoDelivery, Waiting
  <2>2. /\ Cardinality(SentAttempts(n)) \in Nat
        /\ Cardinality(SettledAttempts(n)) \in Nat
    BY <1>1, AttemptsFinite
  <2>3. QED
    BY <2>1, <2>2
<1>6. QED
  BY <1>1, <1>3, <1>4, <1>5 DEF AttemptsAccounted

-----------------------------------------------------------------------------
(* Every action keeps the account *)

\* The tenant, its subscriptions and its events: no delivery changes.
LEMMA SourcesAccounted ==
  ASSUME AttemptsAccounted,
         \/ ChangeService
         \/ \E s \in Subscriptions, types \in SUBSET Types \ {{}} :
              SaveSubscription(s, types)
         \/ \E e \in Events : WriteEvent(e)
         \/ UNCHANGED vars
  PROVE  AttemptsAccounted'
<1> USE DEF AttemptsAccounted
<1>1. TypeOK'
  BY DEF TypeOK, ChangeService, SaveSubscription, WriteEvent, vars
<1>2. /\ deliveries' = deliveries /\ worker' = worker
      /\ accepted' = accepted /\ lost' = lost
  BY DEF ChangeService, SaveSubscription, WriteEvent, vars
<1>3. UncountedAtFirst'
  BY <1>2 DEF UncountedAtFirst
<1>4. \A n \in Deliveries : Waiting(n)' <= Waiting(n)
  BY <1>2 DEF Waiting
<1>5. QED
  BY <1>1, <1>2, <1>3, <1>4, FewerClaims

\* The projection of an event makes deliveries wait that have no attempt yet.
LEMMA DispatchAccounted ==
  ASSUME AttemptsAccounted, DispatchOutbox
  PROVE  AttemptsAccounted'
<1> USE DEF AttemptsAccounted
<1> DEFINE New == [NoDelivery EXCEPT !.status = "pending", !.due = TRUE]
<1>1. New \in DeliveryRow /\ New.status = "pending" /\ New.attempts = 0
  BY DEF NoDelivery, DeliveryRow
<1>2. \A n \in Deliveries :
        \/ deliveries'[n] = deliveries[n]
        \/ deliveries[n].status = "none" /\ deliveries'[n] = New
  BY DEF DispatchOutbox, Projected
<1> HIDE DEF New
<1>3. TypeOK'
  <2>1. deliveries' \in [Deliveries -> DeliveryRow]
    <3>1. deliveries' = [n \in Deliveries |-> deliveries'[n]]
      BY DEF DispatchOutbox
    <3>2. QED
      BY <1>1, <1>2, <3>1 DEF TypeOK
  <2>2. QED
    BY <2>1 DEF TypeOK, DispatchOutbox
<1>4. /\ worker' = worker /\ accepted' = accepted /\ lost' = lost
      /\ \A n \in Deliveries : deliveries'[n].attempts = deliveries[n].attempts
  <2>1. worker' = worker /\ accepted' = accepted /\ lost' = lost
    BY DEF DispatchOutbox
  <2>2. QED
    BY <1>1, <1>2, <2>1 DEF UncountedAtFirst
<1>5. \A w \in Workers : Claims(w)' = Claims(w)
  BY <1>4 DEF Claims
<1>6. ClaimsWereCounted'
  BY <1>4, <1>5, ClaimsType DEF ClaimsWereCounted
<1>7. AttemptsHaveOneRun' /\ SentIsNotUnsent'
  BY <1>4, <1>5 DEF AttemptsHaveOneRun, SentIsNotUnsent
<1>8. UncountedAtFirst'
  BY <1>1, <1>2 DEF UncountedAtFirst
<1>9. \A n \in Deliveries : /\ SentAttempts(n)' = SentAttempts(n)
                            /\ SettledAttempts(n)' = SettledAttempts(n)
  BY <1>4, <1>5 DEF SentAttempts, SettledAttempts
<1>10. AcceptedWereSent'
  BY <1>4, <1>9 DEF AcceptedWereSent
<1>11. WaitsWereSettled'
  <2> SUFFICES ASSUME NEW n \in Deliveries
               PROVE  deliveries'[n].attempts + Waiting(n)'
                        <= lost'[n] + 1 + Cardinality(SettledAttempts(n)')
    BY DEF WaitsWereSettled
  <2>1. /\ lost'[n] = lost[n] /\ lost[n] \in Nat
        /\ SettledAttempts(n)' = SettledAttempts(n)
        /\ Cardinality(SettledAttempts(n)) \in Nat
    BY <1>4, <1>9, AttemptsFinite DEF TypeOK
  <2>2. CASE deliveries'[n] = deliveries[n]
    BY <2>1, <2>2 DEF WaitsWereSettled, Waiting
  <2>3. CASE deliveries[n].status = "none" /\ deliveries'[n] = New
    <3>1. deliveries'[n].attempts = 0 /\ Waiting(n)' = 1
      BY <1>1, <2>3 DEF Waiting
    <3>2. QED
      BY <2>1, <3>1
  <2>4. QED
    BY <1>2, <2>2, <2>3
<1>12. QED
  BY <1>3, <1>6, <1>7, <1>8, <1>10, <1>11

\* A claim is a new attempt of every delivery taken: one that waited waits no
\* more, and one taken from another run is lost to it.
LEMMA ClaimAccounted ==
  ASSUME AttemptsAccounted, NEW w \in Workers, Claim(w)
  PROVE  AttemptsAccounted'
<1> USE DEF AttemptsAccounted
<1>1. PICK taken \in SUBSET {n \in Deliveries : Claimable(n)} :
        /\ worker[w] = NoWork
        /\ deliveries' = [n \in Deliveries |->
             IF n \in taken
               THEN [status |-> "processing", attempts |-> deliveries[n].attempts + 1,
                     due |-> FALSE, stale |-> FALSE]
               ELSE deliveries[n]]
        /\ worker' = [worker EXCEPT ![w] =
             [NoWork EXCEPT !.batch = {<<n, deliveries[n].attempts + 1>> : n \in taken}]]
        /\ lost' = [n \in Deliveries |->
             IF n \in taken /\ deliveries[n].status = "processing" THEN lost[n] + 1
                                                                   ELSE lost[n]]
        /\ UNCHANGED <<serving, outbox, wanted, accepted, mishaps>>
  BY DEF Claim
<1> DEFINE Taken == {<<n, deliveries[n].attempts + 1>> : n \in taken}
<1>2. \A n \in Deliveries : deliveries[n] \in DeliveryRow /\ lost[n] \in Nat
  BY DEF TypeOK
<1>3. /\ taken \subseteq Deliveries
      /\ Taken \subseteq Deliveries \X Nat
      /\ \A n \in taken : deliveries[n].status \in {"pending", "processing"}
  BY <1>2 DEF Claimable, DeliveryRow
<1>4. /\ worker'[w].batch = Taken /\ worker'[w].current = Idle
      /\ \A v \in Workers \ {w} : worker'[v] = worker[v]
  BY <1>1 DEF TypeOK, NoWork
<1>5. /\ Claims(w) = {} /\ worker[w].batch = {} /\ Claims(w)' = Taken
      /\ \A v \in Workers \ {w} : Claims(v)' = Claims(v)
  BY <1>1, <1>4 DEF Claims, NoWork
<1>6. \A n \in Deliveries :
        /\ n \in taken => /\ deliveries'[n].attempts = deliveries[n].attempts + 1
                          /\ deliveries'[n].status = "processing"
        /\ n \notin taken => deliveries'[n] = deliveries[n]
  BY <1>1
<1>7. TypeOK'
  <2>1. deliveries' \in [Deliveries -> DeliveryRow]
    BY <1>1, <1>2 DEF DeliveryRow
  <2>2. worker' \in [Workers -> Work]
    <3>1. [NoWork EXCEPT !.batch = Taken] \in Work
      BY <1>3 DEF NoWork, Work
    <3>2. QED
      BY <1>1, <3>1 DEF TypeOK
  <2>3. lost' \in [Deliveries -> Nat]
    BY <1>1, <1>2
  <2>4. QED
    BY <1>1, <2>1, <2>2, <2>3 DEF TypeOK
<1> HIDE DEF Taken
<1>8. ClaimsWereCounted'
  <2> SUFFICES ASSUME NEW v \in Workers, NEW claim \in Claims(v)'
               PROVE  claim[2] \in 1..deliveries'[claim[1]].attempts
    BY DEF ClaimsWereCounted
  <2>1. CASE v = w
    BY <1>2, <1>3, <1>5, <1>6, <2>1 DEF Taken, DeliveryRow
  <2>2. CASE v # w
    <3>1. /\ claim[1] \in Deliveries
          /\ claim[2] \in 1..deliveries[claim[1]].attempts
      BY <1>5, <2>2, ClaimsType DEF ClaimsWereCounted
    <3>2. QED
      BY <1>2, <1>6, <3>1 DEF DeliveryRow
  <2>3. QED
    BY <2>1, <2>2
<1>9. \A v \in Workers \ {w} : Claims(v) \cap Taken = {}
  <2> SUFFICES ASSUME NEW v \in Workers \ {w}, NEW n \in taken,
                      <<n, deliveries[n].attempts + 1>> \in Claims(v)
               PROVE  FALSE
    BY DEF Taken
  <2>1. deliveries[n].attempts + 1 \in 1..deliveries[n].attempts
    BY DEF ClaimsWereCounted
  <2>2. QED
    BY <1>2, <1>3, <2>1 DEF DeliveryRow
<1>10. AttemptsHaveOneRun'
  BY <1>5, <1>9 DEF AttemptsHaveOneRun
<1>11. SentIsNotUnsent' /\ UncountedAtFirst'
  BY <1>4, <1>6 DEF SentIsNotUnsent, UncountedAtFirst
<1>12. \A n \in Deliveries : /\ SentAttempts(n) \subseteq SentAttempts(n)'
                             /\ SettledAttempts(n) \subseteq SettledAttempts(n)'
  <2> SUFFICES ASSUME NEW n \in Deliveries, NEW a \in 1..deliveries[n].attempts
               PROVE  /\ a \in 1..deliveries'[n].attempts
                      /\ <<n, a>> \notin Taken
    BY <1>2, <1>4, <1>5 DEF SentAttempts, SettledAttempts, DeliveryRow
  <2>1. a # deliveries[n].attempts + 1 /\ a \in 1..(deliveries[n].attempts + 1)
    BY <1>2 DEF DeliveryRow
  <2>2. QED
    BY <1>6, <2>1 DEF Taken
<1>13. AcceptedWereSent'
  <2> SUFFICES ASSUME NEW n \in Deliveries
               PROVE  accepted'[n] <= Cardinality(SentAttempts(n)')
    BY DEF AcceptedWereSent
  <2>1. /\ Cardinality(SentAttempts(n)) <= Cardinality(SentAttempts(n)')
        /\ Cardinality(SentAttempts(n)') \in Nat
    BY <1>7, <1>12, CountsGrow
  <2>2. /\ accepted[n] <= Cardinality(SentAttempts(n))
        /\ accepted[n] \in Nat /\ accepted'[n] = accepted[n]
        /\ Cardinality(SentAttempts(n)) \in Nat
    BY <1>1, AttemptsFinite DEF TypeOK, AcceptedWereSent
  <2>3. QED
    BY <2>1, <2>2
<1>14. WaitsWereSettled'
  <2> SUFFICES ASSUME NEW n \in Deliveries
               PROVE  deliveries'[n].attempts + Waiting(n)'
                        <= lost'[n] + 1 + Cardinality(SettledAttempts(n)')
    BY DEF WaitsWereSettled
  <2>1. /\ Cardinality(SettledAttempts(n)) <= Cardinality(SettledAttempts(n)')
        /\ Cardinality(SettledAttempts(n)') \in Nat
    BY <1>7, <1>12, CountsGrow
  <2>2. deliveries[n].attempts + Waiting(n)
          <= lost[n] + 1 + Cardinality(SettledAttempts(n))
    BY DEF WaitsWereSettled
  <2>3. /\ deliveries[n].attempts \in Nat /\ lost[n] \in Nat
        /\ Cardinality(SettledAttempts(n)) \in Nat
    BY AttemptsFinite DEF TypeOK
  <2>4. CASE n \notin taken
    <3>1. deliveries'[n] = deliveries[n] /\ lost'[n] = lost[n]
      BY <1>1, <2>4
    <3>2. Waiting(n)' = Waiting(n) /\ Waiting(n) \in Nat
      BY <3>1 DEF Waiting
    <3>3. QED
      BY <2>1, <2>2, <2>3, <3>1, <3>2
  <2>5. CASE n \in taken
    <3>1. deliveries'[n].attempts = deliveries[n].attempts + 1 /\ Waiting(n)' = 0
      BY <1>6, <2>5 DEF Waiting
    <3>2. CASE deliveries[n].status = "pending"
      <4>1. lost'[n] = lost[n] /\ Waiting(n) = 1
        BY <1>1, <3>2 DEF Waiting
      <4>2. QED
        BY <2>1, <2>2, <2>3, <3>1, <4>1
    <3>3. CASE deliveries[n].status = "processing"
      <4>1. lost'[n] = lost[n] + 1 /\ Waiting(n) = 0
        BY <1>1, <2>5, <3>3 DEF Waiting
      <4>2. QED
        BY <2>1, <2>2, <2>3, <3>1, <4>1
    <3>4. QED
      BY <1>3, <2>5, <3>2, <3>3
  <2>6. QED
    BY <2>4, <2>5
<1>15. QED
  BY <1>7, <1>8, <1>10, <1>11, <1>13, <1>14

\* Sending moves a claim from what is to be sent to what is to be recorded.
LEMMA SendAccounted ==
  ASSUME AttemptsAccounted, NEW w \in Workers, Send(w)
  PROVE  AttemptsAccounted'
<1> USE DEF AttemptsAccounted
<1>1. PICK claim \in worker[w].batch,
           outcome \in {"accepted", "retryable", "permanent"}, taken \in BOOLEAN :
        /\ worker[w].current = Idle
        /\ worker' = [worker EXCEPT ![w] =
             [batch |-> worker[w].batch \ {claim}, current |-> claim[1],
              attempt |-> claim[2], outcome |-> outcome]]
        /\ accepted' = IF taken
                         THEN [accepted EXCEPT ![claim[1]] = @ + 1]
                         ELSE accepted
        /\ UNCHANGED <<serving, outbox, wanted, deliveries, lost, mishaps>>
  BY DEF Send
<1>2. /\ worker[w] \in Work /\ claim \in Deliveries \X Nat
      /\ claim = <<claim[1], claim[2]>> /\ claim[1] # Idle
      /\ claim \in Claims(w)
  BY DeliveryAssumption DEF TypeOK, Work, Deliveries, Claims
<1>3. /\ worker'[w].batch = worker[w].batch \ {claim}
      /\ worker'[w].current = claim[1] /\ worker'[w].attempt = claim[2]
      /\ \A v \in Workers \ {w} : worker'[v] = worker[v]
  BY <1>1 DEF TypeOK
<1>4. TypeOK'
  <2>1. [batch |-> worker[w].batch \ {claim}, current |-> claim[1],
         attempt |-> claim[2], outcome |-> outcome] \in Work
    BY <1>2 DEF Work
  <2>2. worker' \in [Workers -> Work]
    BY <1>1, <2>1 DEF TypeOK
  <2>3. accepted' \in [Deliveries -> Nat]
    BY <1>1, <1>2 DEF TypeOK
  <2>4. QED
    BY <1>1, <2>2, <2>3 DEF TypeOK
<1>5. \A v \in Workers : Claims(v)' = Claims(v)
  <2>1. Claims(w)' = (worker[w].batch \ {claim}) \cup {claim}
    BY <1>2, <1>3 DEF Claims
  <2>2. Claims(w) = worker[w].batch
    BY <1>1 DEF Claims
  <2>3. QED
    BY <1>3, <2>1, <2>2 DEF Claims
<1>6. ClaimsWereCounted' /\ AttemptsHaveOneRun' /\ UncountedAtFirst'
  BY <1>1, <1>5 DEF ClaimsWereCounted, AttemptsHaveOneRun, UncountedAtFirst
<1>7. SentIsNotUnsent'
  BY <1>2, <1>3 DEF SentIsNotUnsent
<1>8. WaitsWereSettled'
  <2>1. \A n \in Deliveries : /\ SettledAttempts(n)' = SettledAttempts(n)
                              /\ Waiting(n)' = Waiting(n)
    BY <1>1, <1>5 DEF SettledAttempts, Waiting
  <2>2. QED
    BY <1>1, <2>1 DEF WaitsWereSettled
<1>9. AcceptedWereSent'
  <2> SUFFICES ASSUME NEW n \in Deliveries
               PROVE  accepted'[n] <= Cardinality(SentAttempts(n)')
    BY DEF AcceptedWereSent
  <2>1. SentAttempts(n) \subseteq SentAttempts(n)'
    BY <1>1, <1>3 DEF SentAttempts
  <2>2. /\ Cardinality(SentAttempts(n)) <= Cardinality(SentAttempts(n)')
        /\ IsFiniteSet(SentAttempts(n)')
        /\ Cardinality(SentAttempts(n)') \in Nat
    BY <1>4, <2>1, CountsGrow
  <2>3. /\ accepted[n] <= Cardinality(SentAttempts(n)) /\ accepted[n] \in Nat
        /\ IsFiniteSet(SentAttempts(n)) /\ Cardinality(SentAttempts(n)) \in Nat
    BY AttemptsFinite DEF AcceptedWereSent, TypeOK
  <2>4. CASE n # claim[1]
    <3>1. accepted'[n] = accepted[n]
      BY <1>1, <2>4 DEF TypeOK
    <3>2. QED
      BY <2>2, <2>3, <3>1
  <2>5. CASE n = claim[1]
    <3>1. accepted'[n] <= accepted[n] + 1 /\ accepted'[n] \in Nat
      BY <1>1, <2>3, <2>5 DEF TypeOK
    <3>2. claim[2] \notin SentAttempts(n)
      BY <1>2, <2>5 DEF SentAttempts
    <3>3. claim[2] \in SentAttempts(n)'
      <4>1. claim[2] \in 1..deliveries'[n].attempts
        BY <1>1, <1>2, <2>5 DEF ClaimsWereCounted
      <4>2. \A v \in Workers \ {w} : claim \notin worker[v].batch
        BY <1>2 DEF AttemptsHaveOneRun, Claims
      <4>3. QED
        BY <1>2, <1>3, <2>5, <4>1, <4>2 DEF SentAttempts
    <3>4. SentAttempts(n) \cup {claim[2]} \in SUBSET SentAttempts(n)'
      BY <2>1, <3>3
    <3>5. Cardinality(SentAttempts(n) \cup {claim[2]})
            = Cardinality(SentAttempts(n)) + 1
      BY <2>3, <3>2, FS_AddElement
    <3>6. Cardinality(SentAttempts(n) \cup {claim[2]})
            <= Cardinality(SentAttempts(n)')
      BY <2>2, <3>4, FS_Subset
    <3>7. QED
      BY <2>2, <2>3, <3>1, <3>5, <3>6
  <2>6. QED
    BY <2>4, <2>5
<1>10. QED
  BY <1>4, <1>6, <1>7, <1>8, <1>9

\* Recording an outcome settles the attempt; only one that may be followed by a
\* retry lets its delivery wait, whoever has taken the delivery since.
LEMMA RecordAccounted ==
  ASSUME AttemptsAccounted, NEW w \in Workers, Record(w)
  PROVE  AttemptsAccounted'
<1> USE DEF AttemptsAccounted
<1> DEFINE n == worker[w].current
           a == worker[w].attempt
           row == [deliveries[n] EXCEPT
                     !.status = StatusAfter(worker[w].outcome, a), !.stale = FALSE]
<1>1. /\ n # Idle
      /\ deliveries' = [deliveries EXCEPT ![n] =
           IF ~Finishes(n) THEN deliveries[n] ELSE row]
      /\ worker' = [worker EXCEPT ![w] = [NoWork EXCEPT !.batch = worker[w].batch]]
      /\ UNCHANGED <<serving, outbox, wanted, accepted, lost, mishaps>>
  BY DEF Record
<1>2. /\ worker[w] \in Work /\ n \in Deliveries /\ a \in Nat
      /\ deliveries[n] \in DeliveryRow
  BY <1>1 DEF TypeOK, Work
<1>3. /\ StatusAfter(worker[w].outcome, a) \in {"sent", "pending", "dead_letter"}
      /\ StatusAfter(worker[w].outcome, a) = "pending" => a < MaxAttempts
  BY DEF StatusAfter, Retries
<1>4. /\ row \in DeliveryRow
      /\ row.attempts = deliveries[n].attempts
      /\ row.status = StatusAfter(worker[w].outcome, a)
  BY <1>2, <1>3 DEF DeliveryRow
<1> HIDE DEF row
<1>5. /\ \A d \in Deliveries \ {n} : deliveries'[d] = deliveries[d]
      /\ \/ deliveries'[n] = deliveries[n]
         \/ deliveries[n].status = "processing" /\ deliveries'[n] = row
  BY <1>1, <1>2 DEF TypeOK, Finishes
<1>6. /\ worker'[w] = [NoWork EXCEPT !.batch = worker[w].batch]
      /\ \A v \in Workers \ {w} : worker'[v] = worker[v]
  BY <1>1 DEF TypeOK
<1>7. TypeOK'
  <2>1. deliveries' \in [Deliveries -> DeliveryRow]
    BY <1>1, <1>2, <1>4 DEF TypeOK
  <2>2. [NoWork EXCEPT !.batch = worker[w].batch] \in Work
    BY <1>2 DEF NoWork, Work
  <2>3. worker' \in [Workers -> Work]
    BY <1>1, <2>2 DEF TypeOK
  <2>4. QED
    BY <1>1, <2>1, <2>3 DEF TypeOK
<1>8. UncountedAtFirst'
  BY <1>3, <1>4, <1>5 DEF UncountedAtFirst
<1>9. \A d \in Deliveries : deliveries'[d].attempts = deliveries[d].attempts
  BY <1>4, <1>5
<1>10. ASSUME NEW d \in Deliveries, Waiting(d)' > Waiting(d)
       PROVE  /\ Waiting(d) = 0
              /\ Cardinality(SettledAttempts(d)) + 1 <= Cardinality(SettledAttempts(d)')
  <2>1. /\ d = n /\ a < MaxAttempts
        /\ deliveries[d].status # "pending"
    BY <1>3, <1>4, <1>5, <1>10 DEF Waiting
  <2>2. <<n, a>> \in Claims(w) /\ <<n, a>> \notin worker[w].batch
    BY <1>1 DEF Claims, SentIsNotUnsent
  <2>3. a \notin SettledAttempts(d)
    BY <2>1, <2>2 DEF SettledAttempts
  <2>4. a \in 1..deliveries'[d].attempts /\ a \in 1..(MaxAttempts - 1)
    BY <1>2, <1>9, <2>1, <2>2, DeliveryAssumption DEF ClaimsWereCounted, DeliveryRow
  <2>5. /\ Claims(w)' = worker[w].batch
        /\ \A v \in Workers \ {w} : Claims(v)' = Claims(v)
    BY <1>6 DEF Claims, NoWork
  <2>6. a \in SettledAttempts(d)'
    <3>1. \A v \in Workers : <<n, a>> \notin Claims(v)'
      BY <2>2, <2>5 DEF AttemptsHaveOneRun
    <3>2. a <= deliveries'[d].attempts
      BY <1>2, <1>9, <2>4 DEF DeliveryRow
    <3>3. QED
      BY <2>1, <2>4, <3>1, <3>2 DEF SettledAttempts
  <2>7. SettledAttempts(d) \cup {a} \in SUBSET SettledAttempts(d)'
    BY <1>9, <2>5, <2>6 DEF SettledAttempts, Claims
  <2>8. IsFiniteSet(SettledAttempts(d)) /\ IsFiniteSet(SettledAttempts(d)')
    BY <1>7, AttemptsFinite, CountsGrow
  <2>9. Cardinality(SettledAttempts(d) \cup {a}) = Cardinality(SettledAttempts(d)) + 1
    BY <2>3, <2>8, FS_AddElement
  <2>10. Cardinality(SettledAttempts(d) \cup {a}) <= Cardinality(SettledAttempts(d)')
    BY <2>7, <2>8, FS_Subset
  <2>11. QED
    BY <2>1, <2>9, <2>10 DEF Waiting
<1>11. \A d \in Deliveries : Waiting(d) \in Int /\ Waiting(d)' \in Int
  BY DEF Waiting
<1>12. QED
  BY <1>1, <1>6, <1>7, <1>8, <1>9, <1>10, <1>11, FewerClaims

\* The end of a run, a backoff or a lease moves no count.
LEMMA TimeAccounted ==
  ASSUME AttemptsAccounted,
         \/ \E w \in Workers : Crash(w)
         \/ \E n \in Deliveries : BecomeDue(n) \/ LeaseEnds(n) \/ LeaseOutlived(n)
  PROVE  AttemptsAccounted'
<1> USE DEF AttemptsAccounted
<1>1. CASE \E w \in Workers : Crash(w)
  <2>1. PICK w \in Workers : Crash(w)
    BY <1>1
  <2>2. NoWork \in Work
    BY DEF NoWork, Work
  <2>3. TypeOK'
    BY <2>1, <2>2, DeliveryAssumption DEF TypeOK, Crash
  <2>4. /\ deliveries' = deliveries /\ accepted' = accepted /\ lost' = lost
        /\ \A v \in Workers : worker'[v] = worker[v] \/ worker'[v] = NoWork
    BY <2>1 DEF Crash, TypeOK
  <2>5. UncountedAtFirst' /\ \A n \in Deliveries : Waiting(n)' <= Waiting(n)
    BY <2>4 DEF UncountedAtFirst, Waiting
  <2>6. QED
    BY <2>3, <2>4, <2>5, FewerClaims
<1>2. CASE \E n \in Deliveries : BecomeDue(n) \/ LeaseEnds(n) \/ LeaseOutlived(n)
  <2>1. PICK n \in Deliveries : BecomeDue(n) \/ LeaseEnds(n) \/ LeaseOutlived(n)
    BY <1>2
  <2>2. \/ deliveries' = [deliveries EXCEPT ![n].due = TRUE]
        \/ deliveries' = [deliveries EXCEPT ![n].stale = TRUE]
    BY <2>1 DEF BecomeDue, LeaseEnds, LeaseOutlived
  <2>3. /\ UNCHANGED <<serving, outbox, wanted, worker, accepted, lost>>
        /\ mishaps' \in 0..MaxMishaps
    BY <2>1, DeliveryAssumption DEF BecomeDue, LeaseEnds, LeaseOutlived, TypeOK
  <2>4. /\ \A d \in Deliveries : /\ deliveries'[d].status = deliveries[d].status
                                 /\ deliveries'[d].attempts = deliveries[d].attempts
        /\ deliveries' \in [Deliveries -> DeliveryRow]
    <3>1. CASE deliveries' = [deliveries EXCEPT ![n].due = TRUE]
      BY <3>1 DEF TypeOK, DeliveryRow
    <3>2. CASE deliveries' = [deliveries EXCEPT ![n].stale = TRUE]
      BY <3>2 DEF TypeOK, DeliveryRow
    <3>3. QED
      BY <2>2, <3>1, <3>2
  <2>5. TypeOK'
    BY <2>3, <2>4 DEF TypeOK
  <2>6. UncountedAtFirst' /\ \A d \in Deliveries : Waiting(d)' <= Waiting(d)
    BY <2>4 DEF UncountedAtFirst, Waiting
  <2>7. QED
    BY <2>3, <2>4, <2>5, <2>6, FewerClaims
<1>3. QED
  BY <1>1, <1>2

-----------------------------------------------------------------------------
(* The theorems *)

\* The account is an invariant: every message Telegram has taken is one of an
\* attempt that was sent, and every wait of a delivery but the first is paid by
\* an attempt that was settled, however claims, sends, late outcomes, crashes
\* and leases interleave.
THEOREM AttemptsAlwaysAccounted == Spec => []AttemptsAccounted
<1>1. AttemptsAccounted /\ [Next]_vars => AttemptsAccounted'
  <2> SUFFICES ASSUME AttemptsAccounted, [Next]_vars
               PROVE  AttemptsAccounted'
    OBVIOUS
  <2>1. CASE DispatchOutbox
    BY <2>1, DispatchAccounted
  <2>2. ASSUME NEW w \in Workers, Claim(w) PROVE AttemptsAccounted'
    BY <2>2, ClaimAccounted
  <2>3. ASSUME NEW w \in Workers, Send(w) PROVE AttemptsAccounted'
    BY <2>3, SendAccounted
  <2>4. ASSUME NEW w \in Workers, Record(w) PROVE AttemptsAccounted'
    BY <2>4, RecordAccounted
  <2>5. CASE \/ \E w \in Workers : Crash(w)
             \/ \E n \in Deliveries : BecomeDue(n) \/ LeaseEnds(n) \/ LeaseOutlived(n)
    BY <2>5, TimeAccounted
  <2>6. CASE \/ ChangeService
             \/ \E s \in Subscriptions, types \in SUBSET Types \ {{}} :
                  SaveSubscription(s, types)
             \/ \E e \in Events : WriteEvent(e)
             \/ UNCHANGED vars
    BY <2>6, SourcesAccounted
  <2>7. QED
    BY <2>1, <2>2, <2>3, <2>4, <2>5, <2>6 DEF Next
<1>2. QED
  BY InitAttempts, <1>1, PTL DEF Spec

\* Rows, runs and counters keep their types.
THEOREM TypeCorrect == Spec => []TypeOK
<1>1. AttemptsAccounted => TypeOK
  BY DEF AttemptsAccounted
<1>2. QED
  BY AttemptsAlwaysAccounted, <1>1, PTL

\* At-least-once delivery sends a subscriber no more messages than the delivery
\* has attempts, and attempts exceed the limit of the retry policy only by the
\* claims that were taken over from other runs.
THEOREM RepetitionsAlwaysBounded == Spec => []RepetitionsBounded
<1>1. AttemptsAccounted => RepetitionsBounded
  <2> SUFFICES ASSUME AttemptsAccounted, NEW n \in Deliveries
               PROVE  /\ accepted[n] <= deliveries[n].attempts
                      /\ deliveries[n].attempts <= MaxAttempts + lost[n]
    BY DEF RepetitionsBounded
  <2> USE DEF AttemptsAccounted
  <2>1. /\ deliveries[n].attempts \in Nat /\ accepted[n] \in Nat /\ lost[n] \in Nat
        /\ Cardinality(SentAttempts(n)) \in Nat
        /\ Cardinality(SentAttempts(n)) <= deliveries[n].attempts
        /\ Cardinality(SettledAttempts(n)) \in Nat
        /\ Cardinality(SettledAttempts(n)) <= MaxAttempts - 1
        /\ MaxAttempts \in Nat
    BY AttemptsFinite, DeliveryAssumption DEF TypeOK
  <2>2. accepted[n] <= Cardinality(SentAttempts(n))
    BY DEF AcceptedWereSent
  <2>3. /\ deliveries[n].attempts + Waiting(n)
             <= lost[n] + 1 + Cardinality(SettledAttempts(n))
        /\ Waiting(n) \in Nat
    BY DEF WaitsWereSettled, Waiting
  <2>4. QED
    BY <2>1, <2>2, <2>3
<1>2. QED
  BY AttemptsAlwaysAccounted, <1>1, PTL

-----------------------------------------------------------------------------
(* The contract of the outbox *)

\* An outcome that a run is about to record as sent is of a delivery that
\* Telegram took a message for.
AcceptedWasTaken ==
  \A w \in Workers :
    worker[w].current # Idle /\ worker[w].outcome = "accepted" =>
      accepted[worker[w].current] > 0

\* Counts of messages only grow, and a run comes by the outcome "accepted" only
\* where it counts a message of its own.
LEMMA OutcomesTaken ==
  ASSUME AttemptsAccounted, AcceptedWasTaken, [Next]_vars
  PROVE  AcceptedWasTaken'
<1>1. TypeOK
  BY DEF AttemptsAccounted
<1>2. ASSUME worker' = worker, accepted' = accepted
      PROVE  AcceptedWasTaken'
  BY <1>2 DEF AcceptedWasTaken
<1>3. ASSUME NEW w \in Workers, accepted' = accepted,
             worker'[w].current = Idle,
             \A v \in Workers \ {w} : worker'[v] = worker[v]
      PROVE  AcceptedWasTaken'
  BY <1>3 DEF AcceptedWasTaken
<1>4. ASSUME NEW w \in Workers, Claim(w) PROVE AcceptedWasTaken'
  BY <1>1, <1>3, <1>4 DEF Claim, TypeOK, NoWork
<1>5. ASSUME NEW w \in Workers, Record(w) \/ Crash(w) PROVE AcceptedWasTaken'
  BY <1>1, <1>3, <1>5 DEF Record, Crash, TypeOK, NoWork
<1>6. ASSUME NEW w \in Workers, Send(w) PROVE AcceptedWasTaken'
  <2>1. PICK claim \in worker[w].batch,
             outcome \in {"accepted", "retryable", "permanent"}, taken \in BOOLEAN :
          /\ outcome = "accepted" => taken
          /\ worker' = [worker EXCEPT ![w] =
               [batch |-> worker[w].batch \ {claim}, current |-> claim[1],
                attempt |-> claim[2], outcome |-> outcome]]
          /\ accepted' = IF taken
                           THEN [accepted EXCEPT ![claim[1]] = @ + 1]
                           ELSE accepted
    BY <1>6 DEF Send
  <2>2. /\ worker'[w].current = claim[1] /\ worker'[w].outcome = outcome
        /\ \A v \in Workers \ {w} : worker'[v] = worker[v]
        /\ claim[1] \in Deliveries
    BY <1>1, <2>1 DEF TypeOK, Work
  <2>3. \A n \in Deliveries : accepted[n] \in Nat /\ accepted'[n] \in Nat
                              /\ accepted[n] <= accepted'[n]
    BY <1>1, <2>1, <2>2 DEF TypeOK
  <2>4. outcome = "accepted" => accepted'[claim[1]] > 0
    BY <1>1, <2>1, <2>2, <2>3 DEF TypeOK
  <2>5. \A v \in Workers : worker[v].current \in Deliveries \cup {Idle}
    BY <1>1 DEF TypeOK, Work
  <2>6. ASSUME NEW v \in Workers, v # w, worker[v].current # Idle,
               worker[v].outcome = "accepted"
        PROVE  accepted'[worker[v].current] > 0
    BY <2>3, <2>5, <2>6 DEF AcceptedWasTaken
  <2>7. QED
    BY <2>2, <2>4, <2>6 DEF AcceptedWasTaken
<1>7. CASE worker' = worker /\ accepted' = accepted
  BY <1>2, <1>7
<1>8. \/ worker' = worker /\ accepted' = accepted
      \/ \E w \in Workers : Claim(w) \/ Send(w) \/ Record(w) \/ Crash(w)
  BY DEF Next, vars, ChangeService, SaveSubscription, WriteEvent, DispatchOutbox,
         BecomeDue, LeaseEnds, LeaseOutlived
<1>9. QED
  BY <1>4, <1>5, <1>6, <1>7, <1>8

-----------------------------------------------------------------------------
(* Each step is a step of the contract.  The abstract state is written out  *)
(* once, so that the steps below can speak of it.                           *)

Status == [n \in Deliveries |-> deliveries[n].status]
Attempts == [n \in Deliveries |-> deliveries[n].attempts]

ContractSame == UNCHANGED <<outbox, Status, Attempts, accepted>>

LEMMA AbstractState ==
  ASSUME TypeOK
  PROVE  /\ Contract!Deliveries = Deliveries
         /\ Contract!vars = <<outbox, Status, Attempts, accepted>>
BY DEF Contract!Deliveries, Contract!vars, Deliveries, Status, Attempts

\* dispatch_outbox publishes.
LEMMA DispatchPublishes ==
  ASSUME AttemptsAccounted, DispatchOutbox
  PROVE  Contract!Publish
<1>1. PICK taken \in SUBSET {e \in Events : outbox[e] = "pending"} :
        /\ outbox' = [e \in Events |-> IF e \in taken THEN "published" ELSE outbox[e]]
        /\ deliveries' = [n \in Deliveries |->
             IF n[1] \in taken /\ Projected(n)
               THEN [NoDelivery EXCEPT !.status = "pending", !.due = TRUE]
               ELSE deliveries[n]]
        /\ accepted' = accepted
  BY DEF DispatchOutbox
<1> DEFINE planned == {n \in Deliveries : n[1] \in taken /\ Projected(n)}
<1>2. planned \subseteq {n \in taken \X Subscriptions : Status[n] = "none"}
  BY DEF Projected, Deliveries, Status
<1>3. Status' = [n \in Deliveries |-> IF n \in planned THEN "pending" ELSE Status[n]]
  BY <1>1 DEF Status, NoDelivery
<1>4. Attempts' = Attempts
  BY <1>1 DEF Attempts, NoDelivery, Projected, AttemptsAccounted, UncountedAtFirst
<1> HIDE DEF planned
<1>5. QED
  BY <1>1, <1>2, <1>3, <1>4, Zenon
     DEF Contract!Publish, Contract!Deliveries, Deliveries, Status, Attempts

\* claim_notifications takes.
LEMMA ClaimTakes ==
  ASSUME AttemptsAccounted, NEW w \in Workers, Claim(w)
  PROVE  Contract!Take
<1>1. PICK taken \in SUBSET {n \in Deliveries : Claimable(n)} :
        /\ deliveries' = [n \in Deliveries |->
             IF n \in taken
               THEN [status |-> "processing", attempts |-> deliveries[n].attempts + 1,
                     due |-> FALSE, stale |-> FALSE]
               ELSE deliveries[n]]
        /\ outbox' = outbox /\ accepted' = accepted
  BY DEF Claim
<1>2. taken \in SUBSET {n \in Deliveries : Status[n] \in {"pending", "processing"}}
  BY DEF Claimable, Status
<1>3. Status' = [n \in Deliveries |-> IF n \in taken THEN "processing" ELSE Status[n]]
  BY <1>1 DEF Status
<1>4. \A n \in Deliveries : deliveries[n].attempts \in Nat
  BY DEF AttemptsAccounted, TypeOK, DeliveryRow
<1>5. Attempts' = [n \in Deliveries |-> Attempts[n] + (IF n \in taken THEN 1 ELSE 0)]
  BY <1>1, <1>4 DEF Attempts
<1>6. QED
  BY <1>1, <1>2, <1>3, <1>5, Zenon
     DEF Contract!Take, Contract!Deliveries, Deliveries, Status, Attempts

\* No more attempts were sent than counted, after a step either.
LEMMA SentAttemptsLater ==
  ASSUME TypeOK', NEW n \in Deliveries
  PROVE  /\ Cardinality(SentAttempts(n)') <= deliveries'[n].attempts
         /\ Cardinality(SentAttempts(n)') \in Nat
<1>1. SentAttempts(n)' \in SUBSET (1..deliveries'[n].attempts)
  BY DEF SentAttempts
<1>2. deliveries'[n].attempts \in Nat
  BY DEF TypeOK, DeliveryRow
<1>3. QED
  BY <1>1, <1>2, FirstAttempts, FS_Subset, FS_CardinalityType

\* What the gateway sends is received, if Telegram takes it.
LEMMA SendIsReceived ==
  ASSUME AttemptsAccounted, AttemptsAccounted', NEW w \in Workers, Send(w)
  PROVE  ContractSame \/ \E n \in Deliveries : Contract!Receive(n)
<1>1. PICK claim \in worker[w].batch : \E taken \in BOOLEAN :
        /\ accepted' = IF taken
                         THEN [accepted EXCEPT ![claim[1]] = @ + 1]
                         ELSE accepted
        /\ deliveries' = deliveries /\ outbox' = outbox
  BY DEF Send
<1>2. Status' = Status /\ Attempts' = Attempts
  BY <1>1 DEF Status, Attempts
<1>3. CASE accepted' = accepted
  BY <1>1, <1>2, <1>3 DEF ContractSame
<1>4. CASE accepted' = [accepted EXCEPT ![claim[1]] = @ + 1]
  <2> DEFINE n == claim[1]
  <2>1. n \in Deliveries
    BY DEF AttemptsAccounted, TypeOK, Work
  <2>2. /\ accepted[n] \in Nat /\ accepted'[n] = accepted[n] + 1
        /\ deliveries[n].attempts \in Nat
    BY <1>4, <2>1 DEF AttemptsAccounted, TypeOK, DeliveryRow
  <2>3. accepted'[n] <= deliveries[n].attempts
    <3>1. accepted'[n] <= Cardinality(SentAttempts(n)')
      BY <2>1 DEF AttemptsAccounted, AcceptedWereSent
    <3>2. /\ Cardinality(SentAttempts(n)') <= deliveries'[n].attempts
          /\ Cardinality(SentAttempts(n)') \in Nat
      BY <2>1, SentAttemptsLater DEF AttemptsAccounted
    <3>3. QED
      BY <1>1, <2>2, <3>1, <3>2
  <2>4. accepted[n] < Attempts[n]
    BY <2>1, <2>2, <2>3 DEF Attempts
  <2> HIDE DEF n
  <2>5. accepted' = [accepted EXCEPT ![n] = @ + 1]
    BY <1>4 DEF n
  <2>6. Contract!Receive(n)
    BY <1>1, <1>2, <2>4, <2>5, Zenon DEF Contract!Receive, Status, Attempts, Contract!Deliveries, Deliveries
  <2>7. QED
    BY <2>1, <2>6
<1>5. QED
  BY <1>1, <1>3, <1>4

\* _finish settles, or leaves alone a row that is not processing.
LEMMA RecordSettles ==
  ASSUME AttemptsAccounted, AcceptedWasTaken, NEW w \in Workers, Record(w)
  PROVE  \/ ContractSame
         \/ \E n \in Deliveries, result \in {"pending", "sent", "dead_letter"} :
              Contract!Settle(n, result)
<1>1. PICK n \in Deliveries : n = worker[w].current
  BY DEF Record, AttemptsAccounted, TypeOK, Work
<1>2. PICK result \in {"pending", "sent", "dead_letter"} :
        /\ result = StatusAfter(worker[w].outcome, worker[w].attempt)
        /\ result = "sent" => worker[w].outcome = "accepted"
  BY DEF StatusAfter
<1> DEFINE row == [deliveries[n] EXCEPT !.status = result, !.stale = FALSE]
<1>3. /\ n # Idle
      /\ deliveries' = [deliveries EXCEPT ![n] =
           IF ~Finishes(n) THEN deliveries[n] ELSE row]
      /\ outbox' = outbox /\ accepted' = accepted
  BY <1>1, <1>2 DEF Record
<1>4. deliveries[n] \in DeliveryRow /\ deliveries \in [Deliveries -> DeliveryRow]
  BY DEF AttemptsAccounted, TypeOK
<1>5. row.attempts = deliveries[n].attempts /\ row.status = result
  BY <1>4 DEF DeliveryRow
<1>6. result = "sent" => accepted[n] > 0
  BY <1>1, <1>2, <1>3 DEF AcceptedWasTaken
<1> HIDE DEF row
<1>7. CASE ~Finishes(n)
  <2>1. deliveries' = deliveries
    BY <1>3, <1>4, <1>7
  <2>2. QED
    BY <1>3, <2>1 DEF ContractSame, Status, Attempts
<1>8. CASE Finishes(n)
  <2>1. /\ deliveries'[n] = row
        /\ \A d \in Deliveries \ {n} : deliveries'[d] = deliveries[d]
    BY <1>3, <1>4, <1>8
  <2>2. Attempts' = Attempts
    BY <1>5, <2>1 DEF Attempts
  <2>3. Status' = [Status EXCEPT ![n] = result]
    BY <1>5, <2>1 DEF Status
  <2>4. Status[n] = "processing"
    BY <1>8 DEF Finishes, Status
  <2>5. Contract!Settle(n, result)
    BY <1>3, <1>6, <2>2, <2>3, <2>4, Zenon
       DEF Contract!Settle, Status, Attempts, Contract!Deliveries, Deliveries
  <2>6. QED
    BY <2>5
<1>9. QED
  BY <1>7, <1>8

\* The tenant, subscriptions, crashes, backoffs and leases leave the abstract
\* state as it is.
LEMMA RestIsStuttering ==
  ASSUME AttemptsAccounted,
         \/ ChangeService
         \/ \E s \in Subscriptions, types \in SUBSET Types \ {{}} :
              SaveSubscription(s, types)
         \/ \E w \in Workers : Crash(w)
         \/ \E n \in Deliveries : BecomeDue(n) \/ LeaseEnds(n) \/ LeaseOutlived(n)
         \/ UNCHANGED vars
  PROVE  ContractSame
<1>1. CASE deliveries' = deliveries /\ outbox' = outbox /\ accepted' = accepted
  BY <1>1 DEF ContractSame, Status, Attempts
<1>2. ASSUME NEW n \in Deliveries, BecomeDue(n) \/ LeaseEnds(n) \/ LeaseOutlived(n)
      PROVE  ContractSame
  <2>1. /\ \/ deliveries' = [deliveries EXCEPT ![n].due = TRUE]
           \/ deliveries' = [deliveries EXCEPT ![n].stale = TRUE]
        /\ outbox' = outbox /\ accepted' = accepted
    BY <1>2 DEF BecomeDue, LeaseEnds, LeaseOutlived
  <2>2. \A d \in Deliveries : /\ deliveries'[d].status = deliveries[d].status
                              /\ deliveries'[d].attempts = deliveries[d].attempts
    <3>1. CASE deliveries' = [deliveries EXCEPT ![n].due = TRUE]
      BY <3>1 DEF AttemptsAccounted, TypeOK, DeliveryRow
    <3>2. CASE deliveries' = [deliveries EXCEPT ![n].stale = TRUE]
      BY <3>2 DEF AttemptsAccounted, TypeOK, DeliveryRow
    <3>3. QED
      BY <2>1, <3>1, <3>2
  <2>3. QED
    BY <2>1, <2>2 DEF ContractSame, Status, Attempts
<1>3. QED
  BY <1>1, <1>2 DEF ChangeService, SaveSubscription, Crash, vars

\* dispatch_outbox, claim_notifications, the gateway and _finish keep the
\* contract of the outbox: planned once, one message at most per attempt, sent
\* only after a message was taken, settled for good.
THEOREM OutboxKeepsItsContract == Spec => ImplementsDeliveryContract
<1>1. ASSUME Init PROVE Contract!Init
  BY <1>1 DEF Init, Contract!Init, Contract!Deliveries, Deliveries, NoDelivery
<1>2. Init => AcceptedWasTaken
  BY DEF Init, AcceptedWasTaken, NoWork
<1>3. ASSUME AttemptsAccounted, AttemptsAccounted', AcceptedWasTaken, [Next]_vars
      PROVE  [Contract!Next]_(Contract!vars)
  <2>1. CASE ContractSame
    BY <1>3, <2>1, AbstractState DEF AttemptsAccounted, ContractSame, Contract!vars,
       Status, Attempts
  <2>2. CASE DispatchOutbox
    BY <1>3, <2>2, DispatchPublishes DEF Contract!Next
  <2>3. CASE \E w \in Workers : Claim(w)
    BY <1>3, <2>3, ClaimTakes DEF Contract!Next
  <2>4. CASE \E w \in Workers : Send(w)
    BY <1>3, <2>1, <2>4, SendIsReceived DEF Contract!Next, Contract!Deliveries, Deliveries
  <2>5. CASE \E w \in Workers : Record(w)
    BY <1>3, <2>1, <2>5, RecordSettles DEF Contract!Next, Contract!Deliveries, Deliveries
  <2>6. CASE \E e \in Events : WriteEvent(e)
    <3>1. PICK e \in Events : WriteEvent(e)
      BY <2>6
    <3>2. Contract!Write(e)
      BY <3>1 DEF WriteEvent, Contract!Write
    <3>3. QED
      BY <3>2 DEF Contract!Next
  <2>7. QED
    BY <1>3, <2>1, <2>2, <2>3, <2>4, <2>5, <2>6, RestIsStuttering DEF Next
<1>4. QED
  BY <1>1, <1>2, <1>3, OutcomesTaken, AttemptsAlwaysAccounted, PTL
     DEF Spec, ImplementsDeliveryContract, Contract!Spec
=============================================================================
