------------------------- MODULE TelegramUpdatesProofs -------------------------
(***************************************************************************)
(* Theorems of TelegramUpdates for any updates, any number of calls in     *)
(* flight and any number of mishaps.                                       *)
(***************************************************************************)
EXTENDS TelegramUpdates, FiniteSetTheorems, TLAPS

-----------------------------------------------------------------------------
(* The inductive invariant *)

\* A run at work is about an update; one that will record success has handled it.
RunsKnowTheirUpdate ==
  \A h \in Runs :
    /\ run[h].step # "idle" => run[h].update \in Updates
    /\ run[h].step = "handled" => run[h].update \in handled

\* Every expiry of a claim is a mishap.
ExpiriesAreMishaps == \A u \in Updates : expired[u] <= mishaps

\* The claim in the ledger belongs to a run that is not one of the stale ones.
LiveClaim(u) == IF ledger[u].status = "processing" /\ ~ledger[u].stale THEN 1 ELSE 0

\* All runs that hold u, but for the one of a claim that is not stale, are runs
\* whose claim went stale.
HoldersCounted ==
  \A u \in Updates : Cardinality(Holding(u)) <= expired[u] + LiveClaim(u)

Accounted ==
  /\ TypeOK
  /\ RunsKnowTheirUpdate
  /\ ExpiriesAreMishaps
  /\ CompletedWasHandled
  /\ HoldersCounted

-----------------------------------------------------------------------------
(* Lemmas *)

\* The runs that hold an update are finitely many.
LEMMA HoldingFinite ==
  ASSUME NEW u
  PROVE  IsFiniteSet(Holding(u)) /\ Cardinality(Holding(u)) \in Nat
<1>1. Holding(u) \in SUBSET Runs
  BY DEF Holding
<1>2. IsFiniteSet(Holding(u))
  BY <1>1, FS_Subset, LedgerAssumption
<1>3. QED
  BY <1>2, FS_CardinalityType

\* A step that lets no run begin to hold an update, and changes no claim and no
\* count of expired claims, keeps the account.
LEMMA FewerHolders ==
  ASSUME Accounted, ledger' = ledger, expired' = expired,
         \A u \in Updates : Holding(u)' \subseteq Holding(u)
  PROVE  HoldersCounted'
<1> SUFFICES ASSUME NEW u \in Updates
             PROVE  Cardinality(Holding(u)') <= expired[u] + LiveClaim(u)
  BY DEF HoldersCounted, LiveClaim
<1>1. /\ Cardinality(Holding(u)') \in Nat
      /\ Cardinality(Holding(u)') <= Cardinality(Holding(u))
  <2>1. IsFiniteSet(Holding(u)) /\ Holding(u)' \in SUBSET Holding(u)
    BY HoldingFinite
  <2>2. IsFiniteSet(Holding(u)')
    BY <2>1, FS_Subset
  <2>3. QED
    BY <2>1, <2>2, FS_Subset, FS_CardinalityType
<1>2. /\ Cardinality(Holding(u)) \in Nat
      /\ Cardinality(Holding(u)) <= expired[u] + LiveClaim(u)
      /\ expired[u] \in Nat /\ LiveClaim(u) \in Nat
  BY HoldingFinite, LedgerAssumption
     DEF Accounted, HoldersCounted, TypeOK, LiveClaim
<1>3. QED
  BY <1>1, <1>2

\* The start: nothing is claimed, nobody runs.
LEMMA InitAccounted == Init => Accounted
<1> SUFFICES ASSUME Init PROVE Accounted
  OBVIOUS
<1>0. TypeOK
  BY LedgerAssumption DEF Init, TypeOK, NoRow, NoRun, LedgerRow, Run
<1>1. RunsKnowTheirUpdate /\ ExpiriesAreMishaps /\ CompletedWasHandled
  BY DEF Init, RunsKnowTheirUpdate, ExpiriesAreMishaps, CompletedWasHandled,
     NoRow, NoRun
<1>2. \A u \in Updates : Holding(u) = {}
  BY DEF Init, Holding, NoRun
<1>3. HoldersCounted
  <2> SUFFICES ASSUME NEW u \in Updates
               PROVE  Cardinality(Holding(u)) <= expired[u] + LiveClaim(u)
    BY DEF HoldersCounted
  <2>1. Cardinality(Holding(u)) = 0
    BY <1>2, FS_EmptySet
  <2>2. expired[u] = 0 /\ LiveClaim(u) = 0
    BY DEF Init, LiveClaim, NoRow
  <2>3. QED
    BY <2>1, <2>2
<1>4. QED
  BY <1>0, <1>1, <1>3 DEF Accounted

\* An answer leaves Telegram with a status for every update.
LEMMA ToldType ==
  ASSUME TypeOK, NEW h \in Runs, NEW answer \in {"acknowledged", "refused"}
  PROVE  Told(h, answer) \in
           [Updates -> {"unsent", "pending", "acknowledged", "refused"}]
BY DEF TypeOK, Told

\* A call that moves on is a call.
LEMMA RunType ==
  ASSUME TypeOK, NEW h \in Runs, NEW r, run' = [run EXCEPT ![h] = r],
         \/ r = NoRun
         \/ \E step \in {"admitted", "handling", "handled", "raised"} :
              r = [run[h] EXCEPT !.step = step]
         \/ r = [run[h] EXCEPT !.open = FALSE]
  PROVE  run' \in [Runs -> Run]
<1>1. run[h] \in Run
  BY DEF TypeOK
<1>2. r \in Run
  <2>1. CASE r = NoRun
    BY <2>1 DEF Run, NoRun
  <2>2. CASE \E step \in {"admitted", "handling", "handled", "raised"} :
               r = [run[h] EXCEPT !.step = step]
    BY <1>1, <2>2 DEF Run
  <2>3. CASE r = [run[h] EXCEPT !.open = FALSE]
    BY <1>1, <2>3 DEF Run
  <2>4. QED
    BY <2>1, <2>2, <2>3
<1>3. QED
  BY <1>2 DEF TypeOK

-----------------------------------------------------------------------------
(* Every action keeps the account *)

\* Deliver and Admit begin or end a call that holds nothing yet.
LEMMA ArrivalAccounted ==
  ASSUME Accounted,
         NEW h \in Runs, (\E u \in Updates : Deliver(u, h)) \/ Admit(h)
  PROVE  Accounted'
<1> USE LedgerAssumption DEF Accounted
<1>1. TypeOK'
  <2>1. CASE \E u \in Updates : Deliver(u, h)
    BY <2>1 DEF TypeOK, Deliver, Run
  <2>2. CASE Admit(h)
    <3>1. run' \in [Runs -> Run]
      BY <2>2, RunType DEF Admit
    <3>2. QED
      BY <2>2, <3>1, ToldType DEF TypeOK, Admit
  <2>3. QED
    BY <2>1, <2>2
<1>2. RunsKnowTheirUpdate'
  BY DEF TypeOK, Run, Deliver, Admit, NoRun, RunsKnowTheirUpdate
<1>3. ExpiriesAreMishaps' /\ CompletedWasHandled'
  BY DEF Deliver, Admit, ExpiriesAreMishaps, CompletedWasHandled
<1>4. \A u \in Updates : Holding(u)' \subseteq Holding(u)
  BY DEF Holding, TypeOK, Run, NoRun, Deliver, Admit
<1>5. ledger' = ledger /\ expired' = expired
  BY DEF Deliver, Admit
<1>6. QED
  BY <1>1, <1>2, <1>3, <1>4, <1>5, FewerHolders

\* A claim adds one holder, and makes the claim a live one that was not.
LEMMA ClaimAccounted ==
  ASSUME Accounted, NEW h \in Runs, Claim(h)
  PROVE  Accounted'
<1> USE LedgerAssumption DEF Accounted
<1> DEFINE u == run[h].update
<1>0. u \in Updates
  BY DEF RunsKnowTheirUpdate, Claim
<1>1. TypeOK'
  <2>1. run' \in [Runs -> Run]
    BY RunType DEF Claim
  <2>2. ledger' \in [Updates -> LedgerRow]
    <3>1. [status |-> "processing", stale |-> FALSE] \in LedgerRow
      BY DEF LedgerRow
    <3>2. \/ ledger' = ledger
          \/ ledger' = [ledger EXCEPT ![u] =
                          [status |-> "processing", stale |-> FALSE]]
      BY DEF Claim
    <3>3. QED
      BY <3>1, <3>2 DEF TypeOK
  <2>3. QED
    BY <2>1, <2>2, ToldType DEF TypeOK, Claim
<1>2. RunsKnowTheirUpdate'
  BY <1>0 DEF TypeOK, Run, Claim, NoRun, RunsKnowTheirUpdate
<1>3. ExpiriesAreMishaps' /\ CompletedWasHandled'
  BY <1>0 DEF Claim, ExpiriesAreMishaps, CompletedWasHandled, TypeOK, LedgerRow
<1>4. CASE ~Claimable(u)
  <2>1. \A v \in Updates : Holding(v)' \subseteq Holding(v)
    BY <1>4 DEF Holding, TypeOK, Run, NoRun, Claim
  <2>2. ledger' = ledger /\ expired' = expired
    BY <1>4 DEF Claim
  <2>3. QED
    BY <1>1, <1>2, <1>3, <2>1, <2>2, FewerHolders
<1>5. CASE Claimable(u)
  <2> SUFFICES ASSUME NEW v \in Updates
               PROVE  Cardinality(Holding(v)') <= expired'[v] + LiveClaim(v)'
    BY <1>1, <1>2, <1>3 DEF HoldersCounted
  <2>1. /\ Cardinality(Holding(v)) <= expired[v] + LiveClaim(v)
        /\ Cardinality(Holding(v)) \in Nat /\ expired[v] \in Nat
        /\ expired'[v] = expired[v]
    BY HoldingFinite DEF HoldersCounted, TypeOK, Claim
  <2>2. CASE v = u
    <3>1. Holding(v)' = Holding(v) \cup {h}
      BY <1>5, <2>2 DEF Holding, TypeOK, Run, Claim
    <3>2. /\ Cardinality(Holding(v)') \in Nat
          /\ Cardinality(Holding(v)') <= Cardinality(Holding(v)) + 1
      <4>1. IsFiniteSet(Holding(v))
        BY HoldingFinite
      <4>2. Cardinality(Holding(v) \cup {h}) =
              IF h \in Holding(v) THEN Cardinality(Holding(v))
                                  ELSE Cardinality(Holding(v)) + 1
        BY <4>1, FS_AddElement
      <4>3. QED
        BY <2>1, <3>1, <4>2
    <3>3. LiveClaim(v) = 0 /\ LiveClaim(v)' = 1
      BY <1>5, <2>2 DEF LiveClaim, Claimable, Claim, TypeOK, LedgerRow
    <3>4. QED
      BY <2>1, <3>2, <3>3
  <2>3. CASE v # u
    <3>1. Holding(v)' = Holding(v)
      BY <1>5, <2>3 DEF Holding, TypeOK, Run, Claim
    <3>2. LiveClaim(v)' = LiveClaim(v)
      BY <1>5, <2>3 DEF LiveClaim, Claim, TypeOK
    <3>3. QED
      BY <2>1, <3>1, <3>2
  <2>4. QED
    BY <2>2, <2>3
<1>6. QED
  BY <1>4, <1>5

\* The handler changes no claim; its run goes on holding the update.
LEMMA HandleAccounted ==
  ASSUME Accounted, NEW h \in Runs, NEW success \in BOOLEAN, Handle(h, success)
  PROVE  Accounted'
<1> USE LedgerAssumption DEF Accounted
<1>0. run[h].update \in Updates
  BY DEF RunsKnowTheirUpdate, Handle
<1>1. TypeOK'
  BY <1>0 DEF TypeOK, Handle, Run, Outcome
<1>2. RunsKnowTheirUpdate'
  BY <1>0 DEF TypeOK, Run, Handle, NoRun, RunsKnowTheirUpdate, Outcome
<1>3. ExpiriesAreMishaps' /\ CompletedWasHandled'
  BY DEF Handle, ExpiriesAreMishaps, CompletedWasHandled
<1>4. \A v \in Updates : Holding(v)' \subseteq Holding(v)
  BY DEF Holding, TypeOK, Run, Handle, Outcome
<1>5. ledger' = ledger /\ expired' = expired
  BY DEF Handle
<1>6. QED
  BY <1>1, <1>2, <1>3, <1>4, <1>5, FewerHolders

\* A record takes one holder away, and at most the one live claim.
LEMMA RecordAccounted ==
  ASSUME Accounted, NEW h \in Runs, Complete(h) \/ Fail(h)
  PROVE  Accounted'
<1> USE LedgerAssumption DEF Accounted
<1> DEFINE u == run[h].update
<1>0. u \in Updates /\ h \in Holding(u)
  BY DEF RunsKnowTheirUpdate, Complete, Fail, Holding
<1>a. PICK status \in {"completed", "failed"} :
        /\ ledger' = Recorded(u, status)
        /\ status = "completed" => u \in handled
  BY DEF Complete, Fail, RunsKnowTheirUpdate
<1>b. /\ run' = [run EXCEPT ![h] = NoRun]
      /\ UNCHANGED <<active, handled, expired, mishaps>>
      /\ telegram' = Told(h, "acknowledged") \/ telegram' = telegram
  BY DEF Complete, Fail
<1>1. TypeOK'
  BY <1>0, <1>a, <1>b DEF TypeOK, Run, NoRun, Told, LedgerRow, Recorded
<1>2. RunsKnowTheirUpdate'
  BY <1>b DEF TypeOK, Run, NoRun, RunsKnowTheirUpdate
<1>3. ExpiriesAreMishaps' /\ CompletedWasHandled'
  BY <1>0, <1>a, <1>b
     DEF ExpiriesAreMishaps, CompletedWasHandled, TypeOK, Recorded, LedgerRow
<1>4. HoldersCounted'
  <2> SUFFICES ASSUME NEW v \in Updates
               PROVE  Cardinality(Holding(v)') <= expired'[v] + LiveClaim(v)'
    BY DEF HoldersCounted
  <2>1. /\ Cardinality(Holding(v)) <= expired[v] + LiveClaim(v)
        /\ Cardinality(Holding(v)) \in Nat /\ expired[v] \in Nat
        /\ expired'[v] = expired[v]
    BY <1>b, HoldingFinite DEF HoldersCounted, TypeOK
  <2>2. CASE v = u
    <3>1. Holding(v)' = Holding(v) \ {h}
      BY <1>b, <2>2 DEF Holding, TypeOK, NoRun
    <3>2. Cardinality(Holding(v)') = Cardinality(Holding(v)) - 1
      BY <1>0, <2>2, <3>1, HoldingFinite, FS_RemoveElement
    <3>3. /\ LiveClaim(v) \in {0, 1} /\ LiveClaim(v)' \in {0, 1}
      BY DEF LiveClaim
    <3>4. QED
      BY <2>1, <3>2, <3>3
  <2>3. CASE v # u
    <3>1. Holding(v)' = Holding(v)
      BY <1>b, <2>3 DEF Holding, TypeOK, NoRun
    <3>2. LiveClaim(v)' = LiveClaim(v)
      BY <1>a, <2>3 DEF LiveClaim, Recorded, TypeOK
    <3>3. QED
      BY <2>1, <3>1, <3>2
  <2>4. QED
    BY <2>2, <2>3
<1>5. QED
  BY <1>1, <1>2, <1>3, <1>4

\* A crash takes a run away from its claim, a lost connection only its hearer.
LEMMA FailureAccounted ==
  ASSUME Accounted, NEW h \in Runs, Crash(h) \/ LoseConnection(h)
  PROVE  Accounted'
<1> USE LedgerAssumption DEF Accounted
<1>1. TypeOK'
  <2>1. run' \in [Runs -> Run]
    BY RunType DEF Crash, LoseConnection
  <2>2. mishaps' \in 0..MaxMishaps
    BY DEF Crash, LoseConnection, TypeOK
  <2>3. QED
    BY <2>1, <2>2 DEF TypeOK, Crash, LoseConnection
<1>2. RunsKnowTheirUpdate'
  BY DEF TypeOK, Run, Crash, LoseConnection, NoRun, RunsKnowTheirUpdate
<1>3. ExpiriesAreMishaps' /\ CompletedWasHandled'
  BY DEF Crash, LoseConnection, ExpiriesAreMishaps, CompletedWasHandled, TypeOK
<1>4. \A v \in Updates : Holding(v)' \subseteq Holding(v)
  BY DEF Holding, TypeOK, Run, NoRun, Crash, LoseConnection
<1>5. ledger' = ledger /\ expired' = expired
  BY DEF Crash, LoseConnection
<1>6. QED
  BY <1>1, <1>2, <1>3, <1>4, <1>5, FewerHolders

\* A claim that goes stale counts as expired instead of as live; a row that is
\* deleted was not a claim.
LEMMA LedgerAgesAccounted ==
  ASSUME Accounted, NEW u \in Updates, ClaimExpires(u) \/ Cleanup(u)
  PROVE  Accounted'
<1> USE LedgerAssumption DEF Accounted
<1>1. TypeOK'
  <2>1. CASE ClaimExpires(u)
    <3>1. expired[u] + 1 \in 0..MaxMishaps
      BY <2>1 DEF TypeOK, ClaimExpires, ExpiriesAreMishaps
    <3>2. ledger' \in [Updates -> LedgerRow]
      BY <2>1 DEF TypeOK, ClaimExpires, LedgerRow
    <3>3. mishaps' \in 0..MaxMishaps
      BY <2>1 DEF TypeOK, ClaimExpires
    <3>4. QED
      BY <2>1, <3>1, <3>2, <3>3 DEF TypeOK, ClaimExpires
  <2>2. CASE Cleanup(u)
    BY <2>2 DEF TypeOK, Cleanup, NoRow, LedgerRow
  <2>3. QED
    BY <2>1, <2>2
<1>2. RunsKnowTheirUpdate'
  BY DEF ClaimExpires, Cleanup, RunsKnowTheirUpdate
<1>3. ExpiriesAreMishaps' /\ CompletedWasHandled'
  <2>1. ExpiriesAreMishaps'
    BY DEF ClaimExpires, Cleanup, ExpiriesAreMishaps, TypeOK
  <2>2. CompletedWasHandled'
    BY DEF ClaimExpires, Cleanup, CompletedWasHandled, TypeOK, NoRow, LedgerRow
  <2>3. QED
    BY <2>1, <2>2
<1>4. HoldersCounted'
  <2> SUFFICES ASSUME NEW v \in Updates
               PROVE  Cardinality(Holding(v)') <= expired'[v] + LiveClaim(v)'
    BY DEF HoldersCounted
  <2>1. Holding(v)' = Holding(v)
    BY DEF Holding, ClaimExpires, Cleanup
  <2>2. expired'[v] + LiveClaim(v)' = expired[v] + LiveClaim(v)
    BY DEF ClaimExpires, Cleanup, LiveClaim, TypeOK, LedgerRow, NoRow
  <2>3. QED
    BY <2>1, <2>2 DEF HoldersCounted
<1>5. QED
  BY <1>1, <1>2, <1>3, <1>4

\* The account is inductive.
LEMMA StepAccounted == Accounted /\ [Next]_vars => Accounted'
<1> SUFFICES ASSUME Accounted, [Next]_vars PROVE Accounted'
  OBVIOUS
<1>1. CASE ChangeService \/ UNCHANGED vars
  <2>1. UNCHANGED <<telegram, ledger, run, handled, expired, mishaps>>
        /\ active' \in BOOLEAN
    BY <1>1 DEF ChangeService, vars, Accounted, TypeOK
  <2>2. QED
    BY <2>1 DEF Accounted, TypeOK, RunsKnowTheirUpdate, ExpiriesAreMishaps,
       CompletedWasHandled, HoldersCounted, Holding, LiveClaim
<1>2. CASE \E h \in Runs : (\E u \in Updates : Deliver(u, h)) \/ Admit(h)
  BY <1>2, ArrivalAccounted
<1>3. CASE \E h \in Runs : Claim(h)
  BY <1>3, ClaimAccounted
<1>4. CASE \E h \in Runs, success \in BOOLEAN : Handle(h, success)
  BY <1>4, HandleAccounted
<1>5. CASE \E h \in Runs : Complete(h) \/ Fail(h)
  BY <1>5, RecordAccounted
<1>6. CASE \E h \in Runs : Crash(h) \/ LoseConnection(h)
  BY <1>6, FailureAccounted
<1>7. CASE \E u \in Updates : ClaimExpires(u) \/ Cleanup(u)
  BY <1>7, LedgerAgesAccounted
<1>8. QED
  BY <1>1, <1>2, <1>3, <1>4, <1>5, <1>6, <1>7 DEF Next

\* The account holds in every reachable state.
LEMMA AlwaysAccounted == Spec => []Accounted
BY InitAccounted, StepAccounted, PTL DEF Spec

-----------------------------------------------------------------------------
(* The theorems *)

\* The ledger, the runs and the counts keep their types.
THEOREM LedgerTypeCorrect == Spec => []TypeOK
<1>1. Accounted => TypeOK
  BY DEF Accounted
<1>2. QED
  BY <1>1, AlwaysAccounted, PTL

\* Two runs handle one update at a time only if a claim went stale: claim and
\* the unfenced complete and fail of idempotency.py, for any number of calls.
THEOREM RunsBounded == Spec => []RunsBoundedByStaleClaims
<1>1. Accounted => RunsBoundedByStaleClaims
  <2> SUFFICES ASSUME Accounted, NEW u \in Updates
               PROVE  Cardinality(Holding(u)) <= 1 + expired[u]
    BY DEF RunsBoundedByStaleClaims
  <2>1. /\ Cardinality(Holding(u)) <= expired[u] + LiveClaim(u)
        /\ Cardinality(Holding(u)) \in Nat
        /\ expired[u] \in Nat /\ LiveClaim(u) \in {0, 1}
    BY HoldingFinite, LedgerAssumption
       DEF Accounted, HoldersCounted, TypeOK, LiveClaim
  <2>2. QED
    BY <2>1
<1>2. QED
  BY <1>1, AlwaysAccounted, PTL

\* What the ledger calls completed, some handler has finished.
THEOREM CompletedMeansHandled == Spec => []CompletedWasHandled
<1>1. Accounted => CompletedWasHandled
  BY DEF Accounted
<1>2. QED
  BY <1>1, AlwaysAccounted, PTL

\* No late record, takeover or crash reopens a completed update.
THEOREM CompletedIsFinal == Spec => CompletedStaysCompleted
<1>1. ASSUME Accounted, [Next]_vars, NEW u \in Updates,
             ledger[u].status = "completed", ledger'[u].status # "completed"
      PROVE  ledger'[u] = NoRow /\ telegram[u] # "pending"
  <2>1. CASE Cleanup(u)
    BY <1>1, <2>1 DEF Cleanup, Accounted, TypeOK
  <2>2. CASE \E h \in Runs : Claim(h) \/ Complete(h) \/ Fail(h)
    BY <1>1, <2>2
       DEF Claim, Claimable, Complete, Fail, Recorded, Records, Accounted, TypeOK
  <2>3. CASE \E v \in Updates : ClaimExpires(v) \/ (v # u /\ Cleanup(v))
    BY <1>1, <2>3 DEF ClaimExpires, Cleanup, Accounted, TypeOK
  <2>4. CASE ledger' = ledger
    BY <1>1, <2>4
  <2>5. QED
    BY <1>1, <2>1, <2>2, <2>3, <2>4
       DEF Next, vars, ChangeService, Deliver, Admit, Handle, Crash, LoseConnection
<1>2. Accounted /\ [Next]_vars =>
        [\A u \in Updates :
           ledger[u].status = "completed" /\ ledger'[u].status # "completed" =>
             /\ ledger'[u] = NoRow
             /\ telegram[u] # "pending"]_vars
  BY <1>1
<1>3. QED
  BY <1>2, AlwaysAccounted, PTL DEF Spec, CompletedStaysCompleted

\* Telegram is told that an update is done only when it was handled or is in the
\* hands of a claim that is not stale: the duplicate answers of the webhook.
THEOREM AcknowledgedWithReason == Spec => AcknowledgedForAReason
<1>1. ASSUME Accounted, [Next]_vars, NEW u \in Updates,
             telegram'[u] = "acknowledged", telegram[u] # "acknowledged"
      PROVE  u \in handled \/ (ledger[u].status = "processing" /\ ~ledger[u].stale)
  <2>1. CASE \E h \in Runs : Claim(h)
    <3>1. PICK h \in Runs : Claim(h)
      BY <2>1
    <3>2. run[h].update = u /\ ~Claimable(u)
      BY <1>1, <3>1 DEF Claim, Told, Accounted, TypeOK
    <3>3. QED
      BY <1>1, <3>2 DEF Claimable, Accounted, TypeOK, LedgerRow, CompletedWasHandled
  <2>2. CASE \E h \in Runs : Complete(h)
    BY <1>1, <2>2 DEF Complete, Told, Accounted, TypeOK, RunsKnowTheirUpdate
  <2>3. CASE \E h \in Runs : (\E v \in Updates : Deliver(v, h)) \/ Admit(h)
    BY <1>1, <2>3 DEF Deliver, Admit, Told, Accounted, TypeOK
  <2>4. CASE telegram' = telegram
    BY <1>1, <2>4
  <2>5. QED
    BY <1>1, <2>1, <2>2, <2>3, <2>4
       DEF Next, vars, ChangeService, Handle, Fail, Crash, LoseConnection,
           ClaimExpires, Cleanup
<1>2. Accounted /\ [Next]_vars =>
        [\A u \in Updates :
           telegram'[u] = "acknowledged" /\ telegram[u] # "acknowledged" =>
             \/ u \in handled
             \/ ledger[u].status = "processing" /\ ~ledger[u].stale]_vars
  BY <1>1
<1>3. QED
  BY <1>2, AlwaysAccounted, PTL DEF Spec, AcknowledgedForAReason
=============================================================================
