---------------------------- MODULE TelegramUpdates ----------------------------
(***************************************************************************)
(* The ledger of Telegram updates and the runs that process them, webhook  *)
(* mode.  Telegram delivers an update until it gets a 2xx answer; a run    *)
(* claims the update in the ledger, handles it in transactions of its own, *)
(* and records the result in the ledger.  The claim, the handler and the   *)
(* record are separate transactions, and a run may outlive its connection: *)
(* the request deadline answers 504 while the run goes on, the network     *)
(* fails.  The age of a claim is the flag stale, which time may raise.     *)
(***************************************************************************)
EXTENDS Integers, FiniteSets

CONSTANTS
  Updates,         \* updates Telegram may send
  Runs,            \* webhook calls in flight at a time
  MaxMishaps,      \* bound: crashes, lost connections and claims outlived
  Nil

ASSUME LedgerAssumption ==
  Nil \notin Updates /\ IsFiniteSet(Runs) /\ MaxMishaps \in Nat

VARIABLES
  active,          \* the tenant is active and entitled to Telegram
  telegram,        \* what Telegram knows of an update
  ledger,          \* telegram_updates: status, and whether the claim is stale
  run,             \* webhook calls in flight
  handled,         \* updates some handler has finished without an exception
  expired,         \* expired[u]: claims of u that became stale
  mishaps

vars == <<active, telegram, ledger, run, handled, expired, mishaps>>

NoRow == [status |-> "none", stale |-> FALSE]
NoRun == [step |-> "idle", update |-> Nil, open |-> FALSE]

LedgerRow == [status : {"none", "processing", "completed", "failed"},
              stale : BOOLEAN]

\* open: Telegram still waits for the answer of this call.
Run == [step : {"idle", "received", "admitted", "handling", "handled", "raised"},
        update : Updates \cup {Nil}, open : BOOLEAN]

TypeOK ==
  /\ active \in BOOLEAN
  /\ telegram \in [Updates -> {"unsent", "pending", "acknowledged", "refused"}]
  /\ ledger \in [Updates -> LedgerRow]
  /\ run \in [Runs -> Run]
  /\ handled \subseteq Updates
  /\ expired \in [Updates -> 0..MaxMishaps]
  /\ mishaps \in 0..MaxMishaps

Init ==
  /\ active = TRUE
  /\ telegram = [u \in Updates |-> "unsent"]
  /\ ledger = [u \in Updates |-> NoRow]
  /\ run = [h \in Runs |-> NoRun]
  /\ handled = {}
  /\ expired = [u \in Updates |-> 0]
  /\ mishaps = 0

-----------------------------------------------------------------------------
(* Telegram *)

\* The tenant's administrators suspend or activate it.
ChangeService ==
  /\ active' = ~active
  /\ UNCHANGED <<telegram, ledger, run, handled, expired, mishaps>>

\* Telegram calls the webhook, again and again until it is acknowledged, but
\* waits for the answer of its last call.
Deliver(u, h) ==
  /\ telegram[u] \in {"unsent", "pending"}
  /\ run[h] = NoRun
  /\ \A g \in Runs : run[g].update = u => ~run[g].open
  /\ telegram' = [telegram EXCEPT ![u] = "pending"]
  /\ run' = [run EXCEPT ![h] = [step |-> "received", update |-> u, open |-> TRUE]]
  /\ UNCHANGED <<active, ledger, handled, expired, mishaps>>

\* What Telegram knows of u after run h has answered it: 200 acknowledges, a
\* 503 or an answer that is not heard does not.
Told(h, answer) ==
  IF run[h].open THEN [telegram EXCEPT ![run[h].update] = answer] ELSE telegram

-----------------------------------------------------------------------------
(* The webhook call *)

\* TenantAccessMiddleware refuses with a 200 when the tenant is unavailable.
Admit(h) ==
  /\ run[h].step = "received"
  /\ IF active
       THEN /\ run' = [run EXCEPT ![h].step = "admitted"]
            /\ UNCHANGED telegram
       ELSE /\ run' = [run EXCEPT ![h] = NoRun]
            /\ telegram' = Told(h, "refused")
  /\ UNCHANGED <<active, ledger, handled, expired, mishaps>>

ClaimableUnlessCompleted(u) ==                               \* faulty variant
  ledger[u].status # "completed"

ClaimableOnceOnly(u) == ledger[u].status \in {"none", "failed"}   \* faulty variant

\* FIRST or RETRY: an unknown or failed update, or a stale claim.
Claimable(u) ==
  \/ ledger[u].status \in {"none", "failed"}
  \/ ledger[u].status = "processing" /\ ledger[u].stale

\* claim.  A completed update and one in progress are answered with 200.
Claim(h) ==
  LET u == run[h].update
  IN /\ run[h].step = "admitted"
     /\ IF Claimable(u)
          THEN /\ ledger' = [ledger EXCEPT ![u] =
                     [status |-> "processing", stale |-> FALSE]]
               /\ run' = [run EXCEPT ![h].step = "handling"]
               /\ UNCHANGED telegram
          ELSE /\ run' = [run EXCEPT ![h] = NoRun]
               /\ telegram' = Told(h, "acknowledged")
               /\ UNCHANGED ledger
     /\ UNCHANGED <<active, handled, expired, mishaps>>

OutcomeSwallowed(success) == "handled"                       \* faulty variant

\* Whether complete or fail records the handler's result.
Outcome(success) == IF success THEN "handled" ELSE "raised"

\* The handler, with the identity resolved before it, returns or raises.  An
\* update of a type nobody handles is one that returns.
Handle(h, success) ==
  /\ run[h].step = "handling"
  /\ run' = [run EXCEPT ![h].step = Outcome(success)]
  /\ handled' = IF success THEN handled \cup {run[h].update} ELSE handled
  /\ UNCHANGED <<active, telegram, ledger, expired, mishaps>>

RecordsAnyRow(u) == ledger[u].status # "none"                \* faulty variant

\* complete and fail write only to a claim in progress, whoever holds it.
Records(u) == ledger[u].status = "processing"

RecordedAsOutcome(u, status) ==                              \* faulty variant
  [ledger EXCEPT ![u].status = IF status = "failed" THEN "raised" ELSE status]

Recorded(u, status) ==
  IF Records(u) THEN [ledger EXCEPT ![u] = [status |-> status, stale |-> FALSE]]
                ELSE ledger

\* complete, and the 200.
Complete(h) ==
  /\ run[h].step = "handled"
  /\ ledger' = Recorded(run[h].update, "completed")
  /\ telegram' = Told(h, "acknowledged")
  /\ run' = [run EXCEPT ![h] = NoRun]
  /\ UNCHANGED <<active, handled, expired, mishaps>>

\* fail, and the 503.
Fail(h) ==
  /\ run[h].step = "raised"
  /\ ledger' = Recorded(run[h].update, "failed")
  /\ run' = [run EXCEPT ![h] = NoRun]
  /\ UNCHANGED <<active, telegram, handled, expired, mishaps>>

-----------------------------------------------------------------------------
(* Time and failures *)

\* The process dies, the call is cancelled, or the ledger can not be reached
\* (a 503): the call ends where it is.
Crash(h) ==
  /\ run[h] # NoRun
  /\ mishaps < MaxMishaps
  /\ mishaps' = mishaps + 1
  /\ run' = [run EXCEPT ![h] = NoRun]
  /\ UNCHANGED <<active, telegram, ledger, handled, expired>>

\* Telegram stops waiting, or gets the 504 of the request deadline; the call
\* goes on.
LoseConnection(h) ==
  /\ run[h].open
  /\ mishaps < MaxMishaps
  /\ mishaps' = mishaps + 1
  /\ run' = [run EXCEPT ![h].open = FALSE]
  /\ UNCHANGED <<active, telegram, ledger, handled, expired>>

\* processing_stale_seconds have passed since the claim, its run dead or not.
ClaimExpires(u) ==
  /\ ledger[u].status = "processing" /\ ~ledger[u].stale
  /\ mishaps < MaxMishaps
  /\ mishaps' = mishaps + 1
  /\ ledger' = [ledger EXCEPT ![u].stale = TRUE]
  /\ expired' = [expired EXCEPT ![u] = @ + 1]
  /\ UNCHANGED <<active, telegram, run, handled>>

\* Retention deletes a finished row a day old or older, when Telegram, which
\* keeps an update for a day, has long settled it.
Cleanup(u) ==
  /\ ledger[u].status \in {"completed", "failed"}
  /\ telegram[u] \in {"acknowledged", "refused"}
  /\ \A h \in Runs : run[h].update # u
  /\ ledger' = [ledger EXCEPT ![u] = NoRow]
  /\ UNCHANGED <<active, telegram, run, handled, expired, mishaps>>

-----------------------------------------------------------------------------
Next ==
  \/ ChangeService
  \/ \E u \in Updates, h \in Runs : Deliver(u, h)
  \/ \E h \in Runs : \/ Admit(h) \/ Claim(h)
                     \/ \E success \in BOOLEAN : Handle(h, success)
                     \/ Complete(h) \/ Fail(h)
                     \/ Crash(h) \/ LoseConnection(h)
  \/ \E u \in Updates : ClaimExpires(u) \/ Cleanup(u)

Spec == Init /\ [][Next]_vars

-----------------------------------------------------------------------------
(* Properties *)

\* Runs that have claimed u and have not recorded its outcome.
Holding(u) == {h \in Runs : /\ run[h].update = u
                            /\ run[h].step \in {"handling", "handled", "raised"}}

\* Two runs handle one update at a time only if a claim went stale under its
\* run.  Nothing fences complete and fail: a stale run may fail the claim of
\* its successor, which lets a third run in, and still the runs at a time
\* exceed one by no more than the claims that went stale.
RunsBoundedByStaleClaims ==
  \A u \in Updates : Cardinality(Holding(u)) <= 1 + expired[u]

\* A completed update was handled: no exception, takeover or late record marks
\* as completed what no handler has finished.
CompletedWasHandled ==
  \A u \in Updates : ledger[u].status = "completed" => u \in handled

\* Only retention forgets a completed update.  The late failure of a stale run
\* does not make Telegram's next delivery repeat it.
CompletedStaysCompleted ==
  [][\A u \in Updates :
       ledger[u].status = "completed" /\ ledger'[u].status # "completed" =>
         /\ ledger'[u] = NoRow
         /\ telegram[u] # "pending"]_vars

\* Telegram stops redelivering an update only when a handler has finished it,
\* the tenant was unavailable, or a run that still may finish it has claimed
\* it, whatever becomes of that run.
AcknowledgedForAReason ==
  [][\A u \in Updates :
       telegram'[u] = "acknowledged" /\ telegram[u] # "acknowledged" =>
         \/ u \in handled
         \/ ledger[u].status = "processing" /\ ~ledger[u].stale]_vars
=============================================================================
