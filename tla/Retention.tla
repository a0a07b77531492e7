------------------------------- MODULE Retention -------------------------------
(***************************************************************************)
(* Retention: every tenant's owner sets how long records are kept after    *)
(* they have ended, and may opt in to a daily task that erases them.  The  *)
(* task reads the policies of its batch in one transaction and executes    *)
(* them one after another, each in a transaction of its own.  An owner may *)
(* also execute the policy of the tenant: the version of the policy must   *)
(* then be the one that the request had read, so that the request is as    *)
(* one step, and a repeated key none.  The worker may die between steps.   *)
(***************************************************************************)
EXTENDS Integers, Sequences, FiniteSets

CONSTANTS
  Tenants,         \* numbered in the order of their ids
  Records,         \* records of a tenant
  Periods,         \* days that a policy may ask for
  InitialPeriod,   \* of the first versions
  Workers,         \* task slots of the worker
  BatchSize,       \* policies that one task reads
  MaxDay,          \* bound on the days
  MaxVersion       \* bound on retention_policies.version

ASSUME RetentionAssumption ==
  /\ Tenants \subseteq Nat
  /\ Periods \subseteq Nat /\ InitialPeriod \in Periods
  /\ BatchSize \in Nat \ {0} /\ MaxDay \in Nat /\ MaxVersion \in Nat \ {0}

VARIABLES
  day,             \* the date
  policies,        \* retention_policies
  active,          \* tenants whose status is active
  records,         \* their state, and the day on which they ended (0 before)
  actions,         \* the tasks' keys in privacy_actions, by tenant
  run              \* executions in flight

retentionVars == <<day, policies, active, records, actions, run>>

Policy == [version : 1..MaxVersion, period : Periods, automatic : BOOLEAN]
Record == [status : {"live", "ended", "erased"}, day : 0..MaxDay]
Due == [tenant : Tenants, version : 1..MaxVersion, period : Periods]

\* Executions are keyed by the date and the version of the policy.
Keys == (0..MaxDay) \X (1..MaxVersion)

Run == [step : {"idle", "batch", "execute"}, at : 0..MaxDay, queue : Seq(Due)]
NoRun == [step |-> "idle", at |-> 0, queue |-> <<>>]

RetentionTypeOK ==
  /\ day \in 0..MaxDay
  /\ policies \in [Tenants -> Policy]
  /\ active \subseteq Tenants
  /\ records \in [Tenants -> [Records -> Record]]
  /\ actions \in [Tenants -> SUBSET Keys]
  /\ run \in [Workers -> Run]
  /\ \A w \in Workers : run[w].step = "idle" <=> run[w].queue = <<>>

RetentionInit ==
  /\ day = 0
  /\ policies \in [Tenants -> [version : {1}, period : {InitialPeriod}, automatic : BOOLEAN]]
  /\ active = Tenants
  /\ records = [t \in Tenants |-> [i \in Records |-> [status |-> "live", day |-> 0]]]
  /\ actions = [t \in Tenants |-> {}]
  /\ run = [w \in Workers |-> NoRun]

-----------------------------------------------------------------------------
(* Tenants *)

Tick == /\ day < MaxDay
        /\ day' = day + 1
        /\ UNCHANGED <<policies, active, records, actions, run>>

\* A conversation, a workflow or a case ends.
EndRecord(t, i) ==
  /\ records[t][i].status = "live"
  /\ records' = [records EXCEPT ![t][i] = [status |-> "ended", day |-> day]]
  /\ UNCHANGED <<day, policies, active, actions, run>>

\* transition_tenant.
ChangeService(t) ==
  /\ active' = IF t \in active THEN active \ {t} ELSE active \cup {t}
  /\ UNCHANGED <<day, policies, records, actions, run>>

\* The policy an execution is about, and its key.
Current(w) == Head(run[w].queue)
KeyUndated(w) == <<0, Current(w).version>>                   \* faulty variant
KeyOf(w) == <<run[w].at, Current(w).version>>

Executing(t) == {w \in Workers : run[w].step = "execute" /\ Current(w).tenant = t}

\* update_policy, and set_entitlement for automatic retention: whoever has read
\* the version that is stored writes the next one.
UpdatePolicy(t, period, automatic) ==
  /\ Executing(t) = {}
  /\ policies[t].version < MaxVersion
  /\ policies' = [policies EXCEPT ![t] = [version |-> @.version + 1, period |-> period,
                                          automatic |-> automatic]]
  /\ UNCHANGED <<day, active, records, actions, run>>

-----------------------------------------------------------------------------
(* Executions *)

Enter(w, fields) ==
  /\ run' = [run EXCEPT ![w] = fields]
  /\ UNCHANGED <<day, policies, active>>

Read(t) == [tenant |-> t, version |-> policies[t].version, period |-> policies[t].period]

Scheduled == {t \in active : policies[t].automatic}

\* At most BatchSize of the scheduled tenants, the first ones, in order of id.
IsBatch(batch) ==
  /\ \A m, n \in DOMAIN batch : m < n => batch[m] < batch[n]
  /\ \A t \in Scheduled \ {batch[n] : n \in DOMAIN batch} :
       Len(batch) = BatchSize /\ batch[BatchSize] < t

\* The first query of run_scheduled_retention, by a task started today.
ReadDue(w) ==
  /\ run[w] = NoRun
  /\ \E size \in 1..BatchSize : \E batch \in [1..size -> Scheduled] :
       /\ IsBatch(batch)
       /\ Enter(w, [step |-> "batch", at |-> day,
                    queue |-> [n \in 1..size |-> Read(batch[n])]])
  /\ UNCHANGED <<records, actions>>

\* The next policy of the batch.
Advanced(w) == IF Len(run[w].queue) = 1 THEN NoRun
               ELSE [run[w] EXCEPT !.step = "batch", !.queue = Tail(@)]

\* _replay, with the lock on the key.
Executed(w) == KeyOf(w) \in actions[Current(w).tenant]

Replay(w) ==
  /\ run[w].step = "batch" /\ Executed(w)
  /\ Enter(w, Advanced(w))
  /\ UNCHANGED <<records, actions>>

UnchangedAlways(w) == TRUE                                   \* faulty variant
Unchanged(w) == policies[Current(w).tenant].version = Current(w).version

\* run_retention up to its lock on the policy, of the version that was read.
LockPolicy(w) ==
  /\ run[w].step = "batch" /\ ~Executed(w)
  /\ Executing(Current(w).tenant) = {}
  /\ Unchanged(w)
  /\ Enter(w, [run[w] EXCEPT !.step = "execute"])
  /\ UNCHANGED <<records, actions>>

\* The policy has changed: what is left of the batch is given up.
Conflict(w) ==
  /\ run[w].step = "batch" /\ ~Executed(w)
  /\ ~Unchanged(w)
  /\ Enter(w, NoRun)
  /\ UNCHANGED <<records, actions>>

\* A statement fails, or the process dies.
Fail(w) ==
  /\ run[w].step # "idle"
  /\ Enter(w, NoRun)
  /\ UNCHANGED <<records, actions>>

Expired(record, at, period) == record.status = "ended" /\ record.day < at - period

\* _apply_retention.
RecordsAfter(t, at, period) ==
  [i \in Records |-> IF Expired(records[t][i], at, period)
                       THEN [status |-> "erased", day |-> 0] ELSE records[t][i]]

Execute(w, t) ==
  /\ run[w].step = "execute" /\ Current(w).tenant = t
  /\ records' = [records EXCEPT ![t] = RecordsAfter(t, run[w].at, Current(w).period)]
  /\ actions' = [actions EXCEPT ![t] = @ \cup {KeyOf(w)}]
  /\ Enter(w, Advanced(w))

\* execute_retention, by an owner.
ExecuteNow(t) ==
  /\ Executing(t) = {}
  /\ records' = [records EXCEPT ![t] = RecordsAfter(t, day, policies[t].period)]
  /\ UNCHANGED <<day, policies, active, actions, run>>

-----------------------------------------------------------------------------
RetentionNext ==
  \/ Tick
  \/ \E t \in Tenants :
       \/ ChangeService(t)
       \/ \E i \in Records : EndRecord(t, i)
       \/ \E period \in Periods, automatic \in BOOLEAN : UpdatePolicy(t, period, automatic)
  \/ \E t \in Tenants : ExecuteNow(t)
  \/ \E w \in Workers :
       \/ ReadDue(w) \/ Replay(w) \/ LockPolicy(w) \/ Conflict(w) \/ Fail(w)
       \/ \E t \in Tenants : Execute(w, t)

RetentionSpec == RetentionInit /\ [][RetentionNext]_retentionVars

\* Beat starts a task every day, and a task that a dying worker had not finished
\* is delivered again, so no step of a batch fails for ever.
Fairness ==
  \A w \in Workers :
    /\ WF_retentionVars(ReadDue(w)) /\ WF_retentionVars(Conflict(w))
    /\ SF_retentionVars(Replay(w)) /\ SF_retentionVars(LockPolicy(w))
    /\ SF_retentionVars(\E t \in Tenants : Execute(w, t))

FairSpec == RetentionSpec /\ Fairness

-----------------------------------------------------------------------------
(* Properties *)

\* What is erased had ended longer ago than the policy in force asks for: an
\* execution never applies a period that its owner has changed since it was read.
PeriodInForce ==
  [][\A t \in Tenants, i \in Records :
       records'[t][i].status = "erased" /\ records[t][i].status # "erased"
       => Expired(records[t][i], day, policies[t].period)]_retentionVars

\* Whatever has expired by the policy of a tenant that has opted in is erased,
\* unless the policy, the tenant or the record changes: failures of a batch, and
\* conflicts with other tenants' owners, never end it.
RecordsExpire ==
  \A t \in Tenants, i \in Records :
    LET due == t \in Scheduled /\ Expired(records[t][i], day, policies[t].period)
    IN  due ~> ~due
================================================================================
