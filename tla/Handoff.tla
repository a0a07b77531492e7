-------------------------------- MODULE Handoff --------------------------------
(***************************************************************************)
(* The handoff cases of one conversation: how a customer's request for a   *)
(* person creates or finds a case, and what staff does with cases.  The    *)
(* customer's calls may be delivered more than once and run at a time.     *)
(* Qualification adds the second way in which cases come about.            *)
(***************************************************************************)
EXTENDS Integers

CONSTANTS
  Cases,           \* rows of handoff_cases, used once each
  Calls,           \* updates that ask for a person, with their update keys
  Sessions,        \* qualification sessions, whose completion may queue a case
  Asks,            \* runs of the human-help route in flight
  Nil

ASSUME HandoffAssumption ==
  /\ Nil \notin Calls \cup Sessions
  /\ Calls \cap Sessions = {}

VARIABLES
  status,          \* conversations.status
  cases,           \* handoff_cases, with the history flag reopened
  ask              \* calls in flight

handoffVars == <<status, cases, ask>>

OpenStatuses == {"queued", "claimed", "reopened"}

Case == [status : OpenStatuses \cup {"unused", "resolved"},
         key : Calls \cup Sessions \cup {Nil},       \* idempotency_key
         reopened : BOOLEAN]

Ask == [step : {"idle", "request", "create"}, call : Calls \cup {Nil}]

NoCase == [status |-> "unused", key |-> Nil, reopened |-> FALSE]
NoAsk == [step |-> "idle", call |-> Nil]

HandoffTypeOK ==
  /\ status \in {"active_bot", "handoff_queued", "human_active"}
  /\ cases \in [Cases -> Case]
  /\ ask \in [Asks -> Ask]

HandoffInit ==
  /\ status = "active_bot"
  /\ cases = [c \in Cases |-> NoCase]
  /\ ask = [a \in Asks |-> NoAsk]

-----------------------------------------------------------------------------
(* The customer *)

Open == {c \in Cases : cases[c].status \in OpenStatuses}

\* Whether the bot keeps silent: active finds an open case.
Paused == Open # {}

\* human_help.  An open case is shown, otherwise a case is requested.
AskHuman(a, call) ==
  /\ ask[a] = NoAsk
  /\ ~Paused
  /\ ask' = [ask EXCEPT ![a] = [step |-> "request", call |-> call]]
  /\ UNCHANGED <<status, cases>>

LockFreeAlways == TRUE                                       \* faulty variant

\* pg_advisory_xact_lock on the conversation.
LockFree == \A b \in Asks : ask[b].step # "create"

KnownOpen(call) == \E c \in Open : cases[c].key = call         \* faulty variant

\* A case of any status has the key of this update.
Known(call) == \E c \in Cases : cases[c].key = call

\* create_or_get up to its last read: the case of this update or any open case
\* is returned.
LookForCase(a) ==
  /\ ask[a].step = "request"
  /\ LockFree
  /\ ask' = IF Paused \/ Known(ask[a].call)
              THEN [ask EXCEPT ![a] = NoAsk]
              ELSE [ask EXCEPT ![a].step = "create"]
  /\ UNCHANGED <<status, cases>>

\* A new row, with its event, that passes the unique key.
Queue(c, key) ==
  /\ cases[c] = NoCase
  /\ \A d \in Cases : cases[d].key # key
  /\ cases' = [cases EXCEPT ![c] = [NoCase EXCEPT !.status = "queued", !.key = key]]
  /\ status' = "handoff_queued"

\* The rest of create_or_get.
CreateCase(a, c) ==
  /\ ask[a].step = "create"
  /\ Queue(c, ask[a].call)
  /\ ask' = [ask EXCEPT ![a] = NoAsk]

\* The transaction fails, or the process dies.
AskFails(a) ==
  /\ ask[a] # NoAsk
  /\ ask' = [ask EXCEPT ![a] = NoAsk]
  /\ UNCHANGED <<status, cases>>

-----------------------------------------------------------------------------
(* Staff *)

\* transition, for each of its actions: the statuses it accepts, and the status
\* it gives the case and the conversation.
Transition(c, from, to, conversation) ==
  /\ cases[c].status \in from
  /\ cases' = [cases EXCEPT ![c].status = to,
                            ![c].reopened = @ \/ to = "reopened"]
  /\ status' = conversation
  /\ UNCHANGED ask

ClaimCase(c) == Transition(c, {"queued", "reopened"}, "claimed", "human_active")
ResolveCase(c) == Transition(c, {"claimed"}, "resolved", status)
ReopenCase(c) == Transition(c, {"resolved"}, "reopened", "handoff_queued")
ReturnToBot(c) == Transition(c, {"resolved"}, "resolved", "active_bot")

-----------------------------------------------------------------------------
HandoffNext ==
  \/ \E a \in Asks : \/ \E call \in Calls : AskHuman(a, call)
                     \/ LookForCase(a)
                     \/ \E c \in Cases : CreateCase(a, c)
                     \/ AskFails(a)
  \/ \E c \in Cases : ClaimCase(c) \/ ResolveCase(c) \/ ReopenCase(c) \/ ReturnToBot(c)

-----------------------------------------------------------------------------
(* Properties *)

\* However often a customer asks, and however the calls are repeated and
\* interleaved, they queue at most one case at a time; only a reopened one and
\* one that a qualification queued may stand beside it.
OneRequestedCase ==
  \A c, d \in Open :
    /\ cases[c].key \in Calls /\ ~cases[c].reopened
    /\ cases[d].key \in Calls /\ ~cases[d].reopened
    => c = d

\* The lock and the reads under it leave nothing for the unique key to refuse: a
\* call that is delivered again when its case was resolved long ago finds it.
KeyIsNew ==
  \A a \in Asks : ask[a].step = "create" =>
    \A c \in Cases : cases[c].key # ask[a].call
================================================================================
