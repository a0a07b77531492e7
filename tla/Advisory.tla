-------------------------------- MODULE Advisory --------------------------------
(***************************************************************************)
(* A customer's free text: the AI runtime asks a provider for a route,     *)
(* with a timeout and a bounded number of retries, keeps a record of the   *)
(* operation, and falls back to a person; the knowledge route searches the *)
(* knowledge base in two statements and answers with what it has found.    *)
(* The handler may be cancelled wherever it waits.                         *)
(***************************************************************************)
EXTENDS Knowledge

CONSTANTS
  Texts,           \* messages, handled once each
  MaxRetries       \* ModelPolicy.max_retries

ASSUME AdvisoryAssumption == MaxRetries \in Nat

VARIABLES
  exec,            \* the execution of each text, up to its page
  records          \* statuses in ai_operations, by text

advisoryVars == <<exec, records>>
vars == <<knowledgeVars, advisoryVars>>

Steps == {"new", "call", "sleep", "record", "recorded", "embed", "lexical", "vector", "done"}
Statuses == {"none", "success", "fallback", "cancelled"}

\* guarded: whether the record is written under the handler of cancellations;
\* evidence: whether the words of the query were found in a chunk.
Execution == [step : Steps, attempts : 0..(MaxRetries + 1), status : Statuses,
              guarded : BOOLEAN, model : Models, evidence : BOOLEAN,
              outcome : {"none", "page", "answer", "human", "failed", "cancelled"}]

NewExecution == [step |-> "new", attempts |-> 0, status |-> "none", guarded |-> FALSE,
                 model |-> 1, evidence |-> FALSE, outcome |-> "none"]

TypeOK ==
  /\ KnowledgeTypeOK
  /\ exec \in [Texts -> Execution]
  /\ records \in [Texts -> SUBSET (Statuses \ {"none"})]
  /\ \A t \in Texts : exec[t].outcome # "none" <=> exec[t].step = "done"

Init == /\ KnowledgeInit
        /\ exec = [t \in Texts |-> NewExecution]
        /\ records = [t \in Texts |-> {}]

-----------------------------------------------------------------------------
(* AIRuntime.execute *)

Step(t, fields) ==
  /\ exec' = [exec EXCEPT ![t] = fields]
  /\ UNCHANGED knowledgeVars

Recording(t, status, guarded) ==
  [exec[t] EXCEPT !.step = "record", !.attempts = 0, !.status = status, !.guarded = guarded]

\* The first call of the provider.
Call(t) ==
  /\ exec[t].step = "new"
  /\ Step(t, [exec[t] EXCEPT !.step = "call", !.attempts = 1])
  /\ UNCHANGED records

\* The runtime is disabled, or it has no usable policy, prompt or provider.
CallNobody(t) ==
  /\ exec[t].step = "new"
  /\ Step(t, Recording(t, "fallback", FALSE))
  /\ UNCHANGED records

\* A response that passes the schema, the validator and the threshold, or all
\* but the threshold.
Respond(t, status) ==
  /\ exec[t].step = "call"
  /\ Step(t, Recording(t, status, TRUE))
  /\ UNCHANGED records

\* A refusal, a response that is invalid, or an unexpected error.
Reject(t) ==
  /\ exec[t].step = "call"
  /\ Step(t, Recording(t, "fallback", FALSE))
  /\ UNCHANGED records

RetriesLeft(t) == exec[t].attempts <= MaxRetries

WaitForEver(t) == FALSE                                      \* faulty variant

\* The timeout, or an error that the provider has marked as retryable.
Overdue(t) ==
  /\ exec[t].step = "call"
  /\ Step(t, IF RetriesLeft(t) THEN [exec[t] EXCEPT !.step = "sleep"]
             ELSE Recording(t, "fallback", FALSE))
  /\ UNCHANGED records

Retry(t) ==
  /\ exec[t].step = "sleep"
  /\ Step(t, [exec[t] EXCEPT !.step = "call",
                             !.attempts = @ + 1])
  /\ UNCHANGED records

\* The telemetry is stored, or its failure is swallowed.
Record(t) ==
  /\ exec[t].step = "record"
  /\ \E stored \in {{}, {exec[t].status}} :
       records' = [records EXCEPT ![t] = @ \cup stored]
  /\ Step(t, [exec[t] EXCEPT !.step = "recorded"])

\* The end of the handling: a page, or an exception.
Done(t, outcome) == [exec[t] EXCEPT !.step = "done", !.outcome = outcome, !.attempts = 0,
                                    !.guarded = FALSE, !.model = 1, !.evidence = FALSE]

\* The handler shows a page, or what it asks for the page raises, or sending it
\* does: nobody in the handler catches that, and the text has no page.
Show(t, outcome) == {Done(t, outcome), Done(t, "failed")}

GoOn(t) == [exec[t] EXCEPT !.step = "sleep", !.status = "none"]  \* faulty variant

\* The cancellation is raised again when its record has been written.
Raise(t) == Done(t, "cancelled")

\* A validated route is taken; a fallback, and a route that is none, asks for a
\* person.
Route(t) ==
  /\ exec[t].step = "recorded"
  /\ CASE exec[t].status = "success" ->
            \E next \in Show(t, "page") \cup Show(t, "human")
                         \cup {[exec[t] EXCEPT !.step = "embed", !.model = model]} : Step(t, next)
       [] exec[t].status = "fallback" -> \E next \in Show(t, "human") : Step(t, next)
       [] exec[t].status = "cancelled" -> Step(t, Raise(t))
  /\ UNCHANGED records

\* A cancellation is recorded when it meets the call of the provider, or the
\* record of a response; anywhere else it just ends the handling.
Cancel(t) ==
  /\ exec[t].step \notin {"new", "done"}
  /\ Step(t, IF exec[t].step = "call"
                \/ (exec[t].step \in {"record", "recorded"} /\ exec[t].guarded)
             THEN Recording(t, "cancelled", FALSE) ELSE Done(t, "cancelled"))
  /\ UNCHANGED records

-----------------------------------------------------------------------------
(* KnowledgeApplication.answer_for_tenant *)

\* A query that is empty when normalized, or too long, is an error that nobody
\* catches.  Any other is embedded with the model of this process, or else a
\* person is asked for.
Embed(t) ==
  /\ exec[t].step = "embed"
  /\ \E next \in Show(t, "human") \cup {[exec[t] EXCEPT !.step = "lexical"]} : Step(t, next)
  /\ UNCHANGED records

Searchable(d) == Ready(d) /\ documents[d].published

\* The lexical statement finds some of the chunks, or none, or it fails.
SearchWords(t) ==
  /\ exec[t].step = "lexical"
  /\ \/ \E found \in {FALSE, \E d \in Documents : Searchable(d)} :
          Step(t, [exec[t] EXCEPT !.step = "vector", !.evidence = found])
     \/ Step(t, Done(t, "failed"))
  /\ UNCHANGED records

\* The vector statement finds others, among those embedded with the same model
\* as the query, or it fails; what is relevant enough is the answer.
SearchVectors(t) ==
  LET near == \E d \in Documents : Searchable(d) /\ documents[d].model = exec[t].model
  IN  /\ exec[t].step = "vector"
      /\ \/ \E next \in Show(t, "human") : Step(t, next)
         \/ /\ exec[t].evidence \/ near
            /\ \E next \in Show(t, "answer") : Step(t, next)
      /\ UNCHANGED records

-----------------------------------------------------------------------------
\* What the provider may do, and what the handler does by itself.
Provider(t) == Reject(t) \/ \E status \in {"success", "fallback"} : Respond(t, status)

Progress(t) ==
  \/ Call(t) \/ CallNobody(t) \/ Overdue(t) \/ Retry(t)
  \/ Record(t) \/ Route(t) \/ Embed(t) \/ SearchWords(t) \/ SearchVectors(t)

Next ==
  \/ KnowledgeNext /\ UNCHANGED advisoryVars
  \/ \E t \in Texts : Provider(t) \/ Progress(t) \/ Cancel(t)

Spec == Init /\ [][Next]_vars

\* The provider may never answer; the timer fires, and every other wait ends.
Fairness ==
  /\ \A t \in Texts : WF_vars(Progress(t))
  /\ ReindexFairness

FairSpec == Spec /\ Fairness

-----------------------------------------------------------------------------
(* Properties *)

\* However slow the provider is and whatever it answers, a text that was handed
\* to it does not wait for ever, nor is it called for ever: the handling ends.  It
\* ends with a page if it is not cancelled and nothing fails after the runtime;
\* the runtime itself never makes it fail.
EveryHandlingEnds ==
  \A t \in Texts : exec[t].step = "call" ~> exec[t].step = "done"

\* The telemetry of a text whose handling was not cancelled tells how its
\* operation ended, and nothing else: retries, fallbacks and cancellations leave
\* no record of another outcome beside it.
RecordTellsTheOutcome ==
  \A t \in Texts : exec[t].step = "done" /\ exec[t].outcome # "cancelled"
                   => records[t] \subseteq {exec[t].status}
================================================================================
