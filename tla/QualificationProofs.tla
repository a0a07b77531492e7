-------------------------- MODULE QualificationProofs --------------------------
(***************************************************************************)
(* Theorems of Qualification and Handoff for any sessions, leads, cases,   *)
(* updates, fields and handlers.                                           *)
(***************************************************************************)
EXTENDS Qualification, WellFoundedInduction, TLAPS

-----------------------------------------------------------------------------
(* Cases: the inductive invariant *)

\* An open case that a customer asked for and staff has not reopened.
Requested(c) == c \in Open /\ cases[c].key \in Calls /\ ~cases[c].reopened

\* Whoever is about to create a case holds the lock, knows his call, and has
\* seen that no requested case is open.
CreatorIsAlone ==
  \A a \in Asks : ask[a].step = "create" =>
    /\ ask[a].call \in Calls
    /\ \A b \in Asks : ask[b].step = "create" => a = b
    /\ \A c \in Cases : ~Requested(c)

\* A call that has been made is known.
CallsAreKnown == \A a \in Asks : ask[a].step = "request" => ask[a].call \in Calls

CasesInOrder ==
  /\ HandoffTypeOK
  /\ OneRequestedCase
  /\ KeyIsNew
  /\ CreatorIsAlone
  /\ CallsAreKnown

-----------------------------------------------------------------------------
(* Cases: the steps *)

\* At the start there are no cases.
LEMMA InitCasesInOrder == HandoffInit => CasesInOrder
<1> SUFFICES ASSUME HandoffInit PROVE CasesInOrder
  OBVIOUS
<1>1. HandoffTypeOK
  BY DEF HandoffInit, HandoffTypeOK, NoCase, NoAsk, Case, Ask, OpenStatuses
<1>2. OneRequestedCase
  BY DEF HandoffInit, OneRequestedCase, Open, NoCase, OpenStatuses
<1>3. KeyIsNew /\ CreatorIsAlone /\ CallsAreKnown
  BY DEF HandoffInit, KeyIsNew, CreatorIsAlone, CallsAreKnown, NoAsk
<1>4. QED
  BY <1>1, <1>2, <1>3 DEF CasesInOrder

\* A step that changes no case, and makes at most one run more that is about to
\* create one, which has looked.
LEMMA AskKeepsOrder ==
  ASSUME CasesInOrder, cases' = cases, status' = status,
         NEW a \in Asks, NEW r \in Ask, ask' = [ask EXCEPT ![a] = r],
         r.step = "request" => r.call \in Calls,
         r.step = "create" => /\ r.call \in Calls
                              /\ ~Paused /\ LockFree
                              /\ ~Known(r.call)
  PROVE  CasesInOrder'
<1>1. HandoffTypeOK'
  BY DEF CasesInOrder, HandoffTypeOK
<1>2. OneRequestedCase'
  BY DEF CasesInOrder, OneRequestedCase, Open
<1>3. ask'[a] = r /\ \A b \in Asks : b # a => ask'[b] = ask[b]
  BY DEF CasesInOrder, HandoffTypeOK
<1>4. KeyIsNew'
  BY <1>3 DEF CasesInOrder, KeyIsNew, Known
<1>5. CreatorIsAlone'
  BY <1>3 DEF CasesInOrder, CreatorIsAlone, Requested, Paused, Open, LockFree
<1>6. CallsAreKnown'
  BY <1>3 DEF CasesInOrder, CallsAreKnown
<1>7. QED
  BY <1>1, <1>2, <1>4, <1>5, <1>6 DEF CasesInOrder

\* The customer's runs, up to the creation.
LEMMA AskingKeepsOrder ==
  ASSUME CasesInOrder, NEW a \in Asks,
         \/ \E call \in Calls : AskHuman(a, call)
         \/ LookForCase(a)
         \/ AskFails(a)
  PROVE  CasesInOrder'
<1>t. ask[a] \in Ask /\ NoAsk \in Ask
  BY DEF CasesInOrder, HandoffTypeOK, Ask, NoAsk
<1>1. CASE \E call \in Calls : AskHuman(a, call)
  <2>1. PICK call \in Calls : AskHuman(a, call)
    BY <1>1
  <2> DEFINE r == [step |-> "request", call |-> call]
  <2>2. r \in Ask
    BY DEF Ask
  <2>3. QED
    BY <2>1, <2>2, AskKeepsOrder DEF AskHuman
<1>2. CASE LookForCase(a)
  <2>1. CASE Paused \/ Known(ask[a].call)
    BY <1>2, <1>t, <2>1, AskKeepsOrder DEF LookForCase, NoAsk
  <2>2. CASE ~(Paused \/ Known(ask[a].call))
    <3> DEFINE r == [ask[a] EXCEPT !.step = "create"]
    <3>1. r \in Ask /\ r.call = ask[a].call /\ r.step = "create"
      BY <1>t DEF Ask
    <3>2. ask[a].call \in Calls
      BY <1>2 DEF LookForCase, CasesInOrder, CallsAreKnown
    <3>3. ask' = [ask EXCEPT ![a] = r]
      BY <1>2, <2>2 DEF LookForCase
    <3>4. QED
      BY <1>2, <2>2, <3>1, <3>2, <3>3, AskKeepsOrder DEF LookForCase
  <2>3. QED
    BY <2>1, <2>2
<1>3. CASE AskFails(a)
  BY <1>3, <1>t, AskKeepsOrder DEF AskFails, NoAsk
<1>4. QED
  BY <1>1, <1>2, <1>3

\* A new case is the one there was no row of.
LEMMA QueueEffect ==
  ASSUME HandoffTypeOK, NEW c \in Cases, NEW key \in Calls \cup Sessions, Queue(c, key)
  PROVE  /\ status' = "handoff_queued"
         /\ cases' \in [Cases -> Case]
         /\ cases'[c] = [status |-> "queued", key |-> key, reopened |-> FALSE]
         /\ \A d \in Cases : d # c => cases'[d] = cases[d]
         /\ \A d \in Cases : cases[d].key # key
BY DEF Queue, HandoffTypeOK, NoCase, Case, OpenStatuses

\* The creation itself ends the only run that was about to create a case, and
\* makes the only case that is open on request.
LEMMA CreateKeepsOrder ==
  ASSUME CasesInOrder, NEW a \in Asks, NEW c \in Cases, CreateCase(a, c)
  PROVE  CasesInOrder'
<1>1. ask[a].step = "create" /\ ask[a].call \in Calls
  BY DEF CreateCase, CasesInOrder, CreatorIsAlone
<1>2. /\ status' = "handoff_queued"
      /\ cases' \in [Cases -> Case]
      /\ cases'[c] = [status |-> "queued", key |-> ask[a].call, reopened |-> FALSE]
      /\ \A d \in Cases : d # c => cases'[d] = cases[d]
  BY <1>1, QueueEffect DEF CreateCase, CasesInOrder
<1>3. /\ ask' \in [Asks -> Ask]
      /\ ask'[a].step = "idle"
      /\ \A b \in Asks : b # a => ask'[b] = ask[b]
  BY DEF CreateCase, CasesInOrder, HandoffTypeOK, NoAsk, Ask
<1>4. HandoffTypeOK'
  BY <1>2, <1>3 DEF HandoffTypeOK
<1>5. \A b \in Asks : ask'[b].step # "create"
  BY <1>1, <1>3 DEF CasesInOrder, CreatorIsAlone
<1>6. OneRequestedCase'
  BY <1>1, <1>2 DEF OneRequestedCase, CasesInOrder, CreatorIsAlone, Requested, Open
<1>7. CallsAreKnown'
  BY <1>3 DEF CasesInOrder, CallsAreKnown
<1>8. QED
  BY <1>4, <1>5, <1>6, <1>7 DEF CasesInOrder, KeyIsNew, CreatorIsAlone

\* The case of a qualification is not one that was asked for.
LEMMA EscalationKeepsOrder ==
  ASSUME CasesInOrder, NEW c \in Cases, NEW s \in Sessions, Queue(c, s), ask' = ask
  PROVE  CasesInOrder'
<1>1. /\ status' = "handoff_queued"
      /\ cases' \in [Cases -> Case]
      /\ cases'[c] = [status |-> "queued", key |-> s, reopened |-> FALSE]
      /\ \A d \in Cases : d # c => cases'[d] = cases[d]
  BY QueueEffect DEF CasesInOrder
<1>2. s \notin Calls
  BY HandoffAssumption
<1>3. HandoffTypeOK'
  BY <1>1 DEF CasesInOrder, HandoffTypeOK
<1>4. \A d \in Cases : Requested(d)' => Requested(d) /\ d # c
  BY <1>1, <1>2 DEF Requested, Open
<1>5. OneRequestedCase'
  BY <1>1, <1>2 DEF CasesInOrder, OneRequestedCase, Open
<1>6. KeyIsNew'
  BY <1>1, <1>2 DEF CasesInOrder, KeyIsNew, CreatorIsAlone
<1>7. CreatorIsAlone'
  BY <1>4 DEF CasesInOrder, CreatorIsAlone
<1>8. CallsAreKnown'
  BY DEF CasesInOrder, CallsAreKnown
<1>9. QED
  BY <1>3, <1>5, <1>6, <1>7, <1>8 DEF CasesInOrder

\* Staff opens no case but by reopening it, and keeps every key.
LEMMA StaffKeepsOrder ==
  ASSUME CasesInOrder, NEW c \in Cases,
         NEW from, NEW to \in {"claimed", "resolved", "reopened"},
         NEW conversation \in {"active_bot", "handoff_queued", "human_active"},
         to = "claimed" => from \subseteq OpenStatuses,
         Transition(c, from, to, conversation)
  PROVE  CasesInOrder'
<1>t. cases[c] \in Case
  BY DEF CasesInOrder, HandoffTypeOK
<1> DEFINE now == [cases[c] EXCEPT !.status = to,
                                   !.reopened = @ \/ to = "reopened"]
<1>1. cases' = [cases EXCEPT ![c] = now]
  BY DEF Transition
<1>2. now \in Case
  BY <1>t DEF Case, OpenStatuses
<1>3. now.key = cases[c].key /\ now.status = to
  BY <1>t DEF Case
<1>4. now.reopened = (cases[c].reopened \/ to = "reopened")
  BY <1>t DEF Case
<1> HIDE DEF now
<1>5. cases'[c] = now /\ \A d \in Cases : d # c => cases'[d] = cases[d]
  BY <1>1 DEF CasesInOrder, HandoffTypeOK
<1>6. HandoffTypeOK'
  BY <1>1, <1>2 DEF CasesInOrder, HandoffTypeOK, Transition
<1>7. Requested(c)' => Requested(c)
  BY <1>3, <1>4, <1>5 DEF Requested, Open, Transition, OpenStatuses
<1>8. \A d \in Cases : d # c => (Requested(d)' <=> Requested(d))
  BY <1>5 DEF Requested, Open
<1>9. \A d \in Cases : cases'[d].key = cases[d].key
  BY <1>3, <1>5
<1>10. OneRequestedCase'
  <2>1. \A d, e \in Cases : Requested(d) /\ Requested(e) => d = e
    BY DEF CasesInOrder, OneRequestedCase, Requested
  <2>2. \A d, e \in Cases : Requested(d)' /\ Requested(e)' => d = e
    BY <1>7, <1>8, <2>1
  <2>3. QED
    BY <2>2 DEF OneRequestedCase, Requested, Open
<1>11. KeyIsNew'
  BY <1>9 DEF CasesInOrder, KeyIsNew, Transition
<1>12. CreatorIsAlone'
  BY <1>7, <1>8 DEF CasesInOrder, CreatorIsAlone, Transition
<1>13. CallsAreKnown'
  BY DEF CasesInOrder, CallsAreKnown, Transition
<1>14. QED
  BY <1>6, <1>10, <1>11, <1>12, <1>13 DEF CasesInOrder

\* Every step of Handoff.
LEMMA HandoffKeepsOrder == CasesInOrder /\ HandoffNext => CasesInOrder'
<1> SUFFICES ASSUME CasesInOrder, HandoffNext PROVE CasesInOrder'
  OBVIOUS
<1>1. ASSUME NEW a \in Asks,
             \/ \E call \in Calls : AskHuman(a, call)
             \/ LookForCase(a)
             \/ AskFails(a)
      PROVE  CasesInOrder'
  BY <1>1, AskingKeepsOrder
<1>2. ASSUME NEW a \in Asks, NEW c \in Cases, CreateCase(a, c) PROVE CasesInOrder'
  BY <1>2, CreateKeepsOrder
<1>t. status \in {"active_bot", "handoff_queued", "human_active"}
  BY DEF CasesInOrder, HandoffTypeOK
<1>3. ASSUME NEW c \in Cases, ClaimCase(c) PROVE CasesInOrder'
  <2>1. {"queued", "reopened"} \subseteq OpenStatuses
    BY DEF OpenStatuses
  <2>2. QED
    BY <1>3, <2>1, StaffKeepsOrder DEF ClaimCase
<1>4. ASSUME NEW c \in Cases, ResolveCase(c) \/ ReopenCase(c) \/ ReturnToBot(c)
      PROVE  CasesInOrder'
  BY <1>4, <1>t, StaffKeepsOrder DEF ResolveCase, ReopenCase, ReturnToBot
<1>5. QED
  BY <1>1, <1>2, <1>3, <1>4 DEF HandoffNext

-----------------------------------------------------------------------------
(* Sessions: the inductive invariant *)

\* What is stored of a session has been consented to, a session in progress asks
\* for a field, and each message stored answers one field and was processed for it.
SessionInOrder(s) ==
  /\ \/ sessions[s].status \in {"in_progress", "reviewing", "completed"}
     \/ sessions[s].answers # NoAnswers
     \/ s \in reviewed \cup qualified
     => sessions[s].consent = "accepted"
  /\ sessions[s].status \in {"unused", "awaiting_consent"} => sessions[s].consent = "none"
  /\ sessions[s].status = "in_progress" => sessions[s].field # NoField
  /\ \A f \in Fields : sessions[s].answers[f] # Nil =>
       /\ processed[sessions[s].answers[f]] = s
       /\ \A g \in Fields : sessions[s].answers[f] = sessions[s].answers[g] => f = g

\* What a handler has read and may still rely on: the consent of its session, and
\* with the row locked also its status and the open lead.
RunInOrder(r) ==
  /\ r.step \notin {"idle", "start"} => r.session \in Sessions
  /\ r.step \in {"accept", "decline", "submit", "complete"} => r.update \in Presses
  /\ r.step = "answer" => r.update \in Messages
  /\ r.step \in {"answer", "edit"} => r.field \in Fields
  /\ r.step \in {"answer", "edit", "submit", "complete"} =>
       sessions[r.session].consent = "accepted"
  /\ r.step = "complete" =>
       /\ sessions[r.session].status = "reviewing"
       /\ r.lead = Nil => \A l \in Leads : leads[l].session = Nil
       /\ r.lead # Nil => leads[r.lead].session # Nil

\* The active session is one, and its row has one lock.
OneCompletes ==
  \A g, h \in Handlers : run[g].step = "complete" /\ run[h].step = "complete" => g = h

SessionsInOrder ==
  /\ TypeOK
  /\ OneActiveSession
  /\ OneOpenLead
  /\ WorkflowIsActive
  /\ OneCompletes
  /\ \A s \in Sessions : SessionInOrder(s)
  /\ \A h \in Handlers : RunInOrder(run[h])

-----------------------------------------------------------------------------
(* Sessions: lemmas about the operators *)

\* Numbers have a least.
LEMMA LeastNumber ==
  ASSUME NEW S, S \subseteq Nat, S # {}
  PROVE  \E f \in S : \A g \in S : f <= g
<1> DEFINE less == {p \in Nat \X Nat : p[1] < p[2]}
<1>1. IsWellFoundedOn(less, Nat)
  BY NatLessThanWellFounded DEF OpToRel
<1>2. \E f \in S : \A g \in S : <<g, f>> \notin less
  BY <1>1, WFMin
<1>3. PICK f \in S : \A g \in S : <<g, f>> \notin less
  BY <1>2
<1>4. ASSUME NEW g \in S PROVE f <= g
  <2>1. f \in Nat /\ g \in Nat /\ <<g, f>> \notin less
    BY <1>3
  <2>2. ~(g < f)
    BY <2>1
  <2>3. QED
    BY <2>1, <2>2
<1>5. QED
  BY <1>4

\* The next field to ask for is a field, or none.
LEMMA NextMissingType ==
  ASSUME NEW answers
  PROVE  NextMissing(answers) \in Fields \cup {NoField}
<1> DEFINE missing == {f \in Required : answers[f] = Nil}
<1>1. CASE missing = {}
  BY <1>1 DEF NextMissing
<1>2. CASE missing # {}
  <2>1. missing \subseteq Nat /\ missing \subseteq Fields
    BY QualificationAssumption
  <2>2. \E f \in missing : \A g \in missing : f <= g
    BY <1>2, <2>1, LeastNumber
  <2>3. NextMissing(answers) = CHOOSE f \in missing : \A g \in missing : f <= g
    BY <1>2 DEF NextMissing
  <2> HIDE DEF missing
  <2>4. QED
    BY <2>1, <2>2, <2>3
<1>3. QED
  BY <1>1, <1>2

\* Nobody else is on the way to completion while the active session is unlocked.
LEMMA UnlockedMeansNobody ==
  ASSUME SessionsInOrder, NEW s \in Active, ~Locked(s)
  PROVE  \A h \in Handlers : run[h].step # "complete"
<1> SUFFICES ASSUME NEW h \in Handlers, run[h].step = "complete" PROVE FALSE
  OBVIOUS
<1>1. run[h].session \in Active
  BY DEF SessionsInOrder, RunInOrder, Active, ActiveStatuses
<1>2. run[h].session = s
  BY <1>1 DEF SessionsInOrder, OneActiveSession
<1>3. QED
  BY <1>2 DEF Locked

-----------------------------------------------------------------------------
(* Sessions: the steps *)

\* At the start there is nothing.
LEMMA InitSessionsInOrder == Init => SessionsInOrder
<1> SUFFICES ASSUME Init PROVE SessionsInOrder
  OBVIOUS
<1>0. HandoffTypeOK
  BY InitCasesInOrder DEF Init, CasesInOrder
<1>1. NoAnswers \in Answers
  BY DEF NoAnswers, Answers
<1>2. NoSession \in SessionRow /\ NoLead \in LeadRow /\ NoRun \in Handler
  BY <1>1 DEF NoSession, SessionRow, NoLead, LeadRow, NoRun, Handler
<1>3. TypeOK
  BY <1>0, <1>2 DEF Init, TypeOK
<1>4. Active = {}
  BY DEF Init, Active, ActiveStatuses, NoSession
<1>5. OneActiveSession /\ OneOpenLead /\ WorkflowIsActive /\ OneCompletes
  BY <1>4 DEF Init, OneActiveSession, OneOpenLead, WorkflowIsActive, OneCompletes,
     NoLead, NoRun
<1>6. \A s \in Sessions : SessionInOrder(s)
  BY DEF Init, SessionInOrder, NoSession, NoAnswers
<1>7. \A h \in Handlers : RunInOrder(run[h])
  BY DEF Init, RunInOrder, NoRun
<1>8. QED
  BY <1>3, <1>5, <1>6, <1>7 DEF SessionsInOrder

\* A step that changes nothing but what one handler remembers.
LEMMA RememberKeepsOrder ==
  ASSUME SessionsInOrder, NEW h \in Handlers, NEW r \in Handler, RunInOrder(r),
         r.step = "complete" => \A g \in Handlers : run[g].step # "complete",
         run' = [run EXCEPT ![h] = r],
         UNCHANGED <<handoffVars, sessions, late, reviewed, processed, leads,
                     qualified, workflow>>
  PROVE  SessionsInOrder'
<1>1. TypeOK'
  BY DEF SessionsInOrder, TypeOK, HandoffTypeOK, handoffVars
<1>2. run'[h] = r /\ \A g \in Handlers : g # h => run'[g] = run[g]
  BY DEF SessionsInOrder, TypeOK
<1>3. OneActiveSession' /\ OneOpenLead' /\ WorkflowIsActive'
  BY DEF SessionsInOrder, OneActiveSession, OneOpenLead, WorkflowIsActive, Active
<1>4. OneCompletes'
  BY <1>2 DEF SessionsInOrder, OneCompletes
<1>5. \A s \in Sessions : SessionInOrder(s)'
  BY DEF SessionsInOrder, SessionInOrder
<1>6. \A g \in Handlers : RunInOrder(run[g])'
  BY <1>2 DEF SessionsInOrder, RunInOrder
<1>7. QED
  BY <1>1, <1>3, <1>4, <1>5, <1>6 DEF SessionsInOrder

\* Beginning with what is known of the session.
LEMMA BeginKeepsOrder ==
  ASSUME SessionsInOrder, NEW h \in Handlers,
         NEW step \in {"start", "accept", "decline", "answer", "edit", "submit"},
         NEW u, NEW s, NEW f, NEW answers \in Answers,
         u \in Updates \cup {Nil}, s \in Sessions \cup {Nil}, f \in Fields \cup {NoField},
         step # "start" => s \in Sessions,
         step \in {"accept", "decline", "submit"} => u \in Presses,
         step = "answer" => u \in Messages,
         step \in {"answer", "edit"} => f \in Fields,
         step \in {"answer", "edit", "submit"} => sessions[s].consent = "accepted",
         Begin(h, step, u, s, f, answers)
  PROVE  SessionsInOrder'
<1> DEFINE r == [step |-> step, update |-> u, session |-> s,
                 field |-> f, answers |-> answers, lead |-> Nil]
<1>1. r \in Handler
  BY DEF Handler
<1>2. RunInOrder(r)
  BY DEF RunInOrder
<1>3. run' = [run EXCEPT ![h] = r]
  BY DEF Begin
<1>4. r.step # "complete"
  OBVIOUS
<1> HIDE DEF r
<1>5. QED
  BY <1>1, <1>2, <1>3, <1>4, RememberKeepsOrder DEF Begin

\* Every handler's first transaction.
LEMMA ReadingKeepsOrder ==
  ASSUME SessionsInOrder, NEW h \in Handlers,
         \/ BeginStart(h)
         \/ \E u \in Messages : BeginAnswer(h, u)
         \/ \E u \in Presses, s \in Sessions :
              BeginSubmit(h, u, s) \/ \E d \in {"accept", "decline"} : BeginConsent(h, u, s, d)
         \/ \E s \in Sessions, f \in Fields : BeginEdit(h, s, f)
  PROVE  SessionsInOrder'
<1>0. NoAnswers \in Answers
  BY DEF NoAnswers, Answers
<1>s. \A s \in Sessions : sessions[s] \in SessionRow
  BY DEF SessionsInOrder, TypeOK
<1>r. \A s \in Sessions : s \in reviewed => sessions[s].consent = "accepted"
  BY DEF SessionsInOrder, SessionInOrder
<1>1. CASE BeginStart(h)
  BY <1>0, <1>1, BeginKeepsOrder DEF BeginStart
<1>2. ASSUME NEW u \in Messages, BeginAnswer(h, u) PROVE SessionsInOrder'
  <2>1. PICK s \in Usable : /\ sessions[s].status = "in_progress"
                            /\ Begin(h, "answer", u, s, sessions[s].field, NoAnswers)
    BY <1>2 DEF BeginAnswer
  <2>2. s \in Sessions
    BY <2>1 DEF Usable, Active
  <2>3. sessions[s].consent = "accepted" /\ sessions[s].field \in Fields
    BY <1>s, <2>1, <2>2 DEF SessionsInOrder, SessionInOrder, SessionRow
  <2>4. QED
    BY <1>0, <2>1, <2>2, <2>3, BeginKeepsOrder DEF Updates
<1>3. ASSUME NEW u \in Presses, NEW s \in Sessions, BeginSubmit(h, u, s)
      PROVE  SessionsInOrder'
  <2>1. sessions[s].consent = "accepted" /\ sessions[s].answers \in Answers
    BY <1>s, <1>r, <1>3 DEF BeginSubmit, SessionRow
  <2>2. Begin(h, "submit", u, s, NoField, sessions[s].answers)
    BY <1>3 DEF BeginSubmit
  <2>3. QED
    BY <2>1, <2>2, BeginKeepsOrder DEF Updates
<1>4. ASSUME NEW u \in Presses, NEW s \in Sessions, NEW d \in {"accept", "decline"},
             BeginConsent(h, u, s, d)
      PROVE  SessionsInOrder'
  BY <1>0, <1>4, BeginKeepsOrder DEF BeginConsent, Updates
<1>5. ASSUME NEW s \in Sessions, NEW f \in Fields, BeginEdit(h, s, f)
      PROVE  SessionsInOrder'
  BY <1>0, <1>r, <1>5, BeginKeepsOrder DEF BeginEdit
<1>6. QED
  BY <1>1, <1>2, <1>3, <1>4, <1>5

\* The end of a run that does nothing.
LEMMA LeavingKeepsOrder ==
  ASSUME SessionsInOrder, NEW h \in Handlers, Leave(h)
  PROVE  SessionsInOrder'
<1>1. NoRun \in Handler
  BY DEF NoRun, Handler, NoAnswers, Answers
<1>2. RunInOrder(NoRun) /\ NoRun.step # "complete"
  BY DEF RunInOrder, NoRun
<1>3. QED
  BY <1>1, <1>2, RememberKeepsOrder DEF Leave

\* The row is locked and the open lead read.
LEMMA LookingKeepsOrder ==
  ASSUME SessionsInOrder, NEW h \in Handlers, LookForLead(h)
  PROVE  SessionsInOrder'
<1> DEFINE s == run[h].session
           r == [run[h] EXCEPT !.step = "complete", !.lead = OpenLead]
<1>1. run[h] \in Handler /\ RunInOrder(run[h]) /\ run[h].step = "submit"
  BY DEF SessionsInOrder, TypeOK, LookForLead
<1>2. /\ s \in Sessions /\ sessions[s].consent = "accepted"
      /\ run[h].update \in Presses
  BY <1>1 DEF RunInOrder
<1>3. sessions[s].status = "reviewing" /\ ~Locked(s)
  BY DEF LookForLead
<1>4. /\ OpenLead \in Leads \cup {Nil}
      /\ OpenLead = Nil => \A l \in Leads : leads[l].session = Nil
      /\ OpenLead # Nil => leads[OpenLead].session # Nil
  <2>1. CASE \E l \in Leads : leads[l].session # Nil
    <3>1. OpenLead \in Leads /\ leads[OpenLead].session # Nil
      BY <2>1 DEF OpenLead
    <3>2. OpenLead # Nil
      BY <3>1, QualificationAssumption
    <3>3. QED
      BY <3>1, <3>2
  <2>2. CASE ~ \E l \in Leads : leads[l].session # Nil
    BY <2>2 DEF OpenLead
  <2>3. QED
    BY <2>1, <2>2
<1>5. /\ r \in Handler /\ r.step = "complete" /\ r.lead = OpenLead
      /\ r.session = s /\ r.update = run[h].update
  BY <1>1, <1>4 DEF Handler
<1>6. \A g \in Handlers : run[g].step # "complete"
  BY <1>2, <1>3, UnlockedMeansNobody DEF Active, ActiveStatuses
<1>7. run' = [run EXCEPT ![h] = r]
  BY DEF LookForLead
<1> HIDE DEF r, s
<1>8. RunInOrder(r)
  BY <1>2, <1>3, <1>4, <1>5 DEF RunInOrder
<1>9. QED
  BY <1>5, <1>6, <1>7, <1>8, RememberKeepsOrder DEF LookForLead

\* One row gets a value that keeps the consent and is in order itself, while no
\* other session is active if this one is then.
LEMMA WritingKeepsOrder ==
  ASSUME SessionsInOrder, NEW h \in Handlers, NEW s \in Sessions, NEW row \in SessionRow,
         ~Locked(s), Write(h, s, row), SessionInOrder(s)',
         sessions[s].consent = "accepted" => row.consent = "accepted",
         row.status \in ActiveStatuses => Active \ {s} = {},
         processed' \in [Updates -> Sessions \cup {Nil}],
         \A u \in Messages : processed[u] # Nil => processed'[u] = processed[u],
         \/ workflow' = Nil
         \/ workflow' = workflow /\ row.status \in ActiveStatuses,
         UNCHANGED <<handoffVars, late, leads, qualified>>
  PROVE  SessionsInOrder'
<1>1. /\ sessions' \in [Sessions -> SessionRow]
      /\ sessions'[s] = row
      /\ \A t \in Sessions : t # s => sessions'[t] = sessions[t]
  BY DEF SessionsInOrder, TypeOK, Write
<1>2. /\ run' \in [Handlers -> Handler]
      /\ run'[h] = NoRun
      /\ \A g \in Handlers : g # h => run'[g] = run[g]
  BY DEF SessionsInOrder, TypeOK, Write, NoRun, Handler, NoAnswers, Answers
<1>3. reviewed' \in SUBSET Sessions /\ \A t \in Sessions : t # s => (t \in reviewed' <=> t \in reviewed)
  BY DEF SessionsInOrder, TypeOK, Write
<1>4. TypeOK'
  BY <1>1, <1>2, <1>3 DEF SessionsInOrder, TypeOK, HandoffTypeOK, handoffVars
<1>5. \A t \in Active' : t = s \/ t \in Active
  BY <1>1 DEF Active
<1>6. OneActiveSession'
  <2>1. CASE row.status \in ActiveStatuses
    BY <1>5, <2>1 DEF OneActiveSession
  <2>2. CASE row.status \notin ActiveStatuses
    BY <1>1, <1>5, <2>2 DEF SessionsInOrder, OneActiveSession, Active
  <2>3. QED
    BY <2>1, <2>2
<1>7. OneOpenLead'
  BY DEF SessionsInOrder, OneOpenLead
<1>8. WorkflowIsActive'
  BY <1>1 DEF SessionsInOrder, WorkflowIsActive, Active
<1>9. OneCompletes'
  BY <1>2 DEF SessionsInOrder, OneCompletes, NoRun
<1>10. ASSUME NEW t \in Sessions PROVE SessionInOrder(t)'
  <2>1. CASE t = s
    BY <2>1
  <2>2. CASE t # s
    <3>1. /\ sessions'[t] = sessions[t]
          /\ t \in reviewed' \cup qualified' <=> t \in reviewed \cup qualified
      BY <1>1, <1>3, <2>2
    <3>2. \A f \in Fields : sessions[t].answers[f] \in Messages \cup {Nil}
      BY DEF SessionsInOrder, TypeOK, SessionRow, Answers
    <3>3. SessionInOrder(t)
      BY DEF SessionsInOrder
    <3>4. Nil \notin Sessions
      BY HandoffAssumption
    <3>5. QED
      BY <3>1, <3>2, <3>3, <3>4 DEF SessionInOrder
  <2>3. QED
    BY <2>1, <2>2
<1>11. ASSUME NEW g \in Handlers PROVE RunInOrder(run[g])'
  <2>1. CASE g = h
    BY <1>2, <2>1 DEF RunInOrder, NoRun
  <2>2. CASE g # h
    <3>1. run'[g] = run[g] /\ RunInOrder(run[g])
      BY <1>2, <2>2 DEF SessionsInOrder
    <3>2. run[g].step = "complete" => run[g].session # s
      BY DEF Locked
    <3>3. QED
      BY <1>1, <3>1, <3>2 DEF RunInOrder
  <2>3. QED
    BY <2>1, <2>2
<1>12. QED
  BY <1>4, <1>6, <1>7, <1>8, <1>9, <1>10, <1>11 DEF SessionsInOrder

\* Consent is decided once, before anything is stored.
LEMMA DecidingKeepsOrder ==
  ASSUME SessionsInOrder, NEW h \in Handlers, DecideConsent(h)
  PROVE  SessionsInOrder'
<1>0. PICK s \in Sessions, u \in Presses : s = run[h].session /\ u = run[h].update
  BY DEF SessionsInOrder, RunInOrder, DecideConsent
<1> DEFINE first == NextMissing(NoAnswers)
           accepted == [sessions[s] EXCEPT
                          !.status = IF first = NoField THEN "reviewing" ELSE "in_progress",
                          !.consent = "accepted", !.field = first]
           declined == [sessions[s] EXCEPT !.status = "declined", !.consent = "declined"]
<1>2. sessions[s] \in SessionRow /\ SessionInOrder(s)
  BY DEF SessionsInOrder, TypeOK
<1>3. sessions[s].status = "awaiting_consent" /\ sessions[s].consent = "none" /\ ~Locked(s)
  BY <1>0, <1>2 DEF DecideConsent, Undecided, SessionInOrder
<1>4. first \in Fields \cup {NoField}
  BY NextMissingType
<1>5. Active \ {s} = {}
  BY <1>3 DEF SessionsInOrder, OneActiveSession, Active, ActiveStatuses
<1>6. sessions[s].answers = NoAnswers /\ s \notin reviewed \cup qualified
  BY <1>2, <1>3 DEF SessionInOrder
<1>7. /\ processed' = [processed EXCEPT ![u] = s]
      /\ processed[u] = Nil
      /\ processed' \in [Updates -> Sessions \cup {Nil}]
      /\ \A v \in Messages : processed[v] # Nil => processed'[v] = processed[v]
  BY <1>0 DEF DecideConsent, NotProcessed, SessionsInOrder, TypeOK, Updates
<1>8. UNCHANGED <<handoffVars, late, leads, qualified>>
  BY DEF DecideConsent
<1>9. \A f \in Fields : NoAnswers[f] = Nil
  BY DEF NoAnswers
<1>10. CASE run[h].step = "accept"
  <2>1. Write(h, s, accepted) /\ workflow' = workflow
    BY <1>0, <1>10 DEF DecideConsent
  <2>2. /\ accepted \in SessionRow
        /\ accepted.status \in {"reviewing", "in_progress"}
        /\ accepted.status = "in_progress" => accepted.field # NoField
        /\ accepted.consent = "accepted"
        /\ accepted.answers = NoAnswers
    BY <1>2, <1>4, <1>6 DEF SessionRow, ActiveStatuses
  <2>3. sessions'[s] = accepted
    BY <2>1 DEF SessionsInOrder, TypeOK, Write
  <2> HIDE DEF accepted, first
  <2>4. SessionInOrder(s)'
    BY <1>9, <2>2, <2>3 DEF SessionInOrder
  <2>5. accepted.status \in ActiveStatuses
    BY <2>2 DEF ActiveStatuses
  <2>6. QED
    BY <1>3, <1>5, <1>7, <1>8, <2>1, <2>2, <2>4, <2>5, WritingKeepsOrder
<1>11. CASE run[h].step = "decline"
  <2>1. Write(h, s, declined) /\ workflow' = Nil
    BY <1>0, <1>11 DEF DecideConsent
  <2>2. /\ declined \in SessionRow
        /\ declined.status = "declined" /\ declined.status \notin ActiveStatuses
        /\ declined.answers = NoAnswers
    BY <1>2, <1>6 DEF SessionRow, ActiveStatuses
  <2>3. sessions'[s] = declined
    BY <2>1 DEF SessionsInOrder, TypeOK, Write
  <2>4. reviewed' = reviewed
    BY <2>1, <2>2 DEF Write
  <2> HIDE DEF declined
  <2>5. SessionInOrder(s)'
    BY <1>6, <1>8, <1>9, <2>2, <2>3, <2>4 DEF SessionInOrder
  <2>6. sessions[s].consent # "accepted"
    BY <1>3
  <2>7. QED
    BY <1>3, <1>7, <1>8, <2>1, <2>2, <2>5, <2>6, WritingKeepsOrder
<1>12. QED
  BY <1>10, <1>11 DEF DecideConsent

\* An answer is a message that was not processed, so no field holds it yet.
LEMMA RecordingKeepsOrder ==
  ASSUME SessionsInOrder, NEW h \in Handlers, RecordAnswer(h)
  PROVE  SessionsInOrder'
<1>0. PICK s \in Sessions, u \in Messages, f \in Fields :
        s = run[h].session /\ u = run[h].update /\ f = run[h].field
  BY DEF SessionsInOrder, RunInOrder, RecordAnswer
<1> DEFINE answers == [sessions[s].answers EXCEPT ![f] = u]
           next == NextMissing(answers)
           row == [sessions[s] EXCEPT !.answers = answers, !.field = next,
                                      !.status = IF next = NoField THEN "reviewing" ELSE @]
<1>2. sessions[s] \in SessionRow /\ SessionInOrder(s)
  BY SMTT(60) DEF SessionsInOrder, TypeOK
<1>3. sessions[s].status = "in_progress" /\ sessions[s].consent = "accepted" /\ ~Locked(s)
  BY <1>0, <1>2 DEF RecordAnswer, Expects, SessionInOrder
<1>4. next \in Fields \cup {NoField}
  BY NextMissingType
<1>5. Active \ {s} = {}
  BY <1>3 DEF SessionsInOrder, OneActiveSession, Active, ActiveStatuses
<1>6. /\ processed' = [processed EXCEPT ![u] = s]
      /\ processed[u] = Nil
      /\ processed' \in [Updates -> Sessions \cup {Nil}]
      /\ processed'[u] = s
      /\ \A v \in Messages : processed[v] # Nil => processed'[v] = processed[v]
  BY <1>0 DEF RecordAnswer, NotProcessed, SessionsInOrder, TypeOK, Updates
<1>7. UNCHANGED <<handoffVars, late, leads, qualified, workflow>>
  BY DEF RecordAnswer
<1>8. /\ sessions[s].answers \in Answers /\ answers \in Answers
      /\ answers[f] = u /\ u # Nil
      /\ \A g \in Fields : g # f => answers[g] = sessions[s].answers[g]
  BY <1>2, QualificationAssumption DEF SessionRow, Answers
<1>9. Write(h, s, row)
  BY <1>0 DEF RecordAnswer
<1>10. sessions'[s] = row
  BY <1>9 DEF SessionsInOrder, TypeOK, Write
<1> HIDE DEF answers, next
<1>11. /\ row \in SessionRow
       /\ row.status \in {"reviewing", "in_progress"}
       /\ row.status = "in_progress" => row.field # NoField
       /\ row.consent = "accepted"
       /\ row.answers = answers
  BY <1>2, <1>3, <1>4, <1>8 DEF SessionRow, ActiveStatuses
<1> HIDE DEF row
<1>12. SessionInOrder(s)'
  <2>1. ASSUME NEW g \in Fields, answers[g] # Nil
        PROVE  /\ processed'[answers[g]] = s
               /\ \A k \in Fields : answers[g] = answers[k] => g = k
    <3>1. \A k \in Fields : k # f => answers[k] # u
      <4>1. \A k \in Fields : sessions[s].answers[k] = u => processed[u] = s
        BY <1>2, <1>8 DEF SessionInOrder
      <4>2. s # Nil
        BY HandoffAssumption
      <4>3. QED
        BY <1>6, <1>8, <4>1, <4>2
    <3>2. CASE g = f
      BY <1>6, <1>8, <3>1, <3>2
    <3>3. CASE g # f
      <4>1. answers[g] = sessions[s].answers[g] /\ answers[g] \in Messages
        BY <1>8, <2>1, <3>3 DEF Answers
      <4>2. processed[answers[g]] = s
        BY <1>2, <2>1, <4>1 DEF SessionInOrder
      <4>3. processed'[answers[g]] = s
        BY <1>6, <4>1, <4>2, HandoffAssumption
      <4>4. ASSUME NEW k \in Fields, answers[g] = answers[k] PROVE g = k
        <5>1. k # f
          BY <1>8, <3>1, <3>3, <4>4
        <5>2. QED
          BY <1>2, <1>8, <2>1, <4>1, <4>4, <5>1 DEF SessionInOrder
      <4>5. QED
        BY <4>3, <4>4
    <3>4. QED
      BY <3>2, <3>3
  <2>2. QED
    BY <1>10, <1>11, <2>1 DEF SessionInOrder
<1>13. row.status \in ActiveStatuses
  BY <1>11 DEF ActiveStatuses
<1>14. QED
  BY <1>3, <1>5, <1>6, <1>7, <1>9, <1>11, <1>12, <1>13, WritingKeepsOrder

\* An edit may revive a session, which has been consented to and, thanks to the
\* index, is then the only active one.
LEMMA EditingKeepsOrder ==
  ASSUME SessionsInOrder, NEW h \in Handlers, Edit(h)
  PROVE  SessionsInOrder'
<1>0. PICK s \in Sessions : s = run[h].session
  BY DEF SessionsInOrder, RunInOrder, Edit
<1> DEFINE row == [sessions[s] EXCEPT !.status = "in_progress", !.field = run[h].field]
<1>1. run[h].field \in Fields /\ sessions[s].consent = "accepted"
  BY <1>0 DEF SessionsInOrder, RunInOrder, Edit
<1>2. sessions[s] \in SessionRow /\ SessionInOrder(s)
  BY DEF SessionsInOrder, TypeOK
<1>3. Active \ {s} = {} /\ ~Locked(s) /\ Write(h, s, row)
  BY <1>0 DEF Edit, IndexAllows
<1>4. UNCHANGED <<handoffVars, late, processed, leads, qualified, workflow>>
  BY DEF Edit
<1>5. /\ row \in SessionRow
      /\ row.status = "in_progress" /\ row.consent = "accepted"
      /\ row.answers = sessions[s].answers /\ row.field \in Fields
  BY <1>1, <1>2 DEF SessionRow, ActiveStatuses
<1>6. sessions'[s] = row
  BY <1>1, <1>3 DEF SessionsInOrder, TypeOK, Write
<1>7. NoField \notin Fields
  BY QualificationAssumption DEF NoField
<1> HIDE DEF row
<1>8. SessionInOrder(s)'
  BY <1>2, <1>4, <1>5, <1>6, <1>7 DEF SessionInOrder
<1>9. row.status \in ActiveStatuses
  BY <1>5 DEF ActiveStatuses
<1>10. processed' = processed /\ processed \in [Updates -> Sessions \cup {Nil}]
  BY <1>4 DEF SessionsInOrder, TypeOK
<1>11. QED
  BY <1>1, <1>3, <1>4, <1>5, <1>8, <1>9, <1>10, WritingKeepsOrder

\* Active sessions that nobody completes are ended, and the workflow with them.
LEMMA ClosingKeepsOrder ==
  ASSUME SessionsInOrder, NEW K, K \subseteq Active, NEW x \in {"expired", "cancelled"},
         \E s \in Active : ~Locked(s),
         sessions' = [s \in Sessions |->
           IF s \in K THEN [sessions[s] EXCEPT !.status = x, !.field = NoField]
                      ELSE sessions[s]],
         workflow' = Nil,
         UNCHANGED <<handoffVars, late, reviewed, processed, leads, qualified, run>>
  PROVE  SessionsInOrder'
<1>1. \A h \in Handlers : run[h].step # "complete"
  BY UnlockedMeansNobody
<1>2. \A s \in Sessions : sessions[s] \in SessionRow
  BY DEF SessionsInOrder, TypeOK
<1>3. ASSUME NEW s \in Sessions
      PROVE  /\ sessions'[s] \in SessionRow
             /\ sessions'[s].consent = sessions[s].consent
             /\ sessions'[s].answers = sessions[s].answers
             /\ \/ sessions'[s].status = x /\ s \in K
                \/ sessions'[s] = sessions[s]
  BY <1>2 DEF SessionRow, ActiveStatuses
<1>4. sessions' \in [Sessions -> SessionRow]
  BY <1>3
<1>5. TypeOK'
  BY <1>4 DEF SessionsInOrder, TypeOK, HandoffTypeOK, handoffVars
<1>6. OneActiveSession'
  <2>1. x \notin ActiveStatuses
    BY DEF ActiveStatuses
  <2>2. \A s \in Active' : s \in Active
    BY <1>3, <2>1 DEF Active
  <2>3. QED
    BY <2>2 DEF SessionsInOrder, OneActiveSession
<1>7. OneOpenLead' /\ WorkflowIsActive' /\ OneCompletes'
  BY DEF SessionsInOrder, OneOpenLead, WorkflowIsActive, OneCompletes
<1>8. ASSUME NEW s \in Sessions PROVE SessionInOrder(s)'
  <2>1. SessionInOrder(s)
    BY DEF SessionsInOrder
  <2>2. reviewed' = reviewed /\ qualified' = qualified /\ processed' = processed
    OBVIOUS
  <2>3. CASE sessions'[s] = sessions[s]
    BY ZenonT(60), <2>1, <2>2, <2>3 DEF SessionInOrder
  <2>4. CASE sessions'[s].status = x
    <3>1. /\ sessions'[s].consent = sessions[s].consent
          /\ sessions'[s].answers = sessions[s].answers
          /\ x \notin {"in_progress", "reviewing", "completed", "unused", "awaiting_consent"}
      BY <1>3
    <3>2. QED
      BY ZenonT(60), <2>1, <2>2, <2>4, <3>1 DEF SessionInOrder
  <2>5. QED
    BY <1>3, <2>3, <2>4
<1>9. ASSUME NEW h \in Handlers PROVE RunInOrder(run[h])'
  <2>1. RunInOrder(run[h]) /\ run'[h] = run[h]
    BY DEF SessionsInOrder
  <2>2. QED
    BY <1>1, <1>3, <2>1 DEF RunInOrder
<1>10. QED
  BY <1>5, <1>6, <1>7, <1>8, <1>9 DEF SessionsInOrder

\* A new session finds no other one active, or ends it because it is late.
LEMMA StartingKeepsOrder ==
  ASSUME SessionsInOrder, NEW h \in Handlers, NEW s \in Sessions, Start(h, s)
  PROVE  SessionsInOrder'
<1> DEFINE row == [NoSession EXCEPT !.status = "awaiting_consent"]
<1>1. /\ sessions[s] = NoSession /\ Active \subseteq late
      /\ \A t \in Active : ~Locked(t)
  BY DEF Start, Startable, Usable
<1>2. \A g \in Handlers : run[g].step # "complete"
  <2> SUFFICES ASSUME NEW g \in Handlers, run[g].step = "complete" PROVE FALSE
    OBVIOUS
  <2>1. run[g].session \in Active
    BY DEF SessionsInOrder, RunInOrder, Active, ActiveStatuses
  <2>2. QED
    BY <1>1, <2>1 DEF Locked
<1>3. /\ row \in SessionRow /\ row.status = "awaiting_consent" /\ row.consent = "none"
      /\ row.answers = NoAnswers
  BY DEF NoSession, SessionRow, ActiveStatuses, NoAnswers, Answers
<1> HIDE DEF row
<1>4. sessions' = [Expired EXCEPT ![s] = row]
  BY DEF Start, row
<1>5. sessions'[s] = row
  BY <1>4 DEF Expired
<1>6. ASSUME NEW t \in Sessions, t # s
      PROVE  /\ sessions'[t] \in SessionRow
             /\ sessions'[t].consent = sessions[t].consent
             /\ sessions'[t].answers = sessions[t].answers
             /\ \/ sessions'[t].status = "expired"
                \/ sessions'[t] = sessions[t] /\ t \notin Active
  <2>1. sessions[t] \in SessionRow
    BY DEF SessionsInOrder, TypeOK
  <2>2. sessions'[t] = IF t \in Active \cap late
                         THEN [sessions[t] EXCEPT !.status = "expired", !.field = NoField]
                         ELSE sessions[t]
    BY <1>4, <1>6 DEF Expired
  <2>3. QED
    BY <1>1, <2>1, <2>2 DEF SessionRow, ActiveStatuses
<1>7. sessions' \in [Sessions -> SessionRow]
  <2>1. \A t \in Sessions : sessions'[t] \in SessionRow
    BY <1>3, <1>5, <1>6
  <2>2. sessions' = [t \in Sessions |-> sessions'[t]]
    BY <1>4 DEF Expired
  <2>3. QED
    BY <2>1, <2>2
<1>8. run' = [run EXCEPT ![h] = NoRun] /\ workflow' = s
  BY DEF Start
<1>9. run' \in [Handlers -> Handler] /\ run'[h] = NoRun /\ \A g \in Handlers : g # h => run'[g] = run[g]
  BY <1>8 DEF SessionsInOrder, TypeOK, NoRun, Handler, NoAnswers, Answers
<1>10. UNCHANGED <<handoffVars, late, reviewed, processed, leads, qualified>>
  BY DEF Start
<1>11. TypeOK'
  BY <1>7, <1>8, <1>9, <1>10 DEF SessionsInOrder, TypeOK, HandoffTypeOK, handoffVars
<1>12. \A t \in Active' : t = s
  <2>1. "expired" \notin ActiveStatuses
    BY DEF ActiveStatuses
  <2>2. QED
    BY <1>6, <2>1 DEF Active
<1>13. OneActiveSession'
  BY <1>12 DEF OneActiveSession
<1>14. WorkflowIsActive'
  BY <1>3, <1>5, <1>8 DEF WorkflowIsActive, Active, ActiveStatuses
<1>15. OneOpenLead' /\ OneCompletes'
  BY <1>2, <1>9, <1>10 DEF SessionsInOrder, OneOpenLead, OneCompletes, NoRun
<1>16. sessions[s].consent = "none"
  BY <1>1 DEF NoSession
<1>17. ASSUME NEW t \in Sessions PROVE SessionInOrder(t)'
  <2>1. SessionInOrder(t)
    BY DEF SessionsInOrder
  <2>2. CASE t = s
    <3>1. s \notin reviewed \cup qualified
      BY <1>16, <2>1, <2>2 DEF SessionInOrder
    <3>2. \A f \in Fields : NoAnswers[f] = Nil
      BY DEF NoAnswers
    <3>3. QED
      BY <1>3, <1>5, <1>10, <2>2, <3>1, <3>2 DEF SessionInOrder
  <2>3. CASE t # s
    BY <1>6, <1>10, <2>1, <2>3 DEF SessionInOrder
  <2>4. QED
    BY <2>2, <2>3
<1>18. ASSUME NEW g \in Handlers PROVE RunInOrder(run[g])'
  <2>1. RunInOrder(run[g]) /\ run[g].step # "complete"
    BY <1>2 DEF SessionsInOrder
  <2>2. CASE g = h
    BY <1>9, <2>2 DEF RunInOrder, NoRun
  <2>3. CASE g # h
    BY <1>6, <1>9, <1>16, <2>1, <2>3 DEF RunInOrder
  <2>4. QED
    BY <2>2, <2>3
<1>19. QED
  BY <1>11, <1>13, <1>14, <1>15, <1>17, <1>18 DEF SessionsInOrder

\* Completion ends the session it holds, and writes the lead it has found or, when
\* there was none, the only one.
LEMMA CompletingKeepsOrder ==
  ASSUME SessionsInOrder, HandoffTypeOK',
         NEW h \in Handlers, NEW l \in Leads, Complete(h, l)
  PROVE  SessionsInOrder'
<1>0. PICK s \in Sessions : s = run[h].session
  BY DEF SessionsInOrder, RunInOrder, Complete
<1> DEFINE row == [sessions[s] EXCEPT !.status = "completed", !.lead = l]
           lead == [answers |-> run[h].answers, session |-> s]
<1>1. /\ run[h] \in Handler /\ RunInOrder(run[h]) /\ run[h].step = "complete"
      /\ sessions[s] \in SessionRow /\ SessionInOrder(s)
  BY DEF SessionsInOrder, TypeOK, Complete
<1>2. /\ sessions[s].consent = "accepted" /\ run[h].update \in Presses
      /\ run[h].lead = Nil => \A m \in Leads : leads[m].session = Nil
      /\ run[h].lead # Nil => leads[run[h].lead].session # Nil
  BY <1>0, <1>1 DEF RunInOrder
<1>3. /\ sessions' = [sessions EXCEPT ![s] = row]
      /\ run' = [run EXCEPT ![h] = NoRun]
      /\ leads' = [leads EXCEPT ![l] = lead]
      /\ run[h].lead # Nil => l = run[h].lead
      /\ qualified' = qualified \cup {s}
      /\ processed' = [processed EXCEPT ![run[h].update] = s]
      /\ workflow' = Nil /\ late' = late
  BY <1>0 DEF Complete, Write
<1>4. reviewed' = reviewed
  <2>1. row.status = "completed"
    BY <1>1 DEF SessionRow
  <2>2. QED
    BY <1>0, <2>1 DEF Complete, Write
<1>5. /\ row \in SessionRow /\ row.status = "completed" /\ row.consent = "accepted"
      /\ row.answers = sessions[s].answers
  BY <1>1, <1>2 DEF SessionRow
<1>6. lead \in LeadRow /\ lead.session = s
  BY <1>1 DEF LeadRow, Handler
<1> HIDE DEF row, lead
<1>7. /\ sessions' \in [Sessions -> SessionRow]
      /\ sessions'[s] = row
      /\ \A t \in Sessions : t # s => sessions'[t] = sessions[t]
  BY <1>3, <1>5 DEF SessionsInOrder, TypeOK
<1>8. /\ run' \in [Handlers -> Handler]
      /\ run'[h] = NoRun
      /\ \A g \in Handlers : g # h => run'[g] = run[g]
  BY <1>3 DEF SessionsInOrder, TypeOK, NoRun, Handler, NoAnswers, Answers
<1>9. /\ leads' \in [Leads -> LeadRow]
      /\ leads'[l].session = s
      /\ \A m \in Leads : m # l => leads'[m] = leads[m]
  BY <1>3, <1>6 DEF SessionsInOrder, TypeOK
<1>10. /\ processed' \in [Updates -> Sessions \cup {Nil}]
       /\ \A u \in Messages : processed'[u] = processed[u]
  BY <1>2, <1>3, QualificationAssumption DEF SessionsInOrder, TypeOK, Updates
<1>11. TypeOK'
  BY <1>3, <1>4, <1>7, <1>8, <1>9, <1>10 DEF SessionsInOrder, TypeOK
<1>12. OneActiveSession'
  <2>1. \A t \in Active' : t \in Active
    BY <1>5, <1>7 DEF Active, ActiveStatuses
  <2>2. QED
    BY <2>1 DEF SessionsInOrder, OneActiveSession
<1>13. OneOpenLead'
  <2>1. \A m \in Leads : m # l => leads[m].session = Nil
    <3>1. CASE run[h].lead = Nil
      BY <1>2, <3>1
    <3>2. CASE run[h].lead # Nil
      BY <1>2, <1>3, <3>2 DEF SessionsInOrder, OneOpenLead
    <3>3. QED
      BY <3>1, <3>2
  <2>2. QED
    BY <1>9, <2>1 DEF OneOpenLead
<1>14. WorkflowIsActive'
  BY <1>3 DEF WorkflowIsActive
<1>15. \A g \in Handlers : g # h => run[g].step # "complete"
  BY <1>1 DEF SessionsInOrder, OneCompletes
<1>16. OneCompletes'
  BY <1>8, <1>15 DEF OneCompletes, NoRun
<1>17. ASSUME NEW t \in Sessions PROVE SessionInOrder(t)'
  <2>1. /\ SessionInOrder(t)
        /\ \A f \in Fields : sessions[t].answers[f] \in Messages \cup {Nil}
    BY DEF SessionsInOrder, TypeOK, SessionRow, Answers
  <2>2. CASE t = s
    BY <1>5, <1>7, <1>10, <2>1, <2>2 DEF SessionInOrder
  <2>3. CASE t # s
    <3>1. sessions'[t] = sessions[t] /\ (t \in qualified' <=> t \in qualified)
      BY <1>3, <1>7, <2>3
    <3>2. QED
      BY <1>4, <1>10, <2>1, <3>1 DEF SessionInOrder
  <2>4. QED
    BY <2>2, <2>3
<1>18. ASSUME NEW g \in Handlers PROVE RunInOrder(run[g])'
  <2>1. CASE g = h
    BY <1>8, <2>1 DEF RunInOrder, NoRun
  <2>2. CASE g # h
    <3>1. run'[g] = run[g] /\ RunInOrder(run[g]) /\ run[g].step # "complete"
      BY <1>8, <1>15, <2>2 DEF SessionsInOrder
    <3>2. QED
      BY <1>2, <1>5, <1>7, <3>1 DEF RunInOrder
  <2>3. QED
    BY <2>1, <2>2
<1>19. QED
  BY <1>11, <1>12, <1>13, <1>14, <1>16, <1>17, <1>18 DEF SessionsInOrder

\* Time, and the steps of Handoff, touch a session at most through its workflow.
LEMMA OthersKeepOrder ==
  ASSUME SessionsInOrder, HandoffTypeOK', late' \subseteq Sessions,
         workflow' \in {Nil, workflow},
         UNCHANGED <<sessions, reviewed, processed, leads, qualified, run>>
  PROVE  SessionsInOrder'
<1>1. TypeOK'
  BY DEF SessionsInOrder, TypeOK
<1>2. OneActiveSession' /\ OneOpenLead' /\ WorkflowIsActive' /\ OneCompletes'
  BY DEF SessionsInOrder, OneActiveSession, OneOpenLead, WorkflowIsActive,
     OneCompletes, Active
<1>3. \A s \in Sessions : SessionInOrder(s)'
  BY DEF SessionsInOrder, SessionInOrder
<1>4. \A h \in Handlers : RunInOrder(run[h])'
  BY DEF SessionsInOrder, RunInOrder
<1>5. QED
  BY <1>1, <1>2, <1>3, <1>4 DEF SessionsInOrder

-----------------------------------------------------------------------------
(* The whole *)

InOrder == CasesInOrder /\ SessionsInOrder

\* A step that leaves the variables of Handoff alone leaves its cases in order.
LEMMA QuietKeepsCases == CasesInOrder /\ UNCHANGED handoffVars => CasesInOrder'
BY DEF handoffVars, CasesInOrder, HandoffTypeOK, OneRequestedCase, KeyIsNew,
   CreatorIsAlone, CallsAreKnown, Requested, Open

\* Every step keeps cases and sessions in order.
LEMMA NextKeepsOrder == InOrder /\ [Next]_vars => InOrder'
<1> SUFFICES ASSUME CasesInOrder, SessionsInOrder, [Next]_vars PROVE InOrder'
  BY DEF InOrder
<1>1. CASE Handoffs
  <2>1. CasesInOrder'
    BY <1>1, HandoffKeepsOrder DEF Handoffs
  <2>2. /\ HandoffTypeOK' /\ late' \subseteq Sessions
        /\ workflow' \in {Nil, workflow}
    BY <1>1, <2>1 DEF Handoffs, CasesInOrder, SessionsInOrder, TypeOK
  <2>3. QED
    BY <1>1, <2>1, <2>2, OthersKeepOrder DEF Handoffs, InOrder
<1>2. ASSUME NEW s \in Sessions, Lateness(s) PROVE InOrder'
  <2>1. CasesInOrder'
    BY <1>2, QuietKeepsCases DEF Lateness
  <2>2. HandoffTypeOK' /\ late' \subseteq Sessions
    BY <1>2, <2>1 DEF Lateness, CasesInOrder, SessionsInOrder, TypeOK
  <2>3. QED
    BY <1>2, <2>1, <2>2, OthersKeepOrder DEF Lateness, InOrder
<1>3. CASE ReadLate
  <2>1. CasesInOrder'
    BY <1>3, QuietKeepsCases DEF ReadLate
  <2> DEFINE K == Active \cap late
  <2>2. /\ K \subseteq Active /\ \E s \in Active : ~Locked(s)
        /\ sessions' = [s \in Sessions |->
              IF s \in K THEN [sessions[s] EXCEPT !.status = "expired", !.field = NoField]
                         ELSE sessions[s]]
    BY <1>3 DEF ReadLate, Expired
  <2>3. /\ workflow' = Nil
        /\ UNCHANGED <<handoffVars, late, reviewed, processed, leads, qualified, run>>
    BY SMTT(60), <1>3 DEF ReadLate
  <2> HIDE DEF K
  <2>4. SessionsInOrder'
    BY <2>2, <2>3, ClosingKeepsOrder
  <2>5. QED
    BY <2>1, <2>4 DEF InOrder
<1>4. CASE Cancel
  <2>1. CasesInOrder'
    BY <1>4, QuietKeepsCases DEF Cancel
  <2>2. /\ Active \subseteq Active /\ \E s \in Active : ~Locked(s)
        /\ sessions' = [s \in Sessions |->
              IF s \in Active
                THEN [sessions[s] EXCEPT !.status = "cancelled", !.field = NoField]
                ELSE sessions[s]]
        /\ workflow' = Nil
        /\ UNCHANGED <<handoffVars, late, reviewed, processed, leads, qualified, run>>
    BY ZenonT(60), <1>4 DEF Cancel
  <2>3. SessionsInOrder'
    BY <2>2, ClosingKeepsOrder
  <2>4. QED
    BY <2>1, <2>3 DEF InOrder
<1>5. ASSUME NEW h \in Handlers,
             \/ BeginStart(h)
             \/ \E u \in Messages : BeginAnswer(h, u)
             \/ \E u \in Presses, s \in Sessions :
                  \/ BeginSubmit(h, u, s)
                  \/ \E d \in {"accept", "decline"} : BeginConsent(h, u, s, d)
             \/ \E s \in Sessions, f \in Fields : BeginEdit(h, s, f)
      PROVE  InOrder'
  <2>1. UNCHANGED handoffVars
    BY <1>5 DEF BeginStart, BeginAnswer, BeginSubmit, BeginConsent, BeginEdit, Begin
  <2>2. QED
    BY <1>5, <2>1, QuietKeepsCases, ReadingKeepsOrder DEF InOrder
<1>6. ASSUME NEW h \in Handlers, NEW s \in Sessions, Start(h, s) PROVE InOrder'
  BY <1>6, QuietKeepsCases, StartingKeepsOrder DEF Start, InOrder
<1>7. ASSUME NEW h \in Handlers,
             DecideConsent(h) \/ RecordAnswer(h) \/ Edit(h) \/ LookForLead(h) \/ Leave(h)
      PROVE  InOrder'
  <2>1. UNCHANGED handoffVars
    BY <1>7 DEF DecideConsent, RecordAnswer, Edit, LookForLead, Leave
  <2>2. SessionsInOrder'
    BY <1>7, DecidingKeepsOrder, RecordingKeepsOrder, EditingKeepsOrder,
       LookingKeepsOrder, LeavingKeepsOrder
  <2>3. QED
    BY <2>1, <2>2, QuietKeepsCases DEF InOrder
<1>8. ASSUME NEW h \in Handlers, NEW l \in Leads, Complete(h, l) PROVE InOrder'
  <2>1. run[h].session \in Sessions
    BY <1>8 DEF SessionsInOrder, RunInOrder, Complete
  <2>2. \/ UNCHANGED handoffVars
        \/ \E c \in Cases : Queue(c, run[h].session) /\ UNCHANGED ask
    BY <1>8 DEF Complete
  <2>3. CasesInOrder'
    BY <2>1, <2>2, QuietKeepsCases, EscalationKeepsOrder
  <2>4. HandoffTypeOK'
    BY <2>3 DEF CasesInOrder
  <2>5. QED
    BY <1>8, <2>3, <2>4, CompletingKeepsOrder DEF InOrder
<1>9. CASE UNCHANGED vars
  <2>1. CasesInOrder'
    BY <1>9, QuietKeepsCases DEF vars
  <2>2. HandoffTypeOK' /\ late' \subseteq Sessions
    BY <1>9, <2>1 DEF vars, sessionVars, CasesInOrder, SessionsInOrder, TypeOK
  <2>3. QED
    BY <1>9, <2>1, <2>2, OthersKeepOrder DEF vars, sessionVars, InOrder
<1>10. QED
  BY <1>1, <1>2, <1>3, <1>4, <1>5, <1>6, <1>7, <1>8, <1>9 DEF Next

\* Cases and sessions are always in order.
THEOREM AlwaysInOrder == Spec => []InOrder
<1>1. Init => InOrder
  BY InitCasesInOrder, InitSessionsInOrder DEF Init, InOrder
<1>2. QED
  BY <1>1, NextKeepsOrder, PTL DEF Spec

-----------------------------------------------------------------------------
(* The theorems *)

\* Every variable has its type, whatever handlers remember of rows that changed.
THEOREM TypeCorrect == Spec => []TypeOK
<1>1. InOrder => TypeOK
  BY DEF InOrder, SessionsInOrder
<1>2. QED
  BY <1>1, AlwaysInOrder, PTL

\* A customer has one session at a time, for all edits that revive old ones.
THEOREM SessionsExclusive == Spec => []OneActiveSession
<1>1. InOrder => OneActiveSession
  BY DEF InOrder, SessionsInOrder
<1>2. QED
  BY <1>1, AlwaysInOrder, PTL

\* No answer is kept and no lead made of a customer who has not consented.
THEOREM ConsentFirst == Spec => []ConsentComesFirst
<1>1. InOrder => ConsentComesFirst
  BY DEF InOrder, SessionsInOrder, SessionInOrder, ConsentComesFirst
<1>2. QED
  BY <1>1, AlwaysInOrder, PTL

\* A message is the answer to one field of one session, however often it comes.
THEOREM MessagesUsedOnce == Spec => []MessageAnswersOnce
<1>1. ASSUME InOrder PROVE MessageAnswersOnce
  <2>1. \A s \in Sessions : SessionInOrder(s)
    BY <1>1 DEF InOrder, SessionsInOrder
  <2>2. ASSUME NEW s \in Sessions, NEW t \in Sessions, NEW f \in Fields, NEW g \in Fields,
               sessions[s].answers[f] = sessions[t].answers[g],
               sessions[s].answers[f] # Nil
        PROVE  s = t /\ f = g
    <3>1. /\ processed[sessions[s].answers[f]] = s
          /\ processed[sessions[t].answers[g]] = t
      BY <2>1, <2>2 DEF SessionInOrder
    <3>2. s = t
      BY <2>2, <3>1
    <3>3. QED
      BY <2>1, <2>2, <3>2 DEF SessionInOrder
  <2>3. QED
    BY <2>2 DEF MessageAnswersOnce
<1>2. QED
  BY <1>1, AlwaysInOrder, PTL

\* All completions of a conversation share one open lead.
THEOREM LeadIsShared == Spec => []OneOpenLead
<1>1. InOrder => OneOpenLead
  BY DEF InOrder, SessionsInOrder
<1>2. QED
  BY <1>1, AlwaysInOrder, PTL

\* The workflow of the conversation is no session that has ended.
THEOREM WorkflowFollows == Spec => []WorkflowIsActive
<1>1. InOrder => WorkflowIsActive
  BY DEF InOrder, SessionsInOrder
<1>2. QED
  BY <1>1, AlwaysInOrder, PTL

\* Requests of a customer queue one case at a time.
THEOREM RequestsShareACase == Spec => []OneRequestedCase
<1>1. InOrder => OneRequestedCase
  BY DEF InOrder, CasesInOrder
<1>2. QED
  BY <1>1, AlwaysInOrder, PTL

\* The unique key of cases never refuses the case of a request.
THEOREM RequestKeysAreNew == Spec => []KeyIsNew
<1>1. InOrder => KeyIsNew
  BY DEF InOrder, CasesInOrder
<1>2. QED
  BY <1>1, AlwaysInOrder, PTL
================================================================================
