----------------------------- MODULE Qualification -----------------------------
(***************************************************************************)
(* The qualification sessions of one customer's conversation, the leads    *)
(* they end in, and the handoff cases they queue.  A handler reads the     *)
(* active session in one transaction and acts on it in another, which      *)
(* locks the session row and checks less than the first has read.  The     *)
(* customer's updates may be delivered more than once and run at a time.   *)
(***************************************************************************)
EXTENDS Handoff

CONSTANTS
  Messages,        \* text messages, with their update keys
  Presses,         \* presses of consent and submit buttons, with their update keys
  Fields,          \* fields of the schema, numbered in their order
  Required,        \* fields without which a session can not be submitted
  Alarming,        \* messages that match a handoff trigger
  Leads,           \* rows of leads, used once each
  Handlers         \* runs of the qualification handlers in flight

ASSUME QualificationAssumption ==
  /\ Fields \subseteq Nat \ {0}
  /\ Required \subseteq Fields
  /\ Alarming \subseteq Messages /\ Messages \cap Presses = {}
  /\ Nil \notin Messages \cup Presses \cup Leads

VARIABLES
  sessions,        \* qualification_sessions
  late,            \* sessions whose expires_at has passed
  reviewed,        \* sessions the customer was shown for review, with buttons
  processed,       \* qualification_session_updates: the session of each key
  leads,           \* leads, with the session they were last written from
  qualified,       \* sessions whose lead.qualified event is in the outbox
  workflow,        \* the session named by conversations.active_workflow
  run              \* handlers in flight

sessionVars == <<sessions, late, reviewed, processed, leads, qualified, workflow, run>>
vars == <<handoffVars, sessionVars>>

ActiveStatuses == {"awaiting_consent", "in_progress", "reviewing"}
NoField == 0
Updates == Messages \cup Presses
Answers == [Fields -> Messages \cup {Nil}]

SessionRow ==
  [status : ActiveStatuses \cup {"unused", "completed", "declined", "cancelled", "expired"},
   answers : Answers, field : Fields \cup {NoField},
   consent : {"none", "accepted", "declined"}, lead : Leads \cup {Nil}]

LeadRow == [answers : Answers, session : Sessions \cup {Nil}]

Handler == [step : {"idle", "start", "accept", "decline", "answer", "edit", "submit",
                    "complete"},
            update : Updates \cup {Nil}, session : Sessions \cup {Nil},
            field : Fields \cup {NoField}, answers : Answers, lead : Leads \cup {Nil}]

NoAnswers == [f \in Fields |-> Nil]
NoSession == [status |-> "unused", answers |-> NoAnswers, field |-> NoField,
              consent |-> "none", lead |-> Nil]
NoLead == [answers |-> NoAnswers, session |-> Nil]
NoRun == [step |-> "idle", update |-> Nil, session |-> Nil, field |-> NoField,
          answers |-> NoAnswers, lead |-> Nil]

TypeOK ==
  /\ HandoffTypeOK
  /\ sessions \in [Sessions -> SessionRow]
  /\ late \subseteq Sessions /\ reviewed \subseteq Sessions
  /\ processed \in [Updates -> Sessions \cup {Nil}]
  /\ leads \in [Leads -> LeadRow]
  /\ qualified \subseteq Sessions
  /\ workflow \in Sessions \cup {Nil}
  /\ run \in [Handlers -> Handler]

Init ==
  /\ HandoffInit
  /\ sessions = [s \in Sessions |-> NoSession]
  /\ late = {} /\ reviewed = {} /\ qualified = {}
  /\ processed = [u \in Updates |-> Nil]
  /\ leads = [l \in Leads |-> NoLead]
  /\ workflow = Nil
  /\ run = [h \in Handlers |-> NoRun]

-----------------------------------------------------------------------------
(* The active session *)

Active == {s \in Sessions : sessions[s].status \in ActiveStatuses}

\* active_session finds it if it has not expired.
Usable == Active \ late

\* What expiry makes of the rows: active_session and start do it when they meet
\* an active session that is late.
Expired == [s \in Sessions |->
              IF s \in Active \cap late
                THEN [sessions[s] EXCEPT !.status = "expired", !.field = NoField]
                ELSE sessions[s]]

NextMissingPosition(answers) ==                              \* faulty variant
  LET missing == {f \in Required : answers[f] = Nil}
  IN IF missing = {} THEN NoField
                     ELSE 1 + CHOOSE f \in missing : \A g \in missing : f <= g

\* next_missing_field
NextMissing(answers) ==
  LET missing == {f \in Required : answers[f] = Nil}
  IN IF missing = {} THEN NoField
                     ELSE CHOOSE f \in missing : \A g \in missing : f <= g

Begin(h, step, u, s, f, answers) ==
  /\ run[h] = NoRun
  /\ ~Paused
  /\ run' = [run EXCEPT ![h] = [step |-> step, update |-> u, session |-> s,
                                field |-> f, answers |-> answers, lead |-> Nil]]
  /\ UNCHANGED <<handoffVars, sessions, late, reviewed, processed, leads,
                 qualified, workflow>>

\* complete holds the lock of the session row from its first read on.
Locked(s) == \E h \in Handlers : run[h].step = "complete" /\ run[h].session = s

\* Row s gets the value row, and the run of h ends.
Write(h, s, row) ==
  /\ sessions' = [sessions EXCEPT ![s] = row]
  /\ reviewed' = IF row.status = "reviewing" THEN reviewed \cup {s} ELSE reviewed
  /\ run' = [run EXCEPT ![h] = NoRun]

\* The run ends with nothing done: an exception, a dead process, or a call
\* answered from what it has read.
Leave(h) ==
  /\ run[h] # NoRun
  /\ run' = [run EXCEPT ![h] = NoRun]
  /\ UNCHANGED <<handoffVars, sessions, late, reviewed, processed, leads,
                 qualified, workflow>>

\* expires_at passes.
Lateness(s) ==
  /\ s \in Usable
  /\ late' = late \cup {s}
  /\ UNCHANGED <<handoffVars, sessions, reviewed, processed, leads, qualified,
                 workflow, run>>

ReadLateKeepsWorkflow ==                                     \* faulty variant
  /\ \E s \in Active \cap late : ~Locked(s)
  /\ sessions' = Expired
  /\ UNCHANGED <<handoffVars, late, reviewed, processed, leads, qualified,
                 workflow, run>>

\* Any handler that reads the active session and finds it late ends it; those
\* below go on only with one that is not.
ReadLate ==
  /\ \E s \in Active \cap late : ~Locked(s)
  /\ sessions' = Expired
  /\ workflow' = Nil
  /\ UNCHANGED <<handoffVars, late, reviewed, processed, leads, qualified, run>>

-----------------------------------------------------------------------------
(* Starting, consent and cancelling *)

\* /qualify.  A session that can be resumed is.
BeginStart(h) == Active = {} /\ Begin(h, "start", Nil, Nil, NoField, NoAnswers)

\* A new row, when no session is active or the active one is late.
Startable(s) ==
  sessions[s] = NoSession /\ Usable = {} /\ \A t \in Active : ~Locked(t)

\* start of the store; a conversation that is not with the bot raises.
Start(h, s) ==
  /\ run[h].step = "start"
  /\ Startable(s)
  /\ status = "active_bot"
  /\ sessions' = [Expired EXCEPT ![s] = [NoSession EXCEPT !.status = "awaiting_consent"]]
  /\ workflow' = s
  /\ run' = [run EXCEPT ![h] = NoRun]
  /\ UNCHANGED <<handoffVars, late, reviewed, processed, leads, qualified>>

\* A press that is delivered again is the press of the same button.
SamePress(u, step, s) ==
  /\ processed[u] \in {s, Nil}
  /\ \A g \in Handlers :
       run[g].update = u => run[g].step = step /\ run[g].session = s

\* The buttons under the consent text of session s.
BeginConsent(h, u, s, decision) ==
  /\ sessions[s] # NoSession
  /\ SamePress(u, decision, s)
  /\ Begin(h, decision, u, s, NoField, NoAnswers)

NotRepeated(u) == TRUE                                       \* faulty variant

\* _is_duplicate lets an update through that has not been processed.
NotProcessed(u) == processed[u] = Nil

UndecidedAlways(s) == sessions[s] # NoSession                \* faulty variant

Undecided(s) == sessions[s].status = "awaiting_consent"

\* decide_consent
DecideConsent(h) ==
  LET s == run[h].session
      u == run[h].update
      first == NextMissing(NoAnswers)
  IN /\ run[h].step \in {"accept", "decline"}
     /\ NotProcessed(u)
     /\ Undecided(s) /\ ~Locked(s)
     /\ IF run[h].step = "accept"
          THEN /\ Write(h, s, [sessions[s] EXCEPT
                    !.status = IF first = NoField THEN "reviewing" ELSE "in_progress",
                    !.consent = "accepted", !.field = first])
               /\ UNCHANGED workflow
          ELSE /\ Write(h, s, [sessions[s] EXCEPT !.status = "declined",
                                 !.consent = "declined"])
               /\ workflow' = Nil
     /\ processed' = [processed EXCEPT ![u] = s]
     /\ UNCHANGED <<handoffVars, late, leads, qualified>>

\* cancel, whatever the active session has come to.
Cancel ==
  /\ \E s \in Active : ~Locked(s)
  /\ sessions' = [s \in Sessions |->
       IF s \in Active THEN [sessions[s] EXCEPT !.status = "cancelled", !.field = NoField]
                       ELSE sessions[s]]
  /\ workflow' = Nil
  /\ UNCHANGED <<handoffVars, late, reviewed, processed, leads, qualified, run>>

-----------------------------------------------------------------------------
(* Answers *)

\* A text message answers the current field of the session in progress.
BeginAnswer(h, u) ==
  \E s \in Usable :
    /\ sessions[s].status = "in_progress"
    /\ Begin(h, "answer", u, s, sessions[s].field, NoAnswers)

Expects(s, f) == sessions[s].status = "in_progress" /\ sessions[s].field = f

\* record_answer
RecordAnswer(h) ==
  LET s == run[h].session
      u == run[h].update
      answers == [sessions[s].answers EXCEPT ![run[h].field] = u]
      next == NextMissing(answers)
  IN /\ run[h].step = "answer"
     /\ NotProcessed(u)
     /\ Expects(s, run[h].field) /\ ~Locked(s)
     /\ Write(h, s, [sessions[s] EXCEPT !.answers = answers, !.field = next,
                       !.status = IF next = NoField THEN "reviewing" ELSE @])
     /\ processed' = [processed EXCEPT ![u] = s]
     /\ UNCHANGED <<handoffVars, late, leads, qualified, workflow>>

\* A button under the review of session s, which must be the active one.
BeginEdit(h, s, f) ==
  /\ s \in reviewed \cap Usable
  /\ Begin(h, "edit", Nil, s, f, NoAnswers)

IndexIgnored(s) == TRUE                                      \* faulty variant

\* uq_qualification_sessions_tenant_identity_active
IndexAllows(s) == Active \ {s} = {}

\* review with a field to edit, whatever has become of the session meanwhile.
Edit(h) ==
  LET s == run[h].session
  IN /\ run[h].step = "edit"
     /\ IndexAllows(s) /\ ~Locked(s)
     /\ Write(h, s, [sessions[s] EXCEPT !.status = "in_progress", !.field = run[h].field])
     /\ UNCHANGED <<handoffVars, late, processed, leads, qualified, workflow>>

-----------------------------------------------------------------------------
(* Submission *)

\* submit reads the answers, and makes the lead and the trigger of them.
BeginSubmit(h, u, s) ==
  /\ s \in reviewed \cap Usable
  /\ NextMissing(sessions[s].answers) = NoField
  /\ SamePress(u, "submit", s)
  /\ Begin(h, "submit", u, s, NoField, sessions[s].answers)

LeadMissed == Nil                                            \* faulty variant

\* The open lead of an earlier session.
OpenLead ==
  IF \E l \in Leads : leads[l].session # Nil
    THEN CHOOSE l \in Leads : leads[l].session # Nil ELSE Nil

Triggered(answers) == \E f \in Fields : answers[f] \in Alarming

\* complete locks the session and looks for an open lead.  There may be no row to
\* lock.
LookForLead(h) ==
  LET s == run[h].session
  IN /\ run[h].step = "submit"
     /\ NotProcessed(run[h].update)
     /\ sessions[s].status = "reviewing" /\ ~Locked(s)
     /\ run' = [run EXCEPT ![h].step = "complete", ![h].lead = OpenLead]
     /\ UNCHANGED <<handoffVars, sessions, late, reviewed, processed, leads,
                    qualified, workflow>>

\* The rest of complete.  The key of the event lets a session complete once.
Complete(h, l) ==
  LET s == run[h].session
  IN /\ run[h].step = "complete"
     /\ s \notin qualified
     /\ IF run[h].lead = Nil THEN leads[l] = NoLead ELSE l = run[h].lead
     /\ leads' = [leads EXCEPT ![l] = [answers |-> run[h].answers, session |-> s]]
     /\ Write(h, s, [sessions[s] EXCEPT !.status = "completed", !.lead = l])
     /\ qualified' = qualified \cup {s}
     /\ workflow' = Nil
     /\ IF Triggered(run[h].answers)
          THEN \E c \in Cases : Queue(c, s) /\ UNCHANGED ask
          ELSE UNCHANGED handoffVars
     /\ processed' = [processed EXCEPT ![run[h].update] = s]
     /\ UNCHANGED late

-----------------------------------------------------------------------------
\* create_or_get also ends the workflow.
Handoffs ==
  /\ HandoffNext
  /\ workflow' = IF \E c \in Cases : cases[c] = NoCase /\ cases'[c] # NoCase
                   THEN Nil ELSE workflow
  /\ UNCHANGED <<sessions, late, reviewed, processed, leads, qualified, run>>

Next ==
  \/ Handoffs
  \/ \E s \in Sessions : Lateness(s)
  \/ ReadLate \/ Cancel
  \/ \E h \in Handlers :
       \/ BeginStart(h)
       \/ \E s \in Sessions : Start(h, s)
       \/ \E u \in Messages : BeginAnswer(h, u)
       \/ \E u \in Presses, s \in Sessions :
            BeginSubmit(h, u, s) \/ \E d \in {"accept", "decline"} : BeginConsent(h, u, s, d)
       \/ \E s \in Sessions, f \in Fields : BeginEdit(h, s, f)
       \/ DecideConsent(h) \/ RecordAnswer(h) \/ Edit(h)
       \/ LookForLead(h)
       \/ \E l \in Leads : Complete(h, l)
       \/ Leave(h)

Spec == Init /\ [][Next]_vars

-----------------------------------------------------------------------------
(* Properties *)

\* A customer has one session at a time, though start, which the advisory lock
\* guards, and edit, which revives whatever it meets, do not exclude each other.
OneActiveSession == \A s, t \in Active : s = t

\* Nothing is stored of a customer who has not consented, and no lead made:
\* edit asks for no status, complete for no consent.
ConsentComesFirst ==
  \A s \in Sessions :
    sessions[s].answers # NoAnswers \/ s \in qualified => sessions[s].consent = "accepted"

\* A message answers one field of one session, however often it is delivered.
MessageAnswersOnce ==
  \A s, t \in Sessions, f, g \in Fields :
    /\ sessions[s].answers[f] = sessions[t].answers[g]
    /\ sessions[s].answers[f] # Nil
    => s = t /\ f = g

\* Completion creates or updates the one open lead of the conversation, although
\* it locks no lead that is not there yet and no key of leads guards this.
OneOpenLead ==
  \A l, m \in Leads : leads[l].session # Nil /\ leads[m].session # Nil => l = m

\* The workflow of a conversation names the session that is active.
WorkflowIsActive == workflow # Nil => workflow \in Active
=============================================================================
