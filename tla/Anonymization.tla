----------------------------- MODULE Anonymization -----------------------------
(***************************************************************************)
(* A person on Telegram, the customers that the person's messages were     *)
(* taken for, and the erasure of a customer.  Each message first resolves  *)
(* the external user to a customer and a conversation, in a transaction    *)
(* of its own, and then works with the identity that it holds; owners may  *)
(* anonymize the customer meanwhile, and staff goes on with its cases.     *)
(***************************************************************************)
EXTENDS FiniteSets

CONSTANTS
  Customers, Conversations, Rows,   \* ids of rows not yet inserted
  Requests,                         \* messages and presses of the person in flight
  Nil

ASSUME AnonymizationAssumption == Nil \notin Customers \cup Conversations

VARIABLES
  customers,        \* customers.status
  identity,         \* the customer whose channel identity names the person
  conversations,    \* their owners, and conversations.status
  rows,             \* booking drafts, qualification sessions and handoff cases
  requests,         \* the identity that each request holds
  erasures          \* the anonymization of each customer that is in flight

vars == <<customers, identity, conversations, rows, requests, erasures>>

Kinds == {"draft", "session", "case"}
Open == {"active_bot", "handoff_queued", "human_active"}
Conversation == [customer : Customers \cup {Nil}, status : Open \cup {"unused", "closed"}]

\* The personal part of a row is its contact data, its answers or its context.
Row == [conversation : Conversations \cup {Nil}, kind : Kinds,
        status : {"unused", "live", "ended", "cancelled"}, personal : BOOLEAN]

Request == [step : {"idle", "resolving", "resolved"}, customer : Customers \cup {Nil},
            conversation : Conversations \cup {Nil}]
NoRequest == [step |-> "idle", customer |-> Nil, conversation |-> Nil]

Erasure == [step : {"none", "open", "swept"}, rows : SUBSET Rows,
            conversations : SUBSET Conversations]
NoErasure == [step |-> "none", rows |-> {}, conversations |-> {}]

Exists(r) == rows[r].status # "unused"
OwnerOf(r) == conversations[rows[r].conversation].customer
RowsOf(c) == {r \in Rows : Exists(r) /\ OwnerOf(r) = c}
ConversationsOf(c) == {v \in Conversations : conversations[v].customer = c}

TypeOK ==
  /\ customers \in [Customers -> {"unused", "active", "anonymized"}]
  /\ identity \in Customers \cup {Nil}
  /\ conversations \in [Conversations -> Conversation]
  /\ rows \in [Rows -> Row]
  /\ requests \in [Requests -> Request]
  /\ erasures \in [Customers -> Erasure]
  /\ identity # Nil => customers[identity] = "active"
  /\ \A v \in Conversations :
       conversations[v].status = "unused" <=> conversations[v].customer = Nil
  /\ \A r \in Rows : Exists(r) => conversations[rows[r].conversation].status # "unused"
  /\ \A q \in Requests : requests[q].step = "resolved" => requests[q].conversation # Nil

Init ==
  /\ customers = [c \in Customers |-> "unused"]
  /\ identity = Nil
  /\ conversations = [v \in Conversations |-> [customer |-> Nil, status |-> "unused"]]
  /\ rows = [r \in Rows |-> [conversation |-> Nil, kind |-> "draft", status |-> "unused",
                             personal |-> FALSE]]
  /\ requests = [q \in Requests |-> NoRequest]
  /\ erasures = [c \in Customers |-> NoErasure]

-----------------------------------------------------------------------------
(* Locks.  An erasure holds the customer's row from its first step on: an  *)
(* insert of a row that refers to the customer waits for it.  It holds     *)
(* the rows it has swept: an update of one waits, and then reads the row   *)
(* that the erasure has left.                                              *)

CustomerFreeAlways(c) == TRUE                                \* faulty variant
CustomerFree(c) == erasures[c].step = "none"
RowFree(r) == \A c \in Customers : r \notin erasures[c].rows
ConversationFree(v) == \A c \in Customers : v \notin erasures[c].conversations

-----------------------------------------------------------------------------
(* SQLAlchemyTelegramIdentityStore.resolve *)

\* The lock on the external user, and the read of its identity.
OpenResolve(q) ==
  /\ requests[q].step = "idle"
  /\ \A p \in Requests : requests[p].step # "resolving"
  /\ requests' = [requests EXCEPT ![q] = [step |-> "resolving", customer |-> identity,
                                          conversation |-> Nil]]
  /\ UNCHANGED <<customers, identity, conversations, rows, erasures>>

Resolved(q, c, v) ==
  /\ requests' = [requests EXCEPT ![q] = [step |-> "resolved", customer |-> c,
                                          conversation |-> v]]
  /\ UNCHANGED <<rows, erasures>>

NewConversation(v, c) ==
  /\ conversations[v].status = "unused"
  /\ conversations' = [conversations EXCEPT ![v] = [customer |-> c, status |-> "active_bot"]]

\* Nobody knows the person: a customer, an identity and a conversation.
ResolveNew(q, c, v) ==
  /\ requests[q].step = "resolving" /\ requests[q].customer = Nil
  /\ customers[c] = "unused"
  /\ customers' = [customers EXCEPT ![c] = "active"]
  /\ identity' = c
  /\ NewConversation(v, c)
  /\ Resolved(q, c, v)

\* The conversation of a known customer that is open, or another one.
ResolveKnown(q, v) ==
  LET c == requests[q].customer
      open == {u \in ConversationsOf(c) : conversations[u].status \in Open}
  IN  /\ requests[q].step = "resolving" /\ c # Nil
      /\ IF open # {} THEN v \in open /\ UNCHANGED conversations
         ELSE CustomerFree(c) /\ NewConversation(v, c)
      /\ Resolved(q, c, v)
      /\ UNCHANGED <<customers, identity>>

\* The request is through, or it fails.
End(q) ==
  /\ requests[q].step # "idle"
  /\ requests' = [requests EXCEPT ![q] = NoRequest]
  /\ UNCHANGED <<customers, identity, conversations, rows, erasures>>

-----------------------------------------------------------------------------
(* What requests do with the identity they hold *)

Holds(q, r) ==
  /\ requests[q].step = "resolved"
  /\ Exists(r) /\ rows[r].conversation = requests[q].conversation

Live(r) == rows[r].status = "live"
LiveOrNot(r) == Exists(r)                                    \* faulty variant

\* A new draft or session has no personal part yet; a case has.  A case takes
\* the conversation away from the bot, and there is one at a time.
Start(q, r, kind) ==
  LET v == requests[q].conversation
  IN  /\ requests[q].step = "resolved" /\ ~Exists(r)
      /\ CustomerFree(requests[q].customer)
      /\ rows' = [rows EXCEPT ![r] = [conversation |-> v, kind |-> kind, status |-> "live",
                                      personal |-> kind = "case"]]
      /\ IF kind = "case"
         THEN /\ \A s \in Rows : ~(Holds(q, s) /\ rows[s].kind = "case" /\ Live(s))
              /\ conversations' = [conversations EXCEPT ![v].status = "handoff_queued"]
         ELSE UNCHANGED conversations
      /\ UNCHANGED <<customers, identity, requests, erasures>>

Update(r, fields) ==
  /\ RowFree(r)
  /\ rows' = [rows EXCEPT ![r] = fields]
  /\ UNCHANGED <<customers, identity, requests, erasures>>

Writable(r) == Live(r)

\* update_contact and record_answer.
Write(q, r) ==
  /\ Holds(q, r) /\ rows[r].kind # "case" /\ Writable(r)
  /\ Update(r, [rows[r] EXCEPT !.personal = TRUE])
  /\ UNCHANGED conversations

\* A draft is confirmed or cancelled, a session completed or cancelled.
Finish(q, r) ==
  /\ Holds(q, r) /\ rows[r].kind # "case" /\ Live(r)
  /\ Update(r, [rows[r] EXCEPT !.status = "ended"])
  /\ UNCHANGED conversations

\* review with a field to edit asks for no status.
Edit(q, r) ==
  /\ Holds(q, r) /\ rows[r].kind = "session"
  /\ Update(r, [rows[r] EXCEPT !.status = "live"])
  /\ UNCHANGED conversations

\* Staff works on a case, whatever the conversation's status.
Staff(r, from, to, status) ==
  /\ rows[r].kind = "case" /\ rows[r].status = from
  /\ Update(r, [rows[r] EXCEPT !.status = to])
  /\ LET v == rows[r].conversation
     IN  IF status = conversations[v].status THEN UNCHANGED conversations
         ELSE ConversationFree(v) /\ conversations' = [conversations EXCEPT ![v].status = status]

Claim(r) == Staff(r, "live", "live", "human_active")
Settle(r) == Staff(r, "live", "ended", conversations[rows[r].conversation].status)
Reopen(r) == Staff(r, "ended", "live", "handoff_queued")
ReturnToBot(r) == Staff(r, "ended", "ended", "active_bot")

-----------------------------------------------------------------------------
(* SQLAlchemyPrivacyStore.anonymize_customer *)

Advance(c, fields) ==
  /\ erasures' = [erasures EXCEPT ![c] = fields]
  /\ UNCHANGED requests

\* The lock on the customer.
OpenErasure(c) ==
  /\ customers[c] # "unused" /\ erasures[c].step = "none"
  /\ Advance(c, [NoErasure EXCEPT !.step = "open"])
  /\ UNCHANGED <<customers, identity, conversations, rows>>

\* The statements, each of which locks the rows that it finds.
Sweep(c) ==
  /\ erasures[c].step = "open"
  /\ Advance(c, [step |-> "swept", rows |-> RowsOf(c), conversations |-> ConversationsOf(c)])
  /\ UNCHANGED <<customers, identity, conversations, rows>>

Erased(row) == [row EXCEPT !.personal = FALSE,
                           !.status = IF @ = "live" THEN "cancelled" ELSE @]

IdentityAfter(c) == IF identity = c THEN Nil ELSE identity

Anonymize(c) ==
  /\ erasures[c].step = "swept"
  /\ customers' = [customers EXCEPT ![c] = "anonymized"]
  /\ identity' = IdentityAfter(c)
  /\ conversations' = [v \in Conversations |->
       IF v \in erasures[c].conversations
         THEN [conversations[v] EXCEPT !.status = "closed"] ELSE conversations[v]]
  /\ rows' = [r \in Rows |-> IF r \in erasures[c].rows THEN Erased(rows[r]) ELSE rows[r]]
  /\ Advance(c, NoErasure)

\* A statement fails, a deadlock is broken, or the process dies.
Abort(c) ==
  /\ erasures[c].step # "none"
  /\ Advance(c, NoErasure)
  /\ UNCHANGED <<customers, identity, conversations, rows>>

-----------------------------------------------------------------------------
Next ==
  \/ \E q \in Requests :
       \/ OpenResolve(q) \/ End(q)
       \/ \E c \in Customers, v \in Conversations : ResolveNew(q, c, v)
       \/ \E v \in Conversations : ResolveKnown(q, v)
       \/ \E r \in Rows : \/ \E kind \in Kinds : Start(q, r, kind)
                          \/ Write(q, r) \/ Finish(q, r) \/ Edit(q, r)
  \/ \E r \in Rows : Claim(r) \/ Settle(r) \/ Reopen(r) \/ ReturnToBot(r)
  \/ \E c \in Customers : OpenErasure(c) \/ Sweep(c) \/ Anonymize(c) \/ Abort(c)

Spec == Init /\ [][Next]_vars

-----------------------------------------------------------------------------
(* Properties *)

\* When a customer has been anonymized nothing personal, no live draft, session
\* or case and no open conversation is left, whatever was under way.
AnonymizationLeavesNothing ==
  [][\A c \in Customers : erasures[c].step = "swept" /\ customers'[c] = "anonymized"
                          /\ erasures'[c].step = "none" /\ customers' # customers
       => /\ \A v \in ConversationsOf(c)' : conversations'[v].status = "closed"
          /\ \A r \in RowsOf(c)' : ~rows'[r].personal /\ rows'[r].status # "live"]_vars

\* A draft that has been emptied is never filled again, not even by a request
\* that held the customer's identity before.
EmptiedDraftsStayEmpty ==
  [][\A r \in Rows :
       Exists(r) /\ rows[r].kind = "draft" /\ customers[OwnerOf(r)] = "anonymized"
       /\ rows[r].status # "live" /\ ~rows[r].personal
       => ~rows'[r].personal]_vars
================================================================================
