----------------------------- MODULE PrivacyProofs -----------------------------
(***************************************************************************)
(* Theorems of the two components of privacy.py: of Anonymization for any  *)
(* customers, conversations, rows and requests, and of Retention for any   *)
(* tenants, records, periods, tasks, batches and numbers of days and       *)
(* versions.  They share no state.                                         *)
(***************************************************************************)
EXTENDS Anonymization, Retention, TLAPS

-----------------------------------------------------------------------------
(* Anonymization: the inductive invariant *)

\* A row in use belongs to a conversation in use.
RowsBelong ==
  \A r \in Rows : Exists(r) =>
    rows[r].conversation \in Conversations /\ OwnerOf(r) \in Customers

\* A request that has resolved the person holds a conversation of the customer
\* that it holds, however long ago it was resolved.
RequestsHold ==
  \A q \in Requests : requests[q].step = "resolved" =>
    /\ requests[q].conversation \in Conversations
    /\ requests[q].customer \in Customers
    /\ conversations[requests[q].conversation].customer = requests[q].customer

\* The sweep of an erasure has found, and holds, everything of its customer:
\* nothing can be added while the customer's row is locked.
SweepsComplete ==
  \A c \in Customers :
    /\ erasures[c].step # "none" => customers[c] # "unused"
    /\ erasures[c].conversations \subseteq ConversationsOf(c)
    /\ erasures[c].step = "swept" =>
         /\ RowsOf(c) \subseteq erasures[c].rows
         /\ ConversationsOf(c) \subseteq erasures[c].conversations

Kept == TypeOK /\ RowsBelong /\ RequestsHold /\ SweepsComplete

-----------------------------------------------------------------------------
(* Lemmas: what a step may change *)

\* The rows of a customer and the conversations of a customer, where neither
\* rows nor conversations change hands.
LEMMA SameHolders ==
  ASSUME \A v \in Conversations : conversations'[v].customer = conversations[v].customer,
         \A r \in Rows : /\ rows'[r].conversation = rows[r].conversation
                         /\ (rows'[r].status = "unused") = (rows[r].status = "unused"),
         Kept
  PROVE  /\ \A c \in Customers : RowsOf(c)' = RowsOf(c)
         /\ \A c \in Customers : ConversationsOf(c)' = ConversationsOf(c)
         /\ \A r \in Rows : Exists(r)' = Exists(r) /\ (Exists(r) => OwnerOf(r)' = OwnerOf(r))
<1>1. \A r \in Rows : Exists(r)' = Exists(r)
  BY DEF Exists
<1>2. \A r \in Rows : Exists(r) => OwnerOf(r)' = OwnerOf(r)
  BY DEF Kept, RowsBelong, OwnerOf
<1>3. \A c \in Customers : RowsOf(c)' = RowsOf(c)
  BY <1>1, <1>2 DEF RowsOf
<1>4. \A c \in Customers : ConversationsOf(c)' = ConversationsOf(c)
  BY DEF ConversationsOf
<1>5. QED
  BY <1>1, <1>2, <1>3, <1>4

\* Changes of the status of conversations and of the status or the personal part
\* of rows: neither makes a row or conversation, or ends its use.
LEMMA ContentsChange ==
  ASSUME Kept, UNCHANGED <<customers, identity, requests, erasures>>,
         conversations' \in [Conversations -> Conversation],
         \A v \in Conversations :
           /\ conversations'[v].customer = conversations[v].customer
           /\ (conversations'[v].status = "unused") = (conversations[v].status = "unused"),
         rows' \in [Rows -> Row],
         \A r \in Rows : /\ rows'[r].conversation = rows[r].conversation
                         /\ (rows'[r].status = "unused") = (rows[r].status = "unused")
  PROVE  Kept'
<1>1. /\ \A c \in Customers : RowsOf(c)' = RowsOf(c)
      /\ \A c \in Customers : ConversationsOf(c)' = ConversationsOf(c)
      /\ \A r \in Rows : Exists(r)' = Exists(r) /\ (Exists(r) => OwnerOf(r)' = OwnerOf(r))
  BY SameHolders
<1>2. RowsBelong'
  BY <1>1 DEF Kept, RowsBelong
<1>3. RequestsHold'
  BY DEF Kept, RequestsHold
<1>4. SweepsComplete'
  BY <1>1 DEF Kept, SweepsComplete
<1>5. TypeOK'
  <2>1. \A r \in Rows : Exists(r)' => conversations'[rows'[r].conversation].status # "unused"
    BY <1>1 DEF Kept, TypeOK, RowsBelong
  <2>2. \A v \in Conversations :
          conversations'[v].status = "unused" <=> conversations'[v].customer = Nil
    BY DEF Kept, TypeOK
  <2>3. QED
    BY <2>1, <2>2 DEF Kept, TypeOK
<1>6. QED
  BY <1>2, <1>3, <1>4, <1>5 DEF Kept

\* The status of a conversation in use is written.
LEMMA StatusWritten ==
  ASSUME Kept, NEW v \in Conversations, conversations[v].status # "unused",
         NEW status \in Open \cup {"closed"},
         \/ conversations' = conversations
         \/ conversations' = [conversations EXCEPT ![v].status = status]
  PROVE  /\ conversations' \in [Conversations -> Conversation]
         /\ \A u \in Conversations :
              /\ conversations'[u].customer = conversations[u].customer
              /\ (conversations'[u].status = "unused") = (conversations[u].status = "unused")
<1>1. conversations \in [Conversations -> Conversation] /\ status # "unused"
  BY DEF Kept, TypeOK, Open
<1>2. CASE conversations' = conversations
  BY <1>1, <1>2
<1>3. CASE conversations' = [conversations EXCEPT ![v].status = status]
  BY <1>1, <1>3 DEF Conversation
<1>4. QED
  BY <1>2, <1>3

\* A row in use is written.
LEMMA RowWritten ==
  ASSUME Kept, NEW r \in Rows, Exists(r), NEW fields \in Row, Update(r, fields),
         fields.conversation = rows[r].conversation, fields.status # "unused",
         \/ conversations' = conversations
         \/ \E status \in Open :
              conversations' = [conversations EXCEPT ![rows[r].conversation].status = status]
  PROVE  Kept'
<1>1. rows \in [Rows -> Row] /\ rows' = [rows EXCEPT ![r] = fields]
      /\ UNCHANGED <<customers, identity, requests, erasures>>
  BY DEF Kept, TypeOK, Update
<1>2. rows' \in [Rows -> Row] /\ \A s \in Rows :
        /\ rows'[s].conversation = rows[s].conversation
        /\ (rows'[s].status = "unused") = (rows[s].status = "unused")
  BY <1>1 DEF Exists
<1>3. rows[r].conversation \in Conversations
      /\ conversations[rows[r].conversation].status # "unused"
  BY DEF Kept, TypeOK, RowsBelong
<1>4. /\ conversations' \in [Conversations -> Conversation]
      /\ \A u \in Conversations :
           /\ conversations'[u].customer = conversations[u].customer
           /\ (conversations'[u].status = "unused") = (conversations[u].status = "unused")
  BY <1>3, StatusWritten DEF Open
<1>5. QED
  BY <1>1, <1>2, <1>4, ContentsChange

-----------------------------------------------------------------------------
(* The steps of requests *)

\* Opening a resolution, and ending a request, touch no data.
LEMMA RequestMoves ==
  ASSUME Kept, NEW q \in Requests, NEW fields \in Request,
         requests' = [requests EXCEPT ![q] = fields],
         UNCHANGED <<customers, identity, conversations, rows, erasures>>,
         fields.step = "resolved" =>
           /\ fields.conversation \in Conversations /\ fields.customer \in Customers
           /\ conversations[fields.conversation].customer = fields.customer
  PROVE  Kept'
<1>1. requests' \in [Requests -> Request]
      /\ \A p \in Requests : requests'[p] = requests[p] \/ requests'[p] = fields
  BY DEF Kept, TypeOK
<1>2. RequestsHold'
  BY <1>1 DEF Kept, RequestsHold
<1>3. TypeOK'
  <2>1. \A p \in Requests : requests'[p].step = "resolved" => requests'[p].conversation # Nil
    BY <1>2, AnonymizationAssumption DEF RequestsHold
  <2>2. QED
    BY <1>1, <2>1 DEF Kept, TypeOK, Exists
<1>4. RowsBelong' /\ SweepsComplete'
  BY DEF Kept, RowsBelong, SweepsComplete, Exists, OwnerOf, RowsOf, ConversationsOf
<1>5. QED
  BY <1>2, <1>3, <1>4 DEF Kept

\* A conversation is opened for a customer whose row nobody has locked.
LEMMA ConversationOpens ==
  ASSUME Kept, NEW q \in Requests, NEW c \in Customers, NEW v \in Conversations,
         NewConversation(v, c), Resolved(q, c, v), CustomerFree(c),
         customers' \in [Customers -> {"unused", "active", "anonymized"}],
         \A d \in Customers : customers[d] # "unused" => customers'[d] # "unused",
         identity' \in Customers \cup {Nil},
         identity' # Nil => customers'[identity'] = "active"
  PROVE  Kept'
<1>1. /\ conversations[v].status = "unused" /\ conversations[v].customer = Nil
      /\ conversations' = [conversations EXCEPT ![v] = [customer |-> c, status |-> "active_bot"]]
      /\ requests' = [requests EXCEPT ![q] = [step |-> "resolved", customer |-> c,
                                              conversation |-> v]]
      /\ rows' = rows /\ erasures' = erasures
      /\ c # Nil /\ v # Nil
  BY AnonymizationAssumption DEF NewConversation, Resolved, Kept, TypeOK
<1>2. /\ conversations' \in [Conversations -> Conversation]
      /\ conversations'[v].customer = c /\ conversations'[v].status = "active_bot"
      /\ \A u \in Conversations \ {v} : conversations'[u] = conversations[u]
  BY <1>1 DEF Kept, TypeOK, Conversation, Open
<1>3. /\ requests' \in [Requests -> Request]
      /\ requests'[q].customer = c /\ requests'[q].conversation = v
      /\ \A p \in Requests \ {q} : requests'[p] = requests[p]
  BY <1>1 DEF Kept, TypeOK, Request
<1>4. \A r \in Rows : Exists(r) =>
        rows[r].conversation \in Conversations \ {v} /\ OwnerOf(r)' = OwnerOf(r)
  BY <1>1, <1>2 DEF Kept, TypeOK, RowsBelong, OwnerOf
<1>5. \A r \in Rows : Exists(r)' = Exists(r)
  BY <1>1 DEF Exists
<1>6. RowsBelong'
  BY <1>1, <1>4, <1>5 DEF Kept, RowsBelong
<1>7. RequestsHold'
  <2>1. \A p \in Requests \ {q} : requests[p].step = "resolved" =>
          requests[p].conversation # v
    BY <1>1, AnonymizationAssumption DEF Kept, RequestsHold
  <2>2. QED
    BY <1>2, <1>3, <2>1 DEF Kept, RequestsHold
<1>8. SweepsComplete'
  <2> SUFFICES ASSUME NEW d \in Customers
               PROVE  /\ erasures[d].step # "none" => customers'[d] # "unused"
                      /\ erasures[d].conversations \subseteq ConversationsOf(d)'
                      /\ erasures[d].step = "swept" =>
                           /\ RowsOf(d)' \subseteq erasures[d].rows
                           /\ ConversationsOf(d)' \subseteq erasures[d].conversations
    BY <1>1 DEF SweepsComplete
  <2>1. RowsOf(d)' = RowsOf(d)
    BY <1>1, <1>4, <1>5 DEF RowsOf
  <2>2. ConversationsOf(d)' = ConversationsOf(d) \cup (IF d = c THEN {v} ELSE {})
    BY <1>1, <1>2, AnonymizationAssumption DEF ConversationsOf
  <2>3. d = c => erasures[d].step = "none"
    BY DEF CustomerFree
  <2>4. QED
    BY <2>1, <2>2, <2>3 DEF Kept, SweepsComplete
<1>9. TypeOK'
  <2>1. \A u \in Conversations :
          conversations'[u].status = "unused" <=> conversations'[u].customer = Nil
    BY <1>1, <1>2 DEF Kept, TypeOK
  <2>2. \A r \in Rows : Exists(r)' => conversations'[rows'[r].conversation].status # "unused"
    BY <1>1, <1>2, <1>4, <1>5 DEF Kept, TypeOK
  <2>3. \A p \in Requests : requests'[p].step = "resolved" => requests'[p].conversation # Nil
    BY <1>1, <1>3 DEF Kept, TypeOK
  <2>4. QED
    BY <1>1, <1>2, <1>3, <2>1, <2>2, <2>3 DEF Kept, TypeOK
<1>10. QED
  BY <1>6, <1>7, <1>8, <1>9 DEF Kept

\* A message resolves the person.
LEMMA ResolutionsKeep ==
  ASSUME Kept, NEW q \in Requests,
         \/ OpenResolve(q) \/ End(q)
         \/ \E c \in Customers, v \in Conversations : ResolveNew(q, c, v)
         \/ \E v \in Conversations : ResolveKnown(q, v)
  PROVE  Kept'
<1>0. requests[q] \in Request /\ identity \in Customers \cup {Nil}
      /\ customers \in [Customers -> {"unused", "active", "anonymized"}]
      /\ (identity # Nil => customers[identity] = "active")
  BY DEF Kept, TypeOK
<1>1. CASE OpenResolve(q)
  <2> DEFINE r == [step |-> "resolving", customer |-> identity, conversation |-> Nil]
  <2>1. r \in Request /\ r.step # "resolved"
    BY <1>0 DEF Request
  <2>2. QED
    BY <1>1, <2>1, RequestMoves DEF OpenResolve
<1>2. CASE End(q)
  <2>1. NoRequest \in Request /\ NoRequest.step # "resolved"
    BY DEF NoRequest, Request
  <2>2. QED
    BY <1>2, <2>1, RequestMoves DEF End
<1>3. ASSUME NEW c \in Customers, NEW v \in Conversations, ResolveNew(q, c, v)
      PROVE  Kept'
  <2>1. /\ customers[c] = "unused" /\ customers' = [customers EXCEPT ![c] = "active"]
        /\ identity' = c /\ NewConversation(v, c) /\ Resolved(q, c, v)
    BY <1>3 DEF ResolveNew
  <2>2. CustomerFree(c)
    BY <2>1 DEF Kept, SweepsComplete, CustomerFree
  <2>3. /\ customers' \in [Customers -> {"unused", "active", "anonymized"}]
        /\ customers'[identity'] = "active"
        /\ \A d \in Customers : customers[d] # "unused" => customers'[d] # "unused"
    BY <1>0, <2>1
  <2>4. QED
    BY <2>1, <2>2, <2>3, ConversationOpens
<1>4. ASSUME NEW v \in Conversations, ResolveKnown(q, v)
      PROVE  Kept'
  <2> DEFINE c == requests[q].customer
             open == {u \in ConversationsOf(c) : conversations[u].status \in Open}
  <2>1. /\ c \in Customers /\ Resolved(q, c, v) /\ UNCHANGED <<customers, identity>>
        /\ \/ v \in open /\ UNCHANGED conversations
           \/ CustomerFree(c) /\ NewConversation(v, c)
    BY <1>0, <1>4 DEF ResolveKnown, Request
  <2>2. CASE v \in open /\ UNCHANGED conversations
    <3> DEFINE r == [step |-> "resolved", customer |-> c, conversation |-> v]
    <3>1. r \in Request
      BY <2>1 DEF Request
    <3>2. conversations[v].customer = c
      BY <2>2 DEF ConversationsOf
    <3>3. QED
      BY <2>1, <2>2, <3>1, <3>2, RequestMoves DEF Resolved
  <2>3. CASE CustomerFree(c) /\ NewConversation(v, c)
    <3>1. /\ customers' = customers /\ identity' = identity
      BY <2>1
    <3>2. QED
      BY <1>0, <2>1, <2>3, <3>1, ConversationOpens
  <2>4. QED
    BY <2>1, <2>2, <2>3
<1>5. QED
  BY <1>1, <1>2, <1>3, <1>4

\* A row is inserted for the customer whom the request holds, while no erasure
\* has that customer's row.
LEMMA StartKeeps ==
  ASSUME Kept, NEW q \in Requests, NEW r \in Rows, NEW kind \in Kinds, Start(q, r, kind)
  PROVE  Kept'
<1> DEFINE v == requests[q].conversation
           c == requests[q].customer
           row == [conversation |-> v, kind |-> kind, status |-> "live",
                   personal |-> kind = "case"]
<1>1. /\ v \in Conversations /\ c \in Customers /\ conversations[v].customer = c
      /\ ~Exists(r) /\ erasures[c].step = "none"
      /\ rows' = [rows EXCEPT ![r] = row]
      /\ UNCHANGED <<customers, identity, requests, erasures>>
      /\ \/ conversations' = conversations
         \/ conversations' = [conversations EXCEPT ![v].status = "handoff_queued"]
  BY DEF Start, Kept, RequestsHold, CustomerFree
<1>2. conversations[v].status # "unused"
  BY <1>1, AnonymizationAssumption DEF Kept, TypeOK
<1>3. /\ conversations' \in [Conversations -> Conversation]
      /\ \A u \in Conversations :
           /\ conversations'[u].customer = conversations[u].customer
           /\ (conversations'[u].status = "unused") = (conversations[u].status = "unused")
  BY <1>1, <1>2, StatusWritten DEF Open
<1>4. row \in Row /\ row.conversation = v /\ row.status = "live"
  BY <1>1 DEF Row
<1> HIDE DEF row
<1>5. /\ rows' \in [Rows -> Row] /\ rows'[r] = row
      /\ \A s \in Rows \ {r} : rows'[s] = rows[s]
  BY <1>1, <1>4 DEF Kept, TypeOK
<1>6. /\ Exists(r)' /\ OwnerOf(r)' = c
      /\ \A s \in Rows \ {r} :
           Exists(s)' = Exists(s) /\ (Exists(s) => OwnerOf(s)' = OwnerOf(s))
  <2>1. Exists(r)' /\ OwnerOf(r)' = c
    BY <1>1, <1>3, <1>4, <1>5 DEF Exists, OwnerOf
  <2>2. ASSUME NEW s \in Rows \ {r}
        PROVE  Exists(s)' = Exists(s) /\ (Exists(s) => OwnerOf(s)' = OwnerOf(s))
    BY <1>3, <1>5, <2>2 DEF Exists, OwnerOf, Kept, RowsBelong
  <2>3. QED
    BY <2>1, <2>2
<1>7. RowsBelong'
  BY <1>1, <1>4, <1>5, <1>6 DEF Kept, RowsBelong
<1>8. RequestsHold'
  BY <1>1, <1>3 DEF Kept, RequestsHold
<1>9. SweepsComplete'
  <2>1. \A d \in Customers : ConversationsOf(d)' = ConversationsOf(d)
    BY <1>3 DEF ConversationsOf
  <2>2. \A d \in Customers \ {c} : RowsOf(d)' \subseteq RowsOf(d)
    BY <1>6 DEF RowsOf
  <2>3. QED
    BY <1>1, <2>1, <2>2 DEF Kept, SweepsComplete
<1>10. TypeOK'
  <2>1. \A u \in Conversations :
          conversations'[u].status = "unused" <=> conversations'[u].customer = Nil
    BY <1>3 DEF Kept, TypeOK
  <2>2. \A s \in Rows : Exists(s)' => conversations'[rows'[s].conversation].status # "unused"
    BY <1>1, <1>2, <1>3, <1>4, <1>5, <1>6 DEF Kept, TypeOK, RowsBelong
  <2>3. QED
    BY <1>1, <1>3, <1>5, <2>1, <2>2 DEF Kept, TypeOK
<1>11. QED
  BY <1>7, <1>8, <1>9, <1>10 DEF Kept

\* A request or the staff writes a row in use.
LEMMA WritesKeep ==
  ASSUME Kept, NEW r \in Rows,
         \/ \E q \in Requests : Write(q, r) \/ Finish(q, r) \/ Edit(q, r)
         \/ Claim(r) \/ Settle(r) \/ Reopen(r) \/ ReturnToBot(r)
  PROVE  Kept'
<1>0. rows[r] \in Row
  BY DEF Kept, TypeOK
<1>1. CASE \E q \in Requests : Write(q, r) \/ Finish(q, r) \/ Edit(q, r)
  <2>1. PICK q \in Requests : Write(q, r) \/ Finish(q, r) \/ Edit(q, r)
    BY <1>1
  <2>2. /\ Exists(r) /\ conversations' = conversations
        /\ \/ Update(r, [rows[r] EXCEPT !.personal = TRUE])
           \/ Update(r, [rows[r] EXCEPT !.status = "ended"])
           \/ Update(r, [rows[r] EXCEPT !.status = "live"])
    BY <2>1 DEF Write, Finish, Edit, Holds
  <2>3. \A fields \in {[rows[r] EXCEPT !.personal = TRUE], [rows[r] EXCEPT !.status = "ended"],
                       [rows[r] EXCEPT !.status = "live"]} :
          /\ fields \in Row /\ fields.conversation = rows[r].conversation
          /\ fields.status # "unused"
    BY <1>0, <2>2 DEF Row, Exists
  <2>4. QED
    BY <2>2, <2>3, RowWritten
<1>2. ASSUME NEW from \in {"live", "ended"}, NEW to \in {"live", "ended"}, NEW status,
             Staff(r, from, to, status),
             status \in Open \/ status = conversations[rows[r].conversation].status
      PROVE  Kept'
  <2>1. /\ Exists(r) /\ Update(r, [rows[r] EXCEPT !.status = to])
        /\ \/ conversations' = conversations
           \/ /\ status \in Open
              /\ conversations' = [conversations EXCEPT ![rows[r].conversation].status = status]
    BY <1>2 DEF Staff, Exists
  <2>2. LET fields == [rows[r] EXCEPT !.status = to]
        IN /\ fields \in Row /\ fields.conversation = rows[r].conversation
           /\ fields.status # "unused"
    BY <1>0 DEF Row
  <2>3. QED
    BY <2>1, <2>2, RowWritten
<1>3. QED
  BY <1>1, <1>2 DEF Claim, Settle, Reopen, ReturnToBot, Open

-----------------------------------------------------------------------------
(* The steps of an erasure *)

\* The locks an erasure takes, the rows it finds, and its rollback.
LEMMA ErasureMoves ==
  ASSUME Kept, NEW c \in Customers, OpenErasure(c) \/ Sweep(c) \/ Abort(c)
  PROVE  Kept'
<1>1. PICK fields \in Erasure :
        /\ erasures' = [erasures EXCEPT ![c] = fields]
        /\ fields.step # "none" => customers[c] # "unused"
        /\ fields.conversations \subseteq ConversationsOf(c)
        /\ fields.step = "swept" =>
             RowsOf(c) \subseteq fields.rows /\ ConversationsOf(c) \subseteq fields.conversations
  <2>1. CASE OpenErasure(c)
    <3> DEFINE f == [NoErasure EXCEPT !.step = "open"]
    <3>1. f \in Erasure /\ f.step = "open" /\ f.conversations = {}
      BY DEF NoErasure, Erasure
    <3>2. QED
      BY <2>1, <3>1 DEF OpenErasure, Advance
  <2>2. CASE Sweep(c)
    <3> DEFINE f == [step |-> "swept", rows |-> RowsOf(c), conversations |-> ConversationsOf(c)]
    <3>1. f \in Erasure
      BY DEF Erasure, RowsOf, ConversationsOf
    <3>2. QED
      BY <2>2, <3>1 DEF Sweep, Advance, Kept, SweepsComplete
  <2>3. CASE Abort(c)
    <3>1. NoErasure \in Erasure /\ NoErasure.step = "none" /\ NoErasure.conversations = {}
      BY DEF NoErasure, Erasure
    <3>2. QED
      BY <2>3, <3>1 DEF Abort, Advance
  <2>4. QED
    BY <2>1, <2>2, <2>3
<1>2. UNCHANGED <<customers, identity, conversations, rows, requests>>
  BY DEF OpenErasure, Sweep, Abort, Advance
<1>3. /\ erasures' \in [Customers -> Erasure] /\ erasures'[c] = fields
      /\ \A d \in Customers \ {c} : erasures'[d] = erasures[d]
  BY <1>1 DEF Kept, TypeOK
<1>4. \A d \in Customers : RowsOf(d)' = RowsOf(d) /\ ConversationsOf(d)' = ConversationsOf(d)
  BY <1>2 DEF RowsOf, Exists, OwnerOf, ConversationsOf
<1>5. SweepsComplete'
  BY <1>1, <1>2, <1>3, <1>4 DEF Kept, SweepsComplete
<1>6. TypeOK' /\ RowsBelong' /\ RequestsHold'
  BY <1>2, <1>3 DEF Kept, TypeOK, RowsBelong, RequestsHold, Exists, OwnerOf
<1>7. QED
  BY <1>5, <1>6 DEF Kept

\* What an erasure leaves of its customer, and that it leaves the others alone.
LEMMA AnonymizeEffect ==
  ASSUME Kept, NEW c \in Customers, Anonymize(c)
  PROVE  /\ conversations' \in [Conversations -> Conversation]
         /\ \A v \in Conversations :
              /\ conversations'[v].customer = conversations[v].customer
              /\ (conversations'[v].status = "unused") = (conversations[v].status = "unused")
              /\ v \in erasures[c].conversations => conversations'[v].status = "closed"
         /\ rows' \in [Rows -> Row]
         /\ \A r \in Rows :
              /\ rows'[r].conversation = rows[r].conversation
              /\ (rows'[r].status = "unused") = (rows[r].status = "unused")
              /\ rows'[r].personal => rows[r].personal
              /\ r \in erasures[c].rows => ~rows'[r].personal /\ rows'[r].status # "live"
<1>1. /\ conversations \in [Conversations -> Conversation] /\ rows \in [Rows -> Row]
      /\ \A v \in erasures[c].conversations :
           v \in Conversations /\ conversations[v].status # "unused"
  BY AnonymizationAssumption DEF Kept, TypeOK, SweepsComplete, ConversationsOf
<1>2. ASSUME NEW v \in Conversations
      PROVE  /\ conversations'[v] \in Conversation
             /\ conversations'[v].customer = conversations[v].customer
             /\ (conversations'[v].status = "unused") = (conversations[v].status = "unused")
             /\ v \in erasures[c].conversations => conversations'[v].status = "closed"
  <2>1. conversations'[v] = IF v \in erasures[c].conversations
                              THEN [conversations[v] EXCEPT !.status = "closed"]
                              ELSE conversations[v]
    BY DEF Anonymize
  <2>2. conversations[v] \in Conversation
    BY <1>1
  <2>3. QED
    BY <1>1, <2>1, <2>2 DEF Conversation
<1>3. ASSUME NEW r \in Rows
      PROVE  /\ rows'[r] \in Row
             /\ rows'[r].conversation = rows[r].conversation
             /\ (rows'[r].status = "unused") = (rows[r].status = "unused")
             /\ rows'[r].personal => rows[r].personal
             /\ r \in erasures[c].rows => ~rows'[r].personal /\ rows'[r].status # "live"
  <2>1. rows'[r] = IF r \in erasures[c].rows THEN Erased(rows[r]) ELSE rows[r]
    BY DEF Anonymize
  <2>2. rows[r] \in Row
    BY <1>1
  <2>3. /\ Erased(rows[r]) \in Row /\ ~Erased(rows[r]).personal
        /\ Erased(rows[r]).conversation = rows[r].conversation
        /\ Erased(rows[r]).status # "live"
        /\ (Erased(rows[r]).status = "unused") = (rows[r].status = "unused")
    BY <2>2 DEF Erased, Row
  <2>4. QED
    BY <2>1, <2>2, <2>3
<1>4. conversations' = [v \in Conversations |-> conversations'[v]]
      /\ rows' = [r \in Rows |-> rows'[r]]
  BY DEF Anonymize
<1>5. conversations' \in [Conversations -> Conversation] /\ rows' \in [Rows -> Row]
  BY <1>2, <1>3, <1>4
<1>6. QED
  BY <1>2, <1>3, <1>5

\* The commit of an erasure.
LEMMA AnonymizeKeeps ==
  ASSUME Kept, NEW c \in Customers, Anonymize(c)
  PROVE  Kept'
<1>1. /\ customers' = [customers EXCEPT ![c] = "anonymized"]
      /\ identity' = IF identity = c THEN Nil ELSE identity
      /\ erasures' = [erasures EXCEPT ![c] = NoErasure] /\ requests' = requests
  BY DEF Anonymize, IdentityAfter, Advance
<1>2. /\ \A d \in Customers : RowsOf(d)' = RowsOf(d)
      /\ \A d \in Customers : ConversationsOf(d)' = ConversationsOf(d)
      /\ \A r \in Rows : Exists(r)' = Exists(r) /\ (Exists(r) => OwnerOf(r)' = OwnerOf(r))
  BY AnonymizeEffect, SameHolders
<1>3. /\ NoErasure \in Erasure /\ NoErasure.step = "none" /\ NoErasure.conversations = {}
  BY DEF NoErasure, Erasure
<1>4. /\ erasures' \in [Customers -> Erasure] /\ erasures'[c] = NoErasure
      /\ \A d \in Customers \ {c} : erasures'[d] = erasures[d]
      /\ customers' \in [Customers -> {"unused", "active", "anonymized"}]
      /\ \A d \in Customers : customers[d] # "unused" => customers'[d] # "unused"
      /\ \A d \in Customers \ {c} : customers'[d] = customers[d]
  BY <1>1, <1>3 DEF Kept, TypeOK
<1>5. SweepsComplete'
  <2>1. ASSUME NEW d \in Customers
        PROVE  /\ erasures'[d].step # "none" => customers'[d] # "unused"
               /\ erasures'[d].conversations \subseteq ConversationsOf(d)'
               /\ erasures'[d].step = "swept" =>
                    /\ RowsOf(d)' \subseteq erasures'[d].rows
                    /\ ConversationsOf(d)' \subseteq erasures'[d].conversations
    <3>1. CASE d = c
      BY <1>3, <1>4, <3>1
    <3>2. CASE d # c
      BY <1>2, <1>4, <3>2 DEF Kept, SweepsComplete
    <3>3. QED
      BY <3>1, <3>2
  <2>2. QED
    BY <2>1 DEF SweepsComplete
<1>6. RowsBelong'
  BY <1>2, AnonymizeEffect DEF Kept, RowsBelong
<1>7. RequestsHold'
  BY <1>1, AnonymizeEffect DEF Kept, RequestsHold
<1>8. TypeOK'
  <2>1. identity' \in Customers \cup {Nil} /\ (identity' # Nil => customers'[identity'] = "active")
    BY <1>1, <1>4 DEF Kept, TypeOK
  <2>2. \A v \in Conversations :
          conversations'[v].status = "unused" <=> conversations'[v].customer = Nil
    BY AnonymizeEffect DEF Kept, TypeOK
  <2>3. \A r \in Rows : Exists(r)' => conversations'[rows'[r].conversation].status # "unused"
    BY <1>2, AnonymizeEffect DEF Kept, TypeOK, RowsBelong
  <2>4. QED
    BY <1>1, <1>4, <2>1, <2>2, <2>3, AnonymizeEffect DEF Kept, TypeOK
<1>9. QED
  BY <1>5, <1>6, <1>7, <1>8 DEF Kept

-----------------------------------------------------------------------------
(* Theorems *)

\* Kept is inductive.
LEMMA StepKept == Kept /\ [Next]_vars => Kept'
<1> SUFFICES ASSUME Kept, [Next]_vars
             PROVE  Kept'
  OBVIOUS
<1>1. CASE UNCHANGED vars
  BY <1>1 DEF vars, Kept, TypeOK, RowsBelong, RequestsHold, SweepsComplete, Exists, OwnerOf,
     RowsOf, ConversationsOf
<1>2. QED
  BY <1>1, ResolutionsKeep, StartKeeps, WritesKeep, ErasureMoves, AnonymizeKeeps DEF Next

\* The inductive invariant holds in every reachable state.
THEOREM AlwaysKept == Spec => []Kept
<1>1. Init => Kept
  <2> SUFFICES ASSUME Init
               PROVE  Kept
    OBVIOUS
  <2>1. TypeOK
    BY DEF Init, TypeOK, Conversation, Row, Kinds, Request, NoRequest, Erasure, NoErasure, Exists
  <2>2. RowsBelong /\ RequestsHold
    BY DEF Init, RowsBelong, RequestsHold, Exists, NoRequest
  <2>3. SweepsComplete
    BY DEF Init, SweepsComplete, NoErasure
  <2>4. QED
    BY <2>1, <2>2, <2>3 DEF Kept
<1>2. QED
  BY <1>1, StepKept, PTL DEF Spec

\* Every value has its type; the identity of the person never names a customer
\* that has been anonymized, and rows, conversations and requests never refer to
\* ones that are not in use.
THEOREM TypeCorrect == Spec => []TypeOK
<1>1. Kept => TypeOK
  BY DEF Kept
<1>2. QED
  BY <1>1, AlwaysKept, PTL

\* anonymize_customer leaves nothing personal, nothing live and no open
\* conversation: for any number of requests that hold the customer's identity
\* while its statements run, what they insert waits for the customer's row.
THEOREM NothingIsLeft == Spec => AnonymizationLeavesNothing
<1>1. ASSUME Kept, [Next]_vars, NEW c \in Customers, erasures[c].step = "swept",
             erasures'[c].step = "none", customers' # customers
      PROVE  /\ \A v \in ConversationsOf(c)' : conversations'[v].status = "closed"
             /\ \A r \in RowsOf(c)' : ~rows'[r].personal /\ rows'[r].status # "live"
  <2>1. PICK d \in Customers : Anonymize(d)
    <3>1. erasures' # erasures /\ customers' # customers
      BY <1>1
    <3>2. QED
      BY <1>1, <3>1 DEF Next, vars, OpenResolve, End, ResolveNew, ResolveKnown, Resolved, Start,
         Write, Finish, Edit, Update, Claim, Settle, Reopen, ReturnToBot, Staff,
         OpenErasure, Sweep, Abort
  <2>2. d = c
    BY <1>1, <2>1 DEF Anonymize, Advance, Kept, TypeOK
  <2>3. RowsOf(c)' = RowsOf(c) /\ ConversationsOf(c)' = ConversationsOf(c)
    BY <1>1, <2>1, AnonymizeEffect, SameHolders
  <2>4. /\ RowsOf(c) \subseteq erasures[c].rows /\ RowsOf(c) \subseteq Rows
        /\ ConversationsOf(c) \subseteq erasures[c].conversations
        /\ ConversationsOf(c) \subseteq Conversations
    BY <1>1 DEF Kept, SweepsComplete, RowsOf, ConversationsOf
  <2>5. QED
    BY <1>1, <2>1, <2>2, <2>3, <2>4, AnonymizeEffect
<1>2. Kept /\ [Next]_vars =>
        [\A c \in Customers : erasures[c].step = "swept" /\ customers'[c] = "anonymized"
                              /\ erasures'[c].step = "none" /\ customers' # customers
           => /\ \A v \in ConversationsOf(c)' : conversations'[v].status = "closed"
              /\ \A r \in RowsOf(c)' : ~rows'[r].personal /\ rows'[r].status # "live"]_vars
  BY <1>1
<1>3. QED
  BY <1>2, AlwaysKept, PTL DEF Spec, AnonymizationLeavesNothing

\* No write fills a draft that an erasure has emptied: every write of contact
\* data reads the status of its row again, under the lock.
THEOREM EmptiedStaysEmpty == Spec => EmptiedDraftsStayEmpty
<1>1. ASSUME Kept, [Next]_vars, NEW r \in Rows, Exists(r), rows[r].kind = "draft",
             rows[r].status # "live", ~rows[r].personal
      PROVE  ~rows'[r].personal
  <2>0. rows \in [Rows -> Row]
    BY <1>1 DEF Kept, TypeOK
  <2>1. ASSUME NEW s \in Rows, NEW fields, Update(s, fields), s # r \/ ~fields.personal
        PROVE  ~rows'[r].personal
    BY <1>1, <2>0, <2>1 DEF Update
  <2>2. ASSUME NEW q \in Requests, NEW s \in Rows,
               Write(q, s) \/ Finish(q, s) \/ Edit(q, s)
        PROVE  ~rows'[r].personal
    <3>1. CASE s # r
      BY <2>1, <2>2, <3>1 DEF Write, Finish, Edit
    <3>2. CASE s = r
      <4>1. Finish(q, r)
        BY <1>1, <2>2, <3>2 DEF Write, Edit, Writable, Live
      <4>2. QED
        BY <1>1, <4>1 DEF Finish, Live
    <3>3. QED
      BY <3>1, <3>2
  <2>3. ASSUME NEW s \in Rows, Claim(s) \/ Settle(s) \/ Reopen(s) \/ ReturnToBot(s)
        PROVE  ~rows'[r].personal
    <3>1. s # r
      BY <1>1, <2>3 DEF Claim, Settle, Reopen, ReturnToBot, Staff
    <3>2. QED
      BY <2>1, <2>3, <3>1 DEF Claim, Settle, Reopen, ReturnToBot, Staff
  <2>4. ASSUME NEW q \in Requests, NEW s \in Rows, NEW kind \in Kinds, Start(q, s, kind)
        PROVE  ~rows'[r].personal
    <3>1. s # r
      BY <1>1, <2>4 DEF Start
    <3>2. QED
      BY <1>1, <2>0, <2>4, <3>1 DEF Start
  <2>5. ASSUME NEW c \in Customers, Anonymize(c)
        PROVE  ~rows'[r].personal
    BY <1>1, <2>5, AnonymizeEffect
  <2>6. CASE rows' = rows
    BY <1>1, <2>6
  <2>7. QED
    BY <1>1, <2>2, <2>3, <2>4, <2>5, <2>6
       DEF Next, vars, OpenResolve, End, ResolveNew, ResolveKnown, Resolved,
           OpenErasure, Sweep, Abort
<1>2. Kept /\ [Next]_vars =>
        [\A r \in Rows :
           Exists(r) /\ rows[r].kind = "draft" /\ customers[OwnerOf(r)] = "anonymized"
           /\ rows[r].status # "live" /\ ~rows[r].personal
           => ~rows'[r].personal]_vars
  BY <1>1
<1>3. QED
  BY <1>2, AlwaysKept, PTL DEF Spec, EmptiedDraftsStayEmpty

-----------------------------------------------------------------------------
(* Retention: the inductive invariant *)

\* What a task has read of a policy is a version of it, maybe an old one; if it
\* is the stored version, then so is the period.
Known(due) ==
  /\ due.version <= policies[due.tenant].version
  /\ due.version = policies[due.tenant].version =>
       due.period = policies[due.tenant].period

\* A run was started on this day or before; the policy that it executes is the
\* stored one, for as long as it holds the lock.
RunInForce(r) ==
  /\ r.at <= day
  /\ \A n \in 1..Len(r.queue) : Known(r.queue[n])
  /\ r.step = "execute" => Head(r.queue).version = policies[Head(r.queue).tenant].version
  /\ r.step = "idle" <=> r.queue = <<>>

InForce == RetentionTypeOK /\ \A w \in Workers : RunInForce(run[w])

-----------------------------------------------------------------------------
(* Lemmas about runs *)

\* The policy at the head of a run that is not idle, and what follows it.
LEMMA QueueParts ==
  ASSUME InForce, NEW w \in Workers, run[w].step # "idle"
  PROVE  /\ run[w] \in Run /\ run[w].queue \in Seq(Due)
         /\ Len(run[w].queue) \in Nat \ {0}
         /\ Current(w) = run[w].queue[1]
         /\ Current(w) \in Due /\ Known(Current(w))
<1>1. run[w] \in Run /\ RunInForce(run[w])
  BY DEF InForce, RetentionTypeOK
<1>2. run[w].queue \in Seq(Due) /\ run[w].queue # <<>>
  BY <1>1 DEF Run, RunInForce
<1> DEFINE q == run[w].queue
<1>3. Len(q) \in Nat \ {0} /\ Head(q) = q[1] /\ q[1] \in Due
  <2> HIDE DEF q
  <2>1. q \in Seq(Due) /\ q # <<>>
    BY <1>2 DEF q
  <2>2. QED
    BY <2>1
<1>4. Known(q[1])
  BY <1>1, <1>3 DEF RunInForce
<1>5. QED
  BY <1>1, <1>2, <1>3, <1>4 DEF Current

\* What is left of a longer queue.
LEMMA RestOfQueue ==
  ASSUME NEW q \in Seq(Due), Len(q) \notin {0, 1}
  PROVE  /\ Tail(q) \in Seq(Due) /\ Len(Tail(q)) = Len(q) - 1 /\ Tail(q) # <<>>
         /\ \A n \in 1..Len(Tail(q)) : n + 1 \in 1..Len(q) /\ Tail(q)[n] = q[n + 1]
<1>1. q # <<>> /\ Len(q) \in Nat
  OBVIOUS
<1>2. Tail(q) \in Seq(Due) /\ Len(Tail(q)) = Len(q) - 1
  BY <1>1
<1>3. \A n \in 1..Len(Tail(q)) : n + 1 \in 1..Len(q) /\ Tail(q)[n] = q[n + 1]
  BY <1>1, <1>2
<1>4. Tail(q) # <<>>
  <2> DEFINE rest == Tail(q)
  <2>1. Len(q) \in Nat /\ Len(rest) = Len(q) - 1
    BY <1>1, <1>2
  <2> HIDE DEF rest
  <2>2. Len(rest) # 0
    BY <2>1
  <2>3. rest # <<>>
    BY <2>2
  <2>4. QED
    BY <2>3 DEF rest
<1>5. QED
  BY ZenonT(30), <1>2, <1>3, <1>4

\* What is left of a run after its first policy.
LEMMA AdvancedInForce ==
  ASSUME InForce, NEW w \in Workers, run[w].step # "idle"
  PROVE  Advanced(w) \in Run /\ RunInForce(Advanced(w))
<1> DEFINE q == run[w].queue
           rest == Tail(q)
           r == [run[w] EXCEPT !.step = "batch", !.queue = rest]
<1>1. /\ run[w] \in Run /\ q \in Seq(Due) /\ Len(q) \in Nat \ {0}
      /\ RunInForce(run[w])
  BY QueueParts DEF InForce
<1>2. day \in Nat /\ 0 \in 0..MaxDay
  BY RetentionAssumption DEF InForce, RetentionTypeOK
<1>3. NoRun \in Run /\ RunInForce(NoRun)
  BY <1>2 DEF NoRun, Run, RunInForce
<1>4. CASE Len(q) # 1
  <2>1. /\ rest \in Seq(Due) /\ Len(rest) = Len(q) - 1 /\ rest # <<>>
        /\ \A n \in 1..Len(rest) : n + 1 \in 1..Len(q) /\ rest[n] = q[n + 1]
    BY <1>1, <1>4, RestOfQueue
  <2>2. r.step = "batch" /\ r.queue = rest /\ r.at = run[w].at
    BY <1>1 DEF Run
  <2>3. r \in Run
    <3> HIDE DEF rest
    <3>1. QED
      BY <1>1, <2>1 DEF Run
  <2> HIDE DEF rest, r
  <2>4. RunInForce(r)
    BY <1>1, <2>1, <2>2 DEF RunInForce
  <2>5. Advanced(w) = r
    BY <1>4 DEF Advanced, r, rest
  <2>6. QED
    BY <2>3, <2>4, <2>5
<1>5. CASE Len(q) = 1
  BY <1>3, <1>5 DEF Advanced
<1>6. QED
  BY <1>4, <1>5

\* A step of a run that leaves the day and the policies as they are.
LEMMA RunMoves ==
  ASSUME InForce, NEW w \in Workers, NEW r \in Run, RunInForce(r), Enter(w, r),
         records' \in [Tenants -> [Records -> Record]],
         actions' \in [Tenants -> SUBSET Keys]
  PROVE  InForce'
<1>1. /\ run \in [Workers -> Run] /\ run' = [run EXCEPT ![w] = r]
      /\ day' = day /\ policies' = policies /\ active' = active
  BY DEF InForce, RetentionTypeOK, Enter
<1>2. run' \in [Workers -> Run] /\ \A v \in Workers : RunInForce(run'[v])
  BY <1>1 DEF InForce
<1>3. ASSUME NEW v \in Workers PROVE RunInForce(run[v])'
  <2>1. /\ run'[v].at <= day'
        /\ run'[v].step = "execute" =>
             Head(run'[v].queue).version = policies'[Head(run'[v].queue).tenant].version
        /\ run'[v].step = "idle" <=> run'[v].queue = <<>>
    BY <1>1, <1>2 DEF RunInForce
  <2>2. ASSUME NEW n \in 1..Len(run'[v].queue) PROVE Known(run[v].queue[n])'
    <3>1. Known(run'[v].queue[n])
      BY <1>2 DEF RunInForce
    <3>2. QED
      BY <1>1, <3>1 DEF Known
  <2>3. QED
    BY <2>1, <2>2 DEF RunInForce
<1>4. \A v \in Workers : run'[v].step = "idle" <=> run'[v].queue = <<>>
  BY <1>3 DEF RunInForce
<1>5. QED
  BY <1>1, <1>2, <1>3, <1>4 DEF InForce, RetentionTypeOK

\* Erasing leaves well typed records.
LEMMA ErasedType ==
  ASSUME InForce, NEW t \in Tenants, NEW at, NEW period
  PROVE  [records EXCEPT ![t] = RecordsAfter(t, at, period)] \in [Tenants -> [Records -> Record]]
<1>1. records \in [Tenants -> [Records -> Record]]
  BY DEF InForce, RetentionTypeOK
<1>2. RecordsAfter(t, at, period) \in [Records -> Record]
  BY <1>1, RetentionAssumption DEF RecordsAfter, Record
<1>3. QED
  BY <1>1, <1>2

-----------------------------------------------------------------------------
(* The steps *)

\* The policies of the first batch are read as they are stored.
LEMMA ReadDueInForce ==
  ASSUME InForce, NEW w \in Workers, ReadDue(w)
  PROVE  InForce'
<1>1. /\ day \in 0..MaxDay /\ policies \in [Tenants -> Policy] /\ active \subseteq Tenants
      /\ UNCHANGED <<records, actions>>
      /\ records \in [Tenants -> [Records -> Record]]
      /\ actions \in [Tenants -> SUBSET Keys]
  BY DEF InForce, RetentionTypeOK, ReadDue
<1>p. PICK size \in 1..BatchSize : \E batch \in [1..size -> Scheduled] :
        Enter(w, [step |-> "batch", at |-> day, queue |-> [n \in 1..size |-> Read(batch[n])]])
  BY DEF ReadDue
<1>2. PICK batch \in [1..size -> Scheduled] :
        Enter(w, [step |-> "batch", at |-> day, queue |-> [n \in 1..size |-> Read(batch[n])]])
  BY <1>p
<1> DEFINE queue == [n \in 1..size |-> Read(batch[n])]
           r == [step |-> "batch", at |-> day, queue |-> queue]
<1>3. size \in Nat \ {0}
  BY RetentionAssumption
<1>4. \A t \in Scheduled : Read(t) \in Due /\ Known(Read(t))
  <2> SUFFICES ASSUME NEW t \in Scheduled
               PROVE  Read(t) \in Due /\ Known(Read(t))
    OBVIOUS
  <2>1. t \in Tenants /\ policies[t] \in Policy
    BY <1>1 DEF Scheduled
  <2>2. policies[t].version \in 1..MaxVersion /\ policies[t].period \in Periods
    BY <2>1 DEF Policy
  <2>3. QED
    BY <2>1, <2>2, RetentionAssumption DEF Read, Due, Known
<1>5. /\ queue \in Seq(Due) /\ Len(queue) = size /\ queue # <<>>
      /\ \A n \in 1..size : queue[n] = Read(batch[n])
  BY <1>3, <1>4
<1> HIDE DEF queue
<1>6. r \in Run
  BY <1>1, <1>5 DEF Run
<1>7. RunInForce(r)
  BY <1>1, <1>4, <1>5 DEF RunInForce
<1>8. QED
  BY <1>1, <1>2, <1>6, <1>7, RunMoves DEF queue

\* The lock is taken on the version that was read, and kept until the commit.
LEMMA OpenInForce ==
  ASSUME InForce, NEW w \in Workers, LockPolicy(w)
  PROVE  InForce'
<1> DEFINE r == [run[w] EXCEPT !.step = "execute"]
<1>1. /\ run[w].step = "batch" /\ Unchanged(w) /\ Enter(w, r)
      /\ UNCHANGED <<records, actions>>
  BY DEF LockPolicy
<1>2. run[w] \in Run /\ RunInForce(run[w]) /\ run[w].queue # <<>>
  BY <1>1, QueueParts DEF InForce, RunInForce
<1>3. r \in Run /\ r.step = "execute" /\ r.queue = run[w].queue /\ r.at = run[w].at
  BY <1>2 DEF Run
<1> HIDE DEF r
<1>4. RunInForce(r)
  BY <1>1, <1>2, <1>3 DEF RunInForce, Unchanged, Current
<1>5. QED
  BY <1>1, <1>3, <1>4, RunMoves DEF InForce, RetentionTypeOK

\* An execution records its key.
LEMMA ExecuteInForce ==
  ASSUME InForce, NEW w \in Workers, NEW t \in Tenants, Execute(w, t)
  PROVE  InForce'
<1>1. /\ run[w].step = "execute" /\ Current(w).tenant = t
      /\ records' = [records EXCEPT ![t] = RecordsAfter(t, run[w].at, Current(w).period)]
      /\ actions' = [actions EXCEPT ![t] = @ \cup {KeyOf(w)}]
      /\ Enter(w, Advanced(w))
  BY DEF Execute
<1>2. records' \in [Tenants -> [Records -> Record]]
  BY <1>1, ErasedType
<1>3. KeyOf(w) \in Keys
  BY <1>1, QueueParts DEF KeyOf, Keys, Run, Due
<1>4. actions' \in [Tenants -> SUBSET Keys]
  BY <1>1, <1>3 DEF InForce, RetentionTypeOK
<1>5. QED
  BY <1>1, <1>2, <1>4, AdvancedInForce, RunMoves

\* An owner writes the next version, which no task can have read, while no
\* execution of the policy holds its lock.
LEMMA UpdateInForce ==
  ASSUME InForce, NEW t \in Tenants, NEW period \in Periods, NEW automatic \in BOOLEAN,
         UpdatePolicy(t, period, automatic)
  PROVE  InForce'
<1>1. /\ day \in 0..MaxDay /\ policies \in [Tenants -> Policy]
      /\ Executing(t) = {} /\ policies[t].version < MaxVersion
      /\ policies' = [policies EXCEPT ![t] =
           [version |-> policies[t].version + 1, period |-> period, automatic |-> automatic]]
      /\ UNCHANGED <<day, active, records, actions, run>>
  BY DEF InForce, RetentionTypeOK, UpdatePolicy
<1>2. policies[t].version \in 1..MaxVersion /\ policies[t].version + 1 \in 1..MaxVersion
  BY <1>1, RetentionAssumption DEF Policy
<1>3. /\ policies' \in [Tenants -> Policy]
      /\ policies'[t].version = policies[t].version + 1
      /\ \A u \in Tenants \ {t} : policies'[u] = policies[u]
  BY <1>1, <1>2 DEF Policy
<1>4. RetentionTypeOK'
  BY <1>1, <1>3 DEF InForce, RetentionTypeOK
<1>5. \A due \in Due : Known(due) => Known(due)'
  <2> SUFFICES ASSUME NEW due \in Due, Known(due)
               PROVE  Known(due)'
    OBVIOUS
  <2>1. due.tenant \in Tenants /\ due.version \in 1..MaxVersion
    BY DEF Due
  <2>2. CASE due.tenant = t
    BY <1>2, <1>3, <2>1, <2>2 DEF Known
  <2>3. CASE due.tenant # t
    BY <1>3, <2>1, <2>3 DEF Known
  <2>4. QED
    BY <2>2, <2>3
<1>6. ASSUME NEW w \in Workers
      PROVE  RunInForce(run[w])'
  <2>1. run[w] \in Run /\ RunInForce(run[w])
    BY DEF InForce, RetentionTypeOK
  <2>2. \A n \in 1..Len(run[w].queue) : run[w].queue[n] \in Due
    BY <2>1 DEF Run
  <2>3. run[w].step = "execute" =>
          Head(run[w].queue).version = policies'[Head(run[w].queue).tenant].version
    <3> HAVE run[w].step = "execute"
    <3>1. Current(w) \in Due /\ Current(w).tenant # t
      BY <1>1, QueueParts DEF Executing
    <3>2. Current(w).tenant \in Tenants
      BY <3>1 DEF Due
    <3>3. QED
      BY <1>3, <2>1, <3>1, <3>2 DEF RunInForce, Current
  <2>4. QED
    BY <1>1, <1>5, <2>1, <2>2, <2>3 DEF RunInForce
<1>7. QED
  BY <1>4, <1>6 DEF InForce

\* Steps that are of no run and leave the policies.
LEMMA OthersInForce ==
  ASSUME InForce,
         \/ Tick
         \/ \E t \in Tenants : ChangeService(t) \/ ExecuteNow(t)
         \/ \E t \in Tenants, i \in Records : EndRecord(t, i)
         \/ UNCHANGED retentionVars
  PROVE  InForce'
<1>0. RetentionTypeOK /\ \A w \in Workers : RunInForce(run[w]) /\ run[w] \in Run
  BY DEF InForce, RetentionTypeOK
<1>1. policies' = policies /\ run' = run /\ day \in 0..MaxDay
      /\ day' \in 0..MaxDay /\ day <= day'
  BY <1>0, RetentionAssumption
     DEF RetentionTypeOK, Tick, ChangeService, ExecuteNow, EndRecord, retentionVars
<1>2. \A w \in Workers : RunInForce(run[w])'
  BY <1>0, <1>1 DEF RunInForce, Known, Run
<1>3. records' \in [Tenants -> [Records -> Record]]
  <2>1. CASE \E t \in Tenants : ExecuteNow(t)
    BY <2>1, ErasedType DEF ExecuteNow
  <2>2. CASE \E t \in Tenants, i \in Records : EndRecord(t, i)
    BY <1>0, <2>2 DEF RetentionTypeOK, EndRecord, Record
  <2>3. CASE records' = records
    BY <1>0, <2>3 DEF RetentionTypeOK
  <2>4. QED
    BY <2>1, <2>2, <2>3 DEF Tick, ChangeService, retentionVars
<1>4. active' \subseteq Tenants /\ actions' = actions
  BY <1>0 DEF RetentionTypeOK, Tick, ChangeService, ExecuteNow, EndRecord, retentionVars
<1>5. QED
  BY <1>0, <1>1, <1>2, <1>3, <1>4 DEF InForce, RetentionTypeOK

\* InForce is inductive.
LEMMA StepInForce == InForce /\ [RetentionNext]_retentionVars => InForce'
<1> SUFFICES ASSUME InForce, [RetentionNext]_retentionVars
             PROVE  InForce'
  OBVIOUS
<1>1. ASSUME NEW w \in Workers, Replay(w)
      PROVE  InForce'
  BY <1>1, AdvancedInForce, RunMoves DEF Replay, InForce, RetentionTypeOK
<1>2. ASSUME NEW w \in Workers, Conflict(w) \/ Fail(w)
      PROVE  InForce'
  <2>1. day \in Nat /\ 0 \in 0..MaxDay
    BY RetentionAssumption DEF InForce, RetentionTypeOK
  <2>2. NoRun \in Run /\ RunInForce(NoRun)
    BY <2>1 DEF NoRun, Run, RunInForce
  <2>3. Enter(w, NoRun) /\ UNCHANGED <<records, actions>>
    BY <1>2 DEF Conflict, Fail
  <2>4. QED
    BY <2>2, <2>3, RunMoves DEF InForce, RetentionTypeOK
<1>3. QED
  BY <1>1, <1>2, ReadDueInForce, OpenInForce, ExecuteInForce, UpdateInForce, OthersInForce
     DEF RetentionNext

\* The inductive invariant holds in every reachable state.
LEMMA AlwaysInForce == RetentionSpec => []InForce
<1>1. RetentionInit => InForce
  <2> SUFFICES ASSUME RetentionInit
               PROVE  InForce
    OBVIOUS
  <2>1. 0 \in 0..MaxDay /\ 1 \in 1..MaxVersion /\ InitialPeriod \in Periods
    BY RetentionAssumption
  <2>2. RetentionTypeOK
    BY <2>1 DEF RetentionInit, RetentionTypeOK, Policy, Record, Run, NoRun
  <2>3. \A w \in Workers : RunInForce(run[w])
    BY <2>1 DEF RetentionInit, RunInForce, NoRun
  <2>4. QED
    BY <2>2, <2>3 DEF InForce
<1>2. QED
  BY <1>1, StepInForce, PTL DEF RetentionSpec

-----------------------------------------------------------------------------
(* Theorems *)

\* Policies, records, keys and runs are well typed; a run has policies left to
\* execute exactly while it is not idle, whatever a batch meets.
THEOREM RetentionTypeCorrect == RetentionSpec => []RetentionTypeOK
<1>1. InForce => RetentionTypeOK
  BY DEF InForce
<1>2. QED
  BY <1>1, AlwaysInForce, PTL

\* An expired record had expired on every later day too.
LEMMA ExpiredStays ==
  ASSUME NEW record \in Record, NEW at \in Nat, NEW now \in Nat, at <= now,
         NEW period \in Nat, Expired(record, at, period)
  PROVE  Expired(record, now, period)
BY DEF Expired, Record

\* Erasure only ever follows the period in force: for any number of tasks,
\* owners, policies and versions, run_retention erases by the stored policy and
\* not by the one its task had read, although batches are read in advance and
\* their days pass.
THEOREM ErasureFollowsThePolicy == RetentionSpec => PeriodInForce
<1>1. ASSUME InForce, [RetentionNext]_retentionVars, NEW t \in Tenants, NEW i \in Records,
             records'[t][i].status = "erased", records[t][i].status # "erased"
      PROVE  Expired(records[t][i], day, policies[t].period)
  <2>0. /\ records \in [Tenants -> [Records -> Record]]
        /\ day \in Nat /\ policies[t].period \in Nat
    <3>1. /\ records \in [Tenants -> [Records -> Record]]
          /\ day \in 0..MaxDay /\ policies[t] \in Policy
      BY <1>1 DEF InForce, RetentionTypeOK
    <3>2. day \in Nat
      BY <3>1, RetentionAssumption
    <3>3. policies[t].period \in Nat
      BY <3>1, RetentionAssumption DEF Policy
    <3>4. QED
      BY <3>1, <3>2, <3>3
  <2>1. ASSUME NEW u \in Tenants, NEW at, NEW period,
               records' = [records EXCEPT ![u] = RecordsAfter(u, at, period)]
        PROVE  u = t /\ Expired(records[t][i], at, period)
    BY <1>1, <2>0, <2>1 DEF RecordsAfter
  <2>2. ASSUME NEW w \in Workers, NEW u \in Tenants, Execute(w, u)
        PROVE  Expired(records[t][i], day, policies[t].period)
    <3>1. /\ run[w].step = "execute" /\ Current(w).tenant = u
          /\ records' = [records EXCEPT ![u] = RecordsAfter(u, run[w].at, Current(w).period)]
      BY <2>2 DEF Execute
    <3>2. u = t /\ Expired(records[t][i], run[w].at, Current(w).period)
      BY <2>1, <3>1
    <3>3. /\ run[w] \in Run /\ RunInForce(run[w])
          /\ Known(Current(w))
      BY <1>1, <3>1, QueueParts DEF InForce
    <3>4. Current(w).period = policies[t].period
      <4>1. Current(w).version = policies[Current(w).tenant].version
        BY <3>1, <3>3 DEF RunInForce, Current
      <4>2. QED
        BY <3>1, <3>2, <3>3, <4>1 DEF Known
    <3>5. run[w].at \in Nat /\ run[w].at <= day
      BY <3>3 DEF Run, RunInForce
    <3>6. records[t][i] \in Record
      BY <2>0
    <3>7. QED
      BY <2>0, <3>2, <3>4, <3>5, <3>6, ExpiredStays
  <2>3. ASSUME NEW u \in Tenants, ExecuteNow(u)
        PROVE  Expired(records[t][i], day, policies[t].period)
    BY <2>1, <2>3 DEF ExecuteNow
  <2>4. ASSUME NEW u \in Tenants, NEW k \in Records, EndRecord(u, k)
        PROVE  FALSE
    BY <1>1, <2>0, <2>4 DEF EndRecord
  <2>5. CASE records' = records
    BY <1>1, <2>5
  <2>6. QED
    BY <1>1, <2>2, <2>3, <2>4, <2>5
       DEF RetentionNext, retentionVars, Tick, ChangeService, UpdatePolicy, ReadDue, Replay, LockPolicy, Conflict, Fail
<1>2. InForce /\ [RetentionNext]_retentionVars =>
        [\A t \in Tenants, i \in Records :
           records'[t][i].status = "erased" /\ records[t][i].status # "erased"
           => Expired(records[t][i], day, policies[t].period)]_retentionVars
  BY <1>1
<1>3. QED
  BY <1>2, AlwaysInForce, PTL DEF RetentionSpec, PeriodInForce
================================================================================
