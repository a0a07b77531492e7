----------------------------- MODULE AdvisoryProofs -----------------------------
(***************************************************************************)
(* Theorems of Advisory for any texts and retries, and any knowledge base, *)
(* editors, tasks, batches and number of embedding models.                 *)
(***************************************************************************)
EXTENDS Advisory, TLAPS

-----------------------------------------------------------------------------
(* The inductive invariant *)

\* Nothing is recorded before the provider's part has ended; the one record that
\* a handling then leaves has its status, unless the handling was cancelled
\* between writing that record and its end; and then it gets no page.
Told(e, r) ==
  /\ e.outcome # "none" <=> e.step = "done"
  /\ e.step = "sleep" => e.attempts <= MaxRetries
  /\ e.step \in {"new", "call", "sleep"} => r = {} /\ e.status = "none"
  /\ e.step \in {"record", "recorded"} => e.status # "none"
  /\ e.status # "cancelled" => r \subseteq {e.status} /\ (e.step = "record" => r = {})
  /\ e.status = "cancelled" => \/ e.step \in {"record", "recorded"}
                               \/ e.outcome = "cancelled"

\* What an editor has in flight has a source.
InFlight == \A e \in Editors : ingestion[e] # NoIngestion => ingestion[e].source \in Sources

Consistent == TypeOK /\ InFlight /\ \A t \in Texts : Told(exec[t], records[t])

-----------------------------------------------------------------------------
(* The handling of a text *)

\* The counts of calls that the first call and a record start from.
LEMMA FirstCounts ==
  0 \in 0..(MaxRetries + 1) /\ 1 \in 0..(MaxRetries + 1)
  BY AdvisoryAssumption

\* What is known of the execution of one text.
LEMMA ExecutionType ==
  ASSUME Consistent, NEW t \in Texts
  PROVE  /\ exec[t] \in Execution /\ records[t] \subseteq Statuses \ {"none"}
         /\ Told(exec[t], records[t]) /\ model \in Models /\ 1 \in Models
  BY KnowledgeAssumption DEF Consistent, TypeOK, KnowledgeTypeOK, Models

\* The knowledge base is not touched by the handling of a text.
LEMMA KnowledgeKept ==
  ASSUME Consistent, UNCHANGED knowledgeVars
  PROVE  KnowledgeTypeOK' /\ InFlight'
  BY DEF Consistent, TypeOK, knowledgeVars, KnowledgeTypeOK, InFlight, Stored

\* A step of one text, with or without a record.
LEMMA StepKeeps ==
  ASSUME Consistent, NEW t \in Texts, NEW e \in Execution,
         NEW r \in SUBSET (Statuses \ {"none"}), Told(e, r), Step(t, e),
         records' = [records EXCEPT ![t] = r]
  PROVE  Consistent'
<1>1. KnowledgeTypeOK' /\ InFlight'
  BY KnowledgeKept DEF Step
<1>2. /\ exec \in [Texts -> Execution] /\ records \in [Texts -> SUBSET (Statuses \ {"none"})]
      /\ exec' = [exec EXCEPT ![t] = e]
      /\ \A u \in Texts : Told(exec[u], records[u])
  BY DEF Consistent, TypeOK, Step
<1>3. /\ exec' \in [Texts -> Execution]
      /\ records' \in [Texts -> SUBSET (Statuses \ {"none"})]
  BY <1>2
<1>4. \A u \in Texts : Told(exec'[u], records'[u])
  BY <1>2
<1>5. \A u \in Texts : exec'[u].outcome # "none" <=> exec'[u].step = "done"
  BY <1>4 DEF Told
<1>6. \A u \in Texts : Told(exec[u], records[u])'
  BY <1>4 DEF Told
<1>7. QED
  BY <1>1, <1>3, <1>5, <1>6 DEF Consistent, TypeOK

\* A step of one text that records nothing.
LEMMA SilentStepKeeps ==
  ASSUME Consistent, NEW t \in Texts, NEW e \in Execution,
         Told(e, records[t]), Step(t, e), UNCHANGED records
  PROVE  Consistent'
<1>1. /\ records' = [records EXCEPT ![t] = records[t]]
      /\ records[t] \in SUBSET (Statuses \ {"none"})
  BY DEF Consistent, TypeOK
<1>2. QED
  BY <1>1, StepKeeps

\* The record that is to be written.
LEMMA RecordingKeeps ==
  ASSUME Consistent, NEW t \in Texts, NEW status \in Statuses \ {"none"}, NEW guarded \in BOOLEAN,
         status # "cancelled" => records[t] = {}, exec[t].step # "done",
         Step(t, Recording(t, status, guarded)), UNCHANGED records
  PROVE  Consistent'
<1> DEFINE e == Recording(t, status, guarded)
<1>1. exec[t] \in Execution /\ Told(exec[t], records[t])
  BY ExecutionType
<1>2. e \in Execution
  BY <1>1, FirstCounts DEF Recording, Execution, Steps
<1>3. /\ e.step = "record" /\ e.status = status /\ e.outcome = exec[t].outcome
  BY <1>1 DEF Recording, Execution
<1> HIDE DEF e
<1>4. Told(e, records[t])
  BY <1>1, <1>3 DEF Told
<1>5. QED
  BY <1>2, <1>4, SilentStepKeeps DEF e

\* The fields of an execution that has ended.
LEMMA DoneFields ==
  ASSUME Consistent, NEW t \in Texts, NEW outcome \in {"page", "answer", "human", "failed", "cancelled"}
  PROVE  /\ Done(t, outcome) \in Execution
         /\ Done(t, outcome).step = "done" /\ Done(t, outcome).outcome = outcome
         /\ Done(t, outcome).status = exec[t].status
<1>1. exec[t] \in Execution /\ 1 \in Models
  BY ExecutionType
<1>2. QED
  BY <1>1, FirstCounts DEF Done, Execution, Steps

\* The end of a handling; a cancelled one ends without a page.
LEMMA DoneKeeps ==
  ASSUME Consistent, NEW t \in Texts, NEW outcome \in {"page", "answer", "human", "failed", "cancelled"},
         exec[t].step = "recorded" /\ exec[t].status = "cancelled" => outcome = "cancelled",
         exec[t].step = "record" => outcome = "cancelled", exec[t].step # "done",
         Step(t, Done(t, outcome)), UNCHANGED records
  PROVE  Consistent'
<1> DEFINE e == Done(t, outcome)
<1>1. exec[t] \in Execution /\ Told(exec[t], records[t])
  BY ExecutionType
<1>2. /\ e \in Execution
      /\ e.step = "done" /\ e.outcome = outcome /\ e.status = exec[t].status
  BY DoneFields
<1> HIDE DEF e
<1>3. Told(e, records[t])
  BY <1>1, <1>2 DEF Told
<1>4. QED
  BY <1>2, <1>3, SilentStepKeeps DEF e

\* The waits of the provider's part: nothing is recorded in it.
LEMMA ProviderPartKeeps ==
  ASSUME Consistent, NEW t \in Texts,
         Provider(t) \/ Call(t) \/ CallNobody(t) \/ Overdue(t) \/ Retry(t)
  PROVE  Consistent'
<1>1. exec[t] \in Execution /\ Told(exec[t], records[t])
  BY ExecutionType
<1>2. exec[t].step \in {"new", "call", "sleep"} => records[t] = {} /\ exec[t].status = "none"
  BY <1>1 DEF Told
<1>3. ASSUME NEW status \in {"success", "fallback"}, NEW guarded \in BOOLEAN,
             exec[t].step \in {"new", "call"},
             Step(t, Recording(t, status, guarded)), UNCHANGED records
      PROVE  Consistent'
  BY <1>2, <1>3, RecordingKeeps DEF Statuses
<1>4. CASE Call(t)
  <2> DEFINE e == [exec[t] EXCEPT !.step = "call", !.attempts = 1]
  <2>1. e \in Execution
    BY <1>1, FirstCounts DEF Execution, Steps
  <2>2. e.step = "call" /\ e.status = exec[t].status /\ e.outcome = exec[t].outcome
    BY <1>1 DEF Execution
  <2> HIDE DEF e
  <2>3. Told(e, records[t])
    BY <1>1, <1>2, <1>4, <2>2 DEF Told, Call
  <2>4. QED
    BY <1>4, <2>1, <2>3, SilentStepKeeps DEF Call, e
<1>5. CASE CallNobody(t)
  BY <1>3, <1>5 DEF CallNobody
<1>6. CASE Provider(t)
  BY <1>3, <1>6 DEF Provider, Reject, Respond
<1>7. CASE Overdue(t) /\ RetriesLeft(t)
  <2> DEFINE e == [exec[t] EXCEPT !.step = "sleep"]
  <2>1. e \in Execution
    BY <1>1 DEF Execution, Steps
  <2>2. /\ e.step = "sleep" /\ e.status = exec[t].status /\ e.outcome = exec[t].outcome
        /\ e.attempts = exec[t].attempts
    BY <1>1 DEF Execution
  <2> HIDE DEF e
  <2>3. Told(e, records[t])
    BY <1>1, <1>2, <1>7, <2>2 DEF Told, Overdue, RetriesLeft
  <2>4. QED
    BY <1>7, <2>1, <2>3, SilentStepKeeps DEF Overdue, e
<1>8. CASE Overdue(t) /\ ~RetriesLeft(t)
  BY <1>3, <1>8 DEF Overdue
<1>9. CASE Retry(t)
  <2> DEFINE e == [exec[t] EXCEPT !.step = "call", !.attempts = @ + 1]
  <2>1. exec[t].attempts \in Nat /\ exec[t].attempts <= MaxRetries
    BY <1>1, <1>9, AdvisoryAssumption DEF Told, Retry, Execution
  <2>2. exec[t].attempts + 1 \in 0..(MaxRetries + 1)
    BY <2>1, AdvisoryAssumption
  <2>3. e \in Execution
    BY <1>1, <2>2 DEF Execution, Steps
  <2>4. e.step = "call" /\ e.status = exec[t].status /\ e.outcome = exec[t].outcome
    BY <1>1 DEF Execution
  <2> HIDE DEF e
  <2>5. Told(e, records[t])
    BY <1>1, <1>2, <1>9, <2>4 DEF Told, Retry
  <2>6. QED
    BY <1>9, <2>3, <2>5, SilentStepKeeps DEF Retry, e
<1>10. QED
  BY <1>4, <1>5, <1>6, <1>7, <1>8, <1>9

\* The one place where a record is written.
LEMMA RecordKeeps ==
  ASSUME Consistent, NEW t \in Texts, Record(t)
  PROVE  Consistent'
<1> DEFINE e == [exec[t] EXCEPT !.step = "recorded"]
<1>1. /\ exec[t] \in Execution /\ records[t] \subseteq Statuses \ {"none"}
      /\ Told(exec[t], records[t]) /\ exec[t].step = "record"
  BY ExecutionType DEF Record
<1>2. exec[t].status \in Statuses \ {"none"}
  BY <1>1 DEF Told, Execution
<1>3. PICK stored \in {{}, {exec[t].status}} :
             records' = [records EXCEPT ![t] = @ \cup stored]
  BY DEF Record
<1> DEFINE r == records[t] \cup stored
<1>4. r \in SUBSET (Statuses \ {"none"}) /\ records' = [records EXCEPT ![t] = r]
  BY <1>1, <1>2, <1>3 DEF Consistent, TypeOK
<1>5. e \in Execution
  BY <1>1 DEF Execution, Steps
<1>6. e.step = "recorded" /\ e.status = exec[t].status /\ e.outcome = exec[t].outcome
  BY <1>1 DEF Execution
<1>7. e.status # "cancelled" => r \subseteq {e.status}
  BY <1>1, <1>3, <1>6 DEF Told
<1>8. Step(t, e)
  BY DEF Record
<1> HIDE DEF e, r
<1>9. Told(e, r)
  BY <1>1, <1>2, <1>6, <1>7 DEF Told
<1>10. QED
  BY <1>4, <1>5, <1>8, <1>9, StepKeeps

\* A step from one statement of the knowledge route to the next.
LEMMA SearchStepKeeps ==
  ASSUME Consistent, NEW t \in Texts, NEW e \in Execution,
         exec[t].step \in {"recorded", "embed", "lexical"}, exec[t].status # "cancelled",
         e.step \in {"embed", "lexical", "vector"}, e.status = exec[t].status,
         e.outcome = exec[t].outcome, Step(t, e), UNCHANGED records
  PROVE  Consistent'
<1>1. Told(exec[t], records[t])
  BY ExecutionType
<1>2. Told(e, records[t])
  BY <1>1 DEF Told
<1>3. QED
  BY <1>2, SilentStepKeeps

\* A handling that has reached the knowledge route was not cancelled.
LEMMA SearchesAreOpen ==
  ASSUME Consistent, NEW t \in Texts, exec[t].step \in {"embed", "lexical", "vector"}
  PROVE  exec[t].status # "cancelled"
<1>1. Told(exec[t], records[t])
  BY ExecutionType
<1>2. QED
  BY <1>1 DEF Told

\* A validated route, a fallback or a cancellation, once it is recorded.
LEMMA RouteKeeps ==
  ASSUME Consistent, NEW t \in Texts, Route(t)
  PROVE  Consistent'
<1>1. /\ exec[t] \in Execution /\ Told(exec[t], records[t]) /\ model \in Models
      /\ exec[t].step = "recorded" /\ UNCHANGED records
  BY ExecutionType DEF Route
<1>2. exec[t].status \in {"success", "fallback", "cancelled"}
  BY <1>1 DEF Told, Execution, Statuses
<1> DEFINE e == [exec[t] EXCEPT !.step = "embed", !.model = model]
<1>3. CASE exec[t].status = "success"
  <2>1. \/ Step(t, Done(t, "page")) \/ Step(t, Done(t, "human"))
        \/ Step(t, Done(t, "failed")) \/ Step(t, e)
    BY <1>3 DEF Route, Show
  <2>2. e \in Execution
    BY <1>1 DEF Execution, Steps
  <2>3. e.step = "embed" /\ e.status = exec[t].status /\ e.outcome = exec[t].outcome
    BY <1>1 DEF Execution
  <2> HIDE DEF e
  <2>4. Step(t, e) => Consistent'
    BY <1>1, <1>3, <2>2, <2>3, SearchStepKeeps
  <2>5. \/ Step(t, Done(t, "page")) \/ Step(t, Done(t, "human"))
        \/ Step(t, Done(t, "failed"))
        => Consistent'
    BY <1>1, <1>3, DoneKeeps
  <2>6. QED
    BY <2>1, <2>4, <2>5
<1>4. CASE exec[t].status = "fallback"
  <2>1. Step(t, Done(t, "human")) \/ Step(t, Done(t, "failed"))
    BY <1>4 DEF Route, Show
  <2>2. QED
    BY <1>1, <1>4, <2>1, DoneKeeps
<1>5. CASE exec[t].status = "cancelled"
  <2>1. Step(t, Done(t, "cancelled"))
    BY <1>5 DEF Route, Raise
  <2>2. QED
    BY <1>1, <2>1, DoneKeeps
<1>6. QED
  BY <1>2, <1>3, <1>4, <1>5

\* A cancellation, wherever the handler waits.
LEMMA CancelKeeps ==
  ASSUME Consistent, NEW t \in Texts, Cancel(t)
  PROVE  Consistent'
<1>1. exec[t].step # "done" /\ UNCHANGED records
  BY DEF Cancel
<1>2. Step(t, Recording(t, "cancelled", FALSE)) \/ Step(t, Done(t, "cancelled"))
  BY DEF Cancel
<1>3. Step(t, Recording(t, "cancelled", FALSE)) => Consistent'
  BY <1>1, RecordingKeeps DEF Statuses
<1>4. Step(t, Done(t, "cancelled")) => Consistent'
  BY <1>1, DoneKeeps
<1>5. QED
  BY <1>2, <1>3, <1>4

\* The statements of the knowledge route.
LEMMA SearchKeeps ==
  ASSUME Consistent, NEW t \in Texts, Embed(t) \/ SearchWords(t) \/ SearchVectors(t)
  PROVE  Consistent'
<1>1. exec[t] \in Execution /\ Told(exec[t], records[t]) /\ UNCHANGED records
  BY ExecutionType DEF Embed, SearchWords, SearchVectors
<1>2. exec[t].step \in {"embed", "lexical", "vector"} /\ exec[t].status # "cancelled"
  BY SearchesAreOpen DEF Embed, SearchWords, SearchVectors
<1>3. CASE Embed(t)
  <2> DEFINE e == [exec[t] EXCEPT !.step = "lexical"]
  <2>1. Step(t, Done(t, "human")) \/ Step(t, Done(t, "failed")) \/ Step(t, e)
    BY <1>3 DEF Embed, Show
  <2>2. e \in Execution
    BY <1>1 DEF Execution, Steps
  <2>3. e.step = "lexical" /\ e.status = exec[t].status /\ e.outcome = exec[t].outcome
    BY <1>1 DEF Execution
  <2>4. exec[t].step = "embed"
    BY <1>3 DEF Embed
  <2> HIDE DEF e
  <2>5. QED
    BY <1>1, <1>2, <2>1, <2>2, <2>3, <2>4, SearchStepKeeps, DoneKeeps
<1>4. CASE SearchWords(t)
  <2>1. \/ \E found \in BOOLEAN :
              Step(t, [exec[t] EXCEPT !.step = "vector", !.evidence = found])
        \/ Step(t, Done(t, "failed"))
    BY <1>4 DEF SearchWords
  <2>2. exec[t].step = "lexical"
    BY <1>4 DEF SearchWords
  <2>3. ASSUME NEW found \in BOOLEAN,
               Step(t, [exec[t] EXCEPT !.step = "vector", !.evidence = found])
        PROVE  Consistent'
    <3> DEFINE e == [exec[t] EXCEPT !.step = "vector", !.evidence = found]
    <3>1. e \in Execution
      BY <1>1 DEF Execution, Steps
    <3>2. e.step = "vector" /\ e.status = exec[t].status /\ e.outcome = exec[t].outcome
      BY <1>1 DEF Execution
    <3>3. Step(t, e)
      BY <2>3
    <3> HIDE DEF e
    <3>4. QED
      BY <1>1, <1>2, <2>2, <3>1, <3>2, <3>3, SearchStepKeeps
  <2>4. QED
    BY <1>1, <2>1, <2>2, <2>3, DoneKeeps
<1>5. CASE SearchVectors(t)
  <2>1. \/ Step(t, Done(t, "human")) \/ Step(t, Done(t, "answer"))
        \/ Step(t, Done(t, "failed"))
    BY <1>5 DEF SearchVectors, Show
  <2>2. exec[t].step = "vector"
    BY <1>5 DEF SearchVectors
  <2>3. QED
    BY <1>1, <2>1, <2>2, DoneKeeps
<1>6. QED
  BY <1>3, <1>4, <1>5

-----------------------------------------------------------------------------
(* The knowledge base *)

\* A step of the knowledge base, in the parts that it keeps.
LEMMA KnowledgeStepKeeps ==
  ASSUME Consistent, UNCHANGED advisoryVars, KnowledgeTypeOK', InFlight'
  PROVE  Consistent'
<1>1. exec' = exec /\ records' = records
  BY DEF advisoryVars
<1>2. /\ exec' \in [Texts -> Execution] /\ records' \in [Texts -> SUBSET (Statuses \ {"none"})]
      /\ \A t \in Texts : exec'[t].outcome # "none" <=> exec'[t].step = "done"
      /\ \A t \in Texts : Told(exec'[t], records'[t])
  BY <1>1 DEF Consistent, TypeOK
<1>3. \A t \in Texts : Told(exec[t], records[t])'
  BY <1>2 DEF Told
<1>4. QED
  BY <1>2, <1>3 DEF Consistent, TypeOK

\* One document is replaced by another.
LEMMA DocumentChanges ==
  ASSUME Consistent, NEW d \in Documents, NEW fields \in Document,
         fields.published => fields.status = "ready",
         fields.status \in {"ready", "archived"} => fields.source # Nil,
         documents' = [documents EXCEPT ![d] = fields]
  PROVE  /\ documents' \in [Documents -> Document]
         /\ \A f \in Documents : documents'[f].published => documents'[f].status = "ready"
         /\ \A f \in Documents : documents'[f].status \in {"ready", "archived"}
                                   => documents'[f].source # Nil
<1>1. /\ documents \in [Documents -> Document]
      /\ \A f \in Documents : documents[f].published => documents[f].status = "ready"
      /\ \A f \in Documents : documents[f].status \in {"ready", "archived"}
                                => documents[f].source # Nil
  BY DEF Consistent, TypeOK, KnowledgeTypeOK, Stored
<1>2. documents' \in [Documents -> Document]
  BY <1>1
<1>3. \A f \in Documents : documents'[f] = IF f = d THEN fields ELSE documents[f]
  BY <1>1
<1>4. QED
  BY <1>1, <1>2, <1>3

\* A source that an editor brings in becomes a document.
LEMMA IngestKeeps ==
  ASSUME Consistent, NEW e \in Editors, NEW d \in Documents, Ingest(e, d)
  PROVE  KnowledgeTypeOK' /\ InFlight'
<1> DEFINE fields == [source |-> ingestion[e].source, status |-> "ready",
                      published |-> FALSE, model |-> ingestion[e].model]
<1>1. ingestion \in [Editors -> Ingestion] /\ ingestion[e].source \in Sources
  BY DEF Consistent, TypeOK, KnowledgeTypeOK, InFlight, Ingest
<1>2. ingestion[e].model \in Models /\ ingestion[e].source # Nil
  BY <1>1, KnowledgeAssumption DEF Ingestion
<1>3. fields \in Document
  BY <1>1, <1>2 DEF Document
<1>4. documents' = [documents EXCEPT ![d] = fields]
  BY DEF Ingest
<1>5. /\ fields.published => fields.status = "ready"
      /\ fields.source # Nil
  BY <1>2
<1> HIDE DEF fields
<1>6. /\ documents' \in [Documents -> Document]
      /\ \A f \in Documents : documents'[f].published => documents'[f].status = "ready"
      /\ \A f \in Documents : documents'[f].status \in {"ready", "archived"}
                                => documents'[f].source # Nil
  BY <1>3, <1>4, <1>5, DocumentChanges
<1>7. NoIngestion \in Ingestion
  BY KnowledgeAssumption DEF NoIngestion, Ingestion, Models
<1>8. /\ ingestion' = [ingestion EXCEPT ![e] = NoIngestion] /\ model' = model
      /\ reindex' = reindex
  BY DEF Ingest
<1>9. ingestion' \in [Editors -> Ingestion]
  BY <1>1, <1>7, <1>8
<1>10. InFlight'
  BY <1>1, <1>8 DEF Consistent, InFlight
<1>11. QED
  BY <1>6, <1>8, <1>9, <1>10 DEF Consistent, TypeOK, KnowledgeTypeOK, Stored

\* An editor starts to bring in a source, or gives it up.
LEMMA EditorKeeps ==
  ASSUME Consistent, NEW e \in Editors, NEW i \in Ingestion,
         i # NoIngestion => i.source \in Sources,
         ingestion' = [ingestion EXCEPT ![e] = i], UNCHANGED <<model, documents, reindex>>
  PROVE  KnowledgeTypeOK' /\ InFlight'
<1>1. ingestion \in [Editors -> Ingestion] /\ InFlight
  BY DEF Consistent, TypeOK, KnowledgeTypeOK
<1>2. ingestion' \in [Editors -> Ingestion]
  BY <1>1
<1>3. InFlight'
  BY <1>1 DEF InFlight
<1>4. QED
  BY <1>2, <1>3 DEF Consistent, TypeOK, KnowledgeTypeOK, Stored

\* A document is published, archived or deleted.
LEMMA EditingKeeps ==
  ASSUME Consistent, NEW d \in Documents, Publish(d) \/ Archive(d) \/ Delete(d)
  PROVE  KnowledgeTypeOK' /\ InFlight'
<1>1. /\ documents[d] \in Document
      /\ documents[d].status \in {"ready", "archived"} => documents[d].source # Nil
      /\ 1 \in Models
  BY KnowledgeAssumption DEF Consistent, TypeOK, KnowledgeTypeOK, Stored, Models
<1>2. \E fields \in Document :
        /\ fields.published => fields.status = "ready"
        /\ fields.status \in {"ready", "archived"} => fields.source # Nil
        /\ documents' = [documents EXCEPT ![d] = fields]
  <2>1. CASE Publish(d)
    <3> DEFINE fields == [documents[d] EXCEPT !.published = TRUE]
    <3>1. documents[d].status = "ready" /\ documents' = [documents EXCEPT ![d] = fields]
      BY <2>1 DEF Publish, Change
    <3>2. fields \in Document /\ fields.status = "ready" /\ fields.source # Nil
      BY <1>1, <3>1 DEF Document
    <3>3. QED
      BY <3>1, <3>2
  <2>2. CASE Archive(d)
    <3> DEFINE fields == [documents[d] EXCEPT !.status = "archived", !.published = FALSE]
    <3>1. documents[d].status = "ready" /\ documents' = [documents EXCEPT ![d] = fields]
      BY <2>2 DEF Archive, Change
    <3>2. fields \in Document /\ fields.published = FALSE /\ fields.source # Nil
      BY <1>1, <3>1 DEF Document
    <3>3. QED
      BY <3>1, <3>2
  <2>3. CASE Delete(d)
    <3> DEFINE fields == [NoDocument EXCEPT !.status = "deleted"]
    <3>1. documents' = [documents EXCEPT ![d] = fields]
      BY <2>3 DEF Delete, Change
    <3>2. /\ fields \in Document /\ fields.published = FALSE
          /\ fields.status = "deleted"
      BY <1>1 DEF Document, NoDocument
    <3> HIDE DEF fields
    <3>3. QED
      BY <3>1, <3>2
  <2>4. QED
    BY <2>1, <2>2, <2>3
<1>3. UNCHANGED <<model, ingestion, reindex>>
  BY DEF Publish, Archive, Delete, Change
<1>4. /\ documents' \in [Documents -> Document]
      /\ \A f \in Documents : documents'[f].published => documents'[f].status = "ready"
      /\ \A f \in Documents : documents'[f].status \in {"ready", "archived"}
                                => documents'[f].source # Nil
  BY <1>2, DocumentChanges
<1>5. InFlight'
  BY <1>3 DEF Consistent, InFlight
<1>6. QED
  BY <1>3, <1>4, <1>5 DEF Consistent, TypeOK, KnowledgeTypeOK, Stored

\* A task reads its candidates, or ends.
LEMMA TaskKeeps ==
  ASSUME Consistent, NEW w \in Workers, ListCandidates(w) \/ ReindexFails(w)
  PROVE  KnowledgeTypeOK' /\ InFlight'
<1>1. reindex \in [Workers -> Reindex] /\ model \in Models
  BY DEF Consistent, TypeOK, KnowledgeTypeOK
<1>2. NoReindex \in Reindex
  BY KnowledgeAssumption DEF NoReindex, Reindex, Models
<1>3. UNCHANGED <<model, documents, ingestion>>
  BY DEF ListCandidates, ReindexFails
<1>4. reindex' \in [Workers -> Reindex]
  <2>1. CASE ListCandidates(w)
    <3>1. PICK batch \in SUBSET Documents :
                 reindex' = [reindex EXCEPT ![w] = [candidates |-> batch, model |-> model]]
      BY <2>1 DEF ListCandidates, Candidates
    <3>2. [candidates |-> batch, model |-> model] \in Reindex
      BY <1>1 DEF Reindex
    <3>3. QED
      BY <1>1, <3>1, <3>2
  <2>2. CASE ReindexFails(w)
    BY <1>1, <1>2, <2>2 DEF ReindexFails
  <2>3. QED
    BY <2>1, <2>2
<1>5. InFlight'
  BY <1>3 DEF Consistent, InFlight
<1>6. QED
  BY <1>3, <1>4, <1>5 DEF Consistent, TypeOK, KnowledgeTypeOK, Stored

\* A chunk gets a vector of the model that the task was started for.
LEMMA UpdateKeeps ==
  ASSUME Consistent, NEW w \in Workers, NEW d \in Documents, UpdateEmbedding(w, d)
  PROVE  KnowledgeTypeOK' /\ InFlight'
<1>1. /\ reindex \in [Workers -> Reindex] /\ documents[d] \in Document
      /\ documents \in [Documents -> Document]
      /\ documents[d].status \in {"ready", "archived"} => documents[d].source # Nil
      /\ documents[d].published => documents[d].status = "ready"
  BY DEF Consistent, TypeOK, KnowledgeTypeOK, Stored
<1>2. reindex[w].model \in Models /\ reindex[w].candidates \subseteq Documents
  BY <1>1 DEF Reindex
<1> DEFINE fields == [documents[d] EXCEPT !.model = reindex[w].model]
<1>3. /\ fields \in Document /\ fields.status = documents[d].status
      /\ fields.source = documents[d].source /\ fields.published = documents[d].published
  BY <1>1, <1>2 DEF Document
<1>4. documents' = [documents EXCEPT ![d] = fields] \/ documents' = documents
  BY DEF UpdateEmbedding
<1> HIDE DEF fields
<1>5. /\ documents' \in [Documents -> Document]
      /\ \A f \in Documents : documents'[f].published => documents'[f].status = "ready"
      /\ \A f \in Documents : documents'[f].status \in {"ready", "archived"}
                                => documents'[f].source # Nil
  <2>1. CASE documents' = [documents EXCEPT ![d] = fields]
    BY <1>1, <1>3, <2>1, DocumentChanges
  <2>2. CASE documents' = documents
    BY <2>2 DEF Consistent, TypeOK, KnowledgeTypeOK, Stored
  <2>3. QED
    BY <1>4, <2>1, <2>2
<1>6. reindex' \in [Workers -> Reindex]
  <2> DEFINE rest == [reindex[w] EXCEPT !.candidates = @ \ {d}]
  <2>1. NoReindex \in Reindex
    BY KnowledgeAssumption DEF NoReindex, Reindex, Models
  <2>2. rest \in Reindex
    BY <1>1 DEF Reindex
  <2>3. \/ reindex' = [reindex EXCEPT ![w] = NoReindex]
        \/ reindex' = [reindex EXCEPT ![w] = rest]
    BY DEF UpdateEmbedding
  <2> HIDE DEF rest
  <2>4. QED
    BY <1>1, <2>1, <2>2, <2>3
<1>7. UNCHANGED <<model, ingestion>>
  BY DEF UpdateEmbedding
<1>8. InFlight'
  BY <1>7 DEF Consistent, InFlight
<1>9. QED
  BY <1>5, <1>6, <1>7, <1>8 DEF Consistent, TypeOK, KnowledgeTypeOK, Stored

\* Every step of the knowledge base.
LEMMA KnowledgeNextKeeps ==
  ASSUME Consistent, KnowledgeNext
  PROVE  KnowledgeTypeOK' /\ InFlight'
<1>1. CASE Reconfigure
  <2>1. model' \in Models
    BY <1>1, KnowledgeAssumption DEF Reconfigure, Consistent, TypeOK, KnowledgeTypeOK, Models
  <2>2. UNCHANGED <<documents, ingestion, reindex>>
    BY <1>1 DEF Reconfigure
  <2>3. QED
    BY <2>1, <2>2 DEF Consistent, TypeOK, KnowledgeTypeOK, InFlight, Stored
<1>2. ASSUME NEW e \in Editors, IngestFails(e)
      PROVE  KnowledgeTypeOK' /\ InFlight'
  <2>1. NoIngestion \in Ingestion
    BY KnowledgeAssumption DEF NoIngestion, Ingestion, Models
  <2>2. QED
    BY <1>2, <2>1, EditorKeeps DEF IngestFails
<1>3. ASSUME NEW e \in Editors, NEW s \in Sources, OpenIngest(e, s)
      PROVE  KnowledgeTypeOK' /\ InFlight'
  <2> DEFINE i == [source |-> s, model |-> model]
  <2>1. i \in Ingestion /\ i.source \in Sources
    BY DEF Consistent, TypeOK, KnowledgeTypeOK, Ingestion
  <2>2. ingestion' = [ingestion EXCEPT ![e] = i] /\ UNCHANGED <<model, documents, reindex>>
    BY <1>3 DEF OpenIngest
  <2> HIDE DEF i
  <2>3. QED
    BY <2>1, <2>2, EditorKeeps
<1>4. QED
  BY <1>1, <1>2, <1>3, IngestKeeps, EditingKeeps, TaskKeeps, UpdateKeeps DEF KnowledgeNext

-----------------------------------------------------------------------------
(* The theorems *)

LEMMA InitConsistent == Init => Consistent
<1> SUFFICES ASSUME Init PROVE Consistent
  OBVIOUS
<1>1. 1 \in Models
  BY KnowledgeAssumption DEF Models
<1>2. KnowledgeTypeOK /\ InFlight
  BY <1>1 DEF Init, KnowledgeInit, KnowledgeTypeOK, InFlight, NoDocument, Document, NoIngestion,
              Ingestion, NoReindex, Reindex, Stored
<1>3. /\ NewExecution \in Execution
      /\ NewExecution.outcome = "none" /\ NewExecution.step = "new" /\ NewExecution.status = "none"
  BY <1>1, FirstCounts DEF NewExecution, Execution, Steps, Statuses
<1>4. Told(NewExecution, {})
  BY <1>3 DEF Told
<1>5. exec = [t \in Texts |-> NewExecution] /\ records = [t \in Texts |-> {}]
  BY DEF Init
<1>6. \A t \in Texts : exec[t] = NewExecution /\ records[t] = {}
  BY <1>5
<1>7. QED
  BY <1>2, <1>3, <1>4, <1>5, <1>6 DEF Consistent, TypeOK

LEMMA StepConsistent == Consistent /\ [Next]_vars => Consistent'
<1> SUFFICES ASSUME Consistent, [Next]_vars PROVE Consistent'
  OBVIOUS
<1>1. CASE UNCHANGED vars
  <2>1. UNCHANGED knowledgeVars /\ UNCHANGED advisoryVars
    BY <1>1 DEF vars
  <2>2. QED
    BY <2>1, KnowledgeKept, KnowledgeStepKeeps
<1>2. CASE KnowledgeNext /\ UNCHANGED advisoryVars
  BY <1>2, KnowledgeNextKeeps, KnowledgeStepKeeps
<1>3. ASSUME NEW t \in Texts, Provider(t) \/ Progress(t) \/ Cancel(t)
      PROVE  Consistent'
  BY <1>3, ProviderPartKeeps, RecordKeeps, RouteKeeps, SearchKeeps, CancelKeeps DEF Progress
<1>4. QED
  BY <1>1, <1>2, <1>3 DEF Next

\* The inductive invariant: what is recorded of every handling, at every step.
THEOREM AlwaysConsistent == Spec => []Consistent
<1>1. QED
  BY InitConsistent, StepConsistent, PTL DEF Spec

\* Executions, records, documents and tasks are what the runtime and the
\* knowledge base store, whatever is in flight when the model changes.
THEOREM TypeCorrect == Spec => []TypeOK
<1>1. Consistent => TypeOK
  BY DEF Consistent
<1>2. QED
  BY <1>1, AlwaysConsistent, PTL

\* Of a handling that was not cancelled, the telemetry of AIRuntime.execute tells
\* how its operation ended and nothing else, however often the provider was retried.
THEOREM TelemetryIsTrue == Spec => []RecordTellsTheOutcome
<1>1. Consistent => RecordTellsTheOutcome
  <2> SUFFICES ASSUME Consistent, NEW t \in Texts, exec[t].step = "done",
                      exec[t].outcome # "cancelled"
               PROVE  records[t] \subseteq {exec[t].status}
    BY DEF RecordTellsTheOutcome
  <2>1. Told(exec[t], records[t])
    BY ExecutionType
  <2>2. QED
    BY <2>1 DEF Told
<1>2. QED
  BY <1>1, AlwaysConsistent, PTL
================================================================================
