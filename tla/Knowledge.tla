------------------------------- MODULE Knowledge -------------------------------
(***************************************************************************)
(* The knowledge base of one tenant: editors bring in sources, publish and *)
(* archive the documents made of them, retention deletes archived ones,    *)
(* and a task of the worker embeds again what another embedding model than *)
(* the configured one has embedded.  The provider computes embeddings      *)
(* between two transactions, for an ingestion as for the task, and the     *)
(* configuration may change meanwhile.  A document is one chunk here.      *)
(***************************************************************************)
EXTENDS Naturals, FiniteSets

CONSTANTS
  Documents,       \* ids, numbered in their order
  Sources,         \* normalized sources, told apart by their checksums
  Editors,         \* ingestions in flight
  Workers,         \* reindexing tasks in flight
  BatchSize,       \* chunks that one task reads
  MaxModel,        \* bound on the changes of the embedding model
  Nil

ASSUME KnowledgeAssumption ==
  /\ Documents \subseteq Nat /\ Nil \notin Sources
  /\ BatchSize \in Nat \ {0} /\ MaxModel \in Nat \ {0}

VARIABLES
  model,           \* the configured embedding model
  documents,       \* knowledge_documents, with the model of the chunk's vector
  ingestion,       \* sources whose embeddings are being computed
  reindex          \* candidates of the tasks that are left to be updated

knowledgeVars == <<model, documents, ingestion, reindex>>

Models == 1..MaxModel
Document == [source : Sources \cup {Nil}, status : {"unused", "ready", "archived", "deleted"},
             published : BOOLEAN, model : Models]
NoDocument == [source |-> Nil, status |-> "unused", published |-> FALSE, model |-> 1]
Ingestion == [source : Sources \cup {Nil}, model : Models]
NoIngestion == [source |-> Nil, model |-> 1]
Reindex == [candidates : SUBSET Documents, model : Models]
NoReindex == [candidates |-> {}, model |-> 1]

Stored == {d \in Documents : documents[d].status \in {"ready", "archived"}}

KnowledgeTypeOK ==
  /\ model \in Models
  /\ documents \in [Documents -> Document]
  /\ ingestion \in [Editors -> Ingestion]
  /\ reindex \in [Workers -> Reindex]
  /\ \A d \in Documents : documents[d].published => documents[d].status = "ready"
  /\ \A d \in Stored : documents[d].source # Nil

KnowledgeInit ==
  /\ model = 1
  /\ documents = [d \in Documents |-> NoDocument]
  /\ ingestion = [e \in Editors |-> NoIngestion]
  /\ reindex = [w \in Workers |-> NoReindex]

-----------------------------------------------------------------------------
(* Editors *)

\* The processes restart with another model; what is in flight keeps its own.
Reconfigure ==
  /\ model < MaxModel
  /\ model' = model + 1
  /\ UNCHANGED <<documents, ingestion, reindex>>

WithSource(s) == {d \in Stored : documents[d].source = s}

\* _ingest up to the call of the provider: a source that is stored, be it
\* archived, is not ingested again.
OpenIngest(e, s) ==
  /\ ingestion[e] = NoIngestion
  /\ WithSource(s) = {}
  /\ ingestion' = [ingestion EXCEPT ![e] = [source |-> s, model |-> model]]
  /\ UNCHANGED <<model, documents, reindex>>

\* unique (tenant_id, checksum, version), every version being 1.
IndexAllows(s) == WithSource(s) = {}

\* ingest, of a source whose chunk has been embedded.
Ingest(e, d) ==
  /\ ingestion[e] # NoIngestion
  /\ documents[d].status = "unused"
  /\ IndexAllows(ingestion[e].source)
  /\ documents' = [documents EXCEPT ![d] = [source |-> ingestion[e].source, status |-> "ready",
                                            published |-> FALSE, model |-> ingestion[e].model]]
  /\ ingestion' = [ingestion EXCEPT ![e] = NoIngestion]
  /\ UNCHANGED <<model, reindex>>

\* The provider fails, the index refuses, or the process dies.
IngestFails(e) ==
  /\ ingestion[e] # NoIngestion
  /\ ingestion' = [ingestion EXCEPT ![e] = NoIngestion]
  /\ UNCHANGED <<model, documents, reindex>>

Change(d, from, fields) ==
  /\ documents[d].status = from
  /\ documents' = [documents EXCEPT ![d] = fields]
  /\ UNCHANGED <<model, ingestion, reindex>>

Publish(d) == Change(d, "ready", [documents[d] EXCEPT !.published = TRUE])
Archive(d) == Change(d, "ready", [documents[d] EXCEPT !.status = "archived", !.published = FALSE])

\* _apply_retention, of archived documents and their chunks.
Delete(d) == Change(d, "archived", [NoDocument EXCEPT !.status = "deleted"])

-----------------------------------------------------------------------------
(* The reindexing task *)

\* Chunks that read like instructions, which are stored but neither found nor
\* embedded again, are left out.
Ready(d) == documents[d].status = "ready"
Outdated(d) == Ready(d) /\ documents[d].model # model

AnyChunk == {d \in Documents : Ready(d)}                       \* faulty variant
Candidates == {d \in Documents : Outdated(d)}

\* list_reindex_candidates: the first of them, in the order of their ids.
ListCandidates(w) ==
  LET batch == {d \in Candidates : Cardinality({f \in Candidates : f < d}) < BatchSize}
  IN  /\ reindex[w] = NoReindex
      /\ batch # {}
      /\ reindex' = [reindex EXCEPT ![w] = [candidates |-> batch, model |-> model]]
      /\ UNCHANGED <<model, documents, ingestion>>

\* update_embedding, for one candidate after another: a chunk that is still
\* stored, whatever has become of its document.
UpdateEmbedding(w, d) ==
  /\ d \in reindex[w].candidates /\ \A f \in reindex[w].candidates : d <= f
  /\ documents' = IF d \in Stored THEN [documents EXCEPT ![d].model = reindex[w].model]
                  ELSE documents
  /\ reindex' = [reindex EXCEPT ![w] = IF @.candidates = {d} THEN NoReindex
                                       ELSE [reindex[w] EXCEPT !.candidates = @ \ {d}]]
  /\ UNCHANGED <<model, ingestion>>

\* The provider fails, or the worker dies.
ReindexFails(w) ==
  /\ reindex[w] # NoReindex
  /\ reindex' = [reindex EXCEPT ![w] = NoReindex]
  /\ UNCHANGED <<model, documents, ingestion>>

-----------------------------------------------------------------------------
KnowledgeNext ==
  \/ Reconfigure
  \/ \E e \in Editors : \/ IngestFails(e)
                        \/ \E s \in Sources : OpenIngest(e, s)
                        \/ \E d \in Documents : Ingest(e, d)
  \/ \E d \in Documents : Publish(d) \/ Archive(d) \/ Delete(d)
  \/ \E w \in Workers : \/ ListCandidates(w) \/ ReindexFails(w)
                        \/ \E d \in Documents : UpdateEmbedding(w, d)

\* Beat starts the task again and again, and its batches do not all fail before
\* anything is updated.
ReindexFairness ==
  \A w \in Workers : /\ WF_knowledgeVars(ListCandidates(w))
                     /\ SF_knowledgeVars(\E d \in Documents : UpdateEmbedding(w, d))

-----------------------------------------------------------------------------
(* Properties *)

\* However large the backlog is, and whatever a task that was started before the
\* last change of the model still writes, every chunk that may be retrieved gets
\* its vector from the configured model, or its document is archived.
ReindexConverges ==
  \A d \in Documents : Outdated(d) ~> ~Outdated(d)
================================================================================
