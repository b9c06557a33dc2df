# Verification of timiroom-pipeline_py

TLA+ models of the pipeline service, TLC configurations that check them on
small instances, and TLAPS proofs. Paths are relative to `src/`.

The program is one asyncio process (`uvicorn --workers 1`). A request starts a
*run*: Phase 1 retrieves context for the form and the PDFs, Phase 2 has a chain
of LLM agents write the documents, Phase 3 validates them and has the faulty ones
repaired, Phase 4 delivers the result through PostgreSQL and Kafka to the table
the RAG search reads. The client follows the run by server-sent events.

## 1. Inventory

### 1.1 Components, their state and their operations

| component | source | state | operations |
|---|---|---|---|
| Result delivery | `phase4/`, `phase1/document_ingestion.py`, `docker/init.sql` | tables `pipeline_outbox`, `pipeline_storage_receipts`, `document_chunks`; the topic, the group's offset, the dead letter topic; per process: publish lock, producer, drain task, consumer task | `publish`, `confirm_storage`, `_send_with_retry`, `_drain_outbox`, consumer `_run_loop` with retries and dead letters, `storage_status`, start and stop |
| Progress service | `phase2/sse_service.py`, `routers/orchestration.py:84-131` | per run: last progress, the last 200 events, registered queues; terminal events with expiry | `send`, `complete`, `error`, `subscribe`, `snapshot` |
| Orchestration and retries | `phase2/orchestration_graph.py`, `phase2/repair_budget.py`, `phase2/execution_error.py`, `phase3/retry_service.py`, `phase3/validation_service.py` | one immutable `PipelineState` per run, copied by every stage; local variables of the coroutine | stages, parallel designers, PRD rollback, resync, QA repair, `repair`, `retry_with`, `validate`, failure report |
| Run controller | `routers/orchestration.py` | semaphore of 10 runs, the set of background tasks | `generate`, `_run_pipeline`, `_run_pipeline_inner`, `execution_state`, `storage_status` |
| Agents | `phase2/agents/*.py` | none across calls | `execute` and `repair` of SEARCH, PM, PRD, FEATURE_SPEC, DBA, API, QA: prompts, LLM calls with retries, normalisation, self-checks |
| Feature registry and contracts | `phase2/feature_registry.py`, `feature_generation.py`, `feature_draft.py`, `operation_contract.py`, `workflow_contract.py`, `agent_contract.py`, `contract_*.py`, `registry_contract_guard.py`, `repair_scope.py`, `fk_validation.py`, ... | none: pure functions on JSON | building, freezing, comparing and checking the contracts of features |
| Validator | `phase3/schema_validator.py`, `phase2/validation_contract.py`, `quality_rules.py` | none | checks of PRD, DB schema and API spec against the registry |
| LLM runtime | `phase2/llm_runtime.py`, `llm_concurrency.py`, `common/ai_errors.py`, `common/usage.py`, `common/usage_middleware.py` | a semaphore per event loop, the collector, key and tier of a request in context variables, a cache of clients | bounded, timed, repeated calls; redirection to a user's key; counting and reporting of usage |
| Retrieval (Phase 1) | `phase1/rag_pipeline.py`, `hybrid_search.py`, `reranker.py`, `search_rl_service.py`, `session_vector_store.py`, `embedding_service.py`, `pdf_parsing.py`, `semantic_chunking.py`, `form_to_query.py` | search weights learnt from feedback; a vector store per request | PDF parsing, embedding, hybrid search with falling thresholds, rerank with fallback |
| Chat, document, agent, QA scenario and recommendation routers | `routers/*.py`, `phase1/recommendation/`, `manual_document_edit.py` | none on the server: the client carries the conversation and the documents | interview turns, document edits, single-agent calls |
| Application shell | `main.py`, `config/`, `common/`, `migrate_db.py`, `scripts/`, `deploy/`, `docker/` | settings, dependency wiring | lifespan, middleware, migrations, probes |

### 1.2 Interactions

* The run controller awaits Phase 1, `OrchestrationGraph.run`, `validate`,
  `retry_with` (which calls `OrchestrationGraph.repair` and itself again),
  `publish` and `confirm_storage`, in this order, in one task per run. Every
  failure ends in one `progress.error`, every success in one `progress.complete`.
* Agents share nothing but the state they are given. The DB and the API designer,
  and the repairs of these two domains, run concurrently on copies of it and are
  merged afterwards.
* `publish` of every run and the background drain of a process share one
  `asyncio.Lock`, the producer and the outbox table. Processes share the
  tables, the topic and the consumer group. A second process exists during a rolling
  update (`deploy/k8s`, one replica, RollingUpdate) and when
  `scripts/resume_verified_feature_checkpoint.py` enters the lifespan itself.
* The consumer writes `document_chunks`, `confirm_storage` and
  `GET /storage` read it through the keys of the receipt.
* Clients subscribe to the progress of a run at any time and reconnect freely.

### 1.3 What is hard

* *Failure and ordering in delivery.* A send, the receipt's mark and the row's
  deletion are three calls; each can fail, be acknowledged late, or be cut off by a
  crash, and each is retried. A rebalance takes the partition away from a consumer
  that is still storing.
* *Interleaving.* A subscriber registers while the run sends; several publishes and
  the drain want the same lock; designers fail one by one.
* *Budgets across callers.* Three callers spend the repairs of a domain, two of them
  concurrently.
* *Timeouts.* Nested timeouts cut off a run, a repair, a resync or a confirmation
  while something it started may still succeed.
* *Endings.* Retries recurse; drains retry for ever; a stream ends only by a marker.
* *Chains of corrections.* What an LLM returns is corrected by many passes over the whole
  document, before and after it is judged; a later pass may undo an earlier one, and a repair
  runs them all again over what it was not asked about.
* *Parallel workers.* One call per table, operation, feature or section; any of them fails,
  answers late or answers for another, and the assembly must neither lose nor invent.
* *Shared names.* Features are matched by names, ids and routes that renaming and merging change
  while the PRD, the registry and the other documents refer to them.
* *Shared seats and keys.* All runs share a few seats at the model and a cache of clients, and
  a call refused, cancelled or abandoned must leave both as they were.

What makes each component correct is listed with its module below. `PROJECT.json`
lists the hazards by line.

## 2. Plan

Built so far, in the order of importance for a user of the service:

1. `Delivery` with `DurableDelivery` and `DeliveryProofs`: a result
   the service has accepted is not lost, and what it says of storage is true.
2. `Generation` with `GenerationProofs`: the control of phases 2 and 3.
3. `Progress` with `ProgressProofs`: what a client is told.
4. `RunController` with `OneAnswer` and `RunControllerProofs`: one run from the request to its
   terminal event, composed with `DurableDelivery`, which `Delivery` is proved to implement.
5. `FeatureDraft` with `FeatureDraftProofs`: the attempts at a feature document: baseline, scope of a repair, merge of a
   patch; property: what no fault names stays as it was.
6. `Prd` with `PrdProofs`, `Release`, `DbSchema` with `DbSchemaProofs`, `ApiSpec`: the agents of phase 2 from the workers' answers to
   the stored document and its repairs: nothing is lost or invented in silence, decisions and
   contracts hold, a repair stays in its scope.
7. `LlmRuntime` with `LlmRuntimeProofs`: seats, keys and usage of every AI call.
8. `Editing`: the rewriting of a document's sections on request.

What could follow: the threshold relaxation, rerank fallback, session store and learnt weights
of the retrieval; the rules of the final validator; the reviews of the QA agent (its heavy loop
is switched off, `_LIGHTWEIGHT_GATE_ENABLED`); proofs about the invariants of `Release`, `ApiSpec` and `Editing`.

## 3. Modules

### 3.1 `Delivery`, `DurableDelivery`, `MCDelivery`, `DeliveryProofs`

State. `outbox` and `created` are the rows of `pipeline_outbox`, `receipts` those of
`pipeline_storage_receipts`, `chunks` the source keys in `document_chunks`. `log`,
`offset`, `dlq` and `owner` are the topic, the committed offset, the dead letter topic and
the assignment of the one partition. Per process: `lock` is `_publish_lock`,
`send` the `_send_with_retry` that runs under it, `batch` what is left of
`pending()`, `cons` the consumer and the message it works on. `task` is the publish
and confirmation of one run.

Actions. Every call to the database or the broker is one action with a failing
twin: `Put`/`PutFails`, `Send`/`SendFails`, `MarkPublished`/`MarkPublishedFails`,
`DeleteRow`/`DeleteRowFails`, `StoreChunks`/`ProcessFails`,
`DeadLetter`/`DeadLetterFails`, `Commit`/`CommitFails`. A failing twin either had no
effect or had its effect with the answer lost. `Drain` is `_drain_outbox`, `GiveUp` the end
of the retries, `ConfirmStored` and `ConfirmPending` the two answers of
`confirm_storage`. `Join`, `Rebalance` and the `owner` guards of `Fetch` and
`Commit` are the group protocol as the consumer uses it: an owner reads at the
committed offset, a member that lost the partition cannot commit. `Crash` drops the
memory of a process, `Restart` starts an empty one.

Abstracted: payloads (a pipeline id stands for its event, a chunk index for a
chunk), the producer's connection (part of the attempt), back-off delays (an
enabled retry may happen any time later), several partitions (the topic has one).

`DurableDelivery` is what a run relies on: accepted, then stored whole or set aside,
and "stored" is only said of what is.

| run | bounds | question |
|---|---|---|
| `delivery` | 2 processes, 1 result of 2 chunks, 2 publish attempts, 1 processing attempt, 1 failure, 1 crash | the safety properties and the refinement while the partition moves |
| `delivery_liveness` | 1 process, 2 results of which the broker refuses one, 2 attempts each to publish and to process, no dead letter topic, 2 failures, 2 crashes | every publish ends and what it left is settled |

Why these bounds are enough to be interesting: two chunks make a partial store
visible; one failure plus one crash cut every sequence in two places; two processes
give a stale owner; two failures exceed the retries of a send, so that a row is given up and
drained; two rows make the drain go on with the next row and stop at a refused one. The drain's
limit of rows is not below the number of rows in either run.

Properties. `CommittedIsSettled`, `AllOrNothing`, `AnswersAreTrue` (receipts, answers and
`GET /storage` say no more than the topic and the tables hold), `DuplicatesCostAFailure` (every
copy of an event beyond one for each process is owed to a failed call or a crash; invariants);
`KeepsPromise` (refinement); `PublishSettles` (liveness). `PublishSettles` excludes the
rows behind one the broker always refuses: the drain
stops at the first row it cannot send, so these do wait for ever. That is how
the code is written, and the property says so. `AcceptedIsKept` and `StatusNeverReverts` (steps)
are not in a run of their own: they are proved, and the first is part of `DurableDelivery`.

Fairness. Weak fairness of the sender and of the consumer of a process: the event
loop runs ready tasks and every call has a client timeout. Strong
fairness of `Put`: `asyncio.Lock` wakes its waiters in order, so a publish gets the lock
although the drain takes it again and again. Weak fairness of `Restart`: the process
manager. Failures and crashes are not fair and are bounded by `MaxFaults`, `MaxCrashes`.

### 3.2 `Generation`, `MCGeneration`, `GenerationProofs`

State. `st` is the part of `PipelineState` that decides the control: the documents
there are, the attempts per domain, the validator's issues, the blockers of failed
repairs (`stuck`), the halt of a stage, the retry count and the fingerprints.
`fix` holds the bounded repairs under way, `job` who asked for them (the rollback of
PRD/DB/API, the QA repair, or the retry service) and the step of the repair: feature
list, PRD, resync, patch. `made`, `calls`, `broke` and `cut` are history variables.

Actions. `StageDone`, `StageBlocked` and `StageFails` are the stages; `DesignDone` and
`DesignFails` the two designers and `asyncio.gather`; `DesignJoin` the decision of
`_run_prd_with_rollback`; `PmFixed`, `PrdFixed`, `Resync`, `ResyncFails` and
`Patched` the chain of `_repair_inner` and `_resync_prd`; `FixDone` the end of one
bounded repair; `QA` and `RepairOnce` the check and the repair of phase 2;
`Phase3` and `Retry` the validation and `retry_with`; `RepairCutOff` and
`RepairTimeout` the timeouts inside repairs.

Abstracted: documents to their existence; issues to pairs of a domain and a key, which
change freely after an applied repair and not otherwise. The self-checks of an agent
are part of its result (done, blocked, raised; applied, noop, failed, external).
An exception of the QA normalisation inside a repair is treated like the timeout there:
both leave without a snapshot.

| run | bounds | question |
|---|---|---|
| `generation` | issues in feature list, PRD and DB; budget 2 (the default), 2 retries | budget, blockers, artifacts, cut-off repairs; every run ends |

The three issues reach every step of a repair: the feature list renews the PRD, the PRD
the registry, and the resync the schema. Both retries are needed for a fingerprint to repeat.
The API domain has no issue of its own here; its designer and its repair after a resync take
part all the same.

Fairness. `WF_vars(Next)`: a run is one coroutine, every await of which is under a
timeout (`phase2_timeout`, repair, resync, request timeouts), so it goes on.

### 3.3 `Progress`, `MCProgress`, `ProgressProofs`

State. `latest`, `buffers`, `remembered` and `queues` are the four dictionaries of
the service; `stream` is the generator of a subscription, `first`, `todo` and `queue` what
it still holds and `got` what its client received; `run` is what a run has sent.

Actions. `Send`, `Finish` (complete and error), `Subscribe`, `Replay` and `Take` (one event
each), `Disconnect` (the generator's `finally`), `Poll` (the sweep of a
snapshot), `Tick`, `Restart`. No call of the service awaits between two changes, so
each is one step; a subscription is suspended at each `yield`. Heartbeats change no
state. The HTTP framing is left out.

| run | bounds | question |
|---|---|---|
| `progress` | 2 runs of up to 4 events, buffer of 2, room for 1 outcome, expiry after 1, clock to 2, 1 stream, 1 restart | no gap, no repetition, no leak; outcomes are kept; streams end |

Twice the buffer makes the buffer roll over during a replay; two runs with room for one outcome
make the cap bite while entries also expire. Streams do not influence each other: each
has a queue of its own.

Fairness: a run finishes (see `RunEnds`), and a connected client's generator is resumed.

### 3.4 `RunController`, `OneAnswer`, `MCRunController`, `RunControllerProofs`

State. `pc` is the await a run's task is suspended at, `line` and `free` are the semaphore,
`latest` is how far `latest_state` got (nothing, the context, the documents of phase 2,
validated, repaired), `valid` the runs whose state passed validation, `answer` the terminal
event with the documents attached to it, `kafka` the setting of the process. `accepted`,
`stored`, `dead`, `answered` are the store of `DurableDelivery`.

Actions. `Reject` and `Generate` are the request; `Start` the semaphore (and `skip_phase1`);
`Retrieved`, `Generated` (phase 2 and the validation that follows without an await),
`Repaired`, `Published`, `ConfirmStored` and `ConfirmPending` what the task does after each await;
`Raises` every await that ends in an exception, with the snapshot attached to it or the state of
the last phase; `Restart` the loss of all of it but the store. `Keep` and `Settle` are the
environment: delivery takes the result over while `publish` runs and works on afterwards.

Composition. Delivery is present by its contract only: `Keep` and `Settle` are steps of
`DurableDelivery`, and `DeliveryProofs` proves that `Delivery` takes no others. `Generation`
is reduced to its outcomes. A publish that raises may have left its row in the outbox, so
a run reported as failed can still be stored; nothing is claimed about the store then.

| run | bounds | question |
|---|---|---|
| `run_controller` | 2 runs, 1 slot, 1 restart, Kafka on or off per process | validity and truth of the answers, one final answer, an answer for everybody |

One slot for two runs makes one wait for the other on every way a run can end; a restart
that changes the setting separates the answers of two processes.

Properties. `AnswersAreSound` (what a client was told stays true, only validated documents leave,
a report is not older than the last phase; invariant); `KeepsPromise` (it implements `OneAnswer`);
`EveryRequestIsAnswered` (liveness, which a lost slot breaks). `SlotsAreAccounted` is proved.

Fairness. Weak fairness of `Start`: `asyncio.Semaphore` wakes its waiters in order. Weak
fairness of a task: its awaits are bounded by the timeouts of the clients, of phase 2, of a repair
and of the confirmation. The exception is `psycopg2.connect`, see 6.

### 3.5 `FeatureDraft`, `MCFeatureDraft`, `FeatureDraftProofs`

State. `draft`, `faults` and `scope` are `draft_baseline`, `baseline_issues` and `active_scope`
of `generate_document`; `attempt` and `mode` its loop, `calls` the requests it made, `told` the
issues in the message for the next one. `work` is the draft being merged (`result` of
`merge_patch`) or checked, `seen` the features a patch has addressed, `roots` the DTOs its
operations may bring in.

Actions. `FallBack`, `TransportFails`, `Terminal`, `Unparseable`, `Answered` and `Patched` are the
ways a request ends. `Merge` merges one entry of a patch and `MergeDtos` its DTOs; either drops the
patch (`DropPatch`) when an entry is out of scope. `Fails` makes the checked draft the baseline,
with the scope computed from its faults (`RepairScope`), and `Passes` returns it. A merge is a chain of
steps of a coroutine that awaits nothing meanwhile; the entries of the patch are chosen as
they are merged, which is the same as choosing the patch first, because an entry is judged
by those before it only.

Operators. `Replacements` is `feature_replacement` followed by `preserve_operations`, `MergeEntry`
the loop over features, `BringsIn` and `NewDtos` are `_new_resource_scope`, `Protected` and
`DtosInScope` the two checks of shared DTOs, `Reach` the closure over references.

Abstracted: an operation is its key, the DTOs it refers to and the rest; a patch gives an operation as
a whole; missing methods are taken as keys; tables follow the rule of unprotected DTOs;
workflow policies, read dependencies and acceptance requirements, whose loss rejects a patch
as well, are left out, and so is an `apiContract` that is no list.

| run | bounds | question |
|---|---|---|
| `feature_draft` | 2 features of one core with 3 operations and 3 DTOs, 3 attempts, patches of 2 entries and 2 DTOs, 2 faults of 7 | what a repair may and may not do |

The second feature returns a DTO that nests the one a fault is about, the patch operations hold
the old image and a changed one of each operation and a new route, and a third id allows
renaming: every branch of the merge is taken. Two attempts suffice for a repair, the third
makes one follow a dropped patch. Patches are merged into the first draft and into one patched draft
(`Bases`), faults of other drafts are cut to one, since a check of them leads to nothing new.

Properties. `UnnamedOperationsStay`, `RetryKnowsBaseline` (invariants), `PatchesAreContained`
(shared DTOs stay, and no step loses a feature, an operation or a DTO). `CallsAreBounded` is proved.
`UnnamedOperationsStay` excepts patches that rename a feature
and address it again by its old id: these do change what no fault names.

### 3.6 `Prd`, `MCPrd`, `PrdProofs`

State. `features` is `feature_list`, `choice` the user's Phase 1 decisions (must, should, could,
excluded) and the plan's `scope.out`. `sections` and `tries` are the items the workers of the
running `execute` have written and their failed attempts, `prd` is `prd_document` with the
diagnostics the code keeps in it (`gaps`, `fallbacks`), `outcome` the result of the last repair.

Actions. `Accept` and `Reject` are one answer of a worker: an item that passes its checks, or one
that does not and is asked for again, omitted (KPI, persona) or replaced by a template. `Review`
is everything after the last worker: `Document` assembles, ranks, drops repetitions, restores listed
features, ranks again, lays the user's decisions over it and aligns the scope. `Transport` and
`Crash` are the two ways the run stops. `Repair` judges and applies one patch. Operators ending in
`Silently`, `MustOnly`, `Unranked`, `Loosely`, `Unrestored`, `Anywhere`, `Anew` are mutants.

Abstracted: what an item says (a feature is written, a template or boilerplate; a KPI or persona is
its signature); similarity of names is the relation `Alike`. Goals, release stages, prose, the
audits of their text, `reconcile_prd_quality`, persona coverage, the repair without a baseline and
the section-wise generation without workers are left out.

| run | bounds | question |
|---|---|---|
| `prd` | a list of 3 features, two of them similar, and one of these two alone; 2 KPIs, 1 persona, 1 plain section; 3 decisions; room for 1 included and 2 P0 features; 2 tries, 1 repair | nothing is missing in silence; decisions hold; a good PRD stays |

Similar names make the code take a feature for a repetition; the rooms make the list's order exclude
what the user confirmed; two tries make the format retry happen.

Properties. `NothingIsMissing` (each listed feature once, each gap on record), `DecisionsHold`
(confirmed is in scope, scope and features agree, excluded stays out; invariants), `GoodPrdStays` (a
failed run keeps the earlier PRD, a repair touches only what its feedback names; steps).

### 3.7 `Release`, `MCRelease`

State. `plan` holds the confirmed names per bucket, `draft` the document the model answered, `registry`
the feature registry, `names` the `feature_list`, `prd` the PRD's core features, `before` what the orchestrator kept when a repair
began, `stage` where the run is.

Actions. `Publish` is `FeatureSpecAgent.execute` from a validated document to the registry: `Adopted`
(ids the registry has), `Normalized` (ids and references), `Merged` (duplicate validations and accounts),
`ByPlan` and `Ranked` (priorities), `Selected` (dependency-closed release) and `Projected`
(the PRD's core features). `Refuse` is a document one of the checks rejects, `Fail` a call without an answer.
`Repair` writes other core features into the PRD; `Resync` is `_resync_prd`: the same
chain on another document, of which only what the repair touched is taken over. `Synced` then gives the PRD the ids
of the registry, normalised against the names of the whole new document (`NormalizedTo`).

Abstracted: scores, operations and tables (a feature's contract is a route), prose,
inherited validation contracts, the policy bound to the auth registry. A requirement is the
id of the feature it came from.

| run | bounds | question |
|---|---|---|
| `release` | 2 plans; documents of 1 to 4 features that refer to each other, come back renamed, can be merged, or have a core feature more or less; room for 1 P0; 1 repair | the release is complete and closed, ids and requirements survive |

Properties. `ReleaseIsComplete` (no reference leads out of the first release, no confirmed feature is
lost), `RequirementsSurvive` (invariants), `IdsAgree` (the PRD names the registry; ids survive a
repair that leaves the names of what it does not touch), `ResyncStaysInScope` (steps). They are about documents that name each
feature once (`NamesDiffer`), see 5.

### 3.8 `DbSchema`, `MCDbSchema`, `DbSchemaProofs`

State. `registry` is the contract: tables and owner of each feature, declared keys and fields, columns
the PRD asks for. `made` holds the tables the workers returned, `db` the saved tables and relationships,
`blockers` and `approved` the verdict, `asked` the scope of the last repair (history).

Actions. `Plan`, `PlanFails`, `NothingToStore` are the planning call; `Worker` one table; `Finish` the
review, the corrections and the self-check; `NoBaseline` and `Repair` the targeted repair with
its rejections. Each pass of the source is one operator on the whole schema (`CanonicalNames`,
`MergeRevisions`, `PrimaryKeys`, `ForeignKeys`, `OwnMutableState`, `ReconcileTypes`, ...), and `Reviewed`,
`Corrected`, `Recorrected` and `SelfCheck` are the chains, in the order of the source. A table is `formed` unless a part of it
that no pass reads has a wrong shape (`artifact_shapes.py:110`); one that is not ends the self-check before it begins. `Save` is
what `execute` does after the self-check: it normalises the relationships once more (`dba_agent.py:2675`), then builds the mappings.

Abstracted: what a name means (`Denotes`, `Means`, `BaseName`), column options besides key, type and
reference, the wording of issues. The annotation of tables with feature ids, the tables of the auth
contract and the relation contracts of features are left out.

| run | bounds | question |
|---|---|---|
| `db_schema` | 5 contracts over 5 tables and 10 columns, 2 plans, 1 to 3 designs per table (one malformed) or none usable, 3 patches (one malforms a table, heals another) under 3 feedbacks, 2 repairs | what is saved means what it says; a repair stays in its scope |

The designs contain what the passes are for: a revision of a table, an external id whose name denotes a table,
a column of ambiguous meaning, keys in a circle, an event pointing at a catalogue, a wrong type. The contracts
declare a key, a key of a column no name suggests, a typed field, every column (two of them named like keys it does not declare,
so that the relationships are more than the declared ones), or need no database at all; four have a
feature whose rows a principal owns (one that declares fields itself has none, `dba_agent.py:1307`). Under each of the four that need a database some answers are accepted.

Properties. `SavedIsSettled` (an approved schema has its keys and resolvable references, a second self-check
changes nothing that `execute` would not change back, a fallback is never approved), `ContractIsStored` (the contract's tables are there, but for
names that are revisions of another's, and its declared keys point where declared; invariants),
`RepairStaysInScope` (steps).

`Accepted` states when an approval has to mean something: no blocker, no repair yet (see 5), and a contract that
can be met (`Coherent`). What is excepted beyond that is what the code does, each with its line in 5: a complete contract that does
not declare the key of its owner, a declared field that was added too late for its key, an external
identifier whose name denotes a table (both `Late`), and, in a complete contract, names ending in `_id` and the relationships
the second self-check alone would drop.

### 3.9 `ApiSpec`, `MCApiSpec`

State. `registry` is the contract (the routes each feature declares), `plan` and `made` the operations
and what their workers answered, `api` the stored entries, `judged` whether they are as the last
self-check left them, `withTables` whether the schema is known, `asked` the scope of the last repair.

Actions. `NothingToServe`, `Plan`, `PlanIsEmpty`, `Worker`, `Finish`, `Fails` are `execute`; `Join` is the
alignment with the final schema that the orchestrator does after both designers and after a resync; `NoBaseline`
and `Repair` the targeted repair. `Normalize`, `Ensure`, `Annotate`, `Finalize` and `SelfCheck` are the
passes of the source. A worker or a patch may leave an entry malformed (a part the contract does not declare, such as
`fieldMappings`, given as text): the self-check then gives the document back as it is (`gaveUp`, history), and `Join` leaves it alone.

Abstracted: an entry is its route, its features, who described it, the kind of its reply and whether it is formed; the schema
of the database is well formed where the agent reads it. The checks of
OpenAPI, the pruning to a soft cap, the texts of sessions, the endpoint groups and the issues of
workflows are left out.

| run | bounds | question |
|---|---|---|
| `api_spec` | 5 contracts (typed, shared by features, incomplete, one operation under two names, no API), 3 plans, foreign, contaminated and malformed answers, 5 patches (one malforms, two heal) under 3 feedbacks, 2 repairs | the stored document is the contract and was judged as stored |

Properties. `DocumentIsTheContract`, `SavedIsSettled` (placeholders are reported; a second self-check
changes nothing; invariants), `RepairStaysInScope` (steps). After a self-check that gave up the first two say less: the
document has the contract's operations, maybe with others, and the malformed entry is a blocker, both until a repair is applied (see 5).

### 3.10 `LlmRuntime`, `MCLlmRuntime`, `LlmRuntimeProofs`

State. `seats` and `ahead` are the semaphore: the free seats, and for each waiting call those before it.
`stage`, `attempt`, `redirecting` and `went` are the locals of a call, `of` and `kind` what it is.
`context` is the copy of the context variables a request's tasks see, `collector` its rows, `told` what the
backend was told, `clients` the cache of clients, `left` (history) the calls that outlived their request.

Actions. `Enter`, `Answered` and `Raised` (an exception that passes through it, no header) are the middleware around a request, `Finish`, `FinishUnstored` and
`Leave` the ends of a pipeline and of a stream that is not read on. `Begin`, `Send`, `Answer`, `Busy`, `Fail` and
`Wake` are a call: the line, the attempt under a user's key or the server's, its record, the pause
without a seat, the retry. `CancelHolder` and `CancelIdle` are the time limit of a stage, wherever
the call is.

Abstracted: tokens (a row counts answers), the provider, the wording of errors, retries inside the
client library, `llm_slot` (nothing calls it).

| run | bounds | question |
|---|---|---|
| `llm_runtime` | 2 requests, 3 calls, 1 seat, 1 retry, no room in the cache of clients; two pipelines with two keys of one service, a plain request beside a stream, a stream beside a pipeline that nobody tracks | seats, keys, usage; every call ends |

The grant of a seat is one step, as it is with a single seat; with several, `asyncio.Semaphore` may for a moment leave a call queued
beside a seat that a release has made free while the woken call has not run yet, which `NoSeatIdles` does not see.
One seat for three calls makes a line of two; the empty cache makes every call make its client anew; the two
keys share an address, so that only the secret tells them apart.

Properties. `SeatsAreAccounted` (none is lost, none idles while a call waits), `EveryCallUsesItsKey`,
`UsageIsExact` (rows count the answers of the request, and the backend is told them;
invariants), `EveryCallEnds` (liveness).

Fairness. Weak fairness of `Send`, of the end of an attempt and of `Wake`: the event loop resumes what
can go on, every attempt has a time limit, and a sleep ends. Nothing obliges a request to do anything.

### 3.11 `Editing`, `MCEditing`

State. `doc` is the document of the front end, `targets` and `work` the sections of a request and where the
coroutine of each is (`picked`, `op`, `mode`, `value`), `edits` the proposal.

Actions. `Classify` and `AnswerQuestion` are the first answer; `Scope` narrows a section to items;
`RemoveItems`, `AddItems`, `EditItems` and `RewriteSection` are the four ways to write it, with the fallback from items
to the whole section; `Propose` joins the sections and carries renames and losses into the
other section. `Approve` and `Dismiss` are the front end (external).

Abstracted: an ERD's tables and relations stand for the lists of a document; prompts, token budgets and the
rendering of the diff are left out; the three attempts at a rewrite are one choice.

| run | bounds | question |
|---|---|---|
| `editing` | 3 documents of up to 3 tables under 4 names, two of one label, with duplicates and a cycle of keys; 1 request | a proposal is what was asked, and references follow it |

A request starts from the document alone, so a second one adds only other documents; those the answers can
lead to are among the first ones in kind (duplicates, missing relations, keys in a cycle).

Properties. `ProposalsAreFaithful` (what was not picked stays, what was picked loses nothing, no label
is taken), `ReferencesFollow` (relations resolve, a rename reaches all references; invariants).

## 4. Proofs

`DeliveryProofs` proves, for any number of processes, results, chunks, retries,
failures and crashes, under `DeliveryAssumption` (the constants are of the expected kind; the
set of pipelines is finite, since `created` counts rows):

* `IInvInductive`: `Spec => []IInv`. The invariants alone are not inductive. `IInv` adds
  `SendSound` (a sender past the send has its event in the topic, a holder of the lock is
  the call that is sending), `RowSound` (a row or a row in some hands belongs to a call
  that put it), `TaskSound` (a call past the mark has a published receipt; published
  implies in the topic), `ChunksSound`, `ConsSound` (a consumer, stale or not, has only
  settled messages before its own; what it will insert completes the manifest) and
  `OffsetSound`. `ConsSound` is the heart: it holds of a consumer that lost
  its partition as well, which is why a late commit by a returning owner does no harm.
* From it `TypeCorrect`, `CommitsOnlySettled`, `StoresWholeEvents`, `PublishedIsReal`,
  `AnswersAgree`, and the action property `NothingIsLost`.

The argument is by actor: frame lemmas say what each leaves alone, `Grows` what no step
undoes (topic, chunks, dead letters), and each part of `IInv` has one lemma with a case
per action.

The number of copies (`DuplicatesAreOwed`) needs two more invariants. `CopiesInv`: the copies of an event in the
topic, and the processes that may still send it without another failure (`MaySend`), are together at most the
processes and the failures and crashes so far. `HandsSound`: a process whose lock is free has no row in its hands.
Cardinalities count both, which is why the set of processes is assumed finite.

The same module proves from `IInv` that `Delivery` implements `DurableDelivery`
(`ImplementsPromise`) and that no step takes an answer of `GET /storage` back
(`AnswersAreFinal`). Each action either leaves the four abstract variables alone or
is one abstract step; `IInv` supplies what the abstract guards need: that what is sent or
deleted is of an accepted event, and that a consumer inserts all of the manifest.
`AnswersAreFinal` needs one more invariant, `NewSound`: a call that has not begun has no
receipt, so that `Prepare` never overwrites a published one.

`GenerationProofs` proves, for any set of issues, any repair budget and any number of
retries, under `GenerationAssumption` (issues are pairs of a domain and a key that is not
itself a domain; both limits are positive), that `IInv` is inductive
(`RunInvariant`). Its parts are what each property needs to survive a step:

* `CountInv`: the repairs dispatched are those counted in the state plus those
  running or finished and not merged yet. With the lemma `MergeCounts` (the maximum over
  concurrent results counts each domain once) and the check before a dispatch this
  gives `BudgetIsKept`.
* `PrintInv`: while the retry service waits for a repair, the state it would give up to
  contains that repair's fingerprint (`RememberState`: remembering does not change the
  fingerprint). So a timeout is answered by a refusal: `CutOffEnds`.
* `BrokeInv`: a failed repair is a blocker of the state or will be when it is merged:
  `FailuresAreFinal`.
* `ArtifactInv`: before the first repair every completed document is in the state or with
  a finished designer: `StageFailuresKeepArtifacts`.
* `EndInv` and `TypeInv` (with finite fingerprints, at most one per retry): `TypesHold`.

Every action is one of three shapes (dispatch, stop, move on), and `DispatchKeeps`,
`StopKeeps` and `MoveKeeps` say once for each shape what preserves `IInv`.

`ProgressProofs` proves `NothingIsLeftBehind`, for any number of runs and streams and any
sizes of the tables, under `ProgressAssumption`; the property is inductive with the
types of the buffers, streams and runs. Two more invariants rest on it:

* `TableInv` for `OutcomesAreKept`: an entry is the outcome of its run and expires `Ttl` after its end, no run has
  two, and a run that is owed its outcome has one. The cap evicts the entry that expires first (`OldestIsFirst`). The sweep is a
  recursive function on sequences; `FilterKeeps` says that it computes the subsequence of what is to be kept, by
  induction on its length.
* `WholeInv` for `StreamsAreWhole`: what a stream got, has still to replay and has queued, put together, is one
  piece of the run's history, a buffer is the end of what was sent, and a stream
  that has ended belongs to a run that has. `PrefixPointwise`, `HeadMoves` and `LiveShape` are the facts
  about concatenation the steps need: an event moves from the end of one sequence to the start of the next.

`RunControllerProofs` proves, for any number of runs, slots and restarts, under
`ControllerAssumption`, that `IInv` is inductive (`ControllerInvariant`). To the invariants of the
run it adds `LineInv` (a waiter of the semaphore is queued, once) and `StageInv` (an answer ends
a run; what waits in phase 4 is valid; what is confirmed is accepted; what is accepted
was in phase 4). `StageInv` is why "not saved" stays true: a run told so never reached
`publishing`, and only there can the store take a result over. The slots need the
cardinality of the runs under way (`SlotReturned`, `SlotTaken`). Every action goes on, ends a run
or delivers (`MoveKeeps`, `EndKeeps`, `DeliverKeeps`). `ImplementsOneAnswer` maps each step to
one step of `OneAnswer` or to none.

`FeatureDraftProofs` proves, for any drafts, patches and findings of the checks and any
number of attempts, under `DraftAssumption` (a first draft is well formed and its ids are
distinct), `OperationsStay`, `RetriesKnow` and `CallsBounded`. `UnnamedOperationsStay` needs
to know what the merge has done so far: `WorkInv` says that every feature of the baseline
keeps its place and its core, and that its id, like that of every added feature, is its old one or
one this patch gave and the baseline does not know. So a feature found by an id of the scope
still has the id under which its restriction is read, or the patch addresses a renamed
feature, which `ReaddressedStays` shows not to be undone by later entries. The lemma
`UntouchableIsClosed` ties the indices of the faults to the scope computed from them, and
`ReplacementKeeps` the scope to the merge of one entry, for full and sparse lists alike.

`PatchesStayContained` adds `ContainedInv`: while a patch is merged no feature has fewer operations than in the
baseline, and the DTOs are the baseline's until the last step of the merge. The closure of the references is a loop over the set of DTOs (which must be finite), and
`ReachGrows` says, by induction over its turns, that it is closed: so whatever an untouched operation refers
to, directly or through other DTOs, is protected (`UntouchedAreProtected`). `AddedOps` and `ReplacementIsNoShorter`
say, by induction over the entries, what a sparse patch adds to a feature and that it takes nothing away.

`LlmRuntimeProofs` proves, for any number of requests, calls, seats, retries and keys and any size of
the cache, under `RuntimeAssumption` (an address and a secret determine a key; the server's key is
nobody's), the types (`TypeCorrect`), `SeatsStayAccounted`, `KeysStayApart` and `UsageStaysExact`. The inductive
invariant has three parts. `SeatInv` adds that a pausing call is one of those with a seat; the cases are
the three things a release can do (`Released`: nobody waits, the foremost is woken, or the call held no
seat), and the count needs the cardinality of the holders. `KeyInv` says what the context
of a request holds from its entry on, that the cache maps an address and a secret to their key, and that a call
is redirected only while it is under way: so a retry is routed again, by the same context. `RowInv` adds
`LeftInv`: what is unfinished when a request ends is in `left`, so that a late answer
is never counted as told.

`PrdProofs` proves, for any features, similarity of names, decisions, answers and patches, under
`PrdAssumption` (a list names a feature once, as `pm_agent.py:315` sees to; no worker gives the priority EXCLUDE, as
`_normalize_priority` sees to; a repair names finitely many features):

* `IInv` adds what the PRD can be before the workers are back; one lemma for each transformation says what
  it does to the scope (`AlignedHolds`, `DecidedShape`, `DocumentHolds`, `PatchedHolds`). It gives
  `ExclusionsAreKept` and `FailuresKeepThePrd`, which are parts of the next two.
* `FInv` adds what the workers may have given (`Known`), that a document is a list of features, and
  `Heeded`, what the document says of each decision. `Fair` is the fact that travels through the assembly: no feature is
  out of the release but for its place in the list; so what `ByChoice` overrules is known, case by case.
  From it `DecisionsAreHeeded` and, with `PatchedCoreHolds`, `GoodPrdsStay`.
* `NothingGoesMissing`: `CoreNames` counts the features of the assembled document. Those that are kept
  are of different names, those added back are the missing ones, once each, so that they are as many as the
  list has; `AssembledCounts` adds what was omitted and what was dropped as a repetition to what is left.

All of it rests on `Sifted`, the loop that keeps some elements of a list. `SiftedHolds` says what it keeps and
`SiftedCounted` how many, by induction over the length.

`DbSchemaProofs` proves, for any contracts, schemas, feedback and answers and any number of
repairs, `RepairsStayInScope`, `ContractStaysStored` and `SavedStaysSettled`, the three properties of the run. It assumes of the constants:
`NamesAreOrdered` (tables are finitely many and stand in some order in the document), `KeysAreColumns` (`id` is neither external
nor a reference; `<table>_id` is a column and not `id`), `ContractsAreFormed` (a registry has finitely many features; it declares
tables by their names, and none for a feature that needs no database) and `AnswersAreFormed` (a plan is not empty, which
`dba_agent.py:2943` takes for no plan; a worker's table has the columns it has, once).

*A repair.* The corrections may make any document of the answer: `PreservedTables` and
`KeptLinks` say that what is out of scope is put back afterwards, and `MappingsSame`, by induction over the
features, that the mapping built after that adds only owners' keys.

*The contract's tables* (`ContractTablesAreStored`) are followed through the chains: each pass of the self-check keeps the
tables it finds (`PassesKeepTables`), `ContractTables` adds those that miss, `MergeRevisions` takes away only tables that
are revisions of another (`MergeKeepsBases`), and a repair puts back what its answer lacks (`RepairStores`). An
incomplete contract can therefore lose a declared table whose name is a revision, which the property excepts (see 5).

*The fallback* (`FallbackStaysUnapproved`) needs `ApprovalInv`: there is a plan exactly while workers answer it and in what
they led to.

*The saved schema.* `SettledInv` says that what is accepted is `Settled`: sound, with the declared keys, and a fixpoint of the
self-check. It is inductive because one step, `Finish` or `PlanFails`, makes the document, so the work is in the chain, which is
never idempotent pass by pass. The argument follows three facts through it:

* Every pass makes a schema of a schema (`IsSchema`, one lemma for each pass), and says what it keeps.
* What the mapping gave to the owners survives. `Settles` says of a pass that a column with a reference to a stored table keeps its reference
  unless the contract says otherwise; it holds of every pass of the self-check and is transitive. `Coherent` is what makes
  the contract never say otherwise. So the second mapping, after the verdict, finds every key it would add
  (`OwnerKeyed`, `MappingsRest`) and what is saved is what was checked. For a complete contract `CompleteIsSettled` finds the owner's
  key among the declared columns.
* What the self-check of a well-formed schema leaves (`SelfCheckIs`) is `IsChecked`: each column refers to what the contract or its name says
  (`Linked`), has the declared type, and its references are indexed. If nothing was reported besides, the schema is
  `AtRest` (`RestIs`), and then each of the passes is the identity on it, one lemma each (`Rest...`), and so is
  the chain (`RestSelfCheck`). `Late` is where `Linked` fails of a declared field, and where an external identifier is linked anew by each check.
* An accepted schema is well formed: a malformed table is an issue (`ShapesAreIssues`), and no correction changes which tables are
  (`FormedAlike`). The relationships `execute` normalises after the self-check are those of the same tables: of a complete contract
  the declared ones and the implied ones, which a second check and a second normalisation give again (`RelationshipsTwice`,
  `NormalizedIs`).

The induction in these proofs is over the turns of a loop that the model writes as a recursive function:
`NatSetInduction`, derived from the library's theorem that the naturals are well-founded, applied to the set of numbers for
which the claim holds.

Only model-checked: liveness (out of the prover's reach), and the properties of `Release`, `ApiSpec` and `Editing`
(`ReleaseIsComplete`, `RequirementsSurvive`, `IdsAgree`, `ResyncStaysInScope`; `DocumentIsTheContract`, `SavedIsSettled` and
`RepairStaysInScope` of `ApiSpec`; `ProposalsAreFaithful`, `ReferencesFollow`). Their documents are rewritten by folds of the community modules, about
which there are no library facts; a proof would first have to derive them loop by loop, as is done here for `Prd` and `DbSchema`.

## 5. Observations

What the code does that its reader may not expect, met while modelling. The properties state what does
hold; where one excepts a case, the case is here.

Phases 2 and 3.

* A timeout during the rollback or the QA repair of phase 2 loses every artifact from the failure
  report (`orchestration_graph.py:310`): only the stages and the designers attach a snapshot.
  `StageFailureKeepsArtifacts` is the part that holds.
* Phase 2 can spend both repairs of a domain, although the comment at `settings.py:109` has it spend one.
* After Feature Spec has rejected the contract in a QA repair, the DB and API repairs are still
  dispatched, while the status of such a run says they were not.
* A patch of the feature draft that renames a feature and then addresses it by its old id changes operations
  no fault named: `merge_patch` finds features by the ids of the baseline and reads their restrictions under
  the id they have now (`feature_draft.py:698`, `803`). `UnnamedOperationsStay` excepts it.
* The rows behind an event the broker always refuses wait for ever; `PublishSettles` excepts them.

PRD.

* After an exception without an earlier PRD the emergency document carries none of the user's decisions
  and none of the plan's exclusions; `DecisionsHold` is about documents of the workers.
* Of two features with similar names the second loses its text to boilerplate, without a note in
  `_qualityFallbacks`. A must feature similar to a could feature gets the priority of the could feature.
* A feature the user left out by its name stays in the release when the user confirmed a similar one: equal overlaps
  are decided by the name of the priority, and `EXCLUDE` sorts first (`prd_agent.py:1423`). The scope still lists it
  as excluded. `ScopesAgree` excepts it; the second list of the run `prd` is such a case.
* A feature similar to an excluded name is excluded although `mvpScope` may include it; a name only in the
  plan's `scope.out` is not excluded as a feature.
* A repair that removes a core feature leaves `mvpScope` naming it, and can remove all of them.
* Diagnostics of workers count slots, those of the assembly count what was left after omissions.

Release.

* After a resync the registry may refer to what is not in it (`schema_validator.py:425` reports that);
  a feature the PRD repair adds without an id is dropped there.
* A resync whose new document renames a core feature the repair did not touch keeps the registry's entry under the old
  name, while `feature_list` has the new one (`feature_spec_agent.py:1110`). `sync_core_features_with_registry` normalises
  against that list (`prd_agent.py:143`), which makes an entry of the new name alone (`feature_registry.py:141`), and writes its
  `intent.` id into the PRD: the feature is then known under two ids. `IdsAreStable` excepts such documents.
* Nothing checks that a document names its features differently; the properties assume it (`NamesDiffer`).
* `execute` gives a feature its id of the registry, while references elsewhere keep the old id: the document is
  refused. A supporting feature with a core's id or name takes its id in the second run.
* A validation whose parent was merged away loses its requirements. A must feature that depends on an
  excluded one is dropped without a note. Core features named like sign-up or login become supporting ones.

DB schema and API.

* `repair` of the schema is judged before the columns out of scope are put back, so `SavedIsSettled` is about
  schemas no repair has touched; the mapping afterwards may add an owner's key outside the scope (`OwnerCells`).
* A declared table whose name is a revision of another stored table (`orders_v2` beside `orders`) is put in by
  `_ensure_contract_tables` (`dba_agent.py:728`) and merged away by `dedupe_meta_tables` (2141), which does not know the
  contract; nothing reports it. `Lasting` excepts such names where the contract is incomplete.
* The mapping that is built last (`dba_agent.py:2676`) takes every feature, also those that need no database, and
  adds the key of the owner to the table it finds for it. With a complete contract that does not declare this key the saved
  document has a column the contract knows nothing of, and nothing looks again, although the docstring of
  `project_explicit_schema` (1348) says "A complete physical contract owns names, fields, types and FK direction". `Coherent` excepts it.
* `apply_explicit_db_contracts` (1381) adds a declared field nobody wrote after the keys have been set and without its reference.
  The declared key is then missing from an approved document, or the next self-check writes it. `KeysHaveTheirTarget` and
  `Late` except it.
* With a complete contract the self-check keeps the declared relationships only, and `execute` adds those the keys imply again after
  it (2675). `repair` does not: of the tables it may touch it stores the declared ones alone, so that a repair
  loses the implied relationships that `execute` had stored.
* One malformed table ends the self-check of the schema (`dba_agent.py:890`): nothing is projected, corrected or judged,
  `ARTIFACT_SHAPE_INVALID` is all that is reported, and even of a complete contract a declared table whose name is a revision of
  another may then be missing. `SavedIsSound`, `SavedIsStable` and `KeysHaveTheirTarget` are about schemas without a blocker.
* `_normalize_special_references` strips the reference of an external identifier, and `reconcile_fk_types`, which begins with it, writes
  one again when the name denotes a stored table (1126): whether the key is there depends on the keys around it each
  time. `Late` excepts such columns from the second look.
* With a complete contract the self-check (899-907) does not ask whether a column named like a key refers to anything;
  `SavedIsSound` excepts such columns.
* Inferred keys of `_ensure_fk_references` are added without the check for cycles other passes make.
* A canned text for DELETE cannot be repaired away, contrary to the comment at `api_agent.py:1176`
  (line 516 decides).
* Two features may declare one operation under different parameter names; the passes then move its entry from
  one to the other (`OneNamePerShape`). A worker's answer for a foreign route can hide that of its own worker.
* One malformed endpoint ends the self-check of the API before it drops, projects or judges anything (`api_agent.py:1756`), and
  keeps the document from being aligned with the final schema (`orchestration_graph.py:279`): operations nobody declared and
  placeholders are stored, and `ARTIFACT_SHAPE_INVALID` is all that is reported. A repair that heals the entry replaces the
  blockers by those of a document without the undeclared operations, while `preserve_unscoped` (`repair_scope.py:109`) keeps
  them stored; the next alignment may then move one to the path of a declared operation and drop that one. A malformed
  undeclared entry outside the scope can even stay stored with no blocker, when the alignment merges it away before the check.
  `DocumentIsTheContract` and `SavedIsSettled` except documents a self-check gave up on.
* A repair where no feature needs an API skips the projection (`api_agent.py:1772`) and may store operations of such features.
* `repair` and the alignment use the whole registry, also features marked as needing no API; the
  alignment runs no self-check.

Editing.

* Items that were moved or replaced are taken for renames (`document.py:279`, against its docstring).
* Losing a table removes its relations but leaves columns and constraints that refer to it.
* Two picked items given one new name are both kept; a rewrite of the whole section restores no lost
  fields; a section with duplicate labels is never rewritten whole unless a removal was asked for.
* A section whose change the synchronisation undoes stays in the proposal without a difference.

AI calls.

* A request whose handler raises what the application does not turn into an answer of its own (an embedding stored by
  `POST /api/v1/rag/ingest` before the insert fails, an error of the provider) is answered outside
  `UsageMiddleware` (`exception_handler.py:56`): `usage_middleware.py:82` leaves by the exception, no header is written and what
  its calls used is reported to nobody (`Raised`). `ToldCountsAnswers` is about the requests that report.
* Runs that end with Kafka off or the storing pending (`orchestration.py:256`) report no usage, although
  `usage_middleware.py:8` says it is in the body.
* An exception in a `gather` leaves its siblings running and billed after the report (`left`); the
  comment at `orchestration_graph.py:381` says otherwise.
* An attempt that ran into its limit and a stream nobody reads to its end are billed and not counted.
* Web searches and embeddings of a user with a key use the server's.

## 6. Not modelled

* Retrieval, the recommendation, chat, agent and QA scenario routers: prompts, scores and text around
  calls of a model or of an index, without state of their own between requests (the search weights learnt
  from feedback excepted).
* The PM, QA and SEARCH agents beyond their outcomes in `Generation`; the rules of the final
  validator; the comparison of contracts by wording (`workflow_contract.py`, `contract_*.py`).
* The parts of the modelled agents named under "Abstracted" in section 3.
* Wording of prompts and documents, PDF parsing, chunking, embeddings, SQL text, HTTP routing
  and formatting, migrations, scripts and deployment files.
* One hazard is left to the database: two consumers may read the same chunks as missing and both insert them; the
  unique key and `ON CONFLICT DO NOTHING` make the table the set of keys it is in `Delivery`, so `AllOrNothing` would not notice
  their loss.
* One hazard has no property: `psycopg2.connect` has no timeout, so a database that accepts no connection and
  sends no answer holds the publish lock. In the model every call ends.

## 7. Running

    tlc -workers 2 -config MCDelivery.cfg MCDelivery.tla
    tlapm DeliveryProofs.tla

and likewise for the other MC modules and `DbSchemaProofs`, `GenerationProofs`,
`ProgressProofs`, `RunControllerProofs`, `FeatureDraftProofs`, `PrdProofs`, `LlmRuntimeProofs`.

Each run takes about a minute or less on two cores, `generation`, `llm_runtime` and `db_schema` about two.
`PROJECT.json` maps every definition to the code, and names for every property at least one
mutant of the code that violates it; a property that is a conjunction has one for each part.
`TypeOK` is proved for `Delivery`, `Generation`, `RunController` and `LlmRuntime`; the proofs about
`Progress` and `FeatureDraft` state the types they need, and the other modules say what a variable
holds where they declare it.
