# Verification of the agent-RCA incident platform

TLA+ models of the incident platform in `src/incident_platform` and of the two
worker programs in `tools/`, the TLC runs that check them on small instances, and
theorems about them proved with TLAPS. All paths below are relative to the
repository root (`src/` of this tree).

## 1. The system

An Alertmanager webhook becomes an *Incident*. An incident worker collects
Evidence for it, then localizes it (projects the Evidence into a temporal graph
and freezes a *Context Package*); an agent worker analyses the frozen Context with
a language model, and its accepted draft becomes a report. The processes share
nothing but PostgreSQL (Incidents, artifacts, three lease queues) and Neo4j (the
graph).

| Component | State | Operations | Talks to |
|---|---|---|---|
| Alert Receiver (`http_receiver.py`, `incidents.py`) | none | `ingest`: create or find the Incident, record its resolution, one transaction per alert of the webhook | Incident repository |
| Incident repository (`repository.py`, `postgresql.py` 134-870, migrations 001, 002) | Incident document with its status, Evidence, Context Packages, Agent runs, reports | `create_or_get…`, `transition` (compare-and-set on the status), `replace_collector_statuses`, `store_*` | triggers feed the queues |
| Work queues (`incident_work.py`, `postgresql.py` 962-2090, migrations 004-006) | one row per Incident in each of three tables: state, attempt_count, claim_token, lease | `claim_next`, `renew`, `complete`, `fail`, `reap_exhausted`, `store_collection` | read and write the Incident's status in the same transaction |
| Incident worker (`tools/run_incident_worker.py`, `collectors.py`, `localization.py`) | its current claim | `process_one`: two reapers, a claim, then the collection or the localization service | both repositories, providers, graph |
| Collector orchestration (`collectors.py`) | one thread per collector, deadlines | `collect` with retries and a budget per collector | providers |
| Evidence providers, EvidenceBuilder, projectors | none | bounded HTTP reads, validation and hashing, mapping to graph records | telemetry backends |
| StateGraph (`stategraph.py`, `neo4j_stategraph.py`) | entities, snapshots and relations with validity intervals | `ingest`, `reconcile_projection`, `prune_history`, `pin_incident_history` | localization, reconciler |
| Observation journal and reconciler (`reconciliation.py`, `stategraph_observations.py`, migration 003) | STAGED and APPLIED cycles | stage the inventory, apply it to the graph, mark it applied, prune | Kubernetes, journal, graph |
| KRCA drilldown and entity resolver (`krca*.py`, `resolution.py`) | none | choose the services whose Evidence is still needed; resolve an alert's service | localization |
| Agent RCA service (`agent_rca.py`) | tool budget and inspected Evidence of one run | candidates, retrieval, model, Evidence Gate, then audit, report and REPORTED | Incident repository |
| Agent worker (`tools/run_agent_worker.py`) | current claim, rate limit, circuit breaker | `process_one`: reap, claim, run, complete or fail; targeted one-shot runs | analysis queue |
| Deterministic rules (`deterministic.py`) | none | evaluate the registered causes on a set of Evidence | candidate selection, Evidence Gate |
| Knowledge retrieval (`knowledge.py`, `vector_knowledge.py`) | the vector index | lexical, vector and fused ranking within budgets, `sync_documents` | Agent RCA service |
| In-memory adapters (`repository.py`, `incident_work.py`) | dictionaries under one lock | the same ports as PostgreSQL | the tests of the services |
| Reporting, viewer, telemetry, evaluation tools, automation | none that outlives a call | rendering, read-only queries, offline scripts, manifests | |

### What is hard here

* **Overlapping claims.** A lease is a time; a worker whose lease has expired does
  not know it. Only the queue rows are fenced by the claim token. Status
  transitions, collector statuses, Evidence, Contexts, audits and reports are
  written without it, so a stale worker writes among its successor's writes.
* **Many small transactions.** Collection is three transactions and a completion,
  localization two and a completion, analysis three and a completion; between any
  two the process may die, and any of them may raise or succeed without the
  worker learning of it.
* **Three parties settle a row**: `complete`, `fail` and the reaper, each with its
  own table of the statuses it accepts. A status in none of the tables is a row
  that is never settled.
* **Triggers with ON CONFLICT DO NOTHING** enqueue work from two tables; the order
  of the Context and of the transition decides which one inserts the row, and
  which Context the analysis is pinned to.
* **Limits**: `attempt_count < max_attempts` in one query, `>=` in another; 50 rows
  a reaper pass.
* **A webhook is not atomic**: its alerts are ingested one by one in their own
  transactions, it is repeated after a failure, and it races with the workers that
  rewrite the same JSON document.
* **Two databases without a common transaction**: an observation is STAGED in
  PostgreSQL, applied in Neo4j and marked APPLIED in PostgreSQL; a job may die after
  each step, and a killed job may linger beside its successor.
* **Observations out of order**: the graph is written by the reconciler and by every
  localization, and Evidence may be older than what the graph has already seen.
* **Threads that cannot be stopped**: a collector runs under a budget in a thread of its
  own; when the budget is spent the run goes on, and so does the thread.
* **Sources that change while they are read**: lists come in pages whose continue token may
  expire, relays forget, limits cut off, and what is drafted from several requests must
  still not claim more than was seen.
* **A chain of validations**: what a provider drafts is built, stored, projected, and for
  KRCA validated once more, each by rules of its own; a refusal at the end fails the
  Incident on every attempt.
* **Retries behind a checkpoint**: a localization that collected from downstream services
  must select the same services when it is tried again on a graph that has changed.
* **A model that may do anything**: what it cites must have been shown to it in this run,
  and what it concludes must be proven, without locking an honest investigation out.
* **Two adapters behind one port**: the tests run on the in-memory one.
* **Limits that live in memory**: the agent worker's rate limit and circuit breaker
  return before the reaper is called and are forgotten at a restart.

The full list, each at its line, is `hazards` in `PROJECT.json`.

### What makes each part correct

| Part | Correct means |
|---|---|
| Queues and lifecycle | no Incident is stranded; a claim is exclusive; attempts are bounded; settled rows are final and agree with the Incident; every row is settled in the end |
| Incident worker | the Context an analysis reads is frozen from whole runs and chosen once |
| Collector orchestration | a collector counts exactly when it answered in time; a batch is stored whole or not at all; no provider holds the run |
| Evidence providers | a batch that is not PARTIAL lacks nothing, nothing is in it that was not there, summaries count everything once, a ConfigMap or a change is reported absent only if it was |
| Projectors | what a provider delivers has one owner, which accepts it |
| KRCA drilldown and guided localization | a candidate is backed by a path of suspicious edges; a Top-N without fallback is complete; a retry selects what its checkpoint holds; a Context on the Top-N follows their collection |
| Agent worker | a report comes from an accepted, audited run on the pinned Context; a REPORTED Incident has one |
| Agent investigation | a report cites only what was shown; its cause is proven; a proof can be found and, once found, reported |
| Knowledge retrieval | only approved and valid documents in scope; fusion respects what both rankings say |
| Agent throttle | claims are spaced, failures rationed, a breaker opens for a streak only, exhausted rows are still reaped |
| Alert Receiver | what was answered 202 is recorded for good; 409 is a real conflict; no update is lost; a repeated webhook is audited once |
| StateGraph | intervals do not overlap or go backward; what disappeared has no current state; pinned history is kept |
| Observation journal | APPLIED means the graph has it; replaying a STAGED cycle changes nothing |

## 2. Modules

| Module | Models | Code |
|---|---|---|
| `IncidentLifecycle` | abstract: the status of each Incident and the one report promise | `ALLOWED_TRANSITIONS` |
| `IncidentStore` | the PostgreSQL side: Incidents, artifacts, three queues, triggers; one operator per transaction | `postgresql.py`, migrations 001-006 |
| `IncidentWorker` | `process_one` with the collection and localization services | `run_incident_worker.py`, `collectors.py`, `localization.py` |
| `AgentWorker` | `process_one` with the Agent RCA service | `run_agent_worker.py`, `agent_rca.py` |
| `MemoryAdapters` | abstract: the in-memory adapters, one atomic step per method | `repository.py`, `incident_work.py` |
| `IncidentPipeline` | composes store and workers: alerts, leases, crashes, all workers | |
| `AlertIntake` | webhooks against row-locking workers on the Incident document | `http_receiver.py`, `incidents.py`, `postgresql.py` |
| `AgentThrottle` | rate limit and circuit breaker in time | `run_agent_worker.py` |
| `StateGraph` | the Neo4j transactions on Entities, snapshot intervals and pins | `neo4j_stategraph.py` |
| `ObservationJournal` | the reconciler's jobs and the journal, EXTENDS `StateGraph` | `reconciliation.py`, `run_stategraph_reconciler.py`, `postgresql.py` |
| `GraphWriters` | composes reconciler jobs with the localizations of Incidents, and time | `localization.py` |
| `Collection` | collector threads, deadlines, judgement of batches, the three transactions of a run | `collectors.py`, `evidence.py` |
| `KubernetesCollection` | the Kubernetes collector in a namespace that changes | `providers/kubernetes.py` |
| `ProviderAttempt` | one attempt of any other collector: its pages, drafts and outcome | `providers/*.py` |
| `MetricProviders` | Prometheus service and workload metrics, KRCA edge features | `providers/prometheus.py`, `krca_metrics.py` |
| `FlowAndLogProviders` | Hubble flows, kernel OOM kills in Loki | `providers/hubble.py`, `loki.py` |
| `DeploymentHistory` | ReplicaSet revisions of a Deployment that is rolled out and back | `providers/change.py` |
| `Projection` | which Projector owns a draft, and what it refuses | `projectors/*.py` |
| `TelemetryCollection` | composes the providers with the projection | |
| `KRCADrilldown` | scores, the breadth-first drilldown under its budgets, the Top-N | `krca.py`, `krca_pipeline.py`, `krca_runtime.py` |
| `GuidedLocalization` | localization of a profiled Incident: plan, resolution, downstream collection, checkpoint, scope | `krca_pipeline.py`, `resolution.py`, `localization_collection.py`, `run_incident_worker.py` |
| `DeterministicRules` | the registered causes, and the Evidence ids that prove one, as sets | `deterministic.py` |
| `KnowledgeRetrieval` | rankings, fusion, budgets and refusals of a retrieval | `knowledge.py`, `vector_knowledge.py` |
| `AgentInvestigation` | one run: candidates, tools, model, Evidence Gate, audit, report | `agent_rca.py` |
| `Ordering` | a finite set as a sequence in a strict order, given as a relation or a comparison | |
| `MC*` | values of the constants; kinds of behaviour run together | |
| `*_proofs` | theorems and their proofs; `Ordering_proofs` the lemmas on sequences, sorting and filtering that the others share | |

`PROJECT.json` maps every definition to its lines.

### How state and actions correspond to the code

* **Rows and claims** (`IncidentStore`). `work[stage][incident]` is a row of the
  stage's table. The claim token is identified with `attempt_count`: both change
  together, on a claim, so a token that is not the row's is one of an earlier attempt.
  A lease is `none`, `live` or `expired`; `Expire` may happen whenever it is live.
  `SKIP LOCKED` is left out: it only lets a claim or a reaper see fewer rows, which
  it may do anyway by coming earlier.
* **A worker** (`IncidentWorker`, `AgentWorker`) is a record with a program counter;
  each action is one transaction of its handler with the checks before it. A
  transaction may commit and the worker see an error (a lost acknowledgement), fail
  without an effect, or the worker may die (`Crash…`); the handlers' `except` branches
  are actions. The heartbeat is an action of its own. A worker without a claim that
  dies changes nothing and is left out.
* **Contexts and Evidence** are the attempt that wrote them. `FreezeContext` may pick
  any older Context as the newest where two may have the same time.
* **An Incident document** (`AlertIntake`) is its stage, end and audit; a transaction
  with a row lock is a read that takes the lock and a write that releases it. A batch
  is a sequence of alerts that request `r` has worked off up to `at`. A webhook
  refused before the repository is reached changes nothing and is left out.
* **Clocks** (`AgentThrottle`) count what is left or what has passed, so that states
  repeat; `Tick` is the only action that moves them.
* **The graph** (`StateGraph`). `graph[e]` is the Entity node with its snapshots, `pins[i]`
  the Incident's pin node. A transaction is one step that is accepted as a whole or
  changes nothing. A state is a number, which also stands for the order of the hashed
  snapshot ids that breaks ties. `tied` is a history variable: the Entities once
  observed in two states at the same second.
* **A job** (`ObservationJournal`) is one run of `run_once`, a step per call to one of the
  databases; `Abort` may end it before any of them. `reconciled` is a history variable:
  the slots whose inventory was written to the graph.
* **The cluster** is not modelled: an observation may show any Entity in any state, so
  what is checked does not depend on how the cluster behaves.

* **A collector's thread** (`Collection`) is `thread[w][c]`; it may answer whenever it likes,
  also after its deadline, or never. The worker `job[w]` awaits the threads in the order of
  the specs. `Receives` chooses the answer from `Batches`; `Builds` is what
  `EvidenceBuilder` insists on. Workers are the claims on one Incident: a stale one goes on.
* **A Kubernetes list** (`KubernetesCollection`) is read a page at a time from the snapshot of
  its first page; between any two requests an object or Event of `Fleeting` may appear or
  disappear, and a token may expire. `cluster.throughout` and `cluster.ever` are history
  variables, against which the batch is judged.
* **The other providers** share `attempt`, the state of one attempt, and `source`, what the
  backend would answer; a behaviour is of one provider. Values and scores are small numbers;
  times are ticks of the window.
* **The drilldown** (`KRCADrilldown`) is its loop: one action takes an API from the queue, one
  evaluates an edge, one ranks. It is a function of stored features, so it is run once and
  every plan of `GuidedLocalization` reads its result.
* **A guided localization** has a job per claim (`Attempts`), a step per query or transaction;
  the graph (`visible`), the alert's end and a stale collection change between the steps.
* **An investigation** (`AgentInvestigation`). The model may call a tool with any argument the
  schema admits, an id it made up included, and submit any draft of `Drafts`. Evidence ids,
  documents and Entities are members of small sets; a score is the sum the code computes.
  Wall time, tokens and calls of the model are a choice when the gate judges.
* **In-memory adapters** (`MemoryAdapters`) enqueue nothing by themselves: the caller that
  moves an Incident enqueues it, where PostgreSQL has triggers. They differ from PostgreSQL in
  two points that no transition of the pipeline reaches: `claim_next` raises when an expired
  item's Incident has left its stage, and reaping has no limit.

### Abstract specifications

`IncidentLifecycle` says what the platform promises about an Incident, whoever works on
it: the status moves along `ALLOWED_TRANSITIONS` only, a Context is frozen before the
analysis starts, a report is stored before the Incident says REPORTED.
`IncidentPipeline` implements it (`ImplementsLifecycle`) under the mapping `LC` of
`IncidentStore`: the same status; frozen when a Context is stored, published when a
report is. Steps that write rows, audits or Evidence only are stutters.

`MemoryAdapters` is what the tests of the services run on. `DatabaseActsAsMemory` says that
every transaction of the PostgreSQL adapter, with its triggers, is one step of an in-memory
adapter on the same Incident or a stutter, so what those tests establish of the ports holds of
production as well.

## 3. Runs

| Run | Instance | Shows |
|---|---|---|
| `stale_incident_workers` | 1 Incident, 2 incident workers, 2 attempts | a worker that lost its lease may write anything its handler can; queues and Incident stay consistent, claims exclusive, a live lease protects, the pinned Context is fixed, an analysis rests on stored Evidence |
| `overlapping_analyses` | 1 Incident, 1 incident worker, a continuous and a targeted agent, 2 attempts | reports stay backed although two analyses and a retried localization overlap; the pipeline implements `IncidentLifecycle` and `MemoryAdapters` |
| `progress` | 1 Incident, one fair worker of each kind, 2 attempts | every received Incident ends, claimed rows are settled |
| `alert_intake` | 2 receivers, 1 worker, 2 Incidents, batches of up to 2 alerts, 2 ends | accepted alerts are recorded, conflicts are real, ends are final, audited once |
| `agent_throttle` | interval 2, threshold 3, cooldown 5 | rationing, streaks, reaping |
| `graph_writers` | 2 Entities; either 2 jobs, 2 states, slots of 4, or 1 job at a time, 1 Incident, 1 state | APPLIED is in the graph, retries are idempotent, intervals disjoint, what is gone is closed, pinned history is kept |
| `agent_investigation` | 7 Evidence items, 3 Contexts, 3 corpora, 3 tool calls, 3 turns; candidates 3 of the 4 a schema admits, 3 documents a search | reports cite what was shown and are proven; proofs are reachable and honest drafts pass; fusion respects agreement |
| `collection` | 2 claims with 2 collectors; a namespace of 11 objects and 4 Events; every other provider on the sources of `MCTelemetry` | whole and punctual batches only; nothing missing silently, nothing invented, everything projectable, exact summaries; a hung provider holds nobody |
| `guided_localization` | 4 APIs of 3 services, 7 edges, 3 features, 5 budgets; 2 claims | paths supported, rankings complete, selections stable, downstream before freeze |
| `localization_rows_settle` | as `progress` | **violated**, finding 1 |
| `profiled_scope` | as `guided_localization` | **violated**, finding 2 |
| `history_unchanged` | the providers of `collection` | **violated**, finding 3 |

`collection` and `graph_writers` run several kinds of behaviour side by side: a behaviour starts
as one kind and the variables of the others stay idle (`MCInit`, `MCNext` of `MCCollection`;
`incidents` of `MCGraphWriters`). Nothing is lost by that in `MCCollection`, as the kinds share
no state; in `MCGraphWriters` it is a bound.

### Bounds and why they are enough

* *Two attempts* are the smallest number with a retry, a last attempt and a
  row without attempts left; the claim tokens they give tell a stale worker from the
  current one. *Two workers* of a kind are a stale one and its successor; a third is
  idle or stale in the same way. *One Incident* suffices where Incidents do not interact;
  they do in a webhook (`alert_intake`) and in a reaper's batch of 50 rows, which is left out.
* *Two alerts a batch*: the smallest batch with a part that is stored and a part
  that is not; *two ends* make a conflict.
* *Threshold 3* tells a streak from a pair; a *cooldown* of 5 is longer than a spaced
  streak of two, so failures before and after an open circuit are told apart. `unrested` counts
  the failures since the last success, restart and end of a cooldown, so that a count that is
  not reset after one opens the circuit too early.
* *Graph*: the retentions (72 h and 30 days; 24 h and 72 h for the journal) become 1 to 3
  ticks in the same order, so that pruning and expiry happen within the clock. `MaxTime`
  bounds the clock, `MaxLag` the age of Evidence when it is ingested, `JobLife` the life
  of a job (`activeDeadlineSeconds`, shorter than a slot and than every retention). Two
  Entities are needed because an inventory that is empty is refused: one disappears
  while the other stays. Beside an Incident the Entities have one state, as interleavings of
  changing states multiply; they change beside a second job, and the theorems cover both.
* *Collection*: two claims are a stale and a current run; one collector has
  a longer budget, one is retried, answers may be early, late or never come, and `MaxTime` lets both budgets pass.
* *Kubernetes*: pages of one object, so that every list has a point between two pages; a
  second Deployment has a name that begins like the root's and a Pod in its EndpointSlice;
  limits are at the number of objects or below it.
* *Other providers*: answers that are empty, sparse, exactly at a limit, beyond it, outside
  the window and outside the scope. A flow budget of 8 gives 2 flows a question. Three edges share their
  APIs, so that one answer completes several of them, and the last edge has nothing left to ask.
* *Drilldown*: the graph has cycles, two paths to one API, and two APIs of the alerting
  service; depths 1 and 2 and 3 edges exhaust the budget, Top-1 to Top-3 cut the ranking.
* *Investigation*: three candidates of up to five items, so the selection leaves some out;
  two Evidence pairs prove causes, of two Entities; three calls do not show everything. A schema
  admits E1 to E4 (E1 to E12 in the code) of three candidates, so a call may be DENIED; a search
  answers with three documents (20 and more), fewer than a corpus may have; one of the paths
  differs from another in its relations only, and one Entity has no entity_id.
* *Some leases do not run out*, so that the runs end: in `overlapping_analyses` no collection
  lease expires (`OverlapSpec`; two incident workers overlap in `stale_incident_workers`, and
  the theorems hold without the bound), and in `progress` and `localization_rows_settle` one of
  the three stages of an Incident is finished by its first claim (`ProgressSpec`), so two
  stages are retried or die in any combination, but not all three. `IncidentsEnd` is a property
  of one stage handing over to the next, and every pair of stages is covered.
* *Second alerts resolve* (`SecondResolves`): of two alerts in a webhook the second carries an
  end, which covers creating and then resolving, and a resolution that fails after an alert
  was stored. *Beside an Incident* the graph's clock stops within the first slot.
* *Deployments*: `LastTick` and `LastRevision` leave room for a roll-out and a roll-back.
  The scope is the one Deployment that exists, so that a batch can be complete, or four names,
  so that the drafts exceed the limit and most names are not found.
* Bounds of the graph that are hypotheses of a theorem: `MaxLag`, the age of Evidence when it is
  ingested, and `JobLife`. With Evidence older than the ordinary history (an Incident left
  alone for three days), an Entity that was retired, pruned of its snapshots and kept by
  another Incident's pin could get an open snapshot while it does not exist;
  `RetiredEntitiesAreClosed` says that this is the only way (`HistoryOutlivesWriters`).
* Deadlock is checked but in four runs, whose behaviours really end: a run of
  `Collection` and an attempt of a provider deliver or die and the bounded clock stops
  (`collection`, `history_unchanged`); both claims of a localization are spent
  (`guided_localization`, `profiled_scope`). `agent_investigation` turns it off for the same
  reason although a finished run stutters.

### Fairness

Fairness is assumed in `FairSpec` of `IncidentPipeline`, `Spec` of `AgentThrottle` and
`CollectionFairness` only.
The workers are endless loops that Kubernetes restarts, so each has weak fairness on
its next step, whatever step that is: nothing says that a call succeeds, and a worker
may crash again and again as long as attempts last. The clock is fair to each lease:
it expires if it is not renewed. A targeted run is fair once it holds a claim; before, it is the
operator's to start. No fairness is given to alerts or to crashes. In `AgentThrottle` the
loop, the end of a run and the clock are fair. `CollectionFairness` is for the worker's own
thread and the clock: nothing is assumed of a provider's thread, which may hang for ever. Liveness is stated for the Incidents the
continuous agent is configured for (`Eligible`).

### Findings

1. `postgresql.py:1558`. A localization row is never settled when the worker dies after
   its move to ANALYZING and the agent reports before the lease expires: `complete`
   accepts ANALYZING, the reaper LOCALIZING, ANALYZING and FAILED, nobody REPORTED.
2. `krca_pipeline.py:488`. The guided localization says that it keeps the source scope when
   KRCA has no complete Top-N; it raises, and the Incident fails for good, when the features
   of the profile were stored twice (the worker died between `store_evidence` and the move
   to LOCALIZING, or a stale one stored its run) or when the alert was resolved with an
   end before the end of their window.
3. `providers/change.py:206`. A change is looked for among the ReplicaSets created in the
   window. A rollback creates none, so a Deployment that changed is reported as
   `NO_CHANGES` with completeness 1.0.

Observations that no run is spent on:

* Two claims of one Incident that collect at once replace each other's collector statuses
  (`collectors.py:406`): the Incident may be moved on by a run whose Evidence is stored, with
  the statuses of one that died. `Collection` has such behaviours; nothing in the repository
  says that they do not exist.
* `transition` (`postgresql.py:212`) compares the status and not the claim: a stale worker
  still moves the Incident, which every run of the pipeline allows for.
* Two observations of an Entity at one second (the end of a resolved Incident's window)
  and a third later leave two open intervals when the closed one of the two has the greater
  snapshot id (`neo4j_stategraph.py:957`): `DisjointUnlessTied` leaves such Entities out (`tied`).
* The guard against going backward (`neo4j_stategraph.py:980`) does not look at the `observed_at`
  of the open interval: late Evidence may close a state before it was last observed.
* The audit of a draft the gate rejects is not stored when a tool was called with an id
  the model made up: the audit contract refuses the id and the exception is passed over.
* One document whose content is not what the index pinned fails every retrieval of the corpus
  (`knowledge.py:190`).
* The Relay's filter is a prefix of Pod names: flows of `cartcache-1` are answered for
  `cart` and fail the Hubble collector (`hubble.py:463`).
* Loki does not start an expired Pod page again, as Kubernetes does; OOM kills of Pods that
  have been replaced are not asked for.
* A KRCA feature of an edge that is not configured would be refused by its Projector; the
  profile never has one.

## 4. Theorems

Proved for every value of the constants, under the `ASSUME`s of the modules (the model
values differ from what they stand apart from; at least one attempt, one row a pass;
retention periods ordered as the policies check them; a job shorter than a slot's
STAGED history; collector specs, batches and times as their constructors accept them).

| Module | Theorems | Argument |
|---|---|---|
| `IncidentPipeline_proofs` | `PipelineIsConsistent`, `TypeCorrect`, `NoIncidentIsStranded`, `ReadyWorkCanBeClaimed`, `ClaimsAreExclusive`, `AttemptsStayBounded`, `SettledWorkStaysSettled`, `PinnedContextStays`, `LiveLeasesProtect`; `RecordsStayTrue`, `EveryReportIsBacked`, `SettledWorkTellsTheTruth`, `PipelineImplementsLifecycle`, `AnalysisRestsOnEvidence`, `DatabaseImplementsMemory` | one lemma per transaction of the store (what it does to one row and one Incident, that it keeps `StoreInv` and undoes nothing), then `PipelineInv`, see below; a transaction that changes a live row is its holder's, by the number of the claim; `HistoryInv` and `FrozenFromEvidence` beside it |
| `Collection_proofs` | `CollectionIsConsistent`, `TypeCorrect`, `OutcomesArePunctual`, `StoredBatchesAreWhole`, `ContextsAreFrozenFromWholeRuns`; `KubernetesCollectionIsInvariant`, `NothingGoesMissingSilently`, `NothingIsMadeUp`; `TelemetryIsInvariant`, `CollectedCanBeProjected`, `CollectedIsInvariant`, `SummariesCanBeTrusted` | `CollectionInv`, `KubernetesInv`, `TelemetryInv` and `CollectedInv`, see below |
| `AlertIntake_proofs` | `TypeCorrect`, `AcceptedBatchesAreRecorded`, `ResolutionsAreFinal`, `ConflictsAreReal`, `EventsAreAuditedOnce` | `IntakeInv`: whoever is about to write holds the lock and a current copy; what a request has got past is recorded; an end a request was refused for stays |
| `AgentThrottle_proofs` | `TypeCorrect`, `BreakerRationsFailures`, `BreakerNeedsAStreak`, `RateLimitSpacesClaims` | `ThrottleInv`: the program's limits match the history of claims and failures |
| `GraphWriters_proofs` | `WritersAreConsistent`, `TypeCorrect`, `HistoriesStayDisjoint`, `AppliedCyclesAreInTheGraph`, `RetriesAreIdempotent`, `PinsProtectHistory`, `RetiredEntitiesAreClosed` | `WritersInv` and `RetirementInv`, see below |
| `GuidedLocalization_proofs` | `PathsHold`, `RankingsAreComplete`, `SelectionsAreStable`, `ContextsAreWhole` | `DrilldownInv` and `GuidedInv`, see below |
| `AgentInvestigation_proofs` | `InvestigationHolds`, `CitationsWereShown`, `CitationsAreAudited`, `ReportedCausesProven`, `SelectionKeepsProofs`, `HonestInvestigationsPass`, `FusionKeepsAgreement` | `InvestigationInv`, see below |

*`PipelineInv`.* No invariant of the queues is inductive alone. That an Incident is not
stranded needs the triggers' row to exist (`StoreInv` ties rows, status and Contexts);
that two workers do not share a claim needs that no claim is ahead of its row
(`ClaimsAreIssued`), because the next claim takes the next number; and that an ANALYZING
Incident has an analysis row needs that a worker about to move it there has stored its
Context (`LeavesAfterFreezing`), because the trigger enqueues nothing without one.

*`HistoryInv`.* That a report cites the pinned Context is a fact about the database that
no transaction checks: `store_report` takes the Context from the worker's own memory.
It holds because of what the worker stored before (`WorkersHaveStored`: its Context is
the pinned one, its audit precedes its report, its report the move to REPORTED), and
because nothing takes back what was stored (`RecordsAgree`: an analysis is enqueued only
with a Context, a localization is completed and a report stored only after that). The
refinement maps the statuses of `IncidentLifecycle` to the pipeline's, its frozen and
published flags to "has a Context" and "has a report", and needs both invariants: what
says that an Incident reaching ANALYZING has a Context, and one reaching REPORTED a
report, is what its worker has stored.

*`CollectionInv`.* A thread goes on after the orchestrator gave it up, so what was recorded
of it must be stable (`ExecutionStands`): a collector recorded as TIMED_OUT was either late
or was still running after its deadline, and the clock does not go back. A worker that was
taken over goes on too, so that a Context holds whole runs needs that each run has stored
everything before it leaves (`RunInOrder`), and that only the run that found the Incident
COLLECTING moved it on (`SomeRunFinished`).

*`KubernetesInv`.* That a finished batch lacks nothing relates a snapshot to a cluster that has
changed since. What is kept meanwhile is that a list, with the rest its token stands for, has
everything of its kind that stays and nothing that never was, each once (`Lists`); a restart
throws away what it had, so the new snapshot starts from nothing. A later change takes this
back from no list, because it can only shrink what stays and grow what ever was. A provider
that reads names one by one has, unless it is PARTIAL, found every object and told every
Event of the names it is past (`NameStands`), a draft is of one of its names
(`DraftStands`), and the batch adds up what the providers left (`BatchStands`). So that an
Event draft counts no more than occurred, and no less than one Event that stays, `Occasions` is
counted as a set. Assumed is what the API server sees to (`ObjectsAreIdentified`,
`EventsAreIdentified`: a uid, or a kind and a name, is of one object; an owner reference
names one; lists have an order) and what the constructors check (`LimitsAreUsable`). No
assumption is made on when things come and go, on page sizes or on which request fails.

*`TelemetryInv`.* That an item can be projected is a contract between two parts that share no code: a
provider counts, sorts and cuts, and a Projector recomputes what it can from the item and raises when
it does not agree. Most of it is a fact about one draft (`SummaryIsAccepted`, `FlowDraftIsProjectable`,
`KillDraftIsProjectable`, `ChangeIsProjectable`): that verdicts, protocols and drop reasons add up to the
flows is `CountsAddUp` over `SumFunction`; that the previous revision is below the new one, that the
first time is not after the last. The rest comes from earlier answers, which is what the invariant
keeps of each collector: the flows merged so far are from or to the Service and within the window, a
truncated answer has a flow (so NO_DATA is never truncated), every listed Pod has a uid, and the
ReplicaSets of the list so far and of the rest of its snapshot differ in their revisions, so the drafts
of one revision of a Deployment are one, and can be sorted before they are cut to the limit. Assumed
(`SourcesAreUsable`, `FlowsAreParsed`) is what the clients refuse to parse otherwise, that a flow is
known by its uuid and time and a log line by its place, and that the Deployment controller has one
ReplicaSet for a template and gives no revision twice; which flows, lines and Pods there are, and what
becomes of them between the requests, is not.

*`CollectedInv`.* That a batch is exact relates drafts to a source that has changed since it was asked,
and each collector has its own reason. `Gathered` says, for each of them, what is true of the answers
so far *and of the source now*; it is kept by every request (`AskMetricGathers`, `AskFlowsGathers`, ...)
and by what happens between two requests (`ForgettingKeepsGathered`, `PodsChangeGathers`,
`RollOutGathers`), and with the last answer it gives the batch's part of `SummariesAreExact`:

* *Metrics*: the drafts are the summaries of the metrics up to now, and unless the attempt is PARTIAL
  none of these was cut short; a summary of samples that were all read counts them all, because
  filtering neither loses nor repeats any (`SummaryCounts`), and has their least and greatest value.
* *Edges*: the cache holds what the source says, as far as it is read (`Answered`). An edge is scored when
  none of its series was cut short, so that the cached times are the source's and the aligned ones those
  at which all seven series say something (`AlignedIsTogether`); sorted, those from the last turn on
  are all those between the first and the last of them (`TimesFromAPlace`).
* *Flows*: after its first question, without a gap or a cut, no flow from the Service that was there all
  the time is missing; the second question adds those to it; what was forgotten in between was not
  there all the time. Nothing is counted that never was, and NO_DATA alone makes a batch PARTIAL, because it
  may be forgotten flows.
* *Kills*: every scoped Pod that is still there was found or is in the rest of the list, however it is
  paged; the lines kept are all of them when there is no more than the limit (`FewLinesAreEarliest`).
* *Deployments*: the list was opened after the window ended, so a ReplicaSet of the window that exists now
  was there when it was opened, perhaps with another revision; a list that was not cut has it.

What is assumed beside `SourcesAreUsable` is `PodsAreNamedAfterWorkloads`: a Pod whose owner is a workload
of the Service is named after it, so Hubble's Pod prefix filter lets its flows through. A source whose Pods are
named otherwise would be asked for too little, and nothing in the provider would notice.

*`WritersInv`.* That intervals are disjoint is not inductive: which snapshot is closed
depends on which one `LatestOf` finds. The snapshots of an Entity that was never tied
also start at different times and end after they start (`Orderly`), so the one that
starts last is the only one that can be open. Histories are finite, without which
a latest one need not exist; its existence follows from the well-founded order of
finite sets. Pins are safe because a job prunes as of the time it started
(`JobsAreBacked`), and what is unexpired now was unexpired then. Idempotence follows
from the same order in any state that satisfies the invariant.

*`RetirementInv`.* That what is gone has no current state is not inductive, because pruning
takes the snapshots that would refuse an old observation. What is: an Entity that does not
exist has no open snapshot, and either keeps a closed one that ends when it was last seen,
so that nothing older fits, or was last seen longer ago than anybody writes. The second
half needs `HistoryOutlivesWriters`: Evidence is ingested, and a job is over, within the
ordinary history (72 h in `StateGraphHistoryPolicy`; slots of 5 minutes and jobs of at most
4 in `stategraph-reconciler.yaml`). Nothing in the code enforces the first.

*`FrozenFromEvidence`* and the refinement of `MemoryAdapters`. A collection whose sources had
nothing to report moves its Incident to LOCALIZING with no Evidence stored; what keeps such an
Incident from an analysis is that a Context and a checkpoint are stored from Evidence only and
that nothing takes Evidence back. With `HistoryInv`, by which an analysis has a Context, this
gives `AnalysesRestOnEvidence`. The in-memory adapters ask for more than the database does: a
Context before an Agent run, a claim number in range. The pipeline has them because of what
its workers did before, which is what `HistoryInv` says. Each transaction of `IncidentStore` is then shown to be
one call of an adapter or a stutter. The theorem assumes `PassesAreWhole`, that a reaper's pass
can settle every row there is: the database settles at most 50 rows a pass and the adapters all,
so with more the two differ, step by step.

*`DrilldownInv`.* Every path that is scored is a trail (it starts at the alerting API, follows
suspicious edges and visits nothing twice), and a candidate's path is one of them. A ranking
is complete because nothing was passed over: an API that is reached over a suspicious edge was
expanded, is in the queue, or the budget is `exhausted`, which is recorded. The Top-N is the
first N services of a sorted sequence; the lemmas on `Ordered`, `Picked` and `TopServices` are
proved from the existence of least elements, not by induction.

*`GuidedInv`.* A retry selects the same services because a checkpoint is written once, from the Top-N
of a drilldown that has ended (`CheckpointIsTheTop`), and later attempts read it instead of
selecting again; the services an attempt has resolved so far are a prefix of the Top-N
(`SeedsSoFar`). A Context on the Top-N is frozen by an attempt that has resolved all of it, found
the checkpoint or nothing downstream, and takes over what the checkpoint says of failures.

*`InvestigationInv`.* What a draft may cite is what the runtime recorded as inspected, and that was
asked for, answered and shown (`RuntimeIsRecorded`). What is stored is what the gate accepted
(`StoredInOrder`): a report is the draft whose `Verdict` is SUCCEEDED, after its audit, so what the
verdict asks of a cause holds of every report. While the model chooses, its candidates are frozen
Evidence and prove a cause when the frozen Evidence does (`CandidatesProve`): two items are a proof
by themselves, the selection puts those of a proven rule first, and leaving out repeated ids and
cutting the list at the policy's limit, which is at least two, keeps the first two different ids.
So a proof can be inspected, and the draft that claims it and nothing else meets each of the gate's
conditions.

`FusionRespectsAgreement` needs no more than the types: `Fusion` compares the fused scores as exact
fractions, cross multiplied, which is a total preorder (`FractionsAreOrdered`). That a document's
entity score is a number at all is a fact about a fold (`SumOfMembers` in `Ordering_proofs`): the
subsets of a finite set for which it holds are a set, and if one were missing, a smallest one
would be.

**Model-checked only.** Liveness (`IncidentsEnd`, `ClaimedWorkSettles`, `ExhaustedIsReaped`,
`HungProvidersDoNotHold`), which is out of the prover's reach. Every other property of a passing run
is stated by a theorem.
No module here declares a RECURSIVE operator.

## 5. Not modelled

* HTTP, query texts, authentication and the parsing of payloads of the providers; redaction
  and hashing in the EvidenceBuilder; the contents of the graph records the Projectors make,
  and the Kubernetes Projector.
* The arithmetic of the KRCA scores (Fisher's test, lagged correlation): an edge has the
  features that it gives, and `Score` combines them.
* In the StateGraph: relations, event aggregates, placeholders, Evidence ids and the
  path query; the 1000-record batches of pruning (a later job prunes the rest); the
  in-memory graph.
* `available_at` and clock skew between workers: a claim is possible at any time.
* Reporting, the viewer, queue telemetry, the evaluation tools (`run_evaluation_matrix.py`,
  `validate_phase0.py`) and deployment automation: rendering, read-only, offline, or no
  program.

## 6. Plan

In this order; the most important behaviour first.

1. *Done*: queues, lifecycle and both workers (`IncidentPipeline`), the receiver, the throttle,
   the graph's intervals and the journal, with their proofs; collection, providers and
   projection; the drilldown and guided localization; the rules, retrieval and one
   investigation; the in-memory adapters.
2. *Done*: the refinement of `IncidentLifecycle` and of `MemoryAdapters`; `ReportsAreBacked`,
   `SettledWorkMatchesIncident` and `LiveLeaseProtects`; the receiver's audit and conflicts; the
   orchestrator (`Collection_proofs`); the drilldown, guided localization and investigation;
   `RetiredIsClosed`; the Kubernetes collector, page by page; `CollectedIsProjectable` and
   `SummariesAreExact`, for the six other collectors.
3. `StateGraph` extended by relations and Evidence ids: what a reconciliation replaces
   while a localization reads.
4. The Kubernetes Projector, and with it the projection of what `KubernetesCollection` drafts.
