------------------------------ MODULE Collection ------------------------------
(***************************************************************************)
(* Evidence collection for one COLLECTING Incident (collectors.py,          *)
(* evidence.py): each worker's CollectorOrchestrator runs one thread per     *)
(* collector under a budget and awaits them in the order of the specs; then *)
(* IncidentCollectionService stores statuses and Evidence and moves the     *)
(* Incident on.  A worker whose claim was taken over goes on all the same,   *)
(* so two runs of the service overlap over one Incident.                    *)
(***************************************************************************)
EXTENDS Naturals, Sequences, FiniteSets, Functions

CONSTANTS
    Workers,      \* numbers of the claims on the Incident's collection, a worker each
    Specs,        \* the CollectorSpecs, in the order they are awaited
    Batches,      \* what the provider of each collector may return
    Scope,        \* ResourceScope of the requests
    Baseline,     \* baseline_start of the Incident's window
    Opened,       \* when it was received
    IncidentEnd,  \* its incident_end, or NoEnd while the alert is firing
    NoEnd,
    NoContext,
    MaxTime       \* bound on the clock; a run starts only if its budgets fit

Names == {s.name : s \in Range(Specs)}
SpecOf(c) == CHOOSE s \in Range(Specs) : s.name = c

UsableSpec(s) == s.timeout \in Nat \ {0} /\ s.attempts \in Nat \ {0} /\ s.lookback \in Nat \ {0}

UsableScope(scope) == scope.names # {} /\ scope.maxItems \in Nat \ {0}

ASSUME SpecsAreUsable ==
    /\ Specs \in Seq(Range(Specs)) /\ Specs # <<>>
    /\ \A j, k \in DOMAIN Specs : Specs[j].name = Specs[k].name => j = k
    /\ \A s \in Range(Specs) : UsableSpec(s)

ASSUME ScopeIsUsable == UsableScope(Scope)

Delivered == {"SUCCEEDED", "PARTIAL"}

\* A ProviderBatch that could be constructed, observed at times of the clock.
UsableBatch(batch) ==
    /\ batch.status \in Delivered
    /\ \A item \in Range(batch.items) : item.observed \in Nat

ASSUME BatchesAreUsable == \A c \in Names : \A batch \in Batches[c] : UsableBatch(batch)

ASSUME TimesAreUsable ==
    /\ {Baseline, Opened} \subseteq Nat
    /\ IncidentEnd \in Nat \cup {NoEnd}

VARIABLES
    now,       \* the clock
    thread,    \* thread[w][c]: the future of collector c in the run of worker w
    job,       \* job[w]: where the collection of w is
    status,    \* status of the Incident
    statuses,  \* collector_statuses of the Incident's document
    evidence,  \* Evidence stored for the Incident
    frozen     \* Evidence the Context was frozen from

vars == <<now, thread, job, status, statuses, evidence, frozen>>

NoBatch == [status |-> "none", items |-> <<>>]
NoThread == [state |-> "unborn", attempt |-> 0, deadline |-> 0, window |-> <<0, 0>>, completed |-> 0, batch |-> NoBatch]
NoJob == [pc |-> "idle", executions |-> <<>>]

Init ==
    /\ now = Opened
    /\ thread = [w \in Workers |-> [c \in Names |-> NoThread]]
    /\ job = [w \in Workers |-> NoJob]
    /\ status = "COLLECTING"
    /\ statuses = <<>>
    /\ evidence = {}
    /\ frozen = NoContext

-----------------------------------------------------------------------------
(* ResourceScope, the provider's limits and EvidenceBuilder *)

\* An exact root or a rooted dynamic name.
ContainsName(name) == name \in Scope.names \cup Scope.prefixed

\* A related subject is admitted through a Pod of the scope that references it.
ContainsSubject(item) ==
    \/ ContainsName(item.name)
    \/ /\ item.kind \in Scope.relatedKinds
       /\ item.derivation.relation = "REFERENCES"
       /\ item.derivation.target = <<item.kind, item.namespace, item.name>>
       /\ item.namespace = Scope.namespace
       /\ \E s \in item.derivation.sources :
            /\ s.kind = "Pod" /\ s.namespace = Scope.namespace /\ s.hasUid
            /\ s.cluster = item.cluster
            /\ ContainsName(s.name)

\* The baseline, or as far back as the collector looks.
BoundedWindow(c, end) ==
    LET lookback == SpecOf(c).lookback
    IN  <<IF Baseline + lookback > end THEN Baseline ELSE end - lookback, end>>

ValidBatch(batch) ==
    /\ Len(batch.items) <= Scope.maxItems
    /\ \A item \in Range(batch.items) : item.namespace = Scope.namespace /\ ContainsSubject(item)

Builds(item, window) ==
    /\ window[1] <= item.observed /\ item.observed <= window[2]
    /\ item.namespace = Scope.namespace
    /\ ContainsSubject(item)

\* The content hash, the id of the item, covers its window and collected_at, so
\* that two runs store the same draft twice.
Evidence(w, c, item) == [run |-> w, collector |-> c, item |-> item, window |-> thread[w][c].window]

-----------------------------------------------------------------------------
(* CollectorOrchestrator.collect *)

Start(w) ==
    /\ job[w].pc = "idle"
    /\ \A v \in Workers : v < w => job[v].pc # "idle"
    /\ status = "COLLECTING"
    /\ \A s \in Range(Specs) : now + s.timeout <= MaxTime
    /\ job' = [job EXCEPT ![w].pc = "await"]
    /\ LET end == IF IncidentEnd # NoEnd THEN IncidentEnd ELSE now
       IN  thread' = [thread EXCEPT ![w] =
                [c \in Names |-> [NoThread EXCEPT !.state = "running", !.attempt = 1,
                                                  !.deadline = now + SpecOf(c).timeout,
                                                  !.window = BoundedWindow(c, end)]]]
    /\ UNCHANGED <<now, status, statuses, evidence, frozen>>

(* _collect_with_retries: a thread of its own, which nobody can stop; it   *)
(* does not look at its deadline before another attempt.  Once its run has   *)
(* ended nobody holds its future.                                            *)
Collects(w, c) ==
    /\ thread[w][c].state = "running"
    /\ job[w].pc = "await"
    /\ \/ \E batch \in Batches[c] :
            thread' = [thread EXCEPT ![w][c] = [@ EXCEPT !.state = "done", !.attempt = 0,
                                                         !.batch = batch, !.completed = now]]
       \/ thread' = [thread EXCEPT ![w][c] = [@ EXCEPT !.state = "error", !.attempt = 0]]
       \/ /\ thread[w][c].attempt < SpecOf(c).attempts
          /\ thread' = [thread EXCEPT ![w][c].attempt = @ + 1]
    /\ UNCHANGED <<now, job, status, statuses, evidence, frozen>>

Awaited(w) == Specs[Len(job[w].executions) + 1].name

TimedOut == [status |-> "TIMED_OUT", evidence |-> {}]
FailedExecution == [status |-> "FAILED", evidence |-> {}]

\* Mutant: the drafts that do not build are left out.
BuiltDraftByDraft(w, c, t) ==
    [status |-> t.batch.status,
     evidence |-> {Evidence(w, c, item) : item \in {i \in Range(t.batch.items) : Builds(i, t.window)}}]

\* The batch is validated and built as a whole, or not at all.
Built(w, c, t) ==
    IF ~ValidBatch(t.batch) \/ \E item \in Range(t.batch.items) : ~Builds(item, t.window)
    THEN FailedExecution
    ELSE [status |-> t.batch.status,
          evidence |-> {Evidence(w, c, item) : item \in Range(t.batch.items)}]

Judged(w, c, t) == IF t.completed > t.deadline THEN TimedOut ELSE Built(w, c, t)

Record(w, execution) ==
    LET executions == Append(job[w].executions,
                             [collector |-> Awaited(w), status |-> execution.status,
                              evidence |-> execution.evidence])
    IN  job' = [job EXCEPT ![w].executions = executions,
                           ![w].pc = IF Len(executions) = Len(Specs) THEN "statuses" ELSE "await"]

\* future.result
Receives(w) ==
    LET c == Awaited(w)
        t == thread[w][c]
    IN  \/ t.state = "done" /\ Record(w, Judged(w, c, t))
        \/ t.state = "error" /\ Record(w, FailedExecution)

\* Mutant: no timeout.
AwaitForever(w) ==
    /\ job[w].pc = "await"
    /\ Receives(w)
    /\ UNCHANGED <<now, thread, status, statuses, evidence, frozen>>

\* ... for the rest of the budget, if there is any
Await(w) ==
    /\ job[w].pc = "await"
    /\ LET t == thread[w][Awaited(w)]
       IN  \/ Receives(w)
           \/ t.state = "running" /\ now >= t.deadline /\ Record(w, TimedOut)
    /\ UNCHANGED <<now, thread, status, statuses, evidence, frozen>>

Statuses(executions) == {e.status : e \in Range(executions)}

RunStatus(executions) ==
    IF Statuses(executions) \cap Delivered = {} THEN "FAILED"
    ELSE IF Statuses(executions) = {"SUCCEEDED"} THEN "SUCCEEDED" ELSE "PARTIAL"

RunEvidence(executions) == UNION {e.evidence : e \in Range(executions)}

-----------------------------------------------------------------------------
(* IncidentCollectionService._collect_started, after the collectors: three *)
(* transactions, of which the first and the last ask for COLLECTING.        *)

\* InvalidTransition: the run is over for this worker.
Refused(w) == job' = [job EXCEPT ![w].pc = "refused"]

ReplaceStatuses(w) ==
    /\ job[w].pc = "statuses"
    /\ IF status = "COLLECTING"
       THEN /\ statuses' = [k \in DOMAIN job[w].executions |->
                                [collector |-> job[w].executions[k].collector,
                                 status |-> job[w].executions[k].status]]
            /\ job' = [job EXCEPT ![w].pc = "store"]
       ELSE Refused(w) /\ UNCHANGED statuses
    /\ UNCHANGED <<now, thread, status, evidence, frozen>>

\* Mutant: the Incident leaves COLLECTING before its Evidence is stored.
LeaveBeforeStoring(w) ==
    /\ job[w].pc = "store"
    /\ status = "COLLECTING"
    /\ status' = IF RunStatus(job[w].executions) = "FAILED" THEN "FAILED" ELSE "LOCALIZING"
    /\ job' = [job EXCEPT ![w].pc = "finished"]
    /\ UNCHANGED <<now, thread, statuses, evidence, frozen>>

StoreEvidence(w) ==
    /\ job[w].pc = "store"
    /\ evidence' = evidence \cup RunEvidence(job[w].executions)
    /\ job' = [job EXCEPT ![w].pc = "leave"]
    /\ UNCHANGED <<now, thread, status, statuses, frozen>>

LeaveCollecting(w) ==
    /\ job[w].pc = "leave"
    /\ IF status = "COLLECTING"
       THEN /\ status' = IF RunStatus(job[w].executions) = "FAILED" THEN "FAILED" ELSE "LOCALIZING"
            /\ job' = [job EXCEPT ![w].pc = "finished"]
       ELSE Refused(w) /\ UNCHANGED status
    /\ UNCHANGED <<now, thread, statuses, evidence, frozen>>

(* The localization freezes a Context from the Evidence it lists.           *)
Freeze ==
    /\ status = "LOCALIZING"
    /\ frozen = NoContext
    /\ frozen' = evidence
    /\ UNCHANGED <<now, thread, job, status, statuses, evidence>>

\* The process dies, and its collector threads with it.
Crash(w) ==
    /\ job[w].pc \notin {"idle", "finished", "refused", "dead"}
    /\ job' = [job EXCEPT ![w] = [NoJob EXCEPT !.pc = "dead"]]
    /\ thread' = [thread EXCEPT ![w] = [c \in Names |-> NoThread]]
    /\ UNCHANGED <<now, status, statuses, evidence, frozen>>

Tick ==
    /\ now < MaxTime
    /\ now' = now + 1
    /\ UNCHANGED <<thread, job, status, statuses, evidence, frozen>>

Orchestrate(w) == Await(w) \/ ReplaceStatuses(w) \/ StoreEvidence(w) \/ LeaveCollecting(w)

CollectionNext ==
    \/ \E w \in Workers : Start(w) \/ Orchestrate(w) \/ Crash(w)
    \/ \E w \in Workers, c \in Names : Collects(w, c)
    \/ Freeze
    \/ Tick

(* The worker's own thread runs and the clock goes on.  Nothing is assumed *)
(* of the providers: a collector thread may hang for ever.                  *)
CollectionFairness ==
    /\ \A w \in Workers : WF_vars(Orchestrate(w))
    /\ WF_vars(Tick)

Spec == Init /\ [][CollectionNext]_vars /\ CollectionFairness

-----------------------------------------------------------------------------
(* A collector's outcome is its own: it counts exactly when it answered     *)
(* within its budget, however long the orchestrator was held up by the      *)
(* collectors awaited before it and whatever its thread does afterwards.    *)
PunctualityDecides ==
    \A w \in Workers : \A e \in Range(job[w].executions) :
        LET t == thread[w][e.collector]
        IN  /\ e.status \in Delivered => t.state = "done" /\ t.completed <= t.deadline
            /\ e.status = "TIMED_OUT" => ~(t.state = "done" /\ t.completed < t.deadline)

(* What is stored of one run and collector is the whole batch its provider  *)
(* returned and every draft of it is about the scope and of the window: a    *)
(* batch with one draft that is not leaves nothing behind.                   *)
BatchesAreStoredWhole ==
    \A w \in Workers : \A e \in Range(job[w].executions) :
        LET items == {v.item : v \in e.evidence}
        IN  /\ e.evidence # {} => items = Range(thread[w][e.collector].batch.items)
            /\ \A v \in e.evidence :
                /\ v.item.observed \in v.window[1]..v.window[2] /\ v.window[1] >= Baseline
                /\ v.item.namespace = Scope.namespace

(* The Context is frozen from whole runs, one of which delivered: a stale    *)
(* worker's Evidence joins it entirely or comes after it, and the Incident  *)
(* never fails for want of Evidence that the run which failed it had.        *)
FrozenFromWholeRuns ==
    /\ frozen # NoContext =>
        /\ frozen \subseteq evidence
        /\ \A w \in Workers :
            LET stored == RunEvidence(job[w].executions)
            IN  job[w].pc = "finished" => stored \subseteq frozen
        /\ \E w \in Workers : job[w].pc = "finished" /\ RunStatus(job[w].executions) # "FAILED"
    /\ status = "FAILED" =>
        \E w \in Workers : job[w].pc = "finished" /\ RunEvidence(job[w].executions) = {}

(* What makes the three inductive.  The variables have their types ... *)
Returned == UNION {Batches[c] : c \in Names}
Drafts == UNION {Range(batch.items) : batch \in Returned}

Threads == [state : {"unborn", "running", "done", "error"}, attempt : Nat, deadline : Nat,
            window : Nat \X Nat, completed : Nat, batch : Returned \cup {NoBatch}]

Stored == [run : Workers, collector : Names, item : Drafts, window : Nat \X Nat]

Executions == [collector : Names, status : Delivered \cup {"TIMED_OUT", "FAILED"}, evidence : SUBSET Stored]

Jobs == [pc : {"idle", "await", "statuses", "store", "leave", "finished", "refused", "dead"},
         executions : Seq(Executions)]

TypeOK ==
    /\ now \in Nat
    /\ thread \in [Workers -> [Names -> Threads]]
    /\ job \in [Workers -> Jobs]
    /\ status \in {"COLLECTING", "LOCALIZING", "FAILED"}
    /\ statuses \in Seq([collector : Names, status : Delivered \cup {"TIMED_OUT", "FAILED"}])
    /\ evidence \in SUBSET Stored
    /\ frozen \in (SUBSET Stored) \cup {NoContext}

(* ... a run awaits its specs one by one and has stored its Evidence before *)
(* it leaves, and its threads have windows of the Incident ...              *)
RunInOrder(w) ==
    /\ job[w].pc = "idle" => job[w].executions = <<>>
    /\ job[w].pc = "await" => Len(job[w].executions) < Len(Specs)
    /\ job[w].pc \in {"leave", "finished"} => RunEvidence(job[w].executions) \subseteq evidence
    /\ \A c \in Names :
        /\ thread[w][c].state # "unborn" => thread[w][c].window[1] >= Baseline
        /\ thread[w][c].state = "done" => thread[w][c].batch \in Returned

(* ... an execution is never contradicted by what its thread does after it, *)
(* and carries the whole batch or nothing ...                               *)
ExecutionStands(w, e) ==
    LET t == thread[w][e.collector]
    IN  /\ e.status \in Delivered =>
            /\ t.state = "done" /\ t.completed <= t.deadline
            /\ \A item \in Range(t.batch.items) : Builds(item, t.window)
            /\ e.evidence = {Evidence(w, e.collector, item) : item \in Range(t.batch.items)}
        /\ e.status \notin Delivered => e.evidence = {}
        /\ e.status = "TIMED_OUT" =>
            /\ t.state = "running" => now >= t.deadline
            /\ t.state = "done" => t.completed >= t.deadline

RunIsSound(w) == RunInOrder(w) /\ \A e \in Range(job[w].executions) : ExecutionStands(w, e)

(* ... and a finished run is what moved the Incident on. *)
SomeRunFinished ==
    /\ frozen # NoContext => status = "LOCALIZING"
    /\ status = "LOCALIZING" =>
        \E w \in Workers : job[w].pc = "finished" /\ RunStatus(job[w].executions) # "FAILED"
    /\ status = "FAILED" =>
        \E w \in Workers : job[w].pc = "finished" /\ RunStatus(job[w].executions) = "FAILED"

CollectionInv ==
    /\ TypeOK
    /\ \A w \in Workers : RunIsSound(w)
    /\ SomeRunFinished
    /\ FrozenFromWholeRuns

(* Every run comes to its end although a provider hangs, in the time of the *)
(* longest budget, unless its process dies.                                  *)
HungProvidersDoNotHold ==
    \A w \in Workers : job[w].pc = "await" ~> job[w].pc \in {"finished", "refused", "dead"}
=============================================================================
