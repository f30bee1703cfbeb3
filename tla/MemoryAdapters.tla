--------------------------- MODULE MemoryAdapters --------------------------
(***************************************************************************)
(* The in-memory adapters behind the same ports as PostgreSQL: one         *)
(* InMemoryIncidentRepository of repository.py and the three queues of     *)
(* incident_work.py.  The tests of the services run on them, so whatever   *)
(* those tests establish is established of this specification, and it      *)
(* carries over to production as far as the database does nothing these    *)
(* adapters do not do: IncidentPipeline is shown to implement it.          *)
(*                                                                         *)
(* Every method takes the one RLock of its object; a queue calls the       *)
(* repository inside its own lock.  Nothing here enqueues by itself:       *)
(* the caller that moves an Incident enqueues it for the next stage.       *)
(***************************************************************************)
EXTENDS Naturals

CONSTANTS
    Incidents,
    MaxAttempts

VARIABLES
    status, collected, evidence, checkpoint, contexts, audits, reports,
    items,      \* _items of the three queues: stage -> Incident -> item
    pinned      \* context_id of the analysis items

documents == <<collected, evidence, checkpoint, contexts, audits, reports>>
vars == <<status, documents, items, pinned>>

-----------------------------------------------------------------------------
(* InMemoryIncidentRepository                                              *)

AllowedTransitions ==
    [RECEIVED   |-> {"COLLECTING", "FAILED"},
     COLLECTING |-> {"LOCALIZING", "PARTIAL", "FAILED"},
     LOCALIZING |-> {"ANALYZING", "PARTIAL", "FAILED"},
     ANALYZING  |-> {"REPORTED", "PARTIAL", "FAILED"}]

NoItem == [state |-> "ABSENT", attempts |-> 0, lease |-> "none"]
NewItem == [state |-> "READY", attempts |-> 0, lease |-> "none"]

(* dict.setdefault: an item that is there already stays as it is.          *)
Enqueued(stage, i) ==
    [items EXCEPT ![stage][i] = IF @ = NoItem THEN NewItem ELSE @]

(* An analysis item may be enqueued again only for the Context it has.     *)
EnqueueAnalysis(i, context) ==
    /\ context \in contexts'[i]
    /\ items["analysis"][i] # NoItem => pinned[i] = context
    /\ items' = Enqueued("analysis", i)
    /\ pinned' = [pinned EXCEPT ![i] = context]

Create(i) ==
    /\ status[i] = "NEW"
    /\ status' = [status EXCEPT ![i] = "RECEIVED"]
    /\ items' = Enqueued("collection", i)
    /\ UNCHANGED <<documents, pinned>>

Moved(i, next) == [status EXCEPT ![i] = next]

MoveAndEnqueue(i, next) ==
    /\ status[i] \in DOMAIN AllowedTransitions
    /\ next \in AllowedTransitions[status[i]]
    /\ status' = Moved(i, next)
    /\ CASE next = "LOCALIZING" -> items' = Enqueued("localization", i) /\ UNCHANGED pinned
         [] next = "ANALYZING"  ->
                \/ \E c \in contexts[i] : EnqueueAnalysis(i, c)
                \/ UNCHANGED <<items, pinned>>
         [] OTHER               -> UNCHANGED <<items, pinned>>
    /\ UNCHANGED documents

ReplaceCollectorStatuses(i) ==
    /\ status[i] = "COLLECTING"
    /\ \E n \in 1..MaxAttempts : collected' = [collected EXCEPT ![i] = n]
    /\ UNCHANGED <<status, evidence, checkpoint, contexts, audits, reports, items, pinned>>

StoreEvidence(i) ==
    /\ \E n \in 1..MaxAttempts :
            evidence' = [evidence EXCEPT ![i] = @ \cup {<<"collection", n>>}]
    /\ UNCHANGED <<status, collected, checkpoint, contexts, audits, reports, items, pinned>>

(* store_localization_collection: the same batch again is answered with    *)
(* the stored checkpoint, another one is refused.  The selection must rest *)
(* on feature Evidence that is stored; the batch may be empty.             *)
StoreLocalizationCollection(i, n) ==
    /\ status[i] = "LOCALIZING"
    /\ checkpoint[i] = 0
    /\ contexts[i] = {}
    /\ evidence[i] # {}
    /\ checkpoint' = [checkpoint EXCEPT ![i] = n]
    /\ \E batch \in SUBSET {<<"localization", n>>} :
            evidence' = [evidence EXCEPT ![i] = @ \cup batch]
    /\ UNCHANGED <<status, collected, contexts, audits, reports, items, pinned>>

StoreContext(i) ==
    /\ status[i] # "NEW"
    /\ evidence[i] # {}
    /\ \E n \in 1..MaxAttempts : contexts' = [contexts EXCEPT ![i] = @ \cup {n}]
    /\ \/ UNCHANGED <<items, pinned>>
       \/ /\ status[i] = "ANALYZING"
          /\ \E c \in contexts'[i] : EnqueueAnalysis(i, c)
    /\ UNCHANGED <<status, collected, evidence, checkpoint, audits, reports>>

StoreReport(i) ==
    /\ \E n \in 1..MaxAttempts, c \in contexts[i] :
            reports' = [reports EXCEPT ![i] = @ \cup {[claim |-> n, context |-> c]}]
    /\ UNCHANGED <<status, collected, evidence, checkpoint, contexts, audits, items, pinned>>

StoreAgentRun(i) ==
    /\ contexts[i] # {}
    /\ \E n \in 1..MaxAttempts, result \in {"SUCCEEDED", "REJECTED"} :
            /\ audits[i][n] \in {"none", result}
            /\ audits' = [audits EXCEPT ![i][n] = result]
    /\ UNCHANGED <<status, collected, evidence, checkpoint, contexts, reports, items, pinned>>

Repository(i) ==
    \/ Create(i)
    \/ \E next \in {"COLLECTING", "LOCALIZING", "ANALYZING", "REPORTED", "PARTIAL", "FAILED"} :
            MoveAndEnqueue(i, next)
    \/ ReplaceCollectorStatuses(i) \/ StoreEvidence(i)
    \/ StoreContext(i) \/ StoreReport(i) \/ StoreAgentRun(i)

-----------------------------------------------------------------------------
(* What the three queues have in common.  The n-th claim of an item is the *)
(* one with the n-th claim_token.                                          *)

Ready(stage, i) == items[stage][i].state = "READY"

Overdue(stage, i) == items[stage][i].state = "RUNNING" /\ items[stage][i].lease = "expired"

Takeable(stage, i) == Overdue(stage, i) /\ items[stage][i].attempts < MaxAttempts

CurrentItem(stage, i, n) ==
    items[stage][i].state = "RUNNING" /\ items[stage][i].attempts = n

Taken(stage, i) ==
    [items EXCEPT ![stage][i] =
        [state |-> "RUNNING", attempts |-> @.attempts + 1, lease |-> "live"]]

SettledAs(item, state) == [item EXCEPT !.state = state, !.lease = "none"]

Renew(stage, i, n) ==
    /\ CurrentItem(stage, i, n)
    /\ items' = [items EXCEPT ![stage][i].lease = "live"]
    /\ UNCHANGED <<status, documents, pinned>>

Complete(stage, i, n, outcome, allowed) ==
    /\ CurrentItem(stage, i, n)
    /\ status[i] \in allowed
    /\ items' = [items EXCEPT ![stage][i] = SettledAs(@, outcome)]
    /\ UNCHANGED <<status, documents, pinned>>

Fail(stage, i, n, active) ==
    /\ CurrentItem(stage, i, n)
    /\ status[i] \in {active, "FAILED"}
    /\ status' = Moved(i, "FAILED")
    /\ items' = [items EXCEPT ![stage][i] = SettledAs(@, "FAILED")]
    /\ UNCHANGED <<documents, pinned>>

(* reap_exhausted walks over all items of the queue, the continuous agent's *)
(* over those of the eligible Incidents.                                   *)
Reap(stage, active, done, scope) ==
    LET moved == {i \in scope : Overdue(stage, i) /\ status[i] \in done}
        failed == {i \in scope : Overdue(stage, i) /\ status[i] = "FAILED"}
        spent == {i \in scope : /\ Overdue(stage, i)
                                /\ status[i] = active
                                /\ items[stage][i].attempts >= MaxAttempts}
    IN
    /\ status' = [i \in Incidents |-> IF i \in spent THEN "FAILED" ELSE status[i]]
    /\ items' = [items EXCEPT ![stage] = [i \in Incidents |->
                    CASE i \in moved          -> SettledAs(@[i], "SUCCEEDED")
                      [] i \in failed \cup spent -> SettledAs(@[i], "FAILED")
                      [] OTHER                -> @[i]]]
    /\ UNCHANGED <<documents, pinned>>

-----------------------------------------------------------------------------
(* claim_next of the collection queue moves a RECEIVED Incident itself and *)
(* raises when the Incident of the item is in any other status; the other  *)
(* two pass such an item over.                                             *)
ClaimCollection(i) ==
    /\ \/ Ready("collection", i) /\ status[i] = "RECEIVED"
       \/ Takeable("collection", i) /\ status[i] = "COLLECTING"
    /\ status' = Moved(i, "COLLECTING")
    /\ items' = Taken("collection", i)
    /\ UNCHANGED <<documents, pinned>>

ClaimLocalization(i) ==
    /\ Ready("localization", i) \/ Takeable("localization", i)
    /\ status[i] = "LOCALIZING"
    /\ items' = Taken("localization", i)
    /\ UNCHANGED <<status, documents, pinned>>

ClaimAnalysis(i) ==
    /\ Ready("analysis", i) \/ Takeable("analysis", i)
    /\ status[i] = "ANALYZING"
    /\ items' = Taken("analysis", i)
    /\ UNCHANGED <<status, documents, pinned>>

(* store_collection asks for a claim whose lease has not run out.          *)
StoreCollection(i, n) ==
    /\ CurrentItem("localization", i, n)
    /\ ~Overdue("localization", i)
    /\ StoreLocalizationCollection(i, n)

CollectionQueue(i, n) ==
    \/ ClaimCollection(i)
    \/ Renew("collection", i, n)
    \/ \E outcome \in {"SUCCEEDED", "FAILED"} :
            Complete("collection", i, n, outcome,
                     {"LOCALIZING", "ANALYZING", "REPORTED", "PARTIAL", "FAILED"})
    \/ Fail("collection", i, n, "COLLECTING")
    \/ Reap("collection", "COLLECTING",
            {"LOCALIZING", "ANALYZING", "REPORTED", "PARTIAL"}, Incidents)

LocalizationQueue(i, n) ==
    \/ ClaimLocalization(i)
    \/ StoreCollection(i, n)
    \/ Renew("localization", i, n)
    \/ Complete("localization", i, n, "SUCCEEDED", {"ANALYZING"})
    \/ Fail("localization", i, n, "LOCALIZING")
    \/ Reap("localization", "LOCALIZING", {"ANALYZING"}, Incidents)

AnalysisQueue(i, n) ==
    \/ ClaimAnalysis(i)
    \/ Renew("analysis", i, n)
    \/ Complete("analysis", i, n, "SUCCEEDED", {"REPORTED"})
    \/ Fail("analysis", i, n, "ANALYZING")
    \/ \E scope \in SUBSET Incidents :
            Reap("analysis", "ANALYZING", {"REPORTED", "PARTIAL"}, scope)

(* lease_expires_at <= now, for one item more.                             *)
LeaseRunsOut(stage, i) ==
    /\ items[stage][i].lease = "live"
    /\ items' = [items EXCEPT ![stage][i].lease = "expired"]
    /\ UNCHANGED <<status, documents, pinned>>

Init ==
    /\ status = [i \in Incidents |-> "NEW"]
    /\ collected = [i \in Incidents |-> 0]
    /\ evidence = [i \in Incidents |-> {}]
    /\ checkpoint = [i \in Incidents |-> 0]
    /\ contexts = [i \in Incidents |-> {}]
    /\ audits = [i \in Incidents |-> [n \in 1..MaxAttempts |-> "none"]]
    /\ reports = [i \in Incidents |-> {}]
    /\ items = [s \in {"collection", "localization", "analysis"} |->
                    [i \in Incidents |-> NoItem]]
    /\ pinned = [i \in Incidents |-> 0]

(* A method that refuses a call raises before it has changed anything.     *)
Refuse == UNCHANGED vars

Next ==
    \/ Refuse
    \/ \E i \in Incidents :
        \/ \E s \in {"collection", "localization", "analysis"} : LeaseRunsOut(s, i)
        \/ Repository(i)
        \/ \E n \in 1..MaxAttempts :
                CollectionQueue(i, n) \/ LocalizationQueue(i, n) \/ AnalysisQueue(i, n)

Spec == Init /\ [][Next]_vars
=============================================================================
