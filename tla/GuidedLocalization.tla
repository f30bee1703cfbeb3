-------------------------- MODULE GuidedLocalization --------------------------
(***************************************************************************)
(* Localization of one profiled Incident (tools/run_incident_worker.py,     *)
(* krca_pipeline.py, resolution.py, localization_collection.py,             *)
(* localization.py): a plan that turns the KRCA ranking into seeds of the    *)
(* StateGraph, one bounded collection from the selected downstream services  *)
(* behind a checkpoint, and the Context frozen on that scope.  Each action is *)
(* one transaction or one query; workers whose lease has expired go on.      *)
(*                                                                         *)
(* Meanwhile other localizations and the reconciler change the graph, the    *)
(* alert may resolve, and a collection worker that lost its claim may still  *)
(* store the Evidence of its run.  The drilldown is a function of the stored  *)
(* features, so it is run once, before, and every plan reads its result.     *)
(***************************************************************************)
EXTENDS KRCADrilldown

CONSTANTS
    Attempts,       \* claims of the localization work: 1..max_attempts
    Entities,       \* Service Entities: [id, service, identity]
    Steady,         \* those no other writer adds or retires
    Collected,      \* window end of the features of the Incident's collection
    Lease,          \* lease_seconds
    MaxTime,        \* bound on the clock
    NoEnd           \* the alert is still firing

ASSUME GuidedConstants ==
    /\ IsFiniteSet(Attempts) /\ Attempts = 1..Cardinality(Attempts)
    /\ Lease \in Nat \ {0} /\ Collected \in Nat
    /\ Steady \subseteq Entities
    /\ \A x, y \in Entities : x.id = y.id => x = y

VARIABLES
    now,         \* the clock
    incidentEnd, \* incident_end of the Incident's window
    status,      \* status of the Incident
    initial,     \* status of the kubernetes collector at the end of collection
    merged,      \* its status in the Incident's document now
    featureRuns, \* window ends of the collection runs that stored the features
    visible,     \* Service Entities of the StateGraph in the window
    work,        \* row of the localization queue
    job,         \* job[n]: the worker of claim n
    checkpoint,  \* LOCALIZATION_COLLECTION_COMPLETED audit event
    evidence,    \* services whose workload Evidence is stored
    contexts     \* frozen Contexts

guidedVars == <<now, incidentEnd, status, initial, merged, featureRuns, visible, work, job,
                checkpoint, evidence, contexts>>

Source == Service[Alerting]

\* FAILED goes the way of TIMED_OUT.
CollectorStatuses == {"SUCCEEDED", "PARTIAL", "TIMED_OUT"}

NoCheckpoint == [outcome |-> "none"]

NoJob == [pc |-> "idle", known |-> NoEnd, expires |-> 0, end |-> 0, features |-> <<>>, seeds |-> <<>>,
          services |-> <<>>, via |-> "none", downstream |-> "none", failed |-> FALSE, evidence |-> {}]

GuidedInit ==
    /\ now = Collected
    /\ incidentEnd \in {NoEnd, Collected}
    /\ status = "LOCALIZING"
    /\ initial \in CollectorStatuses
    /\ merged = initial
    /\ featureRuns \in {<<>>, <<Collected>>}
    /\ visible = Steady
    /\ work = [state |-> "READY", claim |-> 0, expires |-> 0]
    /\ job = [n \in Attempts |-> NoJob]
    /\ checkpoint = NoCheckpoint
    /\ evidence = {Source}
    /\ contexts = {}

-----------------------------------------------------------------------------
(* ServiceToEntityResolver *)

Exact(service, identity) == {x \in visible : x.service = service /\ x.identity = identity}

\* The logical Service, or else the Kubernetes Service; the two lookups as one.
Found(service) ==
    IF Exact(service, "logical-service") # {} THEN Exact(service, "logical-service")
    ELSE Exact(service, "kubernetes-resource")

Resolves(service) == Cardinality(Found(service)) = 1

Seed(service) == (CHOOSE x \in Found(service) : TRUE).id

-----------------------------------------------------------------------------
Goto(n, pc) == job' = [job EXCEPT ![n].pc = pc]

Ends(n) == job' = [job EXCEPT ![n] = [NoJob EXCEPT !.pc = "done"]]

LocalizationSteps ==
    {"plan", "resolve_top", "resolve_source", "select", "collect", "store", "renew", "freeze",
     "list", "store_context", "leave", "mark_failed", "complete", "fail"}

Active(n) == job[n].pc \in LocalizationSteps

Current(n) == work.state = "RUNNING" /\ work.claim = n

ClaimLocalization(n) ==
    /\ n = work.claim + 1
    /\ status = "LOCALIZING"
    /\ work.state = "READY" \/ (work.state = "RUNNING" /\ work.expires <= now)
    /\ work' = [state |-> "RUNNING", claim |-> n, expires |-> now + Lease]
    /\ job' = [job EXCEPT ![n] = [NoJob EXCEPT !.pc = "plan", !.known = incidentEnd, !.expires = now + Lease]]
    /\ UNCHANGED <<now, incidentEnd, status, initial, merged, featureRuns, visible, checkpoint, evidence, contexts>>

\* _validated_feature_evidence: every edge of the profile once, of one window that lies
\* within the request's.
FeaturesAreUsable(end) == Len(featureRuns) = 1 /\ featureRuns[1] <= end

\* The request's window ends where the claimed Incident does, or now.
RequestEnd(n) == IF job[n].known # NoEnd /\ job[n].known <= now THEN job[n].known ELSE now

Plan(n) ==
    /\ job[n].pc = "plan"
    /\ IF ~FeaturesAreUsable(RequestEnd(n)) THEN job' = [job EXCEPT ![n].features = featureRuns, ![n].pc = "fail"]
       ELSE job' = [job EXCEPT ![n].end = RequestEnd(n), ![n].features = featureRuns,
                               ![n].pc = IF RequiresFallback(ranking) THEN "resolve_source" ELSE "resolve_top"]
    /\ UNCHANGED <<now, incidentEnd, status, initial, merged, featureRuns, visible, work, checkpoint, evidence, contexts>>

Top == [k \in DOMAIN ranking.top |-> Service[ranking.top[k].api]]

\* Mutant: the services that resolve now are taken.
ResolveSomeTop(n) ==
    /\ job[n].pc = "resolve_top"
    /\ LET found == SelectSeq(Top, Resolves)
       IN  IF found # <<>>
           THEN job' = [job EXCEPT ![n].seeds = [k \in DOMAIN found |-> Seed(found[k])],
                                   ![n].services = found,
                                   ![n].pc = "select", ![n].via = "krca-top-services"]
           ELSE Goto(n, "resolve_source")
    /\ UNCHANGED <<now, incidentEnd, status, initial, merged, featureRuns, visible, work, checkpoint, evidence, contexts>>

\* KRCATopServiceScopeResolver: one service after the other; a scope when all resolve.
ResolveTop(n) ==
    /\ job[n].pc = "resolve_top"
    /\ LET service == Top[Len(job[n].services) + 1]
           services == Append(job[n].services, service)
           seeds == IF Resolves(service) THEN Append(job[n].seeds, Seed(service)) ELSE job[n].seeds
           complete == Len(seeds) = Len(Top)
       IN  job' = [job EXCEPT ![n].services = services, ![n].seeds = seeds,
                              ![n].pc = IF Len(services) < Len(Top) THEN "resolve_top"
                                        ELSE IF complete THEN "select" ELSE "resolve_source",
                              ![n].via = IF Len(services) = Len(Top) /\ complete
                                         THEN "krca-top-services" ELSE "none"]
    /\ UNCHANGED <<now, incidentEnd, status, initial, merged, featureRuns, visible, work, checkpoint, evidence, contexts>>

\* The fallback needs no further collection. An unresolved source: ENTITY_...
ResolveSource(n) ==
    /\ job[n].pc = "resolve_source"
    /\ IF Resolves(Source)
       THEN job' = [job EXCEPT ![n].seeds = <<Seed(Source)>>, ![n].services = <<Source>>,
                               ![n].via = "source-entity-krca-fallback", ![n].pc = "freeze"]
       ELSE Goto(n, "fail")
    /\ UNCHANGED <<now, incidentEnd, status, initial, merged, featureRuns, visible, work, checkpoint, evidence, contexts>>

\* KRCAGuidedLocalizationPlan.additional_services, and the features they rest on
Additional(n) ==
    LET services == job[n].services
    IN  Picked(services, {k \in DOMAIN services : services[k] # Source})

Selection(n) == [services |-> Additional(n), features |-> job[n].features]

\* _collect_krca_candidates
Select(n) ==
    /\ job[n].pc = "select"
    /\ Goto(n, IF Additional(n) = <<>> THEN "freeze"
               ELSE IF checkpoint = NoCheckpoint THEN "collect"
               ELSE IF checkpoint.selection = Selection(n) THEN "renew" ELSE "fail")
    /\ UNCHANGED <<now, incidentEnd, status, initial, merged, featureRuns, visible, work, checkpoint, evidence, contexts>>

CollectCandidates(n) ==
    /\ job[n].pc = "collect"
    /\ IF status # "LOCALIZING" THEN Goto(n, "fail")
       ELSE \E outcome \in CollectorStatuses :
                job' = [job EXCEPT ![n].downstream = outcome, ![n].pc = "store"]
    /\ UNCHANGED <<now, incidentEnd, status, initial, merged, featureRuns, visible, work, checkpoint, evidence, contexts>>

\* Mutant: the later status wins.
LaterStatus(old, new) == new

Delivers(outcome) == outcome \in {"SUCCEEDED", "PARTIAL"}

\* prepare_localization_collection, for a collector that ran in both passes
MergedStatus(old, new) ==
    IF old = "SUCCEEDED" /\ new = "SUCCEEDED" THEN "SUCCEEDED"
    ELSE IF Delivers(old) \/ Delivers(new) THEN "PARTIAL" ELSE "FAILED"

\* The lease queue's fence, then the repository's own conditions, of which the window is
\* compared with the Incident as it is now.
MayStore(n) ==
    /\ Current(n) /\ work.expires > now
    /\ status = "LOCALIZING"
    /\ job[n].end <= now
    /\ incidentEnd = NoEnd \/ job[n].end <= incidentEnd
    /\ checkpoint = NoCheckpoint
    /\ contexts = {}

Stored(outcome, services) == IF Delivers(outcome) THEN Range(services) ELSE {}

\* Evidence, statuses and checkpoint in one transaction; its acknowledgement may be lost.
StoreCandidates(n) ==
    /\ job[n].pc = "store"
    /\ IF MayStore(n)
       THEN /\ checkpoint' = [selection |-> Selection(n), outcome |-> job[n].downstream]
            /\ evidence' = evidence \cup Stored(job[n].downstream, Additional(n))
            /\ merged' = MergedStatus(merged, job[n].downstream)
            /\ Goto(n, "renew") \/ Goto(n, "fail")
       ELSE Goto(n, "fail") /\ UNCHANGED <<checkpoint, evidence, merged>>
    /\ UNCHANGED <<now, incidentEnd, status, initial, featureRuns, visible, work, contexts>>

\* The lease the claim was given, then the row.
RenewLease(n) ==
    /\ job[n].pc = "renew"
    /\ IF now < job[n].expires /\ Current(n)
       THEN work' = [work EXCEPT !.expires = now + Lease] /\ Goto(n, "freeze")
       ELSE Goto(n, "fail") /\ UNCHANGED work
    /\ UNCHANGED <<now, incidentEnd, status, initial, merged, featureRuns, visible, checkpoint, evidence, contexts>>

\* _collector_failures
Failures(s) == s # "SUCCEEDED"

\* localize_incident: outside its try, the status and the scope against the Incident
FreezeScope(n) ==
    /\ job[n].pc = "freeze"
    /\ IF status = "LOCALIZING" /\ (incidentEnd = NoEnd \/ job[n].end <= incidentEnd)
       THEN job' = [job EXCEPT ![n].failed = Failures(merged), ![n].pc = "list"]
       ELSE Goto(n, "fail")
    /\ UNCHANGED <<now, incidentEnd, status, initial, merged, featureRuns, visible, work, checkpoint, evidence, contexts>>

\* The Evidence is listed, projected, ingested and cut to the scope.
ListEvidence(n) ==
    /\ job[n].pc = "list"
    /\ \/ job' = [job EXCEPT ![n].evidence = evidence, ![n].pc = "store_context"]
       \/ Goto(n, "mark_failed")
    /\ UNCHANGED <<now, incidentEnd, status, initial, merged, featureRuns, visible, work, checkpoint, evidence, contexts>>

StoreContext(n) ==
    /\ job[n].pc = "store_context"
    /\ \/ /\ contexts' = contexts \cup {[claim |-> n, via |-> job[n].via, services |-> job[n].services,
                                         seeds |-> job[n].seeds, evidence |-> job[n].evidence,
                                         failed |-> job[n].failed]}
          /\ Goto(n, "leave") \/ Goto(n, "mark_failed")
       \/ Goto(n, "mark_failed") /\ UNCHANGED contexts
    /\ UNCHANGED <<now, incidentEnd, status, initial, merged, featureRuns, visible, work, checkpoint, evidence>>

LeaveLocalizing(n) ==
    /\ job[n].pc = "leave"
    /\ IF status = "LOCALIZING"
       THEN status' = "ANALYZING" /\ Goto(n, "complete")
       ELSE Goto(n, "mark_failed") /\ UNCHANGED status
    /\ UNCHANGED <<now, incidentEnd, initial, merged, featureRuns, visible, work, checkpoint, evidence, contexts>>

MarkFailed(n) ==
    /\ job[n].pc = "mark_failed"
    /\ status' = IF status = "LOCALIZING" THEN "FAILED" ELSE status
    /\ Goto(n, "fail")
    /\ UNCHANGED <<now, incidentEnd, initial, merged, featureRuns, visible, work, checkpoint, evidence, contexts>>

CompleteWork(n) ==
    /\ job[n].pc = "complete"
    /\ IF Current(n) /\ status = "ANALYZING"
       THEN work' = [work EXCEPT !.state = "SUCCEEDED"] /\ Ends(n)
       ELSE UNCHANGED work /\ Goto(n, "fail")
    /\ UNCHANGED <<now, incidentEnd, status, initial, merged, featureRuns, visible, checkpoint, evidence, contexts>>

FailWork(n) ==
    /\ job[n].pc = "fail"
    /\ IF Current(n) /\ status \in {"LOCALIZING", "FAILED"}
       THEN work' = [work EXCEPT !.state = "FAILED"] /\ status' = "FAILED"
       ELSE UNCHANGED <<work, status>>
    /\ Ends(n)
    /\ UNCHANGED <<now, incidentEnd, initial, merged, featureRuns, visible, checkpoint, evidence, contexts>>

-----------------------------------------------------------------------------
\* A process dies; an exception anywhere outside localize_incident's try.
Crash(n) ==
    /\ Active(n)
    /\ Ends(n)
    /\ UNCHANGED <<now, incidentEnd, status, initial, merged, featureRuns, visible, work, checkpoint, evidence, contexts>>

ReapExhausted ==
    /\ work.state = "RUNNING" /\ work.expires <= now
    /\ \/ status = "LOCALIZING" /\ work.claim = Cardinality(Attempts)
       \/ status # "LOCALIZING"
    /\ status' = IF status = "LOCALIZING" THEN "FAILED" ELSE status
    /\ work' = [work EXCEPT !.state = IF status = "ANALYZING" THEN "SUCCEEDED" ELSE "FAILED"]
    /\ UNCHANGED <<now, incidentEnd, initial, merged, featureRuns, visible, job, checkpoint, evidence, contexts>>

\* record_alert_resolution: endsAt is Prometheus' and lies before the webhook's arrival.
AlertResolves ==
    /\ incidentEnd = NoEnd
    /\ incidentEnd' \in 1..now
    /\ UNCHANGED <<now, status, initial, merged, featureRuns, visible, work, job, checkpoint, evidence, contexts>>

\* store_evidence looks neither at the claim nor at the status.
StaleCollectionStores ==
    /\ Len(featureRuns) < 2
    /\ featureRuns' = Append(featureRuns, Collected)
    /\ UNCHANGED <<now, incidentEnd, status, initial, merged, visible, work, job, checkpoint, evidence, contexts>>

OthersChangeGraph ==
    /\ \E x \in Entities \ Steady :
        visible' = IF x \in visible THEN visible \ {x} ELSE visible \cup {x}
    /\ UNCHANGED <<now, incidentEnd, status, initial, merged, featureRuns, work, job, checkpoint, evidence, contexts>>

Tick ==
    /\ now < MaxTime
    /\ now' = now + 1
    /\ UNCHANGED <<incidentEnd, status, initial, merged, featureRuns, visible, work, job, checkpoint, evidence, contexts>>

Localize(n) ==
    \/ ClaimLocalization(n) \/ Plan(n) \/ ResolveTop(n) \/ ResolveSource(n) \/ Select(n)
    \/ CollectCandidates(n) \/ StoreCandidates(n) \/ RenewLease(n) \/ FreezeScope(n)
    \/ ListEvidence(n) \/ StoreContext(n) \/ LeaveLocalizing(n) \/ MarkFailed(n)
    \/ CompleteWork(n) \/ FailWork(n) \/ Crash(n)

GuidedNext ==
    \/ \E n \in Attempts : Localize(n)
    \/ ReapExhausted
    \/ AlertResolves
    \/ StaleCollectionStores
    \/ OthersChangeGraph
    \/ Tick

LocalizationInit == DrilldownInit /\ GuidedInit

LocalizationNext ==
    \/ DrilldownNext /\ UNCHANGED guidedVars
    \/ ranking # NoRanking /\ GuidedNext /\ UNCHANGED drilldownVars

LocalizationSpec == LocalizationInit /\ [][LocalizationNext]_<<drilldownVars, guidedVars>>

-----------------------------------------------------------------------------
(* A localization that is retried after its downstream collection was stored *)
(* selects what the checkpoint holds, although the graph has changed since:   *)
(* "downstream collection checkpoint selection changed" is never raised, and *)
(* nothing is collected twice.  (Worker: a changed selection fails the        *)
(* Incident for good.)                                                       *)
SelectionIsStable ==
    \A n \in Attempts :
        job[n].pc = "select" /\ Additional(n) # <<>> /\ checkpoint # NoCheckpoint =>
            checkpoint.selection = Selection(n)

(* A Context on the Top-N services is frozen from the Evidence of their one  *)
(* collection and names the collectors that failed in either pass; and all   *)
(* of its seeds are in it, one for each service.  So no Context looks at     *)
(* a downstream service nobody asked about, or hides that asking failed.     *)
DownstreamBeforeFreeze ==
    \A c \in contexts :
        LET downstream == {s \in Range(c.services) : s # Source}
        IN  c.via = "krca-top-services" =>
            /\ Range(c.services) = Range(Top) /\ Len(c.seeds) = Len(Top) /\ IsInjective(c.seeds)
            /\ downstream # {} =>
                /\ checkpoint # NoCheckpoint /\ Range(checkpoint.selection.services) = downstream
                /\ c.evidence = {Source} \cup IF Delivers(checkpoint.outcome) THEN downstream ELSE {}
                /\ c.failed <=> initial # "SUCCEEDED" \/ checkpoint.outcome # "SUCCEEDED"

(* "Use KRCA Top-N seeds when complete; otherwise retain exact source scope" *)
(* (krca_pipeline.py, KRCAGuidedIncidentLocalizationService): while the      *)
(* source Service resolves, a plan that has found features ends in a scope.  *)
SeedsOrSourceScope ==
    \A n \in Attempts :
        job[n].pc = "fail" /\ job[n].via = "none" => job[n].features = <<>> \/ ~Resolves(Source)

-----------------------------------------------------------------------------
(* What makes both inductive.  The variables have their types ... *)
Names == {Service[a] : a \in APIs}

Jobs ==
    [pc : LocalizationSteps \cup {"idle", "done"}, known : Int \cup {NoEnd}, expires : Int, end : Int,
     features : Seq({Collected}), seeds : Seq({x.id : x \in Entities}), services : Seq(Names),
     via : {"none", "krca-top-services", "source-entity-krca-fallback"},
     downstream : CollectorStatuses \cup {"none"}, failed : BOOLEAN, evidence : SUBSET Names]

GuidedTypeOK ==
    /\ now \in Int /\ incidentEnd \in Int \cup {NoEnd}
    /\ featureRuns \in Seq({Collected})
    /\ visible \subseteq Entities
    /\ work \in [state : {"READY", "RUNNING", "SUCCEEDED", "FAILED"}, claim : Int, expires : Int]
    /\ job \in [Attempts -> Jobs]
    /\ evidence \subseteq Names

(* ... the checkpoint is written once, from the ranking, and what it says is  *)
(* in the Incident's document and Evidence ...                               *)
TopSelection ==
    [services |-> Picked(Top, {k \in DOMAIN Top : Top[k] # Source}), features |-> <<Collected>>]

Downstream == {s \in Range(Top) : s # Source}

CheckpointIsTheTop ==
    \/ checkpoint = NoCheckpoint /\ merged = initial /\ evidence = {Source}
    \/ /\ checkpoint # NoCheckpoint
       /\ checkpoint.selection = TopSelection
       /\ merged = MergedStatus(initial, checkpoint.outcome)
       /\ evidence = {Source} \cup Stored(checkpoint.outcome, checkpoint.selection.services)

(* ... what is built on the Top-N takes all of it, and what it says of the   *)
(* downstream collection is what the checkpoint says ...                     *)
OnTop(services, seeds) == services = Top /\ Len(seeds) = Len(Top) /\ IsInjective(seeds)

Asked == Downstream = {} \/ checkpoint # NoCheckpoint

TellsFailures(failed) ==
    Downstream # {} => (failed <=> initial # "SUCCEEDED" \/ checkpoint.outcome # "SUCCEEDED")

HasCollected(found) == Downstream # {} => found = evidence

\* The seeds found so far are those of the services asked so far.
SeedsSoFar(services, seeds) ==
    /\ Len(services) < Len(Top) /\ Len(seeds) <= Len(services)
    /\ \A k \in DOMAIN services : services[k] = Top[k]
    /\ Len(seeds) = Len(services) =>
        \A k \in DOMAIN seeds : \E x \in Entities : x.id = seeds[k] /\ x.service = Top[k]

JobIsOnItsWay(j) ==
    /\ j.pc = "plan" => j.services = <<>> /\ j.seeds = <<>>
    /\ j.pc = "resolve_top" => SeedsSoFar(j.services, j.seeds)
    /\ j.pc \in {"resolve_top", "resolve_source", "select"} => j.features = <<Collected>>
    /\ j.pc \in {"plan", "resolve_top", "resolve_source"} => j.via = "none"
    /\ j.via = "krca-top-services" => OnTop(j.services, j.seeds) /\ j.features = <<Collected>>
    /\ j.pc \in {"select", "collect", "store", "renew"} => j.via = "krca-top-services"
    /\ j.pc = "renew" => checkpoint # NoCheckpoint
    /\ j.pc \in {"freeze", "list", "store_context"} /\ j.via = "krca-top-services" => Asked
    /\ j.pc \in {"list", "store_context"} /\ j.via = "krca-top-services" => TellsFailures(j.failed)
    /\ j.pc = "store_context" /\ j.via = "krca-top-services" => HasCollected(j.evidence)

ContextIsWhole(c) ==
    c.via = "krca-top-services" =>
        OnTop(c.services, c.seeds) /\ Asked /\ TellsFailures(c.failed) /\ HasCollected(c.evidence)

(* ... and nothing of this begins before the drilldown has ended. *)
GuidedInv ==
    /\ GuidedTypeOK /\ CheckpointIsTheTop
    /\ \A n \in Attempts : JobIsOnItsWay(job[n])
    /\ \A c \in contexts : ContextIsWhole(c)
    /\ ranking = NoRanking => GuidedInit
=============================================================================
