---------------------------- MODULE KRCADrilldown ----------------------------
(***************************************************************************)
(* The KRCA drilldown (krca.py, krca_pipeline.py): API dependency edges are  *)
(* scored from stored feature Evidence, and the suspicious propagation paths *)
(* are followed from the alerting API under a depth and an edge budget.  The *)
(* loop of KRCADrilldownLocalizer.localize is the machine below: one action   *)
(* takes an API from the queue, one evaluates its next outgoing edge, and    *)
(* the last ranks the services.                                             *)
(*                                                                         *)
(* An API is the rank of its key among all keys.  Features are integers, in  *)
(* tenths; a score is in hundredths.                                        *)
(***************************************************************************)
EXTENDS Integers, Sequences, FiniteSets, Functions, Ordering

CONSTANTS
    APIs,           \* the APIs of the profile
    Service,        \* the service each of them belongs to
    Alerting,       \* the alerting API
    Dependencies,   \* the API dependency edges of the profile
    Features,       \* what Prometheus may say of an edge
    Policies,       \* KRCADrilldownPolicies: [depth, edges, topN]
    Threshold,      \* propagation_threshold, in hundredths
    NoAPI

\* KRCARuntimeConfig: what _validate_profile lets through
Connected ==
    \A reached \in SUBSET APIs :
        Alerting \in reached /\ (\A e \in Dependencies : e[1] \in reached => e[2] \in reached) =>
            \A e \in Dependencies : e[1] \in reached

UsablePolicy(p) ==
    p.depth \in Nat \ {0} /\ p.edges \in Nat \ {0} /\ p.topN \in Nat \ {0}

ASSUME ProfileIsUsable ==
    /\ APIs \subseteq Nat /\ IsFiniteSet(APIs) /\ Alerting \in APIs /\ NoAPI \notin APIs
    /\ Dependencies \subseteq {e \in APIs \X APIs : e[1] # e[2]} /\ IsFiniteSet(Dependencies)
    /\ Connected
    /\ \A p \in Policies : UsablePolicy(p)

\* Tenths of a correlation, an anomaly, a fluctuation.
ASSUME FeaturesAreNumbers ==
    \A f \in Features :
        f.failure \in Int /\ f.anomaly \in Int /\ f.fluctuation \in Int /\ f.correlation \in Int

VARIABLES
    features,    \* features[e]: the feature Evidence of edge e
    policy,
    queue,       \* APIs to expand, with the path that led there
    expanded,    \* APIs taken from the queue
    current,     \* the entry being expanded, with the edges still to evaluate
    scored,      \* edges evaluated, in order
    candidates,  \* candidates[a]: the best path found to a
    exhausted,   \* budget_exhausted
    ranking      \* the run's result, or NoRanking

drilldownVars == <<features, policy, queue, expanded, current, scored, candidates, exhausted, ranking>>

NoRanking == [stop |-> "none", ranked |-> <<>>, top |-> <<>>]
NoEntry == [api |-> NoAPI, path |-> <<>>, depth |-> 0, outgoing |-> <<>>]

-----------------------------------------------------------------------------
(* KRCADrilldownScorer *)

Positive(n) == IF n > 0 THEN n ELSE 0

FailureScore(f) == IF f.significant THEN 10 * Positive(f.failure) ELSE 0

LatencyScore(f) == 2 * f.anomaly + 5 * f.fluctuation + 3 * Positive(f.correlation)

Score(e) ==
    LET f == features[e]
    IN  IF FailureScore(f) > LatencyScore(f) THEN FailureScore(f) ELSE LatencyScore(f)

\* EvidenceBackedKRCADrilldownService: INSUFFICIENT_DATA makes no signal.
Signals == {e \in Dependencies : features[e].status = "HAS_DATA"}

Retained(e) == Score(e) >= Threshold

\* The outgoing signals of an API, the highest score first, then the child's key.
Outgoing(api) ==
    LET Before(d, e) == Score(d) > Score(e) \/ (Score(d) = Score(e) /\ d[2] < e[2])
    IN  Ordered({e \in Signals : e[1] = api}, Before)

-----------------------------------------------------------------------------
Entry(api, path, depth) == [api |-> api, path |-> path, depth |-> depth, outgoing |-> <<>>]

DrilldownInit ==
    /\ features \in [Dependencies -> Features]
    /\ policy \in Policies
    /\ queue = <<Entry(Alerting, <<Alerting>>, 0)>>
    /\ expanded = {}
    /\ current = NoEntry
    /\ scored = <<>>
    /\ candidates = <<>>
    /\ exhausted = FALSE
    /\ ranking = NoRanking

\* Beyond the depth there is something suspicious that is not a step back.
GoesDeeper(entry) ==
    \E e \in Signals : e[1] = entry.api /\ Retained(e) /\ e[2] \notin Range(entry.path)

\* Mutant: the depth cap is silent.
StopSilentlyAtDepth ==
    /\ current = NoEntry /\ ranking = NoRanking
    /\ queue # <<>> /\ ~exhausted
    /\ queue' = Tail(queue)
    /\ LET entry == Head(queue)
       IN  IF entry.api \in expanded
           THEN UNCHANGED <<expanded, current>>
           ELSE /\ expanded' = expanded \cup {entry.api}
                /\ current' = IF entry.depth >= policy.depth \/ Outgoing(entry.api) = <<>>
                              THEN NoEntry ELSE [entry EXCEPT !.outgoing = Outgoing(entry.api)]
    /\ UNCHANGED <<features, policy, scored, candidates, exhausted, ranking>>

\* The next API, unless it has been expanded along another path.
TakeAPI ==
    /\ current = NoEntry /\ ranking = NoRanking
    /\ queue # <<>> /\ ~exhausted
    /\ queue' = Tail(queue)
    /\ LET entry == Head(queue)
       IN  IF entry.api \in expanded
           THEN UNCHANGED <<expanded, current, exhausted>>
           ELSE /\ expanded' = expanded \cup {entry.api}
                /\ IF entry.depth >= policy.depth
                   THEN /\ exhausted' = GoesDeeper(entry)
                        /\ UNCHANGED current
                   ELSE /\ current' = IF Outgoing(entry.api) = <<>> THEN NoEntry
                                      ELSE [entry EXCEPT !.outgoing = Outgoing(entry.api)]
                        /\ UNCHANGED exhausted
    /\ UNCHANGED <<features, policy, scored, candidates, ranking>>

\* A path to the child, kept when it is the first or ends in a higher score.
Consider(e, path) ==
    candidates' =
        IF e[2] \in DOMAIN candidates /\ candidates[e[2]].score >= Score(e) THEN candidates
        ELSE [a \in DOMAIN candidates \cup {e[2]} |->
                IF a = e[2] THEN [api |-> a, score |-> Score(e), path |-> path] ELSE candidates[a]]

\* Mutant: a path may come back to an API it has passed.
EvaluateBackEdges ==
    /\ current # NoEntry
    /\ LET e == Head(current.outgoing)
           path == Append(current.path, e[2])
       IN  IF Len(scored) >= policy.edges
           THEN /\ exhausted' = TRUE /\ current' = NoEntry
                /\ UNCHANGED <<scored, candidates, queue>>
           ELSE /\ scored' = Append(scored, e)
                /\ current' = IF Len(current.outgoing) = 1 THEN NoEntry
                              ELSE [current EXCEPT !.outgoing = Tail(@)]
                /\ IF Retained(e)
                   THEN /\ Consider(e, path)
                        /\ queue' = Append(queue, Entry(e[2], path, current.depth + 1))
                   ELSE UNCHANGED <<candidates, queue>>
                /\ UNCHANGED exhausted
    /\ UNCHANGED <<features, policy, expanded, ranking>>

EvaluateEdge ==
    /\ current # NoEntry
    /\ LET e == Head(current.outgoing)
           path == Append(current.path, e[2])
       IN  IF Len(scored) >= policy.edges
           THEN /\ exhausted' = TRUE /\ current' = NoEntry
                /\ UNCHANGED <<scored, candidates, queue>>
           ELSE /\ scored' = Append(scored, e)
                /\ current' = IF Len(current.outgoing) = 1 THEN NoEntry
                              ELSE [current EXCEPT !.outgoing = Tail(@)]
                /\ IF Retained(e) /\ e[2] \notin Range(current.path)
                   THEN /\ Consider(e, path)
                        /\ queue' = Append(queue, Entry(e[2], path, current.depth + 1))
                   ELSE UNCHANGED <<candidates, queue>>
                /\ UNCHANGED exhausted
    /\ UNCHANGED <<features, policy, expanded, ranking>>

Ranked ==
    LET Before(c, d) == c.score > d.score \/ (c.score = d.score /\ c.api < d.api)
    IN  Ordered({candidates[a] : a \in DOMAIN candidates}, Before)

\* The best candidate of each service, for the first topN services.
TopServices(ranked) ==
    LET first == {k \in DOMAIN ranked :
                    \A j \in 1..(k - 1) : Service[ranked[j].api] # Service[ranked[k].api]}
        top == {k \in first : Cardinality({j \in first : j < k}) < policy.topN}
    IN  Picked(ranked, top)

StopReason(top) ==
    IF exhausted THEN "DRILLDOWN_BUDGET_EXHAUSTED"
    ELSE IF top = <<>> THEN "NO_SUSPICIOUS_DOWNSTREAM" ELSE "TOP_N_READY"

Result ==
    LET ranked == Ranked
    IN  [stop |-> StopReason(TopServices(ranked)), ranked |-> ranked, top |-> TopServices(ranked)]

\* The loop is over.
Drilled == current = NoEntry /\ ranking = NoRanking /\ (queue = <<>> \/ exhausted)

Rank ==
    /\ Drilled
    /\ ranking' = Result
    /\ UNCHANGED <<features, policy, queue, expanded, current, scored, candidates, exhausted>>

DrilldownNext == TakeAPI \/ EvaluateEdge \/ Rank

\* requires_fallback
RequiresFallback(result) == result.stop # "TOP_N_READY"

-----------------------------------------------------------------------------
EdgesOf(path) == {<<path[k], path[k + 1]>> : k \in 1..(Len(path) - 1)}

Supported(a) ==
    LET path == candidates[a].path
    IN  /\ path[1] = Alerting /\ path[Len(path)] = a
        /\ IsInjective(path)
        /\ EdgesOf(path) \subseteq {e \in Range(scored) : Retained(e)}
        /\ Len(path) - 1 <= policy.depth
        /\ candidates[a].score = Score(<<path[Len(path) - 1], a>>)

(* The Evidence cited for a candidate is a propagation path: it starts at    *)
(* the alerting API, no API comes twice on it, all its edges were evaluated   *)
(* and are suspicious, and it is within the depth budget; and no edge is     *)
(* evaluated twice or beyond the edge budget.  (KRCADrilldownLocalizer: the  *)
(* evidence_ids of a candidate are those of the edges of its path.)          *)
PathsAreSupported ==
    ranking = NoRanking =>
        /\ \A a \in DOMAIN candidates : Supported(a)
        /\ IsInjective(scored) /\ Len(scored) <= policy.edges

Suspicious == {e \in Signals : Retained(e)}

\* The APIs suspicious edges lead to: those in every set that has the alerting API and
\* is closed under them.
Suspects ==
    LET closed == {S \in SUBSET APIs : Alerting \in S /\ \A e \in Suspicious : e[1] \in S => e[2] \in S}
    IN  {a \in APIs \ {Alerting} : \A S \in closed : a \in S}

Selected(result) == {Service[c.api] : c \in Range(result.top)}

(* A drilldown that does not ask for the fallback has found every API the    *)
(* failure may have propagated to, and a service that is not among its Top-N *)
(* has no candidate with a higher score than one that is.                    *)
RankingIsComplete ==
    Drilled =>
        /\ DOMAIN candidates \subseteq Suspects
        /\ ~exhausted => DOMAIN candidates = Suspects
        /\ RequiresFallback(Result) <=> exhausted \/ Suspects = {}
        /\ Cardinality(Selected(Result)) = Len(Result.top)
        /\ \A a \in DOMAIN candidates : Service[a] \notin Selected(Result) =>
                /\ Len(Result.top) = policy.topN
                /\ \A c \in Range(Result.top) : c.score >= candidates[a].score

-----------------------------------------------------------------------------
(* What makes both inductive.  The variables have their types ... *)
Entries == [api : APIs, path : Seq(APIs), depth : Nat, outgoing : Seq(Dependencies)]

DrilldownTypeOK ==
    /\ features \in [Dependencies -> Features] /\ policy \in Policies
    /\ queue \in Seq(Entries) /\ current \in Entries \cup {NoEntry}
    /\ expanded \subseteq APIs
    /\ scored \in Seq(Dependencies)
    /\ DOMAIN candidates \subseteq APIs
    /\ \A a \in DOMAIN candidates :
        candidates[a] \in [api : {a}, score : Int, path : Seq(APIs)]
    /\ exhausted \in BOOLEAN

\* The APIs the drilldown has come to.
Visited == DOMAIN candidates \cup {Alerting}

(* ... every path that is kept was followed edge by edge and came to a       *)
(* suspect ...                                                             *)
Trail(path, api) ==
    /\ path # <<>> /\ path[1] = Alerting /\ path[Len(path)] = api
    /\ IsInjective(path)
    /\ EdgesOf(path) \subseteq Range(scored) \cap Suspicious
    /\ Range(path) \subseteq Visited
    /\ api \in Suspects \cup {Alerting}

EntryIsTrail(entry) ==
    Trail(entry.path, entry.api) /\ Len(entry.path) = entry.depth + 1 /\ entry.depth <= policy.depth

CandidateIsTrail(a, path, score) ==
    /\ Trail(path, a) /\ a # Alerting /\ Len(path) - 1 <= policy.depth
    /\ score = Score(<<path[Len(path) - 1], a>>)

PathsAreTrails ==
    /\ \A k \in DOMAIN queue : EntryIsTrail(queue[k])
    /\ current # NoEntry =>
        /\ EntryIsTrail(current) /\ current.depth < policy.depth /\ current.api \in expanded
        /\ current.outgoing # <<>> /\ IsInjective(current.outgoing)
        /\ \A k \in DOMAIN current.outgoing :
            /\ current.outgoing[k] \in Signals /\ current.outgoing[k][1] = current.api
            /\ current.outgoing[k] \notin Range(scored)
        /\ ~exhausted /\ ranking = NoRanking
    /\ \A a \in DOMAIN candidates : CandidateIsTrail(a, candidates[a].path, candidates[a].score)
    /\ IsInjective(scored) /\ Len(scored) <= policy.edges
    /\ \A k \in DOMAIN scored : scored[k][1] \in expanded

(* ... and until a budget is exhausted, whatever an expanded API leads to    *)
(* has been visited or is about to be, and what has been visited is expanded *)
(* or waits for it.                                                        *)
NothingIsPassedOver ==
    /\ ~exhausted =>
        /\ \A e \in Suspicious :
            e[1] \in expanded =>
                e[2] \in Visited \/ (current # NoEntry /\ e \in Range(current.outgoing))
        /\ \A a \in Visited : a \in expanded \/ \E k \in DOMAIN queue : queue[k].api = a
    /\ ranking # NoRanking => ranking = Result

DrilldownInv == DrilldownTypeOK /\ PathsAreTrails /\ NothingIsPassedOver
=============================================================================
