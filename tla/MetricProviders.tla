---------------------------- MODULE MetricProviders ----------------------------
(***************************************************************************)
(* The Prometheus providers (providers/prometheus.py, krca_metrics.py): range *)
(* queries over the Incident window, aggregated per Service, per Pod or per   *)
(* API dependency edge.  source[q] is the answer to query q: the series of a  *)
(* metric, or the one series of an API.  A sample is <<at, value>>; rates are *)
(* in tenths.  The scores of an edge are functions of the aligned samples and *)
(* are left out.                                                           *)
(***************************************************************************)
EXTENDS ProviderAttempt, SequencesExt, Ordering

CONSTANTS
    Metrics,     \* the query specs, in their order
    ServiceNames,       \* resource_names of the scope
    WorkloadPods,    \* names of Pods under its prefixes
    MaxSamples,  \* max_samples of a query
    Edges,       \* API dependencies of the scope: [id, parent, child], APIs [service, operation]
    MinAligned   \* minimum_aligned_samples

ASSUME MetricLimits ==
    /\ MaxSamples \in Nat \ {0} /\ MinAligned \in Nat /\ MinAligned >= 3
    /\ Metrics \in Seq(Range(Metrics)) /\ Metrics # <<>> /\ Edges \in Seq(Range(Edges)) /\ Edges # <<>>
    /\ \A e \in Range(Edges) : e.parent # e.child

\* The clients refuse an answer that is not a list of series of samples.
MetricsHold(state) ==
    \A metric \in Range(Metrics) :
        /\ state[metric] \in Seq(Range(state[metric]))
        /\ \A series \in Range(state[metric]) : series.samples \in Seq(Int \X Int)

-----------------------------------------------------------------------------
(* PrometheusMetricProvider, PrometheusWorkloadMetricProvider                *)

PerService == attempt.provider = "service-metrics"

InScope(series) ==
    IF PerService THEN series.name \in ServiceNames ELSE series.name \in ServiceNames \cup WorkloadPods /\ series.uid # Unidentified

\* The samples in the order of the answer, each with its series.
Samples(answer) ==
    LET Before(p, q) == p[1] < q[1] \/ (p[1] = q[1] /\ p[2] < q[2])
        places == Ordered(UNION {{k} \X DOMAIN answer[k].samples : k \in DOMAIN answer}, Before)
        At(k, j) == [name |-> answer[k].name, uid |-> answer[k].uid,
                     at |-> answer[k].samples[j][1], value |-> answer[k].samples[j][2]]
    IN  [i \in DOMAIN places |-> At(places[i][1], places[i][2])]

Read(answer) == SubSeq(Samples(answer), 1, Min({MaxSamples, Len(Samples(answer))}))

Truncated(answer) == Len(Samples(answer)) > MaxSamples

\* The labels of every series, and the samples that are read.
WellScoped(answer) ==
    /\ \A k \in DOMAIN answer : InScope(answer[k])
    /\ \A s \in Range(Read(answer)) : Within(s.at)

Summary(metric, subject, samples, truncated) ==
    LET read == Range(samples)
        last == CHOOSE s \in read : \A t \in read : t.at < s.at \/ (t.at = s.at /\ t.value <= s.value)
        completeness == IF truncated THEN 5 ELSE 10
    IN  IF samples = <<>>
        THEN Drafted(MetricOrigin, subject, Window[2], completeness,
                [featureSet |-> "none", metric |-> metric, count |-> 0,
                 status |-> IF truncated THEN "NO_DATA_WITHIN_LIMIT" ELSE "NO_DATA"])
        ELSE Drafted(MetricOrigin, subject, last.at, completeness,
                [featureSet |-> "none", metric |-> metric, count |-> Len(samples), status |-> "HAS_DATA",
                 latest |-> last.value,
                 minimum |-> Min({s.value : s \in read}), maximum |-> Max({s.value : s \in read})])

\* The uid that the series of a Service agree on.
UidOf(name, answer) ==
    LET uids == {answer[k].uid : k \in {j \in DOMAIN answer : answer[j].name = name}} \ {Unidentified}
    IN  IF Cardinality(uids) = 1 THEN CHOOSE u \in uids : TRUE ELSE Unidentified

\* One for every Service of the scope.
ServiceSummaries(metric, answer) ==
    LET OfService(name) == Filtered(Read(answer), LAMBDA s : s.name = name)
    IN  {Summary(metric, Subject("Service", name, UidOf(name, answer)), OfService(name), Truncated(answer)) :
            name \in ServiceNames}

\* One for every Pod with samples.
PodSummaries(metric, answer) ==
    LET OfPod(pod) == Filtered(Read(answer), LAMBDA s : s.name = pod[1] /\ s.uid = pod[2])
    IN  {Summary(metric, Subject("Pod", pod[1], pod[2]), OfPod(pod), Truncated(answer)) :
            pod \in {<<s.name, s.uid>> : s \in Range(Read(answer))}}

Summaries(metric, answer) == IF PerService THEN ServiceSummaries(metric, answer) ELSE PodSummaries(metric, answer)

AskMetric ==
    /\ Working("service-metrics") \/ Working("workload-metrics")
    /\ LET metric == Metrics[attempt.at]
           answer == source[metric]
           drafts == attempt.drafts \cup Summaries(metric, answer)
       IN  \/ \E warned \in BOOLEAN :
                LET partial == attempt.partial \/ warned \/ Truncated(answer)
                IN  IF ~WellScoped(answer) THEN Abandon("permanent")
                    ELSE IF attempt.at = Len(Metrics) THEN DeliverWithinBudget(drafts, partial)
                    ELSE attempt' = [attempt EXCEPT !.at = @ + 1, !.drafts = drafts, !.partial = partial]
           \/ Fails
    /\ UNCHANGED source

-----------------------------------------------------------------------------
(* PrometheusAPIFeatureProvider: seven series of every edge, an API's series *)
(* asked for once.                                                          *)

Observed(edge) ==
    <<<<"failure", edge.parent>>, <<"failure", edge.child>>, <<"latency", edge.parent>>,
      <<"latency", edge.child>>, <<"qps", edge.parent>>, <<"qps", edge.child>>, <<"baseline", edge.child>>>>

Questions == [place \in (DOMAIN Edges) \X (1..7) |-> Observed(Edges[place[1]])[place[2]]]

\* The places of the questions that the cache does not answer.
Unasked(cache) == {place \in DOMAIN Questions : Questions[place] \notin DOMAIN cache}

\* Edge by edge.
NextQuestion(cache) ==
    LET edge == Min({place[1] : place \in Unasked(cache)})
        series == Min({k \in 1..7 : <<edge, k>> \in Unasked(cache)})
    IN  Questions[<<edge, series>>]

\* The client refuses an answer that is not a list of samples.
FeaturesHold(state) == \A q \in Range(Questions) : state[q] \in Seq(Int \X Int)

\* _read_series; more than one series is an error.
InRange(question, samples) ==
    /\ \A k \in DOMAIN samples : Within(samples[k][1]) /\ samples[k][2] >= 0
    /\ question[1] = "failure" => \A k \in DOMAIN samples : samples[k][2] <= 10
    /\ IsInjective([k \in DOMAIN samples |-> samples[k][1]])

WithinLimit(answer) == SubSeq(answer, 1, Min({MaxSamples, Len(answer)}))

Cached(cache, question, answer) ==
    [q \in DOMAIN cache \cup {question} |->
        IF q = question THEN [samples |-> WithinLimit(answer), truncated |-> Len(answer) > MaxSamples] ELSE cache[q]]

Times(observation) == {s[1] : s \in Range(observation.samples)}

ValueAt(observation, t) == (CHOOSE s \in Range(observation.samples) : s[1] = t)[2]

\* The times at which all seven series of the edge have a sample.
Aligned(edge, cache) ==
    {t \in Times(cache[<<"failure", edge.parent>>]) : \A q \in Range(Observed(edge)) : t \in Times(cache[q])}

\* _dynamic_window_start: where the parent's failure rate last changed direction.
LastTurn(values) ==
    LET Sign(k) == IF values[k] > values[k - 1] THEN 1 ELSE IF values[k] < values[k - 1] THEN -1 ELSE 0
        moves == {k \in 2..Len(values) : Sign(k) # 0}
        turns == {k \in moves : LET before == {j \in moves : j < k}
                                IN  before # {} /\ Sign(Max(before)) # Sign(k)}
    IN  IF turns = {} THEN 1 ELSE Max(turns)

Usable(edge, cache) ==
    /\ \A q \in Range(Observed(edge)) : cache[q].samples # <<>> /\ ~cache[q].truncated
    /\ Cardinality(Aligned(edge, cache)) >= MinAligned

\* The aligned times from the last turn on, or all when too few of them are left.
ComputedOver(edge, cache) ==
    LET times == Ordered(Aligned(edge, cache), <)
        turn == LastTurn([k \in DOMAIN times |-> ValueAt(cache[<<"failure", edge.parent>>], times[k])])
    IN  IF Len(times) - turn + 1 < MinAligned THEN times ELSE SubSeq(times, turn, Len(times))

EdgeDraft(edge, cache) ==
    LET subject == Subject("Service", edge.parent.service, Unidentified)
        over == ComputedOver(edge, cache)
    IN  IF Usable(edge, cache)
        THEN Drafted(FeatureOrigin, subject, over[Len(over)], 10,
                     [featureSet |-> "krca-api-edge-v1", edge |-> edge, status |-> "HAS_DATA",
                      first |-> over[1], count |-> Len(over)])
        ELSE Drafted(FeatureOrigin, subject, Window[2], 0,
                     [featureSet |-> "krca-api-edge-v1", edge |-> edge, status |-> "INSUFFICIENT_DATA", count |-> 0])

AskFeature ==
    /\ Working("api-features")
    /\ LET question == NextQuestion(attempt.read)
           answer == source[question]
           cache == Cached(attempt.read, question, answer)
           unusable == {k \in DOMAIN Edges : ~Usable(Edges[k], cache)}
       IN  \/ \E warned \in BOOLEAN :
                LET partial == attempt.partial \/ warned \/ Len(answer) > MaxSamples
                IN  IF ~InRange(question, WithinLimit(answer)) THEN Abandon("permanent")
                    ELSE IF Unasked(cache) = {}
                    THEN DeliverWithinBudget({EdgeDraft(e, cache) : e \in Range(Edges)}, partial \/ unusable # {})
                    ELSE attempt' = [attempt EXCEPT !.read = cache, !.partial = partial]
           \/ Fails
    /\ UNCHANGED source

-----------------------------------------------------------------------------
(* What the source says of a subject, and what the batch says.              *)

OfSubject(metric, subject) ==
    Filtered(Samples(source[metric]),
             LAMBDA s : s.name = subject.name /\ (subject.kind = "Pod" => s.uid = subject.uid))

ExactMetric(e) ==
    LET samples == OfSubject(e.facts.metric, e.subject)
        values == {s.value : s \in Range(samples)}
    IN  /\ e.facts.count = Len(samples)
        /\ samples # <<>> => e.facts.minimum = Min(values) /\ e.facts.maximum = Max(values)

MetricSubjects(metric) ==
    IF PerService THEN {<<metric, name, "Service">> : name \in ServiceNames}
    ELSE {<<metric, s.name, s.uid>> : s \in Range(Samples(source[metric]))}

\* Every Service or Pod is summarized once, from all of its samples.
MetricsAreExact ==
    /\ \A e \in attempt.drafts : ExactMetric(e)
    /\ UNION {MetricSubjects(metric) : metric \in Range(Metrics)}
        = {<<e.facts.metric, e.subject.name, IF PerService THEN "Service" ELSE e.subject.uid>> : e \in attempt.drafts}

\* An edge has scores only over enough times at which all seven series say something.
FeaturesAreAligned ==
    \A e \in attempt.drafts :
        LET Said(q) == {s[1] : s \in Range(source[q])}
            together == {t \in Window[1]..Window[2] :
                            \A q \in Range(Observed(e.facts.edge)) : t \in Said(q)}
        IN  e.facts.status = "HAS_DATA" =>
                /\ e.facts.count >= MinAligned
                /\ e.facts.count = Cardinality({t \in together : e.facts.first <= t /\ t <= e.observed})
                /\ e.observed = Max(together)
=============================================================================
