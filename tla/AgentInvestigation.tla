-------------------------- MODULE AgentInvestigation --------------------------
(***************************************************************************)
(* One run of AgentRCAService (src/incident_platform/agent_rca.py) for an   *)
(* ANALYZING Incident: candidates are selected from the frozen Context,     *)
(* references are retrieved, a language model calls the two read-only tools *)
(* and submits a draft, the Evidence Gate accepts or rejects it, and the    *)
(* audit, the report and the transition are stored.                        *)
(*                                                                         *)
(* Nothing is assumed of the model: it may call any tool with any argument  *)
(* the tool's schema admits and submit any draft.                          *)
(*                                                                         *)
(* Items are numbered; the number is also the order of the ids.             *)
(***************************************************************************)
EXTENDS DeterministicRules, KnowledgeRetrieval

CONSTANTS
    Items,            \* the Evidence items of the Incident
    Contexts,         \* the Contexts the run may be asked to analyse
    Corpora,          \* the document corpora the worker may be started with
    Method,           \* the retrieval method it is started with
    Stored,           \* the sets of Evidence that may be stored when it starts
    Drafts,           \* what the model may submit, for each Context
    MaxCandidates,    \* AgentRCAPolicy.max_evidence_candidates
    MaxToolCalls,     \* AgentRCAPolicy.max_tool_calls
    MaxTurns,         \* AgentRCAPolicy.max_turns
    MaxRefs,          \* candidate references in one tool call (4 in the code)
    CatalogRefs,      \* candidate references the tool's schema admits (E1 to E12 in the code)
    MinChannels,      \* AgentRCAPolicy.minimum_conclusive_evidence_channels
    MaxPaths, MaxEntities  \* limits of the model-facing view

UsablePolicy ==
    /\ MaxCandidates \in Nat /\ MaxCandidates >= 2
    /\ MaxToolCalls \in Nat \ {0} /\ MaxTurns \in Nat \ {0}
    /\ MinChannels \in 1..MaxCandidates

ASSUME PolicyLimits ==
    /\ UsablePolicy /\ Method \in Methods
    /\ CatalogRefs \in Nat /\ MaxCandidates <= CatalogRefs
    /\ MaxRefs \in Nat \ {0} /\ MaxPaths \in Nat \ {0} /\ MaxEntities \in Nat \ {0}

\* Evidence ids are the primary key of the Evidence that is stored.
ASSUME ItemsAreNumbered ==
    /\ \A i, j \in Items : i.id = j.id => i = j
    /\ \A i \in Items : i.id \in Nat /\ i.priority \in Int
    /\ \A s \in Stored : s \subseteq Items /\ IsFiniteSet(s)

\* A corpus is a list of files, and scores are numbers.
ASSUME CorporaAreListed ==
    \A c \in Corpora :
        /\ IsFiniteSet(c)
        /\ \A d \in c : d.id \in Nat /\ d.lexical \in Nat /\ d.semantic \in Int /\ IsFiniteSet(d.keys)

VARIABLES
    phase,       \* where the run is
    context,     \* the frozen Context
    stored,      \* the Evidence of the Incident when the run listed it
    corpus,      \* the documents of the worker's checkout
    index,       \* the vector index (rows of the shared database)
    knowledge,   \* the result of the retrieval
    runtime,     \* AgentToolRuntime: attempts, events, inspected Evidence and references
    shown,       \* history: what successful tool results contained
    turns,       \* model turns taken
    draft,       \* the structured output of the model
    audit,       \* status of the stored Agent Run audit
    report,      \* the stored report
    status       \* status of the Incident

vars == <<phase, context, stored, corpus, index, knowledge, runtime, shown, turns, draft, audit, report, status>>

inputs == <<context, stored, corpus>>
work == <<knowledge, runtime, shown, turns, draft>>
outcome == <<audit, report, status>>

None == "none"
NoDraft == [decision |-> None]
NoReport == [status |-> None]

\* A reference id the model made up; it is not of the form the audit schema asks for.
MadeUp == 0

Item(id) == CHOOSE i \in Items : i.id = id

-----------------------------------------------------------------------------
(* EvidenceCandidateSelector *)

InContext(items) == {i \in items : i.id \in context.evidence}

Recent(item) == item.id \in context.recent

\* item.priority is what kind, freshness, confidence and completeness add up to.
Score(item) ==
    item.priority + (IF Recent(item) THEN 100 ELSE 0)
                  + (IF item.subject.name = context.source THEN 20 ELSE 0)

Better(a, b) == Score(a) > Score(b) \/ (Score(a) = Score(b) /\ a.id < b.id)

RankedItems(items) == Ordered(items, Better)

\* What the rules found comes first, proven causes before incomplete ones.
RuleSupport(items) ==
    LET evaluations == RegisteredEvaluations(items)
        Of(rule, wanted) ==
            IF evaluations[RuleOrder[rule]].status = wanted THEN evaluations[RuleOrder[rule]].support ELSE <<>>
        SupportOf(wanted) == Of(1, wanted) \o Of(2, wanted) \o Of(3, wanted)
    IN  SupportOf("PROVEN") \o SupportOf("INSUFFICIENT")

\* The best item of each source that is not represented yet.
NewSources(ranked, represented) ==
    LET best == {k \in DOMAIN ranked : /\ ranked[k].source \notin represented
                                       /\ \A j \in 1..(k - 1) : ranked[j].source # ranked[k].source}
    IN  [sources |-> represented \cup {i.source : i \in Range(ranked)},
         ids |-> Ids(Ordered({ranked[k] : k \in best}, Better))]

\* The first MaxCandidates different ids.
Bounded(ids) ==
    LET first == {k \in DOMAIN ids : \A j \in 1..(k - 1) : ids[j] # ids[k]}
        places == Ordered(first, LAMBDA j, k : j < k)
    IN  [n \in 1..Min({MaxCandidates, Len(places)}) |-> ids[places[n]]]

\* Mutant: the best scores only.
SelectByScore == Bounded(Ids(RankedItems(InContext(stored))))

SelectCandidates ==
    LET items == InContext(stored)
        ranked == RankedItems(items)
        recents == Filtered(ranked, Recent)
        proofs == Bounded(RuleSupport(items))
        changes == NewSources(recents, {Item(id).source : id \in Range(proofs)})
        others == NewSources(ranked, changes.sources)
    IN  Bounded(proofs \o changes.ids \o others.ids \o Ids(recents) \o Ids(ranked))

-----------------------------------------------------------------------------
(* AgentInvestigationView: the Entities the model may make claims about. *)

\* Paths that carry a candidate, or the first path when none does.  Of those that look
\* the same the first counts, and is included when the limits on paths and Entities
\* allow it after the ones included before it.  Only an Entity that has an entity_id
\* is in the catalogue, the source included.
EntityCatalog(frozen, candidates) ==
    LET Carries(path) == path.evidence \cap Range(candidates) # {}
        carrying == Filtered(frozen.paths, Carries)
        relevant == IF carrying = <<>> /\ frozen.paths # <<>> THEN <<Head(frozen.paths)>> ELSE carrying
        Identified(entity) == entity \in frozen.identified
        Named(k) == Filtered(relevant[k].entities, Identified)
        Signature(k) == <<Named(k), relevant[k].relations, relevant[k].evidence \cap Range(candidates)>>
        first == {k \in DOMAIN relevant : \A j \in 1..(k - 1) : Signature(j) # Signature(k)}
        On(places) == ({frozen.source} \cap frozen.identified) \cup UNION {Range(Named(k)) : k \in places}
        Fits(k, before) == Cardinality(before) < MaxPaths /\ Cardinality(On(before \cup {k})) <= MaxEntities
        included == CHOOSE places \in SUBSET first :
                        \A k \in first : k \in places <=> Fits(k, {j \in places : j < k})
    IN  On(included)

-----------------------------------------------------------------------------
(* EvidenceGate *)

NoRoot == [cause |-> NoCause, support |-> {}, contradicting |-> {}, references |-> {}, entity |-> None]

Claims(d) == Range(d.hypotheses) \cup (IF d.root = NoRoot THEN {} ELSE {d.root})
CitedEvidence(d) == UNION {c.support \cup c.contradicting : c \in Claims(d)}
CitedReferences(d) == UNION {c.references : c \in Claims(d)}

\* The output contract: a root cause is one of the taxonomy, CONCLUSIVE has one,
\* INCONCLUSIVE has none, and no remediation is suggested without one.
MeetsContract(d) ==
    /\ d.wellFormed
    /\ d.root # NoRoot => d.root.cause \in Causes
    /\ d.decision = "CONCLUSIVE" => d.root # NoRoot
    /\ d.decision = "INCONCLUSIVE" => d.root = NoRoot
    /\ d.suggests => d.root # NoRoot

\* Mutant: what is frozen may be cited, inspected or not.
GroundedUninspected(d) ==
    /\ d.context = context.id
    /\ CitedEvidence(d) \subseteq context.evidence
    /\ CitedReferences(d) \subseteq {r.id : r \in Range(knowledge.references)}
    /\ {c.entity : c \in Claims(d)} \subseteq EntityCatalog(context, runtime.candidates)

Grounded(d) ==
    /\ d.context = context.id
    /\ CitedEvidence(d) \subseteq context.evidence
    /\ CitedEvidence(d) \subseteq runtime.evidence
    /\ CitedReferences(d) \subseteq {r.id : r \in Range(knowledge.references)}
    /\ CitedReferences(d) \subseteq runtime.references
    /\ {c.entity : c \in Claims(d)} \subseteq EntityCatalog(context, runtime.candidates)

Coherent(d) ==
    /\ \A k \in DOMAIN d.hypotheses :
           d.hypotheses[k].status \in {"supported", "competing"} => d.hypotheses[k].support # {}
    /\ d.root # NoRoot => d.hypotheses[1].cause = d.root.cause

\* Mutant: the rule is evaluated on everything that is stored.
RootIsProvenBySomething(d) ==
    d.root # NoRoot => EvaluateRule(d.root.cause, stored).status = "PROVEN"

\* The rule of the claimed cause must be proven by the cited Evidence alone.
RootIsProven(d) ==
    d.root # NoRoot =>
        EvaluateRule(d.root.cause, {i \in stored : i.id \in d.root.support}).status = "PROVEN"

\* Mutant: a partial report is held to the same conditions.
AnyRootIsConclusive(d) ==
    d.root # NoRoot =>
        /\ d.root.support # {} /\ d.root.contradicting = {}
        /\ context.complete
        /\ ~context.collectorFailures

ConclusiveIsEarned(d) ==
    d.decision = "CONCLUSIVE" =>
        /\ d.root # NoRoot /\ d.root.support # {} /\ d.root.contradicting = {}
        /\ Cardinality({<<i.source, i.kind>> : i \in {j \in stored : j.id \in d.root.support}}) >= MinChannels
        /\ context.complete
        /\ ~context.collectorFailures

WithinBudget == runtime.attempted <= MaxToolCalls

Verdict(d) ==
    IF ~(MeetsContract(d) /\ Grounded(d) /\ Coherent(d) /\ RootIsProven(d) /\ ConclusiveIsEarned(d))
    THEN "GATE_REJECTED"
    ELSE IF WithinBudget THEN "SUCCEEDED" ELSE "BUDGET_EXHAUSTED"

-----------------------------------------------------------------------------
(* The service *)

NoRuntime == [candidates |-> <<>>, attempted |-> 0, events |-> <<>>, evidence |-> {}, references |-> {}]

Init ==
    /\ phase = "started" /\ status = "ANALYZING"
    /\ context \in Contexts
    /\ stored \in {s \in Stored : context.evidence \subseteq {i.id : i \in s}}
    /\ corpus \in Corpora
    /\ index = {}
    /\ knowledge = Outcome(None, <<>>) /\ runtime = NoRuntime /\ shown = {} /\ turns = 0
    /\ draft = NoDraft /\ audit = None /\ report = NoReport

\* sync_documents of another checkout.  Once this run has retrieved its references
\* a sync changes nothing it reads, and is left out.
SyncIndex ==
    /\ phase = "started"
    /\ \E c \in Corpora : CorpusIsSound(c) /\ index' = Synced(index, c)
    /\ UNCHANGED <<inputs, work, outcome, phase>>

\* Before the references are retrieved a failure leaves no audit; an error of the status
\* write is swallowed.
FailBeforeRetrieval ==
    /\ phase' = "done"
    /\ \E statusWritten \in BOOLEAN : status' = IF statusWritten THEN "FAILED" ELSE status
    /\ UNCHANGED <<inputs, work, index, audit, report>>

\* Nothing is retrieved when the corpus is not sound or the frozen paths name no Entity,
\* and a query is refused when the worker's clock is behind the time of the freeze.
Prepare ==
    /\ phase = "started"
    /\ \/ FailBeforeRetrieval
       \/ /\ SelectCandidates # <<>> /\ context.paths # <<>> /\ CorpusIsSound(corpus)
          /\ knowledge' \in Retrievals(Method, corpus, context, index)
          /\ runtime' = [runtime EXCEPT !.candidates = SelectCandidates]
          /\ phase' = "investigating"
          /\ UNCHANGED <<inputs, outcome, index, shown, turns, draft>>

\* AgentToolRuntime: every call counts; one beyond the budget is answered without being
\* recorded.
Event(tool, requested, known) ==
    [tool |-> tool, requested |-> requested, status |-> IF known THEN "SUCCEEDED" ELSE "DENIED"]

\* The calls of a batch that the budget admits.
Admitted(requests) ==
    SubSeq(requests, 1, Min({Len(requests), Max({0, MaxToolCalls - runtime.attempted})}))

\* One use of inspect_evidence asks for one to MaxRefs candidates, each of them a call.
\* The schema admits its references whatever the number of candidates.
InspectEvidence ==
    /\ phase = "investigating" /\ turns < MaxTurns
    /\ \E n \in 1..MaxRefs : \E refs \in [1..n -> 1..CatalogRefs] :
           LET asked == Admitted(refs)
               Known(k) == asked[k] \in DOMAIN runtime.candidates
               events == [k \in DOMAIN asked |-> Event("inspect_evidence", asked[k], Known(k))]
               found == {runtime.candidates[asked[k]] : k \in {j \in DOMAIN asked : Known(j)}}
           IN  /\ runtime' = [runtime EXCEPT !.attempted = @ + n, !.events = @ \o events,
                                            !.evidence = @ \cup found]
               /\ shown' = shown \cup found
    /\ turns' = turns + 1
    /\ UNCHANGED <<inputs, outcome, phase, index, knowledge, draft>>

\* inspect_reference takes any string.
InspectReference ==
    /\ phase = "investigating" /\ turns < MaxTurns
    /\ \E ref \in {d.id : d \in corpus} \cup {MadeUp} :
           LET asked == Admitted(<<ref>>)
               retrieved == {r.id : r \in Range(knowledge.references)}
               events == [k \in DOMAIN asked |-> Event("inspect_reference", ref, ref \in retrieved)]
           IN  runtime' = [runtime EXCEPT !.attempted = @ + 1, !.events = @ \o events,
                                          !.references = @ \cup (Range(asked) \cap retrieved)]
    /\ turns' = turns + 1
    /\ UNCHANGED <<inputs, outcome, phase, index, knowledge, shown, draft>>

Submit ==
    /\ phase = "investigating" /\ turns < MaxTurns
    /\ draft' \in Drafts[context.id]
    /\ phase' = "deciding" /\ turns' = turns + 1
    /\ UNCHANGED <<inputs, outcome, index, knowledge, runtime, shown>>

\* The audit contract admits events about Evidence, references and candidate
\* references only; an audit that breaks it is not stored.
AuditIsValid == \A k \in DOMAIN runtime.events : runtime.events[k].requested # MadeUp

\* The exception handler: a failure audit, unless one was stored under the id of this
\* run already, then FAILED; an error of either write is swallowed.
Fail(reason) ==
    /\ phase' = "done"
    /\ \E auditWritten, statusWritten \in BOOLEAN :
           /\ audit' = IF audit = None /\ AuditIsValid /\ auditWritten THEN reason ELSE audit
           /\ status' = IF statusWritten THEN "FAILED" ELSE status
    /\ UNCHANGED <<inputs, work, index, report>>

\* The provider fails, or the model takes more turns than it has.
ModelFails ==
    /\ phase = "investigating"
    /\ \/ Fail("MODEL_FAILED")
       \/ turns = MaxTurns /\ Fail("BUDGET_EXHAUSTED")

\* The wall time, the output tokens and the calls of the model are not counted here:
\* overspent says that one of those limits was exceeded.
Judge ==
    /\ phase = "deciding"
    /\ \E overspent \in BOOLEAN :
           LET verdict == IF Verdict(draft) = "SUCCEEDED" /\ overspent THEN "BUDGET_EXHAUSTED" ELSE Verdict(draft)
           IN  IF verdict = "SUCCEEDED" /\ AuditIsValid
               THEN /\ phase' = "accepted"
                    /\ UNCHANGED <<inputs, work, outcome, index>>
               ELSE Fail(IF verdict = "SUCCEEDED" THEN "GATE_REJECTED" ELSE verdict)

ReportOf(d) ==
    [context |-> context.id, status |-> d.decision, root |-> d.root,
     evidence |-> CitedEvidence(d), references |-> CitedReferences(d),
     limitations |-> (IF context.missing THEN {"missing Evidence"} ELSE {})
               \cup (IF context.collectorFailures THEN {"collectors incomplete"} ELSE {})
               \cup (IF knowledge.status # "SUCCEEDED" THEN {"no references"} ELSE {})]

StoreAudit ==
    /\ phase = "accepted"
    /\ \/ /\ audit' = "SUCCEEDED" /\ phase' = "audited"
          /\ UNCHANGED <<inputs, work, index, report, status>>
       \/ Fail("MODEL_FAILED")

StoreReport ==
    /\ phase = "audited"
    /\ \/ /\ report' = ReportOf(draft) /\ phase' = "filed"
          /\ UNCHANGED <<inputs, work, index, audit, status>>
       \/ Fail("MODEL_FAILED")

MoveToReported ==
    /\ phase = "filed"
    /\ \/ /\ status' = "REPORTED" /\ phase' = "done"
          /\ UNCHANGED <<inputs, work, index, audit, report>>
       \/ Fail("MODEL_FAILED")

Finished == phase = "done" /\ UNCHANGED vars

Next ==
    \/ SyncIndex \/ Prepare
    \/ InspectEvidence \/ InspectReference \/ Submit \/ ModelFails
    \/ Judge \/ StoreAudit \/ StoreReport \/ MoveToReported
    \/ Finished

Spec == Init /\ [][Next]_vars

-----------------------------------------------------------------------------
(* Correctness *)

\* An accepted report cites nothing the model was not shown in this very run: every
\* Evidence id was in a successful tool result and in the frozen Context, every
\* reference was retrieved and opened (the budget, the denials and the citations are
\* checked in three different places).
ReportsCiteWhatWasShown ==
    report # NoReport =>
        /\ report.evidence \subseteq shown \cap context.evidence
        /\ report.references \subseteq runtime.references \cap {r.id : r \in Range(knowledge.references)}

\* A reported root cause is proven by what the Context froze, whatever Evidence was
\* stored since, and it is conclusive only with enough channels and complete collection.
ReportedCausesAreProven ==
    report # NoReport /\ report.root # NoRoot =>
        LET cited == {i \in Items : i.id \in report.root.support \cap context.evidence}
            frozen == {i \in Items : i.id \in context.evidence}
        IN  /\ EvaluateRule(report.root.cause, cited).status = "PROVEN"
            /\ Decide(frozen).status # "ABSTAIN"
            /\ report.status = "CONCLUSIVE" =>
                  /\ Cardinality({<<i.source, i.kind>> : i \in cited}) >= MinChannels
                  /\ context.complete /\ "collectors incomplete" \notin report.limitations

\* The audit of this run records a call of the tool that was answered.
Answered(tool, request) ==
    \E k \in DOMAIN runtime.events : runtime.events[k] = Event(tool, request, TRUE)

\* Whoever reads a report finds in the stored audit of its run, within the budget, the
\* tool call that showed each citation; and a REPORTED Incident has a report.
AuditAccountsForCitations ==
    /\ report # NoReport =>
        /\ audit = "SUCCEEDED" /\ Len(runtime.events) <= MaxToolCalls
        /\ \A id \in report.evidence :
                \E ref \in DOMAIN runtime.candidates :
                    runtime.candidates[ref] = id /\ Answered("inspect_evidence", ref)
        /\ \A r \in report.references : Answered("inspect_reference", r)
    /\ status = "REPORTED" => report # NoReport

\* Selecting candidates never hides the proof: when the frozen Evidence proves a cause,
\* so do the candidates alone.
ProofsAreReachable ==
    phase = "investigating" /\ turns = 0 =>
        LET frozen == {i \in Items : i.id \in context.evidence}
            candidates == {i \in Items : i.id \in Range(runtime.candidates)}
        IN  Decide(frozen).status # "ABSTAIN" => Decide(candidates).status # "ABSTAIN"

\* The draft of a model that claims the cause its inspected Evidence proves, of an Entity
\* in the catalogue, and nothing else.
HonestDraft(cause, entity) ==
    LET proof == Range(EvaluateRule(cause, {i \in Items : i.id \in runtime.evidence}).support)
        claim == [cause |-> cause, support |-> proof, contradicting |-> {}, references |-> {}, entity |-> entity]
    IN  [wellFormed |-> TRUE, context |-> context.id, decision |-> "PARTIAL", suggests |-> FALSE,
         root |-> claim,
         hypotheses |-> <<[cause |-> cause, support |-> proof, contradicting |-> {}, references |-> {},
                           entity |-> entity, status |-> "supported"]>>]

\* The gate has no conditions an honest investigation cannot meet: it lets pass whoever
\* inspected a proof within the budget and claims it of any Entity of the catalogue.
\* (What the gate let pass is still refused when its audit breaks the audit contract.)
HonestDraftsPass ==
    phase = "investigating" /\ WithinBudget =>
        \A c \in Causes :
            EvaluateRule(c, {i \in Items : i.id \in runtime.evidence}).status = "PROVEN"
                => \A e \in EntityCatalog(context, runtime.candidates) :
                        Verdict(HonestDraft(c, e)) = "SUCCEEDED"

\* A ranking has the one before the other, or has the one only.
Prefers(ranking, one, other) ==
    \E j \in DOMAIN ranking : ranking[j] = one /\ \A k \in DOMAIN ranking : ranking[k] = other => j < k

\* A document of a sound corpus that the lexical and the semantic ranking both prefer to
\* another, which one of them may not even list, is preferred to it by their fusion, and
\* the limit on the number of references does not return the other alone.
FusionRespectsAgreement ==
    LET eligible == {d \in corpus : Eligible(d, context)}
        lexical == LexicalRanking(eligible, context)
        semantic == SemanticRanking(eligible, index)
        fused == Fusion(lexical, semantic)
    IN  phase = "started" /\ CorpusIsSound(corpus) => \A a, b \in eligible :
            a # b /\ Prefers(lexical, a, b) /\ Prefers(semantic, a, b) =>
                /\ Prefers(fused, a, b)
                /\ b \in Range(Returned(fused)) => a \in Range(Returned(fused))

-----------------------------------------------------------------------------
(* What makes these inductive.  The variables have their types ... *)
Phases == {"started", "investigating", "deciding", "accepted", "audited", "filed", "done"}

Requests == 1..CatalogRefs \cup {MadeUp} \cup {d.id : d \in UNION Corpora}

ToolEvents == [tool : {"inspect_evidence", "inspect_reference"}, requested : Requests,
               status : {"SUCCEEDED", "DENIED"}]

TypeOK ==
    /\ phase \in Phases
    /\ context \in Contexts /\ corpus \in Corpora
    /\ stored \in Stored /\ context.evidence \subseteq {i.id : i \in stored}
    /\ DOMAIN runtime = DOMAIN NoRuntime /\ runtime = [f \in DOMAIN NoRuntime |-> runtime[f]]
    /\ runtime.attempted \in Nat
    /\ runtime.events \in Seq(ToolEvents)
    /\ turns \in 0..MaxTurns
    /\ audit \in {None, "SUCCEEDED", "MODEL_FAILED", "GATE_REJECTED", "BUDGET_EXHAUSTED"}
    /\ status \in {"ANALYZING", "REPORTED", "FAILED"}

(* ... every call the budget admits is recorded, and what the runtime says   *)
(* was inspected was asked for, answered and shown ...                      *)
RuntimeIsRecorded ==
    /\ Len(runtime.events) <= runtime.attempted /\ Len(runtime.events) <= MaxToolCalls
    /\ runtime.evidence \subseteq shown
    /\ \A id \in runtime.evidence :
            \E ref \in DOMAIN runtime.candidates :
                runtime.candidates[ref] = id /\ Answered("inspect_evidence", ref)
    /\ \A r \in runtime.references : Answered("inspect_reference", r)

(* ... and what is stored is what the gate accepted, in the order of its     *)
(* storing.                                                                *)
StoredInOrder ==
    /\ phase \in {"started", "investigating", "deciding", "accepted"} =>
            audit = None /\ report = NoReport /\ status = "ANALYZING"
    /\ phase = "started" => runtime = NoRuntime
    /\ phase \in {"accepted", "audited", "filed"} \/ report # NoReport => Verdict(draft) = "SUCCEEDED"
    /\ phase \in {"audited", "filed"} => audit = "SUCCEEDED" /\ status = "ANALYZING"
    /\ phase = "audited" => report = NoReport
    /\ phase = "filed" \/ status = "REPORTED" => report # NoReport
    /\ report # NoReport => audit = "SUCCEEDED" /\ report = ReportOf(draft)

(* ... while the model chooses among candidates that are frozen Evidence,    *)
(* and that prove a cause when what is frozen does.                         *)
CandidatesProve ==
    LET ProvenBy(ids) == \E c \in Causes : EvaluateRule(c, {i \in Items : i.id \in ids}).status = "PROVEN"
    IN  phase = "investigating" =>
            /\ Range(runtime.candidates) \subseteq context.evidence
            /\ ProvenBy(context.evidence) => ProvenBy(Range(runtime.candidates))

InvestigationInv == TypeOK /\ RuntimeIsRecorded /\ StoredInOrder /\ CandidatesProve
=============================================================================
