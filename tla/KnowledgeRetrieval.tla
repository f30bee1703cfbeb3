-------------------------- MODULE KnowledgeRetrieval --------------------------
(***************************************************************************)
(* BoundedKnowledgeRetriever (src/incident_platform/knowledge.py) and the   *)
(* pgvector index behind it (vector_knowledge.py).                          *)
(*                                                                         *)
(* A document has an id, a content hash, a type, entity keys, a review      *)
(* status, a validity interval, the lexical score the query terms give it   *)
(* and a length.  A run of the retriever is the set of results it may have: *)
(* the repository or the index may fail and the deadline may pass at each   *)
(* point where the code looks at the clock.                                 *)
(***************************************************************************)
EXTENDS Integers, Sequences, FiniteSets, SequencesExt, FiniteSetsExt, Ordering

CONSTANTS
    TopK,             \* references one query returns (at most 5)
    SearchLimit,      \* documents one search of the index returns (20 in the code)
    CharacterBudget,  \* characters of all excerpts of a query together
    MaxExcerpt,       \* characters of one excerpt
    AllowedTypes      \* the document types AgentRCAService asks for

ASSUME KnowledgeLimits ==
    /\ TopK \in Nat \ {0} /\ SearchLimit \in Nat \ {0}
    /\ MaxExcerpt \in Nat \ {0}
    /\ CharacterBudget \in Nat /\ MaxExcerpt <= CharacterBudget

Methods == {"lexical", "vector", "hybrid"}

KeyWeight(key) ==
    CASE key.kind = "entity-id" -> 100
      [] key.kind = "name" -> 40
      [] key.kind = "scope" -> 20
      [] key.kind = "entity-type" -> 10
      [] OTHER -> 5

\* Keys come from the Entities on the frozen paths; callers cannot inject any.
LocalizedKeys(context) ==
    UNION {context.keys[e] : e \in UNION {Range(path.entities) : path \in Range(context.paths)}}

-----------------------------------------------------------------------------
(* Which documents may be returned for a frozen Context. *)

\* A single document whose content is not what the index pinned, whose validity ends before
\* it starts, or whose id another one has, is an error of the whole corpus: nothing is
\* retrieved from it.
CorpusIsSound(documents) ==
    /\ \A d \in documents : d.intact /\ (d.validTo = 0 \/ d.validFrom <= d.validTo)
    /\ \A d, e \in documents : d.id = e.id => d = e

InScope(document, context) ==
    /\ document.type \in AllowedTypes
    /\ document.keys \cap LocalizedKeys(context) # {}

Approved(document, context) ==
    InScope(document, context) /\ document.review = "approved"

Expired(document, context) == document.validTo # 0 /\ document.validTo < context.frozenAt

Eligible(document, context) ==
    /\ Approved(document, context)
    /\ document.validFrom <= context.frozenAt
    /\ ~Expired(document, context)

\* Documents that would have matched had they not expired.
StaleMatches(documents, context) ==
    {d \in documents : /\ Approved(d, context) /\ d.validFrom <= context.frozenAt
                       /\ Expired(d, context) /\ d.lexical > 0}

EntityScore(document, context) ==
    SumFunction([key \in document.keys \cap LocalizedKeys(context) |-> KeyWeight(key)])

-----------------------------------------------------------------------------
(* Ranking. *)

\* Documents by a descending score, the smaller id first among equals.
Ranked(documents, Score(_)) ==
    LET Before(a, b) == Score(a) > Score(b) \/ (Score(a) = Score(b) /\ a.id < b.id)
    IN  Ordered(documents, Before)

LexicalRanking(eligible, context) ==
    LET Score(d) == d.lexical + EntityScore(d, context)
    IN  Ranked({d \in eligible : d.lexical > 0}, Score)

\* The eligible documents whose chunks the index has under the very hash of the corpus;
\* it never decides what is eligible.
Indexed(eligible, index) == {d \in eligible : <<d.id, d.hash>> \in index}

Nearest(documents) ==
    LET Score(d) == d.semantic
    IN  Ranked(documents, Score)

\* The first limit members of a sequence.
Limited(sequence, limit) == SubSeq(sequence, 1, Min({limit, Len(sequence)}))

\* One search answers with a limited number of documents.
SemanticRanking(eligible, index) == Limited(Nearest(Indexed(eligible, index)), SearchLimit)

RankConstant == 60

\* What a ranking says of a document: one part in 60 + its rank, nothing when it is not in it.
Share(ranking, document) ==
    IF document \in Range(ranking)
    THEN [over |-> 1, under |-> RankConstant + CHOOSE r \in DOMAIN ranking : ranking[r] = document]
    ELSE [over |-> 0, under |-> 1]

\* Mutant: the ranks themselves are added.
AddedRanks(document, lexical, semantic) ==
    [over |-> Share(lexical, document).under + Share(semantic, document).under, under |-> 1]

\* Reciprocal rank fusion: the sum of both shares.
FusedScore(document, lexical, semantic) ==
    LET x == Share(lexical, document)
        y == Share(semantic, document)
    IN  [over |-> x.over * y.under + y.over * x.under, under |-> x.under * y.under]

Exceeds(x, y) == x.over * y.under > y.over * x.under

Fusion(lexical, semantic) ==
    LET Score(d) == FusedScore(d, lexical, semantic)
        Before(a, b) == \/ Exceeds(Score(a), Score(b))
                        \/ ~Exceeds(Score(b), Score(a)) /\ a.id < b.id
    IN  Ordered(Range(lexical) \cup Range(semantic), Before)

RankCandidates(method, eligible, context, index) ==
    LET lexical == LexicalRanking(eligible, context)
        semantic == SemanticRanking(eligible, index)
    IN  CASE method = "lexical" -> lexical
          [] method = "vector" -> semantic
          [] method = "hybrid" -> Fusion(lexical, semantic)

-----------------------------------------------------------------------------
(* Excerpts within the character budget. *)

\* The length of a window of at most limit characters around the first query term,
\* with an ellipsis on each side that is cut.
ExcerptLength(document, limit) ==
    LET prefix == IF document.first > 0 THEN 1 ELSE 0
        start == Max({0, document.first - Max({0, (limit - prefix) \div 3})})
        suffix == IF start + limit < document.length THEN 1 ELSE 0
        available == Max({1, limit - prefix - suffix})
    IN  IF document.length <= limit THEN document.length
        ELSE prefix + Min({available, document.length - start}) + suffix

\* What is left of the budget is shared by the references still to be built.
References(selected) ==
    LET Build(acc, document) ==
            LET slots == Len(selected) - Len(acc.references)
                allocation == Min({MaxExcerpt, Max({1, acc.remaining \div slots})})
                length == ExcerptLength(document, allocation)
            IN  [remaining |-> acc.remaining - length,
                 references |-> Append(acc.references,
                     [id |-> document.id, rank |-> Len(acc.references) + 1, length |-> length])]
    IN  FoldLeft(Build, [remaining |-> CharacterBudget, references |-> <<>>], selected).references

-----------------------------------------------------------------------------
(* One retrieval. *)

Outcome(status, references) == [status |-> status, references |-> references]

\* Of the candidates, the first TopK.
Returned(candidates) == Limited(candidates, TopK)

\* What the run returns when neither the index nor the clock stops it.
Answer(method, documents, context, index) ==
    LET eligible == {d \in documents : Eligible(d, context)}
        candidates == RankCandidates(method, eligible, context, index)
    IN  IF candidates # <<>> THEN Outcome("SUCCEEDED", References(Returned(candidates)))
        ELSE Outcome(IF StaleMatches(documents, context) # {} THEN "STALE_ONLY" ELSE "NO_MATCH", <<>>)

\* A repository or an index that fails, or a deadline that passes, ends the run
\* without references; none of them ends the analysis.
Retrievals(method, documents, context, index) ==
    {Outcome("FAILED", <<>>), Outcome("TIMED_OUT", <<>>), Answer(method, documents, context, index)}

-----------------------------------------------------------------------------
(* The index holds rows <<document id, content hash>>.  sync_documents embeds    *)
(* first, then replaces the rows of each document in one transaction.           *)

Synced(index, documents) ==
    {row \in index : row[1] \notin {d.id : d \in documents}} \cup {<<d.id, d.hash>> : d \in documents}
=============================================================================
