---------------------- MODULE AgentInvestigation_proofs ---------------------
(***************************************************************************)
(* What a stored report is worth, and what a model may report.              *)
(* InvestigationInv says that everything the tool runtime holds as          *)
(* inspected has been recorded and shown, that whatever is stored was       *)
(* judged by the gate and stored in order, and that the candidates prove a  *)
(* cause when the frozen Evidence does; it is inductive, and the promises   *)
(* about reports and about honest drafts follow from it.                    *)
(*                                                                         *)
(* A verdict is given once and relied on three writes later: it still holds *)
(* because nothing it read has changed (VerdictStays).  That the cited      *)
(* Evidence proves a cause carries over to all that was frozen because a    *)
(* rule never loses a proof when it is given more (MoreEvidence).  The      *)
(* selection keeps a proof because the two items of a proof are a proof by  *)
(* themselves (ProofStandsAlone), come first in what the rules found        *)
(* (SupportOfRules), and stay first among the candidates (BoundedBeginning).*)
(***************************************************************************)
EXTENDS AgentInvestigation, Ordering_proofs

-----------------------------------------------------------------------------
(* Helpers                                                                 *)

\* What the budget admits of a list of calls is the beginning of it.
LEMMA AdmittedIsAPrefix ==
    ASSUME NEW S, NEW requests \in Seq(S), runtime.attempted \in Nat
    PROVE  /\ Admitted(requests) \in Seq(S)
           /\ Len(Admitted(requests)) <= Len(requests)
           /\ runtime.attempted + Len(Admitted(requests)) <= MaxToolCalls \/ Admitted(requests) = <<>>
           /\ \A k \in DOMAIN Admitted(requests) : Admitted(requests)[k] \in S
<1> DEFINE room == Max({0, MaxToolCalls - runtime.attempted})
           size == Min({Len(requests), room})
<1>1. MaxToolCalls \in Nat /\ MaxToolCalls - runtime.attempted \in Int /\ Len(requests) \in Nat
    BY PolicyLimits DEF UsablePolicy
<1>2. room \in {0, MaxToolCalls - runtime.attempted} /\ room >= 0 /\ room >= MaxToolCalls - runtime.attempted
    <2> DEFINE S0 == {0, MaxToolCalls - runtime.attempted}
    <2>1. \E x \in S0 : \A y \in S0 : x >= y
        BY <1>1
    <2>2. room \in S0 /\ \A y \in S0 : room >= y
        BY <2>1 DEF Max
    <2> QED BY <2>2
<1>3. size \in {Len(requests), room} /\ size <= Len(requests) /\ size <= room
    <2> HIDE DEF room
    <2>1. room \in Int
        BY <1>1, <1>2
    <2> DEFINE S0 == {Len(requests), room}
    <2>2. \E x \in S0 : \A y \in S0 : x =< y
        BY <1>1, <2>1
    <2>3. size \in S0 /\ \A y \in S0 : size =< y
        BY <2>2 DEF Min
    <2> QED BY <2>3
<1> HIDE DEF room, size
<1>4. Admitted(requests) = SubSeq(requests, 1, size)
    BY DEF Admitted, room, size
<1>5. size \in Nat /\ size <= Len(requests)
    BY <1>1, <1>2, <1>3
<1>6. Admitted(requests) \in Seq(S) /\ Len(Admitted(requests)) = size
    BY <1>4, <1>5
<1>7. runtime.attempted + size <= MaxToolCalls \/ size = 0
    BY <1>1, <1>2, <1>3, <1>5
<1>8. size = 0 => Admitted(requests) = <<>>
    BY <1>6
<1> QED BY <1>5, <1>6, <1>7, <1>8

LEMMA BatchIsASequence ==
    ASSUME NEW S, NEW n \in Nat, NEW batch \in [1..n -> S]
    PROVE  batch \in Seq(S) /\ Len(batch) = n
OBVIOUS

\* Appending keeps what there was and adds what there is.
LEMMA Appended ==
    ASSUME NEW S, NEW s \in Seq(S), NEW t \in Seq(S)
    PROVE  /\ s \o t \in Seq(S) /\ Len(s \o t) = Len(s) + Len(t)
           /\ \A k \in DOMAIN s : k \in DOMAIN (s \o t) /\ (s \o t)[k] = s[k]
           /\ \A k \in DOMAIN t : Len(s) + k \in DOMAIN (s \o t) /\ (s \o t)[Len(s) + k] = t[k]
OBVIOUS

-----------------------------------------------------------------------------
(* The rules                                                               *)

\* A rule that some Evidence proves is proven by more Evidence too.
LEMMA MoreEvidence ==
    ASSUME NEW c \in Causes, NEW some, NEW all, some \subseteq all,
           EvaluateRule(c, some).status = "PROVEN"
    PROVE  EvaluateRule(c, all).status = "PROVEN"
<1> DEFINE proofs(S) == {s \in Signs(c, S) : Corroboration(c, s, S) # {}}
<1>1. Signs(c, some) \subseteq Signs(c, all)
    BY DEF Causes, Signs, OOMSigns, ImagePullSigns, ConfigMapSigns
<1>2. \A s : Corroboration(c, s, some) \subseteq Corroboration(c, s, all)
    BY DEF Causes, Corroboration, Restarts, PullEvents, MountEvents
<1>3. \A S : EvaluateRule(c, S).status = "PROVEN" <=> proofs(S) # {}
    BY DEF EvaluateRule
<1>4. proofs(some) # {}
    BY <1>3
<1>5. proofs(all) # {}
    BY <1>1, <1>2, <1>4
<1> QED BY <1>3, <1>5

\* With a proven rule the engine does not abstain.
LEMMA ProvenRulesDecide ==
    ASSUME NEW c \in Causes, NEW S, EvaluateRule(c, S).status = "PROVEN"
    PROVE  Decide(S).status # "ABSTAIN"
<1> DEFINE proven == {k \in Causes : RegisteredEvaluations(S)[k].status = "PROVEN"}
<1>1. c \in proven
    BY DEF RegisteredEvaluations
<1>2. proven # {}
    BY <1>1
<1>3. Decide(S).status = CASE proven = {} -> "ABSTAIN"
                           [] Cardinality(proven) = 1 -> "PROVEN"
                           [] OTHER -> "AMBIGUOUS"
    BY DEF Decide
<1> QED BY <1>2, <1>3

\* Without one it does.
LEMMA DecisionsAreProven ==
    ASSUME NEW S, Decide(S).status # "ABSTAIN"
    PROVE  \E c \in Causes : EvaluateRule(c, S).status = "PROVEN"
<1> DEFINE proven == {k \in Causes : RegisteredEvaluations(S)[k].status = "PROVEN"}
<1>1. Decide(S).status = CASE proven = {} -> "ABSTAIN"
                           [] Cardinality(proven) = 1 -> "PROVEN"
                           [] OTHER -> "AMBIGUOUS"
    BY DEF Decide
<1>2. ASSUME proven = {}
      PROVE  FALSE
    <2>1. Cardinality(proven) = 0
        BY <1>2, FS_EmptySet
    <2>2. (CASE proven = {} -> "ABSTAIN"
             [] Cardinality(proven) = 1 -> "PROVEN"
             [] OTHER -> "AMBIGUOUS") = "ABSTAIN"
        <3> HIDE DEF proven
        <3> QED BY ONLY <1>2, <2>1
    <2> QED BY <1>1, <2>2
<1> QED BY <1>2 DEF RegisteredEvaluations

-----------------------------------------------------------------------------
(* The order of Evidence                                                   *)

\* The items of a finite set have finitely many ids.
LEMMA IdsAreFinite ==
    ASSUME NEW S \in SUBSET Items, IsFiniteSet(S)
    PROVE  {i.id : i \in S} \in SUBSET Nat /\ IsFiniteSet({i.id : i \in S})
<1>1. PICK ids : ids = {i.id : i \in S}
    OBVIOUS
<1>2. PICK f : f = [i \in S |-> i.id]
    OBVIOUS
<1>3. f \in Surjection(S, ids)
    BY ONLY <1>1, <1>2 DEF Surjection
<1>4. IsFiniteSet(ids)
    BY <1>3, FS_Surjection
<1>5. \A i \in S : i.id \in Nat
    BY ItemsAreNumbered
<1> QED BY ONLY <1>1, <1>4, <1>5

\* Among finitely many items, one comes first.
LEMMA FirstIsAMember ==
    ASSUME NEW S \in SUBSET Items, IsFiniteSet(S), S # {}
    PROVE  First(S) \in S
<1>1. PICK L : L = {i \in S : i.source # "loki" \/ \A j \in S : j.source = "loki"}
    OBVIOUS
<1>2. L \in SUBSET Items /\ L \subseteq S /\ L # {}
    BY <1>1
<1>3. IsFiniteSet(L)
    BY <1>2, FS_Subset
<1>4. PICK ids : ids = {i.id : i \in L}
    OBVIOUS
<1>5. ids \in SUBSET Int /\ IsFiniteSet(ids) /\ ids # {}
    <2>1. ids \in SUBSET Nat /\ IsFiniteSet(ids)
        BY <1>2, <1>3, <1>4, IdsAreFinite
    <2>2. ids # {}
        BY ONLY <1>2, <1>4
    <2> QED BY ONLY <2>1, <2>2
<1>6. PICK least \in ids : \A y \in ids : least <= y
    BY <1>5, LeastNumber
<1>7. PICK i \in L : i.id = least
    BY ONLY <1>4, <1>6
<1>8. ASSUME NEW j \in S \ {i}
      PROVE  Precedes(i, j)
    <2>1. CASE j \in L
        <3>1. i.id <= j.id /\ i.id # j.id /\ i.id \in Nat /\ j.id \in Nat
            BY <1>2, <1>4, <1>6, <1>7, <1>8, <2>1, ItemsAreNumbered
        <3>2. i.source = "loki" <=> j.source = "loki"
            BY ONLY <1>1, <2>1, i \in L
        <3> QED BY ONLY <3>1, <3>2 DEF Precedes
    <2>2. CASE j \notin L
        <3>1. i.source # "loki" /\ j.source = "loki"
            BY ONLY <1>1, <1>8, <2>2, i \in L
        <3> QED BY ONLY <3>1 DEF Precedes
    <2> QED BY <2>1, <2>2
<1> QED BY ONLY <1>2, <1>8, i \in L DEF First

\* Items ranked by their scores, or in the order of the rules, are those items.
LEMMA OrderedItems ==
    ASSUME NEW S \in SUBSET Items, IsFiniteSet(S)
    PROVE  Ordered(S, Better) \in Seq(S) /\ Ordered(S, Precedes) \in Seq(S)
<1>1. \A i \in Items : Score(i) \in Int
    BY ItemsAreNumbered DEF Score
<1>2. \A i, j \in S : i.id \in Nat /\ (i.id = j.id => i = j)
    BY ItemsAreNumbered
<1>3. PICK ranking : ranking = {p \in S \X S : Better(p[1], p[2])}
    OBVIOUS
<1>4. \A x, y \in S : <<x, y>> \in ranking <=> Better(x, y)
    BY ONLY <1>3
<1>5. StrictOrder(S, ranking)
    <2>1. \A x, y \in S : Better(x, y) <=> Score(x) > Score(y) \/ (Score(x) = Score(y) /\ x.id < y.id)
        BY ONLY DEF Better
    <2>2. \A x \in S : Score(x) \in Int
        BY <1>1
    <2> QED BY ONLY <1>2, <1>4, <2>1, <2>2 DEF StrictOrder
<1>6. PICK sequence : sequence = {p \in S \X S : Precedes(p[1], p[2])}
    OBVIOUS
<1>7. \A x, y \in S : <<x, y>> \in sequence <=> Precedes(x, y)
    BY ONLY <1>6
<1>8. StrictOrder(S, sequence)
    BY ONLY <1>2, <1>7 DEF StrictOrder, Precedes
<1>9. Sorted(S, ranking) \in Seq(S) /\ Sorted(S, sequence) \in Seq(S)
    BY <1>5, <1>8, SortedMembers
<1> QED BY <1>3, <1>6, <1>9 DEF Ordered

LEMMA IdsOfItems ==
    ASSUME NEW S, NEW s \in Seq(S), NEW D, \A i \in S : i.id \in D
    PROVE  Ids(s) \in Seq(D)
<1>1. DOMAIN s = 1..Len(s) /\ Len(s) \in Nat /\ \A k \in DOMAIN s : s[k] \in S
    OBVIOUS
<1>2. Ids(s) \in [1..Len(s) -> D]
    BY <1>1 DEF Ids
<1> QED BY <1>1, <1>2, FunctionIsASequence

-----------------------------------------------------------------------------
(* Selecting candidates                                                    *)

\* The first different ids of a sequence are picked from places that grow.
LEMMA BoundedIds ==
    ASSUME NEW T, NEW ids \in Seq(T)
    PROVE  \E last \in Nat, size \in Nat : \E places \in [1..last -> 1..Len(ids)] :
               /\ Bounded(ids) = [n \in 1..size |-> ids[places[n]]] /\ Bounded(ids) \in Seq(T)
               /\ Len(Bounded(ids)) = size
               /\ size <= last /\ (size = MaxCandidates \/ size = last)
               /\ \A k \in 1..Len(ids) : (\A j \in 1..(k - 1) : ids[j] # ids[k]) => \E n \in 1..last : places[n] = k
               /\ \A m, n \in 1..last : m < n => places[m] < places[n]
<1>1. PICK first : first = {k \in DOMAIN ids : \A j \in 1..(k - 1) : ids[j] # ids[k]}
    OBVIOUS
<1>2. PICK R : R = {p \in first \X first : p[1] < p[2]}
    OBVIOUS
<1>3. PICK places : places = Sorted(first, R)
    OBVIOUS
<1>4. DOMAIN ids = 1..Len(ids) /\ Len(ids) \in Nat /\ \A k \in 1..Len(ids) : ids[k] \in T
    OBVIOUS
<1>5. first \subseteq 1..Len(ids) /\ IsFiniteSet(first)
    <2>1. 1 \in Int /\ Len(ids) \in Int
        BY <1>4
    <2>2. IsFiniteSet(1..Len(ids))
        BY <2>1, FS_Interval
    <2>3. first \subseteq 1..Len(ids)
        BY ONLY <1>1, <1>4
    <2> QED BY <2>2, <2>3, FS_Subset
<1>6. \A x, y \in first : <<x, y>> \in R <=> x < y
    BY ONLY <1>2
<1>7. StrictOrder(first, R)
    <2>1. first \subseteq Int
        BY ONLY <1>4, <1>5
    <2> QED BY ONLY <1>6, <2>1 DEF StrictOrder
<1>8. PICK last : last = Cardinality(first)
    OBVIOUS
<1>9. /\ places \in Seq(first) /\ Len(places) = last
      /\ \A x \in first : \E k \in 1..last : places[k] = x
      /\ \A j, k \in 1..last : j < k => <<places[j], places[k]>> \in R
    <2>1. /\ Sorted(first, R) \in Seq(first) /\ Len(Sorted(first, R)) = Cardinality(first)
          /\ \A x \in first : \E k \in 1..Cardinality(first) : Sorted(first, R)[k] = x
          /\ \A j, k \in 1..Cardinality(first) : j < k => <<Sorted(first, R)[j], Sorted(first, R)[k]>> \in R
        BY <1>5, <1>7, SortedIsInOrder
    <2> QED BY ONLY <1>3, <1>8, <2>1
<1>10. last \in Nat /\ places \in [1..last -> 1..Len(ids)] /\ \A k \in 1..last : places[k] \in first
    <2>1. last \in Nat /\ places \in [1..last -> first]
        BY ONLY <1>9
    <2> QED BY ONLY <1>5, <2>1
<1>11. \A m, n \in 1..last : m < n => places[m] < places[n]
    BY ONLY <1>6, <1>9, <1>10
<1>12. PICK size : size = Min({MaxCandidates, last})
    OBVIOUS
<1>13. size \in Nat /\ size <= last /\ (size = MaxCandidates \/ size = last)
    <2>1. MaxCandidates \in Nat
        BY PolicyLimits DEF UsablePolicy
    <2>2. size = IF MaxCandidates <= last THEN MaxCandidates ELSE last
        BY <1>10, <1>12, <2>1, LesserOfTwo
    <2> QED BY ONLY <1>10, <2>1, <2>2
<1>14. Bounded(ids) = [n \in 1..size |-> ids[places[n]]]
    <2>1. Bounded(ids) = [n \in 1..Min({MaxCandidates, Len(places)}) |-> ids[places[n]]]
        BY ONLY <1>1, <1>2, <1>3 DEF Bounded, Ordered
    <2> QED BY ONLY <1>9, <1>12, <2>1
<1>15. Bounded(ids) \in Seq(T) /\ Len(Bounded(ids)) = size
    <2>1. \A n \in 1..size : n \in 1..last
        BY ONLY <1>10, <1>13
    <2>2. \A n \in 1..last : ids[places[n]] \in T
        BY ONLY <1>4, <1>10
    <2>3. Bounded(ids) \in [1..size -> T]
        BY ONLY <1>14, <2>1, <2>2
    <2> QED BY <1>13, <2>3, FunctionIsASequence
<1>16. \A k \in 1..Len(ids) : (\A j \in 1..(k - 1) : ids[j] # ids[k]) => \E n \in 1..last : places[n] = k
    BY ONLY <1>1, <1>4, <1>9
<1> QED BY ONLY <1>10, <1>11, <1>13, <1>14, <1>15, <1>16

\* The first id stays where it is, and so does the second, unless it is the same.
LEMMA BoundedBeginning ==
    ASSUME NEW T, NEW ids \in Seq(T), Len(ids) >= 1
    PROVE  /\ Bounded(ids) \in Seq(T) /\ Len(Bounded(ids)) >= 1 /\ Bounded(ids)[1] = ids[1]
           /\ Len(ids) >= 2 /\ ids[2] # ids[1] => Len(Bounded(ids)) >= 2 /\ Bounded(ids)[2] = ids[2]
<1>1. PICK last \in Nat, size \in Nat : \E places \in [1..last -> 1..Len(ids)] :
               /\ Bounded(ids) = [n \in 1..size |-> ids[places[n]]] /\ Bounded(ids) \in Seq(T)
               /\ Len(Bounded(ids)) = size
               /\ size <= last /\ (size = MaxCandidates \/ size = last)
               /\ \A k \in 1..Len(ids) : (\A j \in 1..(k - 1) : ids[j] # ids[k]) => \E n \in 1..last : places[n] = k
               /\ \A m, n \in 1..last : m < n => places[m] < places[n]
    BY BoundedIds
<1>2. PICK places \in [1..last -> 1..Len(ids)] :
               /\ Bounded(ids) = [n \in 1..size |-> ids[places[n]]] /\ Bounded(ids) \in Seq(T)
               /\ Len(Bounded(ids)) = size
               /\ size <= last /\ (size = MaxCandidates \/ size = last)
               /\ \A k \in 1..Len(ids) : (\A j \in 1..(k - 1) : ids[j] # ids[k]) => \E n \in 1..last : places[n] = k
               /\ \A m, n \in 1..last : m < n => places[m] < places[n]
    BY ONLY <1>1
<1>3. MaxCandidates \in Nat /\ MaxCandidates >= 2
    BY PolicyLimits DEF UsablePolicy
<1>4. \A n \in 1..last : places[n] \in Nat /\ places[n] >= 1
    BY ONLY places \in [1..last -> 1..Len(ids)], ids \in Seq(T)
<1>5. 1 \in 1..Len(ids) /\ (Len(ids) >= 2 => 2 \in 1..Len(ids))
    BY ONLY ids \in Seq(T), Len(ids) >= 1
<1>6. PICK n \in 1..last : places[n] = 1
    <2>1. \A j \in 1..(1 - 1) : ids[j] # ids[1]
        OBVIOUS
    <2> QED BY ONLY <1>2, <1>5, <2>1
<1>7. 1 \in 1..last /\ places[1] = 1
    <2>1. n \in Nat /\ n >= 1 /\ 1 \in 1..last
        BY ONLY last \in Nat, n \in 1..last
    <2>2. 1 < n => places[1] < 1
        BY ONLY <1>2, <1>6, <2>1
    <2>3. n = 1
        BY ONLY <1>4, <2>1, <2>2
    <2> QED BY ONLY <1>6, <2>1, <2>3
<1>8. size >= 1 /\ last >= 1
    BY ONLY <1>2, <1>3, <1>7, last \in Nat
<1>9. Bounded(ids)[1] = ids[1]
    BY ONLY <1>2, <1>7, <1>8, size \in Nat
<1>10. ASSUME Len(ids) >= 2, ids[2] # ids[1]
       PROVE  size >= 2 /\ Bounded(ids)[2] = ids[2]
    <2>1. PICK m \in 1..last : places[m] = 2
        <3>1. \A j \in 1..(2 - 1) : ids[j] # ids[2]
            BY ONLY <1>10
        <3> QED BY ONLY <1>2, <1>5, <1>10, <3>1
    <2>2. m \in Nat /\ m >= 2 /\ 2 \in 1..last /\ last >= 2
        <3>1. m # 1
            BY ONLY <1>7, <2>1
        <3> QED BY ONLY <3>1, m \in 1..last, last \in Nat
    <2>3. 2 < m => places[2] < 2
        BY ONLY <1>2, <2>1, <2>2
    <2>4. places[1] < places[2]
        BY ONLY <1>2, <1>7, <2>2
    <2>5. m = 2
        BY ONLY <1>4, <1>7, <2>2, <2>3, <2>4
    <2>6. size >= 2
        BY ONLY <1>2, <1>3, <2>2
    <2> QED BY ONLY <1>2, <2>1, <2>5, <2>6, size \in Nat
<1> QED BY ONLY <1>2, <1>8, <1>9, <1>10

\* The two items of a proof prove the cause without the others.
LEMMA ProofStandsAlone ==
    ASSUME NEW c \in Causes, NEW S \in SUBSET Items, IsFiniteSet(S), EvaluateRule(c, S).status = "PROVEN"
    PROVE  \E a, b \in S : /\ EvaluateRule(c, S).support = <<a.id, b.id>>
                           /\ \A T : a \in T /\ b \in T => EvaluateRule(c, T).status = "PROVEN"
<1>1. PICK proofs : proofs = {s \in Signs(c, S) : Corroboration(c, s, S) # {}}
    OBVIOUS
<1>2. proofs # {}
    BY <1>1 DEF EvaluateRule
<1>3. Signs(c, S) \subseteq S
    BY DEF Causes, Signs, OOMSigns, ImagePullSigns, ConfigMapSigns
<1>4. PICK a : a = First(proofs)
    OBVIOUS
<1>5. a \in proofs
    <2>1. proofs \in SUBSET Items /\ IsFiniteSet(proofs)
        BY <1>1, <1>3, FS_Subset
    <2> QED BY <1>2, <1>4, <2>1, FirstIsAMember
<1>6. PICK witnesses : witnesses = Corroboration(c, a, S)
    OBVIOUS
<1>7. witnesses # {} /\ witnesses \subseteq S
    <2>1. witnesses \subseteq S
        BY <1>6 DEF Causes, Corroboration, Restarts, PullEvents, MountEvents
    <2> QED BY ONLY <1>1, <1>5, <1>6, <2>1
<1>8. PICK b : b = First(witnesses)
    OBVIOUS
<1>9. b \in witnesses
    <2>1. witnesses \in SUBSET Items /\ IsFiniteSet(witnesses)
        BY <1>7, FS_Subset
    <2> QED BY <1>7, <1>8, <2>1, FirstIsAMember
<1>10. a \in S /\ b \in S
    BY ONLY <1>1, <1>3, <1>5, <1>7, <1>9
<1>11. EvaluateRule(c, S).support = <<a.id, b.id>>
    BY ONLY <1>1, <1>2, <1>4, <1>6, <1>8 DEF EvaluateRule
<1>12. ASSUME NEW T, a \in T, b \in T
       PROVE  EvaluateRule(c, T).status = "PROVEN"
    <2>1. a \in Signs(c, T)
        BY <1>1, <1>5, <1>12 DEF Causes, Signs, OOMSigns, ImagePullSigns, ConfigMapSigns
    <2>2. b \in Corroboration(c, a, T)
        BY <1>6, <1>9, <1>12 DEF Causes, Corroboration, Restarts, PullEvents, MountEvents
    <2>3. {s \in Signs(c, T) : Corroboration(c, s, T) # {}} # {}
        BY ONLY <2>1, <2>2
    <2> QED BY ONLY <2>3 DEF EvaluateRule
<1> QED BY ONLY <1>10, <1>11, <1>12

\* What supports an evaluation is among the Evidence.
LEMMA SupportIsEvidence ==
    ASSUME NEW c \in Causes, NEW S \in SUBSET Items, IsFiniteSet(S)
    PROVE  EvaluateRule(c, S).support \in Seq({i.id : i \in S})
<1>1. PICK D : D = {i.id : i \in S}
    OBVIOUS
<1>2. CASE EvaluateRule(c, S).status = "PROVEN"
    <2>1. PICK a, b \in S : EvaluateRule(c, S).support = <<a.id, b.id>>
        BY <1>2, ProofStandsAlone
    <2>2. <<a.id, b.id>> \in Seq(D)
        BY ONLY <1>1, <2>1, a \in S, b \in S
    <2> QED BY ONLY <1>1, <2>1, <2>2
<1>3. CASE EvaluateRule(c, S).status # "PROVEN"
    <2>1. PICK signs : signs = Signs(c, S)
        OBVIOUS
    <2>2. signs \subseteq S
        BY <2>1 DEF Causes, Signs, OOMSigns, ImagePullSigns, ConfigMapSigns
    <2>3. signs \in SUBSET Items /\ IsFiniteSet(signs)
        BY <2>2, FS_Subset
    <2>4. Ordered(signs, Precedes) \in Seq(signs)
        BY <2>3, OrderedItems
    <2>5. \A i \in signs : i.id \in D
        BY ONLY <1>1, <2>2
    <2>6. Ids(Ordered(signs, Precedes)) \in Seq(D)
        BY <2>4, <2>5, IdsOfItems
    <2>7. EvaluateRule(c, S).support = Ids(Ordered(signs, Precedes))
        BY ONLY <1>3, <2>1 DEF EvaluateRule
    <2> QED BY ONLY <1>1, <2>6, <2>7
<1> QED BY <1>2, <1>3

\* Rule support begins with a proof when a rule is proven.
LEMMA SupportOfRules ==
    ASSUME NEW S \in SUBSET Items, IsFiniteSet(S)
    PROVE  /\ RuleSupport(S) \in Seq({i.id : i \in S})
           /\ (\E c \in Causes : EvaluateRule(c, S).status = "PROVEN") =>
                  \E c \in Causes : \E a, b \in S :
                      /\ \A T : a \in T /\ b \in T => EvaluateRule(c, T).status = "PROVEN"
                      /\ Len(RuleSupport(S)) >= 2 /\ RuleSupport(S)[1] = a.id /\ RuleSupport(S)[2] = b.id
<1>1. PICK D : D = {i.id : i \in S}
    OBVIOUS
<1> DEFINE Of(rule, wanted) ==
               IF EvaluateRule(RuleOrder[rule], S).status = wanted THEN EvaluateRule(RuleOrder[rule], S).support
               ELSE <<>>
           SupportOf(wanted) == Of(1, wanted) \o Of(2, wanted) \o Of(3, wanted)
<1>2. RuleOrder[1] \in Causes /\ RuleOrder[2] \in Causes /\ RuleOrder[3] \in Causes
      /\ Causes = {RuleOrder[1], RuleOrder[2], RuleOrder[3]}
    BY DEF RuleOrder, Causes
<1>3. RuleSupport(S) = SupportOf("PROVEN") \o SupportOf("INSUFFICIENT")
    BY <1>2 DEF RuleSupport, RegisteredEvaluations
<1>4. ASSUME NEW rule \in 1..3, NEW wanted
      PROVE  /\ Of(rule, wanted) \in Seq(D)
             /\ EvaluateRule(RuleOrder[rule], S).status # wanted => Of(rule, wanted) = <<>>
             /\ EvaluateRule(RuleOrder[rule], S).status = wanted =>
                    Of(rule, wanted) = EvaluateRule(RuleOrder[rule], S).support
    <2>1. RuleOrder[rule] \in Causes
        BY ONLY <1>2, rule \in 1..3
    <2>2. EvaluateRule(RuleOrder[rule], S).support \in Seq(D)
        BY <1>1, <2>1, SupportIsEvidence
    <2>3. <<>> \in Seq(D)
        OBVIOUS
    <2> QED BY ONLY <2>2, <2>3
<1>5. ASSUME NEW rule \in 1..3, EvaluateRule(RuleOrder[rule], S).status = "PROVEN"
      PROVE  \E a, b \in S : /\ \A T : a \in T /\ b \in T => EvaluateRule(RuleOrder[rule], T).status = "PROVEN"
                             /\ Of(rule, "PROVEN") = <<a.id, b.id>>
    <2>1. RuleOrder[rule] \in Causes
        BY ONLY <1>2, rule \in 1..3
    <2>2. PICK a, b \in S : /\ EvaluateRule(RuleOrder[rule], S).support = <<a.id, b.id>>
                            /\ \A T : a \in T /\ b \in T => EvaluateRule(RuleOrder[rule], T).status = "PROVEN"
        BY <1>5, <2>1, ProofStandsAlone
    <2>3. Of(rule, "PROVEN") = <<a.id, b.id>>
        BY ONLY <1>5, <2>2
    <2> QED BY ONLY <2>2, <2>3, a \in S, b \in S
<1> HIDE DEF Of
<1>6. ASSUME NEW wanted
      PROVE  SupportOf(wanted) \in Seq(D)
    <2>1. Of(1, wanted) \in Seq(D) /\ Of(2, wanted) \in Seq(D) /\ Of(3, wanted) \in Seq(D)
        BY <1>4
    <2> QED BY ONLY <2>1
<1>7. ASSUME NEW p \in Seq(D), NEW q \in Seq(D), NEW a, NEW b, p = <<a, b>>
      PROVE  p \o q \in Seq(D) /\ Len(p \o q) >= 2 /\ (p \o q)[1] = a /\ (p \o q)[2] = b
    BY ONLY <1>7
<1>8. ASSUME \E c \in Causes : EvaluateRule(c, S).status = "PROVEN"
      PROVE  \E c \in Causes : \E a, b \in S :
                 /\ \A T : a \in T /\ b \in T => EvaluateRule(c, T).status = "PROVEN"
                 /\ Len(RuleSupport(S)) >= 2 /\ RuleSupport(S)[1] = a.id /\ RuleSupport(S)[2] = b.id
    <2>1. PICK p1, p2, p3 : p1 = Of(1, "PROVEN") /\ p2 = Of(2, "PROVEN") /\ p3 = Of(3, "PROVEN")
        OBVIOUS
    <2>2. PICK rest : rest = SupportOf("INSUFFICIENT")
        OBVIOUS
    <2>3. RuleSupport(S) = ((p1 \o p2) \o p3) \o rest
        BY ONLY <1>3, <2>1, <2>2
    <2>4. p1 \in Seq(D) /\ p2 \in Seq(D) /\ p3 \in Seq(D) /\ rest \in Seq(D)
        BY <1>4, <1>6, <2>1, <2>2
    <2>5. PICK rule \in 1..3 : /\ EvaluateRule(RuleOrder[rule], S).status = "PROVEN"
                               /\ \A r \in 1..(rule - 1) : EvaluateRule(RuleOrder[r], S).status # "PROVEN"
        <3>1. \/ EvaluateRule(RuleOrder[1], S).status = "PROVEN"
              \/ EvaluateRule(RuleOrder[2], S).status = "PROVEN"
              \/ EvaluateRule(RuleOrder[3], S).status = "PROVEN"
            BY ONLY <1>2, <1>8
        <3> QED BY ONLY <3>1
    <2>6. PICK a, b \in S : /\ \A T : a \in T /\ b \in T => EvaluateRule(RuleOrder[rule], T).status = "PROVEN"
                            /\ Of(rule, "PROVEN") = <<a.id, b.id>>
        BY <1>5, <2>5
    <2>7. \A r \in 1..(rule - 1) : Of(r, "PROVEN") = <<>>
        BY <1>4, <2>5
    <2>8. Len(RuleSupport(S)) >= 2 /\ RuleSupport(S)[1] = a.id /\ RuleSupport(S)[2] = b.id
        <3>1. CASE rule = 1
            <4>1. p1 = <<a.id, b.id>>
                BY ONLY <2>1, <2>6, <3>1
            <4> QED BY ONLY <2>3, <2>4, <4>1
        <3>2. CASE rule = 2
            <4>1. p1 = <<>> /\ p2 = <<a.id, b.id>>
                BY ONLY <2>1, <2>6, <2>7, <3>2
            <4> QED BY ONLY <2>3, <2>4, <4>1
        <3>3. CASE rule = 3
            <4>1. p1 = <<>> /\ p2 = <<>> /\ p3 = <<a.id, b.id>>
                BY ONLY <2>1, <2>6, <2>7, <3>3
            <4> QED BY ONLY <2>3, <2>4, <4>1
        <3> QED BY <3>1, <3>2, <3>3
    <2>9. RuleOrder[rule] \in Causes
        BY ONLY <1>2, rule \in 1..3
    <2> QED BY ONLY <2>6, <2>8, <2>9, a \in S, b \in S
<1>9. RuleSupport(S) \in Seq(D)
    <2>1. SupportOf("PROVEN") \in Seq(D) /\ SupportOf("INSUFFICIENT") \in Seq(D)
        BY <1>6
    <2> HIDE DEF SupportOf
    <2> QED BY ONLY <1>3, <2>1
<1> QED BY <1>1, <1>8, <1>9

\* The best items of new sources are Evidence.
LEMMA NewSourcesAreEvidence ==
    ASSUME NEW S \in SUBSET Items, IsFiniteSet(S), NEW ranked \in Seq(S), NEW represented
    PROVE  NewSources(ranked, represented).ids \in Seq({i.id : i \in S})
<1>1. PICK D : D = {i.id : i \in S}
    OBVIOUS
<1>2. PICK best : best = {k \in DOMAIN ranked : /\ ranked[k].source \notin represented
                                                /\ \A j \in 1..(k - 1) : ranked[j].source # ranked[k].source}
    OBVIOUS
<1>3. PICK chosen : chosen = {ranked[k] : k \in best}
    OBVIOUS
<1>4. chosen \subseteq S
    <2>1. \A k \in DOMAIN ranked : ranked[k] \in S
        OBVIOUS
    <2> QED BY ONLY <1>2, <1>3, <2>1
<1>5. chosen \in SUBSET Items /\ IsFiniteSet(chosen)
    BY <1>4, FS_Subset
<1>6. Ordered(chosen, Better) \in Seq(chosen)
    BY <1>5, OrderedItems
<1>7. \A i \in chosen : i.id \in D
    BY ONLY <1>1, <1>4
<1>8. Ids(Ordered(chosen, Better)) \in Seq(D)
    BY <1>6, <1>7, IdsOfItems
<1>9. NewSources(ranked, represented).ids = Ids(Ordered(chosen, Better))
    BY ONLY <1>2, <1>3 DEF NewSources
<1> QED BY ONLY <1>1, <1>8, <1>9

\* The candidates are frozen Evidence, and hold a proof when there is one.
LEMMA CandidatesHoldAProof ==
    ASSUME stored \in Stored, NEW S, S = InContext(stored)
    PROVE  /\ SelectCandidates \in Seq({i.id : i \in S})
           /\ (\E c \in Causes : EvaluateRule(c, S).status = "PROVEN") =>
                  \E c \in Causes : \E a, b \in S :
                      /\ \A T : a \in T /\ b \in T => EvaluateRule(c, T).status = "PROVEN"
                      /\ a.id \in Range(SelectCandidates) /\ b.id \in Range(SelectCandidates)
<1>1. PICK D : D = {i.id : i \in S}
    OBVIOUS
<1>2. S \in SUBSET Items /\ IsFiniteSet(S)
    <2>1. S \subseteq stored /\ stored \subseteq Items /\ IsFiniteSet(stored)
        BY ItemsAreNumbered DEF InContext
    <2> QED BY <2>1, FS_Subset
<1>3. PICK ranked : ranked = RankedItems(S)
    OBVIOUS
<1>4. ranked \in Seq(S)
    BY <1>2, <1>3, OrderedItems DEF RankedItems
<1>5. PICK recents : recents = Filtered(ranked, Recent)
    OBVIOUS
<1>6. recents \in Seq(S)
    <2>1. PICK places : places = {k \in DOMAIN ranked : Recent(ranked[k])}
        OBVIOUS
    <2>2. places \in SUBSET (DOMAIN ranked)
        BY ONLY <2>1
    <2>3. Picked(ranked, places) \in Seq(S)
        BY <1>4, <2>2, PickedInOrder
    <2> QED BY <1>5, <2>1, <2>3 DEF Filtered
<1>7. PICK rules : rules = RuleSupport(S)
    OBVIOUS
<1>8. rules \in Seq(D)
    BY <1>1, <1>2, <1>7, SupportOfRules
<1>9. PICK proofs : proofs = Bounded(rules)
    OBVIOUS
<1>10. proofs \in Seq(D)
    BY <1>8, <1>9, BoundedIds
<1>11. PICK sources : sources = {Item(id).source : id \in Range(proofs)}
    OBVIOUS
<1>12. PICK changes : changes = NewSources(recents, sources)
    OBVIOUS
<1>13. PICK others : others = NewSources(ranked, changes.sources)
    OBVIOUS
<1>14. PICK p1, p2, p3, p4 :
           p1 = changes.ids /\ p2 = others.ids /\ p3 = Ids(recents) /\ p4 = Ids(ranked)
    OBVIOUS
<1>15. p1 \in Seq(D) /\ p2 \in Seq(D)
    BY <1>1, <1>2, <1>4, <1>6, <1>12, <1>13, <1>14, NewSourcesAreEvidence
<1>16. p3 \in Seq(D) /\ p4 \in Seq(D)
    <2>1. \A i \in S : i.id \in D
        BY <1>1
    <2> QED BY <1>4, <1>6, <1>14, <2>1, IdsOfItems
<1>17. PICK rest : rest = p1 \o p2 \o p3 \o p4
    OBVIOUS
<1>18. PICK all : all = proofs \o p1 \o p2 \o p3 \o p4
    OBVIOUS
<1>19. rest \in Seq(D)
    BY ONLY <1>15, <1>16, <1>17
<1>20. all = proofs \o rest
    <2>1. \A q, t, u \in Seq(D) : q \o t \in Seq(D) /\ (q \o t) \o u = q \o (t \o u)
        <3>1. \A q, t \in Seq(D) : q \o t \in Seq(D)
            OBVIOUS
        <3>2. \A q, t, u \in Seq(D) : (q \o t) \o u = q \o (t \o u)
            BY ConcatAssociative
        <3> QED BY ONLY <3>1, <3>2
    <2>2. PICK q : q = p1 \o p2
        OBVIOUS
    <2>3. PICK u : u = q \o p3
        OBVIOUS
    <2>4. (proofs \o p1) \o p2 = proofs \o q /\ q \in Seq(D)
        BY ONLY <1>10, <1>15, <2>1, <2>2
    <2>5. (proofs \o q) \o p3 = proofs \o u /\ u \in Seq(D)
        BY ONLY <1>10, <1>16, <2>1, <2>3, <2>4
    <2>6. (proofs \o u) \o p4 = proofs \o (u \o p4)
        BY ONLY <1>10, <1>16, <2>1, <2>5
    <2>7. all = (((proofs \o p1) \o p2) \o p3) \o p4 /\ rest = u \o p4
        BY ONLY <1>17, <1>18, <2>2, <2>3
    <2> QED BY ONLY <2>4, <2>5, <2>6, <2>7
<1>21. SelectCandidates = Bounded(all)
    BY ONLY <1>3, <1>5, <1>7, <1>9, <1>11, <1>12, <1>13, <1>14, <1>18, S = InContext(stored) DEF SelectCandidates
<1>22. all \in Seq(D)
    BY ONLY <1>10, <1>19, <1>20
<1>23. SelectCandidates \in Seq(D)
    BY <1>21, <1>22, BoundedIds
<1>24. ASSUME \E c \in Causes : EvaluateRule(c, S).status = "PROVEN"
       PROVE  \E c \in Causes : \E a, b \in S :
                  /\ \A T : a \in T /\ b \in T => EvaluateRule(c, T).status = "PROVEN"
                  /\ a.id \in Range(SelectCandidates) /\ b.id \in Range(SelectCandidates)
    <2>1. PICK c \in Causes : \E a, b \in S :
              /\ \A T : a \in T /\ b \in T => EvaluateRule(c, T).status = "PROVEN"
              /\ Len(rules) >= 2 /\ rules[1] = a.id /\ rules[2] = b.id
        BY <1>2, <1>7, <1>24, SupportOfRules
    <2>2. PICK a, b \in S :
              /\ \A T : a \in T /\ b \in T => EvaluateRule(c, T).status = "PROVEN"
              /\ Len(rules) >= 2 /\ rules[1] = a.id /\ rules[2] = b.id
        BY ONLY <2>1
    <2>3. PICK first, second : first = a.id /\ second = b.id
        OBVIOUS
    <2>4. /\ Len(proofs) >= 1 /\ proofs[1] = first
          /\ second # first => Len(proofs) >= 2 /\ proofs[2] = second
        <3>1. Len(rules) >= 1 /\ Len(rules) >= 2
            BY ONLY <1>8, <2>2
        <3>2. /\ Len(Bounded(rules)) >= 1 /\ Bounded(rules)[1] = rules[1]
              /\ rules[2] # rules[1] => Len(Bounded(rules)) >= 2 /\ Bounded(rules)[2] = rules[2]
            BY <1>8, <3>1, BoundedBeginning
        <3> QED BY ONLY <1>9, <2>2, <2>3, <3>2
    <2>5. /\ Len(all) >= 1 /\ all[1] = first
          /\ second # first => Len(all) >= 2 /\ all[2] = second
        BY ONLY <1>10, <1>19, <1>20, <2>4
    <2>6. PICK candidates : candidates = Bounded(all)
        OBVIOUS
    <2>7. /\ candidates \in Seq(D) /\ Len(candidates) >= 1 /\ candidates[1] = first
          /\ second # first => Len(candidates) >= 2 /\ candidates[2] = second
        <3>1. /\ Bounded(all) \in Seq(D) /\ Len(Bounded(all)) >= 1 /\ Bounded(all)[1] = all[1]
              /\ Len(all) >= 2 /\ all[2] # all[1] => Len(Bounded(all)) >= 2 /\ Bounded(all)[2] = all[2]
            BY <1>22, <2>5, BoundedBeginning
        <3> QED BY ONLY <2>5, <2>6, <3>1
    <2>8. first \in Range(candidates) /\ second \in Range(candidates)
        <3>1. DOMAIN candidates = 1..Len(candidates) /\ Len(candidates) \in Nat
            BY ONLY <2>7
        <3>2. 1 \in DOMAIN candidates /\ (second # first => 2 \in DOMAIN candidates)
            BY ONLY <2>7, <3>1
        <3> QED BY ONLY <2>7, <3>2 DEF Range
    <2>9. a.id \in Range(SelectCandidates) /\ b.id \in Range(SelectCandidates)
        BY ONLY <1>21, <2>3, <2>6, <2>8
    <2> QED BY ONLY <2>2, <2>9, c \in Causes, a \in S, b \in S
<1> QED BY ONLY <1>1, <1>23, <1>24

-----------------------------------------------------------------------------
(* The frozen Evidence                                                     *)

\* The Evidence a draft cites is stored when and only when the Context froze it: nothing
\* stored later, and nothing that was frozen and has gone, decides about its cause.
LEMMA CitedIsFrozen ==
    ASSUME TypeOK, NEW ids, ids \subseteq context.evidence
    PROVE  {i \in stored : i.id \in ids} = {i \in Items : i.id \in ids \cap context.evidence}
<1>1. stored \subseteq Items /\ context.evidence \subseteq {i.id : i \in stored}
    BY ItemsAreNumbered DEF TypeOK
<1>2. ASSUME NEW i \in Items, i.id \in context.evidence
      PROVE  i \in stored
    <2>1. PICK j \in stored : j.id = i.id
        BY <1>1, <1>2
    <2> QED BY <1>1, <2>1, ItemsAreNumbered
<1> QED BY <1>1, <1>2

-----------------------------------------------------------------------------
(* InvestigationInv is inductive                                           *)

\* A verdict depends on nothing but the draft, the run and what it retrieved.
LEMMA VerdictStays ==
    ASSUME UNCHANGED <<context, stored, knowledge, runtime, draft>>
    PROVE  Verdict(draft)' = Verdict(draft) /\ ReportOf(draft)' = ReportOf(draft)
BY DEF Verdict, MeetsContract, Grounded, Coherent, RootIsProven, ConclusiveIsEarned, WithinBudget, ReportOf

LEMMA InitInvestigation == Init => InvestigationInv
<1> SUFFICES ASSUME Init PROVE InvestigationInv
    OBVIOUS
<1>1. TypeOK
    BY PolicyLimits DEF Init, TypeOK, UsablePolicy, NoRuntime, Phases, None
<1>2. RuntimeIsRecorded
    BY PolicyLimits DEF Init, RuntimeIsRecorded, UsablePolicy, NoRuntime
<1>3. StoredInOrder
    BY DEF Init, StoredInOrder, NoReport, None
<1>4. CandidatesProve
    BY DEF Init, CandidatesProve
<1> QED BY <1>1, <1>2, <1>3, <1>4 DEF InvestigationInv

\* A step that leaves the runtime and what was shown alone leaves what was recorded.
LEMMA RecordStays ==
    ASSUME RuntimeIsRecorded, UNCHANGED <<runtime, shown>>
    PROVE  RuntimeIsRecorded'
BY DEF RuntimeIsRecorded, Answered

\* Candidates that are selected stay selected.
LEMMA CandidatesStay ==
    ASSUME CandidatesProve, phase' = "investigating" => phase = "investigating",
           context' = context, runtime'.candidates = runtime.candidates
    PROVE  CandidatesProve'
BY DEF CandidatesProve

\* A run that fails stores at most an audit that is not an acceptance, unless it had
\* been accepted.
LEMMA FailureKeeps ==
    ASSUME InvestigationInv, NEW reason \in {"MODEL_FAILED", "GATE_REJECTED", "BUDGET_EXHAUSTED"},
           Fail(reason)
    PROVE  InvestigationInv'
<1> USE DEF Fail, inputs, work
<1>1. TypeOK'
    BY DEF InvestigationInv, TypeOK, Phases
<1>2. RuntimeIsRecorded'
    BY RecordStays DEF InvestigationInv
<1>3. Verdict(draft)' = Verdict(draft) /\ ReportOf(draft)' = ReportOf(draft)
    BY VerdictStays
<1>4. StoredInOrder'
    BY <1>3 DEF InvestigationInv, StoredInOrder, TypeOK, None
<1>5. CandidatesProve'
    BY CandidatesStay DEF InvestigationInv
<1> QED BY <1>1, <1>2, <1>4, <1>5 DEF InvestigationInv

\* An inspection appends one event for each admitted call.
LEMMA InspectionKeeps ==
    ASSUME InvestigationInv, InspectEvidence
    PROVE  InvestigationInv'
<1>0. PICK n \in 1..MaxRefs : \E refs \in [1..n -> 1..CatalogRefs] :
          LET asked == Admitted(refs)
              Known(k) == asked[k] \in DOMAIN runtime.candidates
              events == [k \in DOMAIN asked |-> Event("inspect_evidence", asked[k], Known(k))]
              found == {runtime.candidates[asked[k]] : k \in {j \in DOMAIN asked : Known(j)}}
          IN  /\ runtime' = [runtime EXCEPT !.attempted = @ + n, !.events = @ \o events,
                                           !.evidence = @ \cup found]
              /\ shown' = shown \cup found
    BY DEF InspectEvidence
<1>1. PICK refs \in [1..n -> 1..CatalogRefs] :
          LET asked == Admitted(refs)
              Known(k) == asked[k] \in DOMAIN runtime.candidates
              events == [k \in DOMAIN asked |-> Event("inspect_evidence", asked[k], Known(k))]
              found == {runtime.candidates[asked[k]] : k \in {j \in DOMAIN asked : Known(j)}}
          IN  /\ runtime' = [runtime EXCEPT !.attempted = @ + n, !.events = @ \o events,
                                           !.evidence = @ \cup found]
              /\ shown' = shown \cup found
    BY <1>0
<1>2. /\ runtime.attempted \in Nat
      /\ runtime.events \in Seq(ToolEvents)
    BY DEF InvestigationInv, TypeOK
<1>3. n \in Nat /\ refs \in Seq(1..CatalogRefs) /\ Len(refs) = n
    <2>1. n \in Nat
        BY PolicyLimits
    <2> QED BY <2>1, BatchIsASequence
<1>4. PICK asked, offered, old :
          asked = Admitted(refs) /\ offered = runtime.candidates /\ old = runtime.events
    OBVIOUS
<1> DEFINE Known(k) == asked[k] \in DOMAIN offered
           events == [k \in DOMAIN asked |-> Event("inspect_evidence", asked[k], Known(k))]
           found == {offered[asked[k]] : k \in {j \in DOMAIN asked : Known(j)}}
           record == old \o events
<1>5. /\ asked \in Seq(1..CatalogRefs) /\ Len(asked) <= n
      /\ runtime.attempted + Len(asked) <= MaxToolCalls \/ asked = <<>>
      /\ \A k \in DOMAIN asked : asked[k] \in 1..CatalogRefs
    BY <1>2, <1>3, <1>4, AdmittedIsAPrefix
<1>6. events \in Seq(ToolEvents) /\ Len(events) = Len(asked) /\ DOMAIN events = DOMAIN asked
    <2>1. \A k \in DOMAIN asked : Event("inspect_evidence", asked[k], Known(k)) \in ToolEvents
        BY <1>5 DEF Event, ToolEvents, Requests
    <2>2. DOMAIN asked = 1..Len(asked) /\ Len(asked) \in Nat
        BY <1>5
    <2> QED BY <2>1, <2>2
<1>7. \A k \in DOMAIN asked : Known(k) => events[k] = Event("inspect_evidence", asked[k], TRUE)
    BY DEF Event
<1>8. /\ runtime' = [runtime EXCEPT !.attempted = @ + n, !.events = record, !.evidence = @ \cup found]
      /\ shown' = shown \cup found
    BY <1>1, <1>4
<1> HIDE DEF events, found
<1>9. /\ record \in Seq(ToolEvents) /\ Len(record) = Len(old) + Len(events)
      /\ \A k \in DOMAIN old : k \in DOMAIN record /\ record[k] = old[k]
      /\ \A k \in DOMAIN events : Len(old) + k \in DOMAIN record /\ record[Len(old) + k] = events[k]
    <2>1. old \in Seq(ToolEvents)
        BY <1>2, <1>4
    <2>2. events \in Seq(ToolEvents)
        BY <1>6
    <2> QED BY <2>1, <2>2, Appended
<1> HIDE DEF record
<1>10. /\ DOMAIN runtime' = DOMAIN NoRuntime /\ runtime' = [f \in DOMAIN NoRuntime |-> runtime'[f]]
       /\ runtime'.attempted = runtime.attempted + n /\ runtime'.events = record
       /\ runtime'.evidence = runtime.evidence \cup found
       /\ runtime'.candidates = offered /\ runtime'.references = runtime.references
    BY <1>4, <1>8 DEF InvestigationInv, TypeOK, NoRuntime
<1>11. TypeOK'
    <2>1. turns' \in 0..MaxTurns
        BY PolicyLimits DEF InspectEvidence, InvestigationInv, TypeOK, UsablePolicy
    <2>2. runtime'.attempted \in Nat /\ runtime'.events \in Seq(ToolEvents)
        BY <1>2, <1>3, <1>9, <1>10
    <2> QED BY <1>10, <2>1, <2>2 DEF InspectEvidence, InvestigationInv, TypeOK, inputs, outcome
<1>12. \A tool, request : Answered(tool, request) => Answered(tool, request)'
    BY <1>4, <1>9, <1>10 DEF Answered, Event
<1>13. \A id \in found : \E ref \in DOMAIN offered :
           offered[ref] = id /\ Answered("inspect_evidence", ref)'
    <2> SUFFICES ASSUME NEW k \in DOMAIN asked, Known(k)
                 PROVE  Answered("inspect_evidence", asked[k])'
        BY DEF found
    <2>1. record[Len(old) + k] = Event("inspect_evidence", asked[k], TRUE)
          /\ Len(old) + k \in DOMAIN record
        BY <1>6, <1>7, <1>9
    <2> QED BY <2>1, <1>10 DEF Answered, Event
<1>14. RuntimeIsRecorded'
    <2>1. Len(record) <= runtime.attempted + n /\ Len(record) <= MaxToolCalls
        <3>1. Len(old) <= runtime.attempted /\ Len(old) <= MaxToolCalls
              /\ Len(old) \in Nat /\ Len(asked) \in Nat /\ MaxToolCalls \in Nat
            BY <1>2, <1>4, <1>5, PolicyLimits DEF InvestigationInv, RuntimeIsRecorded, UsablePolicy
        <3>2. asked = <<>> => Len(asked) = 0
            OBVIOUS
        <3>3. Len(record) = Len(old) + Len(asked)
            BY ONLY <1>6, <1>9
        <3>4. Len(asked) <= n /\ (runtime.attempted + Len(asked) <= MaxToolCalls \/ Len(asked) = 0)
            BY <1>3, <1>5, <3>2
        <3>5. runtime.attempted \in Nat /\ n \in Nat
            BY <1>2, <1>3
        <3> QED BY ONLY <3>1, <3>3, <3>4, <3>5
    <2>2. runtime'.evidence \subseteq shown'
        BY <1>8, <1>10 DEF InvestigationInv, RuntimeIsRecorded
    <2>3. \A id \in runtime'.evidence : \E ref \in DOMAIN runtime'.candidates :
              runtime'.candidates[ref] = id /\ Answered("inspect_evidence", ref)'
        BY <1>4, <1>10, <1>12, <1>13 DEF InvestigationInv, RuntimeIsRecorded
    <2> QED BY <2>1, <2>2, <2>3, <1>10, <1>12 DEF InvestigationInv, RuntimeIsRecorded
<1>15. StoredInOrder'
    BY DEF InspectEvidence, InvestigationInv, StoredInOrder, outcome
<1>16. CandidatesProve'
    BY <1>4, <1>10, CandidatesStay DEF InspectEvidence, InvestigationInv, inputs
<1> QED BY <1>11, <1>14, <1>15, <1>16 DEF InvestigationInv

\* Opening a reference appends one event, if it is admitted.
LEMMA ReferenceKeeps ==
    ASSUME InvestigationInv, InspectReference
    PROVE  InvestigationInv'
<1>1. PICK ref \in {d.id : d \in corpus} \cup {MadeUp} :
          LET asked == Admitted(<<ref>>)
              retrieved == {r.id : r \in Range(knowledge.references)}
              events == [k \in DOMAIN asked |-> Event("inspect_reference", ref, ref \in retrieved)]
          IN  runtime' = [runtime EXCEPT !.attempted = @ + 1, !.events = @ \o events,
                                         !.references = @ \cup (Range(asked) \cap retrieved)]
    BY DEF InspectReference
<1>2. /\ runtime.attempted \in Nat
      /\ runtime.events \in Seq(ToolEvents)
      /\ ref \in Requests
    BY DEF InvestigationInv, TypeOK, Requests
<1>3. PICK asked, old, retrieved :
          asked = Admitted(<<ref>>) /\ old = runtime.events /\ retrieved = {r.id : r \in Range(knowledge.references)}
    OBVIOUS
<1> DEFINE events == [k \in DOMAIN asked |-> Event("inspect_reference", ref, ref \in retrieved)]
           opened == Range(asked) \cap retrieved
           record == old \o events
<1>4. /\ asked \in Seq({ref}) /\ Len(asked) <= 1
      /\ runtime.attempted + Len(asked) <= MaxToolCalls \/ asked = <<>>
    <2>1. <<ref>> \in Seq({ref}) /\ Len(<<ref>>) = 1
        OBVIOUS
    <2> QED BY <1>2, <1>3, <2>1, AdmittedIsAPrefix
<1>5. events \in Seq(ToolEvents) /\ Len(events) = Len(asked) /\ DOMAIN events = DOMAIN asked
    <2>1. Event("inspect_reference", ref, ref \in retrieved) \in ToolEvents
        BY <1>2 DEF Event, ToolEvents
    <2>2. DOMAIN asked = 1..Len(asked) /\ Len(asked) \in Nat
        BY <1>4
    <2> QED BY <2>1, <2>2
<1>6. \A r \in opened : r = ref /\ \E k \in DOMAIN asked : events[k] = Event("inspect_reference", ref, TRUE)
    <2> SUFFICES ASSUME NEW k \in DOMAIN asked, asked[k] \in retrieved
                 PROVE  asked[k] = ref /\ events[k] = Event("inspect_reference", ref, TRUE)
        BY DEF Range
    <2>1. asked[k] = ref
        BY <1>4
    <2> QED BY <2>1 DEF Event
<1>7. runtime' = [runtime EXCEPT !.attempted = @ + 1, !.events = record, !.references = @ \cup opened]
    BY <1>1, <1>3
<1> HIDE DEF events, opened
<1>8. /\ record \in Seq(ToolEvents) /\ Len(record) = Len(old) + Len(events)
      /\ \A k \in DOMAIN old : k \in DOMAIN record /\ record[k] = old[k]
      /\ \A k \in DOMAIN events : Len(old) + k \in DOMAIN record /\ record[Len(old) + k] = events[k]
    <2>1. old \in Seq(ToolEvents)
        BY <1>2, <1>3
    <2>2. events \in Seq(ToolEvents)
        BY <1>5
    <2> QED BY <2>1, <2>2, Appended
<1> HIDE DEF record
<1>9. /\ DOMAIN runtime' = DOMAIN NoRuntime /\ runtime' = [f \in DOMAIN NoRuntime |-> runtime'[f]]
      /\ runtime'.attempted = runtime.attempted + 1 /\ runtime'.events = record
      /\ runtime'.references = runtime.references \cup opened
      /\ runtime'.candidates = runtime.candidates /\ runtime'.evidence = runtime.evidence
    BY <1>7 DEF InvestigationInv, TypeOK, NoRuntime
<1>10. TypeOK'
    <2>1. turns' \in 0..MaxTurns
        BY PolicyLimits DEF InspectReference, InvestigationInv, TypeOK, UsablePolicy
    <2>2. runtime'.attempted \in Nat /\ runtime'.events \in Seq(ToolEvents)
        BY <1>2, <1>8, <1>9
    <2> QED BY <1>9, <2>1, <2>2 DEF InspectReference, InvestigationInv, TypeOK, inputs, outcome
<1>11. \A tool, request : Answered(tool, request) => Answered(tool, request)'
    BY <1>3, <1>8, <1>9 DEF Answered, Event
<1>12. \A r \in opened : Answered("inspect_reference", r)'
    <2> SUFFICES ASSUME NEW k \in DOMAIN asked, events[k] = Event("inspect_reference", ref, TRUE)
                 PROVE  Answered("inspect_reference", ref)'
        BY <1>6
    <2>1. record[Len(old) + k] = Event("inspect_reference", ref, TRUE)
          /\ Len(old) + k \in DOMAIN record
        BY <1>5, <1>8
    <2> QED BY <2>1, <1>9 DEF Answered, Event
<1>13. RuntimeIsRecorded'
    <2>1. Len(record) <= runtime.attempted + 1 /\ Len(record) <= MaxToolCalls
        <3>1. Len(old) <= runtime.attempted /\ Len(old) <= MaxToolCalls
              /\ Len(old) \in Nat /\ Len(asked) \in Nat /\ MaxToolCalls \in Nat
            BY <1>2, <1>3, <1>4, PolicyLimits DEF InvestigationInv, RuntimeIsRecorded, UsablePolicy
        <3>2. asked = <<>> => Len(asked) = 0
            OBVIOUS
        <3> QED BY <3>1, <3>2, <1>2, <1>4, <1>5, <1>8
    <2>2. shown' = shown
        BY DEF InspectReference
    <2> QED BY <2>1, <2>2, <1>9, <1>11, <1>12 DEF InvestigationInv, RuntimeIsRecorded
<1>14. StoredInOrder'
    BY DEF InspectReference, InvestigationInv, StoredInOrder, outcome
<1>15. CandidatesProve'
    BY <1>9, CandidatesStay DEF InspectReference, InvestigationInv, inputs
<1> QED BY <1>10, <1>13, <1>14, <1>15 DEF InvestigationInv

\* What is selected is frozen, and proves a cause if what is frozen does.
LEMMA SelectionProves ==
    ASSUME TypeOK
    PROVE  /\ Range(SelectCandidates) \subseteq context.evidence
           /\ (\E c \in Causes : EvaluateRule(c, {i \in Items : i.id \in context.evidence}).status = "PROVEN") =>
                  \E c \in Causes :
                      EvaluateRule(c, {i \in Items : i.id \in Range(SelectCandidates)}).status = "PROVEN"
<1>1. PICK S : S = InContext(stored)
    OBVIOUS
<1>2. S = {i \in Items : i.id \in context.evidence}
    <2>1. context.evidence \subseteq context.evidence
        OBVIOUS
    <2>2. {i \in stored : i.id \in context.evidence}
              = {i \in Items : i.id \in context.evidence \cap context.evidence}
        BY <2>1, CitedIsFrozen
    <2> QED BY <1>1, <2>2 DEF InContext
<1>3. stored \in Stored
    BY DEF TypeOK
<1>4. PICK ids : ids = SelectCandidates
    OBVIOUS
<1>5. /\ ids \in Seq({i.id : i \in S})
      /\ (\E c \in Causes : EvaluateRule(c, S).status = "PROVEN") =>
             \E c \in Causes : \E a, b \in S :
                 /\ \A T : a \in T /\ b \in T => EvaluateRule(c, T).status = "PROVEN"
                 /\ a.id \in Range(ids) /\ b.id \in Range(ids)
    BY <1>1, <1>3, <1>4, CandidatesHoldAProof
<1>6. Range(ids) \subseteq context.evidence
    <2>1. \A k \in DOMAIN ids : ids[k] \in {i.id : i \in S}
        BY ONLY <1>5
    <2> QED BY ONLY <1>2, <2>1 DEF Range
<1>7. ASSUME \E c \in Causes : EvaluateRule(c, S).status = "PROVEN"
      PROVE  \E c \in Causes : EvaluateRule(c, {i \in Items : i.id \in Range(ids)}).status = "PROVEN"
    <2>1. PICK c \in Causes : \E a, b \in S :
                 /\ \A T : a \in T /\ b \in T => EvaluateRule(c, T).status = "PROVEN"
                 /\ a.id \in Range(ids) /\ b.id \in Range(ids)
        BY ONLY <1>5, <1>7
    <2>2. PICK a, b \in S :
                 /\ \A T : a \in T /\ b \in T => EvaluateRule(c, T).status = "PROVEN"
                 /\ a.id \in Range(ids) /\ b.id \in Range(ids)
        BY ONLY <2>1
    <2>3. a \in {i \in Items : i.id \in Range(ids)} /\ b \in {i \in Items : i.id \in Range(ids)}
        BY ONLY <1>2, <2>2, a \in S, b \in S
    <2> QED BY ONLY <2>2, <2>3, c \in Causes
<1> QED BY ONLY <1>2, <1>4, <1>6, <1>7

\* The steps up to the draft that do not inspect anything.
LEMMA PreparationKeeps ==
    ASSUME InvestigationInv, SyncIndex \/ Prepare \/ Submit
    PROVE  InvestigationInv'
<1> USE DEF InvestigationInv, inputs, work, outcome
<1>1. CASE SyncIndex
    <2>1. TypeOK'
        BY <1>1 DEF SyncIndex, TypeOK
    <2>2. RuntimeIsRecorded'
        BY <1>1, RecordStays DEF SyncIndex
    <2>3. StoredInOrder'
        BY <1>1 DEF SyncIndex, StoredInOrder
    <2>4. CandidatesProve'
        BY <1>1, CandidatesStay DEF SyncIndex
    <2> QED BY <2>1, <2>2, <2>3, <2>4
<1>2. CASE Prepare /\ FailBeforeRetrieval
    <2>1. TypeOK'
        BY <1>2 DEF FailBeforeRetrieval, TypeOK, Phases
    <2>2. RuntimeIsRecorded'
        BY <1>2, RecordStays DEF FailBeforeRetrieval
    <2>3. StoredInOrder'
        BY <1>2 DEF Prepare, FailBeforeRetrieval, StoredInOrder
    <2>4. CandidatesProve'
        BY <1>2, CandidatesStay DEF FailBeforeRetrieval
    <2> QED BY <2>1, <2>2, <2>3, <2>4
<1>3. CASE Prepare /\ ~FailBeforeRetrieval
    <2>1. /\ phase = "started" /\ phase' = "investigating" /\ UNCHANGED <<inputs, outcome, index, shown, turns, draft>>
          /\ runtime' = [runtime EXCEPT !.candidates = SelectCandidates]
        BY <1>3 DEF Prepare
    <2>2. runtime = NoRuntime
        BY <2>1 DEF StoredInOrder
    <2>3. /\ runtime'.attempted = 0 /\ runtime'.events = <<>> /\ runtime'.evidence = {} /\ runtime'.references = {}
          /\ DOMAIN runtime' = DOMAIN NoRuntime /\ runtime' = [f \in DOMAIN NoRuntime |-> runtime'[f]]
        BY <2>1, <2>2 DEF NoRuntime
    <2>4. TypeOK'
        BY <2>1, <2>3 DEF TypeOK, Phases
    <2>5. RuntimeIsRecorded'
        BY <2>3, PolicyLimits DEF RuntimeIsRecorded, UsablePolicy
    <2>6. StoredInOrder'
        BY <2>1 DEF StoredInOrder
    <2>7. CandidatesProve'
        <3>1. /\ Range(SelectCandidates) \subseteq context.evidence
              /\ (\E c \in Causes : EvaluateRule(c, {i \in Items : i.id \in context.evidence}).status = "PROVEN") =>
                     \E c \in Causes :
                         EvaluateRule(c, {i \in Items : i.id \in Range(SelectCandidates)}).status = "PROVEN"
            BY SelectionProves
        <3>2. runtime'.candidates = SelectCandidates /\ context' = context
            BY <2>1, <2>2 DEF NoRuntime
        <3> QED BY <3>1, <3>2 DEF CandidatesProve
    <2> QED BY <2>4, <2>5, <2>6, <2>7
<1>4. CASE Submit
    <2>1. TypeOK'
        BY <1>4, PolicyLimits DEF Submit, TypeOK, Phases, UsablePolicy
    <2>2. RuntimeIsRecorded'
        BY <1>4, RecordStays DEF Submit
    <2>3. StoredInOrder'
        BY <1>4 DEF Submit, StoredInOrder
    <2>4. CandidatesProve'
        BY <1>4, CandidatesStay DEF Submit
    <2> QED BY <2>1, <2>2, <2>3, <2>4
<1> QED BY <1>1, <1>2, <1>3, <1>4

\* The verdict and the writes that follow it.
LEMMA StoringKeeps ==
    ASSUME InvestigationInv, Judge \/ StoreAudit \/ StoreReport \/ MoveToReported \/ ModelFails
    PROVE  InvestigationInv'
<1>1. CASE \E reason \in {"MODEL_FAILED", "GATE_REJECTED", "BUDGET_EXHAUSTED"} : Fail(reason)
    BY <1>1, FailureKeeps
<1>2. CASE /\ phase \in {"deciding", "accepted", "audited", "filed"}
           /\ UNCHANGED <<inputs, work, index>>
           /\ \/ phase = "deciding" /\ phase' = "accepted" /\ UNCHANGED outcome /\ Verdict(draft) = "SUCCEEDED"
              \/ phase = "accepted" /\ phase' = "audited" /\ audit' = "SUCCEEDED" /\ UNCHANGED <<report, status>>
              \/ /\ phase = "audited" /\ phase' = "filed" /\ report' = ReportOf(draft)
                 /\ UNCHANGED <<audit, status>>
              \/ phase = "filed" /\ phase' = "done" /\ status' = "REPORTED" /\ UNCHANGED <<audit, report>>
    <2> USE DEF InvestigationInv, inputs, work, outcome
    <2>1. TypeOK'
        BY <1>2 DEF TypeOK, Phases
    <2>2. RuntimeIsRecorded'
        BY <1>2, RecordStays
    <2>3. Verdict(draft)' = Verdict(draft) /\ ReportOf(draft)' = ReportOf(draft)
        BY <1>2, VerdictStays
    <2>4. ReportOf(draft) # NoReport
        <3>1. ReportOf(draft).context = context.id /\ DOMAIN ReportOf(draft) # DOMAIN NoReport
            BY DEF ReportOf, NoReport
        <3> QED BY <3>1
    <2>5. StoredInOrder'
        BY <1>2, <2>3, <2>4 DEF StoredInOrder
    <2>6. CandidatesProve'
        BY <1>2, CandidatesStay
    <2> QED BY <2>1, <2>2, <2>5, <2>6
<1>3. CASE Judge
    <2>1. PICK overspent \in BOOLEAN :
              LET verdict == IF Verdict(draft) = "SUCCEEDED" /\ overspent THEN "BUDGET_EXHAUSTED" ELSE Verdict(draft)
              IN  IF verdict = "SUCCEEDED" /\ AuditIsValid
                  THEN /\ phase' = "accepted"
                       /\ UNCHANGED <<inputs, work, outcome, index>>
                  ELSE Fail(IF verdict = "SUCCEEDED" THEN "GATE_REJECTED" ELSE verdict)
        BY <1>3 DEF Judge
    <2>2. Verdict(draft) \in {"GATE_REJECTED", "SUCCEEDED", "BUDGET_EXHAUSTED"}
        BY DEF Verdict
    <2> QED BY <1>1, <1>2, <1>3, <2>1, <2>2 DEF Judge
<1>4. CASE StoreAudit \/ StoreReport \/ MoveToReported \/ ModelFails
    BY <1>1, <1>2, <1>4 DEF StoreAudit, StoreReport, MoveToReported, ModelFails
<1> QED BY <1>3, <1>4

LEMMA NextInvestigation == InvestigationInv /\ [Next]_vars => InvestigationInv'
<1> SUFFICES ASSUME InvestigationInv, [Next]_vars PROVE InvestigationInv'
    OBVIOUS
<1>1. CASE SyncIndex \/ Prepare \/ Submit
    BY <1>1, PreparationKeeps
<1>2. CASE InspectEvidence
    BY <1>2, InspectionKeeps
<1>3. CASE InspectReference
    BY <1>3, ReferenceKeeps
<1>4. CASE Judge \/ StoreAudit \/ StoreReport \/ MoveToReported \/ ModelFails
    BY <1>4, StoringKeeps
<1>5. CASE UNCHANGED vars
    <2> USE <1>5 DEF vars
    <2>1. TypeOK'
        BY DEF InvestigationInv, TypeOK
    <2>2. RuntimeIsRecorded'
        BY RecordStays DEF InvestigationInv
    <2>3. Verdict(draft)' = Verdict(draft) /\ ReportOf(draft)' = ReportOf(draft)
        BY VerdictStays
    <2>4. StoredInOrder'
        BY <2>3 DEF InvestigationInv, StoredInOrder
    <2>5. CandidatesProve'
        BY CandidatesStay DEF InvestigationInv
    <2> QED BY <2>1, <2>2, <2>4, <2>5 DEF InvestigationInv
<1> QED BY <1>1, <1>2, <1>3, <1>4, <1>5 DEF Next, Finished

\* The invariant holds of every state: all calls are recorded within the budget, and
\* what is stored was accepted by the gate (agent_rca.py:1225, run).
THEOREM InvestigationHolds == Spec => []InvestigationInv
<1>1. Init => InvestigationInv
    BY InitInvestigation
<1>2. InvestigationInv /\ [Next]_vars => InvestigationInv'
    BY NextInvestigation
<1> QED BY <1>1, <1>2, PTL DEF Spec

-----------------------------------------------------------------------------
(* What a report promises                                                  *)

LEMMA AcceptedDraft ==
    ASSUME InvestigationInv, report # NoReport
    PROVE  /\ report.evidence = CitedEvidence(draft) /\ report.references = CitedReferences(draft)
           /\ report.status = draft.decision /\ report.root = draft.root
           /\ ~context.collectorFailures => "collectors incomplete" \notin report.limitations
           /\ MeetsContract(draft) /\ Grounded(draft) /\ RootIsProven(draft) /\ ConclusiveIsEarned(draft)
<1>1. report = ReportOf(draft) /\ Verdict(draft) = "SUCCEEDED"
    BY DEF InvestigationInv, StoredInOrder
<1>2. /\ ReportOf(draft).evidence = CitedEvidence(draft)
      /\ ReportOf(draft).references = CitedReferences(draft)
      /\ ReportOf(draft).status = draft.decision /\ ReportOf(draft).root = draft.root
    BY DEF ReportOf
<1>3. ~context.collectorFailures => "collectors incomplete" \notin ReportOf(draft).limitations
    <2> DEFINE told == (IF context.missing THEN {"missing Evidence"} ELSE {})
                          \cup (IF context.collectorFailures THEN {"collectors incomplete"} ELSE {})
                          \cup (IF knowledge.status # "SUCCEEDED" THEN {"no references"} ELSE {})
    <2>1. ~context.collectorFailures => "collectors incomplete" \notin told
        OBVIOUS
    <2>2. ReportOf(draft).limitations = told
        BY DEF ReportOf
    <2> QED BY <2>1, <2>2
<1> QED BY <1>1, <1>2, <1>3 DEF Verdict

\* An accepted report cites only Evidence that a tool of this run showed and the Context
\* froze, and references that were retrieved and opened (EvidenceGate.validate,
\* agent_rca.py:916).
THEOREM CitationsWereShown == Spec => []ReportsCiteWhatWasShown
<1>1. InvestigationInv => ReportsCiteWhatWasShown
    <2> SUFFICES ASSUME InvestigationInv, report # NoReport
                 PROVE  /\ report.evidence \subseteq shown \cap context.evidence
                        /\ report.references \subseteq
                               runtime.references \cap {r.id : r \in Range(knowledge.references)}
        BY DEF ReportsCiteWhatWasShown
    <2>1. report.evidence = CitedEvidence(draft) /\ report.references = CitedReferences(draft)
        BY AcceptedDraft
    <2>2. runtime.evidence \subseteq shown
        BY DEF InvestigationInv, RuntimeIsRecorded
    <2> QED BY <2>1, <2>2, AcceptedDraft DEF Grounded
<1> QED BY <1>1, InvestigationHolds, PTL

\* Each citation of a stored report has its answered tool call in the stored audit,
\* which is within the budget; no Incident is REPORTED without a report (the order of
\* the three writes, agent_rca.py:1261).
THEOREM CitationsAreAudited == Spec => []AuditAccountsForCitations
<1>1. InvestigationInv => AuditAccountsForCitations
    <2> SUFFICES ASSUME InvestigationInv PROVE AuditAccountsForCitations
        OBVIOUS
    <2>1. status = "REPORTED" => report # NoReport
        BY DEF InvestigationInv, StoredInOrder
    <2>2. ASSUME report # NoReport
          PROVE  /\ audit = "SUCCEEDED"
                 /\ report.evidence \subseteq runtime.evidence /\ report.references \subseteq runtime.references
        <3>1. report.evidence = CitedEvidence(draft) /\ report.references = CitedReferences(draft)
            BY <2>2, AcceptedDraft
        <3> QED BY <2>2, <3>1, AcceptedDraft DEF Grounded, InvestigationInv, StoredInOrder
    <2> QED BY <2>1, <2>2 DEF AuditAccountsForCitations, InvestigationInv, RuntimeIsRecorded
<1> QED BY <1>1, InvestigationHolds, PTL

\* A reported root cause is proven by the frozen Evidence it cites, the deterministic
\* engine would not abstain on the Context, and a CONCLUSIVE report has its channels and
\* a complete collection (agent_rca.py:1002, 1019).
THEOREM ReportedCausesProven == Spec => []ReportedCausesAreProven
<1>1. InvestigationInv => ReportedCausesAreProven
    <2> SUFFICES ASSUME InvestigationInv, report # NoReport, report.root # NoRoot
                 PROVE  ReportedCausesAreProven
        BY DEF ReportedCausesAreProven
    <2> DEFINE support == draft.root.support
               cited == {i \in Items : i.id \in support \cap context.evidence}
               frozen == {i \in Items : i.id \in context.evidence}
    <2>1. /\ report.root = draft.root /\ draft.root # NoRoot /\ draft.root.cause \in Causes
          /\ report.status = draft.decision
        BY AcceptedDraft DEF MeetsContract
    <2>2. support \subseteq context.evidence
        <3>1. draft.root \in Claims(draft)
            BY <2>1 DEF Claims
        <3>2. support \subseteq CitedEvidence(draft)
            BY <3>1 DEF CitedEvidence
        <3> QED BY <3>2, AcceptedDraft DEF Grounded
    <2>3. {i \in stored : i.id \in support} = cited
        BY <2>2, CitedIsFrozen DEF InvestigationInv
    <2>4. EvaluateRule(draft.root.cause, cited).status = "PROVEN"
        BY <2>1, <2>3, AcceptedDraft DEF RootIsProven
    <2>5. Decide(frozen).status # "ABSTAIN"
        <3>1. cited \subseteq frozen
            OBVIOUS
        <3>2. EvaluateRule(draft.root.cause, frozen).status = "PROVEN"
            BY <2>1, <2>4, <3>1, MoreEvidence
        <3> QED BY <2>1, <3>2, ProvenRulesDecide
    <2>6. ASSUME report.status = "CONCLUSIVE"
          PROVE  /\ Cardinality({<<i.source, i.kind>> : i \in cited}) >= MinChannels
                 /\ context.complete /\ "collectors incomplete" \notin report.limitations
        <3>1. /\ Cardinality({<<i.source, i.kind>> : i \in cited}) >= MinChannels
              /\ context.complete /\ ~context.collectorFailures
            BY <2>1, <2>3, <2>6, AcceptedDraft DEF ConclusiveIsEarned
        <3> QED BY <3>1, AcceptedDraft
    <2> QED BY <2>1, <2>4, <2>5, <2>6 DEF ReportedCausesAreProven
<1> QED BY <1>1, InvestigationHolds, PTL

-----------------------------------------------------------------------------
(* What the model is given a chance to report                              *)

\* What was selected for the model proves a cause whenever the frozen Evidence proves
\* one (EvidenceCandidateSelector.select, agent_rca.py:258).
THEOREM SelectionKeepsProofs == Spec => []ProofsAreReachable
<1>1. InvestigationInv => ProofsAreReachable
    <2> SUFFICES ASSUME InvestigationInv, phase = "investigating"
                 PROVE  ProofsAreReachable
        BY DEF ProofsAreReachable
    <2> DEFINE frozen == {i \in Items : i.id \in context.evidence}
               candidates == {i \in Items : i.id \in Range(runtime.candidates)}
    <2>1. (\E c \in Causes : EvaluateRule(c, frozen).status = "PROVEN") =>
              \E c \in Causes : EvaluateRule(c, candidates).status = "PROVEN"
        BY DEF InvestigationInv, CandidatesProve
    <2>2. Decide(frozen).status # "ABSTAIN" => Decide(candidates).status # "ABSTAIN"
        BY <2>1, ProvenRulesDecide, DecisionsAreProven
    <2> QED BY <2>2 DEF ProofsAreReachable
<1> QED BY <1>1, InvestigationHolds, PTL

\* While the model investigates it has inspected nothing but frozen Evidence.
LEMMA InspectedIsFrozen ==
    ASSUME InvestigationInv, phase = "investigating"
    PROVE  /\ runtime.evidence \subseteq context.evidence
           /\ {i \in stored : i.id \in runtime.evidence} = {i \in Items : i.id \in runtime.evidence}
           /\ {i \in Items : i.id \in runtime.evidence} \in SUBSET Items
           /\ IsFiniteSet({i \in Items : i.id \in runtime.evidence})
<1>1. runtime.evidence \subseteq Range(runtime.candidates)
    BY DEF InvestigationInv, RuntimeIsRecorded, Range
<1>2. Range(runtime.candidates) \subseteq context.evidence
    BY DEF InvestigationInv, CandidatesProve
<1>3. runtime.evidence \subseteq context.evidence
    BY <1>1, <1>2
<1>4. {i \in stored : i.id \in runtime.evidence} = {i \in Items : i.id \in runtime.evidence \cap context.evidence}
    BY <1>3, CitedIsFrozen DEF InvestigationInv
<1>5. runtime.evidence \cap context.evidence = runtime.evidence
    BY <1>3
<1>6. IsFiniteSet(stored)
    BY ItemsAreNumbered DEF InvestigationInv, TypeOK
<1>7. IsFiniteSet({i \in stored : i.id \in runtime.evidence})
    BY <1>6, FS_Subset
<1> QED BY <1>3, <1>4, <1>5, <1>7

\* A draft that claims no more than the cause inspected Evidence proves, about an
\* Entity of the catalogue, passes every check of the gate: the contract, the grounding,
\* the coherence, the rule and the budget (EvidenceGate.validate, agent_rca.py:894).
THEOREM HonestInvestigationsPass == Spec => []HonestDraftsPass
<1>1. InvestigationInv => HonestDraftsPass
    <2> SUFFICES ASSUME InvestigationInv, phase = "investigating", WithinBudget, NEW c \in Causes,
                        EvaluateRule(c, {i \in Items : i.id \in runtime.evidence}).status = "PROVEN",
                        NEW e \in EntityCatalog(context, runtime.candidates)
                 PROVE  Verdict(HonestDraft(c, e)) = "SUCCEEDED"
        BY DEF HonestDraftsPass
    <2>1. PICK seen : seen = {i \in Items : i.id \in runtime.evidence}
        OBVIOUS
    <2>2. PICK support : support = EvaluateRule(c, seen).support
        OBVIOUS
    <2>3. PICK a, b \in seen : /\ support = <<a.id, b.id>>
                              /\ \A T : a \in T /\ b \in T => EvaluateRule(c, T).status = "PROVEN"
        <3>1. seen \in SUBSET Items /\ IsFiniteSet(seen) /\ EvaluateRule(c, seen).status = "PROVEN"
            BY <2>1, InspectedIsFrozen
        <3>2. \E a, b \in seen : /\ EvaluateRule(c, seen).support = <<a.id, b.id>>
                                 /\ \A T : a \in T /\ b \in T => EvaluateRule(c, T).status = "PROVEN"
            BY <3>1, ProofStandsAlone
        <3> QED BY ONLY <2>2, <3>2
    <2>4. PICK proof : proof = Range(support)
        OBVIOUS
    <2>5. proof = {a.id, b.id}
        BY <2>3, <2>4 DEF Range
    <2>6. proof \subseteq runtime.evidence /\ proof \subseteq context.evidence /\ proof # {}
        BY <2>1, <2>5, InspectedIsFrozen
    <2>7. PICK claim : claim = [cause |-> c, support |-> proof, contradicting |-> {}, references |-> {},
                                entity |-> e]
        OBVIOUS
    <2>8. PICK hypothesis : hypothesis = [cause |-> c, support |-> proof, contradicting |-> {}, references |-> {},
                                          entity |-> e, status |-> "supported"]
        OBVIOUS
    <2>9. PICK d : d = [wellFormed |-> TRUE, context |-> context.id, decision |-> "PARTIAL", suggests |-> FALSE,
                        root |-> claim, hypotheses |-> <<hypothesis>>]
        OBVIOUS
    <2>10. HonestDraft(c, e) = d
        BY ONLY <2>1, <2>2, <2>4, <2>7, <2>8, <2>9 DEF HonestDraft
    <2>11. /\ d.wellFormed /\ d.context = context.id /\ d.decision = "PARTIAL" /\ ~d.suggests
           /\ d.root = claim /\ d.hypotheses = <<hypothesis>>
        BY ONLY <2>9
    <2>12. /\ claim.cause = c /\ claim.support = proof /\ claim.contradicting = {} /\ claim.references = {}
           /\ claim.entity = e
        BY ONLY <2>7
    <2>13. /\ hypothesis.cause = c /\ hypothesis.support = proof /\ hypothesis.contradicting = {}
           /\ hypothesis.references = {} /\ hypothesis.entity = e
        BY ONLY <2>8
    <2>14. claim # NoRoot
        <3>1. NoRoot.support = {}
            BY DEF NoRoot
        <3> QED BY ONLY <2>6, <2>12, <3>1
    <2>15. Claims(d) = {hypothesis, claim}
        <3>1. Range(<<hypothesis>>) = {hypothesis}
            BY DEF Range
        <3> QED BY ONLY <2>11, <2>14, <3>1 DEF Claims
    <2>16. CitedEvidence(d) = proof /\ CitedReferences(d) = {} /\ {m.entity : m \in Claims(d)} = {e}
        <3>1. hypothesis.support \cup hypothesis.contradicting = proof /\ claim.support \cup claim.contradicting = proof
            BY ONLY <2>12, <2>13
        <3>2. UNION {m.support \cup m.contradicting : m \in {hypothesis, claim}} = proof
            BY ONLY <3>1
        <3>3. UNION {m.references : m \in {hypothesis, claim}} = {}
            BY ONLY <2>12, <2>13
        <3>4. {m.entity : m \in {hypothesis, claim}} = {e}
            BY ONLY <2>12, <2>13
        <3> QED BY ONLY <2>15, <3>2, <3>3, <3>4 DEF CitedEvidence, CitedReferences
    <2>17. MeetsContract(d)
        BY ONLY <2>11, <2>12, c \in Causes DEF MeetsContract
    <2>18. Grounded(d)
        <3>1. {m.entity : m \in Claims(d)} \subseteq EntityCatalog(context, runtime.candidates)
            BY ONLY <2>16, e \in EntityCatalog(context, runtime.candidates)
        <3> QED BY ONLY <2>6, <2>11, <2>16, <3>1 DEF Grounded
    <2>19. Coherent(d)
        BY ONLY <2>6, <2>11, <2>12, <2>13 DEF Coherent
    <2>20. RootIsProven(d)
        <3>1. a \in {i \in stored : i.id \in proof} /\ b \in {i \in stored : i.id \in proof}
            BY <2>1, <2>5, InspectedIsFrozen
        <3> QED BY ONLY <2>3, <2>11, <2>12, <3>1 DEF RootIsProven
    <2>21. ConclusiveIsEarned(d)
        BY ONLY <2>11 DEF ConclusiveIsEarned
    <2>22. Verdict(d) = "SUCCEEDED"
        BY <2>17, <2>18, <2>19, <2>20, <2>21 DEF Verdict
    <2> QED BY ONLY <2>10, <2>22
<1> QED BY <1>1, InvestigationHolds, PTL

-----------------------------------------------------------------------------
(* The fusion of two rankings                                              *)

\* Multiplication by a positive number keeps the order.
LEMMA Times ==
    ASSUME NEW m \in Nat \ {0}, NEW p \in Int, NEW q \in Int
    PROVE  p < q <=> m * p < m * q
<1>1. ASSUME NEW x \in Int, NEW y \in Int, x < y
      PROVE  m * x < m * y
    <2>1. PICK d \in Nat : d > 0 /\ y = x + d
        <3>1. y - x \in Nat /\ y - x > 0 /\ y = x + (y - x)
            BY <1>1
        <3> QED BY <3>1
    <2>2. m * y = m * x + m * d
        BY <2>1
    <2>3. m * d > 0 /\ m * x \in Int /\ m * d \in Int
        BY <2>1
    <2> QED BY <2>2, <2>3
<1>2. ASSUME p >= q
      PROVE  m * p >= m * q
    <2>1. CASE p = q
        BY <2>1
    <2>2. CASE q < p
        <3>1. m * q < m * p /\ m * q \in Int /\ m * p \in Int
            BY <1>1, <2>2
        <3> QED BY <3>1
    <2> QED BY <1>2, <2>1, <2>2
<1>3. m * p \in Int /\ m * q \in Int
    OBVIOUS
<1> QED BY <1>1, <1>2, <1>3

\* Products of natural numbers are natural, and positive when both factors are.
LEMMA Products ==
    ASSUME NEW m \in Nat, NEW n \in Nat
    PROVE  m * n \in Nat /\ (m # 0 /\ n # 0 => m * n \in Nat \ {0})
<1>1. m * n \in Int /\ m * 0 = 0 /\ 0 * n = 0 /\ 0 \in Int /\ n \in Int
    OBVIOUS
<1>2. CASE m = 0 \/ n = 0
    BY <1>1, <1>2
<1>3. CASE m # 0 /\ n # 0
    <2>1. m * 0 < m * n
        BY <1>1, <1>3, Times
    <2> QED BY <1>1, <2>1
<1> QED BY <1>2, <1>3

\* Comparing fractions by cross multiplication is transitive.
LEMMA CrossMultiplied ==
    ASSUME NEW a \in Nat, NEW c \in Nat, NEW e \in Nat,
           NEW b \in Nat \ {0}, NEW d \in Nat \ {0}, NEW f \in Nat \ {0},
           a * d >= c * b, c * f >= e * d
    PROVE  a * f >= e * b /\ (a * d > c * b \/ c * f > e * d => a * f > e * b)
<1>1. /\ a * d \in Int /\ c * b \in Int /\ c * f \in Int /\ e * d \in Int
      /\ f * (a * d) \in Int /\ f * (c * b) \in Int /\ b * (c * f) \in Int /\ b * (e * d) \in Int
      /\ a * f \in Int /\ e * b \in Int
    OBVIOUS
<1>2. f * (a * d) >= f * (c * b) /\ (a * d > c * b => f * (a * d) > f * (c * b))
    BY <1>1, Times
<1>3. b * (c * f) >= b * (e * d) /\ (c * f > e * d => b * (c * f) > b * (e * d))
    BY <1>1, Times
<1>4. f * (a * d) = d * (a * f) /\ b * (e * d) = d * (e * b) /\ f * (c * b) = b * (c * f)
    OBVIOUS
<1>5. d * (a * f) \in Int /\ d * (e * b) \in Int
    OBVIOUS
<1>6. d * (a * f) >= d * (e * b) /\ (a * d > c * b \/ c * f > e * d => d * (a * f) > d * (e * b))
    BY ONLY <1>1, <1>2, <1>3, <1>4, <1>5
<1>7. (a * f < e * b <=> d * (a * f) < d * (e * b)) /\ (e * b < a * f <=> d * (e * b) < d * (a * f))
    BY ONLY <1>1, d \in Nat \ {0}, Times
<1> QED BY ONLY <1>1, <1>5, <1>6, <1>7

\* Non-negative fractions.
Fraction == [over : Nat, under : Nat \ {0}]

\* Fractions are totally preordered.
LEMMA FractionsAreOrdered ==
    ASSUME NEW x \in Fraction, NEW y \in Fraction, NEW z \in Fraction
    PROVE  /\ ~(Exceeds(x, y) /\ Exceeds(y, x))
           /\ ~Exceeds(y, x) /\ ~Exceeds(z, y) => /\ ~Exceeds(z, x)
                                                  /\ Exceeds(x, y) \/ Exceeds(y, z) => Exceeds(x, z)
<1>1. /\ x.over \in Nat /\ y.over \in Nat /\ z.over \in Nat
      /\ x.under \in Nat \ {0} /\ y.under \in Nat \ {0} /\ z.under \in Nat \ {0}
    BY DEF Fraction
<1>2. /\ x.over * y.under \in Int /\ y.over * x.under \in Int
      /\ y.over * z.under \in Int /\ z.over * y.under \in Int
      /\ x.over * z.under \in Int /\ z.over * x.under \in Int
    BY <1>1
<1>3. ~(Exceeds(x, y) /\ Exceeds(y, x))
    BY ONLY <1>2 DEF Exceeds
<1>4. ASSUME ~Exceeds(y, x), ~Exceeds(z, y)
      PROVE  ~Exceeds(z, x) /\ (Exceeds(x, y) \/ Exceeds(y, z) => Exceeds(x, z))
    <2>1. x.over * y.under >= y.over * x.under /\ y.over * z.under >= z.over * y.under
        BY ONLY <1>2, <1>4 DEF Exceeds
    <2>2. /\ x.over * z.under >= z.over * x.under
          /\ x.over * y.under > y.over * x.under \/ y.over * z.under > z.over * y.under
                => x.over * z.under > z.over * x.under
        BY ONLY <1>1, <2>1, CrossMultiplied
    <2> QED BY ONLY <1>2, <2>1, <2>2 DEF Exceeds
<1> QED BY ONLY <1>3, <1>4

\* The keys a document shares with the localized Entities have a finite weight.
LEMMA EntityScoreIsANumber ==
    ASSUME NEW d, IsFiniteSet(d.keys), NEW c
    PROVE  EntityScore(d, c) \in Int
<1>1. PICK keys : keys = d.keys \cap LocalizedKeys(c)
    OBVIOUS
<1>2. PICK weight : weight = [key \in keys |-> KeyWeight(key)]
    OBVIOUS
<1>3. IsFiniteSet(keys)
    BY <1>1, FS_Subset
<1>4. \A key \in keys : weight[key] \in Int
    BY <1>2 DEF KeyWeight
<1>5. SumFunctionOnSet(weight, keys) \in Int
    BY <1>3, <1>4, SumOfMembers
<1>6. EntityScore(d, c) = SumFunctionOnSet(weight, keys)
    BY <1>1, <1>2 DEF EntityScore, SumFunction
<1> QED BY <1>5, <1>6

\* The order of Ranked, for a score that is a function.
ByScore(S, score) ==
    {p \in S \X S : score[p[1]] > score[p[2]] \/ (score[p[1]] = score[p[2]] /\ p[1].id < p[2].id)}

\* Documents with ids of their own.
Listed(S) == IsFiniteSet(S) /\ \A d \in S : d.id \in Nat /\ \A e \in S : d.id = e.id => d = e

\* Scores, and ids among equals, leave no two documents unordered.
LEMMA ByScoreIsStrict ==
    ASSUME NEW S, Listed(S), NEW score, \A d \in S : score[d] \in Int
    PROVE  StrictOrder(S, ByScore(S, score))
<1>1. \A x, y \in S : <<x, y>> \in ByScore(S, score) <=>
                          score[x] > score[y] \/ (score[x] = score[y] /\ x.id < y.id)
    BY DEF ByScore
<1>2. \A x \in S : <<x, x>> \notin ByScore(S, score)
    BY <1>1 DEF Listed
<1>3. ASSUME NEW x \in S, NEW y \in S, x # y
      PROVE  <<x, y>> \in ByScore(S, score) \/ <<y, x>> \in ByScore(S, score)
    BY <1>1, <1>3 DEF Listed
<1>4. ASSUME NEW x \in S, NEW y \in S, NEW z \in S,
             <<x, y>> \in ByScore(S, score), <<y, z>> \in ByScore(S, score)
      PROVE  <<x, z>> \in ByScore(S, score)
    BY <1>1, <1>4 DEF Listed
<1> QED BY <1>2, <1>3, <1>4 DEF StrictOrder

\* The first members of a sequence stand where they stood.
LEMMA LimitedMembers ==
    ASSUME NEW S, NEW s \in Seq(S), NEW n \in Nat
    PROVE  /\ Limited(s, n) \in Seq(S)
           /\ \A k \in DOMAIN Limited(s, n) : k \in DOMAIN s /\ k <= n /\ Limited(s, n)[k] = s[k]
           /\ \A k \in DOMAIN s : k <= n => k \in DOMAIN Limited(s, n)
<1>1. PICK last \in Nat : last = Len(s) /\ DOMAIN s = 1..last
    OBVIOUS
<1>2. PICK size : size = Min({n, last})
    OBVIOUS
<1>3. size = IF n <= last THEN n ELSE last
    BY <1>2, LesserOfTwo
<1>4. size \in Nat /\ size <= n /\ size <= last /\ (size = n \/ size = last)
    BY <1>3
<1>5. PICK first : first = SubSeq(s, 1, size)
    OBVIOUS
<1>6. Limited(s, n) = first
    BY ONLY <1>1, <1>2, <1>5 DEF Limited
<1>7. first \in Seq(S) /\ DOMAIN first = 1..size /\ \A k \in 1..size : first[k] = s[k]
    BY <1>1, <1>4, <1>5
<1>8. \A k \in 1..last : k <= n => k \in 1..size
    BY <1>4
<1>9. \A k \in 1..size : k \in 1..last /\ k <= n
    BY <1>4
<1> QED BY ONLY <1>1, <1>6, <1>7, <1>8, <1>9

\* Each ranking lists some of the documents, none of them twice.
LEMMA RankingsAreInjective ==
    ASSUME NEW E, Listed(E), NEW c, NEW i,
           \A d \in E : d.lexical \in Nat /\ d.semantic \in Int /\ IsFiniteSet(d.keys)
    PROVE  /\ LexicalRanking(E, c) \in Seq(E) /\ IsInjective(LexicalRanking(E, c))
           /\ SemanticRanking(E, i) \in Seq(E) /\ IsInjective(SemanticRanking(E, i))
<1>1. ASSUME NEW S \in SUBSET E, NEW score, \A d \in S : score[d] \in Int
      PROVE  Sorted(S, ByScore(S, score)) \in Seq(E) /\ IsInjective(Sorted(S, ByScore(S, score)))
    <2>1. Listed(S) /\ IsFiniteSet(S)
        BY FS_Subset DEF Listed
    <2>2. Sorted(S, ByScore(S, score)) \in Seq(S) /\ IsInjective(Sorted(S, ByScore(S, score)))
        BY <1>1, <2>1, ByScoreIsStrict, SortedMembers
    <2> QED BY <2>2
<1>2. PICK S : S = {d \in E : d.lexical > 0}
    OBVIOUS
<1>3. PICK score : score = [d \in S |-> d.lexical + EntityScore(d, c)]
    OBVIOUS
<1>4. LexicalRanking(E, c) = Sorted(S, ByScore(S, score))
    <2>1. \A p \in S \X S : p[1] \in S /\ p[2] \in S
        OBVIOUS
    <2>2. \A d \in S : score[d] = d.lexical + EntityScore(d, c)
        BY <1>3
    <2>3. ByScore(S, score) =
             {p \in S \X S : \/ p[1].lexical + EntityScore(p[1], c) > p[2].lexical + EntityScore(p[2], c)
                             \/ /\ p[1].lexical + EntityScore(p[1], c) = p[2].lexical + EntityScore(p[2], c)
                                /\ p[1].id < p[2].id}
        BY ONLY <2>1, <2>2 DEF ByScore
    <2> QED BY ONLY <1>2, <2>3 DEF LexicalRanking, Ranked, Ordered
<1>5. \A d \in S : score[d] \in Int
    BY <1>2, <1>3, EntityScoreIsANumber
<1>6. PICK T : T = {d \in E : <<d.id, d.hash>> \in i}
    OBVIOUS
<1>7. PICK similarity : similarity = [d \in T |-> d.semantic]
    OBVIOUS
<1>8. Nearest(T) = Sorted(T, ByScore(T, similarity))
    <2>1. \A p \in T \X T : p[1] \in T /\ p[2] \in T
        OBVIOUS
    <2>2. \A d \in T : similarity[d] = d.semantic
        BY <1>7
    <2>3. ByScore(T, similarity) =
             {p \in T \X T : p[1].semantic > p[2].semantic \/ (p[1].semantic = p[2].semantic /\ p[1].id < p[2].id)}
        BY ONLY <2>1, <2>2 DEF ByScore
    <2> QED BY ONLY <2>3 DEF Nearest, Ranked, Ordered
<1>9. \A d \in T : similarity[d] \in Int
    BY <1>6, <1>7
<1>10. S \in SUBSET E /\ T \in SUBSET E
    BY <1>2, <1>6
<1>11. Nearest(T) \in Seq(E) /\ IsInjective(Nearest(T))
    BY ONLY <1>1, <1>8, <1>9, <1>10
<1>12. SemanticRanking(E, i) = Limited(Nearest(T), SearchLimit)
    BY ONLY <1>6 DEF SemanticRanking, Indexed
<1>13. SemanticRanking(E, i) \in Seq(E) /\ IsInjective(SemanticRanking(E, i))
    <2>1. SearchLimit \in Nat
        BY KnowledgeLimits
    <2>2. /\ SemanticRanking(E, i) \in Seq(E)
          /\ \A k \in DOMAIN SemanticRanking(E, i) :
                 k \in DOMAIN Nearest(T) /\ SemanticRanking(E, i)[k] = Nearest(T)[k]
        BY <1>11, <1>12, <2>1, LimitedMembers
    <2> QED BY ONLY <1>11, <2>2 DEF IsInjective
<1> QED BY ONLY <1>1, <1>4, <1>5, <1>10, <1>13

\* What a ranking adds is a fraction, the smaller the later a document stands.
LEMMA SharesAreFractions ==
    ASSUME NEW E, NEW ranking \in Seq(E), IsInjective(ranking), NEW d
    PROVE  /\ Share(ranking, d) \in Fraction
           /\ \A k \in DOMAIN ranking : ranking[k] = d => Share(ranking, d) = [over |-> 1, under |-> 60 + k]
<1>1. PICK n \in Nat : DOMAIN ranking = 1..n
    OBVIOUS
<1>2. ASSUME NEW k \in DOMAIN ranking, ranking[k] = d
      PROVE  Share(ranking, d) = [over |-> 1, under |-> 60 + k] /\ Share(ranking, d) \in Fraction
    <2>1. (CHOOSE r \in DOMAIN ranking : ranking[r] = d) = k
        BY <1>2 DEF IsInjective
    <2>2. d \in Range(ranking)
        BY <1>2 DEF Range
    <2>3. Share(ranking, d) = [over |-> 1, under |-> 60 + k]
        BY ONLY <2>1, <2>2 DEF Share, RankConstant
    <2>4. 60 + k \in Nat \ {0}
        BY <1>1
    <2> QED BY ONLY <2>3, <2>4 DEF Fraction
<1>3. ASSUME d \notin Range(ranking)
      PROVE  Share(ranking, d) \in Fraction
    <2>1. Share(ranking, d) = [over |-> 0, under |-> 1]
        BY ONLY <1>3 DEF Share
    <2> QED BY ONLY <2>1 DEF Fraction
<1>4. d \in Range(ranking) => \E k \in DOMAIN ranking : ranking[k] = d
    BY DEF Range
<1> QED BY ONLY <1>2, <1>3, <1>4

\* The fused score of a document is a fraction, too.
LEMMA FusedScoresAreFractions ==
    ASSUME NEW E, NEW lexical \in Seq(E), IsInjective(lexical), NEW semantic \in Seq(E), IsInjective(semantic), NEW d
    PROVE  FusedScore(d, lexical, semantic) \in Fraction
<1>1. PICK x, y : x = Share(lexical, d) /\ y = Share(semantic, d)
    OBVIOUS
<1>2. x \in Fraction /\ y \in Fraction
    BY <1>1, SharesAreFractions
<1>3. /\ x.over \in Nat /\ y.over \in Nat /\ x.under \in Nat \ {0} /\ y.under \in Nat \ {0}
    BY ONLY <1>2 DEF Fraction
<1>4. x.over * y.under + y.over * x.under \in Nat /\ x.under * y.under \in Nat \ {0}
    <2>1. PICK a \in Nat, b \in Nat \ {0}, c \in Nat, e \in Nat \ {0} :
              a = x.over /\ b = x.under /\ c = y.over /\ e = y.under
        BY ONLY <1>3
    <2>2. a * e \in Nat /\ c * b \in Nat /\ b * e \in Nat \ {0}
        BY ONLY <2>1, Products
    <2> QED BY ONLY <2>1, <2>2
<1>5. FusedScore(d, lexical, semantic) = [over |-> x.over * y.under + y.over * x.under, under |-> x.under * y.under]
    BY ONLY <1>1 DEF FusedScore
<1> QED BY ONLY <1>4, <1>5 DEF Fraction

\* The order of Fusion on the documents of both rankings.
FusedOrder(U, lexical, semantic) ==
    {p \in U \X U : \/ Exceeds(FusedScore(p[1], lexical, semantic), FusedScore(p[2], lexical, semantic))
                    \/ /\ ~Exceeds(FusedScore(p[2], lexical, semantic), FusedScore(p[1], lexical, semantic))
                       /\ p[1].id < p[2].id}

\* It leaves no two documents unordered.
LEMMA FusedOrderIsStrict ==
    ASSUME NEW E, NEW lexical \in Seq(E), IsInjective(lexical), NEW semantic \in Seq(E), IsInjective(semantic),
           NEW U, Listed(U)
    PROVE  StrictOrder(U, FusedOrder(U, lexical, semantic))
<1>1. PICK R : R = FusedOrder(U, lexical, semantic)
    OBVIOUS
<1>2. PICK score : score = [d \in U |-> FusedScore(d, lexical, semantic)]
    OBVIOUS
<1>3. \A d \in U : score[d] \in Fraction
    BY <1>2, FusedScoresAreFractions
<1>4. \A x, y \in U : <<x, y>> \in R <=> \/ Exceeds(score[x], score[y])
                                         \/ ~Exceeds(score[y], score[x]) /\ x.id < y.id
    BY ONLY <1>1, <1>2 DEF FusedOrder
<1>5. \A x, y, z \in U :
          /\ ~(Exceeds(score[x], score[y]) /\ Exceeds(score[y], score[x]))
          /\ ~Exceeds(score[y], score[x]) /\ ~Exceeds(score[z], score[y]) =>
                 /\ ~Exceeds(score[z], score[x])
                 /\ Exceeds(score[x], score[y]) \/ Exceeds(score[y], score[z]) => Exceeds(score[x], score[z])
    BY ONLY <1>3, FractionsAreOrdered
<1>6. \A x \in U : x.id \in Nat
    BY DEF Listed
<1>7. \A x \in U : <<x, x>> \notin R
    BY ONLY <1>4, <1>5, <1>6
<1>8. ASSUME NEW x \in U, NEW y \in U, x # y
      PROVE  <<x, y>> \in R \/ <<y, x>> \in R
    <2>1. x.id < y.id \/ y.id < x.id
        BY <1>6, <1>8 DEF Listed
    <2> QED BY ONLY <1>4, <1>5, <2>1, x \in U, y \in U
<1>9. ASSUME NEW x \in U, NEW y \in U, NEW z \in U, <<x, y>> \in R, <<y, z>> \in R
      PROVE  <<x, z>> \in R
    <2>1. ~Exceeds(score[y], score[x]) /\ ~Exceeds(score[z], score[y])
        BY ONLY <1>4, <1>5, <1>9
    <2>2. /\ ~Exceeds(score[z], score[x])
          /\ Exceeds(score[x], score[y]) \/ Exceeds(score[y], score[z]) => Exceeds(score[x], score[z])
        BY ONLY <1>5, <2>1, x \in U, y \in U, z \in U
    <2>3. ~Exceeds(score[x], score[y]) /\ ~Exceeds(score[y], score[z]) => x.id < z.id
        <3> SUFFICES ASSUME ~Exceeds(score[x], score[y]), ~Exceeds(score[y], score[z])
                     PROVE  x.id < z.id
            OBVIOUS
        <3>1. x.id < y.id
            BY ONLY <1>4, <1>9, ~Exceeds(score[x], score[y]), x \in U, y \in U
        <3>2. y.id < z.id
            BY ONLY <1>4, <1>9, ~Exceeds(score[y], score[z]), y \in U, z \in U
        <3>3. x.id \in Nat /\ y.id \in Nat /\ z.id \in Nat
            BY ONLY <1>6, x \in U, y \in U, z \in U
        <3> QED BY ONLY <3>1, <3>2, <3>3
    <2> QED BY ONLY <1>4, <2>2, <2>3, x \in U, z \in U
<1> QED BY ONLY <1>1, <1>7, <1>8, <1>9 DEF StrictOrder

\* What a ranking that prefers one document to another says of both.
LEMMA PreferredShares ==
    ASSUME NEW E, NEW ranking \in Seq(E), IsInjective(ranking), NEW a, NEW b, Prefers(ranking, a, b)
    PROVE  /\ a \in Range(ranking)
           /\ \E n \in Nat \ {0} :
                  /\ Share(ranking, a) = [over |-> 1, under |-> n]
                  /\ \/ Share(ranking, b) = [over |-> 0, under |-> 1]
                     \/ \E m \in Nat : n < m /\ Share(ranking, b) = [over |-> 1, under |-> m]
<1>1. PICK j \in DOMAIN ranking : ranking[j] = a /\ \A k \in DOMAIN ranking : ranking[k] = b => j < k
    BY DEF Prefers
<1>2. DOMAIN ranking \subseteq Nat
    OBVIOUS
<1>3. Share(ranking, a) = [over |-> 1, under |-> 60 + j] /\ 60 + j \in Nat \ {0}
    BY <1>1, <1>2, SharesAreFractions
<1>4. CASE b \in Range(ranking)
    <2>1. PICK k \in DOMAIN ranking : ranking[k] = b
        BY <1>4 DEF Range
    <2>2. Share(ranking, b) = [over |-> 1, under |-> 60 + k]
        BY <2>1, SharesAreFractions
    <2>3. 60 + k \in Nat /\ 60 + j < 60 + k
        BY <1>1, <1>2, <2>1
    <2> QED BY <1>1, <1>3, <2>2, <2>3 DEF Range
<1>5. CASE b \notin Range(ranking)
    <2>1. Share(ranking, b) = [over |-> 0, under |-> 1]
        BY ONLY <1>5 DEF Share
    <2> QED BY <1>1, <1>3, <2>1 DEF Range
<1> QED BY <1>4, <1>5

LEMMA Sums == \A x, y, z \in Int :
                   /\ y \in Nat /\ z < x => x + y > z
                   /\ x \in Nat /\ z < y => x + y > z
    OBVIOUS

\* Whoever both rankings prefer has the higher fused score.
LEMMA AgreementRaisesTheScore ==
    ASSUME NEW E, NEW lexical \in Seq(E), IsInjective(lexical), NEW semantic \in Seq(E), IsInjective(semantic),
           NEW a, NEW b, Prefers(lexical, a, b), Prefers(semantic, a, b)
    PROVE  Exceeds(FusedScore(a, lexical, semantic), FusedScore(b, lexical, semantic))
<1>1. PICK P \in Nat \ {0} :
          /\ Share(lexical, a) = [over |-> 1, under |-> P]
          /\ \/ Share(lexical, b) = [over |-> 0, under |-> 1]
             \/ \E m \in Nat : P < m /\ Share(lexical, b) = [over |-> 1, under |-> m]
    BY PreferredShares
<1>2. PICK R \in Nat \ {0} :
          /\ Share(semantic, a) = [over |-> 1, under |-> R]
          /\ \/ Share(semantic, b) = [over |-> 0, under |-> 1]
             \/ \E m \in Nat : R < m /\ Share(semantic, b) = [over |-> 1, under |-> m]
    BY PreferredShares
<1>3. FusedScore(a, lexical, semantic) = [over |-> R + P, under |-> P * R]
    BY ONLY <1>1, <1>2, P \in Nat \ {0}, R \in Nat \ {0} DEF FusedScore
<1>4. P * R \in Nat
    BY Products
<1>5. CASE Share(lexical, b) = [over |-> 0, under |-> 1] /\ Share(semantic, b) = [over |-> 0, under |-> 1]
    <2>1. FusedScore(b, lexical, semantic) = [over |-> 0, under |-> 1]
        BY ONLY <1>5 DEF FusedScore
    <2>2. (R + P) * 1 > 0 * (P * R)
        <3>1. \A z \in Nat : 0 * z = 0
            OBVIOUS
        <3> QED BY <1>4, <3>1
    <2> QED BY ONLY <1>3, <2>1, <2>2 DEF Exceeds
<1>6. ASSUME NEW Q \in Nat, P < Q, Share(lexical, b) = [over |-> 1, under |-> Q],
             Share(semantic, b) = [over |-> 0, under |-> 1]
      PROVE  Exceeds(FusedScore(a, lexical, semantic), FusedScore(b, lexical, semantic))
    <2>1. FusedScore(b, lexical, semantic) = [over |-> 1, under |-> Q]
        BY ONLY <1>6 DEF FusedScore
    <2>2. R * P < R * Q
        BY <1>6, Times
    <2>3. /\ R * P = P * R /\ (R + P) * Q = R * Q + P * Q
          /\ R * Q \in Int /\ P * Q \in Nat /\ 1 * (P * R) = P * R
        BY <1>4, Products
    <2>4. R * Q + P * Q > P * R
        BY ONLY <1>4, <2>2, <2>3, Sums
    <2>5. (R + P) * Q > 1 * (P * R)
        BY ONLY <2>3, <2>4, Zenon
    <2> QED BY ONLY <1>3, <2>1, <2>5 DEF Exceeds
<1>7. ASSUME NEW T \in Nat, R < T, Share(semantic, b) = [over |-> 1, under |-> T],
             Share(lexical, b) = [over |-> 0, under |-> 1]
      PROVE  Exceeds(FusedScore(a, lexical, semantic), FusedScore(b, lexical, semantic))
    <2>1. FusedScore(b, lexical, semantic) = [over |-> 1, under |-> T]
        BY ONLY <1>7 DEF FusedScore
    <2>2. P * R < P * T
        BY <1>7, Times
    <2>3. (R + P) * T = R * T + P * T /\ P * T \in Int /\ R * T \in Nat /\ 1 * (P * R) = P * R
        BY <1>4, Products
    <2>4. R * T + P * T > P * R
        BY ONLY <1>4, <2>2, <2>3, Sums
    <2>5. (R + P) * T > 1 * (P * R)
        BY ONLY <2>3, <2>4, Zenon
    <2> QED BY ONLY <1>3, <2>1, <2>5 DEF Exceeds
<1>8. ASSUME NEW Q \in Nat, P < Q, Share(lexical, b) = [over |-> 1, under |-> Q],
             NEW T \in Nat, R < T, Share(semantic, b) = [over |-> 1, under |-> T]
      PROVE  Exceeds(FusedScore(a, lexical, semantic), FusedScore(b, lexical, semantic))
    <2>1. FusedScore(b, lexical, semantic) = [over |-> T + Q, under |-> Q * T]
        BY ONLY <1>8, Q \in Nat, T \in Nat DEF FusedScore
    <2>2. P \in Nat \ {0} /\ Q \in Nat \ {0} /\ R \in Nat \ {0} /\ T \in Nat \ {0} /\ P < Q /\ R < T
        BY <1>8
    <2>3. (R + P) * (Q * T) > (T + Q) * (P * R)
        <3>1. /\ (R + P) * (Q * T) = R * (Q * T) + P * (Q * T)
              /\ (T + Q) * (P * R) = T * (P * R) + Q * (P * R)
            BY ONLY <2>2
        <3>2. P * (Q * T) = (P * Q) * T /\ Q * (P * R) = (P * Q) * R /\ P * Q \in Nat \ {0}
            BY ONLY <2>2
        <3>3. R * (Q * T) = (R * T) * Q /\ T * (P * R) = (R * T) * P /\ R * T \in Nat \ {0}
            BY ONLY <2>2
        <3>4. (P * Q) * R < (P * Q) * T
            BY ONLY <2>2, <3>2, Times
        <3>5. (R * T) * P < (R * T) * Q
            BY ONLY <2>2, <3>3, Times
        <3>6. (P * Q) * R \in Int /\ (P * Q) * T \in Int /\ (R * T) * P \in Int /\ (R * T) * Q \in Int
            BY ONLY <2>2, <3>2, <3>3
        <3> QED BY ONLY <3>1, <3>2, <3>3, <3>4, <3>5, <3>6
    <2> QED BY ONLY <1>3, <2>1, <2>3 DEF Exceeds
<1> QED BY ONLY <1>1, <1>2, <1>5, <1>6, <1>7, <1>8

\* The fusion of two rankings keeps what both say.
LEMMA FusionAgrees ==
    ASSUME NEW E, Listed(E),
           NEW lexical \in Seq(E), IsInjective(lexical), NEW semantic \in Seq(E), IsInjective(semantic),
           NEW a, NEW b, a # b, Prefers(lexical, a, b), Prefers(semantic, a, b)
    PROVE  Prefers(Fusion(lexical, semantic), a, b) /\ Fusion(lexical, semantic) \in Seq(E)
<1>1. PICK U : U = Range(lexical) \cup Range(semantic)
    OBVIOUS
<1>2. U \in SUBSET E
    BY <1>1 DEF Range
<1>3. Listed(U) /\ IsFiniteSet(U)
    BY <1>2, FS_Subset DEF Listed
<1>4. PICK R : R = FusedOrder(U, lexical, semantic)
    OBVIOUS
<1>5. StrictOrder(U, R)
    BY <1>3, <1>4, FusedOrderIsStrict
<1>6. PICK fused : fused = Fusion(lexical, semantic)
    OBVIOUS
<1>7. fused = Sorted(U, R)
    BY ONLY <1>1, <1>4, <1>6 DEF Fusion, FusedOrder, Ordered
<1>8. PICK n : n = Cardinality(U)
    OBVIOUS
<1>9. /\ fused \in Seq(U) /\ Len(fused) = n
      /\ \A x \in U : \E k \in 1..n : fused[k] = x
      /\ \A j, k \in 1..n : j < k => <<fused[j], fused[k]>> \in R
    <2>1. /\ Sorted(U, R) \in Seq(U) /\ Len(Sorted(U, R)) = Cardinality(U)
          /\ \A x \in U : \E k \in 1..Cardinality(U) : Sorted(U, R)[k] = x
          /\ \A j, k \in 1..Cardinality(U) : j < k => <<Sorted(U, R)[j], Sorted(U, R)[k]>> \in R
        BY ONLY <1>3, <1>5, SortedIsInOrder
    <2> QED BY ONLY <1>7, <1>8, <2>1
<1>10. a \in U
    BY <1>1, PreferredShares
<1>11. DOMAIN fused = 1..n /\ n \in Nat
    BY ONLY <1>9
<1>12. PICK j \in 1..n : fused[j] = a
    BY ONLY <1>9, <1>10
<1>13. ASSUME NEW k \in 1..n, fused[k] = b
      PROVE  j < k
    <2>1. b \in U
        BY ONLY <1>9, <1>11, <1>13
    <2>2. <<a, b>> \in R
        <3>1. Exceeds(FusedScore(a, lexical, semantic), FusedScore(b, lexical, semantic))
            BY AgreementRaisesTheScore
        <3> QED BY ONLY <1>4, <1>10, <2>1, <3>1 DEF FusedOrder
    <2>3. <<b, a>> \notin R
        BY ONLY <1>5, <1>10, <2>1, <2>2 DEF StrictOrder
    <2>4. j # k
        BY ONLY <1>12, <1>13, a # b
    <2>5. ~(k < j)
        BY ONLY <1>9, <1>12, <1>13, <2>3
    <2> QED BY ONLY <1>11, <2>4, <2>5, j \in 1..n, k \in 1..n
<1>14. Prefers(fused, a, b)
    BY ONLY <1>11, <1>12, <1>13 DEF Prefers
<1>15. fused \in Seq(E)
    BY <1>2, <1>9
<1> QED BY ONLY <1>6, <1>14, <1>15

\* A limit on the number of references does not reorder them.
LEMMA LimitsKeepAgreement ==
    ASSUME NEW E, NEW fused \in Seq(E), NEW a, NEW b, Prefers(fused, a, b), b \in Range(Returned(fused))
    PROVE  a \in Range(Returned(fused))
<1>1. PICK j \in DOMAIN fused : fused[j] = a /\ \A k \in DOMAIN fused : fused[k] = b => j < k
    BY DEF Prefers
<1>2. TopK \in Nat
    BY KnowledgeLimits
<1>3. /\ \A k \in DOMAIN Limited(fused, TopK) :
             k \in DOMAIN fused /\ k <= TopK /\ Limited(fused, TopK)[k] = fused[k]
      /\ \A k \in DOMAIN fused : k <= TopK => k \in DOMAIN Limited(fused, TopK)
    BY <1>2, LimitedMembers
<1>4. PICK k \in DOMAIN Limited(fused, TopK) : Limited(fused, TopK)[k] = b
    BY DEF Returned, Range
<1>5. j < k /\ k <= TopK /\ j \in Nat /\ k \in Nat
    <2>1. DOMAIN fused \subseteq Nat
        OBVIOUS
    <2> QED BY <1>1, <1>3, <1>4, <2>1
<1>6. j \in DOMAIN Limited(fused, TopK) /\ Limited(fused, TopK)[j] = a
    BY ONLY <1>1, <1>2, <1>3, <1>5
<1> QED BY ONLY <1>6 DEF Returned, Range

\* In every state, for what the rankings find in the corpus and in the index.
LEMMA FusionOfSoundCorpora == TypeOK => FusionRespectsAgreement
<1> SUFFICES ASSUME TypeOK, phase = "started", CorpusIsSound(corpus)
             PROVE  FusionRespectsAgreement
    BY DEF FusionRespectsAgreement
<1> DEFINE E == {d \in corpus : Eligible(d, context)}
           lexical == LexicalRanking(E, context)
           semantic == SemanticRanking(E, index)
           fused == Fusion(lexical, semantic)
<1>1. Listed(E) /\ \A d \in E : d.lexical \in Nat /\ d.semantic \in Int /\ IsFiniteSet(d.keys)
    <2>1. corpus \in Corpora /\ E \in SUBSET corpus
        BY DEF TypeOK
    <2>2. IsFiniteSet(E)
        BY <2>1, CorporaAreListed, FS_Subset
    <2> HIDE DEF E
    <2> QED BY <2>1, <2>2, CorporaAreListed DEF Listed, CorpusIsSound
<1> HIDE DEF E
<1>2. lexical \in Seq(E) /\ IsInjective(lexical) /\ semantic \in Seq(E) /\ IsInjective(semantic)
    BY <1>1, RankingsAreInjective
<1> HIDE DEF lexical, semantic
<1>3. ASSUME NEW a \in E, NEW b \in E, a # b, Prefers(lexical, a, b), Prefers(semantic, a, b)
      PROVE  Prefers(fused, a, b) /\ (b \in Range(Returned(fused)) => a \in Range(Returned(fused)))
    <2>1. Prefers(fused, a, b) /\ fused \in Seq(E)
        BY <1>1, <1>2, <1>3, FusionAgrees
    <2> HIDE DEF fused
    <2> QED BY <2>1, LimitsKeepAgreement
<1> HIDE DEF fused
<1>4. \A a, b \in E : a # b /\ Prefers(lexical, a, b) /\ Prefers(semantic, a, b) =>
          /\ Prefers(fused, a, b)
          /\ b \in Range(Returned(fused)) => a \in Range(Returned(fused))
    BY <1>3
<1> QED BY <1>4 DEF FusionRespectsAgreement, E, lexical, semantic, fused

\* A document of a sound corpus that both rankings prefer to another, listed by both or by
\* one, is preferred to it by their fusion and not cut off before it:
\* _reciprocal_rank_fusion (knowledge.py:674) and the limit on the references.
THEOREM FusionKeepsAgreement == Spec => []FusionRespectsAgreement
<1>1. InvestigationInv => FusionRespectsAgreement
    BY FusionOfSoundCorpora DEF InvestigationInv
<1> QED BY <1>1, InvestigationHolds, PTL
=============================================================================
