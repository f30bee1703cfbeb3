--------------------------- MODULE Ordering_proofs --------------------------
(***************************************************************************)
(* What sorting a finite set, picking places of a sequence and adding up a    *)
(* finite set give.  Sorting needs no induction: a member of a finite,        *)
(* strictly ordered set stands where as many come before it, and counting     *)
(* shows that every place is taken once.  Sums are folds: what holds of the   *)
(* subsets of a finite set, member by member, is itself a set of subsets, and *)
(* a smallest subset outside it would be a counterexample.                   *)
(***************************************************************************)
EXTENDS Ordering, FiniteSetsExt, SequencesExt, Functions, FiniteSetTheorems, SequenceTheorems, TLAPS

\* A function on 1..n is a sequence of length n.
LEMMA FunctionIsASequence ==
    ASSUME NEW S, NEW n \in Nat, NEW f \in [1..n -> S]
    PROVE  f \in Seq(S) /\ Len(f) = n
OBVIOUS

\* Two sequences of one length with the same members at the same places are one.
LEMMA SameSequence ==
    ASSUME NEW S, NEW s \in Seq(S), NEW t \in Seq(S), Len(s) = Len(t), \A k \in DOMAIN s : s[k] = t[k]
    PROVE  s = t
<1>1. s = [k \in 1..Len(s) |-> s[k]] /\ t = [k \in 1..Len(t) |-> t[k]] /\ DOMAIN s = 1..Len(s)
    OBVIOUS
<1>2. [k \in 1..Len(s) |-> s[k]] = [k \in 1..Len(t) |-> t[k]]
    BY <1>1
<1> QED BY <1>1, <1>2

-----------------------------------------------------------------------------
(* Sorting a finite set                                                    *)

StrictOrder(S, R) ==
    /\ \A x \in S : <<x, x>> \notin R
    /\ \A x, y \in S : x # y => <<x, y>> \in R \/ <<y, x>> \in R
    /\ \A x, y, z \in S : <<x, y>> \in R /\ <<y, z>> \in R => <<x, z>> \in R

\* Who comes later has more before it.
LEMMA AheadGrows ==
    ASSUME NEW S, IsFiniteSet(S), NEW R, StrictOrder(S, R)
    PROVE  /\ \A x \in S : IsFiniteSet(Ahead(S, R, x)) /\ Cardinality(Ahead(S, R, x)) \in 0..(Cardinality(S) - 1)
           /\ \A x, y \in S : <<x, y>> \in R => /\ Ahead(S, R, x) \subseteq Ahead(S, R, y)
                                                /\ Cardinality(Ahead(S, R, x)) < Cardinality(Ahead(S, R, y))
<1>1. \A x \in S : IsFiniteSet(Ahead(S, R, x)) /\ Cardinality(Ahead(S, R, x)) \in Nat
    <2> SUFFICES ASSUME NEW x \in S
                 PROVE  IsFiniteSet(Ahead(S, R, x)) /\ Cardinality(Ahead(S, R, x)) \in Nat
        OBVIOUS
    <2>1. Ahead(S, R, x) \in SUBSET S
        BY DEF Ahead
    <2> QED BY <2>1, FS_Subset, FS_CardinalityType
<1>2. ASSUME NEW T \in SUBSET S, NEW U \in SUBSET T, NEW x \in T, x \notin U
      PROVE  Cardinality(U) < Cardinality(T)
    <2>1. IsFiniteSet(T) /\ IsFiniteSet(U)
        BY FS_Subset
    <2>2. Cardinality(U) <= Cardinality(T) /\ Cardinality(U) # Cardinality(T)
        BY <1>2, <2>1, FS_Subset
    <2> QED BY <2>1, <2>2, FS_CardinalityType
<1>3. ASSUME NEW x \in S
      PROVE  Cardinality(Ahead(S, R, x)) < Cardinality(S)
    <2>1. Ahead(S, R, x) \in SUBSET S /\ x \notin Ahead(S, R, x)
        BY DEF Ahead, StrictOrder
    <2> QED BY <1>2, <2>1
<1>4. ASSUME NEW x \in S, NEW y \in S, <<x, y>> \in R
      PROVE  /\ Ahead(S, R, x) \subseteq Ahead(S, R, y)
             /\ Cardinality(Ahead(S, R, x)) < Cardinality(Ahead(S, R, y))
    <2>1. /\ Ahead(S, R, y) \in SUBSET S /\ Ahead(S, R, x) \in SUBSET Ahead(S, R, y)
          /\ x \in Ahead(S, R, y) /\ x \notin Ahead(S, R, x)
        BY <1>4 DEF Ahead, StrictOrder
    <2> QED BY <1>2, <2>1
<1>5. Cardinality(S) \in Nat
    BY FS_CardinalityType
<1> QED BY <1>1, <1>3, <1>4, <1>5

\* Every place is taken: the numbers of members that come before are as many as the
\* members, and so are all numbers below that.
LEMMA PlacesAreTaken ==
    ASSUME NEW S, IsFiniteSet(S), NEW R, StrictOrder(S, R), NEW n \in 0..(Cardinality(S) - 1)
    PROVE  \E x \in S : Cardinality(Ahead(S, R, x)) = n
<1> DEFINE places == 0..(Cardinality(S) - 1)
           place == [x \in S |-> Cardinality(Ahead(S, R, x))]
<1>1. place \in Injection(S, places)
    <2>1. place \in [S -> places]
        BY AheadGrows
    <2>2. ASSUME NEW x \in S, NEW y \in S, place[x] = place[y], x # y
          PROVE  FALSE
        <3>1. Cardinality(Ahead(S, R, x)) = Cardinality(Ahead(S, R, y)) /\ Cardinality(Ahead(S, R, x)) \in Int
            BY <2>2, AheadGrows
        <3>2. <<x, y>> \in R \/ <<y, x>> \in R
            BY <2>2 DEF StrictOrder
        <3>3. \/ Cardinality(Ahead(S, R, x)) < Cardinality(Ahead(S, R, y))
              \/ Cardinality(Ahead(S, R, y)) < Cardinality(Ahead(S, R, x))
            BY <3>2, AheadGrows
        <3> QED BY <3>1, <3>3
    <2>3. \A x, y \in DOMAIN place : place[x] = place[y] => x = y
        BY <2>2
    <2> HIDE DEF place
    <2> QED BY <2>1, <2>3 DEF Injection, IsInjective
<1> HIDE DEF place
<1>2. IsFiniteSet(places) /\ Cardinality(places) = Cardinality(S)
    <2>1. Cardinality(S) \in Nat
        BY FS_CardinalityType
    <2>2. /\ IsFiniteSet(0..(Cardinality(S) - 1))
          /\ Cardinality(0..(Cardinality(S) - 1)) =
                 IF 0 > Cardinality(S) - 1 THEN 0 ELSE Cardinality(S) - 1 - 0 + 1
        <3>1. 0 \in Int /\ Cardinality(S) - 1 \in Int
            BY <2>1
        <3> QED BY <3>1, FS_Interval
    <2> QED BY <2>1, <2>2
<1>3. place \in Surjection(S, places)
    BY <1>1, <1>2, FS_Injection
<1>4. \E x \in S : place[x] = n
    BY <1>3 DEF Surjection
<1> QED BY <1>4 DEF place

\* Sorting puts every member at one place, and in order.
LEMMA SortedIsInOrder ==
    ASSUME NEW S, IsFiniteSet(S), NEW R, StrictOrder(S, R)
    PROVE  /\ Sorted(S, R) \in Seq(S) /\ Len(Sorted(S, R)) = Cardinality(S)
           /\ \A x \in S : \E k \in 1..Cardinality(S) : Sorted(S, R)[k] = x
           /\ \A k \in 1..Cardinality(S) : Cardinality(Ahead(S, R, Sorted(S, R)[k])) = k - 1
           /\ \A j, k \in 1..Cardinality(S) : j < k => <<Sorted(S, R)[j], Sorted(S, R)[k]>> \in R
<1> DEFINE n == Cardinality(S)
           At(k) == CHOOSE x \in S : Cardinality(Ahead(S, R, x)) = k - 1
           sorted == [k \in 1..n |-> At(k)]
<1>1. n \in Nat
    BY FS_CardinalityType
<1>2. ASSUME NEW k \in 1..n
      PROVE  At(k) \in S /\ Cardinality(Ahead(S, R, At(k))) = k - 1
    <2>1. k - 1 \in 0..(Cardinality(S) - 1)
        BY <1>1
    <2>2. \E x \in S : Cardinality(Ahead(S, R, x)) = k - 1
        BY <2>1, PlacesAreTaken
    <2> QED BY <2>2
<1> HIDE DEF At
<1>3. sorted \in Seq(S) /\ Len(sorted) = n /\ \A k \in 1..n : sorted[k] = At(k)
    BY <1>1, <1>2
<1>4. Sorted(S, R) = sorted
    <2>1. Sorted(S, R) = <<>> \o sorted
        BY DEF Sorted, At
    <2> HIDE DEF sorted
    <2> QED BY <2>1, <1>3
<1> HIDE DEF sorted
<1>5. ASSUME NEW x \in S, NEW y \in S, Cardinality(Ahead(S, R, x)) = Cardinality(Ahead(S, R, y))
      PROVE  x = y
    <2>1. Cardinality(Ahead(S, R, x)) \in Int
        BY AheadGrows
    <2>2. ~(<<x, y>> \in R) /\ ~(<<y, x>> \in R)
        BY <1>5, <2>1, AheadGrows
    <2> QED BY <2>2 DEF StrictOrder
<1>6. ASSUME NEW x \in S
      PROVE  \E k \in 1..n : sorted[k] = x
    <2> DEFINE k == Cardinality(Ahead(S, R, x)) + 1
    <2>1. k \in 1..n /\ Cardinality(Ahead(S, R, x)) = k - 1
        BY <1>1, AheadGrows
    <2>2. sorted[k] = x
        BY <1>2, <1>3, <1>5, <2>1
    <2> QED BY <2>1, <2>2
<1>7. ASSUME NEW j \in 1..n, NEW k \in 1..n, j < k
      PROVE  <<sorted[j], sorted[k]>> \in R
    <2>1. /\ sorted[j] \in S /\ Cardinality(Ahead(S, R, sorted[j])) = j - 1
          /\ sorted[k] \in S /\ Cardinality(Ahead(S, R, sorted[k])) = k - 1
        BY <1>2, <1>3
    <2>2. sorted[j] # sorted[k]
        BY <1>1, <1>7, <2>1
    <2>3. <<sorted[k], sorted[j]>> \notin R
        <3> SUFFICES ASSUME <<sorted[k], sorted[j]>> \in R PROVE FALSE
            OBVIOUS
        <3>1. Cardinality(Ahead(S, R, sorted[k])) < Cardinality(Ahead(S, R, sorted[j]))
            BY <2>1, AheadGrows
        <3> QED BY <1>1, <1>7, <2>1, <3>1
    <2> QED BY <2>1, <2>2, <2>3 DEF StrictOrder
<1> QED BY <1>2, <1>3, <1>4, <1>6, <1>7

\* A sorted set has every member, once.
LEMMA SortedMembers ==
    ASSUME NEW S, IsFiniteSet(S), NEW R, StrictOrder(S, R)
    PROVE  Sorted(S, R) \in Seq(S) /\ IsInjective(Sorted(S, R)) /\ Range(Sorted(S, R)) = S
<1> DEFINE s == Sorted(S, R)
<1>2. /\ s \in Seq(S) /\ Len(s) = Cardinality(S)
      /\ \A x \in S : \E k \in 1..Cardinality(S) : s[k] = x
      /\ \A j, k \in 1..Cardinality(S) : j < k => <<s[j], s[k]>> \in R
    BY SortedIsInOrder
<1> HIDE DEF s
<1>3. DOMAIN s = 1..Cardinality(S) /\ Cardinality(S) \in Nat /\ \A k \in DOMAIN s : s[k] \in S
    BY <1>2
<1>4. ASSUME NEW j \in DOMAIN s, NEW k \in DOMAIN s, s[j] = s[k], j # k
      PROVE  FALSE
    <2>1. j < k \/ k < j
        BY ONLY <1>3, <1>4
    <2>2. <<s[j], s[j]>> \in R
        BY ONLY <1>2, <1>3, <1>4, <2>1
    <2> QED BY <1>3, <2>2 DEF StrictOrder
<1>5. IsInjective(s)
    BY <1>4 DEF IsInjective
<1>6. Range(s) = S
    BY ONLY <1>2, <1>3 DEF Range
<1> QED BY <1>2, <1>5, <1>6 DEF s

\* Picking places of a sequence takes each of them once, in their order.
LEMMA PickedInOrder ==
    ASSUME NEW T, NEW s \in Seq(T), NEW places \in SUBSET (DOMAIN s)
    PROVE  \E order \in Seq(places) :
               /\ Picked(s, places) = [k \in DOMAIN order |-> s[order[k]]]
               /\ Picked(s, places) \in Seq(T) /\ Len(Picked(s, places)) = Len(order)
               /\ IsFiniteSet(places) /\ Len(order) = Cardinality(places)
               /\ \A p \in places : \E k \in DOMAIN order : order[k] = p
               /\ \A j, k \in DOMAIN order : j < k => order[j] < order[k]
<1> DEFINE R == {p \in places \X places : p[1] < p[2]}
           order == Sorted(places, R)
<1>1. DOMAIN s = 1..Len(s) /\ Len(s) \in Nat /\ places \subseteq 1..Len(s)
    OBVIOUS
<1>2. IsFiniteSet(places)
    <2>1. IsFiniteSet(1..Len(s))
        BY <1>1, FS_Interval
    <2> QED BY <1>1, <2>1, FS_Subset
<1>3. \A x, y \in places : <<x, y>> \in R <=> x < y
    OBVIOUS
<1>4. StrictOrder(places, R)
    <2>1. places \subseteq Int
        BY <1>1
    <2> HIDE DEF R
    <2> QED BY <1>3, <2>1 DEF StrictOrder
<1>5. Picked(s, places) = [k \in DOMAIN order |-> s[order[k]]]
    BY DEF Picked, Ordered
<1> HIDE DEF R
<1>6. /\ order \in Seq(places) /\ Len(order) = Cardinality(places)
      /\ \A x \in places : \E k \in 1..Cardinality(places) : order[k] = x
      /\ \A j, k \in 1..Cardinality(places) : j < k => <<order[j], order[k]>> \in R
    BY <1>2, <1>4, SortedIsInOrder
<1> HIDE DEF order
<1>7. DOMAIN order = 1..Cardinality(places) /\ Len(order) \in Nat
    BY <1>6
<1>8. \A k \in DOMAIN order : order[k] \in places
    BY <1>6
<1>9. Picked(s, places) \in Seq(T) /\ Len(Picked(s, places)) = Len(order)
    <2>1. \A k \in DOMAIN order : s[order[k]] \in T
        BY <1>8
    <2>2. DOMAIN order = 1..Len(order)
        BY <1>6
    <2>3. Picked(s, places) \in [1..Len(order) -> T]
        BY <1>5, <2>1, <2>2
    <2> QED BY <1>7, <2>3, FunctionIsASequence
<1>10. \A j, k \in DOMAIN order : j < k => order[j] < order[k]
    BY <1>3, <1>6, <1>7, <1>8
<1> QED BY <1>2, <1>5, <1>6, <1>7, <1>9, <1>10

\* A finite set of numbers has a least one.
LEMMA LeastNumber ==
    ASSUME NEW S \in SUBSET Int, IsFiniteSet(S), S # {}
    PROVE  \E x \in S : \A y \in S : x <= y
<1> DEFINE R == {p \in S \X S : p[1] < p[2]}
<1>1. \A x, y \in S : <<x, y>> \in R <=> x < y
    OBVIOUS
<1> HIDE DEF R
<1>2. StrictOrder(S, R)
    BY <1>1 DEF StrictOrder
<1>3. Cardinality(S) \in Nat /\ Cardinality(S) # 0
    BY FS_CardinalityType, FS_EmptySet
<1>4. 0 \in 0..(Cardinality(S) - 1)
    BY <1>3
<1>5. PICK x \in S : Cardinality(Ahead(S, R, x)) = 0
    BY <1>2, <1>4, PlacesAreTaken
<1>6. IsFiniteSet(Ahead(S, R, x))
    BY <1>2, AheadGrows
<1>7. Ahead(S, R, x) = {}
    BY <1>5, <1>6, FS_EmptySet
<1>8. \A y \in S : ~(y < x)
    BY <1>1, <1>7 DEF Ahead
<1> QED BY <1>8
\* A finite set of numbers has a greatest one.
LEMMA GreatestNumber ==
    ASSUME NEW S \in SUBSET Int, IsFiniteSet(S), S # {}
    PROVE  Max(S) \in S /\ \A y \in S : y <= Max(S)
<1> DEFINE R == {p \in S \X S : p[1] > p[2]}
<1>1. \A x, y \in S : <<x, y>> \in R <=> x > y
    OBVIOUS
<1> HIDE DEF R
<1>2. StrictOrder(S, R)
    BY <1>1 DEF StrictOrder
<1>3. Cardinality(S) \in Nat /\ Cardinality(S) # 0
    BY FS_CardinalityType, FS_EmptySet
<1>4. 0 \in 0..(Cardinality(S) - 1)
    BY <1>3
<1>5. PICK x \in S : Cardinality(Ahead(S, R, x)) = 0
    BY <1>2, <1>4, PlacesAreTaken
<1>6. IsFiniteSet(Ahead(S, R, x))
    BY <1>2, AheadGrows
<1>7. Ahead(S, R, x) = {}
    BY <1>5, <1>6, FS_EmptySet
<1>8. \A y \in S : x >= y
    <2>1. \A y \in S : ~(y > x) /\ x \in Int /\ y \in Int
        BY <1>1, <1>7 DEF Ahead
    <2> QED BY <2>1
<1>9. Max(S) \in S /\ \A y \in S : Max(S) >= y
    BY <1>8 DEF Max
<1> QED BY <1>9

\* The lesser of two numbers.
LEMMA LesserOfTwo ==
    ASSUME NEW m \in Int, NEW n \in Int
    PROVE  Min({m, n}) = IF m <= n THEN m ELSE n
<1>1. \E x \in {m, n} : \A y \in {m, n} : x <= y
    OBVIOUS
<1> QED BY <1>1 DEF Min

-----------------------------------------------------------------------------
(* Sequences by their members                                              *)

\* A sequence is one of its own members.
LEMMA SequenceOfMembers ==
    ASSUME NEW S, NEW s \in Seq(S)
    PROVE  s \in Seq(Range(s)) /\ Range(s) \subseteq S
<1>1. s \in [1..Len(s) -> Range(s)] /\ Len(s) \in Nat
    BY DEF Range
<1>2. s \in Seq(Range(s))
    BY <1>1, FunctionIsASequence
<1>3. Range(s) \subseteq S
    BY DEF Range
<1> QED BY <1>2, <1>3

\* Concatenation has the members of both, at their places.
LEMMA MembersOfConcat ==
    ASSUME NEW S, NEW s \in Seq(S), NEW T, NEW t \in Seq(T)
    PROVE  /\ s \o t \in Seq(Range(s \o t)) /\ Range(s \o t) = Range(s) \cup Range(t)
           /\ \A k \in DOMAIN (s \o t) :
                \/ k \in DOMAIN s /\ (s \o t)[k] = s[k]
                \/ k - Len(s) \in DOMAIN t /\ k \notin DOMAIN s /\ (s \o t)[k] = t[k - Len(s)]
<1>1. PICK u : u = s \o t
    OBVIOUS
<1>2. /\ u \in Seq(S \cup T) /\ Len(s) \in Nat /\ Len(t) \in Nat
      /\ DOMAIN u = 1..(Len(s) + Len(t)) /\ DOMAIN s = 1..Len(s) /\ DOMAIN t = 1..Len(t)
      /\ \A k \in 1..(Len(s) + Len(t)) : u[k] = IF k <= Len(s) THEN s[k] ELSE t[k - Len(s)]
    <2>1. s \in Seq(S \cup T) /\ t \in Seq(S \cup T)
        OBVIOUS
    <2> QED BY <1>1, <2>1
<1> HIDE DEF Range
<1>3. u \in Seq(Range(u))
    BY <1>2, SequenceOfMembers
<1>4. \A k \in DOMAIN u :
        \/ k \in DOMAIN s /\ u[k] = s[k]
        \/ k - Len(s) \in DOMAIN t /\ k \notin DOMAIN s /\ u[k] = t[k - Len(s)]
    <2> TAKE k \in DOMAIN u
    <2>1. k \in 1..(Len(s) + Len(t))
        BY ONLY <1>2, k \in DOMAIN u
    <2>2. k <= Len(s) => k \in DOMAIN s /\ u[k] = s[k]
        BY ONLY <1>2, <2>1
    <2>3. ~(k <= Len(s)) => k - Len(s) \in DOMAIN t /\ k \notin DOMAIN s /\ u[k] = t[k - Len(s)]
        BY ONLY <1>2, <2>1
    <2> QED BY ONLY <2>2, <2>3
<1>5. \A k \in DOMAIN s : k \in DOMAIN u /\ u[k] = s[k]
    BY ONLY <1>2
<1>6. \A k \in DOMAIN t : k + Len(s) \in DOMAIN u /\ u[k + Len(s)] = t[k]
    BY ONLY <1>2
<1>7. Range(u) \subseteq Range(s) \cup Range(t)
    BY ONLY <1>4 DEF Range
<1>8. Range(s) \cup Range(t) \subseteq Range(u)
    BY ONLY <1>5, <1>6 DEF Range
<1> QED BY <1>1, <1>3, <1>4, <1>7, <1>8

\* Appending adds one member, at the end.
LEMMA MembersOfAppend ==
    ASSUME NEW S, NEW s \in Seq(S), NEW e
    PROVE  /\ Append(s, e) \in Seq(Range(Append(s, e))) /\ Range(Append(s, e)) = Range(s) \cup {e}
           /\ \A k \in DOMAIN Append(s, e) :
                \/ k \in DOMAIN s /\ Append(s, e)[k] = s[k]
                \/ k \notin DOMAIN s /\ k = Len(s) + 1 /\ Append(s, e)[k] = e
<1>1. PICK u : u = Append(s, e)
    OBVIOUS
<1>2. /\ u \in Seq(S \cup {e}) /\ Len(s) \in Nat
      /\ DOMAIN s = 1..Len(s) /\ DOMAIN u = 1..(Len(s) + 1)
      /\ \A k \in 1..Len(s) : u[k] = s[k]
      /\ u[Len(s) + 1] = e
    <2>1. s \in Seq(S \cup {e})
        OBVIOUS
    <2> QED BY <1>1, <2>1
<1> HIDE DEF Range
<1>3. u \in Seq(Range(u))
    BY <1>2, SequenceOfMembers
<1>4. \A k \in DOMAIN u :
        \/ k \in DOMAIN s /\ u[k] = s[k]
        \/ k \notin DOMAIN s /\ k = Len(s) + 1 /\ u[k] = e
    <2> TAKE k \in DOMAIN u
    <2>1. k \in 1..Len(s) \/ (k = Len(s) + 1 /\ k \notin 1..Len(s))
        BY ONLY <1>2, k \in DOMAIN u
    <2> QED BY ONLY <1>2, <2>1
<1>5. Range(u) \subseteq Range(s) \cup {e}
    BY ONLY <1>4 DEF Range
<1>6. Range(s) \cup {e} \subseteq Range(u)
    <2>1. \A k \in DOMAIN s : k \in DOMAIN u /\ u[k] = s[k]
        BY ONLY <1>2
    <2>2. Len(s) + 1 \in DOMAIN u
        BY ONLY <1>2
    <2> QED BY ONLY <1>2, <2>1, <2>2 DEF Range
<1> QED BY <1>1, <1>3, <1>4, <1>5, <1>6

\* A prefix and the rest: the members of the one, and both together the whole.
LEMMA MembersOfPrefix ==
    ASSUME NEW S, NEW s \in Seq(S), NEW n \in 0..Len(s)
    PROVE  /\ SubSeq(s, 1, n) \in Seq(Range(SubSeq(s, 1, n)))
           /\ SubSeq(s, n + 1, Len(s)) \in Seq(Range(SubSeq(s, n + 1, Len(s))))
           /\ SubSeq(s, 1, n) \o SubSeq(s, n + 1, Len(s)) = s
           /\ \A k \in DOMAIN SubSeq(s, 1, n) : k \in DOMAIN s /\ SubSeq(s, 1, n)[k] = s[k]
           /\ Range(SubSeq(s, 1, n)) \subseteq Range(s)
           /\ n = Len(s) => SubSeq(s, 1, n) = s
<1>1. Len(s) \in Nat /\ DOMAIN s = 1..Len(s) /\ \A k \in 1..Len(s) : s[k] \in S
    OBVIOUS
<1>2. PICK p : p = SubSeq(s, 1, n)
    OBVIOUS
<1>3. PICK q : q = SubSeq(s, n + 1, Len(s))
    OBVIOUS
<1>4. p \in Seq(S) /\ Len(p) = n /\ DOMAIN p = 1..n /\ \A k \in 1..n : p[k] = s[k]
    BY <1>1, <1>2
<1>5. q \in Seq(S) /\ Len(q) = Len(s) - n /\ \A k \in 1..(Len(s) - n) : q[k] = s[k + n]
    <2>1. n + 1 \in Int /\ Len(s) \in Int /\ \A k \in (n + 1)..Len(s) : k \in 1..Len(s)
        BY ONLY <1>1, n \in 0..Len(s)
    <2>2. \A k \in (n + 1)..Len(s) : s[k] \in S
        BY ONLY <1>1, <2>1
    <2>3. /\ SubSeq(s, n + 1, Len(s)) \in Seq(S)
          /\ Len(SubSeq(s, n + 1, Len(s))) = IF n + 1 <= Len(s) THEN Len(s) - (n + 1) + 1 ELSE 0
          /\ \A k \in 1..(Len(s) - (n + 1) + 1) : SubSeq(s, n + 1, Len(s))[k] = s[(n + 1) + k - 1]
        BY <2>1, <2>2, SubSeqProperties
    <2>4. Len(q) = Len(s) - n
        <3>1. Len(q) = IF n + 1 <= Len(s) THEN Len(s) - (n + 1) + 1 ELSE 0
            BY ONLY <1>3, <2>3, Zenon
        <3>2. Len(s) \in Int /\ n \in Int /\ n <= Len(s)
            BY ONLY <1>1, n \in 0..Len(s)
        <3>3. CASE n + 1 <= Len(s)
            BY ONLY <3>1, <3>2, <3>3
        <3>4. CASE ~(n + 1 <= Len(s))
            BY ONLY <3>1, <3>2, <3>4
        <3> QED BY <3>3, <3>4
    <2>5. \A k \in 1..(Len(s) - n) : q[k] = s[k + n]
        <3> TAKE k \in 1..(Len(s) - n)
        <3>1. k \in 1..(Len(s) - (n + 1) + 1) /\ (n + 1) + k - 1 = k + n
            BY ONLY <1>1, n \in 0..Len(s), k \in 1..(Len(s) - n)
        <3>2. q[k] = s[(n + 1) + k - 1]
            BY ONLY <1>3, <2>3, <3>1, Zenon
        <3> QED BY ONLY <3>1, <3>2
    <2> QED BY ONLY <1>3, <2>3, <2>4, <2>5, Zenon
<1>6. p \o q \in Seq(S) /\ Len(p \o q) = Len(s) /\ \A k \in DOMAIN (p \o q) : (p \o q)[k] = s[k]
    <2>1. PICK u : u = p \o q
        OBVIOUS
    <2>2. u \in Seq(S) /\ DOMAIN u = 1..Len(s) /\ Len(u) = Len(s)
        <3>1. Len(p \o q) = Len(p) + Len(q) /\ p \o q \in Seq(S)
            <4>1. p \in Seq(S) /\ q \in Seq(S)
                BY ONLY <1>4, <1>5
            <4> QED BY ONLY <4>1
        <3>2. Len(p) + Len(q) = Len(s)
            <4>1. Len(p) = n /\ Len(q) = Len(s) - n
                BY ONLY <1>4, <1>5
            <4> QED BY ONLY <1>1, <4>1, n \in 0..Len(s)
        <3> QED BY <2>1, <3>1, <3>2
    <2>3. \A k \in 1..Len(s) : u[k] = IF k <= n THEN p[k] ELSE q[k - n]
        BY <1>1, <1>4, <1>5, <2>1
    <2>4. \A k \in 1..Len(s) : u[k] = s[k]
        <3> SUFFICES ASSUME NEW k \in 1..Len(s) PROVE u[k] = s[k]
            OBVIOUS
        <3>1. k <= n => k \in 1..n
            BY ONLY <1>1, n \in 0..Len(s), k \in 1..Len(s)
        <3>2. ~(k <= n) => k - n \in 1..(Len(s) - n) /\ (k - n) + n = k
            BY ONLY <1>1, n \in 0..Len(s), k \in 1..Len(s)
        <3>3. CASE k <= n
            BY ONLY <1>4, <2>3, <3>1, <3>3, k \in 1..Len(s)
        <3>4. CASE ~(k <= n)
            <4>1. u[k] = q[k - n]
                BY ONLY <2>3, <3>4, k \in 1..Len(s)
            <4>2. q[k - n] = s[(k - n) + n]
                BY ONLY <1>5, <3>2, <3>4
            <4> QED BY ONLY <4>1, <4>2, <3>2, <3>4
        <3> QED BY <3>3, <3>4
    <2> QED BY <2>1, <2>2, <2>4
<1>7. p \o q = s
    BY <1>6, SameSequence
<1>8. \A k \in DOMAIN p : k \in DOMAIN s /\ p[k] = s[k]
    BY ONLY <1>1, <1>4, n \in 0..Len(s)
<1>9. Range(p) \subseteq Range(s)
    BY ONLY <1>8 DEF Range
<1>10. n = Len(s) => p = s
    BY ONLY <1>4, SameSequence, s \in Seq(S)
<1> QED BY <1>2, <1>3, <1>4, <1>5, <1>7, <1>8, <1>9, <1>10, SequenceOfMembers

\* What is picked is what stands at the places, each place once.
LEMMA MembersOfPicked ==
    ASSUME NEW T, NEW s \in Seq(T), NEW places \in SUBSET (DOMAIN s)
    PROVE  /\ Picked(s, places) \in Seq(Range(Picked(s, places)))
           /\ \A x : x \in Range(Picked(s, places)) <=> \E p \in places : x = s[p]
           /\ \A j, k \in DOMAIN Picked(s, places) : j # k =>
                \E a, b \in places : a # b /\ Picked(s, places)[j] = s[a] /\ Picked(s, places)[k] = s[b]
<1>1. PICK order \in Seq(places) :
               /\ Picked(s, places) = [k \in DOMAIN order |-> s[order[k]]]
               /\ Picked(s, places) \in Seq(T) /\ Len(Picked(s, places)) = Len(order)
               /\ IsFiniteSet(places) /\ Len(order) = Cardinality(places)
               /\ \A p \in places : \E k \in DOMAIN order : order[k] = p
               /\ \A j, k \in DOMAIN order : j < k => order[j] < order[k]
    BY PickedInOrder
<1>2. PICK picked : picked = Picked(s, places)
    OBVIOUS
<1>3. DOMAIN picked = DOMAIN order /\ \A k \in DOMAIN order : picked[k] = s[order[k]] /\ order[k] \in places
    BY <1>1, <1>2
<1>4. \A x : x \in Range(picked) <=> \E p \in places : x = s[p]
    BY ONLY <1>1, <1>3 DEF Range
<1>5. ASSUME NEW j \in DOMAIN picked, NEW k \in DOMAIN picked, j # k
      PROVE  \E a, b \in places : a # b /\ picked[j] = s[a] /\ picked[k] = s[b]
    <2>1. j \in DOMAIN order /\ k \in DOMAIN order /\ DOMAIN order = 1..Len(order) /\ Len(order) \in Nat
        BY <1>1, <1>3, <1>5
    <2>2. j < k \/ k < j
        BY ONLY <1>5, <2>1
    <2>3. order[j] < order[k] \/ order[k] < order[j]
        BY ONLY <1>1, <2>1, <2>2
    <2>4. order[j] \in places /\ order[k] \in places /\ picked[j] = s[order[j]] /\ picked[k] = s[order[k]]
        BY ONLY <1>3, <2>1
    <2>5. order[j] \in Int /\ order[k] \in Int
        BY <2>4
    <2>6. order[j] # order[k]
        BY ONLY <2>3, <2>5
    <2> QED BY ONLY <2>4, <2>6
<1>6. picked \in Seq(Range(picked))
    BY <1>1, <1>2, SequenceOfMembers
<1> QED BY <1>2, <1>4, <1>5, <1>6

\* Picking the places of the members of X keeps those members, each once if each was there once.
LEMMA PickedMembersOf ==
    ASSUME NEW T, NEW s \in Seq(T), NEW X
    PROVE  LET picked == Picked(s, {k \in DOMAIN s : s[k] \in X})
           IN  /\ picked \in Seq(Range(picked)) /\ Range(picked) = Range(s) \cap X
               /\ IsInjective(s) => IsInjective(picked)
<1>1. ASSUME NEW places \in SUBSET (DOMAIN s), \A k : k \in places <=> k \in DOMAIN s /\ s[k] \in X
      PROVE  /\ Picked(s, places) \in Seq(Range(Picked(s, places)))
             /\ Range(Picked(s, places)) = Range(s) \cap X
             /\ IsInjective(s) => IsInjective(Picked(s, places))
    <2>1. Picked(s, places) \in Seq(Range(Picked(s, places)))
        BY MembersOfPicked
    <2>2. \A x : x \in Range(Picked(s, places)) <=> \E p \in places : x = s[p]
        BY MembersOfPicked
    <2>3. \A j, k \in DOMAIN Picked(s, places) : j # k =>
            \E a, b \in places : a # b /\ Picked(s, places)[j] = s[a] /\ Picked(s, places)[k] = s[b]
        BY MembersOfPicked
    <2>4. \A x : x \in Range(s) <=> \E k \in DOMAIN s : x = s[k]
        BY DEF Range
    <2>5. Range(Picked(s, places)) = Range(s) \cap X
        BY ONLY <1>1, <2>2, <2>4
    <2>6. IsInjective(s) => IsInjective(Picked(s, places))
        BY ONLY <1>1, <2>3 DEF IsInjective
    <2> QED BY <2>1, <2>5, <2>6
<1> DEFINE places == {k \in DOMAIN s : s[k] \in X}
<1>2. places \in SUBSET (DOMAIN s) /\ \A k : k \in places <=> k \in DOMAIN s /\ s[k] \in X
    OBVIOUS
<1> HIDE DEF places
<1>3. /\ Picked(s, places) \in Seq(Range(Picked(s, places)))
      /\ Range(Picked(s, places)) = Range(s) \cap X
      /\ IsInjective(s) => IsInjective(Picked(s, places))
    BY ONLY <1>1, <1>2
<1> QED BY <1>3 DEF places

\* A finite set read off as a sequence has every member, once.
LEMMA MembersOfSetToSeq ==
    ASSUME NEW S, IsFiniteSet(S)
    PROVE  SetToSeq(S) \in Seq(S) /\ IsInjective(SetToSeq(S)) /\ Range(SetToSeq(S)) = S
<1> DEFINE n == Cardinality(S)
<1>1. n \in Nat /\ ExistsBijection(1..n, S)
    BY FS_CardinalityType
<1>2. \E f \in [1..n -> S] : IsInjective(f)
    BY <1>1 DEF ExistsBijection, Bijection, Injection
<1>3. PICK f : f = SetToSeq(S)
    OBVIOUS
<1>4. f \in [1..n -> S] /\ IsInjective(f)
    BY <1>2, <1>3 DEF SetToSeq
<1>5. f \in Injection(1..n, S)
    BY <1>4 DEF Injection
<1>6. IsFiniteSet(1..n) /\ Cardinality(1..n) = n
    <2>1. Cardinality(1..n) = IF 1 > n THEN 0 ELSE n - 1 + 1
        BY <1>1, FS_Interval
    <2> QED BY <1>1, <2>1, FS_Interval
<1>7. f \in Surjection(1..n, S)
    BY <1>5, <1>6, FS_Injection
<1>8. Range(f) = S
    BY <1>4, <1>7 DEF Surjection, Range
<1>9. f \in Seq(S)
    BY <1>1, <1>4, FunctionIsASequence
<1> QED BY <1>3, <1>4, <1>8, <1>9

\* A sequence has finitely many members.
LEMMA RangeIsFinite ==
    ASSUME NEW S, NEW s \in Seq(S)
    PROVE  IsFiniteSet(Range(s))
<1>1. s \in [DOMAIN s -> Range(s)] /\ DOMAIN s = 1..Len(s) /\ Len(s) \in Nat
    BY DEF Range
<1>2. s \in Surjection(DOMAIN s, Range(s))
    BY <1>1 DEF Surjection, Range
<1>3. IsFiniteSet(DOMAIN s)
    <2>1. 1 \in Int /\ Len(s) \in Int
        BY <1>1
    <2>2. IsFiniteSet(1..Len(s))
        BY <2>1, FS_Interval
    <2> QED BY <1>1, <2>2
<1> QED BY <1>2, <1>3, FS_Surjection

\* Concatenating twice is concatenating once more.
LEMMA RestIsContinued ==
    ASSUME NEW S, NEW s \in Seq(S), NEW T, NEW t \in Seq(T), NEW n \in 0..Len(t)
    PROVE  (s \o SubSeq(t, 1, n)) \o SubSeq(t, n + 1, Len(t)) = s \o t
<1>1. PICK p : p = SubSeq(t, 1, n)
    OBVIOUS
<1>2. PICK q : q = SubSeq(t, n + 1, Len(t))
    OBVIOUS
<1>3. p \in Seq(Range(p)) /\ q \in Seq(Range(q)) /\ p \o q = t
    BY <1>1, <1>2, MembersOfPrefix
<1>4. (s \o p) \o q = s \o (p \o q)
    <2>1. s \in Seq(S \cup Range(p) \cup Range(q)) /\ p \in Seq(S \cup Range(p) \cup Range(q))
          /\ q \in Seq(S \cup Range(p) \cup Range(q))
        BY <1>3
    <2> QED BY <2>1, ConcatAssociative
<1> QED BY <1>1, <1>2, <1>3, <1>4

-----------------------------------------------------------------------------
(* Adding up                                                               *)

\* What holds of nothing, and of a finite set when it holds of the set without any one of
\* its members, holds of every finite set.
LEMMA MemberByMember ==
    ASSUME NEW S, IsFiniteSet(S), NEW P \in SUBSET (SUBSET S), {} \in P,
           \A s \in SUBSET S : s # {} /\ (\A x \in s : s \ {x} \in P) => s \in P
    PROVE  P = SUBSET S
<1> SUFFICES ASSUME P # SUBSET S PROVE FALSE
    OBVIOUS
<1>1. PICK sizes : sizes = {n \in 0..Cardinality(S) : \E s \in (SUBSET S) \ P : Cardinality(s) = n}
    OBVIOUS
<1>2. \A s \in SUBSET S : IsFiniteSet(s) /\ Cardinality(s) \in 0..Cardinality(S)
    <2>1. Cardinality(S) \in Nat
        BY FS_CardinalityType
    <2> QED BY <2>1, FS_Subset, FS_CardinalityType
<1>3. sizes \in SUBSET Int /\ IsFiniteSet(sizes) /\ sizes # {}
    <2>1. 0 \in Int /\ Cardinality(S) \in Int
        BY FS_CardinalityType
    <2>2. IsFiniteSet(0..Cardinality(S))
        BY <2>1, FS_Interval
    <2>3. sizes \subseteq 0..Cardinality(S)
        BY <1>1
    <2>4. IsFiniteSet(sizes)
        BY <2>2, <2>3, FS_Subset
    <2>5. sizes # {}
        BY <1>1, <1>2
    <2> QED BY <2>1, <2>3, <2>4, <2>5
<1>4. PICK n \in sizes : \A m \in sizes : n <= m
    BY <1>3, LeastNumber
<1>5. PICK s \in (SUBSET S) \ P : Cardinality(s) = n
    BY <1>1
<1>6. s # {}
    OBVIOUS
<1>7. ASSUME NEW x \in s
      PROVE  s \ {x} \in P
    <2>1. Cardinality(s \ {x}) = Cardinality(s) - 1
        BY <1>2, FS_RemoveElement
    <2>2. s \ {x} \in SUBSET S
        OBVIOUS
    <2>3. Cardinality(s \ {x}) \notin sizes
        BY <1>2, <1>3, <1>4, <1>5, <2>1
    <2> QED BY <1>1, <1>2, <2>2, <2>3
<1> QED BY <1>6, <1>7

\* Folding the subsets of S: what is taken last out of s is c[s], and F puts it to the rest.
Folded(S, c, F, base, g) == [s \in SUBSET S |-> IF s = {} THEN base ELSE F[<<c[s], g[s \ {c[s]}]>>]]

\* The same for the subsets of bounded size.
FoldedWithin(S, n, c, F, base, g) ==
    [s \in {t \in SUBSET S : Cardinality(t) <= n} |-> IF s = {} THEN base ELSE F[<<c[s], g[s \ {c[s]}]>>]]

\* The function that a fold defines ...
IsFold(g, S, V, c, F, base) == g \in [SUBSET S -> V] /\ g = Folded(S, c, F, base, g)

FoldOver(S, V, c, F, base) == CHOOSE g : IsFold(g, S, V, c, F, base)

\* ... is there.
LEMMA FoldsExist ==
    ASSUME NEW S, IsFiniteSet(S), NEW V, NEW base \in V, NEW F, \A x \in S, v \in V : F[<<x, v>>] \in V,
           NEW c, \A s \in SUBSET S : s # {} => c[s] \in s
    PROVE  IsFold(FoldOver(S, V, c, F, base), S, V, c, F, base)
<1>1. PICK N : N = Cardinality(S)
    OBVIOUS
<1>2. N \in Nat /\ \A s \in SUBSET S : IsFiniteSet(s) /\ Cardinality(s) \in 0..N
    <2>1. Cardinality(S) \in Nat
        BY FS_CardinalityType
    <2> QED BY <1>1, <2>1, FS_Subset, FS_CardinalityType
<1>3. PICK missing : missing = {n \in 0..N : ~\E g : g = FoldedWithin(S, n, c, F, base, g)}
    OBVIOUS
<1>4. missing = {}
    <2> SUFFICES ASSUME missing # {} PROVE FALSE
        OBVIOUS
    <2>1. missing \in SUBSET Int /\ IsFiniteSet(missing)
        <3>1. 0 \in Int /\ N \in Int
            BY <1>2
        <3>2. IsFiniteSet(0..N)
            BY <3>1, FS_Interval
        <3>3. missing \subseteq 0..N
            BY <1>3
        <3>4. IsFiniteSet(missing)
            BY <3>2, <3>3, FS_Subset
        <3> QED BY <3>1, <3>3, <3>4
    <2>2. PICK n \in missing : \A m \in missing : n <= m
        BY <2>1, LeastNumber
    <2>3. n \in 0..N /\ n \in Nat
        BY <1>2, <1>3
    <2>4. \E g : g = FoldedWithin(S, n, c, F, base, g)
        <3>1. CASE n = 0
            <4>1. \A s \in {t \in SUBSET S : Cardinality(t) <= n} : s = {}
                <5> SUFFICES ASSUME NEW s \in SUBSET S, Cardinality(s) <= 0
                             PROVE  s = {}
                    BY <3>1
                <5>1. IsFiniteSet(s) /\ Cardinality(s) = 0
                    BY <1>2
                <5> QED BY <5>1, FS_EmptySet
            <4>2. PICK none : none = [s \in {t \in SUBSET S : Cardinality(t) <= n} |-> base]
                OBVIOUS
            <4>3. none = FoldedWithin(S, n, c, F, base, none)
                BY <4>1, <4>2 DEF FoldedWithin
            <4> QED BY <4>3
        <3>2. CASE n > 0
            <4>1. n - 1 \in 0..N /\ n - 1 \notin missing
                BY <1>2, <2>2, <2>3, <3>2
            <4>2. PICK g : g = FoldedWithin(S, n - 1, c, F, base, g)
                BY <1>3, <4>1
            <4>3. PICK next : next = FoldedWithin(S, n, c, F, base, g)
                OBVIOUS
            <4>4. ASSUME NEW s \in SUBSET S, Cardinality(s) <= n, s # {}
                  PROVE  next[s \ {c[s]}] = g[s \ {c[s]}]
                <5>1. c[s] \in s
                    BY <4>4
                <5>2. PICK t : t = s \ {c[s]}
                    OBVIOUS
                <5>3. t \in SUBSET S /\ Cardinality(t) <= n - 1
                    <6>1. Cardinality(t) = Cardinality(s) - 1
                        BY <1>2, <4>4, <5>1, <5>2, FS_RemoveElement
                    <6>2. t \in SUBSET S /\ Cardinality(s) \in Int /\ n \in Int
                        BY <1>2, <2>3, <4>4, <5>2
                    <6> QED BY ONLY <4>4, <6>1, <6>2
                <5>4. Cardinality(t) <= n /\ Cardinality(t) \in Nat
                    BY <1>2, <2>3, <5>3
                <5>5. g[t] = IF t = {} THEN base ELSE F[<<c[t], g[t \ {c[t]}]>>]
                    BY ONLY <4>2, <5>3 DEF FoldedWithin
                <5>6. next[t] = IF t = {} THEN base ELSE F[<<c[t], g[t \ {c[t]}]>>]
                    BY ONLY <4>3, <5>3, <5>4 DEF FoldedWithin
                <5> QED BY ONLY <5>2, <5>5, <5>6
            <4>5. next = FoldedWithin(S, n, c, F, base, next)
                <5> DEFINE within == {t \in SUBSET S : Cardinality(t) <= n}
                           Of(h, s) == IF s = {} THEN base ELSE F[<<c[s], h[s \ {c[s]}]>>]
                <5>1. \A h : FoldedWithin(S, n, c, F, base, h) = [s \in within |-> Of(h, s)]
                    BY DEF FoldedWithin
                <5>2. \A s \in within : Of(next, s) = Of(g, s)
                    BY <4>4
                <5> HIDE DEF Of
                <5>3. [s \in within |-> Of(next, s)] = [s \in within |-> Of(g, s)]
                    BY ONLY <5>2
                <5> QED BY ONLY <4>3, <5>1, <5>3
            <4> QED BY <4>5
        <3> QED BY <2>3, <3>1, <3>2
    <2> QED BY <1>3, <2>4
<1>5. PICK g : g = FoldedWithin(S, N, c, F, base, g)
    BY <1>2, <1>3, <1>4
<1>6. {t \in SUBSET S : Cardinality(t) <= N} = SUBSET S
    BY <1>2
<1>7. g = Folded(S, c, F, base, g)
    BY ONLY <1>5, <1>6 DEF Folded, FoldedWithin
<1>8. \A s \in SUBSET S : g[s] \in V
    <2>1. PICK P : P = {s \in SUBSET S : g[s] \in V}
        OBVIOUS
    <2>2. {} \in P
        BY <1>7, <2>1 DEF Folded
    <2>3. ASSUME NEW s \in SUBSET S, s # {}, \A x \in s : s \ {x} \in P
          PROVE  s \in P
        <3>1. c[s] \in s
            BY <2>3
        <3>2. g[s \ {c[s]}] \in V
            BY <2>1, <2>3, <3>1
        <3>3. g[s] = F[<<c[s], g[s \ {c[s]}]>>]
            BY ONLY <1>7, <2>3 DEF Folded
        <3> QED BY <2>1, <3>1, <3>2, <3>3
    <2>4. P \in SUBSET (SUBSET S)
        BY <2>1
    <2>5. \A s \in SUBSET S : s # {} /\ (\A x \in s : s \ {x} \in P) => s \in P
        BY <2>3
    <2>6. P = SUBSET S
        BY ONLY <2>2, <2>4, <2>5, IsFiniteSet(S), MemberByMember
    <2> QED BY ONLY <2>1, <2>6
<1>9. g \in [SUBSET S -> V]
    <2>1. DOMAIN g = SUBSET S
        BY ONLY <1>7 DEF Folded
    <2>2. g = [s \in SUBSET S |-> g[s]]
        BY ONLY <1>7 DEF Folded
    <2> QED BY ONLY <1>8, <2>2
<1>10. IsFold(g, S, V, c, F, base)
    BY ONLY <1>7, <1>9 DEF IsFold
<1> QED BY ONLY <1>10 DEF FoldOver

\* Community sums take the members out in a fixed order.
AnyOf(s) == CHOOSE x \in s : TRUE

AddedUp(f, S, g) ==
    /\ g \in [SUBSET S -> Int]
    /\ SumFunctionOnSet(f, S) = g[S] /\ g[{}] = 0
    /\ \A s \in SUBSET S : s # {} => g[s] = f[AnyOf(s)] + g[s \ {AnyOf(s)}]

PartialSums(f, S) == CHOOSE g : AddedUp(f, S, g)

LEMMA SumIsIterated ==
    ASSUME NEW S, IsFiniteSet(S), NEW f, \A x \in S : f[x] \in Int
    PROVE  AddedUp(f, S, PartialSums(f, S))
<1>0. PICK c, F : c = [s \in SUBSET S |-> AnyOf(s)] /\ F = [p \in S \X Int |-> f[p[1]] + p[2]]
    OBVIOUS
<1> DEFINE Sums(g) == [s \in SUBSET S |-> IF s = {} THEN 0 ELSE f[AnyOf(s)] + g[s \ {AnyOf(s)}]]
           it == CHOOSE g : g = Sums(g)
<1>3. \A s \in SUBSET S : s # {} => AnyOf(s) \in s
    BY DEF AnyOf
<1>1. PICK g : g \in [SUBSET S -> Int] /\ g = Folded(S, c, F, 0, g)
    <2>1. 0 \in Int /\ \A x \in S, v \in Int : F[<<x, v>>] \in Int
        BY <1>0
    <2>2. \A s \in SUBSET S : s # {} => c[s] \in s
        BY <1>0, <1>3
    <2>3. PICK V, base : V = Int /\ base = 0
        OBVIOUS
    <2>4. base \in V /\ \A x \in S, v \in V : F[<<x, v>>] \in V
        BY ONLY <2>1, <2>3
    <2>5. IsFold(FoldOver(S, V, c, F, base), S, V, c, F, base)
        BY ONLY <2>2, <2>4, IsFiniteSet(S), FoldsExist
    <2> QED BY ONLY <2>3, <2>5 DEF IsFold
<1>4. g = Sums(g)
    <2>1. \A s \in SUBSET S : s # {} => F[<<c[s], g[s \ {c[s]}]>>] = f[AnyOf(s)] + g[s \ {AnyOf(s)}]
        <3> SUFFICES ASSUME NEW s \in SUBSET S, s # {}
                     PROVE  F[<<c[s], g[s \ {c[s]}]>>] = f[AnyOf(s)] + g[s \ {AnyOf(s)}]
            OBVIOUS
        <3>1. PICK x \in s : x = AnyOf(s)
            BY <1>3
        <3>2. c[s] = x
            BY ONLY <1>0, <3>1, s \in SUBSET S
        <3>3. g[s \ {x}] \in Int /\ x \in S
            BY ONLY <1>1, <3>1, s \in SUBSET S
        <3>4. F[<<x, g[s \ {x}]>>] = f[x] + g[s \ {x}]
            BY ONLY <1>0, <3>3
        <3> QED BY ONLY <3>1, <3>2, <3>4
    <2>2. Folded(S, c, F, 0, g) = Sums(g)
        BY ONLY <2>1 DEF Folded
    <2> QED BY ONLY <1>1, <2>2
<1>5. it = Sums(it)
    BY ONLY <1>4
<1>6. SumFunctionOnSet(f, S) = it[S]
    BY DEF SumFunctionOnSet, FoldFunctionOnSet, MapThenFoldSet, AnyOf
<1>7. PICK h : h = it
    OBVIOUS
<1>8. h = Sums(h) /\ SumFunctionOnSet(f, S) = h[S]
    BY ONLY <1>5, <1>6, <1>7
<1>9. h[{}] = 0 /\ \A s \in SUBSET S : s # {} => h[s] = f[AnyOf(s)] + h[s \ {AnyOf(s)}]
    BY ONLY <1>8
<1>10. h \in [SUBSET S -> Int]
    <2>1. PICK P : P = {s \in SUBSET S : h[s] \in Int}
        OBVIOUS
    <2>2. ASSUME NEW s \in SUBSET S, s # {}, \A x \in s : s \ {x} \in P
          PROVE  s \in P
        <3>1. PICK x \in s : h[s] = f[x] + h[s \ {x}]
            BY <1>3, <1>9, <2>2
        <3>2. h[s \ {x}] \in Int /\ f[x] \in Int
            BY <2>1, <2>2
        <3> QED BY ONLY <2>1, <3>1, <3>2, s \in SUBSET S
    <2>3. {} \in P /\ P \in SUBSET (SUBSET S)
        BY <1>9, <2>1
    <2>4. \A s \in SUBSET S : s # {} /\ (\A x \in s : s \ {x} \in P) => s \in P
        BY <2>2
    <2>5. P = SUBSET S
        BY ONLY <2>3, <2>4, IsFiniteSet(S), MemberByMember
    <2> QED BY ONLY <1>8, <2>1, <2>5
<1>11. AddedUp(f, S, h)
    BY ONLY <1>8, <1>9, <1>10 DEF AddedUp
<1> QED BY ONLY <1>11 DEF PartialSums

\* A sum may be taken apart at any member.
LEMMA SumOfMembers ==
    ASSUME NEW S, IsFiniteSet(S), NEW f, \A x \in S : f[x] \in Int
    PROVE  /\ SumFunctionOnSet(f, {}) = 0
           /\ \A s \in SUBSET S :
                  /\ SumFunctionOnSet(f, s) \in Int
                  /\ \A x \in s : SumFunctionOnSet(f, s) = f[x] + SumFunctionOnSet(f, s \ {x})
<1>1. \A s \in SUBSET S : AddedUp(f, s, PartialSums(f, s))
    <2> SUFFICES ASSUME NEW s \in SUBSET S
                 PROVE  AddedUp(f, s, PartialSums(f, s))
        OBVIOUS
    <2>1. IsFiniteSet(s) /\ \A x \in s : f[x] \in Int
        BY FS_Subset
    <2> QED BY ONLY <2>1, SumIsIterated
<1>2. PICK sum : sum = PartialSums(f, S)
    OBVIOUS
<1>3. AddedUp(f, S, sum)
    BY <1>1, <1>2
<1>4. \A s \in SUBSET S : s # {} => AnyOf(s) \in s
    BY DEF AnyOf
<1>5. \A t \in SUBSET S : \A s \in SUBSET S : t \subseteq s => PartialSums(f, s)[t] = sum[t]
    <2>1. PICK P : P = {t \in SUBSET S : \A s \in SUBSET S : t \subseteq s => PartialSums(f, s)[t] = sum[t]}
        OBVIOUS
    <2>2. {} \in P
        BY <1>1, <1>3, <2>1 DEF AddedUp
    <2>3. ASSUME NEW t \in SUBSET S, t # {}, \A x \in t : t \ {x} \in P
          PROVE  t \in P
        <3> SUFFICES ASSUME NEW s \in SUBSET S, t \subseteq s
                     PROVE  PartialSums(f, s)[t] = sum[t]
            BY <2>1
        <3>1. PICK x \in t : x = AnyOf(t)
            BY <1>4, <2>3
        <3>2. PICK part : part = PartialSums(f, s)
            OBVIOUS
        <3>3. part[t] = f[x] + part[t \ {x}]
            <4>1. AddedUp(f, s, part)
                BY <1>1, <3>2
            <4> QED BY ONLY <3>1, <4>1, t \subseteq s DEF AddedUp
        <3>4. sum[t] = f[x] + sum[t \ {x}]
            BY ONLY <1>3, <3>1, t \in SUBSET S DEF AddedUp
        <3>5. t \ {x} \in P /\ t \ {x} \subseteq s
            BY <2>3
        <3>6. part[t \ {x}] = sum[t \ {x}]
            BY ONLY <2>1, <3>2, <3>5, s \in SUBSET S
        <3> QED BY ONLY <3>2, <3>3, <3>4, <3>6
    <2>4. P \in SUBSET (SUBSET S)
        BY <2>1
    <2>5. \A t \in SUBSET S : t # {} /\ (\A x \in t : t \ {x} \in P) => t \in P
        BY <2>3
    <2>6. P = SUBSET S
        BY ONLY <2>2, <2>4, <2>5, IsFiniteSet(S), MemberByMember
    <2> QED BY ONLY <2>1, <2>6
<1>6. \A s \in SUBSET S : SumFunctionOnSet(f, s) = sum[s] /\ sum[s] \in Int
    <2> SUFFICES ASSUME NEW s \in SUBSET S
                 PROVE  SumFunctionOnSet(f, s) = sum[s] /\ sum[s] \in Int
        OBVIOUS
    <2>1. SumFunctionOnSet(f, s) = PartialSums(f, s)[s]
        BY <1>1 DEF AddedUp
    <2>2. PartialSums(f, s)[s] = sum[s]
        BY <1>5
    <2>3. sum[s] \in Int
        BY ONLY <1>3, s \in SUBSET S DEF AddedUp
    <2> QED BY ONLY <2>1, <2>2, <2>3
<1>7. \A s \in SUBSET S : \A x \in s : sum[s] = f[x] + sum[s \ {x}]
    <2>1. PICK P : P = {s \in SUBSET S : \A x \in s : sum[s] = f[x] + sum[s \ {x}]}
        OBVIOUS
    <2>2. {} \in P /\ P \in SUBSET (SUBSET S)
        BY <2>1
    <2>3. ASSUME NEW s \in SUBSET S, s # {}, \A x \in s : s \ {x} \in P
          PROVE  s \in P
        <3>1. PICK y \in s : y = AnyOf(s)
            BY <1>4, <2>3
        <3>2. sum[s] = f[y] + sum[s \ {y}]
            BY ONLY <1>3, <3>1, s \in SUBSET S DEF AddedUp
        <3>3. ASSUME NEW x \in s, x # y
              PROVE  sum[s] = f[x] + sum[s \ {x}]
            <4>1. x \in s \ {y} /\ y \in s \ {x} /\ s \ {y} \in P /\ s \ {x} \in P
                BY <2>3, <3>3
            <4>2. (s \ {y}) \ {x} = (s \ {x}) \ {y}
                OBVIOUS
            <4>3. sum[s \ {y}] = f[x] + sum[(s \ {x}) \ {y}]
                BY ONLY <2>1, <4>1, <4>2
            <4>4. sum[s \ {x}] = f[y] + sum[(s \ {x}) \ {y}]
                BY ONLY <2>1, <4>1
            <4>5. f[x] \in Int /\ f[y] \in Int /\ sum[(s \ {x}) \ {y}] \in Int
                <5>1. (s \ {x}) \ {y} \in SUBSET S
                    OBVIOUS
                <5> QED BY <1>6, <5>1
            <4> QED BY ONLY <3>2, <4>3, <4>4, <4>5
        <3> QED BY ONLY <2>1, <3>2, <3>3, s \in SUBSET S
    <2>4. \A s \in SUBSET S : s # {} /\ (\A x \in s : s \ {x} \in P) => s \in P
        BY <2>3
    <2>5. P = SUBSET S
        BY ONLY <2>2, <2>4, IsFiniteSet(S), MemberByMember
    <2> QED BY ONLY <2>1, <2>5
<1>8. SumFunctionOnSet(f, {}) = 0
    <2>1. {} \in SUBSET S /\ sum[{}] = 0
        BY <1>3 DEF AddedUp
    <2> QED BY <1>6, <2>1
<1>9. \A s \in SUBSET S : \A x \in s : s \ {x} \in SUBSET S
    OBVIOUS
<1> QED BY ONLY <1>6, <1>7, <1>8, <1>9
=============================================================================
