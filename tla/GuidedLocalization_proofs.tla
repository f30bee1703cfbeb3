---------------------- MODULE GuidedLocalization_proofs ---------------------
(***************************************************************************)
(* The drilldown and the localization that uses its ranking.                *)
(***************************************************************************)
EXTENDS GuidedLocalization, Ordering_proofs

-----------------------------------------------------------------------------
(* The drilldown                                                           *)

LEMMA InitDrilldown == DrilldownInit => DrilldownInv
<1> SUFFICES ASSUME DrilldownInit PROVE DrilldownInv
    OBVIOUS
<1> DEFINE first == Entry(Alerting, <<Alerting>>, 0)
<1>1. first \in Entries /\ first.path = <<Alerting>> /\ first.api = Alerting /\ first.depth = 0
    <2>1. <<Alerting>> \in Seq(APIs) /\ <<>> \in Seq(Dependencies)
        BY ProfileIsUsable
    <2> QED BY <2>1, ProfileIsUsable DEF Entry, Entries
<1> HIDE DEF first
<1>2. queue = <<first>> /\ queue \in Seq(Entries) /\ DOMAIN queue = {1} /\ queue[1] = first
    BY <1>1 DEF DrilldownInit, first
<1>3. DOMAIN candidates = {} /\ scored = <<>> /\ current = NoEntry /\ ranking = NoRanking /\ expanded = {}
      /\ exhausted = FALSE
    BY DEF DrilldownInit
<1>4. DrilldownTypeOK
    <2>1. scored \in Seq(Dependencies)
        BY <1>3
    <2> QED BY <1>2, <1>3, <2>1 DEF DrilldownInit, DrilldownTypeOK
<1>5. Trail(<<Alerting>>, Alerting)
    <2>1. EdgesOf(<<Alerting>>) = {}
        BY DEF EdgesOf
    <2> QED BY <2>1 DEF Trail, IsInjective, Range, Visited
<1>6. PathsAreTrails
    <2>1. policy.depth \in Nat /\ policy.edges \in Nat
        BY ProfileIsUsable DEF DrilldownInit, UsablePolicy
    <2>2. EntryIsTrail(first)
        BY <1>1, <1>5, <2>1 DEF EntryIsTrail
    <2> QED BY <1>2, <1>3, <2>1, <2>2 DEF PathsAreTrails, IsInjective
<1>7. NothingIsPassedOver
    BY <1>1, <1>2, <1>3 DEF NothingIsPassedOver, Visited
<1> QED BY <1>4, <1>6, <1>7 DEF DrilldownInv

\* The features of a run are fixed, and so is all that is computed from them.
LEMMA FeaturesStay ==
    ASSUME features' = features
    PROVE  /\ \A e : Score(e)' = Score(e) /\ (Retained(e)' <=> Retained(e))
           /\ Signals' = Signals /\ Suspicious' = Suspicious /\ Suspects' = Suspects
<1>1. \A e : Score(e)' = Score(e)
    BY DEF Score
<1>2. \A e : Retained(e)' <=> Retained(e)
    BY <1>1 DEF Retained
<1>3. Signals' = Signals
    BY DEF Signals
<1>4. Suspicious' = Suspicious
    BY <1>2, <1>3 DEF Suspicious
<1>5. Suspects' = Suspects
    BY <1>4 DEF Suspects
<1> QED BY <1>1, <1>2, <1>3, <1>4, <1>5

LEMMA ScoresAreNumbers ==
    ASSUME DrilldownTypeOK, NEW e \in Dependencies
    PROVE  Score(e) \in Int
<1>1. PICK f \in Features : f = features[e]
    BY DEF DrilldownTypeOK
<1>2. FailureScore(f) \in Int /\ LatencyScore(f) \in Int
    BY FeaturesAreNumbers DEF FailureScore, LatencyScore, Positive
<1> QED BY <1>1, <1>2 DEF Score

\* An edge from an API to another, of the profile's.
LEMMA SignalsAreEdges ==
    /\ Signals \subseteq Dependencies /\ Suspicious \subseteq Signals
    /\ \A e \in Dependencies : e[1] \in APIs /\ e[2] \in APIs /\ e = <<e[1], e[2]>> /\ e[1] # e[2]
BY ProfileIsUsable DEF Signals, Suspicious

\* What an expanded API is followed along: all of its signals, each once.
LEMMA OutgoingIsAll ==
    ASSUME DrilldownTypeOK, NEW api
    PROVE  /\ Outgoing(api) \in Seq(Dependencies) /\ IsInjective(Outgoing(api))
           /\ Range(Outgoing(api)) = {e \in Signals : e[1] = api}
<1> DEFINE S == {e \in Signals : e[1] = api}
           R == {p \in S \X S : Score(p[1]) > Score(p[2]) \/ (Score(p[1]) = Score(p[2]) /\ p[1][2] < p[2][2])}
<1>1. S \in SUBSET Dependencies /\ IsFiniteSet(S)
    <2>1. S \in SUBSET Dependencies
        BY SignalsAreEdges
    <2> QED BY <2>1, ProfileIsUsable, FS_Subset
<1>2. \A d, e \in S : <<d, e>> \in R <=> Score(d) > Score(e) \/ (Score(d) = Score(e) /\ d[2] < e[2])
    OBVIOUS
<1>3. Outgoing(api) = Sorted(S, R)
    BY DEF Outgoing, Ordered
<1>4. \A e \in S : Score(e) \in Int /\ e[2] \in Int /\ e = <<api, e[2]>>
    <2> SUFFICES ASSUME NEW e \in S PROVE Score(e) \in Int /\ e[2] \in Int /\ e = <<api, e[2]>>
        OBVIOUS
    <2>1. e \in Dependencies /\ e[1] = api
        BY <1>1
    <2>2. e[2] \in APIs /\ e = <<e[1], e[2]>>
        BY <2>1, SignalsAreEdges
    <2>3. Score(e) \in Int
        BY <2>1, ScoresAreNumbers
    <2>4. e[2] \in Int
        BY <2>2, ProfileIsUsable
    <2>5. <<e[1], e[2]>> = <<api, e[2]>>
        BY <2>1
    <2>6. e = <<api, e[2]>>
        BY <2>2, <2>5
    <2> QED BY <2>3, <2>4, <2>6
<1> HIDE DEF R
<1>5. StrictOrder(S, R)
    <2> HIDE DEF S
    <2> QED BY <1>2, <1>4 DEF StrictOrder
<1> HIDE DEF S
<1>6. /\ Sorted(S, R) \in Seq(S) /\ Len(Sorted(S, R)) = Cardinality(S)
      /\ \A x \in S : \E k \in 1..Cardinality(S) : Sorted(S, R)[k] = x
      /\ \A j, k \in 1..Cardinality(S) : j < k => <<Sorted(S, R)[j], Sorted(S, R)[k]>> \in R
    BY <1>1, <1>5, SortedIsInOrder
<1>7. Cardinality(S) \in Nat /\ DOMAIN Sorted(S, R) = 1..Cardinality(S)
    BY <1>1, <1>6, FS_CardinalityType
<1>8. \A k \in 1..Cardinality(S) : Sorted(S, R)[k] \in S
    BY <1>6, <1>7
<1>9. IsInjective(Sorted(S, R))
    <2> SUFFICES ASSUME NEW j \in 1..Cardinality(S), NEW k \in 1..Cardinality(S), j < k
                 PROVE  Sorted(S, R)[j] # Sorted(S, R)[k]
        BY <1>7 DEF IsInjective
    <2>1. <<Sorted(S, R)[j], Sorted(S, R)[k]>> \in R /\ Sorted(S, R)[j] \in S
        BY <1>6, <1>8
    <2> QED BY <1>5, <2>1 DEF StrictOrder
<1>10. Range(Sorted(S, R)) = S
    BY <1>6, <1>7, <1>8 DEF Range
<1>11. Sorted(S, R) \in Seq(Dependencies)
    BY <1>1, <1>6
<1> QED BY <1>3, <1>9, <1>10, <1>11 DEF S

\* One suspicious edge beyond a suspect is a suspect, and nothing else is one.
LEMMA SuspectsAreClosed ==
    /\ \A e \in Suspicious : e[1] \in Suspects \cup {Alerting} => e[2] \in Suspects \cup {Alerting}
    /\ \A S \in SUBSET APIs :
        Alerting \in S /\ (\A e \in Suspicious : e[1] \in S => e[2] \in S) => Suspects \subseteq S
    /\ Suspects \subseteq APIs
<1>1. ASSUME NEW e \in Suspicious, e[1] \in Suspects \cup {Alerting}
      PROVE  e[2] \in Suspects \cup {Alerting}
    <2>1. e[2] \in APIs
        BY SignalsAreEdges
    <2>2. ASSUME NEW S \in SUBSET APIs, Alerting \in S, \A d \in Suspicious : d[1] \in S => d[2] \in S
          PROVE  e[2] \in S
        BY <1>1, <2>2 DEF Suspects
    <2> QED BY <2>1, <2>2 DEF Suspects
<1> QED BY <1>1 DEF Suspects

\* Later on a path is still what it was.
LEMMA TrailsLast ==
    ASSUME features' = features, policy' = policy,
           Range(scored) \subseteq Range(scored'), DOMAIN candidates \subseteq DOMAIN candidates'
    PROVE  /\ \A path, api : Trail(path, api) => Trail(path, api)'
           /\ \A entry : EntryIsTrail(entry) => EntryIsTrail(entry)'
           /\ \A a, path, score : CandidateIsTrail(a, path, score) => CandidateIsTrail(a, path, score)'
<1>1. Suspicious' = Suspicious /\ Suspects' = Suspects /\ \A e : Score(e)' = Score(e)
    BY FeaturesStay
<1>2. \A path, api : Trail(path, api) => Trail(path, api)'
    BY <1>1 DEF Trail, Visited, EdgesOf, Range, IsInjective
<1>3. \A entry : EntryIsTrail(entry) => EntryIsTrail(entry)'
    BY <1>2 DEF EntryIsTrail
<1>4. ASSUME NEW a, NEW path, NEW score, CandidateIsTrail(a, path, score)
      PROVE  CandidateIsTrail(a, path, score)'
    BY <1>1, <1>2, <1>4 DEF CandidateIsTrail
<1> QED BY <1>2, <1>3, <1>4

\* The queue without its head.
LEMMA TailOfQueue ==
    ASSUME NEW S, NEW s \in Seq(S), s # <<>>
    PROVE  /\ Head(s) = s[1] /\ Head(s) \in S /\ 1 \in DOMAIN s
           /\ Tail(s) \in Seq(S) /\ Len(Tail(s)) = Len(s) - 1
           /\ \A k \in DOMAIN Tail(s) : k + 1 \in DOMAIN s /\ Tail(s)[k] = s[k + 1]
           /\ \A k \in DOMAIN s : k # 1 => k - 1 \in DOMAIN Tail(s) /\ Tail(s)[k - 1] = s[k]
OBVIOUS

LEMMA TakeKeeps ==
    ASSUME DrilldownInv, TakeAPI
    PROVE  DrilldownInv'
<1>0. DrilldownTypeOK /\ PathsAreTrails /\ NothingIsPassedOver
    BY DEF DrilldownInv
<1>a. PICK entry : entry = Head(queue)
    OBVIOUS
<1>b. PICK next : next = [entry EXCEPT !.outgoing = Outgoing(entry.api)]
    OBVIOUS
<1> DEFINE new == entry.api \notin expanded
           deep == entry.depth >= policy.depth
<1>1. /\ current = NoEntry /\ ranking = NoRanking /\ queue # <<>> /\ ~exhausted /\ queue' = Tail(queue)
      /\ UNCHANGED <<features, policy, scored, candidates, ranking>>
      /\ ~new => UNCHANGED <<expanded, current, exhausted>>
      /\ new => expanded' = expanded \cup {entry.api}
      /\ new /\ deep => exhausted' = GoesDeeper(entry) /\ UNCHANGED current
      /\ new /\ ~deep => /\ current' = IF Outgoing(entry.api) = <<>> THEN NoEntry ELSE next
                         /\ UNCHANGED exhausted
    BY <1>a, <1>b DEF TakeAPI
<1>2. /\ entry = queue[1] /\ entry \in Entries /\ 1 \in DOMAIN queue
      /\ queue' \in Seq(Entries)
      /\ \A k \in DOMAIN queue' : k + 1 \in DOMAIN queue /\ queue'[k] = queue[k + 1]
      /\ \A k \in DOMAIN queue : k # 1 => k - 1 \in DOMAIN queue' /\ queue'[k - 1] = queue[k]
    <2>1. queue \in Seq(Entries) /\ queue # <<>>
        BY <1>0, <1>1 DEF DrilldownTypeOK
    <2> QED BY <1>1, <1>a, <2>1, TailOfQueue
<1>3. /\ Outgoing(entry.api) \in Seq(Dependencies) /\ IsInjective(Outgoing(entry.api))
      /\ Range(Outgoing(entry.api)) = {e \in Signals : e[1] = entry.api}
    BY <1>0, OutgoingIsAll
<1>4. /\ next \in Entries /\ next # NoEntry
      /\ next.api = entry.api /\ next.path = entry.path /\ next.depth = entry.depth
      /\ next.outgoing = Outgoing(entry.api)
    BY <1>2, <1>3, <1>b, ProfileIsUsable DEF Entries, NoEntry
<1>5. EntryIsTrail(entry) /\ EntryIsTrail(next)
    BY <1>0, <1>2, <1>4 DEF PathsAreTrails, EntryIsTrail
<1> HIDE DEF new, deep
<1>6. /\ \A path, api : Trail(path, api) => Trail(path, api)'
      /\ \A any : EntryIsTrail(any) => EntryIsTrail(any)'
      /\ \A a, path, score : CandidateIsTrail(a, path, score) => CandidateIsTrail(a, path, score)'
      /\ Signals' = Signals /\ Suspicious' = Suspicious
      /\ \A e : Score(e)' = Score(e)
    BY <1>1, TrailsLast, FeaturesStay
<1>7. current' = NoEntry \/ (current' = next /\ new /\ ~deep /\ Outgoing(entry.api) # <<>>)
    BY <1>1
<1>8. expanded \subseteq expanded' /\ (new \/ expanded' = expanded)
    BY <1>1
<1>9. DrilldownTypeOK'
    <2>1. current' \in Entries \cup {NoEntry}
        BY <1>4, <1>7
    <2>2. expanded' \subseteq APIs
        BY <1>0, <1>1, <1>2 DEF DrilldownTypeOK, Entries
    <2>3. exhausted' \in BOOLEAN
        BY <1>0, <1>1 DEF DrilldownTypeOK, GoesDeeper
    <2> QED BY <1>0, <1>1, <1>2, <2>1, <2>2, <2>3 DEF DrilldownTypeOK
<1>10. PathsAreTrails'
    <2>1. ASSUME NEW k \in DOMAIN queue'
          PROVE  EntryIsTrail(queue[k])'
        <3>1. PICK q : q = queue'[k] /\ q = queue[k + 1] /\ k + 1 \in DOMAIN queue
            BY <1>2
        <3>2. EntryIsTrail(q)
            BY <1>0, <3>1 DEF PathsAreTrails
        <3>3. EntryIsTrail(q)'
            BY <1>6, <3>2
        <3> QED BY <3>1, <3>3
    <2>2. ASSUME current' # NoEntry
          PROVE  /\ EntryIsTrail(current)' /\ current'.depth < policy'.depth /\ current'.api \in expanded'
                 /\ current'.outgoing # <<>> /\ IsInjective(current'.outgoing)
                 /\ \A k \in DOMAIN current'.outgoing :
                     /\ current'.outgoing[k] \in Signals' /\ current'.outgoing[k][1] = current'.api
                     /\ current'.outgoing[k] \notin Range(scored')
                 /\ ~exhausted' /\ ranking' = NoRanking
        <3>1. current' = next /\ new /\ ~deep /\ Outgoing(entry.api) # <<>>
            BY <1>7, <2>2
        <3>2. EntryIsTrail(next)'
            BY <1>5, <1>6
        <3>3. entry.depth < policy.depth
            BY <1>0, <1>2, <3>1, ProfileIsUsable DEF deep, DrilldownTypeOK, Entries, UsablePolicy
        <3>4. ASSUME NEW k \in DOMAIN Outgoing(entry.api)
              PROVE  /\ Outgoing(entry.api)[k] \in Signals /\ Outgoing(entry.api)[k][1] = entry.api
                     /\ Outgoing(entry.api)[k] \notin Range(scored)
            <4>1. Outgoing(entry.api)[k] \in Signals /\ Outgoing(entry.api)[k][1] = entry.api
                BY <1>3 DEF Range
            <4> QED BY <1>0, <3>1, <4>1 DEF new, PathsAreTrails, Range
        <3>5. entry.api \in expanded' /\ ~exhausted' /\ ranking' = NoRanking /\ scored' = scored /\ policy' = policy
            BY <1>1, <3>1
        <3> QED BY <1>3, <1>4, <1>6, <3>1, <3>2, <3>3, <3>4, <3>5
    <2>3. ASSUME NEW a \in DOMAIN candidates'
          PROVE  CandidateIsTrail(a, candidates[a].path, candidates[a].score)'
        <3>1. PICK path, score : path = candidates[a].path /\ score = candidates[a].score
            OBVIOUS
        <3>2. CandidateIsTrail(a, path, score)
            BY <1>0, <1>1, <3>1 DEF PathsAreTrails
        <3>3. CandidateIsTrail(a, path, score)'
            BY <1>6, <3>2
        <3>4. path = candidates'[a].path /\ score = candidates'[a].score
            BY <1>1, <3>1
        <3> QED BY <3>3, <3>4
    <2>4. \A k \in DOMAIN scored : scored[k][1] \in expanded'
        BY <1>0, <1>8 DEF PathsAreTrails
    <2>5. IsInjective(scored) /\ Len(scored) <= policy.edges
        BY <1>0 DEF PathsAreTrails
    <2> QED BY <1>1, <2>1, <2>2, <2>3, <2>4, <2>5 DEF PathsAreTrails
<1>11. NothingIsPassedOver'
    <2>1. Visited' = Visited /\ entry.api \in expanded'
        BY <1>1 DEF Visited, new
    <2>2. \A a \in Visited : a \in expanded' \/ \E k \in DOMAIN queue' : queue'[k].api = a
        <3> SUFFICES ASSUME NEW a \in Visited, a \notin expanded'
                     PROVE  \E k \in DOMAIN queue' : queue'[k].api = a
            OBVIOUS
        <3>1. PICK k \in DOMAIN queue : queue[k].api = a
            BY <1>0, <1>1, <1>8 DEF NothingIsPassedOver
        <3> QED BY <1>2, <2>1, <3>1
    <2>3. ASSUME ~exhausted', NEW e \in Suspicious, e[1] \in expanded'
          PROVE  e[2] \in Visited \/ (current' # NoEntry /\ e \in Range(current'.outgoing))
        <3>1. CASE e[1] \in expanded
            BY <1>0, <1>1, <3>1 DEF NothingIsPassedOver
        <3>2. CASE e[1] \notin expanded
            <4>1. new /\ e[1] = entry.api
                BY <1>1, <2>3, <3>2
            <4>2. e \in Signals /\ Retained(e)
                BY DEF Suspicious
            <4>3. CASE deep
                <5>1. e[2] \in Range(entry.path)
                    BY <1>1, <2>3, <4>1, <4>2, <4>3 DEF GoesDeeper
                <5> QED BY <1>5, <5>1 DEF EntryIsTrail, Trail
            <4>4. CASE ~deep
                <5>1. e \in Range(Outgoing(entry.api))
                    BY <1>3, <4>1, <4>2
                <5>2. Outgoing(entry.api) # <<>>
                    BY <5>1 DEF Range
                <5> QED BY <1>1, <1>4, <4>1, <4>4, <5>1, <5>2
            <4> QED BY <4>3, <4>4
        <3> QED BY <3>1, <3>2
    <2> QED BY <1>1, <1>6, <2>1, <2>2, <2>3 DEF NothingIsPassedOver
<1> QED BY <1>9, <1>10, <1>11 DEF DrilldownInv

\* An edge more.
LEMMA TrailGrows ==
    ASSUME features' = features, NEW path \in Seq(APIs), NEW e \in Suspicious, Trail(path, e[1])', e[2] \notin Range(path),
           e \in Range(scored'), e[2] \in DOMAIN candidates'
    PROVE  Trail(Append(path, e[2]), e[2])'
<1> DEFINE longer == Append(path, e[2])
<1>1. e[2] \in APIs /\ e = <<e[1], e[2]>>
    BY SignalsAreEdges, ProfileIsUsable
<1>2. /\ longer \in Seq(APIs) /\ Len(longer) = Len(path) + 1 /\ longer[Len(longer)] = e[2]
      /\ DOMAIN longer = 1..(Len(path) + 1) /\ DOMAIN path = 1..Len(path) /\ Len(path) \in Nat
      /\ \A k \in 1..Len(path) : longer[k] = path[k]
    BY <1>1
<1>3. Len(path) # 0 /\ path[1] = Alerting /\ path[Len(path)] = e[1]
    BY DEF Trail
<1> HIDE DEF longer
<1>4. longer # <<>> /\ longer[1] = Alerting
    BY <1>2, <1>3
<1>5. IsInjective(longer)
    <2>1. IsInjective(path)
        BY DEF Trail
    <2> QED BY <1>2, <2>1 DEF IsInjective, Range
<1>6. EdgesOf(longer) \subseteq EdgesOf(path) \cup {e}
    BY <1>1, <1>2, <1>3 DEF EdgesOf
<1>7. Range(longer) \subseteq Range(path) \cup {e[2]}
    BY <1>2 DEF Range
<1>8. EdgesOf(path) \subseteq Range(scored') \cap Suspicious' /\ Range(path) \subseteq DOMAIN candidates' \cup {Alerting}
    BY DEF Trail, Visited, EdgesOf
<1>9. e[2] \in Suspects' \cup {Alerting}
    <2>1. Suspects' = Suspects /\ e[1] \in Suspects' \cup {Alerting}
        BY FeaturesStay DEF Trail
    <2> QED BY <2>1, SuspectsAreClosed
<1>10. e \in Range(scored') \cap Suspicious'
    BY FeaturesStay
<1>11. /\ longer # <<>> /\ longer[1] = Alerting /\ longer[Len(longer)] = e[2]
       /\ IsInjective(longer)
       /\ EdgesOf(longer) \subseteq Range(scored') \cap Suspicious'
       /\ Range(longer) \subseteq DOMAIN candidates' \cup {Alerting}
       /\ e[2] \in Suspects' \cup {Alerting}
    BY <1>2, <1>4, <1>5, <1>6, <1>7, <1>8, <1>9, <1>10
<1> QED BY <1>11 DEF Trail, Visited, EdgesOf, longer

\* What one evaluation may do to the candidates.
LEMMA ConsiderKeepsOrReplaces ==
    ASSUME DrilldownTypeOK, NEW e \in Dependencies, NEW path \in Seq(APIs), Consider(e, path)
    PROVE  /\ DOMAIN candidates' = DOMAIN candidates \cup {e[2]}
           /\ \A a \in DOMAIN candidates' :
                \/ a \in DOMAIN candidates /\ candidates'[a] = candidates[a]
                \/ a = e[2] /\ candidates'[a] = [api |-> a, score |-> Score(e), path |-> path]
           /\ DOMAIN candidates' \subseteq APIs
           /\ \A a \in DOMAIN candidates' : candidates'[a] \in [api : {a}, score : Int, path : Seq(APIs)]
<1>1. e[2] \in APIs /\ Score(e) \in Int
    BY SignalsAreEdges, ScoresAreNumbers
<1>2. /\ DOMAIN candidates' = DOMAIN candidates \cup {e[2]}
      /\ \A a \in DOMAIN candidates' :
           \/ a \in DOMAIN candidates /\ candidates'[a] = candidates[a]
           \/ a = e[2] /\ candidates'[a] = [api |-> a, score |-> Score(e), path |-> path]
    <2>1. CASE e[2] \in DOMAIN candidates /\ candidates[e[2]].score >= Score(e)
        BY <2>1 DEF Consider
    <2>2. CASE ~(e[2] \in DOMAIN candidates /\ candidates[e[2]].score >= Score(e))
        BY <2>2 DEF Consider
    <2> QED BY <2>1, <2>2
<1>3. DOMAIN candidates' \subseteq APIs
    BY <1>1, <1>2 DEF DrilldownTypeOK
<1>4. ASSUME NEW a \in DOMAIN candidates'
      PROVE  candidates'[a] \in [api : {a}, score : Int, path : Seq(APIs)]
    <2>1. [api |-> a, score |-> Score(e), path |-> path] \in [api : {a}, score : Int, path : Seq(APIs)]
        BY <1>1
    <2>2. CASE a \in DOMAIN candidates /\ candidates'[a] = candidates[a]
        BY <2>2 DEF DrilldownTypeOK
    <2>3. CASE candidates'[a] = [api |-> a, score |-> Score(e), path |-> path]
        BY <2>1, <2>3
    <2> QED BY <1>2, <2>2, <2>3
<1> QED BY <1>2, <1>3, <1>4

LEMMA EvaluateKeeps ==
    ASSUME DrilldownInv, EvaluateEdge
    PROVE  DrilldownInv'
<1>0. DrilldownTypeOK /\ PathsAreTrails /\ NothingIsPassedOver
    BY DEF DrilldownInv
<1>a. PICK entry : entry = current
    OBVIOUS
<1>b. PICK e : e = Head(entry.outgoing)
    OBVIOUS
<1>c. PICK path : path = Append(entry.path, e[2])
    OBVIOUS
<1>d. PICK rest : rest = [entry EXCEPT !.outgoing = Tail(entry.outgoing)]
    OBVIOUS
<1>e. PICK new : new = Entry(e[2], path, entry.depth + 1)
    OBVIOUS
<1>1. /\ entry # NoEntry /\ UNCHANGED <<features, policy, expanded, ranking>>
      /\ Len(scored) >= policy.edges =>
            exhausted' = TRUE /\ current' = NoEntry /\ UNCHANGED <<scored, candidates, queue>>
      /\ Len(scored) < policy.edges =>
            /\ scored' = Append(scored, e)
            /\ current' = IF Len(entry.outgoing) = 1 THEN NoEntry ELSE rest
            /\ Retained(e) /\ e[2] \notin Range(entry.path) => Consider(e, path) /\ queue' = Append(queue, new)
            /\ ~(Retained(e) /\ e[2] \notin Range(entry.path)) => UNCHANGED <<candidates, queue>>
            /\ UNCHANGED exhausted
    <2>1. Len(scored) \in Int /\ policy.edges \in Int
        BY <1>0, ProfileIsUsable DEF DrilldownTypeOK, UsablePolicy
    <2> QED BY <1>a, <1>b, <1>c, <1>d, <1>e, <2>1 DEF EvaluateEdge
<1>2. /\ entry \in Entries /\ EntryIsTrail(entry) /\ entry.depth < policy.depth /\ entry.api \in expanded
      /\ entry.outgoing # <<>> /\ IsInjective(entry.outgoing) /\ entry.outgoing \in Seq(Dependencies)
      /\ \A k \in DOMAIN entry.outgoing :
            /\ entry.outgoing[k] \in Signals /\ entry.outgoing[k][1] = entry.api
            /\ entry.outgoing[k] \notin Range(scored)
      /\ ~exhausted /\ ranking = NoRanking
    BY <1>0, <1>1, <1>a DEF PathsAreTrails, DrilldownTypeOK, Entries
<1>3. /\ e = entry.outgoing[1] /\ 1 \in DOMAIN entry.outgoing
      /\ Tail(entry.outgoing) \in Seq(Dependencies) /\ Len(Tail(entry.outgoing)) = Len(entry.outgoing) - 1
      /\ \A k \in DOMAIN Tail(entry.outgoing) :
            k + 1 \in DOMAIN entry.outgoing /\ Tail(entry.outgoing)[k] = entry.outgoing[k + 1]
      /\ \A k \in DOMAIN entry.outgoing : k # 1 =>
            k - 1 \in DOMAIN Tail(entry.outgoing) /\ Tail(entry.outgoing)[k - 1] = entry.outgoing[k]
    BY <1>2, <1>b, TailOfQueue
<1>4. /\ e \in Signals /\ e \in Dependencies /\ e[1] = entry.api /\ e[2] \in APIs /\ e = <<e[1], e[2]>>
      /\ e \notin Range(scored) /\ Score(e) \in Int
    <2>1. e \in Signals /\ e[1] = entry.api /\ e \notin Range(scored)
        BY <1>2, <1>3
    <2>2. e \in Dependencies /\ e[2] \in APIs /\ e = <<e[1], e[2]>>
        BY <2>1, SignalsAreEdges
    <2> QED BY <1>0, <2>1, <2>2, ScoresAreNumbers
<1>5. /\ entry.path \in Seq(APIs) /\ path \in Seq(APIs) /\ Len(path) = Len(entry.path) + 1
      /\ entry.path # <<>> /\ path[Len(path) - 1] = entry.api
      /\ Len(entry.path) = entry.depth + 1 /\ entry.depth \in Nat
    <2>1. /\ entry.path \in Seq(APIs) /\ entry.depth \in Nat /\ Len(entry.path) = entry.depth + 1
          /\ entry.path # <<>> /\ entry.path[Len(entry.path)] = entry.api
        BY <1>2 DEF Entries, EntryIsTrail, Trail
    <2> QED BY <1>4, <1>c, <2>1
<1>6. new \in Entries /\ new.api = e[2] /\ new.path = path /\ new.depth = entry.depth + 1
    BY <1>4, <1>5, <1>e DEF Entry, Entries
<1>7. /\ rest \in Entries /\ rest.api = entry.api /\ rest.path = entry.path /\ rest.depth = entry.depth
      /\ rest.outgoing = Tail(entry.outgoing)
    BY <1>2, <1>3, <1>d DEF Entries
<1>8. policy.depth \in Nat /\ policy.edges \in Nat /\ Len(scored) \in Nat
    BY <1>0, ProfileIsUsable DEF DrilldownTypeOK, UsablePolicy
<1>9. CASE Len(scored) >= policy.edges
    <2>1. exhausted' = TRUE /\ current' = NoEntry /\ UNCHANGED <<scored, candidates, queue>>
        BY <1>1, <1>9
    <2>2. DrilldownTypeOK'
        BY <1>0, <1>1, <2>1 DEF DrilldownTypeOK
    <2>3. /\ \A any : EntryIsTrail(any) => EntryIsTrail(any)'
          /\ \A a, p, score : CandidateIsTrail(a, p, score) => CandidateIsTrail(a, p, score)'
        BY <1>1, <2>1, TrailsLast
    <2>4. ASSUME NEW k \in DOMAIN queue'
          PROVE  EntryIsTrail(queue[k])'
        <3>1. PICK q : q = queue'[k] /\ q = queue[k] /\ k \in DOMAIN queue
            BY <2>1
        <3>2. EntryIsTrail(q)'
            BY <1>0, <2>3, <3>1 DEF PathsAreTrails
        <3> QED BY <3>1, <3>2
    <2>5. ASSUME NEW a \in DOMAIN candidates'
          PROVE  CandidateIsTrail(a, candidates[a].path, candidates[a].score)'
        <3>1. PICK p, score : p = candidates[a].path /\ score = candidates[a].score
            OBVIOUS
        <3>2. CandidateIsTrail(a, p, score)'
            BY <1>0, <2>1, <2>3, <3>1 DEF PathsAreTrails
        <3>3. p = candidates'[a].path /\ score = candidates'[a].score
            BY <2>1, <3>1
        <3> QED BY <3>2, <3>3
    <2>6. PathsAreTrails'
        BY <1>0, <1>1, <2>1, <2>4, <2>5 DEF PathsAreTrails
    <2>7. NothingIsPassedOver'
        BY <1>0, <1>1, <1>2, <2>1 DEF NothingIsPassedOver
    <2> QED BY <2>2, <2>6, <2>7 DEF DrilldownInv
<1>10. CASE Len(scored) < policy.edges
    <2> DEFINE follows == Retained(e) /\ e[2] \notin Range(entry.path)
    <2>1. /\ scored' = Append(scored, e)
          /\ current' = IF Len(entry.outgoing) = 1 THEN NoEntry ELSE rest
          /\ UNCHANGED exhausted
          /\ follows => Consider(e, path) /\ queue' = Append(queue, new)
          /\ ~follows => UNCHANGED <<candidates, queue>>
        BY <1>1, <1>10
    <2>2. /\ scored' \in Seq(Dependencies) /\ Len(scored') = Len(scored) + 1 /\ scored'[Len(scored')] = e
          /\ \A k \in DOMAIN scored : k \in DOMAIN scored' /\ scored'[k] = scored[k]
          /\ \A k \in DOMAIN scored' : (k \in DOMAIN scored /\ scored'[k] = scored[k]) \/ (k = Len(scored') /\ scored'[k] = e)
          /\ Range(scored') = Range(scored) \cup {e}
        <3>1. /\ scored \in Seq(Dependencies) /\ scored' \in Seq(Dependencies)
              /\ Len(scored') = Len(scored) + 1 /\ scored'[Len(scored')] = e
              /\ \A k \in DOMAIN scored : k \in DOMAIN scored' /\ scored'[k] = scored[k]
              /\ \A k \in DOMAIN scored' : (k \in DOMAIN scored /\ scored'[k] = scored[k]) \/ (k = Len(scored') /\ scored'[k] = e)
              /\ Len(scored') \in DOMAIN scored'
            BY <1>0, <1>4, <2>1 DEF DrilldownTypeOK
        <3>2. Range(scored') = Range(scored) \cup {e}
            BY <3>1 DEF Range
        <3> QED BY <3>1, <3>2
    <2> HIDE DEF follows
    <2>3. /\ DOMAIN candidates \subseteq DOMAIN candidates'
          /\ \A a \in DOMAIN candidates' :
                \/ a \in DOMAIN candidates /\ candidates'[a] = candidates[a]
                \/ follows /\ a = e[2] /\ candidates'[a] = [api |-> a, score |-> Score(e), path |-> path]
          /\ DOMAIN candidates' \subseteq APIs
          /\ \A a \in DOMAIN candidates' : candidates'[a] \in [api : {a}, score : Int, path : Seq(APIs)]
          /\ follows => e[2] \in DOMAIN candidates'
        <3>1. CASE follows
            <4>1. Consider(e, path)
                BY <2>1, <3>1
            <4>2. /\ DOMAIN candidates' = DOMAIN candidates \cup {e[2]}
                  /\ \A a \in DOMAIN candidates' :
                       \/ a \in DOMAIN candidates /\ candidates'[a] = candidates[a]
                       \/ a = e[2] /\ candidates'[a] = [api |-> a, score |-> Score(e), path |-> path]
                  /\ DOMAIN candidates' \subseteq APIs
                  /\ \A a \in DOMAIN candidates' :
                        candidates'[a] \in [api : {a}, score : Int, path : Seq(APIs)]
                <5>1. DrilldownTypeOK /\ e \in Dependencies /\ path \in Seq(APIs)
                    BY <1>0, <1>4, <1>5
                <5> QED BY ONLY <4>1, <5>1, ConsiderKeepsOrReplaces
            <4> QED BY <3>1, <4>2
        <3>2. CASE ~follows
            BY <1>0, <2>1, <3>2 DEF DrilldownTypeOK
        <3> QED BY <3>1, <3>2
    <2>4. /\ queue' \in Seq(Entries)
          /\ \A k \in DOMAIN queue : k \in DOMAIN queue' /\ queue'[k] = queue[k]
          /\ \A k \in DOMAIN queue' : (k \in DOMAIN queue /\ queue'[k] = queue[k]) \/ (follows /\ queue'[k] = new)
          /\ follows => \E k \in DOMAIN queue' : queue'[k] = new
        <3>1. queue \in Seq(Entries)
            BY <1>0 DEF DrilldownTypeOK
        <3>2. CASE follows
            <4>1. queue' = Append(queue, new)
                BY <2>1, <3>2
            <4>2. /\ queue' \in Seq(Entries)
                  /\ \A k \in DOMAIN queue : k \in DOMAIN queue' /\ queue'[k] = queue[k]
                  /\ \A k \in DOMAIN queue' : (k \in DOMAIN queue /\ queue'[k] = queue[k]) \/ queue'[k] = new
                  /\ Len(queue') \in DOMAIN queue' /\ queue'[Len(queue')] = new
                BY <1>6, <3>1, <4>1
            <4> QED BY <3>2, <4>2
        <3>3. CASE ~follows
            BY <2>1, <3>1, <3>3
        <3> QED BY <3>2, <3>3
    <2>5. /\ \A any : EntryIsTrail(any) => EntryIsTrail(any)'
          /\ \A any, api : Trail(any, api) => Trail(any, api)'
          /\ \A a, p, score : CandidateIsTrail(a, p, score) => CandidateIsTrail(a, p, score)'
          /\ Signals' = Signals /\ Suspicious' = Suspicious
          /\ \A d : Score(d)' = Score(d)
        <3>1. Range(scored) \subseteq Range(scored') /\ features' = features /\ policy' = policy
            BY <1>1, <2>2
        <3> QED BY <2>3, <3>1, TrailsLast, FeaturesStay
    <2>6. ASSUME follows
          PROVE  e \in Suspicious /\ Trail(path, e[2])' /\ Len(path) - 1 <= policy.depth
        <3>1. e \in Suspicious /\ e[2] \notin Range(entry.path)
            BY <1>4, <2>6 DEF follows, Suspicious
        <3>2. Trail(entry.path, e[1])'
            <4>1. PICK p, api : p = entry.path /\ api = e[1] /\ Trail(p, api)
                BY <1>2, <1>4 DEF EntryIsTrail
            <4>2. Trail(p, api)'
                BY <2>5, <4>1
            <4> QED BY <4>1, <4>2
        <3>3. e \in Range(scored') /\ e[2] \in DOMAIN candidates'
            BY <2>2, <2>3, <2>6
        <3>4. features' = features
            BY <1>1
        <3>5. Trail(Append(entry.path, e[2]), e[2])'
            BY <1>5, <3>1, <3>2, <3>3, <3>4, TrailGrows
        <3>6. Trail(path, e[2])'
            BY <1>c, <3>5
        <3> QED BY <1>2, <1>5, <1>8, <3>1, <3>6
    <2>7. current' = NoEntry \/ (current' = rest /\ Len(entry.outgoing) # 1)
        BY <2>1
    <2>8. DrilldownTypeOK'
        BY <1>0, <1>1, <1>7, <2>1, <2>2, <2>3, <2>4, <2>7 DEF DrilldownTypeOK
    <2>9. PathsAreTrails'
        <3>1. ASSUME NEW k \in DOMAIN queue'
              PROVE  EntryIsTrail(queue[k])'
            <4>1. PICK q : q = queue'[k]
                OBVIOUS
            <4>2. CASE q = queue[k] /\ k \in DOMAIN queue
                <5>1. EntryIsTrail(q)'
                    BY <1>0, <2>5, <4>2 DEF PathsAreTrails
                <5> QED BY <4>1, <5>1
            <4>3. CASE follows /\ q = new
                <5>1. Trail(path, e[2])'
                    BY <2>6, <4>3
                <5>2. q.path = path /\ q.api = e[2] /\ Len(q.path) = q.depth + 1 /\ q.depth <= policy'.depth
                    BY <1>1, <1>2, <1>5, <1>6, <1>8, <4>3
                <5>3. Trail(q.path, q.api)'
                    BY <5>1, <5>2
                <5>4. EntryIsTrail(q)'
                    BY <5>2, <5>3 DEF EntryIsTrail
                <5> QED BY <4>1, <5>4
            <4> QED BY <2>4, <4>1, <4>2, <4>3
        <3>2. ASSUME current' # NoEntry
              PROVE  /\ EntryIsTrail(current)' /\ current'.depth < policy'.depth /\ current'.api \in expanded'
                     /\ current'.outgoing # <<>> /\ IsInjective(current'.outgoing)
                     /\ \A k \in DOMAIN current'.outgoing :
                         /\ current'.outgoing[k] \in Signals' /\ current'.outgoing[k][1] = current'.api
                         /\ current'.outgoing[k] \notin Range(scored')
                     /\ ~exhausted' /\ ranking' = NoRanking
            <4>1. current' = rest /\ Len(entry.outgoing) # 1
                BY <2>7, <3>2
            <4>2. EntryIsTrail(rest)'
                <5>1. EntryIsTrail(rest)
                    BY <1>2, <1>7 DEF EntryIsTrail
                <5> QED BY <2>5, <5>1
            <4>3. EntryIsTrail(current)'
                BY <4>1, <4>2
            <4>4. Tail(entry.outgoing) # <<>>
                <5>1. Len(entry.outgoing) \in Nat
                    BY <1>2
                <5>2. Len(Tail(entry.outgoing)) # 0
                    BY <1>3, <4>1, <5>1
                <5>3. Len(<<>>) = 0
                    OBVIOUS
                <5> QED BY <5>2, <5>3
            <4>5. IsInjective(Tail(entry.outgoing))
                BY <1>2, <1>3 DEF IsInjective
            <4>6. ASSUME NEW k \in DOMAIN Tail(entry.outgoing)
                  PROVE  /\ Tail(entry.outgoing)[k] \in Signals /\ Tail(entry.outgoing)[k][1] = entry.api
                         /\ Tail(entry.outgoing)[k] \notin Range(scored) \cup {e}
                <5>1. k + 1 \in DOMAIN entry.outgoing /\ k + 1 # 1 /\ Tail(entry.outgoing)[k] = entry.outgoing[k + 1]
                    BY <1>3
                <5>2. entry.outgoing[k + 1] # e
                    BY <1>2, <1>3, <5>1 DEF IsInjective
                <5> QED BY <1>2, <5>1, <5>2
            <4>7. ~exhausted' /\ ranking' = NoRanking /\ current'.depth < policy'.depth /\ current'.api \in expanded'
                BY <1>1, <1>2, <1>7, <2>1, <4>1
            <4>8. current'.outgoing = Tail(entry.outgoing) /\ current'.api = entry.api
                BY <1>7, <4>1
            <4> QED BY <2>2, <2>5, <4>3, <4>4, <4>5, <4>6, <4>7, <4>8
        <3>3. ASSUME NEW a \in DOMAIN candidates'
              PROVE  CandidateIsTrail(a, candidates[a].path, candidates[a].score)'
            <4>1. PICK p, score : p = candidates'[a].path /\ score = candidates'[a].score
                OBVIOUS
            <4>2. CASE a \in DOMAIN candidates /\ candidates'[a] = candidates[a]
                <5>1. CandidateIsTrail(a, p, score)'
                    BY <1>0, <2>5, <4>1, <4>2 DEF PathsAreTrails
                <5> QED BY <4>1, <5>1
            <4>3. CASE follows /\ a = e[2] /\ candidates'[a] = [api |-> a, score |-> Score(e), path |-> path]
                <5>1. p = path /\ score = Score(e)
                    BY <4>1, <4>3
                <5>2. <<path[Len(path) - 1], a>> = e
                    BY <1>4, <1>5, <4>3
                <5>3. Trail(p, a)' /\ Len(p) - 1 <= policy'.depth
                    BY <1>1, <2>6, <4>3, <5>1
                <5>4. a # Alerting
                    <6>1. Alerting \in Range(entry.path)
                        <7>1. entry.path[1] = Alerting /\ 1 \in DOMAIN entry.path
                            BY <1>2, <1>5 DEF EntryIsTrail, Trail
                        <7> QED BY <7>1 DEF Range
                    <6> QED BY <4>3, <6>1 DEF follows
                <5>5. score = Score(<<p[Len(p) - 1], a>>)'
                    <6>1. PICK d : d = <<p[Len(p) - 1], a>> /\ d = e
                        BY <5>1, <5>2
                    <6>2. score = Score(d)'
                        BY <2>5, <5>1, <6>1
                    <6> QED BY <6>1, <6>2
                <5>6. CandidateIsTrail(a, p, score)'
                    BY <5>3, <5>4, <5>5 DEF CandidateIsTrail
                <5> QED BY <4>1, <5>6
            <4> QED BY <2>3, <4>2, <4>3
        <3>4. IsInjective(scored')
            <4>1. IsInjective(scored)
                BY <1>0 DEF PathsAreTrails
            <4> QED BY <1>4, <2>2, <4>1 DEF IsInjective, Range
        <3>5. Len(scored') <= policy'.edges
            BY <1>1, <1>8, <1>10, <2>2
        <3>6. \A k \in DOMAIN scored' : scored'[k][1] \in expanded'
            BY <1>0, <1>1, <1>2, <1>4, <2>2 DEF PathsAreTrails
        <3> QED BY <3>1, <3>2, <3>3, <3>4, <3>5, <3>6 DEF PathsAreTrails
    <2>10. NothingIsPassedOver'
        <3>1. Visited \subseteq Visited' /\ (follows => e[2] \in Visited')
            BY <2>3 DEF Visited
        <3>2. ASSUME NEW d \in Suspicious, d[1] \in expanded'
              PROVE  d[2] \in Visited' \/ (current' # NoEntry /\ d \in Range(current'.outgoing))
            <4>1. d[2] \in Visited \/ d \in Range(entry.outgoing)
                BY <1>0, <1>1, <1>2, <1>a, <3>2 DEF NothingIsPassedOver
            <4>2. CASE d = e
                <5>1. Retained(e)
                    BY <4>2 DEF Suspicious
                <5>2. CASE follows
                    BY <3>1, <4>2, <5>2
                <5>3. CASE ~follows
                    <6>1. e[2] \in Range(entry.path)
                        BY <5>1, <5>3 DEF follows
                    <6>2. Range(entry.path) \subseteq Visited
                        BY <1>2 DEF EntryIsTrail, Trail
                    <6> QED BY <3>1, <4>2, <6>1, <6>2
                <5> QED BY <5>2, <5>3
            <4>3. CASE d # e /\ d \in Range(entry.outgoing)
                <5>1. PICK k \in DOMAIN entry.outgoing : entry.outgoing[k] = d
                    BY <4>3 DEF Range
                <5>2. k # 1
                    BY <1>3, <4>3, <5>1
                <5>3. Len(entry.outgoing) # 1
                    BY <1>2, <5>1, <5>2
                <5>4. current' = rest /\ k - 1 \in DOMAIN Tail(entry.outgoing) /\ Tail(entry.outgoing)[k - 1] = d
                    BY <1>3, <2>1, <5>1, <5>2, <5>3
                <5>5. rest # NoEntry
                    BY <1>2, <1>7, ProfileIsUsable DEF Entries, NoEntry
                <5> QED BY <1>7, <5>4, <5>5 DEF Range
            <4> QED BY <3>1, <4>1, <4>2, <4>3
        <3>3. ASSUME NEW a \in Visited'
              PROVE  a \in expanded' \/ \E k \in DOMAIN queue' : queue'[k].api = a
            <4>1. a \in Visited \/ (follows /\ a = e[2])
                BY <2>3 DEF Visited
            <4>2. CASE a \in Visited
                <5>1. a \in expanded \/ \E k \in DOMAIN queue : queue[k].api = a
                    BY <1>0, <1>2, <4>2 DEF NothingIsPassedOver
                <5> QED BY <1>1, <2>4, <5>1
            <4>3. CASE follows /\ a = e[2]
                BY <1>6, <2>4, <4>3
            <4> QED BY <4>1, <4>2, <4>3
        <3>4. ranking' = NoRanking
            BY <1>1, <1>2
        <3> QED BY <2>5, <3>2, <3>3, <3>4 DEF NothingIsPassedOver
    <2> QED BY <2>8, <2>9, <2>10 DEF DrilldownInv
<1> QED BY <1>8, <1>9, <1>10

LEMMA RankedIsInOrder ==
    ASSUME DrilldownTypeOK
    PROVE  /\ Ranked \in Seq({candidates[a] : a \in DOMAIN candidates})
           /\ \A a \in DOMAIN candidates : \E k \in DOMAIN Ranked : Ranked[k] = candidates[a]
           /\ \A j, k \in DOMAIN Ranked : j < k => Ranked[j].score >= Ranked[k].score
           /\ \A c \in {candidates[a] : a \in DOMAIN candidates} :
                c.api \in DOMAIN candidates /\ c.score \in Int /\ c = candidates[c.api]
<1> DEFINE S == {candidates[a] : a \in DOMAIN candidates}
           R == {p \in S \X S : p[1].score > p[2].score \/ (p[1].score = p[2].score /\ p[1].api < p[2].api)}
<1>1. IsFiniteSet(S)
    <2>1. IsFiniteSet(DOMAIN candidates)
        BY ProfileIsUsable, FS_Subset DEF DrilldownTypeOK
    <2>2. [a \in DOMAIN candidates |-> candidates[a]] \in Surjection(DOMAIN candidates, S)
        BY DEF Surjection
    <2> QED BY <2>1, <2>2, FS_Surjection
<1>2. \A c \in S : c.api \in DOMAIN candidates /\ c.score \in Int /\ c = candidates[c.api]
    <2> SUFFICES ASSUME NEW a \in DOMAIN candidates
                 PROVE  candidates[a].api = a /\ candidates[a].score \in Int
        OBVIOUS
    <2> QED BY DEF DrilldownTypeOK
<1>3. \A c \in S : c.api \in Int
    <2> HIDE DEF S, R
    <2>1. DOMAIN candidates \subseteq APIs
        BY DEF DrilldownTypeOK
    <2>2. \A a \in APIs : a \in Int
        BY ProfileIsUsable
    <2> QED BY <1>2, <2>1, <2>2
<1>4. \A c, d \in S : <<c, d>> \in R <=> c.score > d.score \/ (c.score = d.score /\ c.api < d.api)
    OBVIOUS
<1>5. Ranked = Sorted(S, R)
    BY DEF Ranked, Ordered
<1> HIDE DEF R
<1>6. \A c, d \in S : c.api = d.api => c = d
    BY <1>2
<1> HIDE DEF S
<1>7. StrictOrder(S, R)
    BY <1>2, <1>3, <1>4, <1>6 DEF StrictOrder
<1>a. PICK ranked : ranked = Sorted(S, R)
    OBVIOUS
<1>8. /\ ranked \in Seq(S) /\ Len(ranked) = Cardinality(S)
      /\ \A x \in S : \E k \in 1..Cardinality(S) : ranked[k] = x
      /\ \A j, k \in 1..Cardinality(S) : j < k => <<ranked[j], ranked[k]>> \in R
    <2>1. /\ Sorted(S, R) \in Seq(S) /\ Len(Sorted(S, R)) = Cardinality(S)
          /\ \A x \in S : \E k \in 1..Cardinality(S) : Sorted(S, R)[k] = x
          /\ \A j, k \in 1..Cardinality(S) : j < k => <<Sorted(S, R)[j], Sorted(S, R)[k]>> \in R
        BY ONLY <1>1, <1>7, SortedIsInOrder
    <2> QED BY <1>a, <2>1
<1>9. DOMAIN ranked = 1..Cardinality(S) /\ \A k \in DOMAIN ranked : ranked[k] \in S
    BY <1>8
<1>10. \A j, k \in DOMAIN ranked : j < k => ranked[j].score >= ranked[k].score
    <2> SUFFICES ASSUME NEW j \in DOMAIN ranked, NEW k \in DOMAIN ranked, j < k
                 PROVE  ranked[j].score >= ranked[k].score
        OBVIOUS
    <2>1. <<ranked[j], ranked[k]>> \in R /\ ranked[j] \in S /\ ranked[k] \in S
        BY <1>8, <1>9
    <2> QED BY <1>2, <1>4, <2>1
<1>11. \A a \in DOMAIN candidates : candidates[a] \in S
    BY DEF S
<1> QED BY <1>2, <1>5, <1>8, <1>9, <1>10, <1>11, <1>a DEF S

\* The first topN services, each by its best candidate.
LEMMA TopIsTheFirst ==
    ASSUME NEW T, NEW ranked \in Seq(T), policy.topN \in Nat \ {0}
    PROVE  LET top == TopServices(ranked)
           IN  /\ top \in Seq(T) /\ Range(top) \subseteq Range(ranked)
               /\ \A j, k \in DOMAIN top : j # k => Service[top[j].api] # Service[top[k].api]
               /\ top = <<>> <=> ranked = <<>>
               /\ \A k \in DOMAIN ranked :
                    (\A j \in DOMAIN top : Service[top[j].api] # Service[ranked[k].api]) =>
                        /\ Len(top) = policy.topN
                        /\ \A j \in DOMAIN top : \E i \in DOMAIN ranked : i < k /\ ranked[i] = top[j]
<1> DEFINE S(k) == Service[ranked[k].api]
           first == {k \in DOMAIN ranked : \A j \in 1..(k - 1) : S(j) # S(k)}
           Before(k) == {j \in first : j < k}
           places == {k \in first : Cardinality(Before(k)) < policy.topN}
           R == {p \in first \X first : p[1] < p[2]}
<1>1. DOMAIN ranked = 1..Len(ranked) /\ Len(ranked) \in Nat /\ first \subseteq 1..Len(ranked)
    OBVIOUS
<1>2. IsFiniteSet(first)
    <2>1. IsFiniteSet(1..Len(ranked))
        BY <1>1, FS_Interval
    <2> QED BY <1>1, <2>1, FS_Subset
<1>3. \A k \in first : Ahead(first, R, k) = Before(k)
    BY DEF Ahead
<1>4. \A j, k \in first : <<j, k>> \in R <=> j < k
    OBVIOUS
<1>5. StrictOrder(first, R)
    <2> HIDE DEF first, R
    <2> QED BY <1>1, <1>4 DEF StrictOrder
<1>6. places \in SUBSET (DOMAIN ranked)
    OBVIOUS
<1>7. TopServices(ranked) = Picked(ranked, places)
    BY DEF TopServices
<1>8. \A j \in DOMAIN ranked, k \in first : S(j) = S(k) => k <= j
    BY <1>1
<1>9. ASSUME NEW k \in DOMAIN ranked
      PROVE  \E j \in first : S(j) = S(k) /\ j <= k
    <2> DEFINE same == {j \in DOMAIN ranked : S(j) = S(k)}
    <2>1. PICK j \in same : \A i \in same : j <= i
        <3>1. same \in SUBSET Int /\ same \subseteq DOMAIN ranked /\ k \in same
            BY <1>1
        <3>2. IsFiniteSet(DOMAIN ranked)
            BY <1>1, FS_Interval
        <3> HIDE DEF same
        <3>3. IsFiniteSet(same)
            BY <3>1, <3>2, FS_Subset
        <3> QED BY <3>1, <3>3, LeastNumber
    <2>2. j \in DOMAIN ranked /\ S(j) = S(k) /\ j <= k
        BY <2>1
    <2>3. \A i \in 1..(j - 1) : S(i) # S(j)
        <3> SUFFICES ASSUME NEW i \in 1..(j - 1), S(i) = S(j) PROVE FALSE
            OBVIOUS
        <3>1. i \in DOMAIN ranked /\ i < j
            BY <1>1, <2>2
        <3>2. i \in same
            BY <2>2, <3>1
        <3> HIDE DEF same
        <3> QED BY <1>1, <2>1, <2>2, <3>1, <3>2
    <2> QED BY <2>2, <2>3
<1>b. /\ \A j, k \in first : j \in Before(k) <=> j < k
      /\ \A k : \A j \in Before(k) : j \in first
      /\ places \subseteq first
      /\ \A k \in first : k \in places <=> Cardinality(Before(k)) < policy.topN
    BY DEF Before, places
<1> HIDE DEF S, first, R, Before, places
<1>10. PICK order \in Seq(places) :
               /\ Picked(ranked, places) = [k \in DOMAIN order |-> ranked[order[k]]]
               /\ Picked(ranked, places) \in Seq(T) /\ Len(Picked(ranked, places)) = Len(order)
               /\ IsFiniteSet(places) /\ Len(order) = Cardinality(places)
               /\ \A p \in places : \E k \in DOMAIN order : order[k] = p
               /\ \A j, k \in DOMAIN order : j < k => order[j] < order[k]
    BY <1>6, PickedInOrder
<1>11. PICK top : top = TopServices(ranked)
    OBVIOUS
<1>12. /\ top \in Seq(T) /\ DOMAIN top = DOMAIN order /\ Len(top) = Cardinality(places)
       /\ \A k \in DOMAIN top : order[k] \in places /\ top[k] = ranked[order[k]] /\ Service[top[k].api] = S(order[k])
    <2>1. top = [k \in DOMAIN order |-> ranked[order[k]]] /\ top \in Seq(T) /\ Len(top) = Cardinality(places)
        BY <1>7, <1>10, <1>11
    <2>2. \A k \in DOMAIN order : order[k] \in places
        BY <1>10
    <2> QED BY <2>1, <2>2 DEF S
<1>13. Range(top) \subseteq Range(ranked)
    BY <1>6, <1>12 DEF Range
<1>14. ASSUME NEW j \in DOMAIN top, NEW k \in DOMAIN top, j # k
       PROVE  Service[top[j].api] # Service[top[k].api]
    <2>1. order[j] \in places /\ order[k] \in places /\ order[j] # order[k]
        <3>1. j \in DOMAIN order /\ k \in DOMAIN order
            BY ONLY <1>12, <1>14
        <3>2. order[j] < order[k] \/ order[k] < order[j]
            <4>1. j < k \/ k < j
                BY ONLY <1>10, <1>14, <3>1
            <4> QED BY ONLY <1>10, <3>1, <4>1
        <3>3. order[j] \in places /\ order[k] \in places
            BY ONLY <1>12, <1>14
        <3>4. order[j] \in Nat /\ order[k] \in Nat
            <4>1. places \subseteq first
                BY ONLY <1>b
            <4>2. first \subseteq 1..Len(ranked) /\ Len(ranked) \in Nat
                BY ONLY <1>1
            <4>3. order[j] \in 1..Len(ranked) /\ order[k] \in 1..Len(ranked)
                BY ONLY <3>3, <4>1, <4>2
            <4> QED BY ONLY <4>2, <4>3
        <3> QED BY ONLY <3>2, <3>3, <3>4
    <2>2. S(order[j]) # S(order[k])
        <3>1. /\ order[j] \in first /\ order[k] \in first
              /\ order[j] \in DOMAIN ranked /\ order[k] \in DOMAIN ranked
              /\ order[j] \in Int /\ order[k] \in Int
            BY <1>1, <1>6, <1>b, <2>1
        <3> QED BY <1>8, <2>1, <3>1
    <2> QED BY <1>12, <2>2
<1>15. ASSUME NEW m \in first, m \notin places
       PROVE  Cardinality(places) = policy.topN /\ \A p \in places : p < m
    <2>1. \A x \in first : /\ Cardinality(Before(x)) \in 0..(Cardinality(first) - 1)
                           /\ \A y \in first : x < y => Cardinality(Before(x)) < Cardinality(Before(y))
        BY <1>2, <1>3, <1>4, <1>5, AheadGrows
    <2>2. Cardinality(first) \in Nat
        BY <1>2, FS_CardinalityType
    <2>3. policy.topN <= Cardinality(Before(m)) /\ policy.topN \in 0..(Cardinality(first) - 1)
        <3>1. ~(Cardinality(Before(m)) < policy.topN) /\ Cardinality(Before(m)) \in 0..(Cardinality(first) - 1)
            BY <1>15, <1>b, <2>1
        <3> QED BY <2>2, <3>1
    <2>4. PICK x \in first : Cardinality(Before(x)) = policy.topN
        BY <1>2, <1>3, <1>5, <2>3, PlacesAreTaken
    <2>5. \A p, q \in first : p < q \/ q < p \/ p = q
        BY <1>1
    <2>6. places = Before(x)
        <3>1. \A p \in first : p \in places <=> p < x
            <4> SUFFICES ASSUME NEW p \in first PROVE p \in places <=> p < x
                OBVIOUS
            <4>1. Cardinality(Before(p)) \in Int /\ Cardinality(Before(x)) \in Int
                BY <2>1
            <4> QED BY <1>1, <1>b, <2>1, <2>4, <2>5, <4>1
        <3> QED BY <1>b, <3>1
    <2>7. \A p \in places : p < m
        BY <1>15, <1>b, <2>1, <2>3, <2>5
    <2> QED BY <2>4, <2>6, <2>7
<1>16. top = <<>> <=> ranked = <<>>
    <2>1. CASE ranked = <<>>
        <3>1. places = {}
            BY <1>6, <2>1
        <3>2. DOMAIN top = {}
            BY <1>12, <3>1
        <3> QED BY <1>12, <2>1, <3>2
    <2>2. CASE ranked # <<>>
        <3>1. 1 \in DOMAIN ranked
            BY <1>1, <2>2
        <3>2. 1 \in first
            BY <3>1 DEF first
        <3>3. Before(1) = {}
            <4> SUFFICES ASSUME NEW j \in Before(1) PROVE FALSE
                OBVIOUS
            <4>1. j \in first
                BY <1>b
            <4>2. j < 1
                BY <1>b, <3>2, <4>1
            <4> QED BY <1>1, <4>1, <4>2
        <3>4. 1 \in places
            <4>1. Cardinality(Before(1)) = 0
                BY <3>3, FS_EmptySet
            <4>2. 0 < policy.topN
                OBVIOUS
            <4> QED BY <1>b, <3>2, <4>1, <4>2
        <3> QED BY <1>10, <1>12, <2>2, <3>4
    <2> QED BY <2>1, <2>2
<1>17. ASSUME NEW k \in DOMAIN ranked, \A j \in DOMAIN top : Service[top[j].api] # Service[ranked[k].api]
       PROVE  /\ Len(top) = policy.topN
              /\ \A j \in DOMAIN top : \E i \in DOMAIN ranked : i < k /\ ranked[i] = top[j]
    <2>1. PICK m \in first : S(m) = S(k) /\ m <= k
        BY <1>9
    <2>2. m \notin places
        <3> SUFFICES ASSUME m \in places PROVE FALSE
            OBVIOUS
        <3>1. PICK j \in DOMAIN order : order[j] = m
            BY <1>10
        <3> QED BY <1>12, <1>17, <2>1, <3>1 DEF S
    <2>3. Cardinality(places) = policy.topN /\ \A p \in places : p < m
        BY <1>15, <2>2
    <2>4. ASSUME NEW j \in DOMAIN top
          PROVE  \E i \in DOMAIN ranked : i < k /\ ranked[i] = top[j]
        BY <1>1, <1>6, <1>12, <2>1, <2>3
    <2> QED BY <1>12, <2>3, <2>4
<1> QED BY <1>11, <1>12, <1>13, <1>14, <1>16, <1>17

\* The run has its result, or nothing happens to it.
LEMMA RankingKeeps ==
    ASSUME DrilldownInv, UNCHANGED <<features, policy, queue, expanded, current, scored, candidates, exhausted>>,
           ranking' = ranking \/ (ranking' = Result /\ current = NoEntry)
    PROVE  DrilldownInv'
<1>1. UNCHANGED <<features, policy, queue, expanded, current, scored, candidates, exhausted>>
    OBVIOUS
<1>2. DrilldownTypeOK'
    BY <1>1 DEF DrilldownInv, DrilldownTypeOK
<1>3. /\ \A any : EntryIsTrail(any) => EntryIsTrail(any)'
      /\ \A a, p, score : CandidateIsTrail(a, p, score) => CandidateIsTrail(a, p, score)'
      /\ Signals' = Signals /\ Suspicious' = Suspicious
    BY <1>1, TrailsLast, FeaturesStay
<1>4. PathsAreTrails'
    <2>1. ASSUME NEW k \in DOMAIN queue'
          PROVE  EntryIsTrail(queue[k])'
        <3>1. PICK q : q = queue'[k] /\ q = queue[k] /\ k \in DOMAIN queue
            BY <1>1
        <3>2. EntryIsTrail(q)'
            BY <1>3, <3>1 DEF DrilldownInv, PathsAreTrails
        <3> QED BY <3>1, <3>2
    <2>2. ASSUME NEW a \in DOMAIN candidates'
          PROVE  CandidateIsTrail(a, candidates[a].path, candidates[a].score)'
        <3>1. PICK p, score : p = candidates[a].path /\ score = candidates[a].score
            OBVIOUS
        <3>2. CandidateIsTrail(a, p, score)'
            BY <1>1, <1>3, <3>1 DEF DrilldownInv, PathsAreTrails
        <3>3. p = candidates'[a].path /\ score = candidates'[a].score
            BY <1>1, <3>1
        <3> QED BY <3>2, <3>3
    <2>3. ASSUME current # NoEntry
          PROVE  EntryIsTrail(current)'
        <3>1. PICK q : q = current /\ q = current'
            BY <1>1
        <3>2. EntryIsTrail(q)'
            BY <1>3, <2>3, <3>1 DEF DrilldownInv, PathsAreTrails
        <3> QED BY <3>1, <3>2
    <2> QED BY <1>1, <1>3, <2>1, <2>2, <2>3 DEF DrilldownInv, PathsAreTrails
<1>5. NothingIsPassedOver'
    <2>1. Result' = Result
        <3>1. Ranked' = Ranked
            BY <1>1 DEF Ranked, Ordered
        <3>2. PICK ranked : ranked = Ranked
            OBVIOUS
        <3>3. TopServices(ranked)' = TopServices(ranked)
            BY <1>1 DEF TopServices
        <3>4. PICK top : top = TopServices(ranked)
            OBVIOUS
        <3>5. StopReason(top)' = StopReason(top)
            BY <1>1 DEF StopReason
        <3> QED BY <3>1, <3>2, <3>3, <3>4, <3>5 DEF Result
    <2> QED BY <1>1, <1>3, <2>1 DEF DrilldownInv, NothingIsPassedOver, Visited
<1> QED BY <1>2, <1>4, <1>5 DEF DrilldownInv

LEMMA DrilldownHolds == LocalizationSpec => []DrilldownInv
<1>1. LocalizationInit => DrilldownInv
    BY InitDrilldown DEF LocalizationInit
<1>2. ASSUME DrilldownInv, [LocalizationNext]_<<drilldownVars, guidedVars>>
      PROVE  DrilldownInv'
    <2>1. CASE TakeAPI
        BY <1>2, <2>1, TakeKeeps
    <2>2. CASE EvaluateEdge
        BY <1>2, <2>2, EvaluateKeeps
    <2>3. CASE Rank
        BY <1>2, <2>3, RankingKeeps DEF Rank, Drilled
    <2>4. CASE UNCHANGED drilldownVars
        BY <1>2, <2>4, RankingKeeps DEF drilldownVars
    <2> QED BY <1>2, <2>1, <2>2, <2>3, <2>4 DEF LocalizationNext, DrilldownNext
<1> QED BY <1>1, <1>2, PTL DEF LocalizationSpec

(* A candidate's Evidence is the suspicious path it was found along, within  *)
(* the budgets.                                                            *)
THEOREM PathsHold == LocalizationSpec => []PathsAreSupported
<1>1. ASSUME DrilldownInv
      PROVE  PathsAreSupported
    <2>1. DrilldownTypeOK /\ PathsAreTrails
        BY <1>1 DEF DrilldownInv
    <2>2. ASSUME NEW a \in DOMAIN candidates
          PROVE  Supported(a)
        <3>1. CandidateIsTrail(a, candidates[a].path, candidates[a].score)
            BY <2>1 DEF PathsAreTrails
        <3>2. Trail(candidates[a].path, a)
            BY <3>1 DEF CandidateIsTrail
        <3> QED BY <3>1, <3>2 DEF Supported, CandidateIsTrail, Trail, Suspicious
    <2>3. IsInjective(scored) /\ Len(scored) <= policy.edges
        BY <2>1 DEF PathsAreTrails
    <2> QED BY <2>2, <2>3 DEF PathsAreSupported
<1> QED BY <1>1, DrilldownHolds, PTL

\* What the result of a run is made of.
LEMMA ResultIsRanked ==
    ASSUME DrilldownTypeOK
    PROVE  /\ Result.top \in Seq({candidates[a] : a \in DOMAIN candidates})
           /\ \A j, k \in DOMAIN Result.top : j # k => Service[Result.top[j].api] # Service[Result.top[k].api]
           /\ Result.top = <<>> <=> DOMAIN candidates = {}
           /\ RequiresFallback(Result) <=> exhausted \/ Result.top = <<>>
           /\ Result.stop \in {"DRILLDOWN_BUDGET_EXHAUSTED", "NO_SUSPICIOUS_DOWNSTREAM", "TOP_N_READY"}
           /\ \A a \in DOMAIN candidates : Service[a] \notin Selected(Result) =>
                /\ Len(Result.top) = policy.topN
                /\ \A c \in Range(Result.top) : c.score >= candidates[a].score
<1>a. PICK S : S = {candidates[a] : a \in DOMAIN candidates}
    OBVIOUS
<1>1. PICK ranked : ranked = Ranked
    OBVIOUS
<1>2. PICK top : top = TopServices(ranked)
    OBVIOUS
<1>3. Result.top = top /\ Result.stop = StopReason(top)
    BY <1>1, <1>2 DEF Result
<1>4. /\ ranked \in Seq(S)
      /\ \A a \in DOMAIN candidates : \E k \in DOMAIN ranked : ranked[k] = candidates[a]
      /\ \A j, k \in DOMAIN ranked : j < k => ranked[j].score >= ranked[k].score
      /\ \A c \in S : c.api \in DOMAIN candidates /\ c.score \in Int /\ c = candidates[c.api]
    BY <1>1, <1>a, RankedIsInOrder
<1>5. policy.topN \in Nat \ {0}
    BY ProfileIsUsable DEF DrilldownTypeOK, UsablePolicy
<1>6. /\ top \in Seq(S) /\ Range(top) \subseteq Range(ranked)
      /\ \A j, k \in DOMAIN top : j # k => Service[top[j].api] # Service[top[k].api]
      /\ top = <<>> <=> ranked = <<>>
      /\ \A k \in DOMAIN ranked :
            (\A j \in DOMAIN top : Service[top[j].api] # Service[ranked[k].api]) =>
                /\ Len(top) = policy.topN
                /\ \A j \in DOMAIN top : \E i \in DOMAIN ranked : i < k /\ ranked[i] = top[j]
    <2>1. ranked \in Seq(S)
        BY <1>4
    <2> QED BY <1>2, <1>5, <2>1, TopIsTheFirst
<1>7. ranked = <<>> <=> DOMAIN candidates = {}
    <2>1. CASE ranked = <<>>
        <3>1. DOMAIN ranked = {}
            BY ONLY <2>1
        <3> QED BY ONLY <1>4, <2>1, <3>1
    <2>2. CASE ranked # <<>>
        <3>1. 1 \in DOMAIN ranked
            BY <1>4, <2>2
        <3>2. ranked[1] \in S
            BY <1>4, <3>1
        <3> QED BY <1>4, <2>2, <3>2
    <2> QED BY <2>1, <2>2
<1>8. RequiresFallback(Result) <=> exhausted \/ top = <<>>
    BY <1>3 DEF RequiresFallback, StopReason
<1>9. ASSUME NEW a \in DOMAIN candidates, Service[a] \notin Selected(Result)
      PROVE  /\ Len(top) = policy.topN
             /\ \A c \in Range(top) : c.score >= candidates[a].score
    <2>1. PICK k \in DOMAIN ranked : ranked[k] = candidates[a]
        BY <1>4
    <2>2. ranked[k].api = a
        <3>1. candidates[a] \in [api : {a}, score : Int, path : Seq(APIs)]
            BY DEF DrilldownTypeOK
        <3> QED BY <2>1, <3>1
    <2>3. \A j \in DOMAIN top : Service[top[j].api] # Service[ranked[k].api]
        BY <1>3, <1>9, <2>2 DEF Selected, Range
    <2>4. /\ Len(top) = policy.topN
          /\ \A j \in DOMAIN top : \E i \in DOMAIN ranked : i < k /\ ranked[i] = top[j]
        BY <1>6, <2>3
    <2>5. ASSUME NEW c \in Range(top)
          PROVE  c.score >= candidates[a].score
        <3>1. PICK j \in DOMAIN top : top[j] = c
            BY DEF Range
        <3>2. PICK i \in DOMAIN ranked : i < k /\ ranked[i] = c
            BY <2>4, <3>1
        <3> QED BY <1>4, <2>1, <3>2
    <2> QED BY <2>4, <2>5
<1>10. StopReason(top) \in {"DRILLDOWN_BUDGET_EXHAUSTED", "NO_SUSPICIOUS_DOWNSTREAM", "TOP_N_READY"}
    BY DEF StopReason
<1> QED BY <1>3, <1>6, <1>7, <1>8, <1>9, <1>10, <1>a

\* As many services as candidates.
LEMMA ServicesAreCounted ==
    ASSUME NEW T, NEW top \in Seq(T),
           \A j, k \in DOMAIN top : j # k => Service[top[j].api] # Service[top[k].api]
    PROVE  Cardinality({Service[c.api] : c \in Range(top)}) = Len(top)
<1> DEFINE services == {Service[c.api] : c \in Range(top)}
           named == [k \in 1..Len(top) |-> Service[top[k].api]]
<1>1. Len(top) \in Nat /\ DOMAIN top = 1..Len(top)
    OBVIOUS
<1>2. \A k \in 1..Len(top) : Service[top[k].api] \in services
    BY <1>1 DEF Range
<1>3. \A s \in services : \E k \in 1..Len(top) : Service[top[k].api] = s
    BY <1>1 DEF Range
<1> HIDE DEF services
<1>4. named \in [1..Len(top) -> services]
    BY <1>2
<1>5. \A j, k \in 1..Len(top) : named[j] = named[k] => j = k
    BY <1>1
<1>6. \A s \in services : \E k \in 1..Len(top) : named[k] = s
    BY <1>3
<1>7. DOMAIN named = 1..Len(top)
    OBVIOUS
<1> HIDE DEF named
<1>8. named \in Bijection(1..Len(top), services)
    BY <1>4, <1>5, <1>6, <1>7 DEF Bijection, Injection, Surjection, IsInjective
<1>9. ExistsBijection(1..Len(top), services)
    BY <1>8 DEF ExistsBijection
<1>10. Cardinality(services) = Len(top)
    BY <1>1, <1>9, FS_CountingElements
<1> QED BY <1>10 DEF services

(* Without an exhausted budget the candidates are all that the failure may   *)
(* have propagated to; a service left out of the Top-N has no better one.     *)
THEOREM RankingsAreComplete == LocalizationSpec => []RankingIsComplete
<1>1. ASSUME DrilldownInv, Drilled
      PROVE  /\ DOMAIN candidates \subseteq Suspects
             /\ ~exhausted => DOMAIN candidates = Suspects
    <2>1. DrilldownTypeOK /\ PathsAreTrails /\ NothingIsPassedOver
        BY <1>1 DEF DrilldownInv
    <2>2. ASSUME NEW a \in DOMAIN candidates
          PROVE  a \in Suspects
        <3>1. CandidateIsTrail(a, candidates[a].path, candidates[a].score)
            BY <2>1 DEF PathsAreTrails
        <3> QED BY <3>1 DEF CandidateIsTrail, Trail
    <2>3. ASSUME ~exhausted
          PROVE  Suspects \subseteq DOMAIN candidates
        <3>1. queue = <<>> /\ current = NoEntry
            BY <1>1, <2>3 DEF Drilled
        <3>2. Visited \subseteq expanded
            BY <2>1, <2>3, <3>1 DEF NothingIsPassedOver
        <3>3. \A e \in Suspicious : e[1] \in Visited => e[2] \in Visited
            BY <2>1, <2>3, <3>1, <3>2 DEF NothingIsPassedOver
        <3>4. Alerting \in Visited /\ Visited \in SUBSET APIs
            BY <2>1, ProfileIsUsable DEF Visited, DrilldownTypeOK
        <3>5. Suspects \subseteq Visited
            BY <3>3, <3>4, SuspectsAreClosed
        <3>6. Alerting \notin Suspects
            BY DEF Suspects
        <3> QED BY <3>5, <3>6 DEF Visited
    <2> QED BY <2>2, <2>3
<1>2. ASSUME DrilldownInv
      PROVE  RankingIsComplete
    <2> SUFFICES ASSUME Drilled
                 PROVE  /\ DOMAIN candidates \subseteq Suspects
                        /\ ~exhausted => DOMAIN candidates = Suspects
                        /\ RequiresFallback(Result) <=> exhausted \/ Suspects = {}
                        /\ Cardinality(Selected(Result)) = Len(Result.top)
                        /\ \A a \in DOMAIN candidates : Service[a] \notin Selected(Result) =>
                                /\ Len(Result.top) = policy.topN
                                /\ \A c \in Range(Result.top) : c.score >= candidates[a].score
        BY DEF RankingIsComplete
    <2>1. PICK result : result = Result
        OBVIOUS
    <2>2. /\ result.top \in Seq({candidates[a] : a \in DOMAIN candidates})
          /\ \A j, k \in DOMAIN result.top : j # k => Service[result.top[j].api] # Service[result.top[k].api]
          /\ result.top = <<>> <=> DOMAIN candidates = {}
          /\ RequiresFallback(result) <=> exhausted \/ result.top = <<>>
          /\ \A a \in DOMAIN candidates : Service[a] \notin Selected(result) =>
                /\ Len(result.top) = policy.topN
                /\ \A c \in Range(result.top) : c.score >= candidates[a].score
        BY <1>2, <2>1, ResultIsRanked DEF DrilldownInv
    <2>3. Cardinality(Selected(result)) = Len(result.top)
        BY <2>2, ServicesAreCounted DEF Selected
    <2>4. DOMAIN candidates \subseteq Suspects /\ (~exhausted => DOMAIN candidates = Suspects)
        BY <1>1, <1>2
    <2> QED BY <2>1, <2>2, <2>3, <2>4
<1> QED BY <1>2, DrilldownHolds, PTL

-----------------------------------------------------------------------------
(* The localization                                                        *)

\* What the plans read of the ranking.
LEMMA TopIsRanked ==
    ASSUME DrilldownInv, ranking # NoRanking
    PROVE  Top \in Seq(Names) /\ IsInjective(Top) /\ (RequiresFallback(ranking) \/ Len(Top) > 0)
<1>1. ranking = Result /\ DrilldownTypeOK
    BY DEF DrilldownInv, NothingIsPassedOver
<1>2. PICK S : S = {candidates[a] : a \in DOMAIN candidates}
    OBVIOUS
<1>3. PICK top : top = ranking.top
    OBVIOUS
<1>4. /\ top \in Seq(S)
      /\ \A j, k \in DOMAIN top : j # k => Service[top[j].api] # Service[top[k].api]
      /\ RequiresFallback(ranking) <=> exhausted \/ top = <<>>
    BY <1>1, <1>2, <1>3, ResultIsRanked
<1>5. \A c \in S : Service[c.api] \in Names
    BY <1>1, <1>2 DEF Names, DrilldownTypeOK
<1>6. Top = [k \in 1..Len(top) |-> Service[top[k].api]] /\ Len(top) \in Nat /\ DOMAIN top = 1..Len(top)
    BY <1>3, <1>4 DEF Top
<1>7. \A k \in 1..Len(top) : Service[top[k].api] \in Names
    BY <1>4, <1>5, <1>6
<1>8. Top \in Seq(Names) /\ Len(Top) = Len(top)
    <2>1. Top \in [1..Len(top) -> Names]
        BY <1>6, <1>7
    <2> QED BY <1>6, <2>1, FunctionIsASequence
<1>9. IsInjective(Top)
    BY <1>4, <1>6 DEF IsInjective
<1>10. RequiresFallback(ranking) \/ Len(Top) > 0
    <2> SUFFICES ASSUME \A a \in DOMAIN candidates : TRUE, Len(top) = 0, ~RequiresFallback(ranking) PROVE FALSE
        BY <1>6, <1>8
    <2>1. ranking.stop = "TOP_N_READY"
        BY DEF RequiresFallback
    <2>2. ranking.stop = StopReason(top)
        BY <1>1, <1>3 DEF Result
    <2> QED BY <1>4, <2>1, <2>2 DEF StopReason
<1> QED BY <1>8, <1>9, <1>10

\* What is asked of the selected services is asked of those downstream.
LEMMA AdditionalAreDownstream ==
    ASSUME Top \in Seq(Names)
    PROVE  /\ TopSelection.services \in Seq(Names) /\ Range(TopSelection.services) = Downstream
           /\ TopSelection.services = <<>> <=> Downstream = {}
<1> DEFINE places == {k \in DOMAIN Top : Top[k] # Source}
<1>1. PICK order \in Seq(places) :
               /\ Picked(Top, places) = [k \in DOMAIN order |-> Top[order[k]]]
               /\ Picked(Top, places) \in Seq(Names) /\ Len(Picked(Top, places)) = Len(order)
               /\ IsFiniteSet(places) /\ Len(order) = Cardinality(places)
               /\ \A p \in places : \E k \in DOMAIN order : order[k] = p
               /\ \A j, k \in DOMAIN order : j < k => order[j] < order[k]
    <2>1. places \in SUBSET (DOMAIN Top)
        OBVIOUS
    <2> HIDE DEF places
    <2>2. Top \in Seq(Names)
        OBVIOUS
    <2> QED BY ONLY <2>1, <2>2, PickedInOrder
<1>2. PICK services : services = TopSelection.services
    OBVIOUS
<1>3. services = Picked(Top, places)
    BY <1>2 DEF TopSelection
<1>4. /\ services \in Seq(Names) /\ DOMAIN services = DOMAIN order
      /\ \A k \in DOMAIN services : order[k] \in places /\ services[k] = Top[order[k]]
    <2>1. services = [k \in DOMAIN order |-> Top[order[k]]] /\ services \in Seq(Names)
        BY ONLY <1>1, <1>3
    <2> HIDE DEF places
    <2>2. \A k \in DOMAIN order : order[k] \in places
        BY ONLY order \in Seq(places)
    <2> QED BY <2>1, <2>2
<1>5. Range(services) = Downstream
    <2>1. \A s \in Downstream : \E p \in places : Top[p] = s
        BY DEF Downstream, Range
    <2>2. \A k \in DOMAIN services : services[k] \in Downstream
        BY <1>4 DEF Downstream, Range
    <2>3. ASSUME NEW s \in Downstream
          PROVE  \E k \in DOMAIN services : services[k] = s
        <3>1. PICK p \in places : Top[p] = s
            BY <2>1
        <3>2. PICK k \in DOMAIN order : order[k] = p
            BY <1>1, <3>1
        <3> QED BY <1>4, <3>1, <3>2
    <2> QED BY <2>2, <2>3 DEF Range
<1>6. services = <<>> <=> Range(services) = {}
    <2>1. CASE services = <<>>
        BY <2>1 DEF Range
    <2>2. CASE services # <<>>
        <3>1. 1 \in DOMAIN services
            BY <1>4, <2>2
        <3> QED BY <2>2, <3>1 DEF Range
    <2> QED BY <2>1, <2>2
<1> QED BY <1>2, <1>4, <1>5, <1>6

LEMMA InitGuided ==
    GuidedInit => /\ GuidedTypeOK /\ CheckpointIsTheTop
                  /\ \A n \in Attempts : JobIsOnItsWay(job[n])
                  /\ \A c \in contexts : ContextIsWhole(c)
<1> SUFFICES ASSUME GuidedInit
             PROVE  /\ GuidedTypeOK /\ CheckpointIsTheTop
                    /\ \A n \in Attempts : JobIsOnItsWay(job[n])
                    /\ \A c \in contexts : ContextIsWhole(c)
    OBVIOUS
<1>1. NoJob \in Jobs
    BY DEF NoJob, Jobs
<1>2. Source \in Names
    BY ProfileIsUsable DEF Source, Names
<1>3. <<>> \in Seq({Collected}) /\ <<Collected>> \in Seq({Collected})
    OBVIOUS
<1>4. GuidedTypeOK
    <2>1. now \in Int /\ incidentEnd \in Int \cup {NoEnd}
        BY GuidedConstants DEF GuidedInit
    <2>2. featureRuns \in Seq({Collected}) /\ visible \subseteq Entities
        BY <1>3, GuidedConstants DEF GuidedInit
    <2>3. work \in [state : {"READY", "RUNNING", "SUCCEEDED", "FAILED"}, claim : Int, expires : Int]
        BY DEF GuidedInit
    <2>4. job \in [Attempts -> Jobs] /\ evidence \subseteq Names
        BY <1>1, <1>2 DEF GuidedInit
    <2> QED BY <2>1, <2>2, <2>3, <2>4 DEF GuidedTypeOK
<1>5. CheckpointIsTheTop
    BY DEF GuidedInit, CheckpointIsTheTop
<1>6. \A n \in Attempts : JobIsOnItsWay(job[n])
    <2>1. JobIsOnItsWay(NoJob)
        BY DEF JobIsOnItsWay, NoJob
    <2> QED BY <2>1 DEF GuidedInit
<1>7. \A c \in contexts : ContextIsWhole(c)
    BY DEF GuidedInit
<1> QED BY <1>4, <1>5, <1>6, <1>7

\* Nothing a job or a Context says is less true when what it rests on stays.
LEMMA WaysLast ==
    ASSUME UNCHANGED <<ranking, initial, checkpoint, evidence>>
    PROVE  /\ \A j : JobIsOnItsWay(j) => JobIsOnItsWay(j)'
           /\ \A c : ContextIsWhole(c) => ContextIsWhole(c)'
           /\ UNCHANGED merged /\ CheckpointIsTheTop => CheckpointIsTheTop'
<1>1. Top' = Top /\ Downstream' = Downstream /\ TopSelection' = TopSelection
    BY DEF Top, Downstream, TopSelection
<1>2. \A services, seeds : /\ OnTop(services, seeds)' <=> OnTop(services, seeds)
                           /\ SeedsSoFar(services, seeds)' <=> SeedsSoFar(services, seeds)
    BY <1>1 DEF OnTop, SeedsSoFar
<1>3. (Asked' <=> Asked) /\ \A failed : TellsFailures(failed)' <=> TellsFailures(failed)
    BY <1>1 DEF Asked, TellsFailures
<1>4. \A found : HasCollected(found)' <=> HasCollected(found)
    BY <1>1 DEF HasCollected
<1>5. ASSUME NEW j, JobIsOnItsWay(j)
      PROVE  JobIsOnItsWay(j)'
    BY <1>2, <1>3, <1>4, <1>5 DEF JobIsOnItsWay
<1>6. ASSUME NEW c, ContextIsWhole(c)
      PROVE  ContextIsWhole(c)'
    BY <1>2, <1>3, <1>4, <1>6 DEF ContextIsWhole
<1>7. UNCHANGED merged /\ CheckpointIsTheTop => CheckpointIsTheTop'
    BY <1>1 DEF CheckpointIsTheTop
<1> QED BY <1>5, <1>6, <1>7

\* One job moves.
LEMMA OneJobMoves ==
    ASSUME job \in [Attempts -> Jobs], \A m \in Attempts : JobIsOnItsWay(job[m]),
           NEW n \in Attempts, NEW after \in Jobs, job' = [job EXCEPT ![n] = after],
           \A j : JobIsOnItsWay(j) => JobIsOnItsWay(j)', JobIsOnItsWay(after)'
    PROVE  job' \in [Attempts -> Jobs] /\ \A m \in Attempts : JobIsOnItsWay(job[m])'
<1>1. job' \in [Attempts -> Jobs]
    OBVIOUS
<1>2. ASSUME NEW m \in Attempts
      PROVE  JobIsOnItsWay(job[m])'
    <2>1. PICK j : j = job'[m]
        OBVIOUS
    <2>2. j = after \/ j = job[m]
        BY <2>1
    <2>3. JobIsOnItsWay(j)'
        BY <2>2
    <2> QED BY <2>1, <2>3
<1> QED BY <1>1, <1>2

Rows == [state : {"READY", "RUNNING", "SUCCEEDED", "FAILED"}, claim : Int, expires : Int]

\* What the steps of a job have in common that write neither Evidence nor Context.
OnlyTheJob ==
    /\ ranking # NoRanking /\ UNCHANGED ranking
    /\ UNCHANGED <<now, incidentEnd, initial, merged, featureRuns, visible, checkpoint, evidence, contexts>>
    /\ work' \in Rows

LEMMA JobStep ==
    ASSUME GuidedInv, OnlyTheJob, NEW n \in Attempts, NEW after \in Jobs,
           job' = [job EXCEPT ![n] = after], JobIsOnItsWay(after)
    PROVE  GuidedInv'
<1>1. /\ GuidedTypeOK /\ CheckpointIsTheTop
      /\ \A m \in Attempts : JobIsOnItsWay(job[m])
      /\ \A c \in contexts : ContextIsWhole(c)
    BY DEF GuidedInv
<1>2. /\ \A j : JobIsOnItsWay(j) => JobIsOnItsWay(j)'
      /\ \A c : ContextIsWhole(c) => ContextIsWhole(c)'
      /\ CheckpointIsTheTop'
    BY <1>1, WaysLast DEF OnlyTheJob
<1>3. JobIsOnItsWay(after)'
    BY <1>2
<1>4. job \in [Attempts -> Jobs]
    BY <1>1 DEF GuidedTypeOK
<1>5. job' \in [Attempts -> Jobs] /\ \A m \in Attempts : JobIsOnItsWay(job[m])'
    BY <1>1, <1>2, <1>3, <1>4, OneJobMoves
<1>6. GuidedTypeOK'
    BY <1>1, <1>5 DEF GuidedTypeOK, OnlyTheJob, Rows
<1>7. \A c \in contexts' : ContextIsWhole(c)'
    BY <1>1, <1>2 DEF OnlyTheJob
<1> QED BY <1>2, <1>5, <1>6, <1>7 DEF GuidedInv, OnlyTheJob

LEMMA JobsHaveFields ==
    ASSUME NEW j \in Jobs
    PROVE  /\ j.pc \in LocalizationSteps \cup {"idle", "done"} /\ j.known \in Int \cup {NoEnd}
           /\ j.expires \in Int /\ j.end \in Int /\ j.features \in Seq({Collected})
           /\ j.seeds \in Seq({x.id : x \in Entities}) /\ j.services \in Seq(Names)
           /\ j.via \in {"none", "krca-top-services", "source-entity-krca-fallback"}
           /\ j.downstream \in CollectorStatuses \cup {"none"} /\ j.failed \in BOOLEAN
           /\ j.evidence \in SUBSET Names
BY DEF Jobs

\* The job as it goes on.
LEMMA GoesOn ==
    ASSUME NEW j \in Jobs, NEW pc \in LocalizationSteps
    PROVE  LET after == [j EXCEPT !.pc = pc]
           IN  /\ after \in Jobs /\ after.pc = pc
               /\ after.services = j.services /\ after.seeds = j.seeds /\ after.features = j.features
               /\ after.via = j.via /\ after.failed = j.failed /\ after.evidence = j.evidence
BY DEF Jobs

LEMMA GotoIsAnUpdate ==
    ASSUME job \in [Attempts -> Jobs], NEW n \in Attempts, NEW pc, Goto(n, pc)
    PROVE  job' = [job EXCEPT ![n] = [job[n] EXCEPT !.pc = pc]]
BY DEF Goto

\* A job that is over holds nothing but its Top-N.
LEMMA LeavesKeep ==
    ASSUME GuidedInv, OnlyTheJob, NEW n \in Attempts,
           NEW pc \in {"leave", "mark_failed", "complete", "fail"}, Goto(n, pc)
    PROVE  GuidedInv'
<1>1. job \in [Attempts -> Jobs] /\ JobIsOnItsWay(job[n])
    BY DEF GuidedInv, GuidedTypeOK
<1>2. PICK j \in Jobs : j = job[n]
    BY <1>1
<1>3. PICK after : after = [j EXCEPT !.pc = pc]
    OBVIOUS
<1>4. /\ after \in Jobs /\ after.pc = pc
      /\ after.services = j.services /\ after.seeds = j.seeds /\ after.features = j.features /\ after.via = j.via
    <2>1. pc \in LocalizationSteps
        BY DEF LocalizationSteps
    <2> QED BY <1>3, <2>1, GoesOn
<1>5. JobIsOnItsWay(after)
    BY <1>1, <1>2, <1>4 DEF JobIsOnItsWay
<1>6. job' = [job EXCEPT ![n] = after]
    BY <1>1, <1>2, <1>3, GotoIsAnUpdate
<1> QED BY <1>4, <1>5, <1>6, JobStep

LEMMA NoJobIsAJob ==
    /\ NoJob \in Jobs /\ NoJob.pc = "idle" /\ NoJob.via = "none"
    /\ NoJob.services = <<>> /\ NoJob.seeds = <<>>
BY DEF NoJob, Jobs

LEMMA EndsKeep ==
    ASSUME GuidedInv, OnlyTheJob, NEW n \in Attempts, Ends(n)
    PROVE  GuidedInv'
<1>1. PICK after : after = [NoJob EXCEPT !.pc = "done"]
    OBVIOUS
<1>2. after \in Jobs /\ after.pc = "done" /\ after.via = "none"
    BY <1>1, NoJobIsAJob DEF Jobs
<1>a. JobIsOnItsWay(after)
    BY <1>2 DEF JobIsOnItsWay
<1>3. job' = [job EXCEPT ![n] = after]
    BY <1>1 DEF Ends
<1> QED BY <1>2, <1>3, <1>a, JobStep

LEMMA ClaimGuidedKeeps ==
    ASSUME GuidedInv, ranking # NoRanking, UNCHANGED ranking, NEW n \in Attempts, ClaimLocalization(n)
    PROVE  GuidedInv'
<1>1. GuidedTypeOK
    BY DEF GuidedInv
<1>2. PICK after : after = [NoJob EXCEPT !.pc = "plan", !.known = incidentEnd, !.expires = now + Lease]
    OBVIOUS
<1>3. n \in Int /\ now + Lease \in Int
    <2>1. Cardinality(Attempts) \in Nat
        BY GuidedConstants, FS_CardinalityType
    <2> QED BY <1>1, <2>1, GuidedConstants DEF GuidedTypeOK
<1>4. OnlyTheJob
    BY <1>3 DEF ClaimLocalization, OnlyTheJob, Rows
<1>a. /\ after \in Jobs /\ after.pc = "plan" /\ after.via = "none"
      /\ after.services = <<>> /\ after.seeds = <<>>
    <2>1. "plan" \in LocalizationSteps /\ incidentEnd \in Int \cup {NoEnd}
        BY <1>1 DEF LocalizationSteps, GuidedTypeOK
    <2> QED BY <1>2, <1>3, <2>1, NoJobIsAJob DEF Jobs
<1>5. after \in Jobs /\ JobIsOnItsWay(after)
    BY <1>a DEF JobIsOnItsWay
<1>6. job' = [job EXCEPT ![n] = after]
    BY <1>2 DEF ClaimLocalization
<1> QED BY <1>4, <1>5, <1>6, JobStep

LEMMA PlanKeeps ==
    ASSUME DrilldownInv, GuidedInv, ranking # NoRanking, UNCHANGED ranking, NEW n \in Attempts, Plan(n)
    PROVE  GuidedInv'
<1>1. GuidedTypeOK /\ JobIsOnItsWay(job[n]) /\ job \in [Attempts -> Jobs]
    BY DEF GuidedInv, GuidedTypeOK
<1>2. OnlyTheJob
    BY <1>1 DEF Plan, OnlyTheJob, Rows, GuidedTypeOK
<1>3. CASE ~FeaturesAreUsable(RequestEnd(n))
    <2>1. PICK j \in Jobs : j = job[n]
        BY <1>1
    <2>2. PICK after : after = [j EXCEPT !.features = featureRuns, !.pc = "fail"]
        OBVIOUS
    <2>3. job' = [job EXCEPT ![n] = after]
        BY <1>1, <1>3, <2>1, <2>2 DEF Plan
    <2>4. featureRuns \in Seq({Collected})
        BY <1>1 DEF GuidedTypeOK
    <2>5. after \in Jobs /\ after.pc = "fail" /\ after.via = j.via
        BY <2>2, <2>4 DEF Jobs, LocalizationSteps
    <2>6. j.via = "none"
        BY <1>1, <2>1 DEF JobIsOnItsWay, Plan
    <2>7. JobIsOnItsWay(after)
        BY <2>5, <2>6 DEF JobIsOnItsWay
    <2> QED BY <1>2, <2>3, <2>5, <2>7, JobStep
<1>4. CASE FeaturesAreUsable(RequestEnd(n))
    <2>1. PICK j \in Jobs : j = job[n]
        BY <1>1
    <2>2. PICK pc : pc = IF RequiresFallback(ranking) THEN "resolve_source" ELSE "resolve_top"
        OBVIOUS
    <2>3. PICK end : end = RequestEnd(n)
        OBVIOUS
    <2>4. PICK after : after = [j EXCEPT !.end = end, !.features = featureRuns, !.pc = pc]
        OBVIOUS
    <2>5. job' = [job EXCEPT ![n] = after]
        BY <1>1, <1>4, <2>1, <2>2, <2>3, <2>4 DEF Plan
    <2>6. end \in Int
        BY <1>1, <2>1, <2>3, JobsHaveFields DEF RequestEnd, GuidedTypeOK
    <2>7. featureRuns = <<Collected>> /\ featureRuns \in Seq({Collected})
        <3>1. featureRuns \in Seq({Collected}) /\ Len(featureRuns) = 1
            BY <1>1, <1>4 DEF FeaturesAreUsable, GuidedTypeOK
        <3>2. featureRuns[1] = Collected /\ DOMAIN featureRuns = {1}
            BY <3>1
        <3>3. featureRuns = [k \in 1..1 |-> Collected] /\ <<Collected>> = [k \in 1..1 |-> Collected]
            BY <3>1, <3>2
        <3> QED BY <3>1, <3>3
    <2>8. /\ after \in Jobs /\ after.pc = pc /\ after.features = <<Collected>>
          /\ after.services = j.services /\ after.seeds = j.seeds /\ after.via = j.via
        BY <2>2, <2>4, <2>6, <2>7 DEF Jobs, LocalizationSteps
    <2>9. j.services = <<>> /\ j.seeds = <<>> /\ j.via = "none"
        BY <1>1, <2>1 DEF JobIsOnItsWay, Plan
    <2>10. pc = "resolve_top" => SeedsSoFar(after.services, after.seeds)
        <3>1. pc = "resolve_top" => Len(Top) > 0
            BY <2>2, TopIsRanked
        <3> QED BY <2>8, <2>9, <3>1 DEF SeedsSoFar
    <2>11. JobIsOnItsWay(after)
        BY <2>2, <2>8, <2>9, <2>10 DEF JobIsOnItsWay
    <2> QED BY <1>2, <2>5, <2>8, <2>11, JobStep
<1> QED BY <1>3, <1>4

\* What resolves has a seed, of that service.
LEMMA SeedsAreEntities ==
    ASSUME GuidedTypeOK, NEW service, Resolves(service)
    PROVE  \E x \in Entities : x.id = Seed(service) /\ x.service = service
<1>1. Found(service) # {}
    <2>1. Cardinality({}) = 0
        BY FS_EmptySet
    <2> QED BY <2>1 DEF Resolves
<1>2. PICK x \in Found(service) : x.id = Seed(service)
    BY <1>1 DEF Seed
<1>3. x \in visible /\ x.service = service
    BY <1>2 DEF Found, Exact
<1> QED BY <1>2, <1>3 DEF GuidedTypeOK

LEMMA ResolveTopKeeps ==
    ASSUME DrilldownInv, GuidedInv, ranking # NoRanking, UNCHANGED ranking, NEW n \in Attempts, ResolveTop(n)
    PROVE  GuidedInv'
<1>1. GuidedTypeOK /\ JobIsOnItsWay(job[n]) /\ job \in [Attempts -> Jobs]
    BY DEF GuidedInv, GuidedTypeOK
<1>2. OnlyTheJob
    BY <1>1 DEF ResolveTop, OnlyTheJob, Rows, GuidedTypeOK
<1>3. PICK j \in Jobs : j = job[n]
    BY <1>1
<1>4. PICK service : service = Top[Len(j.services) + 1]
    OBVIOUS
<1>5. PICK services : services = Append(j.services, service)
    OBVIOUS
<1>6. PICK seeds : seeds = IF Resolves(service) THEN Append(j.seeds, Seed(service)) ELSE j.seeds
    OBVIOUS
<1>7. PICK pc : pc = IF Len(services) < Len(Top) THEN "resolve_top"
                     ELSE IF Len(seeds) = Len(Top) THEN "select" ELSE "resolve_source"
    OBVIOUS
<1>8. PICK via : via = IF Len(services) = Len(Top) /\ Len(seeds) = Len(Top) THEN "krca-top-services" ELSE "none"
    OBVIOUS
<1>9. PICK after : after = [j EXCEPT !.services = services, !.seeds = seeds, !.pc = pc, !.via = via]
    OBVIOUS
<1>10. job' = [job EXCEPT ![n] = after]
    BY <1>1, <1>3, <1>4, <1>5, <1>6, <1>7, <1>8, <1>9 DEF ResolveTop
<1>11. Top \in Seq(Names) /\ IsInjective(Top)
    BY TopIsRanked
<1>12. j.services \in Seq(Names) /\ j.seeds \in Seq({x.id : x \in Entities})
    BY JobsHaveFields
<1>13. SeedsSoFar(j.services, j.seeds) /\ j.features = <<Collected>>
    BY <1>1, <1>3 DEF JobIsOnItsWay, ResolveTop
<1>14. Len(j.services) < Len(Top) /\ Len(j.seeds) <= Len(j.services)
    BY <1>13 DEF SeedsSoFar
<1>15. service \in Names
    BY <1>4, <1>11, <1>12, <1>14
<1>16. /\ services \in Seq(Names) /\ Len(services) = Len(j.services) + 1
       /\ \A k \in DOMAIN services : services[k] = Top[k]
    <2>1. \A k \in DOMAIN j.services : j.services[k] = Top[k]
        BY <1>13 DEF SeedsSoFar
    <2> QED BY <1>4, <1>5, <1>11, <1>12, <1>15, <2>1
<1>17. /\ seeds \in Seq({x.id : x \in Entities}) /\ Len(seeds) <= Len(services)
       /\ Len(seeds) = Len(services) =>
            \A k \in DOMAIN seeds : \E x \in Entities : x.id = seeds[k] /\ x.service = Top[k]
    <2>1. CASE ~Resolves(service)
        BY <1>6, <1>12, <1>14, <1>16, <2>1
    <2>2. CASE Resolves(service)
        <3>1. PICK y \in Entities : y.id = Seed(service) /\ y.service = service
            BY <1>1, <2>2, SeedsAreEntities
        <3>2. seeds = Append(j.seeds, y.id) /\ y.id \in {x.id : x \in Entities}
            BY <1>6, <2>2, <3>1
        <3>3. seeds \in Seq({x.id : x \in Entities}) /\ Len(seeds) = Len(j.seeds) + 1 /\ Len(j.seeds) \in Nat
            BY <1>12, <3>2
        <3>4. ASSUME Len(seeds) = Len(services), NEW k \in DOMAIN seeds
              PROVE  \E x \in Entities : x.id = seeds[k] /\ x.service = Top[k]
            <4>1. Len(j.seeds) = Len(j.services)
                BY <1>12, <1>16, <3>3, <3>4
            <4>2. CASE k \in DOMAIN j.seeds
                <5>1. seeds[k] = j.seeds[k]
                    BY <1>12, <3>2, <4>2
                <5> QED BY <1>13, <4>1, <4>2, <5>1 DEF SeedsSoFar
            <4>3. CASE k \notin DOMAIN j.seeds
                <5>1. k = Len(j.services) + 1 /\ seeds[k] = y.id
                    BY <1>12, <3>2, <3>3, <3>4, <4>1, <4>3
                <5> QED BY <1>4, <3>1, <5>1
            <4> QED BY <4>2, <4>3
        <3> QED BY <1>12, <1>14, <1>16, <3>3, <3>4
    <2> QED BY <2>1, <2>2
<1>18. /\ after \in Jobs /\ after.pc = pc /\ after.via = via /\ after.features = <<Collected>>
       /\ after.services = services /\ after.seeds = seeds
    <2>1. pc \in LocalizationSteps /\ via \in {"none", "krca-top-services", "source-entity-krca-fallback"}
        BY <1>7, <1>8 DEF LocalizationSteps
    <2> QED BY <1>9, <1>13, <1>16, <1>17, <2>1 DEF Jobs
<1>19. Len(Top) \in Nat /\ Len(services) \in Nat /\ Len(seeds) \in Nat /\ Len(services) <= Len(Top)
    BY <1>11, <1>12, <1>14, <1>16, <1>17
<1>20. pc = "resolve_top" => SeedsSoFar(services, seeds) /\ via = "none"
    BY <1>7, <1>8, <1>16, <1>17, <1>19 DEF SeedsSoFar
<1>21. via = "krca-top-services" => OnTop(services, seeds)
    <2> SUFFICES ASSUME Len(services) = Len(Top), Len(seeds) = Len(Top)
                 PROVE  OnTop(services, seeds)
        BY <1>8
    <2>1. services = Top
        <3>1. services \in Seq(Names) /\ Top \in Seq(Names) /\ Len(services) = Len(Top)
            BY <1>11, <1>16
        <3> QED BY <1>16, <3>1, SameSequence
    <2>2. ASSUME NEW k \in DOMAIN seeds, NEW l \in DOMAIN seeds, seeds[k] = seeds[l]
          PROVE  k = l
        <3>1. PICK x \in Entities : x.id = seeds[k] /\ x.service = Top[k]
            BY <1>17
        <3>2. PICK y \in Entities : y.id = seeds[l] /\ y.service = Top[l]
            BY <1>17
        <3>3. x = y
            BY <2>2, <3>1, <3>2, GuidedConstants
        <3>4. k \in DOMAIN Top /\ l \in DOMAIN Top
            BY <1>11, <1>17
        <3> QED BY <1>11, <3>1, <3>2, <3>3, <3>4 DEF IsInjective
    <2>3. IsInjective(seeds)
        BY <2>2 DEF IsInjective
    <2> QED BY <2>1, <2>3 DEF OnTop
<1>22. pc \in {"resolve_top", "select", "resolve_source"} /\ (pc = "select" <=> via = "krca-top-services")
    BY <1>7, <1>8, <1>19
<1>23. via \in {"none", "krca-top-services"}
    BY <1>8
<1>24. JobIsOnItsWay(after)
    BY <1>18, <1>20, <1>21, <1>22, <1>23 DEF JobIsOnItsWay
<1> QED BY <1>2, <1>10, <1>18, <1>24, JobStep

LEMMA ResolveSourceKeeps ==
    ASSUME GuidedInv, ranking # NoRanking, UNCHANGED ranking, NEW n \in Attempts, ResolveSource(n)
    PROVE  GuidedInv'
<1>1. GuidedTypeOK /\ JobIsOnItsWay(job[n]) /\ job \in [Attempts -> Jobs]
    BY DEF GuidedInv, GuidedTypeOK
<1>2. OnlyTheJob
    BY <1>1 DEF ResolveSource, OnlyTheJob, Rows, GuidedTypeOK
<1>3. CASE ~Resolves(Source)
    BY <1>2, <1>3, LeavesKeep DEF ResolveSource
<1>4. CASE Resolves(Source)
    <2>1. PICK j \in Jobs : j = job[n]
        BY <1>1
    <2>2. PICK y \in Entities : y.id = Seed(Source)
        BY <1>1, <1>4, SeedsAreEntities
    <2>3. PICK after : after = [j EXCEPT !.seeds = <<y.id>>, !.services = <<Source>>,
                                        !.via = "source-entity-krca-fallback", !.pc = "freeze"]
        OBVIOUS
    <2>4. job' = [job EXCEPT ![n] = after]
        BY <1>1, <1>4, <2>1, <2>2, <2>3 DEF ResolveSource
    <2>5. <<y.id>> \in Seq({x.id : x \in Entities}) /\ <<Source>> \in Seq(Names)
        BY ProfileIsUsable DEF Source, Names
    <2>6. after \in Jobs /\ after.pc = "freeze" /\ after.via = "source-entity-krca-fallback"
        BY <2>3, <2>5 DEF Jobs, LocalizationSteps
    <2>7. JobIsOnItsWay(after)
        BY <2>6 DEF JobIsOnItsWay
    <2> QED BY <1>2, <2>4, <2>6, <2>7, JobStep
<1> QED BY <1>3, <1>4

\* What is selected on the Top-N.
LEMMA SelectionsAreTheTop ==
    ASSUME NEW n \in Attempts, job[n].services = Top, job[n].features = <<Collected>>
    PROVE  Additional(n) = TopSelection.services /\ Selection(n) = TopSelection
<1>1. Additional(n) = TopSelection.services
    BY DEF Additional, TopSelection
<1>2. Selection(n) = [services |-> TopSelection.services, features |-> <<Collected>>]
    BY <1>1 DEF Selection
<1> QED BY <1>1, <1>2 DEF TopSelection

LEMMA SelectKeeps ==
    ASSUME DrilldownInv, GuidedInv, ranking # NoRanking, UNCHANGED ranking, NEW n \in Attempts, Select(n)
    PROVE  GuidedInv'
<1>1. GuidedTypeOK /\ JobIsOnItsWay(job[n]) /\ job \in [Attempts -> Jobs]
    BY DEF GuidedInv, GuidedTypeOK
<1>2. OnlyTheJob
    BY <1>1 DEF Select, OnlyTheJob, Rows, GuidedTypeOK
<1>3. PICK j \in Jobs : j = job[n]
    BY <1>1
<1>4. /\ j.pc = "select" /\ j.via = "krca-top-services" /\ OnTop(j.services, j.seeds)
      /\ j.features = <<Collected>>
    BY <1>1, <1>3 DEF Select, JobIsOnItsWay
<1>5. PICK pc : /\ Goto(n, pc) /\ pc \in {"freeze", "collect", "renew", "fail"}
                /\ pc = "freeze" => Additional(n) = <<>>
                /\ pc = "renew" => checkpoint # NoCheckpoint
    <2>1. CASE Additional(n) = <<>>
        BY <2>1 DEF Select
    <2>2. CASE Additional(n) # <<>> /\ checkpoint = NoCheckpoint
        BY <2>2 DEF Select
    <2>3. CASE Additional(n) # <<>> /\ checkpoint # NoCheckpoint /\ checkpoint.selection = Selection(n)
        BY <2>3 DEF Select
    <2>4. CASE Additional(n) # <<>> /\ checkpoint # NoCheckpoint /\ checkpoint.selection # Selection(n)
        BY <2>4 DEF Select
    <2> QED BY <2>1, <2>2, <2>3, <2>4
<1>6. PICK after : after = [j EXCEPT !.pc = pc]
    OBVIOUS
<1>7. /\ after \in Jobs /\ after.pc = pc
      /\ after.services = j.services /\ after.seeds = j.seeds /\ after.features = j.features /\ after.via = j.via
    <2>1. pc \in LocalizationSteps
        BY <1>5 DEF LocalizationSteps
    <2> QED BY <1>6, <2>1, GoesOn
<1>8. job' = [job EXCEPT ![n] = after]
    BY <1>1, <1>3, <1>5, <1>6, GotoIsAnUpdate
<1>9. pc = "freeze" => Asked
    <2>1. Top \in Seq(Names)
        BY TopIsRanked
    <2>2. Additional(n) = TopSelection.services
        BY <1>3, <1>4, SelectionsAreTheTop DEF OnTop
    <2> QED BY <1>5, <2>1, <2>2, AdditionalAreDownstream DEF Asked
<1>10. JobIsOnItsWay(after)
    BY <1>4, <1>5, <1>7, <1>9 DEF JobIsOnItsWay
<1> QED BY <1>2, <1>7, <1>8, <1>10, JobStep

LEMMA CollectCandidatesKeeps ==
    ASSUME GuidedInv, ranking # NoRanking, UNCHANGED ranking, NEW n \in Attempts, CollectCandidates(n)
    PROVE  GuidedInv'
<1>1. GuidedTypeOK /\ JobIsOnItsWay(job[n]) /\ job \in [Attempts -> Jobs]
    BY DEF GuidedInv, GuidedTypeOK
<1>2. OnlyTheJob
    BY <1>1 DEF CollectCandidates, OnlyTheJob, Rows, GuidedTypeOK
<1>3. CASE status # "LOCALIZING"
    BY <1>2, <1>3, LeavesKeep DEF CollectCandidates
<1>4. CASE status = "LOCALIZING"
    <2>1. PICK j \in Jobs : j = job[n]
        BY <1>1
    <2>2. PICK outcome \in CollectorStatuses :
                job' = [job EXCEPT ![n].downstream = outcome, ![n].pc = "store"]
        BY <1>4 DEF CollectCandidates
    <2>3. PICK after : after = [j EXCEPT !.downstream = outcome, !.pc = "store"]
        OBVIOUS
    <2>4. job' = [job EXCEPT ![n] = after]
        BY <1>1, <2>1, <2>2, <2>3
    <2>5. /\ after \in Jobs /\ after.pc = "store" /\ after.features = j.features
          /\ after.services = j.services /\ after.seeds = j.seeds /\ after.via = j.via
        BY <2>3 DEF Jobs, LocalizationSteps
    <2>6. JobIsOnItsWay(after)
        BY <1>1, <2>1, <2>5 DEF JobIsOnItsWay, CollectCandidates
    <2> QED BY <1>2, <2>4, <2>5, <2>6, JobStep
<1> QED BY <1>3, <1>4

LEMMA RenewKeeps ==
    ASSUME GuidedInv, ranking # NoRanking, UNCHANGED ranking, NEW n \in Attempts, RenewLease(n)
    PROVE  GuidedInv'
<1>1. GuidedTypeOK /\ JobIsOnItsWay(job[n]) /\ job \in [Attempts -> Jobs]
    BY DEF GuidedInv, GuidedTypeOK
<1>2. OnlyTheJob
    <2>1. work' \in Rows
        <3>1. work \in Rows /\ now + Lease \in Int
            BY <1>1, GuidedConstants DEF GuidedTypeOK, Rows
        <3>2. work' = work \/ work' = [work EXCEPT !.expires = now + Lease]
            BY DEF RenewLease
        <3> QED BY <3>1, <3>2 DEF Rows
    <2> QED BY <2>1 DEF RenewLease, OnlyTheJob
<1>3. CASE Goto(n, "fail")
    BY <1>2, <1>3, LeavesKeep
<1>4. CASE Goto(n, "freeze")
    <2>1. PICK j \in Jobs : j = job[n]
        BY <1>1
    <2>2. PICK after : after = [j EXCEPT !.pc = "freeze"]
        OBVIOUS
    <2>3. /\ after \in Jobs /\ after.pc = "freeze" /\ after.features = j.features
          /\ after.services = j.services /\ after.seeds = j.seeds /\ after.via = j.via
        <3>1. "freeze" \in LocalizationSteps
            BY DEF LocalizationSteps
        <3> QED BY <2>2, <3>1, GoesOn
    <2>4. job' = [job EXCEPT ![n] = after]
        BY <1>1, <1>4, <2>1, <2>2, GotoIsAnUpdate
    <2>5. j.pc = "renew" /\ checkpoint # NoCheckpoint
        BY <1>1, <2>1 DEF RenewLease, JobIsOnItsWay
    <2>6. JobIsOnItsWay(after)
        BY <1>1, <2>1, <2>3, <2>5 DEF JobIsOnItsWay, Asked
    <2> QED BY <1>2, <2>3, <2>4, <2>6, JobStep
<1> QED BY <1>3, <1>4 DEF RenewLease

LEMMA FreezeScopeKeeps ==
    ASSUME GuidedInv, ranking # NoRanking, UNCHANGED ranking, NEW n \in Attempts, FreezeScope(n)
    PROVE  GuidedInv'
<1>1. GuidedTypeOK /\ CheckpointIsTheTop /\ JobIsOnItsWay(job[n]) /\ job \in [Attempts -> Jobs]
    BY DEF GuidedInv, GuidedTypeOK
<1>2. OnlyTheJob
    BY <1>1 DEF FreezeScope, OnlyTheJob, Rows, GuidedTypeOK
<1>3. CASE Goto(n, "fail")
    BY <1>2, <1>3, LeavesKeep
<1>4. CASE job' = [job EXCEPT ![n].failed = Failures(merged), ![n].pc = "list"]
    <2>1. PICK j \in Jobs : j = job[n]
        BY <1>1
    <2>2. PICK failed \in BOOLEAN : failed = Failures(merged)
        BY DEF Failures
    <2>3. PICK after : after = [j EXCEPT !.failed = failed, !.pc = "list"]
        OBVIOUS
    <2>4. job' = [job EXCEPT ![n] = after]
        BY <1>1, <1>4, <2>1, <2>2, <2>3
    <2>5. /\ after \in Jobs /\ after.pc = "list" /\ after.features = j.features /\ after.failed = failed
          /\ after.services = j.services /\ after.seeds = j.seeds /\ after.via = j.via
        BY <2>3 DEF Jobs, LocalizationSteps
    <2>6. j.pc = "freeze"
        BY <2>1 DEF FreezeScope
    <2>7. Asked => TellsFailures(failed)
        <3> SUFFICES ASSUME checkpoint # NoCheckpoint
                     PROVE  failed <=> initial # "SUCCEEDED" \/ checkpoint.outcome # "SUCCEEDED"
            BY DEF Asked, TellsFailures
        <3>1. merged = MergedStatus(initial, checkpoint.outcome)
            BY <1>1 DEF CheckpointIsTheTop
        <3> QED BY <2>2, <3>1 DEF Failures, MergedStatus
    <2>8. JobIsOnItsWay(after)
        BY <1>1, <2>1, <2>5, <2>6, <2>7 DEF JobIsOnItsWay
    <2> QED BY <1>2, <2>4, <2>5, <2>8, JobStep
<1> QED BY <1>3, <1>4 DEF FreezeScope

LEMMA ListEvidenceKeeps ==
    ASSUME GuidedInv, ranking # NoRanking, UNCHANGED ranking, NEW n \in Attempts, ListEvidence(n)
    PROVE  GuidedInv'
<1>1. GuidedTypeOK /\ JobIsOnItsWay(job[n]) /\ job \in [Attempts -> Jobs]
    BY DEF GuidedInv, GuidedTypeOK
<1>2. OnlyTheJob
    BY <1>1 DEF ListEvidence, OnlyTheJob, Rows, GuidedTypeOK
<1>3. CASE Goto(n, "mark_failed")
    BY <1>2, <1>3, LeavesKeep
<1>4. CASE job' = [job EXCEPT ![n].evidence = evidence, ![n].pc = "store_context"]
    <2>1. PICK j \in Jobs : j = job[n]
        BY <1>1
    <2>2. PICK found : found = evidence
        OBVIOUS
    <2>3. PICK after : after = [j EXCEPT !.evidence = found, !.pc = "store_context"]
        OBVIOUS
    <2>4. job' = [job EXCEPT ![n] = after]
        BY <1>1, <1>4, <2>1, <2>2, <2>3
    <2>5. found \in SUBSET Names
        BY <1>1, <2>2 DEF GuidedTypeOK
    <2>6. /\ after \in Jobs /\ after.pc = "store_context" /\ after.features = j.features
          /\ after.failed = j.failed /\ after.evidence = found
          /\ after.services = j.services /\ after.seeds = j.seeds /\ after.via = j.via
        BY <2>3, <2>5 DEF Jobs, LocalizationSteps
    <2>7. j.pc = "list" /\ HasCollected(found)
        BY <2>1, <2>2 DEF ListEvidence, HasCollected
    <2>8. JobIsOnItsWay(after)
        BY <1>1, <2>1, <2>6, <2>7 DEF JobIsOnItsWay
    <2> QED BY <1>2, <2>4, <2>6, <2>8, JobStep
<1> QED BY <1>3, <1>4 DEF ListEvidence

LEMMA StoreContextKeeps ==
    ASSUME GuidedInv, ranking # NoRanking, UNCHANGED ranking, NEW n \in Attempts, StoreContext(n)
    PROVE  GuidedInv'
<1>1. /\ GuidedTypeOK /\ CheckpointIsTheTop /\ \A m \in Attempts : JobIsOnItsWay(job[m])
      /\ job \in [Attempts -> Jobs] /\ \A c \in contexts : ContextIsWhole(c)
    BY DEF GuidedInv, GuidedTypeOK
<1>2. PICK j \in Jobs : j = job[n] /\ j.pc = "store_context"
    BY <1>1 DEF StoreContext
<1>3. PICK pc \in {"leave", "mark_failed"} : Goto(n, pc)
    BY DEF StoreContext
<1>4. PICK after : after = [j EXCEPT !.pc = pc]
    OBVIOUS
<1>5. /\ after \in Jobs /\ after.pc = pc /\ after.features = j.features
      /\ after.services = j.services /\ after.seeds = j.seeds /\ after.via = j.via
    <2>1. pc \in LocalizationSteps
        BY DEF LocalizationSteps
    <2> QED BY <1>4, <2>1, GoesOn
<1>6. job' = [job EXCEPT ![n] = after]
    BY <1>1, <1>2, <1>3, <1>4, GotoIsAnUpdate
<1>7. JobIsOnItsWay(after)
    BY <1>1, <1>2, <1>5 DEF JobIsOnItsWay
<1>8. UNCHANGED <<ranking, initial, checkpoint, evidence, merged, now, incidentEnd, featureRuns, visible, work>>
    BY DEF StoreContext
<1>9. /\ \A any : JobIsOnItsWay(any) => JobIsOnItsWay(any)'
      /\ \A c : ContextIsWhole(c) => ContextIsWhole(c)'
      /\ CheckpointIsTheTop'
    BY <1>1, <1>8, WaysLast
<1>10. JobIsOnItsWay(after)'
    BY <1>7, <1>9
<1>11. job' \in [Attempts -> Jobs] /\ \A m \in Attempts : JobIsOnItsWay(job[m])'
    BY <1>1, <1>5, <1>6, <1>9, <1>10, OneJobMoves
<1>12. GuidedTypeOK'
    BY <1>1, <1>8, <1>11 DEF GuidedTypeOK
<1>13. PICK new : new = [claim |-> n, via |-> j.via, services |-> j.services,
                         seeds |-> j.seeds, evidence |-> j.evidence, failed |-> j.failed]
    OBVIOUS
<1>14. contexts' \subseteq contexts \cup {new}
    BY <1>2, <1>13 DEF StoreContext
<1>15. ContextIsWhole(new)
    BY <1>1, <1>2, <1>13 DEF ContextIsWhole, JobIsOnItsWay
<1>16. ASSUME NEW c \in contexts'
       PROVE  ContextIsWhole(c)'
    BY <1>1, <1>9, <1>14, <1>15
<1> QED BY <1>8, <1>9, <1>11, <1>12, <1>16 DEF GuidedInv

\* The one collection: before it, nobody had anything to say of it.
LEMMA StoreCandidatesKeeps ==
    ASSUME DrilldownInv, GuidedInv, ranking # NoRanking, UNCHANGED ranking, NEW n \in Attempts, StoreCandidates(n)
    PROVE  GuidedInv'
<1>1. /\ GuidedTypeOK /\ CheckpointIsTheTop /\ \A m \in Attempts : JobIsOnItsWay(job[m])
      /\ job \in [Attempts -> Jobs] /\ \A c \in contexts : ContextIsWhole(c)
    BY DEF GuidedInv, GuidedTypeOK
<1>2. UNCHANGED <<now, incidentEnd, status, initial, featureRuns, visible, work, contexts>>
    BY DEF StoreCandidates
<1>3. CASE ~MayStore(n)
    <2>1. Goto(n, "fail") /\ UNCHANGED <<checkpoint, evidence, merged>>
        BY <1>3 DEF StoreCandidates
    <2>2. OnlyTheJob
        BY <1>1, <1>2, <2>1 DEF OnlyTheJob, Rows, GuidedTypeOK
    <2> QED BY <2>1, <2>2, LeavesKeep
<1>4. CASE MayStore(n)
    <2>1. PICK j \in Jobs : j = job[n] /\ j.pc = "store"
        BY <1>1 DEF StoreCandidates
    <2>2. PICK outcome : outcome = j.downstream
        OBVIOUS
    <2>3. OnTop(j.services, j.seeds) /\ j.features = <<Collected>>
        BY <1>1, <2>1 DEF JobIsOnItsWay
    <2>4. Additional(n) = TopSelection.services /\ Selection(n) = TopSelection
        BY <2>1, <2>3, SelectionsAreTheTop DEF OnTop
    <2>5. checkpoint = NoCheckpoint /\ merged = initial /\ evidence = {Source}
        BY <1>1, <1>4 DEF CheckpointIsTheTop, MayStore
    <2>6. /\ checkpoint' = [selection |-> TopSelection, outcome |-> outcome]
          /\ evidence' = {Source} \cup Stored(outcome, TopSelection.services)
          /\ merged' = MergedStatus(initial, outcome)
        BY <1>4, <2>1, <2>2, <2>4, <2>5 DEF StoreCandidates
    <2>7. PICK pc \in {"renew", "fail"} : Goto(n, pc)
        BY <1>4 DEF StoreCandidates
    <2>8. checkpoint' # NoCheckpoint /\ checkpoint'.selection = TopSelection /\ checkpoint'.outcome = outcome
        BY <2>6 DEF NoCheckpoint
    <2>9. Top' = Top /\ Downstream' = Downstream /\ TopSelection' = TopSelection
        BY DEF Top, Downstream, TopSelection
    <2>10. CheckpointIsTheTop'
        BY <1>2, <2>6, <2>8, <2>9 DEF CheckpointIsTheTop, Stored
    <2>11. \A services, seeds : /\ OnTop(services, seeds)' <=> OnTop(services, seeds)
                                /\ SeedsSoFar(services, seeds)' <=> SeedsSoFar(services, seeds)
        BY <2>9 DEF OnTop, SeedsSoFar
    <2>12. Asked' /\ (Asked => Downstream = {})
        BY <2>5, <2>8 DEF Asked
    <2>13. Downstream = {} => /\ \A failed : TellsFailures(failed)'
                              /\ \A found : HasCollected(found)'
        BY <2>9 DEF TellsFailures, HasCollected
    <2>14. ASSUME NEW any, JobIsOnItsWay(any)
           PROVE  JobIsOnItsWay(any)'
        BY <2>5, <2>8, <2>11, <2>12, <2>13, <2>14 DEF JobIsOnItsWay
    <2>15. ASSUME NEW c, ContextIsWhole(c)
           PROVE  ContextIsWhole(c)'
        BY <2>11, <2>12, <2>13, <2>15 DEF ContextIsWhole
    <2>16. PICK after : after = [j EXCEPT !.pc = pc]
        OBVIOUS
    <2>17. /\ after \in Jobs /\ after.pc = pc /\ after.features = j.features
           /\ after.services = j.services /\ after.seeds = j.seeds /\ after.via = j.via
        <3>1. pc \in LocalizationSteps
            BY DEF LocalizationSteps
        <3> QED BY <2>16, <3>1, GoesOn
    <2>18. job' = [job EXCEPT ![n] = after]
        BY <1>1, <2>1, <2>7, <2>16, GotoIsAnUpdate
    <2>19. j.via = "krca-top-services"
        BY <1>1, <2>1 DEF JobIsOnItsWay
    <2>20. JobIsOnItsWay(after)'
        BY <2>3, <2>8, <2>11, <2>17, <2>19 DEF JobIsOnItsWay
    <2>21. job' \in [Attempts -> Jobs] /\ \A m \in Attempts : JobIsOnItsWay(job[m])'
        BY <1>1, <2>14, <2>17, <2>18, <2>20, OneJobMoves
    <2>22. evidence' \subseteq Names
        <3>1. Top \in Seq(Names)
            BY TopIsRanked
        <3>2. Range(TopSelection.services) \subseteq Names
            BY <3>1, AdditionalAreDownstream DEF Downstream, Range
        <3>3. Source \in Names
            BY ProfileIsUsable DEF Source, Names
        <3> QED BY <2>6, <3>2, <3>3 DEF Stored
    <2>23. GuidedTypeOK'
        BY <1>1, <1>2, <2>21, <2>22 DEF GuidedTypeOK
    <2>24. \A c \in contexts' : ContextIsWhole(c)'
        BY <1>1, <1>2, <2>15
    <2> QED BY <2>10, <2>21, <2>23, <2>24 DEF GuidedInv
<1> QED BY <1>3, <1>4

\* The last steps write the row of the queue and the Incident's status.
LEMMA LastStepsKeep ==
    ASSUME GuidedInv, ranking # NoRanking, UNCHANGED ranking, NEW n \in Attempts,
           LeaveLocalizing(n) \/ MarkFailed(n) \/ CompleteWork(n) \/ FailWork(n) \/ Crash(n)
    PROVE  GuidedInv'
<1>1. work \in Rows
    BY DEF GuidedInv, GuidedTypeOK, Rows
<1>2. \A state \in {"SUCCEEDED", "FAILED"} : [work EXCEPT !.state = state] \in Rows
    BY <1>1 DEF Rows
<1>3. CASE LeaveLocalizing(n)
    <2>1. OnlyTheJob
        BY <1>1, <1>3 DEF OnlyTheJob, LeaveLocalizing
    <2>2. Goto(n, "complete") \/ Goto(n, "mark_failed")
        BY <1>3 DEF LeaveLocalizing
    <2> QED BY <2>1, <2>2, LeavesKeep
<1>4. CASE MarkFailed(n)
    <2>1. OnlyTheJob /\ Goto(n, "fail")
        BY <1>1, <1>4 DEF OnlyTheJob, MarkFailed
    <2> QED BY <2>1, LeavesKeep
<1>5. CASE CompleteWork(n)
    <2>1. OnlyTheJob
        BY <1>1, <1>2, <1>5 DEF OnlyTheJob, CompleteWork
    <2>2. Ends(n) \/ Goto(n, "fail")
        BY <1>5 DEF CompleteWork
    <2> QED BY <2>1, <2>2, LeavesKeep, EndsKeep
<1>6. CASE FailWork(n)
    <2>1. OnlyTheJob /\ Ends(n)
        BY <1>1, <1>2, <1>6 DEF OnlyTheJob, FailWork
    <2> QED BY <2>1, EndsKeep
<1>7. CASE Crash(n)
    <2>1. OnlyTheJob /\ Ends(n)
        BY <1>1, <1>7 DEF OnlyTheJob, Crash
    <2> QED BY <2>1, EndsKeep
<1> QED BY <1>3, <1>4, <1>5, <1>6, <1>7

\* What happens meanwhile.
LEMMA OthersKeep ==
    ASSUME GuidedInv, ranking # NoRanking, UNCHANGED ranking,
           ReapExhausted \/ AlertResolves \/ StaleCollectionStores \/ OthersChangeGraph \/ Tick
    PROVE  GuidedInv'
<1>1. /\ GuidedTypeOK /\ CheckpointIsTheTop /\ \A m \in Attempts : JobIsOnItsWay(job[m])
      /\ \A c \in contexts : ContextIsWhole(c)
    BY DEF GuidedInv
<1>2. UNCHANGED <<initial, merged, job, checkpoint, evidence, contexts>>
    BY DEF ReapExhausted, AlertResolves, StaleCollectionStores, OthersChangeGraph, Tick
<1>3. /\ \A any : JobIsOnItsWay(any) => JobIsOnItsWay(any)'
      /\ \A c : ContextIsWhole(c) => ContextIsWhole(c)'
      /\ CheckpointIsTheTop'
    BY <1>1, <1>2, WaysLast
<1>4. ASSUME NEW m \in Attempts
      PROVE  JobIsOnItsWay(job[m])'
    <2>1. PICK j : j = job[m] /\ j = job'[m]
        BY <1>2
    <2>2. JobIsOnItsWay(j)'
        BY <1>1, <1>3, <2>1
    <2> QED BY <2>1, <2>2
<1>5. \A c \in contexts' : ContextIsWhole(c)'
    BY <1>1, <1>2, <1>3
<1>6. GuidedTypeOK'
    <2>1. CASE ReapExhausted
        BY <1>1, <2>1 DEF ReapExhausted, GuidedTypeOK
    <2>2. CASE AlertResolves
        BY <1>1, <2>2 DEF AlertResolves, GuidedTypeOK
    <2>3. CASE StaleCollectionStores
        <3>1. featureRuns' \in Seq({Collected})
            BY <1>1, <2>3 DEF StaleCollectionStores, GuidedTypeOK
        <3> QED BY <1>1, <2>3, <3>1 DEF StaleCollectionStores, GuidedTypeOK
    <2>4. CASE OthersChangeGraph
        BY <1>1, <2>4 DEF OthersChangeGraph, GuidedTypeOK
    <2>5. CASE Tick
        BY <1>1, <2>5 DEF Tick, GuidedTypeOK
    <2> QED BY <2>1, <2>2, <2>3, <2>4, <2>5
<1> QED BY <1>3, <1>4, <1>5, <1>6 DEF GuidedInv

LEMMA ChangelessGuided ==
    ASSUME GuidedInv, UNCHANGED <<ranking, guidedVars>>
    PROVE  GuidedInv'
<1>1. /\ GuidedTypeOK /\ CheckpointIsTheTop /\ \A m \in Attempts : JobIsOnItsWay(job[m])
      /\ \A c \in contexts : ContextIsWhole(c) /\ (ranking = NoRanking => GuidedInit)
    BY DEF GuidedInv
<1>2. UNCHANGED <<now, incidentEnd, status, initial, merged, featureRuns, visible, work, job,
                  checkpoint, evidence, contexts>>
    BY DEF guidedVars
<1>3. /\ \A any : JobIsOnItsWay(any) => JobIsOnItsWay(any)'
      /\ \A c : ContextIsWhole(c) => ContextIsWhole(c)'
      /\ CheckpointIsTheTop'
    BY <1>1, <1>2, WaysLast
<1>4. ASSUME NEW m \in Attempts
      PROVE  JobIsOnItsWay(job[m])'
    <2>1. PICK j : j = job[m] /\ j = job'[m]
        BY <1>2
    <2>2. JobIsOnItsWay(j)'
        BY <1>1, <1>3, <2>1
    <2> QED BY <2>1, <2>2
<1>5. \A c \in contexts' : ContextIsWhole(c)'
    BY <1>1, <1>2, <1>3
<1>6. GuidedTypeOK'
    BY <1>1, <1>2 DEF GuidedTypeOK
<1>7. ranking' = NoRanking => GuidedInit'
    <2>1. GuidedInit => GuidedInit'
        BY <1>2 DEF GuidedInit
    <2> QED BY <2>1 DEF GuidedInv
<1> QED BY <1>3, <1>4, <1>5, <1>6, <1>7 DEF GuidedInv

LEMMA GuidedHolds == LocalizationSpec => []GuidedInv
<1>1. LocalizationInit => GuidedInv
    BY InitGuided DEF LocalizationInit, GuidedInv
<1>a. GuidedInit' => GuidedTypeOK' /\ CheckpointIsTheTop'
                     /\ (\A n \in Attempts : JobIsOnItsWay(job[n]))'
                     /\ (\A c \in contexts : ContextIsWhole(c))'
    BY InitGuided, PTL
<1>2. ASSUME DrilldownInv, GuidedInv, [LocalizationNext]_<<drilldownVars, guidedVars>>
      PROVE  GuidedInv'
    <2>1. CASE DrilldownNext /\ UNCHANGED guidedVars
        <3>1. ranking = NoRanking
            BY <1>2, <2>1 DEF DrilldownNext, TakeAPI, Rank, Drilled, EvaluateEdge, DrilldownInv, PathsAreTrails
        <3>2. GuidedInit'
            BY <1>2, <2>1, <3>1 DEF GuidedInv, GuidedInit, guidedVars
        <3> QED BY <1>a, <3>2 DEF GuidedInv
    <2>2. CASE ranking # NoRanking /\ GuidedNext /\ UNCHANGED drilldownVars
        <3>1. ranking # NoRanking /\ UNCHANGED ranking
            BY <2>2 DEF drilldownVars
        <3>2. ASSUME NEW n \in Attempts, Localize(n)
              PROVE  GuidedInv'
            BY <1>2, <3>1, <3>2, ClaimGuidedKeeps, PlanKeeps, ResolveTopKeeps, ResolveSourceKeeps,
               SelectKeeps, CollectCandidatesKeeps, StoreCandidatesKeeps, RenewKeeps, FreezeScopeKeeps,
               ListEvidenceKeeps, StoreContextKeeps, LastStepsKeep DEF Localize
        <3> QED BY <1>2, <2>2, <3>1, <3>2, OthersKeep DEF GuidedNext
    <2>3. CASE UNCHANGED <<drilldownVars, guidedVars>>
        <3>1. UNCHANGED <<ranking, guidedVars>>
            BY <2>3 DEF drilldownVars
        <3> QED BY <1>2, <3>1, ChangelessGuided
    <2> QED BY <1>2, <2>1, <2>2, <2>3 DEF LocalizationNext
<1> QED BY <1>1, <1>2, DrilldownHolds, PTL DEF LocalizationSpec

(* A retried localization selects what its predecessor collected for, so its *)
(* checkpoint is never refused.                                            *)
THEOREM SelectionsAreStable == LocalizationSpec => []SelectionIsStable
<1>1. ASSUME DrilldownInv, GuidedInv
      PROVE  SelectionIsStable
    <2> SUFFICES ASSUME NEW n \in Attempts, job[n].pc = "select", checkpoint # NoCheckpoint
                 PROVE  checkpoint.selection = Selection(n)
        BY DEF SelectionIsStable
    <2>1. checkpoint.selection = TopSelection
        BY <1>1 DEF GuidedInv, CheckpointIsTheTop
    <2>2. job[n].services = Top /\ job[n].features = <<Collected>>
        BY <1>1 DEF GuidedInv, JobIsOnItsWay, OnTop
    <2> QED BY <2>1, <2>2, SelectionsAreTheTop
<1> QED BY <1>1, DrilldownHolds, GuidedHolds, PTL

(* A Context on the Top-N rests on one collection from all that are          *)
(* downstream, and does not hide that it failed.                            *)
THEOREM ContextsAreWhole == LocalizationSpec => []DownstreamBeforeFreeze
<1>1. ASSUME DrilldownInv, GuidedInv
      PROVE  DownstreamBeforeFreeze
    <2>1. CASE ranking = NoRanking
        <3>1. contexts = {}
            BY <1>1, <2>1 DEF GuidedInv, GuidedInit
        <3> QED BY <3>1 DEF DownstreamBeforeFreeze
    <2>2. CASE ranking # NoRanking
        <3>1. Range(TopSelection.services) = Downstream
            BY <1>1, <2>2, TopIsRanked, AdditionalAreDownstream
        <3>2. ASSUME NEW c \in contexts, c.via = "krca-top-services"
              PROVE  /\ Range(c.services) = Range(Top) /\ Len(c.seeds) = Len(Top) /\ IsInjective(c.seeds)
                     /\ {s \in Range(c.services) : s # Source} = Downstream
                     /\ Downstream # {} =>
                            /\ checkpoint # NoCheckpoint /\ Range(checkpoint.selection.services) = Downstream
                            /\ c.evidence = {Source} \cup IF Delivers(checkpoint.outcome) THEN Downstream ELSE {}
                            /\ c.failed <=> initial # "SUCCEEDED" \/ checkpoint.outcome # "SUCCEEDED"
            <4>1. OnTop(c.services, c.seeds) /\ Asked /\ TellsFailures(c.failed) /\ HasCollected(c.evidence)
                BY <1>1, <3>2 DEF GuidedInv, ContextIsWhole
            <4>2. /\ Range(c.services) = Range(Top) /\ Len(c.seeds) = Len(Top) /\ IsInjective(c.seeds)
                  /\ {s \in Range(c.services) : s # Source} = Downstream
                BY <4>1 DEF OnTop, Downstream
            <4>3. ASSUME Downstream # {}
                  PROVE  /\ checkpoint # NoCheckpoint /\ Range(checkpoint.selection.services) = Downstream
                         /\ c.evidence = {Source} \cup IF Delivers(checkpoint.outcome) THEN Downstream ELSE {}
                         /\ c.failed <=> initial # "SUCCEEDED" \/ checkpoint.outcome # "SUCCEEDED"
                <5>1. /\ checkpoint # NoCheckpoint /\ checkpoint.selection = TopSelection
                      /\ evidence = {Source} \cup Stored(checkpoint.outcome, checkpoint.selection.services)
                    BY <1>1, <4>1, <4>3 DEF GuidedInv, CheckpointIsTheTop, Asked
                <5>2. c.evidence = evidence /\ (c.failed <=> initial # "SUCCEEDED" \/ checkpoint.outcome # "SUCCEEDED")
                    BY <4>1, <4>3 DEF TellsFailures, HasCollected
                <5> QED BY <3>1, <5>1, <5>2 DEF Stored
            <4> QED BY <4>2, <4>3
        <3> QED BY <3>2 DEF DownstreamBeforeFreeze
    <2> QED BY <2>1, <2>2
<1> QED BY <1>1, DrilldownHolds, GuidedHolds, PTL
=============================================================================
