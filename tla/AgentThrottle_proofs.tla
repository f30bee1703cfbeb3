------------------------ MODULE AgentThrottle_proofs -----------------------
(***************************************************************************)
(* The rate limit and the circuit breaker of AgentThrottle, for every      *)
(* interval, threshold and cooldown.                                       *)
(*                                                                         *)
(* The history variables say what really happened; the invariant ties the  *)
(* worker's own variables to them.  What is left of the rate limit and the *)
(* time since the last claim add up to the interval; the failures in the   *)
(* streak that the count has forgotten are older than a cooldown, because  *)
(* only the end of a cooldown makes it forget; and the count is of failures *)
(* since that end.                                                         *)
(***************************************************************************)
EXTENDS AgentThrottle, TLAPS

LimitMatchesHistory == untilClaim + sinceClaim >= MinInterval

CountMatchesHistory ==
    /\ failures <= Len(streak)
    /\ \A n \in 1..(Len(streak) - failures) : streak[n] = Cooldown
    /\ ~circuit.set => failures < Threshold
    /\ circuit.set => /\ ~running
                      /\ failures = Threshold
                      /\ Len(streak) = Threshold
                      /\ \A n \in 1..Threshold : streak[n] + circuit.left >= Cooldown

CountIsOfUnrested ==
    /\ ~circuit.set => failures <= unrested
    /\ CircuitOpen => unrested = Threshold

ThrottleInv == ClocksOK /\ LimitMatchesHistory /\ CountMatchesHistory /\ CountIsOfUnrested

-----------------------------------------------------------------------------

LEMMA AgesAreTyped ==
    ASSUME NEW S, NEW ages \in Seq(S), NEW n \in 1..Len(ages)
    PROVE  ages[n] \in S
  OBVIOUS

LEMMA ThrottleInit == Init => ThrottleInv
  <1> SUFFICES ASSUME Init PROVE ThrottleInv
    OBVIOUS
  <1>1. streak = << >> /\ Len(streak) = 0 /\ streak \in Seq(0..Cooldown)
    BY DEF Init
  <1>2. ClocksOK
    BY <1>1, ThrottleAssumption DEF Init, Fresh, ClocksOK, Closed
  <1>3. LimitMatchesHistory
    BY ThrottleAssumption DEF Init, Fresh, LimitMatchesHistory
  <1>4. CountMatchesHistory
    BY <1>1, ThrottleAssumption DEF Init, Fresh, CountMatchesHistory, Closed
  <1>5. CountIsOfUnrested
    BY ThrottleAssumption DEF Init, Fresh, CountIsOfUnrested, CircuitOpen, Closed
  <1> QED
    BY <1>2, <1>3, <1>4, <1>5 DEF ThrottleInv

(* process_one: at the end of a cooldown every failure is a cooldown old.  *)
LEMMA CloseCircuitStep ==
    ASSUME ThrottleInv, ~CircuitOpen, CloseCircuit, UNCHANGED <<streak, unrested>>
    PROVE  /\ failures' \in 0..Threshold
           /\ circuit' = Closed /\ circuit' \in [set : BOOLEAN, left : 0..Cooldown]
           /\ failures' < Threshold
           /\ failures' <= Len(streak)
           /\ \A n \in 1..(Len(streak) - failures') : streak[n] = Cooldown
           /\ CountIsOfUnrested'
  <1> USE DEF ThrottleInv
  <1>1. circuit' = Closed /\ Closed \in [set : BOOLEAN, left : 0..Cooldown]
    BY ThrottleAssumption DEF CloseCircuit, Closed
  <1>2. failures' <= unrested
    BY ThrottleAssumption DEF CloseCircuit, CountIsOfUnrested, ClocksOK
  <1>3. CountIsOfUnrested'
    BY <1>1, <1>2 DEF CountIsOfUnrested, CircuitOpen, Closed
  <1>4. CASE circuit.set
    <2>1. circuit.left = 0 /\ failures' = 0 /\ Len(streak) = Threshold
      BY <1>4 DEF CircuitOpen, CloseCircuit, CountMatchesHistory, ClocksOK
    <2>2. ASSUME NEW n \in 1..Threshold PROVE streak[n] = Cooldown
      <3>1. streak \in Seq(0..Cooldown) /\ n \in 1..Len(streak)
        BY <2>1 DEF ClocksOK
      <3>2. streak[n] \in 0..Cooldown
        BY <3>1, AgesAreTyped
      <3>3. streak[n] + circuit.left >= Cooldown
        BY <1>4 DEF CountMatchesHistory
      <3> QED
        BY <3>2, <3>3, <2>1, ThrottleAssumption
    <2> QED
      BY <1>1, <1>3, <2>1, <2>2, ThrottleAssumption
  <1>5. CASE ~circuit.set
    BY <1>1, <1>5, <1>3, ThrottleAssumption DEF CloseCircuit, CountMatchesHistory, ClocksOK
  <1> QED
    BY <1>4, <1>5 DEF ClocksOK

LEMMA ProcessOneStep ==
    ASSUME ThrottleInv, ProcessOne
    PROVE  ThrottleInv'
  <1> USE DEF ThrottleInv
  <1>1. CASE LookAtOpenCircuit
    BY <1>1 DEF LookAtOpenCircuit, vars, workerVars, queueVars, historyVars,
                ClocksOK, LimitMatchesHistory, CountMatchesHistory, CountIsOfUnrested, CircuitOpen
  <1>2. ASSUME ~CircuitOpen, CloseCircuit, UNCHANGED <<streak, unrested>>,
               untilClaim' \in 0..MinInterval, sinceClaim' \in 0..MinInterval,
               untilClaim' + sinceClaim' >= MinInterval
        PROVE  ThrottleInv'
    <2>1. ClocksOK'
      BY <1>2, CloseCircuitStep DEF ClocksOK
    <2>2. LimitMatchesHistory'
      BY <1>2 DEF LimitMatchesHistory
    <2>3. ~circuit'.set
      BY <1>2, CloseCircuitStep DEF Closed
    <2>4. CountMatchesHistory'
      BY <1>2, <2>3, CloseCircuitStep DEF CountMatchesHistory
    <2>5. CountIsOfUnrested'
      BY <1>2, CloseCircuitStep
    <2> QED
      BY <2>1, <2>2, <2>4, <2>5
  <1>3. CASE LookTooEarly \/ ReapOnly
    BY <1>2, <1>3 DEF LookTooEarly, ReapOnly, queueVars, historyVars, ClocksOK, LimitMatchesHistory
  <1>4. CASE ReapAndClaim
    BY <1>2, <1>4, ThrottleAssumption DEF ReapAndClaim, ClocksOK
  <1> QED
    BY <1>1, <1>3, <1>4 DEF ProcessOne

LEMMA SucceedStep ==
    ASSUME ThrottleInv, Succeed
    PROVE  ThrottleInv'
  <1> USE DEF ThrottleInv
  <1>1. streak' = << >> /\ Len(streak') = 0 /\ streak' \in Seq(0..Cooldown)
    BY DEF Succeed
  <1>2. ClocksOK'
    BY <1>1, ThrottleAssumption DEF Succeed, ClocksOK, Closed, queueVars
  <1>3. LimitMatchesHistory'
    BY DEF Succeed, LimitMatchesHistory
  <1>4. CountMatchesHistory'
    BY <1>1, ThrottleAssumption DEF Succeed, CountMatchesHistory, Closed
  <1>5. CountIsOfUnrested'
    BY DEF Succeed, CountIsOfUnrested, CircuitOpen, Closed
  <1> QED
    BY <1>2, <1>3, <1>4, <1>5

(* A failure: the streak grows, or forgets its oldest entry, which is      *)
(* older than the ones counted.                                            *)
LEMMA FailRunStep ==
    ASSUME ThrottleInv, FailRun
    PROVE  ThrottleInv'
  <1> USE DEF ThrottleInv
  <1> DEFINE longer == Append(streak, 0)
  <1>1. /\ running /\ ~circuit.set /\ failures \in 0..Threshold /\ failures < Threshold
        /\ streak \in Seq(0..Cooldown) /\ Len(streak) \in 0..Threshold
        /\ failures <= Len(streak)
        /\ \A n \in 1..(Len(streak) - failures) : streak[n] = Cooldown
    BY DEF FailRun, CountMatchesHistory, ClocksOK
  <1>2. /\ longer \in Seq(0..Cooldown) /\ Len(longer) = Len(streak) + 1
        /\ \A n \in 1..Len(streak) : longer[n] = streak[n]
        /\ longer[Len(streak) + 1] = 0
    BY <1>1, ThrottleAssumption
  <1>3. failures' = failures + 1 /\ failures' \in 0..Threshold
    BY <1>1, ThrottleAssumption DEF FailRun
  <1>4. /\ streak' \in Seq(0..Cooldown) /\ Len(streak') \in 0..Threshold
        /\ failures' <= Len(streak')
        /\ \A n \in 1..(Len(streak') - failures') : streak'[n] = Cooldown
    <2> HIDE DEF longer
    <2>1. streak' = IF Len(longer) > Threshold THEN Tail(longer) ELSE longer
      BY DEF FailRun, LatestFailures, longer
    <2>2. CASE Len(longer) > Threshold
      <3>1. /\ streak' \in Seq(0..Cooldown) /\ Len(streak') = Len(streak)
            /\ \A n \in 1..Len(streak) : streak'[n] = longer[n + 1]
        BY <1>2, <2>1, <2>2, <1>1
      <3>2. ASSUME NEW n \in 1..(Len(streak') - failures')
            PROVE  streak'[n] = Cooldown
        <4>1. n + 1 \in 1..(Len(streak) - failures) /\ n + 1 \in 1..Len(streak)
              /\ n \in 1..Len(streak)
          BY <1>1, <1>3, <3>1
        <4> QED
          BY <4>1, <1>1, <1>2, <3>1
      <3>3. failures' <= Len(streak')
        BY <1>1, <1>2, <1>3, <2>2, <3>1, ThrottleAssumption
      <3> QED
        BY <1>1, <3>1, <3>2, <3>3
    <2>3. CASE ~(Len(longer) > Threshold)
      <3>1. streak' = longer
        BY <2>1, <2>3
      <3>2. ASSUME NEW n \in 1..(Len(streak') - failures')
            PROVE  streak'[n] = Cooldown
        <4>1. n \in 1..(Len(streak) - failures) /\ n \in 1..Len(streak)
          BY <1>1, <1>2, <1>3, <3>1
        <4> QED
          BY <4>1, <1>1, <1>2, <3>1
      <3> QED
        BY <1>1, <1>2, <1>3, <2>3, <3>1, <3>2, ThrottleAssumption
    <2> QED
      BY <2>2, <2>3
  <1>5. unrested' \in 0..Threshold /\ failures' <= unrested'
    BY <1>1, <1>3, ThrottleAssumption DEF FailRun, Older, ClocksOK, CountIsOfUnrested
  <1>6. CASE failures + 1 >= Threshold
    <2>1. circuit' = [set |-> TRUE, left |-> Cooldown] /\ running' = FALSE
      BY <1>6 DEF FailRun
    <2>2. failures' = Threshold /\ Len(streak') = Threshold
      BY <1>1, <1>3, <1>4, <1>6, ThrottleAssumption
    <2>3. ClocksOK'
      BY <1>3, <1>4, <1>5, <2>1, ThrottleAssumption DEF FailRun, ClocksOK, queueVars
    <2>4. LimitMatchesHistory'
      BY DEF FailRun, LimitMatchesHistory
    <2>5. \A n \in 1..Threshold : streak'[n] + circuit'.left >= Cooldown
      <3>1. \A n \in 1..Threshold : streak'[n] \in 0..Cooldown
        BY <1>4, <2>2, AgesAreTyped
      <3> QED
        BY <3>1, <2>1, ThrottleAssumption
    <2>6. CountMatchesHistory'
      BY <1>4, <2>1, <2>2, <2>5 DEF CountMatchesHistory
    <2>7. CountIsOfUnrested'
      BY <1>5, <2>1, <2>2, ThrottleAssumption DEF CountIsOfUnrested
    <2> QED
      BY <2>3, <2>4, <2>6, <2>7
  <1>7. CASE ~(failures + 1 >= Threshold)
    <2>1. circuit' = circuit
      BY <1>7 DEF FailRun
    <2>2. ClocksOK'
      BY <1>3, <1>4, <1>5, <2>1 DEF FailRun, ClocksOK, queueVars
    <2>3. LimitMatchesHistory'
      BY DEF FailRun, LimitMatchesHistory
    <2>4. failures' < Threshold
      BY <1>1, <1>3, <1>7, ThrottleAssumption
    <2>5. CountMatchesHistory'
      BY <1>1, <1>4, <2>1, <2>4 DEF CountMatchesHistory
    <2>6. CountIsOfUnrested'
      BY <1>1, <1>5, <2>1 DEF CountIsOfUnrested, CircuitOpen
    <2> QED
      BY <2>2, <2>3, <2>5, <2>6
  <1> QED
    BY <1>6, <1>7

LEMMA RestartStep ==
    ASSUME ThrottleInv, Restart
    PROVE  ThrottleInv'
  <1> USE DEF ThrottleInv
  <1>1. streak' = << >> /\ Len(streak') = 0 /\ streak' \in Seq(0..Cooldown)
    BY DEF Restart
  <1>2. ClocksOK'
    BY <1>1, ThrottleAssumption DEF Restart, ClocksOK, Closed, queueVars
  <1>3. LimitMatchesHistory'
    BY ThrottleAssumption DEF Restart, LimitMatchesHistory
  <1>4. CountMatchesHistory'
    BY <1>1, ThrottleAssumption DEF Restart, CountMatchesHistory, Closed
  <1>5. CountIsOfUnrested'
    BY DEF Restart, CountIsOfUnrested, CircuitOpen, Closed
  <1> QED
    BY <1>2, <1>3, <1>4, <1>5

(* A second passes: what is left goes down as ages go up.                  *)
LEMMA TickStep ==
    ASSUME ThrottleInv, Tick
    PROVE  ThrottleInv'
  <1> USE DEF ThrottleInv
  <1>1. /\ streak' \in Seq(0..Cooldown) /\ Len(streak') = Len(streak)
        /\ \A n \in 1..Len(streak) : streak'[n] = Older(streak[n], Cooldown)
    <2>1. \A n \in 1..Len(streak) : Older(streak[n], Cooldown) \in 0..Cooldown
      BY ThrottleAssumption DEF ClocksOK, Older
    <2>2. streak' = [n \in 1..Len(streak) |-> Older(streak[n], Cooldown)]
      BY DEF Tick, ClocksOK
    <2>3. Len(streak) \in Nat
      BY DEF ClocksOK
    <2> QED
      BY <2>1, <2>2, <2>3
  <1>2. circuit' = [circuit EXCEPT !.left = Less(circuit.left)]
        /\ circuit'.set = circuit.set /\ circuit'.left = Less(circuit.left)
        /\ circuit' \in [set : BOOLEAN, left : 0..Cooldown]
    <2>1. Less(circuit.left) \in 0..Cooldown
      BY ThrottleAssumption DEF ClocksOK, Less
    <2> QED
      BY <2>1 DEF Tick, ClocksOK
  <1>3. untilClaim' \in 0..MinInterval /\ sinceClaim' \in 0..MinInterval
        /\ untilClaim' + sinceClaim' >= MinInterval
    <2>1. /\ MinInterval \in Nat
          /\ untilClaim \in 0..MinInterval /\ sinceClaim \in 0..MinInterval
          /\ untilClaim + sinceClaim >= MinInterval
      BY ThrottleAssumption DEF ClocksOK, LimitMatchesHistory
    <2>2. untilClaim' = Less(untilClaim) /\ sinceClaim' = Older(sinceClaim, MinInterval)
      BY DEF Tick
    <2> QED
      BY ONLY <2>1, <2>2 DEF Less, Older
  <1>4. ClocksOK'
    BY <1>1, <1>2, <1>3, ThrottleAssumption DEF Tick, ClocksOK, queueVars
  <1>5. CountMatchesHistory'
    <2>1. failures' = failures /\ running' = running
      BY DEF Tick
    <2>2. failures \in Nat /\ Len(streak) \in Nat
      BY DEF ClocksOK
    <2>3. ASSUME NEW n \in 1..(Len(streak) - failures)
          PROVE  streak'[n] = Cooldown
      <3>1. n \in 1..Len(streak) /\ streak[n] = Cooldown
        BY <2>2 DEF CountMatchesHistory
      <3> QED
        BY <3>1, <1>1, ThrottleAssumption DEF Older
    <2>4. ASSUME circuit.set, NEW n \in 1..Threshold
          PROVE  streak'[n] + circuit'.left >= Cooldown
      <3>2. streak \in Seq(0..Cooldown) /\ n \in 1..Len(streak)
            /\ streak[n] + circuit.left >= Cooldown /\ circuit.left \in 0..Cooldown
        BY <2>4 DEF CountMatchesHistory, ClocksOK
      <3>1. n \in 1..Len(streak) /\ streak[n] + circuit.left >= Cooldown
            /\ streak[n] \in 0..Cooldown /\ circuit.left \in 0..Cooldown
        BY <3>2, AgesAreTyped
      <3>3. Cooldown \in Nat
        BY ThrottleAssumption
      <3>4. streak'[n] = Older(streak[n], Cooldown) /\ circuit'.left = Less(circuit.left)
        BY <1>1, <1>2, <3>1
      <3> QED
        BY ONLY <3>1, <3>3, <3>4 DEF Older, Less
    <2> QED
      BY <1>1, <1>2, <2>1, <2>3, <2>4 DEF CountMatchesHistory
  <1>6. CountIsOfUnrested'
    <2>1. failures' = failures /\ unrested' = IF circuit.set /\ circuit.left = 1 THEN 0 ELSE unrested
      BY DEF Tick
    <2>2. circuit.left \in 0..Cooldown /\ Cooldown \in Nat
      BY ThrottleAssumption DEF ClocksOK
    <2>3. CircuitOpen' => CircuitOpen /\ circuit.left # 1
      BY <1>2, <2>2 DEF CircuitOpen, Less
    <2> QED
      BY <1>2, <2>1, <2>3 DEF CountIsOfUnrested
  <1> QED
    BY <1>3, <1>4, <1>5, <1>6 DEF LimitMatchesHistory

LEMMA ThrottleStep == ThrottleInv /\ [Next]_vars => ThrottleInv'
  <1> SUFFICES ASSUME ThrottleInv, [Next]_vars PROVE ThrottleInv'
    OBVIOUS
  <1>1. CASE QueueChanges \/ RowExhausted \/ UNCHANGED vars
    BY <1>1 DEF QueueChanges, RowExhausted, vars, workerVars, queueVars, historyVars,
                ThrottleInv, ClocksOK, LimitMatchesHistory, CountMatchesHistory, CountIsOfUnrested, CircuitOpen
  <1> QED
    BY <1>1, ProcessOneStep, SucceedStep, FailRunStep, RestartStep, TickStep
       DEF Next, Finish

LEMMA ThrottleInvariant == Spec => []ThrottleInv
  BY ThrottleInit, ThrottleStep, PTL DEF Spec

-----------------------------------------------------------------------------

(* The variables keep their types.                                         *)
THEOREM TypeCorrect == Spec => []TypeOK
  <1>1. Init => FlagsOK
    BY Zenon DEF Init, Fresh, FlagsOK
  <1>2. FlagsOK /\ [Next]_vars => FlagsOK'
    BY Zenon DEF FlagsOK, Next, ProcessOne, Finish, LookAtOpenCircuit, LookTooEarly, ReapOnly,
       ReapAndClaim, Succeed, FailRun, Restart, Tick, QueueChanges, RowExhausted,
       vars, workerVars, queueVars, historyVars
  <1>3. ThrottleInv /\ FlagsOK => TypeOK
    BY DEF ThrottleInv, TypeOK
  <1> QED
    BY <1>1, <1>2, <1>3, ThrottleInvariant, PTL DEF Spec

(* With every run failing there are at most Threshold runs per cooldown.   *)
THEOREM BreakerRationsFailures == Spec => []FailuresAreRationed
  <1>1. ThrottleInv => FailuresAreRationed
    BY ThrottleAssumption DEF ThrottleInv, ClocksOK, CountMatchesHistory, FailuresAreRationed
  <1> QED
    BY <1>1, ThrottleInvariant, PTL

(* The circuit is open only after Threshold failures in a row, none of     *)
(* them before the end of an earlier cooldown.                             *)
THEOREM BreakerNeedsAStreak == Spec => []OpensAfterStreak
  <1>1. ThrottleInv => OpensAfterStreak
    BY DEF ThrottleInv, CountIsOfUnrested, OpensAfterStreak
  <1> QED
    BY <1>1, ThrottleInvariant, PTL

(* Two claims of one process are at least the interval apart.              *)
THEOREM RateLimitSpacesClaims == Spec => ClaimsAreSpaced
  <1>1. ThrottleInv /\ [Next]_vars => [~running /\ running' => sinceClaim = MinInterval]_vars
    <2> SUFFICES ASSUME ThrottleInv, Next, ~running, running'
                 PROVE  sinceClaim = MinInterval
      OBVIOUS
    <2>1. ReapAndClaim
      BY DEF Next, ProcessOne, Finish, LookAtOpenCircuit, LookTooEarly, ReapOnly, Succeed,
             FailRun, Restart, Tick, QueueChanges, RowExhausted, workerVars, vars
    <2>2. untilClaim = 0
      BY <2>1 DEF ReapAndClaim, RateLimited, ThrottleInv, ClocksOK
    <2> QED
      BY <2>2, ThrottleAssumption DEF ThrottleInv, ClocksOK, LimitMatchesHistory
  <1> QED
    BY <1>1, ThrottleInvariant, PTL DEF Spec, ClaimsAreSpaced
=============================================================================
