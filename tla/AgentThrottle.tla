---------------------------- MODULE AgentThrottle --------------------------
(***************************************************************************)
(* When a continuous AgentWorker claims: its rate limit, its circuit       *)
(* breaker and, because both return before the reaper is called, when it   *)
(* reaps.  What a claim and a run do to the database is in AgentWorker;    *)
(* here a run ends in PROCESSED or it does not.                            *)
(*                                                                         *)
(* _next_claim_at and _circuit_open_until are times.  Only their distance  *)
(* from now is ever looked at, so they are kept as the time left and Tick  *)
(* counts them down: the state space is finite without bounding the clock. *)
(***************************************************************************)
EXTENDS Naturals, Sequences

CONSTANTS
    MinInterval,  \* min_claim_interval_seconds
    Threshold,    \* circuit_failure_threshold
    Cooldown      \* circuit_cooldown_seconds

ASSUME ThrottleAssumption ==
    /\ MinInterval \in Nat \ {0}
    /\ Threshold \in Nat \ {0}
    /\ Cooldown \in Nat \ {0}

VARIABLES
    untilClaim,  \* _next_claim_at - now; 0 when unset or past
    failures,    \* _consecutive_failures
    circuit,     \* _circuit_open_until: set or None, and what is left of it
    running,     \* a claim is being processed
    waiting,     \* the queue has a row the worker may claim
    exhausted,   \* the queue has a row the reaper must settle
    sinceClaim,  \* history: time since this process last claimed
    streak,      \* history: ages of its latest failures since a success
    unrested     \* history: failures since a success or the end of a cooldown

workerVars == <<untilClaim, failures, circuit, running>>
queueVars == <<waiting, exhausted>>
historyVars == <<sinceClaim, streak, unrested>>
vars == <<workerVars, queueVars, historyVars>>

Older(age, limit) == IF age < limit THEN age + 1 ELSE limit
Less(left) == IF left > 0 THEN left - 1 ELSE 0
Closed == [set |-> FALSE, left |-> 0]

ClocksOK ==
    /\ untilClaim \in 0..MinInterval
    /\ failures \in 0..Threshold
    /\ circuit \in [set : BOOLEAN, left : 0..Cooldown]
    /\ sinceClaim \in 0..MinInterval
    /\ streak \in Seq(0..Cooldown)
    /\ Len(streak) <= Threshold
    /\ unrested \in 0..Threshold

FlagsOK ==
    /\ running \in BOOLEAN
    /\ waiting \in BOOLEAN
    /\ exhausted \in BOOLEAN

TypeOK == ClocksOK /\ FlagsOK

Fresh ==
    /\ untilClaim = 0
    /\ failures = 0
    /\ circuit = Closed
    /\ running = FALSE

Init ==
    /\ Fresh
    /\ waiting = FALSE
    /\ exhausted = FALSE
    /\ sinceClaim = MinInterval
    /\ streak = << >>
    /\ unrested = 0

-----------------------------------------------------------------------------
(* process_one                                                             *)

CircuitOpen == circuit.set /\ circuit.left > 0
RateLimited == untilClaim > 0

\* Mutant: the cooldown starts again whenever the worker looks.
LookRestartsCooldown ==
    /\ ~running
    /\ CircuitOpen
    /\ circuit' = [circuit EXCEPT !.left = Cooldown]
    /\ UNCHANGED <<untilClaim, failures, running, queueVars, historyVars>>

(* CIRCUIT_OPEN: returns before the rate limit, the reaper and the queue.  *)
LookAtOpenCircuit ==
    /\ ~running
    /\ CircuitOpen
    /\ UNCHANGED vars

\* Mutant: the count goes on after the cooldown.
CloseCircuitUncounted ==
    /\ circuit' = Closed
    /\ UNCHANGED failures

(* The cooldown is over: the circuit is closed and the count starts afresh. *)
CloseCircuit ==
    /\ circuit' = Closed
    /\ failures' = IF circuit.set THEN 0 ELSE failures

LookTooEarly ==
    /\ ~running
    /\ ~CircuitOpen
    /\ RateLimited
    /\ CloseCircuit
    /\ UNCHANGED <<untilClaim, running, queueVars, historyVars>>

(* reap_exhausted_eligible, then a claim that finds nothing.               *)
ReapOnly ==
    /\ ~running
    /\ ~CircuitOpen
    /\ ~RateLimited
    /\ CloseCircuit
    /\ ~waiting
    /\ exhausted' = FALSE
    /\ UNCHANGED <<untilClaim, running, waiting, historyVars>>

\* Mutant: the circuit is not looked at.
ClaimWithOpenCircuit ==
    /\ ~running
    /\ ~RateLimited
    /\ CloseCircuit
    /\ waiting
    /\ running' = TRUE
    /\ exhausted' = FALSE
    /\ waiting' \in BOOLEAN
    /\ untilClaim' = MinInterval
    /\ sinceClaim' = 0
    /\ UNCHANGED <<streak, unrested>>

(* The same, and the claim finds a row; more may be waiting behind it.     *)
ReapAndClaim ==
    /\ ~running
    /\ ~CircuitOpen
    /\ ~RateLimited
    /\ CloseCircuit
    /\ waiting
    /\ running' = TRUE
    /\ exhausted' = FALSE
    /\ waiting' \in BOOLEAN
    /\ untilClaim' = MinInterval
    /\ sinceClaim' = 0
    /\ UNCHANGED <<streak, unrested>>

LatestFailures(ages) ==
    IF Len(ages) > Threshold THEN Tail(ages) ELSE ages

(* _update_circuit, for a claim that was PROCESSED and for any other       *)
(* result: a failed run, a lost acknowledgement of fail or of complete.    *)
Succeed ==
    /\ running
    /\ running' = FALSE
    /\ failures' = 0
    /\ circuit' = Closed
    /\ streak' = << >>
    /\ unrested' = 0
    /\ UNCHANGED <<untilClaim, queueVars, sinceClaim>>

FailRun ==
    /\ running
    /\ running' = FALSE
    /\ failures' = failures + 1
    /\ circuit' = IF failures + 1 >= Threshold
                  THEN [set |-> TRUE, left |-> Cooldown]
                  ELSE circuit
    /\ streak' = LatestFailures(Append(streak, 0))
    /\ unrested' = Older(unrested, Threshold)
    /\ UNCHANGED <<untilClaim, queueVars, sinceClaim>>

(* The process dies and its successor starts: all of this is in memory.    *)
Restart ==
    /\ untilClaim' = 0
    /\ failures' = 0
    /\ circuit' = Closed
    /\ running' = FALSE
    /\ sinceClaim' = MinInterval
    /\ streak' = << >>
    /\ unrested' = 0
    /\ UNCHANGED queueVars

-----------------------------------------------------------------------------
(* Time and the rest of the platform                                       *)

Tick ==
    /\ untilClaim' = Less(untilClaim)
    /\ circuit' = [circuit EXCEPT !.left = Less(@)]
    /\ sinceClaim' = Older(sinceClaim, MinInterval)
    /\ streak' = [n \in DOMAIN streak |-> Older(streak[n], Cooldown)]
    /\ unrested' = IF circuit.set /\ circuit.left = 1 THEN 0 ELSE unrested
    /\ UNCHANGED <<failures, running, queueVars>>

(* Rows become claimable and are taken by others.                          *)
QueueChanges == waiting' = ~waiting /\ UNCHANGED <<workerVars, exhausted, historyVars>>
RowExhausted == exhausted' = TRUE /\ UNCHANGED <<workerVars, waiting, historyVars>>

-----------------------------------------------------------------------------
(* Specification                                                           *)

ProcessOne == LookAtOpenCircuit \/ LookTooEarly \/ ReapOnly \/ ReapAndClaim
Finish == Succeed \/ FailRun

Next == ProcessOne \/ Finish \/ Restart \/ Tick \/ QueueChanges \/ RowExhausted

(* The loop of main calls process_one for ever, every run ends (it has a   *)
(* deadline), and time passes.  That runs ever succeed is not assumed.     *)
Spec == Init /\ [][Next]_vars
        /\ WF_vars(ProcessOne) /\ WF_vars(Finish) /\ WF_vars(Tick)

-----------------------------------------------------------------------------
(* Properties                                                              *)

(* One process never starts two claims within min_claim_interval_seconds,  *)
(* however the first ended.                                                *)
ClaimsAreSpaced ==
    [][~running /\ running' => sinceClaim = MinInterval]_vars

(* With every run failing, no claim is processed while the latest          *)
(* circuit_failure_threshold failures are all younger than the cooldown:   *)
(* a broken model or database sees at most Threshold runs per cooldown.    *)
FailuresAreRationed ==
    running /\ Len(streak) = Threshold => streak[1] = Cooldown

(* The circuit is open only after Threshold failures in a row: a success   *)
(* between them starts the count again, and so does the end of a cooldown, *)
(* after which one failure alone must not open it.                         *)
OpensAfterStreak == CircuitOpen => unrested = Threshold

(* An exhausted row is settled even by a worker all of whose runs fail:    *)
(* skipping the reaper while the circuit is open only delays it.           *)
ExhaustedIsReaped == exhausted ~> ~exhausted
=============================================================================
