----------------------- MODULE IncidentPipeline_proofs ---------------------
(***************************************************************************)
(* PipelineInv is an invariant of the pipeline, for any number of          *)
(* Incidents, workers and attempts.  First every transaction of            *)
(* IncidentStore is shown to keep the database well typed and consistent   *)
(* (an Effect lemma says what it does to the rows one by one, an Inv lemma  *)
(* uses that); then every action of a worker is shown to be such a         *)
(* transaction, made for a claim, together with a move of its program      *)
(* counter.  Then comes what a live lease is worth: until it expires, no    *)
(* transaction but one of the claim's holder changes the row, because each *)
(* statement that touches a queue compares the token, the expiry or the     *)
(* absence of the row.                                                     *)
(*                                                                         *)
(* The second half is about the life of an Incident.  Each transaction      *)
(* moves it along the status graph, settles a row only with the outcome    *)
(* the status has, and pins only a stored Context; so the pipeline          *)
(* implements IncidentLifecycle, every report is backed by an accepted     *)
(* audit and the pinned Context, and a settled row says what became of the *)
(* Incident.                                                               *)
(*                                                                         *)
(* Last, the pipeline implements the in-memory adapters the services are   *)
(* tested on: every transaction of IncidentStore is a call of              *)
(* MemoryAdapters.  The adapters ask for things the model's database does   *)
(* not ask for (a Context before an Agent run, a claim number in range);    *)
(* the pipeline has them because of what its workers have done before.      *)
(***************************************************************************)
EXTENDS IncidentPipeline, FiniteSetTheorems, TLAPS

-----------------------------------------------------------------------------
(* The data                                                                *)

LEMMA StatusGraph ==
    ASSUME NEW e \in LC!Statuses, NEW n \in LC!AllowedTransitions[e]
    PROVE  n \in LC!Statuses
  BY DEF LC!Statuses, LC!AllowedTransitions

LEMMA StageStatuses ==
    \A s \in Stages : ActiveStatus[s] \in LC!Statuses /\ ReadyStatus[s] \in LC!Statuses
  BY DEF Stages, ActiveStatus, ReadyStatus, LC!Statuses

(* Writing one row of the queues changes that row and no other.            *)
LEMMA RowUpdate ==
    ASSUME NEW S, NEW T, NEW R, NEW f \in [S -> [T -> R]],
           NEW s \in S, NEW i \in T, NEW r \in R
    PROVE  /\ [f EXCEPT ![s][i] = r] \in [S -> [T -> R]]
           /\ [f EXCEPT ![s][i] = r][s][i] = r
           /\ \A u \in S, j \in T :
                <<u, j>> # <<s, i>> => [f EXCEPT ![s][i] = r][u][j] = f[u][j]
  OBVIOUS

RunningRow(r) == [state |-> "RUNNING", attempts |-> r.attempts + 1, lease |-> "live"]

LEMMA RowValues ==
    /\ AbsentRow \in Row /\ ReadyRow \in Row
    /\ \A r \in Row : RunningRow(r) \in Row
    /\ \A r \in Row, o \in RowStates :
        /\ SettledRow(r, o) \in Row
        /\ SettledRow(r, o).state = o
        /\ SettledRow(r, o).attempts = r.attempts
        /\ SettledRow(r, o).lease = "none"
    /\ \A r \in Row, l \in Leases :
        /\ [r EXCEPT !.lease = l] \in Row
        /\ [r EXCEPT !.lease = l].state = r.state
        /\ [r EXCEPT !.lease = l].attempts = r.attempts
        /\ [r EXCEPT !.lease = l].lease = l
  <1>1. AbsentRow \in Row /\ ReadyRow \in Row
    BY DEF AbsentRow, ReadyRow, Row, RowStates, Leases
  <1>2. ASSUME NEW r \in Row, NEW o \in RowStates
        PROVE  /\ SettledRow(r, o) \in Row
               /\ SettledRow(r, o).state = o
               /\ SettledRow(r, o).attempts = r.attempts
               /\ SettledRow(r, o).lease = "none"
    BY DEF Row, SettledRow, Leases
  <1>3. ASSUME NEW r \in Row PROVE RunningRow(r) \in Row
    BY DEF Row, RowStates, Leases, RunningRow
  <1>4. ASSUME NEW r \in Row, NEW l \in Leases
        PROVE  /\ [r EXCEPT !.lease = l] \in Row
               /\ [r EXCEPT !.lease = l].state = r.state
               /\ [r EXCEPT !.lease = l].attempts = r.attempts
               /\ [r EXCEPT !.lease = l].lease = l
    BY DEF Row
  <1> QED BY <1>1, <1>2, <1>3, <1>4

LEMMA RowFields ==
    \A r \in Row : r.state \in RowStates /\ r.attempts \in Nat /\ r.lease \in Leases
  BY DEF Row

-----------------------------------------------------------------------------
(* What the transactions do, row by row                                    *)

OtherRowsSame(s, i) ==
    \A u \in Stages, j \in Incidents : <<u, j>> # <<s, i>> => work'[u][j] = work[u][j]

LEMMA ReceiveEffect ==
    ASSUME StoreTypeOK, NEW i \in Incidents, Receive(i)
    PROVE  /\ StoreTypeOK'
           /\ status[i] = "NEW"
           /\ work'["collection"][i] = ReadyRow
           /\ OtherRowsSame("collection", i)
  <1>1. work' = [work EXCEPT !["collection"][i] = ReadyRow]
    BY DEF Receive
  <1>2. /\ work' \in [Stages -> [Incidents -> Row]]
        /\ work'["collection"][i] = ReadyRow
        /\ OtherRowsSame("collection", i)
    BY <1>1, RowValues, RowUpdate DEF StoreTypeOK, Stages, OtherRowsSame
  <1> QED BY <1>2 DEF Receive, StoreTypeOK, artifactVars, LC!Statuses

(* Either nothing is enqueued, or a row that was absent is now ready.      *)
Enqueued(s, i) ==
    /\ work[s][i].state = "ABSENT"
    /\ work'[s][i] = ReadyRow
    /\ OtherRowsSame(s, i)

LEMMA EnqueueLocalizationEffect ==
    ASSUME StoreTypeOK, NEW i \in Incidents, EnqueueLocalization(i)
    PROVE  /\ work' \in [Stages -> [Incidents -> Row]]
           /\ pinned' = pinned
           /\ IF work["localization"][i].state = "ABSENT"
              THEN Enqueued("localization", i)
              ELSE work' = work
  <1>1. CASE work["localization"][i].state = "ABSENT"
    <2>1. work' = [work EXCEPT !["localization"][i] = ReadyRow]
      BY <1>1 DEF EnqueueLocalization
    <2> QED BY <1>1, <2>1, RowValues, RowUpdate
            DEF EnqueueLocalization, StoreTypeOK, Stages, OtherRowsSame, Enqueued
  <1>2. CASE work["localization"][i].state # "ABSENT"
    <2>1. work' = [work EXCEPT !["localization"][i] = work["localization"][i]]
      BY <1>2 DEF EnqueueLocalization
    <2>2. work' = work
      BY <2>1 DEF StoreTypeOK
    <2> QED BY <1>2, <2>2 DEF EnqueueLocalization, StoreTypeOK
  <1> QED BY <1>1, <1>2

LEMMA EnqueueAnalysisEffect ==
    ASSUME StoreTypeOK, NEW i \in Incidents, NEW available \in SUBSET Nat,
           EnqueueAnalysis(i, available)
    PROVE  /\ work' \in [Stages -> [Incidents -> Row]]
           /\ pinned' \in [Incidents -> Nat]
           /\ \A j \in Incidents : j # i => pinned'[j] = pinned[j]
           /\ IF work["analysis"][i].state = "ABSENT" /\ available # {}
              THEN Enqueued("analysis", i)
              ELSE work' = work /\ pinned' = pinned
  <1>1. CASE work["analysis"][i].state = "ABSENT" /\ available # {}
    <2>1. work' = [work EXCEPT !["analysis"][i] = ReadyRow]
      BY <1>1 DEF EnqueueAnalysis
    <2>2. /\ pinned' \in [Incidents -> Nat]
          /\ \A j \in Incidents : j # i => pinned'[j] = pinned[j]
      BY <1>1 DEF EnqueueAnalysis, StoreTypeOK
    <2> QED BY <1>1, <2>1, <2>2, RowValues, RowUpdate
            DEF StoreTypeOK, Stages, OtherRowsSame, Enqueued
  <1>2. CASE ~(work["analysis"][i].state = "ABSENT" /\ available # {})
    BY <1>2 DEF EnqueueAnalysis, StoreTypeOK, queueVars
  <1> QED BY <1>1, <1>2

LEMMA TransitionEffect ==
    ASSUME StoreTypeOK, NEW i \in Incidents, NEW e \in LC!Statuses, NEW n,
           Transition(i, e, n)
    PROVE  /\ StoreTypeOK'
           /\ n \in LC!AllowedTransitions[e]
           /\ status[i] = e
           /\ status'[i] = n
           /\ \A j \in Incidents : j # i =>
                /\ status'[j] = status[j]
                /\ pinned'[j] = pinned[j]
           /\ CASE n = "LOCALIZING" ->
                    /\ pinned' = pinned
                    /\ IF work["localization"][i].state = "ABSENT"
                       THEN Enqueued("localization", i) ELSE work' = work
                [] n = "ANALYZING" ->
                    IF work["analysis"][i].state = "ABSENT" /\ contexts[i] # {}
                    THEN Enqueued("analysis", i) ELSE work' = work /\ pinned' = pinned
                [] OTHER -> work' = work /\ pinned' = pinned
  <1>1. n \in LC!Statuses /\ n \in LC!AllowedTransitions[e] /\ status[i] = e
    BY StatusGraph DEF Transition, CanTransition
  <1>2. /\ status' \in [Incidents -> LC!Statuses] /\ status'[i] = n
        /\ \A j \in Incidents : j # i => status'[j] = status[j]
    BY <1>1 DEF Transition, StoreTypeOK
  <1>3. contexts[i] \in SUBSET Nat
    BY DEF StoreTypeOK
  <1>4. CASE n = "LOCALIZING"
    <2>1. EnqueueLocalization(i)
      BY <1>4 DEF Transition, Enqueue
    <2> QED BY <1>1, <1>2, <1>4, <2>1, EnqueueLocalizationEffect
            DEF Transition, StoreTypeOK, artifactVars
  <1>5. CASE n = "ANALYZING"
    <2>1. EnqueueAnalysis(i, contexts[i])
      BY <1>5 DEF Transition, Enqueue
    <2> QED BY <1>1, <1>2, <1>3, <1>5, <2>1, EnqueueAnalysisEffect
            DEF Transition, StoreTypeOK, artifactVars
  <1>6. CASE n \notin {"LOCALIZING", "ANALYZING"}
    <2>1. work' = work /\ pinned' = pinned
      BY <1>6 DEF Transition, Enqueue, queueVars
    <2> QED BY <1>1, <1>2, <1>6, <2>1 DEF Transition, StoreTypeOK, artifactVars
  <1> QED BY <1>4, <1>5, <1>6

(* The transactions that write artifacts only.                             *)
QueuesSame == status' = status /\ work' = work /\ pinned' = pinned

LEMMA ArtifactEffect ==
    ASSUME StoreTypeOK, NEW i \in Incidents, NEW n \in Nat,
           NEW items \in SUBSET (Stages \X Nat), NEW result \in RunStatuses, NEW c \in Nat,
           \/ ReplaceCollectorStatuses(i, n)
           \/ StoreEvidence(i, items)
           \/ StoreAgentRun(i, n, result)
           \/ StoreReport(i, n, c)
           \/ StoreCollection(i, n)
    PROVE  StoreTypeOK' /\ QueuesSame /\ contexts' = contexts
  <1>1. CASE ReplaceCollectorStatuses(i, n)
    BY <1>1 DEF ReplaceCollectorStatuses, StoreTypeOK, queueVars, QueuesSame
  <1>2. CASE StoreEvidence(i, items)
    BY <1>2 DEF StoreEvidence, StoreTypeOK, queueVars, QueuesSame
  <1>3. CASE StoreAgentRun(i, n, result)
    BY <1>3 DEF StoreAgentRun, StoreTypeOK, queueVars, QueuesSame
  <1>4. CASE StoreReport(i, n, c)
    BY <1>4 DEF StoreReport, StoreTypeOK, queueVars, QueuesSame, Report
  <1>5. CASE StoreCollection(i, n)
    BY <1>5 DEF StoreCollection, StoreTypeOK, queueVars, QueuesSame, Stages
  <1> QED BY <1>1, <1>2, <1>3, <1>4, <1>5

LEMMA StoreContextEffect ==
    ASSUME StoreTypeOK, NEW i \in Incidents, NEW n \in Nat, StoreContext(i, n)
    PROVE  /\ StoreTypeOK'
           /\ status' = status
           /\ n \in contexts'[i]
           /\ \A j \in Incidents : contexts[j] \subseteq contexts'[j]
           /\ \A j \in Incidents : j # i => pinned'[j] = pinned[j]
           /\ IF status[i] = "ANALYZING" /\ work["analysis"][i].state = "ABSENT"
              THEN Enqueued("analysis", i)
              ELSE work' = work /\ pinned' = pinned
  <1>1. /\ contexts' \in [Incidents -> SUBSET Nat]
        /\ n \in contexts'[i]
        /\ \A j \in Incidents : contexts[j] \subseteq contexts'[j]
    BY DEF StoreContext, StoreTypeOK
  <1>2. CASE status[i] = "ANALYZING"
    <2>1. EnqueueAnalysis(i, {n})
      BY <1>2 DEF StoreContext
    <2>2. {n} \in SUBSET Nat /\ {n} # {}
      OBVIOUS
    <2> QED BY <1>1, <1>2, <2>1, <2>2, EnqueueAnalysisEffect DEF StoreContext, StoreTypeOK
  <1>3. CASE status[i] # "ANALYZING"
    BY <1>1, <1>3 DEF StoreContext, StoreTypeOK, queueVars
  <1> QED BY <1>2, <1>3

(* The operations of a queue: one row, from a value to a value.            *)
LEMMA ClaimEffect ==
    ASSUME StoreTypeOK, NEW s \in Stages, NEW i \in Incidents, Claim(s, i)
    PROVE  /\ StoreTypeOK' /\ pinned' = pinned /\ contexts' = contexts
           /\ Claimable(s, i)
           /\ status'[i] = ActiveStatus[s]
           /\ \A j \in Incidents : j # i => status'[j] = status[j]
           /\ work'[s][i] = RunningRow(work[s][i])
           /\ OtherRowsSame(s, i)
  <1>1. work' = [work EXCEPT ![s][i] = RunningRow(work[s][i])]
    BY DEF Claim, RunningRow
  <1>2. work[s][i] \in Row /\ RunningRow(work[s][i]) \in Row
    BY RowValues DEF StoreTypeOK
  <1>3. /\ work' \in [Stages -> [Incidents -> Row]]
        /\ work'[s][i] = RunningRow(work[s][i])
        /\ OtherRowsSame(s, i)
    BY <1>1, <1>2, RowUpdate DEF StoreTypeOK, OtherRowsSame
  <1> QED BY <1>3, StageStatuses DEF Claim, StoreTypeOK, artifactVars

LEMMA RenewEffect ==
    ASSUME StoreTypeOK, NEW s \in Stages, NEW i \in Incidents, NEW n, Renew(s, i, n)
    PROVE  /\ StoreTypeOK' /\ status' = status /\ pinned' = pinned /\ contexts' = contexts
           /\ Current(s, i, n)
           /\ work'[s][i] = [work[s][i] EXCEPT !.lease = "live"]
           /\ OtherRowsSame(s, i)
  <1> DEFINE row == [work[s][i] EXCEPT !.lease = "live"]
  <1>1. work' = [work EXCEPT ![s][i] = row]
    BY DEF Renew
  <1>2. work[s][i] \in Row /\ "live" \in Leases
    BY DEF StoreTypeOK, Leases
  <1>3. row \in Row
    BY <1>2, RowValues
  <1> HIDE DEF row
  <1>4. /\ work' \in [Stages -> [Incidents -> Row]]
        /\ work'[s][i] = row
        /\ OtherRowsSame(s, i)
    BY <1>1, <1>3, RowUpdate DEF StoreTypeOK, OtherRowsSame
  <1> QED BY <1>4 DEF row, Renew, StoreTypeOK, artifactVars

LEMMA ExpireEffect ==
    ASSUME StoreTypeOK, NEW s \in Stages, NEW i \in Incidents, Expire(s, i)
    PROVE  /\ StoreTypeOK' /\ status' = status /\ pinned' = pinned /\ contexts' = contexts
           /\ work[s][i].lease = "live"
           /\ work'[s][i] = [work[s][i] EXCEPT !.lease = "expired"]
           /\ OtherRowsSame(s, i)
  <1> DEFINE row == [work[s][i] EXCEPT !.lease = "expired"]
  <1>1. work' = [work EXCEPT ![s][i] = row]
    BY DEF Expire
  <1>2. work[s][i] \in Row /\ "expired" \in Leases
    BY DEF StoreTypeOK, Leases
  <1>3. row \in Row
    BY <1>2, RowValues
  <1> HIDE DEF row
  <1>4. /\ work' \in [Stages -> [Incidents -> Row]]
        /\ work'[s][i] = row
        /\ OtherRowsSame(s, i)
    BY <1>1, <1>3, RowUpdate DEF StoreTypeOK, OtherRowsSame
  <1> QED BY <1>4 DEF row, Expire, StoreTypeOK, artifactVars

LEMMA CompleteEffect ==
    ASSUME StoreTypeOK, NEW s \in Stages, NEW i \in Incidents, NEW n, NEW o \in Settled,
           Complete(s, i, n, o)
    PROVE  /\ StoreTypeOK' /\ status' = status /\ pinned' = pinned /\ contexts' = contexts
           /\ CanComplete(s, i, n)
           /\ work'[s][i] = SettledRow(work[s][i], o)
           /\ OtherRowsSame(s, i)
  <1>1. work' = [work EXCEPT ![s][i] = SettledRow(work[s][i], o)]
    BY DEF Complete
  <1>2. work[s][i] \in Row /\ o \in RowStates
    BY DEF StoreTypeOK, RowStates, Settled
  <1>3. SettledRow(work[s][i], o) \in Row
    BY <1>2, RowValues
  <1>4. /\ work' \in [Stages -> [Incidents -> Row]]
        /\ work'[s][i] = SettledRow(work[s][i], o)
        /\ OtherRowsSame(s, i)
    BY <1>1, <1>3, RowUpdate DEF StoreTypeOK, OtherRowsSame
  <1> QED BY <1>4 DEF Complete, StoreTypeOK, artifactVars

LEMMA FailEffect ==
    ASSUME StoreTypeOK, NEW s \in Stages, NEW i \in Incidents, NEW n, Fail(s, i, n)
    PROVE  /\ StoreTypeOK' /\ pinned' = pinned /\ contexts' = contexts
           /\ CanFail(s, i, n)
           /\ status'[i] = "FAILED"
           /\ \A j \in Incidents : j # i => status'[j] = status[j]
           /\ work'[s][i] = SettledRow(work[s][i], "FAILED")
           /\ OtherRowsSame(s, i)
  <1>1. work' = [work EXCEPT ![s][i] = SettledRow(work[s][i], "FAILED")]
    BY DEF Fail
  <1>2. work[s][i] \in Row /\ "FAILED" \in RowStates
    BY DEF StoreTypeOK, RowStates
  <1>3. SettledRow(work[s][i], "FAILED") \in Row
    BY <1>2, RowValues
  <1>4. /\ work' \in [Stages -> [Incidents -> Row]]
        /\ work'[s][i] = SettledRow(work[s][i], "FAILED")
        /\ OtherRowsSame(s, i)
    BY <1>1, <1>3, RowUpdate DEF StoreTypeOK, OtherRowsSame
  <1> QED BY <1>4 DEF Fail, StoreTypeOK, artifactVars, LC!Statuses

LEMMA ReapEffect ==
    ASSUME StoreTypeOK, NEW s \in Stages, NEW b \in SUBSET Incidents, Reap(s, b)
    PROVE  /\ StoreTypeOK' /\ pinned' = pinned /\ contexts' = contexts
           /\ \A j \in Incidents :
                status'[j] = IF j \in b /\ status[j] = ActiveStatus[s]
                             THEN "FAILED" ELSE status[j]
           /\ \A u \in Stages, j \in Incidents :
                IF u = s /\ j \in b
                THEN \E o \in Settled : work'[u][j] = SettledRow(work[u][j], o)
                ELSE work'[u][j] = work[u][j]
  <1> DEFINE outcome(j) == IF status[j] \in RecoveredIn[s] THEN "SUCCEEDED" ELSE "FAILED"
             row(j) == IF j \in b THEN SettledRow(work[s][j], outcome(j)) ELSE work[s][j]
  <1>1. work' = [work EXCEPT ![s] = [j \in Incidents |-> row(j)]]
    BY DEF Reap
  <1>2. \A j \in Incidents : outcome(j) \in Settled /\ outcome(j) \in RowStates
    BY DEF Settled, RowStates
  <1>3. \A j \in Incidents : work[s][j] \in Row
    BY DEF StoreTypeOK
  <1>4. \A j \in Incidents : row(j) \in Row
    BY <1>2, <1>3, RowValues
  <1>5. [j \in Incidents |-> row(j)] \in [Incidents -> Row]
    BY <1>4
  <1> HIDE DEF row
  <1>6. /\ work' \in [Stages -> [Incidents -> Row]]
        /\ \A j \in Incidents : work'[s][j] = row(j)
        /\ \A u \in Stages \ {s}, j \in Incidents : work'[u][j] = work[u][j]
    BY <1>1, <1>5 DEF StoreTypeOK
  <1>7. \A j \in Incidents :
            IF j \in b THEN row(j) = SettledRow(work[s][j], outcome(j)) ELSE row(j) = work[s][j]
    BY DEF row
  <1>8. /\ status' \in [Incidents -> LC!Statuses]
        /\ \A j \in Incidents :
                status'[j] = IF j \in b /\ status[j] = ActiveStatus[s]
                             THEN "FAILED" ELSE status[j]
    BY DEF Reap, StoreTypeOK, LC!Statuses
  <1> HIDE DEF outcome
  <1>9. \A u \in Stages, j \in Incidents :
                IF u = s /\ j \in b
                THEN \E o \in Settled : work'[u][j] = SettledRow(work[u][j], o)
                ELSE work'[u][j] = work[u][j]
    BY <1>2, <1>6, <1>7
  <1> QED BY <1>6, <1>8, <1>9 DEF Reap, StoreTypeOK, artifactVars

-----------------------------------------------------------------------------
(* StoreInv, one Incident at a time                                        *)

RowInv(s, i) ==
    /\ work[s][i].attempts <= MaxAttempts
    /\ work[s][i].state \in {"ABSENT", "READY"} <=> work[s][i].attempts = 0
    /\ work[s][i].state = "RUNNING" <=> work[s][i].lease # "none"
    /\ status[i] \in {ReadyStatus[s], ActiveStatus[s]} => work[s][i].state \in InWork
    /\ work[s][i].state = "READY" => status[i] = ReadyStatus[s]

IncidentInv(i) ==
    /\ \A s \in Stages : RowInv(s, i)
    /\ status[i] = "NEW" => work["collection"][i].state = "ABSENT"
    /\ status[i] \in {"NEW", "RECEIVED", "COLLECTING"} =>
            work["localization"][i].state = "ABSENT"
    /\ status[i] \in {"NEW", "RECEIVED", "COLLECTING", "LOCALIZING"} =>
            work["analysis"][i].state = "ABSENT"
    /\ pinned[i] # 0 => work["analysis"][i].state # "ABSENT"

LEMMA StoreInvByIncident ==
    StoreInv <=> \A i \in Incidents : IncidentInv(i)
  BY DEF StoreInv, AttemptsAreBounded, QueuesFollowStatus, NoStrandedIncident,
         ReadyWorkIsClaimable, Claimable, IncidentInv, RowInv

LEMMA StoreInvByIncidentNext ==
    StoreInv' <=> \A i \in Incidents : IncidentInv(i)'
  BY DEF StoreInv, AttemptsAreBounded, QueuesFollowStatus, NoStrandedIncident,
         ReadyWorkIsClaimable, Claimable, LeaseExpired, IncidentInv, RowInv

LEMMA StatusTable ==
    /\ Stages = {"collection", "localization", "analysis"}
    /\ ReadyStatus["collection"] = "RECEIVED" /\ ActiveStatus["collection"] = "COLLECTING"
    /\ ReadyStatus["localization"] = "LOCALIZING" /\ ActiveStatus["localization"] = "LOCALIZING"
    /\ ReadyStatus["analysis"] = "ANALYZING" /\ ActiveStatus["analysis"] = "ANALYZING"
  BY DEF Stages, ReadyStatus, ActiveStatus

Untouched(j) ==
    /\ status'[j] = status[j] /\ pinned'[j] = pinned[j]
    /\ \A s \in Stages : work'[s][j] = work[s][j]

LEMMA UntouchedInv ==
    ASSUME NEW j \in Incidents, IncidentInv(j), Untouched(j)
    PROVE  IncidentInv(j)'
  BY DEF IncidentInv, RowInv, Untouched, Stages

LEMMA InitInv == StoreInit => StoreTypeOK /\ StoreInv
  <1> SUFFICES ASSUME StoreInit PROVE StoreTypeOK /\ StoreInv
    OBVIOUS
  <1>1. StoreTypeOK
    BY RowValues DEF StoreInit, StoreTypeOK, LC!Statuses, RunStatuses
  <1>2. \A s \in Stages, i \in Incidents :
            /\ work[s][i].state = "ABSENT" /\ work[s][i].attempts = 0
            /\ work[s][i].lease = "none"
    BY DEF StoreInit, AbsentRow
  <1>3. \A i \in Incidents : IncidentInv(i)
    BY <1>2, StatusTable, MaxAttemptsAssumption DEF StoreInit, IncidentInv, RowInv
  <1> QED BY <1>1, <1>3, StoreInvByIncident

LEMMA StutterInv ==
    ASSUME StoreInv, QueuesSame
    PROVE  StoreInv'
  <1>1. \A j \in Incidents : IncidentInv(j) /\ Untouched(j)
    BY StoreInvByIncident DEF QueuesSame, Untouched
  <1> QED BY <1>1, UntouchedInv, StoreInvByIncidentNext

LEMMA ReceiveInv ==
    ASSUME StoreTypeOK, StoreInv, NEW i \in Incidents, Receive(i)
    PROVE  StoreInv'
  <1>1. \A j \in Incidents : IncidentInv(j)
    BY StoreInvByIncident
  <1>2. ASSUME NEW j \in Incidents, j # i PROVE IncidentInv(j)'
    <2>1. Untouched(j)
      BY <1>2, ReceiveEffect DEF Receive, Untouched, OtherRowsSame, StoreTypeOK
    <2> QED BY <1>1, <2>1, UntouchedInv
  <1>3. /\ status'[i] = "RECEIVED" /\ pinned'[i] = pinned[i]
        /\ work'["collection"][i] = ReadyRow
        /\ work'["localization"][i] = work["localization"][i]
        /\ work'["analysis"][i] = work["analysis"][i]
    BY ReceiveEffect DEF Receive, OtherRowsSame, StoreTypeOK, Stages
  <1>4. status[i] = "NEW" /\ IncidentInv(i)
    BY <1>1 DEF Receive
  <1>5. IncidentInv(i)'
    BY <1>3, <1>4, StatusTable, MaxAttemptsAssumption
    DEF IncidentInv, RowInv, ReadyRow, InWork
  <1> QED BY <1>2, <1>5, StoreInvByIncidentNext

LEMMA OneIncidentInv ==
    ASSUME StoreInv, NEW i \in Incidents,
           \A j \in Incidents : j # i => Untouched(j),
           IncidentInv(i)'
    PROVE  StoreInv'
  BY UntouchedInv, StoreInvByIncident, StoreInvByIncidentNext

(* Enqueueing a stage whose row is absent.                                 *)
LEMMA EnqueuedRows ==
    ASSUME NEW s \in Stages, NEW i \in Incidents, Enqueued(s, i)
    PROVE  /\ work'[s][i] = ReadyRow
           /\ \A u \in Stages : u # s => work'[u][i] = work[u][i]
           /\ \A u \in Stages, j \in Incidents : j # i => work'[u][j] = work[u][j]
  BY DEF Enqueued, OtherRowsSame

(* A transition leaves no READY row behind as long as it is made on behalf *)
(* of a claim, and reaches ANALYZING only with a Context to enqueue.       *)
LEMMA TransitionInv ==
    ASSUME StoreTypeOK, StoreInv, NEW i \in Incidents, NEW s \in Stages, NEW n,
           Transition(i, ActiveStatus[s], n),
           work[s][i].state # "READY",
           n = "ANALYZING" => contexts[i] # {}
    PROVE  StoreInv'
  <1> DEFINE e == ActiveStatus[s]
  <1>0. e \in LC!Statuses
    BY StageStatuses
  <1> HIDE DEF e
  <1>1. Transition(i, e, n)
    BY DEF e
  <1>2. IncidentInv(i)
    BY StoreInvByIncident
  <1>3. /\ n \in LC!AllowedTransitions[e] /\ status[i] = e /\ status'[i] = n
        /\ \A j \in Incidents : j # i => status'[j] = status[j] /\ pinned'[j] = pinned[j]
    BY <1>0, <1>1, TransitionEffect
  <1>4. /\ e \in {"COLLECTING", "LOCALIZING", "ANALYZING"}
        /\ n \in {"LOCALIZING", "ANALYZING", "REPORTED", "PARTIAL", "FAILED"}
        /\ n = "LOCALIZING" => e = "COLLECTING"
        /\ n = "ANALYZING" => e = "LOCALIZING"
    BY <1>3, StatusTable DEF e, LC!AllowedTransitions, LC!Statuses
  <1>5. CASE n = "LOCALIZING"
    <2>1. work["localization"][i].state = "ABSENT"
      BY <1>2, <1>3, <1>4, <1>5 DEF IncidentInv
    <2>2. Enqueued("localization", i) /\ pinned' = pinned
      BY <1>0, <1>1, <1>5, <2>1, TransitionEffect
    <2>3. \A j \in Incidents : j # i => Untouched(j)
      BY <1>3, <2>2, EnqueuedRows, StatusTable DEF Untouched
    <2>4. IncidentInv(i)'
      BY <1>2, <1>3, <1>4, <1>5, <2>2, EnqueuedRows, StatusTable, MaxAttemptsAssumption
      DEF IncidentInv, RowInv, ReadyRow, InWork
    <2> QED BY <2>3, <2>4, OneIncidentInv
  <1>6. CASE n = "ANALYZING"
    <2>1. work["analysis"][i].state = "ABSENT"
      BY <1>2, <1>3, <1>4, <1>6 DEF IncidentInv
    <2>2. Enqueued("analysis", i)
      BY <1>0, <1>1, <1>6, <2>1, TransitionEffect
    <2>3. \A j \in Incidents : j # i => Untouched(j)
      BY <1>3, <2>2, EnqueuedRows, StatusTable DEF Untouched
    <2>4. s = "localization"
      BY <1>4, <1>6, StatusTable DEF e
    <2>5. IncidentInv(i)'
      BY <1>2, <1>3, <1>4, <1>6, <2>2, <2>4, EnqueuedRows, StatusTable, MaxAttemptsAssumption
      DEF IncidentInv, RowInv, ReadyRow, InWork
    <2> QED BY <2>3, <2>5, OneIncidentInv
  <1>7. CASE n \in {"REPORTED", "PARTIAL", "FAILED"}
    <2>1. work' = work /\ pinned' = pinned
      BY <1>0, <1>1, <1>7, TransitionEffect
    <2>2. \A j \in Incidents : j # i => Untouched(j)
      BY <1>3, <2>1 DEF Untouched
    <2>3. \A u \in Stages : work[u][i].state # "READY"
      BY <1>2, <1>3, <1>4, StatusTable DEF IncidentInv, RowInv, e
    <2>4. IncidentInv(i)'
      BY <1>2, <1>3, <1>4, <1>7, <2>1, <2>3, StatusTable DEF IncidentInv, RowInv
    <2> QED BY <2>2, <2>4, OneIncidentInv
  <1> QED BY <1>4, <1>5, <1>6, <1>7

LEMMA StoreContextInv ==
    ASSUME StoreTypeOK, StoreInv, NEW i \in Incidents, NEW n \in Nat, StoreContext(i, n)
    PROVE  StoreInv'
  <1>1. CASE status[i] = "ANALYZING" /\ work["analysis"][i].state = "ABSENT"
    <2>1. IncidentInv(i)
      BY StoreInvByIncident
    \* NoStrandedIncident excludes it: an ANALYZING Incident has its row.
    <2> QED BY <1>1, <2>1, StatusTable DEF IncidentInv, RowInv, InWork
  <1>2. CASE ~(status[i] = "ANALYZING" /\ work["analysis"][i].state = "ABSENT")
    BY <1>2, StoreContextEffect, StutterInv DEF QueuesSame
  <1> QED BY <1>1, <1>2

LEMMA ClaimInv ==
    ASSUME StoreTypeOK, StoreInv, NEW s \in Stages, NEW i \in Incidents, Claim(s, i)
    PROVE  StoreInv'
  <1>1. IncidentInv(i)
    BY StoreInvByIncident
  <1>2. \A j \in Incidents : j # i => Untouched(j)
    BY ClaimEffect DEF Untouched, OtherRowsSame
  <1>3. /\ work'[s][i] = RunningRow(work[s][i])
        /\ \A u \in Stages : u # s => work'[u][i] = work[u][i]
        /\ status'[i] = ActiveStatus[s] /\ pinned'[i] = pinned[i]
    BY ClaimEffect DEF OtherRowsSame
  <1>4. /\ status[i] \in {ReadyStatus[s], ActiveStatus[s]}
        /\ work[s][i].attempts \in Nat
        /\ work[s][i].attempts + 1 <= MaxAttempts
        /\ work[s][i].state # "ABSENT"
    <2>1. work[s][i].attempts \in Nat
      BY RowFields DEF StoreTypeOK
    <2>2. CASE work[s][i].state = "READY" /\ status[i] = ReadyStatus[s]
      BY <1>1, <2>1, <2>2, MaxAttemptsAssumption DEF IncidentInv, RowInv
    <2>3. CASE ~(work[s][i].state = "READY" /\ status[i] = ReadyStatus[s])
      BY <2>1, <2>3, ClaimEffect, MaxAttemptsAssumption DEF Claimable
    <2> QED BY <2>2, <2>3
  <1>5. /\ work'[s][i].state = "RUNNING"
        /\ work'[s][i].attempts \in 1..MaxAttempts
        /\ work'[s][i].lease = "live"
    BY <1>3, <1>4, MaxAttemptsAssumption DEF RunningRow
  <1>6. \A u \in Stages : RowInv(u, i)'
    <2>1. RowInv(s, i)'
      BY <1>3, <1>5, StatusTable DEF RowInv, InWork
    <2>2. ASSUME NEW u \in Stages, u # s PROVE RowInv(u, i)'
      BY <1>1, <1>3, <1>4, <2>2, StatusTable DEF IncidentInv, RowInv, InWork
    <2> QED BY <2>1, <2>2
  <1>7. IncidentInv(i)'
    BY <1>1, <1>3, <1>4, <1>5, <1>6, StatusTable DEF IncidentInv
  <1> QED BY <1>2, <1>7, OneIncidentInv

LEMMA LeaseInv ==
    ASSUME StoreTypeOK, StoreInv, NEW s \in Stages, NEW i \in Incidents, NEW n,
           Renew(s, i, n) \/ Expire(s, i)
    PROVE  StoreInv'
  <1>1. IncidentInv(i) /\ work[s][i] \in Row
    BY StoreInvByIncident DEF StoreTypeOK
  <1>2. /\ status' = status /\ pinned' = pinned /\ OtherRowsSame(s, i)
        /\ work[s][i].state = "RUNNING"
        /\ \E l \in {"live", "expired"} : work'[s][i] = [work[s][i] EXCEPT !.lease = l]
    <2>1. CASE Renew(s, i, n)
      <3>1. work'[s][i] = [work[s][i] EXCEPT !.lease = "live"]
        BY <2>1, RenewEffect
      <3> QED BY <2>1, <3>1, RenewEffect DEF Current
    <2>2. CASE Expire(s, i)
      <3>1. work'[s][i] = [work[s][i] EXCEPT !.lease = "expired"]
        BY <2>2, ExpireEffect
      <3>2. work[s][i].state = "RUNNING"
        BY <1>1, <2>2, ExpireEffect DEF IncidentInv, RowInv
      <3> QED BY <2>2, <3>1, <3>2, ExpireEffect
    <2> QED BY <2>1, <2>2
  <1>3. /\ work'[s][i].state = "RUNNING"
        /\ work'[s][i].attempts = work[s][i].attempts
        /\ work'[s][i].lease # "none"
    BY <1>1, <1>2, RowValues DEF Leases
  <1>4. \A j \in Incidents : j # i => Untouched(j)
    BY <1>2 DEF Untouched, OtherRowsSame
  <1>5. \A u \in Stages : u # s => work'[u][i] = work[u][i]
    BY <1>2 DEF OtherRowsSame
  <1>6. RowInv(s, i)'
    BY <1>1, <1>2, <1>3 DEF IncidentInv, RowInv
  <1>7. ASSUME NEW u \in Stages, u # s PROVE RowInv(u, i)'
    BY <1>1, <1>2, <1>5, <1>7 DEF IncidentInv, RowInv
  <1>8. IncidentInv(i)'
    BY <1>1, <1>2, <1>3, <1>5, <1>6, <1>7, StatusTable DEF IncidentInv
  <1> QED BY <1>4, <1>8, OneIncidentInv

(* Settling a RUNNING row of an Incident that is not, or no longer, in the *)
(* stage of the row.                                                       *)
LEMMA SettleInv ==
    ASSUME StoreTypeOK, NEW s \in Stages, NEW i \in Incidents, NEW o \in Settled,
           IncidentInv(i),
           work[s][i].state = "RUNNING",
           work'[s][i] = SettledRow(work[s][i], o),
           \A u \in Stages : u # s => work'[u][i] = work[u][i],
           pinned'[i] = pinned[i],
           \/ status'[i] = status[i] /\ status[i] \notin {ReadyStatus[s], ActiveStatus[s]}
           \/ status'[i] = "FAILED" /\ status[i] = ActiveStatus[s]
    PROVE  IncidentInv(i)'
  <1>1. work[s][i] \in Row /\ o \in RowStates
    BY DEF StoreTypeOK, Settled, RowStates
  <1>2. /\ work'[s][i].state \in {"SUCCEEDED", "FAILED"}
        /\ work'[s][i].attempts = work[s][i].attempts
        /\ work'[s][i].lease = "none"
    BY <1>1, RowValues DEF Settled
  <1>3. RowInv(s, i)'
    BY <1>2, StatusTable DEF IncidentInv, RowInv
  <1>4. ASSUME NEW u \in Stages, u # s PROVE RowInv(u, i)'
    BY <1>4, StatusTable DEF IncidentInv, RowInv
  <1> QED BY <1>2, <1>3, <1>4, StatusTable DEF IncidentInv

LEMMA CompleteInv ==
    ASSUME StoreTypeOK, StoreInv, NEW s \in Stages, NEW i \in Incidents, NEW n,
           NEW o \in Settled, Complete(s, i, n, o)
    PROVE  StoreInv'
  <1>1. IncidentInv(i)
    BY StoreInvByIncident
  <1>2. /\ status' = status /\ pinned' = pinned
        /\ work'[s][i] = SettledRow(work[s][i], o)
        /\ OtherRowsSame(s, i)
        /\ CanComplete(s, i, n)
    BY CompleteEffect
  <1>3. status[i] \notin {ReadyStatus[s], ActiveStatus[s]} /\ work[s][i].state = "RUNNING"
    BY <1>2, StatusTable DEF CanComplete, CompletesIn, Current
  <1>4. \A j \in Incidents : j # i => Untouched(j)
    BY <1>2 DEF Untouched, OtherRowsSame
  <1>5. \A u \in Stages : u # s => work'[u][i] = work[u][i]
    BY <1>2 DEF OtherRowsSame
  <1>6. IncidentInv(i)'
    BY <1>1, <1>2, <1>3, <1>5, SettleInv
  <1> QED BY <1>4, <1>6, OneIncidentInv

LEMMA FailInv ==
    ASSUME StoreTypeOK, StoreInv, NEW s \in Stages, NEW i \in Incidents, NEW n, Fail(s, i, n)
    PROVE  StoreInv'
  <1>1. IncidentInv(i)
    BY StoreInvByIncident
  <1>2. /\ status'[i] = "FAILED" /\ pinned' = pinned
        /\ \A j \in Incidents : j # i => status'[j] = status[j]
        /\ work'[s][i] = SettledRow(work[s][i], "FAILED")
        /\ OtherRowsSame(s, i)
        /\ CanFail(s, i, n)
    BY FailEffect
  <1>3. /\ status[i] \in {ActiveStatus[s], "FAILED"} /\ work[s][i].state = "RUNNING"
        /\ "FAILED" \notin {ReadyStatus[s], ActiveStatus[s]}
        /\ "FAILED" \in Settled
    BY <1>2, StatusTable DEF CanFail, Current, Settled
  <1>4. \A j \in Incidents : j # i => Untouched(j)
    BY <1>2 DEF Untouched, OtherRowsSame
  <1>5. \A u \in Stages : u # s => work'[u][i] = work[u][i]
    BY <1>2 DEF OtherRowsSame
  <1>6. IncidentInv(i)'
    BY <1>1, <1>2, <1>3, <1>5, SettleInv
  <1> QED BY <1>4, <1>6, OneIncidentInv

LEMMA ReapInv ==
    ASSUME StoreTypeOK, StoreInv, NEW s \in Stages, NEW b \in SUBSET Incidents,
           \A j \in b : Reapable(s, j), Reap(s, b)
    PROVE  StoreInv'
  <1>1. ASSUME NEW j \in Incidents, j \notin b PROVE IncidentInv(j)'
    <2>1. Untouched(j)
      BY <1>1, ReapEffect DEF Untouched
    <2> QED BY <2>1, UntouchedInv, StoreInvByIncident
  <1>2. ASSUME NEW j \in b PROVE IncidentInv(j)'
    <2>1. IncidentInv(j) /\ pinned'[j] = pinned[j]
      BY StoreInvByIncident, ReapEffect
    <2>2. PICK o \in Settled : work'[s][j] = SettledRow(work[s][j], o)
      BY ReapEffect
    <2>3. \A u \in Stages : u # s => work'[u][j] = work[u][j]
      BY ReapEffect
    <2>4. /\ work[s][j].state = "RUNNING"
          /\ status[j] \in RecoveredIn[s] \cup {"FAILED", ActiveStatus[s]}
      BY DEF Reapable
    <2>5. \/ status'[j] = status[j] /\ status[j] \notin {ReadyStatus[s], ActiveStatus[s]}
          \/ status'[j] = "FAILED" /\ status[j] = ActiveStatus[s]
      <3>1. status'[j] = IF status[j] = ActiveStatus[s] THEN "FAILED" ELSE status[j]
        BY ReapEffect
      <3> QED BY <2>4, <3>1, StatusTable DEF RecoveredIn
    <2> QED BY <2>1, <2>2, <2>3, <2>4, <2>5, SettleInv
  <1> QED BY <1>1, <1>2, StoreInvByIncidentNext

-----------------------------------------------------------------------------
(* What no transaction ever undoes                                         *)

RowKept(s, i) ==
    /\ work[s][i].attempts <= work'[s][i].attempts
    /\ work[s][i].state \in Settled => work'[s][i] = work[s][i]

NothingUndone ==
    /\ \A s \in Stages, i \in Incidents : RowKept(s, i)
    /\ \A i \in Incidents : pinned[i] # 0 => pinned'[i] = pinned[i]
    /\ \A i \in Incidents : contexts[i] \subseteq contexts'[i]

StepOK == StoreTypeOK' /\ StoreInv' /\ NothingUndone

LEMMA SameRowKept ==
    ASSUME StoreTypeOK, NEW s \in Stages, NEW i \in Incidents, work'[s][i] = work[s][i]
    PROVE  RowKept(s, i)
  <1>1. work[s][i].attempts \in Nat
    BY RowFields DEF StoreTypeOK
  <1> QED BY <1>1 DEF RowKept

LEMMA OneRowKept ==
    ASSUME StoreTypeOK, NEW s \in Stages, NEW i \in Incidents, RowKept(s, i),
           OtherRowsSame(s, i), pinned' = pinned, contexts' = contexts
    PROVE  NothingUndone
  BY SameRowKept DEF NothingUndone, OtherRowsSame

(* The row a claim is renewed, expired or settled in is RUNNING.           *)
LEMMA RunningRowKept ==
    ASSUME NEW s \in Stages, NEW i \in Incidents, StoreTypeOK,
           work[s][i].state = "RUNNING",
           work'[s][i].attempts = work[s][i].attempts
    PROVE  RowKept(s, i)
  <1>1. work[s][i].attempts \in Nat
    BY RowFields DEF StoreTypeOK
  <1> QED BY <1>1 DEF RowKept, Settled

LEMMA StutterOK ==
    ASSUME StoreTypeOK, StoreInv, UNCHANGED storeVars
    PROVE  StepOK
  <1>1. StoreTypeOK' /\ StoreInv'
    BY StutterInv DEF storeVars, artifactVars, queueVars, QueuesSame, StoreTypeOK
  <1>2. NothingUndone
    BY SameRowKept DEF NothingUndone, storeVars, artifactVars, queueVars
  <1> QED BY <1>1, <1>2 DEF StepOK

LEMMA ReceiveOK ==
    ASSUME StoreTypeOK, StoreInv, NEW i \in Incidents, Receive(i)
    PROVE  StepOK
  <1>1. work["collection"][i].state = "ABSENT" /\ work["collection"][i].attempts = 0
    BY StoreInvByIncident, StatusTable DEF IncidentInv, RowInv, Receive
  <1>2. RowKept("collection", i)
    BY <1>1, ReceiveEffect DEF RowKept, ReadyRow, Settled
  <1>3. NothingUndone
    BY <1>2, ReceiveEffect, OneRowKept, StatusTable DEF Receive, artifactVars
  <1> QED BY <1>3, ReceiveEffect, ReceiveInv DEF StepOK

LEMMA EnqueuedRowKept ==
    ASSUME StoreTypeOK, StoreInv, NEW s \in Stages, NEW i \in Incidents, Enqueued(s, i)
    PROVE  \A u \in Stages, j \in Incidents : RowKept(u, j)
  <1>1. RowKept(s, i)
    BY StoreInvByIncident DEF IncidentInv, RowInv, Enqueued, RowKept, ReadyRow, Settled
  <1> QED BY <1>1, SameRowKept DEF Enqueued, OtherRowsSame

LEMMA TransitionOK ==
    ASSUME StoreTypeOK, StoreInv, NEW i \in Incidents, NEW s \in Stages, NEW n,
           Transition(i, ActiveStatus[s], n),
           work[s][i].state # "READY",
           n = "ANALYZING" => contexts[i] # {}
    PROVE  StepOK
  <1> DEFINE e == ActiveStatus[s]
  <1>0. e \in LC!Statuses
    BY StageStatuses
  <1> HIDE DEF e
  <1>1. Transition(i, e, n)
    BY DEF e
  <1>2. contexts' = contexts
    BY <1>1 DEF Transition, artifactVars
  <1>3. work' = work \/ Enqueued("localization", i) \/ Enqueued("analysis", i)
    BY <1>0, <1>1, TransitionEffect
  <1>4. \A u \in Stages, j \in Incidents : RowKept(u, j)
    BY <1>3, SameRowKept, EnqueuedRowKept, StatusTable
  <1>5. ASSUME NEW j \in Incidents, pinned[j] # 0 PROVE pinned'[j] = pinned[j]
    <2>1. CASE j # i
      BY <1>0, <1>1, <2>1, TransitionEffect
    <2>2. CASE j = i
      <3>1. work["analysis"][i].state # "ABSENT"
        BY <1>5, <2>2, StoreInvByIncident DEF IncidentInv
      <3> QED BY <1>0, <1>1, <2>2, <3>1, TransitionEffect
    <2> QED BY <2>1, <2>2
  <1>6. NothingUndone
    BY <1>2, <1>4, <1>5 DEF NothingUndone
  <1> QED BY <1>0, <1>1, <1>6, TransitionEffect, TransitionInv DEF StepOK

LEMMA ArtifactOK ==
    ASSUME StoreTypeOK, StoreInv, NEW i \in Incidents, NEW n \in Nat,
           NEW items \in SUBSET (Stages \X Nat), NEW result \in RunStatuses, NEW c \in Nat,
           \/ ReplaceCollectorStatuses(i, n)
           \/ StoreEvidence(i, items)
           \/ StoreAgentRun(i, n, result)
           \/ StoreReport(i, n, c)
           \/ StoreCollection(i, n)
    PROVE  StepOK
  <1>1. StoreTypeOK' /\ QueuesSame /\ contexts' = contexts
    BY ArtifactEffect
  <1>2. NothingUndone
    BY <1>1, SameRowKept DEF NothingUndone, QueuesSame
  <1> QED BY <1>1, <1>2, StutterInv DEF StepOK

LEMMA StoreContextOK ==
    ASSUME StoreTypeOK, StoreInv, NEW i \in Incidents, NEW n \in Nat, StoreContext(i, n)
    PROVE  StepOK /\ n \in contexts'[i]
  <1>1. IncidentInv(i)
    BY StoreInvByIncident
  <1>2. work' = work /\ pinned' = pinned
    BY <1>1, StoreContextEffect, StatusTable DEF IncidentInv, RowInv, InWork
  <1>3. NothingUndone
    BY <1>2, SameRowKept, StoreContextEffect DEF NothingUndone
  <1> QED BY <1>3, StoreContextEffect, StoreContextInv DEF StepOK

LEMMA ClaimOK ==
    ASSUME StoreTypeOK, StoreInv, NEW s \in Stages, NEW i \in Incidents, Claim(s, i)
    PROVE  /\ StepOK
           /\ work[s][i].attempts \in Nat
           /\ work'[s][i].attempts = work[s][i].attempts + 1
  <1>1. work[s][i].attempts \in Nat
    BY RowFields DEF StoreTypeOK
  <1>2. work'[s][i].attempts = work[s][i].attempts + 1
    <2>1. work'[s][i] = RunningRow(work[s][i])
      BY ClaimEffect
    <2> QED BY <2>1 DEF RunningRow
  <1>3. RowKept(s, i)
    BY <1>1, <1>2, ClaimEffect DEF RowKept, Claimable, Settled
  <1>4. NothingUndone
    BY <1>3, ClaimEffect, OneRowKept
  <1> QED BY <1>1, <1>2, <1>4, ClaimEffect, ClaimInv DEF StepOK

LEMMA LeaseOK ==
    ASSUME StoreTypeOK, StoreInv, NEW s \in Stages, NEW i \in Incidents, NEW n,
           Renew(s, i, n) \/ Expire(s, i)
    PROVE  StepOK
  <1>1. work[s][i] \in Row
    BY DEF StoreTypeOK
  <1>2. CASE Renew(s, i, n)
    <2>1. work'[s][i] = [work[s][i] EXCEPT !.lease = "live"] /\ Current(s, i, n)
      BY <1>2, RenewEffect
    <2>2. work[s][i].state = "RUNNING" /\ work'[s][i].attempts = work[s][i].attempts
      BY <1>1, <2>1, RowValues DEF Current, Leases
    <2> QED BY <1>2, <2>2, RenewEffect, RunningRowKept, OneRowKept, LeaseInv DEF StepOK
  <1>3. CASE Expire(s, i)
    <2>0. work'[s][i] = [work[s][i] EXCEPT !.lease = "expired"]
      BY <1>3, ExpireEffect
    <2>1. work'[s][i].attempts = work[s][i].attempts
      BY <1>1, <2>0, RowValues DEF Leases
    <2>2. work[s][i].state = "RUNNING"
      BY <1>3, ExpireEffect, StoreInvByIncident DEF IncidentInv, RowInv
    <2> QED BY <1>3, <2>1, <2>2, ExpireEffect, RunningRowKept, OneRowKept, LeaseInv DEF StepOK
  <1> QED BY <1>2, <1>3

LEMMA CompleteOK ==
    ASSUME StoreTypeOK, StoreInv, NEW s \in Stages, NEW i \in Incidents, NEW n,
           NEW o \in Settled, Complete(s, i, n, o)
    PROVE  StepOK
  <1>1. work[s][i] \in Row /\ o \in RowStates
    BY DEF StoreTypeOK, Settled, RowStates
  <1>2. work[s][i].state = "RUNNING" /\ work'[s][i].attempts = work[s][i].attempts
    BY <1>1, CompleteEffect, RowValues DEF CanComplete, Current
  <1> QED BY <1>2, CompleteEffect, RunningRowKept, OneRowKept, CompleteInv DEF StepOK

LEMMA FailOK ==
    ASSUME StoreTypeOK, StoreInv, NEW s \in Stages, NEW i \in Incidents, NEW n, Fail(s, i, n)
    PROVE  StepOK
  <1>1. work[s][i] \in Row /\ "FAILED" \in RowStates
    BY DEF StoreTypeOK, RowStates
  <1>2. work[s][i].state = "RUNNING" /\ work'[s][i].attempts = work[s][i].attempts
    BY <1>1, FailEffect, RowValues DEF CanFail, Current
  <1> QED BY <1>2, FailEffect, RunningRowKept, OneRowKept, FailInv DEF StepOK

LEMMA ReapOK ==
    ASSUME StoreTypeOK, StoreInv, NEW s \in Stages, NEW b \in SUBSET Incidents,
           \A j \in b : Reapable(s, j), Reap(s, b)
    PROVE  StepOK
  <1>1. ASSUME NEW u \in Stages, NEW j \in Incidents PROVE RowKept(u, j)
    <2>1. CASE u = s /\ j \in b
      <3>1. PICK o \in Settled : work'[u][j] = SettledRow(work[u][j], o)
        BY <2>1, ReapEffect
      <3>2. work[u][j] \in Row /\ o \in RowStates
        BY DEF StoreTypeOK, Settled, RowStates
      <3>3. work[u][j].state = "RUNNING" /\ work'[u][j].attempts = work[u][j].attempts
        BY <2>1, <3>1, <3>2, RowValues DEF Reapable
      <3> QED BY <3>3, RunningRowKept
    <2>2. CASE ~(u = s /\ j \in b)
      <3>1. work'[u][j] = work[u][j]
        BY <2>2, ReapEffect
      <3> QED BY <3>1, SameRowKept
    <2> QED BY <2>1, <2>2
  <1>2. NothingUndone
    BY <1>1, ReapEffect DEF NothingUndone
  <1> QED BY <1>2, ReapEffect, ReapInv DEF StepOK


-----------------------------------------------------------------------------
(* Moves of an incident worker                                             *)

HeldSteps == CollectionSteps \cup LocalizationSteps

LEMMA StepSets ==
    /\ CollectionSteps \cap LocalizationSteps = {}
    /\ LoopSteps \cap HeldSteps = {}
    /\ \A pc \in CollectionSteps : StageOf(pc) = "collection"
    /\ \A pc \in LocalizationSteps : StageOf(pc) = "localization"
    /\ \A pc : StageOf(pc) \in Stages
  BY DEF CollectionSteps, LocalizationSteps, LoopSteps, HeldSteps, StageOf, Stages

LEMMA WorkerFields ==
    ASSUME TypeOK, NEW w \in IncidentWorkers
    PROVE  /\ iw[w] \in IncidentWorkerState
           /\ HoldsIncident(w) =>
                /\ iw[w].incident \in Incidents
                /\ iw[w].claim \in Nat \ {0}
                /\ iw[w].run \in {"none", "SUCCEEDED", "PARTIAL", "FAILED"}
           /\ ~HoldsIncident(w) =>
                /\ iw[w].pc \in LoopSteps
                /\ iw[w].incident = NoIncident /\ iw[w].claim = 0 /\ iw[w].run = "none"
  BY StepSets DEF TypeOK, IncidentWorkerState, HoldsIncident, HeldSteps

(* A worker ends a step without a claim, or with the claim it had, or with *)
(* one the queue has just issued; and it is about to leave LOCALIZING only *)
(* with a Context stored.                                                  *)
WorkerMove(w) ==
    /\ iw' \in [IncidentWorkers -> IncidentWorkerState]
    /\ \A v \in IncidentWorkers : v # w => iw'[v] = iw[v]
    /\ \/ iw'[w].pc \notin HeldSteps
       \/ /\ HoldsIncident(w)
          /\ iw'[w].incident = iw[w].incident /\ iw'[w].claim = iw[w].claim
          /\ StageOf(iw'[w].pc) = StageOf(iw[w].pc)
       \/ \E s \in Stages, i \in Incidents :
            /\ StageOf(iw'[w].pc) = s /\ iw'[w].incident = i
            /\ work[s][i].attempts < iw'[w].claim
            /\ iw'[w].claim <= work'[s][i].attempts
    /\ iw'[w].pc = "leave_localizing" => iw'[w].claim \in contexts'[iw'[w].incident]

LEMMA RestartMove ==
    ASSUME TypeOK, NEW w \in IncidentWorkers, Restart(w)
    PROVE  WorkerMove(w)
  <1> DEFINE idle == [pc |-> "reap_collection", incident |-> NoIncident,
                      claim |-> 0, run |-> "none"]
  <1>1. idle \in IncidentWorkerState /\ idle.pc = "reap_collection"
    BY DEF IncidentWorkerState, LoopSteps
  <1>2. iw' = [iw EXCEPT ![w] = idle]
    BY DEF Restart
  <1> HIDE DEF idle
  <1>3. /\ iw' \in [IncidentWorkers -> IncidentWorkerState] /\ iw'[w] = idle
        /\ \A v \in IncidentWorkers : v # w => iw'[v] = iw[v]
    BY <1>1, <1>2 DEF TypeOK
  <1>4. "reap_collection" \notin HeldSteps
    BY DEF HeldSteps, CollectionSteps, LocalizationSteps
  <1> QED BY <1>1, <1>3, <1>4 DEF WorkerMove

LEMMA LoopMove ==
    ASSUME TypeOK, NEW w \in IncidentWorkers, ~HoldsIncident(w),
           NEW step \in LoopSteps, Goto(w, step)
    PROVE  WorkerMove(w)
  <1> DEFINE next == [iw[w] EXCEPT !.pc = step]
  <1>1. next \in IncidentWorkerState /\ next.pc = step
    <2>1. iw[w] \in [pc : LoopSteps, incident : {NoIncident}, claim : {0}, run : {"none"}]
      BY WorkerFields, StepSets DEF IncidentWorkerState, HoldsIncident, HeldSteps
    <2> QED BY <2>1 DEF IncidentWorkerState
  <1>2. iw' = [iw EXCEPT ![w] = next]
    BY DEF Goto
  <1> HIDE DEF next
  <1>3. /\ iw' \in [IncidentWorkers -> IncidentWorkerState] /\ iw'[w] = next
        /\ \A v \in IncidentWorkers : v # w => iw'[v] = iw[v]
    BY <1>1, <1>2 DEF TypeOK
  <1>4. step \notin HeldSteps /\ step # "leave_localizing"
    BY StepSets DEF HeldSteps, LoopSteps
  <1> QED BY <1>1, <1>3, <1>4 DEF WorkerMove

(* Inside a stage; the pc, and for Collect the run, change.                *)
LEMMA HeldMove ==
    ASSUME TypeOK, NEW w \in IncidentWorkers, HoldsIncident(w),
           NEW step \in HeldSteps, StageOf(step) = StageOf(iw[w].pc),
           step = "leave_localizing" => iw[w].claim \in contexts'[iw[w].incident],
           NEW run \in {"none", "SUCCEEDED", "PARTIAL", "FAILED"},
           \/ Goto(w, step)
           \/ iw' = [iw EXCEPT ![w].pc = step, ![w].run = run]
    PROVE  WorkerMove(w)
  <1>1. PICK next \in IncidentWorkerState :
            /\ next.pc = step /\ next.incident = iw[w].incident /\ next.claim = iw[w].claim
            /\ iw' = [iw EXCEPT ![w] = next]
    <2>1. iw[w] \in [pc : HeldSteps, incident : Incidents, claim : Nat \ {0},
                     run : {"none", "SUCCEEDED", "PARTIAL", "FAILED"}]
      BY WorkerFields, StepSets DEF IncidentWorkerState, HoldsIncident, HeldSteps
    <2>2. CASE Goto(w, step)
      <3> DEFINE next == [iw[w] EXCEPT !.pc = step]
      <3>1. /\ next \in IncidentWorkerState
            /\ next.pc = step /\ next.incident = iw[w].incident /\ next.claim = iw[w].claim
        BY <2>1 DEF IncidentWorkerState, HeldSteps
      <3>2. iw' = [iw EXCEPT ![w] = next]
        BY <2>2 DEF Goto
      <3> QED BY <3>1, <3>2
    <2>3. CASE iw' = [iw EXCEPT ![w].pc = step, ![w].run = run]
      <3> DEFINE next == [iw[w] EXCEPT !.pc = step, !.run = run]
      <3>1. /\ next \in IncidentWorkerState
            /\ next.pc = step /\ next.incident = iw[w].incident /\ next.claim = iw[w].claim
        BY <2>1 DEF IncidentWorkerState, HeldSteps
      <3>2. iw' = [iw EXCEPT ![w] = next]
        BY <2>3 DEF TypeOK
      <3> QED BY <3>1, <3>2
    <2> QED BY <2>2, <2>3
  <1>2. /\ iw' \in [IncidentWorkers -> IncidentWorkerState] /\ iw'[w] = next
        /\ \A v \in IncidentWorkers : v # w => iw'[v] = iw[v]
    BY <1>1 DEF TypeOK
  <1> QED BY <1>1, <1>2 DEF WorkerMove

LEMMA BeginMove ==
    ASSUME TypeOK, StoreInv, NEW w \in IncidentWorkers, NEW s \in Stages, NEW i \in Incidents,
           NEW step \in HeldSteps, StageOf(step) = s, step # "leave_localizing",
           Claim(s, i), Begin(w, i, work[s][i].attempts + 1, step)
    PROVE  WorkerMove(w)
  <1> DEFINE n == work[s][i].attempts + 1
             next == [pc |-> step, incident |-> i, claim |-> n, run |-> "none"]
  <1>1. /\ work[s][i].attempts \in Nat
        /\ work'[s][i].attempts = n
    BY ClaimOK DEF TypeOK
  <1>2. next \in IncidentWorkerState
    BY <1>1 DEF IncidentWorkerState, HeldSteps
  <1>3. iw' = [iw EXCEPT ![w] = next]
    BY DEF Begin
  <1>4. next.pc = step /\ next.incident = i /\ next.claim = n
    OBVIOUS
  <1>5. work[s][i].attempts < n /\ n <= work'[s][i].attempts
    BY <1>1
  <1> HIDE DEF next, n
  <1>6. /\ iw' \in [IncidentWorkers -> IncidentWorkerState] /\ iw'[w] = next
        /\ \A v \in IncidentWorkers : v # w => iw'[v] = iw[v]
    BY <1>2, <1>3 DEF TypeOK
  <1> QED BY <1>4, <1>5, <1>6 DEF WorkerMove

-----------------------------------------------------------------------------
(* Every action of an incident worker                                      *)

(* The row of a claim that is held has been claimed.                       *)
LEMMA HeldRow ==
    ASSUME PipelineInv, NEW w \in IncidentWorkers, HoldsIncident(w)
    PROVE  /\ StageOf(iw[w].pc) \in Stages
           /\ work[StageOf(iw[w].pc)][iw[w].incident].state # "READY"
  <1> DEFINE s == StageOf(iw[w].pc)
             i == iw[w].incident
  <1>1. s \in Stages /\ i \in Incidents /\ iw[w].claim \in Nat \ {0}
    BY StepSets, WorkerFields DEF PipelineInv
  <1>2. iw[w].claim <= work[s][i].attempts
    BY DEF PipelineInv, ClaimsAreIssued
  <1>3. work[s][i].attempts \in Nat
    BY <1>1, RowFields DEF PipelineInv, TypeOK, StoreTypeOK
  <1>4. work[s][i].attempts # 0
    BY <1>1, <1>2, <1>3
  <1> QED BY <1>1, <1>4 DEF PipelineInv, StoreInv, AttemptsAreBounded

LEMMA ReapBatchOK ==
    ASSUME StoreTypeOK, StoreInv, NEW s \in Stages, NEW rows \in SUBSET Incidents,
           \A i \in rows : Reapable(s, i),
           NEW b \in ReapBatches(rows), Reap(s, b)
    PROVE  StepOK
  <1>1. b \in SUBSET rows
    BY DEF ReapBatches
  <1> QED BY <1>1, ReapOK

LEMMA LoopStepOK ==
    ASSUME PipelineInv, NEW w \in IncidentWorkers,
           \/ ReapCollection(w) \/ ReapLocalization(w)
           \/ ClaimLocalization(w) \/ ClaimCollection(w)
    PROVE  StepOK /\ WorkerMove(w)
  <1>0. TypeOK /\ StoreTypeOK /\ StoreInv
    BY DEF PipelineInv, TypeOK
  <1>1. CASE ReapCollection(w)
    <2>1. ~HoldsIncident(w) /\ "reap_localization" \in LoopSteps
      BY <1>1 DEF ReapCollection, At, HoldsIncident, CollectionSteps, LocalizationSteps, LoopSteps
    <2>2. StepOK
      BY <1>0, <1>1, ReapBatchOK, StatusTable DEF ReapCollection
    <2> QED BY <1>0, <1>1, <2>1, <2>2, LoopMove DEF ReapCollection
  <1>2. CASE ReapLocalization(w)
    <2>1. ~HoldsIncident(w) /\ "claim_localization" \in LoopSteps
      BY <1>2 DEF ReapLocalization, At, HoldsIncident, CollectionSteps, LocalizationSteps, LoopSteps
    <2>2. StepOK
      BY <1>0, <1>2, ReapBatchOK, StatusTable DEF ReapLocalization
    <2> QED BY <1>0, <1>2, <2>1, <2>2, LoopMove DEF ReapLocalization
  <1>3. CASE ClaimLocalization(w)
    <2>1. /\ ~HoldsIncident(w) /\ "claim_collection" \in LoopSteps
          /\ "plan" \in HeldSteps /\ StageOf("plan") = "localization"
      BY <1>3 DEF ClaimLocalization, At, HoldsIncident, CollectionSteps, LocalizationSteps,
                  LoopSteps, HeldSteps, StageOf
    <2>2. ASSUME NEW i \in Incidents, Claim("localization", i),
                 Begin(w, i, work["localization"][i].attempts + 1, "plan")
          PROVE  StepOK /\ WorkerMove(w)
      BY <1>0, <2>1, <2>2, ClaimOK, BeginMove, StatusTable
    <2>3. ASSUME Goto(w, "claim_collection"), UNCHANGED storeVars
          PROVE  StepOK /\ WorkerMove(w)
      BY <1>0, <2>1, <2>3, StutterOK, LoopMove
    <2> QED BY <1>3, <2>2, <2>3 DEF ClaimLocalization
  <1>4. CASE ClaimCollection(w)
    <2>1. "collect" \in HeldSteps /\ StageOf("collect") = "collection"
      BY DEF CollectionSteps, HeldSteps, StageOf
    <2>2. ASSUME NEW i \in Incidents, Claim("collection", i),
                 Begin(w, i, work["collection"][i].attempts + 1, "collect")
          PROVE  StepOK /\ WorkerMove(w)
      BY <1>0, <2>1, <2>2, ClaimOK, BeginMove, StatusTable
    <2>3. ASSUME Restart(w), UNCHANGED storeVars
          PROVE  StepOK /\ WorkerMove(w)
      BY <1>0, <2>3, StutterOK, RestartMove
    <2> QED BY <1>4, <2>2, <2>3 DEF ClaimCollection
  <1> QED BY <1>1, <1>2, <1>3, <1>4

(* Going on to another step of the same stage.                             *)
LEMMA GotoMove ==
    ASSUME TypeOK, NEW w \in IncidentWorkers, HoldsIncident(w),
           NEW step \in HeldSteps \ {"leave_localizing"},
           StageOf(step) = StageOf(iw[w].pc), Goto(w, step)
    PROVE  WorkerMove(w)
  BY HeldMove

LEMMA CollectionStepOK ==
    ASSUME PipelineInv, NEW w \in IncidentWorkers,
           \/ Collect(w) \/ StoreStatuses(w) \/ StoreCollected(w) \/ LeaveCollecting(w)
           \/ CompleteCollection(w) \/ FailCollection(w)
    PROVE  StepOK /\ WorkerMove(w)
  <1> DEFINE i == iw[w].incident
             n == iw[w].claim
  <1>0. TypeOK /\ StoreTypeOK /\ StoreInv
    BY DEF PipelineInv, TypeOK
  <1>1. iw[w].pc \in CollectionSteps
    BY DEF Collect, StoreStatuses, StoreCollected, LeaveCollecting, CompleteCollection,
           FailCollection, At, CollectionSteps
  <1>2. /\ HoldsIncident(w) /\ StageOf(iw[w].pc) = "collection" /\ "collection" \in Stages
        /\ i \in Incidents /\ n \in Nat \ {0}
        /\ iw[w].run \in {"none", "SUCCEEDED", "PARTIAL", "FAILED"}
        /\ work["collection"][i].state # "READY"
    <2>1. HoldsIncident(w) /\ StageOf(iw[w].pc) = "collection"
      BY <1>1, StepSets DEF HoldsIncident
    <2> QED BY <1>0, <2>1, WorkerFields, HeldRow, StatusTable
  <1>3. ASSUME NEW step \in CollectionSteps, Goto(w, step) PROVE WorkerMove(w)
    <2>1. /\ step \in HeldSteps \ {"leave_localizing"}
          /\ StageOf(step) = StageOf(iw[w].pc)
      BY <1>2, StepSets DEF HeldSteps, CollectionSteps
    <2> QED BY <1>0, <1>2, <1>3, <2>1, GotoMove
  <1>4. /\ {"store_statuses", "store_evidence", "leave_collecting",
            "complete_collection", "fail_collection"} \subseteq CollectionSteps
    BY DEF CollectionSteps
  <1>5. ASSUME UNCHANGED storeVars PROVE StepOK
    BY <1>0, <1>5, StutterOK
  <1>6. ASSUME Restart(w) PROVE WorkerMove(w)
    BY <1>0, <1>6, RestartMove
  <1>7. CASE Collect(w)
    <2>1. StepOK
      BY <1>5, <1>7 DEF Collect
    <2>2. ASSUME NEW run \in {"SUCCEEDED", "PARTIAL", "FAILED"},
                 iw' = [iw EXCEPT ![w].pc = "store_statuses", ![w].run = run]
          PROVE  WorkerMove(w)
      <3>1. /\ "store_statuses" \in HeldSteps /\ "store_statuses" # "leave_localizing"
            /\ StageOf("store_statuses") = "collection"
        BY DEF HeldSteps, CollectionSteps, StageOf
      <3> QED BY <1>0, <1>2, <2>2, <3>1, HeldMove
    <2> QED BY <1>3, <1>4, <1>7, <2>1, <2>2 DEF Collect
  <1>8. CASE StoreStatuses(w)
    <2>1. ASSUME ReplaceCollectorStatuses(i, n) PROVE StepOK
      <3>1. {} \in SUBSET (Stages \X Nat) /\ "none" \in RunStatuses /\ 0 \in Nat
        BY DEF RunStatuses
      <3> QED BY <1>0, <1>2, <2>1, <3>1, ArtifactOK
    <2> QED BY <1>3, <1>4, <1>5, <1>8, <2>1 DEF StoreStatuses, Raise, Return
  <1>9. CASE StoreCollected(w)
    <2>1. ASSUME NEW items \in SUBSET {<<"collection", n>>}, StoreEvidence(i, items) PROVE StepOK
      <3>1. items \in SUBSET (Stages \X Nat) /\ "none" \in RunStatuses /\ 0 \in Nat
        BY <1>2 DEF RunStatuses
      <3> QED BY <1>0, <1>2, <2>1, <3>1, ArtifactOK
    <2> QED BY <1>3, <1>4, <1>5, <1>9, <2>1 DEF StoreCollected, Raise, Return
  <1>10. CASE LeaveCollecting(w)
    <2> DEFINE next == IF iw[w].run = "FAILED" THEN "FAILED" ELSE "LOCALIZING"
    <2>1. ASSUME Transition(i, "COLLECTING", next) PROVE StepOK
      <3>1. next # "ANALYZING" /\ Transition(i, ActiveStatus["collection"], next)
        BY <2>1, StatusTable
      <3> HIDE DEF next
      <3> QED BY <1>0, <1>2, <3>1, TransitionOK
    <2> QED BY <1>3, <1>4, <1>5, <1>10, <2>1 DEF LeaveCollecting, Raise, Return
  <1>11. CASE CompleteCollection(w)
    <2> DEFINE outcome == IF iw[w].run = "FAILED" THEN "FAILED" ELSE "SUCCEEDED"
    <2>1. ASSUME Complete("collection", i, n, outcome) PROVE StepOK
      <3>1. outcome \in Settled
        BY DEF Settled
      <3> HIDE DEF outcome
      <3> QED BY <1>0, <1>2, <2>1, <3>1, CompleteOK
    <2> QED BY <1>3, <1>4, <1>5, <1>6, <1>11, <2>1 DEF CompleteCollection, Raise
  <1>12. CASE FailCollection(w)
    <2>1. ASSUME Fail("collection", i, n) PROVE StepOK
      BY <1>0, <1>2, <2>1, FailOK
    <2> QED BY <1>5, <1>6, <1>12, <2>1 DEF FailCollection
  <1> QED BY <1>7, <1>8, <1>9, <1>10, <1>11, <1>12

LEMMA LocalizationStepOK ==
    ASSUME PipelineInv, NEW w \in IncidentWorkers,
           \/ Plan(w) \/ StoreCandidates(w) \/ CheckLease(w) \/ RenewLease(w)
           \/ CheckLocalizing(w) \/ FreezeContext(w) \/ LeaveLocalizing(w)
           \/ MarkLocalizationFailed(w) \/ CompleteLocalization(w) \/ FailLocalization(w)
    PROVE  StepOK /\ WorkerMove(w)
  <1> DEFINE i == iw[w].incident
             n == iw[w].claim
  <1>0. TypeOK /\ StoreTypeOK /\ StoreInv
    BY DEF PipelineInv, TypeOK
  <1>1. iw[w].pc \in LocalizationSteps
    BY DEF Plan, StoreCandidates, CheckLease, RenewLease, CheckLocalizing, FreezeContext,
           LeaveLocalizing, MarkLocalizationFailed, CompleteLocalization, FailLocalization,
           At, LocalizationSteps
  <1>2. /\ HoldsIncident(w) /\ StageOf(iw[w].pc) = "localization" /\ "localization" \in Stages
        /\ i \in Incidents /\ n \in Nat \ {0}
        /\ work["localization"][i].state # "READY"
    <2>1. HoldsIncident(w) /\ StageOf(iw[w].pc) = "localization"
      BY <1>1, StepSets DEF HoldsIncident
    <2> QED BY <1>0, <2>1, WorkerFields, HeldRow, StatusTable
  <1>3. ASSUME NEW step \in LocalizationSteps \ {"leave_localizing"}, Goto(w, step)
        PROVE  WorkerMove(w)
    <2>1. /\ step \in HeldSteps \ {"leave_localizing"}
          /\ StageOf(step) = StageOf(iw[w].pc)
      BY <1>2, StepSets DEF HeldSteps
    <2> QED BY <1>0, <1>2, <1>3, <2>1, GotoMove
  <1>4. {"store_candidates", "check_lease", "renew_lease", "check_localizing",
         "store_context", "mark_failed", "complete_localization",
         "fail_localization"} \subseteq LocalizationSteps \ {"leave_localizing"}
    BY DEF LocalizationSteps
  <1>5. ASSUME UNCHANGED storeVars PROVE StepOK
    BY <1>0, <1>5, StutterOK
  <1>6. ASSUME Restart(w) PROVE WorkerMove(w)
    BY <1>0, <1>6, RestartMove
  <1>7. CASE Plan(w)
    BY <1>3, <1>4, <1>5, <1>7 DEF Plan
  <1>8. CASE StoreCandidates(w)
    <2>1. ASSUME StoreCollection(i, n) PROVE StepOK
      <3>1. {} \in SUBSET (Stages \X Nat) /\ "none" \in RunStatuses /\ 0 \in Nat
        BY DEF RunStatuses
      <3> QED BY <1>0, <1>2, <2>1, <3>1, ArtifactOK
    <2> QED BY <1>3, <1>4, <1>5, <1>8, <2>1 DEF StoreCandidates, Raise, Return
  <1>9. CASE CheckLease(w)
    BY <1>3, <1>4, <1>5, <1>9 DEF CheckLease
  <1>10. CASE RenewLease(w)
    <2>1. ASSUME Renew("localization", i, n) PROVE StepOK
      BY <1>0, <1>2, <2>1, LeaseOK
    <2> QED BY <1>3, <1>4, <1>5, <1>10, <2>1 DEF RenewLease, Raise, Return
  <1>11. CASE CheckLocalizing(w)
    BY <1>3, <1>4, <1>5, <1>11 DEF CheckLocalizing
  <1>12. CASE FreezeContext(w)
    <2>1. ASSUME StoreContext(i, n) PROVE StepOK /\ n \in contexts'[i]
      BY <1>0, <1>2, <2>1, StoreContextOK
    <2>2. ASSUME StoreContext(i, n), Goto(w, "leave_localizing") PROVE WorkerMove(w)
      <3>1. /\ "leave_localizing" \in HeldSteps /\ StageOf("leave_localizing") = "localization"
            /\ "none" \in {"none", "SUCCEEDED", "PARTIAL", "FAILED"}
        BY DEF HeldSteps, CollectionSteps, LocalizationSteps, StageOf
      <3> QED BY <1>0, <1>2, <2>1, <2>2, <3>1, HeldMove
    <2> QED BY <1>3, <1>4, <1>5, <1>12, <2>1, <2>2 DEF FreezeContext, Raise, Return
  <1>13. CASE LeaveLocalizing(w)
    <2>1. ASSUME Transition(i, "LOCALIZING", "ANALYZING") PROVE StepOK
      <3>1. contexts[i] # {}
        BY <1>13 DEF LeaveLocalizing, PipelineInv, LeavesAfterFreezing
      <3>2. Transition(i, ActiveStatus["localization"], "ANALYZING")
        BY <2>1, StatusTable
      <3> QED BY <1>0, <1>2, <3>1, <3>2, TransitionOK
    <2> QED BY <1>3, <1>4, <1>5, <1>13, <2>1 DEF LeaveLocalizing, Raise, Return
  <1>14. CASE MarkLocalizationFailed(w)
    <2>1. ASSUME Transition(i, "LOCALIZING", "FAILED") PROVE StepOK
      <3>1. Transition(i, ActiveStatus["localization"], "FAILED")
        BY <2>1, StatusTable
      <3> QED BY <1>0, <1>2, <3>1, TransitionOK
    <2> QED BY <1>3, <1>4, <1>5, <1>14, <2>1 DEF MarkLocalizationFailed
  <1>15. CASE CompleteLocalization(w)
    <2>1. ASSUME Complete("localization", i, n, "SUCCEEDED") PROVE StepOK
      <3>1. "SUCCEEDED" \in Settled
        BY DEF Settled
      <3> QED BY <1>0, <1>2, <2>1, <3>1, CompleteOK
    <2> QED BY <1>3, <1>4, <1>5, <1>6, <1>15, <2>1 DEF CompleteLocalization, Raise
  <1>16. CASE FailLocalization(w)
    <2>1. ASSUME Fail("localization", i, n) PROVE StepOK
      BY <1>0, <1>2, <2>1, FailOK
    <2> QED BY <1>5, <1>6, <1>16, <2>1 DEF FailLocalization
  <1> QED BY <1>7, <1>8, <1>9, <1>10, <1>11, <1>12, <1>13, <1>14, <1>15, <1>16

LEMMA WorkerStepOK ==
    ASSUME PipelineInv, NEW w \in IncidentWorkers,
           IncidentWorkerStep(w) \/ CrashIncidentWorker(w)
    PROVE  StepOK /\ WorkerMove(w)
  <1>1. CASE CrashIncidentWorker(w)
    BY <1>1, StutterOK, RestartMove DEF CrashIncidentWorker, PipelineInv, TypeOK
  <1>2. CASE IncidentWorkerStep(w)
    BY <1>2, LoopStepOK, CollectionStepOK, LocalizationStepOK DEF IncidentWorkerStep
  <1> QED BY <1>1, <1>2

-----------------------------------------------------------------------------
(* Every action of an agent worker                                         *)

LEMMA AgentFields ==
    ASSUME TypeOK, NEW a \in Agents
    PROVE  /\ aw[a] \in AgentWorkerState
           /\ HoldsAnalysis(a) =>
                /\ aw[a].incident \in Incidents
                /\ aw[a].claim \in Nat \ {0}
                /\ aw[a].context \in Nat
           /\ ~HoldsAnalysis(a) =>
                aw[a] \in [pc : {"idle", "claim_analysis"}, incident : {NoIncident},
                           claim : {0}, context : {0}]
  BY DEF TypeOK, AgentWorkerState, HoldsAnalysis, AnalysisSteps

AgentMove(a) ==
    /\ aw' \in [Agents -> AgentWorkerState]
    /\ \A b \in Agents : b # a => aw'[b] = aw[b]
    /\ \/ aw'[a].pc \notin AnalysisSteps
       \/ /\ HoldsAnalysis(a)
          /\ aw'[a].incident = aw[a].incident /\ aw'[a].claim = aw[a].claim
       \/ \E i \in Incidents :
            /\ aw'[a].incident = i
            /\ work["analysis"][i].attempts < aw'[a].claim
            /\ aw'[a].claim <= work'["analysis"][i].attempts

LEMMA AgentIdleMove ==
    ASSUME TypeOK, NEW a \in Agents, AgentIdle(a)
    PROVE  AgentMove(a)
  <1>1. Idle \in AgentWorkerState /\ Idle.pc \notin AnalysisSteps
    BY DEF Idle, AgentWorkerState, AnalysisSteps
  <1>2. /\ aw' \in [Agents -> AgentWorkerState] /\ aw'[a] = Idle
        /\ \A b \in Agents : b # a => aw'[b] = aw[b]
    BY <1>1 DEF AgentIdle, TypeOK
  <1> QED BY <1>1, <1>2 DEF AgentMove

LEMMA AgentLoopMove ==
    ASSUME TypeOK, NEW a \in Agents, ~HoldsAnalysis(a), AgentGoto(a, "claim_analysis")
    PROVE  AgentMove(a)
  <1> DEFINE next == [aw[a] EXCEPT !.pc = "claim_analysis"]
  <1>1. next \in AgentWorkerState /\ next.pc \notin AnalysisSteps
    <2>1. aw[a] \in [pc : {"idle", "claim_analysis"}, incident : {NoIncident},
                     claim : {0}, context : {0}]
      BY AgentFields
    <2> QED BY <2>1 DEF AgentWorkerState, AnalysisSteps
  <1>2. aw' = [aw EXCEPT ![a] = next]
    BY DEF AgentGoto
  <1> HIDE DEF next
  <1>3. /\ aw' \in [Agents -> AgentWorkerState] /\ aw'[a] = next
        /\ \A b \in Agents : b # a => aw'[b] = aw[b]
    BY <1>1, <1>2 DEF TypeOK
  <1> QED BY <1>1, <1>3 DEF AgentMove

LEMMA AgentHeldMove ==
    ASSUME TypeOK, NEW a \in Agents, HoldsAnalysis(a),
           NEW step \in AnalysisSteps, AgentGoto(a, step)
    PROVE  AgentMove(a)
  <1> DEFINE next == [aw[a] EXCEPT !.pc = step]
  <1>1. /\ next \in AgentWorkerState
        /\ next.incident = aw[a].incident /\ next.claim = aw[a].claim
    <2>1. aw[a] \in [pc : AnalysisSteps, incident : Incidents, claim : Nat \ {0}, context : Nat]
      BY AgentFields DEF AgentWorkerState, HoldsAnalysis, AnalysisSteps
    <2> QED BY <2>1 DEF AgentWorkerState
  <1>2. aw' = [aw EXCEPT ![a] = next]
    BY DEF AgentGoto
  <1> HIDE DEF next
  <1>3. /\ aw' \in [Agents -> AgentWorkerState] /\ aw'[a] = next
        /\ \A b \in Agents : b # a => aw'[b] = aw[b]
    BY <1>1, <1>2 DEF TypeOK
  <1> QED BY <1>1, <1>3 DEF AgentMove

LEMMA AgentBeginMove ==
    ASSUME TypeOK, StoreInv, NEW a \in Agents, NEW i \in Incidents,
           Claim("analysis", i), BeginAnalysis(a, i)
    PROVE  AgentMove(a)
  <1> DEFINE n == work["analysis"][i].attempts + 1
             next == [pc |-> "check_analyzing", incident |-> i, claim |-> n,
                      context |-> pinned[i]]
  <1>1. /\ work["analysis"][i].attempts \in Nat
        /\ work'["analysis"][i].attempts = n
    BY ClaimOK, StatusTable DEF TypeOK
  <1>2. next \in AgentWorkerState
    <2>1. pinned[i] \in Nat /\ n \in Nat \ {0}
      BY <1>1 DEF TypeOK, StoreTypeOK
    <2> QED BY <2>1 DEF AgentWorkerState, AnalysisSteps
  <1>3. aw' = [aw EXCEPT ![a] = next]
    BY DEF BeginAnalysis
  <1>4. /\ next.incident = i /\ next.claim = n
        /\ work["analysis"][i].attempts < n /\ n <= work'["analysis"][i].attempts
    BY <1>1
  <1> HIDE DEF next, n
  <1>5. /\ aw' \in [Agents -> AgentWorkerState] /\ aw'[a] = next
        /\ \A b \in Agents : b # a => aw'[b] = aw[b]
    BY <1>2, <1>3 DEF TypeOK
  <1> QED BY <1>4, <1>5 DEF AgentMove

LEMMA HeldAnalysisRow ==
    ASSUME PipelineInv, NEW a \in Agents, HoldsAnalysis(a)
    PROVE  work["analysis"][aw[a].incident].state # "READY"
  <1> DEFINE i == aw[a].incident
  <1>1. i \in Incidents /\ aw[a].claim \in Nat \ {0}
    BY AgentFields DEF PipelineInv
  <1>2. aw[a].claim <= work["analysis"][i].attempts
    BY DEF PipelineInv, ClaimsAreIssued
  <1>3. work["analysis"][i].attempts \in Nat
    BY <1>1, RowFields, StatusTable DEF PipelineInv, TypeOK, StoreTypeOK
  <1>4. work["analysis"][i].attempts # 0
    BY <1>1, <1>2, <1>3
  <1> QED BY <1>1, <1>4, StatusTable DEF PipelineInv, StoreInv, AttemptsAreBounded

LEMMA AgentStepOK ==
    ASSUME PipelineInv, NEW a \in Agents, AgentStep(a) \/ CrashAgentWorker(a)
    PROVE  StepOK /\ AgentMove(a)
  <1> DEFINE i == aw[a].incident
             n == aw[a].claim
  <1>0. TypeOK /\ StoreTypeOK /\ StoreInv /\ "analysis" \in Stages
    BY StatusTable DEF PipelineInv, TypeOK
  <1>1. ASSUME UNCHANGED storeVars PROVE StepOK
    BY <1>0, <1>1, StutterOK
  <1>2. ASSUME AgentIdle(a) PROVE AgentMove(a)
    BY <1>0, <1>2, AgentIdleMove
  <1>3. ASSUME NEW j \in Incidents, Claim("analysis", j), BeginAnalysis(a, j)
        PROVE  StepOK /\ AgentMove(a)
    BY <1>0, <1>3, ClaimOK, AgentBeginMove
  <1>4. Eligible \in SUBSET Incidents
    BY EligibleAssumption
  <1>5. CASE ReapAnalysis(a)
    <2>1. StepOK
      <3>1. {j \in Eligible : Reapable("analysis", j)} \in SUBSET Incidents
        BY <1>4
      <3> QED BY <1>0, <1>5, <3>1, ReapBatchOK DEF ReapAnalysis
    <2>2. ~HoldsAnalysis(a)
      BY <1>5 DEF ReapAnalysis, AgentAt, HoldsAnalysis, AnalysisSteps
    <2> QED BY <1>0, <1>5, <2>1, <2>2, AgentLoopMove DEF ReapAnalysis
  <1>6. CASE ClaimNextEligible(a)
    BY <1>1, <1>2, <1>3, <1>4, <1>6 DEF ClaimNextEligible
  <1>7. CASE ClaimIncident(a)
    BY <1>3, <1>7 DEF ClaimIncident
  <1>8. CASE CrashAgentWorker(a)
    BY <1>1, <1>2, <1>8 DEF CrashAgentWorker
  <1>9. CASE aw[a].pc \in AnalysisSteps
    <2>1. /\ HoldsAnalysis(a) /\ i \in Incidents /\ n \in Nat /\ aw[a].context \in Nat
          /\ work["analysis"][i].state # "READY"
      BY <1>0, <1>9, AgentFields, HeldAnalysisRow DEF HoldsAnalysis
    <2>2. ASSUME NEW step \in AnalysisSteps, AgentGoto(a, step) PROVE AgentMove(a)
      BY <1>0, <2>1, <2>2, AgentHeldMove
    <2>3. AnalysisSteps = {"check_analyzing", "investigate", "store_agent_run",
                           "store_report", "leave_analyzing", "store_failure_audit",
                           "mark_analysis_failed", "complete_analysis", "fail_analysis"}
      BY DEF AnalysisSteps
    <2>4. ASSUME NEW result \in RunStatuses, StoreAgentRun(i, n, result) PROVE StepOK
      <3>1. {} \in SUBSET (Stages \X Nat) /\ 0 \in Nat
        OBVIOUS
      <3> QED BY <1>0, <2>1, <2>4, <3>1, ArtifactOK
    <2>5. ASSUME StoreReport(i, n, aw[a].context) PROVE StepOK
      <3>1. {} \in SUBSET (Stages \X Nat) /\ "none" \in RunStatuses
        BY DEF RunStatuses
      <3> QED BY <1>0, <2>1, <2>5, <3>1, ArtifactOK
    <2>6. ASSUME NEW next \in {"REPORTED", "FAILED"}, Transition(i, "ANALYZING", next)
          PROVE  StepOK
      <3>1. Transition(i, ActiveStatus["analysis"], next)
        BY <2>6, StatusTable
      <3> QED BY <1>0, <2>1, <3>1, TransitionOK
    <2>7. ASSUME Complete("analysis", i, n, "SUCCEEDED") PROVE StepOK
      <3>1. "SUCCEEDED" \in Settled
        BY DEF Settled
      <3> QED BY <1>0, <2>1, <2>7, <3>1, CompleteOK
    <2>8. ASSUME Fail("analysis", i, n) PROVE StepOK
      BY <1>0, <2>1, <2>8, FailOK
    <2>9. "SUCCEEDED" \in RunStatuses /\ "REJECTED" \in RunStatuses
      BY DEF RunStatuses
    <2>10. CASE CheckAnalyzing(a) \/ Investigate(a)
      BY <1>1, <2>2, <2>3, <2>10 DEF CheckAnalyzing, Investigate
    <2>11. CASE StoreAcceptedRun(a)
      BY <1>1, <2>2, <2>3, <2>4, <2>9, <2>11 DEF StoreAcceptedRun, AgentRaise, AgentReturn
    <2>12. CASE StoreAcceptedReport(a)
      BY <1>1, <2>2, <2>3, <2>5, <2>12 DEF StoreAcceptedReport, AgentRaise, AgentReturn
    <2>13. CASE LeaveAnalyzing(a)
      BY <1>1, <2>2, <2>3, <2>6, <2>13 DEF LeaveAnalyzing, AgentRaise, AgentReturn
    <2>14. CASE StoreFailureAudit(a)
      BY <1>1, <2>2, <2>3, <2>4, <2>9, <2>14 DEF StoreFailureAudit
    <2>15. CASE MarkAnalysisFailed(a)
      BY <1>1, <2>2, <2>3, <2>6, <2>15 DEF MarkAnalysisFailed
    <2>16. CASE CompleteAnalysis(a)
      BY <1>1, <1>2, <2>7, <2>16 DEF CompleteAnalysis
    <2>17. CASE FailAnalysis(a)
      BY <1>1, <1>2, <2>8, <2>17 DEF FailAnalysis
    <2> QED BY <1>5, <1>6, <1>7, <1>8, <2>10, <2>11, <2>12, <2>13, <2>14, <2>15, <2>16, <2>17
            DEF AgentStep
  <1>10. CASE aw[a].pc \notin AnalysisSteps /\ AgentStep(a)
    <2>1. ReapAnalysis(a) \/ ClaimNextEligible(a) \/ ClaimIncident(a)
      BY <1>10 DEF AgentStep, CheckAnalyzing, Investigate, StoreAcceptedRun,
                   StoreAcceptedReport, LeaveAnalyzing, StoreFailureAudit,
                   MarkAnalysisFailed, CompleteAnalysis, FailAnalysis, AgentAt, AnalysisSteps
    <2> QED BY <1>5, <1>6, <1>7, <2>1
  <1> QED BY <1>8, <1>9, <1>10

-----------------------------------------------------------------------------
(* The invariant                                                           *)

LEMMA InitPipelineInv == Init => PipelineInv
  <1> SUFFICES ASSUME Init PROVE PipelineInv
    OBVIOUS
  <1>1. StoreTypeOK /\ StoreInv
    BY InitInv DEF Init
  <1>2. /\ iw \in [IncidentWorkers -> IncidentWorkerState]
        /\ \A w \in IncidentWorkers : iw[w].pc = "reap_collection"
    BY DEF Init, IncidentWorkerInit, IncidentWorkerState, LoopSteps
  <1>3. /\ aw \in [Agents -> AgentWorkerState]
        /\ \A a \in Agents : aw[a].pc = "idle"
    BY DEF Init, AgentWorkerInit, Idle, AgentWorkerState
  <1>4. /\ \A w \in IncidentWorkers : ~HoldsIncident(w) /\ ~At(w, "leave_localizing")
        /\ \A a \in Agents : ~HoldsAnalysis(a)
    BY <1>2, <1>3 DEF HoldsIncident, CollectionSteps, LocalizationSteps, At,
                      HoldsAnalysis, AnalysisSteps
  <1> QED BY <1>1, <1>2, <1>3, <1>4
          DEF PipelineInv, TypeOK, ExclusiveClaims, ClaimsAreIssued, LeavesAfterFreezing

(* Workers that did not move still hold claims that were issued.           *)
LEMMA OthersKeepClaims ==
    ASSUME PipelineInv, StepOK
    PROVE  /\ \A w \in IncidentWorkers : iw'[w] = iw[w] =>
                /\ HoldsIncident(w)' =>
                    iw'[w].claim <= work'[StageOf(iw'[w].pc)][iw'[w].incident].attempts
                /\ At(w, "leave_localizing")' => iw'[w].claim \in contexts'[iw'[w].incident]
           /\ \A a \in Agents : aw'[a] = aw[a] =>
                (HoldsAnalysis(a)' =>
                    aw'[a].claim <= work'["analysis"][aw'[a].incident].attempts)
  <1>1. ASSUME NEW s \in Stages, NEW i \in Incidents, NEW n \in Nat,
               n <= work[s][i].attempts
        PROVE  n <= work'[s][i].attempts
    <2>1. work[s][i].attempts \in Nat /\ work'[s][i].attempts \in Nat
      BY RowFields DEF StepOK, PipelineInv, TypeOK, StoreTypeOK
    <2>2. work[s][i].attempts <= work'[s][i].attempts
      BY DEF StepOK, NothingUndone, RowKept
    <2> QED BY <1>1, <2>1, <2>2
  <1>2. ASSUME NEW w \in IncidentWorkers, iw'[w] = iw[w], HoldsIncident(w)'
        PROVE  iw'[w].claim <= work'[StageOf(iw'[w].pc)][iw'[w].incident].attempts
    <2>1. HoldsIncident(w)
      BY <1>2 DEF HoldsIncident
    <2>2. /\ StageOf(iw[w].pc) \in Stages /\ iw[w].incident \in Incidents /\ iw[w].claim \in Nat
          /\ iw[w].claim <= work[StageOf(iw[w].pc)][iw[w].incident].attempts
      BY <2>1, StepSets, WorkerFields DEF PipelineInv, ClaimsAreIssued
    <2> QED BY <1>1, <1>2, <2>2
  <1>3. ASSUME NEW w \in IncidentWorkers, iw'[w] = iw[w], At(w, "leave_localizing")'
        PROVE  iw'[w].claim \in contexts'[iw'[w].incident]
    <2>1. At(w, "leave_localizing") /\ HoldsIncident(w)
      BY <1>3 DEF At, HoldsIncident, LocalizationSteps
    <2>2. iw[w].incident \in Incidents /\ iw[w].claim \in contexts[iw[w].incident]
      BY <2>1, WorkerFields DEF PipelineInv, LeavesAfterFreezing
    <2> QED BY <1>3, <2>2 DEF StepOK, NothingUndone
  <1>4. ASSUME NEW a \in Agents, aw'[a] = aw[a], HoldsAnalysis(a)'
        PROVE  aw'[a].claim <= work'["analysis"][aw'[a].incident].attempts
    <2>1. HoldsAnalysis(a)
      BY <1>4 DEF HoldsAnalysis
    <2>2. /\ aw[a].incident \in Incidents /\ aw[a].claim \in Nat
          /\ aw[a].claim <= work["analysis"][aw[a].incident].attempts
      BY <2>1, AgentFields DEF PipelineInv, ClaimsAreIssued
    <2> QED BY <1>1, <1>4, <2>2, StatusTable
  <1> QED BY <1>2, <1>3, <1>4

LEMMA WorkerMoveInv ==
    ASSUME PipelineInv, StepOK, NEW w \in IncidentWorkers, WorkerMove(w), aw' = aw
    PROVE  PipelineInv'
  <1>1. TypeOK'
    BY DEF PipelineInv, TypeOK, StepOK, WorkerMove
  <1>2. ClaimsAreIssued' /\ LeavesAfterFreezing'
    <2>1. \A v \in IncidentWorkers : v # w => iw'[v] = iw[v]
      BY DEF WorkerMove
    <2>2. ASSUME HoldsIncident(w)'
          PROVE  iw'[w].claim <= work'[StageOf(iw'[w].pc)][iw'[w].incident].attempts
      <3>1. CASE HoldsIncident(w) /\ iw'[w].incident = iw[w].incident /\ iw'[w].claim = iw[w].claim
                 /\ StageOf(iw'[w].pc) = StageOf(iw[w].pc)
        <4> DEFINE s == StageOf(iw[w].pc)
                   i == iw[w].incident
        <4>1. s \in Stages /\ i \in Incidents /\ iw[w].claim \in Nat
              /\ iw[w].claim <= work[s][i].attempts
          BY <3>1, StepSets, WorkerFields DEF PipelineInv, ClaimsAreIssued
        <4>2. /\ work[s][i].attempts \in Nat /\ work'[s][i].attempts \in Nat
              /\ work[s][i].attempts <= work'[s][i].attempts
          BY <4>1, RowFields DEF StepOK, NothingUndone, RowKept, PipelineInv, TypeOK, StoreTypeOK
        <4> QED BY <3>1, <4>1, <4>2
      <3>2. CASE \E s \in Stages, i \in Incidents :
                    /\ StageOf(iw'[w].pc) = s /\ iw'[w].incident = i
                    /\ iw'[w].claim <= work'[s][i].attempts
        BY <3>2
      <3>3. iw'[w].pc \in HeldSteps
        BY <2>2 DEF HoldsIncident, HeldSteps
      <3> QED BY <3>1, <3>2, <3>3 DEF WorkerMove
    <2>3. At(w, "leave_localizing")' => iw'[w].claim \in contexts'[iw'[w].incident]
      BY DEF WorkerMove, At
    <2> QED BY <2>1, <2>2, <2>3, OthersKeepClaims DEF ClaimsAreIssued, LeavesAfterFreezing
  <1>3. ASSUME NEW v \in IncidentWorkers, v # w,
               HoldsIncident(v)', HoldsIncident(w)',
               iw'[v].incident = iw'[w].incident,
               StageOf(iw'[v].pc) = StageOf(iw'[w].pc)
        PROVE  iw'[v].claim # iw'[w].claim
    <2>1. iw'[v] = iw[v] /\ HoldsIncident(v) /\ iw'[w].pc \in HeldSteps
      BY <1>3 DEF WorkerMove, HoldsIncident, HeldSteps
    <2>2. CASE HoldsIncident(w) /\ iw'[w].incident = iw[w].incident /\ iw'[w].claim = iw[w].claim
               /\ StageOf(iw'[w].pc) = StageOf(iw[w].pc)
      BY <1>3, <2>1, <2>2 DEF PipelineInv, ExclusiveClaims
    <2>3. CASE \E s \in Stages, i \in Incidents :
                  /\ StageOf(iw'[w].pc) = s /\ iw'[w].incident = i
                  /\ work[s][i].attempts < iw'[w].claim
                  /\ iw'[w].claim <= work'[s][i].attempts
      <3>1. PICK s \in Stages, i \in Incidents :
                  /\ StageOf(iw'[w].pc) = s /\ iw'[w].incident = i
                  /\ work[s][i].attempts < iw'[w].claim
        BY <2>3
      <3>2. iw[v].claim \in Nat /\ iw[v].claim <= work[s][i].attempts
        BY <1>3, <2>1, <3>1, WorkerFields DEF PipelineInv, ClaimsAreIssued
      <3>3. work[s][i].attempts \in Nat
        BY RowFields DEF PipelineInv, TypeOK, StoreTypeOK
      <3>4. iw'[w].claim \in Nat
        BY <1>1, <1>3 DEF TypeOK, IncidentWorkerState
      <3> QED BY <2>1, <3>1, <3>2, <3>3, <3>4
    <2> QED BY <2>1, <2>2, <2>3 DEF WorkerMove
  <1>4. ExclusiveClaims'
    <2>1. ASSUME NEW u \in IncidentWorkers, NEW v \in IncidentWorkers, u # v, u # w, v # w,
                 HoldsIncident(u)', HoldsIncident(v)',
                 iw'[u].incident = iw'[v].incident,
                 StageOf(iw'[u].pc) = StageOf(iw'[v].pc)
          PROVE  iw'[u].claim # iw'[v].claim
      BY <2>1 DEF PipelineInv, ExclusiveClaims, WorkerMove, HoldsIncident
    <2>2. \A a, b \in Agents :
            /\ a # b
            /\ HoldsAnalysis(a)' /\ HoldsAnalysis(b)'
            /\ aw'[a].incident = aw'[b].incident
            => aw'[a].claim # aw'[b].claim
      BY DEF PipelineInv, ExclusiveClaims, HoldsAnalysis
    <2> QED BY <1>3, <2>1, <2>2 DEF ExclusiveClaims
  <1> QED BY <1>1, <1>2, <1>4 DEF PipelineInv, StepOK

LEMMA AgentMoveInv ==
    ASSUME PipelineInv, StepOK, NEW a \in Agents, AgentMove(a), iw' = iw
    PROVE  PipelineInv'
  <1>1. TypeOK'
    BY DEF PipelineInv, TypeOK, StepOK, AgentMove
  <1>2. ClaimsAreIssued' /\ LeavesAfterFreezing'
    <2>1. \A b \in Agents : b # a => aw'[b] = aw[b]
      BY DEF AgentMove
    <2>2. ASSUME HoldsAnalysis(a)'
          PROVE  aw'[a].claim <= work'["analysis"][aw'[a].incident].attempts
      <3>1. CASE HoldsAnalysis(a) /\ aw'[a].incident = aw[a].incident /\ aw'[a].claim = aw[a].claim
        <4> DEFINE i == aw[a].incident
        <4>1. i \in Incidents /\ aw[a].claim \in Nat
              /\ aw[a].claim <= work["analysis"][i].attempts
          BY <3>1, AgentFields DEF PipelineInv, ClaimsAreIssued
        <4>2. /\ work["analysis"][i].attempts \in Nat /\ work'["analysis"][i].attempts \in Nat
              /\ work["analysis"][i].attempts <= work'["analysis"][i].attempts
          BY <4>1, RowFields, StatusTable
          DEF StepOK, NothingUndone, RowKept, PipelineInv, TypeOK, StoreTypeOK
        <4> QED BY <3>1, <4>1, <4>2
      <3>2. aw'[a].pc \in AnalysisSteps
        BY <2>2 DEF HoldsAnalysis
      <3> QED BY <3>1, <3>2 DEF AgentMove
    <2> QED BY <2>1, <2>2, OthersKeepClaims DEF ClaimsAreIssued, LeavesAfterFreezing
  <1>3. ASSUME NEW b \in Agents, b # a, HoldsAnalysis(b)', HoldsAnalysis(a)',
               aw'[b].incident = aw'[a].incident
        PROVE  aw'[b].claim # aw'[a].claim
    <2>1. aw'[b] = aw[b] /\ HoldsAnalysis(b) /\ aw'[a].pc \in AnalysisSteps
      BY <1>3 DEF AgentMove, HoldsAnalysis
    <2>2. CASE HoldsAnalysis(a) /\ aw'[a].incident = aw[a].incident /\ aw'[a].claim = aw[a].claim
      BY <1>3, <2>1, <2>2 DEF PipelineInv, ExclusiveClaims
    <2>3. CASE \E i \in Incidents :
                  /\ aw'[a].incident = i
                  /\ work["analysis"][i].attempts < aw'[a].claim
                  /\ aw'[a].claim <= work'["analysis"][i].attempts
      <3>1. PICK i \in Incidents :
                  aw'[a].incident = i /\ work["analysis"][i].attempts < aw'[a].claim
        BY <2>3
      <3>2. aw[b].claim \in Nat /\ aw[b].claim <= work["analysis"][i].attempts
        BY <1>3, <2>1, <3>1, AgentFields DEF PipelineInv, ClaimsAreIssued
      <3>3. work["analysis"][i].attempts \in Nat
        BY RowFields, StatusTable DEF PipelineInv, TypeOK, StoreTypeOK
      <3>4. aw'[a].claim \in Nat
        BY <1>1, <1>3 DEF TypeOK, AgentWorkerState
      <3> QED BY <2>1, <3>1, <3>2, <3>3, <3>4
    <2> QED BY <2>1, <2>2, <2>3 DEF AgentMove
  <1>4. ExclusiveClaims'
    <2>1. ASSUME NEW b \in Agents, NEW c \in Agents, b # c, b # a, c # a,
                 HoldsAnalysis(b)', HoldsAnalysis(c)', aw'[b].incident = aw'[c].incident
          PROVE  aw'[b].claim # aw'[c].claim
      BY <2>1 DEF PipelineInv, ExclusiveClaims, AgentMove, HoldsAnalysis
    <2>2. \A v, w \in IncidentWorkers :
            /\ v # w
            /\ HoldsIncident(v)' /\ HoldsIncident(w)'
            /\ iw'[v].incident = iw'[w].incident
            /\ StageOf(iw'[v].pc) = StageOf(iw'[w].pc)
            => iw'[v].claim # iw'[w].claim
      BY DEF PipelineInv, ExclusiveClaims, HoldsIncident
    <2> QED BY <1>3, <2>1, <2>2 DEF ExclusiveClaims
  <1> QED BY <1>1, <1>2, <1>4 DEF PipelineInv, StepOK

LEMMA NoMoveInv ==
    ASSUME PipelineInv, StepOK, iw' = iw, aw' = aw
    PROVE  PipelineInv'
  <1>1. TypeOK'
    BY DEF PipelineInv, TypeOK, StepOK
  <1>2. ClaimsAreIssued' /\ LeavesAfterFreezing'
    BY OthersKeepClaims DEF ClaimsAreIssued, LeavesAfterFreezing
  <1>3. ExclusiveClaims'
    BY DEF PipelineInv, ExclusiveClaims, HoldsIncident, HoldsAnalysis
  <1> QED BY <1>1, <1>2, <1>3 DEF PipelineInv, StepOK

LEMMA NextOK ==
    ASSUME PipelineInv, [Next]_vars
    PROVE  StepOK /\ PipelineInv'
  <1>0. TypeOK /\ StoreTypeOK /\ StoreInv
    BY DEF PipelineInv, TypeOK
  <1>1. ASSUME NEW i \in Incidents, ReceiveAlert(i) PROVE StepOK /\ PipelineInv'
    BY <1>0, <1>1, ReceiveOK, NoMoveInv DEF ReceiveAlert
  <1>2. ASSUME NEW s \in Stages, NEW i \in Incidents, ExpireLease(s, i)
        PROVE  StepOK /\ PipelineInv'
    BY <1>0, <1>2, LeaseOK, NoMoveInv DEF ExpireLease
  <1>3. ASSUME NEW w \in IncidentWorkers, RunIncidentWorker(w) PROVE StepOK /\ PipelineInv'
    BY <1>3, WorkerStepOK, WorkerMoveInv DEF RunIncidentWorker
  <1>4. ASSUME NEW a \in Agents, RunAgent(a) PROVE StepOK /\ PipelineInv'
    BY <1>4, AgentStepOK, AgentMoveInv DEF RunAgent
  <1>5. CASE Crash
    <2>1. ASSUME NEW w \in IncidentWorkers, CrashIncidentWorker(w), UNCHANGED aw
          PROVE  StepOK /\ PipelineInv'
      BY <2>1, WorkerStepOK, WorkerMoveInv
    <2>2. ASSUME NEW a \in Agents, CrashAgentWorker(a), UNCHANGED iw
          PROVE  StepOK /\ PipelineInv'
      BY <2>2, AgentStepOK, AgentMoveInv
    <2> QED BY <1>5, <2>1, <2>2 DEF Crash
  <1>6. CASE UNCHANGED vars
    BY <1>0, <1>6, StutterOK, NoMoveInv DEF vars
  <1> QED BY <1>1, <1>2, <1>3, <1>4, <1>5, <1>6 DEF Next

(* The database and the workers' claims stay consistent, whatever the      *)
(* order in which workers, crashes, lost acknowledgements and expiring     *)
(* leases interleave.                                                      *)
THEOREM PipelineIsConsistent == Spec => []PipelineInv
  <1>1. Init => PipelineInv
    BY InitPipelineInv
  <1>2. PipelineInv /\ [Next]_vars => PipelineInv'
    BY NextOK
  <1> QED BY <1>1, <1>2, PTL DEF Spec

(* Every variable has its type: claims are positive, rows are rows of the  *)
(* queue tables, and no worker holds a claim in a step of its loop.        *)
THEOREM TypeCorrect == Spec => []TypeOK
  <1>1. PipelineInv => TypeOK
    BY DEF PipelineInv
  <1> QED BY <1>1, PipelineIsConsistent, PTL

(* An unfinished Incident is always in the queue of its stage.             *)
THEOREM NoIncidentIsStranded == Spec => []NoStrandedIncident
  <1>1. PipelineInv => NoStrandedIncident
    BY DEF PipelineInv, StoreInv
  <1> QED BY <1>1, PipelineIsConsistent, PTL

(* A READY row is never left behind by its Incident: it can be claimed.    *)
THEOREM ReadyWorkCanBeClaimed == Spec => []ReadyWorkIsClaimable
  <1>1. PipelineInv => ReadyWorkIsClaimable
    BY DEF PipelineInv, StoreInv
  <1> QED BY <1>1, PipelineIsConsistent, PTL

(* The fencing tokens of two workers on one row are never the same.        *)
THEOREM ClaimsAreExclusive == Spec => []ExclusiveClaims
  <1>1. PipelineInv => ExclusiveClaims
    BY DEF PipelineInv
  <1> QED BY <1>1, PipelineIsConsistent, PTL

(* No row is claimed more often than max_attempts.                         *)
THEOREM AttemptsStayBounded == Spec => []AttemptsAreBounded
  <1>1. PipelineInv => AttemptsAreBounded
    BY DEF PipelineInv, StoreInv
  <1> QED BY <1>1, PipelineIsConsistent, PTL

(* No interleaving of complete, fail, renew and reap, by current or stale  *)
(* workers, changes a row once it is settled.                              *)
THEOREM SettledWorkStaysSettled == Spec => SettledWorkIsFinal
  <1>1. PipelineInv /\ [Next]_vars =>
            [\A s \in Stages, i \in Incidents :
                work[s][i].state \in Settled => work'[s][i] = work[s][i]]_vars
    BY NextOK DEF StepOK, NothingUndone, RowKept
  <1> QED BY <1>1, PipelineIsConsistent, PTL DEF Spec, SettledWorkIsFinal

(* The Context of an Incident's analysis is chosen once.                   *)
THEOREM PinnedContextStays == Spec => PinnedContextIsFixed
  <1>1. PipelineInv /\ [Next]_vars =>
            [\A i \in Incidents : pinned[i] # 0 => pinned'[i] = pinned[i]]_vars
    BY NextOK DEF StepOK, NothingUndone
  <1> QED BY <1>1, PipelineIsConsistent, PTL DEF Spec, PinnedContextIsFixed


-----------------------------------------------------------------------------
(* The transactions                                                        *)

LiveRowsKept ==
    \A u \in Stages, j \in Incidents :
        work[u][j].lease = "live" => work'[u][j] = work[u][j]

OnlyRowOf(s, i, n) ==
    \A u \in Stages, j \in Incidents :
        work[u][j].lease = "live" /\ work'[u][j] # work[u][j] =>
            u = s /\ j = i /\ n = work[s][i].attempts

(* A row without a lease is not RUNNING, and the other way round.          *)
LEMMA LeaseWhileRunning ==
    ASSUME StoreInv, NEW s \in Stages, NEW i \in Incidents
    PROVE  work[s][i].state = "RUNNING" <=> work[s][i].lease # "none"
  BY DEF StoreInv, QueuesFollowStatus

LEMMA ReceiveKeepsLive ==
    ASSUME StoreTypeOK, StoreInv, NEW i \in Incidents, Receive(i)
    PROVE  LiveRowsKept
  <1>1. status[i] = "NEW" /\ OtherRowsSame("collection", i)
    BY ReceiveEffect
  <1>2. work["collection"][i].lease = "none"
    BY <1>1, LeaseWhileRunning, StatusTable DEF StoreInv, QueuesFollowStatus
  <1> QED BY <1>1, <1>2 DEF LiveRowsKept, OtherRowsSame

LEMMA ClaimKeepsLive ==
    ASSUME StoreTypeOK, StoreInv, NEW s \in Stages, NEW i \in Incidents, Claim(s, i)
    PROVE  LiveRowsKept
  <1>1. Claimable(s, i) /\ OtherRowsSame(s, i)
    BY ClaimEffect
  <1>2. work[s][i].lease # "live"
    BY <1>1, LeaseWhileRunning DEF Claimable, LeaseExpired
  <1> QED BY <1>1, <1>2 DEF LiveRowsKept, OtherRowsSame

LEMMA ReapKeepsLive ==
    ASSUME StoreTypeOK, NEW s \in Stages, NEW b \in SUBSET Incidents,
           \A j \in b : Reapable(s, j), Reap(s, b)
    PROVE  LiveRowsKept
  <1>1. \A u \in Stages, j \in Incidents : ~(u = s /\ j \in b) => work'[u][j] = work[u][j]
    BY ReapEffect
  <1>2. \A j \in b : work[s][j].lease = "expired"
    BY DEF Reapable, LeaseExpired
  <1> QED BY <1>1, <1>2 DEF LiveRowsKept

LEMMA TransitionKeepsLive ==
    ASSUME StoreTypeOK, StoreInv, NEW i \in Incidents, NEW s \in Stages, NEW n,
           Transition(i, ActiveStatus[s], n)
    PROVE  LiveRowsKept
  <1>1. ASSUME NEW u \in Stages, Enqueued(u, i), work[u][i].state = "ABSENT"
        PROVE  LiveRowsKept
    <2>1. work[u][i].lease = "none"
      BY <1>1, LeaseWhileRunning
    <2> QED BY <1>1, <2>1 DEF LiveRowsKept, Enqueued, OtherRowsSame
  <1>2. CASE work' = work
    BY <1>2 DEF LiveRowsKept
  <1> DEFINE e == ActiveStatus[s]
  <1>3. e \in LC!Statuses
    BY StageStatuses
  <1> HIDE DEF e
  <1>4. Transition(i, e, n)
    BY DEF e
  <1>5. \/ work' = work
        \/ \E u \in Stages : Enqueued(u, i) /\ work[u][i].state = "ABSENT"
    BY <1>3, <1>4, TransitionEffect, StatusTable
  <1> QED BY <1>1, <1>2, <1>5

LEMMA StoreContextKeepsLive ==
    ASSUME StoreTypeOK, StoreInv, NEW i \in Incidents, NEW n \in Nat, StoreContext(i, n)
    PROVE  LiveRowsKept
  <1>1. IncidentInv(i)
    BY StoreInvByIncident
  <1>2. work' = work
    BY <1>1, StoreContextEffect, StatusTable DEF IncidentInv, RowInv, InWork
  <1> QED BY <1>2 DEF LiveRowsKept

LEMMA HolderWrites ==
    ASSUME StoreTypeOK, NEW s \in Stages, NEW i \in Incidents, NEW n,
           \/ Renew(s, i, n) \/ Fail(s, i, n)
           \/ \E o \in Settled : Complete(s, i, n, o)
    PROVE  OnlyRowOf(s, i, n)
  <1>1. OtherRowsSame(s, i) /\ Current(s, i, n)
    BY RenewEffect, FailEffect, CompleteEffect DEF CanFail, CanComplete
  <1> QED BY <1>1 DEF OnlyRowOf, OtherRowsSame, Current

-----------------------------------------------------------------------------
(* The workers                                                             *)

(* A worker that holds a claim does not stay where it was.                 *)
LEMMA WorkerMovesOn ==
    ASSUME TypeOK, NEW w \in IncidentWorkers, HoldsIncident(w),
           Restart(w) \/ \E step : step # iw[w].pc /\ Goto(w, step)
    PROVE  iw'[w] # iw[w]
  <1>1. iw[w] \in IncidentWorkerState
    BY WorkerFields
  <1>2. CASE Restart(w)
    <2>1. iw'[w].pc = "reap_collection"
      BY <1>2 DEF Restart, TypeOK
    <2> QED BY <2>1 DEF HoldsIncident, CollectionSteps, LocalizationSteps
  <1>3. ASSUME NEW step, step # iw[w].pc, Goto(w, step) PROVE iw'[w] # iw[w]
    <2>1. iw'[w] = [iw[w] EXCEPT !.pc = step]
      BY <1>1, <1>3 DEF Goto, TypeOK
    <2>2. iw'[w].pc = step
      BY <1>1, <2>1 DEF IncidentWorkerState
    <2> QED BY <1>3, <2>2
  <1> QED BY <1>2, <1>3

LEMMA AgentMovesOn ==
    ASSUME TypeOK, NEW a \in Agents, HoldsAnalysis(a), AgentIdle(a)
    PROVE  aw'[a] # aw[a]
  <1>1. aw'[a].pc = "idle"
    BY DEF AgentIdle, Idle, TypeOK
  <1> QED BY <1>1 DEF HoldsAnalysis, AnalysisSteps

WorkersRow(w) ==
    /\ HoldsIncident(w) /\ iw'[w] # iw[w]
    /\ OnlyRowOf(StageOf(iw[w].pc), iw[w].incident, iw[w].claim)

LEMMA WorkerLeases ==
    ASSUME PipelineInv, NEW w \in IncidentWorkers,
           IncidentWorkerStep(w) \/ CrashIncidentWorker(w)
    PROVE  LiveRowsKept \/ WorkersRow(w)
  <1> DEFINE i == iw[w].incident
             n == iw[w].claim
  <1>0. TypeOK /\ StoreTypeOK /\ StoreInv /\ "collection" \in Stages /\ "localization" \in Stages
    BY StatusTable DEF PipelineInv, TypeOK
  <1>1. ASSUME work' = work PROVE LiveRowsKept
    BY <1>1 DEF LiveRowsKept
  <1>2. ASSUME UNCHANGED storeVars PROVE LiveRowsKept
    BY <1>1, <1>2 DEF storeVars, queueVars
  <1>3. HoldsIncident(w) => i \in Incidents /\ n \in Nat
    BY <1>0, WorkerFields
  <1>4. ASSUME NEW s \in Stages,
               NEW b \in ReapBatches({j \in Incidents : Reapable(s, j)}), Reap(s, b)
        PROVE  LiveRowsKept
    BY <1>0, <1>4, ReapKeepsLive DEF ReapBatches
  <1>5. CASE ReapCollection(w) \/ ReapLocalization(w)
    BY <1>0, <1>4, <1>5 DEF ReapCollection, ReapLocalization
  <1>6. CASE ClaimCollection(w) \/ ClaimLocalization(w)
    BY <1>0, <1>2, <1>6, ClaimKeepsLive DEF ClaimCollection, ClaimLocalization
  <1>7. CASE Collect(w) \/ Plan(w) \/ CheckLease(w) \/ CheckLocalizing(w)
             \/ CrashIncidentWorker(w)
    BY <1>2, <1>7 DEF Collect, Plan, CheckLease, CheckLocalizing, CrashIncidentWorker
  <1>8. CASE StoreStatuses(w) \/ StoreCollected(w) \/ StoreCandidates(w)
    BY <1>1, <1>2, <1>8 DEF StoreStatuses, StoreCollected, StoreCandidates, Raise,
       ReplaceCollectorStatuses, StoreEvidence, StoreCollection, queueVars
  <1>9. CASE FreezeContext(w)
    <2>1. HoldsIncident(w)
      BY <1>9 DEF FreezeContext, At, HoldsIncident, LocalizationSteps
    <2> QED BY <1>0, <1>2, <1>3, <1>9, <2>1, StoreContextKeepsLive DEF FreezeContext, Raise
  <1>10. ASSUME NEW s \in Stages, NEW next, HoldsIncident(w), Transition(i, ActiveStatus[s], next)
         PROVE  LiveRowsKept
    BY <1>0, <1>3, <1>10, TransitionKeepsLive
  <1>11. CASE LeaveCollecting(w)
    <2>1. HoldsIncident(w)
      BY <1>11 DEF LeaveCollecting, At, HoldsIncident, CollectionSteps
    <2> QED BY <1>2, <1>10, <1>11, <2>1, StatusTable DEF LeaveCollecting, Raise
  <1>12. CASE LeaveLocalizing(w) \/ MarkLocalizationFailed(w)
    <2>1. HoldsIncident(w)
      BY <1>12 DEF LeaveLocalizing, MarkLocalizationFailed, At, HoldsIncident, LocalizationSteps
    <2> QED BY <1>2, <1>10, <1>12, <2>1, StatusTable
            DEF LeaveLocalizing, MarkLocalizationFailed, Raise
  <1>13. ASSUME NEW s \in Stages, HoldsIncident(w), StageOf(iw[w].pc) = s,
                Restart(w) \/ \E step : step # iw[w].pc /\ Goto(w, step),
                \/ Renew(s, i, n) \/ Fail(s, i, n)
                \/ \E o \in Settled : Complete(s, i, n, o)
         PROVE  WorkersRow(w)
    <2>1. OnlyRowOf(s, i, n)
      BY <1>0, <1>3, <1>13, HolderWrites
    <2>2. iw'[w] # iw[w]
      BY <1>0, <1>13, WorkerMovesOn
    <2> QED BY <1>13, <2>1, <2>2 DEF WorkersRow
  <1>14. CASE CompleteCollection(w) \/ FailCollection(w)
    <2>1. /\ iw[w].pc \in {"complete_collection", "fail_collection"}
          /\ HoldsIncident(w) /\ StageOf(iw[w].pc) = "collection"
      BY <1>14, StepSets DEF CompleteCollection, FailCollection, At, HoldsIncident, CollectionSteps
    <2>2. CASE CompleteCollection(w)
      <3>1. iw[w].pc = "complete_collection"
        BY <2>2 DEF CompleteCollection, At
      <3>2. \A o \in {"SUCCEEDED", "FAILED"} : o \in Settled
        BY DEF Settled
      <3>3. UNCHANGED storeVars \/ \E o \in Settled : Complete("collection", i, n, o)
        BY <2>2, <3>2 DEF CompleteCollection, Raise
      <3>4. Restart(w) \/ Goto(w, "fail_collection")
        BY <2>2 DEF CompleteCollection, Raise
      <3> QED BY <1>0, <1>2, <1>13, <2>1, <3>1, <3>3, <3>4
    <2>3. CASE FailCollection(w)
      BY <1>0, <1>2, <1>13, <2>1, <2>3 DEF FailCollection
    <2> QED BY <1>14, <2>2, <2>3
  <1>15. CASE RenewLease(w) \/ CompleteLocalization(w) \/ FailLocalization(w)
    <2>1. /\ HoldsIncident(w) /\ StageOf(iw[w].pc) = "localization"
      BY <1>15, StepSets DEF RenewLease, CompleteLocalization, FailLocalization, At,
         HoldsIncident, LocalizationSteps
    <2>2. CASE RenewLease(w)
      <3>1. iw[w].pc = "renew_lease"
        BY <2>2 DEF RenewLease, At
      <3>2. Goto(w, "check_localizing") \/ Goto(w, "fail_localization")
        BY <2>2 DEF RenewLease, Raise, Return
      <3> QED BY <1>0, <1>2, <1>13, <2>1, <2>2, <3>1, <3>2 DEF RenewLease, Raise
    <2>3. CASE CompleteLocalization(w)
      <3>1. iw[w].pc = "complete_localization" /\ "SUCCEEDED" \in Settled
        BY <2>3 DEF CompleteLocalization, At, Settled
      <3>2. Restart(w) \/ Goto(w, "fail_localization")
        BY <2>3 DEF CompleteLocalization, Raise
      <3> QED BY <1>0, <1>2, <1>13, <2>1, <2>3, <3>1, <3>2 DEF CompleteLocalization, Raise
    <2>4. CASE FailLocalization(w)
      BY <1>0, <1>2, <1>13, <2>1, <2>4 DEF FailLocalization
    <2> QED BY <1>15, <2>2, <2>3, <2>4
  <1> QED BY <1>5, <1>6, <1>7, <1>8, <1>9, <1>11, <1>12, <1>14, <1>15 DEF IncidentWorkerStep

AgentsRow(a) ==
    /\ HoldsAnalysis(a) /\ aw'[a] # aw[a]
    /\ OnlyRowOf("analysis", aw[a].incident, aw[a].claim)

LEMMA AgentLeases ==
    ASSUME PipelineInv, NEW a \in Agents, AgentStep(a) \/ CrashAgentWorker(a)
    PROVE  LiveRowsKept \/ AgentsRow(a)
  <1> DEFINE i == aw[a].incident
             n == aw[a].claim
  <1>0. TypeOK /\ StoreTypeOK /\ StoreInv /\ "analysis" \in Stages /\ Eligible \in SUBSET Incidents
    BY StatusTable, EligibleAssumption DEF PipelineInv, TypeOK
  <1>1. ASSUME work' = work PROVE LiveRowsKept
    BY <1>1 DEF LiveRowsKept
  <1>2. ASSUME UNCHANGED storeVars PROVE LiveRowsKept
    BY <1>1, <1>2 DEF storeVars, queueVars
  <1>3. HoldsAnalysis(a) => i \in Incidents
    BY <1>0, AgentFields
  <1>4. CASE ReapAnalysis(a)
    <2>1. PICK b \in ReapBatches({j \in Eligible : Reapable("analysis", j)}) : Reap("analysis", b)
      BY <1>4 DEF ReapAnalysis
    <2>2. b \in SUBSET Incidents /\ \A j \in b : Reapable("analysis", j)
      BY <1>0 DEF ReapBatches
    <2> QED BY <1>0, <2>1, <2>2, ReapKeepsLive
  <1>5. CASE ClaimNextEligible(a) \/ ClaimIncident(a)
    BY <1>0, <1>2, <1>5, ClaimKeepsLive DEF ClaimNextEligible, ClaimIncident
  <1>6. CASE CheckAnalyzing(a) \/ Investigate(a) \/ CrashAgentWorker(a)
    BY <1>2, <1>6 DEF CheckAnalyzing, Investigate, CrashAgentWorker
  <1>7. CASE StoreAcceptedRun(a) \/ StoreAcceptedReport(a) \/ StoreFailureAudit(a)
    BY <1>1, <1>2, <1>7 DEF StoreAcceptedRun, StoreAcceptedReport, StoreFailureAudit,
       AgentRaise, StoreAgentRun, StoreReport, queueVars
  <1>8. CASE LeaveAnalyzing(a) \/ MarkAnalysisFailed(a)
    <2>1. i \in Incidents
      BY <1>3, <1>8 DEF LeaveAnalyzing, MarkAnalysisFailed, AgentAt, HoldsAnalysis, AnalysisSteps
    <2>2. ASSUME NEW next, Transition(i, "ANALYZING", next) PROVE LiveRowsKept
      BY <1>0, <2>1, <2>2, TransitionKeepsLive, StatusTable
    <2> QED BY <1>2, <1>8, <2>2 DEF LeaveAnalyzing, MarkAnalysisFailed, AgentRaise
  <1>9. CASE CompleteAnalysis(a) \/ FailAnalysis(a)
    <2>1. HoldsAnalysis(a) /\ aw'[a] # aw[a]
      <3>1. HoldsAnalysis(a) /\ AgentIdle(a)
        BY <1>9 DEF CompleteAnalysis, FailAnalysis, AgentAt, HoldsAnalysis, AnalysisSteps
      <3> QED BY <1>0, <3>1, AgentMovesOn
    <2>2. "SUCCEEDED" \in Settled
      BY DEF Settled
    <2>3. \/ UNCHANGED storeVars \/ Fail("analysis", i, n)
          \/ Complete("analysis", i, n, "SUCCEEDED")
      BY <1>9 DEF CompleteAnalysis, FailAnalysis
    <2>4. UNCHANGED storeVars \/ OnlyRowOf("analysis", i, n)
      BY <1>0, <1>3, <2>1, <2>2, <2>3, HolderWrites
    <2> QED BY <1>2, <2>1, <2>4 DEF AgentsRow
  <1> QED BY <1>4, <1>5, <1>6, <1>7, <1>8, <1>9 DEF AgentStep

-----------------------------------------------------------------------------
(* A row whose lease is live is changed by the clock or by its holder.     *)
LiveRowChange ==
    \A s \in Stages, i \in Incidents :
        work[s][i].lease = "live" /\ work'[s][i] # work[s][i] =>
            \/ work'[s][i] = [work[s][i] EXCEPT !.lease = "expired"]
            \/ \E w \in IncidentWorkers :
                /\ HoldsIncident(w) /\ iw'[w] # iw[w]
                /\ StageOf(iw[w].pc) = s /\ iw[w].incident = i
                /\ iw[w].claim = work[s][i].attempts
            \/ \E a \in Agents :
                /\ HoldsAnalysis(a) /\ aw'[a] # aw[a]
                /\ s = "analysis" /\ aw[a].incident = i
                /\ aw[a].claim = work[s][i].attempts

LEMMA NextLeases ==
    ASSUME PipelineInv, [Next]_vars
    PROVE  LiveRowChange
  <1>0. StoreTypeOK /\ StoreInv
    BY DEF PipelineInv, TypeOK
  <1>1. ASSUME LiveRowsKept PROVE LiveRowChange
    BY <1>1 DEF LiveRowsKept, LiveRowChange
  <1>2. ASSUME NEW i \in Incidents, ReceiveAlert(i) PROVE LiveRowChange
    BY <1>0, <1>1, <1>2, ReceiveKeepsLive DEF ReceiveAlert
  <1>3. ASSUME NEW s \in Stages, NEW i \in Incidents, ExpireLease(s, i) PROVE LiveRowChange
    <2>1. /\ work'[s][i] = [work[s][i] EXCEPT !.lease = "expired"]
          /\ \A u \in Stages, j \in Incidents :
                ~(u = s /\ j = i) => work'[u][j] = work[u][j]
      BY <1>0, <1>3, ExpireEffect DEF ExpireLease, OtherRowsSame
    <2>2. ASSUME NEW u \in Stages, NEW j \in Incidents, work'[u][j] # work[u][j]
          PROVE  work'[u][j] = [work[u][j] EXCEPT !.lease = "expired"]
      <3>1. u = s /\ j = i
        BY <2>1, <2>2
      <3> QED BY <2>1, <3>1
    <2> QED BY <2>2, Zenon DEF LiveRowChange
  <1>4. ASSUME NEW w \in IncidentWorkers, IncidentWorkerStep(w) \/ CrashIncidentWorker(w)
        PROVE  LiveRowChange
    <2>1. ASSUME WorkersRow(w) PROVE LiveRowChange
      BY <2>1 DEF WorkersRow, OnlyRowOf, LiveRowChange
    <2> QED BY <1>1, <1>4, <2>1, WorkerLeases
  <1>5. ASSUME NEW a \in Agents, AgentStep(a) \/ CrashAgentWorker(a) PROVE LiveRowChange
    <2>1. ASSUME AgentsRow(a) PROVE LiveRowChange
      BY <2>1 DEF AgentsRow, OnlyRowOf, LiveRowChange
    <2> QED BY <1>1, <1>5, <2>1, AgentLeases
  <1>6. CASE UNCHANGED vars
    BY <1>6 DEF vars, storeVars, queueVars, LiveRowChange
  <1>7. CASE Crash
    BY <1>4, <1>5, <1>7 DEF Crash
  <1> QED BY <1>2, <1>3, <1>4, <1>5, <1>6, <1>7 DEF Next, RunIncidentWorker, RunAgent

(* While a lease is live only its holder touches the row, for any number    *)
(* of workers: reclaiming, reaping and stale completions wait for expiry.  *)
THEOREM LiveLeasesProtect == Spec => LiveLeaseProtects
  <1>1. PipelineInv /\ [Next]_vars => [LiveRowChange]_vars
    BY NextLeases
  <1> QED BY <1>1, PipelineIsConsistent, PTL DEF Spec, LiveLeaseProtects, LiveRowChange

-----------------------------------------------------------------------------
(* The status graph                                                        *)

Early == {"NEW", "RECEIVED", "COLLECTING"}

LEMMA StatusMoves ==
    /\ "RECEIVED" \in LC!AllowedTransitions["NEW"]
    /\ "COLLECTING" \in LC!AllowedTransitions["RECEIVED"]
    /\ \A s \in Stages : "FAILED" \in LC!AllowedTransitions[ActiveStatus[s]]
    /\ \A e \in LC!Statuses : \A n \in LC!AllowedTransitions[e] :
        /\ e \notin Early => n \notin Early
        /\ e \notin LC!Terminal
        /\ e = "ANALYZING" => n \in LC!Terminal
  BY StatusTable DEF LC!AllowedTransitions, LC!Statuses, LC!Terminal, Early

-----------------------------------------------------------------------------
(* What a transaction may do                                               *)

\* The statuses a row of the stage may say SUCCEEDED in.
DoneIn == [s \in Stages |-> CASE s = "collection"   -> LC!Statuses \ Early
                              [] s = "localization" -> {"ANALYZING"}
                              [] s = "analysis"     -> {"REPORTED", "PARTIAL"}]

MovesAllowed ==
    \A i \in Incidents : status'[i] # status[i] =>
        /\ status'[i] \in LC!AllowedTransitions[status[i]]
        /\ status'[i] # "PARTIAL"
        /\ status'[i] = "ANALYZING" => contexts[i] # {}

SettlesHonestly ==
    \A s \in Stages, i \in Incidents : work'[s][i] # work[s][i] =>
        /\ work'[s][i].state = "SUCCEEDED" => status'[i] \in DoneIn[s]
        /\ work'[s][i].state = "FAILED" => status'[i] = "FAILED"

PinsStored ==
    \A i \in Incidents :
        /\ work["analysis"][i].state # "ABSENT" =>
                pinned'[i] = pinned[i] /\ work'["analysis"][i].state # "ABSENT"
        /\ work["analysis"][i].state = "ABSENT" /\ work'["analysis"][i].state # "ABSENT" =>
                pinned'[i] \in contexts'[i]

Orderly == MovesAllowed /\ SettlesHonestly /\ PinsStored

\* The transactions that neither write an artifact nor report.
Quiet ==
    /\ Orderly
    /\ contexts' = contexts /\ audits' = audits /\ reports' = reports
    /\ \A i \in Incidents : status'[i] = "REPORTED" => status[i] = "REPORTED"

LEMMA DoneInTable ==
    /\ DoneIn["collection"] = LC!Statuses \ Early
    /\ DoneIn["localization"] = {"ANALYZING"}
    /\ DoneIn["analysis"] = {"REPORTED", "PARTIAL"}
  BY StatusTable DEF DoneIn

(* A transaction on one row that changes neither status nor pin.           *)
LEMMA OneRowOrderly ==
    ASSUME StoreTypeOK, NEW s \in Stages, NEW i \in Incidents,
           status' = status, pinned' = pinned, OtherRowsSame(s, i),
           work[s][i].state # "ABSENT", work'[s][i].state # "ABSENT",
           work'[s][i].state = "SUCCEEDED" => status[i] \in DoneIn[s],
           work'[s][i].state = "FAILED" => status[i] = "FAILED"
    PROVE  Orderly
  <1>1. MovesAllowed
    BY DEF MovesAllowed
  <1>2. SettlesHonestly
    BY DEF SettlesHonestly, OtherRowsSame
  <1>3. PinsStored
    BY StatusTable DEF PinsStored, OtherRowsSame
  <1> QED BY <1>1, <1>2, <1>3 DEF Orderly

LEMMA StutterQuiet ==
    ASSUME UNCHANGED storeVars
    PROVE  Quiet
  BY DEF storeVars, artifactVars, queueVars, Quiet, Orderly, MovesAllowed,
         SettlesHonestly, PinsStored

LEMMA ReceiveQuiet ==
    ASSUME StoreTypeOK, StoreInv, NEW i \in Incidents, Receive(i)
    PROVE  Quiet
  <1>1. /\ status[i] = "NEW" /\ status'[i] = "RECEIVED"
        /\ \A j \in Incidents : j # i => status'[j] = status[j]
        /\ pinned' = pinned /\ UNCHANGED artifactVars
        /\ work'["collection"][i] = ReadyRow /\ OtherRowsSame("collection", i)
    BY ReceiveEffect DEF Receive, StoreTypeOK
  <1>2. MovesAllowed
    BY <1>1, StatusMoves DEF MovesAllowed
  <1>3. SettlesHonestly
    BY <1>1 DEF SettlesHonestly, OtherRowsSame, ReadyRow
  <1>4. PinsStored
    BY <1>1, StatusTable DEF PinsStored, OtherRowsSame
  <1> QED BY <1>1, <1>2, <1>3, <1>4 DEF Quiet, Orderly, artifactVars

LEMMA ClaimQuiet ==
    ASSUME StoreTypeOK, StoreInv, NEW s \in Stages, NEW i \in Incidents, Claim(s, i)
    PROVE  Quiet
  <1>1. /\ status'[i] = ActiveStatus[s] /\ status[i] \in {ReadyStatus[s], ActiveStatus[s]}
        /\ \A j \in Incidents : j # i => status'[j] = status[j]
        /\ pinned' = pinned /\ UNCHANGED artifactVars
        /\ work'[s][i].state = "RUNNING" /\ work[s][i].state # "ABSENT" /\ OtherRowsSame(s, i)
    <2>1. Claimable(s, i) /\ UNCHANGED artifactVars
      BY DEF Claim
    <2>2. work'[s][i] = RunningRow(work[s][i])
      BY ClaimEffect
    <2> QED BY <2>1, <2>2, ClaimEffect DEF Claimable, RunningRow
  <1>2. MovesAllowed
    BY <1>1, StatusMoves, StatusTable DEF MovesAllowed
  <1>3. SettlesHonestly
    BY <1>1 DEF SettlesHonestly, OtherRowsSame
  <1>4. PinsStored
    BY <1>1, StatusTable DEF PinsStored, OtherRowsSame
  <1>5. \A j \in Incidents : status'[j] = "REPORTED" => status[j] = "REPORTED"
    BY <1>1, StatusTable
  <1> QED BY <1>1, <1>2, <1>3, <1>4, <1>5 DEF Quiet, Orderly, artifactVars

LEMMA LeaseQuiet ==
    ASSUME StoreTypeOK, StoreInv, NEW s \in Stages, NEW i \in Incidents, NEW n,
           Renew(s, i, n) \/ Expire(s, i)
    PROVE  Quiet
  <1>1. work[s][i] \in Row
    BY DEF StoreTypeOK
  <1>2. /\ UNCHANGED <<status, pinned, artifactVars>> /\ OtherRowsSame(s, i)
        /\ work[s][i].state = "RUNNING" /\ work'[s][i].state = "RUNNING"
    <2>1. CASE Renew(s, i, n)
      <3>1. work'[s][i] = [work[s][i] EXCEPT !.lease = "live"] /\ Current(s, i, n)
        BY <2>1, RenewEffect
      <3>2. work'[s][i].state = work[s][i].state
        BY <1>1, <3>1, RowValues DEF Leases
      <3> QED BY <2>1, <3>1, <3>2, RenewEffect DEF Renew, Current
    <2>2. CASE Expire(s, i)
      <3>1. work'[s][i] = [work[s][i] EXCEPT !.lease = "expired"]
        BY <2>2, ExpireEffect
      <3>2. work'[s][i].state = work[s][i].state
        BY <1>1, <3>1, RowValues DEF Leases
      <3>3. work[s][i].state = "RUNNING"
        BY <2>2, ExpireEffect, StoreInvByIncident DEF IncidentInv, RowInv
      <3> QED BY <2>2, <3>2, <3>3, ExpireEffect DEF Expire
    <2> QED BY <2>1, <2>2
  <1>3. Orderly
    BY <1>2, OneRowOrderly
  <1> QED BY <1>2, <1>3 DEF Quiet, artifactVars

LEMMA CompleteQuiet ==
    ASSUME StoreTypeOK, StoreInv, NEW s \in Stages, NEW i \in Incidents, NEW n,
           NEW o \in Settled, Complete(s, i, n, o),
           o = "FAILED" => status[i] = "FAILED"
    PROVE  Quiet
  <1>1. work[s][i] \in Row /\ o \in RowStates
    BY DEF StoreTypeOK, Settled, RowStates
  <1>2. /\ UNCHANGED <<status, pinned, artifactVars>> /\ OtherRowsSame(s, i)
        /\ work[s][i].state = "RUNNING" /\ work'[s][i].state = o
        /\ status[i] \in CompletesIn[s]
    <2>1. work'[s][i] = SettledRow(work[s][i], o) /\ CanComplete(s, i, n)
          /\ OtherRowsSame(s, i)
      BY CompleteEffect
    <2>2. work'[s][i].state = o
      BY <1>1, <2>1, RowValues
    <2> QED BY <2>1, <2>2 DEF Complete, CanComplete, Current
  <1>3. CompletesIn[s] \subseteq DoneIn[s]
    BY StatusTable, DoneInTable DEF CompletesIn, LC!Statuses, Early
  <1>4. Orderly
    <2>1. o # "ABSENT"
      BY DEF Settled
    <2> QED BY <1>2, <1>3, <2>1, OneRowOrderly
  <1> QED BY <1>2, <1>4 DEF Quiet, artifactVars

LEMMA FailQuiet ==
    ASSUME StoreTypeOK, StoreInv, NEW s \in Stages, NEW i \in Incidents, NEW n, Fail(s, i, n)
    PROVE  Quiet
  <1>1. work[s][i] \in Row /\ "FAILED" \in RowStates
    BY DEF StoreTypeOK, RowStates
  <1>2. /\ status'[i] = "FAILED" /\ status[i] \in {ActiveStatus[s], "FAILED"}
        /\ \A j \in Incidents : j # i => status'[j] = status[j]
        /\ UNCHANGED <<pinned, artifactVars>> /\ OtherRowsSame(s, i)
        /\ work[s][i].state = "RUNNING" /\ work'[s][i].state = "FAILED"
    <2>1. /\ work'[s][i] = SettledRow(work[s][i], "FAILED") /\ CanFail(s, i, n)
          /\ status'[i] = "FAILED" /\ OtherRowsSame(s, i)
          /\ \A j \in Incidents : j # i => status'[j] = status[j]
      BY FailEffect
    <2>2. work'[s][i].state = "FAILED"
      BY <1>1, <2>1, RowValues
    <2> QED BY <2>1, <2>2 DEF Fail, CanFail, Current
  <1>3. MovesAllowed
    BY <1>2, StatusMoves DEF MovesAllowed
  <1>4. SettlesHonestly
    BY <1>2 DEF SettlesHonestly, OtherRowsSame
  <1>5. PinsStored
    BY <1>2, StatusTable DEF PinsStored, OtherRowsSame
  <1>6. \A j \in Incidents : status'[j] = "REPORTED" => status[j] = "REPORTED"
    BY <1>2
  <1> QED BY <1>2, <1>3, <1>4, <1>5, <1>6 DEF Quiet, Orderly, artifactVars

LEMMA ReapQuiet ==
    ASSUME StoreTypeOK, StoreInv, NEW s \in Stages, NEW b \in SUBSET Incidents,
           \A j \in b : Reapable(s, j), Reap(s, b)
    PROVE  Quiet
  <1> DEFINE outcome(j) == IF status[j] \in RecoveredIn[s] THEN "SUCCEEDED" ELSE "FAILED"
  <1>1. \A j \in Incidents :
            status'[j] = IF j \in b /\ status[j] = ActiveStatus[s] THEN "FAILED" ELSE status[j]
    BY ReapEffect
  <1>2. \A j \in b : /\ work[s][j].state = "RUNNING"
                     /\ status[j] \in RecoveredIn[s] \cup {"FAILED", ActiveStatus[s]}
    BY DEF Reapable
  <1>3. RecoveredIn[s] \subseteq DoneIn[s] /\ ActiveStatus[s] \notin RecoveredIn[s]
    BY StatusTable, DoneInTable DEF RecoveredIn, LC!Statuses, Early
  <1>4. ASSUME NEW j \in b PROVE work'[s][j].state = outcome(j)
    <2>1. work'[s][j] = SettledRow(work[s][j], outcome(j))
      BY DEF Reap, StoreTypeOK
    <2>2. outcome(j) \in RowStates /\ work[s][j] \in Row
      BY DEF RowStates, StoreTypeOK
    <2> QED BY <2>1, <2>2, RowValues
  <1>5. ASSUME NEW u \in Stages, NEW j \in Incidents, ~(u = s /\ j \in b)
        PROVE  work'[u][j] = work[u][j]
    BY <1>5, ReapEffect
  <1>6. MovesAllowed
    BY <1>1, StatusMoves DEF MovesAllowed
  <1>7. SettlesHonestly
    <2>1. ASSUME NEW j \in b
          PROVE  /\ work'[s][j].state = "SUCCEEDED" => status'[j] \in DoneIn[s]
                 /\ work'[s][j].state = "FAILED" => status'[j] = "FAILED"
      BY <1>1, <1>2, <1>3, <1>4
    <2> QED BY <1>5, <2>1 DEF SettlesHonestly
  <1>8. pinned' = pinned /\ UNCHANGED artifactVars
    BY DEF Reap
  <1>9. PinsStored
    <2>1. ASSUME NEW j \in Incidents, work["analysis"][j].state = "ABSENT"
          PROVE  work'["analysis"][j] = work["analysis"][j]
      BY <1>2, <1>5, <2>1, StatusTable
    <2>2. ASSUME NEW j \in Incidents, work["analysis"][j].state # "ABSENT"
          PROVE  work'["analysis"][j].state # "ABSENT"
      <3>1. CASE s = "analysis" /\ j \in b
        BY <1>4, <3>1
      <3>2. CASE ~(s = "analysis" /\ j \in b)
        BY <1>5, <2>2, <3>2, StatusTable
      <3> QED BY <3>1, <3>2
    <2> QED BY <1>8, <2>1, <2>2 DEF PinsStored
  <1>10. \A j \in Incidents : status'[j] = "REPORTED" => status[j] = "REPORTED"
    BY <1>1
  <1> QED BY <1>6, <1>7, <1>8, <1>9, <1>10 DEF Quiet, Orderly, artifactVars

LEMMA TransitionOrderly ==
    ASSUME StoreTypeOK, StoreInv, NEW i \in Incidents, NEW s \in Stages, NEW n,
           Transition(i, ActiveStatus[s], n),
           n # "PARTIAL", n = "ANALYZING" => contexts[i] # {}
    PROVE  /\ Orderly /\ UNCHANGED artifactVars
           /\ status'[i] = n
           /\ \A j \in Incidents : j # i => status'[j] = status[j]
  <1> DEFINE e == ActiveStatus[s]
  <1>0. e \in LC!Statuses
    BY StageStatuses
  <1> HIDE DEF e
  <1>1. Transition(i, e, n)
    BY DEF e
  <1>2. /\ n \in LC!AllowedTransitions[e] /\ status[i] = e /\ status'[i] = n
        /\ \A j \in Incidents : j # i => status'[j] = status[j] /\ pinned'[j] = pinned[j]
    BY <1>0, <1>1, TransitionEffect
  <1>3. UNCHANGED artifactVars
    BY <1>1 DEF Transition
  <1>4. MovesAllowed
    BY <1>2 DEF MovesAllowed
  <1>5. work' = work \/ Enqueued("localization", i) \/ Enqueued("analysis", i)
    BY <1>0, <1>1, TransitionEffect
  <1>6. SettlesHonestly
    BY <1>5, StatusTable DEF SettlesHonestly, Enqueued, OtherRowsSame, ReadyRow
  <1>7. PinsStored
    <2>1. CASE n = "ANALYZING" /\ work["analysis"][i].state = "ABSENT"
      <3>1. \E c \in contexts[i] : pinned' = [pinned EXCEPT ![i] = c]
        BY <1>1, <2>1 DEF Transition, Enqueue, EnqueueAnalysis
      <3>2. pinned'[i] \in contexts'[i]
        BY <1>3, <3>1 DEF StoreTypeOK, artifactVars
      <3>3. \A j \in Incidents : j # i => work'["analysis"][j] = work["analysis"][j]
        BY <1>5, StatusTable DEF Enqueued, OtherRowsSame
      <3> QED BY <1>2, <2>1, <3>2, <3>3 DEF PinsStored
    <2>2. CASE ~(n = "ANALYZING" /\ work["analysis"][i].state = "ABSENT")
      <3>1. pinned' = pinned
        BY <1>0, <1>1, <2>2, TransitionEffect
      <3>2. \A j \in Incidents : work'["analysis"][j] = work["analysis"][j]
        <4>1. work' = work \/ Enqueued("localization", i)
          BY <1>0, <1>1, <2>2, TransitionEffect
        <4> QED BY <4>1, StatusTable DEF Enqueued, OtherRowsSame
      <3> QED BY <3>1, <3>2 DEF PinsStored
    <2> QED BY <2>1, <2>2
  <1> QED BY <1>2, <1>3, <1>4, <1>6, <1>7 DEF Orderly

LEMMA TransitionQuiet ==
    ASSUME StoreTypeOK, StoreInv, NEW i \in Incidents, NEW s \in Stages, NEW n,
           Transition(i, ActiveStatus[s], n),
           n \notin {"PARTIAL", "REPORTED"}, n = "ANALYZING" => contexts[i] # {}
    PROVE  Quiet /\ status'[i] = n
  BY TransitionOrderly DEF Quiet, artifactVars

(* Artifact writes touch neither the status nor the queues.                *)
LEMMA ArtifactOrderly ==
    ASSUME status' = status, work' = work, pinned' = pinned
    PROVE  Orderly
  BY DEF Orderly, MovesAllowed, SettlesHonestly, PinsStored

-----------------------------------------------------------------------------
(* The incident workers: what each action does to the database, and how a   *)
(* worker comes to complete a failed collection.                           *)

(* A Context is stored for an Incident that has left COLLECTING.           *)
Freezes(i) ==
    /\ status' = status /\ status[i] \notin Early
    /\ contexts'[i] # {}
    /\ \A j \in Incidents : j # i => contexts'[j] = contexts[j]

WorkerRecords ==
    /\ Orderly
    /\ audits' = audits /\ reports' = reports
    /\ contexts' = contexts \/ \E i \in Incidents : Freezes(i)
    /\ \A i \in Incidents : status'[i] = "REPORTED" => status[i] = "REPORTED"

LEMMA QuietRecords ==
    ASSUME Quiet PROVE WorkerRecords
  BY DEF Quiet, WorkerRecords

FailedCollectionEnded(w) ==
    iw'[w].pc = "complete_collection" /\ iw'[w].run = "FAILED" => status'[iw'[w].incident] = "FAILED"

LEMMA GotoStep ==
    ASSUME TypeOK, NEW w \in IncidentWorkers, NEW step, Goto(w, step)
    PROVE  iw'[w].pc = step /\ iw'[w].run = iw[w].run /\ iw'[w].incident = iw[w].incident
  <1>1. /\ iw[w] \in IncidentWorkerState
        /\ iw' = [iw EXCEPT ![w] = [iw[w] EXCEPT !.pc = step]]
    BY WorkerFields DEF Goto
  <1>2. iw'[w] = [iw[w] EXCEPT !.pc = step]
    BY <1>1 DEF TypeOK
  <1> QED BY <1>1, <1>2 DEF IncidentWorkerState

LEMMA ElsewhereIsFine ==
    ASSUME TypeOK, NEW w \in IncidentWorkers,
           \/ Restart(w)
           \/ \E step : step # "complete_collection" /\ Goto(w, step)
           \/ \E i, n, step : step # "complete_collection" /\ Begin(w, i, n, step)
    PROVE  FailedCollectionEnded(w)
  <1>1. CASE Restart(w)
    BY <1>1 DEF Restart, FailedCollectionEnded, TypeOK
  <1>2. ASSUME NEW step, step # "complete_collection", Goto(w, step)
        PROVE  FailedCollectionEnded(w)
    BY <1>2, GotoStep DEF FailedCollectionEnded
  <1>3. ASSUME NEW i, NEW n, NEW step, step # "complete_collection", Begin(w, i, n, step)
        PROVE  FailedCollectionEnded(w)
    BY <1>3 DEF Begin, FailedCollectionEnded, TypeOK
  <1> QED BY <1>1, <1>2, <1>3

LEMMA LoopRecords ==
    ASSUME PipelineInv, NEW w \in IncidentWorkers,
           \/ ReapCollection(w) \/ ReapLocalization(w)
           \/ ClaimLocalization(w) \/ ClaimCollection(w)
    PROVE  Quiet /\ FailedCollectionEnded(w)
  <1>0. TypeOK /\ StoreTypeOK /\ StoreInv
    BY DEF PipelineInv, TypeOK
  <1>1. ASSUME NEW s \in Stages,
               NEW b \in ReapBatches({i \in Incidents : Reapable(s, i)}), Reap(s, b)
        PROVE  Quiet
    BY <1>0, <1>1, ReapQuiet DEF ReapBatches
  <1>2. CASE ReapCollection(w)
    BY <1>0, <1>1, <1>2, ElsewhereIsFine, StatusTable DEF ReapCollection
  <1>3. CASE ReapLocalization(w)
    BY <1>0, <1>1, <1>3, ElsewhereIsFine, StatusTable DEF ReapLocalization
  <1>4. CASE ClaimLocalization(w)
    BY <1>0, <1>4, ClaimQuiet, StutterQuiet, ElsewhereIsFine, StatusTable DEF ClaimLocalization
  <1>5. CASE ClaimCollection(w)
    BY <1>0, <1>5, ClaimQuiet, StutterQuiet, ElsewhereIsFine, StatusTable DEF ClaimCollection
  <1> QED BY <1>2, <1>3, <1>4, <1>5

LEMMA ArtifactWritesRecord ==
    ASSUME StoreTypeOK, NEW i \in Incidents, NEW n \in Nat,
           NEW items \in SUBSET (Stages \X Nat),
           ReplaceCollectorStatuses(i, n) \/ StoreEvidence(i, items) \/ StoreCollection(i, n)
    PROVE  Quiet
  <1>1. /\ status' = status /\ work' = work /\ pinned' = pinned
        /\ contexts' = contexts /\ audits' = audits /\ reports' = reports
    BY DEF ReplaceCollectorStatuses, StoreEvidence, StoreCollection, queueVars
  <1> QED BY <1>1, ArtifactOrderly DEF Quiet

LEMMA CollectionRecords ==
    ASSUME PipelineInv, HistoryInv, NEW w \in IncidentWorkers,
           \/ Collect(w) \/ StoreStatuses(w) \/ StoreCollected(w) \/ LeaveCollecting(w)
           \/ CompleteCollection(w) \/ FailCollection(w)
    PROVE  Quiet /\ FailedCollectionEnded(w)
  <1> DEFINE i == iw[w].incident
             n == iw[w].claim
  <1>0. TypeOK /\ StoreTypeOK /\ StoreInv /\ "collection" \in Stages
    BY StatusTable DEF PipelineInv, TypeOK
  <1>1. HoldsIncident(w)
    BY DEF Collect, StoreStatuses, StoreCollected, LeaveCollecting, CompleteCollection,
           FailCollection, At, HoldsIncident, CollectionSteps
  <1>2. i \in Incidents /\ n \in Nat
    BY <1>0, <1>1, WorkerFields
  <1>3. ASSUME NEW step, step # "complete_collection", Goto(w, step) PROVE FailedCollectionEnded(w)
    BY <1>0, <1>3, ElsewhereIsFine
  <1>4. ASSUME UNCHANGED storeVars PROVE Quiet
    BY <1>4, StutterQuiet
  <1>5. CASE Collect(w)
    <2>1. ASSUME NEW run, iw' = [iw EXCEPT ![w].pc = "store_statuses", ![w].run = run]
          PROVE  FailedCollectionEnded(w)
      <3>1. iw[w] \in IncidentWorkerState
        BY <1>0, WorkerFields
      <3>2. iw'[w] = [iw[w] EXCEPT !.pc = "store_statuses", !.run = run]
        BY <1>0, <2>1 DEF TypeOK
      <3>3. iw'[w].pc = "store_statuses"
        BY <3>1, <3>2 DEF IncidentWorkerState
      <3> QED BY <3>3 DEF FailedCollectionEnded
    <2> QED BY <1>3, <1>4, <1>5, <2>1 DEF Collect
  <1>6. CASE StoreStatuses(w)
    <2>1. ASSUME ReplaceCollectorStatuses(i, n) PROVE Quiet
      <3>1. {} \in SUBSET (Stages \X Nat)
        OBVIOUS
      <3> QED BY <1>0, <1>2, <2>1, <3>1, ArtifactWritesRecord
    <2> QED BY <1>3, <1>4, <1>6, <2>1 DEF StoreStatuses, Raise, Return
  <1>7. CASE StoreCollected(w)
    <2>1. ASSUME NEW items \in SUBSET {<<"collection", n>>}, StoreEvidence(i, items) PROVE Quiet
      <3>1. items \in SUBSET (Stages \X Nat)
        BY <1>0, <1>2
      <3> QED BY <1>0, <1>2, <2>1, <3>1, ArtifactWritesRecord
    <2> QED BY <1>3, <1>4, <1>7, <2>1 DEF StoreCollected, Raise, Return
  <1>8. CASE LeaveCollecting(w)
    <2> DEFINE next == IF iw[w].run = "FAILED" THEN "FAILED" ELSE "LOCALIZING"
    <2>1. ASSUME Transition(i, "COLLECTING", next)
          PROVE  Quiet /\ status'[i] = next
      <3>1. /\ next \notin {"PARTIAL", "REPORTED"} /\ next # "ANALYZING"
            /\ Transition(i, ActiveStatus["collection"], next)
        BY <2>1, StatusTable
      <3> HIDE DEF next
      <3> QED BY <1>0, <1>2, <3>1, TransitionQuiet
    <2>2. ASSUME Transition(i, "COLLECTING", next), Goto(w, "complete_collection")
          PROVE  FailedCollectionEnded(w)
      <3>1. /\ iw'[w].run = iw[w].run /\ iw'[w].incident = i
        BY <1>0, <2>2, GotoStep
      <3> QED BY <2>1, <2>2, <3>1 DEF FailedCollectionEnded
    <2> QED BY <1>3, <1>4, <1>8, <2>1, <2>2 DEF LeaveCollecting, Raise, Return
  <1>9. CASE CompleteCollection(w)
    <2> DEFINE outcome == IF iw[w].run = "FAILED" THEN "FAILED" ELSE "SUCCEEDED"
    <2>1. ASSUME Complete("collection", i, n, outcome) PROVE Quiet
      <3>1. outcome \in Settled
        BY DEF Settled
      <3>2. outcome = "FAILED" => status[i] = "FAILED"
        BY <1>9 DEF CompleteCollection, HistoryInv, WorkersHaveStored
      <3> HIDE DEF outcome
      <3> QED BY <1>0, <1>2, <2>1, <3>1, <3>2, CompleteQuiet
    <2>2. ASSUME Restart(w) PROVE FailedCollectionEnded(w)
      BY <1>0, <2>2, ElsewhereIsFine
    <2> QED BY <1>3, <1>4, <1>9, <2>1, <2>2 DEF CompleteCollection, Raise
  <1>10. CASE FailCollection(w)
    BY <1>0, <1>2, <1>4, <1>10, FailQuiet, ElsewhereIsFine DEF FailCollection
  <1> QED BY <1>5, <1>6, <1>7, <1>8, <1>9, <1>10

(* An Incident whose localization has been claimed has been collected.     *)
LEMMA ClaimedIsCollected ==
    ASSUME PipelineInv, NEW w \in IncidentWorkers, iw[w].pc \in LocalizationSteps
    PROVE  status[iw[w].incident] \notin Early
  <1>1. HoldsIncident(w) /\ StageOf(iw[w].pc) = "localization"
    BY StepSets DEF HoldsIncident
  <1>2. iw[w].incident \in Incidents /\ iw[w].claim \in Nat \ {0}
    BY <1>1, WorkerFields DEF PipelineInv
  <1>3. /\ work["localization"][iw[w].incident].attempts \in Nat
        /\ iw[w].claim <= work["localization"][iw[w].incident].attempts
    BY <1>1, <1>2, RowFields, StatusTable DEF PipelineInv, ClaimsAreIssued, TypeOK, StoreTypeOK
  <1>4. work["localization"][iw[w].incident].state # "ABSENT"
    BY <1>2, <1>3, StatusTable DEF PipelineInv, StoreInv, AttemptsAreBounded
  <1> QED BY <1>2, <1>4 DEF PipelineInv, StoreInv, QueuesFollowStatus, Early

LEMMA StoreContextRecords ==
    ASSUME StoreTypeOK, StoreInv, NEW i \in Incidents, NEW n \in Nat, StoreContext(i, n),
           status[i] \notin Early
    PROVE  WorkerRecords
  <1>1. /\ status' = status /\ audits' = audits /\ reports' = reports
        /\ contexts' = [contexts EXCEPT ![i] = @ \cup {n}]
    BY DEF StoreContext
  <1>2. IncidentInv(i)
    BY StoreInvByIncident
  <1>3. work' = work /\ pinned' = pinned
    BY <1>2, StoreContextEffect, StatusTable DEF IncidentInv, RowInv, InWork
  <1>4. Freezes(i)
    BY <1>1 DEF Freezes, StoreTypeOK
  <1> QED BY <1>1, <1>3, <1>4, ArtifactOrderly DEF WorkerRecords

LEMMA LocalizationRecords ==
    ASSUME PipelineInv, NEW w \in IncidentWorkers,
           \/ Plan(w) \/ StoreCandidates(w) \/ CheckLease(w) \/ RenewLease(w)
           \/ CheckLocalizing(w) \/ FreezeContext(w) \/ LeaveLocalizing(w)
           \/ MarkLocalizationFailed(w) \/ CompleteLocalization(w) \/ FailLocalization(w)
    PROVE  WorkerRecords /\ FailedCollectionEnded(w)
  <1> DEFINE i == iw[w].incident
             n == iw[w].claim
  <1>0. TypeOK /\ StoreTypeOK /\ StoreInv /\ "localization" \in Stages
    BY StatusTable DEF PipelineInv, TypeOK
  <1>1. iw[w].pc \in LocalizationSteps /\ HoldsIncident(w)
    BY DEF Plan, StoreCandidates, CheckLease, RenewLease, CheckLocalizing, FreezeContext,
           LeaveLocalizing, MarkLocalizationFailed, CompleteLocalization, FailLocalization,
           At, LocalizationSteps, HoldsIncident
  <1>2. i \in Incidents /\ n \in Nat
    BY <1>0, <1>1, WorkerFields
  <1>3. ASSUME NEW step, step # "complete_collection", Goto(w, step) PROVE FailedCollectionEnded(w)
    BY <1>0, <1>3, ElsewhereIsFine
  <1>4. ASSUME UNCHANGED storeVars PROVE WorkerRecords
    BY <1>4, StutterQuiet, QuietRecords
  <1>5. ASSUME Restart(w) PROVE FailedCollectionEnded(w)
    BY <1>0, <1>5, ElsewhereIsFine
  <1>6. CASE Plan(w) \/ CheckLease(w) \/ CheckLocalizing(w)
    BY <1>3, <1>4, <1>6 DEF Plan, CheckLease, CheckLocalizing
  <1>7. CASE StoreCandidates(w)
    <2>1. ASSUME StoreCollection(i, n) PROVE WorkerRecords
      <3>1. {} \in SUBSET (Stages \X Nat)
        OBVIOUS
      <3> QED BY <1>0, <1>2, <2>1, <3>1, ArtifactWritesRecord, QuietRecords
    <2> QED BY <1>3, <1>4, <1>7, <2>1 DEF StoreCandidates, Raise, Return
  <1>8. CASE RenewLease(w)
    <2>1. ASSUME Renew("localization", i, n) PROVE WorkerRecords
      BY <1>0, <1>2, <2>1, LeaseQuiet, QuietRecords
    <2> QED BY <1>3, <1>4, <1>8, <2>1 DEF RenewLease, Raise, Return
  <1>9. CASE FreezeContext(w)
    <2>1. ASSUME StoreContext(i, n) PROVE WorkerRecords
      BY <1>0, <1>1, <1>2, <2>1, ClaimedIsCollected, StoreContextRecords
    <2> QED BY <1>3, <1>4, <1>9, <2>1 DEF FreezeContext, Raise, Return
  <1>10. ASSUME NEW next \in {"ANALYZING", "FAILED"}, Transition(i, "LOCALIZING", next),
                next = "ANALYZING" => contexts[i] # {}
         PROVE  WorkerRecords
    <2>1. Transition(i, ActiveStatus["localization"], next)
      BY <1>10, StatusTable
    <2> QED BY <1>0, <1>2, <1>10, <2>1, TransitionQuiet, QuietRecords
  <1>11. CASE LeaveLocalizing(w)
    <2>1. contexts[i] # {}
      BY <1>11 DEF LeaveLocalizing, PipelineInv, LeavesAfterFreezing
    <2> QED BY <1>3, <1>4, <1>10, <1>11, <2>1 DEF LeaveLocalizing, Raise, Return
  <1>12. CASE MarkLocalizationFailed(w)
    BY <1>3, <1>4, <1>10, <1>12 DEF MarkLocalizationFailed
  <1>13. CASE CompleteLocalization(w)
    <2>1. ASSUME Complete("localization", i, n, "SUCCEEDED") PROVE WorkerRecords
      <3>1. "SUCCEEDED" \in Settled
        BY DEF Settled
      <3> QED BY <1>0, <1>2, <2>1, <3>1, CompleteQuiet, QuietRecords
    <2> QED BY <1>3, <1>4, <1>5, <1>13, <2>1 DEF CompleteLocalization, Raise
  <1>14. CASE FailLocalization(w)
    <2>1. ASSUME Fail("localization", i, n) PROVE WorkerRecords
      BY <1>0, <1>2, <2>1, FailQuiet, QuietRecords
    <2> QED BY <1>4, <1>5, <1>14, <2>1 DEF FailLocalization
  <1> QED BY <1>6, <1>7, <1>8, <1>9, <1>11, <1>12, <1>13, <1>14

LEMMA WorkerRecordsStep ==
    ASSUME PipelineInv, HistoryInv, NEW w \in IncidentWorkers,
           IncidentWorkerStep(w) \/ CrashIncidentWorker(w)
    PROVE  WorkerRecords /\ FailedCollectionEnded(w)
  <1>1. CASE CrashIncidentWorker(w)
    BY <1>1, StutterQuiet, QuietRecords, ElsewhereIsFine DEF CrashIncidentWorker, PipelineInv
  <1>2. CASE IncidentWorkerStep(w)
    BY <1>2, LoopRecords, CollectionRecords, LocalizationRecords, QuietRecords
    DEF IncidentWorkerStep
  <1> QED BY <1>1, <1>2

-----------------------------------------------------------------------------
(* The agents: a report is stored after its accepted audit, and the Incident *)
(* is REPORTED after its report.                                           *)

HasStored(a) ==
    HoldsAnalysis(a) =>
        /\ aw[a].context = pinned[aw[a].incident]
        /\ AgentAt(a, "store_report") => audits[aw[a].incident][aw[a].claim] = "SUCCEEDED"
        /\ AgentAt(a, "leave_analyzing") => reports[aw[a].incident] # {}

Publishes(i) ==
    /\ status' = status /\ status[i] \in {"ANALYZING"} \cup LC!Terminal
    /\ contexts[i] # {} /\ reports'[i] # {}
    /\ \A j \in Incidents : j # i => reports'[j] = reports[j]

ReportsBackedStep ==
    \A i \in Incidents :
        /\ reports[i] \subseteq reports'[i]
        /\ \A r \in reports'[i] \ reports[i] :
            /\ r.claim \in 1..MaxAttempts /\ audits[i][r.claim] = "SUCCEEDED"
            /\ r.context = pinned[i]
            /\ work["analysis"][i].state # "ABSENT"

AuditsKept ==
    \A i \in Incidents, m \in 1..MaxAttempts :
        audits[i][m] = "SUCCEEDED" => audits'[i][m] = "SUCCEEDED"

ReportedIsPublished ==
    \A i \in Incidents : status'[i] = "REPORTED" => status[i] = "REPORTED" \/ reports[i] # {}

AgentRecords ==
    /\ Orderly
    /\ contexts' = contexts
    /\ AuditsKept /\ ReportsBackedStep /\ ReportedIsPublished
    /\ reports' = reports \/ \E i \in Incidents : Publishes(i)

LEMMA QuietAgentRecords ==
    ASSUME Quiet PROVE AgentRecords
  BY DEF Quiet, AgentRecords, AuditsKept, ReportsBackedStep, ReportedIsPublished

(* The row of an analysis that is held is not absent, nor its Incident      *)
(* still to be localized; and its claim is one of max_attempts.            *)
LEMMA ClaimedIsLocalized ==
    ASSUME PipelineInv, NEW a \in Agents, HoldsAnalysis(a)
    PROVE  /\ work["analysis"][aw[a].incident].state \notin {"ABSENT", "READY"}
           /\ status[aw[a].incident] \in {"ANALYZING"} \cup LC!Terminal
           /\ aw[a].claim \in 1..MaxAttempts
  <1> DEFINE i == aw[a].incident
  <1>1. i \in Incidents /\ aw[a].claim \in Nat \ {0}
    BY AgentFields DEF PipelineInv
  <1>2. /\ work["analysis"][i].attempts \in Nat
        /\ aw[a].claim <= work["analysis"][i].attempts
    BY <1>1, RowFields, StatusTable DEF PipelineInv, ClaimsAreIssued, TypeOK, StoreTypeOK
  <1>3. work["analysis"][i].attempts # 0
    BY <1>1, <1>2
  <1>4. /\ work["analysis"][i].state \notin {"ABSENT", "READY"}
        /\ work["analysis"][i].attempts <= MaxAttempts
    BY <1>1, <1>3, StatusTable DEF PipelineInv, StoreInv, AttemptsAreBounded
  <1>5. status[i] \in {"ANALYZING"} \cup LC!Terminal
    <2>1. status[i] \notin {"NEW", "RECEIVED", "COLLECTING", "LOCALIZING"}
      BY <1>1, <1>4 DEF PipelineInv, StoreInv, QueuesFollowStatus
    <2>2. status[i] \in LC!Statuses
      BY <1>1 DEF PipelineInv, TypeOK, StoreTypeOK
    <2> QED BY <2>1, <2>2 DEF LC!Statuses, LC!Terminal
  <1>6. aw[a].claim \in 1..MaxAttempts
    BY <1>1, <1>2, <1>4, MaxAttemptsAssumption
  <1> QED BY <1>4, <1>5, <1>6

LEMMA AgentGotoStored ==
    ASSUME PipelineInv, HistoryInv, NEW a \in Agents, HoldsAnalysis(a), Orderly,
           NEW step, AgentGoto(a, step),
           step = "store_report" => audits'[aw[a].incident][aw[a].claim] = "SUCCEEDED",
           step = "leave_analyzing" => reports'[aw[a].incident] # {}
    PROVE  HasStored(a)'
  <1>1. aw[a] \in AgentWorkerState /\ aw[a].incident \in Incidents
    BY AgentFields DEF PipelineInv
  <1>2. aw'[a] = [aw[a] EXCEPT !.pc = step]
    BY <1>1 DEF AgentGoto, PipelineInv, TypeOK
  <1>3. /\ aw'[a].pc = step /\ aw'[a].incident = aw[a].incident
        /\ aw'[a].claim = aw[a].claim /\ aw'[a].context = aw[a].context
    BY <1>1, <1>2 DEF AgentWorkerState
  <1>4. pinned'[aw[a].incident] = pinned[aw[a].incident]
    BY <1>1, ClaimedIsLocalized DEF Orderly, PinsStored
  <1>5. aw[a].context = pinned[aw[a].incident]
    BY DEF HistoryInv, WorkersHaveStored
  <1> QED BY <1>3, <1>4, <1>5 DEF HasStored, AgentAt

LEMMA AgentIdleStored ==
    ASSUME PipelineInv, NEW a \in Agents, AgentIdle(a) \/ (~HoldsAnalysis(a) /\ AgentGoto(a, "claim_analysis"))
    PROVE  HasStored(a)'
  <1>1. aw'[a].pc \in {"idle", "claim_analysis"}
    <2>1. CASE AgentIdle(a)
      BY <2>1 DEF AgentIdle, Idle, PipelineInv, TypeOK
    <2>2. CASE AgentGoto(a, "claim_analysis")
      <3>1. aw[a] \in AgentWorkerState
        BY AgentFields DEF PipelineInv
      <3>2. aw'[a] = [aw[a] EXCEPT !.pc = "claim_analysis"]
        BY <2>2 DEF AgentGoto, PipelineInv, TypeOK
      <3> QED BY <3>1, <3>2 DEF AgentWorkerState
    <2> QED BY <2>1, <2>2
  <1> QED BY <1>1 DEF HasStored, HoldsAnalysis, AnalysisSteps

LEMMA AgentClaimRecords ==
    ASSUME PipelineInv, NEW a \in Agents, NEW i \in Incidents,
           Claim("analysis", i), BeginAnalysis(a, i)
    PROVE  AgentRecords /\ HasStored(a)'
  <1>1. AgentRecords
    BY ClaimQuiet, QuietAgentRecords, StatusTable DEF PipelineInv, TypeOK
  <1>2. pinned' = pinned
    BY DEF Claim
  <1>3. aw'[a].pc = "check_analyzing" /\ aw'[a].incident = i /\ aw'[a].context = pinned[i]
    BY DEF BeginAnalysis, PipelineInv, TypeOK
  <1> QED BY <1>1, <1>2, <1>3 DEF HasStored, AgentAt

LEMMA AgentRunRecords ==
    ASSUME StoreTypeOK, NEW i \in Incidents, NEW n \in 1..MaxAttempts,
           NEW result \in {"SUCCEEDED", "REJECTED"}, StoreAgentRun(i, n, result)
    PROVE  /\ AgentRecords /\ audits'[i][n] = result /\ reports' = reports
  <1>1. /\ status' = status /\ work' = work /\ pinned' = pinned
        /\ contexts' = contexts /\ reports' = reports
        /\ audits[i][n] \in {"none", result}
        /\ audits' = [audits EXCEPT ![i][n] = result]
    BY DEF StoreAgentRun, queueVars
  <1>2. audits'[i][n] = result
    BY <1>1 DEF StoreTypeOK
  <1>3. AuditsKept
    BY <1>1 DEF AuditsKept, StoreTypeOK
  <1>4. ReportsBackedStep /\ ReportedIsPublished
    BY <1>1 DEF ReportsBackedStep, ReportedIsPublished
  <1> QED BY <1>1, <1>2, <1>3, <1>4, ArtifactOrderly DEF AgentRecords

LEMMA AgentReportRecords ==
    ASSUME PipelineInv, HistoryInv, NEW a \in Agents, AgentAt(a, "store_report"),
           StoreReport(aw[a].incident, aw[a].claim, aw[a].context)
    PROVE  AgentRecords /\ reports'[aw[a].incident] # {}
  <1> DEFINE i == aw[a].incident
             r == [claim |-> aw[a].claim, context |-> aw[a].context]
  <1>1. HoldsAnalysis(a)
    BY DEF AgentAt, HoldsAnalysis, AnalysisSteps
  <1>2. i \in Incidents
    BY <1>1, AgentFields DEF PipelineInv
  <1>3. /\ status' = status /\ work' = work /\ pinned' = pinned
        /\ contexts' = contexts /\ audits' = audits
        /\ reports' = [reports EXCEPT ![i] = @ \cup {r}]
        /\ contexts[i] # {}
    BY DEF StoreReport, queueVars
  <1>4. /\ r.claim \in 1..MaxAttempts /\ r.context = pinned[i]
        /\ audits[i][r.claim] = "SUCCEEDED"
        /\ work["analysis"][i].state # "ABSENT"
        /\ status[i] \in {"ANALYZING"} \cup LC!Terminal
    BY <1>1, ClaimedIsLocalized DEF HistoryInv, WorkersHaveStored
  <1> HIDE DEF r, i
  <1>5. /\ reports'[i] = reports[i] \cup {r}
        /\ \A j \in Incidents : j # i => reports'[j] = reports[j]
    BY <1>2, <1>3 DEF PipelineInv, TypeOK, StoreTypeOK
  <1>6. ReportsBackedStep
    <2>1. ASSUME NEW j \in Incidents, NEW q \in reports'[j] \ reports[j]
          PROVE  j = i /\ q = r
      BY <1>5, <2>1
    <2>2. \A j \in Incidents : reports[j] \subseteq reports'[j]
      BY <1>5
    <2> QED BY <1>4, <2>1, <2>2 DEF ReportsBackedStep
  <1>7. AuditsKept /\ ReportedIsPublished
    BY <1>3 DEF AuditsKept, ReportedIsPublished
  <1>8. Publishes(i)
    BY <1>3, <1>4, <1>5 DEF Publishes
  <1>9. reports'[i] # {}
    BY <1>5
  <1> QED BY <1>2, <1>3, <1>6, <1>7, <1>8, <1>9, ArtifactOrderly DEF AgentRecords, i

LEMMA AgentReportedRecords ==
    ASSUME PipelineInv, HistoryInv, NEW a \in Agents, HoldsAnalysis(a),
           NEW next \in {"REPORTED", "FAILED"}, Transition(aw[a].incident, "ANALYZING", next),
           next = "REPORTED" => AgentAt(a, "leave_analyzing")
    PROVE  AgentRecords
  <1> DEFINE i == aw[a].incident
  <1>1. i \in Incidents
    BY AgentFields DEF PipelineInv
  <1>2. Transition(i, ActiveStatus["analysis"], next) /\ "analysis" \in Stages
    BY StatusTable
  <1>3. /\ Orderly /\ UNCHANGED artifactVars
        /\ status'[i] = next
        /\ \A j \in Incidents : j # i => status'[j] = status[j]
    BY <1>1, <1>2, TransitionOrderly DEF PipelineInv, TypeOK
  <1>4. next = "REPORTED" => reports[i] # {}
    BY DEF HistoryInv, WorkersHaveStored
  <1>5. ReportedIsPublished
    BY <1>3, <1>4 DEF ReportedIsPublished
  <1>6. AuditsKept /\ ReportsBackedStep
    BY <1>3 DEF AuditsKept, ReportsBackedStep, artifactVars
  <1> QED BY <1>3, <1>5, <1>6 DEF AgentRecords, artifactVars

LEMMA AgentRecordsStep ==
    ASSUME PipelineInv, HistoryInv, NEW a \in Agents, AgentStep(a) \/ CrashAgentWorker(a)
    PROVE  AgentRecords /\ HasStored(a)'
  <1> DEFINE i == aw[a].incident
             n == aw[a].claim
  <1>0. StoreTypeOK /\ StoreInv /\ "analysis" \in Stages /\ Eligible \in SUBSET Incidents
    BY StatusTable, EligibleAssumption DEF PipelineInv, TypeOK
  <1>1. ASSUME UNCHANGED storeVars PROVE AgentRecords
    BY <1>1, StutterQuiet, QuietAgentRecords
  <1>2. ASSUME AgentIdle(a) PROVE HasStored(a)'
    BY <1>2, AgentIdleStored
  <1>3. CASE ReapAnalysis(a)
    <2>1. PICK b \in ReapBatches({j \in Eligible : Reapable("analysis", j)}) : Reap("analysis", b)
      BY <1>3 DEF ReapAnalysis
    <2>2. b \in SUBSET Incidents /\ \A j \in b : Reapable("analysis", j)
      BY <1>0 DEF ReapBatches
    <2>3. AgentRecords
      BY <1>0, <2>1, <2>2, ReapQuiet, QuietAgentRecords
    <2>4. ~HoldsAnalysis(a) /\ AgentGoto(a, "claim_analysis")
      BY <1>3 DEF ReapAnalysis, AgentAt, HoldsAnalysis, AnalysisSteps
    <2> QED BY <2>3, <2>4, AgentIdleStored
  <1>4. CASE ClaimNextEligible(a)
    BY <1>0, <1>1, <1>2, <1>4, AgentClaimRecords DEF ClaimNextEligible
  <1>5. CASE ClaimIncident(a)
    BY <1>5, AgentClaimRecords DEF ClaimIncident
  <1>6. CASE CrashAgentWorker(a)
    BY <1>1, <1>2, <1>6 DEF CrashAgentWorker
  <1>7. ASSUME AgentStep(a), ~(ReapAnalysis(a) \/ ClaimNextEligible(a) \/ ClaimIncident(a))
        PROVE  AgentRecords /\ HasStored(a)'
    <2>1. HoldsAnalysis(a)
      BY <1>7 DEF AgentStep, CheckAnalyzing, Investigate, StoreAcceptedRun,
                  StoreAcceptedReport, LeaveAnalyzing, StoreFailureAudit,
                  MarkAnalysisFailed, CompleteAnalysis, FailAnalysis, AgentAt,
                  HoldsAnalysis, AnalysisSteps
    <2>2. /\ i \in Incidents /\ n \in 1..MaxAttempts
      BY <2>1, AgentFields, ClaimedIsLocalized DEF PipelineInv
    <2>3. ASSUME NEW step, step \notin {"store_report", "leave_analyzing"}, AgentGoto(a, step),
                 AgentRecords
          PROVE  HasStored(a)'
      BY <2>1, <2>3, AgentGotoStored DEF AgentRecords
    <2>4. CASE CheckAnalyzing(a) \/ Investigate(a)
      BY <1>1, <2>3, <2>4 DEF CheckAnalyzing, Investigate
    <2>5. ASSUME NEW result \in {"SUCCEEDED", "REJECTED"}, StoreAgentRun(i, n, result)
          PROVE  AgentRecords /\ audits'[i][n] = result
      BY <1>0, <2>2, <2>5, AgentRunRecords
    <2>6. CASE StoreAcceptedRun(a)
      <3>1. ASSUME StoreAgentRun(i, n, "SUCCEEDED"), AgentGoto(a, "store_report")
            PROVE  HasStored(a)'
        BY <2>1, <2>5, <3>1, AgentGotoStored DEF AgentRecords
      <3> QED BY <1>1, <2>3, <2>5, <2>6, <3>1 DEF StoreAcceptedRun, AgentRaise, AgentReturn
    <2>7. CASE StoreAcceptedReport(a)
      <3>1. ASSUME StoreReport(i, n, aw[a].context)
            PROVE  AgentRecords /\ reports'[i] # {}
        BY <2>7, <3>1, AgentReportRecords DEF StoreAcceptedReport
      <3>2. ASSUME StoreReport(i, n, aw[a].context), AgentGoto(a, "leave_analyzing")
            PROVE  HasStored(a)'
        BY <2>1, <3>1, <3>2, AgentGotoStored DEF AgentRecords
      <3> QED BY <1>1, <2>3, <2>7, <3>1, <3>2 DEF StoreAcceptedReport, AgentRaise, AgentReturn
    <2>8. CASE LeaveAnalyzing(a)
      <3>1. ASSUME Transition(i, "ANALYZING", "REPORTED") PROVE AgentRecords
        BY <2>1, <2>8, <3>1, AgentReportedRecords DEF LeaveAnalyzing
      <3> QED BY <1>1, <2>3, <2>8, <3>1 DEF LeaveAnalyzing, AgentRaise, AgentReturn
    <2>9. CASE StoreFailureAudit(a)
      BY <1>1, <2>3, <2>5, <2>9 DEF StoreFailureAudit
    <2>10. CASE MarkAnalysisFailed(a)
      <3>1. ASSUME Transition(i, "ANALYZING", "FAILED") PROVE AgentRecords
        BY <2>1, <3>1, AgentReportedRecords
      <3> QED BY <1>1, <2>3, <2>10, <3>1 DEF MarkAnalysisFailed
    <2>11. CASE CompleteAnalysis(a)
      <3>1. ASSUME Complete("analysis", i, n, "SUCCEEDED") PROVE AgentRecords
        <4>1. "SUCCEEDED" \in Settled
          BY DEF Settled
        <4> QED BY <1>0, <2>2, <3>1, <4>1, CompleteQuiet, QuietAgentRecords
      <3> QED BY <1>1, <1>2, <2>11, <3>1 DEF CompleteAnalysis
    <2>12. CASE FailAnalysis(a)
      <3>1. ASSUME Fail("analysis", i, n) PROVE AgentRecords
        BY <1>0, <2>2, <3>1, FailQuiet, QuietAgentRecords
      <3> QED BY <1>1, <1>2, <2>12, <3>1 DEF FailAnalysis
    <2> QED BY <1>7, <2>4, <2>6, <2>7, <2>8, <2>9, <2>10, <2>11, <2>12 DEF AgentStep
  <1> QED BY <1>3, <1>4, <1>5, <1>6, <1>7

-----------------------------------------------------------------------------
(* The invariant                                                           *)

(* What both kinds of worker do to the database.                           *)
StoreRecords ==
    /\ Orderly
    /\ AuditsKept /\ ReportsBackedStep /\ ReportedIsPublished

LEMMA RecordsOfWorker ==
    ASSUME WorkerRecords PROVE StoreRecords
  BY DEF WorkerRecords, StoreRecords, AuditsKept, ReportsBackedStep, ReportedIsPublished

LEMMA SettledStep ==
    ASSUME PipelineInv, HistoryInv, StepOK, StoreRecords, RecordsAgree'
    PROVE  SettledWorkMatchesIncident'
  <1> SUFFICES ASSUME NEW i \in Incidents
               PROVE  /\ work'["collection"][i].state = "SUCCEEDED" => status'[i] \notin Early
                      /\ work'["localization"][i].state = "SUCCEEDED" =>
                            /\ status'[i] \in {"ANALYZING"} \cup LC!Terminal
                            /\ pinned'[i] \in contexts'[i]
                      /\ work'["analysis"][i].state = "SUCCEEDED" => status'[i] = "REPORTED"
                      /\ \A s \in Stages : work'[s][i].state = "FAILED" => status'[i] = "FAILED"
    BY DEF SettledWorkMatchesIncident, Early
  <1>1. /\ status[i] \in LC!Statuses /\ status'[i] \in LC!Statuses
        /\ status'[i] # "PARTIAL"
    BY DEF StepOK, PipelineInv, TypeOK, StoreTypeOK, RecordsAgree
  <1>2. \/ status'[i] = status[i]
        \/ status'[i] \in LC!AllowedTransitions[status[i]]
    BY DEF StoreRecords, Orderly, MovesAllowed
  <1>3. /\ status[i] \notin Early => status'[i] \notin Early
        /\ status[i] \in LC!Terminal => status'[i] = status[i]
        /\ status[i] \in {"ANALYZING"} \cup LC!Terminal =>
                status'[i] \in {"ANALYZING"} \cup LC!Terminal
    BY <1>1, <1>2, StatusMoves DEF LC!Terminal
  <1>4. ASSUME NEW s \in Stages
        PROVE  \/ work'[s][i] = work[s][i]
               \/ /\ work'[s][i].state = "SUCCEEDED" => status'[i] \in DoneIn[s]
                  /\ work'[s][i].state = "FAILED" => status'[i] = "FAILED"
    BY DEF StoreRecords, Orderly, SettlesHonestly
  <1>5. ASSUME work'["collection"][i].state = "SUCCEEDED" PROVE status'[i] \notin Early
    BY <1>3, <1>4, <1>5, DoneInTable, StatusTable
    DEF HistoryInv, SettledWorkMatchesIncident, Early
  <1>6. ASSUME work'["localization"][i].state = "SUCCEEDED"
        PROVE  /\ status'[i] \in {"ANALYZING"} \cup LC!Terminal
               /\ pinned'[i] \in contexts'[i]
    <2>1. status'[i] \in {"ANALYZING"} \cup LC!Terminal
      BY <1>3, <1>4, <1>6, DoneInTable, StatusTable DEF HistoryInv, SettledWorkMatchesIncident
    <2> QED BY <1>6, <2>1 DEF RecordsAgree
  <1>7. ASSUME work'["analysis"][i].state = "SUCCEEDED" PROVE status'[i] = "REPORTED"
    <2>1. CASE work'["analysis"][i] = work["analysis"][i]
      <3>1. status[i] = "REPORTED"
        BY <1>7, <2>1 DEF HistoryInv, SettledWorkMatchesIncident
      <3> QED BY <1>3, <3>1 DEF LC!Terminal
    <2>2. CASE status'[i] \in DoneIn["analysis"]
      BY <1>1, <2>2, DoneInTable
    <2> QED BY <1>4, <1>7, <2>1, <2>2, StatusTable
  <1>8. ASSUME NEW s \in Stages, work'[s][i].state = "FAILED" PROVE status'[i] = "FAILED"
    <2>1. CASE work'[s][i] = work[s][i]
      <3>1. status[i] = "FAILED"
        BY <1>8, <2>1 DEF HistoryInv, SettledWorkMatchesIncident
      <3> QED BY <1>3, <3>1 DEF LC!Terminal
    <2> QED BY <1>4, <1>8, <2>1
  <1> QED BY <1>5, <1>6, <1>7, <1>8

LEMMA RecordsStep ==
    ASSUME PipelineInv, HistoryInv, StepOK, StoreRecords
    PROVE  RecordsAgree'
  <1> SUFFICES ASSUME NEW i \in Incidents
               PROVE  /\ status'[i] # "PARTIAL"
                      /\ work'["analysis"][i].state # "ABSENT" => pinned'[i] \in contexts'[i]
                      /\ work'["localization"][i].state = "SUCCEEDED" \/ reports'[i] # {} =>
                            work'["analysis"][i].state # "ABSENT"
                      /\ \A r \in reports'[i] : r.claim \in 1..MaxAttempts
    BY DEF RecordsAgree
  <1>1. /\ status[i] # "PARTIAL"
        /\ work["analysis"][i].state # "ABSENT" => pinned[i] \in contexts[i]
        /\ work["localization"][i].state = "SUCCEEDED" \/ reports[i] # {} =>
                work["analysis"][i].state # "ABSENT"
        /\ \A r \in reports[i] : r.claim \in 1..MaxAttempts
    BY DEF HistoryInv, RecordsAgree
  <1>2. status'[i] # "PARTIAL"
    BY <1>1 DEF StoreRecords, Orderly, MovesAllowed
  <1>3. contexts[i] \subseteq contexts'[i]
    BY DEF StepOK, NothingUndone
  <1>4. /\ work["analysis"][i].state # "ABSENT" =>
                pinned'[i] = pinned[i] /\ work'["analysis"][i].state # "ABSENT"
        /\ work["analysis"][i].state = "ABSENT" /\ work'["analysis"][i].state # "ABSENT" =>
                pinned'[i] \in contexts'[i]
    BY DEF StoreRecords, Orderly, PinsStored
  <1>5. work'["analysis"][i].state # "ABSENT" => pinned'[i] \in contexts'[i]
    BY <1>1, <1>3, <1>4
  <1>6. work'["localization"][i].state = "SUCCEEDED" => work'["analysis"][i].state # "ABSENT"
    <2>1. CASE work'["localization"][i] = work["localization"][i]
      BY <1>1, <1>4, <2>1
    <2>2. ASSUME work'["localization"][i].state = "SUCCEEDED",
                 work'["localization"][i] # work["localization"][i]
          PROVE  work'["analysis"][i].state # "ABSENT"
      <3>1. status'[i] = "ANALYZING"
        BY <2>2, DoneInTable, StatusTable DEF StoreRecords, Orderly, SettlesHonestly
      <3>2. IncidentInv(i)'
        BY StoreInvByIncidentNext DEF StepOK
      <3> QED BY <3>1, <3>2, StatusTable DEF IncidentInv, RowInv, InWork
    <2> QED BY <2>1, <2>2
  <1>7. /\ reports'[i] # {} => work'["analysis"][i].state # "ABSENT"
        /\ \A r \in reports'[i] : r.claim \in 1..MaxAttempts
    <2>1. ASSUME NEW r \in reports'[i]
          PROVE  r.claim \in 1..MaxAttempts /\ work["analysis"][i].state # "ABSENT"
      <3>1. CASE r \in reports[i]
        BY <1>1, <3>1
      <3>2. CASE r \notin reports[i]
        BY <3>2 DEF StoreRecords, ReportsBackedStep
      <3> QED BY <3>1, <3>2
    <2> QED BY <1>4, <2>1
  <1> QED BY <1>2, <1>5, <1>6, <1>7

LEMMA BackedStep ==
    ASSUME PipelineInv, HistoryInv, StepOK, StoreRecords
    PROVE  ReportsAreBacked'
  <1> SUFFICES ASSUME NEW i \in Incidents
               PROVE  /\ \A r \in reports'[i] :
                            r.context = pinned'[i] /\ audits'[i][r.claim] = "SUCCEEDED"
                      /\ status'[i] = "REPORTED" => reports'[i] # {}
    BY DEF ReportsAreBacked
  <1>1. ASSUME NEW r \in reports'[i]
        PROVE  r.context = pinned'[i] /\ audits'[i][r.claim] = "SUCCEEDED"
    <2>1. /\ r.context = pinned[i] /\ audits[i][r.claim] = "SUCCEEDED"
          /\ r.claim \in 1..MaxAttempts /\ work["analysis"][i].state # "ABSENT"
      <3>1. CASE r \in reports[i]
        BY <3>1 DEF HistoryInv, ReportsAreBacked, RecordsAgree
      <3>2. CASE r \notin reports[i]
        BY <3>2 DEF StoreRecords, ReportsBackedStep
      <3> QED BY <3>1, <3>2
    <2> QED BY <2>1 DEF StoreRecords, Orderly, PinsStored, AuditsKept
  <1>2. status'[i] = "REPORTED" => reports'[i] # {}
    <2>1. reports[i] \subseteq reports'[i]
      BY DEF StoreRecords, ReportsBackedStep
    <2>2. status'[i] = "REPORTED" => reports[i] # {}
      BY DEF StoreRecords, ReportedIsPublished, HistoryInv, ReportsAreBacked
    <2> QED BY <2>1, <2>2
  <1> QED BY <1>1, <1>2

(* Workers that did not move have still stored what they had stored.       *)
LEMMA OthersHaveStored ==
    ASSUME PipelineInv, HistoryInv, StoreRecords
    PROVE  /\ \A w \in IncidentWorkers : iw'[w] = iw[w] => FailedCollectionEnded(w)
           /\ \A a \in Agents : aw'[a] = aw[a] => HasStored(a)'
  <1>1. ASSUME NEW w \in IncidentWorkers, iw'[w] = iw[w],
               iw[w].pc = "complete_collection", iw[w].run = "FAILED"
        PROVE  status'[iw[w].incident] = "FAILED"
    <2>1. iw[w].incident \in Incidents
      BY <1>1, WorkerFields DEF PipelineInv, HoldsIncident, CollectionSteps
    <2>2. status[iw[w].incident] = "FAILED"
      BY <1>1 DEF HistoryInv, WorkersHaveStored, At
    <2> QED BY <2>1, <2>2, StatusMoves
            DEF StoreRecords, Orderly, MovesAllowed, LC!Terminal, LC!Statuses
  <1>2. ASSUME NEW a \in Agents, aw'[a] = aw[a] PROVE HasStored(a)'
    <2>1. CASE ~HoldsAnalysis(a)
      BY <1>2, <2>1 DEF HasStored, HoldsAnalysis
    <2>2. CASE HoldsAnalysis(a)
      <3>1. /\ aw[a].incident \in Incidents /\ aw[a].claim \in 1..MaxAttempts
            /\ work["analysis"][aw[a].incident].state # "ABSENT"
        BY <2>2, AgentFields, ClaimedIsLocalized DEF PipelineInv
      <3>2. /\ aw[a].context = pinned[aw[a].incident]
            /\ aw[a].pc = "store_report" => audits[aw[a].incident][aw[a].claim] = "SUCCEEDED"
            /\ aw[a].pc = "leave_analyzing" => reports[aw[a].incident] # {}
        BY <2>2 DEF HistoryInv, WorkersHaveStored, AgentAt
      <3>3. /\ pinned'[aw[a].incident] = pinned[aw[a].incident]
            /\ reports[aw[a].incident] \subseteq reports'[aw[a].incident]
        BY <3>1 DEF StoreRecords, Orderly, PinsStored, ReportsBackedStep
      <3>4. aw[a].pc = "store_report" => audits'[aw[a].incident][aw[a].claim] = "SUCCEEDED"
        BY <3>1, <3>2 DEF StoreRecords, AuditsKept
      <3>5. aw[a].pc = "leave_analyzing" => reports'[aw[a].incident] # {}
        BY <3>2, <3>3
      <3> QED BY <1>2, <3>2, <3>3, <3>4, <3>5 DEF HasStored, AgentAt
    <2> QED BY <2>1, <2>2
  <1> QED BY <1>1, <1>2 DEF FailedCollectionEnded

LEMMA HistoryStep ==
    ASSUME PipelineInv, HistoryInv, StepOK, StoreRecords,
           \A w \in IncidentWorkers : FailedCollectionEnded(w),
           \A a \in Agents : HasStored(a)'
    PROVE  HistoryInv'
  <1>1. RecordsAgree' /\ ReportsAreBacked' /\ SettledWorkMatchesIncident'
    BY RecordsStep, BackedStep, SettledStep
  <1>2. WorkersHaveStored'
    BY DEF WorkersHaveStored, FailedCollectionEnded, HasStored, At
  <1> QED BY <1>1, <1>2 DEF HistoryInv

LEMMA InitHistory == Init => HistoryInv
  <1> SUFFICES ASSUME Init PROVE HistoryInv
    OBVIOUS
  <1>1. \A i \in Incidents :
            /\ status[i] = "NEW" /\ reports[i] = {}
            /\ \A s \in Stages : work[s][i].state = "ABSENT"
    BY DEF Init, StoreInit, AbsentRow
  <1>2. /\ \A w \in IncidentWorkers : ~At(w, "complete_collection")
        /\ \A a \in Agents : ~HoldsAnalysis(a)
    BY DEF Init, IncidentWorkerInit, At, AgentWorkerInit, Idle, HoldsAnalysis, AnalysisSteps
  <1>3. SettledWorkMatchesIncident /\ ReportsAreBacked /\ RecordsAgree
    BY <1>1, StatusTable DEF SettledWorkMatchesIncident, ReportsAreBacked, RecordsAgree
  <1> QED BY <1>2, <1>3 DEF HistoryInv, WorkersHaveStored

(* Every step does what one kind of worker does, and leaves every worker    *)
(* with what it has stored.                                                *)
LEMMA NextRecords ==
    ASSUME PipelineInv, HistoryInv, [Next]_vars
    PROVE  /\ WorkerRecords \/ AgentRecords
           /\ \A w \in IncidentWorkers : FailedCollectionEnded(w)
           /\ \A a \in Agents : HasStored(a)'
  <1>0. TypeOK /\ StoreTypeOK /\ StoreInv
    BY DEF PipelineInv, TypeOK
  <1>1. ASSUME Quiet, iw' = iw, aw' = aw
        PROVE  /\ WorkerRecords
               /\ \A w \in IncidentWorkers : FailedCollectionEnded(w)
               /\ \A a \in Agents : HasStored(a)'
    BY <1>1, QuietRecords, RecordsOfWorker, OthersHaveStored
  <1>2. ASSUME NEW w \in IncidentWorkers,
               IncidentWorkerStep(w) \/ CrashIncidentWorker(w), aw' = aw
        PROVE  /\ WorkerRecords
               /\ \A v \in IncidentWorkers : FailedCollectionEnded(v)
               /\ \A a \in Agents : HasStored(a)'
    <2>1. WorkerRecords /\ FailedCollectionEnded(w)
      BY <1>2, WorkerRecordsStep
    <2>2. \A v \in IncidentWorkers : v # w => iw'[v] = iw[v]
      BY <1>2, WorkerStepOK DEF WorkerMove
    <2> QED BY <1>2, <2>1, <2>2, RecordsOfWorker, OthersHaveStored
  <1>3. ASSUME NEW a \in Agents, AgentStep(a) \/ CrashAgentWorker(a), iw' = iw
        PROVE  /\ AgentRecords
               /\ \A w \in IncidentWorkers : FailedCollectionEnded(w)
               /\ \A b \in Agents : HasStored(b)'
    <2>1. AgentRecords /\ HasStored(a)'
      BY <1>3, AgentRecordsStep
    <2>2. \A b \in Agents : b # a => aw'[b] = aw[b]
      BY <1>3, AgentStepOK DEF AgentMove
    <2>3. StoreRecords
      BY <2>1 DEF AgentRecords, StoreRecords
    <2>4. ASSUME NEW b \in Agents PROVE HasStored(b)'
      BY <2>1, <2>2, <2>3, OthersHaveStored
    <2> QED BY <1>3, <2>1, <2>3, <2>4, OthersHaveStored
  <1>4. ASSUME NEW i \in Incidents, ReceiveAlert(i) PROVE Quiet /\ iw' = iw /\ aw' = aw
    BY <1>0, <1>4, ReceiveQuiet DEF ReceiveAlert
  <1>5. ASSUME NEW s \in Stages, NEW i \in Incidents, ExpireLease(s, i)
        PROVE  Quiet /\ iw' = iw /\ aw' = aw
    <2>1. Expire(s, i) /\ iw' = iw /\ aw' = aw
      BY <1>5 DEF ExpireLease
    <2>2. 0 = 0
      OBVIOUS
    <2>3. Renew(s, i, 0) \/ Expire(s, i)
      BY <2>1
    <2> QED BY <1>0, <2>1, <2>3, LeaseQuiet
  <1>6. CASE UNCHANGED vars
    BY <1>1, <1>6, StutterQuiet DEF vars
  <1>7. CASE Next
    <2>1. CASE \E i \in Incidents : ReceiveAlert(i)
      BY <1>1, <1>4, <2>1
    <2>2. CASE \E s \in Stages, i \in Incidents : ExpireLease(s, i)
      BY <1>1, <1>5, <2>2
    <2>3. CASE \E w \in IncidentWorkers : RunIncidentWorker(w)
      BY <1>2, <2>3 DEF RunIncidentWorker
    <2>4. CASE \E a \in Agents : RunAgent(a)
      BY <1>3, <2>4 DEF RunAgent
    <2>5. CASE Crash
      BY <1>2, <1>3, <2>5 DEF Crash
    <2> QED BY <1>7, <2>1, <2>2, <2>3, <2>4, <2>5 DEF Next
  <1> QED BY <1>6, <1>7

LEMMA HistoryNext ==
    ASSUME PipelineInv, HistoryInv, [Next]_vars
    PROVE  HistoryInv'
  <1>1. /\ WorkerRecords \/ AgentRecords
        /\ \A w \in IncidentWorkers : FailedCollectionEnded(w)
        /\ \A a \in Agents : HasStored(a)'
    BY NextRecords
  <1>2. StoreRecords
    BY <1>1, RecordsOfWorker DEF AgentRecords, StoreRecords
  <1> QED BY <1>1, <1>2, NextOK, HistoryStep

(* What the records say agrees with the status, through every order of     *)
(* transactions, lost claims and deaths between storing and moving on.     *)
THEOREM RecordsStayTrue == Spec => [](PipelineInv /\ HistoryInv)
  <1>1. Init => PipelineInv /\ HistoryInv
    BY InitPipelineInv, InitHistory
  <1>2. PipelineInv /\ HistoryInv /\ [Next]_vars => (PipelineInv /\ HistoryInv)'
    BY NextOK, HistoryNext
  <1> QED BY <1>1, <1>2, PTL DEF Spec

(* A report comes from an accepted run that has been recorded, cites the    *)
(* pinned Context, and exists for every REPORTED Incident, also when the   *)
(* worker that stored it had lost its claim.                               *)
THEOREM EveryReportIsBacked == Spec => []ReportsAreBacked
  <1>1. HistoryInv => ReportsAreBacked
    BY DEF HistoryInv
  <1> QED BY <1>1, RecordsStayTrue, PTL

(* The outcome in a settled row is the outcome of the Incident, whoever     *)
(* settled it: complete, fail or the reaper.                               *)
THEOREM SettledWorkTellsTheTruth == Spec => []SettledWorkMatchesIncident
  <1>1. HistoryInv => SettledWorkMatchesIncident
    BY DEF HistoryInv
  <1> QED BY <1>1, RecordsStayTrue, PTL

-----------------------------------------------------------------------------
(* The refinement                                                          *)

LEMMA InitImplements == Init => LC!Init
  BY DEF Init, StoreInit, LC!Init

LEMMA AdvanceImplements ==
    ASSUME status' \in [Incidents -> LC!Statuses], MovesAllowed, ReportedIsPublished,
           contexts' = contexts, reports' = reports
    PROVE  LC!Advance
  <1>1. \A i \in Incidents :
            status'[i] # status[i] =>
                /\ status'[i] \in LC!AllowedTransitions[status[i]]
                /\ status'[i] = "ANALYZING" => [j \in Incidents |-> contexts[j] # {}][i]
                /\ status'[i] = "REPORTED" => [j \in Incidents |-> reports[j] # {}][i]
    BY Zenon DEF MovesAllowed, ReportedIsPublished
  <1>2. UNCHANGED <<[j \in Incidents |-> contexts[j] # {}], [j \in Incidents |-> reports[j] # {}]>>
    OBVIOUS
  <1> QED BY <1>1, <1>2, Zenon DEF LC!Advance

LEMMA FreezeImplements ==
    ASSUME NEW i \in Incidents, Freezes(i), reports' = reports
    PROVE  LC!Freeze(i)
  <1>1. [j \in Incidents |-> contexts'[j] # {}]
            = [[j \in Incidents |-> contexts[j] # {}] EXCEPT ![i] = TRUE]
    BY DEF Freezes
  <1> QED BY <1>1, Zenon DEF LC!Freeze, Freezes, Early

LEMMA PublishImplements ==
    ASSUME NEW i \in Incidents, Publishes(i), contexts' = contexts
    PROVE  LC!Publish(i)
  <1>1. [j \in Incidents |-> reports'[j] # {}]
            = [[j \in Incidents |-> reports[j] # {}] EXCEPT ![i] = TRUE]
    BY DEF Publishes
  <1>2. [j \in Incidents |-> contexts[j] # {}][i]
    BY Zenon DEF Publishes
  <1> QED BY <1>1, <1>2, Zenon DEF LC!Publish, Publishes

LEMMA StepImplements ==
    ASSUME PipelineInv, HistoryInv, [Next]_vars
    PROVE  [LC!Next]_(LC!vars)
  <1>1. status' \in [Incidents -> LC!Statuses]
    BY NextOK DEF PipelineInv, TypeOK, StoreTypeOK
  <1>2. CASE WorkerRecords
    <2>1. MovesAllowed /\ ReportedIsPublished /\ reports' = reports
      BY <1>2 DEF WorkerRecords, Orderly, ReportedIsPublished
    <2>2. CASE contexts' = contexts
      BY <1>1, <2>1, <2>2, AdvanceImplements DEF LC!Next
    <2>3. CASE \E i \in Incidents : Freezes(i)
      BY <2>1, <2>3, FreezeImplements DEF LC!Next
    <2> QED BY <1>2, <2>2, <2>3 DEF WorkerRecords
  <1>3. CASE AgentRecords
    <2>1. MovesAllowed /\ ReportedIsPublished /\ contexts' = contexts
      BY <1>3 DEF AgentRecords, Orderly
    <2>2. CASE reports' = reports
      BY <1>1, <2>1, <2>2, AdvanceImplements DEF LC!Next
    <2>3. CASE \E i \in Incidents : Publishes(i)
      BY <2>1, <2>3, PublishImplements DEF LC!Next
    <2> QED BY <1>3, <2>2, <2>3 DEF AgentRecords
  <1> QED BY <1>2, <1>3, NextRecords

(* The pipeline implements the lifecycle: for every number of Incidents and *)
(* workers, each transaction moves the statuses along the graph, freezes a  *)
(* Context or publishes a report, or changes none of them.                 *)
THEOREM PipelineImplementsLifecycle == Spec => ImplementsLifecycle
  <1>1. Init => LC!Init
    BY InitImplements
  <1>2. PipelineInv /\ HistoryInv /\ [Next]_vars => [LC!Next]_(LC!vars)
    BY StepImplements
  <1> QED BY <1>1, <1>2, RecordsStayTrue, PTL DEF Spec, ImplementsLifecycle, LC!Spec


-----------------------------------------------------------------------------
(* One transaction is one call                                             *)

Call == Memory!Next \/ UNCHANGED Memory!vars

LEMMA NothingCalled ==
    ASSUME UNCHANGED storeVars
    PROVE  Call
  BY DEF Call, storeVars, artifactVars, queueVars, Memory!vars, Memory!documents

LEMMA RepositoryCall ==
    ASSUME NEW i \in Incidents, Memory!Repository(i)
    PROVE  Call
  BY DEF Call, Memory!Next

LEMMA QueueCall ==
    ASSUME NEW i \in Incidents, NEW n \in 1..MaxAttempts,
           \/ Memory!CollectionQueue(i, n)
           \/ Memory!LocalizationQueue(i, n)
           \/ Memory!AnalysisQueue(i, n)
    PROVE  Call
  BY DEF Call, Memory!Next

(* A row without a state is a row without a history.                       *)
LEMMA AbsentIsNoItem ==
    ASSUME StoreTypeOK, StoreInv, NEW s \in Stages, NEW i \in Incidents
    PROVE  work[s][i].state = "ABSENT" <=> work[s][i] = Memory!NoItem
  <1>1. work[s][i] \in Row
    BY DEF StoreTypeOK
  <1>2. work[s][i].state = "ABSENT" => work[s][i].attempts = 0 /\ work[s][i].lease = "none"
    BY DEF StoreInv, AttemptsAreBounded, QueuesFollowStatus
  <1> QED BY <1>1, <1>2 DEF Row, Memory!NoItem

(* The claims the queues hand out are numbered from one to MaxAttempts.    *)
LEMMA ClaimInRange ==
    ASSUME StoreTypeOK, StoreInv, NEW s \in Stages, NEW i \in Incidents,
           NEW n \in Nat \ {0}, n <= work[s][i].attempts
    PROVE  n \in 1..MaxAttempts
  BY MaxAttemptsAssumption DEF StoreTypeOK, StoreInv, AttemptsAreBounded, Row

LEMMA ReceiveIsCreate ==
    ASSUME StoreTypeOK, StoreInv, NEW i \in Incidents, Receive(i)
    PROVE  Call
  <1>1. "collection" \in Stages
    BY DEF Stages
  <1>2. work["collection"][i] = Memory!NoItem
    BY <1>1, AbsentIsNoItem DEF Receive, StoreInv, QueuesFollowStatus
  <1>3. Memory!Enqueued("collection", i) = [work EXCEPT !["collection"][i] = ReadyRow]
    BY <1>2 DEF Memory!Enqueued, Memory!NewItem, ReadyRow
  <1>4. Memory!Create(i)
    BY <1>3 DEF Receive, Memory!Create, Memory!documents, artifactVars
  <1> QED BY <1>4, RepositoryCall DEF Memory!Repository

(* The triggers enqueue what the caller of the adapters enqueues.          *)
LEMMA EnqueueIsEnqueued ==
    ASSUME StoreTypeOK, StoreInv, NEW s \in Stages, NEW i \in Incidents
    PROVE  Memory!Enqueued(s, i) =
               [work EXCEPT ![s][i] = IF @.state = "ABSENT" THEN ReadyRow ELSE @]
  <1>1. work[s][i].state = "ABSENT" <=> work[s][i] = Memory!NoItem
    BY AbsentIsNoItem
  <1> QED BY <1>1 DEF Memory!Enqueued, Memory!NewItem, ReadyRow

LEMMA AnalysisIsEnqueued ==
    ASSUME StoreTypeOK, StoreInv, NEW i \in Incidents, NEW available \in SUBSET Nat,
           available \subseteq contexts'[i], EnqueueAnalysis(i, available)
    PROVE  \/ \E c \in contexts'[i] : Memory!EnqueueAnalysis(i, c)
           \/ UNCHANGED <<work, pinned>>
  <1>1. CASE work["analysis"][i].state = "ABSENT" /\ available # {}
    <2>1. "analysis" \in Stages
      BY DEF Stages
    <2>2. work["analysis"][i] = Memory!NoItem
      BY <1>1, <2>1, AbsentIsNoItem
    <2>3. Memory!Enqueued("analysis", i) = [work EXCEPT !["analysis"][i] = ReadyRow]
      BY <2>2 DEF Memory!Enqueued, Memory!NewItem, ReadyRow
    <2>4. PICK c \in available : pinned' = [pinned EXCEPT ![i] = c]
      BY <1>1 DEF EnqueueAnalysis
    <2>5. work' = [work EXCEPT !["analysis"][i] = ReadyRow]
      BY <1>1 DEF EnqueueAnalysis
    <2>6. Memory!EnqueueAnalysis(i, c)
      BY <2>2, <2>3, <2>4, <2>5 DEF Memory!EnqueueAnalysis
    <2> QED BY <2>6
  <1>2. CASE ~(work["analysis"][i].state = "ABSENT" /\ available # {})
    BY <1>2 DEF EnqueueAnalysis, queueVars
  <1> QED BY <1>1, <1>2

LEMMA TransitionIsMove ==
    ASSUME StoreTypeOK, StoreInv, NEW i \in Incidents, NEW expected \in LC!Statuses \ {"NEW"},
           NEW next \in LC!Statuses, Transition(i, expected, next)
    PROVE  Call
  <1>1. /\ status[i] = expected /\ next \in LC!AllowedTransitions[expected]
        /\ status' = [status EXCEPT ![i] = next] /\ Enqueue(i, next)
        /\ UNCHANGED artifactVars
    BY DEF Transition, CanTransition
  <1>2. /\ expected \in DOMAIN Memory!AllowedTransitions
        /\ next \in Memory!AllowedTransitions[expected]
        /\ next \in {"COLLECTING", "LOCALIZING", "ANALYZING", "REPORTED", "PARTIAL", "FAILED"}
    BY <1>1 DEF LC!Statuses, LC!AllowedTransitions, Memory!AllowedTransitions
  <1>3. UNCHANGED Memory!documents /\ contexts' = contexts
    BY <1>1 DEF artifactVars, Memory!documents
  <1>4. CASE next = "LOCALIZING"
    <2>1. "localization" \in Stages
      BY DEF Stages
    <2>2. work' = Memory!Enqueued("localization", i) /\ UNCHANGED pinned
      BY <1>1, <1>4, <2>1, EnqueueIsEnqueued DEF Enqueue, EnqueueLocalization
    <2>3. Memory!MoveAndEnqueue(i, next)
      BY <1>1, <1>2, <1>3, <1>4, <2>2 DEF Memory!MoveAndEnqueue, Memory!Moved
    <2> QED BY <1>2, <2>3, RepositoryCall DEF Memory!Repository
  <1>5. CASE next = "ANALYZING"
    <2>1. contexts[i] \in SUBSET Nat /\ EnqueueAnalysis(i, contexts[i])
      BY <1>1, <1>5 DEF Enqueue, StoreTypeOK
    <2>2. \/ \E c \in contexts[i] : Memory!EnqueueAnalysis(i, c)
          \/ UNCHANGED <<work, pinned>>
      BY <1>3, <2>1, AnalysisIsEnqueued
    <2>3. Memory!MoveAndEnqueue(i, next)
      BY <1>1, <1>2, <1>3, <1>5, <2>2 DEF Memory!MoveAndEnqueue, Memory!Moved
    <2> QED BY <1>2, <2>3, RepositoryCall DEF Memory!Repository
  <1>6. CASE next \notin {"LOCALIZING", "ANALYZING"}
    <2>1. UNCHANGED <<work, pinned>>
      BY <1>1, <1>6 DEF Enqueue, queueVars
    <2>2. Memory!MoveAndEnqueue(i, next)
      BY <1>1, <1>2, <1>3, <1>6, <2>1 DEF Memory!MoveAndEnqueue, Memory!Moved
    <2> QED BY <1>2, <2>2, RepositoryCall DEF Memory!Repository
  <1> QED BY <1>4, <1>5, <1>6

LEMMA StatusesAreReplaced ==
    ASSUME NEW i \in Incidents, NEW n \in 1..MaxAttempts, ReplaceCollectorStatuses(i, n)
    PROVE  Call
  <1>1. Memory!ReplaceCollectorStatuses(i)
    BY DEF ReplaceCollectorStatuses, Memory!ReplaceCollectorStatuses, queueVars
  <1> QED BY <1>1, RepositoryCall DEF Memory!Repository

LEMMA EvidenceIsStored ==
    ASSUME StoreTypeOK, NEW i \in Incidents, NEW n \in 1..MaxAttempts,
           NEW items \in {{}, {<<"collection", n>>}}, StoreEvidence(i, items)
    PROVE  Call
  <1>1. CASE items = {}
    <2>1. evidence' = evidence
      BY <1>1 DEF StoreEvidence, StoreTypeOK
    <2> QED BY <2>1, NothingCalled DEF StoreEvidence, storeVars, artifactVars, queueVars
  <1>2. CASE items = {<<"collection", n>>}
    <2>1. Memory!StoreEvidence(i)
      BY <1>2 DEF StoreEvidence, Memory!StoreEvidence, queueVars
    <2> QED BY <2>1, RepositoryCall DEF Memory!Repository
  <1> QED BY <1>1, <1>2

(* A late Context, of an Incident that is ANALYZING, may enqueue it.       *)
LEMMA ContextIsStored ==
    ASSUME StoreTypeOK, StoreInv, NEW i \in Incidents, NEW n \in 1..MaxAttempts,
           status[i] # "NEW", StoreContext(i, n)
    PROVE  Call
  <1>1. contexts' = [contexts EXCEPT ![i] = @ \cup {n}] /\ n \in contexts'[i]
    BY DEF StoreContext, StoreTypeOK
  <1>2. \/ UNCHANGED <<work, pinned>>
        \/ status[i] = "ANALYZING" /\ \E c \in contexts'[i] : Memory!EnqueueAnalysis(i, c)
    <2>1. CASE status[i] = "ANALYZING"
      <3>1. EnqueueAnalysis(i, {n}) /\ {n} \in SUBSET Nat
        BY <2>1 DEF StoreContext
      <3> QED BY <1>1, <2>1, <3>1, AnalysisIsEnqueued
    <2>2. CASE status[i] # "ANALYZING"
      BY <2>2 DEF StoreContext, queueVars
    <2> QED BY <2>1, <2>2
  <1>3. evidence[i] # {} /\ UNCHANGED <<status, collected, evidence, checkpoint, audits, reports>>
    BY DEF StoreContext
  <1>4. Memory!StoreContext(i)
    BY <1>1, <1>2, <1>3 DEF Memory!StoreContext
  <1> QED BY <1>4, RepositoryCall DEF Memory!Repository

LEMMA AgentRunIsStored ==
    ASSUME NEW i \in Incidents, NEW n \in 1..MaxAttempts, contexts[i] # {},
           NEW result \in {"SUCCEEDED", "REJECTED"}, StoreAgentRun(i, n, result)
    PROVE  Call
  <1>1. Memory!StoreAgentRun(i)
    BY DEF StoreAgentRun, Memory!StoreAgentRun, queueVars
  <1> QED BY <1>1, RepositoryCall DEF Memory!Repository

LEMMA ReportIsStored ==
    ASSUME NEW i \in Incidents, NEW n \in 1..MaxAttempts, NEW context, StoreReport(i, n, context)
    PROVE  Call
  <1>1. Memory!StoreReport(i)
    BY DEF StoreReport, Memory!StoreReport, queueVars
  <1> QED BY <1>1, RepositoryCall DEF Memory!Repository

-----------------------------------------------------------------------------
(* The queues                                                              *)

LEMMA ClaimIsTaken ==
    ASSUME StoreTypeOK, NEW s \in Stages, NEW i \in Incidents, Claim(s, i)
    PROVE  Call
  <1>1. 1 \in 1..MaxAttempts
    BY MaxAttemptsAssumption
  <1>2. /\ \/ Memory!Ready(s, i) /\ status[i] = ReadyStatus[s]
           \/ Memory!Takeable(s, i) /\ status[i] = ActiveStatus[s]
        /\ status' = [status EXCEPT ![i] = ActiveStatus[s]]
        /\ work' = Memory!Taken(s, i)
        /\ UNCHANGED <<Memory!documents, pinned>>
    BY DEF Claim, Claimable, LeaseExpired, Memory!Ready, Memory!Takeable, Memory!Overdue,
           Memory!Taken, Memory!documents, artifactVars
  <1>3. CASE s = "collection"
    <2>1. Memory!ClaimCollection(i)
      BY <1>2, <1>3 DEF Memory!ClaimCollection, Memory!Moved, ReadyStatus, ActiveStatus, Stages
    <2> QED BY <1>1, <2>1, QueueCall DEF Memory!CollectionQueue
  <1>4. CASE s = "localization"
    <2>1. status[i] = "LOCALIZING" /\ status' = status
      BY <1>2, <1>4 DEF ReadyStatus, ActiveStatus, Stages, StoreTypeOK
    <2>2. Memory!ClaimLocalization(i)
      BY <1>2, <1>4, <2>1 DEF Memory!ClaimLocalization
    <2> QED BY <1>1, <2>2, QueueCall DEF Memory!LocalizationQueue
  <1>5. CASE s = "analysis"
    <2>1. status[i] = "ANALYZING" /\ status' = status
      BY <1>2, <1>5 DEF ReadyStatus, ActiveStatus, Stages, StoreTypeOK
    <2>2. Memory!ClaimAnalysis(i)
      BY <1>2, <1>5, <2>1 DEF Memory!ClaimAnalysis
    <2> QED BY <1>1, <2>2, QueueCall DEF Memory!AnalysisQueue
  <1> QED BY <1>3, <1>4, <1>5 DEF Stages

LEMMA LeaseIsRenewed ==
    ASSUME NEW i \in Incidents, NEW n \in 1..MaxAttempts, Renew("localization", i, n)
    PROVE  Call
  <1>1. Memory!Renew("localization", i, n)
    BY DEF Renew, Memory!Renew, Current, Memory!CurrentItem, artifactVars, Memory!documents
  <1> QED BY <1>1, QueueCall DEF Memory!LocalizationQueue

LEMMA LeaseRunsOut ==
    ASSUME NEW s \in Stages, NEW i \in Incidents, Expire(s, i)
    PROVE  Call
  <1>1. Memory!LeaseRunsOut(s, i)
    BY DEF Expire, Memory!LeaseRunsOut, artifactVars, Memory!documents
  <1> QED BY <1>1 DEF Call, Memory!Next, Stages

LEMMA CandidatesAreStored ==
    ASSUME NEW i \in Incidents, NEW n \in 1..MaxAttempts, StoreCollection(i, n)
    PROVE  Call
  <1>1. Memory!CurrentItem("localization", i, n) /\ ~Memory!Overdue("localization", i)
    BY DEF StoreCollection, CanStoreCollection, Current, LeaseExpired, Memory!CurrentItem, Memory!Overdue
  <1>2. Memory!StoreLocalizationCollection(i, n)
    BY DEF StoreCollection, CanStoreCollection, Memory!StoreLocalizationCollection, queueVars
  <1>3. Memory!StoreCollection(i, n)
    BY <1>1, <1>2 DEF Memory!StoreCollection
  <1> QED BY <1>3, QueueCall DEF Memory!LocalizationQueue

LEMMA ClaimIsCompleted ==
    ASSUME NEW s \in Stages, NEW i \in Incidents, NEW n \in 1..MaxAttempts,
           NEW outcome \in {"SUCCEEDED", "FAILED"}, s # "collection" => outcome = "SUCCEEDED",
           Complete(s, i, n, outcome)
    PROVE  Call
  <1>1. Memory!Complete(s, i, n, outcome, CompletesIn[s])
    BY DEF Complete, CanComplete, Current, SettledRow, Memory!Complete, Memory!CurrentItem,
           Memory!SettledAs, artifactVars, Memory!documents
  <1>2. CASE s = "collection"
    <2>1. CompletesIn[s] = {"LOCALIZING", "ANALYZING", "REPORTED", "PARTIAL", "FAILED"}
      BY <1>2 DEF CompletesIn, Stages
    <2> QED BY <1>1, <1>2, <2>1, QueueCall DEF Memory!CollectionQueue
  <1>3. CASE s = "localization"
    <2>1. CompletesIn[s] = {"ANALYZING"}
      BY <1>3 DEF CompletesIn, Stages
    <2> QED BY <1>1, <1>3, <2>1, QueueCall DEF Memory!LocalizationQueue
  <1>4. CASE s = "analysis"
    <2>1. CompletesIn[s] = {"REPORTED"}
      BY <1>4 DEF CompletesIn, Stages
    <2> QED BY <1>1, <1>4, <2>1, QueueCall DEF Memory!AnalysisQueue
  <1> QED BY <1>2, <1>3, <1>4 DEF Stages

LEMMA ClaimIsFailed ==
    ASSUME NEW s \in Stages, NEW i \in Incidents, NEW n \in 1..MaxAttempts, Fail(s, i, n)
    PROVE  Call
  <1>1. Memory!Fail(s, i, n, ActiveStatus[s])
    BY DEF Fail, CanFail, Current, SettledRow, Memory!Fail, Memory!CurrentItem, Memory!Moved,
           Memory!SettledAs, artifactVars, Memory!documents
  <1>2. CASE s = "collection"
    <2>1. ActiveStatus[s] = "COLLECTING"
      BY <1>2 DEF ActiveStatus, Stages
    <2> QED BY <1>1, <1>2, <2>1, QueueCall DEF Memory!CollectionQueue
  <1>3. CASE s = "localization"
    <2>1. ActiveStatus[s] = "LOCALIZING"
      BY <1>3 DEF ActiveStatus, Stages
    <2> QED BY <1>1, <1>3, <2>1, QueueCall DEF Memory!LocalizationQueue
  <1>4. CASE s = "analysis"
    <2>1. ActiveStatus[s] = "ANALYZING"
      BY <1>4 DEF ActiveStatus, Stages
    <2> QED BY <1>1, <1>4, <2>1, QueueCall DEF Memory!AnalysisQueue
  <1> QED BY <1>2, <1>3, <1>4 DEF Stages

-----------------------------------------------------------------------------
(* The reapers                                                             *)

(* A reaper of the database settles ReapLimit rows a pass, one of the       *)
(* adapters all there are: a pass over more rows than that is no call of   *)
(* the adapters.                                                           *)
PassesAreWhole ==
    /\ IsFiniteSet(Incidents)
    /\ \A s \in Stages : Cardinality({i \in Incidents : Reapable(s, i)}) <= ReapLimit

LEMMA WholeBatch ==
    ASSUME PassesAreWhole, NEW s \in Stages, NEW scope \in SUBSET Incidents,
           NEW batch \in ReapBatches({i \in scope : Reapable(s, i)})
    PROVE  batch = {i \in scope : Reapable(s, i)}
  <1> DEFINE rows == {i \in scope : Reapable(s, i)}
             all == {i \in Incidents : Reapable(s, i)}
  <1>1. rows \subseteq all /\ all \subseteq Incidents
    OBVIOUS
  <1>2. IsFiniteSet(all)
    BY <1>1, FS_Subset DEF PassesAreWhole
  <1>3. IsFiniteSet(rows) /\ Cardinality(rows) <= Cardinality(all)
    BY <1>1, <1>2, FS_Subset
  <1>4. Cardinality(all) <= ReapLimit
    BY DEF PassesAreWhole
  <1>5. Cardinality(rows) \in Nat /\ Cardinality(all) \in Nat
    BY <1>2, <1>3, FS_CardinalityType
  <1>6. Cardinality(rows) <= ReapLimit
    BY <1>3, <1>4, <1>5, ReapLimitAssumption
  <1>7. batch \in SUBSET rows /\ Cardinality(batch) = Cardinality(rows)
    BY <1>6 DEF ReapBatches
  <1> QED BY <1>3, <1>7, FS_Subset

(* Which rows a reaper takes, and how it settles them.                     *)
LEMMA ReapIsReap ==
    ASSUME StoreTypeOK, NEW s \in Stages, NEW scope \in SUBSET Incidents,
           Reap(s, {i \in scope : Reapable(s, i)})
    PROVE  Memory!Reap(s, ActiveStatus[s], RecoveredIn[s], scope)
  <1> DEFINE batch == {i \in scope : Reapable(s, i)}
             moved == {i \in scope : Memory!Overdue(s, i) /\ status[i] \in RecoveredIn[s]}
             failed == {i \in scope : Memory!Overdue(s, i) /\ status[i] = "FAILED"}
             spent == {i \in scope : /\ Memory!Overdue(s, i)
                                     /\ status[i] = ActiveStatus[s]
                                     /\ work[s][i].attempts >= MaxAttempts}
  <1>1. /\ ActiveStatus[s] \notin RecoveredIn[s] \cup {"FAILED"}
        /\ "FAILED" \notin RecoveredIn[s]
    BY DEF ActiveStatus, RecoveredIn, Stages
  <1>2. \A i \in Incidents :
            /\ i \in batch <=> i \in moved \cup failed \cup spent
            /\ i \in spent <=> i \in batch /\ status[i] = ActiveStatus[s]
            /\ i \in moved <=> i \in batch /\ status[i] \in RecoveredIn[s]
            /\ i \in failed \cup spent <=> i \in batch /\ status[i] \notin RecoveredIn[s]
    BY <1>1 DEF Reapable, LeaseExpired, Memory!Overdue
  <1> HIDE DEF batch, moved, failed, spent
  <1>3. status' = [i \in Incidents |-> IF i \in spent THEN "FAILED" ELSE status[i]]
    BY <1>2 DEF Reap, batch
  <1>4. \A i \in Incidents :
            (IF i \in batch
             THEN SettledRow(work[s][i], IF status[i] \in RecoveredIn[s] THEN "SUCCEEDED" ELSE "FAILED")
             ELSE work[s][i])
            = CASE i \in moved          -> Memory!SettledAs(work[s][i], "SUCCEEDED")
                [] i \in failed \cup spent -> Memory!SettledAs(work[s][i], "FAILED")
                [] OTHER                -> work[s][i]
    BY <1>2 DEF SettledRow, Memory!SettledAs
  <1>5. work' = [work EXCEPT ![s] = [i \in Incidents |->
                    CASE i \in moved          -> Memory!SettledAs(@[i], "SUCCEEDED")
                      [] i \in failed \cup spent -> Memory!SettledAs(@[i], "FAILED")
                      [] OTHER                -> @[i]]]
    BY <1>4 DEF Reap, batch
  <1>6. UNCHANGED <<Memory!documents, pinned>>
    BY DEF Reap, artifactVars, Memory!documents
  <1> QED BY <1>3, <1>5, <1>6 DEF Memory!Reap, moved, failed, spent

LEMMA RowsAreReaped ==
    ASSUME StoreTypeOK, PassesAreWhole, NEW s \in Stages, NEW scope \in SUBSET Incidents,
           s # "analysis" => scope = Incidents,
           NEW batch \in ReapBatches({i \in scope : Reapable(s, i)}), Reap(s, batch)
    PROVE  Call
  <1>1. Memory!Reap(s, ActiveStatus[s], RecoveredIn[s], scope)
    BY WholeBatch, ReapIsReap
  <1>2. 1 \in 1..MaxAttempts
    BY MaxAttemptsAssumption
  <1>3. CASE Incidents = {}
    <2>1. UNCHANGED storeVars
      BY <1>3 DEF Reap, storeVars, queueVars, StoreTypeOK
    <2> QED BY <2>1, NothingCalled
  <1>4. CASE Incidents # {}
    <2>1. PICK i \in Incidents : TRUE
      BY <1>4
    <2>2. CASE s = "collection"
      <3>1. /\ ActiveStatus[s] = "COLLECTING"
            /\ RecoveredIn[s] = {"LOCALIZING", "ANALYZING", "REPORTED", "PARTIAL"}
        BY <2>2 DEF ActiveStatus, RecoveredIn, Stages
      <3> QED BY <1>1, <1>2, <2>2, <3>1, QueueCall DEF Memory!CollectionQueue
    <2>3. CASE s = "localization"
      <3>1. ActiveStatus[s] = "LOCALIZING" /\ RecoveredIn[s] = {"ANALYZING"}
        BY <2>3 DEF ActiveStatus, RecoveredIn, Stages
      <3> QED BY <1>1, <1>2, <2>3, <3>1, QueueCall DEF Memory!LocalizationQueue
    <2>4. CASE s = "analysis"
      <3>1. ActiveStatus[s] = "ANALYZING" /\ RecoveredIn[s] = {"REPORTED", "PARTIAL"}
        BY <2>4 DEF ActiveStatus, RecoveredIn, Stages
      <3> QED BY <1>1, <1>2, <2>4, <3>1, QueueCall DEF Memory!AnalysisQueue
    <2> QED BY <2>2, <2>3, <2>4 DEF Stages
  <1> QED BY <1>3, <1>4

-----------------------------------------------------------------------------
(* The workers                                                             *)

LEMMA WorkerClaim ==
    ASSUME PipelineInv, NEW w \in IncidentWorkers, HoldsIncident(w)
    PROVE  /\ iw[w].incident \in Incidents
           /\ iw[w].claim \in 1..MaxAttempts
           /\ status[iw[w].incident] # "NEW"
  <1> DEFINE s == StageOf(iw[w].pc)
             i == iw[w].incident
  <1>1. i \in Incidents /\ iw[w].claim \in Nat \ {0} /\ s \in Stages
    BY WorkerFields, StepSets DEF PipelineInv
  <1>2. iw[w].claim <= work[s][i].attempts
    BY DEF PipelineInv, ClaimsAreIssued
  <1>3. StoreTypeOK /\ StoreInv /\ work[s][i] \in Row
    BY <1>1 DEF PipelineInv, TypeOK, StoreTypeOK
  <1>4. work[s][i].state # "ABSENT"
    BY <1>1, <1>2, <1>3 DEF StoreInv, AttemptsAreBounded, Row
  <1>5. s \in {"collection", "localization"}
    BY DEF StageOf
  <1> HIDE DEF s, i
  <1>6. status[i] # "NEW"
    BY <1>1, <1>3, <1>4, <1>5 DEF StoreInv, QueuesFollowStatus
  <1> QED BY <1>1, <1>2, <1>3, <1>6, ClaimInRange DEF s, i

LEMMA AgentClaim ==
    ASSUME PipelineInv, RecordsAgree, NEW a \in Agents, HoldsAnalysis(a)
    PROVE  /\ aw[a].incident \in Incidents
           /\ aw[a].claim \in 1..MaxAttempts
           /\ contexts[aw[a].incident] # {}
  <1> DEFINE i == aw[a].incident
  <1>1. i \in Incidents /\ aw[a].claim \in Nat \ {0} /\ "analysis" \in Stages
    BY AgentFields DEF PipelineInv, Stages
  <1>2. aw[a].claim <= work["analysis"][i].attempts
    BY DEF PipelineInv, ClaimsAreIssued
  <1>3. StoreTypeOK /\ StoreInv /\ work["analysis"][i] \in Row
    BY <1>1 DEF PipelineInv, TypeOK, StoreTypeOK
  <1>4. work["analysis"][i].state # "ABSENT"
    BY <1>1, <1>2, <1>3 DEF StoreInv, AttemptsAreBounded, Row
  <1> HIDE DEF i
  <1>5. pinned[i] \in contexts[i]
    BY <1>1, <1>4 DEF RecordsAgree
  <1> QED BY <1>1, <1>2, <1>3, <1>5, ClaimInRange DEF i

LEMMA LoopStepCalls ==
    ASSUME PipelineInv, PassesAreWhole, NEW w \in IncidentWorkers,
           \/ ReapCollection(w) \/ ReapLocalization(w)
           \/ ClaimLocalization(w) \/ ClaimCollection(w)
    PROVE  Call
  <1>0. StoreTypeOK /\ {"collection", "localization"} \subseteq Stages
    BY DEF PipelineInv, TypeOK, Stages
  <1>1. CASE ReapCollection(w)
    BY <1>0, <1>1, RowsAreReaped DEF ReapCollection
  <1>2. CASE ReapLocalization(w)
    BY <1>0, <1>2, RowsAreReaped DEF ReapLocalization
  <1>3. CASE ClaimLocalization(w)
    BY <1>0, <1>3, ClaimIsTaken, NothingCalled DEF ClaimLocalization
  <1>4. CASE ClaimCollection(w)
    BY <1>0, <1>4, ClaimIsTaken, NothingCalled DEF ClaimCollection
  <1> QED BY <1>1, <1>2, <1>3, <1>4

LEMMA CollectionStepCalls ==
    ASSUME PipelineInv, NEW w \in IncidentWorkers,
           \/ Collect(w) \/ StoreStatuses(w) \/ StoreCollected(w)
           \/ LeaveCollecting(w) \/ CompleteCollection(w) \/ FailCollection(w)
    PROVE  Call
  <1>0. /\ StoreTypeOK /\ StoreInv /\ "collection" \in Stages
        /\ {"COLLECTING", "LOCALIZING", "FAILED"} \subseteq LC!Statuses \ {"NEW"}
    BY DEF PipelineInv, TypeOK, Stages, LC!Statuses
  <1>h. HoldsIncident(w)
    BY DEF Collect, StoreStatuses, StoreCollected, LeaveCollecting, CompleteCollection,
           FailCollection, At, HoldsIncident, CollectionSteps
  <1>c. iw[w].incident \in Incidents /\ iw[w].claim \in 1..MaxAttempts
    BY <1>h, WorkerClaim
  <1>1. CASE Collect(w)
    BY <1>1, NothingCalled DEF Collect
  <1>2. CASE StoreStatuses(w)
    BY <1>c, <1>2, StatusesAreReplaced, NothingCalled DEF StoreStatuses, Raise
  <1>3. CASE StoreCollected(w)
    <2>1. CASE Raise(w, "fail_collection")
      BY <2>1, NothingCalled DEF Raise
    <2>2. CASE ~Raise(w, "fail_collection")
      <3>1. PICK items \in {{}, {<<"collection", iw[w].claim>>}} : StoreEvidence(iw[w].incident, items)
        BY <1>3, <2>2 DEF StoreCollected
      <3> QED BY <1>0, <1>c, <3>1, EvidenceIsStored
    <2> QED BY <2>1, <2>2
  <1>4. CASE LeaveCollecting(w)
    BY <1>0, <1>c, <1>4, TransitionIsMove, NothingCalled DEF LeaveCollecting, Raise
  <1>5. CASE CompleteCollection(w)
    <2>1. CASE Raise(w, "fail_collection")
      BY <2>1, NothingCalled DEF Raise
    <2>2. CASE ~Raise(w, "fail_collection")
      <3>1. PICK outcome \in {"SUCCEEDED", "FAILED"} :
                Complete("collection", iw[w].incident, iw[w].claim, outcome)
        BY <1>5, <2>2 DEF CompleteCollection
      <3> QED BY <1>0, <1>c, <3>1, ClaimIsCompleted
    <2> QED BY <2>1, <2>2
  <1>6. CASE FailCollection(w)
    BY <1>0, <1>c, <1>6, ClaimIsFailed, NothingCalled DEF FailCollection
  <1> QED BY <1>1, <1>2, <1>3, <1>4, <1>5, <1>6

LEMMA LocalizationStepCalls ==
    ASSUME PipelineInv, NEW w \in IncidentWorkers,
           \/ Plan(w) \/ StoreCandidates(w) \/ CheckLease(w) \/ RenewLease(w)
           \/ CheckLocalizing(w) \/ FreezeContext(w) \/ LeaveLocalizing(w)
           \/ MarkLocalizationFailed(w) \/ CompleteLocalization(w) \/ FailLocalization(w)
    PROVE  Call
  <1>0. /\ StoreTypeOK /\ StoreInv /\ "localization" \in Stages
        /\ {"LOCALIZING", "ANALYZING", "FAILED"} \subseteq LC!Statuses \ {"NEW"}
    BY DEF PipelineInv, TypeOK, Stages, LC!Statuses
  <1>h. iw[w].pc \in LocalizationSteps
    BY DEF Plan, StoreCandidates, CheckLease, RenewLease, CheckLocalizing, FreezeContext,
           LeaveLocalizing, MarkLocalizationFailed, CompleteLocalization, FailLocalization,
           At, LocalizationSteps
  <1>c. /\ iw[w].incident \in Incidents /\ iw[w].claim \in 1..MaxAttempts
        /\ status[iw[w].incident] # "NEW"
    BY <1>h, WorkerClaim DEF HoldsIncident
  <1>1. CASE Plan(w) \/ CheckLease(w) \/ CheckLocalizing(w)
    BY <1>1, NothingCalled DEF Plan, CheckLease, CheckLocalizing
  <1>2. CASE StoreCandidates(w)
    BY <1>c, <1>2, CandidatesAreStored, NothingCalled DEF StoreCandidates, Raise
  <1>3. CASE RenewLease(w)
    BY <1>c, <1>3, LeaseIsRenewed, NothingCalled DEF RenewLease, Raise
  <1>4. CASE FreezeContext(w)
    BY <1>0, <1>c, <1>4, ContextIsStored, NothingCalled DEF FreezeContext, Raise
  <1>5. CASE LeaveLocalizing(w)
    BY <1>0, <1>c, <1>5, TransitionIsMove, NothingCalled DEF LeaveLocalizing, Raise
  <1>6. CASE MarkLocalizationFailed(w)
    BY <1>0, <1>c, <1>6, TransitionIsMove, NothingCalled DEF MarkLocalizationFailed
  <1>7. CASE CompleteLocalization(w)
    BY <1>0, <1>c, <1>7, ClaimIsCompleted, NothingCalled DEF CompleteLocalization, Raise
  <1>8. CASE FailLocalization(w)
    BY <1>0, <1>c, <1>8, ClaimIsFailed, NothingCalled DEF FailLocalization
  <1> QED BY <1>1, <1>2, <1>3, <1>4, <1>5, <1>6, <1>7, <1>8

LEMMA AgentStepCalls ==
    ASSUME PipelineInv, RecordsAgree, PassesAreWhole, NEW a \in Agents, AgentStep(a)
    PROVE  Call
  <1>0. /\ StoreTypeOK /\ StoreInv /\ "analysis" \in Stages /\ Eligible \in SUBSET Incidents
        /\ {"ANALYZING", "REPORTED", "FAILED"} \subseteq LC!Statuses \ {"NEW"}
    BY EligibleAssumption DEF PipelineInv, TypeOK, Stages, LC!Statuses
  <1>1. CASE ReapAnalysis(a)
    BY <1>0, <1>1, RowsAreReaped DEF ReapAnalysis
  <1>2. CASE ClaimNextEligible(a) \/ ClaimIncident(a)
    BY <1>0, <1>2, ClaimIsTaken, NothingCalled DEF ClaimNextEligible, ClaimIncident
  <1>3. CASE CheckAnalyzing(a) \/ Investigate(a)
    BY <1>3, NothingCalled DEF CheckAnalyzing, Investigate
  <1>4. ASSUME HoldsAnalysis(a),
               \/ StoreAcceptedRun(a) \/ StoreAcceptedReport(a) \/ LeaveAnalyzing(a)
               \/ StoreFailureAudit(a) \/ MarkAnalysisFailed(a)
               \/ CompleteAnalysis(a) \/ FailAnalysis(a)
        PROVE  Call
    <2>c. /\ aw[a].incident \in Incidents /\ aw[a].claim \in 1..MaxAttempts
          /\ contexts[aw[a].incident] # {}
      BY <1>4, AgentClaim
    <2>1. CASE StoreAcceptedRun(a)
      BY <2>c, <2>1, AgentRunIsStored, NothingCalled DEF StoreAcceptedRun, AgentRaise
    <2>2. CASE StoreAcceptedReport(a)
      BY <2>c, <2>2, ReportIsStored, NothingCalled DEF StoreAcceptedReport, AgentRaise
    <2>3. CASE LeaveAnalyzing(a)
      BY <1>0, <2>c, <2>3, TransitionIsMove, NothingCalled DEF LeaveAnalyzing, AgentRaise
    <2>4. CASE StoreFailureAudit(a)
      BY <2>c, <2>4, AgentRunIsStored, NothingCalled DEF StoreFailureAudit
    <2>5. CASE MarkAnalysisFailed(a)
      BY <1>0, <2>c, <2>5, TransitionIsMove, NothingCalled DEF MarkAnalysisFailed
    <2>6. CASE CompleteAnalysis(a)
      BY <1>0, <2>c, <2>6, ClaimIsCompleted, NothingCalled DEF CompleteAnalysis
    <2>7. CASE FailAnalysis(a)
      BY <1>0, <2>c, <2>7, ClaimIsFailed, NothingCalled DEF FailAnalysis
    <2> QED BY <1>4, <2>1, <2>2, <2>3, <2>4, <2>5, <2>6, <2>7
  <1>5. \/ StoreAcceptedRun(a) \/ StoreAcceptedReport(a) \/ LeaveAnalyzing(a)
        \/ StoreFailureAudit(a) \/ MarkAnalysisFailed(a)
        \/ CompleteAnalysis(a) \/ FailAnalysis(a)
        => HoldsAnalysis(a)
    BY DEF StoreAcceptedRun, StoreAcceptedReport, LeaveAnalyzing, StoreFailureAudit,
           MarkAnalysisFailed, CompleteAnalysis, FailAnalysis, AgentAt, HoldsAnalysis, AnalysisSteps
  <1> QED BY <1>1, <1>2, <1>3, <1>4, <1>5 DEF AgentStep

LEMMA NextCalls ==
    ASSUME PipelineInv, RecordsAgree, PassesAreWhole, [Next]_vars
    PROVE  Call
  <1>0. StoreTypeOK /\ StoreInv
    BY DEF PipelineInv, TypeOK
  <1>1. ASSUME NEW i \in Incidents, ReceiveAlert(i) PROVE Call
    BY <1>0, <1>1, ReceiveIsCreate DEF ReceiveAlert
  <1>2. ASSUME NEW s \in Stages, NEW i \in Incidents, ExpireLease(s, i) PROVE Call
    BY <1>2, LeaseRunsOut DEF ExpireLease
  <1>3. ASSUME NEW w \in IncidentWorkers, RunIncidentWorker(w) PROVE Call
    BY <1>3, LoopStepCalls, CollectionStepCalls, LocalizationStepCalls
       DEF RunIncidentWorker, IncidentWorkerStep
  <1>4. ASSUME NEW a \in Agents, RunAgent(a) PROVE Call
    BY <1>4, AgentStepCalls DEF RunAgent
  <1>5. CASE Crash
    BY <1>5, NothingCalled DEF Crash, CrashIncidentWorker, CrashAgentWorker
  <1>6. CASE UNCHANGED vars
    BY <1>6, NothingCalled DEF vars
  <1> QED BY <1>1, <1>2, <1>3, <1>4, <1>5, <1>6 DEF Next

-----------------------------------------------------------------------------
(* Evidence before analysis                                                *)

\* No Evidence is lost, and who gets a Context or a checkpoint has Evidence.
RestsOnEvidence ==
    \A i \in Incidents :
        /\ evidence[i] \subseteq evidence'[i]
        /\ contexts'[i] # contexts[i] \/ checkpoint'[i] # checkpoint[i] => evidence[i] # {}

LEMMA NothingStored ==
    ASSUME UNCHANGED artifactVars
    PROVE  RestsOnEvidence
  BY DEF artifactVars, RestsOnEvidence

LEMMA StoreRestsOnEvidence ==
    ASSUME StoreTypeOK, NEW i \in Incidents, NEW n,
           \/ ReplaceCollectorStatuses(i, n) \/ StoreContext(i, n) \/ StoreCollection(i, n)
           \/ \E items : StoreEvidence(i, items)
           \/ \E r : StoreAgentRun(i, n, r) \/ StoreReport(i, n, r)
    PROVE  RestsOnEvidence
  <1>1. CASE ReplaceCollectorStatuses(i, n) \/ \E r : StoreAgentRun(i, n, r) \/ StoreReport(i, n, r)
    BY <1>1 DEF ReplaceCollectorStatuses, StoreAgentRun, StoreReport, RestsOnEvidence
  <1>2. CASE \E items : StoreEvidence(i, items)
    BY <1>2 DEF StoreEvidence, StoreTypeOK, RestsOnEvidence
  <1>3. CASE StoreContext(i, n)
    BY <1>3 DEF StoreContext, StoreTypeOK, RestsOnEvidence
  <1>4. CASE StoreCollection(i, n)
    <2>1. PICK items \in SUBSET {<<"localization", n>>} :
              evidence' = [evidence EXCEPT ![i] = @ \cup items]
      BY <1>4 DEF StoreCollection
    <2>2. evidence[i] # {} /\ contexts' = contexts /\ checkpoint' = [checkpoint EXCEPT ![i] = n]
      BY <1>4 DEF StoreCollection, CanStoreCollection
    <2> QED BY <2>1, <2>2 DEF StoreTypeOK, RestsOnEvidence
  <1> QED BY <1>1, <1>2, <1>3, <1>4

LEMMA WorkersRestOnEvidence ==
    ASSUME TypeOK, NEW w \in IncidentWorkers, IncidentWorkerStep(w)
    PROVE  RestsOnEvidence
  <1> DEFINE i == iw[w].incident
             n == iw[w].claim
  <1>0. StoreTypeOK
    BY DEF TypeOK
  <1>c. HoldsIncident(w) => i \in Incidents
    BY WorkerFields
  <1>u. ASSUME UNCHANGED storeVars PROVE RestsOnEvidence
    BY <1>u, NothingStored DEF storeVars
  <1>1. CASE ReapCollection(w) \/ ReapLocalization(w) \/ ClaimLocalization(w) \/ ClaimCollection(w)
    BY <1>1, <1>u, NothingStored
       DEF ReapCollection, ReapLocalization, ClaimLocalization, ClaimCollection, Reap, Claim
  <1>2. CASE Collect(w) \/ Plan(w) \/ CheckLease(w) \/ CheckLocalizing(w)
    BY <1>2, <1>u DEF Collect, Plan, CheckLease, CheckLocalizing
  <1>3. CASE \/ LeaveCollecting(w) \/ CompleteCollection(w) \/ FailCollection(w)
             \/ RenewLease(w) \/ LeaveLocalizing(w) \/ MarkLocalizationFailed(w)
             \/ CompleteLocalization(w) \/ FailLocalization(w)
    BY <1>3, <1>u, NothingStored
       DEF LeaveCollecting, CompleteCollection, FailCollection, RenewLease, LeaveLocalizing,
           MarkLocalizationFailed, CompleteLocalization, FailLocalization, Raise,
           Transition, Complete, Fail, Renew
  <1>4. CASE StoreStatuses(w) \/ StoreCollected(w) \/ StoreCandidates(w) \/ FreezeContext(w)
    <2>1. HoldsIncident(w)
      BY <1>4 DEF StoreStatuses, StoreCollected, StoreCandidates, FreezeContext, At,
                  HoldsIncident, CollectionSteps, LocalizationSteps
    <2>2. i \in Incidents
      BY <1>c, <2>1
    <2>3. \/ UNCHANGED storeVars
          \/ ReplaceCollectorStatuses(i, n) \/ StoreContext(i, n) \/ StoreCollection(i, n)
          \/ \E items : StoreEvidence(i, items)
      BY <1>4 DEF StoreStatuses, StoreCollected, StoreCandidates, FreezeContext, Raise
    <2> HIDE DEF i, n
    <2> QED BY <1>0, <1>u, <2>2, <2>3, StoreRestsOnEvidence
  <1> QED BY <1>1, <1>2, <1>3, <1>4 DEF IncidentWorkerStep

LEMMA AgentsRestOnEvidence ==
    ASSUME TypeOK, NEW a \in Agents, AgentStep(a)
    PROVE  RestsOnEvidence
  <1> DEFINE i == aw[a].incident
             n == aw[a].claim
  <1>0. StoreTypeOK
    BY DEF TypeOK
  <1>u. ASSUME UNCHANGED storeVars PROVE RestsOnEvidence
    BY <1>u, NothingStored DEF storeVars
  <1>1. CASE ReapAnalysis(a) \/ ClaimNextEligible(a) \/ ClaimIncident(a)
    BY <1>1, <1>u, NothingStored DEF ReapAnalysis, ClaimNextEligible, ClaimIncident, Reap, Claim
  <1>2. CASE CheckAnalyzing(a) \/ Investigate(a)
    BY <1>2, <1>u DEF CheckAnalyzing, Investigate
  <1>3. CASE LeaveAnalyzing(a) \/ MarkAnalysisFailed(a) \/ CompleteAnalysis(a) \/ FailAnalysis(a)
    BY <1>3, <1>u, NothingStored
       DEF LeaveAnalyzing, MarkAnalysisFailed, CompleteAnalysis, FailAnalysis, AgentRaise,
           Transition, Complete, Fail
  <1>4. CASE StoreAcceptedRun(a) \/ StoreAcceptedReport(a) \/ StoreFailureAudit(a)
    <2>1. HoldsAnalysis(a)
      BY <1>4 DEF StoreAcceptedRun, StoreAcceptedReport, StoreFailureAudit, AgentAt,
                  HoldsAnalysis, AnalysisSteps
    <2>2. i \in Incidents
      BY <2>1, AgentFields
    <2>3. UNCHANGED storeVars \/ \E r : StoreAgentRun(i, n, r) \/ StoreReport(i, n, r)
      BY <1>4 DEF StoreAcceptedRun, StoreAcceptedReport, StoreFailureAudit, AgentRaise
    <2> HIDE DEF i, n
    <2> QED BY <1>0, <1>u, <2>2, <2>3, StoreRestsOnEvidence
  <1> QED BY <1>1, <1>2, <1>3, <1>4 DEF AgentStep

LEMMA NextRestsOnEvidence ==
    ASSUME TypeOK, [Next]_vars
    PROVE  RestsOnEvidence
  <1>u. ASSUME UNCHANGED storeVars PROVE RestsOnEvidence
    BY <1>u, NothingStored DEF storeVars
  <1>1. ASSUME NEW i \in Incidents, ReceiveAlert(i) PROVE RestsOnEvidence
    BY <1>1, NothingStored DEF ReceiveAlert, Receive
  <1>2. ASSUME NEW s \in Stages, NEW i \in Incidents, ExpireLease(s, i) PROVE RestsOnEvidence
    BY <1>2, NothingStored DEF ExpireLease, Expire
  <1>3. ASSUME NEW w \in IncidentWorkers, RunIncidentWorker(w) PROVE RestsOnEvidence
    BY <1>3, WorkersRestOnEvidence DEF RunIncidentWorker
  <1>4. ASSUME NEW a \in Agents, RunAgent(a) PROVE RestsOnEvidence
    BY <1>4, AgentsRestOnEvidence DEF RunAgent
  <1>5. CASE Crash
    BY <1>5, <1>u DEF Crash, CrashIncidentWorker, CrashAgentWorker
  <1>6. CASE UNCHANGED vars
    BY <1>6, <1>u DEF vars
  <1> QED BY <1>1, <1>2, <1>3, <1>4, <1>5, <1>6 DEF Next

LEMMA ContextsStayBacked ==
    FrozenFromEvidence /\ RestsOnEvidence => FrozenFromEvidence'
  BY DEF FrozenFromEvidence, RestsOnEvidence

(* Who is analysed, reported on or has a report has been enqueued for its   *)
(* analysis, which is pinned to a Context that is stored.                   *)
LEMMA AnalysedFromContext ==
    ASSUME PipelineInv, HistoryInv, NEW i \in Incidents,
           status[i] \in {"ANALYZING", "REPORTED"} \/ reports[i] # {}
    PROVE  contexts[i] # {}
  <1>1. CASE reports[i] # {} \/ status[i] = "REPORTED"
    BY <1>1 DEF HistoryInv, ReportsAreBacked, RecordsAgree
  <1>2. CASE status[i] = "ANALYZING"
    <2>1. "analysis" \in Stages /\ ActiveStatus["analysis"] = "ANALYZING"
      BY DEF Stages, ActiveStatus
    <2>2. work["analysis"][i].state # "ABSENT"
      BY <1>2, <2>1 DEF PipelineInv, StoreInv, NoStrandedIncident, InWork
    <2> QED BY <2>2 DEF HistoryInv, RecordsAgree
  <1> QED BY <1>1, <1>2

(* An Incident whose collection found nothing to store is never analysed    *)
(* and never reported on: whoever froze its Context, collected its          *)
(* candidates or reported on it had Evidence, and the Evidence is still     *)
(* there, whatever stale attempts stored since.                            *)
THEOREM AnalysisRestsOnEvidence == Spec => []AnalysesRestOnEvidence
  <1>1. Init => FrozenFromEvidence
    BY DEF Init, StoreInit, FrozenFromEvidence
  <1>2. PipelineInv /\ FrozenFromEvidence /\ [Next]_vars => FrozenFromEvidence'
    BY NextRestsOnEvidence, ContextsStayBacked DEF PipelineInv
  <1>3. PipelineInv /\ HistoryInv /\ FrozenFromEvidence => AnalysesRestOnEvidence
    BY AnalysedFromContext DEF FrozenFromEvidence, AnalysesRestOnEvidence
  <1> QED BY <1>1, <1>2, <1>3, RecordsStayTrue, PTL DEF Spec

-----------------------------------------------------------------------------
(* The refinement                                                          *)

LEMMA InitIsEmpty == Init => Memory!Init
  BY DEF Init, StoreInit, Memory!Init, Stages, AbsentRow, Memory!NoItem

(* While the reapers can settle all there is to settle in a pass, every     *)
(* transaction any worker commits, current or stale, is a call the          *)
(* in-memory adapters would have answered in the same way.                 *)
THEOREM DatabaseImplementsMemory == Spec /\ []PassesAreWhole => DatabaseActsAsMemory
  <1>1. PipelineInv /\ HistoryInv /\ PassesAreWhole /\ [Next]_vars
            => [Memory!Next]_(Memory!vars)
    BY NextCalls DEF HistoryInv, Call
  <1> QED BY <1>1, InitIsEmpty, RecordsStayTrue, PTL
          DEF Spec, DatabaseActsAsMemory, Memory!Spec
=============================================================================
