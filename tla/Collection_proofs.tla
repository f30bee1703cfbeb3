--------------------------- MODULE Collection_proofs ---------------------------
(***************************************************************************)
(* What Collection's runs check of the orchestrator on two collectors and    *)
(* two workers, for any number of them: an outcome is the collector's own,   *)
(* a batch is stored whole, and a Context is frozen from whole runs.         *)
(*                                                                         *)
(* Then what KubernetesCollection's run checks of one of the collectors, for  *)
(* any cluster, limits and page sizes.  KubernetesInv is inductive: a listing  *)
(* has all that stays and nothing that never was however it is continued, and *)
(* a provider that has no reason to say PARTIAL has found, and told, all it is *)
(* past.  What the cluster does meanwhile takes none of it back (Moves).      *)
(*                                                                         *)
(* Last, that what the six other collectors deliver can be projected, and is  *)
(* exact unless it is PARTIAL, for any answers, limits and page sizes.         *)
(* TelemetryInv is inductive: for each collector it says what its answers so  *)
(* far have shown (a flow of the Service in the window, a Pod with a uid,      *)
(* ReplicaSets told apart by their revision), because the facts of a draft    *)
(* are computed from several answers at its end.  CollectedInv adds how they   *)
(* relate to the source that has changed since (Gathered).                   *)
(***************************************************************************)
EXTENDS Collection, KubernetesCollection, TelemetryCollection, Ordering_proofs

-----------------------------------------------------------------------------
(* Sequences of executions, and the specs in order *)

LEMMA RangeOfAppend ==
    ASSUME NEW S, NEW s \in Seq(S), NEW e \in S
    PROVE  /\ Append(s, e) \in Seq(S)
           /\ Len(Append(s, e)) = Len(s) + 1
           /\ Range(Append(s, e)) = Range(s) \cup {e}
  <1>1. Len(s) \in Nat /\ DOMAIN s = 1..Len(s)
    BY LenProperties
  <1>2. /\ Append(s, e) \in Seq(S) /\ Len(Append(s, e)) = Len(s) + 1
        /\ \A k \in 1..Len(s) : Append(s, e)[k] = s[k]
        /\ Append(s, e)[Len(s) + 1] = e
    BY AppendProperties
  <1>3. DOMAIN Append(s, e) = (1..Len(s)) \cup {Len(s) + 1}
    BY <1>1, <1>2, LenProperties
  <1> QED BY <1>1, <1>2, <1>3 DEF Range

LEMMA ElementsAreTyped ==
    ASSUME NEW S, NEW s \in Seq(S), NEW e \in Range(s)
    PROVE  e \in S
  <1>1. PICK k \in DOMAIN s : e = s[k]
    BY DEF Range
  <1> QED BY <1>1, LenProperties

LEMMA SpecsInOrder ==
    /\ Len(Specs) \in Nat \ {0}
    /\ \A k \in 1..Len(Specs) : Specs[k] \in Range(Specs) /\ Specs[k].name \in Names
    /\ \A c \in Names : UsableSpec(SpecOf(c))
  <1>1. Specs \in Seq(Range(Specs)) /\ Specs # <<>>
    BY SpecsAreUsable
  <1>2. Len(Specs) \in Nat \ {0} /\ DOMAIN Specs = 1..Len(Specs)
    BY <1>1
  <1>3. \A k \in 1..Len(Specs) : Specs[k] \in Range(Specs)
    BY <1>2 DEF Range
  <1>4. ASSUME NEW c \in Names
        PROVE  SpecOf(c) \in Range(Specs)
    BY DEF SpecOf, Names
  <1> QED BY <1>2, <1>3, <1>4, SpecsAreUsable DEF Names

LEMMA AwaitedIsASpec ==
    ASSUME NEW w \in Workers, TypeOK, RunInOrder(w), job[w].pc = "await"
    PROVE  /\ Awaited(w) \in Names
           /\ job[w].executions \in Seq(Executions)
           /\ Len(job[w].executions) \in Nat /\ Len(job[w].executions) < Len(Specs)
  <1>1. job[w].executions \in Seq(Executions)
    BY DEF TypeOK, Jobs
  <1>2. Len(job[w].executions) \in Nat /\ Len(job[w].executions) < Len(Specs)
    BY <1>1 DEF RunInOrder
  <1> QED BY <1>1, <1>2, SpecsInOrder DEF Awaited

LEMMA WindowIsTyped ==
    ASSUME NEW c \in Names, NEW end \in Nat
    PROVE  BoundedWindow(c, end) \in Nat \X Nat /\ BoundedWindow(c, end)[1] >= Baseline
  <1>1. SpecOf(c).lookback \in Nat /\ Baseline \in Nat
    BY SpecsInOrder, TimesAreUsable DEF UsableSpec
  <1> QED BY <1>1 DEF BoundedWindow

LEMMA FailedHasNoEvidence ==
    ASSUME NEW executions, RunStatus(executions) = "FAILED",
           \A e \in Range(executions) : e.status \notin Delivered => e.evidence = {}
    PROVE  RunEvidence(executions) = {}
  <1>1. Statuses(executions) \cap Delivered = {}
    BY DEF RunStatus
  <1>2. \A e \in Range(executions) : e.status \notin Delivered
    BY <1>1 DEF Statuses
  <1> QED BY <1>2 DEF RunEvidence

LEMMA RunEvidenceIsTyped ==
    ASSUME NEW executions \in Seq(Executions)
    PROVE  RunEvidence(executions) \in SUBSET Stored
  <1>1. Range(executions) \subseteq Executions
    BY ElementsAreTyped
  <1>2. \A e \in Executions : e.evidence \subseteq Stored
    BY DEF Executions
  <1> QED BY <1>1, <1>2 DEF RunEvidence

-----------------------------------------------------------------------------
LEMMA NoThreadIsAThread == NoThread \in Threads
  BY DEF NoThread, Threads, NoBatch

LEMMA NewThread ==
    ASSUME NEW deadline \in Nat, NEW window \in Nat \X Nat
    PROVE  LET t == [NoThread EXCEPT !.state = "running", !.attempt = 1,
                                     !.deadline = deadline, !.window = window]
           IN  t \in Threads /\ t.window = window /\ t.state = "running"
  BY DEF NoThread, Threads, NoBatch

LEMMA CollectionInit == Init => CollectionInv
  <1> SUFFICES ASSUME Init PROVE CollectionInv
    OBVIOUS
  <1> USE DEF Init
  <1>1. NoThread \in Threads
    BY NoThreadIsAThread
  <1>2. NoJob \in Jobs
    BY DEF NoJob, Jobs
  <1>3. TypeOK
    <2>1. now \in Nat /\ statuses \in Seq([collector : Names, status : Delivered \cup {"TIMED_OUT", "FAILED"}])
      BY TimesAreUsable
    <2>2. thread \in [Workers -> [Names -> Threads]] /\ job \in [Workers -> Jobs]
      BY <1>1, <1>2
    <2>3. status \in {"COLLECTING", "LOCALIZING", "FAILED"} /\ evidence \in SUBSET Stored
      OBVIOUS
    <2>4. frozen \in (SUBSET Stored) \cup {NoContext}
      OBVIOUS
    <2> HIDE DEF Init
    <2> QED BY <2>1, <2>2, <2>3, <2>4 DEF TypeOK
  <1>4. ASSUME NEW w \in Workers
        PROVE  RunIsSound(w)
    <2>1. job[w].pc = "idle" /\ job[w].executions = <<>>
      BY DEF NoJob
    <2>2. \A c \in Names : thread[w][c].state = "unborn"
      BY DEF NoThread
    <2>3. Range(job[w].executions) = {}
      BY <2>1 DEF Range
    <2> QED BY <2>1, <2>2, <2>3 DEF RunIsSound, RunInOrder
  <1>5. SomeRunFinished /\ FrozenFromWholeRuns
    BY DEF SomeRunFinished, FrozenFromWholeRuns
  <1> QED BY <1>3, <1>4, <1>5 DEF CollectionInv

-----------------------------------------------------------------------------
(* What a step leaves alone *)

LEMMA RunFrame ==
    ASSUME NEW w \in Workers, TypeOK, TypeOK', RunIsSound(w),
           job'[w] = job[w], thread'[w] = thread[w], now' >= now, evidence \subseteq evidence'
    PROVE  RunIsSound(w)'
  <1>1. RunInOrder(w)'
    BY DEF RunIsSound, RunInOrder
  <1>2. ASSUME NEW e \in Range(job[w].executions)
        PROVE  ExecutionStands(w, e)'
    <2>1. e \in Executions
      BY ElementsAreTyped DEF TypeOK, Jobs
    <2>2. thread[w][e.collector] \in Threads
      BY <2>1 DEF Executions, TypeOK
    <2>3. thread[w][e.collector].deadline \in Nat /\ now \in Nat /\ now' \in Nat
      BY <2>2 DEF Threads, TypeOK
    <2>4. ExecutionStands(w, e)
      BY DEF RunIsSound
    <2> QED BY <2>3, <2>4 DEF ExecutionStands, Evidence
  <1> QED BY <1>1, <1>2 DEF RunIsSound

LEMMA FinishedFrame ==
    ASSUME SomeRunFinished, FrozenFromWholeRuns, status' = status, frozen' = frozen,
           evidence \subseteq evidence',
           \A w \in Workers : "finished" \in {job[w].pc, job'[w].pc} => job'[w] = job[w]
    PROVE  SomeRunFinished' /\ FrozenFromWholeRuns'
  <1>1. SomeRunFinished'
    BY DEF SomeRunFinished
  <1>2. FrozenFromWholeRuns'
    BY DEF FrozenFromWholeRuns
  <1> QED BY <1>1, <1>2

-----------------------------------------------------------------------------
(* The threads of the collectors *)

LEMMA TickStep == CollectionInv /\ Tick => CollectionInv'
  <1> SUFFICES ASSUME CollectionInv, Tick PROVE CollectionInv'
    OBVIOUS
  <1>1. TypeOK' /\ now' >= now
    BY DEF CollectionInv, TypeOK, Tick
  <1>2. ASSUME NEW w \in Workers PROVE RunIsSound(w)'
    BY <1>1, RunFrame DEF CollectionInv, Tick
  <1>3. SomeRunFinished' /\ FrozenFromWholeRuns'
    BY FinishedFrame DEF CollectionInv, Tick
  <1> QED BY <1>1, <1>2, <1>3 DEF CollectionInv

LEMMA StartStep == \A w \in Workers : CollectionInv /\ Start(w) => CollectionInv'
  <1> SUFFICES ASSUME NEW w \in Workers, CollectionInv, Start(w) PROVE CollectionInv'
    OBVIOUS
  <1> DEFINE end == IF IncidentEnd # NoEnd THEN IncidentEnd ELSE now
  <1>1. TypeOK /\ end \in Nat
    BY TimesAreUsable DEF CollectionInv, TypeOK
  <1> HIDE DEF end
  <1>2. \A c \in Names : thread'[w][c] = [NoThread EXCEPT !.state = "running", !.attempt = 1,
                                                       !.deadline = now + SpecOf(c).timeout,
                                                       !.window = BoundedWindow(c, end)]
    BY <1>1 DEF Start, TypeOK, end
  <1>3. ASSUME NEW c \in Names
        PROVE  thread'[w][c] \in Threads /\ thread'[w][c].window[1] >= Baseline
               /\ thread'[w][c].state = "running"
    <2>1. SpecOf(c).timeout \in Nat
      BY SpecsInOrder DEF UsableSpec
    <2>2. now + SpecOf(c).timeout \in Nat
      BY <1>1, <2>1 DEF TypeOK
    <2>3. BoundedWindow(c, end) \in Nat \X Nat /\ BoundedWindow(c, end)[1] >= Baseline
      BY <1>1, WindowIsTyped
    <2> DEFINE t == [NoThread EXCEPT !.state = "running", !.attempt = 1,
                                     !.deadline = now + SpecOf(c).timeout, !.window = BoundedWindow(c, end)]
    <2>4. t \in Threads /\ t.window = BoundedWindow(c, end) /\ t.state = "running"
      BY <2>2, <2>3, NewThread
    <2>5. thread'[w][c] = t
      BY <1>2
    <2> HIDE DEF t
    <2> QED BY <2>3, <2>4, <2>5
  <1>4. TypeOK'
    <2>1. thread' \in [Workers -> [Names -> Threads]]
      BY <1>1, <1>2, <1>3 DEF Start, TypeOK
    <2>2. job' \in [Workers -> Jobs]
      BY <1>1 DEF Start, TypeOK, Jobs
    <2> QED BY <1>1, <2>1, <2>2 DEF Start, TypeOK
  <1>5. job'[w].pc = "await" /\ job'[w].executions = <<>>
    BY <1>1 DEF Start, TypeOK, Jobs, CollectionInv, RunIsSound, RunInOrder
  <1>6. RunIsSound(w)'
    <2>1. Range(job'[w].executions) = {}
      BY <1>5 DEF Range
    <2>2. RunInOrder(w)'
      BY <1>3, <1>5, SpecsInOrder DEF RunInOrder
    <2> QED BY <2>1, <2>2 DEF RunIsSound
  <1>7. ASSUME NEW v \in Workers, v # w PROVE RunIsSound(v)'
    <2>1. job'[v] = job[v] /\ thread'[v] = thread[v]
      BY <1>1, <1>7 DEF Start, TypeOK
    <2>2. now' = now /\ evidence' = evidence
      BY DEF Start
    <2>3. now' >= now /\ evidence \subseteq evidence'
      BY <1>1, <2>2 DEF TypeOK
    <2> QED BY <1>1, <1>4, <2>1, <2>3, RunFrame DEF CollectionInv
  <1>8. SomeRunFinished' /\ FrozenFromWholeRuns'
    <2>1. \A v \in Workers : "finished" \in {job[v].pc, job'[v].pc} => job'[v] = job[v]
      BY <1>1, <1>5 DEF Start, TypeOK
    <2> QED BY <2>1, FinishedFrame DEF CollectionInv, Start
  <1> QED BY <1>4, <1>6, <1>7, <1>8 DEF CollectionInv

(* A thread that answers, fails or tries again was running: nothing of it   *)
(* has been delivered, and if it was given up, its time was over.           *)
LEMMA CollectsStep ==
    \A w \in Workers, c \in Names : CollectionInv /\ Collects(w, c) => CollectionInv'
  <1> SUFFICES ASSUME NEW w \in Workers, NEW c \in Names, CollectionInv, Collects(w, c)
               PROVE  CollectionInv'
    OBVIOUS
  <1> DEFINE t == thread[w][c]
  <1> DEFINE u == thread'[w][c]
  <1>1. TypeOK /\ RunIsSound(w) /\ t \in Threads /\ now \in Nat
    BY DEF CollectionInv, TypeOK
  <1>2. UNCHANGED <<now, job, status, statuses, evidence, frozen>> /\ t.state = "running"
    BY DEF Collects
  <1>3. /\ u \in Threads /\ u.deadline = t.deadline /\ u.window = t.window
        /\ u.state = "done" => u.completed = now /\ u.batch \in Returned
        /\ \A d \in Names : d # c => thread'[w][d] = thread[w][d]
        /\ \A v \in Workers : v # w => thread'[v] = thread[v]
        /\ thread' \in [Workers -> [Names -> Threads]]
    <2>1. CASE \E answer \in Batches[c] :
                 thread' = [thread EXCEPT ![w][c] = [@ EXCEPT !.state = "done", !.attempt = 0,
                                                              !.batch = answer, !.completed = now]]
      <3>1. PICK answer \in Batches[c] :
                 thread' = [thread EXCEPT ![w][c] = [@ EXCEPT !.state = "done", !.attempt = 0,
                                                              !.batch = answer, !.completed = now]]
        BY <2>1
      <3>2. answer \in Returned
        BY DEF Returned
      <3> DEFINE answered == [t EXCEPT !.state = "done", !.attempt = 0, !.batch = answer, !.completed = now]
      <3>3. /\ answered \in Threads /\ answered.deadline = t.deadline /\ answered.window = t.window
            /\ answered.completed = now /\ answered.batch \in Returned
        BY <1>1, <3>2 DEF Threads
      <3>4. thread' = [thread EXCEPT ![w][c] = answered]
        BY <3>1
      <3> HIDE DEF answered
      <3>5. /\ thread' \in [Workers -> [Names -> Threads]] /\ u = answered
            /\ \A d \in Names : d # c => thread'[w][d] = thread[w][d]
            /\ \A v \in Workers : v # w => thread'[v] = thread[v]
        BY <1>1, <3>3, <3>4 DEF TypeOK
      <3> QED BY <3>3, <3>5
    <2>2. CASE thread' = [thread EXCEPT ![w][c] = [@ EXCEPT !.state = "error", !.attempt = 0]]
      BY <1>1, <2>2 DEF TypeOK, Threads
    <2>3. CASE thread' = [thread EXCEPT ![w][c].attempt = @ + 1]
      <3> DEFINE again == [t EXCEPT !.attempt = @ + 1]
      <3>1. /\ again \in Threads /\ again.deadline = t.deadline /\ again.window = t.window
            /\ again.state = "running"
        BY <1>1, <1>2 DEF Threads
      <3>2. thread' = [thread EXCEPT ![w][c] = again]
        BY <2>3
      <3> HIDE DEF again
      <3>3. /\ thread' \in [Workers -> [Names -> Threads]] /\ u = again
            /\ \A d \in Names : d # c => thread'[w][d] = thread[w][d]
            /\ \A v \in Workers : v # w => thread'[v] = thread[v]
        BY <1>1, <3>1, <3>2 DEF TypeOK
      <3> QED BY <3>1, <3>3
    <2> QED BY <2>1, <2>2, <2>3 DEF Collects
  <1>4. TypeOK'
    BY <1>1, <1>2, <1>3 DEF TypeOK
  <1>5. RunIsSound(w)'
    <2>1. ASSUME NEW e \in Range(job[w].executions)
          PROVE  ExecutionStands(w, e)'
      <3>1. e \in Executions /\ ExecutionStands(w, e)
        BY <1>1, ElementsAreTyped DEF RunIsSound, TypeOK, Jobs
      <3>2. e.collector \in Names
        BY <3>1 DEF Executions
      <3>3. CASE e.collector # c
        BY <1>2, <1>3, <3>1, <3>2, <3>3 DEF ExecutionStands, Evidence
      <3>4. CASE e.collector = c
        <4>1. e.status \notin Delivered /\ e.evidence = {}
          BY <1>2, <3>1, <3>4 DEF ExecutionStands
        <4>2. e.status = "TIMED_OUT" => now >= t.deadline
          BY <1>2, <3>1, <3>4 DEF ExecutionStands
        <4> QED BY <1>2, <1>3, <3>4, <4>1, <4>2 DEF ExecutionStands
      <3> QED BY <3>3, <3>4
    <2>2. RunInOrder(w)'
      <3>1. \A d \in Names :
              /\ thread'[w][d].state # "unborn" => thread'[w][d].window[1] >= Baseline
              /\ thread'[w][d].state = "done" => thread'[w][d].batch \in Returned
        BY <1>1, <1>2, <1>3 DEF RunIsSound, RunInOrder
      <3> QED BY <1>1, <1>2, <3>1 DEF RunIsSound, RunInOrder
    <2> QED BY <1>2, <2>1, <2>2 DEF RunIsSound
  <1>6. ASSUME NEW v \in Workers, v # w PROVE RunIsSound(v)'
    <2>1. now' >= now /\ evidence \subseteq evidence'
      BY <1>1, <1>2
    <2> QED BY <1>1, <1>2, <1>3, <1>4, <1>6, <2>1, RunFrame DEF CollectionInv
  <1>7. SomeRunFinished' /\ FrozenFromWholeRuns'
    BY <1>2, FinishedFrame DEF CollectionInv
  <1> QED BY <1>4, <1>5, <1>6, <1>7 DEF CollectionInv

LEMMA CrashStep == \A w \in Workers : CollectionInv /\ Crash(w) => CollectionInv'
  <1> SUFFICES ASSUME NEW w \in Workers, CollectionInv, Crash(w) PROVE CollectionInv'
    OBVIOUS
  <1>1. TypeOK /\ now \in Nat
    BY DEF CollectionInv, TypeOK
  <1>2. /\ UNCHANGED <<now, status, statuses, evidence, frozen>> /\ job[w].pc # "finished"
        /\ job' = [job EXCEPT ![w] = [NoJob EXCEPT !.pc = "dead"]]
        /\ thread' = [thread EXCEPT ![w] = [c \in Names |-> NoThread]]
    BY DEF Crash
  <1>3. [NoJob EXCEPT !.pc = "dead"] \in Jobs
    <2>1. NoJob.executions \in Seq(Executions)
      BY DEF NoJob
    <2>2. [NoJob EXCEPT !.pc = "dead"] = [pc |-> "dead", executions |-> NoJob.executions]
      BY DEF NoJob
    <2> QED BY <2>1, <2>2 DEF Jobs
  <1>4. TypeOK'
    BY <1>1, <1>2, <1>3, NoThreadIsAThread DEF TypeOK
  <1>5. job'[w].pc = "dead" /\ job'[w].executions = <<>>
    BY <1>1, <1>2 DEF TypeOK, NoJob
  <1>6. RunIsSound(w)'
    <2>1. Range(job'[w].executions) = {}
      BY <1>5 DEF Range
    <2>2. \A c \in Names : thread'[w][c].state = "unborn"
      BY <1>1, <1>2 DEF TypeOK, NoThread
    <2>3. RunInOrder(w)'
      BY <1>5, <2>2 DEF RunInOrder
    <2> QED BY <2>1, <2>3 DEF RunIsSound
  <1>7. ASSUME NEW v \in Workers, v # w PROVE RunIsSound(v)'
    <2>1. job'[v] = job[v] /\ thread'[v] = thread[v]
      BY <1>1, <1>2, <1>7 DEF TypeOK
    <2>2. now' >= now /\ evidence \subseteq evidence'
      BY <1>1, <1>2
    <2> QED BY <1>1, <1>4, <2>1, <2>2, RunFrame DEF CollectionInv
  <1>8. SomeRunFinished' /\ FrozenFromWholeRuns'
    <2>1. \A v \in Workers : "finished" \in {job[v].pc, job'[v].pc} => job'[v] = job[v]
      BY <1>1, <1>2, <1>5 DEF TypeOK
    <2> QED BY <1>2, <2>1, FinishedFrame DEF CollectionInv
  <1> QED BY <1>4, <1>6, <1>7, <1>8 DEF CollectionInv

-----------------------------------------------------------------------------
(* The orchestrator awaits its collectors *)

\* The execution that Record appends.
Entry(w, execution) ==
    [collector |-> Awaited(w), status |-> execution.status, evidence |-> execution.evidence]

(* An outcome that stands when it is recorded keeps the run in order.       *)
LEMMA RecordStep ==
    ASSUME NEW w \in Workers, CollectionInv, job[w].pc = "await", NEW execution,
           Entry(w, execution) \in Executions, ExecutionStands(w, Entry(w, execution)),
           Record(w, execution), UNCHANGED <<now, thread, status, statuses, evidence, frozen>>
    PROVE  CollectionInv'
  <1> DEFINE e == Entry(w, execution)
  <1> DEFINE executions == Append(job[w].executions, e)
  <1>1. TypeOK /\ RunIsSound(w) /\ now \in Nat
    BY DEF CollectionInv, TypeOK
  <1>2. /\ job[w].executions \in Seq(Executions) /\ Len(job[w].executions) \in Nat
        /\ Len(job[w].executions) < Len(Specs)
    BY <1>1, AwaitedIsASpec DEF RunIsSound
  <1>3. /\ executions \in Seq(Executions) /\ Len(executions) = Len(job[w].executions) + 1
        /\ Range(executions) = Range(job[w].executions) \cup {e}
    BY <1>2, RangeOfAppend
  <1>4. job' = [job EXCEPT ![w].executions = executions,
                           ![w].pc = IF Len(executions) = Len(Specs) THEN "statuses" ELSE "await"]
    BY DEF Record, Entry
  <1> HIDE DEF executions, e
  <1>5. /\ job'[w].executions = executions
        /\ job'[w].pc = IF Len(executions) = Len(Specs) THEN "statuses" ELSE "await"
        /\ \A v \in Workers : v # w => job'[v] = job[v]
        /\ job' \in [Workers -> Jobs]
    BY <1>1, <1>3, <1>4 DEF TypeOK, Jobs
  <1>6. TypeOK'
    BY <1>1, <1>5 DEF TypeOK
  <1>7. RunIsSound(w)'
    <2>1. RunInOrder(w)'
      <3>1. Len(executions) = Len(Specs) \/ Len(executions) < Len(Specs)
        BY <1>2, <1>3, SpecsInOrder
      <3>2. \A c \in Names :
              /\ thread'[w][c].state # "unborn" => thread'[w][c].window[1] >= Baseline
              /\ thread'[w][c].state = "done" => thread'[w][c].batch \in Returned
        BY <1>1 DEF RunIsSound, RunInOrder
      <3> QED BY <1>5, <3>1, <3>2 DEF RunInOrder
    <2>2. ASSUME NEW x \in Range(executions)
          PROVE  ExecutionStands(w, x)'
      <3>1. ExecutionStands(w, x)
        BY <1>1, <1>3 DEF RunIsSound, e
      <3> QED BY <3>1 DEF ExecutionStands, Evidence
    <2> QED BY <1>5, <2>1, <2>2 DEF RunIsSound
  <1>8. ASSUME NEW v \in Workers, v # w PROVE RunIsSound(v)'
    <2>1. now' >= now /\ evidence \subseteq evidence'
      BY <1>1
    <2> QED BY <1>1, <1>5, <1>6, <1>8, <2>1, RunFrame DEF CollectionInv
  <1>9. SomeRunFinished' /\ FrozenFromWholeRuns'
    <2>1. \A v \in Workers : "finished" \in {job[v].pc, job'[v].pc} => job'[v] = job[v]
      BY <1>5
    <2> QED BY <2>1, FinishedFrame DEF CollectionInv
  <1> QED BY <1>6, <1>7, <1>8, <1>9 DEF CollectionInv

(* A batch that is built is of the window, item by item.                    *)
LEMMA BuiltStands ==
    ASSUME NEW w \in Workers, CollectionInv, job[w].pc = "await",
           NEW t, t = thread[w][Awaited(w)], t.state = "done", t.completed <= t.deadline
    PROVE  /\ Entry(w, Built(w, Awaited(w), t)) \in Executions
           /\ ExecutionStands(w, Entry(w, Built(w, Awaited(w), t)))
  <1> DEFINE c == Awaited(w)
  <1>1. TypeOK /\ RunIsSound(w) /\ c \in Names /\ t \in Threads
    BY AwaitedIsASpec DEF CollectionInv, RunIsSound, TypeOK
  <1>2. t.batch \in Returned
    BY <1>1 DEF RunIsSound, RunInOrder
  <1>3. t.batch.status \in Delivered
    BY <1>2, BatchesAreUsable DEF Returned, UsableBatch
  <1>4. CASE Built(w, c, t) = FailedExecution
    BY <1>1, <1>4 DEF FailedExecution, Entry, Executions, ExecutionStands, Delivered
  <1>5. CASE /\ \A item \in Range(t.batch.items) : Builds(item, t.window)
             /\ Built(w, c, t) = [status |-> t.batch.status,
                                  evidence |-> {Evidence(w, c, item) : item \in Range(t.batch.items)}]
    <2> DEFINE all == {Evidence(w, c, item) : item \in Range(t.batch.items)}
    <2>1. all \subseteq Stored
      <3>1. \A item \in Range(t.batch.items) : item \in Drafts
        BY <1>2 DEF Drafts
      <3>2. t.window \in Nat \X Nat
        BY <1>1 DEF Threads
      <3> QED BY <1>1, <3>1, <3>2 DEF Evidence, Stored
    <2>2. Entry(w, Built(w, c, t)) = [collector |-> c, status |-> t.batch.status, evidence |-> all]
      BY <1>5 DEF Entry
    <2> HIDE DEF all
    <2>3. Entry(w, Built(w, c, t)) \in Executions
      BY <1>1, <1>3, <2>1, <2>2 DEF Executions
    <2>4. ExecutionStands(w, [collector |-> c, status |-> t.batch.status, evidence |-> all])
      BY <1>3, <1>5 DEF ExecutionStands, Delivered, all
    <2> QED BY <2>2, <2>3, <2>4
  <1> QED BY <1>4, <1>5 DEF Built

LEMMA AwaitStep == \A w \in Workers : CollectionInv /\ Await(w) => CollectionInv'
  <1> SUFFICES ASSUME NEW w \in Workers, CollectionInv, Await(w) PROVE CollectionInv'
    OBVIOUS
  <1> DEFINE c == Awaited(w)
  <1> DEFINE t == thread[w][c]
  <1>1. TypeOK /\ RunIsSound(w) /\ job[w].pc = "await"
    BY DEF CollectionInv, Await
  <1>2. c \in Names /\ t \in Threads /\ now \in Nat
    BY <1>1, AwaitedIsASpec DEF RunIsSound, TypeOK
  <1>3. t.deadline \in Nat /\ t.completed \in Nat
    BY <1>2 DEF Threads
  <1>4. UNCHANGED <<now, thread, status, statuses, evidence, frozen>>
    BY DEF Await
  <1>5. CASE t.state = "done" /\ Record(w, Judged(w, c, t))
    <2>1. CASE t.completed > t.deadline
      <3>1. Entry(w, TimedOut) \in Executions /\ ExecutionStands(w, Entry(w, TimedOut))
        BY <1>2, <1>3, <1>5, <2>1 DEF TimedOut, Entry, Executions, ExecutionStands, Delivered
      <3>2. Record(w, TimedOut)
        BY <1>5, <2>1 DEF Judged
      <3> QED BY <1>1, <1>4, <3>1, <3>2, RecordStep
    <2>2. CASE t.completed <= t.deadline
      <3>1. Record(w, Built(w, c, t))
        BY <1>3, <1>5, <2>2 DEF Judged
      <3> QED BY <1>1, <1>4, <1>5, <2>2, <3>1, BuiltStands, RecordStep
    <2> QED BY <1>3, <2>1, <2>2
  <1>6. CASE t.state = "error" /\ Record(w, FailedExecution)
    <2>1. Entry(w, FailedExecution) \in Executions /\ ExecutionStands(w, Entry(w, FailedExecution))
      BY <1>2 DEF FailedExecution, Entry, Executions, ExecutionStands, Delivered
    <2> QED BY <1>1, <1>4, <1>6, <2>1, RecordStep
  <1>7. CASE t.state = "running" /\ now >= t.deadline /\ Record(w, TimedOut)
    <2>1. Entry(w, TimedOut) \in Executions /\ ExecutionStands(w, Entry(w, TimedOut))
      BY <1>2, <1>7 DEF TimedOut, Entry, Executions, ExecutionStands, Delivered
    <2> QED BY <1>1, <1>4, <1>7, <2>1, RecordStep
  <1> QED BY <1>5, <1>6, <1>7 DEF Await, Receives

-----------------------------------------------------------------------------
(* The three transactions, and the Context *)

(* A transaction of one worker moves its pc and leaves its executions and   *)
(* everybody's threads alone.                                               *)
LEMMA TransactionKeepsRuns ==
    ASSUME NEW w \in Workers, CollectionInv, TypeOK', NEW next,
           job' = [job EXCEPT ![w].pc = next], next \notin {"idle", "await"},
           next \in {"leave", "finished"} => RunEvidence(job[w].executions) \subseteq evidence',
           UNCHANGED <<now, thread>>, evidence \subseteq evidence'
    PROVE  /\ \A v \in Workers : RunIsSound(v)'
           /\ job'[w].pc = next /\ \A v \in Workers : job'[v].executions = job[v].executions
           /\ \A v \in Workers : v # w => job'[v] = job[v]
  <1>1. TypeOK /\ RunIsSound(w) /\ now \in Nat /\ now' >= now
    BY DEF CollectionInv, TypeOK
  <1>2. /\ job'[w].pc = next /\ \A v \in Workers : job'[v].executions = job[v].executions
        /\ \A v \in Workers : v # w => job'[v] = job[v]
    BY <1>1 DEF TypeOK, Jobs
  <1>3. RunIsSound(w)'
    <2>1. RunInOrder(w)'
      BY <1>1, <1>2 DEF RunIsSound, RunInOrder
    <2>2. \A e \in Range(job[w].executions) : ExecutionStands(w, e)'
      BY <1>1 DEF RunIsSound, ExecutionStands, Evidence
    <2> QED BY <1>2, <2>1, <2>2 DEF RunIsSound
  <1>4. ASSUME NEW v \in Workers, v # w PROVE RunIsSound(v)'
    BY <1>1, <1>2, <1>4, RunFrame DEF CollectionInv
  <1> QED BY <1>2, <1>3, <1>4

LEMMA ReplaceStatusesStep == \A w \in Workers : CollectionInv /\ ReplaceStatuses(w) => CollectionInv'
  <1> SUFFICES ASSUME NEW w \in Workers, CollectionInv, ReplaceStatuses(w) PROVE CollectionInv'
    OBVIOUS
  <1>1. TypeOK /\ job[w].pc = "statuses" /\ UNCHANGED <<now, thread, status, evidence, frozen>>
    BY DEF CollectionInv, ReplaceStatuses
  <1>2. PICK next \in {"store", "refused"} : job' = [job EXCEPT ![w].pc = next]
    BY DEF ReplaceStatuses, Refused
  <1>3. TypeOK'
    <2>1. job' \in [Workers -> Jobs]
      BY <1>1, <1>2 DEF TypeOK, Jobs
    <2>2. statuses' \in Seq([collector : Names, status : Delivered \cup {"TIMED_OUT", "FAILED"}])
      <3> DEFINE executions == job[w].executions
      <3> DEFINE S == [collector : Names, status : Delivered \cup {"TIMED_OUT", "FAILED"}]
      <3>1. executions \in Seq(Executions)
        BY <1>1 DEF TypeOK, Jobs
      <3>2. Len(executions) \in Nat /\ DOMAIN executions = 1..Len(executions)
            /\ \A k \in 1..Len(executions) : executions[k] \in Executions
        BY <3>1, LenProperties
      <3>3. \A k \in 1..Len(executions) :
              [collector |-> executions[k].collector, status |-> executions[k].status] \in S
        BY <3>2 DEF Executions
      <3> DEFINE summary == [k \in 1..Len(executions) |->
                               [collector |-> executions[k].collector, status |-> executions[k].status]]
      <3>4. summary \in Seq(S)
        BY <3>2, <3>3
      <3>5. statuses' \in {summary, statuses}
        BY <3>2 DEF ReplaceStatuses
      <3> QED BY <1>1, <3>4, <3>5 DEF TypeOK
    <2> QED BY <1>1, <2>1, <2>2 DEF TypeOK
  <1>4. /\ \A v \in Workers : RunIsSound(v)'
        /\ \A v \in Workers : "finished" \in {job[v].pc, job'[v].pc} => job'[v] = job[v]
    BY <1>1, <1>2, <1>3, TransactionKeepsRuns
  <1>5. SomeRunFinished' /\ FrozenFromWholeRuns'
    BY <1>1, <1>4, FinishedFrame DEF CollectionInv
  <1> QED BY <1>3, <1>4, <1>5 DEF CollectionInv

LEMMA StoreEvidenceStep == \A w \in Workers : CollectionInv /\ StoreEvidence(w) => CollectionInv'
  <1> SUFFICES ASSUME NEW w \in Workers, CollectionInv, StoreEvidence(w) PROVE CollectionInv'
    OBVIOUS
  <1>1. /\ TypeOK /\ job[w].pc = "store" /\ UNCHANGED <<now, thread, status, statuses, frozen>>
        /\ evidence' = evidence \cup RunEvidence(job[w].executions)
        /\ job' = [job EXCEPT ![w].pc = "leave"]
    BY DEF CollectionInv, StoreEvidence
  <1>2. TypeOK'
    <2>1. job' \in [Workers -> Jobs] /\ job[w].executions \in Seq(Executions)
      BY <1>1 DEF TypeOK, Jobs
    <2>2. evidence' \in SUBSET Stored
      BY <1>1, <2>1, RunEvidenceIsTyped DEF TypeOK
    <2> QED BY <1>1, <2>1, <2>2 DEF TypeOK
  <1>3. /\ \A v \in Workers : RunIsSound(v)'
        /\ \A v \in Workers : "finished" \in {job[v].pc, job'[v].pc} => job'[v] = job[v]
    <2> DEFINE next == "leave"
    <2>1. /\ job' = [job EXCEPT ![w].pc = next] /\ next \notin {"idle", "await", "finished"}
          /\ RunEvidence(job[w].executions) \subseteq evidence' /\ evidence \subseteq evidence'
          /\ UNCHANGED <<now, thread>>
      BY <1>1
    <2> HIDE DEF next
    <2>2. /\ \A v \in Workers : RunIsSound(v)' /\ job'[w].pc = next
          /\ \A v \in Workers : v # w => job'[v] = job[v]
      BY <1>2, <2>1, TransactionKeepsRuns
    <2> QED BY <1>1, <2>1, <2>2
  <1>4. SomeRunFinished' /\ FrozenFromWholeRuns'
    BY <1>1, <1>3, FinishedFrame DEF CollectionInv
  <1> QED BY <1>2, <1>3, <1>4 DEF CollectionInv

(* Whoever finds the Incident COLLECTING finishes it: a run that failed has *)
(* no Evidence, and nothing was frozen before.                              *)
LEMMA LeaveCollectingStep == \A w \in Workers : CollectionInv /\ LeaveCollecting(w) => CollectionInv'
  <1> SUFFICES ASSUME NEW w \in Workers, CollectionInv, LeaveCollecting(w) PROVE CollectionInv'
    OBVIOUS
  <1>1. /\ TypeOK /\ RunIsSound(w) /\ job[w].pc = "leave"
        /\ UNCHANGED <<now, thread, statuses, evidence, frozen>>
    BY DEF CollectionInv, LeaveCollecting
  <1>2. RunEvidence(job[w].executions) \subseteq evidence
    BY <1>1 DEF RunIsSound, RunInOrder
  <1>3. CASE /\ status = "COLLECTING"
             /\ status' = IF RunStatus(job[w].executions) = "FAILED" THEN "FAILED" ELSE "LOCALIZING"
             /\ job' = [job EXCEPT ![w].pc = "finished"]
    <2>1. TypeOK'
      BY <1>1, <1>3 DEF TypeOK, Jobs
    <2>2. /\ \A v \in Workers : RunIsSound(v)'
          /\ job'[w].pc = "finished" /\ job'[w].executions = job[w].executions
          /\ \A v \in Workers : v # w => job'[v] = job[v]
      <3> DEFINE next == "finished"
      <3>1. /\ job' = [job EXCEPT ![w].pc = next] /\ next \notin {"idle", "await"}
            /\ RunEvidence(job[w].executions) \subseteq evidence' /\ evidence \subseteq evidence'
            /\ UNCHANGED <<now, thread>>
        BY <1>1, <1>2, <1>3
      <3> HIDE DEF next
      <3>2. /\ \A v \in Workers : RunIsSound(v)' /\ job'[w].pc = next
            /\ \A v \in Workers : job'[v].executions = job[v].executions
            /\ \A v \in Workers : v # w => job'[v] = job[v]
        BY <2>1, <3>1, TransactionKeepsRuns
      <3> QED BY <3>2 DEF next
    <2>3. frozen' = NoContext
      BY <1>1, <1>3 DEF CollectionInv, SomeRunFinished
    <2>4. SomeRunFinished'
      BY <1>3, <2>2, <2>3 DEF SomeRunFinished
    <2>5. RunStatus(job[w].executions) = "FAILED" => RunEvidence(job[w].executions) = {}
      BY <1>1, FailedHasNoEvidence DEF RunIsSound, ExecutionStands
    <2>6. FrozenFromWholeRuns'
      BY <1>3, <2>2, <2>3, <2>5 DEF FrozenFromWholeRuns
    <2> QED BY <2>1, <2>2, <2>4, <2>6 DEF CollectionInv
  <1>4. CASE status # "COLLECTING" /\ Refused(w) /\ UNCHANGED status
    <2>1. TypeOK' /\ job' = [job EXCEPT ![w].pc = "refused"]
      BY <1>1, <1>4 DEF TypeOK, Jobs, Refused
    <2>2. /\ \A v \in Workers : RunIsSound(v)'
          /\ \A v \in Workers : "finished" \in {job[v].pc, job'[v].pc} => job'[v] = job[v]
      <3> DEFINE next == "refused"
      <3>1. /\ job' = [job EXCEPT ![w].pc = next] /\ next \notin {"idle", "await", "leave", "finished"}
            /\ evidence \subseteq evidence' /\ UNCHANGED <<now, thread>>
        BY <1>1, <2>1
      <3> HIDE DEF next
      <3>2. /\ \A v \in Workers : RunIsSound(v)' /\ job'[w].pc = next
            /\ \A v \in Workers : v # w => job'[v] = job[v]
        BY <2>1, <3>1, TransactionKeepsRuns
      <3> QED BY <1>1, <3>1, <3>2
    <2>3. SomeRunFinished' /\ FrozenFromWholeRuns'
      BY <1>1, <1>4, <2>2, FinishedFrame DEF CollectionInv
    <2> QED BY <2>1, <2>2, <2>3 DEF CollectionInv
  <1> QED BY <1>3, <1>4 DEF LeaveCollecting

LEMMA FreezeStep == CollectionInv /\ Freeze => CollectionInv'
  <1> SUFFICES ASSUME CollectionInv, Freeze PROVE CollectionInv'
    OBVIOUS
  <1>1. /\ TypeOK /\ now \in Nat /\ status = "LOCALIZING" /\ frozen' = evidence
        /\ UNCHANGED <<now, thread, job, status, statuses, evidence>>
    BY DEF CollectionInv, TypeOK, Freeze
  <1>2. TypeOK'
    BY <1>1 DEF TypeOK
  <1>3. ASSUME NEW w \in Workers PROVE RunIsSound(w)'
    <2>1. job'[w] = job[w] /\ thread'[w] = thread[w] /\ now' >= now /\ evidence \subseteq evidence'
      BY <1>1
    <2> QED BY <1>1, <1>2, <2>1, RunFrame DEF CollectionInv
  <1>4. SomeRunFinished'
    BY <1>1 DEF CollectionInv, SomeRunFinished
  <1>5. FrozenFromWholeRuns'
    <2>1. \A w \in Workers : job[w].pc = "finished" => RunEvidence(job[w].executions) \subseteq evidence
      BY DEF CollectionInv, RunIsSound, RunInOrder
    <2> QED BY <1>1, <1>4, <2>1 DEF SomeRunFinished, FrozenFromWholeRuns
  <1> QED BY <1>2, <1>3, <1>4, <1>5 DEF CollectionInv

LEMMA StutterStep == CollectionInv /\ UNCHANGED vars => CollectionInv'
  <1> SUFFICES ASSUME CollectionInv, UNCHANGED vars PROVE CollectionInv'
    OBVIOUS
  <1>1. TypeOK /\ now \in Nat /\ UNCHANGED <<now, thread, job, status, statuses, evidence, frozen>>
    BY DEF CollectionInv, TypeOK, vars
  <1>2. TypeOK'
    BY <1>1 DEF TypeOK
  <1>3. ASSUME NEW w \in Workers PROVE RunIsSound(w)'
    <2>1. job'[w] = job[w] /\ thread'[w] = thread[w] /\ now' >= now /\ evidence \subseteq evidence'
      BY <1>1
    <2> QED BY <1>1, <1>2, <2>1, RunFrame DEF CollectionInv
  <1>4. SomeRunFinished' /\ FrozenFromWholeRuns'
    BY <1>1, FinishedFrame DEF CollectionInv
  <1> QED BY <1>2, <1>3, <1>4 DEF CollectionInv

LEMMA CollectionStep == CollectionInv /\ [CollectionNext]_vars => CollectionInv'
  BY TickStep, StartStep, CollectsStep, CrashStep, AwaitStep, ReplaceStatusesStep, StoreEvidenceStep,
     LeaveCollectingStep, FreezeStep, StutterStep DEF CollectionNext, Orchestrate

-----------------------------------------------------------------------------
(* Statuses, threads, Evidence and Context of one Incident stay consistent   *)
(* through timeouts, late answers, crashes and stale workers.               *)
THEOREM CollectionIsConsistent == Spec => []CollectionInv
  BY CollectionInit, CollectionStep, PTL DEF Spec

(* The variables keep their types.                                          *)
THEOREM TypeCorrect == Spec => []TypeOK
  <1>1. CollectionInv => TypeOK
    BY DEF CollectionInv
  <1> QED BY <1>1, CollectionIsConsistent, PTL

(* For any number of collectors and attempts and any budgets: what the      *)
(* orchestrator recorded of a collector is what its punctuality decides.    *)
THEOREM OutcomesArePunctual == Spec => []PunctualityDecides
  <1>1. CollectionInv => PunctualityDecides
    <2> SUFFICES ASSUME CollectionInv, NEW w \in Workers, NEW e \in Range(job[w].executions)
                 PROVE  LET t == thread[w][e.collector]
                        IN  /\ e.status \in Delivered => t.state = "done" /\ t.completed <= t.deadline
                            /\ e.status = "TIMED_OUT" => ~(t.state = "done" /\ t.completed < t.deadline)
      BY DEF PunctualityDecides
    <2>1. ExecutionStands(w, e) /\ e \in Executions
      BY ElementsAreTyped DEF CollectionInv, RunIsSound, TypeOK, Jobs
    <2>2. thread[w][e.collector] \in Threads
      BY <2>1 DEF CollectionInv, TypeOK, Executions
    <2> QED BY <2>1, <2>2 DEF ExecutionStands, Threads
  <1> QED BY <1>1, CollectionIsConsistent, PTL

(* Whatever the providers return: a batch is stored as a whole and every    *)
(* item of it is of the window and the namespace, or nothing of it is.      *)
THEOREM StoredBatchesAreWhole == Spec => []BatchesAreStoredWhole
  <1>1. CollectionInv => BatchesAreStoredWhole
    <2> SUFFICES ASSUME CollectionInv, NEW w \in Workers, NEW e \in Range(job[w].executions)
                 PROVE  LET items == {v.item : v \in e.evidence}
                        IN  /\ e.evidence # {} => items = Range(thread[w][e.collector].batch.items)
                            /\ \A v \in e.evidence :
                                /\ v.item.observed \in v.window[1]..v.window[2] /\ v.window[1] >= Baseline
                                /\ v.item.namespace = Scope.namespace
      BY DEF BatchesAreStoredWhole
    <2> DEFINE t == thread[w][e.collector]
    <2>1. ExecutionStands(w, e) /\ RunInOrder(w) /\ e \in Executions
      BY ElementsAreTyped DEF CollectionInv, RunIsSound, TypeOK, Jobs
    <2>2. t \in Threads /\ e.collector \in Names
      BY <2>1 DEF CollectionInv, TypeOK, Executions
    <2>3. CASE e.status \notin Delivered
      BY <2>1, <2>3 DEF ExecutionStands
    <2>4. CASE e.status \in Delivered
      <3>1. /\ t.state = "done" /\ \A item \in Range(t.batch.items) : Builds(item, t.window)
            /\ e.evidence = {Evidence(w, e.collector, item) : item \in Range(t.batch.items)}
        BY <2>1, <2>4 DEF ExecutionStands
      <3>2. t.batch \in Returned /\ t.window[1] >= Baseline /\ t.window \in Nat \X Nat
        BY <2>1, <2>2, <3>1 DEF RunInOrder, Threads
      <3>3. \A item \in Range(t.batch.items) : item.observed \in Nat
        BY <3>2, BatchesAreUsable DEF Returned, UsableBatch
      <3>4. \A item \in Range(t.batch.items) : item.observed \in t.window[1]..t.window[2]
        BY <3>1, <3>2, <3>3 DEF Builds
      <3>5. \A item \in Range(t.batch.items) : item.namespace = Scope.namespace
        BY <3>1 DEF Builds
      <3>6. {v.item : v \in e.evidence} = Range(t.batch.items)
        <4>1. \A item : Evidence(w, e.collector, item).item = item
          BY DEF Evidence
        <4> QED BY <3>1, <4>1
      <3>7. \A v \in e.evidence : v.item \in Range(t.batch.items) /\ v.window = t.window
        BY <3>1 DEF Evidence
      <3> QED BY <3>2, <3>4, <3>5, <3>6, <3>7
    <2> QED BY <2>3, <2>4
  <1> QED BY <1>1, CollectionIsConsistent, PTL

(* For any number of workers over one Incident: the Context is frozen from  *)
(* the whole Evidence of a run that delivered, and an Incident that failed  *)
(* had none.                                                                *)
THEOREM ContextsAreFrozenFromWholeRuns == Spec => []FrozenFromWholeRuns
  <1>1. CollectionInv => FrozenFromWholeRuns
    BY DEF CollectionInv
  <1> QED BY <1>1, CollectionIsConsistent, PTL

-----------------------------------------------------------------------------
(* The cluster only gains what ever was and loses what stayed throughout.   *)

Moves(c, d) ==
    ClusterStands(c) /\ ClusterStands(d) /\ c.ever \subseteq d.ever /\ d.throughout \subseteq c.throughout

\* What belongs to the roots among more objects is more, and always of those objects.
LEMMA RootedGrows ==
    ASSUME NEW S, NEW T, S \subseteq T
    PROVE  RootedIn(S) \subseteq RootedIn(T) /\ RootedIn(S) \subseteq S \cap Objects
<1>1. RootedIn(S) \subseteq RootedIn(T)
    BY DEF RootedIn
<1>2. RootedIn(S) \subseteq S \cap Objects
    BY DEF RootedIn
<1> QED BY <1>1, <1>2

\* What a root owns is of one of the kinds listed, and how it belongs to the roots.
LEMMA RootedKinds ==
    ASSUME NEW S, NEW o \in RootedIn(S)
    PROVE  /\ o \in S /\ o \in Objects
           /\ o.kind \in {"Service", "Deployment", "ReplicaSet", "Pod", "EndpointSlice"}
           /\ o.kind = "Service" => o.name \in Range(Roots)
<1> QED BY DEF RootedIn

\* What a list has and does not lack stands as the cluster moves.
LEMMA ListsLast ==
    ASSUME NEW c, NEW d, Moves(c, d), NEW s, NEW S, Lists(s, S, c)
    PROVE  Lists(s, S, d)
BY DEF Moves, Lists

\* That a draft is of an object of the roots stands as the cluster moves ...
LEMMA ResourcesLast ==
    ASSUME NEW c, NEW d, Moves(c, d), NEW x, IsResource(x, c)
    PROVE  IsResource(x, d)
<1>1. RootedIn(c.ever) \subseteq RootedIn(d.ever)
    BY RootedGrows DEF Moves
<1> QED BY <1>1 DEF IsResource

\* More Events stand for more occasions.
LEMMA OccasionsCount ==
    ASSUME NEW E \in SUBSET Occurrences, NEW F \in SUBSET E
    PROVE  /\ IsFiniteSet(F) /\ Cardinality(F) \in Nat /\ Cardinality(E) \in Nat
           /\ Cardinality(F) <= Cardinality(E)
           /\ Cardinality(Occasions(F)) \in Nat /\ Cardinality(Occasions(E)) \in Nat
           /\ Cardinality(Occasions(F)) <= Cardinality(Occasions(E))
           /\ \A e \in E : e.count <= Cardinality(Occasions(E))
<1>1. /\ IsFiniteSet(Occurrences)
      /\ \A e \in Occurrences : e.count \in Nat
    BY EventsAreIdentified
<1>2. IsFiniteSet(E) /\ IsFiniteSet(F)
    BY <1>1, FS_Subset
<1>3. ASSUME NEW e \in E
      PROVE  IsFiniteSet({e} \X (1..e.count)) /\ Cardinality({e} \X (1..e.count)) = e.count
    <2>1. e.count \in Nat
        BY <1>1
    <2>2. PICK n : n = e.count
        OBVIOUS
    <2>3. 1 \in Int /\ n \in Int /\ n \in Nat
        BY ONLY <2>1, <2>2
    <2>4. IsFiniteSet(1..n) /\ Cardinality(1..n) = IF 1 > n THEN 0 ELSE n - 1 + 1
        BY ONLY <2>3, FS_Interval
    <2>5. Cardinality(1..n) = n
        BY ONLY <2>3, <2>4
    <2>6. IsFiniteSet({e}) /\ Cardinality({e}) = 1
        BY ONLY FS_Singleton
    <2>7. /\ IsFiniteSet({e} \X (1..n))
          /\ Cardinality({e} \X (1..n)) = Cardinality({e}) * Cardinality(1..n)
        BY ONLY <2>4, <2>6, FS_Product
    <2> QED BY ONLY <2>2, <2>3, <2>5, <2>6, <2>7
<1>4. IsFiniteSet(Occasions(E))
    <2> DEFINE U == {{e} \X (1..e.count) : e \in E}
               f == [e \in E |-> {e} \X (1..e.count)]
    <2>1. f \in Surjection(E, U)
        BY DEF Surjection
    <2>2. IsFiniteSet(U)
        BY <1>2, <2>1, FS_Surjection
    <2>3. \A T \in U : IsFiniteSet(T)
        BY <1>3
    <2>4. IsFiniteSet(UNION U)
        BY <2>2, <2>3, FS_UNION
    <2> QED BY <2>4 DEF Occasions
<1>5. Occasions(F) \in SUBSET Occasions(E) /\ \A e \in E : {e} \X (1..e.count) \in SUBSET Occasions(E)
    BY DEF Occasions
<1>6. IsFiniteSet(Occasions(F)) /\ Cardinality(Occasions(F)) <= Cardinality(Occasions(E))
    BY <1>4, <1>5, FS_Subset
<1>7. \A e \in E : e.count <= Cardinality(Occasions(E))
    <2> TAKE e \in E
    <2>1. {e} \X (1..e.count) \in SUBSET Occasions(E)
        BY <1>5
    <2>2. Cardinality({e} \X (1..e.count)) <= Cardinality(Occasions(E))
        BY ONLY <1>4, <2>1, FS_Subset
    <2> QED BY <1>3, <2>2
<1>8. Cardinality(F) <= Cardinality(E)
    BY ONLY <1>2, FS_Subset, F \in SUBSET E
<1>9. /\ Cardinality(F) \in Nat /\ Cardinality(E) \in Nat
      /\ Cardinality(Occasions(F)) \in Nat /\ Cardinality(Occasions(E)) \in Nat
    BY ONLY <1>2, <1>4, <1>6, FS_CardinalityType
<1> QED BY ONLY <1>2, <1>6, <1>7, <1>8, <1>9

\* ... and so does what a draft of Events counts.
LEMMA EventsLast ==
    ASSUME NEW c, NEW d, Moves(c, d), NEW x, IsEvent(x, c)
    PROVE  IsEvent(x, d)
<1>1. Happened(x, c) \subseteq Happened(x, d) /\ Happened(x, d) \subseteq Occurrences
    BY DEF Happened, Moves
<1> DEFINE H == Happened(x, c)
           G == Happened(x, d)
<1>2. /\ Cardinality(H) \in Nat /\ Cardinality(G) \in Nat /\ Cardinality(H) <= Cardinality(G)
      /\ Cardinality(Occasions(H)) \in Nat /\ Cardinality(Occasions(G)) \in Nat
      /\ Cardinality(Occasions(H)) <= Cardinality(Occasions(G))
    BY <1>1, OccasionsCount
<1>3. x.what = "event" /\ x.series \in Nat /\ x.count \in Nat /\ x.series <= Cardinality(H) /\ x.count <= Cardinality(Occasions(H))
    BY DEF IsEvent
<1> HIDE DEF H, G
<1>4. x.series <= Cardinality(G) /\ x.count <= Cardinality(Occasions(G))
    BY <1>2, <1>3
<1> QED BY <1>3, <1>4 DEF IsEvent, G

\* So does what stands of a listing, ...
LEMMA ListingLasts ==
    ASSUME NEW c, NEW d, Moves(c, d), NEW l, NEW p, ListingStands(l, p, c)
    PROVE  ListingStands(l, p, d)
BY ListsLast DEF ListingStands

\* ... of the inventory, ...
LEMMA InventoryLasts ==
    ASSUME NEW c, NEW d, Moves(c, d), NEW lists, NEW p, NEW b, InventoryStands(lists, p, b, c)
    PROVE  InventoryStands(lists, p, b, d)
BY ListsLast DEF InventoryStands

\* ... of the Events told, ...
LEMMA EventsToldLast ==
    ASSUME NEW c, NEW d, Moves(c, d), NEW kind, NEW b, EventsTold(kind, b, c)
    PROVE  EventsTold(kind, b, d)
<1>1. RootedIn(d.throughout) \subseteq RootedIn(c.throughout) /\ d.throughout \subseteq c.throughout
    BY RootedGrows DEF Moves
<1> QED BY <1>1 DEF EventsTold

\* ... of a batch, ...
LEMMA BatchLasts ==
    ASSUME NEW c, NEW d, Moves(c, d), NEW b, NEW p, BatchStands(b, p, c)
    PROVE  BatchStands(b, p, d)
<1>1. RootedIn(d.throughout) \subseteq RootedIn(c.throughout)
    BY RootedGrows DEF Moves
<1>2. \A x : (IsResource(x, c) => IsResource(x, d)) /\ (IsEvent(x, c) => IsEvent(x, d))
    BY ResourcesLast, EventsLast
<1>3. \A kind : EventsTold(kind, b, c) => EventsTold(kind, b, d)
    BY EventsToldLast
<1> QED BY <1>1, <1>2, <1>3 DEF BatchStands

\* ... of a name, ...
LEMMA NamesLast ==
    ASSUME NEW c, NEW d, Moves(c, d), NEW p, NEW k, NameStands(p, k, c)
    PROVE  NameStands(p, k, d)
<1>1. c.ever \subseteq d.ever /\ d.throughout \subseteq c.throughout
    BY DEF Moves
<1> QED BY <1>1 DEF NameStands

\* ... of a draft ...
LEMMA DraftsLast ==
    ASSUME NEW c, NEW d, Moves(c, d), NEW x, NEW p, DraftStands(x, p, c)
    PROVE  DraftStands(x, p, d)
<1>1. c.ever \subseteq d.ever /\ d.throughout \subseteq c.throughout
    BY DEF Moves
<1>2. ReadStands(x, c) => ReadStands(x, d)
    BY <1>1 DEF ReadStands
<1>3. IsEvent(x, c) => IsEvent(x, d)
    BY EventsLast
<1> QED BY <1>2, <1>3 DEF DraftStands

\* ... and of a provider.
LEMMA ProviderLasts ==
    ASSUME NEW c, NEW d, Moves(c, d), NEW p, NEW b, ProviderStands(p, b, c)
    PROVE  ProviderStands(p, b, d)
BY NamesLast, DraftsLast DEF ProviderStands

\* ClusterChanges keeps the invariant: all of it stands as the cluster moves.
LEMMA ClusterChangesKeepsIt ==
    ASSUME KubernetesInv, ClusterChanges
    PROVE  KubernetesInv'
<1> USE DEF KubernetesInv
<1>1. Moves(cluster, cluster')
    <2> PICK o \in Fleeting :
        \/ /\ o \in cluster.now
           /\ cluster' = [cluster EXCEPT !.now = @ \ {o}, !.throughout = @ \ {o}]
        \/ /\ o \notin cluster.ever
           /\ cluster' = [cluster EXCEPT !.now = @ \cup {o}, !.ever = @ \cup {o}]
        BY DEF ClusterChanges
    <2>1. PICK c : c = cluster
        OBVIOUS
    <2>2. PICK d : d = cluster'
        OBVIOUS
    <2>3. ClusterStands(c) /\ o \in Objects \cup Occurrences
        BY <2>1, ObjectsAreIdentified
    <2>4. \/ d = [now |-> c.now \ {o}, throughout |-> c.throughout \ {o}, ever |-> c.ever]
          \/ d = [now |-> c.now \cup {o}, throughout |-> c.throughout, ever |-> c.ever \cup {o}]
        BY <2>1, <2>2, <2>3 DEF ClusterStands
    <2>5. ClusterStands(d) /\ c.ever \subseteq d.ever /\ d.throughout \subseteq c.throughout
        BY ONLY <2>3, <2>4 DEF ClusterStands
    <2> QED BY <2>1, <2>2, <2>3, <2>5 DEF Moves
<1>2. UNCHANGED <<listing, listed, provider, batch>> /\ batch.outcome = "collecting"
    BY DEF ClusterChanges
<1>3. ClusterStands(cluster')
    BY <1>1 DEF Moves
<1>4. ListingStands(listing', provider', cluster')
    BY <1>1, <1>2, ListingLasts
<1>5. InventoryStands(listed', provider', batch', cluster')
    BY <1>1, <1>2, InventoryLasts
<1>6. BatchStands(batch', provider', cluster')
    BY <1>1, <1>2, BatchLasts
<1>7. ProviderStands(provider', batch', cluster')
    BY <1>1, <1>2, ProviderLasts
<1>8. provider'.label # "none" /\ batch'.outcome = "collecting"
    BY <1>2
<1> QED BY <1>3, <1>4, <1>5, <1>6, <1>7, <1>8 DEF Batched
-----------------------------------------------------------------------------
(* Listings                                                                *)

\* A list sorted by name has every member once.
LEMMA OrderedByName ==
    ASSUME NEW M, IsFiniteSet(M), \A x \in M : x.order \in Int,
           \A x, y \in M : x.order = y.order => x = y
    PROVE  LET s == Ordered(M, ByName) IN s \in Seq(M) /\ IsInjective(s) /\ Range(s) = M
<1> DEFINE R == {q \in M \X M : q[1].order < q[2].order}
<1>1. Ordered(M, ByName) = Sorted(M, R)
    BY DEF Ordered, ByName
<1>2. \A x, y \in M : <<x, y>> \in R <=> x.order < y.order
    OBVIOUS
<1> HIDE DEF R
<1>3. StrictOrder(M, R)
    BY <1>2 DEF StrictOrder
<1> QED BY <1>1, <1>3, SortedMembers

\* A first page is of a snapshot of what there is.
LEMMA SnapshotLists ==
    ASSUME NEW c, ClusterStands(c), NEW S, NEW M, M = S \cap c.now, IsFiniteSet(M),
           \A x \in M : x.order \in Int, \A x, y \in M : x.order = y.order => x = y
    PROVE  Lists(Ordered(M, ByName), S, c)
<1>1. PICK s : s = Ordered(M, ByName)
    OBVIOUS
<1>2. s \in Seq(M) /\ IsInjective(s) /\ Range(s) = M
    BY <1>1, OrderedByName
<1>3. S \cap c.throughout \subseteq M /\ M \subseteq S \cap c.ever
    BY DEF ClusterStands
<1> QED BY <1>1, <1>2, <1>3 DEF Lists

\* What there is of a kind, or of the Events on something, is told apart by its order.
LEMMA AskedIsOrdered ==
    ASSUME NEW c, ClusterStands(c), NEW S,
           (\E kind : S = KindOf(kind)) \/ (\E kind, name, uid : S = EventsOn(kind, name, uid))
    PROVE  /\ IsFiniteSet(S \cap c.now) /\ \A x \in S \cap c.now : x.order \in Int
           /\ \A x, y \in S \cap c.now : x.order = y.order => x = y
<1>1. CASE \E kind : S = KindOf(kind)
    <2>1. PICK kind : S = KindOf(kind)
        BY <1>1
    <2>2. S \cap c.now \in SUBSET Objects /\ \A x \in S : x \in Objects /\ x.kind = kind
        BY <2>1 DEF KindOf
    <2>3. IsFiniteSet(S \cap c.now)
        BY <2>2, ObjectsAreIdentified, FS_Subset
    <2> QED BY <2>2, <2>3, ObjectsAreIdentified
<1>2. CASE \E kind, name, uid : S = EventsOn(kind, name, uid)
    <2>1. PICK kind, name, uid : S = EventsOn(kind, name, uid)
        BY <1>2
    <2>2. S \cap c.now \in SUBSET Occurrences /\ \A x \in S : x \in Occurrences
        BY <2>1 DEF EventsOn
    <2>3. IsFiniteSet(S \cap c.now)
        BY <2>2, EventsAreIdentified, FS_Subset
    <2> QED BY <2>2, <2>3, EventsAreIdentified
<1> QED BY <1>1, <1>2

\* A list of which nothing is read stands, whoever asks for it.
LEMMA NothingReadStands ==
    ASSUME NEW p, NEW c
    PROVE  /\ ListingStands(NewListing, p, c)
           /\ p.mode \in {"none", "events"} => ListingStands([NewListing EXCEPT !.restarted = TRUE], p, c)
<1>1. <<>> \in Seq(Range(<<>>))
    <2>1. <<>> \in Seq({})
        OBVIOUS
    <2> QED BY ONLY <2>1, SequenceOfMembers
<1>2. ASSUME NEW restarted, NEW l,
             l = [items |-> <<>>, token |-> [snapshot |-> FALSE, rest |-> <<>>], restarted |-> restarted],
             p.mode \in {"none", "events"} \/ l = NewListing
      PROVE  ListingStands(l, p, c)
    <2>1. /\ l.items = <<>> /\ l.token = [snapshot |-> FALSE, rest |-> <<>>] /\ l.token.snapshot = FALSE
          /\ l.token.rest = <<>> /\ l.restarted = restarted
        BY ONLY <1>2
    <2> QED BY ONLY <1>1, <1>2, <2>1 DEF ListingStands
<1>3. \A n, items, token, no, yes : n = [items |-> items, token |-> token, restarted |-> no] =>
        [n EXCEPT !.restarted = yes] = [items |-> items, token |-> token, restarted |-> yes]
    OBVIOUS
<1>4. PICK n : n = NewListing
    OBVIOUS
<1>5. PICK token : token = [snapshot |-> FALSE, rest |-> <<>>]
    OBVIOUS
<1>6. PICK no : no = FALSE
    OBVIOUS
<1>7. PICK yes : yes = TRUE
    OBVIOUS
<1>8. n = [items |-> <<>>, token |-> token, restarted |-> no]
    BY <1>4, <1>5, <1>6 DEF NewListing, FirstPage
<1>9. [n EXCEPT !.restarted = yes] = [items |-> <<>>, token |-> token, restarted |-> yes]
    BY ONLY <1>3, <1>8
<1>10. ListingStands(NewListing, p, c)
    BY <1>2, <1>4, <1>5, <1>8
<1>11. p.mode \in {"none", "events"} => ListingStands([n EXCEPT !.restarted = yes], p, c)
    BY <1>2, <1>5, <1>9
<1> QED BY <1>4, <1>7, <1>10, <1>11

\* Reading a page moves what it has from the token's rest to the items.
LEMMA PageStands ==
    ASSUME NEW c, NEW p, NEW l, ListingStands(l, p, c), p.mode \in {"none", "events"},
           NEW rest, rest \in Seq(Range(rest)), NEW limit \in Nat, NEW l2,
           IF l.token.snapshot THEN rest = l.token.rest ELSE Lists(rest, Asked(p), c),
           LET n == Min({limit, Len(rest)})
           IN  l2 = [l EXCEPT !.items = @ \o SubSeq(rest, 1, n),
                              !.token = [snapshot |-> TRUE, rest |-> SubSeq(rest, n + 1, Len(rest))]]
    PROVE  ListingStands(l2, p, c)
<1>1. PICK n : n = Min({limit, Len(rest)})
    OBVIOUS
<1>2. Len(rest) \in Nat
    OBVIOUS
<1>3. n \in 0..Len(rest)
    <2>1. n = IF limit <= Len(rest) THEN limit ELSE Len(rest)
        BY <1>1, <1>2, LesserOfTwo
    <2> QED BY ONLY <1>2, <2>1, limit \in Nat
<1>4. PICK read : read = SubSeq(rest, 1, n)
    OBVIOUS
<1>5. PICK left : left = SubSeq(rest, n + 1, Len(rest))
    OBVIOUS
<1>6. l = [items |-> l.items, token |-> l.token, restarted |-> l.restarted] /\ l.items \in Seq(Range(l.items))
    BY DEF ListingStands
<1>7. l2 = [items |-> l.items \o read, token |-> [snapshot |-> TRUE, rest |-> left], restarted |-> l.restarted]
    BY <1>1, <1>4, <1>5, <1>6
<1>8. read \in Seq(Range(read)) /\ left \in Seq(Range(left))
    BY <1>3, <1>4, <1>5, MembersOfPrefix
<1>9. l.items \o read \in Seq(Range(l.items \o read))
    BY <1>6, <1>8, MembersOfConcat
<1>10. (l.items \o read) \o left = l.items \o rest
    BY <1>3, <1>4, <1>5, <1>6, RestIsContinued
<1>11. Lists(l.items \o rest, Asked(p), c)
    <2>1. CASE l.token.snapshot
        BY <2>1 DEF ListingStands
    <2>2. CASE ~l.token.snapshot
        <3>1. l.items = <<>> /\ Lists(rest, Asked(p), c)
            BY <2>2 DEF ListingStands
        <3>2. <<>> \o rest = rest
            OBVIOUS
        <3> QED BY ONLY <3>1, <3>2
    <2> QED BY <2>1, <2>2
<1> QED BY ONLY <1>7, <1>8, <1>9, <1>10, <1>11, p.mode \in {"none", "events"} DEF ListingStands

\* A list read to its end has everything.
LEMMA ReadToTheEnd ==
    ASSUME NEW c, NEW p, NEW l, ListingStands(l, p, c), l.token.snapshot, l.token.rest = <<>>
    PROVE  Lists(l.items, Asked(p), c)
<1>1. Lists(l.items \o l.token.rest, Asked(p), c) /\ l.items \in Seq(Range(l.items))
    BY DEF ListingStands
<1>2. l.items \o <<>> = l.items
    BY <1>1
<1> QED BY <1>1, <1>2
-----------------------------------------------------------------------------
(* What the inventory keeps is what belongs to the roots                    *)

\* An owner is told by its name or its uid alike.
LEMMA OwnersAreTold ==
    ASSUME NEW o \in Objects, NEW kind, NEW owners, Range(owners) \subseteq KindOf(kind)
    PROVE  OwnedBy(o, kind, owners) <=> \E p \in Range(owners) : o.owner.uid = p.uid
<1>1. \A p \in Range(owners) : p \in Objects /\ p.kind = kind
    BY DEF KindOf
<1>2. \A p \in Range(owners) : o.owner.uid = p.uid <=> o.owner.kind = kind /\ o.owner.name = p.name
    BY <1>1, ObjectsAreIdentified
<1>3. OwnedBy(o, kind, owners) <=>
        o.owner.kind = kind /\ \E p \in Range(owners) : o.owner.name = p.name \/ o.owner.uid = p.uid
    BY DEF OwnedBy, NamesOf, UidsOf
<1> QED BY <1>2, <1>3

\* What belongs to the roots, kind by kind, by the owners' uids.
LEMMA RootedByKind ==
    ASSUME NEW S, NEW o
    PROVE  o \in RootedIn(S) <=>
            /\ o \in S /\ o \in Objects
            /\ \/ o.kind = "Service" /\ o.name \in Range(Roots)
               \/ o.kind = "Deployment" /\ o.name \in Range(Roots)
               \/ o.kind = "ReplicaSet" /\ \E p \in RootedIn(S) : p.kind = "Deployment" /\ o.owner.uid = p.uid
               \/ o.kind = "Pod" /\ \E p \in RootedIn(S) : p.kind = "ReplicaSet" /\ o.owner.uid = p.uid
               \/ o.kind = "EndpointSlice" /\ o.service \in Range(Roots)
<1> DEFINE Named(kind) == {q \in S \cap Objects : q.kind = kind /\ q.name \in Range(Roots)}
           replicaSets == {q \in S \cap Objects : q.kind = "ReplicaSet" /\ \E p \in Named("Deployment") : q.owner.uid = p.uid}
           pods == {q \in S \cap Objects : q.kind = "Pod" /\ \E p \in replicaSets : q.owner.uid = p.uid}
           slices == {q \in S \cap Objects : q.kind = "EndpointSlice" /\ q.service \in Range(Roots)}
<1>1. RootedIn(S) = Named("Service") \cup Named("Deployment") \cup replicaSets \cup pods \cup slices
    BY DEF RootedIn
<1>2. \A p : p \in RootedIn(S) /\ p.kind = "Deployment" <=> p \in Named("Deployment")
    BY <1>1
<1>3. \A p : p \in RootedIn(S) /\ p.kind = "ReplicaSet" <=> p \in replicaSets
    BY <1>1
<1>4. o \in replicaSets <=> /\ o \in S /\ o \in Objects /\ o.kind = "ReplicaSet"
                            /\ \E p \in RootedIn(S) : p.kind = "Deployment" /\ o.owner.uid = p.uid
    BY <1>2
<1>5. o \in pods <=> /\ o \in S /\ o \in Objects /\ o.kind = "Pod"
                     /\ \E p \in RootedIn(S) : p.kind = "ReplicaSet" /\ o.owner.uid = p.uid
    BY <1>3
<1>6. /\ o \in Named("Service") <=> o \in S /\ o \in Objects /\ o.kind = "Service" /\ o.name \in Range(Roots)
      /\ o \in Named("Deployment") <=> o \in S /\ o \in Objects /\ o.kind = "Deployment" /\ o.name \in Range(Roots)
      /\ o \in slices <=> o \in S /\ o \in Objects /\ o.kind = "EndpointSlice" /\ o.service \in Range(Roots)
    OBVIOUS
<1> HIDE DEF Named, replicaSets, pods, slices
<1> QED BY <1>1, <1>4, <1>5, <1>6

\* A list of a kind, narrowed to X, has every object of X there is of it, once.
LEMMA NarrowedLists ==
    ASSUME NEW c, NEW kind, NEW s, Lists(s, KindOf(kind), c), NEW X, NEW t,
           t = Picked(s, {k \in DOMAIN s : s[k] \in X})
    PROVE  Lists(t, KindOf(kind) \cap X, c)
<1>1. /\ s \in Seq(Range(s)) /\ IsInjective(s) /\ Range(s) \subseteq KindOf(kind) \cap c.ever
      /\ KindOf(kind) \cap c.throughout \subseteq Range(s)
    BY DEF Lists
<1>2. t \in Seq(Range(t)) /\ Range(t) = Range(s) \cap X /\ IsInjective(t)
    <2>1. LET picked == Picked(s, {k \in DOMAIN s : s[k] \in X})
          IN  /\ picked \in Seq(Range(picked)) /\ Range(picked) = Range(s) \cap X
              /\ IsInjective(s) => IsInjective(picked)
        BY ONLY <1>1, PickedMembersOf
    <2> QED BY ONLY <1>1, <2>1, t = Picked(s, {k \in DOMAIN s : s[k] \in X})
<1> QED BY ONLY <1>1, <1>2 DEF Lists

\* What belongs to the roots among the objects S, of one kind.
RootedKind(S, kind) == {o \in RootedIn(S) : o.kind = kind}

\* Each kind of what is retained lists the rooted objects of that kind.
ListsRooted(s, kind, c) ==
    /\ s \in Seq(Range(s)) /\ IsInjective(s)
    /\ Range(s) \subseteq RootedKind(c.ever, kind) /\ RootedKind(c.throughout, kind) \subseteq Range(s)

\* Retained keeps, of every kind, what belongs to the roots.
LEMMA RetainedIsRooted ==
    ASSUME ClusterStands(cluster), \A k \in DOMAIN Kinds : Lists(listed[Kinds[k]], KindOf(Kinds[k]), cluster)
    PROVE  \A kind \in {"Service", "Deployment", "ReplicaSet", "Pod", "EndpointSlice"} :
               ListsRooted(Retained[kind], kind, cluster)
<1>1. PICK c : c = cluster
    OBVIOUS
<1>2. /\ Lists(listed["Service"], KindOf("Service"), c) /\ Lists(listed["Deployment"], KindOf("Deployment"), c)
      /\ Lists(listed["ReplicaSet"], KindOf("ReplicaSet"), c) /\ Lists(listed["Pod"], KindOf("Pod"), c)
      /\ Lists(listed["EndpointSlice"], KindOf("EndpointSlice"), c)
    <2>1. /\ 1 \in DOMAIN Kinds /\ 2 \in DOMAIN Kinds /\ 3 \in DOMAIN Kinds /\ 4 \in DOMAIN Kinds
          /\ 5 \in DOMAIN Kinds /\ Kinds[1] = "Service" /\ Kinds[2] = "Deployment"
          /\ Kinds[3] = "ReplicaSet" /\ Kinds[4] = "Pod" /\ Kinds[5] = "EndpointSlice"
        BY DEF Kinds
    <2> QED BY <1>1, <2>1
<1> DEFINE named == {o \in Objects : o.name \in Range(Roots)}
           routed == {o \in Objects : o.service \in Range(Roots)}
           OwnedIn(owners) == {o \in Objects : \E p \in Range(owners) : o.owner.uid = p.uid}
<1>3. \A kind, s : Lists(s, KindOf(kind), c) => \A k \in DOMAIN s : s[k] \in Objects /\ s[k].kind = kind
    BY DEF Lists, Range, KindOf
<1>4. PICK services : services = Filtered(listed["Service"], LAMBDA o : o.name \in Range(Roots))
    OBVIOUS
<1>5. PICK deployments : deployments = Filtered(listed["Deployment"], LAMBDA o : o.name \in Range(Roots))
    OBVIOUS
<1>6. PICK replicaSets : replicaSets = Filtered(listed["ReplicaSet"], LAMBDA o : OwnedBy(o, "Deployment", deployments))
    OBVIOUS
<1>7. PICK pods : pods = Filtered(listed["Pod"], LAMBDA o : OwnedBy(o, "ReplicaSet", replicaSets))
    OBVIOUS
<1>8. PICK slices : slices = Filtered(listed["EndpointSlice"], LAMBDA o : o.service \in Range(Roots))
    OBVIOUS
<1>9. Retained = [Service |-> services, Deployment |-> deployments, ReplicaSet |-> replicaSets,
                  Pod |-> pods, EndpointSlice |-> slices]
    BY <1>4, <1>5, <1>6, <1>7, <1>8 DEF Retained
<1>10. Lists(services, KindOf("Service") \cap named, c)
    <2>1. PICK s : s = listed["Service"]
        OBVIOUS
    <2>2. services = Picked(s, {k \in DOMAIN s : s[k].name \in Range(Roots)})
        BY <1>4, <2>1 DEF Filtered
    <2>3. {k \in DOMAIN s : s[k].name \in Range(Roots)} = {k \in DOMAIN s : s[k] \in named}
        BY <1>2, <1>3, <2>1
    <2> HIDE DEF named
    <2> QED BY <1>2, <2>1, <2>2, <2>3, NarrowedLists
<1>11. Lists(deployments, KindOf("Deployment") \cap named, c)
    <2>1. PICK s : s = listed["Deployment"]
        OBVIOUS
    <2>2. deployments = Picked(s, {k \in DOMAIN s : s[k].name \in Range(Roots)})
        BY <1>5, <2>1 DEF Filtered
    <2>3. {k \in DOMAIN s : s[k].name \in Range(Roots)} = {k \in DOMAIN s : s[k] \in named}
        BY <1>2, <1>3, <2>1
    <2> HIDE DEF named
    <2> QED BY <1>2, <2>1, <2>2, <2>3, NarrowedLists
<1>12. Lists(slices, KindOf("EndpointSlice") \cap routed, c)
    <2>1. PICK s : s = listed["EndpointSlice"]
        OBVIOUS
    <2>2. slices = Picked(s, {k \in DOMAIN s : s[k].service \in Range(Roots)})
        BY <1>8, <2>1 DEF Filtered
    <2>3. {k \in DOMAIN s : s[k].service \in Range(Roots)} = {k \in DOMAIN s : s[k] \in routed}
        BY <1>2, <1>3, <2>1
    <2> HIDE DEF routed
    <2> QED BY <1>2, <2>1, <2>2, <2>3, NarrowedLists
<1>13. ASSUME NEW owners, NEW X, NEW of, Lists(owners, KindOf(of) \cap X, c)
       PROVE  \A o \in Objects : OwnedBy(o, of, owners) <=> o \in OwnedIn(owners)
    <2>1. Range(owners) \subseteq KindOf(of)
        BY <1>13 DEF Lists
    <2> TAKE o \in Objects
    <2>2. OwnedBy(o, of, owners) <=> \E p \in Range(owners) : o.owner.uid = p.uid
        BY <2>1, OwnersAreTold
    <2> QED BY <2>2
<1>14. Lists(replicaSets, KindOf("ReplicaSet") \cap OwnedIn(deployments), c)
    <2>1. PICK s : s = listed["ReplicaSet"]
        OBVIOUS
    <2>2. replicaSets = Picked(s, {k \in DOMAIN s : OwnedBy(s[k], "Deployment", deployments)})
        BY <1>6, <2>1 DEF Filtered
    <2>3. \A k \in DOMAIN s : OwnedBy(s[k], "Deployment", deployments) <=> s[k] \in OwnedIn(deployments)
        BY <1>2, <1>3, <1>11, <1>13, <2>1
    <2> HIDE DEF OwnedIn
    <2>4. {k \in DOMAIN s : OwnedBy(s[k], "Deployment", deployments)} = {k \in DOMAIN s : s[k] \in OwnedIn(deployments)}
        BY <2>3
    <2> QED BY <1>2, <2>1, <2>2, <2>4, NarrowedLists
<1>15. Lists(pods, KindOf("Pod") \cap OwnedIn(replicaSets), c)
    <2>1. PICK s : s = listed["Pod"]
        OBVIOUS
    <2>2. pods = Picked(s, {k \in DOMAIN s : OwnedBy(s[k], "ReplicaSet", replicaSets)})
        BY <1>7, <2>1 DEF Filtered
    <2>3. \A k \in DOMAIN s : OwnedBy(s[k], "ReplicaSet", replicaSets) <=> s[k] \in OwnedIn(replicaSets)
        BY <1>2, <1>3, <1>14, <1>13, <2>1
    <2> HIDE DEF OwnedIn
    <2>4. {k \in DOMAIN s : OwnedBy(s[k], "ReplicaSet", replicaSets)} = {k \in DOMAIN s : s[k] \in OwnedIn(replicaSets)}
        BY <2>3
    <2> QED BY <1>2, <2>1, <2>2, <2>4, NarrowedLists
<1>16. \A S, kind : RootedKind(S, kind) \subseteq S \cap KindOf(kind)
    BY RootedKinds DEF RootedKind, KindOf
<1>17. ListsRooted(services, "Service", c)
    <2>1. \A S, o : o \in RootedKind(S, "Service") <=> o \in S \cap (KindOf("Service") \cap named)
        BY RootedByKind DEF RootedKind, KindOf
    <2> QED BY ONLY <1>10, <2>1 DEF Lists, ListsRooted
<1>18. ListsRooted(deployments, "Deployment", c)
    <2>1. \A S, o : o \in RootedKind(S, "Deployment") <=> o \in S \cap (KindOf("Deployment") \cap named)
        BY RootedByKind DEF RootedKind, KindOf
    <2> QED BY ONLY <1>11, <2>1 DEF Lists, ListsRooted
<1>19. ListsRooted(slices, "EndpointSlice", c)
    <2>1. \A S, o : o \in RootedKind(S, "EndpointSlice") <=> o \in S \cap (KindOf("EndpointSlice") \cap routed)
        BY RootedByKind DEF RootedKind, KindOf
    <2> QED BY ONLY <1>12, <2>1 DEF Lists, ListsRooted
<1>20. ListsRooted(replicaSets, "ReplicaSet", c)
    <2>1. \A S, o : o \in RootedKind(S, "ReplicaSet") <=>
                /\ o \in S \cap KindOf("ReplicaSet")
                /\ \E p \in RootedKind(S, "Deployment") : o.owner.uid = p.uid
        BY RootedByKind DEF RootedKind, KindOf
    <2>2. \A o : o \in KindOf("ReplicaSet") \cap OwnedIn(deployments) <=>
                o \in KindOf("ReplicaSet") /\ \E p \in Range(deployments) : o.owner.uid = p.uid
        BY DEF KindOf
    <2> HIDE DEF OwnedIn
    <2> QED BY ONLY <1>14, <1>18, <2>1, <2>2 DEF Lists, ListsRooted
<1>21. ListsRooted(pods, "Pod", c)
    <2>1. \A S, o : o \in RootedKind(S, "Pod") <=>
                /\ o \in S \cap KindOf("Pod")
                /\ \E p \in RootedKind(S, "ReplicaSet") : o.owner.uid = p.uid
        BY RootedByKind DEF RootedKind, KindOf
    <2>2. \A o : o \in KindOf("Pod") \cap OwnedIn(replicaSets) <=>
                o \in KindOf("Pod") /\ \E p \in Range(replicaSets) : o.owner.uid = p.uid
        BY DEF KindOf
    <2> HIDE DEF OwnedIn
    <2> QED BY ONLY <1>15, <1>20, <2>1, <2>2 DEF Lists, ListsRooted
<1> QED BY <1>1, <1>9, <1>17, <1>18, <1>19, <1>20, <1>21

-----------------------------------------------------------------------------
(* Drafts that tell different things                                        *)

\* Two lists without repetition and without a common member make one.
LEMMA InjectiveConcat ==
    ASSUME NEW s, s \in Seq(Range(s)), NEW t, t \in Seq(Range(t)), IsInjective(s), IsInjective(t),
           Range(s) \cap Range(t) = {}
    PROVE  IsInjective(s \o t)
<1>1. PICK u : u = s \o t
    OBVIOUS
<1>2. \A k \in DOMAIN (s \o t) :
        \/ k \in DOMAIN s /\ (s \o t)[k] = s[k]
        \/ k - Len(s) \in DOMAIN t /\ k \notin DOMAIN s /\ (s \o t)[k] = t[k - Len(s)]
    BY ONLY MembersOfConcat, s \in Seq(Range(s)), t \in Seq(Range(t))
<1>3. \A k \in DOMAIN u :
        \/ k \in DOMAIN s /\ u[k] = s[k]
        \/ k - Len(s) \in DOMAIN t /\ k \notin DOMAIN s /\ u[k] = t[k - Len(s)]
    BY ONLY <1>1, <1>2
<1>4. \A k \in DOMAIN u : k \in Int
    <2>1. s \in Seq(Range(s) \cup Range(t)) /\ t \in Seq(Range(s) \cup Range(t))
        BY ONLY s \in Seq(Range(s)), t \in Seq(Range(t))
    <2>2. u \in Seq(Range(s) \cup Range(t))
        BY ONLY <1>1, <2>1
    <2> QED BY ONLY <2>2
<1>5. Len(s) \in Nat
    BY ONLY s \in Seq(Range(s))
<1>6. ASSUME NEW j \in DOMAIN u, NEW k \in DOMAIN u, u[j] = u[k]
      PROVE  j = k
    <2>1. \A i \in DOMAIN s : s[i] \in Range(s)
        BY DEF Range
    <2>2. \A i \in DOMAIN t : t[i] \in Range(t)
        BY DEF Range
    <2>3. CASE j \in DOMAIN s /\ k \in DOMAIN s /\ u[j] = s[j] /\ u[k] = s[k]
        BY ONLY <1>6, <2>3, IsInjective(s) DEF IsInjective
    <2>4. CASE j - Len(s) \in DOMAIN t /\ k - Len(s) \in DOMAIN t /\ u[j] = t[j - Len(s)] /\ u[k] = t[k - Len(s)]
        <3>1. j - Len(s) = k - Len(s)
            BY ONLY <1>6, <2>4, IsInjective(t) DEF IsInjective
        <3> QED BY ONLY <1>4, <1>5, <1>6, <3>1
    <2> QED BY ONLY <1>3, <1>6, <2>1, <2>2, <2>3, <2>4, Range(s) \cap Range(t) = {}
<1>7. IsInjective(u)
    BY ONLY <1>6 DEF IsInjective
<1> QED BY ONLY <1>1, <1>7

\* Drafts that differ, followed by drafts that differ from them, differ.
LEMMA DistinctConcat ==
    ASSUME NEW s, s \in Seq(Range(s)), NEW t, t \in Seq(Range(t)), Distinct(s), Distinct(t),
           \A x \in Range(s), y \in Range(t) : Differ(x, y) /\ Differ(y, x)
    PROVE  Distinct(s \o t)
<1>1. PICK u : u = s \o t
    OBVIOUS
<1>2. \A k \in DOMAIN (s \o t) :
        \/ k \in DOMAIN s /\ (s \o t)[k] = s[k]
        \/ k - Len(s) \in DOMAIN t /\ k \notin DOMAIN s /\ (s \o t)[k] = t[k - Len(s)]
    BY ONLY MembersOfConcat, s \in Seq(Range(s)), t \in Seq(Range(t))
<1>3. \A k \in DOMAIN u :
        \/ k \in DOMAIN s /\ u[k] = s[k]
        \/ k - Len(s) \in DOMAIN t /\ k \notin DOMAIN s /\ u[k] = t[k - Len(s)]
    BY ONLY <1>1, <1>2
<1>4. \A k \in DOMAIN u : k \in Int
    <2>1. s \in Seq(Range(s) \cup Range(t)) /\ t \in Seq(Range(s) \cup Range(t))
        BY ONLY s \in Seq(Range(s)), t \in Seq(Range(t))
    <2>2. u \in Seq(Range(s) \cup Range(t))
        BY ONLY <1>1, <2>1
    <2> QED BY ONLY <2>2
<1>5. Len(s) \in Nat
    BY ONLY s \in Seq(Range(s))
<1>6. ASSUME NEW j \in DOMAIN u, NEW k \in DOMAIN u, j # k
      PROVE  Differ(u[j], u[k])
    <2>1. \A i \in DOMAIN s : s[i] \in Range(s)
        BY DEF Range
    <2>2. \A i \in DOMAIN t : t[i] \in Range(t)
        BY DEF Range
    <2>3. CASE j \in DOMAIN s /\ k \in DOMAIN s /\ u[j] = s[j] /\ u[k] = s[k]
        BY ONLY <1>6, <2>3, Distinct(s) DEF Distinct
    <2>4. CASE j - Len(s) \in DOMAIN t /\ k - Len(s) \in DOMAIN t /\ u[j] = t[j - Len(s)] /\ u[k] = t[k - Len(s)]
        <3>1. j - Len(s) # k - Len(s)
            BY ONLY <1>4, <1>5, <1>6
        <3> QED BY ONLY <2>4, <3>1, Distinct(t) DEF Distinct
    <2> QED BY ONLY <1>3, <1>6, <2>1, <2>2, <2>3, <2>4,
                    \A x \in Range(s), y \in Range(t) : Differ(x, y) /\ Differ(y, x)
<1>7. Distinct(u)
    BY ONLY <1>6 DEF Distinct
<1> QED BY ONLY <1>1, <1>7

\* A provider that starts on some names has done nothing yet.
LEMMA DerivedStands ==
    ASSUME NEW label \in {"service", "pod", "configmap"}, NEW names, names \in Seq(Range(names)), names # <<>>,
           IsInjective(names), NEW b, NEW c, NEW p, p = Derived(label, names), NamesStand(p, b)
    PROVE  ProviderStands(p, b, c)
<1>1. PICK nothing : nothing = <<>>
    OBVIOUS
<1>2. PICK no : no = FALSE
    OBVIOUS
<1>3. PICK uids : uids = [n \in Range(names) |-> NoUid]
    OBVIOUS
<1>4. p = [label |-> label, names |-> names, at |-> 1, mode |-> "get", uids |-> uids,
           drafts |-> nothing, partial |-> no, errors |-> no]
    BY ONLY <1>1, <1>2, <1>3, p = Derived(label, names) DEF Derived, NoProvider
<1>5. /\ p.label = label /\ p.names = names /\ p.at = 1 /\ p.mode = "get" /\ p.uids = uids
      /\ p.drafts = nothing /\ p.partial = no /\ p.errors = no
    BY ONLY <1>4
<1>6. Len(names) \in Nat /\ DOMAIN names = 1..Len(names) /\ Len(names) # 0
    BY ONLY names \in Seq(Range(names)), names # <<>>
<1>7. 1 \in DOMAIN names /\ \A k \in DOMAIN names : ~(k < 1)
    BY ONLY <1>6
<1>8. DOMAIN uids = Range(names) /\ \A n \in Range(names) : uids[n] = NoUid
    BY ONLY <1>3
<1>9. \A k \in DOMAIN names : ~Got(p, k) /\ ~Told(p, k)
    BY ONLY <1>5, <1>7 DEF Got, Told
<1>10. \A k \in DOMAIN names : NameStands(p, k, c)
    <2>1. \A k \in DOMAIN names : names[k] \in Range(names)
        BY DEF Range
    <2> QED BY ONLY <1>5, <1>8, <1>9, <2>1 DEF NameStands
<1>11. nothing \in Seq(Range(nothing)) /\ Distinct(nothing) /\ Range(nothing) = {}
    <2>1. nothing \in Seq({}) /\ DOMAIN nothing = {}
        BY ONLY <1>1
    <2>2. nothing \in Seq(Range(nothing))
        BY ONLY <2>1, SequenceOfMembers
    <2> QED BY ONLY <2>1, <2>2 DEF Distinct, Range
<1>12. p.mode # "events" /\ p.mode \in {"get", "events", "finish"}
    BY ONLY <1>5
<1>13. p.label \in {"inventory", "service", "pod", "configmap", "none"}
    BY ONLY <1>5, label \in {"service", "pod", "configmap"}
<1> QED BY ONLY <1>2, <1>4, <1>5, <1>7, <1>8, <1>10, <1>11, <1>12, <1>13, names \in Seq(Range(names)), names # <<>>,
                IsInjective(names), NamesStand(p, b) DEF ProviderStands

-----------------------------------------------------------------------------
(* The inventory becomes the first drafts of the batch                      *)

\* There is one draft for every object kept.
LEMMA AssembledDrafts ==
    ASSUME NEW c, ClusterStands(c), NEW kept, kept \in Seq(Range(kept)), IsInjective(kept),
           Range(kept) \subseteq RootedIn(c.ever), RootedIn(c.throughout) \subseteq Range(kept),
           NEW items, items = [k \in DOMAIN kept |-> ResourceDraft(kept[k])]
    PROVE  /\ items \in Seq(Range(items)) /\ Distinct(items)
           /\ \A d \in Range(items) : IsResource(d, c)
           /\ \A o \in RootedIn(c.throughout) : \E d \in Range(items) : IsState(d, o)
<1>1. \A o : IsState(ResourceDraft(o), o)
    BY DEF IsState, ResourceDraft, Facts
<1>2. DOMAIN items = DOMAIN kept /\ \A k \in DOMAIN kept : items[k] = ResourceDraft(kept[k])
    OBVIOUS
<1>3. \A k \in DOMAIN kept : kept[k] \in RootedIn(c.ever) /\ kept[k] \in Objects
    BY RootedKinds DEF Range
<1>4. \A k \in DOMAIN items : items[k].what = "state" /\ items[k].uid = kept[k].uid /\ IsState(items[k], kept[k])
    BY ONLY <1>1, <1>2 DEF IsState
<1>5. items \in Seq(Range(items))
    <2>1. DOMAIN items = 1..Len(kept) /\ Len(kept) \in Nat
        BY ONLY <1>2, kept \in Seq(Range(kept))
    <2>2. items \in [1..Len(kept) -> Range(items)]
        BY <2>1 DEF Range
    <2> QED BY ONLY <2>1, <2>2, FunctionIsASequence
<1>6. Distinct(items)
    <2> SUFFICES ASSUME NEW j \in DOMAIN items, NEW k \in DOMAIN items, j # k
                 PROVE  Differ(items[j], items[k])
        BY DEF Distinct
    <2>1. kept[j] # kept[k]
        BY <1>2 DEF IsInjective
    <2>2. kept[j].uid # kept[k].uid
        BY <1>2, <1>3, <2>1, ObjectsAreIdentified
    <2> QED BY ONLY <1>4, <2>2, j \in DOMAIN items, k \in DOMAIN items DEF Differ
<1>7. \A d \in Range(items) : IsResource(d, c)
    BY ONLY <1>2, <1>3, <1>4 DEF IsResource, Range
<1>8. \A o \in RootedIn(c.throughout) : \E d \in Range(items) : IsState(d, o)
    <2> TAKE o \in RootedIn(c.throughout)
    <2>1. PICK k \in DOMAIN kept : kept[k] = o
        BY DEF Range
    <2>2. IsState(items[k], o) /\ items[k] \in Range(items)
        BY ONLY <1>2, <1>4, <2>1 DEF Range
    <2> QED BY <2>2
<1> QED BY <1>5, <1>6, <1>7, <1>8

\* The retained lists of the five kinds, one after another, are what belongs to the roots.
LEMMA ConcatOfRooted ==
    ASSUME NEW c, NEW R,
           \A kind \in {"Service", "Deployment", "ReplicaSet", "Pod", "EndpointSlice"} : ListsRooted(R[kind], kind, c),
           NEW kept, kept = R.Service \o R.Deployment \o R.ReplicaSet \o R.Pod \o R.EndpointSlice
    PROVE  /\ kept \in Seq(Range(kept)) /\ IsInjective(kept)
           /\ Range(kept) \subseteq RootedIn(c.ever) /\ RootedIn(c.throughout) \subseteq Range(kept)
<1> DEFINE K(kind) == /\ R[kind] \in Seq(Range(R[kind])) /\ IsInjective(R[kind])
                      /\ \A o \in Range(R[kind]) : o \in RootedIn(c.ever) /\ o.kind = kind
                      /\ \A o \in RootedIn(c.throughout) : o.kind = kind => o \in Range(R[kind])
<1>1. K("Service") /\ K("Deployment") /\ K("ReplicaSet") /\ K("Pod") /\ K("EndpointSlice")
    BY DEF ListsRooted, RootedKind
<1> DEFINE Joins(u, kinds) ==
               /\ u \in Seq(Range(u)) /\ IsInjective(u)
               /\ \A o \in Range(u) : o \in RootedIn(c.ever) /\ o.kind \in kinds
               /\ \A o \in RootedIn(c.throughout) : o.kind \in kinds => o \in Range(u)
<1>2. ASSUME NEW u, NEW kinds, Joins(u, kinds), NEW kind, K(kind), kind \notin kinds
      PROVE  Joins(u \o R[kind], kinds \cup {kind})
    <2>1. PICK v : v = R[kind]
        OBVIOUS
    <2>2. Range(u) \cap Range(v) = {}
        BY <1>2, <2>1
    <2>3. u \in Seq(Range(u)) /\ v \in Seq(Range(v)) /\ IsInjective(u) /\ IsInjective(v)
        BY <1>2, <2>1
    <2>4. u \o v \in Seq(Range(u \o v)) /\ Range(u \o v) = Range(u) \cup Range(v)
        BY ONLY <2>3, MembersOfConcat
    <2>5. IsInjective(u \o v)
        BY ONLY <2>2, <2>3, InjectiveConcat
    <2> QED BY <1>2, <2>1, <2>4, <2>5
<1>3. Joins(R["Service"], {"Service"})
    BY <1>1
<1> HIDE DEF K, Joins
<1>4. Joins(R["Service"] \o R["Deployment"], {"Service"} \cup {"Deployment"})
    BY <1>1, <1>2, <1>3
<1>5. Joins((R["Service"] \o R["Deployment"]) \o R["ReplicaSet"], ({"Service"} \cup {"Deployment"}) \cup {"ReplicaSet"})
    BY <1>1, <1>2, <1>4
<1>6. Joins(((R["Service"] \o R["Deployment"]) \o R["ReplicaSet"]) \o R["Pod"],
            (({"Service"} \cup {"Deployment"}) \cup {"ReplicaSet"}) \cup {"Pod"})
    BY <1>1, <1>2, <1>5
<1>7. Joins((((R["Service"] \o R["Deployment"]) \o R["ReplicaSet"]) \o R["Pod"]) \o R["EndpointSlice"],
            ((({"Service"} \cup {"Deployment"}) \cup {"ReplicaSet"}) \cup {"Pod"}) \cup {"EndpointSlice"})
    BY <1>1, <1>2, <1>6
<1>8. kept \in Seq(Range(kept)) /\ IsInjective(kept) /\ Range(kept) \subseteq RootedIn(c.ever)
    BY <1>7 DEF Joins
<1>9. RootedIn(c.throughout) \subseteq Range(kept)
    BY <1>7, RootedKinds DEF Joins
<1> QED BY <1>8, <1>9

\* Nothing more is asked of the inventory once it is assembled, nor of the API server for now.
LEMMA InventoryIsDone ==
    ASSUME NEW lists, NEW p, NEW b, NEW c, InventoryStands(lists, p, b, c), NEW q, q.label # "inventory", NEW e
    PROVE  InventoryStands(lists, q, e, c)
BY DEF InventoryStands

\* An attempt that gives up reports nothing.
LEMMA GivingUpKeepsIt ==
    ASSUME KubernetesInv, NEW how \in {"retryable", "permanent"}, GiveUp(how), provider.label = "inventory"
    PROVE  KubernetesInv'
<1>1. PICK b : b = batch
    OBVIOUS
<1>2. PICK e : e = batch'
    OBVIOUS
<1>3. /\ ClusterStands(cluster) /\ ListingStands(listing, provider, cluster)
      /\ InventoryStands(listed, provider, b, cluster)
      /\ BatchStands(b, provider, cluster) /\ ProviderStands(provider, b, cluster)
    BY <1>1 DEF KubernetesInv
<1>4. b = [items |-> b.items, partial |-> b.partial, outcome |-> b.outcome]
    BY <1>3 DEF BatchStands
<1>5. e = [b EXCEPT !.outcome = how]
    BY <1>1, <1>2 DEF GiveUp
<1>6. e = [items |-> b.items, partial |-> b.partial, outcome |-> how]
    BY ONLY <1>4, <1>5
<1>7. e.items = b.items /\ e.partial = b.partial /\ e.outcome = how
    BY ONLY <1>6
<1>8. UNCHANGED <<cluster, listing, listed, provider>>
    BY DEF GiveUp
<1>9. InventoryStands(listed, provider, e, cluster)
    BY <1>3, <1>7 DEF InventoryStands
<1>10. BatchStands(e, provider, cluster)
    BY <1>3, <1>6, <1>7 DEF BatchStands, Reads
<1>11. ProviderStands(provider, e, cluster)
    BY <1>3 DEF ProviderStands, Reads
<1>12. e.outcome # "batch"
    BY <1>7
<1> QED BY <1>2, <1>3, <1>8, <1>9, <1>10, <1>11, <1>12 DEF KubernetesInv, Batched

\* Assemble keeps the invariant: every object of the roots that stayed has its draft, and no other.
LEMMA AssembleKeepsIt ==
    ASSUME KubernetesInv, Assemble
    PROVE  KubernetesInv'
<1>1. PICK c : c = cluster
    OBVIOUS
<1>2. PICK b : b = batch
    OBVIOUS
<1>3. PICK p : p = provider
    OBVIOUS
<1>4. /\ ClusterStands(c) /\ ListingStands(listing, p, c) /\ InventoryStands(listed, p, b, c)
      /\ BatchStands(b, p, c) /\ ProviderStands(p, b, c)
      /\ p.label = "none" => b.outcome # "collecting"
    BY <1>1, <1>2, <1>3 DEF KubernetesInv
<1>5. b.outcome = "collecting" /\ p.mode = "assemble"
    BY <1>2, <1>3 DEF Assemble
<1>6. p.label = "inventory"
    BY <1>4, <1>5 DEF ProviderStands, Reads
<1>7. \A k \in DOMAIN Kinds : Lists(listed[Kinds[k]], KindOf(Kinds[k]), c)
    BY <1>4, <1>5, <1>6 DEF InventoryStands
<1>8. CASE GiveUp("permanent")
    BY <1>1, <1>2, <1>3, <1>4, <1>6, <1>8, GivingUpKeepsIt
<1>9. CASE ~GiveUp("permanent")
    <2>1. PICK R : R = Retained
        OBVIOUS
    <2>2. PICK kept : kept = R.Service \o R.Deployment \o R.ReplicaSet \o R.Pod \o R.EndpointSlice
        OBVIOUS
    <2>3. \A kind \in {"Service", "Deployment", "ReplicaSet", "Pod", "EndpointSlice"} : ListsRooted(R[kind], kind, c)
        BY <1>1, <1>4, <1>7, <2>1, RetainedIsRooted
    <2>4. /\ kept \in Seq(Range(kept)) /\ IsInjective(kept)
          /\ Range(kept) \subseteq RootedIn(c.ever) /\ RootedIn(c.throughout) \subseteq Range(kept)
        BY ONLY <2>2, <2>3, ConcatOfRooted
    <2>5. PICK items : items = [k \in DOMAIN kept |-> ResourceDraft(kept[k])]
        OBVIOUS
    <2>6. /\ items \in Seq(Range(items)) /\ Distinct(items)
          /\ \A d \in Range(items) : IsResource(d, c)
          /\ \A o \in RootedIn(c.throughout) : \E d \in Range(items) : IsState(d, o)
        BY <1>4, <2>4, <2>5, AssembledDrafts
    <2>7. /\ batch' = [b EXCEPT !.items = items]
          /\ provider' = Derived("service", Roots)
          /\ UNCHANGED <<cluster, listing, listed>>
        BY <1>2, <1>9, <2>1, <2>2, <2>5 DEF Assemble
    <2>8. PICK e : e = batch'
        OBVIOUS
    <2>9. PICK q : q = provider'
        OBVIOUS
    <2>10. b = [items |-> b.items, partial |-> b.partial, outcome |-> b.outcome] /\ b.partial = FALSE
        BY <1>4, <1>6 DEF BatchStands, InventoryStands
    <2>11. e = [items |-> items, partial |-> b.partial, outcome |-> b.outcome]
        BY ONLY <2>7, <2>8, <2>10
    <2>12. q.label = "service" /\ q.names = Roots
        BY ONLY <2>7, <2>9 DEF Derived, NoProvider
    <2>13. ProviderStands(q, e, c)
        <3>1. NamesStand(q, e)
            BY <2>12 DEF NamesStand
        <3> QED BY <2>7, <2>9, <3>1, DerivedStands, LimitsAreUsable
    <2>14. BatchStands(e, q, c)
        BY ONLY <1>5, <2>6, <2>10, <2>11, <2>12 DEF BatchStands, Reads
    <2>15. InventoryStands(listed, q, e, c)
        BY <1>4, <2>12, InventoryIsDone
    <2>16. ListingStands(listing, q, c)
        <3>1. listing = NewListing
            BY <1>4, <1>5 DEF ListingStands
        <3> QED BY <3>1, NothingReadStands
    <2>17. q.label # "none" /\ e.outcome = "collecting"
        BY <1>5, <2>11, <2>12
    <2> QED BY <1>1, <1>4, <2>7, <2>8, <2>9, <2>13, <2>14, <2>15, <2>16, <2>17 DEF KubernetesInv, Batched
<1> QED BY <1>8, <1>9

-----------------------------------------------------------------------------
(* The inventory, page by page                                              *)

\* The six kinds, in the order they are listed.
LEMMA KindsAre ==
    /\ DOMAIN Kinds = 1..6 /\ Len(Kinds) = 6 /\ IsInjective(Kinds)
    /\ Range(Kinds) = {"Service", "Deployment", "ReplicaSet", "Pod", "EndpointSlice", "Node"}
BY DEF Kinds, IsInjective, Range

\* Reading a page of what is asked for keeps the listing whole.
LEMMA ReadPageStands ==
    ASSUME NEW c, c = cluster, ClusterStands(c), NEW p, p.mode \in {"none", "events"},
           NEW l, l = listing, ListingStands(l, p, c), NEW M, M = Asked(p) \cap c.now,
           NEW limit \in Nat, ReadPage(M, limit), NEW m, m = listing'
    PROVE  ListingStands(m, p, c)
<1>1. PICK rest : rest = IF l.token.snapshot THEN l.token.rest ELSE Ordered(M, ByName)
    OBVIOUS
<1>2. LET n == Min({limit, Len(rest)})
      IN  m = [l EXCEPT !.items = @ \o SubSeq(rest, 1, n),
                        !.token = [snapshot |-> TRUE, rest |-> SubSeq(rest, n + 1, Len(rest))]]
    BY <1>1 DEF ReadPage
<1>3. (\E kind : Asked(p) = KindOf(kind)) \/ (\E kind, name, uid : Asked(p) = EventsOn(kind, name, uid))
    BY DEF Asked
<1>4. Lists(Ordered(M, ByName), Asked(p), c)
    <2>1. PICK S : S = Asked(p)
        OBVIOUS
    <2>2. /\ IsFiniteSet(S \cap c.now) /\ \A x \in S \cap c.now : x.order \in Int
          /\ \A x, y \in S \cap c.now : x.order = y.order => x = y
        <3>1. (\E kind : S = KindOf(kind)) \/ (\E kind, name, uid : S = EventsOn(kind, name, uid))
            BY ONLY <1>3, <2>1
        <3> QED BY ONLY <3>1, AskedIsOrdered, ClusterStands(c)
    <2>3. M = S \cap c.now
        BY <2>1
    <2> QED BY <2>1, <2>2, <2>3, SnapshotLists
<1>5. IF l.token.snapshot THEN rest = l.token.rest ELSE Lists(rest, Asked(p), c)
    BY <1>1, <1>4
<1>6. rest \in Seq(Range(rest))
    <2>1. l.token.rest \in Seq(Range(l.token.rest))
        BY DEF ListingStands
    <2>2. Ordered(M, ByName) \in Seq(Range(Ordered(M, ByName)))
        BY <1>4 DEF Lists
    <2>3. l.token.snapshot \in BOOLEAN
        BY DEF ListingStands
    <2> QED BY ONLY <1>1, <2>1, <2>2, <2>3
<1> QED BY ONLY <1>2, <1>5, <1>6, ListingStands(l, p, c), p.mode \in {"none", "events"}, limit \in Nat, PageStands

\* The inventory so far has a length.
LEMMA InventoryIsASequence ==
    ASSUME NEW lists, \A kind \in Range(Kinds) : lists[kind] \in Seq(Range(lists[kind])),
           lists = listed
    PROVE  Len(Inventory) \in Nat
<1>1. /\ "Service" \in Range(Kinds) /\ "Deployment" \in Range(Kinds) /\ "ReplicaSet" \in Range(Kinds)
      /\ "Pod" \in Range(Kinds) /\ "EndpointSlice" \in Range(Kinds) /\ "Node" \in Range(Kinds)
    BY KindsAre
<1> DEFINE U == UNION {Range(lists[kind]) : kind \in Range(Kinds)}
<1>2. \A kind \in Range(Kinds) : lists[kind] \in Seq(U)
    <2> TAKE kind \in Range(Kinds)
    <2>1. Range(lists[kind]) \subseteq U
        OBVIOUS
    <2> HIDE DEF U
    <2> QED BY <2>1
<1> HIDE DEF U
<1>3. /\ lists["Service"] \in Seq(U) /\ lists["Deployment"] \in Seq(U) /\ lists["ReplicaSet"] \in Seq(U)
      /\ lists["Pod"] \in Seq(U) /\ lists["EndpointSlice"] \in Seq(U) /\ lists["Node"] \in Seq(U)
    BY ONLY <1>1, <1>2
<1>4. Inventory \in Seq(U)
    BY <1>3 DEF Inventory
<1> QED BY <1>4

\* The list of one kind is read: it joins the inventory.
LEMMA KindListed ==
    ASSUME NEW c, NEW lists, NEW p, NEW b, InventoryStands(lists, p, b, c), p.label = "inventory", p.mode = "none",
           NEW s, Lists(s, KindOf(Kinds[p.at]), c), NEW after, DOMAIN after = DOMAIN lists,
           \A kind \in DOMAIN lists : after[kind] = IF kind = Kinds[p.at] THEN s ELSE lists[kind],
           NEW q, q.label = "inventory",
           \/ p.at = 6 /\ q.mode = "assemble" /\ q.at = p.at
           \/ p.at # 6 /\ q.mode = "none" /\ q.at = p.at + 1
    PROVE  InventoryStands(after, q, b, c)
<1>1. /\ DOMAIN lists = Range(Kinds) /\ \A kind \in Range(Kinds) : lists[kind] \in Seq(Range(lists[kind]))
      /\ p.at \in DOMAIN Kinds
      /\ \A k \in DOMAIN Kinds : k < p.at => Lists(lists[Kinds[k]], KindOf(Kinds[k]), c)
      /\ b.items = <<>> /\ ~b.partial /\ b.outcome \in {"collecting", "retryable", "permanent"}
    BY DEF InventoryStands
<1>2. DOMAIN Kinds = 1..6 /\ Len(Kinds) = 6
    BY KindsAre
<1>3. \A j, k \in DOMAIN Kinds : Kinds[j] = Kinds[k] => j = k
    BY KindsAre DEF IsInjective
<1>4. s \in Seq(Range(s))
    BY DEF Lists
<1>5. \A k \in DOMAIN Kinds : Kinds[k] \in Range(Kinds)
    BY DEF Range
<1>6. DOMAIN after = Range(Kinds) /\ \A k \in DOMAIN Kinds : after[Kinds[k]] = IF k = p.at THEN s ELSE lists[Kinds[k]]
    BY ONLY <1>1, <1>3, <1>5, DOMAIN after = DOMAIN lists,
            \A kind \in DOMAIN lists : after[kind] = IF kind = Kinds[p.at] THEN s ELSE lists[kind]
<1>7. \A k \in DOMAIN Kinds : k < p.at \/ k = p.at => Lists(after[Kinds[k]], KindOf(Kinds[k]), c)
    <2> TAKE k \in DOMAIN Kinds
    <2>1. CASE k = p.at
        BY ONLY <1>6, <2>1, Lists(s, KindOf(Kinds[p.at]), c), k \in DOMAIN Kinds
    <2>2. CASE k # p.at
        BY ONLY <1>1, <1>6, <2>2, k \in DOMAIN Kinds
    <2> QED BY ONLY <2>1, <2>2
<1>8. \A kind \in Range(Kinds) : after[kind] \in Seq(Range(after[kind]))
    <2>1. \A kind \in Range(Kinds) : after[kind] = s \/ after[kind] = lists[kind]
        BY ONLY <1>1, \A kind \in DOMAIN lists : after[kind] = IF kind = Kinds[p.at] THEN s ELSE lists[kind]
    <2> QED BY ONLY <1>1, <1>4, <2>1
<1>9. /\ q.at \in DOMAIN Kinds /\ q.mode \in {"none", "assemble"}
      /\ \A k \in DOMAIN Kinds : k < q.at \/ q.mode = "assemble" => k < p.at \/ k = p.at
    BY <1>1, <1>2
<1> QED BY ONLY <1>1, <1>6, <1>7, <1>8, <1>9 DEF InventoryStands

\* ListInventory keeps the invariant, whether a page, an expired token or a failure answers it.
LEMMA ListInventoryKeepsIt ==
    ASSUME KubernetesInv, ListInventory
    PROVE  KubernetesInv'
<1>1. PICK c : c = cluster
    OBVIOUS
<1>2. PICK b : b = batch
    OBVIOUS
<1>3. PICK p : p = provider
    OBVIOUS
<1>4. PICK l : l = listing
    OBVIOUS
<1>5. /\ ClusterStands(c) /\ ListingStands(l, p, c) /\ InventoryStands(listed, p, b, c)
      /\ BatchStands(b, p, c) /\ ProviderStands(p, b, c)
      /\ Batched => p.label = "none"
    BY <1>1, <1>2, <1>3, <1>4 DEF KubernetesInv
<1>6. b.outcome = "collecting" /\ p.label = "inventory" /\ p.mode = "none"
    BY <1>2, <1>3 DEF ListInventory
<1>7. p.at \in DOMAIN Kinds /\ Asked(p) = KindOf(Kinds[p.at])
    BY <1>5, <1>6 DEF InventoryStands, Asked
<1>8. CASE GiveUp("retryable") \/ GiveUp("permanent")
    BY <1>3, <1>6, <1>8, GivingUpKeepsIt
<1>9. CASE Complete /\ ~(GiveUp("retryable") \/ GiveUp("permanent"))
    <2>1. /\ listed' = [listed EXCEPT ![Kinds[p.at]] = l.items]
          /\ listing' = NewListing
          /\ provider' = IF p.at = Len(Kinds) THEN [p EXCEPT !.mode = "assemble"] ELSE [p EXCEPT !.at = @ + 1]
          /\ UNCHANGED <<cluster, batch>>
        BY <1>3, <1>4, <1>9 DEF ListInventory
    <2>2. Lists(l.items, KindOf(Kinds[p.at]), c)
        BY <1>4, <1>5, <1>7, <1>9, ReadToTheEnd DEF Complete
    <2>3. PICK q : q = provider'
        OBVIOUS
    <2>4. PICK after : after = listed'
        OBVIOUS
    <2>5. PICK lists : lists = listed
        OBVIOUS
    <2>6. p = [label |-> p.label, names |-> p.names, at |-> p.at, mode |-> p.mode, uids |-> p.uids,
               drafts |-> p.drafts, partial |-> p.partial, errors |-> p.errors]
        BY <1>5 DEF ProviderStands
    <2>7. InventoryStands(lists, p, b, c)
        BY <1>5, <2>5
    <2>8. /\ DOMAIN after = DOMAIN lists
          /\ \A kind \in DOMAIN lists : after[kind] = IF kind = Kinds[p.at] THEN l.items ELSE lists[kind]
        BY ONLY <2>1, <2>4, <2>5
    <2>9. q = IF p.at = 6 THEN [p EXCEPT !.mode = "assemble"] ELSE [p EXCEPT !.at = @ + 1]
        BY <2>1, <2>3, KindsAre
    <2>a. /\ q.label = "inventory"
          /\ \/ p.at = 6 /\ q.mode = "assemble" /\ q.at = p.at
             \/ p.at # 6 /\ q.mode = "none" /\ q.at = p.at + 1
          /\ q = [label |-> q.label, names |-> q.names, at |-> q.at, mode |-> q.mode, uids |-> q.uids,
                  drafts |-> q.drafts, partial |-> q.partial, errors |-> q.errors]
        BY ONLY <1>6, <2>6, <2>9
    <2>b. InventoryStands(after, q, b, c)
        <3>1. \/ p.at = 6 /\ q.mode = "assemble" /\ q.at = p.at
              \/ p.at # 6 /\ q.mode = "none" /\ q.at = p.at + 1
            BY ONLY <2>a
        <3>2. q.label = "inventory" /\ p.label = "inventory" /\ p.mode = "none"
            BY ONLY <1>6, <2>a
        <3>3. DOMAIN after = DOMAIN lists
            BY ONLY <2>8
        <3>4. \A kind \in DOMAIN lists : after[kind] = IF kind = Kinds[p.at] THEN l.items ELSE lists[kind]
            BY ONLY <2>8
        <3> QED BY ONLY <2>2, <2>7, <3>1, <3>2, <3>3, <3>4, KindListed
    <2>c. ProviderStands(q, b, c)
        BY ONLY <2>a DEF ProviderStands, Reads
    <2>10. ListingStands(listing', q, c)
        BY <2>1, NothingReadStands
    <2>11. BatchStands(b, q, c)
        BY <1>5, <1>6, <2>a DEF BatchStands, Reads
    <2> QED BY <1>1, <1>2, <1>5, <1>6, <2>1, <2>3, <2>4, <2>a, <2>b, <2>c, <2>10, <2>11 DEF KubernetesInv, Batched
<1>10. CASE ~Complete /\ ~(GiveUp("retryable") \/ GiveUp("permanent"))
    <2>1. Budget \in Int
        <3>1. PICK lists : lists = listed
            OBVIOUS
        <3>2. \A kind \in Range(Kinds) : lists[kind] \in Seq(Range(lists[kind]))
            BY <1>5, <3>1 DEF InventoryStands
        <3>3. Len(Inventory) \in Nat
            BY <3>1, <3>2, InventoryIsASequence
        <3>4. l.items \in Seq(Range(l.items))
            BY <1>5 DEF ListingStands
        <3>5. Len(l.items) \in Nat
            BY ONLY <3>4
        <3>6. MaxRaw \in Int
            BY LimitsAreUsable
        <3> QED BY ONLY <1>4, <3>3, <3>5, <3>6 DEF Budget
    <2>2. /\ ~(Budget <= 0)
          /\ \/ ReadPage(ObjectsOf(Kinds[p.at]), Min({PageSize, Budget}))
             \/ RestartListing
          /\ UNCHANGED <<cluster, listed, provider, batch>>
        BY <1>3, <1>10 DEF ListInventory
    <2>3. PICK m : m = listing'
        OBVIOUS
    <2>4. ListingStands(m, p, c)
        <3>1. CASE RestartListing
            BY <1>6, <2>3, <3>1, NothingReadStands DEF RestartListing
        <3>2. CASE ReadPage(ObjectsOf(Kinds[p.at]), Min({PageSize, Budget}))
            <4>1. PICK limit : limit = Min({PageSize, Budget})
                OBVIOUS
            <4>2. limit \in Nat
                <5>1. PICK budget : budget = Budget
                    OBVIOUS
                <5>2. budget \in Int /\ ~(budget <= 0) /\ PageSize \in Int /\ PageSize > 0
                    BY <2>1, <2>2, <5>1, LimitsAreUsable
                <5>3. Min({PageSize, budget}) = IF PageSize <= budget THEN PageSize ELSE budget
                    BY ONLY <5>2, LesserOfTwo
                <5>4. limit = IF PageSize <= budget THEN PageSize ELSE budget
                    BY ONLY <4>1, <5>1, <5>3
                <5> QED BY ONLY <5>2, <5>4
            <4>3. PICK M : M = ObjectsOf(Kinds[p.at])
                OBVIOUS
            <4>4. M = Asked(p) \cap c.now
                BY <1>1, <1>7, <4>3 DEF ObjectsOf, KindOf
            <4>5. ReadPage(M, limit)
                BY <3>2, <4>1, <4>3
            <4> QED BY <1>1, <1>4, <1>5, <1>6, <2>3, <4>2, <4>4, <4>5, ReadPageStands
        <3> QED BY <2>2, <3>1, <3>2
    <2> QED BY <1>1, <1>2, <1>3, <1>5, <1>6, <2>2, <2>3, <2>4 DEF KubernetesInv, Batched
<1> QED BY <1>8, <1>9, <1>10

-----------------------------------------------------------------------------
(* A provider's next name                                                   *)

Shaped(p) ==
    p = [label |-> p.label, names |-> p.names, at |-> p.at, mode |-> p.mode, uids |-> p.uids,
         drafts |-> p.drafts, partial |-> p.partial, errors |-> p.errors]

\* NextName moves to the next name or, after the last, to the next mode, and changes nothing else.
LEMMA NextNameIs ==
    ASSUME NEW p, Shaped(p)
    PROVE  LET q == NextName(p)
           IN  /\ Shaped(q) /\ q.label = p.label /\ q.names = p.names /\ q.uids = p.uids
               /\ q.drafts = p.drafts /\ q.partial = p.partial /\ q.errors = p.errors
               /\ IF p.at < Len(p.names) THEN q.at = p.at + 1 /\ q.mode = p.mode
                  ELSE q.at = 1 /\ q.mode = IF p.mode = "get" /\ p.label # "configmap" THEN "events" ELSE "finish"
<1>1. PICK mode : mode = IF p.mode = "get" /\ p.label # "configmap" THEN "events" ELSE "finish"
    OBVIOUS
<1>2. NextName(p) = IF p.at < Len(p.names) THEN [p EXCEPT !.at = @ + 1] ELSE [p EXCEPT !.at = 1, !.mode = mode]
    BY <1>1 DEF NextName
<1>3. p = [label |-> p.label, names |-> p.names, at |-> p.at, mode |-> p.mode, uids |-> p.uids,
           drafts |-> p.drafts, partial |-> p.partial, errors |-> p.errors]
    BY DEF Shaped
<1>4. CASE p.at < Len(p.names)
    <2>1. PICK q : q = [p EXCEPT !.at = @ + 1]
        OBVIOUS
    <2>2. q = [label |-> p.label, names |-> p.names, at |-> p.at + 1, mode |-> p.mode, uids |-> p.uids,
               drafts |-> p.drafts, partial |-> p.partial, errors |-> p.errors]
        BY ONLY <1>3, <2>1
    <2>3. NextName(p) = q
        BY ONLY <1>2, <1>4, <2>1
    <2> QED BY ONLY <1>4, <2>2, <2>3 DEF Shaped
<1>5. CASE ~(p.at < Len(p.names))
    <2>1. PICK q : q = [p EXCEPT !.at = 1, !.mode = mode]
        OBVIOUS
    <2>2. q = [label |-> p.label, names |-> p.names, at |-> 1, mode |-> mode, uids |-> p.uids,
               drafts |-> p.drafts, partial |-> p.partial, errors |-> p.errors]
        BY ONLY <1>3, <2>1
    <2>3. NextName(p) = q
        BY ONLY <1>2, <1>5, <2>1
    <2> QED BY ONLY <1>1, <1>5, <2>2, <2>3 DEF Shaped
<1> QED BY ONLY <1>4, <1>5

\* One more name is got, or told; the rest is as it was.
LEMMA NextNameMoves ==
    ASSUME NEW p, Shaped(p), p.label \in {"service", "pod", "configmap"},
           p.names \in Seq(Range(p.names)), p.at \in DOMAIN p.names, p.mode \in {"get", "events"},
           p.label = "configmap" => p.mode # "events"
    PROVE  LET q == NextName(p)
           IN  /\ q.at \in DOMAIN q.names /\ q.mode \in {"get", "events", "finish"}
               /\ q.label = "configmap" => q.mode # "events"
               /\ \A k \in DOMAIN p.names :
                    /\ Got(q, k) <=> Got(p, k) \/ (p.mode = "get" /\ k = p.at)
                    /\ Told(q, k) <=> Told(p, k) \/ (p.mode = "events" /\ k = p.at)
<1>1. PICK q : q = NextName(p)
    OBVIOUS
<1>2. PICK n : n = Len(p.names)
    OBVIOUS
<1>3. n \in Nat /\ DOMAIN p.names = 1..n
    BY ONLY <1>2, p.names \in Seq(Range(p.names))
<1>4. /\ q.label = p.label /\ q.names = p.names
      /\ IF p.at < n THEN q.at = p.at + 1 /\ q.mode = p.mode
         ELSE q.at = 1 /\ q.mode = IF p.mode = "get" /\ p.label # "configmap" THEN "events" ELSE "finish"
    BY <1>1, <1>2, NextNameIs
<1>5. PICK at : at = p.at
    OBVIOUS
<1>6. at \in 1..n
    BY <1>3, <1>5
<1>7. /\ q.at \in 1..n /\ q.mode \in {"get", "events", "finish"}
      /\ q.label = "configmap" => q.mode # "events"
    BY ONLY <1>3, <1>4, <1>5, <1>6, p.mode \in {"get", "events"}, p.label = "configmap" => p.mode # "events"
<1>8. ASSUME NEW k \in 1..n
      PROVE  /\ Got(q, k) <=> Got(p, k) \/ (p.mode = "get" /\ k = at)
             /\ Told(q, k) <=> Told(p, k) \/ (p.mode = "events" /\ k = at)
    <2>1. CASE at < n
        <3>1. q.at = at + 1 /\ q.mode = p.mode /\ q.label = p.label
            BY ONLY <1>4, <1>5, <2>1
        <3>2. k < at + 1 <=> k < at \/ k = at
            BY ONLY <1>3, <1>6, k \in 1..n
        <3> QED BY ONLY <1>5, <3>1, <3>2, p.mode \in {"get", "events"}, p.label = "configmap" => p.mode # "events"
                    DEF Got, Told
    <2>2. CASE ~(at < n)
        <3>1. q.at = 1 /\ q.mode = IF p.mode = "get" /\ p.label # "configmap" THEN "events" ELSE "finish"
            BY ONLY <1>4, <1>5, <2>2
        <3>2. ~(k < 1) /\ (k < at \/ k = at)
            BY ONLY <1>3, <1>6, <2>2, k \in 1..n
        <3> QED BY ONLY <1>4, <1>5, <3>1, <3>2, p.mode \in {"get", "events"}, p.label = "configmap" => p.mode # "events"
                    DEF Got, Told
    <2> QED BY ONLY <2>1, <2>2
<1> QED BY ONLY <1>1, <1>3, <1>4, <1>5, <1>7, <1>8

\* A draft stands for a provider that is further along.
LEMMA DraftsCarryOver ==
    ASSUME NEW p, NEW q, q.label = p.label, q.names = p.names, NEW c,
           \A k \in DOMAIN p.names : (Got(p, k) => Got(q, k)) /\ (Told(p, k) => Told(q, k)),
           NEW d, DraftStands(d, p, c)
    PROVE  DraftStands(d, q, c)
<1>1. PICK k \in DOMAIN p.names :
        d.name = p.names[k] /\ ((ReadStands(d, c) /\ Got(p, k)) \/ (IsEvent(d, c) /\ Told(p, k)))
    BY DEF DraftStands
<1>2. k \in DOMAIN q.names /\ d.name = q.names[k] /\ d.kind = KindReadBy(q.label)
    BY <1>1 DEF DraftStands
<1>3. (ReadStands(d, c) /\ Got(q, k)) \/ (IsEvent(d, c) /\ Told(q, k))
    BY <1>1
<1> QED BY ONLY <1>2, <1>3 DEF DraftStands

\* A request that fails leaves a reason behind, and nothing else.
LEMMA FailureStands ==
    ASSUME NEW p, NEW b, NEW c, ProviderStands(p, b, c), Reads(p), p.mode \in {"get", "events"}
    PROVE  ProviderStands(NextName(Failure(p)), b, c) /\ NextName(Failure(p)).label = p.label
<1>1. PICK yes : yes = TRUE
    OBVIOUS
<1>2. PICK r : r = Failure(p)
    OBVIOUS
<1>3. /\ Shaped(p) /\ p.label \in {"service", "pod", "configmap"}
      /\ p.names \in Seq(Range(p.names)) /\ p.names # <<>> /\ IsInjective(p.names)
      /\ p.at \in DOMAIN p.names
      /\ (p.label = "configmap" => p.mode # "events")
      /\ DOMAIN p.uids = Range(p.names)
      /\ p.drafts \in Seq(Range(p.drafts)) /\ Distinct(p.drafts)
      /\ \A k \in DOMAIN p.names : NameStands(p, k, c)
      /\ \A d \in Range(p.drafts) : DraftStands(d, p, c)
      /\ NamesStand(p, b)
    BY DEF ProviderStands, Shaped, Reads
<1>4. r = [label |-> p.label, names |-> p.names, at |-> p.at, mode |-> p.mode, uids |-> p.uids,
           drafts |-> p.drafts, partial |-> yes, errors |-> yes]
    BY ONLY <1>1, <1>2, <1>3 DEF Failure, Shaped
<1>5. /\ Shaped(r) /\ r.label = p.label /\ r.names = p.names /\ r.at = p.at /\ r.mode = p.mode
      /\ r.uids = p.uids /\ r.drafts = p.drafts /\ r.partial = yes /\ r.errors = yes
    BY ONLY <1>4 DEF Shaped
<1>6. PICK q : q = NextName(r)
    OBVIOUS
<1>7. /\ Shaped(q) /\ q.label = p.label /\ q.names = p.names /\ q.uids = p.uids
      /\ q.drafts = p.drafts /\ q.partial = yes /\ q.errors = yes
    BY ONLY <1>5, <1>6, NextNameIs
<1>8. /\ q.at \in DOMAIN q.names /\ q.mode \in {"get", "events", "finish"}
      /\ q.label = "configmap" => q.mode # "events"
      /\ \A k \in DOMAIN r.names :
            /\ Got(q, k) <=> Got(r, k) \/ (r.mode = "get" /\ k = r.at)
            /\ Told(q, k) <=> Told(r, k) \/ (r.mode = "events" /\ k = r.at)
    BY ONLY <1>3, <1>5, <1>6, NextNameMoves, p.mode \in {"get", "events"}
<1>9. \A k : (Got(r, k) <=> Got(p, k)) /\ (Told(r, k) <=> Told(p, k))
    BY ONLY <1>5 DEF Got, Told
<1>10. \A k \in DOMAIN q.names : NameStands(q, k, c)
    BY ONLY <1>1, <1>3, <1>7 DEF NameStands
<1>11. \A d \in Range(q.drafts) : DraftStands(d, q, c)
    <2>1. \A k \in DOMAIN p.names : (Got(p, k) => Got(q, k)) /\ (Told(p, k) => Told(q, k))
        BY ONLY <1>5, <1>8, <1>9
    <2>2. q.label = p.label /\ q.names = p.names /\ \A d \in Range(q.drafts) : DraftStands(d, p, c)
        BY ONLY <1>3, <1>7
    <2> QED BY ONLY <2>1, <2>2, DraftsCarryOver
<1>12. NamesStand(q, b)
    BY ONLY <1>3, <1>7 DEF NamesStand
<1>13. q.partial \in BOOLEAN /\ q.errors \in BOOLEAN /\ (q.errors => q.partial)
    BY ONLY <1>1, <1>7
<1> QED BY ONLY <1>2, <1>3, <1>6, <1>7, <1>8, <1>10, <1>11, <1>12, <1>13 DEF ProviderStands, Shaped

-----------------------------------------------------------------------------
(* Reading one object                                                       *)

\* What is got of one more name joins the drafts.
LEMMA GotOne ==
    ASSUME NEW p, NEW b, NEW c, ProviderStands(p, b, c), Reads(p), p.mode = "get", NEW uid,
           uid # NoUid => \E o \in c.ever \cap KindOf(KindReadBy(p.label)) : o.name = p.names[p.at] /\ o.uid = uid,
           \A o \in c.throughout \cap KindOf(KindReadBy(p.label)) : o.name = p.names[p.at] => o.uid = uid,
           NEW d, d.what = "state", d.kind = KindReadBy(p.label), d.name = p.names[p.at], ReadStands(d, c),
           NEW r, Shaped(r), r.label = p.label, r.names = p.names, r.at = p.at, r.mode = p.mode,
           r.partial = p.partial, r.errors = p.errors,
           r.drafts = Append(p.drafts, d), r.uids = [p.uids EXCEPT ![p.names[p.at]] = uid]
    PROVE  ProviderStands(NextName(r), b, c) /\ NextName(r).label = p.label
<1>1. /\ Shaped(p) /\ p.label \in {"service", "pod", "configmap"}
      /\ p.names \in Seq(Range(p.names)) /\ p.names # <<>> /\ IsInjective(p.names)
      /\ p.at \in DOMAIN p.names
      /\ p.label = "configmap" => p.mode # "events"
      /\ p.partial \in BOOLEAN /\ p.errors \in BOOLEAN /\ (p.errors => p.partial)
      /\ DOMAIN p.uids = Range(p.names)
      /\ p.drafts \in Seq(Range(p.drafts)) /\ Distinct(p.drafts)
      /\ \A k \in DOMAIN p.names : NameStands(p, k, c)
      /\ \A x \in Range(p.drafts) : DraftStands(x, p, c)
      /\ NamesStand(p, b)
    BY DEF ProviderStands, Shaped, Reads
<1>2. PICK name : name = p.names[p.at]
    OBVIOUS
<1>3. PICK q : q = NextName(r)
    OBVIOUS
<1>4. /\ Shaped(q) /\ q.label = p.label /\ q.names = p.names /\ q.uids = r.uids
      /\ q.drafts = r.drafts /\ q.partial = p.partial /\ q.errors = p.errors
    BY <1>3, NextNameIs
<1>5. /\ q.at \in DOMAIN q.names /\ q.mode \in {"get", "events", "finish"}
      /\ q.label = "configmap" => q.mode # "events"
      /\ \A k \in DOMAIN p.names :
            /\ Got(q, k) <=> Got(r, k) \/ (r.mode = "get" /\ k = r.at)
            /\ Told(q, k) <=> Told(r, k) \/ (r.mode = "events" /\ k = r.at)
    <2>1. r.label \in {"service", "pod", "configmap"} /\ r.names \in Seq(Range(r.names))
          /\ r.at \in DOMAIN r.names /\ r.mode \in {"get", "events"} /\ (r.label = "configmap" => r.mode # "events")
        BY <1>1
    <2> QED BY ONLY <1>3, <2>1, NextNameMoves, Shaped(r), r.names = p.names
<1>6. \A k \in DOMAIN p.names :
        /\ Got(q, k) <=> Got(p, k) \/ k = p.at
        /\ Got(p, k) => k # p.at
        /\ ~Told(q, k) /\ ~Told(p, k)
    <2>1. \A k : Got(r, k) <=> Got(p, k)
        BY DEF Got
    <2>2. \A k : ~Told(r, k) /\ ~Told(p, k)
        BY DEF Told
    <2>3. p.at \in Int
        <3>1. DOMAIN p.names \subseteq Int
            BY <1>1
        <3> QED BY ONLY <1>1, <3>1
    <2>4. \A k \in DOMAIN p.names : Got(p, k) => k # p.at
        BY ONLY <2>3, p.mode = "get" DEF Got
    <2> QED BY ONLY <1>5, <2>1, <2>2, <2>4, r.at = p.at, r.mode = p.mode, p.mode = "get"
<1>7. /\ DOMAIN q.uids = Range(p.names) /\ q.uids[name] = uid
      /\ \A k \in DOMAIN p.names : k # p.at => q.uids[p.names[k]] = p.uids[p.names[k]]
    <2>1. \A k \in DOMAIN p.names : p.names[k] \in Range(p.names)
        BY DEF Range
    <2>2. \A k \in DOMAIN p.names : k # p.at => p.names[k] # name
        BY ONLY <1>1, <1>2 DEF IsInjective
    <2>3. q.uids = [p.uids EXCEPT ![name] = uid]
        BY <1>2, <1>4
    <2> QED BY ONLY <1>1, <1>2, <2>1, <2>2, <2>3
<1>8. /\ q.drafts \in Seq(Range(q.drafts)) /\ Range(q.drafts) = Range(p.drafts) \cup {d}
      /\ \A k \in DOMAIN q.drafts :
            \/ k \in DOMAIN p.drafts /\ q.drafts[k] = p.drafts[k]
            \/ k \notin DOMAIN p.drafts /\ k = Len(p.drafts) + 1 /\ q.drafts[k] = d
    <2>1. PICK s : s = p.drafts
        OBVIOUS
    <2>2. /\ Append(s, d) \in Seq(Range(Append(s, d))) /\ Range(Append(s, d)) = Range(s) \cup {d}
          /\ \A k \in DOMAIN Append(s, d) :
                \/ k \in DOMAIN s /\ Append(s, d)[k] = s[k]
                \/ k \notin DOMAIN s /\ k = Len(s) + 1 /\ Append(s, d)[k] = d
        BY ONLY <1>1, <2>1, MembersOfAppend
    <2>3. q.drafts = Append(s, d)
        BY <1>4, <2>1
    <2> QED BY ONLY <2>1, <2>2, <2>3
<1>9. ASSUME NEW x \in Range(p.drafts)
      PROVE  /\ x.what = "state" /\ DraftStands(x, q, c)
             /\ x.name # name
    <2>1. PICK k \in DOMAIN p.names :
            x.name = p.names[k] /\ ((ReadStands(x, c) /\ Got(p, k)) \/ (IsEvent(x, c) /\ Told(p, k)))
        BY <1>1 DEF DraftStands
    <2>2. ReadStands(x, c) /\ Got(p, k) /\ x.name = p.names[k]
        BY <1>6, <2>1
    <2>3. x.what = "state"
        BY <2>2 DEF ReadStands
    <2>4. x.name # name
        BY ONLY <1>1, <1>2, <1>6, <2>2 DEF IsInjective
    <2>5. DraftStands(x, q, c)
        <3>1. \A i \in DOMAIN p.names : (Got(p, i) => Got(q, i)) /\ (Told(p, i) => Told(q, i))
            BY ONLY <1>6
        <3>2. q.label = p.label /\ q.names = p.names /\ DraftStands(x, p, c)
            BY <1>1, <1>4
        <3> QED BY ONLY <3>1, <3>2, DraftsCarryOver
    <2> QED BY <2>3, <2>4, <2>5
<1>10. DraftStands(d, q, c)
    <2>1. Got(q, p.at)
        BY ONLY <1>1, <1>6
    <2>2. p.at \in DOMAIN q.names /\ d.name = q.names[p.at] /\ d.kind = KindReadBy(q.label)
        BY <1>1, <1>4
    <2> QED BY ONLY <2>1, <2>2, ReadStands(d, c) DEF DraftStands
<1>11. Distinct(q.drafts)
    <2>1. ASSUME NEW x \in Range(p.drafts)
          PROVE  Differ(x, d) /\ Differ(d, x)
        BY <1>2, <1>9 DEF Differ
    <2>2. \A k \in DOMAIN p.drafts : p.drafts[k] \in Range(p.drafts)
        BY DEF Range
    <2> QED BY ONLY <1>1, <1>8, <2>1, <2>2 DEF Distinct
<1>12. ASSUME NEW k \in DOMAIN q.names
       PROVE  NameStands(q, k, c)
    <2>1. k \in DOMAIN p.names /\ NameStands(p, k, c)
        BY <1>1, <1>4
    <2>2. CASE k # p.at
        <3>1. q.uids[p.names[k]] = p.uids[p.names[k]] /\ (Got(q, k) <=> Got(p, k)) /\ ~Told(q, k)
            BY ONLY <1>6, <1>7, <2>1, <2>2
        <3> QED BY ONLY <1>4, <1>8, <2>1, <3>1 DEF NameStands
    <2>3. CASE k = p.at
        <3>1. q.names[k] = name /\ q.uids[q.names[k]] = uid /\ ~Told(q, k) /\ d \in Range(q.drafts)
            BY ONLY <1>2, <1>4, <1>6, <1>7, <1>8, <2>1, <2>3
        <3>2. uid # NoUid => \E o \in c.ever \cap KindOf(KindReadBy(q.label)) : o.name = name /\ o.uid = uid
            BY <1>2, <1>4
        <3>3. \A o \in c.throughout \cap KindOf(KindReadBy(q.label)) : o.name = name => o.uid = uid
            BY <1>2, <1>4
        <3>4. d.what = "state" /\ d.name = name
            BY <1>2
        <3> QED BY ONLY <3>1, <3>2, <3>3, <3>4 DEF NameStands
    <2> QED BY <2>2, <2>3
<1>13. \A x \in Range(q.drafts) : DraftStands(x, q, c)
    BY ONLY <1>8, <1>9, <1>10
<1>14. NamesStand(q, b)
    BY ONLY <1>1, <1>4 DEF NamesStand
<1>15. q.partial \in BOOLEAN /\ q.errors \in BOOLEAN /\ (q.errors => q.partial)
    BY ONLY <1>1, <1>4
<1> QED BY ONLY <1>1, <1>3, <1>4, <1>5, <1>7, <1>8, <1>11, <1>12, <1>13, <1>14, <1>15 DEF ProviderStands, Shaped

\* A step of the provider alone keeps the rest.
LEMMA ProviderSteps ==
    ASSUME KubernetesInv, batch.outcome = "collecting", Reads(provider), UNCHANGED <<cluster, listed, batch>>,
           provider'.label = provider.label, ProviderStands(provider', batch, cluster),
           ListingStands(listing', provider', cluster)
    PROVE  KubernetesInv'
<1>1. /\ ClusterStands(cluster) /\ InventoryStands(listed, provider, batch, cluster)
      /\ BatchStands(batch, provider, cluster)
    BY DEF KubernetesInv
<1>2. provider.label \in {"service", "pod", "configmap"}
    BY DEF Reads
<1>3. PICK q : q = provider'
    OBVIOUS
<1>4. q.label = provider.label
    BY <1>3
<1>5. InventoryStands(listed, q, batch, cluster)
    BY <1>1, <1>2, <1>4, InventoryIsDone
<1>6. BatchStands(batch, q, cluster)
    BY <1>1, <1>4 DEF BatchStands, Reads
<1> QED BY <1>1, <1>2, <1>3, <1>4, <1>5, <1>6 DEF KubernetesInv, Batched

\* GetResource keeps the invariant, whether it finds the object, does not, or fails.
LEMMA GetResourceKeepsIt ==
    ASSUME KubernetesInv, GetResource
    PROVE  KubernetesInv'
<1>1. PICK c : c = cluster
    OBVIOUS
<1>2. PICK b : b = batch
    OBVIOUS
<1>3. PICK p : p = provider
    OBVIOUS
<1>4. /\ ClusterStands(c) /\ ListingStands(listing, p, c) /\ ProviderStands(p, b, c)
      /\ p.label = "none" => b.outcome # "collecting"
      /\ p.label = "inventory" => p.mode \in {"none", "assemble"}
    BY <1>1, <1>2, <1>3 DEF KubernetesInv, InventoryStands
<1>5. b.outcome = "collecting" /\ p.mode = "get" /\ UNCHANGED <<cluster, listing, listed, batch>>
    BY <1>2, <1>3 DEF GetResource, Reading
<1>6. Reads(p) /\ p.label \in {"service", "pod", "configmap"}
    BY <1>4, <1>5 DEF ProviderStands, Reads
<1>7. PICK kind : kind = KindReadBy(p.label)
    OBVIOUS
<1>8. PICK name : name = p.names[p.at]
    OBVIOUS
<1>9. PICK found : found = {o \in ObjectsOf(kind) : o.name = name}
    OBVIOUS
<1>10. PICK uid : uid = IF found = {} THEN NoUid ELSE (CHOOSE o \in found : TRUE).uid
    OBVIOUS
<1>11. PICK d : d = StateDraft(name, uid)
    OBVIOUS
<1>12. PICK r : r = [p EXCEPT !.drafts = Append(@, d), !.uids[name] = uid]
    OBVIOUS
<1>13. provider' = NextName(r) \/ provider' = NextName(Failure(p))
    BY <1>3, <1>7, <1>8, <1>9, <1>10, <1>11, <1>12 DEF GetResource, Target, KindRead
<1>14. \A o : o \in found <=> o \in Objects /\ o \in c.now /\ o.kind = kind /\ o.name = name
    BY <1>1, <1>9 DEF ObjectsOf
<1>15. uid # NoUid => \E o \in c.ever \cap KindOf(kind) : o.name = name /\ o.uid = uid
    <2>1. uid # NoUid => \E o \in found : o.uid = uid
        BY ONLY <1>10
    <2>2. c.now \subseteq c.ever
        BY <1>4 DEF ClusterStands
    <2> QED BY ONLY <1>14, <2>1, <2>2 DEF KindOf
<1>16. \A o \in c.throughout \cap KindOf(kind) : o.name = name => o.uid = uid /\ uid # NoUid
    <2> SUFFICES ASSUME NEW o \in c.throughout \cap KindOf(kind), o.name = name
                 PROVE  o.uid = uid /\ uid # NoUid
        OBVIOUS
    <2>1. o \in found
        <3>1. c.throughout \subseteq c.now
            BY <1>4 DEF ClusterStands
        <3> QED BY ONLY <1>14, <3>1, o \in c.throughout \cap KindOf(kind), o.name = name DEF KindOf
    <2>2. \A x \in found : x = o
        <3>1. \A x, y \in Objects : x.kind = y.kind /\ x.name = y.name => x = y
            BY ObjectsAreIdentified
        <3> QED BY ONLY <1>14, <2>1, <3>1
    <2>3. uid = o.uid
        BY ONLY <1>10, <2>1, <2>2
    <2>4. o.uid # NoUid
        BY <1>14, <2>1, ObjectsAreIdentified
    <2> QED BY <2>3, <2>4
<1>17. /\ d.what = "state" /\ d.kind = kind /\ d.name = name /\ d.uid = uid
       /\ d.facts.found \in BOOLEAN /\ (d.facts.found <=> uid # NoUid)
    BY <1>3, <1>7, <1>11 DEF StateDraft, KindRead
<1>18. ReadStands(d, c)
    <2>1. CASE uid # NoUid
        <3>1. \E o \in c.ever \cap Objects : o.uid = d.uid
            BY <1>15, <1>17, <2>1 DEF KindOf
        <3> QED BY ONLY <1>17, <2>1, <3>1 DEF ReadStands
    <2>2. CASE uid = NoUid
        <3>1. ~\E o \in c.throughout \cap KindOf(d.kind) : o.name = d.name
            BY ONLY <1>16, <1>17, <2>2
        <3> QED BY ONLY <1>17, <2>2, <3>1 DEF ReadStands
    <2> QED BY <2>1, <2>2
<1>19. /\ Shaped(r) /\ r.label = p.label /\ r.names = p.names /\ r.at = p.at /\ r.mode = p.mode
       /\ r.partial = p.partial /\ r.errors = p.errors
       /\ r.drafts = Append(p.drafts, d) /\ r.uids = [p.uids EXCEPT ![name] = uid]
    <2>1. Shaped(p)
        BY <1>4 DEF ProviderStands, Shaped
    <2>2. PICK drafts : drafts = Append(p.drafts, d)
        OBVIOUS
    <2>3. PICK uids : uids = [p.uids EXCEPT ![name] = uid]
        OBVIOUS
    <2>4. r = [p EXCEPT !.drafts = drafts, !.uids = uids]
        BY ONLY <1>12, <2>1, <2>2, <2>3 DEF Shaped
    <2>5. r = [label |-> p.label, names |-> p.names, at |-> p.at, mode |-> p.mode, uids |-> uids,
               drafts |-> drafts, partial |-> p.partial, errors |-> p.errors]
        BY ONLY <2>1, <2>4 DEF Shaped
    <2> QED BY ONLY <2>2, <2>3, <2>5 DEF Shaped
<1>20. ProviderStands(NextName(r), b, c) /\ NextName(r).label = p.label
    BY <1>4, <1>5, <1>6, <1>7, <1>8, <1>15, <1>16, <1>17, <1>18, <1>19, GotOne
<1>21. ProviderStands(NextName(Failure(p)), b, c) /\ NextName(Failure(p)).label = p.label
    BY <1>4, <1>5, <1>6, FailureStands
<1>22. PICK q : q = provider'
    OBVIOUS
<1>23. ProviderStands(q, b, c) /\ q.label = p.label
    BY <1>13, <1>20, <1>21, <1>22
<1>24. ListingStands(listing, q, c)
    <2>1. listing = NewListing
        BY <1>4, <1>5 DEF ListingStands
    <2> QED BY <2>1, NothingReadStands
<1>25. ListingStands(listing', provider', cluster)
    BY <1>1, <1>5, <1>22, <1>24
<1> QED BY <1>1, <1>2, <1>3, <1>5, <1>6, <1>22, <1>23, <1>25, ProviderSteps

-----------------------------------------------------------------------------
(* Reading the Events                                                       *)

\* ListEvents keeps the invariant, whether a page, an expired token or a failure answers it.
LEMMA ListEventsKeepsIt ==
    ASSUME KubernetesInv, ListEvents
    PROVE  KubernetesInv'
<1>1. PICK c : c = cluster
    OBVIOUS
<1>2. PICK b : b = batch
    OBVIOUS
<1>3. PICK p : p = provider
    OBVIOUS
<1>4. PICK l : l = listing
    OBVIOUS
<1>5. /\ ClusterStands(c) /\ ListingStands(l, p, c) /\ ProviderStands(p, b, c)
      /\ p.label = "none" => b.outcome # "collecting"
      /\ p.label = "inventory" => p.mode \in {"none", "assemble"}
    BY <1>1, <1>2, <1>3, <1>4 DEF KubernetesInv, InventoryStands
<1>6. b.outcome = "collecting" /\ p.mode = "events" /\ UNCHANGED <<cluster, listed, batch>>
    BY <1>2, <1>3 DEF ListEvents, Reading
<1>7. Reads(p) /\ p.label \in {"service", "pod", "configmap"}
    BY <1>5, <1>6 DEF ProviderStands, Reads
<1>8. PICK M : M = EventsAbout(KindRead, Target, provider.uids[Target])
    OBVIOUS
<1>9. PICK limit : limit = Min({EventPage, MaxRawEvents - Len(listing.items)})
    OBVIOUS
<1>10. \/ (ReadPage(M, limit) \/ RestartListing) /\ UNCHANGED provider
       \/ provider' = NextName(Failure(provider)) /\ listing' = NewListing
    BY <1>8, <1>9 DEF ListEvents
<1>11. M = Asked(p) \cap c.now
    <2>1. Asked(p) = EventsOn(KindReadBy(p.label), p.names[p.at], p.uids[p.names[p.at]])
        BY <1>7 DEF Asked
    <2> QED BY <1>1, <1>3, <1>8, <2>1 DEF EventsAbout, EventsOn, KindRead, Target
<1>12. limit \in Nat
    <2>1. l.items \in Seq(Range(l.items))
        BY <1>5 DEF ListingStands
    <2>2. Len(l.items) \in Nat
        BY ONLY <2>1
    <2>3. ~(Len(l.items) >= MaxRawEvents)
        BY <1>4 DEF ListEvents, Scanned
    <2>4. MaxRawEvents \in Nat /\ EventPage \in Nat
        BY LimitsAreUsable
    <2>5. PICK room : room = MaxRawEvents - Len(l.items)
        OBVIOUS
    <2>6. room \in Nat
        BY ONLY <2>2, <2>3, <2>4, <2>5
    <2>7. limit = Min({EventPage, room})
        BY <1>4, <1>9, <2>5
    <2>8. EventPage \in Int /\ room \in Int
        BY ONLY <2>4, <2>6
    <2>9. limit = IF EventPage <= room THEN EventPage ELSE room
        BY ONLY <2>7, <2>8, LesserOfTwo
    <2> QED BY ONLY <2>4, <2>6, <2>9
<1>13. PICK q : q = provider'
    OBVIOUS
<1>14. PICK m : m = listing'
    OBVIOUS
<1>15. CASE (ReadPage(M, limit) \/ RestartListing) /\ UNCHANGED provider
    <2>1. q = p
        BY <1>3, <1>13, <1>15
    <2>2. CASE ReadPage(M, limit)
        <3>1. ListingStands(m, p, c)
            BY <1>1, <1>4, <1>5, <1>6, <1>11, <1>12, <1>14, <2>2, ReadPageStands
        <3> QED BY <1>1, <1>2, <1>3, <1>5, <1>6, <1>7, <1>13, <1>14, <2>1, <3>1, ProviderSteps
    <2>3. CASE RestartListing
        <3>1. m = [NewListing EXCEPT !.restarted = TRUE]
            BY <1>14, <2>3 DEF RestartListing
        <3>2. ListingStands(m, p, c)
            BY <1>6, <3>1, NothingReadStands
        <3> QED BY <1>1, <1>2, <1>3, <1>5, <1>6, <1>7, <1>13, <1>14, <2>1, <3>2, ProviderSteps
    <2> QED BY <1>15, <2>2, <2>3
<1>16. CASE provider' = NextName(Failure(provider)) /\ listing' = NewListing
    <2>1. ProviderStands(NextName(Failure(p)), b, c) /\ NextName(Failure(p)).label = p.label
        BY <1>5, <1>6, <1>7, FailureStands
    <2>2. ProviderStands(q, b, c) /\ q.label = p.label
        BY <1>3, <1>13, <1>16, <2>1
    <2>3. ListingStands(m, q, c)
        BY <1>14, <1>16, NothingReadStands
    <2> QED BY <1>1, <1>2, <1>3, <1>6, <1>7, <1>13, <1>14, <2>2, <2>3, ProviderSteps
<1> QED BY <1>10, <1>15, <1>16

\* A draft of some Events says how many there are, how often they occurred and their last order.
LEMMA DraftOfEvents ==
    ASSUME NEW E \in SUBSET Occurrences, E # {}, NEW about, NEW reason, NEW g, g = EventDraft(about, reason, E)
    PROVE  /\ g.what = "event" /\ g.kind = about.kind /\ g.name = about.name /\ g.uid = about.uid
           /\ g.reason = reason /\ g.series = Cardinality(E) /\ g.count = Cardinality(Occasions(E))
           /\ g.order \in Int /\ \E e \in E : g.order = e.order
<1>1. PICK orders : orders = {e.order : e \in E}
    OBVIOUS
<1>2. PICK last : last = Max(orders)
    OBVIOUS
<1>3. PICK series : series = Cardinality(E)
    OBVIOUS
<1>4. PICK count : count = Cardinality(Occasions(E))
    OBVIOUS
<1>5. g = [what |-> "event", kind |-> about.kind, name |-> about.name, uid |-> about.uid, reason |-> reason,
           count |-> count, series |-> series, order |-> last]
    BY ONLY <1>1, <1>2, <1>3, <1>4, g = EventDraft(about, reason, E) DEF EventDraft
<1>6. /\ g.what = "event" /\ g.kind = about.kind /\ g.name = about.name /\ g.uid = about.uid
      /\ g.reason = reason /\ g.series = series /\ g.count = count /\ g.order = last
    BY ONLY <1>5
<1>7. last \in orders /\ orders \subseteq Int
    <2>0. \A e \in E : e.order \in Int
        BY EventsAreIdentified
    <2>1. orders \in SUBSET Int /\ orders # {}
        BY ONLY <1>1, <2>0, E # {}
    <2>2. IsFiniteSet(E)
        BY EventsAreIdentified, FS_Subset
    <2> DEFINE f == [e \in E |-> e.order]
    <2>3. f \in Surjection(E, orders)
        BY ONLY <1>1 DEF Surjection
    <2>4. IsFiniteSet(orders)
        BY ONLY <2>2, <2>3, FS_Surjection
    <2> QED BY ONLY <1>2, <2>1, <2>4, GreatestNumber
<1> QED BY ONLY <1>1, <1>3, <1>4, <1>6, <1>7

\* The Events of the window that are about the same thing for the same reason as e.
InGroup(events, e) == {f \in Range(events) : f.inWindow /\ f.about = e.about /\ f.reason = e.reason}

\* There is one group for the Events of the window that are about one thing for one reason.
LEMMA GroupsOfEvents ==
    ASSUME NEW events, Range(events) \subseteq Occurrences, IsFiniteSet(Range(events))
    PROVE  /\ EventGroups(events) \in Seq(Range(EventGroups(events))) /\ Distinct(EventGroups(events))
           /\ \A g : g \in Range(EventGroups(events)) <=>
                \E e \in Range(events) : e.inWindow /\ g = EventDraft(e.about, e.reason, InGroup(events, e))
<1>1. PICK counted : counted = {e \in Range(events) : e.inWindow}
    OBVIOUS
<1>2. PICK S : S = {EventDraft(e.about, e.reason, InGroup(events, e)) : e \in counted}
    OBVIOUS
<1>3. PICK R : R = {q \in S \X S : q[1].order > q[2].order}
    OBVIOUS
<1>4. EventGroups(events) = Sorted(S, R)
    <2>1. \A e : {f \in counted : f.about = e.about /\ f.reason = e.reason} = InGroup(events, e)
        BY ONLY <1>1 DEF InGroup
    <2>2. S = {EventDraft(e.about, e.reason, {f \in counted : f.about = e.about /\ f.reason = e.reason}) : e \in counted}
        BY ONLY <1>2, <2>1
    <2> QED BY ONLY <1>1, <1>3, <2>2 DEF EventGroups, Ordered
<1>5. \A e \in counted : InGroup(events, e) \in SUBSET Occurrences /\ e \in InGroup(events, e) /\ e \in Occurrences
    BY <1>1 DEF InGroup
<1>6. \A g \in S : \E e \in counted : g = EventDraft(e.about, e.reason, InGroup(events, e))
    BY ONLY <1>2
<1>7. ASSUME NEW e \in counted, NEW g, g = EventDraft(e.about, e.reason, InGroup(events, e))
      PROVE  /\ g.what = "event" /\ g.kind = e.about.kind /\ g.name = e.about.name /\ g.uid = e.about.uid
             /\ g.reason = e.reason /\ g.order \in Int
             /\ \E f \in Occurrences : f.about = e.about /\ f.reason = e.reason /\ g.order = f.order
    <2>1. PICK E : E = InGroup(events, e)
        OBVIOUS
    <2>2. PICK about : about = e.about
        OBVIOUS
    <2>3. PICK reason : reason = e.reason
        OBVIOUS
    <2>4. E \in SUBSET Occurrences /\ E # {} /\ g = EventDraft(about, reason, E)
        BY ONLY <1>5, <1>7, <2>1, <2>2, <2>3
    <2>5. /\ g.what = "event" /\ g.kind = about.kind /\ g.name = about.name /\ g.uid = about.uid
          /\ g.reason = reason /\ g.order \in Int /\ \E f \in E : g.order = f.order
        BY ONLY <2>4, DraftOfEvents
    <2>6. \A f \in E : f \in Occurrences /\ f.about = about /\ f.reason = reason
        BY ONLY <2>1, <2>2, <2>3, <2>4 DEF InGroup
    <2> QED BY ONLY <2>2, <2>3, <2>5, <2>6
<1>8. ASSUME NEW e \in counted, NEW f \in counted, e.about = f.about, e.reason = f.reason
      PROVE  EventDraft(e.about, e.reason, InGroup(events, e)) = EventDraft(f.about, f.reason, InGroup(events, f))
    <2>1. InGroup(events, e) = InGroup(events, f)
        BY ONLY <1>8 DEF InGroup
    <2> QED BY ONLY <1>8, <2>1
<1>9. \A e, f \in Occurrences : e.order = f.order => e = f
    BY EventsAreIdentified
<1>10. ASSUME NEW g \in S, NEW h \in S
       PROVE  /\ g.order \in Int /\ (g.order = h.order => g = h)
              /\ g # h => Differ(g, h)
    <2>1. PICK e \in counted : g = EventDraft(e.about, e.reason, InGroup(events, e))
        BY ONLY <1>6, <1>10
    <2>2. PICK f \in counted : h = EventDraft(f.about, f.reason, InGroup(events, f))
        BY ONLY <1>6, <1>10
    <2>3. /\ g.what = "event" /\ g.kind = e.about.kind /\ g.name = e.about.name /\ g.uid = e.about.uid
          /\ g.reason = e.reason /\ g.order \in Int
          /\ \E x \in Occurrences : x.about = e.about /\ x.reason = e.reason /\ g.order = x.order
        BY ONLY <1>7, <2>1
    <2>4. /\ h.what = "event" /\ h.kind = f.about.kind /\ h.name = f.about.name /\ h.uid = f.about.uid
          /\ h.reason = f.reason
          /\ \E x \in Occurrences : x.about = f.about /\ x.reason = f.reason /\ h.order = x.order
        BY ONLY <1>7, <2>2
    <2>5. e.about = f.about /\ e.reason = f.reason => g = h
        BY ONLY <1>8, <2>1, <2>2
    <2>6. g.order = h.order => e.about = f.about /\ e.reason = f.reason
        BY ONLY <1>9, <2>3, <2>4
    <2>7. /\ e.about = [kind |-> e.about.kind, name |-> e.about.name, uid |-> e.about.uid]
          /\ f.about = [kind |-> f.about.kind, name |-> f.about.name, uid |-> f.about.uid]
        BY ONLY <1>5, EventsAreIdentified, e \in counted, f \in counted
    <2>8. g.kind = h.kind /\ g.name = h.name /\ g.uid = h.uid => e.about = f.about
        BY ONLY <2>3, <2>4, <2>7
    <2> QED BY ONLY <2>3, <2>4, <2>5, <2>6, <2>8 DEF Differ
<1>11. IsFiniteSet(S)
    <2>1. IsFiniteSet(counted)
        BY <1>1, FS_Subset
    <2> DEFINE f == [e \in counted |-> EventDraft(e.about, e.reason, InGroup(events, e))]
    <2>2. f \in Surjection(counted, S)
        BY ONLY <1>2 DEF Surjection
    <2> QED BY ONLY <2>1, <2>2, FS_Surjection
<1>12. StrictOrder(S, R)
    <2>1. \A x, y \in S : <<x, y>> \in R <=> x.order > y.order
        BY ONLY <1>3
    <2> QED BY ONLY <1>10, <2>1 DEF StrictOrder
<1>13. PICK groups : groups = EventGroups(events)
    OBVIOUS
<1>14. groups \in Seq(S) /\ IsInjective(groups) /\ Range(groups) = S
    BY ONLY <1>4, <1>11, <1>12, <1>13, SortedMembers
<1>15. Distinct(groups)
    <2>1. \A k \in DOMAIN groups : groups[k] \in S
        BY ONLY <1>14
    <2>2. \A j, k \in DOMAIN groups : j # k => groups[j] # groups[k]
        BY ONLY <1>14 DEF IsInjective
    <2> QED BY ONLY <1>10, <2>1, <2>2 DEF Distinct
<1>16. \A g : g \in S <=> \E e \in Range(events) : e.inWindow /\ g = EventDraft(e.about, e.reason, InGroup(events, e))
    BY ONLY <1>1, <1>2
<1> QED BY ONLY <1>13, <1>14, <1>15, <1>16

\* What the groups say of the Events listed on something is so, and leaves none out.
LEMMA GroupsStand ==
    ASSUME NEW c, ClusterStands(c), NEW events, NEW kind, NEW name, NEW uid,
           IsFiniteSet(Range(events)), Range(events) \subseteq EventsOn(kind, name, uid) \cap c.ever,
           NEW groups, groups = EventGroups(events)
    PROVE  /\ \A g \in Range(groups) :
                g.what = "event" /\ g.kind = kind /\ g.name = name /\ IsEvent(g, c)
           /\ \A e \in Range(events) : e.inWindow => \E g \in Range(groups) : Tells(g, e)
<1>1. /\ Range(events) \subseteq Occurrences
      /\ \A e \in Range(events) : e.about.kind = kind /\ e.about.name = name /\ e \in c.ever
    BY DEF EventsOn
<1>2. \A g : g \in Range(groups) <=>
        \E e \in Range(events) : e.inWindow /\ g = EventDraft(e.about, e.reason, InGroup(events, e))
    BY ONLY <1>1, GroupsOfEvents, IsFiniteSet(Range(events)), groups = EventGroups(events)
<1>3. ASSUME NEW e \in Range(events), e.inWindow, NEW g, g = EventDraft(e.about, e.reason, InGroup(events, e))
      PROVE  /\ g.what = "event" /\ g.kind = kind /\ g.name = name /\ IsEvent(g, c)
             /\ Tells(g, e)
    <2>1. PICK E : E = InGroup(events, e)
        OBVIOUS
    <2>2. PICK about : about = e.about
        OBVIOUS
    <2>3. PICK reason : reason = e.reason
        OBVIOUS
    <2>4. E \in SUBSET Occurrences /\ e \in E
        BY ONLY <1>1, <1>3, <2>1 DEF InGroup
    <2>5. g = EventDraft(about, reason, E) /\ E # {}
        BY ONLY <1>3, <2>1, <2>2, <2>3, <2>4
    <2>6. /\ g.what = "event" /\ g.kind = about.kind /\ g.name = about.name /\ g.uid = about.uid
          /\ g.reason = reason /\ g.series = Cardinality(E) /\ g.count = Cardinality(Occasions(E))
        BY ONLY <2>4, <2>5, DraftOfEvents
    <2>7. PICK H : H = Happened(g, c)
        OBVIOUS
    <2>8. H \in SUBSET Occurrences /\ E \in SUBSET H
        BY ONLY <1>1, <2>1, <2>2, <2>3, <2>6, <2>7 DEF InGroup, Happened
    <2>9. /\ Cardinality(E) \in Nat /\ Cardinality(H) \in Nat /\ Cardinality(E) <= Cardinality(H)
          /\ Cardinality(Occasions(E)) \in Nat /\ Cardinality(Occasions(H)) \in Nat
          /\ Cardinality(Occasions(E)) <= Cardinality(Occasions(H))
        BY ONLY <2>8, OccasionsCount
    <2>10. \A f \in E : f.count <= Cardinality(Occasions(E))
        <3>1. E \in SUBSET E
            OBVIOUS
        <3> QED BY ONLY <2>4, <3>1, OccasionsCount
    <2>11. IsEvent(g, c)
        BY ONLY <2>6, <2>7, <2>9 DEF IsEvent
    <2>12. e.count \in Nat
        BY ONLY <2>4, EventsAreIdentified
    <2>13. g.count >= e.count
        BY ONLY <2>4, <2>6, <2>9, <2>10, <2>12
    <2> QED BY ONLY <1>1, <1>3, <2>2, <2>3, <2>6, <2>11, <2>13 DEF Tells
<1> QED BY ONLY <1>2, <1>3

\* What is told of one more name joins the drafts.
LEMMA ToldOne ==
    ASSUME NEW p, NEW b, NEW c, ProviderStands(p, b, c), Reads(p), p.mode = "events",
           NEW groups, groups \in Seq(Range(groups)), Distinct(groups),
           \A g \in Range(groups) :
                g.what = "event" /\ g.kind = KindReadBy(p.label) /\ g.name = p.names[p.at] /\ IsEvent(g, c),
           NEW r, Shaped(r), r.label = p.label, r.names = p.names, r.at = p.at, r.mode = p.mode,
           r.uids = p.uids, r.errors = p.errors, r.drafts = p.drafts \o groups,
           r.partial \in BOOLEAN, p.partial => r.partial,
           ~r.partial => \A e \in c.throughout
                                \cap EventsOn(KindReadBy(p.label), p.names[p.at], p.uids[p.names[p.at]]) :
                            e.inWindow => \E d \in Range(groups) : Tells(d, e)
    PROVE  ProviderStands(NextName(r), b, c) /\ NextName(r).label = p.label
<1>1. /\ Shaped(p) /\ p.label \in {"service", "pod", "configmap"}
      /\ p.names \in Seq(Range(p.names)) /\ p.names # <<>> /\ IsInjective(p.names)
      /\ p.at \in DOMAIN p.names
      /\ p.label = "configmap" => p.mode # "events"
      /\ p.partial \in BOOLEAN /\ p.errors \in BOOLEAN /\ (p.errors => p.partial)
      /\ DOMAIN p.uids = Range(p.names)
      /\ p.drafts \in Seq(Range(p.drafts)) /\ Distinct(p.drafts)
      /\ \A k \in DOMAIN p.names : NameStands(p, k, c)
      /\ \A x \in Range(p.drafts) : DraftStands(x, p, c)
      /\ NamesStand(p, b)
    BY DEF ProviderStands, Shaped, Reads
<1>2. PICK name : name = p.names[p.at]
    OBVIOUS
<1>3. PICK q : q = NextName(r)
    OBVIOUS
<1>4. /\ Shaped(q) /\ q.label = p.label /\ q.names = p.names /\ q.uids = p.uids
      /\ q.drafts = r.drafts /\ q.partial = r.partial /\ q.errors = p.errors
    BY <1>3, NextNameIs
<1>5. /\ q.at \in DOMAIN q.names /\ q.mode \in {"get", "events", "finish"}
      /\ q.label = "configmap" => q.mode # "events"
      /\ \A k \in DOMAIN p.names :
            /\ Got(q, k) <=> Got(r, k) \/ (r.mode = "get" /\ k = r.at)
            /\ Told(q, k) <=> Told(r, k) \/ (r.mode = "events" /\ k = r.at)
    <2>1. r.label \in {"service", "pod", "configmap"} /\ r.names \in Seq(Range(r.names))
          /\ r.at \in DOMAIN r.names /\ r.mode \in {"get", "events"} /\ (r.label = "configmap" => r.mode # "events")
        BY <1>1
    <2> QED BY ONLY <1>3, <2>1, NextNameMoves, Shaped(r), r.names = p.names
<1>6. \A k \in DOMAIN p.names :
        /\ Got(q, k) /\ Got(p, k)
        /\ Told(q, k) <=> Told(p, k) \/ k = p.at
        /\ Told(p, k) => k # p.at
    <2>1. \A k : Got(r, k) /\ Got(p, k)
        BY DEF Got
    <2>2. \A k : Told(r, k) <=> Told(p, k)
        BY DEF Told
    <2>3. p.at \in Int
        <3>1. DOMAIN p.names \subseteq Int
            BY <1>1
        <3> QED BY ONLY <1>1, <3>1
    <2>4. \A k \in DOMAIN p.names : Told(p, k) => k # p.at
        BY ONLY <2>3, p.mode = "events" DEF Told
    <2> QED BY ONLY <1>5, <2>1, <2>2, <2>4, r.at = p.at, r.mode = p.mode, p.mode = "events"
<1>7. q.drafts \in Seq(Range(q.drafts)) /\ Range(q.drafts) = Range(p.drafts) \cup Range(groups)
    <2>1. PICK s : s = p.drafts
        OBVIOUS
    <2>2. s \o groups \in Seq(Range(s \o groups)) /\ Range(s \o groups) = Range(s) \cup Range(groups)
        BY ONLY <1>1, <2>1, MembersOfConcat, groups \in Seq(Range(groups))
    <2>3. q.drafts = s \o groups
        BY <1>4, <2>1
    <2> QED BY ONLY <2>1, <2>2, <2>3
<1>8. ASSUME NEW x \in Range(p.drafts)
      PROVE  /\ DraftStands(x, q, c)
             /\ x.name = name => x.what = "state"
    <2>1. PICK k \in DOMAIN p.names :
            x.name = p.names[k] /\ ((ReadStands(x, c) /\ Got(p, k)) \/ (IsEvent(x, c) /\ Told(p, k)))
        BY <1>1 DEF DraftStands
    <2>2. Told(p, k) => x.name # name
        BY ONLY <1>1, <1>2, <1>6, <2>1 DEF IsInjective
    <2>3. x.name = name => x.what = "state"
        BY ONLY <2>1, <2>2 DEF ReadStands
    <2>4. DraftStands(x, q, c)
        <3>1. \A i \in DOMAIN p.names : (Got(p, i) => Got(q, i)) /\ (Told(p, i) => Told(q, i))
            BY ONLY <1>6
        <3>2. q.label = p.label /\ q.names = p.names /\ DraftStands(x, p, c)
            BY <1>1, <1>4
        <3> QED BY ONLY <3>1, <3>2, DraftsCarryOver
    <2> QED BY ONLY <2>3, <2>4
<1>9. ASSUME NEW g \in Range(groups)
      PROVE  g.what = "event" /\ g.name = name /\ DraftStands(g, q, c)
    <2>1. g.what = "event" /\ g.kind = KindReadBy(q.label) /\ g.name = name /\ IsEvent(g, c)
        BY <1>2, <1>4
    <2>2. Told(q, p.at)
        BY ONLY <1>1, <1>6
    <2>3. p.at \in DOMAIN q.names /\ q.names[p.at] = name
        BY ONLY <1>1, <1>2, <1>4
    <2> QED BY ONLY <2>1, <2>2, <2>3 DEF DraftStands
<1>10. Distinct(q.drafts)
    <2>1. \A x \in Range(p.drafts), g \in Range(groups) : Differ(x, g) /\ Differ(g, x)
        BY ONLY <1>8, <1>9 DEF Differ
    <2>2. Distinct(p.drafts \o groups)
        BY ONLY <1>1, <2>1, DistinctConcat, groups \in Seq(Range(groups)), Distinct(groups)
    <2> QED BY <1>4, <2>2
<1>11. ASSUME NEW k \in DOMAIN q.names
       PROVE  NameStands(q, k, c)
    <2>1. k \in DOMAIN p.names /\ NameStands(p, k, c)
        BY <1>1, <1>4
    <2>2. ~q.partial => ~p.partial
        BY <1>4
    <2>3. CASE k # p.at
        <3>1. Got(p, k) /\ (Told(q, k) <=> Told(p, k))
            BY ONLY <1>6, <2>1, <2>3
        <3> QED BY ONLY <1>4, <1>7, <2>1, <2>2, <3>1 DEF NameStands
    <2>4. CASE k = p.at
        <3>1. Got(p, k) /\ q.names[k] = name
            BY ONLY <1>2, <1>4, <1>6, <2>1, <2>4
        <3>2. ~q.partial => \A e \in c.throughout \cap EventsOn(KindReadBy(q.label), name, q.uids[name]) :
                    e.inWindow => \E d \in Range(q.drafts) : Tells(d, e)
            <4>1. ~q.partial => \A e \in c.throughout \cap EventsOn(KindReadBy(q.label), name, q.uids[name]) :
                    e.inWindow => \E d \in Range(groups) : Tells(d, e)
                BY <1>2, <1>4
            <4> QED BY ONLY <1>7, <4>1
        <3> QED BY ONLY <1>2, <1>4, <1>7, <2>1, <2>2, <2>4, <3>1, <3>2 DEF NameStands
    <2> QED BY <2>3, <2>4
<1>12. \A x \in Range(q.drafts) : DraftStands(x, q, c)
    BY ONLY <1>7, <1>8, <1>9
<1>13. NamesStand(q, b)
    BY ONLY <1>1, <1>4 DEF NamesStand
<1>14. q.partial \in BOOLEAN /\ q.errors \in BOOLEAN /\ (q.errors => q.partial)
    BY <1>1, <1>4
<1> QED BY ONLY <1>1, <1>3, <1>4, <1>5, <1>7, <1>10, <1>11, <1>12, <1>13, <1>14 DEF ProviderStands, Shaped

\* ReportEvents keeps the invariant: a scan cut short, or groups left out, say PARTIAL.
LEMMA ReportEventsKeepsIt ==
    ASSUME KubernetesInv, ReportEvents
    PROVE  KubernetesInv'
<1>1. PICK c : c = cluster
    OBVIOUS
<1>2. PICK b : b = batch
    OBVIOUS
<1>3. PICK p : p = provider
    OBVIOUS
<1>4. PICK l : l = listing
    OBVIOUS
<1>5. /\ ClusterStands(c) /\ ListingStands(l, p, c) /\ ProviderStands(p, b, c)
      /\ p.label = "none" => b.outcome # "collecting"
      /\ p.label = "inventory" => p.mode \in {"none", "assemble"}
    BY <1>1, <1>2, <1>3, <1>4 DEF KubernetesInv, InventoryStands
<1>6. /\ b.outcome = "collecting" /\ p.mode = "events" /\ UNCHANGED <<cluster, listed, batch>>
      /\ listing' = NewListing
    BY <1>2, <1>3 DEF ReportEvents, Reading
<1>7. Reads(p) /\ p.label \in {"service", "pod", "configmap"}
    BY <1>5, <1>6 DEF ProviderStands, Reads
<1>8. PICK kind : kind = KindReadBy(p.label)
    OBVIOUS
<1>9. PICK name : name = p.names[p.at]
    OBVIOUS
<1>10. PICK uid : uid = p.uids[name]
    OBVIOUS
<1>11. PICK groups : groups = EventGroups(l.items)
    OBVIOUS
<1>12. PICK n : n = Min({MaxEvents, Len(groups)})
    OBVIOUS
<1>13. PICK told : told = SubSeq(groups, 1, n)
    OBVIOUS
<1>14. PICK drafts : drafts = p.drafts \o told
    OBVIOUS
<1>15. PICK partial \in BOOLEAN : partial <=> p.partial \/ ~Complete \/ Len(groups) > MaxEvents
    OBVIOUS
<1>16. PICK r : r = [p EXCEPT !.drafts = drafts, !.partial = partial]
    OBVIOUS
<1>17. /\ Shaped(p) /\ p.partial \in BOOLEAN
    BY <1>5, <1>7 DEF ProviderStands, Shaped, Reads
<1>18. provider' = NextName(r)
    <2>1. partial = (p.partial \/ ~Complete \/ Len(groups) > MaxEvents)
        BY <1>15
    <2>2. r = [p EXCEPT !.drafts = @ \o SubSeq(groups, 1, Min({MaxEvents, Len(groups)})),
                        !.partial = @ \/ ~Complete \/ Len(groups) > MaxEvents]
        BY <1>12, <1>13, <1>14, <1>16, <1>17, <2>1 DEF Shaped
    <2> QED BY <1>3, <1>4, <1>11, <2>2 DEF ReportEvents
<1>19. /\ Shaped(r) /\ r.label = p.label /\ r.names = p.names /\ r.at = p.at /\ r.mode = p.mode
       /\ r.partial = partial /\ r.errors = p.errors /\ r.drafts = drafts /\ r.uids = p.uids
    <2>1. r = [label |-> p.label, names |-> p.names, at |-> p.at, mode |-> p.mode, uids |-> p.uids,
               drafts |-> drafts, partial |-> partial, errors |-> p.errors]
        BY ONLY <1>16, <1>17 DEF Shaped
    <2> QED BY ONLY <2>1 DEF Shaped
<1>20. Asked(p) = EventsOn(kind, name, uid)
    BY <1>7, <1>8, <1>9, <1>10 DEF Asked
<1>21. IsFiniteSet(Range(l.items)) /\ Range(l.items) \subseteq EventsOn(kind, name, uid) \cap c.ever
    <2>1. l.items \in Seq(Range(l.items)) /\ l.token.rest \in Seq(Range(l.token.rest)) /\ l.token.snapshot \in BOOLEAN
        BY <1>5 DEF ListingStands
    <2>2. IsFiniteSet(Range(l.items))
        BY ONLY <2>1, RangeIsFinite
    <2>3. CASE l.token.snapshot
        <3>1. Range(l.items \o l.token.rest) \subseteq Asked(p) \cap c.ever
            BY <1>5, <2>3 DEF ListingStands, Lists
        <3>2. Range(l.items) \subseteq Range(l.items \o l.token.rest)
            BY ONLY <2>1, MembersOfConcat
        <3> QED BY ONLY <1>20, <2>2, <3>1, <3>2
    <2>4. CASE ~l.token.snapshot
        <3>1. l.items = <<>>
            BY <1>5, <2>4 DEF ListingStands
        <3> QED BY ONLY <2>2, <3>1 DEF Range
    <2> QED BY <2>3, <2>4
<1>22. /\ groups \in Seq(Range(groups)) /\ Distinct(groups)
       /\ \A g \in Range(groups) : g.what = "event" /\ g.kind = kind /\ g.name = name /\ IsEvent(g, c)
       /\ \A e \in Range(l.items) : e.inWindow => \E g \in Range(groups) : Tells(g, e)
    <2>1. Range(l.items) \subseteq Occurrences
        BY ONLY <1>21 DEF EventsOn
    <2> QED BY ONLY <1>5, <1>11, <1>21, <2>1, GroupsOfEvents, GroupsStand
<1>23. n \in 0..Len(groups) /\ (~(Len(groups) > MaxEvents) => n = Len(groups))
    <2>1. Len(groups) \in Nat
        BY ONLY <1>22
    <2>2. MaxEvents \in Nat
        BY LimitsAreUsable
    <2>3. n = IF MaxEvents <= Len(groups) THEN MaxEvents ELSE Len(groups)
        BY ONLY <1>12, <2>1, <2>2, LesserOfTwo
    <2> QED BY ONLY <2>1, <2>2, <2>3
<1>24. /\ told \in Seq(Range(told)) /\ Range(told) \subseteq Range(groups)
       /\ n = Len(groups) => told = groups
       /\ \A k \in DOMAIN told : k \in DOMAIN groups /\ told[k] = groups[k]
    BY ONLY <1>13, <1>22, <1>23, MembersOfPrefix
<1>25. Distinct(told)
    BY ONLY <1>22, <1>24 DEF Distinct
<1>26. ~partial => \A e \in c.throughout \cap EventsOn(kind, name, uid) :
                        e.inWindow => \E d \in Range(told) : Tells(d, e)
    <2> SUFFICES ASSUME ~partial
                 PROVE  \A e \in c.throughout \cap EventsOn(kind, name, uid) :
                            e.inWindow => \E d \in Range(told) : Tells(d, e)
        OBVIOUS
    <2>1. l.token.snapshot /\ l.token.rest = <<>>
        BY <1>4, <1>15 DEF Complete
    <2>2. Lists(l.items, Asked(p), c)
        BY ONLY <1>5, <2>1, ReadToTheEnd
    <2>3. c.throughout \cap EventsOn(kind, name, uid) \subseteq Range(l.items)
        BY ONLY <1>20, <2>2 DEF Lists
    <2>4. told = groups
        BY ONLY <1>15, <1>23, <1>24, ~partial
    <2> QED BY ONLY <1>22, <2>3, <2>4
<1>27. ProviderStands(NextName(r), b, c) /\ NextName(r).label = p.label
    <2>1. \A g \in Range(told) :
            g.what = "event" /\ g.kind = KindReadBy(p.label) /\ g.name = p.names[p.at] /\ IsEvent(g, c)
        BY ONLY <1>8, <1>9, <1>22, <1>24
    <2>2. ~r.partial => \A e \in c.throughout
                                \cap EventsOn(KindReadBy(p.label), p.names[p.at], p.uids[p.names[p.at]]) :
                            e.inWindow => \E d \in Range(told) : Tells(d, e)
        BY ONLY <1>8, <1>9, <1>10, <1>19, <1>26
    <2>3. r.partial \in BOOLEAN /\ (p.partial => r.partial) /\ r.drafts = p.drafts \o told
        BY ONLY <1>14, <1>15, <1>19
    <2>4. Shaped(r) /\ r.label = p.label /\ r.names = p.names /\ r.at = p.at /\ r.mode = p.mode
        BY ONLY <1>19
    <2>5. r.errors = p.errors /\ r.uids = p.uids
        BY ONLY <1>19
    <2>6. told \in Seq(Range(told))
        BY ONLY <1>24
    <2>7. ProviderStands(p, b, c) /\ p.mode = "events"
        BY ONLY <1>5, <1>6
    <2> QED BY ONLY <1>7, <1>25, <2>1, <2>2, <2>3, <2>4, <2>5, <2>6, <2>7, ToldOne
<1>28. PICK q : q = provider'
    OBVIOUS
<1>29. PICK m : m = listing'
    OBVIOUS
<1>30. ProviderStands(q, b, c) /\ q.label = p.label /\ ListingStands(m, q, c)
    BY <1>6, <1>18, <1>27, <1>28, <1>29, NothingReadStands
<1> QED BY <1>1, <1>2, <1>3, <1>6, <1>7, <1>28, <1>29, <1>30, ProviderSteps

-----------------------------------------------------------------------------
(* A provider's drafts join the batch                                       *)

\* StateDrafts are the drafts of one kind of object.
LEMMA StateDraftsAre ==
    ASSUME NEW items, items \in Seq(Range(items)), NEW kind
    PROVE  /\ StateDrafts(items, kind) \in Seq(Range(StateDrafts(items, kind)))
           /\ \A d : d \in Range(StateDrafts(items, kind)) <=> d \in Range(items) /\ d.what = "state" /\ d.kind = kind
           /\ \A j, k \in DOMAIN StateDrafts(items, kind) : j # k =>
                \E m, n \in DOMAIN items : /\ m # n /\ StateDrafts(items, kind)[j] = items[m]
                                           /\ StateDrafts(items, kind)[k] = items[n]
<1>1. PICK places : places = {k \in DOMAIN items : items[k].what = "state" /\ items[k].kind = kind}
    OBVIOUS
<1>2. StateDrafts(items, kind) = Picked(items, places)
    BY ONLY <1>1 DEF StateDrafts, Filtered
<1>3. places \in SUBSET (DOMAIN items)
    BY ONLY <1>1
<1>4. /\ Picked(items, places) \in Seq(Range(Picked(items, places)))
      /\ \A x : x \in Range(Picked(items, places)) <=> \E m \in places : x = items[m]
      /\ \A j, k \in DOMAIN Picked(items, places) : j # k =>
            \E m, n \in places : m # n /\ Picked(items, places)[j] = items[m] /\ Picked(items, places)[k] = items[n]
    BY ONLY <1>3, MembersOfPicked, items \in Seq(Range(items))
<1>5. PICK s : s = Picked(items, places)
    OBVIOUS
<1>6. \A x : x \in Range(items) <=> \E m \in DOMAIN items : x = items[m]
    BY ONLY DEF Range
<1>7. /\ s \in Seq(Range(s))
      /\ \A x : x \in Range(s) <=> \E m \in places : x = items[m]
      /\ \A j, k \in DOMAIN s : j # k => \E m, n \in places : m # n /\ s[j] = items[m] /\ s[k] = items[n]
    BY ONLY <1>4, <1>5
<1>8. \A x : x \in Range(s) <=> x \in Range(items) /\ x.what = "state" /\ x.kind = kind
    BY ONLY <1>1, <1>6, <1>7
<1>9. \A j, k \in DOMAIN s : j # k => \E m, n \in DOMAIN items : m # n /\ s[j] = items[m] /\ s[k] = items[n]
    BY ONLY <1>3, <1>7
<1> QED BY ONLY <1>2, <1>5, <1>7, <1>8, <1>9

\* A Pod among the drafts.
PodIn(d, items) == d \in Range(items) /\ d.what = "state" /\ d.kind = "Pod"

\* The Pods of a batch have different names, and PodNames are these.
LEMMA PodNamesAre ==
    ASSUME NEW items, items \in Seq(Range(items)), Distinct(items), NEW c,
           \A d \in Range(items) : IsResource(d, c) \/ d.what = "event"
    PROVE  /\ PodNames(items) \in Seq(Range(PodNames(items))) /\ IsInjective(PodNames(items))
           /\ PodNames(items) = <<>> <=> ~\E d : PodIn(d, items)
           /\ \A n : n \in Range(PodNames(items)) <=> \E d : PodIn(d, items) /\ d.name = n
<1>1. PICK pods : pods = StateDrafts(items, "Pod")
    OBVIOUS
<1>2. /\ pods \in Seq(Range(pods))
      /\ \A d : d \in Range(pods) <=> PodIn(d, items)
      /\ \A j, k \in DOMAIN pods : j # k => \E m, n \in DOMAIN items : m # n /\ pods[j] = items[m] /\ pods[k] = items[n]
    BY ONLY <1>1, StateDraftsAre, items \in Seq(Range(items)) DEF PodIn
<1>3. PICK names : names = [k \in DOMAIN pods |-> pods[k].name]
    OBVIOUS
<1>4. PodNames(items) = names
    BY ONLY <1>1, <1>3 DEF PodNames
<1>5. PICK N : N = {d.name : d \in Range(pods)}
    OBVIOUS
<1>6. Len(pods) \in Nat /\ DOMAIN pods = 1..Len(pods)
    BY ONLY <1>2
<1>7. \A k \in DOMAIN pods : pods[k] \in Range(pods)
    BY ONLY DEF Range
<1>8. names \in [1..Len(pods) -> N]
    BY ONLY <1>3, <1>5, <1>6, <1>7
<1>9. names \in Seq(N) /\ Len(names) = Len(pods)
    BY ONLY <1>6, <1>8, FunctionIsASequence
<1>10. names \in Seq(Range(names))
    BY ONLY <1>9, SequenceOfMembers
<1>11. \A n : n \in Range(names) <=> \E d : PodIn(d, items) /\ d.name = n
    <2>1. \A n : n \in Range(names) <=> \E k \in DOMAIN names : names[k] = n
        BY ONLY DEF Range
    <2>2. \A d : d \in Range(pods) <=> \E k \in DOMAIN pods : pods[k] = d
        BY ONLY DEF Range
    <2>3. DOMAIN names = DOMAIN pods /\ \A k \in DOMAIN pods : names[k] = pods[k].name
        BY ONLY <1>3
    <2> QED BY ONLY <1>2, <2>1, <2>2, <2>3
<1>12. names = <<>> <=> ~\E d : PodIn(d, items)
    <2>1. \A d : d \in Range(pods) <=> \E k \in DOMAIN pods : pods[k] = d
        BY ONLY DEF Range
    <2>2. names = <<>> <=> Len(names) = 0
        BY ONLY <1>9
    <2>3. Len(pods) = 0 <=> ~\E k \in DOMAIN pods : TRUE
        BY ONLY <1>6
    <2> QED BY ONLY <1>2, <1>9, <2>1, <2>2, <2>3
<1>13. ASSUME NEW j \in DOMAIN names, NEW k \in DOMAIN names, names[j] = names[k], j # k
       PROVE  FALSE
    <2>1. j \in DOMAIN pods /\ k \in DOMAIN pods /\ pods[j].name = pods[k].name
        BY ONLY <1>3, <1>13
    <2>2. PICK m, n \in DOMAIN items : m # n /\ pods[j] = items[m] /\ pods[k] = items[n]
        BY ONLY <1>2, <1>13, <2>1
    <2>3. PICK x : x = items[m]
        OBVIOUS
    <2>4. PICK y : y = items[n]
        OBVIOUS
    <2>5. PodIn(x, items) /\ PodIn(y, items) /\ x.name = y.name
        BY ONLY <1>2, <1>7, <2>1, <2>2, <2>3, <2>4
    <2>6. Differ(x, y)
        BY ONLY <2>2, <2>3, <2>4, Distinct(items) DEF Distinct
    <2>7. x.uid # y.uid
        BY ONLY <2>5, <2>6 DEF Differ, PodIn
    <2>8. IsResource(x, c) /\ IsResource(y, c)
        BY <2>5 DEF PodIn
    <2>9. PICK o \in RootedIn(c.ever) : IsState(x, o)
        BY ONLY <2>8 DEF IsResource
    <2>10. PICK q \in RootedIn(c.ever) : IsState(y, q)
        BY ONLY <2>8 DEF IsResource
    <2>11. o \in Objects /\ q \in Objects
        BY <2>9, <2>10, RootedKinds
    <2>12. o.kind = q.kind /\ o.name = q.name /\ o.uid # q.uid
        BY ONLY <2>5, <2>7, <2>9, <2>10 DEF IsState, PodIn
    <2> QED BY ONLY <2>11, <2>12, ObjectsAreIdentified
<1>14. IsInjective(names)
    BY ONLY <1>13 DEF IsInjective
<1> QED BY ONLY <1>4, <1>10, <1>11, <1>12, <1>14

\* What the Pods of a batch require is finite, and Sources are the Pods that require it.
LEMMA RequiredAre ==
    ASSUME NEW items, items \in Seq(Range(items)), NEW c,
           \A d \in Range(items) : IsResource(d, c) \/ d.what = "event"
    PROVE  /\ IsFiniteSet(Required(items))
           /\ \A n : n \in Required(items) <=> \E d : PodIn(d, items) /\ n \in d.facts.configmaps
           /\ \A n, u : u \in Sources(items, n) <=> \E d : PodIn(d, items) /\ n \in d.facts.configmaps /\ u = d.uid
<1>1. PICK P : P = Range(StateDrafts(items, "Pod"))
    OBVIOUS
<1>2. /\ StateDrafts(items, "Pod") \in Seq(P)
      /\ \A d : d \in P <=> PodIn(d, items)
    BY ONLY <1>1, StateDraftsAre, items \in Seq(Range(items)) DEF PodIn
<1>3. IsFiniteSet(P)
    BY ONLY <1>1, <1>2, RangeIsFinite
<1>4. \A n : n \in Required(items) <=> \E d \in P : n \in d.facts.configmaps
    BY ONLY <1>1 DEF Required
<1>5. \A n, u : u \in Sources(items, n) <=> \E d \in P : n \in d.facts.configmaps /\ u = d.uid
    BY ONLY <1>1 DEF Sources
<1>6. IsFiniteSet(Required(items))
    <2>1. PICK U : U = {d.facts.configmaps : d \in P}
        OBVIOUS
    <2> DEFINE f == [d \in P |-> d.facts.configmaps]
    <2>2. f \in Surjection(P, U)
        BY ONLY <2>1 DEF Surjection
    <2>3. IsFiniteSet(U)
        BY ONLY <1>3, <2>2, FS_Surjection
    <2>4. \A d \in P : IsFiniteSet(d.facts.configmaps)
        <3> TAKE d \in P
        <3>1. PodIn(d, items) /\ IsResource(d, c)
            BY <1>2 DEF PodIn
        <3>2. PICK o \in RootedIn(c.ever) : IsState(d, o)
            BY ONLY <3>1 DEF IsResource
        <3>3. o \in Objects
            BY ONLY <3>2, RootedKinds
        <3> QED BY ONLY <3>2, <3>3, ObjectsAreIdentified DEF IsState
    <2>5. IsFiniteSet(UNION U)
        <3>1. \A T \in U : IsFiniteSet(T)
            BY ONLY <2>1, <2>4
        <3> QED BY ONLY <2>3, <3>1, FS_UNION
    <2>6. Required(items) = UNION U
        BY ONLY <1>1, <2>1 DEF Required
    <2> QED BY ONLY <2>5, <2>6
<1> QED BY ONLY <1>2, <1>4, <1>5, <1>6

\* What is kept of a provider that is through stands, and is all of it unless it is rejected.
LEMMA KeptStands ==
    ASSUME KubernetesInv, NEW c, c = cluster, NEW b, b = batch, NEW p, p = provider, Reads(p), p.mode = "finish",
           NEW kept, kept = Kept(p)
    PROVE  /\ kept \in Seq(Range(kept)) /\ Distinct(kept)
           /\ p.label = "configmap" =>
                /\ \A x \in Range(kept) :
                    /\ x.kind = "ConfigMap" /\ x.sources = Sources(b.items, x.name) /\ ReadStands(x, c)
                    /\ \E k \in DOMAIN p.names : x.name = p.names[k]
                /\ ~Rejected(p) => \A d \in Range(p.drafts) : \E x \in Range(kept) : x.name = d.name
           /\ p.label # "configmap" =>
                /\ \A x \in Range(kept) : IsEvent(x, c) /\ x.kind = KindReadBy(p.label)
                /\ ~Rejected(p) => \A d \in Range(p.drafts) : d.what = "event" => d \in Range(kept)
<1>1. /\ p.label \in {"service", "pod", "configmap"}
      /\ p.drafts \in Seq(Range(p.drafts)) /\ Distinct(p.drafts)
      /\ \A x \in Range(p.drafts) : DraftStands(x, p, c)
    BY DEF KubernetesInv, ProviderStands, Reads
<1>2. PICK s : s = p.drafts
    OBVIOUS
<1>3. Len(s) \in Nat /\ DOMAIN s = 1..Len(s) /\ \A d : d \in Range(s) <=> \E k \in DOMAIN s : s[k] = d
    BY ONLY <1>1, <1>2 DEF Range
<1>4. CASE Rejected(p)
    <2>1. kept = <<>>
        BY <1>4 DEF Kept
    <2>2. <<>> \in Seq({})
        OBVIOUS
    <2>3. kept \in Seq(Range(kept)) /\ Range(kept) \subseteq {}
        <3>1. kept \in Seq({})
            BY ONLY <2>1, <2>2
        <3> QED BY ONLY <3>1, SequenceOfMembers
    <2>4. Distinct(kept)
        BY ONLY <2>1 DEF Distinct
    <2> QED BY ONLY <1>4, <2>3, <2>4
<1>5. CASE ~Rejected(p) /\ p.label = "configmap"
    <2>1. kept = [k \in DOMAIN s |-> ConfigMapDraft(s[k])]
        BY <1>2, <1>5 DEF Kept
    <2>2. \A d, x : x = ConfigMapDraft(d) =>
            /\ x.what = "state" /\ x.kind = "ConfigMap" /\ x.name = d.name /\ x.uid = d.uid /\ x.facts = d.facts
            /\ x.sources = Sources(b.items, d.name)
        BY DEF ConfigMapDraft
    <2>3. DOMAIN kept = DOMAIN s /\ \A k \in DOMAIN s : kept[k] = ConfigMapDraft(s[k])
        BY ONLY <2>1
    <2>4. \A k \in DOMAIN s :
            /\ kept[k].what = "state" /\ kept[k].kind = "ConfigMap" /\ kept[k].name = s[k].name
            /\ kept[k].uid = s[k].uid /\ kept[k].facts = s[k].facts
            /\ kept[k].sources = Sources(b.items, s[k].name)
        BY ONLY <2>2, <2>3
    <2>5. \A x : x \in Range(kept) <=> \E k \in DOMAIN s : kept[k] = x
        BY ONLY <2>3 DEF Range
    <2>6. kept \in Seq(Range(kept))
        <3>1. kept \in [1..Len(s) -> Range(kept)]
            BY ONLY <1>3, <2>1, <2>5
        <3> QED BY ONLY <1>3, <3>1, FunctionIsASequence
    <2>7. ASSUME NEW d \in Range(s)
          PROVE  /\ d.what = "state" /\ d.kind = "ConfigMap" /\ ReadStands(d, c)
                 /\ \E k \in DOMAIN p.names : d.name = p.names[k]
        <3>1. d.kind = KindReadBy(p.label)
            BY ONLY <1>1, <1>2, <2>7 DEF DraftStands
        <3>2. PICK k \in DOMAIN p.names :
                d.name = p.names[k] /\ ((ReadStands(d, c) /\ Got(p, k)) \/ (IsEvent(d, c) /\ Told(p, k)))
            BY ONLY <1>1, <1>2, <2>7 DEF DraftStands
        <3>3. ReadStands(d, c)
            BY ONLY <1>5, <3>2 DEF Told
        <3>4. d.what = "state"
            BY ONLY <3>3 DEF ReadStands
        <3>5. d.kind = "ConfigMap"
            BY ONLY <1>5, <3>1 DEF KindReadBy
        <3> QED BY ONLY <3>2, <3>3, <3>4, <3>5
    <2>8. \A k \in DOMAIN s : s[k] \in Range(s)
        BY ONLY <1>3
    <2>9. Distinct(kept)
        <3> SUFFICES ASSUME NEW j \in DOMAIN s, NEW k \in DOMAIN s, j # k
                     PROVE  Differ(kept[j], kept[k])
            BY <2>3 DEF Distinct
        <3>1. Differ(s[j], s[k])
            BY ONLY <1>1, <1>2, j \in DOMAIN s, k \in DOMAIN s, j # k DEF Distinct
        <3>2. s[j].what = "state" /\ s[k].what = "state" /\ s[j].kind = s[k].kind
            BY ONLY <2>7, <2>8, j \in DOMAIN s, k \in DOMAIN s
        <3>3. s[j].name = s[k].name => s[j].uid # s[k].uid
            BY ONLY <3>1, <3>2 DEF Differ
        <3> QED BY ONLY <2>4, <3>3, j \in DOMAIN s, k \in DOMAIN s DEF Differ
    <2>10. ASSUME NEW x \in Range(kept)
           PROVE  /\ x.kind = "ConfigMap" /\ x.sources = Sources(b.items, x.name) /\ ReadStands(x, c)
                  /\ \E k \in DOMAIN p.names : x.name = p.names[k]
        <3>1. PICK k \in DOMAIN s : kept[k] = x
            BY ONLY <2>5, <2>10
        <3>2. PICK d : d = s[k]
            OBVIOUS
        <3>3. /\ x.what = "state" /\ x.kind = "ConfigMap" /\ x.name = d.name
              /\ x.uid = d.uid /\ x.facts = d.facts /\ x.sources = Sources(b.items, d.name)
            BY ONLY <2>4, <3>1, <3>2
        <3>4. /\ d.what = "state" /\ d.kind = "ConfigMap" /\ ReadStands(d, c)
              /\ \E i \in DOMAIN p.names : d.name = p.names[i]
            BY ONLY <2>7, <2>8, <3>1, <3>2
        <3>5. ReadStands(x, c)
            BY ONLY <3>3, <3>4 DEF ReadStands
        <3> QED BY ONLY <3>3, <3>4, <3>5
    <2>11. \A d \in Range(s) : \E x \in Range(kept) : x.name = d.name
        BY ONLY <1>3, <2>4, <2>5
    <2> QED BY ONLY <1>2, <1>5, <2>6, <2>9, <2>10, <2>11
<1>6. CASE ~Rejected(p) /\ p.label # "configmap"
    <2>1. PICK places : places = {k \in DOMAIN s : s[k].what = "event"}
        OBVIOUS
    <2>2. kept = Picked(s, places)
        BY <1>2, <1>6, <2>1 DEF Kept, Filtered
    <2>3. places \in SUBSET (DOMAIN s) /\ s \in Seq(Range(s))
        BY ONLY <1>1, <1>2, <2>1
    <2>4. /\ Picked(s, places) \in Seq(Range(Picked(s, places)))
          /\ \A x : x \in Range(Picked(s, places)) <=> \E m \in places : x = s[m]
          /\ \A j, k \in DOMAIN Picked(s, places) : j # k =>
                \E m, n \in places : m # n /\ Picked(s, places)[j] = s[m] /\ Picked(s, places)[k] = s[n]
        BY ONLY <2>3, MembersOfPicked
    <2>5. /\ kept \in Seq(Range(kept))
          /\ \A x : x \in Range(kept) <=> \E m \in places : x = s[m]
          /\ \A j, k \in DOMAIN kept : j # k => \E m, n \in places : m # n /\ kept[j] = s[m] /\ kept[k] = s[n]
        BY ONLY <2>2, <2>4
    <2>6. \A x : x \in Range(kept) <=> x \in Range(s) /\ x.what = "event"
        BY ONLY <1>3, <2>1, <2>5
    <2>7. Distinct(kept)
        <3> SUFFICES ASSUME NEW j \in DOMAIN kept, NEW k \in DOMAIN kept, j # k
                     PROVE  Differ(kept[j], kept[k])
            BY DEF Distinct
        <3>1. PICK m, n \in places : m # n /\ kept[j] = s[m] /\ kept[k] = s[n]
            BY ONLY <2>5, j \in DOMAIN kept, k \in DOMAIN kept, j # k
        <3>2. m \in DOMAIN s /\ n \in DOMAIN s
            BY ONLY <2>3, <3>1
        <3>3. Differ(s[m], s[n])
            BY ONLY <1>1, <1>2, <3>1, <3>2 DEF Distinct
        <3> QED BY ONLY <3>1, <3>3
    <2>8. ASSUME NEW x \in Range(kept)
          PROVE  IsEvent(x, c) /\ x.kind = KindReadBy(p.label)
        <3>1. x \in Range(p.drafts) /\ x.what = "event" /\ DraftStands(x, p, c)
            BY ONLY <1>1, <1>2, <2>6, <2>8
        <3>2. x.what # "state"
            BY ONLY <3>1
        <3> QED BY ONLY <3>1, <3>2 DEF DraftStands, ReadStands
    <2> QED BY ONLY <1>2, <1>6, <2>5, <2>6, <2>7, <2>8
<1> QED BY ONLY <1>4, <1>5, <1>6

\* The batch with what is kept: told apart, with the same Pods, ...
LEMMA JoinedStands ==
    ASSUME KubernetesInv, NEW c, c = cluster, NEW b, b = batch, NEW p, p = provider, Reads(p), p.mode = "finish",
           NEW kept, kept = Kept(p), NEW items, items = b.items \o kept
    PROVE  /\ items \in Seq(Range(items)) /\ Distinct(items) /\ Range(items) = Range(b.items) \cup Range(kept)
           /\ \A d : PodIn(d, items) <=> PodIn(d, b.items)
           /\ \A d \in Range(b.items) : IsResource(d, c) \/ IsEvent(d, c)
<1>1. /\ kept \in Seq(Range(kept)) /\ Distinct(kept)
      /\ p.label = "configmap" => \A x \in Range(kept) : x.kind = "ConfigMap" /\ ReadStands(x, c)
      /\ p.label # "configmap" => \A x \in Range(kept) : IsEvent(x, c) /\ x.kind = KindReadBy(p.label)
    BY KeptStands
<1>2. /\ b.items \in Seq(Range(b.items)) /\ Distinct(b.items)
      /\ p.label \in {"service", "pod", "configmap"}
      /\ \A d \in Range(b.items) :
            \/ IsResource(d, c)
            \/ IsEvent(d, c) /\ p.label # "service" /\ (p.label = "pod" => d.kind = "Service")
    BY DEF KubernetesInv, BatchStands, Reads
<1>3. \A x \in Range(kept) : x.what = IF p.label = "configmap" THEN "state" ELSE "event"
    BY ONLY <1>1 DEF ReadStands, IsEvent
<1>4. \A d : IsResource(d, c) => d.what = "state" /\ d.kind # "ConfigMap"
    BY RootedKinds DEF IsResource, IsState
<1>5. \A d : IsEvent(d, c) => d.what = "event"
    BY ONLY DEF IsEvent
<1>6. ASSUME NEW x \in Range(b.items), NEW y \in Range(kept)
      PROVE  ~(x.what = y.what /\ x.kind = y.kind)
    <2>1. CASE p.label = "configmap"
        BY ONLY <1>1, <1>2, <1>3, <1>4, <1>5, <1>6, <2>1
    <2>2. CASE p.label = "pod"
        <3>1. y.what = "event" /\ y.kind = "Pod"
            BY ONLY <1>1, <1>3, <1>6, <2>2 DEF KindReadBy
        <3>2. x.what = "event" => x.kind = "Service"
            BY ONLY <1>2, <1>4, <1>6, <2>2
        <3> QED BY ONLY <3>1, <3>2
    <2>3. CASE p.label = "service"
        <3>1. y.what = "event" /\ x.what = "state"
            BY ONLY <1>2, <1>3, <1>4, <1>6, <2>3
        <3> QED BY ONLY <3>1
    <2> QED BY ONLY <1>2, <2>1, <2>2, <2>3
<1>7. PICK s : s = b.items
    OBVIOUS
<1>8. \A x \in Range(s), y \in Range(kept) : Differ(x, y) /\ Differ(y, x)
    BY ONLY <1>6, <1>7 DEF Differ
<1>9. s \o kept \in Seq(Range(s \o kept)) /\ Range(s \o kept) = Range(s) \cup Range(kept)
    BY ONLY <1>1, <1>2, <1>7, MembersOfConcat
<1>10. Distinct(s \o kept)
    BY ONLY <1>1, <1>2, <1>7, <1>8, DistinctConcat
<1>11. \A x \in Range(kept) : ~(x.what = "state" /\ x.kind = "Pod")
    BY ONLY <1>1, <1>3
<1>12. items = s \o kept
    BY <1>7
<1>13. Range(items) = Range(b.items) \cup Range(kept)
    BY ONLY <1>7, <1>9, <1>12
<1>14. \A d : PodIn(d, items) <=> PodIn(d, b.items)
    BY ONLY <1>11, <1>13 DEF PodIn
<1>15. \A d \in Range(b.items) : IsResource(d, c) \/ IsEvent(d, c)
    BY ONLY <1>2
<1> QED BY ONLY <1>9, <1>10, <1>12, <1>13, <1>14, <1>15

\* ... and with every Event about the objects whose names a provider that reports nothing has read.
LEMMA NamesAreTold ==
    ASSUME NEW c, ClusterStands(c), NEW p, p.mode = "finish", p.label \in {"service", "pod"}, ~p.partial,
           \A k \in DOMAIN p.names : NameStands(p, k, c),
           NEW e \in c.throughout \cap Occurrences, e.inWindow,
           NEW o \in RootedIn(c.throughout), o.kind = KindReadBy(p.label), o.uid = e.about.uid,
           o.name \in Range(p.names)
    PROVE  \E d \in Range(p.drafts) : Tells(d, e)
<1>1. PICK k \in DOMAIN p.names : p.names[k] = o.name
    BY DEF Range
<1>2. PICK kind : kind = KindReadBy(p.label)
    OBVIOUS
<1>3. PICK uid : uid = p.uids[o.name]
    OBVIOUS
<1>4. Got(p, k) /\ Told(p, k)
    BY DEF Got, Told
<1>5. o \in c.throughout /\ o \in Objects
    BY RootedKinds
<1>6. /\ \A x \in c.throughout \cap KindOf(kind) : x.name = o.name => x.uid = uid
      /\ \A x \in c.throughout \cap EventsOn(kind, o.name, uid) :
            x.inWindow => \E d \in Range(p.drafts) : Tells(d, x)
    <2>1. NameStands(p, k, c)
        BY <1>1
    <2> QED BY ONLY <1>1, <1>2, <1>3, <1>4, <2>1, ~p.partial DEF NameStands
<1>7. o.uid = uid
    BY <1>2, <1>5, <1>6 DEF KindOf
<1>8. e.about.kind = kind /\ e.about.name = o.name
    BY <1>2, <1>5, EventsAreIdentified
<1>9. e \in EventsOn(kind, o.name, uid)
    BY <1>7, <1>8 DEF EventsOn
<1> QED BY <1>6, <1>9

\* A joined batch that need not say PARTIAL tells the Events of the Services, and those of the Pods
\* unless the Pods are still to be read.
LEMMA JoinedTell ==
    ASSUME KubernetesInv, NEW c, c = cluster, NEW b, b = batch, NEW p, p = provider, Reads(p), p.mode = "finish",
           ~b.partial, ~p.partial, ~Rejected(p), NEW e, e.items = b.items \o Kept(p)
    PROVE  /\ EventsTold("Service", e, c)
           /\ (p.label = "service" /\ PodNames(b.items) # <<>>) \/ EventsTold("Pod", e, c)
<1>1. PICK kept : kept = Kept(p)
    OBVIOUS
<1>2. PICK items : items = b.items \o kept
    OBVIOUS
<1>3. e.items = items
    BY <1>1, <1>2
<1>4. Range(items) = Range(b.items) \cup Range(kept) /\ \A d \in Range(b.items) : IsResource(d, c) \/ IsEvent(d, c)
    BY <1>1, <1>2, JoinedStands
<1>5. p.label # "configmap" => \A d \in Range(p.drafts) : d.what = "event" => d \in Range(kept)
    BY <1>1, KeptStands
<1>6. /\ ClusterStands(c) /\ p.label \in {"service", "pod", "configmap"}
      /\ \A k \in DOMAIN p.names : NameStands(p, k, c)
      /\ NamesStand(p, b)
    BY DEF KubernetesInv, ProviderStands, Reads
<1>7. /\ b.items \in Seq(Range(b.items)) /\ Distinct(b.items)
      /\ \A o \in RootedIn(c.throughout) : \E d \in Range(b.items) : IsState(d, o)
      /\ p.label \in {"pod", "configmap"} => EventsTold("Service", b, c)
      /\ p.label = "configmap" => EventsTold("Pod", b, c)
    BY DEF KubernetesInv, BatchStands, Reads
<1>8. \A kind : EventsTold(kind, b, c) => EventsTold(kind, e, c)
    BY ONLY <1>3, <1>4 DEF EventsTold
<1>9. ASSUME p.label \in {"service", "pod"},
             \A o \in RootedIn(c.throughout) : o.kind = KindReadBy(p.label) => o.name \in Range(p.names)
      PROVE  EventsTold(KindReadBy(p.label), e, c)
    <2>1. \A x \in c.throughout \cap Occurrences :
            x.inWindow /\ (\E o \in RootedIn(c.throughout) : o.kind = KindReadBy(p.label) /\ o.uid = x.about.uid) =>
                \E d \in Range(p.drafts) : Tells(d, x)
        BY ONLY <1>6, <1>9, NamesAreTold, ~p.partial, p.mode = "finish"
    <2>2. \A x : \A d \in Range(p.drafts) : Tells(d, x) => d \in Range(items)
        BY ONLY <1>4, <1>5, <1>9 DEF Tells
    <2> QED BY ONLY <1>3, <2>1, <2>2 DEF EventsTold
<1>10. \A d \in Range(b.items) : IsResource(d, c) \/ d.what = "event"
    BY ONLY <1>4 DEF IsEvent
<1>11. /\ PodNames(b.items) = <<>> <=> ~\E d : PodIn(d, b.items)
       /\ \A n : n \in Range(PodNames(b.items)) <=> \E d : PodIn(d, b.items) /\ d.name = n
    BY ONLY <1>7, <1>10, PodNamesAre
<1>12. \A o \in RootedIn(c.throughout) : o.kind = "Pod" => \E d : PodIn(d, b.items) /\ d.name = o.name
    BY ONLY <1>7 DEF PodIn, IsState
<1>13. CASE p.label = "service"
    <2>1. \A o \in RootedIn(c.throughout) : o.kind = "Service" => o.name \in Range(p.names)
        <3>1. Range(p.names) = Range(Roots)
            BY ONLY <1>6, <1>13 DEF NamesStand
        <3> QED BY <3>1, RootedKinds
    <2>2. KindReadBy(p.label) = "Service"
        BY ONLY <1>13 DEF KindReadBy
    <2>3. EventsTold("Service", e, c)
        BY ONLY <1>9, <1>13, <2>1, <2>2
    <2>4. PodNames(b.items) = <<>> => EventsTold("Pod", e, c)
        BY ONLY <1>11, <1>12 DEF EventsTold
    <2> QED BY ONLY <1>13, <2>3, <2>4
<1>14. CASE p.label = "pod"
    <2>1. \A o \in RootedIn(c.throughout) : o.kind = "Pod" => o.name \in Range(p.names)
        <3>1. Range(p.names) = Range(PodNames(b.items))
            BY ONLY <1>6, <1>14 DEF NamesStand
        <3> QED BY ONLY <1>11, <1>12, <3>1
    <2>2. KindReadBy(p.label) = "Pod"
        BY ONLY <1>14 DEF KindReadBy
    <2>3. EventsTold("Pod", e, c)
        BY ONLY <1>9, <1>14, <2>1, <2>2
    <2> QED BY ONLY <1>7, <1>8, <1>14, <2>3
<1>15. CASE p.label = "configmap"
    BY ONLY <1>7, <1>8, <1>15
<1> QED BY ONLY <1>6, <1>13, <1>14, <1>15

\* The next provider starts on what the batch names.
LEMMA NextProviderKeepsIt ==
    ASSUME KubernetesInv, NEW c, c = cluster, NEW b, b = batch, NEW p, p = provider, Reads(p), p.mode = "finish",
           b.outcome = "collecting", NEW partial \in BOOLEAN, ~partial => ~b.partial /\ ~p.partial /\ ~Rejected(p),
           NEW e, e = [items |-> b.items \o Kept(p), partial |-> partial, outcome |-> b.outcome],
           NEW label, NEW names,
           \/ label = "pod" /\ names = PodNames(b.items) /\ names # <<>> /\ p.label = "service"
           \/ /\ label = "configmap" /\ names = SetToSeq(Required(b.items)) /\ Required(b.items) # {}
              /\ p.label = "pod" \/ (p.label = "service" /\ PodNames(b.items) = <<>>),
           NEW q, q = Derived(label, names),
           batch' = e, provider' = q, UNCHANGED <<cluster, listing, listed>>
    PROVE  KubernetesInv'
<1>1. PICK kept : kept = Kept(p)
    OBVIOUS
<1>2. PICK items : items = b.items \o kept
    OBVIOUS
<1>3. e.items = items /\ e.partial = partial /\ e.outcome = "collecting"
    BY <1>1, <1>2
<1>4. /\ items \in Seq(Range(items)) /\ Distinct(items) /\ Range(items) = Range(b.items) \cup Range(kept)
      /\ \A d : PodIn(d, items) <=> PodIn(d, b.items)
      /\ \A d \in Range(b.items) : IsResource(d, c) \/ IsEvent(d, c)
    BY ONLY <1>1, <1>2, JoinedStands, KubernetesInv, c = cluster, b = batch, p = provider, Reads(p), p.mode = "finish"
<1>5. p.label # "configmap" => \A x \in Range(kept) : IsEvent(x, c) /\ x.kind = KindReadBy(p.label)
    BY ONLY <1>1, KeptStands, KubernetesInv, c = cluster, b = batch, p = provider, Reads(p), p.mode = "finish"
<1>6. /\ ClusterStands(c) /\ ListingStands(listing, p, c) /\ InventoryStands(listed, p, b, c)
      /\ b.items \in Seq(Range(b.items)) /\ Distinct(b.items)
      /\ \A d \in Range(b.items) :
            \/ IsResource(d, c)
            \/ IsEvent(d, c) /\ p.label # "service" /\ (p.label = "pod" => d.kind = "Service")
      /\ \A o \in RootedIn(c.throughout) : \E d \in Range(b.items) : IsState(d, o)
    BY DEF KubernetesInv, BatchStands, Reads
<1>7. /\ \A d \in Range(b.items) : IsResource(d, c) \/ d.what = "event"
      /\ \A d \in Range(items) : IsResource(d, c) \/ d.what = "event"
    BY ONLY <1>4, <1>5, p.label # "configmap" DEF IsEvent
<1>8. label \in {"pod", "configmap"} /\ p.label \in {"service", "pod"}
    OBVIOUS
<1>9. names \in Seq(Range(names)) /\ names # <<>> /\ IsInjective(names)
    <2>1. CASE names = PodNames(b.items) /\ names # <<>>
        BY ONLY <1>6, <1>7, <2>1, PodNamesAre
    <2>2. CASE names = SetToSeq(Required(b.items)) /\ Required(b.items) # {}
        <3>1. PICK S : S = Required(b.items)
            OBVIOUS
        <3>2. IsFiniteSet(S)
            BY ONLY <1>6, <1>7, <3>1, RequiredAre
        <3>3. names \in Seq(S) /\ IsInjective(names) /\ Range(names) = S /\ S # {}
            BY ONLY <2>2, <3>1, <3>2, MembersOfSetToSeq
        <3>4. names # <<>>
            BY ONLY <3>3 DEF Range
        <3> QED BY ONLY <3>3, <3>4
    <2> QED BY <2>1, <2>2
<1>10. q.label = label /\ q.names = names /\ q.mode = "get"
    BY ONLY q = Derived(label, names) DEF Derived, NoProvider
<1>11. NamesStand(q, e)
    <2>1. CASE label = "pod" /\ names = PodNames(b.items)
        <3>1. \A n : n \in Range(PodNames(b.items)) <=> \E d : PodIn(d, b.items) /\ d.name = n
            BY ONLY <1>6, <1>7, PodNamesAre
        <3>2. \A n : n \in Range(PodNames(items)) <=> \E d : PodIn(d, items) /\ d.name = n
            BY ONLY <1>4, <1>7, PodNamesAre
        <3>3. Range(PodNames(items)) = Range(PodNames(b.items))
            BY ONLY <1>4, <3>1, <3>2
        <3> QED BY ONLY <1>3, <1>10, <2>1, <3>3 DEF NamesStand
    <2>2. CASE label = "configmap" /\ names = SetToSeq(Required(b.items))
        <3>1. IsFiniteSet(Required(b.items)) /\
              \A n : n \in Required(b.items) <=> \E d : PodIn(d, b.items) /\ n \in d.facts.configmaps
            BY ONLY <1>6, <1>7, RequiredAre
        <3>2. \A n : n \in Required(items) <=> \E d : PodIn(d, items) /\ n \in d.facts.configmaps
            BY ONLY <1>4, <1>7, RequiredAre
        <3>3. Required(items) = Required(b.items)
            BY ONLY <1>4, <3>1, <3>2
        <3>4. Range(names) = Required(b.items)
            BY ONLY <2>2, <3>1, MembersOfSetToSeq
        <3> QED BY ONLY <1>3, <1>10, <2>2, <3>3, <3>4 DEF NamesStand
    <2> QED BY <2>1, <2>2
<1>12. ProviderStands(q, e, c)
    <2>1. label \in {"service", "pod", "configmap"}
        BY ONLY <1>8
    <2> QED BY ONLY <1>9, <1>11, <2>1, DerivedStands, q = Derived(label, names)
<1>13. BatchStands(e, q, c)
    <2>1. e = [items |-> e.items, partial |-> e.partial, outcome |-> e.outcome]
        BY <1>3
    <2>2. \A d \in Range(items) :
            \/ IsResource(d, c)
            \/ IsEvent(d, c) /\ q.label # "service" /\ (q.label = "pod" => d.kind = "Service")
        <3> SUFFICES ASSUME NEW d \in Range(items), ~IsResource(d, c)
                     PROVE  IsEvent(d, c) /\ q.label # "service" /\ (q.label = "pod" => d.kind = "Service")
            OBVIOUS
        <3>1. IsEvent(d, c)
            BY <1>4, <1>5, <1>8
        <3>2. label = "pod" => p.label = "service"
            OBVIOUS
        <3>3. label = "pod" => d.kind = "Service"
            BY <1>4, <1>5, <1>6, <3>2 DEF KindReadBy
        <3> QED BY <1>8, <1>10, <3>1, <3>3
    <2>3. \A o \in RootedIn(c.throughout) : \E d \in Range(items) : IsState(d, o)
        BY ONLY <1>4, <1>6
    <2>4. ~partial => EventsTold("Service", e, c) /\ (label = "configmap" => EventsTold("Pod", e, c))
        <3> SUFFICES ASSUME ~partial
                     PROVE  EventsTold("Service", e, c) /\ (label = "configmap" => EventsTold("Pod", e, c))
            OBVIOUS
        <3>1. e.items = b.items \o Kept(p)
            BY <1>1, <1>2, <1>3
        <3>2. ~b.partial /\ ~p.partial /\ ~Rejected(p)
            OBVIOUS
        <3>3. /\ EventsTold("Service", e, c)
              /\ (p.label = "service" /\ PodNames(b.items) # <<>>) \/ EventsTold("Pod", e, c)
            BY ONLY <3>1, <3>2, JoinedTell, KubernetesInv, c = cluster, b = batch, p = provider, Reads(p),
                    p.mode = "finish"
        <3> QED BY <3>3
    <2> QED BY ONLY <1>3, <1>4, <1>8, <1>10, <2>1, <2>2, <2>3, <2>4, partial \in BOOLEAN DEF BatchStands, Reads
<1>14. InventoryStands(listed, q, e, c)
    <2>1. q.label # "inventory"
        BY <1>8, <1>10
    <2> QED BY ONLY <1>6, <2>1, InventoryIsDone
<1>15. ListingStands(listing, q, c)
    <2>1. listing = NewListing
        BY <1>6 DEF ListingStands
    <2> QED BY <2>1, NothingReadStands
<1>16. e.outcome # "batch" /\ q.label # "none"
    BY <1>3, <1>8, <1>10
<1>17. batch' = e /\ provider' = q /\ cluster' = c /\ listing' = listing /\ listed' = listed
    OBVIOUS
<1> QED BY ONLY <1>6, <1>12, <1>13, <1>14, <1>15, <1>16, <1>17 DEF KubernetesInv, Batched

\* Without a provider left the batch is reported: all there was, unless it says so, and no more.
LEMMA LastProviderKeepsIt ==
    ASSUME KubernetesInv, NEW c, c = cluster, NEW b, b = batch, NEW p, p = provider, Reads(p), p.mode = "finish",
           NEW partial \in BOOLEAN, ~partial => ~b.partial /\ ~p.partial /\ ~Rejected(p),
           ~partial => p.label = "configmap" \/ Required(b.items) = {},
           ~(p.label = "service" /\ PodNames(b.items) # <<>>),
           NEW e, e = [items |-> b.items \o Kept(p), partial |-> partial, outcome |-> b.outcome],
           batch' = Finished(e), provider' = NoProvider, UNCHANGED <<cluster, listing, listed>>
    PROVE  KubernetesInv'
<1>1. PICK kept : kept = Kept(p)
    OBVIOUS
<1>2. PICK items : items = b.items \o kept
    OBVIOUS
<1>3. e.items = items /\ e.partial = partial
    BY <1>1, <1>2
<1>4. /\ items \in Seq(Range(items)) /\ Distinct(items) /\ Range(items) = Range(b.items) \cup Range(kept)
      /\ \A d \in Range(b.items) : IsResource(d, c) \/ IsEvent(d, c)
    BY ONLY <1>1, <1>2, JoinedStands, KubernetesInv, c = cluster, b = batch, p = provider, Reads(p), p.mode = "finish"
<1>5. /\ p.label = "configmap" =>
            /\ \A x \in Range(kept) :
                /\ x.kind = "ConfigMap" /\ x.sources = Sources(b.items, x.name) /\ ReadStands(x, c)
                /\ \E k \in DOMAIN p.names : x.name = p.names[k]
            /\ ~Rejected(p) => \A d \in Range(p.drafts) : \E x \in Range(kept) : x.name = d.name
      /\ p.label # "configmap" => \A x \in Range(kept) : IsEvent(x, c) /\ x.kind = KindReadBy(p.label)
    BY ONLY <1>1, KeptStands, KubernetesInv, c = cluster, b = batch, p = provider, Reads(p), p.mode = "finish"
<1>6. /\ ClusterStands(c) /\ ListingStands(listing, p, c) /\ InventoryStands(listed, p, b, c)
      /\ b.items \in Seq(Range(b.items)) /\ Distinct(b.items)
      /\ \A o \in RootedIn(c.throughout) : \E d \in Range(b.items) : IsState(d, o)
      /\ p.label \in {"service", "pod", "configmap"}
      /\ \A k \in DOMAIN p.names : NameStands(p, k, c)
      /\ p.label = "configmap" => Range(p.names) = Required(b.items)
    BY DEF KubernetesInv, BatchStands, ProviderStands, NamesStand, Reads
<1>7. \A d \in Range(b.items) : IsResource(d, c) \/ d.what = "event"
    BY ONLY <1>4 DEF IsEvent
<1>8. /\ \A n : n \in Required(b.items) <=> \E d : PodIn(d, b.items) /\ n \in d.facts.configmaps
      /\ \A n, u : u \in Sources(b.items, n) <=> \E d : PodIn(d, b.items) /\ n \in d.facts.configmaps /\ u = d.uid
    BY ONLY <1>6, <1>7, RequiredAre
<1>9. PICK n : n = Min({MaxItems, Len(items)})
    OBVIOUS
<1>10. PICK cut : cut = SubSeq(items, 1, n)
    OBVIOUS
<1>11. PICK less \in BOOLEAN : less <=> partial \/ Len(items) > MaxItems
    OBVIOUS
<1>12. PICK f : f = batch'
    OBVIOUS
<1>13. f = [items |-> cut, partial |-> less, outcome |-> "batch"]
    <2>1. less = (partial \/ Len(items) > MaxItems)
        BY <1>11
    <2> QED BY <1>3, <1>9, <1>10, <1>12, <2>1 DEF Finished
<1>14. f.items = cut /\ f.partial = less /\ f.outcome = "batch"
    BY ONLY <1>13
<1>15. n \in 0..Len(items) /\ n <= MaxItems /\ (~(Len(items) > MaxItems) => n = Len(items))
    <2>1. Len(items) \in Nat
        BY ONLY <1>4
    <2>2. MaxItems \in Nat
        BY LimitsAreUsable
    <2>3. n = IF MaxItems <= Len(items) THEN MaxItems ELSE Len(items)
        BY ONLY <1>9, <2>1, <2>2, LesserOfTwo
    <2> QED BY ONLY <2>1, <2>2, <2>3
<1>16. /\ cut \in Seq(Range(cut)) /\ Range(cut) \subseteq Range(items)
       /\ n = Len(items) => cut = items
       /\ \A k \in DOMAIN cut : k \in DOMAIN items /\ cut[k] = items[k]
    BY ONLY <1>4, <1>10, <1>15, MembersOfPrefix
<1>17. Distinct(cut) /\ Len(cut) <= MaxItems
    <2>1. Distinct(cut)
        BY ONLY <1>4, <1>16 DEF Distinct
    <2>2. Len(cut) = n
        BY ONLY <1>4, <1>10, <1>15
    <2> QED BY ONLY <1>15, <2>1, <2>2
<1>18. ~less => cut = items /\ ~partial
    BY ONLY <1>11, <1>15, <1>16
<1>19. ASSUME ~less, NEW o \in RootedIn(c.throughout)
       PROVE  \E d \in Range(cut) : d.what = "state" /\ d.uid = o.uid
    BY ONLY <1>4, <1>6, <1>18, <1>19 DEF IsState
<1>20. ASSUME ~less
       PROVE  EventsTold("Service", f, c) /\ EventsTold("Pod", f, c)
    <2>1. f.items = b.items \o Kept(p)
        BY <1>1, <1>2, <1>14, <1>18, <1>20
    <2>2. ~b.partial /\ ~p.partial /\ ~Rejected(p)
        BY <1>18, <1>20
    <2> QED BY <2>1, <2>2, JoinedTell
<1>21. ASSUME ~less, NEW o \in RootedIn(c.throughout), o.kind = "Pod", NEW name \in o.requires
       PROVE  \E d \in Range(cut) : d.kind = "ConfigMap" /\ d.name = name /\ o.uid \in d.sources
    <2>1. PICK d \in Range(b.items) : IsState(d, o)
        BY ONLY <1>6, <1>21
    <2>2. PodIn(d, b.items) /\ name \in d.facts.configmaps /\ d.uid = o.uid
        BY ONLY <1>21, <2>1 DEF IsState, PodIn
    <2>3. name \in Required(b.items) /\ o.uid \in Sources(b.items, name)
        BY ONLY <1>8, <2>2
    <2>4. ~partial /\ ~p.partial /\ ~Rejected(p)
        BY <1>18, <1>21
    <2>5. p.label = "configmap"
        BY <2>3, <2>4
    <2>6. PICK k \in DOMAIN p.names : p.names[k] = name
        BY ONLY <1>6, <2>3, <2>5 DEF Range
    <2>7. Got(p, k)
        BY DEF Got
    <2>8. \E x \in Range(p.drafts) : x.name = name
        BY ONLY <1>6, <2>4, <2>6, <2>7 DEF NameStands
    <2>9. PICK x \in Range(kept) : x.name = name
        BY ONLY <1>5, <2>4, <2>5, <2>8
    <2>10. x.kind = "ConfigMap" /\ o.uid \in x.sources
        BY ONLY <1>5, <2>3, <2>5, <2>9
    <2>11. x \in Range(cut)
        BY ONLY <1>4, <1>18, <1>21, <2>9
    <2> QED BY ONLY <2>9, <2>10, <2>11
<1>22. ASSUME NEW d \in Range(cut)
       PROVE  \/ d.what = "state" /\ d.kind # "ConfigMap" /\ \E o \in RootedIn(c.ever) : o.uid = d.uid
              \/ /\ d.kind = "ConfigMap"
                 /\ \E o \in RootedIn(c.ever) : o.kind = "Pod" /\ d.name \in o.requires /\ o.uid \in d.sources
                 /\ IF d.facts.found THEN \E o \in c.ever \cap Objects : o.uid = d.uid
                    ELSE ~\E o \in c.throughout \cap Objects : o.kind = "ConfigMap" /\ o.name = d.name
              \/ IsEvent(d, c)
    <2>1. d \in Range(b.items) \/ d \in Range(kept)
        BY ONLY <1>4, <1>16, <1>22
    <2>2. CASE IsResource(d, c)
        <3>1. PICK o \in RootedIn(c.ever) : IsState(d, o)
            BY ONLY <2>2 DEF IsResource
        <3>2. o.kind # "ConfigMap"
            BY ONLY <3>1, RootedKinds
        <3> QED BY ONLY <3>1, <3>2 DEF IsState
    <2>3. CASE IsEvent(d, c)
        BY ONLY <2>3
    <2>4. CASE d \in Range(kept) /\ p.label = "configmap"
        <3>1. /\ d.kind = "ConfigMap" /\ d.sources = Sources(b.items, d.name) /\ ReadStands(d, c)
              /\ \E k \in DOMAIN p.names : d.name = p.names[k]
            BY ONLY <1>5, <2>4
        <3>2. d.name \in Required(b.items)
            BY ONLY <1>6, <2>4, <3>1 DEF Range
        <3>3. PICK x : PodIn(x, b.items) /\ d.name \in x.facts.configmaps
            BY ONLY <1>8, <3>2
        <3>4. x.uid \in d.sources
            BY ONLY <1>8, <3>1, <3>3
        <3>5. IsResource(x, c)
            BY ONLY <1>7, <3>3 DEF PodIn
        <3>6. PICK o \in RootedIn(c.ever) : IsState(x, o)
            BY ONLY <3>5 DEF IsResource
        <3>7. o.kind = "Pod" /\ d.name \in o.requires /\ o.uid \in d.sources
            BY ONLY <3>3, <3>4, <3>6 DEF IsState, PodIn
        <3>8. IF d.facts.found THEN \E q \in c.ever \cap Objects : q.uid = d.uid
              ELSE ~\E q \in c.throughout \cap Objects : q.kind = "ConfigMap" /\ q.name = d.name
            BY ONLY <3>1 DEF ReadStands, KindOf
        <3> QED BY ONLY <3>1, <3>6, <3>7, <3>8
    <2> QED BY ONLY <1>4, <1>5, <2>1, <2>2, <2>3, <2>4
<1>23. cluster' = c /\ listing' = listing /\ listed' = listed /\ provider' = NoProvider /\ batch' = f
    BY <1>12
<1>24. NothingIsMissingSilently'
    <2>1. \A x \in c.throughout \cap Occurrences :
            ~less /\ x.inWindow /\ (\E o \in RootedIn(c.throughout) : o.kind \in {"Service", "Pod"} /\ o.uid = x.about.uid) =>
                \E d \in Range(cut) : /\ d.what = "event" /\ d.uid = x.about.uid
                                      /\ d.reason = x.reason /\ d.count >= x.count
        BY ONLY <1>14, <1>20 DEF EventsTold, Tells
    <2> QED BY ONLY <1>14, <1>19, <1>21, <1>23, <2>1 DEF NothingIsMissingSilently, Batched, Items
<1>25. OnlyWhatWasThere'
    <2>1. \A j, k \in DOMAIN cut : j # k => Differ(cut[j], cut[k])
        BY ONLY <1>17 DEF Distinct
    <2>2. \A j, k \in DOMAIN cut :
            j # k /\ cut[j].what = cut[k].what /\ cut[j].kind = cut[k].kind /\ cut[j].name = cut[k].name =>
                cut[j].uid # cut[k].uid \/ (cut[j].what = "event" /\ cut[j].reason # cut[k].reason)
        BY ONLY <2>1 DEF Differ
    <2>3. ASSUME NEW d, IsEvent(d, c)
          PROVE  /\ d.what = "event"
                 /\ LET of == {x \in c.ever \cap Occurrences : x.about.uid = d.uid /\ x.reason = d.reason /\ x.inWindow}
                    IN  d.series <= Cardinality(of) /\ d.count <= Cardinality(Occasions(of))
        BY ONLY <2>3 DEF IsEvent, Happened
    <2>4. \A d \in Range(cut) :
            \/ d.what = "state" /\ d.kind # "ConfigMap" /\ \E o \in RootedIn(c.ever) : o.uid = d.uid
            \/ /\ d.kind = "ConfigMap"
               /\ \E o \in RootedIn(c.ever) : o.kind = "Pod" /\ d.name \in o.requires /\ o.uid \in d.sources
               /\ IF d.facts.found THEN \E o \in c.ever \cap Objects : o.uid = d.uid
                  ELSE ~\E o \in c.throughout \cap Objects : o.kind = "ConfigMap" /\ o.name = d.name
            \/ /\ d.what = "event"
               /\ LET of == {x \in c.ever \cap Occurrences : x.about.uid = d.uid /\ x.reason = d.reason /\ x.inWindow}
                  IN  d.series <= Cardinality(of) /\ d.count <= Cardinality(Occasions(of))
        BY ONLY <1>22, <2>3
    <2> QED BY ONLY <1>14, <1>17, <1>23, <2>2, <2>4 DEF OnlyWhatWasThere, Batched, Items
<1>26. PICK q : q = NoProvider
    OBVIOUS
<1>27. q.label = "none" /\ q.mode = "none" /\ ProviderStands(q, f, c)
    BY <1>26 DEF NoProvider, ProviderStands, Reads
<1>28. BatchStands(f, q, c)
    BY ONLY <1>13, <1>14, <1>16, <1>17, <1>27, less \in BOOLEAN DEF BatchStands, Reads
<1>29. InventoryStands(listed, q, f, c)
    <2>1. q.label # "inventory"
        BY ONLY <1>27
    <2> QED BY ONLY <1>6, <2>1, InventoryIsDone
<1>30. ListingStands(listing, q, c)
    <2>1. listing = NewListing
        BY <1>6 DEF ListingStands
    <2> QED BY <2>1, NothingReadStands
<1>31. f.outcome # "collecting" /\ provider' = q
    BY ONLY <1>14, <1>23, <1>26
<1> QED BY ONLY <1>6, <1>23, <1>24, <1>25, <1>27, <1>28, <1>29, <1>30, <1>31 DEF KubernetesInv, Batched

\* FinishProvider keeps the invariant, whichever provider comes next.
LEMMA FinishProviderKeepsIt ==
    ASSUME KubernetesInv, FinishProvider
    PROVE  KubernetesInv'
<1>1. PICK c : c = cluster
    OBVIOUS
<1>2. PICK b : b = batch
    OBVIOUS
<1>3. PICK p : p = provider
    OBVIOUS
<1>4. b.outcome = "collecting" /\ p.mode = "finish" /\ UNCHANGED <<cluster, listing, listed>>
    BY <1>2, <1>3 DEF FinishProvider, Reading
<1>5. /\ b = [items |-> b.items, partial |-> b.partial, outcome |-> b.outcome] /\ b.partial \in BOOLEAN
      /\ p.label \in {"inventory", "service", "pod", "configmap", "none"}
      /\ p.label = "none" => b.outcome # "collecting"
      /\ p.label = "inventory" => p.mode \in {"none", "assemble"}
      /\ Reads(p) => p.partial \in BOOLEAN
    BY <1>2, <1>3 DEF KubernetesInv, BatchStands, InventoryStands, ProviderStands
<1>6. Reads(p) /\ p.label \in {"service", "pod", "configmap"} /\ p.partial \in BOOLEAN
    BY ONLY <1>4, <1>5 DEF Reads
<1>7. PICK required : required = Required(b.items)
    OBVIOUS
<1>8. PICK podNames : podNames = PodNames(b.items)
    OBVIOUS
<1>9. PICK tooMany \in BOOLEAN : tooMany <=> Cardinality(required) > MaxConfigMaps
    OBVIOUS
<1>10. PICK partial \in BOOLEAN : partial <=> b.partial \/ p.partial \/ Rejected(p)
    OBVIOUS
<1>11. PICK items : items = b.items \o Kept(p)
    OBVIOUS
<1>12. PICK e : e = [items |-> items, partial |-> partial, outcome |-> b.outcome]
    OBVIOUS
<1>13. After(e)
    <2>1. partial = (b.partial \/ p.partial \/ Rejected(p))
        BY <1>10
    <2>2. e = [b EXCEPT !.items = @ \o Kept(p), !.partial = @ \/ p.partial \/ Rejected(p)]
        <3>1. PICK g : g = [b EXCEPT !.items = items, !.partial = partial]
            OBVIOUS
        <3>2. [b EXCEPT !.items = @ \o Kept(p), !.partial = @ \/ p.partial \/ Rejected(p)]
                = [b EXCEPT !.items = b.items \o Kept(p), !.partial = (b.partial \/ p.partial \/ Rejected(p))]
            OBVIOUS
        <3>3. g = [items |-> items, partial |-> partial, outcome |-> b.outcome]
            BY ONLY <1>5, <3>1
        <3> QED BY ONLY <1>11, <1>12, <2>1, <3>1, <3>2, <3>3
    <2>3. After([b EXCEPT !.items = @ \o Kept(p), !.partial = @ \/ p.partial \/ Rejected(p)])
        BY <1>2, <1>3 DEF FinishProvider
    <2> QED BY ONLY <2>2, <2>3
<1>14. PICK more \in BOOLEAN : more <=> partial \/ (p.label # "configmap" /\ tooMany)
    OBVIOUS
<1>15. PICK f : f = [items |-> items, partial |-> more, outcome |-> b.outcome]
    OBVIOUS
<1>16. \/ provider' = Derived("pod", podNames) /\ batch' = e /\ p.label = "service" /\ podNames # <<>>
       \/ /\ provider' = Derived("configmap", SetToSeq(required)) /\ batch' = e /\ required # {}
          /\ p.label = "pod" \/ (p.label = "service" /\ podNames = <<>>)
       \/ /\ provider' = NoProvider /\ batch' = Finished(f)
          /\ ~(p.label = "service" /\ podNames # <<>>)
          /\ p.label # "configmap" => required = {} \/ tooMany
    <2>1. more = (partial \/ (p.label # "configmap" /\ tooMany))
        BY <1>14
    <2>2. f = [e EXCEPT !.partial = @ \/ (p.label # "configmap" /\ tooMany)]
        BY ONLY <1>12, <1>15, <2>1
    <2>3. tooMany = (Cardinality(required) > MaxConfigMaps)
        BY <1>9
    <2> QED BY <1>2, <1>3, <1>6, <1>7, <1>8, <1>13, <2>2, <2>3 DEF After
<1>17. KubernetesInv
    OBVIOUS
<1>18. e = [items |-> b.items \o Kept(p), partial |-> partial, outcome |-> b.outcome]
    BY ONLY <1>11, <1>12
<1>19. ~partial => ~b.partial /\ ~p.partial /\ ~Rejected(p)
    BY ONLY <1>10
<1>20. CASE provider' = Derived("pod", podNames) /\ batch' = e /\ p.label = "service" /\ podNames # <<>>
    <2>1. PICK q : q = Derived("pod", podNames)
        OBVIOUS
    <2>2. batch' = e /\ provider' = q
        BY ONLY <1>20, <2>1
    <2>3. "pod" = "pod" /\ podNames = PodNames(b.items) /\ podNames # <<>> /\ p.label = "service"
        BY ONLY <1>8, <1>20
    <2> QED BY ONLY <1>1, <1>2, <1>3, <1>4, <1>6, <1>17, <1>18, <1>19, <2>1, <2>2, <2>3, NextProviderKeepsIt
<1>21. CASE /\ provider' = Derived("configmap", SetToSeq(required)) /\ batch' = e /\ required # {}
            /\ p.label = "pod" \/ (p.label = "service" /\ podNames = <<>>)
    <2>1. PICK q : q = Derived("configmap", SetToSeq(required))
        OBVIOUS
    <2>2. batch' = e /\ provider' = q
        BY ONLY <1>21, <2>1
    <2>3. PICK names : names = SetToSeq(required)
        OBVIOUS
    <2>4. /\ names = SetToSeq(Required(b.items)) /\ Required(b.items) # {}
          /\ p.label = "pod" \/ (p.label = "service" /\ PodNames(b.items) = <<>>)
        BY ONLY <1>7, <1>8, <1>21, <2>3
    <2>5. q = Derived("configmap", names)
        BY ONLY <2>1, <2>3
    <2> QED BY ONLY <1>1, <1>2, <1>3, <1>4, <1>6, <1>17, <1>18, <1>19, <2>2, <2>4, <2>5, NextProviderKeepsIt
<1>22. CASE /\ provider' = NoProvider /\ batch' = Finished(f)
            /\ ~(p.label = "service" /\ podNames # <<>>)
            /\ p.label # "configmap" => required = {} \/ tooMany
    <2>1. f = [items |-> b.items \o Kept(p), partial |-> more, outcome |-> b.outcome]
        BY ONLY <1>11, <1>15
    <2>2. ~more => ~b.partial /\ ~p.partial /\ ~Rejected(p)
        BY ONLY <1>14, <1>19
    <2>3. ~more => p.label = "configmap" \/ Required(b.items) = {}
        BY ONLY <1>7, <1>14, <1>22
    <2>4. ~(p.label = "service" /\ PodNames(b.items) # <<>>)
        BY ONLY <1>8, <1>22
    <2>5. provider' = NoProvider /\ batch' = Finished(f)
        BY ONLY <1>22
    <2> QED BY ONLY <1>1, <1>2, <1>3, <1>4, <1>6, <1>17, <2>1, <2>2, <2>3, <2>4, <2>5, LastProviderKeepsIt
<1> QED BY ONLY <1>16, <1>20, <1>21, <1>22

\* KubernetesInit has read nothing yet.
LEMMA KubernetesStarts ==
    ASSUME KubernetesInit
    PROVE  KubernetesInv
<1>1. PICK c : c = cluster
    OBVIOUS
<1>2. PICK b : b = batch
    OBVIOUS
<1>3. PICK p : p = provider
    OBVIOUS
<1>4. PICK there : there \subseteq Objects \cup Occurrences /\ c = [now |-> there, throughout |-> there, ever |-> there]
    <2>1. PICK present \in SUBSET Fleeting :
            LET there == ((Objects \cup Occurrences) \ Fleeting) \cup present
            IN  cluster = [now |-> there, throughout |-> there, ever |-> there]
        BY DEF KubernetesInit
    <2> QED BY <1>1, <2>1, ObjectsAreIdentified
<1>5. ClusterStands(c)
    BY ONLY <1>4 DEF ClusterStands
<1>6. PICK nothing : nothing = <<>>
    OBVIOUS
<1>7. PICK no : no = FALSE
    OBVIOUS
<1>8. p = [label |-> "inventory", names |-> nothing, at |-> 1, mode |-> "none", uids |-> nothing,
           drafts |-> nothing, partial |-> no, errors |-> no]
    BY <1>3, <1>6, <1>7 DEF KubernetesInit, NoProvider
<1>9. p.label = "inventory" /\ p.at = 1 /\ p.mode = "none"
    BY ONLY <1>8
<1>10. b = [items |-> nothing, partial |-> no, outcome |-> "collecting"]
    BY <1>2, <1>6, <1>7 DEF KubernetesInit
<1>11. b.items = nothing /\ b.partial = no /\ b.outcome = "collecting"
    BY ONLY <1>10
<1>12. nothing \in Seq(Range(nothing)) /\ Distinct(nothing)
    <2>1. nothing \in Seq({}) /\ DOMAIN nothing = {}
        BY ONLY <1>6
    <2>2. nothing \in Seq(Range(nothing))
        BY ONLY <2>1, SequenceOfMembers
    <2> QED BY ONLY <2>1, <2>2 DEF Distinct
<1>13. ListingStands(listing, p, c)
    <2>1. listing = NewListing
        BY DEF KubernetesInit
    <2> QED BY <2>1, NothingReadStands
<1>14. InventoryStands(listed, p, b, c)
    <2>1. PICK lists : lists = listed
        OBVIOUS
    <2>2. DOMAIN lists = Range(Kinds) /\ \A kind \in Range(Kinds) : lists[kind] = nothing
        BY <1>6, <2>1 DEF KubernetesInit
    <2>3. p.at \in DOMAIN Kinds /\ \A k \in DOMAIN Kinds : ~(k < p.at)
        BY ONLY <1>9, KindsAre
    <2>4. \A kind \in Range(Kinds) : lists[kind] \in Seq(Range(lists[kind]))
        BY ONLY <1>12, <2>2
    <2>5. InventoryStands(lists, p, b, c)
        BY ONLY <1>6, <1>7, <1>9, <1>11, <2>2, <2>3, <2>4 DEF InventoryStands
    <2> QED BY ONLY <2>1, <2>5
<1>15. BatchStands(b, p, c)
    BY ONLY <1>7, <1>9, <1>10, <1>11, <1>12 DEF BatchStands, Reads
<1>16. ProviderStands(p, b, c)
    BY ONLY <1>8, <1>9 DEF ProviderStands, Reads
<1>17. p.label # "none" /\ b.outcome # "batch"
    BY ONLY <1>9, <1>11
<1> QED BY ONLY <1>1, <1>2, <1>3, <1>5, <1>13, <1>14, <1>15, <1>16, <1>17 DEF KubernetesInv, Batched

(* Every listing, the inventory, the batch and every provider stand, whatever  *)
(* the cluster does and whichever request fails: the invariant the other two   *)
(* follow from.                                                            *)
THEOREM KubernetesCollectionIsInvariant == KubernetesSpec => []KubernetesInv
<1>1. KubernetesInit => KubernetesInv
    BY KubernetesStarts
<1>2. KubernetesInv /\ [KubernetesNext]_kubernetesVars => KubernetesInv'
    <2> SUFFICES ASSUME KubernetesInv, [KubernetesNext]_kubernetesVars
                 PROVE  KubernetesInv'
        OBVIOUS
    <2>1. CASE ClusterChanges
        BY ONLY <2>1, ClusterChangesKeepsIt, KubernetesInv
    <2>2. CASE ListInventory
        BY ONLY <2>2, ListInventoryKeepsIt, KubernetesInv
    <2>3. CASE Assemble
        BY ONLY <2>3, AssembleKeepsIt, KubernetesInv
    <2>4. CASE GetResource
        BY ONLY <2>4, GetResourceKeepsIt, KubernetesInv
    <2>5. CASE ListEvents
        BY ONLY <2>5, ListEventsKeepsIt, KubernetesInv
    <2>6. CASE ReportEvents
        BY ONLY <2>6, ReportEventsKeepsIt, KubernetesInv
    <2>7. CASE FinishProvider
        BY ONLY <2>7, FinishProviderKeepsIt, KubernetesInv
    <2>8. CASE UNCHANGED kubernetesVars
        BY ONLY <2>8, KubernetesInv
           DEF kubernetesVars, KubernetesInv, Batched, Items, NothingIsMissingSilently, OnlyWhatWasThere
    <2> QED BY <2>1, <2>2, <2>3, <2>4, <2>5, <2>6, <2>7, <2>8 DEF KubernetesNext
<1> QED BY <1>1, <1>2, PTL DEF KubernetesSpec

(* A batch that is not PARTIAL lacks no object of the roots that was there     *)
(* throughout, no Event of the window about their Services and Pods and no    *)
(* ConfigMap their Pods require, whatever the sizes of the pages, the limits,  *)
(* the cluster and the changes between the requests (NothingIsMissingSilently). *)
THEOREM NothingGoesMissingSilently == KubernetesSpec => []NothingIsMissingSilently
<1>1. KubernetesInv => NothingIsMissingSilently
    BY DEF KubernetesInv, NothingIsMissingSilently
<1> QED BY <1>1, KubernetesCollectionIsInvariant, PTL

(* Nothing is in a batch that was never there and of the roots, nothing twice, *)
(* and no count exceeds what occurred (OnlyWhatWasThere).                      *)
THEOREM NothingIsMadeUp == KubernetesSpec => []OnlyWhatWasThere
<1>1. KubernetesInv => OnlyWhatWasThere
    BY DEF KubernetesInv, OnlyWhatWasThere
<1> QED BY <1>1, KubernetesCollectionIsInvariant, PTL

-----------------------------------------------------------------------------
(* The six collectors of TelemetryCollection: what an attempt remembers        *)

AttemptFields == {"provider", "at", "read", "drafts", "partial", "outcome"}

Projected == \A e \in attempt.drafts : Projectable(e)

MetricsStand == MetricsHold(source) /\ attempt.at \in DOMAIN Metrics

\* The flows of the current Service are from or to it, within the window.
FlowsStand ==
    /\ RelayHolds(source) /\ attempt.at \in DOMAIN Services
    /\ DOMAIN Seen = {"flows", "truncated", "gaps", "asked", "answered"}
    /\ Seen.asked \in {0, 1} /\ Seen.flows \subseteq Flows
    /\ \A f \in Seen.flows : Within(f.at) /\ (f.from \in Rooted[Root] \/ f.to \in Rooted[Root])
    /\ Seen.truncated \in BOOLEAN /\ (Seen.truncated => Seen.flows # {})

KillsStand == LokiHolds(source) /\ \A p \in Listed.found : p.uid # Unidentified

ListFields == {"sets", "open", "rest", "restarted", "listed", "truncated"}

\* What was listed and what is still to come are apart, and a full list is not read on.
ListStands(list) ==
    /\ DOMAIN list = ListFields
    /\ list.sets \in Seq(Range(list.sets)) /\ list.rest \in Seq(Range(list.rest))
    /\ SetsAreKept(Range(list.sets) \cup Range(list.rest))
    /\ (~list.listed => Len(list.sets) < MaxReplicaSets) /\ (~list.open => list.sets = <<>>)

\* One draft for a revision of a Deployment that was read, from one snapshot of the ReplicaSets.
HistoryStands ==
    /\ ControllerHolds(source) /\ attempt.at \in DOMAIN Deployments
    /\ ListStands(List) /\ IsFiniteSet(attempt.drafts)
    /\ \A d \in attempt.drafts : d.facts.revision \in Nat /\ \E k \in 1..(attempt.at - 1) : d.subject.name = Deployments[k]
    /\ \A d, e \in attempt.drafts : d.subject.name = e.subject.name /\ d.facts.revision = e.facts.revision => d = e

AttemptStands ==
    CASE attempt.provider \in {"service-metrics", "workload-metrics"} -> MetricsStand
      [] attempt.provider = "api-features" -> attempt.drafts = {}
      [] attempt.provider = "network-flows" -> FlowsStand
      [] attempt.provider = "kernel-log" -> KillsStand
      [] attempt.provider = "deployments" -> HistoryStands

TelemetryInv ==
    /\ DOMAIN attempt = AttemptFields /\ attempt.provider \in Collectors
    /\ Projected
    /\ attempt.outcome = "collecting" => AttemptStands

-----------------------------------------------------------------------------
(* Which Projector owns an item                                            *)

LEMMA OriginsDiffer ==
    /\ MetricOrigin # FeatureOrigin /\ MetricOrigin # FlowOrigin /\ MetricOrigin # KillOrigin
    /\ MetricOrigin # ChangeOrigin /\ FeatureOrigin # FlowOrigin /\ FeatureOrigin # KillOrigin
    /\ FeatureOrigin # ChangeOrigin /\ FlowOrigin # KillOrigin /\ FlowOrigin # ChangeOrigin
    /\ KillOrigin # ChangeOrigin
BY DEF MetricOrigin, FeatureOrigin, FlowOrigin, KillOrigin, ChangeOrigin

LEMMA OwnersAre ==
    ASSUME NEW e
    PROVE  \A p : p \in Owners(e) <=>
               \/ p = "service-metric" /\ SupportsMetric(e, "Service")
               \/ p = "workload-metric" /\ SupportsMetric(e, "Pod") /\ e.subject.uid # Unidentified
               \/ p = "api-edge" /\ SupportsEdge(e)
               \/ p = "network-flow" /\ SupportsFlows(e)
               \/ p = "kernel-oom" /\ SupportsKills(e)
               \/ p = "deployment-change" /\ SupportsChange(e)
BY DEF Owners

\* Supports, of each Projector, names an origin; the two of metrics differ in the kind.
LEMMA OneOwner ==
    ASSUME NEW e
    PROVE  /\ SupportsMetric(e, "Service") => Owners(e) = {"service-metric"}
           /\ SupportsMetric(e, "Pod") /\ e.subject.uid # Unidentified => Owners(e) = {"workload-metric"}
           /\ SupportsEdge(e) => Owners(e) = {"api-edge"}
           /\ SupportsFlows(e) => Owners(e) = {"network-flow"}
           /\ SupportsKills(e) => Owners(e) = {"kernel-oom"}
           /\ SupportsChange(e) => Owners(e) = {"deployment-change"}
<1>1. /\ SupportsMetric(e, "Service") => e.origin = MetricOrigin /\ ~SupportsMetric(e, "Pod")
      /\ SupportsMetric(e, "Pod") => e.origin = MetricOrigin
      /\ SupportsEdge(e) => e.origin = FeatureOrigin
      /\ SupportsFlows(e) => e.origin = FlowOrigin
      /\ SupportsKills(e) => e.origin = KillOrigin
      /\ SupportsChange(e) => e.origin = ChangeOrigin
    BY DEF SupportsMetric, SupportsEdge, SupportsFlows, SupportsKills, SupportsChange
<1>2. SupportsMetric(e, "Service") => Owners(e) = {"service-metric"}
    BY ONLY <1>1, OriginsDiffer, OwnersAre
<1>3. SupportsMetric(e, "Pod") /\ e.subject.uid # Unidentified => Owners(e) = {"workload-metric"}
    BY ONLY <1>1, OriginsDiffer, OwnersAre
<1>4. SupportsEdge(e) => Owners(e) = {"api-edge"}
    BY ONLY <1>1, OriginsDiffer, OwnersAre
<1>5. SupportsFlows(e) => Owners(e) = {"network-flow"}
    BY ONLY <1>1, OriginsDiffer, OwnersAre
<1>6. SupportsKills(e) => Owners(e) = {"kernel-oom"}
    BY ONLY <1>1, OriginsDiffer, OwnersAre
<1>7. SupportsChange(e) => Owners(e) = {"deployment-change"}
    BY ONLY <1>1, OriginsDiffer, OwnersAre
<1> QED BY <1>2, <1>3, <1>4, <1>5, <1>6, <1>7

LEMMA AcceptedIsProjectable ==
    ASSUME NEW e
    PROVE  /\ SupportsMetric(e, "Service") /\ AcceptsMetric(e) => Projectable(e)
           /\ SupportsMetric(e, "Pod") /\ e.subject.uid # Unidentified /\ AcceptsWorkloadMetric(e) => Projectable(e)
           /\ SupportsEdge(e) /\ AcceptsEdge(e) => Projectable(e)
           /\ SupportsFlows(e) /\ AcceptsFlows(e) => Projectable(e)
           /\ SupportsKills(e) /\ AcceptsKills(e) => Projectable(e)
           /\ SupportsChange(e) /\ AcceptsChange(e) => Projectable(e)
<1>1. /\ Accepts("service-metric", e) <=> AcceptsMetric(e)
      /\ Accepts("workload-metric", e) <=> AcceptsWorkloadMetric(e)
      /\ Accepts("api-edge", e) <=> AcceptsEdge(e)
      /\ Accepts("network-flow", e) <=> AcceptsFlows(e)
      /\ Accepts("kernel-oom", e) <=> AcceptsKills(e)
      /\ Accepts("deployment-change", e) <=> AcceptsChange(e)
    BY DEF Accepts
<1>2. \A p : Owners(e) = {p} /\ Accepts(p, e) => Projectable(e)
    BY DEF Projectable
<1>3. SupportsMetric(e, "Service") /\ AcceptsMetric(e) => Projectable(e)
    BY ONLY <1>1, <1>2, OneOwner
<1>4. SupportsMetric(e, "Pod") /\ e.subject.uid # Unidentified /\ AcceptsWorkloadMetric(e) => Projectable(e)
    BY ONLY <1>1, <1>2, OneOwner
<1>5. SupportsEdge(e) /\ AcceptsEdge(e) => Projectable(e)
    BY ONLY <1>1, <1>2, OneOwner
<1>6. SupportsFlows(e) /\ AcceptsFlows(e) => Projectable(e)
    BY ONLY <1>1, <1>2, OneOwner
<1>7. SupportsKills(e) /\ AcceptsKills(e) => Projectable(e)
    BY ONLY <1>1, <1>2, OneOwner
<1>8. SupportsChange(e) /\ AcceptsChange(e) => Projectable(e)
    BY ONLY <1>1, <1>2, OneOwner
<1> QED BY <1>3, <1>4, <1>5, <1>6, <1>7, <1>8

-----------------------------------------------------------------------------
(* How an attempt ends                                                     *)

LEMMA AbandonKeepsIt ==
    ASSUME TelemetryInv, NEW how \in Errors, Abandon(how)
    PROVE  TelemetryInv'
<1>1. /\ DOMAIN attempt' = DOMAIN attempt /\ attempt'.provider = attempt.provider
      /\ attempt'.outcome = how /\ attempt'.drafts = {}
    BY DEF TelemetryInv, AttemptFields, Abandon
<1>2. how # "collecting"
    BY DEF Errors
<1> QED BY <1>1, <1>2 DEF TelemetryInv, Projected

LEMMA FailureKeepsIt ==
    ASSUME TelemetryInv, Fails
    PROVE  TelemetryInv'
BY AbandonKeepsIt DEF Fails

LEMMA DeliveryKeepsIt ==
    ASSUME TelemetryInv, NEW drafts, NEW partial, \A e \in drafts : Projectable(e),
           Deliver(drafts, partial) \/ DeliverWithinBudget(drafts, partial)
    PROVE  TelemetryInv'
<1>1. CASE Deliver(drafts, partial)
    <2>1. /\ DOMAIN attempt' = DOMAIN attempt /\ attempt'.provider = attempt.provider
          /\ attempt'.outcome = "batch" /\ attempt'.drafts = drafts
        BY <1>1 DEF TelemetryInv, AttemptFields, Deliver
    <2> QED BY <2>1 DEF TelemetryInv, Projected
<1>2. CASE Abandon("permanent")
    BY <1>2, AbandonKeepsIt DEF Errors
<1> QED BY <1>1, <1>2 DEF DeliverWithinBudget

-----------------------------------------------------------------------------
(* The samples of an answer                                                *)

LEMMA ImageIsFinite ==
    ASSUME NEW f, IsFiniteSet(DOMAIN f)
    PROVE  IsFiniteSet(Range(f))
<1> DEFINE g == [x \in DOMAIN f |-> f[x]]
<1>1. g \in [DOMAIN f -> Range(f)] /\ \A y \in Range(f) : \E x \in DOMAIN f : g[x] = y
    BY DEF Range
<1> HIDE DEF g
<1>2. g \in Surjection(DOMAIN f, Range(f))
    BY ONLY <1>1 DEF Surjection
<1> QED BY <1>2, FS_Surjection

LEMMA PlacesOfSamples ==
    ASSUME NEW answer, answer \in Seq(Range(answer)), \A series \in Range(answer) : series.samples \in Seq(Int \X Int)
    PROVE  LET places == UNION {{k} \X DOMAIN answer[k].samples : k \in DOMAIN answer}
           IN  /\ IsFiniteSet(places) /\ places \subseteq Nat \X Nat
               /\ \A p \in places : p[1] \in DOMAIN answer
<1> DEFINE places == UNION {{k} \X DOMAIN answer[k].samples : k \in DOMAIN answer}
           Of == [k \in DOMAIN answer |-> {k} \X DOMAIN answer[k].samples]
<1>1. DOMAIN answer = 1..Len(answer) /\ Len(answer) \in Nat
    OBVIOUS
<1>2. ASSUME NEW k \in DOMAIN answer
      PROVE  /\ IsFiniteSet({k} \X DOMAIN answer[k].samples)
             /\ {k} \X DOMAIN answer[k].samples \subseteq Nat \X Nat
    <2>1. answer[k].samples \in Seq(Int \X Int)
        BY DEF Range
    <2>2. PICK n \in Nat : DOMAIN answer[k].samples = 1..n
        BY ONLY <2>1
    <2>3. IsFiniteSet(1..n) /\ IsFiniteSet({k})
        <3>1. 1 \in Int /\ n \in Int
            OBVIOUS
        <3>2. IsFiniteSet(1..n)
            BY ONLY <3>1, FS_Interval
        <3> QED BY ONLY <3>2, FS_Singleton
    <2>4. IsFiniteSet({k} \X (1..n))
        BY ONLY <2>3, FS_Product
    <2>5. {k} \X (1..n) \subseteq Nat \X Nat
        BY <1>1
    <2> QED BY ONLY <2>2, <2>4, <2>5
<1>3. IsFiniteSet(Range(Of))
    <2>1. IsFiniteSet(DOMAIN answer)
        BY <1>1, FS_Interval
    <2>2. DOMAIN Of = DOMAIN answer
        OBVIOUS
    <2> HIDE DEF Of
    <2> QED BY ONLY <2>1, <2>2, ImageIsFinite
<1>4. places = UNION Range(Of)
    BY DEF Range
<1>5. IsFiniteSet(places)
    <2>1. \A x \in Range(Of) : IsFiniteSet(x)
        BY <1>2 DEF Range
    <2> HIDE DEF Of
    <2> QED BY ONLY <1>3, <1>4, <2>1, FS_UNION
<1>6. places \subseteq Nat \X Nat
    BY <1>2
<1>7. \A p \in places : p[1] \in DOMAIN answer
    OBVIOUS
<1> QED BY <1>5, <1>6, <1>7

\* Every sample is of a series of the answer.
LEMMA SamplesAreOfSeries ==
    ASSUME NEW answer, answer \in Seq(Range(answer)), \A series \in Range(answer) : series.samples \in Seq(Int \X Int)
    PROVE  /\ Samples(answer) \in Seq(Range(Samples(answer)))
           /\ \A s \in Range(Samples(answer)) :
                \E k \in DOMAIN answer : s.name = answer[k].name /\ s.uid = answer[k].uid
<1>1. PICK places : places = UNION {{k} \X DOMAIN answer[k].samples : k \in DOMAIN answer}
    OBVIOUS
<1>2. IsFiniteSet(places) /\ places \subseteq Nat \X Nat /\ \A p \in places : p[1] \in DOMAIN answer
    BY <1>1, PlacesOfSamples
<1>3. PICK R : R = {r \in places \X places :
                        r[1][1] < r[2][1] \/ (r[1][1] = r[2][1] /\ r[1][2] < r[2][2])}
    OBVIOUS
<1>4. StrictOrder(places, R)
    <2>1. \A x, y \in places : <<x, y>> \in R <=> x[1] < y[1] \/ (x[1] = y[1] /\ x[2] < y[2])
        BY <1>3
    <2>2. \A x \in places : x[1] \in Nat /\ x[2] \in Nat /\ x = <<x[1], x[2]>>
        BY <1>2
    <2> QED BY ONLY <2>1, <2>2 DEF StrictOrder
<1>5. PICK order : order = Sorted(places, R)
    OBVIOUS
<1>6. order \in Seq(places)
    BY ONLY <1>2, <1>4, <1>5, SortedMembers
<1>7. DOMAIN order = 1..Len(order) /\ Len(order) \in Nat /\ \A i \in DOMAIN order : order[i] \in places
    BY ONLY <1>6
<1>8. PICK samples : samples = [i \in DOMAIN order |->
            [name |-> answer[order[i][1]].name, uid |-> answer[order[i][1]].uid,
             at |-> answer[order[i][1]].samples[order[i][2]][1], value |-> answer[order[i][1]].samples[order[i][2]][2]]]
    OBVIOUS
<1>9. Samples(answer) = samples
    BY ONLY <1>1, <1>3, <1>5, <1>8 DEF Samples, Ordered
<1>10. samples \in Seq(Range(samples))
    <2>1. samples \in [1..Len(order) -> Range(samples)]
        BY ONLY <1>7, <1>8 DEF Range
    <2> QED BY <1>7, <2>1, FunctionIsASequence
<1>11. ASSUME NEW s \in Range(samples)
       PROVE  \E k \in DOMAIN answer : s.name = answer[k].name /\ s.uid = answer[k].uid
    <2>1. PICK i \in DOMAIN order : s = samples[i]
        BY <1>8 DEF Range
    <2>2. s.name = answer[order[i][1]].name /\ s.uid = answer[order[i][1]].uid
        BY ONLY <1>8, <2>1
    <2> QED BY <1>2, <1>7, <2>2
<1> QED BY <1>9, <1>10, <1>11

LEMMA ReadOfSamples ==
    ASSUME NEW answer, answer \in Seq(Range(answer)), \A series \in Range(answer) : series.samples \in Seq(Int \X Int)
    PROVE  /\ Read(answer) \in Seq(Range(Read(answer)))
           /\ \A s \in Range(Read(answer)) :
                \E k \in DOMAIN answer : s.name = answer[k].name /\ s.uid = answer[k].uid
<1>1. PICK samples : samples = Samples(answer)
    OBVIOUS
<1>2. samples \in Seq(Range(samples))
    BY <1>1, SamplesAreOfSeries
<1>3. PICK n : n = Min({MaxSamples, Len(samples)})
    OBVIOUS
<1>4. n \in 0..Len(samples)
    <2>1. Len(samples) \in Nat /\ MaxSamples \in Nat
        BY <1>2, MetricLimits
    <2> QED BY ONLY <1>3, <2>1, LesserOfTwo
<1>5. Read(answer) = SubSeq(samples, 1, n)
    BY <1>1, <1>3 DEF Read
<1>6. Read(answer) \in Seq(Range(Read(answer))) /\ Range(Read(answer)) \subseteq Range(samples)
    BY ONLY <1>2, <1>4, <1>5, MembersOfPrefix
<1> QED BY <1>1, <1>6, SamplesAreOfSeries

-----------------------------------------------------------------------------
(* Metrics                                                                 *)

\* HAS_DATA is said of one sample or more.
LEMMA SummaryIsAccepted ==
    ASSUME NEW metric, NEW subject, NEW S, NEW samples \in Seq(S), NEW truncated
    PROVE  LET e == Summary(metric, subject, samples, truncated)
           IN  /\ subject.kind = "Service" => Projectable(e)
               /\ subject.kind = "Pod" /\ subject.uid # Unidentified /\ samples # <<>> => Projectable(e)
<1>1. PICK e : e = Summary(metric, subject, samples, truncated)
    OBVIOUS
<1>2. /\ e.origin = MetricOrigin /\ e.subject = subject /\ e.facts.featureSet = "none"
      /\ samples = <<>> => e.facts.count = 0 /\ e.facts.status \in {"NO_DATA", "NO_DATA_WITHIN_LIMIT"}
      /\ samples # <<>> => e.facts.count = Len(samples) /\ e.facts.status = "HAS_DATA"
    <2>1. CASE samples = <<>>
        BY <1>1, <2>1 DEF Summary, Drafted
    <2>2. CASE samples # <<>>
        BY <1>1, <2>2 DEF Summary, Drafted
    <2> QED BY <2>1, <2>2
<1>3. samples # <<>> => Len(samples) \in Nat /\ Len(samples) > 0
    OBVIOUS
<1>4. CASE samples = <<>>
    <2>1. AcceptsMetric(e)
        BY <1>2, <1>4 DEF AcceptsMetric
    <2>2. subject.kind = "Service" => SupportsMetric(e, "Service")
        BY <1>2 DEF SupportsMetric
    <2> QED BY <1>1, <1>4, <2>1, <2>2, AcceptedIsProjectable
<1>5. CASE samples # <<>>
    <2>1. AcceptsMetric(e) /\ AcceptsWorkloadMetric(e)
        BY <1>2, <1>3, <1>5 DEF AcceptsMetric, AcceptsWorkloadMetric
    <2>2. /\ subject.kind = "Service" => SupportsMetric(e, "Service")
          /\ subject.kind = "Pod" => SupportsMetric(e, "Pod") /\ e.subject.uid = subject.uid
        BY <1>2 DEF SupportsMetric
    <2> QED BY <1>1, <2>1, <2>2, AcceptedIsProjectable
<1> QED BY <1>4, <1>5

LEMMA FilteredMembers ==
    ASSUME NEW S, NEW s \in Seq(S), NEW places \in SUBSET (DOMAIN s)
    PROVE  /\ Picked(s, places) \in Seq(Range(Picked(s, places)))
           /\ places # {} => Picked(s, places) # <<>>
<1>1. /\ Picked(s, places) \in Seq(Range(Picked(s, places)))
      /\ \A x : x \in Range(Picked(s, places)) <=> \E p \in places : x = s[p]
    BY MembersOfPicked
<1>2. Range(<<>>) = {}
    BY DEF Range
<1> QED BY <1>1, <1>2

LEMMA SummariesAreProjectable ==
    ASSUME NEW metric, NEW answer, WellScoped(answer),
           answer \in Seq(Range(answer)), \A series \in Range(answer) : series.samples \in Seq(Int \X Int)
    PROVE  \A e \in Summaries(metric, answer) : Projectable(e)
<1>1. PICK read : read = Read(answer)
    OBVIOUS
<1>2. /\ read \in Seq(Range(read))
      /\ \A s \in Range(read) : \E k \in DOMAIN answer : s.name = answer[k].name /\ s.uid = answer[k].uid
    BY <1>1, ReadOfSamples
<1> SUFFICES ASSUME NEW e \in Summaries(metric, answer)
             PROVE  Projectable(e)
    OBVIOUS
<1>3. CASE PerService
    <2> DEFINE Of(name) == Summary(metric, Subject("Service", name, UidOf(name, answer)),
                                   Filtered(read, LAMBDA s : s.name = name), Truncated(answer))
    <2>0. Summaries(metric, answer) = {Of(name) : name \in ServiceNames}
        BY <1>1, <1>3 DEF Summaries, ServiceSummaries
    <2>1. PICK name, uid : name \in ServiceNames /\ e = Of(name) /\ uid = UidOf(name, answer)
        <3> HIDE DEF Of
        <3>1. \E name \in ServiceNames : e = Of(name)
            BY <2>0
        <3> QED BY <3>1
    <2>2. PICK places : places = {k \in DOMAIN read : read[k].name = name}
        OBVIOUS
    <2>3. PICK samples : samples = Picked(read, places)
        OBVIOUS
    <2>4. e = Summary(metric, Subject("Service", name, uid), samples, Truncated(answer))
        BY ONLY <2>1, <2>2, <2>3 DEF Filtered
    <2>5. samples \in Seq(Range(samples))
        BY ONLY <1>2, <2>2, <2>3, FilteredMembers
    <2>6. Subject("Service", name, uid).kind = "Service"
        BY DEF Subject
    <2> QED BY <2>4, <2>5, <2>6, SummaryIsAccepted
<1>4. CASE ~PerService
    <2> DEFINE Of(pod) == Summary(metric, Subject("Pod", pod[1], pod[2]),
                                  Filtered(read, LAMBDA s : s.name = pod[1] /\ s.uid = pod[2]), Truncated(answer))
    <2>0. Summaries(metric, answer) = {Of(pod) : pod \in {<<s.name, s.uid>> : s \in Range(read)}}
        BY <1>1, <1>4 DEF Summaries, PodSummaries
    <2>1. PICK pod \in {<<s.name, s.uid>> : s \in Range(read)} : e = Of(pod)
        <3> HIDE DEF Of
        <3> QED BY <2>0
    <2>2. PICK j \in DOMAIN read : pod = <<read[j].name, read[j].uid>>
        BY DEF Range
    <2>3. PICK places : places = {k \in DOMAIN read : read[k].name = pod[1] /\ read[k].uid = pod[2]}
        OBVIOUS
    <2>4. PICK samples : samples = Picked(read, places)
        OBVIOUS
    <2>5. e = Summary(metric, Subject("Pod", pod[1], pod[2]), samples, Truncated(answer))
        BY ONLY <2>1, <2>3, <2>4 DEF Filtered
    <2>6. j \in places
        BY ONLY <2>2, <2>3
    <2>7. samples \in Seq(Range(samples)) /\ samples # <<>>
        BY ONLY <1>2, <2>3, <2>4, <2>6, FilteredMembers
    <2>8. pod[2] # Unidentified
        <3>1. read[j] \in Range(read)
            BY DEF Range
        <3>2. PICK k \in DOMAIN answer : read[j].uid = answer[k].uid
            BY <1>2, <3>1
        <3>3. InScope(answer[k])
            BY DEF WellScoped
        <3> QED BY <1>4, <2>2, <3>2, <3>3 DEF InScope
    <2>9. Subject("Pod", pod[1], pod[2]).kind = "Pod" /\ Subject("Pod", pod[1], pod[2]).uid = pod[2]
        BY DEF Subject
    <2> QED BY <2>5, <2>7, <2>8, <2>9, SummaryIsAccepted
<1> QED BY <1>3, <1>4

LEMMA AskMetricKeepsIt ==
    TelemetryInv /\ AskMetric => TelemetryInv'
<1> SUFFICES ASSUME TelemetryInv, AskMetric
             PROVE  TelemetryInv'
    OBVIOUS
<1>1. PICK metric, answer, drafts :
        /\ metric = Metrics[attempt.at] /\ answer = source[metric] /\ drafts = attempt.drafts \cup Summaries(metric, answer)
    OBVIOUS
<1>2. /\ attempt.provider \in {"service-metrics", "workload-metrics"} /\ attempt.outcome = "collecting"
      /\ source' = source
    BY DEF AskMetric, Working
<1>3. MetricsHold(source) /\ attempt.at \in DOMAIN Metrics /\ DOMAIN attempt = AttemptFields /\ Projected
    BY <1>2 DEF TelemetryInv, AttemptStands, MetricsStand
<1>4. answer \in Seq(Range(answer)) /\ \A series \in Range(answer) : series.samples \in Seq(Int \X Int)
    <2>1. metric \in Range(Metrics)
        BY <1>1, <1>3 DEF Range
    <2>2. /\ source[metric] \in Seq(Range(source[metric]))
          /\ \A series \in Range(source[metric]) : series.samples \in Seq(Int \X Int)
        BY <1>3, <2>1 DEF MetricsHold
    <2>3. answer = source[metric]
        BY <1>1
    <2> QED BY <2>2, <2>3
<1>5. WellScoped(answer) => \A e \in drafts : Projectable(e)
    BY <1>1, <1>3, <1>4, SummariesAreProjectable DEF Projected
<1>6. \/ Abandon("permanent")
      \/ WellScoped(answer) /\ \E partial : DeliverWithinBudget(drafts, partial)
      \/ /\ WellScoped(answer) /\ attempt.at # Len(Metrics)
         /\ \E partial : attempt' = [attempt EXCEPT !.at = @ + 1, !.drafts = drafts, !.partial = partial]
      \/ Fails
    BY <1>1 DEF AskMetric
<1>7. CASE Abandon("permanent")
    BY <1>7, AbandonKeepsIt DEF Errors
<1>8. CASE WellScoped(answer) /\ \E partial : DeliverWithinBudget(drafts, partial)
    BY <1>5, <1>8, DeliveryKeepsIt
<1>9. ASSUME NEW partial, WellScoped(answer), attempt.at # Len(Metrics),
             attempt' = [attempt EXCEPT !.at = @ + 1, !.drafts = drafts, !.partial = partial]
      PROVE  TelemetryInv'
    <2>1. /\ DOMAIN attempt' = DOMAIN attempt /\ attempt'.provider = attempt.provider
          /\ attempt'.at = attempt.at + 1 /\ attempt'.drafts = drafts
        BY <1>3, <1>9 DEF AttemptFields
    <2>2. attempt.at + 1 \in DOMAIN Metrics
        <3>1. DOMAIN Metrics = 1..Len(Metrics) /\ Len(Metrics) \in Nat
            BY MetricLimits
        <3> QED BY ONLY <1>3, <1>9, <3>1
    <2>3. MetricsStand'
        BY <1>2, <1>3, <2>1, <2>2 DEF MetricsStand, MetricsHold
    <2>4. Projected'
        BY <1>5, <1>9, <2>1 DEF Projected
    <2> QED BY <1>2, <1>3, <2>1, <2>3, <2>4 DEF TelemetryInv, AttemptStands
<1> QED BY <1>6, <1>7, <1>8, <1>9, FailureKeepsIt

-----------------------------------------------------------------------------
(* Dependency edges                                                        *)

LEMMA EdgeDraftIsProjectable ==
    ASSUME NEW edge \in Range(Edges), NEW cache
    PROVE  Projectable(EdgeDraft(edge, cache))
<1>1. PICK e : e = EdgeDraft(edge, cache)
    OBVIOUS
<1>2. /\ e.origin = FeatureOrigin /\ e.facts.featureSet = "krca-api-edge-v1" /\ e.facts.edge = edge
      /\ e.facts.status \in {"HAS_DATA", "INSUFFICIENT_DATA"}
      /\ e.subject.kind = "Service" /\ e.subject.name = edge.parent.service
    <2>1. CASE Usable(edge, cache)
        BY <1>1, <2>1 DEF EdgeDraft, Drafted, Subject
    <2>2. CASE ~Usable(edge, cache)
        BY <1>1, <2>2 DEF EdgeDraft, Drafted, Subject
    <2> QED BY <2>1, <2>2
<1>3. edge.parent # edge.child
    BY MetricLimits
<1>4. SupportsEdge(e) /\ AcceptsEdge(e)
    BY <1>2, <1>3 DEF SupportsEdge, AcceptsEdge
<1> QED BY <1>1, <1>4, AcceptedIsProjectable

LEMMA AskFeatureKeepsIt ==
    TelemetryInv /\ AskFeature => TelemetryInv'
<1> SUFFICES ASSUME TelemetryInv, AskFeature
             PROVE  TelemetryInv'
    OBVIOUS
<1>1. attempt.provider = "api-features" /\ attempt.outcome = "collecting" /\ attempt.drafts = {}
      /\ DOMAIN attempt = AttemptFields
    BY DEF AskFeature, Working, TelemetryInv, AttemptStands
<1>2. \/ Abandon("permanent")
      \/ \E cache, partial : DeliverWithinBudget({EdgeDraft(e, cache) : e \in Range(Edges)}, partial)
      \/ \E cache, partial : attempt' = [attempt EXCEPT !.read = cache, !.partial = partial]
      \/ Fails
    BY DEF AskFeature
<1>3. CASE Abandon("permanent")
    BY <1>3, AbandonKeepsIt DEF Errors
<1>4. ASSUME NEW cache, NEW partial, DeliverWithinBudget({EdgeDraft(e, cache) : e \in Range(Edges)}, partial)
      PROVE  TelemetryInv'
    <2>1. \A d \in {EdgeDraft(e, cache) : e \in Range(Edges)} : Projectable(d)
        BY EdgeDraftIsProjectable
    <2> QED BY <1>4, <2>1, DeliveryKeepsIt
<1>5. ASSUME NEW cache, NEW partial, attempt' = [attempt EXCEPT !.read = cache, !.partial = partial]
      PROVE  TelemetryInv'
    <2>1. /\ DOMAIN attempt' = DOMAIN attempt /\ attempt'.provider = attempt.provider /\ attempt'.drafts = {}
        BY <1>1, <1>5 DEF AttemptFields
    <2> QED BY <1>1, <2>1 DEF TelemetryInv, Projected, AttemptStands
<1> QED BY <1>2, <1>3, <1>4, <1>5, FailureKeepsIt

-----------------------------------------------------------------------------
(* Flows                                                                   *)

LEMMA KeysAreFinite ==
    ASSUME NEW S, IsFiniteSet(S), NEW key
    PROVE  IsFiniteSet({key[f] : f \in S})
<1>1. PICK g : g = [f \in S |-> key[f]]
    OBVIOUS
<1>2. DOMAIN g = S /\ Range(g) = {key[f] : f \in S}
    BY <1>1 DEF Range
<1> QED BY ONLY <1>2, IsFiniteSet(S), ImageIsFinite

\* The counts of some keys add up to what has one of them.
LEMMA CountsAddUp ==
    ASSUME NEW S, IsFiniteSet(S), NEW key
    PROVE  /\ \A k : k \in DOMAIN Counts(S, key) <=> \E f \in S : k = key[f]
           /\ \A K : \A T \in SUBSET S :
                (\A f \in S : f \in T <=> key[f] \in K) => Among(Counts(S, key), K) = Cardinality(T)
           /\ Total(Counts(S, key)) = Cardinality(S)
<1>1. PICK counts : counts = Counts(S, key)
    OBVIOUS
<1>2. PICK keys : keys = {key[f] : f \in S}
    OBVIOUS
<1>3. DOMAIN counts = keys /\ \A k \in keys : counts[k] = Cardinality({f \in S : key[f] = k})
    BY <1>1, <1>2 DEF Counts
<1>4. IsFiniteSet(keys)
    BY <1>2, KeysAreFinite
<1>5. \A T \in SUBSET S : IsFiniteSet(T) /\ Cardinality(T) \in Nat
    BY FS_Subset, FS_CardinalityType
<1>6. \A k \in keys : counts[k] \in Int
    <2> TAKE k \in keys
    <2>1. PICK T : T = {f \in S : key[f] = k}
        OBVIOUS
    <2>2. counts[k] = Cardinality(T)
        BY <1>3, <2>1
    <2>3. T \in SUBSET S
        BY ONLY <2>1
    <2> QED BY ONLY <1>5, <2>2, <2>3
<1>7. /\ SumFunctionOnSet(counts, {}) = 0
      /\ \A K \in SUBSET keys : \A k \in K :
            SumFunctionOnSet(counts, K) = counts[k] + SumFunctionOnSet(counts, K \ {k})
    BY ONLY <1>4, <1>6, SumOfMembers
<1>8. PICK P : P = {K \in SUBSET keys : SumFunctionOnSet(counts, K) = Cardinality({f \in S : key[f] \in K})}
    OBVIOUS
<1>9. {} \in P
    <2>1. {f \in S : key[f] \in {}} = {}
        OBVIOUS
    <2> QED BY ONLY <1>7, <1>8, <2>1, FS_EmptySet
<1>10. ASSUME NEW K \in SUBSET keys, K # {}, \A k \in K : K \ {k} \in P
       PROVE  K \in P
    <2>1. PICK k \in K : TRUE
        BY <1>10
    <2>2. PICK one, rest : one = {f \in S : key[f] = k} /\ rest = {f \in S : key[f] \in K \ {k}}
        OBVIOUS
    <2>3. {f \in S : key[f] \in K} = one \cup rest /\ one \cap rest = {} /\ one \in SUBSET S /\ rest \in SUBSET S
        BY ONLY <2>1, <2>2
    <2>4. Cardinality(one \cup rest) = Cardinality(one) + Cardinality(rest) - Cardinality(one \cap rest)
        BY ONLY <1>5, <2>3, FS_Union
    <2>5. Cardinality(one \cap rest) = 0
        BY ONLY <2>3, FS_EmptySet
    <2>6. SumFunctionOnSet(counts, K \ {k}) = Cardinality(rest)
        BY <1>8, <1>10, <2>1, <2>2
    <2>7. SumFunctionOnSet(counts, K) = counts[k] + SumFunctionOnSet(counts, K \ {k})
        BY <1>7, <2>1
    <2>8. counts[k] = Cardinality(one)
        BY <1>3, <2>1, <2>2
    <2>9. Cardinality(one) \in Nat /\ Cardinality(rest) \in Nat
        BY ONLY <1>5, <2>3
    <2>10. SumFunctionOnSet(counts, K) = Cardinality(one \cup rest)
        BY ONLY <2>4, <2>5, <2>6, <2>7, <2>8, <2>9
    <2> QED BY ONLY <1>8, <2>3, <2>10, K \in SUBSET keys
<1>11. P = SUBSET keys
    <2>1. P \in SUBSET (SUBSET keys)
        BY ONLY <1>8
    <2>2. \A K \in SUBSET keys : K # {} /\ (\A k \in K : K \ {k} \in P) => K \in P
        BY ONLY <1>10
    <2> QED BY ONLY <1>4, <1>9, <2>1, <2>2, MemberByMember
<1>12. \A K \in SUBSET keys : SumFunctionOnSet(counts, K) = Cardinality({f \in S : key[f] \in K})
    BY ONLY <1>8, <1>11
<1>13. ASSUME NEW K, NEW T \in SUBSET S, \A f \in S : f \in T <=> key[f] \in K
       PROVE  Among(counts, K) = Cardinality(T)
    <2>1. {f \in S : key[f] \in keys \cap K} = T
        BY ONLY <1>2, <1>13
    <2>2. keys \cap K \in SUBSET keys
        OBVIOUS
    <2>3. SumFunctionOnSet(counts, keys \cap K) = Cardinality(T)
        BY ONLY <1>12, <2>1, <2>2
    <2> QED BY ONLY <1>3, <2>3 DEF Among
<1>14. Total(counts) = Cardinality(S)
    <2>1. {f \in S : key[f] \in keys} = S
        BY ONLY <1>2
    <2>2. SumFunctionOnSet(counts, keys) = Cardinality(S)
        BY ONLY <1>12, <2>1
    <2> QED BY ONLY <1>3, <2>2 DEF Total, SumFunction
<1> QED BY ONLY <1>1, <1>2, <1>3, <1>13, <1>14

LEMMA CountsAmong ==
    ASSUME NEW S, IsFiniteSet(S), NEW key, NEW K, NEW T \in SUBSET S, \A f \in S : f \in T <=> key[f] \in K
    PROVE  Among(Counts(S, key), K) = Cardinality(T)
<1>1. \A L : \A U \in SUBSET S : (\A f \in S : f \in U <=> key[f] \in L) => Among(Counts(S, key), L) = Cardinality(U)
    BY CountsAddUp
<1> QED BY ONLY <1>1, T \in SUBSET S, \A f \in S : f \in T <=> key[f] \in K

LEMMA FirstAndLast ==
    ASSUME NEW S, IsFiniteSet(S), S # {}, NEW at, \A x \in S : at[x] \in Int, 
           NEW times, \A t : t \in times <=> \E x \in S : t = at[x]
    PROVE  /\ Min(times) <= Max(times)
           /\ \E x, y \in S : Min(times) = at[x] /\ Max(times) = at[y]
<1>2. times \in SUBSET Int /\ times # {}
    OBVIOUS
<1>3. IsFiniteSet(times)
    <2>1. times = {at[x] : x \in S}
        OBVIOUS
    <2> QED BY <2>1, KeysAreFinite
<1>4. Max(times) \in times /\ \A t \in times : t <= Max(times)
    BY ONLY <1>2, <1>3, GreatestNumber
<1>5. \E t \in times : \A u \in times : t <= u
    BY ONLY <1>2, <1>3, LeastNumber
<1>6. Min(times) \in times
    BY <1>5 DEF Min
<1> QED BY <1>4, <1>6

LEMMA FlowFactsAreAccepted ==
    ASSUME NEW flows, IsFiniteSet(flows), NEW root, NEW truncated, truncated => flows # {},
           \A f \in flows : f.at \in Int /\ Within(f.at) /\ (f.from \in Rooted[root] \/ f.to \in Rooted[root]),
           NEW e, e.facts = FlowFacts(flows, truncated, root),
           e.completeness = IF flows = {} THEN 0 ELSE 5, flows = {} => e.observed = Window[2]
    PROVE  AcceptsFlows(e)
<1>1. PICK dropped, reason, verdict, protocol :
        /\ dropped = {f \in flows : f.verdict = "DROPPED"} /\ reason = [f \in dropped |-> DropReason(f)]
        /\ verdict = [f \in flows |-> f.verdict] /\ protocol = [f \in flows |-> f.protocol]
    OBVIOUS
<1>2. PICK reasons, verdicts, protocols, denied, unknown :
        /\ reasons = Counts(dropped, reason) /\ verdicts = Counts(flows, verdict) /\ protocols = Counts(flows, protocol)
        /\ denied = Among(reasons, PolicyDropReasons) /\ unknown = Among(reasons, {"UNKNOWN"})
    OBVIOUS
<1>3. PICK times : times = {f.at : f \in flows}
    OBVIOUS
<1>4. PICK from, to : from = {f \in flows : f.from \in Rooted[root]} /\ to = {f \in flows : f.to \in Rooted[root]}
    OBVIOUS
<1>5. /\ e.facts.count = Cardinality(flows) /\ e.facts.status = (IF flows = {} THEN "NO_DATA" ELSE "HAS_DATA")
      /\ e.facts.verdicts = verdicts /\ e.facts.protocols = protocols /\ e.facts.dropReasons = reasons
      /\ e.facts.from = Cardinality(from) /\ e.facts.to = Cardinality(to) /\ e.facts.truncated = truncated
      /\ e.facts.denied = denied /\ e.facts.unknown = unknown
      /\ e.facts.other = Cardinality(dropped) - denied - unknown
      /\ e.facts.signal = FlowSignal(Cardinality(flows), Cardinality(dropped), denied)
      /\ flows # {} => e.facts.first = Min(times) /\ e.facts.last = Max(times)
    BY <1>1, <1>2, <1>3, <1>4 DEF FlowFacts
<1>6. dropped \in SUBSET flows /\ from \in SUBSET flows /\ to \in SUBSET flows /\ from \cup to = flows
    BY <1>1, <1>4
<1>7. \A T \in SUBSET flows : IsFiniteSet(T) /\ Cardinality(T) \in Nat /\ Cardinality(T) <= Cardinality(flows)
    BY FS_Subset, FS_CardinalityType
<1>8. /\ Cardinality(from) <= Cardinality(flows) /\ Cardinality(to) <= Cardinality(flows)
      /\ Cardinality(from) + Cardinality(to) >= Cardinality(flows)
    <2>1. from \cap to \in SUBSET flows
        BY <1>6
    <2>2. Cardinality(from \cup to) = Cardinality(from) + Cardinality(to) - Cardinality(from \cap to)
        BY ONLY <1>6, <1>7, FS_Union
    <2>3. /\ Cardinality(from \cap to) \in Nat /\ Cardinality(from) \in Nat /\ Cardinality(to) \in Nat
          /\ Cardinality(flows) \in Nat /\ Cardinality(from) <= Cardinality(flows) /\ Cardinality(to) <= Cardinality(flows)
        BY ONLY <1>6, <1>7, <2>1
    <2> QED BY ONLY <1>6, <2>2, <2>3
<1>9. Total(verdicts) = Cardinality(flows) /\ Total(protocols) = Cardinality(flows)
    BY <1>2, CountsAddUp
<1>10. Total(reasons) = Cardinality(dropped) /\ \A k \in DOMAIN reasons : \E f \in dropped : k = reason[f]
    BY <1>2, <1>6, <1>7, CountsAddUp
<1>11. Among(verdicts, {"DROPPED"}) = Cardinality(dropped)
    <2>1. dropped \in SUBSET flows /\ \A f \in flows : f \in dropped <=> verdict[f] \in {"DROPPED"}
        BY ONLY <1>1
    <2> QED BY ONLY <1>2, <2>1, IsFiniteSet(flows), CountsAmong
<1>12. denied \in Nat /\ unknown \in Nat
    <2>1. PICK D, U : D = {f \in dropped : reason[f] \in PolicyDropReasons} /\ U = {f \in dropped : reason[f] \in {"UNKNOWN"}}
        OBVIOUS
    <2>2. D \in SUBSET flows /\ U \in SUBSET flows
        BY <1>6, <2>1
    <2>3. IsFiniteSet(dropped)
        BY ONLY <1>6, <1>7
    <2>4. /\ D \in SUBSET dropped /\ \A f \in dropped : f \in D <=> reason[f] \in PolicyDropReasons
          /\ U \in SUBSET dropped /\ \A f \in dropped : f \in U <=> reason[f] \in {"UNKNOWN"}
        BY ONLY <2>1
    <2>5. denied = Cardinality(D)
        BY ONLY <1>2, <2>3, <2>4, CountsAmong
    <2>6. unknown = Cardinality(U)
        BY ONLY <1>2, <2>3, <2>4, CountsAmong
    <2> QED BY ONLY <1>7, <2>2, <2>5, <2>6
<1>13. "DROP_REASON_UNKNOWN" \notin DOMAIN reasons
    <2>1. \A f \in dropped : reason[f] # "DROP_REASON_UNKNOWN"
        BY <1>1 DEF DropReason
    <2> QED BY ONLY <1>10, <2>1
<1>14. denied + unknown + (Cardinality(dropped) - denied - unknown) = Cardinality(dropped)
    <2>1. Cardinality(dropped) \in Nat
        BY ONLY <1>6, <1>7
    <2> QED BY ONLY <1>12, <2>1
<1>15. flows # {} => /\ Cardinality(flows) > 0 /\ Min(times) <= Max(times)
                     /\ Within(Min(times)) /\ Within(Max(times))
    <2> SUFFICES ASSUME flows # {}
                 PROVE  /\ Cardinality(flows) > 0 /\ Min(times) <= Max(times)
                        /\ Within(Min(times)) /\ Within(Max(times))
        OBVIOUS
    <2>1. Cardinality(flows) \in Nat /\ Cardinality(flows) # 0
        BY <1>7, FS_EmptySet
    <2>2. PICK at : at = [f \in flows |-> f.at]
        OBVIOUS
    <2>3. /\ \A t : t \in times <=> \E f \in flows : t = at[f]
          /\ \A f \in flows : at[f] = f.at /\ at[f] \in Int
        BY <1>3, <2>2
    <2>4. Min(times) <= Max(times) /\ \E f, g \in flows : Min(times) = at[f] /\ Max(times) = at[g]
        BY ONLY <2>3, flows # {}, IsFiniteSet(flows), FirstAndLast
    <2> QED BY <2>1, <2>3, <2>4
<1>16. flows = {} => Cardinality(flows) = 0 /\ Within(Window[2])
    BY FS_EmptySet, WindowIsOrdered DEF Within
<1>17. Cardinality(flows) > 0 => flows # {}
    BY <1>16
<1>18. \/ /\ e.facts.status = "HAS_DATA" /\ e.facts.count > 0
          /\ e.facts.first <= e.facts.last /\ Within(e.facts.first) /\ Within(e.facts.last)
       \/ e.facts.status = "NO_DATA" /\ e.facts.count = 0 /\ ~e.facts.truncated /\ Within(e.observed)
    <2>1. CASE flows = {}
        BY <1>5, <1>16, <2>1
    <2>2. CASE flows # {}
        BY <1>5, <1>15, <2>2
    <2> QED BY <2>1, <2>2
<1>19. e.completeness <= IF e.facts.count > 0 THEN 5 ELSE 0
    <2>1. CASE flows = {}
        BY <1>5, <1>16, <2>1
    <2>2. CASE flows # {}
        BY <1>5, <1>15, <2>2
    <2> QED BY <2>1, <2>2
<1>20. /\ e.facts.from <= e.facts.count /\ e.facts.to <= e.facts.count
       /\ e.facts.from + e.facts.to >= e.facts.count
       /\ Total(e.facts.verdicts) = e.facts.count /\ Total(e.facts.protocols) = e.facts.count
       /\ Total(e.facts.dropReasons) = Among(e.facts.verdicts, {"DROPPED"})
       /\ "DROP_REASON_UNKNOWN" \notin DOMAIN e.facts.dropReasons
       /\ e.facts.denied = Among(e.facts.dropReasons, PolicyDropReasons)
       /\ e.facts.unknown = Among(e.facts.dropReasons, {"UNKNOWN"})
       /\ e.facts.denied + e.facts.unknown + e.facts.other = Among(e.facts.verdicts, {"DROPPED"})
       /\ e.facts.signal = FlowSignal(e.facts.count, Among(e.facts.verdicts, {"DROPPED"}), e.facts.denied)
    BY ONLY <1>2, <1>5, <1>8, <1>9, <1>10, <1>11, <1>13, <1>14
<1> QED BY ONLY <1>18, <1>19, <1>20 DEF AcceptsFlows

LEMMA FlowDraftIsProjectable ==
    ASSUME NEW root, NEW seen, IsFiniteSet(seen.flows), seen.truncated => seen.flows # {},
           \A f \in seen.flows : f.at \in Int /\ Within(f.at) /\ (f.from \in Rooted[root] \/ f.to \in Rooted[root])
    PROVE  Projectable(FlowDraft(root, seen))
<1>1. PICK e : e = FlowDraft(root, seen)
    OBVIOUS
<1>2. /\ e.origin = FlowOrigin /\ e.subject.kind = "Service"
      /\ e.facts = FlowFacts(seen.flows, seen.truncated, root)
      /\ e.completeness = (IF seen.flows = {} THEN 0 ELSE 5)
      /\ seen.flows = {} => e.observed = Window[2]
    BY <1>1 DEF FlowDraft, Drafted, Subject
<1>3. e.facts.featureSet = "hubble-network-flow-summary-v2"
    BY <1>2 DEF FlowFacts
<1>4. SupportsFlows(e)
    BY <1>2, <1>3 DEF SupportsFlows
<1>5. AcceptsFlows(e)
    BY <1>2, FlowFactsAreAccepted
<1> QED BY <1>1, <1>4, <1>5, AcceptedIsProjectable

LEMMA GreaterOfTwo ==
    ASSUME NEW m \in Int, NEW n \in Int
    PROVE  Max({m, n}) = IF m <= n THEN n ELSE m
<1>1. \E x \in {m, n} : \A y \in {m, n} : x >= y
    OBVIOUS
<1> QED BY <1>1 DEF Max

LEMMA QueryLimitIsTyped == QueryLimit \in Int
<1>1. FlowBudget \in Nat /\ Len(Services) \in Nat /\ Len(Services) > 0
    BY FlowLimits
<1>2. PICK d \in Nat : d = 2 * Len(Services) /\ d > 0
    BY <1>1
<1>3. FlowBudget \div d \in Int
    BY <1>1, <1>2
<1> QED BY <1>2, <1>3 DEF QueryLimit

LEMMA LastOfFlows ==
    ASSUME NEW flows \in SUBSET Flows
    PROVE  /\ LastFlows(flows) \subseteq flows
           /\ QueryLimit >= 1 /\ flows # {} => LastFlows(flows) # {}
<1>1. IsFiniteSet(flows) /\ \A f \in flows : f.uuid \in Nat /\ f.at \in Int
    BY FlowsAreParsed, FS_Subset
<1>2. PICK R : R = {p \in flows \X flows : p[1].at < p[2].at \/ (p[1].at = p[2].at /\ p[1].uuid < p[2].uuid)}
    OBVIOUS
<1>3. StrictOrder(flows, R)
    <2>1. \A f, g \in flows : <<f, g>> \in R <=> f.at < g.at \/ (f.at = g.at /\ f.uuid < g.uuid)
        BY <1>2
    <2>2. \A f, g \in flows : f # g => f.at # g.at \/ f.uuid # g.uuid
        BY FlowsAreParsed
    <2> QED BY ONLY <1>1, <2>1, <2>2 DEF StrictOrder
<1>4. PICK ordered : ordered = Sorted(flows, R)
    OBVIOUS
<1>5. ordered \in Seq(flows) /\ Range(ordered) = flows
    BY ONLY <1>1, <1>3, <1>4, SortedMembers
<1>6. PICK m : m = Max({1, Len(ordered) - QueryLimit + 1})
    OBVIOUS
<1>7. Len(ordered) \in Nat /\ m \in Int /\ m >= 1 /\ (QueryLimit >= 1 /\ Len(ordered) > 0 => m <= Len(ordered))
    <2>1. Len(ordered) \in Nat /\ QueryLimit \in Int
        BY <1>5, QueryLimitIsTyped
    <2> QED BY ONLY <1>6, <2>1, GreaterOfTwo
<1>8. LastFlows(flows) = Range(SubSeq(ordered, m, Len(ordered)))
    BY ONLY <1>2, <1>4, <1>6 DEF LastFlows, Ordered
<1>9. PICK s : s = SubSeq(ordered, m, Len(ordered))
    OBVIOUS
<1>10. /\ DOMAIN s = 1..(Len(ordered) - m + 1)
       /\ \A k \in DOMAIN s : s[k] = ordered[k + m - 1] /\ k + m - 1 \in 1..Len(ordered)
    <2>1. DOMAIN s = 1..(1 + Len(ordered) - m) /\ \A k \in 1..(1 + Len(ordered) - m) : s[k] = ordered[k + m - 1]
        BY <1>5, <1>7, <1>9
    <2> QED BY ONLY <1>7, <2>1
<1>11. Range(s) \subseteq flows
    BY <1>5, <1>10 DEF Range
<1>12. ASSUME QueryLimit >= 1, flows # {}
       PROVE  Range(s) # {}
    <2>1. Len(ordered) > 0
        BY <1>5, <1>12, <1>7 DEF Range
    <2>2. 1 \in DOMAIN s
        BY ONLY <1>7, <1>10, <1>12, <2>1
    <2> QED BY ONLY <2>2 DEF Range
<1> QED BY <1>8, <1>9, <1>11, <1>12

SeenFields == {"flows", "truncated", "gaps", "asked", "answered"}

SeenOf(seen, root) ==
    /\ DOMAIN seen = SeenFields /\ seen.flows \subseteq Flows
    /\ \A f \in seen.flows : Within(f.at) /\ (f.from \in Rooted[root] \/ f.to \in Rooted[root])
    /\ seen.truncated \in BOOLEAN /\ (seen.truncated => seen.flows # {})

LEMMA NothingSeenYet ==
    ASSUME NEW root, NEW answered
    PROVE  SeenOf([NothingSeen EXCEPT !.answered = answered], root) /\ [NothingSeen EXCEPT !.answered = answered].asked = 0
BY DEF SeenOf, NothingSeen, SeenFields

LEMMA ObserveKeepsIt ==
    ASSUME TelemetryInv, attempt.provider = "network-flows", attempt.outcome = "collecting", source' = source,
           NEW seen, SeenOf(seen, Root), seen.asked \in {1, 2}, Observe(seen)
    PROVE  TelemetryInv'
<1>1. /\ DOMAIN attempt = AttemptFields /\ Projected /\ RelayHolds(source) /\ attempt.at \in DOMAIN Services
    BY DEF TelemetryInv, AttemptStands, FlowsStand
<1>2. PICK drafts, partial : /\ drafts = attempt.drafts \cup {FlowDraft(Root, seen)}
                             /\ partial = (attempt.partial \/ Incomplete(seen))
    OBVIOUS
<1>3. \A e \in drafts : Projectable(e)
    <2>1. IsFiniteSet(seen.flows) /\ \A f \in seen.flows : f.at \in Int
        BY FlowsAreParsed, FS_Subset DEF SeenOf
    <2>2. Projectable(FlowDraft(Root, seen))
        BY <2>1, FlowDraftIsProjectable DEF SeenOf
    <2> QED BY <1>1, <1>2, <2>2 DEF Projected
<1>4. RelayHolds(source)'
    BY <1>1 DEF RelayHolds
<1>5. DOMAIN Services = 1..Len(Services) /\ Len(Services) \in Nat
    BY FlowLimits
<1>6. CASE seen.asked < 2 /\ attempt' = [attempt EXCEPT !.read = seen]
    <2>1. /\ DOMAIN attempt' = AttemptFields /\ attempt'.provider = attempt.provider /\ attempt'.outcome = attempt.outcome
          /\ attempt'.at = attempt.at /\ attempt'.read = seen /\ attempt'.drafts = attempt.drafts
        BY <1>1, <1>6 DEF AttemptFields
    <2>2. seen # <<>>
        <3>1. DOMAIN seen # {} /\ DOMAIN <<>> = {}
            BY DEF SeenOf, SeenFields
        <3> QED BY <3>1
    <2>3. Seen' = seen /\ Root' = Root
        BY <2>1, <2>2 DEF Seen, Root
    <2>4. FlowsStand'
        BY <1>1, <1>4, <1>6, <2>1, <2>3 DEF FlowsStand, SeenOf, SeenFields
    <2> QED BY <1>1, <2>1, <2>4 DEF TelemetryInv, Projected, AttemptStands
<1>7. CASE /\ attempt.at < Len(Services)
           /\ attempt' = [attempt EXCEPT !.at = @ + 1, !.drafts = drafts, !.partial = partial,
                                         !.read = [NothingSeen EXCEPT !.answered = seen.answered]]
    <2>1. PICK nothing : nothing = [NothingSeen EXCEPT !.answered = seen.answered]
        OBVIOUS
    <2>2. SeenOf(nothing, Root') /\ nothing.asked = 0
        BY <2>1, NothingSeenYet
    <2>3. /\ DOMAIN attempt' = AttemptFields /\ attempt'.provider = attempt.provider /\ attempt'.outcome = attempt.outcome
          /\ attempt'.at = attempt.at + 1 /\ attempt'.read = nothing /\ attempt'.drafts = drafts
        BY <1>1, <1>7, <2>1 DEF AttemptFields
    <2>4. nothing # <<>>
        <3>1. DOMAIN nothing # {} /\ DOMAIN <<>> = {}
            BY <2>2 DEF SeenOf, SeenFields
        <3> QED BY <3>1
    <2>5. Seen' = nothing
        BY <2>3, <2>4 DEF Seen
    <2>6. attempt'.at \in DOMAIN Services
        BY ONLY <1>1, <1>5, <1>7, <2>3
    <2>7. FlowsStand'
        BY <1>4, <2>2, <2>5, <2>6 DEF FlowsStand, SeenOf, SeenFields
    <2>8. Projected'
        BY <1>3, <2>3 DEF Projected
    <2> QED BY <2>3, <2>7, <2>8 DEF TelemetryInv, AttemptStands
<1>8. CASE Deliver(drafts, partial)
    BY <1>3, <1>8, DeliveryKeepsIt
<1>9. CASE Abandon("retryable")
    BY <1>9, AbandonKeepsIt DEF Errors
<1> QED BY <1>2, <1>6, <1>7, <1>8, <1>9 DEF Observe

LEMMA AskFlowsKeepsIt ==
    TelemetryInv /\ AskFlows => TelemetryInv'
<1> SUFFICES ASSUME TelemetryInv, AskFlows
             PROVE  TelemetryInv'
    OBVIOUS
<1>1. /\ attempt.provider = "network-flows" /\ attempt.outcome = "collecting" /\ source' = source
    BY DEF AskFlows, Working
<1>2. FlowsStand
    BY <1>1 DEF TelemetryInv, AttemptStands
<1>3. PICK seen : seen = Seen
    OBVIOUS
<1>4. SeenOf(seen, Root) /\ seen.asked \in {0, 1} /\ source.kept \subseteq Flows
    BY <1>2, <1>3 DEF FlowsStand, SeenOf, SeenFields, RelayHolds
<1>5. PICK direction : direction = Directions[seen.asked + 1]
    OBVIOUS
<1>6. direction = "from" \/ direction = "to"
    BY <1>4, <1>5 DEF Directions
<1>7. PICK matching, flows, asked :
        /\ matching = Matching(source.kept, Root, direction) /\ flows = LastFlows(matching)
        /\ asked = [seen EXCEPT !.asked = @ + 1]
    OBVIOUS
<1>8. /\ SeenOf(asked, Root) /\ asked.asked \in {1, 2} /\ asked.flows = seen.flows /\ asked.truncated = seen.truncated
    BY <1>4, <1>7 DEF SeenOf, SeenFields
<1>9. CASE Abandon("permanent")
    BY <1>9, AbandonKeepsIt DEF Errors
<1>10. ASSUME NEW gap, Observe([asked EXCEPT !.gaps = @ \cup {gap}])
       PROVE  TelemetryInv'
    <2>1. PICK next : next = [asked EXCEPT !.gaps = @ \cup {gap}]
        OBVIOUS
    <2>2. SeenOf(next, Root) /\ next.asked \in {1, 2}
        BY <1>8, <2>1 DEF SeenOf, SeenFields
    <2> QED BY <1>1, <1>10, <2>1, <2>2, ObserveKeepsIt
<1>11. ASSUME NEW lost, ~(QueryLimit < 1), \A f \in flows : Endpoint(f, direction) \in Rooted[Root] /\ Within(f.at),
              Observe([asked EXCEPT !.flows = @ \cup flows, !.gaps = @ \cup lost, !.answered = TRUE,
                                    !.truncated = @ \/ Cardinality(matching) > QueryLimit])
       PROVE  TelemetryInv'
    <2>1. PICK next : next = [asked EXCEPT !.flows = @ \cup flows, !.gaps = @ \cup lost, !.answered = TRUE,
                                           !.truncated = @ \/ Cardinality(matching) > QueryLimit]
        OBVIOUS
    <2>2. matching \in SUBSET Flows
        BY <1>4, <1>7 DEF Matching
    <2>3. flows \subseteq matching /\ (matching # {} => flows # {})
        <3>1. QueryLimit >= 1
            BY ONLY <1>11, QueryLimitIsTyped
        <3> QED BY <1>7, <2>2, <3>1, LastOfFlows
    <2>4. Cardinality(matching) > QueryLimit => flows # {}
        <3>1. IsFiniteSet(matching)
            BY <2>2, FlowsAreParsed, FS_Subset
        <3>2. matching = {} => Cardinality(matching) = 0
            BY FS_EmptySet
        <3> QED BY <1>11, <2>3, <3>2, QueryLimitIsTyped
    <2>5. \A f \in flows : f.from \in Rooted[Root] \/ f.to \in Rooted[Root]
        BY <1>6, <1>11 DEF Endpoint
    <2>6. /\ DOMAIN next = DOMAIN asked /\ next.flows = seen.flows \cup flows /\ next.asked = asked.asked
          /\ next.truncated = (seen.truncated \/ Cardinality(matching) > QueryLimit)
        BY <1>8, <2>1 DEF SeenOf, SeenFields
    <2>7. SeenOf(next, Root)
        BY <1>8, <1>11, <2>2, <2>3, <2>4, <2>5, <2>6 DEF SeenOf
    <2>8. next.asked \in {1, 2}
        BY <1>8, <2>6
    <2> QED BY <1>1, <1>11, <2>1, <2>7, <2>8, ObserveKeepsIt
<1>12. \/ Abandon("permanent")
       \/ /\ ~(QueryLimit < 1) /\ \A f \in flows : Endpoint(f, direction) \in Rooted[Root] /\ Within(f.at)
          /\ \E lost : Observe([asked EXCEPT !.flows = @ \cup flows, !.gaps = @ \cup lost, !.answered = TRUE,
                                             !.truncated = @ \/ Cardinality(matching) > QueryLimit])
       \/ \E gap : Observe([asked EXCEPT !.gaps = @ \cup {gap}])
    BY <1>3, <1>5, <1>7 DEF AskFlows
<1> QED BY ONLY <1>9, <1>10, <1>11, <1>12

LEMMA FlowsAreForgottenKeepsIt ==
    TelemetryInv /\ FlowsAreForgotten => TelemetryInv'
<1> SUFFICES ASSUME TelemetryInv, FlowsAreForgotten
             PROVE  TelemetryInv'
    OBVIOUS
<1>1. attempt.provider = "network-flows" /\ attempt.outcome = "collecting" /\ attempt' = attempt
    BY DEF FlowsAreForgotten, Working
<1>2. FlowsStand
    BY <1>1 DEF TelemetryInv, AttemptStands
<1>3. PICK oldest : source' = [source EXCEPT !.kept = @ \ {oldest}, !.throughout = @ \ {oldest}]
    BY DEF FlowsAreForgotten
<1>4. /\ DOMAIN source' = DOMAIN source /\ source'.kept = source.kept \ {oldest}
      /\ source'.throughout = source.throughout \ {oldest} /\ source'.ever = source.ever
    BY <1>2, <1>3 DEF FlowsStand, RelayHolds
<1>5. RelayHolds(source)'
    BY <1>2, <1>4 DEF FlowsStand, RelayHolds
<1>6. Seen' = Seen /\ Root' = Root
    BY <1>1 DEF Seen, Root
<1>7. FlowsStand'
    BY <1>1, <1>2, <1>5, <1>6 DEF FlowsStand
<1> QED BY <1>1, <1>7 DEF TelemetryInv, AttemptStands, Projected

-----------------------------------------------------------------------------
(* Kills                                                                   *)

LEMMA EarliestOfLines ==
    ASSUME LokiHolds(source), NEW lines \in SUBSET source.lines, NEW n \in Nat
    PROVE  Earliest(lines, n) \subseteq lines
<1>1. /\ IsFiniteSet(lines) /\ \A l \in lines : l.order \in Nat
      /\ \A k, l \in lines : k.order = l.order => k = l
    BY FS_Subset DEF LokiHolds
<1>2. PICK R : R = {p \in lines \X lines : p[1].order < p[2].order}
    OBVIOUS
<1>3. StrictOrder(lines, R)
    <2>1. \A k, l \in lines : <<k, l>> \in R <=> k.order < l.order
        BY <1>2
    <2> QED BY ONLY <1>1, <2>1 DEF StrictOrder
<1>4. PICK ordered : ordered = Sorted(lines, R)
    OBVIOUS
<1>5. ordered \in Seq(lines) /\ Range(ordered) = lines
    BY ONLY <1>1, <1>3, <1>4, SortedMembers
<1>6. PICK m : m = Min({n, Len(ordered)})
    OBVIOUS
<1>7. m \in 0..Len(ordered)
    <2>1. Len(ordered) \in Nat
        BY <1>5
    <2> QED BY ONLY <1>6, <2>1, n \in Nat, LesserOfTwo
<1>8. Earliest(lines, n) = Range(SubSeq(ordered, 1, m))
    BY ONLY <1>2, <1>4, <1>6 DEF Earliest, Ordered
<1>9. Range(SubSeq(ordered, 1, m)) \subseteq Range(ordered)
    BY ONLY <1>5, <1>7, MembersOfPrefix
<1> QED BY ONLY <1>5, <1>8, <1>9

LEMMA KillDraftIsProjectable ==
    ASSUME NEW pod, pod.uid # Unidentified, NEW lines, IsFiniteSet(lines), lines # {},
           \A l \in lines : l.at \in Int /\ Within(l.at)
    PROVE  Projectable(KillDraft(pod, lines))
<1>1. PICK e : e = KillDraft(pod, lines)
    OBVIOUS
<1>2. PICK times, at : times = {l.at : l \in lines} /\ at = [l \in lines |-> l.at]
    OBVIOUS
<1>3. /\ e.origin = KillOrigin /\ e.subject.kind = "Pod" /\ e.subject.uid = pod.uid /\ e.facts.uid = pod.uid
      /\ e.facts.count = Cardinality(lines) /\ e.facts.first = Min(times) /\ e.facts.last = Max(times)
    BY <1>1, <1>2 DEF KillDraft, Drafted, Subject
<1>4. Cardinality(lines) \in Nat /\ Cardinality(lines) # 0
    BY FS_CardinalityType, FS_EmptySet
<1>5. /\ \A t : t \in times <=> \E l \in lines : t = at[l]
      /\ \A l \in lines : at[l] = l.at /\ at[l] \in Int
    BY <1>2
<1>6. Min(times) <= Max(times) /\ \E k, l \in lines : Min(times) = at[k] /\ Max(times) = at[l]
    BY ONLY <1>5, lines # {}, IsFiniteSet(lines), FirstAndLast
<1>7. AcceptsKills(e)
    BY <1>3, <1>4, <1>5, <1>6 DEF AcceptsKills
<1>8. SupportsKills(e)
    BY <1>3 DEF SupportsKills
<1> QED BY <1>1, <1>7, <1>8, AcceptedIsProjectable

\* Pods only go, and their kills stay.
LEMMA PodsGo ==
    ASSUME LokiHolds(source), PodsChange
    PROVE  LokiHolds(source') /\ Range(source'.pods) \subseteq Range(source.pods) /\ source'.lines = source.lines
<1>1. PICK pod :
        source' = [source EXCEPT !.pods = Picked(source.pods, {k \in DOMAIN source.pods : source.pods[k] # pod})]
    BY DEF PodsChange, Filtered
<1>2. PICK places : places = {k \in DOMAIN source.pods : source.pods[k] # pod}
    OBVIOUS
<1>3. PICK pods : pods = Picked(source.pods, places)
    OBVIOUS
<1>4. source' = [source EXCEPT !.pods = pods]
    BY <1>1, <1>2, <1>3
<1>5. source.pods \in Seq(Range(source.pods)) /\ places \in SUBSET (DOMAIN source.pods)
    BY <1>2 DEF LokiHolds
<1>6. pods \in Seq(Range(pods)) /\ \A x : x \in Range(pods) <=> \E p \in places : x = source.pods[p]
    BY ONLY <1>3, <1>5, MembersOfPicked
<1>7. Range(pods) \subseteq Range(source.pods)
    BY <1>5, <1>6 DEF Range
<1>8. DOMAIN source' = DOMAIN source /\ source'.pods = pods /\ source'.lines = source.lines
    BY <1>4 DEF LokiHolds
<1> QED BY <1>6, <1>7, <1>8 DEF LokiHolds

LEMMA PodsChangeKeepsIt ==
    TelemetryInv /\ PodsChange => TelemetryInv'
<1> SUFFICES ASSUME TelemetryInv, PodsChange
             PROVE  TelemetryInv'
    OBVIOUS
<1>1. attempt.provider = "kernel-log" /\ attempt.outcome = "collecting" /\ attempt' = attempt
    BY DEF PodsChange, Working
<1>2. KillsStand
    BY <1>1 DEF TelemetryInv, AttemptStands
<1>4. LokiHolds(source)'
    BY <1>2, PodsGo DEF KillsStand, LokiHolds
<1>5. Listed'.found = Listed.found
    BY <1>1 DEF Listed, NoPods
<1>6. KillsStand'
    BY <1>2, <1>4, <1>5 DEF KillsStand
<1> QED BY <1>1, <1>6 DEF TelemetryInv, AttemptStands, Projected

LEMMA ListPodsKeepsIt ==
    TelemetryInv /\ ListPods => TelemetryInv'
<1> SUFFICES ASSUME TelemetryInv, ListPods
             PROVE  TelemetryInv'
    OBVIOUS
<1>1. attempt.provider = "kernel-log" /\ attempt.outcome = "collecting" /\ source' = source
    BY DEF ListPods, Working
<1>2. KillsStand /\ DOMAIN attempt = AttemptFields
    BY <1>1 DEF TelemetryInv, AttemptStands
<1>3. \/ Abandon("permanent") \/ Deliver({}, FALSE) \/ Fails
      \/ \E read : /\ DOMAIN read # {} /\ \A p \in read.found : p.uid # Unidentified
                   /\ attempt' = [attempt EXCEPT !.read = read]
    <2> DEFINE page == SubSeq(Listed.rest, 1, Min({PodPage, MaxPods - Listed.raw, Len(Listed.rest)}))
               rest == SubSeq(Listed.rest, Len(page) + 1, Len(Listed.rest))
               scoped == {p \in Range(page) : p.name \in Scoped}
               found == Listed.found \cup scoped
               raw == Listed.raw + Len(page)
    <2>1. \/ IF \/ \E p \in scoped : p.uid = Unidentified
                \/ \E p, q \in found : p.uid = q.uid /\ p.name # q.name
                \/ rest # <<>> /\ raw >= MaxPods
             THEN Abandon("permanent")
             ELSE IF rest = <<>> /\ found = {} THEN Deliver({}, FALSE)
             ELSE attempt' = [attempt EXCEPT !.read = [found |-> found, rest |-> rest, raw |-> raw,
                                                       complete |-> rest = <<>>]]
          \/ Fails
        BY DEF ListPods
    <2>2. (\A p \in scoped : p.uid # Unidentified) => \A p \in found : p.uid # Unidentified
        BY <1>2 DEF KillsStand
    <2>3. PICK read : read = [found |-> found, rest |-> rest, raw |-> raw, complete |-> rest = <<>>]
        OBVIOUS
    <2> HIDE DEF page, rest, scoped, found, raw
    <2>4. DOMAIN read # {} /\ read.found = found
        BY ONLY <2>3
    <2>5. \/ Abandon("permanent") \/ Deliver({}, FALSE) \/ Fails
          \/ (\A p \in scoped : p.uid # Unidentified) /\ attempt' = [attempt EXCEPT !.read = read]
        BY ONLY <2>1, <2>3
    <2> QED BY ONLY <2>2, <2>4, <2>5
<1>4. CASE Abandon("permanent")
    BY <1>4, AbandonKeepsIt DEF Errors
<1>5. CASE Deliver({}, FALSE)
    <2>1. PICK none, whole : none = {} /\ whole = FALSE
        OBVIOUS
    <2>2. Deliver(none, whole) /\ \A e \in none : Projectable(e)
        BY <1>5, <2>1
    <2> QED BY <2>2, DeliveryKeepsIt
<1>6. ASSUME NEW read, DOMAIN read # {}, \A p \in read.found : p.uid # Unidentified,
             attempt' = [attempt EXCEPT !.read = read]
      PROVE  TelemetryInv'
    <2>1. /\ DOMAIN attempt' = AttemptFields /\ attempt'.provider = attempt.provider
          /\ attempt'.read = read /\ attempt'.drafts = attempt.drafts
        BY <1>2, <1>6 DEF AttemptFields
    <2>2. read # <<>>
        <3>1. DOMAIN <<>> = {}
            OBVIOUS
        <3> QED BY <1>6, <3>1
    <2>3. Listed' = read
        BY <2>1, <2>2 DEF Listed
    <2>4. KillsStand'
        BY <1>1, <1>2, <1>6, <2>3 DEF KillsStand, LokiHolds
    <2> QED BY <1>1, <2>1, <2>4 DEF TelemetryInv, AttemptStands, Projected
<1> QED BY <1>3, <1>4, <1>5, <1>6, FailureKeepsIt

LEMMA AskKillsKeepsIt ==
    TelemetryInv /\ AskKills => TelemetryInv'
<1> SUFFICES ASSUME TelemetryInv, AskKills
             PROVE  TelemetryInv'
    OBVIOUS
<1>1. attempt.provider = "kernel-log" /\ attempt.outcome = "collecting"
    BY DEF AskKills, Working
<1>2. LokiHolds(source) /\ \A p \in Listed.found : p.uid # Unidentified
    BY <1>1 DEF TelemetryInv, AttemptStands, KillsStand
<1> DEFINE uids == {p.uid : p \in Listed.found}
           matching == {l \in source.lines : l.uid \in uids /\ Within(l.at)}
           answer == Earliest(matching, MaxKills + 1)
           DraftsOf(kept) == {KillDraft(p, {l \in kept : l.uid = p.uid}) :
                                p \in {q \in Listed.found : \E l \in kept : l.uid = q.uid}}
<1>3. answer \subseteq matching
    <2>1. matching \in SUBSET source.lines /\ MaxKills + 1 \in Nat
        BY FlowLimits
    <2> QED BY <1>2, <2>1, EarliestOfLines
<1>4. ASSUME NEW kept, kept \subseteq matching
      PROVE  \A e \in DraftsOf(kept) : Projectable(e)
    <2> SUFFICES ASSUME NEW p \in Listed.found, NEW k \in kept, k.uid = p.uid
                 PROVE  Projectable(KillDraft(p, {l \in kept : l.uid = p.uid}))
        OBVIOUS
    <2>1. PICK lines : lines = {l \in kept : l.uid = p.uid}
        OBVIOUS
    <2>2. lines \in SUBSET source.lines /\ lines # {}
        BY <1>4, <2>1
    <2>3. IsFiniteSet(lines) /\ \A l \in lines : l.at \in Int /\ Within(l.at)
        BY <1>2, <1>4, <2>1, <2>2, FS_Subset DEF LokiHolds
    <2> QED BY <1>2, <2>1, <2>2, <2>3, KillDraftIsProjectable
<1>5. \/ Abandon("permanent")
      \/ DeliverWithinBudget(DraftsOf(answer), FALSE)
      \/ \E last : DeliverWithinBudget(DraftsOf(answer \ {last}), TRUE)
      \/ Fails
    <2> DEFINE Stream(uid) == {l \in answer : l.uid = uid}
    <2>1. \/ IF \E l \in answer : l.path # l.uid THEN Abandon("permanent")
             ELSE IF ~(Cardinality(answer) > MaxKills) THEN DeliverWithinBudget(DraftsOf(answer), FALSE)
             ELSE \E uid \in {l.uid : l \in answer} :
                    LET last == CHOOSE l \in Stream(uid) : \A k \in Stream(uid) : k.order <= l.order
                    IN  DeliverWithinBudget(DraftsOf(answer \ {last}), TRUE)
          \/ Fails
        BY DEF AskKills
    <2> HIDE DEF DraftsOf, answer, Stream
    <2> QED BY ONLY <2>1
<1> HIDE DEF DraftsOf, answer
<1>6. CASE Abandon("permanent")
    BY <1>6, AbandonKeepsIt DEF Errors
<1>7. CASE DeliverWithinBudget(DraftsOf(answer), FALSE)
    BY <1>3, <1>4, <1>7, DeliveryKeepsIt
<1>8. ASSUME NEW last, DeliverWithinBudget(DraftsOf(answer \ {last}), TRUE)
      PROVE  TelemetryInv'
    <2>1. answer \ {last} \subseteq matching
        BY <1>3
    <2>2. \A e \in DraftsOf(answer \ {last}) : Projectable(e)
        BY <1>4, <2>1
    <2> QED BY <1>8, <2>2, DeliveryKeepsIt
<1> QED BY <1>5, <1>6, <1>7, <1>8, FailureKeepsIt

-----------------------------------------------------------------------------
(* Deployments                                                             *)

LEMMA KeptSetsOf ==
    ASSUME NEW sets, SetsAreKept(sets), NEW some \in SUBSET sets
    PROVE  SetsAreKept(some)
BY FS_Subset DEF SetsAreKept

LEMMA LatestIsNewest ==
    ASSUME NEW sets, SetsAreKept(sets)
    PROVE  Latest(sets) \in Nat /\ \A s \in sets : s.revision <= Latest(sets)
<1>1. PICK revision, revisions : revision = [s \in sets |-> s.revision] /\ revisions = Revisions(sets)
    OBVIOUS
<1>2. revisions = {revision[s] : s \in sets}
    BY <1>1 DEF Revisions
<1>3. IsFiniteSet(sets) /\ \A s \in sets : revision[s] = s.revision /\ revision[s] \in Nat
    BY <1>1 DEF SetsAreKept
<1>4. IsFiniteSet(revisions)
    BY ONLY <1>2, <1>3, KeysAreFinite
<1>5. CASE sets = {}
    BY <1>5 DEF Latest
<1>6. CASE sets # {}
    <2>1. revisions \in SUBSET Int /\ revisions \in SUBSET Nat /\ revisions # {}
        BY ONLY <1>2, <1>3, <1>6
    <2>2. Max(revisions) \in revisions /\ \A r \in revisions : r <= Max(revisions)
        BY ONLY <1>4, <2>1, GreatestNumber
    <2>3. Latest(sets) = Max(revisions)
        BY <1>1, <1>6 DEF Latest
    <2>4. \A s \in sets : s.revision \in revisions
        BY ONLY <1>2, <1>3
    <2> QED BY ONLY <2>1, <2>2, <2>3, <2>4
<1> QED BY <1>5, <1>6

\* A roll-out or a roll-back keeps the sets apart, by their templates and their revisions.
LEMMA RollOutKeepsSets ==
    ASSUME ControllerHolds(source), RollOut
    PROVE  ControllerHolds(source') /\ Deployments' = Deployments
<1> DEFINE Next(t) == Latest(source.sets) + 1
           Old(t) == {s \in source.sets : s.template = t}
           Set(t) == IF Old(t) = {} THEN [template |-> t, revision |-> Next(t), created |-> source.now]
                     ELSE [(CHOOSE s \in Old(t) : TRUE) EXCEPT !.revision = Next(t)]
<1>0. PICK template \in Templates :
        source' = [source EXCEPT !.sets = Pruned((@ \ Old(template)) \cup {Set(template)}, template),
                                 !.template = template, !.changed = @ \cup {source.now}]
    BY DEF RollOut
<1>1. PICK next, old, set :
        /\ next = Latest(source.sets) + 1 /\ old = {s \in source.sets : s.template = template}
        /\ set = (IF old = {} THEN [template |-> template, revision |-> next, created |-> source.now]
                  ELSE [(CHOOSE s \in old : TRUE) EXCEPT !.revision = next])
        /\ source' = [source EXCEPT !.sets = Pruned((@ \ old) \cup {set}, template), !.template = template,
                                    !.changed = @ \cup {source.now}]
    BY <1>0
<1> HIDE DEF Next, Old, Set
<1>2. SetsAreKept(source.sets) /\ source.now \in Nat
    BY DEF ControllerHolds
<1>3. next \in Nat /\ next > 0 /\ \A s \in source.sets : s.revision < next
    <2>1. \A s \in source.sets : s.revision \in Nat
        BY <1>2 DEF SetsAreKept
    <2>2. Latest(source.sets) \in Nat /\ \A s \in source.sets : s.revision <= Latest(source.sets)
        BY <1>2, LatestIsNewest
    <2> QED BY ONLY <1>1, <2>1, <2>2
<1>4. /\ set.template = template /\ set.revision = next /\ DOMAIN set = {"template", "revision", "created"}
      /\ set.created \in Int
    <2>1. CASE old = {}
        BY <1>1, <1>2, <2>1
    <2>2. CASE old # {}
        <3>1. PICK s : s = (CHOOSE t \in old : TRUE)
            OBVIOUS
        <3>2. s \in old
            BY <2>2, <3>1
        <3>3. DOMAIN s = {"template", "revision", "created"} /\ s.template = template /\ s.created \in Int
            BY <1>1, <1>2, <3>2 DEF SetsAreKept
        <3>4. set = [s EXCEPT !.revision = next]
            BY <1>1, <2>2, <3>1
        <3> QED BY ONLY <3>3, <3>4
    <2> QED BY <2>1, <2>2
<1>5. PICK sets : sets = (source.sets \ old) \cup {set}
    OBVIOUS
<1>6. SetsAreKept(sets)
    <2>1. IsFiniteSet(sets)
        <3>1. IsFiniteSet(source.sets \ old)
            BY <1>2, FS_Difference DEF SetsAreKept
        <3> QED BY ONLY <1>5, <3>1, FS_AddElement
    <2>2. template \in Nat
        BY HistoryLimits
    <2>3. \A s \in source.sets \ old : s.template # template /\ s \in source.sets
        BY <1>1
    <2> QED BY <1>2, <1>3, <1>4, <1>5, <2>1, <2>2, <2>3 DEF SetsAreKept
<1>7. Pruned(sets, template) \in SUBSET sets
    BY DEF Pruned
<1>8. SetsAreKept(Pruned(sets, template))
    BY <1>6, <1>7, KeptSetsOf
<1>9. /\ DOMAIN source' = DOMAIN source /\ source'.sets = Pruned(sets, template)
      /\ source'.now = source.now /\ source'.names = source.names
    BY <1>1, <1>5 DEF ControllerHolds
<1> QED BY <1>2, <1>8, <1>9 DEF ControllerHolds, Deployments

\* What the controller does changes nothing that was read.
LEMMA ControllerKeepsIt ==
    TelemetryInv /\ (ClockTicks \/ RollOut) => TelemetryInv'
<1> SUFFICES ASSUME TelemetryInv, ClockTicks \/ RollOut
             PROVE  TelemetryInv'
    OBVIOUS
<1>1. attempt.provider = "deployments" /\ attempt.outcome = "collecting" /\ attempt' = attempt
    BY DEF ClockTicks, RollOut, Working
<1>2. HistoryStands
    BY <1>1 DEF TelemetryInv, AttemptStands
<1>3. ControllerHolds(source') /\ Deployments' = Deployments
    <2>1. CASE ClockTicks
        <3>1. source' = [source EXCEPT !.now = @ + 1]
            BY <2>1 DEF ClockTicks
        <3> QED BY <1>2, <3>1 DEF HistoryStands, ControllerHolds, Deployments
    <2>2. CASE RollOut
        BY <1>2, <2>2, RollOutKeepsSets DEF HistoryStands
    <2> QED BY <2>1, <2>2
<1>4. List' = List
    BY <1>1 DEF List
<1>5. HistoryStands'
    BY <1>1, <1>2, <1>3, <1>4 DEF HistoryStands
<1> QED BY <1>1, <1>5 DEF TelemetryInv, AttemptStands, Projected

LEMMA InOrderLists ==
    ASSUME NEW sets, SetsAreKept(sets)
    PROVE  InOrder(sets) \in Seq(sets) /\ Range(InOrder(sets)) = sets
<1>1. PICK R : R = {p \in sets \X sets : p[1].template < p[2].template}
    OBVIOUS
<1>2. StrictOrder(sets, R)
    <2>1. \A s, t \in sets : <<s, t>> \in R <=> s.template < t.template
        BY <1>1
    <2>2. \A s, t \in sets : s.template \in Nat /\ (s.template = t.template => s = t)
        BY DEF SetsAreKept
    <2> QED BY ONLY <2>1, <2>2 DEF StrictOrder
<1>3. InOrder(sets) = Sorted(sets, R)
    BY <1>1 DEF InOrder, Ordered
<1>4. IsFiniteSet(sets)
    BY DEF SetsAreKept
<1> QED BY ONLY <1>2, <1>3, <1>4, SortedMembers

LEMMA NoListStands ==
    ASSUME NEW restarted
    PROVE  ListStands([NoList EXCEPT !.restarted = restarted]) /\ ListStands(NoList)
<1>1. Range(<<>>) = {} /\ <<>> \in Seq({}) /\ Len(<<>>) = 0
    BY DEF Range
<1>2. SetsAreKept({} \cup {})
    BY FS_EmptySet DEF SetsAreKept
<1>3. PICK list : list = [NoList EXCEPT !.restarted = restarted]
    OBVIOUS
<1>4. /\ DOMAIN list = ListFields /\ list.sets = <<>> /\ list.rest = <<>> /\ list.listed = FALSE
      /\ DOMAIN NoList = ListFields /\ NoList.sets = <<>> /\ NoList.rest = <<>> /\ NoList.listed = FALSE
    BY <1>3 DEF NoList, ListFields
<1>5. 0 < MaxReplicaSets
    BY HistoryLimits
<1>6. ListStands(list) /\ ListStands(NoList)
    BY ONLY <1>1, <1>2, <1>4, <1>5 DEF ListStands
<1> QED BY <1>3, <1>6

\* One more page of a list.
LEMMA PageOfListStands ==
    ASSUME NEW list, ListStands(list), ~list.listed, NEW rest, rest \in Seq(Range(rest)),
           SetsAreKept(Range(list.sets) \cup Range(rest)),
           NEW n, n = Min({SetPage, MaxReplicaSets - Len(list.sets), Len(rest)}),
           NEW sets, sets = list.sets \o SubSeq(rest, 1, n),
           NEW next, DOMAIN next = ListFields, next.sets = sets, next.rest = SubSeq(rest, n + 1, Len(rest)),
           next.open, ~next.listed => ~(Len(sets) >= MaxReplicaSets)
    PROVE  ListStands(next)
<1>1. n \in 0..Len(rest)
    <2>1. PICK a, b, c : a = SetPage /\ b = MaxReplicaSets - Len(list.sets) /\ c = Len(rest)
        OBVIOUS
    <2>2. a \in Nat /\ b \in Nat /\ c \in Nat
        <3>1. Len(list.sets) \in Nat /\ Len(rest) \in Nat /\ Len(list.sets) < MaxReplicaSets
            BY DEF ListStands
        <3> QED BY ONLY <2>1, <3>1, HistoryLimits
    <2>3. \E x \in {a, b, c} : \A y \in {a, b, c} : x <= y
        BY ONLY <2>2
    <2>4. n \in {a, b, c} /\ \A y \in {a, b, c} : n <= y
        BY <2>1, <2>3 DEF Min
    <2> QED BY ONLY <2>1, <2>2, <2>4
<1>2. PICK page, after : page = SubSeq(rest, 1, n) /\ after = SubSeq(rest, n + 1, Len(rest))
    OBVIOUS
<1>3. /\ page \in Seq(Range(page)) /\ after \in Seq(Range(after)) /\ page \o after = rest
      /\ Range(page) \subseteq Range(rest)
    BY ONLY <1>1, <1>2, rest \in Seq(Range(rest)), MembersOfPrefix
<1>4. Range(after) \subseteq Range(rest)
    <2>1. Range(page \o after) = Range(page) \cup Range(after)
        BY ONLY <1>3, MembersOfConcat
    <2> QED BY ONLY <1>3, <2>1
<1>5. list.sets \in Seq(Range(list.sets))
    BY DEF ListStands
<1>6. sets \in Seq(Range(sets)) /\ Range(sets) = Range(list.sets) \cup Range(page)
    BY ONLY <1>2, <1>3, <1>5, sets = list.sets \o SubSeq(rest, 1, n), MembersOfConcat
<1>7. SetsAreKept(Range(sets) \cup Range(after))
    <2>1. Range(sets) \cup Range(after) \in SUBSET (Range(list.sets) \cup Range(rest))
        BY ONLY <1>3, <1>4, <1>6
    <2> QED BY <2>1, KeptSetsOf
<1>8. ~next.listed => Len(sets) < MaxReplicaSets
    <2>1. Len(sets) \in Nat /\ MaxReplicaSets \in Nat
        BY <1>6, HistoryLimits
    <2>2. ~(Len(sets) >= MaxReplicaSets) => Len(sets) < MaxReplicaSets
        BY ONLY <2>1
    <2> QED BY <2>2
<1> QED BY <1>2, <1>3, <1>6, <1>7, <1>8 DEF ListStands

LEMMA ListReplicaSetsKeepsIt ==
    TelemetryInv /\ ListReplicaSets => TelemetryInv'
<1> SUFFICES ASSUME TelemetryInv, ListReplicaSets
             PROVE  TelemetryInv'
    OBVIOUS
<1>1. attempt.provider = "deployments" /\ attempt.outcome = "collecting" /\ source' = source /\ ~List.listed
    BY DEF ListReplicaSets, Working
<1>2. HistoryStands /\ DOMAIN attempt = AttemptFields
    BY <1>1 DEF TelemetryInv, AttemptStands
<1>3. ASSUME NEW list, ListStands(list), attempt' = [attempt EXCEPT !.read = list]
      PROVE  TelemetryInv'
    <2>1. /\ DOMAIN attempt' = AttemptFields /\ attempt'.provider = attempt.provider
          /\ attempt'.outcome = attempt.outcome /\ attempt'.at = attempt.at
          /\ attempt'.read = list /\ attempt'.drafts = attempt.drafts
        BY <1>2, <1>3 DEF AttemptFields
    <2>2. list # <<>>
        <3>1. DOMAIN <<>> = {}
            OBVIOUS
        <3> QED BY <1>3, <3>1 DEF ListStands, ListFields
    <2>3. List' = list
        BY <2>1, <2>2 DEF List
    <2>4. Deployments' = Deployments
        BY <1>1 DEF Deployments
    <2>5. HistoryStands'
        BY <1>1, <1>2, <1>3, <2>1, <2>3, <2>4 DEF HistoryStands, ListStands
    <2> QED BY <1>1, <2>1, <2>5 DEF TelemetryInv, AttemptStands, Projected
<1>4. PICK rest : rest = (IF List.open THEN List.rest ELSE InOrder(source.sets))
    OBVIOUS
<1>5. rest \in Seq(Range(rest)) /\ SetsAreKept(Range(List.sets) \cup Range(rest))
    <2>1. CASE List.open
        BY <1>2, <1>4, <2>1 DEF HistoryStands, ListStands
    <2>2. CASE ~List.open
        <3>1. SetsAreKept(source.sets) /\ List.sets = <<>>
            BY <1>2, <2>2 DEF HistoryStands, ListStands, ControllerHolds
        <3>2. rest \in Seq(source.sets) /\ Range(rest) = source.sets
            BY <1>4, <2>2, <3>1, InOrderLists
        <3>3. Range(<<>>) = {}
            BY DEF Range
        <3>4. Range(List.sets) \cup Range(rest) = source.sets
            BY ONLY <3>1, <3>2, <3>3
        <3> QED BY <3>1, <3>2, <3>4
    <2> QED BY <2>1, <2>2
<1>6. \/ Fails
      \/ \E restarted : attempt' = [attempt EXCEPT !.read = [NoList EXCEPT !.restarted = restarted]]
      \/ \E list : ListStands(list) /\ attempt' = [attempt EXCEPT !.read = list]
    <2> DEFINE n == Min({SetPage, MaxReplicaSets - Len(List.sets), Len(rest)})
               sets == List.sets \o SubSeq(rest, 1, n)
               more == n < Len(rest)
               full == Len(sets) >= MaxReplicaSets
    <2>1. \/ attempt' = [attempt EXCEPT !.read =
                [List EXCEPT !.sets = sets, !.open = TRUE, !.rest = SubSeq(rest, n + 1, Len(rest)),
                             !.listed = ~more \/ full, !.truncated = more /\ full]]
          \/ \E restarted : attempt' = [attempt EXCEPT !.read = [NoList EXCEPT !.restarted = restarted]]
          \/ Fails
        BY <1>4 DEF ListReplicaSets
    <2>2. PICK next : next = [List EXCEPT !.sets = sets, !.open = TRUE, !.rest = SubSeq(rest, n + 1, Len(rest)),
                                          !.listed = ~more \/ full, !.truncated = more /\ full]
        OBVIOUS
    <2>3. DOMAIN List = ListFields
        BY <1>2 DEF HistoryStands, ListStands
    <2>4. PICK m, all : m = n /\ all = sets
        OBVIOUS
    <2>5. /\ m = Min({SetPage, MaxReplicaSets - Len(List.sets), Len(rest)})
          /\ all = List.sets \o SubSeq(rest, 1, m)
        BY <2>4
    <2>6. DOMAIN next = ListFields /\ next.sets = all /\ next.rest = SubSeq(rest, m + 1, Len(rest))
        BY ONLY <2>2, <2>3, <2>4 DEF ListFields
    <2>7. next.open /\ (~next.listed => ~(Len(all) >= MaxReplicaSets))
        <3>1. next.open = TRUE /\ next.listed = (~more \/ full)
            BY ONLY <2>2, <2>3 DEF ListFields
        <3>2. full = (Len(all) >= MaxReplicaSets)
            BY <2>4
        <3> HIDE DEF more, full
        <3> QED BY ONLY <3>1, <3>2
    <2> HIDE DEF n, sets, more, full
    <2>8. ListStands(List)
        BY <1>2 DEF HistoryStands
    <2>9. ListStands(next)
        BY ONLY <1>1, <1>5, <2>5, <2>6, <2>7, <2>8, PageOfListStands
    <2> QED BY ONLY <2>1, <2>2, <2>9
<1>7. ASSUME NEW restarted, attempt' = [attempt EXCEPT !.read = [NoList EXCEPT !.restarted = restarted]]
      PROVE  TelemetryInv'
    BY <1>3, <1>7, NoListStands
<1> QED BY <1>3, <1>6, <1>7, FailureKeepsIt

LEMMA ChangeIsProjectable ==
    ASSUME NEW owned, SetsAreKept(owned), NEW set \in owned, set.revision > 0, NEW name, NEW completeness
    PROVE  Projectable(ChangeDraft(name, set, owned, completeness))
<1>1. PICK e : e = ChangeDraft(name, set, owned, completeness)
    OBVIOUS
<1>2. /\ e.origin = ChangeOrigin /\ e.subject.kind = "Deployment" /\ e.subject.exists = TRUE
      /\ e.facts.status = "CHANGE_DETECTED" /\ e.facts.changed = {"pod_template"}
      /\ e.facts.revision = set.revision /\ e.facts.previous = PreviousRevision(owned, set.revision)
    BY <1>1 DEF ChangeDraft, Drafted, Subject
<1>3. PreviousRevision(owned, set.revision) = 0 \/ PreviousRevision(owned, set.revision) < set.revision
    <2>1. PICK revision, revisions : revision = [s \in owned |-> s.revision] /\ revisions = Revisions(owned)
        OBVIOUS
    <2>2. revisions = {revision[s] : s \in owned}
        BY <2>1 DEF Revisions
    <2>3. IsFiniteSet(owned) /\ \A s \in owned : revision[s] \in Nat
        BY <2>1 DEF SetsAreKept
    <2>4. IsFiniteSet(revisions)
        BY ONLY <2>2, <2>3, KeysAreFinite
    <2>5. PICK before : before = {r \in revisions : r < set.revision}
        OBVIOUS
    <2>6. before \in SUBSET revisions /\ before \in SUBSET Int
        BY ONLY <2>2, <2>3, <2>5
    <2>7. IsFiniteSet(before)
        BY ONLY <2>4, <2>6, FS_Subset
    <2>8. before # {} => Max(before) \in before
        BY ONLY <2>6, <2>7, GreatestNumber
    <2>9. PreviousRevision(owned, set.revision) = IF before = {} THEN 0 ELSE Max(before)
        BY <2>1, <2>5 DEF PreviousRevision
    <2> QED BY ONLY <2>5, <2>8, <2>9
<1>4. AcceptsChange(e)
    BY <1>2, <1>3 DEF AcceptsChange
<1>5. SupportsChange(e)
    BY <1>2 DEF SupportsChange
<1> QED BY <1>1, <1>4, <1>5, AcceptedIsProjectable

LEMMA AbsenceIsProjectable ==
    ASSUME NEW e, e.origin = ChangeOrigin, e.subject.kind = "Deployment", e.facts.changed = {},
           \/ e.facts.status \in {"NO_CHANGES", "HISTORY_INCOMPLETE"}
           \/ e.facts.status = "DEPLOYMENT_NOT_FOUND" /\ ~e.subject.exists
    PROVE  Projectable(e)
<1>1. AcceptsChange(e)
    BY DEF AcceptsChange
<1>2. SupportsChange(e)
    BY DEF SupportsChange
<1> QED BY <1>1, <1>2, AcceptedIsProjectable

\* One draft for a revision of the Deployment.
Answers(name, drafts) ==
    /\ IsFiniteSet(drafts)
    /\ \A d \in drafts : Projectable(d) /\ d.subject.name = name /\ d.facts.revision \in Nat
    /\ \A d, e \in drafts : d.facts.revision = e.facts.revision => d = e

LEMMA HistoryAnswers ==
    ASSUME HistoryStands, NEW name
    PROVE  Answers(name, History(name).drafts)
<1> DEFINE sets == Range(List.sets)
           owned == {s \in sets : s.revision > 0}
           malformed == \E s \in sets : s.revision = 0
           current == IF source.annotated THEN Latest(source.sets) ELSE Latest(owned)
           completeness == IF List.truncated \/ malformed THEN 6 ELSE 10
           incomplete == List.truncated \/ malformed \/ current = 0
           inWindow == {s \in owned : Within(s.created)}
           absence == Drafted(ChangeOrigin, Subject("Deployment", name, name), Window[2], completeness,
                           [ChangeFacts(IF incomplete THEN "HISTORY_INCOMPLETE" ELSE "NO_CHANGES", Cardinality(owned))
                               EXCEPT !.current = current])
           drafts == IF inWindow = {} THEN {absence} ELSE {ChangeDraft(name, s, owned, completeness) : s \in inWindow}
<1>1. History(name).drafts = drafts
    BY DEF History
<1>2. SetsAreKept(owned)
    <2>1. SetsAreKept(Range(List.sets) \cup Range(List.rest))
        BY DEF HistoryStands, ListStands
    <2>2. owned \in SUBSET (Range(List.sets) \cup Range(List.rest))
        OBVIOUS
    <2> HIDE DEF owned
    <2> QED BY <2>1, <2>2, KeptSetsOf
<1>3. \A s \in owned : s.revision > 0
    OBVIOUS
<1>4. CASE inWindow = {}
    <2>1. PICK told : told = (IF incomplete THEN "HISTORY_INCOMPLETE" ELSE "NO_CHANGES")
        OBVIOUS
    <2>2. told \in {"NO_CHANGES", "HISTORY_INCOMPLETE"}
        BY ONLY <2>1
    <2>3. /\ absence.origin = ChangeOrigin /\ absence.subject = Subject("Deployment", name, name)
          /\ absence.facts = [ChangeFacts(told, Cardinality(owned)) EXCEPT !.current = current]
        BY <2>1 DEF Drafted
    <2> HIDE DEF absence, owned, current
    <2>4. /\ absence.subject.kind = "Deployment" /\ absence.subject.name = name
          /\ absence.facts.status = told /\ absence.facts.changed = {} /\ absence.facts.revision = 0
        BY ONLY <2>3 DEF ChangeFacts, Subject
    <2>5. Projectable(absence)
        BY <2>2, <2>3, <2>4, AbsenceIsProjectable
    <2>6. drafts = {absence}
        BY <1>4
    <2>7. IsFiniteSet({absence})
        BY FS_Singleton
    <2>8. History(name).drafts = {absence}
        BY <1>1, <2>6
    <2> QED BY ONLY <2>4, <2>5, <2>7, <2>8 DEF Answers
<1>5. CASE inWindow # {}
    <2>1. PICK draft : draft = [s \in inWindow |-> ChangeDraft(name, s, owned, completeness)]
        OBVIOUS
    <2>2. drafts = {draft[s] : s \in inWindow}
        BY <1>5, <2>1
    <2>3. inWindow \in SUBSET owned
        OBVIOUS
    <2> HIDE DEF inWindow, owned, completeness, drafts
    <2>4. ASSUME NEW s \in inWindow
          PROVE  Projectable(draft[s]) /\ draft[s].subject.name = name /\ draft[s].facts.revision = s.revision
        <3>1. Projectable(ChangeDraft(name, s, owned, completeness))
            BY <1>2, <1>3, <2>3, ChangeIsProjectable
        <3> QED BY <2>1, <3>1 DEF ChangeDraft, Drafted, Subject
    <2>5. IsFiniteSet(inWindow)
        BY <1>2, <2>3, FS_Subset DEF SetsAreKept
    <2>6. IsFiniteSet(drafts)
        BY ONLY <2>2, <2>5, KeysAreFinite
    <2>7. \A s, t \in inWindow : s.revision \in Nat /\ (s.revision = t.revision => s = t)
        BY <1>2, <1>3, <2>3 DEF SetsAreKept
    <2>8. \A d \in drafts : Projectable(d) /\ d.subject.name = name /\ d.facts.revision \in Nat
        BY <2>2, <2>4, <2>7
    <2>9. \A d, e \in drafts : d.facts.revision = e.facts.revision => d = e
        <3> SUFFICES ASSUME NEW s \in inWindow, NEW t \in inWindow, draft[s].facts.revision = draft[t].facts.revision
                     PROVE  draft[s] = draft[t]
            BY <2>2
        <3> QED BY <2>4, <2>7
    <2> QED BY <1>1, <2>6, <2>8, <2>9 DEF Answers
<1> QED BY <1>4, <1>5

LEMMA NotFoundAnswers ==
    ASSUME NEW name
    PROVE  Answers(name, NotFound(name).drafts)
<1>1. PICK subject : subject = [Subject("Deployment", name, Unidentified) EXCEPT !.exists = FALSE]
    OBVIOUS
<1>2. PICK e : e = Drafted(ChangeOrigin, subject, Window[2], 0, ChangeFacts("DEPLOYMENT_NOT_FOUND", 0))
    OBVIOUS
<1>3. NotFound(name).drafts = {e}
    BY <1>1, <1>2 DEF NotFound
<1>4. /\ e.origin = ChangeOrigin /\ e.subject.kind = "Deployment" /\ e.subject.name = name /\ e.subject.exists = FALSE
      /\ e.facts.status = "DEPLOYMENT_NOT_FOUND" /\ e.facts.changed = {} /\ e.facts.revision = 0
    BY <1>1, <1>2 DEF Drafted, ChangeFacts, Subject
<1>5. Projectable(e)
    BY <1>4, AbsenceIsProjectable
<1>6. IsFiniteSet({e})
    BY FS_Singleton
<1> QED BY <1>3, <1>4, <1>5, <1>6 DEF Answers

\* The names of the scope are different names.
NamesDiffer == Deployments \in Seq(Range(Deployments)) /\ Deployments # <<>> /\ IsInjective(Deployments)

LEMMA ScopeHasNames ==
    ASSUME ControllerHolds(source)
    PROVE  NamesDiffer
BY DEF ControllerHolds, NamesDiffer, Deployments

\* What was recorded, of the Deployments before a place, with one draft for a revision.
Recordable(drafts, end) ==
    /\ IsFiniteSet(drafts) /\ \A d \in drafts : Projectable(d) /\ d.facts.revision \in Nat
    /\ \A d \in drafts : \E k \in 1..end : d.subject.name = Deployments[k]
    /\ \A d, e \in drafts : d.subject.name = e.subject.name /\ d.facts.revision = e.facts.revision => d = e

LEMMA AnswerIsRecorded ==
    ASSUME NamesDiffer, NEW at \in DOMAIN Deployments, NEW before, Recordable(before, at - 1),
           NEW drafts, Answers(Deployments[at], drafts)
    PROVE  Recordable(before \cup drafts, at)
<1>1. at \in Nat /\ DOMAIN Deployments = 1..Len(Deployments) /\ Len(Deployments) \in Nat
    BY DEF NamesDiffer
<1>2. IsFiniteSet(before \cup drafts)
    BY FS_Union DEF Recordable, Answers
<1>3. \A d \in before : \E k \in 1..(at - 1) : d.subject.name = Deployments[k]
    BY DEF Recordable
<1>4. \A k \in 1..(at - 1) : k \in 1..at /\ k \in DOMAIN Deployments /\ k # at
    BY <1>1
<1>5. \A k \in 1..(at - 1) : Deployments[k] # Deployments[at]
    BY <1>4 DEF NamesDiffer, IsInjective
<1>6. \A d \in drafts : d.subject.name = Deployments[at]
    BY DEF Answers
<1>7. \A d \in before, e \in drafts : d.subject.name # e.subject.name
    BY <1>3, <1>5, <1>6
<1>8. at \in 1..at
    BY <1>1
<1>9. \A d \in before \cup drafts : \E k \in 1..at : d.subject.name = Deployments[k]
    BY <1>3, <1>4, <1>6, <1>8
<1>10. \A d \in before \cup drafts : Projectable(d) /\ d.facts.revision \in Nat
    BY DEF Recordable, Answers
<1>11. \A d, e \in before \cup drafts :
        d.subject.name = e.subject.name /\ d.facts.revision = e.facts.revision => d = e
    BY <1>7 DEF Recordable, Answers
<1> QED BY <1>2, <1>9, <1>10, <1>11 DEF Recordable

\* The drafts are sorted before they are cut to the limit, so some of them are delivered.
LEMMA FirstDraftsAreRecorded ==
    ASSUME NamesDiffer, NEW all, NEW end \in DOMAIN Deployments, Recordable(all, end), Cardinality(all) > MaxDrafts
    PROVE  Range(SubSeq(Ordered(all, DraftedBefore), 1, MaxDrafts)) \subseteq all
<1>1. PICK place, revision :
        /\ place = [d \in all |-> CHOOSE k \in DOMAIN Deployments : Deployments[k] = d.subject.name]
        /\ revision = [d \in all |-> d.facts.revision]
    OBVIOUS
<1>2. PICK R : R = {p \in all \X all : DraftedBefore(p[1], p[2])}
    OBVIOUS
<1>3. \A d, e \in all : <<d, e>> \in R <=> \/ place[d] < place[e]
                                           \/ place[d] = place[e] /\ revision[d] < revision[e]
    <2>1. \A d, e \in all : <<d, e>> \in R <=> DraftedBefore(d, e)
        BY <1>2
    <2>2. ASSUME NEW d \in all, NEW e \in all
          PROVE  DraftedBefore(d, e) <=> \/ place[d] < place[e]
                                         \/ place[d] = place[e] /\ revision[d] < revision[e]
        <3>1. PICK m, n : /\ m = (CHOOSE k \in DOMAIN Deployments : Deployments[k] = d.subject.name)
                          /\ n = (CHOOSE k \in DOMAIN Deployments : Deployments[k] = e.subject.name)
            OBVIOUS
        <3>2. place[d] = m /\ place[e] = n /\ revision[d] = d.facts.revision /\ revision[e] = e.facts.revision
            BY <1>1, <3>1
        <3>3. DraftedBefore(d, e) <=> m < n \/ (m = n /\ d.facts.revision < e.facts.revision)
            BY <3>1 DEF DraftedBefore
        <3> QED BY ONLY <3>2, <3>3
    <2> QED BY ONLY <2>1, <2>2
<1>4. DOMAIN Deployments = 1..Len(Deployments) /\ Len(Deployments) \in Nat
    BY DEF NamesDiffer
<1>5. \A d \in all : place[d] \in DOMAIN Deployments /\ Deployments[place[d]] = d.subject.name
    <2> SUFFICES ASSUME NEW d \in all
                 PROVE  place[d] \in DOMAIN Deployments /\ Deployments[place[d]] = d.subject.name
        OBVIOUS
    <2>1. PICK k \in 1..end : d.subject.name = Deployments[k]
        BY DEF Recordable
    <2>2. k \in DOMAIN Deployments
        BY <1>4
    <2> QED BY <1>1, <2>1, <2>2
<1>6. \A d \in all : place[d] \in Nat /\ revision[d] \in Nat
    <2>1. \A d \in all : revision[d] \in Nat
        BY <1>1 DEF Recordable
    <2>2. \A k \in DOMAIN Deployments : k \in Nat
        BY ONLY <1>4
    <2> QED BY ONLY <1>5, <2>1, <2>2
<1>7. \A d, e \in all : place[d] = place[e] /\ revision[d] = revision[e] => d = e
    <2>1. \A d, e \in all : place[d] = place[e] => d.subject.name = e.subject.name
        BY ONLY <1>5
    <2>2. \A d, e \in all : revision[d] = revision[e] => d.facts.revision = e.facts.revision
        BY <1>1
    <2> QED BY <2>1, <2>2 DEF Recordable
<1>8. StrictOrder(all, R)
    BY ONLY <1>3, <1>6, <1>7 DEF StrictOrder
<1>9. IsFiniteSet(all)
    BY DEF Recordable
<1>10. PICK ordered : ordered = Sorted(all, R)
    OBVIOUS
<1>11. ordered \in Seq(all) /\ Range(ordered) = all /\ Len(ordered) = Cardinality(all)
    BY ONLY <1>8, <1>9, <1>10, SortedMembers, SortedIsInOrder
<1>12. Ordered(all, DraftedBefore) = ordered
    BY <1>2, <1>10 DEF Ordered
<1>13. MaxDrafts \in 0..Len(ordered)
    BY <1>11, DraftsAreBounded
<1>14. Range(SubSeq(ordered, 1, MaxDrafts)) \subseteq all
    BY ONLY <1>11, <1>13, MembersOfPrefix
<1> QED BY <1>12, <1>14

LEMMA RecordedKeepsIt ==
    ASSUME TelemetryInv, attempt.provider = "deployments", attempt.outcome = "collecting", source' = source,
           NEW drafts, Answers(Deployments[attempt.at], drafts), NEW partial, Recorded(drafts, partial)
    PROVE  TelemetryInv'
<1>1. /\ HistoryStands /\ DOMAIN attempt = AttemptFields /\ attempt.at \in DOMAIN Deployments
      /\ NamesDiffer
    BY ScopeHasNames DEF TelemetryInv, AttemptStands, HistoryStands
<1>2. PICK all : all = attempt.drafts \cup drafts
    OBVIOUS
<1>3. Recordable(attempt.drafts, attempt.at - 1)
    BY <1>1 DEF Recordable, HistoryStands, TelemetryInv, Projected
<1>4. Recordable(all, attempt.at)
    BY <1>1, <1>2, <1>3, AnswerIsRecorded
<1>5. \A e \in all : Projectable(e)
    BY <1>4 DEF Recordable
<1>6. \/ /\ attempt.at < Len(Deployments)
         /\ attempt' = [attempt EXCEPT !.at = @ + 1, !.drafts = all, !.partial = partial]
      \/ Abandon("permanent")
      \/ /\ Cardinality(all) > MaxDrafts
         /\ Deliver(Range(SubSeq(Ordered(all, DraftedBefore), 1, MaxDrafts)), TRUE)
      \/ Deliver(all, partial)
    BY <1>2 DEF Recorded
<1>7. CASE /\ attempt.at < Len(Deployments)
           /\ attempt' = [attempt EXCEPT !.at = @ + 1, !.drafts = all, !.partial = partial]
    <2>1. /\ DOMAIN attempt' = AttemptFields /\ attempt'.provider = attempt.provider
          /\ attempt'.outcome = attempt.outcome /\ attempt'.at = attempt.at + 1
          /\ attempt'.read = attempt.read /\ attempt'.drafts = all
        BY <1>1, <1>7 DEF AttemptFields
    <2>2. List' = List
        BY <2>1 DEF List
    <2>3. /\ DOMAIN Deployments = 1..Len(Deployments) /\ Len(Deployments) \in Nat /\ attempt.at \in Nat
        BY <1>1 DEF NamesDiffer
    <2>4. attempt'.at \in DOMAIN Deployments /\ attempt'.at - 1 = attempt.at
        BY <1>1, <1>7, <2>1, <2>3
    <2>5. Recordable(attempt'.drafts, attempt'.at - 1)
        BY <1>4, <2>1, <2>4
    <2>6. Deployments' = Deployments
        BY DEF Deployments
    <2>7. HistoryStands'
        BY <1>1, <2>2, <2>4, <2>5, <2>6 DEF HistoryStands, ControllerHolds, ListStands, Recordable
    <2> QED BY <1>5, <2>1, <2>7 DEF TelemetryInv, AttemptStands, Projected
<1>8. CASE Abandon("permanent")
    BY <1>8, AbandonKeepsIt DEF Errors
<1>9. CASE /\ Cardinality(all) > MaxDrafts
           /\ Deliver(Range(SubSeq(Ordered(all, DraftedBefore), 1, MaxDrafts)), TRUE)
    <2>1. PICK first, part : first = Range(SubSeq(Ordered(all, DraftedBefore), 1, MaxDrafts)) /\ part = TRUE
        OBVIOUS
    <2>2. first \subseteq all
        BY <1>1, <1>4, <1>9, <2>1, FirstDraftsAreRecorded
    <2>3. \A e \in first : Projectable(e)
        BY <1>5, <2>2
    <2>4. Deliver(first, part)
        BY <1>9, <2>1
    <2> QED BY <2>3, <2>4, DeliveryKeepsIt
<1>10. CASE Deliver(all, partial)
    BY <1>5, <1>10, DeliveryKeepsIt
<1> QED BY <1>6, <1>7, <1>8, <1>9, <1>10

LEMMA GetDeploymentKeepsIt ==
    TelemetryInv /\ GetDeployment => TelemetryInv'
<1> SUFFICES ASSUME TelemetryInv, GetDeployment
             PROVE  TelemetryInv'
    OBVIOUS
<1>1. attempt.provider = "deployments" /\ attempt.outcome = "collecting" /\ source' = source
    BY DEF GetDeployment, Working
<1>2. HistoryStands
    BY <1>1 DEF TelemetryInv, AttemptStands
<1>3. PICK name : name = Deployments[attempt.at]
    OBVIOUS
<1>4. \/ \E partial : Recorded(History(name).drafts, partial)
      \/ \E partial : Recorded(NotFound(name).drafts, partial)
      \/ \E partial : Recorded({}, partial)
    <2> DEFINE answer == IF name = Rolled THEN History(name) ELSE NotFound(name)
               partial == attempt.partial \/ List.truncated
    <2>1. Recorded(answer.drafts, partial \/ answer.partial) \/ Recorded({}, TRUE)
        BY <1>3 DEF GetDeployment
    <2>2. PICK part, whole : part = (partial \/ answer.partial) /\ whole = TRUE
        OBVIOUS
    <2>3. answer = History(name) \/ answer = NotFound(name)
        OBVIOUS
    <2> HIDE DEF answer, partial
    <2>4. Recorded(answer.drafts, part) \/ Recorded({}, whole)
        BY <2>1, <2>2
    <2> QED BY <2>3, <2>4
<1>5. Answers(name, {})
    BY FS_EmptySet DEF Answers
<1>6. ASSUME NEW drafts, Answers(name, drafts), NEW partial, Recorded(drafts, partial)
      PROVE  TelemetryInv'
    BY <1>1, <1>3, <1>6, RecordedKeepsIt
<1> QED BY <1>2, <1>4, <1>5, <1>6, HistoryAnswers, NotFoundAnswers

-----------------------------------------------------------------------------
LEMMA TelemetryInvAtFirst ==
    TelemetryInit => TelemetryInv
<1> SUFFICES ASSUME NEW collector \in Collectors, attempt = NewAttempt(collector), source \in SourceStates[collector]
             PROVE  TelemetryInv
    BY DEF TelemetryInit
<1>1. /\ DOMAIN attempt = AttemptFields /\ attempt.provider = collector /\ attempt.at = 1
      /\ attempt.read = <<>> /\ attempt.drafts = {} /\ attempt.outcome = "collecting"
    BY DEF NewAttempt, AttemptFields
<1>2. 1 \in DOMAIN Metrics /\ 1 \in DOMAIN Services
    BY MetricLimits, FlowLimits
<1>3. CASE collector \in {"service-metrics", "workload-metrics"}
    <2>1. MetricsHold(source)
        BY <1>3, SourcesAreUsable
    <2> QED BY <1>1, <1>2, <1>3, <2>1 DEF TelemetryInv, Projected, AttemptStands, MetricsStand
<1>4. CASE collector = "api-features"
    BY <1>1, <1>4 DEF TelemetryInv, Projected, AttemptStands
<1>5. CASE collector = "network-flows"
    <2>1. RelayHolds(source)
        BY <1>5, SourcesAreUsable
    <2>2. Seen = NothingSeen
        BY <1>1 DEF Seen
    <2>3. FlowsStand
        BY <1>1, <1>2, <2>1, <2>2 DEF FlowsStand, NothingSeen
    <2> QED BY <1>1, <1>5, <2>3 DEF TelemetryInv, Projected, AttemptStands
<1>6. CASE collector = "kernel-log"
    <2>1. LokiHolds(source)
        BY <1>6, SourcesAreUsable
    <2>2. Listed.found = {}
        BY <1>1 DEF Listed, NoPods
    <2>3. KillsStand
        BY <2>1, <2>2 DEF KillsStand
    <2> QED BY <1>1, <1>6, <2>3 DEF TelemetryInv, Projected, AttemptStands
<1>7. CASE collector = "deployments"
    <2>1. ControllerHolds(source)
        BY <1>7, SourcesAreUsable
    <2>2. List = NoList
        BY <1>1 DEF List
    <2>3. ListStands(List)
        BY <2>2, NoListStands
    <2>4. IsFiniteSet(attempt.drafts)
        BY <1>1, FS_EmptySet
    <2>5. 1 \in DOMAIN Deployments
        BY <2>1, ScopeHasNames DEF NamesDiffer
    <2>6. HistoryStands
        BY <1>1, <2>1, <2>3, <2>4, <2>5 DEF HistoryStands
    <2> QED BY <1>1, <1>7, <2>6 DEF TelemetryInv, Projected, AttemptStands
<1> QED BY <1>3, <1>4, <1>5, <1>6, <1>7 DEF Collectors

LEMMA TelemetryInvIsKept ==
    TelemetryInv /\ [TelemetryNext]_telemetryVars => TelemetryInv'
<1> SUFFICES ASSUME TelemetryInv, [TelemetryNext]_telemetryVars
             PROVE  TelemetryInv'
    OBVIOUS
<1>1. CASE AskMetric
    BY <1>1, AskMetricKeepsIt
<1>2. CASE AskFeature
    BY <1>2, AskFeatureKeepsIt
<1>3. CASE FlowsAreForgotten \/ AskFlows
    BY <1>3, FlowsAreForgottenKeepsIt, AskFlowsKeepsIt
<1>4. CASE PodsChange \/ ListPods \/ AskKills
    BY <1>4, PodsChangeKeepsIt, ListPodsKeepsIt, AskKillsKeepsIt
<1>5. CASE ClockTicks \/ RollOut
    BY <1>5, ControllerKeepsIt
<1>6. CASE ListReplicaSets \/ GetDeployment
    BY <1>6, ListReplicaSetsKeepsIt, GetDeploymentKeepsIt
<1>7. CASE UNCHANGED telemetryVars
    <2>1. attempt' = attempt /\ source' = source
        BY <1>7 DEF telemetryVars
    <2>2. Seen' = Seen /\ Listed' = Listed /\ List' = List
        BY <2>1 DEF Seen, Listed, List
    <2>3. MetricsStand => MetricsStand'
        BY <2>1 DEF MetricsStand, MetricsHold
    <2>4. FlowsStand => FlowsStand'
        BY <2>1, <2>2 DEF FlowsStand, RelayHolds, Root
    <2>5. KillsStand => KillsStand'
        BY <2>1, <2>2 DEF KillsStand, LokiHolds
    <2>6. HistoryStands => HistoryStands'
        BY <2>1, <2>2 DEF HistoryStands, ControllerHolds, ListStands, Deployments
    <2>7. AttemptStands => AttemptStands'
        <3>1. CASE attempt.provider \in {"service-metrics", "workload-metrics"}
            BY <2>1, <2>3, <3>1 DEF AttemptStands
        <3>2. CASE attempt.provider = "api-features"
            BY <2>1, <3>2 DEF AttemptStands
        <3>3. CASE attempt.provider = "network-flows"
            BY <2>1, <2>4, <3>3 DEF AttemptStands
        <3>4. CASE attempt.provider = "kernel-log"
            BY <2>1, <2>5, <3>4 DEF AttemptStands
        <3>5. CASE attempt.provider = "deployments"
            BY <2>1, <2>6, <3>5 DEF AttemptStands
        <3> QED BY <3>1, <3>2, <3>3, <3>4, <3>5 DEF TelemetryInv, Collectors
    <2> QED BY <2>1, <2>7 DEF TelemetryInv, Projected
<1> QED BY <1>1, <1>2, <1>3, <1>4, <1>5, <1>6, <1>7 DEF TelemetryNext

\* What every collector has drafted can be projected, and what it remembers of its answers
\* is enough for the next draft.
THEOREM TelemetryIsInvariant == TelemetrySpec => []TelemetryInv
<1>1. TelemetryInv /\ [TelemetryNext]_telemetryVars => TelemetryInv'
    BY TelemetryInvIsKept
<1> QED BY <1>1, TelemetryInvAtFirst, PTL DEF TelemetrySpec

\* An item of any of these collectors, in a complete or a partial batch, belongs to exactly one
\* Projector and is accepted by it.
THEOREM CollectedCanBeProjected == TelemetrySpec => []CollectedIsProjectable
<1>1. TelemetryInv => CollectedIsProjectable
    BY DEF TelemetryInv, Projected, CollectedIsProjectable
<1> QED BY <1>1, TelemetryIsInvariant, PTL

-----------------------------------------------------------------------------
(* What the answers of the six collectors have shown so far                   *)

\* The drafts are those of the metrics up to n, and none of these was cut short in an answer
\* that is still complete.
MetricsGathered(n) ==
    /\ attempt.drafts = UNION {Summaries(Metrics[k], source[Metrics[k]]) : k \in 1..n}
    /\ ~attempt.partial => \A k \in 1..n : ~Truncated(source[Metrics[k]])

\* The cache holds what the source says, as far as it is read.
Answered(cache) ==
    /\ DOMAIN cache \subseteq Range(Questions)
    /\ \A q \in DOMAIN cache :
        /\ cache[q] = [samples |-> WithinLimit(source[q]), truncated |-> Len(source[q]) > MaxSamples]
        /\ InRange(q, WithinLimit(source[q]))

FeaturesGathered == FeaturesHold(source) /\ Answered(attempt.read) /\ Unasked(attempt.read) # {}

\* Those that were there all the time, and none that never was, are counted.
CountedFlows(e) ==
    /\ e.facts.count \in Nat
    /\ Cardinality(FlowsOf(source.throughout, e.subject.name)) <= e.facts.count
    /\ e.facts.count <= Cardinality(FlowsOf(source.ever, e.subject.name))
    /\ e.facts.count = 0 => FlowsOf(source.ever, e.subject.name) = {}

\* No flow from the Service that was there all the time is missing after its first question.
FlowsGathered ==
    /\ Seen.flows \subseteq source.ever
    /\ Seen.asked = 1 /\ Seen.gaps = {} /\ ~Seen.truncated =>
            \A f \in source.throughout : f.from \in Rooted[Root] => f \in Seen.flows
    /\ ~attempt.partial => \A e \in attempt.drafts : CountedFlows(e)

\* Every scoped Pod that is still there was found or is in the rest of the list.
KillsGathered ==
    /\ Listed.raw \in Nat /\ Listed.rest \in Seq(Range(Listed.rest))
    /\ \A p \in Range(source.pods) : p.name \in Scoped => p \in Listed.found \cup Range(Listed.rest)
    /\ ~Listed.complete => Listed.raw < MaxPods
    /\ Listed.complete => Listed.rest = <<>>

\* A ReplicaSet of the time before the list was opened is in its snapshot.
ChangesGathered ==
    /\ List.open => \A s \in source.sets : s.created < Window[2] =>
            \E l \in Range(List.sets) \cup Range(List.rest) : l.template = s.template /\ l.created = s.created
    /\ List.open => source.now >= Window[2]
    /\ List.listed => List.open
    /\ List.listed /\ ~List.truncated => List.rest = <<>>

Gathered ==
    CASE attempt.provider \in {"service-metrics", "workload-metrics"} -> MetricsGathered(attempt.at - 1)
      [] attempt.provider = "api-features" -> FeaturesGathered
      [] attempt.provider = "network-flows" -> FlowsGathered
      [] attempt.provider = "kernel-log" -> KillsGathered
      [] attempt.provider = "deployments" -> ChangesGathered

\* An answer is exact because of what was gathered for it, until it is delivered.
CollectedInv == TelemetryInv /\ SummariesAreExact /\ (attempt.outcome = "collecting" => Gathered)

-----------------------------------------------------------------------------
(* Summaries of metrics are exact                                          *)

LEMMA AnswerOfMetric ==
    ASSUME MetricsHold(source), NEW metric \in Range(Metrics)
    PROVE  /\ source[metric] \in Seq(Range(source[metric]))
           /\ \A series \in Range(source[metric]) : series.samples \in Seq(Int \X Int)
BY DEF MetricsHold

LEMMA WholeAnswerIsRead ==
    ASSUME NEW answer, answer \in Seq(Range(answer)), \A series \in Range(answer) : series.samples \in Seq(Int \X Int),
           ~Truncated(answer)
    PROVE  Read(answer) = Samples(answer)
<1>1. PICK samples : samples = Samples(answer)
    OBVIOUS
<1>2. samples \in Seq(Range(samples))
    BY <1>1, SamplesAreOfSeries
<1>3. PICK n : n = Min({MaxSamples, Len(samples)})
    OBVIOUS
<1>4. n = Len(samples) /\ n \in 0..Len(samples)
    <2>1. Len(samples) \in Nat /\ MaxSamples \in Nat
        BY <1>2, MetricLimits
    <2>2. ~(Len(samples) > MaxSamples)
        BY <1>1 DEF Truncated
    <2> QED BY ONLY <1>3, <2>1, <2>2, LesserOfTwo
<1>5. Read(answer) = SubSeq(samples, 1, n)
    BY <1>1, <1>3 DEF Read
<1>6. SubSeq(samples, 1, n) = samples
    BY ONLY <1>2, <1>4, MembersOfPrefix
<1> QED BY <1>1, <1>5, <1>6

ValuesOf(samples) == {s.value : s \in Range(samples)}

LEMMA SummaryCounts ==
    ASSUME NEW metric, NEW subject, NEW samples, NEW truncated,
           NEW e, e = Summary(metric, subject, samples, truncated)
    PROVE  /\ e.subject = subject /\ e.facts.metric = metric /\ e.facts.count = Len(samples)
           /\ samples # <<>> => e.facts.minimum = Min(ValuesOf(samples)) /\ e.facts.maximum = Max(ValuesOf(samples))
<1>1. CASE samples = <<>>
    <2>1. e.subject = subject /\ e.facts.metric = metric /\ e.facts.count = 0
        BY <1>1 DEF Summary, Drafted
    <2>2. Len(<<>>) = 0
        OBVIOUS
    <2> QED BY <1>1, <2>1, <2>2
<1>2. CASE samples # <<>>
    <2>1. PICK low, high : low = Min(ValuesOf(samples)) /\ high = Max(ValuesOf(samples))
        OBVIOUS
    <2>2. /\ low = Min({s.value : s \in Range(samples)}) /\ high = Max({s.value : s \in Range(samples)})
        BY <2>1 DEF ValuesOf
    <2>3. /\ e.subject = subject /\ e.facts.metric = metric /\ e.facts.count = Len(samples)
          /\ e.facts.minimum = low /\ e.facts.maximum = high
        BY <1>2, <2>2 DEF Summary, Drafted
    <2> QED BY <2>1, <2>3
<1> QED BY <1>1, <1>2

\* The samples that a summary is made of are those of its subject.
LEMMA SummaryIsExact ==
    ASSUME NEW metric, NEW subject, NEW truncated,
           NEW samples, samples = OfSubject(metric, subject),
           NEW e, e = Summary(metric, subject, samples, truncated)
    PROVE  ExactMetric(e)
<1>1. /\ e.subject = subject /\ e.facts.metric = metric /\ e.facts.count = Len(samples)
      /\ samples # <<>> => e.facts.minimum = Min(ValuesOf(samples)) /\ e.facts.maximum = Max(ValuesOf(samples))
    BY SummaryCounts
<1>2. OfSubject(e.facts.metric, e.subject) = samples
    BY <1>1
<1>3. ExactMetric(e) <=> /\ e.facts.count = Len(samples)
                         /\ samples # <<>> => /\ e.facts.minimum = Min(ValuesOf(samples))
                                              /\ e.facts.maximum = Max(ValuesOf(samples))
    BY <1>2 DEF ExactMetric, ValuesOf
<1> QED BY <1>1, <1>3

\* Of an answer that is read whole, every Service of the scope, or every Pod with samples, is
\* summarized once and from all of its samples.
LEMMA SummariesOfService ==
    ASSUME MetricsHold(source), PerService, NEW metric \in Range(Metrics), ~Truncated(source[metric])
    PROVE  /\ \A e \in Summaries(metric, source[metric]) :
                ExactMetric(e) /\ e.facts.metric = metric /\ e.subject.name \in ServiceNames
           /\ \A name \in ServiceNames : \E e \in Summaries(metric, source[metric]) : e.subject.name = name
<1>1. PICK answer, read : answer = source[metric] /\ read = Samples(answer)
    OBVIOUS
<1>2. Read(answer) = read
    BY <1>1, AnswerOfMetric, WholeAnswerIsRead
<1> DEFINE Of(name) == Summary(metric, Subject("Service", name, UidOf(name, answer)),
                               Filtered(read, LAMBDA s : s.name = name), Truncated(answer))
<1>3. Summaries(metric, answer) = {Of(name) : name \in ServiceNames}
    BY <1>1, <1>2 DEF Summaries, ServiceSummaries
<1>4. ASSUME NEW name \in ServiceNames
      PROVE  ExactMetric(Of(name)) /\ Of(name).facts.metric = metric /\ Of(name).subject.name = name
    <2>1. PICK subject, places, e :
            /\ subject = Subject("Service", name, UidOf(name, answer))
            /\ places = {k \in DOMAIN read : read[k].name = name} /\ e = Of(name)
        OBVIOUS
    <2>2. subject.kind = "Service" /\ subject.name = name
        BY <2>1 DEF Subject
    <2>3. e = Summary(metric, subject, Picked(read, places), Truncated(answer))
        BY <2>1 DEF Filtered
    <2>4. OfSubject(metric, subject)
            = Picked(read, {k \in DOMAIN read : read[k].name = subject.name /\ (subject.kind = "Pod" => read[k].uid = subject.uid)})
        BY <1>1 DEF OfSubject, Filtered
    <2>5. {k \in DOMAIN read : read[k].name = subject.name /\ (subject.kind = "Pod" => read[k].uid = subject.uid)} = places
        BY <2>1, <2>2
    <2>6. Picked(read, places) = OfSubject(metric, subject)
        BY <2>4, <2>5
    <2>7. ExactMetric(e)
        BY ONLY <2>3, <2>6, SummaryIsExact
    <2>8. e.subject = subject /\ e.facts.metric = metric
        BY <2>3, SummaryCounts
    <2> QED BY <2>1, <2>2, <2>7, <2>8
<1> HIDE DEF Of
<1> QED BY ONLY <1>1, <1>3, <1>4

LEMMA SummariesOfPods ==
    ASSUME MetricsHold(source), ~PerService, NEW metric \in Range(Metrics), ~Truncated(source[metric])
    PROVE  /\ \A e \in Summaries(metric, source[metric]) :
                /\ ExactMetric(e) /\ e.facts.metric = metric
                /\ \E s \in Range(Samples(source[metric])) : s.name = e.subject.name /\ s.uid = e.subject.uid
           /\ \A s \in Range(Samples(source[metric])) :
                \E e \in Summaries(metric, source[metric]) : e.subject.name = s.name /\ e.subject.uid = s.uid
<1>1. PICK answer, read : answer = source[metric] /\ read = Samples(answer)
    OBVIOUS
<1>2. Read(answer) = read
    BY <1>1, AnswerOfMetric, WholeAnswerIsRead
<1> DEFINE Of(pod) == Summary(metric, Subject("Pod", pod[1], pod[2]),
                              Filtered(read, LAMBDA s : s.name = pod[1] /\ s.uid = pod[2]), Truncated(answer))
<1>3. Summaries(metric, answer) = {Of(pod) : pod \in {<<s.name, s.uid>> : s \in Range(read)}}
    BY <1>1, <1>2 DEF Summaries, PodSummaries
<1>4. ASSUME NEW pod
      PROVE  /\ ExactMetric(Of(pod)) /\ Of(pod).facts.metric = metric
             /\ Of(pod).subject.name = pod[1] /\ Of(pod).subject.uid = pod[2]
    <2>1. PICK subject, places, e :
            /\ subject = Subject("Pod", pod[1], pod[2])
            /\ places = {k \in DOMAIN read : read[k].name = pod[1] /\ read[k].uid = pod[2]} /\ e = Of(pod)
        OBVIOUS
    <2>2. subject.kind = "Pod" /\ subject.name = pod[1] /\ subject.uid = pod[2]
        BY <2>1 DEF Subject
    <2>3. e = Summary(metric, subject, Picked(read, places), Truncated(answer))
        BY <2>1 DEF Filtered
    <2>4. OfSubject(metric, subject)
            = Picked(read, {k \in DOMAIN read : read[k].name = subject.name /\ (subject.kind = "Pod" => read[k].uid = subject.uid)})
        BY <1>1 DEF OfSubject, Filtered
    <2>5. {k \in DOMAIN read : read[k].name = subject.name /\ (subject.kind = "Pod" => read[k].uid = subject.uid)} = places
        BY <2>1, <2>2
    <2>6. Picked(read, places) = OfSubject(metric, subject)
        BY <2>4, <2>5
    <2>7. ExactMetric(e)
        BY ONLY <2>3, <2>6, SummaryIsExact
    <2>8. e.subject = subject /\ e.facts.metric = metric
        BY <2>3, SummaryCounts
    <2> QED BY <2>1, <2>2, <2>7, <2>8
<1>5. \A s : <<s.name, s.uid>>[1] = s.name /\ <<s.name, s.uid>>[2] = s.uid
    OBVIOUS
<1> HIDE DEF Of
<1>6. ASSUME NEW e \in Summaries(metric, answer)
      PROVE  /\ ExactMetric(e) /\ e.facts.metric = metric
             /\ \E s \in Range(read) : s.name = e.subject.name /\ s.uid = e.subject.uid
    <2>1. PICK s \in Range(read) : e = Of(<<s.name, s.uid>>)
        BY <1>3
    <2> QED BY ONLY <1>4, <1>5, <2>1
<1>7. ASSUME NEW s \in Range(read)
      PROVE  \E e \in Summaries(metric, answer) : e.subject.name = s.name /\ e.subject.uid = s.uid
    <2>1. Of(<<s.name, s.uid>>) \in Summaries(metric, answer)
        BY <1>3
    <2> QED BY ONLY <1>4, <1>5, <2>1
<1> QED BY ONLY <1>1, <1>6, <1>7

\* When the last metric was read, and none of the answers was cut short.
LEMMA GatheredMetricsAreExact ==
    ASSUME MetricsHold(source), MetricsGathered(Len(Metrics)), ~attempt.partial
    PROVE  MetricsAreExact
<1>1. DOMAIN Metrics = 1..Len(Metrics) /\ \A k \in DOMAIN Metrics : Metrics[k] \in Range(Metrics)
    BY MetricLimits DEF Range
<1>2. \A e : e \in attempt.drafts <=> \E k \in DOMAIN Metrics : e \in Summaries(Metrics[k], source[Metrics[k]])
    BY <1>1 DEF MetricsGathered
<1>3. \A k \in DOMAIN Metrics : ~Truncated(source[Metrics[k]])
    BY <1>1 DEF MetricsGathered
<1>4. CASE PerService
    <2>1. \A k \in DOMAIN Metrics :
            /\ \A e \in Summaries(Metrics[k], source[Metrics[k]]) :
                    ExactMetric(e) /\ e.facts.metric = Metrics[k] /\ e.subject.name \in ServiceNames
            /\ \A name \in ServiceNames : \E e \in Summaries(Metrics[k], source[Metrics[k]]) : e.subject.name = name
        BY <1>1, <1>3, <1>4, SummariesOfService
    <2>2. \A e \in attempt.drafts : ExactMetric(e)
        BY ONLY <1>2, <2>1
    <2>3. PICK said, done : /\ said = UNION {MetricSubjects(metric) : metric \in Range(Metrics)}
                            /\ done = {<<e.facts.metric, e.subject.name, IF PerService THEN "Service" ELSE e.subject.uid>>
                                        : e \in attempt.drafts}
        OBVIOUS
    <2>4. \A x : x \in said <=> \E k \in DOMAIN Metrics, name \in ServiceNames : x = <<Metrics[k], name, "Service">>
        BY <1>4, <2>3 DEF MetricSubjects, Range
    <2>5. \A x : x \in done <=> \E e \in attempt.drafts : x = <<e.facts.metric, e.subject.name, "Service">>
        BY <1>4, <2>3
    <2>6. \A x : x \in said => x \in done
        BY ONLY <1>2, <2>1, <2>4, <2>5
    <2>7. \A x : x \in done => x \in said
        BY ONLY <1>2, <2>1, <2>4, <2>5
    <2> QED BY <2>2, <2>3, <2>6, <2>7 DEF MetricsAreExact
<1>5. CASE ~PerService
    <2>1. \A k \in DOMAIN Metrics :
            /\ \A e \in Summaries(Metrics[k], source[Metrics[k]]) :
                    /\ ExactMetric(e) /\ e.facts.metric = Metrics[k]
                    /\ \E s \in Range(Samples(source[Metrics[k]])) : s.name = e.subject.name /\ s.uid = e.subject.uid
            /\ \A s \in Range(Samples(source[Metrics[k]])) :
                \E e \in Summaries(Metrics[k], source[Metrics[k]]) : e.subject.name = s.name /\ e.subject.uid = s.uid
        BY <1>1, <1>3, <1>5, SummariesOfPods
    <2>2. \A e \in attempt.drafts : ExactMetric(e)
        BY ONLY <1>2, <2>1
    <2>3. PICK said, done : /\ said = UNION {MetricSubjects(metric) : metric \in Range(Metrics)}
                            /\ done = {<<e.facts.metric, e.subject.name, IF PerService THEN "Service" ELSE e.subject.uid>>
                                        : e \in attempt.drafts}
        OBVIOUS
    <2>4. \A x : x \in said <=> \E k \in DOMAIN Metrics : \E s \in Range(Samples(source[Metrics[k]])) :
                                    x = <<Metrics[k], s.name, s.uid>>
        <3>1. \A metric : MetricSubjects(metric) = {<<metric, s.name, s.uid>> : s \in Range(Samples(source[metric]))}
            BY <1>5 DEF MetricSubjects
        <3>2. \A x : x \in said <=> \E metric \in Range(Metrics) : x \in MetricSubjects(metric)
            BY <2>3
        <3>3. \A metric : metric \in Range(Metrics) <=> \E k \in DOMAIN Metrics : metric = Metrics[k]
            BY DEF Range
        <3> QED BY ONLY <3>1, <3>2, <3>3
    <2>5. \A x : x \in done <=> \E e \in attempt.drafts : x = <<e.facts.metric, e.subject.name, e.subject.uid>>
        BY <1>5, <2>3
    <2>6. \A x : x \in said => x \in done
        BY ONLY <1>2, <2>1, <2>4, <2>5
    <2>7. \A x : x \in done => x \in said
        BY ONLY <1>2, <2>1, <2>4, <2>5
    <2> QED BY <2>2, <2>3, <2>6, <2>7 DEF MetricsAreExact
<1> QED BY <1>4, <1>5

\* The next metric.
LEMMA OneMoreMetric ==
    ASSUME NEW n \in Nat \ {0}
    PROVE  UNION {Summaries(Metrics[k], source[Metrics[k]]) : k \in 1..n}
            = (UNION {Summaries(Metrics[k], source[Metrics[k]]) : k \in 1..(n - 1)})
                \cup Summaries(Metrics[n], source[Metrics[n]])
<1>1. PICK Of : Of = [k \in 1..n |-> Summaries(Metrics[k], source[Metrics[k]])]
    OBVIOUS
<1>2. \A k : k \in 1..n <=> k \in 1..(n - 1) \/ k = n
    OBVIOUS
<1>3. UNION {Of[k] : k \in 1..n} = (UNION {Of[k] : k \in 1..(n - 1)}) \cup Of[n]
    BY ONLY <1>2
<1>4. /\ UNION {Of[k] : k \in 1..n} = UNION {Summaries(Metrics[k], source[Metrics[k]]) : k \in 1..n}
      /\ UNION {Of[k] : k \in 1..(n - 1)} = UNION {Summaries(Metrics[k], source[Metrics[k]]) : k \in 1..(n - 1)}
      /\ Of[n] = Summaries(Metrics[n], source[Metrics[n]])
    BY <1>1, <1>2
<1> QED BY ONLY <1>3, <1>4

LEMMA SummariesStay ==
    ASSUME source' = source, attempt'.provider = attempt.provider
    PROVE  \A metric : Summaries(metric, source[metric])' = Summaries(metric, source[metric])
BY DEF Summaries, PerService

LEMMA AskMetricGathers ==
    ASSUME DOMAIN attempt = AttemptFields, MetricsStand, MetricsGathered(attempt.at - 1), AskMetric
    PROVE  /\ attempt'.outcome = "collecting" => MetricsGathered(attempt.at - 1)'
           /\ attempt'.outcome = "batch" => MetricsGathered(Len(Metrics))'
<1>1. PICK metric, answer, drafts :
        /\ metric = Metrics[attempt.at] /\ answer = source[metric] /\ drafts = attempt.drafts \cup Summaries(metric, answer)
    OBVIOUS
<1>2. source' = source
    BY DEF AskMetric
<1>3. PICK n : n = attempt.at
    OBVIOUS
<1>4. n \in Nat \ {0} /\ DOMAIN Metrics = 1..Len(Metrics)
    BY <1>3, MetricLimits DEF MetricsStand
<1>5. drafts = UNION {Summaries(Metrics[k], source[Metrics[k]]) : k \in 1..n}
    BY <1>1, <1>3, <1>4, OneMoreMetric DEF MetricsGathered
<1>6. ASSUME NEW warned \in BOOLEAN, attempt'.provider = attempt.provider, attempt'.drafts = drafts,
             attempt'.partial = (attempt.partial \/ warned \/ Truncated(answer))
      PROVE  MetricsGathered(n)'
    <2>1. \A k : Summaries(Metrics[k], source[Metrics[k]])' = Summaries(Metrics[k], source[Metrics[k]])
        BY <1>2, <1>6, SummariesStay
    <2>2. attempt'.drafts = UNION {Summaries(Metrics[k], source[Metrics[k]])' : k \in 1..n}
        BY ONLY <1>5, <1>6, <2>1
    <2>3. ASSUME ~attempt'.partial, NEW k \in 1..n
          PROVE  ~Truncated(source[Metrics[k]])
        <3>1. CASE k = n
            BY <1>1, <1>3, <1>6, <2>3, <3>1
        <3>2. CASE k # n
            <4>1. k \in 1..(n - 1)
                BY <1>4, <3>2
            <4>2. ~attempt.partial
                BY <1>6, <2>3
            <4> QED BY <1>3, <4>1, <4>2 DEF MetricsGathered
        <3> QED BY <3>1, <3>2
    <2> QED BY <1>2, <2>2, <2>3 DEF MetricsGathered
<1>7. PICK warned \in BOOLEAN :
        \/ Abandon("permanent") \/ Fails
        \/ DeliverWithinBudget(drafts, attempt.partial \/ warned \/ Truncated(answer)) /\ n = Len(Metrics)
        \/ attempt' = [attempt EXCEPT !.at = @ + 1, !.drafts = drafts,
                                      !.partial = attempt.partial \/ warned \/ Truncated(answer)]
    BY <1>1, <1>3 DEF AskMetric
<1>8. CASE Abandon("permanent") \/ Fails
    <2>1. \E how \in Errors : Abandon(how)
        BY <1>8 DEF Fails, Errors
    <2>2. attempt'.outcome \in Errors
        BY <2>1 DEF Abandon, AttemptFields
    <2> QED BY <2>2 DEF Errors
<1>9. CASE Deliver(drafts, attempt.partial \/ warned \/ Truncated(answer)) /\ n = Len(Metrics)
    <2>1. /\ attempt'.provider = attempt.provider /\ attempt'.drafts = drafts /\ attempt'.outcome = "batch"
          /\ attempt'.partial = (attempt.partial \/ warned \/ Truncated(answer))
        BY <1>9 DEF Deliver, AttemptFields
    <2> QED BY <1>6, <1>9, <2>1
<1>10. CASE attempt' = [attempt EXCEPT !.at = @ + 1, !.drafts = drafts,
                                       !.partial = attempt.partial \/ warned \/ Truncated(answer)]
    <2>1. /\ attempt'.provider = attempt.provider /\ attempt'.drafts = drafts /\ attempt'.outcome = attempt.outcome
          /\ attempt'.at = n + 1 /\ attempt'.partial = (attempt.partial \/ warned \/ Truncated(answer))
        BY <1>3, <1>10 DEF AttemptFields
    <2>2. attempt'.at - 1 = n
        BY ONLY <1>4, <2>1
    <2>3. MetricsGathered(n)'
        BY <1>6, <2>1
    <2>4. attempt'.outcome = "collecting"
        BY <2>1 DEF AskMetric, Working
    <2> QED BY <2>2, <2>3, <2>4 DEF MetricsGathered
<1> QED BY <1>7, <1>8, <1>9, <1>10 DEF DeliverWithinBudget

-----------------------------------------------------------------------------
(* Flows are counted exactly                                               *)

\* Nothing is left out of an answer that is not longer than the limit.
LEMMA FewFlowsAreLast ==
    ASSUME NEW flows \in SUBSET Flows, ~(Cardinality(flows) > QueryLimit)
    PROVE  LastFlows(flows) = flows
<1>1. IsFiniteSet(flows) /\ \A f \in flows : f.uuid \in Nat /\ f.at \in Int
    BY FlowsAreParsed, FS_Subset
<1>2. PICK R : R = {p \in flows \X flows : p[1].at < p[2].at \/ (p[1].at = p[2].at /\ p[1].uuid < p[2].uuid)}
    OBVIOUS
<1>3. StrictOrder(flows, R)
    <2>1. \A f, g \in flows : <<f, g>> \in R <=> f.at < g.at \/ (f.at = g.at /\ f.uuid < g.uuid)
        BY <1>2
    <2>2. \A f, g \in flows : f # g => f.at # g.at \/ f.uuid # g.uuid
        BY FlowsAreParsed
    <2> QED BY ONLY <1>1, <2>1, <2>2 DEF StrictOrder
<1>4. PICK ordered : ordered = Sorted(flows, R)
    OBVIOUS
<1>5. ordered \in Seq(flows) /\ Range(ordered) = flows /\ Len(ordered) = Cardinality(flows)
    BY ONLY <1>1, <1>3, <1>4, SortedMembers, SortedIsInOrder
<1>6. PICK m : m = Max({1, Len(ordered) - QueryLimit + 1})
    OBVIOUS
<1>7. m = 1
    <2>1. Len(ordered) \in Nat /\ QueryLimit \in Int
        BY <1>5, QueryLimitIsTyped
    <2>2. ~(Len(ordered) > QueryLimit)
        BY <1>5
    <2> QED BY ONLY <1>6, <2>1, <2>2, GreaterOfTwo
<1>8. LastFlows(flows) = Range(SubSeq(ordered, m, Len(ordered)))
    BY ONLY <1>2, <1>4, <1>6 DEF LastFlows, Ordered
<1>9. SubSeq(ordered, 1, Len(ordered)) = ordered
    <2>1. Len(ordered) \in 0..Len(ordered)
        BY <1>5
    <2> QED BY ONLY <1>5, <2>1, MembersOfPrefix
<1> QED BY <1>5, <1>7, <1>8, <1>9

\* The flows seen are a part of those there ever were, and those that stayed are a part of
\* them; so their number is between.
LEMMA SeenFlowsAreCounted ==
    ASSUME RelayHolds(source), NEW seen, NEW root, SeenOf(seen, root), seen.flows \subseteq source.ever,
           ~Incomplete(seen), FlowsOf(source.throughout, root) \subseteq seen.flows
    PROVE  CountedFlows(FlowDraft(root, seen))
<1>1. PICK e : e = FlowDraft(root, seen)
    OBVIOUS
<1>2. e.subject.name = root /\ e.facts.count = Cardinality(seen.flows)
    BY <1>1 DEF FlowDraft, FlowFacts, Drafted, Subject
<1>3. IsFiniteSet(seen.flows) /\ IsFiniteSet(FlowsOf(source.ever, root))
    <2>1. FlowsOf(source.ever, root) \subseteq Flows
        BY DEF FlowsOf, RelayHolds
    <2> QED BY <2>1, FlowsAreParsed, FS_Subset DEF SeenOf
<1>4. seen.flows \subseteq FlowsOf(source.ever, root)
    BY DEF FlowsOf, SeenOf
<1>5. Cardinality(FlowsOf(source.throughout, root)) <= Cardinality(seen.flows)
    BY <1>3, FS_Subset
<1>6. Cardinality(seen.flows) <= Cardinality(FlowsOf(source.ever, root))
    BY <1>3, <1>4, FS_Subset
<1>7. Cardinality(seen.flows) \in Nat /\ Cardinality(seen.flows) # 0
    BY <1>3, FS_CardinalityType, FS_EmptySet DEF Incomplete
<1> QED BY <1>1, <1>2, <1>5, <1>6, <1>7 DEF CountedFlows

LEMMA ObserveGathers ==
    ASSUME DOMAIN attempt = AttemptFields, attempt.outcome = "collecting", FlowsStand, FlowsGathered, source' = source,
           NEW seen, SeenOf(seen, Root), seen.asked \in {1, 2}, seen.flows \subseteq source.ever,
           seen.gaps = {} /\ ~seen.truncated => \A f \in source.throughout : f.from \in Rooted[Root] => f \in seen.flows,
           seen.asked = 2 /\ seen.gaps = {} /\ ~seen.truncated =>
                \A f \in source.throughout : f.to \in Rooted[Root] => f \in seen.flows,
           Observe(seen)
    PROVE  /\ attempt'.outcome = "collecting" => FlowsGathered'
           /\ attempt'.outcome = "batch" => (~attempt'.partial => FlowsAreExact')
<1>1. PICK drafts, partial : /\ drafts = attempt.drafts \cup {FlowDraft(Root, seen)}
                             /\ partial = (attempt.partial \/ Incomplete(seen))
    OBVIOUS
<1>2. RelayHolds(source) /\ attempt.at \in DOMAIN Services
    BY DEF FlowsStand
<1>3. ASSUME ~partial, ~(seen.asked < 2)
      PROVE  \A e \in drafts : CountedFlows(e)
    <2>1. ~attempt.partial /\ ~Incomplete(seen)
        BY <1>1, <1>3
    <2>2. seen.asked = 2 /\ seen.gaps = {} /\ ~seen.truncated
        BY <1>3, <2>1 DEF Incomplete
    <2>3. FlowsOf(source.throughout, Root) \subseteq seen.flows
        BY <2>2 DEF FlowsOf
    <2>4. CountedFlows(FlowDraft(Root, seen))
        BY <1>2, <2>1, <2>3, SeenFlowsAreCounted
    <2> QED BY <1>1, <2>1, <2>4 DEF FlowsGathered
<1>4. CASE seen.asked < 2 /\ attempt' = [attempt EXCEPT !.read = seen]
    <2>1. /\ attempt'.at = attempt.at /\ attempt'.read = seen /\ attempt'.drafts = attempt.drafts
          /\ attempt'.partial = attempt.partial /\ attempt'.outcome = attempt.outcome
        BY <1>4 DEF AttemptFields
    <2>2. seen # <<>>
        <3>1. DOMAIN seen # {} /\ DOMAIN <<>> = {}
            BY DEF SeenOf, SeenFields
        <3> QED BY <3>1
    <2>3. Seen' = seen /\ Root' = Root
        BY <2>1, <2>2 DEF Seen, Root
    <2> QED BY <2>1, <2>3 DEF FlowsGathered, CountedFlows
<1>5. CASE /\ ~(seen.asked < 2)
           /\ attempt' = [attempt EXCEPT !.at = @ + 1, !.drafts = drafts, !.partial = partial,
                                         !.read = [NothingSeen EXCEPT !.answered = seen.answered]]
    <2>1. PICK nothing : nothing = [NothingSeen EXCEPT !.answered = seen.answered]
        OBVIOUS
    <2>2. nothing.flows = {} /\ nothing.asked = 0 /\ nothing # <<>>
        <3>1. nothing.flows = {} /\ nothing.asked = 0 /\ DOMAIN nothing # {} /\ DOMAIN <<>> = {}
            BY <2>1 DEF NothingSeen
        <3> QED BY <3>1
    <2>3. /\ attempt'.read = nothing /\ attempt'.drafts = drafts /\ attempt'.partial = partial
          /\ attempt'.outcome = attempt.outcome
        BY <1>5, <2>1 DEF AttemptFields
    <2>4. Seen' = nothing
        BY <2>2, <2>3 DEF Seen
    <2> QED BY <1>3, <1>5, <2>2, <2>3, <2>4 DEF FlowsGathered, CountedFlows
<1>6. CASE ~(seen.asked < 2) /\ Deliver(drafts, partial)
    <2>1. attempt'.drafts = drafts /\ attempt'.partial = partial /\ attempt'.outcome = "batch"
        BY <1>6 DEF Deliver, AttemptFields
    <2> QED BY <1>3, <1>6, <2>1 DEF FlowsAreExact, CountedFlows
<1>7. CASE Abandon("retryable")
    BY <1>7 DEF Abandon, AttemptFields
<1> QED BY <1>1, <1>4, <1>5, <1>6, <1>7 DEF Observe

LEMMA AskFlowsGathers ==
    ASSUME DOMAIN attempt = AttemptFields, FlowsStand, FlowsGathered, AskFlows
    PROVE  /\ attempt'.outcome = "collecting" => FlowsGathered'
           /\ attempt'.outcome = "batch" => (~attempt'.partial => FlowsAreExact')
<1>1. attempt.outcome = "collecting" /\ source' = source
    BY DEF AskFlows, Working
<1>2. PICK seen, root : seen = Seen /\ root = Root
    OBVIOUS
<1>3. /\ SeenOf(seen, Root) /\ seen.asked \in {0, 1} /\ seen.flows \subseteq source.ever
      /\ RelayHolds(source) /\ attempt.at \in DOMAIN Services
    BY <1>2 DEF FlowsStand, FlowsGathered, SeenOf, SeenFields
<1>4. PICK direction : direction = Directions[seen.asked + 1]
    OBVIOUS
<1>5. (seen.asked = 0 /\ direction = "from") \/ (seen.asked = 1 /\ direction = "to")
    BY <1>3, <1>4 DEF Directions
<1>6. PICK matching, flows, asked :
        /\ matching = Matching(source.kept, Root, direction) /\ flows = LastFlows(matching)
        /\ asked = [seen EXCEPT !.asked = @ + 1]
    OBVIOUS
<1>7. /\ SeenOf(asked, Root) /\ asked.flows = seen.flows /\ asked.truncated = seen.truncated /\ asked.gaps = seen.gaps
      /\ asked.asked \in {1, 2} /\ (asked.asked = 2 => seen.asked = 1)
    BY <1>3, <1>6 DEF SeenOf, SeenFields
<1>8. CASE Abandon("permanent")
    BY <1>8 DEF Abandon, AttemptFields
<1>9. ASSUME NEW gap, Observe([asked EXCEPT !.gaps = @ \cup {gap}])
      PROVE  /\ attempt'.outcome = "collecting" => FlowsGathered'
             /\ attempt'.outcome = "batch" => (~attempt'.partial => FlowsAreExact')
    <2>1. PICK next : next = [asked EXCEPT !.gaps = @ \cup {gap}]
        OBVIOUS
    <2>2. /\ SeenOf(next, Root) /\ next.asked \in {1, 2} /\ next.flows \subseteq source.ever /\ next.gaps # {}
        BY <1>3, <1>7, <2>1 DEF SeenOf, SeenFields
    <2> QED BY <1>1, <1>9, <2>1, <2>2, ObserveGathers
<1>10. ASSUME NEW lost, ~(QueryLimit < 1), \A f \in flows : Endpoint(f, direction) \in Rooted[Root] /\ Within(f.at),
              Observe([asked EXCEPT !.flows = @ \cup flows, !.gaps = @ \cup lost, !.answered = TRUE,
                                    !.truncated = @ \/ Cardinality(matching) > QueryLimit])
       PROVE  /\ attempt'.outcome = "collecting" => FlowsGathered'
              /\ attempt'.outcome = "batch" => (~attempt'.partial => FlowsAreExact')
    <2>1. PICK next : next = [asked EXCEPT !.flows = @ \cup flows, !.gaps = @ \cup lost, !.answered = TRUE,
                                           !.truncated = @ \/ Cardinality(matching) > QueryLimit]
        OBVIOUS
    <2>2. matching \in SUBSET Flows /\ matching \subseteq source.kept
        BY <1>3, <1>6 DEF Matching, RelayHolds
    <2>3. flows \subseteq matching /\ (matching # {} => flows # {})
        <3>1. QueryLimit >= 1
            BY ONLY <1>10, QueryLimitIsTyped
        <3> QED BY <1>6, <2>2, <3>1, LastOfFlows
    <2>4. Cardinality(matching) > QueryLimit => flows # {}
        <3>1. IsFiniteSet(matching)
            BY <2>2, FlowsAreParsed, FS_Subset
        <3>2. matching = {} => Cardinality(matching) = 0
            BY FS_EmptySet
        <3> QED BY <1>10, <2>3, <3>2, QueryLimitIsTyped
    <2>5. \A f \in flows : f.from \in Rooted[Root] \/ f.to \in Rooted[Root]
        BY <1>5, <1>10 DEF Endpoint
    <2>6. /\ DOMAIN next = DOMAIN asked /\ next.flows = seen.flows \cup flows /\ next.asked = asked.asked
          /\ next.truncated = (seen.truncated \/ Cardinality(matching) > QueryLimit) /\ next.gaps = seen.gaps \cup lost
        BY <1>7, <2>1 DEF SeenOf, SeenFields
    <2>7. SeenOf(next, Root)
        BY <1>7, <1>10, <2>2, <2>3, <2>4, <2>5, <2>6 DEF SeenOf
    <2>8. next.flows \subseteq source.ever
        BY <1>3, <2>2, <2>3, <2>6 DEF RelayHolds
    <2>9. ~next.truncated => flows = matching
        BY <1>6, <2>2, <2>6, FewFlowsAreLast
    <2>10. Root \in Range(Services)
        BY <1>3 DEF Root, Range
    <2>11. ASSUME ~next.truncated, NEW f \in source.throughout, Endpoint(f, direction) \in Rooted[Root]
           PROVE  f \in next.flows
        <3>1. Rooted[Root] \subseteq Selected[Root]
            BY <2>10, PodsAreNamedAfterWorkloads
        <3>2. f \in matching
            BY <1>3, <1>6, <2>11, <3>1 DEF Matching, RelayHolds
        <3> QED BY <2>6, <2>9, <2>11, <3>2
    <2>12. ASSUME seen.asked = 1, next.gaps = {}, ~next.truncated, NEW f \in source.throughout, f.from \in Rooted[Root]
           PROVE  f \in next.flows
        BY <1>2, <2>6, <2>12 DEF FlowsGathered
    <2>13. next.gaps = {} /\ ~next.truncated => \A f \in source.throughout : f.from \in Rooted[Root] => f \in next.flows
        BY <1>5, <2>11, <2>12 DEF Endpoint
    <2>14. next.asked = 2 /\ next.gaps = {} /\ ~next.truncated =>
                \A f \in source.throughout : f.to \in Rooted[Root] => f \in next.flows
        BY <1>5, <1>7, <2>6, <2>11 DEF Endpoint
    <2>15. next.asked \in {1, 2}
        BY <1>7, <2>6
    <2> QED BY <1>1, <1>10, <2>1, <2>7, <2>8, <2>13, <2>14, <2>15, ObserveGathers
<1>11. \/ Abandon("permanent")
       \/ /\ ~(QueryLimit < 1) /\ \A f \in flows : Endpoint(f, direction) \in Rooted[Root] /\ Within(f.at)
          /\ \E lost : Observe([asked EXCEPT !.flows = @ \cup flows, !.gaps = @ \cup lost, !.answered = TRUE,
                                             !.truncated = @ \/ Cardinality(matching) > QueryLimit])
       \/ \E gap : Observe([asked EXCEPT !.gaps = @ \cup {gap}])
    BY <1>2, <1>4, <1>6 DEF AskFlows
<1> QED BY ONLY <1>8, <1>9, <1>10, <1>11

\* Fewer flows were there all the time.
LEMMA ForgettingKeepsGathered ==
    ASSUME RelayHolds(source), FlowsGathered, FlowsAreForgotten
    PROVE  FlowsGathered'
<1>1. attempt' = attempt
    BY DEF FlowsAreForgotten
<1>2. PICK oldest : source' = [source EXCEPT !.kept = @ \ {oldest}, !.throughout = @ \ {oldest}]
    BY DEF FlowsAreForgotten
<1>3. source'.throughout \subseteq source.throughout /\ source'.ever = source.ever
    BY <1>2 DEF RelayHolds
<1>4. Seen' = Seen /\ Root' = Root
    BY <1>1 DEF Seen, Root
<1>5. ASSUME NEW e, CountedFlows(e)
      PROVE  CountedFlows(e)'
    <2>1. PICK before, after : /\ before = FlowsOf(source.throughout, e.subject.name)
                               /\ after = FlowsOf(source'.throughout, e.subject.name)
        OBVIOUS
    <2>2. after \subseteq before /\ before \subseteq Flows
        BY <1>3, <2>1 DEF FlowsOf, RelayHolds
    <2>3. Cardinality(after) <= Cardinality(before) /\ Cardinality(after) \in Nat /\ Cardinality(before) \in Nat
        BY <2>2, FlowsAreParsed, FS_Subset, FS_CardinalityType
    <2>4. Cardinality(before) <= e.facts.count /\ e.facts.count \in Nat
        BY <1>5, <2>1 DEF CountedFlows
    <2>5. FlowsOf(source.ever, e.subject.name) = FlowsOf(source'.ever, e.subject.name)
        BY <1>3
    <2>6. Cardinality(after) <= e.facts.count
        BY ONLY <2>3, <2>4
    <2> QED BY <1>5, <2>1, <2>5, <2>6 DEF CountedFlows
<1> QED BY <1>1, <1>3, <1>4, <1>5 DEF FlowsGathered

-----------------------------------------------------------------------------
(* Kills are counted exactly                                               *)

LEMMA MembersOfInjective ==
    ASSUME NEW S, NEW s \in Seq(S), IsInjective(s)
    PROVE  Cardinality(Range(s)) = Len(s)
<1>1. DOMAIN s = 1..Len(s) /\ Len(s) \in Nat
    OBVIOUS
<1>2. \A j, k \in 1..Len(s) : s[j] = s[k] => j = k
    BY <1>1 DEF IsInjective
<1>3. s \in [1..Len(s) -> Range(s)] /\ \A x \in Range(s) : \E k \in 1..Len(s) : s[k] = x
    BY <1>1 DEF Range
<1>4. s \in Bijection(1..Len(s), Range(s))
    BY <1>2, <1>3 DEF Bijection, Injection, Surjection, IsInjective
<1>5. ExistsBijection(1..Len(s), Range(s))
    BY <1>4 DEF ExistsBijection
<1> QED BY <1>1, <1>5, FS_CountingElements

\* No kill is left out of an answer of fewer than were asked for.
LEMMA FewLinesAreEarliest ==
    ASSUME LokiHolds(source), NEW lines \in SUBSET source.lines, NEW n \in Nat, ~(Cardinality(Earliest(lines, n + 1)) > n)
    PROVE  Earliest(lines, n + 1) = lines
<1>1. /\ IsFiniteSet(lines) /\ \A l \in lines : l.order \in Nat
      /\ \A k, l \in lines : k.order = l.order => k = l
    BY FS_Subset DEF LokiHolds
<1>2. PICK R : R = {p \in lines \X lines : p[1].order < p[2].order}
    OBVIOUS
<1>3. StrictOrder(lines, R)
    <2>1. \A k, l \in lines : <<k, l>> \in R <=> k.order < l.order
        BY <1>2
    <2> QED BY ONLY <1>1, <2>1 DEF StrictOrder
<1>4. PICK ordered : ordered = Sorted(lines, R)
    OBVIOUS
<1>5. ordered \in Seq(lines) /\ Range(ordered) = lines /\ IsInjective(ordered)
    BY ONLY <1>1, <1>3, <1>4, SortedMembers
<1>6. PICK m : m = Min({n + 1, Len(ordered)})
    OBVIOUS
<1>7. Len(ordered) \in Nat /\ m \in 0..Len(ordered) /\ (m = n + 1 \/ m = Len(ordered))
    <2>1. Len(ordered) \in Nat /\ n + 1 \in Nat
        BY <1>5
    <2> QED BY ONLY <1>6, <2>1, LesserOfTwo
<1>8. PICK s : s = SubSeq(ordered, 1, m)
    OBVIOUS
<1>9. Earliest(lines, n + 1) = Range(s)
    BY ONLY <1>2, <1>4, <1>6, <1>8 DEF Earliest, Ordered
<1>10. /\ s \in Seq(Range(s)) /\ \A k \in DOMAIN s : k \in DOMAIN ordered /\ s[k] = ordered[k]
       /\ m = Len(ordered) => s = ordered
    BY ONLY <1>5, <1>7, <1>8, MembersOfPrefix
<1>11. CASE m = n + 1
    <2>1. IsInjective(s)
        BY <1>5, <1>10 DEF IsInjective
    <2>2. Len(s) = n + 1
        BY <1>5, <1>7, <1>8, <1>11
    <2>3. Cardinality(Range(s)) = n + 1
        BY <1>10, <2>1, <2>2, MembersOfInjective
    <2> QED BY <1>9, <2>3
<1> QED BY <1>5, <1>7, <1>9, <1>10, <1>11

LEMMA ListPodsGathers ==
    ASSUME DOMAIN attempt = AttemptFields, KillsStand, KillsGathered, ListPods
    PROVE  /\ attempt'.outcome = "collecting" => KillsGathered'
           /\ attempt'.outcome = "batch" => KillsAreExact'
<1>1. ~Listed.complete /\ source' = source
    BY DEF ListPods
<1>2. PICK n : n = Min({PodPage, MaxPods - Listed.raw, Len(Listed.rest)})
    OBVIOUS
<1>3. PICK page, rest, scoped, found, raw :
        /\ page = SubSeq(Listed.rest, 1, n)
        /\ rest = SubSeq(Listed.rest, Len(page) + 1, Len(Listed.rest))
        /\ scoped = {p \in Range(page) : p.name \in Scoped}
        /\ found = Listed.found \cup scoped
        /\ raw = Listed.raw + Len(page)
    OBVIOUS
<1>4. Listed.rest \in Seq(Range(Listed.rest)) /\ Len(Listed.rest) \in Nat /\ Listed.raw \in Nat
    BY DEF KillsGathered
<1>5. n \in 0..Len(Listed.rest)
    <2>1. PICK i, j, k : i = PodPage /\ j = MaxPods - Listed.raw /\ k = Len(Listed.rest)
        OBVIOUS
    <2>2. i \in Nat /\ j \in Nat /\ k \in Nat
        <3>1. Listed.raw < MaxPods /\ MaxPods \in Nat /\ PodPage \in Nat
            BY <1>1, FlowLimits DEF KillsGathered
        <3> QED BY ONLY <1>4, <2>1, <3>1
    <2>3. \E x \in {i, j, k} : \A y \in {i, j, k} : x <= y
        BY ONLY <2>2
    <2>4. n \in {i, j, k} /\ \A y \in {i, j, k} : n <= y
        BY <1>2, <2>1, <2>3 DEF Min
    <2>5. n \in Nat /\ n <= k
        BY ONLY <2>2, <2>4
    <2> QED BY ONLY <1>4, <2>1, <2>5
<1>6. /\ page \in Seq(Range(page)) /\ Len(page) = n
      /\ rest \in Seq(Range(rest)) /\ page \o rest = Listed.rest
    <2>1. Len(page) = n
        BY <1>3, <1>4, <1>5
    <2> QED BY <1>3, <1>4, <1>5, <2>1, MembersOfPrefix
<1>7. Range(Listed.rest) = Range(page) \cup Range(rest)
    BY <1>6, MembersOfConcat
<1>8. \A p \in Range(source.pods) : p.name \in Scoped => p \in found \cup Range(rest)
    BY <1>3, <1>7 DEF KillsGathered
<1>9. \/ Abandon("permanent") \/ Fails
      \/ rest = <<>> /\ found = {} /\ Deliver({}, FALSE)
      \/ /\ ~(rest # <<>> /\ raw >= MaxPods)
         /\ attempt' = [attempt EXCEPT !.read = [found |-> found, rest |-> rest, raw |-> raw, complete |-> rest = <<>>]]
    <2>1. \/ IF \/ \E p \in scoped : p.uid = Unidentified
                \/ \E p, q \in found : p.uid = q.uid /\ p.name # q.name
                \/ rest # <<>> /\ raw >= MaxPods
             THEN Abandon("permanent")
             ELSE IF rest = <<>> /\ found = {} THEN Deliver({}, FALSE)
             ELSE attempt' = [attempt EXCEPT !.read = [found |-> found, rest |-> rest, raw |-> raw,
                                                       complete |-> rest = <<>>]]
          \/ Fails
        BY <1>2, <1>3 DEF ListPods
    <2> QED BY ONLY <2>1
<1>10. CASE Abandon("permanent") \/ Fails
    <2>1. \E how \in Errors : Abandon(how)
        BY <1>10 DEF Fails, Errors
    <2>2. attempt'.outcome \in Errors
        BY <2>1 DEF Abandon, AttemptFields
    <2> QED BY <2>2 DEF Errors
<1>11. CASE rest = <<>> /\ found = {} /\ Deliver({}, FALSE)
    <2>1. attempt'.drafts = {} /\ attempt'.outcome = "batch"
        BY <1>11 DEF Deliver, AttemptFields
    <2>2. \A p \in Range(source.pods) : p.name \notin Scoped
        BY <1>8, <1>11 DEF Range
    <2> QED BY <1>1, <2>1, <2>2 DEF KillsAreExact
<1>12. CASE /\ ~(rest # <<>> /\ raw >= MaxPods)
            /\ attempt' = [attempt EXCEPT !.read = [found |-> found, rest |-> rest, raw |-> raw, complete |-> rest = <<>>]]
    <2>1. PICK read : read = [found |-> found, rest |-> rest, raw |-> raw, complete |-> rest = <<>>]
        OBVIOUS
    <2>2. /\ read.found = found /\ read.rest = rest /\ read.raw = raw /\ read.complete = (rest = <<>>)
          /\ DOMAIN read # {} /\ DOMAIN <<>> = {}
        BY <2>1
    <2>3. attempt'.read = read /\ attempt'.outcome = attempt.outcome
        BY <1>12, <2>1 DEF AttemptFields
    <2>4. Listed' = read
        BY <2>2, <2>3 DEF Listed
    <2>5. raw \in Nat /\ (rest # <<>> => raw < MaxPods)
        <3>1. raw = Listed.raw + n /\ n \in Nat /\ MaxPods \in Nat
            <4>1. raw = Listed.raw + Len(page)
                BY ONLY <1>3
            <4>2. Len(page) = n
                BY ONLY <1>6
            <4>3. n \in Nat
                BY ONLY <1>4, <1>5
            <4> QED BY <4>1, <4>2, <4>3, FlowLimits
        <3>2. raw \in Nat /\ (raw >= MaxPods \/ raw < MaxPods)
            BY ONLY <1>4, <3>1
        <3> QED BY <1>12, <3>2
    <2>6. KillsGathered'
        BY <1>1, <1>6, <1>8, <2>2, <2>4, <2>5 DEF KillsGathered
    <2>7. attempt'.outcome = "collecting"
        BY <2>3 DEF ListPods, Working
    <2> QED BY <2>6, <2>7
<1> QED BY <1>9, <1>10, <1>11, <1>12

LEMMA AskKillsGathers ==
    ASSUME DOMAIN attempt = AttemptFields, KillsStand, KillsGathered, AskKills
    PROVE  /\ attempt'.outcome # "collecting"
           /\ attempt'.outcome = "batch" => (~attempt'.partial => KillsAreExact')
<1>1. Listed.complete /\ source' = source /\ LokiHolds(source)
    BY DEF AskKills, KillsStand
<1> DEFINE uids == {p.uid : p \in Listed.found}
           matching == {l \in source.lines : l.uid \in uids /\ Within(l.at)}
           answer == Earliest(matching, MaxKills + 1)
           DraftsOf(kept) == {KillDraft(p, {l \in kept : l.uid = p.uid}) :
                                p \in {q \in Listed.found : \E l \in kept : l.uid = q.uid}}
<1>3. \/ Abandon("permanent") \/ Fails
      \/ ~(Cardinality(answer) > MaxKills) /\ DeliverWithinBudget(DraftsOf(answer), FALSE)
      \/ \E drafts : DeliverWithinBudget(drafts, TRUE)
    <2> DEFINE Stream(uid) == {l \in answer : l.uid = uid}
    <2>1. \/ IF \E l \in answer : l.path # l.uid THEN Abandon("permanent")
             ELSE IF ~(Cardinality(answer) > MaxKills) THEN DeliverWithinBudget(DraftsOf(answer), FALSE)
             ELSE \E uid \in {l.uid : l \in answer} :
                    LET last == CHOOSE l \in Stream(uid) : \A k \in Stream(uid) : k.order <= l.order
                    IN  DeliverWithinBudget(DraftsOf(answer \ {last}), TRUE)
          \/ Fails
        BY DEF AskKills
    <2> HIDE DEF DraftsOf, answer, Stream
    <2> QED BY ONLY <2>1
<1> HIDE DEF answer
<1>4. CASE Abandon("permanent") \/ Fails
    <2>1. \E how \in Errors : Abandon(how)
        BY <1>4 DEF Fails, Errors
    <2>2. attempt'.outcome \in Errors
        BY <2>1 DEF Abandon, AttemptFields
    <2> QED BY <2>2 DEF Errors
<1>5. CASE \E drafts : Deliver(drafts, TRUE)
    BY <1>5 DEF Deliver, AttemptFields
<1>6. CASE ~(Cardinality(answer) > MaxKills) /\ Deliver(DraftsOf(answer), FALSE)
    <2>1. attempt'.drafts = DraftsOf(answer) /\ attempt'.outcome = "batch"
        <3> HIDE DEF DraftsOf
        <3> QED BY <1>6 DEF Deliver, AttemptFields
    <2>2. answer = matching
        <3>1. matching \in SUBSET source.lines /\ MaxKills \in Nat
            BY FlowLimits
        <3> HIDE DEF matching
        <3> QED BY <1>1, <1>6, <3>1, FewLinesAreEarliest DEF answer
    <2>3. \A p \in Listed.found : {l \in matching : l.uid = p.uid} = KillsOf(p.uid)
        BY DEF KillsOf
    <2> HIDE DEF matching
    <2>4. ASSUME NEW e \in DraftsOf(answer)
          PROVE  e.facts.count = Cardinality(KillsOf(e.subject.uid))
        <3>1. PICK p \in Listed.found : e = KillDraft(p, {l \in answer : l.uid = p.uid})
            OBVIOUS
        <3>2. e = KillDraft(p, KillsOf(p.uid))
            BY <2>2, <2>3, <3>1
        <3>3. e.facts.count = Cardinality(KillsOf(p.uid)) /\ e.subject.uid = p.uid
            BY <3>2 DEF KillDraft, Drafted, Subject
        <3> QED BY <3>3
    <2>5. ASSUME NEW p \in Range(source.pods), p.name \in Scoped, KillsOf(p.uid) # {}
          PROVE  \E e \in DraftsOf(answer) : e.subject.uid = p.uid
        <3>1. p \in Listed.found
            BY <1>1, <2>5 DEF KillsGathered, Range
        <3>2. PICK l \in answer : l.uid = p.uid
            BY <2>2, <2>3, <2>5, <3>1
        <3>3. PICK e : e = KillDraft(p, {k \in answer : k.uid = p.uid})
            OBVIOUS
        <3>4. e \in DraftsOf(answer)
            BY <3>1, <3>2, <3>3
        <3>5. e.subject.uid = p.uid
            BY <3>3 DEF KillDraft, Drafted, Subject
        <3> QED BY <3>4, <3>5
    <2>6. \A uid : KillsOf(uid)' = KillsOf(uid)
        BY <1>1 DEF KillsOf
    <2> HIDE DEF DraftsOf
    <2> QED BY <1>1, <2>1, <2>4, <2>5, <2>6 DEF KillsAreExact
<1> HIDE DEF DraftsOf
<1> QED BY <1>3, <1>4, <1>5, <1>6 DEF DeliverWithinBudget

LEMMA PodsChangeGathers ==
    ASSUME LokiHolds(source), KillsGathered, PodsChange
    PROVE  KillsGathered'
<1>1. attempt' = attempt
    BY DEF PodsChange
<1>2. LokiHolds(source') /\ Range(source'.pods) \subseteq Range(source.pods)
    BY PodsGo
<1>3. CASE attempt.read = <<>>
    <2>1. /\ Listed'.rest = source'.pods /\ Listed'.raw = 0 /\ Listed'.complete = FALSE
        BY <1>1, <1>3 DEF Listed, NoPods
    <2>2. Listed.raw = 0 /\ Listed.complete = FALSE
        BY <1>3 DEF Listed, NoPods
    <2>3. source'.pods \in Seq(Range(source'.pods))
        BY <1>2 DEF LokiHolds
    <2> QED BY <2>1, <2>2, <2>3, FlowLimits DEF KillsGathered
<1>4. CASE attempt.read # <<>>
    <2>1. Listed' = Listed
        BY <1>1, <1>4 DEF Listed
    <2> QED BY <1>2, <2>1 DEF KillsGathered
<1> QED BY <1>3, <1>4

-----------------------------------------------------------------------------
(* Changes of the window are reported                                      *)

\* A page goes from the rest to what is listed.
MovedOn(list, rest, n, sets) ==
    /\ Range(sets) \cup Range(SubSeq(rest, n + 1, Len(rest))) = Range(list.sets) \cup Range(rest)
    /\ ~(n < Len(rest)) => SubSeq(rest, n + 1, Len(rest)) = <<>>

LEMMA OnePageOn ==
    ASSUME NEW list, ListStands(list), ~list.listed, NEW rest, rest \in Seq(Range(rest)),
           NEW n, n = Min({SetPage, MaxReplicaSets - Len(list.sets), Len(rest)}),
           NEW sets, sets = list.sets \o SubSeq(rest, 1, n)
    PROVE  MovedOn(list, rest, n, sets)
<1>1. n \in 0..Len(rest) /\ Len(rest) \in Nat
    <2>1. PICK a, b, c : a = SetPage /\ b = MaxReplicaSets - Len(list.sets) /\ c = Len(rest)
        OBVIOUS
    <2>2. a \in Nat /\ b \in Nat /\ c \in Nat
        <3>1. Len(list.sets) \in Nat /\ Len(rest) \in Nat /\ Len(list.sets) < MaxReplicaSets
            BY DEF ListStands
        <3> QED BY ONLY <2>1, <3>1, HistoryLimits
    <2>3. \E x \in {a, b, c} : \A y \in {a, b, c} : x <= y
        BY ONLY <2>2
    <2>4. n \in {a, b, c} /\ \A y \in {a, b, c} : n <= y
        BY <2>1, <2>3 DEF Min
    <2> QED BY ONLY <2>1, <2>2, <2>4
<1>2. PICK page, after : page = SubSeq(rest, 1, n) /\ after = SubSeq(rest, n + 1, Len(rest))
    OBVIOUS
<1>3. page \in Seq(Range(page)) /\ after \in Seq(Range(after)) /\ page \o after = rest
    BY <1>1, <1>2, MembersOfPrefix
<1>4. list.sets \in Seq(Range(list.sets))
    BY DEF ListStands
<1>5. Range(rest) = Range(page) \cup Range(after)
    BY ONLY <1>3, MembersOfConcat
<1>6. Range(sets) = Range(list.sets) \cup Range(page)
    BY <1>2, <1>3, <1>4, MembersOfConcat
<1>7. ASSUME ~(n < Len(rest))
      PROVE  after = <<>>
    <2>1. n = Len(rest)
        BY ONLY <1>1, <1>7
    <2>2. Len(after) = 0
        BY <1>1, <1>2, <2>1
    <2> QED BY <1>3, <2>2
<1> QED BY <1>2, <1>5, <1>6, <1>7 DEF MovedOn

LEMMA ListReplicaSetsGathers ==
    ASSUME DOMAIN attempt = AttemptFields, HistoryStands, ChangesGathered, ListReplicaSets
    PROVE  /\ attempt'.outcome = "collecting" => ChangesGathered'
           /\ attempt'.outcome # "batch"
<1>1. /\ attempt.outcome = "collecting" /\ source' = source /\ ~List.listed /\ source.now >= Window[2]
      /\ ListStands(List) /\ SetsAreKept(source.sets)
    BY DEF ListReplicaSets, Working, HistoryStands, ControllerHolds
<1>2. PICK rest : rest = (IF List.open THEN List.rest ELSE InOrder(source.sets))
    OBVIOUS
<1>3. /\ rest \in Seq(Range(rest))
      /\ \A s \in source.sets : s.created < Window[2] =>
            \E l \in Range(List.sets) \cup Range(rest) : l.template = s.template /\ l.created = s.created
    <2>1. CASE List.open
        BY <1>1, <1>2, <2>1 DEF ListStands, ChangesGathered
    <2>2. CASE ~List.open
        BY <1>1, <1>2, <2>2, InOrderLists
    <2> QED BY <2>1, <2>2
<1>4. ASSUME NEW list, list # <<>>, attempt' = [attempt EXCEPT !.read = list]
      PROVE  List' = list /\ attempt'.outcome = "collecting"
    <2>1. attempt'.read = list /\ attempt'.outcome = attempt.outcome
        BY <1>4 DEF AttemptFields
    <2> QED BY <1>1, <1>4, <2>1 DEF List
<1> DEFINE n == Min({SetPage, MaxReplicaSets - Len(List.sets), Len(rest)})
           sets == List.sets \o SubSeq(rest, 1, n)
           more == n < Len(rest)
           full == Len(sets) >= MaxReplicaSets
           after == SubSeq(rest, n + 1, Len(rest))
<1>5. \/ attempt' = [attempt EXCEPT !.read = [List EXCEPT !.sets = sets, !.open = TRUE, !.rest = after,
                                                         !.listed = ~more \/ full, !.truncated = more /\ full]]
      \/ attempt' = [attempt EXCEPT !.read = [NoList EXCEPT !.restarted = TRUE]]
      \/ Fails
    BY <1>2 DEF ListReplicaSets
<1>6. /\ Range(sets) \cup Range(after) = Range(List.sets) \cup Range(rest)
      /\ ~more => after = <<>>
    <2>1. PICK m, all, left : m = n /\ all = sets /\ left = after
        OBVIOUS
    <2>2. /\ m = Min({SetPage, MaxReplicaSets - Len(List.sets), Len(rest)})
          /\ all = List.sets \o SubSeq(rest, 1, m) /\ left = SubSeq(rest, m + 1, Len(rest))
        BY <2>1
    <2> HIDE DEF n, sets, more, full, after
    <2>3. /\ Range(all) \cup Range(left) = Range(List.sets) \cup Range(rest)
          /\ ~(m < Len(rest)) => left = <<>>
        <3>1. PICK list : list = List
            OBVIOUS
        <3>2. ListStands(list) /\ ~list.listed /\ rest \in Seq(Range(rest))
            BY <1>1, <1>3, <3>1
        <3>3. /\ m = Min({SetPage, MaxReplicaSets - Len(list.sets), Len(rest)})
              /\ all = list.sets \o SubSeq(rest, 1, m) /\ left = SubSeq(rest, m + 1, Len(rest))
            BY <2>2, <3>1
        <3>4. MovedOn(list, rest, m, all)
            BY ONLY <3>2, <3>3, OnePageOn
        <3> QED BY <3>1, <3>3, <3>4 DEF MovedOn
    <2>4. more = (n < Len(rest))
        BY DEF more
    <2> QED BY <2>1, <2>3, <2>4
<1> HIDE DEF n, sets, more, full, after
<1>7. CASE attempt' = [attempt EXCEPT !.read = [List EXCEPT !.sets = sets, !.open = TRUE, !.rest = after,
                                                         !.listed = ~more \/ full, !.truncated = more /\ full]]
    <2>1. PICK next : next = [List EXCEPT !.sets = sets, !.open = TRUE, !.rest = after,
                                          !.listed = ~more \/ full, !.truncated = more /\ full]
        OBVIOUS
    <2>2. /\ DOMAIN next = ListFields /\ next.sets = sets /\ next.open = TRUE /\ next.rest = after
          /\ next.listed = (~more \/ full) /\ next.truncated = (more /\ full)
        BY <1>1, <2>1 DEF ListStands, ListFields
    <2>3. next # <<>>
        <3>1. DOMAIN <<>> = {}
            OBVIOUS
        <3> QED BY <2>2, <3>1 DEF ListFields
    <2>4. List' = next /\ attempt'.outcome = "collecting"
        BY <1>4, <1>7, <2>1, <2>3
    <2>5. \A s \in source.sets : s.created < Window[2] =>
            \E l \in Range(next.sets) \cup Range(next.rest) : l.template = s.template /\ l.created = s.created
        BY <1>3, <1>6, <2>2
    <2>6. next.listed /\ ~next.truncated => next.rest = <<>>
        BY <1>6, <2>2
    <2> QED BY <1>1, <2>2, <2>4, <2>5, <2>6 DEF ChangesGathered
<1>8. CASE attempt' = [attempt EXCEPT !.read = [NoList EXCEPT !.restarted = TRUE]]
    <2>1. PICK next : next = [NoList EXCEPT !.restarted = TRUE]
        OBVIOUS
    <2>2. next.open = FALSE /\ next.listed = FALSE /\ next # <<>>
        <3>1. next.open = FALSE /\ next.listed = FALSE /\ DOMAIN next # {} /\ DOMAIN <<>> = {}
            BY <2>1 DEF NoList
        <3> QED BY <3>1
    <2>3. List' = next /\ attempt'.outcome = "collecting"
        BY <1>4, <1>8, <2>1, <2>2
    <2> QED BY <2>2, <2>3 DEF ChangesGathered
<1>9. CASE Fails
    <2>1. attempt'.outcome \in Errors
        BY <1>9 DEF Fails, Abandon, AttemptFields
    <2> QED BY <2>1 DEF Errors
<1> QED BY <1>5, <1>7, <1>8, <1>9

\* An answer that is not partial comes from a whole list, and reports what is in it.
LEMMA WholeHistoryIsExact ==
    ASSUME HistoryStands, ChangesGathered, List.listed, ~List.truncated, NEW name,
           ~History(name).partial, NEW s \in source.sets, s.revision > 0, Window[1] <= s.created, s.created < Window[2]
    PROVE  \E e \in History(name).drafts : e.facts.status = "CHANGE_DETECTED" /\ e.facts.template = s.template
<1> DEFINE retained == Range(List.sets)
           owned == {t \in retained : t.revision > 0}
           malformed == \E t \in retained : t.revision = 0
           current == IF source.annotated THEN Latest(source.sets) ELSE Latest(owned)
           completeness == IF List.truncated \/ malformed THEN 6 ELSE 10
           incomplete == List.truncated \/ malformed \/ current = 0
           inWindow == {t \in owned : Within(t.created)}
           absence == Drafted(ChangeOrigin, Subject("Deployment", name, name), Window[2], completeness,
                           [ChangeFacts(IF incomplete THEN "HISTORY_INCOMPLETE" ELSE "NO_CHANGES", Cardinality(owned))
                               EXCEPT !.current = current])
           drafts == IF inWindow = {} THEN {absence} ELSE {ChangeDraft(name, t, owned, completeness) : t \in inWindow}
<1>1. History(name).drafts = drafts /\ History(name).partial = incomplete
    BY DEF History
<1>2. ~malformed
    BY <1>1
<1>3. List.rest = <<>> /\ Range(<<>>) = {} /\ List.open
    BY DEF ChangesGathered, Range
<1>4. PICK l \in retained : l.template = s.template /\ l.created = s.created
    BY <1>3 DEF ChangesGathered
<1>5. s.created \in Int /\ Window[2] \in Int /\ l.revision \in Nat
    <2>1. SetsAreKept(source.sets) /\ SetsAreKept(Range(List.sets) \cup Range(List.rest))
        BY DEF HistoryStands, ControllerHolds, ListStands
    <2> QED BY <1>4, <2>1, WindowIsOrdered DEF SetsAreKept
<1>6. l.revision > 0 /\ Within(l.created)
    <2>1. l.revision # 0
        BY <1>2, <1>4
    <2>2. l.revision > 0
        BY ONLY <1>5, <2>1
    <2>3. s.created <= Window[2]
        BY ONLY <1>5, s.created < Window[2]
    <2> QED BY <1>4, <2>2, <2>3 DEF Within
<1>7. l \in inWindow
    BY <1>4, <1>6
<1>8. PICK e : e = ChangeDraft(name, l, owned, completeness)
    OBVIOUS
<1>9. e \in drafts
    BY <1>7, <1>8
<1>10. e.facts.status = "CHANGE_DETECTED" /\ e.facts.template = l.template
    <2> HIDE DEF owned, completeness
    <2> QED BY <1>8 DEF ChangeDraft, Drafted
<1> HIDE DEF drafts
<1> QED BY <1>1, <1>4, <1>9, <1>10

\* Between two Deployments the list stays as it is, and a complete batch has all drafts.
LEMMA RecordedGathers ==
    ASSUME DOMAIN attempt = AttemptFields, attempt.outcome = "collecting", ChangesGathered, source' = source,
           NEW drafts, NEW partial, Recorded(drafts, partial)
    PROVE  /\ attempt'.outcome = "collecting" => ChangesGathered'
           /\ attempt'.outcome = "batch" /\ ~attempt'.partial => ~partial /\ drafts \subseteq attempt'.drafts
<1>1. PICK all : all = attempt.drafts \cup drafts
    OBVIOUS
<1>2. \/ attempt' = [attempt EXCEPT !.at = @ + 1, !.drafts = all, !.partial = partial]
      \/ Abandon("permanent")
      \/ \E some : Deliver(some, TRUE)
      \/ Deliver(all, partial)
    BY <1>1 DEF Recorded
<1>3. CASE attempt' = [attempt EXCEPT !.at = @ + 1, !.drafts = all, !.partial = partial]
    <2>1. attempt'.outcome = "collecting" /\ attempt'.read = attempt.read
        BY <1>3 DEF AttemptFields
    <2>2. List' = List
        BY <2>1 DEF List
    <2> QED BY <2>1, <2>2 DEF ChangesGathered
<1>4. CASE Abandon("permanent")
    BY <1>4 DEF Abandon, AttemptFields
<1>5. CASE \E some : Deliver(some, TRUE)
    BY <1>5 DEF Deliver, AttemptFields
<1>6. CASE Deliver(all, partial)
    BY <1>1, <1>6 DEF Deliver, AttemptFields
<1> QED BY <1>2, <1>3, <1>4, <1>5, <1>6

LEMMA GetDeploymentGathers ==
    ASSUME DOMAIN attempt = AttemptFields, HistoryStands, ChangesGathered, GetDeployment
    PROVE  /\ attempt'.outcome = "collecting" => ChangesGathered'
           /\ attempt'.outcome = "batch" => (~attempt'.partial => ChangesAreExact')
<1>1. attempt.outcome = "collecting" /\ source' = source /\ List.listed
    BY DEF GetDeployment, Working
<1>2. PICK name : name = Deployments[attempt.at]
    OBVIOUS
<1>3. PICK answer : answer = (IF name = Rolled THEN History(name) ELSE NotFound(name))
    OBVIOUS
<1>4. PICK partial : \/ partial = (attempt.partial \/ List.truncated \/ answer.partial) /\ Recorded(answer.drafts, partial)
                     \/ partial = TRUE /\ Recorded({}, partial)
    BY <1>2, <1>3 DEF GetDeployment
<1>5. CASE partial = (attempt.partial \/ List.truncated \/ answer.partial) /\ Recorded(answer.drafts, partial)
    <2>1. /\ attempt'.outcome = "collecting" => ChangesGathered'
          /\ attempt'.outcome = "batch" /\ ~attempt'.partial => ~partial /\ answer.drafts \subseteq attempt'.drafts
        BY <1>1, <1>5, RecordedGathers
    <2>2. ASSUME attempt'.outcome = "batch", ~attempt'.partial
          PROVE  ChangesAreExact'
        <3>1. ~answer.partial /\ ~List.truncated /\ answer.drafts \subseteq attempt'.drafts
            BY <1>5, <2>1, <2>2
        <3>2. answer = History(name)
            <4>1. NotFound(name).partial
                BY DEF NotFound
            <4> QED BY <1>3, <3>1, <4>1
        <3>3. \A s \in source.sets : s.revision > 0 /\ Window[1] <= s.created /\ s.created < Window[2] =>
                \E e \in attempt'.drafts : e.facts.status = "CHANGE_DETECTED" /\ e.facts.template = s.template
            BY <1>1, <3>1, <3>2, WholeHistoryIsExact
        <3> QED BY <1>1, <3>3 DEF ChangesAreExact
    <2> QED BY <2>1, <2>2
<1>6. CASE partial = TRUE /\ Recorded({}, partial)
    <2>1. PICK none : none = {} /\ Recorded(none, partial)
        BY <1>6
    <2>2. /\ attempt'.outcome = "collecting" => ChangesGathered'
          /\ attempt'.outcome = "batch" /\ ~attempt'.partial => ~partial
        BY <1>1, <2>1, RecordedGathers
    <2> QED BY <1>6, <2>2
<1> QED BY <1>4, <1>5, <1>6

\* A ReplicaSet that is made after the window says nothing of it, and one that returns is the old one.
LEMMA RollOutGathers ==
    ASSUME ControllerHolds(source), ChangesGathered, RollOut
    PROVE  ChangesGathered'
<1> DEFINE Next(t) == Latest(source.sets) + 1
           Old(t) == {s \in source.sets : s.template = t}
           Set(t) == IF Old(t) = {} THEN [template |-> t, revision |-> Next(t), created |-> source.now]
                     ELSE [(CHOOSE s \in Old(t) : TRUE) EXCEPT !.revision = Next(t)]
<1>0. PICK template \in Templates :
        source' = [source EXCEPT !.sets = Pruned((@ \ Old(template)) \cup {Set(template)}, template),
                                 !.template = template, !.changed = @ \cup {source.now}]
    BY DEF RollOut
<1>1. PICK next, old, set :
        /\ old = {s \in source.sets : s.template = template}
        /\ set = (IF old = {} THEN [template |-> template, revision |-> next, created |-> source.now]
                  ELSE [(CHOOSE s \in old : TRUE) EXCEPT !.revision = next])
        /\ source' = [source EXCEPT !.sets = Pruned((@ \ old) \cup {set}, template), !.template = template,
                                    !.changed = @ \cup {source.now}]
    BY <1>0
<1> HIDE DEF Next, Old, Set
<1>2. SetsAreKept(source.sets) /\ source.now \in Nat /\ Window[2] \in Int
    BY WindowIsOrdered DEF ControllerHolds
<1>3. source'.now = source.now /\ source'.sets = Pruned((source.sets \ old) \cup {set}, template)
    BY <1>1 DEF ControllerHolds
<1>4. attempt' = attempt /\ List' = List
    BY DEF RollOut, List
<1>5. ASSUME List.open, NEW s \in source'.sets, s.created < Window[2]
      PROVE  \E t \in source.sets : t.template = s.template /\ t.created = s.created
    <2>1. s \in source.sets \/ s = set
        BY <1>3, <1>5 DEF Pruned
    <2>2. CASE s = set /\ old = {}
        <3>1. s.created = source.now /\ source.now >= Window[2]
            BY <1>1, <1>5, <2>2 DEF ChangesGathered
        <3> QED BY ONLY <1>2, <1>5, <3>1
    <2>3. CASE s = set /\ old # {}
        <3>1. PICK t \in old : s = [t EXCEPT !.revision = next]
            BY <1>1, <2>3
        <3>2. t \in source.sets /\ DOMAIN t = {"template", "revision", "created"}
            BY <1>1, <1>2, <3>1 DEF SetsAreKept
        <3>3. s.template = t.template /\ s.created = t.created
            BY <3>1, <3>2
        <3> QED BY <3>2, <3>3
    <2> QED BY <2>1, <2>2, <2>3
<1>6. ASSUME List.open, NEW s \in source'.sets, s.created < Window[2]
      PROVE  \E l \in Range(List.sets) \cup Range(List.rest) : l.template = s.template /\ l.created = s.created
    <2>1. PICK t \in source.sets : t.template = s.template /\ t.created = s.created
        BY <1>5, <1>6
    <2> QED BY <1>6, <2>1 DEF ChangesGathered
<1> QED BY <1>3, <1>4, <1>6 DEF ChangesGathered

LEMMA ClockTicksGathers ==
    ASSUME ControllerHolds(source), ChangesGathered, ClockTicks
    PROVE  ChangesGathered'
<1>1. source'.sets = source.sets /\ source'.now = source.now + 1 /\ List' = List
    BY DEF ClockTicks, ControllerHolds, List
<1>2. source.now \in Nat /\ Window[2] \in Int
    BY WindowIsOrdered DEF ControllerHolds
<1>3. source.now >= Window[2] => source'.now >= Window[2]
    BY ONLY <1>1, <1>2
<1> QED BY <1>1, <1>3 DEF ChangesGathered

-----------------------------------------------------------------------------
(* Edges are scored over aligned samples                                   *)

LEMMA LeastMember ==
    ASSUME NEW S \in SUBSET Int, IsFiniteSet(S), S # {}
    PROVE  Min(S) \in S
<1>1. \E x \in S : \A y \in S : x <= y
    BY LeastNumber
<1> QED BY <1>1 DEF Min

LEMMA NextIsUnasked ==
    ASSUME NEW cache, Unasked(cache) # {}
    PROVE  NextQuestion(cache) \in Range(Questions) /\ NextQuestion(cache) \notin DOMAIN cache
<1>1. /\ DOMAIN Questions = (DOMAIN Edges) \X (1..7) /\ DOMAIN Edges = 1..Len(Edges) /\ Len(Edges) \in Nat
      /\ Unasked(cache) \subseteq (1..Len(Edges)) \X (1..7)
    BY MetricLimits DEF Questions, Unasked
<1>2. PICK edges, edge : edges = {place[1] : place \in Unasked(cache)} /\ edge = Min(edges)
    OBVIOUS
<1>3. edges \subseteq 1..Len(Edges) /\ edges # {}
    BY <1>1, <1>2
<1>4. edge \in edges
    <2>1. edges \in SUBSET Int /\ IsFiniteSet(edges)
        <3>1. 1..Len(Edges) \in SUBSET Int /\ IsFiniteSet(1..Len(Edges))
            BY ONLY <1>1, FS_Interval
        <3> QED BY ONLY <1>3, <3>1, FS_Subset
    <2> QED BY <1>2, <1>3, <2>1, LeastMember
<1>5. PICK places, k : places = {j \in 1..7 : <<edge, j>> \in Unasked(cache)} /\ k = Min(places)
    OBVIOUS
<1>6. places # {}
    <2>1. PICK place \in Unasked(cache) : edge = place[1]
        BY <1>2, <1>4
    <2>2. place = <<edge, place[2]>> /\ place[2] \in 1..7
        BY <1>1, <2>1
    <2> QED BY <1>5, <2>1, <2>2
<1>7. k \in places
    <2>1. places \in SUBSET (1..7)
        BY <1>5
    <2>2. places \in SUBSET Int /\ IsFiniteSet(places)
        <3>1. 1..7 \in SUBSET Int /\ IsFiniteSet(1..7)
            <4>1. 1 \in Int /\ 7 \in Int /\ 1..7 \subseteq Int
                BY ONLY TRUE
            <4> QED BY ONLY <4>1, FS_Interval
        <3> QED BY ONLY <2>1, <3>1, FS_Subset
    <2> QED BY <1>5, <1>6, <2>2, LeastMember
<1>8. <<edge, k>> \in Unasked(cache)
    BY <1>5, <1>7
<1>9. NextQuestion(cache) = Questions[<<edge, k>>]
    BY <1>2, <1>5 DEF NextQuestion
<1> QED BY <1>8, <1>9 DEF Unasked, Range

LEMMA AnsweredIsCached ==
    ASSUME NEW cache, Answered(cache), NEW question \in Range(Questions), InRange(question, WithinLimit(source[question]))
    PROVE  Answered(Cached(cache, question, source[question]))
BY DEF Answered, Cached

\* An answer that is not cut short is read whole.
LEMMA WholeSeriesIsCached ==
    ASSUME FeaturesHold(source), NEW cache, Answered(cache), NEW q \in DOMAIN cache, ~cache[q].truncated
    PROVE  /\ Times(cache[q]) = {s[1] : s \in Range(source[q])}
           /\ \A t \in Times(cache[q]) : t \in Int /\ Within(t)
<1>1. /\ cache[q].samples = WithinLimit(source[q]) /\ ~(Len(source[q]) > MaxSamples)
      /\ InRange(q, WithinLimit(source[q])) /\ source[q] \in Seq(Int \X Int)
    <2>1. /\ q \in Range(Questions) /\ InRange(q, WithinLimit(source[q]))
          /\ cache[q] = [samples |-> WithinLimit(source[q]), truncated |-> Len(source[q]) > MaxSamples]
        BY DEF Answered
    <2>2. cache[q].samples = WithinLimit(source[q]) /\ ~(Len(source[q]) > MaxSamples)
        <3>1. PICK cut : cut = (Len(source[q]) > MaxSamples)
            OBVIOUS
        <3>2. cache[q] = [samples |-> WithinLimit(source[q]), truncated |-> cut]
            BY <2>1, <3>1
        <3>3. cache[q].samples = WithinLimit(source[q]) /\ cache[q].truncated = cut
            BY ONLY <3>2
        <3> QED BY <3>1, <3>3
    <2>3. source[q] \in Seq(Int \X Int)
        BY <2>1 DEF FeaturesHold
    <2> QED BY <2>1, <2>2, <2>3
<1>2. PICK answer : answer = source[q]
    OBVIOUS
<1>3. WithinLimit(answer) = answer
    <2>1. PICK n : n = Min({MaxSamples, Len(answer)})
        OBVIOUS
    <2>2. MaxSamples \in Nat /\ Len(answer) \in Nat /\ ~(Len(answer) > MaxSamples)
        BY <1>1, <1>2, MetricLimits
    <2>3. n = Len(answer) /\ n \in 0..Len(answer)
        BY ONLY <2>1, <2>2, LesserOfTwo
    <2> QED BY <1>1, <1>2, <2>1, <2>3, MembersOfPrefix DEF WithinLimit
<1>4. Times(cache[q]) = {s[1] : s \in Range(answer)}
    BY <1>1, <1>2, <1>3 DEF Times
<1>5. ASSUME NEW s \in Range(answer)
      PROVE  s[1] \in Int /\ Within(s[1])
    <2>1. PICK k \in DOMAIN answer : s = answer[k]
        BY DEF Range
    <2>2. Within(answer[k][1]) /\ answer[k] \in Int \X Int
        BY <1>1, <1>2, <1>3 DEF InRange
    <2> QED BY <2>1, <2>2
<1> QED BY <1>2, <1>4, <1>5

LEMMA TurnIsAPlace ==
    ASSUME NEW n \in Nat \ {0}, NEW values, Len(values) = n
    PROVE  LastTurn(values) \in 1..n
<1> DEFINE Sign(k) == IF values[k] > values[k - 1] THEN 1 ELSE IF values[k] < values[k - 1] THEN -1 ELSE 0
           moves == {k \in 2..Len(values) : Sign(k) # 0}
           turns == {k \in moves : LET before == {j \in moves : j < k}
                                   IN  before # {} /\ Sign(Max(before)) # Sign(k)}
<1>1. LastTurn(values) = IF turns = {} THEN 1 ELSE Max(turns)
    BY DEF LastTurn
<1>2. turns \subseteq 2..n
    OBVIOUS
<1> HIDE DEF Sign, moves, turns
<1>3. CASE turns # {}
    <2>1. turns \in SUBSET Int /\ IsFiniteSet(turns)
        <3>1. 2..n \in SUBSET Int /\ IsFiniteSet(2..n)
            BY ONLY n \in Nat \ {0}, FS_Interval
        <3> QED BY ONLY <1>2, <3>1, FS_Subset
    <2>2. Max(turns) \in turns
        BY ONLY <1>3, <2>1, GreatestNumber
    <2>3. LastTurn(values) = Max(turns)
        BY ONLY <1>1, <1>3
    <2>4. Max(turns) \in 2..n
        BY ONLY <1>2, <2>2
    <2>5. \A k \in 2..n : k \in 1..n
        BY ONLY n \in Nat \ {0}
    <2> QED BY ONLY <2>3, <2>4, <2>5
<1>4. CASE turns = {}
    <2>1. LastTurn(values) = 1
        BY ONLY <1>1, <1>4
    <2> QED BY ONLY <2>1, n \in Nat \ {0}
<1> QED BY ONLY <1>3, <1>4

Earlier(A) == {p \in A \X A : p[1] < p[2]}

\* The times over are those of A from the first of them on.
FromThereOn(over, A) ==
    /\ Len(over) = Cardinality({t \in A : over[1] <= t /\ t <= over[Len(over)]})
    /\ over[Len(over)] = Max(A)

\* From any place on, the times in order are those from its time to the last one.
LEMMA TimesFromAPlace ==
    ASSUME NEW A \in SUBSET Int, IsFiniteSet(A), NEW times, times = Sorted(A, Earlier(A)),
           NEW m \in 1..Len(times),
           NEW over, over = SubSeq(times, m, Len(times))
    PROVE  Len(over) = Len(times) - m + 1 /\ FromThereOn(over, A)
<1>1. PICK R : R = {p \in A \X A : p[1] < p[2]}
    OBVIOUS
<1>2. StrictOrder(A, R)
    <2>1. \A s, t \in A : <<s, t>> \in R <=> s < t
        BY <1>1
    <2> QED BY ONLY <2>1, A \in SUBSET Int DEF StrictOrder
<1>3. times = Sorted(A, R)
    BY ONLY <1>1, times = Sorted(A, Earlier(A)) DEF Earlier
<1>4. PICK n : n = Len(times)
    OBVIOUS
<1>5. /\ times \in Seq(A) /\ n = Cardinality(A) /\ IsInjective(times) /\ Range(times) = A
      /\ \A j, k \in 1..n : j < k => <<times[j], times[k]>> \in R
    BY ONLY <1>2, <1>3, <1>4, IsFiniteSet(A), SortedMembers, SortedIsInOrder
<1>6. n \in Nat /\ m \in 1..n /\ DOMAIN times = 1..n
    <2>1. times \in Seq(A)
        BY ONLY <1>5
    <2>2. n \in Nat /\ DOMAIN times = 1..n
        BY ONLY <1>4, <2>1
    <2>3. m \in 1..n
        BY <1>4
    <2> QED BY ONLY <2>2, <2>3
<1>7. \A k \in 1..n : times[k] \in A
    BY <1>5, <1>6
<1>8. \A j, k \in 1..n : times[j] \in Int /\ times[k] \in Int /\ (j < k => times[j] < times[k])
    BY <1>1, <1>5, <1>7
<1>9. /\ over \in Seq(A) /\ Len(over) = n - m + 1 /\ \A k \in 1..(n - m + 1) : over[k] = times[m + k - 1]
    <2>1. DOMAIN over = 1..(n - m + 1) /\ \A k \in 1..(n - m + 1) : over[k] = times[m + k - 1]
        BY <1>4, <1>5, <1>6
    <2>2. over \in [1..(n - m + 1) -> A]
        <3>1. over = [k \in 1..(n - m + 1) |-> times[m + k - 1]]
            BY ONLY over = SubSeq(times, m, Len(times)), <1>4, <1>6
        <3>2. \A k \in 1..(n - m + 1) : m + k - 1 \in 1..n
            BY ONLY <1>6
        <3> QED BY ONLY <1>7, <3>1, <3>2
    <2>3. n - m + 1 \in Nat
        BY ONLY <1>6
    <2> QED BY ONLY <2>1, <2>2, <2>3, FunctionIsASequence
<1>10. over[1] = times[m] /\ over[Len(over)] = times[n]
    <2>1. 1 \in 1..(n - m + 1) /\ m + 1 - 1 = m /\ n - m + 1 \in 1..(n - m + 1) /\ m + (n - m + 1) - 1 = n
        BY ONLY <1>6
    <2> QED BY <1>9, <2>1
<1>11. IsInjective(over)
    <2>1. ASSUME NEW j \in 1..(n - m + 1), NEW k \in 1..(n - m + 1), over[j] = over[k]
          PROVE  j = k
        <3>1. PICK a, b : a = m + j - 1 /\ b = m + k - 1
            OBVIOUS
        <3>2. a \in 1..n /\ b \in 1..n /\ (a = b => j = k)
            BY ONLY <1>6, <2>1, <3>1
        <3>3. times[a] = times[b]
            BY <1>9, <2>1, <3>1
        <3> QED BY <1>5, <1>6, <3>2, <3>3 DEF IsInjective
    <2>2. DOMAIN over = 1..(n - m + 1)
        BY <1>6, <1>9
    <2> QED BY ONLY <2>1, <2>2 DEF IsInjective
<1>12. Cardinality(Range(over)) = Len(over)
    BY <1>9, <1>11, MembersOfInjective
<1>13. \A t : t \in Range(over) <=> \E k \in m..n : t = times[k]
    <2>1. DOMAIN over = 1..(n - m + 1)
        BY <1>6, <1>9
    <2>2. ASSUME NEW k \in 1..(n - m + 1)
          PROVE  over[k] = times[m + k - 1] /\ m + k - 1 \in m..n
        BY <1>6, <1>9
    <2>3. ASSUME NEW k \in m..n
          PROVE  \E j \in 1..(n - m + 1) : over[j] = times[k]
        <3>1. k - m + 1 \in 1..(n - m + 1) /\ m + (k - m + 1) - 1 = k
            BY ONLY <1>6, <2>3
        <3> QED BY <1>9, <3>1
    <2> QED BY ONLY <2>1, <2>2, <2>3 DEF Range
<1>14. ASSUME NEW t \in A
       PROVE  (\E k \in m..n : t = times[k]) <=> times[m] <= t /\ t <= times[n]
    <2>1. PICK k \in 1..n : t = times[k]
        BY ONLY <1>5, <1>6, t \in A DEF Range
    <2>2. /\ k < m => times[k] < times[m]
          /\ m < k => times[m] < times[k]
          /\ k < n => times[k] < times[n]
          /\ times[k] \in Int /\ times[m] \in Int /\ times[n] \in Int
        BY <1>6, <1>8
    <2>3. k \in m..n => times[m] <= t /\ t <= times[n]
        <3>1. CASE k = m
            <4>1. times[m] = t
                BY <2>1, <3>1
            <4> QED BY ONLY <1>6, <2>1, <2>2, <4>1, <3>1
        <3>2. CASE k # m
            BY ONLY <1>6, <2>1, <2>2, <3>2
        <3> QED BY <3>1, <3>2
    <2>4. ASSUME NEW j \in m..n, t = times[j]
          PROVE  j = k
        <3>1. j \in 1..n
            BY ONLY <1>6, <2>4
        <3> QED BY <1>5, <1>6, <2>1, <2>4, <3>1 DEF IsInjective
    <2>5. times[m] <= t => k \in m..n
        BY ONLY <1>6, <2>1, <2>2
    <2> QED BY <2>1, <2>3, <2>4, <2>5
<1>15. Range(over) = {t \in A : over[1] <= t /\ t <= over[Len(over)]}
    <2>1. Range(over) \subseteq A
        <3>1. \A k \in DOMAIN over : over[k] \in A
            BY ONLY <1>9
        <3> QED BY ONLY <3>1 DEF Range
    <2>2. \A t \in A : t \in Range(over) <=> over[1] <= t /\ t <= over[Len(over)]
        BY <1>10, <1>13, <1>14
    <2> QED BY ONLY <2>1, <2>2
<1>16. times[n] = Max(A)
    <2>1. n \in 1..n /\ times[n] \in A
        BY <1>6, <1>7
    <2>2. Max(A) \in A /\ \A y \in A : y <= Max(A)
        <3>1. A # {}
            BY <2>1
        <3> QED BY <3>1, GreatestNumber
    <2>3. PICK k \in 1..n : Max(A) = times[k]
        BY <1>5, <1>6, <2>2 DEF Range
    <2>4. times[n] <= times[k]
        BY <2>1, <2>2, <2>3
    <2>5. k = n \/ k < n
        BY ONLY <2>3, <1>6
    <2>6. k < n => times[k] < times[n]
        BY <1>8, <2>1
    <2>7. times[k] \in Int /\ times[n] \in Int
        BY <1>8, <2>1
    <2>8. k = n
        BY ONLY <2>4, <2>5, <2>6, <2>7
    <2> QED BY <2>3, <2>8
<1> QED BY ONLY <1>4, <1>9, <1>10, <1>12, <1>15, <1>16 DEF FromThereOn

\* Once nothing is unasked, the series of every edge are cached.
LEMMA SeriesAreCached ==
    ASSUME NEW cache, Unasked(cache) = {}, NEW edge \in Range(Edges)
    PROVE  Range(Observed(edge)) \subseteq DOMAIN cache /\ <<"failure", edge.parent>> \in Range(Observed(edge))
<1>1. DOMAIN Observed(edge) = 1..7 /\ Observed(edge)[1] = <<"failure", edge.parent>>
    BY DEF Observed
<1>2. PICK i \in DOMAIN Edges : edge = Edges[i]
    BY DEF Range
<1>3. ASSUME NEW k \in 1..7
      PROVE  Observed(edge)[k] \in DOMAIN cache
    <2>1. <<i, k>> \in DOMAIN Questions /\ Questions[<<i, k>>] = Observed(edge)[k]
        BY <1>2 DEF Questions
    <2>2. <<i, k>> \notin Unasked(cache)
        OBVIOUS
    <2> QED BY <2>1, <2>2 DEF Unasked
<1>4. 1 \in 1..7
    OBVIOUS
<1> QED BY <1>1, <1>3, <1>4 DEF Range

\* The times at which all seven series of the edge have a sample, by what the source says.
LEMMA AlignedIsTogether ==
    ASSUME FeaturesHold(source), NEW cache, Answered(cache), Unasked(cache) = {}, NEW edge \in Range(Edges),
           \A q \in Range(Observed(edge)) : ~cache[q].truncated
    PROVE  Aligned(edge, cache) = {t \in Window[1]..Window[2] :
                                     \A q \in Range(Observed(edge)) : t \in {s[1] : s \in Range(source[q])}}
<1>1. PICK Q, first : Q = Range(Observed(edge)) /\ first = <<"failure", edge.parent>>
    OBVIOUS
<1>2. first \in Q /\ Q \subseteq DOMAIN cache
    BY <1>1, SeriesAreCached
<1>3. ASSUME NEW q \in Q
      PROVE  /\ Times(cache[q]) = {s[1] : s \in Range(source[q])}
             /\ \A t \in Times(cache[q]) : t \in Int /\ Within(t)
    BY <1>1, <1>2, WholeSeriesIsCached
<1>4. Aligned(edge, cache) = {t \in Times(cache[first]) : \A q \in Q : t \in Times(cache[q])}
    BY <1>1 DEF Aligned
<1>5. \A t \in Times(cache[first]) : t \in Window[1]..Window[2]
    BY <1>2, <1>3, WindowIsOrdered DEF Within
<1>6. \A t : t \in Aligned(edge, cache) <=>
            t \in Window[1]..Window[2] /\ \A q \in Q : t \in {s[1] : s \in Range(source[q])}
    BY <1>2, <1>3, <1>4, <1>5
<1> QED BY <1>1, <1>6

LEMMA ScoredFrom ==
    ASSUME NEW edge, NEW cache, NEW times,
           times = Sorted(Aligned(edge, cache), Earlier(Aligned(edge, cache))), NEW n \in Nat \ {0}, n = Len(times), DOMAIN times = 1..n
    PROVE  \E turn \in 1..n : ComputedOver(edge, cache) = IF n - turn + 1 < MinAligned THEN times ELSE SubSeq(times, turn, n)
<1>1. PICK values : values = [k \in DOMAIN times |-> ValueAt(cache[<<"failure", edge.parent>>], times[k])]
    OBVIOUS
<1>2. Len(values) = n
    BY <1>1
<1>3. PICK turn : turn = LastTurn(values)
    OBVIOUS
<1>4. turn \in 1..n
    BY <1>2, <1>3, TurnIsAPlace
<1>5. ComputedOver(edge, cache) = IF Len(times) - turn + 1 < MinAligned THEN times ELSE SubSeq(times, turn, Len(times))
    BY <1>1, <1>3 DEF ComputedOver, Ordered, Earlier
<1> QED BY <1>4, <1>5

\* The scores of a usable edge are over the times from some time on at which all seven series have a sample.
LEMMA ScoresAreAligned ==
    ASSUME FeaturesHold(source), NEW cache, Answered(cache), Unasked(cache) = {}, NEW edge \in Range(Edges),
           Usable(edge, cache), NEW together,
           together = {t \in Window[1]..Window[2] :
                         \A q \in Range(Observed(edge)) : t \in {s[1] : s \in Range(source[q])}}
    PROVE  \E over : /\ over = ComputedOver(edge, cache)
                     /\ Len(over) >= MinAligned
                     /\ FromThereOn(over, together)
<1>1. together = Aligned(edge, cache) /\ Cardinality(together) >= MinAligned
    <2>1. \A q \in Range(Observed(edge)) : ~cache[q].truncated
        BY DEF Usable
    <2>2. together = Aligned(edge, cache)
        BY <2>1, AlignedIsTogether
    <2> QED BY <2>2 DEF Usable
<1>2. together \in SUBSET Int /\ IsFiniteSet(together)
    <2>1. Window[1]..Window[2] \in SUBSET Int /\ IsFiniteSet(Window[1]..Window[2])
        BY WindowIsOrdered, FS_Interval
    <2>2. together \subseteq Window[1]..Window[2]
        OBVIOUS
    <2> QED BY ONLY <2>1, <2>2, FS_Subset
<1>3. PICK R, times : R = Earlier(together) /\ times = Sorted(together, R)
    OBVIOUS
<1>4. StrictOrder(together, R)
    <2>1. \A s, t \in together : <<s, t>> \in R <=> s < t
        BY ONLY <1>3 DEF Earlier
    <2> QED BY ONLY <1>2, <2>1 DEF StrictOrder
<1>5. PICK n : n = Len(times)
    OBVIOUS
<1>6. n \in Nat /\ n >= MinAligned /\ n # 0 /\ DOMAIN times = 1..n /\ times \in Seq(together)
    <2>1. times \in Seq(together) /\ n = Cardinality(together)
        BY ONLY <1>2, <1>3, <1>4, <1>5, SortedMembers, SortedIsInOrder
    <2>2. n \in Nat /\ DOMAIN times = 1..n
        <3>1. times \in Seq(together)
            BY ONLY <2>1
        <3> QED BY ONLY <1>5, <3>1
    <2>3. MinAligned \in Nat /\ MinAligned >= 3
        BY MetricLimits
    <2>4. n >= MinAligned
        BY ONLY <1>1, <2>1
    <2> QED BY ONLY <2>1, <2>2, <2>3, <2>4
<1>7. PICK turn \in 1..n :
        ComputedOver(edge, cache) = IF n - turn + 1 < MinAligned THEN times ELSE SubSeq(times, turn, n)
    <2>1. PICK A : A = Aligned(edge, cache)
        OBVIOUS
    <2>2. together = A
        BY <1>1, <2>1
    <2>3. times = Sorted(A, Earlier(A))
        BY ONLY <1>3, <2>2
    <2>4. n \in Nat \ {0} /\ n = Len(times) /\ DOMAIN times = 1..n
        BY ONLY <1>5, <1>6
    <2> QED BY ONLY <2>1, <2>3, <2>4, ScoredFrom
<1>8. PICK m \in 1..n : n - m + 1 >= MinAligned /\ ComputedOver(edge, cache) = SubSeq(times, m, n)
    <2>1. CASE n - turn + 1 < MinAligned
        <3>1. SubSeq(times, 1, n) = times
            BY ONLY <1>5, <1>6
        <3>2. 1 \in 1..n /\ n - 1 + 1 >= MinAligned
            BY ONLY <1>6
        <3> QED BY <1>7, <2>1, <3>1, <3>2
    <2>2. CASE ~(n - turn + 1 < MinAligned)
        <3>1. n - turn + 1 >= MinAligned
            BY <1>6, <2>2, MetricLimits
        <3> QED BY <1>7, <2>2, <3>1
    <2> QED BY <2>1, <2>2
<1>9. PICK over : over = SubSeq(times, m, n)
    OBVIOUS
<1>10. Len(over) = n - m + 1 /\ FromThereOn(over, together)
    <2>1. m \in 1..Len(times) /\ over = SubSeq(times, m, Len(times))
        BY ONLY <1>5, <1>8, <1>9
    <2>2. Len(over) = Len(times) - m + 1 /\ FromThereOn(over, together)
        BY ONLY <1>2, <1>3, <2>1, TimesFromAPlace
    <2> QED BY ONLY <1>5, <2>2
<1>11. Len(over) >= MinAligned
    BY ONLY <1>8, <1>10
<1> QED BY ONLY <1>8, <1>9, <1>10, <1>11

\* The times of the window at which the source has a sample of all seven series of an edge.
Together(edge) ==
    {t \in Window[1]..Window[2] : \A q \in Range(Observed(edge)) : t \in {s[1] : s \in Range(source[q])}}

IsScoredOver(e, together) ==
    /\ e.facts.count >= MinAligned
    /\ e.facts.count = Cardinality({t \in together : e.facts.first <= t /\ t <= e.observed})
    /\ e.observed = Max(together)

\* What is said of an edge, when all its questions have been answered.
LEMMA EdgeDraftIsAligned ==
    ASSUME FeaturesHold(source), NEW cache, Answered(cache), Unasked(cache) = {}, NEW edge \in Range(Edges),
           NEW e, e = EdgeDraft(edge, cache)
    PROVE  /\ Usable(edge, cache) => e.facts.status = "HAS_DATA"
           /\ e.facts.status = "HAS_DATA" => IsScoredOver(e, Together(e.facts.edge))
<1>1. CASE Usable(edge, cache)
    <2>1. PICK over : over = ComputedOver(edge, cache)
        OBVIOUS
    <2>2. PICK last, first, count : last = over[Len(over)] /\ first = over[1] /\ count = Len(over)
        OBVIOUS
    <2>3. e = Drafted(FeatureOrigin, Subject("Service", edge.parent.service, Unidentified), last, 10,
                      [featureSet |-> "krca-api-edge-v1", edge |-> edge, status |-> "HAS_DATA",
                       first |-> first, count |-> count])
        BY <1>1, <2>1, <2>2 DEF EdgeDraft
    <2>4. /\ e.facts.edge = edge /\ e.facts.status = "HAS_DATA"
          /\ e.facts.first = first /\ e.facts.count = count /\ e.observed = last
        BY ONLY <2>3 DEF Drafted
    <2>5. PICK together : together = Together(edge)
        OBVIOUS
    <2>6. count >= MinAligned /\ count = Cardinality({t \in together : first <= t /\ t <= last}) /\ last = Max(together)
        <3>1. \E s : s = ComputedOver(edge, cache) /\ Len(s) >= MinAligned /\ FromThereOn(s, together)
            BY <1>1, <2>5, ScoresAreAligned DEF Together
        <3>2. Len(over) >= MinAligned /\ FromThereOn(over, together)
            BY ONLY <2>1, <3>1
        <3> QED BY ONLY <2>2, <3>2 DEF FromThereOn
    <2> QED BY ONLY <2>4, <2>5, <2>6 DEF IsScoredOver
<1>2. CASE ~Usable(edge, cache)
    <2>1. e.facts.status = "INSUFFICIENT_DATA"
        BY <1>2 DEF EdgeDraft, Drafted
    <2> QED BY <1>2, <2>1
<1> QED BY <1>1, <1>2

\* With its last question an edge's draft says what the source says; until then the cache does.
LEMMA AskFeatureGathers ==
    ASSUME DOMAIN attempt = AttemptFields, FeaturesGathered, AskFeature
    PROVE  /\ attempt'.outcome = "collecting" => FeaturesGathered'
           /\ attempt'.outcome = "batch" =>
                FeaturesAreAligned' /\ (~attempt'.partial => \A e \in attempt'.drafts : e.facts.status = "HAS_DATA")
<1>1. PICK question, answer, cache, unusable :
        /\ question = NextQuestion(attempt.read) /\ answer = source[question]
        /\ cache = Cached(attempt.read, question, answer) /\ unusable = {k \in DOMAIN Edges : ~Usable(Edges[k], cache)}
    OBVIOUS
<1>2. source' = source
    BY DEF AskFeature
<1>3. question \in Range(Questions)
    BY <1>1, NextIsUnasked DEF FeaturesGathered
<1>4. InRange(question, WithinLimit(answer)) => Answered(cache)
    BY <1>1, <1>3, AnsweredIsCached DEF FeaturesGathered
<1>5. PICK partial :
        \/ Abandon("permanent") \/ Fails
        \/ /\ InRange(question, WithinLimit(answer)) /\ Unasked(cache) = {}
           /\ DeliverWithinBudget({EdgeDraft(e, cache) : e \in Range(Edges)}, partial \/ unusable # {})
        \/ /\ InRange(question, WithinLimit(answer)) /\ Unasked(cache) # {}
           /\ attempt' = [attempt EXCEPT !.read = cache, !.partial = partial]
    BY <1>1 DEF AskFeature
<1>6. CASE Abandon("permanent") \/ Fails
    <2>1. \E how \in Errors : Abandon(how)
        BY <1>6 DEF Fails, Errors
    <2>2. attempt'.outcome \in Errors
        BY <2>1 DEF Abandon, AttemptFields
    <2> QED BY <2>2 DEF Errors
<1>7. CASE /\ InRange(question, WithinLimit(answer)) /\ Unasked(cache) = {}
           /\ Deliver({EdgeDraft(e, cache) : e \in Range(Edges)}, partial \/ unusable # {})
    <2>1. /\ attempt'.drafts = {EdgeDraft(e, cache) : e \in Range(Edges)} /\ attempt'.outcome = "batch"
          /\ attempt'.partial = (partial \/ unusable # {})
        BY <1>7 DEF Deliver, AttemptFields
    <2>2. FeaturesHold(source) /\ Answered(cache) /\ Unasked(cache) = {}
        BY <1>4, <1>7 DEF FeaturesGathered
    <2>3. ASSUME NEW e \in attempt'.drafts, e.facts.status = "HAS_DATA"
          PROVE  IsScoredOver(e, Together(e.facts.edge))
        <3>1. PICK edge \in Range(Edges) : e = EdgeDraft(edge, cache)
            BY <2>1
        <3> QED BY <2>2, <2>3, <3>1, EdgeDraftIsAligned
    <2>4. ASSUME ~attempt'.partial, NEW e \in attempt'.drafts
          PROVE  e.facts.status = "HAS_DATA"
        <3>1. PICK edge \in Range(Edges) : e = EdgeDraft(edge, cache)
            BY <2>1
        <3>2. Usable(edge, cache)
            <4>1. unusable = {}
                BY <2>1, <2>4
            <4> QED BY <1>1, <4>1 DEF Range
        <3> QED BY <2>2, <3>1, <3>2, EdgeDraftIsAligned
    <2>5. FeaturesAreAligned'
        BY <1>2, <2>3 DEF FeaturesAreAligned, IsScoredOver, Together
    <2> QED BY <2>1, <2>4, <2>5
<1>8. CASE /\ InRange(question, WithinLimit(answer)) /\ Unasked(cache) # {}
           /\ attempt' = [attempt EXCEPT !.read = cache, !.partial = partial]
    <2>1. attempt'.read = cache /\ attempt'.outcome = "collecting"
        BY <1>8 DEF AskFeature, Working, AttemptFields
    <2>2. FeaturesHold(source)' /\ Answered(cache)'
        BY <1>2, <1>4, <1>8 DEF FeaturesGathered, FeaturesHold, Answered
    <2> QED BY <1>8, <2>1, <2>2 DEF FeaturesGathered, Answered
<1> QED BY <1>5, <1>6, <1>7, <1>8 DEF DeliverWithinBudget

-----------------------------------------------------------------------------
(* The six collectors together                                             *)

LEMMA GatheredAtFirst ==
    TelemetryInit => CollectedInv
<1> SUFFICES ASSUME NEW collector \in Collectors, attempt = NewAttempt(collector), source \in SourceStates[collector]
             PROVE  CollectedInv
    BY DEF TelemetryInit
<1>1. /\ attempt.provider = collector /\ attempt.at = 1 /\ ~attempt.partial
      /\ attempt.read = <<>> /\ attempt.drafts = {} /\ attempt.outcome = "collecting"
    BY DEF NewAttempt
<1>2. TelemetryInv
    BY TelemetryInvAtFirst DEF TelemetryInit
<1> SUFFICES Gathered
    BY <1>1, <1>2 DEF CollectedInv, SummariesAreExact
<1>3. CASE collector \in {"service-metrics", "workload-metrics"}
    <2>1. attempt.at - 1 = 0 /\ 1..0 = {}
        BY <1>1
    <2>2. MetricsGathered(attempt.at - 1)
        BY <1>1, <2>1 DEF MetricsGathered
    <2> QED BY <1>1, <1>3, <2>2 DEF Gathered
<1>4. CASE collector = "api-features"
    <2>1. FeaturesHold(source)
        BY <1>4, SourcesAreUsable
    <2>2. <<1, 1>> \in DOMAIN Questions
        BY MetricLimits DEF Questions
    <2>3. DOMAIN attempt.read = {}
        BY <1>1
    <2>4. Answered(attempt.read) /\ Unasked(attempt.read) # {}
        BY <2>2, <2>3 DEF Answered, Unasked
    <2> QED BY <1>1, <1>4, <2>1, <2>4 DEF Gathered, FeaturesGathered
<1>5. CASE collector = "network-flows"
    <2>1. Seen = NothingSeen
        BY <1>1 DEF Seen
    <2>2. FlowsGathered
        BY <1>1, <2>1 DEF FlowsGathered, NothingSeen
    <2> QED BY <1>1, <1>5, <2>2 DEF Gathered
<1>6. CASE collector = "kernel-log"
    <2>1. LokiHolds(source)
        BY <1>6, SourcesAreUsable
    <2>2. Listed.found = {} /\ Listed.rest = source.pods /\ Listed.raw = 0 /\ ~Listed.complete
        BY <1>1 DEF Listed, NoPods
    <2>3. MaxPods > 0
        BY FlowLimits
    <2>4. KillsGathered
        BY <2>1, <2>2, <2>3 DEF KillsGathered, LokiHolds
    <2> QED BY <1>1, <1>6, <2>4 DEF Gathered
<1>7. CASE collector = "deployments"
    <2>1. ~List.open /\ ~List.listed
        BY <1>1 DEF List, NoList
    <2>2. ChangesGathered
        BY <2>1 DEF ChangesGathered
    <2> QED BY <1>1, <1>7, <2>2 DEF Gathered
<1> QED BY <1>3, <1>4, <1>5, <1>6, <1>7 DEF Collectors

LEMMA MetricsAreExactNext ==
    (MetricsHold(source) /\ MetricsGathered(Len(Metrics)) /\ ~attempt.partial => MetricsAreExact)'
<1>1. MetricsHold(source) /\ MetricsGathered(Len(Metrics)) /\ ~attempt.partial => MetricsAreExact
    BY GatheredMetricsAreExact
<1> QED BY <1>1, PTL

\* Only a collector at work takes a step, and it stays itself.
LEMMA ProviderStays ==
    ASSUME DOMAIN attempt = AttemptFields, TelemetryNext
    PROVE  attempt'.provider = attempt.provider /\ attempt.outcome = "collecting"
<1>1. ASSUME NEW drafts, NEW partial, Deliver(drafts, partial) \/ DeliverWithinBudget(drafts, partial)
      PROVE  attempt'.provider = attempt.provider
    BY <1>1 DEF Deliver, DeliverWithinBudget, Abandon, AttemptFields
<1>2. ASSUME NEW how, Abandon(how)
      PROVE  attempt'.provider = attempt.provider
    BY <1>2 DEF Abandon, AttemptFields
<1>3. Fails => attempt'.provider = attempt.provider
    BY <1>2 DEF Fails
<1>4. CASE AskMetric
    <2>1. attempt.outcome = "collecting"
        BY <1>4 DEF AskMetric, Working
    <2>2. PICK drafts, partial :
            \/ Abandon("permanent") \/ Fails \/ DeliverWithinBudget(drafts, partial)
            \/ attempt' = [attempt EXCEPT !.at = @ + 1, !.drafts = drafts, !.partial = partial]
        BY <1>4 DEF AskMetric
    <2> QED BY <1>1, <1>2, <1>3, <2>1, <2>2 DEF AttemptFields
<1>5. CASE AskFeature
    <2>1. attempt.outcome = "collecting"
        BY <1>5 DEF AskFeature, Working
    <2>2. \E drafts, partial, cache :
            \/ Abandon("permanent") \/ Fails \/ DeliverWithinBudget(drafts, partial)
            \/ attempt' = [attempt EXCEPT !.read = cache, !.partial = partial]
        BY <1>5 DEF AskFeature
    <2> QED BY <1>1, <1>2, <1>3, <2>1, <2>2 DEF AttemptFields
<1>6. ASSUME NEW seen, Observe(seen)
      PROVE  attempt'.provider = attempt.provider
    BY <1>1, <1>2, <1>6 DEF Observe, AttemptFields
<1>7. CASE AskFlows
    <2>1. attempt.outcome = "collecting"
        BY <1>7 DEF AskFlows, Working
    <2>2. Abandon("permanent") \/ \E seen : Observe(seen)
        BY <1>7 DEF AskFlows
    <2> QED BY <1>2, <1>6, <2>1, <2>2
<1>8. CASE ListPods
    <2>1. attempt.outcome = "collecting"
        BY <1>8 DEF ListPods, Working
    <2>2. Abandon("permanent") \/ Fails \/ Deliver({}, FALSE) \/ \E read : attempt' = [attempt EXCEPT !.read = read]
        BY <1>8 DEF ListPods
    <2> QED BY <1>1, <1>2, <1>3, <2>1, <2>2 DEF AttemptFields
<1>9. CASE AskKills
    <2>1. attempt.outcome = "collecting"
        BY <1>9 DEF AskKills, Working
    <2>2. Abandon("permanent") \/ Fails \/ \E drafts, partial : DeliverWithinBudget(drafts, partial)
        BY <1>9 DEF AskKills
    <2> QED BY <1>1, <1>2, <1>3, <2>1, <2>2
<1>10. CASE ListReplicaSets
    <2>1. attempt.outcome = "collecting"
        BY <1>10 DEF ListReplicaSets, Working
    <2>2. Fails \/ \E read : attempt' = [attempt EXCEPT !.read = read]
        BY <1>10 DEF ListReplicaSets
    <2> QED BY <1>3, <2>1, <2>2 DEF AttemptFields
<1>11. ASSUME NEW drafts, NEW partial, Recorded(drafts, partial)
       PROVE  attempt'.provider = attempt.provider
    <2>1. \E all, part : \/ Abandon("permanent") \/ Deliver(all, part)
                         \/ attempt' = [attempt EXCEPT !.at = @ + 1, !.drafts = all, !.partial = part]
        BY <1>11 DEF Recorded
    <2> QED BY <1>1, <1>2, <2>1 DEF AttemptFields
<1>12. CASE GetDeployment
    <2>1. attempt.outcome = "collecting"
        BY <1>12 DEF GetDeployment, Working
    <2>2. \E drafts, partial : Recorded(drafts, partial)
        BY <1>12 DEF GetDeployment
    <2> QED BY <1>11, <2>1, <2>2
<1>13. CASE FlowsAreForgotten \/ PodsChange \/ ClockTicks \/ RollOut
    BY <1>13 DEF FlowsAreForgotten, PodsChange, ClockTicks, RollOut, Working
<1> QED BY <1>4, <1>5, <1>7, <1>8, <1>9, <1>10, <1>12, <1>13 DEF TelemetryNext

\* Every action, for the collector whose action it is.
LEMMA NextGathers ==
    ASSUME CollectedInv, TelemetryNext
    PROVE  CollectedInv'
<1>1. /\ DOMAIN attempt = AttemptFields /\ attempt.provider \in Collectors
      /\ attempt.outcome = "collecting" /\ attempt'.provider = attempt.provider
    BY ProviderStays DEF CollectedInv, TelemetryInv
<1>2. TelemetryInv' /\ AttemptStands /\ Gathered
    BY <1>1, TelemetryInvIsKept DEF CollectedInv, TelemetryInv
<1> SUFFICES SummariesAreExact' /\ (attempt'.outcome = "collecting" => Gathered')
    BY <1>2 DEF CollectedInv
<1>3. CASE AskMetric
    <2>1. attempt.provider \in {"service-metrics", "workload-metrics"}
        BY <1>3 DEF AskMetric, Working
    <2>2. MetricsStand /\ MetricsGathered(attempt.at - 1)
        BY <1>2, <2>1 DEF AttemptStands, Gathered
    <2>3. /\ attempt'.outcome = "collecting" => MetricsGathered(attempt.at - 1)'
          /\ attempt'.outcome = "batch" => MetricsGathered(Len(Metrics))'
        BY <1>1, <1>3, <2>2, AskMetricGathers
    <2>4. MetricsHold(source)'
        BY <1>3, <2>2 DEF AskMetric, MetricsStand, MetricsHold
    <2>5. attempt'.outcome = "batch" /\ ~attempt'.partial => MetricsAreExact'
        BY <2>3, <2>4, MetricsAreExactNext
    <2> QED BY <1>1, <2>1, <2>3, <2>5 DEF SummariesAreExact, Gathered
<1>4. CASE AskFeature
    <2>1. attempt.provider = "api-features"
        BY <1>4 DEF AskFeature, Working
    <2>2. FeaturesGathered
        BY <1>2, <2>1 DEF Gathered
    <2>3. /\ attempt'.outcome = "collecting" => FeaturesGathered'
          /\ attempt'.outcome = "batch" =>
                FeaturesAreAligned' /\ (~attempt'.partial => \A e \in attempt'.drafts : e.facts.status = "HAS_DATA")
        BY <1>1, <1>4, <2>2, AskFeatureGathers
    <2> QED BY <1>1, <2>1, <2>3 DEF SummariesAreExact, Gathered
<1>5. CASE FlowsAreForgotten \/ AskFlows
    <2>1. attempt.provider = "network-flows"
        BY <1>5 DEF FlowsAreForgotten, AskFlows, Working
    <2>2. FlowsStand /\ FlowsGathered /\ RelayHolds(source)
        BY <1>2, <2>1 DEF AttemptStands, Gathered, FlowsStand
    <2>3. CASE FlowsAreForgotten
        <3>1. attempt'.outcome = "collecting" /\ FlowsGathered'
            BY <1>1, <2>2, <2>3, ForgettingKeepsGathered DEF FlowsAreForgotten
        <3> QED BY <1>1, <2>1, <3>1 DEF SummariesAreExact, Gathered
    <2>4. CASE AskFlows
        <3>1. /\ attempt'.outcome = "collecting" => FlowsGathered'
              /\ attempt'.outcome = "batch" => (~attempt'.partial => FlowsAreExact')
            BY <1>1, <2>2, <2>4, AskFlowsGathers
        <3> QED BY <1>1, <2>1, <3>1 DEF SummariesAreExact, Gathered
    <2> QED BY <1>5, <2>3, <2>4
<1>6. CASE PodsChange \/ ListPods \/ AskKills
    <2>1. attempt.provider = "kernel-log"
        BY <1>6 DEF PodsChange, ListPods, AskKills, Working
    <2>2. KillsStand /\ KillsGathered /\ LokiHolds(source)
        BY <1>2, <2>1 DEF AttemptStands, Gathered, KillsStand
    <2>3. CASE PodsChange
        <3>1. attempt'.outcome = "collecting" /\ KillsGathered'
            BY <1>1, <2>2, <2>3, PodsChangeGathers DEF PodsChange
        <3> QED BY <1>1, <2>1, <3>1 DEF SummariesAreExact, Gathered
    <2>4. CASE ListPods
        <3>1. /\ attempt'.outcome = "collecting" => KillsGathered'
              /\ attempt'.outcome = "batch" => KillsAreExact'
            BY <1>1, <2>2, <2>4, ListPodsGathers
        <3> QED BY <1>1, <2>1, <3>1 DEF SummariesAreExact, Gathered
    <2>5. CASE AskKills
        <3>1. /\ attempt'.outcome # "collecting"
              /\ attempt'.outcome = "batch" => (~attempt'.partial => KillsAreExact')
            BY <1>1, <2>2, <2>5, AskKillsGathers
        <3> QED BY <1>1, <2>1, <3>1 DEF SummariesAreExact, Gathered
    <2> QED BY <1>6, <2>3, <2>4, <2>5
<1>7. CASE ClockTicks \/ RollOut \/ ListReplicaSets \/ GetDeployment
    <2>1. attempt.provider = "deployments"
        BY <1>7 DEF ClockTicks, RollOut, ListReplicaSets, GetDeployment, Working
    <2>2. HistoryStands /\ ChangesGathered /\ ControllerHolds(source)
        BY <1>2, <2>1 DEF AttemptStands, Gathered, HistoryStands
    <2>3. CASE ClockTicks \/ RollOut
        <3>1. attempt'.outcome = "collecting" /\ ChangesGathered'
            BY <1>1, <2>2, <2>3, ClockTicksGathers, RollOutGathers DEF ClockTicks, RollOut
        <3> QED BY <1>1, <2>1, <3>1 DEF SummariesAreExact, Gathered
    <2>4. CASE ListReplicaSets
        <3>1. /\ attempt'.outcome = "collecting" => ChangesGathered'
              /\ attempt'.outcome # "batch"
            BY <1>1, <2>2, <2>4, ListReplicaSetsGathers
        <3> QED BY <1>1, <2>1, <3>1 DEF SummariesAreExact, Gathered
    <2>5. CASE GetDeployment
        <3>1. /\ attempt'.outcome = "collecting" => ChangesGathered'
              /\ attempt'.outcome = "batch" => (~attempt'.partial => ChangesAreExact')
            BY <1>1, <2>2, <2>5, GetDeploymentGathers
        <3> QED BY <1>1, <2>1, <3>1 DEF SummariesAreExact, Gathered
    <2> QED BY <1>7, <2>3, <2>4, <2>5
<1> QED BY <1>3, <1>4, <1>5, <1>6, <1>7 DEF TelemetryNext

\* Of a batch nothing changes any more.
LEMMA ExactStays ==
    ASSUME UNCHANGED telemetryVars, SummariesAreExact, attempt.provider \in Collectors
    PROVE  SummariesAreExact'
<1>1. attempt' = attempt /\ source' = source
    BY DEF telemetryVars
<1>2. PerService' = PerService
    BY <1>1 DEF PerService
<1>3. \A metric, subject : OfSubject(metric, subject)' = OfSubject(metric, subject)
    BY <1>1 DEF OfSubject, Filtered
<1>4. \A e : ExactMetric(e)' <=> ExactMetric(e)
    BY <1>3 DEF ExactMetric
<1>5. \A metric : MetricSubjects(metric)' = MetricSubjects(metric)
    BY <1>1, <1>2 DEF MetricSubjects
<1>6. MetricsAreExact => MetricsAreExact'
    BY <1>1, <1>2, <1>4, <1>5 DEF MetricsAreExact
<1>7. FeaturesAreAligned => FeaturesAreAligned'
    BY <1>1 DEF FeaturesAreAligned
<1>8. FlowsAreExact => FlowsAreExact'
    BY <1>1 DEF FlowsAreExact
<1>9. \A uid : KillsOf(uid)' = KillsOf(uid)
    BY <1>1 DEF KillsOf
<1>10. KillsAreExact => KillsAreExact'
    BY <1>1, <1>9 DEF KillsAreExact
<1>11. ChangesAreExact => ChangesAreExact'
    BY <1>1 DEF ChangesAreExact
<1> SUFFICES ASSUME attempt.outcome = "batch"
             PROVE  SummariesAreExact'
    BY <1>1 DEF SummariesAreExact
<1>12. CASE attempt.provider \in {"service-metrics", "workload-metrics"}
    BY <1>1, <1>6, <1>12 DEF SummariesAreExact
<1>13. CASE attempt.provider = "api-features"
    BY <1>1, <1>7, <1>13 DEF SummariesAreExact
<1>14. CASE attempt.provider = "network-flows"
    BY <1>1, <1>8, <1>14 DEF SummariesAreExact
<1>15. CASE attempt.provider = "kernel-log"
    BY <1>1, <1>10, <1>15 DEF SummariesAreExact
<1>16. CASE attempt.provider = "deployments"
    BY <1>1, <1>11, <1>16 DEF SummariesAreExact
<1> QED BY <1>12, <1>13, <1>14, <1>15, <1>16 DEF Collectors

LEMMA GatheredStays ==
    ASSUME UNCHANGED telemetryVars, Gathered, attempt.provider \in Collectors
    PROVE  Gathered'
<1>1. attempt' = attempt /\ source' = source
    BY DEF telemetryVars
<1>2. Seen' = Seen /\ Listed' = Listed /\ List' = List /\ Root' = Root
    BY <1>1 DEF Seen, Listed, List, Root
<1>3. CASE attempt.provider \in {"service-metrics", "workload-metrics"}
    <2>1. \A k : Summaries(Metrics[k], source[Metrics[k]])' = Summaries(Metrics[k], source[Metrics[k]])
        BY <1>1, SummariesStay
    <2>2. MetricsGathered(attempt.at - 1)'
        BY <1>1, <1>3, <2>1 DEF Gathered, MetricsGathered
    <2> QED BY <1>1, <1>3, <2>2 DEF Gathered
<1>4. CASE attempt.provider = "api-features"
    <2>1. FeaturesGathered'
        BY <1>1, <1>4 DEF Gathered, FeaturesGathered, FeaturesHold, Answered
    <2> QED BY <1>1, <1>4, <2>1 DEF Gathered
<1>5. CASE attempt.provider = "network-flows"
    <2>1. FlowsGathered'
        BY <1>1, <1>2, <1>5 DEF Gathered, FlowsGathered, CountedFlows
    <2> QED BY <1>1, <1>5, <2>1 DEF Gathered
<1>6. CASE attempt.provider = "kernel-log"
    <2>1. KillsGathered'
        BY <1>1, <1>2, <1>6 DEF Gathered, KillsGathered
    <2> QED BY <1>1, <1>6, <2>1 DEF Gathered
<1>7. CASE attempt.provider = "deployments"
    <2>1. ChangesGathered'
        BY <1>1, <1>2, <1>7 DEF Gathered, ChangesGathered
    <2> QED BY <1>1, <1>7, <2>1 DEF Gathered
<1> QED BY <1>3, <1>4, <1>5, <1>6, <1>7 DEF Collectors

\* What is drafted and what is remembered agree with what the source held when it was asked, and
\* with what it holds now.
THEOREM CollectedIsInvariant == TelemetrySpec => []CollectedInv
<1>1. CollectedInv /\ [TelemetryNext]_telemetryVars => CollectedInv'
    <2> SUFFICES ASSUME CollectedInv, [TelemetryNext]_telemetryVars
                 PROVE  CollectedInv'
        OBVIOUS
    <2>1. CASE TelemetryNext
        BY <2>1, NextGathers
    <2>2. CASE UNCHANGED telemetryVars
        <3>1. TelemetryInv'
            BY TelemetryInvIsKept DEF CollectedInv
        <3>2. SummariesAreExact'
            BY <2>2, ExactStays DEF CollectedInv, TelemetryInv
        <3>3. attempt'.outcome = "collecting" => Gathered'
            BY <2>2, GatheredStays DEF CollectedInv, TelemetryInv, telemetryVars
        <3> QED BY <3>1, <3>2, <3>3 DEF CollectedInv
    <2> QED BY <2>1, <2>2
<1> QED BY <1>1, GatheredAtFirst, PTL DEF TelemetrySpec

\* A batch that is not PARTIAL says what its source holds, and an edge is scored only over enough
\* times at which all of its series have a sample, whatever the source holds and the limits are.
THEOREM SummariesCanBeTrusted == TelemetrySpec => []SummariesAreExact
<1>1. CollectedInv => SummariesAreExact
    BY DEF CollectedInv
<1> QED BY <1>1, CollectedIsInvariant, PTL

================================================================================
