------------------------- MODULE ObservationJournal ------------------------
(***************************************************************************)
(* The background reconciler: run_once of run_stategraph_reconciler.py     *)
(* with KubernetesStateGraphReconciler.reconcile and the PostgreSQL        *)
(* journal.  A cycle is written to the journal as STAGED, then to the      *)
(* graph, then marked APPLIED; the two databases share no transaction, so  *)
(* a job that dies between two steps leaves the rest to the next job of    *)
(* the same time slot.                                                     *)
(*                                                                         *)
(* Jobs are started by a CronJob with concurrencyPolicy Forbid; a job that *)
(* was killed may still be running when the next one starts, so several    *)
(* jobs at a time are possible.                                            *)
(***************************************************************************)
EXTENDS StateGraph

CONSTANTS
    Jobs,
    Interval,         \* schedule_interval_seconds
    JobLife,          \* activeDeadlineSeconds
    AppliedHistory,   \* applied_history: 72 hours
    StagedHistory,    \* abandoned_staged_history: 24 hours
    Never             \* applied_at of a STAGED cycle

ASSUME JournalAssumption ==
    /\ Interval \in Nat \ {0}
    /\ JobLife \in Nat
    /\ AppliedHistory \in Nat \ {0}
    /\ StagedHistory \in Nat \ {0}
    /\ StagedHistory <= AppliedHistory
    /\ JobLife < StagedHistory
    /\ Never \notin Nat

VARIABLES
    now,
    journal,    \* stategraph_observation_cycles with their Evidence
    job,        \* the run of each job process
    reconciled  \* history: slots whose inventory the graph has got

journalVars == <<journal, job, reconciled>>

Cycle == [slot : Nat, staged : Nat, seen : Seen, applied : Nat \cup {Never}]
Phases == {"idle", "collect", "stage", "graph", "mark", "prune_graph", "prune_journal"}
Run == [phase : Phases, at : Nat, slot : Nat, observed : Nat, seen : Seen]

NothingSeen == [e \in Entities |-> Gone]
Idle == [phase |-> "idle", at |-> 0, slot |-> 0, observed |-> 0, seen |-> NothingSeen]

JournalTypeOK ==
    /\ now \in Nat
    /\ journal \in SUBSET Cycle
    /\ \A c, d \in journal : c.slot = d.slot => c = d
    /\ job \in [Jobs -> Run]
    /\ reconciled \in SUBSET Nat

JournalInit ==
    /\ now = 0
    /\ journal = {}
    /\ job = [j \in Jobs |-> Idle]
    /\ reconciled = {}

Staged(c) == c.applied = Never
CyclesOf(slot) == {c \in journal : c.slot = slot}

Proceed(j, phase) == job' = [job EXCEPT ![j].phase = phase]

\* The graph is done with: what was collected is not needed any more.
Finish(j, phase) ==
    job' = [job EXCEPT ![j] = [@ EXCEPT !.phase = phase, !.observed = 0,
                                        !.seen = NothingSeen]]

-----------------------------------------------------------------------------
(* One job                                                                 *)

SlotOf(time) == time - (time % Interval)

\* Mutant: a STAGED cycle is taken for one the graph has got.
StartMarking(j) ==
    LET slot == SlotOf(now)
        run == [phase |-> "collect", at |-> now, slot |-> slot, observed |-> now,
                seen |-> NothingSeen]
    IN  /\ job[j].phase = "idle"
        /\ \/ /\ CyclesOf(slot) = {}
              /\ job' = [job EXCEPT ![j] = run]
           \/ \E c \in CyclesOf(slot) :
                 job' = [job EXCEPT ![j] = [run EXCEPT !.observed = 0,
                            !.phase = IF Staged(c) THEN "mark" ELSE "prune_graph"]]
        /\ UNCHANGED <<now, journal, reconciled, graphVars>>

(* reconcile reads the journal first: an APPLIED cycle is not repeated, a  *)
(* STAGED one is applied from its stored Evidence.                         *)
Start(j) ==
    LET slot == SlotOf(now)
        run == [phase |-> "collect", at |-> now, slot |-> slot, observed |-> now,
                seen |-> NothingSeen]
    IN  /\ job[j].phase = "idle"
        /\ \/ /\ CyclesOf(slot) = {}
              /\ job' = [job EXCEPT ![j] = run]
           \/ \E c \in CyclesOf(slot) :
                 job' = [job EXCEPT ![j] =
                            IF Staged(c)
                            THEN [run EXCEPT !.phase = "graph", !.observed = c.staged,
                                             !.seen = c.seen]
                            ELSE [run EXCEPT !.phase = "prune_graph", !.observed = 0]]
        /\ UNCHANGED <<now, journal, reconciled, graphVars>>

\* A complete inventory of what the cluster has now; an empty one is refused.
Collect(j) ==
    /\ job[j].phase = "collect"
    /\ \E seen \in Seen \ {NothingSeen} :
          job' = [job EXCEPT ![j] = [@ EXCEPT !.phase = "stage", !.seen = seen]]
    /\ UNCHANGED <<now, journal, reconciled, graphVars>>

(* stage_cycle: another job may have staged this slot since it was looked  *)
(* up; its cycle is accepted only if it is the very same.                  *)
Stage(j) ==
    LET run == job[j]
        candidate == [slot |-> run.slot, staged |-> run.at, seen |-> run.seen,
                      applied |-> Never]
    IN  /\ run.phase = "stage"
        /\ \/ /\ CyclesOf(run.slot) = {}
              /\ journal' = journal \cup {candidate}
              /\ Proceed(j, "graph")
           \/ \E c \in CyclesOf(run.slot) :
                 /\ c.staged = run.at /\ c.seen = run.seen
                 /\ IF Staged(c) THEN Proceed(j, "graph") ELSE Finish(j, "prune_graph")
                 /\ UNCHANGED journal
        /\ UNCHANGED <<now, reconciled, graphVars>>

Reconcile(j) ==
    /\ job[j].phase = "graph"
    /\ ReconcileProjection(job[j].seen, job[j].slot, job[j].observed)
    /\ reconciled' = reconciled \cup {job[j].slot}
    /\ Finish(j, "mark")
    /\ UNCHANGED <<now, journal>>

(* mark_cycle_applied: a cycle already APPLIED must be equal in its time   *)
(* (and in the counts of its result, which are not modelled).              *)
Mark(j) ==
    /\ job[j].phase = "mark"
    /\ \E c \in CyclesOf(job[j].slot) :
          /\ c.applied \in {Never, job[j].at}
          /\ journal' = (journal \ {c}) \cup {[c EXCEPT !.applied = job[j].at]}
    /\ Proceed(j, "prune_graph")
    /\ UNCHANGED <<now, reconciled, graphVars>>

PruneGraph(j) ==
    /\ job[j].phase = "prune_graph"
    /\ PruneHistory(job[j].at)
    /\ Proceed(j, "prune_journal")
    /\ UNCHANGED <<now, journal, reconciled>>

Outdated(c, at) ==
    IF Staged(c) THEN c.staged + StagedHistory <= at ELSE c.applied + AppliedHistory <= at

PruneJournal(j) ==
    /\ job[j].phase = "prune_journal"
    /\ journal' = {c \in journal : ~Outdated(c, job[j].at)}
    /\ job' = [job EXCEPT ![j] = Idle]
    /\ UNCHANGED <<now, reconciled, graphVars>>

(* Every step may fail (PARTIAL inventory, a rejected transaction, a lost  *)
(* acknowledgement), and the job may be killed.                            *)
Abort(j) ==
    /\ job[j].phase # "idle"
    /\ job' = [job EXCEPT ![j] = Idle]
    /\ UNCHANGED <<now, journal, reconciled, graphVars>>

JobStep(j) ==
    \/ Start(j) \/ Collect(j) \/ Stage(j) \/ Reconcile(j)
    \/ Mark(j) \/ PruneGraph(j) \/ PruneJournal(j) \/ Abort(j)

-----------------------------------------------------------------------------
(* Properties of the journal                                               *)

(* APPLIED is never a promise: the graph has got the inventory of every    *)
(* cycle marked APPLIED, whichever job marked it.                          *)
AppliedIsReconciled ==
    \A c \in journal : ~Staged(c) => c.slot \in reconciled

(* retry_staged_cycle_reapplies_graph_idempotently: wherever the graph     *)
(* accepts a STAGED cycle, it accepts it again at once and stays as it is  *)
(* (unless an Entity was observed in two states at the same second).       *)
RetryChangesNothing ==
    \A c \in journal :
        Staged(c) /\ Reconcilable(graph, c.seen, c.slot, c.staged) =>
            LET once == ReconciledGraph(graph, c.seen, c.slot, c.staged)
                ties == {e \in Entities : c.seen[e] # Gone /\ Ties(graph[e], c.slot, c.seen[e])}
            IN  tied \cup ties = {} =>
                    /\ Reconcilable(once, c.seen, c.slot, c.staged)
                    /\ ReconciledGraph(once, c.seen, c.slot, c.staged) = once
=============================================================================
