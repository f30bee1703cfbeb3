---------------------------- MODULE GraphWriters ---------------------------
(***************************************************************************)
(* Everybody who writes the StateGraph: the background reconciler and the  *)
(* localizations of Incidents, which ingest the Evidence collected for     *)
(* their Incident and pin the history their Context was frozen from.       *)
(*                                                                         *)
(* What the cluster looks like is not restricted: every observation may    *)
(* show every Entity in any state or not at all.  An observation is of the *)
(* end of its window, which for a resolved Incident is in the past.        *)
(***************************************************************************)
EXTENDS ObservationJournal

CONSTANTS
    Baseline,  \* how far an Incident's window reaches back
    MaxLag,    \* bound: age of the Evidence a localization ingests
    MaxTime,   \* bound: the clock
    NoEvidence

ASSUME WritersAssumption == Baseline \in Nat /\ MaxLag \in Nat /\ MaxTime \in Nat

VARIABLE evidence  \* Incident -> what it has collected and not yet frozen

Evidence == [at : Nat, seen : Seen, ingested : BOOLEAN]

vars == <<now, journal, job, reconciled, graph, pins, tied, evidence>>

TypeOK ==
    /\ GraphTypeOK
    /\ JournalTypeOK
    /\ evidence \in [Incidents -> Evidence \cup {NoEvidence}]

Init ==
    /\ GraphInit
    /\ JournalInit
    /\ evidence = [i \in Incidents |-> NoEvidence]

-----------------------------------------------------------------------------
(* An Incident                                                             *)

CollectEvidence(i) ==
    /\ evidence[i] = NoEvidence
    /\ \E at \in 0..now, seen \in Seen \ {NothingSeen} :
          /\ at + MaxLag >= now
          /\ evidence' = [evidence EXCEPT ![i] =
                             [at |-> at, seen |-> seen, ingested |-> FALSE]]
    /\ UNCHANGED <<now, journalVars, graphVars>>

IngestEvidence(i) ==
    /\ evidence[i] # NoEvidence
    /\ ~evidence[i].ingested
    /\ Ingest(evidence[i].seen, evidence[i].at)
    /\ evidence' = [evidence EXCEPT ![i].ingested = TRUE]
    /\ UNCHANGED <<now, journalVars>>

(* The Context has been stored: the Entities on its paths, whoever wrote   *)
(* them to the graph, are pinned for its window.                           *)
PinContext(i) ==
    LET batch == evidence[i] IN
    /\ batch # NoEvidence
    /\ batch.ingested
    /\ \E ids \in SUBSET Entities \ {{}} :
          PinIncidentHistory(i, ids, IF batch.at > Baseline THEN batch.at - Baseline ELSE 0,
                             batch.at, now)
    /\ evidence' = [evidence EXCEPT ![i] = NoEvidence]
    /\ UNCHANGED <<now, journalVars>>

(* The localization fails (its Evidence is refused, a call fails), or ends *)
(* before it has pinned anything.                                          *)
DropEvidence(i) ==
    /\ evidence[i] # NoEvidence
    /\ evidence' = [evidence EXCEPT ![i] = NoEvidence]
    /\ UNCHANGED <<now, journalVars, graphVars>>

-----------------------------------------------------------------------------
(* Time: a job is killed at its deadline, a localization is not given      *)
(* Evidence of any age.                                                    *)

Tick ==
    /\ now < MaxTime
    /\ \A j \in Jobs : job[j].phase # "idle" => now < job[j].at + JobLife
    /\ \A i \in Incidents : evidence[i] # NoEvidence => now < evidence[i].at + MaxLag
    /\ now' = now + 1
    /\ UNCHANGED <<journalVars, graphVars, evidence>>

-----------------------------------------------------------------------------
(* Specification                                                           *)

Next ==
    \/ \E j \in Jobs : JobStep(j) /\ UNCHANGED evidence
    \/ \E i \in Incidents :
          CollectEvidence(i) \/ IngestEvidence(i) \/ PinContext(i) \/ DropEvidence(i)
    \/ Tick

Spec == Init /\ [][Next]_vars

-----------------------------------------------------------------------------
(* Properties                                                              *)

Covers(snaps, s) == \E t \in snaps : t.from = s.from /\ t.state = s.state

KeepsPinned(i) ==
    pins[i] # NoPin /\ now < pins[i].expires =>
        /\ pins'[i] # NoPin
        /\ pins'[i].expires >= pins[i].expires
        /\ pins[i].entities \subseteq pins'[i].entities
        /\ \A e \in pins[i].entities : \A s \in Snaps(graph[e]) :
              s.to # Open /\ Overlaps(pins[i], s) => Covers(Snaps(graph'[e]), s)

(* Until a pin expires it stays, and of the Entities it names every        *)
(* snapshot that overlaps its window stays, whatever later pins of the     *)
(* same Incident ask for and however old the snapshot gets.                *)
PinnedHistoryIsKept == [][\A i \in Incidents : KeepsPinned(i)]_vars
=============================================================================
