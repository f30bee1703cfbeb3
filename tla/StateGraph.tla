----------------------------- MODULE StateGraph ----------------------------
(***************************************************************************)
(* The temporal StateGraph as Neo4jStateGraphRepository keeps it: for      *)
(* every Entity its lifetime and its snapshot intervals, and the pins that *)
(* keep an Incident's history from being pruned.  Every operation is one   *)
(* Neo4j transaction: it is accepted as a whole or changes nothing.        *)
(*                                                                         *)
(* A transaction gets at most one observation of an Entity; the Evidence   *)
(* of two collections is two transactions.  Evidence ids, relations and    *)
(* event aggregates are left out.  An Entity's state is a number: where    *)
(* the code compares hashed ids only to break a tie, the numbers do.       *)
(***************************************************************************)
EXTENDS Naturals

CONSTANTS
    Entities,
    States,           \* states an Entity is observed in
    Gone,             \* an Entity that an observation does not contain
    Open,             \* valid_to of the current snapshot (NULL)
    NoEntity,         \* an Entity the graph does not have
    Incidents,
    NoPin,            \* an Incident without a history pin
    OrdinaryHistory,  \* ordinary_history: 72 hours
    PinnedHistory     \* incident_pinned_history: 30 days

ASSUME StatesAssumption == States \subseteq Nat /\ Gone \notin States
ASSUME OpenAssumption == Open \notin Nat
ASSUME RetentionAssumption ==
    /\ OrdinaryHistory \in Nat \ {0}
    /\ PinnedHistory \in Nat
    /\ PinnedHistory > OrdinaryHistory

VARIABLES
    graph,  \* Entity -> its history
    pins,   \* Incident -> its history pin
    tied    \* history: Entities once seen in two states at the same time

graphVars == <<graph, pins, tied>>

Snapshot == [state : States, from : Nat, to : Nat \cup {Open}, observed : Nat]
History == [exists : BOOLEAN, first : Nat, last : Nat, snaps : SUBSET Snapshot]
Pin == [from : Nat, to : Nat, expires : Nat, entities : SUBSET Entities]
Seen == [Entities -> States \cup {Gone}]

ASSUME NoEntityAssumption == NoEntity \notin History
ASSUME NoPinAssumption == NoPin \notin Pin

GraphTypeOK ==
    /\ graph \in [Entities -> History \cup {NoEntity}]
    /\ pins \in [Incidents -> Pin \cup {NoPin}]
    /\ tied \subseteq Entities

GraphInit ==
    /\ graph = [e \in Entities |-> NoEntity]
    /\ pins = [i \in Incidents |-> NoPin]
    /\ tied = {}

Known(e) == graph[e] # NoEntity
Snaps(h) == IF h = NoEntity THEN {} ELSE h.snaps

-----------------------------------------------------------------------------
(* Snapshot intervals                                                      *)

Earlier(a, b) == IF a < b THEN a ELSE b
Later(a, b) == IF a > b THEN a ELSE b

\* ORDER BY valid_from DESC, snapshot_id DESC
LatestOf(snaps) ==
    CHOOSE s \in snaps :
        \A t \in snaps : t.from < s.from \/ (t.from = s.from /\ t.state <= s.state)

NewSnapshot(at, state) == [state |-> state, from |-> at, to |-> Open, observed |-> at]

Extends(latest, state) == latest.to = Open /\ latest.state = state

CloseAt(snaps, s, at) == (snaps \ {s}) \cup {[s EXCEPT !.to = at]}
RetireAt(snaps, s, at) == (snaps \ {s}) \cup {[s EXCEPT !.to = at, !.observed = at]}

\* Mutant: an observation of the very start of the current interval is refused.
FitsStrictly(h, at, state) ==
    Snaps(h) # {} =>
        LET latest == LatestOf(Snaps(h)) IN
        /\ at > latest.from
        /\ latest.to # Open => at >= latest.to
        /\ Extends(latest, state)
              \/ \A s \in Snaps(h) : ~(s.from = at /\ s.state = state)

(* "Snapshot observations must not overlap or go backward", and a snapshot *)
(* id (its Entity, valid_from and state hash) is unique.                   *)
Fits(h, at, state) ==
    Snaps(h) # {} =>
        LET latest == LatestOf(Snaps(h)) IN
        /\ at >= latest.from
        /\ latest.to # Open => at >= latest.to
        /\ Extends(latest, state)
              \/ \A s \in Snaps(h) : ~(s.from = at /\ s.state = state)

\* Mutant: the previous interval is left open.
SnapsAfterOpen(snaps, at, state) ==
    IF snaps # {} /\ Extends(LatestOf(snaps), state)
    THEN snaps
    ELSE snaps \cup {NewSnapshot(at, state)}

SnapsAfter(snaps, at, state) ==
    IF snaps = {} THEN {NewSnapshot(at, state)}
    ELSE LET latest == LatestOf(snaps) IN
         IF Extends(latest, state)
         THEN (snaps \ {latest}) \cup {[latest EXCEPT !.observed = Later(@, at)]}
         ELSE (IF latest.to = Open THEN CloseAt(snaps, latest, at) ELSE snaps)
                  \cup {NewSnapshot(at, state)}

(* _upsert_entity_tx, then _upsert_snapshot_tx.                            *)
Observed(h, at, state) ==
    IF h = NoEntity
    THEN [exists |-> TRUE, first |-> at, last |-> at, snaps |-> {NewSnapshot(at, state)}]
    ELSE [exists |-> at >= h.last \/ h.exists,
          first |-> Earlier(h.first, at),
          last |-> Later(h.last, at),
          snaps |-> SnapsAfter(h.snaps, at, state)]

Ties(h, at, state) == \E s \in Snaps(h) : s.from = at /\ s.state # state

-----------------------------------------------------------------------------
(* What a complete inventory does to an Entity it does not contain         *)

OpenSnaps(h) == {s \in Snaps(h) : s.to = Open}

Retirable(h, at) ==
    h # NoEntity =>
        /\ at >= h.last
        /\ OpenSnaps(h) # {} => at >= LatestOf(OpenSnaps(h)).from

\* Mutant: the Entity is retired and its snapshot stays current.
RetiredOpen(h, at) ==
    IF h = NoEntity THEN h
    ELSE [h EXCEPT !.exists = FALSE, !.last = IF h.exists THEN at ELSE h.last]

Retired(h, at) ==
    IF h = NoEntity THEN h
    ELSE [h EXCEPT !.exists = FALSE,
                   !.last = IF h.exists THEN at ELSE h.last,
                   !.snaps = IF OpenSnaps(h) = {} THEN h.snaps
                             ELSE RetireAt(h.snaps, LatestOf(OpenSnaps(h)), at)]

-----------------------------------------------------------------------------
(* Transactions                                                            *)

Accepts(seen, at) == \A e \in Entities : seen[e] # Gone => Fits(graph[e], at, seen[e])

RecordTies(seen, at) ==
    tied' = tied \cup {e \in Entities : seen[e] # Gone /\ Ties(graph[e], at, seen[e])}

Ingest(seen, at) ==
    /\ Accepts(seen, at)
    /\ graph' = [e \in Entities |->
                    IF seen[e] = Gone THEN graph[e] ELSE Observed(graph[e], at, seen[e])]
    /\ RecordTies(seen, at)
    /\ UNCHANGED pins

(* reconcile_projection: records are of time slot, what is absent is       *)
(* retired at time at.                                                     *)
Reconcilable(g, seen, slot, at) ==
    \A e \in Entities : IF seen[e] = Gone THEN Retirable(g[e], at)
                                          ELSE Fits(g[e], slot, seen[e])

ReconciledGraph(g, seen, slot, at) ==
    [e \in Entities |-> IF seen[e] = Gone THEN Retired(g[e], at)
                                          ELSE Observed(g[e], slot, seen[e])]

ReconcileProjection(seen, slot, at) ==
    /\ Reconcilable(graph, seen, slot, at)
    /\ graph' = ReconciledGraph(graph, seen, slot, at)
    /\ RecordTies(seen, slot)
    /\ UNCHANGED pins

\* Mutant: a second pin of an Incident replaces the first.
PinReplaced(i, ids, from, to, at) ==
    pins' = [pins EXCEPT ![i] = [from |-> from, to |-> to, entities |-> ids,
                                 expires |-> at + PinnedHistory]]

WidenPin(i, ids, from, to, at) ==
    LET pin == pins[i] IN
    pins' = [pins EXCEPT ![i] =
                IF pin = NoPin
                THEN [from |-> from, to |-> to, entities |-> ids,
                      expires |-> at + PinnedHistory]
                ELSE [from |-> Earlier(pin.from, from),
                      to |-> Later(pin.to, to),
                      entities |-> pin.entities \cup ids,
                      expires |-> Later(pin.expires, at + PinnedHistory)]]

PinIncidentHistory(i, ids, from, to, at) ==
    /\ \A e \in ids : Known(e)
    /\ WidenPin(i, ids, from, to, at)
    /\ UNCHANGED <<graph, tied>>

\* prune_history, in its order: pins, snapshots, Entities nothing refers to.
Expired(i, at) == pins[i] # NoPin /\ pins[i].expires <= at

Overlaps(pin, s) == pin.from <= s.to /\ pin.to >= s.from

Protected(e, s, at) ==
    \E i \in Incidents :
        /\ pins[i] # NoPin
        /\ pins[i].expires > at
        /\ e \in pins[i].entities
        /\ Overlaps(pins[i], s)

Old(time, at) == time + OrdinaryHistory < at

Prunable(e, s, at) == s.to # Open /\ Old(s.to, at) /\ ~Protected(e, s, at)

PrunedHistory(e, at) ==
    LET kept == {s \in graph[e].snaps : ~Prunable(e, s, at)}
        pinned == \E i \in Incidents :
                     pins[i] # NoPin /\ ~Expired(i, at) /\ e \in pins[i].entities
    IN  IF kept = {} /\ ~pinned /\ Old(graph[e].last, at)
        THEN NoEntity
        ELSE [graph[e] EXCEPT !.snaps = kept]

PruneHistory(at) ==
    /\ pins' = [i \in Incidents |-> IF Expired(i, at) THEN NoPin ELSE pins[i]]
    /\ graph' = [e \in Entities |-> IF Known(e) THEN PrunedHistory(e, at) ELSE NoEntity]
    /\ UNCHANGED tied

-----------------------------------------------------------------------------
(* Properties of the graph                                                 *)

Before(s, t) == s.to # Open /\ s.to <= t.from
Disjoint(snaps) == \A s, t \in snaps : s = t \/ Before(s, t) \/ Before(t, s)

(* Intervals of an Entity never overlap and at most one is open, in        *)
(* whatever order reconcilers and workers write, retry and prune, as long  *)
(* as the Entity was not observed in two states at the same second.        *)
DisjointUnlessTied == \A e \in Entities \ tied : Disjoint(Snaps(graph[e]))

(* What the last inventory did not contain has no current state.           *)
RetiredIsClosed ==
    \A e \in Entities \ tied :
        Known(e) /\ ~graph[e].exists => OpenSnaps(graph[e]) = {}
=============================================================================
