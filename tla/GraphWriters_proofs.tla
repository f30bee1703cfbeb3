------------------------ MODULE GraphWriters_proofs ------------------------
(***************************************************************************)
(* Type correctness of GraphWriters; intervals that stay disjoint, APPLIED *)
(* cycles that are in the graph, and pins that protect what they name.     *)
(*                                                                         *)
(* The history of an Entity that was never seen in two states at once has  *)
(* more order than the property asks for: its snapshots start at different *)
(* times, so the one that starts last is the only one that can be open,    *)
(* and it is the one that LatestOf finds.  That LatestOf finds anything    *)
(* needs finite histories, and the order of finite sets is well-founded.   *)
(* A pin is safe because a job prunes as of its start: what is unexpired   *)
(* now was unexpired then.                                                 *)
(***************************************************************************)
EXTENDS GraphWriters, FiniteSetTheorems, WellFoundedInduction, TLAPS

-----------------------------------------------------------------------------
(* The latest snapshot exists                                              *)

Above(snaps, s) ==
    {t \in snaps : t.from > s.from \/ (t.from = s.from /\ t.state > s.state)}

(* ORDER BY ... LIMIT 1 finds a snapshot that starts last.                 *)
LEMMA LatestExists ==
    ASSUME NEW snaps \in SUBSET Snapshot, IsFiniteSet(snaps), snaps # {}
    PROVE  /\ LatestOf(snaps) \in snaps
           /\ \A t \in snaps : t.from <= LatestOf(snaps).from
  <1> DEFINE Ups == {Above(snaps, s) : s \in snaps}
  <1>1. IsWellFoundedOn(StrictSubsetOrdering(snaps), FiniteSubsetsOf(snaps))
    BY FS_StrictSubsetOrderingWellFounded
  <1>2. Ups \subseteq FiniteSubsetsOf(snaps) /\ Ups # {}
    <2>1. \A s \in snaps : Above(snaps, s) \in SUBSET snaps
      BY DEF Above
    <2>2. \A s \in snaps : IsFiniteSet(Above(snaps, s))
      BY <2>1, FS_Subset
    <2> QED
      BY <2>1, <2>2 DEF FiniteSubsetsOf
  <1>3. \A s \in snaps : Above(snaps, s) \in Ups
    OBVIOUS
  <1>4. \E s \in snaps : \A v \in Ups : <<v, Above(snaps, s)>> \notin StrictSubsetOrdering(snaps)
    <2>1. \E u \in Ups : \A v \in Ups : <<v, u>> \notin StrictSubsetOrdering(snaps)
      BY <1>1, <1>2, WFMin
    <2> QED
      BY <2>1
  <1> HIDE DEF Ups
  <1>5. PICK s \in snaps : \A v \in Ups : <<v, Above(snaps, s)>> \notin StrictSubsetOrdering(snaps)
    BY <1>4
  <1>6. \A t \in snaps : t.from \in Nat /\ t.state \in Nat
    BY StatesAssumption DEF Snapshot
  <1>7. \A t \in snaps : t.from < s.from \/ (t.from = s.from /\ t.state <= s.state)
    <2> SUFFICES ASSUME NEW t \in snaps,
                        t.from > s.from \/ (t.from = s.from /\ t.state > s.state)
                 PROVE  FALSE
      BY <1>6
    <2>1. t \in Above(snaps, s)
      BY DEF Above
    <2>2. t \notin Above(snaps, t)
      BY <1>6 DEF Above
    <2>3. Above(snaps, t) \subseteq Above(snaps, s)
      <3> SUFFICES ASSUME NEW r \in snaps,
                          r.from > t.from \/ (r.from = t.from /\ r.state > t.state)
                   PROVE  r.from > s.from \/ (r.from = s.from /\ r.state > s.state)
        BY DEF Above
      <3> QED
        BY <1>6
    <2>4. Above(snaps, t) \in SUBSET snaps /\ Above(snaps, s) \in SUBSET snaps
      BY DEF Above
    <2>5. <<Above(snaps, t), Above(snaps, s)>> \in StrictSubsetOrdering(snaps)
      BY <2>1, <2>2, <2>3, <2>4 DEF StrictSubsetOrdering
    <2> QED
      BY <1>3, <1>5, <2>5
  <1>8. /\ LatestOf(snaps) \in snaps
        /\ \A t \in snaps : \/ t.from < LatestOf(snaps).from
                            \/ t.from = LatestOf(snaps).from /\ t.state <= LatestOf(snaps).state
    BY <1>7 DEF LatestOf
  <1> QED
    BY <1>6, <1>8

-----------------------------------------------------------------------------
(* One Entity                                                              *)

(* Disjoint intervals that start at different times and do not end before  *)
(* they start.                                                             *)
Orderly(snaps) ==
    /\ Disjoint(snaps)
    /\ \A s, t \in snaps : s.from = t.from => s = t
    /\ \A s \in snaps : s.to # Open => s.from <= s.to

(* The types of a snapshot's fields.                                       *)
LEMMA SnapshotFields ==
    ASSUME NEW s \in Snapshot
    PROVE  /\ s.state \in States /\ s.from \in Nat /\ s.observed \in Nat
           /\ s.to \in Nat \cup {Open} /\ (s.to # Open => s.to \in Nat)
  BY DEF Snapshot

(* The types of a history's fields.                                        *)
LEMMA HistoryFields ==
    ASSUME NEW h \in History \cup {NoEntity}
    PROVE  /\ Snaps(h) \in SUBSET Snapshot
           /\ h # NoEntity => /\ h \in History
                              /\ h.exists \in BOOLEAN /\ h.first \in Nat /\ h.last \in Nat
                              /\ Snaps(h) = h.snaps
  BY DEF History, Snaps

(* Everything of an orderly history comes before its latest snapshot.      *)
LEMMA OthersAreBefore ==
    ASSUME NEW snaps \in SUBSET Snapshot, NEW latest \in snaps,
           \A t \in snaps : t.from <= latest.from,
           Orderly(snaps), NEW t \in snaps \ {latest}
    PROVE  Before(t, latest)
  <1>1. t.from < latest.from
    BY SnapshotFields DEF Orderly
  <1>2. ~Before(latest, t)
    BY <1>1, SnapshotFields, OpenAssumption DEF Orderly, Before
  <1> QED
    BY <1>1, <1>2, SnapshotFields DEF Orderly, Disjoint

(* The latest snapshot replaced by one of the same start and state, which  *)
(* may end now.                                                            *)
LEMMA ReplaceLatest ==
    ASSUME NEW snaps \in SUBSET Snapshot, NEW latest \in snaps, NEW new \in Snapshot,
           new.from = latest.from, new.state = latest.state,
           new.to # Open => new.from <= new.to,
           \A t \in snaps \ {latest} : Before(t, latest),
           Orderly(snaps)
    PROVE  Orderly((snaps \ {latest}) \cup {new})
  <1> DEFINE after == (snaps \ {latest}) \cup {new}
  <1>1. \A t \in snaps \ {latest} : Before(t, new) /\ t.from # new.from
    BY DEF Before, Orderly
  <1>2. Disjoint(after)
    BY <1>1 DEF Orderly, Disjoint
  <1>3. \A s, t \in after : s.from = t.from => s = t
    BY <1>1 DEF Orderly
  <1>4. \A s \in after : s.to # Open => s.from <= s.to
    BY DEF Orderly
  <1> QED
    BY <1>2, <1>3, <1>4 DEF Orderly

(* A snapshot that starts where all others have ended.                     *)
LEMMA AddLatest ==
    ASSUME NEW snaps \in SUBSET Snapshot, NEW new \in Snapshot, new.to = Open,
           \A t \in snaps : Before(t, new) /\ t.from # new.from,
           Orderly(snaps)
    PROVE  Orderly(snaps \cup {new})
  <1>1. Disjoint(snaps \cup {new})
    BY DEF Orderly, Disjoint
  <1>2. \A s, t \in snaps \cup {new} : s.from = t.from => s = t
    BY DEF Orderly
  <1>3. \A s \in snaps \cup {new} : s.to # Open => s.from <= s.to
    BY DEF Orderly
  <1> QED
    BY <1>1, <1>2, <1>3 DEF Orderly

(* prune_history only takes snapshots away.                                *)
LEMMA FewerAreOrderly ==
    ASSUME NEW snaps, NEW some \in SUBSET snaps, Orderly(snaps)
    PROVE  Orderly(some)
  BY DEF Orderly, Disjoint

(* Replacing one snapshot keeps a history finite.                          *)
LEMMA ReplacedIsFinite ==
    ASSUME NEW snaps, IsFiniteSet(snaps), NEW old, NEW new
    PROVE  IsFiniteSet((snaps \ {old}) \cup {new})
  <1>1. IsFiniteSet(snaps \ {old})
    BY FS_RemoveElement
  <1> QED
    BY <1>1, FS_AddElement

(* What an observation does to the snapshots.                              *)
LEMMA SnapsAfterObservation ==
    ASSUME NEW h \in History \cup {NoEntity}, IsFiniteSet(Snaps(h)),
           NEW at \in Nat, NEW state \in States, Fits(h, at, state)
    PROVE  LET after == SnapsAfter(Snaps(h), at, state) IN
           /\ after \in SUBSET Snapshot
           /\ IsFiniteSet(after)
           /\ \A s \in Snaps(h) : Covers(after, s)
           /\ Orderly(Snaps(h)) /\ ~Ties(h, at, state) => Orderly(after)
  <1> DEFINE snaps == Snaps(h)
             after == SnapsAfter(snaps, at, state)
             new == NewSnapshot(at, state)
  <1>1. snaps \in SUBSET Snapshot
    BY HistoryFields
  <1>2. /\ new \in Snapshot /\ new.from = at /\ new.to = Open /\ new.state = state
    BY DEF NewSnapshot, Snapshot
  <1>3. CASE snaps = {}
    <2>1. after = {new}
      BY <1>3 DEF SnapsAfter
    <2>2. IsFiniteSet(after)
      <3>1. \A x : IsFiniteSet({x})
        BY FS_Singleton
      <3> QED BY ONLY <2>1, <3>1
    <2>3. Orderly(after)
      BY <2>1, <1>2 DEF Orderly, Disjoint
    <2>4. /\ after \in SUBSET Snapshot
          /\ \A s \in Snaps(h) : Covers(after, s)
      BY <1>2, <1>3, <2>1
    <2> QED
      BY ONLY <2>2, <2>3, <2>4
  <1>4. CASE snaps # {}
    <2> DEFINE latest == LatestOf(snaps)
    <2>1. latest \in snaps /\ \A t \in snaps : t.from <= latest.from
      BY <1>1, <1>4, LatestExists
    <2>2. /\ at >= latest.from
          /\ latest.to # Open => at >= latest.to
          /\ Extends(latest, state) \/ \A s \in snaps : ~(s.from = at /\ s.state = state)
      BY <1>4 DEF Fits
    <2>3. /\ latest \in Snapshot /\ latest.from \in Nat /\ latest.observed \in Nat
          /\ latest.to # Open => latest.to \in Nat
      BY <1>1, <2>1, SnapshotFields
    <2>4. Orderly(snaps) => \A t \in snaps \ {latest} : Before(t, latest)
      BY <1>1, <2>1, OthersAreBefore
    <2> HIDE DEF latest, snaps, new
    <2>5. CASE Extends(latest, state)
      <3> DEFINE longer == [latest EXCEPT !.observed = Later(@, at)]
      <3>1. after = (snaps \ {latest}) \cup {longer}
        BY <1>4, <2>5 DEF SnapsAfter, latest
      <3>2. /\ longer \in Snapshot /\ longer.from = latest.from
            /\ longer.state = latest.state /\ longer.to = Open
        BY <2>3, <2>5 DEF Later, Snapshot, Extends
      <3> HIDE DEF longer
      <3>3. after \in SUBSET Snapshot /\ IsFiniteSet(after)
        BY <1>1, <3>1, <3>2, ReplacedIsFinite DEF snaps
      <3>4. \A s \in snaps : Covers(after, s)
        BY <3>1, <3>2 DEF Covers
      <3>5. Orderly(snaps) => Orderly(after)
        BY <1>1, <2>1, <2>4, <3>1, <3>2, ReplaceLatest
      <3> QED
        BY <3>3, <3>4, <3>5 DEF snaps
    <2>6. CASE ~Extends(latest, state) /\ latest.to = Open
      <3> DEFINE closed == [latest EXCEPT !.to = at]
                 before == (snaps \ {latest}) \cup {closed}
      <3>1. after = before \cup {new}
        BY <1>4, <2>6 DEF SnapsAfter, CloseAt, latest, new
      <3>2. /\ closed \in Snapshot /\ closed.from = latest.from
            /\ closed.state = latest.state /\ closed.to = at
        BY <2>3 DEF Snapshot
      <3> HIDE DEF closed
      <3>3. before \in SUBSET Snapshot /\ IsFiniteSet(before)
        BY <1>1, <3>2, ReplacedIsFinite DEF snaps
      <3>4. after \in SUBSET Snapshot /\ IsFiniteSet(after)
        BY <1>2, <3>1, <3>3, FS_AddElement
      <3>5. \A s \in snaps : Covers(after, s)
        BY <3>1, <3>2 DEF Covers
      <3>6. ASSUME Orderly(snaps), ~Ties(h, at, state) PROVE Orderly(after)
        <4>1. Orderly(before)
          BY <1>1, <2>1, <2>2, <2>4, <3>2, <3>6, ReplaceLatest
        <4>2. \A s \in snaps : s.from # at
          BY <2>2, <2>6, <3>6 DEF Ties, snaps
        <4>3. \A t \in snaps \ {latest} : Before(t, new)
          BY <1>1, <1>2, <2>2, <2>3, <2>4, <3>6, SnapshotFields DEF Before
        <4>4. at # Open
          BY OpenAssumption
        <4>5. \A t \in before : Before(t, new) /\ t.from # new.from
          BY <1>2, <2>1, <3>2, <4>2, <4>3, <4>4 DEF Before
        <4> QED
          BY <1>2, <3>1, <3>3, <4>1, <4>5, AddLatest
      <3> QED
        BY <3>4, <3>5, <3>6 DEF snaps
    <2>7. CASE latest.to # Open
      <3>1. after = snaps \cup {new}
        BY <1>4, <2>7 DEF SnapsAfter, Extends, latest, new
      <3>2. after \in SUBSET Snapshot /\ IsFiniteSet(after)
        BY <1>1, <1>2, <3>1, FS_AddElement DEF snaps
      <3>3. \A s \in snaps : Covers(after, s)
        BY <3>1 DEF Covers
      <3>4. ASSUME Orderly(snaps), ~Ties(h, at, state) PROVE Orderly(after)
        <4>1. \A s \in snaps : s.from # at
          BY <2>2, <2>7, <3>4 DEF Ties, snaps, Extends
        <4>2. \A t \in snaps \ {latest} : Before(t, new)
          BY <1>1, <1>2, <2>2, <2>3, <2>4, <3>4, SnapshotFields DEF Before
        <4>3. Before(latest, new)
          BY <1>2, <2>2, <2>7 DEF Before
        <4> QED
          BY <1>1, <1>2, <3>1, <3>4, <4>1, <4>2, <4>3, AddLatest
      <3> QED
        BY <3>2, <3>3, <3>4 DEF snaps
    <2> QED
      BY <2>5, <2>6, <2>7
  <1> QED
    BY <1>3, <1>4

(* Nothing is forgotten, and what an untied Entity has stays orderly.      *)
Continues(h, new) ==
    /\ new \in History
    /\ IsFiniteSet(Snaps(new))
    /\ \A s \in Snaps(h) : s.to # Open => Covers(Snaps(new), s)

(* _upsert_entity_tx and _upsert_snapshot_tx on one Entity.                *)
LEMMA ObservedContinues ==
    ASSUME NEW h \in History \cup {NoEntity}, IsFiniteSet(Snaps(h)),
           NEW at \in Nat, NEW state \in States, Fits(h, at, state)
    PROVE  /\ Continues(h, Observed(h, at, state))
           /\ Orderly(Snaps(h)) /\ ~Ties(h, at, state)
                 => Orderly(Snaps(Observed(h, at, state)))
  <1> DEFINE after == SnapsAfter(Snaps(h), at, state)
             new == Observed(h, at, state)
  <1>1. /\ after \in SUBSET Snapshot
        /\ IsFiniteSet(after)
        /\ \A s \in Snaps(h) : Covers(after, s)
        /\ Orderly(Snaps(h)) /\ ~Ties(h, at, state) => Orderly(after)
    BY SnapsAfterObservation
  <1>2. new \in History /\ new.snaps = after
    <2>1. CASE h = NoEntity
      <3>1. after = {NewSnapshot(at, state)}
        BY <2>1 DEF SnapsAfter, Snaps
      <3> QED
        BY <1>1, <2>1, <3>1 DEF Observed, History
    <2>2. CASE h # NoEntity
      <3>1. h \in History /\ h.exists \in BOOLEAN /\ h.first \in Nat /\ h.last \in Nat
            /\ Snaps(h) = h.snaps
        BY <2>2, HistoryFields
      <3>2. (at >= h.last \/ h.exists) \in BOOLEAN
        BY <3>1
      <3>3. Earlier(h.first, at) \in Nat /\ Later(h.last, at) \in Nat
        BY <3>1 DEF Earlier, Later
      <3>4. new = [exists |-> at >= h.last \/ h.exists, first |-> Earlier(h.first, at),
                   last |-> Later(h.last, at), snaps |-> after]
        BY <2>2, <3>1 DEF Observed
      <3> HIDE DEF after, new
      <3> QED
        BY <1>1, <3>2, <3>3, <3>4 DEF History
    <2> QED
      BY <2>1, <2>2
  <1>3. Snaps(new) = after
    BY <1>2, NoEntityAssumption DEF Snaps
  <1> QED
    BY <1>1, <1>2, <1>3 DEF Continues

(* _reconcile_projection_tx on one Entity it does not find.                *)
LEMMA RetiredContinues ==
    ASSUME NEW h \in History \cup {NoEntity}, IsFiniteSet(Snaps(h)),
           NEW at \in Nat, Retirable(h, at)
    PROVE  /\ h # NoEntity => Continues(h, Retired(h, at))
           /\ h = NoEntity => Retired(h, at) = NoEntity
           /\ Orderly(Snaps(h)) => Orderly(Snaps(Retired(h, at)))
  <1>1. CASE h = NoEntity
    BY <1>1 DEF Retired
  <1>2. CASE h # NoEntity
    <2> DEFINE snaps == h.snaps
               closing == LatestOf(OpenSnaps(h))
               closed == [closing EXCEPT !.to = at, !.observed = at]
               after == IF OpenSnaps(h) = {} THEN snaps
                        ELSE (snaps \ {closing}) \cup {closed}
               new == Retired(h, at)
    <2>1. /\ h \in History /\ h.exists \in BOOLEAN /\ h.last \in Nat
          /\ Snaps(h) = snaps /\ snaps \in SUBSET Snapshot
      BY <1>2, HistoryFields
    <2>2. OpenSnaps(h) \in SUBSET snaps /\ IsFiniteSet(OpenSnaps(h))
      BY <2>1, FS_Subset DEF OpenSnaps
    <2>3. OpenSnaps(h) # {} =>
              /\ closing \in snaps /\ closing.to = Open
              /\ at >= closing.from
      BY <1>2, <2>1, <2>2, LatestExists DEF Retirable, OpenSnaps
    <2>4. OpenSnaps(h) # {} =>
              /\ closed \in Snapshot /\ closed.from = closing.from
              /\ closed.state = closing.state /\ closed.to = at
      <3> HIDE DEF closing
      <3> QED
        BY <2>1, <2>3 DEF Snapshot
    <2>5. /\ new.snaps = after
          /\ new = [h EXCEPT !.exists = FALSE, !.last = IF h.exists THEN at ELSE h.last,
                             !.snaps = after]
      BY <1>2, <2>1 DEF Retired, RetireAt, History
    <2> HIDE DEF closed
    <2>6. after \in SUBSET Snapshot /\ IsFiniteSet(after)
      BY <2>1, <2>4, ReplacedIsFinite
    <2>7. \A s \in snaps : s.to # Open => Covers(after, s)
      BY <2>3 DEF Covers
    <2>8. Orderly(snaps) => Orderly(after)
      <3> SUFFICES ASSUME Orderly(snaps), OpenSnaps(h) # {}
                   PROVE  Orderly(after)
        OBVIOUS
      <3>1. \A t \in snaps \ {closing} : Before(t, closing)
        BY <2>3 DEF Orderly, Disjoint, Before
      <3> HIDE DEF closing
      <3> QED
        BY <2>1, <2>3, <2>4, <3>1, ReplaceLatest
    <2> HIDE DEF after, new, closing
    <2>9. new \in History
      BY <2>1, <2>5, <2>6 DEF History
    <2>10. Snaps(new) = after
      BY <2>5, <2>9, NoEntityAssumption DEF Snaps
    <2> QED
      BY <1>2, <2>1, <2>6, <2>7, <2>8, <2>9, <2>10 DEF Continues, new
  <1> QED
    BY <1>1, <1>2

(* prune_history on one Entity.                                            *)
LEMMA PrunedIsKept ==
    ASSUME NEW e \in Entities, graph[e] \in History, IsFiniteSet(Snaps(graph[e])),
           NEW at
    PROVE  LET new == PrunedHistory(e, at) IN
           /\ new \in History \cup {NoEntity}
           /\ IsFiniteSet(Snaps(new))
           /\ Orderly(Snaps(graph[e])) => Orderly(Snaps(new))
           /\ \A s \in Snaps(graph[e]) : Protected(e, s, at) => s \in Snaps(new)
  <1> DEFINE kept == {s \in graph[e].snaps : ~Prunable(e, s, at)}
             new == PrunedHistory(e, at)
             shorter == [graph[e] EXCEPT !.snaps = kept]
  <1>1. graph[e] # NoEntity /\ Snaps(graph[e]) = graph[e].snaps
    BY NoEntityAssumption DEF Snaps
  <1>2. kept \in SUBSET Snaps(graph[e]) /\ IsFiniteSet(kept)
    BY <1>1, FS_Subset
  <1>3. \A s \in Snaps(graph[e]) : Protected(e, s, at) => s \in kept
    BY <1>1 DEF Prunable
  <1>4. (new = NoEntity /\ kept = {}) \/ new = shorter
    BY DEF PrunedHistory
  <1> HIDE DEF kept, new
  <1>5. shorter \in History /\ shorter.snaps = kept
    BY <1>1, <1>2, HistoryFields DEF History
  <1>6. Snaps(new) = kept /\ new \in History \cup {NoEntity}
    BY <1>4, <1>5, NoEntityAssumption DEF Snaps
  <1>7. Orderly(Snaps(graph[e])) => Orderly(kept)
    BY <1>2, FewerAreOrderly
  <1> QED
    BY <1>2, <1>3, <1>6, <1>7 DEF new

-----------------------------------------------------------------------------
(* The inductive invariant                                                 *)

HistoriesAreFinite == \A e \in Entities : IsFiniteSet(Snaps(graph[e]))
UntiedAreOrderly == \A e \in Entities \ tied : Orderly(Snaps(graph[e]))

GraphInv == GraphTypeOK /\ HistoriesAreFinite /\ UntiedAreOrderly

(* A job is about to mark only what the graph has got, and is not of the   *)
(* future: it prunes nothing that a pin protects now.                      *)
JobsAreBacked ==
    \A j \in Jobs : /\ job[j].phase = "mark" => job[j].slot \in reconciled
                    /\ job[j].at <= now

JobInv == JournalTypeOK /\ JobsAreBacked /\ AppliedIsReconciled

EvidenceTypeOK == evidence \in [Incidents -> Evidence \cup {NoEvidence}]

WritersInv == GraphInv /\ JobInv /\ EvidenceTypeOK

-----------------------------------------------------------------------------
(* Transactions on the graph                                               *)

(* No closed snapshot is lost.                                             *)
ClosedIsKept ==
    \A e \in Entities : \A s \in Snaps(graph[e]) :
        s.to # Open => Covers(Snaps(graph'[e]), s)

(* ingest keeps the graph consistent.                                      *)
LEMMA IngestKeeps ==
    ASSUME GraphInv, NEW seen \in Seen, NEW at \in Nat, Ingest(seen, at)
    PROVE  GraphInv' /\ ClosedIsKept /\ UNCHANGED pins
  <1>1. /\ graph \in [Entities -> History \cup {NoEntity}]
        /\ \A e \in Entities : IsFiniteSet(Snaps(graph[e]))
    BY DEF GraphInv, GraphTypeOK, HistoriesAreFinite
  <1>2. \A e \in Entities : graph'[e] = IF seen[e] = Gone THEN graph[e]
                                        ELSE Observed(graph[e], at, seen[e])
    BY DEF Ingest
  <1>3. \A e \in Entities : seen[e] # Gone => seen[e] \in States /\ Fits(graph[e], at, seen[e])
    BY DEF Ingest, Accepts, Seen
  <1>4. \A e \in Entities : seen[e] # Gone =>
            /\ Continues(graph[e], graph'[e])
            /\ Orderly(Snaps(graph[e])) /\ ~Ties(graph[e], at, seen[e])
                  => Orderly(Snaps(graph'[e]))
    BY <1>1, <1>2, <1>3, ObservedContinues
  <1>5. \A e \in Entities : seen[e] = Gone => graph'[e] = graph[e]
    BY <1>2
  <1>6. tied' = tied \cup {e \in Entities : seen[e] # Gone /\ Ties(graph[e], at, seen[e])}
    BY DEF Ingest, RecordTies
  <1>7. \A e \in Entities \ tied' : Orderly(Snaps(graph'[e]))
    BY <1>4, <1>5, <1>6 DEF GraphInv, UntiedAreOrderly
  <1>8. \A e \in Entities : /\ graph'[e] \in History \cup {NoEntity}
                            /\ IsFiniteSet(Snaps(graph'[e]))
    BY <1>1, <1>4, <1>5 DEF Continues
  <1>9. graph' \in [Entities -> History \cup {NoEntity}]
    <2>1. graph' = [e \in Entities |-> graph'[e]]
      BY DEF Ingest
    <2> QED
      BY <1>8, <2>1
  <1>10. GraphTypeOK'
    BY <1>6, <1>9 DEF GraphInv, GraphTypeOK, Ingest
  <1>11. ClosedIsKept
    BY <1>4, <1>5 DEF ClosedIsKept, Continues, Covers
  <1> QED
    BY <1>7, <1>8, <1>10, <1>11 DEF GraphInv, HistoriesAreFinite, UntiedAreOrderly, Ingest

(* reconcile_projection keeps the graph consistent.                        *)
LEMMA ReconcileKeeps ==
    ASSUME GraphInv, NEW seen \in Seen, NEW slot \in Nat, NEW at \in Nat,
           ReconcileProjection(seen, slot, at)
    PROVE  GraphInv' /\ ClosedIsKept /\ UNCHANGED pins
  <1>1. /\ graph \in [Entities -> History \cup {NoEntity}]
        /\ \A e \in Entities : IsFiniteSet(Snaps(graph[e]))
    BY DEF GraphInv, GraphTypeOK, HistoriesAreFinite
  <1>2. \A e \in Entities : graph'[e] = IF seen[e] = Gone THEN Retired(graph[e], at)
                                        ELSE Observed(graph[e], slot, seen[e])
    BY DEF ReconcileProjection, ReconciledGraph
  <1>3. \A e \in Entities : seen[e] # Gone =>
            seen[e] \in States /\ Fits(graph[e], slot, seen[e])
    BY DEF ReconcileProjection, Reconcilable, Seen
  <1>4. \A e \in Entities : seen[e] # Gone =>
            /\ Continues(graph[e], graph'[e])
            /\ Orderly(Snaps(graph[e])) /\ ~Ties(graph[e], slot, seen[e])
                  => Orderly(Snaps(graph'[e]))
    BY <1>1, <1>2, <1>3, ObservedContinues
  <1>5. \A e \in Entities : seen[e] = Gone => Retirable(graph[e], at)
    BY DEF ReconcileProjection, Reconcilable
  <1>6. \A e \in Entities : seen[e] = Gone =>
            /\ graph[e] # NoEntity => Continues(graph[e], graph'[e])
            /\ graph[e] = NoEntity => graph'[e] = NoEntity
            /\ Orderly(Snaps(graph[e])) => Orderly(Snaps(graph'[e]))
    BY <1>1, <1>2, <1>5, RetiredContinues
  <1>7. tied' = tied \cup {e \in Entities : seen[e] # Gone /\ Ties(graph[e], slot, seen[e])}
    BY DEF ReconcileProjection, RecordTies
  <1>8. \A e \in Entities \ tied' : Orderly(Snaps(graph'[e]))
    BY <1>4, <1>6, <1>7 DEF GraphInv, UntiedAreOrderly
  <1>9. \A e \in Entities : /\ graph'[e] \in History \cup {NoEntity}
                            /\ IsFiniteSet(Snaps(graph'[e]))
    BY <1>1, <1>4, <1>6 DEF Continues
  <1>10. graph' \in [Entities -> History \cup {NoEntity}]
    <2>1. graph' = [e \in Entities |-> graph'[e]]
      BY DEF ReconcileProjection, ReconciledGraph
    <2> QED
      BY <1>9, <2>1
  <1>11. GraphTypeOK'
    BY <1>7, <1>10 DEF GraphInv, GraphTypeOK, ReconcileProjection
  <1>12. ClosedIsKept
    BY <1>4, <1>6 DEF ClosedIsKept, Continues, Snaps
  <1> QED
    BY <1>8, <1>9, <1>11, <1>12
    DEF GraphInv, HistoriesAreFinite, UntiedAreOrderly, ReconcileProjection

(* pin_incident_history only ever adds to the pin of an Incident.          *)
LEMMA PinKeeps ==
    ASSUME GraphInv, NEW i \in Incidents, NEW ids \in SUBSET Entities,
           NEW from \in Nat, NEW to \in Nat, NEW at \in Nat,
           PinIncidentHistory(i, ids, from, to, at)
    PROVE  /\ GraphInv'
           /\ \A k \in Incidents : pins[k] # NoPin =>
                 /\ pins'[k] # NoPin
                 /\ pins'[k].expires >= pins[k].expires
                 /\ pins[k].entities \subseteq pins'[k].entities
  <1>1. pins \in [Incidents -> Pin \cup {NoPin}]
    BY DEF GraphInv, GraphTypeOK
  <1>2. PinnedHistory \in Nat
    BY RetentionAssumption
  <1> DEFINE new == IF pins[i] = NoPin
                    THEN [from |-> from, to |-> to, entities |-> ids,
                          expires |-> at + PinnedHistory]
                    ELSE [from |-> Earlier(pins[i].from, from),
                          to |-> Later(pins[i].to, to),
                          entities |-> pins[i].entities \cup ids,
                          expires |-> Later(pins[i].expires, at + PinnedHistory)]
  <1>3. pins' = [pins EXCEPT ![i] = new]
    BY DEF PinIncidentHistory, WidenPin
  <1>4. /\ new \in Pin
        /\ pins[i] # NoPin => /\ new.expires >= pins[i].expires
                              /\ pins[i].entities \subseteq new.entities
    <2>1. CASE pins[i] = NoPin
      BY <1>2, <2>1 DEF Pin
    <2>2. CASE pins[i] # NoPin
      <3>1. /\ pins[i].from \in Nat /\ pins[i].to \in Nat /\ pins[i].expires \in Nat
            /\ pins[i].entities \in SUBSET Entities
        BY <1>1, <2>2 DEF Pin
      <3>2. /\ Earlier(pins[i].from, from) \in Nat
            /\ Later(pins[i].to, to) \in Nat
            /\ Later(pins[i].expires, at + PinnedHistory) \in Nat
            /\ Later(pins[i].expires, at + PinnedHistory) >= pins[i].expires
        BY <1>2, <3>1 DEF Earlier, Later
      <3>3. new = [from |-> Earlier(pins[i].from, from),
                   to |-> Later(pins[i].to, to),
                   entities |-> pins[i].entities \cup ids,
                   expires |-> Later(pins[i].expires, at + PinnedHistory)]
        BY <2>2
      <3> HIDE DEF new
      <3> QED
        BY <3>1, <3>2, <3>3 DEF Pin
    <2> QED
      BY <2>1, <2>2
  <1> HIDE DEF new
  <1>5. new # NoPin
    BY <1>4, NoPinAssumption
  <1>6. \A k \in Incidents : pins'[k] = IF k = i THEN new ELSE pins[k]
    BY <1>1, <1>3
  <1>7. pins' \in [Incidents -> Pin \cup {NoPin}]
    BY <1>1, <1>3, <1>4
  <1>8. GraphInv'
    BY <1>7 DEF GraphInv, GraphTypeOK, HistoriesAreFinite, UntiedAreOrderly, PinIncidentHistory
  <1>9. ASSUME NEW k \in Incidents, pins[k] # NoPin
        PROVE  /\ pins'[k] # NoPin
               /\ pins'[k].expires >= pins[k].expires
               /\ pins[k].entities \subseteq pins'[k].entities
    <2>1. CASE k = i
      BY <1>4, <1>5, <1>6, <1>9, <2>1
    <2>2. CASE k # i
      BY <1>1, <1>6, <1>9, <2>2 DEF Pin
    <2> QED
      BY <2>1, <2>2
  <1> QED
    BY <1>8, <1>9

(* prune_history keeps what is pinned at its time.                         *)
LEMMA PruneKeeps ==
    ASSUME GraphInv, NEW at \in Nat, PruneHistory(at)
    PROVE  /\ GraphInv'
           /\ \A i \in Incidents : pins[i] # NoPin /\ at < pins[i].expires =>
                 /\ pins'[i] = pins[i]
                 /\ \A e \in pins[i].entities : \A s \in Snaps(graph[e]) :
                       s.to # Open /\ Overlaps(pins[i], s) => s \in Snaps(graph'[e])
  <1>1. /\ graph \in [Entities -> History \cup {NoEntity}]
        /\ \A e \in Entities : IsFiniteSet(Snaps(graph[e]))
        /\ pins \in [Incidents -> Pin \cup {NoPin}]
    BY DEF GraphInv, GraphTypeOK, HistoriesAreFinite
  <1>2. \A e \in Entities : graph'[e] = IF Known(e) THEN PrunedHistory(e, at) ELSE NoEntity
    BY DEF PruneHistory
  <1>3. \A e \in Entities : Known(e) =>
            /\ graph'[e] \in History \cup {NoEntity}
            /\ IsFiniteSet(Snaps(graph'[e]))
            /\ Orderly(Snaps(graph[e])) => Orderly(Snaps(graph'[e]))
            /\ \A s \in Snaps(graph[e]) : Protected(e, s, at) => s \in Snaps(graph'[e])
    BY <1>1, <1>2, PrunedIsKept DEF Known
  <1>4. \A e \in Entities : ~Known(e) => graph'[e] = graph[e]
    BY <1>2 DEF Known
  <1>5. graph' \in [Entities -> History \cup {NoEntity}]
    <2>1. graph' = [e \in Entities |-> graph'[e]]
      BY DEF PruneHistory
    <2> QED
      BY <1>1, <1>3, <1>4, <2>1
  <1>6. pins' \in [Incidents -> Pin \cup {NoPin}]
    BY <1>1 DEF PruneHistory
  <1>7. HistoriesAreFinite' /\ UntiedAreOrderly'
    BY <1>1, <1>3, <1>4 DEF GraphInv, HistoriesAreFinite, UntiedAreOrderly, PruneHistory
  <1>8. GraphInv'
    BY <1>5, <1>6, <1>7 DEF GraphInv, GraphTypeOK, PruneHistory
  <1>9. ASSUME NEW i \in Incidents, pins[i] # NoPin, at < pins[i].expires
        PROVE  /\ pins'[i] = pins[i]
               /\ \A e \in pins[i].entities : \A s \in Snaps(graph[e]) :
                     s.to # Open /\ Overlaps(pins[i], s) => s \in Snaps(graph'[e])
    <2>1. pins[i] \in Pin /\ pins[i].expires \in Nat /\ pins[i].entities \subseteq Entities
      BY <1>1, <1>9 DEF Pin
    <2>2. pins'[i] = pins[i]
      BY <1>9, <2>1 DEF PruneHistory, Expired
    <2>3. ASSUME NEW e \in pins[i].entities, NEW s \in Snaps(graph[e]), Overlaps(pins[i], s)
          PROVE  s \in Snaps(graph'[e])
      <3>1. e \in Entities /\ Known(e)
        BY <2>1, <2>3 DEF Known, Snaps
      <3>2. Protected(e, s, at)
        BY <1>9, <2>1, <2>3 DEF Protected
      <3> QED
        BY <1>3, <3>1, <3>2
    <2> QED
      BY <2>2, <2>3
  <1> QED
    BY <1>8, <1>9

-----------------------------------------------------------------------------
(* The same transaction twice                                              *)

(* The open snapshot of an orderly history is the latest one.              *)
LEMMA OpenIsLatest ==
    ASSUME NEW snaps \in SUBSET Snapshot, IsFiniteSet(snaps), Orderly(snaps),
           NEW m \in snaps, m.to = Open
    PROVE  LatestOf(snaps) = m
  <1>1. \A t \in snaps \ {m} : t.from < m.from
    <2> SUFFICES ASSUME NEW t \in snaps, t # m PROVE t.from < m.from
      OBVIOUS
    <2>1. Before(t, m)
      BY DEF Orderly, Disjoint, Before
    <2> QED
      BY <2>1, SnapshotFields DEF Before, Orderly
  <1>2. /\ LatestOf(snaps) \in snaps
        /\ m.from <= LatestOf(snaps).from
    BY LatestExists
  <1> QED
    BY <1>1, <1>2, SnapshotFields

(* What an observation leaves is open, in its state, and seen by then.     *)
LEMMA CurrentAfterObservation ==
    ASSUME NEW h \in History \cup {NoEntity}, IsFiniteSet(Snaps(h)),
           NEW at \in Nat, NEW state \in States, Fits(h, at, state)
    PROVE  \E m \in SnapsAfter(Snaps(h), at, state) :
               m.to = Open /\ m.state = state /\ m.from <= at /\ m.observed >= at
  <1> DEFINE snaps == Snaps(h)
             latest == LatestOf(snaps)
             after == SnapsAfter(snaps, at, state)
             new == NewSnapshot(at, state)
  <1>1. snaps \in SUBSET Snapshot
    BY HistoryFields
  <1>2. new.from = at /\ new.to = Open /\ new.state = state /\ new.observed = at
    BY DEF NewSnapshot
  <1>3. CASE snaps # {} /\ Extends(latest, state)
    <2>1. latest \in Snapshot /\ latest.observed \in Nat /\ at >= latest.from
      BY <1>1, <1>3, LatestExists, SnapshotFields DEF Fits
    <2> DEFINE longer == [latest EXCEPT !.observed = Later(latest.observed, at)]
    <2>2. longer \in after
      BY <1>3 DEF SnapsAfter
    <2> HIDE DEF latest
    <2>3. /\ longer.to = Open /\ longer.state = state /\ longer.from <= at
          /\ longer.observed >= at
      BY <1>3, <2>1 DEF Later, Snapshot, Extends
    <2> QED
      BY <2>2, <2>3
  <1>4. CASE snaps = {} \/ ~Extends(latest, state)
    <2>1. new \in after
      BY <1>4 DEF SnapsAfter
    <2> QED
      BY <1>2, <2>1
  <1> QED
    BY <1>3, <1>4

(* Observing the same again is accepted and changes nothing.               *)
LEMMA ObservedTwice ==
    ASSUME NEW h \in History \cup {NoEntity}, IsFiniteSet(Snaps(h)),
           NEW at \in Nat, NEW state \in States, Fits(h, at, state),
           Orderly(Snaps(h)), ~Ties(h, at, state)
    PROVE  LET once == Observed(h, at, state) IN
           Fits(once, at, state) /\ Observed(once, at, state) = once
  <1> DEFINE once == Observed(h, at, state)
             after == SnapsAfter(Snaps(h), at, state)
  <1>1. /\ once \in History /\ IsFiniteSet(Snaps(once)) /\ Orderly(Snaps(once))
        /\ once # NoEntity
        /\ Snaps(once) = once.snaps /\ once.snaps \in SUBSET Snapshot
        /\ once.first \in Nat /\ once.last \in Nat /\ once.exists \in BOOLEAN
    <2>1. once \in History /\ IsFiniteSet(Snaps(once)) /\ Orderly(Snaps(once))
      BY ObservedContinues DEF Continues
    <2> HIDE DEF once
    <2>2. once # NoEntity
      BY <2>1, NoEntityAssumption
    <2> QED
      BY <2>1, <2>2, HistoryFields
  <1>2. /\ once.snaps = after
        /\ once.first <= at /\ once.last >= at
        /\ at >= once.last => once.exists
    <2>1. CASE h = NoEntity
      <3>1. after = {NewSnapshot(at, state)}
        BY <2>1 DEF SnapsAfter, Snaps
      <3> QED
        BY <2>1, <3>1 DEF Observed
    <2>2. CASE h # NoEntity
      <3>1. h.first \in Nat /\ h.last \in Nat /\ Snaps(h) = h.snaps
        BY <2>2, HistoryFields
      <3>2. once = [exists |-> at >= h.last \/ h.exists, first |-> Earlier(h.first, at),
                    last |-> Later(h.last, at), snaps |-> after]
        BY <2>2, <3>1 DEF Observed
      <3>3. once.snaps = after /\ once.first = Earlier(h.first, at)
            /\ once.last = Later(h.last, at)
        BY <3>2
      <3>4. ASSUME at >= h.last PROVE once.exists
        <4>1. (at >= h.last \/ h.exists) = TRUE
          BY <3>4
        <4>2. once = [exists |-> TRUE, first |-> Earlier(h.first, at),
                      last |-> Later(h.last, at), snaps |-> after]
          BY <3>2, <4>1
        <4> HIDE DEF once
        <4> QED
          BY <4>2
      <3>5. at >= once.last => at >= h.last
        BY <3>1, <3>3 DEF Later
      <3> QED
        BY <3>1, <3>3, <3>4, <3>5 DEF Earlier, Later
    <2> QED
      BY <2>1, <2>2
  <1>3. PICK m \in after : m.to = Open /\ m.state = state /\ m.from <= at /\ m.observed >= at
    BY CurrentAfterObservation
  <1> HIDE DEF once, after
  <1>4. m = LatestOf(Snaps(once))
    BY <1>1, <1>2, <1>3, OpenIsLatest
  <1>5. m \in Snapshot /\ m.from \in Nat /\ m.observed \in Nat
    BY <1>1, <1>2, <1>3, SnapshotFields
  <1>6. Fits(once, at, state)
    BY <1>3, <1>4, <1>5 DEF Fits, Extends
  <1>7. SnapsAfter(once.snaps, at, state) = once.snaps
    <2>1. Later(m.observed, at) = m.observed
      BY <1>3, <1>5 DEF Later
    <2>2. [m EXCEPT !.observed = Later(m.observed, at)] = m
      BY <1>5, <2>1 DEF Snapshot
    <2>3. SnapsAfter(once.snaps, at, state)
              = (once.snaps \ {m}) \cup {[m EXCEPT !.observed = Later(m.observed, at)]}
      BY <1>1, <1>2, <1>3, <1>4 DEF SnapsAfter, Extends
    <2> QED
      BY <1>2, <2>2, <2>3
  <1>8. Observed(once, at, state) =
            [exists |-> at >= once.last \/ once.exists, first |-> Earlier(once.first, at),
             last |-> Later(once.last, at), snaps |-> SnapsAfter(once.snaps, at, state)]
    BY <1>1 DEF Observed
  <1>9. (at >= once.last \/ once.exists) = once.exists
    BY <1>1, <1>2
  <1>10. Earlier(once.first, at) = once.first /\ Later(once.last, at) = once.last
    BY <1>1, <1>2 DEF Earlier, Later
  <1>11. Observed(once, at, state) = once
    BY <1>1, <1>7, <1>8, <1>9, <1>10 DEF History
  <1> QED
    BY <1>6, <1>11 DEF once

(* Retiring again is accepted and changes nothing.                         *)
LEMMA RetiredTwice ==
    ASSUME NEW h \in History \cup {NoEntity}, IsFiniteSet(Snaps(h)),
           NEW at \in Nat, Retirable(h, at), Orderly(Snaps(h))
    PROVE  LET once == Retired(h, at) IN
           Retirable(once, at) /\ Retired(once, at) = once
  <1>1. CASE h = NoEntity
    BY <1>1 DEF Retired, Retirable
  <1>2. CASE h # NoEntity
    <2> DEFINE once == Retired(h, at)
               closing == LatestOf(OpenSnaps(h))
    <2>1. /\ once \in History /\ once # NoEntity /\ Snaps(once) = once.snaps
          /\ h \in History /\ h.last \in Nat /\ Snaps(h) = h.snaps
          /\ h.snaps \in SUBSET Snapshot
      BY <1>2, RetiredContinues, HistoryFields, NoEntityAssumption DEF Continues
    <2>2. once.exists = FALSE /\ once.last = IF h.exists THEN at ELSE h.last
      BY <1>2, <2>1 DEF Retired, History
    <2>3. at >= once.last
      BY <1>2, <2>1, <2>2 DEF Retirable
    <2>4. OpenSnaps(once) = {}
      <3>1. CASE OpenSnaps(h) = {}
        <4>1. once.snaps = h.snaps
          BY <1>2, <2>1, <3>1 DEF Retired, History
        <4> QED
          BY <2>1, <3>1, <4>1 DEF OpenSnaps
      <3>2. CASE OpenSnaps(h) # {}
        <4>1. OpenSnaps(h) \in SUBSET h.snaps /\ IsFiniteSet(OpenSnaps(h))
          BY <2>1, FS_Subset DEF OpenSnaps
        <4>2. closing \in OpenSnaps(h) /\ closing \in h.snaps /\ closing.to = Open
          BY <2>1, <3>2, <4>1, LatestExists DEF OpenSnaps
        <4>3. once.snaps = (h.snaps \ {closing})
                              \cup {[closing EXCEPT !.to = at, !.observed = at]}
          BY <1>2, <2>1, <3>2 DEF Retired, RetireAt, History
        <4> HIDE DEF closing, once
        <4>4. \A s \in h.snaps \ {closing} : s.to # Open
          BY <2>1, <4>2 DEF Orderly, Disjoint, Before
        <4>5. [closing EXCEPT !.to = at, !.observed = at].to # Open
          BY <2>1, <4>2, OpenAssumption DEF Snapshot
        <4> QED
          BY <2>1, <4>3, <4>4, <4>5 DEF OpenSnaps
      <3> QED
        BY <3>1, <3>2
    <2> HIDE DEF once, closing
    <2>5. Retirable(once, at)
      BY <2>3, <2>4 DEF Retirable
    <2>6. Retired(once, at) = [once EXCEPT !.exists = FALSE, !.last = once.last,
                                           !.snaps = once.snaps]
      BY <2>1, <2>2, <2>4 DEF Retired
    <2>7. Retired(once, at) = once
      BY <2>1, <2>2, <2>6 DEF History
    <2> QED
      BY <2>5, <2>7 DEF once
  <1> QED
    BY <1>1, <1>2

(* A reconciliation applied twice is one applied once.                     *)
LEMMA ReconciledTwice ==
    ASSUME GraphInv, NEW seen \in Seen, NEW slot \in Nat, NEW at \in Nat,
           Reconcilable(graph, seen, slot, at), tied = {},
           \A e \in Entities : seen[e] # Gone => ~Ties(graph[e], slot, seen[e])
    PROVE  LET once == ReconciledGraph(graph, seen, slot, at) IN
           /\ Reconcilable(once, seen, slot, at)
           /\ ReconciledGraph(once, seen, slot, at) = once
  <1> DEFINE once == ReconciledGraph(graph, seen, slot, at)
  <1>1. \A e \in Entities : /\ graph[e] \in History \cup {NoEntity}
                            /\ IsFiniteSet(Snaps(graph[e]))
                            /\ Orderly(Snaps(graph[e]))
    BY DEF GraphInv, GraphTypeOK, HistoriesAreFinite, UntiedAreOrderly
  <1>2. \A e \in Entities : once[e] = IF seen[e] = Gone THEN Retired(graph[e], at)
                                      ELSE Observed(graph[e], slot, seen[e])
    BY DEF ReconciledGraph
  <1>3. ASSUME NEW e \in Entities, seen[e] = Gone
        PROVE  Retirable(once[e], at) /\ Retired(once[e], at) = once[e]
    BY <1>1, <1>2, <1>3, RetiredTwice DEF Reconcilable
  <1>4. ASSUME NEW e \in Entities, seen[e] # Gone
        PROVE  /\ Fits(once[e], slot, seen[e])
               /\ Observed(once[e], slot, seen[e]) = once[e]
    <2>1. seen[e] \in States /\ Fits(graph[e], slot, seen[e])
      BY <1>4 DEF Seen, Reconcilable
    <2> QED
      BY <1>1, <1>2, <1>4, <2>1, ObservedTwice
  <1>5. Reconcilable(once, seen, slot, at)
    BY <1>3, <1>4 DEF Reconcilable
  <1>6. ReconciledGraph(once, seen, slot, at) = once
    BY <1>3, <1>4 DEF ReconciledGraph
  <1> QED
    BY <1>5, <1>6

-----------------------------------------------------------------------------
(* Jobs                                                                    *)

(* scheduled_observation_time rounds down to a time.                       *)
LEMMA SlotsAreTimes == now \in Nat => SlotOf(now) \in Nat
  BY JournalAssumption DEF SlotOf

(* What a step of a job may make of its run.                               *)
LEMMA RunReplaced ==
    ASSUME JobInv, NEW j \in Jobs, NEW run \in Run,
           job' = [job EXCEPT ![j] = run],
           run.phase = "mark" => run.slot \in reconciled',
           run.at <= now,
           reconciled \subseteq reconciled', reconciled' \in SUBSET Nat, UNCHANGED now
    PROVE  job' \in [Jobs -> Run] /\ JobsAreBacked'
  BY DEF JobInv, JournalTypeOK, JobsAreBacked

(* A step that leaves the journal and the graph's slots alone.             *)
LEMMA OnlyTheRun ==
    ASSUME JobInv, NEW j \in Jobs, NEW run \in Run,
           job' = [job EXCEPT ![j] = run],
           run.phase = "mark" => run.slot \in reconciled,
           run.at <= now,
           UNCHANGED <<now, journal, reconciled>>
    PROVE  JobInv'
  <1>1. job' \in [Jobs -> Run] /\ JobsAreBacked'
    BY RunReplaced DEF JobInv, JournalTypeOK
  <1> QED
    BY <1>1 DEF JobInv, JournalTypeOK, AppliedIsReconciled, Staged

(* The types of a job's run, and what the invariant says of it.            *)
LEMMA RunFields ==
    ASSUME JobInv, NEW j \in Jobs
    PROVE  /\ job[j] \in Run /\ job[j].at \in Nat /\ job[j].slot \in Nat
           /\ job[j].observed \in Nat /\ job[j].seen \in Seen /\ job[j].at <= now
           /\ job[j].phase = "mark" => job[j].slot \in reconciled
           /\ now \in Nat /\ job \in [Jobs -> Run] /\ reconciled \in SUBSET Nat
           /\ journal \in SUBSET Cycle
           /\ NothingSeen \in Seen
  BY DEF JobInv, JournalTypeOK, JobsAreBacked, Run, NothingSeen, Seen

(* The types of a cycle's fields.                                          *)
LEMMA CycleFields ==
    ASSUME NEW c \in Cycle
    PROVE  /\ c.slot \in Nat /\ c.staged \in Nat /\ c.seen \in Seen
           /\ c.applied \in Nat \cup {Never}
  BY DEF Cycle

(* The lookup of a cycle keeps the journal's invariant.                    *)
LEMMA StartKeeps ==
    ASSUME JobInv, NEW j \in Jobs, Start(j)
    PROVE  JobInv'
  <1> DEFINE run == [phase |-> "collect", at |-> now, slot |-> SlotOf(now),
                     observed |-> now, seen |-> NothingSeen]
  <1>1. run \in Run /\ run.at <= now
    BY RunFields, SlotsAreTimes DEF Run, Phases
  <1>2. ASSUME NEW new \in Run, job' = [job EXCEPT ![j] = new],
               new.phase # "mark", new.at <= now
        PROVE  JobInv'
    BY <1>2, OnlyTheRun DEF Start
  <1>3. CASE job' = [job EXCEPT ![j] = run]
    BY <1>1, <1>2, <1>3
  <1>4. ASSUME NEW c \in CyclesOf(SlotOf(now)),
               job' = [job EXCEPT ![j] =
                         IF Staged(c)
                         THEN [run EXCEPT !.phase = "graph", !.observed = c.staged,
                                          !.seen = c.seen]
                         ELSE [run EXCEPT !.phase = "prune_graph", !.observed = 0]]
        PROVE  JobInv'
    <2>1. c.staged \in Nat /\ c.seen \in Seen
      BY RunFields, CycleFields DEF CyclesOf
    <2> DEFINE replay == [run EXCEPT !.phase = "graph", !.observed = c.staged,
                                    !.seen = c.seen]
               skip == [run EXCEPT !.phase = "prune_graph", !.observed = 0]
    <2>2. /\ replay \in Run /\ replay.phase # "mark" /\ replay.at <= now
          /\ skip \in Run /\ skip.phase # "mark" /\ skip.at <= now
      BY <1>1, <2>1 DEF Run, Phases
    <2> QED
      BY <1>2, <1>4, <2>2
  <1> QED
    BY <1>3, <1>4 DEF Start

(* The inventory keeps the journal's invariant.                            *)
LEMMA CollectKeeps ==
    ASSUME JobInv, NEW j \in Jobs, Collect(j)
    PROVE  JobInv'
  <1>1. PICK seen \in Seen : job' = [job EXCEPT ![j] = [job[j] EXCEPT !.phase = "stage",
                                                                    !.seen = seen]]
    BY DEF Collect
  <1> DEFINE run == [job[j] EXCEPT !.phase = "stage", !.seen = seen]
  <1>2. run \in Run /\ run.phase # "mark" /\ run.at <= now
    BY RunFields DEF Run, Phases
  <1> QED
    BY <1>1, <1>2, OnlyTheRun DEF Collect

(* A step that ends in a phase other than "mark".                          *)
LEMMA PhaseIsSet ==
    ASSUME JobInv, NEW j \in Jobs, NEW phase \in Phases \ {"mark"}
    PROVE  /\ Proceed(j, phase) => \E run \in Run :
                 /\ job' = [job EXCEPT ![j] = run]
                 /\ run.phase # "mark" /\ run.at <= now
           /\ Finish(j, phase) => \E run \in Run :
                 /\ job' = [job EXCEPT ![j] = run]
                 /\ run.phase # "mark" /\ run.at <= now
  <1> DEFINE ahead == [job[j] EXCEPT !.phase = phase]
             done == [job[j] EXCEPT !.phase = phase, !.observed = 0, !.seen = NothingSeen]
  <1>1. /\ ahead \in Run /\ ahead.phase # "mark" /\ ahead.at <= now
        /\ done \in Run /\ done.phase # "mark" /\ done.at <= now
    BY RunFields DEF Run
  <1>2. Proceed(j, phase) => job' = [job EXCEPT ![j] = ahead]
    BY DEF Proceed
  <1>3. Finish(j, phase) => job' = [job EXCEPT ![j] = done]
    BY DEF Finish
  <1> QED
    BY <1>1, <1>2, <1>3

(* A process without a job is typed.                                       *)
LEMMA IdleIsRun == Idle \in Run /\ Idle.phase = "idle" /\ Idle.at = 0
  BY DEF Idle, Run, Phases, NothingSeen, Seen

(* stage_cycle keeps cycles unique and adds none that is APPLIED.          *)
LEMMA StageKeeps ==
    ASSUME JobInv, NEW j \in Jobs, Stage(j)
    PROVE  JobInv'
  <1> DEFINE candidate == [slot |-> job[j].slot, staged |-> job[j].at, seen |-> job[j].seen,
                           applied |-> Never]
  <1>1. candidate \in Cycle /\ candidate.slot = job[j].slot /\ Staged(candidate)
    BY RunFields DEF Cycle, Staged
  <1>2. \E run \in Run : /\ job' = [job EXCEPT ![j] = run]
                         /\ run.phase # "mark" /\ run.at <= now
    BY PhaseIsSet DEF Stage, Phases
  <1>3. job' \in [Jobs -> Run] /\ JobsAreBacked'
    BY <1>2, RunReplaced, RunFields DEF Stage
  <1>4. \/ UNCHANGED journal
        \/ CyclesOf(job[j].slot) = {} /\ journal' = journal \cup {candidate}
    BY DEF Stage
  <1>5. \A c \in journal' : c \in journal \/ c = candidate
    BY <1>4
  <1>6. journal' \in SUBSET Cycle /\ \A c, d \in journal' : c.slot = d.slot => c = d
    BY <1>1, <1>4 DEF JobInv, JournalTypeOK, CyclesOf
  <1>7. AppliedIsReconciled'
    BY <1>1, <1>5 DEF JobInv, AppliedIsReconciled, Staged, Stage
  <1> QED
    BY <1>3, <1>6, <1>7 DEF JobInv, JournalTypeOK, Stage

(* The job that has changed the graph may mark its slot.                   *)
LEMMA ReconcileJobKeeps ==
    ASSUME JobInv, NEW j \in Jobs, Reconcile(j)
    PROVE  JobInv'
  <1> DEFINE run == [job[j] EXCEPT !.phase = "mark", !.observed = 0, !.seen = NothingSeen]
  <1>1. /\ run \in Run /\ run.slot = job[j].slot /\ run.at <= now
        /\ job' = [job EXCEPT ![j] = run]
    BY RunFields DEF Reconcile, Finish, Run, Phases
  <1>2. reconciled' = reconciled \cup {job[j].slot} /\ reconciled' \in SUBSET Nat
    BY RunFields DEF Reconcile
  <1> HIDE DEF run
  <1>3. job' \in [Jobs -> Run] /\ JobsAreBacked'
    BY <1>1, <1>2, RunReplaced DEF Reconcile
  <1> QED
    BY <1>2, <1>3 DEF JobInv, JournalTypeOK, AppliedIsReconciled, Staged, Reconcile

(* mark_cycle_applied marks a slot the graph has got.                      *)
LEMMA MarkKeeps ==
    ASSUME JobInv, NEW j \in Jobs, Mark(j)
    PROVE  JobInv'
  <1>1. \E run \in Run : /\ job' = [job EXCEPT ![j] = run]
                         /\ run.phase # "mark" /\ run.at <= now
    BY PhaseIsSet DEF Mark, Phases
  <1>2. job' \in [Jobs -> Run] /\ JobsAreBacked'
    BY <1>1, RunReplaced, RunFields DEF Mark
  <1>3. PICK c \in CyclesOf(job[j].slot) :
            journal' = (journal \ {c}) \cup {[c EXCEPT !.applied = job[j].at]}
    BY DEF Mark
  <1> DEFINE new == [c EXCEPT !.applied = job[j].at]
  <1>4. c \in journal /\ c \in Cycle /\ c.slot = job[j].slot
    BY <1>3, RunFields DEF CyclesOf
  <1>5. new \in Cycle /\ new.slot = c.slot
    BY <1>4, RunFields DEF Cycle
  <1>6. new.slot \in reconciled
    BY <1>4, <1>5, RunFields DEF Mark
  <1>7. \A d \in journal' : d \in journal \ {c} \/ d = new
    BY <1>3
  <1> HIDE DEF new
  <1>8. journal' \in SUBSET Cycle /\ \A d, f \in journal' : d.slot = f.slot => d = f
    BY <1>4, <1>5, <1>7 DEF JobInv, JournalTypeOK
  <1>9. AppliedIsReconciled'
    BY <1>6, <1>7 DEF JobInv, AppliedIsReconciled, Staged, Mark
  <1> QED
    BY <1>2, <1>8, <1>9 DEF JobInv, JournalTypeOK, Mark

(* Pruning the graph does not touch the journal.                           *)
LEMMA PruneGraphKeeps ==
    ASSUME JobInv, NEW j \in Jobs, PruneGraph(j)
    PROVE  JobInv'
  <1>1. \E run \in Run : /\ job' = [job EXCEPT ![j] = run]
                         /\ run.phase # "mark" /\ run.at <= now
    BY PhaseIsSet DEF PruneGraph, Phases
  <1> QED
    BY <1>1, OnlyTheRun DEF PruneGraph

(* prune_observations only takes cycles away.                              *)
LEMMA PruneJournalKeeps ==
    ASSUME JobInv, NEW j \in Jobs, PruneJournal(j)
    PROVE  JobInv'
  <1> DEFINE run == Idle
  <1>0. run \in Run /\ run.phase # "mark" /\ run.at <= now
    BY IdleIsRun, RunFields
  <1> HIDE DEF run
  <1>1. job' \in [Jobs -> Run] /\ JobsAreBacked'
    BY <1>0, RunReplaced, RunFields DEF PruneJournal, run
  <1>2. journal' \in SUBSET journal
    BY DEF PruneJournal
  <1> QED
    BY <1>1, <1>2 DEF JobInv, JournalTypeOK, AppliedIsReconciled, Staged, PruneJournal

(* A job that dies leaves the journal as it is.                            *)
LEMMA AbortKeeps ==
    ASSUME JobInv, NEW j \in Jobs, Abort(j)
    PROVE  JobInv'
  <1> DEFINE run == Idle
  <1>1. run \in Run /\ run.phase # "mark" /\ run.at <= now
    BY IdleIsRun, RunFields
  <1> HIDE DEF run
  <1> QED
    BY <1>1, OnlyTheRun DEF Abort, run

-----------------------------------------------------------------------------
(* The whole system                                                        *)

(* The empty graph and the empty journal.                                  *)
LEMMA InvInit == Init => WritersInv
  <1> SUFFICES ASSUME Init PROVE WritersInv
    OBVIOUS
  <1>1. GraphInv
    BY FS_EmptySet DEF Init, GraphInit, GraphInv, GraphTypeOK, HistoriesAreFinite,
       UntiedAreOrderly, Snaps, Orderly, Disjoint
  <1>2. JobInv
    BY IdleIsRun DEF Init, JournalInit, JobInv, JournalTypeOK, JobsAreBacked,
       AppliedIsReconciled
  <1>3. EvidenceTypeOK
    BY DEF Init, EvidenceTypeOK
  <1> QED
    BY <1>1, <1>2, <1>3 DEF WritersInv

(* What every step does to the pins and to what they protect.              *)
PinsAreKept == \A i \in Incidents : KeepsPinned(i)

(* A step beside the graph keeps its invariant and its pins.               *)
LEMMA GraphUntouched ==
    ASSUME WritersInv, UNCHANGED graphVars
    PROVE  GraphInv' /\ PinsAreKept
  <1>1. GraphInv'
    BY DEF WritersInv, GraphInv, GraphTypeOK, HistoriesAreFinite, UntiedAreOrderly, graphVars
  <1>2. \A i \in Incidents : pins[i] # NoPin => pins[i].expires \in Nat
    BY DEF WritersInv, GraphInv, GraphTypeOK, Pin
  <1>3. PinsAreKept
    BY <1>2 DEF PinsAreKept, KeepsPinned, Covers, graphVars
  <1> QED
    BY <1>1, <1>3

(* A step that keeps closed snapshots and pins protects them.              *)
LEMMA ClosedCoversPinned ==
    ASSUME WritersInv, ClosedIsKept, UNCHANGED pins
    PROVE  PinsAreKept
  <1>1. \A i \in Incidents : pins[i] # NoPin =>
            pins[i].expires \in Nat /\ pins[i].entities \in SUBSET Entities
    BY DEF WritersInv, GraphInv, GraphTypeOK, Pin
  <1> QED
    BY <1>1 DEF PinsAreKept, KeepsPinned, ClosedIsKept

(* Every step of a job keeps the invariant and what is pinned.             *)
LEMMA JobStepKeeps ==
    ASSUME WritersInv, NEW j \in Jobs, JobStep(j), UNCHANGED evidence
    PROVE  WritersInv' /\ PinsAreKept
  <1> USE DEF WritersInv
  <1>1. EvidenceTypeOK'
    BY DEF EvidenceTypeOK
  <1>2. CASE Start(j)
    BY <1>1, <1>2, StartKeeps, GraphUntouched DEF Start
  <1>3. CASE Collect(j)
    BY <1>1, <1>3, CollectKeeps, GraphUntouched DEF Collect
  <1>4. CASE Stage(j)
    BY <1>1, <1>4, StageKeeps, GraphUntouched DEF Stage
  <1>5. CASE Reconcile(j)
    <2>1. GraphInv' /\ ClosedIsKept /\ UNCHANGED pins
      BY <1>5, ReconcileKeeps, RunFields DEF Reconcile
    <2> QED
      BY <1>1, <1>5, <2>1, ReconcileJobKeeps, ClosedCoversPinned
  <1>6. CASE Mark(j)
    BY <1>1, <1>6, MarkKeeps, GraphUntouched DEF Mark
  <1>7. CASE PruneGraph(j)
    <2>1. PruneHistory(job[j].at) /\ job[j].at \in Nat /\ job[j].at <= now /\ now \in Nat
      BY <1>7, RunFields DEF PruneGraph
    <2>2. GraphInv'
      BY <2>1, PruneKeeps
    <2>3. ASSUME NEW i \in Incidents, pins[i] # NoPin, now < pins[i].expires
          PROVE  /\ pins'[i] = pins[i]
                 /\ \A e \in pins[i].entities : \A s \in Snaps(graph[e]) :
                       s.to # Open /\ Overlaps(pins[i], s) => s \in Snaps(graph'[e])
      <3>1. pins[i].expires \in Nat
        BY <2>3 DEF GraphInv, GraphTypeOK, Pin
      <3>2. job[j].at < pins[i].expires
        BY <2>1, <2>3, <3>1
      <3> QED
        BY <2>1, <2>3, <3>2, PruneKeeps
    <2>4. PinsAreKept
      <3>1. \A i \in Incidents : pins[i] # NoPin => pins[i].expires \in Nat
        BY DEF GraphInv, GraphTypeOK, Pin
      <3> QED
        BY <2>3, <3>1 DEF PinsAreKept, KeepsPinned, Covers
    <2> QED
      BY <1>1, <1>7, <2>2, <2>4, PruneGraphKeeps
  <1>8. CASE PruneJournal(j)
    BY <1>1, <1>8, PruneJournalKeeps, GraphUntouched DEF PruneJournal
  <1>9. CASE Abort(j)
    BY <1>1, <1>9, AbortKeeps, GraphUntouched DEF Abort
  <1> QED
    BY <1>2, <1>3, <1>4, <1>5, <1>6, <1>7, <1>8, <1>9 DEF JobStep

(* Jobs do not notice what Incidents do, nor that time passes.             *)
LEMMA JobsAreLeftAlone ==
    ASSUME JobInv, UNCHANGED journalVars, now' \in Nat, now' >= now
    PROVE  JobInv'
  <1>1. now \in Nat /\ \A j \in Jobs : job[j].at \in Nat
    BY DEF JobInv, JournalTypeOK, Run
  <1>2. JobsAreBacked'
    BY <1>1 DEF JobInv, JobsAreBacked, journalVars
  <1> QED
    BY <1>2 DEF JobInv, JournalTypeOK, AppliedIsReconciled, Staged, journalVars

(* Every step of an Incident keeps the invariant and the pins.             *)
LEMMA IncidentStepKeeps ==
    ASSUME WritersInv, NEW i \in Incidents,
           CollectEvidence(i) \/ IngestEvidence(i) \/ PinContext(i) \/ DropEvidence(i)
    PROVE  WritersInv' /\ PinsAreKept
  <1>1. JobInv'
    BY JobsAreLeftAlone
    DEF WritersInv, JobInv, JournalTypeOK, CollectEvidence, IngestEvidence, PinContext, DropEvidence
  <1>2. /\ evidence \in [Incidents -> Evidence \cup {NoEvidence}]
        /\ now \in Nat
        /\ evidence[i] # NoEvidence => /\ evidence[i] \in Evidence
                                       /\ evidence[i].at \in Nat /\ evidence[i].seen \in Seen
    BY DEF WritersInv, JobInv, JournalTypeOK, EvidenceTypeOK, Evidence
  <1>3. CASE CollectEvidence(i)
    <2>1. EvidenceTypeOK'
      BY <1>2, <1>3 DEF CollectEvidence, EvidenceTypeOK, Evidence
    <2> QED
      BY <1>1, <1>3, <2>1, GraphUntouched DEF WritersInv, CollectEvidence
  <1>4. CASE IngestEvidence(i)
    <2>1. GraphInv' /\ ClosedIsKept /\ UNCHANGED pins
      BY <1>2, <1>4, IngestKeeps DEF WritersInv, IngestEvidence
    <2>2. EvidenceTypeOK'
      BY <1>2, <1>4 DEF IngestEvidence, EvidenceTypeOK, Evidence
    <2> QED
      BY <1>1, <2>1, <2>2, ClosedCoversPinned DEF WritersInv
  <1>5. CASE PinContext(i)
    <2>1. PICK ids \in SUBSET Entities :
              PinIncidentHistory(i, ids,
                  IF evidence[i].at > Baseline THEN evidence[i].at - Baseline ELSE 0,
                  evidence[i].at, now)
      BY <1>5 DEF PinContext
    <2>2. (IF evidence[i].at > Baseline THEN evidence[i].at - Baseline ELSE 0) \in Nat
      BY <1>2, <1>5, WritersAssumption DEF PinContext
    <2>3. /\ GraphInv'
          /\ \A k \in Incidents : pins[k] # NoPin =>
                /\ pins'[k] # NoPin
                /\ pins'[k].expires >= pins[k].expires
                /\ pins[k].entities \subseteq pins'[k].entities
      BY <1>2, <1>5, <2>1, <2>2, PinKeeps DEF WritersInv, PinContext
    <2>4. PinsAreKept
      BY <2>1, <2>3 DEF PinsAreKept, KeepsPinned, Covers, PinIncidentHistory
    <2>5. EvidenceTypeOK'
      BY <1>2, <1>5 DEF PinContext, EvidenceTypeOK
    <2> QED
      BY <1>1, <2>3, <2>4, <2>5 DEF WritersInv
  <1>6. CASE DropEvidence(i)
    <2>1. EvidenceTypeOK'
      BY <1>2, <1>6 DEF DropEvidence, EvidenceTypeOK
    <2> QED
      BY <1>1, <1>6, <2>1, GraphUntouched DEF WritersInv, DropEvidence
  <1> QED
    BY <1>3, <1>4, <1>5, <1>6

(* Every step of the system keeps the invariant and the pins.              *)
LEMMA StepKeeps ==
    ASSUME WritersInv, [Next]_vars
    PROVE  WritersInv' /\ PinsAreKept
  <1>1. CASE Tick
    <2>1. now' \in Nat /\ now' >= now
      BY <1>1 DEF Tick, WritersInv, JobInv, JournalTypeOK
    <2> QED
      BY <1>1, <2>1, JobsAreLeftAlone, GraphUntouched DEF Tick, WritersInv, EvidenceTypeOK
  <1>2. CASE UNCHANGED vars
    <2>1. now' \in Nat /\ now' >= now /\ UNCHANGED journalVars /\ UNCHANGED graphVars
      BY <1>2 DEF vars, WritersInv, JobInv, JournalTypeOK, journalVars, graphVars
    <2> QED
      BY <1>2, <2>1, JobsAreLeftAlone, GraphUntouched DEF vars, WritersInv, EvidenceTypeOK
  <1> QED
    BY <1>1, <1>2, JobStepKeeps, IncidentStepKeeps DEF Next

-----------------------------------------------------------------------------
(* Theorems                                                                *)

(* The inductive invariant of all writers of the graph and the journal.    *)
THEOREM WritersAreConsistent == Spec => []WritersInv
  <1>1. WritersInv /\ [Next]_vars => WritersInv'
    BY StepKeeps
  <1> QED
    BY InvInit, <1>1, PTL DEF Spec

(* Whatever reconcilers and Incidents write, the graph, its pins, the      *)
(* journal and the jobs have their types.                                  *)
THEOREM TypeCorrect == Spec => []TypeOK
  <1>1. WritersInv => TypeOK
    BY DEF WritersInv, GraphInv, JobInv, EvidenceTypeOK, TypeOK
  <1> QED
    BY WritersAreConsistent, <1>1, PTL

(* The guard and the closing of _upsert_snapshot_tx, with the closing of   *)
(* _reconcile_projection_tx and the deletions of prune_history, keep the   *)
(* intervals of an Entity apart, for any number of jobs and Incidents.     *)
THEOREM HistoriesStayDisjoint == Spec => []DisjointUnlessTied
  <1>1. WritersInv => DisjointUnlessTied
    BY DEF WritersInv, GraphInv, UntiedAreOrderly, Orderly, DisjointUnlessTied
  <1> QED
    BY WritersAreConsistent, <1>1, PTL

(* mark_cycle_applied is only ever reached behind reconcile_projection of  *)
(* the same slot, however many jobs overlap, die and start over.           *)
THEOREM AppliedCyclesAreInTheGraph == Spec => []AppliedIsReconciled
  <1>1. WritersInv => AppliedIsReconciled
    BY DEF WritersInv, JobInv
  <1> QED
    BY WritersAreConsistent, <1>1, PTL

(* reconcile may apply a STAGED cycle again after a crash: the graph takes  *)
(* it a second time and does not change, for any cycle and any graph that   *)
(* the writers can reach without ties.                                      *)
THEOREM RetriesAreIdempotent == Spec => []RetryChangesNothing
  <1>1. WritersInv => RetryChangesNothing
    <2> SUFFICES ASSUME WritersInv, NEW c \in journal,
                        Reconcilable(graph, c.seen, c.slot, c.staged),
                        tied \cup {e \in Entities : /\ c.seen[e] # Gone
                                                   /\ Ties(graph[e], c.slot, c.seen[e])} = {}
                 PROVE  LET once == ReconciledGraph(graph, c.seen, c.slot, c.staged) IN
                        /\ Reconcilable(once, c.seen, c.slot, c.staged)
                        /\ ReconciledGraph(once, c.seen, c.slot, c.staged) = once
      BY DEF RetryChangesNothing
    <2>1. c.slot \in Nat /\ c.staged \in Nat /\ c.seen \in Seen
      BY CycleFields DEF WritersInv, JobInv, JournalTypeOK
    <2> QED
      BY <2>1, ReconciledTwice DEF WritersInv
  <1> QED
    BY WritersAreConsistent, <1>1, PTL

(* prune_history deletes nothing that an unexpired pin of                  *)
(* pin_incident_history names, also when a lingering job prunes.           *)
THEOREM PinsProtectHistory == Spec => PinnedHistoryIsKept
  <1>1. WritersInv /\ [Next]_vars => [\A i \in Incidents : KeepsPinned(i)]_vars
    BY StepKeeps DEF PinsAreKept
  <1> QED
    BY WritersAreConsistent, <1>1, PTL DEF Spec, PinnedHistoryIsKept

-----------------------------------------------------------------------------
(* What is gone is closed                                                  *)

(* Nobody writes with a time that is older than the ordinary history: an   *)
(* Incident is localized within it, and a job ends within it of its slot.   *)
HistoryOutlivesWriters ==
    MaxLag <= OrdinaryHistory /\ Interval + JobLife <= OrdinaryHistory

WritersAreInTime ==
    /\ \A i \in Incidents : evidence[i] # NoEvidence => now <= evidence[i].at + MaxLag
    /\ \A j \in Jobs : job[j].phase # "idle" =>
          job[j].at < job[j].slot + Interval /\ now <= job[j].at + JobLife

(* An Entity that exists has a current state.  One that does not has none,  *)
(* and either a snapshot that ends when it was last seen, so that nothing    *)
(* older fits, or it was last seen longer ago than anybody writes.          *)
LastIsClosed(h) == \E s \in h.snaps : s.to # Open /\ s.to >= h.last

ExistsWhileOpen(h) ==
    IF h.exists THEN OpenSnaps(h) # {}
    ELSE OpenSnaps(h) = {} /\ (LastIsClosed(h) \/ Old(h.last, now))

RetirementInv == \A e \in Entities \ tied : Known(e) => ExistsWhileOpen(graph[e])

(* An observation opens a snapshot; one of an Entity that is gone is newer   *)
(* than its last.                                                          *)
LEMMA ObservationReopens ==
    ASSUME NEW h \in History \cup {NoEntity}, IsFiniteSet(Snaps(h)), Orderly(Snaps(h)),
           NEW at \in Nat, NEW state \in States, Fits(h, at, state), now \in Nat,
           h # NoEntity => ExistsWhileOpen(h), now <= at + OrdinaryHistory
    PROVE  LET new == Observed(h, at, state) IN
           new # NoEntity /\ new.exists /\ OpenSnaps(new) # {}
  <1> DEFINE new == Observed(h, at, state)
             after == SnapsAfter(Snaps(h), at, state)
  <1>1. new \in History /\ new # NoEntity /\ Snaps(new) = new.snaps
    BY ObservedContinues, HistoryFields, NoEntityAssumption DEF Continues
  <1>2. PICK m \in after : m.to = Open
    BY CurrentAfterObservation
  <1>3. CASE h = NoEntity
    <2>1. after = {NewSnapshot(at, state)} /\ new.exists /\ new.snaps = after
      BY <1>3 DEF SnapsAfter, Snaps, Observed
    <2> QED
      BY <1>1, <1>2, <2>1 DEF OpenSnaps
  <1>4. CASE h # NoEntity
    <2>1. h.last \in Nat /\ h.exists \in BOOLEAN /\ Snaps(h) = h.snaps /\ h.snaps \in SUBSET Snapshot
      BY <1>4, HistoryFields
    <2>2. at >= h.last \/ h.exists
      <3> SUFFICES ASSUME ~h.exists, at < h.last PROVE FALSE
        BY <2>1
      <3>1. ~Old(h.last, now)
        BY <2>1, RetentionAssumption DEF Old
      <3>2. PICK s \in h.snaps : s.to # Open /\ s.to >= h.last
        BY <1>4, <3>1 DEF ExistsWhileOpen, LastIsClosed
      <3> DEFINE latest == LatestOf(h.snaps)
      <3>3. latest \in h.snaps /\ \A t \in h.snaps : t.from <= latest.from
        BY <2>1, <3>2, LatestExists
      <3>4. at >= latest.from /\ (latest.to # Open => at >= latest.to)
        BY <2>1, <3>2 DEF Fits
      <3> HIDE DEF latest
      <3>5. s = latest \/ Before(s, latest)
        BY <2>1, <3>3, OthersAreBefore
      <3>6. s.to \in Nat /\ latest.from \in Nat
        BY <2>1, <3>2, <3>3, SnapshotFields
      <3> QED
        BY <2>1, <3>2, <3>4, <3>5, <3>6 DEF Before
    <2>3. new = [exists |-> at >= h.last \/ h.exists, first |-> Earlier(h.first, at),
                 last |-> Later(h.last, at), snaps |-> after]
      BY <1>4, <2>1 DEF Observed
    <2>4. new.exists /\ new.snaps = after
      <3>1. (at >= h.last \/ h.exists) = TRUE
        BY <2>2
      <3>2. new = [exists |-> TRUE, first |-> Earlier(h.first, at),
                   last |-> Later(h.last, at), snaps |-> after]
        BY <2>3, <3>1
      <3> HIDE DEF new, after
      <3> QED
        BY <3>2
    <2> QED
      BY <1>1, <1>2, <2>4 DEF OpenSnaps
  <1> QED
    BY <1>3, <1>4

(* An inventory without the Entity closes what is open as of the time it     *)
(* was last seen.                                                          *)
LEMMA RetirementCloses ==
    ASSUME NEW h \in History, IsFiniteSet(Snaps(h)), Orderly(Snaps(h)),
           NEW at \in Nat, Retirable(h, at), ExistsWhileOpen(h)
    PROVE  LET new == Retired(h, at) IN
           new # NoEntity /\ ~new.exists /\ OpenSnaps(new) = {} /\ (LastIsClosed(new) \/ Old(new.last, now))
  <1> DEFINE new == Retired(h, at)
             closing == LatestOf(OpenSnaps(h))
             closed == [closing EXCEPT !.to = at, !.observed = at]
  <1>1. h # NoEntity /\ Snaps(h) = h.snaps /\ h.snaps \in SUBSET Snapshot /\ h.exists \in BOOLEAN
    BY HistoryFields, NoEntityAssumption
  <1>2. /\ new \in History /\ new # NoEntity /\ Snaps(new) = new.snaps
        /\ new.exists = FALSE /\ new.last = IF h.exists THEN at ELSE h.last
        /\ new.snaps = IF OpenSnaps(h) = {} THEN h.snaps ELSE (h.snaps \ {closing}) \cup {closed}
    <2>1. new \in History
      BY <1>1, RetiredContinues DEF Continues
    <2>2. Snaps(new) = new.snaps /\ new # NoEntity
      BY <2>1, HistoryFields, NoEntityAssumption
    <2> QED
      BY <1>1, <2>1, <2>2 DEF Retired, RetireAt, History
  <1>3. CASE h.exists
    <2>1. OpenSnaps(h) # {}
      BY <1>3 DEF ExistsWhileOpen
    <2>2. OpenSnaps(h) \in SUBSET h.snaps /\ IsFiniteSet(OpenSnaps(h))
      BY <1>1, FS_Subset DEF OpenSnaps
    <2>3. closing \in h.snaps /\ closing.to = Open /\ closing \in Snapshot
      BY <1>1, <2>1, <2>2, LatestExists DEF OpenSnaps
    <2>4. new.snaps = (h.snaps \ {closing}) \cup {closed} /\ new.last = at
      BY <1>2, <1>3, <2>1
    <2> HIDE DEF closing, new
    <2>5. closed.to = at /\ closed.to # Open
      BY <2>3, OpenAssumption DEF Snapshot
    <2> HIDE DEF closed
    <2>6. \A s \in h.snaps \ {closing} : s.to # Open
      BY <1>1, <2>3 DEF Orderly, Disjoint, Before
    <2>7. OpenSnaps(new) = {}
      BY <1>2, <2>4, <2>5, <2>6 DEF OpenSnaps
    <2>8. LastIsClosed(new)
      BY <2>4, <2>5 DEF LastIsClosed
    <2> QED
      BY <1>2, <2>7, <2>8 DEF new
  <1>4. CASE ~h.exists
    <2>1. OpenSnaps(h) = {} /\ (LastIsClosed(h) \/ Old(h.last, now))
      BY <1>4 DEF ExistsWhileOpen
    <2>2. new.snaps = h.snaps /\ new.last = h.last
      BY <1>2, <1>4, <2>1
    <2> HIDE DEF new
    <2>3. OpenSnaps(new) = {}
      BY <1>1, <1>2, <2>1, <2>2 DEF OpenSnaps
    <2>4. LastIsClosed(new) \/ Old(new.last, now)
      BY <2>1, <2>2 DEF LastIsClosed
    <2> QED
      BY <1>2, <2>3, <2>4 DEF new
  <1> QED
    BY <1>1, <1>3, <1>4

(* Pruning takes only snapshots that ended long ago, none that is open.     *)
LEMMA PruningKeepsOpen ==
    ASSUME NEW e \in Entities, graph[e] \in History, IsFiniteSet(Snaps(graph[e])),
           NEW at \in Nat, now \in Nat, at <= now, ExistsWhileOpen(graph[e])
    PROVE  LET new == PrunedHistory(e, at) IN new # NoEntity => ExistsWhileOpen(new)
  <1> DEFINE h == graph[e]
             kept == {s \in h.snaps : ~Prunable(e, s, at)}
             new == [h EXCEPT !.snaps = kept]
  <1>1. h # NoEntity /\ Snaps(h) = h.snaps /\ h.snaps \in SUBSET Snapshot /\ h.last \in Nat
    BY HistoryFields, NoEntityAssumption
  <1>2. PrunedHistory(e, at) = NoEntity \/ PrunedHistory(e, at) = new
    BY DEF PrunedHistory
  <1>3. new.exists = h.exists /\ new.last = h.last /\ new.snaps = kept
    BY DEF History
  <1>4. new \in History /\ Snaps(new) = kept
    BY <1>1, <1>3, NoEntityAssumption DEF History, Snaps
  <1> HIDE DEF new
  <1>5. OpenSnaps(new) = OpenSnaps(h)
    BY <1>1, <1>4 DEF OpenSnaps, Prunable
  <1>6. ASSUME LastIsClosed(h), ~LastIsClosed(new) PROVE Old(h.last, now)
    <2>1. PICK s \in h.snaps : s.to # Open /\ s.to >= h.last
      BY <1>6 DEF LastIsClosed
    <2>2. s \notin kept
      BY <1>3, <1>6, <2>1 DEF LastIsClosed
    <2>3. Old(s.to, at)
      BY <2>2 DEF Prunable
    <2>4. s.to \in Nat
      BY <1>1, <2>1, SnapshotFields
    <2> QED
      BY <1>1, <2>1, <2>3, <2>4, RetentionAssumption DEF Old
  <1>7. ExistsWhileOpen(new)
    BY <1>3, <1>5, <1>6 DEF ExistsWhileOpen
  <1> QED
    BY <1>2, <1>7

(* Who writes, writes in time.                                             *)
LEMMA TimesAreKept ==
    ASSUME WritersInv, WritersAreInTime, [Next]_vars
    PROVE  WritersAreInTime'
  <1>1. /\ now \in Nat /\ MaxLag \in Nat /\ Interval \in Nat \ {0} /\ JobLife \in Nat
        /\ evidence \in [Incidents -> Evidence \cup {NoEvidence}]
        /\ \A i \in Incidents : evidence[i] # NoEvidence => evidence[i].at \in Nat
        /\ job \in [Jobs -> Run] /\ \A j \in Jobs : job[j].at \in Nat /\ job[j].slot \in Nat
    BY JournalAssumption, WritersAssumption
    DEF WritersInv, JobInv, JournalTypeOK, EvidenceTypeOK, Evidence, Run
  <1>2. ASSUME UNCHANGED <<now, evidence>>, NEW j \in Jobs, NEW run,
               job' = [job EXCEPT ![j] = run],
               run.phase # "idle" => run.at < run.slot + Interval /\ now <= run.at + JobLife
        PROVE  WritersAreInTime'
    BY <1>1, <1>2 DEF WritersAreInTime
  <1>3. ASSUME NEW j \in Jobs, JobStep(j), UNCHANGED evidence PROVE WritersAreInTime'
    <2>1. now' = now
      BY <1>3 DEF JobStep, Start, Collect, Stage, Reconcile, Mark, PruneGraph, PruneJournal, Abort
    <2>2. CASE Start(j)
      <3>1. now < SlotOf(now) + Interval
        BY <1>1 DEF SlotOf
      <3>2. \E run : /\ job' = [job EXCEPT ![j] = run]
                     /\ run.at = now /\ run.slot = SlotOf(now)
        <4> DEFINE run == [phase |-> "collect", at |-> now, slot |-> SlotOf(now),
                           observed |-> now, seen |-> NothingSeen]
        <4>1. ASSUME NEW c, Staged(c),
                     job' = [job EXCEPT ![j] = [run EXCEPT !.phase = "graph", !.observed = c.staged,
                                                           !.seen = c.seen]]
              PROVE  \E r : job' = [job EXCEPT ![j] = r] /\ r.at = now /\ r.slot = SlotOf(now)
          <5> WITNESS [run EXCEPT !.phase = "graph", !.observed = c.staged, !.seen = c.seen]
          <5> QED
            BY <4>1
        <4>2. ASSUME job' = [job EXCEPT ![j] = [run EXCEPT !.phase = "prune_graph", !.observed = 0]]
              PROVE  \E r : job' = [job EXCEPT ![j] = r] /\ r.at = now /\ r.slot = SlotOf(now)
          <5> WITNESS [run EXCEPT !.phase = "prune_graph", !.observed = 0]
          <5> QED
            BY <4>2
        <4>3. ASSUME job' = [job EXCEPT ![j] = run]
              PROVE  \E r : job' = [job EXCEPT ![j] = r] /\ r.at = now /\ r.slot = SlotOf(now)
          <5> WITNESS run
          <5> QED
            BY <4>3
        <4> QED
          BY <2>2, <4>1, <4>2, <4>3 DEF Start
      <3>3. PICK run : /\ job' = [job EXCEPT ![j] = run]
                       /\ run.at = now /\ run.slot = SlotOf(now)
        BY <3>2
      <3>4. run.at < run.slot + Interval /\ now <= run.at + JobLife
        <4> HIDE DEF SlotOf
        <4> QED
          BY ONLY <1>1, <3>1, <3>3
      <3>5. UNCHANGED <<now, evidence>>
        BY <1>3, <2>1
      <3> QED
        BY ONLY <1>2, <3>3, <3>4, <3>5
    <2>3. CASE PruneJournal(j) \/ Abort(j)
      <3>1. job' = [job EXCEPT ![j] = Idle]
        BY <2>3 DEF PruneJournal, Abort
      <3> QED
        BY <1>2, <1>3, <2>1, <3>1, IdleIsRun
    <2>4. CASE Collect(j) \/ Stage(j) \/ Reconcile(j) \/ Mark(j) \/ PruneGraph(j)
      <3>1. job[j].phase # "idle"
        BY <2>4 DEF Collect, Stage, Reconcile, Mark, PruneGraph
      <3>2. \E run : job' = [job EXCEPT ![j] = run] /\ run.at = job[j].at /\ run.slot = job[j].slot
        <4>1. job[j] \in Run
          BY <1>1
        <4>2. CASE Collect(j)
          <5>1. PICK seen : job' = [job EXCEPT ![j] = [job[j] EXCEPT !.phase = "stage", !.seen = seen]]
            BY <4>2 DEF Collect
          <5> WITNESS [job[j] EXCEPT !.phase = "stage", !.seen = seen]
          <5> QED
            BY <4>1, <5>1 DEF Run
        <4>3. ASSUME NEW phase, Proceed(j, phase)
              PROVE  \E run : job' = [job EXCEPT ![j] = run] /\ run.at = job[j].at /\ run.slot = job[j].slot
          <5> WITNESS [job[j] EXCEPT !.phase = phase]
          <5> QED
            BY <4>1, <4>3 DEF Proceed, Run
        <4>4. ASSUME NEW phase, Finish(j, phase)
              PROVE  \E run : job' = [job EXCEPT ![j] = run] /\ run.at = job[j].at /\ run.slot = job[j].slot
          <5> WITNESS [job[j] EXCEPT !.phase = phase, !.observed = 0, !.seen = NothingSeen]
          <5> QED
            BY <4>1, <4>4 DEF Finish, Run
        <4> QED
          BY <2>4, <4>2, <4>3, <4>4 DEF Stage, Reconcile, Mark, PruneGraph
      <3>3. job[j].at < job[j].slot + Interval /\ now <= job[j].at + JobLife
        BY <3>1 DEF WritersAreInTime
      <3> QED
        BY <1>2, <1>3, <2>1, <3>2, <3>3
    <2> QED
      BY <1>3, <2>2, <2>3, <2>4 DEF JobStep
  <1>4. ASSUME NEW i \in Incidents, CollectEvidence(i) PROVE WritersAreInTime'
    <2>1. PICK at \in 0..now, seen \in Seen :
              /\ at + MaxLag >= now
              /\ evidence' = [evidence EXCEPT ![i] = [at |-> at, seen |-> seen, ingested |-> FALSE]]
      BY <1>4 DEF CollectEvidence
    <2> QED
      BY <1>1, <1>4, <2>1 DEF CollectEvidence, WritersAreInTime, journalVars
  <1>5. ASSUME NEW i \in Incidents, IngestEvidence(i) PROVE WritersAreInTime'
    <2>1. \A k \in Incidents : evidence'[k] # NoEvidence =>
              evidence[k] # NoEvidence /\ evidence'[k].at = evidence[k].at
      BY <1>1, <1>5 DEF IngestEvidence, Evidence
    <2> QED
      BY <1>1, <1>5, <2>1 DEF IngestEvidence, WritersAreInTime, journalVars
  <1>6. ASSUME NEW i \in Incidents, PinContext(i) \/ DropEvidence(i) PROVE WritersAreInTime'
    <2>1. evidence' = [evidence EXCEPT ![i] = NoEvidence] /\ now' = now /\ job' = job
      BY <1>6 DEF PinContext, DropEvidence, journalVars
    <2> QED
      BY <1>1, <2>1 DEF WritersAreInTime
  <1>7. ASSUME Tick PROVE WritersAreInTime'
    BY <1>1, <1>7 DEF Tick, WritersAreInTime, journalVars
  <1>8. ASSUME UNCHANGED vars PROVE WritersAreInTime'
    BY <1>8 DEF vars, WritersAreInTime
  <1> QED
    BY <1>3, <1>4, <1>5, <1>6, <1>7, <1>8 DEF Next

(* What exists keeps a current state, and what is gone keeps none.         *)
LEMMA RetirementKeeps ==
    ASSUME HistoryOutlivesWriters, WritersInv, WritersAreInTime, RetirementInv, [Next]_vars
    PROVE  RetirementInv'
  <1>1. /\ now \in Nat /\ MaxLag \in Nat /\ Interval \in Nat /\ JobLife \in Nat /\ OrdinaryHistory \in Nat
        /\ \A e \in Entities : graph[e] \in History \cup {NoEntity} /\ IsFiniteSet(Snaps(graph[e]))
        /\ \A e \in Entities \ tied : Orderly(Snaps(graph[e]))
        /\ \A e \in Entities \ tied : graph[e] # NoEntity => ExistsWhileOpen(graph[e])
    BY JournalAssumption, WritersAssumption, RetentionAssumption
    DEF WritersInv, GraphInv, GraphTypeOK, HistoriesAreFinite, UntiedAreOrderly, JobInv,
        JournalTypeOK, RetirementInv, Known
  <1>2. ASSUME UNCHANGED now, tied \subseteq tied',
               \A e \in Entities \ tied' : graph'[e] # NoEntity =>
                  \/ graph'[e] = graph[e]
                  \/ ExistsWhileOpen(graph'[e])
        PROVE  RetirementInv'
    <2> SUFFICES ASSUME NEW e \in Entities, e \notin tied', graph'[e] # NoEntity
                 PROVE  ExistsWhileOpen(graph[e])'
      BY DEF RetirementInv, Known
    <2>1. ExistsWhileOpen(graph'[e])
      BY <1>1, <1>2
    <2> QED
      BY <1>2, <2>1 DEF ExistsWhileOpen, OpenSnaps, Snaps, LastIsClosed, Old
  <1>3. ASSUME UNCHANGED graphVars, now' \in Nat, now' >= now
        PROVE  RetirementInv'
    <2> SUFFICES ASSUME NEW e \in Entities, e \notin tied, graph[e] # NoEntity
                 PROVE  ExistsWhileOpen(graph[e])'
      BY <1>3 DEF RetirementInv, Known, graphVars
    <2>1. ExistsWhileOpen(graph[e]) /\ graph'[e] = graph[e] /\ graph[e].last \in Nat
      BY <1>1, <1>3, HistoryFields DEF graphVars
    <2>2. Old(graph[e].last, now) => Old(graph[e].last, now')
      BY <1>1, <1>3, <2>1 DEF Old
    <2> QED
      BY <2>1, <2>2 DEF ExistsWhileOpen, OpenSnaps, Snaps, LastIsClosed, Old
  <1>4. ASSUME NEW j \in Jobs, Reconcile(j) PROVE RetirementInv'
    <2> DEFINE run == job[j]
    <2>1. /\ run.slot \in Nat /\ run.observed \in Nat /\ run.seen \in Seen /\ run.at \in Nat
      BY RunFields DEF WritersInv
    <2>2. now <= run.slot + OrdinaryHistory
      BY <1>1, <1>4, <2>1 DEF Reconcile, WritersAreInTime, HistoryOutlivesWriters
    <2>3. /\ Reconcilable(graph, run.seen, run.slot, run.observed)
          /\ \A e \in Entities : graph'[e] = IF run.seen[e] = Gone THEN Retired(graph[e], run.observed)
                                             ELSE Observed(graph[e], run.slot, run.seen[e])
          /\ tied' = tied \cup {e \in Entities : run.seen[e] # Gone /\ Ties(graph[e], run.slot, run.seen[e])}
          /\ UNCHANGED now
      BY <1>4 DEF Reconcile, ReconcileProjection, ReconciledGraph, RecordTies
    <2> HIDE DEF run
    <2>4. ASSUME NEW e \in Entities, e \notin tied', graph'[e] # NoEntity
          PROVE  ExistsWhileOpen(graph'[e])
      <3>1. CASE run.seen[e] = Gone
        <4>1. Retirable(graph[e], run.observed) /\ graph'[e] = Retired(graph[e], run.observed)
          BY <2>3, <3>1 DEF Reconcilable
        <4>2. graph[e] # NoEntity
          BY <2>4, <4>1 DEF Retired
        <4> QED
          BY <1>1, <2>1, <2>3, <2>4, <4>1, <4>2, RetirementCloses DEF ExistsWhileOpen
      <3>2. CASE run.seen[e] # Gone
        <4>1. run.seen[e] \in States /\ Fits(graph[e], run.slot, run.seen[e])
              /\ graph'[e] = Observed(graph[e], run.slot, run.seen[e])
          BY <2>1, <2>3, <3>2 DEF Reconcilable, Seen
        <4> QED
          BY <1>1, <2>1, <2>2, <2>3, <2>4, <4>1, ObservationReopens DEF ExistsWhileOpen
      <3> QED
        BY <3>1, <3>2
    <2> QED
      BY <1>2, <2>3, <2>4
  <1>5. ASSUME NEW i \in Incidents, IngestEvidence(i) PROVE RetirementInv'
    <2> DEFINE batch == evidence[i]
    <2>1. batch.at \in Nat /\ batch.seen \in Seen
      BY <1>5 DEF WritersInv, EvidenceTypeOK, Evidence, IngestEvidence
    <2>2. now <= batch.at + OrdinaryHistory
      BY <1>1, <1>5, <2>1 DEF IngestEvidence, WritersAreInTime, HistoryOutlivesWriters
    <2>3. /\ Accepts(batch.seen, batch.at)
          /\ \A e \in Entities : graph'[e] = IF batch.seen[e] = Gone THEN graph[e]
                                             ELSE Observed(graph[e], batch.at, batch.seen[e])
          /\ tied' = tied \cup {e \in Entities : batch.seen[e] # Gone /\ Ties(graph[e], batch.at, batch.seen[e])}
          /\ UNCHANGED now
      BY <1>5 DEF IngestEvidence, Ingest, RecordTies
    <2> HIDE DEF batch
    <2>4. ASSUME NEW e \in Entities, e \notin tied', batch.seen[e] # Gone
          PROVE  ExistsWhileOpen(graph'[e])
      <3>1. batch.seen[e] \in States /\ Fits(graph[e], batch.at, batch.seen[e])
            /\ graph'[e] = Observed(graph[e], batch.at, batch.seen[e])
        BY <2>1, <2>3, <2>4 DEF Accepts, Seen
      <3> QED
        BY <1>1, <2>1, <2>2, <2>3, <2>4, <3>1, ObservationReopens DEF ExistsWhileOpen
    <2> QED
      BY <1>2, <2>3, <2>4
  <1>6. ASSUME NEW j \in Jobs, PruneGraph(j) PROVE RetirementInv'
    <2>1. job[j].at \in Nat /\ job[j].at <= now
      BY RunFields DEF WritersInv
    <2>2. /\ \A e \in Entities : graph'[e] = IF Known(e) THEN PrunedHistory(e, job[j].at) ELSE NoEntity
          /\ UNCHANGED <<tied, now>>
      BY <1>6 DEF PruneGraph, PruneHistory
    <2>3. ASSUME NEW e \in Entities, e \notin tied, graph'[e] # NoEntity
          PROVE  ExistsWhileOpen(graph'[e])
      <3>1. graph[e] \in History /\ graph'[e] = PrunedHistory(e, job[j].at)
        BY <1>1, <2>2, <2>3 DEF Known
      <3>2. graph[e] # NoEntity
        BY <2>2, <2>3 DEF Known
      <3> QED
        BY <1>1, <2>1, <2>3, <3>1, <3>2, PruningKeepsOpen
    <2> QED
      BY <1>2, <2>2, <2>3
  <1>7. ASSUME NEW j \in Jobs,
               Start(j) \/ Collect(j) \/ Stage(j) \/ Mark(j) \/ PruneJournal(j) \/ Abort(j)
        PROVE  RetirementInv'
    <2>1. UNCHANGED graphVars /\ UNCHANGED now
      BY <1>7 DEF Start, Collect, Stage, Mark, PruneJournal, Abort
    <2> QED
      BY <1>1, <1>3, <2>1
  <1>8. ASSUME NEW i \in Incidents, CollectEvidence(i) \/ DropEvidence(i) PROVE RetirementInv'
    <2>1. UNCHANGED graphVars /\ UNCHANGED now
      BY <1>8 DEF CollectEvidence, DropEvidence
    <2> QED
      BY <1>1, <1>3, <2>1
  <1>9. ASSUME NEW i \in Incidents, PinContext(i) PROVE RetirementInv'
    <2>1. UNCHANGED <<graph, tied, now>>
      BY <1>9 DEF PinContext, PinIncidentHistory
    <2> QED
      BY <1>1, <1>2, <2>1
  <1>10. CASE Tick
    <2>1. UNCHANGED graphVars /\ now' \in Nat /\ now' >= now
      BY <1>1, <1>10 DEF Tick
    <2> QED
      BY <1>3, <2>1
  <1>11. CASE UNCHANGED vars
    <2>1. UNCHANGED graphVars /\ now' \in Nat /\ now' >= now
      BY <1>1, <1>11 DEF vars, graphVars
    <2> QED
      BY <1>3, <2>1
  <1> QED
    BY <1>4, <1>5, <1>6, <1>7, <1>8, <1>9, <1>10, <1>11 DEF Next, JobStep

(* What the last inventory of the cluster did not contain has no current    *)
(* state, as long as nobody writes with a time older than the ordinary       *)
(* history (_reconcile_projection_tx and _upsert_entity_tx).                *)
THEOREM RetiredEntitiesAreClosed ==
    HistoryOutlivesWriters => (Spec => []RetiredIsClosed)
  <1> SUFFICES ASSUME HistoryOutlivesWriters PROVE Spec => []RetiredIsClosed
    OBVIOUS
  <1>1. Init => WritersAreInTime /\ RetirementInv
    BY IdleIsRun DEF Init, GraphInit, JournalInit, WritersAreInTime, RetirementInv, Known
  <1>2. WritersInv /\ WritersAreInTime /\ RetirementInv /\ [Next]_vars
            => WritersAreInTime' /\ RetirementInv'
    BY TimesAreKept, RetirementKeeps
  <1>3. RetirementInv => RetiredIsClosed
    BY DEF RetirementInv, ExistsWhileOpen, RetiredIsClosed
  <1> QED
    BY <1>1, <1>2, <1>3, WritersAreConsistent, PTL DEF Spec
=============================================================================
