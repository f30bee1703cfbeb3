--------------------------- MODULE DeploymentHistory ---------------------------
(***************************************************************************)
(* DeploymentHistoryProvider (providers/change.py): it lists the ReplicaSets  *)
(* of the namespace page by page, reads each Deployment by name and compares  *)
(* the retained pod templates.  Meanwhile, and in the Incident window, the    *)
(* one Deployment that exists is rolled out and rolled back: the Deployment    *)
(* controller makes a ReplicaSet for a new template, gives the old one a new   *)
(* revision when its template comes back, and prunes those beyond the         *)
(* revisionHistoryLimit.                                                    *)
(*                                                                         *)
(* source is [names, now, sets, template, annotated, changed]: names is what  *)
(* is asked for, a ReplicaSet is [template, revision, created], revision 0     *)
(* when it cannot be read, and changed are the times at which the template of  *)
(* the Deployment changed.                                                  *)
(***************************************************************************)
EXTENDS ProviderAttempt, Functions, SequencesExt, Ordering

CONSTANTS
    Rolled,           \* the Deployment that exists
    Templates,        \* its pod templates, numbers
    HistoryLimit,     \* its revisionHistoryLimit
    SetPage,          \* page_size
    MaxReplicaSets,   \* max_replica_sets
    LastTick,         \* bound on the clock
    LastRevision      \* bound on the revisions

ASSUME HistoryLimits ==
    /\ SetPage \in Nat \ {0} /\ MaxReplicaSets \in Nat \ {0} /\ Templates \subseteq Nat

\* The controller keeps one ReplicaSet for a template, and gives no revision twice.
SetsAreKept(sets) ==
    /\ IsFiniteSet(sets)
    /\ \A s \in sets : DOMAIN s = {"template", "revision", "created"}
                        /\ s.template \in Nat /\ s.revision \in Nat /\ s.created \in Int
    /\ \A s, t \in sets : s.template = t.template \/ (s.revision = t.revision /\ s.revision > 0) => s = t

ControllerHolds(state) ==
    /\ DOMAIN state = {"names", "now", "sets", "template", "annotated", "changed"}
    /\ state.names \in Seq(Range(state.names)) /\ state.names # <<>> /\ IsInjective(state.names)
    /\ SetsAreKept(state.sets) /\ state.now \in Nat

\* The names of the scope.
Deployments == source.names

Revisions(sets) == {s.revision : s \in sets}

Latest(sets) == IF sets = {} THEN 0 ELSE Max(Revisions(sets))

ClockTicks ==
    /\ Working("deployments") /\ source.now < LastTick
    /\ source' = [source EXCEPT !.now = @ + 1]
    /\ UNCHANGED attempt

\* At most HistoryLimit old ones stay, those with the highest revisions.
Pruned(sets, template) ==
    {s \in sets : s.template = template
                  \/ Cardinality({t \in sets : t.template # template /\ t.revision > s.revision}) < HistoryLimit}

RollOut ==
    /\ Working("deployments") /\ Latest(source.sets) < LastRevision
    /\ \E template \in Templates \ {source.template} :
        LET next == Latest(source.sets) + 1
            old == {s \in source.sets : s.template = template}
            set == IF old = {} THEN [template |-> template, revision |-> next, created |-> source.now]
                   ELSE [(CHOOSE s \in old : TRUE) EXCEPT !.revision = next]
        IN  source' = [source EXCEPT !.sets = Pruned((@ \ old) \cup {set}, template), !.template = template,
                                     !.changed = @ \cup {source.now}]
    /\ UNCHANGED attempt

-----------------------------------------------------------------------------
\* read: ReplicaSets listed, the rest of the snapshot, and how the list stands.
NoList == [sets |-> <<>>, open |-> FALSE, rest |-> <<>>, restarted |-> FALSE, listed |-> FALSE, truncated |-> FALSE]

List == IF attempt.read = <<>> THEN NoList ELSE attempt.read

\* The list is in the order of the names, which depend on the template.
InOrder(sets) == Ordered(sets, LAMBDA s, t : s.template < t.template)

\* The window ends before the request is made.
ListReplicaSets ==
    /\ Working("deployments") /\ ~List.listed /\ source.now >= Window[2]
    /\ LET rest == IF List.open THEN List.rest ELSE InOrder(source.sets)
           n == Min({SetPage, MaxReplicaSets - Len(List.sets), Len(rest)})
           sets == List.sets \o SubSeq(rest, 1, n)
           more == n < Len(rest)
           full == Len(sets) >= MaxReplicaSets
       IN  \/ attempt' = [attempt EXCEPT !.read =
                [List EXCEPT !.sets = sets, !.open = TRUE, !.rest = SubSeq(rest, n + 1, Len(rest)),
                             !.listed = ~more \/ full, !.truncated = more /\ full]]
           \/ List.open /\ ~List.restarted /\ attempt' = [attempt EXCEPT !.read = [NoList EXCEPT !.restarted = TRUE]]
           \/ Fails
    /\ UNCHANGED source

ChangeFacts(status, retained) ==
    [featureSet |-> "none", status |-> status, retained |-> retained, changed |-> {},
     revision |-> 0, previous |-> 0, current |-> 0]

PreviousRevision(owned, revision) == LET before == {r \in Revisions(owned) : r < revision}
                                     IN  IF before = {} THEN 0 ELSE Max(before)

ChangeDraft(name, set, owned, completeness) ==
    Drafted(ChangeOrigin, Subject("Deployment", name, name), set.created, completeness,
        [featureSet |-> "none", status |-> "CHANGE_DETECTED", retained |-> Cardinality(owned), changed |-> {"pod_template"},
         revision |-> set.revision, previous |-> PreviousRevision(owned, set.revision), current |-> 0,
         template |-> set.template])

\* What the Deployment's revisions say, and whether the answer is partial.
History(name) ==
    LET listed == Range(List.sets)
        owned == {s \in listed : s.revision > 0}
        malformed == \E s \in listed : s.revision = 0
        current == IF source.annotated THEN Latest(source.sets) ELSE Latest(owned)
        completeness == IF List.truncated \/ malformed THEN 6 ELSE 10
        incomplete == List.truncated \/ malformed \/ current = 0
        inWindow == {s \in owned : Within(s.created)}
        absence == Drafted(ChangeOrigin, Subject("Deployment", name, name), Window[2], completeness,
                        [ChangeFacts(IF incomplete THEN "HISTORY_INCOMPLETE" ELSE "NO_CHANGES", Cardinality(owned))
                            EXCEPT !.current = current])
    IN  [drafts |-> IF inWindow = {} THEN {absence} ELSE {ChangeDraft(name, s, owned, completeness) : s \in inWindow},
         partial |-> incomplete]

NotFound(name) ==
    [drafts |-> {Drafted(ChangeOrigin, [Subject("Deployment", name, Unidentified) EXCEPT !.exists = FALSE],
                         Window[2], 0, ChangeFacts("DEPLOYMENT_NOT_FOUND", 0))},
     partial |-> TRUE]

\* By Deployment, then by revision.
DraftedBefore(d, e) ==
    LET Place(x) == CHOOSE k \in DOMAIN Deployments : Deployments[k] = x.subject.name
    IN  Place(d) < Place(e) \/ (Place(d) = Place(e) /\ d.facts.revision < e.facts.revision)

\* The next Deployment; after the last, the drafts up to the limit.
Recorded(drafts, partial) ==
    LET all == attempt.drafts \cup drafts
    IN  IF attempt.at < Len(Deployments)
        THEN attempt' = [attempt EXCEPT !.at = @ + 1, !.drafts = all, !.partial = partial]
        ELSE IF all = {} THEN Abandon("permanent")
        ELSE IF Cardinality(all) > MaxDrafts
        THEN Deliver(Range(SubSeq(Ordered(all, DraftedBefore), 1, MaxDrafts)), TRUE)
        ELSE Deliver(all, partial)

GetDeployment ==
    /\ Working("deployments") /\ List.listed
    /\ LET name == Deployments[attempt.at]
           answer == IF name = Rolled THEN History(name) ELSE NotFound(name)
           partial == attempt.partial \/ List.truncated
       IN  \/ Recorded(answer.drafts, partial \/ answer.partial)
           \/ Recorded({}, TRUE)  \* any ProviderError
    /\ UNCHANGED source

-----------------------------------------------------------------------------
\* A template that came into the window with a ReplicaSet that is still there is reported.
ChangesAreExact ==
    \A s \in source.sets :
        s.revision > 0 /\ Window[1] <= s.created /\ s.created < Window[2] =>
            \E e \in attempt.drafts : e.facts.status = "CHANGE_DETECTED" /\ e.facts.template = s.template

(* "If there is no change NO_CHANGES is returned, and HISTORY_INCOMPLETE when *)
(* it cannot be told because of retention or truncation"                     *)
(* (contracts/providers.md): the template of a Deployment that is reported     *)
(* as unchanged did not change within the window.                           *)
NoChangesMeansUnchanged ==
    Produced("deployments") =>
        \A e \in attempt.drafts : e.facts.status = "NO_CHANGES" =>
            ~\E t \in source.changed : Window[1] <= t /\ t < Window[2]
=============================================================================
