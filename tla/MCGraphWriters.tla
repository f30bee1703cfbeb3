--------------------------- MODULE MCGraphWriters --------------------------
(***************************************************************************)
(* Two kinds of behaviour: two jobs that overlap and Entities that change,    *)
(* or one job at a time and an Incident with late Evidence on Entities that    *)
(* come and go.                                                            *)
(***************************************************************************)
EXTENDS GraphWriters, Functions, TLC

CONSTANT OneState   \* the state of an Entity where an Incident is observed

VARIABLE incidents  \* which kind it is

\* States are not symmetric: their order breaks ties.
GraphSymmetry == Permutations(Jobs) \cup Permutations(Incidents) \cup Permutations(Entities)

Narrow ==
    IF incidents
    THEN /\ now < Interval - 1
         /\ \A j, k \in Jobs : job[j] # Idle /\ job[k] # Idle => j = k
         /\ \A j \in Jobs : Range(job[j].seen) \subseteq {OneState, Gone}
         /\ \A i \in Incidents : evidence[i] # NoEvidence => Range(evidence[i].seen) \subseteq {OneState, Gone}
    ELSE evidence = [i \in Incidents |-> NoEvidence]

MCNext == Next /\ UNCHANGED incidents /\ Narrow'

MCInit == Init /\ incidents \in BOOLEAN

MCSpec == MCInit /\ [][MCNext]_<<vars, incidents>>
=============================================================================
