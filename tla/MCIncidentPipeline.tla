------------------------- MODULE MCIncidentPipeline ------------------------
EXTENDS IncidentPipeline, TLC

\* Workers of a kind run the same program and are never compared.
WorkerSymmetry == Permutations(IncidentWorkers) \cup Permutations(ContinuousAgents)

-----------------------------------------------------------------------------
(* Smaller state spaces: some leases do not run out.  Every behaviour of    *)
(* these is one of the pipeline's; a fair one is free of a worker that dies *)
(* in the stage whose lease is kept.                                        *)

\* Where analyses overlap, no collection is claimed twice.
OverlapNext == Next /\ \A i \in Incidents : work'["collection"][i].lease # "expired"

OverlapSpec == Init /\ [][OverlapNext]_vars

\* Of the three stages of an Incident, one is finished by its first claim.
Overruns(s, i) == work[s][i].lease = "expired" \/ work[s][i].attempts > 1

OneStageInTime == \A i \in Incidents : \E s \in Stages : ~Overruns(s, i)

ProgressSpec == Init /\ [][Next /\ OneStageInTime']_vars /\ Fairness
=============================================================================
