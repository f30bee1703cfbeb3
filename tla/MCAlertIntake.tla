--------------------------- MODULE MCAlertIntake ---------------------------
EXTENDS AlertIntake, TLC

\* Requests, Incidents and resolution times are only compared for equality.
IntakeSymmetry == Permutations(Receivers) \cup Permutations(Keys) \cup Permutations(Ends)

\* Of two alerts in a webhook the second is a resolution.
SecondResolves(batch) == Len(batch) > 1 => batch[Len(batch)].end # NoEnd

MCNext == Next /\ \A r \in Receivers : SecondResolves(request'[r].batch)

MCSpec == Init /\ [][MCNext]_vars
=============================================================================
