------------------------- MODULE IncidentLifecycle -------------------------
(***************************************************************************)
(* What the platform promises about one Incident, whoever is working on    *)
(* it: the status graph of repository.py, a Context frozen before the      *)
(* Agent may analyse, a report stored before the Incident says REPORTED.   *)
(* Queues, leases, workers and crashes do not exist at this level;         *)
(* IncidentPipeline is shown to implement it.                              *)
(***************************************************************************)
CONSTANT Incidents

VARIABLES
    status,     \* the lifecycle status of every Incident
    frozen,     \* does the Incident have a frozen Context Package?
    published   \* does the Incident have a stored RCA report?

vars == <<status, frozen, published>>

\* "NEW" is an alert the receiver has not persisted yet.
Statuses == {"NEW", "RECEIVED", "COLLECTING", "LOCALIZING", "ANALYZING",
             "REPORTED", "PARTIAL", "FAILED"}

Terminal == {"REPORTED", "PARTIAL", "FAILED"}

AllowedTransitions ==
    [s \in Statuses |->
        CASE s = "NEW"        -> {"RECEIVED"}
          [] s = "RECEIVED"   -> {"COLLECTING", "FAILED"}
          [] s = "COLLECTING" -> {"LOCALIZING", "PARTIAL", "FAILED"}
          [] s = "LOCALIZING" -> {"ANALYZING", "PARTIAL", "FAILED"}
          [] s = "ANALYZING"  -> {"REPORTED", "PARTIAL", "FAILED"}
          [] OTHER            -> {}]

Init ==
    /\ status = [i \in Incidents |-> "NEW"]
    /\ frozen = [i \in Incidents |-> FALSE]
    /\ published = [i \in Incidents |-> FALSE]

(* One step of one or several Incidents (a reaper fails a whole batch).    *)
Advance ==
    /\ status' \in [Incidents -> Statuses]
    /\ \A i \in Incidents :
        status'[i] # status[i] =>
            /\ status'[i] \in AllowedTransitions[status[i]]
            /\ status'[i] = "ANALYZING" => frozen[i]
            /\ status'[i] = "REPORTED" => published[i]
    /\ UNCHANGED <<frozen, published>>

Freeze(i) ==
    /\ status[i] \notin {"NEW", "RECEIVED", "COLLECTING"}
    /\ frozen' = [frozen EXCEPT ![i] = TRUE]
    /\ UNCHANGED <<status, published>>

(* A report may also arrive late, from a worker that has lost its claim.   *)
Publish(i) ==
    /\ status[i] \in {"ANALYZING"} \cup Terminal
    /\ frozen[i]
    /\ published' = [published EXCEPT ![i] = TRUE]
    /\ UNCHANGED <<status, frozen>>

Next == Advance \/ \E i \in Incidents : Freeze(i) \/ Publish(i)

Spec == Init /\ [][Next]_vars
=============================================================================
