----------------------------- MODULE AlertIntake ---------------------------
(***************************************************************************)
(* The Alertmanager receiver: AlertmanagerIngestionService.ingest behind   *)
(* AlertmanagerHTTPReceiver.handle, many requests at a time, against the   *)
(* incidents table the workers update meanwhile.                           *)
(*                                                                         *)
(* An Incident is one JSON document.  Every update reads the document,     *)
(* changes a copy and writes the whole copy back, so an update that does   *)
(* not hold the row lock across both would undo somebody else's: read and  *)
(* write are separate steps here and the lock is explicit.                 *)
(*                                                                         *)
(* Alertmanager is external: it may send any batch at any time, again, and *)
(* in any order.  Webhooks refused before the repository is touched (bad   *)
(* token, bad JSON, an alert that does not normalize) change nothing and   *)
(* are left out.                                                           *)
(***************************************************************************)
EXTENDS Naturals, Sequences

CONSTANTS
    Receivers,   \* requests handled at a time
    Workers,     \* other transactions that update Incidents
    Keys,        \* deduplication keys
    Ends,        \* resolution times
    NoEnd,       \* incident_end of a firing alert
    NoDocument,  \* an Incident that does not exist
    Nobody,      \* holder of a free row lock
    MaxAlerts,   \* bound: alerts per webhook
    MaxStage     \* bound: other updates per Incident

ASSUME NoEndAssumption == NoEnd \notin Ends
ASSUME NobodyAssumption == Nobody \notin Receivers \cup Workers
ASSUME SeparateAssumption == Receivers \cap Workers = {}
ASSUME BoundsAssumption == MaxAlerts \in Nat \ {0} /\ MaxStage \in Nat

VARIABLES
    incident,  \* the table: key -> document
    lock,      \* row locks: key -> holder
    audit,     \* audit events per key: Incidents created, resolutions recorded
    request,   \* the request a receiver handles, or the last one it answered
    update     \* the update a worker's open transaction makes

vars == <<incident, lock, audit, request, update>>

-----------------------------------------------------------------------------
(* Types                                                                   *)

Document == [end : Ends \cup {NoEnd}, stage : 0..MaxStage]
ASSUME NoDocumentAssumption == NoDocument \notin Document

Alert == [key : Keys, end : Ends \cup {NoEnd}]
Batch == UNION {[1..n -> Alert] : n \in 1..MaxAlerts}

Phases == {"create", "resolve", "write", "answered"}
Answers == {"none", "ACCEPTED", "CONFLICT"}
Copies == Document \cup {NoDocument}
Request == [phase : Phases, batch : Seq(Alert), at : Nat, copy : Copies, answer : Answers]
Update == [open : BOOLEAN, key : Keys, copy : Copies]

NoRequest == [phase |-> "answered", batch |-> << >>, at |-> 1, copy |-> NoDocument,
              answer |-> "none"]

AlertOf(r) == request[r].batch[request[r].at]

TypeOK ==
    /\ incident \in [Keys -> Copies]
    /\ lock \in [Keys -> Receivers \cup Workers \cup {Nobody}]
    /\ audit \in [Keys -> [created : Nat, resolved : Nat]]
    /\ request \in [Receivers -> Request]
    /\ \A r \in Receivers : request[r].phase # "answered" =>
            request[r].at \in 1..Len(request[r].batch)
    /\ update \in [Workers -> Update]

Init ==
    /\ incident = [k \in Keys |-> NoDocument]
    /\ lock = [k \in Keys |-> Nobody]
    /\ audit = [k \in Keys |-> [created |-> 0, resolved |-> 0]]
    /\ request = [r \in Receivers |-> NoRequest]
    /\ update \in [Workers -> [open : {FALSE}, key : Keys, copy : {NoDocument}]]

-----------------------------------------------------------------------------
(* One request                                                             *)

Answered(r, answer) ==
    request' = [request EXCEPT ![r] = [@ EXCEPT !.phase = "answered",
                                                !.answer = answer,
                                                !.copy = NoDocument]]

NextAlert(r) ==
    IF request[r].at = Len(request[r].batch)
    THEN Answered(r, "ACCEPTED")
    ELSE request' = [request EXCEPT ![r] = [@ EXCEPT !.phase = "create",
                                                     !.at = request[r].at + 1,
                                                     !.copy = NoDocument]]

Deliver(r, batch) ==
    /\ request[r].phase = "answered"
    /\ request' = [request EXCEPT ![r] = [phase |-> "create", batch |-> batch, at |-> 1,
                                          copy |-> NoDocument, answer |-> "none"]]
    /\ UNCHANGED <<incident, lock, audit, update>>

(* create_or_get_by_deduplication_key: INSERT ... ON CONFLICT DO NOTHING,  *)
(* then a read of the owner, in one transaction.                           *)
CreateIncident(r) ==
    LET alert == AlertOf(r) IN
    /\ incident[alert.key] = NoDocument
    /\ incident' = [incident EXCEPT ![alert.key] = [end |-> alert.end, stage |-> 0]]
    /\ audit' = [audit EXCEPT ![alert.key].created = @ + 1]
    /\ NextAlert(r)

\* Mutant: whatever repeats a known Incident is a duplicate, resolved or not.
GetIncidentOnly(r) ==
    /\ incident[AlertOf(r).key] # NoDocument
    /\ NextAlert(r)
    /\ UNCHANGED <<incident, audit>>

GetIncident(r) ==
    /\ incident[AlertOf(r).key] # NoDocument
    /\ IF AlertOf(r).end = NoEnd
       THEN NextAlert(r)
       ELSE request' = [request EXCEPT ![r] = [@ EXCEPT !.phase = "resolve"]]
    /\ UNCHANGED <<incident, audit>>

CreateOrGet(r) ==
    /\ request[r].phase = "create"
    /\ CreateIncident(r) \/ GetIncident(r)
    /\ UNCHANGED <<lock, update>>

-----------------------------------------------------------------------------
(* record_alert_resolution, a transaction of its own                       *)

Lockable(k) == incident[k] # NoDocument /\ lock[k] = Nobody

\* Mutants: a known end is a conflict even when it is the same; the latest
\* webhook wins.
NotYetResolved(k, end) == incident[k].end = NoEnd
ResolvableAnyway(k, end) == end \in Ends

Resolvable(k, end) == incident[k].end \in {NoEnd, end}

ReadResolution(r) ==
    LET k == AlertOf(r).key IN
    /\ request[r].phase = "resolve"
    /\ Lockable(k)
    /\ IF Resolvable(k, AlertOf(r).end)
       THEN /\ lock' = [lock EXCEPT ![k] = r]
            /\ request' = [request EXCEPT ![r] = [@ EXCEPT !.phase = "write",
                                                            !.copy = incident[k]]]
       ELSE /\ Answered(r, "CONFLICT")
            /\ UNCHANGED lock
    /\ UNCHANGED <<incident, audit, update>>

\* Mutant: the event is appended for every resolution, repeated or not.
AuditEveryResolution(r) ==
    audit' = [audit EXCEPT ![AlertOf(r).key].resolved = @ + 1]

AuditResolution(r) ==
    audit' = [audit EXCEPT ![AlertOf(r).key].resolved =
                  IF request[r].copy.end = NoEnd THEN @ + 1 ELSE @]

WriteResolution(r) ==
    LET k == AlertOf(r).key IN
    /\ request[r].phase = "write"
    /\ incident' = [incident EXCEPT ![k] = [request[r].copy EXCEPT !.end = AlertOf(r).end]]
    /\ AuditResolution(r)
    /\ lock' = [lock EXCEPT ![k] = Nobody]
    /\ NextAlert(r)
    /\ UNCHANGED update

(* The request ends in an unexpected exception, or its process dies: the   *)
(* open transaction is rolled back, the committed ones stay, and           *)
(* Alertmanager sees a 500 or a broken connection.                         *)
LoseRequest(r) ==
    /\ request[r].phase # "answered"
    /\ lock' = [k \in Keys |-> IF lock[k] = r THEN Nobody ELSE lock[k]]
    /\ request' = [request EXCEPT ![r] = NoRequest]
    /\ UNCHANGED <<incident, audit, update>>

-----------------------------------------------------------------------------
(* What the workers do to the same documents: transition and               *)
(* replace_collector_statuses lock, read and write back like the resolution *)

ReadUpdate(w, k) ==
    /\ ~update[w].open
    /\ Lockable(k)
    /\ incident[k].stage < MaxStage
    /\ lock' = [lock EXCEPT ![k] = w]
    /\ update' = [update EXCEPT ![w] = [open |-> TRUE, key |-> k, copy |-> incident[k]]]
    /\ UNCHANGED <<incident, audit, request>>

CloseUpdate(w) ==
    /\ update[w].open
    /\ lock' = [lock EXCEPT ![update[w].key] = Nobody]
    /\ update' = [update EXCEPT ![w] = [@ EXCEPT !.open = FALSE, !.copy = NoDocument]]
    /\ UNCHANGED <<audit, request>>

WriteUpdate(w) ==
    /\ CloseUpdate(w)
    /\ incident' = [incident EXCEPT ![update[w].key] =
                        [update[w].copy EXCEPT !.stage = @ + 1]]

RollBackUpdate(w) ==
    /\ CloseUpdate(w)
    /\ UNCHANGED incident

-----------------------------------------------------------------------------
(* Specification                                                           *)

Next ==
    \/ \E r \in Receivers :
          \/ \E batch \in Batch : Deliver(r, batch)
          \/ CreateOrGet(r)
          \/ ReadResolution(r)
          \/ WriteResolution(r)
          \/ LoseRequest(r)
    \/ \E w \in Workers :
          \/ \E k \in Keys : ReadUpdate(w, k)
          \/ WriteUpdate(w)
          \/ RollBackUpdate(w)

Spec == Init /\ [][Next]_vars

-----------------------------------------------------------------------------
(* Properties                                                              *)

Recorded(alert) ==
    /\ incident[alert.key] # NoDocument
    /\ alert.end # NoEnd => incident[alert.key].end = alert.end

(* Alertmanager forgets what was answered 202: every alert of the batch    *)
(* has its Incident and every resolution is in it, for good, whatever      *)
(* other requests and workers were writing.                                *)
AcceptedIsRecorded ==
    \A r \in Receivers :
        request[r].answer = "ACCEPTED" =>
            \A n \in 1..Len(request[r].batch) : Recorded(request[r].batch[n])

(* A 409 is never the effect of a redelivery: the Incident it complains    *)
(* about has an end and it is another one.                                 *)
ConflictIsReal ==
    \A r \in Receivers :
        request[r].answer = "CONFLICT" =>
            /\ incident[AlertOf(r).key] # NoDocument
            /\ incident[AlertOf(r).key].end \notin {NoEnd, AlertOf(r).end}

(* However often a webhook is repeated, the audit trail has one creation   *)
(* per Incident and at most one resolution, of an Incident that has an end; *)
(* one that was created with its end has no resolution of its own.         *)
AuditedOnce ==
    \A k \in Keys :
        /\ audit[k].created = (IF incident[k] = NoDocument THEN 0 ELSE 1)
        /\ audit[k].resolved <= 1
        /\ audit[k].resolved = 1 => incident[k] # NoDocument /\ incident[k].end # NoEnd

(* Nothing undoes a resolution: not a late firing alert, not another end,  *)
(* not a worker writing back the document it read before.                  *)
EndIsFinal ==
    [][\A k \in Keys :
          incident[k] # NoDocument =>
              /\ incident'[k] # NoDocument
              /\ incident[k].end # NoEnd => incident'[k].end = incident[k].end]_vars

=============================================================================
