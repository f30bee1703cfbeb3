------------------------- MODULE AlertIntake_proofs ------------------------
(***************************************************************************)
(* Type correctness of AlertIntake, and that the alerts of a webhook       *)
(* answered 202 are recorded for good.                                     *)
(*                                                                         *)
(* The inductive invariant says what a row lock is for: whoever is about   *)
(* to write a document back holds its lock and a copy that is still what   *)
(* the table holds.  From it every step keeps the documents there and      *)
(* their ends (DocumentsKept), so what a request has recorded stays        *)
(* recorded while it works through the rest of its batch.                  *)
(***************************************************************************)
EXTENDS AlertIntake, TLAPS

(* A request or an update about to write holds the lock, and its copy is   *)
(* current.                                                                *)
CopiesAreCurrent ==
    /\ \A r \in Receivers : request[r].phase \in {"resolve", "write"} =>
            /\ AlertOf(r).end # NoEnd
            /\ incident[AlertOf(r).key] # NoDocument
    /\ \A r \in Receivers : request[r].phase = "write" =>
            /\ lock[AlertOf(r).key] = r
            /\ request[r].copy = incident[AlertOf(r).key]
            /\ request[r].copy.end \in {NoEnd, AlertOf(r).end}
    /\ \A w \in Workers : update[w].open =>
            /\ lock[update[w].key] = w
            /\ update[w].copy = incident[update[w].key]
            /\ incident[update[w].key] # NoDocument
            /\ update[w].copy.stage < MaxStage

(* Every alert a request has got past is recorded.                         *)
ProcessedIsRecorded ==
    \A r \in Receivers : \A n \in 1..Len(request[r].batch) :
        n < request[r].at \/ request[r].answer = "ACCEPTED" => Recorded(request[r].batch[n])

IntakeInv == TypeOK /\ CopiesAreCurrent /\ ProcessedIsRecorded

(* What no step undoes.                                                    *)
DocumentsKept ==
    \A k \in Keys : incident[k] # NoDocument =>
        /\ incident'[k] # NoDocument
        /\ incident[k].end # NoEnd => incident'[k].end = incident[k].end


-----------------------------------------------------------------------------
(* What the steps of one request do to its record                          *)

LEMMA BatchesAreSequences ==
    ASSUME NEW batch \in Batch
    PROVE  /\ batch \in Seq(Alert)
           /\ Len(batch) \in Nat \ {0}
  <1>1. PICK n \in 1..MaxAlerts : batch \in [1..n -> Alert]
    BY DEF Batch
  <1>2. n \in Nat \ {0}
    BY <1>1, BoundsAssumption
  <1>3. Len(batch) = n /\ batch \in Seq(Alert)
    BY <1>1, <1>2
  <1> QED
    BY <1>2, <1>3

LEMMA CurrentAlert ==
    ASSUME TypeOK, NEW r \in Receivers, request[r].phase # "answered"
    PROVE  /\ request[r].at \in 1..Len(request[r].batch)
           /\ AlertOf(r) \in Alert
           /\ AlertOf(r).key \in Keys
           /\ AlertOf(r).end \in Ends \cup {NoEnd}
  <1>1. request[r] \in Request /\ request[r].at \in 1..Len(request[r].batch)
    BY DEF TypeOK
  <1>2. request[r].batch \in Seq(Alert)
    BY <1>1 DEF Request
  <1>3. AlertOf(r) \in Alert
    BY <1>1, <1>2 DEF AlertOf
  <1> QED
    BY <1>1, <1>3 DEF Alert

LEMMA NextAlertStep ==
    ASSUME TypeOK, NEW r \in Receivers, request[r].phase # "answered", NextAlert(r)
    PROVE  /\ request' \in [Receivers -> Request]
           /\ \A q \in Receivers \ {r} : request'[q] = request[q]
           /\ request'[r].batch = request[r].batch
           /\ \/ /\ request'[r].phase = "create"
                 /\ request'[r].at = request[r].at + 1
                 /\ request'[r].at \in 1..Len(request[r].batch)
                 /\ request'[r].answer = request[r].answer
              \/ /\ request'[r].phase = "answered"
                 /\ request'[r].at = request[r].at
                 /\ request[r].at = Len(request[r].batch)
  <1>1. request[r].at \in 1..Len(request[r].batch) /\ request[r] \in Request
    BY CurrentAlert DEF TypeOK
  <1>2. Len(request[r].batch) \in Nat
    BY <1>1 DEF Request
  <1>3. CASE request[r].at = Len(request[r].batch)
    <2> DEFINE new == [request[r] EXCEPT !.phase = "answered", !.answer = "ACCEPTED",
                                         !.copy = NoDocument]
    <2>1. request' = [request EXCEPT ![r] = new]
      BY <1>3 DEF NextAlert, Answered
    <2>2. new \in Request /\ new.batch = request[r].batch /\ new.at = request[r].at
          /\ new.phase = "answered"
      BY <1>1 DEF Request, Answers, Phases, Copies
    <2> HIDE DEF new
    <2> QED
      BY <2>1, <2>2, <1>3 DEF TypeOK
  <1>4. CASE request[r].at # Len(request[r].batch)
    <2> DEFINE new == [request[r] EXCEPT !.phase = "create", !.at = request[r].at + 1,
                                         !.copy = NoDocument]
    <2>1. request' = [request EXCEPT ![r] = new]
      BY <1>4 DEF NextAlert
    <2>2. request[r].at + 1 \in Nat
      BY <1>1 DEF Request
    <2>3. new \in Request /\ new.batch = request[r].batch /\ new.at = request[r].at + 1
          /\ new.phase = "create" /\ new.answer = request[r].answer
      BY <1>1, <2>2 DEF Request, Answers, Phases, Copies
    <2>4. request[r].at + 1 \in 1..Len(request[r].batch)
      BY <1>1, <1>2, <1>4
    <2> HIDE DEF new
    <2> QED
      BY <2>1, <2>3, <2>4 DEF TypeOK
  <1> QED
    BY <1>3, <1>4

\* What the invariants need of it: requests keep their type, and none is in the middle
\* of an update but those that were.
LEMMA NextAlertKeepsRequests ==
    ASSUME TypeOK, NEW r \in Receivers, request[r].phase # "answered", NextAlert(r)
    PROVE  /\ request' \in [Receivers -> Request]
           /\ \A q \in Receivers : request'[q].phase # "answered" =>
                    request'[q].at \in 1..Len(request'[q].batch)
           /\ \A q \in Receivers : request'[q].phase \in {"resolve", "write"} =>
                    q # r /\ request'[q] = request[q]
  <1>1. /\ request' \in [Receivers -> Request]
        /\ \A q \in Receivers \ {r} : request'[q] = request[q]
        /\ request'[r].batch = request[r].batch
        /\ \/ request'[r].phase = "create" /\ request'[r].at \in 1..Len(request[r].batch)
           \/ request'[r].phase = "answered"
    BY NextAlertStep
  <1>2. \A q \in Receivers : request[q].phase # "answered" =>
            request[q].at \in 1..Len(request[q].batch)
    BY DEF TypeOK
  <1> QED
    BY <1>1, <1>2

LEMMA RecordedStays ==
    ASSUME DocumentsKept, NEW a \in Alert, Recorded(a)
    PROVE  Recorded(a)'
  BY DEF DocumentsKept, Recorded, Alert

(* A step that keeps the documents and moves a request past an alert that  *)
(* is now recorded keeps ProcessedIsRecorded.                              *)
LEMMA PassingRecorded ==
    ASSUME TypeOK, ProcessedIsRecorded, DocumentsKept,
           NEW r \in Receivers, request[r].phase # "answered",
           NextAlert(r), NEW a, a = AlertOf(r), Recorded(a)'
    PROVE  ProcessedIsRecorded'
  <1> SUFFICES ASSUME NEW q \in Receivers, NEW n \in 1..Len(request'[q].batch),
                      n < request'[q].at \/ request'[q].answer = "ACCEPTED"
               PROVE  Recorded(request[q].batch[n])'
    BY DEF ProcessedIsRecorded
  <1>1. request'[q].batch = request[q].batch /\ request[q] \in Request
    BY NextAlertStep DEF TypeOK
  <1>2. request[q].batch[n] \in Alert
    BY <1>1 DEF Request
  <1>3. CASE q # r
    <2>1. Recorded(request[q].batch[n])
      BY <1>1, <1>3, NextAlertStep DEF ProcessedIsRecorded
    <2> QED
      BY <2>1, <1>1, <1>2, RecordedStays DEF Recorded
  <1>4. CASE q = r /\ n < request[r].at
    <2>1. Recorded(request[q].batch[n])
      BY <1>1, <1>4 DEF ProcessedIsRecorded
    <2> QED
      BY <2>1, <1>1, <1>2, RecordedStays DEF Recorded
  <1>5. CASE q = r /\ n = request[r].at
    BY <1>1, <1>5 DEF Recorded, AlertOf
  <1>6. CASE q = r /\ n > request[r].at
    <2>1. request[r].at \in 1..Len(request[r].batch) /\ Len(request[r].batch) \in Nat
      BY CurrentAlert, <1>1, <1>6 DEF Request
    <2>2. ~(n < request'[r].at)
      BY <1>6, <2>1, NextAlertStep, <1>1
    <2>3. request'[r].phase = "create" /\ request'[r].answer = request[r].answer
      BY <1>6, <2>1, NextAlertStep, <1>1
    <2>4. request[r].answer = "ACCEPTED"
      BY <2>2, <2>3, <1>6
    <2>5. Recorded(request[q].batch[n])
      BY <2>4, <1>1, <1>6 DEF ProcessedIsRecorded
    <2> QED
      BY <2>5, <1>1, <1>2, RecordedStays DEF Recorded
  <1>7. n \in Nat /\ request[r].at \in Nat
    BY CurrentAlert, <1>1 DEF Request
  <1> QED
    BY <1>3, <1>4, <1>5, <1>6, <1>7

(* A step that leaves the other requests alone and keeps the documents     *)
(* keeps what they have processed.                                         *)
LEMMA OthersProcessed ==
    ASSUME TypeOK, ProcessedIsRecorded, DocumentsKept,
           NEW q \in Receivers, request'[q] = request[q],
           NEW n \in 1..Len(request[q].batch),
           n < request[q].at \/ request[q].answer = "ACCEPTED"
    PROVE  Recorded(request[q].batch[n])'
  <1>1. request[q].batch[n] \in Alert
    BY DEF TypeOK, Request
  <1>2. Recorded(request[q].batch[n])
    BY DEF ProcessedIsRecorded
  <1> QED
    BY <1>1, <1>2, RecordedStays DEF Recorded

-----------------------------------------------------------------------------
(* The steps of a request                                                  *)

LEMMA DeliverStep ==
    ASSUME IntakeInv, NEW r \in Receivers, NEW batch \in Batch, Deliver(r, batch)
    PROVE  IntakeInv' /\ DocumentsKept
  <1> USE DEF IntakeInv
  <1> DEFINE new == [phase |-> "create", batch |-> batch, at |-> 1, copy |-> NoDocument,
                     answer |-> "none"]
  <1>1. batch \in Seq(Alert) /\ Len(batch) \in Nat \ {0}
    BY BatchesAreSequences
  <1>2. new \in Request /\ 1 \in 1..Len(batch)
    BY <1>1 DEF Request, Answers, Phases, Copies
  <1>3. DocumentsKept
    BY DEF Deliver, DocumentsKept
  <1>4. request' = [request EXCEPT ![r] = new]
    BY DEF Deliver
  <1>5. TypeOK'
    BY <1>2, <1>4 DEF Deliver, TypeOK
  <1>6. CopiesAreCurrent'
    BY <1>4 DEF Deliver, TypeOK, CopiesAreCurrent, AlertOf
  <1>7. ProcessedIsRecorded'
    <2> SUFFICES ASSUME NEW q \in Receivers, NEW n \in 1..Len(request'[q].batch),
                        n < request'[q].at \/ request'[q].answer = "ACCEPTED"
                 PROVE  Recorded(request[q].batch[n])'
      BY DEF ProcessedIsRecorded
    <2>1. q # r
      BY <1>1, <1>4 DEF TypeOK
    <2> QED
      BY <2>1, <1>3, <1>4, OthersProcessed DEF TypeOK
  <1> QED
    BY <1>3, <1>5, <1>6, <1>7

LEMMA CreateIncidentStep ==
    ASSUME IntakeInv, NEW r \in Receivers, request[r].phase = "create",
           CreateIncident(r), UNCHANGED <<lock, update>>
    PROVE  IntakeInv' /\ DocumentsKept
  <1> USE DEF IntakeInv
  <1>1. PICK a : /\ a = AlertOf(r) /\ a \in Alert
                 /\ a.key \in Keys /\ a.end \in Ends \cup {NoEnd}
    BY CurrentAlert
  <1> DEFINE document == [end |-> a.end, stage |-> 0]
  <1>2. document \in Document /\ document # NoDocument /\ document.end = a.end
    BY <1>1, BoundsAssumption, NoDocumentAssumption DEF Document
  <1>3. /\ incident' = [incident EXCEPT ![a.key] = document]
        /\ incident[a.key] = NoDocument
        /\ audit' = [audit EXCEPT ![a.key].created = @ + 1]
        /\ NextAlert(r)
    BY <1>1 DEF CreateIncident
  <1> HIDE DEF document
  <1>4. DocumentsKept
    BY <1>1, <1>3 DEF DocumentsKept, TypeOK
  <1>5. Recorded(a)'
    <2>1. incident'[a.key] = document
      BY <1>1, <1>3 DEF TypeOK
    <2> QED
      BY <2>1, <1>2 DEF Recorded
  <1>6. request' \in [Receivers -> Request]
        /\ \A q \in Receivers : request'[q].phase # "answered" =>
                request'[q].at \in 1..Len(request'[q].batch)
    BY <1>3, NextAlertKeepsRequests
  <1>10. \A q \in Receivers : request'[q].phase \in {"resolve", "write"} =>
            q # r /\ request'[q] = request[q]
    BY <1>3, NextAlertKeepsRequests
  <1>7. TypeOK'
    <2>1. incident' \in [Keys -> Copies]
      BY <1>2, <1>3 DEF TypeOK, Copies
    <2>2. audit' \in [Keys -> [created : Nat, resolved : Nat]]
      <3>1. audit[a.key] \in [created : Nat, resolved : Nat]
        BY <1>1 DEF TypeOK
      <3>2. audit[a.key].created + 1 \in Nat
        BY <3>1
      <3>3. [audit[a.key] EXCEPT !.created = @ + 1] \in [created : Nat, resolved : Nat]
        BY <3>1, <3>2
      <3> QED
        BY <1>1, <1>3, <3>3 DEF TypeOK
    <2> QED
      BY <2>1, <2>2, <1>6 DEF TypeOK
  <1>8. CopiesAreCurrent'
    <2>1. \A k \in Keys : incident[k] # NoDocument => incident'[k] = incident[k]
      BY <1>1, <1>3 DEF TypeOK
    <2>2. ASSUME NEW q \in Receivers, request'[q].phase \in {"resolve", "write"}
          PROVE  /\ request'[q] = request[q] /\ q # r
                 /\ AlertOf(q)' = AlertOf(q)
                 /\ AlertOf(q).key \in Keys
                 /\ incident'[AlertOf(q).key] = incident[AlertOf(q).key]
      <3>1. q # r /\ request'[q] = request[q]
        BY <2>2, <1>10
      <3>2. AlertOf(q).key \in Keys
        BY <2>2, <3>1, CurrentAlert
      <3> QED
        BY <3>1, <3>2, <2>1, <2>2 DEF CopiesAreCurrent, AlertOf
    <2>3. ASSUME NEW w \in Workers, update[w].open
          PROVE  incident'[update[w].key] = incident[update[w].key]
      BY <2>1, <2>3 DEF CopiesAreCurrent, TypeOK, Update
    <2> QED
      BY <2>2, <2>3 DEF CopiesAreCurrent
  <1>9. ProcessedIsRecorded'
    BY <1>1, <1>3, <1>4, <1>5, PassingRecorded
  <1> QED
    BY <1>4, <1>7, <1>8, <1>9

LEMMA GetIncidentStep ==
    ASSUME IntakeInv, NEW r \in Receivers, request[r].phase = "create",
           GetIncident(r), UNCHANGED <<lock, update>>
    PROVE  IntakeInv' /\ DocumentsKept
  <1> USE DEF IntakeInv
  <1>1. DocumentsKept
    BY DEF GetIncident, DocumentsKept
  <1>2. CASE AlertOf(r).end = NoEnd
    <2>1. NextAlert(r) /\ UNCHANGED <<incident, audit>>
      BY <1>2 DEF GetIncident
    <2>2. request' \in [Receivers -> Request]
          /\ \A q \in Receivers : request'[q].phase # "answered" =>
                  request'[q].at \in 1..Len(request'[q].batch)
      BY <2>1, NextAlertKeepsRequests
    <2>6. \A q \in Receivers : request'[q].phase \in {"resolve", "write"} =>
            q # r /\ request'[q] = request[q]
      BY <2>1, NextAlertKeepsRequests
    <2>3. TypeOK'
      BY <2>1, <2>2 DEF TypeOK
    <2>4. CopiesAreCurrent'
      <3>1. ASSUME NEW q \in Receivers, request'[q].phase \in {"resolve", "write"}
            PROVE  request'[q] = request[q] /\ AlertOf(q)' = AlertOf(q)
        BY <3>1, <2>6 DEF AlertOf
      <3> QED
        BY <3>1, <2>1 DEF CopiesAreCurrent
    <2>5. ProcessedIsRecorded'
      <3>1. PICK a : a = AlertOf(r)
        OBVIOUS
      <3>2. incident[a.key] # NoDocument /\ a.end = NoEnd
        BY <1>2, <3>1 DEF GetIncident
      <3>3. Recorded(a)'
        BY <3>2, <2>1 DEF Recorded
      <3> QED
        BY <3>1, <3>3, <2>1, <1>1, PassingRecorded
    <2> QED
      BY <1>1, <2>3, <2>4, <2>5
  <1>3. CASE AlertOf(r).end # NoEnd
    <2> DEFINE new == [request[r] EXCEPT !.phase = "resolve"]
    <2>1. request' = [request EXCEPT ![r] = new] /\ UNCHANGED <<incident, audit>>
      BY <1>3 DEF GetIncident
    <2>2. new \in Request /\ new.batch = request[r].batch /\ new.at = request[r].at
          /\ new.phase = "resolve" /\ new.answer = request[r].answer
      BY DEF TypeOK, Request, Phases
    <2> HIDE DEF new
    <2>3. TypeOK'
      BY <2>1, <2>2 DEF TypeOK
    <2>4. \A q \in Receivers : AlertOf(q)' = AlertOf(q)
      BY <2>1, <2>2 DEF AlertOf, TypeOK
    <2>5. incident[AlertOf(r).key] # NoDocument
      BY DEF GetIncident
    <2>6. CopiesAreCurrent'
      BY <1>3, <2>1, <2>2, <2>4, <2>5 DEF CopiesAreCurrent, TypeOK
    <2>7. ProcessedIsRecorded'
      BY <2>1, <2>2 DEF ProcessedIsRecorded, TypeOK, Recorded
    <2> QED
      BY <1>1, <2>3, <2>6, <2>7
  <1> QED
    BY <1>2, <1>3

LEMMA CreateOrGetStep ==
    ASSUME IntakeInv, NEW r \in Receivers, CreateOrGet(r)
    PROVE  IntakeInv' /\ DocumentsKept
  BY CreateIncidentStep, GetIncidentStep DEF CreateOrGet

LEMMA ReadResolutionStep ==
    ASSUME IntakeInv, NEW r \in Receivers, ReadResolution(r)
    PROVE  IntakeInv' /\ DocumentsKept
  <1> USE DEF IntakeInv
  <1>1. PICK k \in Keys : k = AlertOf(r).key
    BY CurrentAlert DEF ReadResolution
  <1>2. /\ request[r].phase = "resolve" /\ lock[k] = Nobody /\ incident[k] # NoDocument
        /\ AlertOf(r).end # NoEnd
        /\ UNCHANGED <<incident, audit, update>>
    BY <1>1 DEF ReadResolution, Lockable, CopiesAreCurrent
  <1>3. DocumentsKept
    BY <1>2 DEF DocumentsKept
  <1>4. CASE Resolvable(k, AlertOf(r).end)
    <2> DEFINE new == [request[r] EXCEPT !.phase = "write", !.copy = incident[k]]
    <2>1. request' = [request EXCEPT ![r] = new] /\ lock' = [lock EXCEPT ![k] = r]
      BY <1>1, <1>4 DEF ReadResolution
    <2>2. incident[k] \in Copies
      BY DEF TypeOK
    <2>3. new \in Request /\ new.batch = request[r].batch /\ new.at = request[r].at
          /\ new.phase = "write" /\ new.answer = request[r].answer /\ new.copy = incident[k]
      BY <2>2 DEF TypeOK, Request, Phases
    <2> HIDE DEF new
    <2>4. TypeOK'
      BY <1>2, <2>1, <2>3 DEF TypeOK
    <2>5. \A q \in Receivers : AlertOf(q)' = AlertOf(q)
      BY <2>1, <2>3 DEF AlertOf, TypeOK
    <2>6. CopiesAreCurrent'
      <3>1. ASSUME NEW q \in Receivers, request'[q].phase \in {"resolve", "write"}
            PROVE  /\ AlertOf(q)'.end # NoEnd
                   /\ incident'[AlertOf(q)'.key] # NoDocument
        BY <1>1, <1>2, <2>1, <2>3, <2>5, <3>1 DEF CopiesAreCurrent, TypeOK
      <3>2. ASSUME NEW q \in Receivers, request'[q].phase = "write"
            PROVE  /\ lock'[AlertOf(q)'.key] = q
                   /\ request'[q].copy = incident'[AlertOf(q)'.key]
                   /\ request'[q].copy.end \in {NoEnd, AlertOf(q)'.end}
        <4>1. CASE q = r
          <5>1. incident[k].end \in {NoEnd, AlertOf(r).end}
            BY <1>4 DEF Resolvable
          <5>2. lock'[k] = r /\ request'[r].copy = incident[k]
            BY <2>1, <2>3 DEF TypeOK
          <5> QED
            BY <4>1, <5>1, <5>2, <1>1, <1>2, <2>5
        <4>2. CASE q # r
          <5>1. request'[q] = request[q]
            BY <2>1, <4>2 DEF TypeOK
          <5>2. lock[AlertOf(q).key] = q /\ request[q].copy = incident[AlertOf(q).key]
                /\ request[q].copy.end \in {NoEnd, AlertOf(q).end}
            BY <3>2, <5>1 DEF CopiesAreCurrent
          <5>3. AlertOf(q).key # k
            BY <1>2, <5>2, NobodyAssumption
          <5>4. lock'[AlertOf(q).key] = q
            BY <2>1, <5>2, <5>3, <3>2, <5>1, CurrentAlert DEF TypeOK
          <5> QED
            BY <5>1, <5>2, <5>4, <1>2, <2>5
        <4> QED
          BY <4>1, <4>2
      <3>3. ASSUME NEW w \in Workers, update'[w].open
            PROVE  lock'[update'[w].key] = w
        <4>1. lock[update[w].key] = w /\ update[w].key \in Keys
          BY <1>2, <3>3 DEF CopiesAreCurrent, TypeOK, Update
        <4>2. update[w].key # k
          BY <1>2, <4>1, NobodyAssumption
        <4> QED
          BY <1>2, <2>1, <4>1, <4>2 DEF TypeOK
      <3> QED
        BY <1>2, <3>1, <3>2, <3>3 DEF CopiesAreCurrent
    <2>7. ProcessedIsRecorded'
      BY <1>2, <2>1, <2>3 DEF ProcessedIsRecorded, TypeOK, Recorded
    <2> QED
      BY <1>3, <2>4, <2>6, <2>7
  <1>5. CASE ~Resolvable(k, AlertOf(r).end)
    <2> DEFINE new == [request[r] EXCEPT !.phase = "answered", !.answer = "CONFLICT",
                                         !.copy = NoDocument]
    <2>1. request' = [request EXCEPT ![r] = new] /\ UNCHANGED lock
      BY <1>1, <1>5 DEF ReadResolution, Answered
    <2>2. new \in Request /\ new.batch = request[r].batch /\ new.at = request[r].at
          /\ new.phase = "answered" /\ new.answer = "CONFLICT"
      BY DEF TypeOK, Request, Phases, Answers, Copies
    <2> HIDE DEF new
    <2>3. TypeOK'
      BY <1>2, <2>1, <2>2 DEF TypeOK
    <2>4. \A q \in Receivers : AlertOf(q)' = AlertOf(q)
      BY <2>1, <2>2 DEF AlertOf, TypeOK
    <2>5. \A q \in Receivers : request'[q].phase \in {"resolve", "write"} =>
              request'[q] = request[q]
      BY <2>1, <2>2 DEF TypeOK
    <2>6. CopiesAreCurrent'
      BY <1>2, <2>1, <2>4, <2>5 DEF CopiesAreCurrent
    <2>7. ProcessedIsRecorded'
      BY <1>2, <2>1, <2>2 DEF ProcessedIsRecorded, TypeOK, Recorded
    <2> QED
      BY <1>3, <2>3, <2>6, <2>7
  <1> QED
    BY <1>4, <1>5

LEMMA WriteResolutionStep ==
    ASSUME IntakeInv, NEW r \in Receivers, WriteResolution(r)
    PROVE  IntakeInv' /\ DocumentsKept
  <1> USE DEF IntakeInv
  <1>1. PICK a \in Alert : a = AlertOf(r)
    BY CurrentAlert DEF WriteResolution
  <1> DEFINE document == [request[r].copy EXCEPT !.end = a.end]
             event == [audit[a.key] EXCEPT !.resolved =
                           IF request[r].copy.end = NoEnd THEN @ + 1 ELSE @]
  <1>2. /\ request[r].phase = "write"
        /\ lock[a.key] = r
        /\ a.key \in Keys /\ a.end \in Ends
        /\ request[r].copy = incident[a.key] /\ incident[a.key] # NoDocument
        /\ incident[a.key] \in Document /\ incident[a.key].end \in {NoEnd, a.end}
    BY <1>1 DEF WriteResolution, CopiesAreCurrent, Alert, TypeOK, Copies
  <1>3. /\ incident' = [incident EXCEPT ![a.key] = document]
        /\ audit' = [audit EXCEPT ![a.key] = event]
        /\ lock' = [lock EXCEPT ![a.key] = Nobody]
        /\ NextAlert(r) /\ UNCHANGED update
    BY <1>1 DEF WriteResolution, AuditResolution
  <1>4. document \in Document /\ document # NoDocument /\ document.end = a.end
    BY <1>2, NoDocumentAssumption DEF Document
  <1>5. event \in [created : Nat, resolved : Nat]
    <2>1. audit[a.key] \in [created : Nat, resolved : Nat]
      BY <1>2 DEF TypeOK
    <2>2. audit[a.key].resolved + 1 \in Nat
      BY <2>1
    <2> QED
      BY <2>1, <2>2
  <1> HIDE DEF document, event
  <1>6. DocumentsKept
    BY <1>2, <1>3, <1>4 DEF DocumentsKept, TypeOK
  <1>7. Recorded(a)'
    <2>1. incident'[a.key] = document
      BY <1>2, <1>3 DEF TypeOK
    <2> QED
      BY <2>1, <1>4 DEF Recorded
  <1>8. request' \in [Receivers -> Request]
        /\ \A q \in Receivers : request'[q].phase # "answered" =>
                request'[q].at \in 1..Len(request'[q].batch)
    BY <1>2, <1>3, NextAlertKeepsRequests DEF IntakeInv
  <1>9. \A q \in Receivers : request'[q].phase \in {"resolve", "write"} =>
            q # r /\ request'[q] = request[q]
    BY <1>2, <1>3, NextAlertKeepsRequests
  <1>10. TypeOK'
    BY <1>2, <1>3, <1>4, <1>5, <1>8 DEF TypeOK, Copies
  <1>11. CopiesAreCurrent'
    <2>1. ASSUME NEW q \in Receivers, request'[q].phase \in {"resolve", "write"}
          PROVE  /\ request'[q] = request[q] /\ AlertOf(q)' = AlertOf(q)
                 /\ AlertOf(q).end # NoEnd
                 /\ AlertOf(q).key \in Keys
                 /\ incident'[AlertOf(q).key] # NoDocument
      <3>1. request'[q] = request[q] /\ AlertOf(q)' = AlertOf(q)
        BY <2>1, <1>9 DEF AlertOf
      <3>2. AlertOf(q).key \in Keys
        BY <2>1, <3>1, CurrentAlert
      <3>3. AlertOf(q).end # NoEnd /\ incident[AlertOf(q).key] # NoDocument
        BY <2>1, <3>1 DEF CopiesAreCurrent
      <3> QED
        BY <3>1, <3>2, <3>3, <1>6 DEF DocumentsKept
    <2>2. ASSUME NEW q \in Receivers, request'[q].phase = "write"
          PROVE  /\ lock'[AlertOf(q).key] = q
                 /\ request'[q].copy = incident'[AlertOf(q).key]
                 /\ request'[q].copy.end \in {NoEnd, AlertOf(q).end}
      <3>1. request'[q] = request[q] /\ AlertOf(q).key \in Keys /\ q # r
        BY <2>1, <2>2, <1>9
      <3>2. /\ lock[AlertOf(q).key] = q
            /\ request[q].copy = incident[AlertOf(q).key]
            /\ request[q].copy.end \in {NoEnd, AlertOf(q).end}
        BY <2>2, <3>1 DEF CopiesAreCurrent
      <3>3. AlertOf(q).key # a.key
        BY <3>1, <3>2, <1>2
      <3>4. lock'[AlertOf(q).key] = q /\ incident'[AlertOf(q).key] = incident[AlertOf(q).key]
        BY <3>1, <3>2, <3>3, <1>3 DEF TypeOK
      <3> QED
        BY <3>1, <3>2, <3>4
    <2>3. ASSUME NEW w \in Workers, update[w].open
          PROVE  lock'[update[w].key] = w /\ incident'[update[w].key] = incident[update[w].key]
      <3>1. lock[update[w].key] = w /\ update[w].key \in Keys
        BY <2>3 DEF CopiesAreCurrent, TypeOK, Update
      <3>2. update[w].key # a.key
        BY <3>1, <1>2, SeparateAssumption
      <3> QED
        BY <1>3, <3>1, <3>2 DEF TypeOK
    <2>4. \A q \in Receivers : request'[q].phase = "write" => AlertOf(q)' = AlertOf(q)
      BY <2>1
    <2> QED
      BY <1>3, <2>1, <2>2, <2>3, <2>4 DEF CopiesAreCurrent
  <1>12. ProcessedIsRecorded'
    BY <1>1, <1>2, <1>3, <1>6, <1>7, PassingRecorded
  <1> QED
    BY <1>6, <1>10, <1>11, <1>12

LEMMA LoseRequestStep ==
    ASSUME IntakeInv, NEW r \in Receivers, LoseRequest(r)
    PROVE  IntakeInv' /\ DocumentsKept
  <1> USE DEF IntakeInv
  <1>1. /\ lock' = [k \in Keys |-> IF lock[k] = r THEN Nobody ELSE lock[k]]
        /\ request' = [request EXCEPT ![r] = NoRequest]
        /\ UNCHANGED <<incident, audit, update>>
    BY DEF LoseRequest
  <1>2. NoRequest \in Request /\ NoRequest.phase = "answered" /\ NoRequest.answer = "none"
        /\ NoRequest.batch = << >>
    BY DEF NoRequest, Request, Phases, Answers, Copies
  <1>3. DocumentsKept
    BY <1>1 DEF DocumentsKept
  <1>4. TypeOK'
    BY <1>1, <1>2 DEF TypeOK
  <1>5. \A q \in Receivers : request'[q].phase \in {"resolve", "write"} =>
            q # r /\ request'[q] = request[q]
    BY <1>1, <1>2 DEF TypeOK
  <1>6. \A k \in Keys : lock[k] # r => lock'[k] = lock[k]
    BY <1>1
  <1>7. CopiesAreCurrent'
    <2>1. ASSUME NEW q \in Receivers, request'[q].phase \in {"resolve", "write"}
          PROVE  request'[q] = request[q] /\ AlertOf(q)' = AlertOf(q)
                 /\ AlertOf(q).key \in Keys
      <3>1. request'[q] = request[q] /\ AlertOf(q)' = AlertOf(q)
        BY <2>1, <1>5 DEF AlertOf
      <3> QED
        BY <2>1, <3>1, CurrentAlert
    <2>2. ASSUME NEW q \in Receivers, request'[q].phase = "write"
          PROVE  lock'[AlertOf(q).key] = q
      BY <2>1, <2>2, <1>5, <1>6 DEF CopiesAreCurrent
    <2>3. ASSUME NEW w \in Workers, update[w].open
          PROVE  lock'[update[w].key] = w
      BY <2>3, <1>6, SeparateAssumption DEF CopiesAreCurrent, TypeOK, Update
    <2> QED
      BY <1>1, <2>1, <2>2, <2>3 DEF CopiesAreCurrent
  <1>8. ProcessedIsRecorded'
    BY <1>1, <1>2 DEF ProcessedIsRecorded, TypeOK, Recorded
  <1> QED
    BY <1>3, <1>4, <1>7, <1>8

-----------------------------------------------------------------------------
(* The steps of a worker's update                                          *)

LEMMA ReadUpdateStep ==
    ASSUME IntakeInv, NEW w \in Workers, NEW k \in Keys, ReadUpdate(w, k)
    PROVE  IntakeInv' /\ DocumentsKept
  <1> USE DEF IntakeInv
  <1> DEFINE new == [open |-> TRUE, key |-> k, copy |-> incident[k]]
  <1>1. /\ lock' = [lock EXCEPT ![k] = w]
        /\ update' = [update EXCEPT ![w] = new]
        /\ lock[k] = Nobody /\ incident[k] # NoDocument /\ incident[k].stage < MaxStage
        /\ UNCHANGED <<incident, audit, request>>
    BY DEF ReadUpdate, Lockable
  <1>2. new \in Update /\ new.open /\ new.key = k /\ new.copy = incident[k]
    BY DEF Update, TypeOK
  <1> HIDE DEF new
  <1>3. DocumentsKept
    BY <1>1 DEF DocumentsKept
  <1>4. TypeOK'
    BY <1>1, <1>2 DEF TypeOK
  <1>5. \A q \in Receivers : AlertOf(q)' = AlertOf(q)
    BY <1>1 DEF AlertOf
  <1>6. CopiesAreCurrent'
    <2>1. ASSUME NEW q \in Receivers, request[q].phase = "write"
          PROVE  lock'[AlertOf(q).key] = q
      <3>1. lock[AlertOf(q).key] = q /\ AlertOf(q).key \in Keys
        BY <2>1, CurrentAlert DEF CopiesAreCurrent
      <3>2. AlertOf(q).key # k
        BY <1>1, <3>1, NobodyAssumption
      <3> QED
        BY <1>1, <3>1, <3>2 DEF TypeOK
    <2>2. ASSUME NEW v \in Workers, update'[v].open
          PROVE  /\ lock'[update'[v].key] = v
                 /\ update'[v].copy = incident[update'[v].key]
                 /\ incident[update'[v].key] # NoDocument
                 /\ update'[v].copy.stage < MaxStage
      <3>1. CASE v = w
        BY <1>1, <1>2, <3>1 DEF TypeOK
      <3>2. CASE v # w
        <4>1. update'[v] = update[v] /\ update[v].open
          BY <1>1, <2>2, <3>2 DEF TypeOK
        <4>2. lock[update[v].key] = v /\ update[v].key \in Keys
          BY <4>1 DEF CopiesAreCurrent, TypeOK, Update
        <4>3. update[v].key # k
          BY <1>1, <4>2, NobodyAssumption
        <4>4. lock'[update[v].key] = v
          BY <1>1, <4>2, <4>3 DEF TypeOK
        <4> QED
          BY <4>1, <4>4 DEF CopiesAreCurrent
      <3> QED
        BY <3>1, <3>2
    <2> QED
      BY <1>1, <1>5, <2>1, <2>2 DEF CopiesAreCurrent
  <1>7. ProcessedIsRecorded'
    BY <1>1 DEF ProcessedIsRecorded, Recorded
  <1> QED
    BY <1>3, <1>4, <1>6, <1>7

LEMMA CloseUpdateStep ==
    ASSUME IntakeInv, NEW w \in Workers, WriteUpdate(w) \/ RollBackUpdate(w)
    PROVE  IntakeInv' /\ DocumentsKept
  <1> USE DEF IntakeInv
  <1>1. PICK k \in Keys : k = update[w].key
    BY DEF TypeOK, Update
  <1> DEFINE closed == [update[w] EXCEPT !.open = FALSE, !.copy = NoDocument]
             written == [update[w].copy EXCEPT !.stage = @ + 1]
  <1>2. /\ update[w].open
        /\ lock[k] = w /\ update[w].copy = incident[k] /\ incident[k] # NoDocument
        /\ incident[k] \in Document /\ incident[k].stage < MaxStage
        /\ lock' = [lock EXCEPT ![k] = Nobody]
        /\ update' = [update EXCEPT ![w] = closed]
        /\ UNCHANGED <<audit, request>>
    BY <1>1 DEF WriteUpdate, RollBackUpdate, CloseUpdate, CopiesAreCurrent, TypeOK, Copies
  <1>3. closed \in Update /\ ~closed.open
    BY DEF TypeOK, Update, Copies
  <1>4. written \in Document /\ written # NoDocument /\ written.end = incident[k].end
    <2>1. incident[k].stage + 1 \in 0..MaxStage
      BY <1>2, BoundsAssumption DEF Document
    <2> QED
      BY <1>2, <2>1, NoDocumentAssumption DEF Document
  <1>5. incident' = [incident EXCEPT ![k] = written] \/ incident' = incident
    BY <1>1 DEF WriteUpdate, RollBackUpdate
  <1> HIDE DEF closed, written
  <1>6. DocumentsKept
    BY <1>2, <1>4, <1>5 DEF DocumentsKept, TypeOK
  <1>7. TypeOK'
    <2>1. incident' \in [Keys -> Copies]
      BY <1>4, <1>5 DEF TypeOK, Copies
    <2> QED
      BY <1>2, <1>3, <2>1 DEF TypeOK
  <1>8. \A j \in Keys : j # k => lock'[j] = lock[j] /\ incident'[j] = incident[j]
    BY <1>2, <1>5 DEF TypeOK
  <1>9. CopiesAreCurrent'
    <2>1. ASSUME NEW q \in Receivers, request[q].phase \in {"resolve", "write"}
          PROVE  /\ AlertOf(q)' = AlertOf(q)
                 /\ AlertOf(q).end # NoEnd
                 /\ AlertOf(q).key \in Keys
                 /\ incident'[AlertOf(q).key] # NoDocument
      <3>1. AlertOf(q)' = AlertOf(q) /\ AlertOf(q).key \in Keys
        BY <2>1, <1>2, CurrentAlert DEF AlertOf
      <3>2. AlertOf(q).end # NoEnd /\ incident[AlertOf(q).key] # NoDocument
        BY <2>1 DEF CopiesAreCurrent
      <3> QED
        BY <3>1, <3>2, <1>6 DEF DocumentsKept
    <2>2. ASSUME NEW q \in Receivers, request[q].phase = "write"
          PROVE  /\ lock'[AlertOf(q).key] = q
                 /\ incident'[AlertOf(q).key] = incident[AlertOf(q).key]
      <3>1. lock[AlertOf(q).key] = q /\ AlertOf(q).key \in Keys
        BY <2>1, <2>2 DEF CopiesAreCurrent
      <3>2. AlertOf(q).key # k
        BY <3>1, <1>2, SeparateAssumption
      <3> QED
        BY <3>1, <3>2, <1>8
    <2>3. ASSUME NEW v \in Workers, update'[v].open
          PROVE  /\ update'[v] = update[v]
                 /\ lock'[update[v].key] = v
                 /\ incident'[update[v].key] = incident[update[v].key]
      <3>1. v # w /\ update'[v] = update[v]
        BY <2>3, <1>2, <1>3 DEF TypeOK
      <3>2. lock[update[v].key] = v /\ update[v].key \in Keys
        BY <2>3, <3>1 DEF CopiesAreCurrent, TypeOK, Update
      <3>3. update[v].key # k
        BY <3>1, <3>2, <1>2
      <3> QED
        BY <3>1, <3>2, <3>3, <1>8
    <2> QED
      BY <1>2, <2>1, <2>2, <2>3 DEF CopiesAreCurrent
  <1>10. ProcessedIsRecorded'
    <2> SUFFICES ASSUME NEW q \in Receivers, NEW n \in 1..Len(request[q].batch),
                        n < request[q].at \/ request[q].answer = "ACCEPTED"
                 PROVE  Recorded(request[q].batch[n])'
      BY <1>2 DEF ProcessedIsRecorded
    <2> QED
      BY <1>2, <1>6, OthersProcessed
  <1> QED
    BY <1>6, <1>7, <1>9, <1>10

-----------------------------------------------------------------------------
(* The theorems                                                            *)

LEMMA IntakeInit == Init => IntakeInv
  <1> SUFFICES ASSUME Init PROVE IntakeInv
    OBVIOUS
  <1>1. NoRequest \in Request
    BY DEF NoRequest, Request, Phases, Answers, Copies
  <1>2. \A r \in Receivers : request[r] = NoRequest
    BY DEF Init
  <1>3. TypeOK
    BY <1>1, BoundsAssumption DEF Init, TypeOK, Copies, NoRequest, Update
  <1>4. CopiesAreCurrent
    BY <1>2 DEF Init, CopiesAreCurrent, NoRequest
  <1>5. ProcessedIsRecorded
    BY <1>2 DEF ProcessedIsRecorded, NoRequest
  <1> QED
    BY <1>3, <1>4, <1>5 DEF IntakeInv

LEMMA IntakeStep == IntakeInv /\ [Next]_vars => IntakeInv' /\ (DocumentsKept \/ UNCHANGED vars)
  <1> SUFFICES ASSUME IntakeInv, [Next]_vars
               PROVE  IntakeInv' /\ (DocumentsKept \/ UNCHANGED vars)
    OBVIOUS
  <1>1. ASSUME NEW r \in Receivers, NEW batch \in Batch, Deliver(r, batch)
        PROVE  IntakeInv' /\ DocumentsKept
    BY <1>1, DeliverStep
  <1>2. ASSUME NEW r \in Receivers, CreateOrGet(r)
        PROVE  IntakeInv' /\ DocumentsKept
    BY <1>2, CreateOrGetStep
  <1>3. ASSUME NEW r \in Receivers, ReadResolution(r)
        PROVE  IntakeInv' /\ DocumentsKept
    BY <1>3, ReadResolutionStep
  <1>4. ASSUME NEW r \in Receivers, WriteResolution(r)
        PROVE  IntakeInv' /\ DocumentsKept
    BY <1>4, WriteResolutionStep
  <1>5. ASSUME NEW r \in Receivers, LoseRequest(r)
        PROVE  IntakeInv' /\ DocumentsKept
    BY <1>5, LoseRequestStep
  <1>6. ASSUME NEW w \in Workers, NEW k \in Keys, ReadUpdate(w, k)
        PROVE  IntakeInv' /\ DocumentsKept
    BY <1>6, ReadUpdateStep
  <1>7. ASSUME NEW w \in Workers, WriteUpdate(w) \/ RollBackUpdate(w)
        PROVE  IntakeInv' /\ DocumentsKept
    BY <1>7, CloseUpdateStep
  <1>8. CASE UNCHANGED vars
    BY <1>8 DEF vars, IntakeInv, TypeOK, CopiesAreCurrent, ProcessedIsRecorded, Recorded, AlertOf
  <1> QED
    BY <1>1, <1>2, <1>3, <1>4, <1>5, <1>6, <1>7, <1>8 DEF Next

LEMMA IntakeInvariant == Spec => []IntakeInv
  BY IntakeInit, IntakeStep, PTL DEF Spec

(* The variables keep their types.                                         *)
THEOREM TypeCorrect == Spec => []TypeOK
  BY IntakeInvariant, PTL DEF IntakeInv

(* A 202 is kept: all alerts of the batch are recorded, for any number of  *)
(* receivers, workers, alerts and Incidents.                               *)
THEOREM AcceptedBatchesAreRecorded == Spec => []AcceptedIsRecorded
  <1>1. IntakeInv => AcceptedIsRecorded
    BY DEF IntakeInv, ProcessedIsRecorded, AcceptedIsRecorded
  <1> QED
    BY <1>1, IntakeInvariant, PTL

(* No step of anybody takes back a resolution.                             *)
THEOREM ResolutionsAreFinal == Spec => EndIsFinal
  <1>1. DocumentsKept => [\A k \in Keys :
          incident[k] # NoDocument =>
              /\ incident'[k] # NoDocument
              /\ incident[k].end # NoEnd => incident'[k].end = incident[k].end]_vars
    BY DEF DocumentsKept
  <1>2. UNCHANGED vars => [\A k \in Keys :
          incident[k] # NoDocument =>
              /\ incident'[k] # NoDocument
              /\ incident[k].end # NoEnd => incident'[k].end = incident[k].end]_vars
    OBVIOUS
  <1> QED
    BY <1>1, <1>2, IntakeInvariant, IntakeStep, PTL DEF Spec, EndIsFinal

-----------------------------------------------------------------------------
(* Conflicts                                                               *)

(* A request that was answered 409 stands at the alert it was about, and    *)
(* its Incident has another end.                                           *)
ConflictsStand ==
    \A r \in Receivers :
        request[r].answer = "CONFLICT" =>
            /\ request[r].phase = "answered"
            /\ AlertOf(r) \in Alert
            /\ incident[AlertOf(r).key] # NoDocument
            /\ incident[AlertOf(r).key].end \notin {NoEnd, AlertOf(r).end}

\* What a step makes of a request, as far as conflicts go.
ConflictMove(r) ==
    \/ request'[r] = request[r]
    \/ request'[r].answer # "CONFLICT"
    \/ /\ request[r].phase = "resolve" /\ incident' = incident
       /\ ~Resolvable(AlertOf(r).key, AlertOf(r).end)
       /\ Answered(r, "CONFLICT")

LEMMA NextAlertAnswers ==
    ASSUME TypeOK, NEW r \in Receivers, NextAlert(r)
    PROVE  /\ request'[r].answer \in {request[r].answer, "ACCEPTED"}
           /\ \A q \in Receivers : q # r => request'[q] = request[q]
  <1>1. request[r] \in Request
    BY DEF TypeOK
  <1>2. CASE request[r].at = Len(request[r].batch)
    <2> DEFINE new == [request[r] EXCEPT !.phase = "answered", !.answer = "ACCEPTED",
                                         !.copy = NoDocument]
    <2>1. request' = [request EXCEPT ![r] = new] /\ new.answer = "ACCEPTED"
      BY <1>1, <1>2 DEF NextAlert, Answered, Request
    <2> HIDE DEF new
    <2> QED BY <2>1 DEF TypeOK
  <1>3. CASE request[r].at # Len(request[r].batch)
    <2> DEFINE new == [request[r] EXCEPT !.phase = "create", !.at = request[r].at + 1,
                                         !.copy = NoDocument]
    <2>1. request' = [request EXCEPT ![r] = new] /\ new.answer = request[r].answer
      BY <1>1, <1>3 DEF NextAlert, Request
    <2> HIDE DEF new
    <2> QED BY <2>1 DEF TypeOK
  <1> QED BY <1>2, <1>3

LEMMA RequestMoves ==
    ASSUME TypeOK, ConflictsStand, Next
    PROVE  \A q \in Receivers : ConflictMove(q)
  <1>1. ASSUME NEW r \in Receivers, request[r].phase # "answered", NextAlert(r)
        PROVE  \A q \in Receivers : ConflictMove(q)
    <2>1. request[r].answer # "CONFLICT"
      BY <1>1 DEF ConflictsStand
    <2> QED BY <1>1, <2>1, NextAlertAnswers DEF ConflictMove
  <1>2. ASSUME NEW r \in Receivers, request[r].phase # "answered",
               NEW new, new.answer = request[r].answer, request' = [request EXCEPT ![r] = new]
        PROVE  \A q \in Receivers : ConflictMove(q)
    <2>1. request[r].answer # "CONFLICT"
      BY <1>2 DEF ConflictsStand
    <2> QED BY <1>2, <2>1 DEF ConflictMove, TypeOK
  <1>3. ASSUME NEW r \in Receivers, NEW batch \in Batch, Deliver(r, batch)
        PROVE  \A q \in Receivers : ConflictMove(q)
    BY <1>3 DEF Deliver, ConflictMove, TypeOK
  <1>4. ASSUME NEW r \in Receivers, CreateOrGet(r)
        PROVE  \A q \in Receivers : ConflictMove(q)
    <2> DEFINE new == [request[r] EXCEPT !.phase = "resolve"]
    <2>1. request[r].phase # "answered" /\ new.answer = request[r].answer
      BY <1>4 DEF CreateOrGet, TypeOK, Request
    <2>2. NextAlert(r) \/ request' = [request EXCEPT ![r] = new]
      BY <1>4 DEF CreateOrGet, CreateIncident, GetIncident
    <2> HIDE DEF new
    <2> QED BY <1>1, <1>2, <2>1, <2>2
  <1>5. ASSUME NEW r \in Receivers, ReadResolution(r)
        PROVE  \A q \in Receivers : ConflictMove(q)
    <2> DEFINE new == [request[r] EXCEPT !.phase = "write", !.copy = incident[AlertOf(r).key]]
    <2>1. request[r].phase = "resolve" /\ incident' = incident /\ new.answer = request[r].answer
      BY <1>5 DEF ReadResolution, TypeOK, Request
    <2>2. \/ request' = [request EXCEPT ![r] = new]
          \/ ~Resolvable(AlertOf(r).key, AlertOf(r).end) /\ Answered(r, "CONFLICT")
      BY <1>5 DEF ReadResolution
    <2> HIDE DEF new
    <2>3. ASSUME Answered(r, "CONFLICT") PROVE \A q \in Receivers : q # r => request'[q] = request[q]
      BY <2>3 DEF Answered, TypeOK
    <2> QED BY <1>2, <2>1, <2>2, <2>3 DEF ConflictMove
  <1>6. ASSUME NEW r \in Receivers, WriteResolution(r)
        PROVE  \A q \in Receivers : ConflictMove(q)
    BY <1>1, <1>6 DEF WriteResolution
  <1>7. ASSUME NEW r \in Receivers, LoseRequest(r)
        PROVE  \A q \in Receivers : ConflictMove(q)
    BY <1>7 DEF LoseRequest, NoRequest, ConflictMove, TypeOK
  <1>8. ASSUME NEW w \in Workers,
               (\E k \in Keys : ReadUpdate(w, k)) \/ WriteUpdate(w) \/ RollBackUpdate(w)
        PROVE  \A q \in Receivers : ConflictMove(q)
    BY <1>8 DEF ReadUpdate, WriteUpdate, RollBackUpdate, CloseUpdate, ConflictMove
  <1> QED BY <1>3, <1>4, <1>5, <1>6, <1>7, <1>8 DEF Next

LEMMA ConflictStep ==
    ASSUME IntakeInv, ConflictsStand, [Next]_vars
    PROVE  ConflictsStand'
  <1>1. CASE UNCHANGED vars
    BY <1>1 DEF vars, ConflictsStand, AlertOf
  <1>2. CASE Next /\ DocumentsKept
    <2> SUFFICES ASSUME NEW r \in Receivers, request'[r].answer = "CONFLICT"
                 PROVE  /\ request'[r].phase = "answered"
                        /\ AlertOf(r)' \in Alert
                        /\ incident'[AlertOf(r)'.key] # NoDocument
                        /\ incident'[AlertOf(r)'.key].end \notin {NoEnd, AlertOf(r)'.end}
      BY DEF ConflictsStand
    <2>1. CASE request'[r] = request[r]
      <3>1. AlertOf(r)' = AlertOf(r) /\ AlertOf(r) \in Alert /\ request[r].answer = "CONFLICT"
        BY <2>1 DEF AlertOf, ConflictsStand
      <3>2. AlertOf(r).key \in Keys
        BY <3>1 DEF Alert
      <3> QED BY <1>2, <2>1, <3>1, <3>2 DEF ConflictsStand, DocumentsKept
    <2>2. CASE /\ request[r].phase = "resolve" /\ incident' = incident
               /\ ~Resolvable(AlertOf(r).key, AlertOf(r).end)
               /\ Answered(r, "CONFLICT")
      <3> DEFINE new == [request[r] EXCEPT !.phase = "answered", !.answer = "CONFLICT",
                                           !.copy = NoDocument]
      <3>1. /\ new.phase = "answered" /\ new.at = request[r].at /\ new.batch = request[r].batch
            /\ request'[r] = new
        BY <2>2 DEF Answered, IntakeInv, TypeOK, Request
      <3> HIDE DEF new
      <3>2. AlertOf(r)' = AlertOf(r)
        BY <3>1 DEF AlertOf
      <3>3. AlertOf(r) \in Alert
        BY <2>2, CurrentAlert DEF IntakeInv
      <3>4. incident[AlertOf(r).key] # NoDocument
        BY <2>2 DEF IntakeInv, CopiesAreCurrent
      <3> QED BY <2>2, <3>1, <3>2, <3>3, <3>4 DEF Resolvable
    <2> QED BY <1>2, <2>1, <2>2, RequestMoves DEF IntakeInv, ConflictMove
  <1> QED BY <1>1, <1>2, IntakeStep

(* A 409 is about an end the Incident does have, for as long as the answer  *)
(* is remembered: no redelivery of the same resolution is ever refused.    *)
THEOREM ConflictsAreReal == Spec => []ConflictIsReal
  <1>1. Init => ConflictsStand
    BY DEF Init, NoRequest, ConflictsStand
  <1>2. IntakeInv /\ ConflictsStand /\ [Next]_vars => ConflictsStand'
    BY ConflictStep
  <1>3. ConflictsStand => ConflictIsReal
    BY DEF ConflictsStand, ConflictIsReal
  <1> QED BY <1>1, <1>2, <1>3, IntakeInvariant, PTL DEF Spec

-----------------------------------------------------------------------------
(* The audit                                                               *)

\* Nothing is recorded of an Incident, or its creation, or its resolution.
AuditMove(k) ==
    \/ /\ audit'[k] = audit[k]
       /\ incident'[k] = NoDocument <=> incident[k] = NoDocument
    \/ /\ incident[k] = NoDocument /\ incident'[k] # NoDocument
       /\ audit'[k].created = audit[k].created + 1
       /\ audit'[k].resolved = audit[k].resolved
    \/ /\ incident[k] # NoDocument /\ incident[k].end = NoEnd
       /\ incident'[k] # NoDocument /\ incident'[k].end # NoEnd
       /\ audit'[k].created = audit[k].created
       /\ audit'[k].resolved = audit[k].resolved + 1

LEMMA AuditMoves ==
    ASSUME IntakeInv, Next
    PROVE  \A k \in Keys : AuditMove(k)
  <1> USE DEF IntakeInv
  <1>1. ASSUME UNCHANGED <<incident, audit>> PROVE \A k \in Keys : AuditMove(k)
    BY <1>1 DEF AuditMove
  <1>2. ASSUME NEW r \in Receivers, request[r].phase = "create", CreateIncident(r)
        PROVE  \A k \in Keys : AuditMove(k)
    <2>1. PICK a \in Alert : a = AlertOf(r)
      BY <1>2, CurrentAlert
    <2> DEFINE document == [end |-> a.end, stage |-> 0]
               event == [audit[a.key] EXCEPT !.created = @ + 1]
    <2>2. /\ a.key \in Keys
          /\ incident' = [incident EXCEPT ![a.key] = document]
          /\ incident[a.key] = NoDocument
          /\ audit' = [audit EXCEPT ![a.key] = event]
      BY <1>2, <2>1 DEF CreateIncident, Alert
    <2>3. document # NoDocument
      BY BoundsAssumption, NoDocumentAssumption DEF Document, Alert
    <2>4. /\ event.created = audit[a.key].created + 1
          /\ event.resolved = audit[a.key].resolved
      BY <2>2 DEF TypeOK
    <2> HIDE DEF document, event
    <2> QED BY <2>2, <2>3, <2>4 DEF AuditMove, TypeOK
  <1>3. ASSUME NEW r \in Receivers, WriteResolution(r)
        PROVE  \A k \in Keys : AuditMove(k)
    <2>1. PICK a \in Alert : a = AlertOf(r)
      BY <1>3, CurrentAlert DEF WriteResolution
    <2> DEFINE document == [request[r].copy EXCEPT !.end = a.end]
               event == [audit[a.key] EXCEPT !.resolved =
                             IF request[r].copy.end = NoEnd THEN @ + 1 ELSE @]
    <2>2. /\ a.key \in Keys /\ a.end # NoEnd /\ a.end \in Ends
          /\ request[r].copy = incident[a.key] /\ incident[a.key] # NoDocument
          /\ incident[a.key] \in Document
          /\ incident' = [incident EXCEPT ![a.key] = document]
          /\ audit' = [audit EXCEPT ![a.key] = event]
      BY <1>3, <2>1 DEF WriteResolution, AuditResolution, CopiesAreCurrent, Alert, TypeOK, Copies
    <2>3. document \in Document /\ document # NoDocument /\ document.end # NoEnd
      BY <2>2, NoDocumentAssumption DEF Document
    <2>4. /\ audit[a.key] \in [created : Nat, resolved : Nat]
          /\ event.created = audit[a.key].created
          /\ event.resolved = IF incident[a.key].end = NoEnd
                              THEN audit[a.key].resolved + 1 ELSE audit[a.key].resolved
          /\ incident[a.key].end # NoEnd => event = audit[a.key]
      BY <2>2 DEF TypeOK
    <2> HIDE DEF document, event
    <2> QED BY <2>2, <2>3, <2>4 DEF AuditMove, TypeOK
  <1>4. ASSUME NEW w \in Workers, WriteUpdate(w)
        PROVE  \A k \in Keys : AuditMove(k)
    <2> DEFINE k == update[w].key
               written == [update[w].copy EXCEPT !.stage = @ + 1]
    <2>1. /\ k \in Keys /\ incident[k] # NoDocument /\ incident[k] \in Document
          /\ update[w].copy = incident[k] /\ incident[k].stage < MaxStage
          /\ incident' = [incident EXCEPT ![k] = written] /\ audit' = audit
      BY <1>4 DEF WriteUpdate, CloseUpdate, CopiesAreCurrent, TypeOK, Update, Copies
    <2>2. written # NoDocument
      <3>1. incident[k].stage + 1 \in 0..MaxStage
        BY <2>1, BoundsAssumption DEF Document
      <3> QED BY <2>1, <3>1, NoDocumentAssumption DEF Document
    <2> HIDE DEF written, k
    <2> QED BY <2>1, <2>2 DEF AuditMove, TypeOK
  <1>5. ASSUME NEW r \in Receivers,
               \/ \E batch \in Batch : Deliver(r, batch)
               \/ CreateOrGet(r) /\ GetIncident(r)
               \/ ReadResolution(r) \/ LoseRequest(r)
        PROVE  \A k \in Keys : AuditMove(k)
    BY <1>1, <1>5 DEF Deliver, GetIncident, ReadResolution, LoseRequest
  <1>6. ASSUME NEW w \in Workers, (\E k \in Keys : ReadUpdate(w, k)) \/ RollBackUpdate(w)
        PROVE  \A k \in Keys : AuditMove(k)
    BY <1>1, <1>6 DEF ReadUpdate, RollBackUpdate, CloseUpdate
  <1> QED BY <1>2, <1>3, <1>4, <1>5, <1>6 DEF Next, CreateOrGet

LEMMA AuditStep ==
    ASSUME IntakeInv, AuditedOnce, [Next]_vars
    PROVE  AuditedOnce'
  <1>1. CASE UNCHANGED vars
    BY <1>1 DEF vars, AuditedOnce
  <1>2. CASE Next /\ DocumentsKept
    <2> SUFFICES ASSUME NEW k \in Keys
                 PROVE  /\ audit'[k].created = (IF incident'[k] = NoDocument THEN 0 ELSE 1)
                        /\ audit'[k].resolved <= 1
                        /\ audit'[k].resolved = 1 =>
                                incident'[k] # NoDocument /\ incident'[k].end # NoEnd
      BY DEF AuditedOnce
    <2>1. /\ audit[k].created \in Nat /\ audit[k].resolved \in Nat
          /\ audit[k].created = (IF incident[k] = NoDocument THEN 0 ELSE 1)
          /\ audit[k].resolved <= 1
          /\ audit[k].resolved = 1 => incident[k] # NoDocument /\ incident[k].end # NoEnd
      BY DEF IntakeInv, TypeOK, AuditedOnce
    <2>2. /\ incident[k] # NoDocument => incident'[k] # NoDocument
          /\ incident[k] # NoDocument /\ incident[k].end # NoEnd => incident'[k].end # NoEnd
      BY <1>2 DEF DocumentsKept
    <2>3. AuditMove(k)
      BY <1>2, AuditMoves
    <2> QED BY <2>1, <2>2, <2>3 DEF AuditMove
  <1> QED BY <1>1, <1>2, IntakeStep

(* One creation and at most one resolution are audited per Incident, for    *)
(* any number of redeliveries, concurrent requests and rolled-back ones.   *)
THEOREM EventsAreAuditedOnce == Spec => []AuditedOnce
  <1>1. Init => AuditedOnce
    BY DEF Init, AuditedOnce
  <1>2. IntakeInv /\ AuditedOnce /\ [Next]_vars => AuditedOnce'
    BY AuditStep
  <1> QED BY <1>1, <1>2, IntakeInvariant, PTL DEF Spec
=============================================================================
