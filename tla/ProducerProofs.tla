--------------------------- MODULE ProducerProofs ----------------------------
(***************************************************************************)
(* No producer that is recorded is removed from memory, proved for every   *)
(* set of meetings, participants, instances, identifiers and requests, and *)
(* every fault, of callers that await a reply before their next call.      *)
(*                                                                         *)
(* Where, moreover, requests come one at a time, producer_map holds        *)
(* exactly the recorded producers, the maps of recordings follow it, and   *)
(* the recorded consumers are in consumer_map.                             *)
(***************************************************************************)
EXTENDS TransportProofs

-----------------------------------------------------------------------------
(* The inductive invariant *)

\* The presence that call c is about.
Presence(c) == [p |-> c.p, m |-> c.m, i |-> c.i]

InProducerMap(id) == \E x \in producer_map : x.id = id

\* RecordedProducerIsLive, with the producers whose transport the process never had, or
\* has lost, instead of those of the meetings it does not serve.
Live ==
    \A row \in db.participant_producers :
       InProducerMap(row.id) \/ AboutToPublish(row.id) \/ ~InMemory(row.t)

\* A recorded producer is of the meeting its participant is in, ...
InPlace ==
    \A row \in db.participant_producers :
       \E y \in db.participant_meeting : y.p = row.p /\ y.m = row.m

\* ... and in producer_map it is of the very instance that is there.
OfPresent ==
    \A row \in db.participant_producers : \A x \in producer_map :
       x.id = row.id => x.p = row.p /\ Presence(x) \in db.participant_meeting

\* The callers wait: an instance has one call in progress, and a meeting is made or ended
\* by one call at a time.
CallsAreApart ==
    \A r, q \in Busy :
       /\ call[r].p = call[q].p
       /\ IF call[r].p = None THEN call[r].m = call[q].m ELSE call[r].i = call[q].i
       => r = q

\* From the making of a producer to its insertion.
Unpublished == {"cp_routers", "cp_register", "cp_publish"}

\* Nobody but its create_producer knows a producer that is not in producer_map yet.
KnownToItsMaker(r) ==
    pc[r] \in Unpublished =>
       /\ ~InProducerMap(local[r].producer)
       /\ \A q \in Requests : local[r].producer \notin local[q].producers
       /\ \A q \in Requests : pc[q] \in {"cl_delete", "cl_close"} =>
                                 local[r].producer \notin call[q].ids

\* While the transport of a create_producer is registered, the instance that called is
\* in the meeting.
CallerStays(r) ==
    pc[r] \in ProduceSteps =>
       \A row \in db.participant_producer_transport :
          row.t = call[r].t => row.p = call[r].p /\ Presence(call[r]) \in db.participant_meeting

\* A row that is about to be published is of that instance.
CallerRecords(r) ==
    pc[r] = "cp_publish" =>
       \A row \in db.participant_producers :
          row.id = local[r].producer =>
             row.p = call[r].p /\ Presence(call[r]) \in db.participant_meeting

\* The steps of a teardown between its transaction and its search for producers, ...
Superseding == {"rt_own_read", "rt_own_close", "rt_producers_read"}
Leaving     == {"lv_transports", "lv_own_read", "lv_own_close", "lv_producers_read"}
Ending      == {"em_routers", "em_transports", "em_consumers_read", "em_consumers_close",
                "em_producers_read"}

\* ... during which the presences it has deleted do not come back: ...
StaysSuperseded(r) ==
    pc[r] \in Superseding =>
       \A y \in db.participant_meeting : y.p = call[r].p /\ y.m = call[r].m => y.i = call[r].i

StaysAway(r) == pc[r] \in Leaving => Presence(call[r]) \notin db.participant_meeting

StaysEnded(r) == pc[r] \in Ending => call[r].m \notin db.meeting_status

\* ... and between the search and the removal, where it has the ids it is to remove.
Removing == {"rt_dependents_read", "rt_producers_close", "lv_producers_close",
             "em_producers_close"}

\* What is removed is not recorded.
RemovedIsDeleted(r) ==
    /\ pc[r] \in Removing =>
          \A row \in db.participant_producers : row.id \notin local[r].producers
    /\ pc[r] = "cl_close" =>
          \A row \in db.participant_producers : row.id \notin call[r].ids
    /\ pc[r] = "cl_delete" =>
          \A row \in db.participant_producers : row.id \in call[r].ids => row.p = call[r].p

\* The calls about a meeting name no participant.
MeetingSteps == {"cm_routers", "cm_register", "rm_routers", "rm_register", "mk_publish",
                 "em_delete", "em_producers_close"} \cup Ending

NamesNobody(r) == pc[r] \in MeetingSteps => call[r].p = None

TeardownInv(r) ==
    /\ NamesNobody(r) /\ KnownToItsMaker(r) /\ CallerStays(r) /\ CallerRecords(r)
    /\ StaysSuperseded(r) /\ StaysAway(r) /\ StaysEnded(r)
    /\ RemovedIsDeleted(r)

ProducerInv ==
    /\ Live /\ InPlace /\ OfPresent /\ CallsAreApart
    /\ \A r \in Requests : TeardownInv(r)

-----------------------------------------------------------------------------
(* A step of a handler *)

\* Whoever row belongs to stays where he is.
OwnerStays(row) == \A y \in db.participant_meeting : y.p = row.p => y \in db'.participant_meeting

\* Request r inserts the row of its producer while its instance is in the meeting.
Records(r, row) ==
    /\ pc[r] = "cp_register" /\ pc'[r] = "cp_publish"
    /\ row.id = local[r].producer /\ row.p = call[r].p /\ row.m = call[r].m
    /\ Presence(call[r]) \in db'.participant_meeting

\* What a step of r does to the tables: nothing is recorded but by these three handlers.
TablesCalm(r) ==
    /\ \A row \in db'.participant_producers :
          (row \in db.participant_producers /\ OwnerStays(row)) \/ Records(r, row)
    /\ \A row \in db'.participant_producer_transport :
          \/ row \in db.participant_producer_transport /\ OwnerStays(row)
          \/ \A q \in Requests : call[q].t # row.t
    /\ \A y \in db'.participant_meeting :
          y \in db.participant_meeting \/ (pc[r] = "rt_join" /\ y = Presence(call[r]))
    /\ \A m \in db'.meeting_status :
          m \in db.meeting_status \/ (pc[r] \in {"cm_register", "rm_register"} /\ m = call[r].m)

\* ... and to the maps: a producer is removed when it is not recorded, and inserted by
\* its create_producer.
MapsCalm(r) ==
    /\ \A x \in producer_map :
          x \in producer_map' \/ \A row \in db'.participant_producers : row.id # x.id
    /\ \A x \in producer_map' :
          \/ x \in producer_map
          \/ /\ pc[r] = "cp_publish" /\ pc'[r] \notin Unpublished
             /\ x.id = local[r].producer /\ Presence(x) = Presence(call[r])
    /\ pc[r] = "cp_publish" => \E x \in producer_map' : x.id = local[r].producer
    /\ \A x \in transport_map' :
          x \in transport_map \/ (pc[r] = "rt_publish" /\ x.id = local[r].transport)

\* Request r goes on: where it enters a part of its handler, it has established what that
\* part relies on.
GoesCalmly(r) ==
    /\ pc[r] # "idle" /\ pc'[r] # "idle" /\ call'[r] = call[r]
    /\ pc'[r] \in MeetingSteps => pc[r] \in MeetingSteps
    /\ \A id \in local'[r].producers : id \in local[r].producers \/ InProducerMap(id)
    /\ pc'[r] \in Unpublished =>
          \/ pc[r] \in Unpublished /\ local'[r].producer = local[r].producer
          \/ pc[r] = "cp_produce" /\ local'[r].producer \in FreshProducers
    /\ pc'[r] = "cp_publish" => pc[r] = "cp_register"
    /\ pc'[r] \in ProduceSteps => pc[r] \in ProduceSteps
    /\ pc'[r] = "rt_publish" => pc[r] = "rt_register" /\ local'[r].transport = local[r].transport
    /\ pc'[r] \in Superseding =>
          \/ pc[r] \in Superseding
          \/ \A y \in db'.participant_meeting : y.p = call[r].p /\ y.m = call[r].m => y.i = call[r].i
    /\ pc'[r] \in Leaving =>
          pc[r] \in Leaving \/ Presence(call[r]) \notin db'.participant_meeting
    /\ pc'[r] \in Ending => pc[r] \in Ending \/ call[r].m \notin db'.meeting_status
    /\ pc'[r] \in Removing =>
          \/ pc[r] \in Removing /\ local'[r].producers = local[r].producers
          \/ \A row \in db'.participant_producers : row.id \notin local'[r].producers
    /\ pc'[r] = "cl_close" =>
          /\ pc[r] = "cl_delete"
          /\ \A row \in db'.participant_producers : row.id \notin call[r].ids
    /\ pc'[r] # "cl_delete"

OthersWait(r) ==
    \A q \in Requests \ {r} : pc'[q] = pc[q] /\ call'[q] = call[q] /\ local'[q] = local[q]

CalmStep(r) ==
    /\ TablesCalm(r) /\ MapsCalm(r) /\ OthersWait(r)
    /\ GoesCalmly(r) \/ (pc'[r] = "idle" /\ local'[r] = NoLocal)

\* What the step asks of the invariants of the state before it.
Before ==
    /\ ControlOK /\ Consistent(db) /\ OneProducerEach /\ ProducerInv
    /\ \A r \in Requests : Unrecorded(r) /\ Unshared(r)

\* A create_producer that has made its producer has one, and it is its own.
LEMMA OwnProducer ==
  ASSUME ControlOK, OneProducerEach, NEW r \in Requests, NEW q \in Requests,
         pc[r] \in Unpublished, local[r].producer = local[q].producer
  PROVE  r = q
<1>1. local[r].producer \in ProducerIds
  BY DEF ControlOK, StepTyped, Unpublished
<1>2. local[r].producer # None
  BY <1>1, SfuAssumption
<1> QED
  BY <1>2 DEF OneProducerEach

\* A transport in memory after the step was there before, if a producer is recorded on it.
LEMMA CalmTransports ==
  ASSUME Before, NEW r \in Requests, CalmStep(r), NEW row \in db.participant_producers,
         InMemory(row.t)'
  PROVE  InMemory(row.t)
<1>1. PICK x \in db.participant_producer_transport : x.t = row.t
  BY DEF Before, Consistent
<1>2. CASE \E y \in transport_map' : y.id = row.t
  BY <1>2 DEF CalmStep, MapsCalm, InMemory
<1>3. ASSUME NEW q \in Requests, pc'[q] = "rt_publish", local'[q].transport = row.t
      PROVE  InMemory(row.t)
  <2>1. CASE q = r
    <3>1. pc[r] = "rt_register" /\ local[r].transport = row.t
      BY <1>3, <2>1 DEF CalmStep, GoesCalmly
    <3> QED
      BY <1>1, <3>1 DEF Before, Unshared, TransportRows
  <2>2. CASE q # r
    BY <1>3, <2>2 DEF CalmStep, OthersWait, InMemory
  <2> QED
    BY <2>1, <2>2
<1> QED
  BY <1>2, <1>3 DEF InMemory

\* The rows keep what they are about.
LEMMA CalmRows ==
  ASSUME Before, NEW r \in Requests, CalmStep(r)
  PROVE  Live' /\ InPlace' /\ OfPresent'
<1> USE DEF Presence
<1>0. Live /\ InPlace /\ OfPresent /\ \A q \in Requests : TeardownInv(q)
  BY DEF Before, ProducerInv
<1>1. ASSUME NEW row \in db'.participant_producers
      PROVE  (InProducerMap(row.id) \/ AboutToPublish(row.id) \/ ~InMemory(row.t))'
  <2>1. CASE Records(r, row)
    <3>1. pc'[r] = "cp_publish" /\ local'[r].producer = row.id
      <4>1. pc'[r] = "cp_publish" /\ pc[r] = "cp_register" /\ row.id = local[r].producer
        BY <2>1 DEF Records
      <4>2. pc'[r] \in Unpublished /\ pc'[r] # "idle"
        BY <4>1 DEF Unpublished
      <4> QED
        BY <4>1, <4>2 DEF CalmStep, GoesCalmly
    <3> QED
      BY <3>1 DEF AboutToPublish
  <2>2. CASE row \in db.participant_producers
    <3>1. CASE InProducerMap(row.id)
      BY <3>1 DEF InProducerMap, CalmStep, MapsCalm
    <3>2. ASSUME NEW q \in Requests, pc[q] = "cp_publish", local[q].producer = row.id
          PROVE  (InProducerMap(row.id) \/ AboutToPublish(row.id))'
      <4>1. CASE q = r
        BY <3>2, <4>1 DEF InProducerMap, CalmStep, MapsCalm
      <4>2. CASE q # r
        BY <3>2, <4>2 DEF AboutToPublish, CalmStep, OthersWait
      <4> QED
        BY <4>1, <4>2
    <3>3. CASE ~InMemory(row.t)
      BY <2>2, <3>3, CalmTransports
    <3> QED
      BY <1>0, <2>2, <3>1, <3>2, <3>3 DEF Live, AboutToPublish
  <2> QED
    BY <2>1, <2>2 DEF CalmStep, TablesCalm
<1>2. ASSUME NEW row \in db'.participant_producers
      PROVE  \E y \in db'.participant_meeting : y.p = row.p /\ y.m = row.m
  <2>1. CASE Records(r, row)
    BY <2>1 DEF Records
  <2>2. CASE row \in db.participant_producers /\ OwnerStays(row)
    BY <1>0, <2>2 DEF InPlace, OwnerStays
  <2> QED
    BY <2>1, <2>2 DEF CalmStep, TablesCalm
<1>3. ASSUME NEW row \in db'.participant_producers, NEW x \in producer_map', x.id = row.id
      PROVE  x.p = row.p /\ Presence(x) \in db'.participant_meeting
  <2>1. CASE x \in producer_map
    <3>1. CASE Records(r, row)
      <4>1. pc[r] \in Unpublished /\ x.id = local[r].producer
        BY <1>3, <3>1 DEF Records, Unpublished
      <4> QED
        BY <1>0, <2>1, <4>1 DEF TeardownInv, KnownToItsMaker, InProducerMap
    <3>2. CASE row \in db.participant_producers /\ OwnerStays(row)
      BY <1>0, <1>3, <2>1, <3>2 DEF OfPresent, OwnerStays
    <3> QED
      BY <3>1, <3>2 DEF CalmStep, TablesCalm
  <2>2. CASE x \notin producer_map
    <3>1. pc[r] = "cp_publish" /\ x.id = local[r].producer /\ Presence(x) = Presence(call[r])
      BY <2>2 DEF CalmStep, MapsCalm
    <3>2. row \in db.participant_producers /\ OwnerStays(row)
      BY <3>1 DEF CalmStep, TablesCalm, Records
    <3>3. row.p = call[r].p /\ Presence(call[r]) \in db.participant_meeting
      BY <1>0, <1>3, <3>1, <3>2 DEF TeardownInv, CallerRecords
    <3> QED
      BY <3>1, <3>2, <3>3 DEF OwnerStays
  <2> QED
    BY <2>1, <2>2
<1> QED
  BY <1>1, <1>2, <1>3 DEF Live, InPlace, OfPresent

\* Nobody learns of a producer before it is in producer_map.
LEMMA CalmMaker ==
  ASSUME Before, NEW r \in Requests, CalmStep(r), NEW q \in Requests
  PROVE  KnownToItsMaker(q)'
<1>0. \A s \in Requests : TeardownInv(s)
  BY DEF Before, ProducerInv
<1> SUFFICES ASSUME pc'[q] \in Unpublished
             PROVE  /\ ~InProducerMap(local[q].producer)'
                    /\ \A s \in Requests : local'[q].producer \notin local'[s].producers
                    /\ \A s \in Requests : pc'[s] \in {"cl_delete", "cl_close"} =>
                                              local'[q].producer \notin call'[s].ids
  BY DEF KnownToItsMaker
<1>1. PICK id : id = local'[q].producer
  OBVIOUS
<1>2. /\ ~InProducerMap(id)
      /\ \A s \in Requests : id \notin local[s].producers
      /\ \A s \in Requests : pc[s] \in {"cl_delete", "cl_close"} => id \notin call[s].ids
      /\ pc[r] = "cp_publish" /\ pc'[r] \notin Unpublished => id # local[r].producer
  <2>1. CASE pc[q] \in Unpublished /\ local'[q].producer = local[q].producer
    <3>1. id = local[r].producer => q = r
      BY <1>1, <2>1, OwnProducer DEF Before
    <3> QED
      BY <1>0, <1>1, <2>1, <3>1 DEF TeardownInv, KnownToItsMaker
  <2>2. CASE id \in FreshProducers
    BY <2>2 DEF FreshProducers, InProducerMap
  <2> QED
    BY <1>1, <2>1, <2>2 DEF CalmStep, GoesCalmly, OthersWait, Unpublished
<1>3. ~InProducerMap(id)'
  BY <1>2 DEF InProducerMap, CalmStep, MapsCalm
<1>4. ASSUME NEW s \in Requests
      PROVE  /\ id \notin local'[s].producers
             /\ pc'[s] \in {"cl_delete", "cl_close"} => id \notin call'[s].ids
  <2>1. CASE s # r
    BY <1>2, <2>1 DEF CalmStep, OthersWait
  <2>2. CASE s = r /\ pc'[r] = "idle" /\ local'[r] = NoLocal
    BY <2>2 DEF NoLocal
  <2>3. CASE s = r /\ GoesCalmly(r)
    BY <1>2, <2>3 DEF GoesCalmly
  <2> QED
    BY <2>1, <2>2, <2>3 DEF CalmStep
<1> QED
  BY <1>1, <1>3, <1>4

\* The instance of a create_producer.
LEMMA CalmCaller ==
  ASSUME Before, NEW r \in Requests, CalmStep(r), NEW q \in Requests
  PROVE  CallerStays(q)' /\ CallerRecords(q)'
<1> USE DEF Presence
<1>0. TeardownInv(q)
  BY DEF Before, ProducerInv
<1>1. ASSUME pc'[q] \in ProduceSteps, NEW row \in db'.participant_producer_transport,
             row.t = call'[q].t
      PROVE  row.p = call'[q].p /\ Presence(call'[q]) \in db'.participant_meeting
  <2>1. pc[q] \in ProduceSteps /\ call'[q] = call[q]
    <3>1. CASE q # r
      BY <1>1, <3>1 DEF CalmStep, OthersWait
    <3>2. CASE q = r
      BY <1>1, <3>2 DEF CalmStep, GoesCalmly, ProduceSteps, MeetingLocked, Producing
    <3> QED
      BY <3>1, <3>2
  <2>2. row \in db.participant_producer_transport /\ OwnerStays(row)
    BY <1>1, <2>1 DEF CalmStep, TablesCalm
  <2> QED
    BY <1>0, <1>1, <2>1, <2>2 DEF TeardownInv, CallerStays, OwnerStays
<1>2. ASSUME pc'[q] = "cp_publish", NEW row \in db'.participant_producers,
             row.id = local'[q].producer
      PROVE  row.p = call'[q].p /\ Presence(call'[q]) \in db'.participant_meeting
  <2>1. /\ pc[q] \in {"cp_register", "cp_publish"}
        /\ call'[q] = call[q] /\ local'[q].producer = local[q].producer
        /\ q = r => pc[q] = "cp_register"
    <3>1. CASE q # r
      BY <1>2, <3>1 DEF CalmStep, OthersWait
    <3>2. CASE q = r
      BY <1>2, <3>2 DEF CalmStep, GoesCalmly, Unpublished
    <3> QED
      BY <3>1, <3>2
  <2>2. CASE Records(r, row)
    <3>1. r = q
      BY <1>2, <2>1, <2>2, OwnProducer DEF Records, Before, Unpublished
    <3> QED
      BY <2>1, <2>2, <3>1 DEF Records
  <2>3. CASE row \in db.participant_producers /\ OwnerStays(row)
    <3>1. pc[q] = "cp_publish"
      BY <1>2, <2>1, <2>3 DEF Before, Unrecorded
    <3> QED
      BY <1>0, <1>2, <2>1, <2>3, <3>1 DEF TeardownInv, CallerRecords, OwnerStays
  <2> QED
    BY <2>2, <2>3 DEF CalmStep, TablesCalm
<1> QED
  BY <1>1, <1>2 DEF CallerStays, CallerRecords

\* Presences that were deleted do not come back during the teardown: an instance that
\* joins holds the mutex of its participant, and has no other call in progress.
LEMMA CalmTeardown ==
  ASSUME Before, NEW r \in Requests, CalmStep(r), NEW q \in Requests
  PROVE  StaysSuperseded(q)' /\ StaysAway(q)' /\ StaysEnded(q)'
<1> USE DEF Presence
<1>0. TeardownInv(q) /\ TeardownInv(r) /\ CallsAreApart
  BY DEF Before, ProducerInv
<1>1. CASE q = r
  BY <1>0, <1>1 DEF CalmStep, GoesCalmly, TablesCalm, TeardownInv, StaysSuperseded, StaysAway, StaysEnded,
            Superseding, Leaving, Ending
<1>2. CASE q # r
  <2>1. pc'[q] = pc[q] /\ call'[q] = call[q]
    BY <1>2 DEF CalmStep, OthersWait
  <2>2. StaysSuperseded(q)'
    <3> SUFFICES ASSUME pc[q] \in Superseding, NEW y \in db'.participant_meeting,
                        y.p = call[q].p, y.m = call[q].m
                 PROVE  y.i = call[q].i
      BY <2>1 DEF StaysSuperseded
    <3>1. CASE y \in db.participant_meeting
      BY <1>0, <3>1 DEF TeardownInv, StaysSuperseded
    <3>2. CASE pc[r] = "rt_join" /\ y = Presence(call[r])
      <4>1. call[r].p = call[q].p
        BY <3>2
      <4>2. {k \in LockKeys : lock_map[k] = r} = {call[q].p}
        BY <3>2, <4>1 DEF Before, ControlOK, LockDiscipline, Held, ParticipantLocked
      <4>3. {k \in LockKeys : lock_map[k] = q} = {call[q].p}
        BY DEF Before, ControlOK, LockDiscipline, Held, ParticipantLocked, Superseding
      <4> QED
        BY <1>2, <4>2, <4>3
    <3> QED
      BY <3>1, <3>2 DEF CalmStep, TablesCalm
  <2>3. StaysAway(q)'
    <3> SUFFICES ASSUME pc[q] \in Leaving, Presence(call[q]) \in db'.participant_meeting
                 PROVE  FALSE
      BY <2>1 DEF StaysAway
    <3>1. pc[r] = "rt_join" /\ Presence(call[q]) = Presence(call[r])
      BY <1>0 DEF TeardownInv, StaysAway, CalmStep, TablesCalm
    <3>2. call[q].p = call[r].p /\ call[q].i = call[r].i
      BY <3>1
    <3>3. call[q].p # None
      <4>1. call[q].p \in Participants
        BY DEF Before, ControlOK, StepTyped, Leaving, LeaveSteps
      <4> QED
        BY <4>1, SfuAssumption
    <3>4. q \in Busy /\ r \in Busy
      BY <3>1 DEF Busy, Leaving
    <3> QED
      BY <1>0, <1>2, <3>2, <3>3, <3>4 DEF CallsAreApart
  <2>4. StaysEnded(q)'
    <3> SUFFICES ASSUME pc[q] \in Ending, call[q].m \in db'.meeting_status
                 PROVE  FALSE
      BY <2>1 DEF StaysEnded
    <3>1. pc[r] \in {"cm_register", "rm_register"} /\ call[q].m = call[r].m
      BY <1>0 DEF TeardownInv, StaysEnded, CalmStep, TablesCalm
    <3>2. call[q].p = None /\ call[r].p = None
      BY <1>0, <3>1 DEF TeardownInv, NamesNobody, MeetingSteps
    <3>3. q \in Busy /\ r \in Busy
      BY <3>1 DEF Busy, Ending
    <3> QED
      BY <1>0, <1>2, <3>1, <3>2, <3>3 DEF CallsAreApart
  <2> QED
    BY <2>2, <2>3, <2>4
<1> QED
  BY <1>1, <1>2

\* What a teardown is to remove is not recorded again.
LEMMA CalmRemoval ==
  ASSUME Before, NEW r \in Requests, CalmStep(r), NEW q \in Requests
  PROVE  RemovedIsDeleted(q)' /\ NamesNobody(q)'
<1>0. TeardownInv(q) /\ TeardownInv(r)
  BY DEF Before, ProducerInv
<1>1. CASE q # r
  <2>1. pc'[q] = pc[q] /\ call'[q] = call[q] /\ local'[q] = local[q]
    BY <1>1 DEF CalmStep, OthersWait
  <2>2. ASSUME NEW row \in db'.participant_producers
        PROVE  /\ pc[q] \in Removing => row.id \notin local[q].producers
               /\ pc[q] = "cl_close" => row.id \notin call[q].ids
               /\ pc[q] = "cl_delete" => (row.id \in call[q].ids => row.p = call[q].p)
    <3>1. CASE Records(r, row)
      <4>1. pc[r] \in Unpublished /\ row.id = local[r].producer
        BY <3>1 DEF Records, Unpublished
      <4> QED
        BY <1>0, <4>1 DEF TeardownInv, KnownToItsMaker
    <3>2. CASE row \in db.participant_producers
      BY <1>0, <3>2 DEF TeardownInv, RemovedIsDeleted
    <3> QED
      BY <3>1, <3>2 DEF CalmStep, TablesCalm
  <2> QED
    BY <1>0, <2>1, <2>2 DEF RemovedIsDeleted, TeardownInv, NamesNobody
<1>2. CASE q = r /\ pc'[r] = "idle"
  BY <1>2 DEF RemovedIsDeleted, NamesNobody, Removing, Ending, MeetingSteps
<1>3. CASE q = r /\ GoesCalmly(r)
  <2>1. NamesNobody(q)'
    BY <1>0, <1>3 DEF TeardownInv, NamesNobody, GoesCalmly
  <2>2. ASSUME pc'[r] \in Removing, NEW row \in db'.participant_producers
        PROVE  row.id \notin local'[r].producers
    <3>1. CASE pc[r] \in Removing /\ local'[r].producers = local[r].producers
      <4>1. row \in db.participant_producers
        BY <3>1 DEF CalmStep, TablesCalm, Records, Removing
      <4> QED
        BY <1>0, <3>1, <4>1 DEF TeardownInv, RemovedIsDeleted
    <3> QED
      BY <1>3, <2>2, <3>1 DEF GoesCalmly
  <2> QED
    BY <1>3, <2>1, <2>2 DEF RemovedIsDeleted, GoesCalmly
<1> QED
  BY <1>1, <1>2, <1>3 DEF CalmStep

\* The callers still wait.
LEMMA CalmCalls ==
  ASSUME Before, NEW r \in Requests, CalmStep(r)
  PROVE  CallsAreApart'
<1>1. \A q \in Requests : pc'[q] # "idle" => pc[q] # "idle" /\ call'[q] = call[q]
  BY DEF CalmStep, OthersWait, GoesCalmly
<1>2. CallsAreApart
  BY DEF Before, ProducerInv
<1> QED
  BY <1>1, <1>2 DEF CallsAreApart, Busy

\* A calm step keeps the invariant.
LEMMA CalmInvariant ==
  ASSUME Before, NEW r \in Requests, CalmStep(r)
  PROVE  ProducerInv'
<1>1. \A q \in Requests : TeardownInv(q)'
  BY CalmMaker, CalmCaller, CalmTeardown, CalmRemoval DEF TeardownInv
<1> QED
  BY <1>1, CalmRows, CalmCalls DEF ProducerInv

-----------------------------------------------------------------------------
(* The handlers take calm steps *)

\* A transaction that registers neither a producer nor a transport.
LEMMA QuietTables ==
  ASSUME QuietStep, NEW r \in Requests,
         \A y \in db'.participant_meeting :
            y \in db.participant_meeting \/ (pc[r] = "rt_join" /\ y = Presence(call[r])),
         \A m \in db'.meeting_status :
            m \in db.meeting_status \/ (pc[r] \in {"cm_register", "rm_register"} /\ m = call[r].m)
  PROVE  TablesCalm(r)
<1>1. Consistent(db') /\ Quiet(db, db')
  BY DEF QuietStep
<1>2. ASSUME NEW row \in db'.participant_producers
      PROVE  row \in db.participant_producers /\ OwnerStays(row)
  <2>1. PICK x \in db'.participant_producer_transport : x.p = row.p
    BY <1>1 DEF Consistent
  <2> QED
    BY <1>1, <2>1 DEF Quiet, OwnerStays, TransportRows
<1>3. ASSUME NEW row \in db'.participant_producer_transport
      PROVE  row \in db.participant_producer_transport /\ OwnerStays(row)
  BY <1>1 DEF Quiet, OwnerStays, TransportRows
<1> QED
  BY <1>2, <1>3 DEF TablesCalm

\* No transaction.
LEMMA SameTables ==
  ASSUME db' = db, NEW r \in Requests
  PROVE  TablesCalm(r)
  BY DEF TablesCalm, OwnerStays

\* No producer is removed or inserted.
LEMMA SameMaps ==
  ASSUME producer_map' = producer_map, transport_map' \subseteq transport_map,
         NEW r \in Requests, pc[r] # "cp_publish"
  PROVE  MapsCalm(r)
  BY DEF MapsCalm

\* Producers that are not recorded are removed.
LEMMA FewerMaps ==
  ASSUME producer_map' \subseteq producer_map, transport_map' = transport_map,
         db' = db, NEW r \in Requests, pc[r] # "cp_publish", NEW ids,
         \A x \in producer_map : x \in producer_map' \/ x.id \in ids,
         \A row \in db.participant_producers : row.id \notin ids
  PROVE  MapsCalm(r)
  BY DEF MapsCalm

\* The request ends, ...
LEMMA DoneCalm ==
  ASSUME ControlOK, NEW r \in Requests, Done(r)
  PROVE  OthersWait(r) /\ pc'[r] = "idle" /\ local'[r] = NoLocal
  BY DEF Done, OthersWait, ControlOK

\* ... or goes on with the identifiers it has, ...
Moves(r, from, to) ==
    /\ pc[r] = from
    /\ Proceeds(r, to, local'[r])
    /\ local'[r].producers = local[r].producers \/ local'[r].producers = {}
    /\ from \in Removing => local'[r].producers = local[r].producers
    /\ local'[r].producer = local[r].producer

\* ... from one step to another of the same part of its handler.
Ordinary(from, to) ==
    /\ from # "idle" /\ to \notin {"idle", "rt_publish", "cl_close", "cl_delete", "cp_publish"}
    /\ \A S \in {MeetingSteps, Unpublished, ProduceSteps, Superseding, Leaving, Ending, Removing} :
          to \in S => from \in S

\* Such a step is a calm one of its handler.
LEMMA MoveCalm ==
  ASSUME ControlOK, NEW r \in Requests, NEW from, NEW to, Moves(r, from, to), Ordinary(from, to)
  PROVE  OthersWait(r) /\ GoesCalmly(r)
<1>1. /\ pc[r] = from /\ pc'[r] = to /\ call'[r] = call[r]
      /\ \A q \in Requests \ {r} : pc'[q] = pc[q] /\ call'[q] = call[q] /\ local'[q] = local[q]
  BY DEF Moves, Proceeds, ControlOK
<1>2. OthersWait(r)
  BY <1>1 DEF OthersWait
<1>3. /\ to \in MeetingSteps => from \in MeetingSteps
      /\ to \in Unpublished => from \in Unpublished
      /\ to \in ProduceSteps => from \in ProduceSteps
      /\ to \in Superseding => from \in Superseding
      /\ to \in Leaving => from \in Leaving
      /\ to \in Ending => from \in Ending
      /\ to \in Removing => from \in Removing
      /\ from # "idle" /\ to \notin {"idle", "rt_publish", "cl_close", "cl_delete", "cp_publish"}
  BY DEF Ordinary
<1>4. GoesCalmly(r)
  BY <1>1, <1>3 DEF GoesCalmly, Moves
<1> QED
  BY <1>2, <1>4

\* A step without a transaction that removes no producer.
LEMMA PlainCalm ==
  ASSUME ControlOK, NEW r \in Requests, db' = db, producer_map' = producer_map,
         transport_map' \subseteq transport_map, pc[r] # "cp_publish",
         Done(r) \/ \E from, to : Moves(r, from, to) /\ Ordinary(from, to)
  PROVE  CalmStep(r)
<1>1. TablesCalm(r) /\ MapsCalm(r)
  BY SameTables, SameMaps
<1>2. CASE Done(r)
  BY <1>1, <1>2, DoneCalm DEF CalmStep
<1>3. CASE \E from, to : Moves(r, from, to) /\ Ordinary(from, to)
  BY <1>1, <1>3, MoveCalm DEF CalmStep
<1> QED
  BY <1>2, <1>3

\* leave_meeting.
LEMMA LeaveCalm ==
  ASSUME DataOK, ControlOK, RosterInv, ProducerInv, NEW r \in Requests, LeaveMeeting(r)
  PROVE  CalmStep(r)
<1> USE DEF MeetingSteps, Unpublished, ProduceSteps, MeetingLocked, Producing, Superseding, Leaving,
            Ending, Removing
<1>0. /\ local[r] \in Locals /\ local \in [Requests -> Locals] /\ TeardownInv(r)
      /\ StepTyped(pc[r], call[r], local[r]) /\ db \in Databases /\ Consistent(db)
  BY DEF ControlOK, ProducerInv, DataOK, RosterInv
<1>1. CASE LeaveDelete(r)
  <2>1. call[r].p \in Participants /\ call[r].m \in Meetings /\ call[r].i \in Instances
    BY <1>0, <1>1 DEF LeaveDelete, StepTyped, LeaveSteps
  <2>2. PICK out \in Outcomes(LeaveTx(db, call[r].p, call[r].m, call[r].i)) : db' = out.db
    BY <1>1 DEF LeaveDelete
  <2>3. db' = LeaveTx(db, call[r].p, call[r].m, call[r].i).db \/ db' = db
    BY <2>2, OutcomeOf
  <2>4. QuietStep
    BY <1>1, LeaveQuiet
  <2>5. /\ db'.meeting_status = db.meeting_status
        /\ db'.participant_meeting \subseteq db.participant_meeting
    BY <1>0, <2>1, <2>3, LeaveEffect DEF Departed, SameRows
  <2>6. TablesCalm(r)
    BY <2>4, <2>5, QuietTables
  <2>7. MapsCalm(r)
    BY <1>1, SameMaps DEF LeaveDelete, memory
  <2>8. CASE Done(r)
    BY <2>6, <2>7, <2>8, DoneCalm DEF CalmStep
  <2>9. CASE ~Done(r)
    <3>1. PICK o \in Outcomes(LeaveTx(db, call[r].p, call[r].m, call[r].i)) :
             /\ db' = o.db /\ o.error = NoError
             /\ LeaveAffectsRows(db, call[r].p, call[r].m, call[r].i)
             /\ Continue(r, "lv_transports", local[r])
      BY <1>1, <2>9 DEF LeaveDelete
    <3>2. db' = LeaveTx(db, call[r].p, call[r].m, call[r].i).db
      BY <3>1 DEF Outcomes, Failed, NoError, DriverFailure
    <3>3. Presence(call[r]) \notin db'.participant_meeting
      <4>1. PICK d : d = db'
        OBVIOUS
      <4>2. \A y \in d.participant_meeting : ~(y.p = call[r].p /\ y.m = call[r].m /\ y.i = call[r].i)
        <5> DEFINE P == {row.p : row \in {x \in db.participant_meeting :
                             x.p = call[r].p /\ x.m = call[r].m /\ x.i = call[r].i}}
        <5>1. d = DeleteParticipants(db, P)
          BY <3>2, <4>1 DEF LeaveTx, Finish, Start, NoError
        <5>2. Departed(db, d, P, {})
          BY <1>0, <5>1, DeleteEffect
        <5> QED
          BY <5>2 DEF Departed
      <4> QED
        BY <4>1, <4>2 DEF Presence
    <3>4. /\ pc'[r] = "lv_transports" /\ pc[r] = "lv_delete" /\ call' = call /\ local'[r] = local[r]
      BY <1>0, <1>1, <3>1 DEF Continue, ControlOK, LeaveDelete
    <3>5. OthersWait(r)
      BY <1>0, <3>1 DEF Continue, ControlOK, OthersWait
    <3>6. GoesCalmly(r)
      BY <3>3, <3>4 DEF GoesCalmly
    <3> QED
      BY <2>6, <2>7, <3>5, <3>6 DEF CalmStep
  <2> QED
    BY <2>8, <2>9
<1>2. CASE LeaveTransports(r)
  <2>1. Moves(r, "lv_transports", "lv_own_read")
    BY <1>0, <1>2 DEF LeaveTransports, Moves, Proceeds, Continue, Locals
  <2>2. Ordinary("lv_transports", "lv_own_read")
    BY DEF Ordinary
  <2> QED
    BY <1>2, <2>1, <2>2, PlainCalm DEF LeaveTransports
<1>3. CASE LeaveReadOwn(r)
  <2>1. Moves(r, "lv_own_read", "lv_own_close")
    BY <1>0, <1>3 DEF LeaveReadOwn, Moves, Proceeds, Continue, Locals
  <2>2. Ordinary("lv_own_read", "lv_own_close")
    BY DEF Ordinary
  <2> QED
    BY <1>3, <2>1, <2>2, PlainCalm DEF LeaveReadOwn, memory
<1>4. CASE LeaveCloseOwn(r)
  <2>1. Moves(r, "lv_own_close", "lv_producers_read")
    BY <1>0, <1>4 DEF LeaveCloseOwn, Moves, Proceeds, Continue, Locals
  <2>2. Ordinary("lv_own_close", "lv_producers_read")
    BY DEF Ordinary
  <2> QED
    BY <1>4, <2>1, <2>2, PlainCalm DEF LeaveCloseOwn
\* The producers of the instance, which is in the meeting no more.
<1>5. CASE LeaveReadProducers(r)
  <2>1. /\ pc[r] = "lv_producers_read" /\ pc'[r] = "lv_producers_close" /\ call' = call
        /\ local'[r] = [local[r] EXCEPT !.producers =
              get_participant_producers_for_instance_in_meeting(call[r].p, call[r].m, call[r].i)]
        /\ db' = db /\ producer_map' = producer_map /\ transport_map' = transport_map
    BY <1>0, <1>5 DEF LeaveReadProducers, Continue, memory, ControlOK
  <2>2. \A id \in local'[r].producers :
           \E x \in producer_map : x.id = id /\ Presence(x) = Presence(call[r])
    BY <1>0, <2>1 DEF Locals, get_participant_producers_for_instance_in_meeting, Presence
  <2>3. Presence(call[r]) \notin db.participant_meeting
    BY <1>0, <2>1 DEF TeardownInv, StaysAway
  <2>4. \A row \in db.participant_producers : row.id \notin local'[r].producers
    BY <2>2, <2>3 DEF ProducerInv, OfPresent
  <2>5. GoesCalmly(r)
    BY <2>1, <2>2, <2>4 DEF GoesCalmly, InProducerMap
  <2>6. OthersWait(r)
    BY <1>5 DEF LeaveReadProducers, Continue, ControlOK, OthersWait
  <2> QED
    BY <2>1, <2>5, <2>6, SameTables, SameMaps DEF CalmStep
<1>6. CASE LeaveCloseProducers(r)
  <2>1. Moves(r, "lv_producers_close", "lv_dependents_read")
    BY <1>0, <1>6 DEF LeaveCloseProducers, Moves, Proceeds, Continue, Locals
  <2>2. Ordinary("lv_producers_close", "lv_dependents_read")
    BY DEF Ordinary
  <2>3. \A row \in db.participant_producers : row.id \notin local[r].producers
    BY <1>0, <1>6 DEF LeaveCloseProducers, TeardownInv, RemovedIsDeleted
  <2>4. MapsCalm(r)
    BY <1>6, <2>3, FewerMaps DEF LeaveCloseProducers, close_all_producers_in_memory
  <2>5. db' = db
    BY <1>6 DEF LeaveCloseProducers
  <2> QED
    BY <2>1, <2>2, <2>4, <2>5, SameTables, MoveCalm DEF CalmStep
<1>7. CASE LeaveReadDependents(r)
  <2>1. Moves(r, "lv_dependents_read", "lv_dependents_close") \/ Done(r)
    BY <1>0, <1>7 DEF LeaveReadDependents, Moves, Proceeds, Continue, Locals
  <2>2. Ordinary("lv_dependents_read", "lv_dependents_close")
    BY DEF Ordinary
  <2> QED
    BY <1>7, <2>1, <2>2, PlainCalm DEF LeaveReadDependents, memory
<1>8. CASE LeaveCloseDependents(r)
  BY <1>8, PlainCalm DEF LeaveCloseDependents
<1> QED
  BY <1>1, <1>2, <1>3, <1>4, <1>5, <1>6, <1>7, <1>8 DEF LeaveMeeting

\* What the transactions of meetings do to meetings and presences.
LEMMA MeetingTables ==
  ASSUME db \in Databases, Consistent(db), NEW r \in Requests, QuietStep, NEW m \in Meetings, NEW R,
         \/ db' = db
         \/ db' = CreateMeetingTx(db, m, R).db /\ pc[r] = "cm_register" /\ m = call[r].m
         \/ db' = ReplaceMeetingTx(db, m, R).db /\ pc[r] = "rm_register" /\ m = call[r].m
         \/ db' = EndMeetingTx(db, m).db
  PROVE  TablesCalm(r)
<1>1. PICK e : e = db'
  OBVIOUS
<1>2. CASE db' = db
  BY <1>2, SameTables
<1>3. CASE e = CreateMeetingTx(db, m, R).db /\ pc[r] = "cm_register" /\ m = call[r].m
  <2>1. /\ e.participant_meeting \subseteq db.participant_meeting
        /\ e.meeting_status \subseteq db.meeting_status \cup {m}
    BY <1>3, CreateEffect DEF SameRows
  <2> QED
    BY <1>1, <1>3, <2>1, QuietTables
<1>4. CASE e = ReplaceMeetingTx(db, m, R).db /\ pc[r] = "rm_register" /\ m = call[r].m
  <2>1. /\ e.participant_meeting \subseteq db.participant_meeting
        /\ e.meeting_status \subseteq db.meeting_status \cup {m}
    BY <1>4, ReplaceEffect DEF Departed
  <2> QED
    BY <1>1, <1>4, <2>1, QuietTables
<1>5. CASE e = EndMeetingTx(db, m).db
  <2>1. /\ e.participant_meeting \subseteq db.participant_meeting
        /\ e.meeting_status \subseteq db.meeting_status
    BY <1>5, EndEffect DEF Departed
  <2> QED
    BY <1>1, <2>1, QuietTables
<1> QED
  BY <1>1, <1>2, <1>3, <1>4, <1>5

\* createMeeting and replaceMeetings.
LEMMA MakeCalm ==
  ASSUME DataOK, ControlOK, RosterInv, ProducerInv, NEW r \in Requests,
         CreateMeeting(r) \/ ReplaceMeeting(r) \/ PublishRouters(r)
  PROVE  CalmStep(r)
<1> USE DEF MeetingSteps, Unpublished, ProduceSteps, MeetingLocked, Producing, Superseding, Leaving,
            Ending, Removing
<1>0. /\ local[r] \in Locals /\ local \in [Requests -> Locals]
      /\ StepTyped(pc[r], call[r], local[r]) /\ db \in Databases /\ Consistent(db)
  BY DEF ControlOK, DataOK, RosterInv
<1>1. ASSUME NEW step \in {"cm_routers", "rm_routers"}, NEW next \in {"cm_register", "rm_register"},
             CreateRouters(r, step, next)
      PROVE  CalmStep(r)
  <2>1. Moves(r, step, next) \/ Done(r)
    BY <1>0, <1>1 DEF CreateRouters, Moves, Proceeds, Continue, Locals
  <2>2. Ordinary(step, next)
    BY DEF Ordinary
  <2> QED
    BY <1>1, <2>1, <2>2, PlainCalm DEF CreateRouters, memory
<1>2. ASSUME NEW step \in {"cm_register", "rm_register"}, NEW tx, RegisterRouters(r, step, tx)
      PROVE  /\ pc[r] = step /\ (db' = db \/ db' = tx.db)
             /\ MapsCalm(r)
             /\ OthersWait(r) /\ (GoesCalmly(r) \/ (pc'[r] = "idle" /\ local'[r] = NoLocal))
  <2>1. PICK out \in Outcomes(tx) : db' = out.db
    BY <1>2 DEF RegisterRouters
  <2>2. Moves(r, step, "mk_publish") \/ Done(r)
    BY <1>0, <1>2 DEF RegisterRouters, Moves, Proceeds, Continue, Locals
  <2>3. Ordinary(step, "mk_publish")
    BY DEF Ordinary
  <2>4. MapsCalm(r)
    BY <1>2, SameMaps DEF RegisterRouters, memory
  <2> QED
    BY <1>2, <2>1, <2>2, <2>3, <2>4, OutcomeOf, MoveCalm, DoneCalm DEF RegisterRouters
<1>3. CASE RegisterRouters(r, "cm_register", CreateMeetingTx(db, call[r].m, local[r].routers))
  <2>1. QuietStep
    BY <1>3, MeetingQuiet DEF CreateMeeting
  <2>2. pc[r] = "cm_register" /\ call[r].m \in Meetings
    BY <1>0, <1>3 DEF RegisterRouters, StepTyped
  <2>3. db' = db \/ db' = CreateMeetingTx(db, call[r].m, local[r].routers).db
    BY <1>2, <1>3
  <2>4. TablesCalm(r)
    BY <1>0, <2>1, <2>2, <2>3, MeetingTables
  <2> QED
    BY <1>2, <1>3, <2>4 DEF CalmStep
<1>4. CASE RegisterRouters(r, "rm_register", ReplaceMeetingTx(db, call[r].m, local[r].routers))
  <2>1. QuietStep
    BY <1>4, MeetingQuiet DEF ReplaceMeeting
  <2>2. pc[r] = "rm_register" /\ call[r].m \in Meetings
    BY <1>0, <1>4 DEF RegisterRouters, StepTyped
  <2>3. db' = db \/ db' = ReplaceMeetingTx(db, call[r].m, local[r].routers).db
    BY <1>2, <1>4
  <2>4. TablesCalm(r)
    BY <1>0, <2>1, <2>2, <2>3, MeetingTables
  <2> QED
    BY <1>2, <1>4, <2>4 DEF CalmStep
<1>5. CASE PublishRouters(r)
  BY <1>5, PlainCalm DEF PublishRouters
<1> QED
  BY <1>1, <1>3, <1>4, <1>5 DEF CreateMeeting, ReplaceMeeting

\* end_meeting.
LEMMA EndCalm ==
  ASSUME DataOK, ControlOK, RosterInv, TransportInv, ProducerInv, NEW r \in Requests, EndMeeting(r)
  PROVE  CalmStep(r)
<1> USE DEF MeetingSteps, Unpublished, ProduceSteps, MeetingLocked, Producing, Superseding, Leaving,
            Ending, Removing
<1>0. /\ local[r] \in Locals /\ local \in [Requests -> Locals] /\ TeardownInv(r)
      /\ StepTyped(pc[r], call[r], local[r]) /\ db \in Databases /\ Consistent(db)
  BY DEF ControlOK, ProducerInv, DataOK, RosterInv
<1>1. CASE EndDelete(r)
  <2>1. call[r].m \in Meetings /\ pc[r] = "em_delete"
    BY <1>0, <1>1 DEF EndDelete, StepTyped
  <2>2. PICK out \in Outcomes(EndMeetingTx(db, call[r].m)) : db' = out.db
    BY <1>1 DEF EndDelete
  <2>3. db' = EndMeetingTx(db, call[r].m).db \/ db' = db
    BY <2>2, OutcomeOf
  <2>4. QuietStep
    BY <1>1, MeetingQuiet
  <2>5. TablesCalm(r)
    BY <1>0, <2>1, <2>3, <2>4, MeetingTables
  <2>6. MapsCalm(r)
    BY <1>1, SameMaps DEF EndDelete, memory
  <2>7. CASE Done(r)
    BY <2>5, <2>6, <2>7, DoneCalm DEF CalmStep
  <2>8. CASE ~Done(r)
    <3>1. PICK o \in Outcomes(EndMeetingTx(db, call[r].m)) :
             db' = o.db /\ o.error = NoError /\ Continue(r, "em_routers", local[r])
      BY <1>1, <2>8 DEF EndDelete
    <3>2. PICK e : e = db' /\ e = EndMeetingTx(db, call[r].m).db
      BY <3>1 DEF Outcomes, Failed, NoError, DriverFailure
    <3>3. call[r].m \notin e.meeting_status
      BY <1>0, <2>1, <3>2, EndEffect
    <3>4. /\ pc'[r] = "em_routers" /\ call' = call /\ local'[r] = local[r]
      BY <1>0, <3>1 DEF Continue, ControlOK
    <3>5. OthersWait(r)
      BY <1>0, <3>1 DEF Continue, ControlOK, OthersWait
    <3>6. GoesCalmly(r)
      BY <2>1, <3>2, <3>3, <3>4 DEF GoesCalmly
    <3> QED
      BY <2>5, <2>6, <3>5, <3>6 DEF CalmStep
  <2> QED
    BY <2>7, <2>8
<1>2. CASE EndRouters(r)
  <2>1. Moves(r, "em_routers", "em_transports")
    BY <1>0, <1>2 DEF EndRouters, Moves, Proceeds, Continue, Locals
  <2>2. Ordinary("em_routers", "em_transports")
    BY DEF Ordinary
  <2> QED
    BY <1>2, <2>1, <2>2, PlainCalm DEF EndRouters
<1>3. CASE EndTransports(r)
  <2>1. Moves(r, "em_transports", "em_consumers_read")
    BY <1>0, <1>3 DEF EndTransports, Moves, Proceeds, Continue, Locals
  <2>2. Ordinary("em_transports", "em_consumers_read")
    BY DEF Ordinary
  <2> QED
    BY <1>3, <2>1, <2>2, PlainCalm DEF EndTransports
<1>4. CASE EndReadConsumers(r)
  <2>1. Moves(r, "em_consumers_read", "em_consumers_close")
    BY <1>0, <1>4 DEF EndReadConsumers, Moves, Proceeds, Continue, Locals
  <2>2. Ordinary("em_consumers_read", "em_consumers_close")
    BY DEF Ordinary
  <2> QED
    BY <1>4, <2>1, <2>2, PlainCalm DEF EndReadConsumers, memory
<1>5. CASE EndCloseConsumers(r)
  <2>1. Moves(r, "em_consumers_close", "em_producers_read")
    BY <1>0, <1>5 DEF EndCloseConsumers, Moves, Proceeds, Continue, Locals
  <2>2. Ordinary("em_consumers_close", "em_producers_read")
    BY DEF Ordinary
  <2> QED
    BY <1>5, <2>1, <2>2, PlainCalm DEF EndCloseConsumers
\* The producers of a meeting that nobody is in.
<1>6. CASE EndReadProducers(r)
  <2>1. /\ pc[r] = "em_producers_read" /\ pc'[r] = "em_producers_close" /\ call' = call
        /\ local'[r] = [local[r] EXCEPT !.producers = get_all_producers_for_meeting(call[r].m)]
        /\ db' = db /\ producer_map' = producer_map /\ transport_map' = transport_map
    BY <1>0, <1>6 DEF EndReadProducers, Continue, memory, ControlOK
  <2>2. \A id \in local'[r].producers : \E x \in producer_map : x.id = id /\ x.m = call[r].m
    BY <1>0, <2>1 DEF Locals, get_all_producers_for_meeting
  <2>3. call[r].m \notin db.meeting_status
    BY <1>0, <2>1 DEF TeardownInv, StaysEnded
  <2>4. \A y \in db.participant_meeting : y.m # call[r].m
    BY <2>3 DEF TransportInv, Keyed
  <2>5. \A row \in db.participant_producers : row.id \notin local'[r].producers
    <3> SUFFICES ASSUME NEW row \in db.participant_producers, row.id \in local'[r].producers
                 PROVE  FALSE
      OBVIOUS
    <3>1. PICK x \in producer_map : x.id = row.id /\ x.m = call[r].m
      BY <2>2
    <3>2. Presence(x) \in db.participant_meeting
      BY <3>1 DEF ProducerInv, OfPresent
    <3> QED
      BY <2>4, <3>1, <3>2 DEF Presence
  <2>6. GoesCalmly(r)
    BY <2>1, <2>2, <2>5 DEF GoesCalmly, InProducerMap
  <2>7. OthersWait(r)
    BY <1>6 DEF EndReadProducers, Continue, ControlOK, OthersWait
  <2> QED
    BY <2>1, <2>6, <2>7, SameTables, SameMaps DEF CalmStep
<1>7. CASE EndCloseProducers(r) \/ EndCloseProducersPanics(r)
  <2>1. \A row \in db.participant_producers : row.id \notin local[r].producers
    BY <1>0, <1>7 DEF EndCloseProducers, EndCloseProducersPanics, TeardownInv, RemovedIsDeleted
  <2>2. /\ db' = db /\ transport_map' = transport_map /\ Done(r) /\ pc[r] # "cp_publish"
        /\ producer_map' \subseteq producer_map
        /\ \A x \in producer_map : x \in producer_map' \/ x.id \in local[r].producers
    BY <1>7 DEF EndCloseProducers, EndCloseProducersPanics, close_all_producers_in_memory
  <2>3. MapsCalm(r)
    BY <2>1, <2>2, FewerMaps
  <2> QED
    BY <2>2, <2>3, SameTables, DoneCalm DEF CalmStep
<1> QED
  BY <1>1, <1>2, <1>3, <1>4, <1>5, <1>6, <1>7 DEF EndMeeting

\* Once the transaction of the recreate helpers is committed, no other instance of the
\* participant is in the meeting.
LEMMA JoinSupersedes ==
  ASSUME db \in Databases, Consistent(db), NEW p \in Participants, NEW m \in Meetings,
         NEW i \in Instances, NEW kind, NEW router \in Routers, NEW out,
         out = JoinTx(db, p, m, i, kind, router), out.error = NoError
  PROVE  \A y \in out.db.participant_meeting : y.p = p /\ y.m = m => y.i = i
<1>1. PICK d : d = DeleteOtherInstances(db, p, m, i)
  OBVIOUS
<1>2. d \in Databases /\ \A y \in d.participant_meeting : y.p = p /\ y.m = m => y.i = i
  <2> DEFINE P == {row.p : row \in {x \in db.participant_meeting : x.p = p /\ x.m = m /\ x.i # i}}
  <2>1. d = DeleteParticipants(db, P)
    BY <1>1 DEF DeleteOtherInstances
  <2>2. d \in Databases /\ Departed(db, d, P, {})
    BY <2>1, DeleteParticipantsType, DeleteEffect
  <2> QED
    BY <2>2 DEF Departed
<1>3. PICK tx : tx = Start(d)
  OBVIOUS
<1>4. tx \in Transactions /\ tx.db = d
  BY <1>2, <1>3, StartType DEF Start
<1>5. PICK ty : ty = InsertParticipantMeeting(tx, p, m, i)
  OBVIOUS
<1>6. PICK tz : tz = IF kind = "producer" THEN InsertProducerRouter(ty, p, router)
                                          ELSE InsertConsumerRouter(ty, p, router)
  OBVIOUS
<1>7. out.db = tz.db
  BY <1>1, <1>3, <1>5, <1>6 DEF JoinTx, Finish
<1>8. ty \in Transactions
  BY <1>4, <1>5, InsertParticipantMeetingType
<1>9. tz.db.participant_meeting = ty.db.participant_meeting
  <2> DEFINE one == [ty.db EXCEPT !.participant_producer_router = @ \cup {[p |-> p, router |-> router]}]
             two == [ty.db EXCEPT !.participant_consumer_router = @ \cup {[p |-> p, router |-> router]}]
  <2>1. /\ one.participant_meeting = ty.db.participant_meeting
        /\ two.participant_meeting = ty.db.participant_meeting
    BY <1>8 DEF Transactions, Databases
  <2>2. tz.db \in {ty.db, one, two}
    BY <1>6, <1>8 DEF InsertProducerRouter, InsertConsumerRouter, Insert, Transactions
  <2> HIDE DEF one, two
  <2> QED
    BY <2>1, <2>2
<1>10. ty.db.participant_meeting \subseteq d.participant_meeting \cup {[p |-> p, m |-> m, i |-> i]}
  <2> DEFINE after == [tx.db EXCEPT !.participant_meeting = @ \cup {[p |-> p, m |-> m, i |-> i]}]
  <2>1. after.participant_meeting = d.participant_meeting \cup {[p |-> p, m |-> m, i |-> i]}
    BY <1>2, <1>4 DEF Databases
  <2>2. ty.db \in {d, after}
    BY <1>4, <1>5 DEF InsertParticipantMeeting, Insert, Transactions
  <2> HIDE DEF after
  <2> QED
    BY <2>1, <2>2
<1> QED
  BY <1>2, <1>7, <1>9, <1>10

\* It lets nobody but the instance that joins enter, and no meeting begin.
LEMMA JoinTables ==
  ASSUME db \in Databases, Consistent(db), NEW p \in Participants, NEW m \in Meetings,
         NEW i \in Instances, NEW kind, NEW router,
         db' = JoinTx(db, p, m, i, kind, router).db
  PROVE  /\ \A y \in db'.participant_meeting :
               y \in db.participant_meeting \/ y = [p |-> p, m |-> m, i |-> i]
         /\ db'.meeting_status = db.meeting_status
<1>1. PICK e, row : e = db' /\ row = [p |-> p, m |-> m, i |-> i]
  OBVIOUS
<1>2. e.meeting_status = db.meeting_status /\ (SameRows(db, e) \/ Departed(db, e, {p}, {row}))
  BY <1>1, JoinEffect
<1> QED
  BY <1>1, <1>2 DEF SameRows, Departed

\* The recreate helpers join.
LEMMA JoinCalm ==
  ASSUME DataOK, ControlOK, RosterInv, ProducerInv, NEW r \in Requests, RecreateJoin(r)
  PROVE  CalmStep(r)
<1> USE DEF MeetingSteps, Unpublished, ProduceSteps, MeetingLocked, Producing, Superseding, Leaving,
            Ending, Removing
<1>0. /\ local[r] \in Locals /\ local \in [Requests -> Locals]
      /\ StepTyped(pc[r], call[r], local[r]) /\ db \in Databases /\ Consistent(db)
  BY DEF ControlOK, DataOK, RosterInv
<1>1. /\ call[r].p \in Participants /\ call[r].m \in Meetings /\ call[r].i \in Instances
      /\ call[r].router \in Routers /\ pc[r] = "rt_join"
  BY <1>0 DEF RecreateJoin, StepTyped, RecreateSteps, ParticipantLocked
<1>2. PICK tx : tx = JoinTx(db, call[r].p, call[r].m, call[r].i, call[r].kind, call[r].router)
  OBVIOUS
<1>3. db' = tx.db \/ db' = db
  BY <1>2, OutcomeOf DEF RecreateJoin
<1>4. QuietStep
  BY RecreateQuiet, <1>1 DEF RecreateTransport, RecreateCreate, RecreateRegister, RecreatePublish,
                             RecreateExisting
<1>5. /\ \A y \in db'.participant_meeting : y \in db.participant_meeting \/ y = Presence(call[r])
      /\ db'.meeting_status = db.meeting_status
  <2>1. CASE db' = db
    BY <2>1
  <2>2. CASE db' = tx.db
    BY <1>0, <1>1, <1>2, <2>2, JoinTables DEF Presence
  <2> QED
    BY <1>3, <2>1, <2>2
<1>6. TablesCalm(r)
  BY <1>1, <1>4, <1>5, QuietTables
<1>7. MapsCalm(r)
  BY <1>1, SameMaps DEF RecreateJoin, memory
<1>8. CASE Done(r)
  BY <1>6, <1>7, <1>8, DoneCalm DEF CalmStep
<1>9. CASE ~Done(r)
  <2>1. PICK out, new_user :
           /\ out \in Outcomes(tx) /\ db' = out.db /\ out.error = NoError
           /\ Continue(r, "rt_own_read", [local[r] EXCEPT !.new_user = new_user])
    BY <1>2, <1>9 DEF RecreateJoin
  <2>2. db' = tx.db /\ tx.error = NoError
    BY <2>1 DEF Outcomes, Failed, NoError, DriverFailure
  <2>3. \A y \in tx.db.participant_meeting : y.p = call[r].p /\ y.m = call[r].m => y.i = call[r].i
    BY <1>0, <1>1, <1>2, <2>2, JoinSupersedes
  <2>4. /\ pc'[r] = "rt_own_read" /\ call' = call /\ local'[r].producers = local[r].producers
    BY <1>0, <2>1 DEF Continue, ControlOK, Locals
  <2>5. OthersWait(r)
    BY <1>0, <2>1 DEF Continue, ControlOK, OthersWait
  <2>6. GoesCalmly(r)
    BY <1>1, <2>2, <2>3, <2>4 DEF GoesCalmly
  <2> QED
    BY <1>6, <1>7, <2>5, <2>6 DEF CalmStep
<1> QED
  BY <1>8, <1>9

\* They remove the producers of the instance they supersede, ...
LEMMA SupersedeCalm ==
  ASSUME DataOK, ControlOK, RosterInv, ProducerInv, NEW r \in Requests,
         RecreateReadProducers(r) \/ RecreateCloseProducers(r)
  PROVE  CalmStep(r)
<1> USE DEF MeetingSteps, Unpublished, ProduceSteps, MeetingLocked, Producing, Superseding, Leaving,
            Ending, Removing
<1>0. local[r] \in Locals /\ local \in [Requests -> Locals] /\ TeardownInv(r)
  BY DEF ControlOK, ProducerInv
<1>1. CASE RecreateReadProducers(r)
  <2>1. /\ pc[r] = "rt_producers_read" /\ pc'[r] = "rt_dependents_read" /\ call' = call
        /\ local'[r] = [local[r] EXCEPT !.producers =
              get_participant_producers_excluding_instance(call[r].p, call[r].m, call[r].i)]
        /\ db' = db /\ producer_map' = producer_map /\ transport_map' = transport_map
    BY <1>0, <1>1 DEF RecreateReadProducers, Continue, memory, ControlOK
  <2>2. \A id \in local'[r].producers :
           \E x \in producer_map : x.id = id /\ x.p = call[r].p /\ x.m = call[r].m /\ x.i # call[r].i
    BY <1>0, <2>1 DEF Locals, get_participant_producers_excluding_instance
  <2>3. \A y \in db.participant_meeting : y.p = call[r].p /\ y.m = call[r].m => y.i = call[r].i
    BY <1>0, <2>1 DEF TeardownInv, StaysSuperseded
  <2>4. \A row \in db.participant_producers : row.id \notin local'[r].producers
    <3> SUFFICES ASSUME NEW row \in db.participant_producers, row.id \in local'[r].producers
                 PROVE  FALSE
      OBVIOUS
    <3>1. PICK x \in producer_map :
             x.id = row.id /\ x.p = call[r].p /\ x.m = call[r].m /\ x.i # call[r].i
      BY <2>2
    <3>2. Presence(x) \in db.participant_meeting
      BY <3>1 DEF ProducerInv, OfPresent
    <3> QED
      BY <2>3, <3>1, <3>2 DEF Presence
  <2>5. GoesCalmly(r)
    BY <2>1, <2>2, <2>4 DEF GoesCalmly, InProducerMap
  <2>6. OthersWait(r)
    BY <1>1 DEF RecreateReadProducers, Continue, ControlOK, OthersWait
  <2> QED
    BY <2>1, <2>5, <2>6, SameTables, SameMaps DEF CalmStep
<1>2. CASE RecreateCloseProducers(r)
  <2>1. Moves(r, "rt_producers_close", "rt_dependents_close")
    BY <1>0, <1>2 DEF RecreateCloseProducers, Moves, Proceeds, Continue, Locals
  <2>2. Ordinary("rt_producers_close", "rt_dependents_close")
    BY DEF Ordinary
  <2>3. \A row \in db.participant_producers : row.id \notin local[r].producers
    BY <1>0, <1>2 DEF RecreateCloseProducers, TeardownInv, RemovedIsDeleted
  <2>4. MapsCalm(r)
    BY <1>2, <2>3, FewerMaps DEF RecreateCloseProducers, close_all_producers_in_memory
  <2>5. db' = db
    BY <1>2 DEF RecreateCloseProducers
  <2> QED
    BY <2>1, <2>2, <2>4, <2>5, SameTables, MoveCalm DEF CalmStep
<1> QED
  BY <1>1, <1>2

\* ... and register a transport nobody has been called with.
LEMMA RegisterCalm ==
  ASSUME DataOK, ControlOK, RosterInv, ProducerInv, NEW r \in Requests,
         RecreateRegister(r) \/ RecreatePublish(r)
  PROVE  CalmStep(r)
<1> USE DEF MeetingSteps, Unpublished, ProduceSteps, MeetingLocked, Producing, Superseding, Leaving,
            Ending, Removing
<1>0. /\ local[r] \in Locals /\ local \in [Requests -> Locals] /\ db \in Databases
      /\ Unshared(r)
  BY DEF ControlOK, DataOK, RosterInv, RequestInv
<1>1. CASE RecreateRegister(r)
  <2>1. PICK tx : tx = RegisterTransportTx(db, call[r].p, call[r].kind, local[r].transport)
    OBVIOUS
  <2>2. db' = tx.db \/ db' = db
    BY <1>1, <2>1, OutcomeOf DEF RecreateRegister
  <2>3. pc[r] = "rt_register"
    BY <1>1 DEF RecreateRegister
  <2>4. TablesCalm(r)
    <3>1. CASE db' = db
      BY <3>1, SameTables
    <3>2. CASE db' = tx.db
      <4>1. PICK e : e = db'
        OBVIOUS
      <4>2. /\ e.meeting_status = db.meeting_status
            /\ e.participant_meeting = db.participant_meeting
            /\ e.participant_producers = db.participant_producers
            /\ e.participant_producer_transport \subseteq db.participant_producer_transport
                  \cup {[p |-> call[r].p, t |-> local[r].transport]}
        BY <1>0, <2>1, <3>2, <4>1, RegisterTransportEffect DEF SameRows
      <4>3. \A q \in Requests : call[q].t # local[r].transport
        BY <1>0, <2>3 DEF Unshared
      <4> QED
        BY <4>1, <4>2, <4>3 DEF TablesCalm, OwnerStays
    <3> QED
      BY <2>2, <3>1, <3>2
  <2>5. MapsCalm(r)
    BY <1>1, <2>3, SameMaps DEF RecreateRegister, memory
  <2>6. CASE Done(r)
    BY <2>4, <2>5, <2>6, DoneCalm DEF CalmStep
  <2>7. ASSUME NEW step \in {"rt_publish", "rt_existing"}, Continue(r, step, local[r])
        PROVE  OthersWait(r) /\ GoesCalmly(r)
    <3>1. pc'[r] = step /\ call' = call /\ local'[r] = local[r]
      BY <1>0, <2>7 DEF Continue, ControlOK
    <3>2. OthersWait(r)
      BY <1>0, <2>7 DEF Continue, ControlOK, OthersWait
    <3> QED
      BY <2>3, <3>1, <3>2 DEF GoesCalmly
  <2> QED
    BY <1>1, <2>4, <2>5, <2>6, <2>7 DEF CalmStep, RecreateRegister
<1>2. CASE RecreatePublish(r)
  <2>1. Moves(r, "rt_publish", "rt_reply")
    BY <1>0, <1>2 DEF RecreatePublish, Moves, Proceeds, Continue, Locals
  <2>2. Ordinary("rt_publish", "rt_reply")
    BY DEF Ordinary
  <2>3. MapsCalm(r)
    BY <1>2 DEF RecreatePublish, MapsCalm
  <2>4. db' = db
    BY <1>2 DEF RecreatePublish
  <2> QED
    BY <2>1, <2>2, <2>3, <2>4, SameTables, MoveCalm DEF CalmStep
<1> QED
  BY <1>1, <1>2

\* The recreate helpers.
LEMMA RecreateCalm ==
  ASSUME DataOK, ControlOK, RosterInv, ProducerInv, NEW r \in Requests, RecreateTransport(r)
  PROVE  CalmStep(r)
<1> USE DEF MeetingSteps, Unpublished, ProduceSteps, MeetingLocked, Producing, Superseding, Leaving,
            Ending, Removing
<1>0. local[r] \in Locals /\ local \in [Requests -> Locals]
  BY DEF ControlOK
<1>1. CASE RecreateLock(r)
  <2>1. Moves(r, "rt_lock", "rt_join")
    BY <1>0, <1>1 DEF RecreateLock, Acquire, Moves, Proceeds, Locals
  <2>2. Ordinary("rt_lock", "rt_join")
    BY DEF Ordinary
  <2> QED
    BY <1>1, <2>1, <2>2, PlainCalm DEF RecreateLock, Acquire, memory
<1>2. CASE RecreateReadOwn(r)
  <2>1. Moves(r, "rt_own_read", "rt_own_close")
    BY <1>0, <1>2 DEF RecreateReadOwn, Moves, Proceeds, Continue, Locals
  <2>2. Ordinary("rt_own_read", "rt_own_close")
    BY DEF Ordinary
  <2> QED
    BY <1>2, <2>1, <2>2, PlainCalm DEF RecreateReadOwn, memory
<1>3. CASE RecreateCloseOwn(r)
  <2>1. Moves(r, "rt_own_close", "rt_producers_read")
    BY <1>0, <1>3 DEF RecreateCloseOwn, Moves, Proceeds, Continue, Locals
  <2>2. Ordinary("rt_own_close", "rt_producers_read")
    BY DEF Ordinary
  <2> QED
    BY <1>3, <2>1, <2>2, PlainCalm DEF RecreateCloseOwn
<1>4. CASE RecreateReadDependents(r)
  <2>1. Moves(r, "rt_dependents_read", "rt_producers_close")
    BY <1>0, <1>4 DEF RecreateReadDependents, Moves, Proceeds, Continue, Locals
  <2>2. Ordinary("rt_dependents_read", "rt_producers_close")
    BY DEF Ordinary
  <2> QED
    BY <1>4, <2>1, <2>2, PlainCalm DEF RecreateReadDependents, memory
<1>5. CASE RecreateCloseDependents(r)
  <2>1. Moves(r, "rt_dependents_close", "rt_create") \/ Done(r)
    BY <1>0, <1>5 DEF RecreateCloseDependents, Moves, Proceeds, Continue, Locals
  <2>2. Ordinary("rt_dependents_close", "rt_create")
    BY DEF Ordinary
  <2> QED
    BY <1>5, <2>1, <2>2, PlainCalm DEF RecreateCloseDependents
<1>6. CASE RecreateCreate(r)
  <2>1. Moves(r, "rt_create", "rt_register") \/ Done(r)
    BY <1>0, <1>6 DEF RecreateCreate, Moves, Proceeds, Continue, Locals
  <2>2. Ordinary("rt_create", "rt_register")
    BY DEF Ordinary
  <2> QED
    BY <1>6, <2>1, <2>2, PlainCalm DEF RecreateCreate, memory
<1>7. CASE RecreateExisting(r)
  <2>1. Moves(r, "rt_existing", "rt_reply") \/ Done(r)
    BY <1>0, <1>7 DEF RecreateExisting, Moves, Proceeds, Continue, Locals
  <2>2. Ordinary("rt_existing", "rt_reply")
    BY DEF Ordinary
  <2> QED
    BY <1>7, <2>1, <2>2, PlainCalm DEF RecreateExisting, memory
<1>8. CASE RecreateReply(r)
  BY <1>8, PlainCalm DEF RecreateReply, memory
<1> QED
  BY <1>1, <1>2, <1>3, <1>4, <1>5, <1>6, <1>7, <1>8, JoinCalm, SupersedeCalm, RegisterCalm
     DEF RecreateTransport

\* create_producer makes a producer nobody knows, ...
LEMMA ProduceOnTransportCalm ==
  ASSUME ControlOK, NEW r \in Requests, ProduceOnTransport(r)
  PROVE  CalmStep(r)
<1> USE DEF MeetingSteps, Unpublished, ProduceSteps, MeetingLocked, Producing, Superseding, Leaving,
            Ending, Removing
<1>0. local[r] \in Locals /\ local \in [Requests -> Locals]
  BY DEF ControlOK
<1>1. /\ pc[r] = "cp_produce" /\ db' = db /\ producer_map' = producer_map
      /\ transport_map' = transport_map
  BY DEF ProduceOnTransport, memory
<1>2. TablesCalm(r) /\ MapsCalm(r)
  BY <1>1, SameTables, SameMaps
<1>3. CASE Done(r)
  BY <1>2, <1>3, DoneCalm DEF CalmStep
<1>4. CASE ~Done(r)
  <2>1. PICK id \in FreshProducers : Continue(r, "cp_routers", [local[r] EXCEPT !.producer = id])
    BY <1>4 DEF ProduceOnTransport
  <2>2. /\ pc'[r] = "cp_routers" /\ call' = call /\ local'[r].producers = local[r].producers
        /\ local'[r].producer = id
    BY <1>0, <2>1 DEF Continue, ControlOK, Locals
  <2>3. OthersWait(r)
    BY <1>0, <2>1 DEF Continue, ControlOK, OthersWait
  <2>4. GoesCalmly(r)
    BY <1>1, <2>2 DEF GoesCalmly
  <2> QED
    BY <1>2, <2>3, <2>4 DEF CalmStep
<1> QED
  BY <1>3, <1>4

\* ... records it while its instance is in the meeting, ...
LEMMA ProduceRegisterCalm ==
  ASSUME DataOK, ControlOK, ProducerInv, NEW r \in Requests, ProduceRegister(r)
  PROVE  CalmStep(r)
<1> USE DEF MeetingSteps, Unpublished, ProduceSteps, MeetingLocked, Producing, Superseding, Leaving,
            Ending, Removing
<1>0. local[r] \in Locals /\ local \in [Requests -> Locals] /\ db \in Databases /\ CallerStays(r)
  BY DEF ControlOK, DataOK, ProducerInv, TeardownInv
<1>1. PICK row, tx : /\ row = [id |-> local[r].producer, p |-> call[r].p, kind |-> call[r].kind,
                               m |-> call[r].m, t |-> call[r].t]
                     /\ tx = RegisterProducerTx(db, row)
  OBVIOUS
<1>2. PICK out \in Outcomes(tx) :
         /\ db' = out.db
         /\ \/ out.error = NoError /\ Continue(r, "cp_publish", local[r])
            \/ out.error # NoError /\ (Continue(r, "cp_pipeline", local[r]) \/ Done(r))
  BY <1>1 DEF ProduceRegister
<1>3. /\ pc[r] = "cp_register" /\ producer_map' = producer_map /\ transport_map' = transport_map
  BY DEF ProduceRegister, memory
<1>4. MapsCalm(r)
  BY <1>3, SameMaps
<1>5. CASE out.error # NoError
  <2>1. db' = db
    BY <1>1, <1>2, <1>5 DEF Outcomes, Failed, RegisterProducerTx, Finish
  <2>2. TablesCalm(r)
    BY <2>1, SameTables
  <2>3. CASE Done(r)
    BY <1>4, <2>2, <2>3, DoneCalm DEF CalmStep
  <2>4. CASE Continue(r, "cp_pipeline", local[r])
    <3>1. Moves(r, "cp_register", "cp_pipeline")
      BY <1>0, <1>3, <2>4 DEF Moves, Proceeds, Continue, Locals
    <3>2. Ordinary("cp_register", "cp_pipeline")
      BY DEF Ordinary
    <3> QED
      BY <1>4, <2>2, <3>1, <3>2, MoveCalm DEF CalmStep
  <2> QED
    BY <1>2, <1>5, <2>3, <2>4
<1>6. CASE out.error = NoError
  <2>1. db' = tx.db /\ Continue(r, "cp_publish", local[r])
    BY <1>2, <1>6 DEF Outcomes, Failed, NoError, DriverFailure
  <2>2. pc'[r] = "cp_publish" /\ call' = call /\ local'[r] = local[r]
    BY <1>0, <2>1 DEF Continue, ControlOK
  <2>3. OthersWait(r)
    BY <1>0, <2>1 DEF Continue, ControlOK, OthersWait
  <2>4. GoesCalmly(r)
    BY <1>3, <2>2 DEF GoesCalmly
  <2>5. /\ db'.meeting_status = db.meeting_status
        /\ db'.participant_meeting = db.participant_meeting
        /\ db'.participant_producer_transport = db.participant_producer_transport
        /\ \/ db'.participant_producers = db.participant_producers
           \/ /\ HasTransport(db.participant_producer_transport, row.t)
              /\ db'.participant_producers = db.participant_producers \cup {row}
    BY <1>0, <1>1, <2>1, RegisterProducerEffect DEF SameParticipants
  <2>6. /\ row.t = call[r].t /\ row.id = local[r].producer /\ row.p = call[r].p
        /\ row.m = call[r].m
    BY <1>1
  <2>7. HasTransport(db.participant_producer_transport, row.t) => Records(r, row)
    BY <1>0, <1>3, <2>2, <2>5, <2>6 DEF HasTransport, CallerStays, Records
  <2>8. TablesCalm(r)
    BY <2>5, <2>7 DEF TablesCalm, OwnerStays
  <2> QED
    BY <1>4, <2>3, <2>4, <2>8 DEF CalmStep
<1> QED
  BY <1>5, <1>6

\* ... and inserts it.
LEMMA ProducePublishCalm ==
  ASSUME ControlOK, NEW r \in Requests, ProducePublish(r)
  PROVE  CalmStep(r)
<1> USE DEF MeetingSteps, Unpublished, ProduceSteps, MeetingLocked, Producing, Superseding, Leaving,
            Ending, Removing
<1>0. local[r] \in Locals /\ local \in [Requests -> Locals]
  BY DEF ControlOK
<1>1. PICK x : /\ x.id = local[r].producer /\ Presence(x) = Presence(call[r])
               /\ producer_map' = producer_map \cup {x}
  <2>1. PICK x : /\ x = [id |-> local[r].producer, m |-> call[r].m, p |-> call[r].p,
                         kind |-> call[r].kind, i |-> call[r].i]
                 /\ producer_map' = producer_map \cup {x}
    BY DEF ProducePublish
  <2>2. x.id = local[r].producer /\ x.m = call[r].m /\ x.p = call[r].p /\ x.i = call[r].i
    BY <2>1
  <2> QED
    BY <2>1, <2>2 DEF Presence
<1>2. pc[r] = "cp_publish" /\ db' = db /\ transport_map' = transport_map
  BY DEF ProducePublish
<1>3. TablesCalm(r)
  BY <1>2, SameTables
<1>4. pc'[r] \notin Unpublished => MapsCalm(r)
  BY <1>1, <1>2 DEF MapsCalm
<1>5. CASE Done(r)
  BY <1>3, <1>4, <1>5, DoneCalm DEF CalmStep
<1>6. CASE Continue(r, "cp_plain", local[r])
  <2>1. Moves(r, "cp_publish", "cp_plain")
    BY <1>0, <1>2, <1>6 DEF Moves, Proceeds, Continue, Locals
  <2>2. Ordinary("cp_publish", "cp_plain")
    BY DEF Ordinary
  <2>3. pc'[r] = "cp_plain"
    BY <1>0, <1>6 DEF Continue, ControlOK
  <2> QED
    BY <1>3, <1>4, <2>1, <2>2, <2>3, MoveCalm DEF CalmStep
<1> QED
  BY <1>5, <1>6 DEF ProducePublish

\* create_producer.
LEMMA ProduceCalm ==
  ASSUME DataOK, ControlOK, ProducerInv, NEW r \in Requests, CreateProducer(r)
  PROVE  CalmStep(r)
<1> USE DEF MeetingSteps, Unpublished, ProduceSteps, MeetingLocked, Producing, Superseding, Leaving,
            Ending, Removing
<1>0. local[r] \in Locals /\ local \in [Requests -> Locals]
  BY DEF ControlOK
<1>1. CASE ProduceLock(r)
  <2>1. Moves(r, "cp_lock", "cp_check")
    BY <1>0, <1>1 DEF ProduceLock, Acquire, Moves, Proceeds, Locals
  <2>2. Ordinary("cp_lock", "cp_check")
    BY DEF Ordinary
  <2> QED
    BY <1>1, <2>1, <2>2, PlainCalm DEF ProduceLock, Acquire, memory
<1>2. CASE ProduceCheck(r)
  <2>1. Moves(r, "cp_check", "cp_produce") \/ Done(r)
    BY <1>0, <1>2 DEF ProduceCheck, Moves, Proceeds, Continue, Locals
  <2>2. Ordinary("cp_check", "cp_produce")
    BY DEF Ordinary
  <2> QED
    BY <1>2, <2>1, <2>2, PlainCalm DEF ProduceCheck, memory
<1>3. CASE ProduceRouters(r)
  <2>1. Moves(r, "cp_routers", "cp_register") \/ Done(r)
    BY <1>0, <1>3 DEF ProduceRouters, Moves, Proceeds, Continue, Locals
  <2>2. Ordinary("cp_routers", "cp_register")
    BY DEF Ordinary
  <2> QED
    BY <1>3, <2>1, <2>2, PlainCalm DEF ProduceRouters, memory
<1>4. CASE ProducePlain(r)
  <2>1. Moves(r, "cp_plain", "cp_plain_consumer")
    BY <1>0, <1>4 DEF ProducePlain, Moves, Proceeds, Continue, Locals
  <2>2. Ordinary("cp_plain", "cp_plain_consumer")
    BY DEF Ordinary
  <2> QED
    BY <1>4, <2>1, <2>2, PlainCalm DEF ProducePlain
<1>5. CASE ProducePlainConsumer(r)
  <2>1. Moves(r, "cp_plain_consumer", "cp_pipeline")
    BY <1>0, <1>5 DEF ProducePlainConsumer, Moves, Proceeds, Continue, Locals
  <2>2. Ordinary("cp_plain_consumer", "cp_pipeline")
    BY DEF Ordinary
  <2> QED
    BY <1>5, <2>1, <2>2, PlainCalm DEF ProducePlainConsumer
<1>6. CASE ProducePipeline(r)
  BY <1>6, PlainCalm DEF ProducePipeline
<1> QED
  BY <1>1, <1>2, <1>3, <1>4, <1>5, <1>6, ProduceOnTransportCalm, ProduceRegisterCalm,
     ProducePublishCalm DEF CreateProducer

\* close_producer deletes the rows of its producers, which are the caller's, and then
\* removes them.
LEMMA CloseProducerCalm ==
  ASSUME DataOK, ControlOK, ProducerInv, NEW r \in Requests, CloseProducer(r)
  PROVE  CalmStep(r)
<1> USE DEF MeetingSteps, Unpublished, ProduceSteps, MeetingLocked, Producing, Superseding, Leaving,
            Ending, Removing
<1>0. /\ local[r] \in Locals /\ local \in [Requests -> Locals] /\ db \in Databases
      /\ RemovedIsDeleted(r)
  BY DEF ControlOK, DataOK, ProducerInv, TeardownInv
<1>1. CASE CloseProducerDelete(r)
  <2>1. PICK tx : tx = DeleteProducersTx(db, call[r].p, call[r].ids)
    OBVIOUS
  <2>2. PICK out \in Outcomes(tx) :
           /\ db' = out.db
           /\ \/ out.error = NoError /\ Continue(r, "cl_close", local[r])
              \/ out.error # NoError /\ Done(r)
    BY <1>1, <2>1 DEF CloseProducerDelete
  <2>3. /\ pc[r] = "cl_delete" /\ producer_map' = producer_map /\ transport_map' = transport_map
    BY <1>1 DEF CloseProducerDelete, memory
  <2>4. db' = tx.db \/ db' = db
    BY <2>2, OutcomeOf
  <2>5. /\ tx.db.meeting_status = db.meeting_status
        /\ tx.db.participant_meeting = db.participant_meeting
        /\ tx.db.participant_producer_transport = db.participant_producer_transport
        /\ tx.db.participant_producers =
              {row \in db.participant_producers : ~(row.p = call[r].p /\ row.id \in call[r].ids)}
    BY <1>0, <2>1, CloseEffect DEF SameParticipants
  <2>6. TablesCalm(r)
    BY <2>4, <2>5 DEF TablesCalm, OwnerStays
  <2>7. MapsCalm(r)
    BY <2>3, SameMaps
  <2>8. CASE Done(r)
    BY <2>6, <2>7, <2>8, DoneCalm DEF CalmStep
  <2>9. CASE out.error = NoError /\ Continue(r, "cl_close", local[r])
    <3>1. db' = tx.db
      BY <2>2, <2>9 DEF Outcomes, Failed, NoError, DriverFailure
    <3>2. \A row \in db'.participant_producers : row.id \notin call[r].ids
      BY <1>0, <2>3, <2>5, <3>1 DEF RemovedIsDeleted
    <3>3. pc'[r] = "cl_close" /\ call' = call /\ local'[r] = local[r]
      BY <1>0, <2>9 DEF Continue, ControlOK
    <3>4. OthersWait(r)
      BY <1>0, <2>9 DEF Continue, ControlOK, OthersWait
    <3>5. GoesCalmly(r)
      BY <2>3, <3>2, <3>3 DEF GoesCalmly
    <3> QED
      BY <2>6, <2>7, <3>4, <3>5 DEF CalmStep
  <2> QED
    BY <2>2, <2>8, <2>9
<1>2. CASE CloseProducerInMemory(r)
  <2>1. \A row \in db.participant_producers : row.id \notin call[r].ids
    BY <1>0, <1>2 DEF CloseProducerInMemory, RemovedIsDeleted
  <2>2. MapsCalm(r)
    BY <1>2, <2>1, FewerMaps DEF CloseProducerInMemory, close_all_producers_in_memory
  <2>3. db' = db /\ Done(r)
    BY <1>2 DEF CloseProducerInMemory
  <2> QED
    BY <2>2, <2>3, SameTables, DoneCalm DEF CalmStep
<1> QED
  BY <1>1, <1>2 DEF CloseProducer

\* A transaction about consumers.
LEMMA ConsumerTables ==
  ASSUME SameParticipants(db, db'), db'.participant_producers = db.participant_producers,
         NEW r \in Requests
  PROVE  TablesCalm(r)
  BY DEF TablesCalm, OwnerStays, SameParticipants

\* An iteration of the loop of create_consumer.
LEMMA ConsumeMoves ==
  ASSUME ControlOK, NEW r \in Requests, ConsumeReuse(r) \/ ConsumeNew(r)
  PROVE  Moves(r, "cc_consume", "cc_consume")
<1>0. local[r] \in Locals /\ local \in [Requests -> Locals]
  BY DEF ControlOK
<1>1. PICK vals : /\ pc[r] = "cc_consume" /\ Continue(r, "cc_consume", vals)
                  /\ vals.producers = local[r].producers /\ vals.producer = local[r].producer
  <2>1. CASE ConsumeReuse(r)
    BY <1>0, <2>1 DEF ConsumeReuse, Locals
  <2>2. CASE ConsumeNew(r)
    <3>1. pc[r] = "cc_consume" /\ \E w, made :
             Continue(r, "cc_consume", [local[r] EXCEPT !.want = @ \ {w}, !.made = @ \cup {made}])
      BY <2>2, Zenon DEF ConsumeNew
    <3>2. PICK w, made :
             Continue(r, "cc_consume", [local[r] EXCEPT !.want = @ \ {w}, !.made = @ \cup {made}])
      BY <3>1
    <3>3. PICK vals : vals = [local[r] EXCEPT !.want = @ \ {w}, !.made = @ \cup {made}]
      OBVIOUS
    <3>4. vals.producers = local[r].producers /\ vals.producer = local[r].producer
      BY <1>0, <3>3 DEF Locals
    <3> QED
      BY <3>1, <3>2, <3>3, <3>4
  <2> QED
    BY <2>1, <2>2
<1> QED
  BY <1>0, <1>1 DEF Moves, Proceeds, Continue

\* createConsumer and closeConsumer.
LEMMA ConsumeCalm ==
  ASSUME DataOK, ControlOK, NEW r \in Requests, CreateConsumer(r) \/ CloseConsumer(r)
  PROVE  CalmStep(r)
<1> USE DEF MeetingSteps, Unpublished, ProduceSteps, MeetingLocked, Producing, Superseding, Leaving,
            Ending, Removing
<1>0. local[r] \in Locals /\ local \in [Requests -> Locals] /\ db \in Databases
  BY DEF ControlOK, DataOK
<1>1. /\ Ordinary("cc_transport", "cc_shard") /\ Ordinary("cc_shard", "cc_consume")
      /\ Ordinary("cc_consume", "cc_consume") /\ Ordinary("cc_consume", "cc_publish")
      /\ Ordinary("cz_delete", "cz_close")
  BY DEF Ordinary
<1>2. CASE ConsumeOnTransport(r)
  <2>1. Moves(r, "cc_transport", "cc_shard") \/ Done(r)
    BY <1>0, <1>2 DEF ConsumeOnTransport, Moves, Proceeds, Continue, Locals
  <2> QED
    BY <1>1, <1>2, <2>1, PlainCalm DEF ConsumeOnTransport, memory
<1>3. CASE ConsumeSnapshot(r)
  <2>1. Moves(r, "cc_shard", "cc_consume")
    BY <1>0, <1>3 DEF ConsumeSnapshot, Moves, Proceeds, Continue, Locals
  <2> QED
    BY <1>1, <1>3, <2>1, PlainCalm DEF ConsumeSnapshot, memory
<1>4. CASE ConsumeReuse(r) \/ ConsumeNew(r)
  <2>2. Moves(r, "cc_consume", "cc_consume")
    BY <1>4, ConsumeMoves
  <2> QED
    BY <1>1, <1>4, <2>2, PlainCalm DEF ConsumeReuse, ConsumeNew, memory
<1>5. CASE ConsumeFails(r)
  BY <1>5, PlainCalm DEF ConsumeFails, memory
<1>6. CASE ConsumePublish(r)
  BY <1>6, PlainCalm DEF ConsumePublish
<1>7. CASE CloseConsumerInMemory(r)
  BY <1>7, PlainCalm DEF CloseConsumerInMemory
<1>8. CASE ConsumeRegister(r) \/ CloseConsumerDelete(r)
  <2>1. PICK tx, out :
           /\ out \in Outcomes(tx) /\ db' = out.db
           /\ \/ \E rows : tx = RegisterConsumersTx(db, rows)
              \/ tx = DeleteConsumersTx(db, call[r].ids)
    BY <1>8 DEF ConsumeRegister, CloseConsumerDelete
  <2>2. db' = tx.db \/ db' = db
    BY <2>1, OutcomeOf
  <2>3. TablesCalm(r)
    <3>1. CASE db' = db
      BY <3>1, SameTables
    <3>2. ASSUME NEW rows, tx = RegisterConsumersTx(db, rows), db' = tx.db
          PROVE  TablesCalm(r)
      BY <1>0, <3>2, RegisterConsumersEffect, ConsumerTables
    <3>3. CASE tx = DeleteConsumersTx(db, call[r].ids) /\ db' = tx.db
      BY <1>0, <3>3, CloseEffect, ConsumerTables
    <3> QED
      BY <2>1, <2>2, <3>1, <3>2, <3>3
  <2>4. MapsCalm(r)
    BY <1>8, SameMaps DEF ConsumeRegister, CloseConsumerDelete, memory
  <2>5. Done(r) \/ Moves(r, "cc_consume", "cc_publish") \/ Moves(r, "cz_delete", "cz_close")
    BY <1>0, <1>8 DEF ConsumeRegister, CloseConsumerDelete, Moves, Proceeds, Continue, Locals
  <2>6. CASE Done(r)
    BY <2>3, <2>4, <2>6, DoneCalm DEF CalmStep
  <2>7. CASE Moves(r, "cc_consume", "cc_publish") \/ Moves(r, "cz_delete", "cz_close")
    BY <1>1, <2>3, <2>4, <2>7, MoveCalm DEF CalmStep
  <2> QED
    BY <2>5, <2>6, <2>7
<1> QED
  BY <1>2, <1>3, <1>4, <1>5, <1>6, <1>7, <1>8 DEF CreateConsumer, CloseConsumer

\* Every step of a handler is calm.
LEMMA StepCalm ==
  ASSUME DataOK, ControlOK, RosterInv, TransportInv, ProducerInv, NEW r \in Requests, Step(r)
  PROVE  CalmStep(r)
  BY MakeCalm, EndCalm, RecreateCalm, LeaveCalm, ProduceCalm, CloseProducerCalm, ConsumeCalm DEF Step

-----------------------------------------------------------------------------
(* The calls *)

\* A call begins, of an instance or about a meeting that has no other in progress: on a
\* transport of the caller, who is in the meeting, or to close a producer of his.
LEMMA BeginInvariant ==
  ASSUME ControlOK, ProducerInv, NEW r \in Requests, NEW step \in CallSteps, NEW c,
         Begin(r, step, c),
         \A q \in Busy : call[q].p = c.p =>
            IF c.p = None THEN call[q].m # c.m ELSE call[q].i # c.i,
         step \in MeetingSteps => c.p = None,
         step = "cp_lock" =>
            \A row \in db.participant_producer_transport :
               row.t = c.t => row.p = c.p /\ Presence(c) \in db.participant_meeting,
         step = "cl_delete" =>
            /\ \A id \in c.ids : InProducerMap(id)
            /\ \A row \in db.participant_producers : row.id \in c.ids => row.p = c.p
  PROVE  ProducerInv'
<1> USE DEF MeetingSteps, Unpublished, ProduceSteps, MeetingLocked, Producing, Superseding, Leaving,
            Ending, Removing
<1>0. /\ db' = db /\ producer_map' = producer_map /\ transport_map' = transport_map /\ local' = local
      /\ pc[r] = "idle" /\ pc'[r] = step /\ call'[r] = c
      /\ \A q \in Requests \ {r} : pc'[q] = pc[q] /\ call'[q] = call[q]
  BY DEF Begin, memory, ControlOK
<1>1. step \in {"cm_routers", "rm_routers", "em_delete", "rt_lock", "lv_delete", "cp_lock",
                "cl_delete", "cc_transport", "cz_delete"}
  BY DEF CallSteps
<1>2. Live' /\ InPlace' /\ OfPresent'
  <2>1. \A t : InMemory(t)' <=> InMemory(t)
    BY <1>0, <1>1 DEF InMemory
  <2>2. \A id : AboutToPublish(id)' <=> AboutToPublish(id)
    BY <1>0, <1>1 DEF AboutToPublish
  <2>3. \A id : InProducerMap(id)' <=> InProducerMap(id)
    BY <1>0 DEF InProducerMap
  <2>4. Live'
    BY <1>0, <2>1, <2>2, <2>3 DEF ProducerInv, Live
  <2> QED
    BY <1>0, <2>4 DEF ProducerInv, InPlace, OfPresent, Presence
<1>3. CallsAreApart'
  <2>1. \A q \in Busy' : q = r \/ (q \in Busy /\ call'[q] = call[q])
    BY <1>0 DEF Busy
  <2> QED
    BY <1>0, <2>1 DEF ProducerInv, CallsAreApart
<1>4. ASSUME NEW q \in Requests
      PROVE  TeardownInv(q)'
  <2>0. TeardownInv(q)
    BY DEF ProducerInv
  <2>1. KnownToItsMaker(q)'
    <3> SUFFICES ASSUME pc'[q] \in Unpublished
                 PROVE  /\ ~InProducerMap(local[q].producer)
                        /\ \A s \in Requests : local[q].producer \notin local[s].producers
                        /\ \A s \in Requests : pc'[s] \in {"cl_delete", "cl_close"} =>
                                                  local[q].producer \notin call'[s].ids
      BY <1>0 DEF KnownToItsMaker, InProducerMap
    <3>1. q # r /\ pc[q] \in Unpublished
      BY <1>0, <1>1
    <3> QED
      BY <1>0, <1>1, <2>0, <3>1 DEF TeardownInv, KnownToItsMaker
  <2>2. CASE q = r
    <3>1. NamesNobody(r)' /\ CallerStays(r)' /\ CallerRecords(r)'
      BY <1>0, <1>1 DEF NamesNobody, CallerStays, CallerRecords, Presence
    <3>2. StaysSuperseded(r)' /\ StaysAway(r)' /\ StaysEnded(r)'
      BY <1>0, <1>1 DEF StaysSuperseded, StaysAway, StaysEnded
    <3>3. RemovedIsDeleted(r)'
      BY <1>0, <1>1 DEF RemovedIsDeleted
    <3> QED
      BY <2>1, <2>2, <3>1, <3>2, <3>3 DEF TeardownInv
  <2>3. CASE q # r
    <3>1. pc'[q] = pc[q] /\ call'[q] = call[q] /\ local'[q] = local[q] /\ db' = db
      BY <1>0, <2>3
    <3> QED
      BY <2>0, <2>1, <3>1 DEF TeardownInv, NamesNobody, CallerStays, CallerRecords, StaysSuperseded,
                              StaysAway, StaysEnded, RemovedIsDeleted, Presence
  <2> QED
    BY <2>2, <2>3
<1> QED
  BY <1>2, <1>3, <1>4 DEF ProducerInv

\* One request at a time.
Alone == \A r, q \in Requests : r = q

\* Every call, of callers that wait or of one at a time.
LEMMA CallProducer ==
  ASSUME CallerWaits \/ Alone, DataOK, ControlOK, RosterInv, ProducerInv, NEW r \in Requests, Call(r)
  PROVE  ProducerInv'
<1>0. PICK m \in Meetings :
         \/ CallCreateMeeting(r, m) \/ CallReplaceMeeting(r, m) \/ CallEndMeeting(r, m)
         \/ \E p \in Participants, i \in Instances :
               \/ \E kind \in TransportKinds : CallRecreate(r, p, m, i, kind)
               \/ CallLeave(r, p, m, i)
               \/ CallCreateProducer(r, p, m, i)
               \/ CallCloseProducer(r, p, m, i)
               \/ CallCreateConsumer(r, p, m, i)
               \/ CallCloseConsumer(r, p, m, i)
  BY DEF Call
<1>a. CallerWaits \/ (pc[r] = "idle" => Busy = {})
  BY DEF Alone, Busy
\* A call about the meeting.
<1>1. ASSUME NEW step \in {"cm_routers", "rm_routers", "em_delete"}, NEW c, MeetingFree(m),
             Begin(r, step, c), c.p = None, c.m = m
      PROVE  ProducerInv'
  <2>1. \A q \in Busy : call[q].p = c.p =>
           IF c.p = None THEN call[q].m # c.m ELSE call[q].i # c.i
    BY <1>a, <1>1 DEF MeetingFree, Begin
  <2>2. step \in CallSteps /\ step # "cp_lock" /\ step # "cl_delete"
    BY DEF CallSteps
  <2> QED
    BY <1>1, <2>1, <2>2, BeginInvariant
\* A call of an instance.
<1>2. ASSUME NEW step \in CallSteps \ {"cm_routers", "rm_routers", "em_delete"}, NEW c,
             NEW p \in Participants, NEW i \in Instances, InstanceFree(p, i),
             Begin(r, step, c), c.p = p, c.i = i,
             step = "cp_lock" =>
                \A row \in db.participant_producer_transport :
                   row.t = c.t => row.p = c.p /\ Presence(c) \in db.participant_meeting,
             step = "cl_delete" =>
                /\ \A id \in c.ids : InProducerMap(id)
                /\ \A row \in db.participant_producers : row.id \in c.ids => row.p = c.p
      PROVE  ProducerInv'
  <2>1. \A q \in Busy : call[q].p = c.p =>
           IF c.p = None THEN call[q].m # c.m ELSE call[q].i # c.i
    BY <1>a, <1>2, SfuAssumption DEF InstanceFree, Begin
  <2>2. step \in CallSteps /\ step \notin MeetingSteps
    BY DEF CallSteps, MeetingSteps, Ending
  <2> QED
    BY <1>2, <2>1, <2>2, BeginInvariant
<1>3. CASE CallCreateMeeting(r, m) \/ CallReplaceMeeting(r, m)
  <2>1. PICK step \in {"cm_routers", "rm_routers"} :
           MeetingFree(m) /\ Begin(r, step, [NoCall EXCEPT !.m = m])
    BY <1>3 DEF CallCreateMeeting, CallReplaceMeeting
  <2> QED
    BY <1>1, <2>1 DEF NoCall
<1>4. CASE CallEndMeeting(r, m)
  <2>1. PICK ids, listed :
           /\ MeetingFree(m)
           /\ Begin(r, "em_delete", [NoCall EXCEPT !.m = m, !.ids = ids, !.listed = listed])
    BY <1>4 DEF CallEndMeeting
  <2> QED
    BY <1>1, <2>1 DEF NoCall
<1>5. ASSUME NEW p \in Participants, NEW i \in Instances, NEW kind, CallRecreate(r, p, m, i, kind)
      PROVE  ProducerInv'
  <2>1. PICK router, old :
           /\ InstanceFree(p, i)
           /\ Begin(r, "rt_lock", [NoCall EXCEPT !.p = p, !.m = m, !.i = i, !.kind = kind,
                                                 !.router = router, !.ids = old])
    BY <1>5 DEF CallRecreate
  <2>2. PICK c : c = [NoCall EXCEPT !.p = p, !.m = m, !.i = i, !.kind = kind, !.router = router,
                                    !.ids = old]
    OBVIOUS
  <2>3. c.p = p /\ c.i = i
    BY <2>2 DEF NoCall
  <2>4. InstanceFree(p, i) /\ Begin(r, "rt_lock", c)
    BY <2>1, <2>2
  <2>5. "rt_lock" \in CallSteps \ {"cm_routers", "rm_routers", "em_delete"}
    BY DEF CallSteps
  <2> QED
    BY <1>2, <2>3, <2>4, <2>5
<1>6. ASSUME NEW p \in Participants, NEW i \in Instances,
             CallLeave(r, p, m, i) \/ CallCloseConsumer(r, p, m, i)
      PROVE  ProducerInv'
  <2>1. PICK step, ids :
           /\ step \in {"lv_delete", "cz_delete"} /\ InstanceFree(p, i)
           /\ Begin(r, step, [NoCall EXCEPT !.p = p, !.m = m, !.i = i, !.ids = ids])
    BY <1>6 DEF CallLeave, CallCloseConsumer
  <2> QED
    BY <1>2, <2>1 DEF NoCall, CallSteps
<1>7. ASSUME NEW p \in Participants, NEW i \in Instances, CallCreateConsumer(r, p, m, i)
      PROVE  ProducerInv'
  <2>1. PICK W, t :
           /\ InstanceFree(p, i)
           /\ Begin(r, "cc_transport", [NoCall EXCEPT !.p = p, !.m = m, !.i = i, !.t = t, !.want = W])
    BY <1>7 DEF CallCreateConsumer
  <2>2. PICK c : c = [NoCall EXCEPT !.p = p, !.m = m, !.i = i, !.t = t, !.want = W]
    OBVIOUS
  <2>3. c.p = p /\ c.i = i
    BY <2>2 DEF NoCall
  <2>4. InstanceFree(p, i) /\ Begin(r, "cc_transport", c)
    BY <2>1, <2>2
  <2>5. "cc_transport" \in CallSteps \ {"cm_routers", "rm_routers", "em_delete"}
    BY DEF CallSteps
  <2> QED
    BY <1>2, <2>3, <2>4, <2>5
<1>8. ASSUME NEW p \in Participants, NEW i \in Instances, CallCreateProducer(r, p, m, i)
      PROVE  ProducerInv'
  <2>0. InstanceFree(p, i) /\ InMeeting(p, m, i)
    BY <1>8 DEF CallCreateProducer
  <2>1. PICK kind \in Kinds, record \in Recording, router \in RoutersOfMeeting(m),
             x \in {y \in transport_map : y.p = p /\ y.m = m /\ y.kind = "producer"},
             others \in SUBSET RoutersOfMeeting(m) :
           Begin(r, "cp_lock", [NoCall EXCEPT !.p = p, !.m = m, !.i = i, !.kind = kind,
                                   !.router = router, !.t = x.id, !.record = record,
                                   !.ids = others])
    BY <1>8 DEF CallCreateProducer
  <2>2. PICK c : c = [NoCall EXCEPT !.p = p, !.m = m, !.i = i, !.kind = kind, !.router = router,
                                    !.t = x.id, !.record = record, !.ids = others]
    OBVIOUS
  <2>3. c.p = p /\ c.m = m /\ c.i = i /\ c.t = x.id
    BY <2>2 DEF NoCall
  <2>4. ASSUME NEW row \in db.participant_producer_transport, row.t = c.t
        PROVE  row.p = c.p /\ Presence(c) \in db.participant_meeting
    <3>1. row.t \in Transports /\ row.p \in Participants
      BY DEF DataOK, Databases, ParticipantTransport
    <3>2. Names(row.t, p) /\ Names(row.t, row.p)
      BY <2>1, <2>3, <2>4 DEF Names, TransportRows
    <3>3. row.p = p
      BY <3>1, <3>2 DEF RosterInv, OneOwner
    <3> QED
      BY <2>0, <2>3, <3>3 DEF Presence, InMeeting
  <2>5. "cp_lock" \in CallSteps \ {"cm_routers", "rm_routers", "em_delete"} /\ Begin(r, "cp_lock", c)
    BY <2>1, <2>2 DEF CallSteps
  <2> HIDE DEF CallSteps
  <2> QED
    BY <1>2, <2>0, <2>3, <2>4, <2>5
<1>9. ASSUME NEW p \in Participants, NEW i \in Instances, CallCloseProducer(r, p, m, i)
      PROVE  ProducerInv'
  <2>1. PICK x \in producer_map :
           /\ InstanceFree(p, i) /\ x.p = p
           /\ Begin(r, "cl_delete", [NoCall EXCEPT !.p = p, !.m = m, !.i = i, !.ids = {x.id}])
    BY <1>9 DEF CallCloseProducer
  <2>2. PICK c : c = [NoCall EXCEPT !.p = p, !.m = m, !.i = i, !.ids = {x.id}]
    OBVIOUS
  <2>3. c.p = p /\ c.i = i /\ c.ids = {x.id}
    BY <2>2 DEF NoCall
  <2>4. /\ \A id \in c.ids : InProducerMap(id)
        /\ \A row \in db.participant_producers : row.id \in c.ids => row.p = c.p
    BY <2>1, <2>3 DEF ProducerInv, OfPresent, InProducerMap
  <2>5. "cl_delete" \in CallSteps \ {"cm_routers", "rm_routers", "em_delete"}
        /\ Begin(r, "cl_delete", c)
    BY <2>1, <2>2 DEF CallSteps
  <2> HIDE DEF CallSteps
  <2> QED
    BY <1>2, <2>1, <2>3, <2>4, <2>5
<1> QED
  BY <1>0, <1>3, <1>4, <1>5, <1>6, <1>7, <1>8, <1>9

-----------------------------------------------------------------------------
(* The theorem *)

\* After the loss of the process no producer and no transport is in memory.
LEMMA RestartProducer ==
  ASSUME ProducerInv, Restart
  PROVE  ProducerInv'
<1>1. /\ db' = db /\ producer_map' = {} /\ transport_map' = {}
      /\ \A r \in Requests : pc'[r] = "idle"
  BY DEF Restart
<1>2. Live' /\ InPlace' /\ OfPresent' /\ CallsAreApart'
  BY <1>1 DEF ProducerInv, Live, InMemory, InPlace, OfPresent, CallsAreApart, Busy
<1>3. \A r \in Requests : TeardownInv(r)'
  BY <1>1 DEF TeardownInv, NamesNobody, KnownToItsMaker, CallerStays, CallerRecords, StaysSuperseded,
              StaysAway, StaysEnded, RemovedIsDeleted, MeetingSteps, Unpublished, ProduceSteps,
              MeetingLocked, Producing, Superseding, Leaving, Ending, Removing
<1> QED
  BY <1>2, <1>3 DEF ProducerInv

\* The invariant is inductive when the callers wait, or call one at a time.
LEMMA NextProducer ==
  ASSUME CallerWaits \/ Alone, DataOK, ControlOK, RosterInv, TransportInv, ProducerInv, [Next]_vars
  PROVE  ProducerInv'
<1>1. CASE UNCHANGED vars
  <2>1. /\ db' = db /\ transport_map' = transport_map /\ producer_map' = producer_map
        /\ pc' = pc /\ call' = call /\ local' = local
    BY <1>1 DEF vars, memory
  <2>2. Live' /\ InPlace' /\ OfPresent' /\ CallsAreApart'
    BY <2>1 DEF ProducerInv, Live, InProducerMap, AboutToPublish, InMemory, InPlace, OfPresent,
                Presence, CallsAreApart, Busy
  <2>3. \A r \in Requests : TeardownInv(r)'
    BY <2>1 DEF ProducerInv, TeardownInv, NamesNobody, KnownToItsMaker, InProducerMap, CallerStays,
                CallerRecords, Presence, StaysSuperseded, StaysAway, StaysEnded, RemovedIsDeleted
  <2> QED
    BY <2>2, <2>3 DEF ProducerInv
<1>2. ASSUME NEW r \in Requests, Step(r)
      PROVE  ProducerInv'
  <2>1. Before
    BY DEF Before, RosterInv, RequestInv
  <2> QED
    BY <1>2, <2>1, StepCalm, CalmInvariant
<1> QED
  BY <1>1, <1>2, CallProducer, RestartProducer DEF Next

\* It holds of the empty database.
LEMMA InitProducer ==
  ASSUME Init
  PROVE  ProducerInv
<1>1. /\ db.participant_producers = {} /\ \A r \in Requests : pc[r] = "idle"
  BY DEF Init, EmptyDatabase
<1>2. Live /\ InPlace /\ OfPresent /\ CallsAreApart
  BY <1>1 DEF Live, InPlace, OfPresent, CallsAreApart, Busy
<1>3. \A r \in Requests : TeardownInv(r)
  BY <1>1 DEF TeardownInv, NamesNobody, KnownToItsMaker, CallerStays, CallerRecords, StaysSuperseded,
              StaysAway, StaysEnded, RemovedIsDeleted, MeetingSteps, Unpublished, ProduceSteps,
              MeetingLocked, Producing, Superseding, Leaving, Ending, Removing
<1> QED
  BY <1>2, <1>3 DEF ProducerInv

\* It says what getProducersOfMeeting relies on.
LEMMA LiveIsLive ==
  ASSUME RosterInv, TransportInv, ProducerInv
  PROVE  RecordedProducerIsLive
<1> SUFFICES ASSUME NEW row \in db.participant_producers, ~InMemory(row.t)
             PROVE  ~Hosted(row.m)
  BY DEF ProducerInv, Live, InProducerMap, RecordedProducerIsLive
<1>1. PICK x \in db.participant_producer_transport : x.p = row.p /\ x.t = row.t
  BY DEF RosterInv, Consistent
<1>2. PICK y \in db.participant_meeting : y.p = row.p /\ Adrift(y.m)
  BY <1>1 DEF TransportInv, Known, TransportRows
<1>3. y.m = row.m
  BY <1>2 DEF ProducerInv, InPlace, RosterInv, Consistent
<1> QED
  BY <1>2, <1>3 DEF Adrift, Hosted, RoutersIn, RoutersOfMeeting, Claimed

\* A producer recorded for a meeting this process serves is in producer_map, or its
\* create_producer is about to insert it: for every set of meetings, participants,
\* instances and identifiers, any number of requests and every fault, of callers that
\* await a reply before their next call.  No leave, take-over or end of a meeting, however
\* slow, removes a producer from memory that is recorded then.
THEOREM RecordedProducersAreLive ==
  ASSUME CallerWaits
  PROVE  Spec => []RecordedProducerIsLive
<1>1. Init => RosterInv /\ TransportInv /\ ProducerInv
  BY InitRoster, InitTransport, InitProducer
<1>2. IInv /\ RosterInv /\ TransportInv /\ ProducerInv /\ [Next]_vars
         => RosterInv' /\ TransportInv' /\ ProducerInv'
  BY NextRoster, NextTransport, NextProducer DEF IInv
<1>3. RosterInv /\ TransportInv /\ ProducerInv => RecordedProducerIsLive
  BY LiveIsLive
<1> QED
  BY <1>1, <1>2, <1>3, Invariance, PTL DEF Spec

-----------------------------------------------------------------------------
(* One request at a time: memory and the tables agree *)

\* Producer x of producer_map is recorded, for a meeting this process serves.
Backed(x) ==
    /\ \E row \in db.participant_producers : row.id = x.id /\ row.m = x.m
    /\ Hosted(x.m)

\* Request r has deleted the row of producer x and is on its way to remove it.
Doomed(r, x) ==
    \/ pc[r] = "cl_close" /\ x.id \in call[r].ids
    \/ pc[r] \in Superseding /\ x.p = call[r].p /\ x.m = call[r].m /\ x.i # call[r].i
    \/ pc[r] \in Leaving /\ x.p = call[r].p /\ x.m = call[r].m /\ x.i = call[r].i
    \/ pc[r] \in Ending /\ x.m = call[r].m
    \/ pc[r] \in Removing /\ x.id \in local[r].producers

Accounted == \A x \in producer_map : Backed(x) \/ \E r \in Requests : Doomed(r, x)

\* A router belongs to one meeting.
OneMeetingEach == \A x, y \in db.router_meeting : x.router = y.router => x = y

\* A create_producer is called with a router of its meeting, and gets past
\* ProduceRouters only when it is one of this process; what it publishes is recorded.
Assured(r) ==
    /\ pc[r] \in ProduceSteps => call[r].router \in RoutersIn(db, call[r].m)
    /\ pc[r] \in {"cp_register", "cp_publish"} => call[r].router \in routers_map
    /\ pc[r] = "cp_publish" =>
          \E row \in db.participant_producers : row.id = local[r].producer /\ row.m = call[r].m

\* An end_meeting is called with routers of its meeting.
OwnRouters(r) ==
    pc[r] \in {"em_delete", "em_routers"} =>
       \A x \in db.router_meeting : x.router \in call[r].ids => x.m = call[r].m

\* A meeting that is replaced, or ended with nobody in it, has no producer in memory: the
\* removal that panics has nothing to remove.
EndSteps == {"em_delete", "em_producers_close"} \cup Ending

NothingLeft(r) ==
    /\ \/ pc[r] \in {"rm_routers", "rm_register"}
       \/ pc[r] \in EndSteps /\ ~call[r].listed
       => \A x \in producer_map : x.m # call[r].m
    /\ pc[r] = "em_producers_close" /\ ~call[r].listed =>
          \A x \in producer_map : x.id \notin local[r].producers

\* The recordings kept are of producers in memory, and complete but for the one that is
\* being inserted.
RecordingsKept ==
    /\ plain_transport_consumer_map \subseteq plain_transport_map
    /\ \A id \in plain_transport_map :
          /\ InProducerMap(id)
          /\ \/ id \in plain_transport_consumer_map
             \/ \E r \in Requests : pc[r] = "cp_plain_consumer" /\ local[r].producer = id
    /\ \A r \in Requests :
          /\ pc[r] \in {"cp_plain", "cp_plain_consumer"} => InProducerMap(local[r].producer)
          /\ pc[r] = "cp_plain_consumer" => local[r].producer \in plain_transport_map

SoleInv(r) == Assured(r) /\ OwnRouters(r) /\ NothingLeft(r)

SequentialInv ==
    /\ Accounted /\ OneMeetingEach /\ RecordingsKept
    /\ \A r \in Requests : SoleInv(r)

\* A step of request r from one step of its handler to another that is not a search for
\* producers, and keeps what it is about to remove.
Carries(from, to) ==
    /\ from \notin {"cl_close", "cp_plain_consumer"}
    /\ to \notin {"cp_register", "cp_publish", "cp_plain", "cp_plain_consumer", "em_delete",
                  "em_routers", "em_producers_close", "rm_routers"}
    /\ to = "rm_register" => from = "rm_routers"
    /\ \A S \in {Superseding, Leaving, Ending, Removing} : from \in S => to \in S

\* The recordings and the producers in memory stay.
SameProducers ==
    /\ producer_map' = producer_map
    /\ plain_transport_map' = plain_transport_map
    /\ plain_transport_consumer_map' = plain_transport_consumer_map

\* What r has after such a step.
LEMMA CarriedRequest ==
  ASSUME ControlOK, NEW r \in Requests, SoleInv(r), db'.router_meeting = db.router_meeting,
         producer_map' = producer_map, NEW from, NEW to, Moves(r, from, to), Ordinary(from, to),
         Carries(from, to)
  PROVE  SoleInv(r)'
<1>1. /\ pc[r] = from /\ pc'[r] = to /\ call'[r] = call[r]
  BY DEF Moves, Proceeds, ControlOK
<1>2. /\ to \in ProduceSteps => from \in ProduceSteps
      /\ to \in Ending => from \in Ending
  BY DEF Ordinary
<1>3. /\ to \notin {"cp_register", "cp_publish", "em_delete", "em_routers", "em_producers_close",
                    "rm_routers"}
      /\ to = "rm_register" => from = "rm_routers"
  BY DEF Carries
<1>4. Assured(r)'
  BY <1>1, <1>2, <1>3 DEF SoleInv, Assured, RoutersIn
<1>5. OwnRouters(r)'
  BY <1>1, <1>3 DEF OwnRouters
<1>6. NothingLeft(r)'
  BY <1>1, <1>2, <1>3 DEF SoleInv, NothingLeft, EndSteps
<1> QED
  BY <1>4, <1>5, <1>6 DEF SoleInv

\* What it is on its way to remove, it still is.
LEMMA CarriedDoom ==
  ASSUME ControlOK, NEW r \in Requests, NEW from, NEW to, Moves(r, from, to), Carries(from, to),
         NEW x, Doomed(r, x)
  PROVE  Doomed(r, x)'
<1>1. /\ pc[r] = from /\ pc'[r] = to /\ call'[r] = call[r]
      /\ from \in Removing => local'[r].producers = local[r].producers
  BY DEF Moves, Proceeds, ControlOK
<1>2. /\ from \in Superseding => to \in Superseding
      /\ from \in Leaving => to \in Leaving
      /\ from \in Ending => to \in Ending
      /\ from \in Removing => to \in Removing
      /\ from # "cl_close"
  BY DEF Carries
<1> QED
  BY <1>1, <1>2 DEF Doomed

\* A request that is over asks for nothing.
LEMMA DoneRequest ==
  ASSUME ControlOK, NEW r \in Requests, Done(r)
  PROVE  SoleInv(r)'
<1>1. pc'[r] = "idle"
  BY DEF Done, ControlOK
<1> QED
  BY <1>1 DEF SoleInv, Assured, OwnRouters, NothingLeft, ProduceSteps, MeetingLocked, Producing,
              EndSteps, Ending

\* What is backed stays backed while its row and the routers stay.
LEMMA StaysBacked ==
  ASSUME NEW x, Backed(x),
         \A row \in db.participant_producers : row.id = x.id /\ row.m = x.m =>
            row \in db'.participant_producers,
         \A y \in db.router_meeting : y.m = x.m =>
            y \in db'.router_meeting /\ (y.router \in routers_map => y.router \in routers_map')
  PROVE  Backed(x)'
<1>1. PICK row \in db.participant_producers : row.id = x.id /\ row.m = x.m
  BY DEF Backed
<1>2. PICK y \in db.router_meeting : y.m = x.m /\ y.router \in routers_map
  BY DEF Backed, Hosted, RoutersOfMeeting
<1>3. Hosted(x.m)'
  BY <1>2 DEF Hosted, RoutersOfMeeting
<1> QED
  BY <1>1, <1>3 DEF Backed

\* The steps at which a request has something to remove.
Dooming == {"cl_close"} \cup Superseding \cup Leaving \cup Ending \cup Removing

\* The recordings stay as they are.
LEMMA SameRecordings ==
  ASSUME Alone, RecordingsKept, NEW r \in Requests, SameProducers, pc[r] # "cp_plain_consumer",
         pc'[r] \notin {"cp_plain", "cp_plain_consumer"}
  PROVE  RecordingsKept'
<1>1. \A q \in Requests : q = r
  BY DEF Alone
<1>2. \A id \in plain_transport_map : InProducerMap(id) /\ id \in plain_transport_consumer_map
  BY <1>1 DEF RecordingsKept
<1>3. \A id : InProducerMap(id)' <=> InProducerMap(id)
  BY DEF InProducerMap, SameProducers
<1> QED
  BY <1>1, <1>2, <1>3 DEF RecordingsKept, SameProducers

\* A step that touches neither the producers nor the routers of a meeting.
LEMMA PlainSole ==
  ASSUME Alone, ControlOK, SequentialInv, NEW r \in Requests, SameProducers,
         db'.participant_producers = db.participant_producers,
         db'.router_meeting = db.router_meeting, routers_map \subseteq routers_map',
         \/ Done(r) /\ pc[r] \notin Dooming \cup {"cp_plain_consumer"}
         \/ \E from, to : Moves(r, from, to) /\ Ordinary(from, to) /\ Carries(from, to)
  PROVE  SequentialInv'
<1>0. \A q \in Requests : q = r
  BY DEF Alone
<1>1. \A x : Backed(x) => Backed(x)'
  BY StaysBacked
<1>2. OneMeetingEach'
  BY DEF SequentialInv, OneMeetingEach
<1>3. CASE Done(r) /\ pc[r] \notin Dooming \cup {"cp_plain_consumer"}
  <2>1. \A x : ~Doomed(r, x)
    BY <1>3 DEF Doomed, Dooming
  <2>2. Accounted'
    BY <1>0, <1>1, <2>1 DEF SequentialInv, Accounted, SameProducers
  <2>3. pc'[r] = "idle"
    BY <1>3 DEF Done, ControlOK
  <2>4. RecordingsKept'
    BY <1>3, <2>3, SameRecordings DEF SequentialInv
  <2> QED
    BY <1>0, <1>2, <1>3, <2>2, <2>4, DoneRequest DEF SequentialInv
<1>4. ASSUME NEW from, NEW to, Moves(r, from, to), Ordinary(from, to), Carries(from, to)
      PROVE  SequentialInv'
  <2>1. \A x : Doomed(r, x) => Doomed(r, x)'
    BY <1>4, CarriedDoom
  <2>2. Accounted'
    BY <1>0, <1>1, <2>1 DEF SequentialInv, Accounted, SameProducers
  <2>3. pc[r] = from /\ pc'[r] = to
    BY <1>4 DEF Moves, Proceeds, ControlOK
  <2>4. RecordingsKept'
    BY <1>4, <2>3, SameRecordings DEF SequentialInv, Carries
  <2>5. SoleInv(r)'
    BY <1>4, CarriedRequest DEF SequentialInv, SameProducers
  <2> QED
    BY <1>0, <1>2, <2>2, <2>4, <2>5 DEF SequentialInv
<1> QED
  BY <1>3, <1>4

\* A step that leaves the producers in memory, and is on its way to remove those that it
\* takes the rows of.
LEMMA TurnSole ==
  ASSUME Alone, SequentialInv, NEW r \in Requests, SameProducers, OneMeetingEach', SoleInv(r)',
         \A x \in producer_map : Backed(x) => Backed(x)' \/ Doomed(r, x)',
         \A x \in producer_map : Doomed(r, x) => Doomed(r, x)',
         pc[r] # "cp_plain_consumer", pc'[r] \notin {"cp_plain", "cp_plain_consumer"}
  PROVE  SequentialInv'
<1>0. \A q \in Requests : q = r
  BY DEF Alone
<1>1. Accounted'
  BY <1>0 DEF SequentialInv, Accounted, SameProducers
<1>2. RecordingsKept'
  BY SameRecordings DEF SequentialInv
<1> QED
  BY <1>0, <1>1, <1>2 DEF SequentialInv

\* A removal of producers, with their recordings.
LEMMA RemovesSole ==
  ASSUME Alone, SequentialInv, NEW r \in Requests, NEW ids, close_all_producers_in_memory(ids),
         db' = db, routers_map' = routers_map, SoleInv(r)',
         \A x \in producer_map : Doomed(r, x) => x.id \in ids,
         pc[r] # "cp_plain_consumer", pc'[r] \notin {"cp_plain", "cp_plain_consumer"}
  PROVE  SequentialInv'
<1>0. \A q \in Requests : q = r
  BY DEF Alone
<1>1. /\ producer_map' = {x \in producer_map : x.id \notin ids}
      /\ plain_transport_map' = plain_transport_map \ {x.id : x \in producer_map \ producer_map'}
      /\ plain_transport_consumer_map' =
            plain_transport_consumer_map \ {x.id : x \in producer_map \ producer_map'}
  <2> DEFINE removed == {x \in producer_map : x.id \in ids}
  <2>1. /\ producer_map' = producer_map \ removed
        /\ plain_transport_map' = plain_transport_map \ {x.id : x \in removed}
        /\ plain_transport_consumer_map' = plain_transport_consumer_map \ {x.id : x \in removed}
    BY DEF close_all_producers_in_memory
  <2>2. producer_map \ producer_map' = removed
    BY <2>1
  <2> QED
    BY <2>1, <2>2
<1>2. \A x : Backed(x) => Backed(x)'
  BY StaysBacked
<1>3. Accounted'
  BY <1>0, <1>1, <1>2 DEF SequentialInv, Accounted
<1>4. OneMeetingEach'
  BY DEF SequentialInv, OneMeetingEach
<1>5. ASSUME NEW id \in plain_transport_map'
      PROVE  InProducerMap(id)' /\ id \in plain_transport_consumer_map'
  <2>1. id \in plain_transport_map /\ id \notin {x.id : x \in producer_map \ producer_map'}
    BY <1>1
  <2>2. InProducerMap(id) /\ id \in plain_transport_consumer_map
    BY <1>0, <2>1 DEF SequentialInv, RecordingsKept
  <2> QED
    BY <1>1, <2>1, <2>2 DEF InProducerMap
<1>6. plain_transport_consumer_map' \subseteq plain_transport_map'
  BY <1>1 DEF SequentialInv, RecordingsKept
<1>7. RecordingsKept'
  BY <1>0, <1>5, <1>6 DEF RecordingsKept
<1> QED
  BY <1>0, <1>3, <1>4, <1>7 DEF SequentialInv

\* leave_meeting.
LEMMA LeaveSole ==
  ASSUME Alone, DataOK, ControlOK, RosterInv, TransportInv, ProducerInv, SequentialInv,
         NEW r \in Requests, LeaveMeeting(r)
  PROVE  SequentialInv'
<1> USE DEF MeetingSteps, Unpublished, ProduceSteps, MeetingLocked, Producing, Superseding, Leaving,
            Ending, Removing, Dooming
<1>0. /\ local[r] \in Locals /\ local \in [Requests -> Locals]
      /\ StepTyped(pc[r], call[r], local[r]) /\ db \in Databases /\ Consistent(db) /\ Keyed(db)
      /\ OneMeetingEach
  BY DEF ControlOK, DataOK, RosterInv, TransportInv, SequentialInv
<1>1. CASE LeaveDelete(r)
  <2>1. call[r].p \in Participants /\ call[r].m \in Meetings /\ call[r].i \in Instances
    BY <1>0, <1>1 DEF LeaveDelete, StepTyped, LeaveSteps
  <2>2. PICK tx : tx = LeaveTx(db, call[r].p, call[r].m, call[r].i)
    OBVIOUS
  <2>3. /\ pc[r] = "lv_delete" /\ routers_map' = routers_map /\ SameProducers
    BY <1>1 DEF LeaveDelete, memory, recordings, SameProducers
  <2>4. PICK out \in Outcomes(tx) :
           /\ db' = out.db
           /\ \/ /\ out.error = NoError /\ Presence(call[r]) \in db.participant_meeting
                 /\ Continue(r, "lv_transports", local[r])
              \/ /\ out.error # NoError \/ Presence(call[r]) \notin db.participant_meeting
                 /\ Done(r)
    BY <1>1, <2>2 DEF LeaveDelete, LeaveAffectsRows, Presence
  <2>5. db' = tx.db \/ db' = db
    BY <2>4, OutcomeOf
  <2>6. db'.router_meeting = db.router_meeting
    BY <1>0, <2>1, <2>2, <2>5, LeaveRouters DEF SameRouters
  <2>7. OneMeetingEach'
    BY <1>0, <2>6 DEF OneMeetingEach
  <2>8. \/ db'.participant_producers = db.participant_producers
        \/ /\ Presence(call[r]) \in db.participant_meeting
           /\ db'.participant_producers = {x \in db.participant_producers : x.p # call[r].p}
    BY <1>0, <2>1, <2>2, <2>5, LeaveEffect DEF SameRows, Departed, Presence
  <2>9. CASE Done(r)
    <3>1. db'.participant_producers = db.participant_producers
      <4>1. CASE out.error # NoError
        BY <2>2, <2>4, <4>1 DEF Outcomes, Failed, LeaveTx, Finish, Start
      <4>2. CASE Presence(call[r]) \notin db.participant_meeting
        BY <2>8, <4>2
      <4>3. CASE out.error = NoError /\ Continue(r, "lv_transports", local[r])
        <5>1. pc'[r] = "lv_transports" /\ pc'[r] = "idle"
          BY <2>9, <4>3 DEF Continue, Done, ControlOK
        <5> QED
          BY <5>1
      <4> QED
        BY <2>4, <4>1, <4>2, <4>3
    <3> QED
      BY <2>3, <2>6, <2>9, <3>1, PlainSole
  <2>10. CASE Presence(call[r]) \in db.participant_meeting /\ Continue(r, "lv_transports", local[r])
    <3>1. pc'[r] = "lv_transports" /\ call'[r] = call[r]
      BY <2>10 DEF Continue, ControlOK
    <3>2. ASSUME NEW x \in producer_map, Backed(x)
          PROVE  Backed(x)' \/ Doomed(r, x)'
      <4>1. PICK row \in db.participant_producers : row.id = x.id /\ row.m = x.m
        BY <3>2 DEF Backed
      <4>2. x.p = row.p /\ Presence(x) \in db.participant_meeting
        BY <4>1 DEF ProducerInv, OfPresent
      <4>3. CASE x.p = call[r].p
        <5>1. Presence(x) = Presence(call[r])
          BY <1>0, <2>10, <4>2, <4>3 DEF Consistent, Presence
        <5>2. x.m = call[r].m /\ x.i = call[r].i
          BY <5>1 DEF Presence
        <5> QED
          BY <3>1, <4>3, <5>2 DEF Doomed
      <4>4. CASE x.p # call[r].p
        <5>1. \A y \in db.participant_producers : y.id = x.id /\ y.m = x.m =>
                 y \in db'.participant_producers
          BY <2>8, <4>4 DEF ProducerInv, OfPresent
        <5> QED
          BY <2>3, <2>6, <3>2, <5>1, StaysBacked
      <4> QED
        BY <4>3, <4>4
    <3>3. \A x : ~Doomed(r, x)
      BY <2>3 DEF Doomed
    <3>4. SoleInv(r)'
      BY <3>1 DEF SoleInv, Assured, OwnRouters, NothingLeft, EndSteps
    <3> QED
      BY <2>3, <2>7, <3>1, <3>2, <3>3, <3>4, TurnSole
  <2> QED
    BY <2>4, <2>9, <2>10
<1>2. CASE LeaveTransports(r)
  <2>1. Moves(r, "lv_transports", "lv_own_read")
    BY <1>0, <1>2 DEF LeaveTransports, Moves, Proceeds, Continue, Locals
  <2>2. Ordinary("lv_transports", "lv_own_read") /\ Carries("lv_transports", "lv_own_read")
    BY DEF Ordinary, Carries
  <2> QED
    BY <1>2, <2>1, <2>2, PlainSole DEF LeaveTransports, recordings, SameProducers
<1>3. CASE LeaveReadOwn(r)
  <2>1. Moves(r, "lv_own_read", "lv_own_close")
    BY <1>0, <1>3 DEF LeaveReadOwn, Moves, Proceeds, Continue, Locals
  <2>2. Ordinary("lv_own_read", "lv_own_close") /\ Carries("lv_own_read", "lv_own_close")
    BY DEF Ordinary, Carries
  <2> QED
    BY <1>3, <2>1, <2>2, PlainSole DEF LeaveReadOwn, memory, recordings, SameProducers
<1>4. CASE LeaveCloseOwn(r)
  <2>1. Moves(r, "lv_own_close", "lv_producers_read")
    BY <1>0, <1>4 DEF LeaveCloseOwn, Moves, Proceeds, Continue, Locals
  <2>2. Ordinary("lv_own_close", "lv_producers_read") /\ Carries("lv_own_close", "lv_producers_read")
    BY DEF Ordinary, Carries
  <2> QED
    BY <1>4, <2>1, <2>2, PlainSole DEF LeaveCloseOwn, recordings, SameProducers
<1>5. CASE LeaveReadProducers(r)
  <2>1. /\ pc[r] = "lv_producers_read" /\ pc'[r] = "lv_producers_close" /\ db' = db
        /\ local'[r] = [local[r] EXCEPT !.producers =
              get_participant_producers_for_instance_in_meeting(call[r].p, call[r].m, call[r].i)]
        /\ routers_map' = routers_map /\ SameProducers
    BY <1>0, <1>5 DEF LeaveReadProducers, Continue, memory, recordings, SameProducers, ControlOK
  <2>2. \A x \in producer_map : Doomed(r, x) => x.id \in local'[r].producers
    BY <1>0, <2>1 DEF Doomed, Locals, get_participant_producers_for_instance_in_meeting
  <2>3. \A x \in producer_map : Doomed(r, x) => Doomed(r, x)'
    BY <2>1, <2>2 DEF Doomed
  <2>4. \A x \in producer_map : Backed(x) => Backed(x)'
    BY <2>1, StaysBacked
  <2>5. SoleInv(r)'
    BY <2>1 DEF SoleInv, Assured, OwnRouters, NothingLeft, EndSteps
  <2>6. OneMeetingEach'
    BY <1>0, <2>1 DEF OneMeetingEach
  <2> QED
    BY <2>1, <2>3, <2>4, <2>5, <2>6, TurnSole
<1>6. CASE LeaveCloseProducers(r)
  <2>1. pc[r] = "lv_producers_close" /\ pc'[r] = "lv_dependents_read"
    BY <1>6 DEF LeaveCloseProducers, Continue, ControlOK
  <2>2. \A x \in producer_map : Doomed(r, x) => x.id \in local[r].producers
    BY <2>1 DEF Doomed
  <2>3. SoleInv(r)'
    BY <2>1 DEF SoleInv, Assured, OwnRouters, NothingLeft, EndSteps
  <2> QED
    BY <1>6, <2>1, <2>2, <2>3, RemovesSole DEF LeaveCloseProducers
<1>7. CASE LeaveReadDependents(r)
  <2>1. Moves(r, "lv_dependents_read", "lv_dependents_close") \/ Done(r)
    BY <1>0, <1>7 DEF LeaveReadDependents, Moves, Proceeds, Continue, Locals
  <2>2. Ordinary("lv_dependents_read", "lv_dependents_close")
        /\ Carries("lv_dependents_read", "lv_dependents_close")
    BY DEF Ordinary, Carries
  <2> QED
    BY <1>7, <2>1, <2>2, PlainSole DEF LeaveReadDependents, memory, recordings, SameProducers
<1>8. CASE LeaveCloseDependents(r)
  BY <1>8, PlainSole DEF LeaveCloseDependents, recordings, SameProducers
<1> QED
  BY <1>1, <1>2, <1>3, <1>4, <1>5, <1>6, <1>7, <1>8 DEF LeaveMeeting

\* What a join does to the producers: those of the instance it supersedes go.
LEMMA JoinProducers ==
  ASSUME db \in Databases, Consistent(db), NEW p \in Participants, NEW m \in Meetings,
         NEW i \in Instances, NEW kind, NEW router,
         db' = JoinTx(db, p, m, i, kind, router).db
  PROVE  \/ db'.participant_producers = db.participant_producers
         \/ /\ db'.participant_producers = {x \in db.participant_producers : x.p # p}
            /\ \A y \in db.participant_meeting : y.p = p => y.m = m /\ y.i # i
<1>1. PICK e, row : e = db' /\ row = [p |-> p, m |-> m, i |-> i]
  OBVIOUS
<1>2. \/ SameRows(db, e)
      \/ /\ m \in db.meeting_status
         /\ HasParticipant(db, p) => \E x \in db.participant_meeting : x.p = p /\ x.m = m
         /\ row \notin db.participant_meeting
         /\ Departed(db, e, {p}, {row})
  <2>1. e = JoinTx(db, p, m, i, kind, router).db
    BY <1>1
  <2> QED
    BY <1>1, <2>1, JoinEffect
<1>3. CASE SameRows(db, e)
  BY <1>1, <1>3 DEF SameRows
<1>4. CASE /\ HasParticipant(db, p) => \E x \in db.participant_meeting : x.p = p /\ x.m = m
           /\ row \notin db.participant_meeting
           /\ Departed(db, e, {p}, {row})
  <2>1. ASSUME NEW y \in db.participant_meeting, y.p = p
        PROVE  y.m = m /\ y.i # i
    <3>1. y.m = m
      BY <1>4, <2>1 DEF HasParticipant, Consistent
    <3>2. y = [p |-> y.p, m |-> y.m, i |-> y.i]
      BY DEF Databases, ParticipantMeeting
    <3> QED
      BY <1>1, <1>4, <2>1, <3>1, <3>2
  <2> QED
    BY <1>1, <1>4, <2>1 DEF Departed
<1> QED
  BY <1>2, <1>3, <1>4

\* The recreate helpers join, ...
LEMMA JoinSole ==
  ASSUME Alone, DataOK, ControlOK, RosterInv, TransportInv, ProducerInv, SequentialInv,
         NEW r \in Requests, RecreateJoin(r)
  PROVE  SequentialInv'
<1> USE DEF MeetingSteps, Unpublished, ProduceSteps, MeetingLocked, Producing, Superseding, Leaving,
            Ending, Removing, Dooming
<1>0. /\ local[r] \in Locals /\ local \in [Requests -> Locals]
      /\ StepTyped(pc[r], call[r], local[r]) /\ db \in Databases /\ Consistent(db) /\ Keyed(db)
      /\ OneMeetingEach
  BY DEF ControlOK, DataOK, RosterInv, TransportInv, SequentialInv
<1>1. /\ call[r].p \in Participants /\ call[r].m \in Meetings /\ call[r].i \in Instances
      /\ call[r].router \in Routers /\ pc[r] = "rt_join"
  BY <1>0 DEF RecreateJoin, StepTyped, RecreateSteps, ParticipantLocked
<1>2. PICK tx : tx = JoinTx(db, call[r].p, call[r].m, call[r].i, call[r].kind, call[r].router)
  OBVIOUS
<1>3. PICK out \in Outcomes(tx) :
         /\ db' = out.db
         /\ \/ \E vals : Continue(r, "rt_own_read", vals)
            \/ out.error # NoError /\ Done(r)
  BY <1>2 DEF RecreateJoin
<1>4. routers_map' = routers_map /\ SameProducers
  BY DEF RecreateJoin, memory, recordings, SameProducers
<1>5. db' = tx.db \/ db' = db
  BY <1>3, OutcomeOf
<1>6. db'.router_meeting = db.router_meeting
  BY <1>0, <1>1, <1>2, <1>5, JoinRouters DEF SameRouters
<1>7. CASE out.error # NoError /\ Done(r)
  <2>1. db' = db
    BY <1>2, <1>3, <1>7 DEF Outcomes, Failed, JoinTx, Finish
  <2> QED
    BY <1>1, <1>4, <1>7, <2>1, PlainSole
<1>8. ASSUME NEW vals, Continue(r, "rt_own_read", vals)
      PROVE  SequentialInv'
  <2>1. pc'[r] = "rt_own_read" /\ call'[r] = call[r]
    BY <1>8 DEF Continue, ControlOK
  <2>2. \/ db'.participant_producers = db.participant_producers
        \/ /\ db'.participant_producers = {x \in db.participant_producers : x.p # call[r].p}
           /\ \A y \in db.participant_meeting :
                 y.p = call[r].p => y.m = call[r].m /\ y.i # call[r].i
    BY <1>0, <1>1, <1>2, <1>5, JoinProducers
  <2>3. ASSUME NEW x \in producer_map, Backed(x)
        PROVE  Backed(x)' \/ Doomed(r, x)'
    <3>1. PICK row \in db.participant_producers : row.id = x.id /\ row.m = x.m
      BY <2>3 DEF Backed
    <3>2. x.p = row.p /\ Presence(x) \in db.participant_meeting
      BY <3>1 DEF ProducerInv, OfPresent
    <3>3. Presence(x).p = x.p /\ Presence(x).m = x.m /\ Presence(x).i = x.i
      BY DEF Presence
    <3>4. CASE x.p = call[r].p /\ db'.participant_producers # db.participant_producers
      BY <2>1, <2>2, <3>2, <3>3, <3>4 DEF Doomed
    <3>5. CASE x.p # call[r].p \/ db'.participant_producers = db.participant_producers
      <4>1. \A y \in db.participant_producers : y.id = x.id /\ y.m = x.m =>
               y \in db'.participant_producers
        BY <2>2, <3>5 DEF ProducerInv, OfPresent
      <4> QED
        BY <1>4, <1>6, <2>3, <4>1, StaysBacked
    <3> QED
      BY <3>4, <3>5
  <2>4. \A x : ~Doomed(r, x)
    BY <1>1 DEF Doomed
  <2>5. SoleInv(r)'
    BY <2>1 DEF SoleInv, Assured, OwnRouters, NothingLeft, EndSteps
  <2>6. OneMeetingEach'
    BY <1>0, <1>6 DEF OneMeetingEach
  <2> QED
    BY <1>1, <1>4, <2>1, <2>3, <2>4, <2>5, <2>6, TurnSole
<1> QED
  BY <1>3, <1>7, <1>8

\* ... remove the producers of the instance they supersede, ...
LEMMA SupersedeSole ==
  ASSUME Alone, DataOK, ControlOK, SequentialInv, NEW r \in Requests,
         RecreateReadProducers(r) \/ RecreateCloseProducers(r)
  PROVE  SequentialInv'
<1> USE DEF MeetingSteps, Unpublished, ProduceSteps, MeetingLocked, Producing, Superseding, Leaving,
            Ending, Removing, Dooming
<1>0. local[r] \in Locals /\ local \in [Requests -> Locals] /\ OneMeetingEach
  BY DEF ControlOK, SequentialInv
<1>1. CASE RecreateReadProducers(r)
  <2>1. /\ pc[r] = "rt_producers_read" /\ pc'[r] = "rt_dependents_read" /\ db' = db
        /\ local'[r] = [local[r] EXCEPT !.producers =
              get_participant_producers_excluding_instance(call[r].p, call[r].m, call[r].i)]
        /\ routers_map' = routers_map /\ SameProducers
    BY <1>0, <1>1 DEF RecreateReadProducers, Continue, memory, recordings, SameProducers, ControlOK
  <2>2. \A x \in producer_map : Doomed(r, x) => x.id \in local'[r].producers
    BY <1>0, <2>1 DEF Doomed, Locals, get_participant_producers_excluding_instance
  <2>3. \A x \in producer_map : Doomed(r, x) => Doomed(r, x)'
    BY <2>1, <2>2 DEF Doomed
  <2>4. \A x \in producer_map : Backed(x) => Backed(x)'
    BY <2>1, StaysBacked
  <2>5. SoleInv(r)'
    BY <2>1 DEF SoleInv, Assured, OwnRouters, NothingLeft, EndSteps
  <2>6. OneMeetingEach'
    BY <1>0, <2>1 DEF OneMeetingEach
  <2> QED
    BY <2>1, <2>3, <2>4, <2>5, <2>6, TurnSole
<1>2. CASE RecreateCloseProducers(r)
  <2>1. pc[r] = "rt_producers_close" /\ pc'[r] = "rt_dependents_close"
    BY <1>2 DEF RecreateCloseProducers, Continue, ControlOK
  <2>2. \A x \in producer_map : Doomed(r, x) => x.id \in local[r].producers
    BY <2>1 DEF Doomed
  <2>3. SoleInv(r)'
    BY <2>1 DEF SoleInv, Assured, OwnRouters, NothingLeft, EndSteps
  <2> QED
    BY <1>2, <2>1, <2>2, <2>3, RemovesSole DEF RecreateCloseProducers
<1> QED
  BY <1>1, <1>2

\* ... and have a transport.
LEMMA RecreateSole ==
  ASSUME Alone, DataOK, ControlOK, RosterInv, TransportInv, ProducerInv, SequentialInv,
         NEW r \in Requests, RecreateTransport(r)
  PROVE  SequentialInv'
<1> USE DEF MeetingSteps, Unpublished, ProduceSteps, MeetingLocked, Producing, Superseding, Leaving,
            Ending, Removing, Dooming
<1>0. local[r] \in Locals /\ local \in [Requests -> Locals] /\ db \in Databases /\ Keyed(db)
  BY DEF ControlOK, DataOK, TransportInv
<1>1. /\ Ordinary("rt_lock", "rt_join") /\ Carries("rt_lock", "rt_join")
      /\ Ordinary("rt_own_read", "rt_own_close") /\ Carries("rt_own_read", "rt_own_close")
      /\ Ordinary("rt_own_close", "rt_producers_read") /\ Carries("rt_own_close", "rt_producers_read")
      /\ Ordinary("rt_dependents_read", "rt_producers_close")
      /\ Carries("rt_dependents_read", "rt_producers_close")
      /\ Ordinary("rt_dependents_close", "rt_create") /\ Carries("rt_dependents_close", "rt_create")
      /\ Ordinary("rt_create", "rt_register") /\ Carries("rt_create", "rt_register")
      /\ Ordinary("rt_register", "rt_existing") /\ Carries("rt_register", "rt_existing")
      /\ Ordinary("rt_publish", "rt_reply") /\ Carries("rt_publish", "rt_reply")
      /\ Ordinary("rt_existing", "rt_reply") /\ Carries("rt_existing", "rt_reply")
  BY DEF Ordinary, Carries
<1>2. CASE RecreateLock(r)
  <2>1. Moves(r, "rt_lock", "rt_join")
    BY <1>0, <1>2 DEF RecreateLock, Acquire, Moves, Proceeds, Locals
  <2> QED
    BY <1>1, <1>2, <2>1, PlainSole DEF RecreateLock, Acquire, memory, recordings, SameProducers
<1>3. CASE RecreateReadOwn(r)
  <2>1. Moves(r, "rt_own_read", "rt_own_close")
    BY <1>0, <1>3 DEF RecreateReadOwn, Moves, Proceeds, Continue, Locals
  <2> QED
    BY <1>1, <1>3, <2>1, PlainSole DEF RecreateReadOwn, memory, recordings, SameProducers
<1>4. CASE RecreateCloseOwn(r)
  <2>1. Moves(r, "rt_own_close", "rt_producers_read")
    BY <1>0, <1>4 DEF RecreateCloseOwn, Moves, Proceeds, Continue, Locals
  <2> QED
    BY <1>1, <1>4, <2>1, PlainSole DEF RecreateCloseOwn, recordings, SameProducers
<1>5. CASE RecreateReadDependents(r)
  <2>1. Moves(r, "rt_dependents_read", "rt_producers_close")
    BY <1>0, <1>5 DEF RecreateReadDependents, Moves, Proceeds, Continue, Locals
  <2> QED
    BY <1>1, <1>5, <2>1, PlainSole DEF RecreateReadDependents, memory, recordings, SameProducers
<1>6. CASE RecreateCloseDependents(r)
  <2>1. Moves(r, "rt_dependents_close", "rt_create") \/ Done(r)
    BY <1>0, <1>6 DEF RecreateCloseDependents, Moves, Proceeds, Continue, Locals
  <2> QED
    BY <1>1, <1>6, <2>1, PlainSole DEF RecreateCloseDependents, recordings, SameProducers
<1>7. CASE RecreateCreate(r)
  <2>1. Moves(r, "rt_create", "rt_register") \/ Done(r)
    BY <1>0, <1>7 DEF RecreateCreate, Moves, Proceeds, Continue, Locals
  <2> QED
    BY <1>1, <1>7, <2>1, PlainSole DEF RecreateCreate, memory, recordings, SameProducers
<1>8. CASE RecreateRegister(r)
  <2>1. PICK tx : tx = RegisterTransportTx(db, call[r].p, call[r].kind, local[r].transport)
    OBVIOUS
  <2>2. db' = tx.db \/ db' = db
    BY <1>8, <2>1, OutcomeOf DEF RecreateRegister
  <2>3. /\ db'.router_meeting = db.router_meeting
        /\ db'.participant_producers = db.participant_producers
    BY <1>0, <2>1, <2>2, OtherRouters, RegisterTransportEffect DEF SameRouters
  <2>4. pc[r] = "rt_register" /\ routers_map' = routers_map /\ SameProducers
    BY <1>8 DEF RecreateRegister, memory, recordings, SameProducers
  <2>5. \/ Done(r) \/ Moves(r, "rt_register", "rt_existing") \/ pc'[r] = "rt_publish"
    BY <1>0, <1>8 DEF RecreateRegister, Moves, Proceeds, Continue, Locals, ControlOK
  <2>6. CASE Done(r) \/ Moves(r, "rt_register", "rt_existing")
    BY <1>1, <2>3, <2>4, <2>6, PlainSole
  <2>7. CASE pc'[r] = "rt_publish"
    <3>1. \A x \in producer_map : Backed(x) => Backed(x)'
      BY <2>3, <2>4, StaysBacked
    <3>2. \A x : ~Doomed(r, x)
      BY <2>4 DEF Doomed
    <3>3. SoleInv(r)'
      BY <2>7 DEF SoleInv, Assured, OwnRouters, NothingLeft, EndSteps
    <3>4. OneMeetingEach'
      BY <2>3 DEF SequentialInv, OneMeetingEach
    <3> QED
      BY <2>4, <2>7, <3>1, <3>2, <3>3, <3>4, TurnSole
  <2> QED
    BY <2>5, <2>6, <2>7
<1>9. CASE RecreatePublish(r)
  <2>1. Moves(r, "rt_publish", "rt_reply")
    BY <1>0, <1>9 DEF RecreatePublish, Moves, Proceeds, Continue, Locals
  <2> QED
    BY <1>1, <1>9, <2>1, PlainSole DEF RecreatePublish, recordings, SameProducers
<1>10. CASE RecreateExisting(r)
  <2>1. Moves(r, "rt_existing", "rt_reply") \/ Done(r)
    BY <1>0, <1>10 DEF RecreateExisting, Moves, Proceeds, Continue, Locals
  <2> QED
    BY <1>1, <1>10, <2>1, PlainSole DEF RecreateExisting, memory, recordings, SameProducers
<1>11. CASE RecreateReply(r)
  BY <1>11, PlainSole DEF RecreateReply, memory, recordings, SameProducers
<1> QED
  BY <1>2, <1>3, <1>4, <1>5, <1>6, <1>7, <1>8, <1>9, <1>10, <1>11, JoinSole, SupersedeSole
     DEF RecreateTransport

\* The row of a new producer is in the table once its transaction is committed.
LEMMA RegisteredRow ==
  ASSUME db \in Databases, NEW row, RegisterProducerTx(db, row).error = NoError
  PROVE  RegisterProducerTx(db, row).db.participant_producers = db.participant_producers \cup {row}
<1> DEFINE new == [db EXCEPT !.participant_producers = @ \cup {row}]
<1>1. RegisterProducerTx(db, row).db = new
  BY DEF RegisterProducerTx, InsertProducer, Insert, Start, Finish, NoError, ForeignKey
<1>2. new.participant_producers = db.participant_producers \cup {row}
  BY DEF Databases
<1> QED
  BY <1>1, <1>2

\* create_producer, up to the insertion into producer_map, ...
LEMMA RecordSole ==
  ASSUME Alone, DataOK, ControlOK, TransportInv, SequentialInv, NEW r \in Requests,
         \/ ProduceLock(r) \/ ProduceCheck(r) \/ ProduceOnTransport(r) \/ ProduceRouters(r)
         \/ ProduceRegister(r)
  PROVE  SequentialInv'
<1> USE DEF MeetingSteps, Unpublished, ProduceSteps, MeetingLocked, Producing, Superseding, Leaving,
            Ending, Removing, Dooming
<1>0. /\ local[r] \in Locals /\ local \in [Requests -> Locals] /\ db \in Databases /\ Keyed(db)
      /\ Assured(r) /\ OneMeetingEach
  BY DEF ControlOK, DataOK, TransportInv, SequentialInv, SoleInv
<1>1. CASE ProduceLock(r)
  <2>1. Moves(r, "cp_lock", "cp_check")
    BY <1>0, <1>1 DEF ProduceLock, Acquire, Moves, Proceeds, Locals
  <2>2. Ordinary("cp_lock", "cp_check") /\ Carries("cp_lock", "cp_check")
    BY DEF Ordinary, Carries
  <2> QED
    BY <1>1, <2>1, <2>2, PlainSole DEF ProduceLock, Acquire, memory, recordings, SameProducers
<1>2. CASE ProduceCheck(r)
  <2>1. Moves(r, "cp_check", "cp_produce") \/ Done(r)
    BY <1>0, <1>2 DEF ProduceCheck, Moves, Proceeds, Continue, Locals
  <2>2. Ordinary("cp_check", "cp_produce") /\ Carries("cp_check", "cp_produce")
    BY DEF Ordinary, Carries
  <2> QED
    BY <1>2, <2>1, <2>2, PlainSole DEF ProduceCheck, memory, recordings, SameProducers
\* A step that is not one of those, to one of them.
<1>3. ASSUME NEW step \in {"cp_routers", "cp_register", "cp_publish", "cp_pipeline"},
             NEW vals, Continue(r, step, vals), pc[r] \in {"cp_produce", "cp_routers", "cp_register"},
             routers_map' = routers_map, SameProducers, db'.router_meeting = db.router_meeting,
             db.participant_producers \subseteq db'.participant_producers,
             step \in {"cp_register", "cp_publish"} => call[r].router \in routers_map,
             step = "cp_publish" =>
                \E row \in db'.participant_producers : row.id = vals.producer /\ row.m = call[r].m
      PROVE  SequentialInv'
  <2>1. pc'[r] = step /\ call'[r] = call[r] /\ local'[r] = vals
    BY <1>0, <1>3 DEF Continue, ControlOK
  <2>2. \A x \in producer_map : Backed(x) => Backed(x)'
    BY <1>3, StaysBacked
  <2>3. \A x : ~Doomed(r, x)
    BY <1>3 DEF Doomed
  <2>4. Assured(r)'
    BY <1>0, <1>3, <2>1 DEF Assured, RoutersIn
  <2>5. SoleInv(r)'
    BY <2>1, <2>4 DEF SoleInv, OwnRouters, NothingLeft, EndSteps
  <2>6. OneMeetingEach'
    BY <1>0, <1>3 DEF OneMeetingEach
  <2> QED
    BY <1>3, <2>1, <2>2, <2>3, <2>5, <2>6, TurnSole
<1>4. CASE ProduceOnTransport(r)
  <2>1. /\ pc[r] = "cp_produce" /\ db' = db /\ routers_map' = routers_map /\ SameProducers
        /\ Done(r) \/ \E id : Continue(r, "cp_routers", [local[r] EXCEPT !.producer = id])
    BY <1>4 DEF ProduceOnTransport, memory, recordings, SameProducers
  <2>2. CASE Done(r)
    BY <2>1, <2>2, PlainSole
  <2> QED
    BY <1>3, <2>1, <2>2
<1>5. CASE ProduceRouters(r)
  <2>1. /\ pc[r] = "cp_routers" /\ db' = db /\ routers_map' = routers_map /\ SameProducers
        /\ \/ Done(r)
           \/ call[r].router \in routers_map /\ Continue(r, "cp_register", local[r])
    BY <1>5 DEF ProduceRouters, RoutersOf, memory, recordings, SameProducers
  <2>2. CASE Done(r)
    BY <2>1, <2>2, PlainSole
  <2> QED
    BY <1>3, <2>1, <2>2
<1>6. CASE ProduceRegister(r)
  <2>1. PICK row, tx : /\ row = [id |-> local[r].producer, p |-> call[r].p, kind |-> call[r].kind,
                                 m |-> call[r].m, t |-> call[r].t]
                       /\ tx = RegisterProducerTx(db, row)
    OBVIOUS
  <2>2. PICK out \in Outcomes(tx) :
           /\ db' = out.db
           /\ \/ out.error = NoError /\ Continue(r, "cp_publish", local[r])
              \/ out.error # NoError /\ (Continue(r, "cp_pipeline", local[r]) \/ Done(r))
    BY <1>6, <2>1 DEF ProduceRegister
  <2>3. pc[r] = "cp_register" /\ routers_map' = routers_map /\ SameProducers
    BY <1>6 DEF ProduceRegister, memory, recordings, SameProducers
  <2>4. CASE out.error # NoError
    <3>1. db' = db
      BY <2>1, <2>2, <2>4 DEF Outcomes, Failed, RegisterProducerTx, Finish
    <3>2. CASE Done(r)
      BY <2>3, <3>1, <3>2, PlainSole
    <3>3. CASE Continue(r, "cp_pipeline", local[r])
      BY <1>3, <2>3, <3>1, <3>3
    <3> QED
      BY <2>2, <2>4, <3>2, <3>3
  <2>5. CASE out.error = NoError
    <3>1. out = tx /\ Continue(r, "cp_publish", local[r])
      BY <2>2, <2>5 DEF Outcomes, Failed, NoError, DriverFailure
    <3>2. db'.participant_producers = db.participant_producers \cup {row}
      BY <1>0, <2>1, <2>2, <2>5, <3>1, RegisteredRow
    <3>3. db'.router_meeting = db.router_meeting
      BY <1>0, <2>1, <2>2, <3>1, OtherRouters DEF SameRouters
    <3>4. row.id = local[r].producer /\ row.m = call[r].m
      BY <2>1
    <3>5. call[r].router \in routers_map
      BY <1>0, <2>3 DEF Assured
    <3> QED
      BY <1>3, <2>3, <3>1, <3>2, <3>3, <3>4, <3>5
  <2> QED
    BY <2>4, <2>5
<1> QED
  BY <1>1, <1>2, <1>4, <1>5, <1>6

\* ... and from there on.
LEMMA ProduceSole ==
  ASSUME Alone, DataOK, ControlOK, TransportInv, SequentialInv, NEW r \in Requests, CreateProducer(r)
  PROVE  SequentialInv'
<1> USE DEF MeetingSteps, Unpublished, ProduceSteps, MeetingLocked, Producing, Superseding, Leaving,
            Ending, Removing, Dooming
<1>0. /\ local[r] \in Locals /\ local \in [Requests -> Locals]
      /\ Assured(r) /\ OneMeetingEach /\ RecordingsKept /\ Accounted
  BY DEF ControlOK, SequentialInv, SoleInv
<1>1. \A q \in Requests : q = r
  BY DEF Alone
\* The steps that follow are about the producer that is recorded.
<1>2. ASSUME pc[r] \in {"cp_publish", "cp_plain", "cp_plain_consumer", "cp_pipeline"},
             db' = db, routers_map' = routers_map, producer_map \subseteq producer_map',
             \A x \in producer_map' : x \in producer_map \/ Backed(x),
             RecordingsKept', Done(r) \/ \E step \in {"cp_plain", "cp_plain_consumer", "cp_pipeline"} :
                                            Continue(r, step, local[r])
      PROVE  SequentialInv'
  <2>1. \A x : Backed(x) => Backed(x)'
    BY <1>2, StaysBacked
  <2>2. \A x : ~Doomed(r, x)
    BY <1>2 DEF Doomed
  <2>3. Accounted'
    BY <1>0, <1>1, <1>2, <2>1, <2>2 DEF Accounted
  <2>4. OneMeetingEach'
    BY <1>0, <1>2 DEF OneMeetingEach
  <2>5. SoleInv(r)'
    <3>1. CASE Done(r)
      BY <3>1, DoneRequest
    <3>2. CASE \E step \in {"cp_plain", "cp_plain_consumer", "cp_pipeline"} :
                  Continue(r, step, local[r])
      <4>1. pc'[r] \in {"cp_plain", "cp_plain_consumer", "cp_pipeline"} /\ call'[r] = call[r]
        BY <1>0, <3>2 DEF Continue, ControlOK
      <4>2. Assured(r)'
        BY <1>0, <1>2, <4>1 DEF Assured, RoutersIn
      <4> QED
        BY <4>1, <4>2 DEF SoleInv, OwnRouters, NothingLeft, EndSteps
    <3> QED
      BY <1>2, <3>1, <3>2
  <2> QED
    BY <1>1, <1>2, <2>3, <2>4, <2>5 DEF SequentialInv
<1>3. CASE ProducePublish(r)
  <2>1. PICK x : /\ x.id = local[r].producer /\ x.m = call[r].m
                 /\ producer_map' = producer_map \cup {x}
    <3>1. PICK x : /\ x = [id |-> local[r].producer, m |-> call[r].m, p |-> call[r].p,
                           kind |-> call[r].kind, i |-> call[r].i]
                   /\ producer_map' = producer_map \cup {x}
      BY <1>3 DEF ProducePublish
    <3>2. x.id = local[r].producer /\ x.m = call[r].m
      BY <3>1
    <3> QED
      BY <3>1, <3>2
  <2>2. /\ pc[r] = "cp_publish" /\ db' = db /\ routers_map' = routers_map
        /\ plain_transport_map' = plain_transport_map
        /\ plain_transport_consumer_map' = plain_transport_consumer_map
        /\ Done(r) \/ Continue(r, "cp_plain", local[r])
    BY <1>3 DEF ProducePublish, recordings
  <2>3. Backed(x)
    <3>1. Hosted(x.m)
      BY <1>0, <2>1, <2>2 DEF Assured, Hosted, RoutersOfMeeting, RoutersIn
    <3> QED
      BY <1>0, <2>1, <2>2, <3>1 DEF Assured, Backed
  <2>4. pc'[r] = "idle" \/ (pc'[r] = "cp_plain" /\ local'[r] = local[r])
    BY <1>0, <2>2 DEF Done, Continue, ControlOK
  <2>5. \A id : InProducerMap(id) => InProducerMap(id)'
    BY <2>1 DEF InProducerMap
  <2>6. \E y \in producer_map' : y.id = local[r].producer
    BY <2>1
  <2>7. RecordingsKept'
    <3>1. \A id \in plain_transport_map : InProducerMap(id) /\ id \in plain_transport_consumer_map
      BY <1>0, <1>1, <2>2 DEF RecordingsKept
    <3>2. \A id \in plain_transport_map' : InProducerMap(id)' /\ id \in plain_transport_consumer_map'
      BY <2>2, <2>5, <3>1
    <3>3. plain_transport_consumer_map' \subseteq plain_transport_map'
      BY <1>0, <2>2 DEF RecordingsKept
    <3>4. \A q \in Requests :
             /\ pc'[q] \in {"cp_plain", "cp_plain_consumer"} => InProducerMap(local[q].producer)'
             /\ pc'[q] # "cp_plain_consumer"
      BY <1>1, <2>4, <2>6 DEF InProducerMap
    <3> QED
      BY <3>2, <3>3, <3>4 DEF RecordingsKept
  <2> QED
    BY <1>2, <2>1, <2>2, <2>3, <2>7
<1>4. CASE ProducePlain(r)
  <2>1. /\ pc[r] = "cp_plain" /\ db' = db /\ routers_map' = routers_map
        /\ producer_map' = producer_map
        /\ plain_transport_map' = plain_transport_map \cup {local[r].producer}
        /\ plain_transport_consumer_map' = plain_transport_consumer_map
        /\ Continue(r, "cp_plain_consumer", local[r])
    BY <1>4 DEF ProducePlain
  <2>2. pc'[r] = "cp_plain_consumer" /\ local'[r] = local[r]
    BY <1>0, <2>1 DEF Continue, ControlOK
  <2>3. \A id : InProducerMap(id)' <=> InProducerMap(id)
    BY <2>1 DEF InProducerMap
  <2>4. RecordingsKept'
    BY <1>0, <1>1, <2>1, <2>2, <2>3 DEF RecordingsKept
  <2> QED
    BY <1>2, <2>1, <2>4
<1>5. CASE ProducePlainConsumer(r)
  <2>1. /\ pc[r] = "cp_plain_consumer" /\ db' = db /\ routers_map' = routers_map
        /\ producer_map' = producer_map
        /\ plain_transport_map' = plain_transport_map
        /\ plain_transport_consumer_map' = plain_transport_consumer_map \cup {local[r].producer}
        /\ Continue(r, "cp_pipeline", local[r])
    BY <1>5 DEF ProducePlainConsumer
  <2>2. pc'[r] = "cp_pipeline" /\ local'[r] = local[r]
    BY <1>0, <2>1 DEF Continue, ControlOK
  <2>3. \A id : InProducerMap(id)' <=> InProducerMap(id)
    BY <2>1 DEF InProducerMap
  <2>4. RecordingsKept'
    BY <1>0, <1>1, <2>1, <2>2, <2>3 DEF RecordingsKept
  <2> QED
    BY <1>2, <2>1, <2>4
<1>6. CASE ProducePipeline(r)
  BY <1>6, PlainSole DEF ProducePipeline, SameProducers
<1> QED
  BY <1>3, <1>4, <1>5, <1>6, RecordSole DEF CreateProducer

\* close_producer.
LEMMA CloseProducerSole ==
  ASSUME Alone, DataOK, ControlOK, TransportInv, SequentialInv, NEW r \in Requests, CloseProducer(r)
  PROVE  SequentialInv'
<1> USE DEF MeetingSteps, Unpublished, ProduceSteps, MeetingLocked, Producing, Superseding, Leaving,
            Ending, Removing, Dooming
<1>0. /\ local[r] \in Locals /\ local \in [Requests -> Locals] /\ db \in Databases /\ Keyed(db)
      /\ OneMeetingEach
  BY DEF ControlOK, DataOK, TransportInv, SequentialInv
<1>1. CASE CloseProducerDelete(r)
  <2>1. PICK tx : tx = DeleteProducersTx(db, call[r].p, call[r].ids)
    OBVIOUS
  <2>2. PICK out \in Outcomes(tx) :
           /\ db' = out.db
           /\ \/ out.error = NoError /\ Continue(r, "cl_close", local[r])
              \/ out.error # NoError /\ Done(r)
    BY <1>1, <2>1 DEF CloseProducerDelete
  <2>3. pc[r] = "cl_delete" /\ routers_map' = routers_map /\ SameProducers
    BY <1>1 DEF CloseProducerDelete, memory, recordings, SameProducers
  <2>4. db' = tx.db \/ db' = db
    BY <2>2, OutcomeOf
  <2>5. db'.router_meeting = db.router_meeting
    BY <1>0, <2>1, <2>4, OtherRouters DEF SameRouters
  <2>6. tx.db.participant_producers =
           {row \in db.participant_producers : ~(row.p = call[r].p /\ row.id \in call[r].ids)}
    BY <1>0, <2>1, CloseEffect
  <2>7. CASE out.error # NoError /\ Done(r)
    <3>1. db' = db
      BY <2>1, <2>2, <2>7 DEF Outcomes, Failed, DeleteProducersTx, Finish, Start
    <3> QED
      BY <2>3, <2>7, <3>1, PlainSole
  <2>8. CASE Continue(r, "cl_close", local[r])
    <3>1. pc'[r] = "cl_close" /\ call'[r] = call[r]
      BY <2>8 DEF Continue, ControlOK
    <3>2. ASSUME NEW x \in producer_map, Backed(x)
          PROVE  Backed(x)' \/ Doomed(r, x)'
      <4>1. CASE x.id \in call[r].ids
        BY <3>1, <4>1 DEF Doomed
      <4>2. CASE x.id \notin call[r].ids
        <5>1. \A row \in db.participant_producers : row.id = x.id /\ row.m = x.m =>
                 row \in db'.participant_producers
          BY <2>4, <2>6, <4>2
        <5> QED
          BY <2>3, <2>5, <3>2, <5>1, StaysBacked
      <4> QED
        BY <4>1, <4>2
    <3>3. \A x : ~Doomed(r, x)
      BY <2>3 DEF Doomed
    <3>4. SoleInv(r)'
      BY <3>1 DEF SoleInv, Assured, OwnRouters, NothingLeft, EndSteps
    <3>5. OneMeetingEach'
      BY <1>0, <2>5 DEF OneMeetingEach
    <3> QED
      BY <2>3, <3>1, <3>2, <3>3, <3>4, <3>5, TurnSole
  <2> QED
    BY <2>2, <2>7, <2>8
<1>2. CASE CloseProducerInMemory(r)
  <2>1. pc[r] = "cl_close" /\ Done(r) /\ pc'[r] = "idle"
    BY <1>2 DEF CloseProducerInMemory, Done, ControlOK
  <2>2. \A x \in producer_map : Doomed(r, x) => x.id \in call[r].ids
    BY <2>1 DEF Doomed
  <2> QED
    BY <1>2, <2>1, <2>2, DoneRequest, RemovesSole DEF CloseProducerInMemory
<1> QED
  BY <1>1, <1>2 DEF CloseProducer

\* createConsumer and closeConsumer.
LEMMA ConsumeSole ==
  ASSUME Alone, DataOK, ControlOK, TransportInv, SequentialInv, NEW r \in Requests,
         CreateConsumer(r) \/ CloseConsumer(r)
  PROVE  SequentialInv'
<1> USE DEF MeetingSteps, Unpublished, ProduceSteps, MeetingLocked, Producing, Superseding, Leaving,
            Ending, Removing, Dooming
<1>0. local[r] \in Locals /\ local \in [Requests -> Locals] /\ db \in Databases /\ Keyed(db)
  BY DEF ControlOK, DataOK, TransportInv
<1>1. /\ Ordinary("cc_transport", "cc_shard") /\ Ordinary("cc_shard", "cc_consume")
      /\ Ordinary("cc_consume", "cc_consume") /\ Ordinary("cc_consume", "cc_publish")
      /\ Ordinary("cz_delete", "cz_close")
  BY DEF Ordinary
<1>a. /\ Carries("cc_transport", "cc_shard") /\ Carries("cc_shard", "cc_consume")
      /\ Carries("cc_consume", "cc_consume") /\ Carries("cc_consume", "cc_publish")
      /\ Carries("cz_delete", "cz_close")
  BY DEF Carries
<1>2. CASE ConsumeOnTransport(r)
  <2>1. Moves(r, "cc_transport", "cc_shard") \/ Done(r)
    BY <1>0, <1>2 DEF ConsumeOnTransport, Moves, Proceeds, Continue, Locals
  <2> QED
    BY <1>1, <1>a, <1>2, <2>1, PlainSole DEF ConsumeOnTransport, memory, recordings, SameProducers
<1>3. CASE ConsumeSnapshot(r)
  <2>1. Moves(r, "cc_shard", "cc_consume")
    BY <1>0, <1>3 DEF ConsumeSnapshot, Moves, Proceeds, Continue, Locals
  <2> QED
    BY <1>1, <1>a, <1>3, <2>1, PlainSole DEF ConsumeSnapshot, memory, recordings, SameProducers
<1>4. CASE ConsumeReuse(r) \/ ConsumeNew(r)
  <2>2. Moves(r, "cc_consume", "cc_consume")
    BY <1>4, ConsumeMoves
  <2>3. db' = db /\ routers_map' = routers_map /\ SameProducers
    BY <1>4 DEF ConsumeReuse, ConsumeNew, memory, recordings, SameProducers
  <2> QED
    BY <1>1, <1>a, <2>2, <2>3, PlainSole
<1>5. CASE ConsumeFails(r)
  BY <1>5, PlainSole DEF ConsumeFails, memory, recordings, SameProducers
<1>6. CASE ConsumePublish(r)
  BY <1>6, PlainSole DEF ConsumePublish, recordings, SameProducers
<1>7. CASE CloseConsumerInMemory(r)
  BY <1>7, PlainSole DEF CloseConsumerInMemory, recordings, SameProducers
<1>8. CASE ConsumeRegister(r) \/ CloseConsumerDelete(r)
  <2>1. PICK tx, out :
           /\ out \in Outcomes(tx) /\ db' = out.db
           /\ \/ \E rows : tx = RegisterConsumersTx(db, rows)
              \/ tx = DeleteConsumersTx(db, call[r].ids)
    BY <1>8 DEF ConsumeRegister, CloseConsumerDelete
  <2>2. db' = tx.db \/ db' = db
    BY <2>1, OutcomeOf
  <2>3. /\ db'.participant_producers = db.participant_producers
        /\ db'.router_meeting = db.router_meeting
    <3>1. ASSUME NEW rows, tx = RegisterConsumersTx(db, rows), db' = tx.db
          PROVE  /\ db'.participant_producers = db.participant_producers
                 /\ db'.router_meeting = db.router_meeting
      BY <1>0, <3>1, RegisterConsumersEffect, OtherRouters DEF SameRouters
    <3>2. CASE tx = DeleteConsumersTx(db, call[r].ids) /\ db' = tx.db
      BY <1>0, <3>2, CloseEffect, OtherRouters DEF SameRouters
    <3> QED
      BY <2>1, <2>2, <3>1, <3>2
  <2>4. /\ pc[r] \in {"cc_consume", "cz_delete"} /\ routers_map' = routers_map /\ SameProducers
    BY <1>8 DEF ConsumeRegister, CloseConsumerDelete, memory, recordings, SameProducers
  <2>5. Done(r) \/ Moves(r, "cc_consume", "cc_publish") \/ Moves(r, "cz_delete", "cz_close")
    BY <1>0, <1>8 DEF ConsumeRegister, CloseConsumerDelete, Moves, Proceeds, Continue, Locals
  <2> QED
    BY <1>1, <1>a, <2>3, <2>4, <2>5, PlainSole
<1> QED
  BY <1>2, <1>3, <1>4, <1>5, <1>6, <1>7, <1>8 DEF CreateConsumer, CloseConsumer

\* createMeeting's, replaceMeetings' and endMeeting's transactions: a router still belongs to
\* one meeting, and the other meetings keep their routers and producers, ...
LEMMA MeetingRows ==
  ASSUME db \in Databases, Consistent(db), Keyed(db), InPlace, OneMeetingEach, NEW m \in Meetings,
         NEW R,
         \/ db' = CreateMeetingTx(db, m, R).db
         \/ db' = ReplaceMeetingTx(db, m, R).db
         \/ db' = EndMeetingTx(db, m).db
  PROVE  /\ OneMeetingEach'
         /\ \A row \in db.participant_producers : row.m # m => row \in db'.participant_producers
         /\ \A y \in db.router_meeting : y.m # m => y \in db'.router_meeting
<1>1. ASSUME NEW d \in Databases, d.router_worker = db.router_worker,
             d.router_meeting \subseteq db.router_meeting,
             \A row \in db.participant_producers : row.m # m => row \in d.participant_producers,
             \A y \in db.router_meeting : y.m # m => y \in d.router_meeting,
             db' = Finish(db, InsertRouters(InsertMeetingStatus(Start(d), m), m, R)).db
      PROVE  /\ OneMeetingEach'
             /\ \A row \in db.participant_producers : row.m # m => row \in db'.participant_producers
             /\ \A y \in db.router_meeting : y.m # m => y \in db'.router_meeting
  <2> DEFINE rows == {[router |-> x, m |-> m] : x \in R}
  <2>1. PICK e : e = db'
    OBVIOUS
  <2>2. e = db \/ (/\ SameRows(d, e) /\ R \cap d.router_worker = {}
                   /\ e.router_meeting = d.router_meeting \cup rows)
    BY <1>1, <2>1, InsertMeetingEffect
  <2>3. CASE e = db
    BY <2>1, <2>3 DEF OneMeetingEach
  <2>4. CASE /\ SameRows(d, e) /\ R \cap d.router_worker = {}
             /\ e.router_meeting = d.router_meeting \cup rows
    <3>1. \A x, y \in rows : x.router \in R /\ (x.router = y.router => x = y)
      OBVIOUS
    <3>2. \A x \in d.router_meeting : x.router \notin R
      BY <1>1, <2>4 DEF Keyed
    <3>3. \A x, y \in d.router_meeting : x.router = y.router => x = y
      BY <1>1 DEF OneMeetingEach
    <3> HIDE DEF rows
    <3>4. \A x, y \in e.router_meeting : x.router = y.router => x = y
      BY <2>4, <3>1, <3>2, <3>3
    <3>5. e.participant_producers = d.participant_producers
      BY <2>4 DEF SameRows
    <3> QED
      BY <1>1, <2>1, <2>4, <3>4, <3>5 DEF OneMeetingEach
  <2> QED
    BY <2>2, <2>3, <2>4
<1>2. PICK f : f = DeleteMeetingStatus(db, m)
  OBVIOUS
<1>3. /\ f \in Databases /\ Departed(db, f, PresentIn(db, m), {})
      /\ f.router_worker = db.router_worker
      /\ f.router_meeting = {row \in db.router_meeting : row.m # m}
  BY <1>2, DeleteMeetingEffect, DeleteMeetingStatusType
<1>4. ASSUME NEW row \in db.participant_producers, row.m # m
      PROVE  row \in f.participant_producers
  <2>1. PICK y \in db.participant_meeting : y.p = row.p /\ y.m = row.m
    BY DEF InPlace
  <2>2. row.p \notin PresentIn(db, m)
    BY <1>4, <2>1 DEF PresentIn, Consistent
  <2> QED
    BY <1>3, <2>2 DEF Departed
<1>5. CASE db' = CreateMeetingTx(db, m, R).db
  BY <1>1, <1>5 DEF CreateMeetingTx
<1>6. CASE db' = ReplaceMeetingTx(db, m, R).db
  <2>1. db' = Finish(db, InsertRouters(InsertMeetingStatus(Start(f), m), m, R)).db
    BY <1>2, <1>6 DEF ReplaceMeetingTx
  <2> QED
    BY <1>1, <1>3, <1>4, <2>1
<1>7. CASE db' = EndMeetingTx(db, m).db
  <2>1. db' = f
    BY <1>2, <1>7 DEF EndMeetingTx, Finish, Start, NoError
  <2>2. OneMeetingEach'
    BY <1>3, <2>1 DEF OneMeetingEach
  <2> QED
    BY <1>3, <1>4, <2>1, <2>2
<1> QED
  BY <1>5, <1>6, <1>7

\* ... and a meeting that is created has none.
LEMMA CreatedIsNew ==
  ASSUME db \in Databases, Keyed(db), NEW m, NEW R, db' = CreateMeetingTx(db, m, R).db, NEW x,
         Backed(x)
  PROVE  db' = db \/ x.m # m
<1>1. PICK e : e = db'
  OBVIOUS
<1>2. e = db \/ m \notin db.meeting_status
  BY <1>1, CreateEffect
<1>3. x.m \in db.meeting_status
  BY DEF Backed, Hosted, RoutersOfMeeting, Keyed
<1> QED
  BY <1>1, <1>2, <1>3

\* createMeeting and replaceMeetings.
LEMMA MakeSole ==
  ASSUME Alone, DataOK, ControlOK, RosterInv, TransportInv, ProducerInv, SequentialInv,
         NEW r \in Requests, CreateMeeting(r) \/ ReplaceMeeting(r) \/ PublishRouters(r)
  PROVE  SequentialInv'
<1> USE DEF MeetingSteps, Unpublished, ProduceSteps, MeetingLocked, Producing, Superseding, Leaving,
            Ending, Removing, Dooming
<1>0. /\ local[r] \in Locals /\ local \in [Requests -> Locals]
      /\ StepTyped(pc[r], call[r], local[r]) /\ db \in Databases /\ Consistent(db) /\ Keyed(db)
      /\ InPlace /\ OneMeetingEach /\ NothingLeft(r)
  BY DEF ControlOK, DataOK, RosterInv, TransportInv, ProducerInv, SequentialInv, SoleInv
<1>1. CASE CreateRouters(r, "cm_routers", "cm_register")
  <2>1. Moves(r, "cm_routers", "cm_register") \/ Done(r)
    BY <1>0, <1>1 DEF CreateRouters, Moves, Proceeds, Continue, Locals
  <2>2. Ordinary("cm_routers", "cm_register") /\ Carries("cm_routers", "cm_register")
    BY DEF Ordinary, Carries
  <2> QED
    BY <1>1, <2>1, <2>2, PlainSole DEF CreateRouters, memory, recordings, SameProducers
<1>2. CASE CreateRouters(r, "rm_routers", "rm_register")
  <2>1. Moves(r, "rm_routers", "rm_register") \/ Done(r)
    BY <1>0, <1>2 DEF CreateRouters, Moves, Proceeds, Continue, Locals
  <2>2. Ordinary("rm_routers", "rm_register") /\ Carries("rm_routers", "rm_register")
    BY DEF Ordinary, Carries
  <2> QED
    BY <1>2, <2>1, <2>2, PlainSole DEF CreateRouters, memory, recordings, SameProducers
<1>3. CASE \/ RegisterRouters(r, "cm_register", CreateMeetingTx(db, call[r].m, local[r].routers))
           \/ RegisterRouters(r, "rm_register", ReplaceMeetingTx(db, call[r].m, local[r].routers))
  <2>1. PICK step, tx :
           /\ \/ step = "cm_register" /\ tx = CreateMeetingTx(db, call[r].m, local[r].routers)
              \/ step = "rm_register" /\ tx = ReplaceMeetingTx(db, call[r].m, local[r].routers)
           /\ RegisterRouters(r, step, tx)
    BY <1>3
  <2>2. /\ pc[r] = step /\ routers_map' = routers_map /\ SameProducers
        /\ Continue(r, "mk_publish", local[r]) \/ Done(r)
        /\ \E out \in Outcomes(tx) : db' = out.db
    BY <2>1 DEF RegisterRouters, memory, recordings, SameProducers
  <2>3. db' = tx.db \/ db' = db
    BY <2>2, OutcomeOf
  <2>4. call[r].m \in Meetings
    BY <1>0, <2>1, <2>2 DEF StepTyped
  <2>5. pc'[r] \in {"mk_publish", "idle"}
    BY <2>2 DEF Continue, Done, ControlOK
  <2>6. \/ db' = db
        \/ /\ OneMeetingEach'
           /\ \A row \in db.participant_producers :
                 row.m # call[r].m => row \in db'.participant_producers
           /\ \A y \in db.router_meeting : y.m # call[r].m => y \in db'.router_meeting
    BY <1>0, <2>1, <2>3, <2>4, MeetingRows
  <2>7. OneMeetingEach'
    BY <1>0, <2>6 DEF OneMeetingEach
  <2>8. ASSUME NEW x \in producer_map, Backed(x)
        PROVE  Backed(x)'
    <3>1. db' = db \/ x.m # call[r].m
      <4>1. CASE step = "cm_register"
        BY <1>0, <2>1, <2>3, <2>8, <4>1, CreatedIsNew
      <4>2. CASE step = "rm_register"
        BY <1>0, <2>2, <4>2 DEF NothingLeft
      <4> QED
        BY <2>1, <4>1, <4>2
    <3> QED
      BY <2>2, <2>6, <2>8, <3>1, StaysBacked
  <2>9. \A x : ~Doomed(r, x)
    BY <2>1, <2>2 DEF Doomed
  <2>10. SoleInv(r)'
    BY <2>5 DEF SoleInv, Assured, OwnRouters, NothingLeft, EndSteps
  <2> QED
    BY <2>1, <2>2, <2>5, <2>7, <2>8, <2>9, <2>10, TurnSole
<1>4. CASE PublishRouters(r)
  BY <1>4, PlainSole DEF PublishRouters, recordings, SameProducers
<1> QED
  BY <1>1, <1>2, <1>3, <1>4 DEF CreateMeeting, ReplaceMeeting

\* end_meeting.
LEMMA EndSole ==
  ASSUME Alone, DataOK, ControlOK, RosterInv, TransportInv, ProducerInv, SequentialInv,
         NEW r \in Requests, EndMeeting(r)
  PROVE  SequentialInv'
<1> USE DEF MeetingSteps, Unpublished, ProduceSteps, MeetingLocked, Producing, Superseding, Leaving,
            Ending, Removing, Dooming
<1>0. /\ local[r] \in Locals /\ local \in [Requests -> Locals]
      /\ StepTyped(pc[r], call[r], local[r]) /\ db \in Databases /\ Consistent(db) /\ Keyed(db)
      /\ InPlace /\ OneMeetingEach /\ SoleInv(r)
  BY DEF ControlOK, DataOK, RosterInv, TransportInv, ProducerInv, SequentialInv
<1>1. CASE EndDelete(r)
  <2>1. PICK out \in Outcomes(EndMeetingTx(db, call[r].m)) :
           /\ db' = out.db
           /\ \/ out.error = NoError /\ Continue(r, "em_routers", local[r])
              \/ out.error # NoError /\ Done(r)
    BY <1>1 DEF EndDelete
  <2>2. pc[r] = "em_delete" /\ call[r].m \in Meetings /\ routers_map' = routers_map /\ SameProducers
    BY <1>0, <1>1 DEF EndDelete, StepTyped, memory, recordings, SameProducers
  <2>3. CASE out.error # NoError /\ Done(r)
    <3>1. db' = db
      BY <2>1, <2>3 DEF Outcomes, Failed, EndMeetingTx, Finish, Start
    <3> QED
      BY <2>2, <2>3, <3>1, PlainSole
  <2>4. CASE out.error = NoError /\ Continue(r, "em_routers", local[r])
    <3>1. db' = EndMeetingTx(db, call[r].m).db
      BY <2>1, <2>4 DEF Outcomes, Failed, NoError, DriverFailure
    <3>2. pc'[r] = "em_routers" /\ call'[r] = call[r]
      BY <2>4 DEF Continue, ControlOK
    <3>3. /\ OneMeetingEach'
          /\ \A row \in db.participant_producers :
                row.m # call[r].m => row \in db'.participant_producers
          /\ \A y \in db.router_meeting : y.m # call[r].m => y \in db'.router_meeting
      BY <1>0, <2>2, <3>1, MeetingRows
    <3>4. \A x \in producer_map : Backed(x) => Backed(x)' \/ Doomed(r, x)'
      <4>1. \A x : x.m = call[r].m => Doomed(r, x)'
        BY <3>2 DEF Doomed
      <4> QED
        BY <2>2, <3>3, <4>1, StaysBacked
    <3>5. db'.router_meeting \subseteq db.router_meeting
      <4>1. db' = DeleteMeetingStatus(db, call[r].m)
        BY <3>1 DEF EndMeetingTx, Finish, Start, NoError
      <4> QED
        BY <1>0, <4>1, DeleteMeetingEffect
    <3>6. OwnRouters(r)'
      BY <1>0, <2>2, <3>2, <3>5 DEF SoleInv, OwnRouters
    <3>7. NothingLeft(r)'
      BY <1>0, <2>2, <3>2 DEF SoleInv, NothingLeft, EndSteps, SameProducers
    <3>8. SoleInv(r)'
      BY <3>2, <3>6, <3>7 DEF SoleInv, Assured
    <3>9. \A x : ~Doomed(r, x)
      BY <2>2 DEF Doomed
    <3> QED
      BY <2>2, <3>2, <3>3, <3>4, <3>8, <3>9, TurnSole
  <2> QED
    BY <2>1, <2>3, <2>4
<1>2. CASE EndRouters(r)
  <2>1. Moves(r, "em_routers", "em_transports")
    BY <1>0, <1>2 DEF EndRouters, Moves, Proceeds, Continue, Locals
  <2>2. Ordinary("em_routers", "em_transports") /\ Carries("em_routers", "em_transports")
    BY DEF Ordinary, Carries
  <2>3. /\ pc[r] = "em_routers" /\ pc'[r] = "em_transports" /\ call'[r] = call[r] /\ db' = db
        /\ routers_map' = routers_map \ call[r].ids /\ SameProducers
    BY <1>2 DEF EndRouters, Continue, ControlOK, recordings, SameProducers
  <2>4. ASSUME NEW x \in producer_map, Backed(x)
        PROVE  Backed(x)' \/ Doomed(r, x)'
    <3>1. CASE x.m = call[r].m
      BY <2>3, <3>1 DEF Doomed
    <3>2. CASE x.m # call[r].m
      <4>1. \A y \in db.router_meeting : y.m = x.m => y.router \notin call[r].ids
        BY <1>0, <2>3, <3>2 DEF SoleInv, OwnRouters
      <4> QED
        BY <2>3, <2>4, <4>1, StaysBacked
    <3> QED
      BY <3>1, <3>2
  <2>5. \A x : Doomed(r, x) => Doomed(r, x)'
    BY <2>1, <2>2, CarriedDoom
  <2>6. SoleInv(r)'
    BY <1>0, <2>1, <2>2, <2>3, CarriedRequest DEF SameProducers
  <2>7. OneMeetingEach'
    BY <1>0, <2>3 DEF OneMeetingEach
  <2> QED
    BY <2>3, <2>4, <2>5, <2>6, <2>7, TurnSole
<1>3. CASE EndTransports(r)
  <2>1. Moves(r, "em_transports", "em_consumers_read")
    BY <1>0, <1>3 DEF EndTransports, Moves, Proceeds, Continue, Locals
  <2>2. Ordinary("em_transports", "em_consumers_read") /\ Carries("em_transports", "em_consumers_read")
    BY DEF Ordinary, Carries
  <2> QED
    BY <1>3, <2>1, <2>2, PlainSole DEF EndTransports, recordings, SameProducers
<1>4. CASE EndReadConsumers(r)
  <2>1. Moves(r, "em_consumers_read", "em_consumers_close")
    BY <1>0, <1>4 DEF EndReadConsumers, Moves, Proceeds, Continue, Locals
  <2>2. Ordinary("em_consumers_read", "em_consumers_close")
        /\ Carries("em_consumers_read", "em_consumers_close")
    BY DEF Ordinary, Carries
  <2> QED
    BY <1>4, <2>1, <2>2, PlainSole DEF EndReadConsumers, memory, recordings, SameProducers
<1>5. CASE EndCloseConsumers(r)
  <2>1. Moves(r, "em_consumers_close", "em_producers_read")
    BY <1>0, <1>5 DEF EndCloseConsumers, Moves, Proceeds, Continue, Locals
  <2>2. Ordinary("em_consumers_close", "em_producers_read")
        /\ Carries("em_consumers_close", "em_producers_read")
    BY DEF Ordinary, Carries
  <2> QED
    BY <1>5, <2>1, <2>2, PlainSole DEF EndCloseConsumers, recordings, SameProducers
<1>6. CASE EndReadProducers(r)
  <2>1. /\ pc[r] = "em_producers_read" /\ pc'[r] = "em_producers_close" /\ call'[r] = call[r]
        /\ local'[r] = [local[r] EXCEPT !.producers = get_all_producers_for_meeting(call[r].m)]
        /\ db' = db /\ routers_map' = routers_map /\ SameProducers
    BY <1>0, <1>6 DEF EndReadProducers, Continue, memory, recordings, SameProducers, ControlOK
  <2>2. local'[r].producers = {x.id : x \in {y \in producer_map : y.m = call[r].m}}
    BY <1>0, <2>1 DEF Locals, get_all_producers_for_meeting
  <2>3. \A x \in producer_map : Doomed(r, x) => Doomed(r, x)'
    BY <2>1, <2>2 DEF Doomed
  <2>4. \A x \in producer_map : Backed(x) => Backed(x)'
    BY <2>1, StaysBacked
  <2>5. ~call[r].listed => \A x \in producer_map : x.m # call[r].m
    BY <1>0, <2>1 DEF SoleInv, NothingLeft, EndSteps
  <2>6. NothingLeft(r)'
    BY <2>1, <2>2, <2>5 DEF NothingLeft, SameProducers
  <2>7. SoleInv(r)'
    BY <2>1, <2>6 DEF SoleInv, Assured, OwnRouters
  <2>8. OneMeetingEach'
    BY <1>0, <2>1 DEF OneMeetingEach
  <2> QED
    BY <2>1, <2>3, <2>4, <2>7, <2>8, TurnSole
<1>7. CASE EndCloseProducers(r)
  <2>1. pc[r] = "em_producers_close" /\ Done(r) /\ pc'[r] = "idle"
    BY <1>7 DEF EndCloseProducers, Done, ControlOK
  <2>2. \A x \in producer_map : Doomed(r, x) => x.id \in local[r].producers
    BY <2>1 DEF Doomed
  <2> QED
    BY <1>7, <2>1, <2>2, DoneRequest, RemovesSole DEF EndCloseProducers
\* A removal that panics would leave recordings behind; there is none.
<1>8. CASE EndCloseProducersPanics(r)
  BY <1>0, <1>8 DEF EndCloseProducersPanics, SoleInv, NothingLeft
<1> QED
  BY <1>1, <1>2, <1>3, <1>4, <1>5, <1>6, <1>7, <1>8 DEF EndMeeting

\* A call begins, of the only request there is.
LEMMA BeginSole ==
  ASSUME Alone, ControlOK, SequentialInv, NEW r \in Requests, NEW step \in CallSteps, NEW c,
         Begin(r, step, c),
         step = "cp_lock" => c.router \in RoutersIn(db, c.m),
         step = "em_delete" =>
            /\ \A x \in db.router_meeting : x.router \in c.ids => x.m = c.m
            /\ ~c.listed => \A x \in producer_map : x.m # c.m,
         step = "rm_routers" => \A x \in producer_map : x.m # c.m
  PROVE  SequentialInv'
<1> USE DEF MeetingSteps, Unpublished, ProduceSteps, MeetingLocked, Producing, Superseding, Leaving,
            Ending, Removing, Dooming
<1>1. /\ pc[r] = "idle" /\ pc'[r] = step /\ call'[r] = c /\ db' = db
      /\ routers_map' = routers_map /\ SameProducers
  BY DEF Begin, memory, recordings, SameProducers, ControlOK
<1>2. \A x : ~Doomed(r, x)
  BY <1>1 DEF Doomed
<1>3. \A x \in producer_map : Backed(x) => Backed(x)'
  BY <1>1, StaysBacked
<1>4. OneMeetingEach'
  BY <1>1 DEF SequentialInv, OneMeetingEach
<1>5. Assured(r)'
  BY <1>1 DEF Assured, RoutersIn, CallSteps
<1>6. OwnRouters(r)'
  BY <1>1 DEF OwnRouters, CallSteps
<1>7. NothingLeft(r)'
  BY <1>1 DEF NothingLeft, EndSteps, CallSteps, SameProducers
<1>8. SoleInv(r)'
  BY <1>5, <1>6, <1>7 DEF SoleInv
<1>9. pc'[r] \notin {"cp_plain", "cp_plain_consumer"}
  BY <1>1 DEF CallSteps
<1> QED
  BY <1>1, <1>2, <1>3, <1>4, <1>8, <1>9, TurnSole

\* Every call.
LEMMA CallSole ==
  ASSUME Alone, DataOK, ControlOK, ProducerInv, SequentialInv, NEW r \in Requests, Call(r)
  PROVE  SequentialInv'
<1>0. PICK m \in Meetings :
         \/ CallCreateMeeting(r, m) \/ CallReplaceMeeting(r, m) \/ CallEndMeeting(r, m)
         \/ \E p \in Participants, i \in Instances :
               \/ \E kind \in TransportKinds : CallRecreate(r, p, m, i, kind)
               \/ CallLeave(r, p, m, i)
               \/ CallCreateProducer(r, p, m, i)
               \/ CallCloseProducer(r, p, m, i)
               \/ CallCreateConsumer(r, p, m, i)
               \/ CallCloseConsumer(r, p, m, i)
  BY DEF Call
\* While nothing is in progress every producer is recorded.
<1>1. ASSUME pc[r] = "idle", NEW x \in producer_map
      PROVE  Backed(x)
  <2>1. \A q \in Requests : ~Doomed(q, x)
    BY <1>1 DEF Alone, Doomed, Superseding, Leaving, Ending, Removing
  <2> QED
    BY <2>1 DEF SequentialInv, Accounted
<1>2. CASE CallCreateMeeting(r, m)
  BY <1>2, BeginSole DEF CallCreateMeeting, CallSteps
<1>3. CASE CallReplaceMeeting(r, m)
  <2>1. /\ ~Hosted(m) /\ pc[r] = "idle" /\ Begin(r, "rm_routers", [NoCall EXCEPT !.m = m])
    BY <1>3 DEF CallReplaceMeeting, Begin
  <2>2. \A x \in producer_map : x.m # m
    BY <1>1, <2>1 DEF Backed
  <2>3. [NoCall EXCEPT !.m = m].m = m
    BY DEF NoCall
  <2> QED
    BY <2>1, <2>2, <2>3, BeginSole DEF CallSteps
<1>4. CASE CallEndMeeting(r, m)
  <2>1. PICK c :
           /\ Begin(r, "em_delete", c) /\ c.m = m /\ c.listed = (ParticipantsOf(m) # {})
           /\ c.ids = RoutersOfMeeting(m)
                      \cup TransportsOf(db.participant_producer_transport, ParticipantsOf(m))
                      \cup TransportsOf(db.participant_consumer_transport, ParticipantsOf(m))
    <3> DEFINE ids == RoutersOfMeeting(m)
                      \cup TransportsOf(db.participant_producer_transport, ParticipantsOf(m))
                      \cup TransportsOf(db.participant_consumer_transport, ParticipantsOf(m))
               listed == ParticipantsOf(m) # {}
    <3>1. Begin(r, "em_delete", [NoCall EXCEPT !.m = m, !.ids = ids, !.listed = listed])
      BY <1>4 DEF CallEndMeeting
    <3> HIDE DEF ids, listed
    <3>2. PICK c : c = [NoCall EXCEPT !.m = m, !.ids = ids, !.listed = listed]
      OBVIOUS
    <3>3. c.m = m /\ c.ids = ids /\ c.listed = listed
      BY <3>2 DEF NoCall
    <3> QED
      BY <3>1, <3>2, <3>3 DEF ids, listed
  <2>2. pc[r] = "idle"
    BY <2>1 DEF Begin
  <2>3. ASSUME NEW x \in db.router_meeting, x.router \in c.ids
        PROVE  x.m = m
    <3>1. x.router \in Routers /\ x.router \notin Transports
      BY SfuAssumption DEF DataOK, Databases, RouterMeeting
    <3>2. \A P : /\ TransportsOf(db.participant_producer_transport, P) \subseteq Transports
                 /\ TransportsOf(db.participant_consumer_transport, P) \subseteq Transports
      BY DEF DataOK, Databases, ParticipantTransport, TransportsOf
    <3>3. x.router \in RoutersOfMeeting(m)
      BY <2>1, <2>3, <3>1, <3>2
    <3> QED
      BY <3>3 DEF RoutersOfMeeting, SequentialInv, OneMeetingEach
  <2>4. ASSUME ParticipantsOf(m) = {}, NEW x \in producer_map
        PROVE  x.m # m
    BY <1>1, <2>2, <2>4 DEF Backed, ProducerInv, InPlace, ParticipantsOf
  <2> QED
    BY <2>1, <2>3, <2>4, BeginSole DEF CallSteps
<1>5. ASSUME NEW p \in Participants, NEW i \in Instances, CallCreateProducer(r, p, m, i)
      PROVE  SequentialInv'
  <2>1. PICK kind \in Kinds, record \in Recording, router \in RoutersOfMeeting(m),
             x \in {y \in transport_map : y.p = p /\ y.m = m /\ y.kind = "producer"},
             others \in SUBSET RoutersOfMeeting(m) :
           Begin(r, "cp_lock", [NoCall EXCEPT !.p = p, !.m = m, !.i = i, !.kind = kind,
                                   !.router = router, !.t = x.id, !.record = record,
                                   !.ids = others])
    BY <1>5 DEF CallCreateProducer
  <2>2. PICK c : c = [NoCall EXCEPT !.p = p, !.m = m, !.i = i, !.kind = kind, !.router = router,
                                    !.t = x.id, !.record = record, !.ids = others]
    OBVIOUS
  <2>3. c.m = m /\ c.router = router
    BY <2>2 DEF NoCall
  <2>4. c.router \in RoutersIn(db, c.m)
    BY <2>1, <2>3 DEF RoutersIn, RoutersOfMeeting
  <2>5. Begin(r, "cp_lock", c)
    BY <2>1, <2>2
  <2> QED
    BY <2>4, <2>5, BeginSole DEF CallSteps
<1>6. ASSUME NEW p \in Participants, NEW i \in Instances,
             \/ \E kind \in TransportKinds : CallRecreate(r, p, m, i, kind)
             \/ CallLeave(r, p, m, i) \/ CallCloseProducer(r, p, m, i)
             \/ CallCreateConsumer(r, p, m, i) \/ CallCloseConsumer(r, p, m, i)
      PROVE  SequentialInv'
  <2>1. PICK step, c : /\ step \in {"rt_lock", "lv_delete", "cl_delete", "cc_transport", "cz_delete"}
                       /\ Begin(r, step, c)
    <3>1. ASSUME NEW kind, CallRecreate(r, p, m, i, kind)
          PROVE  \E c : Begin(r, "rt_lock", c)
      BY <3>1, Zenon DEF CallRecreate
    <3>2. ASSUME CallLeave(r, p, m, i)
          PROVE  \E c : Begin(r, "lv_delete", c)
      BY <3>2, Zenon DEF CallLeave
    <3>3. ASSUME CallCloseProducer(r, p, m, i)
          PROVE  \E c : Begin(r, "cl_delete", c)
      BY <3>3, Zenon DEF CallCloseProducer
    <3>4. ASSUME CallCreateConsumer(r, p, m, i)
          PROVE  \E c : Begin(r, "cc_transport", c)
      BY <3>4, Zenon DEF CallCreateConsumer
    <3>5. ASSUME CallCloseConsumer(r, p, m, i)
          PROVE  \E c : Begin(r, "cz_delete", c)
      BY <3>5, Zenon DEF CallCloseConsumer
    <3> QED
      BY <1>6, <3>1, <3>2, <3>3, <3>4, <3>5
  <2>2. step \in CallSteps
    BY <2>1 DEF CallSteps
  <2> QED
    BY <2>1, <2>2, BeginSole
<1> QED
  BY <1>0, <1>2, <1>3, <1>4, <1>5, <1>6

\* The invariant is inductive.
LEMMA NextSole ==
  ASSUME Alone, DataOK, ControlOK, RosterInv, TransportInv, ProducerInv, SequentialInv, [Next]_vars
  PROVE  SequentialInv'
<1>1. CASE UNCHANGED vars
  <2>1. /\ db' = db /\ routers_map' = routers_map /\ SameProducers
        /\ pc' = pc /\ call' = call /\ local' = local
    BY <1>1 DEF vars, memory, recordings, SameProducers
  <2>2. Accounted' /\ OneMeetingEach' /\ RecordingsKept'
    BY <2>1 DEF SequentialInv, SameProducers, Accounted, Backed, Hosted, RoutersOfMeeting, Doomed,
                OneMeetingEach, RecordingsKept, InProducerMap
  <2>3. \A r \in Requests : SoleInv(r)'
    BY <2>1 DEF SequentialInv, SameProducers, SoleInv, Assured, RoutersIn, OwnRouters, NothingLeft
  <2> QED
    BY <2>2, <2>3 DEF SequentialInv
<1>2. CASE Restart
  <2>1. /\ db' = db /\ producer_map' = {} /\ plain_transport_map' = {}
        /\ plain_transport_consumer_map' = {} /\ \A r \in Requests : pc'[r] = "idle"
    BY <1>2 DEF Restart
  <2>2. Accounted' /\ OneMeetingEach' /\ RecordingsKept'
    BY <2>1 DEF SequentialInv, Accounted, OneMeetingEach, RecordingsKept
  <2>3. \A r \in Requests : SoleInv(r)'
    BY <2>1 DEF SoleInv, Assured, OwnRouters, NothingLeft, ProduceSteps, MeetingLocked, Producing,
                EndSteps, Ending
  <2> QED
    BY <2>2, <2>3 DEF SequentialInv
<1>3. ASSUME NEW r \in Requests, Step(r)
      PROVE  SequentialInv'
  BY <1>3, MakeSole, EndSole, RecreateSole, LeaveSole, ProduceSole, CloseProducerSole, ConsumeSole
     DEF Step
<1> QED
  BY <1>1, <1>2, <1>3, CallSole DEF Next

\* It holds of the empty database.
LEMMA InitSole ==
  ASSUME Init
  PROVE  SequentialInv
<1>1. /\ db.router_meeting = {} /\ producer_map = {} /\ plain_transport_map = {}
      /\ plain_transport_consumer_map = {} /\ \A r \in Requests : pc[r] = "idle"
  BY DEF Init, EmptyDatabase
<1>2. Accounted /\ OneMeetingEach /\ RecordingsKept
  BY <1>1 DEF Accounted, OneMeetingEach, RecordingsKept
<1>3. \A r \in Requests : SoleInv(r)
  BY <1>1 DEF SoleInv, Assured, OwnRouters, NothingLeft, ProduceSteps, MeetingLocked, Producing,
              EndSteps, Ending
<1> QED
  BY <1>2, <1>3 DEF SequentialInv

\* Both invariants, of one request at a time.
LEMMA OneAtATime ==
  ASSUME Alone
  PROVE  Spec => [](RosterInv /\ TransportInv /\ ProducerInv /\ SequentialInv)
<1>1. Init => RosterInv /\ TransportInv /\ ProducerInv /\ SequentialInv
  BY InitRoster, InitTransport, InitProducer, InitSole
<1>2. IInv /\ RosterInv /\ TransportInv /\ ProducerInv /\ SequentialInv /\ [Next]_vars
         => RosterInv' /\ TransportInv' /\ ProducerInv' /\ SequentialInv'
  BY NextRoster, NextTransport, NextProducer, NextSole DEF IInv
<1> QED
  BY <1>1, <1>2, Invariance, PTL DEF Spec

\* While no request is in progress, producer_map holds exactly the recorded producers of the
\* meetings this process serves: for every set of meetings, participants, instances and
\* identifiers, any length of calls one after the other, and every fault and loss of the
\* process between or within them.
THEOREM MemoryAgrees ==
  ASSUME Alone
  PROVE  Spec => []ProducersAgree
<1>1. RosterInv /\ TransportInv /\ ProducerInv /\ SequentialInv => ProducersAgree
  <2> SUFFICES ASSUME RosterInv, TransportInv, ProducerInv, SequentialInv, Quiescent
               PROVE  {x.id : x \in {y \in producer_map : Hosted(y.m)}} =
                      {row.id : row \in {y \in db.participant_producers : Hosted(y.m)}}
    BY DEF ProducersAgree
  <2>1. \A r \in Requests : pc[r] = "idle"
    BY DEF Quiescent, Busy
  <2>2. \A x \in producer_map : Backed(x)
    BY <2>1 DEF SequentialInv, Accounted, Doomed, Superseding, Leaving, Ending, Removing
  <2>3. \A row \in db.participant_producers : Hosted(row.m) =>
           \E x \in producer_map : x.id = row.id
    BY <2>1, LiveIsLive DEF RecordedProducerIsLive, AboutToPublish
  <2> QED
    BY <2>2, <2>3 DEF Backed
<1> QED
  BY <1>1, OneAtATime, PTL

\* While no request is in progress, the recordings kept are complete and of producers in
\* memory: a close, a leave, a take-over or the end of a meeting stops the recordings of the
\* producers it removes, and the removal that panics has nothing to remove.
THEOREM RecordingsFollow ==
  ASSUME Alone
  PROVE  Spec => []RecordingsFollowProducers
<1>1. SequentialInv => RecordingsFollowProducers
  <2> SUFFICES ASSUME SequentialInv, Quiescent
               PROVE  /\ plain_transport_map = plain_transport_consumer_map
                      /\ plain_transport_map \subseteq {x.id : x \in producer_map}
    BY DEF RecordingsFollowProducers
  <2>1. \A r \in Requests : pc[r] = "idle"
    BY DEF Quiescent, Busy
  <2> QED
    BY <2>1 DEF SequentialInv, RecordingsKept, InProducerMap
<1> QED
  BY <1>1, OneAtATime, PTL

-----------------------------------------------------------------------------
(* One request at a time: the recorded consumers are in memory *)

InConsumerMap(id) == \E x \in consumer_map : x.id = id

\* A create_consumer has committed the row of this consumer and is about to insert it.
AboutToInsert(id) ==
    \E r \in Requests : pc[r] = "cc_publish" /\ \E x \in local[r].made : x.id = id

\* Consumer x is the one of row, of the very instance that is in the meeting.
Serves(x, row) ==
    x.p = row.p /\ x.target = row.target /\ Presence(x) \in db.participant_meeting

\* What x consumes, or is asked to consume, is a producer of its target.
Aimed(x) == \A y \in producer_map : y.id = x.producer => y.p = x.target

\* A recorded consumer is in memory, but for those whose transport the process never had,
\* or has lost; it is of the meeting its participant is in.
Subscribed ==
    \A row \in db.participant_consumers :
       /\ InConsumerMap(row.id) \/ AboutToInsert(row.id) \/ ~InMemory(row.t)
       /\ \E y \in db.participant_meeting : y.p = row.p /\ y.m = row.m
       /\ \A x \in consumer_map : x.id = row.id => Serves(x, row)

\* A create_consumer is of an instance that is in the meeting, and what it has made is in
\* no map and, until it is about to insert it, in no table.
Consumes(r) ==
    pc[r] \in ConsumeSteps =>
       /\ Presence(call[r]) \in db.participant_meeting
       /\ \A w \in call[r].want : Aimed(w)
       /\ pc[r] = "cc_transport" => local[r].made = {}
       /\ pc[r] # "cc_transport" => \A w \in local[r].want : Aimed(w)
       /\ \A x \in local[r].made :
             /\ Presence(x) = Presence(call[r]) /\ Aimed(x) /\ ~InConsumerMap(x.id)
             /\ \A y \in local[r].made : y.id = x.id => y = x
             /\ \A row \in db.participant_consumers :
                   row.id = x.id => pc[r] = "cc_publish" /\ Serves(x, row)

\* Nobody consumes a producer that is not in producer_map yet.
Unconsumed(r) ==
    pc[r] \in Unpublished => \A x \in consumer_map : x.producer # local[r].producer

Untargeted(p) == \A row \in db.participant_consumers : row.target # p

\* A take-over that finds producers of another instance, and a leave, have deleted the rows
\* of whoever consumes them.
Retracts(r) ==
    /\ pc[r] \in Superseding =>
          \A y \in producer_map :
             y.p = call[r].p /\ y.m = call[r].m /\ y.i # call[r].i => Untargeted(call[r].p)
    /\ pc[r] = "rt_dependents_read" /\ local[r].producers # {} => Untargeted(call[r].p)
    /\ pc[r] \in LeaveSteps \ {"lv_delete"} => Untargeted(call[r].p)
    /\ pc[r] \in {"rt_dependents_read", "lv_producers_close", "lv_dependents_read"} =>
          \A x \in consumer_map : x.producer \in local[r].producers => x.target = call[r].p

\* What is removed from memory is not recorded.
Discards(r) ==
    \A row \in db.participant_consumers :
       /\ pc[r] \in {"rt_own_close", "lv_own_close", "em_consumers_close"} =>
             row.id \notin local[r].consumers
       /\ pc[r] \in {"rt_producers_close", "rt_dependents_close", "lv_dependents_close"} =>
             row.id \notin local[r].dependents
       /\ pc[r] = "cz_close" => row.id \notin call[r].ids

ViewerInv(r) == Consumes(r) /\ Unconsumed(r) /\ Retracts(r) /\ Discards(r)

SubscriptionInv ==
    /\ Subscribed
    /\ \A x \in consumer_map : Aimed(x)
    /\ \A r \in Requests : ViewerInv(r)

\* The rows of consumers that are left belong to participants who stay where they are.
RowsStay ==
    \A row \in db'.participant_consumers : row \in db.participant_consumers /\ OwnerStays(row)

\* No transaction but create_consumer's records a consumer, and one that makes a participant
\* depart, or move, deletes his consumers.
LEMMA TransactionStays ==
  ASSUME db \in Databases, Consistent(db), NEW p, NEW m \in Meetings,
         NEW i, NEW kind, NEW router, NEW t, NEW row, NEW ids, NEW R,
         \/ SameRows(db, db')
         \/ db' = CreateMeetingTx(db, m, R).db
         \/ db' = ReplaceMeetingTx(db, m, R).db
         \/ db' = EndMeetingTx(db, m).db
         \/ p \in Participants /\ i \in Instances /\ db' = LeaveTx(db, p, m, i).db
         \/ p \in Participants /\ i \in Instances /\ db' = JoinTx(db, p, m, i, kind, router).db
         \/ db' = RegisterTransportTx(db, p, kind, t).db
         \/ db' = RegisterProducerTx(db, row).db
         \/ db' = DeleteProducersTx(db, p, ids).db
         \/ db' = DeleteConsumersTx(db, ids).db
  PROVE  RowsStay
<1>1. PICK e, new : e = db' /\ new = [p |-> p, m |-> m, i |-> i]
  OBVIOUS
<1>2. CASE SameRows(db, e)
  BY <1>1, <1>2 DEF SameRows, RowsStay, OwnerStays
<1>3. ASSUME NEW P, NEW New, Departed(db, e, P, New)
      PROVE  RowsStay
  BY <1>1, <1>3 DEF Departed, RowsStay, OwnerStays
<1>4. CASE SameParticipants(db, e) /\ e.participant_consumers \subseteq db.participant_consumers
  BY <1>1, <1>4 DEF SameParticipants, RowsStay, OwnerStays
<1>5. CASE e = CreateMeetingTx(db, m, R).db
  <2>1. e = db \/ SameRows(db, e)
    BY <1>5, CreateEffect
  <2> QED
    BY <1>2, <2>1 DEF SameRows
<1>6. CASE e = ReplaceMeetingTx(db, m, R).db
  <2>1. e = db \/ Departed(db, e, PresentIn(db, m), {})
    BY <1>6, ReplaceEffect
  <2> QED
    BY <1>2, <1>3, <2>1 DEF SameRows
<1>7. CASE e = EndMeetingTx(db, m).db
  BY <1>3, <1>7, EndEffect
<1>8. CASE p \in Participants /\ i \in Instances /\ db' = LeaveTx(db, p, m, i).db
  <2>1. SameRows(db, db') \/ Departed(db, db', {p}, {})
    BY <1>8, LeaveEffect
  <2> QED
    BY <1>1, <1>2, <1>3, <2>1
<1>9. CASE p \in Participants /\ i \in Instances /\ e = JoinTx(db, p, m, i, kind, router).db
  <2>1. SameRows(db, e) \/ Departed(db, e, {p}, {new})
    BY <1>1, <1>9, JoinEffect
  <2> QED
    BY <1>2, <1>3, <2>1
<1>10. CASE e = RegisterTransportTx(db, p, kind, t).db
  <2>1. /\ e.participant_meeting = db.participant_meeting
        /\ e.participant_consumers = db.participant_consumers
    BY <1>10, RegisterTransportEffect
  <2> QED
    BY <1>1, <2>1 DEF RowsStay, OwnerStays
<1>11. CASE e = RegisterProducerTx(db, row).db
  <2>1. SameParticipants(db, e) /\ e.participant_consumers = db.participant_consumers
    BY <1>11, RegisterProducerEffect
  <2> QED
    BY <1>4, <2>1
<1>12. CASE e = DeleteProducersTx(db, p, ids).db \/ e = DeleteConsumersTx(db, ids).db
  <2>1. SameParticipants(db, e) /\ e.participant_consumers \subseteq db.participant_consumers
    BY <1>12, CloseEffect
  <2> QED
    BY <1>4, <2>1
<1> QED
  BY <1>1, <1>2, <1>5, <1>6, <1>7, <1>8, <1>9, <1>10, <1>11, <1>12

\* A transport in memory after the step was there before, if a consumer is recorded on it.
LEMMA SubscribedTransports ==
  ASSUME Before, NEW r \in Requests, CalmStep(r), NEW row \in db.participant_consumers,
         InMemory(row.t)'
  PROVE  InMemory(row.t)
<1>1. PICK x \in db.participant_consumer_transport : x.t = row.t
  BY DEF Before, Consistent
<1>2. CASE \E y \in transport_map' : y.id = row.t
  BY <1>2 DEF CalmStep, MapsCalm, InMemory
<1>3. ASSUME NEW q \in Requests, pc'[q] = "rt_publish", local'[q].transport = row.t
      PROVE  InMemory(row.t)
  <2>1. CASE q = r
    <3>1. pc[r] = "rt_register" /\ local[r].transport = row.t
      BY <1>3, <2>1 DEF CalmStep, GoesCalmly
    <3> QED
      BY <1>1, <3>1 DEF Before, Unshared, TransportRows
  <2>2. CASE q # r
    BY <1>3, <2>2 DEF CalmStep, OthersWait, InMemory
  <2> QED
    BY <2>1, <2>2
<1> QED
  BY <1>2, <1>3 DEF InMemory

\* A producer that is inserted is one nobody consumes.
LEMMA StaysAimed ==
  ASSUME NEW r \in Requests, CalmStep(r), NEW x, Aimed(x),
         pc[r] = "cp_publish" => x.producer # local[r].producer
  PROVE  Aimed(x)'
  BY DEF CalmStep, MapsCalm, Aimed

\* A step that neither records nor inserts consumers, and removes from memory those that
\* are not recorded.
LEMMA StaysSubscribed ==
  ASSUME Alone, Before, SubscriptionInv, NEW r \in Requests, CalmStep(r), pc[r] # "cc_publish",
         RowsStay, consumer_map' \subseteq consumer_map,
         \A x \in consumer_map :
            x \in consumer_map' \/ \A row \in db'.participant_consumers : row.id # x.id,
         ViewerInv(r)'
  PROVE  SubscriptionInv'
<1>0. Subscribed /\ ViewerInv(r) /\ \A q \in Requests : q = r
  BY DEF SubscriptionInv, Alone
<1>1. ASSUME NEW row \in db'.participant_consumers
      PROVE  /\ InConsumerMap(row.id)' \/ ~InMemory(row.t)'
             /\ \E y \in db'.participant_meeting : y.p = row.p /\ y.m = row.m
             /\ \A x \in consumer_map' : x.id = row.id => Serves(x, row)'
  <2>1. row \in db.participant_consumers /\ OwnerStays(row)
    BY DEF RowsStay
  <2>2. InConsumerMap(row.id) \/ ~InMemory(row.t)
    BY <1>0, <2>1 DEF Subscribed, AboutToInsert
  <2>3. InConsumerMap(row.id)' \/ ~InMemory(row.t)'
    <3>1. CASE InConsumerMap(row.id)
      BY <3>1 DEF InConsumerMap
    <3>2. CASE ~InMemory(row.t)
      BY <2>1, <3>2, SubscribedTransports
    <3> QED
      BY <2>2, <3>1, <3>2
  <2>4. \E y \in db'.participant_meeting : y.p = row.p /\ y.m = row.m
    BY <1>0, <2>1 DEF Subscribed, OwnerStays
  <2>5. ASSUME NEW x \in consumer_map', x.id = row.id
        PROVE  Serves(x, row)'
    <3>1. Serves(x, row)
      BY <1>0, <2>1, <2>5 DEF Subscribed
    <3> QED
      BY <2>1, <3>1 DEF Serves, OwnerStays, Presence
  <2> QED
    BY <2>3, <2>4, <2>5
<1>2. Subscribed'
  BY <1>1 DEF Subscribed
<1>3. ASSUME NEW x \in consumer_map'
      PROVE  Aimed(x)'
  <2>1. Aimed(x) /\ (pc[r] = "cp_publish" => x.producer # local[r].producer)
    BY <1>0 DEF SubscriptionInv, ViewerInv, Unconsumed, Unpublished
  <2> QED
    BY <2>1, StaysAimed
<1>4. \A q \in Requests : ViewerInv(q)'
  BY <1>0
<1> QED
  BY <1>2, <1>3, <1>4 DEF SubscriptionInv

\* The steps before which a request relies on something about consumers.
Watched ==
    ConsumeSteps \cup Unpublished \cup Superseding \cup (LeaveSteps \ {"lv_delete"})
    \cup {"rt_dependents_read", "rt_producers_close", "rt_dependents_close", "em_consumers_close",
          "cz_close"}

\* Elsewhere it relies on nothing.
LEMMA Unwatched ==
  ASSUME NEW r \in Requests, pc'[r] \notin Watched
  PROVE  ViewerInv(r)'
  BY DEF ViewerInv, Consumes, Unconsumed, Retracts, Discards, Watched, Superseding, LeaveSteps

\* A step without a transaction that leaves consumer_map alone.
LEMMA PlainSubscribed ==
  ASSUME Alone, Before, SubscriptionInv, NEW r \in Requests, CalmStep(r), pc[r] # "cc_publish",
         db' = db, consumer_map' = consumer_map, ViewerInv(r)'
  PROVE  SubscriptionInv'
<1>1. RowsStay
  BY DEF RowsStay, OwnerStays
<1> QED
  BY <1>1, StaysSubscribed

\* A removal of consumers that are not recorded.
LEMMA RemovesSubscribed ==
  ASSUME Alone, Before, SubscriptionInv, NEW r \in Requests, CalmStep(r), pc[r] # "cc_publish",
         db' = db, NEW ids, NEW m, close_all_consumers_in_memory(ids, m),
         \A row \in db.participant_consumers : row.id \notin ids, ViewerInv(r)'
  PROVE  SubscriptionInv'
<1>1. RowsStay
  BY DEF RowsStay, OwnerStays
<1>2. consumer_map' \subseteq consumer_map /\ \A x \in consumer_map : x \in consumer_map' \/ x.id \in ids
  BY DEF close_all_consumers_in_memory, Shard
<1> QED
  BY <1>1, <1>2, StaysSubscribed

\* All that is known of one request at a time.
Settled ==
    /\ Alone /\ DataOK /\ ControlOK /\ RosterInv /\ TransportInv /\ ProducerInv /\ SequentialInv
    /\ SubscriptionInv

\* What the handlers are shown from.
LEMMA SettledStep ==
  ASSUME Settled, NEW r \in Requests, Step(r)
  PROVE  /\ Alone /\ Before /\ SubscriptionInv /\ Subscribed /\ CalmStep(r)
         /\ local[r] \in Locals /\ local \in [Requests -> Locals] /\ pc \in [Requests -> Steps]
         /\ StepTyped(pc[r], call[r], local[r]) /\ TeardownInv(r) /\ ViewerInv(r)
         /\ db \in Databases /\ Consistent(db) /\ Keyed(db)
<1>1. DataOK /\ ControlOK /\ RosterInv /\ TransportInv /\ ProducerInv /\ SubscriptionInv /\ Alone
  BY DEF Settled
<1>2. CalmStep(r)
  BY <1>1, StepCalm
<1> QED
  BY <1>1, <1>2 DEF Before, ControlOK, DataOK, RosterInv, RequestInv, TransportInv, ProducerInv,
                    SubscriptionInv

\* The consumers of whoever is not in the meeting are not recorded.
LEMMA AbsentUnrecorded ==
  ASSUME Subscribed, NEW x \in consumer_map, Presence(x) \notin db.participant_meeting,
         NEW row \in db.participant_consumers
  PROVE  row.id # x.id
  BY DEF Subscribed, Serves

\* leave_meeting.
LEMMA LeaveSubscribed ==
  ASSUME Settled, NEW r \in Requests, LeaveMeeting(r)
  PROVE  SubscriptionInv'
<1> USE DEF Superseding, Unpublished, LeaveSteps, ConsumeSteps, Watched
<1>0. /\ Alone /\ Before /\ SubscriptionInv /\ Subscribed /\ CalmStep(r)
      /\ local[r] \in Locals /\ local \in [Requests -> Locals] /\ pc \in [Requests -> Steps]
      /\ StepTyped(pc[r], call[r], local[r]) /\ TeardownInv(r) /\ ViewerInv(r)
      /\ db \in Databases /\ Consistent(db)
  BY SettledStep DEF Step
<1>1. CASE LeaveDelete(r)
  <2>1. /\ call[r].p \in Participants /\ call[r].m \in Meetings /\ call[r].i \in Instances
        /\ pc[r] = "lv_delete" /\ consumer_map' = consumer_map
    BY <1>0, <1>1 DEF LeaveDelete, StepTyped, memory
  <2>2. PICK out \in Outcomes(LeaveTx(db, call[r].p, call[r].m, call[r].i)) :
           /\ db' = out.db
           /\ \/ /\ Presence(call[r]) \in db.participant_meeting
                 /\ Continue(r, "lv_transports", local[r])
              \/ Done(r)
    BY <1>1 DEF LeaveDelete, LeaveAffectsRows, Presence
  <2>3. db' = LeaveTx(db, call[r].p, call[r].m, call[r].i).db \/ db' = db
    BY <2>2, OutcomeOf
  <2>4. RowsStay
    BY <1>0, <2>1, <2>3, TransactionStays DEF SameRows
  <2>5. CASE Done(r)
    <3>1. pc'[r] = "idle"
      BY <1>0, <2>5 DEF Done
    <3> QED
      BY <1>0, <2>1, <2>4, <3>1, Unwatched, StaysSubscribed
  <2>6. CASE Presence(call[r]) \in db.participant_meeting /\ Continue(r, "lv_transports", local[r])
    <3>1. pc'[r] = "lv_transports" /\ call'[r] = call[r]
      BY <1>0, <2>6 DEF Continue
    <3>2. Presence(call[r]) \notin db'.participant_meeting
      BY <1>0, <2>1, <3>1 DEF CalmStep, GoesCalmly, Leaving
    <3>3. Departed(db, db', {call[r].p}, {})
      BY <1>0, <2>1, <2>3, <2>6, <3>2, LeaveEffect DEF SameRows
    <3>4. Untargeted(call[r].p)'
      BY <3>1, <3>3 DEF Departed, Untargeted
    <3>5. ViewerInv(r)'
      BY <3>1, <3>4 DEF ViewerInv, Consumes, Unconsumed, Retracts, Discards
    <3> QED
      BY <1>0, <2>1, <2>4, <3>5, StaysSubscribed
  <2> QED
    BY <2>2, <2>5, <2>6
<1>2. CASE LeaveTransports(r)
  <2>1. /\ pc[r] = "lv_transports" /\ pc'[r] = "lv_own_read" /\ call'[r] = call[r]
        /\ db' = db /\ consumer_map' = consumer_map
    BY <1>0, <1>2 DEF LeaveTransports, Continue
  <2>2. ViewerInv(r)'
    BY <1>0, <2>1 DEF ViewerInv, Consumes, Unconsumed, Retracts, Discards, Untargeted
  <2> QED
    BY <1>0, <2>1, <2>2, PlainSubscribed
<1>3. CASE LeaveReadOwn(r)
  <2>1. /\ pc[r] = "lv_own_read" /\ pc'[r] = "lv_own_close" /\ call'[r] = call[r]
        /\ db' = db /\ consumer_map' = consumer_map
        /\ local'[r] = [local[r] EXCEPT !.consumers =
              get_participant_consumers_for_instance_in_meeting(call[r].p, call[r].m, call[r].i)]
    BY <1>0, <1>3 DEF LeaveReadOwn, Continue, memory
  <2>2. \A id \in local'[r].consumers :
           \E x \in consumer_map : x.id = id /\ Presence(x) = Presence(call[r])
    BY <1>0, <2>1 DEF Locals, get_participant_consumers_for_instance_in_meeting, Shard, Presence
  <2>3. Presence(call[r]) \notin db.participant_meeting
    BY <1>0, <2>1 DEF TeardownInv, StaysAway, Leaving
  <2>4. \A row \in db.participant_consumers : row.id \notin local'[r].consumers
    BY <1>0, <2>2, <2>3, AbsentUnrecorded
  <2>5. ViewerInv(r)'
    BY <1>0, <2>1, <2>4 DEF ViewerInv, Consumes, Unconsumed, Retracts, Discards, Untargeted
  <2> QED
    BY <1>0, <2>1, <2>5, PlainSubscribed
<1>4. CASE LeaveCloseOwn(r)
  <2>1. /\ pc[r] = "lv_own_close" /\ pc'[r] = "lv_producers_read" /\ call'[r] = call[r] /\ db' = db
        /\ close_all_consumers_in_memory(local[r].consumers, call[r].m)
    BY <1>0, <1>4 DEF LeaveCloseOwn, Continue
  <2>2. \A row \in db.participant_consumers : row.id \notin local[r].consumers
    BY <1>0, <2>1 DEF ViewerInv, Discards
  <2>3. ViewerInv(r)'
    BY <1>0, <2>1 DEF ViewerInv, Consumes, Unconsumed, Retracts, Discards, Untargeted
  <2> QED
    BY <1>0, <2>1, <2>2, <2>3, RemovesSubscribed
<1>5. CASE LeaveReadProducers(r)
  <2>1. /\ pc[r] = "lv_producers_read" /\ pc'[r] = "lv_producers_close" /\ call'[r] = call[r]
        /\ db' = db /\ consumer_map' = consumer_map
        /\ local'[r] = [local[r] EXCEPT !.producers =
              get_participant_producers_for_instance_in_meeting(call[r].p, call[r].m, call[r].i)]
    BY <1>0, <1>5 DEF LeaveReadProducers, Continue, memory
  <2>2. \A id \in local'[r].producers : \E y \in producer_map : y.id = id /\ y.p = call[r].p
    BY <1>0, <2>1 DEF Locals, get_participant_producers_for_instance_in_meeting
  <2>3. \A x \in consumer_map : x.producer \in local'[r].producers => x.target = call[r].p
    BY <1>0, <2>2 DEF SubscriptionInv, Aimed
  <2>4. ViewerInv(r)'
    BY <1>0, <2>1, <2>3 DEF ViewerInv, Consumes, Unconsumed, Retracts, Discards, Untargeted
  <2> QED
    BY <1>0, <2>1, <2>4, PlainSubscribed
<1>6. CASE LeaveCloseProducers(r)
  <2>1. /\ pc[r] = "lv_producers_close" /\ pc'[r] = "lv_dependents_read" /\ call'[r] = call[r]
        /\ db' = db /\ consumer_map' = consumer_map /\ local'[r] = local[r]
    BY <1>0, <1>6 DEF LeaveCloseProducers, Continue
  <2>2. ViewerInv(r)'
    BY <1>0, <2>1 DEF ViewerInv, Consumes, Unconsumed, Retracts, Discards, Untargeted
  <2> QED
    BY <1>0, <2>1, <2>2, PlainSubscribed
<1>7. CASE LeaveReadDependents(r)
  <2>1. pc[r] = "lv_dependents_read" /\ db' = db /\ consumer_map' = consumer_map
    BY <1>7 DEF LeaveReadDependents, memory
  <2>2. CASE Done(r)
    <3>1. pc'[r] = "idle"
      BY <1>0, <2>2 DEF Done
    <3> QED
      BY <1>0, <2>1, <3>1, Unwatched, PlainSubscribed
  <2>3. CASE Continue(r, "lv_dependents_close",
                      [local[r] EXCEPT !.dependents =
                           get_consumers_for_producer_ids(local[r].producers, call[r].m)])
    <3>1. /\ pc'[r] = "lv_dependents_close" /\ call'[r] = call[r]
          /\ local'[r] = [local[r] EXCEPT !.dependents =
                get_consumers_for_producer_ids(local[r].producers, call[r].m)]
      BY <1>0, <2>3 DEF Continue
    <3>2. \A id \in local'[r].dependents :
             \E x \in consumer_map : x.id = id /\ x.target = call[r].p
      BY <1>0, <2>1, <3>1 DEF Locals, get_consumers_for_producer_ids, Shard, ViewerInv, Retracts
    <3>3. Untargeted(call[r].p)
      BY <1>0, <2>1 DEF ViewerInv, Retracts
    <3>4. \A row \in db.participant_consumers : row.id \notin local'[r].dependents
      BY <1>0, <3>2, <3>3 DEF Subscribed, Serves, Untargeted
    <3>5. ViewerInv(r)'
      BY <1>0, <2>1, <3>1, <3>3, <3>4
         DEF ViewerInv, Consumes, Unconsumed, Retracts, Discards, Untargeted
    <3> QED
      BY <1>0, <2>1, <3>5, PlainSubscribed
  <2> QED
    BY <1>7, <2>2, <2>3 DEF LeaveReadDependents
<1>8. CASE LeaveCloseDependents(r)
  <2>1. /\ pc[r] = "lv_dependents_close" /\ pc'[r] = "idle" /\ db' = db
        /\ close_all_consumers_in_memory(local[r].dependents, call[r].m)
    BY <1>0, <1>8 DEF LeaveCloseDependents, Done
  <2>2. \A row \in db.participant_consumers : row.id \notin local[r].dependents
    BY <1>0, <2>1 DEF ViewerInv, Discards
  <2> QED
    BY <1>0, <2>1, <2>2, Unwatched, RemovesSubscribed
<1> QED
  BY <1>1, <1>2, <1>3, <1>4, <1>5, <1>6, <1>7, <1>8 DEF LeaveMeeting

\* A join that changes the tables leaves no row of whoever consumes the participant.
LEMMA JoinRetracts ==
  ASSUME db \in Databases, Consistent(db), NEW p \in Participants, NEW m \in Meetings,
         NEW i \in Instances, NEW kind, NEW router,
         db' = JoinTx(db, p, m, i, kind, router).db
  PROVE  SameRows(db, db') \/ \A row \in db'.participant_consumers : row.target # p
<1>1. PICK e, new : e = db' /\ new = [p |-> p, m |-> m, i |-> i]
  OBVIOUS
<1>2. SameRows(db, e) \/ Departed(db, e, {p}, {new})
  BY <1>1, JoinEffect
<1> QED
  BY <1>1, <1>2 DEF Departed

\* The recreate helpers join: whoever consumed the instance that is superseded has lost his
\* rows, ...
LEMMA JoinSubscribed ==
  ASSUME Settled, NEW r \in Requests, RecreateJoin(r)
  PROVE  SubscriptionInv'
<1> USE DEF Superseding, Unpublished, LeaveSteps, ConsumeSteps, Watched
<1>0. /\ Alone /\ Before /\ SubscriptionInv /\ CalmStep(r)
      /\ local[r] \in Locals /\ local \in [Requests -> Locals] /\ pc \in [Requests -> Steps]
      /\ StepTyped(pc[r], call[r], local[r]) /\ db \in Databases /\ Consistent(db)
  BY SettledStep DEF Step, RecreateTransport
<1>1. /\ call[r].p \in Participants /\ call[r].m \in Meetings /\ call[r].i \in Instances
      /\ pc[r] = "rt_join" /\ consumer_map' = consumer_map /\ producer_map' = producer_map
  BY <1>0 DEF RecreateJoin, StepTyped, RecreateSteps, ParticipantLocked, memory
<1>2. PICK tx : tx = JoinTx(db, call[r].p, call[r].m, call[r].i, call[r].kind, call[r].router)
  OBVIOUS
<1>3. PICK out \in Outcomes(tx) :
         db' = out.db /\ (Done(r) \/ \E vals : Continue(r, "rt_own_read", vals))
  BY <1>2 DEF RecreateJoin
<1>4. db' = tx.db \/ db' = db
  BY <1>3, OutcomeOf
<1>5. RowsStay
  BY <1>0, <1>1, <1>2, <1>4, TransactionStays DEF SameRows
<1>6. CASE Done(r)
  <2>1. pc'[r] = "idle"
    BY <1>0, <1>6 DEF Done
  <2> QED
    BY <1>0, <1>1, <1>5, <2>1, Unwatched, StaysSubscribed
<1>7. ASSUME NEW vals, Continue(r, "rt_own_read", vals)
      PROVE  SubscriptionInv'
  <2>1. pc'[r] = "rt_own_read" /\ call'[r] = call[r]
    BY <1>0, <1>7 DEF Continue
  <2>2. \A z \in db'.participant_meeting : z.p = call[r].p /\ z.m = call[r].m => z.i = call[r].i
    BY <1>0, <1>1, <2>1 DEF CalmStep, GoesCalmly
  <2>3. ASSUME NEW y \in producer_map, y.p = call[r].p, y.m = call[r].m, y.i # call[r].i
        PROVE  Untargeted(call[r].p)'
    <3>1. \A q \in Requests : ~Doomed(q, y)
      BY <1>0, <1>1 DEF Alone, Doomed, Leaving, Ending, Removing
    <3>2. PICK row \in db.participant_producers : row.id = y.id
      BY <3>1 DEF Settled, SequentialInv, Accounted, Backed
    <3>3. Presence(y) \in db.participant_meeting
      BY <3>2 DEF Settled, ProducerInv, OfPresent
    <3>4. Presence(y) \notin db'.participant_meeting
      BY <2>2, <2>3 DEF Presence
    <3>5. db' = JoinTx(db, call[r].p, call[r].m, call[r].i, call[r].kind, call[r].router).db
      BY <1>2, <1>4, <3>3, <3>4
    <3>6. SameRows(db, db') \/ \A z \in db'.participant_consumers : z.target # call[r].p
      BY <1>0, <1>1, <3>5, JoinRetracts
    <3> QED
      BY <2>1, <3>3, <3>4, <3>6 DEF SameRows, Untargeted
  <2>4. ViewerInv(r)'
    BY <1>1, <2>1, <2>3 DEF ViewerInv, Consumes, Unconsumed, Retracts, Discards
  <2> QED
    BY <1>0, <1>1, <1>5, <2>4, StaysSubscribed
<1> QED
  BY <1>3, <1>6, <1>7

\* ... so that they can remove the consumers of this instance, and those of its producers, ...
LEMMA SupersedeSubscribed ==
  ASSUME Settled, NEW r \in Requests,
         \/ RecreateReadOwn(r) \/ RecreateCloseOwn(r) \/ RecreateReadProducers(r)
         \/ RecreateReadDependents(r) \/ RecreateCloseProducers(r) \/ RecreateCloseDependents(r)
  PROVE  SubscriptionInv'
<1> USE DEF Superseding, Unpublished, LeaveSteps, ConsumeSteps, Watched
<1>0. /\ Alone /\ Before /\ SubscriptionInv /\ Subscribed /\ CalmStep(r)
      /\ local[r] \in Locals /\ local \in [Requests -> Locals] /\ pc \in [Requests -> Steps]
      /\ TeardownInv(r) /\ ViewerInv(r)
  BY SettledStep DEF Step, RecreateTransport
<1>1. CASE RecreateReadOwn(r)
  <2>1. /\ pc[r] = "rt_own_read" /\ pc'[r] = "rt_own_close" /\ call'[r] = call[r]
        /\ db' = db /\ consumer_map' = consumer_map /\ producer_map' = producer_map
        /\ local'[r] = [local[r] EXCEPT !.consumers =
              get_participant_consumers_excluding_instance(call[r].p, call[r].m, call[r].i)]
    BY <1>0, <1>1 DEF RecreateReadOwn, Continue, memory
  <2>2. \A id \in local'[r].consumers :
           \E x \in consumer_map : x.id = id /\ x.p = call[r].p /\ x.m = call[r].m /\ x.i # call[r].i
    BY <1>0, <2>1 DEF Locals, get_participant_consumers_excluding_instance, Shard
  <2>3. \A y \in db.participant_meeting : y.p = call[r].p /\ y.m = call[r].m => y.i = call[r].i
    BY <1>0, <2>1 DEF TeardownInv, StaysSuperseded
  <2>4. \A id \in local'[r].consumers :
           \E x \in consumer_map : x.id = id /\ Presence(x) \notin db.participant_meeting
    BY <2>2, <2>3 DEF Presence
  <2>5. \A row \in db.participant_consumers : row.id \notin local'[r].consumers
    BY <1>0, <2>4, AbsentUnrecorded
  <2>6. ViewerInv(r)'
    BY <1>0, <2>1, <2>5 DEF ViewerInv, Consumes, Unconsumed, Retracts, Discards, Untargeted
  <2> QED
    BY <1>0, <2>1, <2>6, PlainSubscribed
<1>2. CASE RecreateCloseOwn(r)
  <2>1. /\ pc[r] = "rt_own_close" /\ pc'[r] = "rt_producers_read" /\ call'[r] = call[r]
        /\ db' = db /\ producer_map' = producer_map
        /\ close_all_consumers_in_memory(local[r].consumers, call[r].m)
    BY <1>0, <1>2 DEF RecreateCloseOwn, Continue
  <2>2. \A row \in db.participant_consumers : row.id \notin local[r].consumers
    BY <1>0, <2>1 DEF ViewerInv, Discards
  <2>3. ViewerInv(r)'
    BY <1>0, <2>1 DEF ViewerInv, Consumes, Unconsumed, Retracts, Discards, Untargeted
  <2> QED
    BY <1>0, <2>1, <2>2, <2>3, RemovesSubscribed
<1>3. CASE RecreateReadProducers(r)
  <2>1. /\ pc[r] = "rt_producers_read" /\ pc'[r] = "rt_dependents_read" /\ call'[r] = call[r]
        /\ db' = db /\ consumer_map' = consumer_map
        /\ local'[r] = [local[r] EXCEPT !.producers =
              get_participant_producers_excluding_instance(call[r].p, call[r].m, call[r].i)]
    BY <1>0, <1>3 DEF RecreateReadProducers, Continue, memory
  <2>2. \A id \in local'[r].producers :
           \E y \in producer_map : y.id = id /\ y.p = call[r].p /\ y.m = call[r].m /\ y.i # call[r].i
    BY <1>0, <2>1 DEF Locals, get_participant_producers_excluding_instance
  <2>3. \A x \in consumer_map : x.producer \in local'[r].producers => x.target = call[r].p
    BY <1>0, <2>2 DEF SubscriptionInv, Aimed
  <2>4. local'[r].producers # {} => Untargeted(call[r].p)
    BY <1>0, <2>1, <2>2 DEF ViewerInv, Retracts
  <2>5. ViewerInv(r)'
    BY <2>1, <2>3, <2>4 DEF ViewerInv, Consumes, Unconsumed, Retracts, Discards, Untargeted
  <2> QED
    BY <1>0, <2>1, <2>5, PlainSubscribed
<1>4. CASE RecreateReadDependents(r)
  <2>1. /\ pc[r] = "rt_dependents_read" /\ pc'[r] = "rt_producers_close" /\ call'[r] = call[r]
        /\ db' = db /\ consumer_map' = consumer_map
        /\ local'[r] = [local[r] EXCEPT !.dependents =
              get_consumers_for_producer_ids(local[r].producers, call[r].m)]
    BY <1>0, <1>4 DEF RecreateReadDependents, Continue, memory
  <2>2. \A id \in local'[r].dependents :
           \E x \in consumer_map : x.id = id /\ x.producer \in local[r].producers
    BY <1>0, <2>1 DEF Locals, get_consumers_for_producer_ids, Shard
  <2>3. ASSUME NEW row \in db.participant_consumers, row.id \in local'[r].dependents
        PROVE  FALSE
    <3>1. PICK x \in consumer_map : x.id = row.id /\ x.producer \in local[r].producers
      BY <2>2, <2>3
    <3>2. x.target = call[r].p /\ Untargeted(call[r].p)
      BY <1>0, <2>1, <3>1 DEF ViewerInv, Retracts
    <3> QED
      BY <1>0, <3>1, <3>2 DEF Subscribed, Serves, Untargeted
  <2>4. ViewerInv(r)'
    BY <2>1, <2>3 DEF ViewerInv, Consumes, Unconsumed, Retracts, Discards
  <2> QED
    BY <1>0, <2>1, <2>4, PlainSubscribed
<1>5. CASE RecreateCloseProducers(r)
  <2>1. /\ pc[r] = "rt_producers_close" /\ pc'[r] = "rt_dependents_close" /\ call'[r] = call[r]
        /\ db' = db /\ consumer_map' = consumer_map /\ local'[r] = local[r]
    BY <1>0, <1>5 DEF RecreateCloseProducers, Continue
  <2>2. ViewerInv(r)'
    BY <1>0, <2>1 DEF ViewerInv, Consumes, Unconsumed, Retracts, Discards
  <2> QED
    BY <1>0, <2>1, <2>2, PlainSubscribed
<1>6. CASE RecreateCloseDependents(r)
  <2>1. pc[r] = "rt_dependents_close" /\ pc'[r] \in {"rt_create", "idle"} /\ db' = db
    BY <1>0, <1>6 DEF RecreateCloseDependents, Continue, Done
  <2>2. \/ close_all_consumers_in_memory(local[r].dependents, call[r].m)
        \/ consumer_map' = consumer_map
    BY <1>6 DEF RecreateCloseDependents
  <2>3. \A row \in db.participant_consumers : row.id \notin local[r].dependents
    BY <1>0, <2>1 DEF ViewerInv, Discards
  <2> QED
    BY <1>0, <2>1, <2>2, <2>3, Unwatched, RemovesSubscribed, PlainSubscribed
<1> QED
  BY <1>1, <1>2, <1>3, <1>4, <1>5, <1>6

\* ... and have a transport.
LEMMA RecreateSubscribed ==
  ASSUME Settled, NEW r \in Requests, RecreateTransport(r)
  PROVE  SubscriptionInv'
<1> USE DEF Superseding, Unpublished, LeaveSteps, ConsumeSteps, Watched
<1>0. /\ Alone /\ Before /\ SubscriptionInv /\ CalmStep(r)
      /\ pc \in [Requests -> Steps] /\ StepTyped(pc[r], call[r], local[r])
      /\ db \in Databases /\ Consistent(db)
  BY SettledStep DEF Step
<1>1. CASE RecreateLock(r)
  <2>1. pc[r] = "rt_lock" /\ pc'[r] = "rt_join" /\ db' = db /\ consumer_map' = consumer_map
    BY <1>0, <1>1 DEF RecreateLock, Acquire, memory
  <2> QED
    BY <1>0, <2>1, Unwatched, PlainSubscribed
<1>2. CASE RecreateCreate(r) \/ RecreateExisting(r) \/ RecreateReply(r) \/ RecreatePublish(r)
  <2>1. /\ pc[r] \in {"rt_create", "rt_existing", "rt_reply", "rt_publish"}
        /\ pc'[r] \in {"rt_register", "rt_reply", "idle"} /\ db' = db /\ consumer_map' = consumer_map
    BY <1>0, <1>2 DEF RecreateCreate, RecreateExisting, RecreateReply, RecreatePublish, Continue, Done,
                      memory
  <2> QED
    BY <1>0, <2>1, Unwatched, PlainSubscribed
<1>3. CASE RecreateRegister(r)
  <2>1. /\ pc[r] = "rt_register" /\ pc'[r] \in {"rt_publish", "rt_existing", "idle"}
        /\ consumer_map' = consumer_map
    BY <1>0, <1>3 DEF RecreateRegister, Continue, Done, memory
  <2>2. call[r].p \in Participants /\ call[r].m \in Meetings /\ call[r].i \in Instances
    BY <1>0, <2>1 DEF StepTyped, RecreateSteps, ParticipantLocked
  <2>3. \/ db' = RegisterTransportTx(db, call[r].p, call[r].kind, local[r].transport).db
        \/ db' = db
    BY <1>3, OutcomeOf DEF RecreateRegister
  <2>4. RowsStay
    BY <1>0, <2>2, <2>3, TransactionStays DEF SameRows
  <2> QED
    BY <1>0, <2>1, <2>4, Unwatched, StaysSubscribed
<1> QED
  BY <1>1, <1>2, <1>3, JoinSubscribed, SupersedeSubscribed DEF RecreateTransport

\* create_meeting and replace_meeting.
LEMMA MakeSubscribed ==
  ASSUME Settled, NEW r \in Requests, CreateMeeting(r) \/ ReplaceMeeting(r) \/ PublishRouters(r)
  PROVE  SubscriptionInv'
<1> USE DEF Superseding, Unpublished, LeaveSteps, ConsumeSteps, Watched
<1>0. /\ Alone /\ Before /\ SubscriptionInv /\ CalmStep(r) /\ pc \in [Requests -> Steps]
      /\ StepTyped(pc[r], call[r], local[r]) /\ db \in Databases /\ Consistent(db)
  BY SettledStep DEF Step
<1>1. ASSUME NEW step \in {"cm_routers", "rm_routers"}, NEW next \in {"cm_register", "rm_register"},
             CreateRouters(r, step, next)
      PROVE  SubscriptionInv'
  <2>1. pc[r] = step /\ pc'[r] \in {next, "idle"} /\ db' = db /\ consumer_map' = consumer_map
    BY <1>0, <1>1 DEF CreateRouters, Continue, Done, memory
  <2> QED
    BY <1>0, <2>1, Unwatched, PlainSubscribed
<1>2. ASSUME NEW step \in {"cm_register", "rm_register"}, NEW tx, RegisterRouters(r, step, tx),
             \/ tx = CreateMeetingTx(db, call[r].m, local[r].routers)
             \/ tx = ReplaceMeetingTx(db, call[r].m, local[r].routers)
      PROVE  SubscriptionInv'
  <2>1. /\ pc[r] = step /\ pc'[r] \in {"mk_publish", "idle"} /\ consumer_map' = consumer_map
    BY <1>0, <1>2 DEF RegisterRouters, Continue, Done, memory
  <2>2. call[r].m \in Meetings
    BY <1>0, <2>1 DEF StepTyped
  <2>3. db' = tx.db \/ db' = db
    BY <1>2, OutcomeOf DEF RegisterRouters
  <2>4. RowsStay
    BY <1>0, <1>2, <2>2, <2>3, TransactionStays DEF SameRows
  <2> QED
    BY <1>0, <2>1, <2>4, Unwatched, StaysSubscribed
<1>3. CASE PublishRouters(r)
  <2>1. pc[r] = "mk_publish" /\ pc'[r] = "idle" /\ db' = db /\ consumer_map' = consumer_map
    BY <1>0, <1>3 DEF PublishRouters, Done
  <2> QED
    BY <1>0, <2>1, Unwatched, PlainSubscribed
<1> QED
  BY <1>1, <1>2, <1>3 DEF CreateMeeting, ReplaceMeeting

\* end_meeting.
LEMMA EndSubscribed ==
  ASSUME Settled, NEW r \in Requests, EndMeeting(r)
  PROVE  SubscriptionInv'
<1> USE DEF Superseding, Unpublished, LeaveSteps, ConsumeSteps, Watched
<1>0. /\ Alone /\ Before /\ SubscriptionInv /\ Subscribed /\ CalmStep(r) /\ pc \in [Requests -> Steps]
      /\ local[r] \in Locals /\ local \in [Requests -> Locals]
      /\ StepTyped(pc[r], call[r], local[r]) /\ TeardownInv(r) /\ ViewerInv(r)
      /\ db \in Databases /\ Consistent(db) /\ Keyed(db)
  BY SettledStep DEF Step
<1>1. CASE EndDelete(r)
  <2>1. pc[r] = "em_delete" /\ pc'[r] \in {"em_routers", "idle"} /\ consumer_map' = consumer_map
    BY <1>0, <1>1 DEF EndDelete, Continue, Done, memory
  <2>2. call[r].m \in Meetings
    BY <1>0, <2>1 DEF StepTyped
  <2>3. db' = EndMeetingTx(db, call[r].m).db \/ db' = db
    BY <1>1, OutcomeOf DEF EndDelete
  <2>4. RowsStay
    BY <1>0, <2>2, <2>3, TransactionStays DEF SameRows
  <2> QED
    BY <1>0, <2>1, <2>4, Unwatched, StaysSubscribed
<1>2. CASE EndRouters(r) \/ EndTransports(r) \/ EndReadProducers(r)
  <2>1. /\ pc[r] \in {"em_routers", "em_transports", "em_producers_read"}
        /\ pc'[r] \in {"em_transports", "em_consumers_read", "em_producers_close"}
        /\ db' = db /\ consumer_map' = consumer_map
    BY <1>0, <1>2 DEF EndRouters, EndTransports, EndReadProducers, Continue, memory
  <2> QED
    BY <1>0, <2>1, Unwatched, PlainSubscribed
<1>3. CASE EndCloseProducers(r) \/ EndCloseProducersPanics(r)
  <2>1. /\ pc[r] = "em_producers_close" /\ pc'[r] = "idle" /\ db' = db /\ consumer_map' = consumer_map
    BY <1>0, <1>3 DEF EndCloseProducers, EndCloseProducersPanics, Done
  <2> QED
    BY <1>0, <2>1, Unwatched, PlainSubscribed
<1>4. CASE EndReadConsumers(r)
  <2>1. /\ pc[r] = "em_consumers_read" /\ pc'[r] = "em_consumers_close" /\ call'[r] = call[r]
        /\ db' = db /\ consumer_map' = consumer_map
        /\ local'[r] = [local[r] EXCEPT !.consumers = get_all_consumers_for_meeting(call[r].m)]
    BY <1>0, <1>4 DEF EndReadConsumers, Continue, memory
  <2>2. \A id \in local'[r].consumers : \E x \in consumer_map : x.id = id /\ x.m = call[r].m
    BY <1>0, <2>1 DEF Locals, get_all_consumers_for_meeting, Shard
  <2>3. call[r].m \notin db.meeting_status
    BY <1>0, <2>1 DEF TeardownInv, StaysEnded, Ending
  <2>4. \A y \in db.participant_meeting : y.m # call[r].m
    BY <1>0, <2>3 DEF Keyed
  <2>5. \A id \in local'[r].consumers :
           \E x \in consumer_map : x.id = id /\ Presence(x) \notin db.participant_meeting
    BY <2>2, <2>4 DEF Presence
  <2>6. \A row \in db.participant_consumers : row.id \notin local'[r].consumers
    BY <1>0, <2>5, AbsentUnrecorded
  <2>7. ViewerInv(r)'
    BY <2>1, <2>6 DEF ViewerInv, Consumes, Unconsumed, Retracts, Discards
  <2> QED
    BY <1>0, <2>1, <2>7, PlainSubscribed
<1>5. CASE EndCloseConsumers(r)
  <2>1. /\ pc[r] = "em_consumers_close" /\ pc'[r] = "em_producers_read" /\ db' = db
        /\ close_all_consumers_in_memory(local[r].consumers, call[r].m)
    BY <1>0, <1>5 DEF EndCloseConsumers, Continue
  <2>2. \A row \in db.participant_consumers : row.id \notin local[r].consumers
    BY <1>0, <2>1 DEF ViewerInv, Discards
  <2> QED
    BY <1>0, <2>1, <2>2, Unwatched, RemovesSubscribed
<1> QED
  BY <1>1, <1>2, <1>3, <1>4, <1>5 DEF EndMeeting

\* create_producer: nobody consumes the producer it has made.
LEMMA ProduceSubscribed ==
  ASSUME Settled, NEW r \in Requests, CreateProducer(r)
  PROVE  SubscriptionInv'
<1> USE DEF Superseding, Unpublished, LeaveSteps, ConsumeSteps, Watched
<1>0. /\ Alone /\ Before /\ SubscriptionInv /\ CalmStep(r) /\ pc \in [Requests -> Steps]
      /\ local[r] \in Locals /\ local \in [Requests -> Locals]
      /\ StepTyped(pc[r], call[r], local[r]) /\ ViewerInv(r) /\ db \in Databases /\ Consistent(db)
  BY SettledStep DEF Step
<1>1. CASE ProduceLock(r) \/ ProduceCheck(r)
  <2>1. /\ pc[r] \in {"cp_lock", "cp_check"} /\ pc'[r] \in {"cp_check", "cp_produce", "idle"}
        /\ db' = db /\ consumer_map' = consumer_map
    BY <1>0, <1>1 DEF ProduceLock, ProduceCheck, Acquire, Continue, Done, memory
  <2> QED
    BY <1>0, <2>1, Unwatched, PlainSubscribed
<1>2. CASE ProduceOnTransport(r)
  <2>1. pc[r] = "cp_produce" /\ db' = db /\ consumer_map' = consumer_map
    BY <1>2 DEF ProduceOnTransport, memory
  <2>2. CASE Done(r)
    <3>1. pc'[r] = "idle"
      BY <1>0, <2>2 DEF Done
    <3> QED
      BY <1>0, <2>1, <3>1, Unwatched, PlainSubscribed
  <2>3. ASSUME NEW id \in FreshProducers, Continue(r, "cp_routers", [local[r] EXCEPT !.producer = id])
        PROVE  SubscriptionInv'
    <3>1. pc'[r] = "cp_routers" /\ local'[r].producer = id
      BY <1>0, <2>3 DEF Continue, Locals
    <3>2. \A x \in consumer_map : x.producer # id
      BY DEF FreshProducers
    <3>3. ViewerInv(r)'
      BY <2>1, <3>1, <3>2 DEF ViewerInv, Consumes, Unconsumed, Retracts, Discards
    <3> QED
      BY <1>0, <2>1, <3>3, PlainSubscribed
  <2> QED
    BY <1>2, <2>2, <2>3 DEF ProduceOnTransport
<1>3. CASE ProduceRouters(r)
  <2>1. /\ pc[r] = "cp_routers" /\ db' = db /\ consumer_map' = consumer_map
        /\ pc'[r] = "idle" \/ (pc'[r] = "cp_register" /\ local'[r] = local[r])
    BY <1>0, <1>3 DEF ProduceRouters, Continue, Done, memory
  <2>2. ViewerInv(r)'
    BY <1>0, <2>1 DEF ViewerInv, Consumes, Unconsumed, Retracts, Discards
  <2> QED
    BY <1>0, <2>1, <2>2, PlainSubscribed
<1>4. CASE ProduceRegister(r)
  <2>1. /\ pc[r] = "cp_register" /\ consumer_map' = consumer_map
        /\ pc'[r] \in {"idle", "cp_pipeline"} \/ (pc'[r] = "cp_publish" /\ local'[r] = local[r])
    BY <1>0, <1>4 DEF ProduceRegister, Continue, Done, memory
  <2>2. call[r].m \in Meetings
    BY <1>0, <2>1 DEF StepTyped
  <2>3. PICK row : db' = RegisterProducerTx(db, row).db \/ db' = db
    BY <1>4, OutcomeOf DEF ProduceRegister
  <2>4. RowsStay
    BY <1>0, <2>2, <2>3, TransactionStays DEF SameRows
  <2>5. ViewerInv(r)'
    BY <1>0, <2>1 DEF ViewerInv, Consumes, Unconsumed, Retracts, Discards
  <2> QED
    BY <1>0, <2>1, <2>4, <2>5, StaysSubscribed
<1>5. CASE \/ ProducePublish(r) \/ ProducePlain(r) \/ ProducePlainConsumer(r) \/ ProducePipeline(r)
  <2>1. /\ pc[r] \in {"cp_publish", "cp_plain", "cp_plain_consumer", "cp_pipeline"}
        /\ pc'[r] \in {"cp_plain", "cp_plain_consumer", "cp_pipeline", "idle"}
        /\ db' = db /\ consumer_map' = consumer_map
    BY <1>0, <1>5 DEF ProducePublish, ProducePlain, ProducePlainConsumer, ProducePipeline, Continue, Done
  <2> QED
    BY <1>0, <2>1, Unwatched, PlainSubscribed
<1> QED
  BY <1>1, <1>2, <1>3, <1>4, <1>5 DEF CreateProducer

\* close_producer and close_consumer, which deletes the rows before it removes the consumers.
LEMMA CloseSubscribed ==
  ASSUME Settled, NEW r \in Requests, CloseProducer(r) \/ CloseConsumer(r)
  PROVE  SubscriptionInv'
<1> USE DEF Superseding, Unpublished, LeaveSteps, ConsumeSteps, Watched
<1>0. /\ Alone /\ Before /\ SubscriptionInv /\ CalmStep(r) /\ pc \in [Requests -> Steps]
      /\ StepTyped(pc[r], call[r], local[r]) /\ ViewerInv(r) /\ db \in Databases /\ Consistent(db)
  BY SettledStep DEF Step
<1>1. CASE CloseProducerDelete(r)
  <2>1. pc[r] = "cl_delete" /\ consumer_map' = consumer_map /\ pc'[r] \in {"cl_close", "idle"}
    BY <1>0, <1>1 DEF CloseProducerDelete, Continue, Done, memory
  <2>2. call[r].m \in Meetings
    BY <1>0, <2>1 DEF StepTyped
  <2>3. db' = DeleteProducersTx(db, call[r].p, call[r].ids).db \/ db' = db
    BY <1>1, OutcomeOf DEF CloseProducerDelete
  <2>4. RowsStay
    BY <1>0, <2>2, <2>3, TransactionStays DEF SameRows
  <2> QED
    BY <1>0, <2>1, <2>4, Unwatched, StaysSubscribed
<1>2. CASE CloseProducerInMemory(r)
  <2>1. pc[r] = "cl_close" /\ db' = db /\ consumer_map' = consumer_map /\ pc'[r] = "idle"
    BY <1>0, <1>2 DEF CloseProducerInMemory, Done
  <2> QED
    BY <1>0, <2>1, Unwatched, PlainSubscribed
<1>3. CASE CloseConsumerDelete(r)
  <2>1. pc[r] = "cz_delete" /\ consumer_map' = consumer_map
    BY <1>3 DEF CloseConsumerDelete, memory
  <2>2. call[r].m \in Meetings
    BY <1>0, <2>1 DEF StepTyped
  <2>3. db' = DeleteConsumersTx(db, call[r].ids).db \/ db' = db
    BY <1>3, OutcomeOf DEF CloseConsumerDelete
  <2>4. RowsStay
    BY <1>0, <2>2, <2>3, TransactionStays DEF SameRows
  <2>5. CASE Done(r)
    <3>1. pc'[r] = "idle"
      BY <1>0, <2>5 DEF Done
    <3> QED
      BY <1>0, <2>1, <2>4, <3>1, Unwatched, StaysSubscribed
  <2>6. CASE ~Done(r)
    <3>1. PICK o \in Outcomes(DeleteConsumersTx(db, call[r].ids)) :
             db' = o.db /\ o.error = NoError /\ Continue(r, "cz_close", local[r])
      BY <1>3, <2>6 DEF CloseConsumerDelete
    <3>2. db' = DeleteConsumersTx(db, call[r].ids).db
      BY <3>1 DEF Outcomes, Failed, NoError, DriverFailure
    <3>3. \A row \in db'.participant_consumers : row.id \notin call[r].ids
      BY <1>0, <3>2, CloseEffect
    <3>4. pc'[r] = "cz_close" /\ call'[r] = call[r]
      BY <1>0, <3>1 DEF Continue
    <3>5. ViewerInv(r)'
      BY <3>3, <3>4 DEF ViewerInv, Consumes, Unconsumed, Retracts, Discards
    <3> QED
      BY <1>0, <2>1, <2>4, <3>5, StaysSubscribed
  <2> QED
    BY <2>5, <2>6
<1>4. CASE CloseConsumerInMemory(r)
  <2>1. /\ pc[r] = "cz_close" /\ pc'[r] = "idle" /\ db' = db
        /\ close_all_consumers_in_memory(call[r].ids, call[r].m)
    BY <1>0, <1>4 DEF CloseConsumerInMemory, Done
  <2>2. \A row \in db.participant_consumers : row.id \notin call[r].ids
    BY <1>0, <2>1 DEF ViewerInv, Discards
  <2> QED
    BY <1>0, <2>1, <2>2, Unwatched, RemovesSubscribed
<1> QED
  BY <1>1, <1>2, <1>3, <1>4 DEF CloseProducer, CloseConsumer

\* A create_consumer that goes on, without a transaction.
LEMMA ConsumeGoesOn ==
  ASSUME Settled, NEW r \in Requests, CreateConsumer(r), db' = db, consumer_map' = consumer_map,
         pc[r] \in ConsumeSteps \ {"cc_publish"},
         NEW step \in {"cc_shard", "cc_consume"}, NEW vals, Continue(r, step, vals),
         \A w \in vals.want : Aimed(w),
         \A x \in vals.made :
            \/ x \in local[r].made
            \/ /\ Presence(x) = Presence(call[r]) /\ Aimed(x) /\ x.id \in FreshConsumers
               /\ \A y \in vals.made : y \in local[r].made \/ y = x
  PROVE  SubscriptionInv'
<1> USE DEF Superseding, Unpublished, LeaveSteps, ConsumeSteps, Watched
<1>0. /\ Alone /\ Before /\ SubscriptionInv /\ CalmStep(r) /\ Consumes(r)
      /\ local \in [Requests -> Locals] /\ pc \in [Requests -> Steps]
  BY SettledStep DEF Step, ViewerInv
<1>1. pc'[r] = step /\ call'[r] = call[r] /\ local'[r] = vals
  BY <1>0 DEF Continue
<1>2. \A w : Aimed(w) => Aimed(w)'
  BY <1>0, StaysAimed
<1>3. ASSUME NEW x \in vals.made
      PROVE  /\ Presence(x) = Presence(call[r]) /\ Aimed(x)' /\ ~InConsumerMap(x.id)'
             /\ \A y \in vals.made : y.id = x.id => y = x
             /\ \A row \in db'.participant_consumers : row.id # x.id
  <2>1. ASSUME NEW y \in vals.made, y.id \in FreshConsumers
        PROVE  \A z \in local[r].made : z.id # y.id
    BY <2>1 DEF FreshConsumers
  <2>2. CASE x \in local[r].made
    BY <1>0, <1>2, <2>1, <2>2 DEF Consumes, InConsumerMap
  <2>3. CASE x \notin local[r].made
    <3>1. /\ Presence(x) = Presence(call[r]) /\ Aimed(x) /\ x.id \in FreshConsumers
          /\ \A y \in vals.made : y \in local[r].made \/ y = x
      BY <2>3
    <3>2. ~InConsumerMap(x.id)' /\ \A row \in db'.participant_consumers : row.id # x.id
      BY <3>1 DEF FreshConsumers, InConsumerMap
    <3> QED
      BY <1>2, <2>1, <3>1, <3>2
  <2> QED
    BY <2>2, <2>3
<1>4. Consumes(r)'
  <2>1. Presence(call[r]) \in db'.participant_meeting /\ \A w \in call[r].want : Aimed(w)'
    BY <1>0, <1>2 DEF Consumes
  <2> QED
    BY <1>1, <1>2, <1>3, <2>1 DEF Consumes, Presence
<1>5. ViewerInv(r)'
  BY <1>1, <1>4 DEF ViewerInv, Unconsumed, Retracts, Discards
<1> QED
  BY <1>0, <1>5, PlainSubscribed

\* create_consumer, up to its transaction: ...
LEMMA ConsumeLoopSubscribed ==
  ASSUME Settled, NEW r \in Requests,
         \/ ConsumeOnTransport(r) \/ ConsumeSnapshot(r) \/ ConsumeReuse(r) \/ ConsumeNew(r)
         \/ ConsumeFails(r)
  PROVE  SubscriptionInv'
<1> USE DEF Superseding, Unpublished, LeaveSteps, ConsumeSteps, Watched
<1>0. /\ Alone /\ Before /\ SubscriptionInv /\ CalmStep(r) /\ Consumes(r) /\ pc \in [Requests -> Steps]
      /\ local[r] \in Locals
  BY SettledStep DEF Step, CreateConsumer, ViewerInv
<1>1. /\ pc[r] \in ConsumeSteps \ {"cc_publish"} /\ db' = db /\ consumer_map' = consumer_map
      /\ CreateConsumer(r)
  BY DEF ConsumeOnTransport, ConsumeSnapshot, ConsumeReuse, ConsumeNew, ConsumeFails, memory,
         CreateConsumer
<1>2. CASE Done(r)
  <2>1. pc'[r] = "idle"
    BY <1>0, <1>2 DEF Done
  <2> QED
    BY <1>0, <1>1, <2>1, Unwatched, PlainSubscribed
<1>3. CASE ConsumeOnTransport(r) /\ ~Done(r)
  <2>1. PICK vals : vals = [local[r] EXCEPT !.want = call[r].want] /\ Continue(r, "cc_shard", vals)
    BY <1>3 DEF ConsumeOnTransport
  <2>2. vals.want = call[r].want /\ vals.made = local[r].made
    BY <1>0, <2>1 DEF Locals
  <2>3. \A w \in vals.want : Aimed(w)
    BY <1>0, <1>1, <2>2 DEF Consumes
  <2> QED
    BY <1>1, <2>1, <2>2, <2>3, ConsumeGoesOn
<1>4. CASE ConsumeSnapshot(r)
  <2>1. PICK seen, vals : vals = [local[r] EXCEPT !.seen = seen] /\ Continue(r, "cc_consume", vals)
    BY <1>4 DEF ConsumeSnapshot
  <2>2. vals.want = local[r].want /\ vals.made = local[r].made
    BY <1>0, <2>1 DEF Locals
  <2>3. \A w \in vals.want : Aimed(w)
    BY <1>0, <1>1, <1>4, <2>2 DEF Consumes, ConsumeSnapshot
  <2> QED
    BY <1>1, <2>1, <2>2, <2>3, ConsumeGoesOn
<1>5. CASE ConsumeReuse(r)
  <2>1. PICK w, vals :
           vals = [local[r] EXCEPT !.want = @ \ {w}] /\ Continue(r, "cc_consume", vals)
    BY <1>5 DEF ConsumeReuse
  <2>2. vals.want \subseteq local[r].want /\ vals.made = local[r].made
    BY <1>0, <2>1 DEF Locals
  <2>3. \A w1 \in vals.want : Aimed(w1)
    BY <1>0, <1>1, <1>5, <2>2 DEF Consumes, ConsumeReuse
  <2> QED
    BY <1>1, <2>1, <2>2, <2>3, ConsumeGoesOn
<1>6. CASE ConsumeNew(r)
  <2>1. PICK w \in local[r].want, id \in FreshConsumers :
           Continue(r, "cc_consume",
              [local[r] EXCEPT
                 !.want = @ \ {w},
                 !.made = @ \cup {[id |-> id, m |-> call[r].m, p |-> call[r].p, target |-> w.target,
                                   kind |-> w.kind, i |-> call[r].i, producer |-> w.producer]}])
    BY <1>6, Zenon DEF ConsumeNew
  <2>2. PICK x : x = [id |-> id, m |-> call[r].m, p |-> call[r].p, target |-> w.target,
                      kind |-> w.kind, i |-> call[r].i, producer |-> w.producer]
    OBVIOUS
  <2>3. PICK vals : vals = [local[r] EXCEPT !.want = @ \ {w}, !.made = @ \cup {x}]
    OBVIOUS
  <2>4. Continue(r, "cc_consume", vals)
    BY <2>1, <2>2, <2>3
  <2>5. vals.want \subseteq local[r].want /\ vals.made = local[r].made \cup {x}
    BY <1>0, <2>3 DEF Locals
  <2>6. \A w1 \in local[r].want : Aimed(w1)
    BY <1>0, <1>1, <1>6 DEF Consumes, ConsumeNew
  <2>7. Presence(x) = Presence(call[r]) /\ x.id \in FreshConsumers
    BY <2>2 DEF Presence
  <2>8. Aimed(x)
    <3>1. x.producer = w.producer /\ x.target = w.target
      BY <2>2
    <3> QED
      BY <2>6, <3>1 DEF Aimed
  <2>9. /\ \A w1 \in vals.want : Aimed(w1)
        /\ \A y \in vals.made : y \in local[r].made \/ y = x
    BY <2>5, <2>6
  <2> QED
    BY <1>1, <2>4, <2>7, <2>8, <2>9, ConsumeGoesOn
<1> QED
  BY <1>2, <1>3, <1>4, <1>5, <1>6 DEF ConsumeFails

\* ... its transaction, ...
LEMMA ConsumeRegisterSubscribed ==
  ASSUME Settled, NEW r \in Requests, ConsumeRegister(r)
  PROVE  SubscriptionInv'
<1> USE DEF Superseding, Unpublished, LeaveSteps, ConsumeSteps, Watched
<1>0. /\ Alone /\ Before /\ SubscriptionInv /\ Subscribed /\ CalmStep(r) /\ Consumes(r)
      /\ pc \in [Requests -> Steps] /\ local \in [Requests -> Locals] /\ db \in Databases
  BY SettledStep DEF Step, CreateConsumer, ViewerInv
<1>1. pc[r] = "cc_consume" /\ consumer_map' = consumer_map /\ producer_map' = producer_map
  BY DEF ConsumeRegister, memory
<1>2. PICK rows : rows = {[id |-> x.id, p |-> x.p, target |-> x.target, kind |-> x.kind, m |-> x.m,
                           t |-> call[r].t] : x \in local[r].made}
  OBVIOUS
<1>3. PICK out \in Outcomes(RegisterConsumersTx(db, rows)) :
         /\ db' = out.db
         /\ \/ out.error = NoError /\ Continue(r, "cc_publish", local[r])
            \/ out.error # NoError /\ Done(r)
  BY <1>2 DEF ConsumeRegister
<1>4. CASE out.error # NoError /\ Done(r)
  <2>1. pc'[r] = "idle"
    BY <1>0, <1>4 DEF Done
  <2>2. db' = db
    BY <1>3, <1>4 DEF Outcomes, Failed, RegisterConsumersTx, Finish
  <2> QED
    BY <1>0, <1>1, <2>1, <2>2, Unwatched, PlainSubscribed
<1>5. CASE out.error = NoError /\ Continue(r, "cc_publish", local[r])
  <2>1. pc'[r] = "cc_publish" /\ call'[r] = call[r] /\ local'[r] = local[r]
    BY <1>0, <1>5 DEF Continue
  <2>2. db' = RegisterConsumersTx(db, rows).db
    BY <1>3, <1>5 DEF Outcomes, Failed, NoError, DriverFailure
  <2>3. /\ db'.participant_meeting = db.participant_meeting
        /\ \A row \in db'.participant_consumers : row \in db.participant_consumers \/ row \in rows
    BY <1>0, <2>2, RegisterConsumersEffect DEF SameParticipants
  <2>4. \A row \in rows : \E x \in local[r].made :
           row.id = x.id /\ row.p = x.p /\ row.target = x.target /\ row.m = x.m
    BY <1>2
  <2>5. Presence(call[r]) \in db'.participant_meeting
    BY <1>0, <1>1, <2>3 DEF Consumes
  <2>6. ASSUME NEW x \in local[r].made
        PROVE  /\ x.p = call[r].p /\ x.m = call[r].m /\ Presence(x) = Presence(call[r])
               /\ ~InConsumerMap(x.id) /\ Aimed(x)
               /\ \A y \in local[r].made : y.id = x.id => y = x
               /\ \A row \in db.participant_consumers : row.id # x.id
    BY <1>0, <1>1 DEF Consumes, Presence
  <2>7. ASSUME NEW row \in db'.participant_consumers
        PROVE  /\ InConsumerMap(row.id)' \/ AboutToInsert(row.id)' \/ ~InMemory(row.t)'
               /\ \E y \in db'.participant_meeting : y.p = row.p /\ y.m = row.m
               /\ \A x \in consumer_map' : x.id = row.id => Serves(x, row)'
    <3>1. CASE row \in db.participant_consumers
      <4>1. InConsumerMap(row.id) \/ ~InMemory(row.t)
        BY <1>0, <1>1, <3>1 DEF Subscribed, AboutToInsert, Alone
      <4>2. InConsumerMap(row.id)' \/ ~InMemory(row.t)'
        BY <1>0, <1>1, <3>1, <4>1, SubscribedTransports DEF InConsumerMap
      <4> QED
        BY <1>0, <1>1, <2>3, <3>1, <4>2 DEF Subscribed, Serves
    <3>2. CASE row \in rows
      <4>1. PICK x \in local[r].made : row.id = x.id /\ row.p = x.p /\ row.m = x.m
        BY <2>4, <3>2
      <4>2. AboutToInsert(row.id)'
        BY <2>1, <4>1 DEF AboutToInsert
      <4>3. \A z \in consumer_map' : z.id # row.id
        BY <1>1, <2>6, <4>1 DEF InConsumerMap
      <4>4. \E y \in db'.participant_meeting : y.p = row.p /\ y.m = row.m
        BY <2>5, <2>6, <4>1 DEF Presence
      <4> QED
        BY <4>2, <4>3, <4>4
    <3> QED
      BY <2>3, <3>1, <3>2
  <2>8. Subscribed'
    BY <2>7 DEF Subscribed
  <2>9. \A x : Aimed(x) => Aimed(x)'
    BY <1>1 DEF Aimed
  <2>10. ASSUME NEW x \in local[r].made, NEW row \in db'.participant_consumers, row.id = x.id
         PROVE  Serves(x, row)'
    BY <2>3, <2>4, <2>5, <2>6, <2>10 DEF Serves
  <2>11. Consumes(r)'
    BY <1>0, <1>1, <2>1, <2>5, <2>6, <2>9, <2>10 DEF Consumes, InConsumerMap, Presence
  <2>12. ViewerInv(r)'
    BY <2>1, <2>11 DEF ViewerInv, Unconsumed, Retracts, Discards
  <2> QED
    BY <1>0, <1>1, <2>8, <2>9, <2>12 DEF SubscriptionInv, Alone
<1> QED
  BY <1>3, <1>4, <1>5

\* ... and its insertion into consumer_map.
LEMMA ConsumePublishSubscribed ==
  ASSUME Settled, NEW r \in Requests, ConsumePublish(r)
  PROVE  SubscriptionInv'
<1> USE DEF Superseding, Unpublished, LeaveSteps, ConsumeSteps, Watched
<1>0. /\ Alone /\ Before /\ SubscriptionInv /\ Subscribed /\ CalmStep(r) /\ Consumes(r)
      /\ pc \in [Requests -> Steps]
  BY SettledStep DEF Step, CreateConsumer, ViewerInv
<1>1. /\ pc[r] = "cc_publish" /\ pc'[r] = "idle" /\ db' = db /\ producer_map' = producer_map
      /\ consumer_map' = consumer_map \cup local[r].made
  BY <1>0 DEF ConsumePublish, Done
<1>2. ASSUME NEW row \in db'.participant_consumers
      PROVE  InConsumerMap(row.id)' \/ ~InMemory(row.t)'
  <2>1. InConsumerMap(row.id) \/ AboutToInsert(row.id) \/ ~InMemory(row.t)
    BY <1>0, <1>1 DEF Subscribed
  <2>2. CASE InConsumerMap(row.id) \/ AboutToInsert(row.id)
    BY <1>0, <1>1, <2>2 DEF InConsumerMap, AboutToInsert, Alone
  <2>3. CASE ~InMemory(row.t)
    BY <1>0, <1>1, <2>3, SubscribedTransports
  <2> QED
    BY <2>1, <2>2, <2>3
<1>3. ASSUME NEW row \in db'.participant_consumers, NEW x \in consumer_map', x.id = row.id
      PROVE  Serves(x, row)'
  <2>1. Serves(x, row)
    BY <1>0, <1>1, <1>3 DEF Subscribed, Consumes
  <2> QED
    BY <1>1, <2>1 DEF Serves
<1>4. Subscribed'
  BY <1>0, <1>1, <1>2, <1>3 DEF Subscribed
<1>5. \A x \in consumer_map' : Aimed(x)'
  BY <1>0, <1>1 DEF SubscriptionInv, Consumes, Aimed
<1> QED
  BY <1>0, <1>1, <1>4, <1>5, Unwatched DEF SubscriptionInv, Alone

\* A call begins.
LEMMA BeginSubscribed ==
  ASSUME Settled, NEW r \in Requests, NEW step \in CallSteps, NEW c, Begin(r, step, c),
         step = "cc_transport" =>
            Presence(c) \in db.participant_meeting /\ \A w \in c.want : Aimed(w)
  PROVE  SubscriptionInv'
<1> USE DEF Superseding, Unpublished, LeaveSteps, ConsumeSteps, Watched
<1>0. /\ SubscriptionInv /\ Subscribed /\ pc \in [Requests -> Steps] /\ call \in [Requests -> Calls]
      /\ \A q \in Requests : q = r
  BY DEF Settled, SubscriptionInv, ControlOK, Alone
<1>1. /\ pc[r] = "idle" /\ pc'[r] = step /\ call'[r] = c /\ local' = local /\ db' = db
      /\ producer_map' = producer_map /\ consumer_map' = consumer_map /\ transport_map' = transport_map
  BY <1>0 DEF Begin, memory
<1>2. step # "rt_publish" /\ step # "cc_publish"
  BY DEF CallSteps
<1>3. Subscribed'
  <2>1. \A t : InMemory(t)' => InMemory(t)
    BY <1>0, <1>1, <1>2 DEF InMemory
  <2>2. \A id : ~AboutToInsert(id)
    BY <1>0, <1>1 DEF AboutToInsert
  <2> QED
    BY <1>0, <1>1, <2>1, <2>2 DEF Subscribed, InConsumerMap, Serves
<1>4. \A x : Aimed(x) => Aimed(x)'
  BY <1>1 DEF Aimed
<1>5. CASE step = "cc_transport"
  <2>1. local[r].made = {}
    BY <1>1 DEF Settled, RosterInv, RequestInv, IdleHasNone
  <2>2. Consumes(r)'
    BY <1>1, <1>4, <1>5, <2>1 DEF Consumes
  <2>3. ViewerInv(r)'
    BY <1>1, <1>5, <2>2 DEF ViewerInv, Unconsumed, Retracts, Discards
  <2> QED
    BY <1>0, <1>1, <1>3, <1>4, <2>3 DEF SubscriptionInv
<1>6. CASE step # "cc_transport"
  <2>1. pc'[r] \notin Watched
    BY <1>1, <1>6 DEF CallSteps
  <2> QED
    BY <1>0, <1>1, <1>3, <1>4, <2>1, Unwatched DEF SubscriptionInv
<1> QED
  BY <1>5, <1>6

\* Every call: whoever asks to consume is in the meeting, and asks for recorded producers of
\* his targets.
LEMMA CallSubscribed ==
  ASSUME Settled, NEW r \in Requests, Call(r)
  PROVE  SubscriptionInv'
<1>0. PICK m \in Meetings :
         \/ CallCreateMeeting(r, m) \/ CallReplaceMeeting(r, m) \/ CallEndMeeting(r, m)
         \/ \E p \in Participants, i \in Instances :
               \/ \E kind \in TransportKinds : CallRecreate(r, p, m, i, kind)
               \/ CallLeave(r, p, m, i)
               \/ CallCreateProducer(r, p, m, i)
               \/ CallCloseProducer(r, p, m, i)
               \/ CallCreateConsumer(r, p, m, i)
               \/ CallCloseConsumer(r, p, m, i)
  BY DEF Call
<1>1. ASSUME NEW p \in Participants, NEW i \in Instances, CallCreateConsumer(r, p, m, i)
      PROVE  SubscriptionInv'
  <2>1. PICK W \in Requested(p, m),
             x \in {y \in transport_map : y.p = p /\ y.m = m /\ y.kind = "consumer"} :
           Begin(r, "cc_transport", [NoCall EXCEPT !.p = p, !.m = m, !.i = i, !.t = x.id, !.want = W])
    BY <1>1, Zenon DEF CallCreateConsumer
  <2>2. PICK c : c = [NoCall EXCEPT !.p = p, !.m = m, !.i = i, !.t = x.id, !.want = W]
    OBVIOUS
  <2>3. c.p = p /\ c.m = m /\ c.i = i /\ c.want = W
    BY <2>2 DEF NoCall
  <2>4. Presence(c) \in db.participant_meeting
    BY <1>1, <2>3 DEF Presence, CallCreateConsumer, InMeeting
  <2>5. ASSUME NEW w \in W
        PROVE  Aimed(w)
    <3>1. w \in Offers(p, m)
      BY DEF Requested
    <3>2. PICK row \in db.participant_producers : w.target = row.p /\ w.producer = row.id
      BY <3>1 DEF Offers, ProducersOfMeeting
    <3> QED
      BY <3>2 DEF Aimed, Settled, ProducerInv, OfPresent
  <2> QED
    BY <2>1, <2>2, <2>3, <2>4, <2>5, BeginSubscribed DEF CallSteps
<1>2. ASSUME NEW step \in CallSteps \ {"cc_transport"}, NEW c, Begin(r, step, c)
      PROVE  SubscriptionInv'
  BY <1>2, BeginSubscribed
<1>3. CASE CallCreateMeeting(r, m)
  BY <1>2, <1>3 DEF CallCreateMeeting, CallSteps
<1>4. CASE CallReplaceMeeting(r, m)
  BY <1>2, <1>4 DEF CallReplaceMeeting, CallSteps
<1>5. CASE CallEndMeeting(r, m)
  <2>1. \E c : Begin(r, "em_delete", c)
    BY <1>5, Zenon DEF CallEndMeeting
  <2> QED
    BY <1>2, <2>1 DEF CallSteps
<1>6. ASSUME NEW p \in Participants, NEW i \in Instances,
             \/ \E kind \in TransportKinds : CallRecreate(r, p, m, i, kind)
             \/ CallLeave(r, p, m, i) \/ CallCreateProducer(r, p, m, i)
             \/ CallCloseProducer(r, p, m, i) \/ CallCloseConsumer(r, p, m, i)
      PROVE  SubscriptionInv'
  <2>1. \E step, c : /\ step \in {"rt_lock", "lv_delete", "cp_lock", "cl_delete", "cz_delete"}
                     /\ Begin(r, step, c)
    <3>1. ASSUME NEW kind, CallRecreate(r, p, m, i, kind)
          PROVE  \E c : Begin(r, "rt_lock", c)
      BY <3>1, Zenon DEF CallRecreate
    <3>2. ASSUME CallLeave(r, p, m, i)
          PROVE  \E c : Begin(r, "lv_delete", c)
      BY <3>2, Zenon DEF CallLeave
    <3>3. ASSUME CallCreateProducer(r, p, m, i)
          PROVE  \E c : Begin(r, "cp_lock", c)
      BY <3>3, Zenon DEF CallCreateProducer
    <3>4. ASSUME CallCloseProducer(r, p, m, i)
          PROVE  \E c : Begin(r, "cl_delete", c)
      BY <3>4, Zenon DEF CallCloseProducer
    <3>5. ASSUME CallCloseConsumer(r, p, m, i)
          PROVE  \E c : Begin(r, "cz_delete", c)
      BY <3>5, Zenon DEF CallCloseConsumer
    <3> QED
      BY <1>6, <3>1, <3>2, <3>3, <3>4, <3>5
  <2> QED
    BY <1>2, <2>1 DEF CallSteps
<1> QED
  BY <1>0, <1>1, <1>3, <1>4, <1>5, <1>6

\* The invariant is inductive.
LEMMA NextSubscribed ==
  ASSUME Settled, [Next]_vars
  PROVE  SubscriptionInv'
<1>1. CASE UNCHANGED vars
  <2>1. /\ db' = db /\ transport_map' = transport_map /\ producer_map' = producer_map
        /\ consumer_map' = consumer_map /\ pc' = pc /\ call' = call /\ local' = local
    BY <1>1 DEF vars, memory
  <2>2. Subscribed' /\ \A x \in consumer_map' : Aimed(x)'
    BY <2>1 DEF Settled, SubscriptionInv, Subscribed, InConsumerMap, AboutToInsert, InMemory, Serves,
                Aimed
  <2>3. ASSUME NEW r \in Requests
        PROVE  ViewerInv(r)'
    <3>1. ViewerInv(r)
      BY DEF Settled, SubscriptionInv
    <3>2. Consumes(r)'
      BY <2>1, <3>1 DEF ViewerInv, Consumes, Aimed, InConsumerMap, Serves, Presence
    <3> QED
      BY <2>1, <3>1, <3>2 DEF ViewerInv, Unconsumed, Retracts, Untargeted, Discards
  <2> QED
    BY <2>2, <2>3 DEF SubscriptionInv
<1>2. CASE Restart
  <2>1. /\ db' = db /\ transport_map' = {} /\ consumer_map' = {} /\ \A r \in Requests : pc'[r] = "idle"
    BY <1>2 DEF Restart
  <2>2. Subscribed' /\ \A x \in consumer_map' : Aimed(x)'
    BY <2>1 DEF Settled, SubscriptionInv, Subscribed, InMemory
  <2>3. \A r \in Requests : pc'[r] \notin Watched
    BY <2>1 DEF Watched, Superseding, Unpublished, LeaveSteps, ConsumeSteps
  <2> QED
    BY <2>2, <2>3, Unwatched DEF SubscriptionInv
<1>3. ASSUME NEW r \in Requests, Step(r)
      PROVE  SubscriptionInv'
  BY <1>3, MakeSubscribed, EndSubscribed, RecreateSubscribed, LeaveSubscribed, ProduceSubscribed,
     CloseSubscribed, ConsumeLoopSubscribed, ConsumeRegisterSubscribed, ConsumePublishSubscribed
     DEF Step, CreateConsumer
<1> QED
  BY <1>1, <1>2, <1>3, CallSubscribed DEF Next

\* It holds of the empty database.
LEMMA InitSubscribed ==
  ASSUME Init
  PROVE  SubscriptionInv
<1>1. /\ db.participant_consumers = {} /\ consumer_map = {} /\ \A r \in Requests : pc[r] = "idle"
  BY DEF Init, EmptyDatabase
<1>2. Subscribed /\ \A x \in consumer_map : Aimed(x)
  BY <1>1 DEF Subscribed
<1>3. \A r \in Requests : ViewerInv(r)
  BY <1>1 DEF ViewerInv, Consumes, Unconsumed, Retracts, Discards, Superseding, Unpublished,
              LeaveSteps, ConsumeSteps
<1> QED
  BY <1>2, <1>3 DEF SubscriptionInv

\* While no request is in progress, every recorded consumer of a meeting this process serves
\* is in consumer_map, where a later createConsumer finds it to reuse: for every set of
\* meetings, participants, instances and identifiers, any length of calls one after the
\* other, and every fault and loss of the process between or within them.  What a leave, a
\* take-over, a close or the end of a meeting removes from memory, its transaction has
\* deleted, whoever's consumer it is.
THEOREM ConsumersStayLive ==
  ASSUME Alone
  PROVE  Spec => []RecordedConsumersAreLive
<1>1. Init => SubscriptionInv
  BY InitSubscribed
<1>2. IInv /\ RosterInv /\ TransportInv /\ ProducerInv /\ SequentialInv /\ SubscriptionInv
      /\ [Next]_vars => SubscriptionInv'
  BY NextSubscribed DEF Settled, IInv
<1>3. RosterInv /\ TransportInv /\ SubscriptionInv => RecordedConsumersAreLive
  <2> SUFFICES ASSUME RosterInv, TransportInv, SubscriptionInv, Quiescent,
                      NEW row \in db.participant_consumers, ~InConsumerMap(row.id)
               PROVE  ~Hosted(row.m)
    BY DEF RecordedConsumersAreLive, InConsumerMap
  <2>1. \A r \in Requests : pc[r] = "idle"
    BY DEF Quiescent, Busy
  <2>2. ~InMemory(row.t) /\ \E y \in db.participant_meeting : y.p = row.p /\ y.m = row.m
    BY <2>1 DEF SubscriptionInv, Subscribed, AboutToInsert
  <2>3. PICK x \in db.participant_consumer_transport : x.p = row.p /\ x.t = row.t
    BY DEF RosterInv, Consistent
  <2>4. PICK y \in db.participant_meeting : y.p = row.p /\ Adrift(y.m)
    BY <2>2, <2>3 DEF TransportInv, Known, TransportRows
  <2>5. y.m = row.m
    BY <2>2, <2>4 DEF RosterInv, Consistent
  <2> QED
    BY <2>4, <2>5 DEF Adrift, Hosted, RoutersIn, RoutersOfMeeting, Claimed
<1> QED
  BY <1>1, <1>2, <1>3, OneAtATime, Invariance, PTL DEF Spec
=============================================================================
