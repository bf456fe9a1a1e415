---------------------------- MODULE RosterProofs ----------------------------
(***************************************************************************)
(* The media server implements the Roster, proved for every set of         *)
(* meetings, participants, instances, identifiers and requests, and for    *)
(* every fault: each step of a handler changes the tables by one step of   *)
(* the Roster or leaves what the Roster shows of them alone.               *)
(***************************************************************************)
EXTENDS SfuProofs

-----------------------------------------------------------------------------
(* The inductive invariant *)

TransportRows(d) == d.participant_producer_transport \cup d.participant_consumer_transport

\* The unique keys of participant_meeting and of the transports, and the foreign keys.
\* No key says that the transport of a producer or a consumer is its participant's own:
\* the handlers see to that, and it keeps the two cascades of a departure, over the
\* participant and over its transports, together.
Consistent(d) ==
    /\ \A x, y \in d.participant_meeting : x.p = y.p => x = y
    /\ \A x, y \in d.participant_producer_transport : x.t = y.t => x = y
    /\ \A x, y \in d.participant_consumer_transport : x.t = y.t => x = y
    /\ \A row \in TransportRows(d) : HasParticipant(d, row.p)
    /\ \A row \in d.participant_producers :
          \E x \in d.participant_producer_transport : x.p = row.p /\ x.t = row.t
    /\ \A row \in d.participant_consumers :
          /\ HasParticipant(d, row.target)
          /\ \E x \in d.participant_consumer_transport : x.p = row.p /\ x.t = row.t

\* Something names transport t as one of participant p: a map, a table or a request.
Names(t, p) ==
    \/ \E x \in transport_map : x.id = t /\ x.p = p
    \/ \E row \in TransportRows(db) : row.t = t /\ row.p = p
    \/ \E r \in Requests : call[r].p = p /\ t \in {local[r].transport, call[r].t}

OneOwner ==
    \A t \in Transports : \A p, q \in Participants \cup {None} :
       Names(t, p) /\ Names(t, q) => p = q

\* Until it is registered, a new transport is known to its recreate helper alone.
Unshared(r) ==
    pc[r] = "rt_register" =>
       /\ \A x \in transport_map : x.id # local[r].transport
       /\ \A row \in TransportRows(db) : row.t # local[r].transport
       /\ \A q \in Requests : call[q].t # local[r].transport
       /\ \A q \in Requests \ {r} : local[q].transport # local[r].transport

\* While the transport a create_producer was called with is registered, its participant
\* is still in the meeting of the call: leaving it would have taken the transport along.
StaysWhileRegistered(r) ==
    pc[r] \in ProduceSteps =>
       \A row \in db.participant_producer_transport :
          row.t = call[r].t => \E y \in db.participant_meeting : y.p = row.p /\ y.m = call[r].m

\* Each create_producer has a producer of its own, which no row has until it inserts it.
OneProducerEach ==
    \A r, q \in Requests :
       local[r].producer # None /\ local[r].producer = local[q].producer => r = q

Unrecorded(r) ==
    pc[r] \in {"cp_routers", "cp_register"} =>
       \A row \in db.participant_producers : row.id # local[r].producer

\* The consumers a create_consumer made are its participant's.
MadeForCaller(r) == \A x \in local[r].made : x.p = call[r].p

\* A request that is over has no transport and no consumer.
IdleHasNone(r) == pc[r] = "idle" => local[r].transport = None /\ local[r].made = {}

RequestInv(r) ==
    /\ Unshared(r) /\ StaysWhileRegistered(r) /\ Unrecorded(r)
    /\ MadeForCaller(r) /\ IdleHasNone(r)

RosterInv ==
    /\ Consistent(db)
    /\ OneOwner
    /\ OneProducerEach
    /\ \A r \in Requests : RequestInv(r)

-----------------------------------------------------------------------------
(* What the Roster shows of the tables *)

\* The Roster's view of the rows.
Publications(d) == {[id |-> row.id, p |-> row.p, kind |-> row.kind, m |-> row.m] :
                       row \in d.participant_producers}
Subscriptions(d) == {[id |-> row.id, p |-> row.p, target |-> row.target, kind |-> row.kind] :
                        row \in d.participant_consumers}

\* The variables of the Roster are these views of the tables.
LEMMA RosterVars ==
  roster!rosterVars = <<db.meeting_status, db.participant_meeting, Publications(db), Subscriptions(db)>>
  BY DEF roster!rosterVars, Publications, Subscriptions

-----------------------------------------------------------------------------
(* What the transactions do to the tables the Roster shows *)

\* The tables of the participants, their transports, producers and consumers.
SameRows(d, e) ==
    /\ e.participant_meeting = d.participant_meeting
    /\ e.participant_producer_transport = d.participant_producer_transport
    /\ e.participant_consumer_transport = d.participant_consumer_transport
    /\ e.participant_producers = d.participant_producers
    /\ e.participant_consumers = d.participant_consumers

\* The participants P are deleted, with all that belongs to them or consumes them, and
\* the presences New are inserted.
Departed(d, e, P, New) ==
    /\ e.participant_meeting = {x \in d.participant_meeting : x.p \notin P} \cup New
    /\ e.participant_producer_transport = {x \in d.participant_producer_transport : x.p \notin P}
    /\ e.participant_consumer_transport = {x \in d.participant_consumer_transport : x.p \notin P}
    /\ e.participant_producers = {x \in d.participant_producers : x.p \notin P}
    /\ e.participant_consumers =
          {x \in d.participant_consumers : x.p \notin P /\ x.target \notin P}

PresentIn(d, m) == {row.p : row \in {x \in d.participant_meeting : x.m = m}}

\* The cascade over the transports of the participants takes no row but their own.
LEMMA DeleteEffect ==
  ASSUME NEW d \in Databases, Consistent(d), NEW P
  PROVE  /\ Departed(d, DeleteParticipants(d, P), P, {})
         /\ DeleteParticipants(d, P).meeting_status = d.meeting_status
<1> DEFINE e == DeleteParticipants(d, P)
           producing == TransportsOf(d.participant_producer_transport, P)
           consuming == TransportsOf(d.participant_consumer_transport, P)
<1>1. /\ e.meeting_status = d.meeting_status
      /\ e.participant_meeting = Without(d.participant_meeting, P)
      /\ e.participant_producer_transport = Without(d.participant_producer_transport, P)
      /\ e.participant_consumer_transport = Without(d.participant_consumer_transport, P)
      /\ e.participant_producers =
            {row \in d.participant_producers : row.p \notin P /\ row.t \notin producing}
      /\ e.participant_consumers =
            {row \in d.participant_consumers : row.p \notin P /\ row.target \notin P
                                                              /\ row.t \notin consuming}
  BY DEF DeleteParticipants, Databases
<1> HIDE DEF e
<1>2. \A row \in d.participant_producers : row.t \in producing => row.p \in P
  BY DEF Consistent, TransportsOf
<1>3. \A row \in d.participant_consumers : row.t \in consuming => row.p \in P
  BY DEF Consistent, TransportsOf
<1> HIDE DEF producing, consuming
<1>4. Departed(d, e, P, {})
  BY <1>1, <1>2, <1>3 DEF Departed, Without
<1> QED
  BY <1>1, <1>4 DEF e

\* Deleting a meeting deletes whoever is in it.
LEMMA DeleteMeetingEffect ==
  ASSUME NEW d \in Databases, Consistent(d), NEW m
  PROVE  /\ Departed(d, DeleteMeetingStatus(d, m), PresentIn(d, m), {})
         /\ DeleteMeetingStatus(d, m).meeting_status = d.meeting_status \ {m}
         /\ DeleteMeetingStatus(d, m).router_worker = d.router_worker
         /\ DeleteMeetingStatus(d, m).router_meeting = {row \in d.router_meeting : row.m # m}
<1> DEFINE e == DeleteParticipants(d, PresentIn(d, m))
           f == [e EXCEPT !.meeting_status = @ \ {m},
                          !.router_meeting = {row \in @ : row.m # m}]
<1>1. f = DeleteMeetingStatus(d, m)
  BY DEF DeleteMeetingStatus, PresentIn
<1>2. e \in Databases /\ Departed(d, e, PresentIn(d, m), {}) /\ e.meeting_status = d.meeting_status
  BY DeleteEffect, DeleteParticipantsType
<1>3. e.router_worker = d.router_worker /\ e.router_meeting = d.router_meeting
  BY DEF DeleteParticipants, Databases
<1> HIDE DEF e
<1>4. /\ f.meeting_status = e.meeting_status \ {m} /\ SameRows(e, f)
      /\ f.router_worker = e.router_worker
      /\ f.router_meeting = {row \in e.router_meeting : row.m # m}
  BY <1>2 DEF Databases, SameRows
<1> HIDE DEF f
<1> QED
  BY <1>1, <1>2, <1>3, <1>4 DEF Departed, SameRows

\* A meeting and its routers are inserted, or the transaction is rolled back to d0.
LEMMA InsertMeetingEffect ==
  ASSUME NEW d0 \in Databases, NEW d \in Databases, NEW m, NEW R, NEW e,
         e = Finish(d0, InsertRouters(InsertMeetingStatus(Start(d), m), m, R)).db
  PROVE  \/ e = d0
         \/ /\ m \notin d.meeting_status
            /\ e.meeting_status = d.meeting_status \cup {m}
            /\ SameRows(d, e)
            /\ e.router_worker = d.router_worker \cup R
            /\ R \cap d.router_worker = {}
            /\ e.router_meeting = d.router_meeting \cup {[router |-> x, m |-> m] : x \in R}
            /\ \A x \in e.router_meeting : x \in d.router_meeting \/ (x.m = m /\ x.router \in R)
<1> DEFINE d1 == [d EXCEPT !.meeting_status = @ \cup {m}]
           rows == {[router |-> x, m |-> m] : x \in R}
           d2 == [d1 EXCEPT !.router_worker = @ \cup R, !.router_meeting = @ \cup rows]
           tx1 == InsertMeetingStatus(Start(d), m)
           tx2 == InsertRouters(tx1, m, R)
<1>1. CASE m \in d.meeting_status
  <2>1. tx1.error = DuplicateKey
    BY <1>1 DEF InsertMeetingStatus, Insert, Start, NoError, DuplicateKey
  <2>2. tx2 = tx1
    BY <2>1 DEF InsertRouters, Insert, NoError, DuplicateKey
  <2> QED
    BY <2>1, <2>2 DEF Finish, NoError, DuplicateKey
<1>2. CASE m \notin d.meeting_status
  <2>1. tx1.error = NoError /\ tx1.db = d1
    BY <1>2 DEF InsertMeetingStatus, Insert, Start, NoError
  <2> HIDE DEF tx1, d1, rows
  <2>2. tx2.error # NoError \/ (tx2.db = d2 /\ R \cap tx1.db.router_worker = {})
    <3>1. tx2 = Insert(tx1, TRUE, R \cap tx1.db.router_worker # {},
                       m \in tx1.db.meeting_status, d2)
      BY <2>1 DEF InsertRouters, rows
    <3> HIDE DEF tx2, d2
    <3>2. CASE R \cap tx1.db.router_worker # {}
      BY <2>1, <3>1, <3>2 DEF Insert, NoError, DuplicateKey
    <3>3. CASE R \cap tx1.db.router_worker = {}
      BY <2>1, <3>1, <3>3 DEF Insert, NoError, ForeignKey
    <3> QED
      BY <3>2, <3>3
  <2> HIDE DEF tx2
  <2>3. e = d0 \/ (e = d2 /\ R \cap tx1.db.router_worker = {})
    BY <2>2 DEF Finish, tx1, tx2
  <2>4. /\ d1.meeting_status = d.meeting_status \cup {m} /\ SameRows(d, d1)
        /\ d1.router_worker = d.router_worker /\ d1.router_meeting = d.router_meeting
    BY DEF d1, Databases, SameRows
  <2>5. /\ d2.meeting_status = d.meeting_status \cup {m} /\ SameRows(d, d2)
        /\ d2.router_worker = d.router_worker \cup R
        /\ d2.router_meeting = d.router_meeting \cup rows
    BY <2>4 DEF SameRows, d1, Databases
  <2>6. \A x \in rows : x.m = m /\ x.router \in R
    BY DEF rows
  <2>7. e = d0 \/ (e = d2 /\ R \cap d.router_worker = {})
    BY <2>1, <2>3, <2>4
  <2> HIDE DEF d2
  <2> QED
    BY <1>2, <2>5, <2>6, <2>7 DEF rows
<1> QED
  BY <1>1, <1>2

\* createMeeting's transaction opens the meeting or changes nothing.
LEMMA CreateEffect ==
  ASSUME NEW d \in Databases, NEW m, NEW R, NEW e, e = CreateMeetingTx(d, m, R).db
  PROVE  \/ e = d
         \/ /\ m \notin d.meeting_status
            /\ e.meeting_status = d.meeting_status \cup {m}
            /\ SameRows(d, e)
  BY InsertMeetingEffect DEF CreateMeetingTx

\* replaceMeetings' transaction empties the meeting or changes nothing.
LEMMA ReplaceEffect ==
  ASSUME NEW d \in Databases, Consistent(d), NEW m, NEW R, NEW e,
         e = ReplaceMeetingTx(d, m, R).db
  PROVE  \/ e = d
         \/ /\ e.meeting_status = d.meeting_status \cup {m}
            /\ Departed(d, e, PresentIn(d, m), {})
<1> DEFINE f == DeleteMeetingStatus(d, m)
<1>1. /\ f \in Databases /\ f.meeting_status = d.meeting_status \ {m}
      /\ Departed(d, f, PresentIn(d, m), {})
  BY DeleteMeetingEffect, DeleteMeetingStatusType
<1>2. e = Finish(d, InsertRouters(InsertMeetingStatus(Start(f), m), m, R)).db
  BY DEF ReplaceMeetingTx
<1> HIDE DEF f
<1>3. \/ e = d
      \/ e.meeting_status = f.meeting_status \cup {m} /\ SameRows(f, e)
  BY <1>1, <1>2, InsertMeetingEffect
<1>4. (d.meeting_status \ {m}) \cup {m} = d.meeting_status \cup {m}
  OBVIOUS
<1> QED
  BY <1>1, <1>3, <1>4 DEF Departed, SameRows

\* endMeeting's transaction.
LEMMA EndEffect ==
  ASSUME NEW d \in Databases, Consistent(d), NEW m, NEW e, e = EndMeetingTx(d, m).db
  PROVE  /\ e.meeting_status = d.meeting_status \ {m}
         /\ Departed(d, e, PresentIn(d, m), {})
  BY DeleteMeetingEffect DEF EndMeetingTx, Finish, Start, NoError

\* leaveMeeting's transaction: only the instance that is in the meeting leaves it.
LEMMA LeaveEffect ==
  ASSUME db \in Databases, Consistent(db), NEW p \in Participants, NEW m \in Meetings,
         NEW i \in Instances, db' = LeaveTx(db, p, m, i).db
  PROVE  /\ db'.meeting_status = db.meeting_status
         /\ \/ SameRows(db, db')
            \/ /\ [p |-> p, m |-> m, i |-> i] \in db.participant_meeting
               /\ Departed(db, db', {p}, {})
<1> DEFINE P == {row.p : row \in {x \in db.participant_meeting : x.p = p /\ x.m = m /\ x.i = i}}
<1>1. db' = DeleteParticipants(db, P)
  BY DEF LeaveTx, Finish, Start, NoError
<1>2. db'.meeting_status = db.meeting_status /\ Departed(db, db', P, {})
  BY <1>1, DeleteEffect
<1>3. CASE [p |-> p, m |-> m, i |-> i] \in db.participant_meeting
  <2>1. P = {p}
    BY <1>3
  <2> QED
    BY <1>2, <1>3, <2>1
<1>4. CASE [p |-> p, m |-> m, i |-> i] \notin db.participant_meeting
  <2>1. \A x \in db.participant_meeting : ~(x.p = p /\ x.m = m /\ x.i = i)
    BY <1>4 DEF Databases, ParticipantMeeting
  <2>2. P = {}
    BY <2>1
  <2> HIDE DEF P
  <2> QED
    BY <1>2, <2>2 DEF Departed, SameRows
<1> QED
  BY <1>3, <1>4

\* The transaction of the recreate helpers: a new instance supersedes the other one of
\* the participant in the meeting, or enters when the participant is nowhere.
LEMMA JoinEffect ==
  ASSUME NEW d \in Databases, Consistent(d), NEW p \in Participants, NEW m \in Meetings,
         NEW i \in Instances, NEW kind, NEW router, NEW new, new = [p |-> p, m |-> m, i |-> i], NEW e,
         e = JoinTx(d, p, m, i, kind, router).db
  PROVE  /\ e.meeting_status = d.meeting_status
         /\ \/ SameRows(d, e)
            \/ /\ m \in d.meeting_status
               /\ HasParticipant(d, p) => \E x \in d.participant_meeting : x.p = p /\ x.m = m
               /\ new \notin d.participant_meeting
               /\ Departed(d, e, {p}, {new})
<1> DEFINE P == {row.p : row \in {x \in d.participant_meeting : x.p = p /\ x.m = m /\ x.i # i}}
<1>0. new.p = p /\ new.m = m /\ new.i = i
  OBVIOUS
<1>1. PICK f : f = DeleteOtherInstances(d, p, m, i)
  OBVIOUS
<1>2. f \in Databases /\ f.meeting_status = d.meeting_status /\ Departed(d, f, P, {})
  BY <1>1, DeleteEffect, DeleteParticipantsType DEF DeleteOtherInstances
<1>3. P = {p} \/ P = {}
  OBVIOUS
<1>4. PICK tx : tx = InsertParticipantMeeting(Start(f), p, m, i)
  OBVIOUS
<1>5. PICK g : g = [f EXCEPT !.participant_meeting = @ \cup {new}]
  OBVIOUS
<1>6. /\ g.meeting_status = f.meeting_status
      /\ g.participant_meeting = f.participant_meeting \cup {new}
      /\ g.participant_producer_transport = f.participant_producer_transport
      /\ g.participant_consumer_transport = f.participant_consumer_transport
      /\ g.participant_producers = f.participant_producers
      /\ g.participant_consumers = f.participant_consumers
  BY <1>2, <1>5 DEF Databases
<1>7. \/ tx.error # NoError
      \/ tx.error = NoError /\ tx.db = f /\ HasParticipant(f, p)
      \/ tx.error = NoError /\ tx.db = g /\ ~HasParticipant(f, p) /\ m \in f.meeting_status
  <2>1. tx = Insert(Start(f), FALSE, HasParticipant(f, p), m \in f.meeting_status, g)
    BY <1>4, <1>5 DEF InsertParticipantMeeting, Start
  <2> QED
    BY <2>1 DEF Insert, Start, NoError, ForeignKey
<1>8. tx \in Transactions
  BY <1>2, <1>4, StartType, InsertParticipantMeetingType
<1>9. PICK ty : ty = IF kind = "producer" THEN InsertProducerRouter(tx, p, router)
                                          ELSE InsertConsumerRouter(tx, p, router)
  OBVIOUS
<1>10. \/ ty.error # NoError
       \/ tx.error = NoError /\ ty.db.meeting_status = tx.db.meeting_status /\ SameRows(tx.db, ty.db)
  <2>1. ASSUME NEW duplicate, NEW parents, NEW after,
               after.meeting_status = tx.db.meeting_status, SameRows(tx.db, after),
               ty = Insert(tx, FALSE, duplicate, parents, after)
        PROVE  \/ ty.error # NoError
               \/ /\ tx.error = NoError /\ ty.db.meeting_status = tx.db.meeting_status
                  /\ SameRows(tx.db, ty.db)
    BY <1>8, <2>1 DEF Insert, Transactions, NoError, ForeignKey, SameRows
  <2> DEFINE after1 == [tx.db EXCEPT !.participant_producer_router =
                                         @ \cup {[p |-> p, router |-> router]}]
             after2 == [tx.db EXCEPT !.participant_consumer_router =
                                         @ \cup {[p |-> p, router |-> router]}]
  <2>2. /\ after1.meeting_status = tx.db.meeting_status /\ SameRows(tx.db, after1)
        /\ after2.meeting_status = tx.db.meeting_status /\ SameRows(tx.db, after2)
    BY <1>8 DEF Transactions, Databases, SameRows
  <2>3. CASE kind = "producer"
    <3>1. ty = Insert(tx, FALSE, HasRow(tx.db.participant_producer_router, p),
                      HasParticipant(tx.db, p) /\ router \in tx.db.router_worker, after1)
      BY <1>9, <2>3 DEF InsertProducerRouter
    <3> QED
      BY <2>1, <2>2, <3>1
  <2>4. CASE kind # "producer"
    <3>1. ty = Insert(tx, FALSE, HasRow(tx.db.participant_consumer_router, p),
                      HasParticipant(tx.db, p) /\ router \in tx.db.router_worker, after2)
      BY <1>9, <2>4 DEF InsertConsumerRouter
    <3> QED
      BY <2>1, <2>2, <3>1
  <2> QED
    BY <2>3, <2>4
<1>11. e = IF ty.error = NoError THEN ty.db ELSE d
  BY <1>1, <1>4, <1>9 DEF JoinTx, Finish
<1>12. CASE e = d
  BY <1>12 DEF SameRows
<1>13. CASE e # d /\ HasParticipant(f, p)
  <2>1. e.meeting_status = f.meeting_status /\ SameRows(f, e)
    BY <1>7, <1>10, <1>11, <1>13 DEF SameRows
  <2>2. P = {}
    BY <1>2, <1>3, <1>13 DEF HasParticipant, Departed
  <2> HIDE DEF P
  <2> QED
    BY <1>2, <2>1, <2>2 DEF Departed, SameRows
<1>14. CASE e # d /\ ~HasParticipant(f, p)
  <2>1. e.meeting_status = g.meeting_status /\ SameRows(g, e) /\ m \in f.meeting_status
    BY <1>7, <1>10, <1>11, <1>14
  <2>2. \A x \in d.participant_meeting : x.p = p => P = {p} /\ x.m = m /\ x.i # i
    <3> SUFFICES ASSUME NEW x \in d.participant_meeting, x.p = p
                 PROVE  P = {p} /\ x.m = m /\ x.i # i
      OBVIOUS
    <3>1. P = {p}
      BY <1>2, <1>3, <1>14 DEF Departed, HasParticipant
    <3>2. PICK y \in d.participant_meeting : y.p = p /\ y.m = m /\ y.i # i
      BY <3>1
    <3> QED
      BY <3>1, <3>2 DEF Consistent
  <2>3. new \notin d.participant_meeting
    BY <1>0, <2>2
  <2>4. CASE P = {p}
    <3>1. Departed(d, e, {p}, {new})
      BY <1>2, <1>6, <2>1, <2>4 DEF Departed, SameRows
    <3>2. HasParticipant(d, p) => \E x \in d.participant_meeting : x.p = p /\ x.m = m
      BY <2>2 DEF HasParticipant
    <3> QED
      BY <1>2, <1>6, <2>1, <2>3, <3>1, <3>2
  <2>5. CASE P = {}
    <3>1. ~HasParticipant(d, p)
      BY <2>2, <2>5 DEF HasParticipant
    <3>2. /\ \A x \in d.participant_meeting : x.p # p
          /\ \A x \in d.participant_producer_transport : x.p # p
          /\ \A x \in d.participant_consumer_transport : x.p # p
      BY <3>1 DEF HasParticipant, Consistent, TransportRows
    <3>3. /\ \A x \in d.participant_producers : x.p # p
          /\ \A x \in d.participant_consumers : x.p # p /\ x.target # p
      BY <3>1, <3>2 DEF Consistent, HasParticipant
    <3> HIDE DEF P
    <3>4. Departed(d, f, {}, {})
      BY <1>2, <2>5
    <3>5. Departed(d, e, {p}, {new})
      BY <1>6, <2>1, <3>2, <3>3, <3>4 DEF Departed, SameRows
    <3> QED
      BY <1>2, <1>6, <2>1, <2>3, <3>1, <3>5
  <2> QED
    BY <1>3, <2>4, <2>5
<1> QED
  BY <1>12, <1>13, <1>14

\* The transaction that registers a transport of a participant who is present.
LEMMA RegisterTransportEffect ==
  ASSUME NEW d \in Databases, NEW p, NEW kind, NEW t, NEW e,
         e = RegisterTransportTx(d, p, kind, t).db
  PROVE  /\ e.meeting_status = d.meeting_status
         /\ e.participant_meeting = d.participant_meeting
         /\ e.participant_producers = d.participant_producers
         /\ e.participant_consumers = d.participant_consumers
         /\ \/ SameRows(d, e)
            \/ /\ HasParticipant(d, p)
               /\ ~HasTransport(d.participant_producer_transport, t)
               /\ e.participant_producer_transport =
                     d.participant_producer_transport \cup {[p |-> p, t |-> t]}
               /\ e.participant_consumer_transport = d.participant_consumer_transport
            \/ /\ HasParticipant(d, p)
               /\ ~HasTransport(d.participant_consumer_transport, t)
               /\ e.participant_consumer_transport =
                     d.participant_consumer_transport \cup {[p |-> p, t |-> t]}
               /\ e.participant_producer_transport = d.participant_producer_transport
<1> DEFINE new == {[p |-> p, t |-> t]}
           produced == [d EXCEPT !.participant_producer_transport = @ \cup new]
           consumed == [d EXCEPT !.participant_consumer_transport = @ \cup new]
<1>1. CASE kind = "producer"
  <2>1. e = d \/ (/\ HasParticipant(d, p)
                  /\ ~HasTransport(d.participant_producer_transport, t)
                  /\ e = produced)
    BY <1>1 DEF RegisterTransportTx, InsertProducerTransport, Insert, Start, Finish,
                NoError, DuplicateKey, ForeignKey
  <2> HIDE DEF new
  <2>2. e = d \/ (/\ e.participant_producer_transport = d.participant_producer_transport \cup new
                  /\ e.participant_consumer_transport = d.participant_consumer_transport
                  /\ e.meeting_status = d.meeting_status
                  /\ e.participant_meeting = d.participant_meeting
                  /\ e.participant_producers = d.participant_producers
                  /\ e.participant_consumers = d.participant_consumers)
    BY <2>1 DEF Databases
  <2> HIDE DEF produced, consumed
  <2> QED
    BY <2>1, <2>2 DEF SameRows, new
<1>2. CASE kind # "producer"
  <2>1. e = d \/ (/\ HasParticipant(d, p)
                  /\ ~HasTransport(d.participant_consumer_transport, t)
                  /\ e = consumed)
    BY <1>2 DEF RegisterTransportTx, InsertConsumerTransport, Insert, Start, Finish,
                NoError, DuplicateKey, ForeignKey
  <2> HIDE DEF new
  <2>2. e = d \/ (/\ e.participant_consumer_transport = d.participant_consumer_transport \cup new
                  /\ e.participant_producer_transport = d.participant_producer_transport
                  /\ e.meeting_status = d.meeting_status
                  /\ e.participant_meeting = d.participant_meeting
                  /\ e.participant_producers = d.participant_producers
                  /\ e.participant_consumers = d.participant_consumers)
    BY <2>1 DEF Databases
  <2> HIDE DEF produced, consumed
  <2> QED
    BY <2>1, <2>2 DEF SameRows, new
<1> QED
  BY <1>1, <1>2

\* The tables that hold participants and transports.
SameParticipants(d, e) ==
    /\ e.meeting_status = d.meeting_status
    /\ e.participant_meeting = d.participant_meeting
    /\ e.participant_producer_transport = d.participant_producer_transport
    /\ e.participant_consumer_transport = d.participant_consumer_transport

\* create_producer's transaction.
LEMMA RegisterProducerEffect ==
  ASSUME NEW d \in Databases, NEW row, NEW e, e = RegisterProducerTx(d, row).db
  PROVE  /\ SameParticipants(d, e)
         /\ e.participant_consumers = d.participant_consumers
         /\ \/ e.participant_producers = d.participant_producers
            \/ /\ HasTransport(d.participant_producer_transport, row.t)
               /\ e.participant_producers = d.participant_producers \cup {row}
<1> DEFINE new == [d EXCEPT !.participant_producers = @ \cup {row}]
<1>1. e = d \/ (HasTransport(d.participant_producer_transport, row.t) /\ e = new)
  BY DEF RegisterProducerTx, InsertProducer, Insert, Start, Finish, NoError, ForeignKey
<1>2. SameParticipants(d, new) /\ new.participant_consumers = d.participant_consumers
      /\ new.participant_producers = d.participant_producers \cup {row}
  BY DEF Databases, SameParticipants
<1> HIDE DEF new
<1> QED
  BY <1>1, <1>2 DEF SameParticipants

\* create_consumer's transaction.
LEMMA RegisterConsumersEffect ==
  ASSUME NEW d \in Databases, NEW rows, NEW e, e = RegisterConsumersTx(d, rows).db
  PROVE  /\ SameParticipants(d, e)
         /\ e.participant_producers = d.participant_producers
         /\ \/ e.participant_consumers = d.participant_consumers
            \/ /\ \A row \in rows :
                     /\ HasParticipant(d, row.p) /\ HasParticipant(d, row.target)
                     /\ HasTransport(d.participant_consumer_transport, row.t)
                     /\ \A old \in d.participant_consumers :
                           ~(row.p = old.p /\ row.target = old.target /\ row.kind = old.kind)
               /\ e.participant_consumers = d.participant_consumers \cup rows
<1> DEFINE new == [d EXCEPT !.participant_consumers = @ \cup rows]
           duplicate == \E row \in rows, old \in d.participant_consumers :
                           row.p = old.p /\ row.target = old.target /\ row.kind = old.kind
           parents == \A row \in rows :
                         /\ HasParticipant(d, row.p) /\ HasParticipant(d, row.target)
                         /\ HasTransport(d.participant_consumer_transport, row.t)
<1>1. e = Finish(d, Insert(Start(d), TRUE, duplicate, parents, new)).db
  BY DEF RegisterConsumersTx, InsertConsumers, Start
<1>2. /\ SameParticipants(d, new) /\ new.participant_producers = d.participant_producers
      /\ new.participant_consumers = d.participant_consumers \cup rows
  BY DEF Databases, SameParticipants
<1>3. e = d \/ (~duplicate /\ parents /\ e = new)
  <2> HIDE DEF duplicate, parents, new
  <2> QED
    BY <1>1 DEF Insert, Start, Finish, NoError, DuplicateKey, ForeignKey
<1> HIDE DEF new
<1> QED
  BY <1>2, <1>3 DEF SameParticipants

\* The transactions of closeProducer and closeConsumer.
LEMMA CloseEffect ==
  ASSUME NEW d \in Databases, NEW p, NEW ids
  PROVE  /\ LET e == DeleteProducersTx(d, p, ids).db
            IN  /\ SameParticipants(d, e)
                /\ e.participant_consumers = d.participant_consumers
                /\ e.participant_producers =
                      {row \in d.participant_producers : ~(row.p = p /\ row.id \in ids)}
         /\ LET e == DeleteConsumersTx(d, ids).db
            IN  /\ SameParticipants(d, e)
                /\ e.participant_producers = d.participant_producers
                /\ e.participant_consumers = {row \in d.participant_consumers : row.id \notin ids}
  BY DEF DeleteProducersTx, DeleteConsumersTx, Finish, Start, NoError, Databases, SameParticipants

-----------------------------------------------------------------------------
(* The keys survive every transaction. *)

\* A departure keeps the keys, and the rows it keeps stay with their participants.
LEMMA DepartedConsistent ==
  ASSUME NEW d, NEW e, NEW P, NEW New, Consistent(d), Departed(d, e, P, New),
         \A x, y \in New : x = y, \A x \in New : x.p \in P
  PROVE  Consistent(e)
<1>1. \A q : q \notin P /\ HasParticipant(d, q) => HasParticipant(e, q)
  BY DEF Departed, HasParticipant
<1>2. \A x, y \in e.participant_meeting : x.p = y.p => x = y
  BY DEF Departed, Consistent
<1>3. /\ \A x, y \in e.participant_producer_transport : x.t = y.t => x = y
      /\ \A x, y \in e.participant_consumer_transport : x.t = y.t => x = y
  BY DEF Departed, Consistent
<1>4. \A row \in TransportRows(e) : HasParticipant(e, row.p)
  BY <1>1 DEF Departed, Consistent, TransportRows
<1>5. \A row \in e.participant_producers :
         \E x \in e.participant_producer_transport : x.p = row.p /\ x.t = row.t
  BY DEF Departed, Consistent
<1>6. \A row \in e.participant_consumers :
         /\ HasParticipant(e, row.target)
         /\ \E x \in e.participant_consumer_transport : x.p = row.p /\ x.t = row.t
  BY <1>1 DEF Departed, Consistent
<1> QED
  BY <1>2, <1>3, <1>4, <1>5, <1>6 DEF Consistent

\* So does a transaction that leaves these rows alone.
LEMMA SameConsistent ==
  ASSUME NEW d, NEW e, Consistent(d), SameRows(d, e)
  PROVE  Consistent(e)
  BY DEF SameRows, Consistent, TransportRows, HasParticipant

\* A new transport.
LEMMA RegisterTransportConsistent ==
  ASSUME NEW d \in Databases, NEW p, NEW kind, NEW t, NEW e, Consistent(d),
         e = RegisterTransportTx(d, p, kind, t).db
  PROVE  Consistent(e)
<1>1. CASE SameRows(d, e)
  BY <1>1, SameConsistent
<1>2. CASE ~SameRows(d, e)
  <2> DEFINE new == [p |-> p, t |-> t]
  <2>1. new.p = p /\ new.t = t
    OBVIOUS
  <2>2. /\ HasParticipant(d, p)
        /\ e.participant_meeting = d.participant_meeting
        /\ e.participant_producers = d.participant_producers
        /\ e.participant_consumers = d.participant_consumers
        /\ \/ /\ ~HasTransport(d.participant_producer_transport, t)
              /\ e.participant_producer_transport = d.participant_producer_transport \cup {new}
              /\ e.participant_consumer_transport = d.participant_consumer_transport
           \/ /\ ~HasTransport(d.participant_consumer_transport, t)
              /\ e.participant_consumer_transport = d.participant_consumer_transport \cup {new}
              /\ e.participant_producer_transport = d.participant_producer_transport
    BY <1>2, RegisterTransportEffect
  <2> HIDE DEF new
  <2>3. \A q : HasParticipant(d, q) => HasParticipant(e, q)
    BY <2>2 DEF HasParticipant
  <2>4. /\ \A x, y \in e.participant_producer_transport : x.t = y.t => x = y
        /\ \A x, y \in e.participant_consumer_transport : x.t = y.t => x = y
    BY <2>1, <2>2 DEF Consistent, HasTransport
  <2>5. \A row \in TransportRows(e) : HasParticipant(e, row.p)
    BY <2>1, <2>2, <2>3 DEF Consistent, TransportRows
  <2>6. \A row \in e.participant_producers :
           \E x \in e.participant_producer_transport : x.p = row.p /\ x.t = row.t
    BY <2>2 DEF Consistent
  <2>7. \A row \in e.participant_consumers :
           /\ HasParticipant(e, row.target)
           /\ \E x \in e.participant_consumer_transport : x.p = row.p /\ x.t = row.t
    BY <2>2, <2>3 DEF Consistent
  <2> QED
    BY <2>2, <2>4, <2>5, <2>6, <2>7 DEF Consistent
<1> QED
  BY <1>1, <1>2

\* New or fewer producers and consumers, on transports of their participants.
LEMMA RowsConsistent ==
  ASSUME NEW d, NEW e, Consistent(d), SameParticipants(d, e),
         \A row \in e.participant_producers :
            \/ row \in d.participant_producers
            \/ \E x \in d.participant_producer_transport : x.p = row.p /\ x.t = row.t,
         \A row \in e.participant_consumers :
            \/ row \in d.participant_consumers
            \/ /\ HasParticipant(d, row.target)
               /\ \E x \in d.participant_consumer_transport : x.p = row.p /\ x.t = row.t
  PROVE  Consistent(e)
<1>1. \A q : HasParticipant(d, q) => HasParticipant(e, q)
  BY DEF HasParticipant, SameParticipants
<1>2. \A row \in TransportRows(e) : HasParticipant(e, row.p)
  BY <1>1 DEF Consistent, TransportRows, SameParticipants
<1>3. \A row \in e.participant_producers :
         \E x \in e.participant_producer_transport : x.p = row.p /\ x.t = row.t
  BY DEF Consistent, SameParticipants
<1>4. \A row \in e.participant_consumers :
         /\ HasParticipant(e, row.target)
         /\ \E x \in e.participant_consumer_transport : x.p = row.p /\ x.t = row.t
  BY <1>1 DEF Consistent, SameParticipants
<1> QED
  BY <1>2, <1>3, <1>4 DEF Consistent, SameParticipants

-----------------------------------------------------------------------------
(* Each transaction is a step of the Roster. *)

RosterStep == [roster!RosterNext]_(roster!rosterVars)

\* What the Roster shows is unchanged.
LEMMA SameRoster ==
  ASSUME db'.meeting_status = db.meeting_status, SameRows(db, db')
  PROVE  RosterStep
  BY DEF RosterStep, roster!rosterVars, SameRows

\* A departure, as the Roster shows it.
LEMMA DepartRoster ==
  ASSUME NEW P, NEW New, Departed(db, db', P, New)
  PROVE  roster!Depart(P, New)
<1>1. Publications(db') = {x \in Publications(db) : x.p \notin P}
  <2>1. db'.participant_producers = {x \in db.participant_producers : x.p \notin P}
    BY DEF Departed
  <2> QED
    BY <2>1 DEF Publications
<1>2. Subscriptions(db') = {x \in Subscriptions(db) : x.p \notin P /\ x.target \notin P}
  <2>1. db'.participant_consumers =
           {x \in db.participant_consumers : x.p \notin P /\ x.target \notin P}
    BY DEF Departed
  <2> QED
    BY <2>1 DEF Subscriptions
<1>3. db'.participant_meeting = {x \in db.participant_meeting : x.p \notin P} \cup New
  BY DEF Departed
<1> QED
  BY <1>1, <1>2, <1>3 DEF roster!Depart, Publications, Subscriptions

\* Everyone in the meeting, for the Roster and for the cascade.
LEMMA EveryoneIn ==
  ASSUME db \in Databases, NEW m
  PROVE  roster!Everyone(m) = PresentIn(db, m)
<1>1. \A x \in db.participant_meeting : x.p \in Participants
  BY DEF Databases, ParticipantMeeting
<1> QED
  BY <1>1 DEF roster!Everyone, roster!In, PresentIn

\* createMeeting opens the meeting.
LEMMA CreateRoster ==
  ASSUME db \in Databases, NEW m \in Meetings, NEW R, db' = CreateMeetingTx(db, m, R).db
  PROVE  RosterStep
<1>1. \/ db' = db
      \/ /\ m \notin db.meeting_status
         /\ db'.meeting_status = db.meeting_status \cup {m}
         /\ SameRows(db, db')
  BY CreateEffect
<1>2. CASE db' = db
  BY <1>2, SameRoster DEF SameRows
<1>3. CASE db' # db
  <2>1. roster!Open(m)
    BY <1>1, <1>3 DEF roster!Open, SameRows
  <2> QED
    BY <2>1 DEF RosterStep, roster!RosterNext
<1> QED
  BY <1>2, <1>3

\* replaceMeetings starts the meeting over.
LEMMA ReplaceRoster ==
  ASSUME db \in Databases, Consistent(db), NEW m \in Meetings, NEW R,
         db' = ReplaceMeetingTx(db, m, R).db
  PROVE  RosterStep
<1>1. \/ db' = db
      \/ /\ db'.meeting_status = db.meeting_status \cup {m}
         /\ Departed(db, db', PresentIn(db, m), {})
  BY ReplaceEffect
<1>2. CASE db' = db
  BY <1>2, SameRoster DEF SameRows
<1>3. CASE db' # db
  <2>1. roster!Depart(roster!Everyone(m), {})
    BY <1>1, <1>3, DepartRoster, EveryoneIn
  <2>2. roster!Replace(m)
    BY <1>1, <1>3, <2>1 DEF roster!Replace
  <2> QED
    BY <2>2 DEF RosterStep, roster!RosterNext
<1> QED
  BY <1>2, <1>3

\* endMeeting ends it.
LEMMA EndRoster ==
  ASSUME db \in Databases, Consistent(db), NEW m \in Meetings, db' = EndMeetingTx(db, m).db
  PROVE  RosterStep
<1>1. /\ db'.meeting_status = db.meeting_status \ {m}
      /\ Departed(db, db', PresentIn(db, m), {})
  BY EndEffect
<1>2. roster!Depart(roster!Everyone(m), {})
  BY <1>1, DepartRoster, EveryoneIn
<1>3. roster!End(m)
  BY <1>1, <1>2 DEF roster!End
<1> QED
  BY <1>3 DEF RosterStep, roster!RosterNext

\* leaveMeeting.
LEMMA LeaveRoster ==
  ASSUME db \in Databases, Consistent(db), NEW p \in Participants, NEW m \in Meetings,
         NEW i \in Instances, db' = LeaveTx(db, p, m, i).db
  PROVE  RosterStep
<1>1. /\ db'.meeting_status = db.meeting_status
      /\ \/ SameRows(db, db')
         \/ /\ [p |-> p, m |-> m, i |-> i] \in db.participant_meeting
            /\ Departed(db, db', {p}, {})
  BY LeaveEffect
<1>2. CASE SameRows(db, db')
  BY <1>1, <1>2, SameRoster
<1>3. CASE ~SameRows(db, db')
  <2>1. roster!Depart({p}, {})
    BY <1>1, <1>3, DepartRoster
  <2>2. roster!Leave(p, m, i)
    BY <1>1, <1>3, <2>1 DEF roster!Leave
  <2> QED
    BY <2>2 DEF RosterStep, roster!RosterNext
<1> QED
  BY <1>2, <1>3

\* The recreate helpers join the participant.
LEMMA JoinRoster ==
  ASSUME db \in Databases, Consistent(db), NEW p \in Participants, NEW m \in Meetings,
         NEW i \in Instances, NEW kind, NEW router,
         db' = JoinTx(db, p, m, i, kind, router).db
  PROVE  RosterStep
<1> DEFINE new == [p |-> p, m |-> m, i |-> i]
<1>1. /\ db'.meeting_status = db.meeting_status
      /\ \/ SameRows(db, db')
         \/ /\ m \in db.meeting_status
            /\ HasParticipant(db, p) => \E x \in db.participant_meeting : x.p = p /\ x.m = m
            /\ new \notin db.participant_meeting
            /\ Departed(db, db', {p}, {new})
  <2>1. PICK e, row : e = db' /\ row = [p |-> p, m |-> m, i |-> i]
    OBVIOUS
  <2>2. /\ e.meeting_status = db.meeting_status
        /\ \/ SameRows(db, e)
           \/ /\ m \in db.meeting_status
              /\ HasParticipant(db, p) => \E x \in db.participant_meeting : x.p = p /\ x.m = m
              /\ row \notin db.participant_meeting
              /\ Departed(db, e, {p}, {row})
    BY <2>1, JoinEffect
  <2> QED
    BY <2>1, <2>2
<1>2. CASE SameRows(db, db')
  BY <1>1, <1>2, SameRoster
<1>3. CASE ~SameRows(db, db')
  <2>1. roster!Depart({p}, {new})
    BY <1>1, <1>3, DepartRoster
  <2>2. roster!Somewhere(p) => roster!In(p, m)
    BY <1>1, <1>3 DEF roster!Somewhere, roster!In, HasParticipant
  <2>3. roster!Join(p, m, i)
    BY <1>1, <1>3, <2>1, <2>2 DEF roster!Join
  <2> QED
    BY <2>3 DEF RosterStep, roster!RosterNext
<1> QED
  BY <1>2, <1>3

\* Registering a transport is no change for the Roster.
LEMMA RegisterTransportRoster ==
  ASSUME db \in Databases, NEW p, NEW kind, NEW t, db' = RegisterTransportTx(db, p, kind, t).db
  PROVE  RosterStep
<1>1. /\ db'.meeting_status = db.meeting_status
      /\ db'.participant_meeting = db.participant_meeting
      /\ db'.participant_producers = db.participant_producers
      /\ db'.participant_consumers = db.participant_consumers
  BY RegisterTransportEffect
<1> QED
  BY <1>1 DEF RosterStep, roster!rosterVars

\* create_producer publishes a producer that no row has, of a participant in its meeting.
LEMMA RegisterProducerRoster ==
  ASSUME db \in Databases, NEW row \in ParticipantProducers, db' = RegisterProducerTx(db, row).db,
         \A x \in db.participant_producers : x.id # row.id,
         HasTransport(db.participant_producer_transport, row.t) =>
            \E y \in db.participant_meeting : y.p = row.p /\ y.m = row.m
  PROVE  RosterStep
<1> DEFINE new == [id |-> row.id, p |-> row.p, kind |-> row.kind, m |-> row.m]
<1>1. /\ SameParticipants(db, db')
      /\ db'.participant_consumers = db.participant_consumers
      /\ \/ db'.participant_producers = db.participant_producers
         \/ /\ HasTransport(db.participant_producer_transport, row.t)
            /\ db'.participant_producers = db.participant_producers \cup {row}
  BY RegisterProducerEffect
<1>2. CASE db'.participant_producers = db.participant_producers
  BY <1>1, <1>2, SameRoster DEF SameRows, SameParticipants
<1>3. CASE db'.participant_producers # db.participant_producers
  <2>1. new \in roster!Publication /\ new.id = row.id /\ new.p = row.p /\ new.m = row.m
    BY DEF ParticipantProducers, roster!Publication
  <2>2. Publications(db') = Publications(db) \cup {new}
    BY <1>1, <1>3 DEF Publications
  <2>3. \A y \in Publications(db) : y.id # new.id
    BY <2>1 DEF Publications
  <2>4. roster!In(new.p, new.m)
    BY <1>1, <1>3, <2>1 DEF roster!In
  <2> HIDE DEF new
  <2>5. roster!Publish(new)
    BY <1>1, <2>2, <2>3, <2>4 DEF roster!Publish, Publications, Subscriptions, SameParticipants
  <2> QED
    BY <2>1, <2>5 DEF RosterStep, roster!RosterNext
<1> QED
  BY <1>2, <1>3

\* create_consumer subscribes to participants who are present, once to each kind.
LEMMA RegisterConsumersRoster ==
  ASSUME db \in Databases, NEW rows \in SUBSET ParticipantConsumers,
         db' = RegisterConsumersTx(db, rows).db
  PROVE  RosterStep
<1> DEFINE New == {[id |-> row.id, p |-> row.p, target |-> row.target, kind |-> row.kind] :
                      row \in rows}
<1>1. /\ SameParticipants(db, db')
      /\ db'.participant_producers = db.participant_producers
      /\ \/ db'.participant_consumers = db.participant_consumers
         \/ /\ \A row \in rows :
                  /\ HasParticipant(db, row.p) /\ HasParticipant(db, row.target)
                  /\ HasTransport(db.participant_consumer_transport, row.t)
                  /\ \A old \in db.participant_consumers :
                        ~(row.p = old.p /\ row.target = old.target /\ row.kind = old.kind)
            /\ db'.participant_consumers = db.participant_consumers \cup rows
  BY RegisterConsumersEffect
<1>2. CASE db'.participant_consumers = db.participant_consumers
  BY <1>1, <1>2, SameRoster DEF SameRows, SameParticipants
<1>3. CASE db'.participant_consumers # db.participant_consumers
  <2>1. New \in SUBSET roster!Subscription
    BY DEF ParticipantConsumers, roster!Subscription
  <2>2. Subscriptions(db') = Subscriptions(db) \cup New
    BY <1>1, <1>3 DEF Subscriptions
  <2>3. \A x \in New :
           /\ roster!Somewhere(x.p) /\ roster!Somewhere(x.target)
           /\ \A y \in Subscriptions(db) :
                 ~(x.p = y.p /\ x.target = y.target /\ x.kind = y.kind)
    BY <1>1, <1>3 DEF roster!Somewhere, HasParticipant, Subscriptions
  <2> HIDE DEF New
  <2>4. roster!Subscribe(New)
    BY <1>1, <2>2, <2>3 DEF roster!Subscribe, Publications, Subscriptions, SameParticipants
  <2> QED
    BY <2>1, <2>4 DEF RosterStep, roster!RosterNext
<1> QED
  BY <1>2, <1>3

\* closeProducer and closeConsumer.
LEMMA CloseRoster ==
  ASSUME db \in Databases, NEW p \in Participants, NEW ids,
         \/ db' = DeleteProducersTx(db, p, ids).db
         \/ db' = DeleteConsumersTx(db, ids).db
  PROVE  RosterStep
<1>1. CASE db' = DeleteProducersTx(db, p, ids).db
  <2>1. /\ SameParticipants(db, db')
        /\ db'.participant_consumers = db.participant_consumers
        /\ db'.participant_producers =
              {row \in db.participant_producers : ~(row.p = p /\ row.id \in ids)}
    BY <1>1, CloseEffect
  <2>2. \A row \in db.participant_producers : row.id \in ids <=> row.id \in ids \cap ProducerIds
    BY DEF Databases, ParticipantProducers
  <2>3. Publications(db') =
           {x \in Publications(db) : ~(x.p = p /\ x.id \in ids \cap ProducerIds)}
    BY <2>1, <2>2 DEF Publications
  <2>4. roster!Unpublish(p, ids \cap ProducerIds)
    BY <2>1, <2>3 DEF roster!Unpublish, Publications, Subscriptions, SameParticipants
  <2>5. ids \cap ProducerIds \in SUBSET ProducerIds
    OBVIOUS
  <2> QED
    BY <2>4, <2>5 DEF RosterStep, roster!RosterNext
<1>2. CASE db' = DeleteConsumersTx(db, ids).db
  <2>1. /\ SameParticipants(db, db')
        /\ db'.participant_producers = db.participant_producers
        /\ db'.participant_consumers = {row \in db.participant_consumers : row.id \notin ids}
    BY <1>2, CloseEffect
  <2>2. \A row \in db.participant_consumers : row.id \in ids <=> row.id \in ids \cap ConsumerIds
    BY DEF Databases, ParticipantConsumers
  <2>3. Subscriptions(db') = {x \in Subscriptions(db) : x.id \notin ids \cap ConsumerIds}
    BY <2>1, <2>2 DEF Subscriptions
  <2>4. roster!Unsubscribe(ids \cap ConsumerIds)
    BY <2>1, <2>3 DEF roster!Unsubscribe, Publications, Subscriptions, SameParticipants
  <2>5. ids \cap ConsumerIds \in SUBSET ConsumerIds
    OBVIOUS
  <2> QED
    BY <2>4, <2>5 DEF RosterStep, roster!RosterNext
<1> QED
  BY <1>1, <1>2

-----------------------------------------------------------------------------
(* Transactions that register neither a transport nor a producer *)

\* No transport and no producer appears, and who keeps a transport stays where he is.
Quiet(d, e) ==
    /\ e.participant_producer_transport \subseteq d.participant_producer_transport
    /\ e.participant_consumer_transport \subseteq d.participant_consumer_transport
    /\ \A row \in TransportRows(e) : \A y \in d.participant_meeting :
          y.p = row.p => y \in e.participant_meeting
    /\ e.participant_producers \subseteq d.participant_producers

\* What the steps of the handlers do to the database, but for these two.
QuietStep == Consistent(db') /\ Quiet(db, db') /\ RosterStep

\* No change.
LEMMA SameQuiet ==
  ASSUME Consistent(db), db' = db
  PROVE  QuietStep
  BY SameRoster DEF QuietStep, Quiet, SameRows

\* A change to other tables.
LEMMA SameRowsQuiet ==
  ASSUME Consistent(db), SameRows(db, db')
  PROVE  Consistent(db') /\ Quiet(db, db')
  BY SameConsistent DEF Quiet, SameRows

\* A departure.
LEMMA DepartedQuiet ==
  ASSUME Consistent(db), NEW P, NEW New, Departed(db, db', P, New),
         \A x, y \in New : x = y, \A x \in New : x.p \in P
  PROVE  Consistent(db') /\ Quiet(db, db')
<1>1. Consistent(db')
  BY DepartedConsistent
<1>2. Quiet(db, db')
  BY DEF Departed, Quiet, TransportRows
<1> QED
  BY <1>1, <1>2

\* The transactions of meetings and participants.
LEMMA MeetingTxQuiet ==
  ASSUME db \in Databases, Consistent(db), NEW m \in Meetings, NEW R,
         \/ db' = CreateMeetingTx(db, m, R).db
         \/ db' = ReplaceMeetingTx(db, m, R).db
         \/ db' = EndMeetingTx(db, m).db
  PROVE  QuietStep
<1>1. CASE db' = CreateMeetingTx(db, m, R).db
  <2>1. db' = db \/ SameRows(db, db')
    BY <1>1, CreateEffect
  <2>2. Consistent(db') /\ Quiet(db, db')
    BY <2>1, SameRowsQuiet DEF SameRows
  <2> QED
    BY <1>1, <2>2, CreateRoster DEF QuietStep
<1>2. CASE db' = ReplaceMeetingTx(db, m, R).db
  <2>1. db' = db \/ Departed(db, db', PresentIn(db, m), {})
    BY <1>2, ReplaceEffect
  <2>2. Consistent(db') /\ Quiet(db, db')
    BY <2>1, SameRowsQuiet, DepartedQuiet DEF SameRows
  <2> QED
    BY <1>2, <2>2, ReplaceRoster DEF QuietStep
<1>3. CASE db' = EndMeetingTx(db, m).db
  <2>1. Departed(db, db', PresentIn(db, m), {})
    BY <1>3, EndEffect
  <2>2. Consistent(db') /\ Quiet(db, db')
    BY <2>1, DepartedQuiet
  <2> QED
    BY <1>3, <2>2, EndRoster DEF QuietStep
<1> QED
  BY <1>1, <1>2, <1>3

\* The transaction of the recreate helpers.
LEMMA JoinTxQuiet ==
  ASSUME db \in Databases, Consistent(db), NEW p \in Participants, NEW m \in Meetings,
         NEW i \in Instances, NEW kind, NEW router,
         db' = JoinTx(db, p, m, i, kind, router).db
  PROVE  QuietStep
<1>1. PICK e, row : e = db' /\ row = [p |-> p, m |-> m, i |-> i]
  OBVIOUS
<1>2. SameRows(db, e) \/ Departed(db, e, {p}, {row})
  BY <1>1, JoinEffect
<1>3. Consistent(db') /\ Quiet(db, db')
  <2>1. row.p = p
    BY <1>1
  <2> QED
    BY <1>1, <1>2, <2>1, SameRowsQuiet, DepartedQuiet
<1> QED
  BY <1>3, JoinRoster DEF QuietStep

\* leaveMeeting's transaction.
LEMMA LeaveTxQuiet ==
  ASSUME db \in Databases, Consistent(db), NEW p \in Participants, NEW m \in Meetings,
         NEW i \in Instances, db' = LeaveTx(db, p, m, i).db
  PROVE  QuietStep
<1>1. SameRows(db, db') \/ Departed(db, db', {p}, {})
  BY LeaveEffect
<1>2. Consistent(db') /\ Quiet(db, db')
  BY <1>1, SameRowsQuiet, DepartedQuiet
<1> QED
  BY <1>2, LeaveRoster DEF QuietStep

\* The transaction of create_consumer, called with a transport of the participant.
LEMMA ConsumersTxQuiet ==
  ASSUME db \in Databases, Consistent(db), NEW rows \in SUBSET ParticipantConsumers,
         db' = RegisterConsumersTx(db, rows).db,
         \A row \in rows : \A x \in db.participant_consumer_transport :
            x.t = row.t => x.p = row.p
  PROVE  QuietStep
<1>1. /\ SameParticipants(db, db')
      /\ db'.participant_producers = db.participant_producers
      /\ \/ db'.participant_consumers = db.participant_consumers
         \/ /\ \A row \in rows :
                  /\ HasParticipant(db, row.p) /\ HasParticipant(db, row.target)
                  /\ HasTransport(db.participant_consumer_transport, row.t)
                  /\ \A old \in db.participant_consumers :
                        ~(row.p = old.p /\ row.target = old.target /\ row.kind = old.kind)
            /\ db'.participant_consumers = db.participant_consumers \cup rows
  BY RegisterConsumersEffect
<1>2. \A row \in db'.participant_consumers :
         \/ row \in db.participant_consumers
         \/ /\ HasParticipant(db, row.target)
            /\ \E x \in db.participant_consumer_transport : x.p = row.p /\ x.t = row.t
  BY <1>1 DEF HasTransport
<1>3. Consistent(db')
  BY <1>1, <1>2, RowsConsistent
<1>4. Quiet(db, db')
  BY <1>1 DEF Quiet, SameParticipants
<1> QED
  BY <1>3, <1>4, RegisterConsumersRoster DEF QuietStep

\* The transactions of closeProducer and closeConsumer.
LEMMA CloseTxQuiet ==
  ASSUME db \in Databases, Consistent(db), NEW p \in Participants, NEW ids,
         \/ db' = DeleteProducersTx(db, p, ids).db
         \/ db' = DeleteConsumersTx(db, ids).db
  PROVE  QuietStep
<1>1. /\ SameParticipants(db, db')
      /\ db'.participant_producers \subseteq db.participant_producers
      /\ db'.participant_consumers \subseteq db.participant_consumers
  BY CloseEffect
<1>2. Consistent(db')
  BY <1>1, RowsConsistent
<1>3. Quiet(db, db')
  BY <1>1 DEF Quiet, SameParticipants
<1> QED
  BY <1>2, <1>3, CloseRoster DEF QuietStep

-----------------------------------------------------------------------------
(* Steps that make no transport and no producer known *)

NewProducer == {"cp_routers", "cp_register"}

\* Request q keeps its arguments and its identifiers, ends, or starts without a transport.
QuietRequest(q) ==
    \/ /\ call'[q] = call[q]
       /\ local'[q].transport = local[q].transport
       /\ local'[q].producer = local[q].producer
       /\ \A x \in local'[q].made : x \in local[q].made \/ x.p = call[q].p
       /\ pc'[q] = "rt_register" => pc[q] = "rt_register"
       /\ pc'[q] \in ProduceSteps => pc[q] \in ProduceSteps
       /\ pc'[q] \in NewProducer => pc[q] \in NewProducer
       /\ pc'[q] = "idle" => pc[q] = "idle" /\ local'[q].made = local[q].made
    \/ pc'[q] = "idle" /\ call'[q] = NoCall /\ local'[q] = NoLocal
    \/ /\ pc[q] = "idle" /\ local'[q] = local[q] /\ call'[q].t = None
       /\ pc'[q] \notin {"idle", "rt_register"} \cup ProduceSteps

Quietly == transport_map' \subseteq transport_map /\ \A q \in Requests : QuietRequest(q)

\* A request goes on, ...
LEMMA ContinueQuiet ==
  ASSUME ControlOK, NEW r \in Requests, NEW step, NEW vals, Continue(r, step, vals),
         vals.transport = local[r].transport, vals.producer = local[r].producer,
         \A x \in vals.made : x \in local[r].made \/ x.p = call[r].p,
         step \notin {"rt_register", "idle"},
         step \in ProduceSteps => pc[r] \in ProduceSteps,
         step \in NewProducer => pc[r] \in NewProducer
  PROVE  \A q \in Requests : QuietRequest(q)
<1> SUFFICES ASSUME NEW q \in Requests
             PROVE  QuietRequest(q)
  OBVIOUS
<1>1. /\ call' = call /\ pc' = [pc EXCEPT ![r] = step] /\ local' = [local EXCEPT ![r] = vals]
      /\ pc \in [Requests -> Steps] /\ local \in [Requests -> Locals]
  BY DEF Continue, ControlOK
<1>2. CASE q = r
  <2>1. pc'[q] = step /\ local'[q] = vals
    BY <1>1, <1>2
  <2> QED
    BY <1>1, <1>2, <2>1 DEF QuietRequest, ProduceSteps, MeetingLocked, Producing, NewProducer
<1>3. CASE q # r
  BY <1>1, <1>3 DEF QuietRequest
<1> QED
  BY <1>2, <1>3

\* ... ends, ...
LEMMA DoneQuiet ==
  ASSUME ControlOK, NEW r \in Requests, Done(r)
  PROVE  \A q \in Requests : QuietRequest(q)
  BY DEF ControlOK, Done, QuietRequest

\* ... acquires a mutex ...
LEMMA AcquireQuiet ==
  ASSUME ControlOK, NEW r \in Requests, NEW key, NEW step, Acquire(r, key, step),
         \/ step \in ParticipantLocked \ {"rt_register"}
         \/ step = "cp_check" /\ pc[r] = "cp_lock"
  PROVE  Quietly
<1>1. /\ pc' = [pc EXCEPT ![r] = step] /\ call' = call /\ local' = local
      /\ transport_map' = transport_map /\ pc \in [Requests -> Steps]
  BY DEF Acquire, memory, ControlOK
<1>2. step \notin {"rt_register", "idle"} \cup NewProducer
  BY DEF ParticipantLocked, NewProducer
<1>3. step \in ProduceSteps => pc[r] \in ProduceSteps
  BY DEF ProduceSteps, MeetingLocked, Producing, ParticipantLocked
<1> QED
  BY <1>1, <1>2, <1>3 DEF Quietly, QuietRequest

\* ... or arrives without a transport.
LEMMA BeginQuiet ==
  ASSUME ControlOK, NEW r \in Requests, NEW step, NEW c, Begin(r, step, c), c.t = None,
         step \notin {"idle", "rt_register"} \cup ProduceSteps
  PROVE  Quietly /\ db' = db
  BY DEF ControlOK, Begin, Quietly, QuietRequest, memory

\* Such steps name no transport anew.
LEMMA QuietNames ==
  ASSUME ControlOK, RosterInv, Quiet(db, db'), Quietly, NEW t \in Transports, NEW p, Names(t, p)'
  PROVE  Names(t, p)
<1>1. CASE \E x \in transport_map' : x.id = t /\ x.p = p
  BY <1>1 DEF Quietly, Names
<1>2. CASE \E row \in TransportRows(db') : row.t = t /\ row.p = p
  BY <1>2 DEF Quiet, TransportRows, Names
<1>3. ASSUME NEW r \in Requests, call'[r].p = p, t \in {local'[r].transport, call'[r].t}
      PROVE  Names(t, p)
  <2>1. t # None
    BY SfuAssumption
  <2>2. CASE pc'[r] = "idle" /\ call'[r] = NoCall /\ local'[r] = NoLocal
    BY <1>3, <2>1, <2>2 DEF NoCall, NoLocal
  <2>3. CASE pc[r] = "idle" /\ local'[r] = local[r] /\ call'[r].t = None
    BY <1>3, <2>1, <2>3 DEF RosterInv, RequestInv, IdleHasNone
  <2>4. CASE call'[r] = call[r] /\ local'[r].transport = local[r].transport
    BY <1>3, <2>4 DEF Names
  <2> QED
    BY <2>2, <2>3, <2>4 DEF Quietly, QuietRequest
<1> QED
  BY <1>1, <1>2, <1>3 DEF Names

\* They keep the invariant.
LEMMA QuietInvariant ==
  ASSUME ControlOK, RosterInv, QuietStep, Quietly
  PROVE  RosterInv'
<1>0. Consistent(db') /\ Quiet(db, db')
  BY DEF QuietStep
<1>1. OneOwner'
  BY <1>0, QuietNames DEF RosterInv, OneOwner
<1>2. OneProducerEach'
  <2>1. \A q \in Requests : local'[q].producer \in {local[q].producer, None}
    BY DEF Quietly, QuietRequest, NoLocal
  <2> QED
    BY <2>1 DEF RosterInv, OneProducerEach
<1>3. ASSUME NEW r \in Requests
      PROVE  RequestInv(r)'
  <2>0. RequestInv(r) /\ QuietRequest(r)
    BY DEF RosterInv, Quietly
  <2>1. CASE pc'[r] = "idle" /\ call'[r] = NoCall /\ local'[r] = NoLocal
    BY <2>1 DEF RequestInv, Unshared, StaysWhileRegistered, Unrecorded, MadeForCaller, IdleHasNone,
                NoLocal, ProduceSteps, MeetingLocked, Producing
  <2>2. CASE /\ pc'[r] \notin {"idle", "rt_register"} \cup ProduceSteps
             /\ pc[r] = "idle" /\ local'[r] = local[r]
    BY <2>0, <2>2 DEF RequestInv, Unshared, StaysWhileRegistered, Unrecorded, MadeForCaller, IdleHasNone,
                ProduceSteps, MeetingLocked, Producing
  <2>3. CASE /\ call'[r] = call[r]
             /\ local'[r].transport = local[r].transport
             /\ local'[r].producer = local[r].producer
             /\ \A x \in local'[r].made : x \in local[r].made \/ x.p = call[r].p
             /\ pc'[r] = "rt_register" => pc[r] = "rt_register"
             /\ pc'[r] \in ProduceSteps => pc[r] \in ProduceSteps
             /\ pc'[r] \in NewProducer => pc[r] \in NewProducer
             /\ pc'[r] = "idle" => pc[r] = "idle" /\ local'[r].made = local[r].made
    <3>1. Unshared(r)'
      <4> SUFFICES ASSUME pc'[r] = "rt_register"
                   PROVE  /\ \A x \in transport_map' : x.id # local'[r].transport
                          /\ \A row \in TransportRows(db') : row.t # local'[r].transport
                          /\ \A q \in Requests : call'[q].t # local'[r].transport
                          /\ \A q \in Requests \ {r} : local'[q].transport # local'[r].transport
        BY DEF Unshared, TransportRows
      <4>1. pc[r] = "rt_register" /\ local[r].transport \in Transports
        BY <2>3 DEF ControlOK, StepTyped
      <4>2. /\ \A x \in transport_map' : x.id # local'[r].transport
            /\ \A row \in TransportRows(db') : row.t # local'[r].transport
        BY <1>0, <2>0, <2>3, <4>1 DEF RequestInv, Unshared, Quietly, Quiet, TransportRows
      <4>3. local[r].transport # None
        BY <4>1, SfuAssumption
      <4>4. \A q \in Requests : /\ call'[q].t \in {call[q].t, None}
                              /\ local'[q].transport \in {local[q].transport, None}
        BY DEF Quietly, QuietRequest, NoCall, NoLocal
      <4> QED
        BY <2>0, <2>3, <4>1, <4>2, <4>3, <4>4 DEF RequestInv, Unshared
    <3>2. StaysWhileRegistered(r)'
      BY <1>0, <2>0, <2>3 DEF RequestInv, StaysWhileRegistered, Quiet, TransportRows
    <3>3. Unrecorded(r)'
      BY <1>0, <2>0, <2>3 DEF RequestInv, Unrecorded, Quiet, NewProducer
    <3>4. IdleHasNone(r)'
      BY <2>0, <2>3 DEF RequestInv, IdleHasNone
    <3>5. MadeForCaller(r)'
      BY <2>0, <2>3 DEF RequestInv, MadeForCaller
    <3> QED
      BY <3>1, <3>2, <3>3, <3>4, <3>5 DEF RequestInv
  <2> QED
    BY <2>0, <2>1, <2>2, <2>3 DEF QuietRequest
<1> QED
  BY <1>0, <1>1, <1>2, <1>3 DEF RosterInv

\* A transaction commits or leaves the database alone.
LEMMA OutcomeOf ==
  ASSUME NEW tx, NEW out \in Outcomes(tx)
  PROVE  out.db = tx.db \/ out.db = db
  BY DEF Outcomes, Failed

\* The handlers of meetings.
LEMMA MeetingQuiet ==
  ASSUME DataOK, ControlOK, RosterInv, NEW r \in Requests, 
         CreateMeeting(r) \/ ReplaceMeeting(r) \/ PublishRouters(r) \/ EndMeeting(r)
  PROVE  QuietStep /\ Quietly
<1> USE DEF ProduceSteps, MeetingLocked, Producing, NewProducer
<1>0. /\ local[r] \in Locals /\ Consistent(db) /\ db \in Databases
      /\ StepTyped(pc[r], call[r], local[r])
  BY DEF ControlOK, DataOK, RosterInv
<1>1. CASE CreateRouters(r, "cm_routers", "cm_register")
  <2>1. QuietStep
    BY <1>0, <1>1, SameQuiet DEF CreateRouters
  <2>2. Quietly
    <3>1. transport_map' = transport_map
      BY <1>1 DEF CreateRouters, memory
    <3>2. CASE Done(r)
      BY <3>1, <3>2, DoneQuiet DEF Quietly
    <3>3. ASSUME NEW R, Continue(r, "cm_register", [local[r] EXCEPT !.routers = R])
          PROVE  Quietly
      <4> DEFINE vals == [local[r] EXCEPT !.routers = R]
      <4>1. /\ vals.transport = local[r].transport /\ vals.producer = local[r].producer
            /\ vals.made = local[r].made
        BY <1>0 DEF Locals
      <4>2. Continue(r, "cm_register", vals)
        BY <3>3
      <4> HIDE DEF vals
      <4>3. \A q \in Requests : QuietRequest(q)
        BY <4>1, <4>2, ContinueQuiet
      <4> QED
        BY <3>1, <4>3 DEF Quietly
    <3> QED
      BY <1>1, <3>2, <3>3 DEF CreateRouters
  <2> QED
    BY <2>1, <2>2
<1>2. CASE CreateRouters(r, "rm_routers", "rm_register")
  <2>1. QuietStep
    BY <1>0, <1>2, SameQuiet DEF CreateRouters
  <2>2. Quietly
    <3>1. transport_map' = transport_map
      BY <1>2 DEF CreateRouters, memory
    <3>2. CASE Done(r)
      BY <3>1, <3>2, DoneQuiet DEF Quietly
    <3>3. ASSUME NEW R, Continue(r, "rm_register", [local[r] EXCEPT !.routers = R])
          PROVE  Quietly
      <4> DEFINE vals == [local[r] EXCEPT !.routers = R]
      <4>1. /\ vals.transport = local[r].transport /\ vals.producer = local[r].producer
            /\ vals.made = local[r].made
        BY <1>0 DEF Locals
      <4>2. Continue(r, "rm_register", vals)
        BY <3>3
      <4> HIDE DEF vals
      <4>3. \A q \in Requests : QuietRequest(q)
        BY <4>1, <4>2, ContinueQuiet
      <4> QED
        BY <3>1, <4>3 DEF Quietly
    <3> QED
      BY <1>2, <3>2, <3>3 DEF CreateRouters
  <2> QED
    BY <2>1, <2>2
<1>3. CASE RegisterRouters(r, "cm_register", CreateMeetingTx(db, call[r].m, local[r].routers))
  <2>1. PICK out \in Outcomes(CreateMeetingTx(db, call[r].m, local[r].routers)) : db' = out.db
    BY <1>3 DEF RegisterRouters
  <2>2. QuietStep
    <3>1. CASE db' = db
      BY <1>0, <3>1, SameQuiet
    <3>2. CASE db' = CreateMeetingTx(db, call[r].m, local[r].routers).db
      <4>1. call[r].m \in Meetings
        BY <1>0, <1>3 DEF RegisterRouters, StepTyped, RecreateSteps, ParticipantLocked, LeaveSteps, CloseSteps
      <4> QED
        BY <1>0, <3>2, <4>1, MeetingTxQuiet
    <3> QED
      BY <2>1, <3>1, <3>2, OutcomeOf
  <2>3. Quietly
    BY <1>0, <1>3, ContinueQuiet, DoneQuiet DEF RegisterRouters, Quietly, Locals, memory
  <2> QED
    BY <2>2, <2>3
<1>4. CASE RegisterRouters(r, "rm_register", ReplaceMeetingTx(db, call[r].m, local[r].routers))
  <2>1. PICK out \in Outcomes(ReplaceMeetingTx(db, call[r].m, local[r].routers)) : db' = out.db
    BY <1>4 DEF RegisterRouters
  <2>2. QuietStep
    <3>1. CASE db' = db
      BY <1>0, <3>1, SameQuiet
    <3>2. CASE db' = ReplaceMeetingTx(db, call[r].m, local[r].routers).db
      <4>1. call[r].m \in Meetings
        BY <1>0, <1>4 DEF RegisterRouters, StepTyped, RecreateSteps, ParticipantLocked, LeaveSteps, CloseSteps
      <4> QED
        BY <1>0, <3>2, <4>1, MeetingTxQuiet
    <3> QED
      BY <2>1, <3>1, <3>2, OutcomeOf
  <2>3. Quietly
    BY <1>0, <1>4, ContinueQuiet, DoneQuiet DEF RegisterRouters, Quietly, Locals, memory
  <2> QED
    BY <2>2, <2>3
<1>5. CASE PublishRouters(r)
  <2>1. QuietStep
    BY <1>0, <1>5, SameQuiet DEF PublishRouters
  <2>2. Quietly
    BY <1>0, <1>5, ContinueQuiet, DoneQuiet DEF PublishRouters, Quietly, Locals, memory
  <2> QED
    BY <2>1, <2>2
<1>6. CASE EndDelete(r)
  <2>1. PICK out \in Outcomes(EndMeetingTx(db, call[r].m)) : db' = out.db
    BY <1>6 DEF EndDelete
  <2>2. QuietStep
    <3>1. CASE db' = db
      BY <1>0, <3>1, SameQuiet
    <3>2. CASE db' = EndMeetingTx(db, call[r].m).db
      <4>1. call[r].m \in Meetings
        BY <1>0, <1>6 DEF EndDelete, StepTyped, RecreateSteps, ParticipantLocked, LeaveSteps, CloseSteps
      <4> QED
        BY <1>0, <3>2, <4>1, MeetingTxQuiet
    <3> QED
      BY <2>1, <3>1, <3>2, OutcomeOf
  <2>3. Quietly
    BY <1>0, <1>6, ContinueQuiet, DoneQuiet DEF EndDelete, Quietly, Locals, memory
  <2> QED
    BY <2>2, <2>3
<1>7. CASE EndRouters(r)
  <2>1. QuietStep
    BY <1>0, <1>7, SameQuiet DEF EndRouters
  <2>2. Quietly
    BY <1>0, <1>7, ContinueQuiet, DoneQuiet DEF EndRouters, Quietly, Locals, memory
  <2> QED
    BY <2>1, <2>2
<1>8. CASE EndTransports(r)
  <2>1. QuietStep
    BY <1>0, <1>8, SameQuiet DEF EndTransports
  <2>2. Quietly
    BY <1>0, <1>8, ContinueQuiet, DoneQuiet DEF EndTransports, Quietly, Locals, memory
  <2> QED
    BY <2>1, <2>2
<1>9. CASE EndReadConsumers(r)
  <2>1. QuietStep
    BY <1>0, <1>9, SameQuiet DEF EndReadConsumers
  <2>2. Quietly
    BY <1>0, <1>9, ContinueQuiet, DoneQuiet DEF EndReadConsumers, Quietly, Locals, memory
  <2> QED
    BY <2>1, <2>2
<1>10. CASE EndCloseConsumers(r)
  <2>1. QuietStep
    BY <1>0, <1>10, SameQuiet DEF EndCloseConsumers
  <2>2. Quietly
    BY <1>0, <1>10, ContinueQuiet, DoneQuiet DEF EndCloseConsumers, Quietly, Locals, memory
  <2> QED
    BY <2>1, <2>2
<1>11. CASE EndReadProducers(r)
  <2>1. QuietStep
    BY <1>0, <1>11, SameQuiet DEF EndReadProducers
  <2>2. Quietly
    BY <1>0, <1>11, ContinueQuiet, DoneQuiet DEF EndReadProducers, Quietly, Locals, memory
  <2> QED
    BY <2>1, <2>2
<1>12. CASE EndCloseProducers(r)
  <2>1. QuietStep
    BY <1>0, <1>12, SameQuiet DEF EndCloseProducers
  <2>2. Quietly
    BY <1>0, <1>12, ContinueQuiet, DoneQuiet DEF EndCloseProducers, Quietly, Locals, memory
  <2> QED
    BY <2>1, <2>2
<1>13. CASE EndCloseProducersPanics(r)
  <2>1. QuietStep
    BY <1>0, <1>13, SameQuiet DEF EndCloseProducersPanics
  <2>2. Quietly
    BY <1>0, <1>13, ContinueQuiet, DoneQuiet DEF EndCloseProducersPanics, Quietly, Locals, memory
  <2> QED
    BY <2>1, <2>2
<1> QED
  BY <1>1, <1>2, <1>3, <1>4, <1>5, <1>6, <1>7, <1>8, <1>9, <1>10, <1>11, <1>12, <1>13
     DEF CreateMeeting, ReplaceMeeting, EndMeeting

\* The recreate helpers, but where they create, register, publish or find a transport.
LEMMA RecreateQuiet ==
  ASSUME DataOK, ControlOK, RosterInv, NEW r \in Requests, RecreateTransport(r),
         ~RecreateCreate(r), ~RecreateRegister(r), ~RecreatePublish(r), ~RecreateExisting(r)
  PROVE  QuietStep /\ Quietly
<1> USE DEF ProduceSteps, MeetingLocked, Producing, NewProducer
<1>0. /\ local[r] \in Locals /\ Consistent(db) /\ db \in Databases
      /\ StepTyped(pc[r], call[r], local[r])
  BY DEF ControlOK, DataOK, RosterInv
<1>1. CASE RecreateLock(r)
  <2>1. QuietStep
    BY <1>0, <1>1, SameQuiet DEF RecreateLock, Acquire
  <2>2. Quietly
    BY <1>1, AcquireQuiet DEF RecreateLock, ParticipantLocked
  <2> QED
    BY <2>1, <2>2
<1>2. CASE RecreateJoin(r)
  <2>1. PICK out \in Outcomes(JoinTx(db, call[r].p, call[r].m, call[r].i, call[r].kind, call[r].router)) : db' = out.db
    BY <1>2 DEF RecreateJoin
  <2>2. QuietStep
    <3>1. CASE db' = db
      BY <1>0, <3>1, SameQuiet
    <3>2. CASE db' = JoinTx(db, call[r].p, call[r].m, call[r].i, call[r].kind, call[r].router).db
      <4>1. call[r].p \in Participants /\ call[r].m \in Meetings /\ call[r].i \in Instances
        BY <1>0, <1>2 DEF RecreateJoin, StepTyped, RecreateSteps, ParticipantLocked, LeaveSteps, CloseSteps
      <4> QED
        BY <1>0, <3>2, <4>1, JoinTxQuiet
    <3> QED
      BY <2>1, <3>1, <3>2, OutcomeOf
  <2>3. Quietly
    BY <1>0, <1>2, ContinueQuiet, DoneQuiet DEF RecreateJoin, Quietly, Locals, memory
  <2> QED
    BY <2>2, <2>3
<1>3. CASE RecreateReadOwn(r)
  <2>1. QuietStep
    BY <1>0, <1>3, SameQuiet DEF RecreateReadOwn
  <2>2. Quietly
    BY <1>0, <1>3, ContinueQuiet, DoneQuiet DEF RecreateReadOwn, Quietly, Locals, memory
  <2> QED
    BY <2>1, <2>2
<1>4. CASE RecreateCloseOwn(r)
  <2>1. QuietStep
    BY <1>0, <1>4, SameQuiet DEF RecreateCloseOwn
  <2>2. Quietly
    BY <1>0, <1>4, ContinueQuiet, DoneQuiet DEF RecreateCloseOwn, Quietly, Locals, memory
  <2> QED
    BY <2>1, <2>2
<1>5. CASE RecreateReadProducers(r)
  <2>1. QuietStep
    BY <1>0, <1>5, SameQuiet DEF RecreateReadProducers
  <2>2. Quietly
    BY <1>0, <1>5, ContinueQuiet, DoneQuiet DEF RecreateReadProducers, Quietly, Locals, memory
  <2> QED
    BY <2>1, <2>2
<1>6. CASE RecreateReadDependents(r)
  <2>1. QuietStep
    BY <1>0, <1>6, SameQuiet DEF RecreateReadDependents
  <2>2. Quietly
    BY <1>0, <1>6, ContinueQuiet, DoneQuiet DEF RecreateReadDependents, Quietly, Locals, memory
  <2> QED
    BY <2>1, <2>2
<1>7. CASE RecreateCloseProducers(r)
  <2>1. QuietStep
    BY <1>0, <1>7, SameQuiet DEF RecreateCloseProducers
  <2>2. Quietly
    BY <1>0, <1>7, ContinueQuiet, DoneQuiet DEF RecreateCloseProducers, Quietly, Locals, memory
  <2> QED
    BY <2>1, <2>2
<1>8. CASE RecreateCloseDependents(r)
  <2>1. QuietStep
    BY <1>0, <1>8, SameQuiet DEF RecreateCloseDependents
  <2>2. Quietly
    <3> DEFINE vals == [local[r] EXCEPT !.producers = {}, !.dependents = {}]
    <3>1. /\ vals.transport = local[r].transport /\ vals.producer = local[r].producer
          /\ vals.made = local[r].made
      BY <1>0 DEF Locals
    <3>2. /\ transport_map' = transport_map
          /\ Done(r) \/ Continue(r, "rt_create", vals)
      BY <1>8 DEF RecreateCloseDependents
    <3> HIDE DEF vals
    <3> QED
      BY <3>1, <3>2, ContinueQuiet, DoneQuiet DEF Quietly
  <2> QED
    BY <2>1, <2>2
<1>9. CASE RecreateReply(r)
  <2>1. QuietStep
    BY <1>0, <1>9, SameQuiet DEF RecreateReply
  <2>2. Quietly
    BY <1>0, <1>9, ContinueQuiet, DoneQuiet DEF RecreateReply, Quietly, Locals, memory
  <2> QED
    BY <2>1, <2>2
<1> QED
  BY <1>1, <1>2, <1>3, <1>4, <1>5, <1>6, <1>7, <1>8, <1>9
     DEF RecreateTransport

\* leave_meeting.
LEMMA LeaveQuiet ==
  ASSUME DataOK, ControlOK, RosterInv, NEW r \in Requests, LeaveMeeting(r)
  PROVE  QuietStep /\ Quietly
<1> USE DEF ProduceSteps, MeetingLocked, Producing, NewProducer
<1>0. /\ local[r] \in Locals /\ Consistent(db) /\ db \in Databases
      /\ StepTyped(pc[r], call[r], local[r])
  BY DEF ControlOK, DataOK, RosterInv
<1>1. CASE LeaveDelete(r)
  <2>1. PICK out \in Outcomes(LeaveTx(db, call[r].p, call[r].m, call[r].i)) : db' = out.db
    BY <1>1 DEF LeaveDelete
  <2>2. QuietStep
    <3>1. CASE db' = db
      BY <1>0, <3>1, SameQuiet
    <3>2. CASE db' = LeaveTx(db, call[r].p, call[r].m, call[r].i).db
      <4>1. call[r].p \in Participants /\ call[r].m \in Meetings /\ call[r].i \in Instances
        BY <1>0, <1>1 DEF LeaveDelete, StepTyped, RecreateSteps, ParticipantLocked, LeaveSteps, CloseSteps
      <4> QED
        BY <1>0, <3>2, <4>1, LeaveTxQuiet
    <3> QED
      BY <2>1, <3>1, <3>2, OutcomeOf
  <2>3. Quietly
    BY <1>0, <1>1, ContinueQuiet, DoneQuiet DEF LeaveDelete, Quietly, Locals, memory
  <2> QED
    BY <2>2, <2>3
<1>2. CASE LeaveTransports(r)
  <2>1. QuietStep
    BY <1>0, <1>2, SameQuiet DEF LeaveTransports
  <2>2. Quietly
    BY <1>0, <1>2, ContinueQuiet, DoneQuiet DEF LeaveTransports, Quietly, Locals, memory
  <2> QED
    BY <2>1, <2>2
<1>3. CASE LeaveReadOwn(r)
  <2>1. QuietStep
    BY <1>0, <1>3, SameQuiet DEF LeaveReadOwn
  <2>2. Quietly
    BY <1>0, <1>3, ContinueQuiet, DoneQuiet DEF LeaveReadOwn, Quietly, Locals, memory
  <2> QED
    BY <2>1, <2>2
<1>4. CASE LeaveCloseOwn(r)
  <2>1. QuietStep
    BY <1>0, <1>4, SameQuiet DEF LeaveCloseOwn
  <2>2. Quietly
    BY <1>0, <1>4, ContinueQuiet, DoneQuiet DEF LeaveCloseOwn, Quietly, Locals, memory
  <2> QED
    BY <2>1, <2>2
<1>5. CASE LeaveReadProducers(r)
  <2>1. QuietStep
    BY <1>0, <1>5, SameQuiet DEF LeaveReadProducers
  <2>2. Quietly
    BY <1>0, <1>5, ContinueQuiet, DoneQuiet DEF LeaveReadProducers, Quietly, Locals, memory
  <2> QED
    BY <2>1, <2>2
<1>6. CASE LeaveCloseProducers(r)
  <2>1. QuietStep
    BY <1>0, <1>6, SameQuiet DEF LeaveCloseProducers
  <2>2. Quietly
    BY <1>0, <1>6, ContinueQuiet, DoneQuiet DEF LeaveCloseProducers, Quietly, Locals, memory
  <2> QED
    BY <2>1, <2>2
<1>7. CASE LeaveReadDependents(r)
  <2>1. QuietStep
    BY <1>0, <1>7, SameQuiet DEF LeaveReadDependents
  <2>2. Quietly
    BY <1>0, <1>7, ContinueQuiet, DoneQuiet DEF LeaveReadDependents, Quietly, Locals, memory
  <2> QED
    BY <2>1, <2>2
<1>8. CASE LeaveCloseDependents(r)
  <2>1. QuietStep
    BY <1>0, <1>8, SameQuiet DEF LeaveCloseDependents
  <2>2. Quietly
    BY <1>0, <1>8, ContinueQuiet, DoneQuiet DEF LeaveCloseDependents, Quietly, Locals, memory
  <2> QED
    BY <2>1, <2>2
<1> QED
  BY <1>1, <1>2, <1>3, <1>4, <1>5, <1>6, <1>7, <1>8
     DEF LeaveMeeting

\* create_producer, but where it produces and where it registers the producer.
LEMMA ProduceQuiet ==
  ASSUME DataOK, ControlOK, RosterInv, NEW r \in Requests, CreateProducer(r),
         ~ProduceOnTransport(r), ~ProduceRegister(r)
  PROVE  QuietStep /\ Quietly
<1> USE DEF ProduceSteps, MeetingLocked, Producing, NewProducer
<1>0. /\ local[r] \in Locals /\ Consistent(db) /\ db \in Databases
      /\ StepTyped(pc[r], call[r], local[r])
  BY DEF ControlOK, DataOK, RosterInv
<1>1. CASE ProduceLock(r)
  <2>1. QuietStep
    BY <1>0, <1>1, SameQuiet DEF ProduceLock, Acquire
  <2>2. Quietly
    BY <1>1, AcquireQuiet DEF ProduceLock, ParticipantLocked
  <2> QED
    BY <2>1, <2>2
<1>2. CASE ProduceCheck(r)
  <2>1. QuietStep
    BY <1>0, <1>2, SameQuiet DEF ProduceCheck
  <2>2. Quietly
    BY <1>0, <1>2, ContinueQuiet, DoneQuiet DEF ProduceCheck, Quietly, Locals, memory
  <2> QED
    BY <2>1, <2>2
<1>3. CASE ProduceRouters(r)
  <2>1. QuietStep
    BY <1>0, <1>3, SameQuiet DEF ProduceRouters
  <2>2. Quietly
    BY <1>0, <1>3, ContinueQuiet, DoneQuiet DEF ProduceRouters, Quietly, Locals, memory
  <2> QED
    BY <2>1, <2>2
<1>4. CASE ProducePublish(r)
  <2>1. QuietStep
    BY <1>0, <1>4, SameQuiet DEF ProducePublish
  <2>2. Quietly
    BY <1>0, <1>4, ContinueQuiet, DoneQuiet DEF ProducePublish, Quietly, Locals, memory
  <2> QED
    BY <2>1, <2>2
<1>5. CASE ProducePlain(r)
  <2>1. QuietStep
    BY <1>0, <1>5, SameQuiet DEF ProducePlain
  <2>2. Quietly
    BY <1>0, <1>5, ContinueQuiet, DoneQuiet DEF ProducePlain, Quietly, Locals, memory
  <2> QED
    BY <2>1, <2>2
<1>6. CASE ProducePlainConsumer(r)
  <2>1. QuietStep
    BY <1>0, <1>6, SameQuiet DEF ProducePlainConsumer
  <2>2. Quietly
    BY <1>0, <1>6, ContinueQuiet, DoneQuiet DEF ProducePlainConsumer, Quietly, Locals, memory
  <2> QED
    BY <2>1, <2>2
<1>7. CASE ProducePipeline(r)
  <2>1. QuietStep
    BY <1>0, <1>7, SameQuiet DEF ProducePipeline
  <2>2. Quietly
    BY <1>0, <1>7, ContinueQuiet, DoneQuiet DEF ProducePipeline, Quietly, Locals, memory
  <2> QED
    BY <2>1, <2>2
<1> QED
  BY <1>1, <1>2, <1>3, <1>4, <1>5, <1>6, <1>7
     DEF CreateProducer

\* close_producer and close_consumer.
LEMMA CloseQuiet ==
  ASSUME DataOK, ControlOK, RosterInv, NEW r \in Requests, CloseProducer(r) \/ CloseConsumer(r)
  PROVE  QuietStep /\ Quietly
<1> USE DEF ProduceSteps, MeetingLocked, Producing, NewProducer
<1>0. /\ local[r] \in Locals /\ Consistent(db) /\ db \in Databases
      /\ StepTyped(pc[r], call[r], local[r])
  BY DEF ControlOK, DataOK, RosterInv
<1>1. CASE CloseProducerDelete(r)
  <2>1. PICK out \in Outcomes(DeleteProducersTx(db, call[r].p, call[r].ids)) : db' = out.db
    BY <1>1 DEF CloseProducerDelete
  <2>2. QuietStep
    <3>1. CASE db' = db
      BY <1>0, <3>1, SameQuiet
    <3>2. CASE db' = DeleteProducersTx(db, call[r].p, call[r].ids).db
      <4>1. call[r].p \in Participants
        BY <1>0, <1>1 DEF CloseProducerDelete, StepTyped, RecreateSteps, ParticipantLocked, LeaveSteps, CloseSteps
      <4> QED
        BY <1>0, <3>2, <4>1, CloseTxQuiet
    <3> QED
      BY <2>1, <3>1, <3>2, OutcomeOf
  <2>3. Quietly
    BY <1>0, <1>1, ContinueQuiet, DoneQuiet DEF CloseProducerDelete, Quietly, Locals, memory
  <2> QED
    BY <2>2, <2>3
<1>2. CASE CloseProducerInMemory(r)
  <2>1. QuietStep
    BY <1>0, <1>2, SameQuiet DEF CloseProducerInMemory
  <2>2. Quietly
    BY <1>0, <1>2, ContinueQuiet, DoneQuiet DEF CloseProducerInMemory, Quietly, Locals, memory
  <2> QED
    BY <2>1, <2>2
<1>3. CASE CloseConsumerDelete(r)
  <2>1. PICK out \in Outcomes(DeleteConsumersTx(db, call[r].ids)) : db' = out.db
    BY <1>3 DEF CloseConsumerDelete
  <2>2. QuietStep
    <3>1. CASE db' = db
      BY <1>0, <3>1, SameQuiet
    <3>2. CASE db' = DeleteConsumersTx(db, call[r].ids).db
      <4>1. call[r].p \in Participants
        BY <1>0, <1>3 DEF CloseConsumerDelete, StepTyped, RecreateSteps, ParticipantLocked, LeaveSteps, CloseSteps
      <4> QED
        BY <1>0, <3>2, <4>1, CloseTxQuiet
    <3> QED
      BY <2>1, <3>1, <3>2, OutcomeOf
  <2>3. Quietly
    BY <1>0, <1>3, ContinueQuiet, DoneQuiet DEF CloseConsumerDelete, Quietly, Locals, memory
  <2> QED
    BY <2>2, <2>3
<1>4. CASE CloseConsumerInMemory(r)
  <2>1. QuietStep
    BY <1>0, <1>4, SameQuiet DEF CloseConsumerInMemory
  <2>2. Quietly
    BY <1>0, <1>4, ContinueQuiet, DoneQuiet DEF CloseConsumerInMemory, Quietly, Locals, memory
  <2> QED
    BY <2>1, <2>2
<1> QED
  BY <1>1, <1>2, <1>3, <1>4
     DEF CloseProducer, CloseConsumer

\* create_consumer, but where it registers the consumers.
LEMMA ConsumeQuiet ==
  ASSUME DataOK, ControlOK, RosterInv, NEW r \in Requests, CreateConsumer(r), ~ConsumeRegister(r)
  PROVE  QuietStep /\ Quietly
<1> USE DEF ProduceSteps, MeetingLocked, Producing, NewProducer
<1>0. /\ local[r] \in Locals /\ Consistent(db) /\ db \in Databases
      /\ StepTyped(pc[r], call[r], local[r])
  BY DEF ControlOK, DataOK, RosterInv
<1>1. CASE ConsumeOnTransport(r)
  <2>1. QuietStep
    BY <1>0, <1>1, SameQuiet DEF ConsumeOnTransport
  <2>2. Quietly
    BY <1>0, <1>1, ContinueQuiet, DoneQuiet DEF ConsumeOnTransport, Quietly, Locals, memory
  <2> QED
    BY <2>1, <2>2
<1>2. CASE ConsumeSnapshot(r)
  <2>1. QuietStep
    BY <1>0, <1>2, SameQuiet DEF ConsumeSnapshot
  <2>2. Quietly
    BY <1>0, <1>2, ContinueQuiet, DoneQuiet DEF ConsumeSnapshot, Quietly, Locals, memory
  <2> QED
    BY <2>1, <2>2
<1>3. CASE ConsumeReuse(r)
  <2>1. QuietStep
    BY <1>0, <1>3, SameQuiet DEF ConsumeReuse
  <2>2. Quietly
    BY <1>0, <1>3, ContinueQuiet, DoneQuiet DEF ConsumeReuse, Quietly, Locals, memory
  <2> QED
    BY <2>1, <2>2
<1>4. CASE ConsumeNew(r)
  <2>1. QuietStep
    BY <1>0, <1>4, SameQuiet DEF ConsumeNew
  <2>2. Quietly
    <3>1. PICK w \in local[r].want, id \in FreshConsumers :
             Continue(r, "cc_consume",
                [local[r] EXCEPT
                   !.want = @ \ {w},
                   !.made = @ \cup {[id |-> id, m |-> call[r].m, p |-> call[r].p,
                                     target |-> w.target, kind |-> w.kind, i |-> call[r].i,
                                     producer |-> w.producer]}])
      BY <1>4 DEF ConsumeNew
    <3> DEFINE new == [id |-> id, m |-> call[r].m, p |-> call[r].p, target |-> w.target,
                       kind |-> w.kind, i |-> call[r].i, producer |-> w.producer]
               vals == [local[r] EXCEPT !.want = @ \ {w}, !.made = @ \cup {new}]
    <3>2. new.p = call[r].p
      OBVIOUS
    <3>3. Continue(r, "cc_consume", vals)
      BY <3>1
    <3> HIDE DEF new
    <3>4. /\ vals.transport = local[r].transport /\ vals.producer = local[r].producer
          /\ vals.made = local[r].made \cup {new}
      BY <1>0 DEF Locals
    <3>5. pc[r] = "cc_consume" /\ transport_map' = transport_map
      BY <1>4 DEF ConsumeNew, memory
    <3> HIDE DEF vals
    <3>6. \A q \in Requests : QuietRequest(q)
      BY <3>2, <3>3, <3>4, <3>5, ContinueQuiet
    <3> QED
      BY <3>5, <3>6 DEF Quietly
  <2> QED
    BY <2>1, <2>2
<1>5. CASE ConsumeFails(r)
  <2>1. QuietStep
    BY <1>0, <1>5, SameQuiet DEF ConsumeFails
  <2>2. Quietly
    BY <1>0, <1>5, ContinueQuiet, DoneQuiet DEF ConsumeFails, Quietly, Locals, memory
  <2> QED
    BY <2>1, <2>2
<1>6. CASE ConsumePublish(r)
  <2>1. QuietStep
    BY <1>0, <1>6, SameQuiet DEF ConsumePublish
  <2>2. Quietly
    BY <1>0, <1>6, ContinueQuiet, DoneQuiet DEF ConsumePublish, Quietly, Locals, memory
  <2> QED
    BY <2>1, <2>2
<1> QED
  BY <1>1, <1>2, <1>3, <1>4, <1>5, <1>6
     DEF CreateConsumer

-----------------------------------------------------------------------------
(* Steps that make a transport or a producer known *)

\* A step of request r that names no transport anew leaves the others' invariants to
\* what it adds to the tables and to transport_map.
LEMMA OtherRequest ==
  ASSUME NEW q \in Requests, RequestInv(q),
         pc'[q] = pc[q], call'[q] = call[q], local'[q] = local[q],
         pc[q] = "rt_register" =>
            /\ \A x \in transport_map' : x \in transport_map \/ x.id # local[q].transport
            /\ \A row \in TransportRows(db') :
                  row \in TransportRows(db) \/ row.t # local[q].transport
            /\ \A s \in Requests : call'[s].t # local[q].transport
            /\ \A s \in Requests \ {q} : local'[s].transport # local[q].transport,
         pc[q] \in ProduceSteps =>
            \A row \in db'.participant_producer_transport :
               row \in db.participant_producer_transport \/ row.t # call[q].t,
         db'.participant_meeting = db.participant_meeting,
         pc[q] \in NewProducer =>
            \A row \in db'.participant_producers :
               row \in db.participant_producers \/ row.id # local[q].producer
  PROVE  RequestInv(q)'
<1>1. Unshared(q)'
  <2> SUFFICES ASSUME pc'[q] = "rt_register"
               PROVE  /\ \A x \in transport_map' : x.id # local'[q].transport
                      /\ \A row \in TransportRows(db') : row.t # local'[q].transport
                      /\ \A s \in Requests : call'[s].t # local'[q].transport
                      /\ \A s \in Requests \ {q} : local'[s].transport # local'[q].transport
    BY DEF Unshared, TransportRows
  <2> QED
    BY DEF RequestInv, Unshared
<1>2. StaysWhileRegistered(q)'
  BY DEF RequestInv, StaysWhileRegistered
<1>3. Unrecorded(q)'
  BY DEF RequestInv, Unrecorded, NewProducer
<1>4. IdleHasNone(q)' /\ MadeForCaller(q)'
  BY DEF RequestInv, IdleHasNone, MadeForCaller
<1> QED
  BY <1>1, <1>2, <1>3, <1>4 DEF RequestInv

\* A handler that ended owes nothing.
LEMMA IdleRequest ==
  ASSUME NEW q \in Requests, pc'[q] = "idle", local'[q] = NoLocal
  PROVE  RequestInv(q)'
  BY DEF RequestInv, Unshared, StaysWhileRegistered, Unrecorded, MadeForCaller, IdleHasNone,
         NoLocal, ProduceSteps, MeetingLocked, Producing

\* Neither does one at a step that is neither the registration of a transport nor
\* one of create_producer.
LEMMA FreeRequest ==
  ASSUME NEW q \in Requests, pc'[q] \notin {"idle", "rt_register"} \cup ProduceSteps,
         MadeForCaller(q)'
  PROVE  RequestInv(q)'
  BY DEF RequestInv, Unshared, StaysWhileRegistered, Unrecorded, IdleHasNone,
         ProduceSteps, MeetingLocked, Producing

\* The owner of a transport stays when no transport is named anew.
LEMMA KeepsOwners ==
  ASSUME RosterInv, \A t \in Transports : \A p \in Participants \cup {None} :
                       Names(t, p)' => Names(t, p)
  PROVE  OneOwner'
  BY DEF RosterInv, OneOwner

\* recreate_*_transport_helper creates a transport nobody knows.
LEMMA RecreateCreateStep ==
  ASSUME DataOK, ControlOK, RosterInv, NEW r \in Requests, RecreateCreate(r)
  PROVE  RosterInv' /\ RosterStep
<1>1. /\ db' = db /\ transport_map' = transport_map /\ Consistent(db)
      /\ pc \in [Requests -> Steps] /\ call \in [Requests -> Calls]
      /\ local \in [Requests -> Locals]
  BY DEF RecreateCreate, memory, RosterInv, ControlOK
<1>2. QuietStep
  BY <1>1, SameQuiet
<1>3. CASE Done(r)
  BY <1>1, <1>2, <1>3, DoneQuiet, QuietInvariant DEF Quietly, QuietStep
<1>4. ASSUME NEW t \in FreshTransports, Continue(r, "rt_register", [local[r] EXCEPT !.transport = t])
      PROVE  RosterInv'
  <2> DEFINE vals == [local[r] EXCEPT !.transport = t]
  <2>1. /\ vals.transport = t /\ vals.producer = local[r].producer
        /\ vals.made = local[r].made
    BY <1>1 DEF Locals
  <2>2. /\ call' = call /\ pc' = [pc EXCEPT ![r] = "rt_register"]
        /\ local' = [local EXCEPT ![r] = vals]
    BY <1>4 DEF Continue
  <2> HIDE DEF vals
  <2>3. /\ pc'[r] = "rt_register" /\ local'[r] = vals
        /\ \A q \in Requests \ {r} : pc'[q] = pc[q] /\ local'[q] = local[q]
    BY <1>1, <2>2
  <2>4. /\ t \in Transports
        /\ \A x \in transport_map : x.id # t
        /\ \A row \in TransportRows(db) : row.t # t
        /\ \A q \in Requests : local[q].transport # t /\ call[q].t # t
    BY <1>4 DEF FreshTransports, TransportRows
  <2>5. OneOwner'
    <3> SUFFICES ASSUME NEW u \in Transports, NEW p \in Participants \cup {None},
                        NEW o \in Participants \cup {None}, Names(u, p)', Names(u, o)'
                 PROVE  p = o
      BY DEF OneOwner
    <3>1. \A s : Names(u, s)' => (u # t /\ Names(u, s)) \/ (u = t /\ s = call[r].p)
      <4> SUFFICES ASSUME NEW s, Names(u, s)'
                   PROVE  (u # t /\ Names(u, s)) \/ (u = t /\ s = call[r].p)
        OBVIOUS
      <4>1. CASE \E x \in transport_map : x.id = u /\ x.p = s
        BY <2>4, <4>1 DEF Names
      <4>2. CASE \E row \in TransportRows(db) : row.t = u /\ row.p = s
        BY <2>4, <4>2 DEF Names
      <4>3. ASSUME NEW q \in Requests, call[q].p = s, u \in {local'[q].transport, call[q].t}
            PROVE  (u # t /\ Names(u, s)) \/ (u = t /\ s = call[r].p)
        <5>1. CASE q = r
          BY <2>1, <2>3, <2>4, <4>3, <5>1 DEF Names
        <5>2. CASE q # r
          BY <2>3, <2>4, <4>3, <5>2 DEF Names
        <5> QED
          BY <5>1, <5>2
      <4> QED
        BY <1>1, <2>2, <4>1, <4>2, <4>3 DEF Names, TransportRows
    <3> QED
      BY <3>1 DEF RosterInv, OneOwner
  <2>6. OneProducerEach'
    <3>1. \A q \in Requests : local'[q].producer = local[q].producer
      BY <2>1, <2>3
    <3> QED
      BY <3>1 DEF RosterInv, OneProducerEach
  <2>7. ASSUME NEW q \in Requests
        PROVE  RequestInv(q)'
    <3>1. CASE q = r
      <4>1. Unshared(r)'
        <5> SUFFICES /\ \A x \in transport_map' : x.id # t
                     /\ \A row \in TransportRows(db') : row.t # t
                     /\ \A s \in Requests : call'[s].t # t
                     /\ \A s \in Requests \ {r} : local'[s].transport # t
          BY <2>1, <2>3 DEF Unshared, TransportRows
        <5> QED
          BY <1>1, <2>2, <2>3, <2>4
      <4> QED
        BY <2>1, <2>2, <2>3, <3>1, <4>1
           DEF RosterInv, RequestInv, StaysWhileRegistered, Unrecorded, MadeForCaller, IdleHasNone,
               ProduceSteps, MeetingLocked, Producing
    <3>2. CASE q # r
      <4>1. RequestInv(q)
        BY DEF RosterInv
      <4>2. pc[q] = "rt_register" =>
               \A s \in Requests \ {q} : local'[s].transport # local[q].transport
        BY <2>1, <2>3, <2>4, <4>1 DEF RequestInv, Unshared
      <4> QED
        BY <1>1, <2>2, <2>3, <3>2, <4>1, <4>2, OtherRequest DEF RequestInv, Unshared
    <3> QED
      BY <3>1, <3>2
  <2> QED
    BY <1>1, <2>5, <2>6, <2>7 DEF RosterInv
<1> QED
  BY <1>2, <1>3, <1>4 DEF RecreateCreate, QuietStep

\* It registers the transport, ...
LEMMA RecreateRegisterStep ==
  ASSUME DataOK, ControlOK, RosterInv, NEW r \in Requests, RecreateRegister(r)
  PROVE  RosterInv' /\ RosterStep
<1> DEFINE t == local[r].transport
           p == call[r].p
           d == RegisterTransportTx(db, p, call[r].kind, t).db
<1>1. /\ transport_map' = transport_map /\ Consistent(db) /\ db \in Databases
      /\ pc[r] = "rt_register" /\ RequestInv(r)
      /\ pc \in [Requests -> Steps] /\ call \in [Requests -> Calls]
      /\ local \in [Requests -> Locals]
  BY DEF RecreateRegister, memory, RosterInv, ControlOK, DataOK
<1>2. db' = db \/ db' = d
  <2>1. PICK out \in Outcomes(RegisterTransportTx(db, p, call[r].kind, t)) : db' = out.db
    BY DEF RecreateRegister
  <2> QED
    BY <2>1, OutcomeOf
<1>3. /\ \A q \in Requests \ {r} : pc'[q] = pc[q] /\ local'[q] = local[q] /\ call'[q] = call[q]
      /\ \/ pc'[r] \in {"rt_publish", "rt_existing"} /\ local'[r] = local[r] /\ call'[r] = call[r]
         \/ pc'[r] = "idle" /\ local'[r] = NoLocal /\ call'[r] = NoCall
  BY <1>1 DEF RecreateRegister, Continue, Done
<1>4. Consistent(db') /\ RosterStep
  <2>1. CASE db' = db
    BY <1>1, <2>1, SameQuiet DEF QuietStep
  <2>2. CASE db' = d
    <3>1. Consistent(d)
      BY <1>1, RegisterTransportConsistent
    <3> QED
      BY <1>1, <2>2, <3>1, RegisterTransportRoster
  <2> QED
    BY <1>2, <2>1, <2>2
<1>5. /\ db'.participant_meeting = db.participant_meeting
      /\ db'.participant_producers = db.participant_producers
      /\ \A row \in TransportRows(db') : row \in TransportRows(db) \/ (row.p = p /\ row.t = t)
      /\ \A row \in db'.participant_producer_transport :
            row \in db.participant_producer_transport \/ row.t = t
  <2>1. CASE db' = db
    BY <2>1
  <2>2. CASE db' = d
    <3> DEFINE new == [p |-> p, t |-> t]
    <3>1. new.p = p /\ new.t = t
      OBVIOUS
    <3>2. /\ d.participant_meeting = db.participant_meeting
          /\ d.participant_producers = db.participant_producers
          /\ d.participant_producer_transport \subseteq db.participant_producer_transport \cup {new}
          /\ d.participant_consumer_transport \subseteq db.participant_consumer_transport \cup {new}
      BY <1>1, RegisterTransportEffect DEF SameRows
    <3> HIDE DEF new, d
    <3> QED
      BY <2>2, <3>1, <3>2 DEF TransportRows
  <2> QED
    BY <1>2, <2>1, <2>2
<1> HIDE DEF d
<1>6. t \in Transports /\ t # None
  BY <1>1, SfuAssumption DEF ControlOK, StepTyped
<1>7. OneOwner'
  <2> SUFFICES ASSUME NEW u \in Transports, NEW s \in Participants \cup {None}, Names(u, s)'
               PROVE  Names(u, s)
    BY KeepsOwners
  <2>1. CASE \E x \in transport_map : x.id = u /\ x.p = s
    BY <2>1 DEF Names
  <2>2. CASE \E row \in TransportRows(db') : row.t = u /\ row.p = s
    BY <1>5, <2>2 DEF Names
  <2>3. ASSUME NEW q \in Requests, call'[q].p = s, u \in {local'[q].transport, call'[q].t}
        PROVE  Names(u, s)
    <3>1. u # None
      BY SfuAssumption
    <3>2. local'[q] = local[q] /\ call'[q] = call[q]
      BY <1>3, <2>3, <3>1 DEF NoLocal, NoCall
    <3> QED
      BY <2>3, <3>2 DEF Names
  <2> QED
    BY <1>1, <2>1, <2>2, <2>3 DEF Names, TransportRows
<1>8. OneProducerEach'
  <2>1. \A q \in Requests : local'[q].producer \in {local[q].producer, None}
    BY <1>3 DEF NoLocal
  <2> QED
    BY <2>1 DEF RosterInv, OneProducerEach
<1>9. ASSUME NEW q \in Requests
      PROVE  RequestInv(q)'
  <2>0. RequestInv(q)
    BY DEF RosterInv
  <2>1. CASE q = r
    <3>1. CASE pc'[r] = "idle"
      BY <1>3, <2>1, <3>1, IdleRequest
    <3>2. CASE pc'[r] \in {"rt_publish", "rt_existing"}
      BY <1>3, <2>0, <2>1, <3>2, FreeRequest
         DEF RequestInv, MadeForCaller, ProduceSteps, MeetingLocked, Producing
    <3> QED
      BY <1>3, <3>1, <3>2
  <2>2. CASE q # r
    <3>1. \A s \in Requests : /\ call'[s].t \in {call[s].t, None}
                              /\ local'[s].transport \in {local[s].transport, None}
      BY <1>3 DEF NoLocal, NoCall
    <3>2. pc[q] = "rt_register" =>
             /\ \A row \in TransportRows(db') : row \in TransportRows(db) \/ row.t # local[q].transport
             /\ \A s \in Requests : call'[s].t # local[q].transport
             /\ \A s \in Requests \ {q} : local'[s].transport # local[q].transport
      <4> SUFFICES ASSUME pc[q] = "rt_register"
                   PROVE  /\ \A row \in TransportRows(db') :
                                row \in TransportRows(db) \/ row.t # local[q].transport
                          /\ \A s \in Requests : call'[s].t # local[q].transport
                          /\ \A s \in Requests \ {q} : local'[s].transport # local[q].transport
        OBVIOUS
      <4>1. local[q].transport # None
        BY SfuAssumption DEF ControlOK, StepTyped
      <4>2. local[q].transport # t
        BY <1>1, <2>2 DEF RequestInv, Unshared
      <4> QED
        BY <1>5, <2>0, <3>1, <4>1, <4>2 DEF RequestInv, Unshared
    <3>3. call[q].t # t
      BY <1>1 DEF RequestInv, Unshared
    <3> QED
      BY <1>1, <1>3, <1>5, <2>0, <2>2, <3>2, <3>3, OtherRequest
  <2> QED
    BY <2>1, <2>2
<1> QED
  BY <1>4, <1>7, <1>8, <1>9 DEF RosterInv

\* ... inserts it in transport_map, or replies with one that is there.
LEMMA RecreateReplyStep ==
  ASSUME DataOK, ControlOK, RosterInv, NEW r \in Requests,
         RecreatePublish(r) \/ RecreateExisting(r)
  PROVE  RosterInv' /\ RosterStep
<1>1. /\ db' = db /\ Consistent(db)
      /\ pc \in [Requests -> Steps] /\ call \in [Requests -> Calls]
      /\ local \in [Requests -> Locals]
  BY DEF RecreatePublish, RecreateExisting, memory, RosterInv, ControlOK
<1>2. QuietStep
  BY <1>1, SameQuiet
<1>3. CASE Done(r) /\ transport_map' = transport_map
  BY <1>1, <1>2, <1>3, DoneQuiet, QuietInvariant DEF Quietly, QuietStep
<1>4. CASE \E vals : /\ Continue(r, "rt_reply", vals)
                     /\ vals.producer = local[r].producer /\ vals.made = local[r].made
                     /\ \/ vals.transport = local[r].transport
                        \/ \E x \in transport_map : x.id = vals.transport /\ x.p = call[r].p
                     /\ \A x \in transport_map' :
                           \/ x \in transport_map
                           \/ x.id = local[r].transport /\ x.p = call[r].p
                              /\ pc[r] # "rt_register"
  <2>1. PICK vals : /\ Continue(r, "rt_reply", vals)
                    /\ vals.producer = local[r].producer /\ vals.made = local[r].made
                    /\ \/ vals.transport = local[r].transport
                       \/ \E x \in transport_map : x.id = vals.transport /\ x.p = call[r].p
                    /\ \A x \in transport_map' :
                          \/ x \in transport_map
                          \/ x.id = local[r].transport /\ x.p = call[r].p
                             /\ pc[r] # "rt_register"
    BY <1>4
  <2>2. /\ call' = call /\ pc'[r] = "rt_reply" /\ local'[r] = vals
        /\ \A q \in Requests \ {r} : pc'[q] = pc[q] /\ local'[q] = local[q]
    BY <1>1, <2>1 DEF Continue
  <2>3. OneOwner'
    <3> SUFFICES ASSUME NEW u \in Transports, NEW s \in Participants \cup {None}, Names(u, s)'
                 PROVE  Names(u, s)
      BY KeepsOwners
    <3>1. CASE \E x \in transport_map' : x.id = u /\ x.p = s
      BY <2>1, <3>1 DEF Names
    <3>2. CASE \E row \in TransportRows(db) : row.t = u /\ row.p = s
      BY <3>2 DEF Names
    <3>3. ASSUME NEW q \in Requests, call[q].p = s, u \in {local'[q].transport, call[q].t}
          PROVE  Names(u, s)
      <4>1. CASE q = r
        BY <2>1, <2>2, <3>3, <4>1 DEF Names
      <4>2. CASE q # r
        BY <2>2, <3>3, <4>2 DEF Names
      <4> QED
        BY <4>1, <4>2
    <3> QED
      BY <1>1, <2>2, <3>1, <3>2, <3>3 DEF Names, TransportRows
  <2>4. OneProducerEach'
    <3>1. \A q \in Requests : local'[q].producer = local[q].producer
      BY <2>1, <2>2
    <3> QED
      BY <3>1 DEF RosterInv, OneProducerEach
  <2>5. ASSUME NEW q \in Requests
        PROVE  RequestInv(q)'
    <3>0. RequestInv(q)
      BY DEF RosterInv
    <3>1. CASE q = r
      BY <2>1, <2>2, <3>0, <3>1, FreeRequest
         DEF RequestInv, MadeForCaller, ProduceSteps, MeetingLocked, Producing
    <3>2. CASE q # r
      <4>1. pc[q] = "rt_register" =>
               /\ \A x \in transport_map' : x \in transport_map \/ x.id # local[q].transport
               /\ \A s \in Requests \ {q} : local'[s].transport # local[q].transport
        BY <2>1, <2>2, <3>0, <3>2 DEF RequestInv, Unshared
      <4> QED
        BY <1>1, <2>2, <3>0, <3>2, <4>1, OtherRequest DEF RequestInv, Unshared
    <3> QED
      BY <3>1, <3>2
  <2> QED
    BY <1>1, <1>2, <2>3, <2>4, <2>5 DEF RosterInv, QuietStep
<1>5. CASE RecreatePublish(r)
  <2> DEFINE new == [id |-> local[r].transport, m |-> call[r].m, p |-> call[r].p, kind |-> call[r].kind]
  <2>1. new.id = local[r].transport /\ new.p = call[r].p
    OBVIOUS
  <2>2. /\ pc[r] = "rt_publish" /\ Continue(r, "rt_reply", local[r])
        /\ transport_map' \subseteq transport_map \cup {new}
    BY <1>5 DEF RecreatePublish
  <2> HIDE DEF new
  <2>3. \A x \in transport_map' :
           \/ x \in transport_map
           \/ x.id = local[r].transport /\ x.p = call[r].p /\ pc[r] # "rt_register"
    BY <2>1, <2>2
  <2>4. PICK vals : vals = local[r]
    OBVIOUS
  <2>5. /\ Continue(r, "rt_reply", vals) /\ vals.producer = local[r].producer
        /\ vals.made = local[r].made /\ vals.transport = local[r].transport
    BY <2>2, <2>4
  <2>6. RosterInv'
    BY <1>4, <2>3, <2>5
  <2> QED
    BY <1>2, <2>6 DEF QuietStep
<1>6. CASE RecreateExisting(r)
  <2>1. transport_map' = transport_map
    BY <1>6 DEF RecreateExisting, memory
  <2>2. ASSUME NEW x \in transport_map, x.p = call[r].p,
               Continue(r, "rt_reply", [local[r] EXCEPT !.transport = x.id])
        PROVE  RosterInv'
    <3> DEFINE vals == [local[r] EXCEPT !.transport = x.id]
    <3>1. /\ vals.transport = x.id /\ vals.producer = local[r].producer
          /\ vals.made = local[r].made
      BY <1>1 DEF Locals
    <3>2. Continue(r, "rt_reply", vals)
      BY <2>2
    <3> HIDE DEF vals
    <3> QED
      BY <1>4, <2>1, <2>2, <3>1, <3>2
  <2> QED
    BY <1>2, <1>3, <1>6, <2>1, <2>2 DEF RecreateExisting, QuietStep
<1> QED
  BY <1>5, <1>6

\* create_producer makes a producer nobody knows, ...
LEMMA ProduceOnTransportStep ==
  ASSUME DataOK, ControlOK, RosterInv, NEW r \in Requests, ProduceOnTransport(r)
  PROVE  RosterInv' /\ RosterStep
<1>1. /\ db' = db /\ transport_map' = transport_map /\ Consistent(db) /\ pc[r] = "cp_produce"
      /\ pc \in [Requests -> Steps] /\ call \in [Requests -> Calls]
      /\ local \in [Requests -> Locals]
  BY DEF ProduceOnTransport, memory, RosterInv, ControlOK
<1>2. QuietStep
  BY <1>1, SameQuiet
<1>3. CASE Done(r)
  BY <1>1, <1>2, <1>3, DoneQuiet, QuietInvariant DEF Quietly, QuietStep
<1>4. ASSUME NEW id \in FreshProducers, Continue(r, "cp_routers", [local[r] EXCEPT !.producer = id])
      PROVE  RosterInv'
  <2> DEFINE vals == [local[r] EXCEPT !.producer = id]
  <2>1. /\ vals.producer = id /\ vals.transport = local[r].transport
        /\ vals.made = local[r].made
    BY <1>1 DEF Locals
  <2>2. /\ call' = call /\ pc' = [pc EXCEPT ![r] = "cp_routers"]
        /\ local' = [local EXCEPT ![r] = vals]
    BY <1>4 DEF Continue
  <2> HIDE DEF vals
  <2>3. /\ pc'[r] = "cp_routers" /\ local'[r] = vals
        /\ \A q \in Requests \ {r} : pc'[q] = pc[q] /\ local'[q] = local[q]
        /\ \A q \in Requests : local'[q].transport = local[q].transport
    BY <1>1, <2>1, <2>2
  <2>4. /\ \A row \in db.participant_producers : row.id # id
        /\ \A q \in Requests : local[q].producer # id
    BY <1>4 DEF FreshProducers
  <2>5. OneOwner'
    <3> SUFFICES ASSUME NEW u \in Transports, NEW s \in Participants \cup {None}, Names(u, s)'
                 PROVE  Names(u, s)
      BY KeepsOwners
    <3> QED
      BY <1>1, <2>2, <2>3 DEF Names, TransportRows
  <2>6. OneProducerEach'
    BY <2>1, <2>3, <2>4 DEF RosterInv, OneProducerEach
  <2>7. ASSUME NEW q \in Requests
        PROVE  RequestInv(q)'
    <3>0. RequestInv(q)
      BY DEF RosterInv
    <3>1. CASE q = r
      <4>1. StaysWhileRegistered(r)'
        BY <1>1, <2>2, <3>0, <3>1 DEF RequestInv, StaysWhileRegistered, ProduceSteps, MeetingLocked, Producing
      <4>2. Unrecorded(r)'
        BY <1>1, <2>1, <2>3, <2>4 DEF Unrecorded
      <4> QED
        BY <2>1, <2>2, <2>3, <3>0, <3>1, <4>1, <4>2
           DEF RequestInv, Unshared, MadeForCaller, IdleHasNone
    <3>2. CASE q # r
      BY <1>1, <2>2, <2>3, <3>0, <3>2, OtherRequest DEF RequestInv, Unshared
    <3> QED
      BY <3>1, <3>2
  <2> QED
    BY <1>1, <2>5, <2>6, <2>7 DEF RosterInv
<1> QED
  BY <1>2, <1>3, <1>4 DEF ProduceOnTransport, QuietStep

\* ... and records it, while its transport is still its participant's and the participant
\* still in the meeting.
LEMMA ProduceRegisterStep ==
  ASSUME DataOK, ControlOK, RosterInv, NEW r \in Requests, ProduceRegister(r)
  PROVE  RosterInv' /\ RosterStep
<1> DEFINE c == call[r]
           row == [id |-> local[r].producer, p |-> c.p, kind |-> c.kind, m |-> c.m, t |-> c.t]
           d == RegisterProducerTx(db, row).db
<1>1. /\ transport_map' = transport_map /\ Consistent(db) /\ db \in Databases
      /\ pc[r] = "cp_register" /\ RequestInv(r)
      /\ pc \in [Requests -> Steps] /\ call \in [Requests -> Calls]
      /\ local \in [Requests -> Locals]
  BY DEF ProduceRegister, memory, RosterInv, ControlOK, DataOK
<1>2. db' = db \/ db' = d
  <2>1. PICK out \in Outcomes(RegisterProducerTx(db, row)) : db' = out.db
    BY DEF ProduceRegister
  <2> QED
    BY <2>1, OutcomeOf
<1>3. /\ \A q \in Requests \ {r} : pc'[q] = pc[q] /\ local'[q] = local[q] /\ call'[q] = call[q]
      /\ \/ pc'[r] \in {"cp_publish", "cp_pipeline"} /\ local'[r] = local[r] /\ call'[r] = call[r]
         \/ pc'[r] = "idle" /\ local'[r] = NoLocal /\ call'[r] = NoCall
  BY <1>1 DEF ProduceRegister, Continue, Done
<1>4. /\ c.m \in Meetings /\ c.p \in Participants /\ c.kind \in Kinds /\ c.t \in Transports
      /\ local[r].producer \in ProducerIds
  BY <1>1 DEF ControlOK, StepTyped, ProduceSteps, MeetingLocked, Producing
<1>5. /\ row.id = local[r].producer /\ row.p = c.p /\ row.m = c.m /\ row.t = c.t
      /\ row \in ParticipantProducers
  BY <1>4 DEF ParticipantProducers
<1> HIDE DEF row
<1>6. \A x \in db.participant_producer_transport :
         x.t = c.t => /\ x.p = c.p
                      /\ \E y \in db.participant_meeting : y.p = c.p /\ y.m = c.m
  <2> SUFFICES ASSUME NEW x \in db.participant_producer_transport, x.t = c.t
               PROVE  /\ x.p = c.p
                      /\ \E y \in db.participant_meeting : y.p = c.p /\ y.m = c.m
    OBVIOUS
  <2>1. x.p \in Participants
    BY <1>1 DEF Databases, ParticipantTransport
  <2>2. Names(c.t, x.p) /\ Names(c.t, c.p)
    BY DEF Names, TransportRows
  <2>3. x.p = c.p
    BY <1>4, <2>1, <2>2 DEF RosterInv, OneOwner
  <2> QED
    BY <1>1, <2>3 DEF RequestInv, StaysWhileRegistered, ProduceSteps, MeetingLocked, Producing
<1>7. /\ SameParticipants(db, db')
      /\ db'.participant_consumers = db.participant_consumers
      /\ \/ db'.participant_producers = db.participant_producers
         \/ /\ HasTransport(db.participant_producer_transport, row.t)
            /\ db'.participant_producers = db.participant_producers \cup {row}
  <2>1. CASE db' = db
    BY <2>1 DEF SameParticipants
  <2>2. CASE db' = d
    BY <1>1, <2>2, RegisterProducerEffect
  <2> QED
    BY <1>2, <2>1, <2>2
<1>8. RosterStep
  <2>1. CASE db' = db
    BY <1>1, <2>1, SameQuiet DEF QuietStep
  <2>2. CASE db' = d
    <3>1. \A x \in db.participant_producers : x.id # row.id
      BY <1>1, <1>5 DEF RequestInv, Unrecorded
    <3>2. HasTransport(db.participant_producer_transport, row.t) =>
             \E y \in db.participant_meeting : y.p = row.p /\ y.m = row.m
      BY <1>5, <1>6 DEF HasTransport
    <3> QED
      BY <1>1, <1>5, <2>2, <3>1, <3>2, RegisterProducerRoster
  <2> QED
    BY <1>2, <2>1, <2>2
<1> HIDE DEF d
<1>9. Consistent(db')
  <2>1. \A x \in db'.participant_producers :
           \/ x \in db.participant_producers
           \/ \E y \in db.participant_producer_transport : y.p = x.p /\ y.t = x.t
    BY <1>5, <1>6, <1>7 DEF HasTransport
  <2> QED
    BY <1>1, <1>7, <2>1, RowsConsistent
<1>10. OneOwner'
  <2> SUFFICES ASSUME NEW u \in Transports, NEW s \in Participants \cup {None}, Names(u, s)'
               PROVE  Names(u, s)
    BY KeepsOwners
  <2>1. CASE \E x \in transport_map : x.id = u /\ x.p = s
    BY <2>1 DEF Names
  <2>2. CASE \E x \in TransportRows(db') : x.t = u /\ x.p = s
    BY <1>7, <2>2 DEF Names, TransportRows, SameParticipants
  <2>3. ASSUME NEW q \in Requests, call'[q].p = s, u \in {local'[q].transport, call'[q].t}
        PROVE  Names(u, s)
    <3>1. u # None
      BY SfuAssumption
    <3>2. local'[q] = local[q] /\ call'[q] = call[q]
      BY <1>3, <2>3, <3>1 DEF NoLocal, NoCall
    <3> QED
      BY <2>3, <3>2 DEF Names
  <2> QED
    BY <1>1, <2>1, <2>2, <2>3 DEF Names, TransportRows
<1>11. OneProducerEach'
  <2>1. \A q \in Requests : local'[q].producer \in {local[q].producer, None}
    BY <1>3 DEF NoLocal
  <2> QED
    BY <2>1 DEF RosterInv, OneProducerEach
<1>12. ASSUME NEW q \in Requests
       PROVE  RequestInv(q)'
  <2>0. RequestInv(q)
    BY DEF RosterInv
  <2>1. CASE q = r
    <3>1. CASE pc'[r] = "idle"
      BY <1>3, <2>1, <3>1, IdleRequest
    <3>2. CASE pc'[r] \in {"cp_publish", "cp_pipeline"}
      <4>1. StaysWhileRegistered(r)'
        BY <1>1, <1>3, <1>7, <3>2
           DEF RequestInv, StaysWhileRegistered, SameParticipants, ProduceSteps, MeetingLocked, Producing
      <4> QED
        BY <1>1, <1>3, <2>1, <3>2, <4>1
           DEF RequestInv, Unshared, Unrecorded, MadeForCaller, IdleHasNone
    <3> QED
      BY <1>3, <3>1, <3>2
  <2>2. CASE q # r
    <3>1. \A s \in Requests : /\ call'[s].t \in {call[s].t, None}
                              /\ local'[s].transport \in {local[s].transport, None}
      BY <1>3 DEF NoLocal, NoCall
    <3>2. pc[q] = "rt_register" =>
             /\ \A s \in Requests : call'[s].t # local[q].transport
             /\ \A s \in Requests \ {q} : local'[s].transport # local[q].transport
      <4> SUFFICES ASSUME pc[q] = "rt_register"
                   PROVE  /\ \A s \in Requests : call'[s].t # local[q].transport
                          /\ \A s \in Requests \ {q} : local'[s].transport # local[q].transport
        OBVIOUS
      <4>1. local[q].transport # None
        BY SfuAssumption DEF ControlOK, StepTyped
      <4> QED
        BY <2>0, <3>1, <4>1 DEF RequestInv, Unshared
    <3>3. local[q].producer # local[r].producer
      BY <1>4, <2>2, SfuAssumption DEF RosterInv, OneProducerEach
    <3>4. \A x \in db'.participant_producers :
             x \in db.participant_producers \/ x.id # local[q].producer
      BY <1>5, <1>7, <3>3
    <3> QED
      BY <1>1, <1>3, <1>7, <2>0, <2>2, <3>2, <3>4, OtherRequest DEF SameParticipants, TransportRows
  <2> QED
    BY <2>1, <2>2
<1> QED
  BY <1>8, <1>9, <1>10, <1>11, <1>12 DEF RosterInv

\* create_consumer records the consumers it made on a transport of its participant.
LEMMA ConsumeRegisterStep ==
  ASSUME DataOK, ControlOK, RosterInv, NEW r \in Requests, ConsumeRegister(r)
  PROVE  RosterInv' /\ RosterStep
<1> DEFINE rows == {[id |-> x.id, p |-> x.p, target |-> x.target, kind |-> x.kind,
                     m |-> x.m, t |-> call[r].t] : x \in local[r].made}
<1>1. /\ transport_map' = transport_map /\ Consistent(db) /\ db \in Databases
      /\ pc[r] = "cc_consume" /\ RequestInv(r)
      /\ call[r].p \in Participants /\ call[r].t \in Transports
      /\ local[r] \in Locals
  BY DEF ConsumeRegister, memory, RosterInv, ControlOK, DataOK, StepTyped, ConsumeSteps
<1>2. PICK out \in Outcomes(RegisterConsumersTx(db, rows)) : db' = out.db
  BY DEF ConsumeRegister
<1>3. Quietly
  BY <1>1, ContinueQuiet, DoneQuiet
     DEF ConsumeRegister, Quietly, ProduceSteps, MeetingLocked, Producing, NewProducer
<1>4. rows \in SUBSET ParticipantConsumers
  BY <1>1 DEF Locals, ConsumerInMemory, ParticipantConsumers
<1>5. \A row \in rows : row.p = call[r].p /\ row.t = call[r].t
  BY <1>1 DEF RequestInv, MadeForCaller
<1> HIDE DEF rows
<1>6. \A x \in db.participant_consumer_transport : x.t = call[r].t => x.p = call[r].p
  <2> SUFFICES ASSUME NEW x \in db.participant_consumer_transport, x.t = call[r].t
               PROVE  x.p = call[r].p
    OBVIOUS
  <2>1. x.p \in Participants
    BY <1>1 DEF Databases, ParticipantTransport
  <2>2. Names(call[r].t, x.p) /\ Names(call[r].t, call[r].p)
    BY DEF Names, TransportRows
  <2> QED
    BY <1>1, <2>1, <2>2 DEF RosterInv, OneOwner
<1>7. QuietStep
  <2>1. CASE db' = db
    BY <1>1, <2>1, SameQuiet
  <2>2. CASE db' = RegisterConsumersTx(db, rows).db
    BY <1>1, <1>4, <1>5, <1>6, <2>2, ConsumersTxQuiet
  <2> QED
    BY <1>2, <2>1, <2>2, OutcomeOf
<1> QED
  BY <1>3, <1>7, QuietInvariant DEF QuietStep

-----------------------------------------------------------------------------
(* Calls, the loss of the process, and the theorem *)

\* A media call names a transport of its participant that is in transport_map, from the
\* meeting the participant is in.
LEMMA MediaCallStep ==
  ASSUME DataOK, ControlOK, RosterInv, NEW r \in Requests, NEW step \in {"cp_lock", "cc_transport"},
         NEW c, Begin(r, step, c), NEW x \in transport_map, c.t = x.id, c.p = x.p,
         \E y \in db.participant_meeting : y.p = c.p /\ y.m = c.m
  PROVE  RosterInv' /\ RosterStep
<1>1. /\ db' = db /\ transport_map' = transport_map /\ local' = local /\ Consistent(db)
      /\ pc[r] = "idle" /\ call'[r] = c /\ pc'[r] = step
      /\ \A q \in Requests \ {r} : call'[q] = call[q] /\ pc'[q] = pc[q]
  BY DEF Begin, memory, RosterInv, ControlOK
<1>2. RosterStep
  BY <1>1, SameQuiet DEF QuietStep
<1>3. local[r].transport = None /\ local[r].made = {}
  BY <1>1 DEF RosterInv, RequestInv, IdleHasNone
<1>4. x.id \in Transports /\ x.p \in Participants
  BY DEF DataOK, TransportInMemory
<1>5. OneOwner'
  <2> SUFFICES ASSUME NEW u \in Transports, NEW s \in Participants \cup {None}, Names(u, s)'
               PROVE  Names(u, s)
    BY KeepsOwners
  <2>1. CASE \E y \in transport_map : y.id = u /\ y.p = s
    BY <2>1 DEF Names
  <2>2. CASE \E row \in TransportRows(db) : row.t = u /\ row.p = s
    BY <2>2 DEF Names
  <2>3. ASSUME NEW q \in Requests, call'[q].p = s, u \in {local[q].transport, call'[q].t}
        PROVE  Names(u, s)
    <3>1. u # None
      BY SfuAssumption
    <3>2. CASE q = r
      BY <1>1, <1>3, <2>3, <3>1, <3>2 DEF Names
    <3>3. CASE q # r
      BY <1>1, <2>3, <3>3 DEF Names
    <3> QED
      BY <3>2, <3>3
  <2> QED
    BY <1>1, <2>1, <2>2, <2>3 DEF Names, TransportRows
<1>6. OneProducerEach'
  BY <1>1 DEF RosterInv, OneProducerEach
<1>7. ASSUME NEW q \in Requests
      PROVE  RequestInv(q)'
  <2>0. RequestInv(q)
    BY DEF RosterInv
  <2>1. CASE q = r
    <3>1. ASSUME NEW row \in db.participant_producer_transport, row.t = c.t
          PROVE  \E y \in db.participant_meeting : y.p = row.p /\ y.m = c.m
      <4>1. row.p \in Participants
        BY DEF DataOK, Databases, ParticipantTransport
      <4>2. Names(x.id, row.p) /\ Names(x.id, x.p)
        BY <3>1 DEF Names, TransportRows
      <4> QED
        BY <1>4, <4>1, <4>2 DEF RosterInv, OneOwner
    <3>2. StaysWhileRegistered(r)'
      BY <1>1, <3>1 DEF StaysWhileRegistered
    <3> QED
      BY <1>1, <1>3, <2>1, <3>2 DEF RequestInv, Unshared, Unrecorded, MadeForCaller, IdleHasNone
  <2>2. CASE q # r
    <3>1. pc[q] = "rt_register" => \A s \in Requests : call'[s].t # local[q].transport
      BY <1>1, <2>0 DEF RequestInv, Unshared
    <3> QED
      BY <1>1, <2>0, <2>2, <3>1, OtherRequest DEF RequestInv, Unshared
  <2> QED
    BY <2>1, <2>2
<1> QED
  BY <1>1, <1>2, <1>5, <1>6, <1>7 DEF RosterInv

\* The other calls name no transport to use.
LEMMA OtherCallStep ==
  ASSUME ControlOK, RosterInv, NEW r \in Requests, NEW step, NEW c, Begin(r, step, c),
         c.t = None, step \notin {"idle", "rt_register"} \cup ProduceSteps
  PROVE  RosterInv' /\ RosterStep
  BY BeginQuiet, SameQuiet, QuietInvariant DEF RosterInv, QuietStep

\* Every call.
LEMMA CallRoster ==
  ASSUME DataOK, ControlOK, RosterInv, NEW r \in Requests, Call(r)
  PROVE  RosterInv' /\ RosterStep
<1> USE DEF ProduceSteps, MeetingLocked, Producing
<1>0. PICK m \in Meetings :
         \/ CallCreateMeeting(r, m)
         \/ CallReplaceMeeting(r, m)
         \/ CallEndMeeting(r, m)
         \/ \E p \in Participants, i \in Instances :
               \/ \E kind \in TransportKinds : CallRecreate(r, p, m, i, kind)
               \/ CallLeave(r, p, m, i)
               \/ CallCreateProducer(r, p, m, i)
               \/ CallCloseProducer(r, p, m, i)
               \/ CallCreateConsumer(r, p, m, i)
               \/ CallCloseConsumer(r, p, m, i)
  BY DEF Call
<1>1. ASSUME NEW step \in {"cm_routers", "rm_routers", "em_delete", "rt_lock", "lv_delete",
                           "cl_delete", "cz_delete"},
             NEW c, c.t = None, Begin(r, step, c)
      PROVE  RosterInv' /\ RosterStep
  BY <1>1, OtherCallStep
<1>2. CASE CallCreateMeeting(r, m)
  <2>1. Begin(r, "cm_routers", [NoCall EXCEPT !.m = m])
    BY <1>2 DEF CallCreateMeeting
  <2> QED
    BY <1>1, <2>1 DEF NoCall
<1>3. CASE CallReplaceMeeting(r, m)
  <2>1. Begin(r, "rm_routers", [NoCall EXCEPT !.m = m])
    BY <1>3 DEF CallReplaceMeeting
  <2> QED
    BY <1>1, <2>1 DEF NoCall
<1>4. CASE CallEndMeeting(r, m)
  <2>1. PICK ids, listed : Begin(r, "em_delete", [NoCall EXCEPT !.m = m, !.ids = ids, !.listed = listed])
    BY <1>4 DEF CallEndMeeting
  <2> QED
    BY <1>1, <2>1 DEF NoCall
<1>5. ASSUME NEW p \in Participants, NEW i \in Instances, NEW kind, CallRecreate(r, p, m, i, kind)
      PROVE  RosterInv' /\ RosterStep
  <2>1. PICK router \in RoutersOfMeeting(m), old \in OldTransports(p, m) :
           Begin(r, "rt_lock", [NoCall EXCEPT !.p = p, !.m = m, !.i = i, !.kind = kind,
                                              !.router = router, !.ids = old])
    BY <1>5 DEF CallRecreate
  <2> QED
    BY <1>1, <2>1 DEF NoCall
<1>6. ASSUME NEW p \in Participants, NEW i \in Instances,
             CallLeave(r, p, m, i) \/ CallCloseProducer(r, p, m, i) \/ CallCloseConsumer(r, p, m, i)
      PROVE  RosterInv' /\ RosterStep
  <2>1. PICK old : \E step \in {"lv_delete", "cl_delete", "cz_delete"} :
           Begin(r, step, [NoCall EXCEPT !.p = p, !.m = m, !.i = i, !.ids = old])
    BY <1>6 DEF CallLeave, CallCloseProducer, CallCloseConsumer
  <2> QED
    BY <1>1, <2>1 DEF NoCall
<1>7. ASSUME NEW p \in Participants, NEW i \in Instances, CallCreateProducer(r, p, m, i)
      PROVE  RosterInv' /\ RosterStep
  <2>1. PICK kind \in Kinds, record \in Recording, router \in RoutersOfMeeting(m),
             x \in {y \in transport_map : y.p = p /\ y.m = m /\ y.kind = "producer"},
             others \in SUBSET RoutersOfMeeting(m) :
           Begin(r, "cp_lock", [NoCall EXCEPT !.p = p, !.m = m, !.i = i, !.kind = kind,
                                   !.router = router, !.t = x.id, !.record = record,
                                   !.ids = others])
    BY <1>7 DEF CallCreateProducer
  <2> DEFINE c == [NoCall EXCEPT !.p = p, !.m = m, !.i = i, !.kind = kind, !.router = router,
                                 !.t = x.id, !.record = record, !.ids = others]
  <2>2. c.t = x.id /\ c.p = p /\ c.m = m /\ Begin(r, "cp_lock", c)
    BY <2>1 DEF NoCall
  <2> HIDE DEF c
  <2>3. \E y \in db.participant_meeting : y.p = p /\ y.m = m
    BY <1>7 DEF CallCreateProducer, InMeeting
  <2> QED
    BY <2>2, <2>3, MediaCallStep
<1>8. ASSUME NEW p \in Participants, NEW i \in Instances, CallCreateConsumer(r, p, m, i)
      PROVE  RosterInv' /\ RosterStep
  <2>1. PICK W \in Requested(p, m),
             x \in {y \in transport_map : y.p = p /\ y.m = m /\ y.kind = "consumer"} :
           Begin(r, "cc_transport", [NoCall EXCEPT !.p = p, !.m = m, !.i = i,
                                                   !.t = x.id, !.want = W])
    BY <1>8 DEF CallCreateConsumer
  <2> DEFINE c == [NoCall EXCEPT !.p = p, !.m = m, !.i = i, !.t = x.id, !.want = W]
  <2>2. c.t = x.id /\ c.p = p /\ c.m = m /\ Begin(r, "cc_transport", c)
    BY <2>1 DEF NoCall
  <2> HIDE DEF c
  <2>3. \E y \in db.participant_meeting : y.p = p /\ y.m = m
    BY <1>8 DEF CallCreateConsumer, InMeeting
  <2> QED
    BY <2>2, <2>3, MediaCallStep
<1> QED
  BY <1>0, <1>2, <1>3, <1>4, <1>5, <1>6, <1>7, <1>8

\* Every step of a handler.
LEMMA StepRoster ==
  ASSUME DataOK, ControlOK, RosterInv, NEW r \in Requests, Step(r)
  PROVE  RosterInv' /\ RosterStep
<1>1. CASE QuietStep /\ Quietly
  BY <1>1, QuietInvariant DEF QuietStep
<1>2. CASE CreateMeeting(r) \/ ReplaceMeeting(r) \/ PublishRouters(r) \/ EndMeeting(r)
  BY <1>1, <1>2, MeetingQuiet
<1>3. CASE RecreateTransport(r)
  BY <1>1, <1>3, RecreateQuiet, RecreateCreateStep, RecreateRegisterStep, RecreateReplyStep
<1>4. CASE LeaveMeeting(r)
  BY <1>1, <1>4, LeaveQuiet
<1>5. CASE CreateProducer(r)
  BY <1>1, <1>5, ProduceQuiet, ProduceOnTransportStep, ProduceRegisterStep
<1>6. CASE CloseProducer(r) \/ CloseConsumer(r)
  BY <1>1, <1>6, CloseQuiet
<1>7. CASE CreateConsumer(r)
  BY <1>1, <1>7, ConsumeQuiet, ConsumeRegisterStep
<1> QED
  BY <1>2, <1>3, <1>4, <1>5, <1>6, <1>7 DEF Step

\* The loss of the process keeps the tables.
LEMMA RestartRoster ==
  ASSUME DataOK, ControlOK, RosterInv, Restart
  PROVE  RosterInv' /\ RosterStep
<1>1. /\ db' = db /\ transport_map' = {} /\ Consistent(db)
      /\ \A r \in Requests : pc'[r] = "idle" /\ call'[r] = NoCall /\ local'[r] = NoLocal
  BY DEF Restart, RosterInv
<1>2. QuietStep
  BY <1>1, SameQuiet
<1>3. Quietly
  BY <1>1 DEF Quietly, QuietRequest
<1> QED
  BY <1>2, <1>3, QuietInvariant DEF QuietStep

\* Every step of the system is one of the Roster's, or changes nothing it shows.
LEMMA NextRoster ==
  ASSUME DataOK, ControlOK, RosterInv, [Next]_vars
  PROVE  RosterInv' /\ RosterStep
<1>1. CASE UNCHANGED vars
  <2>1. /\ db' = db /\ transport_map' = transport_map /\ pc' = pc /\ call' = call /\ local' = local
    BY <1>1 DEF vars, memory
  <2>2. QuietStep
    BY <2>1, SameQuiet DEF RosterInv
  <2>3. Quietly
    BY <2>1 DEF Quietly, QuietRequest
  <2> QED
    BY <2>2, <2>3, QuietInvariant DEF QuietStep
<1> QED
  BY <1>1, CallRoster, StepRoster, RestartRoster DEF Next

\* The empty database is an empty Roster.
LEMMA InitRoster ==
  ASSUME Init
  PROVE  RosterInv /\ roster!RosterInit
<1>1. /\ db.meeting_status = {} /\ db.participant_meeting = {}
      /\ db.participant_producer_transport = {} /\ db.participant_consumer_transport = {}
      /\ db.participant_producers = {} /\ db.participant_consumers = {}
  BY DEF Init, EmptyDatabase
<1>2. /\ transport_map = {}
      /\ \A r \in Requests : pc[r] = "idle" /\ call[r] = NoCall /\ local[r] = NoLocal
  BY DEF Init
<1>3. Consistent(db) /\ roster!RosterInit
  BY <1>1 DEF Consistent, TransportRows, roster!RosterInit
<1>4. OneOwner
  BY <1>1, <1>2, SfuAssumption DEF OneOwner, Names, TransportRows, NoCall, NoLocal
<1>5. OneProducerEach
  BY <1>2 DEF OneProducerEach, NoLocal
<1>6. \A r \in Requests : RequestInv(r)
  BY <1>2 DEF RequestInv, Unshared, StaysWhileRegistered, Unrecorded, MadeForCaller, IdleHasNone,
              NoLocal, ProduceSteps, MeetingLocked, Producing
<1> QED
  BY <1>3, <1>4, <1>5, <1>6 DEF RosterInv

\* The media server implements the Roster, for every set of meetings, participants,
\* instances and identifiers, any number of requests, callers that wait or not, and every
\* fault: however the handlers interleave, fail, panic or are lost with the process, the
\* tables change as the Roster says, so that a take-over retracts everything of the
\* superseded instance in the step that admits the new one, a leave of a superseded
\* instance changes nothing, and a producer is recorded only for a participant in its meeting.
THEOREM Refinement == Spec => ImplementsRoster
<1>1. Init => RosterInv /\ roster!RosterInit
  BY InitRoster
<1>2. IInv /\ RosterInv /\ [Next]_vars => RosterInv' /\ [roster!RosterNext]_(roster!rosterVars)
  BY NextRoster DEF IInv, RosterStep
<1> QED
  BY <1>1, <1>2, Invariance, PTL DEF Spec, ImplementsRoster, roster!RosterSpec
=============================================================================
