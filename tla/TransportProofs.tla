--------------------------- MODULE TransportProofs ---------------------------
(***************************************************************************)
(* No transport that is recorded is dropped from memory, proved for every  *)
(* set of meetings, participants, instances, identifiers and requests,     *)
(* every fault, and callers that wait for their replies or not.            *)
(***************************************************************************)
EXTENDS RosterProofs

-----------------------------------------------------------------------------
(* The inductive invariant *)

\* The routers this process has, or has created and not yet published.
Claimed == routers_map \cup UNION {local[r].routers : r \in Requests}

RoutersIn(d, m) == {row.router : row \in {x \in d.router_meeting : x.m = m}}

\* Meeting m was served by a process that is lost, and will not be served by this one.
Adrift(m) == RoutersIn(db, m) \cap Claimed = {}

InMemory(t) ==
    \/ \E x \in transport_map : x.id = t
    \/ \E r \in Requests : pc[r] = "rt_publish" /\ local[r].transport = t

\* RecordedTransportIsKnown, with the meetings that will never be served here instead of
\* those that are not: the routers about to be published serve no transport of old.
Known ==
    \A row \in TransportRows(db) :
       \/ InMemory(row.t)
       \/ \E x \in db.participant_meeting : x.p = row.p /\ Adrift(x.m)

\* The foreign keys of meetings and routers.
Keyed(d) ==
    /\ \A x \in d.participant_meeting : x.m \in d.meeting_status
    /\ \A x \in d.router_meeting : x.m \in d.meeting_status /\ x.router \in d.router_worker

\* Steps of the handlers that take the ids of transports of their participant.
Listing == RecreateSteps \cup LeaveSteps

\* A request at this step has deleted the rows of the transports it was called to drop.
Dropping(step, l) ==
    \/ step \in {"lv_transports", "em_routers", "em_transports"}
    \/ step \in ParticipantLocked \ {"rt_join"} /\ l.new_user

\* A new transport is in no list of transports to drop.
Unlisted(r) ==
    pc[r] = "rt_register" => \A q \in Requests : local[r].transport \notin call[q].ids

\* A list names transports of the caller, ...
OwnIds(r) ==
    pc[r] \in Listing =>
       \A row \in TransportRows(db) : row.t \in call[r].ids => row.p = call[r].p

\* ... or of participants of the meeting that ends.
EndIds(r) ==
    pc[r] = "em_delete" =>
       \A row \in TransportRows(db) :
          row.t \in call[r].ids =>
             \E y \in db.participant_meeting : y.p = row.p /\ y.m = call[r].m

\* What is dropped is not recorded.
Gone(r) ==
    Dropping(pc[r], local[r]) => \A row \in TransportRows(db) : row.t \notin call[r].ids

ListInv(r) == Unlisted(r) /\ OwnIds(r) /\ EndIds(r) /\ Gone(r)

TransportInv == Known /\ Keyed(db) /\ \A r \in Requests : ListInv(r)

-----------------------------------------------------------------------------
(* What the transactions do to meetings, routers and transports *)

SameRouters(d, e) ==
    /\ e.meeting_status = d.meeting_status
    /\ e.router_worker = d.router_worker
    /\ e.router_meeting = d.router_meeting

\* No transport is registered, and who keeps one stays where he is.
Fewer(d, e) ==
    /\ TransportRows(e) \subseteq TransportRows(d)
    /\ \A row \in TransportRows(e) : \A y \in d.participant_meeting :
          y.p = row.p => y \in e.participant_meeting

\* The keys hold, and no meeting that somebody stays in gets a router.
RouterStep(d, e) ==
    /\ Keyed(e)
    /\ \A x \in d.participant_meeting :
          x \in e.participant_meeting => RoutersIn(e, x.m) \subseteq RoutersIn(d, x.m)

\* A quiet transaction registers no transport.
LEMMA QuietFewer ==
  ASSUME QuietStep
  PROVE  Fewer(db, db')
  BY DEF QuietStep, Quiet, Fewer, TransportRows

\* A transaction that leaves meetings and routers alone keeps their keys.
LEMMA SameRoutersStep ==
  ASSUME NEW d, NEW e, Keyed(d), SameRouters(d, e),
         \A x \in e.participant_meeting : x \in d.participant_meeting \/ x.m \in d.meeting_status
  PROVE  RouterStep(d, e)
  BY DEF RouterStep, Keyed, SameRouters, RoutersIn

\* The deletion of participants leaves meetings and routers alone.
LEMMA DeleteRouters ==
  ASSUME NEW d \in Databases, NEW P
  PROVE  SameRouters(d, DeleteParticipants(d, P))
  BY DEF DeleteParticipants, Databases, SameRouters

\* leaveMeeting's transaction.
LEMMA LeaveRouters ==
  ASSUME db \in Databases, Consistent(db), Keyed(db), NEW p \in Participants, NEW m \in Meetings,
         NEW i \in Instances, db' = LeaveTx(db, p, m, i).db
  PROVE  RouterStep(db, db') /\ SameRouters(db, db')
<1> DEFINE P == {row.p : row \in {x \in db.participant_meeting : x.p = p /\ x.m = m /\ x.i = i}}
<1>1. db' = DeleteParticipants(db, P)
  BY DEF LeaveTx, Finish, Start, NoError
<1> HIDE DEF P
<1>2. SameRouters(db, db') /\ Departed(db, db', P, {})
  BY <1>1, DeleteRouters, DeleteEffect
<1>3. db'.participant_meeting \subseteq db.participant_meeting
  BY <1>2 DEF Departed
<1> QED
  BY <1>2, <1>3, SameRoutersStep

\* An INSERT that leaves meetings and routers alone.
LEMMA InsertRoutersSame ==
  ASSUME NEW tx \in Transactions, NEW rollback, NEW duplicate, NEW parents, NEW after,
         SameRouters(tx.db, after)
  PROVE  SameRouters(tx.db, Insert(tx, rollback, duplicate, parents, after).db)
  BY DEF Insert, Transactions, SameRouters

\* The transaction of the recreate helpers.
LEMMA JoinRouters ==
  ASSUME db \in Databases, Consistent(db), Keyed(db), NEW p \in Participants, NEW m \in Meetings,
         NEW i \in Instances, NEW kind, NEW router \in Routers,
         db' = JoinTx(db, p, m, i, kind, router).db
  PROVE  RouterStep(db, db') /\ SameRouters(db, db')
<1>1. PICK d : d = DeleteOtherInstances(db, p, m, i)
  OBVIOUS
<1>2. d \in Databases /\ SameRouters(db, d)
  BY <1>1, DeleteRouters, DeleteParticipantsType DEF DeleteOtherInstances
<1>3. PICK tx : tx = Start(d)
  OBVIOUS
<1>4. tx \in Transactions /\ tx.db = d
  BY <1>2, <1>3, StartType DEF Start
<1>5. PICK ty : ty = InsertParticipantMeeting(tx, p, m, i)
  OBVIOUS
<1>6. ty \in Transactions /\ SameRouters(d, ty.db)
  <2> DEFINE after == [tx.db EXCEPT !.participant_meeting = @ \cup {[p |-> p, m |-> m, i |-> i]}]
  <2>1. SameRouters(tx.db, after)
    BY <1>2, <1>4 DEF Databases, SameRouters
  <2> HIDE DEF after
  <2>2. SameRouters(tx.db, Insert(tx, FALSE, HasParticipant(tx.db, p), m \in tx.db.meeting_status, after).db)
    BY <1>4, <2>1, InsertRoutersSame
  <2>3. ty \in Transactions
    BY <1>4, <1>5, InsertParticipantMeetingType
  <2> QED
    BY <1>4, <1>5, <2>2, <2>3 DEF InsertParticipantMeeting, after
<1>7. PICK tz : tz = IF kind = "producer" THEN InsertProducerRouter(ty, p, router)
                                          ELSE InsertConsumerRouter(ty, p, router)
  OBVIOUS
<1>8. SameRouters(d, tz.db)
  <2> DEFINE one == [ty.db EXCEPT !.participant_producer_router = @ \cup {[p |-> p, router |-> router]}]
             two == [ty.db EXCEPT !.participant_consumer_router = @ \cup {[p |-> p, router |-> router]}]
  <2>1. SameRouters(ty.db, one) /\ SameRouters(ty.db, two)
    BY <1>6 DEF Transactions, Databases, SameRouters
  <2> HIDE DEF one, two
  <2>2. /\ SameRouters(ty.db, InsertProducerRouter(ty, p, router).db)
        /\ SameRouters(ty.db, InsertConsumerRouter(ty, p, router).db)
    BY <1>6, <2>1, InsertRoutersSame DEF InsertProducerRouter, InsertConsumerRouter, one, two
  <2> QED
    BY <1>6, <1>7, <2>2 DEF SameRouters
<1>9. db' = db \/ db' = tz.db
  BY <1>1, <1>3, <1>5, <1>7 DEF JoinTx, Finish
<1>10. SameRouters(db, db')
  BY <1>2, <1>8, <1>9 DEF SameRouters
<1>11. \A x \in db'.participant_meeting : x \in db.participant_meeting \/ x.m \in db.meeting_status
  <2>1. PICK e, new : e = db' /\ new = [p |-> p, m |-> m, i |-> i]
    OBVIOUS
  <2>2. SameRows(db, e) \/ (m \in db.meeting_status /\ Departed(db, e, {p}, {new}))
    BY <2>1, JoinEffect
  <2>3. new.m = m
    BY <2>1
  <2> QED
    BY <2>1, <2>2, <2>3 DEF SameRows, Departed
<1> QED
  BY <1>10, <1>11, SameRoutersStep

\* A join without a duplicate key leaves the participant without a transport.
LEMMA NewUserHasNone ==
  ASSUME db \in Databases, Consistent(db), NEW p \in Participants, NEW m \in Meetings,
         NEW i \in Instances, NEW kind, NEW router \in Routers, NEW out,
         out = JoinTx(db, p, m, i, kind, router), out.error = NoError, out.duplicate = FALSE
  PROVE  \A row \in TransportRows(out.db) : row.p # p
<1>1. PICK d : d = DeleteOtherInstances(db, p, m, i)
  OBVIOUS
<1>2. d \in Databases /\ Consistent(d)
  <2>1. PICK P : d = DeleteParticipants(db, P)
    BY <1>1 DEF DeleteOtherInstances
  <2>2. d \in Databases /\ Departed(db, d, P, {})
    BY <2>1, DeleteParticipantsType, DeleteEffect
  <2> QED
    BY <2>2, DepartedConsistent
<1>3. PICK tx : tx = Start(d)
  OBVIOUS
<1>4. tx \in Transactions /\ tx.db = d /\ tx.error = NoError
  BY <1>2, <1>3, StartType DEF Start
<1>5. PICK ty : ty = InsertParticipantMeeting(tx, p, m, i)
  OBVIOUS
<1>6. PICK tz : tz = IF kind = "producer" THEN InsertProducerRouter(ty, p, router)
                                          ELSE InsertConsumerRouter(ty, p, router)
  OBVIOUS
<1>7. out.db = tz.db /\ tz.error = NoError /\ tz.duplicate = FALSE
  BY <1>1, <1>3, <1>5, <1>6 DEF JoinTx, Finish
<1>8. ty \in Transactions
  BY <1>4, <1>5, InsertParticipantMeetingType
<1>9. /\ ty.error = NoError /\ ty.duplicate = FALSE
      /\ TransportRows(tz.db) = TransportRows(ty.db)
  <2> DEFINE one == [ty.db EXCEPT !.participant_producer_router = @ \cup {[p |-> p, router |-> router]}]
             two == [ty.db EXCEPT !.participant_consumer_router = @ \cup {[p |-> p, router |-> router]}]
  <2>1. TransportRows(one) = TransportRows(ty.db) /\ TransportRows(two) = TransportRows(ty.db)
    BY <1>8 DEF Transactions, Databases, TransportRows
  <2> HIDE DEF one, two
  <2>3. PICK t1, t2 : t1 = InsertProducerRouter(ty, p, router) /\ t2 = InsertConsumerRouter(ty, p, router)
    OBVIOUS
  <2>4. /\ t1 = Insert(ty, FALSE, HasRow(ty.db.participant_producer_router, p),
                       HasParticipant(ty.db, p) /\ router \in ty.db.router_worker, one)
        /\ t2 = Insert(ty, FALSE, HasRow(ty.db.participant_consumer_router, p),
                       HasParticipant(ty.db, p) /\ router \in ty.db.router_worker, two)
    BY <2>3 DEF InsertProducerRouter, InsertConsumerRouter, one, two
  <2>5. /\ t1.db = ty.db \/ t1.db = one
        /\ t1.error = NoError => ty.error = NoError
        /\ t1.duplicate = FALSE => ty.duplicate = FALSE
    BY <1>8, <2>4 DEF Insert, Transactions, NoError, DuplicateKey, ForeignKey
  <2>6. /\ t2.db = ty.db \/ t2.db = two
        /\ t2.error = NoError => ty.error = NoError
        /\ t2.duplicate = FALSE => ty.duplicate = FALSE
    BY <1>8, <2>4 DEF Insert, Transactions, NoError, DuplicateKey, ForeignKey
  <2> QED
    BY <1>6, <1>7, <2>1, <2>3, <2>5, <2>6
<1>10. ~HasParticipant(d, p) /\ TransportRows(ty.db) = TransportRows(d)
  <2> DEFINE after == [tx.db EXCEPT !.participant_meeting = @ \cup {[p |-> p, m |-> m, i |-> i]}]
  <2>1. TransportRows(after) = TransportRows(d)
    BY <1>2, <1>4 DEF Databases, TransportRows
  <2> HIDE DEF after
  <2>2. ty = Insert(tx, FALSE, HasParticipant(tx.db, p), m \in tx.db.meeting_status, after)
    BY <1>5 DEF InsertParticipantMeeting, after
  <2> QED
    BY <1>4, <1>9, <2>1, <2>2 DEF Insert, Transactions
<1> QED
  BY <1>2, <1>7, <1>9, <1>10 DEF Consistent

\* createMeeting's, replaceMeetings' and endMeeting's transactions: the routers are
\* those of a meeting nobody is in.
LEMMA MeetingRouters ==
  ASSUME db \in Databases, Consistent(db), Keyed(db), NEW m \in Meetings, NEW R,
         \/ db' = CreateMeetingTx(db, m, R).db
         \/ db' = ReplaceMeetingTx(db, m, R).db
         \/ db' = EndMeetingTx(db, m).db
  PROVE  RouterStep(db, db')
<1>1. ASSUME NEW d \in Databases, Keyed(d), \A x \in d.participant_meeting : x \in db.participant_meeting,
             \A q : RoutersIn(d, q) \subseteq RoutersIn(db, q),
             db' = Finish(db, InsertRouters(InsertMeetingStatus(Start(d), m), m, R)).db
      PROVE  RouterStep(db, db')
  <2>1. PICK e : e = db'
    OBVIOUS
  <2>2. \/ e = db
        \/ /\ m \notin d.meeting_status
           /\ e.meeting_status = d.meeting_status \cup {m}
           /\ SameRows(d, e)
           /\ e.router_worker = d.router_worker \cup R
           /\ \A x \in e.router_meeting : x \in d.router_meeting \/ (x.m = m /\ x.router \in R)
    BY <1>1, <2>1, InsertMeetingEffect
  <2>3. CASE e = db
    BY <2>3, <2>1 DEF RouterStep
  <2>4. CASE e # db
    <3>1. e.participant_meeting = d.participant_meeting
      BY <2>2, <2>4 DEF SameRows
    <3>2. Keyed(e)
      BY <1>1, <2>2, <2>4, <3>1 DEF Keyed
    <3>3. \A x \in e.participant_meeting : x.m # m
      BY <1>1, <2>2, <2>4, <3>1 DEF Keyed
    <3>4. \A q : q # m => RoutersIn(e, q) \subseteq RoutersIn(d, q)
      BY <2>2, <2>4 DEF RoutersIn
    <3> QED
      BY <1>1, <2>1, <3>2, <3>3, <3>4 DEF RouterStep
  <2> QED
    BY <2>3, <2>4
<1>2. PICK f : f = DeleteMeetingStatus(db, m)
  OBVIOUS
<1>3. /\ f \in Databases /\ Departed(db, f, PresentIn(db, m), {})
      /\ f.meeting_status = db.meeting_status \ {m}
      /\ f.router_worker = db.router_worker
      /\ f.router_meeting = {row \in db.router_meeting : row.m # m}
  BY <1>2, DeleteMeetingEffect, DeleteMeetingStatusType
<1>4. \A x \in f.participant_meeting : x \in db.participant_meeting /\ x.m # m
  BY <1>3 DEF Departed, PresentIn
<1>5. Keyed(f)
  BY <1>3, <1>4 DEF Keyed
<1>6. \A q : RoutersIn(f, q) \subseteq RoutersIn(db, q)
  BY <1>3 DEF RoutersIn
<1>7. CASE db' = CreateMeetingTx(db, m, R).db
  BY <1>1, <1>7 DEF CreateMeetingTx
<1>8. CASE db' = ReplaceMeetingTx(db, m, R).db
  <2>1. db' = Finish(db, InsertRouters(InsertMeetingStatus(Start(f), m), m, R)).db
    BY <1>2, <1>8 DEF ReplaceMeetingTx
  <2> QED
    BY <1>1, <1>3, <1>4, <1>5, <1>6, <2>1
<1>9. CASE db' = EndMeetingTx(db, m).db
  <2>1. db' = f
    BY <1>2, <1>9 DEF EndMeetingTx, Finish, Start, NoError
  <2> QED
    BY <1>5, <1>6, <2>1 DEF RouterStep
<1> QED
  BY <1>7, <1>8, <1>9

\* The other transactions.
LEMMA OtherRouters ==
  ASSUME db \in Databases, Keyed(db), NEW p, NEW kind, NEW t, NEW row, NEW rows, NEW ids,
         \/ db' = db
         \/ db' = RegisterTransportTx(db, p, kind, t).db
         \/ db' = RegisterProducerTx(db, row).db
         \/ db' = RegisterConsumersTx(db, rows).db
         \/ db' = DeleteProducersTx(db, p, ids).db
         \/ db' = DeleteConsumersTx(db, ids).db
  PROVE  RouterStep(db, db') /\ SameRouters(db, db')
<1>1. SameRouters(db, db') /\ db'.participant_meeting = db.participant_meeting
  <2>1. CASE db' = db
    BY <2>1 DEF SameRouters
  <2>2. CASE db' = RegisterTransportTx(db, p, kind, t).db
    <3> DEFINE one == [db EXCEPT !.participant_producer_transport = @ \cup {[p |-> p, t |-> t]}]
               two == [db EXCEPT !.participant_consumer_transport = @ \cup {[p |-> p, t |-> t]}]
    <3>1. db' \in {db, one, two}
      BY <2>2 DEF RegisterTransportTx, InsertProducerTransport, InsertConsumerTransport, Insert,
                  Start, Finish, NoError, ForeignKey, DuplicateKey
    <3>2. /\ SameRouters(db, one) /\ one.participant_meeting = db.participant_meeting
          /\ SameRouters(db, two) /\ two.participant_meeting = db.participant_meeting
      BY DEF Databases, SameRouters
    <3> HIDE DEF one, two
    <3> QED
      BY <3>1, <3>2 DEF SameRouters
  <2>3. CASE db' = RegisterProducerTx(db, row).db
    <3> DEFINE new == [db EXCEPT !.participant_producers = @ \cup {row}]
    <3>1. db' \in {db, new}
      BY <2>3 DEF RegisterProducerTx, InsertProducer, Insert, Start, Finish, NoError, ForeignKey
    <3>2. SameRouters(db, new) /\ new.participant_meeting = db.participant_meeting
      BY DEF Databases, SameRouters
    <3> HIDE DEF new
    <3> QED
      BY <3>1, <3>2 DEF SameRouters
  <2>4. CASE db' = RegisterConsumersTx(db, rows).db
    <3> DEFINE new == [db EXCEPT !.participant_consumers = @ \cup rows]
    <3>1. db' \in {db, new}
      BY <2>4 DEF RegisterConsumersTx, InsertConsumers, Insert, Start, Finish, NoError, ForeignKey,
                  DuplicateKey
    <3>2. SameRouters(db, new) /\ new.participant_meeting = db.participant_meeting
      BY DEF Databases, SameRouters
    <3> HIDE DEF new
    <3> QED
      BY <3>1, <3>2 DEF SameRouters
  <2>5. CASE db' = DeleteProducersTx(db, p, ids).db \/ db' = DeleteConsumersTx(db, ids).db
    BY <2>5 DEF DeleteProducersTx, DeleteConsumersTx, Finish, Start, NoError, Databases, SameRouters
  <2> QED
    BY <2>1, <2>2, <2>3, <2>4, <2>5
<1> QED
  BY <1>1, SameRoutersStep

-----------------------------------------------------------------------------
(* Steps of the handlers *)

\* No transport is recorded but one that is in memory and that nobody is to drop, and who
\* keeps one stays where he is.
Recorded ==
    \A row \in TransportRows(db') :
       \/ /\ row \in TransportRows(db)
          /\ \A y \in db.participant_meeting : y.p = row.p => y \in db'.participant_meeting
       \/ /\ InMemory(row.t)'
          /\ \A q \in Requests : row.t \notin call[q].ids

\* A transport is dropped only when it is not recorded.
Kept ==
    \A x \in transport_map : x \in transport_map' \/ \A row \in TransportRows(db') : row.t # x.id

\* The transport a recreate helper is about to publish.
Published(q) ==
    pc[q] = "rt_publish" =>
       \/ pc'[q] = "rt_publish" /\ local'[q].transport = local[q].transport
       \/ \E x \in transport_map' : x.id = local[q].transport

\* Request q ends, or goes on with the list it was called with.
Steady(q) ==
    \/ pc'[q] = "idle" /\ call'[q] = NoCall
    \/ /\ call'[q] = call[q]
       /\ pc'[q] = "rt_register" =>
             \/ pc[q] = "rt_register" /\ local'[q].transport = local[q].transport
             \/ \A s \in Requests : local'[q].transport \notin call[s].ids
       /\ pc'[q] \in Listing => pc[q] \in Listing
       /\ pc'[q] = "em_delete" => pc[q] = "em_delete"
       /\ Dropping(pc'[q], local'[q]) =>
             \/ Dropping(pc[q], local[q])
             \/ \A row \in TransportRows(db') : row.t \notin call[q].ids

\* What a step of a handler does to the routers, the transports and the requests.
Steadily ==
    /\ Recorded /\ Kept /\ RouterStep(db, db')
    /\ Claimed' \cap db.router_worker \subseteq Claimed
    /\ \A q \in Requests : Published(q) /\ Steady(q)

\* Such a step keeps the invariant.
LEMMA SteadyInvariant ==
  ASSUME TransportInv, Steadily
  PROVE  TransportInv'
<1>1. Known'
  <2> SUFFICES ASSUME NEW row \in TransportRows(db')
               PROVE  \/ InMemory(row.t)'
                      \/ \E x \in db'.participant_meeting : x.p = row.p /\ Adrift(x.m)'
    BY DEF Known, TransportRows
  <2>1. CASE InMemory(row.t)'
    BY <2>1
  <2>2. CASE /\ row \in TransportRows(db)
             /\ \A y \in db.participant_meeting : y.p = row.p => y \in db'.participant_meeting
    <3>1. CASE \E x \in transport_map : x.id = row.t
      BY <3>1 DEF Steadily, Kept, InMemory
    <3>2. CASE \E r \in Requests : pc[r] = "rt_publish" /\ local[r].transport = row.t
      BY <3>2 DEF Steadily, Published, InMemory
    <3>3. ASSUME NEW x \in db.participant_meeting, x.p = row.p, Adrift(x.m)
          PROVE  x \in db'.participant_meeting /\ Adrift(x.m)'
      <4>1. x \in db'.participant_meeting
        BY <2>2, <3>3
      <4>2. RoutersIn(db', x.m) \subseteq RoutersIn(db, x.m)
        BY <4>1 DEF Steadily, RouterStep
      <4>3. RoutersIn(db, x.m) \subseteq db.router_worker
        BY DEF TransportInv, Keyed, RoutersIn
      <4>4. RoutersIn(db', x.m) \cap Claimed' = {}
        BY <3>3, <4>2, <4>3 DEF Steadily, Adrift
      <4> QED
        BY <4>1, <4>4 DEF Adrift
    <3> QED
      BY <2>2, <3>1, <3>2, <3>3 DEF TransportInv, Known, InMemory
  <2> QED
    BY <2>1, <2>2 DEF Steadily, Recorded
<1>2. Keyed(db)'
  BY DEF Steadily, RouterStep, Keyed
<1>3. ASSUME NEW r \in Requests
      PROVE  ListInv(r)'
  <2>1. ListInv(r) /\ Steady(r)
    BY DEF TransportInv, Steadily
  <2>2. \A q \in Requests : call'[q].ids = call[q].ids \/ call'[q].ids = {}
    BY DEF Steadily, Steady, NoCall
  <2>3. CASE pc'[r] = "idle"
    BY <2>3 DEF ListInv, Unlisted, OwnIds, EndIds, Gone, Dropping, Listing, RecreateSteps, LeaveSteps,
                ParticipantLocked
  <2>4. CASE pc'[r] # "idle"
    <3>0. call'[r] = call[r]
      BY <2>1, <2>4 DEF Steady
    <3>1. Unlisted(r)'
      <4> SUFFICES ASSUME pc'[r] = "rt_register", NEW q \in Requests
                   PROVE  local'[r].transport \notin call'[q].ids
        BY DEF Unlisted
      <4>1. local'[r].transport \notin call[q].ids
        BY <2>1, <2>4 DEF Steady, ListInv, Unlisted
      <4> QED
        BY <2>2, <4>1
    <3>2. \A row \in TransportRows(db') : row.t \in call[r].ids =>
             /\ row \in TransportRows(db)
             /\ \A y \in db.participant_meeting : y.p = row.p => y \in db'.participant_meeting
      BY DEF Steadily, Recorded
    <3>3. OwnIds(r)'
      BY <2>1, <2>4, <3>0, <3>2 DEF Steady, ListInv, OwnIds, TransportRows
    <3>4. EndIds(r)'
      BY <2>1, <2>4, <3>0, <3>2 DEF Steady, ListInv, EndIds, TransportRows
    <3>5. Gone(r)'
      BY <2>1, <2>4, <3>0, <3>2 DEF Steady, ListInv, Gone, TransportRows
    <3> QED
      BY <3>1, <3>3, <3>4, <3>5 DEF ListInv
  <2> QED
    BY <2>3, <2>4
<1> QED
  BY <1>1, <1>2, <1>3 DEF TransportInv

\* Continue, with or without a mutex acquired.
Proceeds(r, step, vals) ==
    /\ pc' = [pc EXCEPT ![r] = step]
    /\ local' = [local EXCEPT ![r] = vals]
    /\ call' = call

\* A request goes on, ...
LEMMA GoesOn ==
  ASSUME ControlOK, TransportInv, Recorded, Kept, RouterStep(db, db'),
         routers_map' \subseteq routers_map,
         NEW r \in Requests, NEW step, NEW vals, Proceeds(r, step, vals),
         vals.routers \cap db.router_worker \subseteq Claimed,
         step # "em_delete",
         step = "rt_register" => \A s \in Requests : vals.transport \notin call[s].ids,
         step \in Listing => pc[r] \in Listing,
         Dropping(step, vals) => \/ Dropping(pc[r], local[r])
                                 \/ \A row \in TransportRows(db') : row.t \notin call[r].ids,
         pc[r] = "rt_publish" => \E x \in transport_map' : x.id = local[r].transport
  PROVE  TransportInv'
<1>1. /\ call' = call
      /\ pc'[r] = step /\ local'[r] = vals
      /\ \A q \in Requests \ {r} : pc'[q] = pc[q] /\ local'[q] = local[q]
  BY DEF Proceeds, ControlOK
<1>2. Claimed' \cap db.router_worker \subseteq Claimed
  <2>1. \A q \in Requests : local'[q].routers \cap db.router_worker \subseteq Claimed
    BY <1>1 DEF Claimed
  <2> QED
    BY <2>1 DEF Claimed
<1>3. \A q \in Requests : Published(q)
  BY <1>1 DEF Published
<1>4. ASSUME NEW q \in Requests
      PROVE  Steady(q)
  <2>1. CASE q = r
    BY <1>1, <2>1 DEF Steady
  <2>2. CASE q # r
    <3>1. pc'[q] = pc[q] /\ local'[q] = local[q]
      BY <1>1, <2>2
    <3>2. Dropping(pc'[q], local'[q]) => Dropping(pc[q], local[q])
      BY <3>1
    <3> QED
      BY <1>1, <3>1, <3>2 DEF Steady
  <2> QED
    BY <2>1, <2>2
<1>5. Steadily
  BY <1>2, <1>3, <1>4 DEF Steadily
<1> QED
  BY <1>5, SteadyInvariant

\* ... or ends.
LEMMA Ends ==
  ASSUME ControlOK, TransportInv, Recorded, Kept, RouterStep(db, db'),
         routers_map' \subseteq Claimed,
         NEW r \in Requests, Done(r), pc[r] # "rt_publish"
  PROVE  TransportInv'
<1>1. /\ pc'[r] = "idle" /\ local'[r] = NoLocal /\ call'[r] = NoCall
      /\ \A q \in Requests \ {r} : pc'[q] = pc[q] /\ local'[q] = local[q] /\ call'[q] = call[q]
  BY DEF Done, ControlOK
<1>2. Claimed' \cap db.router_worker \subseteq Claimed
  <2>1. \A q \in Requests : local'[q].routers \subseteq Claimed
    BY <1>1 DEF Claimed, NoLocal
  <2> QED
    BY <2>1 DEF Claimed
<1>3. \A q \in Requests : Published(q)
  BY <1>1 DEF Published
<1>4. ASSUME NEW q \in Requests
      PROVE  Steady(q)
  <2>1. CASE q = r
    BY <1>1, <2>1 DEF Steady
  <2>2. CASE q # r
    <3>1. pc'[q] = pc[q] /\ local'[q] = local[q] /\ call'[q] = call[q]
      BY <1>1, <2>2
    <3>2. Dropping(pc'[q], local'[q]) => Dropping(pc[q], local[q])
      BY <3>1
    <3> QED
      BY <3>1, <3>2 DEF Steady
  <2> QED
    BY <2>1, <2>2
<1>5. Steadily
  BY <1>2, <1>3, <1>4 DEF Steadily
<1> QED
  BY <1>5, SteadyInvariant

\* A transaction that registers no transport, with the transports in memory kept.
LEMMA QuietRecorded ==
  ASSUME Fewer(db, db'), transport_map' = transport_map
  PROVE  Recorded /\ Kept
  BY DEF Fewer, Recorded, Kept

\* No transaction.
LEMMA SameRecorded ==
  ASSUME DataOK, TransportInv, db' = db
  PROVE  Recorded /\ RouterStep(db, db')
<1>1. Recorded
  BY DEF Recorded
<1>2. RouterStep(db, db')
  BY DEF RouterStep, TransportInv
<1> QED
  BY <1>1, <1>2

\* The request goes from one step to another, with the routers and new_user it has.
Moved(r, from, to) ==
    /\ pc[r] = from
    /\ Proceeds(r, to, local'[r])
    /\ local'[r].routers = local[r].routers /\ local'[r].new_user = local[r].new_user

\* A pair of steps between which no list is made and nothing is deleted.
Plain(from, to) ==
    /\ from # "rt_publish" /\ to \notin {"em_delete", "rt_register"}
    /\ to \in Listing => from \in Listing
    /\ \A l : Dropping(to, l) => Dropping(from, l)

\* The steps that change neither transports nor routers.
LEMMA PlainStep ==
  ASSUME DataOK, ControlOK, TransportInv, Fewer(db, db'), RouterStep(db, db'),
         transport_map' = transport_map, routers_map' \subseteq routers_map, NEW r \in Requests,
         \/ Done(r) /\ pc[r] # "rt_publish"
         \/ \E from, to : Moved(r, from, to) /\ Plain(from, to)
  PROVE  TransportInv'
<1>1. Recorded /\ Kept
  BY QuietRecorded
<1>2. CASE Done(r) /\ pc[r] # "rt_publish"
  BY <1>1, <1>2, Ends DEF Claimed
<1>3. ASSUME NEW from, NEW to, Moved(r, from, to), Plain(from, to)
      PROVE  TransportInv'
  <2>1. local'[r].routers \cap db.router_worker \subseteq Claimed
    BY <1>3 DEF Claimed, Moved
  <2>2. Dropping(to, local'[r]) => Dropping(from, local[r])
    BY <1>3 DEF Moved, Plain, Dropping
  <2>3. pc[r] = from /\ Proceeds(r, to, local'[r])
    BY <1>3 DEF Moved
  <2>4. PICK vals : vals = local'[r]
    OBVIOUS
  <2>5. /\ from # "rt_publish" /\ to # "em_delete" /\ to # "rt_register"
        /\ to \in Listing => from \in Listing
    BY <1>3 DEF Plain
  <2> QED
    BY <1>1, <2>1, <2>2, <2>3, <2>4, <2>5, GoesOn
<1> QED
  BY <1>2, <1>3

\* Those without a transaction.
LEMMA MapStep ==
  ASSUME DataOK, ControlOK, TransportInv, db' = db, 
         transport_map' = transport_map, routers_map' = routers_map, NEW r \in Requests,
         \/ Done(r) /\ pc[r] # "rt_publish"
         \/ \E from, to : Moved(r, from, to) /\ Plain(from, to)
  PROVE  TransportInv'
<1>1. Fewer(db, db') /\ RouterStep(db, db')
  BY SameRecorded DEF Fewer
<1> QED
  BY <1>1, PlainStep

\* leave_meeting, once it has deleted the presence and dropped the transports.
LEMMA LeaveRest ==
  ASSUME DataOK, ControlOK, TransportInv, NEW r \in Requests, LeaveMeeting(r),
         ~LeaveDelete(r), ~LeaveTransports(r)
  PROVE  TransportInv'
<1> USE DEF Listing, LeaveSteps, RecreateSteps, ParticipantLocked
<1>0. local \in [Requests -> Locals] /\ local[r] \in Locals
  BY DEF ControlOK
<1>1. CASE LeaveReadOwn(r)
  <2>1. db' = db /\ transport_map' = transport_map /\ routers_map' = routers_map
    BY <1>1 DEF LeaveReadOwn, memory
  <2>2. Moved(r, "lv_own_read", "lv_own_close")
    BY <1>0, <1>1 DEF LeaveReadOwn, Moved, Proceeds, Continue, Locals
  <2>3. Plain("lv_own_read", "lv_own_close")
    BY DEF Plain, Dropping
  <2> QED
    BY <2>1, <2>2, <2>3, MapStep
<1>2. CASE LeaveCloseOwn(r)
  <2>1. db' = db /\ transport_map' = transport_map /\ routers_map' = routers_map
    BY <1>2 DEF LeaveCloseOwn, memory
  <2>2. Moved(r, "lv_own_close", "lv_producers_read")
    BY <1>0, <1>2 DEF LeaveCloseOwn, Moved, Proceeds, Continue, Locals
  <2>3. Plain("lv_own_close", "lv_producers_read")
    BY DEF Plain, Dropping
  <2> QED
    BY <2>1, <2>2, <2>3, MapStep
<1>3. CASE LeaveReadProducers(r)
  <2>1. db' = db /\ transport_map' = transport_map /\ routers_map' = routers_map
    BY <1>3 DEF LeaveReadProducers, memory
  <2>2. Moved(r, "lv_producers_read", "lv_producers_close")
    BY <1>0, <1>3 DEF LeaveReadProducers, Moved, Proceeds, Continue, Locals
  <2>3. Plain("lv_producers_read", "lv_producers_close")
    BY DEF Plain, Dropping
  <2> QED
    BY <2>1, <2>2, <2>3, MapStep
<1>4. CASE LeaveCloseProducers(r)
  <2>1. db' = db /\ transport_map' = transport_map /\ routers_map' = routers_map
    BY <1>4 DEF LeaveCloseProducers, memory
  <2>2. Moved(r, "lv_producers_close", "lv_dependents_read")
    BY <1>0, <1>4 DEF LeaveCloseProducers, Moved, Proceeds, Continue, Locals
  <2>3. Plain("lv_producers_close", "lv_dependents_read")
    BY DEF Plain, Dropping
  <2> QED
    BY <2>1, <2>2, <2>3, MapStep
<1>5. CASE LeaveReadDependents(r)
  <2>1. db' = db /\ transport_map' = transport_map /\ routers_map' = routers_map
    BY <1>5 DEF LeaveReadDependents, memory
  <2>2. Moved(r, "lv_dependents_read", "lv_dependents_close") \/ (Done(r) /\ pc[r] # "rt_publish")
    BY <1>0, <1>5 DEF LeaveReadDependents, Moved, Proceeds, Continue, Locals
  <2>3. Plain("lv_dependents_read", "lv_dependents_close")
    BY DEF Plain, Dropping
  <2> QED
    BY <2>1, <2>2, <2>3, MapStep
<1>6. CASE LeaveCloseDependents(r)
  <2>1. db' = db /\ transport_map' = transport_map /\ routers_map' = routers_map
    BY <1>6 DEF LeaveCloseDependents, memory
  <2>2. Done(r) /\ pc[r] # "rt_publish"
    BY <1>0, <1>6 DEF LeaveCloseDependents, Moved, Proceeds, Continue, Locals
  <2> QED
    BY <2>1, <2>2, MapStep
<1> QED
  BY <1>1, <1>2, <1>3, <1>4, <1>5, <1>6 DEF LeaveMeeting

\* The recreate helpers, but where they join, create, register or publish.
LEMMA RecreateRest ==
  ASSUME DataOK, ControlOK, TransportInv, NEW r \in Requests, RecreateTransport(r),
         ~RecreateJoin(r), ~RecreateCreate(r), ~RecreateRegister(r), ~RecreatePublish(r)
  PROVE  TransportInv'
<1> USE DEF Listing, LeaveSteps, RecreateSteps, ParticipantLocked
<1>0. local \in [Requests -> Locals] /\ local[r] \in Locals
  BY DEF ControlOK
<1>1. CASE RecreateLock(r)
  <2>1. db' = db /\ transport_map' = transport_map /\ routers_map' = routers_map
    BY <1>1 DEF RecreateLock, Acquire, memory
  <2>2. Moved(r, "rt_lock", "rt_join")
    BY <1>0, <1>1 DEF RecreateLock, Acquire, Moved, Proceeds, Continue, Locals
  <2>3. Plain("rt_lock", "rt_join")
    BY DEF Plain, Dropping
  <2> QED
    BY <2>1, <2>2, <2>3, MapStep
<1>2. CASE RecreateReadOwn(r)
  <2>1. db' = db /\ transport_map' = transport_map /\ routers_map' = routers_map
    BY <1>2 DEF RecreateReadOwn, memory
  <2>2. Moved(r, "rt_own_read", "rt_own_close")
    BY <1>0, <1>2 DEF RecreateReadOwn, Moved, Proceeds, Continue, Locals
  <2>3. Plain("rt_own_read", "rt_own_close")
    BY DEF Plain, Dropping
  <2> QED
    BY <2>1, <2>2, <2>3, MapStep
<1>3. CASE RecreateCloseOwn(r)
  <2>1. db' = db /\ transport_map' = transport_map /\ routers_map' = routers_map
    BY <1>3 DEF RecreateCloseOwn, memory
  <2>2. Moved(r, "rt_own_close", "rt_producers_read")
    BY <1>0, <1>3 DEF RecreateCloseOwn, Moved, Proceeds, Continue, Locals
  <2>3. Plain("rt_own_close", "rt_producers_read")
    BY DEF Plain, Dropping
  <2> QED
    BY <2>1, <2>2, <2>3, MapStep
<1>4. CASE RecreateReadProducers(r)
  <2>1. db' = db /\ transport_map' = transport_map /\ routers_map' = routers_map
    BY <1>4 DEF RecreateReadProducers, memory
  <2>2. Moved(r, "rt_producers_read", "rt_dependents_read")
    BY <1>0, <1>4 DEF RecreateReadProducers, Moved, Proceeds, Continue, Locals
  <2>3. Plain("rt_producers_read", "rt_dependents_read")
    BY DEF Plain, Dropping
  <2> QED
    BY <2>1, <2>2, <2>3, MapStep
<1>5. CASE RecreateReadDependents(r)
  <2>1. db' = db /\ transport_map' = transport_map /\ routers_map' = routers_map
    BY <1>5 DEF RecreateReadDependents, memory
  <2>2. Moved(r, "rt_dependents_read", "rt_producers_close")
    BY <1>0, <1>5 DEF RecreateReadDependents, Moved, Proceeds, Continue, Locals
  <2>3. Plain("rt_dependents_read", "rt_producers_close")
    BY DEF Plain, Dropping
  <2> QED
    BY <2>1, <2>2, <2>3, MapStep
<1>6. CASE RecreateCloseProducers(r)
  <2>1. db' = db /\ transport_map' = transport_map /\ routers_map' = routers_map
    BY <1>6 DEF RecreateCloseProducers, memory
  <2>2. Moved(r, "rt_producers_close", "rt_dependents_close")
    BY <1>0, <1>6 DEF RecreateCloseProducers, Moved, Proceeds, Continue, Locals
  <2>3. Plain("rt_producers_close", "rt_dependents_close")
    BY DEF Plain, Dropping
  <2> QED
    BY <2>1, <2>2, <2>3, MapStep
<1>7. CASE RecreateCloseDependents(r)
  <2>1. db' = db /\ transport_map' = transport_map /\ routers_map' = routers_map
    BY <1>7 DEF RecreateCloseDependents, memory
  <2>2. Moved(r, "rt_dependents_close", "rt_create") \/ (Done(r) /\ pc[r] # "rt_publish")
    BY <1>0, <1>7 DEF RecreateCloseDependents, Moved, Proceeds, Continue, Locals
  <2>3. Plain("rt_dependents_close", "rt_create")
    BY DEF Plain, Dropping
  <2> QED
    BY <2>1, <2>2, <2>3, MapStep
<1>8. CASE RecreateExisting(r)
  <2>1. db' = db /\ transport_map' = transport_map /\ routers_map' = routers_map
    BY <1>8 DEF RecreateExisting, memory
  <2>2. Moved(r, "rt_existing", "rt_reply") \/ (Done(r) /\ pc[r] # "rt_publish")
    BY <1>0, <1>8 DEF RecreateExisting, Moved, Proceeds, Continue, Locals
  <2>3. Plain("rt_existing", "rt_reply")
    BY DEF Plain, Dropping
  <2> QED
    BY <2>1, <2>2, <2>3, MapStep
<1>9. CASE RecreateReply(r)
  <2>1. db' = db /\ transport_map' = transport_map /\ routers_map' = routers_map
    BY <1>9 DEF RecreateReply, memory
  <2>2. Done(r) /\ pc[r] # "rt_publish"
    BY <1>0, <1>9 DEF RecreateReply, Moved, Proceeds, Continue, Locals
  <2> QED
    BY <2>1, <2>2, MapStep
<1> QED
  BY <1>1, <1>2, <1>3, <1>4, <1>5, <1>6, <1>7, <1>8, <1>9 DEF RecreateTransport

\* end_meeting, once it has dropped the routers and the transports.
LEMMA EndRest ==
  ASSUME DataOK, ControlOK, TransportInv, NEW r \in Requests, EndMeeting(r),
         ~EndDelete(r), ~EndRouters(r), ~EndTransports(r)
  PROVE  TransportInv'
<1> USE DEF Listing, LeaveSteps, RecreateSteps, ParticipantLocked
<1>0. local \in [Requests -> Locals] /\ local[r] \in Locals
  BY DEF ControlOK
<1>1. CASE EndReadConsumers(r)
  <2>1. db' = db /\ transport_map' = transport_map /\ routers_map' = routers_map
    BY <1>1 DEF EndReadConsumers, memory
  <2>2. Moved(r, "em_consumers_read", "em_consumers_close")
    BY <1>0, <1>1 DEF EndReadConsumers, Moved, Proceeds, Continue, Locals
  <2>3. Plain("em_consumers_read", "em_consumers_close")
    BY DEF Plain, Dropping
  <2> QED
    BY <2>1, <2>2, <2>3, MapStep
<1>2. CASE EndCloseConsumers(r)
  <2>1. db' = db /\ transport_map' = transport_map /\ routers_map' = routers_map
    BY <1>2 DEF EndCloseConsumers, memory
  <2>2. Moved(r, "em_consumers_close", "em_producers_read")
    BY <1>0, <1>2 DEF EndCloseConsumers, Moved, Proceeds, Continue, Locals
  <2>3. Plain("em_consumers_close", "em_producers_read")
    BY DEF Plain, Dropping
  <2> QED
    BY <2>1, <2>2, <2>3, MapStep
<1>3. CASE EndReadProducers(r)
  <2>1. db' = db /\ transport_map' = transport_map /\ routers_map' = routers_map
    BY <1>3 DEF EndReadProducers, memory
  <2>2. Moved(r, "em_producers_read", "em_producers_close")
    BY <1>0, <1>3 DEF EndReadProducers, Moved, Proceeds, Continue, Locals
  <2>3. Plain("em_producers_read", "em_producers_close")
    BY DEF Plain, Dropping
  <2> QED
    BY <2>1, <2>2, <2>3, MapStep
<1>4. CASE EndCloseProducers(r)
  <2>1. db' = db /\ transport_map' = transport_map /\ routers_map' = routers_map
    BY <1>4 DEF EndCloseProducers, memory
  <2>2. Done(r) /\ pc[r] # "rt_publish"
    BY <1>0, <1>4 DEF EndCloseProducers, Moved, Proceeds, Continue, Locals
  <2> QED
    BY <2>1, <2>2, MapStep
<1>5. CASE EndCloseProducersPanics(r)
  <2>1. db' = db /\ transport_map' = transport_map /\ routers_map' = routers_map
    BY <1>5 DEF EndCloseProducersPanics, memory
  <2>2. Done(r) /\ pc[r] # "rt_publish"
    BY <1>0, <1>5 DEF EndCloseProducersPanics, Moved, Proceeds, Continue, Locals
  <2> QED
    BY <2>1, <2>2, MapStep
<1> QED
  BY <1>1, <1>2, <1>3, <1>4, <1>5 DEF EndMeeting

\* create_producer, but for its transaction.
LEMMA ProduceRest ==
  ASSUME DataOK, ControlOK, TransportInv, NEW r \in Requests, CreateProducer(r), ~ProduceRegister(r)
  PROVE  TransportInv'
<1> USE DEF Listing, LeaveSteps, RecreateSteps, ParticipantLocked
<1>0. local \in [Requests -> Locals] /\ local[r] \in Locals
  BY DEF ControlOK
<1>1. CASE ProduceLock(r)
  <2>1. db' = db /\ transport_map' = transport_map /\ routers_map' = routers_map
    BY <1>1 DEF ProduceLock, Acquire, memory
  <2>2. Moved(r, "cp_lock", "cp_check")
    BY <1>0, <1>1 DEF ProduceLock, Acquire, Moved, Proceeds, Continue, Locals
  <2>3. Plain("cp_lock", "cp_check")
    BY DEF Plain, Dropping
  <2> QED
    BY <2>1, <2>2, <2>3, MapStep
<1>2. CASE ProduceCheck(r)
  <2>1. db' = db /\ transport_map' = transport_map /\ routers_map' = routers_map
    BY <1>2 DEF ProduceCheck, memory
  <2>2. Moved(r, "cp_check", "cp_produce") \/ (Done(r) /\ pc[r] # "rt_publish")
    BY <1>0, <1>2 DEF ProduceCheck, Moved, Proceeds, Continue, Locals
  <2>3. Plain("cp_check", "cp_produce")
    BY DEF Plain, Dropping
  <2> QED
    BY <2>1, <2>2, <2>3, MapStep
<1>3. CASE ProduceOnTransport(r)
  <2>1. db' = db /\ transport_map' = transport_map /\ routers_map' = routers_map
    BY <1>3 DEF ProduceOnTransport, memory
  <2>2. Moved(r, "cp_produce", "cp_routers") \/ (Done(r) /\ pc[r] # "rt_publish")
    BY <1>0, <1>3 DEF ProduceOnTransport, Moved, Proceeds, Continue, Locals
  <2>3. Plain("cp_produce", "cp_routers")
    BY DEF Plain, Dropping
  <2> QED
    BY <2>1, <2>2, <2>3, MapStep
<1>4. CASE ProduceRouters(r)
  <2>1. db' = db /\ transport_map' = transport_map /\ routers_map' = routers_map
    BY <1>4 DEF ProduceRouters, memory
  <2>2. Moved(r, "cp_routers", "cp_register") \/ (Done(r) /\ pc[r] # "rt_publish")
    BY <1>0, <1>4 DEF ProduceRouters, Moved, Proceeds, Continue, Locals
  <2>3. Plain("cp_routers", "cp_register")
    BY DEF Plain, Dropping
  <2> QED
    BY <2>1, <2>2, <2>3, MapStep
<1>5. CASE ProducePublish(r)
  <2>1. db' = db /\ transport_map' = transport_map /\ routers_map' = routers_map
    BY <1>5 DEF ProducePublish, memory
  <2>2. Moved(r, "cp_publish", "cp_plain") \/ (Done(r) /\ pc[r] # "rt_publish")
    BY <1>0, <1>5 DEF ProducePublish, Moved, Proceeds, Continue, Locals
  <2>3. Plain("cp_publish", "cp_plain")
    BY DEF Plain, Dropping
  <2> QED
    BY <2>1, <2>2, <2>3, MapStep
<1>6. CASE ProducePlain(r)
  <2>1. db' = db /\ transport_map' = transport_map /\ routers_map' = routers_map
    BY <1>6 DEF ProducePlain, memory
  <2>2. Moved(r, "cp_plain", "cp_plain_consumer")
    BY <1>0, <1>6 DEF ProducePlain, Moved, Proceeds, Continue, Locals
  <2>3. Plain("cp_plain", "cp_plain_consumer")
    BY DEF Plain, Dropping
  <2> QED
    BY <2>1, <2>2, <2>3, MapStep
<1>7. CASE ProducePlainConsumer(r)
  <2>1. db' = db /\ transport_map' = transport_map /\ routers_map' = routers_map
    BY <1>7 DEF ProducePlainConsumer, memory
  <2>2. Moved(r, "cp_plain_consumer", "cp_pipeline")
    BY <1>0, <1>7 DEF ProducePlainConsumer, Moved, Proceeds, Continue, Locals
  <2>3. Plain("cp_plain_consumer", "cp_pipeline")
    BY DEF Plain, Dropping
  <2> QED
    BY <2>1, <2>2, <2>3, MapStep
<1>8. CASE ProducePipeline(r)
  <2>1. db' = db /\ transport_map' = transport_map /\ routers_map' = routers_map
    BY <1>8 DEF ProducePipeline, memory
  <2>2. Done(r) /\ pc[r] # "rt_publish"
    BY <1>0, <1>8 DEF ProducePipeline, Moved, Proceeds, Continue, Locals
  <2> QED
    BY <2>1, <2>2, MapStep
<1> QED
  BY <1>1, <1>2, <1>3, <1>4, <1>5, <1>6, <1>7, <1>8 DEF CreateProducer

\* create_consumer and the close handlers, but for their transactions.
LEMMA ConsumeRest ==
  ASSUME DataOK, ControlOK, TransportInv, NEW r \in Requests, CreateConsumer(r) \/ CloseProducer(r) \/ CloseConsumer(r),
         ~ConsumeRegister(r), ~CloseProducerDelete(r), ~CloseConsumerDelete(r)
  PROVE  TransportInv'
<1> USE DEF Listing, LeaveSteps, RecreateSteps, ParticipantLocked
<1>0. local \in [Requests -> Locals] /\ local[r] \in Locals
  BY DEF ControlOK
<1>1. CASE ConsumeOnTransport(r)
  <2>1. db' = db /\ transport_map' = transport_map /\ routers_map' = routers_map
    BY <1>1 DEF ConsumeOnTransport, memory
  <2>2. Moved(r, "cc_transport", "cc_shard") \/ (Done(r) /\ pc[r] # "rt_publish")
    BY <1>0, <1>1 DEF ConsumeOnTransport, Moved, Proceeds, Continue, Locals
  <2>3. Plain("cc_transport", "cc_shard")
    BY DEF Plain, Dropping
  <2> QED
    BY <2>1, <2>2, <2>3, MapStep
<1>2. CASE ConsumeSnapshot(r)
  <2>1. db' = db /\ transport_map' = transport_map /\ routers_map' = routers_map
    BY <1>2 DEF ConsumeSnapshot, memory
  <2>2. Moved(r, "cc_shard", "cc_consume")
    BY <1>0, <1>2 DEF ConsumeSnapshot, Moved, Proceeds, Continue, Locals
  <2>3. Plain("cc_shard", "cc_consume")
    BY DEF Plain, Dropping
  <2> QED
    BY <2>1, <2>2, <2>3, MapStep
<1>3. CASE ConsumeReuse(r)
  <2>1. db' = db /\ transport_map' = transport_map /\ routers_map' = routers_map
    BY <1>3 DEF ConsumeReuse, memory
  <2>2. Moved(r, "cc_consume", "cc_consume")
    BY <1>0, <1>3 DEF ConsumeReuse, Moved, Proceeds, Continue, Locals
  <2>3. Plain("cc_consume", "cc_consume")
    BY DEF Plain, Dropping
  <2> QED
    BY <2>1, <2>2, <2>3, MapStep
<1>4. CASE ConsumeNew(r)
  <2>1. db' = db /\ transport_map' = transport_map /\ routers_map' = routers_map
    BY <1>4 DEF ConsumeNew, memory
  <2>2. Moved(r, "cc_consume", "cc_consume")
    BY <1>0, <1>4 DEF ConsumeNew, Moved, Proceeds, Continue, Locals
  <2>3. Plain("cc_consume", "cc_consume")
    BY DEF Plain, Dropping
  <2> QED
    BY <2>1, <2>2, <2>3, MapStep
<1>5. CASE ConsumeFails(r)
  <2>1. db' = db /\ transport_map' = transport_map /\ routers_map' = routers_map
    BY <1>5 DEF ConsumeFails, memory
  <2>2. Done(r) /\ pc[r] # "rt_publish"
    BY <1>0, <1>5 DEF ConsumeFails, Moved, Proceeds, Continue, Locals
  <2> QED
    BY <2>1, <2>2, MapStep
<1>6. CASE ConsumePublish(r)
  <2>1. db' = db /\ transport_map' = transport_map /\ routers_map' = routers_map
    BY <1>6 DEF ConsumePublish, memory
  <2>2. Done(r) /\ pc[r] # "rt_publish"
    BY <1>0, <1>6 DEF ConsumePublish, Moved, Proceeds, Continue, Locals
  <2> QED
    BY <2>1, <2>2, MapStep
<1>7. CASE CloseProducerInMemory(r)
  <2>1. db' = db /\ transport_map' = transport_map /\ routers_map' = routers_map
    BY <1>7 DEF CloseProducerInMemory, memory
  <2>2. Done(r) /\ pc[r] # "rt_publish"
    BY <1>0, <1>7 DEF CloseProducerInMemory, Moved, Proceeds, Continue, Locals
  <2> QED
    BY <2>1, <2>2, MapStep
<1>8. CASE CloseConsumerInMemory(r)
  <2>1. db' = db /\ transport_map' = transport_map /\ routers_map' = routers_map
    BY <1>8 DEF CloseConsumerInMemory, memory
  <2>2. Done(r) /\ pc[r] # "rt_publish"
    BY <1>0, <1>8 DEF CloseConsumerInMemory, Moved, Proceeds, Continue, Locals
  <2> QED
    BY <2>1, <2>2, MapStep
<1> QED
  BY <1>1, <1>2, <1>3, <1>4, <1>5, <1>6, <1>7, <1>8 DEF CreateConsumer, CloseProducer, CloseConsumer

\* The transactions of producers and consumers.
LEMMA MediaTransaction ==
  ASSUME DataOK, ControlOK, TransportInv, NEW r \in Requests,
         ProduceRegister(r) \/ ConsumeRegister(r) \/ CloseProducerDelete(r) \/ CloseConsumerDelete(r)
  PROVE  TransportInv'
<1> USE DEF Listing, LeaveSteps, RecreateSteps, ParticipantLocked
<1>0. local \in [Requests -> Locals] /\ local[r] \in Locals /\ db \in Databases /\ Keyed(db)
  BY DEF ControlOK, DataOK, TransportInv
<1>1. transport_map' = transport_map /\ routers_map' = routers_map
  BY DEF ProduceRegister, ConsumeRegister, CloseProducerDelete, CloseConsumerDelete, memory
<1>2. PICK row, rows :
         \/ db' = db
         \/ db' = RegisterProducerTx(db, row).db
         \/ db' = RegisterConsumersTx(db, rows).db
         \/ db' = DeleteProducersTx(db, call[r].p, call[r].ids).db
         \/ db' = DeleteConsumersTx(db, call[r].ids).db
  BY OutcomeOf DEF ProduceRegister, ConsumeRegister, CloseProducerDelete, CloseConsumerDelete
<1>3. RouterStep(db, db')
  BY <1>0, <1>2, OtherRouters
<1>4. Fewer(db, db')
  <2>1. PICK e : e = db'
    OBVIOUS
  <2>2. SameParticipants(db, e)
    <3>1. CASE e = db
      BY <3>1 DEF SameParticipants
    <3>2. CASE e = RegisterProducerTx(db, row).db
      BY <1>0, <3>2, RegisterProducerEffect
    <3>3. CASE e = RegisterConsumersTx(db, rows).db
      BY <1>0, <3>3, RegisterConsumersEffect
    <3>4. CASE \/ e = DeleteProducersTx(db, call[r].p, call[r].ids).db
               \/ e = DeleteConsumersTx(db, call[r].ids).db
      BY <1>0, <3>4, CloseEffect
    <3> QED
      BY <1>2, <2>1, <3>1, <3>2, <3>3, <3>4
  <2> QED
    BY <2>1, <2>2 DEF Fewer, SameParticipants, TransportRows
<1>5. CASE ProduceRegister(r)
  <2>1. \/ Moved(r, "cp_register", "cp_publish") \/ Moved(r, "cp_register", "cp_pipeline")
        \/ Done(r) /\ pc[r] # "rt_publish"
    BY <1>0, <1>5 DEF ProduceRegister, Moved, Proceeds, Continue, Locals
  <2>2. Plain("cp_register", "cp_publish") /\ Plain("cp_register", "cp_pipeline")
    BY DEF Plain, Dropping
  <2> QED
    BY <1>1, <1>3, <1>4, <2>1, <2>2, PlainStep
<1>6. CASE ConsumeRegister(r)
  <2>1. Moved(r, "cc_consume", "cc_publish") \/ (Done(r) /\ pc[r] # "rt_publish")
    BY <1>0, <1>6 DEF ConsumeRegister, Moved, Proceeds, Continue, Locals
  <2>2. Plain("cc_consume", "cc_publish")
    BY DEF Plain, Dropping
  <2> QED
    BY <1>1, <1>3, <1>4, <2>1, <2>2, PlainStep
<1>7. CASE CloseProducerDelete(r) \/ CloseConsumerDelete(r)
  <2>1. \/ Moved(r, "cl_delete", "cl_close") \/ Moved(r, "cz_delete", "cz_close")
        \/ Done(r) /\ pc[r] # "rt_publish"
    BY <1>0, <1>7 DEF CloseProducerDelete, CloseConsumerDelete, Moved, Proceeds, Continue, Locals
  <2>2. Plain("cl_delete", "cl_close") /\ Plain("cz_delete", "cz_close")
    BY DEF Plain, Dropping
  <2> QED
    BY <1>1, <1>3, <1>4, <2>1, <2>2, PlainStep
<1> QED
  BY <1>5, <1>6, <1>7

\* createMeeting and replaceMeetings: new routers are in no table, and are recorded for a
\* meeting nobody is in.
LEMMA MakeMeeting ==
  ASSUME DataOK, ControlOK, RosterInv, TransportInv, NEW r \in Requests,
         CreateMeeting(r) \/ ReplaceMeeting(r) \/ PublishRouters(r)
  PROVE  TransportInv'
<1> USE DEF Listing, LeaveSteps, RecreateSteps, ParticipantLocked
<1>0. /\ local \in [Requests -> Locals] /\ local[r] \in Locals /\ db \in Databases /\ Keyed(db)
      /\ Consistent(db) /\ StepTyped(pc[r], call[r], local[r])
  BY DEF ControlOK, DataOK, TransportInv, RosterInv
<1>1. Fewer(db, db')
  BY MeetingQuiet, QuietFewer
<1>2. transport_map' = transport_map
  BY DEF CreateMeeting, ReplaceMeeting, PublishRouters, CreateRouters, RegisterRouters, memory
<1>3. Recorded /\ Kept
  BY <1>1, <1>2, QuietRecorded
<1>4. ASSUME NEW from \in {"cm_routers", "rm_routers"}, NEW to \in {"cm_register", "rm_register"},
             CreateRouters(r, from, to)
      PROVE  TransportInv'
  <2>1. db' = db /\ routers_map' = routers_map /\ pc[r] = from
    BY <1>4 DEF CreateRouters, memory
  <2>2. RouterStep(db, db')
    BY <2>1, SameRecorded
  <2>3. CASE Done(r)
    BY <1>2, <2>1, <2>3, MapStep
  <2>4. ASSUME NEW R \in SUBSET FreshRouters, Continue(r, to, [local[r] EXCEPT !.routers = R])
        PROVE  TransportInv'
    <3> DEFINE vals == [local[r] EXCEPT !.routers = R]
    <3>1. vals.routers = R
      BY <1>0 DEF Locals
    <3>2. Proceeds(r, to, vals)
      BY <2>4 DEF Continue, Proceeds
    <3>3. R \cap db.router_worker = {}
      BY DEF FreshRouters
    <3> HIDE DEF vals
    <3>4. /\ to \notin {"em_delete", "rt_register"} \cup Listing /\ ~Dropping(to, vals)
          /\ pc[r] # "rt_publish"
      BY <2>1 DEF Dropping
    <3>5. vals.routers \cap db.router_worker \subseteq Claimed
      BY <3>1, <3>3
    <3> HIDE DEF Listing
    <3> QED
      BY <1>3, <2>1, <2>2, <3>2, <3>4, <3>5, GoesOn
  <2> QED
    BY <1>4, <2>3, <2>4 DEF CreateRouters
<1>5. ASSUME NEW from \in {"cm_register", "rm_register"}, NEW tx,
             RegisterRouters(r, from, tx),
             tx \in {CreateMeetingTx(db, call[r].m, local[r].routers),
                     ReplaceMeetingTx(db, call[r].m, local[r].routers)}
      PROVE  TransportInv'
  <2>1. db' = tx.db \/ db' = db
    BY <1>5, OutcomeOf DEF RegisterRouters
  <2>2. routers_map' = routers_map /\ pc[r] = from
    BY <1>5 DEF RegisterRouters, memory
  <2>3. call[r].m \in Meetings
    BY <1>0, <2>2 DEF StepTyped
  <2>4. RouterStep(db, db')
    BY <1>0, <1>5, <2>1, <2>3, MeetingRouters, SameRecorded
  <2>5. Moved(r, from, "mk_publish") \/ (Done(r) /\ pc[r] # "rt_publish")
    BY <1>0, <1>5 DEF RegisterRouters, Moved, Proceeds, Continue, Locals
  <2>6. Plain(from, "mk_publish")
    BY <1>5 DEF Plain, Dropping
  <2> QED
    BY <1>1, <1>2, <2>2, <2>4, <2>5, <2>6, PlainStep
<1>6. CASE PublishRouters(r)
  <2>1. db' = db /\ routers_map' \subseteq Claimed /\ pc[r] # "rt_publish" /\ Done(r)
    BY <1>6 DEF PublishRouters, Claimed
  <2>2. RouterStep(db, db')
    BY <2>1, SameRecorded
  <2> QED
    BY <1>3, <2>1, <2>2, Ends
<1> QED
  BY <1>4, <1>5, <1>6 DEF CreateMeeting, ReplaceMeeting

\* end_meeting drops the transports of the participants whose rows it deleted.
LEMMA EndDrops ==
  ASSUME DataOK, ControlOK, RosterInv, TransportInv, NEW r \in Requests,
         EndDelete(r) \/ EndRouters(r) \/ EndTransports(r)
  PROVE  TransportInv'
<1> USE DEF Listing, LeaveSteps, RecreateSteps, ParticipantLocked
<1>0. /\ local \in [Requests -> Locals] /\ local[r] \in Locals /\ db \in Databases /\ Keyed(db)
      /\ Consistent(db) /\ StepTyped(pc[r], call[r], local[r]) /\ ListInv(r)
  BY DEF ControlOK, DataOK, TransportInv, RosterInv
<1>1. CASE EndDelete(r)
  <2>1. pc[r] = "em_delete" /\ transport_map' = transport_map /\ routers_map' = routers_map
    BY <1>1 DEF EndDelete, memory
  <2>2. call[r].m \in Meetings
    BY <1>0, <2>1 DEF StepTyped
  <2>3. Fewer(db, db') /\ Recorded /\ Kept
    BY <1>1, <2>1, MeetingQuiet, QuietFewer, QuietRecorded DEF EndMeeting
  <2>4. PICK out \in Outcomes(EndMeetingTx(db, call[r].m)) :
           /\ db' = out.db
           /\ \/ out.error = NoError /\ Continue(r, "em_routers", local[r])
              \/ out.error # NoError /\ Done(r)
    BY <1>1 DEF EndDelete
  <2>5. RouterStep(db, db')
    BY <1>0, <2>2, <2>4, OutcomeOf, MeetingRouters, SameRecorded
  <2>6. CASE Done(r)
    BY <2>1, <2>3, <2>5, <2>6, PlainStep
  <2>7. CASE out.error = NoError /\ Continue(r, "em_routers", local[r])
    <3>1. db' = EndMeetingTx(db, call[r].m).db
      BY <2>4, <2>7 DEF Outcomes, Failed, NoError, DriverFailure
    <3>2. PICK e : e = db'
      OBVIOUS
    <3>3. Departed(db, e, PresentIn(db, call[r].m), {})
      BY <1>0, <3>1, <3>2, EndEffect
    <3>4. \A row \in TransportRows(db') : row.t \notin call[r].ids
      BY <1>0, <2>1, <3>2, <3>3 DEF Departed, PresentIn, TransportRows, ListInv, EndIds
    <3>5. Proceeds(r, "em_routers", local[r])
      BY <2>7 DEF Continue, Proceeds
    <3>6. local[r].routers \cap db.router_worker \subseteq Claimed
      BY DEF Claimed
    <3>7. "em_routers" \notin Listing
      OBVIOUS
    <3> HIDE DEF Listing
    <3> QED
      BY <2>1, <2>3, <2>5, <3>4, <3>5, <3>6, <3>7, GoesOn
  <2> QED
    BY <2>4, <2>6, <2>7
<1>2. CASE EndRouters(r)
  <2>1. db' = db /\ transport_map' = transport_map /\ routers_map' \subseteq routers_map
    BY <1>2 DEF EndRouters
  <2>2. Moved(r, "em_routers", "em_transports")
    BY <1>0, <1>2 DEF EndRouters, Moved, Proceeds, Continue, Locals
  <2>3. Plain("em_routers", "em_transports")
    BY DEF Plain, Dropping
  <2>4. Fewer(db, db') /\ RouterStep(db, db')
    BY <2>1, SameRecorded DEF Fewer
  <2> QED
    BY <2>1, <2>2, <2>3, <2>4, PlainStep
<1>3. CASE EndTransports(r)
  <2>1. /\ db' = db /\ routers_map' = routers_map /\ pc[r] = "em_transports"
        /\ transport_map' = {x \in transport_map : x.id \notin call[r].ids}
        /\ Proceeds(r, "em_consumers_read", local[r])
    BY <1>3 DEF EndTransports, Continue, Proceeds
  <2>2. Recorded /\ RouterStep(db, db')
    BY <2>1, SameRecorded
  <2>3. Dropping(pc[r], local[r])
    BY <2>1 DEF Dropping
  <2>4. Kept
    BY <1>0, <2>1, <2>3 DEF Kept, ListInv, Gone
  <2>5. local[r].routers \cap db.router_worker \subseteq Claimed
    BY DEF Claimed
  <2>6. "em_consumers_read" \notin Listing
    OBVIOUS
  <2> HIDE DEF Listing
  <2> QED
    BY <2>1, <2>2, <2>3, <2>4, <2>5, <2>6, GoesOn
<1> QED
  BY <1>1, <1>2, <1>3

\* leave_meeting drops transports of the participant whose rows it deleted.
LEMMA LeaveDrops ==
  ASSUME DataOK, ControlOK, RosterInv, TransportInv, NEW r \in Requests,
         LeaveDelete(r) \/ LeaveTransports(r)
  PROVE  TransportInv'
<1> USE DEF Listing, LeaveSteps, RecreateSteps, ParticipantLocked
<1>0. /\ local \in [Requests -> Locals] /\ local[r] \in Locals /\ db \in Databases /\ Keyed(db)
      /\ Consistent(db) /\ StepTyped(pc[r], call[r], local[r]) /\ ListInv(r)
  BY DEF ControlOK, DataOK, TransportInv, RosterInv
<1>a. local[r].routers \cap db.router_worker \subseteq Claimed
  BY DEF Claimed
<1>1. CASE LeaveDelete(r)
  <2>1. pc[r] = "lv_delete" /\ transport_map' = transport_map /\ routers_map' = routers_map
    BY <1>1 DEF LeaveDelete, memory
  <2>2. PICK p \in Participants, m \in Meetings, i \in Instances :
           p = call[r].p /\ m = call[r].m /\ i = call[r].i
    BY <1>0, <2>1 DEF StepTyped
  <2>3. Fewer(db, db') /\ Recorded /\ Kept
    BY <1>1, <2>1, LeaveQuiet, QuietFewer, QuietRecorded DEF LeaveMeeting
  <2>4. PICK out \in Outcomes(LeaveTx(db, p, m, i)) :
           /\ db' = out.db
           /\ \/ /\ out.error = NoError /\ LeaveAffectsRows(db, p, m, i)
                 /\ Continue(r, "lv_transports", local[r])
              \/ Done(r)
    BY <1>1, <2>2 DEF LeaveDelete
  <2>5. RouterStep(db, db')
    BY <1>0, <2>4, OutcomeOf, LeaveRouters, SameRecorded
  <2>6. CASE Done(r)
    BY <2>1, <2>3, <2>5, <2>6, PlainStep
  <2>7. CASE /\ out.error = NoError /\ LeaveAffectsRows(db, p, m, i)
             /\ Continue(r, "lv_transports", local[r])
    <3>1. PICK e : e = db' /\ e = LeaveTx(db, p, m, i).db
      BY <2>4, <2>7 DEF Outcomes, Failed, NoError, DriverFailure
    <3>2. {row.p : row \in {x \in db.participant_meeting : x.p = p /\ x.m = m /\ x.i = i}} = {p}
      BY <2>7 DEF LeaveAffectsRows
    <3>3. e = DeleteParticipants(db, {p})
      BY <3>1, <3>2 DEF LeaveTx, Finish, Start, NoError
    <3>4. Departed(db, e, {p}, {})
      BY <1>0, <3>3, DeleteEffect
    <3>5. \A row \in TransportRows(db') : row.t \notin call[r].ids
      BY <1>0, <2>1, <2>2, <3>1, <3>4 DEF Departed, TransportRows, ListInv, OwnIds
    <3>6. Proceeds(r, "lv_transports", local[r])
      BY <2>7 DEF Continue, Proceeds
    <3>7. pc[r] \in Listing
      BY <2>1
    <3> HIDE DEF Listing
    <3> QED
      BY <1>a, <2>1, <2>3, <2>5, <3>5, <3>6, <3>7, GoesOn
  <2> QED
    BY <2>4, <2>6, <2>7
<1>2. CASE LeaveTransports(r)
  <2>1. /\ db' = db /\ routers_map' = routers_map /\ pc[r] = "lv_transports"
        /\ transport_map' = {x \in transport_map : x.id \notin call[r].ids}
        /\ Proceeds(r, "lv_own_read", local[r])
    BY <1>2 DEF LeaveTransports, Continue, Proceeds
  <2>2. Recorded /\ RouterStep(db, db')
    BY <2>1, SameRecorded
  <2>3. Dropping(pc[r], local[r]) /\ pc[r] \in Listing
    BY <2>1 DEF Dropping
  <2>4. Kept
    BY <1>0, <2>1, <2>3 DEF Kept, ListInv, Gone
  <2> HIDE DEF Listing
  <2> QED
    BY <1>a, <2>1, <2>2, <2>3, <2>4, GoesOn
<1> QED
  BY <1>1, <1>2

\* The recreate helpers: once it has joined, a new user has none of the transports it
\* named to be dropped recorded.
LEMMA RecreateJoins ==
  ASSUME DataOK, ControlOK, RosterInv, TransportInv, NEW r \in Requests, RecreateJoin(r)
  PROVE  TransportInv'
<1> USE DEF Listing, LeaveSteps, RecreateSteps, ParticipantLocked
<1>0. /\ local \in [Requests -> Locals] /\ local[r] \in Locals /\ db \in Databases /\ Keyed(db)
      /\ Consistent(db) /\ StepTyped(pc[r], call[r], local[r]) /\ ListInv(r)
  BY DEF ControlOK, DataOK, TransportInv, RosterInv
<1>1. pc[r] = "rt_join" /\ transport_map' = transport_map /\ routers_map' = routers_map
  BY DEF RecreateJoin, memory
<1>2. PICK p \in Participants, m \in Meetings, i \in Instances, router \in Routers :
         p = call[r].p /\ m = call[r].m /\ i = call[r].i /\ router = call[r].router
  BY <1>0, <1>1 DEF StepTyped
<1>3. Fewer(db, db')
  <2>1. ~RecreateCreate(r) /\ ~RecreateRegister(r) /\ ~RecreatePublish(r) /\ ~RecreateExisting(r)
    BY <1>1 DEF RecreateCreate, RecreateRegister, RecreatePublish, RecreateExisting
  <2> QED
    BY <2>1, RecreateQuiet, QuietFewer DEF RecreateTransport
<1>4. Recorded /\ Kept
  BY <1>1, <1>3, QuietRecorded
<1>5. PICK tx : tx = JoinTx(db, p, m, i, call[r].kind, router)
  OBVIOUS
<1>6. PICK out \in Outcomes(tx) :
         /\ db' = out.db
         /\ \/ /\ out.error = NoError
               /\ Continue(r, "rt_own_read", [local[r] EXCEPT !.new_user = ~out.duplicate])
            \/ Done(r)
  BY <1>2, <1>5 DEF RecreateJoin
<1>7. RouterStep(db, db')
  <2>1. CASE db' = db
    BY <2>1, SameRecorded
  <2>2. CASE db' = tx.db
    BY <1>0, <1>5, <2>2, JoinRouters
  <2> QED
    BY <1>6, <2>1, <2>2, OutcomeOf
<1>8. CASE Done(r)
  BY <1>1, <1>3, <1>7, <1>8, PlainStep
<1>9. CASE /\ out.error = NoError
           /\ Continue(r, "rt_own_read", [local[r] EXCEPT !.new_user = ~out.duplicate])
  <2> DEFINE vals == [local[r] EXCEPT !.new_user = ~out.duplicate]
  <2>1. out = tx
    BY <1>6, <1>9 DEF Outcomes, Failed, NoError, DriverFailure
  <2>2. tx \in Transactions
    BY <1>0, <1>5, JoinTxType
  <2>3. vals.routers = local[r].routers /\ (vals.new_user => out.duplicate = FALSE)
    BY <1>0, <2>1, <2>2 DEF Locals, Transactions
  <2>4. Proceeds(r, "rt_own_read", vals)
    BY <1>9 DEF Continue, Proceeds
  <2> HIDE DEF vals
  <2>5. Dropping("rt_own_read", vals) => vals.new_user
    BY DEF Dropping
  <2>6. vals.new_user => \A row \in TransportRows(db') : row.t \notin call[r].ids
    <3> SUFFICES ASSUME vals.new_user
                 PROVE  \A row \in TransportRows(db') : row.t \notin call[r].ids
      OBVIOUS
    <3>1. \A row \in TransportRows(out.db) : row.p # p
      BY <1>0, <1>5, <1>9, <2>1, <2>3, NewUserHasNone
    <3>2. \A row \in TransportRows(db) : row.t \in call[r].ids => row.p = p
      BY <1>0, <1>1, <1>2 DEF ListInv, OwnIds
    <3> QED
      BY <1>3, <1>6, <3>1, <3>2 DEF Fewer
  <2>7. vals.routers \cap db.router_worker \subseteq Claimed
    BY <2>3 DEF Claimed
  <2>8. pc[r] \in Listing /\ pc[r] # "rt_publish"
    BY <1>1
  <2> HIDE DEF Listing
  <2> QED
    BY <1>1, <1>4, <1>7, <2>4, <2>5, <2>6, <2>7, <2>8, GoesOn
<1> QED
  BY <1>6, <1>8, <1>9

\* They create a transport that no list names, record it, and publish it.
LEMMA RecreateMakes ==
  ASSUME DataOK, ControlOK, RosterInv, TransportInv, NEW r \in Requests,
         RecreateCreate(r) \/ RecreateRegister(r) \/ RecreatePublish(r)
  PROVE  TransportInv'
<1> USE DEF Listing, LeaveSteps, RecreateSteps, ParticipantLocked
<1>0. /\ local \in [Requests -> Locals] /\ local[r] \in Locals /\ db \in Databases /\ Keyed(db)
      /\ Consistent(db) /\ StepTyped(pc[r], call[r], local[r]) /\ ListInv(r)
      /\ pc \in [Requests -> Steps]
  BY DEF ControlOK, DataOK, TransportInv, RosterInv
<1>a. local[r].routers \cap db.router_worker \subseteq Claimed
  BY DEF Claimed
<1>1. CASE RecreateCreate(r)
  <2>1. /\ pc[r] = "rt_create" /\ db' = db
        /\ transport_map' = transport_map /\ routers_map' = routers_map
    BY <1>1 DEF RecreateCreate, memory
  <2>2. CASE Done(r)
    BY <2>1, <2>2, MapStep
  <2>3. ASSUME NEW t \in FreshTransports, Continue(r, "rt_register", [local[r] EXCEPT !.transport = t])
        PROVE  TransportInv'
    <3> DEFINE vals == [local[r] EXCEPT !.transport = t]
    <3>1. /\ vals.routers = local[r].routers /\ vals.new_user = local[r].new_user
          /\ vals.transport = t
      BY <1>0 DEF Locals
    <3>2. Proceeds(r, "rt_register", vals)
      BY <2>3 DEF Continue, Proceeds
    <3> HIDE DEF vals
    <3>3. \A s \in Requests : vals.transport \notin call[s].ids
      BY <3>1 DEF FreshTransports
    <3>4. Dropping("rt_register", vals) => Dropping(pc[r], local[r])
      BY <2>1, <3>1 DEF Dropping
    <3>5. Recorded /\ RouterStep(db, db') /\ Kept
      BY <2>1, SameRecorded DEF Kept
    <3>6. pc[r] \in Listing /\ pc[r] # "rt_publish"
      BY <2>1
    <3> HIDE DEF Listing
    <3> QED
      BY <1>a, <2>1, <3>1, <3>2, <3>3, <3>4, <3>5, <3>6, GoesOn
  <2> QED
    BY <1>1, <2>2, <2>3 DEF RecreateCreate
<1>2. CASE RecreateRegister(r)
  <2>1. PICK p, t, kind : p = call[r].p /\ t = local[r].transport /\ kind = call[r].kind
    OBVIOUS
  <2>2. /\ pc[r] = "rt_register" /\ transport_map' = transport_map /\ routers_map' = routers_map
    BY <1>2 DEF RecreateRegister, memory
  <2>3. PICK out \in Outcomes(RegisterTransportTx(db, p, kind, t)) :
           /\ db' = out.db
           /\ \/ out.error = NoError /\ Continue(r, "rt_publish", local[r])
              \/ out.error # NoError /\ (Continue(r, "rt_existing", local[r]) \/ Done(r))
    BY <1>2, <2>1 DEF RecreateRegister, NoError, DuplicateKey, ForeignKey, DriverFailure
  <2>4. db' = db \/ db' = RegisterTransportTx(db, p, kind, t).db
    BY <2>3, OutcomeOf
  <2>5. RouterStep(db, db')
    BY <1>0, <2>4, OtherRouters
  <2>6. Kept
    BY <2>2 DEF Kept
  <2>7. CASE out.error # NoError
    <3>1. db' = db
      BY <2>3, <2>7 DEF Outcomes, Failed, RegisterTransportTx, Finish
    <3>2. Moved(r, "rt_register", "rt_existing") \/ (Done(r) /\ pc[r] # "rt_publish")
      BY <1>0, <2>2, <2>3, <2>7 DEF Moved, Proceeds, Continue
    <3>3. Plain("rt_register", "rt_existing")
      BY DEF Plain, Dropping
    <3> QED
      BY <2>2, <3>1, <3>2, <3>3, MapStep
  <2>8. CASE out.error = NoError
    <3>1. Proceeds(r, "rt_publish", local[r])
      BY <2>3, <2>8 DEF Continue, Proceeds
    <3>2. InMemory(t)'
      BY <1>0, <2>1, <3>1 DEF InMemory, Proceeds
    <3>3. \A q \in Requests : t \notin call[q].ids
      BY <1>0, <2>1, <2>2 DEF ListInv, Unlisted
    <3>4. /\ db'.participant_meeting = db.participant_meeting
          /\ \A row \in TransportRows(db') : row \in TransportRows(db) \/ row.t = t
      <4>1. PICK e, new : e = db' /\ new = [p |-> p, t |-> t]
        OBVIOUS
      <4>2. /\ e.participant_meeting = db.participant_meeting
            /\ \/ SameRows(db, e)
               \/ /\ e.participant_producer_transport = db.participant_producer_transport \cup {new}
                  /\ e.participant_consumer_transport = db.participant_consumer_transport
               \/ /\ e.participant_consumer_transport = db.participant_consumer_transport \cup {new}
                  /\ e.participant_producer_transport = db.participant_producer_transport
        BY <1>0, <2>4, <4>1, RegisterTransportEffect DEF SameRows
      <4>3. new.t = t
        BY <4>1
      <4> QED
        BY <4>1, <4>2, <4>3 DEF SameRows, TransportRows
    <3>5. Recorded
      BY <3>2, <3>3, <3>4 DEF Recorded
    <3>6. Dropping("rt_publish", local[r]) => Dropping(pc[r], local[r])
      BY <2>2 DEF Dropping
    <3>7. pc[r] \in Listing /\ pc[r] # "rt_publish"
      BY <2>2
    <3> HIDE DEF Listing
    <3> QED
      BY <1>a, <2>2, <2>5, <2>6, <3>1, <3>5, <3>6, <3>7, GoesOn
  <2> QED
    BY <2>7, <2>8
<1>3. CASE RecreatePublish(r)
  <2>1. PICK old, new :
           /\ old = IF local[r].new_user THEN call[r].ids ELSE {}
           /\ new.id = local[r].transport
           /\ transport_map' = {x \in transport_map : x.id \notin old} \cup {new}
    BY <1>3 DEF RecreatePublish
  <2>2. /\ pc[r] = "rt_publish" /\ db' = db /\ routers_map' = routers_map
        /\ Proceeds(r, "rt_reply", local[r])
    BY <1>3 DEF RecreatePublish, Continue, Proceeds
  <2>3. Recorded /\ RouterStep(db, db')
    BY <2>2, SameRecorded
  <2>4. local[r].new_user => Dropping(pc[r], local[r])
    BY <2>2 DEF Dropping
  <2>5. Kept
    BY <1>0, <2>1, <2>2, <2>4 DEF Kept, ListInv, Gone
  <2>6. Dropping("rt_reply", local[r]) => Dropping(pc[r], local[r])
    BY <2>2 DEF Dropping
  <2>7. pc[r] \in Listing /\ \E x \in transport_map' : x.id = local[r].transport
    BY <2>1, <2>2
  <2> HIDE DEF Listing
  <2> QED
    BY <1>a, <2>2, <2>3, <2>5, <2>6, <2>7, GoesOn
<1> QED
  BY <1>1, <1>2, <1>3

-----------------------------------------------------------------------------
(* Calls, and the loss of the process *)

CallSteps == {"cm_routers", "rm_routers", "em_delete", "rt_lock", "lv_delete", "cp_lock",
              "cl_delete", "cc_transport", "cz_delete"}

\* A call names no transport but those in memory or recorded: of the caller, or of the
\* participants of the meeting that ends.
LEMMA CallLists ==
  ASSUME DataOK, ControlOK, RosterInv, TransportInv, NEW r \in Requests,
         NEW step \in CallSteps, NEW c, Begin(r, step, c),
         \A t \in c.ids : \/ t \notin Transports
                          \/ \E x \in transport_map : x.id = t
                          \/ \E row \in TransportRows(db) : row.t = t,
         step \in {"rt_lock", "lv_delete"} =>
            \A row \in TransportRows(db) : row.t \in c.ids => row.p = c.p,
         step = "em_delete" =>
            \A row \in TransportRows(db) : row.t \in c.ids =>
               \E y \in db.participant_meeting : y.p = row.p /\ y.m = c.m
  PROVE  TransportInv'
<1>1. /\ db' = db /\ transport_map' = transport_map /\ routers_map' = routers_map
      /\ local' = local /\ pc[r] = "idle" /\ call'[r] = c /\ pc'[r] = step
      /\ \A q \in Requests \ {r} : call'[q] = call[q] /\ pc'[q] = pc[q]
  BY DEF Begin, memory, ControlOK
<1>2. Known'
  <2>1. \A t : InMemory(t) => InMemory(t)'
    BY <1>1 DEF InMemory
  <2>2. \A m : Adrift(m) => Adrift(m)'
    BY <1>1 DEF Adrift, Claimed, RoutersIn
  <2> QED
    BY <1>1, <2>1, <2>2 DEF TransportInv, Known
<1>3. Keyed(db)'
  BY <1>1 DEF TransportInv, Keyed
<1>4. ASSUME NEW q \in Requests
      PROVE  ListInv(q)'
  <2>0. ListInv(q)
    BY DEF TransportInv
  <2>1. Unlisted(q)'
    <3> SUFFICES ASSUME pc'[q] = "rt_register", NEW s \in Requests
                 PROVE  local[q].transport \notin call'[s].ids
      BY <1>1 DEF Unlisted
    <3>1. pc[q] = "rt_register"
      BY <1>1 DEF CallSteps
    <3>2. CASE s = r
      <4>1. local[q].transport \in Transports
        BY <3>1 DEF ControlOK, StepTyped
      <4>2. Unshared(q)
        BY DEF RosterInv, RequestInv
      <4> QED
        BY <1>1, <3>1, <3>2, <4>1, <4>2 DEF Unshared
    <3>3. CASE s # r
      BY <1>1, <2>0, <3>1, <3>3 DEF ListInv, Unlisted
    <3> QED
      BY <3>2, <3>3
  <2>2. CASE q # r
    <3>1. OwnIds(q)' /\ EndIds(q)'
      BY <1>1, <2>0, <2>2 DEF ListInv, OwnIds, EndIds
    <3>2. Gone(q)'
      <4>1. Dropping(pc'[q], local'[q]) => Dropping(pc[q], local[q])
        BY <1>1, <2>2
      <4> QED
        BY <1>1, <2>0, <2>2, <4>1 DEF ListInv, Gone
    <3> QED
      BY <2>1, <3>1, <3>2 DEF ListInv
  <2>3. CASE q = r
    <3>1. step \in Listing => step \in {"rt_lock", "lv_delete"}
      BY DEF CallSteps, Listing, RecreateSteps, LeaveSteps, ParticipantLocked
    <3>2. OwnIds(q)' /\ EndIds(q)'
      BY <1>1, <2>3, <3>1 DEF OwnIds, EndIds
    <3>3. Gone(q)'
      BY <1>1, <2>3 DEF Gone, Dropping, CallSteps, ParticipantLocked
    <3> QED
      BY <2>1, <3>2, <3>3 DEF ListInv
  <2> QED
    BY <2>2, <2>3
<1> QED
  BY <1>2, <1>3, <1>4 DEF TransportInv

\* Every call.
LEMMA CallTransport ==
  ASSUME DataOK, ControlOK, RosterInv, TransportInv, NEW r \in Requests, Call(r)
  PROVE  TransportInv'
<1>0. PICK m \in Meetings :
         \/ CallCreateMeeting(r, m)
         \/ CallReplaceMeeting(r, m)
         \/ CallEndMeeting(r, m)
         \/ \E p \in Participants, i \in Instances :
               \/ \E kind \in TransportKinds : CallRecreate(r, p, m, i, kind)
               \/ CallLeave(r, p, m, i)
               \/ CallCreateProducer(r, p, m, i)
               \/ CallCloseProducer(r, p, m, i)
               \/ CallCreateConsumer(r, p, m, i)
               \/ CallCloseConsumer(r, p, m, i)
  BY DEF Call
<1>a. RoutersOfMeeting(m) \cap Transports = {}
  BY SfuAssumption DEF DataOK, Databases, RouterMeeting, RoutersOfMeeting
\* Calls that name no transport to drop.
<1>1. ASSUME NEW step \in CallSteps \ {"em_delete", "rt_lock", "lv_delete"}, NEW c,
             Begin(r, step, c), c.ids \cap Transports = {}
      PROVE  TransportInv'
  BY <1>1, CallLists
\* Calls that name transports of the caller.
<1>2. ASSUME NEW p \in Participants, NEW old \in OldTransports(p, m),
             NEW step \in {"rt_lock", "lv_delete"}, NEW c, Begin(r, step, c), c.ids = old, c.p = p
      PROVE  TransportInv'
  <2>1. \A t \in old : \E x \in transport_map : x.id = t /\ x.p = p
    BY DEF OldTransports
  <2>2. \A row \in TransportRows(db) : row.t \in old => row.p = p
    <3> SUFFICES ASSUME NEW row \in TransportRows(db), row.t \in old
                 PROVE  row.p = p
      OBVIOUS
    <3>1. row.t \in Transports /\ row.p \in Participants
      BY DEF DataOK, Databases, TransportRows, ParticipantTransport
    <3>2. Names(row.t, p) /\ Names(row.t, row.p)
      BY <2>1 DEF Names
    <3> QED
      BY <3>1, <3>2 DEF RosterInv, OneOwner
  <2> QED
    BY <1>2, <2>1, <2>2, CallLists DEF CallSteps
<1>3. CASE CallCreateMeeting(r, m) \/ CallReplaceMeeting(r, m)
  <2>1. PICK step \in {"cm_routers", "rm_routers"} : Begin(r, step, [NoCall EXCEPT !.m = m])
    BY <1>3 DEF CallCreateMeeting, CallReplaceMeeting
  <2> QED
    BY <1>1, <2>1 DEF NoCall, CallSteps
<1>4. CASE CallEndMeeting(r, m)
  <2>1. PICK ids, listed :
           /\ Begin(r, "em_delete", [NoCall EXCEPT !.m = m, !.ids = ids, !.listed = listed])
           /\ ids = RoutersOfMeeting(m)
                      \cup TransportsOf(db.participant_producer_transport, ParticipantsOf(m))
                      \cup TransportsOf(db.participant_consumer_transport, ParticipantsOf(m))
    BY <1>4 DEF CallEndMeeting
  <2>2. PICK c : c = [NoCall EXCEPT !.m = m, !.ids = ids, !.listed = listed]
    OBVIOUS
  <2>3. c.ids = ids /\ c.m = m
    BY <2>2 DEF NoCall
  <2>4. \A t \in ids : \/ t \notin Transports
                       \/ \E row \in TransportRows(db) : row.t = t
    BY <1>a, <2>1 DEF TransportsOf, TransportRows
  <2>5. \A row \in TransportRows(db) : row.t \in ids =>
           \E y \in db.participant_meeting : y.p = row.p /\ y.m = m
    <3> SUFFICES ASSUME NEW row \in TransportRows(db), row.t \in ids
                 PROVE  row.p \in ParticipantsOf(m)
      BY DEF ParticipantsOf
    <3>1. row.t \in Transports /\ row.p \in Participants
      BY DEF DataOK, Databases, TransportRows, ParticipantTransport
    <3>2. PICK x \in TransportRows(db) : x.t = row.t /\ x.p \in ParticipantsOf(m)
      BY <1>a, <2>1, <3>1 DEF TransportsOf, TransportRows
    <3>3. x.p \in Participants /\ Names(row.t, x.p) /\ Names(row.t, row.p)
      BY <3>2 DEF Names, DataOK, Databases, TransportRows, ParticipantTransport
    <3> QED
      BY <3>1, <3>2, <3>3 DEF RosterInv, OneOwner
  <2>6. /\ Begin(r, "em_delete", c) /\ "em_delete" \in CallSteps
        /\ \A t \in c.ids : \/ t \notin Transports
                            \/ \E row \in TransportRows(db) : row.t = t
        /\ \A row \in TransportRows(db) : row.t \in c.ids =>
              \E y \in db.participant_meeting : y.p = row.p /\ y.m = c.m
    BY <2>1, <2>2, <2>3, <2>4, <2>5 DEF CallSteps
  <2> HIDE DEF CallSteps
  <2> QED
    BY <2>6, CallLists
<1>5. ASSUME NEW p \in Participants, NEW i \in Instances, NEW kind, CallRecreate(r, p, m, i, kind)
      PROVE  TransportInv'
  <2>1. PICK router \in RoutersOfMeeting(m), old \in OldTransports(p, m) :
           Begin(r, "rt_lock", [NoCall EXCEPT !.p = p, !.m = m, !.i = i, !.kind = kind,
                                              !.router = router, !.ids = old])
    BY <1>5 DEF CallRecreate
  <2> QED
    BY <1>2, <2>1 DEF NoCall
<1>6. ASSUME NEW p \in Participants, NEW i \in Instances, CallLeave(r, p, m, i)
      PROVE  TransportInv'
  <2>1. PICK old \in OldTransports(p, m) :
           Begin(r, "lv_delete", [NoCall EXCEPT !.p = p, !.m = m, !.i = i, !.ids = old])
    BY <1>6 DEF CallLeave
  <2> QED
    BY <1>2, <2>1 DEF NoCall
<1>7. ASSUME NEW p \in Participants, NEW i \in Instances,
             CallCloseProducer(r, p, m, i) \/ CallCloseConsumer(r, p, m, i)
      PROVE  TransportInv'
  <2>1. PICK step \in {"cl_delete", "cz_delete"}, ids \in SUBSET (ProducerIds \cup ConsumerIds) :
           Begin(r, step, [NoCall EXCEPT !.p = p, !.m = m, !.i = i, !.ids = ids])
    BY <1>7 DEF CallCloseProducer, CallCloseConsumer, DataOK, ProducerInMemory, ConsumerInMemory
  <2>2. ids \cap Transports = {}
    BY SfuAssumption
  <2> QED
    BY <1>1, <2>1, <2>2 DEF NoCall, CallSteps
<1>8. ASSUME NEW p \in Participants, NEW i \in Instances, CallCreateProducer(r, p, m, i)
      PROVE  TransportInv'
  <2>1. PICK kind, record, router, t, others :
           /\ others \subseteq RoutersOfMeeting(m)
           /\ Begin(r, "cp_lock", [NoCall EXCEPT !.p = p, !.m = m, !.i = i, !.kind = kind,
                                      !.router = router, !.t = t, !.record = record,
                                      !.ids = others])
    BY <1>8 DEF CallCreateProducer
  <2> QED
    BY <1>a, <1>1, <2>1 DEF NoCall, CallSteps
<1>9. ASSUME NEW p \in Participants, NEW i \in Instances, CallCreateConsumer(r, p, m, i)
      PROVE  TransportInv'
  <2>1. PICK W, t : Begin(r, "cc_transport", [NoCall EXCEPT !.p = p, !.m = m, !.i = i,
                                                            !.t = t, !.want = W])
    BY <1>9 DEF CallCreateConsumer
  <2> QED
    BY <1>1, <2>1 DEF NoCall, CallSteps
<1> QED
  BY <1>0, <1>3, <1>4, <1>5, <1>6, <1>7, <1>8, <1>9

\* Every step of a handler.
LEMMA StepTransport ==
  ASSUME DataOK, ControlOK, RosterInv, TransportInv, NEW r \in Requests, Step(r)
  PROVE  TransportInv'
<1>1. CASE CreateMeeting(r) \/ ReplaceMeeting(r) \/ PublishRouters(r)
  BY <1>1, MakeMeeting
<1>2. CASE EndMeeting(r)
  BY <1>2, EndDrops, EndRest
<1>3. CASE RecreateTransport(r)
  BY <1>3, RecreateJoins, RecreateMakes, RecreateRest
<1>4. CASE LeaveMeeting(r)
  BY <1>4, LeaveDrops, LeaveRest
<1>5. CASE CreateProducer(r)
  BY <1>5, MediaTransaction, ProduceRest
<1>6. CASE CreateConsumer(r) \/ CloseProducer(r) \/ CloseConsumer(r)
  BY <1>6, MediaTransaction, ConsumeRest
<1> QED
  BY <1>1, <1>2, <1>3, <1>4, <1>5, <1>6 DEF Step

\* After the loss of the process every meeting is adrift.
LEMMA RestartTransport ==
  ASSUME DataOK, ControlOK, RosterInv, TransportInv, Restart
  PROVE  TransportInv'
<1>1. /\ db' = db /\ routers_map' = {}
      /\ \A r \in Requests : pc'[r] = "idle" /\ local'[r] = NoLocal
  BY DEF Restart
<1>2. Claimed' = {}
  BY <1>1 DEF Claimed, NoLocal
<1>3. \A row \in TransportRows(db) : \E x \in db.participant_meeting : x.p = row.p
  BY DEF RosterInv, Consistent, HasParticipant
<1>4. Known'
  BY <1>1, <1>2, <1>3 DEF Known, Adrift, TransportRows
<1>5. Keyed(db)'
  BY <1>1 DEF TransportInv, Keyed
<1>6. \A r \in Requests : ListInv(r)'
  BY <1>1 DEF ListInv, Unlisted, OwnIds, EndIds, Gone, Dropping, Listing, RecreateSteps, LeaveSteps,
              ParticipantLocked
<1> QED
  BY <1>4, <1>5, <1>6 DEF TransportInv

\* The invariant is inductive.
LEMMA NextTransport ==
  ASSUME DataOK, ControlOK, RosterInv, TransportInv, [Next]_vars
  PROVE  TransportInv'
<1>1. CASE UNCHANGED vars
  <2>1. /\ db' = db /\ transport_map' = transport_map /\ routers_map' = routers_map
        /\ pc' = pc /\ call' = call /\ local' = local
    BY <1>1 DEF vars, memory
  <2>2. Known'
    BY <2>1 DEF TransportInv, Known, InMemory, Adrift, Claimed, RoutersIn, TransportRows
  <2>3. Keyed(db)'
    BY <2>1 DEF TransportInv, Keyed
  <2>4. \A r \in Requests : ListInv(r)'
    BY <2>1 DEF TransportInv, ListInv, Unlisted, OwnIds, EndIds, Gone, Dropping, TransportRows
  <2> QED
    BY <2>2, <2>3, <2>4 DEF TransportInv
<1> QED
  BY <1>1, CallTransport, StepTransport, RestartTransport DEF Next

\* It holds of the empty database.
LEMMA InitTransport ==
  ASSUME Init
  PROVE  TransportInv
<1>1. /\ db.participant_meeting = {} /\ db.router_meeting = {}
      /\ db.participant_producer_transport = {} /\ db.participant_consumer_transport = {}
      /\ \A r \in Requests : pc[r] = "idle"
  BY DEF Init, EmptyDatabase
<1>2. Known /\ Keyed(db)
  BY <1>1 DEF Known, Keyed, TransportRows
<1>3. \A r \in Requests : ListInv(r)
  BY <1>1 DEF ListInv, Unlisted, OwnIds, EndIds, Gone, Dropping, Listing, RecreateSteps, LeaveSteps,
              ParticipantLocked
<1> QED
  BY <1>2, <1>3 DEF TransportInv

\* A transport recorded for a participant of a meeting this process serves is in
\* transport_map, or the recreate that recorded it is about to insert it: for every set of
\* meetings, participants, instances and identifiers, any number of requests, callers that
\* wait or not, and every fault.  The ids a caller passes to be dropped, on a take-over, a
\* leave or the end of a meeting, are stale by the time the handler uses them, and still
\* never include a transport that is recorded then.
THEOREM TransportsAreKnown == Spec => []RecordedTransportIsKnown
<1>1. Init => RosterInv /\ TransportInv
  BY InitRoster, InitTransport
<1>2. IInv /\ RosterInv /\ TransportInv /\ [Next]_vars => RosterInv' /\ TransportInv'
  BY NextRoster, NextTransport DEF IInv
<1>3. TransportInv => RecordedTransportIsKnown
  <2>1. \A m : Adrift(m) => ~Hosted(m)
    BY DEF Adrift, Hosted, RoutersIn, RoutersOfMeeting, Claimed
  <2> QED
    BY <2>1 DEF TransportInv, Known, InMemory, RecordedTransportIsKnown, TransportRows
<1> QED
  BY <1>1, <1>2, <1>3, Invariance, PTL DEF Spec
====
