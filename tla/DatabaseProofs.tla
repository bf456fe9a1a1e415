--------------------------- MODULE DatabaseProofs ---------------------------
(***************************************************************************)
(* Every transaction of the media server maps databases to databases:     *)
(* whatever a statement inserts, a duplicate key skips, a foreign key      *)
(* refuses or a cascade deletes, the tables keep their column types.       *)
(***************************************************************************)
EXTENDS Database, TLAPS

\* The empty tables Init starts from are a database.
LEMMA EmptyDatabaseType == EmptyDatabase \in Databases
  BY DEF EmptyDatabase, Databases

\* The cascade of a deleted participant_meeting row removes rows and adds none.
LEMMA DeleteParticipantsType ==
  ASSUME NEW d \in Databases, NEW P
  PROVE  DeleteParticipants(d, P) \in Databases
  BY DEF DeleteParticipants, Databases, Without

\* So does the cascade of a deleted meeting_status row.
LEMMA DeleteMeetingStatusType ==
  ASSUME NEW d \in Databases, NEW m
  PROVE  DeleteMeetingStatus(d, m) \in Databases
<1> DEFINE P == {row.p : row \in {x \in d.participant_meeting : x.m = m}}
<1>1. DeleteParticipants(d, P) \in Databases
  BY DeleteParticipantsType
<1> HIDE DEF P
<1> DEFINE e == DeleteParticipants(d, P)
<1>2. e \in Databases
  BY <1>1
<1> HIDE DEF e
<1>3. [e EXCEPT !.meeting_status = @ \ {m},
                !.router_meeting = {row \in @ : row.m # m}] \in Databases
  BY <1>2 DEF Databases
<1> QED
  BY <1>3 DEF DeleteMeetingStatus, e, P

\* A transaction starts from the committed tables, with no error.
LEMMA StartType ==
  ASSUME NEW d \in Databases
  PROVE  Start(d) \in Transactions
  BY DEF Start, Transactions, Errors, NoError

\* One INSERT leads from a transaction in progress to another one.
LEMMA InsertType ==
  ASSUME NEW tx \in Transactions, NEW rollback, NEW duplicate, NEW parents,
         NEW after \in Databases
  PROVE  Insert(tx, rollback, duplicate, parents, after) \in Transactions
  BY DEF Insert, Transactions, Errors, NoError, DuplicateKey, ForeignKey

\* A commit or a rollback ends in a database.
LEMMA FinishType ==
  ASSUME NEW d \in Databases, NEW tx \in Transactions
  PROVE  Finish(d, tx) \in Transactions
  BY DEF Finish, Transactions

\* A driver failure rolls back.
LEMMA FailedType ==
  ASSUME NEW d \in Databases
  PROVE  Failed(d) \in Transactions
  BY DEF Failed, Transactions, Errors, DriverFailure

\* Inserting the status and the routers of a meeting keeps a transaction typed.
LEMMA InsertRoutersType ==
  ASSUME NEW tx \in Transactions, NEW m \in Meetings, NEW R \in SUBSET Routers
  PROVE  InsertRouters(InsertMeetingStatus(tx, m), m, R) \in Transactions
<1> DEFINE ty == InsertMeetingStatus(tx, m)
<1>1. ty \in Transactions
  <2>1. [tx.db EXCEPT !.meeting_status = @ \cup {m}] \in Databases
    BY DEF Transactions, Databases
  <2> QED
    BY <2>1, InsertType DEF InsertMeetingStatus
<1> HIDE DEF ty
<1>2. [ty.db EXCEPT !.router_worker  = @ \cup R,
                    !.router_meeting = @ \cup {[router |-> x, m |-> m] : x \in R}] \in Databases
  <2> DEFINE rows == {[router |-> x, m |-> m] : x \in R}
  <2>1. rows \in SUBSET RouterMeeting
    BY DEF RouterMeeting
  <2> HIDE DEF rows
  <2>2. [ty.db EXCEPT !.router_worker  = @ \cup R,
                      !.router_meeting = @ \cup rows] \in Databases
    BY <1>1, <2>1 DEF Transactions, Databases
  <2> QED
    BY <2>2 DEF rows
<1>3. InsertRouters(ty, m, R) \in Transactions
  BY <1>1, <1>2, InsertType DEF InsertRouters
<1> QED
  BY <1>3 DEF ty

\* createMeeting's transaction.
LEMMA CreateMeetingTxType ==
  ASSUME NEW d \in Databases, NEW m \in Meetings, NEW R \in SUBSET Routers
  PROVE  CreateMeetingTx(d, m, R) \in Transactions
  BY StartType, InsertRoutersType, FinishType DEF CreateMeetingTx

\* replaceMeetings' transaction.
LEMMA ReplaceMeetingTxType ==
  ASSUME NEW d \in Databases, NEW m \in Meetings, NEW R \in SUBSET Routers
  PROVE  ReplaceMeetingTx(d, m, R) \in Transactions
  BY DeleteMeetingStatusType, StartType, InsertRoutersType, FinishType DEF ReplaceMeetingTx

\* Inserting a participant_meeting row keeps a transaction typed.
LEMMA InsertParticipantMeetingType ==
  ASSUME NEW tx \in Transactions, NEW p \in Participants, NEW m \in Meetings,
         NEW i \in Instances
  PROVE  InsertParticipantMeeting(tx, p, m, i) \in Transactions
<1>1. [tx.db EXCEPT !.participant_meeting = @ \cup {[p |-> p, m |-> m, i |-> i]}] \in Databases
  BY DEF Transactions, Databases, ParticipantMeeting
<1> QED
  BY <1>1, InsertType DEF InsertParticipantMeeting

\* Inserting the router of a participant keeps a transaction typed.
LEMMA InsertRouterOfParticipantType ==
  ASSUME NEW tx \in Transactions, NEW p \in Participants, NEW router \in Routers
  PROVE  /\ InsertProducerRouter(tx, p, router) \in Transactions
         /\ InsertConsumerRouter(tx, p, router) \in Transactions
<1>1. [tx.db EXCEPT !.participant_producer_router =
          @ \cup {[p |-> p, router |-> router]}] \in Databases
  BY DEF Transactions, Databases, ParticipantRouter
<1>2. [tx.db EXCEPT !.participant_consumer_router =
          @ \cup {[p |-> p, router |-> router]}] \in Databases
  BY DEF Transactions, Databases, ParticipantRouter
<1> QED
  BY <1>1, <1>2, InsertType DEF InsertProducerRouter, InsertConsumerRouter

\* The transaction of remove_and_add_participant_to_meeting.
LEMMA JoinTxType ==
  ASSUME NEW d \in Databases, NEW p \in Participants, NEW m \in Meetings,
         NEW i \in Instances, NEW kind, NEW router \in Routers
  PROVE  JoinTx(d, p, m, i, kind, router) \in Transactions
<1>1. DeleteOtherInstances(d, p, m, i) \in Databases
  BY DeleteParticipantsType DEF DeleteOtherInstances
<1> DEFINE joined == InsertParticipantMeeting(Start(DeleteOtherInstances(d, p, m, i)), p, m, i)
<1>2. joined \in Transactions
  BY <1>1, StartType, InsertParticipantMeetingType
<1> HIDE DEF joined
<1>3. Finish(d, IF kind = "producer" THEN InsertProducerRouter(joined, p, router)
                ELSE InsertConsumerRouter(joined, p, router)) \in Transactions
  BY <1>2, InsertRouterOfParticipantType, FinishType
<1> QED
  BY <1>3 DEF JoinTx, joined

\* The transaction that registers a WebRTC transport.
LEMMA RegisterTransportTxType ==
  ASSUME NEW d \in Databases, NEW p \in Participants, NEW kind, NEW t \in Transports
  PROVE  RegisterTransportTx(d, p, kind, t) \in Transactions
<1> DEFINE tx == Start(d)
<1>1. tx \in Transactions
  BY StartType
<1> HIDE DEF tx
<1>2. [tx.db EXCEPT !.participant_producer_transport =
          @ \cup {[p |-> p, t |-> t]}] \in Databases
  BY <1>1 DEF Transactions, Databases, ParticipantTransport
<1>3. [tx.db EXCEPT !.participant_consumer_transport =
          @ \cup {[p |-> p, t |-> t]}] \in Databases
  BY <1>1 DEF Transactions, Databases, ParticipantTransport
<1>4. /\ InsertProducerTransport(tx, p, t) \in Transactions
      /\ InsertConsumerTransport(tx, p, t) \in Transactions
  BY <1>1, <1>2, <1>3, InsertType DEF InsertProducerTransport, InsertConsumerTransport
<1>5. Finish(d, IF kind = "producer" THEN InsertProducerTransport(tx, p, t)
                ELSE InsertConsumerTransport(tx, p, t)) \in Transactions
  BY <1>4, FinishType
<1> QED
  BY <1>5 DEF RegisterTransportTx, tx

\* The transaction of create_producer.
LEMMA RegisterProducerTxType ==
  ASSUME NEW d \in Databases, NEW row \in ParticipantProducers
  PROVE  RegisterProducerTx(d, row) \in Transactions
<1> DEFINE tx == Start(d)
<1>1. tx \in Transactions
  BY StartType
<1> HIDE DEF tx
<1>2. [tx.db EXCEPT !.participant_producers = @ \cup {row}] \in Databases
  BY <1>1 DEF Transactions, Databases
<1>3. InsertProducer(tx, row) \in Transactions
  BY <1>1, <1>2, InsertType DEF InsertProducer
<1> QED
  BY <1>3, FinishType DEF RegisterProducerTx, tx

\* The transaction of create_consumer.
LEMMA RegisterConsumersTxType ==
  ASSUME NEW d \in Databases, NEW rows \in SUBSET ParticipantConsumers
  PROVE  RegisterConsumersTx(d, rows) \in Transactions
<1> DEFINE tx == Start(d)
<1>1. tx \in Transactions
  BY StartType
<1> HIDE DEF tx
<1>2. [tx.db EXCEPT !.participant_consumers = @ \cup rows] \in Databases
  BY <1>1 DEF Transactions, Databases
<1>3. InsertConsumers(tx, rows) \in Transactions
  BY <1>1, <1>2, InsertType DEF InsertConsumers
<1> QED
  BY <1>3, FinishType DEF RegisterConsumersTx, tx

\* The deletes of close_producer, close_consumer, leave_meeting and end_meeting.
LEMMA DeleteTxTypes ==
  ASSUME NEW d \in Databases, NEW p, NEW m, NEW i, NEW ids
  PROVE  /\ DeleteProducersTx(d, p, ids) \in Transactions
         /\ DeleteConsumersTx(d, ids) \in Transactions
         /\ LeaveTx(d, p, m, i) \in Transactions
         /\ EndMeetingTx(d, m) \in Transactions
<1>1. [d EXCEPT !.participant_producers = {row \in @ : ~(row.p = p /\ row.id \in ids)}] \in Databases
  BY DEF Databases
<1>2. [d EXCEPT !.participant_consumers = {row \in @ : row.id \notin ids}] \in Databases
  BY DEF Databases
<1>3. DeleteProducersTx(d, p, ids) \in Transactions
  BY <1>1, StartType, FinishType DEF DeleteProducersTx
<1>4. DeleteConsumersTx(d, ids) \in Transactions
  BY <1>2, StartType, FinishType DEF DeleteConsumersTx
<1>5. LeaveTx(d, p, m, i) \in Transactions
  BY DeleteParticipantsType, StartType, FinishType DEF LeaveTx
<1>6. EndMeetingTx(d, m) \in Transactions
  BY DeleteMeetingStatusType, StartType, FinishType DEF EndMeetingTx
<1> QED
  BY <1>3, <1>4, <1>5, <1>6
=============================================================================
