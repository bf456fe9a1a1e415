------------------------------ MODULE Database ------------------------------
(***************************************************************************)
(* The MySQL schema the media server persists its meetings in, and the     *)
(* statements and transactions it runs against it.  A table is the set of  *)
(* its rows and the database is the record of its tables, so a transaction *)
(* is an operator from a database to the outcome of running it: MySQL      *)
(* executes each one atomically.                                           *)
(*                                                                         *)
(* worker_container is left out: its two rows are written at boot and      *)
(* nothing in the server deletes them, so the foreign key of router_worker *)
(* always holds.  Capacities and the container column are data no guard    *)
(* reads.                                                                  *)
(***************************************************************************)

CONSTANTS Meetings,       \* meeting ids
          Participants,   \* participant ids
          Instances,      \* instance ids: one per device or tab of a participant
          Routers,        \* router ids mediasoup may issue
          Transports,     \* WebRTC transport ids mediasoup may issue
          ProducerIds,    \* producer ids mediasoup may issue
          ConsumerIds,    \* consumer ids mediasoup may issue
          Kinds           \* media kinds

RouterMeeting      == [router : Routers, m : Meetings]
ParticipantMeeting == [p : Participants, m : Meetings, i : Instances]
ParticipantRouter  == [p : Participants, router : Routers]
ParticipantTransport == [p : Participants, t : Transports]
ParticipantProducers ==
    [id : ProducerIds, p : Participants, kind : Kinds, m : Meetings, t : Transports]
ParticipantConsumers ==
    [id : ConsumerIds, p : Participants, target : Participants, kind : Kinds,
     m : Meetings, t : Transports]

Databases ==
    [meeting_status                 : SUBSET Meetings,
     router_worker                  : SUBSET Routers,
     router_meeting                 : SUBSET RouterMeeting,
     participant_meeting            : SUBSET ParticipantMeeting,
     participant_producer_router    : SUBSET ParticipantRouter,
     participant_consumer_router    : SUBSET ParticipantRouter,
     participant_producer_transport : SUBSET ParticipantTransport,
     participant_consumer_transport : SUBSET ParticipantTransport,
     participant_producers          : SUBSET ParticipantProducers,
     participant_consumers          : SUBSET ParticipantConsumers]

EmptyDatabase ==
    [meeting_status                 |-> {},
     router_worker                  |-> {},
     router_meeting                 |-> {},
     participant_meeting            |-> {},
     participant_producer_router    |-> {},
     participant_consumer_router    |-> {},
     participant_producer_transport |-> {},
     participant_consumer_transport |-> {},
     participant_producers          |-> {},
     participant_consumers          |-> {}]

(***************************************************************************)
(* Deleting rows, with the ON DELETE CASCADE of every foreign key.         *)
(***************************************************************************)

\* The rows of `table` that belong to none of the participants P.
Without(table, P) == {row \in table : row.p \notin P}

\* The transports registered for the participants P in `table`.
TransportsOf(table, P) == {row.t : row \in {x \in table : x.p \in P}}

\* Mutant of DeleteParticipants: the foreign key of target_participant_id lacks its
\* ON DELETE CASCADE.
DeleteParticipantsNotTargets(db, P) ==
    [db EXCEPT
       !.participant_meeting            = Without(@, P),
       !.participant_producer_router    = Without(@, P),
       !.participant_consumer_router    = Without(@, P),
       !.participant_producer_transport = Without(@, P),
       !.participant_consumer_transport = Without(@, P),
       !.participant_producers          = Without(@, P),
       !.participant_consumers          = Without(@, P)]

\* DELETE of the participant_meeting rows of the participants P.
DeleteParticipants(db, P) ==
    LET producing == TransportsOf(db.participant_producer_transport, P)
        consuming == TransportsOf(db.participant_consumer_transport, P)
    IN  [db EXCEPT
           !.participant_meeting            = Without(@, P),
           !.participant_producer_router    = Without(@, P),
           !.participant_consumer_router    = Without(@, P),
           !.participant_producer_transport = Without(@, P),
           !.participant_consumer_transport = Without(@, P),
           !.participant_producers =
               {row \in @ : row.p \notin P /\ row.t \notin producing},
           !.participant_consumers =
               {row \in @ : row.p \notin P /\ row.target \notin P
                                           /\ row.t \notin consuming}]

\* DELETE of the meeting_status row of meeting m.
DeleteMeetingStatus(db, m) ==
    [DeleteParticipants(db, {row.p : row \in {x \in db.participant_meeting : x.m = m}})
       EXCEPT !.meeting_status = @ \ {m},
              !.router_meeting = {row \in @ : row.m # m}]

(***************************************************************************)
(* A transaction in progress: the tables as changed so far, whether a      *)
(* duplicate key was skipped, and the error that ended it, if any.         *)
(***************************************************************************)

NoError        == "none"
DuplicateKey   == "1062"
ForeignKey     == "1452"
DriverFailure  == "driver"

Errors == {NoError, DuplicateKey, ForeignKey, DriverFailure}

Transactions == [db : Databases, duplicate : BOOLEAN, error : Errors]

Start(db) == [db |-> db, duplicate |-> FALSE, error |-> NoError]

\* One INSERT: `duplicate` when a unique key is taken, `parents` when every row
\* its foreign keys refer to exists, `after` the tables with the row added.
Insert(tx, rollback_on_duplicate, duplicate, parents, after) ==
    IF tx.error # NoError THEN tx
    ELSE IF duplicate
         THEN IF rollback_on_duplicate
              THEN [tx EXCEPT !.error = DuplicateKey, !.duplicate = TRUE]
              ELSE [tx EXCEPT !.duplicate = TRUE]
         ELSE IF parents
              THEN [tx EXCEPT !.db = after]
              ELSE [tx EXCEPT !.error = ForeignKey]

\* Commit, or roll back to the tables the transaction started from.
Finish(db, tx) ==
    [db |-> IF tx.error = NoError THEN tx.db ELSE db,
     duplicate |-> tx.duplicate, error |-> tx.error]

\* The outcome when the driver fails: rolled back, reported as an error.
Failed(db) == [db |-> db, duplicate |-> FALSE, error |-> DriverFailure]

HasParticipant(db, p) == \E row \in db.participant_meeting : row.p = p
HasRow(table, p)      == \E row \in table : row.p = p
HasTransport(table, t) == \E row \in table : row.t = t

InsertMeetingStatus(tx, m) ==
    Insert(tx, TRUE, m \in tx.db.meeting_status, TRUE,
           [tx.db EXCEPT !.meeting_status = @ \cup {m}])

\* The router_worker and router_meeting rows of the routers R of meeting m.
InsertRouters(tx, m, R) ==
    Insert(tx, TRUE, R \cap tx.db.router_worker # {}, m \in tx.db.meeting_status,
           [tx.db EXCEPT !.router_worker  = @ \cup R,
                         !.router_meeting = @ \cup {[router |-> x, m |-> m] : x \in R}])

\* The primary key of participant_meeting is the participant alone.
InsertParticipantMeeting(tx, p, m, i) ==
    Insert(tx, FALSE, HasParticipant(tx.db, p), m \in tx.db.meeting_status,
           [tx.db EXCEPT !.participant_meeting = @ \cup {[p |-> p, m |-> m, i |-> i]}])

InsertProducerRouter(tx, p, router) ==
    Insert(tx, FALSE, HasRow(tx.db.participant_producer_router, p),
           HasParticipant(tx.db, p) /\ router \in tx.db.router_worker,
           [tx.db EXCEPT !.participant_producer_router =
                             @ \cup {[p |-> p, router |-> router]}])

InsertConsumerRouter(tx, p, router) ==
    Insert(tx, FALSE, HasRow(tx.db.participant_consumer_router, p),
           HasParticipant(tx.db, p) /\ router \in tx.db.router_worker,
           [tx.db EXCEPT !.participant_consumer_router =
                             @ \cup {[p |-> p, router |-> router]}])

InsertProducerTransport(tx, p, t) ==
    Insert(tx, TRUE, \/ HasRow(tx.db.participant_producer_transport, p)
                     \/ HasTransport(tx.db.participant_producer_transport, t),
           HasParticipant(tx.db, p),
           [tx.db EXCEPT !.participant_producer_transport = @ \cup {[p |-> p, t |-> t]}])

InsertConsumerTransport(tx, p, t) ==
    Insert(tx, TRUE, \/ HasRow(tx.db.participant_consumer_transport, p)
                     \/ HasTransport(tx.db.participant_consumer_transport, t),
           HasParticipant(tx.db, p),
           [tx.db EXCEPT !.participant_consumer_transport = @ \cup {[p |-> p, t |-> t]}])

\* Mutant of InsertProducer: participant_producers has no foreign keys.
InsertProducerUnchecked(tx, row) ==
    Insert(tx, TRUE, FALSE, TRUE, [tx.db EXCEPT !.participant_producers = @ \cup {row}])

\* participant_producers has no unique key.
InsertProducer(tx, row) ==
    Insert(tx, TRUE, FALSE,
           /\ HasParticipant(tx.db, row.p)
           /\ HasTransport(tx.db.participant_producer_transport, row.t),
           [tx.db EXCEPT !.participant_producers = @ \cup {row}])

\* The rows a create_consumer inserts, all or none: (participant, target, kind)
\* is unique in the table and, the request being a map, among the new rows too.
InsertConsumers(tx, rows) ==
    Insert(tx, TRUE,
           \E row \in rows, old \in tx.db.participant_consumers :
               row.p = old.p /\ row.target = old.target /\ row.kind = old.kind,
           \A row \in rows :
               /\ HasParticipant(tx.db, row.p) /\ HasParticipant(tx.db, row.target)
               /\ HasTransport(tx.db.participant_consumer_transport, row.t),
           [tx.db EXCEPT !.participant_consumers = @ \cup rows])

(***************************************************************************)
(* The transactions of the media server, one per call of mutate, delete    *)
(* or query.                                                               *)
(***************************************************************************)

CreateMeetingTx(db, m, R) ==
    Finish(db, InsertRouters(InsertMeetingStatus(Start(db), m), m, R))

ReplaceMeetingTx(db, m, R) ==
    Finish(db, InsertRouters(
                   InsertMeetingStatus(Start(DeleteMeetingStatus(db, m)), m), m, R))

\* Mutant of DeleteOtherInstances: the instance that joins is deleted too.
DeleteAllInstances(db, p, m, i) ==
    DeleteParticipants(db, {row.p : row \in {x \in db.participant_meeting :
                                                 x.p = p /\ x.m = m}})

\* DELETE ... WHERE meeting_id = m AND participant_id = p AND instance_id != i
DeleteOtherInstances(db, p, m, i) ==
    DeleteParticipants(db, {row.p : row \in {x \in db.participant_meeting :
                                                 x.p = p /\ x.m = m /\ x.i # i}})

JoinTx(db, p, m, i, kind, router) ==
    LET joined == InsertParticipantMeeting(Start(DeleteOtherInstances(db, p, m, i)), p, m, i)
    IN  Finish(db, IF kind = "producer" THEN InsertProducerRouter(joined, p, router)
                                        ELSE InsertConsumerRouter(joined, p, router))

RegisterTransportTx(db, p, kind, t) ==
    Finish(db, IF kind = "producer" THEN InsertProducerTransport(Start(db), p, t)
                                    ELSE InsertConsumerTransport(Start(db), p, t))

RegisterProducerTx(db, row) == Finish(db, InsertProducer(Start(db), row))

RegisterConsumersTx(db, rows) == Finish(db, InsertConsumers(Start(db), rows))

\* DELETE ... WHERE participant_id = p AND producer_id = id, for each id.
DeleteProducersTx(db, p, ids) ==
    Finish(db, Start([db EXCEPT !.participant_producers =
                          {row \in @ : ~(row.p = p /\ row.id \in ids)}]))

\* DELETE ... WHERE consumer_id = id, for each id.
DeleteConsumersTx(db, ids) ==
    Finish(db, Start([db EXCEPT !.participant_consumers =
                          {row \in @ : row.id \notin ids}]))

\* Mutant of LeaveTx: any instance of the participant leaves for all of them.
LeaveTxAnyInstance(db, p, m, i) ==
    Finish(db, Start(DeleteParticipants(db,
                  {row.p : row \in {x \in db.participant_meeting : x.p = p /\ x.m = m}})))

\* DELETE ... WHERE meeting_id = m AND participant_id = p AND instance_id = i
LeaveTx(db, p, m, i) ==
    Finish(db, Start(DeleteParticipants(db,
                  {row.p : row \in {x \in db.participant_meeting :
                                        x.p = p /\ x.m = m /\ x.i = i}})))

\* affected_rows() of that DELETE: the rows the statement itself matched.
LeaveAffectsRows(db, p, m, i) == [p |-> p, m |-> m, i |-> i] \in db.participant_meeting

EndMeetingTx(db, m) == Finish(db, Start(DeleteMeetingStatus(db, m)))

\* SELECT participant_id, producer_id, kind ... WHERE meeting_id = m
ProducersOfMeeting(db, m) == {row \in db.participant_producers : row.m = m}
=============================================================================
