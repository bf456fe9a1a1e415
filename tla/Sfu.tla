-------------------------------- MODULE Sfu ---------------------------------
(***************************************************************************)
(* The media server under its callers: every handler, the calls that start *)
(* them, and the loss of the process.                                      *)
(*                                                                         *)
(* The callers (the signalling service and the control plane) are not in   *)
(* this repository.  They pass identifiers they learnt from replies or     *)
(* from the database, which may be stale by the time the handler uses      *)
(* them.  With CallerWaits an instance of a participant has one call in    *)
(* progress at a time, and a meeting is not created or replaced while      *)
(* another call that makes or ends it is in progress; without it a caller  *)
(* that gave up on a reply may call again.                                 *)
(***************************************************************************)
EXTENDS MeetingHandlers, ParticipantHandlers, MediaHandlers

Busy == {r \in Requests : pc[r] # "idle"}

InstanceFree(p, i) == CallerWaits => \A r \in Busy : ~(call[r].p = p /\ call[r].i = i)

\* The calls about a meeting as a whole are those that name no participant.
MeetingFree(m) == CallerWaits => \A r \in Busy : ~(call[r].m = m /\ call[r].p = None)

RoutersOfMeeting(m) == {row.router : row \in {x \in db.router_meeting : x.m = m}}

ParticipantsOf(m) == {row.p : row \in {x \in db.participant_meeting : x.m = m}}

\* This process serves meeting m: some router recorded for m is one of its own.
Hosted(m) == RoutersOfMeeting(m) \cap routers_map # {}

\* The transports a caller of participant p may name as its old ones, at most one of
\* each kind.
OldTransports(p, m) ==
    LET known == {x \in transport_map : x.p = p /\ x.m = m}
        Named == {S \in SUBSET known :
                    \A x, y \in S : x.kind = y.kind => x = y}
    IN  {{x.id : x \in S} : S \in Named}

CallCreateMeeting(r, m) ==
    /\ "create_meeting" \in Operations /\ MeetingFree(m)
    /\ Begin(r, "cm_routers", [NoCall EXCEPT !.m = m])

\* The control plane replaces a meeting on a process that does not serve it.
CallReplaceMeeting(r, m) ==
    /\ "replace_meeting" \in Operations /\ MeetingFree(m) /\ ~Hosted(m)
    /\ Begin(r, "rm_routers", [NoCall EXCEPT !.m = m])

CallEndMeeting(r, m) ==
    /\ "end_meeting" \in Operations /\ MeetingFree(m)
    /\ Begin(r, "em_delete",
             [NoCall EXCEPT
                !.m = m,
                !.ids = RoutersOfMeeting(m)
                        \cup TransportsOf(db.participant_producer_transport, ParticipantsOf(m))
                        \cup TransportsOf(db.participant_consumer_transport, ParticipantsOf(m)),
                !.listed = ParticipantsOf(m) # {}])

CallRecreate(r, p, m, i, kind) ==
    /\ "recreate_transport" \in Operations
    /\ p \in IF kind = "producer" THEN Publishers ELSE Viewers
    /\ InstanceFree(p, i)
    /\ \E router \in RoutersOfMeeting(m), old \in OldTransports(p, m) :
          Begin(r, "rt_lock", [NoCall EXCEPT !.p = p, !.m = m, !.i = i, !.kind = kind,
                                             !.router = router, !.ids = old])

CallLeave(r, p, m, i) ==
    /\ "leave_meeting" \in Operations /\ InstanceFree(p, i)
    /\ \E old \in OldTransports(p, m) :
          Begin(r, "lv_delete", [NoCall EXCEPT !.p = p, !.m = m, !.i = i, !.ids = old])

\* Media calls come from the instance that is in the meeting when it calls.
InMeeting(p, m, i) == [p |-> p, m |-> m, i |-> i] \in db.participant_meeting

CallCreateProducer(r, p, m, i) ==
    /\ "create_producer" \in Operations /\ p \in Publishers /\ InstanceFree(p, i) /\ InMeeting(p, m, i)
    /\ \E kind \in Kinds, record \in Recording, router \in RoutersOfMeeting(m),
          x \in {y \in transport_map : y.p = p /\ y.m = m /\ y.kind = "producer"} :
          \E others \in {{}, RoutersOfMeeting(m) \ {router}} :
             Begin(r, "cp_lock", [NoCall EXCEPT !.p = p, !.m = m, !.i = i, !.kind = kind,
                                     !.router = router, !.t = x.id, !.record = record,
                                     !.ids = others])

CallCloseProducer(r, p, m, i) ==
    /\ "close_producer" \in Operations /\ InstanceFree(p, i) /\ InMeeting(p, m, i)
    /\ \E x \in {y \in producer_map : y.p = p /\ y.m = m} :
          Begin(r, "cl_delete", [NoCall EXCEPT !.p = p, !.m = m, !.i = i, !.ids = {x.id}])

\* What participant p may ask to consume: the recorded producers of the others.
Offers(p, m) == {[target |-> row.p, kind |-> row.kind, producer |-> row.id] :
                    row \in {x \in ProducersOfMeeting(db, m) : x.p # p}}

\* target_participants is a map from targets and kinds to producers.
Requested(p, m) == {W \in SUBSET Offers(p, m) \ {{}} :
                      \A v, w \in W : v.target = w.target /\ v.kind = w.kind => v = w}

CallCreateConsumer(r, p, m, i) ==
    /\ "create_consumer" \in Operations /\ p \in Viewers /\ InstanceFree(p, i) /\ InMeeting(p, m, i)
    /\ \E W \in Requested(p, m),
          x \in {y \in transport_map : y.p = p /\ y.m = m /\ y.kind = "consumer"} :
          Begin(r, "cc_transport", [NoCall EXCEPT !.p = p, !.m = m, !.i = i,
                                                  !.t = x.id, !.want = W])

CallCloseConsumer(r, p, m, i) ==
    /\ "close_consumer" \in Operations /\ InstanceFree(p, i) /\ InMeeting(p, m, i)
    /\ \E x \in {y \in consumer_map : y.p = p /\ y.m = m} :
          Begin(r, "cz_delete", [NoCall EXCEPT !.p = p, !.m = m, !.i = i, !.ids = {x.id}])

Call(r) ==
    \E m \in Meetings :
       \/ CallCreateMeeting(r, m)
       \/ CallReplaceMeeting(r, m)
       \/ CallEndMeeting(r, m)
       \/ \E p \in Participants, i \in Instances :
             \/ \E kind \in TransportKinds : CallRecreate(r, p, m, i, kind)
             \/ CallLeave(r, p, m, i)
             \/ CallCreateProducer(r, p, m, i)
             \/ CallCloseProducer(r, p, m, i)
             \/ CallCreateConsumer(r, p, m, i)
             \/ CallCloseConsumer(r, p, m, i)

Step(r) ==
    \/ CreateMeeting(r)
    \/ ReplaceMeeting(r)
    \/ PublishRouters(r)
    \/ EndMeeting(r)
    \/ RecreateTransport(r)
    \/ LeaveMeeting(r)
    \/ CreateProducer(r)
    \/ CloseProducer(r)
    \/ CreateConsumer(r)
    \/ CloseConsumer(r)

\* The process is lost and started again: the database survives, `Inner` is built
\* anew, and the requests in progress are never answered.
Restart ==
    /\ "crash" \in Faults
    /\ routers_map' = {} /\ transport_map' = {} /\ producer_map' = {} /\ consumer_map' = {}
    /\ plain_transport_map' = {} /\ plain_transport_consumer_map' = {} /\ pipeline_map' = {}
    /\ lock_map' = [k \in LockKeys |-> None]
    /\ pc' = [r \in Requests |-> "idle"]
    /\ call' = [r \in Requests |-> NoCall]
    /\ local' = [r \in Requests |-> NoLocal]
    /\ UNCHANGED db

Next == (\E r \in Requests : Call(r) \/ Step(r)) \/ Restart

Spec == Init /\ [][Next]_vars

\* Every await of a handler returns (mediasoup, gstreamer and the driver answer,
\* with a result or an error), and tokio's Mutex is fair: its waiters are served in
\* the order they queued, so none is passed over for ever.
Fairness ==
    \A r \in Requests :
       WF_vars(Step(r)) /\ SF_vars(RecreateLock(r)) /\ SF_vars(ProduceLock(r))

FairSpec == Spec /\ Fairness

-----------------------------------------------------------------------------
(* Steps, by what the request holds while it is about to take them. *)

\* Under the mutex of the participant (recreate_*_transport_helper).
ParticipantLocked ==
    {"rt_join", "rt_own_read", "rt_own_close", "rt_producers_read", "rt_dependents_read",
     "rt_producers_close", "rt_dependents_close", "rt_create", "rt_register",
     "rt_publish", "rt_existing", "rt_reply"}

\* Under the mutex of the meeting (create_producer), before its producer is in
\* producer_map and after.
Producing   == {"cp_produce", "cp_routers", "cp_register", "cp_publish"}
MeetingLocked == Producing \cup {"cp_check", "cp_plain", "cp_plain_consumer", "cp_pipeline"}

Unlocked ==
    {"idle", "cm_routers", "cm_register", "rm_routers", "rm_register", "mk_publish",
     "em_delete", "em_routers", "em_transports", "em_consumers_read", "em_consumers_close",
     "em_producers_read", "em_producers_close", "rt_lock", "cp_lock",
     "lv_delete", "lv_transports", "lv_own_read", "lv_own_close", "lv_producers_read",
     "lv_producers_close", "lv_dependents_read", "lv_dependents_close",
     "cl_delete", "cl_close", "cc_transport", "cc_shard", "cc_consume", "cc_publish",
     "cz_delete", "cz_close"}

Steps == Unlocked \cup ParticipantLocked \cup MeetingLocked

\* The keys whose mutex a request holds when it is about to take `step` of call c.
Held(step, c) ==
    IF step \in ParticipantLocked THEN {c.p}
    ELSE IF step \in MeetingLocked THEN {c.m} ELSE {}

Calls ==
    [m : Meetings \cup {None}, p : Participants \cup {None}, i : Instances \cup {None},
     kind : Kinds \cup TransportKinds \cup {None}, router : Routers \cup {None},
     t : Transports \cup {None}, record : BOOLEAN,
     ids : SUBSET (Routers \cup Transports \cup ProducerIds \cup ConsumerIds),
     want : SUBSET Wants, listed : BOOLEAN]

Locals ==
    [routers : SUBSET Routers, new_user : BOOLEAN, consumers : SUBSET ConsumerIds,
     producers : SUBSET ProducerIds, dependents : SUBSET ConsumerIds,
     transport : Transports \cup {None}, producer : ProducerIds \cup {None},
     seen : SUBSET ConsumerInMemory, want : SUBSET Wants, made : SUBSET ConsumerInMemory]

\* The type invariant: the tables, the maps and the state of each request.
TypeOK ==
    /\ db \in Databases
    /\ routers_map \subseteq Routers
    /\ transport_map \subseteq TransportInMemory
    /\ producer_map \subseteq ProducerInMemory
    /\ consumer_map \subseteq ConsumerInMemory
    /\ plain_transport_map \subseteq ProducerIds
    /\ plain_transport_consumer_map \subseteq ProducerIds
    /\ pipeline_map \subseteq Meetings
    /\ lock_map \in [LockKeys -> Requests \cup {None}]
    /\ pc \in [Requests -> Steps]
    /\ call \in [Requests -> Calls]
    /\ local \in [Requests -> Locals]

-----------------------------------------------------------------------------
(* Safety *)

\* However many createProducer requests of however many instances of a participant
\* run at once, producer_map never holds two producers of one kind for the
\* participant in a meeting: the search of create_producer, the long way to its
\* insertion and the removals by other handlers are held apart by the meeting's
\* mutex alone, as participant_producers has no unique key.
OneProducerPerKind ==
    \A x, y \in producer_map : x.m = y.m /\ x.p = y.p /\ x.kind = y.kind => x = y

\* A mutex of lock_map is held exactly by the request that is between its
\* lock().await and its return: no early return, error or panic of the recreate
\* helpers or of create_producer leaves a participant or a meeting locked.
LockDiscipline ==
    \A r \in Requests : {k \in LockKeys : lock_map[k] = r} = Held(pc[r], call[r])

\* A request that committed the row of this producer and is about to insert it.
AboutToPublish(id) == \E r \in Requests : pc[r] = "cp_publish" /\ local[r].producer = id

\* A producer recorded for a meeting this process serves is in producer_map, or its
\* create_producer is about to insert it: getProducersOfMeeting never offers a
\* producer that a slower teardown (a leave, the take-over by another instance, the
\* end of the meeting) has already removed from memory.
RecordedProducerIsLive ==
    \A row \in db.participant_producers :
       Hosted(row.m) => \/ \E x \in producer_map : x.id = row.id
                        \/ AboutToPublish(row.id)

\* A transport recorded for a participant is in transport_map, or the recreate that
\* recorded it is about to insert it: the ids a caller passes to be dropped (on a
\* take-over, a leave, the end of the meeting) never include a transport that has
\* since been registered.
RecordedTransportIsKnown ==
    \A row \in db.participant_producer_transport \cup db.participant_consumer_transport :
       \/ \E x \in transport_map : x.id = row.t
       \/ \E r \in Requests : pc[r] = "rt_publish" /\ local[r].transport = row.t
       \/ \E x \in db.participant_meeting : x.p = row.p /\ ~Hosted(x.m)

Quiescent == Busy = {}

\* When no request is in progress, producer_map holds exactly the recorded
\* producers of the meetings this process serves.
ProducersAgree ==
    Quiescent =>
      {x.id : x \in {y \in producer_map : Hosted(y.m)}} =
      {row.id : row \in {y \in db.participant_producers : Hosted(y.m)}}

\* When no request is in progress, every recorded consumer of a meeting this
\* process serves is in memory, so that a later createConsumer can reuse it; a
\* row without its consumer would make every such call fail on its unique key.
RecordedConsumersAreLive ==
    Quiescent =>
      \A row \in db.participant_consumers :
         Hosted(row.m) => \E x \in consumer_map : x.id = row.id

\* create_consumer never finds two consumers to reuse: an instance of a participant
\* has at most one consumer of each kind of each target in memory, although it is
\* the database's unique key and a snapshot of the shard that keep them apart.
OneConsumerPerTarget ==
    \A x, y \in consumer_map :
       /\ x.m = y.m /\ x.p = y.p /\ x.i = y.i
       /\ x.target = y.target /\ x.kind = y.kind
       => x = y

\* When no request is in progress, the recording transports and consumers kept are
\* those of producers that exist: closing a producer stops its recording too.
RecordingsFollowProducers ==
    Quiescent => /\ plain_transport_map = plain_transport_consumer_map
                 /\ plain_transport_map \subseteq {x.id : x \in producer_map}

-----------------------------------------------------------------------------
(* Liveness *)

\* Every request is answered: nobody waits for ever for the mutex of a participant
\* or of a meeting that an error, an early return or a panic left locked.
EveryRequestEnds == \A r \in Requests : pc[r] # "idle" ~> pc[r] = "idle"

-----------------------------------------------------------------------------
(* The database, as the other services read it, behaves as a Roster. *)

roster ==
    INSTANCE Roster WITH
        meetings   <- db.meeting_status,
        present    <- db.participant_meeting,
        published  <- {[id |-> row.id, p |-> row.p, kind |-> row.kind, m |-> row.m] :
                          row \in db.participant_producers},
        subscribed <- {[id |-> row.id, p |-> row.p, target |-> row.target, kind |-> row.kind] :
                          row \in db.participant_consumers}

\* Whatever the handlers interleave, fail or panic, and whenever the process is
\* lost, the tables change as the Roster says: a take-over retracts everything of
\* the superseded instance in the step that admits the new one, and a leave of a
\* superseded instance changes nothing.
ImplementsRoster == roster!RosterSpec
=============================================================================
