------------------------------ MODULE SfuState ------------------------------
(***************************************************************************)
(* The state of the media server (mediasoupv1/mod.rs) and the control of   *)
(* the requests that change it: the database and the maps of `Inner`.      *)
(*                                                                         *)
(* Every request runs its handler on its own tokio task, so handlers       *)
(* interleave at each await.  A request is a slot of Requests: pc[r] names *)
(* the next step of its handler, call[r] holds its arguments and local[r]  *)
(* its local variables.  One step is one database transaction or one       *)
(* critical section of one map, the units other requests cannot split.     *)
(* A handler that returns, fails or panics ends in Done(r): its mutex      *)
(* guard is dropped on every one of these paths.                           *)
(***************************************************************************)
EXTENDS Database, FiniteSets

CONSTANTS Requests,      \* slots for requests in progress
          None,          \* no value: an absent Option, a free lock
          Operations,    \* the endpoints the callers use
          Publishers,    \* the participants whose callers use the producer endpoints
          Viewers,       \* the participants whose callers use the consumer endpoints
          Recording,     \* values of start_recording the callers use
          Faults,        \* what may fail: "mediasoup", "driver", "pipeline", "crash"
          CallerWaits,   \* callers await a reply before their next call
          get_shard      \* the shard of a meeting's consumers

ASSUME SfuAssumption ==
    /\ None \notin Requests \cup Meetings \cup Participants \cup Instances
                 \cup Routers \cup Transports \cup ProducerIds \cup ConsumerIds \cup Kinds
    /\ Transports \cap (Routers \cup ProducerIds \cup ConsumerIds) = {}   \* UUIDs
    /\ Publishers \subseteq Participants /\ Viewers \subseteq Participants
    /\ Recording \subseteq BOOLEAN
    /\ CallerWaits \in BOOLEAN

VARIABLES
    db,                            \* the MySQL database
    routers_map, transport_map, producer_map,
    consumer_map,                  \* the union of consumer_map_shards
    plain_transport_map,           \* producers whose recording transport is kept
    plain_transport_consumer_map,  \* producers whose recording consumer is kept
    pipeline_map,                  \* meetings with a recording pipeline
    lock_map,                      \* holder of the mutex of each key
    pc, call, local

recordings == <<plain_transport_map, plain_transport_consumer_map, pipeline_map>>
memory == <<routers_map, transport_map, producer_map, consumer_map, recordings>>
vars == <<db, memory, lock_map, pc, call, local>>

TransportKinds == {"producer", "consumer"}

TransportInMemory ==
    [id : Transports, m : Meetings, p : Participants, kind : TransportKinds]
ProducerInMemory ==
    [id : ProducerIds, m : Meetings, p : Participants, kind : Kinds, i : Instances]
ConsumerInMemory ==
    [id : ConsumerIds, m : Meetings, p : Participants, target : Participants,
     kind : Kinds, i : Instances, producer : ProducerIds]

\* One entry of target_participants: the producer of this kind of that target.
Wants == [target : Participants, kind : Kinds, producer : ProducerIds]

LockKeys == Meetings \cup Participants

\* Arguments of a request; those its endpoint does not take are None or empty.
NoCall == [m |-> None, p |-> None, i |-> None, kind |-> None, router |-> None,
           t |-> None, record |-> FALSE, ids |-> {}, want |-> {}, listed |-> FALSE]

NoLocal == [routers |-> {}, new_user |-> FALSE, consumers |-> {}, producers |-> {},
            dependents |-> {}, transport |-> None, producer |-> None,
            seen |-> {}, want |-> {}, made |-> {}]

Init ==
    /\ db = EmptyDatabase
    /\ routers_map = {} /\ transport_map = {} /\ producer_map = {} /\ consumer_map = {}
    /\ plain_transport_map = {} /\ plain_transport_consumer_map = {} /\ pipeline_map = {}
    /\ lock_map = [k \in LockKeys |-> None]
    /\ pc = [r \in Requests |-> "idle"]
    /\ call = [r \in Requests |-> NoCall]
    /\ local = [r \in Requests |-> NoLocal]

-----------------------------------------------------------------------------
(* Control of a request *)

Begin(r, step, c) ==
    /\ pc[r] = "idle"
    /\ pc' = [pc EXCEPT ![r] = step]
    /\ call' = [call EXCEPT ![r] = c]
    /\ UNCHANGED <<db, memory, lock_map, local>>

\* Go on to the next step with these local variables.
Continue(r, step, vals) ==
    /\ pc' = [pc EXCEPT ![r] = step]
    /\ local' = [local EXCEPT ![r] = vals]
    /\ UNCHANGED <<call, lock_map>>

\* Mutant of Done: the guard outlives the handler.
DoneKeepsLock(r) ==
    /\ pc' = [pc EXCEPT ![r] = "idle"]
    /\ call' = [call EXCEPT ![r] = NoCall]
    /\ local' = [local EXCEPT ![r] = NoLocal]
    /\ UNCHANGED lock_map

\* The handler ends, with a reply, an error or a panic; its guard is dropped.
Done(r) ==
    /\ pc' = [pc EXCEPT ![r] = "idle"]
    /\ call' = [call EXCEPT ![r] = NoCall]
    /\ local' = [local EXCEPT ![r] = NoLocal]
    /\ lock_map' = [k \in LockKeys |-> IF lock_map[k] = r THEN None ELSE lock_map[k]]

Acquire(r, key, step) ==
    /\ lock_map[key] = None
    /\ lock_map' = [lock_map EXCEPT ![key] = r]
    /\ pc' = [pc EXCEPT ![r] = step]
    /\ UNCHANGED <<db, memory, call, local>>

\* A transaction runs, or the driver fails and it is rolled back.
Outcomes(tx) == {tx} \cup (IF "driver" \in Faults THEN {Failed(db)} ELSE {})

\* A mediasoup call that would issue an id out of `fresh` fails.
MediasoupFails(fresh) == "mediasoup" \in Faults \/ fresh = {}

-----------------------------------------------------------------------------
(* Identifiers mediasoup has not issued: no table, map or request holds them. *)

FreshRouters ==
    Routers \ (routers_map \cup db.router_worker \cup UNION {local[r].routers : r \in Requests})

FreshTransports ==
    Transports \
      ({x.id : x \in transport_map}
       \cup {row.t : row \in db.participant_producer_transport}
       \cup {row.t : row \in db.participant_consumer_transport}
       \cup UNION {{local[r].transport, call[r].t} \cup call[r].ids : r \in Requests})

FreshProducers ==
    ProducerIds \
      ({x.id : x \in producer_map} \cup {x.producer : x \in consumer_map}
       \cup {row.id : row \in db.participant_producers}
       \cup plain_transport_map \cup plain_transport_consumer_map
       \cup UNION {{local[r].producer} \cup local[r].producers \cup call[r].ids
                     \cup {w.producer : w \in call[r].want} : r \in Requests})

FreshConsumers ==
    ConsumerIds \
      ({x.id : x \in consumer_map} \cup {row.id : row \in db.participant_consumers}
       \cup UNION {local[r].consumers \cup local[r].dependents \cup call[r].ids
                     \cup {x.id : x \in local[r].made \cup local[r].seen} : r \in Requests})

\* mediasoup closes a producer when its last handle is dropped: the handles are
\* those of producer_map and of a create_producer in progress.
LiveProducers == {x.id : x \in producer_map} \cup {local[r].producer : r \in Requests}

-----------------------------------------------------------------------------
(* Reading the maps *)

Shard(m) == {x \in consumer_map : get_shard[x.m] = get_shard[m]}

\* Mutant of get_participant_producers_for_instance_in_meeting: get_participant_producers,
\* whatever the meeting and the instance.
get_participant_producers(p, m, i) == {x.id : x \in {y \in producer_map : y.p = p}}

get_participant_producers_for_instance_in_meeting(p, m, i) ==
    {x.id : x \in {y \in producer_map : y.p = p /\ y.m = m /\ y.i = i}}

get_participant_producers_excluding_instance(p, m, i) ==
    {x.id : x \in {y \in producer_map : y.p = p /\ y.m = m /\ y.i # i}}

get_all_producers_for_meeting(m) == {x.id : x \in {y \in producer_map : y.m = m}}

get_participant_consumers_for_instance_in_meeting(p, m, i) ==
    {x.id : x \in {y \in Shard(m) : y.p = p /\ y.m = m /\ y.i = i}}

get_participant_consumers_excluding_instance(p, m, i) ==
    {x.id : x \in {y \in Shard(m) : y.p = p /\ y.m = m /\ y.i # i}}

get_consumers_for_producer_ids(ids, m) ==
    {x.id : x \in {y \in Shard(m) : y.producer \in ids}}

get_all_consumers_for_meeting(m) == {x.id : x \in {y \in Shard(m) : y.m = m}}

(* Removing from the maps *)

close_all_consumers_in_memory(ids, m) ==
    consumer_map' = consumer_map \ {x \in Shard(m) : x.id \in ids}

\* Mutant of close_all_producers_in_memory: the recording's consumer is forgotten.
close_all_producers_but_recording(ids) ==
    LET removed == {x \in producer_map : x.id \in ids}
    IN  /\ producer_map' = producer_map \ removed
        /\ plain_transport_map' = plain_transport_map \ {x.id : x \in removed}
        /\ UNCHANGED plain_transport_consumer_map

\* The three maps are changed under their three write locks.
close_all_producers_in_memory(ids) ==
    LET removed == {x \in producer_map : x.id \in ids}
    IN  /\ producer_map' = producer_map \ removed
        /\ plain_transport_map' = plain_transport_map \ {x.id : x \in removed}
        /\ plain_transport_consumer_map' =
               plain_transport_consumer_map \ {x.id : x \in removed}

\* What close_all_producers_in_memory does next when it must take the closed
\* producers out of the meeting's pipeline: several of its steps return Err.
PipelineFails(m) == "pipeline" \in Faults /\ m \in pipeline_map
=============================================================================
