------------------------------ MODULE Process -------------------------------
(***************************************************************************)
(* A process of the media server from its start to its shutdown (main.rs,  *)
(* SFU::new, create_inner): the container it registers, the thread that    *)
(* keeps the heartbeat of that container, the requests it serves, as far   *)
(* as they announce joins and leaves, and the task that posts the events.  *)
(*                                                                         *)
(* The handlers run on the worker threads of the tokio runtime.  They give *)
(* a thread back at each await, but the send of an event blocks the thread *)
(* it runs on, with the mutex of the participant held in a join.           *)
(***************************************************************************)
EXTENDS UserEvents

CONSTANTS Requests,
          Threads,        \* worker threads of the runtime that serves requests
          MaxBoots,       \* how many processes are started, one after the other
          CallerWaits,    \* an instance awaits a reply before its next call
          Faults          \* "boot", "connection", "query", "driver", "pipeline"

ASSUME ProcessAssumption ==
    /\ None \notin Requests
    /\ Threads \in Nat \ {0}
    /\ MaxBoots \in Nat \ {0}
    /\ CallerWaits \in BOOLEAN

VARIABLES
    phase,                 \* how far main has come
    boot,                  \* the number of this process: its boot_timestamp
    workers,               \* how many workers workers_map holds
    container_heartbeat,   \* the row of each container and the age of its heartbeat
    worker_container,      \* how many worker rows each container has
    beat,                  \* the heartbeat thread
    present,               \* participant_meeting: the row of each participant
    lock_map,              \* holder of the mutex of each participant
    request                \* requests in progress

lifecycle == <<phase, boot, workers, container_heartbeat, worker_container>>
serving == <<present, lock_map, request>>
vars == <<lifecycle, beat, serving, events>>

Boots == 1 .. MaxBoots
Workers == 2

NoRequest == [pc |-> "idle", p |-> None, m |-> None, i |-> None]
Steps == {"jn_lock", "jn_tx", "jn_push", "jn_rest", "lv_tx", "lv_close", "lv_push"}
Pushing == {"jn_push", "lv_push"}
Request == {NoRequest}
    \cup [pc : Steps, p : Participants, m : Meetings, i : Instances]

Init ==
    /\ phase = "down" /\ boot = 0 /\ workers = 0
    /\ container_heartbeat = [b \in Boots |-> "absent"]
    /\ worker_container = [b \in Boots |-> 0]
    /\ beat = "none"
    /\ present = [p \in Participants |-> None]
    /\ lock_map = [p \in Participants |-> None]
    /\ request = [r \in Requests |-> NoRequest]
    /\ EventsInit

-----------------------------------------------------------------------------
(* Start and shutdown *)

\* main ends, by its return or a panic, and with it every thread, map and request.
EndProcess ==
    /\ phase' = "down" /\ workers' = 0
    /\ beat' = "none"
    /\ lock_map' = [p \in Participants |-> None]
    /\ request' = [r \in Requests |-> NoRequest]
    /\ LoseEvents

Panics ==
    /\ "boot" \in Faults
    /\ EndProcess
    /\ UNCHANGED <<boot, container_heartbeat, worker_container, present>>

\* Configuration, credentials, the pool of connections, metrics, the tenant and the
\* client of the analytics service: what is missing panics.
Configure ==
    /\ phase = "down" /\ boot < MaxBoots
    /\ boot' = boot + 1
    /\ phase' \in {"workers"} \cup (IF "boot" \in Faults THEN {"down"} ELSE {})
    /\ UNCHANGED <<workers, container_heartbeat, worker_container, beat, serving, events>>

CreateWorker ==
    /\ phase = "workers" /\ workers < Workers
    /\ \/ /\ workers' = workers + 1
          /\ UNCHANGED <<phase, boot, container_heartbeat, worker_container, beat, serving, events>>
       \/ Panics

\* Mutant: an error of the first transaction is only logged.
RegisterOrGoOn ==
    /\ phase = "workers" /\ workers = Workers
    /\ phase' = "registered"
    /\ \/ /\ container_heartbeat' = [container_heartbeat EXCEPT ![boot] = "fresh"]
          /\ worker_container' = [worker_container EXCEPT ![boot] = workers]
       \/ "boot" \in Faults /\ UNCHANGED <<container_heartbeat, worker_container>>
    /\ beat' = "running"
    /\ receiver' = Waiting
    /\ UNCHANGED <<boot, workers, serving, channel, announced, view>>

\* The container and its workers are recorded in one transaction; its failure panics.
RegisterContainer ==
    /\ phase = "workers" /\ workers = Workers
    /\ \/ /\ phase' = "registered"
          /\ container_heartbeat' = [container_heartbeat EXCEPT ![boot] = "fresh"]
          /\ worker_container' = [worker_container EXCEPT ![boot] = workers]
          /\ beat' = "running"
          /\ receiver' = Waiting
          /\ UNCHANGED <<boot, workers, serving, channel, announced, view>>
       \/ Panics

Listen ==
    /\ phase = "registered"
    /\ \/ /\ phase' = "serving"
          /\ UNCHANGED <<boot, workers, container_heartbeat, worker_container, beat,
                         serving, events>>
       \/ Panics

\* shutdown_signal: no new requests; shutdown_handler does nothing.
ShutdownSignal ==
    /\ phase = "serving"
    /\ phase' = "draining"
    /\ UNCHANGED <<boot, workers, container_heartbeat, worker_container, beat, serving, events>>

\* axum::serve returns once the requests in progress are answered, and main with it.
Exit ==
    /\ phase = "draining"
    /\ \A r \in Requests : request[r] = NoRequest
    /\ EndProcess
    /\ UNCHANGED <<boot, container_heartbeat, worker_container, present>>

-----------------------------------------------------------------------------
(* The heartbeat thread.  An action is one round of its loop: the row is fresh if *)
(* the last round wrote it, and no longer when the round after it did not.        *)

HeartbeatOk ==
    /\ beat = "running"
    /\ container_heartbeat' = [container_heartbeat EXCEPT ![boot] = "fresh"]
    /\ UNCHANGED <<phase, boot, workers, worker_container, beat, serving, events>>

\* A round that does not write leaves the thread in state `next`.
Misses(fault, next) ==
    /\ beat = "running"
    /\ fault \in Faults
    /\ container_heartbeat' = [container_heartbeat EXCEPT ![boot] = "stale"]
    /\ beat' = next
    /\ UNCHANGED <<phase, boot, workers, worker_container, serving, events>>

\* Mutant: the loop is left on an error.
HeartbeatStops == Misses("connection", "none")

\* No connection, no transaction or no commit: update returns Err, which is logged.
HeartbeatErr == Misses("connection", "running")

\* The statement itself fails: update unwraps it and the thread panics.
HeartbeatPanics == Misses("query", "panicked")

\* The heartbeat of a container that nobody writes grows old.
HeartbeatAges(b) ==
    /\ b # boot \/ beat = "none"
    /\ container_heartbeat[b] = "fresh"
    /\ container_heartbeat' = [container_heartbeat EXCEPT ![b] = "stale"]
    /\ UNCHANGED <<phase, boot, workers, worker_container, beat, serving, events>>

-----------------------------------------------------------------------------
(* Requests.  A request that runs needs a worker thread; those that wait for a   *)
(* mutex or for mediasoup need none, those that push an event keep theirs.       *)

ThreadFor(r) ==
    Cardinality({o \in Requests \ {r} : request[o].pc \in Pushing}) < Threads

Go(r, step) == request' = [request EXCEPT ![r].pc = step]

\* The handler returns or panics; its guard is dropped.
Done(r) ==
    /\ request' = [request EXCEPT ![r] = NoRequest]
    /\ lock_map' = [p \in Participants |-> IF lock_map[p] = r THEN None ELSE lock_map[p]]

\* A call of instance i, unless it waits for a reply.
Call(r, step) ==
    /\ phase = "serving"
    /\ ThreadFor(r)
    /\ request[r] = NoRequest
    /\ \E p \in Participants, m \in Meetings, i \in Instances :
          /\ CallerWaits => \A o \in Requests : request[o].p # p \/ request[o].i # i
          /\ request' = [request EXCEPT ![r] = [pc |-> step, p |-> p, m |-> m, i |-> i]]
    /\ UNCHANGED <<lifecycle, beat, present, lock_map, events>>

CallJoin(r) == Call(r, "jn_lock")
CallLeave(r) == Call(r, "lv_tx")

\* Mutant: the helper takes no mutex.
JoinNoLock(r) ==
    /\ request[r].pc = "jn_lock" /\ ThreadFor(r)
    /\ Go(r, "jn_tx")
    /\ UNCHANGED <<lifecycle, beat, present, lock_map, events>>

JoinLock(r) ==
    /\ request[r].pc = "jn_lock" /\ ThreadFor(r)
    /\ lock_map[request[r].p] = None
    /\ lock_map' = [lock_map EXCEPT ![request[r].p] = r]
    /\ Go(r, "jn_tx")
    /\ UNCHANGED <<lifecycle, beat, present, events>>

\* remove_and_add_participant_to_meeting: another instance in this meeting is
\* superseded; a row of another meeting is a duplicate, which is ignored.
JoinTx(r) ==
    LET q   == request[r]
        row == present[q.p]
    IN
    /\ q.pc = "jn_tx" /\ ThreadFor(r)
    /\ \/ /\ present' = [present EXCEPT ![q.p] =
                             IF row = None \/ row.m = q.m THEN [m |-> q.m, i |-> q.i] ELSE @]
          /\ Go(r, "jn_push")
          /\ UNCHANGED lock_map
       \/ "driver" \in Faults /\ Done(r) /\ UNCHANGED present
    /\ UNCHANGED <<lifecycle, beat, events>>

EventOf(q, type) == [type |-> type, p |-> q.p, m |-> q.m, i |-> q.i]

JoinPush(r) ==
    /\ request[r].pc = "jn_push"
    /\ push_user_session_event(EventOf(request[r], "JOIN"))
    /\ Go(r, "jn_rest")
    /\ UNCHANGED <<lifecycle, beat, present, lock_map>>

\* What the helpers do to close the old instance and to make the transport.
JoinRest(r) ==
    /\ request[r].pc = "jn_rest" /\ ThreadFor(r)
    /\ Done(r)
    /\ UNCHANGED <<lifecycle, beat, present, events>>

\* leave_meeting deletes the row of this instance; none, or an error, ends it.
LeaveTx(r) ==
    LET q == request[r] IN
    /\ q.pc = "lv_tx" /\ ThreadFor(r)
    /\ \/ /\ present[q.p] = [m |-> q.m, i |-> q.i]
          /\ present' = [present EXCEPT ![q.p] = None]
          /\ Go(r, "lv_close")
          /\ UNCHANGED lock_map
       \/ /\ present[q.p] # [m |-> q.m, i |-> q.i] \/ "driver" \in Faults
          /\ Done(r)
          /\ UNCHANGED present
    /\ UNCHANGED <<lifecycle, beat, events>>

\* The maps are cleared; a pipeline that fails ends the request with an error.
LeaveClose(r) ==
    /\ request[r].pc = "lv_close" /\ ThreadFor(r)
    /\ \/ Go(r, "lv_push") /\ UNCHANGED lock_map
       \/ "pipeline" \in Faults /\ Done(r)
    /\ UNCHANGED <<lifecycle, beat, present, events>>

LeavePush(r) ==
    /\ request[r].pc = "lv_push"
    /\ push_user_session_event(EventOf(request[r], "LEAVE"))
    /\ Done(r)
    /\ UNCHANGED <<lifecycle, beat, present>>

\* end_meeting deletes the rows of every participant and announces nothing.
EndMeeting(m) ==
    /\ phase \in {"serving", "draining"}
    /\ Cardinality({o \in Requests : request[o].pc \in Pushing}) < Threads
    /\ \E p \in Participants : present[p] # None /\ present[p].m = m
    /\ present' = [p \in Participants |->
          IF present[p] # None /\ present[p].m = m THEN None ELSE present[p]]
    /\ UNCHANGED <<lifecycle, beat, lock_map, request, events>>

Step(r) ==
    \/ JoinLock(r) \/ JoinTx(r) \/ JoinPush(r) \/ JoinRest(r)
    \/ LeaveTx(r) \/ LeaveClose(r) \/ LeavePush(r)

ReceivingTask == (Receive \/ PostHeard \/ PostRefused \/ PostFails) /\ UNCHANGED <<lifecycle, beat, serving>>

Heartbeat == HeartbeatOk \/ HeartbeatErr \/ HeartbeatPanics

Lifecycle ==
    \/ Configure \/ CreateWorker \/ RegisterContainer \/ Listen
    \/ ShutdownSignal \/ Exit

Next ==
    \/ Lifecycle
    \/ Heartbeat
    \/ \E b \in Boots : HeartbeatAges(b)
    \/ \E r \in Requests : CallJoin(r) \/ CallLeave(r) \/ Step(r)
    \/ \E m \in Meetings : EndMeeting(m)
    \/ ReceivingTask

Spec == Init /\ [][Next]_vars

\* Tasks that can run do run in the end: the scheduler starves no request that is
\* again and again able to go on, the analytics service answers or the connection to
\* it fails, and the database is not unreachable for ever.
Fairness ==
    /\ \A r \in Requests : SF_vars(Step(r))
    /\ WF_vars(ReceivingTask)
    /\ WF_vars(HeartbeatOk)

FairSpec == Spec /\ Fairness

-----------------------------------------------------------------------------
(* Properties *)

\* Type correctness, and the channel keeps to its capacity.
ProcessTypeOK ==
    /\ phase \in {"down", "workers", "registered", "serving", "draining"}
    /\ boot \in 0 .. MaxBoots /\ workers \in 0 .. Workers
    /\ container_heartbeat \in [Boots -> {"absent", "fresh", "stale"}]
    /\ worker_container \in [Boots -> 0 .. Workers]
    /\ beat \in {"none", "running", "panicked"}
    /\ present \in [Participants -> {None} \cup [m : Meetings, i : Instances]]
    /\ lock_map \in [Participants -> Requests \cup {None}]
    /\ request \in [Requests -> Request]
    /\ EventsTypeOK

\* Whoever is recorded in a meeting was announced there: the last JOIN sent for the
\* participant in that meeting is that of the recorded instance, and no LEAVE of it
\* followed.  Only between the commit of a join and the end of its send, which may
\* block on a full channel, is the announcement behind: the mutex of the participant
\* keeps joins in the order of their commits.
PresenceIsAnnounced ==
    \A p \in Participants :
        \/ present[p] = None
        \/ announced[p][present[p].m] = [join |-> present[p].i, left |-> FALSE]
        \/ \E r \in Requests :
              /\ request[r].pc = "jn_push"
              /\ request[r].p = p /\ request[r].m = present[p].m

\* Once the channel is drained, and unless an event was given up after its attempts,
\* was refused or was lost with the process, the analytics service knows exactly what
\* was announced: retries and lost answers neither reorder events nor bring one back.
AnalyticsAgrees ==
    channel = <<>> /\ receiver.pc # "post" => view \in {announced, None}

\* A process serves only under a container that is recorded with all its workers:
\* the control plane finds the container before its first request, and what failed
\* before does not leave one that serves unrecorded.
ServesRegistered ==
    phase \in {"serving", "draining"} =>
        /\ container_heartbeat[boot] # "absent"
        /\ worker_container[boot] = workers /\ workers = Workers

\* Every request is answered, though sends block threads and hold mutexes when the
\* channel is full.
EveryCallReturns ==
    \A r \in Requests : request[r] # NoRequest ~> request[r] = NoRequest

\* The heartbeat of a process that serves is renewed again and again, whatever errors
\* of the connection come between: only the panic of a failed statement ends it.
HeartbeatGoesOn ==
    []<>(\/ phase \notin {"serving", "draining"}
         \/ container_heartbeat[boot] = "fresh"
         \/ beat = "panicked")

\* MySql::update: "Any error during preparation or execution results in a rollback
\* and a DBError return value": the thread that calls it goes on.
HeartbeatSurvives == beat # "panicked"
=============================================================================
