------------------------ MODULE ParticipantHandlers -------------------------
(***************************************************************************)
(* recreateProducerTransport, recreateConsumerTransport and leaveMeeting:  *)
(* how an instance of a participant enters a meeting, supersedes another   *)
(* instance, and leaves.  The two recreate helpers run under the mutex of  *)
(* the participant; leave_meeting takes no lock.                           *)
(***************************************************************************)
EXTENDS SfuState

(* recreate_producer_transport_helper, recreate_consumer_transport_helper:
   call[r].kind says which. *)

RecreateLock(r) == pc[r] = "rt_lock" /\ Acquire(r, call[r].p, "rt_join")

\* remove_and_add_participant_to_meeting: any duplicate key means that the user
\* is not new.
RecreateJoin(r) ==
    LET c == call[r] IN
    /\ pc[r] = "rt_join"
    /\ \E out \in Outcomes(JoinTx(db, c.p, c.m, c.i, c.kind, c.router)) :
          /\ db' = out.db
          /\ \/ /\ out.error = NoError
                /\ Continue(r, "rt_own_read", [local[r] EXCEPT !.new_user = ~out.duplicate])
             \/ out.error # NoError /\ Done(r)
    /\ UNCHANGED memory

RecreateReadOwn(r) ==
    LET c == call[r] IN
    /\ pc[r] = "rt_own_read"
    /\ Continue(r, "rt_own_close",
                [local[r] EXCEPT !.consumers =
                     get_participant_consumers_excluding_instance(c.p, c.m, c.i)])
    /\ UNCHANGED <<db, memory>>

RecreateCloseOwn(r) ==
    /\ pc[r] = "rt_own_close"
    /\ close_all_consumers_in_memory(local[r].consumers, call[r].m)
    /\ Continue(r, "rt_producers_read", [local[r] EXCEPT !.consumers = {}])
    /\ UNCHANGED <<db, routers_map, transport_map, producer_map, recordings>>

RecreateReadProducers(r) ==
    LET c == call[r] IN
    /\ pc[r] = "rt_producers_read"
    /\ Continue(r, "rt_dependents_read",
                [local[r] EXCEPT !.producers =
                     get_participant_producers_excluding_instance(c.p, c.m, c.i)])
    /\ UNCHANGED <<db, memory>>

RecreateReadDependents(r) ==
    /\ pc[r] = "rt_dependents_read"
    /\ Continue(r, "rt_producers_close",
                [local[r] EXCEPT !.dependents =
                     get_consumers_for_producer_ids(local[r].producers, call[r].m)])
    /\ UNCHANGED <<db, memory>>

RecreateCloseProducers(r) ==
    /\ pc[r] = "rt_producers_close"
    /\ close_all_producers_in_memory(local[r].producers)
    /\ Continue(r, "rt_dependents_close", local[r])
    /\ UNCHANGED <<db, routers_map, transport_map, consumer_map, pipeline_map>>

\* Removing the closed producers from the pipeline comes first, and may fail.
RecreateCloseDependents(r) ==
    /\ pc[r] = "rt_dependents_close"
    /\ \/ /\ close_all_consumers_in_memory(local[r].dependents, call[r].m)
          /\ Continue(r, "rt_create", [local[r] EXCEPT !.producers = {}, !.dependents = {}])
       \/ /\ local[r].producers # {} /\ PipelineFails(call[r].m)
          /\ Done(r)
          /\ UNCHANGED consumer_map
    /\ UNCHANGED <<db, routers_map, transport_map, producer_map, recordings>>

\* create_transport: an unknown router panics.
RecreateCreate(r) ==
    /\ pc[r] = "rt_create"
    /\ \/ /\ call[r].router \in routers_map
          /\ \E t \in FreshTransports :
                Continue(r, "rt_register", [local[r] EXCEPT !.transport = t])
       \/ /\ call[r].router \notin routers_map \/ MediasoupFails(FreshTransports)
          /\ Done(r)
    /\ UNCHANGED <<db, memory>>

RecreateRegister(r) ==
    /\ pc[r] = "rt_register"
    /\ \E out \in Outcomes(RegisterTransportTx(db, call[r].p, call[r].kind, local[r].transport)) :
          /\ db' = out.db
          /\ \/ out.error = NoError /\ Continue(r, "rt_publish", local[r])
             \/ out.error = DuplicateKey /\ Continue(r, "rt_existing", local[r])
             \/ out.error \in {ForeignKey, DriverFailure} /\ Done(r)
    /\ UNCHANGED memory

\* The old transports the caller named are dropped only for a new user.
RecreatePublish(r) ==
    LET c   == call[r]
        old == IF local[r].new_user THEN c.ids ELSE {}
    IN
    /\ pc[r] = "rt_publish"
    /\ transport_map' =
          {x \in transport_map : x.id \notin old}
          \cup {[id |-> local[r].transport, m |-> c.m, p |-> c.p, kind |-> c.kind]}
    /\ Continue(r, "rt_reply", local[r])
    /\ UNCHANGED <<db, routers_map, producer_map, consumer_map, recordings>>

\* A transport is already registered: any of the participant's in memory is
\* returned, and the one just created is dropped.
RecreateExisting(r) ==
    LET c     == call[r]
        found == {x \in transport_map : x.p = c.p /\ x.m = c.m /\ x.kind = c.kind}
    IN
    /\ pc[r] = "rt_existing"
    /\ \/ \E x \in found : Continue(r, "rt_reply", [local[r] EXCEPT !.transport = x.id])
       \/ found = {} /\ Done(r)
    /\ UNCHANGED <<db, memory>>

\* The reply; that of the consumer helper also lists the meeting's producers, those
\* of p included: MySql::query never runs the query that excludes them.
RecreateReply(r) ==
    /\ pc[r] = "rt_reply"
    /\ Done(r)
    /\ UNCHANGED <<db, memory>>

RecreateTransport(r) ==
    \/ RecreateLock(r)
    \/ RecreateJoin(r)
    \/ RecreateReadOwn(r)
    \/ RecreateCloseOwn(r)
    \/ RecreateReadProducers(r)
    \/ RecreateReadDependents(r)
    \/ RecreateCloseProducers(r)
    \/ RecreateCloseDependents(r)
    \/ RecreateCreate(r)
    \/ RecreateRegister(r)
    \/ RecreatePublish(r)
    \/ RecreateExisting(r)
    \/ RecreateReply(r)

-----------------------------------------------------------------------------
(* leave_meeting *)

\* Nothing more is done when the DELETE affected no row: another instance of
\* the participant, or nobody, is in the meeting.
LeaveDelete(r) ==
    LET c == call[r] IN
    /\ pc[r] = "lv_delete"
    /\ \E out \in Outcomes(LeaveTx(db, c.p, c.m, c.i)) :
          /\ db' = out.db
          /\ \/ /\ out.error = NoError /\ LeaveAffectsRows(db, c.p, c.m, c.i)
                /\ Continue(r, "lv_transports", local[r])
             \/ /\ out.error # NoError \/ ~LeaveAffectsRows(db, c.p, c.m, c.i)
                /\ Done(r)
    /\ UNCHANGED memory

\* Mutant of LeaveTransports: every transport of the participant in the meeting goes,
\* not the ones the caller named.
LeaveAllTransports(r) ==
    /\ pc[r] = "lv_transports"
    /\ transport_map' = {x \in transport_map : ~(x.p = call[r].p /\ x.m = call[r].m)}
    /\ Continue(r, "lv_own_read", local[r])
    /\ UNCHANGED <<db, routers_map, producer_map, consumer_map, recordings>>

LeaveTransports(r) ==
    /\ pc[r] = "lv_transports"
    /\ transport_map' = {x \in transport_map : x.id \notin call[r].ids}
    /\ Continue(r, "lv_own_read", local[r])
    /\ UNCHANGED <<db, routers_map, producer_map, consumer_map, recordings>>

LeaveReadOwn(r) ==
    LET c == call[r] IN
    /\ pc[r] = "lv_own_read"
    /\ Continue(r, "lv_own_close",
                [local[r] EXCEPT !.consumers =
                     get_participant_consumers_for_instance_in_meeting(c.p, c.m, c.i)])
    /\ UNCHANGED <<db, memory>>

LeaveCloseOwn(r) ==
    /\ pc[r] = "lv_own_close"
    /\ close_all_consumers_in_memory(local[r].consumers, call[r].m)
    /\ Continue(r, "lv_producers_read", [local[r] EXCEPT !.consumers = {}])
    /\ UNCHANGED <<db, routers_map, transport_map, producer_map, recordings>>

LeaveReadProducers(r) ==
    LET c == call[r] IN
    /\ pc[r] = "lv_producers_read"
    /\ Continue(r, "lv_producers_close",
                [local[r] EXCEPT !.producers =
                     get_participant_producers_for_instance_in_meeting(c.p, c.m, c.i)])
    /\ UNCHANGED <<db, memory>>

LeaveCloseProducers(r) ==
    /\ pc[r] = "lv_producers_close"
    /\ close_all_producers_in_memory(local[r].producers)
    /\ Continue(r, "lv_dependents_read", local[r])
    /\ UNCHANGED <<db, routers_map, transport_map, consumer_map, pipeline_map>>

LeaveReadDependents(r) ==
    /\ pc[r] = "lv_dependents_read"
    /\ \/ Continue(r, "lv_dependents_close",
                   [local[r] EXCEPT !.dependents =
                        get_consumers_for_producer_ids(local[r].producers, call[r].m)])
       \/ local[r].producers # {} /\ PipelineFails(call[r].m) /\ Done(r)
    /\ UNCHANGED <<db, memory>>

LeaveCloseDependents(r) ==
    /\ pc[r] = "lv_dependents_close"
    /\ close_all_consumers_in_memory(local[r].dependents, call[r].m)
    /\ Done(r)
    /\ UNCHANGED <<db, routers_map, transport_map, producer_map, recordings>>

LeaveMeeting(r) ==
    \/ LeaveDelete(r)
    \/ LeaveTransports(r)
    \/ LeaveReadOwn(r)
    \/ LeaveCloseOwn(r)
    \/ LeaveReadProducers(r)
    \/ LeaveCloseProducers(r)
    \/ LeaveReadDependents(r)
    \/ LeaveCloseDependents(r)
=============================================================================
