-------------------------- MODULE MeetingHandlers ---------------------------
(***************************************************************************)
(* createMeeting, replaceMeetings and endMeeting: a meeting and its        *)
(* routers.  None of them takes a lock of lock_map.                        *)
(***************************************************************************)
EXTENDS SfuState

(* create_meeting_and_routers_on_workers, batch_create_router_on_worker *)

\* Routers are created on the workers before anything is recorded; they are
\* dropped, and so closed, when the handler ends early.
CreateRouters(r, step, next) ==
    /\ pc[r] = step
    /\ \/ \E R \in SUBSET FreshRouters \ {{}} :
             Continue(r, next, [local[r] EXCEPT !.routers = R])
       \/ MediasoupFails(FreshRouters) /\ Done(r)
    /\ UNCHANGED <<db, memory>>

\* A duplicate meeting is reported as success ("Meeting already exists") and,
\* like an error, leaves routers_map alone.
RegisterRouters(r, step, tx) ==
    /\ pc[r] = step
    /\ \E out \in Outcomes(tx) :
          /\ db' = out.db
          /\ \/ out.error = NoError /\ Continue(r, "mk_publish", local[r])
             \/ out.error # NoError /\ Done(r)
    /\ UNCHANGED memory

CreateMeeting(r) ==
    \/ CreateRouters(r, "cm_routers", "cm_register")
    \/ RegisterRouters(r, "cm_register",
                       CreateMeetingTx(db, call[r].m, local[r].routers))

ReplaceMeeting(r) ==
    \/ CreateRouters(r, "rm_routers", "rm_register")
    \/ RegisterRouters(r, "rm_register",
                       ReplaceMeetingTx(db, call[r].m, local[r].routers))

\* routers_map.extend(router_map_temp), the last step of both.
PublishRouters(r) ==
    /\ pc[r] = "mk_publish"
    /\ routers_map' = routers_map \cup local[r].routers
    /\ Done(r)
    /\ UNCHANGED <<db, transport_map, producer_map, consumer_map, recordings>>

(* end_meeting *)

EndDelete(r) ==
    /\ pc[r] = "em_delete"
    /\ \E out \in Outcomes(EndMeetingTx(db, call[r].m)) :
          /\ db' = out.db
          /\ \/ out.error = NoError /\ Continue(r, "em_routers", local[r])
             \/ out.error # NoError /\ Done(r)
    /\ UNCHANGED memory

EndRouters(r) ==
    /\ pc[r] = "em_routers"
    /\ routers_map' = routers_map \ call[r].ids
    /\ Continue(r, "em_transports", local[r])
    /\ UNCHANGED <<db, transport_map, producer_map, consumer_map, recordings>>

EndTransports(r) ==
    /\ pc[r] = "em_transports"
    /\ transport_map' = {x \in transport_map : x.id \notin call[r].ids}
    /\ Continue(r, "em_consumers_read", local[r])
    /\ UNCHANGED <<db, routers_map, producer_map, consumer_map, recordings>>

EndReadConsumers(r) ==
    /\ pc[r] = "em_consumers_read"
    /\ Continue(r, "em_consumers_close",
                [local[r] EXCEPT !.consumers = get_all_consumers_for_meeting(call[r].m)])
    /\ UNCHANGED <<db, memory>>

EndCloseConsumers(r) ==
    /\ pc[r] = "em_consumers_close"
    /\ close_all_consumers_in_memory(local[r].consumers, call[r].m)
    /\ Continue(r, "em_producers_read", [local[r] EXCEPT !.consumers = {}])
    /\ UNCHANGED <<db, routers_map, transport_map, producer_map, recordings>>

EndReadProducers(r) ==
    /\ pc[r] = "em_producers_read"
    /\ Continue(r, "em_producers_close",
                [local[r] EXCEPT !.producers = get_all_producers_for_meeting(call[r].m)])
    /\ UNCHANGED <<db, memory>>

\* The last step.  The pipeline is then stopped, but it is a clone of
\* pipeline_map that its entry is removed from: pipeline_map does not change.
EndCloseProducers(r) ==
    /\ pc[r] = "em_producers_close"
    /\ call[r].listed \/ {x \in producer_map : x.id \in local[r].producers} = {}
    /\ close_all_producers_in_memory(local[r].producers)
    /\ Done(r)
    /\ UNCHANGED <<db, routers_map, transport_map, consumer_map, pipeline_map>>

\* The detail of each removed producer names participant_ids[0]: with an empty
\* list the first removal panics, before its recording entries are removed.
EndCloseProducersPanics(r) ==
    /\ pc[r] = "em_producers_close"
    /\ ~call[r].listed
    /\ \E x \in {y \in producer_map : y.id \in local[r].producers} :
          producer_map' = producer_map \ {x}
    /\ Done(r)
    /\ UNCHANGED <<db, routers_map, transport_map, consumer_map, recordings>>

EndMeeting(r) ==
    \/ EndDelete(r)
    \/ EndRouters(r)
    \/ EndTransports(r)
    \/ EndReadConsumers(r)
    \/ EndCloseConsumers(r)
    \/ EndReadProducers(r)
    \/ EndCloseProducers(r)
    \/ EndCloseProducersPanics(r)
=============================================================================
