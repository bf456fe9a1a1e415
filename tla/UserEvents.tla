----------------------------- MODULE UserEvents -----------------------------
(***************************************************************************)
(* The JOIN and LEAVE events of user sessions: the bounded channel between *)
(* the request handlers and the task that posts to the analytics service   *)
(* (UserChannel, push_user_session_event, receive_and_send_user_event and  *)
(* client/mod.rs).                                                         *)
(*                                                                         *)
(* The channel is a std sync_channel: send blocks the thread of the sender *)
(* while it is full.  Its receiver lives in Inner, so send never fails.    *)
(* The one receiving task takes the events in order and posts each, up to  *)
(* Retries times: only a transport error is tried again, an answer with an *)
(* error status is logged and the event forgotten.                         *)
(***************************************************************************)
EXTENDS Naturals, Sequences, FiniteSets

CONSTANTS Participants, Meetings, Instances, None,
          Capacity,       \* user_event_channel_count
          PostFaults      \* how posts may go wrong: "transport", "refused"

ASSUME UserEventsAssumption ==
    /\ None \notin Participants \cup Meetings \cup Instances
    /\ Capacity \in Nat

VARIABLES
    channel,     \* the events in the channel
    receiver,    \* the receiving task and the event it posts
    announced,   \* history: what the events sent tell of each participant and meeting
    view         \* what the service heard of them; None once an event did not reach it

events == <<channel, receiver, announced, view>>

Retries == 3

Event == [type : {"JOIN", "LEAVE"}, p : Participants, m : Meetings, i : Instances]

\* The instance that joined last, and whether it left again.
Session == [join : Instances \cup {None}, left : BOOLEAN]
NoSession == [join |-> None, left |-> FALSE]
Sessions == [Participants -> [Meetings -> Session]]
NoSessions == [p \in Participants |-> [m \in Meetings |-> NoSession]]

NoTask == [pc |-> "none", event |-> None, attempt |-> 0]
Waiting == [pc |-> "recv", event |-> None, attempt |-> 0]
Task == {NoTask, Waiting}
          \cup [pc : {"post"}, event : Event, attempt : 0 .. Retries - 1]

EventsInit ==
    /\ channel = <<>>
    /\ receiver = NoTask
    /\ announced = NoSessions
    /\ view = NoSessions

EventsTypeOK ==
    /\ channel \in Seq(Event)
    /\ Len(channel) <= IF Capacity = 0 THEN 1 ELSE Capacity
    /\ receiver \in Task
    /\ announced \in Sessions
    /\ view \in Sessions \cup {None}

\* What a session is known to be once event e of it is heard: a LEAVE of an instance
\* that was superseded says nothing of its successor.
After(s, e) ==
    IF e.type = "JOIN" THEN [join |-> e.i, left |-> FALSE]
    ELSE [s EXCEPT !.left = @ \/ s.join = e.i]

Hear(sessions, e) == [sessions EXCEPT ![e.p][e.m] = After(@, e)]

-----------------------------------------------------------------------------
(* Sending *)

\* send returns at once: with no buffer, only to a receiver that waits.
Room ==
    \/ Len(channel) < Capacity
    \/ Capacity = 0 /\ channel = <<>> /\ receiver = Waiting

\* Mutant: the channel has no bound.
push_unbounded(e) ==
    /\ channel' = Append(channel, e)
    /\ announced' = Hear(announced, e)
    /\ UNCHANGED <<receiver, view>>

\* push_user_session_event: the sender blocks until there is room.
push_user_session_event(e) ==
    /\ Room
    /\ channel' = Append(channel, e)
    /\ announced' = Hear(announced, e)
    /\ UNCHANGED <<receiver, view>>

-----------------------------------------------------------------------------
(* Receiving: receive_and_send_user_event *)

Receive ==
    /\ receiver = Waiting
    /\ channel # <<>>
    /\ receiver' = [pc |-> "post", event |-> Head(channel), attempt |-> 0]
    /\ channel' = Tail(channel)
    /\ UNCHANGED <<view, announced>>

\* Mutant: an event that could not be posted is put back into the channel.
RetryLater ==
    /\ receiver' = Waiting
    /\ channel' = Append(channel, receiver.event)

\* Mutant: the attempts are counted but not limited.
RetryForever ==
    /\ receiver' = [receiver EXCEPT !.attempt = (@ + 1) % Retries]
    /\ UNCHANGED channel

\* send_event returned Err: the next attempt, or the event is given up.
Retry ==
    /\ receiver' = IF receiver.attempt + 1 < Retries
                   THEN [receiver EXCEPT !.attempt = @ + 1]
                   ELSE Waiting
    /\ UNCHANGED channel

\* send_event returned Ok: the next event, whatever the status of the answer.
NextEvent == receiver' = Waiting /\ UNCHANGED channel

\* The event was posted and the service heard of it: its answer says so, or is lost
\* and a transport error returned in its place.
PostHeard ==
    /\ receiver.pc = "post"
    /\ view' = IF view = None THEN None ELSE Hear(view, receiver.event)
    /\ \/ NextEvent
       \/ "transport" \in PostFaults /\ Retry
    /\ UNCHANGED announced

\* The service answered with an error status.
PostRefused ==
    /\ receiver.pc = "post"
    /\ "refused" \in PostFaults
    /\ view' = None
    /\ NextEvent
    /\ UNCHANGED announced

\* The service was not reached.
PostFails ==
    /\ receiver.pc = "post"
    /\ "transport" \in PostFaults
    /\ Retry
    /\ view' = IF receiver' = Waiting THEN None ELSE view
    /\ UNCHANGED announced

\* The process ends: the channel and the task are gone.
LoseEvents ==
    /\ channel' = <<>>
    /\ receiver' = NoTask
    /\ view' = IF channel = <<>> /\ receiver.pc # "post" THEN view ELSE None
    /\ UNCHANGED announced
=============================================================================
