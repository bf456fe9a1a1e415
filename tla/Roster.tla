------------------------------- MODULE Roster -------------------------------
(***************************************************************************)
(* What the database of the media server promises its readers (the         *)
(* signalling service, other containers), without transports, routers or   *)
(* handlers: who is in which meeting under which instance, what they       *)
(* publish and whom they consume.  Every change is one atomic step.        *)
(***************************************************************************)
CONSTANTS Meetings, Participants, Instances, Kinds, ProducerIds, ConsumerIds

VARIABLES meetings,    \* the meetings that exist
          present,     \* [p, m, i]: instance i of participant p is in meeting m
          published,   \* [id, p, kind, m]: p publishes producer id in m
          subscribed   \* [id, p, target, kind]: p consumes this kind of target

rosterVars == <<meetings, present, published, subscribed>>

Presence     == [p : Participants, m : Meetings, i : Instances]
Publication  == [id : ProducerIds, p : Participants, kind : Kinds, m : Meetings]
Subscription == [id : ConsumerIds, p : Participants, target : Participants, kind : Kinds]

RosterTypeOK ==
    /\ meetings \subseteq Meetings
    /\ present \subseteq Presence
    /\ published \subseteq Publication
    /\ subscribed \subseteq Subscription

RosterInit == meetings = {} /\ present = {} /\ published = {} /\ subscribed = {}

In(p, m) == \E x \in present : x.p = p /\ x.m = m
Somewhere(p) == \E x \in present : x.p = p

\* The participants P go, with all they publish, all they consume and all that
\* others consume of them; then the presences New appear.
Depart(P, New) ==
    /\ present' = {x \in present : x.p \notin P} \cup New
    /\ published' = {x \in published : x.p \notin P}
    /\ subscribed' = {x \in subscribed : x.p \notin P /\ x.target \notin P}

Everyone(m) == {p \in Participants : In(p, m)}

Open(m) ==
    /\ m \notin meetings
    /\ meetings' = meetings \cup {m}
    /\ UNCHANGED <<present, published, subscribed>>

\* The meeting starts over: nobody is in it.
Replace(m) == meetings' = meetings \cup {m} /\ Depart(Everyone(m), {})

End(m) == meetings' = meetings \ {m} /\ Depart(Everyone(m), {})

\* An instance enters a meeting; another instance of the participant in that
\* meeting is superseded in the same step.
Join(p, m, i) ==
    /\ m \in meetings
    /\ Somewhere(p) => In(p, m)
    /\ [p |-> p, m |-> m, i |-> i] \notin present
    /\ Depart({p}, {[p |-> p, m |-> m, i |-> i]})
    /\ UNCHANGED meetings

\* Only the instance that is in the meeting can leave it.
Leave(p, m, i) ==
    /\ [p |-> p, m |-> m, i |-> i] \in present
    /\ Depart({p}, {})
    /\ UNCHANGED meetings

Publish(x) ==
    /\ In(x.p, x.m)
    /\ \A y \in published : y.id # x.id
    /\ published' = published \cup {x}
    /\ UNCHANGED <<meetings, present, subscribed>>

Unpublish(p, ids) ==
    /\ published' = {x \in published : ~(x.p = p /\ x.id \in ids)}
    /\ UNCHANGED <<meetings, present, subscribed>>

Subscribe(New) ==
    /\ \A x \in New :
          /\ Somewhere(x.p) /\ Somewhere(x.target)
          /\ \A y \in subscribed : ~(x.p = y.p /\ x.target = y.target /\ x.kind = y.kind)
    /\ subscribed' = subscribed \cup New
    /\ UNCHANGED <<meetings, present, published>>

Unsubscribe(ids) ==
    /\ subscribed' = {x \in subscribed : x.id \notin ids}
    /\ UNCHANGED <<meetings, present, published>>

RosterNext ==
    \/ \E m \in Meetings : Open(m) \/ Replace(m) \/ End(m)
    \/ \E p \in Participants, m \in Meetings, i \in Instances : Join(p, m, i) \/ Leave(p, m, i)
    \/ \E x \in Publication : Publish(x)
    \/ \E p \in Participants, ids \in SUBSET ProducerIds : Unpublish(p, ids)
    \/ \E New \in SUBSET Subscription : Subscribe(New)
    \/ \E ids \in SUBSET ConsumerIds : Unsubscribe(ids)

RosterSpec == RosterInit /\ [][RosterNext]_rosterVars
=============================================================================
