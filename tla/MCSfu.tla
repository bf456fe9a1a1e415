------------------------------- MODULE MCSfu --------------------------------
(* Model values and symmetry for the runs of Sfu. *)
EXTENDS Sfu, TLC

\* Every meeting hashes to the same shard: the shard two meetings share.
OneShard == [m \in Meetings |-> 0]

\* Requests and the identifiers mediasoup issues are interchangeable.
Symmetry == Permutations(Requests) \cup Permutations(Transports)
            \cup Permutations(ProducerIds) \cup Permutations(ConsumerIds)
=============================================================================
