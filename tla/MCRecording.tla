---------------------------- MODULE MCRecording -----------------------------
(* Instances of Recording for TLC. *)
EXTENDS Recording, TLC

RecordingSymmetry ==
    Permutations(Gstreamers) \cup Permutations(Sources) \cup Permutations(Requests)
        \cup Permutations(Participants)
=============================================================================
