---------------------------- MODULE MCRecording ----------------------------
(* Instances of Recording for TLC.                                          *)
EXTENDS Recording, TLC

CONSTANT TheId, Here

\* Every cleanup worker claims under one name, as processes that report the same
\* host name and process id do.
OneName == {TheId}
OneCleanerName == [w \in Cleaners |-> TheId]

\* Everything runs in one process.
OneProcess == {Here}
OneHome == [a \in Uploads \cup Cleaners |-> Here]

Interchangeable ==
  Permutations(Uploads) \cup Permutations(Cleaners) \cup Permutations(Requests)
    \cup Permutations(Contents)
=============================================================================
