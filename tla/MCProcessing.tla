---------------------------- MODULE MCProcessing ----------------------------
(* Instances of Processing for TLC: every worker claims under one owner name, *)
(* as a restarted container does (same host name, same pid).                 *)
EXTENDS Processing, TLC

CONSTANT TheId

MCWorkerIds == {TheId}
MCWorkerId == [w \in Workers |-> TheId]
RetryTranscriptionOnly == [s \in Stages |-> IF s = "transcription" THEN 2 ELSE 1]

Interchangeable == Permutations(Workers) \cup Permutations(Keys)
=============================================================================
