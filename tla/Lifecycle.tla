------------------------------ MODULE Lifecycle ------------------------------
(***************************************************************************)
(* The two transition tables every use case goes through                   *)
(* (domain/transition_rules.py) and the reduction of a meeting's write     *)
(* intents to its filing status (application/state_machine.py).            *)
(***************************************************************************)

MeetingStatuses ==
  {"ingested", "transcribing", "transcription_failed", "transcribed",
   "extracting", "extraction_failed", "awaiting_approval", "approved",
   "filing", "partially_filed", "filing_failed", "completed", "cancelled"}

WriteStatuses ==
  {"pending", "in_flight", "retry_wait", "unknown", "succeeded",
   "permanent_failed"}

\* What is known of a failure: may it be retried without an operator?
Dispositions == {"retryable", "permanent", "unknown_outcome"}

CanTransitionMeeting(current, target) ==
  \/ current = "ingested" /\ target \in {"transcribing", "cancelled"}
  \/ current = "transcribing" /\ target \in {"transcribed", "transcription_failed"}
  \/ current = "transcription_failed" /\ target \in {"transcribing", "cancelled"}
  \/ current = "transcribed" /\ target \in {"extracting", "cancelled"}
  \/ current = "extracting" /\ target \in {"awaiting_approval", "extraction_failed"}
  \/ current = "extraction_failed" /\ target \in {"extracting", "cancelled"}
  \/ current = "awaiting_approval"
     /\ target \in {"awaiting_approval", "approved", "cancelled"}
  \/ current = "approved" /\ target \in {"filing", "completed"}
  \/ current = "filing"
     /\ target \in {"filing", "partially_filed", "filing_failed", "completed"}
  \/ current \in {"partially_filed", "filing_failed"} /\ target = "filing"

CanTransitionWrite(current, target) ==
  \/ current \in {"pending", "retry_wait"} /\ target = "in_flight"
  \/ current = "in_flight"
     /\ target \in {"succeeded", "retry_wait", "unknown", "permanent_failed"}
  \/ current = "unknown"
     /\ target \in {"succeeded", "retry_wait", "permanent_failed"}
  \/ current = "permanent_failed" /\ target \in {"retry_wait", "unknown"}

\* statuses is the set of the statuses of the meeting's write intents.
DeriveFilingStatus(statuses) ==
  IF statuses = {} THEN "completed"
  ELSE IF statuses \cap {"pending", "in_flight", "retry_wait", "unknown"} # {}
       THEN "filing"
  ELSE IF statuses = {"succeeded"} THEN "completed"
  ELSE IF "succeeded" \in statuses THEN "partially_filed"
  ELSE "filing_failed"
==============================================================================
