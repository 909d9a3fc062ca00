------------------------------- MODULE Outbox -------------------------------
(***************************************************************************)
(* What the delivery of approved writes promises, whatever happens on the  *)
(* way: a record is made at most once and only while its write is open; a  *)
(* write is reported delivered only when its record exists and failed only *)
(* when it does not; what is neither stays doubtful until an operator      *)
(* opens it again.                                                         *)
(***************************************************************************)
EXTENDS Naturals

CONSTANT Intents

VARIABLES
  outcome,   \* what is reported of each write
  made       \* how many records exist for it

Init ==
  /\ outcome = [i \in Intents |-> "open"]
  /\ made = [i \in Intents |-> 0]

Report(i, result) == outcome' = [outcome EXCEPT ![i] = result] /\ UNCHANGED made

Make(i) ==
  /\ outcome[i] = "open" /\ made[i] = 0
  /\ made' = [made EXCEPT ![i] = 1]
  /\ UNCHANGED outcome

Deliver(i) == outcome[i] = "open" /\ made[i] = 1 /\ Report(i, "delivered")

Fail(i) == outcome[i] = "open" /\ made[i] = 0 /\ Report(i, "failed")

Doubt(i) == outcome[i] = "open" /\ Report(i, "doubtful")

Reopen(i) == outcome[i] \in {"failed", "doubtful"} /\ Report(i, "open")

Next == \E i \in Intents : Make(i) \/ Deliver(i) \/ Fail(i) \/ Doubt(i) \/ Reopen(i)

Spec == Init /\ [][Next]_<<outcome, made>>
=============================================================================
