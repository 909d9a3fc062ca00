----------------------------- MODULE MCDelivery -----------------------------
(* Instances of Delivery for TLC.                                           *)
EXTENDS Delivery, TLC

CONSTANT TheId

\* Every delivery loop claims under one name, as replicas that report the same
\* host name and process id do.
OneName == {TheId}
OneWorkerId == [w \in Workers |-> TheId]

\* Every delivery loop has a name of its own.
OwnName == Workers
OwnWorkerId == [w \in Workers |-> w]

BothKinds == {"retry", "reconcile"}

Interchangeable ==
  Permutations(Workers) \cup Permutations(Operators) \cup Permutations(Keys)
    \cup Permutations(Intents)
=============================================================================
