------------------------------ MODULE MCErasure ------------------------------
(* Instances of Erasure for TLC.                                             *)
EXTENDS Erasure, TLC

CONSTANTS id1, id2, s1, s2

OwnName == Workers
OwnWorkerId == [w \in Workers |-> w]

\* A keyring and its rotation: the old key is kept.
Rotation ==
  {[active |-> id1, secrets |-> id1 :> s1],
   [active |-> id2, secrets |-> (id1 :> s1) @@ (id2 :> s2)]}

OneKeyring == {[active |-> id1, secrets |-> id1 :> s1]}
==============================================================================
