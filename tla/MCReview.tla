------------------------------ MODULE MCReview ------------------------------
(* Instances of Review for TLC.                                             *)
EXTENDS Review

CONSTANTS a1, i1, t1, t2, k1, k2

Drafted(dated, status) ==
  [recap |-> t1, action |-> [a \in {a1} |-> [text |-> t1, dated |-> dated, human |-> FALSE]],
   deliver |-> {<<a1, "task">>} \cup (IF dated THEN {<<a1, "calendar">>} ELSE {}),
   issue |-> [i \in {i1} |-> status]]

\* A draft that may be approved as it is, and one with an open blocking issue.
TwoDrafts == {Drafted(FALSE, "absent"), Drafted(TRUE, "open")}

\* Another title and no deadline, the issue closed, and the task switched off
\* and on again, which brings a content back.
SomeCommands ==
  {[op |-> "action", action |-> a1, text |-> t2, dated |-> FALSE, recap |-> t2],
   [op |-> "issue", issue |-> i1, to |-> "resolved"],
   [op |-> "delivery", action |-> a1, kind |-> "task", enabled |-> FALSE],
   [op |-> "delivery", action |-> a1, kind |-> "task", enabled |-> TRUE],
   [op |-> "approve", key |-> k1], [op |-> "approve", key |-> k2]}

Interchangeable == Permutations(Clients)
=============================================================================
