------------------------ MODULE DeliveryOutcomeProofs ------------------------
(***************************************************************************)
(* What delivery reports agrees with what it stored and with what the      *)
(* connector holds: proved of Delivery for every value of its constants,   *)
(* with or without punctual exchanges and whatever the connector does with *)
(* idempotency keys.  And, with punctual exchanges and loops of distinct   *)
(* names: delivery implements Outbox.                                      *)
(***************************************************************************)
EXTENDS DeliveryProofs

(* The statuses that keep a meeting filing. *)
Active == {"pending", "in_flight", "retry_wait", "unknown"}

(* The answers that are the connector's word for its record. *)
Vouching == {"applied", "success", "found"}

Vouches(mem, made) ==
  mem.answer \in Vouching => mem.intent \in Intents /\ made[mem.intent] > 0

(* Whoever goes by such an answer is at work on an intent with a record. *)
Vouched == \A a \in Actors : Vouches(actor[a], records)

(* The inductive invariant. *)
Agreed == Fits /\ ReceiptsAgree /\ FilingFollowsIntents /\ Vouched

(* No record is taken back. *)
RecordsStay == \A i \in Intents : records[i] > 0 => records'[i] > 0

(* The ways in which a step changes the store: one row, never one that has      *)
(* succeeded; a receipt exactly when it succeeds, for a record that exists; and *)
(* the meeting is left filing, made filing again, or reduced.                   *)
Changes(i) ==
  /\ intent[i].status # "succeeded"
  /\ \E row : intent' = [intent EXCEPT ![i] = row]
  /\ receipt' = IF intent'[i].status = "succeeded" THEN receipt \cup {i} ELSE receipt
  /\ intent'[i].status = "succeeded" => records[i] > 0
  /\ \/ /\ intent[i].status \in Active /\ intent'[i].status \in Active
        /\ meeting' = meeting
     \/ /\ intent[i].status = "permanent_failed" /\ intent'[i].status \in Active
        /\ meeting' = Refiled
     \/ meeting' = DeriveFilingStatus(Statuses(intent'))

StoreStep == UNCHANGED store \/ \E i \in Intents : Changes(i)

-----------------------------------------------------------------------------
(* Such a change keeps what the store says.                                *)

(* An intent that is not through keeps the meeting filing. *)
LEMMA ActiveFiles ==
  ASSUME NEW rows, NEW i \in Intents, rows[i].status \in Active
  PROVE  DeriveFilingStatus(Statuses(rows)) = "filing"
<1>1. rows[i].status \in Statuses(rows)
  BY DEF Statuses
<1>2. Statuses(rows) \cap {"pending", "in_flight", "retry_wait", "unknown"} # {}
  BY <1>1 DEF Active
<1> QED
  BY <1>1, <1>2 DEF DeriveFilingStatus

(* A failed intent makes a meeting that does not file partly or wholly failed. *)
LEMMA FailedRefiles ==
  ASSUME FilingFollowsIntents, NEW i \in Intents, intent[i].status = "permanent_failed"
  PROVE  Refiled = "filing"
<1>1. "permanent_failed" \in Statuses(intent)
  BY DEF Statuses
<1>2. Statuses(intent) # {} /\ Statuses(intent) # {"succeeded"}
  BY <1>1
<1>3. meeting \in {"filing", "partially_filed", "filing_failed"}
  BY <1>2 DEF FilingFollowsIntents, DeriveFilingStatus
<1> QED
  BY <1>3 DEF Refiled

LEMMA ChangesKeep ==
  ASSUME Fits, ReceiptsAgree, FilingFollowsIntents, RecordsStay,
         NEW i \in Intents, Changes(i)
  PROVE  ReceiptsAgree' /\ FilingFollowsIntents'
<1>1. PICK row : intent' = [intent EXCEPT ![i] = row]
  BY DEF Changes
<1>2. intent'[i] = row /\ \A j \in Intents \ {i} : intent'[j] = intent[j]
  BY <1>1 DEF Fits, RowsFit
<1>3. ReceiptsAgree'
  BY <1>2 DEF ReceiptsAgree, Changes, RecordsStay
<1>4. FilingFollowsIntents'
  <2>1. CASE /\ intent[i].status \in Active /\ intent'[i].status \in Active
             /\ meeting' = meeting
    BY <2>1, ActiveFiles DEF FilingFollowsIntents
  <2>2. CASE /\ intent[i].status = "permanent_failed" /\ intent'[i].status \in Active
             /\ meeting' = Refiled
    BY <2>2, ActiveFiles, FailedRefiles DEF FilingFollowsIntents
  <2>3. CASE meeting' = DeriveFilingStatus(Statuses(intent'))
    BY <2>3 DEF FilingFollowsIntents, Statuses
  <2> QED
    BY <2>1, <2>2, <2>3 DEF Changes
<1> QED
  BY <1>3, <1>4

LEMMA StoreStepKeeps ==
  ASSUME Agreed, StoreStep, RecordsStay
  PROVE  ReceiptsAgree' /\ FilingFollowsIntents'
<1>1. CASE UNCHANGED store
  BY <1>1 DEF store, Agreed, ReceiptsAgree, FilingFollowsIntents, RecordsStay, Statuses
<1> QED
  BY <1>1, ChangesKeep DEF StoreStep, Agreed

-----------------------------------------------------------------------------
(* The memories an actor can go on with.                                   *)

LEMMA GoOnVouched ==
  ASSUME MemoriesFit, Vouched, RecordsStay, NEW a, NEW mem, Vouches(mem, records'),
         \/ actor' = [actor EXCEPT ![a] = mem]
         \/ \E i : SavedBy(a, i, mem)
  PROVE  Vouched'
<1> SUFFICES ASSUME NEW b \in Actors PROVE Vouches(actor'[b], records')
  BY DEF Vouched
<1>1. CASE actor'[b] = mem
  BY <1>1
<1>2. CASE actor'[b].answer = actor[b].answer /\ actor'[b].intent = actor[b].intent
  BY <1>2 DEF Vouched, Vouches, RecordsStay
<1>3. CASE actor' = [actor EXCEPT ![a] = mem]
  BY <1>1, <1>2, <1>3 DEF MemoriesFit
<1>4. ASSUME NEW i, SavedBy(a, i, mem) PROVE Vouches(actor'[b], records')
  <2>1. actor'[b] \in {mem, actor[b], [actor[b] EXCEPT !.seen = FALSE]}
    BY <1>4 DEF SavedBy
  <2>2. actor[b] \in Memory
    BY DEF MemoriesFit
  <2> QED
    BY <1>1, <1>2, <2>1, <2>2 DEF Memory
<1> QED
  BY <1>3, <1>4

(* What an actor that turns away, or to another intent, no longer goes by. *)
LEMMA TurnedVouches ==
  ASSUME MemoriesFit, NEW a \in Actors, NEW made
  PROVE  /\ Vouches(Idle, made) /\ Vouches(After(a), made) /\ Vouches(Raised(a), made)
         /\ \A i, step : Vouches(Taking(a, i, step), made)
<1>1. actor[a] \in Memory
  BY DEF MemoriesFit
<1>2. \A step : Vouches(Clear(a, step), made)
  BY <1>1 DEF Clear, Vouches, Vouching, Memory
<1>3. \A i, step : Vouches(Taking(a, i, step), made)
  BY <1>1 DEF Taking, Vouches, Vouching, Memory
<1> QED
  BY <1>2, <1>3 DEF After, Raised, Idle, Vouches, Vouching

LEMMA AtVouches ==
  ASSUME MemoriesFit, NEW a \in Actors, NEW step, NEW answer, NEW made,
         answer \in Vouching => actor[a].intent \in Intents /\ made[actor[a].intent] > 0
  PROVE  /\ Vouches(At(a, step, answer), made)
         /\ Vouches([At(a, step, answer) EXCEPT !.seen = TRUE], made)
<1>1. actor[a] \in Memory
  BY DEF MemoriesFit
<1> QED
  BY <1>1 DEF At, Vouches, Vouching, Memory

LEMMA LeaveVouched ==
  ASSUME MemoriesFit, Vouched, RecordsStay, NEW a \in Actors, Leave(a) \/ Raise(a)
  PROVE  Vouched'
BY TurnedVouches, GoOnVouched DEF Leave, Raise

LEMMA GotoVouched ==
  ASSUME MemoriesFit, Vouched, RecordsStay, NEW a \in Actors, NEW step, NEW answer,
         answer \in Vouching => actor[a].intent \in Intents /\ records'[actor[a].intent] > 0,
         Goto(a, step, answer)
  PROVE  Vouched'
BY AtVouches, GoOnVouched DEF Goto

-----------------------------------------------------------------------------
(* Every step is one of these.                                             *)

Keeps == RecordsStay /\ StoreStep /\ Vouched'

(* A step that leaves the store and the connector alone. *)
LEMMA QuietKeeps ==
  ASSUME UNCHANGED <<store, records>>, Vouched' PROVE Keeps
BY DEF Keeps, StoreStep, RecordsStay

LEMMA LeaveKeeps ==
  ASSUME Agreed, NEW a \in Actors, Leave(a) \/ Raise(a), UNCHANGED <<store, records>>
  PROVE  Keeps
BY QuietKeeps, LeaveVouched DEF Agreed, Fits, RecordsStay

LEMMA GotoKeeps ==
  ASSUME Agreed, NEW a \in Actors, NEW step, NEW answer,
         answer \in Vouching => actor[a].intent \in Intents /\ records[actor[a].intent] > 0,
         Goto(a, step, answer), UNCHANGED <<store, records>>
  PROVE  Keeps
BY QuietKeeps, GotoVouched DEF Agreed, Fits, RecordsStay

(* An intent that is not through is saved as one that is not through. *)
LEMMA ActiveKeeps ==
  ASSUME Agreed, NEW a \in Actors, NEW i \in Intents, NEW row, NEW mem,
         intent[i].status \in Active, row.status \in Active,
         intent' = [intent EXCEPT ![i] = row],
         SavedBy(a, i, mem), Vouches(mem, records), UNCHANGED <<receipt, meeting, records>>
  PROVE  Keeps
<1>1. intent'[i] = row
  BY DEF Agreed, Fits, RowsFit
<1>2. Changes(i)
  BY <1>1 DEF Changes, Active
<1>3. Vouched'
  BY GoOnVouched DEF Agreed, Fits, RecordsStay
<1> QED
  BY <1>2, <1>3 DEF Keeps, StoreStep, RecordsStay

(* A failed intent is taken up again. *)
LEMMA RefileKeeps ==
  ASSUME Agreed, NEW a \in Actors, NEW i \in Intents, NEW row, NEW mem,
         intent[i].status = "permanent_failed", row.status \in Active,
         intent' = [intent EXCEPT ![i] = row], meeting' = Refiled,
         SavedBy(a, i, mem), Vouches(mem, records), UNCHANGED <<receipt, records>>
  PROVE  Keeps
<1>1. intent'[i] = row
  BY DEF Agreed, Fits, RowsFit
<1>2. Changes(i)
  BY <1>1 DEF Changes, Active
<1>3. Vouched'
  BY GoOnVouched DEF Agreed, Fits, RecordsStay
<1> QED
  BY <1>2, <1>3 DEF Keeps, StoreStep, RecordsStay

(* A result is saved, with its receipt if it is a success. *)
LEMMA SaveAndReduceKeeps ==
  ASSUME Agreed, NEW a \in Actors, NEW i \in Intents, NEW row,
         intent[i].status # "succeeded", row.status = "succeeded" => records[i] > 0,
         receipt' = IF Accepted(i, row) /\ row.status = "succeeded"
                    THEN receipt \cup {i} ELSE receipt,
         SaveAndReduce(a, i, row), UNCHANGED records
  PROVE  Keeps
<1>1. CASE Accepted(i, row)
  <2>1. intent' = [intent EXCEPT ![i] = row] /\ intent'[i] = row
    BY <1>1 DEF SaveAndReduce, Saved, Agreed, Fits, RowsFit
  <2>2. meeting' = DeriveFilingStatus(Statuses(intent'))
    BY <1>1 DEF SaveAndReduce, Reduced
  <2>3. Changes(i)
    BY <1>1, <2>1, <2>2 DEF Changes
  <2>4. Vouched'
    BY <1>1, GoOnVouched, TurnedVouches DEF SaveAndReduce, Agreed, Fits, RecordsStay
  <2> QED
    BY <2>3, <2>4 DEF Keeps, StoreStep, RecordsStay
<1>2. CASE ~Accepted(i, row)
  BY <1>2, LeaveKeeps DEF SaveAndReduce, store
<1> QED
  BY <1>1, <1>2

(* A receipt is stored with its intent's success or not at all. *)
LEMMA StoreReceiptKeeps ==
  ASSUME Agreed, NEW a \in Actors, NEW i \in Intents, records[i] > 0,
         StoreReceipt(a, i), UNCHANGED records
  PROVE  Keeps
<1>1. CASE i \in receipt
  BY <1>1, LeaveKeeps DEF StoreReceipt, CommitSuccess, Agreed, ReceiptsAgree, store
<1>2. CASE i \notin receipt /\ intent[i].status \in {"in_flight", "unknown"}
  <2>1. Delivered(i).status = "succeeded"
    BY DEF Delivered, Moved, Row
  <2> QED
    BY <1>2, <2>1, SaveAndReduceKeeps DEF StoreReceipt, CommitSuccess
<1>3. CASE i \notin receipt /\ intent[i].status \notin {"in_flight", "unknown"}
  BY <1>3, LeaveKeeps DEF StoreReceipt
<1> QED
  BY <1>1, <1>2, <1>3

-----------------------------------------------------------------------------
(* The delivery cycle.                                                     *)

LEMMA RecoverKeeps == ASSUME Agreed, NEW w \in Workers, Recover(w) PROVE Keeps
<1> w \in Actors
  BY DEF Actors
<1>1. CASE Goto(w, "poll", "none") /\ UNCHANGED intent
  BY <1>1, GotoKeeps DEF Recover, Vouching, store, remote
<1>2. ASSUME NEW i \in Intents, intent[i].status = "in_flight",
             intent' = [intent EXCEPT ![i] = Doubted(i)],
             SavedBy(w, i, At(w, "poll", "none"))
      PROVE  Keeps
  <2>1. Doubted(i).status \in Active
    BY DEF Doubted, Moved, Row, Active
  <2>2. Vouches(At(w, "poll", "none"), records)
    <3>1. MemoriesFit /\ "none" \notin Vouching
      BY DEF Agreed, Fits, Vouching
    <3> QED
      BY <3>1, AtVouches
  <2>3. intent[i].status \in Active /\ UNCHANGED <<receipt, meeting, records>>
    BY <1>2 DEF Recover, Active, remote
  <2> QED
    BY <1>2, <2>1, <2>2, <2>3, ActiveKeeps
<1> QED
  BY <1>1, <1>2 DEF Recover

LEMMA ClaimUnknownKeeps ==
  ASSUME Agreed, NEW a \in Actors, NEW i \in Intents, intent[i].status = "unknown",
         ClaimUnknown(a, i), UNCHANGED <<receipt, meeting, records>>
  PROVE  Keeps
<1> DEFINE row == [intent[i] EXCEPT !.owner = a, !.live = TRUE, !.due = TRUE]
<1>1. intent' = [intent EXCEPT ![i] = row]
  BY DEF ClaimUnknown, Agreed, Fits, RowsFit
<1>2. row.status \in Active
  BY DEF Agreed, Fits, RowsFit, IntentRow, Active
<1>3. Vouches(Taking(a, i, "rload"), records)
  BY TurnedVouches DEF Agreed, Fits
<1>4. SavedBy(a, i, Taking(a, i, "rload")) /\ intent[i].status \in Active
  BY DEF ClaimUnknown, Active
<1> HIDE DEF row
<1> QED
  BY <1>1, <1>2, <1>3, <1>4, ActiveKeeps

LEMMA ClaimDueUnknownKeeps ==
  ASSUME Agreed, NEW w \in Workers, ClaimDueUnknown(w) PROVE Keeps
<1> w \in Actors
  BY DEF Actors
<1>1. CASE Goto(w, "poll_due", "none") /\ UNCHANGED intent
  BY <1>1, GotoKeeps DEF ClaimDueUnknown, Vouching, store, remote
<1>2. ASSUME NEW i \in Intents, intent[i].status = "unknown", ClaimUnknown(w, i)
      PROVE  Keeps
  BY <1>2, ClaimUnknownKeeps DEF ClaimDueUnknown, remote
<1> QED
  BY <1>1, <1>2 DEF ClaimDueUnknown

LEMMA ClaimDueKeeps == ASSUME Agreed, NEW w \in Workers, ClaimDue(w) PROVE Keeps
<1> w \in Actors
  BY DEF Actors
<1>1. CASE Leave(w) /\ UNCHANGED intent
  BY <1>1, LeaveKeeps DEF ClaimDue, store, remote
<1>2. ASSUME NEW i \in Intents, Due(i),
             intent' = [intent EXCEPT ![i] =
                          [Row("in_flight", @.attempts + 1, "none")
                             EXCEPT !.owner = WorkerId[w], !.live = TRUE]],
             SavedBy(w, i, Taking(w, i, "load"))
      PROVE  Keeps
  <2> DEFINE row == [Row("in_flight", intent[i].attempts + 1, "none")
                       EXCEPT !.owner = WorkerId[w], !.live = TRUE]
  <2>1. intent' = [intent EXCEPT ![i] = row]
    BY <1>2 DEF Agreed, Fits, RowsFit
  <2>2. row.status \in Active /\ intent[i].status \in Active
    BY <1>2 DEF Row, Due, Active
  <2>3. Vouches(Taking(w, i, "load"), records)
    BY TurnedVouches DEF Agreed, Fits
  <2> HIDE DEF row
  <2> QED
    BY <1>2, <2>1, <2>2, <2>3, ActiveKeeps DEF ClaimDue, remote
<1> QED
  BY <1>1, <1>2 DEF ClaimDue

LEMMA LoadExecutionKeeps ==
  ASSUME Agreed, NEW w \in Workers, LoadExecution(w) PROVE Keeps
<1> w \in Actors
  BY DEF Actors
<1> DEFINE i == actor[w].intent
<1>1. i \in Intents /\ MemoriesFit /\ "none" \notin Vouching
  BY DEF LoadExecution, Agreed, Fits, MemoriesFit, MemoryFits, Working, Vouching
<1>2. i \in receipt => Vouches([At(w, "record", "success") EXCEPT !.seen = TRUE], records)
  BY <1>1, AtVouches DEF Agreed, ReceiptsAgree
<1>3. Vouches([At(w, "permit", "none") EXCEPT !.seen = TRUE], records)
  BY <1>1, AtVouches
<1>4. UNCHANGED <<store, records>> /\ RecordsStay
  BY DEF LoadExecution, remote, RecordsStay
<1>5. CASE Leave(w)
  BY <1>4, <1>5, LeaveKeeps
<1>6. CASE /\ i \in receipt
           /\ actor' = [actor EXCEPT ![w] = [At(w, "record", "success") EXCEPT !.seen = TRUE]]
  BY <1>1, <1>2, <1>4, <1>6, GoOnVouched, QuietKeeps DEF Agreed, remote, LoadExecution
<1>7. CASE actor' = [actor EXCEPT ![w] = [At(w, "permit", "none") EXCEPT !.seen = TRUE]]
  BY <1>1, <1>3, <1>4, <1>7, GoOnVouched, QuietKeeps DEF Agreed, remote, LoadExecution
<1> QED
  BY <1>5, <1>6, <1>7 DEF LoadExecution

LEMMA PermitKeeps == ASSUME Agreed, NEW w \in Workers, Permit(w) PROVE Keeps
<1> w \in Actors
  BY DEF Actors
<1>1. \E step : \E answer \in {"none", "permanent", "retryable"} : Goto(w, step, answer)
  BY DEF Permit
<1>2. UNCHANGED <<store, records>>
  BY DEF Permit, remote
<1> QED
  BY <1>1, <1>2, GotoKeeps DEF Vouching

(* The connector's own step makes the answer that vouches. *)
LEMMA ConnectorAppliesKeeps ==
  ASSUME Agreed, NEW w \in Workers, ConnectorApplies(w) PROVE Keeps
<1> w \in Actors
  BY DEF Actors
<1>1. actor[w].intent \in Intents
  BY DEF ConnectorApplies, Agreed, Fits, MemoriesFit, MemoryFits, Working
<1>2. RecordsStay /\ records'[actor[w].intent] > 0
  BY <1>1, CreateFits DEF ConnectorApplies, RecordsStay, Agreed, Fits, RestFits
<1>3. Vouched'
  BY <1>1, <1>2, GotoVouched DEF ConnectorApplies, Agreed, Fits
<1> QED
  BY <1>2, <1>3 DEF Keeps, StoreStep, ConnectorApplies

LEMMA GatewayAnswersKeeps ==
  ASSUME Agreed, NEW w \in Workers, GatewayAnswers(w) PROVE Keeps
<1> w \in Actors
  BY DEF Actors
<1>1. actor[w].answer = "applied" =>
        actor[w].intent \in Intents /\ records[actor[w].intent] > 0
  BY DEF Agreed, Vouched, Vouches, Vouching
<1>2. UNCHANGED <<store, records>>
  BY DEF GatewayAnswers
<1>3. CASE actor[w].answer = "applied" /\ Goto(w, "record", "success")
  BY <1>1, <1>2, <1>3, GotoKeeps
<1>4. CASE \E answer \in {"retryable", "permanent", "conflict", "unknown"} :
             Goto(w, "record", answer)
  BY <1>2, <1>4, GotoKeeps DEF Vouching
<1> QED
  BY <1>3, <1>4 DEF GatewayAnswers

LEMMA RecordSuccessKeeps ==
  ASSUME Agreed, NEW w \in Workers, RecordSuccess(w) PROVE Keeps
<1> w \in Actors
  BY DEF Actors
<1>1. actor[w].intent \in Intents /\ records[actor[w].intent] > 0
  BY DEF RecordSuccess, Agreed, Vouched, Vouches, Vouching
<1> QED
  BY <1>1, StoreReceiptKeeps DEF RecordSuccess, remote

LEMMA RecordFailureKeeps ==
  ASSUME Agreed, NEW w \in Workers, RecordFailure(w) PROVE Keeps
<1> w \in Actors
  BY DEF Actors
<1> DEFINE i == actor[w].intent  row == FailedRow(i, actor[w].answer)
<1>1. i \in Intents
  BY DEF RecordFailure, Agreed, Fits, MemoriesFit, MemoryFits, Working
<1>2. UNCHANGED <<receipt, records>>
  BY DEF RecordFailure, remote
<1>3. CASE i \in receipt
  BY <1>1, <1>2, <1>3, LeaveKeeps
     DEF RecordFailure, CommitSuccess, Agreed, ReceiptsAgree, store
<1>4. CASE i \notin receipt /\ ~actor[w].seen
  BY <1>2, <1>4, LeaveKeeps DEF RecordFailure, store
<1>5. CASE i \notin receipt /\ actor[w].seen
  <2>1. row.status # "succeeded"
    BY DEF FailedRow, Doubted, Moved, Row
  <2>2. intent[i].status # "succeeded"
    BY <1>1, <1>5 DEF Agreed, ReceiptsAgree
  <2>3. SaveAndReduce(w, i, row)
    BY <1>5 DEF RecordFailure
  <2> HIDE DEF row, i
  <2> QED
    BY <1>1, <1>2, <2>1, <2>2, <2>3, SaveAndReduceKeeps
<1> QED
  BY <1>3, <1>4, <1>5

(* A create that nobody waits for is only the connector's. *)
LEMMA StrayEndsKeeps == ASSUME Agreed, NEW i \in Intents, StrayEnds(i) PROVE Keeps
<1>1. RecordsStay
  BY CreateFits DEF StrayEnds, RecordsStay, Agreed, Fits, RestFits
<1>2. Vouched'
  BY <1>1 DEF StrayEnds, Agreed, Vouched, Vouches, RecordsStay
<1> QED
  BY <1>1, <1>2 DEF Keeps, StoreStep, StrayEnds

-----------------------------------------------------------------------------
(* Reconciliation.                                                         *)

LEMMA LoadReconciliationKeeps ==
  ASSUME Agreed, NEW a \in Actors, LoadReconciliation(a) PROVE Keeps
<1> DEFINE i == actor[a].intent
           step == IF i \in receipt THEN "rrecord" ELSE "lookup"
           answer == IF i \in receipt THEN "found" ELSE "none"
<1>1. i \in Intents /\ MemoriesFit /\ "none" \notin Vouching
  BY DEF LoadReconciliation, Agreed, Fits, MemoriesFit, MemoryFits, Working, Vouching
<1>2. answer \in Vouching => records[i] > 0
  BY <1>1 DEF Agreed, ReceiptsAgree
<1>3. UNCHANGED <<store, records>> /\ RecordsStay
  BY DEF LoadReconciliation, remote, RecordsStay
<1>4. CASE Raise(a)
  BY <1>3, <1>4, LeaveKeeps
<1>5. CASE actor' = [actor EXCEPT ![a] = [At(a, step, answer) EXCEPT !.seen = TRUE]]
  <2> HIDE DEF step, answer
  <2>1. Vouches([At(a, step, answer) EXCEPT !.seen = TRUE], records')
    BY <1>1, <1>2, <1>3, AtVouches
  <2> QED
    BY <1>1, <1>3, <1>5, <2>1, GoOnVouched, QuietKeeps DEF Agreed
<1> QED
  BY <1>4, <1>5 DEF LoadReconciliation

LEMMA LookupKeeps == ASSUME Agreed, NEW a \in Actors, Lookup(a) PROVE Keeps
<1>1. actor[a].intent \in Intents
  BY DEF Lookup, Agreed, Fits, MemoriesFit, MemoryFits, Working
<1>2. UNCHANGED <<store, records>>
  BY DEF Lookup, remote
<1>3. CASE records[actor[a].intent] > 0 /\ Goto(a, "rrecord", "found")
  BY <1>1, <1>2, <1>3, GotoKeeps
<1>4. CASE \E answer \in {"absent", "error"} : Goto(a, "rrecord", answer)
  BY <1>2, <1>4, GotoKeeps DEF Vouching
<1> QED
  BY <1>3, <1>4 DEF Lookup

LEMMA RecordReconciliationKeeps ==
  ASSUME Agreed, NEW a \in Actors, RecordReconciliation(a) PROVE Keeps
<1> DEFINE i == actor[a].intent
           row == IF actor[a].answer = "absent" THEN AbsentRow(i)
                  ELSE Moved(i, "unknown", "ambiguous")
<1>1. i \in Intents /\ UNCHANGED records
  BY DEF RecordReconciliation, remote, Agreed, Fits, MemoriesFit, MemoryFits, Working
<1>2. CASE Leave(a) /\ UNCHANGED store
  BY <1>1, <1>2, LeaveKeeps
<1>3. CASE actor[a].answer = "found" /\ StoreReceipt(a, i)
  <2>1. records[i] > 0
    BY <1>3 DEF Agreed, Vouched, Vouches, Vouching
  <2> QED
    BY <1>1, <1>3, <2>1, StoreReceiptKeeps
<1>4. CASE MayRecord(a, i) /\ UNCHANGED receipt /\ SaveAndReduce(a, i, row)
  <2>1. row.status # "succeeded"
    BY DEF AbsentRow, Moved, Row
  <2>2. intent[i].status # "succeeded"
    BY <1>4 DEF MayRecord, HoldsReconcileLease
  <2> HIDE DEF row, i
  <2> QED
    BY <1>1, <1>4, <2>1, <2>2, SaveAndReduceKeeps
<1> QED
  BY <1>2, <1>3, <1>4 DEF RecordReconciliation

-----------------------------------------------------------------------------
(* Requests of operators.                                                  *)

LEMMA SelectAndClaimKeeps ==
  ASSUME Agreed, NEW o \in Operators, NEW k, NEW kind, NEW chosen,
         SelectAndClaim(o, k, kind, chosen)
  PROVE  Keeps
<1> o \in Actors
  BY DEF Actors
<1> DEFINE mem == [Clear(o, "next") EXCEPT
                     !.key = k,
                     !.todo = [i \in Intents |-> IF i \in chosen THEN Plan(kind, i)
                                                 ELSE "done"]]
<1>1. Vouches(mem, records')
  BY DEF Clear, Vouches, Vouching, Agreed, Fits, MemoriesFit, Memory
<1>2. actor' = [actor EXCEPT ![o] = mem] /\ UNCHANGED <<store, records>> /\ RecordsStay
  BY DEF SelectAndClaim, remote, RecordsStay
<1> HIDE DEF mem
<1> QED
  BY <1>1, <1>2, GoOnVouched, QuietKeeps DEF Agreed, Fits

LEMMA RenewKeeps == ASSUME Agreed, NEW o \in Operators, Renew(o) PROVE Keeps
<1> o \in Actors
  BY DEF Actors
<1>1. UNCHANGED <<store, records>> /\ RecordsStay /\ MemoriesFit
  BY DEF Renew, remote, RecordsStay, Agreed, Fits
<1>2. CASE Raise(o)
  BY <1>1, <1>2, LeaveKeeps
<1>3. ASSUME NEW i \in Intents,
             actor' = [actor EXCEPT ![o] = Taking(o, i, actor[o].todo[i])]
      PROVE  Keeps
  BY <1>1, <1>3, TurnedVouches, GoOnVouched, QuietKeeps DEF Agreed
<1> QED
  BY <1>2, <1>3 DEF Renew, ToDo

LEMMA ForceClaimKeeps == ASSUME Agreed, NEW o \in Operators, ForceClaim(o) PROVE Keeps
<1> o \in Actors
  BY DEF Actors
<1>1. actor[o].intent \in Intents /\ UNCHANGED <<receipt, meeting, records>>
  BY DEF ForceClaim, remote, Agreed, Fits, MemoriesFit, MemoryFits, Working
<1>2. CASE intent[actor[o].intent].status = "unknown" /\ ClaimUnknown(o, actor[o].intent)
  BY <1>1, <1>2, ClaimUnknownKeeps
<1>3. CASE Goto(o, "reread", "none") /\ UNCHANGED intent
  BY <1>1, <1>3, GotoKeeps DEF Vouching, store
<1> QED
  BY <1>2, <1>3 DEF ForceClaim

LEMMA RereadKeeps == ASSUME Agreed, NEW o \in Operators, Reread(o) PROVE Keeps
BY LeaveKeeps DEF Reread, remote, Actors

LEMMA PrepareKeeps == ASSUME Agreed, NEW o \in Operators, Prepare(o) PROVE Keeps
<1> o \in Actors
  BY DEF Actors
<1> DEFINE i == actor[o].intent
<1>1. i \in Intents /\ UNCHANGED <<receipt, records>>
  BY DEF Prepare, remote, Agreed, Fits, MemoriesFit, MemoryFits, Working
<1>2. CASE Goto(o, "reconcile", "none") /\ UNCHANGED <<intent, meeting>>
  BY <1>1, <1>2, GotoKeeps DEF Vouching, store
<1>3. CASE Leave(o) /\ UNCHANGED <<intent, meeting>>
  BY <1>1, <1>3, LeaveKeeps DEF store
<1>4. CASE /\ RequiresReconciliation(i)
           /\ intent' = [intent EXCEPT ![i] = Doubted(i)]
           /\ meeting' = Refiled
           /\ SavedBy(o, i, At(o, "reconcile", "none"))
  <2>1. MemoriesFit /\ "none" \notin Vouching
    BY DEF Agreed, Fits, Vouching
  <2>2. Vouches(At(o, "reconcile", "none"), records)
    BY <2>1, AtVouches
  <2>3. Doubted(i).status \in Active /\ intent[i].status = "permanent_failed"
    BY <1>4 DEF Doubted, Moved, Row, Active, RequiresReconciliation
  <2> QED
    BY <1>1, <1>4, <2>2, <2>3, RefileKeeps
<1> QED
  BY <1>2, <1>3, <1>4 DEF Prepare

LEMMA QueueRetryKeeps == ASSUME Agreed, NEW o \in Operators, QueueRetry(o) PROVE Keeps
<1> o \in Actors
  BY DEF Actors
<1> DEFINE i == actor[o].intent  row == Moved(i, "retry_wait", intent[i].code)
<1>1. i \in Intents /\ UNCHANGED <<receipt, records>>
  BY DEF QueueRetry, remote, Agreed, Fits, MemoriesFit, MemoryFits, Working
<1>2. CASE Leave(o) /\ UNCHANGED <<intent, meeting>>
  BY <1>1, <1>2, LeaveKeeps DEF store
<1>3. CASE CanDirectRetry(i) /\ meeting' = Refiled /\ SavedBy(o, i, After(o))
           /\ intent' = [intent EXCEPT ![i] = Moved(i, "retry_wait", @.code)]
  <2>1. intent' = [intent EXCEPT ![i] = row]
    BY <1>1, <1>3 DEF Agreed, Fits, RowsFit
  <2>2. row.status \in Active /\ intent[i].status = "permanent_failed"
    BY <1>3 DEF Moved, Row, Active, CanDirectRetry
  <2>3. Vouches(After(o), records)
    BY TurnedVouches DEF Agreed, Fits
  <2> HIDE DEF row, i
  <2> QED
    BY <1>1, <1>3, <2>1, <2>2, <2>3, RefileKeeps
<1> QED
  BY <1>2, <1>3 DEF QueueRetry

(* An actor that is idle again goes by nothing. *)
LEMMA IdleKeeps ==
  ASSUME Agreed, NEW a \in Actors, actor' = [actor EXCEPT ![a] = Idle],
         UNCHANGED <<store, records>>
  PROVE  Keeps
BY TurnedVouches, GoOnVouched, QuietKeeps DEF Agreed, Fits, RecordsStay

LEMMA CompleteKeeps == ASSUME Agreed, NEW o \in Operators, Complete(o) PROVE Keeps
BY IdleKeeps, LeaveKeeps DEF Complete, remote, Actors

LEMMA ReleaseKeeps == ASSUME Agreed, NEW o \in Operators, Release(o) PROVE Keeps
BY IdleKeeps DEF Release, remote, Actors

-----------------------------------------------------------------------------
(* Faults and time.                                                        *)

LEMMA CrashKeeps == ASSUME Agreed, NEW a \in Actors, Crash(a) PROVE Keeps
BY IdleKeeps DEF Crash

LEMMA RequestRaisesKeeps ==
  ASSUME Agreed, NEW o \in Operators, RequestRaises(o) PROVE Keeps
BY LeaveKeeps DEF RequestRaises, remote, Actors

LEMMA AbsenceRaisesKeeps ==
  ASSUME Agreed, NEW a \in Actors, AbsenceRaises(a) PROVE Keeps
BY GotoKeeps DEF AbsenceRaises, remote, Vouching

(* Time passes for rows that are not through only. *)
LEMMA TimeKeeps ==
  ASSUME Agreed, NEW i \in Intents, LeaseExpires(i) \/ BecomesDue(i) PROVE Keeps
<1>1. intent[i].status \in Active
  BY DEF LeaseExpires, BecomesDue, Agreed, Fits, RowsFit, RowFits, Active
<1>2. intent' \in {[intent EXCEPT ![i] = [intent[i] EXCEPT !.live = FALSE]],
                  [intent EXCEPT ![i] = [intent[i] EXCEPT !.due = TRUE]]}
  BY DEF LeaseExpires, BecomesDue, Agreed, Fits, RowsFit
<1>3. intent'[i].status = intent[i].status
  BY <1>2 DEF Agreed, Fits, RowsFit, IntentRow
<1>4. Changes(i)
  BY <1>1, <1>2, <1>3 DEF Changes, Active, LeaseExpires, BecomesDue
<1>5. RecordsStay /\ Vouched'
  BY DEF LeaseExpires, BecomesDue, RecordsStay, Agreed, Vouched, Vouches, remote
<1> QED
  BY <1>4, <1>5 DEF Keeps, StoreStep

LEMMA OperationLeaseExpiresKeeps ==
  ASSUME Agreed, NEW k \in Keys, OperationLeaseExpires(k) PROVE Keeps
BY QuietKeeps DEF OperationLeaseExpires, Agreed, Vouched, Vouches, remote

-----------------------------------------------------------------------------
LEMMA StepKeeps == ASSUME Agreed, [Next]_vars PROVE Keeps
<1>1. CASE UNCHANGED vars
  BY <1>1, QuietKeeps DEF vars, remote, Agreed, Vouched, Vouches
<1>2. ASSUME NEW w \in Workers, Deliver(w) \/ ConnectorApplies(w) PROVE Keeps
  BY <1>2, RecoverKeeps, ClaimDueUnknownKeeps, ClaimDueKeeps, LoadExecutionKeeps,
     PermitKeeps, GatewayAnswersKeeps, RecordSuccessKeeps, RecordFailureKeeps,
     ConnectorAppliesKeeps DEF Deliver
<1>3. ASSUME NEW a \in Actors, Reconcile(a) \/ Crash(a) \/ AbsenceRaises(a) PROVE Keeps
  BY <1>3, LoadReconciliationKeeps, LookupKeeps, RecordReconciliationKeeps, CrashKeeps,
     AbsenceRaisesKeeps DEF Reconcile
<1>4. ASSUME NEW o \in Operators, Request(o) \/ Serve(o) \/ RequestRaises(o) PROVE Keeps
  BY <1>4, SelectAndClaimKeeps, RenewKeeps, ForceClaimKeeps, RereadKeeps, PrepareKeeps,
     QueueRetryKeeps, CompleteKeeps, ReleaseKeeps, RequestRaisesKeeps DEF Request, Serve
<1>5. ASSUME NEW i \in Intents, StrayEnds(i) \/ LeaseExpires(i) \/ BecomesDue(i)
      PROVE  Keeps
  BY <1>5, StrayEndsKeeps, TimeKeeps
<1>6. ASSUME NEW k \in Keys, OperationLeaseExpires(k) PROVE Keeps
  BY <1>6, OperationLeaseExpiresKeeps
<1> QED
  BY <1>1, <1>2, <1>3, <1>4, <1>5, <1>6 DEF Next

LEMMA InitAgreed == Init => Agreed
<1> SUFFICES ASSUME Init PROVE Agreed
  OBVIOUS
<1>1. \A i \in Intents : intent[i].status = "pending"
  BY DEF Init, Row
<1>2. ReceiptsAgree
  BY <1>1 DEF Init, ReceiptsAgree
<1>3. FilingFollowsIntents
  BY <1>1, IntentsAssumption, ActiveFiles DEF Init, FilingFollowsIntents, Active
<1>4. Vouched
  BY DEF Init, Idle, Vouched, Vouches, Vouching
<1> QED
  BY <1>2, <1>3, <1>4, InitFits DEF Agreed

LEMMA StepAgreed == Agreed /\ [Next]_vars => Agreed'
<1> SUFFICES ASSUME Agreed, [Next]_vars PROVE Agreed'
  OBVIOUS
<1>1. Keeps /\ Fits'
  BY StepKeeps, StepFits DEF Agreed
<1> QED
  BY <1>1, StoreStepKeeps DEF Keeps, Agreed

(* Exactly the intents that succeeded have a receipt, and the connector holds a *)
(* record of each of them: no late answer, replay or lookup leaves a receipt    *)
(* without its success, a success without a receipt, or a success without its   *)
(* record (delivery.py _record_success, _commit_success).                       *)
THEOREM ReceiptsCorrect == Spec => []ReceiptsAgree
BY InitAgreed, StepAgreed, PTL DEF Spec, Agreed

(* After every step the meeting shows the filing status that its intents derive, *)
(* although claims, recoveries and expiries do not look at the meeting           *)
(* (delivery.py _reduce_meeting, delivery_control.py _queue_retry).              *)
THEOREM FilingCorrect == Spec => []FilingFollowsIntents
BY InitAgreed, StepAgreed, PTL DEF Spec, Agreed

(* Nothing reopens a completed meeting: all its intents have succeeded, and no *)
(* step changes an intent that has.                                            *)
THEOREM CompletedStays == Spec => CompletedIsFinal
<1>1. Agreed /\ [Next]_vars => (meeting = "completed" => UNCHANGED store)
  <2> SUFFICES ASSUME Agreed, [Next]_vars, meeting = "completed" PROVE UNCHANGED store
    OBVIOUS
  <2>1. StoreStep
    BY StepKeeps DEF Keeps
  <2>2. ASSUME NEW i \in Intents PROVE intent[i].status = "succeeded"
    <3>1. intent[i].status \in Statuses(intent)
      BY DEF Statuses
    <3>2. Statuses(intent) = {"succeeded"}
      BY <3>1 DEF Agreed, FilingFollowsIntents, DeriveFilingStatus
    <3> QED
      BY <3>1, <3>2
  <2> QED
    BY <2>1, <2>2 DEF StoreStep, Changes
<1> QED
  BY <1>1, InitAgreed, StepAgreed, PTL DEF Spec, CompletedIsFinal

-----------------------------------------------------------------------------
(* The outbox's promise.  When exchanges are punctual and every delivery loop   *)
(* claims with a name of its own, at most one create is ever under way for a    *)
(* write, and only while the write is open and has no record.                   *)

OwnNames == \A v, w \in Workers : WorkerId[v] = WorkerId[w] => v = w

(* A create has been sent that the connector has not applied. *)
Sending(mem) == mem.step = "calling" /\ mem.answer # "applied"

(* No create, as far as the loop knows. *)
Unmade(mem) ==
  \/ mem.step \in {"load", "permit"}
  \/ Sending(mem)
  \/ mem.step = "record" /\ mem.answer \notin {"success", "conflict", "unknown"}

(* A loop runs a row that it claimed, and that nobody has saved since. *)
Runs(a, mem, row) ==
  /\ a \in Workers /\ row.status = "in_flight" /\ row.owner = WorkerId[a]
  /\ mem.step = "load" \/ (mem.seen /\ Executing(mem))

(* The rows that say there is no record. *)
Unwritten(row) ==
  \/ row.status \in {"pending", "retry_wait"}
  \/ row.status = "permanent_failed" /\ row.code = "definite"

(* One row, its records, and the creates nobody waits for. *)
RowClean(row, made, strays) ==
  /\ made <= 1
  /\ Unwritten(row) => made = 0
  /\ strays > 0 => strays = 1 /\ made = 0 /\ row.status = "in_flight" /\ row.live

(* One actor, and the row it is at work on. *)
Clean(a, mem, row, made, strays) ==
  /\ Runs(a, mem, row) => strays = 0 /\ (Unmade(mem) => made = 0)
  /\ Sending(mem) => mem.seen /\ row.live
  /\ mem.step = "rrecord" /\ mem.answer = "absent" /\ mem.seen => made = 0

Busy(mem) == mem.step \in Looked \cup {"load"}

RowsClean == \A i \in Intents : RowClean(intent[i], records[i], stray[i])
ActorsClean ==
  \A a \in Actors :
    Busy(actor[a]) =>
      LET i == actor[a].intent IN Clean(a, actor[a], intent[i], records[i], stray[i])

(* The inductive invariant. *)
Promised == Agreed /\ Leased /\ RowsClean /\ ActorsClean

(* What may become of a write's outcome when its row is saved. *)
Turns(i, row) ==
  LET old == Outcome(intent[i])  new == Outcome(row) IN
  \/ new = old
  \/ old = "open" /\ new = "delivered" /\ records[i] > 0
  \/ old = "open" /\ new = "failed" /\ records[i] = 0
  \/ old = "open" /\ new = "doubtful"
  \/ old \in {"failed", "doubtful"} /\ new = "open"

(* The steps: an actor goes on by itself, *)
Continues(a, mem) ==
  /\ actor' = [actor EXCEPT ![a] = mem]
  /\ UNCHANGED <<intent, records, stray>>
  /\ Busy(mem) =>
       LET i == mem.intent IN Clean(a, mem, intent[i], records[i], stray[i])

(* or saves a row while no create of it is under way, *)
Unwatched(i) ==
  stray[i] = 0 /\ \A b \in Actors : Sending(actor[b]) => actor[b].intent # i

Writes(a, i, row, mem) ==
  /\ intent' = [intent EXCEPT ![i] = row] /\ SavedBy(a, i, mem)
  /\ UNCHANGED <<records, stray>>
  /\ Unwatched(i)
  /\ RowClean(row, records[i], stray[i])
  /\ row.status = "in_flight" => a \in Workers /\ row.owner = WorkerId[a]
  /\ Busy(mem) => mem.intent = i /\ Clean(a, mem, row, records[i], stray[i])
  /\ Turns(i, row)

Advances ==
  \/ UNCHANGED <<intent, actor, records, stray>>
  \/ \E a \in Actors, mem \in Memory : Continues(a, mem)
  \/ \E a \in Actors, i \in Intents, row \in IntentRow, mem \in Memory : Writes(a, i, row, mem)
  \/ \E w \in Workers : ConnectorApplies(w)
  \/ \E a \in Actors : Crash(a)
  \/ \E i \in Intents : StrayEnds(i) \/ LeaseExpires(i) \/ BecomesDue(i)

-----------------------------------------------------------------------------
(* These steps keep it so.                                                  *)

LEMMA Parts ==
  ASSUME Promised
  PROVE  /\ actor \in [Actors -> Memory] /\ intent \in [Intents -> IntentRow]
         /\ records \in [Intents -> Nat] /\ stray \in [Intents -> Nat]
         /\ \A a \in Actors : Busy(actor[a]) => actor[a].intent \in Intents
BY DEF Promised, Leased, Fits, RowsFit, MemoriesFit, MemoryFits, RestFits, Busy, Looked, Working

(* Whoever waits for a create to be applied runs its row, under a live lease; *)
LEMMA SenderRuns ==
  ASSUME Promised, NEW a \in Actors, Sending(actor[a])
  PROVE  LET i == actor[a].intent IN
         /\ i \in Intents /\ a \in Workers
         /\ intent[i].status = "in_flight" /\ intent[i].owner = WorkerId[a] /\ intent[i].live
         /\ actor[a].seen /\ stray[i] = 0 /\ records[i] = 0
<1> DEFINE i == actor[a].intent
<1>1. actor[a].step = "calling" /\ Busy(actor[a]) /\ i \in Intents
  BY Parts DEF Sending, Busy, Looked
<1>2. actor[a].seen /\ intent[i].live
  BY <1>1 DEF Promised, ActorsClean, Clean
<1>3. a \in Workers /\ intent[i].status = "in_flight" /\ intent[i].owner = WorkerId[a]
  BY <1>1, <1>2 DEF Promised, Leased, Snapshots, Snapped, Executing, Looked
<1>4. Runs(a, actor[a], intent[i]) /\ Unmade(actor[a])
  BY <1>1, <1>2, <1>3 DEF Runs, Executing, Unmade
<1> QED
  BY <1>1, <1>2, <1>3, <1>4 DEF Promised, ActorsClean, Clean

(* and nobody else runs it. *)
LEMMA RunnersAgree ==
  ASSUME OwnNames, NEW a \in Actors, NEW b \in Actors, NEW row,
         Runs(a, actor[a], row), Runs(b, actor[b], row)
  PROVE  a = b
BY DEF OwnNames, Runs

LEMMA ContinuesKeeps ==
  ASSUME Promised, NEW a \in Actors, NEW mem \in Memory, Continues(a, mem)
  PROVE  RowsClean' /\ ActorsClean'
<1>1. actor'[a] = mem /\ \A b \in Actors : b # a => actor'[b] = actor[b]
  BY Parts DEF Continues
<1> QED
  BY <1>1 DEF Continues, Promised, RowsClean, ActorsClean

LEMMA WritesKeeps ==
  ASSUME OwnNames, Promised, NEW a \in Actors, NEW i \in Intents, NEW row \in IntentRow,
         NEW mem \in Memory, Writes(a, i, row, mem)
  PROVE  RowsClean' /\ ActorsClean'
<1>1. intent'[i] = row /\ \A j \in Intents : j # i => intent'[j] = intent[j]
  BY Parts DEF Writes
<1>2. UNCHANGED <<records, stray>>
  BY DEF Writes
<1>3. RowsClean'
  BY <1>1, <1>2 DEF Writes, Promised, RowsClean
<1>4. ASSUME NEW b \in Actors, Busy(actor'[b])
      PROVE  LET j == actor'[b].intent IN
             Clean(b, actor'[b], intent'[j], records[j], stray[j])
  <2>1. CASE b = a
    <3>1. actor'[b] = mem
      BY <2>1 DEF Writes, SavedBy
    <3> QED
      BY <1>1, <1>4, <2>1, <3>1 DEF Writes
  <2>2. CASE b # a /\ actor[b].intent # i
    <3>1. actor'[b] = actor[b] /\ actor[b].intent \in Intents
      BY <1>4, <2>2, Parts DEF Writes, SavedBy
    <3> QED
      BY <1>1, <1>4, <2>2, <3>1 DEF Promised, ActorsClean
  <2>3. CASE b # a /\ actor[b].intent = i
    <3>1. actor'[b] = [actor[b] EXCEPT !.seen = FALSE]
      BY <2>3 DEF Writes, SavedBy
    <3>2. /\ actor'[b].intent = i /\ ~actor'[b].seen
          /\ actor'[b].step = actor[b].step /\ actor'[b].answer = actor[b].answer
      BY <2>3, <3>1, Parts DEF Memory
    <3>3. ~Runs(b, actor'[b], row)
      BY <2>3, <3>2 DEF Runs, Writes, OwnNames
    <3>4. ~Sending(actor'[b])
      BY <2>3, <3>2 DEF Sending, Writes, Unwatched
    <3> QED
      BY <1>1, <3>2, <3>3, <3>4 DEF Clean
  <2> QED
    BY <2>1, <2>2, <2>3
<1>5. ActorsClean'
  BY <1>2, <1>4 DEF ActorsClean
<1> QED
  BY <1>3, <1>5

(* The record a create makes is the first. *)
LEMMA FirstRecord ==
  ASSUME Promised, NEW i \in Intents, records[i] = 0, Create(i)
  PROVE  records'[i] = 1 /\ \A j \in Intents : j # i => records'[j] = records[j]
BY Parts, CreateMakes

LEMMA ConnectorAppliesKeepsClean ==
  ASSUME OwnNames, Promised, NEW w \in Workers, ConnectorApplies(w)
  PROVE  RowsClean' /\ ActorsClean'
<1> w \in Actors
  BY DEF Actors
<1> DEFINE i == actor[w].intent
<1>1. Sending(actor[w])
  BY DEF ConnectorApplies, Sending
<1>2. /\ i \in Intents /\ w \in Workers
      /\ intent[i].status = "in_flight" /\ intent[i].owner = WorkerId[w] /\ intent[i].live
      /\ actor[w].seen /\ stray[i] = 0 /\ records[i] = 0
  BY <1>1, SenderRuns
<1>3. records'[i] = 1 /\ \A j \in Intents : j # i => records'[j] = records[j]
  BY <1>2, FirstRecord DEF ConnectorApplies
<1>4. UNCHANGED <<intent, stray>>
  BY DEF ConnectorApplies, store
<1>5. RowsClean'
  BY <1>2, <1>3, <1>4 DEF Promised, RowsClean, RowClean, Unwritten
<1>6. ASSUME NEW b \in Actors, Busy(actor'[b])
      PROVE  LET j == actor'[b].intent IN
             Clean(b, actor'[b], intent[j], records'[j], stray[j])
  <2>1. CASE b = w
    <3>1. actor'[b] = At(w, "calling", "applied")
      BY <2>1, Parts DEF ConnectorApplies, Goto
    <3>2. actor'[b].intent = i /\ actor'[b].step = "calling" /\ actor'[b].answer = "applied"
      BY <3>1, Parts DEF At, Memory
    <3> QED
      BY <1>2, <3>2 DEF Clean, Unmade, Sending
  <2>2. CASE b # w
    <3>1. actor'[b] = actor[b] /\ actor[b].intent \in Intents
      BY <1>6, <2>2, Parts DEF ConnectorApplies, Goto
    <3>2. CASE actor[b].intent # i
      BY <1>3, <1>6, <3>1, <3>2 DEF Promised, ActorsClean
    <3>3. CASE actor[b].intent = i
      <4>1. Runs(w, actor[w], intent[i])
        BY <1>2 DEF Runs, Executing, ConnectorApplies
      <4>2. ~Runs(b, actor[b], intent[i])
        BY <2>2, <4>1, RunnersAgree
      <4>3. ~Sending(actor[b])
        BY <3>3, <4>2, SenderRuns DEF Runs, Executing, Sending
      <4>4. ~(actor[b].step = "rrecord" /\ actor[b].seen)
        BY <1>2, <3>3 DEF Promised, Leased, Snapshots, Snapped, Reconciling, Looked
      <4> QED
        BY <3>1, <3>3, <4>2, <4>3, <4>4 DEF Clean
    <3> QED
      BY <3>2, <3>3
  <2> QED
    BY <2>1, <2>2
<1>7. ActorsClean'
  BY <1>4, <1>6 DEF ActorsClean
<1> QED
  BY <1>5, <1>7

(* While a create nobody waits for is under way, nobody runs or reconciles its row. *)
LEMMA StrayAlone ==
  ASSUME Promised, NEW i \in Intents, stray[i] > 0, NEW b \in Actors, actor[b].intent = i,
         Busy(actor[b])
  PROVE  /\ ~Runs(b, actor[b], intent[i]) /\ ~Sending(actor[b])
         /\ ~(actor[b].step = "rrecord" /\ actor[b].seen)
<1>1. intent[i].status = "in_flight" /\ stray[i] # 0
  BY DEF Promised, RowsClean, RowClean
<1>2. ~Runs(b, actor[b], intent[i])
  BY <1>1 DEF Promised, ActorsClean, Clean
<1>3. ~Sending(actor[b])
  BY <1>1, SenderRuns
<1>4. ~(actor[b].step = "rrecord" /\ actor[b].seen)
  BY <1>1 DEF Promised, Leased, Snapshots, Snapped, Reconciling, Looked
<1> QED
  BY <1>2, <1>3, <1>4

LEMMA StrayEndsKeepsClean ==
  ASSUME Promised, NEW i \in Intents, StrayEnds(i)
  PROVE  RowsClean' /\ ActorsClean'
<1>1. /\ stray[i] = 1 /\ records[i] = 0 /\ intent[i].status = "in_flight"
      /\ UNCHANGED <<intent, actor>>
  BY DEF StrayEnds, Promised, RowsClean, RowClean, store
<1>2. stray'[i] = 0 /\ \A j \in Intents : j # i => stray'[j] = stray[j]
  BY <1>1, Parts DEF StrayEnds
<1>3. records'[i] \in {0, 1} /\ \A j \in Intents : j # i => records'[j] = records[j]
  BY <1>1, FirstRecord DEF StrayEnds
<1>4. RowsClean'
  BY <1>1, <1>2, <1>3 DEF Promised, RowsClean, RowClean, Unwritten
<1>5. ASSUME NEW b \in Actors, Busy(actor[b])
      PROVE  LET j == actor[b].intent IN
             Clean(b, actor[b], intent[j], records'[j], stray'[j])
  <2>1. actor[b].intent \in Intents
    BY <1>5, Parts
  <2>2. CASE actor[b].intent = i
    <3>1. stray[i] > 0
      BY <1>1
    <3> QED
      BY <1>5, <2>2, <3>1, StrayAlone DEF Clean
  <2>3. CASE actor[b].intent # i
    BY <1>2, <1>3, <1>5, <2>1, <2>3 DEF Promised, ActorsClean
  <2> QED
    BY <2>2, <2>3
<1>6. ActorsClean'
  BY <1>1, <1>5 DEF ActorsClean
<1> QED
  BY <1>4, <1>6

LEMMA CrashKeepsClean ==
  ASSUME OwnNames, Promised, NEW a \in Actors, Crash(a)
  PROVE  RowsClean' /\ ActorsClean'
<1> DEFINE i == actor[a].intent
<1>1. UNCHANGED <<intent, records>>
  BY DEF Crash, store
<1>2. /\ actor'[a] = Idle /\ ~Busy(Idle)
      /\ \A b \in Actors : b # a => actor'[b] = actor[b]
  BY Parts DEF Crash, Idle, Busy, Looked
<1>3. CASE UNCHANGED stray
  BY <1>1, <1>2, <1>3 DEF Promised, RowsClean, ActorsClean
<1>4. CASE Sending(actor[a]) /\ stray' = [stray EXCEPT ![i] = @ + 1]
  <2>1. /\ i \in Intents /\ a \in Workers
        /\ intent[i].status = "in_flight" /\ intent[i].owner = WorkerId[a] /\ intent[i].live
        /\ actor[a].seen /\ stray[i] = 0 /\ records[i] = 0
    BY <1>4, SenderRuns
  <2>2. stray'[i] = 1 /\ \A j \in Intents : j # i => stray'[j] = stray[j]
    BY <1>4, <2>1, Parts
  <2>3. RowsClean'
    BY <1>1, <2>1, <2>2 DEF Promised, RowsClean, RowClean, Unwritten
  <2>4. ASSUME NEW b \in Actors, Busy(actor'[b])
        PROVE  LET j == actor'[b].intent IN
               Clean(b, actor'[b], intent[j], records[j], stray'[j])
    <3>1. b # a /\ actor'[b] = actor[b] /\ actor[b].intent \in Intents
      BY <1>2, <2>4, Parts
    <3>2. CASE actor[b].intent # i
      BY <2>2, <2>4, <3>1, <3>2 DEF Promised, ActorsClean
    <3>3. CASE actor[b].intent = i
      <4>1. Runs(a, actor[a], intent[i])
        BY <1>4, <2>1 DEF Runs, Executing, Sending
      <4>2. ~Runs(b, actor[b], intent[i])
        BY <3>1, <4>1, RunnersAgree
      <4> QED
        BY <2>4, <3>1, <3>3, <4>2 DEF Clean, Promised, ActorsClean
    <3> QED
      BY <3>2, <3>3
  <2>5. ActorsClean'
    BY <1>1, <2>4 DEF ActorsClean
  <2> QED
    BY <2>3, <2>5
<1> QED
  BY <1>3, <1>4 DEF Crash, Sending

(* A lease that runs out is not that of an exchange. *)
LEMMA TimeKeepsClean ==
  ASSUME Punctual, Promised, NEW i \in Intents, LeaseExpires(i) \/ BecomesDue(i)
  PROVE  RowsClean' /\ ActorsClean'
<1>1. UNCHANGED <<actor, records, stray>>
  BY DEF LeaseExpires, BecomesDue, remote
<1>2. \A j \in Intents : /\ intent'[j].status = intent[j].status
                         /\ intent'[j].owner = intent[j].owner
                         /\ intent'[j].code = intent[j].code
                         /\ intent'[j].live = intent[j].live \/ (LeaseExpires(i) /\ j = i)
  BY Parts DEF LeaseExpires, BecomesDue, IntentRow
<1>3. LeaseExpires(i) =>
        ~(stray[i] > 0) /\ \A b \in Actors : actor[b].step = "calling" => actor[b].intent # i
  BY DEF LeaseExpires, Exchanging
<1>4. RowsClean'
  BY <1>1, <1>2, <1>3 DEF Promised, RowsClean, RowClean, Unwritten
<1>5. ActorsClean'
  BY <1>1, <1>2, <1>3, Parts DEF Promised, ActorsClean, Clean, Runs, Sending
<1> QED
  BY <1>4, <1>5

LEMMA AdvancesKeeps ==
  ASSUME Punctual, OwnNames, Promised, Advances
  PROVE  RowsClean' /\ ActorsClean'
<1>1. CASE UNCHANGED <<intent, actor, records, stray>>
  BY <1>1 DEF Promised, RowsClean, ActorsClean
<1> QED
  BY <1>1, ContinuesKeeps, WritesKeeps, ConnectorAppliesKeepsClean, CrashKeepsClean,
     StrayEndsKeepsClean, TimeKeepsClean DEF Advances

-----------------------------------------------------------------------------
(* Every step is one of these.                                              *)

(* An actor goes on with nothing sent and nothing to report. *)
LEMMA QuietAdvances ==
  ASSUME Promised, NEW a \in Actors, NEW mem, MemoryFits(mem), ~Busy(mem),
         actor' = [actor EXCEPT ![a] = mem], UNCHANGED <<intent, records, stray>>
  PROVE  Advances
BY DEF Advances, Continues, MemoryFits

LEMMA TurnedQuiet ==
  ASSUME Promised, NEW a \in Actors
  PROVE  /\ ~Busy(Idle) /\ ~Busy(After(a)) /\ ~Busy(Raised(a))
         /\ \A i, step : step \notin Looked \cup {"load"} => ~Busy(Taking(a, i, step))
         /\ \A answer, step : step \notin Looked \cup {"load"} => ~Busy(At(a, step, answer))
<1>1. actor[a] \in Memory
  BY Parts
<1>2. \A step \in {"next", "release"} : ~Busy(Clear(a, step))
  BY <1>1 DEF Clear, Busy, Looked, Memory
<1>3. \A i, step : step \notin Looked \cup {"load"} => ~Busy(Taking(a, i, step))
  BY <1>1 DEF Taking, Busy, Memory
<1>4. \A answer, step : step \notin Looked \cup {"load"} => ~Busy(At(a, step, answer))
  BY <1>1 DEF At, Busy, Memory
<1>5. ~Busy(Idle)
  BY DEF Idle, Busy, Looked
<1> QED
  BY <1>2, <1>3, <1>4, <1>5 DEF After, Raised

LEMMA LeaveAdvances ==
  ASSUME Promised, NEW a \in Actors, Leave(a) \/ Raise(a), UNCHANGED <<intent, records, stray>>
  PROVE  Advances
BY AfterFits, TurnedQuiet, QuietAdvances DEF Leave, Raise, Promised, Leased, Fits

(* An actor goes on within its work on an intent. *)
LEMMA AtAdvances ==
  ASSUME Promised, NEW a \in Actors, NEW step \in Steps, NEW answer \in Answers, NEW mem,
         step \in Working => actor[a].intent \in Intents,
         \/ mem = At(a, step, answer)
         \/ mem = [At(a, step, answer) EXCEPT !.seen = TRUE],
         actor' = [actor EXCEPT ![a] = mem], UNCHANGED <<intent, records, stray>>,
         Busy(mem) =>
           LET i == actor[a].intent IN Clean(a, mem, intent[i], records[i], stray[i])
  PROVE  Advances
<1>1. mem \in Memory
  BY AtFits DEF Promised, Leased, Fits, MemoryFits
<1>2. mem.intent = actor[a].intent
  <2>1. /\ At(a, step, answer).intent = actor[a].intent
        /\ [At(a, step, answer) EXCEPT !.seen = TRUE].intent = actor[a].intent
    BY Parts DEF At, Memory
  <2> QED
    BY <2>1
<1> QED
  BY <1>1, <1>2 DEF Advances, Continues

(* What such a memory holds. *)
LEMMA AtHolds ==
  ASSUME Promised, NEW a \in Actors, NEW step, NEW answer
  PROVE  LET mem == At(a, step, answer)  looked == [mem EXCEPT !.seen = TRUE] IN
         /\ mem.step = step /\ mem.answer = answer /\ mem.seen = actor[a].seen
         /\ looked.step = step /\ looked.answer = answer /\ looked.seen
BY Parts DEF At, Memory

(* Nobody's create of row i is under way when the row is not in flight, when its *)
(* lease has run out, and when its record has been made. *)
LEMMA UnwatchedWhen ==
  ASSUME Promised, NEW i \in Intents,
         intent[i].status # "in_flight" \/ ~intent[i].live \/ records[i] > 0
  PROVE  Unwatched(i)
<1>1. stray[i] = 0
  BY Parts DEF Promised, RowsClean, RowClean
<1>2. \A b \in Actors : Sending(actor[b]) => actor[b].intent # i
  BY SenderRuns
<1> QED
  BY <1>1, <1>2 DEF Unwatched

(* A row is saved that is not in flight, by an actor that turns away from it. *)
LEMMA WriteAdvances ==
  ASSUME Promised, NEW a \in Actors, NEW i \in Intents, NEW row, NEW mem,
         RowFits(row), MemoryFits(mem), ~Busy(mem), row.status # "in_flight",
         intent' = [intent EXCEPT ![i] = row], SavedBy(a, i, mem), UNCHANGED <<records, stray>>,
         Unwatched(i), Unwritten(row) => records[i] = 0, Turns(i, row)
  PROVE  Advances
<1>1. RowClean(row, records[i], stray[i])
  BY DEF Promised, RowsClean, RowClean, Unwatched
<1>2. row \in IntentRow /\ mem \in Memory
  BY DEF RowFits, MemoryFits
<1>3. Writes(a, i, row, mem)
  BY <1>1 DEF Writes
<1> QED
  BY <1>2, <1>3 DEF Advances

LEMMA SaveAndReduceAdvances ==
  ASSUME Promised, NEW a \in Actors, NEW i \in Intents, NEW row,
         RowFits(row), row.status # "in_flight", SaveAndReduce(a, i, row),
         UNCHANGED <<records, stray>>,
         Unwatched(i), Unwritten(row) => records[i] = 0, Turns(i, row)
  PROVE  Advances
<1>1. CASE Accepted(i, row)
  <2>1. MemoryFits(After(a)) /\ ~Busy(After(a))
    BY AfterFits, TurnedQuiet DEF Promised, Leased, Fits
  <2> QED
    BY <1>1, <2>1, WriteAdvances DEF SaveAndReduce, Saved
<1>2. CASE ~Accepted(i, row)
  BY <1>2, LeaveAdvances DEF SaveAndReduce
<1> QED
  BY <1>1, <1>2

(* A receipt is stored for a record that exists. *)
LEMMA StoreReceiptAdvances ==
  ASSUME Promised, NEW a \in Actors, NEW i \in Intents, records[i] > 0,
         StoreReceipt(a, i), UNCHANGED <<records, stray>>
  PROVE  Advances
<1>1. CASE Leave(a) /\ UNCHANGED intent
  BY <1>1, LeaveAdvances
<1>2. CASE intent[i].status \in {"in_flight", "unknown"} /\ SaveAndReduce(a, i, Delivered(i))
  <2>1. RowFits(Delivered(i))
    BY MovedFits DEF Delivered, Promised, Leased, Fits
  <2>2. Delivered(i).status = "succeeded"
    BY DEF Delivered, Moved, Row
  <2>3. Turns(i, Delivered(i))
    BY <1>2, <2>2 DEF Turns, Outcome
  <2>4. ~Unwritten(Delivered(i)) /\ Unwatched(i)
    BY <2>2, UnwatchedWhen DEF Unwritten
  <2> QED
    BY <1>2, <2>1, <2>2, <2>3, <2>4, SaveAndReduceAdvances
<1>3. i \in receipt => intent[i].status = "succeeded"
  BY DEF Promised, Agreed, ReceiptsAgree
<1> QED
  BY <1>1, <1>2, <1>3 DEF StoreReceipt, CommitSuccess, store

LEMMA RecoverAdvances == ASSUME Promised, NEW w \in Workers, Recover(w) PROVE Advances
<1> w \in Actors
  BY DEF Actors
<1>1. UNCHANGED <<records, stray>>
  BY DEF Recover, remote
<1>2. MemoryFits(At(w, "poll", "none")) /\ ~Busy(At(w, "poll", "none"))
  BY AtFits, TurnedQuiet DEF Promised, Leased, Fits, Steps, Answers, Working, Looked
<1>3. CASE Goto(w, "poll", "none") /\ UNCHANGED intent
  BY <1>1, <1>2, <1>3, QuietAdvances DEF Goto
<1>4. ASSUME NEW i \in Intents, intent[i].status = "in_flight", ~intent[i].live,
             intent' = [intent EXCEPT ![i] = Doubted(i)],
             SavedBy(w, i, At(w, "poll", "none"))
      PROVE  Advances
  <2>1. RowFits(Doubted(i)) /\ Unwatched(i)
    BY <1>4, DoubtedFits, UnwatchedWhen DEF Promised, Leased, Fits
  <2>2. Doubted(i).status = "unknown"
    BY DEF Doubted, Moved, Row
  <2>3. ~Unwritten(Doubted(i)) /\ Turns(i, Doubted(i))
    BY <1>4, <2>2 DEF Turns, Outcome, Unwritten
  <2> QED
    BY <1>1, <1>2, <1>4, <2>1, <2>2, <2>3, WriteAdvances
<1> QED
  BY <1>3, <1>4 DEF Recover

LEMMA ClaimUnknownAdvances ==
  ASSUME Promised, NEW a \in Actors, NEW i \in Intents, intent[i].status = "unknown",
         ClaimUnknown(a, i), UNCHANGED <<records, stray>>
  PROVE  Advances
<1> DEFINE row == [intent[i] EXCEPT !.owner = a, !.live = TRUE, !.due = TRUE]
<1>1. intent' = [intent EXCEPT ![i] = row]
  BY Parts DEF ClaimUnknown
<1>2. RowFits(row) /\ row.status = "unknown"
  BY NameAssumption DEF Promised, Leased, Fits, RowsFit, RowFits, IntentRow
<1>3. MemoryFits(Taking(a, i, "rload")) /\ ~Busy(Taking(a, i, "rload"))
  BY TakingFits, TurnedQuiet DEF Promised, Leased, Fits, Steps, Looked
<1>4. Unwatched(i)
  BY UnwatchedWhen
<1> HIDE DEF row
<1>5. ~Unwritten(row) /\ Turns(i, row)
  BY <1>2 DEF Turns, Outcome, Unwritten
<1> QED
  BY <1>1, <1>2, <1>3, <1>4, <1>5, WriteAdvances DEF ClaimUnknown

LEMMA ClaimDueUnknownAdvances ==
  ASSUME Promised, NEW w \in Workers, ClaimDueUnknown(w) PROVE Advances
<1> w \in Actors
  BY DEF Actors
<1>1. UNCHANGED <<records, stray>>
  BY DEF ClaimDueUnknown, remote
<1>2. MemoryFits(At(w, "poll_due", "none")) /\ ~Busy(At(w, "poll_due", "none"))
  BY AtFits, TurnedQuiet DEF Promised, Leased, Fits, Steps, Answers, Working, Looked
<1>3. CASE Goto(w, "poll_due", "none") /\ UNCHANGED intent
  BY <1>1, <1>2, <1>3, QuietAdvances DEF Goto
<1> QED
  BY <1>1, <1>3, ClaimUnknownAdvances DEF ClaimDueUnknown

(* A due row says that there is no record, so a claim starts from none. *)
LEMMA ClaimDueAdvances == ASSUME Promised, NEW w \in Workers, ClaimDue(w) PROVE Advances
<1> w \in Actors
  BY DEF Actors
<1>1. UNCHANGED <<records, stray>>
  BY DEF ClaimDue, remote
<1>2. CASE Leave(w) /\ UNCHANGED intent
  BY <1>1, <1>2, LeaveAdvances
<1>3. ASSUME NEW i \in Intents, Due(i),
             intent' = [intent EXCEPT ![i] =
                          [Row("in_flight", @.attempts + 1, "none")
                             EXCEPT !.owner = WorkerId[w], !.live = TRUE]],
             SavedBy(w, i, Taking(w, i, "load"))
      PROVE  Advances
  <2> DEFINE row == [Row("in_flight", intent[i].attempts + 1, "none")
                       EXCEPT !.owner = WorkerId[w], !.live = TRUE]
             mem == Taking(w, i, "load")
  <2>1. intent' = [intent EXCEPT ![i] = row]
    BY <1>3, Parts
  <2>2. intent[i].attempts + 1 \in 0 .. MaxAttempts
    BY <1>3, AttemptsAssumption
       DEF Due, Promised, Leased, Fits, RowsFit, RowFits, IntentRow
  <2>3. row \in IntentRow /\ row.status = "in_flight" /\ row.owner = WorkerId[w]
    BY <2>2, NameAssumption DEF IntentRow, Row, WriteStatuses, Codes
  <2>4. mem \in Memory
    BY TakingFits DEF Promised, Leased, Fits, MemoryFits, Steps
  <2>5. mem.step = "load" /\ mem.intent = i
    BY Parts DEF Taking, Memory
  <2>6. records[i] = 0 /\ stray[i] = 0 /\ Unwatched(i)
    BY <1>3, UnwatchedWhen
       DEF Due, Promised, RowsClean, RowClean, Unwritten, Unwatched
  <2> HIDE DEF row, mem
  <2>7. RowClean(row, records[i], stray[i])
    BY <2>6 DEF RowClean
  <2>8. Clean(w, mem, row, records[i], stray[i])
    BY <2>5, <2>6 DEF Clean, Sending
  <2>9. Turns(i, row)
    BY <1>3, <2>3 DEF Turns, Outcome, Due
  <2>10. Writes(w, i, row, mem)
    BY <1>1, <1>3, <2>1, <2>3, <2>5, <2>6, <2>7, <2>8, <2>9 DEF Writes, mem
  <2> QED
    BY <2>3, <2>4, <2>10 DEF Advances
<1> QED
  BY <1>2, <1>3 DEF ClaimDue

LEMMA LoadExecutionAdvances ==
  ASSUME Promised, NEW w \in Workers, LoadExecution(w) PROVE Advances
<1> w \in Actors
  BY DEF Actors
<1> DEFINE i == actor[w].intent
           known == [At(w, "record", "success") EXCEPT !.seen = TRUE]
           taken == [At(w, "permit", "none") EXCEPT !.seen = TRUE]
<1>1. i \in Intents /\ UNCHANGED <<intent, records, stray>>
  BY LookedAt DEF LoadExecution, Working, store, remote, Promised
<1>2. CASE Leave(w)
  BY <1>1, <1>2, LeaveAdvances
<1>3. CASE actor' = [actor EXCEPT ![w] = known]
  <2>1. known.step = "record" /\ known.answer = "success"
    BY AtHolds
  <2>2. Clean(w, known, intent[i], records[i], stray[i])
    BY <2>1 DEF Clean, Runs, Executing, Sending
  <2> QED
    BY <1>1, <1>3, <2>2, AtAdvances DEF Steps, Answers
<1>4. CASE /\ intent[i].status = "in_flight" /\ intent[i].owner = WorkerId[w]
           /\ actor' = [actor EXCEPT ![w] = taken]
  <2>1. taken.step = "permit" /\ taken.answer = "none"
    BY AtHolds
  <2>2. Runs(w, actor[w], intent[i]) /\ Unmade(actor[w]) /\ Busy(actor[w])
    BY <1>4 DEF LoadExecution, Runs, Unmade, Busy
  <2>3. stray[i] = 0 /\ records[i] = 0
    BY <2>2 DEF Promised, ActorsClean, Clean
  <2>4. Clean(w, taken, intent[i], records[i], stray[i])
    BY <2>1, <2>3 DEF Clean, Sending
  <2> QED
    BY <1>1, <1>4, <2>4, AtAdvances DEF Steps, Answers
<1> QED
  BY <1>2, <1>3, <1>4 DEF LoadExecution

(* Whoever runs a row after looking or calling ran it before. *)
LEMMA StillRuns ==
  ASSUME Promised, NEW a \in Actors, actor[a].step \in {"permit", "calling"},
         NEW mem, mem.step # "load", mem.seen = actor[a].seen,
         Runs(a, mem, intent[actor[a].intent])
  PROVE  LET i == actor[a].intent IN
         stray[i] = 0 /\ (Unmade(actor[a]) => records[i] = 0)
<1>1. Runs(a, actor[a], intent[actor[a].intent]) /\ Busy(actor[a])
  BY DEF Runs, Executing, Busy, Looked
<1> QED
  BY <1>1 DEF Promised, ActorsClean, Clean

(* Nothing is sent before the row has been looked at again. *)
LEMMA PermitAdvances == ASSUME Promised, NEW w \in Workers, Permit(w) PROVE Advances
<1> w \in Actors
  BY DEF Actors
<1> DEFINE i == actor[w].intent
<1>1. i \in Intents /\ UNCHANGED <<intent, records, stray>>
  BY LookedAt DEF Permit, Working, store, remote, Promised
<1>2. actor[w].step = "permit" /\ Unmade(actor[w])
  BY DEF Permit, Unmade
<1>3. CASE actor[w].seen /\ intent[i].live /\ Goto(w, "calling", "none")
  <2> DEFINE mem == At(w, "calling", "none")
  <2>1. mem.step = "calling" /\ mem.answer = "none" /\ mem.seen = actor[w].seen
    BY AtHolds
  <2>2. actor' = [actor EXCEPT ![w] = mem]
    BY <1>3 DEF Goto
  <2> HIDE DEF mem
  <2>3. Runs(w, mem, intent[i]) => stray[i] = 0 /\ records[i] = 0
    BY <1>2, <2>1, StillRuns
  <2>4. Clean(w, mem, intent[i], records[i], stray[i])
    BY <1>3, <2>1, <2>3 DEF Clean
  <2> QED
    BY <1>1, <2>2, <2>4, AtAdvances DEF Steps, Answers, mem
<1>4. ASSUME NEW answer \in {"permanent", "retryable"}, Goto(w, "record", answer)
      PROVE  Advances
  <2> DEFINE mem == At(w, "record", answer)
  <2>1. mem.step = "record" /\ mem.seen = actor[w].seen
    BY AtHolds
  <2>2. actor' = [actor EXCEPT ![w] = mem]
    BY <1>4 DEF Goto
  <2> HIDE DEF mem
  <2>3. Runs(w, mem, intent[i]) => stray[i] = 0 /\ records[i] = 0
    BY <1>2, <2>1, StillRuns
  <2>4. Clean(w, mem, intent[i], records[i], stray[i])
    BY <2>1, <2>3 DEF Clean, Sending
  <2> QED
    BY <1>1, <2>2, <2>4, AtAdvances DEF Steps, Answers, mem
<1> QED
  BY <1>3, <1>4 DEF Permit

(* Only the connector's word says that a create it was sent was not made. *)
LEMMA GatewayAnswersAdvances ==
  ASSUME Punctual, Promised, NEW w \in Workers, GatewayAnswers(w) PROVE Advances
<1> w \in Actors
  BY DEF Actors
<1> DEFINE i == actor[w].intent
<1>1. i \in Intents /\ UNCHANGED <<intent, records>> /\ actor[w].step = "calling"
  BY LookedAt DEF GatewayAnswers, Working, store, Promised
<1>2. stray' = stray
  BY <1>1, Parts DEF GatewayAnswers
<1>3. ASSUME NEW answer \in {"success", "retryable", "permanent", "conflict", "unknown"},
             Goto(w, "record", answer),
             answer \in {"retryable", "permanent"} => actor[w].answer # "applied"
      PROVE  Advances
  <2> DEFINE mem == At(w, "record", answer)
  <2>1. mem.step = "record" /\ mem.answer = answer /\ mem.seen = actor[w].seen
    BY AtHolds
  <2>2. actor' = [actor EXCEPT ![w] = mem]
    BY <1>3 DEF Goto
  <2> HIDE DEF mem
  <2>3. Runs(w, mem, intent[i]) => stray[i] = 0 /\ (Unmade(actor[w]) => records[i] = 0)
    BY <1>1, <2>1, StillRuns
  <2>4. Unmade(mem) => Unmade(actor[w])
    BY <1>1, <1>3, <2>1 DEF Unmade, Sending
  <2>5. Clean(w, mem, intent[i], records[i], stray[i])
    BY <2>1, <2>3, <2>4 DEF Clean, Sending
  <2>6. Busy(mem) => Clean(w, mem, intent[i], records[i], stray[i])
    BY <2>5
  <2> QED
    BY <1>1, <1>2, <2>2, <2>6, AtAdvances DEF Steps, Answers, mem
<1> QED
  BY <1>3 DEF GatewayAnswers

LEMMA RecordSuccessAdvances ==
  ASSUME Promised, NEW w \in Workers, RecordSuccess(w) PROVE Advances
<1> w \in Actors
  BY DEF Actors
<1>1. actor[w].intent \in Intents /\ records[actor[w].intent] > 0
  BY DEF RecordSuccess, Promised, Agreed, Vouched, Vouches, Vouching
<1> QED
  BY <1>1, StoreReceiptAdvances DEF RecordSuccess, remote

(* A failure is recorded by the only loop that runs the row. *)
LEMMA RecordFailureAdvances ==
  ASSUME OwnNames, Promised, NEW w \in Workers, RecordFailure(w) PROVE Advances
<1> w \in Actors
  BY DEF Actors
<1> DEFINE i == actor[w].intent  row == FailedRow(i, actor[w].answer)
<1>1. i \in Intents /\ UNCHANGED <<records, stray>>
  BY LookedAt DEF RecordFailure, Working, remote, Promised
<1>2. CASE i \in receipt
  BY <1>1, <1>2, LeaveAdvances
     DEF RecordFailure, CommitSuccess, Promised, Agreed, ReceiptsAgree
<1>3. CASE i \notin receipt /\ ~actor[w].seen
  BY <1>1, <1>3, LeaveAdvances DEF RecordFailure
<1>4. CASE i \notin receipt /\ actor[w].seen
  <2>1. actor[w].step = "record" /\ actor[w].answer # "success" /\ SaveAndReduce(w, i, row)
    BY <1>4 DEF RecordFailure
  <2>2. intent[i].status = "in_flight" /\ Runs(w, actor[w], intent[i]) /\ Busy(actor[w])
    BY <1>4, <2>1
       DEF Promised, Leased, Snapshots, Snapped, Executing, Looked, Runs, Busy
  <2>3. stray[i] = 0 /\ (Unmade(actor[w]) => records[i] = 0)
    BY <2>2 DEF Promised, ActorsClean, Clean
  <2>4. Unwatched(i)
    <3>1. ASSUME NEW b \in Actors, Sending(actor[b]), actor[b].intent = i PROVE FALSE
      <4>1. Runs(b, actor[b], intent[i])
        BY <3>1, SenderRuns DEF Runs, Executing, Sending
      <4>2. b = w
        BY <2>2, <4>1, RunnersAgree
      <4> QED
        BY <2>1, <3>1, <4>2 DEF Sending
    <3> QED
      BY <2>3, <3>1 DEF Unwatched
  <2>5. RowFits(row)
    BY <1>1, FailedFits DEF Promised, Leased, Fits
  <2>6. /\ row.status \in {"unknown", "retry_wait", "permanent_failed"}
        /\ row.status = "unknown" => actor[w].answer = "unknown"
        /\ row.status = "permanent_failed" /\ row.code # "definite" =>
             row.code = "ambiguous" /\ actor[w].answer = "conflict"
        /\ row.status = "retry_wait" \/ (row.status = "permanent_failed" /\ row.code = "definite")
             => actor[w].answer \notin {"unknown", "conflict"}
    BY DEF FailedRow, Doubted, Moved, Row
  <2> HIDE DEF row, i
  <2>7. Unwritten(row) => records[i] = 0
    BY <2>1, <2>3, <2>6 DEF Unwritten, Unmade
  <2>8. Turns(i, row)
    BY <2>2, <2>6, <2>7 DEF Turns, Outcome, Unwritten
  <2> QED
    BY <1>1, <2>1, <2>4, <2>5, <2>6, <2>7, <2>8, SaveAndReduceAdvances
<1> QED
  BY <1>2, <1>3, <1>4

LEMMA LoadReconciliationAdvances ==
  ASSUME Promised, NEW a \in Actors, LoadReconciliation(a) PROVE Advances
<1> DEFINE i == actor[a].intent
<1>1. i \in Intents /\ UNCHANGED <<intent, records, stray>>
  BY LookedAt DEF LoadReconciliation, Working, store, remote, Promised
<1>2. CASE Raise(a)
  BY <1>1, <1>2, LeaveAdvances
<1>3. ASSUME NEW step \in {"rrecord", "lookup"}, NEW answer \in {"found", "none"},
             step = "rrecord" => answer = "found",
             actor' = [actor EXCEPT ![a] = [At(a, step, answer) EXCEPT !.seen = TRUE]]
      PROVE  Advances
  <2> DEFINE mem == [At(a, step, answer) EXCEPT !.seen = TRUE]
  <2>1. mem.step = step /\ mem.answer = answer
    BY AtHolds
  <2> HIDE DEF mem
  <2>2. Clean(a, mem, intent[i], records[i], stray[i])
    BY <1>3, <2>1 DEF Clean, Runs, Executing, Sending
  <2> QED
    BY <1>1, <1>3, <2>2, AtAdvances DEF Steps, Answers, mem
<1> QED
  BY <1>2, <1>3 DEF LoadReconciliation

LEMMA LookupAdvances == ASSUME Promised, NEW a \in Actors, Lookup(a) PROVE Advances
<1> DEFINE i == actor[a].intent
<1>1. i \in Intents /\ UNCHANGED <<intent, records, stray>>
  BY LookedAt DEF Lookup, Working, store, remote, Promised
<1>2. PICK answer \in {"found", "absent", "error"} :
        Goto(a, "rrecord", answer) /\ (answer = "absent" => ~(records[i] > 0))
  BY DEF Lookup
<1> DEFINE mem == At(a, "rrecord", answer)
<1>3. mem.step = "rrecord" /\ mem.answer = answer
  BY AtHolds
<1>4. actor' = [actor EXCEPT ![a] = mem]
  BY <1>2 DEF Goto
<1> HIDE DEF mem
<1>5. Clean(a, mem, intent[i], records[i], stray[i])
  BY <1>1, <1>2, <1>3, Parts DEF Clean, Runs, Executing, Sending
<1> QED
  BY <1>1, <1>4, <1>5, AtAdvances DEF Steps, Answers, mem

(* A confirmed absence still holds when it is recorded. *)
LEMMA RecordReconciliationAdvances ==
  ASSUME Promised, NEW a \in Actors, RecordReconciliation(a) PROVE Advances
<1> DEFINE i == actor[a].intent
<1>1. i \in Intents /\ UNCHANGED <<records, stray>> /\ actor[a].step = "rrecord"
  BY LookedAt DEF RecordReconciliation, Working, remote, Promised
<1>2. CASE Leave(a) /\ UNCHANGED store
  BY <1>1, <1>2, LeaveAdvances DEF store
<1>3. CASE actor[a].answer = "found" /\ StoreReceipt(a, i)
  <2>1. records[i] > 0
    BY <1>3 DEF Promised, Agreed, Vouched, Vouches, Vouching
  <2> QED
    BY <1>1, <1>3, <2>1, StoreReceiptAdvances
<1>4. ASSUME NEW row, MayRecord(a, i), SaveAndReduce(a, i, row),
             \/ actor[a].answer = "absent" /\ row = AbsentRow(i)
             \/ row = Moved(i, "unknown", "ambiguous")
      PROVE  Advances
  <2>1. intent[i].status = "unknown" /\ actor[a].seen /\ Unwatched(i)
    BY <1>1, <1>4, UnwatchedWhen DEF MayRecord, HoldsReconcileLease
  <2>2. RowFits(row)
    BY <1>1, <1>4, AbsentFits, MovedFits DEF Promised, Leased, Fits
  <2>3. actor[a].answer = "absent" => records[i] = 0
    BY <1>1, <2>1 DEF Promised, ActorsClean, Clean, Busy, Looked
  <2>4. /\ row.status \in {"unknown", "retry_wait", "permanent_failed"}
        /\ row.status = "permanent_failed" => row.code = "definite"
        /\ row.status # "unknown" => actor[a].answer = "absent"
    BY <1>4 DEF AbsentRow, Moved, Row
  <2> HIDE DEF i
  <2>5. Unwritten(row) => records[i] = 0
    BY <2>3, <2>4 DEF Unwritten
  <2>6. Turns(i, row)
    BY <2>1, <2>3, <2>4 DEF Turns, Outcome
  <2> QED
    BY <1>1, <1>4, <2>1, <2>2, <2>4, <2>5, <2>6, SaveAndReduceAdvances
<1> QED
  BY <1>2, <1>3, <1>4 DEF RecordReconciliation

LEMMA SelectAndClaimAdvances ==
  ASSUME Promised, NEW o \in Operators, NEW k \in Keys, NEW kind \in Kinds,
         NEW chosen \in SUBSET Intents \ {{}}, SelectAndClaim(o, k, kind, chosen)
  PROVE  Advances
<1> o \in Actors
  BY DEF Actors
<1> DEFINE mem == [Clear(o, "next") EXCEPT
                     !.key = k,
                     !.todo = [i \in Intents |-> IF i \in chosen THEN Plan(kind, i)
                                                 ELSE "done"]]
<1>1. actor' = [actor EXCEPT ![o] = mem] /\ UNCHANGED <<intent, records, stray>>
  BY DEF SelectAndClaim, store, remote
<1>2. mem.step = "next"
  BY Parts DEF Clear, Memory
<1>3. MemoryFits(mem)
  <2>1. MemoriesFit'
    BY SelectAndClaimFits DEF Promised, Leased, Fits
  <2>2. actor'[o] = mem
    BY <1>1, Parts
  <2> QED
    BY <2>1, <2>2 DEF MemoriesFit, MemoryFits
<1> HIDE DEF mem
<1> QED
  BY <1>1, <1>2, <1>3, QuietAdvances DEF Busy, Looked

LEMMA RenewAdvances == ASSUME Promised, NEW o \in Operators, Renew(o) PROVE Advances
<1> o \in Actors
  BY DEF Actors
<1>1. UNCHANGED <<intent, records, stray>>
  BY DEF Renew, store, remote
<1>2. CASE Raise(o)
  BY <1>1, <1>2, LeaveAdvances
<1>3. ASSUME NEW i \in ToDo(o),
             actor' = [actor EXCEPT ![o] = Taking(o, i, actor[o].todo[i])]
      PROVE  Advances
  <2>1. i \in Intents /\ actor[o].todo[i] \in Plans
    BY Parts DEF ToDo, Memory
  <2>2. MemoryFits(Taking(o, i, actor[o].todo[i]))
    <3>1. actor[o].todo[i] \in Steps
      BY <2>1, <1>3 DEF ToDo, Plans, Steps
    <3> QED
      BY <2>1, <3>1, TakingFits DEF Promised, Leased, Fits
  <2>3. ~Busy(Taking(o, i, actor[o].todo[i]))
    BY <2>1, TurnedQuiet DEF Plans, Looked
  <2> QED
    BY <1>1, <1>3, <2>2, <2>3, QuietAdvances
<1> QED
  BY <1>2, <1>3 DEF Renew

LEMMA ForceClaimAdvances == ASSUME Promised, NEW o \in Operators, ForceClaim(o) PROVE Advances
<1> o \in Actors
  BY DEF Actors
<1>1. actor[o].intent \in Intents /\ UNCHANGED <<records, stray>>
  BY LookedAt DEF ForceClaim, Working, remote, Promised
<1>2. CASE Goto(o, "reread", "none") /\ UNCHANGED intent
  <2>1. MemoryFits(At(o, "reread", "none")) /\ ~Busy(At(o, "reread", "none"))
    BY <1>1, AtFits, TurnedQuiet DEF Promised, Leased, Fits, Steps, Answers, Looked
  <2> QED
    BY <1>1, <1>2, <2>1, QuietAdvances DEF Goto
<1> QED
  BY <1>1, <1>2, ClaimUnknownAdvances DEF ForceClaim

LEMMA RereadAdvances == ASSUME Promised, NEW o \in Operators, Reread(o) PROVE Advances
BY LeaveAdvances DEF Reread, Actors, store, remote

LEMMA PrepareAdvances == ASSUME Promised, NEW o \in Operators, Prepare(o) PROVE Advances
<1> o \in Actors
  BY DEF Actors
<1> DEFINE i == actor[o].intent
<1>1. i \in Intents /\ UNCHANGED <<records, stray>>
  BY LookedAt DEF Prepare, Working, remote, Promised
<1>2. MemoryFits(At(o, "reconcile", "none")) /\ ~Busy(At(o, "reconcile", "none"))
  BY <1>1, AtFits, TurnedQuiet DEF Promised, Leased, Fits, Steps, Answers, Looked
<1>3. CASE Goto(o, "reconcile", "none") /\ UNCHANGED intent
  BY <1>1, <1>2, <1>3, QuietAdvances DEF Goto
<1>4. CASE Leave(o) /\ UNCHANGED intent
  BY <1>1, <1>4, LeaveAdvances
<1>5. CASE /\ RequiresReconciliation(i)
           /\ intent' = [intent EXCEPT ![i] = Doubted(i)]
           /\ SavedBy(o, i, At(o, "reconcile", "none"))
  <2>1. intent[i].status = "permanent_failed" /\ intent[i].code = "ambiguous" /\ Unwatched(i)
    BY <1>1, <1>5, UnwatchedWhen DEF RequiresReconciliation
  <2>2. RowFits(Doubted(i))
    BY <1>1, DoubtedFits DEF Promised, Leased, Fits
  <2>3. Doubted(i).status = "unknown"
    BY DEF Doubted, Moved, Row
  <2>4. ~Unwritten(Doubted(i)) /\ Turns(i, Doubted(i))
    BY <2>1, <2>3 DEF Unwritten, Turns, Outcome
  <2> QED
    BY <1>1, <1>2, <1>5, <2>1, <2>2, <2>3, <2>4, WriteAdvances
<1> QED
  BY <1>3, <1>4, <1>5 DEF Prepare

(* Only a definite failure is queued again. *)
LEMMA QueueRetryAdvances == ASSUME Promised, NEW o \in Operators, QueueRetry(o) PROVE Advances
<1> o \in Actors
  BY DEF Actors
<1> DEFINE i == actor[o].intent
<1>1. i \in Intents /\ UNCHANGED <<records, stray>>
  BY LookedAt DEF QueueRetry, Working, remote, Promised
<1>2. CASE Leave(o) /\ UNCHANGED intent
  BY <1>1, <1>2, LeaveAdvances
<1>3. CASE /\ CanDirectRetry(i)
           /\ intent' = [intent EXCEPT ![i] = Moved(i, "retry_wait", @.code)]
           /\ SavedBy(o, i, After(o))
  <2> DEFINE row == Moved(i, "retry_wait", intent[i].code)
  <2>1. intent' = [intent EXCEPT ![i] = row]
    BY <1>1, <1>3, Parts
  <2>2. intent[i].status = "permanent_failed" /\ intent[i].code = "definite"
        /\ intent[i].attempts < MaxAttempts /\ Unwatched(i)
    BY <1>1, <1>3, UnwatchedWhen
       DEF CanDirectRetry, RequiresReconciliation, Promised, Leased, Fits, RowsFit, RowFits,
           IntentRow, Codes
  <2>3. RowFits(row)
    BY <1>1, <2>2, MovedFits DEF Promised, Leased, Fits
  <2>4. MemoryFits(After(o)) /\ ~Busy(After(o))
    BY AfterFits, TurnedQuiet DEF Promised, Leased, Fits
  <2>5. row.status = "retry_wait"
    BY DEF Moved, Row
  <2>6. records[i] = 0
    BY <1>1, <2>2 DEF Promised, RowsClean, RowClean, Unwritten
  <2> HIDE DEF row, i
  <2>7. Turns(i, row)
    BY <2>2, <2>5 DEF Turns, Outcome
  <2> QED
    BY <1>1, <1>3, <2>1, <2>2, <2>3, <2>4, <2>5, <2>6, <2>7, WriteAdvances
<1> QED
  BY <1>2, <1>3 DEF QueueRetry

LEMMA CompleteAdvances == ASSUME Promised, NEW o \in Operators, Complete(o) PROVE Advances
<1> o \in Actors
  BY DEF Actors
<1> QED
  BY IdleFits, TurnedQuiet, QuietAdvances, LeaveAdvances DEF Complete, store, remote

LEMMA ReleaseAdvances == ASSUME Promised, NEW o \in Operators, Release(o) PROVE Advances
<1> o \in Actors
  BY DEF Actors
<1> QED
  BY IdleFits, TurnedQuiet, QuietAdvances DEF Release, store, remote

LEMMA RequestRaisesAdvances ==
  ASSUME Promised, NEW o \in Operators, RequestRaises(o) PROVE Advances
BY LeaveAdvances DEF RequestRaises, Actors, store, remote

LEMMA AbsenceRaisesAdvances ==
  ASSUME Promised, NEW a \in Actors, AbsenceRaises(a) PROVE Advances
<1> DEFINE i == actor[a].intent  mem == At(a, "rrecord", "error")
<1>1. i \in Intents /\ UNCHANGED <<intent, records, stray>>
  BY LookedAt DEF AbsenceRaises, Working, store, remote, Promised
<1>2. mem.step = "rrecord" /\ mem.answer = "error"
  BY AtHolds
<1>3. Clean(a, mem, intent[i], records[i], stray[i])
  BY <1>2 DEF Clean, Runs, Executing, Sending
<1>4. actor' = [actor EXCEPT ![a] = mem]
  BY DEF AbsenceRaises, Goto
<1> QED
  BY <1>1, <1>3, <1>4, AtAdvances DEF Steps, Answers

LEMMA StepAdvances == ASSUME Punctual, OwnNames, Promised, [Next]_vars PROVE Advances
<1>1. CASE UNCHANGED vars
  BY <1>1 DEF vars, store, remote, Advances
<1>2. ASSUME NEW w \in Workers, Deliver(w) \/ ConnectorApplies(w) PROVE Advances
  <2>1. CASE ConnectorApplies(w)
    BY <2>1 DEF Advances
  <2> QED
    BY <1>2, <2>1, RecoverAdvances, ClaimDueUnknownAdvances, ClaimDueAdvances,
       LoadExecutionAdvances, PermitAdvances, GatewayAnswersAdvances, RecordSuccessAdvances,
       RecordFailureAdvances DEF Deliver
<1>3. ASSUME NEW a \in Actors, Reconcile(a) \/ Crash(a) \/ AbsenceRaises(a) PROVE Advances
  <2>1. CASE Crash(a)
    BY <2>1 DEF Advances
  <2> QED
    BY <1>3, <2>1, LoadReconciliationAdvances, LookupAdvances, RecordReconciliationAdvances,
       AbsenceRaisesAdvances DEF Reconcile
<1>4. ASSUME NEW o \in Operators, Request(o) \/ Serve(o) \/ RequestRaises(o) PROVE Advances
  BY <1>4, SelectAndClaimAdvances, RenewAdvances, ForceClaimAdvances, RereadAdvances,
     PrepareAdvances, QueueRetryAdvances, CompleteAdvances, ReleaseAdvances,
     RequestRaisesAdvances DEF Request, Serve
<1>5. ASSUME NEW i \in Intents, StrayEnds(i) \/ LeaseExpires(i) \/ BecomesDue(i) PROVE Advances
  BY <1>5 DEF Advances
<1>6. ASSUME NEW k \in Keys, OperationLeaseExpires(k) PROVE Advances
  BY <1>6 DEF OperationLeaseExpires, store, remote, Advances
<1> QED
  BY <1>1, <1>2, <1>3, <1>4, <1>5, <1>6 DEF Next

LEMMA InitPromised == Init => Promised
<1> SUFFICES ASSUME Init PROVE Promised
  OBVIOUS
<1>1. RowsClean
  BY DEF Init, RowsClean, RowClean
<1>2. ActorsClean
  BY DEF Init, ActorsClean, Idle, Busy, Looked
<1> QED
  BY <1>1, <1>2, InitAgreed, InitLeased DEF Promised

LEMMA StepPromised ==
  Punctual /\ OwnNames => (Promised /\ [Next]_vars => Promised')
BY StepAdvances, AdvancesKeeps, StepAgreed, StepLeased DEF Promised

-----------------------------------------------------------------------------
(* The outbox takes each of these steps, or none.                           *)

Reported == [i \in Intents |-> Outcome(intent[i])]

(* Only the status and the code of a row are reported. *)
LEMMA SameReport ==
  ASSUME \A i \in Intents : intent'[i].status = intent[i].status /\ intent'[i].code = intent[i].code
  PROVE  Reported' = Reported
BY DEF Reported, Outcome

LEMMA WritesReports ==
  ASSUME Promised, NEW a \in Actors, NEW i \in Intents, NEW row \in IntentRow,
         NEW mem \in Memory, Writes(a, i, row, mem)
  PROVE  UNCHANGED <<Reported, records>> \/ Promise!Next
<1>1. intent'[i] = row /\ \A j \in Intents : j # i => intent'[j] = intent[j]
  BY Parts DEF Writes
<1>2. records' = records /\ Turns(i, row)
  BY DEF Writes
<1>3. records[i] > 0 => records[i] = 1
  BY Parts DEF Promised, RowsClean, RowClean
<1>4. Reported' = [Reported EXCEPT ![i] = Outcome(row)] /\ Reported[i] = Outcome(intent[i])
  BY <1>1 DEF Reported
<1>5. CASE Outcome(row) = Outcome(intent[i])
  BY <1>2, <1>4, <1>5 DEF Reported
<1>6. CASE Outcome(row) # Outcome(intent[i])
  <2>1. Promise!Deliver(i) \/ Promise!Fail(i) \/ Promise!Doubt(i) \/ Promise!Reopen(i)
    BY <1>2, <1>3, <1>4, <1>6
       DEF Turns, Reported, Promise!Deliver, Promise!Fail, Promise!Doubt, Promise!Reopen,
           Promise!Report
  <2> QED
    BY <2>1 DEF Promise!Next
<1> QED
  BY <1>5, <1>6

LEMMA MakesReports ==
  ASSUME Promised, NEW i \in Intents, intent[i].status = "in_flight", records[i] = 0,
         Create(i), UNCHANGED intent
  PROVE  Promise!Next
<1>1. records' = [records EXCEPT ![i] = 1]
  BY Parts DEF Create
<1>2. Reported[i] = "open" /\ Reported' = Reported
  BY DEF Reported, Outcome
<1>3. Promise!Make(i)
  BY <1>1, <1>2 DEF Promise!Make, Reported
<1> QED
  BY <1>3 DEF Promise!Next

LEMMA AdvancesReports ==
  ASSUME Promised, Advances
  PROVE  UNCHANGED <<Reported, records>> \/ Promise!Next
<1>1. CASE UNCHANGED <<intent, records>>
  BY <1>1, SameReport
<1>2. ASSUME NEW a \in Actors, NEW i \in Intents, NEW row \in IntentRow, NEW mem \in Memory,
             Writes(a, i, row, mem)
      PROVE  UNCHANGED <<Reported, records>> \/ Promise!Next
  BY <1>2, WritesReports
<1>3. ASSUME NEW w \in Workers, ConnectorApplies(w)
      PROVE  UNCHANGED <<Reported, records>> \/ Promise!Next
  <2>1. w \in Actors /\ Sending(actor[w])
    BY <1>3 DEF Actors, ConnectorApplies, Sending
  <2>2. /\ actor[w].intent \in Intents /\ intent[actor[w].intent].status = "in_flight"
        /\ records[actor[w].intent] = 0
    BY <2>1, SenderRuns
  <2> QED
    BY <1>3, <2>2, MakesReports DEF ConnectorApplies, store
<1>4. ASSUME NEW i \in Intents, StrayEnds(i)
      PROVE  UNCHANGED <<Reported, records>> \/ Promise!Next
  <2>1. intent[i].status = "in_flight" /\ records[i] = 0
    BY <1>4 DEF StrayEnds, Promised, RowsClean, RowClean
  <2> QED
    BY <1>1, <1>4, <2>1, MakesReports DEF StrayEnds, store
<1>5. ASSUME NEW i \in Intents, LeaseExpires(i) \/ BecomesDue(i)
      PROVE  UNCHANGED <<Reported, records>> \/ Promise!Next
  <2>1. \A j \in Intents : intent'[j].status = intent[j].status /\ intent'[j].code = intent[j].code
    BY <1>5, Parts DEF LeaseExpires, BecomesDue, IntentRow
  <2>2. UNCHANGED records
    BY <1>5 DEF LeaseExpires, BecomesDue, remote
  <2> QED
    BY <2>1, <2>2, SameReport
<1>6. ASSUME NEW a \in Actors, Crash(a)
      PROVE  UNCHANGED <<Reported, records>> \/ Promise!Next
  BY <1>1, <1>6 DEF Crash, store
<1> QED
  BY <1>1, <1>2, <1>3, <1>4, <1>5, <1>6 DEF Advances, Continues

LEMMA InitReports == Init => Promise!Init
BY DEF Init, Promise!Init, Outcome, Row

(* Delivery implements the outbox (README.md:19, SECURITY.md:122; delivery.py):  *)
(* when exchanges are punctual, whatever the number of writes, delivery loops,   *)
(* operators and attempts and whatever the connector makes of idempotency keys,  *)
(* no record is made twice or for a write no longer open, and no success and no  *)
(* definite failure is reported against what the connector holds, provided that  *)
(* no two delivery loops claim under the same name.                              *)
THEOREM PromiseKept == Punctual /\ OwnNames => (Spec => KeepsPromise)
<1> SUFFICES ASSUME Punctual, OwnNames PROVE Spec => KeepsPromise
  OBVIOUS
<1>1. Promised /\ [Next]_vars => Promised'
  BY StepPromised
<1>2. Promised /\ [Next]_vars => [Promise!Next]_<<Reported, records>>
  BY StepAdvances, AdvancesReports
<1>3. Init => Promised /\ Promise!Init
  BY InitPromised, InitReports
<1> QED
  BY <1>1, <1>2, <1>3, PTL DEF Spec, KeepsPromise, Promise!Spec, Reported
=============================================================================
