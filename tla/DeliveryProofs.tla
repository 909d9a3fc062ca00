--------------------------- MODULE DeliveryProofs ---------------------------
(***************************************************************************)
(* What holds of Delivery for every set of intents, loops, operators and   *)
(* keys, every limit of attempts, and whatever the connector does.         *)
(***************************************************************************)
EXTENDS Delivery, TLAPS

-----------------------------------------------------------------------------
(* Type correctness.                                                       *)

(* The steps at which an actor is at work on an intent. *)
Working ==
  {"load", "permit", "calling", "record", "rload", "lookup", "rrecord",
   "reconcile", "reread", "prepare", "queue"}

(* One row of write_intents, with what the claim relies on: an intent that may *)
(* be claimed has an attempt left.                                             *)
RowFits(row) ==
  /\ row \in IntentRow
  /\ row.status = "in_flight" => row.owner \in Names
  /\ row.owner # Nobody => row.status \in {"in_flight", "unknown"}
  /\ row.live => row.owner # Nobody
  /\ row.due => row.status \in {"retry_wait", "unknown"}
  /\ row.code = "none" <=> row.status \in {"pending", "in_flight", "succeeded"}
  /\ row.status \in {"pending", "retry_wait"} => row.attempts < MaxAttempts

(* One actor's memory: whoever is at work has an intent. *)
MemoryFits(mem) == mem \in Memory /\ (mem.step \in Working => mem.intent \in Intents)

RowsFit == intent \in [Intents -> IntentRow] /\ \A i \in Intents : RowFits(intent[i])
MemoriesFit == actor \in [Actors -> Memory] /\ \A a \in Actors : MemoryFits(actor[a])
RestFits ==
  /\ receipt \subseteq Intents
  /\ meeting \in MeetingStatuses
  /\ op \in [Keys -> OperationRow]
  /\ records \in [Intents -> Nat]
  /\ stray \in [Intents -> Nat]
  /\ faults \in 0 .. MaxFaults

Fits == RowsFit /\ MemoriesFit /\ RestFits

(* Saving a row that fits keeps the rows. *)
LEMMA SaveFits ==
  ASSUME RowsFit, NEW i, NEW row, RowFits(row), intent' = [intent EXCEPT ![i] = row]
  PROVE  RowsFit'
BY DEF RowsFit, RowFits

(* The memories an actor can go on with. *)
LEMMA IdleFits == MemoryFits(Idle)
BY DEF MemoryFits, Idle, Memory, Steps, Answers, Plans, Working

LEMMA ClearFits ==
  ASSUME MemoriesFit, NEW a \in Actors, NEW step \in {"next", "release"}
  PROVE  MemoryFits(Clear(a, step))
BY DEF MemoriesFit, MemoryFits, Clear, Memory, Steps, Answers, Working

LEMMA AfterFits ==
  ASSUME MemoriesFit, NEW a \in Actors
  PROVE  MemoryFits(After(a)) /\ MemoryFits(Raised(a))
BY IdleFits, ClearFits DEF After, Raised

LEMMA AtFits ==
  ASSUME MemoriesFit, NEW a \in Actors, NEW step \in Steps, NEW answer \in Answers,
         step \in Working => actor[a].intent \in Intents
  PROVE  /\ MemoryFits(At(a, step, answer))
         /\ MemoryFits([At(a, step, answer) EXCEPT !.seen = TRUE])
BY DEF MemoriesFit, MemoryFits, At, Memory, Working

LEMMA TakingFits ==
  ASSUME MemoriesFit, NEW a \in Actors, NEW i \in Intents, NEW step \in Steps
  PROVE  MemoryFits(Taking(a, i, step))
<1>1. actor[a] \in Memory
  BY DEF MemoriesFit
<1>2. [actor[a].todo EXCEPT ![i] = "done"] \in [Intents -> Plans]
  BY <1>1 DEF Memory, Plans
<1> QED
  BY <1>1, <1>2 DEF MemoryFits, Taking, Memory, Answers

(* One actor's new memory keeps the memories, *)
LEMMA GoOnFits ==
  ASSUME MemoriesFit, NEW a, NEW mem, MemoryFits(mem),
         actor' = [actor EXCEPT ![a] = mem]
  PROVE  MemoriesFit'
BY DEF MemoriesFit, MemoryFits

(* also when the others' snapshots become stale. *)
LEMMA SavedByFits ==
  ASSUME MemoriesFit, NEW a, NEW i, NEW mem, MemoryFits(mem), SavedBy(a, i, mem)
  PROVE  MemoriesFit'
BY DEF MemoriesFit, MemoryFits, SavedBy, Memory

LEMMA LeaveFits ==
  ASSUME MemoriesFit, NEW a \in Actors, Leave(a) \/ Raise(a)
  PROVE  MemoriesFit'
BY AfterFits, GoOnFits DEF Leave, Raise

LEMMA GotoFits ==
  ASSUME MemoriesFit, NEW a \in Actors, NEW step \in Steps, NEW answer \in Answers,
         step \in Working => actor[a].intent \in Intents, Goto(a, step, answer)
  PROVE  MemoriesFit'
BY AtFits, GoOnFits DEF Goto

(* The rows transition_write_intent makes of a row that fits. *)
LEMMA MovedFits ==
  ASSUME RowsFit, NEW i \in Intents, NEW status, NEW code,
         \/ status = "succeeded" /\ code = "none"
         \/ status = "permanent_failed" /\ code \in {"definite", "ambiguous"}
         \/ status = "retry_wait" /\ code \in {"definite", "ambiguous"}
            /\ intent[i].attempts < MaxAttempts
         \/ status = "unknown" /\ code = "ambiguous"
  PROVE  RowFits(Moved(i, status, code))
BY NameAssumption DEF RowsFit, RowFits, Moved, Row, IntentRow, WriteStatuses, Codes

LEMMA DoubtedFits ==
  ASSUME RowsFit, NEW i \in Intents
  PROVE  RowFits(Doubted(i))
BY MovedFits DEF Doubted, RowFits, Moved, Row, IntentRow

(* The meeting that is reduced is in a meeting status. *)
LEMMA ReducedStatus ==
  ASSUME NEW rows PROVE Reduced(rows) \in MeetingStatuses
BY DEF Reduced, DeriveFilingStatus, MeetingStatuses

(* Saving a row and reducing the meeting. *)
LEMMA SaveAndReduceFits ==
  ASSUME Fits, NEW a \in Actors, NEW i \in Intents, NEW row, RowFits(row),
         SaveAndReduce(a, i, row)
  PROVE  RowsFit' /\ MemoriesFit' /\ meeting' \in MeetingStatuses
<1>1. CASE Accepted(i, row)
  BY <1>1, SaveFits, SavedByFits, AfterFits, ReducedStatus
     DEF SaveAndReduce, Saved, Fits
<1>2. CASE ~Accepted(i, row)
  BY <1>2, LeaveFits DEF SaveAndReduce, Fits, RowsFit, RowFits, RestFits
<1> QED
  BY <1>1, <1>2

LEMMA CommitSuccessFits ==
  ASSUME Fits, NEW a \in Actors, NEW i \in Intents, CommitSuccess(a, i)
  PROVE  RowsFit' /\ MemoriesFit' /\ meeting' \in MeetingStatuses
<1>1. CASE intent[i].status = "succeeded"
  BY <1>1, LeaveFits DEF CommitSuccess, Fits, RowsFit, RowFits, RestFits
<1>2. CASE intent[i].status # "succeeded"
  BY <1>2, SaveAndReduceFits, MovedFits DEF CommitSuccess, Delivered, Fits
<1> QED
  BY <1>1, <1>2

LEMMA StoreReceiptFits ==
  ASSUME Fits, NEW a \in Actors, NEW i \in Intents, StoreReceipt(a, i)
  PROVE  RowsFit' /\ MemoriesFit' /\ meeting' \in MeetingStatuses /\ receipt' \subseteq Intents
<1>1. CASE CommitSuccess(a, i)
  BY <1>1, CommitSuccessFits DEF StoreReceipt, Fits, RestFits, store
<1>2. CASE Leave(a) /\ UNCHANGED store
  BY <1>2, LeaveFits DEF store, Fits, RowsFit, RowFits, RestFits
<1> QED
  BY <1>1, <1>2 DEF StoreReceipt

(* Rows that are not touched still fit. *)
LEMMA SameRows == ASSUME RowsFit, UNCHANGED intent PROVE RowsFit'
BY DEF RowsFit, RowFits

-----------------------------------------------------------------------------
(* The delivery cycle.                                                     *)

LEMMA RecoverFits == ASSUME Fits, NEW w \in Workers, Recover(w) PROVE Fits'
<1> w \in Actors
  BY DEF Actors
<1>1. CASE Goto(w, "poll", "none") /\ UNCHANGED intent
  BY <1>1, GotoFits, SameRows DEF Recover, Fits, RestFits, remote, Steps, Answers, Working
<1>2. ASSUME NEW i \in Intents, intent' = [intent EXCEPT ![i] = Doubted(i)],
             SavedBy(w, i, At(w, "poll", "none"))
      PROVE  Fits'
  <2>1. MemoryFits(At(w, "poll", "none"))
    BY AtFits DEF Fits, Steps, Answers, Working
  <2> QED
    BY <1>2, <2>1, SaveFits, SavedByFits, DoubtedFits DEF Recover, Fits, RestFits, remote
<1> QED
  BY <1>1, <1>2 DEF Recover

(* A reconcile lease fits an unknown row. *)
LEMMA ClaimUnknownFits ==
  ASSUME Fits, NEW a \in Actors, NEW i \in Intents, intent[i].status = "unknown",
         ClaimUnknown(a, i)
  PROVE  RowsFit' /\ MemoriesFit'
<1> DEFINE row == [intent[i] EXCEPT !.owner = a, !.live = TRUE, !.due = TRUE]
<1>1. intent' = [intent EXCEPT ![i] = row]
  BY DEF ClaimUnknown, Fits, RowsFit
<1>2. RowFits(row)
  BY NameAssumption DEF Fits, RowsFit, RowFits, IntentRow
<1>3. MemoryFits(Taking(a, i, "rload"))
  BY TakingFits DEF Fits, Steps
<1> HIDE DEF row
<1> QED
  BY <1>1, <1>2, <1>3, SaveFits, SavedByFits DEF ClaimUnknown, Fits

LEMMA ClaimDueUnknownFits ==
  ASSUME Fits, NEW w \in Workers, ClaimDueUnknown(w) PROVE Fits'
<1> w \in Actors
  BY DEF Actors
<1>1. CASE Goto(w, "poll_due", "none") /\ UNCHANGED intent
  BY <1>1, GotoFits, SameRows
     DEF ClaimDueUnknown, Fits, RestFits, remote, Steps, Answers, Working
<1>2. ASSUME NEW i \in Intents, intent[i].status = "unknown", ClaimUnknown(w, i)
      PROVE  Fits'
  BY <1>2, ClaimUnknownFits DEF ClaimDueUnknown, Fits, RestFits, remote
<1> QED
  BY <1>1, <1>2 DEF ClaimDueUnknown

(* The attempt the claim counts is one that the row had left. *)
LEMMA ClaimDueFits == ASSUME Fits, NEW w \in Workers, ClaimDue(w) PROVE Fits'
<1> w \in Actors
  BY DEF Actors
<1>1. CASE Leave(w) /\ UNCHANGED intent
  BY <1>1, LeaveFits, SameRows DEF ClaimDue, Fits, RestFits, remote
<1>2. ASSUME NEW i \in Intents, Due(i),
             intent' = [intent EXCEPT ![i] =
                          [Row("in_flight", @.attempts + 1, "none")
                             EXCEPT !.owner = WorkerId[w], !.live = TRUE]],
             SavedBy(w, i, Taking(w, i, "load"))
      PROVE  Fits'
  <2> DEFINE row == [Row("in_flight", intent[i].attempts + 1, "none")
                       EXCEPT !.owner = WorkerId[w], !.live = TRUE]
  <2>1. intent' = [intent EXCEPT ![i] = row]
    BY <1>2 DEF Fits, RowsFit
  <2>2. intent[i].attempts + 1 \in 0 .. MaxAttempts
    BY <1>2, AttemptsAssumption DEF Due, Fits, RowsFit, RowFits, IntentRow
  <2>3. WorkerId[w] \in Names /\ WorkerId[w] # Nobody
    BY NameAssumption
  <2>4. RowFits(row)
    BY <2>2, <2>3 DEF RowFits, IntentRow, Row, WriteStatuses, Codes
  <2>5. MemoryFits(Taking(w, i, "load"))
    BY TakingFits DEF Fits, Steps
  <2> HIDE DEF row
  <2> QED
    BY <1>2, <2>1, <2>4, <2>5, SaveFits, SavedByFits DEF ClaimDue, Fits, RestFits, remote
<1> QED
  BY <1>1, <1>2 DEF ClaimDue

LEMMA LoadExecutionFits == ASSUME Fits, NEW w \in Workers, LoadExecution(w) PROVE Fits'
<1> w \in Actors
  BY DEF Actors
<1>1. actor[w].intent \in Intents
  BY DEF LoadExecution, Fits, MemoriesFit, MemoryFits, Working
<1>2. /\ MemoryFits([At(w, "record", "success") EXCEPT !.seen = TRUE])
      /\ MemoryFits([At(w, "permit", "none") EXCEPT !.seen = TRUE])
  BY <1>1, AtFits DEF Fits, Steps, Answers
<1>3. MemoriesFit'
  BY <1>2, GoOnFits, LeaveFits DEF LoadExecution, Fits
<1> QED
  BY <1>3, SameRows DEF LoadExecution, Fits, RestFits, store, remote

LEMMA PermitFits == ASSUME Fits, NEW w \in Workers, Permit(w) PROVE Fits'
<1> w \in Actors
  BY DEF Actors
<1>1. actor[w].intent \in Intents
  BY DEF Permit, Fits, MemoriesFit, MemoryFits, Working
<1>2. MemoriesFit'
  BY <1>1, GotoFits DEF Permit, Fits, Steps, Answers
<1> QED
  BY <1>2, SameRows DEF Permit, Fits, RestFits, store, remote

(* A create leaves one record or one more. *)
LEMMA CreateMakes ==
  ASSUME NEW i, Create(i)
  PROVE  \/ records' = [records EXCEPT ![i] = 1]
         \/ records' = [records EXCEPT ![i] = @ + 1]
<1>1. CASE HonorsKey
  BY <1>1 DEF Create
<1>2. CASE ~HonorsKey
  BY <1>2 DEF Create
<1> QED
  BY <1>1, <1>2

LEMMA CreateFits ==
  ASSUME NEW i \in Intents, records \in [Intents -> Nat], Create(i)
  PROVE  /\ records' \in [Intents -> Nat]
         /\ records'[i] > 0
         /\ \A j \in Intents : records[j] > 0 => records'[j] > 0
BY CreateMakes

LEMMA ConnectorAppliesFits ==
  ASSUME Fits, NEW w \in Workers, ConnectorApplies(w) PROVE Fits'
<1> w \in Actors
  BY DEF Actors
<1>1. actor[w].intent \in Intents
  BY DEF ConnectorApplies, Fits, MemoriesFit, MemoryFits, Working
<1>2. MemoriesFit'
  BY <1>1, GotoFits DEF ConnectorApplies, Fits, Steps, Answers
<1>3. records' \in [Intents -> Nat]
  BY <1>1, CreateFits DEF ConnectorApplies, Fits, RestFits
<1> QED
  BY <1>2, <1>3, SameRows DEF ConnectorApplies, Fits, RestFits, store

LEMMA GatewayAnswersFits ==
  ASSUME Fits, NEW w \in Workers, GatewayAnswers(w) PROVE Fits'
<1> w \in Actors
  BY DEF Actors
<1>1. actor[w].intent \in Intents
  BY DEF GatewayAnswers, Fits, MemoriesFit, MemoryFits, Working
<1>2. PICK answer \in {"success", "retryable", "permanent", "conflict", "unknown"} :
        Goto(w, "record", answer)
  BY DEF GatewayAnswers
<1>3. MemoriesFit'
  BY <1>1, <1>2, GotoFits DEF Fits, Steps, Answers
<1>4. stray' \in [Intents -> Nat]
  BY DEF GatewayAnswers, Fits, RestFits
<1> QED
  BY <1>3, <1>4, SameRows DEF GatewayAnswers, Fits, RestFits, store

LEMMA RecordSuccessFits == ASSUME Fits, NEW w \in Workers, RecordSuccess(w) PROVE Fits'
<1> w \in Actors
  BY DEF Actors
<1>1. actor[w].intent \in Intents
  BY DEF RecordSuccess, Fits, MemoriesFit, MemoryFits, Working
<1> QED
  BY <1>1, StoreReceiptFits DEF RecordSuccess, Fits, RestFits, remote

LEMMA FailedFits ==
  ASSUME RowsFit, NEW i \in Intents, NEW answer
  PROVE  RowFits(FailedRow(i, answer))
<1>1. intent[i].attempts >= MaxAttempts \/ intent[i].attempts < MaxAttempts
  BY AttemptsAssumption DEF RowsFit, IntentRow
<1> QED
  BY <1>1, MovedFits, DoubtedFits DEF FailedRow

LEMMA RecordFailureFits == ASSUME Fits, NEW w \in Workers, RecordFailure(w) PROVE Fits'
<1> w \in Actors
  BY DEF Actors
<1> DEFINE i == actor[w].intent
<1>1. i \in Intents
  BY DEF RecordFailure, Fits, MemoriesFit, MemoryFits, Working
<1>2. CASE CommitSuccess(w, i)
  BY <1>1, <1>2, CommitSuccessFits DEF RecordFailure, Fits, RestFits, remote
<1>3. CASE Leave(w) /\ UNCHANGED <<intent, meeting>>
  BY <1>3, LeaveFits, SameRows DEF RecordFailure, Fits, RestFits, remote
<1>4. CASE SaveAndReduce(w, i, FailedRow(i, actor[w].answer))
  <2>1. RowFits(FailedRow(i, actor[w].answer))
    BY <1>1, FailedFits DEF Fits
  <2> QED
    BY <1>1, <1>4, <2>1, SaveAndReduceFits DEF RecordFailure, Fits, RestFits, remote
<1> QED
  BY <1>2, <1>3, <1>4 DEF RecordFailure

LEMMA StrayEndsFits == ASSUME Fits, NEW i \in Intents, StrayEnds(i) PROVE Fits'
<1>1. records' \in [Intents -> Nat]
  BY CreateFits DEF StrayEnds, Fits, RestFits
<1>2. stray' \in [Intents -> Nat]
  BY DEF StrayEnds, Fits, RestFits
<1> QED
  BY <1>1, <1>2, SameRows DEF StrayEnds, Fits, RestFits, store, MemoriesFit, MemoryFits

-----------------------------------------------------------------------------
(* Reconciliation.                                                         *)

LEMMA LoadReconciliationFits ==
  ASSUME Fits, NEW a \in Actors, LoadReconciliation(a) PROVE Fits'
<1>1. actor[a].intent \in Intents
  BY DEF LoadReconciliation, Fits, MemoriesFit, MemoryFits, Working
<1>2. /\ MemoryFits([At(a, "rrecord", "found") EXCEPT !.seen = TRUE])
      /\ MemoryFits([At(a, "lookup", "none") EXCEPT !.seen = TRUE])
  BY <1>1, AtFits DEF Fits, Steps, Answers
<1>3. MemoriesFit'
  <2>1. CASE Raise(a)
    BY <2>1, LeaveFits DEF Fits
  <2>2. CASE actor' = [actor EXCEPT ![a] =
                         [At(a, "rrecord", "found") EXCEPT !.seen = TRUE]]
    BY <1>2, <2>2, GoOnFits DEF Fits
  <2>3. CASE actor' = [actor EXCEPT ![a] =
                         [At(a, "lookup", "none") EXCEPT !.seen = TRUE]]
    BY <1>2, <2>3, GoOnFits DEF Fits
  <2> QED
    BY <2>1, <2>2, <2>3 DEF LoadReconciliation
<1> QED
  BY <1>3, SameRows DEF LoadReconciliation, Fits, RestFits, store, remote

LEMMA LookupFits == ASSUME Fits, NEW a \in Actors, Lookup(a) PROVE Fits'
<1>1. actor[a].intent \in Intents
  BY DEF Lookup, Fits, MemoriesFit, MemoryFits, Working
<1>2. PICK answer \in {"found", "absent", "error"} : Goto(a, "rrecord", answer)
  BY DEF Lookup
<1>3. MemoriesFit'
  BY <1>1, <1>2, GotoFits DEF Fits, Steps, Answers
<1> QED
  BY <1>3, SameRows DEF Lookup, Fits, RestFits, store, remote

(* A confirmed absence gives back an attempt only where one is left. *)
LEMMA AbsentFits == ASSUME RowsFit, NEW i \in Intents PROVE RowFits(AbsentRow(i))
<1>1. intent[i].attempts >= MaxAttempts \/ intent[i].attempts < MaxAttempts
  BY AttemptsAssumption DEF RowsFit, IntentRow
<1> QED
  BY <1>1, MovedFits DEF AbsentRow

LEMMA RecordReconciliationFits ==
  ASSUME Fits, NEW a \in Actors, RecordReconciliation(a) PROVE Fits'
<1> DEFINE i == actor[a].intent
<1>1. i \in Intents
  BY DEF RecordReconciliation, Fits, MemoriesFit, MemoryFits, Working
<1>2. CASE Leave(a) /\ UNCHANGED store
  BY <1>2, LeaveFits, SameRows DEF RecordReconciliation, Fits, RestFits, remote, store
<1>3. CASE StoreReceipt(a, i)
  BY <1>1, <1>3, StoreReceiptFits DEF RecordReconciliation, Fits, RestFits, remote
<1>4. ASSUME NEW row \in {AbsentRow(i), Moved(i, "unknown", "ambiguous")},
             SaveAndReduce(a, i, row), UNCHANGED receipt
      PROVE  Fits'
  <2>1. RowFits(row)
    BY <1>1, <1>4, AbsentFits, MovedFits DEF Fits
  <2> QED
    BY <1>1, <1>4, <2>1, SaveAndReduceFits DEF RecordReconciliation, Fits, RestFits, remote
<1> QED
  BY <1>2, <1>3, <1>4 DEF RecordReconciliation

-----------------------------------------------------------------------------
(* Requests.                                                               *)

LEMMA SelectAndClaimFits ==
  ASSUME Fits, NEW o \in Operators, NEW k \in Keys, NEW kind \in Kinds,
         NEW chosen \in SUBSET Intents \ {{}}, SelectAndClaim(o, k, kind, chosen)
  PROVE  Fits'
<1> o \in Actors
  BY DEF Actors
<1> DEFINE todo == [i \in Intents |-> IF i \in chosen THEN Plan(kind, i) ELSE "done"]
<1> DEFINE mem == [Clear(o, "next") EXCEPT !.key = k, !.todo = todo]
<1>1. todo \in [Intents -> Plans]
  BY DEF Plan, Plans
<1>2. MemoryFits(mem)
  <2>1. Clear(o, "next") \in Memory /\ Clear(o, "next").step = "next"
    BY ClearFits DEF Fits, MemoriesFit, MemoryFits, Clear, Memory
  <2> HIDE DEF todo
  <2>2. mem \in Memory /\ mem.step = "next"
    BY <1>1, <2>1 DEF Memory
  <2> QED
    BY <2>2 DEF MemoryFits, Working
<1>3. actor' = [actor EXCEPT ![o] = mem]
  BY DEF SelectAndClaim
<1>4. MemoriesFit'
  <2> HIDE DEF mem
  <2> QED
    BY <1>2, <1>3, GoOnFits DEF Fits
<1>5. op' \in [Keys -> OperationRow]
  BY NameAssumption DEF SelectAndClaim, Fits, RestFits, OperationRow
<1> QED
  BY <1>4, <1>5, SameRows DEF SelectAndClaim, Fits, RestFits, store, remote

LEMMA RenewFits == ASSUME Fits, NEW o \in Operators, Renew(o) PROVE Fits'
<1> o \in Actors
  BY DEF Actors
<1>1. CASE Raise(o)
  BY <1>1, LeaveFits, SameRows DEF Renew, Fits, RestFits, store, remote
<1>2. ASSUME NEW i \in ToDo(o),
             actor' = [actor EXCEPT ![o] = Taking(o, i, actor[o].todo[i])]
      PROVE  Fits'
  <2>1. i \in Intents /\ actor[o].todo[i] \in Steps
    BY DEF ToDo, Fits, MemoriesFit, Memory, Plans, Steps
  <2>2. MemoriesFit'
    BY <1>2, <2>1, TakingFits, GoOnFits DEF Fits
  <2> QED
    BY <2>2, SameRows DEF Renew, Fits, RestFits, store, remote
<1> QED
  BY <1>1, <1>2 DEF Renew

LEMMA ForceClaimFits == ASSUME Fits, NEW o \in Operators, ForceClaim(o) PROVE Fits'
<1> o \in Actors
  BY DEF Actors
<1> DEFINE i == actor[o].intent
<1>1. i \in Intents
  BY DEF ForceClaim, Fits, MemoriesFit, MemoryFits, Working
<1>2. CASE intent[i].status = "unknown" /\ ClaimUnknown(o, i)
  BY <1>1, <1>2, ClaimUnknownFits DEF ForceClaim, Fits, RestFits, remote
<1>3. CASE Goto(o, "reread", "none") /\ UNCHANGED intent
  BY <1>1, <1>3, GotoFits, SameRows
     DEF ForceClaim, Fits, RestFits, remote, Steps, Answers
<1> QED
  BY <1>2, <1>3 DEF ForceClaim

LEMMA RereadFits == ASSUME Fits, NEW o \in Operators, Reread(o) PROVE Fits'
<1> o \in Actors
  BY DEF Actors
<1>1. MemoriesFit'
  BY LeaveFits DEF Reread, Fits
<1> QED
  BY <1>1, SameRows DEF Reread, Fits, RestFits, store, remote

LEMMA RefiledStatus == ASSUME RestFits PROVE Refiled \in MeetingStatuses
BY DEF RestFits, Refiled, MeetingStatuses

LEMMA PrepareFits == ASSUME Fits, NEW o \in Operators, Prepare(o) PROVE Fits'
<1> o \in Actors
  BY DEF Actors
<1> DEFINE i == actor[o].intent
<1>1. i \in Intents
  BY DEF Prepare, Fits, MemoriesFit, MemoryFits, Working
<1>2. CASE Goto(o, "reconcile", "none") /\ UNCHANGED <<intent, meeting>>
  BY <1>1, <1>2, GotoFits, SameRows DEF Prepare, Fits, RestFits, remote, Steps, Answers
<1>3. CASE /\ intent' = [intent EXCEPT ![i] = Doubted(i)]
           /\ meeting' = Refiled
           /\ SavedBy(o, i, At(o, "reconcile", "none"))
  <2>1. MemoryFits(At(o, "reconcile", "none")) /\ RowFits(Doubted(i))
    BY <1>1, AtFits, DoubtedFits DEF Fits, Steps, Answers
  <2> QED
    BY <1>3, <2>1, SaveFits, SavedByFits, RefiledStatus DEF Prepare, Fits, RestFits, remote
<1>4. CASE Leave(o) /\ UNCHANGED <<intent, meeting>>
  BY <1>4, LeaveFits, SameRows DEF Prepare, Fits, RestFits, remote
<1> QED
  BY <1>2, <1>3, <1>4 DEF Prepare

(* An operator's retry gives back an attempt only where one is left. *)
LEMMA QueueRetryFits == ASSUME Fits, NEW o \in Operators, QueueRetry(o) PROVE Fits'
<1> o \in Actors
  BY DEF Actors
<1> DEFINE i == actor[o].intent
<1>1. i \in Intents
  BY DEF QueueRetry, Fits, MemoriesFit, MemoryFits, Working
<1>2. CASE /\ CanDirectRetry(i)
           /\ intent' = [intent EXCEPT ![i] = Moved(i, "retry_wait", @.code)]
           /\ meeting' = Refiled
           /\ SavedBy(o, i, After(o))
  <2>1. intent' = [intent EXCEPT ![i] = Moved(i, "retry_wait", intent[i].code)]
    BY <1>1, <1>2 DEF Fits, RowsFit
  <2>2. intent[i].code \in {"definite", "ambiguous"} /\ intent[i].attempts < MaxAttempts
    BY <1>1, <1>2 DEF CanDirectRetry, Fits, RowsFit, RowFits, IntentRow, Codes
  <2>3. RowFits(Moved(i, "retry_wait", intent[i].code))
    BY <1>1, <2>2, MovedFits DEF Fits
  <2>4. MemoryFits(After(o))
    BY AfterFits DEF Fits
  <2> QED
    BY <1>2, <2>1, <2>3, <2>4, SaveFits, SavedByFits, RefiledStatus
       DEF QueueRetry, Fits, RestFits, remote
<1>3. CASE Leave(o) /\ UNCHANGED <<intent, meeting>>
  BY <1>3, LeaveFits, SameRows DEF QueueRetry, Fits, RestFits, remote
<1> QED
  BY <1>2, <1>3 DEF QueueRetry

LEMMA CompleteFits == ASSUME Fits, NEW o \in Operators, Complete(o) PROVE Fits'
<1> o \in Actors
  BY DEF Actors
<1>1. MemoriesFit'
  BY IdleFits, GoOnFits, LeaveFits DEF Complete, Fits
<1>2. op' \in [Keys -> OperationRow]
  <2> DEFINE k == actor[o].key
  <2> DEFINE row == [op[k] EXCEPT !.status = "completed", !.owner = Nobody, !.live = FALSE]
  <2>1. op' = op \/ op' = [op EXCEPT ![k] = row]
    BY DEF Complete
  <2>2. k \in Keys => row \in OperationRow
    BY DEF Fits, RestFits, OperationRow
  <2> HIDE DEF k, row
  <2> QED
    BY <2>1, <2>2 DEF Fits, RestFits
<1> QED
  BY <1>1, <1>2, SameRows DEF Complete, Fits, RestFits, store, remote

LEMMA ReleaseFits == ASSUME Fits, NEW o \in Operators, Release(o) PROVE Fits'
<1> o \in Actors
  BY DEF Actors
<1>1. MemoriesFit'
  BY IdleFits, GoOnFits DEF Release, Fits
<1>2. op' \in [Keys -> OperationRow]
  <2> DEFINE k == actor[o].key
  <2> DEFINE row == [op[k] EXCEPT !.status = "pending", !.owner = Nobody, !.live = FALSE]
  <2>1. op' = op \/ op' = [op EXCEPT ![k] = row]
    BY DEF Release
  <2>2. k \in Keys => row \in OperationRow
    BY DEF Fits, RestFits, OperationRow
  <2> HIDE DEF k, row
  <2> QED
    BY <2>1, <2>2 DEF Fits, RestFits
<1> QED
  BY <1>1, <1>2, SameRows DEF Release, Fits, RestFits, store, remote

-----------------------------------------------------------------------------
(* Faults and time.                                                        *)

LEMMA CrashFits == ASSUME Fits, NEW a \in Actors, Crash(a) PROVE Fits'
<1>1. MemoriesFit'
  BY IdleFits, GoOnFits DEF Crash, Fits
<1>2. stray' \in [Intents -> Nat]
  <2> DEFINE i == actor[a].intent
  <2>1. stray' = stray \/ stray' = [stray EXCEPT ![i] = stray[i] + 1]
    BY DEF Crash
  <2>2. i \in Intents => stray[i] + 1 \in Nat
    BY DEF Fits, RestFits
  <2> HIDE DEF i
  <2> QED
    BY <2>1, <2>2 DEF Fits, RestFits
<1>3. faults' \in 0 .. MaxFaults
  BY AttemptsAssumption DEF Crash, Fits, RestFits
<1> QED
  BY <1>1, <1>2, <1>3, SameRows DEF Crash, Fits, RestFits, store

LEMMA RequestRaisesFits == ASSUME Fits, NEW o \in Operators, RequestRaises(o) PROVE Fits'
<1> o \in Actors
  BY DEF Actors
<1>1. MemoriesFit'
  BY LeaveFits DEF RequestRaises, Fits
<1>2. faults' \in 0 .. MaxFaults
  BY AttemptsAssumption DEF RequestRaises, Fits, RestFits
<1> QED
  BY <1>1, <1>2, SameRows DEF RequestRaises, Fits, RestFits, store, remote

LEMMA AbsenceRaisesFits == ASSUME Fits, NEW a \in Actors, AbsenceRaises(a) PROVE Fits'
<1>1. actor[a].intent \in Intents
  BY DEF AbsenceRaises, Fits, MemoriesFit, MemoryFits, Working
<1>2. MemoriesFit'
  BY <1>1, GotoFits DEF AbsenceRaises, Fits, Steps, Answers
<1>3. faults' \in 0 .. MaxFaults
  BY AttemptsAssumption DEF AbsenceRaises, Fits, RestFits
<1> QED
  BY <1>2, <1>3, SameRows DEF AbsenceRaises, Fits, RestFits, store, remote

LEMMA LeaseExpiresFits == ASSUME Fits, NEW i \in Intents, LeaseExpires(i) PROVE Fits'
<1> DEFINE row == [intent[i] EXCEPT !.live = FALSE]
<1>1. intent' = [intent EXCEPT ![i] = row]
  BY DEF LeaseExpires, Fits, RowsFit
<1>2. RowFits(row)
  BY DEF Fits, RowsFit, RowFits, IntentRow
<1>3. RowsFit'
  <2> HIDE DEF row
  <2> QED
    BY <1>1, <1>2, SaveFits DEF Fits
<1> QED
  BY <1>3 DEF LeaseExpires, Fits, RestFits, remote, MemoriesFit, MemoryFits

LEMMA BecomesDueFits == ASSUME Fits, NEW i \in Intents, BecomesDue(i) PROVE Fits'
<1> DEFINE row == [intent[i] EXCEPT !.due = TRUE]
<1>1. intent' = [intent EXCEPT ![i] = row]
  BY DEF BecomesDue, Fits, RowsFit
<1>2. RowFits(row)
  BY DEF BecomesDue, Fits, RowsFit, RowFits, IntentRow
<1>3. RowsFit'
  <2> HIDE DEF row
  <2> QED
    BY <1>1, <1>2, SaveFits DEF Fits
<1> QED
  BY <1>3 DEF BecomesDue, Fits, RestFits, remote, MemoriesFit, MemoryFits

LEMMA OperationLeaseExpiresFits ==
  ASSUME Fits, NEW k \in Keys, OperationLeaseExpires(k) PROVE Fits'
<1>1. op' \in [Keys -> OperationRow]
  BY DEF OperationLeaseExpires, Fits, RestFits, OperationRow
<1> QED
  BY <1>1, SameRows
     DEF OperationLeaseExpires, Fits, RestFits, store, remote, MemoriesFit, MemoryFits

-----------------------------------------------------------------------------
LEMMA InitFits == Init => Fits
<1> SUFFICES ASSUME Init PROVE Fits
  OBVIOUS
<1>1. RowFits(Row("pending", 0, "none"))
  BY AttemptsAssumption DEF RowFits, Row, IntentRow, WriteStatuses, Codes
<1>2. RowsFit
  BY <1>1 DEF Init, RowsFit, RowFits
<1>3. MemoriesFit
  BY IdleFits DEF Init, MemoriesFit, MemoryFits
<1>4. RestFits
  BY AttemptsAssumption
     DEF Init, RestFits, MeetingStatuses, NoOperation, OperationRow
<1> QED
  BY <1>2, <1>3, <1>4 DEF Fits

LEMMA StepFits == Fits /\ [Next]_vars => Fits'
<1> SUFFICES ASSUME Fits, [Next]_vars PROVE Fits'
  OBVIOUS
<1>1. CASE UNCHANGED vars
  BY <1>1, SameRows DEF vars, store, remote, Fits, RestFits, MemoriesFit, MemoryFits
<1>2. ASSUME NEW w \in Workers, Deliver(w) \/ ConnectorApplies(w) PROVE Fits'
  BY <1>2, RecoverFits, ClaimDueUnknownFits, ClaimDueFits, LoadExecutionFits,
     PermitFits, GatewayAnswersFits, RecordSuccessFits, RecordFailureFits,
     ConnectorAppliesFits DEF Deliver
<1>3. ASSUME NEW a \in Actors, Reconcile(a) \/ Crash(a) \/ AbsenceRaises(a) PROVE Fits'
  BY <1>3, LoadReconciliationFits, LookupFits, RecordReconciliationFits, CrashFits,
     AbsenceRaisesFits DEF Reconcile
<1>4. ASSUME NEW o \in Operators, Request(o) \/ Serve(o) \/ RequestRaises(o) PROVE Fits'
  BY <1>4, SelectAndClaimFits, RenewFits, ForceClaimFits, RereadFits, PrepareFits,
     QueueRetryFits, CompleteFits, ReleaseFits, RequestRaisesFits DEF Request, Serve
<1>5. ASSUME NEW i \in Intents, StrayEnds(i) \/ LeaseExpires(i) \/ BecomesDue(i)
      PROVE  Fits'
  BY <1>5, StrayEndsFits, LeaseExpiresFits, BecomesDueFits
<1>6. ASSUME NEW k \in Keys, OperationLeaseExpires(k) PROVE Fits'
  BY <1>6, OperationLeaseExpiresFits
<1> QED
  BY <1>1, <1>2, <1>3, <1>4, <1>5, <1>6 DEF Next

LEMMA AlwaysFits == Spec => []Fits
BY InitFits, StepFits, PTL DEF Spec

(* Every row of the outbox keeps the constraints of its model, and no write is *)
(* attempted more than MaxAttempts times although the claim does not ask: every *)
(* way back to pending or retry_wait leaves an attempt.                        *)
THEOREM TypeCorrect == Spec => []TypeOK
<1>1. Fits => TypeOK
  BY DEF Fits, RowsFit, RowFits, MemoriesFit, MemoryFits, RestFits, TypeOK, RowsWellFormed
<1> QED
  BY <1>1, AlwaysFits, PTL

-----------------------------------------------------------------------------
(* Leases.  A snapshot that is still the row's, "seen", tells its holder that  *)
(* the row has the lease it was read under: every save makes the snapshots of  *)
(* the others stale, and time takes a lease's life but not its name.           *)

Looked == {"permit", "calling", "record", "lookup", "rrecord"}

(* At work on a write that is not known to be done, and on its reconciliation. *)
Executing(mem) ==
  \/ mem.step \in {"permit", "calling"}
  \/ mem.step = "record" /\ mem.answer # "success"
Reconciling(mem) == mem.step \in {"lookup", "rrecord"}

Snapped(a, mem, row) ==
  /\ mem.seen /\ Executing(mem) =>
       a \in Workers /\ row.status = "in_flight" /\ row.owner = WorkerId[a]
  /\ mem.seen /\ Reconciling(mem) => row.status = "unknown" /\ row.owner = a

Snapshots ==
  \A a \in Actors : actor[a].step \in Looked => Snapped(a, actor[a], intent[actor[a].intent])

(* Claiming an unknown row makes it due, so that no time has to. *)
LeasedDue == \A i \in Intents : intent[i].live /\ intent[i].status = "unknown" => intent[i].due

(* The inductive invariant. *)
Leased == Fits /\ Snapshots /\ LeasedDue

(* A memory that goes by no snapshot. *)
Loose(mem) == mem.step \in Looked => ~mem.seen

(* The steps: an actor goes on by itself, *)
GoesOn(a, mem) ==
  /\ actor' = [actor EXCEPT ![a] = mem] /\ UNCHANGED intent
  /\ mem.step \in Looked => Snapped(a, mem, intent[mem.intent])

(* saves a row, one with a live lease only as its holder or with a receipt, *)
Saves(a, i, row, mem) ==
  /\ intent' = [intent EXCEPT ![i] = row] /\ SavedBy(a, i, mem) /\ Loose(mem)
  /\ row.live /\ row.status = "unknown" => row.due
  /\ intent[i].live =>
       \/ row.status = "succeeded"
       \/ /\ actor[a].intent = i /\ mem # actor[a]
          /\ intent[i].owner \in {a} \cup {WorkerId[w] : w \in Workers \cap {a}}

(* or time passes. *)
Passes(i) ==
  /\ UNCHANGED actor
  /\ \/ intent' = [intent EXCEPT ![i] = [intent[i] EXCEPT !.live = FALSE]]
     \/ ~intent[i].live /\ intent' = [intent EXCEPT ![i] = [intent[i] EXCEPT !.due = TRUE]]

Moves ==
  \/ UNCHANGED <<intent, actor>>
  \/ \E a \in Actors, mem \in Memory : GoesOn(a, mem)
  \/ \E a \in Actors, i \in Intents, row \in IntentRow, mem \in Memory : Saves(a, i, row, mem)
  \/ \E i \in Intents : Passes(i)

LEMMA MovesKeep == ASSUME Leased, Moves PROVE Snapshots' /\ LeasedDue'
<1>1. /\ actor \in [Actors -> Memory] /\ intent \in [Intents -> IntentRow]
      /\ \A a \in Actors : actor[a].step \in Looked => actor[a].intent \in Intents
  BY DEF Leased, Fits, RowsFit, MemoriesFit, MemoryFits, Working, Looked
<1>2. CASE UNCHANGED <<intent, actor>>
  BY <1>2 DEF Leased, Snapshots, Snapped, Executing, Reconciling, LeasedDue
<1>3. ASSUME NEW a \in Actors, NEW mem \in Memory, GoesOn(a, mem)
      PROVE  Snapshots' /\ LeasedDue'
  <2>1. actor'[a] = mem /\ \A b \in Actors : b # a => actor'[b] = actor[b]
    BY <1>1, <1>3 DEF GoesOn
  <2> QED
    BY <1>3, <2>1 DEF GoesOn, Leased, Snapshots, LeasedDue
<1>4. ASSUME NEW a \in Actors, NEW i \in Intents, NEW row \in IntentRow, NEW mem \in Memory,
             Saves(a, i, row, mem)
      PROVE  Snapshots' /\ LeasedDue'
  <2>1. intent'[i] = row /\ \A j \in Intents : j # i => intent'[j] = intent[j]
    BY <1>1, <1>4 DEF Saves
  <2>2. actor'[a] = mem
    BY <1>4 DEF Saves, SavedBy
  <2>3. ASSUME NEW b \in Actors, b # a, actor'[b].step \in Looked, actor'[b].seen
        PROVE  /\ actor'[b] = actor[b] /\ actor[b].intent \in Intents
               /\ intent'[actor[b].intent] = intent[actor[b].intent]
    <3>1. actor[b].intent # i /\ actor'[b] = actor[b]
      BY <1>1, <1>4, <2>3 DEF Saves, SavedBy, Memory
    <3> QED
      BY <1>1, <2>1, <2>3, <3>1
  <2>4. Snapshots'
    BY <1>4, <2>2, <2>3 DEF Leased, Snapshots, Snapped, Executing, Reconciling, Saves, Loose
  <2>5. LeasedDue'
    BY <1>4, <2>1 DEF Leased, LeasedDue, Saves
  <2> QED
    BY <2>4, <2>5
<1>5. ASSUME NEW i \in Intents, Passes(i) PROVE Snapshots' /\ LeasedDue'
  <2>1. \A j \in Intents : /\ intent'[j].status = intent[j].status
                           /\ intent'[j].owner = intent[j].owner
                           /\ intent'[j].live => intent[j].live
                           /\ intent[j].due => intent'[j].due
    BY <1>1, <1>5 DEF Passes, IntentRow
  <2> QED
    BY <1>1, <1>5, <2>1 DEF Passes, Leased, Snapshots, Snapped, Executing, Reconciling, LeasedDue
<1> QED
  BY <1>2, <1>3, <1>4, <1>5 DEF Moves

(* What LeaseHolds says of one step. *)
Respected ==
  \A i \in Intents :
    intent[i].live =>
      \/ intent'[i] \in {intent[i], [intent[i] EXCEPT !.live = FALSE]}
      \/ intent'[i].status = "succeeded"
      \/ \E a \in Actors :
           /\ actor[a].intent = i /\ actor'[a] # actor[a]
           /\ intent[i].owner \in {a} \cup {WorkerId[w] : w \in Workers \cap {a}}

LEMMA MovesRespect == ASSUME Leased, Moves PROVE Respected
<1> SUFFICES ASSUME NEW j \in Intents, intent[j].live, intent'[j] # intent[j],
                    intent'[j] # [intent[j] EXCEPT !.live = FALSE],
                    intent'[j].status # "succeeded"
             PROVE  \E a \in Actors :
                      /\ actor[a].intent = j /\ actor'[a] # actor[a]
                      /\ intent[j].owner \in {a} \cup {WorkerId[w] : w \in Workers \cap {a}}
  BY DEF Respected
<1>1. intent \in [Intents -> IntentRow]
  BY DEF Leased, Fits, RowsFit
<1>2. \A i \in Intents : ~Passes(i)
  BY <1>1 DEF Passes
<1>3. PICK a \in Actors, i \in Intents, row \in IntentRow, mem \in Memory : Saves(a, i, row, mem)
  BY <1>2 DEF Moves, GoesOn
<1>4. i = j /\ intent'[j] = row
  BY <1>1, <1>3 DEF Saves
<1>5. actor'[a] = mem
  BY <1>3 DEF Saves, SavedBy
<1> QED
  BY <1>3, <1>4, <1>5 DEF Saves

-----------------------------------------------------------------------------
(* Every step is one of these.                                              *)

(* An actor goes on without a snapshot, or within the one it has. *)
LEMMA LooseMoves ==
  ASSUME Leased, NEW a \in Actors, NEW mem, MemoryFits(mem), Loose(mem),
         actor' = [actor EXCEPT ![a] = mem], UNCHANGED intent
  PROVE  Moves
BY DEF Moves, GoesOn, Loose, Snapped, Executing, Reconciling, MemoryFits

LEMMA TurnedLoose ==
  ASSUME Leased, NEW a \in Actors
  PROVE  /\ Loose(Idle) /\ Loose(After(a)) /\ Loose(Raised(a))
         /\ \A i, step : Loose(Taking(a, i, step))
<1>1. actor[a] \in Memory
  BY DEF Leased, Fits, MemoriesFit
<1>2. \A step \in {"next", "release"} : Loose(Clear(a, step))
  BY <1>1 DEF Clear, Loose, Looked, Memory
<1>3. \A i, step : Loose(Taking(a, i, step))
  BY <1>1 DEF Taking, Loose, Memory
<1> QED
  BY <1>2, <1>3 DEF After, Raised, Idle, Loose

LEMMA LeaveMoves ==
  ASSUME Leased, NEW a \in Actors, Leave(a) \/ Raise(a), UNCHANGED intent
  PROVE  Moves
BY AfterFits, TurnedLoose, LooseMoves DEF Leave, Raise, Leased, Fits

(* A step within the same snapshot. *)
LEMMA GotoMoves ==
  ASSUME Leased, NEW a \in Actors, NEW step \in Steps, NEW answer \in Answers,
         step \in Working => actor[a].intent \in Intents, Goto(a, step, answer),
         UNCHANGED intent,
         \/ step \notin Looked
         \/ step \in {"calling", "record"} /\ actor[a].step \in {"permit", "calling"}
         \/ step = "rrecord" /\ actor[a].step \in {"lookup", "rrecord"}
         \/ step = "record" /\ answer = "success"
  PROVE  Moves
<1> DEFINE mem == At(a, step, answer)
<1>1. mem \in Memory
  BY AtFits DEF Leased, Fits, MemoryFits
<1>2. mem.step = step /\ mem.answer = answer /\ mem.seen = actor[a].seen /\ mem.intent = actor[a].intent
  BY DEF At, Leased, Fits, MemoriesFit, Memory
<1>3. actor' = [actor EXCEPT ![a] = mem]
  BY DEF Goto
<1> HIDE DEF mem
<1>4. mem.step \in Looked => Snapped(a, mem, intent[mem.intent])
  BY <1>2 DEF Leased, Snapshots, Snapped, Executing, Reconciling, Looked
<1> QED
  BY <1>1, <1>3, <1>4 DEF Moves, GoesOn

(* A row is saved by somebody who looks away from it. *)
LEMMA SaveMoves ==
  ASSUME Leased, NEW a \in Actors, NEW i \in Intents, NEW row, NEW mem,
         RowFits(row), MemoryFits(mem), Loose(mem),
         intent' = [intent EXCEPT ![i] = row], SavedBy(a, i, mem),
         row.live /\ row.status = "unknown" => row.due,
         intent[i].live =>
           \/ row.status = "succeeded"
           \/ /\ actor[a].intent = i /\ mem # actor[a]
              /\ intent[i].owner \in {a} \cup {WorkerId[w] : w \in Workers \cap {a}}
  PROVE  Moves
BY DEF Moves, Saves, RowFits, MemoryFits

(* A result is saved. *)
LEMMA SaveAndReduceMoves ==
  ASSUME Leased, NEW a \in Actors, NEW i \in Intents, NEW row, RowFits(row), ~row.live,
         actor[a].step \in {"record", "rrecord"}, SaveAndReduce(a, i, row),
         intent[i].live =>
           \/ row.status = "succeeded"
           \/ /\ actor[a].intent = i
              /\ intent[i].owner \in {a} \cup {WorkerId[w] : w \in Workers \cap {a}}
  PROVE  Moves
<1>1. CASE Accepted(i, row)
  <2>1. MemoryFits(After(a)) /\ Loose(After(a))
    BY AfterFits, TurnedLoose DEF Leased, Fits
  <2>2. After(a) # actor[a]
    <3>1. Idle.step = "idle" /\ Clear(a, "next").step = "next"
      BY DEF Idle, Clear, Leased, Fits, MemoriesFit, Memory
    <3>2. After(a).step \in {"idle", "next"}
      BY <3>1 DEF After
    <3> QED
      BY <3>2
  <2> QED
    BY <1>1, <2>1, <2>2, SaveMoves DEF SaveAndReduce, Saved
<1>2. CASE ~Accepted(i, row)
  BY <1>2, LeaveMoves DEF SaveAndReduce
<1> QED
  BY <1>1, <1>2

LEMMA MovedNotLive ==
  ASSUME NEW i, NEW status, NEW code
  PROVE  ~Moved(i, status, code).live /\ ~Doubted(i).live
BY DEF Moved, Doubted, Row

LEMMA StoreReceiptMoves ==
  ASSUME Leased, NEW a \in Actors, NEW i \in Intents,
         actor[a].step \in {"record", "rrecord"}, StoreReceipt(a, i)
  PROVE  Moves
<1>1. CASE Leave(a) /\ UNCHANGED intent
  BY <1>1, LeaveMoves
<1>2. CASE SaveAndReduce(a, i, Delivered(i))
  <2>1. RowFits(Delivered(i)) /\ ~Delivered(i).live /\ Delivered(i).status = "succeeded"
    BY MovedFits, MovedNotLive DEF Delivered, Moved, Row, Leased, Fits
  <2> QED
    BY <1>2, <2>1, SaveAndReduceMoves
<1> QED
  BY <1>1, <1>2 DEF StoreReceipt, CommitSuccess, store

LEMMA RecoverMoves == ASSUME Leased, NEW w \in Workers, Recover(w) PROVE Moves
<1> w \in Actors
  BY DEF Actors
<1>1. CASE Goto(w, "poll", "none") /\ UNCHANGED intent
  BY <1>1, GotoMoves DEF Steps, Answers, Working, Looked
<1>2. ASSUME NEW i \in Intents, ~intent[i].live, intent' = [intent EXCEPT ![i] = Doubted(i)],
             SavedBy(w, i, At(w, "poll", "none"))
      PROVE  Moves
  <2>1. RowFits(Doubted(i)) /\ ~Doubted(i).live
    BY DoubtedFits, MovedNotLive DEF Leased, Fits
  <2>2. MemoryFits(At(w, "poll", "none"))
    BY AtFits DEF Leased, Fits, Steps, Answers, Working
  <2>3. Loose(At(w, "poll", "none"))
    BY DEF At, Loose, Looked, Leased, Fits, MemoriesFit, Memory
  <2> QED
    BY <1>2, <2>1, <2>2, <2>3, SaveMoves
<1> QED
  BY <1>1, <1>2 DEF Recover

LEMMA ClaimUnknownMoves ==
  ASSUME Leased, NEW a \in Actors, NEW i \in Intents, intent[i].status = "unknown",
         LeaseFree(i), ClaimUnknown(a, i)
  PROVE  Moves
<1> DEFINE row == [intent[i] EXCEPT !.owner = a, !.live = TRUE, !.due = TRUE]
<1>1. intent' = [intent EXCEPT ![i] = row]
  BY DEF ClaimUnknown, Leased, Fits, RowsFit
<1>2. RowFits(row) /\ row.due
  BY NameAssumption DEF Leased, Fits, RowsFit, RowFits, IntentRow
<1>3. MemoryFits(Taking(a, i, "rload")) /\ Loose(Taking(a, i, "rload"))
  BY TakingFits, TurnedLoose DEF Leased, Fits, Steps
<1>4. ~intent[i].live
  BY DEF LeaseFree, Leased, Fits, RowsFit, RowFits
<1> HIDE DEF row
<1> QED
  BY <1>1, <1>2, <1>3, <1>4, SaveMoves DEF ClaimUnknown

LEMMA ClaimDueUnknownMoves == ASSUME Leased, NEW w \in Workers, ClaimDueUnknown(w) PROVE Moves
<1> w \in Actors
  BY DEF Actors
<1>1. CASE Goto(w, "poll_due", "none") /\ UNCHANGED intent
  BY <1>1, GotoMoves DEF Steps, Answers, Working, Looked
<1> QED
  BY <1>1, ClaimUnknownMoves DEF ClaimDueUnknown

LEMMA ClaimDueMoves == ASSUME Leased, NEW w \in Workers, ClaimDue(w) PROVE Moves
<1> w \in Actors
  BY DEF Actors
<1>1. CASE Leave(w) /\ UNCHANGED intent
  BY <1>1, LeaveMoves
<1>2. ASSUME NEW i \in Intents, Due(i),
             intent' = [intent EXCEPT ![i] =
                          [Row("in_flight", @.attempts + 1, "none")
                             EXCEPT !.owner = WorkerId[w], !.live = TRUE]],
             SavedBy(w, i, Taking(w, i, "load"))
      PROVE  Moves
  <2> DEFINE row == [Row("in_flight", intent[i].attempts + 1, "none")
                       EXCEPT !.owner = WorkerId[w], !.live = TRUE]
  <2>1. intent' = [intent EXCEPT ![i] = row]
    BY <1>2 DEF Leased, Fits, RowsFit
  <2>2. intent[i].attempts + 1 \in 0 .. MaxAttempts
    BY <1>2, AttemptsAssumption DEF Due, Leased, Fits, RowsFit, RowFits, IntentRow
  <2>3. WorkerId[w] \in Names /\ WorkerId[w] # Nobody
    BY NameAssumption
  <2>4. RowFits(row) /\ row.status # "unknown"
    BY <2>2, <2>3 DEF RowFits, IntentRow, Row, WriteStatuses, Codes
  <2>5. MemoryFits(Taking(w, i, "load")) /\ Loose(Taking(w, i, "load"))
    BY TakingFits, TurnedLoose DEF Leased, Fits, Steps
  <2>6. ~intent[i].live
    BY <1>2 DEF Due, Leased, Fits, RowsFit, RowFits
  <2> HIDE DEF row
  <2> QED
    BY <1>2, <2>1, <2>4, <2>5, <2>6, SaveMoves
<1> QED
  BY <1>1, <1>2 DEF ClaimDue

LEMMA LoadExecutionMoves == ASSUME Leased, NEW w \in Workers, LoadExecution(w) PROVE Moves
<1> w \in Actors
  BY DEF Actors
<1> DEFINE i == actor[w].intent
<1>1. i \in Intents /\ UNCHANGED intent
  BY DEF LoadExecution, Leased, Fits, MemoriesFit, MemoryFits, Working, store
<1>2. CASE Leave(w)
  BY <1>1, <1>2, LeaveMoves
<1>3. ASSUME NEW mem \in Memory, mem.intent = i, actor' = [actor EXCEPT ![w] = mem],
             Snapped(w, mem, intent[i])
      PROVE  Moves
  BY <1>1, <1>3 DEF Moves, GoesOn
<1>4. CASE actor' = [actor EXCEPT ![w] = [At(w, "record", "success") EXCEPT !.seen = TRUE]]
  <2> DEFINE mem == [At(w, "record", "success") EXCEPT !.seen = TRUE]
  <2>1. mem \in Memory
    BY <1>1, AtFits DEF Leased, Fits, MemoryFits, Steps, Answers
  <2>2. mem.intent = i /\ Snapped(w, mem, intent[i])
    BY DEF At, Snapped, Executing, Reconciling, Leased, Fits, MemoriesFit, Memory
  <2> HIDE DEF mem
  <2> QED
    BY <1>3, <1>4, <2>1, <2>2 DEF mem
<1>5. CASE /\ intent[i].status = "in_flight" /\ intent[i].owner = WorkerId[w]
           /\ actor' = [actor EXCEPT ![w] = [At(w, "permit", "none") EXCEPT !.seen = TRUE]]
  <2> DEFINE mem == [At(w, "permit", "none") EXCEPT !.seen = TRUE]
  <2>1. mem \in Memory
    BY <1>1, AtFits DEF Leased, Fits, MemoryFits, Steps, Answers
  <2>2. mem.intent = i /\ Snapped(w, mem, intent[i])
    BY <1>5 DEF At, Snapped, Executing, Reconciling, Leased, Fits, MemoriesFit, Memory
  <2> HIDE DEF mem
  <2> QED
    BY <1>3, <1>5, <2>1, <2>2 DEF mem
<1> QED
  BY <1>2, <1>4, <1>5 DEF LoadExecution

(* What an actor at work on an intent looks at. *)
LEMMA LookedAt ==
  ASSUME Leased, NEW a \in Actors, actor[a].step \in Working
  PROVE  actor[a].intent \in Intents
BY DEF Leased, Fits, MemoriesFit, MemoryFits

LEMMA PermitMoves == ASSUME Leased, NEW w \in Workers, Permit(w) PROVE Moves
<1> w \in Actors
  BY DEF Actors
<1>1. actor[w].intent \in Intents /\ UNCHANGED intent
  BY LookedAt DEF Permit, Working, store
<1> QED
  BY <1>1, GotoMoves DEF Permit, Steps, Answers, Working

LEMMA ConnectorAppliesMoves == ASSUME Leased, NEW w \in Workers, ConnectorApplies(w) PROVE Moves
<1> w \in Actors
  BY DEF Actors
<1>1. actor[w].intent \in Intents /\ UNCHANGED intent
  BY LookedAt DEF ConnectorApplies, Working, store
<1> QED
  BY <1>1, GotoMoves DEF ConnectorApplies, Steps, Answers, Working

LEMMA GatewayAnswersMoves == ASSUME Leased, NEW w \in Workers, GatewayAnswers(w) PROVE Moves
<1> w \in Actors
  BY DEF Actors
<1>1. actor[w].intent \in Intents /\ UNCHANGED intent
  BY LookedAt DEF GatewayAnswers, Working, store
<1>2. PICK answer \in {"success", "retryable", "permanent", "conflict", "unknown"} :
        Goto(w, "record", answer)
  BY DEF GatewayAnswers
<1> QED
  BY <1>1, <1>2, GotoMoves DEF GatewayAnswers, Steps, Answers, Working

LEMMA RecordSuccessMoves == ASSUME Leased, NEW w \in Workers, RecordSuccess(w) PROVE Moves
<1> w \in Actors
  BY DEF Actors
<1> QED
  BY LookedAt, StoreReceiptMoves DEF RecordSuccess, Working

LEMMA RecordFailureMoves == ASSUME Leased, NEW w \in Workers, RecordFailure(w) PROVE Moves
<1> w \in Actors
  BY DEF Actors
<1> DEFINE i == actor[w].intent
<1>1. i \in Intents
  BY LookedAt DEF RecordFailure, Working
<1>2. CASE CommitSuccess(w, i)
  <2>1. RowFits(Delivered(i)) /\ ~Delivered(i).live /\ Delivered(i).status = "succeeded"
    BY <1>1, MovedFits, MovedNotLive DEF Delivered, Moved, Row, Leased, Fits
  <2> QED
    BY <1>1, <1>2, <2>1, LeaveMoves, SaveAndReduceMoves DEF CommitSuccess, RecordFailure
<1>3. CASE Leave(w) /\ UNCHANGED intent
  BY <1>3, LeaveMoves
<1>4. CASE actor[w].seen /\ SaveAndReduce(w, i, FailedRow(i, actor[w].answer))
  <2>1. RowFits(FailedRow(i, actor[w].answer)) /\ ~FailedRow(i, actor[w].answer).live
    BY <1>1, FailedFits, MovedNotLive DEF FailedRow, Leased, Fits
  <2>2. intent[i].owner = WorkerId[w]
    BY <1>4 DEF RecordFailure, Leased, Snapshots, Snapped, Executing, Reconciling, Looked
  <2> HIDE DEF i
  <2> QED
    BY <1>1, <1>4, <2>1, <2>2, SaveAndReduceMoves DEF RecordFailure, i
<1> QED
  BY <1>2, <1>3, <1>4 DEF RecordFailure

LEMMA LoadReconciliationMoves ==
  ASSUME Leased, NEW a \in Actors, LoadReconciliation(a) PROVE Moves
<1> DEFINE i == actor[a].intent
<1>1. i \in Intents /\ UNCHANGED intent
  BY LookedAt DEF LoadReconciliation, Working, store
<1>2. CASE Raise(a)
  BY <1>1, <1>2, LeaveMoves
<1>3. ASSUME NEW step \in {"rrecord", "lookup"}, NEW answer \in {"found", "none"},
             HoldsReconcileLease(a, i),
             actor' = [actor EXCEPT ![a] = [At(a, step, answer) EXCEPT !.seen = TRUE]]
      PROVE  Moves
  <2> DEFINE mem == [At(a, step, answer) EXCEPT !.seen = TRUE]
  <2>1. mem \in Memory
    BY <1>1, AtFits DEF Leased, Fits, MemoryFits, Steps, Answers
  <2>2. mem.intent = i /\ Snapped(a, mem, intent[i])
    BY <1>3 DEF At, Snapped, Executing, Reconciling, Leased, Fits, MemoriesFit, Memory, HoldsReconcileLease
  <2> HIDE DEF mem
  <2> QED
    BY <1>1, <1>3, <2>1, <2>2 DEF Moves, GoesOn, mem
<1> QED
  BY <1>2, <1>3 DEF LoadReconciliation

LEMMA LookupMoves == ASSUME Leased, NEW a \in Actors, Lookup(a) PROVE Moves
<1>1. actor[a].intent \in Intents /\ UNCHANGED intent
  BY LookedAt DEF Lookup, Working, store
<1>2. PICK answer \in {"found", "absent", "error"} : Goto(a, "rrecord", answer)
  BY DEF Lookup
<1> QED
  BY <1>1, <1>2, GotoMoves DEF Lookup, Steps, Answers, Working

LEMMA RecordReconciliationMoves ==
  ASSUME Leased, NEW a \in Actors, RecordReconciliation(a) PROVE Moves
<1> DEFINE i == actor[a].intent
<1>1. i \in Intents
  BY LookedAt DEF RecordReconciliation, Working
<1>2. CASE Leave(a) /\ UNCHANGED store
  BY <1>2, LeaveMoves DEF store
<1>3. CASE StoreReceipt(a, i)
  BY <1>1, <1>3, StoreReceiptMoves DEF RecordReconciliation
<1>4. ASSUME NEW row \in {AbsentRow(i), Moved(i, "unknown", "ambiguous")}, MayRecord(a, i),
             SaveAndReduce(a, i, row)
      PROVE  Moves
  <2>1. RowFits(row) /\ ~row.live
    BY <1>1, <1>4, AbsentFits, MovedFits, MovedNotLive DEF AbsentRow, Leased, Fits
  <2>2. intent[i].owner = a
    BY <1>4 DEF MayRecord, HoldsReconcileLease
  <2> HIDE DEF i
  <2> QED
    BY <1>1, <1>4, <2>1, <2>2, SaveAndReduceMoves DEF RecordReconciliation, i
<1> QED
  BY <1>2, <1>3, <1>4 DEF RecordReconciliation

LEMMA SelectAndClaimMoves ==
  ASSUME Leased, NEW o \in Operators, NEW k \in Keys, NEW kind \in Kinds,
         NEW chosen \in SUBSET Intents \ {{}}, SelectAndClaim(o, k, kind, chosen)
  PROVE  Moves
<1> o \in Actors
  BY DEF Actors
<1> DEFINE mem == [Clear(o, "next") EXCEPT
                     !.key = k,
                     !.todo = [i \in Intents |-> IF i \in chosen THEN Plan(kind, i)
                                                 ELSE "done"]]
<1>1. actor' = [actor EXCEPT ![o] = mem] /\ UNCHANGED intent
  BY DEF SelectAndClaim, store
<1>2. mem.step = "next"
  BY DEF Clear, Leased, Fits, MemoriesFit, Memory
<1>3. mem \in Memory
  <2>1. MemoriesFit'
    BY SelectAndClaimFits DEF Leased, Fits
  <2>2. actor'[o] = mem
    BY <1>1 DEF Leased, Fits, MemoriesFit
  <2> QED
    BY <2>1, <2>2 DEF MemoriesFit
<1> HIDE DEF mem
<1> QED
  BY <1>1, <1>2, <1>3 DEF Moves, GoesOn, Looked

LEMMA RenewMoves == ASSUME Leased, NEW o \in Operators, Renew(o) PROVE Moves
<1> o \in Actors
  BY DEF Actors
<1>1. UNCHANGED intent
  BY DEF Renew, store
<1>2. CASE Raise(o)
  BY <1>1, <1>2, LeaveMoves
<1>3. ASSUME NEW i \in ToDo(o),
             actor' = [actor EXCEPT ![o] = Taking(o, i, actor[o].todo[i])]
      PROVE  Moves
  <2>1. i \in Intents /\ actor[o].todo[i] \in Steps
    BY DEF ToDo, Leased, Fits, MemoriesFit, Memory, Plans, Steps
  <2>2. MemoryFits(Taking(o, i, actor[o].todo[i])) /\ Loose(Taking(o, i, actor[o].todo[i]))
    BY <2>1, TakingFits, TurnedLoose DEF Leased, Fits
  <2> QED
    BY <1>1, <1>3, <2>2, LooseMoves
<1> QED
  BY <1>2, <1>3 DEF Renew

LEMMA ForceClaimMoves == ASSUME Leased, NEW o \in Operators, ForceClaim(o) PROVE Moves
<1> o \in Actors
  BY DEF Actors
<1>1. actor[o].intent \in Intents
  BY LookedAt DEF ForceClaim, Working
<1>2. CASE Goto(o, "reread", "none") /\ UNCHANGED intent
  BY <1>1, <1>2, GotoMoves DEF Steps, Answers, Looked
<1> QED
  BY <1>1, <1>2, ClaimUnknownMoves DEF ForceClaim

LEMMA RereadMoves == ASSUME Leased, NEW o \in Operators, Reread(o) PROVE Moves
BY LeaveMoves DEF Reread, Actors, store

LEMMA PrepareMoves == ASSUME Leased, NEW o \in Operators, Prepare(o) PROVE Moves
<1> o \in Actors
  BY DEF Actors
<1> DEFINE i == actor[o].intent
<1>1. i \in Intents
  BY LookedAt DEF Prepare, Working
<1>2. CASE Goto(o, "reconcile", "none") /\ UNCHANGED intent
  BY <1>1, <1>2, GotoMoves DEF Steps, Answers, Looked
<1>3. CASE Leave(o) /\ UNCHANGED intent
  BY <1>3, LeaveMoves
<1>4. CASE /\ RequiresReconciliation(i)
           /\ intent' = [intent EXCEPT ![i] = Doubted(i)]
           /\ SavedBy(o, i, At(o, "reconcile", "none"))
  <2>1. MemoryFits(At(o, "reconcile", "none"))
    BY <1>1, AtFits DEF Leased, Fits, Steps, Answers
  <2>2. Loose(At(o, "reconcile", "none"))
    BY DEF At, Loose, Looked, Leased, Fits, MemoriesFit, Memory
  <2>3. RowFits(Doubted(i)) /\ ~Doubted(i).live /\ ~intent[i].live
    BY <1>1, <1>4, DoubtedFits, MovedNotLive
       DEF Leased, Fits, RowsFit, RowFits, RequiresReconciliation
  <2> QED
    BY <1>1, <1>4, <2>1, <2>2, <2>3, SaveMoves
<1> QED
  BY <1>2, <1>3, <1>4 DEF Prepare

LEMMA QueueRetryMoves == ASSUME Leased, NEW o \in Operators, QueueRetry(o) PROVE Moves
<1> o \in Actors
  BY DEF Actors
<1> DEFINE i == actor[o].intent
<1>1. i \in Intents
  BY LookedAt DEF QueueRetry, Working
<1>2. CASE Leave(o) /\ UNCHANGED intent
  BY <1>2, LeaveMoves
<1>3. CASE /\ CanDirectRetry(i)
           /\ intent' = [intent EXCEPT ![i] = Moved(i, "retry_wait", @.code)]
           /\ SavedBy(o, i, After(o))
  <2>1. intent' = [intent EXCEPT ![i] = Moved(i, "retry_wait", intent[i].code)]
    BY <1>1, <1>3 DEF Leased, Fits, RowsFit
  <2>2. intent[i].code \in {"definite", "ambiguous"} /\ intent[i].attempts < MaxAttempts
    BY <1>1, <1>3 DEF CanDirectRetry, Leased, Fits, RowsFit, RowFits, IntentRow, Codes
  <2>3. RowFits(Moved(i, "retry_wait", intent[i].code))
    BY <1>1, <2>2, MovedFits DEF Leased, Fits
  <2>4. MemoryFits(After(o)) /\ Loose(After(o))
    BY AfterFits, TurnedLoose DEF Leased, Fits
  <2>5. ~intent[i].live
    BY <1>1, <1>3 DEF CanDirectRetry, Leased, Fits, RowsFit, RowFits
  <2> QED
    BY <1>1, <1>3, <2>1, <2>3, <2>4, <2>5, MovedNotLive, SaveMoves
<1> QED
  BY <1>2, <1>3 DEF QueueRetry

LEMMA CompleteMoves == ASSUME Leased, NEW o \in Operators, Complete(o) PROVE Moves
BY LeaveMoves, LooseMoves, IdleFits, TurnedLoose DEF Complete, Actors, store

LEMMA ReleaseMoves == ASSUME Leased, NEW o \in Operators, Release(o) PROVE Moves
BY LooseMoves, IdleFits, TurnedLoose DEF Release, Actors, store

LEMMA CrashMoves == ASSUME Leased, NEW a \in Actors, Crash(a) PROVE Moves
BY LooseMoves, IdleFits, TurnedLoose DEF Crash, store

LEMMA RequestRaisesMoves == ASSUME Leased, NEW o \in Operators, RequestRaises(o) PROVE Moves
BY LeaveMoves DEF RequestRaises, Actors, store

LEMMA AbsenceRaisesMoves == ASSUME Leased, NEW a \in Actors, AbsenceRaises(a) PROVE Moves
<1>1. actor[a].intent \in Intents
  BY LookedAt DEF AbsenceRaises, Working
<1> QED
  BY <1>1, GotoMoves DEF AbsenceRaises, Steps, Answers, store

LEMMA TimeMoves ==
  ASSUME Leased, NEW i \in Intents, LeaseExpires(i) \/ BecomesDue(i) PROVE Moves
<1>1. CASE LeaseExpires(i)
  <2>1. intent' = [intent EXCEPT ![i] = [intent[i] EXCEPT !.live = FALSE]]
    BY <1>1 DEF LeaseExpires, Leased, Fits, RowsFit
  <2> QED
    BY <1>1, <2>1 DEF LeaseExpires, Moves, Passes
<1>2. CASE BecomesDue(i)
  <2>1. intent' = [intent EXCEPT ![i] = [intent[i] EXCEPT !.due = TRUE]]
    BY <1>2 DEF BecomesDue, Leased, Fits, RowsFit
  <2>2. ~intent[i].live
    BY <1>2 DEF BecomesDue, Leased, LeasedDue, Fits, RowsFit, RowFits
  <2> QED
    BY <1>2, <2>1, <2>2 DEF BecomesDue, Moves, Passes
<1> QED
  BY <1>1, <1>2

LEMMA StepMoves == ASSUME Leased, [Next]_vars PROVE Moves
<1>1. CASE UNCHANGED vars
  BY <1>1 DEF vars, store, Moves
<1>2. ASSUME NEW w \in Workers, Deliver(w) \/ ConnectorApplies(w) PROVE Moves
  BY <1>2, RecoverMoves, ClaimDueUnknownMoves, ClaimDueMoves, LoadExecutionMoves,
     PermitMoves, GatewayAnswersMoves, RecordSuccessMoves, RecordFailureMoves,
     ConnectorAppliesMoves DEF Deliver
<1>3. ASSUME NEW a \in Actors, Reconcile(a) \/ Crash(a) \/ AbsenceRaises(a) PROVE Moves
  BY <1>3, LoadReconciliationMoves, LookupMoves, RecordReconciliationMoves, CrashMoves,
     AbsenceRaisesMoves DEF Reconcile
<1>4. ASSUME NEW o \in Operators, Request(o) \/ Serve(o) \/ RequestRaises(o) PROVE Moves
  BY <1>4, SelectAndClaimMoves, RenewMoves, ForceClaimMoves, RereadMoves, PrepareMoves,
     QueueRetryMoves, CompleteMoves, ReleaseMoves, RequestRaisesMoves DEF Request, Serve
<1>5. ASSUME NEW i \in Intents, StrayEnds(i) \/ LeaseExpires(i) \/ BecomesDue(i)
      PROVE  Moves
  BY <1>5, TimeMoves DEF StrayEnds, Moves, store
<1>6. ASSUME NEW k \in Keys, OperationLeaseExpires(k) PROVE Moves
  BY <1>6 DEF OperationLeaseExpires, Moves, store
<1> QED
  BY <1>1, <1>2, <1>3, <1>4, <1>5, <1>6 DEF Next

LEMMA InitLeased == Init => Leased
<1> SUFFICES ASSUME Init PROVE Leased
  OBVIOUS
<1>1. Snapshots
  BY DEF Init, Idle, Snapshots, Looked
<1>2. LeasedDue
  BY DEF Init, Row, LeasedDue
<1> QED
  BY <1>1, <1>2, InitFits DEF Leased

LEMMA StepLeased == Leased /\ [Next]_vars => Leased'
BY StepFits, StepMoves, MovesKeep DEF Leased

(* A live lease protects its row: until it expires, only its holder changes the  *)
(* row, with the exception of a late receipt, which makes it succeed.  A failure *)
(* is recorded on a snapshot that nobody has saved since, which is one of the    *)
(* holder's own (delivery.py _record_failure, _holds_reconciliation_lease).      *)
THEOREM LeaseRespected == Spec => LeaseHolds
<1>1. Leased /\ [Next]_vars => Respected
  BY StepMoves, MovesRespect
<1> QED
  BY <1>1, InitLeased, StepLeased, PTL DEF Spec, LeaseHolds, Respected
=============================================================================
