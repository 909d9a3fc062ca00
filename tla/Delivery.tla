------------------------------ MODULE Delivery ------------------------------
(***************************************************************************)
(* Delivery of one approved meeting's write intents: the outbox executor   *)
(* (application/delivery.py, the write_intents repository) and the         *)
(* operator's retry and reconcile requests                                 *)
(* (application/delivery_control.py), against a connector that may answer, *)
(* refuse, or leave the outcome of a create unknown.                       *)
(*                                                                         *)
(* One action is one transaction or one remote exchange.  A row's version  *)
(* is only ever compared with the version in somebody's snapshot of the    *)
(* row, so what is kept of it is, per actor, whether the row is still the  *)
(* one it read ("seen"); every save of a row makes the others stale.       *)
(***************************************************************************)
EXTENDS Naturals, FiniteSets, Lifecycle

CONSTANTS
  Intents,       \* the write intents of the approval
  Workers,       \* delivery loops
  Operators,     \* concurrent retry / reconcile requests being served
  Names,         \* lease-owner names
  WorkerId,      \* the name each delivery loop claims with
  Keys,          \* request keys of operator requests; bounds the requests
  Kinds,         \* DeliveryOperationKind, or a part of it
  MaxAttempts,   \* max_attempts of the executor
  MaxFaults,     \* bound: how many times an actor dies or a request raises
  Punctual,      \* does an exchange end, and take effect if at all, while the
                 \* lease it runs under is live?
  HonorsKey,     \* does the connector keep one record per idempotency key?
  LookupFails,   \* may a lookup answer with an error?
  Nobody, NoIntent, NoKey

Actors == Workers \cup Operators

ASSUME AttemptsAssumption == MaxAttempts \in Nat \ {0} /\ MaxFaults \in Nat
ASSUME SwitchAssumption ==
  Punctual \in BOOLEAN /\ HonorsKey \in BOOLEAN /\ LookupFails \in BOOLEAN
ASSUME NameAssumption ==
  /\ Workers \cap Operators = {} /\ WorkerId \in [Workers -> Names]
  /\ Nobody \notin Actors \cup Names /\ NoIntent \notin Intents /\ NoKey \notin Keys
  /\ Kinds \subseteq {"retry", "reconcile"}

\* An approval that projects no intent completes the meeting at once.
ASSUME IntentsAssumption == Intents # {}

VARIABLES
  intent,    \* write_intents rows
  receipt,   \* write_receipts: the intents that have one
  meeting,   \* status of the meeting
  op,        \* delivery_operation_bindings by request key
  actor,     \* what a delivery loop or a served request holds in memory
  records,   \* how many records the connector created for each intent
  stray,     \* creates still under way whose caller has given up on them
  faults     \* faults so far

store == <<intent, receipt, meeting>>
remote == <<records, stray>>
vars == <<store, op, actor, remote, faults>>

-----------------------------------------------------------------------------
\* Rows and memories.

\* "due" is next_attempt_at of a waiting intent, next_reconcile_at of an unknown
\* one; "code" keeps of last_failure whether its code is ambiguous (that of an
\* unknown intent is never asked for); "owner" and "live" are the delivery lease
\* of an intent in flight, the reconcile lease of an unknown one.
Codes == {"none", "definite", "ambiguous"}

Row(status, attempts, code) ==
  [status |-> status, attempts |-> attempts, code |-> code, due |-> FALSE,
   owner |-> Nobody, live |-> FALSE]

\* transition_write_intent: every lease and schedule is cleared, the attempts stay.
Moved(i, status, code) == Row(status, intent[i].attempts, code)

\* An unknown intent is due for reconciliation at once.
Doubted(i) == [Moved(i, "unknown", "ambiguous") EXCEPT !.due = TRUE]

Idle == [step |-> "idle", intent |-> NoIntent, seen |-> FALSE, answer |-> "none",
         key |-> NoKey, todo |-> [i \in Intents |-> "done"]]

NoOperation == [status |-> "absent", kind |-> "retry", chosen |-> {},
                owner |-> Nobody, live |-> FALSE]

Statuses(rows) == {rows[i].status : i \in Intents}

\* What approve leaves behind when it projected at least one intent.
Init ==
  /\ intent = [i \in Intents |-> Row("pending", 0, "none")]
  /\ receipt = {}
  /\ meeting = "filing"
  /\ op = [k \in Keys |-> NoOperation]
  /\ actor = [a \in Actors |-> Idle]
  /\ records = [i \in Intents |-> 0]
  /\ stray = [i \in Intents |-> 0]
  /\ faults = 0

\* a saved row i and goes on with memory mem; every other snapshot of i is stale.
SavedBy(a, i, mem) ==
  actor' = [b \in Actors |->
              IF b = a THEN mem
              ELSE IF actor[b].intent = i THEN [actor[b] EXCEPT !.seen = FALSE]
              ELSE actor[b]]

At(a, step, answer) == [actor[a] EXCEPT !.step = step, !.answer = answer]
Goto(a, step, answer) == actor' = [actor EXCEPT ![a] = At(a, step, answer)]

\* a turns to intent i: for an operator, one it need not come back to.
Taking(a, i, step) ==
  [actor[a] EXCEPT !.step = step, !.intent = i, !.seen = FALSE,
                   !.answer = "none", !.todo[i] = "done"]

Clear(a, step) ==
  [actor[a] EXCEPT !.step = step, !.intent = NoIntent, !.seen = FALSE,
                   !.answer = "none"]

\* a is through with an intent: a delivery loop starts its next cycle, a served
\* request goes on with its selection.
After(a) == IF a \in Workers THEN Idle ELSE Clear(a, "next")

\* An exception: a delivery loop's cycle ends, a served request gives up its key.
Raised(a) == IF a \in Workers THEN Idle ELSE Clear(a, "release")

Leave(a) == actor' = [actor EXCEPT ![a] = After(a)]
Raise(a) == actor' = [actor EXCEPT ![a] = Raised(a)]

\* Mutant: the meeting is left as it is.
Unreduced(rows) == meeting

\* _reduce_meeting: the filing status that the rows derive.
Reduced(rows) == DeriveFilingStatus(Statuses(rows))

Saved(i, row) == [intent EXCEPT ![i] = row]

\* May row i be saved and the meeting reduced?
Accepted(i, row) ==
  /\ CanTransitionWrite(intent[i].status, row.status) \/ intent[i].status = row.status
  /\ LET target == Reduced(Saved(i, row)) IN
       CanTransitionMeeting(meeting, target) \/ meeting = target

\* Save row i and reduce the meeting; a transition the tables refuse raises and
\* rolls the unit of work back.
SaveAndReduce(a, i, row) ==
  IF Accepted(i, row)
  THEN /\ intent' = Saved(i, row)
       /\ meeting' = Reduced(Saved(i, row))
       /\ SavedBy(a, i, After(a))
  ELSE Raise(a) /\ UNCHANGED <<intent, meeting>>

-----------------------------------------------------------------------------
\* A cycle of the delivery loop, run_once(1): recover one expired write, else
\* claim one due unknown write, else one due write.

\* Mutant: a reconcile lease is not asked for.
AnyLease(i) == TRUE

\* Mutant: an expired reconcile lease still excludes everybody.
NoLease(i) == intent[i].owner = Nobody

LeaseFree(i) == intent[i].owner = Nobody \/ ~intent[i].live

\* Mutant: expired writes are not recovered.
RecoverNothing(w) ==
  /\ actor[w].step = "idle"
  /\ Goto(w, "poll", "none")
  /\ UNCHANGED <<store, op, remote, faults>>

Recover(w) ==
  LET expired == {i \in Intents : intent[i].status = "in_flight" /\ ~intent[i].live} IN
  /\ actor[w].step = "idle"
  /\ IF expired = {} THEN Goto(w, "poll", "none") /\ UNCHANGED intent
     ELSE \E i \in expired :
            /\ intent' = [intent EXCEPT ![i] = Doubted(i)]
            /\ SavedBy(w, i, At(w, "poll", "none"))
  /\ UNCHANGED <<receipt, meeting, op, remote, faults>>

\* claim_unknown and claim_due_unknown_ids: the row is a's to reconcile.
ClaimUnknown(a, i) ==
  /\ intent' = [intent EXCEPT ![i].owner = a, ![i].live = TRUE, ![i].due = TRUE]
  /\ SavedBy(a, i, Taking(a, i, "rload"))

ClaimDueUnknown(w) ==
  LET waiting == {i \in Intents : /\ intent[i].status = "unknown"
                                  /\ intent[i].due /\ LeaseFree(i)} IN
  /\ actor[w].step = "poll"
  /\ IF waiting = {} THEN Goto(w, "poll_due", "none") /\ UNCHANGED intent
     ELSE \E i \in waiting : ClaimUnknown(w, i)
  /\ UNCHANGED <<receipt, meeting, op, remote, faults>>

Due(i) == \/ intent[i].status = "pending"
          \/ intent[i].status = "retry_wait" /\ intent[i].due

ClaimDue(w) ==
  LET due == {i \in Intents : Due(i)} IN
  /\ actor[w].step = "poll_due"
  /\ IF due = {} THEN Leave(w) /\ UNCHANGED intent
     ELSE \E i \in due :
            /\ intent' = [intent EXCEPT ![i] =
                            [Row("in_flight", @.attempts + 1, "none")
                               EXCEPT !.owner = WorkerId[w], !.live = TRUE]]
            /\ SavedBy(w, i, Taking(w, i, "load"))
  /\ UNCHANGED <<receipt, meeting, op, remote, faults>>

-----------------------------------------------------------------------------
\* deliver_intent.

Filing == meeting = "filing"

\* _load_execution_snapshot: a receipt already there is recorded again; a row no
\* longer this loop's to execute is left alone.
LoadExecution(w) ==
  LET i == actor[w].intent IN
  /\ actor[w].step = "load"
  /\ IF i \in receipt
     THEN actor' = [actor EXCEPT ![w] = [At(w, "record", "success") EXCEPT !.seen = TRUE]]
     ELSE IF /\ intent[i].status = "in_flight" /\ intent[i].owner = WorkerId[w]
             /\ intent[i].live /\ Filing
          THEN actor' = [actor EXCEPT ![w] = [At(w, "permit", "none") EXCEPT !.seen = TRUE]]
          ELSE Leave(w)
  /\ UNCHANGED <<store, op, remote, faults>>

\* Mutant: the create is sent without a last look at the row.
PermitAnyway(w) ==
  /\ actor[w].step = "permit"
  /\ Goto(w, "calling", "none")
  /\ UNCHANGED <<store, op, remote, faults>>

\* PersistedApprovalAuthorizer: the last look at the row before the create is
\* sent.  A refusal is permanent, an exception of its unit of work retryable.
Permit(w) ==
  LET i == actor[w].intent IN
  /\ actor[w].step = "permit"
  /\ \/ IF actor[w].seen /\ intent[i].status = "in_flight" /\ intent[i].live /\ Filing
        THEN Goto(w, "calling", "none")
        ELSE Goto(w, "record", "permanent")
     \/ Goto(w, "record", "retryable")
  /\ UNCHANGED <<store, op, remote, faults>>

Create(i) == records' = [records EXCEPT ![i] = IF HonorsKey THEN 1 ELSE @ + 1]

\* The connector applies the create it was sent.
ConnectorApplies(w) ==
  /\ actor[w].step = "calling" /\ actor[w].answer = "none"
  /\ Create(actor[w].intent)
  /\ Goto(w, "calling", "applied")
  /\ UNCHANGED <<store, op, stray, faults>>

\* What the gateway makes of the exchange.  Success and a refusal are the
\* connector's word; a timeout, a broken response or a foreign receipt leaves
\* the outcome unknown, and the create perhaps still under way.
GatewayAnswers(w) ==
  LET i == actor[w].intent  applied == actor[w].answer = "applied" IN
  /\ actor[w].step = "calling"
  /\ \/ applied /\ Goto(w, "record", "success") /\ UNCHANGED stray
     \/ /\ ~applied /\ UNCHANGED stray
        /\ \E refusal \in {"retryable", "permanent"} : Goto(w, "record", refusal)
     \/ Goto(w, "record", "conflict") /\ UNCHANGED stray
     \/ /\ Goto(w, "record", "unknown")
        /\ stray' = [stray EXCEPT ![i] = IF applied \/ Punctual THEN @ ELSE @ + 1]
  /\ UNCHANGED <<store, op, records, faults>>

\* A create whose caller has given up reaches the connector, or is lost.
StrayEnds(i) ==
  /\ stray[i] > 0
  /\ stray' = [stray EXCEPT ![i] = @ - 1]
  /\ Create(i) \/ UNCHANGED records
  /\ UNCHANGED <<store, op, actor, faults>>

Delivered(i) == Moved(i, "succeeded", "none")

\* _commit_success
CommitSuccess(a, i) ==
  IF intent[i].status = "succeeded"
  THEN Leave(a) /\ UNCHANGED <<intent, meeting>>
  ELSE SaveAndReduce(a, i, Delivered(i))

\* Mutant: the receipt is stored whatever became of the intent.
StoreReceiptAnyway(a, i) ==
  receipt' = receipt \cup {i} /\ Leave(a) /\ UNCHANGED <<intent, meeting>>

\* The tail of _record_success: an intent moved on meanwhile is left alone.
StoreReceipt(a, i) ==
  IF i \in receipt THEN CommitSuccess(a, i) /\ UNCHANGED receipt
  ELSE IF intent[i].status \in {"in_flight", "unknown"}
  THEN /\ receipt' = IF Accepted(i, Delivered(i)) THEN receipt \cup {i} ELSE receipt
       /\ CommitSuccess(a, i)
  ELSE Leave(a) /\ UNCHANGED store

RecordSuccess(w) ==
  /\ actor[w].step = "record" /\ actor[w].answer = "success"
  /\ StoreReceipt(w, actor[w].intent)
  /\ UNCHANGED <<op, remote, faults>>

\* Mutant: attempts run out one late.
FailedLate(i, answer) ==
  IF answer = "unknown" THEN Doubted(i)
  ELSE IF answer = "conflict" THEN Moved(i, "permanent_failed", "ambiguous")
  ELSE IF answer = "permanent" \/ intent[i].attempts > MaxAttempts
  THEN Moved(i, "permanent_failed", "definite")
  ELSE Moved(i, "retry_wait", "definite")

\* The row a failed delivery leaves: an idempotency conflict is permanent with an
\* ambiguous code, a retryable failure on the last attempt permanent.
FailedRow(i, answer) ==
  IF answer = "unknown" THEN Doubted(i)
  ELSE IF answer = "conflict" THEN Moved(i, "permanent_failed", "ambiguous")
  ELSE IF answer = "permanent" \/ intent[i].attempts >= MaxAttempts
  THEN Moved(i, "permanent_failed", "definite")
  ELSE Moved(i, "retry_wait", "definite")

RecordFailure(w) ==
  LET i == actor[w].intent IN
  /\ actor[w].step = "record" /\ actor[w].answer # "success"
  /\ IF i \in receipt THEN CommitSuccess(w, i)
     ELSE IF ~actor[w].seen THEN Leave(w) /\ UNCHANGED <<intent, meeting>>
     ELSE SaveAndReduce(w, i, FailedRow(i, actor[w].answer))
  /\ UNCHANGED <<receipt, op, remote, faults>>

-----------------------------------------------------------------------------
\* reconcile_intent, by a delivery loop or a served request.

HoldsReconcileLease(a, i) ==
  intent[i].status = "unknown" /\ intent[i].owner = a /\ intent[i].live

\* _load_reconciliation_snapshot: a lost lease and an unapproved meeting raise.
LoadReconciliation(a) ==
  LET i == actor[a].intent IN
  /\ actor[a].step = "rload"
  /\ IF ~HoldsReconcileLease(a, i) \/ (i \notin receipt /\ ~Filing) THEN Raise(a)
     ELSE actor' = [actor EXCEPT ![a] =
                      [At(a, IF i \in receipt THEN "rrecord" ELSE "lookup",
                          IF i \in receipt THEN "found" ELSE "none") EXCEPT !.seen = TRUE]]
  /\ UNCHANGED <<store, op, remote, faults>>

\* find_task / find_event
Lookup(a) ==
  /\ actor[a].step = "lookup"
  /\ \/ Goto(a, "rrecord", IF records[actor[a].intent] > 0 THEN "found" ELSE "absent")
     \/ LookupFails /\ Goto(a, "rrecord", "error")
  /\ UNCHANGED <<store, op, remote, faults>>

\* The row a confirmed absence leaves.
AbsentRow(i) ==
  IF intent[i].attempts >= MaxAttempts THEN Moved(i, "permanent_failed", "definite")
  ELSE Moved(i, "retry_wait", "ambiguous")

MayRecord(a, i) == actor[a].seen /\ HoldsReconcileLease(a, i)

\* _record_success, _record_confirmed_absence or _refresh_unknown.
RecordReconciliation(a) ==
  LET i == actor[a].intent  found == actor[a].answer = "found" IN
  /\ actor[a].step = "rrecord"
  /\ IF ~MayRecord(a, i) THEN Leave(a) /\ UNCHANGED store
     ELSE IF found THEN StoreReceipt(a, i)
     ELSE /\ UNCHANGED receipt
          /\ SaveAndReduce(a, i, IF actor[a].answer = "absent" THEN AbsentRow(i)
                                 ELSE Moved(i, "unknown", "ambiguous"))
  /\ UNCHANGED <<op, remote, faults>>

-----------------------------------------------------------------------------
\* retry and reconcile requests.

RequiresReconciliation(i) ==
  intent[i].status = "permanent_failed" /\ intent[i].code = "ambiguous"

\* Mutant: any intent may be queued again.
CanRetryAnyStatus(i) == intent[i].attempts < MaxAttempts

CanDirectRetry(i) ==
  /\ intent[i].status = "permanent_failed"
  /\ intent[i].attempts < MaxAttempts
  /\ ~RequiresReconciliation(i)

\* What the request will do with a selected intent, from the rows it was
\* selected with.
Plan(kind, i) ==
  IF intent[i].status = "unknown" THEN "reconcile"
  ELSE IF kind = "retry" /\ RequiresReconciliation(i) THEN "prepare"
  ELSE IF kind = "retry" /\ CanDirectRetry(i) THEN "queue"
  ELSE "done"

\* _select_and_claim: a key bound to another request, completed, or being served
\* is answered without a change.
SelectAndClaim(o, k, kind, chosen) ==
  /\ actor[o].step = "idle"
  /\ \/ op[k].status = "absent"
     \/ /\ op[k].kind = kind /\ op[k].chosen = chosen
        /\ op[k].status = "pending" \/ (op[k].status = "running" /\ ~op[k].live)
  /\ op' = [op EXCEPT ![k] = [status |-> "running", kind |-> kind, chosen |-> chosen,
                              owner |-> o, live |-> TRUE]]
  /\ actor' = [actor EXCEPT ![o] =
                 [Clear(o, "next") EXCEPT
                    !.key = k,
                    !.todo = [i \in Intents |-> IF i \in chosen THEN Plan(kind, i)
                                                ELSE "done"]]]
  /\ UNCHANGED <<store, remote, faults>>

OwnsOperation(o) ==
  LET k == actor[o].key IN op[k].status = "running" /\ op[k].owner = o /\ op[k].live

ToDo(o) == {i \in Intents : actor[o].todo[i] # "done"}

\* _renew_operation before each intent.  One that needs nothing is only renewed
\* for, which the next renewal or the completion does as well.
Renew(o) ==
  /\ actor[o].step = "next" /\ ToDo(o) # {}
  /\ IF OwnsOperation(o)
     THEN \E i \in ToDo(o) :
            actor' = [actor EXCEPT ![o] = Taking(o, i, actor[o].todo[i])]
     ELSE Raise(o)
  /\ UNCHANGED <<store, op, remote, faults>>

\* _claim_unknown, with force: due or not.
ForceClaim(o) ==
  LET i == actor[o].intent IN
  /\ actor[o].step = "reconcile"
  /\ IF intent[i].status = "unknown" /\ LeaseFree(i) THEN ClaimUnknown(o, i)
     ELSE Goto(o, "reread", "none") /\ UNCHANGED intent
  /\ UNCHANGED <<receipt, meeting, op, remote, faults>>

\* Not claimed: an intent still unknown is being reconciled by somebody else.
Reread(o) ==
  /\ actor[o].step = "reread"
  /\ IF intent[actor[o].intent].status = "unknown" THEN Raise(o) ELSE Leave(o)
  /\ UNCHANGED <<store, op, remote, faults>>

\* A failed or partly failed meeting is filing again.
Refiled ==
  IF meeting \in {"partially_filed", "filing_failed"} THEN "filing" ELSE meeting

Prepare(o) ==
  LET i == actor[o].intent IN
  /\ actor[o].step = "prepare"
  /\ IF intent[i].status = "unknown"
     THEN Goto(o, "reconcile", "none") /\ UNCHANGED <<intent, meeting>>
     ELSE IF RequiresReconciliation(i)
     THEN /\ intent' = [intent EXCEPT ![i] = Doubted(i)]
          /\ meeting' = Refiled
          /\ SavedBy(o, i, At(o, "reconcile", "none"))
     ELSE Leave(o) /\ UNCHANGED <<intent, meeting>>
  /\ UNCHANGED <<receipt, op, remote, faults>>

QueueRetry(o) ==
  LET i == actor[o].intent IN
  /\ actor[o].step = "queue"
  /\ IF CanDirectRetry(i)
     THEN /\ intent' = [intent EXCEPT ![i] = Moved(i, "retry_wait", @.code)]
          /\ meeting' = Refiled
          /\ SavedBy(o, i, After(o))
     ELSE Leave(o) /\ UNCHANGED <<intent, meeting>>
  /\ UNCHANGED <<receipt, op, remote, faults>>

\* _complete_operation
Complete(o) ==
  /\ actor[o].step = "next" /\ ToDo(o) = {}
  /\ IF OwnsOperation(o)
     THEN /\ op' = [op EXCEPT ![actor[o].key] = [@ EXCEPT !.status = "completed",
                                                 !.owner = Nobody, !.live = FALSE]]
          /\ actor' = [actor EXCEPT ![o] = Idle]
     ELSE Raise(o) /\ UNCHANGED op
  /\ UNCHANGED <<store, remote, faults>>

\* _release_operation
Release(o) ==
  LET k == actor[o].key IN
  /\ actor[o].step = "release"
  /\ IF op[k].status = "running" /\ op[k].owner = o
     THEN op' = [op EXCEPT ![k] = [@ EXCEPT !.status = "pending",
                                   !.owner = Nobody, !.live = FALSE]]
     ELSE UNCHANGED op
  /\ actor' = [actor EXCEPT ![o] = Idle]
  /\ UNCHANGED <<store, remote, faults>>

-----------------------------------------------------------------------------
\* Faults and time.

\* An actor dies, or a delivery cycle raises, or a request is cancelled: nothing
\* of its memory is left, and a create it had sent may still arrive.
Crash(a) ==
  /\ faults < MaxFaults /\ actor[a].step # "idle"
  /\ faults' = faults + 1
  /\ actor' = [actor EXCEPT ![a] = Idle]
  /\ stray' = IF actor[a].step = "calling" /\ actor[a].answer = "none"
              THEN [stray EXCEPT ![actor[a].intent] = @ + 1] ELSE stray
  /\ UNCHANGED <<store, op, records>>

\* A unit of work of a served request raises: the request releases its key.
RequestRaises(o) ==
  /\ faults < MaxFaults /\ actor[o].step \notin {"idle", "release"}
  /\ ~(actor[o].step = "rrecord" /\ actor[o].answer = "absent")
  /\ faults' = faults + 1
  /\ Raise(o)
  /\ UNCHANGED <<store, op, remote>>

\* _record_confirmed_absence is called inside the try around the lookup: when it
\* raises, the intent is refreshed like one whose lookup failed.
AbsenceRaises(a) ==
  /\ faults < MaxFaults
  /\ actor[a].step = "rrecord" /\ actor[a].answer = "absent"
  /\ faults' = faults + 1
  /\ Goto(a, "rrecord", "error")
  /\ UNCHANGED <<store, op, remote>>

\* Is somebody in the middle of an exchange about i?
Exchanging(i) ==
  \/ stray[i] > 0
  \/ \E a \in Actors : /\ actor[a].intent = i
                       /\ actor[a].step \in {"calling", "rload", "lookup", "rrecord"}

LeaseExpires(i) ==
  /\ intent[i].live
  /\ Punctual => ~Exchanging(i)
  /\ intent' = [intent EXCEPT ![i].live = FALSE]
  /\ UNCHANGED <<receipt, meeting, op, actor, remote, faults>>

BecomesDue(i) ==
  /\ intent[i].status \in {"retry_wait", "unknown"} /\ ~intent[i].due
  /\ intent' = [intent EXCEPT ![i].due = TRUE]
  /\ UNCHANGED <<receipt, meeting, op, actor, remote, faults>>

OperationLeaseExpires(k) ==
  /\ op[k].live
  /\ op' = [op EXCEPT ![k].live = FALSE]
  /\ UNCHANGED <<store, actor, remote, faults>>

-----------------------------------------------------------------------------
Deliver(w) ==
  \/ Recover(w) \/ ClaimDueUnknown(w) \/ ClaimDue(w) \/ LoadExecution(w)
  \/ Permit(w) \/ GatewayAnswers(w) \/ RecordSuccess(w) \/ RecordFailure(w)

Reconcile(a) == LoadReconciliation(a) \/ Lookup(a) \/ RecordReconciliation(a)

Serve(o) ==
  \/ Renew(o) \/ ForceClaim(o) \/ Reread(o) \/ Prepare(o) \/ QueueRetry(o)
  \/ Complete(o) \/ Release(o)

Request(o) ==
  \E k \in Keys, kind \in Kinds, chosen \in SUBSET Intents \ {{}} :
    SelectAndClaim(o, k, kind, chosen)

Next ==
  \/ \E w \in Workers : Deliver(w) \/ ConnectorApplies(w)
  \/ \E a \in Actors : Reconcile(a) \/ Crash(a) \/ AbsenceRaises(a)
  \/ \E o \in Operators : Request(o) \/ Serve(o) \/ RequestRaises(o)
  \/ \E i \in Intents : StrayEnds(i) \/ LeaseExpires(i) \/ BecomesDue(i)
  \/ \E k \in Keys : OperationLeaseExpires(k)

Spec == Init /\ [][Next]_vars

\* A lookup that gets an answer.
LookupAnswers(a) == Lookup(a) /\ actor'[a].answer # "error"

\* The supervisor keeps polling and awaits what it started, requests being served
\* go on, calls time out, leases and delays run out, strays end, and a lookup that
\* is made again and again gets an answer.  Faults, requests and what the
\* connector does are free.
Fairness ==
  /\ \A w \in Workers : WF_vars(Deliver(w))
  /\ \A a \in Actors : WF_vars(Reconcile(a)) /\ SF_vars(LookupAnswers(a))
  /\ \A o \in Operators : WF_vars(Serve(o))
  /\ \A i \in Intents :
       WF_vars(StrayEnds(i)) /\ WF_vars(LeaseExpires(i)) /\ WF_vars(BecomesDue(i))

FairSpec == Spec /\ Fairness

-----------------------------------------------------------------------------
\* Correctness.

Steps ==
  {"idle", "poll", "poll_due", "load", "permit", "calling", "record",
   "rload", "lookup", "rrecord", "next", "reconcile", "reread", "prepare",
   "queue", "release"}
Answers ==
  {"none", "applied", "success", "retryable", "permanent", "conflict", "unknown",
   "found", "absent", "error"}
Plans == {"reconcile", "prepare", "queue", "done"}

IntentRow ==
  [status : WriteStatuses, attempts : 0 .. MaxAttempts, code : Codes,
   due : BOOLEAN, owner : Actors \cup Names \cup {Nobody}, live : BOOLEAN]
OperationRow ==
  [status : {"absent", "pending", "running", "completed"},
   kind : {"retry", "reconcile"}, chosen : SUBSET Intents,
   owner : Operators \cup {Nobody}, live : BOOLEAN]
Memory ==
  [step : Steps, intent : Intents \cup {NoIntent}, seen : BOOLEAN,
   answer : Answers, key : Keys \cup {NoKey}, todo : [Intents -> Plans]]

\* The validators of WriteIntent: a delivery lease exactly in flight, a reconcile
\* lease only while unknown, a schedule only while waiting, a failure exactly
\* after one.
RowsWellFormed ==
  \A i \in Intents :
    LET row == intent[i] IN
      /\ row.status = "in_flight" => row.owner \in Names
      /\ row.owner # Nobody => row.status \in {"in_flight", "unknown"}
      /\ row.live => row.owner # Nobody
      /\ row.due => row.status \in {"retry_wait", "unknown"}
      /\ row.code = "none" <=> row.status \in {"pending", "in_flight", "succeeded"}

\* Every variable keeps its type, with the constraints the WriteIntent validators
\* put on leases and schedules, and no intent is attempted more than MaxAttempts
\* times: the claim itself does not ask (repositories.py:2327).
TypeOK ==
  /\ intent \in [Intents -> IntentRow]
  /\ RowsWellFormed
  /\ receipt \subseteq Intents
  /\ meeting \in MeetingStatuses
  /\ op \in [Keys -> OperationRow]
  /\ actor \in [Actors -> Memory]
  /\ records \in [Intents -> Nat]
  /\ stray \in [Intents -> Nat]
  /\ faults \in 0 .. MaxFaults

\* An intent has a receipt exactly when it has succeeded, and then the connector
\* does hold its record, whichever of a late answer, a replay and a lookup brought
\* the receipt (delivery.py _record_success).
ReceiptsAgree ==
  \A i \in Intents :
    /\ i \in receipt <=> intent[i].status = "succeeded"
    /\ i \in receipt => records[i] > 0

\* The meeting always shows the filing status its intents derive, although claims
\* and recoveries change intents without touching the meeting and several actors
\* settle intents at once (delivery.py _reduce_meeting).
FilingFollowsIntents == meeting = DeriveFilingStatus(Statuses(intent))

\* A live lease protects its row: until it expires only its holder changes the
\* row, except that a late receipt may still make it succeed (delivery.py
\* _record_failure, _record_success, _holds_reconciliation_lease).
LeaseHolds ==
  [][\A i \in Intents :
       intent[i].live =>
         \/ intent'[i] \in {intent[i], [intent[i] EXCEPT !.live = FALSE]}
         \/ intent'[i].status = "succeeded"
         \/ \E a \in Actors :
              /\ actor[a].intent = i /\ actor'[a] # actor[a]
              /\ intent[i].owner \in {a} \cup {WorkerId[w] : w \in Workers \cap {a}}]_vars

\* What an outside reader is told of an intent.
Outcome(row) ==
  IF row.status = "succeeded" THEN "delivered"
  ELSE IF row.status # "permanent_failed" THEN "open"
  ELSE IF row.code = "definite" THEN "failed" ELSE "doubtful"

Promise == INSTANCE Outbox WITH outcome <- [i \in Intents |-> Outcome(intent[i])],
                                made <- records

\* With punctual exchanges delivery keeps the outbox's promise although the
\* connector ignores idempotency keys: no record is made twice or for a write no
\* longer open, and neither a success nor a definite failure is reported against
\* what the connector holds (README.md:19, SECURITY.md:122; delivery.py).
KeepsPromise == Promise!Spec

\* A completed meeting is never filed again: no operator's stale plan and no late
\* answer reopens an intent that succeeded (delivery_control.py _queue_retry,
\* _prepare_reconciliation).
CompletedIsFinal ==
  [][meeting = "completed" => UNCHANGED store]_vars

\* No crash and no lost answer leaves an intent in flight for ever (delivery.py
\* _recover_expired).
InFlightEnds ==
  \A i \in Intents :
    intent[i].status = "in_flight" ~> intent[i].status # "in_flight"

\* Filing comes to an end: every intent is delivered or fails for good, whatever
\* was lost on the way, provided lookups answer.
FilingSettles == meeting = "filing" ~> meeting # "filing"
=============================================================================
