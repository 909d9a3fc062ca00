----------------------------- MODULE Processing -----------------------------
(***************************************************************************)
(* Durable processing of meetings: the job queue of the two stages         *)
(* (application/processing.py and the processing_jobs repository), the     *)
(* stage handlers a claimed job runs (application/workflow.py), and the    *)
(* operator's retry and cancellation (application/processing_control.py).  *)
(*                                                                         *)
(* Every write unit of work is a BEGIN IMMEDIATE transaction, so each of   *)
(* them is one action; what a worker remembers between two transactions    *)
(* (the job it claimed, the failure it is about to record, where it is in  *)
(* the handler) is its entry of "worker".  Time is reduced to the two      *)
(* facts the code asks of it: is the lease still live, is the retry due.   *)
(***************************************************************************)
EXTENDS Naturals, FiniteSets, Lifecycle

CONSTANTS
  Meetings,      \* meetings already ingested
  Workers,       \* concurrent executions of ProcessingWorker.run_once
  WorkerIds,     \* lease-owner names
  WorkerId,      \* the name each worker claims with (host:pid:role, reusable)
  Keys,          \* idempotency keys of operator requests; bounds the requests
  MaxAttempts,   \* PROCESSING_MAX_ATTEMPTS, per stage
  RepairLimit,   \* batch size: exhausted leases repaired by one claim
  StoreFaults,   \* may a unit of work raise, before or after it committed?
  NoMeeting, NoOwner

Stages == {"transcription", "extraction"}

ASSUME MaxAttemptsAssumption == MaxAttempts \in [Stages -> Nat \ {0}]
ASSUME WorkerIdAssumption == WorkerId \in [Workers -> WorkerIds]
ASSUME SentinelAssumption == NoMeeting \notin Meetings /\ NoOwner \notin WorkerIds
ASSUME BoundAssumption == RepairLimit \in Nat \ {0} /\ StoreFaults \in BOOLEAN

VARIABLES
  meeting,   \* meetings row: status, failure disposition, optimistic version
  artifact,  \* current_transcript_id / current_review_id: the attempt that
             \* committed the stage's artifact, 0 while there is none
  job,       \* processing_jobs row of each stage
  tokens,    \* claim tokens drawn for each job (uuid4: never drawn twice)
  audit,     \* latest processing event of each stage in the workflow ledger
  worker,    \* what each worker holds between its transactions
  ops        \* meeting_operations: idempotency bindings by request key

vars == <<meeting, artifact, job, tokens, audit, worker, ops>>

-----------------------------------------------------------------------------
\* Per-stage meeting statuses (processing.py _stage_states).

Pending(s) == IF s = "transcription" THEN "ingested" ELSE "transcribed"
Active(s) == IF s = "transcription" THEN "transcribing" ELSE "extracting"
Failed(s) == IF s = "transcription" THEN "transcription_failed" ELSE "extraction_failed"
Completed(s) == IF s = "transcription" THEN "transcribed" ELSE "awaiting_approval"

JobStatuses ==
  {"absent", "ready", "running", "retry_wait", "succeeded", "failed", "cancelled"}
Outcomes ==
  {"none", "started", "succeeded", "retry_scheduled", "failed", "retry_requested"}
Steps ==
  {"idle", "validate", "load", "start", "call", "complete", "fail_inner",
   "fail_outer", "finish_ok", "finish_fail"}

Failures == {"none", "retryable", "permanent"}

\* _replace_job(...) with every lease and retry field cleared.
Released(j, status) ==
  [status |-> status, attempts |-> j.attempts, owner |-> NoOwner, token |-> 0,
   live |-> FALSE, due |-> FALSE]

NewJob == [status |-> "ready", attempts |-> 0, owner |-> NoOwner, token |-> 0,
           live |-> FALSE, due |-> FALSE]
NoJob == Released(NewJob, "absent")
Event(o, n) == [outcome |-> o, attempt |-> n]
NoEvent == Event("none", 0)
IdleWorker == [step |-> "idle", meeting |-> NoMeeting, stage |-> "transcription",
               token |-> 0, attempt |-> 0, failure |-> "none"]
NoBinding == [operation |-> "none", meeting |-> NoMeeting, version |-> 0]

\* transition_meeting: the failure is replaced, the version grows.
Transitioned(mt, target, failure) ==
  [status |-> target, failure |-> failure, version |-> mt.version + 1]

\* The state ingest leaves behind: a meeting with its transcription job queued.
Init ==
  /\ meeting = [m \in Meetings |->
                  [status |-> "ingested", failure |-> "none", version |-> 0]]
  /\ artifact = [m \in Meetings |-> [s \in Stages |-> 0]]
  /\ job = [m \in Meetings |->
              [s \in Stages |-> IF s = "transcription" THEN NewJob ELSE NoJob]]
  /\ tokens = [m \in Meetings |-> [s \in Stages |-> 0]]
  /\ audit = [m \in Meetings |-> [s \in Stages |-> NoEvent]]
  /\ worker = [w \in Workers |-> IdleWorker]
  /\ ops = [k \in Keys |-> NoBinding]

-----------------------------------------------------------------------------
\* Lease tests.

\* Mutant: the owner name alone is taken for the claim.
OwnsLeaseByName(w) ==
  LET h == worker[w]  j == job[h.meeting][h.stage] IN
    j.status = "running" /\ j.owner = WorkerId[w] /\ j.live

\* processing.py _owns_live_lease: asked before a result is persisted.
OwnsLiveLease(w) ==
  LET h == worker[w]  j == job[h.meeting][h.stage] IN
    /\ j.status = "running"
    /\ j.owner = WorkerId[w]
    /\ j.token = h.token
    /\ j.live

\* workflow.py _require_active_job: asked before a stage mutates the meeting.
IsActiveJob(w) ==
  LET h == worker[w]  j == job[h.meeting][h.stage] IN
    /\ j.status = "running"
    /\ j.attempts = h.attempt
    /\ j.owner = WorkerId[w]
    /\ j.token = h.token
    /\ j.live

HasArtifact(m, s) == artifact[m][s] # 0

IsOpenAttempt(m, s, n) == audit[m][s] = Event("started", n)

Goto(w, step, failure) ==
  worker' = [worker EXCEPT ![w].step = step, ![w].failure = failure]

Release(w) == worker' = [worker EXCEPT ![w] = IdleWorker]

-----------------------------------------------------------------------------
\* Claiming: repair exhausted leases, then claim one due job, in one transaction.

\* Mutant: off by one, a job on its last attempt is never repaired.
OverExhausted(s) ==
  {m \in Meetings : /\ job[m][s].status = "running"
                    /\ ~job[m][s].live
                    /\ job[m][s].attempts > MaxAttempts[s]}

Exhausted(s) ==
  {m \in Meetings : /\ job[m][s].status = "running"
                    /\ ~job[m][s].live
                    /\ job[m][s].attempts >= MaxAttempts[s]}

\* Mutant: an expired lease is reclaimed whatever its attempts.
DueForever(s) ==
  {m \in Meetings :
     \/ job[m][s].status = "ready"
     \/ job[m][s].status = "retry_wait" /\ job[m][s].due
     \/ job[m][s].status = "running" /\ ~job[m][s].live}

Due(s) ==
  {m \in Meetings :
     /\ job[m][s].attempts < MaxAttempts[s]
     /\ \/ job[m][s].status = "ready"
        \/ job[m][s].status = "retry_wait" /\ job[m][s].due
        \/ job[m][s].status = "running" /\ ~job[m][s].live}

\* The oldest leases first; which ones those are is left open.
Repairable(s, limit) ==
  {R \in SUBSET Exhausted(s) :
     \/ Cardinality(R) = limit
     \/ R = Exhausted(s) /\ Cardinality(R) < limit}

\* What an abandoned attempt turns out to have been.
Verdict(m, s) ==
  IF HasArtifact(m, s) THEN "succeeded"
  ELSE IF meeting[m].status = "cancelled" THEN "cancelled"
  ELSE "failed"

\* Mutant: the abandoned attempt is left open in the ledger.
UnclosedAudit(m, s) == audit[m][s]

ClosedAudit(m, s) ==
  IF /\ IsOpenAttempt(m, s, job[m][s].attempts)
     /\ Verdict(m, s) # "cancelled"
  THEN Event(Verdict(m, s), job[m][s].attempts)
  ELSE audit[m][s]

\* Mutant: only a stage that never started is failed.
RepairedIfPending(m, s) ==
  IF Verdict(m, s) = "failed" /\ meeting[m].status = Pending(s)
  THEN Transitioned(Transitioned(meeting[m], Active(s), "none"), Failed(s), "retryable")
  ELSE meeting[m]

\* _fail_meeting_for_expired_job: pending -> active -> failed in one save.
RepairedMeeting(m, s) ==
  LET mt == meeting[m] IN
    IF Verdict(m, s) # "failed" THEN mt
    ELSE IF mt.status = Pending(s)
         THEN Transitioned(Transitioned(mt, Active(s), "none"), Failed(s), "retryable")
    ELSE IF mt.status = Active(s) THEN Transitioned(mt, Failed(s), "retryable")
    ELSE mt

\* Mutant: every reclaimed attempt counts as a timeout.
ReclaimAsTimeout(m, s) == "retryable"

\* _reclaimed_attempt_failure
ReclaimFailure(m, s) ==
  IF meeting[m].status # Failed(s) THEN "retryable"
  ELSE IF meeting[m].failure = "none" THEN "permanent"
  ELSE meeting[m].failure

\* _prepare_claimed_attempt: does the claimed attempt run, or was the previous
\* one already decided?
AttemptRuns(m, s) ==
  \/ job[m][s].attempts = 0
  \/ Verdict(m, s) = "failed" /\ ReclaimFailure(m, s) = "retryable"

\* Mutant: the attempt counted by the claim is not given back.
ClaimedJobCounted(w, m, s) ==
  [status |-> IF AttemptRuns(m, s) THEN "running" ELSE Verdict(m, s),
   attempts |-> job[m][s].attempts + 1,
   owner |-> IF AttemptRuns(m, s) THEN WorkerId[w] ELSE NoOwner,
   token |-> IF AttemptRuns(m, s) THEN tokens[m][s] + 1 ELSE 0,
   live |-> AttemptRuns(m, s), due |-> FALSE]

ClaimedJob(w, m, s) ==
  IF AttemptRuns(m, s)
  THEN [status |-> "running", attempts |-> job[m][s].attempts + 1,
        owner |-> WorkerId[w], token |-> tokens[m][s] + 1,
        live |-> TRUE, due |-> FALSE]
  ELSE Released(job[m][s], Verdict(m, s))

ClaimedAudit(m, s) ==
  IF AttemptRuns(m, s) THEN Event("started", job[m][s].attempts + 1)
  ELSE ClosedAudit(m, s)

Claim(w, s) ==
  /\ worker[w].step = "idle"
  /\ \E limit \in {0, RepairLimit} : \E R \in Repairable(s, limit) :
     \E c \in Due(s) \cup {NoMeeting} :
       /\ (c = NoMeeting) <=> (Due(s) = {})
       /\ meeting' = [m \in Meetings |->
                        IF m \in R THEN RepairedMeeting(m, s) ELSE meeting[m]]
       /\ job' = [m \in Meetings |-> [t \in Stages |->
                    IF t = s /\ m \in R THEN Released(job[m][s], Verdict(m, s))
                    ELSE IF t = s /\ m = c THEN ClaimedJob(w, m, s)
                    ELSE job[m][t]]]
       /\ tokens' = [m \in Meetings |-> [t \in Stages |->
                       IF t = s /\ m = c THEN tokens[m][s] + 1 ELSE tokens[m][t]]]
       /\ audit' = [m \in Meetings |-> [t \in Stages |->
                      IF t = s /\ m \in R THEN ClosedAudit(m, s)
                      ELSE IF t = s /\ m = c THEN ClaimedAudit(m, s)
                      ELSE audit[m][t]]]
       /\ IF c # NoMeeting /\ AttemptRuns(c, s)
          THEN worker' = [worker EXCEPT ![w] =
                            [step |-> "validate", meeting |-> c, stage |-> s,
                             token |-> tokens[c][s] + 1,
                             attempt |-> job[c][s].attempts + 1,
                             failure |-> "none"]]
          ELSE UNCHANGED worker
  /\ UNCHANGED <<artifact, ops>>

-----------------------------------------------------------------------------
\* The stage handler (execute_transcription_job / execute_extraction_job).
\* A unit of work that raises, when StoreFaults, either rolled back or committed.

queue == <<job, tokens, audit>>

\* _validate_job: PERMANENT "invalid job" when the claim is no longer the job's;
\* any other exception becomes a RETRYABLE failure in ProcessingWorker._execute.
Validate(w) ==
  /\ worker[w].step = "validate"
  /\ \/ IsActiveJob(w) /\ Goto(w, "load", "none")
     \/ ~IsActiveJob(w) /\ Goto(w, "finish_fail", "permanent")
     \/ StoreFaults /\ Goto(w, "finish_fail", "retryable")
  /\ UNCHANGED <<meeting, artifact, queue, ops>>

\* get_meeting: an artifact already stored is a success; a meeting outside the
\* stage is an invalid job.
Load(w) ==
  LET m == worker[w].meeting  s == worker[w].stage IN
  /\ worker[w].step = "load"
  /\ \/ HasArtifact(m, s) /\ Goto(w, "finish_ok", "none")
     \/ /\ ~HasArtifact(m, s)
        /\ IF meeting[m].status \in {Pending(s), Active(s), Failed(s)}
           THEN Goto(w, "start", "none")
           ELSE Goto(w, "finish_fail", "permanent")
     \/ StoreFaults /\ Goto(w, "finish_fail", "retryable")
  /\ UNCHANGED <<meeting, artifact, queue, ops>>

CanStart(w) ==
  /\ IsActiveJob(w)
  /\ \/ meeting[worker[w].meeting].status = Active(worker[w].stage)
     \/ CanTransitionMeeting(meeting[worker[w].meeting].status, Active(worker[w].stage))

Started(w) ==
  LET m == worker[w].meeting  s == worker[w].stage IN
    IF meeting[m].status = Active(s) THEN meeting
    ELSE [meeting EXCEPT ![m] = Transitioned(@, Active(s), "none")]

\* _start_stage, and what it raises: the outer handler then fails the stage with
\* a generic RETRYABLE failure.
StartStage(w) ==
  /\ worker[w].step = "start"
  /\ \/ CanStart(w) /\ meeting' = Started(w) /\ Goto(w, "call", "none")
     \/ ~CanStart(w) /\ UNCHANGED meeting /\ Goto(w, "fail_outer", "retryable")
     \/ /\ StoreFaults
        /\ meeting' \in {meeting} \cup (IF CanStart(w) THEN {Started(w)} ELSE {})
        /\ Goto(w, "fail_outer", "retryable")
  /\ UNCHANGED <<artifact, queue, ops>>

\* The provider runs outside any transaction and answers, or fails for now or
\* for good; loading its inputs may raise before the inner handler is entered.
ProviderCall(w) ==
  /\ worker[w].step = "call"
  /\ \/ Goto(w, "complete", "none")
     \/ \E f \in {"retryable", "permanent"} : Goto(w, "fail_inner", f)
     \/ StoreFaults /\ Goto(w, "fail_outer", "retryable")
  /\ UNCHANGED <<meeting, artifact, queue, ops>>

CanComplete(w) ==
  /\ IsActiveJob(w)
  /\ CanTransitionMeeting(meeting[worker[w].meeting].status, Completed(worker[w].stage))

\* Mutant: the artifact is stored without the meeting.
StoreArtifactOnly(w) ==
  /\ artifact' = [artifact EXCEPT ![worker[w].meeting][worker[w].stage] = worker[w].attempt]
  /\ UNCHANGED <<meeting, job>>

\* _complete_transcription / _complete_extraction: the artifact, the meeting and
\* (after a transcription) the extraction job, together.
StoreArtifact(w) ==
  LET m == worker[w].meeting  s == worker[w].stage IN
    /\ meeting' = [meeting EXCEPT ![m] = Transitioned(@, Completed(s), "none")]
    /\ artifact' = [artifact EXCEPT ![m][s] = worker[w].attempt]
    /\ job' = IF s = "transcription" /\ job[m]["extraction"].status = "absent"
              THEN [job EXCEPT ![m]["extraction"] = NewJob]
              ELSE job

CompleteStage(w) ==
  /\ worker[w].step = "complete"
  /\ \/ CanComplete(w) /\ StoreArtifact(w) /\ Goto(w, "finish_ok", "none")
     \/ /\ ~CanComplete(w) \/ StoreFaults
        /\ UNCHANGED <<meeting, artifact, job>>
        /\ Goto(w, "fail_outer", "retryable")
     \/ /\ StoreFaults /\ CanComplete(w)
        /\ StoreArtifact(w)
        /\ Goto(w, "fail_outer", "retryable")
  /\ UNCHANGED <<tokens, audit, ops>>

\* _fail_stage raises for a lost claim and for a meeting that left the stage; it
\* returns silently for a meeting already failed or never started.
CanFailStage(w) ==
  /\ IsActiveJob(w)
  /\ meeting[worker[w].meeting].status
       \in {Pending(worker[w].stage), Active(worker[w].stage), Failed(worker[w].stage)}

StageFailed(w) ==
  LET m == worker[w].meeting  s == worker[w].stage IN
    IF meeting[m].status = Active(s)
    THEN [meeting EXCEPT ![m] = Transitioned(@, Failed(s), worker[w].failure)]
    ELSE meeting

\* after the failure is recorded the worker goes on to "recorded" with it; when
\* recording raises, to "raised" with the RETRYABLE failure of that exception.
FailStage(w, recorded, raised) ==
  /\ \/ CanFailStage(w) /\ meeting' = StageFailed(w)
        /\ Goto(w, recorded, worker[w].failure)
     \/ ~CanFailStage(w) /\ UNCHANGED meeting /\ Goto(w, raised, "retryable")
     \/ /\ StoreFaults
        /\ meeting' \in {meeting} \cup (IF CanFailStage(w) THEN {StageFailed(w)} ELSE {})
        /\ Goto(w, raised, "retryable")
  /\ UNCHANGED <<artifact, queue, ops>>

\* The handler around the provider call, which re-raises into the outer one.
FailStageInner(w) ==
  worker[w].step = "fail_inner" /\ FailStage(w, "fail_outer", "fail_outer")

\* The handler around the whole stage.
FailStageOuter(w) ==
  worker[w].step = "fail_outer" /\ FailStage(w, "finish_fail", "finish_fail")

-----------------------------------------------------------------------------
\* Persisting the result of an attempt.  A unit of work that raises here ends
\* the worker's cycle: uncommitted, the job waits for its lease to expire (Crash).

Finish(w, status, outcome) ==
  LET m == worker[w].meeting  s == worker[w].stage IN
    /\ job' = [job EXCEPT ![m][s] = Released(@, status)]
    /\ audit' = [audit EXCEPT ![m][s] = Event(outcome, job[m][s].attempts)]

FinishSuccess(w) ==
  /\ worker[w].step = "finish_ok"
  /\ IF OwnsLiveLease(w) THEN Finish(w, "succeeded", "succeeded")
                         ELSE UNCHANGED <<job, audit>>
  /\ Release(w)
  /\ UNCHANGED <<meeting, artifact, tokens, ops>>

\* The failure the meeting recorded wins over the one the handler returned.
EffectiveFailure(w) ==
  LET m == worker[w].meeting  s == worker[w].stage IN
    IF meeting[m].status = Failed(s) /\ meeting[m].failure # "none"
    THEN meeting[m].failure ELSE worker[w].failure

MayRetry(w) ==
  LET m == worker[w].meeting  s == worker[w].stage IN
    EffectiveFailure(w) = "retryable" /\ job[m][s].attempts < MaxAttempts[s]

FinishFailure(w) ==
  LET m == worker[w].meeting  s == worker[w].stage IN
  /\ worker[w].step = "finish_fail"
  /\ \/ ~OwnsLiveLease(w) /\ UNCHANGED <<job, audit>>
     \/ OwnsLiveLease(w) /\ HasArtifact(m, s) /\ Finish(w, "succeeded", "succeeded")
     \/ /\ OwnsLiveLease(w) /\ ~HasArtifact(m, s) /\ MayRetry(w)
        /\ Finish(w, "retry_wait", "retry_scheduled")
     \/ /\ OwnsLiveLease(w) /\ ~HasArtifact(m, s) /\ ~MayRetry(w)
        /\ Finish(w, "failed", "failed")
  /\ Release(w)
  /\ UNCHANGED <<meeting, artifact, tokens, ops>>

\* A worker dies, or its cycle raises, between two transactions; the supervisor
\* starts another cycle, with nothing of the old one but the database.
Crash(w) ==
  /\ worker[w].step # "idle"
  /\ Release(w)
  /\ UNCHANGED <<meeting, artifact, queue, ops>>

-----------------------------------------------------------------------------
\* Time.

LeaseExpires(m, s) ==
  /\ job[m][s].status = "running" /\ job[m][s].live
  /\ job' = [job EXCEPT ![m][s].live = FALSE]
  /\ UNCHANGED <<meeting, artifact, tokens, audit, worker, ops>>

RetryDue(m, s) ==
  /\ job[m][s].status = "retry_wait" /\ ~job[m][s].due
  /\ job' = [job EXCEPT ![m][s].due = TRUE]
  /\ UNCHANGED <<meeting, artifact, tokens, audit, worker, ops>>

-----------------------------------------------------------------------------
\* Operator commands.  A key already bound is answered from its binding and
\* changes nothing; the version presented must be the meeting's current one.

Bind(k, operation, m) ==
  ops' = [ops EXCEPT ![k] = [operation |-> operation, meeting |-> m,
                             version |-> meeting[m].version]]

\* Mutant: a retry leaves the meeting's version alone.
RetryUnversioned(m, k) ==
  \E s \in Stages :
    /\ ops[k] = NoBinding
    /\ meeting[m].status = Failed(s)
    /\ job[m][s].status = "failed"
    /\ job' = [job EXCEPT ![m][s] = NewJob]
    /\ audit' = [audit EXCEPT ![m][s] = Event("retry_requested", 0)]
    /\ Bind(k, "retry", m)
    /\ UNCHANGED <<meeting, artifact, tokens, worker>>

Retry(m, k) ==
  \E s \in Stages :
    /\ ops[k] = NoBinding
    /\ meeting[m].status = Failed(s)
    /\ job[m][s].status = "failed"
    /\ job' = [job EXCEPT ![m][s] = NewJob]
    /\ meeting' = [meeting EXCEPT ![m].version = @ + 1]
    /\ audit' = [audit EXCEPT ![m][s] = Event("retry_requested", 0)]
    /\ Bind(k, "retry", m)
    /\ UNCHANGED <<artifact, tokens, worker>>

Cancellable ==
  {"ingested", "transcription_failed", "transcribed", "extraction_failed",
   "awaiting_approval"}

\* Mutant: a running job does not stop a cancellation.
CancelRunning(m, k) ==
  /\ ops[k] = NoBinding
  /\ meeting[m].status \in Cancellable
  /\ job' = [job EXCEPT ![m] = [s \in Stages |->
               IF job[m][s].status \in {"ready", "retry_wait"}
               THEN Released(job[m][s], "cancelled") ELSE job[m][s]]]
  /\ meeting' = [meeting EXCEPT ![m] = Transitioned(@, "cancelled", "none")]
  /\ Bind(k, "cancel", m)
  /\ UNCHANGED <<artifact, tokens, audit, worker>>

Cancel(m, k) ==
  /\ ops[k] = NoBinding
  /\ \A s \in Stages : job[m][s].status # "running"
  /\ meeting[m].status \in Cancellable
  /\ job' = [job EXCEPT ![m] = [s \in Stages |->
               IF job[m][s].status \in {"ready", "retry_wait"}
               THEN Released(job[m][s], "cancelled") ELSE job[m][s]]]
  /\ meeting' = [meeting EXCEPT ![m] = Transitioned(@, "cancelled", "none")]
  /\ Bind(k, "cancel", m)
  /\ UNCHANGED <<artifact, tokens, audit, worker>>

-----------------------------------------------------------------------------
Step(w) ==
  \/ Validate(w) \/ Load(w) \/ StartStage(w) \/ ProviderCall(w)
  \/ CompleteStage(w) \/ FailStageInner(w) \/ FailStageOuter(w)
  \/ FinishSuccess(w) \/ FinishFailure(w)

Next ==
  \/ \E w \in Workers : Step(w) \/ Crash(w)
  \/ \E w \in Workers, s \in Stages : Claim(w, s)
  \/ \E m \in Meetings, s \in Stages : LeaseExpires(m, s) \/ RetryDue(m, s)
  \/ \E m \in Meetings, k \in Keys : Retry(m, k) \/ Cancel(m, k)

Spec == Init /\ [][Next]_vars

\* The supervisor's loop keeps polling both stages and keeps stepping a handler
\* it awaits; leases and retry delays run out.  Crashes and commands are free.
Fairness ==
  /\ \A w \in Workers : WF_vars(Step(w))
  /\ \A w \in Workers, s \in Stages : WF_vars(Claim(w, s))
  /\ \A m \in Meetings, s \in Stages :
       WF_vars(LeaseExpires(m, s)) /\ WF_vars(RetryDue(m, s))

FairSpec == Spec /\ Fairness

-----------------------------------------------------------------------------
\* Correctness.

MeetingRow == [status : MeetingStatuses, failure : Failures, version : Nat]
JobRow == [status : JobStatuses, attempts : Nat, owner : WorkerIds \cup {NoOwner},
           token : Nat, live : BOOLEAN, due : BOOLEAN]
EventRow == [outcome : Outcomes, attempt : Nat]
WorkerRow == [step : Steps, meeting : Meetings \cup {NoMeeting}, stage : Stages,
              token : Nat, attempt : Nat, failure : Failures]
OperationRow == [operation : {"none", "retry", "cancel"},
                 meeting : Meetings \cup {NoMeeting}, version : Nat]

\* The validators of ProcessingJob: an attempt count within its limit, lease
\* fields exactly on a running job, a retry time only on a waiting one.
JobsWellFormed ==
  \A m \in Meetings, s \in Stages :
    LET j == job[m][s] IN
      /\ j.attempts <= MaxAttempts[s]
      /\ j.status = "running" <=> j.owner # NoOwner
      /\ j.status = "running" <=> j.token # 0
      /\ j.live => j.status = "running"
      /\ j.due => j.status = "retry_wait"

\* Every variable keeps its type: a row of the schema, with the constraints the
\* ProcessingJob validators put on attempts and leases.
TypeOK ==
  /\ meeting \in [Meetings -> MeetingRow]
  /\ artifact \in [Meetings -> [Stages -> Nat]]
  /\ job \in [Meetings -> [Stages -> JobRow]]
  /\ JobsWellFormed
  /\ tokens \in [Meetings -> [Stages -> Nat]]
  /\ audit \in [Meetings -> [Stages -> EventRow]]
  /\ worker \in [Workers -> WorkerRow]
  /\ \A w \in Workers : worker[w].step # "idle" => worker[w].meeting \in Meetings
  /\ ops \in [Keys -> OperationRow]

\* No two workers can both pass the lease test for one job, although they claim
\* under the same owner name and although attempt numbers come back after an
\* operator's retry: only the claim token tells a stale worker from the current
\* one (processing.py _owns_live_lease, workflow.py _require_active_job).
ClaimExclusive ==
  \A v, w \in Workers :
    /\ worker[v].step # "idle" /\ worker[w].step # "idle"
    /\ worker[v].meeting = worker[w].meeting /\ worker[v].stage = worker[w].stage
    /\ OwnsLiveLease(v) /\ OwnsLiveLease(w)
    => v = w

\* A job reports success exactly with the attempt that stored the artifact, also
\* when that attempt lost its lease after committing and was found out by a later
\* claim, which first counted itself (processing.py _prepare_claimed_attempt,
\* _repair_expired_exhausted).
SuccessIsTheAttemptThatStored ==
  \A m \in Meetings, s \in Stages :
    job[m][s].status = "succeeded" =>
      HasArtifact(m, s) /\ job[m][s].attempts = artifact[m][s]

\* The meeting row, its artifacts and its jobs tell one story: a transcript and
\* the extraction job appear together, a review only after a transcript, and the
\* status says which of them exist (workflow.py _complete_transcription,
\* _complete_extraction, _fail_stage).
ArtifactsMatchStatus ==
  \A m \in Meetings :
    LET st == meeting[m].status IN
    /\ HasArtifact(m, "transcription") <=> job[m]["extraction"].status # "absent"
    /\ HasArtifact(m, "extraction") => HasArtifact(m, "transcription")
    /\ st \in {"ingested", "transcribing", "transcription_failed"} =>
         ~HasArtifact(m, "transcription")
    /\ st \in {"transcribed", "extracting", "extraction_failed"} =>
         HasArtifact(m, "transcription") /\ ~HasArtifact(m, "extraction")
    /\ st = "awaiting_approval" => HasArtifact(m, "extraction")

\* The ledger closes every attempt it opened, once, with the attempt's own
\* number: a stage's last event is an open attempt exactly while its job runs
\* that attempt, whichever of finish, reclaim or repair ends it (processing.py,
\* the has_open_attempt cases).
LedgerFollowsJob ==
  \A m \in Meetings, s \in Stages :
    IF job[m][s].status = "running"
    THEN audit[m][s] = Event("started", job[m][s].attempts)
    ELSE audit[m][s].outcome # "started"

\* No version admits two commands: of two requests prepared against the same
\* meeting ETag under different keys at most one is ever accepted
\* (processing_control.py _validate_version and the version bump of each command).
OneCommandPerVersion ==
  \A j, k \in Keys :
    /\ ops[j] # NoBinding /\ ops[k] # NoBinding
    /\ ops[j].meeting = ops[k].meeting /\ ops[j].version = ops[k].version
    => j = k

\* A cancelled meeting is quiet: whatever workers still hold from before, nothing
\* of it changes again (processing_control.py _cancel refuses a running job and
\* cancels every queued one).
CancelledIsFinal ==
  [][\A m \in Meetings : meeting[m].status = "cancelled" =>
       meeting'[m] = meeting[m] /\ artifact'[m] = artifact[m] /\ job'[m] = job[m]]_vars

\* A stage that failed for good starts again only on the first attempt after an
\* operator's retry; no expired lease and no reclaim re-runs a permanent failure
\* (processing.py _reclaimed_attempt_failure, EffectiveFailure in _finish_failure).
PermanentNeedsOperator ==
  [][\A m \in Meetings, s \in Stages :
       /\ meeting[m].status = Failed(s) /\ meeting[m].failure = "permanent"
       /\ meeting'[m].status = Active(s)
       => job[m][s].attempts = 1]_vars

\* A job that has failed terminally is a meeting that says so (README.md:286,
\* "retryable and terminal failure states are returned in the same meeting
\* resource"): its status is the stage's failed status, or cancelled afterwards.
FailureIsVisible ==
  \A m \in Meetings, s \in Stages :
    job[m][s].status = "failed" => meeting[m].status \in {Failed(s), "cancelled"}

\* Every queued, waiting or running job is settled: no crash, lost lease or
\* exhausted attempt leaves a job behind (processing.py _claim).
JobsSettle ==
  \A m \in Meetings, s \in Stages :
    job[m][s].status \in {"ready", "running", "retry_wait"}
      ~> job[m][s].status \in {"succeeded", "failed", "cancelled"}

\* A meeting never stays in transcribing or extracting: a stage that started is
\* completed or failed, also when its worker disappeared
\* (processing.py _fail_meeting_for_expired_job).
StagesEnd ==
  \A m \in Meetings, s \in Stages :
    meeting[m].status = Active(s) ~> meeting[m].status # Active(s)
=============================================================================
