-------------------------- MODULE ProcessingProofs --------------------------
(***************************************************************************)
(* What holds of Processing for every set of meetings, workers, keys and   *)
(* attempt limits.                                                         *)
(***************************************************************************)
EXTENDS Processing, TLAPS

-----------------------------------------------------------------------------
(* Type correctness.                                                       *)

(* A transition keeps a meeting row a meeting row. *)
LEMMA TransitionedType ==
  ASSUME NEW mt \in MeetingRow, NEW t \in MeetingStatuses, NEW f \in Failures
  PROVE  Transitioned(mt, t, f) \in MeetingRow
BY DEF Transitioned, MeetingRow

(* The statuses a stage moves through are meeting statuses. *)
LEMMA StageStatuses ==
  ASSUME NEW s \in Stages
  PROVE  /\ Pending(s) \in MeetingStatuses
         /\ Active(s) \in MeetingStatuses
         /\ Failed(s) \in MeetingStatuses
         /\ Completed(s) \in MeetingStatuses
         /\ "cancelled" \in MeetingStatuses
BY DEF Stages, Pending, Active, Failed, Completed, MeetingStatuses

(* What the validators ask of one job row. *)
JobFits(j, s) ==
  /\ j \in JobRow
  /\ j.attempts <= MaxAttempts[s]
  /\ j.status = "running" <=> j.owner # NoOwner
  /\ j.status = "running" <=> j.token # 0
  /\ j.live => j.status = "running"
  /\ j.due => j.status = "retry_wait"

(* A released job row keeps only its attempts. *)
LEMMA ReleasedFits ==
  ASSUME NEW s \in Stages, NEW j, JobFits(j, s), NEW st \in JobStatuses \ {"running"}
  PROVE  JobFits(Released(j, st), s)
BY DEF Released, JobFits, JobRow

(* A job row as ingest or an operator's retry queues it. *)
LEMMA NewJobFits ==
  ASSUME NEW s \in Stages
  PROVE  JobFits(NewJob, s) /\ JobFits(NoJob, s)
BY MaxAttemptsAssumption DEF Released, JobFits, JobRow, NewJob, NoJob, JobStatuses

(* The rows of a typed queue satisfy their validators. *)
LEMMA JobsFit ==
  ASSUME TypeOK, NEW m \in Meetings, NEW s \in Stages
  PROVE  JobFits(job[m][s], s)
BY DEF TypeOK, JobsWellFormed, JobFits

(* The rows make a well-formed queue. *)
LEMMA FitJobs ==
  ASSUME job' \in [Meetings -> [Stages -> JobRow]],
         \A m \in Meetings, s \in Stages : JobFits(job'[m][s], s)
  PROVE  JobsWellFormed'
BY DEF JobsWellFormed, JobFits

(* Initially every variable has its type. *)
LEMMA InitType == Init => TypeOK
<1> SUFFICES ASSUME Init PROVE TypeOK
  OBVIOUS
<1> USE DEF Init
<1>1. meeting \in [Meetings -> MeetingRow]
  BY DEF MeetingRow, MeetingStatuses, Failures
<1>2. /\ artifact \in [Meetings -> [Stages -> Nat]]
      /\ tokens \in [Meetings -> [Stages -> Nat]]
  OBVIOUS
<1>3. job \in [Meetings -> [Stages -> JobRow]] /\ JobsWellFormed
  BY NewJobFits DEF JobFits, JobsWellFormed
<1>4. audit \in [Meetings -> [Stages -> EventRow]]
  BY DEF EventRow, Event, NoEvent, Outcomes
<1>5. /\ worker \in [Workers -> WorkerRow]
      /\ \A w \in Workers : worker[w].step = "idle"
  BY DEF WorkerRow, IdleWorker, Steps, Stages, Failures
<1>6. ops \in [Keys -> OperationRow]
  BY DEF NoBinding, OperationRow
<1> QED
  BY <1>1, <1>2, <1>3, <1>4, <1>5, <1>6 DEF TypeOK

(* What is asked of the workers alone. *)
WorkersTyped ==
  /\ worker \in [Workers -> WorkerRow]
  /\ \A w \in Workers : worker[w].step # "idle" => worker[w].meeting \in Meetings

(* A worker that moves on within its handler keeps its claim. *)
LEMMA GotoType ==
  ASSUME WorkersTyped, NEW w \in Workers, worker[w].step # "idle",
         NEW st \in Steps, NEW f \in Failures, Goto(w, st, f)
  PROVE  WorkersTyped'
BY DEF Goto, WorkerRow, WorkersTyped

(* A worker that is released holds nothing. *)
LEMMA ReleaseType ==
  ASSUME WorkersTyped, NEW w \in Workers, Release(w)
  PROVE  WorkersTyped'
BY DEF Release, IdleWorker, WorkerRow, Steps, Stages, Failures, WorkersTyped

(* Steps that only read the database: Validate, Load, ProviderCall, Crash. *)
LEMMA ReadOnlyType ==
  ASSUME TypeOK, WorkersTyped', UNCHANGED <<meeting, artifact, queue, ops>>
  PROVE  TypeOK'
BY DEF TypeOK, WorkersTyped, queue, JobsWellFormed

(* Those four steps keep every type. *)
LEMMA ValidateType ==
  ASSUME TypeOK, NEW w \in Workers, Validate(w) \/ Load(w) \/ ProviderCall(w) \/ Crash(w)
  PROVE  TypeOK'
<1> WorkersTyped
  BY DEF TypeOK, WorkersTyped
<1>1. WorkersTyped'
  BY GotoType, ReleaseType
  DEF Validate, Load, ProviderCall, Crash, Steps, Failures
<1> QED
  BY <1>1, ReadOnlyType DEF Validate, Load, ProviderCall, Crash

(* Steps that write only the meeting: StartStage and the two FailStage. *)
LEMMA MeetingWriteType ==
  ASSUME TypeOK, WorkersTyped', meeting' \in [Meetings -> MeetingRow],
         UNCHANGED <<artifact, queue, ops>>
  PROVE  TypeOK'
BY DEF TypeOK, WorkersTyped, queue, JobsWellFormed

(* The meeting rows that starting or failing a stage writes. *)
LEMMA StartedType ==
  ASSUME TypeOK, NEW w \in Workers, worker[w].step # "idle"
  PROVE  /\ Started(w) \in [Meetings -> MeetingRow]
         /\ StageFailed(w) \in [Meetings -> MeetingRow]
<1> DEFINE m == worker[w].meeting
           s == worker[w].stage
<1>1. m \in Meetings /\ s \in Stages /\ worker[w].failure \in Failures
      /\ meeting[m] \in MeetingRow
  BY DEF TypeOK, WorkerRow
<1>2. /\ Transitioned(meeting[m], Active(s), "none") \in MeetingRow
      /\ Transitioned(meeting[m], Failed(s), worker[w].failure) \in MeetingRow
  BY <1>1, TransitionedType, StageStatuses DEF Failures
<1> QED
  BY <1>1, <1>2 DEF Started, StageFailed, TypeOK

(* _start_stage. *)
LEMMA StartStageType ==
  ASSUME TypeOK, NEW w \in Workers, StartStage(w)
  PROVE  TypeOK'
<1> WorkersTyped
  BY DEF TypeOK, WorkersTyped
<1>1. WorkersTyped'
  BY GotoType DEF StartStage, Steps, Failures
<1>2. meeting' \in [Meetings -> MeetingRow]
  BY StartedType DEF StartStage, TypeOK
<1> QED
  BY <1>1, <1>2, MeetingWriteType DEF StartStage

(* _fail_stage, in either handler. *)
LEMMA FailStageType ==
  ASSUME TypeOK, NEW w \in Workers, FailStageInner(w) \/ FailStageOuter(w)
  PROVE  TypeOK'
<1> WorkersTyped
  BY DEF TypeOK, WorkersTyped
<1>1. worker[w].failure \in Failures /\ worker[w].step # "idle"
  BY DEF TypeOK, WorkerRow, FailStageInner, FailStageOuter
<1>2. WorkersTyped'
  BY <1>1, GotoType DEF FailStageInner, FailStageOuter, FailStage, Steps, Failures
<1>3. meeting' \in [Meetings -> MeetingRow]
  BY <1>1, StartedType DEF FailStageInner, FailStageOuter, FailStage, TypeOK
<1> QED
  BY <1>2, <1>3, MeetingWriteType DEF FailStageInner, FailStageOuter, FailStage

(* _complete_transcription and _complete_extraction. *)
LEMMA CompleteStageType ==
  ASSUME TypeOK, NEW w \in Workers, CompleteStage(w)
  PROVE  TypeOK'
<1> DEFINE m == worker[w].meeting
           s == worker[w].stage
<1> WorkersTyped
  BY DEF TypeOK, WorkersTyped
<1>1. m \in Meetings /\ s \in Stages /\ worker[w].attempt \in Nat
      /\ meeting[m] \in MeetingRow
  BY DEF TypeOK, WorkerRow, CompleteStage
<1>2. WorkersTyped'
  BY GotoType DEF CompleteStage, Steps, Failures
<1>3. CASE StoreArtifact(w)
  <2>1. Transitioned(meeting[m], Completed(s), "none") \in MeetingRow
    BY <1>1, TransitionedType, StageStatuses DEF Failures
  <2>2. meeting' \in [Meetings -> MeetingRow] /\ artifact' \in [Meetings -> [Stages -> Nat]]
    BY <1>1, <1>3, <2>1 DEF StoreArtifact, TypeOK
  <2>3. /\ job' \in [Meetings -> [Stages -> JobRow]]
        /\ \A n \in Meetings, t \in Stages : job'[n][t] \in {job[n][t], NewJob}
    BY <1>1, <1>3, NewJobFits DEF StoreArtifact, TypeOK, JobFits, Stages
  <2>4. JobsWellFormed'
    BY <2>3, FitJobs, JobsFit, NewJobFits
  <2> QED
    BY <1>2, <2>2, <2>3, <2>4 DEF CompleteStage, TypeOK, WorkersTyped
<1>4. CASE UNCHANGED <<meeting, artifact, job>>
  BY <1>2, <1>4 DEF CompleteStage, TypeOK, WorkersTyped, JobsWellFormed
<1> QED
  BY <1>3, <1>4 DEF CompleteStage

(* A result that is persisted, or dropped for a lost lease. *)
LEMMA FinishType ==
  ASSUME TypeOK, NEW w \in Workers, FinishSuccess(w) \/ FinishFailure(w)
  PROVE  TypeOK'
<1> DEFINE m == worker[w].meeting
           s == worker[w].stage
<1> WorkersTyped
  BY DEF TypeOK, WorkersTyped
<1>1. m \in Meetings /\ s \in Stages /\ job[m][s].attempts \in Nat
  BY DEF TypeOK, WorkerRow, JobRow, FinishSuccess, FinishFailure
<1>2. WorkersTyped' /\ UNCHANGED <<meeting, artifact, tokens, ops>>
  BY ReleaseType DEF FinishSuccess, FinishFailure
<1>3. CASE UNCHANGED <<job, audit>>
  BY <1>2, <1>3 DEF TypeOK, WorkersTyped, JobsWellFormed
<1>4. ASSUME NEW st \in {"succeeded", "retry_wait", "failed"},
             NEW o \in {"succeeded", "retry_scheduled", "failed"},
             Finish(w, st, o)
      PROVE  TypeOK'
  <2>1. JobFits(Released(job[m][s], st), s)
    BY <1>1, JobsFit, ReleasedFits DEF JobStatuses
  <2>2. /\ job' \in [Meetings -> [Stages -> JobRow]]
        /\ \A n \in Meetings, t \in Stages : JobFits(job'[n][t], t)
    BY <1>1, <1>4, <2>1, JobsFit DEF Finish, JobFits, TypeOK
  <2>3. Event(o, job[m][s].attempts) \in EventRow
    BY <1>1 DEF Event, EventRow, Outcomes
  <2>4. audit' \in [Meetings -> [Stages -> EventRow]]
    BY <1>1, <1>4, <2>3 DEF Finish, TypeOK
  <2> QED
    BY <1>2, <2>2, <2>4, FitJobs DEF TypeOK, WorkersTyped
<1> QED
  BY <1>3, <1>4 DEF FinishSuccess, FinishFailure

(* An exhausted lease is repaired into typed rows. *)
LEMMA RepairType ==
  ASSUME TypeOK, NEW m \in Meetings, NEW s \in Stages
  PROVE  /\ RepairedMeeting(m, s) \in MeetingRow
         /\ JobFits(Released(job[m][s], Verdict(m, s)), s)
         /\ ClosedAudit(m, s) \in EventRow
<1>1. /\ meeting[m] \in MeetingRow /\ audit[m][s] \in EventRow
      /\ job[m][s].attempts \in Nat
  BY DEF TypeOK, JobRow
<1>2. /\ "none" \in Failures /\ "retryable" \in Failures
      /\ Verdict(m, s) \in {"succeeded", "cancelled", "failed"}
  BY DEF Failures, Verdict
<1>3. Transitioned(meeting[m], Active(s), "none") \in MeetingRow
  BY <1>1, <1>2, StageStatuses, TransitionedType
<1>4. /\ Transitioned(Transitioned(meeting[m], Active(s), "none"), Failed(s), "retryable")
           \in MeetingRow
      /\ Transitioned(meeting[m], Failed(s), "retryable") \in MeetingRow
  BY <1>1, <1>2, <1>3, StageStatuses, TransitionedType
<1>5. RepairedMeeting(m, s) \in MeetingRow
  BY <1>1, <1>4 DEF RepairedMeeting
<1>6. JobFits(Released(job[m][s], Verdict(m, s)), s)
  BY <1>2, JobsFit, ReleasedFits DEF JobStatuses
<1>7. ClosedAudit(m, s) \in EventRow
  BY <1>1, <1>2 DEF ClosedAudit, Event, EventRow, Outcomes
<1> QED
  BY <1>5, <1>6, <1>7

(* A claimed row counts the attempt, or is decided by the previous one. *)
LEMMA ClaimedType ==
  ASSUME TypeOK, NEW w \in Workers, NEW s \in Stages, NEW m \in Due(s)
  PROVE  /\ JobFits(ClaimedJob(w, m, s), s)
         /\ ClaimedAudit(m, s) \in EventRow
<1>1. m \in Meetings /\ job[m][s].attempts < MaxAttempts[s]
  BY DEF Due
<1>2. /\ job[m][s].attempts \in Nat /\ tokens[m][s] \in Nat
      /\ MaxAttempts[s] \in Nat /\ WorkerId[w] \in WorkerIds
      /\ WorkerId[w] # NoOwner
  BY <1>1, MaxAttemptsAssumption, WorkerIdAssumption, SentinelAssumption DEF TypeOK, JobRow
<1>3. CASE AttemptRuns(m, s)
  BY <1>1, <1>2, <1>3
  DEF ClaimedJob, ClaimedAudit, JobFits, JobRow, JobStatuses, Event, EventRow, Outcomes
<1>4. CASE ~AttemptRuns(m, s)
  BY <1>1, <1>4, RepairType DEF ClaimedJob, ClaimedAudit
<1> QED
  BY <1>3, <1>4

(* A claim: any number of repairs, and at most one claimed job. *)
LEMMA ClaimType ==
  ASSUME TypeOK, NEW w \in Workers, NEW s \in Stages, Claim(w, s)
  PROVE  TypeOK'
<1>1. PICK limit \in {0, RepairLimit} : \E R \in Repairable(s, limit) :
        \E c \in Due(s) \cup {NoMeeting} : Claim(w, s)!2!(limit)!(R)!(c)
  BY DEF Claim
<1>2. PICK R \in Repairable(s, limit), c \in Due(s) \cup {NoMeeting} :
        Claim(w, s)!2!(limit)!(R)!(c)
  BY <1>1
<1>3. Claim(w, s)!2!(limit)!(R)!(c)
  BY <1>2
<1>4. R \subseteq Meetings /\ (c \in Meetings => c \in Due(s))
  BY SentinelAssumption DEF Repairable, Exhausted, Due
<1>5. meeting' \in [Meetings -> MeetingRow]
  BY <1>3, <1>4, RepairType DEF TypeOK
<1>6. \A m \in Meetings, t \in Stages :
        job'[m][t] = IF t = s /\ m \in R THEN Released(job[m][s], Verdict(m, s))
                     ELSE IF t = s /\ m = c THEN ClaimedJob(w, m, s)
                     ELSE job[m][t]
  BY <1>3
<1>7. \A m \in Meetings, t \in Stages : JobFits(job'[m][t], t)
  BY <1>4, <1>6, RepairType, ClaimedType, JobsFit
<1>8. job' \in [Meetings -> [Stages -> JobRow]]
  <2>1. \A m \in Meetings, t \in Stages : job'[m][t] \in JobRow
    BY <1>7 DEF JobFits
  <2> QED
    BY <1>3, <2>1
<1>9. tokens' \in [Meetings -> [Stages -> Nat]]
  BY <1>3 DEF TypeOK
<1>10. audit' \in [Meetings -> [Stages -> EventRow]]
  <2>1. \A m \in Meetings, t \in Stages :
          /\ ClosedAudit(m, t) \in EventRow /\ audit[m][t] \in EventRow
          /\ m = c /\ t = s => ClaimedAudit(m, t) \in EventRow
    BY <1>4, RepairType, ClaimedType DEF TypeOK
  <2>2. \A m \in Meetings, t \in Stages : audit'[m][t] \in EventRow
    BY <1>3, <2>1
  <2> QED
    BY <1>3, <2>2
<1>11. WorkersTyped'
  <2>1. WorkersTyped
    BY DEF TypeOK, WorkersTyped
  <2>2. CASE c # NoMeeting /\ AttemptRuns(c, s)
    <3>1. c \in Meetings /\ tokens[c][s] + 1 \in Nat /\ job[c][s].attempts + 1 \in Nat
      BY <1>4, <2>2 DEF TypeOK, JobRow, Due
    <3> DEFINE row == [step |-> "validate", meeting |-> c, stage |-> s,
                       token |-> tokens[c][s] + 1,
                       attempt |-> job[c][s].attempts + 1, failure |-> "none"]
    <3>2. row \in WorkerRow /\ row.meeting \in Meetings
      BY <3>1 DEF WorkerRow, Steps, Failures
    <3>3. worker' = [worker EXCEPT ![w] = row]
      BY <1>3, <2>2
    <3> QED
      BY <2>1, <3>2, <3>3 DEF WorkersTyped
  <2>3. CASE ~(c # NoMeeting /\ AttemptRuns(c, s))
    BY <1>3, <2>1, <2>3 DEF WorkersTyped
  <2> QED
    BY <2>2, <2>3
<1>12. UNCHANGED <<artifact, ops>>
  BY DEF Claim
<1> QED
  BY <1>5, <1>7, <1>8, <1>9, <1>10, <1>11, <1>12, FitJobs DEF TypeOK, WorkersTyped

(* A lease that expires and a retry that comes due. *)
LEMMA TimeType ==
  ASSUME TypeOK, NEW m \in Meetings, NEW s \in Stages,
         LeaseExpires(m, s) \/ RetryDue(m, s)
  PROVE  TypeOK'
<1>1. PICK j \in {[job[m][s] EXCEPT !.live = FALSE], [job[m][s] EXCEPT !.due = TRUE]} :
        /\ job' = [job EXCEPT ![m][s] = j]
        /\ j.due => job[m][s].due \/ job[m][s].status = "retry_wait"
  BY DEF LeaseExpires, RetryDue, TypeOK, JobRow
<1>2. JobFits(j, s)
  <2>1. job[m][s] \in JobRow /\ JobFits(job[m][s], s)
    BY JobsFit DEF TypeOK
  <2>2. CASE j = [job[m][s] EXCEPT !.live = FALSE]
    BY <2>1, <2>2 DEF JobFits, JobRow
  <2>3. CASE j = [job[m][s] EXCEPT !.due = TRUE]
    BY <1>1, <2>1, <2>3 DEF JobFits, JobRow
  <2> QED
    BY <1>1, <2>2, <2>3
<1>3. \A n \in Meetings, t \in Stages :
        job'[n][t] = IF n = m /\ t = s THEN j ELSE job[n][t]
  BY <1>1 DEF TypeOK
<1>4. job' \in [Meetings -> [Stages -> JobRow]]
  BY <1>1, <1>2 DEF TypeOK, JobFits
<1>5. \A n \in Meetings, t \in Stages : JobFits(job'[n][t], t)
  BY <1>2, <1>3, JobsFit
<1>6. UNCHANGED <<meeting, artifact, tokens, audit, worker, ops>>
  BY DEF LeaseExpires, RetryDue
<1> QED
  BY <1>4, <1>5, <1>6, FitJobs DEF TypeOK

(* The operator's commands. *)
LEMMA CommandType ==
  ASSUME TypeOK, NEW m \in Meetings, NEW k \in Keys, Retry(m, k) \/ Cancel(m, k)
  PROVE  TypeOK'
<1>1. meeting[m] \in MeetingRow /\ meeting[m].version \in Nat
  BY DEF TypeOK, MeetingRow
<1>2. ops' \in [Keys -> OperationRow]
  <2>1. \A o \in {"retry", "cancel"} :
          [operation |-> o, meeting |-> m, version |-> meeting[m].version] \in OperationRow
    BY <1>1 DEF OperationRow
  <2>2. \E o \in {"retry", "cancel"} : Bind(k, o, m)
    BY DEF Retry, Cancel
  <2> QED
    BY <2>1, <2>2 DEF Bind, TypeOK
<1>3. meeting' \in [Meetings -> MeetingRow]
  <2>1. CASE Retry(m, k)
    <3>1. [meeting[m] EXCEPT !.version = @ + 1] \in MeetingRow
      BY <1>1 DEF MeetingRow
    <3>2. meeting' = [meeting EXCEPT ![m] = [meeting[m] EXCEPT !.version = @ + 1]]
      BY <2>1 DEF Retry
    <3> QED
      BY <3>1, <3>2 DEF TypeOK
  <2>2. CASE Cancel(m, k)
    <3>1. Transitioned(meeting[m], "cancelled", "none") \in MeetingRow
      BY <1>1, TransitionedType DEF MeetingStatuses, Failures
    <3> QED
      BY <2>2, <3>1 DEF Cancel, TypeOK
  <2> QED
    BY <2>1, <2>2
<1>4. audit' \in [Meetings -> [Stages -> EventRow]]
  <2>1. Event("retry_requested", 0) \in EventRow
    BY DEF Event, EventRow, Outcomes
  <2>2. CASE Retry(m, k)
    <3>1. PICK s \in Stages :
            audit' = [audit EXCEPT ![m][s] = Event("retry_requested", 0)]
      BY <2>2 DEF Retry
    <3> QED
      BY <2>1, <3>1 DEF TypeOK
  <2>3. CASE Cancel(m, k)
    BY <2>3 DEF Cancel, TypeOK
  <2> QED
    BY <2>2, <2>3
<1>5. /\ job' = [n \in Meetings |-> [t \in Stages |-> job'[n][t]]]
      /\ \A n \in Meetings, t \in Stages :
           job'[n][t] \in {job[n][t], NewJob, Released(job[n][t], "cancelled")}
  <2>1. ASSUME NEW s \in Stages, job' = [job EXCEPT ![m][s] = NewJob]
        PROVE  <1>5
    BY <2>1 DEF TypeOK
  <2>2. CASE Cancel(m, k)
    <3> DEFINE row == [s \in Stages |->
                         IF job[m][s].status \in {"ready", "retry_wait"}
                         THEN Released(job[m][s], "cancelled") ELSE job[m][s]]
    <3>1. job' = [job EXCEPT ![m] = row]
      BY <2>2 DEF Cancel
    <3>2. row = [s \in Stages |-> row[s]]
          /\ \A s \in Stages : row[s] \in {job[m][s], Released(job[m][s], "cancelled")}
      OBVIOUS
    <3> HIDE DEF row
    <3> QED
      BY <3>1, <3>2 DEF TypeOK
  <2> QED
    BY <2>1, <2>2 DEF Retry
<1>6. \A n \in Meetings, t \in Stages : JobFits(job'[n][t], t)
  BY <1>5, NewJobFits, ReleasedFits, JobsFit DEF JobStatuses
<1>7. job' \in [Meetings -> [Stages -> JobRow]]
  <2>1. \A n \in Meetings, t \in Stages : job'[n][t] \in JobRow
    BY <1>6 DEF JobFits
  <2> QED
    BY <1>5, <2>1
<1>8. UNCHANGED <<artifact, tokens, worker>>
  BY DEF Retry, Cancel
<1> QED
  BY <1>2, <1>3, <1>4, <1>6, <1>7, <1>8, FitJobs DEF TypeOK

(* Every step of the system keeps the types. *)
LEMMA StepType == TypeOK /\ [Next]_vars => TypeOK'
<1> SUFFICES ASSUME TypeOK, [Next]_vars PROVE TypeOK'
  OBVIOUS
<1>1. ASSUME NEW w \in Workers, Step(w) \/ Crash(w) PROVE TypeOK'
  BY <1>1, ValidateType, StartStageType, CompleteStageType, FailStageType, FinishType
  DEF Step
<1>2. CASE UNCHANGED vars
  BY <1>2 DEF vars, TypeOK, JobsWellFormed
<1> QED
  BY <1>1, <1>2, ClaimType, TimeType, CommandType DEF Next

(* Every row of the processing tables keeps the constraints of its model: the *)
(* types, attempt limits and lease fields of TypeOK.                          *)
THEOREM TypeCorrect == Spec => []TypeOK
BY InitType, StepType, PTL DEF Spec

-----------------------------------------------------------------------------
(* Claim tokens: what makes the lease test exclusive.                      *)

(* The strengthening of ClaimExclusive: a running job carries the last token *)
(* drawn for it, and no two workers hold the same token of the same job.     *)
ClaimsDistinct ==
  /\ \A m \in Meetings, s \in Stages :
       job[m][s].status = "running" => job[m][s].token = tokens[m][s]
  /\ \A w \in Workers : worker[w].step # "idle" =>
       worker[w].token <= tokens[worker[w].meeting][worker[w].stage]
  /\ \A v, w \in Workers :
       /\ worker[v].step # "idle" /\ worker[w].step # "idle"
       /\ worker[v].meeting = worker[w].meeting
       /\ worker[v].stage = worker[w].stage
       /\ worker[v].token = worker[w].token
       => v = w

(* A step in which nobody claims: a worker keeps its claim or drops it, and so *)
(* does a running job.                                                         *)
ClaimsKept ==
  /\ tokens' = tokens
  /\ \A w \in Workers : worker'[w].step # "idle" =>
       /\ worker[w].step # "idle"
       /\ worker'[w].meeting = worker[w].meeting
       /\ worker'[w].stage = worker[w].stage
       /\ worker'[w].token = worker[w].token
       /\ worker'[w].attempt = worker[w].attempt
  /\ \A m \in Meetings, s \in Stages : job'[m][s].status = "running" =>
       /\ job[m][s].status = "running"
       /\ job'[m][s].token = job[m][s].token
       /\ job'[m][s].attempts = job[m][s].attempts

(* Claims stay distinct while nobody claims. *)
LEMMA KeptDistinct ==
  ASSUME ClaimsDistinct, ClaimsKept
  PROVE  ClaimsDistinct'
BY DEF ClaimsDistinct, ClaimsKept

(* A worker keeps or drops its claim within a handler. *)
LEMMA HandlerKeeps ==
  ASSUME TypeOK, NEW w \in Workers, Step(w) \/ Crash(w)
  PROVE  ClaimsKept
<1>1. /\ worker[w].step # "idle" /\ tokens' = tokens
      /\ (\E st \in Steps, f \in Failures : Goto(w, st, f)) \/ Release(w)
  <2>1. worker[w].failure \in Failures
    BY DEF TypeOK, WorkerRow
  <2> QED
    BY <2>1 DEF Step, Crash, Validate, Load, StartStage, ProviderCall, CompleteStage,
           FailStageInner, FailStageOuter, FailStage, FinishSuccess, FinishFailure,
           queue, Steps, Failures
<1>2. \A v \in Workers : worker'[v].step # "idle" =>
        /\ worker[v].step # "idle"
        /\ worker'[v].meeting = worker[v].meeting
        /\ worker'[v].stage = worker[v].stage
        /\ worker'[v].token = worker[v].token
        /\ worker'[v].attempt = worker[v].attempt
  <2>1. ASSUME NEW st, NEW f, Goto(w, st, f) PROVE <1>2
    <3>1. worker' = [worker EXCEPT ![w] = [worker[w] EXCEPT !.step = st, !.failure = f]]
      BY <2>1 DEF Goto, TypeOK, WorkerRow
    <3>2. LET r == [worker[w] EXCEPT !.step = st, !.failure = f] IN
            /\ r.meeting = worker[w].meeting /\ r.stage = worker[w].stage
            /\ r.token = worker[w].token /\ r.attempt = worker[w].attempt
      BY DEF TypeOK, WorkerRow
    <3> QED
      BY <1>1, <3>1, <3>2 DEF TypeOK
  <2>2. CASE Release(w)
    BY <2>2 DEF Release, TypeOK, IdleWorker
  <2> QED
    BY <1>1, <2>1, <2>2
<1>3. \A m \in Meetings, s \in Stages :
        job'[m][s] = job[m][s] \/ job'[m][s].status # "running"
  <2>1. CASE job' = job
    BY <2>1
  <2>2. CASE StoreArtifact(w)
    BY <2>2 DEF StoreArtifact, NewJob, TypeOK, Stages
  <2>3. ASSUME NEW st \in {"succeeded", "retry_wait", "failed"}, NEW o, Finish(w, st, o)
        PROVE  <1>3
    BY <2>3 DEF Finish, Released, TypeOK
  <2> QED
    BY <2>1, <2>2, <2>3
    DEF Step, Crash, Validate, Load, StartStage, ProviderCall, CompleteStage,
        FailStageInner, FailStageOuter, FailStage, FinishSuccess, FinishFailure, queue
<1> QED
  BY <1>1, <1>2, <1>3 DEF ClaimsKept

(* Time and commands leave every claim where it is. *)
LEMMA OthersKeep ==
  ASSUME TypeOK, NEW m \in Meetings,
         \/ \E s \in Stages : LeaseExpires(m, s) \/ RetryDue(m, s)
         \/ \E k \in Keys : Retry(m, k) \/ Cancel(m, k)
  PROVE  ClaimsKept
<1>1. UNCHANGED <<tokens, worker>>
  BY DEF LeaseExpires, RetryDue, Retry, Cancel
<1>2. \A n \in Meetings, s \in Stages : job'[n][s].status = "running" =>
        /\ job[n][s].status = "running"
        /\ job'[n][s].token = job[n][s].token
        /\ job'[n][s].attempts = job[n][s].attempts
  <2>1. CASE \E s \in Stages : LeaseExpires(m, s) \/ RetryDue(m, s)
    <3>1. PICK s \in Stages : LeaseExpires(m, s) \/ RetryDue(m, s)
      BY <2>1
    <3>2. PICK j \in {[job[m][s] EXCEPT !.live = FALSE], [job[m][s] EXCEPT !.due = TRUE]} :
            job' = [job EXCEPT ![m][s] = j]
      BY <3>1 DEF LeaseExpires, RetryDue, TypeOK, JobRow
    <3>3. /\ j.status = job[m][s].status /\ j.token = job[m][s].token
          /\ j.attempts = job[m][s].attempts
      <4>1. job[m][s] \in JobRow
        BY DEF TypeOK
      <4>2. CASE j = [job[m][s] EXCEPT !.live = FALSE]
        BY <4>1, <4>2 DEF JobRow
      <4>3. CASE j = [job[m][s] EXCEPT !.due = TRUE]
        BY <4>1, <4>3 DEF JobRow
      <4> QED
        BY <3>2, <4>2, <4>3
    <3> QED
      BY <3>2, <3>3 DEF TypeOK
  <2>2. CASE \E k \in Keys : Retry(m, k)
    BY <2>2 DEF Retry, NewJob, TypeOK
  <2>3. CASE \E k \in Keys : Cancel(m, k)
    BY <2>3 DEF Cancel, Released, TypeOK
  <2> QED
    BY <2>1, <2>2, <2>3
<1> QED
  BY <1>1, <1>2 DEF ClaimsKept

(* A claim draws a token nobody holds. *)
LEMMA ClaimDistinct ==
  ASSUME TypeOK, ClaimsDistinct, NEW w \in Workers, NEW s \in Stages, Claim(w, s)
  PROVE  ClaimsDistinct'
<1>1. PICK R \in SUBSET Meetings, c \in Due(s) \cup {NoMeeting} :
        /\ job' = [m \in Meetings |-> [t \in Stages |->
                    IF t = s /\ m \in R THEN Released(job[m][s], Verdict(m, s))
                    ELSE IF t = s /\ m = c THEN ClaimedJob(w, m, s)
                    ELSE job[m][t]]]
        /\ tokens' = [m \in Meetings |-> [t \in Stages |->
                       IF t = s /\ m = c THEN tokens[m][s] + 1 ELSE tokens[m][t]]]
        /\ IF c # NoMeeting /\ AttemptRuns(c, s)
           THEN worker' = [worker EXCEPT ![w] =
                             [step |-> "validate", meeting |-> c, stage |-> s,
                              token |-> tokens[c][s] + 1,
                              attempt |-> job[c][s].attempts + 1,
                              failure |-> "none"]]
           ELSE UNCHANGED worker
  <2>1. PICK limit \in {0, RepairLimit} : \E R \in Repairable(s, limit) :
          \E c \in Due(s) \cup {NoMeeting} : Claim(w, s)!2!(limit)!(R)!(c)
    BY DEF Claim
  <2>2. PICK R \in Repairable(s, limit), c \in Due(s) \cup {NoMeeting} :
          Claim(w, s)!2!(limit)!(R)!(c)
    BY <2>1
  <2>3. R \in SUBSET Meetings
    BY DEF Repairable, Exhausted
  <2> QED
    BY <2>2, <2>3
<1>2. \A m \in Meetings, t \in Stages :
        tokens[m][t] \in Nat /\ tokens'[m][t] \in {tokens[m][t], tokens[m][t] + 1}
  BY <1>1 DEF TypeOK
<1>3. \A m \in Meetings, t \in Stages :
        Released(job[m][t], Verdict(m, t)).status # "running"
  BY DEF Released, Verdict
<1>4. \A m \in Meetings, t \in Stages :
        job'[m][t].status = "running" => job'[m][t].token = tokens'[m][t]
  BY <1>1, <1>3 DEF ClaimsDistinct, ClaimedJob
<1>5. CASE c # NoMeeting /\ AttemptRuns(c, s)
  <2> DEFINE row == [step |-> "validate", meeting |-> c, stage |-> s,
                     token |-> tokens[c][s] + 1,
                     attempt |-> job[c][s].attempts + 1, failure |-> "none"]
  <2>1. worker' = [worker EXCEPT ![w] = row]
    BY <1>1, <1>5
  <2>2. /\ row.meeting = c /\ row.stage = s /\ row.token = tokens[c][s] + 1
        /\ c \in Meetings /\ tokens'[c][s] = tokens[c][s] + 1
    BY <1>1, <1>5 DEF Due
  <2>3. \A v \in Workers : worker[v].step # "idle" =>
          /\ worker[v].meeting \in Meetings /\ worker[v].stage \in Stages
          /\ worker[v].token \in Nat
          /\ worker[v].token <= tokens[worker[v].meeting][worker[v].stage]
    BY DEF TypeOK, WorkerRow, ClaimsDistinct
  <2>4. \A v \in Workers : worker'[v].step # "idle" =>
          worker'[v].token <= tokens'[worker'[v].meeting][worker'[v].stage]
    <3> HIDE DEF row
    <3>1. \A v \in Workers \ {w} : worker'[v] = worker[v]
      BY <2>1 DEF TypeOK
    <3>2. worker'[w] = row
      BY <2>1 DEF TypeOK
    <3> QED
      BY <1>2, <2>2, <2>3, <3>1, <3>2
  <2>5. \A v \in Workers \ {w} :
          worker'[v] = worker[v] /\ worker'[w] = row
    BY <2>1 DEF TypeOK
  <2>6. \A v \in Workers \ {w} :
          ~ /\ worker[v].step # "idle"
            /\ worker[v].meeting = c /\ worker[v].stage = s
            /\ worker[v].token = tokens[c][s] + 1
    BY <1>2, <2>2, <2>3
  <2> QED
    <3> HIDE DEF row
    <3> QED
      BY <1>4, <2>2, <2>4, <2>5, <2>6 DEF ClaimsDistinct
<1>6. CASE UNCHANGED worker
  <2>1. \A v \in Workers : worker[v].step # "idle" =>
          /\ worker[v].meeting \in Meetings /\ worker[v].stage \in Stages
          /\ worker[v].token \in Nat
          /\ worker[v].token <= tokens[worker[v].meeting][worker[v].stage]
    BY DEF TypeOK, WorkerRow, ClaimsDistinct
  <2> QED
    BY <1>2, <1>4, <1>6, <2>1 DEF ClaimsDistinct
<1> QED
  BY <1>1, <1>5, <1>6

(* Claims stay distinct in every step. *)
LEMMA StepDistinct ==
  TypeOK /\ ClaimsDistinct /\ [Next]_vars => ClaimsDistinct'
<1> SUFFICES ASSUME TypeOK, ClaimsDistinct, [Next]_vars PROVE ClaimsDistinct'
  OBVIOUS
<1>1. CASE UNCHANGED vars
  BY <1>1 DEF vars, ClaimsDistinct
<1> QED
  BY <1>1, HandlerKeeps, OthersKeep, KeptDistinct, ClaimDistinct DEF Next

(* The lease test of _owns_live_lease and _require_active_job passes for one    *)
(* worker at most, however many run under one owner name and whatever they hold *)
(* of earlier claims: ClaimExclusive.                                           *)
THEOREM ClaimsExclude == Spec => []ClaimExclusive
<1>1. Init => ClaimsDistinct
  BY DEF Init, ClaimsDistinct, NewJob, NoJob, Released, IdleWorker
<1>2. TypeOK /\ ClaimsDistinct => ClaimExclusive
  BY DEF ClaimsDistinct, ClaimExclusive, OwnsLiveLease
<1> QED
  BY <1>1, <1>2, TypeCorrect, StepDistinct, PTL DEF Spec
=============================================================================
