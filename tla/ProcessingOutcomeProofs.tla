---------------------- MODULE ProcessingOutcomeProofs ----------------------
(***************************************************************************)
(* What the tables of Processing say of a meeting: its artifacts, its jobs *)
(* and its ledger tell one story, a cancelled meeting is quiet, no         *)
(* permanent failure runs again by itself, and, unless the store raises, a *)
(* job that failed for good shows in its meeting.                          *)
(***************************************************************************)
EXTENDS ProcessingProofs

-----------------------------------------------------------------------------
(* The rows of one meeting.                                                *)

\* One stage: the attempt n that stored its artifact, its job and its last event.
StageFits(status, n, j, e) ==
  /\ j.status = "succeeded" => n # 0
  /\ n # 0 => j.status \in {"running", "succeeded"} /\ j.attempts = n
  /\ j.status = "running" => j.attempts # 0
  /\ IF j.status = "running" THEN e = Event("started", j.attempts) ELSE e.outcome # "started"
  /\ status = "cancelled" => j.status \notin {"ready", "running", "retry_wait"}

\* Which artifacts a status tells of, and whether extraction has a job.
StoryFits(status, stored, queued) ==
  /\ stored["transcription"] # 0 <=> queued
  /\ stored["extraction"] # 0 => stored["transcription"] # 0
  /\ status \in {"ingested", "transcribing", "transcription_failed"} =>
       stored["transcription"] = 0
  /\ status \in {"transcribed", "extracting", "extraction_failed"} =>
       stored["transcription"] # 0 /\ stored["extraction"] = 0
  /\ status = "awaiting_approval" => stored["extraction"] # 0

MeetingFits(status, stored, jobs, events) ==
  /\ \A s \in Stages : StageFits(status, stored[s], jobs[s], events[s])
  /\ StoryFits(status, stored, jobs["extraction"].status # "absent")

AllFit == \A m \in Meetings : MeetingFits(meeting[m].status, artifact[m], job[m], audit[m])

\* A worker that is about to report success has seen the artifact.
SeenStored ==
  \A w \in Workers :
    worker[w].step = "finish_ok" => HasArtifact(worker[w].meeting, worker[w].stage)

(* What the checked properties ask of it. *)
LEMMA FitSays ==
  ASSUME AllFit
  PROVE  SuccessIsTheAttemptThatStored /\ ArtifactsMatchStatus /\ LedgerFollowsJob
<1>1. \A m \in Meetings, s \in Stages : StageFits(meeting[m].status, artifact[m][s], job[m][s], audit[m][s])
  BY DEF AllFit, MeetingFits
<1>2. \A m \in Meetings : StoryFits(meeting[m].status, artifact[m], job[m]["extraction"].status # "absent")
  BY DEF AllFit, MeetingFits
<1>3. SuccessIsTheAttemptThatStored
  BY <1>1 DEF StageFits, SuccessIsTheAttemptThatStored, HasArtifact
<1>4. ArtifactsMatchStatus
  BY <1>2 DEF StoryFits, ArtifactsMatchStatus, HasArtifact
<1>5. LedgerFollowsJob
  BY <1>1 DEF StageFits, LedgerFollowsJob
<1> QED
  BY <1>3, <1>4, <1>5

(* One stage's job and last event are replaced. *)
LEMMA StageReplaced ==
  ASSUME NEW m \in Meetings, NEW s \in Stages, NEW status,
         MeetingFits(status, artifact[m], job[m], audit[m]),
         \A t \in Stages : t # s => job'[m][t] = job[m][t] /\ audit'[m][t] = audit[m][t],
         StageFits(status, artifact[m][s], job'[m][s], audit'[m][s]),
         job[m][s].status # "absent", job'[m][s].status # "absent"
  PROVE  MeetingFits(status, artifact[m], job'[m], audit'[m])
<1>1. \A t \in Stages : StageFits(status, artifact[m][t], job'[m][t], audit'[m][t])
  BY DEF MeetingFits
<1>2. job'[m]["extraction"].status # "absent" <=> job[m]["extraction"].status # "absent"
  BY DEF Stages
<1> QED
  BY <1>1, <1>2 DEF MeetingFits, StoryFits

(* The meeting moves on to another status. *)
LEMMA StatusReplaced ==
  ASSUME NEW status, NEW status2, NEW stored, NEW jobs, NEW events,
         MeetingFits(status, stored, jobs, events), status2 # "cancelled",
         StoryFits(status2, stored, jobs["extraction"].status # "absent")
  PROVE  MeetingFits(status2, stored, jobs, events)
BY DEF MeetingFits, StageFits

(* A stage that starts, fails, or is failed before it started. *)
LEMMA StageMoves ==
  ASSUME NEW status, NEW stored, NEW queued, NEW s \in Stages, StoryFits(status, stored, queued)
  PROVE  /\ status = Active(s) \/ CanTransitionMeeting(status, Active(s))
              => StoryFits(Active(s), stored, queued)
         /\ status \in {Pending(s), Active(s)} => StoryFits(Failed(s), stored, queued)
BY DEF StoryFits, Stages, Active, Failed, Pending, CanTransitionMeeting

-----------------------------------------------------------------------------
(* Steps.                                                                  *)

(* The types of the rows of a meeting. *)
LEMMA RowTypes ==
  ASSUME TypeOK, NEW m \in Meetings, NEW s \in Stages
  PROVE  /\ meeting[m] \in MeetingRow /\ artifact[m] \in [Stages -> Nat]
         /\ job[m][s] \in JobRow /\ audit[m][s] \in EventRow
         /\ DOMAIN job[m] = Stages /\ DOMAIN audit[m] = Stages
BY DEF TypeOK

(* The tables stay as they are. *)
LEMMA NothingWritten ==
  ASSUME AllFit, UNCHANGED <<meeting, artifact, job, audit>>
  PROVE  AllFit'
BY DEF AllFit

(* Meetings start and fail their stages. *)
LEMMA StatusFits ==
  ASSUME TypeOK, AllFit, NEW w \in Workers,
         StartStage(w) \/ FailStageInner(w) \/ FailStageOuter(w)
  PROVE  AllFit'
<1> DEFINE m == worker[w].meeting
           s == worker[w].stage
<1>1. m \in Meetings /\ s \in Stages /\ UNCHANGED <<artifact, job, audit>>
  BY DEF TypeOK, WorkerRow, StartStage, FailStageInner, FailStageOuter, FailStage, queue
<1>2. /\ \A n \in Meetings : n # m => meeting'[n] = meeting[n]
      /\ \/ meeting'[m].status = meeting[m].status
         \/ /\ meeting[m].status = Active(s) \/ CanTransitionMeeting(meeting[m].status, Active(s))
            /\ meeting'[m].status = Active(s)
         \/ meeting[m].status = Active(s) /\ meeting'[m].status = Failed(s)
  <2>1. CASE StartStage(w)
    <3>1. meeting' = meeting \/ (CanStart(w) /\ meeting' = Started(w))
      BY <2>1 DEF StartStage
    <3> QED
      BY <1>1, <3>1 DEF CanStart, Started, Transitioned, TypeOK
  <2>2. CASE FailStageInner(w) \/ FailStageOuter(w)
    <3>1. meeting' = meeting \/ meeting' = StageFailed(w)
      BY <2>2 DEF FailStageInner, FailStageOuter, FailStage
    <3> QED
      BY <1>1, <3>1 DEF StageFailed, Transitioned, TypeOK
  <2> QED
    BY <2>1, <2>2
<1>3. MeetingFits(meeting'[m].status, artifact[m], job[m], audit[m])
  <2>1. /\ MeetingFits(meeting[m].status, artifact[m], job[m], audit[m])
        /\ StoryFits(meeting[m].status, artifact[m], job[m]["extraction"].status # "absent")
    BY <1>1 DEF AllFit, MeetingFits
  <2>2. Active(s) # "cancelled" /\ Failed(s) # "cancelled"
    BY <1>1 DEF Active, Failed
  <2>3. /\ meeting[m].status = Active(s) \/ CanTransitionMeeting(meeting[m].status, Active(s))
             => StoryFits(Active(s), artifact[m], job[m]["extraction"].status # "absent")
        /\ meeting[m].status \in {Pending(s), Active(s)}
             => StoryFits(Failed(s), artifact[m], job[m]["extraction"].status # "absent")
    BY <1>1, <2>1, StageMoves
  <2>4. CASE meeting'[m].status = Active(s) /\ meeting'[m].status # meeting[m].status
    BY <1>2, <2>1, <2>2, <2>3, <2>4, StatusReplaced DEF Active, Failed
  <2>5. CASE meeting'[m].status = Failed(s) /\ meeting[m].status = Active(s)
    BY <2>1, <2>2, <2>3, <2>5, StatusReplaced
  <2> QED
    BY <1>2, <2>1, <2>4, <2>5
<1> QED
  BY <1>1, <1>2, <1>3 DEF AllFit

(* An attempt stores its artifact. *)
LEMMA CompleteFits ==
  ASSUME TypeOK, AllFit, NEW w \in Workers, CompleteStage(w)
  PROVE  AllFit'
<1> DEFINE m == worker[w].meeting
           s == worker[w].stage
<1>1. m \in Meetings /\ s \in Stages /\ audit' = audit
  BY DEF TypeOK, WorkerRow, CompleteStage
<1>2. CASE UNCHANGED <<meeting, artifact, job>>
  BY <1>1, <1>2, NothingWritten
<1>3. CASE StoreArtifact(w) /\ CanComplete(w)
  <2>1. /\ \A n \in Meetings :
             n # m => meeting'[n] = meeting[n] /\ artifact'[n] = artifact[n] /\ job'[n] = job[n]
        /\ meeting'[m].status = Completed(s) /\ artifact'[m] = [artifact[m] EXCEPT ![s] = worker[w].attempt]
        /\ job'[m] = IF s = "transcription" /\ job[m]["extraction"].status = "absent"
                     THEN [job[m] EXCEPT !["extraction"] = NewJob] ELSE job[m]
    BY <1>1, <1>3 DEF StoreArtifact, Transitioned, TypeOK
  <2>2. /\ \A t \in Stages : StageFits(meeting[m].status, artifact[m][t], job[m][t], audit[m][t])
        /\ StoryFits(meeting[m].status, artifact[m], job[m]["extraction"].status # "absent")
    BY <1>1 DEF AllFit, MeetingFits
  <2>3. /\ job[m][s].status = "running" /\ job[m][s].attempts = worker[w].attempt
        /\ worker[w].attempt # 0
    BY <1>1, <1>3, <2>2 DEF CanComplete, IsActiveJob, StageFits
  <2>4. CASE s = "transcription"
    <3>1. /\ meeting[m].status = "transcribing" /\ artifact[m]["transcription"] = 0
          /\ job[m]["extraction"].status = "absent" /\ artifact[m]["extraction"] = 0
      BY <1>3, <2>2, <2>4 DEF CanComplete, CanTransitionMeeting, Completed, StoryFits
    <3>2. /\ artifact'[m]["transcription"] = worker[w].attempt /\ artifact'[m]["extraction"] = 0
          /\ job'[m]["transcription"] = job[m]["transcription"] /\ job'[m]["extraction"] = NewJob
          /\ meeting'[m].status = "transcribed"
      BY <1>1, <2>1, <2>4, <3>1, RowTypes DEF Completed, Stages
    <3>3. StageFits("transcribed", worker[w].attempt, job[m]["transcription"], audit[m]["transcription"])
      BY <1>1, <2>2, <2>3, <2>4 DEF StageFits, Stages
    <3>4. StageFits("transcribed", 0, NewJob, audit[m]["extraction"])
      BY <1>1, <2>2, <3>1 DEF StageFits, Stages, NewJob
    <3>5. StoryFits("transcribed", artifact'[m], job'[m]["extraction"].status # "absent")
      BY <2>3, <3>2 DEF StoryFits, NewJob
    <3>6. MeetingFits(meeting'[m].status, artifact'[m], job'[m], audit[m])
      BY <3>2, <3>3, <3>4, <3>5 DEF MeetingFits, Stages
    <3> QED
      BY <1>1, <2>1, <3>6 DEF AllFit
  <2>5. CASE s = "extraction"
    <3>1. /\ meeting[m].status \in {"extracting", "awaiting_approval"}
          /\ artifact[m]["transcription"] # 0
      BY <1>3, <2>2, <2>5 DEF CanComplete, CanTransitionMeeting, Completed, StoryFits
    <3>2. /\ artifact'[m]["transcription"] = artifact[m]["transcription"]
          /\ artifact'[m]["extraction"] = worker[w].attempt
          /\ job'[m] = job[m] /\ meeting'[m].status = "awaiting_approval"
      BY <1>1, <2>1, <2>5, RowTypes DEF Completed, Stages
    <3>3. StageFits("awaiting_approval", worker[w].attempt, job[m]["extraction"], audit[m]["extraction"])
      BY <1>1, <2>2, <2>3, <2>5 DEF StageFits, Stages
    <3>4. StageFits("awaiting_approval", artifact[m]["transcription"], job[m]["transcription"],
                    audit[m]["transcription"])
      BY <1>1, <2>2 DEF StageFits, Stages
    <3>5. StoryFits("awaiting_approval", artifact'[m], job'[m]["extraction"].status # "absent")
      BY <2>2, <2>3, <3>1, <3>2 DEF StoryFits
    <3>6. MeetingFits(meeting'[m].status, artifact'[m], job'[m], audit[m])
      BY <3>2, <3>3, <3>4, <3>5 DEF MeetingFits, Stages
    <3> QED
      BY <1>1, <2>1, <3>6 DEF AllFit
  <2> QED
    BY <1>1, <2>4, <2>5 DEF Stages
<1> QED
  BY <1>2, <1>3 DEF CompleteStage

(* The result of an attempt is persisted by its claim. *)
LEMMA FinishFits ==
  ASSUME TypeOK, AllFit, SeenStored, NEW w \in Workers, FinishSuccess(w) \/ FinishFailure(w)
  PROVE  AllFit'
<1> DEFINE m == worker[w].meeting
           s == worker[w].stage
<1>1. m \in Meetings /\ s \in Stages /\ UNCHANGED <<meeting, artifact>>
  BY DEF TypeOK, WorkerRow, FinishSuccess, FinishFailure
<1>2. CASE UNCHANGED <<job, audit>>
  BY <1>1, <1>2, NothingWritten
<1>3. ASSUME NEW st \in {"succeeded", "retry_wait", "failed"},
             NEW o \in {"succeeded", "retry_scheduled", "failed"},
             Finish(w, st, o), OwnsLiveLease(w), st = "succeeded" <=> HasArtifact(m, s)
      PROVE  AllFit'
  <2>1. /\ \A n \in Meetings : n # m => job'[n] = job[n] /\ audit'[n] = audit[n]
        /\ \A t \in Stages : t # s => job'[m][t] = job[m][t] /\ audit'[m][t] = audit[m][t]
        /\ job'[m][s] = Released(job[m][s], st) /\ audit'[m][s] = Event(o, job[m][s].attempts)
    BY <1>1, <1>3 DEF Finish, TypeOK
  <2>2. /\ MeetingFits(meeting[m].status, artifact[m], job[m], audit[m])
        /\ StageFits(meeting[m].status, artifact[m][s], job[m][s], audit[m][s])
        /\ job[m][s].status = "running"
    BY <1>1, <1>3 DEF AllFit, MeetingFits, OwnsLiveLease
  <2>3. StageFits(meeting[m].status, artifact[m][s], job'[m][s], audit'[m][s])
    BY <1>3, <2>1, <2>2 DEF StageFits, Released, Event, HasArtifact
  <2>4. job[m][s].status # "absent" /\ job'[m][s].status # "absent"
    BY <1>3, <2>1, <2>2 DEF Released
  <2>5. MeetingFits(meeting[m].status, artifact[m], job'[m], audit'[m])
    BY <1>1, <2>1, <2>2, <2>3, <2>4, StageReplaced
  <2> QED
    BY <1>1, <2>1, <2>5 DEF AllFit
<1>4. CASE FinishSuccess(w)
  BY <1>2, <1>3, <1>4 DEF FinishSuccess, SeenStored
<1>5. CASE FinishFailure(w)
  BY <1>2, <1>3, <1>5 DEF FinishFailure
<1> QED
  BY <1>4, <1>5

(* A lease runs out, a retry comes due. *)
LEMMA TimeFits ==
  ASSUME TypeOK, AllFit, NEW m \in Meetings, NEW s \in Stages, LeaseExpires(m, s) \/ RetryDue(m, s)
  PROVE  AllFit'
<1>1. /\ UNCHANGED <<meeting, artifact, audit>>
      /\ \A n \in Meetings : n # m => job'[n] = job[n]
      /\ \A t \in Stages : t # s => job'[m][t] = job[m][t]
      /\ job[m][s].status \in {"running", "retry_wait"}
  BY DEF LeaseExpires, RetryDue, TypeOK
<1>2. job'[m][s].status = job[m][s].status /\ job'[m][s].attempts = job[m][s].attempts
  <2>1. job[m][s] \in JobRow
    BY RowTypes
  <2>2. CASE LeaseExpires(m, s)
    <3>1. job'[m][s] = [job[m][s] EXCEPT !.live = FALSE]
      BY <2>2 DEF LeaseExpires, TypeOK
    <3> QED
      BY <2>1, <3>1 DEF JobRow
  <2>3. CASE RetryDue(m, s)
    <3>1. job'[m][s] = [job[m][s] EXCEPT !.due = TRUE]
      BY <2>3 DEF RetryDue, TypeOK
    <3> QED
      BY <2>1, <3>1 DEF JobRow
  <2> QED
    BY <2>2, <2>3
<1>3. /\ MeetingFits(meeting[m].status, artifact[m], job[m], audit[m])
      /\ StageFits(meeting[m].status, artifact[m][s], job[m][s], audit[m][s])
  BY DEF AllFit, MeetingFits
<1>4. StageFits(meeting[m].status, artifact[m][s], job'[m][s], audit'[m][s])
  BY <1>1, <1>2, <1>3 DEF StageFits
<1>5. MeetingFits(meeting[m].status, artifact[m], job'[m], audit'[m])
  BY <1>1, <1>2, <1>3, <1>4, StageReplaced
<1> QED
  BY <1>1, <1>5 DEF AllFit

(* The operator's commands. *)
LEMMA CommandFits ==
  ASSUME TypeOK, AllFit, NEW m \in Meetings, NEW k \in Keys, Retry(m, k) \/ Cancel(m, k)
  PROVE  AllFit'
<1>1. artifact' = artifact /\ \A n \in Meetings : n # m => meeting'[n] = meeting[n]
  BY DEF Retry, Cancel, TypeOK
<1>2. /\ MeetingFits(meeting[m].status, artifact[m], job[m], audit[m])
      /\ \A t \in Stages : StageFits(meeting[m].status, artifact[m][t], job[m][t], audit[m][t])
      /\ StoryFits(meeting[m].status, artifact[m], job[m]["extraction"].status # "absent")
  BY DEF AllFit, MeetingFits
<1>3. CASE Retry(m, k)
  <2>1. PICK s \in Stages :
          /\ meeting[m].status = Failed(s) /\ job[m][s].status = "failed"
          /\ job' = [job EXCEPT ![m][s] = NewJob]
          /\ meeting' = [meeting EXCEPT ![m].version = @ + 1]
          /\ audit' = [audit EXCEPT ![m][s] = Event("retry_requested", 0)]
    BY <1>3 DEF Retry
  <2>2. /\ \A n \in Meetings : n # m => job'[n] = job[n] /\ audit'[n] = audit[n]
        /\ \A t \in Stages : t # s => job'[m][t] = job[m][t] /\ audit'[m][t] = audit[m][t]
        /\ job'[m][s] = NewJob /\ audit'[m][s] = Event("retry_requested", 0)
    BY <2>1 DEF TypeOK
  <2>3. meeting'[m].status = meeting[m].status
    <3>1. meeting[m] \in MeetingRow
      BY RowTypes, <2>1
    <3>2. meeting'[m] = [meeting[m] EXCEPT !.version = @ + 1]
      BY <2>1 DEF TypeOK
    <3> QED
      BY <3>1, <3>2 DEF MeetingRow
  <2>4. StageFits(meeting[m].status, artifact[m][s], job'[m][s], audit'[m][s])
    <3>1. StageFits(meeting[m].status, artifact[m][s], job[m][s], audit[m][s])
      BY <1>2
    <3>2. NewJob.status = "ready" /\ Event("retry_requested", 0).outcome = "retry_requested"
      BY DEF NewJob, Event
    <3>3. artifact[m][s] = 0 /\ meeting[m].status # "cancelled"
      BY <2>1, <3>1 DEF StageFits, Failed
    <3> QED
      BY <2>2, <3>2, <3>3 DEF StageFits
  <2>5. MeetingFits(meeting[m].status, artifact[m], job'[m], audit'[m])
    <3>1. job[m][s].status # "absent" /\ job'[m][s].status # "absent"
      BY <2>1, <2>2 DEF NewJob
    <3> QED
      BY <1>2, <2>2, <2>4, <3>1, StageReplaced
  <2> QED
    BY <1>1, <2>2, <2>3, <2>5 DEF AllFit
<1>4. CASE Cancel(m, k)
  <2>1. /\ \A n \in Meetings : n # m => job'[n] = job[n] /\ audit'[n] = audit[n]
        /\ meeting'[m].status = "cancelled" /\ audit'[m] = audit[m]
        /\ \A t \in Stages :
             /\ job[m][t].status # "running"
             /\ job'[m][t] = IF job[m][t].status \in {"ready", "retry_wait"}
                             THEN Released(job[m][t], "cancelled") ELSE job[m][t]
    BY <1>4 DEF Cancel, Transitioned, TypeOK
  <2>2. ASSUME NEW t \in Stages
        PROVE  StageFits("cancelled", artifact[m][t], job'[m][t], audit[m][t])
    <3>1. StageFits(meeting[m].status, artifact[m][t], job[m][t], audit[m][t])
      BY <1>2
    <3>2. CASE job[m][t].status \in {"ready", "retry_wait"}
      <4>1. job'[m][t] = Released(job[m][t], "cancelled")
        BY <2>1, <3>2
      <4>2. job'[m][t].status = "cancelled"
        BY <4>1 DEF Released
      <4> QED
        BY <3>1, <3>2, <4>2 DEF StageFits
    <3>3. CASE job[m][t].status \notin {"ready", "retry_wait"}
      BY <2>1, <3>1, <3>3 DEF StageFits
    <3> QED
      BY <3>2, <3>3
  <2>3. job'[m]["extraction"].status # "absent" <=> job[m]["extraction"].status # "absent"
    BY <2>1 DEF Stages, Released
  <2>4. StoryFits("cancelled", artifact[m], job'[m]["extraction"].status # "absent")
    BY <1>2, <2>3 DEF StoryFits
  <2>5. MeetingFits(meeting'[m].status, artifact[m], job'[m], audit'[m])
    BY <2>1, <2>2, <2>4 DEF MeetingFits
  <2> QED
    BY <1>1, <2>1, <2>5 DEF AllFit
<1> QED
  BY <1>3, <1>4

(* An exhausted lease is repaired. *)
LEMMA RepairFits ==
  ASSUME TypeOK, AllFit, NEW m \in Meetings, NEW s \in Stages, m \in Exhausted(s),
         meeting'[m] = RepairedMeeting(m, s), artifact' = artifact,
         \A t \in Stages : t # s => job'[m][t] = job[m][t] /\ audit'[m][t] = audit[m][t],
         job'[m][s] = Released(job[m][s], Verdict(m, s)), audit'[m][s] = ClosedAudit(m, s)
  PROVE  MeetingFits(meeting'[m].status, artifact'[m], job'[m], audit'[m])
<1>1. /\ MeetingFits(meeting[m].status, artifact[m], job[m], audit[m])
      /\ StageFits(meeting[m].status, artifact[m][s], job[m][s], audit[m][s])
      /\ StoryFits(meeting[m].status, artifact[m], job[m]["extraction"].status # "absent")
      /\ job[m][s].status = "running"
  BY DEF AllFit, MeetingFits, Exhausted
<1>2. /\ meeting[m].status # "cancelled" /\ Verdict(m, s) \in {"succeeded", "failed"}
      /\ Verdict(m, s) = "succeeded" <=> artifact[m][s] # 0
  BY <1>1 DEF StageFits, Verdict, HasArtifact
<1>3. \/ meeting'[m].status = meeting[m].status
      \/ meeting[m].status \in {Pending(s), Active(s)} /\ meeting'[m].status = Failed(s)
  BY DEF RepairedMeeting, Transitioned
<1>4. MeetingFits(meeting'[m].status, artifact[m], job[m], audit[m])
  <2>1. CASE meeting[m].status \in {Pending(s), Active(s)} /\ meeting'[m].status = Failed(s)
    <3>1. StoryFits(Failed(s), artifact[m], job[m]["extraction"].status # "absent")
      BY <1>1, <2>1, StageMoves
    <3> QED
      BY <1>1, <2>1, <3>1, StatusReplaced DEF Failed
  <2> QED
    BY <1>1, <1>3, <2>1
<1>5. StageFits(meeting'[m].status, artifact[m][s], job'[m][s], audit'[m][s])
  <2>1. meeting'[m].status # "cancelled"
    BY <1>2, <1>3 DEF Failed
  <2>2. audit'[m][s] = Event(Verdict(m, s), job[m][s].attempts)
    BY <1>1, <1>2 DEF ClosedAudit, IsOpenAttempt, StageFits
  <2> QED
    BY <1>1, <1>2, <2>1, <2>2 DEF StageFits, Released, Event
<1>6. job[m][s].status # "absent" /\ job'[m][s].status # "absent"
  BY <1>1, <1>2 DEF Released
<1> QED
  BY <1>4, <1>5, <1>6, StageReplaced

(* A due job is claimed, or found decided. *)
LEMMA ClaimedFits ==
  ASSUME TypeOK, AllFit, NEW w \in Workers, NEW s \in Stages, NEW m \in Due(s),
         meeting'[m] = meeting[m], artifact' = artifact,
         \A t \in Stages : t # s => job'[m][t] = job[m][t] /\ audit'[m][t] = audit[m][t],
         job'[m][s] = ClaimedJob(w, m, s), audit'[m][s] = ClaimedAudit(m, s)
  PROVE  MeetingFits(meeting'[m].status, artifact'[m], job'[m], audit'[m])
<1>1. m \in Meetings
  BY DEF Due
<1>2. /\ MeetingFits(meeting[m].status, artifact[m], job[m], audit[m])
      /\ StageFits(meeting[m].status, artifact[m][s], job[m][s], audit[m][s])
      /\ job[m][s].status \in {"ready", "retry_wait", "running"}
      /\ job[m][s].attempts \in Nat
  BY <1>1, RowTypes DEF AllFit, MeetingFits, Due, JobRow
<1>3. /\ meeting[m].status # "cancelled" /\ Verdict(m, s) \in {"succeeded", "failed"}
      /\ Verdict(m, s) = "succeeded" <=> artifact[m][s] # 0
  BY <1>2 DEF StageFits, Verdict, HasArtifact
<1>4. StageFits(meeting[m].status, artifact[m][s], job'[m][s], audit'[m][s])
  <2>1. CASE AttemptRuns(m, s)
    <3>1. artifact[m][s] = 0
      BY <1>2, <1>3, <2>1 DEF AttemptRuns, StageFits
    <3>2. /\ job'[m][s].status = "running" /\ job'[m][s].attempts = job[m][s].attempts + 1
          /\ audit'[m][s] = Event("started", job[m][s].attempts + 1)
      BY <2>1 DEF ClaimedJob, ClaimedAudit
    <3> QED
      BY <1>2, <1>3, <3>1, <3>2 DEF StageFits
  <2>2. CASE ~AttemptRuns(m, s)
    <3>1. /\ job'[m][s] = Released(job[m][s], Verdict(m, s)) /\ audit'[m][s] = ClosedAudit(m, s)
      BY <2>2 DEF ClaimedJob, ClaimedAudit
    <3>2. audit'[m][s].outcome # "started"
      BY <1>2, <1>3, <3>1 DEF ClosedAudit, IsOpenAttempt, StageFits, Event
    <3> QED
      BY <1>2, <1>3, <3>1, <3>2 DEF StageFits, Released
  <2> QED
    BY <2>1, <2>2
<1>5. job[m][s].status # "absent" /\ job'[m][s].status # "absent"
  BY <1>2, <1>3 DEF ClaimedJob, Released
<1> QED
  BY <1>1, <1>2, <1>4, <1>5, StageReplaced

(* A claim: any number of repairs, and at most one claimed job. *)
LEMMA ClaimFits ==
  ASSUME TypeOK, AllFit, NEW w \in Workers, NEW s \in Stages, Claim(w, s)
  PROVE  AllFit'
<1>1. PICK limit \in {0, RepairLimit} : \E R \in Repairable(s, limit) :
        \E c \in Due(s) \cup {NoMeeting} : Claim(w, s)!2!(limit)!(R)!(c)
  BY DEF Claim
<1>2. PICK R \in Repairable(s, limit), c \in Due(s) \cup {NoMeeting} :
        Claim(w, s)!2!(limit)!(R)!(c)
  BY <1>1
<1>3. Claim(w, s)!2!(limit)!(R)!(c) /\ artifact' = artifact
  BY <1>2 DEF Claim
<1>4. R \subseteq Exhausted(s) /\ (c \in Meetings => c \in Due(s)) /\ c \notin R
  <2>1. R \subseteq Exhausted(s) /\ (c \in Meetings => c \in Due(s))
    BY SentinelAssumption DEF Repairable, Exhausted
  <2>2. \A n \in Due(s) : n \notin Exhausted(s)
    BY RowTypes, MaxAttemptsAssumption DEF Due, Exhausted, JobRow
  <2> QED
    BY <2>1, <2>2 DEF Exhausted
<1>5. \A m \in Meetings : meeting'[m] = IF m \in R THEN RepairedMeeting(m, s) ELSE meeting[m]
  BY <1>3
<1>6. \A m \in Meetings, t \in Stages :
        /\ job'[m][t] = IF t = s /\ m \in R THEN Released(job[m][s], Verdict(m, s))
                        ELSE IF t = s /\ m = c THEN ClaimedJob(w, m, s) ELSE job[m][t]
        /\ audit'[m][t] = IF t = s /\ m \in R THEN ClosedAudit(m, s)
                          ELSE IF t = s /\ m = c THEN ClaimedAudit(m, s) ELSE audit[m][t]
  BY <1>3
<1>7. ASSUME NEW m \in Meetings
      PROVE  MeetingFits(meeting'[m].status, artifact'[m], job'[m], audit'[m])
  <2>1. CASE m \in R
    BY <1>3, <1>4, <1>5, <1>6, <2>1, RepairFits
  <2>2. CASE m = c
    BY <1>3, <1>4, <1>5, <1>6, <2>2, ClaimedFits
  <2>3. CASE m \notin R /\ m # c
    <3>1. /\ meeting'[m] = meeting[m]
          /\ \A t \in Stages : job'[m][t] = job[m][t] /\ audit'[m][t] = audit[m][t]
      BY <1>5, <1>6, <2>3
    <3>2. MeetingFits(meeting[m].status, artifact[m], job[m], audit[m])
      BY DEF AllFit
    <3> QED
      BY <1>3, <3>1, <3>2 DEF MeetingFits, Stages
  <2> QED
    BY <2>1, <2>2, <2>3
<1> QED
  BY <1>7 DEF AllFit

(* An artifact that was stored stays. *)
LEMMA ArtifactsStay ==
  ASSUME TypeOK, AllFit, [Next]_vars, NEW m \in Meetings, NEW s \in Stages, HasArtifact(m, s)
  PROVE  HasArtifact(m, s)'
<1>1. CASE artifact' = artifact
  BY <1>1 DEF HasArtifact
<1>2. ASSUME NEW w \in Workers, CanComplete(w), StoreArtifact(w), worker[w].step = "complete"
      PROVE  HasArtifact(m, s)'
  <2>1. worker[w].meeting \in Meetings /\ worker[w].stage \in Stages
    BY <1>2 DEF TypeOK, WorkerRow
  <2>2. worker[w].attempt # 0
    BY <1>2, <2>1 DEF CanComplete, IsActiveJob, AllFit, MeetingFits, StageFits
  <2> QED
    BY <1>2, <2>1, <2>2 DEF StoreArtifact, HasArtifact, TypeOK
<1> QED
  BY <1>1, <1>2
  DEF Next, vars, Step, Crash, Claim, LeaseExpires, RetryDue, Retry, Cancel, Validate, Load,
      StartStage, ProviderCall, CompleteStage, FailStageInner, FailStageOuter, FailStage,
      FinishSuccess, FinishFailure

(* How a worker moves on in its handler. *)
LEMMA GotoRow ==
  ASSUME TypeOK, NEW w \in Workers, NEW st, NEW f, Goto(w, st, f)
  PROVE  /\ \A v \in Workers : v # w => worker'[v] = worker[v]
         /\ worker'[w].step = st /\ worker'[w].failure = f
         /\ worker'[w].meeting = worker[w].meeting /\ worker'[w].stage = worker[w].stage
         /\ worker'[w].token = worker[w].token /\ worker'[w].attempt = worker[w].attempt
<1>1. worker' = [worker EXCEPT ![w] = [worker[w] EXCEPT !.step = st, !.failure = f]]
  BY DEF Goto, TypeOK, WorkerRow
<1>2. worker[w] \in WorkerRow /\ w \in DOMAIN worker
  BY DEF TypeOK
<1> DEFINE r == [worker[w] EXCEPT !.step = st, !.failure = f]
<1>3. /\ r.step = st /\ r.failure = f /\ r.meeting = worker[w].meeting
      /\ r.stage = worker[w].stage /\ r.token = worker[w].token /\ r.attempt = worker[w].attempt
  BY <1>2 DEF WorkerRow
<1> HIDE DEF r
<1>4. worker'[w] = r /\ \A v \in Workers : v # w => worker'[v] = worker[v]
  BY <1>1, <1>2 DEF r, TypeOK
<1> QED
  BY <1>3, <1>4

(* Who goes on to report success has seen the artifact. *)
LEMMA StepSeen ==
  ASSUME TypeOK, AllFit, SeenStored, [Next]_vars
  PROVE  SeenStored'
<1> SUFFICES ASSUME NEW v \in Workers, worker'[v].step = "finish_ok"
             PROVE  artifact'[worker'[v].meeting][worker'[v].stage] # 0
  BY DEF SeenStored, HasArtifact
<1>1. CASE worker'[v] = worker[v]
  <2>1. worker[v].meeting \in Meetings /\ worker[v].stage \in Stages
    BY <1>1 DEF TypeOK, WorkerRow
  <2> QED
    BY <1>1, <2>1, ArtifactsStay DEF SeenStored, HasArtifact
<1>2. ASSUME NEW w \in Workers, NEW f, Goto(w, "finish_ok", f), worker[w].step # "idle",
             artifact'[worker[w].meeting][worker[w].stage] # 0
      PROVE  artifact'[worker'[v].meeting][worker'[v].stage] # 0
  BY <1>1, <1>2, GotoRow
<1>3. ASSUME NEW w \in Workers, NEW st, NEW f, Goto(w, st, f), st # "finish_ok"
      PROVE  worker'[v] = worker[v]
  BY <1>3, GotoRow
<1>4. ASSUME NEW w \in Workers, Release(w)
      PROVE  worker'[v] = worker[v]
  BY <1>4 DEF Release, IdleWorker, TypeOK
<1>5. ASSUME NEW w \in Workers, Load(w) \/ CompleteStage(w)
      PROVE  \/ worker'[v] = worker[v]
             \/ artifact'[worker'[v].meeting][worker'[v].stage] # 0
  <2>1. worker[w].meeting \in Meetings /\ worker[w].stage \in Stages /\ worker[w].step # "idle"
    BY <1>5 DEF TypeOK, WorkerRow, Load, CompleteStage
  <2>2. CASE Load(w) /\ HasArtifact(worker[w].meeting, worker[w].stage)
             /\ Goto(w, "finish_ok", "none")
    BY <1>2, <2>1, <2>2 DEF Load, HasArtifact
  <2>3. CASE StoreArtifact(w) /\ CanComplete(w) /\ Goto(w, "finish_ok", "none")
    <3>1. worker[w].attempt # 0
      BY <2>1, <2>3 DEF CanComplete, IsActiveJob, AllFit, MeetingFits, StageFits
    <3>2. artifact'[worker[w].meeting][worker[w].stage] # 0
      BY <2>1, <2>3, <3>1 DEF StoreArtifact, TypeOK
    <3> QED
      BY <1>2, <2>1, <2>3, <3>2
  <2>4. CASE \E st \in Steps \ {"finish_ok"}, f \in Failures : Goto(w, st, f)
    BY <1>3, <2>4
  <2> QED
    BY <1>5, <2>2, <2>3, <2>4 DEF Load, CompleteStage, Steps, Failures
<1>6. ASSUME NEW w \in Workers, \/ Validate(w) \/ StartStage(w) \/ ProviderCall(w)
                                \/ FailStageInner(w) \/ FailStageOuter(w)
      PROVE  worker'[v] = worker[v]
  BY <1>3, <1>6
  DEF Validate, StartStage, ProviderCall, FailStageInner, FailStageOuter, FailStage
<1>7. ASSUME NEW w \in Workers, FinishSuccess(w) \/ FinishFailure(w) \/ Crash(w)
      PROVE  worker'[v] = worker[v]
  BY <1>4, <1>7 DEF FinishSuccess, FinishFailure, Crash
<1>8. ASSUME NEW w \in Workers, NEW s \in Stages, Claim(w, s)
      PROVE  worker'[v] = worker[v]
  <2>1. \/ worker' = worker
        \/ \E row : row.step = "validate" /\ worker' = [worker EXCEPT ![w] = row]
    BY <1>8 DEF Claim
  <2> QED
    BY <2>1 DEF TypeOK
<1>9. CASE worker' = worker
  BY <1>1, <1>9
<1> QED
  BY <1>1, <1>5, <1>6, <1>7, <1>8, <1>9
  DEF Next, vars, Step, LeaseExpires, RetryDue, Retry, Cancel

-----------------------------------------------------------------------------
(* The story of a meeting.                                                 *)

(* Every step keeps the tables fitting. *)
LEMMA StepFits ==
  ASSUME TypeOK, AllFit, SeenStored, [Next]_vars
  PROVE  AllFit'
<1>1. CASE UNCHANGED <<meeting, artifact, job, audit>>
  BY <1>1, NothingWritten
<1> QED
  BY <1>1, StatusFits, CompleteFits, FinishFits, ClaimFits, TimeFits, CommandFits
  DEF Next, vars, Step, Crash, Validate, Load, ProviderCall, queue

(* What ingest leaves behind. *)
LEMMA InitFits == Init => AllFit /\ SeenStored
<1> SUFFICES ASSUME Init PROVE AllFit /\ SeenStored
  OBVIOUS
<1>1. ASSUME NEW m \in Meetings
      PROVE  MeetingFits(meeting[m].status, artifact[m], job[m], audit[m])
  BY DEF Init, MeetingFits, StageFits, StoryFits, Stages, NewJob, NoJob, Released, NoEvent, Event
<1> QED
  BY <1>1 DEF Init, AllFit, SeenStored, IdleWorker

(* All of the above, as one invariant. *)
LEMMA Fitting == Spec => [](TypeOK /\ AllFit /\ SeenStored)
<1>1. TypeOK /\ AllFit /\ SeenStored /\ [Next]_vars => AllFit' /\ SeenStored'
  BY StepFits, StepSeen
<1> QED
  BY <1>1, InitFits, TypeCorrect, PTL DEF Spec

(* A job reports success with the attempt that stored the artifact:           *)
(* SuccessIsTheAttemptThatStored.                                             *)
THEOREM SuccessStored == Spec => []SuccessIsTheAttemptThatStored
<1>1. AllFit => SuccessIsTheAttemptThatStored
  BY FitSays
<1> QED
  BY <1>1, Fitting, PTL

(* The status of a meeting says which artifacts it has: ArtifactsMatchStatus. *)
THEOREM ArtifactsMatch == Spec => []ArtifactsMatchStatus
<1>1. AllFit => ArtifactsMatchStatus
  BY FitSays
<1> QED
  BY <1>1, Fitting, PTL

(* The ledger closes every attempt that it opened: LedgerFollowsJob.          *)
THEOREM LedgerFollows == Spec => []LedgerFollowsJob
<1>1. AllFit => LedgerFollowsJob
  BY FitSays
<1> QED
  BY <1>1, Fitting, PTL

-----------------------------------------------------------------------------
(* Cancellation.                                                           *)

\* Nothing of a cancelled meeting changes.
Quiet ==
  \A m \in Meetings : meeting[m].status = "cancelled" =>
    meeting'[m] = meeting[m] /\ artifact'[m] = artifact[m] /\ job'[m] = job[m]

(* No job of a cancelled meeting is queued, waits or runs. *)
LEMMA CancelledSettled ==
  ASSUME AllFit, NEW m \in Meetings, meeting[m].status = "cancelled", NEW s \in Stages
  PROVE  job[m][s].status \notin {"ready", "running", "retry_wait"}
BY DEF AllFit, MeetingFits, StageFits

(* A handler that lost its claim writes nothing. *)
LEMMA HandlerQuiet ==
  ASSUME TypeOK, AllFit, NEW w \in Workers, Step(w)
  PROVE  Quiet
<1> DEFINE h == worker[w].meeting
<1>1. CASE UNCHANGED <<meeting, artifact, job>>
  BY <1>1 DEF Quiet
<1>2. CASE IsActiveJob(w) \/ OwnsLiveLease(w)
  <2>1. h \in Meetings /\ worker[w].stage \in Stages
    BY DEF TypeOK, WorkerRow, Step, Validate, Load, StartStage, ProviderCall, CompleteStage,
           FailStageInner, FailStageOuter, FinishSuccess, FinishFailure
  <2>2. meeting[h].status # "cancelled"
    BY <1>2, <2>1, CancelledSettled DEF IsActiveJob, OwnsLiveLease
  <2>3. \A m \in Meetings : m # h =>
          meeting'[m] = meeting[m] /\ artifact'[m] = artifact[m] /\ job'[m] = job[m]
    <3>1. CASE meeting' \in {meeting, Started(w), StageFailed(w)} /\ UNCHANGED <<artifact, job>>
      BY <2>1, <3>1 DEF Started, StageFailed, TypeOK
    <3>2. CASE StoreArtifact(w)
      BY <2>1, <3>2 DEF StoreArtifact, TypeOK
    <3>3. ASSUME NEW st, NEW o, Finish(w, st, o), UNCHANGED <<meeting, artifact>> PROVE <2>3
      BY <2>1, <3>3 DEF Finish, TypeOK
    <3>4. CASE StartStage(w) \/ FailStageInner(w) \/ FailStageOuter(w)
      BY <3>1, <3>4 DEF StartStage, FailStageInner, FailStageOuter, FailStage, queue
    <3>5. CASE FinishSuccess(w) \/ FinishFailure(w)
      BY <3>1, <3>3, <3>5 DEF FinishSuccess, FinishFailure
    <3>6. CASE CompleteStage(w)
      BY <3>1, <3>2, <3>6 DEF CompleteStage
    <3>7. CASE Validate(w) \/ Load(w) \/ ProviderCall(w)
      BY <3>1, <3>7 DEF Validate, Load, ProviderCall, queue
    <3> QED
      BY <3>4, <3>5, <3>6, <3>7 DEF Step
  <2> QED
    BY <2>2, <2>3 DEF Quiet
<1>3. CASE ~IsActiveJob(w) /\ ~OwnsLiveLease(w)
  BY <1>1, <1>3
  DEF Step, Validate, Load, StartStage, ProviderCall, CompleteStage, FailStageInner, FailStageOuter,
      FailStage, FinishSuccess, FinishFailure, queue, CanStart, CanComplete, CanFailStage
<1> QED
  BY <1>2, <1>3

(* No claim takes or repairs a job of it. *)
LEMMA ClaimQuiet ==
  ASSUME TypeOK, AllFit, NEW w \in Workers, NEW s \in Stages, Claim(w, s)
  PROVE  Quiet
<1>1. PICK limit \in {0, RepairLimit} : \E R \in Repairable(s, limit) :
        \E c \in Due(s) \cup {NoMeeting} : Claim(w, s)!2!(limit)!(R)!(c)
  BY DEF Claim
<1>2. PICK R \in Repairable(s, limit), c \in Due(s) \cup {NoMeeting} :
        Claim(w, s)!2!(limit)!(R)!(c)
  BY <1>1
<1>3. Claim(w, s)!2!(limit)!(R)!(c) /\ artifact' = artifact
  BY <1>2 DEF Claim
<1>4. ASSUME NEW m \in Meetings, meeting[m].status = "cancelled"
      PROVE  meeting'[m] = meeting[m] /\ artifact'[m] = artifact[m] /\ job'[m] = job[m]
  <2>1. m \notin R /\ m # c
    BY <1>4, CancelledSettled, SentinelAssumption DEF Repairable, Exhausted, Due
  <2>2. meeting'[m] = meeting[m] /\ \A t \in Stages : job'[m][t] = job[m][t]
    BY <1>3, <2>1
  <2>3. job'[m] = [t \in Stages |-> job'[m][t]] /\ job[m] = [t \in Stages |-> job[m][t]]
    BY <1>3 DEF TypeOK
  <2> QED
    BY <1>3, <2>2, <2>3
<1> QED
  BY <1>4 DEF Quiet

(* Nothing of a cancelled meeting changes again, whatever workers still hold: *)
(* CancelledIsFinal.                                                          *)
THEOREM CancelledStays == Spec => CancelledIsFinal
<1>1. TypeOK /\ AllFit /\ [Next]_vars => Quiet
  <2> SUFFICES ASSUME TypeOK, AllFit, [Next]_vars PROVE Quiet
    OBVIOUS
  <2>1. CASE UNCHANGED <<meeting, artifact, job>>
    BY <2>1 DEF Quiet
  <2>2. ASSUME NEW m \in Meetings, NEW s \in Stages, LeaseExpires(m, s) \/ RetryDue(m, s)
        PROVE  Quiet
    <3>1. /\ job[m][s].status \in {"running", "retry_wait"} /\ UNCHANGED <<meeting, artifact>>
          /\ \A n \in Meetings : n # m => job'[n] = job[n]
      BY <2>2 DEF LeaseExpires, RetryDue, TypeOK
    <3>2. meeting[m].status # "cancelled"
      BY <3>1, CancelledSettled
    <3> QED
      BY <3>1, <3>2 DEF Quiet
  <2>3. ASSUME NEW m \in Meetings, NEW k \in Keys, Retry(m, k) \/ Cancel(m, k)
        PROVE  Quiet
    BY <2>3 DEF Retry, Cancel, Cancellable, Failed, Quiet, TypeOK
  <2> QED
    BY <2>1, <2>2, <2>3, HandlerQuiet, ClaimQuiet DEF Next, vars, Crash, queue
<1> QED
  BY <1>1, Fitting, PTL DEF Spec, CancelledIsFinal, Quiet

-----------------------------------------------------------------------------
(* Versions.                                                               *)

\* Every command was bound to a version that is over.
BoundBefore ==
  /\ \A k \in Keys : ops[k] # NoBinding =>
       ops[k].meeting \in Meetings /\ ops[k].version < meeting[ops[k].meeting].version
  /\ OneCommandPerVersion

(* No step takes a version back. *)
LEMMA VersionsGrow ==
  ASSUME TypeOK, [Next]_vars, NEW m \in Meetings
  PROVE  meeting'[m].version >= meeting[m].version
<1>1. \A n \in Meetings : meeting[n] \in MeetingRow /\ meeting[n].version \in Nat
  BY DEF TypeOK, MeetingRow
<1>2. CASE meeting' = meeting
  BY <1>1, <1>2
<1>3. ASSUME NEW w \in Workers, worker[w].step # "idle",
             meeting' \in {Started(w), StageFailed(w)} \/ StoreArtifact(w)
      PROVE  meeting'[m].version >= meeting[m].version
  <2>1. /\ worker[w].meeting \in Meetings
        /\ \/ meeting' = meeting
           \/ \E t, f : meeting' = [meeting EXCEPT
                 ![worker[w].meeting] = Transitioned(meeting[worker[w].meeting], t, f)]
    BY <1>3 DEF Started, StageFailed, StoreArtifact, TypeOK
  <2>2. \A t, f : Transitioned(meeting[worker[w].meeting], t, f).version
                  = meeting[worker[w].meeting].version + 1
    BY DEF Transitioned
  <2>3. CASE meeting' = meeting
    BY <1>1, <2>3
  <2>4. ASSUME NEW t, NEW f, meeting' = [meeting EXCEPT
                 ![worker[w].meeting] = Transitioned(meeting[worker[w].meeting], t, f)]
        PROVE  meeting'[m].version >= meeting[m].version
    <3>1. CASE m = worker[w].meeting
      <4>1. meeting'[m] = Transitioned(meeting[m], t, f)
        BY <2>4, <3>1 DEF TypeOK
      <4> QED
        BY <1>1, <2>2, <3>1, <4>1
    <3>2. CASE m # worker[w].meeting
      BY <1>1, <2>4, <3>2 DEF TypeOK
    <3> QED
      BY <3>1, <3>2
  <2> QED
    BY <2>1, <2>3, <2>4
<1>4. ASSUME NEW w \in Workers, NEW s \in Stages, Claim(w, s)
      PROVE  meeting'[m].version >= meeting[m].version
  <2>1. meeting'[m] \in {meeting[m], RepairedMeeting(m, s)}
    BY <1>4 DEF Claim
  <2> QED
    BY <1>1, <2>1 DEF RepairedMeeting, Transitioned
<1>5. ASSUME NEW n \in Meetings, NEW k \in Keys, Retry(n, k) \/ Cancel(n, k)
      PROVE  meeting'[m].version >= meeting[m].version
  <2>1. CASE Cancel(n, k)
    BY <1>1, <2>1 DEF Cancel, Transitioned, TypeOK
  <2>2. CASE Retry(n, k)
    <3>1. meeting' = [meeting EXCEPT ![n] = [meeting[n] EXCEPT !.version = @ + 1]]
      BY <2>2 DEF Retry
    <3>2. [meeting[n] EXCEPT !.version = @ + 1].version = meeting[n].version + 1
      BY <1>1 DEF MeetingRow
    <3> QED
      BY <1>1, <3>1, <3>2 DEF TypeOK
  <2> QED
    BY <1>5, <2>1, <2>2
<1> QED
  BY <1>2, <1>3, <1>4, <1>5
  DEF Next, vars, Step, Crash, LeaseExpires, RetryDue, Validate, Load, StartStage, ProviderCall,
      CompleteStage, FailStageInner, FailStageOuter, FailStage, FinishSuccess, FinishFailure

(* Of two commands for one version at most one is ever accepted:              *)
(* OneCommandPerVersion.                                                      *)
THEOREM OneCommand == Spec => []OneCommandPerVersion
<1>1. Init => BoundBefore
  BY DEF Init, BoundBefore, OneCommandPerVersion
<1>2. TypeOK /\ BoundBefore /\ [Next]_vars => BoundBefore'
  <2> SUFFICES ASSUME TypeOK, BoundBefore, [Next]_vars PROVE BoundBefore'
    OBVIOUS
  <2>1. \A m \in Meetings :
          /\ meeting[m].version \in Nat /\ meeting'[m].version >= meeting[m].version
          /\ meeting'[m].version \in Nat
    BY VersionsGrow, StepType DEF TypeOK, MeetingRow
  <2>2. \A k \in Keys : ops[k].version \in Nat
    BY DEF TypeOK, OperationRow
  <2>3. CASE ops' = ops
    BY <2>1, <2>2, <2>3 DEF BoundBefore, OneCommandPerVersion
  <2>4. ASSUME NEW m \in Meetings, NEW k \in Keys, Retry(m, k) \/ Cancel(m, k)
        PROVE  BoundBefore'
    <3>1. PICK o \in {"retry", "cancel"} : Bind(k, o, m)
      BY <2>4 DEF Retry, Cancel
    <3>2. /\ \A j \in Keys : j # k => ops'[j] = ops[j]
          /\ ops'[k].meeting = m /\ ops'[k].version = meeting[m].version
      BY <3>1 DEF Bind, TypeOK
    <3>3. meeting'[m].version > meeting[m].version
      <4>1. CASE Cancel(m, k)
        BY <2>1, <4>1 DEF Cancel, Transitioned, TypeOK
      <4>2. CASE Retry(m, k)
        <5>1. meeting'[m] = [meeting[m] EXCEPT !.version = @ + 1] /\ meeting[m] \in MeetingRow
          BY <4>2 DEF Retry, TypeOK
        <5> QED
          BY <2>1, <5>1 DEF MeetingRow
      <4> QED
        BY <2>4, <4>1, <4>2
    <3>4. \A j \in Keys : ops'[j] # NoBinding =>
            ops'[j].meeting \in Meetings /\ ops'[j].version < meeting'[ops'[j].meeting].version
      BY <2>1, <2>2, <3>2, <3>3 DEF BoundBefore
    <3>5. \A j \in Keys : j # k /\ ops'[j] # NoBinding =>
            ~(ops'[j].meeting = m /\ ops'[j].version = meeting[m].version)
      BY <2>1, <2>2, <3>2 DEF BoundBefore
    <3>6. OneCommandPerVersion'
      BY <3>2, <3>5 DEF BoundBefore, OneCommandPerVersion
    <3> QED
      BY <3>4, <3>6 DEF BoundBefore
  <2> QED
    BY <2>3, <2>4
    DEF Next, vars, Step, Crash, Claim, LeaseExpires, RetryDue, Validate, Load, StartStage,
        ProviderCall, CompleteStage, FailStageInner, FailStageOuter, FailStage, FinishSuccess,
        FinishFailure
<1>3. BoundBefore => OneCommandPerVersion
  BY DEF BoundBefore
<1> QED
  BY <1>1, <1>2, <1>3, TypeCorrect, PTL DEF Spec

-----------------------------------------------------------------------------
(* Permanent failures.                                                     *)

\* What PermanentNeedsOperator asks of a step.
OperatorFirst ==
  \A m \in Meetings, s \in Stages :
    /\ meeting[m].status = Failed(s) /\ meeting[m].failure = "permanent"
    /\ meeting'[m].status = Active(s)
    => job[m][s].attempts = 1

\* A claim that has not started its stage has not met a permanent failure, unless it
\* is the first after an operator's retry.
FreshClaims ==
  \A w \in Workers :
    LET m == worker[w].meeting  s == worker[w].stage IN
    /\ worker[w].step \in {"validate", "load", "start"} /\ IsActiveJob(w)
    /\ meeting[m].status = Failed(s) /\ meeting[m].failure = "permanent"
    => worker[w].attempt = 1

(* No other worker's claim is alive. *)
LEMMA OthersStale ==
  ASSUME TypeOK, ClaimsDistinct, NEW v \in Workers, NEW w \in Workers, v # w,
         worker[v].step # "idle", worker[w].step # "idle", IsActiveJob(v), IsActiveJob(w)
  PROVE  ~(worker[v].meeting = worker[w].meeting /\ worker[v].stage = worker[w].stage)
BY DEF ClaimsDistinct, IsActiveJob

(* Stages have their own statuses. *)
LEMMA StatusesApart ==
  ASSUME NEW s \in Stages, NEW t \in Stages
  PROVE  /\ Failed(s) = Failed(t) => s = t
         /\ Active(s) = Active(t) => s = t
         /\ Failed(s) \notin {Active(t), Completed(t), Pending(t), "cancelled"}
BY DEF Stages, Failed, Active, Completed, Pending

\* The claim of w was there before, on the row that it has now.
ClaimWas(w) ==
  /\ worker[w].step \in {"validate", "load", "start"}
  /\ worker'[w].meeting = worker[w].meeting /\ worker'[w].stage = worker[w].stage
  /\ worker'[w].token = worker[w].token /\ worker'[w].attempt = worker[w].attempt
  /\ LET m == worker[w].meeting  s == worker[w].stage IN
       job'[m][s] = job[m][s] \/ job'[m][s].status # "running" \/ ~job'[m][s].live

\* What a fresh claim asks of the next state.
StaysFresh(w) ==
  LET m == worker'[w].meeting  s == worker'[w].stage IN
    /\ worker'[w].step \in {"validate", "load", "start"} /\ IsActiveJob(w)'
    /\ meeting'[m].status = Failed(s) /\ meeting'[m].failure = "permanent"
    => worker'[w].attempt = 1

(* A claim stays fresh when its meeting did not fail meanwhile. *)
LEMMA FreshKept ==
  ASSUME TypeOK, FreshClaims, NEW w \in Workers, ClaimWas(w),
         LET m == worker[w].meeting  s == worker[w].stage IN
           IsActiveJob(w) =>
             \/ meeting'[m].status = meeting[m].status /\ meeting'[m].failure = meeting[m].failure
             \/ meeting'[m].status # Failed(s) \/ meeting'[m].failure # "permanent"
  PROVE  StaysFresh(w)
<1> DEFINE m == worker[w].meeting
           s == worker[w].stage
<1> SUFFICES ASSUME IsActiveJob(w)', meeting'[m].status = Failed(s),
                    meeting'[m].failure = "permanent"
             PROVE  worker[w].attempt = 1
  BY DEF ClaimWas, StaysFresh
<1>1. IsActiveJob(w)
  BY DEF IsActiveJob, ClaimWas
<1> QED
  BY <1>1 DEF FreshClaims, ClaimWas

(* What a handler's step does to the rows of jobs. *)
LEMMA HandlerRows ==
  ASSUME TypeOK, NEW w \in Workers, Step(w) \/ Crash(w), NEW m \in Meetings, NEW s \in Stages
  PROVE  job'[m][s] = job[m][s] \/ job'[m][s].status # "running"
<1>1. CASE job' = job
  BY <1>1
<1>2. CASE StoreArtifact(w)
  BY <1>2 DEF StoreArtifact, NewJob, TypeOK, Stages
<1>3. ASSUME NEW st \in {"succeeded", "retry_wait", "failed"}, NEW o, Finish(w, st, o)
      PROVE  job'[m][s] = job[m][s] \/ job'[m][s].status # "running"
  BY <1>3 DEF Finish, Released, TypeOK
<1> QED
  BY <1>1, <1>2, <1>3
  DEF Step, Crash, Validate, Load, StartStage, ProviderCall, CompleteStage,
      FailStageInner, FailStageOuter, FailStage, FinishSuccess, FinishFailure, queue

(* What it does to meetings. *)
LEMMA HandlerMeetings ==
  ASSUME TypeOK, NEW w \in Workers, Step(w) \/ Crash(w)
  PROVE  /\ \A m \in Meetings : m # worker[w].meeting => meeting'[m] = meeting[m]
         /\ LET m == worker[w].meeting  s == worker[w].stage IN
            \/ meeting' = meeting
            \/ CanStart(w) /\ worker[w].step = "start" /\ meeting'[m].status = Active(s)
            \/ CanFailStage(w) /\ meeting'[m].status = Failed(s)
            \/ CanComplete(w) /\ meeting'[m].status = Completed(s)
<1>1. worker[w].meeting \in Meetings /\ worker[w].step # "idle"
  BY DEF TypeOK, WorkerRow, Step, Crash, Validate, Load, StartStage, ProviderCall, CompleteStage,
         FailStageInner, FailStageOuter, FinishSuccess, FinishFailure
<1>2. CASE meeting' = meeting
  BY <1>2
<1>3. CASE StartStage(w) /\ meeting' # meeting
  <2>1. CanStart(w) /\ meeting' = Started(w) /\ worker[w].step = "start"
    BY <1>3 DEF StartStage
  <2> QED
    BY <1>1, <1>3, <2>1 DEF Started, Transitioned, TypeOK
<1>4. CASE (FailStageInner(w) \/ FailStageOuter(w)) /\ meeting' # meeting
  <2>1. CanFailStage(w) /\ meeting' = StageFailed(w)
    BY <1>4 DEF FailStageInner, FailStageOuter, FailStage
  <2> QED
    BY <1>1, <1>4, <2>1 DEF StageFailed, Transitioned, TypeOK
<1>5. CASE CompleteStage(w) /\ meeting' # meeting
  <2>1. CanComplete(w) /\ StoreArtifact(w)
    BY <1>5 DEF CompleteStage
  <2> QED
    BY <1>1, <2>1 DEF StoreArtifact, Transitioned, TypeOK
<1> QED
  BY <1>2, <1>3, <1>4, <1>5
  DEF Step, Crash, Validate, Load, ProviderCall, FinishSuccess, FinishFailure

(* Handlers keep claims fresh: who records a failure does not start again. *)
LEMMA HandlerFresh ==
  ASSUME TypeOK, ClaimsDistinct, FreshClaims, NEW v \in Workers, Step(v) \/ Crash(v),
         NEW w \in Workers, worker'[w].step \in {"validate", "load", "start"}
  PROVE  StaysFresh(w)
<1> DEFINE m == worker[w].meeting
           s == worker[w].stage
<1>1. CASE w = v
  <2>1. worker[w].step # "idle" /\ (Validate(w) \/ Load(w))
    <3>1. worker[w].step # "idle"
      BY <1>1 DEF Step, Crash, Validate, Load, StartStage, ProviderCall, CompleteStage,
             FailStageInner, FailStageOuter, FinishSuccess, FinishFailure
    <3>2. ASSUME NEW st, NEW f, Goto(w, st, f), st \notin {"validate", "load", "start"} PROVE FALSE
      BY <3>2, GotoRow
    <3>3. ~Release(w)
      BY DEF Release, IdleWorker, TypeOK
    <3> QED
      BY <1>1, <3>1, <3>2, <3>3
      DEF Step, Crash, StartStage, ProviderCall, CompleteStage, FailStageInner, FailStageOuter,
          FailStage, FinishSuccess, FinishFailure
  <2>2. meeting' = meeting /\ job' = job
    BY <2>1 DEF Validate, Load, queue
  <2>3. ClaimWas(w)
    BY <2>1, <2>2, GotoRow DEF Validate, Load, ClaimWas
  <2> QED
    BY <2>2, <2>3, FreshKept
<1>2. CASE w # v
  <2>1. worker'[w] = worker[w] /\ worker[v].step # "idle"
    <3>1. ASSUME NEW st, NEW f, Goto(v, st, f) PROVE worker'[w] = worker[w]
      BY <1>2, <3>1, GotoRow
    <3>2. Release(v) => worker'[w] = worker[w]
      BY <1>2 DEF Release, TypeOK
    <3> QED
      BY <3>1, <3>2
      DEF Step, Crash, Validate, Load, StartStage, ProviderCall, CompleteStage,
          FailStageInner, FailStageOuter, FailStage, FinishSuccess, FinishFailure
  <2>2. m \in Meetings /\ s \in Stages /\ worker[w].step # "idle"
        /\ worker[v].meeting \in Meetings /\ worker[v].stage \in Stages
    BY <2>1 DEF TypeOK, WorkerRow
  <2>3. ClaimWas(w)
    BY <2>1, <2>2, HandlerRows DEF ClaimWas
  <2>4. ASSUME IsActiveJob(w), meeting'[m] # meeting[m]
        PROVE  meeting'[m].status # Failed(s)
    <3>1. /\ worker[v].meeting = m
          /\ \/ meeting'[m].status \in {Active(worker[v].stage), Completed(worker[v].stage)}
             \/ CanFailStage(v) /\ meeting'[m].status = Failed(worker[v].stage)
      BY <2>2, <2>4, HandlerMeetings
    <3>2. CanFailStage(v) => worker[v].stage # s
      BY <1>2, <2>1, <2>2, <2>4, <3>1, OthersStale DEF CanFailStage
    <3> QED
      BY <2>2, <3>1, <3>2, StatusesApart
  <2> QED
    BY <2>3, <2>4, FreshKept
<1> QED
  BY <1>1, <1>2

(* A new claim is of a first attempt, or of a stage that did not fail for good. *)
LEMMA ClaimFresh ==
  ASSUME TypeOK, ClaimsDistinct, FreshClaims, NEW v \in Workers, NEW r \in Stages, Claim(v, r),
         NEW w \in Workers, worker'[w].step \in {"validate", "load", "start"}
  PROVE  StaysFresh(w)
<1> DEFINE m == worker[w].meeting
           s == worker[w].stage
<1>1. PICK limit \in {0, RepairLimit} : \E R \in Repairable(r, limit) :
        \E c \in Due(r) \cup {NoMeeting} : Claim(v, r)!2!(limit)!(R)!(c)
  BY DEF Claim
<1>2. PICK R \in Repairable(r, limit), c \in Due(r) \cup {NoMeeting} :
        Claim(v, r)!2!(limit)!(R)!(c)
  BY <1>1
<1>3. Claim(v, r)!2!(limit)!(R)!(c) /\ worker[v].step = "idle"
  BY <1>2 DEF Claim
<1>4. R \subseteq Exhausted(r) /\ (c \in Meetings => c \in Due(r) /\ c \notin R)
  <2>1. R \subseteq Exhausted(r) /\ (c \in Meetings => c \in Due(r))
    BY SentinelAssumption DEF Repairable, Exhausted
  <2>2. \A n \in Due(r) : n \notin Exhausted(r)
    BY RowTypes, MaxAttemptsAssumption DEF Due, Exhausted, JobRow
  <2> QED
    BY <2>1, <2>2
<1>5. CASE worker'[w] = worker[w]
  <2>1. m \in Meetings /\ s \in Stages /\ w # v /\ worker[w].token \in Nat
        /\ worker[w].token <= tokens[m][s] /\ tokens[m][s] \in Nat
    BY <1>3, <1>5 DEF TypeOK, WorkerRow, ClaimsDistinct
  <2>2. meeting'[m] = IF m \in R THEN RepairedMeeting(m, r) ELSE meeting[m]
    BY <1>3, <2>1
  <2>3. meeting'[m] = meeting[m] \/ meeting'[m].failure # "permanent"
    BY <2>2 DEF RepairedMeeting, Transitioned
  <2>4. job'[m][s] = IF s = r /\ m \in R THEN Released(job[m][r], Verdict(m, r))
                     ELSE IF s = r /\ m = c THEN ClaimedJob(v, m, r) ELSE job[m][s]
    BY <1>3, <2>1
  <2>5. \/ job'[m][s] = job[m][s] \/ job'[m][s].status # "running"
        \/ job'[m][s].token = tokens[m][s] + 1
    <3>1. Released(job[m][r], Verdict(m, r)).status # "running"
      BY DEF Released, Verdict
    <3>2. \/ ClaimedJob(v, m, r).token = tokens[m][r] + 1
          \/ ClaimedJob(v, m, r).status # "running"
      BY <3>1 DEF ClaimedJob
    <3> QED
      BY <2>4, <3>1, <3>2
  <2>6. CASE job'[m][s].token = tokens[m][s] + 1
    <3>1. ~IsActiveJob(w)'
      BY <1>5, <2>1, <2>6 DEF IsActiveJob
    <3> QED
      BY <3>1 DEF StaysFresh
  <2>7. CASE job'[m][s] = job[m][s] \/ job'[m][s].status # "running"
    <3>1. ClaimWas(w)
      BY <1>5, <2>7 DEF ClaimWas
    <3> QED
      BY <2>3, <3>1, FreshKept
  <2> QED
    BY <2>5, <2>6, <2>7
<1>6. CASE worker'[w] # worker[w]
  <2>1. /\ c \in Meetings /\ AttemptRuns(c, r) /\ w = v
        /\ worker'[w] = [step |-> "validate", meeting |-> c, stage |-> r,
                         token |-> tokens[c][r] + 1, attempt |-> job[c][r].attempts + 1,
                         failure |-> "none"]
    BY <1>3, <1>6 DEF TypeOK, Due
  <2>2. worker'[w].meeting = c /\ worker'[w].stage = r
        /\ worker'[w].attempt = job[c][r].attempts + 1
    BY <2>1
  <2>3. meeting'[c] = meeting[c] /\ job[c][r].attempts \in Nat
    BY <1>3, <1>4, <2>1, RowTypes DEF JobRow
  <2>4. meeting[c].status = Failed(r) /\ meeting[c].failure = "permanent" => job[c][r].attempts = 0
    BY <2>1 DEF AttemptRuns, ReclaimFailure
  <2> QED
    BY <2>2, <2>3, <2>4 DEF StaysFresh
<1> QED
  BY <1>5, <1>6

(* Every step keeps claims fresh. *)
LEMMA StepFresh ==
  ASSUME TypeOK, ClaimsDistinct, FreshClaims, [Next]_vars
  PROVE  FreshClaims'
<1> SUFFICES ASSUME NEW w \in Workers, worker'[w].step \in {"validate", "load", "start"}
             PROVE  StaysFresh(w)
  BY DEF FreshClaims, StaysFresh
<1> DEFINE m == worker[w].meeting
           s == worker[w].stage
<1>1. ASSUME worker' = worker,
             \A n \in Meetings : \/ meeting'[n].status = meeting[n].status
                                    /\ meeting'[n].failure = meeting[n].failure
                                 \/ meeting'[n].status = "cancelled",
             \A n \in Meetings, t \in Stages : \/ job'[n][t] = job[n][t]
                                               \/ job'[n][t].status # "running"
                                               \/ ~job'[n][t].live
      PROVE  StaysFresh(w)
  <2>1. m \in Meetings /\ s \in Stages
    BY <1>1 DEF TypeOK, WorkerRow
  <2>2. ClaimWas(w)
    BY <1>1, <2>1 DEF ClaimWas
  <2> QED
    BY <1>1, <2>1, <2>2, FreshKept, StatusesApart
<1>2. CASE UNCHANGED vars
  BY <1>1, <1>2 DEF vars
<1>3. ASSUME NEW n \in Meetings, NEW t \in Stages, LeaseExpires(n, t) \/ RetryDue(n, t)
      PROVE  StaysFresh(w)
  <2>1. /\ UNCHANGED <<worker, meeting>>
        /\ \A i \in Meetings, u \in Stages : i # n \/ u # t => job'[i][u] = job[i][u]
    BY <1>3 DEF LeaseExpires, RetryDue, TypeOK
  <2>2. job'[n][t].status # "running" \/ ~job'[n][t].live
    <3>1. job[n][t] \in JobRow
      BY RowTypes
    <3>2. CASE LeaseExpires(n, t)
      <4>1. job'[n][t] = [job[n][t] EXCEPT !.live = FALSE]
        BY <3>2 DEF LeaseExpires, TypeOK
      <4> QED
        BY <3>1, <4>1 DEF JobRow
    <3>3. CASE RetryDue(n, t)
      <4>1. job'[n][t] = [job[n][t] EXCEPT !.due = TRUE] /\ job[n][t].status = "retry_wait"
        BY <3>3 DEF RetryDue, TypeOK
      <4> QED
        BY <3>1, <4>1 DEF JobRow
    <3> QED
      BY <1>3, <3>2, <3>3
  <2> QED
    BY <1>1, <2>1, <2>2
<1>4. ASSUME NEW n \in Meetings, NEW k \in Keys, Retry(n, k) \/ Cancel(n, k)
      PROVE  StaysFresh(w)
  <2>1. CASE Retry(n, k)
    <3>1. PICK t \in Stages : /\ job' = [job EXCEPT ![n][t] = NewJob] /\ worker' = worker
                              /\ meeting' = [meeting EXCEPT ![n].version = @ + 1]
      BY <2>1 DEF Retry
    <3>2. meeting'[n] = [meeting[n] EXCEPT !.version = @ + 1] /\ meeting[n] \in MeetingRow
      BY <3>1 DEF TypeOK
    <3>3. meeting'[n].status = meeting[n].status /\ meeting'[n].failure = meeting[n].failure
      BY <3>2 DEF MeetingRow
    <3>4. \A i \in Meetings : i # n => meeting'[i] = meeting[i]
      BY <3>1 DEF TypeOK
    <3>5. \A i \in Meetings, u \in Stages : job'[i][u] = job[i][u] \/ job'[i][u].status # "running"
      BY <3>1 DEF NewJob, TypeOK
    <3> QED
      BY <1>1, <3>1, <3>3, <3>4, <3>5
  <2>2. CASE Cancel(n, k)
    BY <1>1, <2>2 DEF Cancel, Transitioned, Released, TypeOK
  <2> QED
    BY <1>4, <2>1, <2>2
<1> QED
  BY <1>2, <1>3, <1>4, HandlerFresh, ClaimFresh DEF Next

(* Only the first attempt after an operator's retry starts a stage that failed *)
(* for good: PermanentNeedsOperator.                                           *)
THEOREM PermanentStays == Spec => PermanentNeedsOperator
<1>1. Init => FreshClaims /\ ClaimsDistinct
  BY DEF Init, FreshClaims, ClaimsDistinct, NewJob, NoJob, Released, IdleWorker
<1>2. TypeOK /\ FreshClaims /\ [Next]_vars => OperatorFirst
  <2> SUFFICES ASSUME TypeOK, FreshClaims, [Next]_vars,
                      NEW m \in Meetings, NEW s \in Stages,
                      meeting[m].status = Failed(s), meeting[m].failure = "permanent",
                      meeting'[m].status = Active(s)
               PROVE  job[m][s].attempts = 1
    BY DEF OperatorFirst
  <2>1. meeting'[m].status # meeting[m].status
    BY StatusesApart
  <2>2. ASSUME NEW w \in Workers, Step(w) \/ Crash(w) PROVE job[m][s].attempts = 1
    <3>1. worker[w].meeting = m /\ worker[w].stage \in Stages
      BY <2>1, <2>2, HandlerMeetings DEF TypeOK, WorkerRow
    <3>2. CanStart(w) /\ worker[w].step = "start" /\ worker[w].stage = s
      BY <2>1, <2>2, <3>1, HandlerMeetings, StatusesApart DEF Active, Completed, Failed, Stages
    <3> QED
      BY <3>1, <3>2 DEF CanStart, FreshClaims, IsActiveJob
  <2>3. ASSUME NEW w \in Workers, NEW t \in Stages, Claim(w, t) PROVE FALSE
    <3>1. meeting'[m] \in {meeting[m], RepairedMeeting(m, t)}
      BY <2>3 DEF Claim
    <3>2. \A u \in Stages : Failed(u) # Active(s)
      BY StatusesApart
    <3> QED
      BY <2>1, <2>3, <3>1, <3>2 DEF RepairedMeeting, Transitioned
  <2>4. ASSUME NEW n \in Meetings, NEW k \in Keys, Retry(n, k) \/ Cancel(n, k) PROVE FALSE
    <3>1. CASE Cancel(n, k)
      BY <2>1, <3>1 DEF Cancel, Transitioned, TypeOK, Active, Stages
    <3>2. CASE Retry(n, k)
      <4>1. meeting' = [meeting EXCEPT ![n].version = @ + 1] /\ meeting[m] \in MeetingRow
        BY <3>2 DEF Retry, TypeOK
      <4>2. meeting'[m] \in {meeting[m], [meeting[m] EXCEPT !.version = @ + 1]}
        BY <4>1 DEF TypeOK
      <4> QED
        BY <2>1, <4>1, <4>2 DEF MeetingRow
    <3> QED
      BY <2>4, <3>1, <3>2
  <2> QED
    BY <2>1, <2>2, <2>3, <2>4 DEF Next, vars, LeaseExpires, RetryDue
<1> QED
  BY <1>1, <1>2, TypeCorrect, StepDistinct, StepFresh, PTL
  DEF Spec, PermanentNeedsOperator, OperatorFirst

-----------------------------------------------------------------------------
(* Visible failures.                                                       *)

\* The statuses a meeting has until it is approved.
InScope ==
  \A m \in Meetings : \/ meeting[m].status \in {"cancelled", "awaiting_approval"}
                      \/ \E s \in Stages : meeting[m].status \in {Pending(s), Active(s), Failed(s)}

\* What a worker whose lease is live knows of its meeting, by where it is: nobody else
\* stores the artifact, a stage it started is active until it fails it, and when it
\* is about to report a failure the meeting has failed.
Tracks(w) ==
  LET m == worker[w].meeting  s == worker[w].stage IN
    /\ job[m][s].attempts = worker[w].attempt
    /\ worker[w].step # "finish_ok" => ~HasArtifact(m, s)
    /\ worker[w].step \in {"call", "complete", "fail_inner"} => meeting[m].status = Active(s)
    /\ worker[w].step \in {"fail_outer", "finish_fail"} => meeting[m].status = Failed(s)

OnTrack == \A w \in Workers : worker[w].step # "idle" /\ OwnsLiveLease(w) => Tracks(w)

(* While a job without an artifact runs, its meeting is in that stage. *)
LEMMA RunsInStage ==
  ASSUME TypeOK, AllFit, InScope, NEW m \in Meetings, NEW s \in Stages,
         job[m][s].status = "running", ~HasArtifact(m, s)
  PROVE  meeting[m].status \in {Pending(s), Active(s), Failed(s)}
<1>1. /\ StageFits(meeting[m].status, artifact[m][s], job[m][s], audit[m][s])
      /\ StoryFits(meeting[m].status, artifact[m], job[m]["extraction"].status # "absent")
  BY DEF AllFit, MeetingFits
<1>2. meeting[m].status # "cancelled"
  BY <1>1 DEF StageFits
<1>3. CASE s = "transcription"
  <2>1. artifact[m]["transcription"] = 0
    BY <1>3 DEF HasArtifact
  <2>2. meeting[m].status \notin {"awaiting_approval", "transcribed", "extracting", "extraction_failed"}
    BY <1>1, <2>1 DEF StoryFits
  <2> QED
    BY <1>2, <1>3, <2>2 DEF InScope, Stages, Pending, Active, Failed
<1>4. CASE s = "extraction"
  <2>1. artifact[m]["extraction"] = 0 /\ artifact[m]["transcription"] # 0
    BY <1>1, <1>4 DEF HasArtifact, StoryFits
  <2>2. meeting[m].status
          \notin {"awaiting_approval", "ingested", "transcribing", "transcription_failed"}
    BY <1>1, <2>1 DEF StoryFits
  <2> QED
    BY <1>2, <1>4, <2>2 DEF InScope, Stages, Pending, Active, Failed
<1> QED
  BY <1>3, <1>4 DEF Stages

(* A handler moves a meeting only with a live claim, within its own stage. *)
LEMMA HandlerMoves ==
  ASSUME TypeOK, NEW v \in Workers, Step(v) \/ Crash(v), NEW m \in Meetings,
         meeting'[m].status # meeting[m].status
  PROVE  LET t == worker[v].stage IN
           /\ worker[v].meeting = m /\ t \in Stages /\ worker[v].step # "idle" /\ IsActiveJob(v)
           /\ meeting[m].status \in {Pending(t), Active(t), Failed(t), "awaiting_approval"}
           /\ meeting'[m].status \in {Active(t), Failed(t), Completed(t)}
<1> DEFINE t == worker[v].stage
<1>1. t \in Stages /\ worker[v].step # "idle"
  BY DEF TypeOK, WorkerRow, Step, Crash, Validate, Load, StartStage, ProviderCall, CompleteStage,
         FailStageInner, FailStageOuter, FinishSuccess, FinishFailure
<1>2. /\ worker[v].meeting = m
      /\ \/ CanStart(v) /\ meeting'[m].status = Active(t)
         \/ CanFailStage(v) /\ meeting'[m].status = Failed(t)
         \/ CanComplete(v) /\ meeting'[m].status = Completed(t)
  BY HandlerMeetings
<1>3. /\ CanTransitionMeeting(meeting[m].status, Active(t)) => meeting[m].status \in {Pending(t), Failed(t)}
      /\ CanTransitionMeeting(meeting[m].status, Completed(t))
           => meeting[m].status \in {Active(t), "awaiting_approval"}
  BY <1>1 DEF CanTransitionMeeting, Stages, Pending, Active, Failed, Completed
<1> QED
  BY <1>1, <1>2, <1>3 DEF CanStart, CanFailStage, CanComplete

(* An artifact is stored only by a worker with a live claim on its stage. *)
LEMMA HandlerStores ==
  ASSUME TypeOK, NEW v \in Workers, Step(v) \/ Crash(v), NEW m \in Meetings, NEW s \in Stages,
         artifact'[m][s] # artifact[m][s]
  PROVE  worker[v].meeting = m /\ worker[v].stage = s /\ worker[v].step # "idle" /\ IsActiveJob(v)
<1>1. CompleteStage(v) /\ CanComplete(v) /\ StoreArtifact(v)
  BY DEF Step, Crash, Validate, Load, StartStage, ProviderCall, CompleteStage, FailStageInner,
         FailStageOuter, FailStage, FinishSuccess, FinishFailure
<1>2. worker[v].meeting \in Meetings /\ worker[v].stage \in Stages /\ worker[v].step # "idle"
  BY <1>1 DEF TypeOK, WorkerRow, CompleteStage
<1> QED
  BY <1>1, <1>2 DEF StoreArtifact, CanComplete, TypeOK

(* The steps of a worker keep it on track, when no unit of work raises. *)
LEMMA OwnStepTracks ==
  ASSUME ~StoreFaults, TypeOK, AllFit, InScope, OnTrack, NEW w \in Workers, Step(w) \/ Crash(w),
         worker'[w].step # "idle", OwnsLiveLease(w)'
  PROVE  Tracks(w)'
<1> DEFINE m == worker[w].meeting
           s == worker[w].stage
<1>1. /\ worker[w].step # "idle" /\ m \in Meetings /\ s \in Stages
      /\ worker'[w].meeting = m /\ worker'[w].stage = s /\ worker'[w].token = worker[w].token
      /\ worker'[w].attempt = worker[w].attempt
  BY HandlerKeeps DEF ClaimsKept, TypeOK, WorkerRow
<1>2. job'[m][s] = job[m][s]
  BY <1>1, HandlerRows DEF OwnsLiveLease
<1>3. OwnsLiveLease(w) /\ Tracks(w) /\ IsActiveJob(w)
  <2>1. OwnsLiveLease(w)
    BY <1>1, <1>2 DEF OwnsLiveLease
  <2> QED
    BY <1>1, <2>1 DEF OnTrack, Tracks, OwnsLiveLease, IsActiveJob
<1>4. job'[m][s].attempts = worker'[w].attempt
  BY <1>1, <1>2, <1>3 DEF Tracks
<1>5. ~HasArtifact(m, s) => meeting[m].status \in {Pending(s), Active(s), Failed(s)}
  BY <1>1, <1>3, RunsInStage DEF OwnsLiveLease
<1>6. ASSUME NEW st, NEW f, Goto(w, st, f) PROVE worker'[w].step = st
  BY <1>6, GotoRow
<1>7. CASE Validate(w) \/ Load(w) \/ ProviderCall(w)
  <2>1. meeting' = meeting /\ artifact' = artifact
    BY <1>7 DEF Validate, Load, ProviderCall
  <2>2. /\ worker'[w].step \notin {"fail_outer", "finish_fail"}
        /\ HasArtifact(m, s) => worker'[w].step = "finish_ok"
        /\ worker'[w].step \in {"call", "complete", "fail_inner"} => worker[w].step = "call"
    BY <1>3, <1>5, <1>6, <1>7 DEF Validate, Load, ProviderCall, Tracks
  <2> QED
    BY <1>1, <1>3, <1>4, <2>1, <2>2 DEF Tracks, HasArtifact
<1>8. CASE StartStage(w)
  <2>1. ~HasArtifact(m, s) /\ artifact' = artifact
    BY <1>3, <1>8 DEF StartStage, Tracks
  <2>2. CanStart(w)
    BY <1>1, <1>3, <1>5, <2>1
    DEF CanStart, CanTransitionMeeting, Stages, Pending, Active, Failed
  <2>3. meeting' = Started(w) /\ worker'[w].step = "call"
    BY <1>6, <1>8, <2>2 DEF StartStage
  <2>4. meeting'[m].status = Active(s)
    BY <1>1, <2>3 DEF Started, Transitioned, TypeOK
  <2> QED
    BY <1>1, <1>4, <2>1, <2>3, <2>4 DEF Tracks, HasArtifact
<1>9. CASE CompleteStage(w)
  <2>1. CanComplete(w)
    BY <1>1, <1>3, <1>9
    DEF CompleteStage, Tracks, CanComplete, CanTransitionMeeting, Stages, Active, Completed
  <2>2. worker'[w].step = "finish_ok"
    BY <1>6, <1>9, <2>1 DEF CompleteStage
  <2> QED
    BY <1>1, <1>4, <2>2 DEF Tracks
<1>10. CASE FailStageInner(w) \/ FailStageOuter(w)
  <2>1. ~HasArtifact(m, s) /\ artifact' = artifact
    BY <1>3, <1>10 DEF FailStageInner, FailStageOuter, FailStage, Tracks
  <2>2. CanFailStage(w)
    BY <1>3, <1>5, <2>1 DEF CanFailStage
  <2>3. meeting' = StageFailed(w) /\ worker'[w].step \in {"fail_outer", "finish_fail"}
    BY <1>6, <1>10, <2>2 DEF FailStageInner, FailStageOuter, FailStage
  <2>4. meeting[m].status \in {Active(s), Failed(s)}
    BY <1>3, <1>10 DEF FailStageInner, FailStageOuter, Tracks
  <2>5. meeting'[m].status = Failed(s)
    BY <1>1, <2>3, <2>4 DEF StageFailed, Transitioned, TypeOK
  <2> QED
    BY <1>1, <1>4, <2>1, <2>3, <2>5 DEF Tracks, HasArtifact
<1>11. CASE FinishSuccess(w) \/ FinishFailure(w) \/ Crash(w)
  BY <1>11 DEF FinishSuccess, FinishFailure, Crash, Release, IdleWorker, TypeOK
<1> QED
  BY <1>7, <1>8, <1>9, <1>10, <1>11 DEF Step

(* A worker that took no step stays on track while its claim and its meeting are left *)
(* alone.                                                                             *)
LEMMA TracksKept ==
  ASSUME OnTrack, NEW w \in Workers, worker'[w] = worker[w], worker[w].step # "idle",
         OwnsLiveLease(w)',
         LET m == worker[w].meeting  s == worker[w].stage IN
           /\ job'[m][s] = job[m][s]
           /\ OwnsLiveLease(w) /\ Tracks(w) =>
                /\ artifact'[m][s] = artifact[m][s]
                /\ meeting[m].status \in {Active(s), Failed(s)} =>
                     meeting'[m].status = meeting[m].status
  PROVE  Tracks(w)'
<1>1. OwnsLiveLease(w) /\ Tracks(w)
  BY DEF OwnsLiveLease, OnTrack
<1> QED
  BY <1>1 DEF Tracks, HasArtifact

(* What other workers do leaves it on track. *)
LEMMA OtherStepTracks ==
  ASSUME TypeOK, ClaimsDistinct, OnTrack, NEW v \in Workers, Step(v) \/ Crash(v),
         NEW w \in Workers, w # v, worker'[w].step # "idle", OwnsLiveLease(w)'
  PROVE  Tracks(w)'
<1> DEFINE m == worker[w].meeting
           s == worker[w].stage
<1>1. worker'[w] = worker[w]
  <2>1. ASSUME NEW st, NEW f, Goto(v, st, f) PROVE worker'[w] = worker[w]
    BY <2>1, GotoRow
  <2>2. Release(v) => worker'[w] = worker[w]
    BY DEF Release, TypeOK
  <2> QED
    BY <2>1, <2>2
    DEF Step, Crash, Validate, Load, StartStage, ProviderCall, CompleteStage,
        FailStageInner, FailStageOuter, FailStage, FinishSuccess, FinishFailure
<1>2. m \in Meetings /\ s \in Stages /\ worker[w].step # "idle"
  BY <1>1 DEF TypeOK, WorkerRow
<1>3. job'[m][s] = job[m][s]
  BY <1>1, <1>2, HandlerRows DEF OwnsLiveLease
<1>4. ASSUME OwnsLiveLease(w), Tracks(w)
      PROVE  /\ artifact'[m][s] = artifact[m][s]
             /\ meeting[m].status \in {Active(s), Failed(s)} =>
                  meeting'[m].status = meeting[m].status
  <2>1. IsActiveJob(w)
    BY <1>4 DEF OwnsLiveLease, Tracks, IsActiveJob
  <2>2. ~(worker[v].meeting = m /\ worker[v].stage = s /\ worker[v].step # "idle" /\ IsActiveJob(v))
    BY <1>2, <2>1, OthersStale
  <2>3. artifact'[m][s] = artifact[m][s]
    BY <1>2, <2>2, HandlerStores
  <2>4. ASSUME meeting[m].status \in {Active(s), Failed(s)}, meeting'[m].status # meeting[m].status
        PROVE  FALSE
    <3>1. /\ worker[v].stage \in Stages /\ worker[v].stage # s
          /\ meeting[m].status \in {Pending(worker[v].stage), Active(worker[v].stage),
                                    Failed(worker[v].stage), "awaiting_approval"}
      BY <1>2, <2>2, <2>4, HandlerMoves
    <3> QED
      BY <1>2, <2>4, <3>1 DEF Stages, Pending, Active, Failed
  <2> QED
    BY <2>3, <2>4
<1> QED
  BY <1>1, <1>2, <1>3, <1>4, TracksKept

(* What a claim does to the rows of a meeting: R are repaired, c is claimed. *)
LEMMA ClaimRows ==
  ASSUME TypeOK, NEW v \in Workers, NEW r \in Stages, Claim(v, r)
  PROVE  /\ worker[v].step = "idle" /\ artifact' = artifact
         /\ \E R \in SUBSET Exhausted(r), c \in Due(r) \cup {NoMeeting} :
              /\ \A m \in Meetings : meeting'[m] = IF m \in R THEN RepairedMeeting(m, r) ELSE meeting[m]
              /\ \A m \in Meetings, t \in Stages :
                   job'[m][t] = IF t = r /\ m \in R THEN Released(job[m][r], Verdict(m, r))
                                ELSE IF t = r /\ m = c THEN ClaimedJob(v, m, r) ELSE job[m][t]
              /\ IF c \in Meetings /\ AttemptRuns(c, r)
                 THEN worker' = [worker EXCEPT ![v] =
                                   [step |-> "validate", meeting |-> c, stage |-> r,
                                    token |-> tokens[c][r] + 1, attempt |-> job[c][r].attempts + 1,
                                    failure |-> "none"]]
                 ELSE worker' = worker
              /\ c \in Meetings => c \in Due(r) /\ c \notin R
<1>1. PICK limit \in {0, RepairLimit} : \E R \in Repairable(r, limit) :
        \E c \in Due(r) \cup {NoMeeting} : Claim(v, r)!2!(limit)!(R)!(c)
  BY DEF Claim
<1>2. PICK R \in Repairable(r, limit), c \in Due(r) \cup {NoMeeting} :
        Claim(v, r)!2!(limit)!(R)!(c)
  BY <1>1
<1>3. Claim(v, r)!2!(limit)!(R)!(c) /\ worker[v].step = "idle" /\ artifact' = artifact
  BY <1>2 DEF Claim
<1>4. R \in SUBSET Exhausted(r) /\ (c \in Meetings <=> c # NoMeeting)
  BY SentinelAssumption DEF Repairable, Due
<1>5. c \in Meetings => c \in Due(r) /\ c \notin R
  <2>1. \A n \in Due(r) : n \notin Exhausted(r)
    BY RowTypes, MaxAttemptsAssumption DEF Due, Exhausted, JobRow
  <2> QED
    BY <1>4, <2>1
<1>6. /\ \A m \in Meetings : meeting'[m] = IF m \in R THEN RepairedMeeting(m, r) ELSE meeting[m]
      /\ \A m \in Meetings, t \in Stages :
           job'[m][t] = IF t = r /\ m \in R THEN Released(job[m][r], Verdict(m, r))
                        ELSE IF t = r /\ m = c THEN ClaimedJob(v, m, r) ELSE job[m][t]
  BY <1>3
<1>7. IF c \in Meetings /\ AttemptRuns(c, r)
      THEN worker' = [worker EXCEPT ![v] =
                        [step |-> "validate", meeting |-> c, stage |-> r,
                         token |-> tokens[c][r] + 1, attempt |-> job[c][r].attempts + 1,
                         failure |-> "none"]]
      ELSE worker' = worker
  BY <1>3, <1>4
<1> QED
  BY <1>3, <1>4, <1>5, <1>6, <1>7

(* A claim puts its worker on track, and leaves the others there. *)
LEMMA ClaimTracks ==
  ASSUME TypeOK, AllFit, ClaimsDistinct, OnTrack, NEW v \in Workers, NEW r \in Stages, Claim(v, r),
         NEW w \in Workers, worker'[w].step # "idle", OwnsLiveLease(w)'
  PROVE  Tracks(w)'
<1>1. PICK R \in SUBSET Exhausted(r), c \in Due(r) \cup {NoMeeting} :
        /\ \A m \in Meetings : meeting'[m] = IF m \in R THEN RepairedMeeting(m, r) ELSE meeting[m]
        /\ \A m \in Meetings, t \in Stages :
             job'[m][t] = IF t = r /\ m \in R THEN Released(job[m][r], Verdict(m, r))
                          ELSE IF t = r /\ m = c THEN ClaimedJob(v, m, r) ELSE job[m][t]
        /\ IF c \in Meetings /\ AttemptRuns(c, r)
           THEN worker' = [worker EXCEPT ![v] =
                             [step |-> "validate", meeting |-> c, stage |-> r,
                              token |-> tokens[c][r] + 1, attempt |-> job[c][r].attempts + 1,
                              failure |-> "none"]]
           ELSE worker' = worker
        /\ c \in Meetings => c \in Due(r) /\ c \notin R
  BY ClaimRows
<1>2. worker[v].step = "idle" /\ artifact' = artifact
  BY ClaimRows
<1>3. CASE worker'[w] = worker[w]
  <2> DEFINE m == worker[w].meeting
             s == worker[w].stage
  <2>1. /\ m \in Meetings /\ s \in Stages /\ worker[w].token \in Nat
        /\ worker[w].token <= tokens[m][s] /\ tokens[m][s] \in Nat
    BY <1>3 DEF TypeOK, WorkerRow, ClaimsDistinct
  <2>2. job'[m][s] = job[m][s]
    <3>1. job'[m][s].status = "running" /\ job'[m][s].token = worker[w].token
      BY <1>3 DEF OwnsLiveLease
    <3>2. Released(job[m][r], Verdict(m, r)).status # "running"
      BY DEF Released, Verdict
    <3>3. \/ ClaimedJob(v, m, r).token = tokens[m][r] + 1
          \/ ClaimedJob(v, m, r).status # "running"
      BY <3>2 DEF ClaimedJob
    <3> QED
      BY <1>1, <2>1, <3>1, <3>2, <3>3
  <2>3. meeting[m].status \in {Active(s), Failed(s)} /\ OwnsLiveLease(w) =>
          meeting'[m].status = meeting[m].status
    <3>1. CASE m \in R
      <4>1. meeting'[m] = RepairedMeeting(m, r) /\ job[m][r].status = "running" /\ ~job[m][r].live
        BY <1>1, <2>1, <3>1 DEF Exhausted
      <4>2. OwnsLiveLease(w) => s # r
        BY <4>1 DEF OwnsLiveLease
      <4> QED
        BY <2>1, <4>1, <4>2 DEF RepairedMeeting, Stages, Pending, Active, Failed
    <3> QED
      BY <1>1, <2>1, <3>1
  <2> QED
    BY <1>2, <1>3, <2>2, <2>3, TracksKept
<1>4. CASE worker'[w] # worker[w]
  <2>1. /\ c \in Meetings /\ AttemptRuns(c, r) /\ w = v
        /\ worker'[w] = [step |-> "validate", meeting |-> c, stage |-> r,
                         token |-> tokens[c][r] + 1, attempt |-> job[c][r].attempts + 1,
                         failure |-> "none"]
    BY <1>1, <1>4 DEF TypeOK
  <2>2. worker'[w].meeting = c /\ worker'[w].stage = r /\ worker'[w].step = "validate"
        /\ worker'[w].attempt = job[c][r].attempts + 1
    BY <2>1
  <2>3. job'[c][r].attempts = job[c][r].attempts + 1
    <3>1. job'[c][r] = ClaimedJob(v, c, r)
      BY <1>1, <2>1
    <3> QED
      BY <2>1, <3>1 DEF ClaimedJob
  <2>4. artifact[c][r] = 0
    <3>1. StageFits(meeting[c].status, artifact[c][r], job[c][r], audit[c][r])
      BY <2>1 DEF AllFit, MeetingFits
    <3>2. CASE job[c][r].attempts = 0
      <4>1. artifact[c][r] \in Nat
        BY <2>1, RowTypes
      <4> QED
        BY <3>1, <3>2 DEF StageFits
    <3>3. CASE Verdict(c, r) = "failed"
      BY <3>3 DEF Verdict, HasArtifact
    <3> QED
      BY <2>1, <3>2, <3>3 DEF AttemptRuns
  <2> QED
    BY <1>2, <2>2, <2>3, <2>4 DEF Tracks, HasArtifact
<1> QED
  BY <1>3, <1>4

(* What time and the operator's commands do to the rows of a meeting. *)
LEMMA OtherRows ==
  ASSUME TypeOK,
         \/ \E n \in Meetings, t \in Stages : LeaseExpires(n, t) \/ RetryDue(n, t)
         \/ \E n \in Meetings, k \in Keys : Retry(n, k) \/ Cancel(n, k),
         NEW m \in Meetings, NEW s \in Stages
  PROVE  /\ UNCHANGED <<worker, artifact>>
         /\ \/ job'[m][s] = job[m][s]
            \/ job'[m][s].status = job[m][s].status /\ ~job'[m][s].live
            \/ job'[m][s].status \in {"ready", "cancelled"}
         /\ \/ meeting'[m].status = meeting[m].status
            \/ meeting'[m].status = "cancelled" /\ \A t \in Stages : job[m][t].status # "running"
<1>1. ASSUME NEW n \in Meetings, NEW t \in Stages, LeaseExpires(n, t) \/ RetryDue(n, t)
      PROVE  /\ UNCHANGED <<worker, artifact, meeting>>
             /\ \/ job'[m][s] = job[m][s]
                \/ job'[m][s].status = job[m][s].status /\ ~job'[m][s].live
  <2>1. UNCHANGED <<worker, artifact, meeting>>
    BY <1>1 DEF LeaseExpires, RetryDue
  <2>2. job[n][t] \in JobRow /\ JobFits(job[n][t], t)
    BY RowTypes, JobsFit
  <2>3. CASE LeaseExpires(n, t)
    <3>1. job'[m][s] = job[m][s] \/ (m = n /\ s = t /\ job'[m][s] = [job[n][t] EXCEPT !.live = FALSE])
      BY <2>3 DEF LeaseExpires, TypeOK
    <3> QED
      BY <2>1, <2>2, <3>1 DEF JobRow
  <2>4. CASE RetryDue(n, t)
    <3>1. job'[m][s] = job[m][s] \/ (m = n /\ s = t /\ job'[m][s] = [job[n][t] EXCEPT !.due = TRUE])
      BY <2>4 DEF RetryDue, TypeOK
    <3>2. ~job[n][t].live
      BY <2>2, <2>4 DEF RetryDue, JobFits
    <3> QED
      BY <2>1, <2>2, <3>1, <3>2 DEF JobRow
  <2> QED
    BY <1>1, <2>3, <2>4
<1>2. ASSUME NEW n \in Meetings, NEW k \in Keys, Retry(n, k)
      PROVE  /\ UNCHANGED <<worker, artifact>> /\ meeting'[m].status = meeting[m].status
             /\ job'[m][s] = job[m][s] \/ job'[m][s].status = "ready"
  <2>1. PICK t \in Stages : /\ job' = [job EXCEPT ![n][t] = NewJob] /\ UNCHANGED <<worker, artifact>>
                            /\ meeting' = [meeting EXCEPT ![n].version = @ + 1]
    BY <1>2 DEF Retry
  <2>2. meeting'[m] \in {meeting[m], [meeting[m] EXCEPT !.version = @ + 1]} /\ meeting[m] \in MeetingRow
    BY <2>1 DEF TypeOK
  <2>3. job'[m][s] \in {job[m][s], NewJob}
    BY <2>1 DEF TypeOK
  <2> QED
    BY <2>1, <2>2, <2>3 DEF MeetingRow, NewJob
<1>3. ASSUME NEW n \in Meetings, NEW k \in Keys, Cancel(n, k)
      PROVE  /\ UNCHANGED <<worker, artifact>>
             /\ \/ meeting'[m].status = meeting[m].status
                \/ meeting'[m].status = "cancelled" /\ \A t \in Stages : job[m][t].status # "running"
             /\ job'[m][s] = job[m][s] \/ job'[m][s].status = "cancelled"
  BY <1>3 DEF Cancel, Transitioned, Released, TypeOK
<1>4. CASE \E n \in Meetings, t \in Stages : LeaseExpires(n, t) \/ RetryDue(n, t)
  BY <1>1, <1>4
<1>5. CASE \E n \in Meetings, k \in Keys : Retry(n, k) \/ Cancel(n, k)
  BY <1>2, <1>3, <1>5
<1> QED
  BY <1>4, <1>5

(* Every step keeps the workers on track. *)
LEMMA StepTracks ==
  ASSUME ~StoreFaults, TypeOK, AllFit, ClaimsDistinct, InScope, OnTrack, [Next]_vars
  PROVE  OnTrack'
<1> SUFFICES ASSUME NEW w \in Workers, worker'[w].step # "idle", OwnsLiveLease(w)'
             PROVE  Tracks(w)'
  BY DEF OnTrack
<1>1. CASE UNCHANGED vars
  BY <1>1 DEF vars, OnTrack, OwnsLiveLease, Tracks, HasArtifact
<1>2. CASE \/ \E n \in Meetings, t \in Stages : LeaseExpires(n, t) \/ RetryDue(n, t)
           \/ \E n \in Meetings, k \in Keys : Retry(n, k) \/ Cancel(n, k)
  <2> DEFINE m == worker[w].meeting
             s == worker[w].stage
  <2>1. worker' = worker /\ artifact' = artifact
    BY <1>2 DEF LeaseExpires, RetryDue, Retry, Cancel
  <2>2. m \in Meetings /\ s \in Stages
    BY <2>1 DEF TypeOK, WorkerRow
  <2>3. job'[m][s] = job[m][s]
    BY <1>2, <2>1, <2>2, OtherRows DEF OwnsLiveLease
  <2>4. meeting'[m].status = meeting[m].status
    BY <1>2, <2>1, <2>2, <2>3, OtherRows DEF OwnsLiveLease
  <2> QED
    BY <2>1, <2>3, <2>4, TracksKept
<1>3. ASSUME NEW v \in Workers, Step(v) \/ Crash(v) PROVE Tracks(w)'
  BY <1>3, OwnStepTracks, OtherStepTracks
<1> QED
  BY <1>1, <1>2, <1>3, ClaimTracks DEF Next

(* No step here takes a meeting past its approval. *)
LEMMA StepInScope ==
  ASSUME TypeOK, InScope, [Next]_vars
  PROVE  InScope'
<1> SUFFICES ASSUME NEW m \in Meetings, meeting'[m].status # meeting[m].status
             PROVE  \/ meeting'[m].status \in {"cancelled", "awaiting_approval"}
                    \/ \E s \in Stages : meeting'[m].status \in {Pending(s), Active(s), Failed(s)}
  BY DEF InScope
<1>1. ASSUME NEW v \in Workers, Step(v) \/ Crash(v)
      PROVE  \/ meeting'[m].status = "awaiting_approval"
             \/ \E s \in Stages : meeting'[m].status \in {Pending(s), Active(s), Failed(s)}
  <2>1. PICK t \in Stages : meeting'[m].status \in {Active(t), Failed(t), Completed(t)}
    BY <1>1, HandlerMoves
  <2> QED
    BY <2>1 DEF Completed, Pending, Stages
<1>2. ASSUME NEW v \in Workers, NEW r \in Stages, Claim(v, r) PROVE meeting'[m].status = Failed(r)
  <2>1. meeting'[m] = RepairedMeeting(m, r)
    BY <1>2, ClaimRows
  <2> QED
    BY <2>1 DEF RepairedMeeting, Transitioned
<1>3. CASE \/ \E n \in Meetings, t \in Stages : LeaseExpires(n, t) \/ RetryDue(n, t)
           \/ \E n \in Meetings, k \in Keys : Retry(n, k) \/ Cancel(n, k)
  BY <1>3, OtherRows DEF Stages
<1>4. ~ UNCHANGED vars
  BY DEF vars
<1> QED
  BY <1>1, <1>2, <1>3, <1>4 DEF Next

(* A job fails for good only with its meeting. *)
LEMMA StepVisible ==
  ASSUME TypeOK, AllFit, InScope, OnTrack, FailureIsVisible, [Next]_vars
  PROVE  FailureIsVisible'
<1> SUFFICES ASSUME NEW m \in Meetings, NEW s \in Stages, job'[m][s].status = "failed"
             PROVE  meeting'[m].status \in {Failed(s), "cancelled"}
  BY DEF FailureIsVisible
<1>1. ASSUME NEW v \in Workers, Step(v) \/ Crash(v)
      PROVE  meeting'[m].status \in {Failed(s), "cancelled"}
  <2>1. CASE job[m][s].status = "failed"
    <3>1. meeting[m].status \in {Failed(s), "cancelled"}
      BY <2>1 DEF FailureIsVisible
    <3>2. ASSUME meeting'[m].status # meeting[m].status PROVE FALSE
      <4> DEFINE t == worker[v].stage
      <4>1. /\ worker[v].meeting = m /\ t \in Stages /\ IsActiveJob(v)
            /\ meeting[m].status \in {Pending(t), Active(t), Failed(t), "awaiting_approval"}
        BY <1>1, <3>2, HandlerMoves
      <4>2. t = s
        BY <3>1, <4>1 DEF Stages, Pending, Active, Failed
      <4> QED
        BY <2>1, <4>1, <4>2 DEF IsActiveJob
    <3> QED
      BY <3>1, <3>2
  <2>2. CASE job[m][s].status # "failed"
    <3>1. FinishFailure(v) /\ OwnsLiveLease(v) /\ worker[v].meeting = m /\ worker[v].stage = s
      <4>1. CASE job' = job
        BY <2>2, <4>1
      <4>2. CASE StoreArtifact(v)
        BY <2>2, <4>2 DEF StoreArtifact, NewJob, TypeOK, Stages
      <4>3. ASSUME NEW st, NEW o, Finish(v, st, o), OwnsLiveLease(v)
            PROVE  worker[v].meeting = m /\ worker[v].stage = s /\ st = "failed"
        BY <2>2, <4>3 DEF Finish, Released, TypeOK
      <4> QED
        BY <1>1, <4>1, <4>2, <4>3
        DEF Step, Crash, Validate, Load, StartStage, ProviderCall, CompleteStage,
            FailStageInner, FailStageOuter, FailStage, FinishSuccess, FinishFailure, queue
    <3>2. worker[v].step = "finish_fail" /\ meeting' = meeting
      BY <3>1 DEF FinishFailure
    <3> QED
      BY <3>1, <3>2 DEF OnTrack, Tracks
  <2> QED
    BY <2>1, <2>2
<1>2. ASSUME NEW v \in Workers, NEW r \in Stages, Claim(v, r)
      PROVE  meeting'[m].status \in {Failed(s), "cancelled"}
  <2>1. PICK R \in SUBSET Exhausted(r), c \in Due(r) \cup {NoMeeting} :
          /\ meeting'[m] = IF m \in R THEN RepairedMeeting(m, r) ELSE meeting[m]
          /\ job'[m][s] = IF s = r /\ m \in R THEN Released(job[m][r], Verdict(m, r))
                          ELSE IF s = r /\ m = c THEN ClaimedJob(v, m, r) ELSE job[m][s]
          /\ c \in Meetings => c \in Due(r) /\ c \notin R
    BY <1>2, ClaimRows
  <2>2. CASE s = r /\ m \in R
    <3>1. job[m][s].status = "running" /\ Verdict(m, s) = "failed"
      BY <2>1, <2>2 DEF Exhausted, Released
    <3>2. meeting[m].status \in {Pending(s), Active(s), Failed(s)}
      BY <3>1, RunsInStage DEF Verdict
    <3>3. meeting'[m] = RepairedMeeting(m, s)
      BY <2>1, <2>2
    <3> QED
      BY <3>1, <3>2, <3>3 DEF RepairedMeeting, Transitioned
  <2>3. CASE s = r /\ m = c /\ m \notin R
    <3>1. job'[m][s] = ClaimedJob(v, m, s) /\ meeting'[m] = meeting[m]
      BY <2>1, <2>3
    <3>2. ~AttemptRuns(m, s) /\ Verdict(m, s) = "failed"
      BY <3>1 DEF ClaimedJob, Released
    <3>3. meeting[m].status = Failed(s)
      BY <3>2 DEF AttemptRuns, ReclaimFailure
    <3> QED
      BY <3>1, <3>3
  <2>4. CASE ~(s = r /\ (m \in R \/ m = c))
    <3>1. meeting[m].status \in {Failed(s), "cancelled"}
      BY <2>1, <2>4 DEF FailureIsVisible
    <3>2. RepairedMeeting(m, r) = meeting[m]
      BY <3>1 DEF RepairedMeeting, Stages, Pending, Active, Failed
    <3> QED
      BY <2>1, <3>1, <3>2
  <2> QED
    BY <2>2, <2>3, <2>4
<1>3. CASE \/ \E n \in Meetings, t \in Stages : LeaseExpires(n, t) \/ RetryDue(n, t)
           \/ \E n \in Meetings, k \in Keys : Retry(n, k) \/ Cancel(n, k)
  <2>1. job[m][s].status = "failed"
    BY <1>3, OtherRows
  <2> QED
    BY <1>3, <2>1, OtherRows DEF FailureIsVisible
<1>4. CASE UNCHANGED vars
  BY <1>4 DEF vars, FailureIsVisible
<1> QED
  BY <1>1, <1>2, <1>3, <1>4 DEF Next

(* When no unit of work raises, a job that has failed terminally is a meeting that says so,  *)
(* whatever crashes, expired leases, repairs and commands come between: FailureIsVisible.    *)
(* The one thing that can hide a failure is a unit of work that raises (processing.py:483).  *)
THEOREM FailuresShow == ~StoreFaults => (Spec => []FailureIsVisible)
<1> SUFFICES ASSUME ~StoreFaults PROVE Spec => []FailureIsVisible
  OBVIOUS
<1>1. Init => ClaimsDistinct /\ InScope /\ OnTrack /\ FailureIsVisible
  BY DEF Init, ClaimsDistinct, InScope, OnTrack, FailureIsVisible, NewJob, NoJob, Released,
         IdleWorker, Stages, Pending
<1>2. /\ TypeOK /\ AllFit /\ ClaimsDistinct /\ InScope /\ OnTrack /\ FailureIsVisible
      /\ [Next]_vars
      => InScope' /\ OnTrack' /\ FailureIsVisible'
  BY StepTracks, StepInScope, StepVisible
<1>3. TypeOK /\ ClaimsDistinct /\ [Next]_vars => ClaimsDistinct'
  BY StepDistinct
<1> QED
  BY <1>1, <1>2, <1>3, Fitting, PTL DEF Spec
=============================================================================
