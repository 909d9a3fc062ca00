---------------------------- MODULE ErasureProofs ----------------------------
(***************************************************************************)
(* What holds of Erasure for any meetings, assets and loops, any keyrings  *)
(* and rotations, and any number of requests and faults.                   *)
(***************************************************************************)
EXTENDS Erasure, TLAPS

\* Every variable has its type, and a loop at work has a meeting.
Typed ==
  /\ TypeOK
  /\ \A w \in Workers : worker[w].step # "idle" => worker[w].meeting \in Meetings

\* The running keyring is the registered one, and knows every erased identity.
Remembered ==
  /\ \A id \in DOMAIN keyring.secrets : verifier[id] = keyring.secrets[id]
  /\ \A m \in Meetings : job[m].status # "none" => ~meeting[m].live /\ Known(tombstone[m])

\* What a job's recording says of the asset, its cleanup and its file.
RecordingFits(m) ==
  LET a == job[m].audio IN
  /\ job[m].recording = "waiting_shared" => asset[a] = "stored" /\ Using(a) # {}
  /\ job[m].recording \in {"cleanup_pending", "failed"} =>
       cleanup[a] # "none" /\ asset[a] = "deleted"
  /\ job[m].recording = "failed" => cleanup[a] = "failed"
  /\ job[m].recording = "removed" =>
       a \notin files /\ cleanup[a] = "none" /\ asset[a] = "deleted"

\* The assets, their users, their cleanups and the erasures that wait for them.
Grouped ==
  /\ \A m \in Meetings : meeting[m].live =>
       meeting[m].audio \in Assets /\ asset[meeting[m].audio] = "stored"
  /\ \A a \in Assets : cleanup[a] # "none" => asset[a] = "deleted"
  /\ \A a \in Assets : cleanup[a] = "succeeded" => a \notin files
  /\ \A m \in Meetings :
       IF job[m].status = "none" THEN job[m].recording = "none"
       ELSE job[m].audio \in Assets /\ job[m].recording # "none"
  /\ \A m \in Meetings : RecordingFits(m)

Inv == Typed /\ Remembered /\ Grouped

(* The promise to waiters is a part of it. *)
LEMMA GroupedServes == Grouped => WaitersAreServed
BY DEF Grouped, RecordingFits, WaitersAreServed

-----------------------------------------------------------------------------
(* Rows.                                                                   *)

(* The rows of a typed table. *)
LEMMA JobTyped ==
  ASSUME Typed, NEW m \in Meetings
  PROVE  /\ job[m] \in JobRow /\ WellFormed(job[m])
         /\ meeting[m] \in [live : BOOLEAN, audio : Assets \cup {0}, busy : BOOLEAN]
         /\ tombstone[m] \in Tokens
BY DEF Typed, TypeOK

(* A row that loses its lease. *)
LEMMA ReleasedFits ==
  ASSUME NEW row \in JobRow, WellFormed(row), row.owner # Nobody \/ row.due = FALSE
  PROVE  /\ Released(row) \in JobRow /\ WellFormed(Released(row))
         /\ Released(row).audio = row.audio /\ Released(row).recording = row.recording
         /\ Released(row).status = row.status /\ ~Released(row).live
         /\ Released(row).checkpointed = row.checkpointed
         /\ Released(row).remediations = row.remediations
BY DEF Released, JobRow, WellFormed

(* A row whose truncation is recorded. *)
LEMMA CheckpointedFits ==
  ASSUME NEW row \in JobRow, WellFormed(row), row.status = "active"
  PROVE  /\ Checkpointed(row) \in JobRow /\ WellFormed(Checkpointed(row))
         /\ Checkpointed(row).recording = row.recording
         /\ Checkpointed(row).audio = row.audio
         /\ Checkpointed(row).status # "none" /\ Checkpointed(row).checkpointed
         /\ Checkpointed(row).remediations = row.remediations
         /\ ~Checkpointed(row).live
         /\ Checkpointed(row).status = "completed" => row.recording = "removed"
BY DEF Checkpointed, Released, JobRow, WellFormed

(* A row whose recording is gone. *)
LEMMA RemovedFits ==
  ASSUME NEW row \in JobRow, WellFormed(row), row.status = "active"
  PROVE  /\ Removed(row) \in JobRow /\ WellFormed(Removed(row))
         /\ Removed(row).recording = "removed" /\ ~Removed(row).checkpointed
         /\ Removed(row).audio = row.audio /\ Removed(row).status = "active"
         /\ Removed(row).remediations = row.remediations /\ ~Removed(row).live
BY DEF Removed, Released, JobRow, WellFormed

(* A row whose recording could not be removed. *)
LEMMA RejectedFits ==
  ASSUME NEW row \in JobRow, WellFormed(row), row.recording \in {"cleanup_pending", "failed"}
  PROVE  /\ Rejected(row) \in JobRow /\ WellFormed(Rejected(row))
         /\ Rejected(row).recording = "failed" /\ Rejected(row).checkpointed = row.checkpointed
         /\ Rejected(row).audio = row.audio /\ Rejected(row).status \in {"active", "failed"}
         /\ Rejected(row).remediations = row.remediations /\ ~Rejected(row).live
         /\ row.status = "failed" => Rejected(row) = row
BY DEF Rejected, Released, JobRow, WellFormed

(* A waiter whose cleanup is scheduled, and everybody else. *)
LEMMA PromotedFits ==
  ASSUME NEW row \in JobRow, WellFormed(row), NEW a,
         row.status = "none" => row.recording = "none"
  PROVE  /\ Promoted(a, row) \in JobRow /\ WellFormed(Promoted(a, row))
         /\ Promoted(a, row).audio = row.audio /\ Promoted(a, row).status = row.status
         /\ Promoted(a, row).remediations = row.remediations
         /\ IF row.recording = "waiting_shared" /\ row.audio = a
            THEN /\ Promoted(a, row).recording = "cleanup_pending"
                 /\ ~Promoted(a, row).checkpointed /\ ~Promoted(a, row).live
            ELSE Promoted(a, row) = row
BY DEF Promoted, JobRow, WellFormed

(* A job that starts. *)
LEMMA ErasureJobFits ==
  ASSUME NEW a \in Assets, NEW recording \in {"waiting_shared", "cleanup_pending"}
  PROVE  /\ ErasureJob(a, recording) \in JobRow /\ WellFormed(ErasureJob(a, recording))
         /\ ErasureJob(a, recording).audio = a /\ ErasureJob(a, recording).status = "active"
         /\ ErasureJob(a, recording).recording = recording /\ ~ErasureJob(a, recording).live
<1>1. 0 \in 0 .. MaxRemediations
  BY BoundAssumption
<1>2. NoJob \in JobRow /\ NoJob.owner = Nobody /\ NoJob.live = FALSE /\ NoJob.checkpointed = FALSE
  BY <1>1 DEF NoJob, JobRow
<1> QED
  BY <1>2 DEF ErasureJob, JobRow, WellFormed

(* An operator's second attempt. *)
LEMMA RemediatedFits ==
  ASSUME NEW row \in JobRow, WellFormed(row), row.status = "failed",
         row.remediations < MaxRemediations
  PROVE  /\ Remediated(row) \in JobRow /\ WellFormed(Remediated(row))
         /\ Remediated(row).audio = row.audio /\ Remediated(row).status = "active"
         /\ Remediated(row).recording = "cleanup_pending"
<1>1. row.remediations + 1 \in 0 .. MaxRemediations
  BY BoundAssumption DEF JobRow
<1> DEFINE n == row.remediations + 1
<1> HIDE DEF n
<1>2. Remediated(row) = [row EXCEPT !.status = "active", !.recording = "cleanup_pending",
                                    !.remediations = n]
  BY DEF Remediated, n
<1>3. n \in 0 .. MaxRemediations
  BY <1>1 DEF n
<1> QED
  BY <1>2, <1>3 DEF JobRow, WellFormed

-----------------------------------------------------------------------------
(* Steps.                                                                  *)

(* One job changes its lease, its schedule or its checkpoint. *)
LEMMA JobChanges ==
  ASSUME Inv, NEW m \in Meetings, job[m].status # "none", NEW r \in JobRow, WellFormed(r),
         r.audio = job[m].audio, r.recording = job[m].recording, r.status # "none",
         job' = [job EXCEPT ![m] = r], UNCHANGED <<clients, cleanup, keys>>
  PROVE  /\ job' \in [Meetings -> JobRow] /\ \A n \in Meetings : WellFormed(job'[n])
         /\ Remembered' /\ Grouped'
<1>1. /\ job' \in [Meetings -> JobRow] /\ \A n \in Meetings : WellFormed(job'[n])
      /\ \A n \in Meetings : job'[n] = IF n = m THEN r ELSE job[n]
  BY DEF Inv, Typed, TypeOK
<1>2. Remembered'
  BY <1>1 DEF Inv, Remembered, Known, clients, keys
<1>3. \A a : Using(a)' = Using(a)
  BY DEF Using, clients
<1>4. \A n \in Meetings : RecordingFits(n)'
  BY <1>1, <1>3 DEF Inv, Grouped, RecordingFits, clients
<1>5. Grouped'
  BY <1>1, <1>4 DEF Inv, Grouped, clients
<1> QED
  BY <1>1, <1>2, <1>5

(* A loop claims a job. *)
LEMMA ClaimKeeps ==
  ASSUME Inv, NEW w \in Workers, NEW m \in Meetings, Claim(w, m)
  PROVE  Inv'
<1>1. /\ job[m] \in JobRow /\ WellFormed(job[m]) /\ job[m].status = "active"
      /\ WorkerId[w] \in Names /\ WorkerId[w] # Nobody
      /\ UNCHANGED <<clients, cleanup, keys, wal, faults>>
  BY JobTyped, NameAssumption DEF Inv, Claim, NeedsCheckpoint, NeedsReconciliation, Free
<1> DEFINE r == [job[m] EXCEPT !.due = FALSE, !.owner = WorkerId[w], !.live = TRUE]
<1>2. /\ r \in JobRow /\ WellFormed(r) /\ r.audio = job[m].audio
      /\ r.recording = job[m].recording /\ r.status = "active"
  BY <1>1 DEF JobRow, WellFormed
<1>3. job' = [job EXCEPT ![m] = r]
  BY DEF Claim, Inv, Typed, TypeOK
<1> HIDE DEF r
<1>4. /\ job' \in [Meetings -> JobRow] /\ \A n \in Meetings : WellFormed(job'[n])
      /\ Remembered' /\ Grouped'
  BY <1>1, <1>2, <1>3, JobChanges
<1>5. /\ worker' \in [Workers -> [step : {"idle", "truncate", "record", "defer", "reconcile"},
                                  meeting : Meetings \cup {Nobody}]]
      /\ \A v \in Workers : worker'[v].step # "idle" => worker'[v].meeting \in Meetings
  BY DEF Claim, Inv, Typed, TypeOK
<1> QED
  BY <1>1, <1>4, <1>5 DEF Inv, Typed, TypeOK, clients, keys

(* A lease runs out, and a delay is over. *)
LEMMA TimeKeeps ==
  ASSUME Inv, NEW m \in Meetings, LapseLease(m) \/ BecomeDue(m)
  PROVE  Inv'
<1>1. /\ job[m] \in JobRow /\ WellFormed(job[m])
      /\ UNCHANGED <<clients, cleanup, keys, wal, worker>> /\ faults' \in 0 .. MaxFaults
  BY JobTyped, BoundAssumption DEF Inv, Typed, TypeOK, LapseLease, BecomeDue, Fault
<1>2. PICK r \in JobRow :
        /\ job' = [job EXCEPT ![m] = r] /\ WellFormed(r) /\ r.audio = job[m].audio
        /\ r.recording = job[m].recording /\ r.status # "none" /\ job[m].status # "none"
  <2>1. CASE LapseLease(m)
    <3> DEFINE r == [job[m] EXCEPT !.live = FALSE]
    <3>1. /\ r \in JobRow /\ WellFormed(r) /\ r.audio = job[m].audio
          /\ r.recording = job[m].recording /\ r.status # "none" /\ job[m].status # "none"
      BY <1>1, <2>1 DEF LapseLease, JobRow, WellFormed
    <3>2. job' = [job EXCEPT ![m] = r]
      BY <2>1 DEF LapseLease
    <3> HIDE DEF r
    <3> QED
      BY <3>1, <3>2
  <2>2. CASE BecomeDue(m)
    <3> DEFINE r == [job[m] EXCEPT !.due = TRUE]
    <3>1. /\ r \in JobRow /\ WellFormed(r) /\ r.audio = job[m].audio
          /\ r.recording = job[m].recording /\ r.status # "none" /\ job[m].status # "none"
      BY <1>1, <2>2 DEF BecomeDue, JobRow, WellFormed
    <3>2. job' = [job EXCEPT ![m] = r]
      BY <2>2 DEF BecomeDue
    <3> HIDE DEF r
    <3> QED
      BY <3>1, <3>2
  <2> QED
    BY <2>1, <2>2
<1>3. /\ job' \in [Meetings -> JobRow] /\ \A n \in Meetings : WellFormed(job'[n])
      /\ Remembered' /\ Grouped'
  BY <1>1, <1>2, JobChanges
<1> QED
  BY <1>1, <1>3 DEF Inv, Typed, TypeOK, clients, keys

(* A loop records its checkpoint, or that it has to come back. *)
LEMMA RecordKeeps ==
  ASSUME Inv, NEW w \in Workers, RecordCheckpoint(w)
  PROVE  Inv'
<1> DEFINE m == worker[w].meeting
<1>1. /\ m \in Meetings /\ job[m] \in JobRow /\ WellFormed(job[m])
      /\ UNCHANGED <<clients, cleanup, keys, wal, faults>>
      /\ worker' = [worker EXCEPT ![w] = IdleWorker]
  BY JobTyped DEF Inv, Typed, RecordCheckpoint, Forget
<1>2. /\ worker' \in [Workers -> [step : {"idle", "truncate", "record", "defer", "reconcile"},
                                  meeting : Meetings \cup {Nobody}]]
      /\ \A v \in Workers : worker'[v].step # "idle" => worker'[v].meeting \in Meetings
  BY <1>1 DEF Inv, Typed, TypeOK, IdleWorker
<1>3. CASE job' = job
  BY <1>1, <1>2, <1>3
  DEF Inv, Typed, TypeOK, Remembered, Known, Grouped, RecordingFits, Using, clients, keys
<1>4. CASE OwnsLiveLease(w) /\ job' # job
  <2>1. job[m].status = "active" /\ job[m].owner # Nobody
    BY <1>1, <1>4, NameAssumption DEF OwnsLiveLease
  <2>2. PICK r \in {Checkpointed(job[m]), Released(job[m])} : job' = [job EXCEPT ![m] = r]
    BY <1>4 DEF RecordCheckpoint, Inv, Typed, TypeOK
  <2>3. /\ r \in JobRow /\ WellFormed(r) /\ r.audio = job[m].audio
        /\ r.recording = job[m].recording /\ r.status # "none"
    <3>1. CASE r = Checkpointed(job[m])
      BY <1>1, <2>1, <3>1, CheckpointedFits
    <3>2. CASE r = Released(job[m])
      BY <1>1, <2>1, <3>2, ReleasedFits
    <3> QED
      BY <2>2, <3>1, <3>2
  <2>4. /\ job' \in [Meetings -> JobRow] /\ \A n \in Meetings : WellFormed(job'[n])
        /\ Remembered' /\ Grouped'
    BY <1>1, <2>1, <2>2, <2>3, JobChanges
  <2> QED
    BY <1>1, <1>2, <2>4 DEF Inv, Typed, TypeOK, clients, keys
<1> QED
  BY <1>3, <1>4 DEF RecordCheckpoint

(* A reconciliation that finds the recording removed, or refused. *)
LEMMA FinalizeKeeps ==
  ASSUME Inv, NEW w \in Workers, FinalizeSuccess(w) \/ FinalizeFailure(w)
  PROVE  Inv'
<1> DEFINE m == worker[w].meeting
           a == job[m].audio
<1>1. /\ m \in Meetings /\ UNCHANGED <<clients, keys, faults>> /\ wal' \subseteq Meetings
      /\ job[m].status = "active" /\ a \in Assets
      /\ worker' = [worker EXCEPT ![w] = IdleWorker]
  BY DEF Inv, Typed, TypeOK, Grouped, FinalizeSuccess, FinalizeFailure, Forget, OwnsLiveLease,
         Linked
<1>2. /\ worker' \in [Workers -> [step : {"idle", "truncate", "record", "defer", "reconcile"},
                                  meeting : Meetings \cup {Nobody}]]
      /\ \A v \in Workers : worker'[v].step # "idle" => worker'[v].meeting \in Meetings
  BY <1>1 DEF Inv, Typed, TypeOK, IdleWorker
<1>3. \A n \in Meetings :
        n \in Linked(a) <=> job[n].audio = a /\ job[n].recording \in {"cleanup_pending", "failed"}
  BY DEF Linked
<1>4. \A b : Using(b)' = Using(b)
  BY <1>1 DEF Using, clients
<1>5. CASE FinalizeSuccess(w)
  <2>1. /\ \A n \in Meetings : job'[n] = IF n \in Linked(a) THEN Removed(job[n]) ELSE job[n]
        /\ job' = [n \in Meetings |-> job'[n]]
        /\ cleanup[a] = "succeeded" /\ cleanup' = [cleanup EXCEPT ![a] = "none"]
    BY <1>5 DEF FinalizeSuccess, ForGroup
  <2>2. \A n \in Linked(a) : n \in Meetings /\ job[n].status = "active"
    BY <2>1, JobTyped DEF Linked, Inv, Grouped, RecordingFits, WellFormed, JobRow
  <2>3. \A n \in Linked(a) :
          /\ job'[n] \in JobRow /\ WellFormed(job'[n]) /\ job'[n].recording = "removed"
          /\ job'[n].audio = a /\ job'[n].status = "active" /\ n \in Meetings
          /\ job[n].recording \in {"cleanup_pending", "failed"} /\ job[n].audio = a
    BY <2>1, <2>2, <1>3, JobTyped, RemovedFits DEF Inv
  <2>4. \A n \in Meetings \ Linked(a) : job'[n] = job[n]
    BY <2>1
  <2>5. job' \in [Meetings -> JobRow] /\ \A n \in Meetings : WellFormed(job'[n])
    BY <2>1, <2>3, <2>4, JobTyped DEF Inv
  <2>6. cleanup' \in [Assets -> {"none", "ready", "succeeded", "failed"}]
        /\ \A b \in Assets : cleanup'[b] = IF b = a THEN "none" ELSE cleanup[b]
    BY <1>1, <2>1 DEF Inv, Typed, TypeOK
  <2>7. Typed'
    BY <1>1, <1>2, <2>5, <2>6 DEF Inv, Typed, TypeOK, clients, keys
  <2>8. Remembered'
    BY <1>1, <2>3, <2>4, <2>2 DEF Inv, Remembered, Known, clients, keys
  <2>9. \A n \in Meetings : RecordingFits(n)'
    <3>1. ASSUME NEW n \in Linked(a) PROVE RecordingFits(n)'
      BY <1>1, <2>1, <2>3, <2>6 DEF Inv, Grouped, RecordingFits, clients
    <3>2. ASSUME NEW n \in Meetings \ Linked(a) PROVE RecordingFits(n)'
      <4>1. /\ RecordingFits(n) /\ job'[n] = job[n]
            /\ job[n].audio = a => job[n].recording \notin {"cleanup_pending", "failed"}
            /\ job[n].status # "none" => job[n].audio \in Assets
            /\ job[n].status = "none" => job[n].recording = "none"
        BY <2>4, <1>3 DEF Inv, Grouped
      <4> QED
        BY <1>1, <1>4, <2>6, <4>1 DEF RecordingFits, clients
    <3> QED
      BY <3>1, <3>2
  <2>10. Grouped'
    <3>1. \A n \in Meetings :
            IF job'[n].status = "none" THEN job'[n].recording = "none"
            ELSE job'[n].audio \in Assets /\ job'[n].recording # "none"
      BY <1>1, <2>3, <2>4 DEF Inv, Grouped
    <3> QED
      BY <1>1, <2>6, <2>9, <3>1 DEF Inv, Grouped, clients
  <2> QED
    BY <2>7, <2>8, <2>10 DEF Inv
<1>6. CASE FinalizeFailure(w)
  <2>1. /\ \A n \in Meetings : job'[n] = IF n \in Linked(a) THEN Rejected(job[n]) ELSE job[n]
        /\ job' = [n \in Meetings |-> job'[n]]
        /\ cleanup[a] = "failed" /\ UNCHANGED <<cleanup, wal>>
    BY <1>6 DEF FinalizeFailure, ForGroup
  <2>2. \A n \in Linked(a) :
          /\ n \in Meetings /\ job'[n] \in JobRow /\ WellFormed(job'[n])
          /\ job'[n].recording = "failed" /\ job'[n].audio = a /\ job'[n].status # "none"
          /\ job[n].audio = a /\ job[n].status # "none"
    BY <2>1, <1>3, JobTyped, RejectedFits DEF Inv, Grouped, Linked
  <2>3. \A n \in Meetings \ Linked(a) : job'[n] = job[n]
    BY <2>1
  <2>4. job' \in [Meetings -> JobRow] /\ \A n \in Meetings : WellFormed(job'[n])
    BY <2>1, <2>2, <2>3, JobTyped DEF Inv
  <2>5. Typed'
    BY <1>1, <1>2, <2>1, <2>4 DEF Inv, Typed, TypeOK, clients, keys
  <2>6. Remembered'
    BY <1>1, <2>2, <2>3 DEF Inv, Remembered, Known, clients, keys
  <2>7. \A n \in Meetings : RecordingFits(n)'
    <3>1. ASSUME NEW n \in Linked(a) PROVE RecordingFits(n)'
      BY <1>1, <2>1, <2>2 DEF Inv, Grouped, RecordingFits, clients
    <3>2. ASSUME NEW n \in Meetings \ Linked(a) PROVE RecordingFits(n)'
      BY <1>1, <1>4, <2>1, <2>3 DEF Inv, Grouped, RecordingFits, clients
    <3> QED
      BY <3>1, <3>2
  <2> QED
    BY <1>1, <2>1, <2>2, <2>3, <2>5, <2>6, <2>7 DEF Inv, Grouped, clients
<1> QED
  BY <1>5, <1>6

(* A meeting is erased: its job starts, and who waited for its recording is told. *)
LEMMA PurgeKeeps ==
  ASSUME Inv, NEW m \in Meetings, Purge(m)
  PROVE  Inv'
<1> DEFINE a == meeting[m].audio
           last == Using(a) = {m}
           settled == [b \in Assets |-> IF cleanup[b] = "succeeded" THEN "none" ELSE cleanup[b]]
           recording == IF last THEN "cleanup_pending" ELSE "waiting_shared"
<1>1. /\ a \in Assets /\ asset[a] = "stored" /\ meeting[m].live /\ job[m].status = "none"
      /\ UNCHANGED <<files, spare, keyring, verifier, worker, faults>>
      /\ ActiveToken \in KeyIds \X Secrets
  BY KeyringAssumption DEF Inv, Typed, TypeOK, Grouped, Remembered, Purge, ActiveToken
<1>2. /\ meeting' \in [Meetings -> [live : BOOLEAN, audio : Assets \cup {0}, busy : BOOLEAN]]
      /\ \A n \in Meetings : meeting'[n] = IF n = m THEN [live |-> FALSE, audio |-> 0, busy |-> FALSE]
                                            ELSE meeting[n]
  BY DEF Purge, Inv, Typed, TypeOK
<1>3. /\ asset' \in [Assets -> {"unused", "stored", "deleted"}]
      /\ \A b \in Assets : asset'[b] = IF last /\ b = a THEN "deleted" ELSE asset[b]
  BY <1>1 DEF Purge, Inv, Typed, TypeOK
<1>4. \A b \in Assets : cleanup[b] \in {"none", "succeeded"} /\ (cleanup[b] # "none" => Linked(b) = {})
  BY DEF Purge, HistoryIsSettled
<1>5. /\ cleanup' \in [Assets -> {"none", "ready", "succeeded", "failed"}]
      /\ \A b \in Assets : cleanup'[b] = IF last /\ b = a THEN "ready" ELSE "none"
  <2>1. settled \in [Assets -> {"none", "ready", "succeeded", "failed"}]
        /\ \A b \in Assets : settled[b] = "none"
    BY <1>4
  <2>2. cleanup' = IF last THEN [settled EXCEPT ![a] = "ready"] ELSE settled
    BY DEF Purge
  <2> HIDE DEF settled
  <2> QED
    BY <1>1, <2>1, <2>2
<1>6. /\ job' = [n \in Meetings |-> job'[n]]
      /\ \A n \in Meetings : job'[n] = IF n = m THEN ErasureJob(a, recording)
                                        ELSE IF last THEN Promoted(a, job[n]) ELSE job[n]
  BY DEF Purge
<1>7. /\ job'[m] \in JobRow /\ WellFormed(job'[m]) /\ job'[m].audio = a
      /\ job'[m].recording = recording /\ job'[m].status = "active"
  BY <1>1, <1>6, ErasureJobFits
<1>8. ASSUME NEW n \in Meetings \ {m}
      PROVE  /\ job'[n] \in JobRow /\ WellFormed(job'[n]) /\ job'[n].audio = job[n].audio
             /\ job'[n].status = job[n].status
             /\ IF last /\ job[n].recording = "waiting_shared" /\ job[n].audio = a
                THEN job'[n].recording = "cleanup_pending" ELSE job'[n] = job[n]
  BY <1>6, JobTyped, PromotedFits DEF Inv, Grouped
<1>9. job' \in [Meetings -> JobRow] /\ \A n \in Meetings : WellFormed(job'[n])
  BY <1>6, <1>7, <1>8
<1>10. /\ tombstone' \in [Meetings -> Tokens]
       /\ \A n \in Meetings : tombstone'[n] = IF n = m THEN ActiveToken ELSE tombstone[n]
  BY <1>1 DEF Purge, Inv, Typed, TypeOK, Tokens
<1>11. /\ bindings' \in Seq([op : {"request", "retry"}, meeting : Meetings, token : Tokens])
       /\ Len(bindings') <= MaxRequests
  BY <1>1, BoundAssumption DEF Purge, Bind, MayBind, Inv, Typed, TypeOK, Tokens
<1>12. wal' \subseteq Meetings
  BY DEF Purge, Waiting, Inv, Typed, TypeOK
<1>13. Typed'
  BY <1>1, <1>2, <1>3, <1>5, <1>9, <1>10, <1>11, <1>12 DEF Inv, Typed, TypeOK
<1>14. Remembered'
  <2>1. Known(ActiveToken)'
    BY <1>1, KeyringAssumption DEF Known, ActiveToken, Inv, Typed, TypeOK
  <2>2. \A n \in Meetings : job'[n].status # "none" => ~meeting'[n].live /\ Known(tombstone[n])'
    <3>1. ASSUME NEW n \in Meetings \ {m}, job'[n].status # "none"
          PROVE  ~meeting'[n].live /\ Known(tombstone'[n])
      BY <1>1, <1>2, <1>8, <1>10, <3>1 DEF Inv, Remembered, Known
    <3> QED
      BY <1>1, <1>2, <1>10, <2>1, <3>1 DEF Known, ActiveToken
  <2> QED
    BY <1>1, <2>2 DEF Inv, Remembered, Known
<1>15. \A b \in Assets : (b # a \/ ~last) => (Using(b) # {} => Using(b)' # {})
  <2>1. ASSUME NEW b \in Assets, b # a \/ ~last, Using(b) # {} PROVE Using(b)' # {}
    <3>1. PICK n \in Meetings \ {m} : n \in Using(b)
      BY <1>1, <2>1 DEF Using
    <3> QED
      BY <1>2, <3>1 DEF Using
  <2> QED
    BY <2>1
<1>16. \A n \in Meetings : RecordingFits(n)'
  <2>1. RecordingFits(m)'
    <3>1. ~last => Using(a) # {}
      BY <1>1 DEF Using
    <3> QED
      BY <1>1, <1>3, <1>5, <1>7, <1>15, <3>1 DEF RecordingFits
  <2>2. ASSUME NEW n \in Meetings \ {m} PROVE RecordingFits(n)'
    <3>1. /\ RecordingFits(n) /\ (job[n].status # "none" => job[n].audio \in Assets)
          /\ job[n].status = "none" => job[n].recording = "none"
          /\ job[n].recording \in {"cleanup_pending", "failed"} => n \in Linked(job[n].audio)
      BY DEF Inv, Grouped, Linked
    <3>2. job[n].recording \notin {"cleanup_pending", "failed"}
      BY <1>4, <3>1 DEF RecordingFits
    <3>3. CASE last /\ job[n].recording = "waiting_shared" /\ job[n].audio = a
      BY <1>1, <1>3, <1>5, <1>8, <3>3 DEF RecordingFits
    <3>4. CASE ~(last /\ job[n].recording = "waiting_shared" /\ job[n].audio = a)
      BY <1>1, <1>3, <1>5, <1>8, <1>15, <3>1, <3>2, <3>4 DEF RecordingFits
    <3> QED
      BY <3>3, <3>4
  <2> QED
    BY <2>1, <2>2
<1>17. Grouped'
  <2>1. ASSUME NEW n \in Meetings, meeting'[n].live
        PROVE  meeting'[n].audio \in Assets /\ asset'[meeting'[n].audio] = "stored"
    <3>1. n # m /\ meeting'[n] = meeting[n] /\ n \in Using(meeting[n].audio)
      BY <1>2, <2>1 DEF Using
    <3> QED
      BY <1>3, <2>1, <3>1 DEF Inv, Grouped
  <2>2. \A n \in Meetings :
          IF job'[n].status = "none" THEN job'[n].recording = "none"
          ELSE job'[n].audio \in Assets /\ job'[n].recording # "none"
    BY <1>1, <1>7, <1>8 DEF Inv, Grouped
  <2> QED
    BY <1>3, <1>5, <1>16, <2>1, <2>2 DEF Grouped
<1> QED
  BY <1>13, <1>14, <1>17 DEF Inv

(* An operator has the whole group tried again. *)
LEMMA RetryKeeps ==
  ASSUME Inv, NEW m \in Meetings, Retry(m)
  PROVE  Inv'
<1> DEFINE a == job[m].audio
<1>1. /\ a \in Assets /\ cleanup[a] = "failed"
      /\ UNCHANGED <<clients, tombstone, keyring, verifier, wal, worker, faults>>
      /\ ActiveToken \in KeyIds \X Secrets
  BY KeyringAssumption DEF Inv, Typed, TypeOK, Grouped, Retry, ActiveToken
<1>2. \A n \in Linked(a) :
        /\ n \in Meetings /\ job[n].status = "failed" /\ job[n].audio = a
        /\ job[n].remediations < MaxRemediations
  BY DEF Retry, Linked
<1>3. /\ job' = [n \in Meetings |-> job'[n]]
      /\ \A n \in Meetings : job'[n] = IF n \in Linked(a) THEN Remediated(job[n]) ELSE job[n]
  BY DEF Retry, Remediated
<1>4. \A n \in Linked(a) :
        /\ job'[n] \in JobRow /\ WellFormed(job'[n]) /\ job'[n].audio = a
        /\ job'[n].status = "active" /\ job'[n].recording = "cleanup_pending"
  BY <1>2, <1>3, JobTyped, RemediatedFits DEF Inv
<1>5. job' \in [Meetings -> JobRow] /\ \A n \in Meetings : WellFormed(job'[n])
  BY <1>3, <1>4, JobTyped DEF Inv
<1>6. /\ cleanup' \in [Assets -> {"none", "ready", "succeeded", "failed"}]
      /\ \A b \in Assets : cleanup'[b] = IF b = a THEN "ready" ELSE cleanup[b]
  BY <1>1 DEF Retry, Inv, Typed, TypeOK
<1>7. /\ bindings' \in Seq([op : {"request", "retry"}, meeting : Meetings, token : Tokens])
      /\ Len(bindings') <= MaxRequests
  <2>1. /\ bindings \in Seq([op : {"request", "retry"}, meeting : Meetings, token : Tokens])
        /\ bindings' = Append(bindings, [op |-> "retry", meeting |-> m, token |-> ActiveToken])
        /\ Len(bindings) < MaxRequests /\ MaxRequests \in Nat
    BY BoundAssumption DEF Retry, Bind, MayBind, Inv, Typed, TypeOK
  <2>2. [op |-> "retry", meeting |-> m, token |-> ActiveToken]
          \in [op : {"request", "retry"}, meeting : Meetings, token : Tokens]
    BY <1>1 DEF Tokens
  <2> QED
    BY <2>1, <2>2
<1>8. Typed'
  BY <1>1, <1>5, <1>6, <1>7 DEF Inv, Typed, TypeOK, clients
<1>9. Remembered'
  BY <1>1, <1>2, <1>3 DEF Inv, Remembered, Known, clients
<1>10. \A n \in Meetings : RecordingFits(n)'
  <2>1. ASSUME NEW n \in Linked(a) PROVE RecordingFits(n)'
    BY <1>1, <1>4, <1>6, <2>1 DEF Inv, Grouped, RecordingFits, clients
  <2>2. ASSUME NEW n \in Meetings \ Linked(a) PROVE RecordingFits(n)'
    <3>1. /\ RecordingFits(n) /\ job'[n] = job[n]
          /\ job[n].audio = a => job[n].recording \notin {"cleanup_pending", "failed"}
          /\ job[n].status # "none" => job[n].audio \in Assets
          /\ job[n].status = "none" => job[n].recording = "none"
      BY <1>3 DEF Inv, Grouped, Linked
    <3> QED
      BY <1>1, <1>6, <3>1 DEF RecordingFits, Using, clients
  <2> QED
    BY <2>1, <2>2
<1>11. \A n \in Meetings :
         IF job'[n].status = "none" THEN job'[n].recording = "none"
         ELSE job'[n].audio \in Assets /\ job'[n].recording # "none"
  BY <1>1, <1>2, <1>3, <1>4 DEF Inv, Grouped
<1>12. Grouped'
  BY <1>1, <1>6, <1>10, <1>11 DEF Inv, Grouped, clients
<1> QED
  BY <1>8, <1>9, <1>12 DEF Inv

(* Meetings come and work. *)
LEMMA ClientsKeep ==
  ASSUME Inv, NEW m \in Meetings, NEW a,
         \/ a \in Assets /\ (IngestShared(m, a) \/ IngestNew(m, a))
         \/ RefuseIngest(m) \/ Work(m)
  PROVE  Inv'
<1>1. UNCHANGED <<cleanup, job, keys, wal, worker>> /\ faults' \in 0 .. MaxFaults
  BY BoundAssumption
  DEF IngestShared, IngestNew, RefuseIngest, Work, Fault, Inv, Typed, TypeOK
<1>2. /\ meeting' \in [Meetings -> [live : BOOLEAN, audio : Assets \cup {0}, busy : BOOLEAN]]
      /\ asset' \in [Assets -> {"unused", "stored", "deleted"}] /\ files' \subseteq Assets
      /\ spare' \in {"none", "open", "failed"}
  <2>1. meeting[m] \in [live : BOOLEAN, audio : Assets \cup {0}, busy : BOOLEAN]
    BY JobTyped DEF Inv
  <2>2. CASE a \in Assets /\ (IngestShared(m, a) \/ IngestNew(m, a))
    <3>1. meeting' = [meeting EXCEPT ![m] = [meeting[m] EXCEPT !.live = TRUE, !.audio = a]]
      BY <2>2 DEF IngestShared, IngestNew, Inv, Typed, TypeOK
    <3>2. [meeting[m] EXCEPT !.live = TRUE, !.audio = a]
            \in [live : BOOLEAN, audio : Assets \cup {0}, busy : BOOLEAN]
      BY <2>1, <2>2
    <3> QED
      BY <2>2, <3>1, <3>2 DEF IngestShared, IngestNew, Duplicate, Inv, Typed, TypeOK
  <2>3. CASE Work(m)
    <3>1. [meeting[m] EXCEPT !.busy = ~@]
            \in [live : BOOLEAN, audio : Assets \cup {0}, busy : BOOLEAN]
      BY <2>1
    <3> QED
      BY <2>3, <3>1 DEF Work, Inv, Typed, TypeOK
  <2>4. CASE RefuseIngest(m)
    BY <2>4 DEF RefuseIngest, Duplicate, Inv, Typed, TypeOK
  <2> QED
    BY <2>2, <2>3, <2>4
<1>3. \A n \in Meetings : meeting'[n].live =>
        \/ meeting[n].live /\ meeting'[n].audio = meeting[n].audio
        \/ /\ n = m /\ ~meeting[m].live /\ ~Known(tombstone[m])
           /\ meeting'[m].audio = a /\ a \in Assets /\ asset'[a] = "stored"
  BY DEF IngestShared, IngestNew, RefuseIngest, Work, Stored, Inv, Typed, TypeOK
<1>4. \A b \in Assets :
        \/ asset'[b] = asset[b] /\ (b \in files' => b \in files)
        \/ b = a /\ asset[a] = "unused" /\ asset'[a] = "stored"
  BY DEF IngestShared, IngestNew, RefuseIngest, Work, Inv, Typed, TypeOK
<1>5. \A n \in Meetings, b \in Assets : n \in Using(b) => n \in Using(b)'
  <2>1. ASSUME NEW n \in Meetings, meeting[n].live
        PROVE  meeting'[n].live /\ meeting'[n].audio = meeting[n].audio
    <3>1. meeting[n] \in [live : BOOLEAN, audio : Assets \cup {0}, busy : BOOLEAN]
      BY JobTyped DEF Inv
    <3>2. meeting'[n] \in {meeting[n], [meeting[n] EXCEPT !.busy = ~@]}
      BY <2>1 DEF IngestShared, IngestNew, RefuseIngest, Work, Inv, Typed, TypeOK
    <3> QED
      BY <2>1, <3>1, <3>2
  <2> QED
    BY <2>1 DEF Using
<1>6. Typed'
  BY <1>1, <1>2 DEF Inv, Typed, TypeOK, keys
<1>7. Remembered'
  BY <1>1, <1>3 DEF Inv, Remembered, Known, keys
<1>8. ASSUME NEW n \in Meetings PROVE RecordingFits(n)'
  <2>1. /\ RecordingFits(n) /\ (job[n].status # "none" => job[n].audio \in Assets)
        /\ job[n].status = "none" => job[n].recording = "none"
    BY DEF Inv, Grouped
  <2>2. Using(job[n].audio) # {} => \E u \in Meetings : u \in Using(job[n].audio)
    BY DEF Using
  <2> QED
    BY <1>1, <1>4, <1>5, <2>1, <2>2 DEF RecordingFits
<1>9. Grouped'
  <2>1. \A n \in Meetings : meeting'[n].live =>
          meeting'[n].audio \in Assets /\ asset'[meeting'[n].audio] = "stored"
    BY <1>3, <1>4 DEF Inv, Grouped
  <2>2. \A b \in Assets : cleanup'[b] # "none" => asset'[b] = "deleted"
    BY <1>1, <1>4 DEF Inv, Grouped
  <2>3. \A b \in Assets : cleanup'[b] = "succeeded" => b \notin files'
    BY <1>1, <1>4 DEF Inv, Grouped
  <2> QED
    BY <1>1, <1>8, <2>1, <2>2, <2>3 DEF Inv, Grouped
<1> QED
  BY <1>6, <1>7, <1>9 DEF Inv

(* A cleanup comes to its end. *)
LEMMA CleanupKeeps ==
  ASSUME Inv, NEW a \in Assets, RunCleanup(a)
  PROVE  Inv'
<1>1. /\ UNCHANGED <<meeting, asset, spare, job, keys, wal, worker>> /\ faults' \in 0 .. MaxFaults
      /\ cleanup[a] = "ready" /\ files' \subseteq files
      /\ cleanup' \in [Assets -> {"none", "ready", "succeeded", "failed"}]
      /\ \A b \in Assets : b # a => cleanup'[b] = cleanup[b]
      /\ cleanup'[a] \in {"succeeded", "failed"} /\ (cleanup'[a] = "succeeded" => a \notin files')
  BY BoundAssumption DEF RunCleanup, Fault, Inv, Typed, TypeOK
<1>2. Typed'
  BY <1>1 DEF Inv, Typed, TypeOK, keys
<1>3. Remembered'
  BY <1>1 DEF Inv, Remembered, Known, keys
<1>4. ASSUME NEW n \in Meetings PROVE RecordingFits(n)'
  <2>1. /\ RecordingFits(n) /\ (job[n].status # "none" => job[n].audio \in Assets)
        /\ job[n].status = "none" => job[n].recording = "none"
    BY DEF Inv, Grouped
  <2> QED
    BY <1>1, <2>1 DEF RecordingFits, Using
<1> QED
  BY <1>1, <1>2, <1>3, <1>4 DEF Inv, Grouped

(* Another request, a truncation, a step that finds nothing, a death, the end of *)
(* a duplicate.                                                                  *)
LEMMA OthersKeep ==
  ASSUME Inv,
         \/ \E m \in Meetings : Converge(m)
         \/ \E w \in Workers : Truncate(w) \/ ReconcileNothing(w) \/ Crash(w)
         \/ SettleSpare
  PROVE  Inv'
<1>1. /\ UNCHANGED <<meeting, asset, files, cleanup, job, tombstone, keyring, verifier>>
      /\ faults' \in 0 .. MaxFaults /\ wal' \subseteq wal
      /\ spare' \in {"none", "open", "failed"}
  BY BoundAssumption
  DEF Converge, Truncate, ReconcileNothing, Crash, SettleSpare, Fault, clients, keys, Inv, Typed, TypeOK
<1>2. /\ bindings' \in Seq([op : {"request", "retry"}, meeting : Meetings, token : Tokens])
      /\ Len(bindings') <= MaxRequests
  <2>1. CASE bindings' = bindings
    BY <2>1 DEF Inv, Typed, TypeOK
  <2>2. ASSUME NEW m \in Meetings, Converge(m) PROVE <1>2
    <3>1. ActiveToken \in Tokens
      BY KeyringAssumption DEF ActiveToken, Tokens, Inv, Typed, TypeOK
    <3>2. /\ bindings \in Seq([op : {"request", "retry"}, meeting : Meetings, token : Tokens])
          /\ bindings' = Append(bindings, [op |-> "request", meeting |-> m, token |-> ActiveToken])
          /\ Len(bindings) < MaxRequests /\ MaxRequests \in Nat
      BY <2>2, BoundAssumption DEF Converge, Bind, MayBind, Inv, Typed, TypeOK
    <3>3. [op |-> "request", meeting |-> m, token |-> ActiveToken]
            \in [op : {"request", "retry"}, meeting : Meetings, token : Tokens]
      BY <3>1
    <3> QED
      BY <3>2, <3>3
  <2> QED
    BY <2>1, <2>2 DEF Truncate, ReconcileNothing, Crash, SettleSpare, keys
<1>3. /\ worker' \in [Workers -> [step : {"idle", "truncate", "record", "defer", "reconcile"},
                                  meeting : Meetings \cup {Nobody}]]
      /\ \A v \in Workers : worker'[v].step # "idle" => worker'[v].meeting \in Meetings
  <2>1. CASE worker' = worker
    BY <2>1 DEF Inv, Typed, TypeOK
  <2>2. ASSUME NEW w \in Workers, Truncate(w) \/ ReconcileNothing(w) \/ Crash(w) PROVE <1>3
    <3>1. \/ worker' = [worker EXCEPT ![w] = IdleWorker]
          \/ /\ worker[w].step = "truncate"
             /\ \E st \in {"record", "defer"} : worker' = [worker EXCEPT ![w].step = st]
      BY <2>2 DEF Truncate, ReconcileNothing, Crash, Forget
    <3>2. CASE worker' = [worker EXCEPT ![w] = IdleWorker]
      BY <3>2 DEF IdleWorker, Inv, Typed, TypeOK
    <3>3. ASSUME NEW st \in {"record", "defer"}, worker[w].step = "truncate",
                 worker' = [worker EXCEPT ![w].step = st]
          PROVE  <1>3
      <4>1. worker' = [worker EXCEPT ![w] = [worker[w] EXCEPT !.step = st]]
        BY <3>3
      <4>2. /\ worker[w] \in [step : {"idle", "truncate", "record", "defer", "reconcile"},
                              meeting : Meetings \cup {Nobody}]
            /\ worker[w].meeting \in Meetings
        BY <3>3 DEF Inv, Typed, TypeOK
      <4>3. /\ [worker[w] EXCEPT !.step = st]
                 \in [step : {"idle", "truncate", "record", "defer", "reconcile"},
                     meeting : Meetings \cup {Nobody}]
            /\ [worker[w] EXCEPT !.step = st].meeting \in Meetings
        BY <4>2
      <4> QED
        BY <4>1, <4>3 DEF Inv, Typed, TypeOK
    <3> QED
      BY <3>1, <3>2, <3>3
  <2> QED
    BY <2>1, <2>2 DEF Converge, SettleSpare
<1>4. Typed'
  BY <1>1, <1>2, <1>3 DEF Inv, Typed, TypeOK, clients
<1> QED
  BY <1>1, <1>4 DEF Inv, Remembered, Known, Grouped, RecordingFits, Using, clients

(* The service is started with another keyring: one that knows every token. *)
LEMMA RestartKeeps ==
  ASSUME Inv, NEW c \in Keyrings, Restart(c)
  PROVE  Inv'
<1>1. /\ keyring' = c /\ UNCHANGED <<clients, cleanup, job, tombstone, bindings, wal, worker, faults>>
      /\ verifier' = [id \in KeyIds |-> IF id \in DOMAIN c.secrets THEN c.secrets[id]
                                        ELSE verifier[id]]
      /\ DOMAIN c.secrets \subseteq KeyIds /\ \A id \in DOMAIN c.secrets : c.secrets[id] \in Secrets
  BY KeyringAssumption DEF Restart
<1>2. ASSUME NEW m \in Meetings, Known(tombstone[m]) PROVE Known(tombstone[m])'
  <2> DEFINE id == tombstone[m][1]
  <2>1. /\ id \in DOMAIN keyring.secrets /\ tombstone[m][2] = keyring.secrets[id]
        /\ keyring.secrets[id] \in Secrets /\ verifier[id] = keyring.secrets[id]
    BY <1>2, KeyringAssumption DEF Known, Inv, Typed, TypeOK, Remembered
  <2>2. tombstone[m] # NoToken
    BY <2>1, NameAssumption DEF NoToken
  <2>3. id \in DOMAIN c.secrets /\ verifier[id] \in {Nobody, c.secrets[id]}
    BY <2>2 DEF Restart, Verifies, Referenced
  <2> QED
    BY <1>1, <2>1, <2>3, NameAssumption DEF Known
<1>3. Typed'
  BY <1>1 DEF Inv, Typed, TypeOK, clients
<1>4. Remembered'
  BY <1>1, <1>2 DEF Inv, Remembered, clients
<1> QED
  BY <1>1, <1>3, <1>4 DEF Inv, Grouped, RecordingFits, Using, clients

(* Every step keeps the invariant. *)
LEMMA StepKeeps == Inv /\ [Next]_vars => Inv'
<1> SUFFICES ASSUME Inv, [Next]_vars PROVE Inv'
  OBVIOUS
<1>1. CASE UNCHANGED vars
  BY <1>1 DEF vars, clients, keys, Inv, Typed, TypeOK, Remembered, Known, Grouped,
              RecordingFits, Using
<1>2. ASSUME NEW m \in Meetings,
             \/ RefuseIngest(m) \/ Work(m) \/ Converge(m) \/ Purge(m) \/ Retry(m)
             \/ LapseLease(m) \/ BecomeDue(m)
             \/ \E a \in Assets : IngestShared(m, a) \/ IngestNew(m, a)
      PROVE  Inv'
  BY <1>2, ClientsKeep, OthersKeep, PurgeKeeps, RetryKeeps, TimeKeeps
<1>3. ASSUME NEW w \in Workers, WorkStep(w) \/ Crash(w) \/ \E m \in Meetings : Claim(w, m)
      PROVE  Inv'
  BY <1>3, OthersKeep, RecordKeeps, FinalizeKeeps, ClaimKeeps DEF WorkStep
<1>4. CASE SettleSpare
  BY <1>4, OthersKeep
<1> QED
  BY <1>1, <1>2, <1>3, <1>4, CleanupKeeps, RestartKeeps DEF Next

(* What holds when the service is first started. *)
LEMMA InitKeeps == Init => Inv
<1> SUFFICES ASSUME Init PROVE Inv
  OBVIOUS
<1>1. NoJob \in JobRow /\ WellFormed(NoJob) /\ NoJob.status = "none" /\ NoJob.recording = "none"
  <2>1. 0 \in 0 .. MaxRemediations
    BY BoundAssumption
  <2> QED
    BY <2>1 DEF NoJob, JobRow, WellFormed
<1>2. /\ job \in [Meetings -> JobRow] /\ \A m \in Meetings : job[m] = NoJob
      /\ tombstone \in [Meetings -> Tokens]
      /\ bindings \in Seq([op : {"request", "retry"}, meeting : Meetings, token : Tokens])
      /\ Len(bindings) <= MaxRequests /\ faults \in 0 .. MaxFaults
  BY <1>1, BoundAssumption DEF Init, Tokens
<1>3. /\ keyring \in Keyrings /\ verifier \in [KeyIds -> Secrets \cup {Nobody}]
      /\ \A id \in DOMAIN keyring.secrets : verifier[id] = keyring.secrets[id]
  BY KeyringAssumption DEF Init
<1>4. Typed
  BY <1>1, <1>2, <1>3 DEF Init, Typed, TypeOK, IdleWorker
<1>5. Remembered
  BY <1>1, <1>2, <1>3 DEF Remembered
<1>6. Grouped
  BY <1>1, <1>2 DEF Init, Grouped, RecordingFits
<1> QED
  BY <1>4, <1>5, <1>6 DEF Inv

(* Every variable keeps its type and every row its validators: TypeOK. *)
THEOREM TypeCorrect == Spec => []TypeOK
<1>1. Inv => TypeOK
  BY DEF Inv, Typed
<1> QED
  BY <1>1, InitKeeps, StepKeeps, PTL DEF Spec

(* No ingest makes an erased meeting again, whatever keyrings the service is  *)
(* started with, as long as it accepts them: ErasedStaysErased.               *)
THEOREM ErasedForGood == Spec => []ErasedStaysErased
<1>1. Inv => ErasedStaysErased
  BY DEF Inv, Remembered, ErasedStaysErased
<1> QED
  BY <1>1, InitKeeps, StepKeeps, PTL DEF Spec

(* However many meetings share recordings and are erased at once, nobody waits *)
(* for a cleanup that never comes: WaitersAreServed.                           *)
THEOREM WaitersServed == Spec => []WaitersAreServed
<1>1. Inv => WaitersAreServed
  BY GroupedServes DEF Inv
<1> QED
  BY <1>1, InitKeeps, StepKeeps, PTL DEF Spec

-----------------------------------------------------------------------------
(* Saves.                                                                  *)

\* What the repository and the triggers ask of every save of a step.
RowsAccepted ==
  \A m \in Meetings : job[m].status # "none" /\ job'[m] # job[m] =>
    RowMayBecome(job[m], job'[m], cleanup[job[m].audio])
CleanupsAccepted == \A a \in Assets : CleanupMayBecome(a, cleanup'[a])

(* A lease, a schedule or a checkpoint that is recorded. *)
LEMMA LeaseAccepted ==
  ASSUME Inv, NEW m \in Meetings, NEW r, job' = [job EXCEPT ![m] = r], cleanup' = cleanup,
         job[m].status = "active", r.recording = job[m].recording,
         r.remediations = job[m].remediations, job[m].checkpointed => r.checkpointed
  PROVE  RowsAccepted /\ CleanupsAccepted
<1>1. \A n \in Meetings : job'[n] = IF n = m THEN r ELSE job[n]
  BY DEF Inv, Typed, TypeOK
<1>2. CleanupsAccepted
  BY DEF CleanupsAccepted, CleanupMayBecome
<1>3. RowMayBecome(job[m], r, cleanup[job[m].audio])
  BY DEF RowMayBecome, KeepsCheckpoint
<1> QED
  BY <1>1, <1>2, <1>3 DEF RowsAccepted

(* Those steps that touch one row. *)
LEMMA OneRowAccepted ==
  ASSUME Inv,
         \/ \E w \in Workers, m \in Meetings : Claim(w, m)
         \/ \E m \in Meetings : LapseLease(m) \/ BecomeDue(m)
         \/ \E w \in Workers : RecordCheckpoint(w)
  PROVE  RowsAccepted /\ CleanupsAccepted
<1>1. ASSUME NEW w \in Workers, NEW m \in Meetings, Claim(w, m)
      PROVE  RowsAccepted /\ CleanupsAccepted
  <2> DEFINE r == [job[m] EXCEPT !.due = FALSE, !.owner = WorkerId[w], !.live = TRUE]
  <2>1. job' = [job EXCEPT ![m] = r] /\ cleanup' = cleanup /\ job[m].status = "active"
    BY <1>1 DEF Claim, NeedsCheckpoint, NeedsReconciliation, Free, Inv, Typed, TypeOK
  <2>2. /\ r.recording = job[m].recording /\ r.remediations = job[m].remediations
        /\ r.checkpointed = job[m].checkpointed
    BY JobTyped DEF Inv, JobRow
  <2> HIDE DEF r
  <2> QED
    BY <2>1, <2>2, LeaseAccepted
<1>2. ASSUME NEW m \in Meetings, LapseLease(m) PROVE RowsAccepted /\ CleanupsAccepted
  <2> DEFINE r == [job[m] EXCEPT !.live = FALSE]
  <2>1. job' = [job EXCEPT ![m] = r] /\ cleanup' = cleanup /\ job[m].status = "active"
    BY <1>2, JobTyped DEF LapseLease, Inv, WellFormed
  <2>2. /\ r.recording = job[m].recording /\ r.remediations = job[m].remediations
        /\ r.checkpointed = job[m].checkpointed
    BY JobTyped DEF Inv, JobRow
  <2> HIDE DEF r
  <2> QED
    BY <2>1, <2>2, LeaseAccepted
<1>3. ASSUME NEW m \in Meetings, BecomeDue(m) PROVE RowsAccepted /\ CleanupsAccepted
  <2> DEFINE r == [job[m] EXCEPT !.due = TRUE]
  <2>1. job' = [job EXCEPT ![m] = r] /\ cleanup' = cleanup /\ job[m].status = "active"
    BY <1>3 DEF BecomeDue
  <2>2. /\ r.recording = job[m].recording /\ r.remediations = job[m].remediations
        /\ r.checkpointed = job[m].checkpointed
    BY JobTyped DEF Inv, JobRow
  <2> HIDE DEF r
  <2> QED
    BY <2>1, <2>2, LeaseAccepted
<1>4. ASSUME NEW w \in Workers, RecordCheckpoint(w) PROVE RowsAccepted /\ CleanupsAccepted
  <2> DEFINE m == worker[w].meeting
  <2>1. CASE job' = job /\ cleanup' = cleanup
    BY <2>1 DEF RowsAccepted, CleanupsAccepted, CleanupMayBecome
  <2>2. CASE OwnsLiveLease(w)
    <3>1. m \in Meetings /\ job[m].status = "active" /\ job[m].owner # Nobody /\ cleanup' = cleanup
      BY <1>4, <2>2, NameAssumption DEF RecordCheckpoint, OwnsLiveLease, Inv, Typed
    <3>2. PICK r \in {Checkpointed(job[m]), Released(job[m])} : job' = [job EXCEPT ![m] = r]
      BY <1>4, <2>2 DEF RecordCheckpoint, Inv, Typed, TypeOK
    <3>3. /\ r.recording = job[m].recording /\ r.remediations = job[m].remediations
          /\ job[m].checkpointed => r.checkpointed
      <4>1. CASE r = Checkpointed(job[m])
        BY <3>1, <4>1, JobTyped, CheckpointedFits DEF Inv
      <4>2. CASE r = Released(job[m])
        BY <3>1, <4>2, JobTyped, ReleasedFits DEF Inv
      <4> QED
        BY <3>2, <4>1, <4>2
    <3> QED
      BY <3>1, <3>2, <3>3, LeaseAccepted
  <2> QED
    BY <1>4, <2>1, <2>2 DEF RecordCheckpoint
<1> QED
  BY <1>1, <1>2, <1>3, <1>4

(* The request and the retry. *)
LEMMA RequestAccepted ==
  ASSUME Inv, NEW m \in Meetings, Purge(m) \/ Retry(m)
  PROVE  RowsAccepted /\ CleanupsAccepted
<1>1. CASE Purge(m)
  <2> DEFINE a == meeting[m].audio
  <2>1. \A b \in Assets : cleanup[b] # "failed"
    BY <1>1 DEF Purge, HistoryIsSettled
  <2>2. job[m].status = "none"
    BY <1>1 DEF Purge, Inv, Remembered
  <2>3. ASSUME NEW n \in Meetings, n # m, job'[n] # job[n], job[n].status # "none"
        PROVE  RowMayBecome(job[n], job'[n], cleanup[job[n].audio])
    <3>1. job'[n] = Promoted(a, job[n]) /\ job[n] \in JobRow /\ WellFormed(job[n])
      BY <1>1, <2>3, JobTyped DEF Purge, Inv
    <3>2. /\ job[n].recording = "waiting_shared" /\ job'[n].recording = "cleanup_pending"
          /\ ~job'[n].checkpointed /\ job'[n].remediations = job[n].remediations
      BY <2>3, <3>1, PromotedFits DEF Inv, Grouped
    <3>3. job[n].status = "active"
      BY <2>3, <3>1, <3>2 DEF WellFormed, JobRow
    <3> QED
      BY <3>2, <3>3 DEF RowMayBecome, RecordingMoves, KeepsCheckpoint
  <2> QED
    BY <2>1, <2>2, <2>3 DEF RowsAccepted, CleanupsAccepted, CleanupMayBecome
<1>2. CASE Retry(m)
  <2> DEFINE a == job[m].audio
  <2>1. \A n \in Meetings : job'[n] = IF n \in Linked(a) THEN Remediated(job[n]) ELSE job[n]
    BY <1>2 DEF Retry, Remediated
  <2>2. \A n \in Linked(a) : n \in Meetings /\ job[n].status = "failed" /\ job[n].audio = a
                             /\ job[n].remediations < MaxRemediations
    BY <1>2 DEF Retry, Linked
  <2>3. \A n \in Linked(a) : /\ job'[n].status = "active" /\ job'[n].recording = "cleanup_pending"
                             /\ job'[n].audio = a
    BY <2>1, <2>2, JobTyped, RemediatedFits DEF Inv
  <2>4. a \in Assets /\ m \in Linked(a)
    BY <1>2, JobTyped DEF Retry, Linked, Inv, Grouped, WellFormed
  <2>5. \A b \in Assets : b # a => cleanup'[b] = cleanup[b]
    BY <1>2 DEF Retry, Inv, Typed, TypeOK
  <2>6. CleanupsAccepted
    BY <2>2, <2>3, <2>4, <2>5 DEF CleanupsAccepted, CleanupMayBecome
  <2>7. RowsAccepted
    BY <2>1, <2>2 DEF RowsAccepted, RowMayBecome
  <2> QED
    BY <2>6, <2>7
<1> QED
  BY <1>1, <1>2

(* The reconciliation of a group. *)
LEMMA GroupAccepted ==
  ASSUME Inv, NEW w \in Workers, FinalizeSuccess(w) \/ FinalizeFailure(w)
  PROVE  RowsAccepted /\ CleanupsAccepted
<1> DEFINE a == job[worker[w].meeting].audio
<1>1. \A n \in Linked(a) :
        /\ n \in Meetings /\ job[n].audio = a /\ job[n] \in JobRow /\ WellFormed(job[n])
        /\ job[n].recording \in {"cleanup_pending", "failed"} /\ RecordingFits(n)
        /\ job[n].status # "none"
  BY JobTyped DEF Linked, Inv, Grouped
<1>2. CASE FinalizeSuccess(w)
  <2>1. /\ cleanup[a] = "succeeded" /\ CleanupsAccepted
        /\ \A n \in Meetings : job'[n] = IF n \in Linked(a) THEN Removed(job[n]) ELSE job[n]
    BY <1>2 DEF FinalizeSuccess, ForGroup, CleanupsAccepted, CleanupMayBecome, Inv, Typed, TypeOK
  <2>2. ASSUME NEW n \in Linked(a) PROVE RowMayBecome(job[n], Removed(job[n]), cleanup[a])
    <3>1. job[n].status = "active" /\ job[n].recording = "cleanup_pending"
      BY <1>1, <2>1 DEF RecordingFits, WellFormed, JobRow
    <3>2. /\ Removed(job[n]).recording = "removed" /\ ~Removed(job[n]).checkpointed
          /\ Removed(job[n]).remediations = job[n].remediations
      BY <1>1, <3>1, RemovedFits
    <3> QED
      BY <2>1, <3>1, <3>2 DEF RowMayBecome, RecordingMoves, KeepsCheckpoint
  <2> QED
    BY <1>1, <2>1, <2>2 DEF RowsAccepted
<1>3. CASE FinalizeFailure(w)
  <2>1. /\ cleanup[a] = "failed" /\ CleanupsAccepted
        /\ \A n \in Meetings : job'[n] = IF n \in Linked(a) THEN Rejected(job[n]) ELSE job[n]
    BY <1>3 DEF FinalizeFailure, ForGroup, CleanupsAccepted, CleanupMayBecome
  <2>2. ASSUME NEW n \in Linked(a), Rejected(job[n]) # job[n]
        PROVE  RowMayBecome(job[n], Rejected(job[n]), cleanup[a])
    <3>1. /\ Rejected(job[n]).recording = "failed"
          /\ Rejected(job[n]).checkpointed = job[n].checkpointed
          /\ Rejected(job[n]).remediations = job[n].remediations /\ job[n].status # "failed"
      BY <1>1, <2>2, RejectedFits
    <3>2. job[n].status # "completed"
      BY <1>1 DEF WellFormed
    <3> QED
      BY <1>1, <2>1, <3>1, <3>2 DEF RowMayBecome, RecordingMoves, KeepsCheckpoint
  <2> QED
    BY <1>1, <2>1, <2>2 DEF RowsAccepted
<1> QED
  BY <1>2, <1>3

(* Whatever interleaves, no save of a handler is one that the repository or a *)
(* trigger refuses: SavesAreAccepted.                                         *)
THEOREM SavesAccepted == Spec => SavesAreAccepted
<1>1. Inv /\ [Next]_vars => RowsAccepted /\ CleanupsAccepted
  <2> SUFFICES ASSUME Inv, [Next]_vars PROVE RowsAccepted /\ CleanupsAccepted
    OBVIOUS
  <2>1. CASE job' = job /\ cleanup' = cleanup
    BY <2>1 DEF RowsAccepted, CleanupsAccepted, CleanupMayBecome
  <2>2. ASSUME NEW a \in Assets, RunCleanup(a) PROVE RowsAccepted /\ CleanupsAccepted
    BY <2>2 DEF RunCleanup, RowsAccepted, CleanupsAccepted, CleanupMayBecome, Inv, Typed, TypeOK
  <2> QED
    BY <2>1, <2>2, OneRowAccepted, RequestAccepted, GroupAccepted
    DEF Next, vars, WorkStep, RefuseIngest, Work, Converge, IngestShared, IngestNew, Truncate,
        ReconcileNothing, Crash, Restart, SettleSpare
<1> QED
  BY <1>1, InitKeeps, StepKeeps, PTL DEF Spec, SavesAreAccepted, RowsAccepted, CleanupsAccepted

-----------------------------------------------------------------------------
(* Completion.                                                             *)

\* No two loops of the service go by the same name.
OwnNames == \A v, w \in Workers : WorkerId[v] = WorkerId[w] => v = w

\* Nothing of a meeting is left in the log when its truncation can be recorded,
\* nor when its erasure is complete.
Clean ==
  /\ \A w \in Workers :
       worker[w].step = "record" /\ OwnsLiveLease(w) => worker[w].meeting \notin wal
  /\ \A m \in Meetings : job[m].status = "completed" => m \notin wal

\* A step that completes nothing, leases nothing, and writes the log only for jobs
\* that are not leased.
Unleasing ==
  /\ \A n \in Meetings :
       (job'[n] # job[n] \/ n \in wal' \ wal) => job'[n].status # "completed" /\ ~job'[n].live
  /\ \A w \in Workers : worker'[w].step = "record" => worker'[w] = worker[w]

(* Such a step leaves everything clean. *)
LEMMA CleanKept ==
  ASSUME Inv, Clean, Unleasing
  PROVE  Clean'
<1>1. ASSUME NEW w \in Workers, worker'[w].step = "record", OwnsLiveLease(w)'
      PROVE  worker'[w].meeting \notin wal'
  BY <1>1 DEF OwnsLiveLease, Clean, Unleasing, Inv, Typed
<1>2. ASSUME NEW m \in Meetings, job'[m].status = "completed"
      PROVE  m \notin wal'
  BY <1>2 DEF Clean, Unleasing
<1> QED
  BY <1>1, <1>2 DEF Clean

(* A loop truncates the log, or finds it busy. *)
LEMMA TruncateCleans ==
  ASSUME Inv, Clean, NEW w \in Workers, Truncate(w)
  PROVE  Clean'
<1>1. CASE wal' = {}
  BY <1>1 DEF Clean
<1>2. CASE wal' = wal /\ worker' = [worker EXCEPT ![w].step = "defer"]
  <2>1. job' = job /\ \A v \in Workers : worker'[v].step = "record" => worker'[v] = worker[v]
    BY <1>2 DEF Truncate, Inv, Typed, TypeOK
  <2> QED
    BY <1>2, <2>1, CleanKept DEF Unleasing
<1> QED
  BY <1>1, <1>2 DEF Truncate

(* A claim under another name takes the job from whoever had it. *)
LEMMA ClaimCleans ==
  ASSUME Inv, Clean, OwnNames, NEW w \in Workers, NEW m \in Meetings, Claim(w, m)
  PROVE  Clean'
<1>1. /\ wal' = wal /\ job[m].status = "active"
      /\ \A n \in Meetings : n # m => job'[n] = job[n]
      /\ job'[m].status = job[m].status /\ job'[m].owner = WorkerId[w]
      /\ \A v \in Workers : v # w => worker'[v] = worker[v]
      /\ worker'[w].step # "record"
  BY JobTyped
  DEF Claim, NeedsCheckpoint, NeedsReconciliation, Free, Inv, Typed, TypeOK, JobRow
<1>2. ASSUME NEW v \in Workers, worker'[v].step = "record", OwnsLiveLease(v)'
      PROVE  worker'[v].meeting \notin wal'
  <2>1. v # w /\ worker'[v] = worker[v] /\ worker[v].meeting \in Meetings
    BY <1>1, <1>2 DEF Inv, Typed
  <2>2. worker[v].meeting # m
    BY <1>1, <1>2, <2>1 DEF OwnsLiveLease, OwnNames
  <2> QED
    BY <1>1, <1>2, <2>1, <2>2 DEF OwnsLiveLease, Clean
<1> QED
  BY <1>1, <1>2 DEF Clean

(* A truncation is recorded by the loop that did it, and nothing was deleted since. *)
LEMMA RecordCleans ==
  ASSUME Inv, Clean, NEW w \in Workers, RecordCheckpoint(w)
  PROVE  Clean'
<1> DEFINE m == worker[w].meeting
<1>1. /\ m \in Meetings /\ wal' = wal
      /\ \A v \in Workers : worker'[v].step = "record" => worker'[v] = worker[v]
  BY DEF RecordCheckpoint, Forget, IdleWorker, Inv, Typed, TypeOK
<1>2. CASE job' = job
  BY <1>1, <1>2, CleanKept DEF Unleasing
<1>3. CASE OwnsLiveLease(w) /\ worker[w].step = "record"
  <2>1. /\ job[m].status = "active" /\ m \notin wal
        /\ \A n \in Meetings : job'[n] = IF n = m THEN Checkpointed(job[m]) ELSE job[n]
    BY <1>1, <1>3 DEF RecordCheckpoint, OwnsLiveLease, Clean, Inv, Typed, TypeOK
  <2>2. ~job'[m].live
    BY <1>1, <2>1, JobTyped, CheckpointedFits DEF Inv
  <2>3. ASSUME NEW v \in Workers, worker'[v].step = "record", OwnsLiveLease(v)'
        PROVE  worker'[v].meeting \notin wal'
    <3>1. worker'[v] = worker[v] /\ worker[v].meeting \in Meetings
      BY <1>1, <2>3 DEF Inv, Typed
    <3>2. worker[v].meeting # m
      BY <2>2, <2>3, <3>1 DEF OwnsLiveLease
    <3> QED
      BY <1>1, <2>1, <2>3, <3>1, <3>2 DEF OwnsLiveLease, Clean
  <2>4. ASSUME NEW n \in Meetings, job'[n].status = "completed" PROVE n \notin wal'
    BY <1>1, <2>1, <2>4 DEF Clean
  <2> QED
    BY <2>3, <2>4 DEF Clean
<1>4. CASE OwnsLiveLease(w) /\ worker[w].step # "record"
  <2>1. /\ job[m].status = "active" /\ job[m].owner # Nobody
        /\ \A n \in Meetings : job'[n] = IF n = m THEN Released(job[m]) ELSE job[n]
    BY <1>1, <1>4, NameAssumption DEF RecordCheckpoint, OwnsLiveLease, Inv, Typed, TypeOK
  <2>2. job'[m].status = "active" /\ ~job'[m].live
    <3>1. job[m] \in JobRow /\ WellFormed(job[m])
      BY <1>1, JobTyped DEF Inv
    <3>2. Released(job[m]).status = "active" /\ ~Released(job[m]).live
      BY <2>1, <3>1, ReleasedFits
    <3> QED
      BY <1>1, <2>1, <3>2
  <2> QED
    BY <1>1, <2>1, <2>2, CleanKept DEF Unleasing
<1> QED
  BY <1>2, <1>3, <1>4 DEF RecordCheckpoint

(* What is deleted for a group is logged before its jobs are leased again. *)
LEMMA GroupCleans ==
  ASSUME Inv, Clean, NEW w \in Workers, FinalizeSuccess(w) \/ FinalizeFailure(w)
  PROVE  Clean'
<1> DEFINE a == job[worker[w].meeting].audio
<1>1. \A v \in Workers : worker'[v].step = "record" => worker'[v] = worker[v]
  BY DEF FinalizeSuccess, FinalizeFailure, Forget, IdleWorker, Inv, Typed, TypeOK
<1>2. \A n \in Linked(a) :
        /\ n \in Meetings /\ job[n].audio = a /\ job[n] \in JobRow /\ WellFormed(job[n])
        /\ job[n].recording \in {"cleanup_pending", "failed"} /\ RecordingFits(n)
        /\ job[n].status # "none"
  BY JobTyped DEF Linked, Inv, Grouped
<1>3. CASE FinalizeSuccess(w)
  <2>1. /\ cleanup[a] = "succeeded" /\ wal' = wal \cup Linked(a)
        /\ \A n \in Meetings : job'[n] = IF n \in Linked(a) THEN Removed(job[n]) ELSE job[n]
    BY <1>3 DEF FinalizeSuccess, ForGroup
  <2>2. \A n \in Linked(a) : job'[n].status = "active" /\ ~job'[n].live
    <3>1. \A n \in Linked(a) : job[n].status = "active"
      BY <1>2, <2>1 DEF RecordingFits, WellFormed, JobRow
    <3> QED
      BY <1>2, <2>1, <3>1, RemovedFits
  <2> QED
    BY <1>1, <2>1, <2>2, CleanKept DEF Unleasing
<1>4. CASE FinalizeFailure(w)
  <2>1. /\ wal' = wal
        /\ \A n \in Meetings : job'[n] = IF n \in Linked(a) THEN Rejected(job[n]) ELSE job[n]
    BY <1>4 DEF FinalizeFailure, ForGroup
  <2>2. \A n \in Linked(a) : job'[n].status # "completed" /\ ~job'[n].live
    BY <1>2, <2>1, RejectedFits
  <2> QED
    BY <1>1, <2>1, <2>2, CleanKept DEF Unleasing
<1> QED
  BY <1>3, <1>4

(* A purge logs the rows it deletes, and those of the waiters it promotes. *)
LEMMA RequestCleans ==
  ASSUME Inv, Clean, NEW m \in Meetings, Purge(m) \/ Retry(m)
  PROVE  Clean'
<1>1. worker' = worker
  BY DEF Purge, Retry
<1>2. CASE Purge(m)
  <2> DEFINE a == meeting[m].audio
             last == Using(a) = {m}
  <2>1. /\ a \in Assets /\ wal' = wal \cup {m} \cup (IF last THEN Waiting(a) ELSE {})
        /\ job'[m] = ErasureJob(a, IF last THEN "cleanup_pending" ELSE "waiting_shared")
        /\ \A n \in Meetings :
             n # m => job'[n] = IF last THEN Promoted(a, job[n]) ELSE job[n]
    BY <1>2 DEF Purge, Inv, Grouped
  <2>2. job'[m].status = "active" /\ ~job'[m].live
    BY <2>1, ErasureJobFits
  <2>3. ASSUME NEW n \in Meetings, n # m, last
        PROVE  IF n \in Waiting(a) THEN job'[n].status # "completed" /\ ~job'[n].live
               ELSE job'[n] = job[n]
    <3>1. /\ job'[n] = Promoted(a, job[n]) /\ job[n] \in JobRow /\ WellFormed(job[n])
          /\ job[n].status = "none" => job[n].recording = "none"
      BY <2>1, <2>3, JobTyped DEF Inv, Grouped
    <3>2. job[n].recording = "waiting_shared" => job[n].status # "completed"
      BY <3>1 DEF WellFormed
    <3> QED
      BY <3>1, <3>2, PromotedFits DEF Waiting
  <2>4. ASSUME NEW n \in Meetings, job'[n] # job[n] \/ n \in wal' \ wal
        PROVE  job'[n].status # "completed" /\ ~job'[n].live
    <3>1. CASE n = m
      BY <2>2, <3>1
    <3>2. CASE n # m /\ last
      BY <2>1, <2>3, <2>4, <3>2
    <3>3. CASE n # m /\ ~last
      BY <2>1, <2>4, <3>3
    <3> QED
      BY <3>1, <3>2, <3>3
  <2> QED
    BY <1>1, <2>4, CleanKept DEF Unleasing
<1>3. CASE Retry(m)
  <2> DEFINE a == job[m].audio
  <2>1. /\ wal' = wal
        /\ \A n \in Meetings : job'[n] = IF n \in Linked(a) THEN Remediated(job[n]) ELSE job[n]
    BY <1>3 DEF Retry, Remediated
  <2>2. \A n \in Linked(a) : job'[n].status = "active" /\ ~job'[n].live
    <3>1. \A n \in Linked(a) : /\ n \in Meetings /\ job[n].status = "failed"
                               /\ job[n].remediations < MaxRemediations
                               /\ job[n] \in JobRow /\ WellFormed(job[n])
      BY <1>3, JobTyped DEF Retry, Linked, Inv
    <3>2. \A n \in Linked(a) : ~job[n].live
      BY <3>1 DEF WellFormed
    <3>3. \A n \in Linked(a) : Remediated(job[n]).live = job[n].live
      BY <3>1 DEF Remediated, JobRow
    <3> QED
      BY <2>1, <3>1, <3>2, <3>3, RemediatedFits
  <2> QED
    BY <1>1, <2>1, <2>2, CleanKept DEF Unleasing
<1> QED
  BY <1>2, <1>3

(* A lease that is over, and a delay that is over. *)
LEMMA TimeCleans ==
  ASSUME Inv, Clean, NEW m \in Meetings, LapseLease(m) \/ BecomeDue(m)
  PROVE  Clean'
<1>1. /\ worker' = worker /\ wal' = wal /\ job[m] \in JobRow /\ WellFormed(job[m])
      /\ \A n \in Meetings : n # m => job'[n] = job[n]
  BY JobTyped DEF LapseLease, BecomeDue, Inv, Typed, TypeOK
<1>2. job'[m].status = job[m].status /\ ~job'[m].live
  <2>1. CASE LapseLease(m)
    BY <1>1, <2>1 DEF LapseLease, Inv, Typed, TypeOK, JobRow
  <2>2. CASE BecomeDue(m)
    <3>1. job'[m].status = job[m].status /\ job'[m].live = job[m].live
      BY <1>1, <2>2 DEF BecomeDue, Inv, Typed, TypeOK, JobRow
    <3> QED
      BY <1>1, <2>2, <3>1 DEF BecomeDue, WellFormed
  <2> QED
    BY <2>1, <2>2
<1>3. job[m].status = "active"
  BY <1>1 DEF LapseLease, BecomeDue, WellFormed
<1> QED
  BY <1>1, <1>2, <1>3, CleanKept DEF Unleasing

(* Where no two loops go by the same name, a completed erasure has left nothing *)
(* behind: no recording, no cleanup row, nothing in the log.  A loop that comes *)
(* back under a name that claimed the job anew could record a truncation of     *)
(* before its last deletion: CompletedMeansGone.                                *)
THEOREM CompletedIsGone ==
  ASSUME OwnNames
  PROVE  Spec => []CompletedMeansGone
<1>1. Init => Clean
  BY DEF Init, Clean, IdleWorker, NoJob
<1>2. Inv /\ Clean /\ [Next]_vars => Clean'
  <2> SUFFICES ASSUME Inv, Clean, [Next]_vars PROVE Clean'
    OBVIOUS
  <2>1. CASE /\ job' = job /\ wal' = wal
             /\ \A v \in Workers : worker'[v].step = "record" => worker'[v] = worker[v]
    BY <2>1, CleanKept DEF Unleasing
  <2>2. CASE \E w \in Workers : ReconcileNothing(w) \/ Crash(w)
    BY <2>2, CleanKept DEF Unleasing, ReconcileNothing, Crash, Forget, IdleWorker, Inv, Typed, TypeOK
  <2> QED
    BY <2>1, <2>2, TruncateCleans, ClaimCleans, RecordCleans, GroupCleans, RequestCleans, TimeCleans
    DEF Next, vars, WorkStep, RefuseIngest, Work, Converge, IngestShared, IngestNew, RunCleanup,
        Restart, SettleSpare
<1>3. Inv /\ Clean => CompletedMeansGone
  BY JobTyped DEF Inv, Clean, Grouped, RecordingFits, WellFormed, CompletedMeansGone
<1> QED
  BY <1>1, <1>2, <1>3, InitKeeps, StepKeeps, PTL DEF Spec
=============================================================================
