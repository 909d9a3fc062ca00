------------------------------- MODULE Erasure -------------------------------
(***************************************************************************)
(* The erasure of meetings whose recordings have the same content: the     *)
(* request that deletes a meeting (application/meeting_erasure.py), the    *)
(* worker that follows the recording's cleanup and truncates the           *)
(* write-ahead log (application/meeting_erasure_worker.py), an operator's   *)
(* retry, and the keyring under which erased identities are remembered     *)
(* (infrastructure/erasure_tokens.py).  Ingest appears as what it does to  *)
(* meetings and assets, and cleanup as its outcome: both are modelled in   *)
(* Recording.                                                              *)
(*                                                                         *)
(* One action is one unit of work, the truncation of the log, or the start *)
(* of the service with a keyring.  A request key names one binding: a      *)
(* replay finds it, answers with its job and changes nothing; so does a    *)
(* request refused for its version.                                        *)
(***************************************************************************)
EXTENDS Naturals, Sequences, FiniteSets

CONSTANTS
  Meetings,         \* ingest requests, and the meeting each of them makes
  MaxAsset,         \* bound: how many audio assets the content may get in turn
  Workers,          \* erasure loops
  WorkerId,         \* the owner name of each
  Names,            \* owner names
  KeyIds,           \* ids of erasure keys
  Secrets,          \* what a key id may stand for
  Keyrings,         \* the configurations the service may be started with
  MaxRemediations,  \* meeting_erasure_max_remediations
  MaxRequests,      \* bound: erasure and retry requests that get a binding
  MaxFaults,        \* bound: busy logs, failed cleanups, deaths, slow workers
  Nobody

Assets == 1 .. MaxAsset
NoToken == <<Nobody, Nobody>>

ASSUME NameAssumption == WorkerId \in [Workers -> Names] /\ Nobody \notin Names \cup Secrets
ASSUME BoundAssumption ==
  /\ MaxAsset \in Nat /\ MaxRequests \in Nat /\ MaxFaults \in Nat
  /\ MaxRemediations \in Nat \ {0}
ASSUME KeyringAssumption ==
  \A c \in Keyrings :
    /\ c.active \in DOMAIN c.secrets /\ DOMAIN c.secrets \subseteq KeyIds
    /\ \A id \in DOMAIN c.secrets : c.secrets[id] \in Secrets
    /\ \A i, j \in DOMAIN c.secrets : c.secrets[i] = c.secrets[j] => i = j

VARIABLES
  meeting,    \* the meetings there are: absent or live, its asset, work under way
  asset,      \* of each audio asset: unused, stored (it has a row), deleted
  files,      \* the assets whose recording is still in the directory
  cleanup,    \* the cleanup job an erasure scheduled for an asset
  spare,      \* the cleanup job of a duplicate upload of the content
  job,        \* the erasure job of each meeting
  tombstone,  \* under which key each erased ingest identity is remembered
  bindings,   \* the requests that were accepted, in their order
  keyring,    \* the keys the running service has
  verifier,   \* the secret registered for each key id
  wal,        \* the meetings of which deleted rows may still be in the log
  worker,     \* what each loop holds
  faults

clients == <<meeting, asset, files, spare>>
keys == <<tombstone, bindings, keyring, verifier>>
vars == <<clients, cleanup, job, keys, wal, worker, faults>>

NoJob == [status |-> "none", recording |-> "none", audio |-> 0, checkpointed |-> FALSE,
          due |-> FALSE, owner |-> Nobody, live |-> FALSE, remediations |-> 0]
IdleWorker == [step |-> "idle", meeting |-> Nobody]

Init ==
  /\ meeting = [m \in Meetings |-> [live |-> FALSE, audio |-> 0, busy |-> FALSE]]
  /\ asset = [a \in Assets |-> "unused"]
  /\ files = {}
  /\ cleanup = [a \in Assets |-> "none"]
  /\ spare = "none"
  /\ job = [m \in Meetings |-> NoJob]
  /\ tombstone = [m \in Meetings |-> NoToken]
  /\ bindings = <<>>
  /\ keyring \in Keyrings
  /\ verifier = [id \in KeyIds |-> IF id \in DOMAIN keyring.secrets THEN keyring.secrets[id]
                                   ELSE Nobody]
  /\ wal = {}
  /\ worker = [w \in Workers |-> IdleWorker]
  /\ faults = 0

Fault == faults < MaxFaults /\ faults' = faults + 1

-----------------------------------------------------------------------------
\* Erased identities.

\* Mutant: the tokens of the active key only are looked up.
KnownToActive(token) ==
  token[1] = keyring.active /\ token[2] = keyring.secrets[keyring.active]

\* Is a token found by the candidates of all configured keys?
Known(token) ==
  token[1] \in DOMAIN keyring.secrets /\ token[2] = keyring.secrets[token[1]]

ActiveToken == <<keyring.active, keyring.secrets[keyring.active]>>

\* list_referenced_tokens
Referenced ==
  {tombstone[m][1] : m \in {n \in Meetings : tombstone[n] # NoToken}}
    \cup {bindings[i].token[1] : i \in 1 .. Len(bindings)}

\* ensure_registered: every key agrees with its verifier, and no key that a token
\* refers to is missing.
Verifies(c) ==
  /\ \A id \in DOMAIN c.secrets : verifier[id] \in {Nobody, c.secrets[id]}
  /\ Referenced \subseteq DOMAIN c.secrets

\* The service is stopped and started with a keyring, and refuses one that does
\* not verify.  Leases stay as they are.
Restart(c) ==
  /\ \A w \in Workers : worker[w] = IdleWorker
  /\ Verifies(c) /\ c # keyring
  /\ keyring' = c
  /\ verifier' = [id \in KeyIds |-> IF id \in DOMAIN c.secrets THEN c.secrets[id] ELSE verifier[id]]
  /\ UNCHANGED <<clients, cleanup, job, tombstone, bindings, wal, worker, faults>>

-----------------------------------------------------------------------------
\* Meetings come, work, and their duplicates are cleaned up.

Using(a) == {m \in Meetings : meeting[m].live /\ meeting[m].audio = a}
Stored == {a \in Assets : asset[a] = "stored"}
Duplicate == IF spare = "none" THEN "open" ELSE spare

\* An ingest whose content has an asset shares it and leaves a duplicate file.
IngestShared(m, a) ==
  /\ ~meeting[m].live /\ ~Known(tombstone[m]) /\ a \in Stored
  /\ meeting' = [meeting EXCEPT ![m].live = TRUE, ![m].audio = a]
  /\ spare' = Duplicate
  /\ UNCHANGED <<asset, files, cleanup, job, keys, wal, worker, faults>>

IngestNew(m, a) ==
  /\ ~meeting[m].live /\ ~Known(tombstone[m]) /\ Stored = {}
  /\ asset[a] = "unused" /\ \A b \in Assets : b < a => asset[b] # "unused"
  /\ meeting' = [meeting EXCEPT ![m].live = TRUE, ![m].audio = a]
  /\ asset' = [asset EXCEPT ![a] = "stored"]
  /\ files' = files \cup {a}
  /\ UNCHANGED <<spare, cleanup, job, keys, wal, worker, faults>>

\* An ingest refused for its tombstone leaves its file as a duplicate.
RefuseIngest(m) ==
  /\ ~meeting[m].live /\ Known(tombstone[m])
  /\ spare' = Duplicate
  /\ UNCHANGED <<meeting, asset, files, cleanup, job, keys, wal, worker, faults>>

SettleSpare ==
  /\ spare = "open"
  /\ \/ spare' = "none" /\ UNCHANGED faults
     \/ spare' = "failed" /\ Fault
  /\ UNCHANGED <<meeting, asset, files, cleanup, job, keys, wal, worker>>

\* A stage or a delivery of m runs, or ends.
Work(m) ==
  /\ meeting[m].live
  /\ meeting' = [meeting EXCEPT ![m].busy = ~@]
  /\ UNCHANGED <<asset, files, spare, cleanup, job, keys, wal, worker, faults>>

\* A cleanup job comes to its end; a failed one leaves the file.
RunCleanup(a) ==
  /\ cleanup[a] = "ready"
  /\ \/ /\ cleanup' = [cleanup EXCEPT ![a] = "succeeded"]
        /\ files' = files \ {a}
        /\ UNCHANGED faults
     \/ cleanup' = [cleanup EXCEPT ![a] = "failed"] /\ Fault /\ UNCHANGED files
  /\ UNCHANGED <<meeting, asset, spare, job, keys, wal, worker>>

-----------------------------------------------------------------------------
\* The request.

\* list_by_cleanup_job_id, list_by_pending_audio_asset_id
Linked(a) == {m \in Meetings : job[m].audio = a /\ job[m].recording \in {"cleanup_pending", "failed"}}
Waiting(a) == {m \in Meetings : job[m].audio = a /\ job[m].recording = "waiting_shared"}

Bind(op, m) == bindings' = Append(bindings, [op |-> op, meeting |-> m, token |-> ActiveToken])
MayBind == Len(bindings) < MaxRequests

\* _converge_tombstone: another request for an erased meeting gets its job.
Converge(m) ==
  /\ MayBind /\ Known(tombstone[m]) /\ ~meeting[m].live
  /\ Bind("request", m)
  /\ UNCHANGED <<clients, cleanup, job, tombstone, keyring, verifier, wal, worker, faults>>

\* _remove_known_cleanup_history: no unfinished cleanup of the content, and no
\* finished one that an erasure still refers to.
HistoryIsSettled ==
  /\ spare = "none"
  /\ \A a \in Assets : cleanup[a] # "none" => cleanup[a] = "succeeded" /\ Linked(a) = {}

\* Mutant: waiters are left waiting.
PromotedNobody(a, row) == row

\* Mutant: a waiter's early checkpoint is kept.
PromotedAsWas(a, row) ==
  IF row.recording = "waiting_shared" /\ row.audio = a
  THEN [row EXCEPT !.recording = "cleanup_pending", !.due = ~row.checkpointed,
                   !.owner = Nobody, !.live = FALSE]
  ELSE row

\* _promote_waiter
Promoted(a, row) ==
  IF row.recording = "waiting_shared" /\ row.audio = a
  THEN [row EXCEPT !.recording = "cleanup_pending", !.checkpointed = FALSE, !.due = TRUE,
                   !.owner = Nobody, !.live = FALSE]
  ELSE row

ErasureJob(a, recording) ==
  [NoJob EXCEPT !.status = "active", !.recording = recording, !.audio = a, !.due = TRUE]

\* _purge_meeting
Purge(m) ==
  LET a == meeting[m].audio
      last == Using(a) = {m}
      settled == [b \in Assets |-> IF cleanup[b] = "succeeded" THEN "none" ELSE cleanup[b]]
  IN
  /\ MayBind /\ meeting[m].live /\ ~meeting[m].busy /\ ~Known(tombstone[m])
  /\ HistoryIsSettled
  /\ meeting' = [meeting EXCEPT ![m] = [live |-> FALSE, audio |-> 0, busy |-> FALSE]]
  /\ asset' = IF last THEN [asset EXCEPT ![a] = "deleted"] ELSE asset
  /\ cleanup' = IF last THEN [settled EXCEPT ![a] = "ready"] ELSE settled
  /\ job' = [n \in Meetings |->
               IF n = m THEN ErasureJob(a, IF last THEN "cleanup_pending" ELSE "waiting_shared")
               ELSE IF last THEN Promoted(a, job[n]) ELSE job[n]]
  /\ tombstone' = [tombstone EXCEPT ![m] = ActiveToken]
  /\ wal' = wal \cup {m} \cup (IF last THEN Waiting(a) ELSE {})
  /\ Bind("request", m)
  /\ UNCHANGED <<files, spare, keyring, verifier, worker, faults>>

\* _retry and reactivate_failed_cleanup_group: the whole group, or nobody.
Retry(m) ==
  LET a == job[m].audio IN
  /\ MayBind /\ job[m].status = "failed" /\ cleanup[a] = "failed"
  /\ \A n \in Linked(a) : job[n].status = "failed" /\ job[n].remediations < MaxRemediations
  /\ job' = [n \in Meetings |->
               IF n \in Linked(a)
               THEN [job[n] EXCEPT !.status = "active", !.recording = "cleanup_pending",
                                   !.remediations = @ + 1]
               ELSE job[n]]
  /\ cleanup' = [cleanup EXCEPT ![a] = "ready"]
  /\ Bind("retry", m)
  /\ UNCHANGED <<clients, tombstone, keyring, verifier, wal, worker, faults>>

-----------------------------------------------------------------------------
\* The worker.

\* Mutant: a cleanup that failed is not reconciled.
FinishedWell(a) == cleanup[a] = "succeeded"

Finished(a) == cleanup[a] \in {"succeeded", "failed"}

Free(m) == job[m].status = "active" /\ ~job[m].live
\* A leased row has no time of its next attempt.
NeedsCheckpoint(m) == Free(m) /\ ~job[m].checkpointed /\ (job[m].due \/ job[m].owner # Nobody)
NeedsReconciliation(m) ==
  /\ Free(m) /\ job[m].checkpointed
  /\ job[m].recording = "cleanup_pending" /\ Finished(job[m].audio)

\* claim_actionable: jobs without a checkpoint come first.
Claim(w, m) ==
  /\ worker[w].step = "idle"
  /\ \/ NeedsCheckpoint(m)
     \/ NeedsReconciliation(m) /\ \A n \in Meetings : ~NeedsCheckpoint(n)
  /\ job' = [job EXCEPT ![m].due = FALSE, ![m].owner = WorkerId[w], ![m].live = TRUE]
  /\ worker' = [worker EXCEPT ![w] = [step |-> IF job[m].checkpointed THEN "reconcile"
                                               ELSE "truncate", meeting |-> m]]
  /\ UNCHANGED <<clients, cleanup, keys, wal, faults>>

\* truncate_wal: a reader may keep the log from being truncated.
Truncate(w) ==
  /\ worker[w].step = "truncate"
  /\ \/ /\ wal' = {} /\ worker' = [worker EXCEPT ![w].step = "record"]
        /\ UNCHANGED faults
     \/ /\ Fault /\ worker' = [worker EXCEPT ![w].step = "defer"]
        /\ UNCHANGED wal
  /\ UNCHANGED <<clients, cleanup, job, keys>>

OwnsLiveLease(w) ==
  LET row == job[worker[w].meeting] IN
  row.status = "active" /\ row.owner = WorkerId[w] /\ row.live

\* Mutant: the owner stays on the row.
Unleased(row) == [row EXCEPT !.live = FALSE]

Released(row) == [row EXCEPT !.owner = Nobody, !.live = FALSE]

\* What a truncated log makes of a job: the end of one whose recording is settled.
Checkpointed(row) ==
  [Released(row) EXCEPT
     !.checkpointed = TRUE, !.due = FALSE,
     !.status = CASE row.recording = "removed" -> "completed"
                  [] row.recording = "failed"  -> "failed"
                  [] OTHER                     -> "active"]

Forget(w) == worker' = [worker EXCEPT ![w] = IdleWorker]

\* _record_checkpoint_success, _record_checkpoint_retry; without its lease the
\* worker records nothing.
RecordCheckpoint(w) ==
  LET m == worker[w].meeting IN
  /\ worker[w].step \in {"record", "defer"}
  /\ job' = IF ~OwnsLiveLease(w) THEN job
            ELSE [job EXCEPT ![m] = IF worker[w].step = "record" THEN Checkpointed(@)
                                    ELSE Released(@)]
  /\ Forget(w)
  /\ UNCHANGED <<clients, cleanup, keys, wal, faults>>

\* Mutant: the checkpoint of before the cleanup is enough.
RemovedAndDone(row) ==
  [Released(row) EXCEPT !.recording = "removed", !.status = "completed"]

\* The recording is gone; what is left is to sanitize the database once more.
Removed(row) ==
  [Released(row) EXCEPT !.recording = "removed", !.checkpointed = FALSE, !.due = TRUE]

Rejected(row) ==
  [Released(row) EXCEPT !.recording = "failed", !.due = ~row.checkpointed,
                        !.status = IF row.checkpointed THEN "failed" ELSE "active"]

\* _validate_cleanup_group: nobody else of the group is being worked on.
GroupIsFree(m) == \A n \in Linked(job[m].audio) \ {m} : ~job[n].live

ForGroup(a, Outcome(_)) ==
  job' = [n \in Meetings |-> IF n \in Linked(a) THEN Outcome(job[n]) ELSE job[n]]

\* _reconcile_cleanup when the recording is gone: the cleanup's row goes as well.
FinalizeSuccess(w) ==
  LET a == job[worker[w].meeting].audio IN
  /\ worker[w].step = "reconcile" /\ OwnsLiveLease(w)
  /\ cleanup[a] = "succeeded" /\ GroupIsFree(worker[w].meeting)
  /\ ForGroup(a, Removed)
  /\ cleanup' = [cleanup EXCEPT ![a] = "none"]
  /\ wal' = wal \cup Linked(a)
  /\ Forget(w)
  /\ UNCHANGED <<clients, keys, faults>>

FinalizeFailure(w) ==
  LET a == job[worker[w].meeting].audio IN
  /\ worker[w].step = "reconcile" /\ OwnsLiveLease(w)
  /\ cleanup[a] = "failed" /\ GroupIsFree(worker[w].meeting)
  /\ ForGroup(a, Rejected)
  /\ Forget(w)
  /\ UNCHANGED <<clients, cleanup, keys, wal, faults>>

\* LEASE_LOST: also when somebody else of the group is leased or the cleanup runs
\* again.  A lease that is still held is not given back.
ReconcileNothing(w) ==
  LET m == worker[w].meeting IN
  /\ worker[w].step = "reconcile"
  /\ ~OwnsLiveLease(w) \/ ~GroupIsFree(m) \/ ~Finished(job[m].audio)
  /\ Forget(w)
  /\ UNCHANGED <<clients, cleanup, job, keys, wal, faults>>

-----------------------------------------------------------------------------
HeldBy(w, m) == worker[w].step # "idle" /\ worker[w].meeting = m

\* A lease runs out: that of a worker at work is a fault.
LapseLease(m) ==
  /\ job[m].live
  /\ job' = [job EXCEPT ![m].live = FALSE]
  /\ IF \E w \in Workers : HeldBy(w, m) THEN Fault ELSE UNCHANGED faults
  /\ UNCHANGED <<clients, cleanup, keys, wal, worker>>

\* The delay after a busy log is over.
BecomeDue(m) ==
  /\ job[m].status = "active" /\ job[m].owner = Nobody /\ ~job[m].checkpointed /\ ~job[m].due
  /\ job' = [job EXCEPT ![m].due = TRUE]
  /\ UNCHANGED <<clients, cleanup, keys, wal, worker, faults>>

\* A worker dies, or its unit of work raises.
Crash(w) ==
  /\ worker[w] # IdleWorker /\ Fault
  /\ Forget(w)
  /\ UNCHANGED <<clients, cleanup, job, keys, wal>>

WorkStep(w) ==
  \/ Truncate(w) \/ RecordCheckpoint(w)
  \/ FinalizeSuccess(w) \/ FinalizeFailure(w) \/ ReconcileNothing(w)

Next ==
  \/ \E m \in Meetings : \/ RefuseIngest(m) \/ Work(m) \/ Converge(m) \/ Purge(m) \/ Retry(m)
                         \/ LapseLease(m) \/ BecomeDue(m)
                         \/ \E a \in Assets : IngestShared(m, a) \/ IngestNew(m, a)
  \/ \E a \in Assets : RunCleanup(a)
  \/ \E w \in Workers : WorkStep(w) \/ Crash(w) \/ \E m \in Meetings : Claim(w, m)
  \/ \E c \in Keyrings : Restart(c)
  \/ SettleSpare

Spec == Init /\ [][Next]_vars

\* The erasure and cleanup loops of the supervisor run again and again, and time
\* passes.
Fairness ==
  /\ \A w \in Workers : WF_vars(WorkStep(w)) /\ WF_vars(\E m \in Meetings : Claim(w, m))
  /\ \A m \in Meetings : WF_vars(LapseLease(m)) /\ WF_vars(BecomeDue(m))
  /\ \A a \in Assets : WF_vars(RunCleanup(a))

FairSpec == Spec /\ Fairness

-----------------------------------------------------------------------------
\* Properties.

Tokens == {NoToken} \cup (KeyIds \X Secrets)
JobRow ==
  [status : {"none", "active", "completed", "failed"},
   recording : {"none", "waiting_shared", "cleanup_pending", "removed", "failed"},
   audio : Assets \cup {0}, checkpointed : BOOLEAN, due : BOOLEAN,
   owner : Names \cup {Nobody}, live : BOOLEAN, remediations : 0 .. MaxRemediations]

\* The validators of MeetingErasureJob.
WellFormed(row) ==
  /\ (row.owner # Nobody \/ row.due) => row.status = "active"
  /\ row.due => row.owner = Nobody /\ ~row.checkpointed
  /\ row.live => row.owner # Nobody
  /\ row.status = "active" /\ row.checkpointed => row.recording \notin {"removed", "failed"}
  /\ row.status = "completed" => row.recording = "removed" /\ row.checkpointed
  /\ row.status = "failed" => row.recording = "failed" /\ row.checkpointed

\* How the repository and the triggers of the database let a stored row change,
\* where outcome is the status of its cleanup when it is saved.
RecordingMoves(outcome) ==
  {<<"waiting_shared", "cleanup_pending">>}
    \cup (IF outcome = "succeeded" THEN {"cleanup_pending", "failed"} \X {"removed"} ELSE {})
    \cup (IF outcome = "failed" THEN {<<"cleanup_pending", "failed">>} ELSE {})

\* A checkpoint is taken back exactly when there is something new to truncate.
KeepsCheckpoint(row, new) ==
  IF row.recording # new.recording /\ new.recording \in {"cleanup_pending", "removed"}
  THEN ~new.checkpointed
  ELSE row.checkpointed => new.checkpointed

Remediated(row) ==
  [row EXCEPT !.status = "active", !.recording = "cleanup_pending", !.remediations = @ + 1]

RowMayBecome(row, new, outcome) ==
  IF row.status = "failed" THEN new = Remediated(row)
  ELSE /\ row.status # "completed" /\ new.remediations = row.remediations
       /\ \/ row.recording = new.recording
          \/ <<row.recording, new.recording>> \in RecordingMoves(outcome)
       /\ KeepsCheckpoint(row, new)

\* The terminal cleanup of an erasure starts again only for a group that waits.
CleanupMayBecome(a, new) ==
  cleanup[a] = "failed" /\ new = "ready" =>
    /\ \E n \in Meetings : job'[n].audio = a /\ job'[n].recording = "cleanup_pending"
    /\ \A n \in Linked(a) : job'[n].status = "active" /\ job'[n].recording = "cleanup_pending"

\* Every variable has its type, and no handler saves an erasure job that its model
\* refuses.
TypeOK ==
  /\ meeting \in [Meetings -> [live : BOOLEAN, audio : Assets \cup {0}, busy : BOOLEAN]]
  /\ asset \in [Assets -> {"unused", "stored", "deleted"}] /\ files \subseteq Assets
  /\ cleanup \in [Assets -> {"none", "ready", "succeeded", "failed"}]
  /\ spare \in {"none", "open", "failed"}
  /\ job \in [Meetings -> JobRow] /\ \A m \in Meetings : WellFormed(job[m])
  /\ tombstone \in [Meetings -> Tokens]
  /\ bindings \in Seq([op : {"request", "retry"}, meeting : Meetings, token : Tokens])
  /\ Len(bindings) <= MaxRequests
  /\ keyring \in Keyrings /\ verifier \in [KeyIds -> Secrets \cup {Nobody}]
  /\ wal \subseteq Meetings
  /\ worker \in [Workers -> [step : {"idle", "truncate", "record", "defer", "reconcile"},
                             meeting : Meetings \cup {Nobody}]]
  /\ faults \in 0 .. MaxFaults

\* An erased meeting does not come back: no ingest makes it again, whichever
\* keyrings that verified the service was started with since (ARCHITECTURE.md:198).
ErasedStaysErased == \A m \in Meetings : job[m].status # "none" => ~meeting[m].live

\* A completed erasure has left nothing: no recording, no cleanup row, and nothing
\* in the log of what was deleted for it, the cleanup row included
\* (ARCHITECTURE.md:221).
CompletedMeansGone ==
  \A m \in Meetings :
    job[m].status = "completed" =>
      job[m].audio \notin files /\ cleanup[job[m].audio] = "none" /\ m \notin wal

\* No save of a handler is one that the repository refuses or a trigger aborts:
\* whatever interleaves, a row is only moved along the erasure's own path, with the
\* outcome of its cleanup, and never skips the truncation that has to follow
\* (repositories.py save, database.py:784-1010).
SavesAreAccepted ==
  [][/\ \A m \in Meetings : job[m].status # "none" /\ job'[m] # job[m] =>
          RowMayBecome(job[m], job'[m], cleanup[job[m].audio])
     /\ \A a \in Assets : CleanupMayBecome(a, cleanup'[a])]_vars

\* Nobody waits for a cleanup that never comes: who waits for a shared recording
\* has a meeting that still uses it, and who waits for a cleanup has its row.
WaitersAreServed ==
  \A m \in Meetings :
    LET a == job[m].audio IN
    CASE job[m].recording = "waiting_shared"              -> asset[a] = "stored" /\ Using(a) # {}
      [] job[m].recording \in {"cleanup_pending", "failed"} -> cleanup[a] # "none" /\ asset[a] = "deleted"
      [] OTHER                                             -> TRUE

\* Once nobody else uses its recording, an erasure completes or fails, if no other
\* erasure waits for the same cleanup.
Alone(m) == job[m].recording = "removed" \/ Linked(job[m].audio) = {m}

LoneErasureEnds ==
  \A m \in Meetings : job[m].status = "active" /\ Alone(m) ~> job[m].status # "active"

\* Once nobody else uses its recording, an erasure completes or fails
\* (ARCHITECTURE.md:299, "erasure jobs use leases so abandoned work can be
\* classified and recovered").
ErasureEnds ==
  \A m \in Meetings :
    job[m].status = "active" /\ job[m].recording # "waiting_shared" ~> job[m].status # "active"
=============================================================================
