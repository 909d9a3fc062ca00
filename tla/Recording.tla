------------------------------ MODULE Recording ------------------------------
(***************************************************************************)
(* The recordings of one upload directory: how a file gets there           *)
(* (infrastructure/audio.py), how an ingest makes it an audio asset or     *)
(* abandons it (application/workflow.py), how a file nobody owns is found  *)
(* and how cleanup jobs remove files                                       *)
(* (application/recording_cleanup.py, infrastructure/recording_quarantine  *)
(* .py, the recording_cleanups repository).  Meeting erasure appears as    *)
(* what it does to assets and cleanup rows; its own life is in Erasure.    *)
(*                                                                         *)
(* One action is one transaction or one change of the directory.  A stored *)
(* file is one inode: its number is the generated storage id, and the      *)
(* names it may have are the temporary key and the final key, each in the  *)
(* directory itself or in .quarantine.                                     *)
(***************************************************************************)
EXTENDS Naturals, FiniteSets

CONSTANTS
  MaxId,         \* bound: storage ids that uploads may generate, 1 to MaxId
  Contents,      \* what a complete recording may contain (its digest)
  Requests,      \* ingest keys
  Uploads,       \* ingest requests being served
  Cleaners,      \* cleanup workers
  Processes,     \* operating-system processes on the same directory
  Home,          \* the process of each upload and cleaner
  FinderHome,    \* the process whose orphan discovery is modelled
  Names,         \* lease-owner names
  CleanerName,   \* the name each cleanup worker claims with
  MaxAttempts,   \* max_attempts of a cleanup job
  MaxRetries,    \* bound: operator retries of a failed erasure
  PageLimit,     \* recordings one discovery cycle may examine
  MaxFaults,     \* bound: crashes, lapsed leases, errors of disk and database
  Prompt,        \* does an upload settle before its file is older than the
                 \* grace period of orphan discovery?
  Nobody

ASSUME NumberAssumption ==
  /\ MaxId \in Nat \ {0} /\ PageLimit \in Nat \ {0} /\ MaxAttempts \in Nat \ {0}
  /\ MaxRetries \in Nat /\ MaxFaults \in Nat /\ Prompt \in BOOLEAN
ASSUME PlaceAssumption ==
  /\ Home \in [Uploads \cup Cleaners -> Processes] /\ FinderHome \in Processes
  /\ CleanerName \in [Cleaners -> Names]
  /\ Nobody \notin Names \cup Contents \cup Requests \cup {"partial", "erased"}
  /\ "partial" \notin Contents /\ "erased" \notin Contents

VARIABLES
  root,        \* the keys present in the directory
  quarantine,  \* the keys present in .quarantine
  content,     \* what the file of each storage id contains
  old,         \* the storage ids whose file is older than the grace period
  asset,       \* audio_assets: the storage id owned for each digest, 0 if none
  meeting,     \* meetings and tombstones by ingest key
  cleanup,     \* recording_cleanup_jobs by storage key
  upload,      \* what an ingest request holds in memory
  cleaner,     \* what a cleanup worker holds in memory
  finder,      \* what orphan discovery holds in memory
  faults       \* faults so far

files == <<root, quarantine, content, old>>
rows == <<asset, meeting, cleanup>>
actors == <<upload, cleaner, finder>>
vars == <<files, rows, actors, faults>>

-----------------------------------------------------------------------------
\* Keys and rows.

Ids == 1..MaxId

\* A temporary key sorts before every final key, because it starts with a dot.
Keys == 1..(2 * MaxId)
PartKey(i) == i
FinalKey(i) == MaxId + i
IdOf(k) == IF k <= MaxId THEN k ELSE k - MaxId

\* A file's state as lstat reports it: every change of its names changes ctime.
Stat(i) == <<root \cap {PartKey(i), FinalKey(i)}, quarantine \cap {PartKey(i), FinalKey(i)},
             content[i]>>

Row(status, sha, reason) ==
  [status |-> status, sha |-> sha, reason |-> reason, attempts |-> 0, retries |-> 0,
   due |-> TRUE, owner |-> Nobody, live |-> FALSE]

NoRow == Row("absent", Nobody, "none")

\* What the table's CHECK clauses and the model's validators accept.
WellFormed(row) ==
  /\ row.attempts <= MaxAttempts
  /\ (row.status = "running") = (row.owner # Nobody)
  /\ row.live => row.status = "running"

Owned(k) == \E c \in Contents : asset[c] # 0 /\ FinalKey(asset[c]) = k
HasJob(k) == cleanup[k].status # "absent"

IdleUpload == [step |-> "idle", id |-> 0, request |-> Nobody, sha |-> Nobody]
NoStat == <<{}, {}, Nobody>>
IdleCleaner == [step |-> "idle", key |-> 0, own |-> FALSE, sha |-> Nobody, stat |-> NoStat]
FreshFinder == [step |-> "idle", cursor |-> 0, next |-> 0, page |-> {}, stale |-> {},
                active |-> {}, stat |-> [k \in Keys |-> NoStat], sha |-> Nobody]

Init ==
  /\ root = {} /\ quarantine = {} /\ old = {}
  /\ content = [i \in Ids |-> Nobody]
  /\ asset = [c \in Contents |-> 0]
  /\ meeting = [r \in Requests |-> Nobody]
  /\ cleanup = [k \in Keys |-> NoRow]
  /\ upload = [u \in Uploads |-> IdleUpload]
  /\ cleaner = [w \in Cleaners |-> IdleCleaner]
  /\ finder = FreshFinder
  /\ faults = 0

Fault == faults < MaxFaults /\ faults' = faults + 1

\* The keys of uploads under way in process p: active_temporary_keys.
ActiveIds(p) == {upload[u].id : u \in {v \in Uploads : /\ Home[v] = p
                                       /\ upload[v].step \in {"staging", "staged", "linked"}}}

-----------------------------------------------------------------------------
\* Storing an upload.

UploadGoto(u, step) == upload' = [upload EXCEPT ![u].step = step]

\* put raises: nothing was ingested and no cleanup is scheduled.
UploadEnds(u) == upload' = [upload EXCEPT ![u] = IdleUpload]

\* put: a fresh storage id, its temporary key declared active, then its file.
StartUpload(u, r, c, i) ==
  /\ upload[u].step = "idle" /\ content[i] = Nobody
  /\ upload' = [upload EXCEPT ![u] = [step |-> "staging", id |-> i, request |-> r, sha |-> c]]
  /\ root' = root \cup {PartKey(i)}
  /\ content' = [content EXCEPT ![i] = "partial"]
  /\ UNCHANGED <<quarantine, old, rows, cleaner, finder, faults>>

\* The last byte is written: the file is complete and new again.
StageUpload(u) ==
  /\ upload[u].step = "staging"
  /\ content' = [content EXCEPT ![upload[u].id] = upload[u].sha]
  /\ old' = old \ {upload[u].id}
  /\ finder' = [finder EXCEPT !.stale = @ \ {upload[u].id}]
  /\ UploadGoto(u, "staged")
  /\ UNCHANGED <<root, quarantine, rows, cleaner, faults>>

\* A recording that is too large, empty or no audio, or a failing disk.
RejectUpload(u) ==
  /\ upload[u].step \in {"staging", "staged", "linked"}
  /\ Fault
  /\ root' = root \ {PartKey(upload[u].id)}
  /\ UploadEnds(u)
  /\ UNCHANGED <<quarantine, content, old, rows, cleaner, finder>>

\* Verify the temporary file and give it its final name.
PublishUpload(u) ==
  LET i == upload[u].id IN
  /\ upload[u].step = "staged"
  /\ IF PartKey(i) \in root
       THEN root' = root \cup {FinalKey(i)} /\ UploadGoto(u, "linked")
       ELSE UNCHANGED root /\ UploadEnds(u)
  /\ UNCHANGED <<quarantine, content, old, rows, cleaner, finder, faults>>

\* Remove the temporary name; when it is gone already, put raises and the file
\* stays behind under its final name.
FinishUpload(u) ==
  LET i == upload[u].id IN
  /\ upload[u].step = "linked"
  /\ root' = root \ {PartKey(i)}
  /\ IF PartKey(i) \in root THEN UploadGoto(u, "stored") ELSE UploadEnds(u)
  /\ UNCHANGED <<quarantine, content, old, rows, cleaner, finder, faults>>

-----------------------------------------------------------------------------
\* Ingest: one transaction, then the new file is scheduled for removal unless it
\* became an asset.

\* Mutant: no trigger protects a key that is reserved for cleanup.
UnreservedIngest(r, c, i) ==
  /\ asset[c] = 0
  /\ asset' = [asset EXCEPT ![c] = i]
  /\ meeting' = [meeting EXCEPT ![r] = c]

\* A recording of new content becomes an asset; a trigger refuses a key that
\* cleanup has reserved.
NewIngest(r, c, i) ==
  /\ asset[c] = 0 /\ ~HasJob(FinalKey(i))
  /\ asset' = [asset EXCEPT ![c] = i]
  /\ meeting' = [meeting EXCEPT ![r] = c]

\* The content is known: the meeting shares its asset.
SharedIngest(r, c) ==
  /\ asset[c] # 0
  /\ meeting' = [meeting EXCEPT ![r] = c]
  /\ UNCHANGED asset

\* An erased, replayed or conflicting request, and every error: no row changes.
CommitIngest(u) ==
  LET r == upload[u].request
      c == upload[u].sha
  IN
  /\ upload[u].step = "stored"
  /\ \/ /\ meeting[r] = Nobody
        /\ NewIngest(r, c, upload[u].id) \/ SharedIngest(r, c)
        /\ UNCHANGED faults
     \/ /\ meeting[r] # Nobody \/ (asset[c] = 0 /\ HasJob(FinalKey(upload[u].id)))
        /\ UNCHANGED <<asset, meeting, faults>>
     \/ Fault /\ UNCHANGED <<asset, meeting>>
  /\ UploadGoto(u, "settle")
  /\ UNCHANGED <<files, cleanup, cleaner, finder>>

\* Mutant: schedule_if_unreferenced does not look at the assets.
CarelessSchedule(k, sha, reason) ==
  cleanup' = IF HasJob(k) THEN cleanup ELSE [cleanup EXCEPT ![k] = Row("ready", sha, reason)]

\* schedule_if_unreferenced.  A conflicting job of the same key raises and
\* leaves that job as it is.
Schedule(k, sha, reason) ==
  cleanup' = IF Owned(k) \/ HasJob(k) THEN cleanup
             ELSE [cleanup EXCEPT ![k] = Row("ready", sha, reason)]

\* _schedule_abandoned_recording swallows its own errors.
SettleUpload(u) ==
  /\ upload[u].step = "settle"
  /\ \/ Schedule(FinalKey(upload[u].id), upload[u].sha, "abandoned") /\ UNCHANGED faults
     \/ Fault /\ UNCHANGED cleanup
  /\ UploadEnds(u)
  /\ UNCHANGED <<files, asset, meeting, cleaner, finder>>

-----------------------------------------------------------------------------
\* What meeting erasure does here.

RecordingRows(c) == {k \in Keys : HasJob(k) /\ cleanup[k].sha = c}

\* The meeting goes and its ingest key gets a tombstone.  A cleanup row of the
\* same content blocks the request; the last owner of the recording gives it up.
Erase(r) ==
  LET c == meeting[r] IN
  /\ c \in Contents /\ RecordingRows(c) = {}
  /\ meeting' = [meeting EXCEPT ![r] = "erased"]
  /\ IF \E s \in Requests \ {r} : meeting[s] = c
       THEN UNCHANGED <<asset, cleanup>>
       ELSE /\ asset' = [asset EXCEPT ![c] = 0]
            /\ cleanup' = [cleanup EXCEPT ![FinalKey(asset[c])] = Row("ready", c, "erasure")]
  /\ UNCHANGED <<files, actors, faults>>

\* A deleted row is not the row a worker has claimed, even if its key comes back.
Forget(k) == cleaner' = [w \in Cleaners |->
               IF cleaner[w].key = k THEN [cleaner[w] EXCEPT !.own = FALSE] ELSE cleaner[w]]

\* The erasure worker has seen the success and deletes the row.
ConcludeErasure(k) ==
  /\ cleanup[k].reason = "erasure" /\ cleanup[k].status = "succeeded"
  /\ cleanup' = [cleanup EXCEPT ![k] = NoRow]
  /\ Forget(k)
  /\ UNCHANGED <<files, asset, meeting, upload, finder, faults>>

\* The operator retries a failed erasure: its cleanup starts over.
RetryErasure(k) ==
  /\ cleanup[k].reason = "erasure" /\ cleanup[k].status = "failed"
  /\ cleanup[k].retries < MaxRetries
  /\ cleanup' = [cleanup EXCEPT ![k] = [Row("ready", @.sha, "erasure")
                                          EXCEPT !.retries = cleanup[k].retries + 1]]
  /\ UNCHANGED <<files, asset, meeting, actors, faults>>

-----------------------------------------------------------------------------
\* The cleanup worker.

\* A lease lapses when its worker is gone, stalls, or cannot renew it.
LapseLease(k) ==
  /\ cleanup[k].status = "running" /\ cleanup[k].live
  /\ \/ /\ \A w \in Cleaners : ~(cleaner[w].own /\ cleaner[w].key = k)
        /\ UNCHANGED faults
     \/ Fault
  /\ cleanup' = [cleanup EXCEPT ![k].live = FALSE]
  /\ UNCHANGED <<files, asset, meeting, actors>>

BecomeDue(k) ==
  /\ cleanup[k].status = "retry_wait" /\ ~cleanup[k].due
  /\ cleanup' = [cleanup EXCEPT ![k].due = TRUE]
  /\ UNCHANGED <<files, asset, meeting, actors, faults>>

Waiting(k) == cleanup[k].status \in {"ready", "retry_wait"}

\* Mutant: a job that lapses in its last attempt is not picked up again.
ClaimableBelowLimit(k) ==
  /\ cleanup[k].attempts < MaxAttempts
  /\ \/ Waiting(k) /\ cleanup[k].due
     \/ cleanup[k].status = "running" /\ ~cleanup[k].live

Claimable(k) ==
  \/ Waiting(k) /\ cleanup[k].due /\ cleanup[k].attempts < MaxAttempts
  \/ cleanup[k].status = "running" /\ ~cleanup[k].live

\* claim_due: taking over a lapsed job is not another attempt.
ClaimCleanup(w, k) ==
  /\ cleaner[w].step = "idle" /\ Claimable(k)
  /\ cleanup' = [cleanup EXCEPT
       ![k].status = "running", ![k].owner = CleanerName[w], ![k].live = TRUE,
       ![k].attempts = IF cleanup[k].status = "running" THEN @ ELSE @ + 1]
  /\ cleaner' = [cleaner EXCEPT ![w] =
       [step |-> "check", key |-> k, own |-> TRUE, sha |-> cleanup[k].sha, stat |-> NoStat]]
  /\ UNCHANGED <<files, asset, meeting, upload, finder, faults>>

CleanerGoto(w, step) == cleaner' = [cleaner EXCEPT ![w].step = step, ![w].stat = NoStat]
CleanerHolds(w, step) == cleaner' = [cleaner EXCEPT ![w].step = step,
                                                    ![w].stat = Stat(IdOf(cleaner[w].key))]

\* Mutant: a recording is gone when its own name is.
CarelessVerdict(k, sha) ==
  IF k \notin root THEN "done"
  ELSE IF content[IdOf(k)] # sha THEN "permanent"
  ELSE IF k \notin quarantine THEN "link" ELSE "unlink"

\* The start of every evaluation in execute: what to do about the two names.
Verdict(k, sha) ==
  IF k \notin root \cup quarantine THEN "done"
  ELSE IF content[IdOf(k)] # sha THEN "permanent"
  ELSE IF k \notin quarantine THEN "link"
  ELSE IF k \in root THEN "unlink" ELSE "drop"

VerifyRecording(w) ==
  /\ cleaner[w].step = "check"
  /\ CleanerHolds(w, Verdict(cleaner[w].key, cleaner[w].sha))
  /\ UNCHANGED <<files, rows, upload, finder, faults>>

\* The file is not what was verified: evaluate again.
Reconsider(w) ==
  /\ cleaner[w].step \in {"link", "unlink", "drop"}
  /\ Stat(IdOf(cleaner[w].key)) # cleaner[w].stat
  /\ CleanerGoto(w, "check")
  /\ UNCHANGED <<files, rows, upload, finder, faults>>

\* May the step go ahead?  A change of the other names since the verification
\* may fall into the same tick of the file clock and go unnoticed.
Verified(w) == content[IdOf(cleaner[w].key)] = cleaner[w].stat[3]

LinkQuarantine(w) ==
  LET k == cleaner[w].key IN
  /\ cleaner[w].step = "link" /\ Verified(w) /\ k \in root
  /\ quarantine' = quarantine \cup {k}
  /\ CleanerGoto(w, "check")
  /\ UNCHANGED <<root, content, old, rows, upload, finder, faults>>

\* Mutant: the name in .quarantine is forgotten.
UnlinkOnce(w) ==
  LET k == cleaner[w].key IN
  /\ cleaner[w].step = "unlink" /\ Verified(w) /\ k \in root
  /\ root' = root \ {k}
  /\ CleanerGoto(w, "done")
  /\ UNCHANGED <<quarantine, content, old, rows, upload, finder, faults>>

UnlinkSource(w) ==
  LET k == cleaner[w].key IN
  /\ cleaner[w].step = "unlink" /\ Verified(w) /\ k \in root
  /\ root' = root \ {k}
  /\ cleaner' = [cleaner EXCEPT ![w].step = "drop"]
  /\ UNCHANGED <<quarantine, content, old, rows, upload, finder, faults>>

UnlinkQuarantined(w) ==
  LET k == cleaner[w].key IN
  /\ cleaner[w].step = "drop" /\ Verified(w) /\ k \in quarantine
  /\ quarantine' = quarantine \ {k}
  /\ CleanerGoto(w, "done")
  /\ UNCHANGED <<root, content, old, rows, upload, finder, faults>>

\* An error of the file system; one that says "not supported" is permanent, and
\* only the verification and the link can meet it.
FailExecution(w) ==
  /\ Fault
  /\ \/ cleaner[w].step \in {"check", "link", "unlink", "drop"} /\ CleanerGoto(w, "retryable")
     \/ cleaner[w].step \in {"check", "link"} /\ CleanerGoto(w, "permanent")
  /\ UNCHANGED <<files, rows, upload, finder>>

\* The heartbeat or a transaction raised: the cycle ends with nothing recorded.
LoseOutcome(w) ==
  /\ cleaner[w].step \in {"done", "retryable", "permanent"} /\ Fault
  /\ cleaner' = [cleaner EXCEPT ![w] = IdleCleaner]
  /\ UNCHANGED <<files, rows, upload, finder>>

\* _owns_live_lease: a name, not a token, says whose the claim is.
OwnsLiveLease(w) ==
  LET row == cleanup[cleaner[w].key] IN
  /\ cleaner[w].own /\ row.status = "running"
  /\ row.owner = CleanerName[w] /\ row.live

\* Mutant: the row keeps its owner.
ReleasedStill(row, status) == [row EXCEPT !.status = status, !.due = FALSE, !.live = FALSE]

Released(row, status) ==
  [row EXCEPT !.status = status, !.due = FALSE, !.owner = Nobody, !.live = FALSE]

\* w is through with row k; if the row is gone, it is for every other worker.
CleanerStops(w, k, gone) ==
  [v \in Cleaners |-> IF v = w THEN IdleCleaner
                      ELSE [cleaner[v] EXCEPT !.own = @ /\ ~(gone /\ cleaner[v].key = k)]]

\* _finish_success: the row goes with the file, unless an erasure waits for it.
FinishSuccess(w) ==
  LET k == cleaner[w].key IN
  /\ cleaner[w].step = "done" /\ OwnsLiveLease(w)
  /\ cleanup' = [cleanup EXCEPT ![k] =
       IF @.reason = "erasure" THEN Released(@, "succeeded") ELSE NoRow]
  /\ cleaner' = CleanerStops(w, k, cleanup[k].reason # "erasure")
  /\ UNCHANGED <<files, asset, meeting, upload, finder, faults>>

Retryable(w) == cleaner[w].step = "retryable" /\ cleanup[cleaner[w].key].attempts < MaxAttempts

FinishFailure(w) ==
  LET k == cleaner[w].key IN
  /\ cleaner[w].step \in {"retryable", "permanent"} /\ OwnsLiveLease(w)
  /\ cleanup' = [cleanup EXCEPT ![k] =
       Released(@, IF Retryable(w) THEN "retry_wait" ELSE "failed")]
  /\ cleaner' = CleanerStops(w, k, FALSE)
  /\ UNCHANGED <<files, asset, meeting, upload, finder, faults>>

\* The lease is lost: the outcome is dropped.
FinishNothing(w) ==
  /\ cleaner[w].step \in {"done", "retryable", "permanent"} /\ ~OwnsLiveLease(w)
  /\ cleaner' = [cleaner EXCEPT ![w] = IdleCleaner]
  /\ UNCHANGED <<files, rows, upload, finder, faults>>

-----------------------------------------------------------------------------
\* Orphan discovery.

\* The grace period of a file ends.
Age(i) ==
  /\ i \notin old /\ {PartKey(i), FinalKey(i)} \cap root # {}
  /\ Prompt => \A u \in Uploads : upload[u].id # i
  /\ old' = old \cup {i}
  /\ UNCHANGED <<root, quarantine, content, rows, actors, faults>>

\* run_once fixes the cutoff first and then reads which uploads are under way.
StartScan ==
  /\ finder.step = "idle"
  /\ finder' = [finder EXCEPT !.step = "scan", !.stale = old, !.active = ActiveIds(FinderHome)]
  /\ UNCHANGED <<files, rows, upload, cleaner, faults>>

\* Stale recordings after the cursor, without those being uploaded.
Candidates ==
  {k \in root : /\ k > finder.cursor /\ IdOf(k) \in finder.stale \cap old
                /\ ~(IdOf(k) \in finder.active /\ k = PartKey(IdOf(k)))}

Smallest(S, n) == {k \in S : Cardinality({j \in S : j < k}) < n}

Greatest(S) == CHOOSE k \in S : \A j \in S : j <= k

\* Mutant: a full page does not move the cursor.
FixedCursor(page) == finder.cursor

\* _advance_cursor: past a full page, back to the start after a short one.
NextCursor(page) == IF Cardinality(page) < PageLimit THEN 0 ELSE Greatest(page)

Scan ==
  /\ finder.step = "scan"
  /\ LET page == Smallest(Candidates, PageLimit) IN
       finder' = [finder EXCEPT !.step = "page", !.page = page, !.stale = {}, !.active = {},
                    !.next = NextCursor(page),
                    !.stat = [k \in Keys |-> IF k \in page THEN Stat(IdOf(k)) ELSE NoStat]]
  /\ UNCHANGED <<files, rows, upload, cleaner, faults>>

\* The candidate in hand: the page is examined in the order of its keys.
InHand(k) == k \in finder.page /\ \A j \in finder.page : k <= j

Dropped(k) == [finder EXCEPT !.step = "page", !.page = @ \ {k}, !.stat[k] = NoStat, !.sha = Nobody]

SkipOwned(k) ==
  /\ finder.step = "page" /\ InHand(k)
  /\ finder' = IF Owned(k) \/ HasJob(k) THEN Dropped(k) ELSE [finder EXCEPT !.step = "identify"]
  /\ UNCHANGED <<files, rows, upload, cleaner, faults>>

\* identify hashes the file, unless it changed since the scan.
Identify(k) ==
  /\ finder.step = "identify" /\ InHand(k)
  /\ finder' = IF k \in root /\ Stat(IdOf(k)) = finder.stat[k]
                 THEN [finder EXCEPT !.step = "schedule", !.sha = content[IdOf(k)]]
                 ELSE Dropped(k)
  /\ UNCHANGED <<files, rows, upload, cleaner, faults>>

ScheduleOrphan(k) ==
  /\ finder.step = "schedule" /\ InHand(k)
  /\ Schedule(k, finder.sha, "orphan")
  /\ finder' = Dropped(k)
  /\ UNCHANGED <<files, asset, meeting, upload, cleaner, faults>>

EndScan ==
  /\ finder.step = "page" /\ finder.page = {}
  /\ finder' = [FreshFinder EXCEPT !.cursor = finder.next]
  /\ UNCHANGED <<files, rows, upload, cleaner, faults>>

\* An error ends the cycle; the next one reads the same page again.
FailScan ==
  /\ finder.step # "idle" /\ Fault
  /\ finder' = [FreshFinder EXCEPT !.cursor = finder.cursor]
  /\ UNCHANGED <<files, rows, upload, cleaner>>

-----------------------------------------------------------------------------
\* A process dies: its memory goes, with the cursor and the active keys in it.
Crash(p) ==
  /\ Fault
  /\ upload' = [u \in Uploads |-> IF Home[u] = p THEN IdleUpload ELSE upload[u]]
  /\ cleaner' = [w \in Cleaners |-> IF Home[w] = p THEN IdleCleaner ELSE cleaner[w]]
  /\ finder' = IF FinderHome = p THEN FreshFinder ELSE finder
  /\ UNCHANGED <<files, rows>>

UploadStep(u) ==
  \/ StageUpload(u) \/ PublishUpload(u) \/ FinishUpload(u) \/ CommitIngest(u) \/ SettleUpload(u)

WorkStep(w) ==
  \/ VerifyRecording(w) \/ Reconsider(w) \/ LinkQuarantine(w) \/ UnlinkSource(w)
  \/ UnlinkQuarantined(w) \/ FinishSuccess(w) \/ FinishFailure(w) \/ FinishNothing(w)

FinderStep ==
  \/ StartScan \/ Scan \/ EndScan
  \/ \E k \in Keys : SkipOwned(k) \/ Identify(k) \/ ScheduleOrphan(k)

Next ==
  \/ \E u \in Uploads : \/ UploadStep(u) \/ RejectUpload(u)
                        \/ \E r \in Requests, c \in Contents, i \in Ids : StartUpload(u, r, c, i)
  \/ \E r \in Requests : Erase(r)
  \/ \E k \in Keys : ConcludeErasure(k) \/ RetryErasure(k) \/ LapseLease(k) \/ BecomeDue(k)
  \/ \E w \in Cleaners : \/ WorkStep(w) \/ FailExecution(w) \/ LoseOutcome(w)
                         \/ \E k \in Keys : ClaimCleanup(w, k)
  \/ \E i \in Ids : Age(i)
  \/ FinderStep \/ FailScan
  \/ \E p \in Processes : Crash(p)

Spec == Init /\ [][Next]_vars

\* The loops of the supervisor run again and again, a served request goes on,
\* time passes, and the erasure worker looks at finished cleanups.
\* A worker claims or works, a row lapses, waits or has succeeded: of the actions under
\* one condition at most one is ever enabled, so it is fair to each of them.
Fairness ==
  /\ \A u \in Uploads : WF_vars(UploadStep(u))
  /\ \A w \in Cleaners : WF_vars(WorkStep(w) \/ \E k \in Keys : ClaimCleanup(w, k))
  /\ \A k \in Keys : WF_vars(LapseLease(k) \/ BecomeDue(k) \/ ConcludeErasure(k))
  /\ \A i \in Ids : WF_vars(Age(i))
  /\ WF_vars(FinderStep)

FairSpec == Spec /\ Fairness

-----------------------------------------------------------------------------
\* Properties.

Stats == (SUBSET Keys) \X (SUBSET Keys) \X (Contents \cup {"partial", Nobody})

\* Every variable has its type, and no handler saves a row the table refuses.
TypeOK ==
  /\ root \subseteq Keys /\ quarantine \subseteq Keys /\ old \subseteq Ids
  /\ content \in [Ids -> Contents \cup {"partial", Nobody}]
  /\ asset \in [Contents -> Ids \cup {0}]
  /\ meeting \in [Requests -> Contents \cup {"erased", Nobody}]
  /\ cleanup \in [Keys -> [status: {"absent", "ready", "running", "retry_wait", "succeeded",
                                    "failed"},
                           sha: Contents \cup {"partial", Nobody},
                           reason: {"none", "abandoned", "orphan", "erasure"},
                           attempts: Nat, retries: 0..MaxRetries,
                           due: BOOLEAN, owner: Names \cup {Nobody}, live: BOOLEAN]]
  /\ \A k \in Keys : WellFormed(cleanup[k])
  /\ upload \in [Uploads -> [step: {"idle", "staging", "staged", "linked", "stored", "settle"},
                             id: Ids \cup {0}, request: Requests \cup {Nobody},
                             sha: Contents \cup {Nobody}]]
  /\ cleaner \in [Cleaners -> [step: {"idle", "check", "link", "unlink", "drop", "done",
                                      "retryable", "permanent"},
                               key: Keys \cup {0}, own: BOOLEAN,
                               sha: Contents \cup {"partial", Nobody}, stat: Stats]]
  /\ finder \in [step: {"idle", "scan", "page", "identify", "schedule"},
                 cursor: Keys \cup {0}, next: Keys \cup {0}, page: SUBSET Keys,
                 stale: SUBSET Ids, active: SUBSET Ids, stat: [Keys -> Stats],
                 sha: Contents \cup {"partial", Nobody}]
  /\ faults \in 0..MaxFaults

\* An upload of the finder's own process is still storing the temporary file k.
BeingStored(k) ==
  \E u \in Uploads : /\ Home[u] = FinderHome /\ upload[u].step \in {"staging", "staged", "linked"}
                    /\ k = PartKey(upload[u].id)

\* A key belongs to an audio asset, to an upload or to a cleanup job, never to a job
\* and to somebody else: ingest, discovery, abandonment and erasure agree on who
\* owns a recording, however long an upload takes.
KeyHasOneOwner == \A k \in Keys : HasJob(k) => ~Owned(k) /\ ~BeingStored(k)

\* A meeting that has not been erased can be transcribed: its audio asset exists,
\* and the recording of an asset is in the directory, complete, under its key.
MeetingHasRecording ==
  /\ \A r \in Requests : meeting[r] \in Contents => asset[meeting[r]] # 0
  /\ \A c \in Contents : asset[c] # 0 => FinalKey(asset[c]) \in root /\ content[asset[c]] = c

\* Success means gone: a job is only forgotten, and an erasure only learns of a
\* success, when neither name of the recording is left, whatever failed on the way.
SuccessMeansGone ==
  [][\A k \in Keys :
       HasJob(k) /\ cleanup[k].status # "succeeded"
         /\ (~HasJob(k)' \/ cleanup'[k].status = "succeeded")
       => k \notin root' \cup quarantine']_vars

\* While a recording is an asset nobody removes it, not even a worker whose lease
\* lapsed long ago.
OwnedIsKept == [][\A k \in Keys : Owned(k) /\ k \in root => k \in root']_vars

\* A file that belongs to nobody goes, or its cleanup has failed for good.
Stray(k) ==
  /\ k \in root \cup quarantine /\ ~Owned(k)
  /\ \A u \in Uploads : upload[u].id # IdOf(k)

StraysGo == \A k \in Keys : Stray(k) ~> (~Stray(k) \/ cleanup[k].status = "failed")

\* Every cleanup ends: the row goes, or it stays as failed.
CleanupEnds == \A k \in Keys : HasJob(k) ~> (~HasJob(k) \/ cleanup[k].status = "failed")
=============================================================================
