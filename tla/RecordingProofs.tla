---------------------------- MODULE RecordingProofs ----------------------------
(***************************************************************************)
(* What holds of Recording for any number of files, contents, uploads,     *)
(* cleanup workers, processes, retries and faults, prompt or not; the last *)
(* theorem, on what a meeting needs, when uploads are prompt.              *)
(***************************************************************************)
EXTENDS Recording, FiniteSetTheorems, WellFoundedInduction, TLAPS

Bytes == Contents \cup {"partial", Nobody}
CleanupRow ==
  [status: {"absent", "ready", "running", "retry_wait", "succeeded", "failed"},
   sha: Bytes, reason: {"none", "abandoned", "orphan", "erasure"},
   attempts: Nat, retries: 0..MaxRetries,
   due: BOOLEAN, owner: Names \cup {Nobody}, live: BOOLEAN]
UploadMemory ==
  [step: {"idle", "staging", "staged", "linked", "stored", "settle"},
   id: Ids \cup {0}, request: Requests \cup {Nobody}, sha: Contents \cup {Nobody}]
CleanerMemory ==
  [step: {"idle", "check", "link", "unlink", "drop", "done", "retryable", "permanent"},
   key: Keys \cup {0}, own: BOOLEAN, sha: Bytes, stat: Stats]
FinderMemory ==
  [step: {"idle", "scan", "page", "identify", "schedule"},
   cursor: Keys \cup {0}, next: Keys \cup {0}, page: SUBSET Keys,
   stale: SUBSET Ids, active: SUBSET Ids, stat: [Keys -> Stats], sha: Bytes]

\* Every variable has its type, and whoever is at work has something to work on.
Typed ==
  /\ TypeOK
  /\ \A u \in Uploads : upload[u].step # "idle" =>
       upload[u].id \in Ids /\ upload[u].request \in Requests /\ upload[u].sha \in Contents
  /\ \A w \in Cleaners : cleaner[w].step # "idle" => cleaner[w].key \in Keys

-----------------------------------------------------------------------------
(* Keys.                                                                   *)

(* The two names of a file, and whose names they are. *)
LEMMA KeyFacts ==
  /\ \A i \in Ids : /\ PartKey(i) \in Keys /\ FinalKey(i) \in Keys
                    /\ IdOf(PartKey(i)) = i /\ IdOf(FinalKey(i)) = i
  /\ \A i, j \in Ids : /\ PartKey(i) # FinalKey(j)
                       /\ FinalKey(i) = FinalKey(j) => i = j
                       /\ PartKey(i) = PartKey(j) => i = j
  /\ \A k \in Keys : /\ IdOf(k) \in Ids
                     /\ k = PartKey(IdOf(k)) \/ k = FinalKey(IdOf(k))
  /\ 0 \notin Ids /\ 0 \notin Keys
BY NumberAssumption DEF Ids, Keys, PartKey, FinalKey, IdOf

(* A page that is not empty has a last key. *)
LEMMA GreatestFits ==
  ASSUME NEW S \in SUBSET Keys, S # {}
  PROVE  Greatest(S) \in Keys
<1> DEFINE far == 2 * MaxId
           T == {far - k : k \in S}
<1>1. far \in Nat /\ \A k \in S : k \in Nat /\ far - k \in Nat
  BY NumberAssumption DEF Keys
<1>2. T \subseteq Nat /\ T # {}
  BY <1>1
<1>3. PICK x \in T : \A y \in T : ~ (<<y, x>> \in OpToRel(<, Nat))
  <2> HIDE DEF T
  <2> QED
    BY <1>2, WFMin, NatLessThanWellFounded
<1>4. PICK k \in S : x = far - k
  BY <1>3
<1>5. \A j \in S : j <= k
  <2> SUFFICES ASSUME NEW j \in S PROVE j <= k
    OBVIOUS
  <2>1. ~(far - j < far - k)
    BY <1>1, <1>3, <1>4 DEF OpToRel
  <2> QED
    BY <1>1, <2>1
<1>6. Greatest(S) \in S
  BY <1>5 DEF Greatest
<1> QED
  BY <1>6

-----------------------------------------------------------------------------
(* Rows and memories.                                                      *)

(* The parts of TypeOK by their names. *)
LEMMA TypeParts ==
  TypeOK <=> /\ root \subseteq Keys /\ quarantine \subseteq Keys /\ old \subseteq Ids
             /\ content \in [Ids -> Bytes] /\ asset \in [Contents -> Ids \cup {0}]
             /\ meeting \in [Requests -> Contents \cup {"erased", Nobody}]
             /\ cleanup \in [Keys -> CleanupRow] /\ \A k \in Keys : WellFormed(cleanup[k])
             /\ upload \in [Uploads -> UploadMemory] /\ cleaner \in [Cleaners -> CleanerMemory]
             /\ finder \in FinderMemory /\ faults \in 0..MaxFaults
BY DEF TypeOK, Bytes, CleanupRow, UploadMemory, CleanerMemory, FinderMemory

(* A job that starts, and one that is not there. *)
LEMMA FreshRows ==
  ASSUME NEW sha \in Bytes, NEW reason \in {"none", "abandoned", "orphan", "erasure"},
         NEW status \in {"absent", "ready"}
  PROVE  Row(status, sha, reason) \in CleanupRow /\ WellFormed(Row(status, sha, reason))
BY NumberAssumption DEF Row, CleanupRow, WellFormed

LEMMA AbsentRow == NoRow \in CleanupRow /\ WellFormed(NoRow) /\ NoRow.status = "absent"
<1>1. NoRow = Row("absent", Nobody, "none") /\ Nobody \in Bytes
  BY DEF NoRow, Bytes
<1> QED
  BY <1>1, FreshRows DEF Row

(* A job whose worker is through with it. *)
LEMMA ReleasedRows ==
  ASSUME NEW row \in CleanupRow, WellFormed(row),
         NEW status \in {"retry_wait", "failed", "succeeded"}
  PROVE  /\ Released(row, status) \in CleanupRow /\ WellFormed(Released(row, status))
         /\ Released(row, status).status = status
BY DEF Released, CleanupRow, WellFormed

(* What lstat may report. *)
LEMMA StatFits ==
  ASSUME Typed, NEW i \in Ids
  PROVE  Stat(i) \in Stats
BY KeyFacts DEF Typed, TypeOK, Stat, Stats

LEMMA NoStatFits == NoStat \in Stats
BY DEF NoStat, Stats

(* Memories that hold nothing. *)
LEMMA IdleFits ==
  /\ IdleUpload \in UploadMemory /\ IdleUpload.step = "idle"
  /\ IdleCleaner \in CleanerMemory /\ IdleCleaner.step = "idle"
BY NoStatFits DEF IdleUpload, IdleCleaner, UploadMemory, CleanerMemory, Bytes

LEMMA FreshFinderFits ==
  ASSUME NEW cursor \in Keys \cup {0}
  PROVE  /\ [FreshFinder EXCEPT !.cursor = cursor] \in FinderMemory
         /\ FreshFinder \in FinderMemory
BY NoStatFits DEF FreshFinder, FinderMemory, Bytes

(* A fault is counted. *)
LEMMA FaultFits ==
  ASSUME TypeOK, Fault
  PROVE  faults' \in 0..MaxFaults
BY NumberAssumption DEF TypeOK, Fault

(* What is typed when everybody is, and conversely. *)
LEMMA Retyped ==
  ASSUME root' \subseteq Keys, quarantine' \subseteq Keys, old' \subseteq Ids,
         content' \in [Ids -> Bytes], asset' \in [Contents -> Ids \cup {0}],
         meeting' \in [Requests -> Contents \cup {"erased", Nobody}],
         cleanup' \in [Keys -> CleanupRow], \A k \in Keys : WellFormed(cleanup'[k]),
         upload' \in [Uploads -> UploadMemory], cleaner' \in [Cleaners -> CleanerMemory],
         finder' \in FinderMemory, faults' \in 0..MaxFaults,
         \A u \in Uploads : upload'[u].step # "idle" =>
           upload'[u].id \in Ids /\ upload'[u].request \in Requests /\ upload'[u].sha \in Contents,
         \A w \in Cleaners : cleaner'[w].step # "idle" => cleaner'[w].key \in Keys
  PROVE  Typed'
BY DEF Typed, TypeOK, Bytes, CleanupRow, UploadMemory, CleanerMemory, FinderMemory, WellFormed

(* Nothing but one cleanup job changes. *)
LEMMA OneRowTyped ==
  ASSUME Typed, NEW k \in Keys, NEW row \in CleanupRow, WellFormed(row),
         cleanup' = [cleanup EXCEPT ![k] = row]
  PROVE  cleanup' \in [Keys -> CleanupRow] /\ \A j \in Keys : WellFormed(cleanup'[j])
BY TypeParts DEF Typed

(* Nothing but the memory of one worker changes. *)
LEMMA OneCleanerTyped ==
  ASSUME Typed, NEW w \in Cleaners, NEW memory \in CleanerMemory,
         memory.step # "idle" => memory.key \in Keys,
         cleaner' = [cleaner EXCEPT ![w] = memory]
  PROVE  /\ cleaner' \in [Cleaners -> CleanerMemory]
         /\ \A v \in Cleaners : cleaner'[v].step # "idle" => cleaner'[v].key \in Keys
BY TypeParts DEF Typed

LEMMA OneUploadTyped ==
  ASSUME Typed, NEW u \in Uploads, NEW memory \in UploadMemory,
         memory.step # "idle" =>
           memory.id \in Ids /\ memory.request \in Requests /\ memory.sha \in Contents,
         upload' = [upload EXCEPT ![u] = memory]
  PROVE  /\ upload' \in [Uploads -> UploadMemory]
         /\ \A v \in Uploads : upload'[v].step # "idle" =>
              upload'[v].id \in Ids /\ upload'[v].request \in Requests /\ upload'[v].sha \in Contents
BY TypeParts DEF Typed

-----------------------------------------------------------------------------
(* Steps keep the types.                                                   *)

(* An upload moves on, or ends. *)
LEMMA UploadMoves ==
  ASSUME Typed, NEW u \in Uploads, upload[u].step # "idle",
         NEW step \in {"staged", "linked", "stored", "settle"},
         UploadGoto(u, step) \/ UploadEnds(u)
  PROVE  /\ upload' \in [Uploads -> UploadMemory]
         /\ \A v \in Uploads : upload'[v].step # "idle" =>
              upload'[v].id \in Ids /\ upload'[v].request \in Requests /\ upload'[v].sha \in Contents
<1> DEFINE memory == [upload[u] EXCEPT !.step = step]
<1>1. upload[u] \in UploadMemory /\ upload \in [Uploads -> UploadMemory]
  BY TypeParts DEF Typed
<1>2. CASE UploadGoto(u, step)
  <2>1. memory \in UploadMemory /\ memory.id = upload[u].id
        /\ memory.request = upload[u].request /\ memory.sha = upload[u].sha
    BY <1>1 DEF UploadMemory
  <2>2. upload' = [upload EXCEPT ![u] = memory]
    BY <1>1, <1>2 DEF UploadGoto
  <2> HIDE DEF memory
  <2>3. /\ memory.id \in Ids /\ memory.request \in Requests /\ memory.sha \in Contents
    BY <2>1 DEF Typed
  <2> QED
    BY <2>1, <2>2, <2>3, OneUploadTyped
<1>3. CASE UploadEnds(u)
  BY <1>3, IdleFits, OneUploadTyped DEF UploadEnds
<1> QED
  BY <1>2, <1>3

LEMMA StartUploadType ==
  ASSUME Typed, NEW u \in Uploads, NEW r \in Requests, NEW c \in Contents, NEW i \in Ids,
         StartUpload(u, r, c, i)
  PROVE  Typed'
<1> DEFINE memory == [step |-> "staging", id |-> i, request |-> r, sha |-> c]
<1>1. memory \in UploadMemory /\ memory.id = i /\ memory.request = r /\ memory.sha = c
  BY DEF UploadMemory
<1>2. upload' = [upload EXCEPT ![u] = memory]
  BY DEF StartUpload
<1> HIDE DEF memory
<1>3. /\ upload' \in [Uploads -> UploadMemory]
      /\ \A v \in Uploads : upload'[v].step # "idle" =>
           upload'[v].id \in Ids /\ upload'[v].request \in Requests /\ upload'[v].sha \in Contents
  BY <1>1, <1>2, OneUploadTyped
<1>4. root' \subseteq Keys /\ content' \in [Ids -> Bytes]
  BY KeyFacts, TypeParts DEF Typed, StartUpload, Bytes
<1> QED
  BY <1>3, <1>4, TypeParts, Retyped DEF Typed, StartUpload, rows

LEMMA UploadStepType ==
  ASSUME Typed, NEW u \in Uploads,
         \/ StageUpload(u) \/ RejectUpload(u) \/ PublishUpload(u) \/ FinishUpload(u)
  PROVE  Typed'
<1> DEFINE i == upload[u].id
<1>1. upload[u].step # "idle" /\ UNCHANGED <<quarantine, rows, cleaner>>
  BY DEF StageUpload, RejectUpload, PublishUpload, FinishUpload
<1>2. i \in Ids /\ upload[u].sha \in Contents
  BY <1>1 DEF Typed
<1>3. /\ upload' \in [Uploads -> UploadMemory]
      /\ \A v \in Uploads : upload'[v].step # "idle" =>
           upload'[v].id \in Ids /\ upload'[v].request \in Requests /\ upload'[v].sha \in Contents
  <2>1. \E step \in {"staged", "linked", "stored", "settle"} : UploadGoto(u, step) \/ UploadEnds(u)
    BY DEF StageUpload, RejectUpload, PublishUpload, FinishUpload
  <2> QED
    BY <1>1, <2>1, UploadMoves
<1>4. root' \subseteq Keys /\ old' \subseteq Ids /\ content' \in [Ids -> Bytes]
  <2>1. CASE StageUpload(u)
    BY <1>2, <2>1, TypeParts DEF Typed, StageUpload, Bytes
  <2>2. CASE RejectUpload(u)
    BY <2>2, TypeParts DEF Typed, RejectUpload
  <2>3. CASE PublishUpload(u)
    BY <1>2, <2>3, TypeParts, KeyFacts DEF Typed, PublishUpload
  <2>4. CASE FinishUpload(u)
    BY <2>4, TypeParts DEF Typed, FinishUpload
  <2> QED
    BY <2>1, <2>2, <2>3, <2>4
<1>5. finder' \in FinderMemory
  <2>1. finder \in FinderMemory
    BY TypeParts DEF Typed
  <2>2. CASE StageUpload(u)
    <3>1. finder' = [finder EXCEPT !.stale = finder.stale \ {i}]
      BY <2>2 DEF StageUpload
    <3>2. finder.stale \ {i} \in SUBSET Ids
      BY <2>1 DEF FinderMemory
    <3> QED
      BY <2>1, <3>1, <3>2 DEF FinderMemory
  <2>3. CASE UNCHANGED finder
    BY <2>1, <2>3
  <2> QED
    BY <2>2, <2>3 DEF RejectUpload, PublishUpload, FinishUpload
<1>6. faults' \in 0..MaxFaults
  BY FaultFits, TypeParts DEF Typed, StageUpload, RejectUpload, PublishUpload, FinishUpload
<1> QED
  BY <1>1, <1>3, <1>4, <1>5, <1>6, TypeParts, Retyped DEF Typed, rows

(* schedule_if_unreferenced writes at most a fresh row. *)
LEMMA ScheduleType ==
  ASSUME Typed, NEW k \in Keys, NEW sha \in Bytes,
         NEW reason \in {"none", "abandoned", "orphan", "erasure"},
         Schedule(k, sha, reason)
  PROVE  cleanup' \in [Keys -> CleanupRow] /\ \A j \in Keys : WellFormed(cleanup'[j])
<1>1. CASE UNCHANGED cleanup
  BY <1>1, TypeParts DEF Typed, WellFormed
<1>2. CASE cleanup' = [cleanup EXCEPT ![k] = Row("ready", sha, reason)]
  BY <1>2, FreshRows, OneRowTyped
<1> QED
  BY <1>1, <1>2 DEF Schedule

LEMMA IngestType ==
  ASSUME Typed, NEW u \in Uploads, CommitIngest(u) \/ SettleUpload(u)
  PROVE  Typed'
<1>1. upload[u].step # "idle" /\ UNCHANGED <<files, cleaner, finder>>
  BY DEF CommitIngest, SettleUpload
<1>2. upload[u].id \in Ids /\ upload[u].request \in Requests /\ upload[u].sha \in Contents
  BY <1>1 DEF Typed
<1>3. /\ upload' \in [Uploads -> UploadMemory]
      /\ \A v \in Uploads : upload'[v].step # "idle" =>
           upload'[v].id \in Ids /\ upload'[v].request \in Requests /\ upload'[v].sha \in Contents
  <2>1. \E step \in {"staged", "linked", "stored", "settle"} : UploadGoto(u, step) \/ UploadEnds(u)
    BY DEF CommitIngest, SettleUpload
  <2> QED
    BY <1>1, <2>1, UploadMoves
<1>4. /\ asset' \in [Contents -> Ids \cup {0}]
      /\ meeting' \in [Requests -> Contents \cup {"erased", Nobody}]
  BY <1>2, TypeParts DEF Typed, CommitIngest, SettleUpload, NewIngest, SharedIngest
<1>5. cleanup' \in [Keys -> CleanupRow] /\ \A j \in Keys : WellFormed(cleanup'[j])
  <2>1. CASE UNCHANGED cleanup
    BY <2>1, TypeParts DEF Typed, WellFormed
  <2>2. CASE Schedule(FinalKey(upload[u].id), upload[u].sha, "abandoned")
    <3>1. FinalKey(upload[u].id) \in Keys /\ upload[u].sha \in Bytes
      BY <1>2, KeyFacts DEF Bytes
    <3> QED
      BY <2>2, <3>1, ScheduleType
  <2> QED
    BY <2>1, <2>2 DEF CommitIngest, SettleUpload
<1>6. faults' \in 0..MaxFaults
  BY FaultFits, TypeParts DEF Typed, CommitIngest, SettleUpload
<1> QED
  BY <1>1, <1>3, <1>4, <1>5, <1>6, TypeParts, Retyped DEF Typed, files

LEMMA EraseType ==
  ASSUME Typed, NEW r \in Requests, Erase(r)
  PROVE  Typed'
<1> DEFINE c == meeting[r]
<1>1. c \in Contents /\ UNCHANGED <<files, actors, faults>>
  BY DEF Erase
<1>2. /\ meeting' \in [Requests -> Contents \cup {"erased", Nobody}]
      /\ asset' \in [Contents -> Ids \cup {0}]
  BY <1>1, TypeParts DEF Typed, Erase
<1>3. cleanup' \in [Keys -> CleanupRow] /\ \A j \in Keys : WellFormed(cleanup'[j])
  <2>1. CASE UNCHANGED cleanup
    BY <2>1, TypeParts DEF Typed, WellFormed
  <2>2. CASE cleanup' = [cleanup EXCEPT ![FinalKey(asset[c])] = Row("ready", c, "erasure")]
    <3>1. FinalKey(asset[c]) \in Keys
      <4>1. asset[c] \in Ids \cup {0}
        BY <1>1, TypeParts DEF Typed
      <4> QED
        BY <4>1, NumberAssumption DEF FinalKey, Keys, Ids
    <3>2. c \in Bytes
      BY <1>1 DEF Bytes
    <3> HIDE DEF c
    <3> QED
      BY <2>2, <3>1, <3>2, FreshRows, OneRowTyped
  <2> QED
    BY <2>1, <2>2 DEF Erase
<1> QED
  BY <1>1, <1>2, <1>3, TypeParts, Retyped DEF Typed, files, actors

\* Nothing but cleanup jobs and what workers remember of them.
OnlyCleanup == UNCHANGED <<files, asset, meeting, upload, finder>>

LEMMA CleanupRetyped ==
  ASSUME Typed, OnlyCleanup, UNCHANGED faults \/ Fault,
         cleanup' \in [Keys -> CleanupRow], \A k \in Keys : WellFormed(cleanup'[k]),
         cleaner' \in [Cleaners -> CleanerMemory],
         \A w \in Cleaners : cleaner'[w].step # "idle" => cleaner'[w].key \in Keys
  PROVE  Typed'
<1>1. faults' \in 0..MaxFaults
  BY FaultFits, TypeParts DEF Typed
<1> QED
  BY <1>1, TypeParts, Retyped DEF Typed, OnlyCleanup, files

LEMMA ConcludeType ==
  ASSUME Typed, NEW k \in Keys, ConcludeErasure(k)
  PROVE  Typed'
<1>1. cleanup' \in [Keys -> CleanupRow] /\ \A j \in Keys : WellFormed(cleanup'[j])
  BY AbsentRow, OneRowTyped DEF ConcludeErasure
<1>2. /\ cleaner' \in [Cleaners -> CleanerMemory]
      /\ \A v \in Cleaners : cleaner'[v].step # "idle" => cleaner'[v].key \in Keys
  <2>1. \A v \in Cleaners : /\ cleaner[v] \in CleanerMemory
                            /\ cleaner'[v] = IF cleaner[v].key = k
                                             THEN [cleaner[v] EXCEPT !.own = FALSE] ELSE cleaner[v]
    BY TypeParts DEF Typed, ConcludeErasure, Forget
  <2>2. \A v \in Cleaners : /\ cleaner'[v] \in CleanerMemory
                            /\ cleaner'[v].step = cleaner[v].step /\ cleaner'[v].key = cleaner[v].key
    BY <2>1 DEF CleanerMemory
  <2>3. cleaner' = [v \in Cleaners |-> cleaner'[v]]
    BY DEF ConcludeErasure, Forget
  <2> QED
    BY <2>2, <2>3 DEF Typed
<1> QED
  BY <1>1, <1>2, CleanupRetyped DEF ConcludeErasure, OnlyCleanup

LEMMA RowStepType ==
  ASSUME Typed, NEW k \in Keys, RetryErasure(k) \/ LapseLease(k) \/ BecomeDue(k)
  PROVE  Typed'
<1> DEFINE row == cleanup[k]
<1>1. row \in CleanupRow /\ WellFormed(row) /\ cleanup \in [Keys -> CleanupRow]
  BY TypeParts DEF Typed
<1>2. PICK new \in CleanupRow : WellFormed(new) /\ cleanup' = [cleanup EXCEPT ![k] = new]
  <2>1. CASE RetryErasure(k)
    <3> DEFINE fresh == Row("ready", row.sha, "erasure")
               n == row.retries + 1
               new == [fresh EXCEPT !.retries = n]
    <3>1. fresh \in CleanupRow /\ WellFormed(fresh)
      BY <1>1, FreshRows DEF CleanupRow
    <3>2. n \in 0..MaxRetries
      BY <1>1, <2>1, NumberAssumption DEF RetryErasure, CleanupRow
    <3>3. cleanup' = [cleanup EXCEPT ![k] = new]
      BY <1>1, <2>1 DEF RetryErasure
    <3>4. new \in CleanupRow /\ WellFormed(new)
      <4> HIDE DEF fresh, n
      <4> QED
        BY <3>1, <3>2 DEF CleanupRow, WellFormed
    <3> HIDE DEF new
    <3> QED
      BY <3>3, <3>4
  <2>2. CASE LapseLease(k)
    <3> DEFINE new == [row EXCEPT !.live = FALSE]
    <3>1. new \in CleanupRow /\ WellFormed(new)
      BY <1>1 DEF CleanupRow, WellFormed
    <3>2. cleanup' = [cleanup EXCEPT ![k] = new]
      BY <1>1, <2>2 DEF LapseLease
    <3> QED
      BY <3>1, <3>2
  <2>3. CASE BecomeDue(k)
    <3> DEFINE new == [row EXCEPT !.due = TRUE]
    <3>1. new \in CleanupRow /\ WellFormed(new)
      BY <1>1 DEF CleanupRow, WellFormed
    <3>2. cleanup' = [cleanup EXCEPT ![k] = new]
      BY <1>1, <2>3 DEF BecomeDue
    <3> QED
      BY <3>1, <3>2
  <2> QED
    BY <2>1, <2>2, <2>3
<1>3. UNCHANGED cleaner /\ OnlyCleanup /\ (UNCHANGED faults \/ Fault)
  BY DEF RetryErasure, LapseLease, BecomeDue, OnlyCleanup, actors
<1>4. cleanup' \in [Keys -> CleanupRow] /\ \A j \in Keys : WellFormed(cleanup'[j])
  BY <1>2, OneRowTyped
<1> QED
  BY <1>3, <1>4, CleanupRetyped, TypeParts DEF Typed

LEMMA ClaimType ==
  ASSUME Typed, NEW w \in Cleaners, NEW k \in Keys, ClaimCleanup(w, k)
  PROVE  Typed'
<1> DEFINE row == cleanup[k]
           n == IF row.status = "running" THEN row.attempts ELSE row.attempts + 1
           new == [row EXCEPT !.status = "running", !.owner = CleanerName[w], !.live = TRUE,
                              !.attempts = n]
           memory == [step |-> "check", key |-> k, own |-> TRUE, sha |-> row.sha, stat |-> NoStat]
<1>1. row \in CleanupRow /\ WellFormed(row) /\ cleanup \in [Keys -> CleanupRow]
  BY TypeParts DEF Typed
<1>2. n \in Nat /\ n <= MaxAttempts
  BY <1>1, NumberAssumption DEF ClaimCleanup, Claimable, Waiting, CleanupRow, WellFormed
<1>3. CleanerName[w] \in Names /\ CleanerName[w] # Nobody
  BY PlaceAssumption
<1>4. new \in CleanupRow /\ WellFormed(new)
  <2> HIDE DEF n
  <2> QED
    BY <1>1, <1>2, <1>3 DEF CleanupRow, WellFormed
<1>5. cleanup' = [cleanup EXCEPT ![k] = new]
  BY <1>1 DEF ClaimCleanup
<1>6. memory \in CleanerMemory /\ memory.key = k
  BY <1>1, NoStatFits DEF CleanerMemory, CleanupRow
<1>7. cleaner' = [cleaner EXCEPT ![w] = memory]
  BY DEF ClaimCleanup
<1>8. cleanup' \in [Keys -> CleanupRow] /\ \A j \in Keys : WellFormed(cleanup'[j])
  <2> HIDE DEF new
  <2> QED
    BY <1>4, <1>5, OneRowTyped
<1>9. /\ cleaner' \in [Cleaners -> CleanerMemory]
      /\ \A v \in Cleaners : cleaner'[v].step # "idle" => cleaner'[v].key \in Keys
  <2> HIDE DEF memory
  <2> QED
    BY <1>6, <1>7, OneCleanerTyped
<1> QED
  BY <1>8, <1>9, CleanupRetyped DEF ClaimCleanup, OnlyCleanup

CleanerSteps == {"check", "link", "unlink", "drop", "done", "retryable", "permanent"}

(* A worker moves on. *)
LEMMA CleanerMoves ==
  ASSUME Typed, NEW w \in Cleaners, cleaner[w].step # "idle", NEW step \in CleanerSteps,
         \/ CleanerGoto(w, step) \/ CleanerHolds(w, step)
         \/ cleaner' = [cleaner EXCEPT ![w].step = step]
  PROVE  /\ cleaner' \in [Cleaners -> CleanerMemory]
         /\ \A v \in Cleaners : cleaner'[v].step # "idle" => cleaner'[v].key \in Keys
         /\ cleaner'[w].step = step /\ cleaner'[w].key = cleaner[w].key
         /\ \A v \in Cleaners \ {w} : cleaner'[v] = cleaner[v]
<1>1. cleaner[w] \in CleanerMemory /\ cleaner \in [Cleaners -> CleanerMemory]
  BY TypeParts DEF Typed
<1>2. cleaner[w].key \in Keys
  BY DEF Typed
<1>3. PICK stat \in Stats : cleaner' = [cleaner EXCEPT ![w] = [cleaner[w] EXCEPT !.step = step, !.stat = stat]]
  <2>1. CASE CleanerGoto(w, step)
    BY <1>1, <2>1, NoStatFits DEF CleanerGoto
  <2>2. CASE CleanerHolds(w, step)
    BY <1>1, <1>2, <2>2, StatFits, KeyFacts DEF CleanerHolds
  <2>3. CASE cleaner' = [cleaner EXCEPT ![w].step = step]
    <3>1. cleaner[w].stat \in Stats
      BY <1>1 DEF CleanerMemory
    <3>2. [cleaner[w] EXCEPT !.step = step, !.stat = cleaner[w].stat] = [cleaner[w] EXCEPT !.step = step]
      BY <1>1 DEF CleanerMemory
    <3> QED
      BY <1>1, <2>3, <3>1, <3>2
  <2> QED
    BY <2>1, <2>2, <2>3
<1> DEFINE memory == [cleaner[w] EXCEPT !.step = step, !.stat = stat]
<1>4. memory \in CleanerMemory /\ memory.key = cleaner[w].key /\ memory.step = step
  BY <1>1, <1>3 DEF CleanerMemory, CleanerSteps
<1> HIDE DEF memory
<1>5. cleaner' = [cleaner EXCEPT ![w] = memory]
  BY <1>3 DEF memory
<1> QED
  BY <1>1, <1>2, <1>4, <1>5, OneCleanerTyped

\* What a worker does in the directory.
WorkInDirectory(w) ==
  \/ VerifyRecording(w) \/ Reconsider(w) \/ LinkQuarantine(w) \/ UnlinkSource(w)
  \/ UnlinkQuarantined(w) \/ FailExecution(w)

(* Such a step is a move from one step of execute to another. *)
LEMMA WorkMoves ==
  ASSUME Typed, NEW w \in Cleaners, WorkInDirectory(w)
  PROVE  /\ cleaner[w].step # "idle" /\ cleaner[w].key \in Keys
         /\ cleaner' \in [Cleaners -> CleanerMemory]
         /\ \A v \in Cleaners : cleaner'[v].step # "idle" => cleaner'[v].key \in Keys
         /\ cleaner'[w].step # "idle" /\ cleaner'[w].key = cleaner[w].key
         /\ \A v \in Cleaners \ {w} : cleaner'[v] = cleaner[v]
<1>1. cleaner[w].step # "idle"
  BY DEF WorkInDirectory, VerifyRecording, Reconsider, LinkQuarantine, UnlinkSource,
         UnlinkQuarantined, FailExecution
<1>2. \E step \in CleanerSteps :
         \/ CleanerGoto(w, step) \/ CleanerHolds(w, step)
         \/ cleaner' = [cleaner EXCEPT ![w].step = step]
  BY DEF WorkInDirectory, VerifyRecording, Reconsider, LinkQuarantine, UnlinkSource,
         UnlinkQuarantined, FailExecution, Verdict, CleanerSteps
<1>3. cleaner[w].key \in Keys
  BY <1>1 DEF Typed
<1>4. PICK step \in CleanerSteps :
         \/ CleanerGoto(w, step) \/ CleanerHolds(w, step)
         \/ cleaner' = [cleaner EXCEPT ![w].step = step]
  BY <1>2
<1>5. step # "idle"
  BY <1>4 DEF CleanerSteps
<1> QED
  BY <1>1, <1>3, <1>4, <1>5, CleanerMoves

LEMMA WorkType ==
  ASSUME Typed, NEW w \in Cleaners, WorkInDirectory(w)
  PROVE  Typed'
<1>1. /\ cleaner' \in [Cleaners -> CleanerMemory]
      /\ \A v \in Cleaners : cleaner'[v].step # "idle" => cleaner'[v].key \in Keys
      /\ cleaner[w].key \in Keys
  BY WorkMoves
<1>2. root' \subseteq Keys /\ quarantine' \subseteq Keys
  BY <1>1, TypeParts
     DEF Typed, WorkInDirectory, VerifyRecording, Reconsider, LinkQuarantine, UnlinkSource,
         UnlinkQuarantined, FailExecution, files
<1>3. faults' \in 0..MaxFaults
  BY FaultFits, TypeParts
     DEF Typed, WorkInDirectory, VerifyRecording, Reconsider, LinkQuarantine, UnlinkSource,
         UnlinkQuarantined, FailExecution
<1>4. UNCHANGED <<content, old, rows, upload, finder>>
  BY DEF WorkInDirectory, VerifyRecording, Reconsider, LinkQuarantine, UnlinkSource,
         UnlinkQuarantined, FailExecution, files
<1> QED
  BY <1>1, <1>2, <1>3, <1>4, TypeParts, Retyped DEF Typed, rows

\* What a worker does when its execution is over.
Finish(w) == FinishSuccess(w) \/ FinishFailure(w) \/ FinishNothing(w) \/ LoseOutcome(w)

(* It forgets its job, and others may learn that the row is gone. *)
LEMMA FinishMoves ==
  ASSUME Typed, NEW w \in Cleaners, Finish(w)
  PROVE  /\ cleaner[w].step # "idle" /\ cleaner[w].key \in Keys
         /\ cleaner' \in [Cleaners -> CleanerMemory] /\ cleaner'[w] = IdleCleaner
         /\ \A v \in Cleaners \ {w} :
              cleaner'[v].step = cleaner[v].step /\ cleaner'[v].key = cleaner[v].key
<1>1. cleaner[w].step # "idle" /\ cleaner[w].key \in Keys
  BY DEF Finish, FinishSuccess, FinishFailure, FinishNothing, LoseOutcome, Typed
<1>2. \A v \in Cleaners : cleaner[v] \in CleanerMemory
  BY TypeParts DEF Typed
<1>3. CASE cleaner' = [cleaner EXCEPT ![w] = IdleCleaner]
  BY <1>1, <1>3, IdleFits, TypeParts DEF Typed
<1>4. ASSUME NEW k, NEW gone \in BOOLEAN, cleaner' = CleanerStops(w, k, gone)
      PROVE  /\ cleaner' \in [Cleaners -> CleanerMemory] /\ cleaner'[w] = IdleCleaner
             /\ \A v \in Cleaners \ {w} :
                  cleaner'[v].step = cleaner[v].step /\ cleaner'[v].key = cleaner[v].key
  <2>1. \A v \in Cleaners :
          cleaner'[v] = IF v = w THEN IdleCleaner
                        ELSE [cleaner[v] EXCEPT !.own = cleaner[v].own /\ ~(gone /\ cleaner[v].key = k)]
    BY <1>2, <1>4 DEF CleanerStops, CleanerMemory
  <2>2. ASSUME NEW v \in Cleaners, v # w
        PROVE  /\ cleaner'[v] \in CleanerMemory
               /\ cleaner'[v].step = cleaner[v].step /\ cleaner'[v].key = cleaner[v].key
    <3> DEFINE own == cleaner[v].own /\ ~(gone /\ cleaner[v].key = k)
    <3>1. own \in BOOLEAN
      OBVIOUS
    <3>2. cleaner'[v] = [cleaner[v] EXCEPT !.own = own] /\ cleaner[v] \in CleanerMemory
      BY <1>2, <2>1, <2>2
    <3> HIDE DEF own
    <3> QED
      BY <3>1, <3>2 DEF CleanerMemory
  <2>3. cleaner' = [v \in Cleaners |-> cleaner'[v]]
    BY <1>4 DEF CleanerStops
  <2>4. cleaner'[w] = IdleCleaner
    BY <2>1
  <2>5. \A v \in Cleaners : cleaner'[v] \in CleanerMemory
    BY <2>2, <2>4, IdleFits
  <2> QED
    BY <2>2, <2>3, <2>4, <2>5
<1>5. CASE FinishSuccess(w)
  <2>1. (cleanup[cleaner[w].key].reason # "erasure") \in BOOLEAN
    OBVIOUS
  <2> QED
    BY <1>1, <1>4, <1>5, <2>1 DEF FinishSuccess
<1>6. CASE FinishFailure(w)
  BY <1>1, <1>4, <1>6 DEF FinishFailure
<1> QED
  BY <1>1, <1>3, <1>5, <1>6 DEF Finish, FinishNothing, LoseOutcome

(* The row it leaves is released, or gone. *)
LEMMA FinishRows ==
  ASSUME Typed, NEW w \in Cleaners, Finish(w)
  PROVE  /\ \/ UNCHANGED cleanup
            \/ /\ FinishSuccess(w) /\ cleanup[cleaner[w].key].reason # "erasure"
               /\ cleanup' = [cleanup EXCEPT ![cleaner[w].key] = NoRow]
            \/ /\ FinishSuccess(w) /\ cleanup[cleaner[w].key].reason = "erasure"
               /\ cleanup' = [cleanup EXCEPT ![cleaner[w].key] =
                                Released(cleanup[cleaner[w].key], "succeeded")]
            \/ /\ FinishFailure(w) /\ HasJob(cleaner[w].key)
               /\ \E status \in {"retry_wait", "failed"} :
                    cleanup' = [cleanup EXCEPT ![cleaner[w].key] =
                                  Released(cleanup[cleaner[w].key], status)]
         /\ OnlyCleanup /\ (UNCHANGED faults \/ Fault)
<1> DEFINE k == cleaner[w].key
<1>1. k \in Keys /\ cleanup \in [Keys -> CleanupRow]
  BY FinishMoves, TypeParts DEF Typed
<1>2. OnlyCleanup /\ (UNCHANGED faults \/ Fault)
  BY DEF Finish, FinishSuccess, FinishFailure, FinishNothing, LoseOutcome, OnlyCleanup, rows
<1>3. CASE FinishSuccess(w)
  <2>1. cleanup' = [cleanup EXCEPT ![k] =
          IF cleanup[k].reason = "erasure" THEN Released(cleanup[k], "succeeded") ELSE NoRow]
    BY <1>1, <1>3 DEF FinishSuccess
  <2> QED
    BY <1>2, <1>3, <2>1
<1>4. CASE FinishFailure(w)
  <2>1. cleanup' = [cleanup EXCEPT ![k] =
          Released(cleanup[k], IF Retryable(w) THEN "retry_wait" ELSE "failed")]
    BY <1>1, <1>4 DEF FinishFailure
  <2>2. HasJob(k)
    BY <1>4 DEF FinishFailure, OwnsLiveLease, HasJob
  <2> QED
    BY <1>2, <1>4, <2>1, <2>2
<1> QED
  BY <1>2, <1>3, <1>4 DEF Finish, FinishNothing, LoseOutcome, rows

LEMMA FinishType ==
  ASSUME Typed, NEW w \in Cleaners, Finish(w)
  PROVE  Typed'
<1>1. /\ cleaner' \in [Cleaners -> CleanerMemory]
      /\ \A v \in Cleaners : cleaner'[v].step # "idle" => cleaner'[v].key \in Keys
  BY FinishMoves, IdleFits DEF Typed
<1> DEFINE k == cleaner[w].key
<1>2. k \in Keys /\ cleanup[k] \in CleanupRow /\ WellFormed(cleanup[k])
  BY FinishMoves, TypeParts DEF Typed
<1>3. OnlyCleanup /\ (UNCHANGED faults \/ Fault)
  BY FinishRows
<1>4. CASE UNCHANGED cleanup
  <2>1. cleanup' \in [Keys -> CleanupRow] /\ \A j \in Keys : WellFormed(cleanup'[j])
    BY <1>4, TypeParts DEF Typed, WellFormed
  <2> QED
    BY <1>1, <1>3, <2>1, CleanupRetyped
<1>5. ASSUME NEW new \in CleanupRow, WellFormed(new), cleanup' = [cleanup EXCEPT ![k] = new]
      PROVE  Typed'
  <2>1. cleanup' \in [Keys -> CleanupRow] /\ \A j \in Keys : WellFormed(cleanup'[j])
    BY <1>2, <1>5, OneRowTyped
  <2> QED
    BY <1>1, <1>3, <2>1, CleanupRetyped
<1>6. CASE cleanup' = [cleanup EXCEPT ![k] = NoRow]
  BY <1>5, <1>6, AbsentRow
<1>7. ASSUME NEW status \in {"retry_wait", "failed", "succeeded"},
             cleanup' = [cleanup EXCEPT ![k] = Released(cleanup[k], status)]
      PROVE  Typed'
  BY <1>2, <1>5, <1>7, ReleasedRows
<1> QED
  BY <1>4, <1>6, <1>7, FinishRows

(* Discovery. *)
LEMMA DroppedFits ==
  ASSUME Typed, NEW k \in Keys
  PROVE  /\ Dropped(k) \in FinderMemory
         /\ Dropped(k).page = finder.page \ {k} /\ Dropped(k).stale = finder.stale
         /\ Dropped(k).active = finder.active
<1>1. finder \in FinderMemory
  BY TypeParts DEF Typed
<1> DEFINE stat == [finder.stat EXCEPT ![k] = NoStat]
           page == finder.page \ {k}
<1>2. stat \in [Keys -> Stats] /\ page \in SUBSET Keys /\ Nobody \in Bytes
  BY <1>1, NoStatFits DEF FinderMemory, Bytes
<1>3. Dropped(k) = [finder EXCEPT !.step = "page", !.page = page, !.stat = stat, !.sha = Nobody]
  BY <1>1 DEF Dropped, FinderMemory
<1> HIDE DEF stat
<1> QED
  BY <1>1, <1>2, <1>3 DEF FinderMemory

(* What each step leaves in the memory of discovery: a page may only lose keys,  *)
(* except when it is read from the directory.                                   *)
LEMMA FinderMoves ==
  ASSUME Typed, FinderStep \/ FailScan
  PROVE  /\ finder' \in FinderMemory
         /\ \/ /\ StartScan /\ finder'.page = finder.page /\ finder'.stale = old
               /\ finder'.active = ActiveIds(FinderHome)
            \/ /\ Scan /\ finder'.page \subseteq Candidates /\ finder'.stale = {}
            \/ /\ finder'.page \subseteq finder.page
               /\ finder'.stale = {} \/ (finder'.stale = finder.stale /\ finder'.active = finder.active)
<1>1. finder \in FinderMemory
  BY TypeParts DEF Typed
<1>2. CASE StartScan
  <2>1. ActiveIds(FinderHome) \in SUBSET Ids /\ old \in SUBSET Ids
    BY TypeParts DEF Typed, ActiveIds
  <2>2. finder' = [finder EXCEPT !.step = "scan", !.stale = old, !.active = ActiveIds(FinderHome)]
    BY <1>2 DEF StartScan
  <2> QED
    BY <1>1, <1>2, <2>1, <2>2 DEF FinderMemory
<1>3. CASE Scan
  <2> DEFINE page == Smallest(Candidates, PageLimit)
             stat == [k \in Keys |-> IF k \in page THEN Stat(IdOf(k)) ELSE NoStat]
             next == NextCursor(page)
  <2>1. page \subseteq Candidates /\ page \in SUBSET Keys
    BY TypeParts DEF Typed, Smallest, Candidates
  <2>2. stat \in [Keys -> Stats]
    BY StatFits, NoStatFits, KeyFacts
  <2>3. next \in Keys \cup {0}
    <3>1. page = {} => next = 0
      BY FS_EmptySet, NumberAssumption DEF NextCursor
    <3>2. page # {} => Greatest(page) \in Keys
      BY <2>1, GreatestFits
    <3> QED
      BY <3>1, <3>2 DEF NextCursor
  <2>4. finder' = [finder EXCEPT !.step = "page", !.page = page, !.stale = {}, !.active = {},
                                 !.next = next, !.stat = stat]
    BY <1>3 DEF Scan
  <2> HIDE DEF page, stat, next
  <2> QED
    BY <1>1, <1>3, <2>1, <2>2, <2>3, <2>4 DEF FinderMemory
<1>4. CASE EndScan
  <2>1. finder' = [FreshFinder EXCEPT !.cursor = finder.next] /\ finder.next \in Keys \cup {0}
    BY <1>1, <1>4 DEF EndScan, FinderMemory
  <2> QED
    BY <2>1, FreshFinderFits DEF FreshFinder
<1>5. CASE FailScan
  <2>1. finder' = [FreshFinder EXCEPT !.cursor = finder.cursor] /\ finder.cursor \in Keys \cup {0}
    BY <1>1, <1>5 DEF FailScan, FinderMemory
  <2> QED
    BY <2>1, FreshFinderFits DEF FreshFinder
<1>6. ASSUME NEW k \in Keys, SkipOwned(k) \/ Identify(k) \/ ScheduleOrphan(k)
      PROVE  /\ finder' \in FinderMemory
             /\ finder'.page \subseteq finder.page
             /\ finder'.stale = finder.stale /\ finder'.active = finder.active
  <2>1. CASE finder' = Dropped(k)
    BY <2>1, DroppedFits
  <2>2. CASE finder' = [finder EXCEPT !.step = "identify"]
    BY <1>1, <2>2 DEF FinderMemory
  <2>3. CASE finder' = [finder EXCEPT !.step = "schedule", !.sha = content[IdOf(k)]]
    <3>1. content[IdOf(k)] \in Bytes
      BY KeyFacts, TypeParts DEF Typed
    <3> QED
      BY <1>1, <2>3, <3>1 DEF FinderMemory
  <2> QED
    BY <1>6, <2>1, <2>2, <2>3 DEF SkipOwned, Identify, ScheduleOrphan
<1> QED
  BY <1>2, <1>3, <1>4, <1>5, <1>6 DEF FinderStep

LEMMA FinderType ==
  ASSUME Typed, FinderStep \/ FailScan
  PROVE  Typed'
<1>1. finder' \in FinderMemory
  BY FinderMoves
<1>2. UNCHANGED <<files, asset, meeting, upload, cleaner>> /\ (UNCHANGED faults \/ Fault)
  BY DEF FinderStep, FailScan, StartScan, Scan, EndScan, SkipOwned, Identify, ScheduleOrphan, rows
<1>3. faults' \in 0..MaxFaults
  BY <1>2, FaultFits, TypeParts DEF Typed
<1>4. cleanup' \in [Keys -> CleanupRow] /\ \A j \in Keys : WellFormed(cleanup'[j])
  <2>1. CASE UNCHANGED cleanup
    BY <2>1, TypeParts DEF Typed, WellFormed
  <2>2. ASSUME NEW k \in Keys, ScheduleOrphan(k)
        PROVE  cleanup' \in [Keys -> CleanupRow] /\ \A j \in Keys : WellFormed(cleanup'[j])
    <3>1. finder.sha \in Bytes
      BY TypeParts DEF Typed, FinderMemory
    <3> QED
      BY <2>2, <3>1, ScheduleType DEF ScheduleOrphan
  <2> QED
    BY <2>1, <2>2 DEF FinderStep, FailScan, StartScan, Scan, EndScan, SkipOwned, Identify, rows
<1> QED
  BY <1>1, <1>2, <1>3, <1>4, TypeParts, Retyped DEF Typed, files

LEMMA CrashType ==
  ASSUME Typed, NEW p \in Processes, Crash(p)
  PROVE  Typed'
<1>1. /\ upload' \in [Uploads -> UploadMemory]
      /\ \A u \in Uploads : upload'[u] \in {upload[u], IdleUpload}
  BY TypeParts, IdleFits DEF Typed, Crash
<1>2. /\ cleaner' \in [Cleaners -> CleanerMemory]
      /\ \A w \in Cleaners : cleaner'[w] \in {cleaner[w], IdleCleaner}
  BY TypeParts, IdleFits DEF Typed, Crash
<1>3. finder' \in FinderMemory
  <2>1. FreshFinder \in FinderMemory
    BY FreshFinderFits
  <2> QED
    BY <2>1, TypeParts DEF Typed, Crash
<1>4. faults' \in 0..MaxFaults /\ UNCHANGED <<files, rows>>
  BY FaultFits DEF Typed, Crash
<1>5. \A u \in Uploads : upload'[u].step # "idle" => upload'[u] = upload[u]
  BY <1>1, IdleFits
<1>6. \A w \in Cleaners : cleaner'[w].step # "idle" => cleaner'[w] = cleaner[w]
  BY <1>2, IdleFits
<1>7. /\ \A u \in Uploads : upload'[u].step # "idle" =>
           upload'[u].id \in Ids /\ upload'[u].request \in Requests /\ upload'[u].sha \in Contents
      /\ \A w \in Cleaners : cleaner'[w].step # "idle" => cleaner'[w].key \in Keys
  BY <1>5, <1>6 DEF Typed
<1> QED
  BY <1>1, <1>2, <1>3, <1>4, <1>7, TypeParts, Retyped DEF Typed, files, rows

LEMMA AgeType ==
  ASSUME Typed, NEW i \in Ids, Age(i)
  PROVE  Typed'
BY TypeParts, Retyped DEF Typed, Age, rows, actors

LEMMA StutterType ==
  ASSUME Typed, UNCHANGED vars
  PROVE  Typed'
BY TypeParts, Retyped DEF Typed, vars, files, rows, actors

LEMMA InitTyped == Init => Typed
<1> SUFFICES ASSUME Init PROVE Typed
  OBVIOUS
<1>1. FreshFinder \in FinderMemory
  BY FreshFinderFits
<1>2. faults \in 0..MaxFaults
  BY NumberAssumption DEF Init
<1>3. TypeOK
  BY <1>1, <1>2, AbsentRow, IdleFits, TypeParts DEF Init, Bytes
<1> QED
  BY <1>3, IdleFits DEF Init, Typed

\* The step of one upload, of one cleanup job, of one worker.
UploadDoes(u) ==
  \/ StageUpload(u) \/ RejectUpload(u) \/ PublishUpload(u) \/ FinishUpload(u)

(* The steps there are. *)
LEMMA Steps ==
  ASSUME [Next]_vars
  PROVE  \/ \E u \in Uploads, r \in Requests, c \in Contents, i \in Ids : StartUpload(u, r, c, i)
         \/ \E u \in Uploads : UploadDoes(u)
         \/ \E u \in Uploads : CommitIngest(u) \/ SettleUpload(u)
         \/ \E r \in Requests : Erase(r)
         \/ \E k \in Keys : ConcludeErasure(k)
         \/ \E k \in Keys : RetryErasure(k) \/ LapseLease(k) \/ BecomeDue(k)
         \/ \E w \in Cleaners, k \in Keys : ClaimCleanup(w, k)
         \/ \E w \in Cleaners : WorkInDirectory(w)
         \/ \E w \in Cleaners : Finish(w)
         \/ \E i \in Ids : Age(i)
         \/ FinderStep \/ FailScan
         \/ \E p \in Processes : Crash(p)
         \/ UNCHANGED vars
BY DEF Next, UploadStep, UploadDoes, WorkStep, WorkInDirectory, Finish

LEMMA StepTyped == Typed /\ [Next]_vars => Typed'
<1> SUFFICES ASSUME Typed, [Next]_vars PROVE Typed'
  OBVIOUS
<1> QED
  BY Steps, StartUploadType, UploadStepType, IngestType, EraseType, ConcludeType, RowStepType,
     ClaimType, WorkType, FinishType, AgeType, FinderType, CrashType, StutterType DEF UploadDoes

(* Every row of the recording tables keeps the constraints of its model, and no  *)
(* cleanup is attempted more than MaxAttempts times, however uploads, cleanups,   *)
(* erasures and discovery interleave (recording_cleanup.py, audio.py).            *)
THEOREM TypeCorrect == Spec => []TypeOK
<1>1. Typed => TypeOK
  BY DEF Typed
<1> QED
  BY <1>1, InitTyped, StepTyped, PTL DEF Spec

-----------------------------------------------------------------------------
(* Who owns a recording.                                                   *)

Storing(u) == upload[u].step \in {"staging", "staged", "linked"}
Early(u) == upload[u].step \in {"staging", "staged"}

\* An upload at work has a file of its own, which is no asset before it is ingested.
UploadsFit ==
  /\ \A u \in Uploads : upload[u].step # "idle" => content[upload[u].id] # Nobody
  /\ \A u, v \in Uploads :
       upload[u].step # "idle" /\ upload[v].step # "idle" /\ upload[u].id = upload[v].id => u = v
  /\ \A u \in Uploads, c \in Contents :
       Storing(u) \/ upload[u].step = "stored" => asset[c] # upload[u].id

\* An asset has a file of its own, and a meeting that was not erased has an asset.
AssetsFit ==
  /\ \A c \in Contents : asset[c] # 0 => content[asset[c]] # Nobody
  /\ \A c, d \in Contents : asset[c] # 0 /\ asset[c] = asset[d] => c = d
  /\ \A r \in Requests : meeting[r] \in Contents => asset[meeting[r]] # 0

\* Some file has the name k, or some actor or cleanup job has met it.
Seen(k) ==
  \/ k \in root \cup quarantine \/ HasJob(k) \/ k \in finder.page
  \/ \E w \in Cleaners : cleaner[w].step # "idle" /\ cleaner[w].key = k

\* The file of k exists, and no upload is still to give it this name.
Sound(k) ==
  /\ content[IdOf(k)] # Nobody
  /\ \A u \in Uploads : Early(u) => FinalKey(upload[u].id) # k

SeenFit == \A k \in Keys : Seen(k) => Sound(k)

\* Discovery knows which of the stale files are being uploaded.
FinderFit ==
  /\ \A i \in old \cup finder.stale : content[i] # Nobody
  /\ \A u \in Uploads :
       Storing(u) /\ Home[u] = FinderHome /\ upload[u].id \in finder.stale =>
         upload[u].id \in finder.active
  /\ \A k \in finder.page : ~BeingStored(k)

\* What a worker believes to be gone is gone, and so is the file of a job that is.
GoneFit ==
  /\ \A k \in Keys : cleanup[k].status = "succeeded" => k \notin root \cup quarantine
  /\ \A w \in Cleaners :
       LET k == cleaner[w].key IN
       /\ cleaner[w].step = "done" => k \notin root \cup quarantine
       /\ cleaner[w].step = "drop" => k \notin root
       /\ cleaner[w].step # "idle" => HasJob(k) \/ k \notin root

Fits == UploadsFit /\ AssetsFit /\ SeenFit /\ FinderFit /\ KeyHasOneOwner /\ GoneFit
Inv == Typed /\ Fits

(* An owned key is the final name of an asset's file. *)
LEMMA OwnedKeys ==
  ASSUME Typed, NEW k \in Keys, Owned(k)
  PROVE  /\ IdOf(k) \in Ids /\ k = FinalKey(IdOf(k))
         /\ \E c \in Contents : asset[c] = IdOf(k) /\ asset[c] # 0
BY KeyFacts, TypeParts DEF Typed, Owned

(* A name that is being stored is the temporary name of an upload's file. *)
LEMMA StoringBusy ==
  ASSUME Typed, NEW u \in Uploads, Storing(u) \/ Early(u)
  PROVE  upload[u].step # "idle" /\ upload[u].id \in Ids
BY DEF Typed, Storing, Early

-----------------------------------------------------------------------------
(* What almost every step leaves alone: uploads only move on, files only gain *)
(* content.                                                                   *)

Onward ==
  \A u \in Uploads :
    upload'[u].step # "idle" =>
      /\ upload[u].step # "idle" /\ upload'[u].id = upload[u].id
      /\ upload'[u].step \in {"staging", "staged"} => Early(u)
      /\ upload'[u].step \in {"staging", "staged", "linked"} => Storing(u)
      /\ upload'[u].step = "stored" => Storing(u) \/ upload[u].step = "stored"

Gains == \A i \in Ids : content[i] # Nobody => content'[i] # Nobody

Quiet == Onward /\ Gains

LEMMA UploadsStay ==
  ASSUME Typed, UploadsFit, Quiet, \A c \in Contents : asset'[c] \in {asset[c], 0}
  PROVE  UploadsFit'
<1>1. \A u \in Uploads : upload'[u].step # "idle" =>
        upload[u].step # "idle" /\ upload'[u].id = upload[u].id /\ upload[u].id \in Ids
  BY DEF Quiet, Onward, Typed
<1>2. \A u \in Uploads : upload'[u].step # "idle" => content'[upload'[u].id] # Nobody
  BY <1>1 DEF UploadsFit, Quiet, Gains
<1>3. \A u, v \in Uploads :
        upload'[u].step # "idle" /\ upload'[v].step # "idle" /\ upload'[u].id = upload'[v].id => u = v
  BY <1>1 DEF UploadsFit
<1>4. ASSUME NEW u \in Uploads, NEW c \in Contents,
             upload'[u].step \in {"staging", "staged", "linked", "stored"}
      PROVE  asset'[c] # upload'[u].id
  <2>1. Storing(u) \/ upload[u].step = "stored"
    BY <1>4 DEF Quiet, Onward
  <2>2. asset[c] # upload[u].id /\ upload'[u].id = upload[u].id /\ upload[u].id # 0
    BY <1>1, <1>4, <2>1, KeyFacts DEF UploadsFit
  <2> QED
    BY <2>2
<1> QED
  BY <1>2, <1>3, <1>4 DEF UploadsFit, Storing

LEMMA AssetsStay ==
  ASSUME Typed, AssetsFit, Gains, UNCHANGED <<asset, meeting>>
  PROVE  AssetsFit'
<1>1. \A c \in Contents : asset[c] # 0 => asset[c] \in Ids
  BY TypeParts DEF Typed
<1> QED
  BY <1>1 DEF AssetsFit, Gains

(* What is sound stays so. *)
LEMMA SoundStays ==
  ASSUME Typed, Quiet, NEW k \in Keys, Sound(k)
  PROVE  Sound(k)'
<1>1. content'[IdOf(k)] # Nobody
  BY KeyFacts DEF Sound, Quiet, Gains
<1>2. \A u \in Uploads : upload'[u].step \in {"staging", "staged"} =>
        Early(u) /\ upload'[u].id = upload[u].id
  BY DEF Quiet, Onward
<1> QED
  BY <1>1, <1>2 DEF Sound, Early

LEMMA SeenStays ==
  ASSUME Typed, Quiet, SeenFit, \A k \in Keys : Seen(k)' => Seen(k) \/ Sound(k)
  PROVE  SeenFit'
BY SoundStays DEF SeenFit

LEMMA BeingStoredStays ==
  ASSUME Quiet, NEW k \in Keys, BeingStored(k)'
  PROVE  BeingStored(k)
<1>1. PICK u \in Uploads : /\ Home[u] = FinderHome /\ k = PartKey(upload'[u].id)
                           /\ upload'[u].step \in {"staging", "staged", "linked"}
  BY DEF BeingStored
<1> QED
  BY <1>1 DEF BeingStored, Quiet, Onward, Storing

LEMMA FinderStays ==
  ASSUME Typed, Quiet, FinderFit, finder'.page \subseteq finder.page,
         \/ finder'.stale = {}
         \/ finder'.stale \subseteq finder.stale /\ finder'.active = finder.active,
         \A i \in old' : i \in Ids /\ content'[i] # Nobody
  PROVE  FinderFit'
<1>1. finder \in FinderMemory /\ \A i \in finder'.stale : i \in Ids /\ i \in finder.stale
  BY TypeParts DEF Typed, FinderMemory
<1>2. \A i \in old' \cup finder'.stale : content'[i] # Nobody
  BY <1>1 DEF FinderFit, Quiet, Gains
<1>3. ASSUME NEW u \in Uploads, upload'[u].step \in {"staging", "staged", "linked"},
             Home[u] = FinderHome, upload'[u].id \in finder'.stale
      PROVE  upload'[u].id \in finder'.active
  <2>1. Storing(u) /\ upload'[u].id = upload[u].id
    BY <1>3 DEF Quiet, Onward
  <2> QED
    BY <1>3, <2>1 DEF FinderFit
<1>4. \A k \in finder'.page : ~BeingStored(k)'
  <2>1. finder.page \subseteq Keys
    BY <1>1 DEF FinderMemory
  <2> QED
    BY <2>1, BeingStoredStays DEF FinderFit
<1> QED
  BY <1>2, <1>3, <1>4 DEF FinderFit, Storing

LEMMA OwnersStay ==
  ASSUME Quiet, KeyHasOneOwner,
         \A k \in Keys : HasJob(k)' => HasJob(k), \A c \in Contents : asset'[c] \in {asset[c], 0}
  PROVE  KeyHasOneOwner'
<1>1. \A k \in Keys : Owned(k)' => Owned(k)
  BY DEF Owned
<1> QED
  BY <1>1, BeingStoredStays DEF KeyHasOneOwner

LEMMA GoneStays ==
  ASSUME Typed, GoneFit, root' \subseteq root, quarantine' \subseteq quarantine,
         \A k \in Keys : HasJob(k) => HasJob(k)',
         \A k \in Keys : cleanup'[k].status = "succeeded" => cleanup[k].status = "succeeded",
         \A w \in Cleaners :
           \/ cleaner'[w].step = "idle"
           \/ /\ cleaner[w].step # "idle" /\ cleaner'[w].key = cleaner[w].key
              /\ cleaner'[w].step \in {"done", "drop"} => cleaner'[w].step = cleaner[w].step
  PROVE  GoneFit'
<1>1. \A k \in Keys : cleanup'[k].status = "succeeded" => k \notin root' \cup quarantine'
  BY DEF GoneFit
<1>2. ASSUME NEW w \in Cleaners, cleaner'[w].step # "idle"
      PROVE  LET k == cleaner'[w].key IN
             /\ cleaner'[w].step = "done" => k \notin root' \cup quarantine'
             /\ cleaner'[w].step = "drop" => k \notin root'
             /\ cleanup'[k].status # "absent" \/ k \notin root'
  <2> DEFINE k == cleaner[w].key
  <2>1. cleaner[w].step # "idle" /\ cleaner'[w].key = k /\ k \in Keys
    BY <1>2 DEF Typed
  <2>2. /\ cleaner[w].step = "done" => k \notin root \cup quarantine
        /\ cleaner[w].step = "drop" => k \notin root
        /\ HasJob(k) \/ k \notin root
    BY <2>1 DEF GoneFit
  <2>3. cleaner'[w].step \in {"done", "drop"} => cleaner'[w].step = cleaner[w].step
    BY <1>2
  <2> QED
    BY <2>1, <2>2, <2>3 DEF HasJob
<1> QED
  BY <1>1, <1>2 DEF GoneFit, HasJob

-----------------------------------------------------------------------------
(* Steps keep what belongs together.                                       *)

(* An upload only moves on. *)
LEMMA GoesOn ==
  ASSUME Typed, NEW u \in Uploads, upload[u].step # "idle",
         \/ UploadEnds(u) \/ UploadGoto(u, "settle")
         \/ UploadGoto(u, "staged") /\ Early(u)
         \/ (UploadGoto(u, "linked") \/ UploadGoto(u, "stored")) /\ Storing(u)
  PROVE  /\ Onward /\ \A v \in Uploads \ {u} : upload'[v] = upload[v]
         /\ UploadEnds(u) \/ upload'[u].id = upload[u].id
<1>1. upload \in [Uploads -> UploadMemory] /\ upload[u] \in UploadMemory
  BY TypeParts DEF Typed
<1>2. \A v \in Uploads \ {u} : upload'[v] = upload[v]
  BY <1>1 DEF UploadEnds, UploadGoto
<1>3. CASE UploadEnds(u)
  BY <1>1, <1>2, <1>3, IdleFits DEF Onward, UploadEnds, Early, Storing
<1>4. ASSUME NEW step, UploadGoto(u, step)
      PROVE  upload'[u].id = upload[u].id /\ upload'[u].step = step
  BY <1>1, <1>4 DEF UploadGoto, UploadMemory
<1>5. CASE UploadGoto(u, "settle")
  BY <1>2, <1>4, <1>5 DEF Onward, Early, Storing
<1>6. CASE UploadGoto(u, "staged") /\ Early(u)
  BY <1>2, <1>4, <1>6 DEF Onward, Early, Storing
<1>7. CASE (UploadGoto(u, "linked") \/ UploadGoto(u, "stored")) /\ Storing(u)
  BY <1>2, <1>4, <1>7 DEF Onward, Early, Storing
<1> QED
  BY <1>2, <1>3, <1>4, <1>5, <1>6, <1>7

LEMMA UploadsUnchanged ==
  ASSUME UNCHANGED <<upload, content>>
  PROVE  Quiet
BY DEF Quiet, Onward, Gains, Early, Storing

LEMMA OldStays ==
  ASSUME Typed, FinderFit, Gains, old' \subseteq old
  PROVE  \A i \in old' : i \in Ids /\ content'[i] # Nobody
BY TypeParts DEF Typed, FinderFit, Gains

\* Discovery remembers what it did.
FinderKeeps ==
  /\ finder'.page \subseteq finder.page
  /\ \/ finder'.stale = {}
     \/ finder'.stale \subseteq finder.stale /\ finder'.active = finder.active

\* No job is new, none is gone, and none succeeds now.
JobsKeep ==
  \A k \in Keys : /\ HasJob(k)' <=> HasJob(k)
                  /\ cleanup'[k].status = "succeeded" => cleanup[k].status = "succeeded"

\* A worker is idle, or has the job it had and has not found out anything.
CleanersKeep ==
  \A w \in Cleaners :
    \/ cleaner'[w].step = "idle"
    \/ /\ cleaner[w].step # "idle" /\ cleaner'[w].key = cleaner[w].key
       /\ cleaner'[w].step \in {"done", "drop"} => cleaner'[w].step = cleaner[w].step

(* A step that makes nothing new keeps everything. *)
LEMMA NothingNew ==
  ASSUME Inv, Quiet, UNCHANGED <<asset, meeting>>, root' \subseteq root,
         quarantine' \subseteq quarantine, old' \subseteq old, JobsKeep, CleanersKeep, FinderKeeps
  PROVE  Fits'
<1>1. UploadsFit' /\ AssetsFit'
  BY UploadsStay, AssetsStay DEF Inv, Fits, Quiet
<1>2. SeenFit'
  <2>1. \A k \in Keys : Seen(k)' => Seen(k)
    BY DEF Seen, JobsKeep, CleanersKeep, FinderKeeps
  <2> QED
    BY <2>1, SeenStays DEF Inv, Fits
<1>3. FinderFit'
  BY OldStays, FinderStays DEF Inv, Fits, FinderKeeps, Quiet
<1>4. KeyHasOneOwner'
  BY OwnersStay DEF Inv, Fits, JobsKeep
<1>5. GoneFit'
  BY GoneStays DEF Inv, Fits, JobsKeep, CleanersKeep
<1> QED
  BY <1>1, <1>2, <1>3, <1>4, <1>5 DEF Fits

LEMMA JobsUnchanged ==
  ASSUME UNCHANGED cleanup
  PROVE  JobsKeep
BY DEF JobsKeep, HasJob

LEMMA CleanersUnchanged ==
  ASSUME UNCHANGED cleaner
  PROVE  CleanersKeep
BY DEF CleanersKeep

LEMMA FinderUnchanged ==
  ASSUME UNCHANGED finder
  PROVE  FinderKeeps
BY DEF FinderKeeps

(* A new upload has a storage id nobody has met. *)
LEMMA StartUploadFits ==
  ASSUME Inv, NEW u \in Uploads, NEW r \in Requests, NEW c \in Contents, NEW i \in Ids,
         StartUpload(u, r, c, i)
  PROVE  Fits'
<1>1. /\ content[i] = Nobody /\ UNCHANGED <<quarantine, old, asset, meeting, cleanup, cleaner, finder>>
      /\ root' = root \cup {PartKey(i)}
  BY DEF StartUpload, rows
<1>2. /\ upload'[u].step = "staging" /\ upload'[u].id = i
      /\ \A v \in Uploads \ {u} : upload'[v] = upload[v]
  BY TypeParts DEF StartUpload, Inv, Typed
<1>3. content'[i] = "partial" /\ \A j \in Ids \ {i} : content'[j] = content[j]
  BY TypeParts DEF StartUpload, Inv, Typed
<1>4. "partial" # Nobody /\ Gains
  BY <1>1, <1>3, PlaceAssumption DEF Gains
<1>5. \A k \in Keys : IdOf(k) = i => ~Seen(k)
  BY <1>1 DEF Inv, Fits, SeenFit, Sound
<1>6. \A v \in Uploads : upload[v].step # "idle" => upload[v].id # i
  BY <1>1 DEF Inv, Fits, UploadsFit
<1>7. \A d \in Contents : asset[d] # 0 => asset[d] # i
  BY <1>1 DEF Inv, Fits, AssetsFit
<1>8. UploadsFit'
  <2>1. \A v \in Uploads : upload'[v].step # "idle" => content'[upload'[v].id] # Nobody
    <3>1. \A v \in Uploads \ {u} : upload[v].step # "idle" =>
             upload[v].id \in Ids /\ content[upload[v].id] # Nobody
      BY DEF Inv, Typed, Fits, UploadsFit
    <3> QED
      BY <1>2, <1>3, <1>4, <3>1 DEF Gains
  <2>2. \A v, x \in Uploads :
          upload'[v].step # "idle" /\ upload'[x].step # "idle" /\ upload'[v].id = upload'[x].id => v = x
    BY <1>2, <1>6 DEF Inv, Fits, UploadsFit
  <2>3. \A v \in Uploads, d \in Contents :
          upload'[v].step \in {"staging", "staged", "linked", "stored"} => asset'[d] # upload'[v].id
    <3>1. \A d \in Contents : asset[d] # i
      BY <1>7, KeyFacts
    <3> QED
      BY <1>1, <1>2, <3>1 DEF Inv, Fits, UploadsFit, Storing
  <2> QED
    BY <2>1, <2>2, <2>3 DEF UploadsFit, Storing
<1>9. AssetsFit'
  BY <1>1, <1>4, AssetsStay DEF Inv, Fits
<1>10. SeenFit'
  <2>1. ASSUME NEW k \in Keys, Seen(k)'
        PROVE  Sound(k)'
    <3>1. CASE k = PartKey(i)
      <4>1. \A v \in Uploads : upload'[v].step \in {"staging", "staged"} => FinalKey(upload'[v].id) # k
        <5>1. \A v \in Uploads : upload'[v].step # "idle" => upload'[v].id \in Ids
          BY <1>2 DEF Inv, Typed
        <5> QED
          BY <3>1, <5>1, KeyFacts
      <4> QED
        BY <1>3, <1>4, <3>1, <4>1, KeyFacts DEF Sound, Early
    <3>2. CASE k # PartKey(i)
      <4>1. Seen(k)
        BY <1>1, <2>1, <3>2 DEF Seen, HasJob
      <4>2. Sound(k) /\ IdOf(k) # i
        BY <1>5, <4>1 DEF Inv, Fits, SeenFit
      <4>3. FinalKey(i) # k
        BY <4>2, KeyFacts
      <4> QED
        BY <1>2, <1>4, <4>2, <4>3, KeyFacts DEF Sound, Early, Gains
    <3> QED
      BY <3>1, <3>2
  <2> QED
    BY <2>1 DEF SeenFit
<1>11. FinderFit'
  <2>1. i \notin old \cup finder.stale /\ old \cup finder.stale \subseteq Ids
        /\ finder.page \subseteq Keys
    BY <1>1, TypeParts DEF Inv, Fits, FinderFit, Typed, FinderMemory
  <2>2. \A j \in old' \cup finder'.stale : content'[j] # Nobody
    BY <1>1, <1>4, <2>1 DEF Inv, Fits, FinderFit, Gains
  <2>3. \A v \in Uploads :
          Storing(v)' /\ Home[v] = FinderHome /\ upload'[v].id \in finder'.stale =>
            upload'[v].id \in finder'.active
    BY <1>1, <1>2, <2>1 DEF Inv, Fits, FinderFit, Storing
  <2>4. \A k \in finder'.page : ~BeingStored(k)'
    <3>1. \A k \in finder.page : k # PartKey(i)
      BY <1>5, <2>1, KeyFacts DEF Seen
    <3> QED
      BY <1>1, <1>2, <3>1 DEF Inv, Fits, FinderFit, BeingStored
  <2> QED
    BY <2>2, <2>3, <2>4 DEF FinderFit
<1>12. KeyHasOneOwner'
  <2>1. \A k \in Keys : HasJob(k) => k # PartKey(i)
    BY <1>5, KeyFacts DEF Seen
  <2> QED
    BY <1>1, <1>2, <2>1 DEF Inv, Fits, KeyHasOneOwner, BeingStored, Owned, HasJob
<1>13. GoneFit'
  <2>1. \A w \in Cleaners : cleaner[w].step # "idle" =>
           cleaner[w].key \in Keys /\ cleaner[w].key # PartKey(i)
    BY <1>5, KeyFacts DEF Seen, Inv, Typed
  <2>2. \A k \in Keys : cleanup[k].status = "succeeded" => k # PartKey(i)
    BY <1>5, KeyFacts DEF Seen, HasJob
  <2> QED
    BY <1>1, <2>1, <2>2 DEF Inv, Fits, GoneFit, HasJob
<1> QED
  BY <1>8, <1>9, <1>10, <1>11, <1>12, <1>13 DEF Fits

(* Uploads that write, reject or finish a file make no new name. *)
LEMMA UploadStepFits ==
  ASSUME Inv, NEW u \in Uploads, StageUpload(u) \/ RejectUpload(u) \/ FinishUpload(u)
  PROVE  Fits'
<1>1. Storing(u) /\ upload[u].step # "idle"
  BY DEF StageUpload, RejectUpload, FinishUpload, Storing
<1>2. Onward
  <2>1. StageUpload(u) => Early(u)
    BY DEF StageUpload, Early
  <2> QED
    BY <1>1, <2>1, GoesOn DEF StageUpload, RejectUpload, FinishUpload, Inv
<1>3. Gains
  <2>1. CASE StageUpload(u)
    <3>1. content' = [content EXCEPT ![upload[u].id] = upload[u].sha] /\ upload[u].sha # Nobody
      BY <1>1, <2>1, PlaceAssumption DEF StageUpload, Inv, Typed
    <3> QED
      BY <3>1, TypeParts DEF Gains, Inv, Typed
  <2>2. CASE UNCHANGED content
    BY <2>2 DEF Gains
  <2> QED
    BY <2>1, <2>2 DEF RejectUpload, FinishUpload
<1>4. UNCHANGED <<asset, meeting, cleanup, cleaner, quarantine>> /\ root' \subseteq root
      /\ old' \subseteq old
  BY DEF StageUpload, RejectUpload, FinishUpload, rows
<1>5. FinderKeeps
  <2>1. CASE StageUpload(u)
    <3>1. finder' = [finder EXCEPT !.stale = finder.stale \ {upload[u].id}] /\ finder \in FinderMemory
      BY <2>1, TypeParts DEF StageUpload, Inv, Typed
    <3> QED
      BY <3>1 DEF FinderKeeps, FinderMemory
  <2> QED
    BY <2>1, FinderUnchanged DEF RejectUpload, FinishUpload
<1> QED
  BY <1>2, <1>3, <1>4, <1>5, JobsUnchanged, CleanersUnchanged, NothingNew DEF Quiet

(* The final name of a file is new to everybody. *)
LEMMA PublishFits ==
  ASSUME Inv, NEW u \in Uploads, PublishUpload(u)
  PROVE  Fits'
<1> DEFINE i == upload[u].id
<1>1. /\ upload[u].step = "staged" /\ i \in Ids /\ content[i] # Nobody
      /\ UNCHANGED <<quarantine, content, old, asset, meeting, cleanup, cleaner, finder>>
      /\ root' \subseteq root \cup {FinalKey(i)}
  BY DEF PublishUpload, rows, Inv, Typed, Fits, UploadsFit
<1>2. Onward /\ (\A v \in Uploads \ {u} : upload'[v] = upload[v])
      /\ (UploadEnds(u) \/ UploadGoto(u, "linked"))
  BY <1>1, GoesOn DEF PublishUpload, Storing, Inv
<1>3. Quiet
  BY <1>1, <1>2 DEF Quiet, Gains
<1>4. upload'[u].step \notin {"staging", "staged"}
  BY <1>2, TypeParts, IdleFits DEF UploadEnds, UploadGoto, Inv, Typed, UploadMemory
<1>5. UploadsFit' /\ AssetsFit' /\ KeyHasOneOwner' /\ FinderFit'
  <2>1. \A k \in Keys : HasJob(k)' => HasJob(k)
    BY <1>1 DEF HasJob
  <2>2. \A j \in old' : j \in Ids /\ content'[j] # Nobody
    BY <1>1, <1>3, OldStays DEF Quiet, Inv, Fits
  <2> QED
    BY <1>1, <1>3, <2>1, <2>2, UploadsStay, AssetsStay, OwnersStay, FinderStays DEF Inv, Fits, Quiet
<1>6. SeenFit'
  <2>1. ASSUME NEW k \in Keys, Seen(k)'
        PROVE  Sound(k)'
    <3>1. CASE k = FinalKey(i)
      <4>1. \A v \in Uploads : upload'[v].step \in {"staging", "staged"} =>
              FinalKey(upload'[v].id) # k
        <5>1. ASSUME NEW v \in Uploads, upload'[v].step \in {"staging", "staged"}
              PROVE  FinalKey(upload'[v].id) # k
          <6>1. v # u /\ upload'[v].id = upload[v].id /\ upload[v].step # "idle"
            BY <1>2, <1>4, <5>1 DEF Onward
          <6>2. upload[v].id # i /\ upload[v].id \in Ids
            BY <1>1, <6>1 DEF Inv, Fits, UploadsFit, Typed
          <6> QED
            BY <1>1, <3>1, <6>1, <6>2, KeyFacts
        <5> QED
          BY <5>1
      <4> QED
        BY <1>1, <3>1, <4>1, KeyFacts DEF Sound, Early
    <3>2. CASE k # FinalKey(i)
      <4>1. Seen(k)
        BY <1>1, <2>1, <3>2 DEF Seen, HasJob
      <4> QED
        BY <1>3, <4>1, SoundStays DEF Inv, Fits, SeenFit
    <3> QED
      BY <3>1, <3>2
  <2> QED
    BY <2>1 DEF SeenFit
<1>7. GoneFit'
  <2>1. ~Seen(FinalKey(i)) /\ FinalKey(i) \in Keys
    BY <1>1, KeyFacts DEF Inv, Fits, SeenFit, Sound, Early
  <2>2. \A w \in Cleaners : cleaner[w].step # "idle" => cleaner[w].key # FinalKey(i)
    BY <2>1 DEF Seen
  <2>3. cleanup[FinalKey(i)].status # "succeeded"
    BY <2>1 DEF Seen, HasJob
  <2> QED
    BY <1>1, <2>2, <2>3 DEF Inv, Fits, GoneFit, HasJob
<1> QED
  BY <1>5, <1>6, <1>7 DEF Fits

(* An upload's file becomes an asset, unless its key is reserved. *)
LEMMA CommitFits ==
  ASSUME Inv, NEW u \in Uploads, CommitIngest(u)
  PROVE  Fits'
<1> DEFINE i == upload[u].id
           c == upload[u].sha
           r == upload[u].request
<1>1. /\ upload[u].step = "stored" /\ i \in Ids /\ c \in Contents /\ r \in Requests
      /\ content[i] # Nobody /\ UNCHANGED <<files, cleanup, cleaner, finder>>
      /\ UploadGoto(u, "settle")
  BY DEF CommitIngest, Inv, Typed, Fits, UploadsFit
<1>2. Quiet
  <2>1. Onward
    BY <1>1, GoesOn DEF Inv
  <2> QED
    BY <1>1, <2>1 DEF Quiet, Gains, files
<1>3. SeenFit' /\ FinderFit' /\ GoneFit'
  <2>1. \A k \in Keys : Seen(k)' => Seen(k)
    BY <1>1 DEF Seen, HasJob, files
  <2>2. \A j \in old' : j \in Ids /\ content'[j] # Nobody
    BY <1>1, <1>2, OldStays DEF Quiet, Inv, Fits, files
  <2>3. FinderFit'
    BY <1>1, <1>2, <2>2, FinderStays DEF Inv, Fits
  <2>4. GoneFit'
    BY <1>1 DEF Inv, Fits, GoneFit, HasJob, files
  <2> QED
    BY <1>2, <2>1, <2>3, <2>4, SeenStays DEF Inv, Fits
<1>4. CASE UNCHANGED asset
  <2>1. AssetsFit'
    <3>1. /\ \/ UNCHANGED meeting
             \/ asset[c] # 0 /\ meeting' = [meeting EXCEPT ![r] = c]
          /\ meeting \in [Requests -> Contents \cup {"erased", Nobody}]
      <4>1. asset \in [Contents -> Ids \cup {0}]
        BY TypeParts DEF Inv, Typed
      <4>2. NewIngest(r, c, i) => FALSE
        BY <1>1, <1>4, <4>1, KeyFacts DEF NewIngest
      <4> QED
        BY <4>2, TypeParts DEF CommitIngest, SharedIngest, Inv, Typed
    <3> QED
      BY <1>1, <1>4, <3>1 DEF Inv, Fits, AssetsFit, files
  <2>2. UploadsFit' /\ KeyHasOneOwner'
    <3>1. \A k \in Keys : HasJob(k)' => HasJob(k)
      BY <1>1 DEF HasJob
    <3> QED
      BY <1>2, <1>4, <3>1, UploadsStay, OwnersStay DEF Inv, Fits
  <2> QED
    BY <1>3, <2>1, <2>2 DEF Fits
<1>5. CASE NewIngest(r, c, i)
  <2>1. /\ asset[c] = 0 /\ ~HasJob(FinalKey(i)) /\ asset'[c] = i /\ meeting' = [meeting EXCEPT ![r] = c]
        /\ \A d \in Contents \ {c} : asset'[d] = asset[d]
    BY <1>1, <1>5, TypeParts DEF NewIngest, Inv, Typed
  <2>2. \A d \in Contents : asset[d] # i
    BY <1>1 DEF Inv, Fits, UploadsFit
  <2>3. /\ \A v \in Uploads \ {u} : upload'[v] = upload[v]
        /\ upload'[u].step = "settle" /\ upload'[u].id = i
    <3>1. upload \in [Uploads -> UploadMemory] /\ upload[u] \in UploadMemory
      BY TypeParts DEF Inv, Typed
    <3> QED
      BY <1>1, <3>1 DEF UploadGoto, UploadMemory
  <2>4. UploadsFit'
    <3>1. \A v \in Uploads : upload'[v].step # "idle" => content'[upload'[v].id] # Nobody
      BY <1>1, <2>3 DEF Inv, Fits, UploadsFit, files
    <3>2. \A v, x \in Uploads :
            upload'[v].step # "idle" /\ upload'[x].step # "idle" /\ upload'[v].id = upload'[x].id => v = x
      BY <1>1, <2>3 DEF Inv, Fits, UploadsFit
    <3>3. ASSUME NEW v \in Uploads, NEW d \in Contents,
                 upload'[v].step \in {"staging", "staged", "linked", "stored"}
          PROVE  asset'[d] # upload'[v].id
      <4>1. v # u /\ upload'[v] = upload[v] /\ upload[v].step # "idle"
        BY <2>3, <3>3
      <4>2. upload[v].id # i /\ asset[d] # upload[v].id
        BY <1>1, <3>3, <4>1 DEF Inv, Fits, UploadsFit, Storing
      <4> QED
        BY <2>1, <4>1, <4>2
    <3> QED
      BY <3>1, <3>2, <3>3 DEF UploadsFit, Storing
  <2>5. AssetsFit'
    <3>1. i # 0
      BY <1>1, KeyFacts
    <3>2. \A d \in Contents : asset'[d] # 0 => content'[asset'[d]] # Nobody
      BY <1>1, <2>1 DEF Inv, Fits, AssetsFit, files
    <3>3. \A d, e \in Contents : asset'[d] # 0 /\ asset'[d] = asset'[e] => d = e
      BY <2>1, <2>2 DEF Inv, Fits, AssetsFit
    <3>4. \A q \in Requests : meeting'[q] \in Contents => asset'[meeting'[q]] # 0
      <4>1. meeting \in [Requests -> Contents \cup {"erased", Nobody}]
        BY TypeParts DEF Inv, Typed
      <4> QED
        BY <1>1, <2>1, <3>1, <4>1 DEF Inv, Fits, AssetsFit
    <3> QED
      BY <3>2, <3>3, <3>4 DEF AssetsFit
  <2>6. KeyHasOneOwner'
    <3>1. \A k \in Keys : Owned(k)' => Owned(k) \/ k = FinalKey(i)
      BY <2>1 DEF Owned
    <3> QED
      BY <1>1, <1>2, <2>1, <3>1, BeingStoredStays DEF Inv, Fits, KeyHasOneOwner, HasJob
  <2> QED
    BY <1>3, <2>4, <2>5, <2>6 DEF Fits
<1> QED
  BY <1>4, <1>5 DEF CommitIngest, SharedIngest

(* A scheduled cleanup reserves a key that is nobody's. *)
LEMMA ScheduleKeeps ==
  ASSUME Inv, NEW k \in Keys, NEW sha, NEW reason, Schedule(k, sha, reason), ~BeingStored(k), Quiet,
         UNCHANGED asset
  PROVE  /\ KeyHasOneOwner' /\ \A j \in Keys : HasJob(j)' => HasJob(j) \/ j = k
         /\ \A j \in Keys : /\ HasJob(j) => HasJob(j)'
                            /\ cleanup'[j].status = "succeeded" => cleanup[j].status = "succeeded"
<1>1. /\ \A j \in Keys : HasJob(j)' => HasJob(j) \/ (j = k /\ ~Owned(k))
      /\ \A j \in Keys : /\ HasJob(j) => HasJob(j)'
                         /\ cleanup'[j].status = "succeeded" => cleanup[j].status = "succeeded"
  <2>1. CASE UNCHANGED cleanup
    BY <2>1 DEF HasJob
  <2>2. CASE cleanup' = [cleanup EXCEPT ![k] = Row("ready", sha, reason)] /\ ~Owned(k) /\ ~HasJob(k)
    <3>1. Row("ready", sha, reason).status = "ready"
      BY DEF Row
    <3> QED
      BY <2>2, <3>1, TypeParts DEF HasJob, Inv, Typed
  <2> QED
    BY <2>1, <2>2 DEF Schedule
<1>2. \A j \in Keys : Owned(j)' => Owned(j)
  BY DEF Owned
<1> QED
  BY <1>1, <1>2, BeingStoredStays DEF Inv, Fits, KeyHasOneOwner

LEMMA SettleFits ==
  ASSUME Inv, NEW u \in Uploads, SettleUpload(u)
  PROVE  Fits'
<1> DEFINE k == FinalKey(upload[u].id)
<1>1. /\ upload[u].step = "settle" /\ upload[u].id \in Ids /\ k \in Keys
      /\ UNCHANGED <<files, asset, meeting, cleaner, finder>> /\ UploadEnds(u)
  BY KeyFacts DEF SettleUpload, Inv, Typed
<1>2. Quiet
  <2>1. Onward
    BY <1>1, GoesOn DEF Inv
  <2> QED
    BY <1>1, <2>1 DEF Quiet, Gains, files
<1>3. CASE UNCHANGED cleanup
  BY <1>1, <1>2, <1>3, JobsUnchanged, CleanersUnchanged, FinderUnchanged, NothingNew DEF files
<1>4. CASE Schedule(k, upload[u].sha, "abandoned")
  <2>1. ~BeingStored(k)
    BY <1>1, KeyFacts, StoringBusy DEF BeingStored, Storing, Inv
  <2>2. Sound(k)
    <3>1. \A v \in Uploads : Early(v) => FinalKey(upload[v].id) # k
      <4>1. \A v \in Uploads : Early(v) => v # u /\ upload[v].id # upload[u].id /\ upload[v].id \in Ids
        BY <1>1, StoringBusy DEF Early, Inv, Fits, UploadsFit
      <4> QED
        BY <1>1, <4>1, KeyFacts
    <3> QED
      BY <1>1, <3>1, KeyFacts DEF Sound, Inv, Fits, UploadsFit
  <2>3. /\ KeyHasOneOwner' /\ \A j \in Keys : HasJob(j)' => HasJob(j) \/ j = k
        /\ \A j \in Keys : /\ HasJob(j) => HasJob(j)'
                           /\ cleanup'[j].status = "succeeded" => cleanup[j].status = "succeeded"
    <3> HIDE DEF k
    <3> QED
      BY <1>1, <1>2, <1>4, <2>1, ScheduleKeeps
  <2>4. SeenFit'
    <3>1. \A j \in Keys : Seen(j)' => Seen(j) \/ Sound(j)
      BY <1>1, <2>2, <2>3 DEF Seen, files
    <3> QED
      BY <1>2, <3>1, SeenStays DEF Inv, Fits
  <2>5. GoneFit'
    BY <1>1, <2>3, GoneStays DEF Inv, Fits, files
  <2>6. FinderFit'
    <3>1. \A j \in old' : j \in Ids /\ content'[j] # Nobody
      BY <1>1, <1>2, OldStays DEF Quiet, Inv, Fits, files
    <3> QED
      BY <1>1, <1>2, <3>1, FinderStays DEF Inv, Fits
  <2>7. UploadsFit' /\ AssetsFit'
    BY <1>1, <1>2, UploadsStay, AssetsStay DEF Inv, Fits, Quiet
  <2> QED
    BY <2>3, <2>4, <2>5, <2>6, <2>7 DEF Fits
<1> QED
  BY <1>3, <1>4 DEF SettleUpload

(* The last owner of a recording gives its key to a cleanup. *)
LEMMA EraseFits ==
  ASSUME Inv, NEW r \in Requests, Erase(r)
  PROVE  Fits'
<1> DEFINE c == meeting[r]
           i == asset[c]
           k == FinalKey(i)
<1>1. /\ c \in Contents /\ UNCHANGED <<files, actors, faults>> /\ i # 0 /\ i \in Ids /\ k \in Keys
      /\ meeting' = [meeting EXCEPT ![r] = "erased"]
  <2>1. c \in Contents /\ i # 0
    BY DEF Erase, Inv, Fits, AssetsFit
  <2>2. i \in Ids
    BY <2>1, TypeParts DEF Inv, Typed
  <2> QED
    BY <2>1, <2>2, KeyFacts DEF Erase
<1>2. Quiet
  BY <1>1, UploadsUnchanged DEF files, actors
<1>3. FinderFit'
  <2>1. \A j \in old' : j \in Ids /\ content'[j] # Nobody
    BY <1>1, <1>2, OldStays DEF Quiet, Inv, Fits, files
  <2> QED
    BY <1>1, <1>2, <2>1, FinderStays DEF Inv, Fits, actors
<1>4. meeting \in [Requests -> Contents \cup {"erased", Nobody}]
  BY TypeParts DEF Inv, Typed
<1>5. CASE UNCHANGED <<asset, cleanup>>
  <2>1. AssetsFit'
    BY <1>1, <1>4, <1>5, PlaceAssumption DEF Inv, Fits, AssetsFit, files
  <2>2. UploadsFit' /\ KeyHasOneOwner'
    <3>1. \A j \in Keys : HasJob(j)' => HasJob(j)
      BY <1>5 DEF HasJob
    <3> QED
      BY <1>2, <1>5, <3>1, UploadsStay, OwnersStay DEF Inv, Fits
  <2>3. SeenFit' /\ GoneFit'
    <3>1. \A j \in Keys : Seen(j)' => Seen(j)
      BY <1>1, <1>5 DEF Seen, HasJob, files, actors
    <3>2. GoneFit'
      BY <1>1, <1>5 DEF Inv, Fits, GoneFit, HasJob, files, actors
    <3> QED
      BY <1>2, <3>1, <3>2, SeenStays DEF Inv, Fits
  <2> QED
    BY <1>3, <2>1, <2>2, <2>3 DEF Fits
<1>6. CASE /\ \A s \in Requests \ {r} : meeting[s] # c
           /\ asset' = [asset EXCEPT ![c] = 0]
           /\ cleanup' = [cleanup EXCEPT ![k] = Row("ready", c, "erasure")]
  <2>1. /\ asset'[c] = 0 /\ \A d \in Contents \ {c} : asset'[d] = asset[d]
        /\ cleanup'[k].status = "ready" /\ \A j \in Keys \ {k} : cleanup'[j] = cleanup[j]
    <3>1. Row("ready", c, "erasure").status = "ready"
      BY DEF Row
    <3> QED
      BY <1>1, <1>6, <3>1, TypeParts DEF Inv, Typed
  <2>2. UploadsFit'
    BY <1>2, <2>1, UploadsStay DEF Inv, Fits
  <2>3. AssetsFit'
    BY <1>1, <1>4, <1>6, <2>1, PlaceAssumption DEF Inv, Fits, AssetsFit, files
  <2>4. Sound(k)
    <3>1. \A v \in Uploads : Early(v) => upload[v].id # i /\ upload[v].id \in Ids
      BY <1>1, StoringBusy DEF Inv, Fits, UploadsFit, Early, Storing
    <3> QED
      BY <1>1, <3>1, KeyFacts DEF Sound, Inv, Fits, AssetsFit
  <2>5. SeenFit'
    <3>1. \A j \in Keys : Seen(j)' => Seen(j) \/ Sound(j)
      BY <1>1, <2>1, <2>4 DEF Seen, HasJob, files, actors
    <3> QED
      BY <1>2, <3>1, SeenStays DEF Inv, Fits
  <2>6. KeyHasOneOwner'
    <3>1. \A j \in Keys : Owned(j)' => Owned(j) /\ j # k
      <4>1. ASSUME NEW j \in Keys, NEW d \in Contents, asset'[d] # 0, FinalKey(asset'[d]) = j
            PROVE  Owned(j) /\ j # k
        <5>1. d # c /\ asset'[d] = asset[d] /\ asset[d] \in Ids
          BY <2>1, <4>1, TypeParts DEF Inv, Typed
        <5>2. asset[d] # i
          BY <1>1, <4>1, <5>1 DEF Inv, Fits, AssetsFit
        <5> QED
          BY <1>1, <4>1, <5>1, <5>2, KeyFacts DEF Owned
      <4> QED
        BY <4>1 DEF Owned
    <3>2. \A j \in Keys : BeingStored(j)' => BeingStored(j) /\ j # k
      <4>1. \A j \in Keys : BeingStored(j) => j # k
        BY <1>1, KeyFacts, StoringBusy DEF BeingStored, Storing, Inv
      <4> QED
        BY <1>2, <4>1, BeingStoredStays
    <3> QED
      BY <2>1, <3>1, <3>2 DEF Inv, Fits, KeyHasOneOwner, HasJob
  <2>7. GoneFit'
    BY <1>1, <2>1, GoneStays DEF Inv, Fits, HasJob, files, actors
  <2> QED
    BY <1>3, <2>2, <2>3, <2>5, <2>6, <2>7 DEF Fits
<1> QED
  BY <1>5, <1>6 DEF Erase

\* Jobs may go when their file has gone, and succeed when both of its names have.
JobsEnd ==
  \A k \in Keys :
    /\ HasJob(k)' => HasJob(k)
    /\ HasJob(k) /\ ~HasJob(k)' => k \notin root
    /\ cleanup'[k].status = "succeeded" =>
         cleanup[k].status = "succeeded" \/ k \notin root \cup quarantine

LEMMA JobsEndFits ==
  ASSUME Inv, OnlyCleanup, JobsEnd, CleanersKeep
  PROVE  Fits'
<1>1. Quiet
  BY UploadsUnchanged DEF OnlyCleanup, files
<1>2. UploadsFit' /\ AssetsFit'
  BY <1>1, UploadsStay, AssetsStay DEF Inv, Fits, OnlyCleanup, Quiet
<1>3. SeenFit'
  <2>1. \A k \in Keys : Seen(k)' => Seen(k)
    BY DEF Seen, JobsEnd, CleanersKeep, OnlyCleanup, files
  <2> QED
    BY <1>1, <2>1, SeenStays DEF Inv, Fits
<1>4. FinderFit' /\ KeyHasOneOwner'
  <2>1. \A j \in old' : j \in Ids /\ content'[j] # Nobody
    BY <1>1, OldStays DEF Quiet, Inv, Fits, OnlyCleanup, files
  <2> QED
    BY <1>1, <2>1, FinderStays, OwnersStay DEF Inv, Fits, OnlyCleanup, JobsEnd
<1>5. GoneFit'
  <2>1. UNCHANGED <<root, quarantine>>
    BY DEF OnlyCleanup, files
  <2>2. \A k \in Keys : cleanup'[k].status = "succeeded" => k \notin root' \cup quarantine'
    BY <2>1 DEF JobsEnd, Inv, Fits, GoneFit
  <2>3. ASSUME NEW w \in Cleaners, cleaner'[w].step # "idle"
        PROVE  LET k == cleaner'[w].key IN
               /\ cleaner'[w].step = "done" => k \notin root' \cup quarantine'
               /\ cleaner'[w].step = "drop" => k \notin root'
               /\ cleanup'[k].status # "absent" \/ k \notin root'
    <3> DEFINE k == cleaner[w].key
    <3>1. /\ cleaner[w].step # "idle" /\ cleaner'[w].key = k /\ k \in Keys
          /\ cleaner'[w].step \in {"done", "drop"} => cleaner'[w].step = cleaner[w].step
      BY <2>3 DEF CleanersKeep, Inv, Typed
    <3>2. /\ cleaner[w].step = "done" => k \notin root \cup quarantine
          /\ cleaner[w].step = "drop" => k \notin root
          /\ HasJob(k) \/ k \notin root
      BY <3>1 DEF Inv, Fits, GoneFit
    <3>3. cleanup'[k].status # "absent" \/ k \notin root
      BY <3>1, <3>2 DEF JobsEnd, HasJob
    <3> QED
      BY <2>1, <3>1, <3>2, <3>3
  <2> QED
    BY <2>2, <2>3 DEF GoneFit, HasJob
<1> QED
  BY <1>2, <1>3, <1>4, <1>5 DEF Fits

LEMMA ConcludeFits ==
  ASSUME Inv, NEW k \in Keys, ConcludeErasure(k)
  PROVE  OnlyCleanup /\ JobsEnd /\ CleanersKeep
<1>1. k \notin root \cup quarantine /\ cleanup' = [cleanup EXCEPT ![k] = NoRow]
  BY DEF ConcludeErasure, Inv, Fits, GoneFit
<1>2. /\ cleanup'[k].status = "absent" /\ \A j \in Keys \ {k} : cleanup'[j] = cleanup[j]
  BY <1>1, AbsentRow, TypeParts DEF Inv, Typed
<1>3. JobsEnd
  BY <1>1, <1>2 DEF JobsEnd, HasJob
<1>4. CleanersKeep
  <2>1. \A w \in Cleaners : cleaner[w] \in CleanerMemory
    BY TypeParts DEF Inv, Typed
  <2>2. \A w \in Cleaners : cleaner'[w].step = cleaner[w].step /\ cleaner'[w].key = cleaner[w].key
    BY <2>1 DEF ConcludeErasure, Forget, CleanerMemory
  <2> QED
    BY <2>2 DEF CleanersKeep
<1> QED
  BY <1>3, <1>4 DEF ConcludeErasure, OnlyCleanup

LEMMA RowStepFits ==
  ASSUME Inv, NEW k \in Keys, RetryErasure(k) \/ LapseLease(k) \/ BecomeDue(k)
  PROVE  OnlyCleanup /\ JobsEnd /\ CleanersKeep
<1>1. cleanup \in [Keys -> CleanupRow] /\ cleanup[k] \in CleanupRow
  BY TypeParts DEF Inv, Typed
<1>2. /\ HasJob(k) /\ cleanup'[k].status \notin {"absent", "succeeded"}
      /\ \A j \in Keys \ {k} : cleanup'[j] = cleanup[j]
  <2>1. CASE RetryErasure(k)
    <3>1. cleanup'[k].status = "ready"
      BY <1>1, <2>1 DEF RetryErasure, Row
    <3> QED
      BY <1>1, <2>1, <3>1 DEF RetryErasure, HasJob
  <2>2. CASE LapseLease(k)
    <3>1. cleanup'[k].status = "running"
      BY <1>1, <2>2 DEF LapseLease, CleanupRow
    <3> QED
      BY <1>1, <2>2, <3>1 DEF LapseLease, HasJob
  <2>3. CASE BecomeDue(k)
    <3>1. cleanup'[k].status = "retry_wait"
      BY <1>1, <2>3 DEF BecomeDue, CleanupRow
    <3> QED
      BY <1>1, <2>3, <3>1 DEF BecomeDue, HasJob
  <2> QED
    BY <2>1, <2>2, <2>3
<1>3. OnlyCleanup /\ UNCHANGED cleaner
  BY DEF RetryErasure, LapseLease, BecomeDue, OnlyCleanup, actors
<1>4. JobsEnd
  BY <1>2 DEF JobsEnd, HasJob
<1> QED
  BY <1>3, <1>4, CleanersUnchanged

(* Only who found both names gone makes a job succeed or go. *)
LEMMA FinishFits ==
  ASSUME Inv, NEW w \in Cleaners, Finish(w)
  PROVE  OnlyCleanup /\ JobsEnd /\ CleanersKeep
<1> DEFINE k == cleaner[w].key
<1>1. k \in Keys /\ cleanup[k] \in CleanupRow /\ WellFormed(cleanup[k])
      /\ cleanup \in [Keys -> CleanupRow]
  BY FinishMoves, TypeParts DEF Inv, Typed
<1>2. FinishSuccess(w) => k \notin root \cup quarantine /\ HasJob(k)
  BY DEF FinishSuccess, OwnsLiveLease, HasJob, Inv, Fits, GoneFit
<1>3. OnlyCleanup
  BY FinishRows DEF Inv
<1>4. JobsEnd
  <2>1. CASE UNCHANGED cleanup
    BY <2>1 DEF JobsEnd, HasJob
  <2>2. CASE FinishSuccess(w) /\ cleanup' = [cleanup EXCEPT ![k] = NoRow]
    <3>1. cleanup'[k].status = "absent" /\ \A j \in Keys \ {k} : cleanup'[j] = cleanup[j]
      BY <1>1, <2>2, AbsentRow
    <3> QED
      BY <1>2, <2>2, <3>1 DEF JobsEnd, HasJob
  <2>3. CASE FinishSuccess(w) /\ cleanup' = [cleanup EXCEPT ![k] = Released(cleanup[k], "succeeded")]
    <3>1. cleanup'[k].status = "succeeded" /\ \A j \in Keys \ {k} : cleanup'[j] = cleanup[j]
      BY <1>1, <2>3, ReleasedRows
    <3> QED
      BY <1>2, <2>3, <3>1 DEF JobsEnd, HasJob
  <2>4. ASSUME HasJob(k), NEW status \in {"retry_wait", "failed"},
               cleanup' = [cleanup EXCEPT ![k] = Released(cleanup[k], status)]
        PROVE  JobsEnd
    <3>1. cleanup'[k].status = status /\ \A j \in Keys \ {k} : cleanup'[j] = cleanup[j]
      BY <1>1, <2>4, ReleasedRows
    <3> QED
      BY <2>4, <3>1 DEF JobsEnd, HasJob
  <2> QED
    BY <2>1, <2>2, <2>3, <2>4, FinishRows DEF Inv
<1>5. CleanersKeep
  <2>1. /\ cleaner'[w].step = "idle"
        /\ \A v \in Cleaners \ {w} :
             cleaner'[v].step = cleaner[v].step /\ cleaner'[v].key = cleaner[v].key
    BY FinishMoves, IdleFits DEF Inv
  <2> QED
    BY <2>1 DEF CleanersKeep
<1> QED
  BY <1>3, <1>4, <1>5

LEMMA ClaimFits ==
  ASSUME Inv, NEW w \in Cleaners, NEW k \in Keys, ClaimCleanup(w, k)
  PROVE  Fits'
<1>1. cleanup \in [Keys -> CleanupRow] /\ cleanup[k] \in CleanupRow
  BY TypeParts DEF Inv, Typed
<1>2. /\ UNCHANGED <<files, asset, meeting, upload, finder>> /\ HasJob(k)
      /\ cleaner'[w].step = "check" /\ cleaner'[w].key = k
      /\ \A v \in Cleaners \ {w} : cleaner'[v] = cleaner[v]
  BY TypeParts DEF ClaimCleanup, Claimable, Waiting, HasJob, Inv, Typed
<1>3. cleanup'[k].status = "running" /\ \A j \in Keys \ {k} : cleanup'[j] = cleanup[j]
  BY <1>1 DEF ClaimCleanup, CleanupRow
<1>4. Quiet
  BY <1>2, UploadsUnchanged DEF files
<1>5. \A j \in Keys : /\ HasJob(j)' <=> HasJob(j)
                      /\ cleanup'[j].status = "succeeded" => cleanup[j].status = "succeeded"
  BY <1>2, <1>3 DEF HasJob
<1>6. UploadsFit' /\ AssetsFit' /\ KeyHasOneOwner'
  BY <1>2, <1>4, <1>5, UploadsStay, AssetsStay, OwnersStay DEF Inv, Fits, Quiet
<1>7. FinderFit'
  <2>1. \A j \in old' : j \in Ids /\ content'[j] # Nobody
    BY <1>2, <1>4, OldStays DEF Quiet, Inv, Fits, files
  <2> QED
    BY <1>2, <1>4, <2>1, FinderStays DEF Inv, Fits
<1>8. SeenFit'
  <2>1. \A j \in Keys : Seen(j)' => Seen(j)
    BY <1>2, <1>5 DEF Seen, files
  <2> QED
    BY <1>4, <2>1, SeenStays DEF Inv, Fits
<1>9. GoneFit'
  <2>1. \A j \in Keys : cleanup'[j].status = "succeeded" => j \notin root' \cup quarantine'
    BY <1>2, <1>5 DEF Inv, Fits, GoneFit, files
  <2>2. cleanup'[cleaner'[w].key].status # "absent"
    BY <1>2, <1>3
  <2>3. \A v \in Cleaners \ {w} : cleaner[v].step # "idle" => cleaner[v].key \in Keys
    BY DEF Inv, Typed
  <2> QED
    BY <1>2, <1>5, <2>1, <2>2, <2>3 DEF Inv, Fits, GoneFit, HasJob, files
<1> QED
  BY <1>6, <1>7, <1>8, <1>9 DEF Fits

(* Removals make no new name outside .quarantine, and a worker calls a recording *)
(* gone when it is.                                                              *)
LEMMA WorkFits ==
  ASSUME Inv, NEW w \in Cleaners, WorkInDirectory(w)
  PROVE  Fits'
<1> DEFINE k == cleaner[w].key
<1>1. /\ k \in Keys /\ cleaner[w].step # "idle" /\ cleaner'[w].step # "idle" /\ cleaner'[w].key = k
      /\ \A v \in Cleaners \ {w} : cleaner'[v] = cleaner[v]
  BY WorkMoves DEF Inv
<1>2. /\ UNCHANGED <<content, old, rows, upload, finder>> /\ root' \subseteq root
      /\ quarantine' \subseteq quarantine \/ (k \in root /\ quarantine' = quarantine \cup {k})
  BY DEF WorkInDirectory, VerifyRecording, Reconsider, LinkQuarantine, UnlinkSource,
         UnlinkQuarantined, FailExecution, files
<1>3. Quiet
  BY <1>2, UploadsUnchanged
<1>4. UploadsFit' /\ AssetsFit' /\ KeyHasOneOwner'
  <2>1. \A j \in Keys : HasJob(j)' => HasJob(j)
    BY <1>2 DEF HasJob, rows
  <2> QED
    BY <1>2, <1>3, <2>1, UploadsStay, AssetsStay, OwnersStay DEF Inv, Fits, Quiet, rows
<1>5. FinderFit'
  <2>1. \A j \in old' : j \in Ids /\ content'[j] # Nobody
    BY <1>2, <1>3, OldStays DEF Quiet, Inv, Fits
  <2> QED
    BY <1>2, <1>3, <2>1, FinderStays DEF Inv, Fits
<1>6. SeenFit'
  <2>1. \A j \in Keys : Seen(j)' => Seen(j)
    BY <1>1, <1>2 DEF Seen, HasJob, rows
  <2> QED
    BY <1>3, <2>1, SeenStays DEF Inv, Fits
<1>7. /\ cleaner'[w].step = "done" => k \notin root' \cup quarantine'
      /\ cleaner'[w].step = "drop" => k \notin root'
  <2>1. cleaner \in [Cleaners -> CleanerMemory] /\ cleaner[w] \in CleanerMemory
    BY TypeParts DEF Inv, Typed
  <2>2. CASE VerifyRecording(w)
    <3>1. cleaner'[w].step = Verdict(k, cleaner[w].sha) /\ UNCHANGED <<root, quarantine>>
      BY <2>1, <2>2 DEF VerifyRecording, CleanerHolds, CleanerMemory, files
    <3> QED
      BY <3>1 DEF Verdict
  <2>3. CASE UnlinkSource(w)
    BY <2>1, <2>3 DEF UnlinkSource, CleanerMemory
  <2>4. CASE UnlinkQuarantined(w)
    <3>1. k \notin root
      BY <2>4 DEF UnlinkQuarantined, Inv, Fits, GoneFit
    <3> QED
      BY <2>1, <2>4, <3>1 DEF UnlinkQuarantined, CleanerGoto, CleanerMemory
  <2>5. CASE Reconsider(w) \/ LinkQuarantine(w) \/ FailExecution(w)
    BY <2>1, <2>5 DEF Reconsider, LinkQuarantine, FailExecution, CleanerGoto, CleanerMemory
  <2> QED
    BY <2>2, <2>3, <2>4, <2>5 DEF WorkInDirectory
<1>8. GoneFit'
  <2>1. \A j \in Keys : j \notin root => j \notin root'
    BY <1>2
  <2>2. \A j \in Keys : j \notin root \cup quarantine => j \notin root' \cup quarantine'
    BY <1>2
  <2>3. \A j \in Keys : HasJob(j) => cleanup'[j].status # "absent"
    BY <1>2 DEF HasJob, rows
  <2>4. HasJob(k) \/ k \notin root
    BY <1>1 DEF Inv, Fits, GoneFit
  <2>5. ASSUME NEW v \in Cleaners, v # w, cleaner[v].step # "idle"
        PROVE  LET j == cleaner[v].key IN
               /\ cleaner[v].step = "done" => j \notin root' \cup quarantine'
               /\ cleaner[v].step = "drop" => j \notin root'
               /\ cleanup'[j].status # "absent" \/ j \notin root'
    <3>1. cleaner[v].key \in Keys
      BY <2>5 DEF Inv, Typed
    <3> QED
      BY <2>1, <2>2, <2>3, <2>5, <3>1 DEF Inv, Fits, GoneFit
  <2>6. \A j \in Keys : cleanup'[j].status = "succeeded" => j \notin root' \cup quarantine'
    BY <1>2, <2>2 DEF Inv, Fits, GoneFit, rows
  <2> QED
    BY <1>1, <1>7, <2>1, <2>3, <2>4, <2>5, <2>6 DEF GoneFit, HasJob
<1> QED
  BY <1>4, <1>5, <1>6, <1>8 DEF Fits

LEMMA AgeFits ==
  ASSUME Inv, NEW i \in Ids, Age(i)
  PROVE  Fits'
<1>1. UNCHANGED <<root, quarantine, content, rows, actors>> /\ old' = old \cup {i}
  BY DEF Age
<1>2. content[i] # Nobody
  <2>1. PICK k \in Keys : k \in root /\ IdOf(k) = i
    BY KeyFacts DEF Age
  <2> QED
    BY <2>1 DEF Seen, Sound, Inv, Fits, SeenFit
<1>3. Quiet
  BY <1>1, UploadsUnchanged DEF actors
<1>4. FinderFit'
  <2>1. \A j \in old' : j \in Ids /\ content'[j] # Nobody
    BY <1>1, <1>2, TypeParts DEF Inv, Typed, Fits, FinderFit
  <2> QED
    BY <1>1, <1>3, <2>1, FinderStays DEF Inv, Fits, actors
<1>5. UploadsFit' /\ AssetsFit' /\ KeyHasOneOwner'
  <2>1. \A j \in Keys : HasJob(j)' => HasJob(j)
    BY <1>1 DEF HasJob, rows
  <2> QED
    BY <1>1, <1>3, <2>1, UploadsStay, AssetsStay, OwnersStay DEF Inv, Fits, Quiet, rows
<1>6. SeenFit' /\ GoneFit'
  <2>1. \A k \in Keys : Seen(k)' => Seen(k)
    BY <1>1 DEF Seen, HasJob, rows, actors
  <2>2. GoneFit'
    BY <1>1 DEF Inv, Fits, GoneFit, HasJob, rows, actors
  <2> QED
    BY <1>3, <2>1, <2>2, SeenStays DEF Inv, Fits
<1> QED
  BY <1>4, <1>5, <1>6 DEF Fits

(* A page holds no name of a file that is being stored: whoever stores a file of *)
(* the stale ones was storing it when discovery began.                           *)
LEMMA ScanFits ==
  ASSUME Inv, NEW k \in Candidates
  PROVE  k \in root /\ k \in Keys /\ ~BeingStored(k)
<1>1. k \in root /\ k \in Keys
  BY TypeParts DEF Candidates, Inv, Typed
<1>2. ASSUME NEW u \in Uploads, Home[u] = FinderHome, Storing(u), k = PartKey(upload[u].id)
      PROVE  FALSE
  <2>1. upload[u].id \in Ids /\ IdOf(k) = upload[u].id
    BY <1>2, StoringBusy, KeyFacts DEF Inv
  <2>2. upload[u].id \in finder.stale
    BY <2>1 DEF Candidates
  <2>3. upload[u].id \in finder.active
    BY <1>2, <2>2 DEF Inv, Fits, FinderFit
  <2> QED
    BY <1>2, <2>1, <2>3 DEF Candidates
<1> QED
  BY <1>1, <1>2 DEF BeingStored, Storing

LEMMA FinderFits ==
  ASSUME Inv, FinderStep \/ FailScan
  PROVE  Fits'
<1>1. UNCHANGED <<files, asset, meeting, upload, cleaner>>
  BY DEF FinderStep, FailScan, StartScan, Scan, EndScan, SkipOwned, Identify, ScheduleOrphan, rows
<1>2. Quiet
  BY <1>1, UploadsUnchanged DEF files
<1>3. UploadsFit' /\ AssetsFit'
  BY <1>1, <1>2, UploadsStay, AssetsStay DEF Inv, Fits, Quiet
<1>4. finder \in FinderMemory /\ finder' \in FinderMemory
  BY FinderMoves, TypeParts DEF Inv, Typed
<1>5. FinderFit'
  <2>1. \A j \in old' : j \in Ids /\ content'[j] # Nobody
    BY <1>1, <1>2, OldStays DEF Quiet, Inv, Fits, files
  <2>2. CASE FinderKeeps
    BY <1>2, <2>1, <2>2, FinderStays DEF Inv, Fits, FinderKeeps
  <2>3. CASE /\ StartScan /\ finder'.page = finder.page /\ finder'.stale = old
             /\ finder'.active = ActiveIds(FinderHome)
    BY <1>1, <2>1, <2>3 DEF Inv, Fits, FinderFit, BeingStored, Storing, ActiveIds, files
  <2>4. CASE Scan /\ finder'.page \subseteq Candidates /\ finder'.stale = {}
    <3>1. \A k \in finder'.page : ~BeingStored(k)
      BY <2>4, ScanFits
    <3> QED
      BY <1>1, <2>1, <2>4, <3>1 DEF FinderFit, BeingStored
  <2> QED
    BY <2>2, <2>3, <2>4, FinderMoves DEF Inv, FinderKeeps
<1>6. /\ KeyHasOneOwner' /\ \A k \in Keys : HasJob(k)' => HasJob(k) \/ k \in finder.page
      /\ \A k \in Keys : /\ HasJob(k) => HasJob(k)'
                         /\ cleanup'[k].status = "succeeded" => cleanup[k].status = "succeeded"
  <2>1. CASE UNCHANGED cleanup
    <3>1. \A k \in Keys : HasJob(k)' <=> HasJob(k)
      BY <2>1 DEF HasJob
    <3>2. KeyHasOneOwner'
      BY <1>1, <1>2, <3>1, OwnersStay DEF Inv, Fits
    <3> QED
      BY <2>1, <3>1, <3>2
  <2>2. ASSUME NEW k \in Keys, ScheduleOrphan(k)
        PROVE  /\ KeyHasOneOwner' /\ \A j \in Keys : HasJob(j)' => HasJob(j) \/ j = k
               /\ \A j \in Keys : /\ HasJob(j) => HasJob(j)'
                                  /\ cleanup'[j].status = "succeeded" => cleanup[j].status = "succeeded"
               /\ k \in finder.page
    <3>1. k \in finder.page /\ Schedule(k, finder.sha, "orphan")
      BY <2>2 DEF ScheduleOrphan, InHand
    <3>2. ~BeingStored(k)
      BY <3>1 DEF Inv, Fits, FinderFit
    <3> QED
      BY <1>1, <1>2, <3>1, <3>2, ScheduleKeeps
  <2>3. CASE \E k \in Keys : ScheduleOrphan(k)
    BY <2>2, <2>3
  <2> QED
    BY <2>1, <2>3 DEF FinderStep, FailScan, StartScan, Scan, EndScan, SkipOwned, Identify, rows
<1>7. SeenFit'
  <2>1. finder'.page \subseteq finder.page \cup root
    BY FinderMoves, ScanFits DEF Inv
  <2>2. \A k \in Keys : Seen(k)' => Seen(k)
    BY <1>1, <1>6, <2>1 DEF Seen, files
  <2> QED
    BY <1>2, <2>2, SeenStays DEF Inv, Fits
<1>8. GoneFit'
  BY <1>1, <1>6, GoneStays DEF Inv, Fits, files
<1> QED
  BY <1>3, <1>5, <1>6, <1>7, <1>8 DEF Fits

(* Who dies forgets. *)
LEMMA CrashFits ==
  ASSUME Inv, NEW p \in Processes, Crash(p)
  PROVE  Fits'
<1>1. UNCHANGED <<files, rows>>
  BY DEF Crash
<1>2. Quiet
  <2>1. \A u \in Uploads : upload'[u] = upload[u] \/ upload'[u].step = "idle"
    BY IdleFits DEF Crash
  <2> QED
    BY <1>1, <2>1 DEF Quiet, Onward, Gains, Early, Storing, files
<1>3. CleanersKeep
  <2>1. \A w \in Cleaners : cleaner'[w] = cleaner[w] \/ cleaner'[w].step = "idle"
    BY IdleFits DEF Crash
  <2> QED
    BY <2>1 DEF CleanersKeep
<1>4. FinderKeeps
  <2>1. FreshFinder.page = {} /\ FreshFinder.stale = {}
    BY DEF FreshFinder
  <2> QED
    BY <2>1 DEF Crash, FinderKeeps
<1> QED
  BY <1>1, <1>2, <1>3, <1>4, JobsUnchanged, NothingNew DEF files, rows

LEMMA StutterFits ==
  ASSUME Inv, UNCHANGED vars
  PROVE  Fits'
BY UploadsUnchanged, JobsUnchanged, CleanersUnchanged, FinderUnchanged, NothingNew
   DEF vars, files, rows, actors

LEMMA InitInv == Init => Inv
<1> SUFFICES ASSUME Init PROVE Inv
  OBVIOUS
<1>1. Typed
  BY InitTyped
<1>2. \A k \in Keys : ~HasJob(k) /\ cleanup[k].status = "absent"
  BY AbsentRow DEF Init, HasJob
<1>3. (\A u \in Uploads : upload[u].step = "idle") /\ (\A w \in Cleaners : cleaner[w].step = "idle")
  BY IdleFits DEF Init
<1>4. finder.page = {} /\ finder.stale = {} /\ old = {} /\ root = {} /\ quarantine = {}
  BY DEF Init, FreshFinder
<1>5. (\A c \in Contents : asset[c] = 0) /\ (\A r \in Requests : meeting[r] = Nobody)
  BY DEF Init
<1>6. UploadsFit /\ AssetsFit
  BY <1>3, <1>5, PlaceAssumption DEF UploadsFit, AssetsFit, Storing
<1>7. SeenFit /\ FinderFit
  BY <1>2, <1>3, <1>4 DEF SeenFit, Seen, FinderFit, Storing
<1>8. KeyHasOneOwner /\ GoneFit
  BY <1>2, <1>3 DEF KeyHasOneOwner, GoneFit
<1> QED
  BY <1>1, <1>6, <1>7, <1>8 DEF Inv, Fits

LEMMA StepInv == Inv /\ [Next]_vars => Inv'
<1> SUFFICES ASSUME Inv, [Next]_vars PROVE Inv'
  OBVIOUS
<1>1. Typed'
  BY StepTyped DEF Inv
<1>2. Fits'
  BY Steps, StartUploadFits, UploadStepFits, PublishFits, CommitFits, SettleFits, EraseFits,
     ConcludeFits, RowStepFits, FinishFits, JobsEndFits, ClaimFits, WorkFits, AgeFits, FinderFits,
     CrashFits, StutterFits DEF UploadDoes
<1> QED
  BY <1>1, <1>2 DEF Inv

(* Ingest, discovery, abandonment and erasure agree on who owns a recording:     *)
(* no key that has a cleanup job is an asset's or that of an upload under way,    *)
(* also when the file outlives its grace period and leases lapse                  *)
(* (recording_cleanup.py schedule_if_unreferenced, the audio_assets trigger).     *)
THEOREM OneOwner == Spec => []KeyHasOneOwner
<1>1. Inv => KeyHasOneOwner
  BY DEF Inv, Fits
<1> QED
  BY <1>1, InitInv, StepInv, PTL DEF Spec

\* The two action properties, as actions.
Keeps == \A k \in Keys : Owned(k) /\ k \in root => k \in root'
SucceedsGone ==
  \A k \in Keys :
    HasJob(k) /\ cleanup[k].status # "succeeded" /\ (~HasJob(k)' \/ cleanup'[k].status = "succeeded")
      => k \notin root' \cup quarantine'

(* A worker that could remove an asset's recording has a job for it, and then it *)
(* is nobody's, or it is gone already.                                           *)
LEMMA AssetsKept == Inv /\ [Next]_vars => Keeps
<1> SUFFICES ASSUME Inv, [Next]_vars, NEW k \in Keys, Owned(k), k \in root
             PROVE  k \in root'
  BY DEF Keeps
<1>1. \A i \in Ids : k # PartKey(i)
  BY OwnedKeys, KeyFacts DEF Inv
<1>2. ASSUME NEW u \in Uploads, UploadDoes(u)
      PROVE  k \in root'
  <2>1. upload[u].id \in Ids
    BY <1>2 DEF UploadDoes, StageUpload, RejectUpload, PublishUpload, FinishUpload, Inv, Typed
  <2> QED
    BY <1>1, <1>2, <2>1 DEF UploadDoes, StageUpload, RejectUpload, PublishUpload, FinishUpload
<1>3. ASSUME NEW w \in Cleaners, WorkInDirectory(w)
      PROVE  k \in root'
  <2>1. CASE UnlinkSource(w)
    <3>1. HasJob(cleaner[w].key) /\ cleaner[w].key \in Keys
      BY <2>1 DEF UnlinkSource, Inv, Typed, Fits, GoneFit
    <3>2. k # cleaner[w].key
      BY <3>1 DEF Inv, Fits, KeyHasOneOwner
    <3> QED
      BY <2>1, <3>2 DEF UnlinkSource
  <2>2. CASE UNCHANGED root
    BY <2>2
  <2> QED
    BY <1>3, <2>1, <2>2 DEF WorkInDirectory, VerifyRecording, Reconsider, LinkQuarantine,
       UnlinkQuarantined, FailExecution, files
<1>4. (\E w \in Cleaners : Finish(w)) => UNCHANGED files
  BY FinishRows DEF OnlyCleanup, Inv
<1> QED
  BY <1>2, <1>3, <1>4, Steps
     DEF StartUpload, CommitIngest, SettleUpload, Erase, ConcludeErasure, RetryErasure, LapseLease,
         BecomeDue, ClaimCleanup, Age, FinderStep, FailScan, StartScan, Scan, EndScan, SkipOwned,
         Identify, ScheduleOrphan, Crash, vars, files

(* The recording of an asset stays in the directory: a worker that could remove  *)
(* it has a job for it, and then it is nobody's, or it is gone already            *)
(* (recording_quarantine.py execute, recording_cleanup.py _finish).               *)
THEOREM OwnedStays == Spec => OwnedIsKept
<1>1. Inv /\ [Next]_vars => Keeps
  BY AssetsKept
<1>2. Keeps => [\A k \in Keys : Owned(k) /\ k \in root => k \in root']_vars
  BY DEF Keeps
<1> QED
  BY <1>1, <1>2, InitInv, StepInv, PTL DEF Spec, OwnedIsKept

(* A job that has not succeeded goes only when its worker says that it is done. *)
LEMMA JobsKept ==
  ASSUME Inv, [Next]_vars, ~\E w \in Cleaners : Finish(w),
         NEW k \in Keys, HasJob(k), cleanup[k].status # "succeeded"
  PROVE  HasJob(k)'
<1>1. cleanup \in [Keys -> CleanupRow]
  BY TypeParts DEF Inv, Typed
<1>2. ASSUME NEW j, NEW row, row.status # "absent", cleanup' = [cleanup EXCEPT ![j] = row]
      PROVE  HasJob(k)'
  BY <1>1, <1>2 DEF HasJob
<1>3. ASSUME NEW sha, NEW reason PROVE Row("ready", sha, reason).status # "absent"
  BY DEF Row
<1>4. CASE UNCHANGED cleanup
  BY <1>4 DEF HasJob
<1>5. ASSUME NEW j, NEW sha, NEW reason, Schedule(j, sha, reason)
      PROVE  HasJob(k)'
  <2>1. CASE cleanup' = [cleanup EXCEPT ![j] = Row("ready", sha, reason)]
    <3> DEFINE row == Row("ready", sha, reason)
    <3>1. row.status # "absent" /\ cleanup' = [cleanup EXCEPT ![j] = row]
      BY <1>3, <2>1
    <3> HIDE DEF row
    <3> QED
      BY <1>2, <3>1
  <2> QED
    BY <1>4, <1>5, <2>1 DEF Schedule
<1>6. ASSUME NEW r \in Requests, Erase(r)
      PROVE  HasJob(k)'
  <2> DEFINE c == meeting[r]
             row == Row("ready", c, "erasure")
  <2>1. CASE cleanup' = [cleanup EXCEPT ![FinalKey(asset[c])] = row]
    <3>1. row.status # "absent"
      BY <1>3
    <3> HIDE DEF row
    <3> QED
      BY <1>2, <2>1, <3>1
  <2> QED
    BY <1>4, <1>6, <2>1 DEF Erase
<1>7. ASSUME NEW j \in Keys, ConcludeErasure(j)
      PROVE  HasJob(k)'
  <2>1. j # k /\ cleanup' = [cleanup EXCEPT ![j] = NoRow]
    BY <1>7 DEF ConcludeErasure
  <2> QED
    BY <1>1, <2>1 DEF HasJob
<1>8. ASSUME NEW j \in Keys, RetryErasure(j) \/ LapseLease(j) \/ BecomeDue(j)
      PROVE  HasJob(k)'
  BY <1>1, <1>8 DEF RetryErasure, LapseLease, BecomeDue, HasJob, Row, CleanupRow
<1>9. ASSUME NEW w \in Cleaners, NEW j \in Keys, ClaimCleanup(w, j)
      PROVE  HasJob(k)'
  BY <1>1, <1>9 DEF ClaimCleanup, HasJob, CleanupRow
<1>10. ASSUME NEW u \in Uploads, UploadDoes(u) \/ CommitIngest(u) \/ SettleUpload(u)
       PROVE  HasJob(k)'
  BY <1>4, <1>5, <1>10 DEF UploadDoes, StageUpload, RejectUpload, PublishUpload, FinishUpload,
     CommitIngest, SettleUpload, rows
<1>11. ASSUME FinderStep \/ FailScan
       PROVE  HasJob(k)'
  BY <1>4, <1>5, <1>11 DEF FinderStep, FailScan, StartScan, Scan, EndScan, SkipOwned, Identify,
     ScheduleOrphan, rows
<1>12. ASSUME \/ \E u \in Uploads, r \in Requests, c \in Contents, i \in Ids : StartUpload(u, r, c, i)
              \/ \E w \in Cleaners : WorkInDirectory(w)
              \/ \E i \in Ids : Age(i)
              \/ \E p \in Processes : Crash(p)
              \/ UNCHANGED vars
       PROVE  HasJob(k)'
  <2>1. UNCHANGED cleanup
    BY <1>12 DEF StartUpload, WorkInDirectory, VerifyRecording, Reconsider, LinkQuarantine,
       UnlinkSource, UnlinkQuarantined, FailExecution, Age, Crash, rows, vars
  <2> QED
    BY <1>4, <2>1
<1> QED
  BY <1>6, <1>7, <1>8, <1>9, <1>10, <1>11, <1>12, Steps

(* A job is forgotten, and an erasure learns of a success, only when neither     *)
(* name of the recording is left, whoever of two workers finishes it             *)
(* (recording_cleanup.py _finish_success).                                        *)
THEOREM SuccessIsGone == Spec => SuccessMeansGone
<1>1. Inv /\ [Next]_vars => SucceedsGone
  <2> SUFFICES ASSUME Inv, [Next]_vars, NEW k \in Keys, HasJob(k), cleanup[k].status # "succeeded",
                      ~HasJob(k)' \/ cleanup'[k].status = "succeeded"
               PROVE  k \notin root' \cup quarantine'
    BY DEF SucceedsGone
  <2>1. ASSUME Inv', HasJob(k)', cleanup'[k].status = "succeeded"
        PROVE  k \notin root' \cup quarantine'
    BY <2>1 DEF Inv, Fits, GoneFit
  <2>2. CASE ~HasJob(k)'
    <3>1. CASE \E w \in Cleaners : Finish(w)
      <4>1. PICK w \in Cleaners : Finish(w)
        BY <3>1
      <4>2. UNCHANGED <<root, quarantine>>
        BY <4>1, FinishRows DEF OnlyCleanup, files, Inv
      <4>3. cleaner[w].key = k /\ FinishSuccess(w)
        <5>1. /\ cleanup \in [Keys -> CleanupRow] /\ cleaner[w].key \in Keys
              /\ cleanup[cleaner[w].key] \in CleanupRow /\ WellFormed(cleanup[cleaner[w].key])
          BY <4>1, FinishMoves, TypeParts DEF Inv, Typed
        <5>2. cleaner[w].key = k
          BY <2>2, <4>1, <5>1, FinishRows DEF HasJob, Inv
        <5> QED
          BY <2>2, <4>1, <5>1, <5>2, FinishRows, ReleasedRows DEF HasJob, Inv
      <4> QED
        BY <4>2, <4>3 DEF FinishSuccess, Inv, Fits, GoneFit
    <3>2. CASE ~\E w \in Cleaners : Finish(w)
      BY <2>2, <3>2, JobsKept
    <3> QED
      BY <3>1, <3>2
  <2> QED
    BY <2>1, <2>2, StepInv DEF HasJob
<1>2. SucceedsGone => [\A k \in Keys :
       HasJob(k) /\ cleanup[k].status # "succeeded"
         /\ (~HasJob(k)' \/ cleanup'[k].status = "succeeded")
       => k \notin root' \cup quarantine']_vars
  BY DEF SucceedsGone
<1> QED
  BY <1>1, <1>2, InitInv, StepInv, PTL DEF Spec, SuccessMeansGone

-----------------------------------------------------------------------------
(* What a meeting needs of its recording.                                  *)

\* An upload has a file that is not ingested yet.
Pending(u) == Storing(u) \/ upload[u].step = "stored"
Staged(u) == upload[u].step \in {"staged", "linked", "stored"}
Linked(u) == upload[u].step \in {"linked", "stored"}

\* A cleanup job, discovery or a worker has to do with the name k.
Held(k) == \E w \in Cleaners : cleaner[w].step # "idle" /\ cleaner[w].key = k
Met(k) == HasJob(k) \/ k \in finder.page \/ Held(k)

\* The file of a pending upload is too young for anybody to have met its names.
Young ==
  \A u \in Uploads : Pending(u) =>
    /\ upload[u].id \notin old
    /\ \A k \in Keys : Met(k) => IdOf(k) # upload[u].id

\* What was verified is complete, and what was published has its final name.
Whole ==
  \A u \in Uploads :
    /\ Staged(u) => content[upload[u].id] = upload[u].sha
    /\ Linked(u) => FinalKey(upload[u].id) \in root

AssetsWhole ==
  \A c \in Contents : asset[c] # 0 => FinalKey(asset[c]) \in root /\ content[asset[c]] = c

Recorded == Inv /\ Young /\ Whole /\ AssetsWhole

LEMMA YoungStays ==
  ASSUME Onward, Young, \A u \in Uploads : Pending(u) => upload[u].id \notin old',
         \A k \in Keys : Met(k)' => Met(k) \/ \A u \in Uploads : Pending(u) => IdOf(k) # upload[u].id
  PROVE  Young'
<1> SUFFICES ASSUME NEW u \in Uploads, Pending(u)'
             PROVE  /\ upload'[u].id \notin old'
                    /\ \A k \in Keys : Met(k)' => IdOf(k) # upload'[u].id
  BY DEF Young
<1>1. Pending(u) /\ upload'[u].id = upload[u].id
  BY DEF Pending, Storing, Onward
<1> QED
  BY <1>1 DEF Young

LEMMA AssetsWholeStay ==
  ASSUME Inv, AssetsWhole, Keeps, \A c \in Contents : asset'[c] \in {asset[c], 0},
         \A c \in Contents : asset[c] # 0 => content'[asset[c]] = content[asset[c]]
  PROVE  AssetsWhole'
<1> SUFFICES ASSUME NEW c \in Contents, asset'[c] # 0
             PROVE  FinalKey(asset'[c]) \in root' /\ content'[asset'[c]] = c
  BY DEF AssetsWhole
<1>1. asset'[c] = asset[c] /\ asset[c] # 0 /\ asset[c] \in Ids
  BY TypeParts DEF Inv, Typed
<1>2. FinalKey(asset[c]) \in Keys /\ Owned(FinalKey(asset[c]))
  BY <1>1, KeyFacts DEF Owned
<1> QED
  BY <1>1, <1>2 DEF AssetsWhole, Keeps

\* A request is about to store a new file.
Starts == \E u \in Uploads, r \in Requests, c \in Contents, i \in Ids : StartUpload(u, r, c, i)

(* Every other step only moves uploads on. *)
LEMMA OnwardStep ==
  ASSUME Inv, [Next]_vars, ~Starts
  PROVE  Onward
<1>1. CASE UNCHANGED upload
  BY <1>1 DEF Onward, Early, Storing
<1>2. ASSUME NEW u \in Uploads, UploadDoes(u)
      PROVE  Onward
  <2>1. upload[u].step # "idle"
    BY <1>2 DEF UploadDoes, StageUpload, RejectUpload, PublishUpload, FinishUpload
  <2>2. \/ UploadEnds(u) \/ (UploadGoto(u, "staged") /\ Early(u))
        \/ (UploadGoto(u, "linked") \/ UploadGoto(u, "stored")) /\ Storing(u)
    BY <1>2 DEF UploadDoes, StageUpload, RejectUpload, PublishUpload, FinishUpload, Early, Storing
  <2> QED
    BY <2>1, <2>2, GoesOn DEF Inv
<1>3. ASSUME NEW u \in Uploads, CommitIngest(u) \/ SettleUpload(u)
      PROVE  Onward
  <2>1. upload[u].step # "idle" /\ (UploadEnds(u) \/ UploadGoto(u, "settle"))
    BY <1>3 DEF CommitIngest, SettleUpload
  <2> QED
    BY <2>1, GoesOn DEF Inv
<1>4. ASSUME NEW p \in Processes, Crash(p)
      PROVE  Onward
  <2>1. \A u \in Uploads : upload'[u] = upload[u] \/ upload'[u].step = "idle"
    BY <1>4, IdleFits DEF Crash
  <2> QED
    BY <2>1 DEF Onward, Early, Storing
<1>5. (\E w \in Cleaners : Finish(w)) => UNCHANGED upload
  BY FinishRows DEF OnlyCleanup, Inv
<1> QED
  BY <1>1, <1>2, <1>3, <1>4, <1>5, Steps
     DEF Starts, Erase, ConcludeErasure, RetryErasure, LapseLease, BecomeDue, ClaimCleanup,
         WorkInDirectory, VerifyRecording, Reconsider, LinkQuarantine, UnlinkSource,
         UnlinkQuarantined, FailExecution, Age, FinderStep, FailScan, StartScan, Scan, EndScan,
         SkipOwned, Identify, ScheduleOrphan, vars, actors

LEMMA ScheduleAdds ==
  ASSUME Typed, NEW k \in Keys, NEW sha, NEW reason, Schedule(k, sha, reason)
  PROVE  \A j \in Keys : HasJob(j)' => HasJob(j) \/ j = k
BY TypeParts DEF Schedule, HasJob, Typed

\* What concerns nobody who has an upload pending.
Apart(k) == \A u \in Uploads : Pending(u) => IdOf(k) # upload[u].id

(* Jobs, discovery and workers meet no name of a pending upload: an erasure    *)
(* schedules an asset's file, an upload its own when it is not pending any     *)
(* more, and discovery reads old files only.                                   *)
LEMMA MetStays ==
  ASSUME Inv, Young, [Next]_vars, ~Starts, NEW k \in Keys, Met(k)'
  PROVE  Met(k) \/ Apart(k)
<1>1. finder \in FinderMemory
  BY TypeParts DEF Inv, Typed
<1>2. CASE UNCHANGED cleanup /\ CleanersKeep /\ finder'.page \subseteq finder.page
  BY <1>2 DEF Met, Held, HasJob, CleanersKeep
<1>3. ASSUME NEW u \in Uploads, UploadDoes(u)
      PROVE  UNCHANGED cleanup /\ CleanersKeep /\ finder'.page \subseteq finder.page
  <2>1. UNCHANGED <<cleanup, cleaner>>
    BY <1>3 DEF UploadDoes, StageUpload, RejectUpload, PublishUpload, FinishUpload, rows
  <2>2. CASE StageUpload(u)
    <3>1. finder' = [finder EXCEPT !.stale = finder.stale \ {upload[u].id}]
      BY <2>2 DEF StageUpload
    <3> QED
      BY <1>1, <2>1, <3>1, CleanersUnchanged DEF FinderMemory
  <2> QED
    BY <1>3, <2>1, <2>2, CleanersUnchanged DEF UploadDoes, RejectUpload, PublishUpload, FinishUpload
<1>4. ASSUME NEW u \in Uploads, CommitIngest(u)
      PROVE  UNCHANGED cleanup /\ CleanersKeep /\ finder'.page \subseteq finder.page
  BY <1>4, CleanersUnchanged DEF CommitIngest
<1>5. ASSUME NEW u \in Uploads, SettleUpload(u)
      PROVE  Met(k) \/ Apart(k)
  <2> DEFINE own == FinalKey(upload[u].id)
  <2>1. upload[u].step = "settle" /\ upload[u].id \in Ids /\ UNCHANGED <<cleaner, finder>>
    BY <1>5 DEF SettleUpload, Inv, Typed
  <2>2. own \in Keys /\ IdOf(own) = upload[u].id
    BY <2>1, KeyFacts
  <2>3. Apart(own)
    <3>1. ASSUME NEW v \in Uploads, Pending(v)
          PROVE  upload[v].step # "idle" /\ v # u
      BY <2>1, <3>1 DEF Pending, Storing
    <3> QED
      BY <2>1, <2>2, <3>1 DEF Apart, Inv, Fits, UploadsFit
  <2>4. HasJob(k)' => HasJob(k) \/ k = own
    <3>1. CASE UNCHANGED cleanup
      BY <3>1 DEF HasJob
    <3>2. CASE Schedule(own, upload[u].sha, "abandoned")
      <4> HIDE DEF own
      <4> QED
        BY <2>2, <3>2, ScheduleAdds DEF Inv
    <3> QED
      BY <1>5, <3>1, <3>2 DEF SettleUpload
  <2> QED
    BY <2>1, <2>3, <2>4 DEF Met, Held
<1>6. ASSUME NEW r \in Requests, Erase(r)
      PROVE  Met(k) \/ Apart(k)
  <2> DEFINE c == meeting[r]
             own == FinalKey(asset[c])
  <2>1. /\ c \in Contents /\ asset[c] # 0 /\ asset[c] \in Ids /\ UNCHANGED <<cleaner, finder>>
    BY <1>6, TypeParts DEF Erase, Inv, Typed, Fits, AssetsFit, actors
  <2>2. own \in Keys /\ IdOf(own) = asset[c]
    BY <2>1, KeyFacts
  <2>3. Apart(own)
    BY <2>1, <2>2 DEF Apart, Pending, Inv, Fits, UploadsFit
  <2>4. HasJob(k)' => HasJob(k) \/ k = own
    <3>1. CASE UNCHANGED cleanup
      BY <3>1 DEF HasJob
    <3>2. CASE cleanup' = [cleanup EXCEPT ![own] = Row("ready", c, "erasure")]
      <4> HIDE DEF own, c
      <4> QED
        BY <2>2, <3>2, TypeParts DEF Inv, Typed, HasJob
    <3> QED
      BY <1>6, <3>1, <3>2 DEF Erase
  <2> QED
    BY <2>1, <2>3, <2>4 DEF Met, Held
<1>7. CASE OnlyCleanup /\ JobsEnd /\ CleanersKeep
  BY <1>7 DEF OnlyCleanup, JobsEnd, CleanersKeep, Met, Held
<1>8. ASSUME NEW w \in Cleaners, NEW j \in Keys, ClaimCleanup(w, j)
      PROVE  Met(k)
  <2>1. /\ HasJob(j) /\ cleaner'[w].key = j /\ UNCHANGED finder
        /\ \A v \in Cleaners \ {w} : cleaner'[v] = cleaner[v]
    BY <1>8, TypeParts DEF ClaimCleanup, Claimable, Waiting, HasJob, Inv, Typed
  <2>2. HasJob(k)' => HasJob(k)
    <3>1. \A x \in Keys \ {j} : cleanup'[x] = cleanup[x]
      BY <1>8, TypeParts DEF ClaimCleanup, Inv, Typed
    <3> QED
      BY <2>1, <3>1 DEF HasJob
  <2> QED
    BY <2>1, <2>2 DEF Met, Held
<1>9. ASSUME NEW w \in Cleaners, WorkInDirectory(w)
      PROVE  Met(k)
  <2>1. UNCHANGED <<cleanup, finder>>
    BY <1>9 DEF WorkInDirectory, VerifyRecording, Reconsider, LinkQuarantine, UnlinkSource,
         UnlinkQuarantined, FailExecution, rows
  <2>2. /\ cleaner[w].step # "idle" /\ cleaner'[w].key = cleaner[w].key
        /\ \A v \in Cleaners \ {w} : cleaner'[v] = cleaner[v]
    BY <1>9, WorkMoves DEF Inv
  <2> QED
    BY <2>1, <2>2 DEF Met, Held, HasJob
<1>10. CASE FinderStep \/ FailScan
  <2>1. UNCHANGED cleaner
    BY <1>10 DEF FinderStep, FailScan, StartScan, Scan, EndScan, SkipOwned, Identify, ScheduleOrphan
  <2>2. HasJob(k)' => HasJob(k) \/ k \in finder.page
    <3>1. CASE UNCHANGED cleanup
      BY <3>1 DEF HasJob
    <3>2. ASSUME NEW j \in Keys, ScheduleOrphan(j)
          PROVE  HasJob(k)' => HasJob(k) \/ k \in finder.page
      <4>1. j \in finder.page /\ Schedule(j, finder.sha, "orphan")
        BY <3>2 DEF ScheduleOrphan, InHand
      <4>2. \A x \in Keys : HasJob(x)' => HasJob(x) \/ x = j
        BY <4>1, ScheduleAdds DEF Inv
      <4> QED
        BY <4>1, <4>2
    <3> QED
      BY <1>10, <3>1, <3>2 DEF FinderStep, FailScan, StartScan, Scan, EndScan, SkipOwned, Identify, rows
  <2>3. k \in finder'.page => k \in finder.page \/ k \in Candidates
    BY <1>10, FinderMoves DEF Inv
  <2>4. k \in Candidates => Apart(k)
    BY DEF Candidates, Apart, Young
  <2> QED
    BY <2>1, <2>2, <2>3, <2>4 DEF Met, Held
<1>11. CASE UNCHANGED <<cleanup, cleaner, finder>>
  BY <1>11 DEF Met, Held, HasJob
<1>12. ASSUME NEW p \in Processes, Crash(p)
       PROVE  UNCHANGED cleanup /\ CleanersKeep /\ finder'.page \subseteq finder.page
  <2>1. \A w \in Cleaners : cleaner'[w] = cleaner[w] \/ cleaner'[w].step = "idle"
    BY <1>12, IdleFits DEF Crash
  <2>2. FreshFinder.page = {}
    BY DEF FreshFinder
  <2> QED
    BY <1>12, <2>1, <2>2 DEF Crash, rows, CleanersKeep
<1>13. ASSUME \/ \E j \in Keys : ConcludeErasure(j)
              \/ \E j \in Keys : RetryErasure(j) \/ LapseLease(j) \/ BecomeDue(j)
              \/ \E w \in Cleaners : Finish(w)
       PROVE  OnlyCleanup /\ JobsEnd /\ CleanersKeep
  BY <1>13, ConcludeFits, RowStepFits, FinishFits
<1>14. ASSUME (\E i \in Ids : Age(i)) \/ UNCHANGED vars
       PROVE  UNCHANGED <<cleanup, cleaner, finder>>
  BY <1>14 DEF Age, rows, actors, vars
<1> QED
  BY <1>2, <1>3, <1>4, <1>5, <1>6, <1>7, <1>8, <1>9, <1>10, <1>11, <1>12, <1>13, <1>14, Steps DEF Starts

(* No file of a pending upload grows old: the upload settles first. *)
LEMMA OldStep ==
  ASSUME Prompt, Inv, Young, [Next]_vars, ~Starts
  PROVE  \A u \in Uploads : Pending(u) => upload[u].id \notin old'
<1>1. CASE old' \subseteq old
  BY <1>1 DEF Young
<1>2. ASSUME NEW i \in Ids, Age(i)
      PROVE  \A u \in Uploads : Pending(u) => upload[u].id \notin old'
  BY <1>2 DEF Age, Young
<1>3. (\E w \in Cleaners : Finish(w)) => UNCHANGED old
  BY FinishRows DEF OnlyCleanup, files, Inv
<1> QED
  BY <1>1, <1>2, <1>3, Steps
     DEF Starts, UploadDoes, StageUpload, RejectUpload, PublishUpload, FinishUpload, CommitIngest,
         SettleUpload, Erase, ConcludeErasure, RetryErasure, LapseLease, BecomeDue, ClaimCleanup,
         WorkInDirectory, VerifyRecording, Reconsider, LinkQuarantine, UnlinkSource,
         UnlinkQuarantined, FailExecution, FinderStep, FailScan, StartScan, Scan, EndScan,
         SkipOwned, Identify, ScheduleOrphan, Crash, vars, files

(* The storage id of a new file is new to everybody. *)
LEMMA StartYoung ==
  ASSUME Inv, Young, NEW u \in Uploads, NEW r \in Requests, NEW c \in Contents, NEW i \in Ids,
         StartUpload(u, r, c, i)
  PROVE  Young'
<1>1. /\ content[i] = Nobody /\ UNCHANGED <<old, cleanup, cleaner, finder>>
  BY DEF StartUpload, rows
<1>2. /\ upload'[u].id = i /\ \A v \in Uploads \ {u} : upload'[v] = upload[v]
  BY TypeParts DEF StartUpload, Inv, Typed
<1>3. i \notin old
  BY <1>1 DEF Inv, Fits, FinderFit
<1>4. \A k \in Keys : Met(k) => IdOf(k) # i
  BY <1>1 DEF Inv, Fits, SeenFit, Sound, Seen, Met, Held
<1>5. \A k \in Keys : Met(k)' <=> Met(k)
  BY <1>1 DEF Met, Held, HasJob
<1>6. \A v \in Uploads \ {u} : Pending(v)' => Pending(v)
  BY <1>2 DEF Pending, Storing
<1> QED
  BY <1>1, <1>2, <1>3, <1>4, <1>5, <1>6 DEF Young

LEMMA YoungStep ==
  ASSUME Prompt, Inv, Young, [Next]_vars
  PROVE  Young'
<1>1. CASE Starts
  BY <1>1, StartYoung DEF Starts
<1>2. CASE ~Starts
  <2>1. \A k \in Keys : Met(k)' => Met(k) \/ \A u \in Uploads : Pending(u) => IdOf(k) # upload[u].id
    BY <1>2, MetStays DEF Apart
  <2> QED
    BY <1>2, <2>1, OnwardStep, OldStep, YoungStays
<1> QED
  BY <1>1, <1>2

(* The final name of a pending upload is nobody's to remove. *)
LEMMA FinalNamesStay ==
  ASSUME Inv, Young, [Next]_vars, NEW u \in Uploads, Pending(u),
         FinalKey(upload[u].id) \in root
  PROVE  FinalKey(upload[u].id) \in root'
<1> DEFINE k == FinalKey(upload[u].id)
<1>1. upload[u].id \in Ids /\ k \in Keys /\ IdOf(k) = upload[u].id
      /\ \A i \in Ids : k # PartKey(i)
  BY KeyFacts DEF Pending, Storing, Inv, Typed
<1>2. \A w \in Cleaners : cleaner[w].step # "idle" => cleaner[w].key # k
  BY <1>1 DEF Young, Met, Held
<1>3. CASE root \subseteq root'
  BY <1>3
<1>4. ASSUME NEW v \in Uploads, UploadDoes(v)
      PROVE  k \in root'
  <2>1. upload[v].id \in Ids
    BY <1>4 DEF UploadDoes, StageUpload, RejectUpload, PublishUpload, FinishUpload, Inv, Typed
  <2> QED
    BY <1>1, <1>4, <2>1 DEF UploadDoes, StageUpload, RejectUpload, PublishUpload, FinishUpload
<1>5. ASSUME NEW w \in Cleaners, WorkInDirectory(w)
      PROVE  k \in root'
  BY <1>2, <1>5 DEF WorkInDirectory, VerifyRecording, Reconsider, LinkQuarantine, UnlinkSource,
     UnlinkQuarantined, FailExecution, files
<1>6. (\E w \in Cleaners : Finish(w)) => UNCHANGED root
  BY FinishRows DEF OnlyCleanup, files, Inv
<1> HIDE DEF k
<1>7. k \in root'
  BY <1>3, <1>4, <1>5, <1>6, Steps DEF k,
     StartUpload, CommitIngest, SettleUpload, Erase, ConcludeErasure, RetryErasure, LapseLease,
     BecomeDue, ClaimCleanup, Age, FinderStep, FailScan, StartScan, Scan, EndScan,
     SkipOwned, Identify, ScheduleOrphan, Crash, vars, files
<1> QED
  BY <1>7 DEF k

\* The uploads that have not come nearer to an asset, as they were.
SameFile(u) ==
  /\ Staged(u)' => Staged(u) /\ upload'[u].id = upload[u].id /\ upload'[u].sha = upload[u].sha
  /\ Linked(u)' => Linked(u) /\ upload'[u].id = upload[u].id

LEMMA SameFiles ==
  ASSUME Inv, Young, Whole, [Next]_vars, UNCHANGED content, NEW u \in Uploads, SameFile(u)
  PROVE  /\ Staged(u)' => content'[upload'[u].id] = upload'[u].sha
         /\ Linked(u)' => FinalKey(upload'[u].id) \in root'
<1>1. Linked(u) => Pending(u)
  BY DEF Linked, Pending, Storing
<1>2. Linked(u) => FinalKey(upload[u].id) \in root'
  BY <1>1, FinalNamesStay DEF Whole
<1> QED
  BY <1>2 DEF SameFile, Whole

(* An upload that writes, verifies or publishes its file does so to its own. *)
LEMMA UploadWhole ==
  ASSUME Inv, Young, Whole, [Next]_vars, NEW u \in Uploads, UploadDoes(u)
  PROVE  Whole' /\ \A c \in Contents : asset[c] # 0 => content'[asset[c]] = content[asset[c]]
<1> DEFINE i == upload[u].id
<1>1. /\ Storing(u) /\ upload[u].step # "idle" /\ i \in Ids /\ upload[u] \in UploadMemory
      /\ \A v \in Uploads \ {u} : upload'[v] = upload[v]
      /\ content \in [Ids -> Bytes] /\ upload \in [Uploads -> UploadMemory]
  BY TypeParts DEF UploadDoes, StageUpload, RejectUpload, PublishUpload, FinishUpload, Storing,
     UploadGoto, UploadEnds, Inv, Typed
<1>2. \A c \in Contents : asset[c] # i
  BY <1>1 DEF Inv, Fits, UploadsFit
<1>3. \A v \in Uploads \ {u} : SameFile(v)
  BY <1>1 DEF SameFile, Staged, Linked
<1>4. CASE StageUpload(u)
  <2>1. /\ upload'[u].step = "staged" /\ upload'[u].id = i /\ upload'[u].sha = upload[u].sha
        /\ content'[i] = upload[u].sha /\ \A j \in Ids \ {i} : content'[j] = content[j]
    BY <1>1, <1>4 DEF StageUpload, UploadGoto, UploadMemory
  <2>2. \A c \in Contents : asset[c] # 0 => asset[c] \in Ids
    BY TypeParts DEF Inv, Typed
  <2>3. ASSUME NEW v \in Uploads, v # u, Staged(v)
        PROVE  content'[upload[v].id] = upload[v].sha /\ (Linked(v) => FinalKey(upload[v].id) \in root')
    <3>1. upload[v].step # "idle" /\ upload[v].id \in Ids /\ upload[v].id # i
      BY <1>1, <2>3 DEF Staged, Inv, Typed, Fits, UploadsFit
    <3> QED
      BY <1>4, <2>1, <2>3, <3>1 DEF Whole, StageUpload
  <2>4. Staged(u)' /\ ~Linked(u)'
    BY <2>1 DEF Staged, Linked
  <2>5. Whole'
    <3>1. ASSUME NEW v \in Uploads, v # u
          PROVE  /\ Staged(v)' => content'[upload'[v].id] = upload'[v].sha
                 /\ Linked(v)' => FinalKey(upload'[v].id) \in root'
      BY <1>1, <2>3, <3>1 DEF Staged, Linked
    <3> QED
      BY <2>1, <2>4, <3>1 DEF Whole
  <2> QED
    BY <1>2, <2>1, <2>2, <2>5
<1>5. CASE RejectUpload(u) \/ PublishUpload(u) \/ FinishUpload(u)
  <2>1. UNCHANGED content
    BY <1>5 DEF RejectUpload, PublishUpload, FinishUpload
  <2>2. \/ SameFile(u)
        \/ /\ upload[u].step = "staged" /\ upload'[u].id = i /\ upload'[u].sha = upload[u].sha
           /\ FinalKey(i) \in root'
    <3>1. CASE UploadEnds(u)
      <4>1. upload'[u].step = "idle"
        BY <1>1, <3>1, IdleFits DEF UploadEnds
      <4> QED
        BY <4>1 DEF SameFile, Staged, Linked
    <3>2. CASE FinishUpload(u) /\ UploadGoto(u, "stored")
      <4>1. upload[u].step = "linked" /\ upload'[u].id = i /\ upload'[u].sha = upload[u].sha
        BY <1>1, <3>2 DEF FinishUpload, UploadGoto, UploadMemory
      <4> QED
        BY <4>1 DEF SameFile, Staged, Linked
    <3>3. CASE PublishUpload(u) /\ UploadGoto(u, "linked") /\ FinalKey(i) \in root'
      BY <1>1, <3>3 DEF PublishUpload, UploadGoto, UploadMemory
    <3> QED
      BY <1>5, <3>1, <3>2, <3>3 DEF RejectUpload, PublishUpload, FinishUpload
  <2>3. CASE SameFile(u)
    <3>1. \A v \in Uploads : SameFile(v)
      BY <1>3, <2>3
    <3> QED
      BY <2>1, <3>1, SameFiles DEF Whole
  <2>4. CASE /\ upload[u].step = "staged" /\ upload'[u].id = i /\ upload'[u].sha = upload[u].sha
             /\ FinalKey(i) \in root'
    <3>1. content'[upload'[u].id] = upload'[u].sha
      BY <2>1, <2>4 DEF Whole, Staged
    <3>2. \A v \in Uploads \ {u} : /\ Staged(v)' => content'[upload'[v].id] = upload'[v].sha
                                   /\ Linked(v)' => FinalKey(upload'[v].id) \in root'
      BY <1>3, <2>1, SameFiles
    <3> QED
      BY <2>1, <2>4, <3>1, <3>2 DEF Whole
  <2> QED
    BY <2>1, <2>2, <2>3, <2>4
<1> QED
  BY <1>4, <1>5 DEF UploadDoes

LEMMA StartWhole ==
  ASSUME Inv, Whole, NEW u \in Uploads, NEW r \in Requests, NEW c \in Contents, NEW i \in Ids,
         StartUpload(u, r, c, i)
  PROVE  /\ Whole' /\ UNCHANGED asset
         /\ \A d \in Contents : asset[d] # 0 => content'[asset[d]] = content[asset[d]]
<1>1. /\ content[i] = Nobody /\ UNCHANGED asset /\ root \subseteq root'
      /\ upload'[u].step = "staging" /\ \A v \in Uploads \ {u} : upload'[v] = upload[v]
      /\ \A j \in Ids \ {i} : content'[j] = content[j]
  BY TypeParts DEF StartUpload, rows, Inv, Typed
<1>2. \A d \in Contents : asset[d] # 0 => asset[d] \in Ids /\ asset[d] # i
  BY <1>1, TypeParts DEF Inv, Typed, Fits, AssetsFit
<1>3. ASSUME NEW v \in Uploads, Staged(v)' \/ Linked(v)'
      PROVE  /\ v # u /\ upload'[v] = upload[v] /\ upload[v].id \in Ids \ {i}
             /\ Staged(v)' => Staged(v)
             /\ Linked(v)' => Linked(v)
  <2>1. v # u /\ upload'[v] = upload[v] /\ upload[v].step # "idle"
    BY <1>1, <1>3 DEF Staged, Linked
  <2> QED
    BY <1>1, <2>1 DEF Staged, Linked, Inv, Typed, Fits, UploadsFit
<1>4. Whole'
  BY <1>1, <1>3 DEF Whole
<1> QED
  BY <1>1, <1>2, <1>4

(* A request that ingests its file makes an asset of a complete one. *)
LEMMA CommitWhole ==
  ASSUME Inv, Young, Whole, AssetsWhole, [Next]_vars, Keeps, NEW u \in Uploads, CommitIngest(u)
  PROVE  Whole' /\ AssetsWhole'
<1> DEFINE i == upload[u].id
           d == upload[u].sha
<1>1. /\ upload[u].step = "stored" /\ i \in Ids /\ d \in Contents
      /\ UNCHANGED files /\ UploadGoto(u, "settle")
  BY DEF CommitIngest, Inv, Typed
<1>2. \A v \in Uploads : upload'[v] = upload[v] \/ upload'[v].step = "settle"
  BY <1>1, TypeParts DEF UploadGoto, UploadMemory, Inv, Typed
<1>3. Whole'
  <2>1. \A v \in Uploads : SameFile(v)
    BY <1>2 DEF SameFile, Staged, Linked
  <2> QED
    BY <1>1, <2>1, SameFiles DEF Whole, files
<1>4. FinalKey(i) \in root /\ content[i] = d
  BY <1>1 DEF Whole, Staged, Linked
<1>5. UNCHANGED <<root, content>>
  BY <1>1 DEF files
<1>6. CASE UNCHANGED asset
  BY <1>3, <1>5, <1>6, AssetsWholeStay
<1>7. CASE asset' = [asset EXCEPT ![d] = i]
  <2>1. asset'[d] = i /\ \A c \in Contents \ {d} : asset'[c] = asset[c]
    BY <1>1, <1>7, TypeParts DEF Inv, Typed
  <2>2. ASSUME NEW c \in Contents, asset'[c] # 0
        PROVE  FinalKey(asset'[c]) \in root' /\ content'[asset'[c]] = c
    <3>1. CASE c = d
      BY <1>4, <1>5, <2>1, <3>1
    <3>2. CASE c # d
      BY <1>5, <2>1, <2>2, <3>2 DEF AssetsWhole
    <3> QED
      BY <3>1, <3>2
  <2> QED
    BY <1>3, <2>2 DEF AssetsWhole
<1> QED
  BY <1>6, <1>7 DEF CommitIngest, NewIngest, SharedIngest

LEMMA WholeStep ==
  ASSUME Recorded, [Next]_vars
  PROVE  Whole' /\ AssetsWhole'
<1>1. Inv /\ Young /\ Whole /\ AssetsWhole /\ Keeps
  BY AssetsKept DEF Recorded
<1>2. ASSUME NEW u \in Uploads, UploadDoes(u)
      PROVE  Whole' /\ AssetsWhole'
  <2>1. UNCHANGED asset
    BY <1>2 DEF UploadDoes, StageUpload, RejectUpload, PublishUpload, FinishUpload, rows
  <2> QED
    BY <1>1, <1>2, <2>1, UploadWhole, AssetsWholeStay
<1>3. CASE Starts
  BY <1>1, <1>3, StartWhole, AssetsWholeStay DEF Starts
<1>4. ASSUME NEW u \in Uploads, CommitIngest(u)
      PROVE  Whole' /\ AssetsWhole'
  BY <1>1, <1>4, CommitWhole
<1>5. CASE /\ UNCHANGED content /\ \A c \in Contents : asset'[c] \in {asset[c], 0}
           /\ \A u \in Uploads : upload'[u] = upload[u] \/ upload'[u].step = "idle"
  <2>1. \A u \in Uploads : SameFile(u)
    BY <1>5 DEF SameFile, Staged, Linked
  <2>2. Whole'
    BY <1>1, <1>5, <2>1, SameFiles DEF Whole
  <2> QED
    BY <1>1, <1>5, <2>2, AssetsWholeStay
<1>6. ASSUME NEW u \in Uploads, SettleUpload(u)
      PROVE  UNCHANGED <<content, asset>> /\ \A v \in Uploads : upload'[v] = upload[v] \/ upload'[v].step = "idle"
  BY <1>1, <1>6, TypeParts, IdleFits DEF SettleUpload, UploadEnds, files, Inv, Typed
<1>7. ASSUME NEW p \in Processes, Crash(p)
      PROVE  UNCHANGED <<content, asset>> /\ \A v \in Uploads : upload'[v] = upload[v] \/ upload'[v].step = "idle"
  BY <1>7, IdleFits DEF Crash, files, rows
<1>8. ASSUME NEW r \in Requests, Erase(r)
      PROVE  UNCHANGED <<content, upload>> /\ \A c \in Contents : asset'[c] \in {asset[c], 0}
  BY <1>1, <1>8, TypeParts DEF Erase, files, actors, Inv, Typed
<1>9. (\E w \in Cleaners : Finish(w)) => UNCHANGED <<content, asset, upload>>
  BY <1>1, FinishRows DEF OnlyCleanup, files, Inv
<1>10. CASE UNCHANGED <<content, asset, upload>>
  BY <1>5, <1>10
<1> QED
  BY <1>2, <1>3, <1>4, <1>5, <1>6, <1>7, <1>8, <1>9, <1>10, Steps
     DEF Starts, ConcludeErasure, RetryErasure, LapseLease, BecomeDue, ClaimCleanup,
         WorkInDirectory, VerifyRecording, Reconsider, LinkQuarantine, UnlinkSource,
         UnlinkQuarantined, FailExecution, Age, FinderStep, FailScan, StartScan, Scan, EndScan,
         SkipOwned, Identify, ScheduleOrphan, vars, files, rows, actors

LEMMA InitRecorded == Init => Recorded
<1> SUFFICES ASSUME Init PROVE Recorded
  OBVIOUS
<1>1. \A u \in Uploads : upload[u].step = "idle"
  BY IdleFits DEF Init
<1>2. Young /\ Whole
  BY <1>1 DEF Young, Whole, Pending, Storing, Staged, Linked
<1>3. AssetsWhole
  BY DEF Init, AssetsWhole
<1> QED
  BY <1>2, <1>3, InitInv DEF Recorded

LEMMA StepRecorded == Prompt /\ Recorded /\ [Next]_vars => Recorded'
BY StepInv, YoungStep, WholeStep DEF Recorded

(* When uploads settle within the grace period of orphan discovery, a meeting that *)
(* has not been erased keeps its recording: it has an asset, and the asset's file  *)
(* is in the directory, complete, under its final name, whatever requests,         *)
(* cleanups, erasures, discovery, crashes and lapsed leases interleave             *)
(* (workflow.py ingest, audio.py put, recording_cleanup.py).                        *)
THEOREM RecordingKept == Prompt => (Spec => []MeetingHasRecording)
<1> SUFFICES ASSUME Prompt PROVE Spec => []MeetingHasRecording
  OBVIOUS
<1>1. Recorded => MeetingHasRecording
  BY DEF Recorded, Inv, Fits, AssetsFit, AssetsWhole, MeetingHasRecording
<1>2. Recorded /\ [Next]_vars => Recorded'
  BY StepRecorded
<1> QED
  BY <1>1, <1>2, InitRecorded, PTL DEF Spec
===============================================================================
