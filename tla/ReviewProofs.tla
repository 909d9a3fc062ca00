---------------------------- MODULE ReviewProofs ----------------------------
(***************************************************************************)
(* What holds of Review for every meeting: any actions, issues, drafts,    *)
(* clients and commands, any number of versions, revisions and lost        *)
(* answers.  First the review and its approval; then the ledger, which     *)
(* takes a theory of folds and of flattened lists.                         *)
(***************************************************************************)
EXTENDS Review, SequenceTheorems, FiniteSetTheorems, WellFoundedInduction, TLAPS

Revision == [content : Contents, seen : Contents]
ClientRow ==
  [at : {"idle", "asked", "served", "told"}, seen : Contents \cup {Nothing},
   asks : Commands \cup {Nothing}, version : 0..MaxVersion]

\* The statuses before a review is stored.
Unreviewed ==
  {"ingested", "transcribing", "transcription_failed", "transcribed", "extracting",
   "extraction_failed"}

\* The part of TypeOK that the database keeps, and the part of ApprovedAsSeen
\* that speaks of it alone; and what makes them inductive: an extraction ends
\* before there is any review, so its review replaces none.
StoreFits ==
  /\ meeting.status \in Unreviewed => reviews = <<>>
  /\ meeting \in [status : MeetingStatuses, version : 0..MaxVersion, review : Nat]
  /\ reviews \in Seq(Revision)
  /\ meeting.review = Len(reviews)
  /\ \A n \in DOMAIN reviews : Valid(reviews[n].content)
  /\ meeting.status \in Reviewed => reviews # <<>>
  /\ approval \in Approvals \cup {Nothing}
  /\ (approval # Nothing) <=> (meeting.status \in {"filing", "completed"})
  /\ (intents # <<>>) <=> (meeting.status = "filing")
  /\ \A n \in 2..Len(reviews) : reviews[n].seen = reviews[n - 1].content
  /\ approval # Nothing =>
       /\ approval.seen = approval.digest
       /\ Latest = approval.digest /\ OpenBlockers(approval.digest) = 0
       /\ approval.recap = approval.digest.recap

Told(c) == client[c].at = "told" => approval # Nothing /\ approval.digest = client[c].seen

\* The clients have their types, a request that is on its way asks for something,
\* and what a client was told stands.
ClientsFit ==
  /\ client \in [Clients -> ClientRow]
  /\ \A c \in Clients : client[c].at \in {"asked", "served"} => client[c].asks \in Commands
  /\ \A c \in Clients : Told(c)
  /\ lost \in 0..MaxLost

(* Together they imply what is to be shown. *)
LEMMA Parts == StoreFits /\ ClientsFit => TypeOK /\ ApprovedAsSeen
BY DEF TypeOK, ApprovedAsSeen, StoreFits, ClientsFit, Told, Revision, ClientRow

-----------------------------------------------------------------------------
(* Contents and their edits.                                               *)

(* What an extraction leaves is valid content. *)
LEMMA DraftsFit ==
  ASSUME NEW draft \in Drafts
  PROVE  draft \in Contents /\ Valid(draft)
BY DraftAssumption DEF MayBeDrafted, Valid, Contents

(* An edit that is allowed makes valid content of valid content: above all, an *)
(* action that loses its deadline loses its calendar event.                    *)
LEMMA EditsFit ==
  ASSUME NEW content \in Contents, Valid(content), NEW edit \in Edits, MayEdit(content, edit)
  PROVE  Edited(content, edit) \in Contents /\ Valid(Edited(content, edit))
<1> DEFINE row == [text : Texts, dated : BOOLEAN, human : BOOLEAN]
<1>1. /\ content.recap \in Texts /\ content.action \in [Actions -> row]
      /\ content.deliver \in SUBSET (Actions \X Kinds)
      /\ content.issue \in [Issues -> {"absent", "open", "resolved", "accepted_risk"}]
  BY DEF Contents
<1>2. CASE edit.op = "action"
  <2>1. /\ edit.action \in Actions /\ edit.text \in Texts /\ edit.dated \in BOOLEAN
        /\ edit.recap \in Texts \cup {Keep}
    BY <1>2 DEF Edits
  <2> DEFINE recap == IF edit.recap = Keep THEN content.recap ELSE edit.recap
             action == [content.action EXCEPT
                          ![edit.action] = [text |-> edit.text, dated |-> edit.dated,
                                            human |-> TRUE]]
             deliver == Reconciled(content.deliver, edit)
  <2>2. recap \in Texts /\ action \in [Actions -> row] /\ deliver \in SUBSET (Actions \X Kinds)
    BY <1>1, <2>1 DEF Reconciled
  <2>3. Edited(content, edit) = [content EXCEPT !.recap = recap, !.action = action,
                                                !.deliver = deliver]
    BY <1>1, <1>2, <2>1 DEF Edited, ActionEdited, Contents
  <2>4. /\ Edited(content, edit) \in Contents
        /\ Edited(content, edit).action = action /\ Edited(content, edit).deliver = deliver
    <3> HIDE DEF recap, action, deliver
    <3> QED
      BY <2>2, <2>3 DEF Contents
  <2>5. ASSUME NEW a \in Actions, <<a, "calendar">> \in deliver
        PROVE  action[a].dated
    BY <1>1, <2>1, <2>5 DEF Reconciled, Valid
  <2> QED
    <3> HIDE DEF action, deliver
    <3> QED
      BY <2>4, <2>5 DEF Valid
<1>3. CASE edit.op = "issue"
  <2>1. edit.issue \in Issues /\ edit.to \in {"open", "resolved", "accepted_risk"}
    BY <1>3 DEF Edits
  <2>2. Edited(content, edit) = IssueClosed(content, edit)
    BY <1>3 DEF Edited
  <2> QED
    BY <1>1, <2>1, <2>2 DEF IssueClosed, Contents, Valid
<1>4. CASE edit.op = "delivery"
  <2>1. edit.action \in Actions /\ edit.kind \in Kinds /\ edit.enabled \in BOOLEAN
    BY <1>4 DEF Edits
  <2> DEFINE deliver == IF edit.enabled THEN content.deliver \cup {<<edit.action, edit.kind>>}
                                        ELSE content.deliver \ {<<edit.action, edit.kind>>}
  <2>2. Edited(content, edit) = [content EXCEPT !.deliver = deliver]
    BY <1>4 DEF Edited, DeliverySelected
  <2>3. deliver \in SUBSET (Actions \X Kinds)
    BY <1>1, <2>1
  <2>4. \A a \in Actions : <<a, "calendar">> \in deliver => content.action[a].dated
    BY <1>4, <2>1 DEF MayEdit, Valid
  <2> HIDE DEF deliver
  <2> QED
    BY <2>2, <2>3, <2>4 DEF Contents, Valid
<1> QED
  BY <1>2, <1>3, <1>4 DEF Edits

(* A revision is appended: the latest is the new one, and all of them are *)
(* what their authors wanted.                                             *)
LEMMA RevisionAppended ==
  ASSUME reviews \in Seq(Revision), NEW r \in Revision, Valid(r.content),
         \A n \in DOMAIN reviews : Valid(reviews[n].content),
         \A n \in 2..Len(reviews) : reviews[n].seen = reviews[n - 1].content,
         reviews # <<>> => r.seen = Latest,
         reviews' = Append(reviews, r)
  PROVE  /\ reviews' \in Seq(Revision) /\ Len(reviews') = Len(reviews) + 1 /\ reviews' # <<>>
         /\ \A n \in DOMAIN reviews' : Valid(reviews'[n].content)
         /\ \A n \in 2..Len(reviews') : reviews'[n].seen = reviews'[n - 1].content
<1>1. /\ reviews' \in Seq(Revision) /\ Len(reviews') = Len(reviews) + 1 /\ reviews' # <<>>
      /\ Len(reviews) \in Nat
  OBVIOUS
<1>2. /\ \A n \in 1..Len(reviews) : reviews'[n] = reviews[n]
      /\ reviews'[Len(reviews) + 1] = r
  OBVIOUS
<1>3. DOMAIN reviews' = 1..Len(reviews) + 1 /\ DOMAIN reviews = 1..Len(reviews)
  BY <1>1
<1>4. \A n \in DOMAIN reviews' : Valid(reviews'[n].content)
  BY <1>1, <1>2, <1>3
<1>5. ASSUME NEW n \in 2..Len(reviews') PROVE reviews'[n].seen = reviews'[n - 1].content
  <2>1. CASE n \in 2..Len(reviews)
    BY <1>1, <1>2, <2>1
  <2>2. CASE n = Len(reviews) + 1
    BY <1>1, <1>2, <2>2 DEF Latest
  <2> QED
    BY <1>1, <2>1, <2>2
<1> QED
  BY <1>1, <1>4, <1>5

-----------------------------------------------------------------------------
(* The store.                                                              *)

(* A step of the meeting alone, before it is approved. *)
LEMMA StatusFits ==
  ASSUME StoreFits, NEW target \in Unreviewed \cup {"cancelled"}, ChangeStatus(target)
  PROVE  StoreFits' /\ UNCHANGED <<approval, client, lost>>
<1>1. /\ meeting.status \in MeetingStatuses /\ meeting.version \in 0..MaxVersion
      /\ meeting.review \in Nat /\ meeting.version < MaxVersion
      /\ meeting.status \notin {"approved", "filing", "completed"}
      /\ target \in Unreviewed => meeting.status \in Unreviewed
  BY DEF StoreFits, ChangeStatus, Transitions, CanTransitionMeeting, Unreviewed, MeetingStatuses
<1>2. /\ meeting' = [meeting EXCEPT !.status = target, !.version = @ + 1]
      /\ UNCHANGED <<reviews, approval, intents, client, lost>>
  BY DEF ChangeStatus, Moved
<1>3. meeting.version + 1 \in 0..MaxVersion
  BY <1>1, BoundAssumption
<1>4. /\ meeting' \in [status : MeetingStatuses, version : 0..MaxVersion, review : Nat]
      /\ meeting'.review = meeting.review /\ meeting'.status = target
  BY <1>1, <1>2, <1>3 DEF StoreFits, Unreviewed, MeetingStatuses
<1> QED
  BY <1>1, <1>2, <1>4 DEF StoreFits, Reviewed, Unreviewed, Latest

(* A review is stored and the meeting awaits its approval. *)
LEMMA AwaitingFits ==
  ASSUME StoreFits, approval = Nothing, intents = <<>>,
         NEW r \in Revision, Valid(r.content), reviews # <<>> => r.seen = Latest,
         meeting.version < MaxVersion, reviews' = Append(reviews, r),
         meeting' = [Moved(meeting, "awaiting_approval") EXCEPT !.review = Len(reviews) + 1],
         UNCHANGED <<approval, intents>>
  PROVE  StoreFits'
<1>1. /\ reviews' \in Seq(Revision) /\ Len(reviews') = Len(reviews) + 1 /\ reviews' # <<>>
      /\ \A n \in DOMAIN reviews' : Valid(reviews'[n].content)
      /\ \A n \in 2..Len(reviews') : reviews'[n].seen = reviews'[n - 1].content
  BY RevisionAppended DEF StoreFits
<1>2. meeting.version + 1 \in 0..MaxVersion /\ Len(reviews) + 1 \in Nat
  BY BoundAssumption DEF StoreFits
<1>3. /\ meeting' \in [status : MeetingStatuses, version : 0..MaxVersion, review : Nat]
      /\ meeting'.status = "awaiting_approval" /\ meeting'.review = Len(reviews) + 1
  BY <1>2 DEF StoreFits, Moved, MeetingStatuses
<1> QED
  BY <1>1, <1>3 DEF StoreFits, Unreviewed

(* The model's review: there was none. *)
LEMMA ExtractionFits ==
  ASSUME StoreFits, NEW draft \in Drafts, CompleteExtraction(draft)
  PROVE  StoreFits' /\ UNCHANGED <<approval, client, lost>>
<1> DEFINE r == [content |-> draft, seen |-> draft]
<1>1. r \in Revision /\ Valid(r.content)
  BY DraftsFit DEF Revision
<1>2. reviews = <<>> /\ approval = Nothing /\ intents = <<>> /\ meeting.version < MaxVersion
  BY DEF CompleteExtraction, StoreFits, Unreviewed, Transitions
<1>3. /\ reviews' = Append(reviews, r)
      /\ meeting' = [Moved(meeting, "awaiting_approval") EXCEPT !.review = Len(reviews) + 1]
      /\ UNCHANGED <<approval, intents, client, lost>>
  BY DEF CompleteExtraction
<1> HIDE DEF r
<1> QED
  BY <1>1, <1>2, <1>3, AwaitingFits

(* The latest review of a meeting that awaits its approval. *)
LEMMA LatestFits ==
  ASSUME StoreFits, reviews # <<>>
  PROVE  Latest \in Contents /\ Valid(Latest)
<1>1. Len(reviews) \in DOMAIN reviews /\ reviews[Len(reviews)] \in Revision
  BY DEF StoreFits
<1> QED
  BY <1>1 DEF StoreFits, Latest, Revision

(* An approval, by a client whose request passed the preconditions. *)
LEMMA ApproveFits ==
  ASSUME StoreFits, ClientsFit, NEW c \in Clients, IsApproval(client[c].asks), Unchanged(c),
         client[c].at = "served", Approvable(Latest), Approve(c)
  PROVE  StoreFits' /\ approval' # Nothing /\ approval'.digest = client[c].seen
<1> DEFINE created == ProjectWriteIntents(Latest)
           target == AfterApproval(created)
<1>1. /\ meeting.status = "awaiting_approval" /\ reviews # <<>> /\ meeting.version \in Nat
      /\ Latest \in Contents /\ Latest = client[c].seen /\ OpenBlockers(Latest) = 0
  BY LatestFits DEF StoreFits, Approvable, Unchanged, Reviewed
<1>2. client[c].asks.key \in Keys
  <2>1. client[c].asks \in Commands
    BY DEF ClientsFit
  <2> QED
    BY <2>1, CommandAssumption DEF IsApproval, Edits
<1>3. /\ approval' \in Approvals /\ approval'.digest = Latest /\ approval'.seen = Latest
      /\ approval'.recap = Latest.recap
  <2>1. Latest.recap \in Texts /\ Len(reviews) \in Nat
    BY <1>1 DEF Contents, StoreFits
  <2>2. approval' = [digest |-> Latest, number |-> Len(reviews), key |-> client[c].asks.key,
                     actor |-> c, seen |-> Latest, recap |-> Latest.recap]
    BY <1>1 DEF Approve
  <2> QED
    BY <1>1, <1>2, <2>1, <2>2 DEF Approvals
<1>4. approval' # Nothing
  BY <1>3, SentinelAssumption
<1>5. /\ target \in {"filing", "completed"}
      /\ target = "filing" <=> created # <<>>
  BY DEF AfterApproval
<1>6. /\ intents' = created /\ UNCHANGED reviews
      /\ meeting' = Moved(Moved(meeting, "approved"), target)
      /\ meeting'.version <= MaxVersion
  BY DEF Approve
<1>7. /\ meeting' \in [status : MeetingStatuses, version : 0..MaxVersion, review : Nat]
      /\ meeting'.status = target /\ meeting'.review = meeting.review
  <2> HIDE DEF target
  <2>1. /\ meeting'.version = meeting.version + 1 + 1 /\ meeting'.status = target
        /\ meeting'.review = meeting.review
        /\ meeting' = [status |-> target, version |-> meeting.version + 1 + 1,
                       review |-> meeting.review]
    BY <1>6 DEF Moved, StoreFits
  <2> QED
    BY <1>1, <1>5, <1>6, <2>1, BoundAssumption DEF StoreFits, MeetingStatuses
<1> HIDE DEF created, target
<1>8. Latest' = Latest
  BY <1>6 DEF Latest
<1> QED
  BY <1>1, <1>3, <1>4, <1>5, <1>6, <1>7, <1>8 DEF StoreFits, Unreviewed, Reviewed

-----------------------------------------------------------------------------
(* The clients.                                                            *)

(* What a client was told stands while the approval does. *)
LEMMA ClientsKeep ==
  ASSUME ClientsFit, UNCHANGED <<approval, client, lost>>
  PROVE  ClientsFit'
BY DEF ClientsFit, Told

(* One client's row changes; if it was told something, that stands. *)
LEMMA ClientChanges ==
  ASSUME ClientsFit, NEW c \in Clients, NEW r \in ClientRow,
         r.at \in {"asked", "served"} => r.asks \in Commands,
         client' = [client EXCEPT ![c] = r], lost' \in 0..MaxLost,
         approval # Nothing => approval' = approval,
         r.at = "told" => approval' # Nothing /\ approval'.digest = r.seen
  PROVE  ClientsFit'
BY DEF ClientsFit, Told

(* An answer arrives or is lost.  A client that is told something hears the *)
(* content of an approval that stands.                                      *)
LEMMA AnswerFits ==
  ASSUME ClientsFit, NEW c \in Clients, client[c].at = "served",
         NEW at \in {"idle", "told"}, NEW seen \in Contents \cup {Nothing},
         Answered(c, Heard(c, at, seen)), approval # Nothing => approval' = approval,
         at = "told" => approval' # Nothing /\ approval'.digest = seen
  PROVE  ClientsFit'
<1> DEFINE quiet == [client[c] EXCEPT !.asks = Nothing, !.version = 0]
<1>1. client[c] \in ClientRow /\ 0 \in 0..MaxVersion
  BY BoundAssumption DEF ClientsFit
<1>2. CASE client' = [client EXCEPT ![c] = Heard(c, at, seen)] /\ UNCHANGED lost
  <2>1. /\ Heard(c, at, seen) \in ClientRow
        /\ Heard(c, at, seen).at = at /\ Heard(c, at, seen).seen = seen
    BY <1>1 DEF Heard, ClientRow
  <2> QED
    BY <1>2, <2>1, ClientChanges DEF ClientsFit
<1>3. CASE lost < MaxLost /\ lost' = lost + 1
           /\ client' \in {[client EXCEPT ![c] = [quiet EXCEPT !.at = "idle"]],
                            [client EXCEPT ![c] = [@ EXCEPT !.at = "asked", !.version = 0]]}
  <2>1. PICK r \in {[quiet EXCEPT !.at = "idle"],
                    [client[c] EXCEPT !.at = "asked", !.version = 0]} :
          client' = [client EXCEPT ![c] = r]
    BY <1>3 DEF ClientsFit
  <2>2. r \in ClientRow /\ r.at # "told" /\ (r.at = "asked" => r.asks \in Commands)
        /\ r.at # "served"
    BY <1>1 DEF ClientRow, ClientsFit
  <2>3. lost' \in 0..MaxLost
    BY <1>3, BoundAssumption DEF ClientsFit
  <2> QED
    BY <2>1, <2>2, <2>3, ClientChanges
<1> QED
  BY <1>2, <1>3 DEF Answered

(* A client looks, asks, or has the version read for it. *)
LEMMA RequestFits ==
  ASSUME StoreFits, ClientsFit, NEW c \in Clients,
         \/ Look(c) \/ ReadVersion(c) \/ \E command \in Commands : Ask(c, command)
  PROVE  StoreFits' /\ ClientsFit'
<1>1. UNCHANGED <<stored, lost>>
  BY DEF Look, ReadVersion, Ask
<1>2. client[c] \in ClientRow /\ lost \in 0..MaxLost
  BY DEF ClientsFit
<1>3. StoreFits'
  BY <1>1 DEF stored, StoreFits, Latest
<1>4. PICK r \in ClientRow :
        /\ client' = [client EXCEPT ![c] = r] /\ r.at # "told"
        /\ r.at \in {"asked", "served"} => r.asks \in Commands
  <2>1. CASE Look(c)
    <3>1. meeting.review \in DOMAIN reviews /\ reviews \in Seq(Revision)
      <4>1. reviews \in Seq(Revision) /\ meeting.review = Len(reviews) /\ Len(reviews) # 0
        BY <2>1 DEF Look, StoreFits
      <4> QED
        BY <4>1
    <3>2. reviews[meeting.review].content \in Contents
      <4>1. reviews[meeting.review] \in Revision
        BY <3>1
      <4> QED
        BY <4>1 DEF Revision
    <3>3. [client[c] EXCEPT !.seen = reviews[meeting.review].content] \in ClientRow
      BY <1>2, <3>2 DEF ClientRow
    <3> QED
      BY <2>1, <3>3, <1>2 DEF Look, ClientRow, ClientsFit
  <2>2. CASE ReadVersion(c)
    <3>1. [client[c] EXCEPT !.at = "served", !.version = meeting.version] \in ClientRow
      BY <1>2 DEF ClientRow, StoreFits
    <3> QED
      BY <2>2, <3>1, <1>2 DEF ReadVersion, ClientRow, ClientsFit
  <2>3. ASSUME NEW command \in Commands, Ask(c, command) 
        PROVE  \E r \in ClientRow :
                 /\ client' = [client EXCEPT ![c] = r] /\ r.at # "told"
                 /\ r.at \in {"asked", "served"} => r.asks \in Commands
    <3>1. [client[c] EXCEPT !.at = "asked", !.asks = command] \in ClientRow
      BY <1>2 DEF ClientRow
    <3> QED
      BY <2>3, <3>1, <1>2 DEF Ask, ClientRow, ClientsFit
  <2> QED
    BY <2>1, <2>2, <2>3
<1>5. approval' = approval /\ lost' = lost
  BY <1>1 DEF stored
<1> QED
  BY <1>2, <1>3, <1>4, <1>5, ClientChanges

-----------------------------------------------------------------------------
(* The requests.                                                           *)

(* An approval that is asked for: it is told again, granted or refused. *)
LEMMA ServeApprovalFits ==
  ASSUME StoreFits, ClientsFit, NEW c \in Clients, ServeApproval(c)
  PROVE  StoreFits' /\ ClientsFit'
<1>1. /\ client[c].at = "served" /\ IsApproval(client[c].asks)
      /\ client[c].seen \in Contents \cup {Nothing}
  BY DEF ServeApproval, ClientsFit, ClientRow
<1>2. CASE /\ approval # Nothing /\ approval.digest = client[c].seen
           /\ Answered(c, Heard(c, "told", client[c].seen)) /\ UNCHANGED stored
  BY <1>1, <1>2, AnswerFits DEF stored, StoreFits, Latest
<1>3. CASE /\ Unchanged(c) /\ Approvable(Latest) /\ Approve(c)
           /\ Answered(c, Heard(c, "told", client[c].seen))
  <2>1. StoreFits' /\ approval' # Nothing /\ approval'.digest = client[c].seen
    BY <1>1, <1>3, ApproveFits
  <2>2. approval = Nothing
    BY <1>3 DEF Approvable, StoreFits
  <2> QED
    BY <1>1, <1>3, <2>1, <2>2, AnswerFits
<1>4. CASE Refused(c)
  BY <1>1, <1>4, AnswerFits DEF Refused, stored, StoreFits, Latest
<1> QED
  BY <1>2, <1>3, <1>4 DEF ServeApproval

(* An edit that is asked for: it replaces what its author saw, or is refused. *)
LEMMA ServeEditFits ==
  ASSUME StoreFits, ClientsFit, NEW c \in Clients, ServeEdit(c)
  PROVE  StoreFits' /\ ClientsFit'
<1> DEFINE edit == client[c].asks
           content == Edited(Latest, edit)
           r == [content |-> content, seen |-> client[c].seen]
<1>1. /\ client[c].at = "served" /\ ~IsApproval(edit)
      /\ client[c].seen \in Contents \cup {Nothing} /\ edit \in Commands
  BY DEF ServeEdit, ClientsFit, ClientRow
<1>2. CASE Refused(c)
  BY <1>1, <1>2, AnswerFits DEF Refused, stored, StoreFits, Latest
<1>3. CASE ~Refused(c)
  <2>1. /\ meeting.status = "awaiting_approval" /\ Unchanged(c) /\ MayEdit(Latest, edit)
        /\ meeting.version < MaxVersion /\ reviews' = Append(reviews, r)
        /\ meeting' = [Moved(meeting, "awaiting_approval") EXCEPT !.review = Len(reviews) + 1]
        /\ Answered(c, Heard(c, "idle", content)) /\ UNCHANGED <<approval, intents>>
    BY <1>3 DEF ServeEdit
  <2>2. /\ reviews # <<>> /\ approval = Nothing /\ intents = <<>>
        /\ Latest \in Contents /\ Valid(Latest) /\ client[c].seen = Latest
    BY <2>1, LatestFits DEF StoreFits, Reviewed, Unchanged
  <2>3. edit \in Edits
    BY <1>1, CommandAssumption DEF IsApproval
  <2>4. content \in Contents /\ Valid(content)
    BY <2>1, <2>2, <2>3, EditsFit
  <2>5. r \in Revision /\ r.seen = Latest /\ r.content = content
    BY <2>2, <2>4 DEF Revision
  <2> HIDE DEF r, content
  <2>6. StoreFits'
    BY <2>1, <2>2, <2>4, <2>5, AwaitingFits
  <2> QED
    BY <1>1, <2>1, <2>4, <2>6, AnswerFits
<1> QED
  BY <1>2, <1>3

(* Every step keeps the store and the clients. *)
LEMMA StepFits == StoreFits /\ ClientsFit /\ [Next]_vars => StoreFits' /\ ClientsFit'
<1> SUFFICES ASSUME StoreFits, ClientsFit, [Next]_vars PROVE StoreFits' /\ ClientsFit'
  OBVIOUS
<1>1. CASE StartStage \/ FailStage \/ CompleteTranscription \/ Cancel
  <2>1. PICK target \in Unreviewed \cup {"cancelled"} : ChangeStatus(target)
    BY <1>1 DEF StartStage, FailStage, CompleteTranscription, Cancel, Unreviewed
  <2> QED
    BY <2>1, StatusFits, ClientsKeep
<1>2. ASSUME NEW draft \in Drafts, CompleteExtraction(draft)
      PROVE  StoreFits' /\ ClientsFit'
  BY <1>2, ExtractionFits, ClientsKeep
<1>3. ASSUME NEW limit \in Limits, ReadPage(limit) PROVE StoreFits' /\ ClientsFit'
  BY <1>3, ClientsKeep DEF ReadPage, stored, StoreFits, Latest
<1>4. CASE UNCHANGED vars
  BY <1>4, ClientsKeep DEF vars, stored, StoreFits, Latest
<1> QED
  BY <1>1, <1>2, <1>3, <1>4, RequestFits, ServeApprovalFits, ServeEditFits DEF Next

(* What holds when a meeting is ingested. *)
LEMMA InitFits == Init => StoreFits /\ ClientsFit
<1> SUFFICES ASSUME Init PROVE StoreFits /\ ClientsFit
  OBVIOUS
<1>1. StoreFits
  BY BoundAssumption DEF Init, StoreFits, MeetingStatuses, Reviewed
<1>2. ClientsFit
  <2>1. Idle \in ClientRow /\ Idle.at = "idle"
    BY BoundAssumption DEF Idle, ClientRow
  <2> QED
    BY <2>1, BoundAssumption DEF Init, ClientsFit, Told
<1> QED
  BY <1>1, <1>2

(* People get what they saw, however many edit, approve, cancel and lose   *)
(* answers at once: ApprovedAsSeen.                                        *)
THEOREM ApprovalsAreOfWhatWasSeen == Spec => []ApprovedAsSeen
BY InitFits, StepFits, Parts, PTL DEF Spec

(* Every variable keeps its type, and every revision is valid: TypeOK. *)
THEOREM TypeCorrect == Spec => []TypeOK
BY InitFits, StepFits, Parts, PTL DEF Spec

-----------------------------------------------------------------------------
(* Counting.                                                               *)

(* What holds of 0, and of a number's successor when it holds of the number, *)
(* holds of every number: otherwise it fails of a smallest one.              *)
LEMMA Counting ==
  ASSUME NEW Good, 0 \in Good, \A n \in Nat : n \in Good => n + 1 \in Good
  PROVE  Nat \subseteq Good
<1> DEFINE Bad == Nat \ Good
<1> SUFFICES ASSUME Bad # {} PROVE FALSE
  OBVIOUS
<1>1. PICK n \in Bad : \A m \in Bad : ~ (<<m, n>> \in OpToRel(<, Nat))
  <2>1. Bad \subseteq Nat
    OBVIOUS
  <2> HIDE DEF Bad
  <2> QED
    BY <2>1, WFMin, NatLessThanWellFounded
<1>2. n \in Nat /\ n # 0 /\ n - 1 \in Nat /\ n - 1 < n /\ (n - 1) + 1 = n
  OBVIOUS
<1>3. <<n - 1, n>> \in OpToRel(<, Nat)
  BY <1>2 DEF OpToRel
<1>4. n - 1 \in Good
  BY <1>1, <1>2, <1>3
<1> QED
  BY <1>2, <1>4

-----------------------------------------------------------------------------
(* What a list of events says of the meeting, event after event.           *)

\* What a list of events says of a meeting that was ingested.
Account(s) == FoldLeft(Replay, Newborn, s)

\* f gives what is said by the events of s at a set of places up to n.
Tells(s, n, f) ==
  f = [t \in SUBSET (1..n) |-> IF t = {} THEN Newborn ELSE Replay(f[t \ {Max(t)}], s[Max(t)])]

(* What a list says, by the function that tells it. *)
LEMMA AccountIs ==
  ASSUME NEW s, NEW n \in Nat, DOMAIN s = 1..n
  PROVE  Account(s) = (CHOOSE f : Tells(s, n, f))[1..n]
<1> DEFINE told(D) ==
      (CHOOSE f : f = [t \in SUBSET D |-> IF t = {} THEN Newborn
                                          ELSE Replay(f[t \ {Max(t)}], s[Max(t)])])[D]
<1>1. Account(s) = told(DOMAIN s)
  BY DEF Account, FoldLeft, MapThenFoldSet
<1>2. told(1..n) = (CHOOSE f : Tells(s, n, f))[1..n]
  BY DEF Tells
<1> HIDE DEF told
<1> QED
  BY <1>1, <1>2

(* The last of a set of places. *)
LEMMA LastPlace ==
  ASSUME NEW n \in Nat, NEW t \in SUBSET (1..(n + 1))
  PROVE  /\ n + 1 \in t => Max(t) = n + 1 /\ t \ {Max(t)} \in SUBSET (1..n)
         /\ n + 1 \notin t => t \in SUBSET (1..n)
<1>1. n + 1 \notin t => t \in SUBSET (1..n)
  OBVIOUS
<1>2. ASSUME n + 1 \in t PROVE Max(t) = n + 1 /\ t \ {Max(t)} \in SUBSET (1..n)
  <2>1. \A y \in t : y \in Int /\ n + 1 >= y
    OBVIOUS
  <2>2. /\ Max(t) \in t /\ \A y \in t : Max(t) >= y
    BY <1>2, <2>1 DEF Max
  <2>3. Max(t) >= n + 1 /\ n + 1 >= Max(t) /\ Max(t) \in Int
    BY <1>2, <2>1, <2>2
  <2>4. Max(t) = n + 1
    BY <2>3
  <2> QED
    BY <2>4
<1> QED
  BY <1>1, <1>2

(* What such a function gives for no place and for others. *)
LEMMA TellsParts ==
  ASSUME NEW s, NEW n \in Nat, NEW f, Tells(s, n, f)
  PROVE  /\ f[{}] = Newborn
         /\ \A t \in SUBSET (1..n) : t # {} => f[t] = Replay(f[t \ {Max(t)}], s[Max(t)])
BY DEF Tells

(* There is such a function, whatever the list. *)
LEMMA TellsExists ==
  ASSUME NEW s
  PROVE  \A n \in Nat : \E f : Tells(s, n, f)
<1> DEFINE Good == {n \in Nat : \E f : Tells(s, n, f)}
<1>1. 0 \in Good
  <2>1. SUBSET (1..0) = {{}}
    OBVIOUS
  <2>2. Tells(s, 0, [t \in {{}} |-> Newborn])
    BY <2>1 DEF Tells
  <2> QED
    BY <2>2
<1>2. ASSUME NEW n \in Nat, n \in Good
      PROVE  n + 1 \in Good
  <2>1. PICK f : Tells(s, n, f)
    BY <1>2
  <2> DEFINE g == [t \in SUBSET (1..(n + 1)) |->
                     IF n + 1 \in t THEN Replay(f[t \ {n + 1}], s[n + 1]) ELSE f[t]]
  <2>2. \A t \in SUBSET (1..n) : t \in SUBSET (1..(n + 1)) /\ n + 1 \notin t
    OBVIOUS
  <2>3. \A t \in SUBSET (1..n) : g[t] = f[t]
    BY <2>2
  <2>4. g[{}] = Newborn
    <3>1. {} \in SUBSET (1..n)
      OBVIOUS
    <3> HIDE DEF g
    <3> QED
      BY <2>1, <2>3, <3>1, TellsParts
  <2>5. ASSUME NEW t \in SUBSET (1..(n + 1)), t # {}
        PROVE  g[t] = Replay(g[t \ {Max(t)}], s[Max(t)])
    <3>1. CASE n + 1 \in t
      <4>1. Max(t) = n + 1 /\ t \ {Max(t)} \in SUBSET (1..n)
        BY <3>1, LastPlace
      <4>2. g[t] = Replay(f[t \ {n + 1}], s[n + 1])
        BY <3>1
      <4> HIDE DEF g
      <4> QED
        BY <2>3, <4>1, <4>2
    <3>2. CASE n + 1 \notin t
      <4>1. t \in SUBSET (1..n) /\ t \ {Max(t)} \in SUBSET (1..n)
        BY <3>2, LastPlace
      <4>2. f[t] = Replay(f[t \ {Max(t)}], s[Max(t)])
        BY <2>1, <2>5, <4>1, TellsParts
      <4> HIDE DEF g
      <4> QED
        BY <2>3, <4>1, <4>2
    <3> QED
      BY <3>1, <3>2
  <2>6. g = [t \in SUBSET (1..(n + 1)) |-> g[t]]
    OBVIOUS
  <2> HIDE DEF g
  <2>7. Tells(s, n + 1, g)
    BY <2>4, <2>5, <2>6 DEF Tells
  <2> QED
    BY <2>7
<1>3. Nat \subseteq Good
  <2> HIDE DEF Good
  <2> QED
    BY <1>1, <1>2, Counting
<1> QED
  BY <1>3

(* Lists that begin alike say the same at the beginning. *)
LEMMA TellsAlike ==
  ASSUME NEW s, NEW r, NEW n \in Nat, NEW m \in Nat, n <= m, NEW f, NEW g,
         Tells(s, n, f), Tells(r, m, g), \A i \in 1..n : s[i] = r[i]
  PROVE  f[1..n] = g[1..n]
<1> DEFINE Good == {k \in Nat : k <= n => \A t \in SUBSET (1..k) : f[t] = g[t]}
<1>1. 0 \in Good
  <2>1. \A t \in SUBSET (1..0) : t = {}
    OBVIOUS
  <2> QED
    BY <2>1, TellsParts
<1>2. ASSUME NEW k \in Nat, k \in Good
      PROVE  k + 1 \in Good
  <2> SUFFICES ASSUME k + 1 <= n, NEW t \in SUBSET (1..(k + 1)) PROVE f[t] = g[t]
    OBVIOUS
  <2>1. \A x \in SUBSET (1..k) : f[x] = g[x]
    BY <1>2
  <2>2. CASE k + 1 \in t
    <3>1. Max(t) = k + 1 /\ t \ {Max(t)} \in SUBSET (1..k)
      BY <2>2, LastPlace
    <3>2. t \in SUBSET (1..n) /\ t \in SUBSET (1..m) /\ t # {} /\ k + 1 \in 1..n
      BY <2>2
    <3>3. f[t] = Replay(f[t \ {Max(t)}], s[Max(t)])
      BY <3>2, TellsParts
    <3>4. g[t] = Replay(g[t \ {Max(t)}], r[Max(t)])
      BY <3>2, TellsParts
    <3> QED
      BY <2>1, <3>1, <3>2, <3>3, <3>4
  <2>3. CASE k + 1 \notin t
    BY <2>1, <2>3, LastPlace
  <2> QED
    BY <2>2, <2>3
<1>3. n \in Good
  <2> HIDE DEF Good
  <2> QED
    BY <1>1, <1>2, Counting
<1> QED
  BY <1>3

(* No events say what an ingested meeting is. *)
LEMMA AccountEmpty == Account(<<>>) = Newborn
<1>1. DOMAIN <<>> = 1..0 /\ 1..0 = {}
  OBVIOUS
<1>2. Tells(<<>>, 0, CHOOSE f : Tells(<<>>, 0, f))
  BY TellsExists
<1>3. (CHOOSE f : Tells(<<>>, 0, f))[{}] = Newborn
  BY <1>2, TellsParts
<1> QED
  BY <1>1, <1>3, AccountIs

(* One more event changes what is said as Replay tells. *)
LEMMA AccountMore ==
  ASSUME NEW S, NEW s \in Seq(S), NEW e \in S
  PROVE  Account(Append(s, e)) = Replay(Account(s), e)
<1> DEFINE n == Len(s)
           r == Append(s, e)
           f == CHOOSE f : Tells(s, n, f)
           g == CHOOSE g : Tells(r, n + 1, g)
<1>1. n \in Nat /\ n + 1 \in Nat /\ n <= n + 1 /\ n + 1 \in 1..(n + 1)
  OBVIOUS
<1>2. /\ DOMAIN s = 1..n /\ DOMAIN r = 1..(n + 1)
      /\ r[n + 1] = e /\ \A i \in 1..n : s[i] = r[i]
  OBVIOUS
<1> HIDE DEF n, r
<1>3. Tells(s, n, f) /\ Tells(r, n + 1, g)
  BY <1>1, TellsExists
<1>4. Account(s) = f[1..n]
  BY <1>1, <1>2, AccountIs
<1>5. Account(r) = g[1..(n + 1)]
  BY <1>1, <1>2, AccountIs
<1> HIDE DEF f, g
<1>6. f[1..n] = g[1..n]
  BY <1>1, <1>2, <1>3, TellsAlike
<1>7. g[1..(n + 1)] = Replay(g[1..n], e)
  <2>1. 1..(n + 1) # {} /\ 1..(n + 1) \in SUBSET (1..(n + 1))
    BY <1>1
  <2>2. Max(1..(n + 1)) = n + 1
    BY <1>1, <2>1, LastPlace
  <2>3. g[1..(n + 1)] = Replay(g[(1..(n + 1)) \ {Max(1..(n + 1))}], r[Max(1..(n + 1))])
    BY <1>1, <1>3, <2>1, TellsParts
  <2>4. (1..(n + 1)) \ {n + 1} = 1..n
    BY <1>1
  <2> QED
    BY <1>2, <2>2, <2>3, <2>4
<1> QED
  BY <1>4, <1>5, <1>6, <1>7 DEF r

-----------------------------------------------------------------------------
(* One write intent for each enabled half.                                 *)

\* The halves of the delivery directives.
Halves == Actions \X Kinds

\* f joins the first lists of seqs, up to n of them.
Joins(seqs, n, f) ==
  f = [i \in 1..n |-> IF i = 1 THEN seqs[i] ELSE f[i - 1] \o seqs[i]]

(* What such a function gives for one list and for more. *)
LEMMA JoinsParts ==
  ASSUME NEW seqs, NEW n \in Nat, NEW f, Joins(seqs, n, f)
  PROVE  /\ 1 <= n => f[1] = seqs[1]
         /\ \A i \in 1..n : i # 1 => f[i] = f[i - 1] \o seqs[i]
<1> DEFINE joined(i) == IF i = 1 THEN seqs[i] ELSE f[i - 1] \o seqs[i]
<1>1. f = [i \in 1..n |-> joined(i)]
  BY DEF Joins
<1>2. \A i : (i = 1 => joined(i) = seqs[i]) /\ (i # 1 => joined(i) = f[i - 1] \o seqs[i])
  OBVIOUS
<1> HIDE DEF joined
<1>3. \A i \in 1..n : f[i] = joined(i)
  BY <1>1
<1>4. ASSUME 1 <= n PROVE f[1] = seqs[1]
  <2>1. 1 \in 1..n
    BY <1>4
  <2>2. f[1] = joined(1)
    BY <1>3, <2>1
  <2> QED
    BY <1>2, <2>2
<1>5. ASSUME NEW i \in 1..n, i # 1 PROVE f[i] = f[i - 1] \o seqs[i]
  <2>1. f[i] = joined(i)
    BY <1>3
  <2> QED
    BY <1>2, <1>5, <2>1
<1> QED
  BY <1>4, <1>5

(* There is such a function, whatever the lists. *)
LEMMA JoinsExists ==
  ASSUME NEW seqs
  PROVE  \A n \in Nat : \E f : Joins(seqs, n, f)
<1> DEFINE Good == {n \in Nat : \E f : Joins(seqs, n, f)}
<1>1. 0 \in Good
  <2>1. Joins(seqs, 0, [i \in 1..0 |-> <<>>])
    BY DEF Joins
  <2> QED
    BY <2>1
<1>2. ASSUME NEW n \in Nat, n \in Good
      PROVE  n + 1 \in Good
  <2>1. PICK f : Joins(seqs, n, f)
    BY <1>2
  <2>6. /\ 1 <= n => f[1] = seqs[1]
        /\ \A i \in 1..n : i # 1 => f[i] = f[i - 1] \o seqs[i]
    BY <2>1, JoinsParts
  <2> DEFINE g == [i \in 1..(n + 1) |-> IF i = 1 THEN seqs[i]
                                        ELSE IF i = n + 1 THEN f[n] \o seqs[i] ELSE f[i]]
  <2>2. ASSUME NEW i \in 1..n
        PROVE  g[i] = f[i]
    <3>1. g[i] = IF i = 1 THEN seqs[i] ELSE f[i]
      OBVIOUS
    <3>2. i = 1 => f[i] = seqs[i]
      <4> HIDE DEF g
      <4>1. 1 <= n
        OBVIOUS
      <4> QED
        BY <2>6, <4>1
    <3> HIDE DEF g
    <3> QED
      BY <3>1, <3>2
  <2>3. ASSUME NEW i \in 1..(n + 1)
        PROVE  g[i] = IF i = 1 THEN seqs[i] ELSE g[i - 1] \o seqs[i]
    <3>1. CASE i = 1
      BY <3>1
    <3>2. CASE i # 1 /\ i = n + 1
      <4>0. n \in 1..n /\ i - 1 = n
        BY <3>2
      <4>1. g[n] = f[n]
        <5> HIDE DEF g
        <5> QED
          BY <2>2, <4>0
      <4>2. g[i] = f[n] \o seqs[i]
        BY <3>2
      <4> HIDE DEF g
      <4> QED
        BY <3>2, <4>0, <4>1, <4>2
    <3>3. CASE i # 1 /\ i # n + 1
      <4>1. i \in 1..n /\ i - 1 \in 1..n
        BY <3>3
      <4>2. f[i] = f[i - 1] \o seqs[i]
        BY <2>6, <3>3, <4>1
      <4> HIDE DEF g
      <4> QED
        BY <2>2, <3>3, <4>1, <4>2
    <3> QED
      BY <3>1, <3>2, <3>3
  <2>4. g = [i \in 1..(n + 1) |-> g[i]]
    OBVIOUS
  <2> HIDE DEF g
  <2>5. Joins(seqs, n + 1, g)
    BY <2>3, <2>4 DEF Joins
  <2> QED
    BY <2>5
<1>3. Nat \subseteq Good
  <2> HIDE DEF Good
  <2> QED
    BY <1>1, <1>2, Counting
<1> QED
  BY <1>3

(* The lists joined hold what the lists hold. *)
LEMMA Flattened ==
  ASSUME NEW S, NEW seqs \in Seq(Seq(S))
  PROVE  /\ FlattenSeq(seqs) \in Seq(S)
         /\ \A h : h \in Range(FlattenSeq(seqs)) <=> \E i \in 1..Len(seqs) : h \in Range(seqs[i])
<1> DEFINE n == Len(seqs)
           f == CHOOSE f : Joins(seqs, n, f)
<1>1. n \in Nat /\ \A i \in 1..n : seqs[i] \in Seq(S)
  OBVIOUS
<1>2. CASE n = 0
  <2>1. FlattenSeq(seqs) = <<>>
    BY <1>2 DEF FlattenSeq
  <2>2. Range(<<>>) = {} /\ <<>> \in Seq(S)
    BY DEF Range
  <2> QED
    BY <1>2, <2>1, <2>2
<1>3. CASE n # 0
  <2>1. FlattenSeq(seqs) = f[n]
    BY <1>3 DEF FlattenSeq, Joins
  <2>2. Joins(seqs, n, f)
    BY <1>1, JoinsExists
  <2>6. n \in Nat
    BY <1>1
  <2>7. \A i \in 1..n : seqs[i] \in Seq(S)
    BY <1>1
  <2> HIDE DEF f, n
  <2>10. /\ 1 <= n => f[1] = seqs[1]
         /\ \A i \in 1..n : i # 1 => f[i] = f[i - 1] \o seqs[i]
    BY <2>2, <2>6, JoinsParts
  <2> DEFINE Holds(i) ==
        /\ f[i] \in Seq(S)
        /\ \A h : h \in Range(f[i]) <=> \E j \in 1..i : h \in Range(seqs[j])
             Good == {k \in Nat : k \in 1..n => Holds(k)}
  <2>3. 0 \in Good
    OBVIOUS
  <2>4. ASSUME NEW k \in Nat, k \in Good
        PROVE  k + 1 \in Good
    <3> SUFFICES ASSUME k + 1 \in 1..n PROVE Holds(k + 1)
      OBVIOUS
    <3>1. CASE k = 0
      <4>1. k + 1 = 1 /\ 1..1 = {1} /\ 1 <= n /\ 1 \in 1..n
        BY <1>1, <3>1 DEF n
      <4>2. f[1] = seqs[1]
        BY <2>10, <4>1
      <4>3. f[1] \in Seq(S)
        BY <2>7, <4>1, <4>2
      <4> QED
        BY <4>1, <4>2, <4>3
    <3>2. CASE k # 0
      <4>1. k \in 1..n /\ k + 1 # 1 /\ (k + 1) - 1 = k
        BY <1>1, <3>2
      <4>2. f[k + 1] = f[k] \o seqs[k + 1]
        <5>1. f[k + 1] = f[(k + 1) - 1] \o seqs[k + 1]
          BY <2>10, <4>1
        <5> QED
          BY <4>1, <5>1
      <4>3. Holds(k)
        BY <2>4, <4>1
      <4>4. seqs[k + 1] \in Seq(S)
        BY <2>7
      <4>5. Range(f[k] \o seqs[k + 1]) = Range(f[k]) \cup Range(seqs[k + 1])
        BY <4>3, <4>4, RangeConcatenation
      <4>6. 1..(k + 1) = (1..k) \cup {k + 1}
        OBVIOUS
      <4>7. f[k + 1] \in Seq(S)
        BY <4>2, <4>3, <4>4, ConcatProperties
      <4>8. ASSUME NEW h
            PROVE  h \in Range(f[k + 1]) <=> \E j \in 1..(k + 1) : h \in Range(seqs[j])
        <5>1. h \in Range(f[k + 1]) <=> h \in Range(f[k]) \/ h \in Range(seqs[k + 1])
          BY <4>2, <4>5
        <5>2. h \in Range(f[k]) <=> \E j \in 1..k : h \in Range(seqs[j])
          BY <4>3
        <5> QED
          BY <4>6, <5>1, <5>2
      <4> QED
        BY <4>7, <4>8
    <3> QED
      BY <3>1, <3>2
  <2>5. Nat \subseteq Good
    <3> HIDE DEF Good
    <3> QED
      BY <2>3, <2>4, Counting
  <2>8. n \in 1..n
    BY <1>3, <2>6
  <2>9. Holds(n)
    BY <2>5, <2>6, <2>8
  <2> QED
    BY <2>1, <2>9 DEF n
<1> QED
  BY <1>2, <1>3

(* The actions in some order, each of them somewhere. *)
LEMMA ActionsListed ==
  LET actions == SetToSeq(Actions) IN
  /\ actions \in Seq(Actions)
  /\ \A a \in Actions : \E n \in 1..Len(actions) : actions[n] = a
<1> DEFINE k == Cardinality(Actions)
           actions == SetToSeq(Actions)
<1>1. k \in Nat /\ ExistsBijection(1..k, Actions)
  BY ActionsAssumption, FS_CardinalityType
<1>2. \E f \in [1..k -> Actions] : IsInjective(f)
  BY <1>1 DEF ExistsBijection, Bijection, Injection
<1>3. actions \in [1..k -> Actions] /\ IsInjective(actions)
  BY <1>2 DEF SetToSeq
<1> HIDE DEF actions
<1>4. actions \in Injection(1..k, Actions)
  BY <1>3 DEF Injection
<1>5. Cardinality(1..k) = k
  BY <1>1, FS_Interval
<1> HIDE DEF k
<1>6. actions \in Surjection(1..k, Actions)
  BY <1>4, <1>5, ActionsAssumption, FS_Injection DEF k
<1>7. actions \in Seq(Actions) /\ Len(actions) = k
  BY <1>1, <1>3
<1> QED
  BY <1>6, <1>7 DEF Surjection, actions

(* The enabled halves of an action, those of the content that are its own. *)
LEMMA HalvesOfAction ==
  ASSUME NEW content \in Contents, NEW a \in Actions
  PROVE  /\ EnabledHalves(content, a) \in Seq(Halves)
         /\ \A h : h \in Range(EnabledHalves(content, a)) <=> h \in content.deliver /\ h[1] = a
<1> DEFINE half(kind) == IF <<a, kind>> \in content.deliver THEN <<<<a, kind>>>> ELSE <<>>
<1>1. content.deliver \subseteq Halves
  BY DEF Contents, Halves
<1>2. ASSUME NEW kind \in Kinds
      PROVE  /\ half(kind) \in Seq(Halves)
             /\ \A h : h \in Range(half(kind)) <=> h = <<a, kind>> /\ h \in content.deliver
  <2>1. CASE <<a, kind>> \in content.deliver
    <3>1. half(kind) = << <<a, kind>> >>
      BY <2>1
    <3>2. <<a, kind>> \in Halves
      BY DEF Halves
    <3> DEFINE h0 == <<a, kind>>
    <3>3. half(kind) = <<h0>> /\ h0 \in Halves /\ h0 \in content.deliver
      BY <2>1, <3>1, <3>2
    <3> HIDE DEF h0, half
    <3>4. Range(<<h0>>) = {h0} /\ <<h0>> \in Seq(Halves)
      BY <3>3 DEF Range
    <3>5. \A h : h \in Range(half(kind)) <=> h = h0 /\ h \in content.deliver
      BY <3>3, <3>4
    <3> QED
      BY <3>3, <3>4, <3>5 DEF h0
  <2>2. CASE <<a, kind>> \notin content.deliver
    <3>1. half(kind) = <<>>
      BY <2>2
    <3>2. Range(<<>>) = {} /\ <<>> \in Seq(Halves)
      BY DEF Range
    <3> HIDE DEF half
    <3> QED
      BY <2>2, <3>1, <3>2
  <2> QED
    BY <2>1, <2>2
<1>3. EnabledHalves(content, a) = half("task") \o half("calendar")
  BY DEF EnabledHalves
<1> HIDE DEF half
<1>4. /\ half("task") \in Seq(Halves) /\ half("calendar") \in Seq(Halves)
      /\ \A h : h \in Range(half("task")) <=> h = <<a, "task">> /\ h \in content.deliver
      /\ \A h : h \in Range(half("calendar")) <=> h = <<a, "calendar">> /\ h \in content.deliver
  BY <1>2 DEF Kinds
<1>5. Range(half("task") \o half("calendar")) = Range(half("task")) \cup Range(half("calendar"))
  BY <1>4, RangeConcatenation
<1>6. \A h \in content.deliver : h[1] = a <=> h = <<a, "task">> \/ h = <<a, "calendar">>
  BY <1>1 DEF Halves, Kinds
<1> QED
  BY <1>3, <1>4, <1>5, <1>6

(* The intents of an approval are the enabled halves of its content. *)
LEMMA IntentsAreEnabledHalves ==
  ASSUME NEW content \in Contents
  PROVE  /\ ProjectWriteIntents(content) \in Seq(Halves)
         /\ Range(ProjectWriteIntents(content)) = content.deliver
<1> DEFINE actions == SetToSeq(Actions)
           parts == [n \in DOMAIN actions |-> EnabledHalves(content, actions[n])]
<1>1. /\ actions \in Seq(Actions)
      /\ \A a \in Actions : \E n \in 1..Len(actions) : actions[n] = a
  BY ActionsListed
<1>2. ProjectWriteIntents(content) = FlattenSeq(parts)
  BY DEF ProjectWriteIntents
<1> HIDE DEF actions
<1>3. \A n \in 1..Len(actions) : actions[n] \in Actions
  BY <1>1
<1>4. DOMAIN actions = 1..Len(actions) /\ Len(actions) \in Nat
  BY <1>1
<1>5. \A n \in 1..Len(actions) : parts[n] = EnabledHalves(content, actions[n])
  BY <1>4
<1>6. \A n \in 1..Len(actions) : parts[n] \in Seq(Halves)
  BY <1>3, <1>5, HalvesOfAction
<1>7. parts \in Seq(Seq(Halves)) /\ Len(parts) = Len(actions)
  <2>1. parts = [n \in 1..Len(actions) |-> parts[n]]
    BY <1>4
  <2> HIDE DEF parts
  <2>2. parts \in [1..Len(actions) -> Seq(Halves)]
    BY <1>6, <2>1
  <2> QED
    BY <1>4, <2>2
<1> HIDE DEF parts
<1>8. /\ FlattenSeq(parts) \in Seq(Halves)
      /\ \A h : h \in Range(FlattenSeq(parts)) <=> \E n \in 1..Len(parts) : h \in Range(parts[n])
  BY <1>7, Flattened
<1>9. ASSUME NEW h
      PROVE  h \in Range(FlattenSeq(parts)) <=> h \in content.deliver
  <2>1. h \in Range(FlattenSeq(parts)) <=> \E n \in 1..Len(actions) : h \in Range(parts[n])
    BY <1>7, <1>8
  <2>2. \A n \in 1..Len(actions) :
          h \in Range(parts[n]) <=> h \in content.deliver /\ h[1] = actions[n]
    BY <1>3, <1>5, HalvesOfAction
  <2>3. h \in content.deliver => h[1] \in Actions
    BY DEF Contents
  <2> QED
    BY <1>1, <2>1, <2>2, <2>3
<1> QED
  BY <1>2, <1>8, <1>9

-----------------------------------------------------------------------------
(* What the events of a meeting say of it.                                 *)

\* What may be known of a meeting.
Known(status, version, number, digest, approved, delivered, awaited) ==
  [status |-> status, version |-> version, number |-> number, digest |-> digest,
   approved |-> approved, intents |-> delivered, awaited |-> awaited]

(* A transition from the known status, in the next version, unless it files or *)
(* completes a meeting some of whose deliveries have not been recorded.        *)
LEMMA TransitionSays ==
  ASSUME NEW m \in [status : MeetingStatuses, version : Nat, review : Nat], NEW target,
         NEW number, NEW digest, NEW approved, NEW delivered
  PROVE  Replay(Known(m.status, m.version, number, digest, approved, delivered, 0),
                Transition(m, Moved(m, target)))
           = Known(target, m.version + 1, number, digest, approved, delivered, 0)
BY DEF Replay, Known, Transition, Moved

(* The next revision of a meeting that is not approved. *)
LEMMA RevisedSays ==
  ASSUME NEW status, NEW version, NEW number, NEW digest, NEW delivered,
         NEW content, NEW kind
  PROVE  Replay(Known(status, version, number, digest, Nothing, delivered, 0),
                Revised(number + 1, content, kind))
           = Known(status, version, number + 1, content, Nothing, delivered, 0)
BY DEF Replay, Known, Revised

(* The approval of the known revision, with the deliveries to come. *)
LEMMA ApprovedSays ==
  ASSUME NEW version, NEW number, NEW digest, NEW delivered, NEW created
  PROVE  Replay(Known("approved", version, number, digest, Nothing, delivered, 0),
                Approved(number, digest, created))
           = Known("approved", version, number, digest, digest, delivered, Len(created))
BY DEF Replay, Known, Approved

(* A delivery while some are to come. *)
LEMMA CreatedSays ==
  ASSUME NEW status, NEW version, NEW number, NEW digest, NEW approved, NEW delivered,
         NEW awaited, awaited > 0, NEW intent
  PROVE  Replay(Known(status, version, number, digest, approved, delivered, awaited),
                Created(intent))
           = Known(status, version, number, digest, approved, delivered \cup {intent},
                   awaited - 1)
BY DEF Replay, Known, Created

(* A handoff says nothing of the meeting. *)
LEMMA HandoffSays == ASSUME NEW known, NEW role PROVE Replay(known, Handoff(role)) = known
BY DEF Replay, Handoff

\* The events after the first, which says that the meeting was ingested, say that
\* it is known.
Says(l, known) ==
  /\ \E S : l \in Seq(S)
  /\ l # <<>> /\ Account(Tail(l)) = known

(* A list with one more event. *)
LEMMA SaysMore ==
  ASSUME NEW l, NEW known, Says(l, known), NEW e
  PROVE  Says(Append(l, e), Replay(known, e))
<1>1. PICK S : l \in Seq(S)
  BY DEF Says
<1> DEFINE T == S \cup {e}
<1>2. l \in Seq(T) /\ e \in T
  <2>1. S \subseteq T
    OBVIOUS
  <2> QED
    BY <1>1, <2>1, SeqMonotonic
<1> HIDE DEF T
<1>3. l # <<>> /\ Account(Tail(l)) = known
  BY DEF Says
<1>4. Append(l, e) \in Seq(T) /\ Append(l, e) # <<>>
  BY <1>2, AppendProperties
<1>5. Tail(Append(l, e)) = Append(Tail(l), e) /\ Tail(l) \in Seq(T)
  BY <1>2, <1>3, HeadTailAppend, HeadTailProperties
<1>6. Account(Append(Tail(l), e)) = Replay(Account(Tail(l)), e)
  BY <1>2, <1>5, AccountMore
<1> QED
  BY <1>3, <1>4, <1>5, <1>6 DEF Says

\* l goes on with events.
Continues(longer, l) == \E S : \E events \in Seq(S) : longer = l \o events

(* The same, with the event as a list of its own. *)
LEMMA OneMore ==
  ASSUME NEW l, NEW known, Says(l, known), NEW a
  PROVE  /\ l \o <<a>> = Append(l, a)
         /\ Says(l \o <<a>>, Replay(known, a))
         /\ Continues(l \o <<a>>, l)
<1>1. PICK S : l \in Seq(S)
  BY DEF Says
<1> DEFINE T == S \cup {a}
<1>2. l \in Seq(T) /\ a \in T
  <2>1. S \subseteq T
    OBVIOUS
  <2> QED
    BY <1>1, <2>1, SeqMonotonic
<1> HIDE DEF T
<1>3. l \o <<a>> = Append(l, a)
  BY <1>2, AppendIsConcat
<1>4. <<a>> \in Seq(T)
  BY <1>2
<1> QED
  BY <1>3, <1>4, SaysMore DEF Continues

(* Lists of events one after the other. *)
LEMMA ContinuesOn ==
  ASSUME NEW l, NEW S, l \in Seq(S), NEW T, NEW a \in Seq(T), NEW U, NEW b \in Seq(U)
  PROVE  /\ (l \o a) \o b = l \o (a \o b)
         /\ a \o b \in Seq(T \cup U)
         /\ Continues(l \o (a \o b), l)
<1> DEFINE V == S \cup T \cup U
<1>1. l \in Seq(V) /\ a \in Seq(V) /\ b \in Seq(V)
  <2>1. S \subseteq V /\ T \subseteq V /\ U \subseteq V
    OBVIOUS
  <2> HIDE DEF V
  <2> QED
    BY <2>1, SeqMonotonic
<1>2. a \o b \in Seq(T \cup U)
  <2>1. a \in Seq(T \cup U) /\ b \in Seq(T \cup U)
    BY SeqMonotonic
  <2> QED
    BY <2>1, ConcatProperties
<1> HIDE DEF V
<1>3. (l \o a) \o b = l \o (a \o b)
  BY <1>1, ConcatAssociative
<1> QED
  BY <1>2, <1>3 DEF Continues

(* The events of the deliveries, one after the other. *)
LEMMA DeliveriesSay ==
  ASSUME NEW l, NEW status, NEW version, NEW number, NEW digest, NEW approved,
         NEW created \in Seq(Halves),
         Says(l, Known(status, version, number, digest, approved, {}, Len(created)))
  PROVE  Says(l \o [n \in DOMAIN created |-> Created(created[n])],
              Known(status, version, number, digest, approved, Range(created), 0))
<1> DEFINE listed(k) == [n \in 1..k |-> Created(created[n])]
           among(k) == {created[n] : n \in 1..k}
           known(k) == Known(status, version, number, digest, approved, among(k),
                             Len(created) - k)
           events == {Created(created[n]) : n \in 1..Len(created)}
           Good == {k \in Nat : k <= Len(created) => Says(l \o listed(k), known(k))}
<1>1. Len(created) \in Nat /\ DOMAIN created = 1..Len(created)
  OBVIOUS
<1>2. PICK S : l \in Seq(S)
  BY DEF Says
<1>3. \A k \in Nat : k <= Len(created) => listed(k) \in Seq(events)
  BY <1>1
<1>4. 0 \in Good
  <2>1. listed(0) = <<>> /\ among(0) = {} /\ Len(created) - 0 = Len(created)
    BY <1>1
  <2>2. known(0) = Known(status, version, number, digest, approved, {}, Len(created))
    BY <2>1
  <2>3. l \o listed(0) = l
    BY <1>2, <2>1, ConcatEmptySeq
  <2> HIDE DEF listed, known
  <2> QED
    BY <2>2, <2>3
<1>5. ASSUME NEW k \in Nat, k \in Good
      PROVE  k + 1 \in Good
  <2> SUFFICES ASSUME k + 1 <= Len(created) PROVE Says(l \o listed(k + 1), known(k + 1))
    OBVIOUS
  <2> DEFINE e == Created(created[k + 1])
  <2>1. Says(l \o listed(k), known(k))
    BY <1>1, <1>5
  <2>2. listed(k + 1) = listed(k) \o <<e>>
    OBVIOUS
  <2>3. listed(k) \in Seq(events)
    <3> HIDE DEF listed, events
    <3> QED
      BY <1>1, <1>3
  <2>4. Len(created) - k > 0 /\ Len(created) - (k + 1) = (Len(created) - k) - 1
    BY <1>1
  <2>5. among(k + 1) = among(k) \cup {created[k + 1]}
    OBVIOUS
  <2> HIDE DEF listed, among, events
  <2>6. Replay(known(k), e) = known(k + 1)
    BY <2>4, <2>5, CreatedSays
  <2> HIDE DEF known, e
  <2>7. Says((l \o listed(k)) \o <<e>>, known(k + 1))
    BY <2>1, <2>6, OneMore
  <2>8. (l \o listed(k)) \o <<e>> = l \o listed(k + 1)
    <3>1. <<e>> \in Seq({e})
      OBVIOUS
    <3>2. (l \o listed(k)) \o <<e>> = l \o (listed(k) \o <<e>>)
      <4> DEFINE a == listed(k)
                 b == <<e>>
      <4>1. a \in Seq(events) /\ b \in Seq({e})
        BY <2>3, <3>1
      <4> HIDE DEF a, b
      <4>2. (l \o a) \o b = l \o (a \o b)
        BY <1>2, <4>1, ContinuesOn
      <4> QED
        BY <4>2 DEF a, b
    <3> QED
      BY <2>2, <3>2
  <2> QED
    BY <2>7, <2>8
<1>6. Nat \subseteq Good
  <2> HIDE DEF Good
  <2> QED
    BY <1>4, <1>5, Counting
<1>7. Says(l \o listed(Len(created)), known(Len(created)))
  <2> HIDE DEF listed, known
  <2> QED
    BY <1>1, <1>6
<1>8. among(Len(created)) = Range(created) /\ Len(created) - Len(created) = 0
  BY <1>1 DEF Range
<1> QED
  BY <1>1, <1>7, <1>8

\* What the ledger says is what the meeting is.
LedgerFits == Says(ledger, MeetingNow)

(* The meeting as the ledger is to tell it, before its approval and after. *)
LEMMA NowKnown ==
  ASSUME reviews # <<>>
  PROVE  /\ approval = Nothing =>
              MeetingNow = Known(meeting.status, meeting.version, Len(reviews), Latest,
                                 Nothing, {}, 0)
         /\ approval # Nothing =>
              MeetingNow = Known(meeting.status, meeting.version, Len(reviews), Latest,
                                 approval.digest, approval.digest.deliver, 0)
BY DEF MeetingNow, Known

(* A step of the meeting alone is told by its transition. *)
LEMMA StatusTold ==
  ASSUME StoreFits, LedgerFits, NEW target, ChangeStatus(target)
  PROVE  LedgerFits' /\ Continues(ledger', ledger)
<1> DEFINE digest == IF reviews = <<>> THEN Nothing ELSE Latest
           approved == IF approval = Nothing THEN Nothing ELSE approval.digest
           delivered == IF approval = Nothing THEN {} ELSE approval.digest.deliver
           e == Transition(meeting, Moved(meeting, target))
<1>1. meeting \in [status : MeetingStatuses, version : Nat, review : Nat]
  BY BoundAssumption DEF StoreFits
<1>2. /\ ledger' = ledger \o <<e>> /\ meeting' = Moved(meeting, target)
      /\ UNCHANGED <<reviews, approval>>
  BY DEF ChangeStatus, AppendAll
<1>3. meeting'.status = target /\ meeting'.version = meeting.version + 1
  BY <1>1, <1>2 DEF Moved
<1>4. MeetingNow = Known(meeting.status, meeting.version, Len(reviews), digest, approved,
                         delivered, 0)
  BY DEF MeetingNow, Known
<1>5. MeetingNow' = Known(target, meeting.version + 1, Len(reviews), digest, approved,
                          delivered, 0)
  BY <1>2, <1>3 DEF MeetingNow, Known, Latest
<1> HIDE DEF digest, approved, delivered
<1>6. Replay(MeetingNow, e) = MeetingNow'
  BY <1>1, <1>4, <1>5, TransitionSays
<1> HIDE DEF e
<1>7. Says(ledger \o <<e>>, Replay(MeetingNow, e)) /\ Continues(ledger \o <<e>>, ledger)
  BY OneMore DEF LedgerFits
<1> QED
  BY <1>2, <1>6, <1>7 DEF LedgerFits

(* A revision that the meeting then awaits the approval of. *)
LEMMA RevisionTold ==
  ASSUME NEW l, NEW m \in [status : MeetingStatuses, version : Nat, review : Nat],
         NEW number \in Nat, NEW digest, NEW content, NEW kind, NEW moved,
         Says(l, Known(m.status, m.version, number, digest, Nothing, {}, 0)),
         moved = [Moved(m, "awaiting_approval") EXCEPT !.review = number + 1]
  PROVE  /\ Says((l \o <<Revised(number + 1, content, kind)>>) \o <<Transition(m, moved)>>,
                 Known("awaiting_approval", m.version + 1, number + 1, content, Nothing, {}, 0))
<1> DEFINE a == Revised(number + 1, content, kind)
           b == Transition(m, moved)
           before == Known(m.status, m.version, number, digest, Nothing, {}, 0)
           between == Known(m.status, m.version, number + 1, content, Nothing, {}, 0)
           after == Known("awaiting_approval", m.version + 1, number + 1, content, Nothing, {}, 0)
<1>1. Replay(before, a) = between
  BY RevisedSays
<1>2. b = Transition(m, Moved(m, "awaiting_approval"))
  BY DEF Transition, Moved
<1>3. Replay(between, b) = after
  BY <1>2, TransitionSays
<1> HIDE DEF a, b, before, between, after
<1>4. Says(l, before)
  BY DEF before
<1>5. Says(l \o <<a>>, between)
  BY <1>1, <1>4, OneMore
<1>6. Says((l \o <<a>>) \o <<b>>, after)
  BY <1>3, <1>5, OneMore
<1> QED
  BY <1>6 DEF a, b, after

(* The last of several events, after the others. *)
LEMMA LastAfter ==
  ASSUME NEW l, NEW S, l \in Seq(S), NEW T, NEW r \in Seq(T), NEW t \in Seq(T),
         Len(t) = Len(r) + 1, \A i \in 1..Len(r) : r[i] = t[i]
  PROVE  /\ l \o t = (l \o r) \o <<t[Len(t)]>>
         /\ Continues(l \o t, l)
<1> DEFINE n == Len(r)
           e == t[n + 1]
           s == Append(r, e)
           x == <<e>>
<1>1. /\ e \in T /\ x \in Seq(T) /\ n \in Nat /\ Len(r) = n
      /\ Len(t) = n + 1 /\ \A i \in 1..n : r[i] = t[i]
  OBVIOUS
<1> HIDE DEF e, n
<1>2. s \in Seq(T) /\ Len(s) = n + 1 /\ (\A i \in 1..n : s[i] = r[i]) /\ s[n + 1] = e
  BY <1>1, AppendProperties
<1>3. s = r \o x
  BY <1>1, AppendIsConcat
<1> HIDE DEF s, x
<1>4. \A i \in 1..(n + 1) : s[i] = t[i]
  BY <1>1, <1>2 DEF e
<1>5. s = t
  BY <1>1, <1>2, <1>4, SeqEqual
<1>6. (l \o r) \o x = l \o (r \o x) /\ Continues(l \o (r \o x), l)
  BY <1>1, ContinuesOn
<1> QED
  BY <1>3, <1>5, <1>6 DEF x, e, n

(* Two events, one after the other. *)
LEMMA TwoAfter ==
  ASSUME NEW l, NEW S, l \in Seq(S), NEW a, NEW b
  PROVE  l \o <<a, b>> = (l \o <<a>>) \o <<b>> /\ Continues(l \o <<a, b>>, l)
<1> DEFINE T == {a, b}
           r == <<a>>
           t == <<a, b>>
<1>1. r \in Seq(T) /\ Len(r) = 1 /\ r[1] = a
  OBVIOUS
<1>2. t \in Seq(T) /\ Len(t) = 2 /\ t[1] = a /\ t[2] = b
  OBVIOUS
<1> HIDE DEF T, r, t
<1>3. Len(t) = Len(r) + 1 /\ \A i \in 1..Len(r) : r[i] = t[i]
  BY <1>1, <1>2
<1>4. l \o t = (l \o r) \o <<t[Len(t)]>> /\ Continues(l \o t, l)
  BY <1>1, <1>2, <1>3, LastAfter
<1> QED
  BY <1>2, <1>4 DEF r, t

(* Five events, one after the other. *)
LEMMA FiveAfter ==
  ASSUME NEW l, NEW S, l \in Seq(S), NEW a, NEW b, NEW c, NEW d, NEW e
  PROVE  /\ l \o <<a, b, c, d, e>> = ((((l \o <<a>>) \o <<b>>) \o <<c>>) \o <<d>>) \o <<e>>
         /\ Continues(l \o <<a, b, c, d, e>>, l)
<1> DEFINE T == {a, b, c, d, e}
           r == <<a, b>>
           t == <<a, b, c>>
           u == <<a, b, c, d>>
           v == <<a, b, c, d, e>>
<1>1. r \in Seq(T) /\ Len(r) = 2 /\ r[1] = a /\ r[2] = b
  OBVIOUS
<1>2. t \in Seq(T) /\ Len(t) = 3 /\ t[1] = a /\ t[2] = b /\ t[3] = c
  OBVIOUS
<1>3. u \in Seq(T) /\ Len(u) = 4 /\ u[1] = a /\ u[2] = b /\ u[3] = c /\ u[4] = d
  OBVIOUS
<1>4. v \in Seq(T) /\ Len(v) = 5 /\ v[1] = a /\ v[2] = b /\ v[3] = c /\ v[4] = d /\ v[5] = e
  OBVIOUS
<1>5. l \o r = (l \o <<a>>) \o <<b>>
  BY TwoAfter
<1> HIDE DEF T, r, t, u, v
<1>6. l \o t = (l \o r) \o <<c>>
  <2>1. Len(t) = Len(r) + 1 /\ \A i \in 1..Len(r) : r[i] = t[i]
    BY <1>1, <1>2
  <2>2. l \o t = (l \o r) \o <<t[Len(t)]>> /\ Continues(l \o t, l)
    BY <1>1, <1>2, <2>1, LastAfter
  <2> QED
    BY <1>2, <2>2
<1>7. l \o u = (l \o t) \o <<d>>
  <2>1. Len(u) = Len(t) + 1 /\ \A i \in 1..Len(t) : t[i] = u[i]
    BY <1>2, <1>3
  <2>2. l \o u = (l \o t) \o <<u[Len(u)]>> /\ Continues(l \o u, l)
    BY <1>2, <1>3, <2>1, LastAfter
  <2> QED
    BY <1>3, <2>2
<1>8. l \o v = (l \o u) \o <<e>> /\ Continues(l \o v, l)
  <2>1. Len(v) = Len(u) + 1 /\ \A i \in 1..Len(u) : u[i] = v[i]
    BY <1>3, <1>4
  <2>2. l \o v = (l \o u) \o <<v[Len(v)]>> /\ Continues(l \o v, l)
    BY <1>3, <1>4, <2>1, LastAfter
  <2> QED
    BY <1>4, <2>2
<1> QED
  BY <1>5, <1>6, <1>7, <1>8 DEF v

(* The model's review is told by its handoffs, the revision and the transition. *)
LEMMA ExtractionTold ==
  ASSUME StoreFits, LedgerFits, NEW draft, CompleteExtraction(draft)
  PROVE  LedgerFits' /\ Continues(ledger', ledger)
<1> DEFINE a == Handoff("extract")
           b == Handoff("recap")
           c == Handoff("verify")
           moved == [Moved(meeting, "awaiting_approval") EXCEPT !.review = 0 + 1]
           d == Revised(0 + 1, draft, "model_created")
           e == Transition(meeting, moved)
           before == Known(meeting.status, meeting.version, 0, Nothing, Nothing, {}, 0)
           after == Known("awaiting_approval", meeting.version + 1, 0 + 1, draft, Nothing, {}, 0)
<1>1. meeting \in [status : MeetingStatuses, version : Nat, review : Nat]
  BY BoundAssumption DEF StoreFits
<1>2. reviews = <<>> /\ Len(reviews) = 0 /\ approval = Nothing
  BY DEF CompleteExtraction, StoreFits, Unreviewed
<1>3. /\ ledger' = ledger \o <<a, b, c, d, e>> /\ meeting' = moved
      /\ reviews' = <<[content |-> draft, seen |-> draft]>> /\ approval' = approval
  BY <1>2 DEF CompleteExtraction, AppendAll
<1>4. MeetingNow = before
  BY <1>2 DEF MeetingNow, Known
<1>5. MeetingNow' = after
  <2>1. /\ moved.status = "awaiting_approval" /\ moved.version = meeting.version + 1
    BY <1>1 DEF Moved
  <2>2. Len(reviews') = 1 /\ reviews' # <<>> /\ Latest' = draft
    BY <1>3 DEF Latest
  <2> HIDE DEF moved
  <2> QED
    BY <1>2, <1>3, <2>1, <2>2 DEF MeetingNow, Known
<1>6. ASSUME NEW l, Says(l, before)
      PROVE  Says((l \o <<d>>) \o <<e>>, after)
  <2>1. Says(l, Known(meeting.status, meeting.version, 0, Nothing, Nothing, {}, 0))
    BY <1>6
  <2> DEFINE m == moved
  <2>2. m = [Moved(meeting, "awaiting_approval") EXCEPT !.review = 0 + 1]
    OBVIOUS
  <2> HIDE DEF m
  <2>3. Says((l \o <<Revised(0 + 1, draft, "model_created")>>) \o <<Transition(meeting, m)>>,
             Known("awaiting_approval", meeting.version + 1, 0 + 1, draft, Nothing, {}, 0))
    BY <1>1, <2>1, <2>2, RevisionTold
  <2> QED
    BY <2>3 DEF m
<1>7. \A known : Replay(known, a) = known /\ Replay(known, b) = known /\ Replay(known, c) = known
  BY HandoffSays
<1>8. PICK S : ledger \in Seq(S)
  BY DEF LedgerFits, Says
<1>9. Says(ledger, before)
  BY <1>4 DEF LedgerFits
<1> HIDE DEF a, b, c, d, e, before, after
<1>10. Says(ledger \o <<a>>, before)
  BY <1>7, <1>9, OneMore
<1>11. Says((ledger \o <<a>>) \o <<b>>, before)
  BY <1>7, <1>10, OneMore
<1>12. Says(((ledger \o <<a>>) \o <<b>>) \o <<c>>, before)
  BY <1>7, <1>11, OneMore
<1> DEFINE three == ((ledger \o <<a>>) \o <<b>>) \o <<c>>
<1>13. /\ ledger \o <<a, b, c, d, e>> = (three \o <<d>>) \o <<e>>
       /\ Continues(ledger \o <<a, b, c, d, e>>, ledger)
  BY <1>8, FiveAfter
<1> HIDE DEF three
<1>14. Says(three, before)
  BY <1>12 DEF three
<1>15. Says((three \o <<d>>) \o <<e>>, after)
  BY <1>6, <1>14
<1> QED
  BY <1>3, <1>5, <1>13, <1>15 DEF LedgerFits

(* An edit is told by its revision and the transition. *)
LEMMA EditTold ==
  ASSUME StoreFits, LedgerFits, NEW c \in Clients, ServeEdit(c), ~Refused(c)
  PROVE  LedgerFits' /\ Continues(ledger', ledger) /\ UNCHANGED reader
<1> DEFINE edit == client[c].asks
           content == Edited(Latest, edit)
           number == Len(reviews)
           moved == [Moved(meeting, "awaiting_approval") EXCEPT !.review = number + 1]
           a == Revised(number + 1, content, ChangeKind(edit))
           b == Transition(meeting, moved)
           after == Known("awaiting_approval", meeting.version + 1, number + 1, content,
                          Nothing, {}, 0)
<1>1. /\ meeting \in [status : MeetingStatuses, version : Nat, review : Nat]
      /\ number \in Nat /\ reviews \in Seq(Revision)
  BY BoundAssumption DEF StoreFits
<1>2. /\ ledger' = ledger \o <<a, b>> /\ meeting' = moved
      /\ reviews' = Append(reviews, [content |-> content, seen |-> client[c].seen])
      /\ approval' = approval /\ meeting.status = "awaiting_approval"
      /\ reader' = reader
  BY DEF ServeEdit, AppendAll
<1>3. approval = Nothing /\ reviews # <<>>
  BY <1>2 DEF StoreFits, Reviewed
<1>4. MeetingNow = Known(meeting.status, meeting.version, number, Latest, Nothing, {}, 0)
  BY <1>3, NowKnown
<1>5. MeetingNow' = after
  <2>1. moved.status = "awaiting_approval" /\ moved.version = meeting.version + 1
    BY <1>1 DEF Moved
  <2> HIDE DEF content
  <2>2. Len(reviews') = number + 1 /\ reviews' # <<>> /\ Latest' = content
    BY <1>1, <1>2 DEF Latest
  <2> HIDE DEF moved, number
  <2> QED
    BY <1>2, <1>3, <2>1, <2>2 DEF MeetingNow, Known
<1>6. Says((ledger \o <<a>>) \o <<b>>, after)
  <2> DEFINE m == moved
             kind == ChangeKind(edit)
             digest == Latest
  <2>1. m = [Moved(meeting, "awaiting_approval") EXCEPT !.review = number + 1]
    OBVIOUS
  <2>2. Says(ledger, Known(meeting.status, meeting.version, number, digest, Nothing, {}, 0))
    BY <1>4 DEF LedgerFits
  <2> HIDE DEF m, number, content, kind, digest
  <2>3. Says((ledger \o <<Revised(number + 1, content, kind)>>) \o <<Transition(meeting, m)>>,
             Known("awaiting_approval", meeting.version + 1, number + 1, content, Nothing, {}, 0))
    BY <1>1, <2>1, <2>2, RevisionTold
  <2> QED
    BY <2>3 DEF m, kind
<1>7. PICK S : ledger \in Seq(S)
  BY DEF LedgerFits, Says
<1> HIDE DEF a, b, after, moved
<1>8. ledger \o <<a, b>> = (ledger \o <<a>>) \o <<b>> /\ Continues(ledger \o <<a, b>>, ledger)
  BY <1>7, TwoAfter
<1> QED
  BY <1>2, <1>5, <1>6, <1>8 DEF LedgerFits

(* Three lists of events one after the other. *)
LEMMA ContinuesOnOn ==
  ASSUME NEW l, NEW S, l \in Seq(S), NEW T, NEW a \in Seq(T), NEW U, NEW b \in Seq(U),
         NEW V, NEW c \in Seq(V)
  PROVE  /\ ((l \o a) \o b) \o c = l \o ((a \o b) \o c)
         /\ Continues(l \o ((a \o b) \o c), l)
<1>1. (l \o a) \o b = l \o (a \o b) /\ a \o b \in Seq(T \cup U)
  BY ContinuesOn
<1> DEFINE ab == a \o b
           W == T \cup U
<1>2. ab \in Seq(W)
  BY <1>1
<1> HIDE DEF ab, W
<1>3. (l \o ab) \o c = l \o (ab \o c) /\ Continues(l \o (ab \o c), l)
  <2> DEFINE X == S \cup W \cup V
  <2>1. l \in Seq(X) /\ ab \in Seq(X) /\ c \in Seq(X)
    <3>1. S \subseteq X /\ W \subseteq X /\ V \subseteq X
      OBVIOUS
    <3> HIDE DEF X
    <3> QED
      BY <1>2, <3>1, SeqMonotonic
  <2> HIDE DEF X
  <2>2. (l \o ab) \o c = l \o (ab \o c)
    BY <2>1, ConcatAssociative
  <2>3. ab \o c \in Seq(X)
    BY <2>1, ConcatProperties
  <2> QED
    BY <2>2, <2>3 DEF Continues
<1> QED
  BY <1>1, <1>3 DEF ab

(* An approval is told by its two transitions, and between them by the approval *)
(* and a delivery for each enabled half.                                        *)
LEMMA ApprovalTold ==
  ASSUME StoreFits, ClientsFit, LedgerFits, NEW c \in Clients, IsApproval(client[c].asks),
         Unchanged(c), client[c].at = "served", Approvable(Latest), Approve(c)
  PROVE  LedgerFits' /\ Continues(ledger', ledger)
<1> DEFINE content == Latest
           created == ProjectWriteIntents(content)
           number == Len(reviews)
           middle == Moved(meeting, "approved")
           target == AfterApproval(created)
           done == Moved(middle, target)
           x == Transition(meeting, middle)
           y == Approved(number, content, created)
           D == [n \in DOMAIN created |-> Created(created[n])]
           z == Transition(middle, done)
           known1 == Known("awaiting_approval", meeting.version, number, content, Nothing, {}, 0)
           known2 == Known("approved", meeting.version + 1, number, content, Nothing, {}, 0)
           known3 == Known("approved", meeting.version + 1, number, content, content, {},
                           Len(created))
           known4 == Known("approved", meeting.version + 1, number, content, content,
                           Range(created), 0)
           known5 == Known(target, (meeting.version + 1) + 1, number, content, content,
                           Range(created), 0)
<1>1. /\ meeting \in [status : MeetingStatuses, version : Nat, review : Nat]
      /\ meeting.status = "awaiting_approval" /\ reviews # <<>> /\ approval = Nothing
      /\ content \in Contents
  BY LatestFits, BoundAssumption DEF StoreFits, Approvable, Reviewed
<1>2. created \in Seq(Halves) /\ Range(created) = content.deliver
  BY <1>1, IntentsAreEnabledHalves
<1>3. /\ ledger' = ledger \o ((<<x, y>> \o D) \o <<z>>)
      /\ meeting' = done /\ reviews' = reviews /\ approval'.digest = content
  BY DEF Approve, ApprovalEvents, AppendAll
<1>4. approval' # Nothing
  BY ApproveFits
<1>5. /\ middle \in [status : MeetingStatuses, version : Nat, review : Nat]
      /\ middle.status = "approved" /\ middle.version = meeting.version + 1
  <2>1. "approved" \in MeetingStatuses
    BY DEF MeetingStatuses
  <2>2. meeting.version + 1 \in Nat
    BY <1>1
  <2> QED
    BY <1>1, <2>1, <2>2 DEF Moved
<1>6. MeetingNow = known1
  BY <1>1, NowKnown
<1>7. MeetingNow' = known5
  <2> HIDE DEF middle, target
  <2>1. done.status = target /\ done.version = (meeting.version + 1) + 1
    BY <1>5 DEF Moved
  <2>2. Latest' = content
    BY <1>3 DEF Latest
  <2> HIDE DEF done, created, content
  <2> QED
    BY <1>1, <1>2, <1>3, <1>4, <2>1, <2>2 DEF MeetingNow, Known
<1>8. Replay(known1, x) = known2
  BY <1>1, TransitionSays
<1>9. Replay(known2, y) = known3
  BY ApprovedSays
<1>10. Replay(known4, z) = known5
  <2> HIDE DEF middle, target, created, content, number
  <2> QED
    BY <1>5, TransitionSays
<1>11. PICK S : ledger \in Seq(S)
  BY DEF LedgerFits, Says
<1>12. D \in Seq({Created(created[n]) : n \in DOMAIN created})
  <2> HIDE DEF created
  <2> QED
    BY <1>2
<1> DEFINE two == (ledger \o <<x>>) \o <<y>>
<1>13. Says(two, known3)
  <2> HIDE DEF x, y, known1, known2, known3
  <2>1. Says(ledger \o <<x>>, known2)
    BY <1>6, <1>8, OneMore DEF LedgerFits
  <2> QED
    BY <1>9, <2>1, OneMore
<1>14. Says(two \o D, known4)
  <2>1. Says(two, Known("approved", meeting.version + 1, number, content, content, {},
                        Len(created)))
    BY <1>13
  <2> HIDE DEF two, number, content, created
  <2> QED
    BY <1>2, <2>1, DeliveriesSay
<1> HIDE DEF x, y, z, known1, known2, known3, known4, known5, D
<1>15. Says((two \o D) \o <<z>>, known5)
  <2> HIDE DEF two
  <2> QED
    BY <1>10, <1>14, OneMore
<1>16. two = ledger \o <<x, y>>
  BY <1>11, TwoAfter
<1> DEFINE p == <<x, y>>
           q == <<z>>
           E == {Created(created[n]) : n \in DOMAIN created}
           Z == {z}
<1>17. p \in Seq({x, y}) /\ q \in Seq(Z) /\ D \in Seq(E)
  BY <1>12
<1> HIDE DEF p, q, E, Z
<1>18. /\ ((ledger \o p) \o D) \o q = ledger \o ((p \o D) \o q)
       /\ Continues(ledger \o ((p \o D) \o q), ledger)
  BY <1>11, <1>17, ContinuesOnOn
<1>19. ledger' = ledger \o ((p \o D) \o q)
  BY <1>3 DEF p, q
<1>20. (two \o D) \o q = ledger \o ((p \o D) \o q)
  BY <1>16, <1>18 DEF p
<1>21. Says(ledger \o ((p \o D) \o q), known5)
  BY <1>15, <1>20 DEF q
<1> QED
  BY <1>7, <1>18, <1>19, <1>21 DEF LedgerFits

-----------------------------------------------------------------------------
(* The reader.                                                             *)

\* Where a page ends.
PageEnd(cursor, limit) ==
  IF cursor + limit < Len(ledger) THEN cursor + limit ELSE Len(ledger)

(* A page goes on from its cursor as far as its limit lets it, and the next *)
(* page has a cursor when and only when there is more.                      *)
LEMMA PageIs ==
  ASSUME NEW S, ledger \in Seq(S), NEW cursor \in 0..Len(ledger), NEW limit \in Nat, limit # 0
  PROVE  /\ SubSeq(ledger, 1, cursor) \o ListPage(cursor, limit)
              = SubSeq(ledger, 1, PageEnd(cursor, limit))
         /\ Len(ListPage(cursor, limit)) = PageEnd(cursor, limit) - cursor
<1> DEFINE last == PageEnd(cursor, limit)
           page == SubSeq(ledger, cursor + 1, last)
<1>1. Len(ledger) \in Nat /\ \A i \in 1..Len(ledger) : ledger[i] \in S
  OBVIOUS
<1>2. /\ last \in Nat /\ cursor \in Nat /\ cursor <= last /\ last <= Len(ledger)
      /\ last \in cursor..Len(ledger) /\ cursor \in 0..Len(ledger)
  BY <1>1 DEF PageEnd
<1>3. ListPage(cursor, limit) = page
  BY DEF ListPage, PageEnd
<1> HIDE DEF last
<1>4. 1 \in 1..Len(ledger) + 1 /\ cursor \in (1 - 1)..Len(ledger)
  BY <1>1, <1>2
<1>5. SubSeq(ledger, 1, cursor) \o page = SubSeq(ledger, 1, last)
  BY <1>2, <1>4, ConcatAdjacentSubSeq
<1>6. Len(page) = last - cursor
  <2>1. \A i \in (cursor + 1)..last : ledger[i] \in S
    BY <1>1, <1>2
  <2>2. cursor + 1 \in Int /\ last \in Int
    BY <1>2
  <2>3. Len(page) = IF cursor + 1 <= last THEN last - (cursor + 1) + 1 ELSE 0
    BY <2>1, <2>2, SubSeqProperties
  <2> HIDE DEF page
  <2> QED
    BY <1>2, <2>3
<1> QED
  BY <1>3, <1>5, <1>6 DEF last

(* The probe for one more event finds it unless the ledger is at its end. *)
LEMMA ProbeIs ==
  ASSUME NEW S, ledger \in Seq(S), NEW anchor \in 0..Len(ledger)
  PROVE  ListPage(anchor, 1) # <<>> <=> anchor < Len(ledger)
<1> DEFINE n == Len(ledger)
<1>1. n \in Nat /\ anchor \in 0..n
  OBVIOUS
<1>2. CASE anchor < n
  <2>1. PageEnd(anchor, 1) = anchor + 1
    BY <1>1, <1>2 DEF PageEnd
  <2>2. Len(ListPage(anchor, 1)) = PageEnd(anchor, 1) - anchor
    <3> DEFINE one == 1
    <3>1. one \in Nat /\ one # 0
      OBVIOUS
    <3> HIDE DEF one
    <3>2. /\ SubSeq(ledger, 1, anchor) \o ListPage(anchor, one)
               = SubSeq(ledger, 1, PageEnd(anchor, one))
          /\ Len(ListPage(anchor, one)) = PageEnd(anchor, one) - anchor
      BY <3>1, PageIs
    <3> QED
      BY <3>2 DEF one
  <2>3. Len(ListPage(anchor, 1)) # 0
    BY <1>1, <2>1, <2>2
  <2>4. Len(<<>>) = 0
    OBVIOUS
  <2>5. ListPage(anchor, 1) # <<>>
    BY <2>3, <2>4, Zenon
  <2> QED
    BY <1>2, <2>5
<1>3. CASE anchor = n
  <2>1. ~ (anchor + 1 < n) /\ n < anchor + 1 /\ anchor + 1 \in Int /\ n \in Int
    BY <1>1, <1>3
  <2>2. ListPage(anchor, 1) = SubSeq(ledger, anchor + 1, n)
    BY <2>1 DEF ListPage
  <2>3. ListPage(anchor, 1) = <<>>
    <3> HIDE DEF n
    <3> QED
      BY <2>1, <2>2, SubSeqEmpty
  <2> QED
    BY <1>1, <1>3, <2>3
<1> QED
  BY <1>1, <1>2, <1>3

(* The cursor that comes with a page. *)
LEMMA NextCursorIs ==
  ASSUME NEW S, ledger \in Seq(S), NEW cursor \in 0..Len(ledger), NEW limit \in Nat, limit # 0
  PROVE  NextCursor(cursor, limit) = IF cursor + limit < Len(ledger) THEN cursor + limit ELSE 0
<1> DEFINE n == Len(ledger)
           page == ListPage(cursor, limit)
           anchor == cursor + Len(page)
<1>1. n \in Nat /\ cursor \in 0..n
  OBVIOUS
<1>2. Len(page) = PageEnd(cursor, limit) - cursor
  BY PageIs
<1>3. NextCursor(cursor, limit) = IF Len(page) = limit /\ ListPage(anchor, 1) # <<>>
                                  THEN anchor ELSE 0
  BY DEF NextCursor
<1> HIDE DEF page
<1>4. PageEnd(cursor, limit) = IF cursor + limit < n THEN cursor + limit ELSE n
  BY DEF PageEnd
<1>5. anchor = PageEnd(cursor, limit) /\ anchor \in 0..n
  BY <1>1, <1>2, <1>4
<1> HIDE DEF anchor
<1>6. ListPage(anchor, 1) # <<>> <=> anchor < n
  BY <1>5, ProbeIs
<1>7. CASE cursor + limit < n
  <2>1. Len(page) = limit /\ anchor = cursor + limit /\ anchor < n
    BY <1>1, <1>2, <1>4, <1>5, <1>7
  <2>2. NextCursor(cursor, limit) = anchor
    BY <1>3, <1>6, <2>1
  <2> QED
    BY <1>7, <2>1, <2>2
<1>8. CASE ~ (cursor + limit < n)
  <2>1. ~ (anchor < n)
    BY <1>1, <1>4, <1>5, <1>8
  <2>2. NextCursor(cursor, limit) = 0
    BY <1>3, <1>6, <2>1
  <2> QED
    BY <1>8, <2>2
<1> QED
  BY <1>7, <1>8

\* The reader has the events up to its cursor.
ReaderFits ==
  /\ reader.cursor \in 0..Len(ledger)
  /\ reader.got = SubSeq(ledger, 1, reader.cursor)

(* What is appended to the ledger changes nothing the reader has. *)
LEMMA ReaderStays ==
  ASSUME LedgerFits, ReaderFits, Continues(ledger', ledger), UNCHANGED reader
  PROVE  ReaderFits'
<1>1. PICK S : ledger \in Seq(S)
  BY DEF LedgerFits, Says
<1>2. PICK T : \E events \in Seq(T) : ledger' = ledger \o events
  BY DEF Continues
<1>3. PICK events \in Seq(T) : ledger' = ledger \o events
  BY <1>2
<1> DEFINE U == S \cup T
<1>4. ledger \in Seq(U) /\ events \in Seq(U)
  <2>1. S \subseteq U /\ T \subseteq U
    OBVIOUS
  <2> HIDE DEF U
  <2> QED
    BY <1>1, <2>1, SeqMonotonic
<1> HIDE DEF U
<1> DEFINE cursor == reader.cursor
<1>5. Len(ledger') = Len(ledger) + Len(events) /\ Len(ledger) \in Nat /\ Len(events) \in Nat
  BY <1>3, <1>4, ConcatProperties
<1>6. cursor \in 0..Len(ledger) /\ cursor' = cursor
  BY DEF ReaderFits
<1>7. SubSeq(ledger \o events, 1, cursor) = SubSeq(ledger, 1, cursor)
  <2>1. CASE cursor = 0
    <3>1. 0 < 1 /\ 0 \in Int /\ 1 \in Int
      OBVIOUS
    <3> QED
      BY <2>1, <3>1, SubSeqEmpty
  <2>2. CASE cursor # 0
    <3>1. cursor \in 1..Len(ledger) /\ 1 \in 1..Len(ledger)
      BY <1>5, <1>6, <2>2
    <3> HIDE DEF cursor
    <3> QED
      BY <1>4, <3>1, SubSeqOfConcat1
  <2> QED
    BY <2>1, <2>2
<1>8. reader.cursor \in 0..Len(ledger')
  BY <1>5, <1>6
<1> QED
  BY <1>3, <1>6, <1>7, <1>8 DEF ReaderFits

(* The reader turns a page: it has the events up to its new cursor. *)
LEMMA PageRead ==
  ASSUME LedgerFits, ReaderFits, NEW limit \in Limits, ReadPage(limit)
  PROVE  LedgerFits' /\ ReaderFits'
<1>1. PICK S : ledger \in Seq(S)
  BY DEF LedgerFits, Says
<1>2. limit \in Nat /\ limit # 0
  BY BoundAssumption
<1> DEFINE cursor == reader.cursor
           next == NextCursor(cursor, limit)
<1>3. cursor \in 0..Len(ledger) /\ reader.got = SubSeq(ledger, 1, cursor)
  BY DEF ReaderFits
<1>4. /\ next # 0 /\ UNCHANGED stored
      /\ reader' = [got |-> reader.got \o ListPage(cursor, limit), cursor |-> next]
  BY DEF ReadPage
<1> HIDE DEF cursor
<1>5. next = IF cursor + limit < Len(ledger) THEN cursor + limit ELSE 0
  BY <1>1, <1>2, <1>3, NextCursorIs
<1>6. SubSeq(ledger, 1, cursor) \o ListPage(cursor, limit)
        = SubSeq(ledger, 1, PageEnd(cursor, limit))
  BY <1>1, <1>2, <1>3, PageIs
<1> HIDE DEF next
<1>7. /\ PageEnd(cursor, limit) = next /\ next \in 0..Len(ledger)
  <2>1. Len(ledger) \in Nat
    BY <1>1
  <2> QED
    BY <1>2, <1>3, <1>4, <1>5, <2>1 DEF PageEnd
<1>8. /\ reader'.cursor = next /\ reader'.got = SubSeq(ledger, 1, next)
  BY <1>3, <1>4, <1>6, <1>7
<1>9. ledger' = ledger
  BY <1>4 DEF stored
<1>10. LedgerFits'
  BY <1>4 DEF LedgerFits, stored, MeetingNow, Latest
<1>11. ReaderFits'
  BY <1>7, <1>8, <1>9 DEF ReaderFits
<1> QED
  BY <1>10, <1>11

(* Every step is told by what it appends, and the reader keeps up. *)
LEMMA StepTold ==
  StoreFits /\ ClientsFit /\ LedgerFits /\ ReaderFits /\ [Next]_vars => LedgerFits' /\ ReaderFits'
<1> SUFFICES ASSUME StoreFits, ClientsFit, LedgerFits, ReaderFits, [Next]_vars
             PROVE  LedgerFits' /\ ReaderFits'
  OBVIOUS
<1>1. CASE StartStage \/ FailStage \/ CompleteTranscription \/ Cancel
  <2>1. PICK target : ChangeStatus(target)
    BY <1>1 DEF StartStage, FailStage, CompleteTranscription, Cancel
  <2>2. LedgerFits' /\ Continues(ledger', ledger)
    BY <2>1, StatusTold
  <2>3. UNCHANGED reader
    BY <2>1 DEF ChangeStatus
  <2> QED
    BY <2>2, <2>3, ReaderStays
<1>2. ASSUME NEW draft \in Drafts, CompleteExtraction(draft)
      PROVE  LedgerFits' /\ ReaderFits'
  <2>1. LedgerFits' /\ Continues(ledger', ledger)
    BY <1>2, ExtractionTold
  <2>2. UNCHANGED reader
    BY <1>2 DEF CompleteExtraction
  <2> QED
    BY <2>1, <2>2, ReaderStays
<1>3. ASSUME UNCHANGED stored, UNCHANGED reader
      PROVE  LedgerFits' /\ ReaderFits'
  BY <1>3 DEF stored, LedgerFits, ReaderFits, MeetingNow, Latest
<1>4. ASSUME NEW c \in Clients, ServeApproval(c)
      PROVE  LedgerFits' /\ ReaderFits'
  <2>1. UNCHANGED reader
    BY <1>4 DEF ServeApproval
  <2>2. CASE UNCHANGED stored
    BY <1>3, <2>1, <2>2
  <2>3. CASE ~ UNCHANGED stored
    <3>1. /\ IsApproval(client[c].asks) /\ Unchanged(c) /\ client[c].at = "served"
          /\ Approvable(Latest) /\ Approve(c)
      BY <1>4, <2>3 DEF ServeApproval, Refused
    <3>2. LedgerFits' /\ Continues(ledger', ledger)
      BY <3>1, ApprovalTold
    <3> QED
      BY <2>1, <3>2, ReaderStays
  <2> QED
    BY <2>2, <2>3
<1>5. ASSUME NEW c \in Clients, ServeEdit(c)
      PROVE  LedgerFits' /\ ReaderFits'
  <2>1. CASE Refused(c)
    <3>1. UNCHANGED stored /\ UNCHANGED reader
      BY <1>5, <2>1 DEF Refused, ServeEdit
    <3> QED
      BY <1>3, <3>1
  <2>2. CASE ~ Refused(c)
    BY <1>5, <2>2, EditTold, ReaderStays
  <2> QED
    BY <2>1, <2>2
<1>6. ASSUME NEW c \in Clients,
             Look(c) \/ ReadVersion(c) \/ \E command \in Commands : Ask(c, command)
      PROVE  LedgerFits' /\ ReaderFits'
  BY <1>3, <1>6 DEF Look, ReadVersion, Ask
<1>7. ASSUME NEW limit \in Limits, ReadPage(limit) PROVE LedgerFits' /\ ReaderFits'
  BY <1>7, PageRead
<1>8. CASE UNCHANGED vars
  BY <1>3, <1>8 DEF vars
<1> QED
  BY <1>1, <1>2, <1>4, <1>5, <1>6, <1>7, <1>8 DEF Next

(* The ledger of a meeting that was ingested, and a reader who has not begun. *)
LEMMA InitTold == Init => LedgerFits /\ ReaderFits
<1> SUFFICES ASSUME Init PROVE LedgerFits /\ ReaderFits
  OBVIOUS
<1>1. MeetingNow = Newborn
  BY DEF Init, MeetingNow, Newborn
<1>2. ledger = <<Ingested>> /\ ledger \in Seq({Ingested}) /\ ledger # <<>> /\ Len(ledger) = 1
  BY DEF Init
<1>3. Tail(ledger) = <<>>
  BY <1>2
<1>4. LedgerFits
  BY <1>1, <1>2, <1>3, AccountEmpty DEF LedgerFits, Says
<1>5. SubSeq(ledger, 1, 0) = <<>>
  <2>1. 1 \in Int /\ 0 \in Int /\ 0 < 1
    OBVIOUS
  <2> QED
    BY <2>1, SubSeqEmpty
<1>6. ReaderFits
  BY <1>2, <1>5 DEF Init, ReaderFits
<1> QED
  BY <1>4, <1>6

(* What the reader and the ledger keep is what is to be shown. *)
LEMMA KeptIsKnown == LedgerFits /\ ReaderFits => ReaderKnowsMeeting
<1> SUFFICES ASSUME LedgerFits, ReaderFits PROVE ReaderKnowsMeeting
  OBVIOUS
<1>1. PICK S : ledger \in Seq(S)
  BY DEF LedgerFits, Says
<1> DEFINE cursor == reader.cursor
           n == Len(ledger)
<1>2. n \in Nat /\ cursor \in 0..n /\ reader.got = SubSeq(ledger, 1, cursor)
  BY <1>1 DEF ReaderFits
<1> HIDE DEF cursor
<1>3. Len(reader.got) = cursor
  <2>1. 1 \in Int /\ cursor \in Int /\ \A i \in 1..cursor : ledger[i] \in S
    BY <1>1, <1>2
  <2>2. Len(reader.got) = IF 1 <= cursor THEN cursor - 1 + 1 ELSE 0
    BY <1>2, <2>1, SubSeqProperties
  <2> HIDE DEF n
  <2> QED
    BY <1>2, <2>2
<1>4. IsPrefix(reader.got, ledger)
  <2> DEFINE got == reader.got
  <2>1. got \in Seq(S)
    <3>1. 1 \in Int /\ cursor \in Int /\ \A i \in 1..cursor : ledger[i] \in S
      BY <1>1, <1>2
    <3> QED
      BY <1>2, <3>1, SubSeqProperties
  <2>2. got = SubSeq(ledger, 1, cursor) /\ Len(got) = cursor
    BY <1>2, <1>3
  <2> HIDE DEF got
  <2>3. SubSeq(got, 1, Len(got)) = got
    BY <2>1, SubSeqFull
  <2>4. Len(got) <= Len(ledger)
    BY <1>2, <2>2
  <2>5. IsPrefix(got, ledger)
    BY <2>2, <2>3, <2>4 DEF IsPrefix
  <2> QED
    BY <2>5 DEF got
<1>5. ASSUME NEW limit \in Limits
      PROVE  LET all == reader.got \o ListPage(reader.cursor, limit)
             IN IF NextCursor(reader.cursor, limit) = 0
                THEN all = ledger /\ FoldLeft(Replay, Newborn, Tail(all)) = MeetingNow
                ELSE all # ledger
  <2> DEFINE all == reader.got \o ListPage(reader.cursor, limit)
             last == PageEnd(cursor, limit)
  <2>1. limit \in Nat /\ limit # 0
    BY BoundAssumption
  <2>2. all = SubSeq(ledger, 1, last)
    <3>1. SubSeq(ledger, 1, cursor) \o ListPage(cursor, limit) = SubSeq(ledger, 1, last)
      BY <1>1, <1>2, <2>1, PageIs
    <3> QED
      BY <1>2, <3>1 DEF cursor
  <2>3. NextCursor(reader.cursor, limit) = IF cursor + limit < n THEN cursor + limit ELSE 0
    BY <1>1, <1>2, <2>1, NextCursorIs DEF cursor
  <2>4. last = IF cursor + limit < n THEN cursor + limit ELSE n
    BY DEF PageEnd
  <2> HIDE DEF all, last
  <2>5. CASE cursor + limit < n
    <3>1. NextCursor(reader.cursor, limit) # 0 /\ last \in 0..n /\ last < n
      BY <1>2, <2>1, <2>3, <2>4, <2>5
    <3>2. Len(all) = last
      <4>1. 1 \in Int /\ last \in Int /\ \A i \in 1..last : ledger[i] \in S
        BY <1>1, <1>2, <3>1
      <4>2. Len(all) = IF 1 <= last THEN last - 1 + 1 ELSE 0
        BY <2>2, <4>1, SubSeqProperties
      <4> HIDE DEF n
      <4> QED
        BY <3>1, <4>2
    <3>3. all # ledger
      BY <3>1, <3>2
    <3> QED
      BY <3>1, <3>3 DEF all
  <2>6. CASE ~ (cursor + limit < n)
    <3>1. NextCursor(reader.cursor, limit) = 0 /\ last = n
      BY <2>3, <2>4, <2>6
    <3>2. all = ledger
      BY <1>1, <2>2, <3>1, SubSeqFull
    <3>3. FoldLeft(Replay, Newborn, Tail(all)) = MeetingNow
      BY <3>2 DEF LedgerFits, Says, Account
    <3> QED
      BY <3>1, <3>2, <3>3 DEF all
  <2> QED
    BY <2>5, <2>6
<1> QED
  BY <1>4, <1>5 DEF ReaderKnowsMeeting

(* Whoever pages through the ledger while the meeting goes on has its events *)
(* without a gap, and knows it has all of them exactly when it has; and then *)
(* they say what the meeting is: ReaderKnowsMeeting.                         *)
THEOREM LedgerIsTrue == Spec => []ReaderKnowsMeeting
<1>1. Init => StoreFits /\ ClientsFit /\ LedgerFits /\ ReaderFits
  BY InitFits, InitTold
<1>2. /\ StoreFits /\ ClientsFit /\ LedgerFits /\ ReaderFits /\ [Next]_vars
      => StoreFits' /\ ClientsFit' /\ LedgerFits' /\ ReaderFits'
  BY StepFits, StepTold
<1> QED
  BY <1>1, <1>2, KeptIsKnown, PTL DEF Spec
=============================================================================
