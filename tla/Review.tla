------------------------------- MODULE Review -------------------------------
(***************************************************************************)
(* A meeting from its ingest to its approval, as the people who review it  *)
(* see it: the revisions of its review and their edits                     *)
(* (application/reviewing.py, the review use cases of application/         *)
(* workflow.py, behind api/routes.py and api/adapters.py), the approval    *)
(* with its recap and write intents (domain/services.py), and the workflow *)
(* ledger with the client that pages through it                            *)
(* (infrastructure/workflow_events.py, api/workflow_event_routes.py).      *)
(*                                                                         *)
(* One action is one transaction, or one request or answer on its way.     *)
(* The digest of a review is the SHA-256 of its canonical content: it is   *)
(* the content itself here, and an ETag is what the client has seen.       *)
(* Evidence is left out: no edit changes it, and an extraction whose       *)
(* evidence is invalid fails before it is stored.                          *)
(***************************************************************************)
EXTENDS Naturals, Sequences, FiniteSets, SequencesExt, Lifecycle

CONSTANTS
  Actions,       \* action items of the meeting
  Issues,        \* review issues of the meeting
  Blocking,      \* the issues whose severity is blocking
  Texts,         \* titles of an action item, texts of a recap
  Targets,       \* the write kinds for which a connector target is configured
  Drafts,        \* the contents extraction may come up with
  Clients,       \* people with a browser or a script
  Keys,          \* idempotency keys of approvals
  Commands,      \* what they may ask for
  TakenKeys,     \* idempotency keys that approved another meeting
  Limits,        \* page sizes a reader of the ledger asks for
  MaxVersion,    \* bound: versions of the meeting
  MaxRevision,   \* bound: revisions of its review
  MaxLost,       \* bound: answers that do not arrive
  Keep,          \* an action edit without a recap
  Nothing

Kinds == {"task", "calendar"}

\* deliver holds the enabled halves of the delivery directives.
Contents ==
  [recap : Texts,
   action : [Actions -> [text : Texts, dated : BOOLEAN, human : BOOLEAN]],
   deliver : SUBSET (Actions \X Kinds),
   issue : [Issues -> {"absent", "open", "resolved", "accepted_risk"}]]

Edits ==
  [op : {"action"}, action : Actions, text : Texts, dated : BOOLEAN, recap : Texts \cup {Keep}]
  \cup [op : {"issue"}, issue : Issues, to : {"open", "resolved", "accepted_risk"}]
  \cup [op : {"delivery"}, action : Actions, kind : Kinds, enabled : BOOLEAN]

Approvals ==
  [digest : Contents, number : Nat, key : Keys, actor : Clients, seen : Contents, recap : Texts]

IsApproval(command) == command.op = "approve"

\* validate_revision: only an action with a deadline has a calendar event.
Valid(content) == \A a \in Actions : <<a, "calendar">> \in content.deliver
                                       => content.action[a].dated

\* Extraction enables every delivery it has a target for, and leaves the issues
\* it raises open.
MayBeDrafted(content) ==
  /\ content \in Contents /\ \A i \in Issues : content.issue[i] \in {"absent", "open"}
  /\ content.deliver =
       {h \in Actions \X Targets : h[2] = "calendar" => content.action[h[1]].dated}

ASSUME ActionsAssumption == IsFiniteSet(Actions)
ASSUME BlockingAssumption == Blocking \subseteq Issues /\ Targets \subseteq Kinds
ASSUME DraftAssumption == \A d \in Drafts : MayBeDrafted(d)
ASSUME CommandAssumption == Commands \subseteq Edits \cup [op : {"approve"}, key : Keys]
ASSUME SentinelAssumption == Nothing \notin Contents \cup Commands \cup Approvals
ASSUME BoundAssumption ==
  MaxVersion \in Nat /\ MaxRevision \in Nat /\ MaxLost \in Nat /\ Limits \subseteq 1..100

VARIABLES
  meeting,   \* status, version, and the revision that is current (0: none)
  reviews,   \* review_revisions by number: the content, and (a history
             \* variable) the content its author had before him
  approval,  \* the approval with its recap, or Nothing, and (a history
             \* variable) the content its actor had before him
  intents,   \* write_intents of the meeting, in the order of their creation
  ledger,    \* workflow_events by sequence
  client,    \* what each client has seen, asks for, and where its request is
  reader,    \* the client that pages through the ledger: what it has, its cursor
  lost       \* answers lost so far

stored == <<meeting, reviews, approval, intents, ledger>>
vars == <<stored, client, reader, lost>>

-----------------------------------------------------------------------------
\* Ledger entries (application/auditing.py, domain/workflow_events.py).

Ingested == [type |-> "ingested"]

Transition(previous, current) ==
  [type |-> "meeting", from |-> previous.status, to |-> current.status,
   version |-> current.version]

OpenBlockers(content) == Cardinality({i \in Blocking : content.issue[i] = "open"})

Revised(number, content, kind) ==
  [type |-> "revised", number |-> number, digest |-> content, change |-> kind,
   blockers |-> OpenBlockers(content)]

Approved(number, content, created) ==
  [type |-> "approved", number |-> number, digest |-> content, count |-> Len(created)]

Created(intent) == [type |-> "delivery", intent |-> intent]
Handoff(role) == [type |-> "handoff", role |-> role]

\* Events are appended one after the other to the largest sequence of the
\* meeting, in the transaction that changes what they describe.
AppendAll(events) == ledger' = ledger \o events

-----------------------------------------------------------------------------
\* The meeting.

Moved(m, target) == [m EXCEPT !.status = target, !.version = @ + 1]
Latest == reviews[Len(reviews)].content

Transitions(target) ==
  /\ CanTransitionMeeting(meeting.status, target)
  /\ meeting.version < MaxVersion

\* A stage starts, fails or, for transcription, succeeds.
ChangeStatus(target) ==
  /\ Transitions(target)
  /\ meeting' = Moved(meeting, target)
  /\ AppendAll(<<Transition(meeting, Moved(meeting, target))>>)
  /\ UNCHANGED <<reviews, approval, intents, client, reader, lost>>

StartStage == \E target \in {"transcribing", "extracting"} : ChangeStatus(target)
FailStage == \E target \in {"transcription_failed", "extraction_failed"} : ChangeStatus(target)
CompleteTranscription == ChangeStatus("transcribed")

\* An operator cancels; who may, and when, is in Processing.
Cancel == ChangeStatus("cancelled")

\* The model's review is the first revision, and its events come in the order
\* of the specialists' handoffs, the revision and the transition.
CompleteExtraction(draft) ==
  /\ meeting.status = "extracting" /\ Transitions("awaiting_approval")
  /\ LET number == Len(reviews) + 1
         moved == [Moved(meeting, "awaiting_approval") EXCEPT !.review = number]
     IN /\ reviews' = Append(reviews, [content |-> draft, seen |-> draft])
        /\ meeting' = moved
        /\ AppendAll(<<Handoff("extract"), Handoff("recap"), Handoff("verify"),
                       Revised(number, draft, "model_created"), Transition(meeting, moved)>>)
  /\ UNCHANGED <<approval, intents, client, reader, lost>>

-----------------------------------------------------------------------------
\* The three edits of a review (application/reviewing.py).

\* An action that loses its deadline loses its calendar event.
Reconciled(deliver, edit) == IF edit.dated THEN deliver ELSE deliver \ {<<edit.action, "calendar">>}

ActionEdited(content, edit) ==
  [content EXCEPT
     !.recap = IF edit.recap = Keep THEN @ ELSE edit.recap,
     !.action[edit.action] = [text |-> edit.text, dated |-> edit.dated, human |-> TRUE],
     !.deliver = Reconciled(@, edit)]

IssueClosed(content, edit) == [content EXCEPT !.issue[edit.issue] = edit.to]

DeliverySelected(content, edit) ==
  [content EXCEPT !.deliver = IF edit.enabled THEN @ \cup {<<edit.action, edit.kind>>}
                                              ELSE @ \ {<<edit.action, edit.kind>>}]

Edited(content, edit) ==
  CASE edit.op = "action" -> ActionEdited(content, edit)
    [] edit.op = "issue" -> IssueClosed(content, edit)
    [] edit.op = "delivery" -> DeliverySelected(content, edit)

MayEdit(content, edit) ==
  /\ edit.op = "issue" => edit.to # "open" /\ content.issue[edit.issue] = "open"
  /\ edit.op = "delivery" /\ edit.enabled =>
       edit.kind \in Targets /\ (edit.kind = "calendar" => content.action[edit.action].dated)

ChangeKind(edit) ==
  CASE edit.op = "action" -> "action_edited"
    [] edit.op = "issue" -> "issue_updated"
    [] edit.op = "delivery" -> "delivery_updated"

-----------------------------------------------------------------------------
\* Approval (domain/services.py).

\* The enabled halves of an action's directive, the task before the calendar event.
EnabledHalves(content, a) ==
  LET half(kind) == IF <<a, kind>> \in content.deliver THEN <<<<a, kind>>>> ELSE <<>>
  IN half("task") \o half("calendar")

\* One write intent for each of them, by action.
ProjectWriteIntents(content) ==
  LET actions == SetToSeq(Actions)
  IN FlattenSeq([n \in DOMAIN actions |-> EnabledHalves(content, actions[n])])

Approvable(content) ==
  /\ meeting.status = "awaiting_approval"
  /\ meeting.review = Len(reviews)
  /\ OpenBlockers(content) = 0

\* Mutant: a meeting without deliveries waits for them.
AlwaysFiling(created) == "filing"

\* Where an approval leaves the meeting.
AfterApproval(created) == IF created = <<>> THEN "completed" ELSE "filing"

\* Mutant: the meeting is saved once, so one transition is recorded.
OneApprovalEvent(done, content, created) ==
  <<Transition(meeting, done), Approved(Len(reviews), content, created)>>
  \o [n \in DOMAIN created |-> Created(created[n])]

\* The meeting passes through approved, although it is saved once.
ApprovalEvents(done, content, created) ==
  LET approved == Moved(meeting, "approved")
  IN <<Transition(meeting, approved), Approved(Len(reviews), content, created)>>
     \o [n \in DOMAIN created |-> Created(created[n])]
     \o <<Transition(approved, done)>>

\* The approval with its recap and its intents, and the meeting's two steps.
Approve(c) ==
  LET content == Latest
      created == ProjectWriteIntents(content)
      done == Moved(Moved(meeting, "approved"), AfterApproval(created))
  IN /\ done.version <= MaxVersion
     /\ approval' = [digest |-> content, number |-> Len(reviews), key |-> client[c].asks.key,
                     actor |-> c, seen |-> client[c].seen, recap |-> content.recap]
     /\ intents' = created
     /\ meeting' = done
     /\ AppendAll(ApprovalEvents(done, content, created))
     /\ UNCHANGED reviews

-----------------------------------------------------------------------------
\* A client's request: it looks at the review, asks with the ETag it saw, the
\* facade reads the meeting's version, and the use case runs.

\* GET review: the current revision, at any time.
Look(c) ==
  /\ client[c].at = "idle" /\ meeting.review # 0
  /\ client' = [client EXCEPT ![c].seen = reviews[meeting.review].content]
  /\ UNCHANGED <<stored, reader, lost>>

Ask(c, command) ==
  /\ client[c].at = "idle" /\ client[c].seen # Nothing
  /\ client' = [client EXCEPT ![c].at = "asked", ![c].asks = command]
  /\ UNCHANGED <<stored, reader, lost>>

\* AsyncWorkflowFacade reads the version the use case is to expect, in a
\* transaction of its own.
ReadVersion(c) ==
  /\ client[c].at = "asked"
  /\ client' = [client EXCEPT ![c].at = "served", ![c].version = meeting.version]
  /\ UNCHANGED <<stored, reader, lost>>

\* The answer arrives, or is lost: then the client asks again, or looks again.
Answered(c, heard) ==
  LET quiet == [client[c] EXCEPT !.asks = Nothing, !.version = 0]
  IN \/ client' = [client EXCEPT ![c] = heard] /\ UNCHANGED lost
     \/ /\ lost < MaxLost /\ lost' = lost + 1
        /\ client' \in {[client EXCEPT ![c] = [quiet EXCEPT !.at = "idle"]],
                        [client EXCEPT ![c] = [@ EXCEPT !.at = "asked", !.version = 0]]}

Heard(c, at, seen) ==
  [client[c] EXCEPT !.at = at, !.seen = seen, !.asks = Nothing, !.version = 0]

Refused(c) == Answered(c, Heard(c, "idle", client[c].seen)) /\ UNCHANGED stored

\* Mutant: the version is enough, as it was read for this very request.
UnchangedSinceRequest(c) == meeting.version = client[c].version

\* The preconditions of every review command.
Unchanged(c) == meeting.version = client[c].version /\ Latest = client[c].seen

\* The key of an approval that exists answers again for the same content; a
\* key that approved another meeting is refused.
ServeApproval(c) ==
  LET key == client[c].asks.key
      replay == approval # Nothing /\ approval.key = key
      allowed == key \notin TakenKeys /\ Unchanged(c) /\ Approvable(Latest)
  IN /\ client[c].at = "served" /\ IsApproval(client[c].asks)
     /\ IF replay /\ approval.digest = client[c].seen
        THEN Answered(c, Heard(c, "told", client[c].seen)) /\ UNCHANGED stored
        ELSE IF ~replay /\ allowed
             THEN Approve(c) /\ Answered(c, Heard(c, "told", client[c].seen))
             ELSE Refused(c)
     /\ UNCHANGED reader

\* An edit is a new revision, and a step of the meeting in its own status.
ServeEdit(c) ==
  LET edit == client[c].asks
      content == Edited(Latest, edit)
      moved == [Moved(meeting, "awaiting_approval") EXCEPT !.review = Len(reviews) + 1]
  IN /\ client[c].at = "served" /\ ~IsApproval(edit)
     /\ IF /\ meeting.status = "awaiting_approval" /\ meeting.review = Len(reviews)
           /\ Unchanged(c) /\ MayEdit(Latest, edit)
        THEN /\ meeting.version < MaxVersion /\ Len(reviews) < MaxRevision
             /\ reviews' = Append(reviews, [content |-> content, seen |-> client[c].seen])
             /\ meeting' = moved
             /\ AppendAll(<<Revised(Len(reviews) + 1, content, ChangeKind(edit)),
                            Transition(meeting, moved)>>)
             /\ Answered(c, Heard(c, "idle", content))
             /\ UNCHANGED <<approval, intents>>
        ELSE Refused(c)
     /\ UNCHANGED reader

-----------------------------------------------------------------------------
\* Reading the ledger (api/adapters.py, infrastructure/workflow_events.py).

\* list_page: at most limit events after a cursor, in the order of sequence.
ListPage(cursor, limit) ==
  SubSeq(ledger, cursor + 1,
         IF cursor + limit < Len(ledger) THEN cursor + limit ELSE Len(ledger))

\* There is a next cursor when the page is full and a probe finds one more.
NextCursor(cursor, limit) ==
  LET anchor == cursor + Len(ListPage(cursor, limit))
  IN IF Len(ListPage(cursor, limit)) = limit /\ ListPage(anchor, 1) # <<>> THEN anchor ELSE 0

\* The reader keeps a page and its cursor when there is a next one.  At the end
\* of the ledger it may ask for the last page again with the cursor it has.
ReadPage(limit) ==
  LET next == NextCursor(reader.cursor, limit)
  IN /\ next # 0
     /\ reader' = [got |-> reader.got \o ListPage(reader.cursor, limit), cursor |-> next]
     /\ UNCHANGED <<stored, client, lost>>

-----------------------------------------------------------------------------
Idle == [at |-> "idle", seen |-> Nothing, asks |-> Nothing, version |-> 0]

Init ==
  /\ meeting = [status |-> "ingested", version |-> 0, review |-> 0]
  /\ reviews = <<>> /\ approval = Nothing /\ intents = <<>>
  /\ ledger = <<Ingested>>
  /\ client = [c \in Clients |-> Idle] /\ lost = 0
  /\ reader = [got |-> <<>>, cursor |-> 0]

Next ==
  \/ StartStage \/ FailStage \/ CompleteTranscription \/ Cancel
  \/ \E draft \in Drafts : CompleteExtraction(draft)
  \/ \E c \in Clients : Look(c) \/ ReadVersion(c) \/ ServeApproval(c) \/ ServeEdit(c)
  \/ \E c \in Clients, command \in Commands : Ask(c, command)
  \/ \E limit \in Limits : ReadPage(limit)

Spec == Init /\ [][Next]_vars

-----------------------------------------------------------------------------
\* Properties.

Reviewed == {"awaiting_approval", "approved", "filing", "completed"}

\* Every variable has its type; a meeting has a review from the extraction on,
\* the latest one being current, an approval when and only when it is past
\* awaiting approval, and it is filing exactly when there is something to file
\* (domain/models.py Meeting.validate_lifecycle and MeetingWorkflow.approve).
TypeOK ==
  /\ meeting \in [status : MeetingStatuses, version : 0..MaxVersion, review : Nat]
  /\ reviews \in Seq([content : Contents, seen : Contents])
  /\ meeting.review = Len(reviews)
  /\ \A n \in DOMAIN reviews : Valid(reviews[n].content)
  /\ meeting.status \in Reviewed => reviews # <<>>
  /\ approval \in Approvals \cup {Nothing}
  /\ (approval # Nothing) <=> (meeting.status \in {"filing", "completed"})
  /\ (intents # <<>>) <=> (meeting.status = "filing")
  /\ client \in [Clients -> [at : {"idle", "asked", "served", "told"},
                             seen : Contents \cup {Nothing}, asks : Commands \cup {Nothing},
                             version : 0..MaxVersion]]
  /\ lost \in 0..MaxLost

\* People get what they saw, whoever else edits, approves or cancels between
\* their look and their request, or between the version the facade reads and
\* the use case: every revision was made by somebody who had the content it
\* replaces before him; what is approved is what the approver had before him;
\* nothing is revised after it; the recap is that of the approved content; and
\* whoever is told that his approval stands, after a lost answer too, is told
\* so of the content he saw (MeetingWorkflow.approve and revise_*,
\* AsyncWorkflowFacade).
ApprovedAsSeen ==
  /\ \A n \in 2..Len(reviews) : reviews[n].seen = reviews[n - 1].content
  /\ approval # Nothing =>
       /\ approval.seen = approval.digest
       /\ Latest = approval.digest /\ OpenBlockers(approval.digest) = 0
       /\ approval.recap = approval.digest.recap
  /\ \A c \in Clients :
       client[c].at = "told" => approval # Nothing /\ approval.digest = client[c].seen

\* What an event says of the meeting, given what the events before it said.  An
\* event that does not continue them leaves no meeting that is known.
Replay(known, event) ==
  CASE event.type = "meeting" /\ event.from = known.status /\ event.version = known.version + 1
         /\ (known.awaited = 0 \/ event.to \notin {"filing", "completed"}) ->
         [known EXCEPT !.status = event.to, !.version = event.version]
    [] event.type = "revised" /\ event.number = known.number + 1 /\ known.approved = Nothing ->
         [known EXCEPT !.number = event.number, !.digest = event.digest]
    [] event.type = "approved" /\ event.number = known.number /\ event.digest = known.digest
         /\ known.status = "approved" ->
         [known EXCEPT !.approved = event.digest, !.awaited = event.count]
    [] event.type = "delivery" /\ known.awaited > 0 ->
         [known EXCEPT !.intents = @ \cup {event.intent}, !.awaited = @ - 1]
    [] event.type = "handoff" -> known
    [] OTHER -> [known EXCEPT !.status = "unknown"]

Newborn == [status |-> "ingested", version |-> 0, number |-> 0, digest |-> Nothing,
            approved |-> Nothing, intents |-> {}, awaited |-> 0]

\* What the other reads of the API say of the meeting right now: its deliveries
\* are to be those its approved content selects.
MeetingNow ==
  [status |-> meeting.status, version |-> meeting.version, number |-> Len(reviews),
   digest |-> IF reviews = <<>> THEN Nothing ELSE Latest,
   approved |-> IF approval = Nothing THEN Nothing ELSE approval.digest,
   intents |-> IF approval = Nothing THEN {} ELSE approval.digest.deliver,
   awaited |-> 0]

\* Whoever pages through the ledger while others append to it has every event
\* once and in order, and whenever the next page comes without a cursor,
\* what all the events say is what the meeting is at that moment: its status
\* and version, the number and digest of its review, its approval and its
\* deliveries (SqliteWorkflowEventRepository.append and list_page,
\* UnitOfWorkQueryFacade._list_workflow_events).
ReaderKnowsMeeting ==
  /\ IsPrefix(reader.got, ledger)
  /\ \A limit \in Limits :
       LET all == reader.got \o ListPage(reader.cursor, limit)
       IN IF NextCursor(reader.cursor, limit) = 0
          THEN all = ledger /\ FoldLeft(Replay, Newborn, Tail(all)) = MeetingNow
          ELSE all # ledger

=============================================================================
