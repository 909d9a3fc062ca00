---------------------------- MODULE ProviderBudget ----------------------------
(***************************************************************************)
(* The provider budget of one processing job: reservations that every       *)
(* request to the provider needs and the settlements that replace them with *)
(* what the request cost (application/provider_budget.py), as the           *)
(* transports use them (infrastructure/openai_budget.py,                    *)
(* openai_transcription.py), while claims of the job come and go.           *)
(*                                                                          *)
(* The claim token stands for the whole dispatch context: attempt number    *)
(* and owner name may come back, the token of a claim never does.           *)
(***************************************************************************)
EXTENDS Naturals, FiniteSetsExt

CONSTANTS
  Workers,      \* executions that may hold a claim, or believe to
  Keys,         \* dispatch keys; bounds the reservations
  MaxClaims,    \* bound: claims of the job
  Accounts,     \* the accounts a job may have been created with
  Counts,       \* what the provider may count of a request's input
  MaxOutput,    \* max_output_tokens of a request
  Duration,     \* audio_duration_ms of the recording
  Excess,       \* by how much a request may cost more than was reserved for it
  StoreFaults,  \* may a unit of work raise?
  Crashes,      \* may an execution die?
  Unlimited, NoKey

Requests == {"preflight", "provider"}
Quantities == {"input", "output", "audio"}
Dimensions == Requests \cup Quantities
Stages == {"transcription", "extraction"}

ASSUME KeysAssumption == IsFiniteSet(Keys)
ASSUME NumberAssumption ==
  /\ MaxClaims \in Nat /\ MaxOutput \in Nat /\ Duration \in Nat /\ Excess \in Nat
  /\ Counts \subseteq Nat \ {0}
\* ProviderBudgetAccount: a locked account allows nothing, a transcription's has no
\* limit on tokens, an extraction's none on audio.
ASSUME AccountAssumption ==
  \A a \in Accounts :
    /\ a.stage \in Stages /\ a.locked \in BOOLEAN
    /\ a.limits \in [Dimensions -> Nat \cup {Unlimited}]
    /\ a.locked => \A d \in Dimensions : a.limits[d] = 0
    /\ ~a.locked /\ a.stage = "transcription" =>
         \A d \in {"preflight", "input", "output"} : a.limits[d] = Unlimited
    /\ ~a.locked /\ a.stage = "extraction" => a.limits["audio"] = Unlimited
ASSUME SentinelAssumption == Unlimited \notin Nat /\ NoKey \notin Keys
ASSUME FaultAssumption == StoreFaults \in BOOLEAN /\ Crashes \in BOOLEAN

VARIABLES
  account,  \* provider_budget_accounts row
  job,      \* claim token of the running processing job, 0 when it does not
            \* run, and whether its lease is live
  tokens,   \* claim tokens drawn so far
  ledger,   \* provider_budget_reservations, with their settlements
  worker,   \* what an execution holds in memory
  sent,     \* requests on their way to the provider
  spent     \* what the provider charged for each request

remote == <<sent, spent>>
vars == <<account, job, tokens, ledger, worker, remote>>

-----------------------------------------------------------------------------
Nothing == [d \in Quantities |-> 0]

\* ProviderUsage: what a request used, in tokens or as a duration; "none" while
\* there is no settlement, or no charge.
Usage(kind, amount) == [kind |-> kind, amount |-> amount]
NoUsage == Usage("none", Nothing)

Absent == [op |-> "absent", token |-> 0, amount |-> Nothing, usage |-> NoUsage]
Idle == [step |-> "idle", token |-> 0, key |-> NoKey, count |-> 0]

Init ==
  /\ account \in Accounts
  /\ job = [token |-> 0, live |-> FALSE]
  /\ tokens = 0
  /\ ledger = [k \in Keys |-> Absent]
  /\ worker = [w \in Workers |-> Idle]
  /\ sent = {}
  /\ spent = [k \in Keys |-> NoUsage]

Held == {worker[w].key : w \in Workers}
\* Mutant: a key somebody is about to reserve is drawn again.
Unreserved == {k \in Keys : ledger[k].op = "absent"}

\* uuid4: a request id nobody has.
Fresh == {k \in Keys : ledger[k].op = "absent" /\ k \notin Held}

Goto(w, step) == worker' = [worker EXCEPT ![w].step = step]

-----------------------------------------------------------------------------
\* usage_for_job.

\* Mutant: only settled usage is charged.
ChargeSettled(e, d) ==
  IF d \in Requests \/ e.usage.kind # "none"
  THEN CASE d = "preflight" -> IF e.op = "preflight" THEN 1 ELSE 0
         [] d = "provider"  -> IF e.op \in {"create", "transcribe"} THEN 1 ELSE 0
         [] OTHER           -> e.usage.amount[d]
  ELSE 0

\* What reservation e counts for in dimension d: the usage it was settled with,
\* in the dimensions that usage has, and otherwise the envelope reserved.
ChargeOf(e, d) ==
  CASE d = "preflight" -> IF e.op = "preflight" THEN 1 ELSE 0
    [] d = "provider"  -> IF e.op \in {"create", "transcribe"} THEN 1 ELSE 0
    [] d = "audio"     -> IF e.usage.kind = "duration" THEN e.usage.amount[d]
                          ELSE e.amount[d]
    [] OTHER           -> IF e.usage.kind = "tokens" THEN e.usage.amount[d]
                          ELSE e.amount[d]

Charged(d) == MapThenSumSet(LAMBDA k : ChargeOf(ledger[k], d), Keys)

Limited == {d \in Dimensions : account.limits[d] # Unlimited}

\* _ensure_available
Available(e) ==
  /\ ~account.locked
  /\ \A d \in Limited : Charged(d) + ChargeOf(e, d) <= account.limits[d]

\* Mutant: attempt and owner are compared, the claim token is not.
ActiveAnyToken(w) == job.token # 0 /\ job.live

\* _require_active_job: the worker's claim is the one that runs, and it is live.
Active(w) == job.token = worker[w].token /\ job.live

\* The reservation a worker's step asks for.
Reservation(w) ==
  LET m == worker[w]
      op == IF account.stage = "transcription" THEN "transcribe"
            ELSE IF m.step = "preflight" THEN "preflight" ELSE "create"
  IN [op |-> op, token |-> m.token, usage |-> NoUsage,
      amount |-> [Nothing EXCEPT
                    !["input"] = IF op = "create" THEN m.count ELSE 0,
                    !["output"] = IF op = "create" THEN MaxOutput ELSE 0,
                    !["audio"] = IF op = "transcribe" THEN Duration ELSE 0]]

-----------------------------------------------------------------------------
\* Claims of the job (application/processing.py).

Claim(w) ==
  /\ worker[w].step = "idle" /\ ~job.live /\ tokens < MaxClaims
  /\ tokens' = tokens + 1
  /\ job' = [token |-> tokens', live |-> TRUE]
  /\ worker' = [worker EXCEPT ![w] = [step |-> "ready", token |-> tokens', key |-> NoKey, count |-> 0]]
  /\ UNCHANGED <<account, ledger, remote>>

\* The execution ends; a claim it still has, with its lease, is given up.
Finish(w) ==
  /\ worker[w].step \in {"ready", "done"}
  /\ job' = IF Active(w) THEN [token |-> 0, live |-> FALSE] ELSE job
  /\ worker' = [worker EXCEPT ![w] = Idle]
  /\ UNCHANGED <<account, tokens, ledger, remote>>

LeaseExpires ==
  /\ job.live
  /\ job' = [job EXCEPT !.live = FALSE]
  /\ UNCHANGED <<account, tokens, ledger, worker, remote>>

-----------------------------------------------------------------------------
\* One call: an input count and a response, or a transcription.

\* The client request id of the call's first request is drawn.
StartCall(w) ==
  /\ worker[w].step = "ready"
  /\ \E k \in Fresh :
       worker' = [worker EXCEPT ![w].key = k, ![w].count = 0,
                    ![w].step = IF account.stage = "extraction" THEN "preflight"
                                ELSE "reserve"]
  /\ UNCHANGED <<account, job, tokens, ledger, remote>>

\* Where a worker goes whose reservation is known to be committed.
Committed(step) == IF step \in {"preflight", "recheck_preflight"} THEN "count" ELSE "send"

\* Where it goes when the unit of work raised something else.
Recheck(step) == IF step = "preflight" THEN "recheck_preflight" ELSE "recheck"

\* _reserve.  Refused, the call ends; an exception leaves open whether it was
\* committed.
Reserve(w) ==
  LET m == worker[w]
      entry == Reservation(w)
      added == [ledger EXCEPT ![m.key] = entry]
  IN
  /\ m.step \in {"preflight", "reserve"}
  /\ \/ IF Active(w) /\ Available(entry)
        THEN ledger' = added /\ Goto(w, Committed(m.step))
        ELSE Goto(w, "done") /\ UNCHANGED ledger
     \/ /\ StoreFaults
        /\ Goto(w, Recheck(m.step))
        /\ ledger' = ledger \/ (Active(w) /\ Available(entry) /\ ledger' = added)
  /\ UNCHANGED <<account, job, tokens, remote>>

\* Mutant: what was not committed is gone on with as well.
ReconcileNothing(w) ==
  /\ worker[w].step \in {"recheck_preflight", "recheck"}
  /\ Goto(w, Committed(worker[w].step))
  /\ UNCHANGED <<account, job, tokens, ledger, remote>>

\* _reconcile_reservation: only what was committed, and under a claim that still
\* runs, is gone on with.
ReconcileReservation(w) ==
  LET m == worker[w] IN
  /\ m.step \in {"recheck_preflight", "recheck"}
  /\ \/ /\ Active(w) /\ ledger[m.key].op # "absent"
        /\ Goto(w, Committed(m.step))
     \/ /\ StoreFaults \/ ~(Active(w) /\ ledger[m.key].op # "absent")
        /\ Goto(w, "done")
  /\ UNCHANGED <<account, job, tokens, ledger, remote>>

\* The input tokens are counted, or not.  The response has a request id of its own.
CountInput(w) ==
  /\ worker[w].step = "count"
  /\ sent' = sent \cup {worker[w].key}
  /\ \/ \E k \in Fresh, n \in Counts :
          worker' = [worker EXCEPT ![w].key = k, ![w].count = n, ![w].step = "reserve"]
     \/ Goto(w, "done")
  /\ UNCHANGED <<account, job, tokens, ledger, spent>>

Send(w) ==
  /\ worker[w].step = "send"
  /\ sent' = sent \cup {worker[w].key}
  /\ Goto(w, "wait")
  /\ UNCHANGED <<account, job, tokens, ledger, spent>>

TokensOf(i, o) == Usage("tokens", [Nothing EXCEPT !["input"] = i, !["output"] = o])
DurationOf(a) == Usage("duration", [Nothing EXCEPT !["audio"] = a])

\* What the provider may charge for a request that e was reserved for: tokens, of
\* which a transcription reserves none, or the duration of a transcription.
Costs(e) ==
  LET upTo(d) == 0 .. (e.amount[d] + Excess) IN
  IF e.op = "transcribe"
  THEN {TokensOf(1, 1)} \cup {DurationOf(a) : a \in upTo("audio") \ {0}}
  ELSE {TokensOf(i, o) : i \in upTo("input"), o \in upTo("output")}

\* The provider serves a request, whoever still waits for it; counting is free.
Serve(k) ==
  /\ k \in sent /\ spent[k] = NoUsage /\ ledger[k].op # "preflight"
  /\ \E cost \in Costs(ledger[k]) : spent' = [spent EXCEPT ![k] = cost]
  /\ UNCHANGED <<account, job, tokens, ledger, worker, sent>>

\* An extraction goes on to its next response; a transcription is one request.
Answered == IF account.stage = "extraction" THEN "ready" ELSE "done"

\* The answer arrives with its usage, without a usable one, or not at all.
Answer(w) ==
  /\ worker[w].step = "wait"
  /\ \/ spent[worker[w].key] # NoUsage /\ Goto(w, "settle")
     \/ spent[worker[w].key] # NoUsage /\ Goto(w, Answered)
     \/ Goto(w, "done")
  /\ UNCHANGED <<account, job, tokens, ledger, remote>>

\* Mutant: a settlement needs the claim, like a reservation.
SettleActive(w) ==
  LET k == worker[w].key IN
  /\ worker[w].step = "settle"
  /\ IF Active(w) THEN ledger' = [ledger EXCEPT ![k].usage = spent[k]]
     ELSE UNCHANGED ledger
  /\ Goto(w, Answered)
  /\ UNCHANGED <<account, job, tokens, remote>>

\* Mutant: a settlement is made of what was reserved.
SettleEnvelope(w) ==
  LET k == worker[w].key IN
  /\ worker[w].step = "settle"
  /\ ledger' = [ledger EXCEPT ![k].usage = Usage("tokens", ledger[k].amount)]
  /\ Goto(w, Answered)
  /\ UNCHANGED <<account, job, tokens, remote>>

\* _settle.  The claim is not asked for; a unit of work that raises is ignored.
Settle(w) ==
  LET k == worker[w].key IN
  /\ worker[w].step = "settle"
  /\ \/ ledger' = [ledger EXCEPT ![k].usage = spent[k]]
     \/ StoreFaults /\ UNCHANGED ledger
  /\ Goto(w, Answered)
  /\ UNCHANGED <<account, job, tokens, remote>>

Crash(w) ==
  /\ Crashes /\ worker[w].step # "idle"
  /\ worker' = [worker EXCEPT ![w] = Idle]
  /\ UNCHANGED <<account, job, tokens, ledger, remote>>

-----------------------------------------------------------------------------
Execute(w) ==
  \/ Claim(w) \/ Finish(w) \/ StartCall(w) \/ Reserve(w) \/ ReconcileReservation(w)
  \/ CountInput(w) \/ Send(w) \/ Answer(w) \/ Settle(w)

Next ==
  \/ \E w \in Workers : Execute(w) \/ Crash(w)
  \/ \E k \in Keys : Serve(k)
  \/ LeaseExpires

Spec == Init /\ [][Next]_vars
FairSpec == Spec /\ \A w \in Workers : WF_vars(Execute(w))

-----------------------------------------------------------------------------
\* Correctness.

Steps ==
  {"idle", "ready", "preflight", "count", "reserve", "recheck_preflight", "recheck",
   "send", "wait", "settle", "done"}
Amount == [Quantities -> Nat]
UsageRecord == [kind : {"none", "tokens", "duration"}, amount : Amount]

\* Every variable keeps its type, the job's claim and those of the ledger are ones
\* that were drawn, and no two executions go by the same dispatch key.
TypeOK ==
  /\ account \in Accounts
  /\ job \in [token : 0 .. tokens, live : BOOLEAN] /\ tokens \in 0 .. MaxClaims
  /\ ledger \in [Keys -> [op : {"absent", "preflight", "create", "transcribe"},
                          token : 0 .. tokens, amount : Amount, usage : UsageRecord]]
  /\ worker \in [Workers -> [step : Steps, token : 0 .. tokens,
                             key : Keys \cup {NoKey}, count : Nat]]
  /\ \A w, v \in Workers : worker[w].key = worker[v].key => v = w \/ worker[w].key = NoKey
  /\ sent \subseteq Keys
  /\ spent \in [Keys -> UsageRecord]

\* What request k cost so far: a request once it may have reached the provider.
SpentOn(k, d) ==
  CASE d = "preflight" -> IF k \in sent /\ ledger[k].op = "preflight" THEN 1 ELSE 0
    [] d = "provider"  -> IF k \in sent /\ ledger[k].op # "preflight" THEN 1 ELSE 0
    [] OTHER           -> spent[k].amount[d]

Spent(d) == MapThenSumSet(LAMBDA k : SpentOn(k, d), Keys)

\* The provider charged for request k no more than was reserved for it.
AsReserved(k) == \A d \in Limited \ Requests : spent[k].amount[d] <= ledger[k].amount[d]

\* Over all its claims a job never makes more requests than its account allows, and
\* as long as the provider charges no more than was counted and allowed it never
\* costs more, with answers, settlements and executions lost anywhere
\* (SECURITY.md:160, README.md:150, provider_budget.py _ensure_available).
SpendWithinLimit ==
  \A d \in Limited :
    d \in Requests \/ (\A k \in Keys : AsReserved(k)) => Spent(d) <= account.limits[d]

\* A request that costs no more than was reserved for it costs no more than the
\* ledger charges: what may have been sent is reserved, and a settlement takes back
\* only what was not used (ARCHITECTURE.md:117, repositories.py usage_for_job).
LedgerCoversSpend ==
  \A k \in Keys, d \in Limited :
    AsReserved(k) => SpentOn(k, d) <= ChargeOf(ledger[k], d)

\* A settlement is the usage of its own request, however late it is made and
\* whatever calls and claims came between (provider_budget.py _settle).
SettledAsSpent ==
  \A k \in Keys : ledger[k].usage.kind # "none" => ledger[k].usage = spent[k]

\* Once a claim has reserved, no earlier claim reserves again, although attempt
\* numbers and owner names come back (provider_budget.py _require_active_job).
ClaimsReserveInOrder ==
  [][\A k \in Keys :
       ledger[k].op = "absent" /\ ledger'[k].op # "absent" =>
         \A j \in Keys : ledger[j].token <= ledger'[k].token]_vars

\* The cost of an answer that arrived is recorded, also after the lease ran out
\* or the job was claimed again (ARCHITECTURE.md:143).
LateCostRecorded ==
  \A k \in Keys :
    (\E w \in Workers : worker[w].step = "settle" /\ worker[w].key = k)
      ~> ledger[k].usage.kind # "none"
=============================================================================
