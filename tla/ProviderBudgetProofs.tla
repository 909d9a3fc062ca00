------------------------- MODULE ProviderBudgetProofs -------------------------
(***************************************************************************)
(* What holds of ProviderBudget for every account, any number of claims,    *)
(* executions and requests, and any loss of answers and of memory; and what *)
(* the ledger adds up to, for any finite set of requests.                   *)
(***************************************************************************)
EXTENDS ProviderBudget, FiniteSetTheorems, TLAPS

(* The memory of an execution that is at work on a request fits the ledger. *)
MemoryFits(mem, rows, costs) ==
  /\ mem.step \in Steps \ {"idle", "ready", "done"} => mem.key \in Keys
  /\ mem.step \in {"preflight", "reserve"} => rows[mem.key].op = "absent"
  /\ mem.step = "recheck_preflight" => rows[mem.key].op \in {"absent", "preflight"}
  /\ mem.step = "recheck" => rows[mem.key].op \in {"absent", "create", "transcribe"}
  /\ mem.step = "count" => rows[mem.key].op = "preflight"
  /\ mem.step \in {"send", "wait", "settle"} => rows[mem.key].op \in {"create", "transcribe"}
  /\ mem.step = "settle" => costs[mem.key] # NoUsage
  /\ mem.step = "preflight" => account.stage = "extraction"

(* A reservation, what was sent under it, what it cost, and its settlement. *)
RowFits(k, row, cost) ==
  /\ k \in sent => row.op # "absent"
  /\ cost # NoUsage =>
       k \in sent /\ row.op \in {"create", "transcribe"} /\ cost \in Costs(row)
  /\ row.usage.kind # "none" => row.usage = cost
  /\ row.op # "absent" => ~account.locked
  /\ row.op = "transcribe" => account.stage = "transcription"

MemoriesFit == \A w \in Workers : MemoryFits(worker[w], ledger, spent)
RowsFit == \A k \in Keys : RowFits(k, ledger[k], spent[k])

(* The inductive invariant: also, a live lease is that of the last claim. *)
Inv == TypeOK /\ MemoriesFit /\ RowsFit /\ (job.live => job.token = tokens)

-----------------------------------------------------------------------------
LEMMA NothingFits == Nothing \in Amount /\ NoUsage \in UsageRecord
BY DEF Nothing, Amount, NoUsage, Usage, UsageRecord

(* What the provider may charge is a usage, and never none. *)
LEMMA CostsFit ==
  ASSUME NEW e, e.amount \in Amount, NEW cost \in Costs(e)
  PROVE  cost \in UsageRecord /\ cost.kind # "none"
<1>1. \A i, o \in Nat : TokensOf(i, o) \in UsageRecord /\ TokensOf(i, o).kind # "none"
  BY DEF Nothing, Amount, Quantities, TokensOf, Usage, UsageRecord
<1>2. \A a \in Nat : DurationOf(a) \in UsageRecord /\ DurationOf(a).kind # "none"
  BY DEF Nothing, Amount, Quantities, DurationOf, Usage, UsageRecord
<1>3. CASE e.op = "transcribe"
  <2>1. cost = TokensOf(1, 1) \/ \E a \in Nat : cost = DurationOf(a)
    BY <1>3 DEF Costs
  <2> QED
    BY <2>1, <1>1, <1>2
<1>4. CASE e.op # "transcribe"
  <2>1. \E i, o \in Nat : cost = TokensOf(i, o)
    BY <1>4 DEF Costs
  <2> QED
    BY <2>1, <1>1
<1> QED
  BY <1>3, <1>4

(* What an execution holds in memory. *)
Memory == [step : Steps, token : 0 .. tokens, key : Keys \cup {NoKey}, count : Nat]

(* The row of a reservation. *)
Rows == [op : {"absent", "preflight", "create", "transcribe"},
         token : 0 .. tokens, amount : Amount, usage : UsageRecord]

(* An execution goes to a step that its request fits; it may have sent requests *)
(* that are reserved, and the job's claim may have ended.                       *)
LEMMA GoOn ==
  ASSUME Inv, NEW w \in Workers, NEW mem \in Memory, worker' = [worker EXCEPT ![w] = mem],
         mem.key \in {NoKey, worker[w].key} \cup Fresh, MemoryFits(mem, ledger, spent),
         job' \in [token : 0 .. tokens, live : BOOLEAN], job'.live => job'.token = tokens,
         sent \subseteq sent', \A k \in sent' : k \in Keys /\ ledger[k].op # "absent",
         UNCHANGED <<account, tokens, ledger, spent>>
  PROVE  Inv'
<1>1. \A v \in Workers : v # w => worker'[v] = worker[v] /\ worker[v].key \in Held
  BY DEF Inv, TypeOK, Held
<1>2. worker'[w] = mem
  BY DEF Inv, TypeOK
<1>3. \A v \in Workers : v # w => worker'[v].key # mem.key \/ mem.key = NoKey
  BY <1>1 DEF Inv, TypeOK, Fresh
<1>4. TypeOK'
  BY <1>1, <1>2, <1>3 DEF Inv, TypeOK, Memory
<1>5. MemoriesFit'
  BY <1>1, <1>2 DEF Inv, MemoriesFit, MemoryFits
<1>6. RowsFit'
  BY DEF Inv, RowsFit, RowFits
<1> QED
  BY <1>4, <1>5, <1>6 DEF Inv

(* The same when the job and what is sent stay. *)
LEMMA GoOnQuietly ==
  ASSUME Inv, NEW w \in Workers, NEW mem \in Memory, worker' = [worker EXCEPT ![w] = mem],
         mem.key \in {NoKey, worker[w].key} \cup Fresh, MemoryFits(mem, ledger, spent),
         UNCHANGED <<account, job, tokens, ledger, remote>>
  PROVE  Inv'
<1>1. \A k \in sent : k \in Keys /\ ledger[k].op # "absent"
  BY DEF Inv, TypeOK, RowsFit, RowFits
<1> QED
  BY <1>1, GoOn DEF Inv, TypeOK, remote

(* The step of an execution changes. *)
LEMMA GotoFits ==
  ASSUME Inv, NEW w \in Workers, NEW step \in Steps, Goto(w, step),
         MemoryFits([worker[w] EXCEPT !.step = step], ledger, spent),
         UNCHANGED <<account, job, tokens, ledger, remote>>
  PROVE  Inv'
<1> DEFINE mem == [worker[w] EXCEPT !.step = step]
<1>1. mem \in Memory /\ mem.key = worker[w].key
  BY DEF Inv, TypeOK, Memory
<1>2. worker' = [worker EXCEPT ![w] = mem]
  BY DEF Goto, Inv, TypeOK
<1>3. MemoryFits(mem, ledger, spent)
  OBVIOUS
<1> HIDE DEF mem
<1> QED
  BY <1>1, <1>2, <1>3, GoOnQuietly

(* An execution writes the row of its own key. *)
LEMMA WriteFits ==
  ASSUME Inv, NEW w \in Workers, NEW step \in Steps, Goto(w, step),
         NEW k \in Keys, worker[w].key = k, NEW row \in Rows, RowFits(k, row, spent[k]),
         ledger' = [ledger EXCEPT ![k] = row],
         MemoryFits([worker[w] EXCEPT !.step = step], ledger', spent),
         UNCHANGED <<account, job, tokens, remote>>
  PROVE  Inv'
<1>1. \A v \in Workers : v # w => worker'[v] = worker[v] /\ worker[v].key # k
  BY SentinelAssumption DEF Goto, Inv, TypeOK
<1>2. worker'[w] = [worker[w] EXCEPT !.step = step] /\ worker'[w].key = k
  BY DEF Goto, Inv, TypeOK
<1>3. \A j \in Keys : j # k => ledger'[j] = ledger[j]
  BY DEF Inv, TypeOK
<1>4. ledger'[k] = row
  BY DEF Inv, TypeOK
<1>5. worker' \in [Workers -> Memory]
  BY <1>1, <1>2 DEF Inv, TypeOK, Memory, Goto
<1>6. TypeOK'
  <2>1. ledger' \in [Keys -> Rows]
    BY DEF Inv, TypeOK, Rows
  <2>2. \A v, u \in Workers : worker'[v].key = worker'[u].key => u = v \/ worker'[v].key = NoKey
    BY <1>1, <1>2 DEF Inv, TypeOK
  <2> QED
    BY <2>1, <2>2, <1>5 DEF Inv, TypeOK, remote, Memory, Rows
<1>7. MemoriesFit'
  <2>1. \A v \in Workers : v # w => MemoryFits(worker[v], ledger', spent)
    BY <1>1, <1>3 DEF Inv, MemoriesFit, MemoryFits
  <2> QED
    BY <2>1, <1>1, <1>2 DEF MemoriesFit, MemoryFits, remote
<1>8. RowsFit'
  BY <1>3, <1>4 DEF Inv, RowsFit, RowFits, remote
<1> QED
  BY <1>6, <1>7, <1>8 DEF Inv

-----------------------------------------------------------------------------
(* The steps.                                                              *)

LEMMA ClaimFits == ASSUME Inv, NEW w \in Workers, Claim(w) PROVE Inv'
<1> DEFINE mem == [step |-> "ready", token |-> tokens', key |-> NoKey, count |-> 0]
<1>1. tokens' \in 0 .. MaxClaims /\ tokens' = tokens + 1 /\ 0 .. tokens \subseteq 0 .. tokens'
  BY NumberAssumption DEF Claim, Inv, TypeOK
<1>2. \A v \in Workers : v # w => worker'[v] = worker[v]
  BY DEF Claim, Inv, TypeOK
<1>3. worker'[w] = mem /\ mem.step = "ready" /\ mem.key = NoKey
  BY DEF Claim, Inv, TypeOK
<1>4. mem \in Memory'
  <2>1. tokens' \in 0 .. tokens'
    BY <1>1 DEF Inv, TypeOK
  <2> QED
    BY <2>1 DEF Memory, Steps
<1>5. worker' \in [Workers -> Memory']
  <2>1. \A v \in Workers : worker[v] \in Memory'
    BY <1>1 DEF Inv, TypeOK, Memory
  <2> HIDE DEF mem
  <2> QED
    BY <2>1, <1>2, <1>3, <1>4 DEF Claim, Inv, TypeOK
<1>6. ledger' \in [Keys -> Rows']
  BY <1>1 DEF Claim, Inv, TypeOK, Rows
<1>7. TypeOK'
  BY <1>1, <1>2, <1>3, <1>5, <1>6 DEF Claim, Inv, TypeOK, remote, Memory, Rows
<1>8. MemoriesFit'
  BY <1>2, <1>3 DEF Claim, Inv, MemoriesFit, MemoryFits, remote
<1>9. RowsFit'
  BY DEF Claim, Inv, RowsFit, RowFits, remote
<1> QED
  BY <1>7, <1>8, <1>9 DEF Inv, Claim

LEMMA IdleFits == Inv => Idle \in Memory /\ Idle.key = NoKey /\ MemoryFits(Idle, ledger, spent)
BY DEF Idle, Memory, MemoryFits, Steps, Inv, TypeOK

LEMMA FinishFits == ASSUME Inv, NEW w \in Workers, Finish(w) PROVE Inv'
<1>1. job' \in [token : 0 .. tokens, live : BOOLEAN] /\ (job'.live => job'.token = tokens)
  BY DEF Finish, Inv, TypeOK
<1>2. \A k \in sent : k \in Keys /\ ledger[k].op # "absent"
  BY DEF Inv, TypeOK, RowsFit, RowFits
<1> QED
  BY <1>1, <1>2, IdleFits, GoOn DEF Finish, remote

LEMMA CrashFits == ASSUME Inv, NEW w \in Workers, Crash(w) PROVE Inv'
BY IdleFits, GoOnQuietly DEF Crash

LEMMA LeaseExpiresFits == ASSUME Inv, LeaseExpires PROVE Inv'
BY DEF LeaseExpires, Inv, TypeOK, MemoriesFit, MemoryFits, RowsFit, RowFits, remote

LEMMA StartCallFits == ASSUME Inv, NEW w \in Workers, StartCall(w) PROVE Inv'
<1> DEFINE step == IF account.stage = "extraction" THEN "preflight" ELSE "reserve"
<1>1. PICK k \in Fresh : worker' = [worker EXCEPT ![w].key = k, ![w].count = 0, ![w].step = step]
  BY DEF StartCall
<1> DEFINE mem == [worker[w] EXCEPT !.key = k, !.count = 0, !.step = step]
<1>2. worker' = [worker EXCEPT ![w] = mem]
  BY <1>1 DEF Inv, TypeOK
<1>3. mem \in Memory /\ mem.key = k
  BY DEF Inv, TypeOK, Memory, Steps, Fresh
<1>4. MemoryFits(mem, ledger, spent)
  BY <1>3 DEF MemoryFits, Fresh, Inv, TypeOK
<1> HIDE DEF mem
<1> QED
  BY <1>2, <1>3, <1>4, GoOnQuietly DEF StartCall

(* An execution whose step ends its call fits whatever the ledger holds. *)
LEMMA EndFits ==
  ASSUME Inv, NEW w \in Workers, NEW step \in {"ready", "done"}, Goto(w, step),
         UNCHANGED <<account, job, tokens, ledger, remote>>
  PROVE  Inv'
<1>1. MemoryFits([worker[w] EXCEPT !.step = step], ledger, spent)
  BY DEF Inv, TypeOK, MemoryFits
<1> QED
  BY <1>1, GotoFits DEF Steps

(* The row that is reserved is of a kind its account has. *)
LEMMA ReservationFits ==
  ASSUME Inv, NEW w \in Workers, worker[w].step \in {"preflight", "reserve"},
         ~account.locked, worker[w].key \notin sent, spent[worker[w].key] = NoUsage
  PROVE  /\ Reservation(w) \in Rows
         /\ RowFits(worker[w].key, Reservation(w), spent[worker[w].key])
         /\ Reservation(w).op = IF worker[w].step = "preflight" THEN "preflight"
                                ELSE IF account.stage = "transcription" THEN "transcribe"
                                ELSE "create"
<1>1. worker[w].step = "preflight" => account.stage # "transcription"
  BY DEF Inv, MemoriesFit, MemoryFits
<1>2. Reservation(w).op = IF worker[w].step = "preflight" THEN "preflight"
                         ELSE IF account.stage = "transcription" THEN "transcribe"
                         ELSE "create"
  BY <1>1 DEF Reservation
<1>3. Reservation(w).amount \in Amount
  BY NumberAssumption DEF Reservation, Amount, Quantities, Nothing, Inv, TypeOK
<1>4. Reservation(w) \in Rows
  <2>1. Reservation(w) = [op |-> Reservation(w).op, token |-> worker[w].token,
                          usage |-> NoUsage, amount |-> Reservation(w).amount]
    BY DEF Reservation
  <2> QED
    BY <2>1, <1>2, <1>3, NothingFits DEF Rows, Inv, TypeOK
<1>5. Reservation(w).usage.kind = "none"
  BY DEF Reservation, NoUsage, Usage
<1> QED
  BY <1>2, <1>4, <1>5 DEF RowFits

LEMMA ReserveFits == ASSUME Inv, NEW w \in Workers, Reserve(w) PROVE Inv'
<1> DEFINE k == worker[w].key
<1>1. /\ worker[w].step \in {"preflight", "reserve"} /\ k \in Keys
      /\ ledger[k].op = "absent" /\ k \notin sent /\ spent[k] = NoUsage
  BY DEF Reserve, Inv, MemoriesFit, MemoryFits, RowsFit, RowFits, Steps
<1>2. CASE Goto(w, "done") /\ UNCHANGED ledger
  BY <1>2, EndFits DEF Reserve
<1>3. CASE Goto(w, Recheck(worker[w].step)) /\ UNCHANGED ledger
  <2>1. MemoryFits([worker[w] EXCEPT !.step = Recheck(worker[w].step)], ledger, spent)
    BY <1>1 DEF Inv, TypeOK, MemoryFits, Recheck
  <2>2. Recheck(worker[w].step) \in Steps
    BY DEF Recheck, Steps
  <2> QED
    BY <1>3, <2>1, <2>2, GotoFits DEF Reserve
<1>4. ASSUME NEW step, step \in {Committed(worker[w].step), Recheck(worker[w].step)},
             Goto(w, step), Available(Reservation(w)),
             ledger' = [ledger EXCEPT ![k] = Reservation(w)]
      PROVE  Inv'
  <2>1. ~account.locked
    BY <1>4 DEF Available
  <2>2. /\ Reservation(w) \in Rows /\ RowFits(k, Reservation(w), spent[k])
        /\ Reservation(w).op = IF worker[w].step = "preflight" THEN "preflight"
                               ELSE IF account.stage = "transcription" THEN "transcribe"
                               ELSE "create"
    BY <1>1, <2>1, ReservationFits
  <2>3. ledger'[k] = Reservation(w)
    BY <1>1, <1>4 DEF Inv, TypeOK
  <2>4. step \in Steps
    BY <1>4 DEF Committed, Recheck, Steps
  <2>5. MemoryFits([worker[w] EXCEPT !.step = step], ledger', spent)
    BY <1>1, <1>4, <2>2, <2>3 DEF Inv, TypeOK, MemoryFits, Committed, Recheck
  <2> HIDE DEF k
  <2> QED
    BY <1>1, <1>4, <2>2, <2>4, <2>5, WriteFits DEF Reserve, k
<1> QED
  BY <1>2, <1>3, <1>4 DEF Reserve

LEMMA ReconcileReservationFits ==
  ASSUME Inv, NEW w \in Workers, ReconcileReservation(w) PROVE Inv'
<1>1. CASE Goto(w, "done")
  BY <1>1, EndFits DEF ReconcileReservation
<1>2. CASE ledger[worker[w].key].op # "absent" /\ Goto(w, Committed(worker[w].step))
  <2>1. MemoryFits([worker[w] EXCEPT !.step = Committed(worker[w].step)], ledger, spent)
    BY <1>2 DEF ReconcileReservation, Committed, Inv, TypeOK, MemoriesFit, MemoryFits, Steps
  <2>2. Committed(worker[w].step) \in Steps
    BY DEF Committed, Steps
  <2> QED
    BY <1>2, <2>1, <2>2, GotoFits DEF ReconcileReservation
<1> QED
  BY <1>1, <1>2 DEF ReconcileReservation

(* Only requests that are reserved are sent. *)
LEMMA SentReserved ==
  ASSUME Inv, NEW w \in Workers, worker[w].step \in {"count", "send"},
         sent' = sent \cup {worker[w].key}
  PROVE  \A k \in sent' : k \in Keys /\ ledger[k].op # "absent"
BY DEF Inv, TypeOK, MemoriesFit, MemoryFits, RowsFit, RowFits, Steps

LEMMA CountInputFits == ASSUME Inv, NEW w \in Workers, CountInput(w) PROVE Inv'
<1>1. \A k \in sent' : k \in Keys /\ ledger[k].op # "absent"
  BY SentReserved DEF CountInput
<1>2. ASSUME NEW mem \in Memory, worker' = [worker EXCEPT ![w] = mem],
             mem.key \in {worker[w].key} \cup Fresh, MemoryFits(mem, ledger, spent)
      PROVE  Inv'
  BY <1>1, <1>2, GoOn DEF CountInput, Inv, TypeOK
<1>3. ASSUME NEW k \in Fresh, NEW n \in Counts,
             worker' = [worker EXCEPT ![w].key = k, ![w].count = n, ![w].step = "reserve"]
      PROVE  Inv'
  <2> DEFINE mem == [worker[w] EXCEPT !.key = k, !.count = n, !.step = "reserve"]
  <2>1. worker' = [worker EXCEPT ![w] = mem]
    BY <1>3 DEF Inv, TypeOK
  <2>2. k \in Keys /\ n \in Nat /\ "reserve" \in Steps
    BY NumberAssumption DEF Fresh, Steps
  <2>3. mem \in Memory /\ mem.key = k /\ mem.step = "reserve"
    BY <2>2 DEF Inv, TypeOK, Memory
  <2>4. MemoryFits(mem, ledger, spent)
    BY <2>2, <2>3 DEF MemoryFits, Fresh
  <2> HIDE DEF mem
  <2> QED
    BY <2>1, <2>3, <2>4, <1>2
<1>4. CASE Goto(w, "done")
  <2> DEFINE mem == [worker[w] EXCEPT !.step = "done"]
  <2>1. worker' = [worker EXCEPT ![w] = mem] /\ mem \in Memory /\ mem.key = worker[w].key
    BY <1>4 DEF Goto, Inv, TypeOK, Memory, Steps
  <2>2. MemoryFits(mem, ledger, spent)
    BY DEF MemoryFits, Inv, TypeOK
  <2> HIDE DEF mem
  <2> QED
    BY <2>1, <2>2, <1>2
<1> QED
  BY <1>3, <1>4 DEF CountInput

LEMMA SendFits == ASSUME Inv, NEW w \in Workers, Send(w) PROVE Inv'
<1> DEFINE mem == [worker[w] EXCEPT !.step = "wait"]
<1>1. \A k \in sent' : k \in Keys /\ ledger[k].op # "absent"
  BY SentReserved DEF Send
<1>2. worker' = [worker EXCEPT ![w] = mem] /\ mem \in Memory /\ mem.key = worker[w].key
  BY DEF Send, Goto, Inv, TypeOK, Memory, Steps
<1>3. MemoryFits(mem, ledger, spent)
  BY DEF Send, MemoriesFit, MemoryFits, Inv, TypeOK, Steps
<1> HIDE DEF mem
<1> QED
  BY <1>1, <1>2, <1>3, GoOn DEF Send, Inv, TypeOK

(* A request is charged once, and within what Costs allows. *)
LEMMA ServeFits == ASSUME Inv, NEW k \in Keys, Serve(k) PROVE Inv'
<1>1. PICK cost \in Costs(ledger[k]) : spent' = [spent EXCEPT ![k] = cost]
  BY DEF Serve
<1>2. cost \in UsageRecord /\ cost.kind # "none" /\ cost # NoUsage
  BY CostsFit DEF Inv, TypeOK, NoUsage, Usage
<1>3. spent'[k] = cost /\ \A j \in Keys : j # k => spent'[j] = spent[j]
  BY <1>1 DEF Inv, TypeOK
<1>4. TypeOK'
  BY <1>1, <1>2 DEF Serve, Inv, TypeOK
<1>5. MemoriesFit'
  BY <1>2, <1>3 DEF Serve, Inv, MemoriesFit, MemoryFits
<1>6. RowFits(k, ledger[k], cost)
  <2>1. ledger[k].usage.kind = "none"
    BY DEF Serve, Inv, RowsFit, RowFits, NoUsage, Usage
  <2> QED
    BY <2>1 DEF Serve, Inv, TypeOK, RowsFit, RowFits
<1>7. RowsFit'
  BY <1>3, <1>6 DEF Serve, Inv, RowsFit, RowFits
<1> QED
  BY <1>4, <1>5, <1>7 DEF Serve, Inv

LEMMA AnswerFits == ASSUME Inv, NEW w \in Workers, Answer(w) PROVE Inv'
<1>1. CASE Goto(w, Answered) \/ Goto(w, "done")
  BY <1>1, EndFits DEF Answer, Answered
<1>2. CASE spent[worker[w].key] # NoUsage /\ Goto(w, "settle")
  <2>1. MemoryFits([worker[w] EXCEPT !.step = "settle"], ledger, spent)
    BY <1>2 DEF Answer, MemoriesFit, MemoryFits, Inv, TypeOK, Steps
  <2> QED
    BY <1>2, <2>1, GotoFits DEF Answer, Steps
<1> QED
  BY <1>1, <1>2 DEF Answer

LEMMA SettleFits == ASSUME Inv, NEW w \in Workers, Settle(w) PROVE Inv'
<1> DEFINE k == worker[w].key
           row == [ledger[k] EXCEPT !.usage = spent[k]]
<1>1. CASE UNCHANGED ledger
  BY <1>1, EndFits DEF Settle, Answered
<1>2. CASE ledger' = [ledger EXCEPT ![k].usage = spent[k]]
  <2>1. k \in Keys /\ spent[k] # NoUsage
    BY DEF Settle, Inv, MemoriesFit, MemoryFits, Steps
  <2>2. ledger' = [ledger EXCEPT ![k] = row] /\ row \in Rows
    BY <1>2, <2>1 DEF Inv, TypeOK, Rows
  <2>3. row.usage = spent[k] /\ row.op = ledger[k].op /\ row.amount = ledger[k].amount
    BY <2>1 DEF Inv, TypeOK
  <2>4. Costs(row) = Costs(ledger[k])
    BY <2>3 DEF Costs
  <2>5. RowFits(k, row, spent[k])
    BY <2>1, <2>3, <2>4 DEF Inv, RowsFit, RowFits
  <2>6. MemoryFits([worker[w] EXCEPT !.step = Answered], ledger', spent)
    BY DEF Inv, TypeOK, MemoryFits, Answered
  <2> HIDE DEF row, k
  <2> QED
    BY <2>1, <2>2, <2>5, <2>6, WriteFits DEF Settle, Answered, Steps, k
<1> QED
  BY <1>1, <1>2 DEF Settle

-----------------------------------------------------------------------------
LEMMA InitInv == Init => Inv
<1> SUFFICES ASSUME Init PROVE Inv
  OBVIOUS
<1>1. TypeOK
  BY NothingFits, NumberAssumption DEF Init, TypeOK, Absent, Idle, Steps
<1>2. MemoriesFit
  BY DEF Init, MemoriesFit, MemoryFits, Idle
<1>3. RowsFit
  BY DEF Init, RowsFit, RowFits, Absent, NoUsage, Usage
<1> QED
  BY <1>1, <1>2, <1>3 DEF Init, Inv

LEMMA StepInv == Inv /\ [Next]_vars => Inv'
<1> SUFFICES ASSUME Inv, [Next]_vars PROVE Inv'
  OBVIOUS
<1>1. CASE UNCHANGED vars
  BY <1>1 DEF vars, remote, Inv, TypeOK, MemoriesFit, MemoryFits, RowsFit, RowFits
<1>2. ASSUME NEW w \in Workers, Execute(w) \/ Crash(w) PROVE Inv'
  BY <1>2, ClaimFits, FinishFits, StartCallFits, ReserveFits, ReconcileReservationFits,
     CountInputFits, SendFits, AnswerFits, SettleFits, CrashFits DEF Execute
<1>3. ASSUME NEW k \in Keys, Serve(k) PROVE Inv'
  BY <1>3, ServeFits
<1> QED
  BY <1>1, <1>2, <1>3, LeaseExpiresFits DEF Next

(* Every row of the ledger keeps the shape of its model, and no two executions *)
(* go by the same dispatch key.                                                *)
THEOREM TypeCorrect == Spec => []TypeOK
BY InitInv, StepInv, PTL DEF Spec, Inv

(* A settlement is the usage of its own request, however late it is made, after *)
(* whatever expiries, claims and crashes (provider_budget.py _settle).          *)
THEOREM SettlementsCorrect == Spec => []SettledAsSpent
<1>1. Inv => SettledAsSpent
  BY DEF Inv, RowsFit, RowFits, SettledAsSpent
<1> QED
  BY <1>1, InitInv, StepInv, PTL DEF Spec

(* In a dimension its account limits a request costs no more than the ledger      *)
(* charges for it: in tokens and audio, when it costs no more than was reserved.   *)
LEMMA SpendCovered ==
  ASSUME Inv, NEW k \in Keys, NEW d \in Limited, d \in Requests \/ AsReserved(k)
  PROVE  SpentOn(k, d) \in Nat /\ SpentOn(k, d) <= ChargeOf(ledger[k], d)
<1> DEFINE row == ledger[k]
<1>1. RowFits(k, row, spent[k]) /\ row.amount \in Amount /\ row.usage.amount \in Amount
  BY DEF Inv, TypeOK, RowsFit, UsageRecord
<1>2. CASE d \in Requests
  BY <1>1, <1>2 DEF Inv, TypeOK, RowFits, SpentOn, ChargeOf, Requests
<1>3. ASSUME d \in Quantities, d \notin Requests
      PROVE  SpentOn(k, d) \in Nat /\ SpentOn(k, d) <= ChargeOf(row, d)
  <2>1. SpentOn(k, d) = spent[k].amount[d]
    BY <1>3 DEF SpentOn, Quantities
  <2>2. ChargeOf(row, d) \in {row.usage.amount[d], row.amount[d]}
    BY <1>3 DEF ChargeOf, Quantities
  <2>3. row.usage.kind = "none" => ChargeOf(row, d) = row.amount[d]
    BY <1>3 DEF ChargeOf, Quantities
  <2>4. row.usage.kind # "none" => row.usage = spent[k]
    BY <1>1 DEF RowFits
  <2>5. spent[k].amount[d] <= row.amount[d]
    BY <1>3 DEF AsReserved, Quantities, Requests
  <2>6. spent[k].amount[d] \in Nat
    BY <1>3 DEF Inv, TypeOK, UsageRecord, Amount
  <2> QED
    BY <2>1, <2>2, <2>3, <2>4, <2>5, <2>6
<1> QED
  BY <1>2, <1>3 DEF Limited, Dimensions

(* A request that costs no more than was reserved for it costs no more, in a      *)
(* dimension its account limits, than the ledger charges: what may have been sent *)
(* is reserved, and a settlement takes back only what was not used                *)
(* (repositories.py usage_for_job).                                               *)
THEOREM LedgerCovers == Spec => []LedgerCoversSpend
<1>1. Inv => LedgerCoversSpend
  BY SpendCovered DEF LedgerCoversSpend
<1> QED
  BY <1>1, InitInv, StepInv, PTL DEF Spec

(* Once a claim has reserved, no earlier claim reserves again: a reservation is *)
(* made under a live lease only, which is that of the last claim drawn, whatever *)
(* attempt numbers and owner names come back.                                    *)
THEOREM ClaimsInOrder == Spec => ClaimsReserveInOrder
<1> DEFINE InOrder ==
      \A k \in Keys :
        ledger[k].op = "absent" /\ ledger'[k].op # "absent" =>
          \A j \in Keys : ledger[j].token <= ledger'[k].token
<1>1. Inv /\ [Next]_vars => InOrder
  <2> SUFFICES ASSUME Inv, [Next]_vars, NEW k \in Keys,
                      ledger[k].op = "absent", ledger'[k].op # "absent"
               PROVE  \A j \in Keys : ledger[j].token <= ledger'[k].token
    OBVIOUS
  <2>1. ~UNCHANGED ledger
    OBVIOUS
  <2>2. \A w \in Workers : ~Settle(w)
    BY <2>1 DEF Settle, Inv, TypeOK, MemoriesFit, MemoryFits, Steps
  <2>3. PICK w \in Workers : Reserve(w)
    BY <2>1, <2>2 DEF Next, Execute, Claim, Finish, StartCall, ReconcileReservation, CountInput,
       Send, Answer, Crash, Serve, LeaseExpires, vars
  <2>4. Active(w) /\ ledger' = [ledger EXCEPT ![worker[w].key] = Reservation(w)]
    BY <2>1, <2>3 DEF Reserve
  <2>5. ledger'[k] = Reservation(w)
    BY <2>1, <2>4 DEF Inv, TypeOK
  <2>6. ledger'[k].token = tokens
    BY <2>4, <2>5 DEF Reservation, Active, Inv
  <2> QED
    BY <2>6 DEF Inv, TypeOK
<1> QED
  BY <1>1, InitInv, StepInv, PTL DEF Spec, ClaimsReserveInOrder

-----------------------------------------------------------------------------
(* Sums.  usage_for_job adds up what each reservation counts for; what such a *)
(* sum does when the ledger changes is proved by taking away one key after    *)
(* another.                                                                   *)

(* The sum of c over all keys, and the sums over sets of keys it is made of. *)
Sum(c) == MapThenSumSet(LAMBDA k : c[k], Keys)
Pick(s) == CHOOSE k \in s : TRUE
Adds(c, f) ==
  f = [s \in SUBSET Keys |-> IF s = {} THEN 0 ELSE c[Pick(s)] + f[s \ {Pick(s)}]]

LEMMA PickFits ==
  ASSUME NEW s \in SUBSET Keys, s # {}
  PROVE  Pick(s) \in s /\ Pick(s) \in Keys /\ s \ {Pick(s)} \in SUBSET Keys
BY DEF Pick

(* What holds of the empty set, and of a set when it holds of what is left of the *)
(* set without the key picked from it, holds of all sets of keys.                 *)
LEMMA SetInduction ==
  ASSUME NEW Good, {} \in Good,
         \A s \in SUBSET Keys : s # {} /\ s \ {Pick(s)} \in Good => s \in Good
  PROVE  SUBSET Keys \subseteq Good
<1> DEFINE Bad == (SUBSET Keys) \ Good
<1> SUFFICES ASSUME Bad # {} PROVE FALSE
  OBVIOUS
<1>1. IsWellFoundedOn(StrictSubsetOrdering(Keys), SUBSET Keys)
  BY KeysAssumption, FS_StrictSubsetOrderingWellFounded, FS_FiniteSubsetsOfFinite
<1>2. PICK s \in Bad : \A t \in Bad : ~ (<<t, s>> \in StrictSubsetOrdering(Keys))
  <2>1. Bad \subseteq SUBSET Keys
    OBVIOUS
  <2> HIDE DEF Bad
  <2> QED
    BY <1>1, <2>1, WFMin
<1>3. s # {} /\ Pick(s) \in s /\ s \ {Pick(s)} \in SUBSET Keys
  BY PickFits
<1>4. <<s \ {Pick(s)}, s>> \in StrictSubsetOrdering(Keys)
  BY <1>3 DEF StrictSubsetOrdering
<1>5. s \ {Pick(s)} \notin Bad
  BY <1>2, <1>4
<1> QED
  BY <1>3, <1>5

(* With an amount drawn as so many bars under its key, a sum counts bars. *)
Bars(c, s) == {bar \in Keys \X Nat : bar[1] \in s /\ bar[2] \in 1 .. c[bar[1]]}

LEMMA BarsOfOne ==
  ASSUME NEW c \in [Keys -> Nat], NEW k \in Keys
  PROVE  IsFiniteSet(Bars(c, {k})) /\ Cardinality(Bars(c, {k})) = c[k]
<1> DEFINE bar == [i \in 1 .. c[k] |-> <<k, i>>]
<1>1. bar \in Bijection(1 .. c[k], Bars(c, {k}))
  <2>1. bar \in [1 .. c[k] -> Bars(c, {k})]
    BY DEF Bars
  <2>2. \A i, j \in 1 .. c[k] : bar[i] = bar[j] => i = j
    OBVIOUS
  <2>3. \A b \in Bars(c, {k}) : b[2] \in 1 .. c[k] /\ bar[b[2]] = b
    BY DEF Bars
  <2> HIDE DEF bar
  <2> QED
    BY <2>1, <2>2, <2>3 DEF Bijection, Injection, Surjection, IsInjective
<1>2. ExistsBijection(1 .. c[k], Bars(c, {k}))
  BY <1>1 DEF ExistsBijection
<1>3. IsFiniteSet(1 .. c[k]) /\ Cardinality(1 .. c[k]) = c[k]
  BY FS_Interval
<1> QED
  BY <1>2, <1>3, FS_Bijection

LEMMA BarsOfMore ==
  ASSUME NEW c \in [Keys -> Nat], NEW s \in SUBSET Keys, NEW k \in s,
         IsFiniteSet(Bars(c, s \ {k}))
  PROVE  /\ IsFiniteSet(Bars(c, s))
         /\ Cardinality(Bars(c, s)) = c[k] + Cardinality(Bars(c, s \ {k}))
<1> DEFINE one == Bars(c, {k})
           rest == Bars(c, s \ {k})
<1>1. IsFiniteSet(one) /\ Cardinality(one) = c[k]
  BY BarsOfOne
<1>2. Bars(c, s) = one \cup rest
  BY DEF Bars
<1>3. one \cap rest = {}
  BY DEF Bars
<1>4. c[k] \in Nat /\ IsFiniteSet(rest) /\ Cardinality(rest) \in Nat
  BY FS_CardinalityType
<1> HIDE DEF one, rest
<1>5. /\ IsFiniteSet(one \cup rest)
      /\ Cardinality(one \cup rest) = Cardinality(one) + Cardinality(rest) - Cardinality({})
  BY <1>1, <1>3, <1>4, FS_Union
<1> QED
  BY <1>1, <1>2, <1>4, <1>5, FS_EmptySet DEF rest

LEMMA BarsOfNone ==
  ASSUME NEW c
  PROVE  IsFiniteSet(Bars(c, {})) /\ Cardinality(Bars(c, {})) = 0
<1>1. Bars(c, {}) = {}
  BY DEF Bars
<1> QED
  BY <1>1, FS_EmptySet

LEMMA BarsFinite ==
  ASSUME NEW c \in [Keys -> Nat], NEW s \in SUBSET Keys
  PROVE  IsFiniteSet(Bars(c, s))
<1> DEFINE Good == {t \in SUBSET Keys : IsFiniteSet(Bars(c, t))}
<1>1. {} \in Good
  BY BarsOfNone
<1>2. ASSUME NEW t \in SUBSET Keys, t # {}, t \ {Pick(t)} \in Good
      PROVE  t \in Good
  BY <1>2, PickFits, BarsOfMore
<1>3. SUBSET Keys \subseteq Good
  <2> HIDE DEF Good
  <2> QED
    BY <1>1, <1>2, SetInduction
<1> QED
  BY <1>3

(* There are such sums, and they are natural numbers. *)
LEMMA SumAdds ==
  ASSUME NEW c \in [Keys -> Nat]
  PROVE  \E f : Adds(c, f) /\ Sum(c) = f[Keys]
<1> DEFINE bars == [s \in SUBSET Keys |-> Cardinality(Bars(c, s))]
<1>1. Adds(c, bars)
  <2>1. ASSUME NEW s \in SUBSET Keys, s # {}
        PROVE  bars[s] = c[Pick(s)] + bars[s \ {Pick(s)}]
    BY <2>1, PickFits, BarsFinite, BarsOfMore
  <2>2. bars[{}] = 0
    BY BarsOfNone
  <2>3. bars = [s \in SUBSET Keys |-> bars[s]]
    OBVIOUS
  <2> HIDE DEF bars
  <2> QED
    BY <2>1, <2>2, <2>3 DEF Adds
<1> DEFINE f == CHOOSE f : Adds(c, f)
<1>2. Adds(c, f)
  BY <1>1
<1>3. Sum(c) = f[Keys]
  BY DEF Sum, MapThenSumSet, MapThenFoldSet, Adds, Pick
<1> HIDE DEF f
<1> QED
  BY <1>2, <1>3

LEMMA AddsStep ==
  ASSUME NEW c, NEW f, Adds(c, f)
  PROVE  /\ f[{}] = 0
         /\ \A s \in SUBSET Keys : s # {} => f[s] = c[Pick(s)] + f[s \ {Pick(s)}]
BY DEF Adds

LEMMA AddsNat ==
  ASSUME NEW c \in [Keys -> Nat], NEW f, Adds(c, f), NEW s \in SUBSET Keys
  PROVE  f[s] \in Nat
<1> DEFINE Good == {t \in SUBSET Keys : f[t] \in Nat}
<1>1. f[{}] = 0
  BY AddsStep
<1>2. {} \in Good
  BY <1>1
<1>3. ASSUME NEW t \in SUBSET Keys, t # {}, t \ {Pick(t)} \in Good
      PROVE  t \in Good
  <2>1. f[t] = c[Pick(t)] + f[t \ {Pick(t)}]
    BY <1>3, AddsStep
  <2> QED
    BY <1>3, <2>1, PickFits
<1>4. SUBSET Keys \subseteq Good
  <2> HIDE DEF Good
  <2> QED
    BY <1>2, <1>3, SetInduction
<1> QED
  BY <1>4

LEMMA SumNat == ASSUME NEW c \in [Keys -> Nat] PROVE Sum(c) \in Nat
BY SumAdds, AddsNat

(* Less of every key is less in sum. *)
LEMMA SumMonotone ==
  ASSUME NEW a \in [Keys -> Nat], NEW b \in [Keys -> Nat], \A k \in Keys : a[k] <= b[k]
  PROVE  Sum(a) <= Sum(b)
<1>1. PICK f : Adds(a, f) /\ Sum(a) = f[Keys]
  BY SumAdds
<1>2. PICK g : Adds(b, g) /\ Sum(b) = g[Keys]
  BY SumAdds
<1> DEFINE Good == {t \in SUBSET Keys : f[t] <= g[t]}
<1>3. f[{}] = 0 /\ g[{}] = 0
  BY <1>1, <1>2, AddsStep
<1>4. {} \in Good
  BY <1>3
<1>5. ASSUME NEW t \in SUBSET Keys, t # {}, t \ {Pick(t)} \in Good
      PROVE  t \in Good
  <2> DEFINE x == Pick(t)
             rest == t \ {x}
  <2>1. x \in Keys /\ rest \in SUBSET Keys
    BY <1>5, PickFits
  <2>2. f[t] = a[x] + f[rest] /\ g[t] = b[x] + g[rest]
    <3>1. f[t] = a[x] + f[rest]
      BY <1>1, <1>5, AddsStep
    <3>2. g[t] = b[x] + g[rest]
      BY <1>2, <1>5, AddsStep
    <3> QED
      BY <3>1, <3>2
  <2>3. f[rest] \in Nat /\ g[rest] \in Nat
    BY <1>1, <1>2, <2>1, AddsNat
  <2>4. f[rest] <= g[rest]
    BY <1>5
  <2>5. a[x] <= b[x] /\ a[x] \in Nat /\ b[x] \in Nat
    BY <2>1
  <2> HIDE DEF x, rest
  <2> QED
    BY <2>2, <2>3, <2>4, <2>5
<1>6. SUBSET Keys \subseteq Good
  <2> HIDE DEF Good
  <2> QED
    BY <1>4, <1>5, SetInduction
<1> QED
  BY <1>1, <1>2, <1>6

(* Of no amounts the sum is none. *)
LEMMA SumZero ==
  ASSUME NEW c \in [Keys -> Nat], \A k \in Keys : c[k] = 0
  PROVE  Sum(c) = 0
<1>1. PICK f : Adds(c, f) /\ Sum(c) = f[Keys]
  BY SumAdds
<1> DEFINE Good == {t \in SUBSET Keys : f[t] = 0}
<1>2. f[{}] = 0
  BY <1>1, AddsStep
<1>3. {} \in Good
  BY <1>2
<1>4. ASSUME NEW t \in SUBSET Keys, t # {}, t \ {Pick(t)} \in Good
      PROVE  t \in Good
  <2>1. f[t] = c[Pick(t)] + f[t \ {Pick(t)}]
    BY <1>1, <1>4, AddsStep
  <2> QED
    BY <1>4, <2>1, PickFits
<1>5. SUBSET Keys \subseteq Good
  <2> HIDE DEF Good
  <2> QED
    BY <1>3, <1>4, SetInduction
<1> QED
  BY <1>1, <1>5

(* A key that counted for nothing adds what it counts for now. *)
LEMMA SumAddOne ==
  ASSUME NEW a \in [Keys -> Nat], NEW b \in [Keys -> Nat], NEW k \in Keys, a[k] = 0,
         \A j \in Keys : j # k => a[j] = b[j]
  PROVE  Sum(b) = Sum(a) + b[k]
<1>1. PICK f : Adds(a, f) /\ Sum(a) = f[Keys]
  BY SumAdds
<1>2. PICK g : Adds(b, g) /\ Sum(b) = g[Keys]
  BY SumAdds
<1> DEFINE Good == {t \in SUBSET Keys : g[t] = f[t] + (IF k \in t THEN b[k] ELSE 0)}
<1>3. f[{}] = 0 /\ g[{}] = 0
  BY <1>1, <1>2, AddsStep
<1>4. {} \in Good
  BY <1>3
<1>5. ASSUME NEW t \in SUBSET Keys, t # {}, t \ {Pick(t)} \in Good
      PROVE  t \in Good
  <2> DEFINE x == Pick(t)
             rest == t \ {x}
  <2>1. x \in t /\ x \in Keys /\ rest \in SUBSET Keys
    BY <1>5, PickFits
  <2>2. f[t] = a[x] + f[rest] /\ g[t] = b[x] + g[rest]
    <3>1. f[t] = a[x] + f[rest]
      BY <1>1, <1>5, AddsStep
    <3>2. g[t] = b[x] + g[rest]
      BY <1>2, <1>5, AddsStep
    <3> QED
      BY <3>1, <3>2
  <2>3. f[rest] \in Nat /\ g[rest] \in Nat
    BY <1>1, <1>2, <2>1, AddsNat
  <2>4. g[rest] = f[rest] + (IF k \in rest THEN b[k] ELSE 0)
    BY <1>5
  <2>5. a[x] \in Nat /\ b[x] \in Nat /\ b[k] \in Nat
    BY <2>1
  <2>6. x = k => k \in t /\ k \notin rest
    BY <2>1
  <2>7. x # k => (k \in t <=> k \in rest) /\ a[x] = b[x]
    BY <2>1
  <2> HIDE DEF x, rest
  <2>8. g[t] = f[t] + (IF k \in t THEN b[k] ELSE 0)
    BY <2>2, <2>3, <2>4, <2>5, <2>6, <2>7
  <2> QED
    BY <2>8
<1>6. SUBSET Keys \subseteq Good
  <2> HIDE DEF Good
  <2> QED
    BY <1>4, <1>5, SetInduction
<1>7. g[Keys] = f[Keys] + b[k]
  BY <1>6
<1> QED
  BY <1>1, <1>2, <1>7

-----------------------------------------------------------------------------
(* What the ledger charges.                                                  *)

(* As long as the provider charges no more than was reserved, the ledger charges *)
(* no more than the account allows; requests are never more than it allows.      *)
ChargedWithinLimit ==
  \A d \in Limited :
    d \in Requests \/ (\A k \in Keys : AsReserved(k)) => Charged(d) <= account.limits[d]

Charges(d) == [k \in Keys |-> ChargeOf(ledger[k], d)]

LEMMA ChargesFit ==
  ASSUME NEW e, e.amount \in Amount, e.usage \in UsageRecord, NEW d \in Dimensions
  PROVE  ChargeOf(e, d) \in Nat
BY DEF ChargeOf, UsageRecord, Amount, Dimensions, Requests, Quantities

LEMMA ChargedIsSum == ASSUME NEW d PROVE Charged(d) = Sum(Charges(d))
BY DEF Charges, Sum, Charged, MapThenSumSet, MapThenFoldSet

LEMMA ChargedIsSumNext == ASSUME NEW d PROVE Charged(d)' = Sum(Charges(d)')
BY DEF Charges, Sum, Charged, MapThenSumSet, MapThenFoldSet

LEMMA SpentIsSum == ASSUME NEW d PROVE Spent(d) = Sum([k \in Keys |-> SpentOn(k, d)])
BY DEF Sum, Spent, MapThenSumSet, MapThenFoldSet

LEMMA ChargesNat == ASSUME Inv, NEW d \in Dimensions PROVE Charges(d) \in [Keys -> Nat]
BY ChargesFit DEF Charges, Inv, TypeOK

LEMMA LimitsFit == ASSUME Inv, NEW d \in Limited PROVE d \in Dimensions /\ account.limits[d] \in Nat
BY AccountAssumption DEF Limited, Inv, TypeOK

(* A row that is not there was reserved nothing, and charges nothing. *)
LEMMA AbsentCharges ==
  ASSUME NEW d \in Dimensions, NEW e, e.op = "absent", e.amount = Nothing, e.usage = NoUsage
  PROVE  ChargeOf(e, d) = 0
BY DEF ChargeOf, Nothing, NoUsage, Usage, Dimensions, Requests, Quantities

(* The steps that write the ledger: a reservation, and a settlement. *)
Reserves(w) ==
  /\ worker[w].key \in Keys /\ ledger[worker[w].key].op = "absent"
  /\ spent[worker[w].key] = NoUsage
  /\ Available(Reservation(w))
  /\ ledger' = [ledger EXCEPT ![worker[w].key] = Reservation(w)]
  /\ UNCHANGED spent

Settles(k) ==
  /\ ledger[k].op # "absent" /\ spent[k] # NoUsage
  /\ ledger' = [ledger EXCEPT ![k].usage = spent[k]]
  /\ UNCHANGED spent

LEMMA LedgerSteps ==
  ASSUME Inv, [Next]_vars
  PROVE  /\ UNCHANGED account
         /\ \/ UNCHANGED ledger
            \/ \E w \in Workers : Reserves(w) /\ Reservation(w) \in Rows
            \/ \E k \in Keys : Settles(k)
<1>1. ASSUME NEW w \in Workers, Reserve(w), ~UNCHANGED ledger
      PROVE  Reserves(w) /\ Reservation(w) \in Rows
  <2> DEFINE k == worker[w].key
  <2>1. /\ worker[w].step \in {"preflight", "reserve"} /\ k \in Keys
        /\ ledger[k].op = "absent" /\ k \notin sent /\ spent[k] = NoUsage
    BY <1>1 DEF Reserve, Inv, MemoriesFit, MemoryFits, RowsFit, RowFits, Steps
  <2>2. Available(Reservation(w)) /\ ledger' = [ledger EXCEPT ![k] = Reservation(w)]
    BY <1>1 DEF Reserve
  <2>3. Reservation(w) \in Rows
    BY <2>1, <2>2, ReservationFits DEF Available
  <2> QED
    BY <1>1, <2>1, <2>2, <2>3 DEF Reserves, Reserve, remote
<1>2. ASSUME NEW w \in Workers, Settle(w), ~UNCHANGED ledger
      PROVE  worker[w].key \in Keys /\ Settles(worker[w].key)
  BY <1>2 DEF Settle, Settles, Inv, MemoriesFit, MemoryFits, Steps, remote
<1>3. CASE \E w \in Workers : Reserve(w) \/ Settle(w)
  BY <1>1, <1>2, <1>3 DEF Reserve, Settle
<1>4. CASE ~ \E w \in Workers : Reserve(w) \/ Settle(w)
  BY <1>4 DEF Next, Execute, Claim, Finish, StartCall, ReconcileReservation, CountInput,
     Send, Answer, Crash, Serve, LeaseExpires, vars
<1> QED
  BY <1>3, <1>4

(* What was reserved stays, and what was charged stays once there is something. *)
LEMMA SpendSteps ==
  ASSUME Inv, [Next]_vars, NEW k \in Keys
  PROVE  \/ spent'[k] = spent[k] /\ ledger'[k].amount = ledger[k].amount
         \/ spent[k] = NoUsage
<1>1. CASE UNCHANGED ledger
  <2>1. CASE \E j \in Keys : Serve(j)
    BY <1>1, <2>1 DEF Serve, Inv, TypeOK
  <2>2. CASE ~ \E j \in Keys : Serve(j)
    <3>1. UNCHANGED spent
      BY <2>2 DEF Next, Execute, Claim, Finish, StartCall, Reserve, ReconcileReservation,
         CountInput, Send, Answer, Settle, Crash, LeaseExpires, vars, remote
    <3> QED
      BY <1>1, <3>1
  <2> QED
    BY <2>1, <2>2
<1>2. CASE \E w \in Workers : Reserves(w)
  BY <1>2 DEF Reserves, Inv, TypeOK
<1>3. CASE \E j \in Keys : Settles(j)
  BY <1>3 DEF Settles, Inv, TypeOK
<1> QED
  BY <1>1, <1>2, <1>3, LedgerSteps

(* A request that costs no more than was reserved for it has never cost more. *)
LEMMA AsReservedBefore ==
  ASSUME Inv, [Next]_vars, NEW k \in Keys, AsReserved(k)'
  PROVE  AsReserved(k)
<1>1. UNCHANGED account
  BY LedgerSteps
<1>2. CASE spent'[k] = spent[k] /\ ledger'[k].amount = ledger[k].amount
  BY <1>1, <1>2 DEF AsReserved, Limited
<1>3. CASE spent[k] = NoUsage
  <2> SUFFICES ASSUME NEW d \in Limited \ Requests
               PROVE  spent[k].amount[d] <= ledger[k].amount[d]
    BY DEF AsReserved
  <2>1. d \in Quantities
    BY DEF Limited, Dimensions
  <2>2. spent[k].amount[d] = 0
    BY <1>3, <2>1 DEF NoUsage, Usage, Nothing
  <2>3. ledger[k].amount[d] \in Nat
    BY <2>1 DEF Inv, TypeOK, Amount
  <2> QED
    BY <2>2, <2>3
<1> QED
  BY <1>2, <1>3, SpendSteps

-----------------------------------------------------------------------------
(* Every step keeps what is charged within the limits.                       *)

(* The strengthening that makes it inductive: a key that is not reserved has *)
(* nothing written under it.                                                 *)
AbsentRows == \A k \in Keys : ledger[k].op = "absent" => ledger[k] = Absent
InvCharged == Inv /\ AbsentRows /\ ChargedWithinLimit

LEMMA AbsentRowsStep == ASSUME Inv, AbsentRows, [Next]_vars PROVE AbsentRows'
<1>1. CASE UNCHANGED ledger
  BY <1>1 DEF AbsentRows
<1>2. ASSUME NEW w \in Workers, Reserves(w) PROVE AbsentRows'
  <2>1. Reservation(w).op # "absent"
    BY DEF Reservation
  <2> QED
    BY <1>2, <2>1 DEF Reserves, AbsentRows, Inv, TypeOK
<1>3. ASSUME NEW k \in Keys, Settles(k) PROVE AbsentRows'
  BY <1>3 DEF Settles, AbsentRows, Inv, TypeOK
<1> QED
  BY <1>1, <1>2, <1>3, LedgerSteps

LEMMA ReservesWithin ==
  ASSUME Inv, Inv', AbsentRows, NEW w \in Workers, Reserves(w), Reservation(w) \in Rows,
         UNCHANGED account, NEW d \in Limited
  PROVE  Charged(d)' <= account.limits[d]
<1> DEFINE k == worker[w].key
           a == Charges(d)
           b == Charges(d)'
<1>1. d \in Dimensions
  BY LimitsFit
<1>2. a \in [Keys -> Nat]
  BY <1>1, ChargesNat
<1>3. b \in [Keys -> Nat]
  BY <1>1, ChargesFit DEF Charges, Inv, TypeOK
<1>4. k \in Keys /\ a[k] = 0
  BY <1>1, AbsentCharges DEF Reserves, AbsentRows, Absent, Charges
<1>5. \A j \in Keys : j # k => a[j] = b[j]
  BY DEF Reserves, Charges, Inv, TypeOK
<1>6. b[k] = ChargeOf(Reservation(w), d)
  BY <1>4 DEF Reserves, Charges, Inv, TypeOK
<1>7. Charged(d) + ChargeOf(Reservation(w), d) <= account.limits[d]
  BY DEF Reserves, Available
<1>8. Charged(d) = Sum(a) /\ Charged(d)' = Sum(b)
  BY ChargedIsSum, ChargedIsSumNext
<1> HIDE DEF a, b, k
<1>9. Sum(b) = Sum(a) + b[k]
  BY <1>2, <1>3, <1>4, <1>5, SumAddOne
<1> QED
  BY <1>6, <1>7, <1>8, <1>9

LEMMA SettlesWithin ==
  ASSUME Inv, Inv', NEW k \in Keys, Settles(k), UNCHANGED account, NEW d \in Limited,
         d \in Requests \/ AsReserved(k), Charged(d) <= account.limits[d]
  PROVE  Charged(d)' <= account.limits[d]
<1> DEFINE a == Charges(d)
           b == Charges(d)'
<1>1. d \in Dimensions /\ account.limits[d] \in Nat
  BY LimitsFit
<1>2. a \in [Keys -> Nat]
  BY <1>1, ChargesNat
<1>3. b \in [Keys -> Nat]
  BY <1>1, ChargesFit DEF Charges, Inv, TypeOK
<1>4. \A j \in Keys : j # k => b[j] = a[j]
  BY DEF Settles, Charges, Inv, TypeOK
<1>5. b[k] <= a[k]
  <2>1. /\ ledger'[k].op = ledger[k].op /\ ledger'[k].amount = ledger[k].amount
        /\ ledger'[k].usage = spent[k]
    BY DEF Settles, Inv, TypeOK
  <2>2. a[k] = ChargeOf(ledger[k], d) /\ b[k] = ChargeOf(ledger'[k], d)
    BY DEF Charges
  <2>3. a[k] \in Nat
    BY <1>2
  <2>4. CASE d \in Requests
    BY <2>1, <2>2, <2>3, <2>4 DEF ChargeOf, Requests
  <2>5. CASE d \notin Requests
    <3>1. d \in Quantities /\ spent[k].amount[d] <= ledger[k].amount[d]
      BY <1>1, <2>5 DEF Dimensions, AsReserved
    <3>2. ledger[k].usage.kind # "none" => ledger[k].usage = spent[k]
      BY DEF Inv, RowsFit, RowFits
    <3>3. ChargeOf(ledger[k], d) =
            IF ledger[k].usage.kind = (IF d = "audio" THEN "duration" ELSE "tokens")
            THEN ledger[k].usage.amount[d] ELSE ledger[k].amount[d]
      BY <2>5 DEF ChargeOf, Requests
    <3>4. ChargeOf(ledger'[k], d) =
            IF spent[k].kind = (IF d = "audio" THEN "duration" ELSE "tokens")
            THEN spent[k].amount[d] ELSE ledger[k].amount[d]
      BY <2>1, <2>5 DEF ChargeOf, Requests
    <3>5. spent[k].amount[d] \in Nat /\ ledger[k].amount[d] \in Nat
      BY <3>1 DEF Inv, TypeOK, UsageRecord, Amount
    <3> QED
      BY <2>2, <3>1, <3>2, <3>3, <3>4, <3>5
  <2> QED
    BY <2>4, <2>5
<1>6. \A j \in Keys : b[j] <= a[j]
  BY <1>2, <1>3, <1>4, <1>5
<1>7. Charged(d) = Sum(a) /\ Charged(d)' = Sum(b)
  BY ChargedIsSum, ChargedIsSumNext
<1> HIDE DEF a, b
<1>8. Sum(b) <= Sum(a) /\ Sum(a) \in Nat /\ Sum(b) \in Nat
  BY <1>2, <1>3, <1>6, SumMonotone, SumNat
<1> QED
  BY <1>1, <1>7, <1>8

LEMMA InitCharged == Init => InvCharged
<1> SUFFICES ASSUME Init PROVE InvCharged
  OBVIOUS
<1>1. Inv
  BY InitInv
<1>2. AbsentRows
  BY DEF Init, AbsentRows
<1>3. ASSUME NEW d \in Limited PROVE Charged(d) <= account.limits[d]
  <2>1. d \in Dimensions /\ account.limits[d] \in Nat
    BY <1>1, LimitsFit
  <2>2. Charges(d) \in [Keys -> Nat]
    BY <1>1, <2>1, ChargesNat
  <2>3. \A k \in Keys : Charges(d)[k] = 0
    BY <2>1, AbsentCharges DEF Init, Absent, Charges
  <2>4. Charged(d) = 0
    BY <2>2, <2>3, SumZero, ChargedIsSum
  <2> QED
    BY <2>1, <2>4
<1> QED
  BY <1>1, <1>2, <1>3 DEF InvCharged, ChargedWithinLimit

LEMMA StepCharged == InvCharged /\ [Next]_vars => InvCharged'
<1> SUFFICES ASSUME InvCharged, [Next]_vars PROVE InvCharged'
  OBVIOUS
<1>1. Inv /\ AbsentRows /\ Inv' /\ AbsentRows' /\ UNCHANGED account
  BY StepInv, AbsentRowsStep, LedgerSteps DEF InvCharged
<1>2. ASSUME NEW d \in Limited, d \in Requests \/ \A k \in Keys : AsReserved(k)'
      PROVE  Charged(d)' <= account.limits[d]
  <2>1. d \in Requests \/ \A k \in Keys : AsReserved(k)
    BY <1>1, <1>2, AsReservedBefore
  <2>2. Charged(d) <= account.limits[d]
    BY <2>1 DEF InvCharged, ChargedWithinLimit
  <2>3. CASE UNCHANGED ledger
    BY <2>2, <2>3, ChargedIsSum, ChargedIsSumNext DEF Charges
  <2>4. ASSUME NEW w \in Workers, Reserves(w), Reservation(w) \in Rows
        PROVE  Charged(d)' <= account.limits[d]
    BY <1>1, <2>4, ReservesWithin
  <2>5. ASSUME NEW k \in Keys, Settles(k)
        PROVE  Charged(d)' <= account.limits[d]
    BY <1>1, <2>1, <2>2, <2>5, SettlesWithin
  <2> QED
    BY <1>1, <2>3, <2>4, <2>5, LedgerSteps
<1>3. ChargedWithinLimit'
  BY <1>1, <1>2 DEF ChargedWithinLimit, Limited
<1> QED
  BY <1>1, <1>3 DEF InvCharged

(* Over all its claims a job never makes more requests than its account allows,   *)
(* and as long as the provider charges no more than was counted and allowed it    *)
(* never costs more: each request costs no more than the ledger charges for it,   *)
(* a reservation is admitted only within the limits, beside everything charged so *)
(* far, and a settlement charges no more than the reservation did                 *)
(* (provider_budget.py _ensure_available, repositories.py usage_for_job).         *)
THEOREM SpendLimited == Spec => []SpendWithinLimit
<1>1. InvCharged => SpendWithinLimit
  <2> SUFFICES ASSUME InvCharged, NEW d \in Limited,
                      d \in Requests \/ \A k \in Keys : AsReserved(k)
               PROVE  Spent(d) <= account.limits[d]
    BY DEF SpendWithinLimit
  <2> DEFINE c == [k \in Keys |-> SpentOn(k, d)]
             a == Charges(d)
  <2>1. Inv /\ d \in Dimensions /\ account.limits[d] \in Nat
    BY LimitsFit DEF InvCharged
  <2>2. a \in [Keys -> Nat]
    BY <2>1, ChargesNat
  <2>3. c \in [Keys -> Nat] /\ \A k \in Keys : c[k] <= a[k]
    BY <2>1, SpendCovered DEF Charges
  <2>4. Spent(d) = Sum(c) /\ Charged(d) = Sum(a)
    BY SpentIsSum, ChargedIsSum
  <2>5. Charged(d) <= account.limits[d]
    BY DEF InvCharged, ChargedWithinLimit
  <2> HIDE DEF a, c
  <2>6. Sum(c) <= Sum(a) /\ Sum(c) \in Nat /\ Sum(a) \in Nat
    BY <2>2, <2>3, SumMonotone, SumNat
  <2> QED
    BY <2>1, <2>4, <2>5, <2>6
<1> QED
  BY <1>1, InitCharged, StepCharged, PTL DEF Spec
=============================================================================
