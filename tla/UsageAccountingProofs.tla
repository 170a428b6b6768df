----------------------- MODULE UsageAccountingProofs -----------------------
(***************************************************************************)
(* What holds of UsageAccounting for any number of jobs, engines and       *)
(* reconciliations and for every limit, bound and choice of faults.        *)
(*                                                                         *)
(* A call is charged through a chain of copies: the worker's count, the    *)
(* outbox event, the calls a reconciliation has loaded, the usage row.     *)
(* Every copy is taken from an earlier one and none is ever added to, so   *)
(* each is bounded by what was spent; Charged says so, and is inductive.   *)
(*                                                                         *)
(* The counter and the reservations are sums over finite sets. Their laws  *)
(* come first, by induction on the subsets of a finite set; with them the  *)
(* counter follows the ledger, and who decides under the advisory lock has *)
(* counted every reservation but its own.                                  *)
(*                                                                         *)
(* That no usage is lost needs the story of one engine run: OnceInv at the *)
(* end says what the books hold at each of its points.                     *)
(***************************************************************************)
EXTENDS UsageAccounting, CollectionLemmas

-----------------------------------------------------------------------------
(* The inductive invariant.                                                *)

\* The types of the variables that hold calls.
Task == [pc : ReconcilerPc, todo : SUBSET Row, row : Row \cup {None}, calls : Nat,
         settle : BOOLEAN]

CallTypes ==
    /\ ledger \in [Row -> Nat]
    /\ counts \in [Row -> Nat]
    /\ spent \in [Row -> Nat]
    /\ event \in [Row -> [st : {"none", "pending", "processed"}, calls : Nat]]
    /\ rec \in [Reconciler -> Task]

Charged ==
    /\ \A x \in Row : /\ counts[x] <= spent[x]
                      /\ event[x].calls <= spent[x]
                      /\ ledger[x] <= spent[x]
    /\ \A r \in Reconciler : rec[r].row \in Row => rec[r].calls <= spent[rec[r].row]

ChargeInv == CallTypes /\ Charged

\* What ChargeInv speaks of.
callVars == <<ledger, counts, spent, event, rec>>

USE DEF Task, Row, jobVars, bookVars, runVars, ReconcilerPc

LEMMA InitCharge == Init => ChargeInv
  BY DEF Init, ChargeInv, CallTypes, Charged, Zero, NoTask

LEMMA KeepsCharge ==
  ASSUME ChargeInv, UNCHANGED callVars
  PROVE  ChargeInv'
  BY DEF ChargeInv, CallTypes, Charged, callVars

\* Accounting with counts that are bounded by the calls made.
LEMMA InsertCharge ==
  ASSUME ChargeInv, NEW j, NEW calls \in [Row -> Nat],
         \A x \in Row : calls[x] <= spent[x],
         RecordUsage(j, calls)
  PROVE  /\ ledger' \in [Row -> Nat]
         /\ \A x \in Row : ledger'[x] <= spent[x]
         /\ event' = event
  BY DEF ChargeInv, CallTypes, Charged, RecordUsage, Insert, jobVars

LEMMA WorkerCounts ==
  ASSUME ChargeInv, NEW j \in Job
  PROVE  /\ CallsOf(j) \in [Row -> Nat]
         /\ \A x \in Row : CallsOf(j)[x] <= spent[x]
  BY DEF ChargeInv, CallTypes, Charged, CallsOf

\* What the worker drops is its own copy of the counts.
LEMMA DropCharge ==
  ASSUME ChargeInv, NEW j \in Job, Drop(j)
  PROVE  /\ counts' \in [Row -> Nat]
         /\ \A x \in Row : counts'[x] <= spent'[x]
         /\ spent' = spent
  BY DEF ChargeInv, CallTypes, Charged, Drop

\* A reconciliation moves on and holds no more than was spent.
LEMMA TaskCharge ==
  ASSUME ChargeInv, NEW r \in Reconciler, NEW t \in Task,
         t.row \in Row => t.calls <= spent[t.row],
         rec' = [rec EXCEPT ![r] = t], UNCHANGED <<ledger, counts, spent>>,
         event' \in [Row -> [st : {"none", "pending", "processed"}, calls : Nat]],
         \A x \in Row : event'[x].calls = event[x].calls
  PROVE  ChargeInv'
  <1>1. CallTypes'
    BY DEF ChargeInv, CallTypes
  <1>2. \A q \in Reconciler : rec'[q] = IF q = r THEN t ELSE rec[q]
    BY DEF ChargeInv, CallTypes
  <1> QED
    BY <1>1, <1>2 DEF ChargeInv, Charged

LEMMA NextRowCharge ==
  ASSUME ChargeInv, NEW r \in Reconciler, NextRow(r), UNCHANGED <<ledger, counts, spent>>,
         event' \in [Row -> [st : {"none", "pending", "processed"}, calls : Nat]],
         \A x \in Row : event'[x].calls = event[x].calls
  PROVE  ChargeInv'
  <1> DEFINE t == [NoTask EXCEPT !.pc = IF rec[r].todo = {} THEN "idle" ELSE "load",
                                 !.todo = rec[r].todo]
  <1>1. rec[r].todo \in SUBSET Row
    BY DEF ChargeInv, CallTypes
  <1>2. t \in Task /\ t.calls = 0
    BY <1>1 DEF NoTask
  <1>3. rec' = [rec EXCEPT ![r] = t]
    BY DEF NextRow
  <1> HIDE DEF t
  <1>4. t.row \in Row => t.calls <= spent[t.row]
    BY <1>2 DEF ChargeInv, CallTypes
  <1> QED
    BY <1>2, <1>3, <1>4, TaskCharge

-----------------------------------------------------------------------------
LEMMA StepCharge == ChargeInv /\ [Next]_vars => ChargeInv'
<1> SUFFICES ASSUME ChargeInv, [Next]_vars PROVE ChargeInv'
  OBVIOUS
<1> USE DEF ChargeInv, CallTypes, Charged
<1>1. CASE UNCHANGED vars
  BY <1>1, KeepsCharge DEF vars, callVars
<1>2. ASSUME NEW j \in Job, JobNext(j) PROVE ChargeInv'
  <2>1. CASE \/ ReadUsage(j) \/ ReadReserved(j) \/ Reserve(j) \/ Refuse(j) \/ Claim(j)
             \/ Redeliver(j) \/ EndRun(j) \/ GiveUpRecording(j) \/ Complete(j) \/ Fail(j)
             \/ Reclaim(j)
    <3>1. UNCHANGED callVars
      BY <2>1 DEF ReadUsage, ReadReserved, Reserve, Refuse, Claim, Redeliver, EndRun,
                  GiveUpRecording, Complete, Fail, Reclaim, StartRun, callVars
    <3> QED
      BY <3>1, KeepsCharge
  <2>2. ASSUME NEW e \in Engine, Call(j, e) PROVE ChargeInv'
    <3> DEFINE x == <<j, e>>
    <3>1. x \in Row
      BY <2>2
    <3>2. /\ counts' = [counts EXCEPT ![x] = @ + 1]
          /\ spent' = [spent EXCEPT ![x] = @ + 1]
          /\ UNCHANGED <<ledger, event, rec>>
      BY <2>2 DEF Call
    <3> HIDE DEF x
    <3>3. CallTypes'
      BY <3>1, <3>2
    <3>4. \A y \in Row : spent[y] <= spent'[y] /\ counts'[y] <= spent'[y]
      BY <3>1, <3>2
    <3> QED
      BY <3>2, <3>3, <3>4
  <2>3. CASE Record(j)
    <3>1. RecordUsage(j, CallsOf(j)) /\ Drop(j) /\ rec' = rec
      BY <2>3 DEF Record
    <3> QED
      BY <3>1, InsertCharge, WorkerCounts, DropCharge
  <2>4. CASE RecordRaises(j)
    <3>1. counts' = counts /\ spent' = spent /\ rec' = rec
      BY <2>4 DEF RecordRaises
    <3>2. CASE UNCHANGED <<jobVars, bookVars>>
      BY <3>1, <3>2, KeepsCharge DEF callVars
    <3>3. CASE RecordUsage(j, CallsOf(j))
      BY <3>1, <3>3, InsertCharge, WorkerCounts
    <3> QED
      BY <2>4, <3>2, <3>3 DEF RecordRaises
  <2>5. CASE TimeLimit(j) \/ Crash(j)
    BY <2>5, DropCharge DEF TimeLimit, Crash
  <2>6. CASE Persist(j)
    BY <2>6, DropCharge DEF Persist, PersistUsage
  <2>7. CASE PersistRaises(j)
    <3>1. Drop(j) /\ rec' = rec
      BY <2>7 DEF PersistRaises
    <3>2. CASE UNCHANGED <<jobVars, bookVars>>
      BY <3>1, <3>2, DropCharge
    <3>3. CASE PersistUsage(j)
      BY <3>1, <3>3, DropCharge DEF PersistUsage
    <3> QED
      BY <2>7, <3>2, <3>3 DEF PersistRaises
  <2> QED
    BY <1>2, <2>1, <2>2, <2>3, <2>4, <2>5, <2>6, <2>7 DEF JobNext, JobStep
<1>3. ASSUME NEW j \in Job, ReleaseStale(j) PROVE ChargeInv'
  BY <1>3, KeepsCharge DEF ReleaseStale, callVars
<1>4. ASSUME NEW r \in Reconciler, ReconcilerNext(r) PROVE ChargeInv'
  <2>1. CASE Scan(r) \/ Load(r)
    <3>1. PICK rows \in SUBSET Row : Take(r, rows)
      BY <2>1 DEF Scan, Load
    <3>2. UNCHANGED <<ledger, counts, spent, event>>
      BY <2>1 DEF Scan, Load
    <3> DEFINE task(x) == [NoTask EXCEPT !.pc = "record", !.todo = rows \ {x},
                                         !.row = x, !.calls = event[x].calls]
    <3>3. PICK x \in rows : rec' = [rec EXCEPT ![r] = task(x)]
      BY <3>1 DEF Take
    <3>4. /\ task(x) \in Task
          /\ task(x).row \in Row => task(x).calls <= spent[task(x).row]
      BY DEF NoTask
    <3> HIDE DEF task
    <3> QED
      BY <1>4, <3>2, <3>3, <3>4, TaskCharge
  <2>2. CASE Replay(r)
    <3> DEFINE calls == [Zero EXCEPT ![rec[r].row] = rec[r].calls]
    <3>1. rec[r] \in Task
      BY <1>4
    <3>2. calls \in [Row -> Nat]
      BY <3>1 DEF Zero
    <3>3. \A x \in Row : calls[x] = 0 \/ (x = rec[r].row /\ calls[x] = rec[r].calls)
      BY <3>1 DEF Zero
    <3>4. \A x \in Row : calls[x] <= spent[x]
      BY <1>4, <3>3
    <3>5. RecordUsage(rec[r].row[1], calls)
      BY <2>2 DEF Replay
    <3>6. /\ ledger' \in [Row -> Nat]
          /\ \A x \in Row : ledger'[x] <= spent[x]
          /\ event' = event
      BY <3>2, <3>4, <3>5, InsertCharge
    <3> DEFINE t == [rec[r] EXCEPT !.pc = "mark"]
    <3>7. rec' = [rec EXCEPT ![r] = t] /\ UNCHANGED <<counts, spent>>
      BY <2>2, <1>4 DEF Replay, Step
    <3>8. t \in Task /\ t.row = rec[r].row /\ t.calls = rec[r].calls
      BY <3>1
    <3> HIDE DEF t
    <3>9. \A q \in Reconciler : rec'[q] = IF q = r THEN t ELSE rec[q]
      BY <3>7
    <3>10. CallTypes'
      BY <3>6, <3>7, <3>8, <3>9
    <3> QED
      BY <1>4, <3>6, <3>7, <3>8, <3>9, <3>10
  <2>3. CASE ReplayRaises(r)
    <3>1. NextRow(r) /\ UNCHANGED <<ledger, counts, spent, event>>
      BY <2>3 DEF ReplayRaises
    <3> QED
      BY <1>4, <3>1, NextRowCharge
  <2>4. CASE Mark(r)
    <3> DEFINE task(b) == [rec[r] EXCEPT !.pc = "commit", !.settle = b]
    <3>1. PICK b \in BOOLEAN : rec' = [rec EXCEPT ![r] = task(b)]
      BY <2>4, <1>4 DEF Mark
    <3>2. UNCHANGED <<ledger, counts, spent, event>>
      BY <2>4 DEF Mark
    <3>3. rec[r] \in Task
      BY <1>4
    <3>4. task(b) \in Task /\ task(b).row = rec[r].row /\ task(b).calls = rec[r].calls
      BY <3>3
    <3> HIDE DEF task
    <3> QED
      BY <1>4, <3>1, <3>2, <3>4, TaskCharge
  <2>5. CASE CommitMark(r)
    <3>1. NextRow(r) /\ UNCHANGED <<ledger, counts, spent>>
      BY <2>5 DEF CommitMark
    <3>2. event' = [event EXCEPT ![rec[r].row].st = "processed"]
      BY <2>5 DEF CommitMark
    <3>3. /\ event' \in [Row -> [st : {"none", "pending", "processed"}, calls : Nat]]
          /\ \A x \in Row : event'[x].calls = event[x].calls
      <4> DEFINE marked == [event[rec[r].row] EXCEPT !.st = "processed"]
      <4>1. event' = [event EXCEPT ![rec[r].row] = marked]
        BY <3>2
      <4>2. rec[r].row \in Row => /\ marked \in [st : {"none", "pending", "processed"}, calls : Nat]
                                  /\ marked.calls = event[rec[r].row].calls
        OBVIOUS
      <4> HIDE DEF marked
      <4> QED
        BY <4>1, <4>2
    <3> QED
      BY <1>4, <3>1, <3>3, NextRowCharge
  <2>6. CASE ReconcilerDies(r)
    <3>1. rec' = [rec EXCEPT ![r] = NoTask] /\ UNCHANGED <<ledger, counts, spent, event>>
      BY <2>6 DEF ReconcilerDies
    <3> QED
      BY <1>4, <3>1, TaskCharge DEF NoTask
  <2> QED
    BY <1>4, <2>1, <2>2, <2>3, <2>4, <2>5, <2>6 DEF ReconcilerNext, ReconcilerStep
<1> QED
  BY <1>1, <1>2, <1>3, <1>4 DEF Next

\* No call is billed twice, whatever is retried, replayed or run again.
THEOREM ChargedOnce == Spec => []NeverOvercharged
<1>1. ChargeInv => NeverOvercharged
  BY DEF ChargeInv, Charged, NeverOvercharged
<1> QED
  BY <1>1, InitCharge, StepCharge, PTL DEF Spec

-----------------------------------------------------------------------------
(* Types, and the counter of the month.                                    *)

Status == {"free", "queued", "running", "done", "failed"}
Reservation == {"none", "reserved", "review", "settled", "released"}
Budget == [pc : {"idle", "usage", "decide"}, total : Nat]

JobTypes ==
    /\ status \in [Job -> Status]
    /\ resv \in [Job -> Reservation]
    /\ held \in [Job -> Nat]
    /\ flagged \in [Job -> BOOLEAN]
    /\ budget \in [Job -> Budget]
    /\ wpc \in [Job -> WorkerPc]
    /\ tries \in [Job -> 0 .. 3]
    /\ runs \in [Job -> Nat]
    /\ faults \in Nat
    /\ counter \in Nat

BooksInv == ChargeInv /\ JobTypes /\ CounterMatchesLedger

LEMMA Finite == IsFiniteSet(Job) /\ IsFiniteSet(Row)
  BY FS_Product, AccountingConstants

\* What the ledger holds after an insert, the counter has counted.
LEMMA InsertCounted ==
  ASSUME ledger \in [Row -> Nat], CounterMatchesLedger, NEW j, NEW calls \in [Row -> Nat],
         Insert(j, calls)
  PROVE  CounterMatchesLedger' /\ (counter \in Nat => counter' \in Nat)
  <1> DEFINE new == {x \in Row : ledger[x] = 0}
             sum(f, S) == SumFunctionOnSet(f, S)
  <1>1. /\ ledger' = [x \in Row |-> IF ledger[x] = 0 THEN calls[x] ELSE ledger[x]]
        /\ counter' = counter + sum(calls, new)
    BY DEF Insert
  <1>2. ledger' \in [Row -> Nat]
    BY <1>1
  <1>3. /\ new \in SUBSET Row /\ Row \ new \in SUBSET Row
        /\ IsFiniteSet(new) /\ IsFiniteSet(Row \ new) /\ IsFiniteSet(Row)
    <2>1. new \in SUBSET Row /\ Row \ new \in SUBSET Row
      OBVIOUS
    <2>2. QED
      BY <2>1, Finite, FS_Subset
  <1>4. sum(ledger, Row) = sum(ledger, new) + sum(ledger, Row \ new)
        /\ sum(ledger, Row \ new) \in Nat
    <2> HIDE DEF new
    <2> QED BY <1>3, SumSplit
  <1>5. sum(ledger', Row) = sum(ledger', new) + sum(ledger', Row \ new)
    <2>1. \A l \in [Row -> Nat] : sum(l, Row) = sum(l, new) + sum(l, Row \ new)
      <3> HIDE DEF new
      <3> QED BY <1>3, SumSplit
    <2> QED BY <1>2, <2>1
  <1>6. sum(ledger, new) = 0
    <2>1. \A x \in new : ledger[x] = 0
      OBVIOUS
    <2> HIDE DEF new
    <2> QED BY <1>3, <2>1, SumOfNothing
  <1>7. sum(ledger', new) = sum(calls, new) /\ sum(ledger', Row \ new) = sum(ledger, Row \ new)
    <2>1. ASSUME NEW f, NEW g, NEW S, IsFiniteSet(S), \A x \in S : f[x] = g[x]
          PROVE  sum(f, S) = sum(g, S)
      BY <2>1, SumAgree
    <2>2. \A x \in new : ledger'[x] = calls[x]
      BY <1>1
    <2>3. \A x \in Row \ new : ledger'[x] = ledger[x]
      BY <1>1
    <2> HIDE DEF new, sum
    <2> QED BY <1>3, <2>1, <2>2, <2>3
  <1>8. sum(calls, new) \in Nat
    <2>1. \A x \in new : calls[x] \in Nat
      OBVIOUS
    <2> HIDE DEF new
    <2> QED BY <1>3, <2>1, SumIsNat
  <1>9. DOMAIN ledger = Row /\ DOMAIN ledger' = Row
    BY <1>2
  <1>10. Used = sum(ledger, Row) /\ Used' = sum(ledger', Row)
    BY <1>9 DEF Used, SumFunction
  <1> HIDE DEF new, sum
  <1>11. QED
    BY <1>1, <1>4, <1>5, <1>6, <1>7, <1>8, <1>10 DEF CounterMatchesLedger

\* The counter and the ledger of a step that accounts nothing stay equal.
LEMMA NothingCounted ==
  ASSUME CounterMatchesLedger, UNCHANGED <<ledger, counter>>
  PROVE  CounterMatchesLedger'
  BY DEF CounterMatchesLedger, Used

\* What one transaction of the accounting does to the job's row and the counter.
LEMMA RecordTypes ==
  ASSUME BooksInv, NEW j \in Job, NEW calls \in [Row -> Nat], RecordUsage(j, calls)
  PROVE  /\ resv' \in [Job -> Reservation] /\ UNCHANGED <<status, held, flagged>>
         /\ counter' \in Nat /\ CounterMatchesLedger'
  <1>1. Insert(j, calls) /\ UNCHANGED <<status, held, flagged>>
    BY DEF RecordUsage
  <1>2. counter' \in Nat /\ CounterMatchesLedger'
    BY <1>1, InsertCounted DEF BooksInv, ChargeInv, CallTypes, JobTypes
  <1>3. resv' \in [Job -> Reservation]
    BY DEF RecordUsage, BooksInv, JobTypes, Reservation
  <1> QED
    BY <1>1, <1>2, <1>3

LEMMA PersistTypes ==
  ASSUME BooksInv, NEW j \in Job, PersistUsage(j)
  PROVE  resv' \in [Job -> Reservation] /\ UNCHANGED <<status, held, flagged, ledger, counter>>
  BY DEF PersistUsage, BooksInv, JobTypes, Reservation

LEMMA DropTypes ==
  ASSUME JobTypes, NEW j \in Job, Drop(j)
  PROVE  tries' \in [Job -> 0 .. 3] /\ runs' = runs
  BY DEF Drop, JobTypes

LEMMA GotoTypes ==
  ASSUME JobTypes, NEW j \in Job, NEW pc \in WorkerPc, Goto(j, pc)
  PROVE  wpc' \in [Job -> WorkerPc]
  BY DEF Goto, JobTypes

LEMMA FaultTypes ==
  ASSUME JobTypes, NEW f, Fault(f)
  PROVE  faults' \in Nat
  BY DEF Fault, JobTypes

LEMMA SumsAreNat ==
  ASSUME BooksInv
  PROVE  Used \in Nat /\ Reserved \in Nat
  <1>1. Used = SumFunctionOnSet(ledger, Row) /\ \A x \in Row : ledger[x] \in Nat
    BY DEF Used, SumFunction, BooksInv, ChargeInv, CallTypes
  <1> DEFINE S == {j \in Job : Counts(j)}
  <1>2. IsFiniteSet(S) /\ \A j \in S : held[j] \in Nat
    <2>1. S \in SUBSET Job
      OBVIOUS
    <2> QED BY <2>1, Finite, FS_Subset DEF BooksInv, JobTypes
  <1>3. Reserved = SumFunctionOnSet(held, S)
    BY DEF Reserved
  <1> HIDE DEF S
  <1> QED
    BY <1>1, <1>2, <1>3, Finite, SumIsNat

LEMMA WorkerPcs ==
  /\ "idle" \in WorkerPc /\ "run" \in WorkerPc /\ "record" \in WorkerPc /\ "persist" \in WorkerPc
  /\ "after" \in WorkerPc /\ "failing" \in WorkerPc /\ "unaccounted" \in WorkerPc
  BY DEF WorkerPc

LEMMA JobStepTypes ==
  ASSUME BooksInv, NEW j \in Job, JobNext(j)
  PROVE  JobTypes' /\ CounterMatchesLedger'
  <1>0. JobTypes /\ CounterMatchesLedger
    BY DEF BooksInv
  <1>1. CASE ReadUsage(j) \/ ReadReserved(j)
    <2>1. PICK b \in Budget : budget' = [budget EXCEPT ![j] = b]
      <3>1. CASE ReadUsage(j)
        <4>1. [pc |-> "usage", total |-> Used] \in Budget
          BY SumsAreNat DEF Budget
        <4> QED BY <3>1, <4>1 DEF ReadUsage
      <3>2. CASE ReadReserved(j)
        <4>1. budget[j].total + Reserved \in Nat
          BY SumsAreNat, <1>0 DEF JobTypes, Budget
        <4>2. [pc |-> "decide", total |-> budget[j].total + Reserved] \in Budget
          BY <4>1 DEF Budget
        <4> QED BY <3>2, <4>2, <1>0 DEF ReadReserved, JobTypes
      <3> QED BY <1>1, <3>1, <3>2
    <2>2. UNCHANGED <<status, resv, held, flagged, ledger, counter, wpc, tries, runs, faults>>
      BY <1>1 DEF ReadUsage, ReadReserved
    <2> QED BY <1>0, <2>1, <2>2, NothingCounted DEF JobTypes
  <1>2. CASE Reserve(j)
    <2>1. PICK n \in Estimates :
            /\ held' = [held EXCEPT ![j] = n]
            /\ resv' = [resv EXCEPT ![j] = IF n > 0 THEN "reserved" ELSE "none"]
      BY <1>2 DEF Reserve
    <2>2. held' \in [Job -> Nat]
      BY <1>0, <2>1, AccountingConstants DEF JobTypes
    <2>3. resv' \in [Job -> Reservation]
      BY <1>0, <2>1 DEF JobTypes, Reservation
    <2>4. /\ status' \in [Job -> Status] /\ wpc' \in [Job -> WorkerPc] /\ runs' \in [Job -> Nat]
          /\ UNCHANGED tries
      <3>1. \/ status' = [status EXCEPT ![j] = "queued"] /\ UNCHANGED <<wpc, runs, tries>>
            \/ /\ Goto(j, "run") /\ runs' = [runs EXCEPT ![j] = @ + 1]
               /\ UNCHANGED <<status, tries>>
        BY <1>2 DEF Reserve
      <3>2. CASE status' = [status EXCEPT ![j] = "queued"] /\ UNCHANGED <<wpc, runs, tries>>
        BY <1>0, <3>2 DEF JobTypes, Status
      <3>3. CASE /\ Goto(j, "run") /\ runs' = [runs EXCEPT ![j] = @ + 1]
                 /\ UNCHANGED <<status, tries>>
        BY <1>0, <3>3, GotoTypes, WorkerPcs DEF JobTypes
      <3> QED BY <3>1, <3>2, <3>3
    <2>5. budget' \in [Job -> Budget]
      BY <1>0, <1>2 DEF Reserve, JobTypes, NoBudget, Budget
    <2>6. UNCHANGED <<flagged, ledger, counter, faults>>
      BY <1>2 DEF Reserve
    <2> QED BY <1>0, <2>2, <2>3, <2>4, <2>5, <2>6, NothingCounted DEF JobTypes
  <1>3. CASE Refuse(j)
    <2>1. wpc' \in [Job -> WorkerPc] /\ runs' \in [Job -> Nat] /\ UNCHANGED tries
      <3>1. \/ UNCHANGED <<wpc, runs, tries>>
            \/ /\ Goto(j, "after") \/ Goto(j, "failing")
               /\ runs' = [runs EXCEPT ![j] = @ + 1] /\ UNCHANGED tries
        BY <1>3 DEF Refuse, GotoOneOf
      <3>2. CASE UNCHANGED <<wpc, runs, tries>>
        BY <1>0, <3>2 DEF JobTypes
      <3>3. CASE /\ Goto(j, "after") \/ Goto(j, "failing")
                 /\ runs' = [runs EXCEPT ![j] = @ + 1] /\ UNCHANGED tries
        BY <1>0, <3>3, GotoTypes, WorkerPcs DEF JobTypes
      <3> QED BY <3>1, <3>2, <3>3
    <2>2. budget' \in [Job -> Budget]
      BY <1>0, <1>3 DEF Refuse, JobTypes, NoBudget, Budget
    <2>3. UNCHANGED <<status, resv, held, flagged, ledger, counter, faults>>
      BY <1>3 DEF Refuse
    <2> QED BY <1>0, <2>1, <2>2, <2>3, NothingCounted DEF JobTypes
  <1>4. CASE Claim(j) \/ Redeliver(j)
    <2>1. StartRun(j) /\ (status' = status \/ status' = [status EXCEPT ![j] = "running"])
      BY <1>4 DEF Claim, Redeliver
    <2>2. wpc' \in [Job -> WorkerPc]
      BY <1>0, <2>1, GotoTypes, WorkerPcs DEF StartRun
    <2>3. status' \in [Job -> Status] /\ runs' \in [Job -> Nat]
      BY <1>0, <2>1 DEF StartRun, JobTypes, Status
    <2>4. UNCHANGED <<resv, held, flagged, ledger, counter, budget, tries, faults>>
      BY <2>1 DEF StartRun
    <2> QED BY <1>0, <2>2, <2>3, <2>4, NothingCounted DEF JobTypes
  <1>5. ASSUME NEW e \in Engine, Call(j, e) PROVE JobTypes' /\ CounterMatchesLedger'
    <2>1. UNCHANGED <<status, resv, held, flagged, ledger, counter, budget, wpc, tries, runs, faults>>
      BY <1>5 DEF Call
    <2> QED BY <1>0, <2>1, NothingCounted DEF JobTypes
  <1>6. CASE EndRun(j) \/ GiveUpRecording(j)
    <2>1. Goto(j, "record") \/ Goto(j, "after") \/ Goto(j, "persist")
      BY <1>6 DEF EndRun, GiveUpRecording
    <2>2. wpc' \in [Job -> WorkerPc]
      BY <1>0, <2>1, GotoTypes, WorkerPcs
    <2>3. UNCHANGED <<status, resv, held, flagged, ledger, counter, budget, tries, runs, faults>>
      BY <1>6 DEF EndRun, GiveUpRecording
    <2> QED BY <1>0, <2>2, <2>3, NothingCounted DEF JobTypes
  <1>7. CASE Record(j)
    <2>1. /\ RecordUsage(j, CallsOf(j)) /\ Goto(j, "after") /\ Drop(j)
          /\ UNCHANGED <<budget, faults>>
      BY <1>7 DEF Record
    <2>2. CallsOf(j) \in [Row -> Nat]
      BY WorkerCounts DEF BooksInv
    <2>3. wpc' \in [Job -> WorkerPc] /\ tries' \in [Job -> 0 .. 3] /\ runs' = runs
      BY <1>0, <2>1, GotoTypes, WorkerPcs, DropTypes
    <2> QED BY <1>0, <2>1, <2>2, <2>3, RecordTypes DEF JobTypes
  <1>8. CASE RecordRaises(j)
    <2>1. /\ UNCHANGED <<jobVars, bookVars>> \/ RecordUsage(j, CallsOf(j))
          /\ \E f : Fault(f) /\ AttemptLeft(j)
          /\ tries' = [tries EXCEPT ![j] = @ + 1] /\ UNCHANGED <<budget, wpc, runs>>
      BY <1>8 DEF RecordRaises
    <2>2. CallsOf(j) \in [Row -> Nat]
      BY WorkerCounts DEF BooksInv
    <2>3. tries' \in [Job -> 0 .. 3]
      BY <1>0, <2>1 DEF AttemptLeft, JobTypes
    <2>4. faults' \in Nat
      BY <1>0, <2>1, FaultTypes
    <2>5. CASE UNCHANGED <<jobVars, bookVars>>
      BY <1>0, <2>1, <2>3, <2>4, <2>5, NothingCounted DEF JobTypes
    <2>6. CASE RecordUsage(j, CallsOf(j))
      BY <1>0, <2>1, <2>2, <2>3, <2>4, <2>6, RecordTypes DEF JobTypes
    <2> QED BY <2>1, <2>5, <2>6
  <1>9. CASE TimeLimit(j) \/ Crash(j)
    <2>1. /\ Drop(j) /\ (Goto(j, "failing") \/ Goto(j, "idle")) /\ \E f : Fault(f)
          /\ UNCHANGED <<jobVars, bookVars>>
          /\ budget' = budget \/ budget' = [budget EXCEPT ![j] = NoBudget]
      BY <1>9 DEF TimeLimit, Crash
    <2>2. /\ wpc' \in [Job -> WorkerPc] /\ tries' \in [Job -> 0 .. 3] /\ runs' = runs
          /\ faults' \in Nat
      BY <1>0, <2>1, GotoTypes, WorkerPcs, DropTypes, FaultTypes
    <2>3. budget' \in [Job -> Budget]
      BY <1>0, <2>1 DEF JobTypes, NoBudget, Budget
    <2> QED BY <1>0, <2>1, <2>2, <2>3, NothingCounted DEF JobTypes
  <1>10. CASE Persist(j) \/ PersistRaises(j)
    <2>1. /\ Drop(j) /\ (Goto(j, "after") \/ Goto(j, "unaccounted"))
          /\ faults' = faults \/ \E f : Fault(f)
          /\ UNCHANGED <<jobVars, bookVars>> \/ PersistUsage(j)
          /\ UNCHANGED budget
      BY <1>10 DEF Persist, PersistRaises
    <2>2. /\ wpc' \in [Job -> WorkerPc] /\ tries' \in [Job -> 0 .. 3] /\ runs' = runs
      BY <1>0, <2>1, GotoTypes, WorkerPcs, DropTypes
    <2>3. faults' \in Nat
      BY <1>0, <2>1, FaultTypes DEF JobTypes
    <2>4. /\ resv' \in [Job -> Reservation]
          /\ UNCHANGED <<status, held, flagged, ledger, counter>>
      BY <1>0, <2>1, PersistTypes DEF JobTypes
    <2> QED BY <1>0, <2>1, <2>2, <2>3, <2>4, NothingCounted DEF JobTypes
  <1>11. CASE Complete(j) \/ Fail(j) \/ Reclaim(j)
    <2>1. /\ status' \in [Job -> Status] /\ flagged' \in [Job -> BOOLEAN]
          /\ resv' \in [Job -> Reservation]
      <3>1. \E s \in {"done", "failed"} : status' = [status EXCEPT ![j] = s]
        BY <1>11 DEF Complete, Fail, Reclaim
      <3>2. \E b \in BOOLEAN : flagged' = [flagged EXCEPT ![j] = b]
        BY <1>11 DEF Complete, Fail, Reclaim
      <3>3. resv' = resv \/ resv' = [resv EXCEPT ![j] = ForReview(@)]
            \/ resv' = [resv EXCEPT ![j] = Released(@)]
        BY <1>11 DEF Complete, Fail, Reclaim
      <3> QED BY <1>0, <3>1, <3>2, <3>3 DEF JobTypes, Status, Reservation, ForReview, Released
    <2>2. wpc' \in [Job -> WorkerPc]
      <3>1. wpc' = wpc \/ Goto(j, "idle")
        BY <1>11 DEF Complete, Fail, Reclaim
      <3> QED BY <1>0, <3>1, GotoTypes, WorkerPcs DEF JobTypes
    <2>3. UNCHANGED <<held, ledger, counter, budget, tries, runs, faults>>
      BY <1>11 DEF Complete, Fail, Reclaim
    <2> QED BY <1>0, <2>1, <2>2, <2>3, NothingCounted DEF JobTypes
  <1> QED
    BY <1>1, <1>2, <1>3, <1>4, <1>5, <1>6, <1>7, <1>8, <1>9, <1>10, <1>11 DEF JobNext, JobStep

LEMMA ReconcilerStepTypes ==
  ASSUME BooksInv, NEW r \in Reconciler, ReconcilerNext(r)
  PROVE  JobTypes' /\ CounterMatchesLedger'
  <1>0. JobTypes /\ CounterMatchesLedger /\ rec[r] \in Task
    BY DEF BooksInv, ChargeInv, CallTypes
  <1>1. UNCHANGED <<budget, wpc, tries, runs>>
    BY DEF ReconcilerNext, ReconcilerStep, Scan, Load, Replay, Mark, CommitMark, ReplayRaises,
           ReconcilerDies
  <1>2. CASE Replay(r)
    <2> DEFINE calls == [Zero EXCEPT ![rec[r].row] = rec[r].calls]
               j == rec[r].row[1]
    <2>1. /\ RecordUsage(j, calls) /\ UNCHANGED faults
      BY <1>2 DEF Replay
    <2>2. calls \in [Row -> Nat]
      BY <1>0 DEF Zero
    <2>3. /\ Insert(j, calls) /\ UNCHANGED <<status, held, flagged>>
          /\ \/ resv' = [resv EXCEPT ![j] = "settled"]
             \/ resv' = [resv EXCEPT ![j] = "released"]
             \/ resv' = [resv EXCEPT ![j] = @]
      BY <2>1 DEF RecordUsage
    <2>4. resv' \in [Job -> Reservation]
      BY <1>0, <2>3 DEF JobTypes, Reservation
    <2>5. counter' \in Nat /\ CounterMatchesLedger'
      <3> HIDE DEF calls, j
      <3> QED
        BY <1>0, <2>2, <2>3, InsertCounted DEF BooksInv, ChargeInv, CallTypes, JobTypes
    <2> QED
      BY <1>0, <1>1, <2>1, <2>3, <2>4, <2>5 DEF JobTypes
  <1>3. CASE CommitMark(r)
    <2>1. /\ resv' = [resv EXCEPT ![rec[r].row[1]] = IF rec[r].settle THEN "settled" ELSE @]
          /\ UNCHANGED <<status, held, flagged, ledger, counter, faults>>
      BY <1>3 DEF CommitMark
    <2>2. resv' \in [Job -> Reservation]
      BY <1>0, <2>1 DEF JobTypes, Reservation
    <2> QED
      BY <1>0, <1>1, <2>1, <2>2, NothingCounted DEF JobTypes
  <1>4. CASE Scan(r) \/ Load(r) \/ Mark(r) \/ ReplayRaises(r) \/ ReconcilerDies(r)
    <2>1. UNCHANGED <<status, resv, held, flagged, ledger, counter>>
      BY <1>4 DEF Scan, Load, Mark, ReplayRaises, ReconcilerDies
    <2>2. faults' = faults \/ \E f : Fault(f)
      BY <1>4 DEF Scan, Load, Mark, ReplayRaises, ReconcilerDies
    <2>3. faults' \in Nat
      BY <1>0, <2>2, FaultTypes DEF JobTypes
    <2> QED
      BY <1>0, <1>1, <2>1, <2>3, NothingCounted DEF JobTypes
  <1> QED
    BY <1>2, <1>3, <1>4 DEF ReconcilerNext, ReconcilerStep

LEMMA InitBooks == Init => BooksInv
<1> SUFFICES ASSUME Init PROVE BooksInv
  OBVIOUS
<1>1. ChargeInv
  BY InitCharge
<1>2. JobTypes
  BY DEF Init, JobTypes, Status, Reservation, Budget, NoBudget, WorkerPc
<1>3. CounterMatchesLedger
  <2>1. ledger = [x \in Row |-> 0] /\ counter = 0
    BY DEF Init, Zero
  <2>2. DOMAIN ledger = Row /\ \A x \in Row : ledger[x] = 0
    BY <2>1
  <2>3. SumFunctionOnSet(ledger, Row) = 0
    BY <2>2, Finite, SumOfNothing
  <2> QED
    BY <2>1, <2>2, <2>3 DEF CounterMatchesLedger, Used, SumFunction
<1> QED
  BY <1>1, <1>2, <1>3 DEF BooksInv

LEMMA StepBooks == BooksInv /\ [Next]_vars => BooksInv'
<1> SUFFICES ASSUME BooksInv, [Next]_vars PROVE BooksInv'
  OBVIOUS
<1>1. ChargeInv'
  BY StepCharge DEF BooksInv
<1>2. CASE UNCHANGED vars
  BY <1>1, <1>2, NothingCounted DEF BooksInv, JobTypes, vars
<1>3. ASSUME NEW j \in Job, JobNext(j) PROVE BooksInv'
  BY <1>1, <1>3, JobStepTypes DEF BooksInv
<1>4. ASSUME NEW j \in Job, ReleaseStale(j) PROVE BooksInv'
  <2>1. resv' \in [Job -> Reservation]
    BY <1>4 DEF BooksInv, JobTypes, ReleaseStale, Reservation
  <2>2. UNCHANGED <<status, held, flagged, ledger, counter, budget, wpc, tries, runs, faults>>
    BY <1>4 DEF ReleaseStale
  <2> QED
    BY <1>1, <2>1, <2>2, NothingCounted DEF BooksInv, JobTypes
<1>5. ASSUME NEW r \in Reconciler, ReconcilerNext(r) PROVE BooksInv'
  BY <1>1, <1>5, ReconcilerStepTypes DEF BooksInv
<1> QED
  BY <1>2, <1>3, <1>4, <1>5 DEF Next

\* Every variable keeps to the values of its column, whatever fails and is repeated.
THEOREM BooksTyped == Spec => []TypeOK
<1>1. BooksInv => TypeOK
  BY DEF BooksInv, ChargeInv, CallTypes, JobTypes, TypeOK, Status, Reservation, Budget
<1> QED
  BY <1>1, InitBooks, StepBooks, PTL DEF Spec

\* The counter of the month is the sum of the usage rows, for any number of jobs and
\* engines: whatever is retried or replayed, each accepted row is counted once.
THEOREM CountedOnce == Spec => []CounterMatchesLedger
<1>1. BooksInv => CounterMatchesLedger
  BY DEF BooksInv
<1> QED
  BY <1>1, InitBooks, StepBooks, PTL DEF Spec

-----------------------------------------------------------------------------
(* Reservations. Whoever has decided read all that is in force but its own *)
(* job's, and until it has stored its reservation nobody stores another.   *)

InForce == {j \in Job : resv[j] = "reserved" /\ Active(j)}

Alone == \A j, k \in Job : budget[j].pc # "idle" /\ budget[k].pc # "idle" => j = k
Decided ==
    \A j \in Job : budget[j].pc = "decide" =>
        SumFunctionOnSet(held, InForce \ {j}) <= budget[j].total

LimitInv == BooksInv /\ Alone /\ Decided /\ ReservationsFit

LEMMA FitsIs == ReservationsFit <=> SumFunctionOnSet(held, InForce) <= Limit
  BY DEF ReservationsFit, InForce

\* Sums of reservations over sets of jobs.
LEMMA HeldSums ==
  ASSUME held \in [Job -> Nat]
  PROVE  \A S \in SUBSET Job : /\ IsFiniteSet(S) /\ SumFunctionOnSet(held, S) \in Nat
                               /\ \A T \in SUBSET S : SumFunctionOnSet(held, T) <= SumFunctionOnSet(held, S)
  <1> SUFFICES ASSUME NEW S \in SUBSET Job
               PROVE  /\ IsFiniteSet(S) /\ SumFunctionOnSet(held, S) \in Nat
                      /\ \A T \in SUBSET S : SumFunctionOnSet(held, T) <= SumFunctionOnSet(held, S)
    OBVIOUS
  <1>1. IsFiniteSet(S) /\ \A j \in S : held[j] \in Nat
    BY Finite, FS_Subset
  <1> QED
    BY <1>1, SumIsNat, SumOfPart

\* Steps that store no reservation put none in force.
LEMMA NothingReserved ==
  ASSUME LimitInv, held' = held, InForce' \subseteq InForce,
         \A j \in Job : budget'[j] = budget[j] \/ budget'[j].pc = "idle"
  PROVE  Alone' /\ Decided' /\ ReservationsFit'
  <1>1. held \in [Job -> Nat] /\ InForce \in SUBSET Job /\ InForce' \in SUBSET InForce
        /\ budget \in [Job -> Budget] /\ Limit \in Nat
    BY AccountingConstants DEF LimitInv, BooksInv, JobTypes, InForce
  <1>2. Alone'
    BY DEF LimitInv, Alone
  <1>3. Decided'
    <2> SUFFICES ASSUME NEW j \in Job, budget'[j].pc = "decide"
                 PROVE  SumFunctionOnSet(held, InForce' \ {j}) <= budget'[j].total
      BY DEF Decided
    <2>1. budget'[j] = budget[j] /\ budget[j].total \in Nat
      BY <1>1 DEF Budget
    <2>2. /\ SumFunctionOnSet(held, InForce \ {j}) <= budget[j].total
      BY <2>1 DEF LimitInv, Decided
    <2>3. InForce \ {j} \in SUBSET Job /\ InForce' \ {j} \in SUBSET (InForce \ {j})
          /\ InForce' \ {j} \in SUBSET Job
      BY <1>1
    <2>4. /\ SumFunctionOnSet(held, InForce' \ {j}) <= SumFunctionOnSet(held, InForce \ {j})
          /\ SumFunctionOnSet(held, InForce' \ {j}) \in Nat
          /\ SumFunctionOnSet(held, InForce \ {j}) \in Nat
      BY <1>1, <2>3, HeldSums
    <2> QED
      BY <2>1, <2>2, <2>4
  <1>4. ReservationsFit'
    <2>1. SumFunctionOnSet(held, InForce) <= Limit
      BY FitsIs DEF LimitInv
    <2>2. /\ SumFunctionOnSet(held, InForce') <= SumFunctionOnSet(held, InForce)
          /\ SumFunctionOnSet(held, InForce') \in Nat /\ SumFunctionOnSet(held, InForce) \in Nat
      BY <1>1, HeldSums
    <2>3. SumFunctionOnSet(held', InForce') <= Limit
      BY <1>1, <2>1, <2>2
    <2> QED
      BY <2>3 DEF ReservationsFit, InForce
  <1> QED
    BY <1>2, <1>3, <1>4

\* The transaction that stores a reservation.
LEMMA ReserveFits ==
  ASSUME LimitInv, NEW j \in Job, Reserve(j)
  PROVE  Alone' /\ Decided' /\ ReservationsFit'
  <1>1. /\ held \in [Job -> Nat] /\ budget \in [Job -> Budget] /\ Limit \in Nat
        /\ resv \in [Job -> Reservation] /\ status \in [Job -> Status]
    BY AccountingConstants DEF LimitInv, BooksInv, JobTypes
  <1>2. PICK n \in Estimates :
          /\ budget[j].total + n <= Limit
          /\ held' = [held EXCEPT ![j] = n]
          /\ resv' = [resv EXCEPT ![j] = IF n > 0 THEN "reserved" ELSE "none"]
    BY DEF Reserve, Fits
  <1>3. n \in Nat
    BY AccountingConstants
  <1>4. /\ budget[j].pc = "decide" /\ budget' = [budget EXCEPT ![j] = NoBudget]
        /\ status' = status \/ status' = [status EXCEPT ![j] = "queued"]
    BY DEF Reserve
  <1>5. \A k \in Job : budget'[k].pc = "idle"
    BY <1>1, <1>4 DEF LimitInv, Alone, NoBudget
  <1>6. Alone' /\ Decided'
    BY <1>5 DEF Alone, Decided
  <1>7. InForce' \in SUBSET Job /\ InForce' \ {j} \in SUBSET (InForce \ {j})
        /\ InForce \ {j} \in SUBSET Job /\ InForce' \ {j} \in SUBSET Job
    BY <1>1, <1>2, <1>4 DEF InForce, Active
  <1> DEFINE old == SumFunctionOnSet(held, InForce \ {j})
             others == SumFunctionOnSet(held, InForce' \ {j})
             new == SumFunctionOnSet(held', InForce' \ {j})
             all == SumFunctionOnSet(held', InForce')
  <1>8. old <= budget[j].total /\ budget[j].total \in Nat
    BY <1>1, <1>4 DEF LimitInv, Decided, Budget
  <1>9. others <= old /\ others \in Nat /\ old \in Nat
    BY <1>1, <1>7, HeldSums
  <1>10. new = others
    <2>1. \A k \in InForce' \ {j} : held'[k] = held[k]
      BY <1>1, <1>2, <1>7
    <2>2. IsFiniteSet(InForce' \ {j})
      BY <1>1, <1>7, HeldSums
    <2>3. ASSUME NEW f, NEW g, NEW S, IsFiniteSet(S), \A k \in S : f[k] = g[k]
          PROVE  SumFunctionOnSet(f, S) = SumFunctionOnSet(g, S)
      BY <2>3, SumAgree
    <2> QED
      BY <2>1, <2>2, <2>3
  <1>11. all = new \/ all = n + new
    <2>1. held' \in [Job -> Nat]
      BY <1>1, <1>2, <1>3
    <2>2. CASE j \notin InForce'
      <3>1. InForce' \ {j} = InForce'
        BY <2>2
      <3> QED BY <3>1
    <2>3. CASE j \in InForce'
      <3>1. ASSUME NEW f \in [Job -> Nat], NEW S \in SUBSET Job, j \in S
            PROVE  SumFunctionOnSet(f, S) = f[j] + SumFunctionOnSet(f, S \ {j})
        <4>1. IsFiniteSet(S) /\ \A k \in S : f[k] \in Nat
          BY Finite, FS_Subset
        <4> QED BY <3>1, <4>1, SumWithout
      <3>2. held'[j] = n
        BY <1>1, <1>2
      <3> QED BY <1>7, <2>1, <2>3, <3>1, <3>2
    <2> QED BY <2>2, <2>3
  <1> HIDE DEF old, others, new, all
  <1>12. all <= Limit
    BY <1>1, <1>2, <1>3, <1>8, <1>9, <1>10, <1>11
  <1>13. ReservationsFit'
    BY <1>12 DEF all, ReservationsFit, InForce
  <1> QED
    BY <1>6, <1>13

LEMMA JobStepFits ==
  ASSUME LimitInv, NEW j \in Job, JobNext(j)
  PROVE  Alone' /\ Decided' /\ ReservationsFit'
  <1>1. /\ held \in [Job -> Nat] /\ budget \in [Job -> Budget]
        /\ resv \in [Job -> Reservation] /\ status \in [Job -> Status]
    BY DEF LimitInv, BooksInv, JobTypes
  <1>2. CASE Reserve(j)
    BY <1>2, ReserveFits
  <1>3. CASE ReadUsage(j)
    <2>1. /\ \A k \in Job : budget[k].pc = "idle"
          /\ budget' = [budget EXCEPT ![j] = [pc |-> "usage", total |-> Used]]
          /\ UNCHANGED <<status, resv, held>>
      BY <1>3 DEF ReadUsage, Serialised
    <2>2. \A k \in Job : k # j => budget'[k].pc = "idle"
      BY <1>1, <2>1
    <2>3. budget'[j].pc = "usage"
      BY <1>1, <2>1
    <2>4. Alone' /\ Decided'
      BY <2>2, <2>3 DEF Alone, Decided
    <2>5. ReservationsFit'
      BY <2>1 DEF LimitInv, ReservationsFit, Active
    <2> QED
      BY <2>4, <2>5
  <1>4. CASE ReadReserved(j)
    <2>1. /\ budget[j].pc = "usage" /\ UNCHANGED <<status, resv, held>>
          /\ budget' = [budget EXCEPT ![j] = [pc |-> "decide", total |-> budget[j].total + Reserved]]
      BY <1>4 DEF ReadReserved
    <2>2. \A k \in Job : k # j => budget'[k] = budget[k] /\ budget[k].pc = "idle"
      BY <1>1, <2>1 DEF LimitInv, Alone
    <2>3. Alone' /\ ReservationsFit'
      <3>1. Alone'
        BY <2>2 DEF Alone
      <3>2. ReservationsFit'
        BY <2>1 DEF LimitInv, ReservationsFit, Active
      <3> QED BY <3>1, <3>2
    <2>4. SumFunctionOnSet(held, InForce \ {j}) <= budget[j].total + Reserved
      <3> DEFINE S == {k \in Job : Counts(k)}
      <3>1. S \in SUBSET Job /\ InForce \ {j} \in SUBSET S /\ InForce \ {j} \in SUBSET Job
        BY DEF InForce, Counts
      <3>2. Reserved = SumFunctionOnSet(held, S)
        BY DEF Reserved
      <3>3. budget[j].total \in Nat
        BY <1>1 DEF Budget
      <3> HIDE DEF S
      <3>4. /\ SumFunctionOnSet(held, InForce \ {j}) <= SumFunctionOnSet(held, S)
            /\ SumFunctionOnSet(held, InForce \ {j}) \in Nat
            /\ SumFunctionOnSet(held, S) \in Nat
        BY <1>1, <3>1, HeldSums
      <3> QED
        BY <3>2, <3>3, <3>4
    <2>5. budget'[j].total = budget[j].total + Reserved /\ held' = held /\ InForce' = InForce
      BY <1>1, <2>1 DEF InForce, Active
    <2>6. Decided'
      BY <2>2, <2>4, <2>5 DEF Decided
    <2> QED
      BY <2>3, <2>6
  <1>5. CASE \/ Refuse(j) \/ Claim(j) \/ Redeliver(j) \/ EndRun(j) \/ GiveUpRecording(j)
             \/ TimeLimit(j) \/ Crash(j) \/ (\E e \in Engine : Call(j, e))
    <2>1. /\ held' = held /\ resv' = resv
          /\ budget' = budget \/ budget' = [budget EXCEPT ![j] = NoBudget]
      BY <1>5 DEF Refuse, Claim, Redeliver, EndRun, GiveUpRecording, TimeLimit, Crash, Call, StartRun
    <2>2. status' = status \/ (status[j] = "queued" /\ status' = [status EXCEPT ![j] = "running"])
      BY <1>5 DEF Refuse, Claim, Redeliver, EndRun, GiveUpRecording, TimeLimit, Crash, Call
    <2>3. InForce' \subseteq InForce
      BY <1>1, <2>1, <2>2 DEF InForce, Active
    <2>4. \A k \in Job : budget'[k] = budget[k] \/ budget'[k].pc = "idle"
      BY <1>1, <2>1 DEF NoBudget
    <2> QED
      BY <2>1, <2>3, <2>4, NothingReserved
  <1>6. CASE \/ Record(j) \/ RecordRaises(j) \/ Persist(j) \/ PersistRaises(j)
             \/ Complete(j) \/ Fail(j) \/ Reclaim(j)
    <2>1. held' = held /\ budget' = budget
      BY <1>6 DEF Record, RecordRaises, RecordUsage, Persist, PersistRaises, PersistUsage, Complete,
                  Fail, Reclaim
    <2>2. status' = status \/ status' = [status EXCEPT ![j] = "done"]
          \/ status' = [status EXCEPT ![j] = "failed"]
      BY <1>6 DEF Record, RecordRaises, RecordUsage, Persist, PersistRaises, PersistUsage, Complete,
                  Fail, Reclaim
    <2>3. \/ resv' = resv
          \/ \E s : resv' = [resv EXCEPT ![j] = s] /\ (s = "reserved" => resv[j] = "reserved")
      <3>1. CASE Record(j) \/ RecordRaises(j)
        <4>1. resv' = resv \/ \E calls : RecordUsage(j, calls)
          BY <3>1 DEF Record, RecordRaises
        <4>2. ASSUME NEW calls, RecordUsage(j, calls)
              PROVE  \E s : resv' = [resv EXCEPT ![j] = s] /\ (s = "reserved" => resv[j] = "reserved")
          <5> DEFINE s == IF /\ resv[j] \in {"reserved", "review"} /\ NonePending(j)
                          THEN IF \E e \in Engine : ledger'[<<j, e>>] > 0
                                 THEN "settled" ELSE "released"
                          ELSE resv[j]
          <5>1. resv' = [resv EXCEPT ![j] = s]
            BY <1>1, <4>2, Zenon DEF RecordUsage
          <5>2. s = "reserved" => resv[j] = "reserved"
            OBVIOUS
          <5> HIDE DEF s
          <5> QED BY <5>1, <5>2
        <4> QED BY <4>1, <4>2
      <3>2. CASE Persist(j) \/ PersistRaises(j)
        BY <3>2 DEF Persist, PersistRaises, PersistUsage
      <3>3. CASE Complete(j) \/ Fail(j) \/ Reclaim(j)
        BY <3>3 DEF Complete, Fail, Reclaim, ForReview, Released
      <3> QED BY <1>6, <3>1, <3>2, <3>3
    <2>4. InForce' \subseteq InForce
      BY <1>1, <2>2, <2>3 DEF InForce, Active
    <2> QED
      BY <2>1, <2>4, NothingReserved
  <1> QED
    BY <1>2, <1>3, <1>4, <1>5, <1>6 DEF JobNext, JobStep

LEMMA StepFits == LimitInv /\ [Next]_vars => LimitInv'
<1> SUFFICES ASSUME LimitInv, [Next]_vars PROVE LimitInv'
  OBVIOUS
<1>1. BooksInv'
  BY StepBooks DEF LimitInv
<1>2. /\ resv \in [Job -> Reservation] /\ rec \in [Reconciler -> Task]
  BY DEF LimitInv, BooksInv, JobTypes, ChargeInv, CallTypes
<1>3. ASSUME UNCHANGED <<status, held, budget>>, InForce' \subseteq InForce PROVE LimitInv'
  BY <1>1, <1>3, NothingReserved DEF LimitInv
<1>4. CASE UNCHANGED vars
  BY <1>3, <1>4 DEF vars, InForce, Active
<1>5. ASSUME NEW j \in Job, JobNext(j) PROVE LimitInv'
  BY <1>1, <1>5, JobStepFits DEF LimitInv
<1>6. ASSUME NEW j \in Job, ReleaseStale(j) PROVE LimitInv'
  <2>1. InForce' \subseteq InForce
    BY <1>2, <1>6 DEF ReleaseStale, InForce, Active
  <2> QED
    BY <1>3, <1>6, <2>1 DEF ReleaseStale
<1>7. ASSUME NEW r \in Reconciler, ReconcilerNext(r) PROVE LimitInv'
  <2>1. UNCHANGED <<status, held, budget>>
    BY <1>7 DEF ReconcilerNext, ReconcilerStep, Scan, Load, Replay, RecordUsage, Mark, CommitMark,
                ReplayRaises, ReconcilerDies
  <2>2. resv' = resv \/ \E j, s : resv' = [resv EXCEPT ![j] = s] /\ (s = "reserved" => resv[j] = "reserved")
    <3>1. CASE Replay(r)
      <4> DEFINE j == rec[r].row[1]
                 s == IF /\ resv[j] \in {"reserved", "review"} /\ NonePending(j)
                        THEN IF \E e \in Engine : ledger'[<<j, e>>] > 0
                               THEN "settled" ELSE "released"
                        ELSE resv[j]
      <4>1. resv' = [resv EXCEPT ![j] = s]
        BY <3>1, Zenon DEF Replay, RecordUsage
      <4>2. s = "reserved" => resv[j] = "reserved"
        OBVIOUS
      <4> HIDE DEF s, j
      <4> QED BY <4>1, <4>2
    <3>2. CASE CommitMark(r)
      <4> DEFINE j == rec[r].row[1]
                 s == IF rec[r].settle THEN "settled" ELSE resv[j]
      <4>1. resv' = [resv EXCEPT ![j] = s]
        BY <3>2, Zenon DEF CommitMark
      <4>2. s = "reserved" => resv[j] = "reserved"
        OBVIOUS
      <4> HIDE DEF s, j
      <4> QED BY <4>1, <4>2
    <3>3. CASE ~Replay(r) /\ ~CommitMark(r)
      BY <1>7, <3>3 DEF ReconcilerNext, ReconcilerStep, Scan, Load, Mark, ReplayRaises, ReconcilerDies
    <3> QED
      BY <3>1, <3>2, <3>3
  <2>3. InForce' \subseteq InForce
    BY <1>2, <2>1, <2>2 DEF InForce, Active
  <2> QED
    BY <1>3, <2>1, <2>3
<1> QED
  BY <1>4, <1>5, <1>6, <1>7 DEF Next

LEMMA InitFits == Init => LimitInv
<1> SUFFICES ASSUME Init PROVE LimitInv
  OBVIOUS
<1>1. \A j \in Job : budget[j].pc = "idle" /\ resv[j] = "none"
  BY DEF Init, NoBudget
<1>2. InForce = {}
  BY <1>1 DEF InForce
<1>3. SumFunctionOnSet(held, {}) = 0
  BY FS_EmptySet, SumFirst
<1>4. 0 <= Limit
  <2>1. Limit \in Nat
    BY AccountingConstants
  <2> QED BY <2>1
<1>5. ReservationsFit
  BY <1>2, <1>3, <1>4, FitsIs
<1> QED
  BY <1>1, <1>5, InitBooks DEF LimitInv, Alone, Decided

\* The reservations of active jobs fit the monthly limit together, whoever reserves,
\* refuses, dies or runs a second time meanwhile.
THEOREM ReservedWithinLimit == Spec => []ReservationsFit
<1>1. LimitInv => ReservationsFit
  BY DEF LimitInv
<1> QED
  BY <1>1, InitFits, StepFits, PTL DEF Spec

-----------------------------------------------------------------------------
(* No usage is lost                                                        *)
(*                                                                         *)
(* A job that has reserved and runs its engine once, without a time limit  *)
(* in the middle of its accounting, ends with all its calls accounted for. *)
(* A second run overwrites what the first one has left, and the limit      *)
(* drops the counts and gives the reservation back: there it fails.        *)

OneRun == MaxRuns <= 1 /\ "timeout" \notin Faults /\ 0 \notin Estimates

Rows(j)     == {<<j, e>> : e \in Engine}
Recorded(j) == \A e \in Engine : ledger[<<j, e>>] = spent[<<j, e>>]
Covered(j)  == \A e \in Engine : spent[<<j, e>>] > 0 => event[<<j, e>>].st # "none"
Unspent(j)  == \A e \in Engine : spent[<<j, e>>] = 0
Fresh(j)    == status[j] \in {"free", "queued"}

\* A usage row holds nothing or everything; an event holds everything, and
\* comes with the events of the other engines after the run.
RowHolds(j, e) ==
    LET x == <<j, e>>
    IN  /\ ledger[x] \in {0, spent[x]}
        /\ Fresh(j) => counts[x] = 0 /\ spent[x] = 0
        /\ wpc[j] \in {"run", "record", "persist"} => counts[x] = spent[x]
        /\ wpc[j] = "run" => ledger[x] = 0
        /\ event[x].st # "none" =>
              /\ event[x].calls = spent[x]
              /\ wpc[j] \in {"after", "unaccounted", "idle"}
              /\ resv[j] \in {"review", "settled", "released"}
              /\ Covered(j)
        /\ event[x].st = "processed" => ledger[x] = spent[x]

\* What the reservation of a job says of its usage.
JobHolds(j) ==
    /\ status[j] = "free" => resv[j] = "none"
    /\ status[j] # "free" => resv[j] # "none" /\ budget[j].pc = "idle"
    /\ Fresh(j) => wpc[j] = "idle" /\ resv[j] \in {"none", "reserved"}
    /\ wpc[j] # "idle" => status[j] = "running" /\ wpc[j] # "failing"
    /\ status[j] = "running" => runs[j] >= 1
    /\ wpc[j] = "run" => resv[j] = "reserved"
    /\ resv[j] = "reserved" /\ (Finished(j) \/ wpc[j] = "after") => Unspent(j)
    /\ resv[j] \in {"settled", "released"} => Recorded(j)
    /\ resv[j] = "review" =>
          /\ wpc[j] \in {"after", "unaccounted", "idle"}
          /\ Covered(j) \/ (Finished(j) /\ flagged[j])

\* What a reconciliation knows of its rows is still so.
TaskHolds(r) ==
    /\ \A x \in rec[r].todo : event[x].st # "none"
    /\ rec[r].pc \in {"record", "mark", "commit"} =>
          rec[r].row \in Row /\ event[rec[r].row].st # "none"
    /\ rec[r].pc = "record" => rec[r].calls = spent[rec[r].row]
    /\ rec[r].pc \in {"mark", "commit"} => ledger[rec[r].row] = spent[rec[r].row]
    /\ rec[r].pc = "commit" /\ rec[r].settle => Recorded(rec[r].row[1])

OnceInv ==
    /\ \A j \in Job : JobHolds(j) /\ \A e \in Engine : RowHolds(j, e)
    /\ \A r \in Reconciler : TaskHolds(r)

\* What a step of another job leaves as it was.
Kept(k) ==
    /\ status'[k] = status[k] /\ resv'[k] = resv[k] /\ flagged'[k] = flagged[k]
    /\ budget'[k] = budget[k] /\ wpc'[k] = wpc[k] /\ runs'[k] = runs[k]
    /\ \A e \in Engine : /\ ledger'[<<k, e>>] = ledger[<<k, e>>]
                         /\ counts'[<<k, e>>] = counts[<<k, e>>]
                         /\ spent'[<<k, e>>] = spent[<<k, e>>]
                         /\ event'[<<k, e>>] = event[<<k, e>>]

\* Nothing a reconciliation has seen of a job is taken back.
Forward(j) ==
    \A e \in Engine :
        /\ event[<<j, e>>].st # "none" => event'[<<j, e>>].st # "none"
        /\ wpc[j] # "run" =>
              /\ spent'[<<j, e>>] = spent[<<j, e>>]
              /\ ledger[<<j, e>>] = spent[<<j, e>>] => ledger'[<<j, e>>] = spent[<<j, e>>]

JobOnce(j) == JobHolds(j) /\ \A e \in Engine : RowHolds(j, e)

LEMMA KeptHolds ==
  ASSUME NEW k \in Job, Kept(k), JobOnce(k)
  PROVE  JobOnce(k)' /\ Forward(k)
<1>1. JobHolds(k)'
  BY DEF Kept, JobOnce, JobHolds, Fresh, Finished, Covered, Unspent, Recorded
<1>2. \A e \in Engine : RowHolds(k, e)'
  BY DEF Kept, JobOnce, RowHolds, Fresh, Covered
<1>3. Forward(k)
  BY DEF Kept, Forward
<1> QED
  BY <1>1, <1>2, <1>3 DEF JobOnce

LEMMA ForwardTask ==
  ASSUME CallTypes, OnceInv, \A j \in Job : Forward(j), NEW r \in Reconciler, rec'[r] = rec[r]
  PROVE  TaskHolds(r)'
<1>1. TaskHolds(r) /\ rec[r].todo \in SUBSET Row
  BY DEF OnceInv, CallTypes
<1>2. \A x \in Row : event[x].st # "none" => event'[x].st # "none"
  BY DEF Forward
<1>3. \A x \in Row : event[x].st # "none" => wpc[x[1]] # "run"
  BY DEF OnceInv, RowHolds
<1>4. \A x \in Row : event[x].st # "none" =>
         /\ spent'[x] = spent[x]
         /\ ledger[x] = spent[x] => ledger'[x] = spent'[x]
         /\ Recorded(x[1]) => Recorded(x[1])'
  BY <1>3 DEF Forward, Recorded
<1> QED
  BY <1>1, <1>2, <1>4 DEF TaskHolds

LEMMA JobMoves ==
  ASSUME CallTypes, OnceInv, NEW j \in Job, \A k \in Job \ {j} : Kept(k), Forward(j),
         JobOnce(j)', UNCHANGED rec
  PROVE  OnceInv'
<1>1. \A k \in Job : JobOnce(k)' /\ Forward(k)
  <2>1. \A k \in Job \ {j} : JobOnce(k)
    BY DEF OnceInv, JobOnce
  <2> QED
    BY <2>1, KeptHolds
<1>2. \A r \in Reconciler : TaskHolds(r)'
  BY <1>1, ForwardTask
<1> QED
  BY <1>1, <1>2 DEF OnceInv, JobOnce

\* An insert of nothing or everything: what is whole stays whole.
LEMMA InsertWhole ==
  ASSUME BooksInv, NEW j \in Job, NEW calls \in [Row -> Nat], RecordUsage(j, calls),
         \A e \in Engine : ledger[<<j, e>>] \in {0, spent[<<j, e>>]},
         \A e \in Engine : calls[<<j, e>>] \in {0, spent[<<j, e>>]},
         \A x \in Row : x[1] # j => calls[x] = 0
  PROVE  /\ \A x \in Row : x[1] # j => ledger'[x] = ledger[x]
         /\ \A e \in Engine :
               /\ ledger'[<<j, e>>] \in {0, spent[<<j, e>>]}
               /\ ledger[<<j, e>>] = spent[<<j, e>>] => ledger'[<<j, e>>] = spent[<<j, e>>]
               /\ calls[<<j, e>>] = spent[<<j, e>>] => ledger'[<<j, e>>] = spent[<<j, e>>]
         /\ UNCHANGED <<status, held, flagged, event>>
         /\ \A k \in Job \ {j} : resv'[k] = resv[k]
         /\ IF resv[j] \in {"reserved", "review"} /\ NonePending(j)
              THEN resv'[j] \in {"settled", "released"} ELSE resv'[j] = resv[j]
<1>1. ledger' = [x \in Row |-> IF ledger[x] = 0 THEN calls[x] ELSE ledger[x]]
  BY DEF RecordUsage, Insert
<1>2. UNCHANGED <<status, held, flagged, event>>
  BY DEF RecordUsage
<1>3. /\ \A k \in Job \ {j} : resv'[k] = resv[k]
      /\ IF resv[j] \in {"reserved", "review"} /\ NonePending(j)
           THEN resv'[j] \in {"settled", "released"} ELSE resv'[j] = resv[j]
  BY DEF RecordUsage, BooksInv, JobTypes
<1>4. \A x \in Row : ledger[x] \in Nat /\ calls[x] \in Nat /\ spent[x] \in Nat
  BY DEF BooksInv, ChargeInv, CallTypes
<1>5. \A x \in Row : x[1] # j => ledger'[x] = ledger[x]
  BY <1>1, <1>4
<1>6. \A e \in Engine :
        /\ ledger'[<<j, e>>] \in {0, spent[<<j, e>>]}
        /\ ledger[<<j, e>>] = spent[<<j, e>>] => ledger'[<<j, e>>] = spent[<<j, e>>]
        /\ calls[<<j, e>>] = spent[<<j, e>>] => ledger'[<<j, e>>] = spent[<<j, e>>]
  BY <1>1, <1>4
<1> QED
  BY <1>2, <1>3, <1>5, <1>6

\* What the accounting of a run makes of the job's books.
LEMMA RecordWhole ==
  ASSUME BooksInv, NEW j \in Job, JobOnce(j), wpc[j] = "record", RecordUsage(j, CallsOf(j))
  PROVE  /\ \A x \in Row : x[1] # j => ledger'[x] = ledger[x]
         /\ \A e \in Engine : ledger'[<<j, e>>] = spent[<<j, e>>] /\ event[<<j, e>>].st = "none"
         /\ UNCHANGED <<status, flagged, event>>
         /\ \A k \in Job \ {j} : resv'[k] = resv[k]
         /\ resv'[j] \in {"settled", "released"}
<1>1. \A e \in Engine : /\ ledger[<<j, e>>] \in {0, spent[<<j, e>>]}
                        /\ counts[<<j, e>>] = spent[<<j, e>>] /\ event[<<j, e>>].st = "none"
  BY DEF JobOnce, RowHolds
<1>2. CallsOf(j) \in [Row -> Nat]
  BY WorkerCounts DEF BooksInv
<1>3. /\ \A e \in Engine : CallsOf(j)[<<j, e>>] = spent[<<j, e>>]
      /\ \A x \in Row : x[1] # j => CallsOf(j)[x] = 0
  BY <1>1 DEF CallsOf
<1>4. resv[j] \in {"reserved", "settled", "released"} /\ NonePending(j)
  <2>1. NonePending(j)
    BY <1>1 DEF NonePending, Pending
  <2>2. resv[j] \in {"none", "reserved", "review", "settled", "released"}
    BY DEF BooksInv, JobTypes, Reservation
  <2> QED
    BY <2>1, <2>2 DEF JobOnce, JobHolds
<1> HIDE DEF Row
<1>5. /\ \A x \in Row : x[1] # j => ledger'[x] = ledger[x]
      /\ \A e \in Engine : CallsOf(j)[<<j, e>>] = spent[<<j, e>>] => ledger'[<<j, e>>] = spent[<<j, e>>]
      /\ UNCHANGED <<status, flagged, event>>
      /\ \A k \in Job \ {j} : resv'[k] = resv[k]
      /\ IF resv[j] \in {"reserved", "review"} /\ NonePending(j)
           THEN resv'[j] \in {"settled", "released"} ELSE resv'[j] = resv[j]
  BY <1>1, <1>2, <1>3, InsertWhole
<1> QED
  BY <1>1, <1>3, <1>4, <1>5

\* What the outbox makes of the run whose accounting was given up.
LEMMA PersistWhole ==
  ASSUME BooksInv, NEW j \in Job, JobOnce(j), wpc[j] = "persist", PersistUsage(j)
  PROVE  /\ \A x \in Row : x[1] # j => event'[x] = event[x]
         /\ \A e \in Engine :
               /\ spent[<<j, e>>] > 0 => /\ event'[<<j, e>>].st = "pending"
                                         /\ event'[<<j, e>>].calls = spent[<<j, e>>]
               /\ ~(spent[<<j, e>>] > 0) => event'[<<j, e>>].st = "none"
         /\ UNCHANGED <<status, flagged, ledger>>
         /\ \A k \in Job \ {j} : resv'[k] = resv[k]
         /\ resv'[j] = IF resv[j] = "reserved" THEN "review" ELSE resv[j]
<1>1. \A e \in Engine : counts[<<j, e>>] = spent[<<j, e>>] /\ event[<<j, e>>].st = "none"
  BY DEF JobOnce, RowHolds
<1>2. \A x \in Row : CallsOf(j)[x] = IF x[1] = j THEN counts[x] ELSE 0
  BY DEF CallsOf
<1>3. event' = [x \in Row |-> IF CallsOf(j)[x] > 0 /\ event[x].st # "processed"
                                THEN [st |-> "pending", calls |-> counts[x]] ELSE event[x]]
  BY DEF PersistUsage
<1>4. \A x \in Row : x[1] # j => event'[x] = event[x]
  BY <1>2, <1>3
<1>5. \A e \in Engine :
        /\ spent[<<j, e>>] > 0 => /\ event'[<<j, e>>].st = "pending"
                                  /\ event'[<<j, e>>].calls = spent[<<j, e>>]
        /\ ~(spent[<<j, e>>] > 0) => event'[<<j, e>>].st = "none"
  <2>1. \A e \in Engine : CallsOf(j)[<<j, e>>] = spent[<<j, e>>]
    BY <1>1, <1>2
  <2>2. \A e \in Engine : event'[<<j, e>>] = IF spent[<<j, e>>] > 0
                                             THEN [st |-> "pending", calls |-> spent[<<j, e>>]]
                                             ELSE event[<<j, e>>]
    BY <1>1, <1>3, <2>1
  <2>3. \A n : [st |-> "pending", calls |-> n].st = "pending" /\ [st |-> "pending", calls |-> n].calls = n
    OBVIOUS
  <2> QED
    BY <1>1, <2>2, <2>3
<1>6. UNCHANGED <<status, flagged, ledger>>
  BY DEF PersistUsage
<1>7. /\ \A k \in Job \ {j} : resv'[k] = resv[k]
      /\ resv'[j] = IF resv[j] = "reserved" THEN "review" ELSE resv[j]
  BY DEF PersistUsage, BooksInv, JobTypes
<1> QED
  BY <1>4, <1>5, <1>6, <1>7

LEMMA DropWhole ==
  ASSUME CallTypes, NEW j \in Job, Drop(j)
  PROVE  /\ \A x \in Row : x[1] # j => counts'[x] = counts[x]
         /\ UNCHANGED <<runs, spent>>
  BY DEF Drop, CallTypes

LEMMA JobStepOnce ==
  ASSUME OneRun, BooksInv, OnceInv, NEW j \in Job, JobNext(j)
  PROVE  OnceInv'
<1>0. CallTypes /\ JobOnce(j)
  BY DEF BooksInv, ChargeInv, OnceInv, JobOnce
<1>a. /\ DOMAIN status = Job /\ DOMAIN resv = Job /\ DOMAIN flagged = Job /\ DOMAIN budget = Job
      /\ DOMAIN wpc = Job /\ DOMAIN runs = Job /\ \A k \in Job : runs[k] \in Nat
      /\ status \in [Job -> Status] /\ resv \in [Job -> Reservation] /\ flagged \in [Job -> BOOLEAN]
      /\ wpc \in [Job -> WorkerPc] /\ budget \in [Job -> Budget] /\ runs \in [Job -> Nat]
  BY DEF BooksInv, JobTypes
<1>b. ASSUME NEW pc, Goto(j, pc)
      PROVE  wpc'[j] = pc /\ \A k \in Job \ {j} : wpc'[k] = wpc[k]
  BY <1>a, <1>b DEF Goto
<1>c. \A e \in Engine : ledger[<<j, e>>] \in Nat /\ spent[<<j, e>>] \in Nat /\ counts[<<j, e>>] \in Nat
  BY <1>0 DEF CallTypes
<1>d. ~(wpc[j] = "after" /\ runs[j] < MaxRuns) /\ ~(status[j] = "running" /\ runs[j] < MaxRuns)
  <2>1. (wpc[j] = "after" => status[j] = "running") /\ (status[j] = "running" => runs[j] >= 1)
    BY <1>0 DEF JobOnce, JobHolds
  <2>2. MaxRuns \in Nat /\ MaxRuns <= 1 /\ runs[j] \in Nat
    BY <1>a, AccountingConstants DEF OneRun
  <2> QED BY <2>1, <2>2
<1>1. CASE ReadUsage(j) \/ ReadReserved(j)
  <2>1. /\ UNCHANGED <<status, resv, flagged, ledger, counts, spent, event, wpc, runs, rec>>
        /\ \A k \in Job \ {j} : budget'[k] = budget[k]
    BY <1>1, <1>a DEF ReadUsage, ReadReserved
  <2>2. status[j] = "free"
    <3>1. CASE ReadUsage(j)
      BY <3>1, <1>d DEF ReadUsage, Reserving
    <3>2. CASE ReadReserved(j)
      BY <3>2, <1>0 DEF ReadReserved, JobOnce, JobHolds
    <3> QED BY <1>1, <3>1, <3>2
  <2>3. JobHolds(j)'
    BY <1>0, <2>1, <2>2 DEF JobOnce, JobHolds, Fresh, Finished, Covered, Unspent, Recorded
  <2>4. \A e \in Engine : RowHolds(j, e)'
    BY <1>0, <2>1 DEF JobOnce, RowHolds, Fresh, Covered
  <2>5. Forward(j) /\ \A k \in Job \ {j} : Kept(k)
    BY <2>1 DEF Forward, Kept
  <2> QED BY <1>0, <2>1, <2>3, <2>4, <2>5, JobMoves DEF JobOnce
<1>2. CASE Reserve(j)
  <2>1. status[j] = "free"
    BY <1>0, <1>2 DEF Reserve, JobOnce, JobHolds
  <2>2. /\ UNCHANGED <<flagged, ledger, counts, spent, event, wpc, runs, rec>>
        /\ status' = [status EXCEPT ![j] = "queued"] /\ budget' = [budget EXCEPT ![j] = NoBudget]
    BY <1>2, <2>1 DEF Reserve
  <2>3. resv' = [resv EXCEPT ![j] = "reserved"]
    <3>1. PICK n \in Estimates : resv' = [resv EXCEPT ![j] = IF n > 0 THEN "reserved" ELSE "none"]
      BY <1>2 DEF Reserve
    <3>2. n > 0
      BY AccountingConstants DEF OneRun
    <3> QED BY <3>1, <3>2
  <2>4. /\ status'[j] = "queued" /\ resv'[j] = "reserved" /\ budget'[j].pc = "idle"
        /\ \A k \in Job \ {j} : /\ status'[k] = status[k] /\ resv'[k] = resv[k]
                                /\ budget'[k] = budget[k]
    BY <1>a, <2>2, <2>3 DEF NoBudget
  <2>5. Unspent(j)' /\ wpc[j] = "idle"
    BY <1>0, <2>1, <2>2 DEF JobOnce, JobHolds, RowHolds, Fresh, Unspent
  <2>6. JobHolds(j)'
    BY <2>2, <2>4, <2>5 DEF JobHolds, Fresh, Finished
  <2>7. \A e \in Engine : RowHolds(j, e)'
    BY <1>0, <2>1, <2>2, <2>4 DEF JobOnce, JobHolds, RowHolds, Fresh, Covered
  <2>8. Forward(j) /\ \A k \in Job \ {j} : Kept(k)
    BY <2>2, <2>4 DEF Forward, Kept
  <2> QED BY <1>0, <2>2, <2>6, <2>7, <2>8, JobMoves DEF JobOnce
<1>3. CASE Refuse(j)
  <2>1. status[j] = "free"
    BY <1>0, <1>3 DEF Refuse, JobOnce, JobHolds
  <2>2. /\ UNCHANGED <<status, resv, flagged, ledger, counts, spent, event, wpc, runs, rec>>
        /\ budget' = [budget EXCEPT ![j] = NoBudget]
    BY <1>3, <2>1 DEF Refuse
  <2>3. budget'[j].pc = "idle" /\ \A k \in Job \ {j} : budget'[k] = budget[k]
    BY <1>a, <2>2 DEF NoBudget
  <2>4. JobHolds(j)'
    BY <1>0, <2>2, <2>3 DEF JobOnce, JobHolds, Fresh, Finished, Covered, Unspent, Recorded
  <2>5. \A e \in Engine : RowHolds(j, e)'
    BY <1>0, <2>2 DEF JobOnce, RowHolds, Fresh, Covered
  <2>6. Forward(j) /\ \A k \in Job \ {j} : Kept(k)
    BY <2>2, <2>3 DEF Forward, Kept
  <2> QED BY <1>0, <2>2, <2>4, <2>5, <2>6, JobMoves DEF JobOnce
<1>4. CASE Claim(j) \/ Redeliver(j)
  <2>1. status[j] = "queued" /\ status' = [status EXCEPT ![j] = "running"] /\ StartRun(j)
    <3>1. ~Redeliver(j)
      BY <1>d DEF Redeliver
    <3> QED BY <1>4, <3>1 DEF Claim
  <2>2. /\ Goto(j, "run") /\ runs' = [runs EXCEPT ![j] = @ + 1]
        /\ UNCHANGED <<resv, flagged, ledger, counts, spent, event, budget, rec>>
    BY <2>1 DEF StartRun
  <2>3. /\ status'[j] = "running" /\ runs'[j] >= 1 /\ wpc'[j] = "run"
        /\ \A k \in Job \ {j} : status'[k] = status[k] /\ runs'[k] = runs[k] /\ wpc'[k] = wpc[k]
    BY <1>a, <1>b, <2>1, <2>2
  <2>4. resv[j] = "reserved" /\ budget[j].pc = "idle"
    BY <1>0, <2>1 DEF JobOnce, JobHolds, Fresh
  <2>5. JobHolds(j)'
    BY <2>2, <2>3, <2>4 DEF JobHolds, Fresh, Finished
  <2>6. \A e \in Engine : RowHolds(j, e)'
    BY <1>0, <1>c, <2>1, <2>2, <2>3, <2>4 DEF JobOnce, RowHolds, Fresh
  <2>7. Forward(j) /\ \A k \in Job \ {j} : Kept(k)
    BY <2>2, <2>3 DEF Forward, Kept
  <2> QED BY <1>0, <2>2, <2>5, <2>6, <2>7, JobMoves DEF JobOnce
<1>5. ASSUME NEW e \in Engine, Call(j, e) PROVE OnceInv'
  <2>1. /\ wpc[j] = "run"
        /\ counts' = [counts EXCEPT ![<<j, e>>] = @ + 1] /\ spent' = [spent EXCEPT ![<<j, e>>] = @ + 1]
        /\ UNCHANGED <<status, resv, flagged, ledger, event, budget, wpc, runs, rec>>
    BY <1>5 DEF Call
  <2>2. /\ \A x \in Row : x[1] # j => counts'[x] = counts[x] /\ spent'[x] = spent[x]
        /\ \A d \in Engine : counts[<<j, d>>] = spent[<<j, d>>] => counts'[<<j, d>>] = spent'[<<j, d>>]
    <3>1. \A x \in Row : /\ counts'[x] = IF x = <<j, e>> THEN counts[x] + 1 ELSE counts[x]
                         /\ spent'[x] = IF x = <<j, e>> THEN spent[x] + 1 ELSE spent[x]
      BY <1>0, <2>1 DEF CallTypes
    <3>2. \A d \in Engine : <<j, d>> \in Row
      OBVIOUS
    <3> HIDE DEF Row
    <3> QED BY <3>1, <3>2
  <2>3. /\ resv[j] = "reserved" /\ status[j] = "running" /\ budget[j].pc = "idle"
        /\ \A d \in Engine : event[<<j, d>>].st = "none" /\ ledger[<<j, d>>] = 0
    BY <1>0, <2>1 DEF JobOnce, JobHolds, RowHolds
  <2>4. JobHolds(j)'
    BY <1>0, <2>1, <2>3 DEF JobOnce, JobHolds, Fresh, Finished
  <2>5. \A d \in Engine : RowHolds(j, d)'
    BY <1>0, <2>1, <2>2, <2>3 DEF JobOnce, RowHolds, Fresh
  <2>6. Forward(j) /\ \A k \in Job \ {j} : Kept(k)
    BY <2>1, <2>2 DEF Forward, Kept
  <2> QED BY <1>0, <2>1, <2>4, <2>5, <2>6, JobMoves DEF JobOnce
<1>6. CASE EndRun(j) \/ GiveUpRecording(j)
  <2>1. UNCHANGED <<status, resv, flagged, ledger, counts, spent, event, budget, runs, rec>>
    BY <1>6 DEF EndRun, GiveUpRecording
  <2>2. /\ \A k \in Job \ {j} : wpc'[k] = wpc[k]
        /\ \/ wpc[j] = "run" /\ wpc'[j] = "record"
           \/ wpc[j] = "run" /\ wpc'[j] = "after" /\ Unspent(j)
           \/ wpc[j] = "record" /\ wpc'[j] = "persist"
    <3>1. CASE EndRun(j) /\ \E e \in Engine : counts[<<j, e>>] > 0
      BY <3>1, <1>b DEF EndRun
    <3>2. CASE EndRun(j) /\ ~\E e \in Engine : counts[<<j, e>>] > 0
      <4>1. wpc[j] = "run" /\ Goto(j, "after")
        BY <3>2 DEF EndRun
      <4>2. Unspent(j)
        BY <1>0, <1>c, <3>2, <4>1 DEF JobOnce, RowHolds, Unspent
      <4> QED BY <4>1, <4>2, <1>b
    <3>3. CASE GiveUpRecording(j)
      BY <3>3, <1>b DEF GiveUpRecording
    <3> QED BY <1>6, <3>1, <3>2, <3>3
  <2>3. JobHolds(j)'
    BY <1>0, <2>1, <2>2 DEF JobOnce, JobHolds, Fresh, Finished, Covered, Unspent, Recorded
  <2>4. \A e \in Engine : RowHolds(j, e)'
    BY <1>0, <2>1, <2>2 DEF JobOnce, RowHolds, Fresh, Covered
  <2>5. Forward(j) /\ \A k \in Job \ {j} : Kept(k)
    BY <2>1, <2>2 DEF Forward, Kept
  <2> QED BY <1>0, <2>1, <2>3, <2>4, <2>5, JobMoves DEF JobOnce
<1>7. CASE Record(j)
  <2>1. /\ wpc[j] = "record" /\ RecordUsage(j, CallsOf(j)) /\ Goto(j, "after") /\ Drop(j)
        /\ UNCHANGED <<budget, rec>>
    BY <1>7 DEF Record
  <2>2. /\ \A x \in Row : x[1] # j => ledger'[x] = ledger[x]
        /\ \A e \in Engine : ledger'[<<j, e>>] = spent[<<j, e>>] /\ event[<<j, e>>].st = "none"
        /\ UNCHANGED <<status, flagged, event>>
        /\ \A k \in Job \ {j} : resv'[k] = resv[k]
        /\ resv'[j] \in {"settled", "released"}
    BY <1>0, <2>1, RecordWhole
  <2>3. /\ \A x \in Row : x[1] # j => counts'[x] = counts[x]
        /\ UNCHANGED <<runs, spent>>
    BY <1>0, <2>1, DropWhole
  <2>4. wpc'[j] = "after" /\ \A k \in Job \ {j} : wpc'[k] = wpc[k]
    BY <1>b, <2>1
  <2>5. JobHolds(j)'
    BY <1>0, <2>1, <2>2, <2>3, <2>4 DEF JobOnce, JobHolds, Fresh, Finished, Recorded
  <2>6. \A e \in Engine : RowHolds(j, e)'
    BY <1>0, <2>1, <2>2, <2>3, <2>4 DEF JobOnce, JobHolds, RowHolds, Fresh
  <2>7. Forward(j) /\ \A k \in Job \ {j} : Kept(k)
    BY <2>1, <2>2, <2>3, <2>4 DEF Forward, Kept
  <2> QED BY <1>0, <2>1, <2>5, <2>6, <2>7, JobMoves DEF JobOnce
<1>8. CASE RecordRaises(j)
  <2>1. /\ wpc[j] = "record" /\ UNCHANGED <<budget, wpc, counts, runs, rec, spent>>
        /\ UNCHANGED <<status, resv, flagged, ledger, event>> \/ RecordUsage(j, CallsOf(j))
    BY <1>8 DEF RecordRaises
  <2>2. CASE UNCHANGED <<status, resv, flagged, ledger, event>>
    <3>1. Kept(j) /\ \A k \in Job \ {j} : Kept(k)
      BY <2>1, <2>2 DEF Kept
    <3> QED BY <1>0, <2>1, <3>1, KeptHolds, JobMoves
  <2>3. CASE RecordUsage(j, CallsOf(j))
    <3>1. /\ \A x \in Row : x[1] # j => ledger'[x] = ledger[x]
          /\ \A e \in Engine : ledger'[<<j, e>>] = spent[<<j, e>>] /\ event[<<j, e>>].st = "none"
          /\ UNCHANGED <<status, flagged, event>>
          /\ \A k \in Job \ {j} : resv'[k] = resv[k]
          /\ resv'[j] \in {"settled", "released"}
      BY <1>0, <2>1, <2>3, RecordWhole
    <3>2. JobHolds(j)'
      BY <1>0, <2>1, <3>1 DEF JobOnce, JobHolds, Fresh, Finished, Recorded
    <3>3. \A e \in Engine : RowHolds(j, e)'
      BY <1>0, <2>1, <3>1 DEF JobOnce, JobHolds, RowHolds, Fresh
    <3>4. Forward(j) /\ \A k \in Job \ {j} : Kept(k)
      BY <2>1, <3>1 DEF Forward, Kept
    <3> QED BY <1>0, <2>1, <3>2, <3>3, <3>4, JobMoves DEF JobOnce
  <2> QED BY <2>1, <2>2, <2>3
<1>9. CASE TimeLimit(j) \/ Crash(j)
  <2>1. /\ wpc[j] # "idle" /\ Goto(j, "idle") /\ Drop(j) /\ budget' = [budget EXCEPT ![j] = NoBudget]
        /\ UNCHANGED <<status, resv, flagged, ledger, event, rec>>
    <3>1. ~TimeLimit(j)
      BY DEF TimeLimit, Fault, OneRun
    <3> QED BY <1>9, <3>1 DEF Crash
  <2>2. /\ \A x \in Row : x[1] # j => counts'[x] = counts[x]
        /\ UNCHANGED <<runs, spent>>
    BY <1>0, <2>1, DropWhole
  <2>3. /\ wpc'[j] = "idle" /\ budget'[j].pc = "idle"
        /\ \A k \in Job \ {j} : wpc'[k] = wpc[k] /\ budget'[k] = budget[k]
    BY <1>a, <1>b, <2>1 DEF NoBudget
  <2>4. JobHolds(j)'
    BY <1>0, <2>1, <2>2, <2>3 DEF JobOnce, JobHolds, Fresh, Finished, Covered, Unspent, Recorded
  <2>5. \A e \in Engine : RowHolds(j, e)'
    BY <1>0, <2>1, <2>2, <2>3 DEF JobOnce, JobHolds, RowHolds, Fresh, Covered
  <2>6. Forward(j) /\ \A k \in Job \ {j} : Kept(k)
    BY <2>1, <2>2, <2>3 DEF Forward, Kept
  <2> QED BY <1>0, <2>1, <2>4, <2>5, <2>6, JobMoves DEF JobOnce
<1>10. CASE Persist(j) \/ PersistRaises(j)
  <2>1. /\ wpc[j] = "persist" /\ Drop(j) /\ UNCHANGED <<budget, rec>>
        /\ \E pc \in {"after", "unaccounted"} : Goto(j, pc)
        /\ \/ UNCHANGED <<status, resv, flagged, ledger, event>> /\ Goto(j, "unaccounted")
           \/ PersistUsage(j)
    BY <1>10 DEF Persist, PersistRaises
  <2>2. /\ \A x \in Row : x[1] # j => counts'[x] = counts[x]
        /\ UNCHANGED <<runs, spent>>
    BY <1>0, <2>1, DropWhole
  <2>3. wpc'[j] \in {"after", "unaccounted"} /\ \A k \in Job \ {j} : wpc'[k] = wpc[k]
    BY <1>b, <2>1
  <2>4. status[j] = "running" /\ budget[j].pc = "idle" /\ runs[j] >= 1
    BY <1>0, <2>1 DEF JobOnce, JobHolds
  <2>5. \A e \in Engine : ledger[<<j, e>>] \in {0, spent[<<j, e>>]} /\ event[<<j, e>>].st = "none"
    BY <1>0, <2>1 DEF JobOnce, RowHolds
  <2>6. CASE UNCHANGED <<status, resv, flagged, ledger, event>> /\ Goto(j, "unaccounted")
    <3>1. wpc'[j] = "unaccounted"
      BY <1>b, <2>6
    <3>2. JobHolds(j)'
      BY <1>0, <2>1, <2>2, <2>4, <2>6, <3>1
         DEF JobOnce, JobHolds, Fresh, Finished, Covered, Unspent, Recorded
    <3>3. \A e \in Engine : RowHolds(j, e)'
      BY <1>0, <2>2, <2>4, <2>5, <2>6, <3>1 DEF JobOnce, JobHolds, RowHolds, Fresh
    <3>4. Forward(j) /\ \A k \in Job \ {j} : Kept(k)
      BY <2>1, <2>2, <2>3, <2>6 DEF Forward, Kept
    <3> QED BY <1>0, <2>1, <3>2, <3>3, <3>4, JobMoves DEF JobOnce
  <2>7. CASE PersistUsage(j)
    <3>1. /\ \A x \in Row : x[1] # j => event'[x] = event[x]
          /\ \A e \in Engine :
                /\ spent[<<j, e>>] > 0 => /\ event'[<<j, e>>].st = "pending"
                                          /\ event'[<<j, e>>].calls = spent[<<j, e>>]
                /\ ~(spent[<<j, e>>] > 0) => event'[<<j, e>>].st = "none"
          /\ UNCHANGED <<status, flagged, ledger>>
          /\ \A k \in Job \ {j} : resv'[k] = resv[k]
          /\ resv'[j] = IF resv[j] = "reserved" THEN "review" ELSE resv[j]
      BY <1>0, <2>1, <2>7, PersistWhole
    <3>2. Covered(j)'
      BY <2>2, <3>1 DEF Covered
    <3>3. resv'[j] \in {"review", "settled", "released"}
      <4>1. resv[j] \in {"none", "reserved", "review", "settled", "released"}
        BY <1>a DEF Reservation
      <4>2. resv[j] # "none"
        BY <1>0, <2>4 DEF JobOnce, JobHolds
      <4> QED BY <3>1, <4>1, <4>2
    <3>4. resv'[j] \in {"settled", "released"} => Recorded(j)'
      BY <1>0, <2>2, <3>1 DEF JobOnce, JobHolds, Recorded
    <3>5. JobHolds(j)'
      BY <2>1, <2>2, <2>3, <2>4, <3>1, <3>2, <3>3, <3>4 DEF JobHolds, Fresh, Finished
    <3>6. \A e \in Engine : RowHolds(j, e)'
      BY <2>2, <2>3, <2>4, <2>5, <3>1, <3>2, <3>3 DEF RowHolds, Fresh
    <3>7. Forward(j) /\ \A k \in Job \ {j} : Kept(k)
      BY <2>1, <2>2, <2>3, <2>5, <3>1 DEF Forward, Kept
    <3> QED BY <1>0, <2>1, <3>5, <3>6, <3>7, JobMoves DEF JobOnce
  <2> QED BY <2>1, <2>6, <2>7
<1>11. CASE Complete(j) \/ Fail(j) \/ Reclaim(j)
  <2>1. /\ UNCHANGED <<ledger, counts, spent, event, budget, runs, rec>>
        /\ \E s \in {"done", "failed"} : status' = [status EXCEPT ![j] = s]
        /\ status[j] \in {"running", "queued"}
        /\ wpc'[j] = "idle" /\ \A k \in Job \ {j} : wpc'[k] = wpc[k]
    <3>1. CASE Complete(j) \/ Fail(j)
      <4>1. wpc[j] # "idle" /\ Goto(j, "idle")
        BY <3>1 DEF Complete, Fail
      <4>2. wpc'[j] = "idle" /\ \A k \in Job \ {j} : wpc'[k] = wpc[k]
        BY <1>b, <4>1
      <4>3. status[j] = "running"
        BY <1>0, <4>1 DEF JobOnce, JobHolds
      <4> QED BY <3>1, <4>2, <4>3 DEF Complete, Fail
    <3>2. CASE Reclaim(j)
      BY <3>2 DEF Reclaim, Active
    <3> QED BY <1>11, <3>1, <3>2
  <2>2. /\ status'[j] \in {"done", "failed"}
        /\ \A k \in Job \ {j} : status'[k] = status[k]
    BY <1>a, <2>1
  <2>3. \A k \in Job \ {j} : resv'[k] = resv[k] /\ flagged'[k] = flagged[k]
    BY <1>11, <1>a DEF Complete, Fail, Reclaim
  <2>4. \/ resv'[j] = resv[j] /\ (resv[j] = "reserved" => Unspent(j)) /\ (resv[j] = "review" => Covered(j))
        \/ resv[j] = "reserved" /\ resv'[j] = "released" /\ Unspent(j)
        \/ resv[j] = "reserved" /\ resv'[j] = "review" /\ flagged'[j]
    <3>1. resv[j] = "review" => Covered(j)
      BY <1>0, <2>1 DEF JobOnce, JobHolds, Finished
    <3>2. CASE Complete(j)
      BY <1>0, <1>a, <3>1, <3>2 DEF Complete, JobOnce, JobHolds
    <3>3. CASE Fail(j)
      <4>1. wpc[j] \in {"after", "unaccounted"}
        BY <1>0, <3>3 DEF Fail, JobOnce, JobHolds
      <4>2. CASE wpc[j] = "after"
        BY <1>0, <1>a, <3>1, <3>3, <4>2 DEF Fail, JobOnce, JobHolds, Released
      <4>3. CASE wpc[j] = "unaccounted"
        BY <1>0, <1>a, <3>1, <3>3, <4>3 DEF Fail, JobOnce, JobHolds, ForReview
      <4> QED BY <4>1, <4>2, <4>3
    <3>4. CASE Reclaim(j)
      <4>1. CASE status[j] = "queued"
        <5>1. Unspent(j)
          BY <1>0, <4>1 DEF JobOnce, RowHolds, Fresh, Unspent
        <5> QED BY <1>a, <3>1, <3>4, <4>1, <5>1 DEF Reclaim, Released
      <4>2. CASE status[j] = "running"
        BY <1>a, <3>1, <3>4, <4>2 DEF Reclaim, Released, ForReview
      <4> QED BY <2>1, <4>1, <4>2
    <3> QED BY <1>11, <3>2, <3>3, <3>4
  <2>5. Unspent(j) => Recorded(j)
    BY <1>0 DEF JobOnce, RowHolds, Unspent, Recorded
  <2>6. /\ Recorded(j)' <=> Recorded(j)
        /\ Unspent(j)' <=> Unspent(j)
        /\ Covered(j)' <=> Covered(j)
    BY <2>1 DEF Recorded, Unspent, Covered
  <2>7. resv[j] # "none" /\ budget[j].pc = "idle"
    BY <1>0, <2>1 DEF JobOnce, JobHolds
  <2>8. resv[j] \in {"settled", "released"} => Recorded(j)
    BY <1>0 DEF JobOnce, JobHolds
  <2>9. JobHolds(j)'
    BY <2>1, <2>2, <2>4, <2>5, <2>6, <2>7, <2>8 DEF JobHolds, Fresh, Finished
  <2>10. \A e \in Engine : RowHolds(j, e)'
    BY <1>0, <2>1, <2>2, <2>4, <2>6 DEF JobOnce, RowHolds, Fresh
  <2>11. Forward(j) /\ \A k \in Job \ {j} : Kept(k)
    BY <2>1, <2>2, <2>3 DEF Forward, Kept
  <2> QED BY <1>0, <2>1, <2>9, <2>10, <2>11, JobMoves DEF JobOnce
<1> QED
  BY <1>1, <1>2, <1>3, <1>4, <1>5, <1>6, <1>7, <1>8, <1>9, <1>10, <1>11 DEF JobNext, JobStep

\* A reconciliation that only moves on: its new local state holds.
LEMMA TaskMoves ==
  ASSUME CallTypes, OnceInv, NEW r \in Reconciler, NEW t, rec' = [rec EXCEPT ![r] = t],
         TaskHolds(r)', \A j \in Job : JobOnce(j)' /\ Forward(j)
  PROVE  OnceInv'
<1>1. \A q \in Reconciler \ {r} : rec'[q] = rec[q]
  BY DEF CallTypes
<1>2. \A q \in Reconciler : TaskHolds(q)'
  BY <1>1, ForwardTask
<1> QED
  BY <1>2 DEF OnceInv, JobOnce

\* Between two rows, or given up, a reconciliation knows only what is left to do.
LEMMA TaskRests ==
  ASSUME NEW r, NextRow(r) \/ rec' = [rec EXCEPT ![r] = NoTask]
  PROVE  \E t : /\ rec' = [rec EXCEPT ![r] = t] /\ t.pc \in {"idle", "load"}
                /\ t.todo = rec[r].todo \/ t.todo = {}
<1>1. CASE NextRow(r)
  <2> DEFINE t == [NoTask EXCEPT !.pc = IF rec[r].todo = {} THEN "idle" ELSE "load",
                                 !.todo = rec[r].todo]
  <2>1. rec' = [rec EXCEPT ![r] = t]
    BY <1>1 DEF NextRow
  <2>2. t.pc \in {"idle", "load"} /\ t.todo = rec[r].todo
    BY DEF NoTask
  <2> HIDE DEF t
  <2> QED BY <2>1, <2>2
<1>2. CASE rec' = [rec EXCEPT ![r] = NoTask]
  <2>1. NoTask.pc = "idle" /\ NoTask.todo = {}
    BY DEF NoTask
  <2> QED BY <1>2, <2>1
<1> QED
  BY <1>1, <1>2

LEMMA ReconcilerStepOnce ==
  ASSUME BooksInv, OnceInv, NEW r \in Reconciler, ReconcilerNext(r)
  PROVE  OnceInv'
<1>0. CallTypes /\ TaskHolds(r) /\ rec[r] \in Task /\ \A j \in Job : JobOnce(j)
  BY DEF BooksInv, ChargeInv, CallTypes, OnceInv, JobOnce
<1>a. DOMAIN rec = Reconciler /\ resv \in [Job -> Reservation] /\ DOMAIN resv = Job
  BY <1>0 DEF BooksInv, CallTypes, JobTypes
<1>b. UNCHANGED <<status, flagged, budget, wpc, runs, counts, spent>>
  BY DEF ReconcilerNext, ReconcilerStep, Scan, Load, Replay, Mark, CommitMark, ReplayRaises,
         ReconcilerDies, RecordUsage
<1>1. ASSUME UNCHANGED <<resv, ledger, event>>
      PROVE  \A j \in Job : JobOnce(j)' /\ Forward(j)
  <2>1. \A j \in Job : Kept(j)
    BY <1>b, <1>1 DEF Kept
  <2> QED
    BY <1>0, <2>1, KeptHolds
<1>2. CASE Scan(r) \/ Load(r)
  <2>1. UNCHANGED <<resv, ledger, event>>
    BY <1>2 DEF Scan, Load
  <2>2. PICK rows \in SUBSET Row : (\A x \in rows : event[x].st # "none") /\ Take(r, rows)
    BY <1>0, <1>2 DEF Scan, Load, Scanned, Pending, TaskHolds
  <2>3. PICK x \in rows :
          rec' = [rec EXCEPT ![r] = [NoTask EXCEPT !.pc = "record", !.todo = rows \ {x},
                                                   !.row = x, !.calls = event[x].calls]]
    BY <2>2 DEF Take
  <2> DEFINE t == [NoTask EXCEPT !.pc = "record", !.todo = rows \ {x}, !.row = x, !.calls = event[x].calls]
  <2>4. /\ t.pc = "record" /\ t.todo = rows \ {x} /\ t.row = x /\ t.calls = event[x].calls
        /\ rec'[r] = t /\ rec' = [rec EXCEPT ![r] = t]
    BY <1>a, <2>3 DEF NoTask
  <2> HIDE DEF t
  <2>5. event[x].calls = spent[x]
    BY <1>0, <2>2 DEF JobOnce, RowHolds
  <2>6. TaskHolds(r)'
    BY <1>b, <2>1, <2>2, <2>4, <2>5 DEF TaskHolds
  <2> QED
    BY <1>0, <1>1, <2>1, <2>4, <2>6, TaskMoves
<1>3. CASE ReplayRaises(r) \/ ReconcilerDies(r)
  <2>1. UNCHANGED <<resv, ledger, event>>
    BY <1>3 DEF ReplayRaises, ReconcilerDies
  <2>2. PICK t : /\ rec' = [rec EXCEPT ![r] = t] /\ t.pc \in {"idle", "load"}
                 /\ t.todo = rec[r].todo \/ t.todo = {}
    BY <1>3, TaskRests DEF ReplayRaises, ReconcilerDies
  <2>3. TaskHolds(r)'
    BY <1>0, <1>a, <2>1, <2>2 DEF TaskHolds
  <2> QED
    BY <1>0, <1>1, <2>1, <2>2, <2>3, TaskMoves
<1>4. CASE Replay(r)
  <2> DEFINE x == rec[r].row
             calls == [Zero EXCEPT ![x] = rec[r].calls]
  <2>1. /\ rec[r].pc = "record" /\ RecordUsage(x[1], calls)
        /\ rec' = [rec EXCEPT ![r].pc = "mark"]
    BY <1>4 DEF Replay, Step
  <2>2. x \in Row /\ event[x].st # "none" /\ rec[r].calls = spent[x] /\ rec[r].calls \in Nat
    BY <1>0, <2>1 DEF TaskHolds
  <2>3. PICK j \in Job, d \in Engine : x = <<j, d>>
    BY <2>2
  <2>4. /\ calls \in [Row -> Nat]
        /\ \A y \in Row : calls[y] = IF y = x THEN spent[x] ELSE 0
    BY <2>2 DEF Zero
  <2> HIDE DEF calls
  <2>5. /\ \A e \in Engine : calls[<<j, e>>] \in {0, spent[<<j, e>>]}
        /\ \A y \in Row : y[1] # j => calls[y] = 0
        /\ calls[<<j, d>>] = spent[<<j, d>>]
    BY <2>3, <2>4
  <2>6. \A e \in Engine : ledger[<<j, e>>] \in {0, spent[<<j, e>>]}
    BY <1>0 DEF JobOnce, RowHolds
  <2>7. RecordUsage(j, calls)
    BY <2>1, <2>3
  <2>8. /\ \A y \in Row : y[1] # j => ledger'[y] = ledger[y]
        /\ \A e \in Engine :
              /\ ledger'[<<j, e>>] \in {0, spent[<<j, e>>]}
              /\ ledger[<<j, e>>] = spent[<<j, e>>] => ledger'[<<j, e>>] = spent[<<j, e>>]
              /\ calls[<<j, e>>] = spent[<<j, e>>] => ledger'[<<j, e>>] = spent[<<j, e>>]
        /\ UNCHANGED <<status, held, flagged, event>>
        /\ \A k \in Job \ {j} : resv'[k] = resv[k]
        /\ IF resv[j] \in {"reserved", "review"} /\ NonePending(j)
             THEN resv'[j] \in {"settled", "released"} ELSE resv'[j] = resv[j]
    <3> HIDE DEF Row, x
    <3> QED BY <2>4, <2>5, <2>6, <2>7, InsertWhole
  <2>9. ledger'[x] = spent[x]
    BY <2>3, <2>5, <2>8
  <2>10. /\ Covered(j) /\ wpc[j] \in {"after", "unaccounted", "idle"}
         /\ resv[j] \in {"review", "settled", "released"}
    BY <1>0, <2>2, <2>3 DEF JobOnce, RowHolds
  <2>11. Recorded(j) => Recorded(j)'
    BY <1>b, <2>8 DEF Recorded
  <2>12. NonePending(j) => Recorded(j)
    <3>1. ASSUME NEW e \in Engine, NonePending(j) PROVE ledger[<<j, e>>] = spent[<<j, e>>]
      <4>1. event[<<j, e>>].st \in {"none", "pending", "processed"} /\ spent[<<j, e>>] \in Nat
        BY <1>0 DEF CallTypes
      <4>2. event[<<j, e>>].st # "pending"
        BY <3>1 DEF NonePending, Pending
      <4>3. CASE spent[<<j, e>>] > 0
        <5>1. event[<<j, e>>].st = "processed"
          BY <2>10, <4>1, <4>2, <4>3 DEF Covered
        <5> QED BY <1>0, <5>1 DEF JobOnce, RowHolds
      <4>4. CASE spent[<<j, e>>] = 0
        BY <1>0, <4>4 DEF JobOnce, RowHolds
      <4> QED BY <4>1, <4>3, <4>4
    <3> QED BY <3>1 DEF Recorded
  <2>13. Covered(j)'
    BY <1>b, <2>8, <2>10 DEF Covered
  <2>14. JobHolds(j)'
    <3>1. JobHolds(j)
      BY <1>0 DEF JobOnce
    <3>2. CASE resv[j] \in {"reserved", "review"} /\ NonePending(j)
      <4>1. resv'[j] \in {"settled", "released"} /\ Recorded(j)'
        BY <2>8, <2>11, <2>12, <3>2
      <4> QED
        BY <1>b, <2>8, <2>10, <3>1, <4>1 DEF JobHolds, Fresh, Finished
    <3>3. CASE ~(resv[j] \in {"reserved", "review"} /\ NonePending(j))
      <4>1. resv'[j] = resv[j]
        BY <2>8, <3>3
      <4> QED
        BY <1>b, <2>8, <2>10, <2>11, <2>13, <3>1, <4>1 DEF JobHolds, Fresh, Finished
    <3> QED BY <3>2, <3>3
  <2>15. \A e \in Engine : RowHolds(j, e)'
    <3>1. resv'[j] \in {"review", "settled", "released"}
      BY <2>8, <2>10
    <3> QED
      BY <1>0, <1>b, <2>8, <2>10, <2>13, <3>1 DEF JobOnce, RowHolds, Fresh
  <2>16. Forward(j) /\ JobOnce(j)'
    BY <1>b, <2>8, <2>14, <2>15 DEF Forward, JobOnce
  <2>17. \A k \in Job \ {j} : Kept(k)
    BY <1>b, <2>8 DEF Kept
  <2>18. \A k \in Job : JobOnce(k)' /\ Forward(k)
    BY <1>0, <2>16, <2>17, KeptHolds
  <2>19. rec'[r] = [rec[r] EXCEPT !.pc = "mark"] /\ rec' = [rec EXCEPT ![r] = [rec[r] EXCEPT !.pc = "mark"]]
    BY <1>a, <2>1
  <2>20. rec'[r].pc = "mark" /\ rec'[r].row = x /\ rec'[r].todo = rec[r].todo
    BY <1>0, <2>19
  <2>21. TaskHolds(r)'
    <3> HIDE DEF x
    <3> QED BY <1>0, <1>b, <2>2, <2>8, <2>9, <2>20 DEF TaskHolds
  <2> QED
    BY <1>0, <2>18, <2>19, <2>21, TaskMoves
<1>5. CASE Mark(r)
  <2> DEFINE x == rec[r].row
             s == /\ \A e \in Engine : Pending(<<x[1], e>>) => <<x[1], e>> = x
                  /\ resv[x[1]] = "review"
             t == [rec[r] EXCEPT !.pc = "commit", !.settle = s]
  <2>1. /\ rec[r].pc = "mark" /\ UNCHANGED <<resv, ledger, event>>
        /\ rec' = [rec EXCEPT ![r].pc = "commit", ![r].settle = s]
    BY <1>5 DEF Mark
  <2>2. rec' = [rec EXCEPT ![r] = t] /\ rec'[r] = t
    BY <1>a, <2>1
  <2>3. t.pc = "commit" /\ t.row = x /\ t.todo = rec[r].todo /\ (t.settle <=> s)
    BY <1>0
  <2>4. x \in Row /\ event[x].st # "none" /\ ledger[x] = spent[x]
    BY <1>0, <2>1 DEF TaskHolds
  <2>5. PICK j \in Job, d \in Engine : x = <<j, d>>
    BY <2>4
  <2>6. s => Recorded(j)
    <3>1. Covered(j)
      BY <1>0, <2>4, <2>5 DEF JobOnce, RowHolds
    <3>2. ASSUME s, NEW e \in Engine PROVE ledger[<<j, e>>] = spent[<<j, e>>]
      <4>1. event[<<j, e>>].st \in {"none", "pending", "processed"} /\ spent[<<j, e>>] \in Nat
        BY <1>0 DEF CallTypes
      <4>2. CASE event[<<j, e>>].st = "pending"
        BY <2>4, <2>5, <3>2, <4>2 DEF Pending
      <4>3. CASE event[<<j, e>>].st = "processed"
        BY <1>0, <4>3 DEF JobOnce, RowHolds
      <4>4. CASE event[<<j, e>>].st = "none"
        <5>1. spent[<<j, e>>] = 0
          BY <3>1, <4>1, <4>4 DEF Covered
        <5> QED BY <1>0, <5>1 DEF JobOnce, RowHolds
      <4> QED BY <4>1, <4>2, <4>3, <4>4
    <3> HIDE DEF s
    <3> QED BY <3>2 DEF Recorded
  <2> HIDE DEF s, t
  <2>7. Recorded(j)' <=> Recorded(j)
    BY <1>b, <2>1 DEF Recorded
  <2>8. x[1] = j
    BY <2>5
  <2> HIDE DEF x
  <2>9. TaskHolds(r)'
    <3>1. /\ rec'[r].pc = "commit" /\ rec'[r].row = x /\ rec'[r].todo = rec[r].todo
          /\ rec'[r].settle <=> s
      BY <2>2, <2>3
    <3>2. /\ \A y \in rec'[r].todo : event'[y].st # "none"
          /\ x \in Row /\ event'[x].st # "none" /\ ledger'[x] = spent'[x]
      BY <1>0, <1>b, <2>1, <2>4, <3>1 DEF TaskHolds
    <3>3. rec'[r].settle => \A e \in Engine : ledger'[<<j, e>>] = spent'[<<j, e>>]
      BY <2>6, <2>7, <3>1 DEF Recorded
    <3>4. rec'[r].row[1] = j
      BY <2>8, <3>1
    <3> HIDE DEF Row
    <3> QED BY <3>1, <3>2, <3>3, <3>4 DEF TaskHolds, Recorded
  <2> QED
    BY <1>0, <1>1, <2>1, <2>2, <2>9, TaskMoves
<1>6. CASE CommitMark(r)
  <2> DEFINE x == rec[r].row
  <2>1. /\ rec[r].pc = "commit" /\ event' = [event EXCEPT ![x].st = "processed"]
        /\ resv' = [resv EXCEPT ![x[1]] = IF rec[r].settle THEN "settled" ELSE @]
        /\ NextRow(r) /\ UNCHANGED ledger
    BY <1>6 DEF CommitMark
  <2>2. /\ x \in Row /\ event[x].st # "none" /\ ledger[x] = spent[x]
        /\ rec[r].settle => Recorded(x[1])
    BY <1>0, <2>1 DEF TaskHolds
  <2>3. PICK j \in Job, d \in Engine : x = <<j, d>>
    BY <2>2
  <2>4. /\ \A y \in Row : y # x => event'[y] = event[y]
        /\ event'[x].st = "processed" /\ event'[x].calls = event[x].calls
    BY <1>0, <2>1, <2>2 DEF CallTypes
  <2>5. /\ \A k \in Job \ {j} : resv'[k] = resv[k]
        /\ resv'[j] = resv[j] \/ (rec[r].settle /\ resv'[j] = "settled")
    BY <1>a, <2>1, <2>3
  <2>6. Recorded(j)' <=> Recorded(j)
    BY <1>b, <2>1 DEF Recorded
  <2>7. /\ wpc[j] \in {"after", "unaccounted", "idle"} /\ Covered(j)
        /\ resv[j] \in {"review", "settled", "released"} /\ JobHolds(j)
    BY <1>0, <2>2, <2>3 DEF JobOnce, RowHolds
  <2>8. \A e \in Engine : /\ event[<<j, e>>].st # "none" => event'[<<j, e>>].st # "none"
                          /\ event'[<<j, e>>].calls = event[<<j, e>>].calls
                          /\ event'[<<j, e>>] = event[<<j, e>>] \/ <<j, e>> = x
    BY <2>4
  <2>9. Covered(j)'
    BY <1>b, <2>7, <2>8 DEF Covered
  <2>10. x[1] = j
    BY <2>3
  <2>11. JobHolds(j)'
    <3>1. resv'[j] = "settled" /\ rec[r].settle => Recorded(j)'
      BY <2>2, <2>6, <2>10
    <3>2. resv'[j] \in {"review", "settled", "released"}
      BY <2>5, <2>7
    <3>3. resv'[j] \in {"settled", "released"} => Recorded(j)'
      BY <2>5, <2>6, <2>7, <3>1 DEF JobHolds
    <3> QED
      BY <1>b, <2>7, <2>9, <3>2, <3>3 DEF JobHolds, Fresh, Finished
  <2>12. \A e \in Engine : RowHolds(j, e)'
    <3> SUFFICES ASSUME NEW e \in Engine PROVE RowHolds(j, e)'
      OBVIOUS
    <3>1. RowHolds(j, e) /\ resv'[j] \in {"review", "settled", "released"}
      BY <1>0, <2>5, <2>7 DEF JobOnce
    <3>2. CASE <<j, e>> = x
      <4>1. event'[<<j, e>>].calls = spent[<<j, e>>] /\ ledger[<<j, e>>] = spent[<<j, e>>]
        BY <2>2, <2>4, <3>1, <3>2 DEF RowHolds
      <4> HIDE DEF x
      <4> QED
        BY <1>b, <2>1, <2>7, <2>9, <3>1, <4>1 DEF RowHolds, Fresh
    <3>3. CASE <<j, e>> # x
      <4>1. event'[<<j, e>>] = event[<<j, e>>]
        BY <2>8, <3>3
      <4> HIDE DEF x
      <4> QED
        BY <1>b, <2>1, <2>7, <2>9, <3>1, <4>1 DEF RowHolds, Fresh
    <3> QED BY <3>2, <3>3
  <2>13. Forward(j) /\ JobOnce(j)'
    BY <1>b, <2>1, <2>8, <2>11, <2>12 DEF Forward, JobOnce
  <2>14. \A k \in Job \ {j} : Kept(k)
    <3>1. \A k \in Job \ {j} : \A e \in Engine : event'[<<k, e>>] = event[<<k, e>>]
      BY <2>3, <2>4
    <3> QED BY <1>b, <2>1, <2>5, <3>1 DEF Kept
  <2>15. \A k \in Job : JobOnce(k)' /\ Forward(k)
    BY <1>0, <2>13, <2>14, KeptHolds
  <2>16. PICK t : /\ rec' = [rec EXCEPT ![r] = t] /\ t.pc \in {"idle", "load"}
                  /\ t.todo = rec[r].todo \/ t.todo = {}
    BY <2>1, TaskRests
  <2>17. \A y \in Row : event[y].st # "none" => event'[y].st # "none"
    BY <2>4
  <2>18. TaskHolds(r)'
    BY <1>0, <1>a, <2>16, <2>17 DEF TaskHolds
  <2> QED
    BY <1>0, <2>15, <2>16, <2>18, TaskMoves
<1> QED
  BY <1>2, <1>3, <1>4, <1>5, <1>6 DEF ReconcilerNext, ReconcilerStep

LEMMA ReleaseStaleOnce ==
  ASSUME BooksInv, OnceInv, NEW j \in Job, ReleaseStale(j)
  PROVE  OnceInv'
<1>0. CallTypes /\ JobOnce(j)
  BY DEF BooksInv, ChargeInv, OnceInv, JobOnce
<1>1. /\ resv[j] = "review" /\ Finished(j) /\ ~flagged[j] /\ NonePending(j)
      /\ UNCHANGED <<status, flagged, ledger, counts, spent, event, budget, wpc, runs, rec>>
      /\ resv' = [resv EXCEPT ![j] = "released"]
  BY DEF ReleaseStale
<1>2. resv'[j] = "released" /\ \A k \in Job \ {j} : resv'[k] = resv[k]
  BY <1>1 DEF BooksInv, JobTypes
<1>3. Covered(j) /\ wpc[j] = "idle"
  BY <1>0, <1>1 DEF JobOnce, JobHolds, Finished
<1>4. Recorded(j)
  <2>1. ASSUME NEW e \in Engine PROVE ledger[<<j, e>>] = spent[<<j, e>>]
    <3>1. event[<<j, e>>].st \in {"none", "processed"} /\ spent[<<j, e>>] \in Nat
      BY <1>0, <1>1 DEF CallTypes, NonePending, Pending
    <3>2. CASE spent[<<j, e>>] = 0
      BY <1>0, <3>2 DEF JobOnce, RowHolds
    <3>3. CASE spent[<<j, e>>] > 0
      <4>1. event[<<j, e>>].st = "processed"
        BY <1>3, <3>1, <3>3 DEF Covered
      <4> QED BY <1>0, <4>1 DEF JobOnce, RowHolds
    <3> QED BY <3>1, <3>2, <3>3
  <2> QED BY <2>1 DEF Recorded
<1>5. Recorded(j)' /\ Covered(j)'
  BY <1>1, <1>3, <1>4 DEF Recorded, Covered
<1>6. JobHolds(j)'
  BY <1>0, <1>1, <1>2, <1>3, <1>5 DEF JobOnce, JobHolds, Fresh, Finished
<1>7. \A e \in Engine : RowHolds(j, e)'
  BY <1>0, <1>1, <1>2, <1>3, <1>5 DEF JobOnce, RowHolds, Fresh
<1>8. Forward(j) /\ \A k \in Job \ {j} : Kept(k)
  BY <1>1, <1>2 DEF Forward, Kept
<1> QED
  BY <1>0, <1>1, <1>6, <1>7, <1>8, JobMoves DEF JobOnce

LEMMA StepOnce == OneRun /\ BooksInv /\ OnceInv /\ [Next]_vars => OnceInv'
<1> SUFFICES ASSUME OneRun, BooksInv, OnceInv, [Next]_vars PROVE OnceInv'
  OBVIOUS
<1>1. CASE UNCHANGED vars
  <2>1. /\ CallTypes /\ UNCHANGED rec /\ \A j \in Job : JobOnce(j) /\ Kept(j)
    BY <1>1 DEF BooksInv, ChargeInv, OnceInv, JobOnce, Kept, vars
  <2>2. \A j \in Job : JobOnce(j)' /\ Forward(j)
    BY <2>1, KeptHolds
  <2>3. \A r \in Reconciler : TaskHolds(r)'
    BY <2>1, <2>2, ForwardTask
  <2> QED BY <2>2, <2>3 DEF OnceInv, JobOnce
<1>2. ASSUME NEW j \in Job, JobNext(j) PROVE OnceInv'
  BY <1>2, JobStepOnce
<1>3. ASSUME NEW j \in Job, ReleaseStale(j) PROVE OnceInv'
  BY <1>3, ReleaseStaleOnce
<1>4. ASSUME NEW r \in Reconciler, ReconcilerNext(r) PROVE OnceInv'
  BY <1>4, ReconcilerStepOnce
<1> QED
  BY <1>1, <1>2, <1>3, <1>4 DEF Next

LEMMA InitOnce == Init => OnceInv
  BY DEF Init, OnceInv, JobHolds, RowHolds, TaskHolds, Fresh, Finished, Zero, NoTask, NoBudget

LEMMA OnceAccounts ==
  ASSUME BooksInv, OnceInv
  PROVE  UsageAccounted
<1>0. ASSUME NEW j \in Job, NEW e \in Engine
      PROVE  /\ JobHolds(j) /\ RowHolds(j, e) /\ spent[<<j, e>>] \in Nat
             /\ event[<<j, e>>].st \in {"none", "pending", "processed"}
             /\ resv[j] \in {"none", "reserved", "review", "settled", "released"}
  BY DEF OnceInv, BooksInv, ChargeInv, CallTypes, JobTypes, Reservation
<1>1. ASSUME NEW j \in Job, NEW e \in Engine,
             Finished(j), wpc[j] = "idle", ledger[<<j, e>>] # spent[<<j, e>>]
      PROVE  /\ resv[j] = "review"
             /\ flagged[j] \/ (Pending(<<j, e>>) /\ event[<<j, e>>].calls = spent[<<j, e>>])
  <2>1. spent[<<j, e>>] > 0
    BY <1>0, <1>1 DEF RowHolds
  <2>2. resv[j] = "review"
    BY <1>0, <1>1, <2>1 DEF JobHolds, Finished, Unspent, Recorded
  <2>3. ASSUME ~flagged[j] PROVE Pending(<<j, e>>) /\ event[<<j, e>>].calls = spent[<<j, e>>]
    <3>1. event[<<j, e>>].st # "none"
      BY <1>0, <2>1, <2>2, <2>3 DEF JobHolds, Covered
    <3>2. event[<<j, e>>].st # "processed" /\ event[<<j, e>>].calls = spent[<<j, e>>]
      BY <1>0, <1>1, <3>1 DEF RowHolds
    <3> QED BY <1>0, <3>1, <3>2 DEF Pending
  <2> QED BY <2>2, <2>3
<1>2. ASSUME NEW j \in Job, NEW e \in Engine, resv[j] = "settled"
      PROVE  ledger[<<j, e>>] = spent[<<j, e>>]
  BY <1>0, <1>2 DEF JobHolds, Recorded
<1>3. \A x \in Row : x[1] \in Job /\ x[2] \in Engine /\ x = <<x[1], x[2]>>
  OBVIOUS
<1> QED
  BY <1>1, <1>2, <1>3 DEF UsageAccounted, NothingForgotten, SettledIsComplete

\* What a job with one engine run has spent is in the ledger once it has ended, or its
\* reservation waits in review, with an event of all its calls or a flag for the
\* operator; and a settled reservation leaves no calls out. For any number of jobs,
\* engines, overlapping reconciliations, lost answers and crashes.
THEOREM UsageKept ==
  ASSUME OneRun
  PROVE  Spec => []UsageAccounted
<1>1. Init => BooksInv /\ OnceInv
  BY InitBooks, InitOnce
<1>2. BooksInv /\ OnceInv /\ [Next]_vars => (BooksInv /\ OnceInv)'
  BY StepBooks, StepOnce
<1>3. BooksInv /\ OnceInv => UsageAccounted
  BY OnceAccounts
<1> QED
  BY <1>1, <1>2, <1>3, PTL DEF Spec

=============================================================================
