-------------------------- MODULE UsageAccounting --------------------------
(***************************************************************************)
(* How citeaura pays for the platform pool: the budget a job reserves, the *)
(* calls its engine runs make, the usage ledger and monthly counter, the   *)
(* outbox that keeps what could not be recorded, and the reconciliation.   *)
(*                                                                         *)
(*   sampling_control.py  reserve, under one advisory lock                 *)
(*   worker_isolation.py  run_engine_job and _account_usage                *)
(*   platform_pool.py     record_usage, persist_usage_outbox,              *)
(*                        reconcile_usage_outbox                           *)
(*                                                                         *)
(* The ledger holds one row per job and engine, so accounting can be       *)
(* repeated. One action is one transaction; reserve and the reconciliation *)
(* read in one statement what they use in a later one, so they are split   *)
(* there. All jobs belong to one tenant and one month; a canceled job      *)
(* counts as failed. The life of a job is in JobLifecycle: here its worker *)
(* is known by the job.                                                    *)
(***************************************************************************)
EXTENDS Naturals, FiniteSets, Functions

CONSTANTS
    Job, Engine,   \* jobs and the engines of the platform pool
    Reconciler,    \* runs of the reconciliation task that may overlap
    None,          \* no row
    Limit,         \* the hard monthly limit, in calls
    Estimates,     \* the calls a reservation may be made for
    MaxCalls,      \* bound: calls to one engine in one run
    MaxRuns,       \* bound: engine runs of one job
    Faults,        \* which faults the environment may inject
    MaxFaults      \* bound: faults injected in one behaviour

AllFaults == {"db", "ack", "crash", "timeout"}

ASSUME AccountingConstants ==
    /\ IsFiniteSet(Job) /\ IsFiniteSet(Engine)
    /\ None \notin Job
    /\ Limit \in Nat
    /\ Estimates \subseteq Nat
    /\ MaxCalls \in Nat
    /\ MaxRuns \in Nat
    /\ Faults \subseteq AllFaults
    /\ MaxFaults \in Nat

Row == Job \X Engine  \* the key of a usage row and of an outbox event

VARIABLES
    status,   \* jobs.status
    resv,     \* jobs.budget_reservation_status
    held,     \* jobs.reserved_platform_calls
    flagged,  \* jobs.error names platform_usage_accounting_pending
    ledger,   \* platform_usage.calls, 0 where there is no row
    counter,  \* usage_counters.platform_calls
    event,    \* platform_usage_outbox: the state of the event and its calls
    budget,   \* what a reservation has read while it holds the advisory lock
    wpc,      \* where the worker of a job stands
    counts,   \* the calls of the current engine run
    tries,    \* failed attempts to record them
    runs,     \* engine runs of the job so far
    rec,      \* the local state of the reconciliations
    spent,    \* history: the calls the job has made to the engine
    faults    \* faults injected so far

jobVars  == <<status, resv, held, flagged>>
bookVars == <<ledger, counter, event>>
runVars  == <<wpc, counts, tries, runs, spent>>
vars     == <<jobVars, bookVars, budget, runVars, rec, faults>>

-----------------------------------------------------------------------------
(* Values and derived state.                                               *)

Active(j)   == status[j] \in {"queued", "running"}
Finished(j) == status[j] \in {"done", "failed"}
Pending(x)  == event[x].st = "pending"

\* Mutants: events that wait do not keep the reservation; processed ones do.
IgnoresPending(j) == TRUE
NoEvents(j) == \A e \in Engine : event[<<j, e>>].st = "none"
NonePending(j) == \A e \in Engine : ~Pending(<<j, e>>)
Zero        == [x \in Row |-> 0]
CallsOf(j)  == [x \in Row |-> IF x[1] = j THEN counts[x] ELSE 0]

\* _pool_reservations: the reservations that count against the limit.
Counts(j) == \/ resv[j] = "reserved" /\ Active(j)
             \/ resv[j] = "review" /\ Finished(j)
Reserved  == SumFunctionOnSet(held, {j \in Job : Counts(j)})
Used      == SumFunction(ledger)

\* release_reservation: only an untouched reservation is given back.
Released(r) == IF r = "reserved" THEN "released" ELSE r

NoTask   == [pc |-> "idle", todo |-> {}, row |-> None, calls |-> 0, settle |-> FALSE]
NoBudget == [pc |-> "idle", total |-> 0]

WorkerPc     == {"idle", "run", "record", "persist", "after", "failing", "unaccounted"}
ReconcilerPc == {"idle", "load", "record", "mark", "commit"}

Fault(f)       == f \in Faults /\ faults < MaxFaults /\ faults' = faults + 1
Goto(j, pc)    == wpc' = [wpc EXCEPT ![j] = pc]
GotoOneOf(j, pcs) == \E pc \in pcs : Goto(j, pc)
Step(r, pc)    == rec' = [rec EXCEPT ![r].pc = pc]

Init ==
    /\ status = [j \in Job |-> "free"]
    /\ resv = [j \in Job |-> "none"]
    /\ held = [j \in Job |-> 0]
    /\ flagged = [j \in Job |-> FALSE]
    /\ ledger = Zero
    /\ counter = 0
    /\ event = [x \in Row |-> [st |-> "none", calls |-> 0]]
    /\ budget = [j \in Job |-> NoBudget]
    /\ wpc = [j \in Job |-> "idle"]
    /\ counts = Zero
    /\ tries = [j \in Job |-> 0]
    /\ runs = [j \in Job |-> 0]
    /\ rec = [r \in Reconciler |-> NoTask]
    /\ spent = Zero
    /\ faults = 0

-----------------------------------------------------------------------------
(* The budget: a new job, or the gap filling of a delivery, reserves.      *)

\* Who reserves: the request of a job that is not inserted yet, or the worker
\* that is about to run the engine again for the samples a delivery lacks.
Reserving(j) ==
    \/ status[j] = "free"
    \/ wpc[j] = "after" /\ runs[j] < MaxRuns

\* Mutant: reservations are not serialised.
NotSerialised(j) == TRUE
\* pg_advisory_xact_lock is held to the end of the transaction.
Serialised(j) == \A k \in Job : budget[k].pc = "idle"

\* The usage of the month is read under the lock ...
ReadUsage(j) ==
    /\ Reserving(j)
    /\ budget[j].pc = "idle"
    /\ Serialised(j)
    /\ budget' = [budget EXCEPT ![j] = [pc |-> "usage", total |-> Used]]
    /\ UNCHANGED <<jobVars, bookVars, runVars, rec, faults>>

\* ... then, in another statement, the reservations in force ...
ReadReserved(j) ==
    /\ budget[j].pc = "usage"
    /\ budget' = [budget EXCEPT ![j] = [pc |-> "decide", total |-> @.total + Reserved]]
    /\ UNCHANGED <<jobVars, bookVars, runVars, rec, faults>>

\* ... and the reservation is stored if its estimate fits.
Fits(j, n) == budget[j].total + n <= Limit
Reserve(j) ==
    /\ budget[j].pc = "decide"
    /\ \E n \in Estimates :
          /\ Fits(j, n)
          /\ held' = [held EXCEPT ![j] = n]
          /\ resv' = [resv EXCEPT ![j] = IF n > 0 THEN "reserved" ELSE "none"]
          /\ IF status[j] = "free"
               THEN /\ status' = [status EXCEPT ![j] = "queued"]
                    /\ UNCHANGED runVars
               ELSE /\ Goto(j, "run")
                    /\ runs' = [runs EXCEPT ![j] = @ + 1]
                    /\ UNCHANGED <<status, counts, tries, spent>>
    /\ budget' = [budget EXCEPT ![j] = NoBudget]
    /\ UNCHANGED <<flagged, bookVars, rec, faults>>

\* SamplingBudgetExceeded: no job, or no second run; a delivery then fails or
\* is put off.
Refuse(j) ==
    /\ budget[j].pc = "decide"
    /\ \E n \in Estimates : ~Fits(j, n)
    /\ IF status[j] = "free"
         THEN UNCHANGED runVars
         ELSE /\ GotoOneOf(j, {"after", "failing"})
              /\ runs' = [runs EXCEPT ![j] = @ + 1]
              /\ UNCHANGED <<counts, tries, spent>>
    /\ budget' = [budget EXCEPT ![j] = NoBudget]
    /\ UNCHANGED <<jobVars, bookVars, rec, faults>>

-----------------------------------------------------------------------------
(* An engine run and its accounting.                                       *)

StartRun(j) ==
    /\ Goto(j, "run")
    /\ runs' = [runs EXCEPT ![j] = @ + 1]
    /\ UNCHANGED <<resv, held, flagged, bookVars, budget, counts, tries, rec,
                   spent, faults>>

Claim(j) ==
    /\ status[j] = "queued"
    /\ status' = [status EXCEPT ![j] = "running"]
    /\ StartRun(j)

\* A redelivered message starts a job again unless its reservation is open.
Redeliver(j) ==
    /\ status[j] = "running" /\ wpc[j] = "idle"
    /\ resv[j] # "reserved"
    /\ runs[j] < MaxRuns
    /\ StartRun(j)
    /\ UNCHANGED status

\* meter_platform_calls counts a call as it is made.
Call(j, e) ==
    /\ wpc[j] = "run"
    /\ counts[<<j, e>>] < MaxCalls
    /\ counts' = [counts EXCEPT ![<<j, e>>] = @ + 1]
    /\ spent' = [spent EXCEPT ![<<j, e>>] = @ + 1]
    /\ UNCHANGED <<jobVars, bookVars, budget, wpc, tries, runs, rec, faults>>

\* The engine process ends or is ended, and the parent has its counts; without
\* any there is nothing to account.
EndRun(j) ==
    /\ wpc[j] = "run"
    /\ Goto(j, IF \E e \in Engine : counts[<<j, e>>] > 0 THEN "record" ELSE "after")
    /\ UNCHANGED <<jobVars, bookVars, budget, counts, tries, runs, rec, spent, faults>>

Drop(j) == /\ counts' = [x \in Row |-> IF x[1] = j THEN 0 ELSE counts[x]]
           /\ tries' = [tries EXCEPT ![j] = 0]
           /\ UNCHANGED <<runs, spent>>

\* Mutants of the insert: a row that exists is added to; a conflict is counted.
AddOnConflict(j, calls) ==
    /\ ledger' = [x \in Row |-> ledger[x] + calls[x]]
    /\ counter' = counter + SumFunction(calls)
CountRejected(j, calls) ==
    /\ ledger' = [x \in Row |-> IF ledger[x] = 0 THEN calls[x] ELSE ledger[x]]
    /\ counter' = counter + SumFunction(calls)

\* INSERT ... ON CONFLICT DO NOTHING per engine; what was accepted is counted.
Insert(j, calls) ==
    /\ ledger' = [x \in Row |-> IF ledger[x] = 0 THEN calls[x] ELSE ledger[x]]
    /\ counter' = counter + SumFunctionOnSet(calls, {x \in Row : ledger[x] = 0})

\* record_usage: the rows, the counter and the reservation in one transaction.
RecordUsage(j, calls) ==
    /\ Insert(j, calls)
    /\ resv' = [resv EXCEPT ![j] =
                  IF @ \in {"reserved", "review"} /\ NonePending(j)
                    THEN IF \E e \in Engine : ledger'[<<j, e>>] > 0
                           THEN "settled" ELSE "released"
                    ELSE @]
    /\ UNCHANGED <<status, held, flagged, event>>

\* Mutant: one attempt too many.
AttemptLeftOver(j) == tries[j] <= 3
AttemptLeft(j) == tries[j] < 3

Record(j) ==
    /\ wpc[j] = "record" /\ AttemptLeft(j)
    /\ RecordUsage(j, CallsOf(j))
    /\ Goto(j, "after")
    /\ Drop(j)
    /\ UNCHANGED <<budget, rec, faults>>

\* record_usage raises: nothing was committed, or only the answer was lost.
RecordRaises(j) ==
    /\ wpc[j] = "record" /\ AttemptLeft(j)
    /\ \/ Fault("db") /\ UNCHANGED <<jobVars, bookVars>>
       \/ Fault("ack") /\ RecordUsage(j, CallsOf(j))
    /\ tries' = [tries EXCEPT ![j] = @ + 1]
    /\ UNCHANGED <<budget, wpc, counts, runs, rec, spent>>

\* SoftTimeLimitExceeded in the sleep between two attempts leaves the loop.
TimeLimit(j) ==
    /\ wpc[j] = "record" /\ tries[j] \in {1, 2}
    /\ Fault("timeout")
    /\ Goto(j, "failing")
    /\ Drop(j)
    /\ UNCHANGED <<jobVars, bookVars, budget, rec>>

GiveUpRecording(j) ==
    /\ wpc[j] = "record" /\ ~AttemptLeft(j)
    /\ Goto(j, "persist")
    /\ UNCHANGED <<jobVars, bookVars, budget, counts, tries, runs, rec, spent, faults>>

\* persist_usage_outbox: one event per job and engine. A pending one is
\* overwritten, a processed one is left alone, and only a new one is reported.
NewEvents(j) == {x \in Row : CallsOf(j)[x] > 0 /\ event[x].st = "none"}
PersistUsage(j) ==
    /\ event' = [x \in Row |->
                   IF CallsOf(j)[x] > 0 /\ event[x].st # "processed"
                     THEN [st |-> "pending", calls |-> counts[x]]
                     ELSE event[x]]
    /\ resv' = [resv EXCEPT ![j] = IF @ = "reserved" THEN "review" ELSE @]
    /\ UNCHANGED <<status, held, flagged, ledger, counter>>

Persist(j) ==
    /\ wpc[j] = "persist"
    /\ PersistUsage(j)
    /\ Goto(j, IF NewEvents(j) # {} THEN "after" ELSE "unaccounted")
    /\ Drop(j)
    /\ UNCHANGED <<budget, rec, faults>>

\* The outbox cannot be written, or its answer is lost: both report nothing.
PersistRaises(j) ==
    /\ wpc[j] = "persist"
    /\ \/ Fault("db") /\ UNCHANGED <<jobVars, bookVars>>
       \/ Fault("ack") /\ PersistUsage(j)
    /\ Goto(j, "unaccounted")
    /\ Drop(j)
    /\ UNCHANGED <<budget, rec>>

\* mark_complete.
Complete(j) ==
    /\ wpc[j] = "after" /\ budget[j].pc = "idle"
    /\ status' = [status EXCEPT ![j] = "done"]
    /\ flagged' = [flagged EXCEPT ![j] = FALSE]
    /\ Goto(j, "idle")
    /\ UNCHANGED <<resv, held, bookVars, budget, counts, tries, runs, rec, spent, faults>>

\* mark_failed and mark_canceled; an unaccounted run leaves its reservation for
\* a review.
ForReview(r) == IF r = "reserved" THEN "review" ELSE r

Fail(j) ==
    /\ wpc[j] \in {"after", "failing", "unaccounted"} /\ budget[j].pc = "idle"
    /\ status' = [status EXCEPT ![j] = "failed"]
    /\ flagged' = [flagged EXCEPT ![j] = wpc[j] = "unaccounted"]
    /\ resv' = [resv EXCEPT ![j] =
                  IF wpc[j] = "unaccounted" THEN ForReview(@) ELSE Released(@)]
    /\ Goto(j, "idle")
    /\ UNCHANGED <<held, bookVars, budget, counts, tries, runs, rec, spent, faults>>

\* The worker is killed: the counts of its run are gone with it.
Crash(j) ==
    /\ wpc[j] # "idle"
    /\ Fault("crash")
    /\ Goto(j, "idle")
    /\ Drop(j)
    /\ budget' = [budget EXCEPT ![j] = NoBudget]
    /\ UNCHANGED <<jobVars, bookVars, rec>>

\* reclaim_stale_jobs: a lost run that may have spent something is flagged.
Reclaim(j) ==
    /\ Active(j) /\ wpc[j] = "idle"
    /\ LET uncertain == status[j] = "running" /\ resv[j] = "reserved"
       IN  /\ resv' = [resv EXCEPT ![j] = IF uncertain THEN ForReview(@) ELSE Released(@)]
           /\ flagged' = [flagged EXCEPT ![j] = uncertain]
    /\ status' = [status EXCEPT ![j] = "failed"]
    /\ UNCHANGED <<held, bookVars, budget, runVars, rec, faults>>

-----------------------------------------------------------------------------
(* reconcile_usage_outbox, row by row.                                     *)

Scanned(x) == Pending(x)

\* A row and its calls. The session holds the first row as it was scanned and
\* reads each later one again, without asking whether it still waits.
Take(r, rows) ==
    \E x \in rows :
        rec' = [rec EXCEPT ![r] = [NoTask EXCEPT !.pc = "record", !.todo = rows \ {x},
                                                 !.row = x, !.calls = event[x].calls]]

\* The events that wait, without those whose next attempt is not due.
Scan(r) ==
    /\ rec[r].pc = "idle"
    /\ \E rows \in SUBSET {x \in Row : Scanned(x)} : Take(r, rows)
    /\ UNCHANGED <<jobVars, bookVars, budget, runVars, faults>>

Load(r) ==
    /\ rec[r].pc = "load"
    /\ Take(r, rec[r].todo)
    /\ UNCHANGED <<jobVars, bookVars, budget, runVars, faults>>

\* record_usage with the calls of the event, in a transaction of its own.
Replay(r) ==
    /\ rec[r].pc = "record"
    /\ RecordUsage(rec[r].row[1], [Zero EXCEPT ![rec[r].row] = rec[r].calls])
    /\ Step(r, "mark")
    /\ UNCHANGED <<budget, runVars, faults>>

\* Its transaction over, the reconciliation goes on to the next row.
NextRow(r) ==
    rec' = [rec EXCEPT ![r] = [NoTask EXCEPT !.pc = IF rec[r].todo = {} THEN "idle" ELSE "load",
                                             !.todo = rec[r].todo]]

\* record_usage raises: the event stays pending for a later round.
ReplayRaises(r) ==
    /\ rec[r].pc = "record"
    /\ Fault("db")
    /\ NextRow(r)
    /\ UNCHANGED <<jobVars, bookVars, budget, runVars>>

\* The event is marked, which locks its row, and the others are looked at ...
Mark(r) ==
    LET x == rec[r].row
    IN  /\ rec[r].pc = "mark"
        /\ \A q \in Reconciler : ~(rec[q].pc = "commit" /\ rec[q].row = x)
        /\ rec' = [rec EXCEPT ![r].pc = "commit",
                     ![r].settle = /\ \A e \in Engine : Pending(<<x[1], e>>) => <<x[1], e>> = x
                                   /\ resv[x[1]] = "review"]
        /\ UNCHANGED <<jobVars, bookVars, budget, runVars, faults>>

\* ... and the mark and the settled reservation are committed.
CommitMark(r) ==
    LET x == rec[r].row
    IN  /\ rec[r].pc = "commit"
        /\ event' = [event EXCEPT ![x].st = "processed"]
        /\ resv' = [resv EXCEPT ![x[1]] = IF rec[r].settle THEN "settled" ELSE @]
        /\ NextRow(r)
        /\ UNCHANGED <<status, held, flagged, ledger, counter, budget, runVars, faults>>

ReconcilerDies(r) ==
    /\ rec[r].pc # "idle"
    /\ Fault("crash")
    /\ rec' = [rec EXCEPT ![r] = NoTask]
    /\ UNCHANGED <<jobVars, bookVars, budget, runVars>>

\* Two hours after its job, a review that waits for no event and is not flagged
\* is given up.
ReleaseStale(j) ==
    /\ resv[j] = "review" /\ Finished(j) /\ ~flagged[j]
    /\ NonePending(j)
    /\ resv' = [resv EXCEPT ![j] = "released"]
    /\ UNCHANGED <<status, held, flagged, bookVars, budget, runVars, rec, faults>>

-----------------------------------------------------------------------------
JobStep(j) ==
    \/ ReadReserved(j) \/ Reserve(j) \/ Refuse(j) \/ Claim(j) \/ EndRun(j)
    \/ Record(j) \/ GiveUpRecording(j) \/ Persist(j) \/ Complete(j) \/ Fail(j) \/ Reclaim(j)

JobNext(j) ==
    \/ JobStep(j) \/ ReadUsage(j) \/ Redeliver(j) \/ \E e \in Engine : Call(j, e)
    \/ RecordRaises(j) \/ TimeLimit(j) \/ PersistRaises(j) \/ Crash(j)

ReconcilerStep(r) ==
    Scan(r) \/ Load(r) \/ Replay(r) \/ Mark(r) \/ CommitMark(r)

ReconcilerNext(r) == ReconcilerStep(r) \/ ReplayRaises(r) \/ ReconcilerDies(r)

Next ==
    \/ \E j \in Job : JobNext(j) \/ ReleaseStale(j)
    \/ \E r \in Reconciler : ReconcilerNext(r)

Spec == Init /\ [][Next]_vars

\* The beat starts the reconciliation every minute, and workers take the tasks
\* that are queued.
FairSpec ==
    /\ Spec
    /\ \A j \in Job : WF_vars(JobStep(j)) /\ WF_vars(ReleaseStale(j))
    /\ \A r \in Reconciler : WF_vars(ReconcilerStep(r))

-----------------------------------------------------------------------------
(* What the books promise.                                                 *)

\* Every variable holds a value the code can store there.
TypeOK ==
    /\ status \in [Job -> {"free", "queued", "running", "done", "failed"}]
    /\ resv \in [Job -> {"none", "reserved", "review", "settled", "released"}]
    /\ held \in [Job -> Nat]
    /\ flagged \in [Job -> BOOLEAN]
    /\ ledger \in [Row -> Nat]
    /\ counter \in Nat
    /\ event \in [Row -> [st : {"none", "pending", "processed"}, calls : Nat]]
    /\ budget \in [Job -> [pc : {"idle", "usage", "decide"}, total : Nat]]
    /\ wpc \in [Job -> WorkerPc]
    /\ counts \in [Row -> Nat]
    /\ tries \in [Job -> 0..3]
    /\ runs \in [Job -> Nat]
    /\ rec \in [Reconciler -> [pc : ReconcilerPc, todo : SUBSET Row,
                               row : Row \cup {None}, calls : Nat, settle : BOOLEAN]]
    /\ spent \in [Row -> Nat]
    /\ faults \in Nat

\* The monthly counter of the tenant is the sum of its usage rows: no retry,
\* lost answer or replay counts a call that the ledger already holds.
CounterMatchesLedger == counter = Used

\* No call is billed twice: a usage row never holds more calls than its job has
\* made to the engine.
NeverOvercharged == \A x \in Row : ledger[x] <= spent[x]

\* Reservations of active jobs fit the limit together, whoever reserves when.
ReservationsFit ==
    SumFunctionOnSet(held, {j \in Job : resv[j] = "reserved" /\ Active(j)}) <= Limit

\* What a finished job has spent is in the ledger, or its reservation is kept
\* for a review: with an event that waits, or flagged for the operator.
NothingForgotten ==
    \A x \in Row :
        Finished(x[1]) /\ wpc[x[1]] = "idle" /\ ledger[x] # spent[x] =>
            /\ resv[x[1]] = "review"
            /\ flagged[x[1]] \/ (Pending(x) /\ event[x].calls = spent[x])

\* A job that ends with its reservation settled has all its calls in the ledger.
SettledIsComplete ==
    \A x \in Row : Finished(x[1]) /\ resv[x[1]] = "settled" => ledger[x] = spent[x]

\* Every event is replayed in the end, so the outbox does not keep usage back.
EventsProcessed == \A x \in Row : Pending(x) ~> ~Pending(x)

\* A reservation in review does not stay there once its job has ended, unless
\* it is flagged for the operator.
ReviewsEnd ==
    \A j \in Job : resv[j] = "review" /\ Finished(j) ~> (resv[j] # "review" \/ flagged[j])

\* No usage of a finished job is lost between ledger, outbox and reservation.
UsageAccounted == NothingForgotten /\ SettledIsComplete

\* The outbox and the reviews that wait for it come to an end.
OutboxDrains == EventsProcessed /\ ReviewsEnd
=============================================================================
