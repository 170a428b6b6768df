-------------------------------- MODULE Quotas -------------------------------
(***************************************************************************)
(* What a workspace may create and sample: the allowance of a trial, the   *)
(* projects of a plan, the budget a sampling run reserves, the automatic   *)
(* retests of a trial (api/billing/limits.py, starter_scan.py,             *)
(* api/adapters/sampling_control.py, preflight.py,                         *)
(* api/projects/lifecycle_routes.py, sampling_routes.py,                   *)
(* api/worker/worker_maintenance.py).                                      *)
(*                                                                         *)
(* Requests of one workspace run side by side. A check locks the row of    *)
(* the tenant to the end of its transaction; jobs of other kinds are       *)
(* inserted without it, and workers move the rows meanwhile. What a job    *)
(* does, and how its reservation is settled, is left to other modules.     *)
(***************************************************************************)
EXTENDS Naturals, Sequences, FiniteSets, FiniteSetsExt, SequencesExt

CONSTANTS
    Slugs,         \* the sites a workspace may have projects of
    Askers,        \* requests that run side by side
    Catalog,       \* the platform pool's engines, searching and cheap ones first
    Price,         \* what a call of each costs
    Searches,      \* engines that search the web
    Codes,         \* all engines with an API
    Asks,          \* how many questions each engine is asked
    Rounds,        \* rounds of a run
    StartBudget,   \* TRIAL_STARTING_BUDGET: what a trial may spend of the pool
    PoolLimit,     \* what a tenant may spend of the pool
    ProjectLimit,  \* projects of each plan
    PerProject,    \* TRIAL_SAMPLE_LIMIT_PER_PROJECT
    TrialDays, RetestDays,
    Customers      \* what each behaviour starts from: see Customer

Kinds == {"sample", "import", "deliver", "create", "audit", "retry"}

Customer == [keys      : SUBSET Codes,     \* engines with a key of its own
             callLimit : SUBSET Nat,       \* {}: no limit for the project
             budget    : SUBSET Nat,
             does      : SUBSET (Kinds \cup {"retest", "subscribe", "cancel", "archive"}),
             days      : Nat,              \* bound: days that pass
             requests  : Nat,              \* bound: requests of the behaviour
             failures  : Nat]              \* bound: messages that are not sent

Nobody == "nobody"

ASSUME QuotasAssumption ==
    /\ IsFiniteSet(Slugs) /\ Nobody \notin Askers
    /\ Catalog \in Seq(Codes) /\ Searches \subseteq Codes
    /\ Price \in [Codes -> Nat] /\ Asks \in [Codes -> Nat] /\ Rounds \in Nat \ {0}
    /\ ProjectLimit \in [{"trial", "starter"} -> Nat]
    /\ ProjectLimit["trial"] <= ProjectLimit["starter"]
    /\ PerProject \in Nat /\ TrialDays \in Nat /\ RetestDays \subseteq 0 .. TrialDays
    /\ Customers \subseteq Customer

VARIABLES
    customer,  \* the behaviour's customer
    tenant,    \* the plan of the workspace and the day its trial ends
    today,
    places,    \* the projects
    book,      \* the rows of jobs, oldest first
    spent,     \* what the pool has been paid for each project
    tenantRow, \* who holds the lock of the tenant's row
    asker,     \* the requests under way
    sweep      \* the sweep of schedules

quotaVars ==
    <<customer, tenant, today, places, book, spent, tenantRow, asker, sweep>>

-----------------------------------------------------------------------------
(* Values.                                                                 *)

NoProject == [state |-> "absent", born |-> 0, pool |-> FALSE, done |-> {}]
Actions == {"sample", "sample-import", "cycle", "autopilot", "bootstrap", "deliver"}

JobRow == [of : Slugs, action : Actions,
           status : {"queued", "running", "done", "failed", "canceled", "deleted"},
           started : BOOLEAN, sent : BOOLEAN,
           samples : BOOLEAN,          \* not a no_sample run, nor an empty import
           gated : BOOLEAN,            \* history: admitted within a trial's allowance
           platforms : SUBSET Codes, cost : Nat, holds : BOOLEAN,
           day : {0} \cup RetestDays]  \* 0: not a retest

NotAsking == [pc |-> "idle", kind |-> "sample", of |-> Nobody,
         row |-> 0, samples |-> FALSE]

Active(p) == \E i \in DOMAIN book : book[i].of = p /\ book[i].status \in {"queued", "running"}
Open(ps) == {p \in Slugs : ps[p].state = "active"}
Does(what) == what \in customer.does

-----------------------------------------------------------------------------
(* What a plan allows.                                                     *)

\* _row_sampled: what counts as a sampling run. A running import counts.
RowSampled(row) == row.action # "bootstrap" /\ row.samples

\* A job that failed before it started is not counted.
CountedRow(row) ==
    /\ row.status # "deleted"
    /\ row.status # "failed" \/ row.started
Counted(p) ==
    Cardinality({i \in DOMAIN book :
        book[i].of = p /\ CountedRow(book[i]) /\ RowSampled(book[i])})
CountedInAll == Cardinality({i \in DOMAIN book : CountedRow(book[i]) /\ RowSampled(book[i])})

TrialExpired == today > tenant.ends
OnTrial == tenant.plan = "trial"
ProductAccess == tenant.plan # "expired" /\ ~(OnTrial /\ TrialExpired)

LifetimeLimit == ProjectLimit["trial"] * PerProject

\* The newest projects, as many as the plan has.
WithinPlan(p) ==
    \/ Cardinality(Open(places)) <= ProjectLimit[tenant.plan]
    \/ Cardinality({q \in Open(places) : places[q].born > places[p].born})
         < ProjectLimit[tenant.plan]

\* check_sample_run.
MaySample(p) ==
    /\ ProductAccess
    /\ IF OnTrial
         THEN Counted(p) < PerProject /\ CountedInAll < LifetimeLimit
         ELSE WithinPlan(p)

\* check_project_creation.
MayCreate ==
    /\ ProductAccess
    /\ Cardinality(Open(places)) < ProjectLimit[tenant.plan]

-----------------------------------------------------------------------------
(* Who pays for an engine, and what a run of the project would cost.       *)

PoolSpent == MapThenSumSet(LAMBDA p : spent[p], Slugs)
TrialPoolLeft == PoolSpent < StartBudget

\* resolve_funding: a key of the workspace goes before the pool.
PoolCodes(pool) ==
    IF pool /\ tenant.plan # "expired" /\ (OnTrial => TrialPoolLeft)
      THEN ToSet(Catalog) \ customer.keys ELSE {}
Funded(pool) == customer.keys \cup PoolCodes(pool)

CallsOf(codes) == MapThenSumSet(LAMBDA c : Asks[c] * Rounds, codes)
CostOf(codes) ==
    SumFunctionOnSet([c \in Codes |-> Asks[c] * Rounds * Price[c]], codes)

\* _pool_reservations: reservations of jobs that have not ended.
Holds(i) == book[i].holds /\ book[i].status \in {"queued", "running"}
ReservedBy(ps) ==
    MapThenSumSet(LAMBDA i : book[i].cost,
                  {i \in DOMAIN book : book[i].of \in ps /\ Holds(i)})

\* estimate: what the platforms would call and cost, and whether that stops the
\* run. The project's own limits are taken to pause it.
Estimate(p, pool, platforms) ==
    LET paid == platforms \cap PoolCodes(pool)
        cost == CostOf(paid)
    IN [calls  |-> CallsOf(platforms \cap Funded(pool)),
        cost   |-> cost,
        paused |-> \/ \E n \in customer.callLimit : CallsOf(platforms \cap Funded(pool)) > n
                   \/ /\ paid # {}
                      /\ \E n \in customer.budget : spent[p] + ReservedBy({p}) + cost > n
                   \/ PoolSpent + ReservedBy(Slugs) + cost > PoolLimit]

\* plan_starter_scan: the first engines of the catalogue whose whole matrix the
\* budget holds; it is full with two of which one searches.
StarterPlan ==
    LET Add(codes, c) ==
            IF \/ Cardinality(codes) >= 2 /\ codes \cap Searches # {}
               \/ CostOf({c}) = 0 \/ CostOf(codes \cup {c}) > StartBudget
              THEN codes ELSE codes \cup {c}
    IN FoldLeft(Add, {}, Catalog)

\* A plausible bug: only the workspace's own keys are looked at.
SamplingAccessByKeys(pool) == customer.keys # {}

\* has_sampling_access: keys, or a pool that may be used.
SamplingAccess(pool) ==
    \/ customer.keys # {}
    \/ pool /\ tenant.plan # "expired" /\ Catalog # <<>> /\ (OnTrial => TrialPoolLeft)

\* project_preflight: the engines a project created now is promised.
Promised == customer.keys \cup (IF tenant.plan = "expired" THEN {} ELSE ToSet(Catalog))

\* create_project samples unless it was not asked to, or nobody would pay; on a
\* trial that only has the pool, unless the pool's budget holds no matrix.
Samples(pool, asked) ==
    /\ asked
    /\ SamplingAccess(pool)
    /\ (OnTrial /\ customer.keys = {} /\ pool) => StarterPlan # {}

-----------------------------------------------------------------------------
(* The tenant's row and the rows of jobs.                                  *)

QuotasInit ==
    /\ customer \in Customers
    /\ tenant = [plan |-> "trial", ends |-> TrialDays]
    /\ today = 1  \* the workspace was registered at 0, before anything else happened
    /\ places = [p \in Slugs |-> NoProject]
    /\ book = <<>>
    /\ spent = [p \in Slugs |-> 0]
    /\ tenantRow = Nobody
    /\ asker = [a \in Askers |-> NotAsking]
    /\ sweep = [pc |-> "idle", row |-> 0, done |-> {}]

\* with_for_update, to the end of the transaction.
LocksTenant(a) == tenantRow = Nobody /\ tenantRow' = a
EndsTransaction(a) == tenantRow' = IF tenantRow = a THEN Nobody ELSE tenantRow

Blank(p, action) ==
    [of |-> p, action |-> action, status |-> "queued", started |-> FALSE, sent |-> FALSE,
     samples |-> TRUE, gated |-> FALSE, platforms |-> {}, cost |-> 0, holds |-> FALSE,
     day |-> 0]
Gated(row) == [row EXCEPT !.gated = OnTrial]
Reserving(row, pool, platforms) ==
    [row EXCEPT !.platforms = platforms,
                !.cost = Estimate(row.of, pool, platforms).cost,
                !.holds = Estimate(row.of, pool, platforms).cost > 0]

Failed(row) == [row EXCEPT !.status = "failed", !.holds = FALSE]

Asking(a, kind) == asker[a].pc = "idle" /\ Does(kind)
Goes(a, to) == asker' = [asker EXCEPT ![a] = to]
Unsent == customer.failures > 0 /\ customer' = [customer EXCEPT !.failures = @ - 1]
Asked == customer.requests > 0 /\ customer' = [customer EXCEPT !.requests = @ - 1]

\* The active job of a project is unique: the insert of a second one fails.
Inserted(a, row) ==
    IF Active(row.of)
      THEN book' = book /\ Goes(a, NotAsking)
      ELSE /\ book' = Append(book, row)
           /\ Goes(a, [asker[a] EXCEPT !.pc = "publish", !.row = Len(book) + 1])

-----------------------------------------------------------------------------
(* Requests.                                                               *)

\* sample_project, import_project_samples, retry_project_job: the allowance is
\* checked before anything else is looked at.
Check(a) ==
    \E kind \in {"sample", "import", "retry"}, p \in Open(places) :
        /\ Asking(a, kind) /\ Asked
        /\ LocksTenant(a)
        /\ MaySample(p) /\ ~Active(p)
        /\ kind = "retry" => \E i \in DOMAIN book :
               book[i].of = p /\ book[i].action = "sample"
               /\ book[i].status \in {"failed", "canceled"}
        /\ Goes(a, [NotAsking EXCEPT !.pc = "checked", !.kind = kind, !.of = p])
        /\ UNCHANGED <<tenant, today, places, book, spent, sweep>>

\* The platforms of the retried job, or those the request's estimate can fund.
PlatformsOf(a, pool) ==
    IF asker[a].kind # "retry" THEN Funded(pool)
    ELSE LET ended == {i \in DOMAIN book : book[i].of = asker[a].of
                           /\ book[i].action = "sample"
                           /\ book[i].status \in {"failed", "canceled"}}
         IN book[Max(ended)].platforms

\* reserve locks, checks and estimates once more, and the row is inserted. The
\* pool is turned on for the project as a side effect of asking for a sample.
Reserve(a) ==
    LET p == asker[a].of
        pool == places[p].pool \/ (asker[a].kind = "sample" /\ Catalog # <<>>)
        platforms == PlatformsOf(a, pool)
    IN /\ asker[a].pc = "checked" /\ asker[a].kind \in {"sample", "retry"}
       /\ IF MaySample(p) /\ ~Estimate(p, pool, platforms).paused
            THEN /\ Inserted(a, Reserving(Gated(Blank(p, "sample")), pool, platforms))
                 /\ places' = IF Active(p) THEN places
                              ELSE [places EXCEPT ![p].pool = pool]
            ELSE Goes(a, NotAsking) /\ UNCHANGED <<book, places>>
       /\ EndsTransaction(a)
       /\ UNCHANGED <<customer, tenant, today, spent, sweep>>

\* An import is inserted as a job that runs ...
BeginImport(a) ==
    /\ asker[a].pc = "checked" /\ asker[a].kind = "import"
    /\ IF Active(asker[a].of) THEN Goes(a, NotAsking) /\ UNCHANGED book
       ELSE /\ book' = Append(book, [Gated(Blank(asker[a].of, "sample-import"))
                            EXCEPT !.status = "running", !.started = TRUE, !.sent = TRUE])
            /\ Goes(a, [asker[a] EXCEPT !.pc = "importing", !.row = Len(book) + 1])
    /\ EndsTransaction(a)
    /\ UNCHANGED <<customer, tenant, today, places, spent, sweep>>

\* ... and ends with the answers it found; one that fails is deleted.
EndImport(a) ==
    /\ asker[a].pc = "importing"
    /\ \E some \in BOOLEAN, status \in {"done", "deleted"} :
          book' = [book EXCEPT ![asker[a].row].status = status,
                               ![asker[a].row].samples = some]
    /\ Goes(a, NotAsking)
    /\ UNCHANGED <<customer, tenant, today, places, spent, tenantRow, sweep>>

\* deliver_project: a delivery is not checked against the allowance, and takes
\* no lock of the tenant's row.
Deliver(a) ==
    \E p \in Open(places) :
        /\ Asking(a, "deliver") /\ Asked
        /\ ProductAccess /\ ~Active(p)
        /\ book' = Append(book, Blank(p, "deliver"))
        /\ Goes(a, [NotAsking EXCEPT !.pc = "publish", !.kind = "deliver", !.of = p,
                                !.row = Len(book) + 1])
        /\ UNCHANGED <<tenant, today, places, spent, tenantRow, sweep>>

\* The message is sent, or the row fails for want of a worker.
Publish(a) ==
    /\ asker[a].pc = "publish"
    /\ \/ book' = [book EXCEPT ![asker[a].row].sent = TRUE] /\ UNCHANGED customer
       \/ book' = [book EXCEPT ![asker[a].row] = Failed(@)] /\ Unsent
    /\ Goes(a, NotAsking)
    /\ UNCHANGED <<tenant, today, places, spent, tenantRow, sweep>>

\* create_project locks the tenant's row first.
CreateCheck(a) ==
    \E p \in Slugs \ Open(places), kind \in {"create", "audit"} :
        /\ Asking(a, kind) /\ Asked
        /\ LocksTenant(a)
        /\ MayCreate
        /\ Goes(a, [NotAsking EXCEPT !.pc = "creating", !.kind = kind, !.of = p,
                                !.samples = kind = "create"])
        /\ UNCHANGED <<tenant, today, places, book, spent, sweep>>

\* The project, new or taken up again, and its first job in one transaction;
\* without an allowance for the job there is no project.
CreateCommit(a) ==
    LET p == asker[a].of
        pool == places[p].pool \/ (asker[a].samples /\ Catalog # <<>>)
        samples == Samples(pool, asker[a].samples)
        born == IF places[p].state = "absent" THEN today ELSE places[p].born
        opened == [places[p] EXCEPT !.state = "active", !.born = born, !.pool = pool]
        row == Blank(p, IF samples THEN "autopilot" ELSE "bootstrap")
    IN /\ asker[a].pc = "creating"
       /\ IF (samples => MaySample(p)) /\ p \notin Open(places)
            THEN /\ places' = [places EXCEPT ![p] = opened]
                 /\ book' = Append(book, [(IF samples THEN Gated(row) ELSE row)
                                            EXCEPT !.samples = samples])
                 /\ Goes(a, [asker[a] EXCEPT !.pc = IF samples THEN "reserve" ELSE "publish",
                                             !.row = Len(book) + 1])
            ELSE Goes(a, NotAsking) /\ UNCHANGED <<places, book>>
       /\ EndsTransaction(a)
       /\ UNCHANGED <<customer, tenant, today, spent, sweep>>

\* Its reservation is made in a transaction of its own, and checks the allowance
\* with the job it is for among those counted.
CreateReserve(a) ==
    LET p == asker[a].of
        platforms == Funded(places[p].pool)
        row == book[asker[a].row]
    IN /\ asker[a].pc = "reserve"
       /\ tenantRow = Nobody
       /\ IF MaySample(p) /\ ~Estimate(p, places[p].pool, platforms).paused
            THEN /\ book' = [book EXCEPT ![asker[a].row] =
                               Reserving(row, places[p].pool, platforms)]
                 /\ Goes(a, [asker[a] EXCEPT !.pc = "publish"])
            ELSE /\ book' = [book EXCEPT ![asker[a].row] = Failed(row)]
                 /\ Goes(a, NotAsking)
       /\ UNCHANGED <<customer, tenant, today, places, spent, tenantRow, sweep>>

-----------------------------------------------------------------------------
(* Workers, and what else happens to the rows.                             *)

\* A worker takes a job its message names. task_sample runs on the workspace's
\* own keys: platforms without one fail the job.
Run(i) ==
    /\ book[i].status = "queued" /\ book[i].sent
    /\ book' = [book EXCEPT ![i] =
          IF ~ProductAccess THEN Failed(@)
          ELSE IF @.action = "sample" /\ ~(@.platforms \subseteq customer.keys)
                 THEN [Failed(@) EXCEPT !.started = TRUE]
                 ELSE [@ EXCEPT !.status = "running", !.started = TRUE]]
    /\ UNCHANGED <<customer, tenant, today, places, spent, tenantRow, asker, sweep>>

\* The pool is paid for what the run called, at most what was reserved.
End(i) ==
    /\ book[i].status = "running" /\ book[i].action # "sample-import"
    /\ \/ /\ book' = [book EXCEPT ![i] = [@ EXCEPT !.status = "done", !.holds = FALSE]]
          /\ spent' = [spent EXCEPT ![book[i].of] =
                         @ + IF book[i].holds THEN book[i].cost ELSE 0]
       \/ book' = [book EXCEPT ![i] = Failed(@)] /\ UNCHANGED spent
    /\ UNCHANGED <<customer, tenant, today, places, tenantRow, asker, sweep>>

\* cancel_project_job of a job that waits.
CancelQueued(i) ==
    /\ Does("cancel") /\ book[i].status = "queued"
    /\ book' = [book EXCEPT ![i] = [@ EXCEPT !.status = "canceled", !.holds = FALSE]]
    /\ UNCHANGED <<customer, tenant, today, places, spent, tenantRow, asker, sweep>>

Archive(p) ==
    /\ Does("archive") /\ p \in Open(places) /\ ~Active(p)
    /\ places' = [places EXCEPT ![p].state = "archived"]
    /\ UNCHANGED <<customer, tenant, today, book, spent, tenantRow, asker, sweep>>

NextDay ==
    /\ customer.days > 0 /\ customer' = [customer EXCEPT !.days = @ - 1]
    /\ today' = today + 1
    /\ UNCHANGED <<tenant, places, book, spent, tenantRow, asker, sweep>>

\* A subscription starts, and may end.
ChangePlan ==
    /\ Does("subscribe") /\ tenantRow = Nobody
    /\ tenant.plan # "expired"
    /\ tenant' = [tenant EXCEPT !.plan = IF @ = "trial" THEN "starter" ELSE "expired"]
    /\ UNCHANGED <<customer, today, places, book, spent, tenantRow, asker, sweep>>

-----------------------------------------------------------------------------
(* _dispatch_trial_retests.                                                *)

Due(p) == {d \in RetestDays \ places[p].done : places[p].born + d <= today}

\* The first run of the project that asked its questions.
BaselineDone(p) ==
    \E i \in DOMAIN book : /\ book[i].of = p /\ book[i].status = "done"
                           /\ book[i].action \in {"sample", "autopilot", "cycle"}

\* A project whose baseline is done and which is idle; what is due is its first
\* day. The row of the tenant is locked by the check.
Retest(p) ==
    LET day == Min(Due(p))
        platforms == Funded(places[p].pool)
    IN /\ Does("retest") /\ sweep.pc = "idle" /\ tenantRow = Nobody
       /\ OnTrial /\ p \in Open(places)
       /\ Due(p) # {} /\ BaselineDone(p) /\ ~Active(p)
       /\ MaySample(p) /\ ~Estimate(p, places[p].pool, platforms).paused
       /\ book' = Append(book, Reserving([Gated(Blank(p, "cycle")) EXCEPT !.day = day],
                                         places[p].pool, platforms))
       /\ sweep' = [pc |-> "publish", row |-> Len(book) + 1, done |-> places[p].done]
       /\ places' = [places EXCEPT ![p].done = @ \cup {day}]
       /\ UNCHANGED <<customer, tenant, today, spent, tenantRow, asker>>

\* A retest that cannot be published is due again.
PublishRetest ==
    LET row == book[sweep.row]
    IN /\ sweep.pc = "publish"
       /\ \/ book' = [book EXCEPT ![sweep.row].sent = TRUE]
             /\ UNCHANGED <<places, customer>>
          \/ /\ Unsent
             /\ book' = [book EXCEPT ![sweep.row] = Failed(@)]
             /\ places' = [places EXCEPT ![row.of].done = sweep.done]
       /\ sweep' = [sweep EXCEPT !.pc = "idle"]
       /\ UNCHANGED <<tenant, today, spent, tenantRow, asker>>

-----------------------------------------------------------------------------
Request(a) ==
    \/ Check(a) \/ Reserve(a) \/ BeginImport(a) \/ EndImport(a) \/ Deliver(a)
    \/ Publish(a) \/ CreateCheck(a) \/ CreateCommit(a) \/ CreateReserve(a)

QuotasNext ==
    \/ \E a \in Askers : Request(a)
    \/ \E i \in DOMAIN book : Run(i) \/ End(i) \/ CancelQueued(i)
    \/ \E p \in Slugs : Archive(p) \/ Retest(p)
    \/ PublishRetest \/ NextDay \/ ChangePlan

QuotasSpec == QuotasInit /\ [][QuotasNext]_quotaVars

-----------------------------------------------------------------------------
(* Properties.                                                             *)

\* The variables keep to their values.
QuotasTypeOK ==
    /\ tenant \in [plan : {"trial", "starter", "expired"}, ends : Nat]
    /\ today \in Nat
    /\ places \in [Slugs -> [state : {"absent", "active", "archived"}, born : Nat,
                             pool : BOOLEAN, done : SUBSET RetestDays]]
    /\ \A i \in DOMAIN book : book[i] \in JobRow
    /\ spent \in [Slugs -> Nat]
    /\ tenantRow \in Askers \cup {Nobody}
    /\ \A a \in Askers : asker[a].pc \in {"idle", "checked", "importing", "publish",
                                          "creating", "reserve"}
    /\ sweep.pc \in {"idle", "publish"}

\* However requests, imports that run side by side, retries, cancellations and
\* retests interleave, a trial is admitted no more sampling runs than its
\* allowance, for a project and in all (limits.py:241, "锁住租户行，串行化额度检查").
AdmittedRuns(ps) ==
    Cardinality({i \in DOMAIN book : book[i].of \in ps /\ book[i].gated
                     /\ CountedRow(book[i]) /\ RowSampled(book[i])})
TrialAllowance ==
    /\ \A p \in Slugs : AdmittedRuns({p}) <= PerProject
    /\ AdmittedRuns(Slugs) <= LifetimeLimit

\* A workspace has no more open projects than its plan, however many requests
\* create and take up projects at once (limits.py:223, lifecycle_routes.py:134).
ProjectsWithinPlan ==
    tenant.plan # "expired" => Cardinality(Open(places)) <= ProjectLimit[tenant.plan]

\* Each automatic retest of a trial project runs at most once, also when its
\* publication fails and the sweep takes the day up again, or when the project
\* was archived and taken up again (worker_maintenance.py:153).
RetestsOnce ==
    \A i, j \in DOMAIN book :
        /\ book[i].of = book[j].of /\ book[i].day = book[j].day /\ book[i].day # 0
        /\ book[i].status # "failed" \/ book[i].started
        /\ book[j].status # "failed" \/ book[j].started
        => i = j

\* A project that is asked to sample, and whose preflight named an engine, is only
\* created without sampling when the pool alone would pay and the trial's share of
\* it is used up, or is too small for any engine.
CreatedAsPromised ==
    [][\A i \in DOMAIN book' :
          ~(i \in DOMAIN book) /\ book'[i].action = "bootstrap" =>
          \E a \in Askers :
             /\ asker[a].pc = "creating" /\ asker[a].of = book'[i].of
             /\ asker[a].samples =>
                  \/ Promised = {}
                  \/ OnTrial /\ customer.keys = {} /\ (~TrialPoolLeft \/ StarterPlan = {})
      ]_quotaVars

\* What a plan includes is given, and not more, whoever asks at once.
AllowancesHold ==
    [](TrialAllowance /\ ProjectsWithinPlan /\ RetestsOnce) /\ CreatedAsPromised
=============================================================================
