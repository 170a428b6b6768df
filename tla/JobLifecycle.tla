---------------------------- MODULE JobLifecycle ----------------------------
(***************************************************************************)
(* The life of a background job of citeaura: the row the API inserts, the  *)
(* Celery message it publishes, the worker that claims the row and runs    *)
(* the engine under the project lock, and the periodic sweeps that repair  *)
(* what crashes, lost messages and lost commits leave behind.              *)
(*                                                                         *)
(* Four kinds of actors interleave here, and none of them trusts another:  *)
(*   requests  api/projects/*_routes.py and the beat's dispatchers,        *)
(*   the broker (at-least-once delivery: acks_late, reject_on_worker_lost),*)
(*   workers   api/worker/worker_job_lifecycle.py (_job_status),           *)
(*   sweeps    _recover_unpublished_jobs and reclaim_stale_jobs.           *)
(*                                                                         *)
(* One action is one database transaction, except where the code reads a   *)
(* row in one statement, decides, and writes it unconditionally later:     *)
(* those are two actions, since PostgreSQL at READ COMMITTED lets another  *)
(* transaction commit in between.                                          *)
(***************************************************************************)
EXTENDS Naturals, FiniteSets

CONSTANTS
    Project,      \* project rows
    Job,          \* identifiers of job rows, all unused at first
    Worker,       \* Celery prefork slots
    Request,      \* API requests and beat dispatches in flight at a time
    None,         \* the null value of a column
    Orphan,       \* the lock token of a process that is gone
    Kinds,        \* which requests exist in this instance
    Faults,       \* which faults the environment may inject
    SlowWorkers,  \* may a live worker miss heartbeats for the stale window?
    SlowRequests, \* may a request outlive the five minutes of the recovery?
    MaxAttempts,  \* MAX_JOB_ATTEMPTS
    MaxPublish,   \* bound: messages ever published for one job
    MaxFaults     \* bound: faults injected in one behaviour

AllKinds  == {"action", "create", "retry", "schedule", "retest",
              "cancel", "archive", "tenant"}
AllFaults == {"crash", "lost", "duplicate", "publish", "commit", "api", "redis"}

ASSUME ConstantsAssumption ==
    /\ MaxAttempts \in Nat \ {0}
    /\ MaxPublish \in Nat
    /\ MaxFaults \in Nat
    /\ Kinds \subseteq AllKinds
    /\ Faults \subseteq AllFaults
    /\ SlowWorkers \in BOOLEAN
    /\ SlowRequests \in BOOLEAN

ASSUME NoneAssumption ==
    /\ None \notin Project \cup Job \cup Worker
    /\ Orphan \notin Worker
    /\ Orphan # None

VARIABLES
    status,      \* jobs.status; "free" is a row that does not exist yet
    proj,        \* jobs.project_id
    attempt,     \* jobs.attempt
    taskId,      \* jobs.celery_task_id, 0 for NULL
    cancelReq,   \* jobs.cancel_requested_at IS NOT NULL
    resv,        \* jobs.budget_reservation_status
    stale,       \* active, and its last sign of life is before the cutoff
    pstatus,     \* projects.status, the working ones merged into "busy"
    archivedAt,  \* projects.archived_at IS NOT NULL
    tenant,      \* the tenant: "active", "unpaid" (no entitlement), "disabled"
    queue,       \* messages the broker may deliver
    seen,        \* Redis SETNX keys of task ids already delivered once
    published,   \* how many messages were published for a job
    lock,        \* Redis project lock: its holder
    wpc,         \* where a worker slot stands
    wmsg,        \* the unacknowledged message a worker holds
    req,         \* the local state of the requests in flight
    starts,      \* history: how often a job was claimed by a worker
    faults       \* faults injected so far

jobVars  == <<status, proj, attempt, taskId, cancelReq, resv, stale, starts>>
projVars == <<pstatus, archivedAt>>
mqVars   == <<queue, seen, published>>
workVars == <<lock, wpc, wmsg>>
vars     == <<jobVars, projVars, tenant, mqVars, workVars, req, faults>>

-----------------------------------------------------------------------------
(* Values and derived state.                                               *)

ActiveStatus   == {"queued", "running"}
TerminalStatus == {"done", "failed", "canceled"}
Status         == {"free"} \cup ActiveStatus \cup TerminalStatus
Reservation    == {"none", "reserved", "settled", "review", "released"}
ProjectStatus  == {"absent", "ready", "failed", "busy", "archived"}
Message        == [job : Job, id : 1..MaxPublish]

WorkerPc  == {"idle", "refusing", "claimed", "body", "completing", "doneCommit",
              "canceling", "cancelCommit", "failing", "unaccounted", "ending"}
RequestPc == {"idle", "insert", "init", "publish", "record", "dispatchFailed",
              "cancelQueued", "cancelFlag", "archive"}
RequestState == [pc : RequestPc, kind : AllKinds \cup {None},
                 proj : Project \cup {None}, job : Job \cup {None},
                 id : 0..MaxPublish, prev : ProjectStatus]

Active(p)   == \E j \in Job : proj[j] = p /\ status[j] \in ActiveStatus
Visible(p)  == pstatus[p] \notin {"absent", "archived"} /\ ~archivedAt[p]
Working(w)  == wpc[w] # "idle"
Serving(w, j) == wpc[w] \notin {"idle", "refusing"} /\ wmsg[w].job = j

\* Mutant: the paths that fail a job forget its reservation.
KeepsReservation(r) == r

\* release_reservation: only an untouched reservation is given back.
Released(r) == IF r = "reserved" THEN "released" ELSE r

\* A row that ends is not looked at for staleness any more.
EndJob(j, s) ==
    /\ status' = [status EXCEPT ![j] = s]
    /\ stale' = [stale EXCEPT ![j] = FALSE]

\* Mutant: a path that ends a job forgets to hand the project back.
LeaveProject(p, s) == UNCHANGED pstatus

\* Set a project's status unless the code's guard finds it archived.
SetUnlessArchived(p, s) ==
    pstatus' = [pstatus EXCEPT ![p] = IF @ = "archived" THEN @ ELSE s]
\* Mutant: the job's status is stored as the project's.
StoreJobStatus(p, s) ==
    pstatus' = [pstatus EXCEPT ![p] = IF Visible(p) THEN "done" ELSE @]
SetIfVisible(p, s) ==
    pstatus' = [pstatus EXCEPT ![p] = IF Visible(p) THEN s ELSE @]

NoRequest == [pc |-> "idle", kind |-> None, proj |-> None, job |-> None,
              id |-> 0, prev |-> "ready"]

Fault(f) == f \in Faults /\ faults < MaxFaults /\ faults' = faults + 1

Init ==
    /\ status = [j \in Job |-> "free"]
    /\ proj = [j \in Job |-> None]
    /\ attempt = [j \in Job |-> 1]
    /\ taskId = [j \in Job |-> 0]
    /\ cancelReq = [j \in Job |-> FALSE]
    /\ resv = [j \in Job |-> "none"]
    /\ stale = [j \in Job |-> FALSE]
    /\ pstatus \in [Project -> {"absent", "ready"}]
    /\ archivedAt = [p \in Project |-> FALSE]
    /\ tenant = "active"
    /\ queue = {}
    /\ seen = {}
    /\ published = [j \in Job |-> 0]
    /\ lock = [p \in Project |-> None]
    /\ wpc = [w \in Worker |-> "idle"]
    /\ wmsg = [w \in Worker |-> None]
    /\ req = [r \in Request |-> NoRequest]
    /\ starts = [j \in Job |-> 0]
    /\ faults = 0

-----------------------------------------------------------------------------
(* Requests: insert a row, publish a message, record its task id.          *)

Idle(r)     == req[r].pc = "idle"
At(r, pc)   == req[r].pc = pc
Goto(r, pc) == req' = [req EXCEPT ![r].pc = pc]
Leave(r)    == req' = [req EXCEPT ![r] = NoRequest]

\* A request enters its pipeline holding what the code keeps in locals.
Enter(r, pc, k, p, j) ==
    /\ Idle(r)
    /\ req' = [req EXCEPT ![r] = [pc |-> pc, kind |-> k, proj |-> p, job |-> j,
                                  id |-> 0, prev |-> pstatus[p]]]

\* Mutant: the partial unique index is missing.
NoIndex(p) == TRUE

\* uq_jobs_project_active: one row per project with status queued or running.
IndexAllows(p) == ~Active(p)

\* Mutant: a retry queues the ended row again in place of a new one.
RequeueRow(j, p, a) ==
    /\ status[j] \notin ActiveStatus
    /\ status' = [status EXCEPT ![j] = "queued"]
    /\ proj' = [proj EXCEPT ![j] = p]
    /\ attempt' = [attempt EXCEPT ![j] = a]
    /\ UNCHANGED <<taskId, cancelReq, stale, starts>>

\* The new row; the budget is reserved in the same transaction or not at all.
InsertRow(j, p, a) ==
    /\ status[j] = "free"
    /\ status' = [status EXCEPT ![j] = "queued"]
    /\ proj' = [proj EXCEPT ![j] = p]
    /\ attempt' = [attempt EXCEPT ![j] = a]
    /\ UNCHANGED <<taskId, cancelReq, stale, starts>>

\* run_pipeline_action, sample_project ("action") and _dispatch_trial_retests
\* ("retest"): the project and its active jobs are looked at in plain SELECTs,
\* so the unique index decides again at the INSERT.
BeginAction(r, p, k) ==
    /\ k \in Kinds \cap {"action", "retest"}
    /\ tenant = "active" /\ Visible(p) /\ ~Active(p)
    /\ Enter(r, "insert", k, p, None)
    /\ UNCHANGED <<jobVars, projVars, tenant, mqVars, workVars, faults>>

\* retry_project_job: a failed or canceled source with attempts left. Not every
\* action that can be retried needs an entitlement.
BeginRetry(r, src) ==
    /\ "retry" \in Kinds
    /\ status[src] \in {"failed", "canceled"}
    /\ attempt[src] < MaxAttempts
    /\ tenant # "disabled" /\ Visible(proj[src]) /\ ~Active(proj[src])
    /\ Enter(r, "insert", "retry", proj[src], src)
    /\ UNCHANGED <<jobVars, projVars, tenant, mqVars, workVars, faults>>

\* The INSERT of an action, a retest or a retry, with its reservation.
Insert(r) ==
    LET p == req[r].proj
        a == IF req[r].kind = "retry" THEN attempt[req[r].job] + 1 ELSE 1
    IN  /\ At(r, "insert")
        /\ IndexAllows(p)
        /\ \E j \in Job, v \in {"none", "reserved"} :
              /\ InsertRow(j, p, a)
              /\ resv' = [resv EXCEPT ![j] = v]
              /\ req' = [req EXCEPT ![r].job = j, ![r].pc = "publish"]
        /\ pstatus' = [pstatus EXCEPT ![p] = "busy"]
        /\ UNCHANGED <<archivedAt, tenant, mqVars, workVars, faults>>

\* The unique index refuses the INSERT: the request rolls back.
InsertConflict(r) ==
    /\ At(r, "insert")
    /\ ~IndexAllows(req[r].proj)
    /\ Leave(r)
    /\ UNCHANGED <<jobVars, projVars, tenant, mqVars, workVars, faults>>

\* create_project (under the tenant row lock) on a new or archived project.
CreateProject(r, p) ==
    /\ "create" \in Kinds
    /\ tenant = "active" /\ ~Visible(p) /\ ~Active(p)
    /\ \E j \in Job :
          /\ InsertRow(j, p, 1)
          /\ Enter(r, "init", "create", p, j)
    /\ pstatus' = [pstatus EXCEPT ![p] = "busy"]
    /\ archivedAt' = [archivedAt EXCEPT ![p] = FALSE]
    /\ UNCHANGED <<resv, tenant, mqVars, workVars, faults>>

\* After the workspace is initialised, create_project reserves the budget and
\* sets the status again, without looking at the row it committed before.
InitDone(r) ==
    /\ At(r, "init")
    /\ \E v \in {resv[req[r].job], "reserved"} :
          resv' = [resv EXCEPT ![req[r].job] = v]
    /\ pstatus' = [pstatus EXCEPT ![req[r].proj] = "busy"]
    /\ Goto(r, "publish")
    /\ UNCHANGED <<status, proj, attempt, taskId, cancelReq, stale, starts,
                   archivedAt, tenant, mqVars, workVars, faults>>

InitFailed(r) ==
    /\ At(r, "init")
    /\ Goto(r, "dispatchFailed")
    /\ UNCHANGED <<jobVars, projVars, tenant, mqVars, workVars, faults>>

\* task_dispatch_schedules holds the row lock of the project from the check to
\* the INSERT; an INSERT that hits the index rolls everything back.
DispatchDue(r, p) ==
    /\ "schedule" \in Kinds
    /\ tenant = "active" /\ Visible(p) /\ ~Active(p)
    /\ \E j \in Job, v \in {"none", "reserved"} :
          /\ InsertRow(j, p, 1)
          /\ resv' = [resv EXCEPT ![j] = v]
          /\ Enter(r, "publish", "schedule", p, j)
    /\ pstatus' = [pstatus EXCEPT ![p] = "busy"]
    /\ UNCHANGED <<archivedAt, tenant, mqVars, workVars, faults>>

\* delay() puts a message with a fresh task id into the broker.
Send(j) ==
    /\ published[j] < MaxPublish
    /\ published' = [published EXCEPT ![j] = @ + 1]
    /\ queue' = queue \cup {[job |-> j, id |-> published[j] + 1]}
    /\ UNCHANGED seen

Publish(r) ==
    /\ At(r, "publish")
    /\ Send(req[r].job)
    /\ req' = [req EXCEPT ![r].id = published[req[r].job] + 1, ![r].pc = "record"]
    /\ UNCHANGED <<jobVars, projVars, tenant, workVars, faults>>

\* delay() raises: the message is not in the broker, or it is and only the
\* broker's answer was lost.
PublishRaises(r) ==
    /\ At(r, "publish")
    /\ Fault("publish")
    /\ Send(req[r].job) \/ UNCHANGED mqVars
    /\ Goto(r, "dispatchFailed")
    /\ UNCHANGED <<jobVars, projVars, tenant, workVars>>

RecordTaskId(r) ==
    /\ At(r, "record")
    /\ taskId' = [taskId EXCEPT ![req[r].job] = req[r].id]
    /\ Leave(r)
    /\ UNCHANGED <<status, proj, attempt, cancelReq, resv, stale, starts,
                   projVars, tenant, mqVars, workVars, faults>>

\* The except branch of every dispatcher: the row is written unconditionally.
\* A retest keeps the project's working status, a schedule restores it.
DispatchFailed(r) ==
    LET p == req[r].proj
        j == req[r].job
    IN  /\ At(r, "dispatchFailed")
        /\ EndJob(j, "failed")
        /\ resv' = [resv EXCEPT ![j] = Released(@)]
        /\ pstatus' = [pstatus EXCEPT ![p] =
                         CASE req[r].kind = "schedule" -> req[r].prev
                           [] req[r].kind = "retest"   -> @
                           [] OTHER                 -> "failed"]
        /\ Leave(r)
        /\ UNCHANGED <<proj, attempt, taskId, cancelReq, starts,
                       archivedAt, tenant, mqVars, workVars, faults>>

\* The process dies, or the connection is lost so that neither the task id nor
\* the except branch reaches the database.
RequestDies(r) ==
    /\ ~Idle(r)
    /\ Fault("api")
    /\ Leave(r)
    /\ UNCHANGED <<jobVars, projVars, tenant, mqVars, workVars>>

-----------------------------------------------------------------------------
(* Requests: cancel a job, archive a project, change the tenant.           *)

\* cancel_project_job reads the status and picks its branch.
BeginCancel(r, j) ==
    /\ "cancel" \in Kinds
    /\ status[j] \in ActiveStatus
    /\ Visible(proj[j])
    /\ Enter(r, IF status[j] = "queued" THEN "cancelQueued" ELSE "cancelFlag",
             "cancel", proj[j], j)
    /\ UNCHANGED <<jobVars, projVars, tenant, mqVars, workVars, faults>>

\* The conditional UPDATE finds the row still queued. The test for an archived
\* project is made on the copy that BeginCancel read, so it always passes.
CancelQueued(r) ==
    LET j == req[r].job
    IN  /\ At(r, "cancelQueued")
        /\ status[j] = "queued"
        /\ EndJob(j, "canceled")
        /\ resv' = [resv EXCEPT ![j] = Released(@)]
        /\ pstatus' = [pstatus EXCEPT ![req[r].proj] = "ready"]
        /\ Leave(r)
        /\ UNCHANGED <<proj, attempt, taskId, cancelReq, starts,
                       archivedAt, tenant, mqVars, workVars, faults>>

\* A worker was faster: reload, and either ask it to stop or answer 409.
CancelQueuedMissed(r) ==
    LET j == req[r].job
    IN  /\ At(r, "cancelQueued")
        /\ status[j] # "queued"
        /\ IF status[j] = "running" THEN Goto(r, "cancelFlag") ELSE Leave(r)
        /\ UNCHANGED <<jobVars, projVars, tenant, mqVars, workVars, faults>>

\* cancel_requested_at is written whatever the job has become meanwhile.
CancelFlag(r) ==
    /\ At(r, "cancelFlag")
    /\ cancelReq' = [cancelReq EXCEPT ![req[r].job] = TRUE]
    /\ Leave(r)
    /\ UNCHANGED <<status, proj, attempt, taskId, resv, stale, starts, projVars,
                   tenant, mqVars, workVars,
                   faults>>

\* archive_project_record checks for an active job, then writes the project.
BeginArchive(r, p) ==
    /\ "archive" \in Kinds
    /\ Visible(p) /\ ~Active(p)
    /\ Enter(r, "archive", "archive", p, None)
    /\ UNCHANGED <<jobVars, projVars, tenant, mqVars, workVars, faults>>

Archive(r) ==
    /\ At(r, "archive")
    /\ pstatus' = [pstatus EXCEPT ![req[r].proj] = "archived"]
    /\ archivedAt' = [archivedAt EXCEPT ![req[r].proj] = TRUE]
    /\ Leave(r)
    /\ UNCHANGED <<jobVars, tenant, mqVars, workVars, faults>>

\* An administrator disables the tenant, or its subscription lapses; both may
\* be undone.
ChangeTenant(t) ==
    /\ "tenant" \in Kinds
    /\ tenant # t
    /\ tenant' = t
    /\ UNCHANGED <<jobVars, projVars, mqVars, workVars, req, faults>>

-----------------------------------------------------------------------------
(* Workers: prepare, the project lock, the engine body, the final status.  *)

\* _redelivered_task_id: the SETNX key of a task id exists from its second
\* delivery on; without Redis every delivery looks like the first.
NoteDelivery(m, redelivered) ==
    \/ /\ redelivered = (m \in seen)
       /\ seen' = seen \cup {m}
       /\ UNCHANGED faults
    \/ /\ redelivered = FALSE
       /\ Fault("redis")
       /\ UNCHANGED seen

Receive(w, m, redelivered) ==
    /\ wpc[w] = "idle"
    /\ m \in queue
    /\ queue' = queue \ {m}
    /\ NoteDelivery(m, redelivered)
    /\ UNCHANGED <<published, proj, taskId, cancelReq, archivedAt, tenant,
                   lock, req>>

\* The running job was started by an earlier delivery of this very message.
Resumes(m, redelivered) ==
    /\ redelivered
    /\ status[m.job] = "running"
    /\ taskId[m.job] = m.id

\* Mutants of the claim: any row that is not running; one attempt too many;
\* a redelivery although the first run's usage is not accounted.
EligibleUnlessRunning(m, redelivered) ==
    \/ status[m.job] # "running"
    \/ /\ Resumes(m, redelivered)
       /\ resv[m.job] # "reserved"
       /\ attempt[m.job] < MaxAttempts
EligibleOnceMore(m, redelivered) ==
    \/ status[m.job] = "queued"
    \/ /\ Resumes(m, redelivered)
       /\ resv[m.job] # "reserved"
       /\ attempt[m.job] <= MaxAttempts
EligibleUnaccounted(m, redelivered) ==
    \/ status[m.job] = "queued"
    \/ /\ Resumes(m, redelivered)
       /\ attempt[m.job] < MaxAttempts

\* The job goes on to the checks of a queued job.
Eligible(m, redelivered) ==
    \/ status[m.job] = "queued"
    \/ /\ Resumes(m, redelivered)
       /\ resv[m.job] # "reserved"
       /\ attempt[m.job] < MaxAttempts

AttemptAfter(j) == IF status[j] = "running" THEN attempt[j] + 1 ELSE attempt[j]

\* A duplicate, a finished job, or a running job whose platform usage is not
\* accounted yet: acknowledge the message and leave the row alone.
IgnoreDelivery(w, m, redelivered) ==
    /\ Receive(w, m, redelivered)
    /\ ~Eligible(m, redelivered)
    /\ ~(Resumes(m, redelivered) /\ resv[m.job] # "reserved")
    /\ UNCHANGED <<status, attempt, resv, stale, starts, pstatus, wpc, wmsg>>

\* worker_redelivered_attempt_limit.
RefuseAttempts(w, m, redelivered) ==
    LET j == m.job
    IN  /\ Receive(w, m, redelivered)
        /\ Resumes(m, redelivered)
        /\ resv[j] # "reserved"
        /\ attempt[j] >= MaxAttempts
        /\ EndJob(j, "failed")
        /\ SetUnlessArchived(proj[j], "failed")
        /\ UNCHANGED <<attempt, resv, starts, wpc, wmsg>>

\* A disabled tenant, or one without access to the product. A redelivered job
\* was requeued in this transaction, which holds its row lock ...
RefuseTenant(w, m, redelivered) ==
    LET j == m.job
    IN  /\ Receive(w, m, redelivered)
        /\ Eligible(m, redelivered)
        /\ tenant # "active"
        /\ IF status[j] = "queued"
             THEN /\ wpc' = [wpc EXCEPT ![w] = "refusing"]
                  /\ wmsg' = [wmsg EXCEPT ![w] = m]
                  /\ UNCHANGED <<status, attempt, resv, stale, pstatus>>
             ELSE /\ EndJob(j, "failed")
                  /\ attempt' = [attempt EXCEPT ![j] = AttemptAfter(j)]
                  /\ resv' = [resv EXCEPT ![j] = Released(@)]
                  /\ SetUnlessArchived(proj[j], "ready")
                  /\ UNCHANGED <<wpc, wmsg>>
        /\ UNCHANGED starts

\* The conditional UPDATE queued -> running: this worker owns the run. A tenant
\* without entitlement still runs the actions that need none.
Claim(w, m, redelivered) ==
    LET j == m.job
    IN  /\ Receive(w, m, redelivered)
        /\ Eligible(m, redelivered)
        /\ tenant # "disabled"
        /\ status' = [status EXCEPT ![j] = "running"]
        /\ attempt' = [attempt EXCEPT ![j] = AttemptAfter(j)]
        /\ stale' = [stale EXCEPT ![j] = FALSE]
        /\ starts' = [starts EXCEPT ![j] = @ + 1]
        /\ wpc' = [wpc EXCEPT ![w] = "claimed"]
        /\ wmsg' = [wmsg EXCEPT ![w] = m]
        /\ UNCHANGED <<resv, pstatus>>

\* The rest of a run leaves the broker and the requests alone.
Quiet == UNCHANGED <<proj, attempt, taskId, cancelReq, starts, archivedAt,
                     tenant, mqVars, req>>
WorkerGoto(w, pc) == wpc' = [wpc EXCEPT ![w] = pc]

\* The task returns or raises; its message is acknowledged after that.
Finish(w)  == WorkerGoto(w, "ending") /\ UNCHANGED wmsg
FreeSlot(w) == /\ wpc' = [wpc EXCEPT ![w] = "idle"]
               /\ wmsg' = [wmsg EXCEPT ![w] = None]

Acknowledge(w) ==
    /\ wpc[w] = "ending"
    /\ FreeSlot(w)
    /\ Quiet /\ UNCHANGED <<status, resv, stale, pstatus, lock, faults>>

\* ... and a queued one is written by primary key after it was read.
CommitRefusal(w) ==
    LET j == wmsg[w].job
    IN  /\ wpc[w] = "refusing"
        /\ EndJob(j, "failed")
        /\ resv' = [resv EXCEPT ![j] = Released(@)]
        /\ SetUnlessArchived(proj[j], "ready")
        /\ Finish(w)
        /\ Quiet /\ UNCHANGED <<lock, faults>>

TakeLock(w) ==
    LET p == proj[wmsg[w].job]
    IN  /\ wpc[w] = "claimed"
        /\ lock[p] = None
        /\ lock' = [lock EXCEPT ![p] = w]
        /\ WorkerGoto(w, "body")
        /\ Quiet /\ UNCHANGED <<status, resv, stale, pstatus, wmsg, faults>>

\* project_lock_timeout: the lock is not free within the blocking timeout.
LockTimeout(w) ==
    /\ wpc[w] = "claimed"
    /\ lock[proj[wmsg[w].job]] # None
    /\ WorkerGoto(w, "failing")
    /\ Quiet /\ UNCHANGED <<status, resv, stale, pstatus, lock, wmsg, faults>>

\* _job_heartbeat and update(): the row is seen alive again.
Heartbeat(w) ==
    LET j == wmsg[w].job
    IN  /\ wpc[w] = "body"
        /\ status[j] = "running" /\ stale[j]
        /\ stale' = [stale EXCEPT ![j] = FALSE]
        /\ Quiet /\ UNCHANGED <<status, resv, pstatus, workVars, faults>>

\* run_engine_job accounts the platform calls of one engine run: recorded
\* ("settled") or handed to the outbox ("review").
AccountUsage(w) ==
    LET j == wmsg[w].job
    IN  /\ wpc[w] = "body"
        /\ resv[j] \in {"reserved", "review"}
        /\ \E v \in {"settled", "review"} : resv' = [resv EXCEPT ![j] = v]
        /\ Quiet /\ UNCHANGED <<status, stale, pstatus, workVars, faults>>

\* _reserve_delivery_gap_sampling: a delivery that misses samples reserves the
\* budget of a second engine run on the same row.
ReserveGap(w) ==
    /\ wpc[w] = "body"
    /\ \E v \in {"none", "reserved"} : resv' = [resv EXCEPT ![wmsg[w].job] = v]
    /\ Quiet /\ UNCHANGED <<status, stale, pstatus, workVars, faults>>

\* The engine run ends: it succeeded, raised, could not account its usage, or
\* saw the cancel flag. The lock is released before the status is written.
EndBody(w, pc) ==
    LET p == proj[wmsg[w].job]
    IN  /\ wpc[w] = "body"
        /\ pc = "canceling" => cancelReq[wmsg[w].job]
        /\ lock' = [lock EXCEPT ![p] = IF @ = w THEN None ELSE @]
        /\ WorkerGoto(w, pc)
        /\ Quiet /\ UNCHANGED <<status, resv, stale, pstatus, wmsg, faults>>

\* mark_complete reads the row ...
ReadToComplete(w) ==
    LET j == wmsg[w].job
    IN  /\ wpc[w] = "completing"
        /\ status[j] \notin {"done", "canceled"}
        /\ WorkerGoto(w, IF cancelReq[j] THEN "cancelCommit" ELSE "doneCommit")
        /\ Quiet /\ UNCHANGED <<status, resv, stale, pstatus, lock, wmsg, faults>>

\* ... and commits "done" by primary key.
CommitDone(w) ==
    LET j == wmsg[w].job
    IN  /\ wpc[w] = "doneCommit"
        /\ EndJob(j, "done")
        /\ SetIfVisible(proj[j], "ready")
        /\ Finish(w)
        /\ Quiet /\ UNCHANGED <<resv, lock, faults>>

\* mark_canceled reads the row ...
ReadToCancel(w) ==
    /\ wpc[w] = "canceling"
    /\ status[wmsg[w].job] \notin {"done", "canceled"}
    /\ WorkerGoto(w, "cancelCommit")
    /\ Quiet /\ UNCHANGED <<status, resv, stale, pstatus, lock, wmsg, faults>>

\* ... and commits "canceled".
CommitCanceled(w) ==
    LET j == wmsg[w].job
    IN  /\ wpc[w] = "cancelCommit"
        /\ EndJob(j, "canceled")
        /\ resv' = [resv EXCEPT ![j] = Released(@)]
        /\ SetIfVisible(proj[j], "ready")
        /\ Finish(w)
        /\ Quiet /\ UNCHANGED <<lock, faults>>

\* Both find a job that is done or canceled already, and leave it.
AlreadyFinal(w) ==
    /\ wpc[w] \in {"completing", "canceling"}
    /\ status[wmsg[w].job] \in {"done", "canceled"}
    /\ Finish(w)
    /\ Quiet /\ UNCHANGED <<status, resv, stale, pstatus, lock, faults>>

\* mark_failed looks neither at the job's status nor at the project's.
MarkFailed(w) ==
    LET j == wmsg[w].job
    IN  /\ wpc[w] \in {"failing", "unaccounted"}
        /\ EndJob(j, "failed")
        /\ resv' = [resv EXCEPT ![j] =
                      IF wpc[w] = "unaccounted" /\ @ = "reserved"
                        THEN "review" ELSE Released(@)]
        /\ pstatus' = [pstatus EXCEPT ![proj[j]] = "failed"]
        /\ Finish(w)
        /\ Quiet /\ UNCHANGED <<lock, faults>>

\* The commit of mark_complete fails for good: mark_failed_after_completion
\* takes over, or is lost too and leaves the row running.
CompletionLost(w) ==
    LET j == wmsg[w].job
    IN  /\ wpc[w] \in {"completing", "doneCommit"}
        /\ Fault("commit")
        /\ \/ /\ status[j] \notin {"done", "canceled"}
              /\ EndJob(j, "failed")
              /\ resv' = [resv EXCEPT ![j] = Released(@)]
              /\ pstatus' = [pstatus EXCEPT ![proj[j]] = "failed"]
           \/ UNCHANGED <<status, stale, resv, pstatus>>
        /\ Finish(w)
        /\ Quiet /\ UNCHANGED lock

-----------------------------------------------------------------------------
(* The environment: crashes, the broker's redeliveries, lost messages, time. *)

\* The worker process is killed. With task_reject_on_worker_lost the message
\* goes back to the broker; after a hard time limit it is acknowledged. The
\* Redis lock stays behind until its TTL expires.
Crash(w) ==
    /\ Working(w)
    /\ Fault("crash")
    /\ queue' = queue \cup {wmsg[w]} \/ queue' = queue
    /\ lock' = [p \in Project |-> IF lock[p] = w THEN Orphan ELSE lock[p]]
    /\ FreeSlot(w)
    /\ UNCHANGED <<jobVars, projVars, tenant, seen, published, req>>

LockExpires(p) ==
    /\ lock[p] = Orphan
    /\ lock' = [lock EXCEPT ![p] = None]
    /\ UNCHANGED <<jobVars, projVars, tenant, mqVars, wpc, wmsg, req, faults>>

\* The broker delivers a message again although its worker is alive.
Redeliver(w) ==
    /\ Working(w)
    /\ Fault("duplicate")
    /\ queue' = queue \cup {wmsg[w]}
    /\ UNCHANGED <<jobVars, projVars, tenant, seen, published, workVars, req>>

LoseMessage(m) ==
    /\ m \in queue
    /\ Fault("lost")
    /\ queue' = queue \ {m}
    /\ UNCHANGED <<jobVars, projVars, tenant, seen, published, workVars, req>>

\* The stale window passes without a sign of life.
GrowStale(j) ==
    /\ status[j] \in ActiveStatus
    /\ ~stale[j]
    /\ SlowWorkers \/ \A w \in Worker : ~Serving(w, j)
    /\ stale' = [stale EXCEPT ![j] = TRUE]
    /\ UNCHANGED <<status, proj, attempt, taskId, cancelReq, resv, starts,
                   projVars, tenant, mqVars, workVars, req, faults>>

-----------------------------------------------------------------------------
(* Sweeps of the beat, every 60 seconds.                                   *)

Unpublished(j) ==
    /\ status[j] = "queued" /\ taskId[j] = 0
    /\ SlowRequests \/ \A r \in Request : Idle(r) \/ req[r].job # j

\* _recover_unpublished_jobs publishes again under the row lock ...
RecoverPublish(j) ==
    /\ Unpublished(j)
    /\ tenant # "disabled"
    /\ Send(j)
    /\ taskId' = [taskId EXCEPT ![j] = published[j] + 1]
    /\ UNCHANGED <<status, proj, attempt, cancelReq, resv, stale, starts,
                   projVars, tenant, workVars, req, faults>>

\* ... and may die between the publication and the commit ...
RecoverLost(j) ==
    /\ Unpublished(j)
    /\ tenant # "disabled"
    /\ Fault("commit")
    /\ Send(j)
    /\ UNCHANGED <<jobVars, projVars, tenant, workVars, req>>

\* ... and closes the jobs of a disabled tenant.
RecoverRefuse(j) ==
    /\ Unpublished(j)
    /\ tenant = "disabled"
    /\ EndJob(j, "failed")
    /\ resv' = [resv EXCEPT ![j] = Released(@)]
    /\ SetUnlessArchived(proj[j], "ready")
    /\ UNCHANGED <<proj, attempt, taskId, cancelReq, starts, archivedAt,
                   tenant, mqVars, workVars, req, faults>>

\* Mutant: only running rows are reclaimed, a queued one waits for ever.
ReclaimRunningOnly(j) == status[j] = "running" /\ stale[j]

\* Rows without a task id are left to the recovery above.
Reclaimable(j) ==
    /\ status[j] \in ActiveStatus
    /\ stale[j]
    /\ status[j] = "queued" => taskId[j] # 0

\* reclaim_stale_jobs: a lost job ends as canceled or failed; the reservation
\* of a run that may have spent something goes to review.
Reclaim(j) ==
    LET p == proj[j]
        uncertain == status[j] = "running" /\ resv[j] = "reserved"
    IN  /\ Reclaimable(j)
        /\ EndJob(j, IF cancelReq[j] THEN "canceled" ELSE "failed")
        /\ resv' = [resv EXCEPT ![j] =
                      IF uncertain THEN "review" ELSE Released(@)]
        /\ IF \E k \in Job \ {j} : proj[k] = p /\ status[k] \in ActiveStatus
             THEN UNCHANGED pstatus
             ELSE SetUnlessArchived(p, IF cancelReq[j] THEN "ready" ELSE "failed")
        /\ UNCHANGED <<proj, attempt, taskId, cancelReq, starts,
                       archivedAt, tenant, mqVars, workVars, req, faults>>

\* reconcile_usage_outbox: the outbox is replayed, or a review without events
\* is given up two hours after its job.
Reconcile(j) ==
    /\ resv[j] = "review"
    /\ \/ resv' = [resv EXCEPT ![j] = "settled"]
       \/ status[j] \in TerminalStatus /\ resv' = [resv EXCEPT ![j] = "released"]
    /\ UNCHANGED <<status, proj, attempt, taskId, cancelReq, stale, starts,
                   projVars, tenant, mqVars, workVars, req, faults>>

-----------------------------------------------------------------------------
RequestStep(r) ==
    \/ Insert(r) \/ InsertConflict(r) \/ InitDone(r) \/ InitFailed(r)
    \/ Publish(r) \/ RecordTaskId(r) \/ DispatchFailed(r)
    \/ CancelQueued(r) \/ CancelQueuedMissed(r) \/ CancelFlag(r) \/ Archive(r)

RequestNext(r) ==
    \/ RequestStep(r)
    \/ PublishRaises(r) \/ RequestDies(r)
    \/ \E p \in Project :
          \/ \E k \in {"action", "retest"} : BeginAction(r, p, k)
          \/ CreateProject(r, p) \/ BeginArchive(r, p) \/ DispatchDue(r, p)
    \/ \E j \in Job : BeginRetry(r, j) \/ BeginCancel(r, j)

Delivery(w) ==
    \E m \in queue, redelivered \in BOOLEAN :
        \/ IgnoreDelivery(w, m, redelivered) \/ RefuseAttempts(w, m, redelivered)
        \/ RefuseTenant(w, m, redelivered) \/ Claim(w, m, redelivered)

BodyEnds(w) ==
    \E pc \in {"completing", "failing", "unaccounted", "canceling"} : EndBody(w, pc)

WorkerStep(w) ==
    \/ CommitRefusal(w) \/ TakeLock(w) \/ LockTimeout(w) \/ BodyEnds(w)
    \/ ReadToComplete(w) \/ CommitDone(w) \/ ReadToCancel(w)
    \/ CommitCanceled(w) \/ AlreadyFinal(w) \/ MarkFailed(w) \/ Acknowledge(w)

WorkerNext(w) ==
    \/ Delivery(w) \/ WorkerStep(w) \/ Heartbeat(w) \/ AccountUsage(w)
    \/ ReserveGap(w) \/ CompletionLost(w) \/ Crash(w) \/ Redeliver(w)

Sweep(j) ==
    \/ RecoverPublish(j) \/ RecoverLost(j) \/ RecoverRefuse(j)
    \/ Reclaim(j) \/ Reconcile(j)

Next ==
    \/ \E r \in Request : RequestNext(r)
    \/ \E w \in Worker : WorkerNext(w)
    \/ \E j \in Job : Sweep(j) \/ GrowStale(j)
    \/ \E p \in Project : LockExpires(p)
    \/ \E m \in queue : LoseMessage(m)
    \/ \E t \in {"active", "unpaid", "disabled"} : ChangeTenant(t)

Spec == Init /\ [][Next]_vars

-----------------------------------------------------------------------------
(* What the actors rely on.                                                *)

\* Every variable holds a value the code can store there.
TypeOK ==
    /\ status \in [Job -> Status]
    /\ proj \in [Job -> Project \cup {None}]
    /\ attempt \in [Job -> Nat]
    /\ taskId \in [Job -> Nat]
    /\ cancelReq \in [Job -> BOOLEAN]
    /\ resv \in [Job -> Reservation]
    /\ stale \in [Job -> BOOLEAN]
    /\ pstatus \in [Project -> ProjectStatus]
    /\ archivedAt \in [Project -> BOOLEAN]
    /\ tenant \in {"active", "unpaid", "disabled"}
    /\ queue \subseteq Message
    /\ seen \subseteq Message
    /\ published \in [Job -> 0..MaxPublish]
    /\ lock \in [Project -> Worker \cup {None, Orphan}]
    /\ wpc \in [Worker -> WorkerPc]
    /\ wmsg \in [Worker -> Message \cup {None}]
    /\ req \in [Request -> RequestState]
    /\ starts \in [Job -> Nat]
    /\ faults \in 0..MaxFaults

\* A project never has two jobs queued or running, whatever races at the API,
\* in the dispatchers and in the redelivery branch of the worker.
OneActiveJobPerProject ==
    \A j, k \in Job :
        /\ status[j] \in ActiveStatus
        /\ status[k] \in ActiveStatus
        /\ proj[j] = proj[k]
        => j = k

\* A queued job has no worker: canceling it in the queue, or failing it there,
\* can never pull the row from under a running engine.
QueuedIsUnclaimed ==
    \A w \in Worker, j \in Job : Serving(w, j) => status[j] # "queued"

\* A job is started at most as often as its attempt number says, and that
\* number never passes MAX_JOB_ATTEMPTS: redeliveries and retries together
\* cannot run a job for ever.
AttemptsBounded ==
    \A j \in Job : starts[j] <= attempt[j] /\ attempt[j] <= MaxAttempts

\* A failed or canceled job that no worker serves any more holds no untouched
\* budget reservation.
EndedReleasesReservation ==
    \A j \in Job :
        /\ status[j] \in {"failed", "canceled"}
        /\ \A w \in Worker : ~Serving(w, j)
        => resv[j] # "reserved"

\* A project shows a working status only while it has an active job, so no
\* failure path forgets to hand the project back.
BusyHasJob ==
    \A p \in Project : pstatus[p] = "busy" /\ ~archivedAt[p] => Active(p)

\* A job that ended is never queued or running again.
NeverReactivated ==
    [][\A j \in Job : status[j] \in TerminalStatus
                        => status'[j] \in TerminalStatus]_vars

\* A job that was started and whose platform calls are not accounted yet is not
\* started again: no redelivery buys the same calls twice under one key.
NotRestartedUnaccounted ==
    [][\A j \in Job : resv[j] = "reserved" /\ starts[j] > 0
                        => starts'[j] = starts[j]]_vars

\* A finished job keeps its result.
DoneIsFinal ==
    [][\A j \in Job : status[j] = "done" => status'[j] = "done"]_vars

\* "canceled" is a terminal state of a job.
CanceledIsFinal ==
    [][\A j \in Job : status[j] = "canceled" => status'[j] = "canceled"]_vars

\* What a job came to is not rewritten by a late worker, sweep or request.
OutcomesAreFinal == DoneIsFinal /\ CanceledIsFinal

-----------------------------------------------------------------------------
(* The promise: a project is a slot that holds one job at a time.          *)

\* The active job of a project, from the two columns st and pj.
SlotOf(st, pj, p) ==
    IF \E j \in Job : pj[j] = p /\ st[j] \in ActiveStatus
      THEN CHOOSE j \in Job : pj[j] = p /\ st[j] \in ActiveStatus
      ELSE None

Slots == INSTANCE ProjectSlots WITH
    slot    <- [p \in Project |-> SlotOf(status, proj, p)],
    started <- {j \in Job : status[j] = "running"},
    ended   <- {j \in Job : status[j] \in TerminalStatus}

\* Requests, deliveries and sweeps together implement the one-slot discipline:
\* a job enters a free project, is started and ends once, whatever is retried,
\* redelivered, recovered, reclaimed or written late.
ImplementsSlots == Slots!Spec

-----------------------------------------------------------------------------
(* Scheduling. Requests in flight, claimed runs and the beat make progress; *)
(* time passes. Nothing is assumed of the delivery of a message.           *)

Fairness ==
    /\ \A r \in Request : WF_vars(RequestStep(r))
    /\ \A w \in Worker : WF_vars(WorkerStep(w))
    /\ \A p \in Project : WF_vars(LockExpires(p))
    /\ \A j \in Job : /\ WF_vars(GrowStale(j))
                        /\ WF_vars(RecoverPublish(j) \/ RecoverRefuse(j))
                        /\ WF_vars(Reclaim(j))

FairSpec == Spec /\ Fairness

\* Every job ends, so a project is never occupied for ever: not by a lost
\* message, a dead worker, a lost commit or a request that never published.
EveryJobEnds ==
    \A j \in Job : status[j] \in ActiveStatus ~> status[j] \in TerminalStatus
=============================================================================
