------------------------- MODULE JobLifecycleProofs -------------------------
(***************************************************************************)
(* What holds of JobLifecycle for any number of projects, jobs, workers    *)
(* and requests, and for every choice of requests, faults and bounds.      *)
(*                                                                         *)
(* The argument has three layers. IInv says that whatever a message, a     *)
(* worker or a request holds on to is a row that exists; it is inductive,  *)
(* one step per action. Under IInv every step of the system changes the    *)
(* rows in one of four ways (RowChange): not at all, a new row, a claim, or  *)
(* an end. The properties of the rows then follow from RowChange alone.    *)
(***************************************************************************)
EXTENDS JobLifecycle, TLAPS

-----------------------------------------------------------------------------
(* The inductive invariant.                                                *)

RowExists(j) == j \in Job /\ status[j] # "free"

RowsHaveProjects ==
    \A j \in Job : /\ status[j] # "free" => proj[j] \in Project
                   /\ attempt[j] \in 1..MaxAttempts

QueueHasRows == \A m \in queue : RowExists(m.job)

\* A worker that has claimed a job keeps the row from being queued.
WorkersHaveRows ==
    \A w \in Worker :
        /\ wpc[w] # "idle" => wmsg[w] \in Message /\ RowExists(wmsg[w].job)
        /\ wpc[w] \notin {"idle", "refusing"} => status[wmsg[w].job] # "queued"

\* A request that is about to insert a retry has seen its source ended.
RequestsHaveRows ==
    \A r \in Request :
        /\ req[r].pc # "idle" => req[r].proj \in Project
        /\ req[r].pc \notin {"idle", "insert", "archive"} => RowExists(req[r].job)
        /\ req[r].pc = "insert" /\ req[r].kind = "retry"
             => /\ req[r].job \in Job
                /\ status[req[r].job] \in TerminalStatus
                /\ attempt[req[r].job] < MaxAttempts

IInv == /\ TypeOK
        /\ RowsHaveProjects
        /\ QueueHasRows
        /\ WorkersHaveRows
        /\ RequestsHaveRows

-----------------------------------------------------------------------------
(* Vocabulary that every step of the proof needs: the sets of values, the  *)
(* groups of variables left unchanged, and how a process moves on.         *)

USE DEF Message, Status, ActiveStatus, TerminalStatus, Reservation,
        ProjectStatus, RequestState, RequestPc, AllKinds, WorkerPc,
        jobVars, projVars, mqVars, workVars,
        At, Leave, NoRequest, WorkerGoto, Finish, FreeSlot, Quiet

LEMMA InitIInv == Init => IInv
  BY ConstantsAssumption
     DEF Init, IInv, TypeOK, RowsHaveProjects, QueueHasRows, WorkersHaveRows,
         RequestsHaveRows, RowExists

LEMMA GotoMoves ==
    ASSUME req \in [Request -> RequestState],
           NEW r \in Request, NEW pc \in RequestPc, Goto(r, pc)
    PROVE  /\ req' \in [Request -> RequestState]
           /\ \A q \in Request :
                 /\ q # r => req'[q] = req[q]
                 /\ req'[q].kind = req[q].kind
                 /\ req'[q].proj = req[q].proj
                 /\ req'[q].job = req[q].job
                 /\ req'[q].prev = req[q].prev
           /\ req'[r].pc = pc
<1>1. [req[r] EXCEPT !.pc = pc] \in RequestState
  OBVIOUS
<1>2. req' = [req EXCEPT ![r] = [req[r] EXCEPT !.pc = pc]]
  BY DEF Goto
<1>3. QED
  BY <1>1, <1>2

LEMMA GotoKeepsRequests ==
    ASSUME req \in [Request -> RequestState], RequestsHaveRows,
           NEW r \in Request, NEW pc \in RequestPc \ {"insert", "archive"},
           req[r].pc # "idle", RowExists(req[r].job),
           Goto(r, pc), UNCHANGED <<status, attempt>>
    PROVE  req' \in [Request -> RequestState] /\ RequestsHaveRows'
<1>1. /\ req' \in [Request -> RequestState]
      /\ \A q \in Request : q # r => req'[q] = req[q]
      /\ req'[r].proj = req[r].proj
      /\ req'[r].job = req[r].job
      /\ req'[r].pc = pc
  BY GotoMoves
<1>2. ASSUME NEW q \in Request
      PROVE  /\ req'[q].pc # "idle" => req'[q].proj \in Project
             /\ req'[q].pc \notin {"idle", "insert", "archive"}
                  => RowExists(req'[q].job)
             /\ req'[q].pc = "insert" /\ req'[q].kind = "retry"
                  => /\ req'[q].job \in Job
                     /\ status[req'[q].job] \in TerminalStatus
                     /\ attempt[req'[q].job] < MaxAttempts
  <2>1. CASE q = r
    BY <1>1, <2>1 DEF RequestsHaveRows
  <2>2. CASE q # r
    BY <1>1, <2>2 DEF RequestsHaveRows
  <2>3. QED
    BY <2>1, <2>2
<1>3. RequestsHaveRows'
  BY <1>2 DEF RequestsHaveRows, RowExists
<1>4. QED
  BY <1>1, <1>3

LEMMA RequestKeepsIInv ==
    ASSUME IInv, NEW r \in Request, RequestNext(r)
    PROVE  IInv'
<1> USE ConstantsAssumption DEF IInv, TypeOK, RowsHaveProjects, QueueHasRows,
        WorkersHaveRows, RequestsHaveRows, RowExists
<1>1. CASE Insert(r)
  BY <1>1 DEF Insert, InsertRow
<1>2. CASE InsertConflict(r)
  BY <1>2 DEF InsertConflict
<1>3. CASE InitDone(r)
  <2>1. PICK v \in {resv[req[r].job], "reserved"} :
            resv' = [resv EXCEPT ![req[r].job] = v]
    BY <1>3 DEF InitDone
  <2>2. v \in Reservation
    BY <1>3, <2>1 DEF InitDone
  <2>3. resv' \in [Job -> Reservation]
    BY <2>1, <2>2
  <2>4. req' \in [Request -> RequestState] /\ RequestsHaveRows'
    BY <1>3, GotoKeepsRequests DEF InitDone
  <2>5. TypeOK'
    BY <1>3, <2>3, <2>4 DEF InitDone
  <2>6. /\ RowsHaveProjects'
        /\ QueueHasRows'
        /\ WorkersHaveRows'
    BY <1>3 DEF InitDone
  <2>7. QED
    BY <2>4, <2>5, <2>6
<1>4. CASE InitFailed(r)
  <2>1. req' \in [Request -> RequestState] /\ RequestsHaveRows'
    BY <1>4, GotoKeepsRequests DEF InitFailed
  <2>2. QED
    BY <1>4, <2>1 DEF InitFailed
<1>5. CASE Publish(r)
  <2>1. req[r].job \in Job /\ status[req[r].job] # "free"
    BY <1>5 DEF Publish
  <2>2. TypeOK'
    BY <1>5, <2>1 DEF Publish, Send
  <2>3. RowsHaveProjects' /\ WorkersHaveRows'
    BY <1>5 DEF Publish
  <2>4. QueueHasRows'
    BY <1>5, <2>1 DEF Publish, Send
  <2>5. RequestsHaveRows'
    BY <1>5, <2>1 DEF Publish
  <2>6. QED
    BY <2>2, <2>3, <2>4, <2>5
<1>6. CASE PublishRaises(r)
  <2>1. /\ req[r].job \in Job /\ status[req[r].job] # "free"
        /\ req[r].proj \in Project
    BY <1>6 DEF PublishRaises
  <2>2. /\ published' \in [Job -> 0..MaxPublish]
        /\ queue' \subseteq Message
        /\ \A m \in queue' : m \in queue \/ m.job = req[r].job
        /\ seen' = seen
    <3>1. CASE Send(req[r].job)
      BY <2>1, <3>1 DEF Send
    <3>2. CASE UNCHANGED mqVars
      BY <3>2
    <3>3. QED
      BY <1>6, <3>1, <3>2 DEF PublishRaises
  <2>3. faults' \in 0..MaxFaults
    BY <1>6 DEF PublishRaises, Fault
  <2>4. /\ req' \in [Request -> RequestState]
        /\ RequestsHaveRows'
    BY <1>6, <2>1, GotoKeepsRequests DEF PublishRaises
  <2>5. TypeOK'
    BY <1>6, <2>2, <2>3, <2>4 DEF PublishRaises
  <2>6. RowsHaveProjects' /\ QueueHasRows' /\ WorkersHaveRows'
    BY <1>6, <2>1, <2>2 DEF PublishRaises
  <2>7. QED
    BY <2>4, <2>5, <2>6
<1>7. CASE RecordTaskId(r)
  BY <1>7 DEF RecordTaskId
<1>8. CASE DispatchFailed(r)
  BY <1>8 DEF DispatchFailed, EndJob, Released
<1>9. CASE RequestDies(r)
  BY <1>9 DEF RequestDies, Fault
<1>10. CASE CancelQueued(r)
  BY <1>10 DEF CancelQueued, EndJob, Released
<1>11. CASE CancelQueuedMissed(r)
  <2>1. CASE Goto(r, "cancelFlag")
    <3>1. req' \in [Request -> RequestState] /\ RequestsHaveRows'
      BY <1>11, <2>1, GotoKeepsRequests DEF CancelQueuedMissed
    <3>2. QED
      BY <1>11, <3>1 DEF CancelQueuedMissed
  <2>2. CASE Leave(r)
    BY <1>11, <2>2 DEF CancelQueuedMissed
  <2>3. QED
    BY <1>11, <2>1, <2>2 DEF CancelQueuedMissed
<1>12. CASE CancelFlag(r)
  BY <1>12 DEF CancelFlag
<1>13. CASE Archive(r)
  BY <1>13 DEF Archive
<1>14. ASSUME NEW p \in Project, NEW k \in {"action", "retest"}, BeginAction(r, p, k)
       PROVE  IInv'
  BY <1>14 DEF BeginAction, Enter, Idle
<1>15. ASSUME NEW j \in Job, BeginRetry(r, j)
       PROVE  IInv'
  BY <1>15 DEF BeginRetry, Enter, Idle
<1>16. ASSUME NEW j \in Job, BeginCancel(r, j)
       PROVE  IInv'
  BY <1>16 DEF BeginCancel, Enter, Idle
<1>17. ASSUME NEW p \in Project, BeginArchive(r, p)
       PROVE  IInv'
  BY <1>17 DEF BeginArchive, Enter, Idle
<1>18. ASSUME NEW p \in Project, CreateProject(r, p)
       PROVE  IInv'
  BY <1>18 DEF CreateProject, InsertRow, Enter, Idle
<1>19. ASSUME NEW p \in Project, DispatchDue(r, p)
       PROVE  IInv'
  BY <1>19 DEF DispatchDue, InsertRow, Enter, Idle
<1> HIDE DEF IInv
<1>20. QED
  BY <1>1, <1>2, <1>3, <1>4, <1>5, <1>6, <1>7, <1>8, <1>9, <1>10, <1>11, <1>12,
     <1>13, <1>14, <1>15, <1>16, <1>17, <1>18, <1>19
     DEF RequestNext, RequestStep

LEMMA DeliveryKeepsIInv ==
    ASSUME IInv, NEW w \in Worker, Delivery(w)
    PROVE  IInv'
<1> USE ConstantsAssumption DEF IInv, TypeOK, RowsHaveProjects, QueueHasRows,
        WorkersHaveRows, RequestsHaveRows, RowExists
<1>1. PICK m \in queue, redelivered \in BOOLEAN :
          \/ IgnoreDelivery(w, m, redelivered) \/ RefuseAttempts(w, m, redelivered)
          \/ RefuseTenant(w, m, redelivered) \/ Claim(w, m, redelivered)
  BY DEF Delivery
<1>2. CASE IgnoreDelivery(w, m, redelivered)
  BY <1>2 DEF IgnoreDelivery, Receive, NoteDelivery, Fault
<1>3. CASE RefuseAttempts(w, m, redelivered)
  BY <1>3 DEF RefuseAttempts, Receive, NoteDelivery, Fault, Resumes, EndJob,
              SetUnlessArchived
<1>4. CASE RefuseTenant(w, m, redelivered)
  <2>1. CASE status[m.job] = "queued"
    BY <1>4, <2>1 DEF RefuseTenant, Receive, NoteDelivery, Fault
  <2>2. CASE status[m.job] # "queued"
    <3>1. /\ attempt' = [attempt EXCEPT ![m.job] = attempt[m.job] + 1]
          /\ attempt[m.job] < MaxAttempts
      BY <1>4, <2>2 DEF RefuseTenant, Eligible, Resumes, AttemptAfter
    <3>2. /\ status' = [status EXCEPT ![m.job] = "failed"]
          /\ UNCHANGED <<proj, starts, wpc, wmsg, req>>
          /\ queue' = queue \ {m}
      BY <1>4, <2>2 DEF RefuseTenant, Receive, EndJob
    <3>3. TypeOK'
      <4>1. seen' \subseteq Message /\ faults' \in 0..MaxFaults
        BY <1>4 DEF RefuseTenant, Receive, NoteDelivery, Fault
      <4>2. /\ resv' \in [Job -> Reservation]
            /\ stale' \in [Job -> BOOLEAN]
            /\ pstatus' \in [Project -> ProjectStatus]
        <5>1. /\ resv' = [resv EXCEPT ![m.job] = Released(@)]
              /\ stale' = [stale EXCEPT ![m.job] = FALSE]
              /\ SetUnlessArchived(proj[m.job], "ready")
          BY <1>4, <2>2 DEF RefuseTenant, EndJob
        <5>2. QED
          BY <5>1 DEF SetUnlessArchived, Released
      <4>3. attempt' \in [Job -> Nat] /\ status' \in [Job -> Status]
        BY <3>1, <3>2
      <4>4. UNCHANGED <<taskId, cancelReq, archivedAt, tenant, published, lock>>
        BY <1>4 DEF RefuseTenant, Receive
      <4>5. QED
        BY <3>2, <4>1, <4>2, <4>3, <4>4
    <3>4. RowsHaveProjects' /\ QueueHasRows' /\ WorkersHaveRows'
      BY <3>1, <3>2
    <3>5. RequestsHaveRows'
      BY <3>1, <3>2, <1>4, <2>2 DEF RefuseTenant, Eligible, Resumes
    <3>6. QED
      BY <3>3, <3>4, <3>5
  <2>3. QED
    BY <2>1, <2>2
<1>5. CASE Claim(w, m, redelivered)
  BY <1>5 DEF Claim, Receive, NoteDelivery, Fault, Eligible, Resumes, AttemptAfter
<1>6. QED
  BY <1>1, <1>2, <1>3, <1>4, <1>5

LEMMA WorkerKeepsIInv ==
    ASSUME IInv, NEW w \in Worker, WorkerNext(w)
    PROVE  IInv'
<1> USE ConstantsAssumption DEF IInv, TypeOK, RowsHaveProjects, QueueHasRows,
        WorkersHaveRows, RequestsHaveRows, RowExists
<1>1. CASE Delivery(w)
  BY <1>1, DeliveryKeepsIInv
<1>2. CASE CommitRefusal(w)
  BY <1>2 DEF CommitRefusal, EndJob, SetUnlessArchived, Released
<1>3. CASE TakeLock(w)
  BY <1>3 DEF TakeLock
<1>4. CASE LockTimeout(w)
  BY <1>4 DEF LockTimeout
<1>5. CASE BodyEnds(w)
  BY <1>5 DEF BodyEnds, EndBody
<1>6. CASE ReadToComplete(w)
  BY <1>6 DEF ReadToComplete
<1>7. CASE CommitDone(w)
  BY <1>7 DEF CommitDone, EndJob, SetIfVisible
<1>8. CASE ReadToCancel(w)
  BY <1>8 DEF ReadToCancel
<1>9. CASE CommitCanceled(w)
  BY <1>9 DEF CommitCanceled, EndJob, SetIfVisible, Released
<1>10. CASE AlreadyFinal(w)
  BY <1>10 DEF AlreadyFinal
<1>11. CASE MarkFailed(w)
  BY <1>11 DEF MarkFailed, EndJob, Released
<1>12. CASE Acknowledge(w)
  BY <1>12 DEF Acknowledge
<1>13. CASE Heartbeat(w)
  BY <1>13 DEF Heartbeat
<1>14. CASE AccountUsage(w)
  BY <1>14 DEF AccountUsage
<1>15. CASE ReserveGap(w)
  BY <1>15 DEF ReserveGap
<1>16. CASE CompletionLost(w)
  <2>1. CASE UNCHANGED <<status, stale, resv, pstatus>>
    BY <1>16, <2>1 DEF CompletionLost, Fault
  <2>2. CASE /\ EndJob(wmsg[w].job, "failed")
             /\ resv' = [resv EXCEPT ![wmsg[w].job] = Released(@)]
             /\ pstatus' = [pstatus EXCEPT ![proj[wmsg[w].job]] = "failed"]
    BY <1>16, <2>2 DEF CompletionLost, Fault, EndJob, Released
  <2>3. QED
    BY <1>16, <2>1, <2>2 DEF CompletionLost
<1>17. CASE Crash(w)
  BY <1>17 DEF Crash, Fault, Working
<1>18. CASE Redeliver(w)
  BY <1>18 DEF Redeliver, Fault, Working
<1> HIDE DEF IInv
<1>19. QED
  BY <1>1, <1>2, <1>3, <1>4, <1>5, <1>6, <1>7, <1>8, <1>9, <1>10, <1>11, <1>12,
     <1>13, <1>14, <1>15, <1>16, <1>17, <1>18
     DEF WorkerNext, WorkerStep

LEMMA SweepKeepsIInv ==
    ASSUME IInv, NEW j \in Job, Sweep(j) \/ GrowStale(j)
    PROVE  IInv'
<1> USE ConstantsAssumption DEF IInv, TypeOK, RowsHaveProjects, QueueHasRows,
        WorkersHaveRows, RequestsHaveRows, RowExists
<1>1. CASE RecoverPublish(j)
  BY <1>1 DEF RecoverPublish, Unpublished, Send
<1>2. CASE RecoverLost(j)
  BY <1>2 DEF RecoverLost, Unpublished, Send, Fault
<1>3. CASE RecoverRefuse(j)
  BY <1>3 DEF RecoverRefuse, Unpublished, EndJob, Released, SetUnlessArchived
<1>4. CASE Reclaim(j)
  BY <1>4 DEF Reclaim, Reclaimable, EndJob, Released, SetUnlessArchived
<1>5. CASE Reconcile(j)
  BY <1>5 DEF Reconcile
<1>6. CASE GrowStale(j)
  BY <1>6 DEF GrowStale
<1>7. QED
  BY <1>1, <1>2, <1>3, <1>4, <1>5, <1>6 DEF Sweep

LEMMA StepKeepsIInv == IInv /\ [Next]_vars => IInv'
<1> SUFFICES ASSUME IInv, [Next]_vars
             PROVE  IInv'
  OBVIOUS
<1>1. ASSUME NEW p \in Project, LockExpires(p)
      PROVE  IInv'
  BY <1>1 DEF LockExpires, IInv, TypeOK, RowsHaveProjects, QueueHasRows,
              WorkersHaveRows, RequestsHaveRows, RowExists
<1>2. ASSUME NEW m \in queue, LoseMessage(m)
      PROVE  IInv'
  BY <1>2, ConstantsAssumption
     DEF LoseMessage, Fault, IInv, TypeOK, RowsHaveProjects, QueueHasRows,
         WorkersHaveRows, RequestsHaveRows, RowExists
<1>3. ASSUME NEW t \in {"active", "unpaid", "disabled"}, ChangeTenant(t)
      PROVE  IInv'
  BY <1>3 DEF ChangeTenant, IInv, TypeOK, RowsHaveProjects, QueueHasRows,
              WorkersHaveRows, RequestsHaveRows, RowExists
<1>4. CASE UNCHANGED vars
  BY <1>4 DEF vars, IInv, TypeOK, RowsHaveProjects, QueueHasRows,
              WorkersHaveRows, RequestsHaveRows, RowExists
<1>5. QED
  BY <1>1, <1>2, <1>3, <1>4, RequestKeepsIInv, WorkerKeepsIInv, SweepKeepsIInv
     DEF Next

LEMMA IInvHolds == Spec => []IInv
  BY InitIInv, StepKeepsIInv, PTL DEF Spec

\* Every variable always holds a value of its column, key or local variable.
THEOREM TypeCorrect == Spec => []TypeOK
<1>1. IInv => TypeOK
  BY DEF IInv
<1>2. QED
  BY <1>1, IInvHolds, PTL

\* A row a worker has claimed is not in the queue: cancel_project_job may end a
\* queued row without asking any worker.
THEOREM QueuedUnclaimed == Spec => []QueuedIsUnclaimed
<1>1. IInv => QueuedIsUnclaimed
  BY DEF IInv, WorkersHaveRows, QueuedIsUnclaimed, Serving
<1>2. QED
  BY <1>1, IInvHolds, PTL

-----------------------------------------------------------------------------
(* The four ways in which a step can change the rows of the job table.     *)

NewRow(j, p, a) ==
    /\ status[j] = "free"
    /\ ~Active(p)
    /\ status' = [status EXCEPT ![j] = "queued"]
    /\ proj' = [proj EXCEPT ![j] = p]
    /\ attempt' = [attempt EXCEPT ![j] = a]
    /\ UNCHANGED starts

ClaimRow(j) ==
    /\ \/ status[j] = "queued" /\ UNCHANGED attempt
       \/ /\ status[j] = "running"
          /\ resv[j] # "reserved"
          /\ attempt[j] < MaxAttempts
          /\ attempt' = [attempt EXCEPT ![j] = attempt[j] + 1]
    /\ status' = [status EXCEPT ![j] = "running"]
    /\ starts' = [starts EXCEPT ![j] = starts[j] + 1]
    /\ UNCHANGED proj

EndRow(j, s) ==
    /\ status[j] # "free"
    /\ status' = [status EXCEPT ![j] = s]
    /\ \/ UNCHANGED attempt
       \/ /\ attempt[j] < MaxAttempts
          /\ attempt' = [attempt EXCEPT ![j] = attempt[j] + 1]
    /\ UNCHANGED <<proj, starts>>

RowChange ==
    \/ UNCHANGED <<status, proj, attempt, starts>>
    \/ \E j \in Job, p \in Project, a \in 1..MaxAttempts : NewRow(j, p, a)
    \/ \E j \in Job : ClaimRow(j)
    \/ \E j \in Job, s \in TerminalStatus : EndRow(j, s)

LEMMA RequestChangesRows ==
    ASSUME IInv, NEW r \in Request, RequestNext(r)
    PROVE  RowChange
<1>1. CASE Insert(r)
  <2> DEFINE a == IF req[r].kind = "retry" THEN attempt[req[r].job] + 1 ELSE 1
  <2>1. PICK j \in Job : InsertRow(j, req[r].proj, a)
    BY <1>1 DEF Insert
  <2>2. a \in 1..MaxAttempts
    BY <1>1, ConstantsAssumption
       DEF Insert, IInv, TypeOK, RowsHaveProjects, RequestsHaveRows
  <2>3. req[r].proj \in Project
    BY <1>1 DEF Insert, IInv, RequestsHaveRows
  <2>4. NewRow(j, req[r].proj, a)
    BY <1>1, <2>1 DEF Insert, InsertRow, IndexAllows, NewRow
  <2>5. QED
    BY <2>2, <2>3, <2>4 DEF RowChange
<1>2. ASSUME NEW p \in Project, CreateProject(r, p) \/ DispatchDue(r, p)
      PROVE  RowChange
  <2>1. PICK j \in Job : InsertRow(j, p, 1)
    BY <1>2 DEF CreateProject, DispatchDue
  <2>2. NewRow(j, p, 1)
    BY <1>2, <2>1 DEF CreateProject, DispatchDue, InsertRow, NewRow
  <2>3. QED
    BY <2>2, ConstantsAssumption DEF RowChange
<1>3. CASE DispatchFailed(r) \/ CancelQueued(r)
  <2>1. RowExists(req[r].job)
    BY <1>3 DEF DispatchFailed, CancelQueued, IInv, RequestsHaveRows
  <2>2. \E s \in TerminalStatus : EndRow(req[r].job, s)
    BY <1>3, <2>1 DEF DispatchFailed, CancelQueued, EndJob, EndRow, RowExists
  <2>3. QED
    BY <2>1, <2>2 DEF RowChange, RowExists
<1>4. CASE \/ InsertConflict(r) \/ InitDone(r) \/ InitFailed(r) \/ Publish(r)
           \/ PublishRaises(r) \/ RecordTaskId(r) \/ RequestDies(r)
           \/ CancelQueuedMissed(r) \/ CancelFlag(r) \/ Archive(r)
  BY <1>4 DEF InsertConflict, InitDone, InitFailed, Publish, PublishRaises,
              RecordTaskId, RequestDies, CancelQueuedMissed, CancelFlag, Archive,
              RowChange
<1>5. ASSUME NEW p \in Project,
             \/ BeginArchive(r, p)
             \/ \E k \in {"action", "retest"} : BeginAction(r, p, k)
      PROVE  RowChange
  BY <1>5 DEF BeginArchive, BeginAction, RowChange
<1>6. ASSUME NEW j \in Job, BeginRetry(r, j) \/ BeginCancel(r, j)
      PROVE  RowChange
  BY <1>6 DEF BeginRetry, BeginCancel, RowChange
<1>7. QED
  BY <1>1, <1>2, <1>3, <1>4, <1>5, <1>6 DEF RequestNext, RequestStep

LEMMA WorkerChangesRows ==
    ASSUME IInv, NEW w \in Worker, WorkerNext(w)
    PROVE  RowChange
<1>1. ASSUME NEW m \in queue, NEW redelivered \in BOOLEAN, Claim(w, m, redelivered)
      PROVE  RowChange
  <2>1. m.job \in Job
    BY DEF IInv, QueueHasRows, RowExists
  <2>2. ClaimRow(m.job)
    BY <1>1, <2>1 DEF Claim, Receive, Eligible, Resumes, AttemptAfter, ClaimRow,
                      IInv, TypeOK
  <2>3. QED
    BY <2>1, <2>2 DEF RowChange
<1>2. ASSUME NEW m \in queue, NEW redelivered \in BOOLEAN,
             RefuseAttempts(w, m, redelivered) \/ RefuseTenant(w, m, redelivered)
      PROVE  RowChange
  <2>1. RowExists(m.job)
    BY DEF IInv, QueueHasRows
  <2>2. CASE RefuseAttempts(w, m, redelivered)
    <3>1. EndRow(m.job, "failed")
      BY <2>1, <2>2 DEF RefuseAttempts, Receive, EndJob, EndRow, RowExists
    <3>2. QED
      BY <2>1, <3>1 DEF RowChange, RowExists
  <2>3. CASE RefuseTenant(w, m, redelivered) /\ status[m.job] = "queued"
    BY <2>3 DEF RefuseTenant, Receive, RowChange
  <2>4. CASE RefuseTenant(w, m, redelivered) /\ status[m.job] # "queued"
    <3>1. EndRow(m.job, "failed")
      BY <2>1, <2>4 DEF RefuseTenant, Receive, Eligible, Resumes, AttemptAfter,
                        EndJob, EndRow, RowExists
    <3>2. QED
      BY <2>1, <3>1 DEF RowChange, RowExists
  <2>5. QED
    BY <1>2, <2>2, <2>3, <2>4
<1>3. ASSUME NEW m \in queue, NEW redelivered \in BOOLEAN,
             IgnoreDelivery(w, m, redelivered)
      PROVE  RowChange
  BY <1>3 DEF IgnoreDelivery, Receive, RowChange
<1>4. CASE \/ CommitRefusal(w) \/ CommitDone(w) \/ CommitCanceled(w)
           \/ MarkFailed(w) \/ CompletionLost(w)
  <2>1. RowExists(wmsg[w].job)
    BY <1>4 DEF CommitRefusal, CommitDone, CommitCanceled, MarkFailed,
                CompletionLost, IInv, WorkersHaveRows
  <2>2. \/ UNCHANGED <<status, proj, attempt, starts>>
        \/ \E s \in TerminalStatus : EndRow(wmsg[w].job, s)
    BY <1>4, <2>1 DEF CommitRefusal, CommitDone, CommitCanceled, MarkFailed,
                      CompletionLost, EndJob, EndRow, RowExists
  <2>3. QED
    BY <2>1, <2>2 DEF RowChange, RowExists
<1>5. CASE \/ TakeLock(w) \/ LockTimeout(w) \/ BodyEnds(w) \/ ReadToComplete(w)
           \/ ReadToCancel(w) \/ AlreadyFinal(w) \/ Acknowledge(w)
           \/ Heartbeat(w) \/ AccountUsage(w) \/ ReserveGap(w) \/ Crash(w)
           \/ Redeliver(w)
  BY <1>5 DEF TakeLock, LockTimeout, BodyEnds, EndBody, ReadToComplete,
              ReadToCancel, AlreadyFinal, Acknowledge, Heartbeat, AccountUsage,
              ReserveGap, Crash, Redeliver, RowChange
<1>6. QED
  BY <1>1, <1>2, <1>3, <1>4, <1>5 DEF WorkerNext, WorkerStep, Delivery

LEMMA StepChangesRows == IInv /\ [Next]_vars => RowChange
<1> SUFFICES ASSUME IInv, [Next]_vars
             PROVE  RowChange
  OBVIOUS
<1>1. ASSUME NEW j \in Job, Reclaim(j) \/ RecoverRefuse(j)
      PROVE  RowChange
  <2>1. \E s \in TerminalStatus : EndRow(j, s)
    BY <1>1 DEF Reclaim, Reclaimable, RecoverRefuse, Unpublished, EndJob, EndRow
  <2>2. QED
    BY <2>1 DEF RowChange
<1>2. ASSUME NEW j \in Job,
             \/ RecoverPublish(j) \/ RecoverLost(j)
             \/ Reconcile(j) \/ GrowStale(j)
      PROVE  RowChange
  BY <1>2 DEF RecoverPublish, RecoverLost, Reconcile, GrowStale, RowChange
<1>3. CASE \/ \E p \in Project : LockExpires(p)
           \/ \E m \in queue : LoseMessage(m)
           \/ \E t \in {"active", "unpaid", "disabled"} : ChangeTenant(t)
           \/ UNCHANGED vars
  BY <1>3 DEF LockExpires, LoseMessage, ChangeTenant, vars, RowChange
<1>4. QED
  BY <1>1, <1>2, <1>3, RequestChangesRows, WorkerChangesRows DEF Next, Sweep

-----------------------------------------------------------------------------
(* Properties of the rows.                                                 *)

LEMMA RowChangeKeepsOneActive ==
    TypeOK /\ OneActiveJobPerProject /\ RowChange => OneActiveJobPerProject'
<1> SUFFICES ASSUME TypeOK, OneActiveJobPerProject, RowChange
             PROVE  OneActiveJobPerProject'
  OBVIOUS
<1>1. CASE UNCHANGED <<status, proj, attempt, starts>>
  BY <1>1 DEF OneActiveJobPerProject
<1>2. ASSUME NEW j \in Job, NEW p \in Project, NEW a \in 1..MaxAttempts,
             NewRow(j, p, a)
      PROVE  OneActiveJobPerProject'
  BY <1>2 DEF NewRow, Active, TypeOK, OneActiveJobPerProject
<1>3. ASSUME NEW j \in Job, ClaimRow(j)
      PROVE  OneActiveJobPerProject'
  BY <1>3 DEF ClaimRow, TypeOK, OneActiveJobPerProject
<1>4. ASSUME NEW j \in Job, NEW s \in TerminalStatus, EndRow(j, s)
      PROVE  OneActiveJobPerProject'
  BY <1>4 DEF EndRow, TypeOK, OneActiveJobPerProject
<1>5. QED
  BY <1>1, <1>2, <1>3, <1>4 DEF RowChange

\* The partial unique index is enough: however requests, dispatchers, workers
\* and sweeps interleave, a project has at most one job queued or running.
THEOREM OneActive == Spec => []OneActiveJobPerProject
<1>1. Init => OneActiveJobPerProject
  BY DEF Init, OneActiveJobPerProject
<1>2. IInv /\ OneActiveJobPerProject /\ [Next]_vars => OneActiveJobPerProject'
  BY StepChangesRows, RowChangeKeepsOneActive DEF IInv
<1>3. QED
  BY <1>1, <1>2, IInvHolds, PTL DEF Spec

\* A message that outlives its job, a late worker or a sweep never brings an
\* ended job back.
THEOREM EndedStaysEnded == Spec => NeverReactivated
<1>1. IInv /\ [Next]_vars
        => [\A j \in Job : status[j] \in TerminalStatus
                             => status'[j] \in TerminalStatus]_vars
  <2> SUFFICES ASSUME IInv, RowChange, NEW j \in Job, status[j] \in TerminalStatus
               PROVE  status'[j] \in TerminalStatus
    BY StepChangesRows
  <2>1. QED
    BY DEF IInv, TypeOK, RowChange, NewRow, ClaimRow, EndRow
<1>2. QED
  BY <1>1, IInvHolds, PTL DEF Spec, NeverReactivated

\* A job in the table has not been started before it leaves the queue, and
\* every further start has raised its attempt number.
StartsInv ==
    \A j \in Job : /\ status[j] \in {"free", "queued"} => starts[j] = 0
                   /\ starts[j] <= attempt[j]

LEMMA StartsInvHolds == Spec => []StartsInv
<1>1. Init => StartsInv
  BY DEF Init, StartsInv
<1>2. IInv /\ StartsInv /\ [Next]_vars => StartsInv'
  <2> SUFFICES ASSUME IInv, StartsInv, RowChange
               PROVE  StartsInv'
    BY StepChangesRows
  <2> USE ConstantsAssumption DEF IInv, TypeOK, RowsHaveProjects, StartsInv
  <2>1. CASE UNCHANGED <<status, proj, attempt, starts>>
    BY <2>1
  <2>2. ASSUME NEW j \in Job, NEW p \in Project, NEW a \in 1..MaxAttempts,
               NewRow(j, p, a)
        PROVE  StartsInv'
    BY <2>2 DEF NewRow
  <2>3. ASSUME NEW j \in Job, ClaimRow(j)
        PROVE  StartsInv'
    BY <2>3 DEF ClaimRow
  <2>4. ASSUME NEW j \in Job, NEW s \in TerminalStatus, EndRow(j, s)
        PROVE  StartsInv'
    BY <2>4 DEF EndRow
  <2>5. QED
    BY <2>1, <2>2, <2>3, <2>4 DEF RowChange
<1>3. QED
  BY <1>1, <1>2, IInvHolds, PTL DEF Spec

\* Redeliveries, recoveries and retries together never start a job more often
\* than MAX_JOB_ATTEMPTS allows.
THEOREM AttemptsStayBounded == Spec => []AttemptsBounded
<1>1. IInv /\ StartsInv => AttemptsBounded
  BY ConstantsAssumption DEF IInv, RowsHaveProjects, StartsInv, AttemptsBounded
<1>2. QED
  BY <1>1, IInvHolds, StartsInvHolds, PTL

\* The guard of the redelivery branch is enough: a run whose platform calls are
\* not accounted for is never repeated under the same billing key.
THEOREM UnaccountedNotRestarted == Spec => NotRestartedUnaccounted
<1>1. IInv /\ StartsInv /\ [Next]_vars
        => [\A j \in Job : resv[j] = "reserved" /\ starts[j] > 0
                             => starts'[j] = starts[j]]_vars
  <2> SUFFICES ASSUME IInv, StartsInv, RowChange,
                      NEW j \in Job, resv[j] = "reserved", starts[j] > 0
               PROVE  starts'[j] = starts[j]
    BY StepChangesRows
  <2>1. status[j] \notin {"free", "queued"}
    BY DEF StartsInv
  <2>2. QED
    BY <2>1 DEF IInv, TypeOK, RowChange, NewRow, ClaimRow, EndRow
<1>2. QED
  BY <1>1, IInvHolds, StartsInvHolds, PTL DEF Spec, NotRestartedUnaccounted

-----------------------------------------------------------------------------
(* The rows implement the slots. What a slot holds is computed from the    *)
(* two columns, before and after a step.                                   *)

Unique(st, pj) ==
    \A j, k \in Job : /\ st[j] \in ActiveStatus
                      /\ st[k] \in ActiveStatus
                      /\ pj[j] = pj[k]
                      => j = k

LEMMA SlotOfHolds ==
    ASSUME NEW st, NEW pj, NEW p, NEW j \in Job, Unique(st, pj),
           pj[j] = p, st[j] \in ActiveStatus
    PROVE  SlotOf(st, pj, p) = j
<1> DEFINE c == CHOOSE k \in Job : pj[k] = p /\ st[k] \in ActiveStatus
<1>1. c \in Job /\ pj[c] = p /\ st[c] \in ActiveStatus
  OBVIOUS
<1>2. c = j
  BY <1>1 DEF Unique
<1>3. QED
  BY <1>2 DEF SlotOf

LEMMA SlotOfEmpty ==
    ASSUME NEW st, NEW pj, NEW p,
           \A j \in Job : pj[j] = p => st[j] \notin ActiveStatus
    PROVE  SlotOf(st, pj, p) = None
  BY DEF SlotOf

\* A slot that holds a job holds an active one of its project.
LEMMA SlotOfIsActive ==
    ASSUME NEW st, NEW pj, NEW p, NEW j \in Job, SlotOf(st, pj, p) = j
    PROVE  pj[j] = p /\ st[j] \in ActiveStatus
<1>1. \E k \in Job : pj[k] = p /\ st[k] \in ActiveStatus
  BY NoneAssumption DEF SlotOf
<1>2. QED
  BY <1>1 DEF SlotOf

\* The slot of a project depends on the active jobs of that project only.
LEMMA SlotOfSame ==
    ASSUME NEW st, NEW pj, NEW st2, NEW pj2, NEW p,
           Unique(st, pj), Unique(st2, pj2),
           \A k \in Job : (pj[k] = p /\ st[k] \in ActiveStatus)
                            <=> (pj2[k] = p /\ st2[k] \in ActiveStatus)
    PROVE  SlotOf(st2, pj2, p) = SlotOf(st, pj, p)
<1>1. ASSUME NEW k \in Job, pj[k] = p, st[k] \in ActiveStatus
      PROVE  SlotOf(st2, pj2, p) = SlotOf(st, pj, p)
  <2>1. SlotOf(st, pj, p) = k
    BY <1>1, SlotOfHolds
  <2>2. SlotOf(st2, pj2, p) = k
    BY <1>1, SlotOfHolds
  <2>3. QED
    BY <2>1, <2>2
<1>2. CASE \A k \in Job : pj[k] = p => st[k] \notin ActiveStatus
  BY <1>2, SlotOfEmpty
<1>3. QED
  BY <1>1, <1>2

\* A new row fills the empty slot of its project.
LEMMA NewRowOpens ==
    ASSUME IInv, Unique(status, proj), Unique(status', proj'),
           NEW j \in Job, NEW p \in Project, NEW a \in 1..MaxAttempts,
           NewRow(j, p, a)
    PROVE  Slots!Open(p, j)
<1> DEFINE Slot(q) == SlotOf(status, proj, q)
<1>1. Slot(p) = None
  BY SlotOfEmpty DEF NewRow, Active
<1>2. \A q \in Project : Slot(q) # j
  BY SlotOfIsActive DEF NewRow
<1>3. SlotOf(status', proj', p) = j
  BY SlotOfHolds DEF NewRow, IInv, TypeOK
<1>4. ASSUME NEW q \in Project, q # p
      PROVE  SlotOf(status', proj', q) = Slot(q)
  <2>1. \A k \in Job : (proj[k] = q /\ status[k] \in ActiveStatus)
                         <=> (proj'[k] = q /\ status'[k] \in ActiveStatus)
    BY <1>4 DEF NewRow, IInv, TypeOK
  <2>2. QED
    BY <2>1, SlotOfSame
<1>5. [q \in Project |-> SlotOf(status', proj', q)]
        = [[q \in Project |-> Slot(q)] EXCEPT ![p] = j]
  BY <1>3, <1>4
<1>6. /\ {k \in Job : status'[k] = "running"} = {k \in Job : status[k] = "running"}
      /\ {k \in Job : status'[k] \in TerminalStatus}
           = {k \in Job : status[k] \in TerminalStatus}
  BY DEF NewRow, IInv, TypeOK
<1>7. j \notin {k \in Job : status[k] \in TerminalStatus}
  BY DEF NewRow
<1>8. QED
  BY <1>1, <1>2, <1>5, <1>6, <1>7 DEF Slots!Open

\* A claim starts the job of the slot, or starts it again.
LEMMA ClaimStarts ==
    ASSUME IInv, Unique(status, proj), Unique(status', proj'),
           NEW j \in Job, NEW p \in Project, proj[j] = p, ClaimRow(j)
    PROVE  Slots!Start(p)
<1> DEFINE Slot(q) == SlotOf(status, proj, q)
<1>1. status[j] \in ActiveStatus
  BY DEF ClaimRow
<1>2. Slot(p) = j
  BY <1>1, SlotOfHolds
<1>3. ASSUME NEW q \in Project
      PROVE  SlotOf(status', proj', q) = Slot(q)
  <2>1. \A k \in Job : (proj[k] = q /\ status[k] \in ActiveStatus)
                         <=> (proj'[k] = q /\ status'[k] \in ActiveStatus)
    BY <1>1 DEF ClaimRow, IInv, TypeOK
  <2>2. QED
    BY <2>1, SlotOfSame
<1>4. [q \in Project |-> SlotOf(status', proj', q)] = [q \in Project |-> Slot(q)]
  BY <1>3
<1>5. /\ {k \in Job : status'[k] = "running"}
           = {k \in Job : status[k] = "running"} \cup {j}
      /\ {k \in Job : status'[k] \in TerminalStatus}
           = {k \in Job : status[k] \in TerminalStatus}
  BY <1>1 DEF ClaimRow, IInv, TypeOK
<1>6. j # None
  BY NoneAssumption
<1>7. QED
  BY <1>1, <1>2, <1>4, <1>5, <1>6 DEF Slots!Start

\* An end closes the slot, unless the row had ended before.
LEMMA EndCloses ==
    ASSUME IInv, Unique(status, proj), Unique(status', proj'),
           NEW j \in Job, NEW s \in TerminalStatus, EndRow(j, s),
           NEW p \in Project, proj[j] = p
    PROVE  Slots!Close(p) \/ UNCHANGED Slots!slotVars
<1> DEFINE Slot(q) == SlotOf(status, proj, q)
<1>1. CASE status[j] \in ActiveStatus
  <2>1. Slot(p) = j
    BY <1>1, SlotOfHolds
  <2>2. SlotOf(status', proj', p) = None
    <3>1. \A k \in Job : proj'[k] = p => status'[k] \notin ActiveStatus
      BY <1>1 DEF EndRow, IInv, TypeOK, Unique
    <3>2. QED
      BY <3>1, SlotOfEmpty
  <2>3. ASSUME NEW q \in Project, q # p
        PROVE  SlotOf(status', proj', q) = Slot(q)
    <3>1. \A k \in Job : (proj[k] = q /\ status[k] \in ActiveStatus)
                           <=> (proj'[k] = q /\ status'[k] \in ActiveStatus)
      BY <2>3 DEF EndRow, IInv, TypeOK
    <3>2. QED
      BY <3>1, SlotOfSame
  <2>4. [q \in Project |-> SlotOf(status', proj', q)]
          = [[q \in Project |-> Slot(q)] EXCEPT ![p] = None]
    BY <2>2, <2>3
  <2>5. /\ {k \in Job : status'[k] = "running"}
             = {k \in Job : status[k] = "running"} \ {j}
        /\ {k \in Job : status'[k] \in TerminalStatus}
             = {k \in Job : status[k] \in TerminalStatus} \cup {j}
    BY DEF EndRow, IInv, TypeOK
  <2>6. j # None
    BY NoneAssumption
  <2>7. QED
    BY <2>1, <2>4, <2>5, <2>6 DEF Slots!Close
<1>2. CASE status[j] \notin ActiveStatus
  <2>1. \A q \in Project, k \in Job :
            (proj[k] = q /\ status[k] \in ActiveStatus)
              <=> (proj'[k] = q /\ status'[k] \in ActiveStatus)
    BY <1>2 DEF EndRow, IInv, TypeOK
  <2>2. \A q \in Project : SlotOf(status', proj', q) = Slot(q)
    BY <2>1, SlotOfSame
  <2>3. /\ {k \in Job : status'[k] = "running"} = {k \in Job : status[k] = "running"}
        /\ {k \in Job : status'[k] \in TerminalStatus}
             = {k \in Job : status[k] \in TerminalStatus}
    BY <1>2 DEF EndRow, IInv, TypeOK
  <2>4. QED
    BY <2>2, <2>3 DEF Slots!slotVars
<1>3. QED
  BY <1>1, <1>2

LEMMA RowChangeIsSlotStep ==
    ASSUME IInv, OneActiveJobPerProject, OneActiveJobPerProject', RowChange
    PROVE  [Slots!Next]_(Slots!slotVars)
<1>1. Unique(status, proj) /\ Unique(status', proj')
  BY DEF OneActiveJobPerProject, Unique
<1>2. CASE UNCHANGED <<status, proj, attempt, starts>>
  BY <1>2 DEF Slots!slotVars
<1>3. ASSUME NEW j \in Job, NEW p \in Project, NEW a \in 1..MaxAttempts,
             NewRow(j, p, a)
      PROVE  Slots!Next
  BY <1>1, <1>3, NewRowOpens DEF Slots!Next
<1>4. ASSUME NEW j \in Job, ClaimRow(j)
      PROVE  Slots!Next
  <2>1. PICK p \in Project : proj[j] = p
    BY <1>4 DEF ClaimRow, IInv, RowsHaveProjects
  <2>2. Slots!Start(p)
    BY <1>1, <1>4, <2>1, ClaimStarts
  <2>3. QED
    BY <2>2 DEF Slots!Next
<1>5. ASSUME NEW j \in Job, NEW s \in TerminalStatus, EndRow(j, s)
      PROVE  Slots!Next \/ UNCHANGED Slots!slotVars
  <2>1. PICK p \in Project : proj[j] = p
    BY <1>5 DEF EndRow, IInv, RowsHaveProjects
  <2>2. Slots!Close(p) \/ UNCHANGED Slots!slotVars
    BY <1>1, <1>5, <2>1, EndCloses
  <2>3. QED
    BY <2>2 DEF Slots!Next
<1>6. QED
  BY <1>2, <1>3, <1>4, <1>5 DEF RowChange

\* The job table, with everything that writes to it, implements one slot per
\* project.
THEOREM SlotsImplemented == Spec => ImplementsSlots
<1>1. Init => Slots!Init
  BY SlotOfEmpty DEF Init, Slots!Init
<1>2. /\ IInv /\ OneActiveJobPerProject /\ OneActiveJobPerProject' /\ [Next]_vars
      => [Slots!Next]_(Slots!slotVars)
  BY StepChangesRows, RowChangeIsSlotStep
<1>3. QED
  BY <1>1, <1>2, IInvHolds, OneActive, PTL DEF Spec, ImplementsSlots, Slots!Spec

-----------------------------------------------------------------------------
(* What a job came to, and what becomes of its reservation. Both are        *)
(* promised only where every run of a job is over, or known to be dead,    *)
(* before another actor writes the row: a live worker keeps its heartbeat, *)
(* a message is redelivered only after its worker died, a publication that *)
(* raises has published nothing, and nobody disables the tenant or creates *)
(* the project while the job is on its way.                                *)

Punctual ==
    /\ {"create", "tenant"} \cap Kinds = {}
    /\ {"publish", "duplicate"} \cap Faults = {}
    /\ SlowWorkers = FALSE

Runs(w, j) == wpc[w] # "idle" /\ wmsg[w].job = j

\* A job is run by one worker at a time ...
OneWorker ==
    \A w, v \in Worker : Working(w) /\ Runs(v, wmsg[w].job) => v = w

\* ... and a message the worker can mistake for its own is not in the broker:
\* only a delivered message resumes a run, and the run's message is the last
\* one delivered that came back.
NoneResumable ==
    /\ \A m \in queue \cap seen, w \in Worker : ~Runs(w, m.job)
    /\ \A m, n \in queue \cap seen : m.job = n.job => m = n
    /\ \A m \in queue \cap seen : status[m.job] # "queued"

\* Every message in circulation has a number that was given out.
Numbered ==
    /\ \A m \in queue \cup seen : m.id <= published[m.job]
    /\ \A w \in Worker : Working(w) => wmsg[w].id <= published[wmsg[w].job]

\* A worker that is not done with its job finds it running, and the job of a
\* worker does not look lost.
WorkersKeepRows ==
    \A w \in Worker :
        /\ wpc[w] # "refusing"
        /\ Working(w) => ~stale[wmsg[w].job]
        /\ wpc[w] \notin {"idle", "ending"} => status[wmsg[w].job] = "running"

\* No request writes a row it has not read in the same transaction.
RequestsRead == \A r \in Request : req[r].pc \notin {"init", "dispatchFailed"}

EndedReleased ==
    \A j \in Job : status[j] \in {"failed", "canceled"} => resv[j] # "reserved"

Orderly == /\ OneWorker
           /\ NoneResumable
           /\ Numbered
           /\ WorkersKeepRows
           /\ RequestsRead
           /\ tenant = "active"
           /\ EndedReleased

LEMMA InitOrderly == Init => Orderly
  BY DEF Init, Orderly, OneWorker, NoneResumable, Numbered, WorkersKeepRows,
         RequestsRead, EndedReleased, Runs, Working

LEMMA PublishKeepsRead ==
    ASSUME IInv, RequestsRead, NEW r \in Request, Publish(r)
    PROVE  RequestsRead'
<1>1. req \in [Request -> RequestState]
  BY DEF IInv, TypeOK
<1>2. PICK i : req' = [req EXCEPT ![r].id = i, ![r].pc = "record"]
  BY DEF Publish
<1>3. \A q \in Request : q # r => req'[q] = req[q]
  BY <1>1, <1>2
<1>4. req'[r].pc = "record"
  <2>1. req[r] \in RequestState
    BY <1>1
  <2>2. [[req[r] EXCEPT !.id = i] EXCEPT !.pc = "record"].pc = "record"
    BY <2>1
  <2>3. req'[r] = [[req[r] EXCEPT !.id = i] EXCEPT !.pc = "record"]
    BY <1>1, <1>2
  <2> HIDE DEF RequestState
  <2>4. QED
    BY <2>2, <2>3
<1>5. QED
  BY <1>3, <1>4 DEF RequestsRead

LEMMA RequestKeepsOrderly ==
    ASSUME Punctual, IInv, Orderly, IInv', NEW r \in Request, RequestNext(r)
    PROVE  Orderly'
<1> USE ConstantsAssumption DEF Punctual, IInv, TypeOK, RowsHaveProjects,
        QueueHasRows, WorkersHaveRows, RequestsHaveRows, RowExists, Orderly,
        OneWorker, NoneResumable, Numbered, WorkersKeepRows, RequestsRead,
        EndedReleased, Runs, Working
<1>1. CASE Insert(r)
  BY <1>1 DEF Insert, InsertRow
<1>2. CASE InsertConflict(r)
  BY <1>2 DEF InsertConflict
<1>3. CASE InitDone(r) \/ InitFailed(r) \/ DispatchFailed(r)
  BY <1>3 DEF InitDone, InitFailed, DispatchFailed
<1>4. CASE PublishRaises(r)
  BY <1>4 DEF PublishRaises, Fault
<1>5. CASE Publish(r)
  <2>2. RequestsRead'
    BY <1>5, PublishKeepsRead
  <2> DEFINE j == req[r].job
             new == [job |-> j, id |-> published[j] + 1]
  <2>1. /\ j \in Job
        /\ published' = [published EXCEPT ![j] = published[j] + 1]
        /\ queue' = queue \cup {new}
        /\ UNCHANGED <<status, resv, stale, seen, wpc, wmsg, tenant>>
    BY <1>5 DEF Publish, Send
  <2>3. new.job = j /\ new.id = published[j] + 1
    OBVIOUS
  <2> HIDE DEF j, new
  <2>4. new \notin seen
    BY <2>1, <2>3
  <2>5. Numbered'
    BY <2>1, <2>3
  <2>6. queue' \cap seen' = queue \cap seen
    BY <2>1, <2>4
  <2>7. OneWorker' /\ NoneResumable' /\ WorkersKeepRows' /\ EndedReleased'
    BY <2>1, <2>6
  <2>8. QED
    BY <2>1, <2>2, <2>5, <2>7
<1>6. CASE RecordTaskId(r)
  BY <1>6 DEF RecordTaskId
<1>7. CASE RequestDies(r)
  BY <1>7 DEF RequestDies
<1>8. CASE CancelQueued(r)
  BY <1>8 DEF CancelQueued, EndJob, Released
<1>9. CASE CancelQueuedMissed(r)
  BY <1>9 DEF CancelQueuedMissed, Goto
<1>10. CASE CancelFlag(r)
  BY <1>10 DEF CancelFlag
<1>11. CASE Archive(r)
  BY <1>11 DEF Archive
<1>12. ASSUME NEW p \in Project, NEW k \in {"action", "retest"}, BeginAction(r, p, k)
       PROVE  Orderly'
  BY <1>12 DEF BeginAction, Enter
<1>13. ASSUME NEW j \in Job, BeginRetry(r, j)
       PROVE  Orderly'
  BY <1>13 DEF BeginRetry, Enter
<1>14. ASSUME NEW j \in Job, BeginCancel(r, j)
       PROVE  Orderly'
  BY <1>14 DEF BeginCancel, Enter
<1>15. ASSUME NEW p \in Project, BeginArchive(r, p)
       PROVE  Orderly'
  BY <1>15 DEF BeginArchive, Enter
<1>16. ASSUME NEW p \in Project, CreateProject(r, p)
       PROVE  Orderly'
  BY <1>16 DEF CreateProject
<1>17. ASSUME NEW p \in Project, DispatchDue(r, p)
       PROVE  Orderly'
  BY <1>17 DEF DispatchDue, InsertRow, Enter
<1> HIDE DEF IInv, Orderly
<1>18. QED
  BY <1>1, <1>2, <1>3, <1>4, <1>5, <1>6, <1>7, <1>8, <1>9, <1>10, <1>11, <1>12,
     <1>13, <1>14, <1>15, <1>16, <1>17
     DEF RequestNext, RequestStep

LEMMA DeliveryKeepsOrderly ==
    ASSUME Punctual, IInv, Orderly, IInv', NEW w \in Worker, Delivery(w)
    PROVE  Orderly'
<1> USE ConstantsAssumption DEF Punctual, IInv, TypeOK, RowsHaveProjects,
        QueueHasRows, WorkersHaveRows, RequestsHaveRows, RowExists, Orderly,
        OneWorker, NoneResumable, Numbered, WorkersKeepRows, RequestsRead,
        EndedReleased, Runs, Working
<1>1. PICK m \in queue, redelivered \in BOOLEAN :
          \/ IgnoreDelivery(w, m, redelivered) \/ RefuseAttempts(w, m, redelivered)
          \/ RefuseTenant(w, m, redelivered) \/ Claim(w, m, redelivered)
  BY DEF Delivery
<1>2. CASE IgnoreDelivery(w, m, redelivered)
  BY <1>2 DEF IgnoreDelivery, Receive, NoteDelivery
<1>3. CASE RefuseAttempts(w, m, redelivered)
  <2>a. m \in seen /\ seen' = seen \cup {m}
    BY <1>3, Zenon DEF RefuseAttempts, Receive, NoteDelivery, Resumes
  <2>1. /\ m \in queue \cap seen
        /\ UNCHANGED <<seen, wpc, wmsg, req, tenant, published, resv>>
        /\ queue' = queue \ {m}
        /\ status' = [status EXCEPT ![m.job] = "failed"]
        /\ stale' = [stale EXCEPT ![m.job] = FALSE]
        /\ resv[m.job] # "reserved"
    BY <1>3, <2>a DEF RefuseAttempts, Receive, EndJob
  <2>2. WorkersKeepRows' /\ EndedReleased'
    BY <2>1
  <2>3. OneWorker' /\ NoneResumable' /\ Numbered' /\ RequestsRead'
    BY <2>1
  <2>4. QED
    BY <2>1, <2>2, <2>3
<1>4. CASE RefuseTenant(w, m, redelivered)
  BY <1>4 DEF RefuseTenant
<1>5. CASE Claim(w, m, redelivered)
  BY <1>5 DEF Claim, Receive, NoteDelivery, Eligible, Resumes
<1>6. QED
  BY <1>1, <1>2, <1>3, <1>4, <1>5

\* The message of a worker that dies comes back, and nobody else has its job.
LEMMA CrashKeepsNoneResumable ==
    ASSUME IInv, OneWorker, NoneResumable, WorkersKeepRows, NEW w \in Worker, Working(w),
           queue' = queue \cup {wmsg[w]} \/ queue' = queue,
           wpc' = [wpc EXCEPT ![w] = "idle"], wmsg' = [wmsg EXCEPT ![w] = None],
           UNCHANGED <<status, seen>>
    PROVE  NoneResumable'
<1>1. /\ wpc'[w] = "idle" /\ \A v \in Worker : v # w => wpc'[v] = wpc[v] /\ wmsg'[v] = wmsg[v]
  BY DEF IInv, TypeOK
<1>2. Runs(w, wmsg[w].job)
  BY DEF Runs, Working
<1>3. \A v \in Worker : \A j : Runs(v, j)' => v # w /\ Runs(v, j)
  BY <1>1 DEF Runs
<1>4. \A m \in queue' \cap seen' : m = wmsg[w] \/ m \in queue \cap seen
  OBVIOUS
<1>5. \A v \in Worker : v # w => ~Runs(v, wmsg[w].job)
  BY DEF OneWorker
<1>6. \A m \in queue \cap seen : m.job # wmsg[w].job
  BY <1>2 DEF NoneResumable
<1>7. status[wmsg[w].job] # "queued"
  BY DEF IInv, WorkersHaveRows, WorkersKeepRows, Working
<1>8. \A m \in queue' \cap seen', v \in Worker : ~Runs(v, m.job)'
  BY <1>3, <1>4, <1>5 DEF NoneResumable
<1>9. \A m, n \in queue' \cap seen' : m.job = n.job => m = n
  BY <1>4, <1>6 DEF NoneResumable
<1>10. \A m \in queue' \cap seen' : status'[m.job] # "queued"
  BY <1>4, <1>7 DEF NoneResumable
<1>11. QED
  BY <1>8, <1>9, <1>10 DEF NoneResumable

LEMMA WorkerKeepsOrderly ==
    ASSUME Punctual, IInv, Orderly, IInv', NEW w \in Worker, WorkerNext(w)
    PROVE  Orderly'
<1> USE ConstantsAssumption DEF Punctual, IInv, TypeOK, RowsHaveProjects,
        QueueHasRows, WorkersHaveRows, RequestsHaveRows, RowExists, Orderly,
        OneWorker, NoneResumable, Numbered, WorkersKeepRows, RequestsRead,
        EndedReleased, Runs, Working
<1>1. CASE Delivery(w)
  BY <1>1, DeliveryKeepsOrderly
<1>2. CASE CommitRefusal(w)
  BY <1>2 DEF CommitRefusal
<1>3. CASE TakeLock(w)
  BY <1>3 DEF TakeLock
<1>4. CASE LockTimeout(w)
  BY <1>4 DEF LockTimeout
<1>5. CASE BodyEnds(w)
  BY <1>5 DEF BodyEnds, EndBody
<1>6. CASE ReadToComplete(w)
  BY <1>6 DEF ReadToComplete
<1>7. CASE CommitDone(w)
  BY <1>7 DEF CommitDone, EndJob
<1>8. CASE ReadToCancel(w)
  BY <1>8 DEF ReadToCancel
<1>9. CASE CommitCanceled(w)
  BY <1>9 DEF CommitCanceled, EndJob, Released
<1>10. CASE AlreadyFinal(w)
  BY <1>10 DEF AlreadyFinal
<1>11. CASE MarkFailed(w)
  BY <1>11 DEF MarkFailed, EndJob, Released
<1>12. CASE Acknowledge(w)
  BY <1>12 DEF Acknowledge
<1>13. CASE Heartbeat(w)
  BY <1>13 DEF Heartbeat
<1>14. CASE AccountUsage(w)
  BY <1>14 DEF AccountUsage
<1>15. CASE ReserveGap(w)
  BY <1>15 DEF ReserveGap
<1>16. CASE CompletionLost(w)
  <2>1. CASE UNCHANGED <<status, stale, resv, pstatus>>
    BY <1>16, <2>1 DEF CompletionLost
  <2>2. CASE /\ EndJob(wmsg[w].job, "failed")
             /\ resv' = [resv EXCEPT ![wmsg[w].job] = Released(@)]
    BY <1>16, <2>2 DEF CompletionLost, EndJob, Released
  <2>3. QED
    BY <1>16, <2>1, <2>2 DEF CompletionLost
<1>17. CASE Crash(w)
  <2>1. /\ Working(w)
        /\ queue' = queue \cup {wmsg[w]} \/ queue' = queue
        /\ wpc' = [wpc EXCEPT ![w] = "idle"]
        /\ wmsg' = [wmsg EXCEPT ![w] = None]
        /\ UNCHANGED <<status, resv, stale, seen, published, tenant, req>>
    BY <1>17 DEF Crash
  <2>2. NoneResumable'
    <3> HIDE DEF IInv, OneWorker, NoneResumable, WorkersKeepRows, Working
    <3>1. QED
      BY <2>1, CrashKeepsNoneResumable DEF Orderly
  <2>3. OneWorker' /\ WorkersKeepRows' /\ RequestsRead' /\ EndedReleased'
    BY <2>1
  <2>4. Numbered'
    BY <2>1
  <2>5. QED
    BY <2>1, <2>2, <2>3, <2>4
<1>18. CASE Redeliver(w)
  BY <1>18 DEF Redeliver, Fault
<1> HIDE DEF IInv, Orderly
<1>19. QED
  BY <1>1, <1>2, <1>3, <1>4, <1>5, <1>6, <1>7, <1>8, <1>9, <1>10, <1>11, <1>12,
     <1>13, <1>14, <1>15, <1>16, <1>17, <1>18
     DEF WorkerNext, WorkerStep

LEMMA StepKeepsOrderly ==
    ASSUME Punctual, IInv, IInv', Orderly, [Next]_vars
    PROVE  Orderly'
<1> USE ConstantsAssumption DEF Punctual, IInv, TypeOK, RowsHaveProjects,
        QueueHasRows, WorkersHaveRows, RequestsHaveRows, RowExists, Orderly,
        OneWorker, NoneResumable, Numbered, WorkersKeepRows, RequestsRead,
        EndedReleased, Runs, Working
<1>1. ASSUME NEW j \in Job, Sweep(j) \/ GrowStale(j)
      PROVE  Orderly'
  <2>1. CASE RecoverPublish(j)
    BY <1>1, <2>1 DEF RecoverPublish, Unpublished, Send
  <2>2. CASE RecoverLost(j)
    BY <1>1, <2>2 DEF RecoverLost, Unpublished, Send
  <2>3. CASE RecoverRefuse(j)
    BY <1>1, <2>3 DEF RecoverRefuse
  <2>4. CASE Reclaim(j)
    BY <1>1, <2>4 DEF Reclaim, Reclaimable, EndJob, Released
  <2>5. CASE Reconcile(j)
    BY <1>1, <2>5 DEF Reconcile
  <2>6. CASE GrowStale(j)
    BY <1>1, <2>6 DEF GrowStale, Serving
  <2>7. QED
    BY <1>1, <2>1, <2>2, <2>3, <2>4, <2>5, <2>6 DEF Sweep
<1>2. ASSUME NEW p \in Project, LockExpires(p)
      PROVE  Orderly'
  BY <1>2 DEF LockExpires
<1>3. ASSUME NEW m \in queue, LoseMessage(m)
      PROVE  Orderly'
  BY <1>3 DEF LoseMessage
<1>4. ASSUME NEW t \in {"active", "unpaid", "disabled"}, ChangeTenant(t)
      PROVE  Orderly'
  BY <1>4 DEF ChangeTenant
<1>5. CASE UNCHANGED vars
  BY <1>5 DEF vars
<1> HIDE DEF IInv, Orderly
<1>6. QED
  BY <1>1, <1>2, <1>3, <1>4, <1>5, RequestKeepsOrderly, WorkerKeepsOrderly
     DEF Next

LEMMA OrderlyHolds == ASSUME Punctual PROVE Spec => []Orderly
<1>1. IInv /\ IInv' /\ Orderly /\ [Next]_vars => Orderly'
  BY StepKeepsOrderly
<1>2. QED
  BY <1>1, InitOrderly, IInvHolds, PTL DEF Spec

\* A job that failed or was canceled never keeps its budget reserved.
THEOREM ReservationsReturned ==
    ASSUME Punctual PROVE Spec => []EndedReleasesReservation
<1>1. Orderly => EndedReleasesReservation
  BY DEF Orderly, EndedReleased, EndedReleasesReservation
<1>2. QED
  BY <1>1, OrderlyHolds, PTL

\* What a job came to stays: no late worker, sweep or request writes over it.
THEOREM OutcomesStay ==
    ASSUME Punctual PROVE Spec => OutcomesAreFinal
<1>1. ASSUME IInv, IInv', Orderly, [Next]_vars, NEW j \in Job, NEW s \in {"done", "canceled"},
             status[j] = s
      PROVE  status'[j] = s
  <2> USE DEF Punctual, IInv, TypeOK, RowsHaveProjects, QueueHasRows, WorkersHaveRows,
          RequestsHaveRows, RowExists, Orderly, WorkersKeepRows, RequestsRead
  <2>1. ASSUME NEW r \in Request, RequestNext(r)
        PROVE  status'[j] = s
    <3>1. CASE UNCHANGED status
      BY <1>1, <3>1
    <3>2. CASE Insert(r)
      BY <1>1, <3>2 DEF Insert, InsertRow
    <3>3. CASE DispatchFailed(r) \/ CancelQueued(r)
      BY <1>1, <3>3 DEF DispatchFailed, CancelQueued, EndJob
    <3>4. ASSUME NEW p \in Project, CreateProject(r, p) \/ DispatchDue(r, p)
          PROVE  status'[j] = s
      BY <1>1, <3>4 DEF CreateProject, DispatchDue, InsertRow
    <3>5. QED
      BY <2>1, <3>1, <3>2, <3>3, <3>4
         DEF RequestNext, RequestStep, InsertConflict, InitDone, InitFailed, Publish,
             RecordTaskId, CancelQueuedMissed, CancelFlag, Archive, PublishRaises,
             RequestDies, BeginAction, BeginArchive, BeginRetry, BeginCancel
  <2>2. ASSUME NEW w \in Worker, WorkerNext(w)
        PROVE  status'[j] = s
    <3>1. CASE UNCHANGED status
      BY <1>1, <3>1
    <3>2. ASSUME NEW m \in queue, NEW d, d \in BOOLEAN,
                 RefuseAttempts(w, m, d) \/ RefuseTenant(w, m, d) \/ Claim(w, m, d)
          PROVE  status'[j] = s
      BY <1>1, <3>2 DEF RefuseAttempts, RefuseTenant, Claim, Eligible, Resumes, EndJob
    <3>3. CASE \/ CommitRefusal(w) \/ CommitDone(w) \/ CommitCanceled(w)
               \/ MarkFailed(w) \/ CompletionLost(w)
      BY <1>1, <3>3 DEF CommitRefusal, CommitDone, CommitCanceled, MarkFailed,
                        CompletionLost, EndJob
    <3>4. QED
      BY <2>2, <3>1, <3>2, <3>3
         DEF WorkerNext, WorkerStep, Delivery, IgnoreDelivery, TakeLock, LockTimeout,
             BodyEnds, EndBody, ReadToComplete, ReadToCancel, AlreadyFinal,
             Acknowledge, Heartbeat, AccountUsage, ReserveGap, Crash, Redeliver
  <2>3. ASSUME NEW k \in Job, Sweep(k) \/ GrowStale(k)
        PROVE  status'[j] = s
    BY <1>1, <2>3 DEF Sweep, RecoverPublish, RecoverLost, RecoverRefuse, Unpublished,
                      Reclaim, Reclaimable, Reconcile, GrowStale, EndJob
  <2>4. QED
    BY <1>1, <2>1, <2>2, <2>3
       DEF Next, LockExpires, LoseMessage, ChangeTenant, vars
<1>2. IInv /\ IInv' /\ Orderly /\ [Next]_vars
        => [\A j \in Job : status[j] = "done" => status'[j] = "done"]_vars
  BY <1>1
<1>3. IInv /\ IInv' /\ Orderly /\ [Next]_vars
        => [\A j \in Job : status[j] = "canceled" => status'[j] = "canceled"]_vars
  BY <1>1
<1>4. QED
  BY <1>2, <1>3, IInvHolds, OrderlyHolds, PTL
     DEF Spec, OutcomesAreFinal, DoneIsFinal, CanceledIsFinal

-----------------------------------------------------------------------------
(* A project that shows a working status has a job that will hand it back.  *)
(* Two paths of the code set or keep that status without looking at the    *)
(* job, so the promise needs two things of the instance: while             *)
(* create_project prepares the workspace nobody may end the row it         *)
(* committed, and the dispatch of a retest, which leaves the project alone *)
(* when it fails, does not fail.                                           *)

HandsBack ==
    /\ "create" \in Kinds => SlowRequests = FALSE /\ "cancel" \notin Kinds
    /\ "retest" \in Kinds => "publish" \notin Faults

HoldsRow(r) == req[r].pc \notin {"idle", "insert", "archive"}

\* No message of a row that does not exist, and none that was not published.
MessagesPublished ==
    /\ \A j \in Job : status[j] = "free" => published[j] = 0 /\ taskId[j] = 0
    /\ \A m \in queue : published[m.job] # 0
    /\ \A w \in Worker : Working(w) => published[wmsg[w].job] # 0

\* What a request remembers is still so when it writes.
RequestsRemember ==
    \A r \in Request :
        /\ HoldsRow(r) => proj[req[r].job] = req[r].proj
        /\ req[r].pc # "idle" /\ req[r].kind = "schedule" => req[r].prev # "busy"
        /\ req[r].pc # "idle" => req[r].kind \in Kinds
        /\ req[r].pc = "dispatchFailed" => req[r].kind # "retest"

\* The row of a project that is being created is left to its request.
CreationUndisturbed ==
    \A r \in Request :
        req[r].pc = "init" =>
            /\ req[r].kind = "create"
            /\ status[req[r].job] = "queued"
            /\ published[req[r].job] = 0
            /\ taskId[req[r].job] = 0
            /\ \A q \in Request \ {r} : HoldsRow(q) => req[q].job # req[r].job

BusyInv == /\ BusyHasJob
           /\ MessagesPublished
           /\ RequestsRemember
           /\ CreationUndisturbed

LEMMA InitBusyInv == Init => BusyInv
  BY DEF Init, BusyInv, BusyHasJob, MessagesPublished, RequestsRemember,
         CreationUndisturbed, HoldsRow, Working

\* A row that ends may leave its project busy only with another active job.
LEMMA EndHandsBack ==
    ASSUME IInv, BusyHasJob, NEW j \in Job, NEW s \in TerminalStatus,
           status' = [status EXCEPT ![j] = s], UNCHANGED <<proj, archivedAt>>,
           \A p \in Project : p # proj[j] => pstatus'[p] = pstatus[p],
           \/ pstatus'[proj[j]] # "busy"
           \/ archivedAt[proj[j]]
           \/ \E k \in Job \ {j} : proj[k] = proj[j] /\ status[k] \in ActiveStatus
    PROVE  BusyHasJob'
<1> SUFFICES ASSUME NEW p \in Project, pstatus'[p] = "busy", ~archivedAt'[p]
             PROVE  \E k \in Job : proj'[k] = p /\ status'[k] \in ActiveStatus
  BY DEF BusyHasJob, Active
<1>1. CASE p # proj[j]
  <2>1. PICK k \in Job : proj[k] = p /\ status[k] \in ActiveStatus
    BY <1>1 DEF BusyHasJob, Active
  <2>2. QED
    BY <1>1, <2>1 DEF IInv, TypeOK
<1>2. CASE p = proj[j]
  BY <1>2 DEF IInv, TypeOK
<1>3. QED
  BY <1>1, <1>2

\* A new row makes its project busy.
LEMMA NewRowIsBusy ==
    ASSUME IInv, BusyHasJob, NEW j \in Job, NEW p \in Project, NEW a,
           InsertRow(j, p, a),
           \A q \in Project \ {p} : /\ pstatus'[q] = pstatus[q]
                                    /\ archivedAt'[q] = archivedAt[q]
    PROVE  BusyHasJob'
<1> SUFFICES ASSUME NEW q \in Project, pstatus'[q] = "busy", ~archivedAt'[q]
             PROVE  \E k \in Job : proj'[k] = q /\ status'[k] \in ActiveStatus
  BY DEF BusyHasJob, Active
<1>1. CASE q # p
  <2>1. PICK k \in Job : proj[k] = q /\ status[k] \in ActiveStatus
    BY <1>1 DEF BusyHasJob, Active
  <2>2. k # j
    BY <2>1 DEF InsertRow
  <2>3. QED
    BY <2>1, <2>2 DEF IInv, TypeOK, InsertRow
<1>2. CASE q = p
  BY <1>2 DEF IInv, TypeOK, InsertRow
<1>3. QED
  BY <1>1, <1>2

\* A step that ends no row and makes no project busy keeps every promise.
LEMMA ActiveStays ==
    ASSUME IInv, BusyHasJob, UNCHANGED proj,
           \A j \in Job : status[j] \in ActiveStatus => status'[j] \in ActiveStatus,
           \A p \in Project : pstatus'[p] = "busy" /\ ~archivedAt'[p]
                                => pstatus[p] = "busy" /\ ~archivedAt[p]
    PROVE  BusyHasJob'
  BY DEF BusyHasJob, Active, IInv, TypeOK

LEMMA RequestKeepsBusy ==
    ASSUME HandsBack, IInv, BusyInv, NEW r \in Request, RequestNext(r)
    PROVE  BusyHasJob'
<1> USE DEF BusyInv
<1>1. CASE Insert(r)
  <2>1. req[r].proj \in Project
    BY <1>1 DEF Insert, IInv, RequestsHaveRows
  <2>2. PICK j \in Job : \E a : InsertRow(j, req[r].proj, a)
    BY <1>1 DEF Insert
  <2>3. QED
    BY <1>1, <2>1, <2>2, NewRowIsBusy DEF Insert, IInv, TypeOK
<1>2. ASSUME NEW p \in Project, CreateProject(r, p) \/ DispatchDue(r, p)
      PROVE  BusyHasJob'
  <2>1. PICK j \in Job : InsertRow(j, p, 1)
    BY <1>2 DEF CreateProject, DispatchDue
  <2>2. \A q \in Project \ {p} : /\ pstatus'[q] = pstatus[q]
                                 /\ archivedAt'[q] = archivedAt[q]
    BY <1>2 DEF CreateProject, DispatchDue, IInv, TypeOK
  <2>3. QED
    BY <2>1, <2>2, NewRowIsBusy
<1>3. CASE InitDone(r)
  <2>1. /\ req[r].job \in Job
        /\ status[req[r].job] = "queued"
        /\ proj[req[r].job] = req[r].proj
    BY <1>3 DEF InitDone, IInv, RequestsHaveRows, RowExists, CreationUndisturbed,
                RequestsRemember, HoldsRow
  <2>2. UNCHANGED <<status, proj, archivedAt>>
    BY <1>3 DEF InitDone
  <2>3. pstatus' = [pstatus EXCEPT ![req[r].proj] = "busy"]
    BY <1>3 DEF InitDone
  <2>4. QED
    BY <2>1, <2>2, <2>3 DEF BusyHasJob, Active, IInv, TypeOK
<1>4. CASE DispatchFailed(r) \/ CancelQueued(r)
  <2> DEFINE j == req[r].job
  <2>1. j \in Job /\ proj[j] = req[r].proj
    BY <1>4 DEF DispatchFailed, CancelQueued, IInv, RequestsHaveRows, RowExists,
                RequestsRemember, HoldsRow
  <2>2. PICK s \in TerminalStatus : status' = [status EXCEPT ![j] = s]
    BY <1>4 DEF DispatchFailed, CancelQueued, EndJob
  <2>3. UNCHANGED <<proj, archivedAt>>
    BY <1>4 DEF DispatchFailed, CancelQueued
  <2>4. \A p \in Project : p # proj[j] => pstatus'[p] = pstatus[p]
    BY <1>4, <2>1 DEF DispatchFailed, CancelQueued, IInv, TypeOK
  <2>5. pstatus'[proj[j]] # "busy"
    <3>1. proj[j] \in Project
      BY <1>4, <2>1 DEF DispatchFailed, CancelQueued, IInv, RequestsHaveRows
    <3>2. CASE CancelQueued(r)
      BY <2>1, <3>1, <3>2 DEF CancelQueued, IInv, TypeOK
    <3>3. CASE DispatchFailed(r)
      <4>1. /\ req[r].kind # "retest"
            /\ req[r].kind = "schedule" => req[r].prev # "busy"
        BY <3>3 DEF DispatchFailed, RequestsRemember
      <4>2. pstatus' = [pstatus EXCEPT ![req[r].proj] =
                          IF req[r].kind = "schedule" THEN req[r].prev ELSE "failed"]
        BY <3>3, <4>1 DEF DispatchFailed
      <4>3. QED
        BY <2>1, <3>1, <4>1, <4>2 DEF IInv, TypeOK
    <3>4. QED
      BY <1>4, <3>2, <3>3
  <2> HIDE DEF j
  <2>6. QED
    BY <2>1, <2>2, <2>3, <2>4, <2>5, EndHandsBack
<1>5. CASE Archive(r)
  <2>1. req[r].proj \in Project
    BY <1>5 DEF Archive, IInv, RequestsHaveRows
  <2>2. UNCHANGED <<status, proj>>
    BY <1>5 DEF Archive
  <2>3. /\ pstatus' = [pstatus EXCEPT ![req[r].proj] = "archived"]
        /\ archivedAt' = [archivedAt EXCEPT ![req[r].proj] = TRUE]
    BY <1>5 DEF Archive
  <2>4. QED
    BY <2>1, <2>2, <2>3, ActiveStays DEF IInv, TypeOK
<1>6. CASE UNCHANGED <<status, proj, pstatus, archivedAt>>
  BY <1>6, ActiveStays
<1>7. QED
  BY <1>1, <1>2, <1>3, <1>4, <1>5, <1>6
     DEF RequestNext, RequestStep, InsertConflict, InitFailed, Publish, PublishRaises,
         RecordTaskId, RequestDies, CancelQueuedMissed, CancelFlag, BeginAction,
         BeginRetry, BeginCancel, BeginArchive

LEMMA WorkerKeepsBusy ==
    ASSUME IInv, BusyInv, NEW w \in Worker, WorkerNext(w)
    PROVE  BusyHasJob'
<1> USE DEF BusyInv
<1>1. ASSUME NEW m \in queue, NEW d, Claim(w, m, d)
      PROVE  BusyHasJob'
  <2>1. \A j \in Job : status[j] \in ActiveStatus => status'[j] \in ActiveStatus
    BY <1>1 DEF Claim, IInv, TypeOK
  <2>2. UNCHANGED <<proj, pstatus, archivedAt>>
    BY <1>1 DEF Claim, Receive
  <2>3. QED
    BY <2>1, <2>2, ActiveStays
<1>2. ASSUME NEW m \in queue, NEW d,
             RefuseAttempts(w, m, d) \/ RefuseTenant(w, m, d)
      PROVE  BusyHasJob'
  <2>1. CASE UNCHANGED <<status, pstatus>>
    BY <1>2, <2>1, ActiveStays DEF RefuseAttempts, RefuseTenant, Receive
  <2>2. CASE /\ EndJob(m.job, "failed")
             /\ SetUnlessArchived(proj[m.job], "failed")
                \/ SetUnlessArchived(proj[m.job], "ready")
    <3>1. m.job \in Job /\ proj[m.job] \in Project
      BY DEF IInv, QueueHasRows, RowExists, RowsHaveProjects
    <3>2. /\ \A p \in Project : p # proj[m.job] => pstatus'[p] = pstatus[p]
          /\ pstatus'[proj[m.job]] # "busy"
      BY <2>2, <3>1 DEF SetUnlessArchived, IInv, TypeOK
    <3>3. UNCHANGED <<proj, archivedAt>>
      BY <1>2 DEF RefuseAttempts, RefuseTenant, Receive
    <3>4. QED
      BY <2>2, <3>1, <3>2, <3>3, EndHandsBack DEF EndJob
  <2>3. QED
    BY <1>2, <2>1, <2>2 DEF RefuseAttempts, RefuseTenant
<1>3. CASE \/ CommitRefusal(w) \/ CommitDone(w) \/ CommitCanceled(w)
           \/ MarkFailed(w) \/ CompletionLost(w)
  <2> DEFINE j == wmsg[w].job
  <2>1. j \in Job /\ proj[j] \in Project
    BY <1>3 DEF CommitRefusal, CommitDone, CommitCanceled, MarkFailed, CompletionLost,
                IInv, WorkersHaveRows, RowExists, RowsHaveProjects
  <2>2. UNCHANGED <<proj, archivedAt>>
    BY <1>3 DEF CommitRefusal, CommitDone, CommitCanceled, MarkFailed, CompletionLost
  <2>3. CASE UNCHANGED <<status, pstatus>>
    BY <2>2, <2>3, ActiveStays
  <2>4. CASE /\ \E s \in TerminalStatus : EndJob(j, s)
             /\ \/ SetUnlessArchived(proj[j], "ready")
                \/ SetIfVisible(proj[j], "ready")
                \/ pstatus' = [pstatus EXCEPT ![proj[j]] = "failed"]
    <3>1. \A p \in Project : p # proj[j] => pstatus'[p] = pstatus[p]
      BY <2>1, <2>4 DEF SetUnlessArchived, SetIfVisible, IInv, TypeOK
    <3>2. pstatus'[proj[j]] # "busy" \/ archivedAt[proj[j]]
      BY <2>1, <2>4 DEF SetUnlessArchived, SetIfVisible, Visible, IInv, TypeOK
    <3>3. PICK s \in TerminalStatus : status' = [status EXCEPT ![j] = s]
      BY <2>4 DEF EndJob
    <3> HIDE DEF j
    <3>4. QED
      BY <2>1, <2>2, <3>1, <3>2, <3>3, EndHandsBack
  <2>5. QED
    BY <1>3, <2>3, <2>4
       DEF CommitRefusal, CommitDone, CommitCanceled, MarkFailed, CompletionLost
<1>4. CASE UNCHANGED <<status, proj, pstatus, archivedAt>>
  BY <1>4, ActiveStays
<1>5. QED
  BY <1>1, <1>2, <1>3, <1>4
     DEF WorkerNext, WorkerStep, Delivery, IgnoreDelivery, Receive, TakeLock,
         LockTimeout, BodyEnds, EndBody, ReadToComplete, ReadToCancel, AlreadyFinal,
         Acknowledge, Heartbeat, AccountUsage, ReserveGap, Crash, Redeliver

LEMMA SweepKeepsBusy ==
    ASSUME IInv, BusyInv, NEW j \in Job, Sweep(j) \/ GrowStale(j)
    PROVE  BusyHasJob'
<1> USE DEF BusyInv
<1>1. CASE RecoverRefuse(j) \/ Reclaim(j)
  <2>1. proj[j] \in Project
    BY <1>1 DEF RecoverRefuse, Unpublished, Reclaim, Reclaimable, IInv, RowsHaveProjects
  <2>2. PICK s \in TerminalStatus : status' = [status EXCEPT ![j] = s]
    BY <1>1 DEF RecoverRefuse, Reclaim, EndJob
  <2>3. UNCHANGED <<proj, archivedAt>>
    BY <1>1 DEF RecoverRefuse, Reclaim
  <2>4. CASE \/ SetUnlessArchived(proj[j], "ready")
             \/ SetUnlessArchived(proj[j], "failed")
    <3>1. /\ \A p \in Project : p # proj[j] => pstatus'[p] = pstatus[p]
          /\ pstatus'[proj[j]] # "busy"
      BY <2>1, <2>4 DEF SetUnlessArchived, IInv, TypeOK
    <3>2. QED
      BY <2>2, <2>3, <3>1, EndHandsBack
  <2>5. CASE /\ UNCHANGED pstatus
             /\ \E k \in Job \ {j} : proj[k] = proj[j] /\ status[k] \in ActiveStatus
    BY <2>2, <2>3, <2>5, EndHandsBack
  <2>6. QED
    BY <1>1, <2>4, <2>5 DEF RecoverRefuse, Reclaim
<1>2. CASE UNCHANGED <<status, proj, pstatus, archivedAt>>
  BY <1>2, ActiveStays
<1>3. QED
  BY <1>1, <1>2 DEF Sweep, RecoverPublish, RecoverLost, Reconcile, GrowStale

Remembered ==
    MessagesPublished /\ RequestsRemember /\ CreationUndisturbed

\* A request moves on with what it remembers.
MovesTo(r, pc) ==
    /\ \A q \in Request : /\ q # r => req'[q] = req[q]
                          /\ req'[q].kind = req[q].kind
                          /\ req'[q].proj = req[q].proj
                          /\ req'[q].job = req[q].job
                          /\ req'[q].prev = req[q].prev
    /\ req'[r].pc = pc

LEMMA RecordMoves ==
    ASSUME IInv, NEW r \in Request, NEW i,
           req' = [req EXCEPT ![r].id = i, ![r].pc = "record"]
    PROVE  MovesTo(r, "record")
<1> DEFINE s == [[req[r] EXCEPT !.id = i] EXCEPT !.pc = "record"]
<1>1. req \in [Request -> RequestState] /\ req[r] \in RequestState
  BY DEF IInv, TypeOK
<1>2. /\ s.kind = req[r].kind /\ s.proj = req[r].proj /\ s.job = req[r].job
      /\ s.prev = req[r].prev /\ s.pc = "record"
  BY <1>1
<1>3. req' = [req EXCEPT ![r] = s]
  OBVIOUS
<1> HIDE DEF s, RequestState
<1>4. req'[r] = s /\ \A q \in Request : q # r => req'[q] = req[q]
  BY <1>1, <1>3
<1>5. QED
  BY <1>2, <1>4 DEF MovesTo

SendFor(r) == Send(req[r].job)

LEMMA SendRemembers ==
    ASSUME IInv, BusyInv, NEW r \in Request, req[r].pc = "publish",
           NEW pc \in {"record", "dispatchFailed"}, MovesTo(r, pc),
           pc = "dispatchFailed" => req[r].kind # "retest",
           SendFor(r) \/ UNCHANGED mqVars,
           UNCHANGED <<status, proj, taskId, wpc, wmsg>>
    PROVE  Remembered'
<1> DEFINE j == req[r].job
<1>1. j \in Job /\ status[j] # "free" /\ HoldsRow(r)
  BY DEF IInv, RequestsHaveRows, RowExists, HoldsRow
<1>2. /\ \A k \in Job : published[k] # 0 => published'[k] # 0
      /\ \A k \in Job : k # j => published'[k] = published[k]
      /\ \A m \in queue' : m \in queue \/ (m.job = j /\ published'[j] # 0)
  BY <1>1 DEF SendFor, Send, IInv, TypeOK
<1> HIDE DEF j
<1>3. MessagesPublished'
  BY <1>1, <1>2 DEF MessagesPublished, BusyInv, IInv, TypeOK, QueueHasRows,
                    WorkersHaveRows, RowExists, Working
<1>4. RequestsRemember'
  BY DEF RequestsRemember, BusyInv, MovesTo, HoldsRow
<1>5. CreationUndisturbed'
  <2>1. \A q \in Request : req[q].pc = "init" => req[q].job \in Job /\ req[q].job # j
    BY <1>1 DEF BusyInv, CreationUndisturbed, IInv, RequestsHaveRows, RowExists, j
  <2>2. QED
    BY <1>1, <1>2, <2>1 DEF BusyInv, CreationUndisturbed, MovesTo, HoldsRow
<1>6. QED
  BY <1>3, <1>4, <1>5 DEF Remembered

LEMMA RequestRemembers ==
    ASSUME HandsBack, IInv, BusyInv, NEW r \in Request, RequestNext(r)
    PROVE  Remembered'
<1> USE ConstantsAssumption DEF HandsBack, IInv, TypeOK, RowsHaveProjects, QueueHasRows,
        WorkersHaveRows, RequestsHaveRows, RowExists, BusyInv, Remembered,
        MessagesPublished, RequestsRemember, CreationUndisturbed, HoldsRow, Working
<1>1. CASE Insert(r)
  BY <1>1 DEF Insert, InsertRow
<1>2. CASE InsertConflict(r)
  BY <1>2 DEF InsertConflict
<1>3. CASE InitDone(r)
  BY <1>3 DEF InitDone, Goto
<1>4. CASE InitFailed(r)
  BY <1>4 DEF InitFailed, Goto
<1>5. CASE Publish(r)
  <2>1. SendFor(r)
    BY <1>5 DEF Publish, SendFor
  <2>2. PICK i : req' = [req EXCEPT ![r].id = i, ![r].pc = "record"]
    BY <1>5 DEF Publish
  <2>3. MovesTo(r, "record")
    BY <2>2, RecordMoves
  <2>4. req[r].pc = "publish" /\ UNCHANGED <<status, proj, taskId, wpc, wmsg>>
    BY <1>5 DEF Publish
  <2> HIDE DEF IInv, BusyInv, Remembered
  <2>5. QED
    BY <2>1, <2>3, <2>4, SendRemembers
<1>6. CASE PublishRaises(r)
  <2>1. SendFor(r) \/ UNCHANGED mqVars
    BY <1>6 DEF PublishRaises, SendFor
  <2>2. MovesTo(r, "dispatchFailed")
    BY <1>6, GotoMoves DEF PublishRaises, MovesTo
  <2>3. req[r].pc = "publish" /\ UNCHANGED <<status, proj, taskId, wpc, wmsg>>
    BY <1>6 DEF PublishRaises
  <2>4. req[r].kind # "retest"
    BY <1>6 DEF PublishRaises, Fault
  <2> HIDE DEF IInv, BusyInv, Remembered
  <2>5. QED
    BY <2>1, <2>2, <2>3, <2>4, SendRemembers
<1>7. CASE RecordTaskId(r)
  <2> DEFINE j == req[r].job
  <2>1. /\ j \in Job /\ status[j] # "free" /\ HoldsRow(r)
        /\ taskId' = [taskId EXCEPT ![j] = req[r].id]
        /\ req' = [req EXCEPT ![r] = NoRequest]
        /\ UNCHANGED <<status, proj, queue, published, wpc, wmsg>>
    BY <1>7 DEF RecordTaskId
  <2>2. \A q \in Request : q # r => req'[q] = req[q]
    BY <2>1
  <2>3. req'[r].pc = "idle"
    BY <2>1
  <2>4. MessagesPublished' /\ RequestsRemember'
    BY <2>1, <2>2, <2>3
  <2>5. CreationUndisturbed'
    <3>1. \A q \in Request : req[q].pc = "init" /\ q # r => req[q].job # j
      BY <2>1
    <3>2. \A q \in Request : req[q].pc = "init" /\ q # r
                                => taskId'[req[q].job] = taskId[req[q].job]
      BY <2>1, <3>1
    <3> HIDE DEF j
    <3>3. QED
      BY <2>1, <2>2, <2>3, <3>2
  <2>6. QED
    BY <2>4, <2>5
<1>8. CASE DispatchFailed(r)
  BY <1>8 DEF DispatchFailed, EndJob
<1>9. CASE RequestDies(r)
  BY <1>9 DEF RequestDies
<1>10. CASE CancelQueued(r)
  BY <1>10 DEF CancelQueued, EndJob
<1>11. CASE CancelQueuedMissed(r)
  <2>1. UNCHANGED <<status, proj, taskId, queue, published, wpc, wmsg>>
    BY <1>11 DEF CancelQueuedMissed
  <2>2. CASE Goto(r, "cancelFlag")
    <3>1. MovesTo(r, "cancelFlag") /\ req[r].pc = "cancelQueued"
      BY <1>11, <2>2, GotoMoves DEF CancelQueuedMissed, MovesTo
    <3>2. QED
      BY <2>1, <3>1 DEF MovesTo
  <2>3. CASE Leave(r)
    BY <2>1, <2>3
  <2>4. QED
    BY <1>11, <2>2, <2>3 DEF CancelQueuedMissed
<1>12. CASE CancelFlag(r)
  BY <1>12 DEF CancelFlag
<1>13. CASE Archive(r)
  BY <1>13 DEF Archive
<1>14. ASSUME NEW p \in Project, NEW k \in {"action", "retest"}, BeginAction(r, p, k)
       PROVE  Remembered'
  BY <1>14 DEF BeginAction, Enter
<1>15. ASSUME NEW j \in Job, BeginRetry(r, j)
       PROVE  Remembered'
  BY <1>15 DEF BeginRetry, Enter
<1>16. ASSUME NEW j \in Job, BeginCancel(r, j)
       PROVE  Remembered'
  BY <1>16 DEF BeginCancel, Enter
<1>17. ASSUME NEW p \in Project, BeginArchive(r, p)
       PROVE  Remembered'
  BY <1>17 DEF BeginArchive, Enter
<1>18. ASSUME NEW p \in Project, CreateProject(r, p)
       PROVE  Remembered'
  BY <1>18 DEF CreateProject, InsertRow, Enter
<1>19. ASSUME NEW p \in Project, DispatchDue(r, p)
       PROVE  Remembered'
  <2>1. pstatus[p] # "busy"
    BY <1>19 DEF DispatchDue, Visible, BusyHasJob
  <2>2. QED
    BY <1>19, <2>1 DEF DispatchDue, InsertRow, Enter
<1> HIDE DEF IInv, BusyInv, Remembered
<1>20. QED
  BY <1>1, <1>2, <1>3, <1>4, <1>5, <1>6, <1>7, <1>8, <1>9, <1>10, <1>11, <1>12,
     <1>13, <1>14, <1>15, <1>16, <1>17, <1>18, <1>19
     DEF RequestNext, RequestStep

LEMMA WorkerRemembers ==
    ASSUME HandsBack, IInv, BusyInv, NEW w \in Worker, WorkerNext(w)
    PROVE  Remembered'
<1> USE ConstantsAssumption DEF HandsBack, IInv, TypeOK, RowsHaveProjects, QueueHasRows,
        WorkersHaveRows, RequestsHaveRows, RowExists, BusyInv, Remembered,
        MessagesPublished, RequestsRemember, CreationUndisturbed, HoldsRow, Working
<1>1. ASSUME NEW m \in queue, NEW d,
             \/ IgnoreDelivery(w, m, d) \/ RefuseAttempts(w, m, d)
             \/ RefuseTenant(w, m, d) \/ Claim(w, m, d)
      PROVE  Remembered'
  <2>1. CASE IgnoreDelivery(w, m, d)
    BY <2>1 DEF IgnoreDelivery, Receive
  <2>2. CASE RefuseAttempts(w, m, d)
    BY <2>2 DEF RefuseAttempts, Receive, EndJob
  <2>3. CASE RefuseTenant(w, m, d)
    BY <2>3 DEF RefuseTenant, Receive, EndJob
  <2>4. CASE Claim(w, m, d)
    BY <2>4 DEF Claim, Receive
  <2>5. QED
    BY <1>1, <2>1, <2>2, <2>3, <2>4
<1>2. CASE \/ CommitRefusal(w) \/ CommitDone(w) \/ CommitCanceled(w)
           \/ MarkFailed(w) \/ CompletionLost(w)
  <2>1. /\ UNCHANGED <<proj, taskId, req, queue, published, wmsg>>
        /\ wpc' = [wpc EXCEPT ![w] = "ending"]
        /\ Working(w)
    BY <1>2 DEF CommitRefusal, CommitDone, CommitCanceled, MarkFailed, CompletionLost
  <2>2. CASE UNCHANGED status
    BY <2>1, <2>2
  <2>3. CASE \E s \in TerminalStatus : EndJob(wmsg[w].job, s)
    BY <2>1, <2>3 DEF EndJob
  <2>4. QED
    BY <1>2, <2>2, <2>3
       DEF CommitRefusal, CommitDone, CommitCanceled, MarkFailed, CompletionLost
<1>3. CASE Crash(w)
  BY <1>3 DEF Crash
<1>4. CASE Redeliver(w)
  BY <1>4 DEF Redeliver
<1>5. CASE Acknowledge(w)
  BY <1>5 DEF Acknowledge
<1>6. CASE \/ TakeLock(w) \/ LockTimeout(w) \/ BodyEnds(w) \/ ReadToComplete(w)
           \/ ReadToCancel(w) \/ AlreadyFinal(w) \/ Heartbeat(w) \/ AccountUsage(w)
           \/ ReserveGap(w)
  <2>1. UNCHANGED <<status, proj, taskId, req, queue, published, wmsg>>
    BY <1>6 DEF TakeLock, LockTimeout, BodyEnds, EndBody, ReadToComplete, ReadToCancel,
                AlreadyFinal, Heartbeat, AccountUsage, ReserveGap
  <2>2. \A v \in Worker : wpc'[v] # "idle" => wpc[v] # "idle"
    BY <1>6 DEF TakeLock, LockTimeout, BodyEnds, EndBody, ReadToComplete, ReadToCancel,
                AlreadyFinal, Heartbeat, AccountUsage, ReserveGap
  <2>3. QED
    BY <2>1, <2>2
<1> HIDE DEF IInv, BusyInv, Remembered
<1>7. QED
  BY <1>1, <1>2, <1>3, <1>4, <1>5, <1>6 DEF WorkerNext, WorkerStep, Delivery

LEMMA StepKeepsBusyInv ==
    ASSUME HandsBack, IInv, BusyInv, [Next]_vars
    PROVE  BusyInv'
<1>1. ASSUME NEW j \in Job, Sweep(j) \/ GrowStale(j)
      PROVE  Remembered'
  <2> USE DEF HandsBack, IInv, TypeOK, RowsHaveProjects, QueueHasRows,
          WorkersHaveRows, RequestsHaveRows, RowExists, BusyInv, Remembered,
          MessagesPublished, RequestsRemember, CreationUndisturbed, HoldsRow, Working
  <2>1. CASE RecoverPublish(j)
    BY <2>1 DEF RecoverPublish, Unpublished, Send, Idle
  <2>2. CASE RecoverLost(j)
    BY <2>2 DEF RecoverLost, Unpublished, Send, Idle
  <2>3. CASE RecoverRefuse(j)
    BY <2>3 DEF RecoverRefuse, Unpublished, EndJob, Idle
  <2>4. CASE Reclaim(j)
    BY <2>4 DEF Reclaim, Reclaimable, EndJob
  <2>5. CASE Reconcile(j) \/ GrowStale(j)
    BY <2>5 DEF Reconcile, GrowStale
  <2>6. QED
    BY <1>1, <2>1, <2>2, <2>3, <2>4, <2>5 DEF Sweep
<1>2. CASE \/ \E p \in Project : LockExpires(p)
           \/ \E m \in queue : LoseMessage(m)
           \/ \E t \in {"active", "unpaid", "disabled"} : ChangeTenant(t)
           \/ UNCHANGED vars
  <2>1. /\ UNCHANGED <<status, proj, taskId, published, wpc, wmsg, req,
                       pstatus, archivedAt>>
        /\ queue' \subseteq queue
    BY <1>2 DEF LockExpires, LoseMessage, ChangeTenant, vars
  <2>2. Remembered'
    BY <2>1 DEF Remembered, BusyInv, MessagesPublished, RequestsRemember,
                CreationUndisturbed, HoldsRow, Working
  <2>3. BusyHasJob'
    BY <2>1, ActiveStays DEF BusyInv
  <2>4. QED
    BY <2>2, <2>3 DEF Remembered, BusyInv
<1>3. QED
  BY <1>1, <1>2, RequestKeepsBusy, RequestRemembers, WorkerKeepsBusy, WorkerRemembers,
     SweepKeepsBusy
     DEF Next, BusyInv, Remembered

\* Whatever ends a job, a worker, a sweep, a cancel or a dispatch that failed,
\* hands the project back; only an active job keeps it in a working status.
THEOREM ProjectsHandedBack ==
    ASSUME HandsBack PROVE Spec => []BusyHasJob
<1>1. IInv /\ BusyInv /\ [Next]_vars => BusyInv'
  BY StepKeepsBusyInv
<1>2. BusyInv => BusyHasJob
  BY DEF BusyInv
<1>3. QED
  BY <1>1, <1>2, InitBusyInv, IInvHolds, PTL DEF Spec

=============================================================================
