------------------------------- MODULE LocalJobs -------------------------------
(***************************************************************************)
(* The engine's own jobs, as its local dashboard starts them for one       *)
(* project: a claim file that is created exclusively, one record file per  *)
(* job, a process of its own session, a thread that waits for it, requests *)
(* to stop it and the sweep of the records whose process is gone           *)
(* (engine/scripts/jobs.py, engine/scripts/dashboard.py).                  *)
(*                                                                         *)
(* Several dashboards may serve the same directory, and one that ends      *)
(* leaves the processes it started behind.  A claim or a record is young   *)
(* for the 60 s that its modification time grants it.                      *)
(***************************************************************************)
EXTENDS Naturals, FiniteSets

CONSTANTS
    Servers,      \* the dashboards
    LocalStarts,  \* bound: how many identifiers starts draw
    Troubles      \* bound: sets of how many requests to stop there are, how many starts
                  \* that fail, and how many dashboards that end without notice

ASSUME LocalJobsAssumption ==
    /\ IsFiniteSet(Servers) /\ LocalStarts \in Nat
    /\ Troubles \subseteq [stops : Nat, fails : Nat, ends : Nat]

VARIABLES
    claim,     \* claims/<slug>.json: the job that it names
    fresh,     \* the claim, and the records without a process, that are young
    record,    \* <job>.json
    process,   \* the process of a job, with how it ended
    childOf,   \* the dashboard whose child it is
    up,        \* the dashboards that run
    starter,   \* per dashboard: the start it is at
    waiter,    \* per job: the thread that waits for its process
    stopper,   \* per dashboard: the stop it is at
    reaper,    \* the sweep under way (bound: one at a time)
    troubles   \* how much trouble is left

localVars == <<claim, fresh, record, process, childOf, up, starter, waiter, stopper, reaper,
               troubles>>

LocalJob == 1 .. LocalStarts
NoClaim == 0
NoJob == 0
NoServer == "no server"
NoRecord == [status |-> "none", pid |-> FALSE, stopping |-> FALSE]
Terminal == {"done", "failed", "stopped", "interrupted"}
Idle == [at |-> "idle", job |-> NoJob, tries |-> 0, seen |-> NoRecord]
NoSweep == [server |-> NoServer, at |-> "idle", job |-> NoJob, seen |-> NoRecord]

LocalInit ==
    /\ claim = NoClaim /\ fresh = {}
    /\ record = [j \in LocalJob |-> NoRecord]
    /\ process = [j \in LocalJob |-> "none"]
    /\ childOf = [j \in LocalJob |-> NoServer]
    /\ up = Servers
    /\ starter = [s \in Servers |-> Idle]
    /\ stopper = [s \in Servers |-> Idle]
    /\ reaper = NoSweep
    /\ waiter = [j \in LocalJob |-> "none"]
    /\ troubles \in Troubles

Unused == {j \in LocalJob : record[j] = NoRecord /\ claim # j /\ process[j] = "none"
                            /\ \A s \in Servers : starter[s].job # j}

\* An identifier is drawn; which one makes no difference.
Drawn == CHOOSE j \in Unused : \A k \in Unused : j <= k

\* The process answers a signal 0 until its parent, or init, has waited for it.
Exists(j) == process[j] \in {"alive", "ended", "killed"}

-----------------------------------------------------------------------------
(* start().  Its claim is acquired under the dashboard's own lock.         *)

\* A claim for a new identifier is created when there is none. (It is written in
\* two steps, and is as good as a claim without a record in between.)
Opens(s, j) ==
    /\ IF claim = NoClaim
       THEN /\ claim' = j /\ fresh' = fresh \cup {NoClaim}
            /\ starter' = [starter EXCEPT ![s] = [@ EXCEPT !.at = "record", !.job = j]]
       ELSE /\ starter' = [starter EXCEPT ![s] = [@ EXCEPT !.at = "look", !.job = j]]
            /\ UNCHANGED <<claim, fresh>>
    /\ UNCHANGED <<record, process, childOf, up, waiter, stopper, reaper, troubles>>

StartBegins(s) == s \in up /\ starter[s].at = "idle" /\ Unused # {} /\ Opens(s, Drawn)
OpensAgain(s) == starter[s].at = "open" /\ Opens(s, starter[s].job)

\* Another's claim holds while its job runs, or may be about to.
Holds == claim # NoClaim /\ \/ record[claim].status = "running"
                            \/ record[claim] = NoRecord /\ NoClaim \in fresh

Looks(s) ==
    /\ starter[s].at = "look"
    /\ starter' = [starter EXCEPT ![s] = IF Holds THEN Idle ELSE [@ EXCEPT !.at = "unlink"]]
    /\ UNCHANGED <<claim, fresh, record, process, childOf, up, waiter, stopper, reaper, troubles>>

\* A claim that does not hold is removed, and the claim is tried once more.
Unlinks(s) ==
    /\ starter[s].at = "unlink"
    /\ claim' = NoClaim
    /\ starter' = [starter EXCEPT ![s] = IF @.tries = 1 THEN Idle
                                         ELSE [@ EXCEPT !.at = "open", !.tries = 1]]
    /\ UNCHANGED <<fresh, record, process, childOf, up, waiter, stopper, reaper, troubles>>

\* The record says that the job runs before there is a process, then the process
\* is started, and its identifier is recorded. (The age of a claim no longer
\* counts once there is a record, nor the record's once it has a process.)
Records(s) ==
    LET j == starter[s].job IN
    /\ starter[s].at = "record"
    /\ record' = [record EXCEPT ![j] = [NoRecord EXCEPT !.status = "running"]]
    /\ fresh' = {j} \cup (IF claim = j THEN fresh \ {NoClaim} ELSE fresh)
    /\ starter' = [starter EXCEPT ![s].at = "spawn"]
    /\ UNCHANGED <<claim, process, childOf, up, waiter, stopper, reaper, troubles>>

Spawns(s) ==
    LET j == starter[s].job IN
    /\ starter[s].at = "spawn"
    /\ process' = [process EXCEPT ![j] = "alive"]
    /\ childOf' = [childOf EXCEPT ![j] = s]
    /\ starter' = [starter EXCEPT ![s].at = "pid"]
    /\ UNCHANGED <<claim, fresh, record, up, waiter, stopper, reaper, troubles>>

Identifies(s) ==
    LET j == starter[s].job IN
    /\ starter[s].at = "pid"
    /\ record' = [record EXCEPT ![j] = [NoRecord EXCEPT !.status = "running", !.pid = TRUE]]
    /\ starter' = [starter EXCEPT ![s] = Idle]
    /\ waiter' = [waiter EXCEPT ![j] = "wait"]
    /\ fresh' = fresh \ {j}
    /\ UNCHANGED <<claim, process, childOf, up, stopper, reaper, troubles>>

\* Any of the three may fail: what was started is killed and waited for, the
\* record says so, and the claim is given back.
StartFails(s) ==
    LET j == starter[s].job
        pid == starter[s].at = "pid"
    IN  /\ starter[s].at \in {"record", "spawn", "pid"} /\ troubles.fails > 0
        /\ troubles' = [troubles EXCEPT !.fails = @ - 1]
        /\ process' = [process EXCEPT ![j] = IF pid THEN "gone" ELSE @]
        /\ record' = [record EXCEPT ![j] = [NoRecord EXCEPT !.status = "failed", !.pid = pid]]
        /\ starter' = [starter EXCEPT ![s].at = "release"]
        /\ UNCHANGED <<claim, fresh, childOf, up, waiter, stopper, reaper>>

-----------------------------------------------------------------------------
(* _release_claim() reads the claim, then removes it when it is its job's.  *)

AfterLook(job) == IF claim = job THEN "unlink" ELSE "idle"

StarterReleases(s) ==
    /\ starter[s].at = "release"
    /\ starter' = [starter EXCEPT ![s] = IF AfterLook(@.job) = "idle" THEN Idle
                                         ELSE [@ EXCEPT !.at = "free"]]
    /\ UNCHANGED <<claim, fresh, record, process, childOf, up, waiter, stopper, reaper, troubles>>

StarterFrees(s) ==
    /\ starter[s].at = "free"
    /\ claim' = NoClaim
    /\ starter' = [starter EXCEPT ![s] = Idle]
    /\ UNCHANGED <<fresh, record, process, childOf, up, waiter, stopper, reaper, troubles>>

-----------------------------------------------------------------------------
(* The process, and the thread that waits for it.                          *)

ProcessEnds(j) ==
    /\ process[j] = "alive"
    /\ process' = [process EXCEPT ![j] = IF childOf[j] \in up THEN "ended" ELSE "gone"]
    /\ UNCHANGED <<claim, fresh, record, childOf, up, starter, waiter, stopper, reaper, troubles>>

\* How a job ended. (That it "failed" stands in "done" by its exit code.)
HowEnded(j, code) == IF record[j].stopping \/ code # "ended" THEN "stopped" ELSE "done"

Waits(j) ==
    /\ waiter[j] = "wait" /\ process[j] \in {"ended", "killed", "gone"}
    /\ waiter' = [waiter EXCEPT ![j] = process[j]]
    /\ process' = [process EXCEPT ![j] = "gone"]
    /\ UNCHANGED <<claim, fresh, record, childOf, up, starter, stopper, reaper, troubles>>

\* (A stop that waited first leaves a signal's code to read.)
Settles(j) ==
    /\ waiter[j] \in {"ended", "killed", "gone"}
    /\ record' = [record EXCEPT ![j].status = HowEnded(j, waiter[j])]
    /\ waiter' = [waiter EXCEPT ![j] = "release"]
    /\ UNCHANGED <<claim, fresh, process, childOf, up, starter, stopper, reaper, troubles>>

WaiterReleases(j) ==
    /\ waiter[j] = "release"
    /\ waiter' = [waiter EXCEPT ![j] = IF AfterLook(j) = "idle" THEN "none" ELSE "free"]
    /\ UNCHANGED <<claim, fresh, record, process, childOf, up, starter, stopper, reaper, troubles>>

WaiterFrees(j) ==
    /\ waiter[j] = "free"
    /\ claim' = NoClaim
    /\ waiter' = [waiter EXCEPT ![j] = "none"]
    /\ UNCHANGED <<fresh, record, process, childOf, up, starter, stopper, reaper, troubles>>

-----------------------------------------------------------------------------
(* stop(), in the dashboard whose child the process is, and in another.     *)

Child(s, j) == childOf[j] = s /\ waiter[j] \in {"wait", "ended", "killed", "gone", "release"}

\* The record is read,
StopBegins(s, j) ==
    /\ s \in up /\ stopper[s].at = "idle" /\ troubles.stops > 0
    /\ record[j].status = "running"
    /\ (Child(s, j) \/ (record[j].pid /\ Exists(j)))
    /\ troubles' = [troubles EXCEPT !.stops = @ - 1]
    /\ stopper' = [stopper EXCEPT ![s] = [Idle EXCEPT !.at = IF Child(s, j) THEN "mark" ELSE "kill",
                                                      !.job = j, !.seen = record[j]]]
    /\ UNCHANGED <<claim, fresh, record, process, childOf, up, starter, waiter, reaper>>

\* and written with the request, by the parent only,
StopMarks(s) ==
    LET j == stopper[s].job IN
    /\ stopper[s].at = "mark"
    /\ record' = [record EXCEPT ![j] = [stopper[s].seen EXCEPT !.stopping = TRUE]]
    /\ stopper' = [stopper EXCEPT ![s].at = "kill"]
    /\ UNCHANGED <<claim, fresh, process, childOf, up, starter, waiter, reaper, troubles>>

\* and the process is told to end, and killed when it does not.
StopKills(s) ==
    LET j == stopper[s].job IN
    /\ stopper[s].at = "kill"
    /\ process' = [process EXCEPT ![j] = IF @ # "alive" THEN @
                                          ELSE IF childOf[j] \in up THEN "killed" ELSE "gone"]
    /\ stopper' = [stopper EXCEPT ![s].at = "wait"]
    /\ UNCHANGED <<claim, fresh, record, childOf, up, starter, waiter, reaper, troubles>>

\* The parent waits for it, and settles the record unless that was done.
StopWaits(s) ==
    LET j == stopper[s].job IN
    /\ stopper[s].at = "wait" /\ childOf[j] = s
    /\ process' = [process EXCEPT ![j] = "gone"]
    /\ stopper' = [stopper EXCEPT ![s].at = "settle"]
    /\ UNCHANGED <<claim, fresh, record, childOf, up, starter, waiter, reaper, troubles>>

StopSettles(s) ==
    LET j == stopper[s].job IN
    /\ stopper[s].at = "settle"
    /\ IF record[j].status = "running"
       THEN /\ record' = [record EXCEPT ![j].status = "stopped"]
            /\ stopper' = [stopper EXCEPT ![s].at = "release"]
       ELSE /\ stopper' = [stopper EXCEPT ![s] = Idle]
            /\ UNCHANGED record
    /\ UNCHANGED <<claim, fresh, process, childOf, up, starter, waiter, reaper, troubles>>

\* Another dashboard waits until the process is gone, and writes what it read,
StopOverwrites(s) ==
    LET j == stopper[s].job IN
    /\ stopper[s].at = "wait" /\ childOf[j] # s /\ ~Exists(j)
    /\ record' = [record EXCEPT ![j] = [stopper[s].seen EXCEPT !.status = "stopped"]]
    /\ stopper' = [stopper EXCEPT ![s].at = "release"]
    /\ UNCHANGED <<claim, fresh, process, childOf, up, starter, waiter, reaper, troubles>>

\* or gives up.
StopGivesUp(s) ==
    /\ stopper[s].at = "wait" /\ childOf[stopper[s].job] # s /\ Exists(stopper[s].job)
    /\ stopper' = [stopper EXCEPT ![s] = Idle]
    /\ UNCHANGED <<claim, fresh, record, process, childOf, up, starter, waiter, reaper, troubles>>

StopReleases(s) ==
    /\ stopper[s].at = "release"
    /\ stopper' = [stopper EXCEPT ![s] = IF AfterLook(@.job) = "idle" THEN Idle
                                         ELSE [@ EXCEPT !.at = "free"]]
    /\ UNCHANGED <<claim, fresh, record, process, childOf, up, starter, waiter, reaper, troubles>>

StopFrees(s) ==
    /\ stopper[s].at = "free"
    /\ claim' = NoClaim
    /\ stopper' = [stopper EXCEPT ![s] = Idle]
    /\ UNCHANGED <<fresh, record, process, childOf, up, starter, waiter, reaper, troubles>>

-----------------------------------------------------------------------------
(* reap_orphans(), when a dashboard starts and every half hour.             *)

\* A plausible bug: a record without a process is never swept.
SweptByProcess(j) == record[j].pid /\ ~Exists(j)

\* A record that runs is swept when its process is gone, or when it is old and
\* has none.
Swept(j) == IF record[j].pid THEN ~Exists(j) ELSE j \notin fresh

ReapBegins(s, j) ==
    /\ s \in up /\ reaper.at = "idle"
    /\ record[j].status = "running" /\ Swept(j)
    /\ reaper' = [server |-> s, at |-> "write", job |-> j, seen |-> record[j]]
    /\ UNCHANGED <<claim, fresh, record, process, childOf, up, starter, waiter, stopper, troubles>>

ReapWrites ==
    /\ reaper.at = "write"
    /\ record' = [record EXCEPT ![reaper.job] = [reaper.seen EXCEPT !.status = "interrupted"]]
    /\ reaper' = [reaper EXCEPT !.at = "release"]
    /\ UNCHANGED <<claim, fresh, process, childOf, up, starter, waiter, stopper, troubles>>

ReapReleases ==
    /\ reaper.at = "release"
    /\ reaper' = IF AfterLook(reaper.job) = "idle" THEN NoSweep ELSE [reaper EXCEPT !.at = "free"]
    /\ UNCHANGED <<claim, fresh, record, process, childOf, up, starter, waiter, stopper, troubles>>

ReapFrees ==
    /\ reaper.at = "free"
    /\ claim' = NoClaim
    /\ reaper' = NoSweep
    /\ UNCHANGED <<fresh, record, process, childOf, up, starter, waiter, stopper, troubles>>

-----------------------------------------------------------------------------
(* Time, and dashboards that end and are started again.                     *)

\* A minute passes: longer than any start takes from its claim to its process.
Ages ==
    /\ fresh # {}
    /\ \A s \in Servers : starter[s].at \notin {"record", "spawn", "pid"}
    /\ fresh' = {}
    /\ UNCHANGED <<claim, record, process, childOf, up, starter, waiter, stopper, reaper, troubles>>

\* The threads of a dashboard end with it, and its children go to init.
ServerEnds(s) ==
    /\ s \in up /\ troubles.ends > 0
    /\ troubles' = [troubles EXCEPT !.ends = @ - 1]
    /\ up' = up \ {s}
    /\ starter' = [starter EXCEPT ![s] = Idle]
    /\ stopper' = [stopper EXCEPT ![s] = Idle]
    /\ reaper' = IF reaper.server = s THEN NoSweep ELSE reaper
    /\ waiter' = [j \in LocalJob |-> IF childOf[j] = s THEN "none" ELSE waiter[j]]
    /\ process' = [j \in LocalJob |-> IF childOf[j] = s /\ Exists(j) /\ process[j] # "alive"
                                      THEN "gone" ELSE process[j]]
    /\ UNCHANGED <<claim, fresh, record, childOf>>

ServerStarts(s) ==
    /\ s \notin up
    /\ up' = up \cup {s}
    /\ childOf' = [j \in LocalJob |-> IF childOf[j] = s THEN NoServer ELSE childOf[j]]
    /\ UNCHANGED <<claim, fresh, record, process, starter, waiter, stopper, reaper, troubles>>

StartSteps(s) ==
    OpensAgain(s) \/ Looks(s) \/ Unlinks(s) \/ Records(s) \/ Spawns(s) \/ Identifies(s)
    \/ StarterReleases(s) \/ StarterFrees(s)

WaitSteps(j) == Waits(j) \/ Settles(j) \/ WaiterReleases(j) \/ WaiterFrees(j)

StopSteps(s) ==
    StopMarks(s) \/ StopKills(s) \/ StopWaits(s) \/ StopSettles(s) \/ StopOverwrites(s)
    \/ StopGivesUp(s) \/ StopReleases(s) \/ StopFrees(s)

ReapSteps == ReapWrites \/ ReapReleases \/ ReapFrees

\* What goes on by itself besides the starts: the threads that stop, wait and
\* sweep, a dashboard that is started again, and time.
ProceedsLocally ==
    \/ \E s \in Servers : StopSteps(s) \/ ServerStarts(s)
    \/ \E j \in LocalJob : WaitSteps(j) \/ \E s \in Servers : ReapBegins(s, j)
    \/ ReapSteps
    \/ Ages

LocalNext ==
    \/ ProceedsLocally
    \/ \E s \in Servers : StartBegins(s) \/ StartSteps(s) \/ StartFails(s) \/ ServerEnds(s)
    \/ \E j \in LocalJob : ProcessEnds(j) \/ \E s \in Servers : StopBegins(s, j)

LocalSpec == LocalInit /\ [][LocalNext]_localVars

-----------------------------------------------------------------------------
(* Properties.                                                             *)

Pcs == {"idle", "open", "look", "unlink", "record", "spawn", "pid", "release", "free", "mark",
        "kill", "wait", "settle", "write"}

LocalTypeOK ==
    /\ claim \in LocalJob \cup {NoClaim} /\ fresh \subseteq LocalJob \cup {NoClaim}
    /\ \A j \in LocalJob :
         /\ record[j].status \in Terminal \cup {"none", "running"} /\ record[j].pid \in BOOLEAN
         /\ process[j] \in {"none", "alive", "ended", "killed", "gone"}
         /\ waiter[j] \in {"none", "wait", "ended", "killed", "gone", "release", "free"}
         /\ childOf[j] \in Servers \cup {NoServer}
    /\ up \subseteq Servers
    /\ \A s \in Servers : {starter[s].at, stopper[s].at, reaper.at} \subseteq Pcs
    /\ troubles \in [stops : Nat, fails : Nat, ends : Nat]

\* A record that has its process's identifier does not say that the job ended
\* while the process lives, whoever wrote it last: waiter, stop, sweep or start.
EndedIsDead ==
    \A j \in LocalJob : record[j].status \in Terminal /\ record[j].pid => process[j] # "alive"

\* No record says for ever that its job runs when its process is gone, or when
\* none is started: again and again every record that says so is right.
RecordsSettle ==
    []<>(\A j \in LocalJob : record[j].status = "running" => process[j] = "alive")

\* A record and the process it is about agree in the end, and never the wrong
\* way: what ended is dead, and what is dead is said to have ended. The variables
\* keep to their values meanwhile.
LocalRecordsHold == [](LocalTypeOK /\ EndedIsDead) /\ RecordsSettle

\* "A cross-process claim allows only one active job per project."
OneActive == Cardinality({j \in LocalJob : process[j] = "alive"}) <= 1
=============================================================================
