---------------------------- MODULE ProjectLock -----------------------------
(***************************************************************************)
(* The distributed lock of one project (api/adapters/locking.py) and the   *)
(* engine process that works under it (api/worker/job_process.py).         *)
(*                                                                         *)
(* The lock is a Redis key with a time to live. The holder's renewal       *)
(* thread extends it; when an extension is rejected, or three in a row     *)
(* fail, the thread raises a flag and stops, and the watcher thread of the *)
(* engine process kills the engine. Nothing stops the body itself: it runs *)
(* on, and project_lock raises when the body ends.                         *)
(*                                                                         *)
(* Time is counted in renewal intervals. A tick may come at any moment, so *)
(* a thread may be arbitrarily slow (a paused container, a starved event). *)
(* A command to a Redis that does not answer may still have been executed. *)
(***************************************************************************)
EXTENDS Naturals

CONSTANTS
    Process,      \* worker tasks and API requests that use the project
    None,         \* no holder
    TTL,          \* PROJECT_LOCK_TTL_SECONDS, in renewal intervals
    Wait,         \* PROJECT_LOCK_WAIT_SECONDS, in renewal intervals
    MaxFailures   \* renewals that may fail in a row

ASSUME LockAssumption ==
    /\ TTL \in Nat \ {0}
    /\ Wait \in Nat
    /\ MaxFailures \in Nat \ {0}
    /\ None \notin Process

VARIABLES
    owner,     \* whose token the Redis key holds, or None
    left,      \* what is left of its time to live
    redis,     \* does Redis answer?
    stage,     \* where a process stands in project_lock
    patience,  \* what is left of the blocking timeout
    due,       \* intervals until the renewal thread wakes
    failures,  \* transient_failures of the renewal thread
    renewing,  \* is the renewal thread alive?
    lost,      \* the loss flag
    failed,    \* body_failed
    outcome,   \* did the last section end with an exception?
    engine     \* the engine process of a worker

keyVars  == <<owner, left>>
timeVars == <<patience, due>>
flagVars == <<failures, renewing, lost>>
vars == <<keyVars, timeVars, flagVars, redis, stage, failed, outcome,
          engine>>

Stage   == {"out", "waiting", "body", "leaving"}
Outcome == {"none", "ok", "failed"}

\* An engine is a child that first starts up (until prctl has run it
\* survives its parent), then works; "orphan" is one whose parent is gone.
Engine  == {"none", "starting", "working", "orphan"}

TypeOK ==
    /\ owner \in Process \cup {None}
    /\ left \in 0 .. TTL
    /\ redis \in BOOLEAN
    /\ stage \in [Process -> Stage]
    /\ patience \in [Process -> 0 .. Wait]
    /\ due \in [Process -> 0 .. 1]
    /\ failures \in [Process -> 0 .. MaxFailures]
    /\ renewing \in [Process -> BOOLEAN]
    /\ lost \in [Process -> BOOLEAN]
    /\ failed \in [Process -> BOOLEAN]
    /\ outcome \in [Process -> Outcome]
    /\ engine \in [Process -> Engine]

Init ==
    /\ owner = None
    /\ left = 0
    /\ redis = TRUE
    /\ stage = [p \in Process |-> "out"]
    /\ patience = [p \in Process |-> 0]
    /\ due = [p \in Process |-> 0]
    /\ failures = [p \in Process |-> 0]
    /\ renewing = [p \in Process |-> FALSE]
    /\ lost = [p \in Process |-> FALSE]
    /\ failed = [p \in Process |-> FALSE]
    /\ outcome = [p \in Process |-> "none"]
    /\ engine = [p \in Process |-> "none"]

-----------------------------------------------------------------------------
(* project_lock: acquiring                                                 *)

\* The slot of a killed worker is used again when its orphan has ended; until
\* then the orphan works beside the sections of the other processes.
Enter(p) ==
    /\ stage[p] = "out"
    /\ engine[p] # "orphan"
    /\ stage' = [stage EXCEPT ![p] = "waiting"]
    /\ patience' = [patience EXCEPT ![p] = Wait]
    /\ UNCHANGED <<keyVars, flagVars, redis, due, failed, outcome, engine>>

\* SET NX PX is executed; the caller learns of it unless Redis is silent.
TakeKey(p) ==
    /\ owner = None
    /\ owner' = p
    /\ left' = TTL

Acquire(p) ==
    /\ stage[p] = "waiting"
    /\ redis
    /\ TakeKey(p)
    /\ stage' = [stage EXCEPT ![p] = "body"]
    /\ due' = [due EXCEPT ![p] = 1]
    /\ renewing' = [renewing EXCEPT ![p] = TRUE]
    /\ patience' = [patience EXCEPT ![p] = 0]
    /\ outcome' = [outcome EXCEPT ![p] = "none"]
    /\ UNCHANGED <<redis, failures, lost, failed, engine>>

\* The generator is left, and its local variables with it.
Exit(p, result) ==
    /\ stage' = [stage EXCEPT ![p] = "out"]
    /\ outcome' = [outcome EXCEPT ![p] = result]
    /\ patience' = [patience EXCEPT ![p] = 0]
    /\ due' = [due EXCEPT ![p] = 0]
    /\ failures' = [failures EXCEPT ![p] = 0]
    /\ renewing' = [renewing EXCEPT ![p] = FALSE]
    /\ lost' = [lost EXCEPT ![p] = FALSE]
    /\ failed' = [failed EXCEPT ![p] = FALSE]
    /\ UNCHANGED redis

AcquireTimeout(p) ==
    /\ stage[p] = "waiting"
    /\ patience[p] = 0
    /\ owner # None
    /\ Exit(p, "failed")
    /\ UNCHANGED <<keyVars, engine>>

\* RedisError: the key may have been taken by a token nobody knows.
AcquireError(p) ==
    /\ stage[p] = "waiting"
    /\ ~redis
    /\ Exit(p, "failed")
    /\ TakeKey(p) \/ UNCHANGED keyVars
    /\ UNCHANGED engine

-----------------------------------------------------------------------------
(* The renewal thread                                                      *)

Wakes(p) == renewing[p] /\ due[p] = 0

GoesOn(p, n) ==
    /\ failures' = [failures EXCEPT ![p] = n]
    /\ due' = [due EXCEPT ![p] = 1]
    /\ UNCHANGED <<renewing, lost>>

RaisesFlag(p) ==
    /\ failures' = [failures EXCEPT ![p] = 0]
    /\ lost' = [lost EXCEPT ![p] = TRUE]
    /\ renewing' = [renewing EXCEPT ![p] = FALSE]
    /\ UNCHANGED due

\* A plausible bug: an extension that sets the key whoever holds it.
ExtendAnyway(p) ==
    IF owner \in {p, None} THEN owner' = p /\ left' = TTL ELSE UNCHANGED keyVars

\* The script compares the token before it sets the time to live again.
Extend(p) ==
    IF owner = p THEN left' = TTL /\ UNCHANGED owner ELSE UNCHANGED keyVars

RenewAnswered(p) ==
    /\ Wakes(p)
    /\ redis
    /\ Extend(p)
    /\ IF owner = p THEN GoesOn(p, 0) ELSE RaisesFlag(p)
    /\ UNCHANGED <<redis, patience, stage, failed, outcome, engine>>

RenewFails(p) ==
    /\ Wakes(p)
    /\ ~redis
    /\ Extend(p) \/ UNCHANGED keyVars
    /\ IF failures[p] + 1 >= MaxFailures
       THEN RaisesFlag(p)
       ELSE GoesOn(p, failures[p] + 1)
    /\ UNCHANGED <<redis, patience, stage, failed, outcome, engine>>

-----------------------------------------------------------------------------
(* The engine process                                                      *)

SetEngine(p, e) ==
    /\ engine' = [engine EXCEPT ![p] = e]
    /\ UNCHANGED <<keyVars, timeVars, flagVars, redis, stage, failed,
                   outcome>>

\* Popen, and communicate writes the request into the pipe.
StartEngine(p) ==
    /\ stage[p] = "body"
    /\ engine[p] = "none"
    /\ SetEngine(p, "starting")

\* main() asks the kernel to die with its parent, then reads the request.
EngineWorks(p) ==
    /\ engine[p] = "starting"
    /\ SetEngine(p, "working")

\* It returns, fails, reaches its time limit or is canceled by the user.
EngineEnds(p) ==
    /\ engine[p] # "none"
    /\ SetEngine(p, "none")

Abort(p) == lost[p]

\* stop_when_aborted terminates the process group.
Watch(p) ==
    /\ engine[p] \in {"starting", "working"}
    /\ Abort(p)
    /\ SetEngine(p, "none")

-----------------------------------------------------------------------------
(* project_lock: leaving                                                   *)

\* The body returns or raises. run_job_process returns and raises only when
\* its engine is gone, and raises when the flag is up.
EndBody(p) ==
    /\ stage[p] = "body"
    /\ engine[p] = "none"
    /\ stage' = [stage EXCEPT ![p] = "leaving"]
    /\ renewing' = [renewing EXCEPT ![p] = FALSE]
    /\ due' = [due EXCEPT ![p] = 0]
    /\ failures' = [failures EXCEPT ![p] = 0]
    /\ \E b \in BOOLEAN : failed' = [failed EXCEPT ![p] = b]
    /\ UNCHANGED <<keyVars, patience, redis, lost, outcome, engine>>

Leave(p, released) ==
    /\ Exit(p, IF ~failed[p] /\ ~lost[p] /\ released THEN "ok" ELSE "failed")
    /\ UNCHANGED engine

\* The script deletes the key if it holds the caller's token.
FreeKey(p) ==
    IF owner = p THEN owner' = None /\ left' = 0 ELSE UNCHANGED keyVars

ReleaseAnswered(p) ==
    /\ stage[p] = "leaving"
    /\ redis
    /\ FreeKey(p)
    /\ Leave(p, owner = p)

ReleaseFails(p) ==
    /\ stage[p] = "leaving"
    /\ ~redis
    /\ FreeKey(p) \/ UNCHANGED keyVars
    /\ Leave(p, FALSE)

-----------------------------------------------------------------------------
(* The environment                                                         *)

\* A worker is killed. The kernel kills an engine that has asked for it; one
\* that was still starting has its request in the pipe and goes on.
Crash(p) ==
    /\ stage[p] # "out"
    /\ Exit(p, "failed")
    /\ engine' = [engine EXCEPT ![p] = IF @ = "starting" THEN "orphan"
                                       ELSE "none"]
    /\ UNCHANGED keyVars

\* A plausible bug: a key set without a time to live.
ExpiredNever == FALSE

Expired == left <= 1

Down(n) == IF n = 0 THEN 0 ELSE n - 1

Tick ==
    /\ left' = Down(left)
    /\ owner' = IF Expired THEN None ELSE owner
    /\ patience' = [p \in Process |-> Down(patience[p])]
    /\ due' = [p \in Process |-> Down(due[p])]
    /\ UNCHANGED <<flagVars, redis, stage, failed, outcome, engine>>

RedisChanges ==
    /\ redis' = ~redis
    /\ UNCHANGED <<keyVars, timeVars, flagVars, stage, failed, outcome,
                   engine>>

Step(p) ==
    \/ Enter(p) \/ Acquire(p) \/ AcquireTimeout(p) \/ AcquireError(p)
    \/ RenewAnswered(p) \/ RenewFails(p)
    \/ StartEngine(p) \/ EngineWorks(p) \/ EngineEnds(p) \/ Watch(p)
    \/ EndBody(p) \/ ReleaseAnswered(p) \/ ReleaseFails(p)
    \/ Crash(p)

Next == (\E p \in Process : Step(p)) \/ Tick \/ RedisChanges

Spec == Init /\ [][Next]_vars

-----------------------------------------------------------------------------
(* Properties                                                              *)

InSection(p) == stage[p] \in {"body", "leaving"}

Place(p) == IF ~InSection(p) THEN "out"
            ELSE IF owner = p THEN "turn" ELSE "late"

Sections == INSTANCE SerialSections WITH
    place    <- [p \in Process |-> Place(p)],
    reported <- outcome

\* The lock implements serial sections: whatever expires, is slow, crashes
\* or is answered too late, a section that project_lock lets end without an
\* error had the key for itself from beginning to end.
ImplementsSections == Sections!Spec

\* An engine under a lock that is gone does not work on for ever: the
\* renewal thread notices, and the watcher of run_job_process kills it.
\* (An engine that outlived its parent has neither.)
Unlocked(p) == engine[p] \in {"starting", "working"} /\ owner # p

LossStopsEngine == \A p \in Process : Unlocked(p) ~> ~Unlocked(p)

\* The key of a worker that was killed is free again after its time to live,
\* though nobody releases it: the next task of the project gets its turn.
Abandoned(p) == owner = p /\ ~InSection(p)

AbandonedKeyExpires == \A p \in Process : Abandoned(p) ~> ~Abandoned(p)

\* A lock that is lost or left behind does not hold up the project for ever, nor
\* does an engine work on without one.
LockRecovers == LossStopsEngine /\ AbandonedKeyExpires
=============================================================================
