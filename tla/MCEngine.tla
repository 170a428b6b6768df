------------------------------- MODULE MCEngine ------------------------------
(* The two guards of the engine's work: the lock under which a worker runs it *)
(* for a project, and the claim under which its own dashboard does. They know *)
(* nothing of each other, and a behaviour is of one or of the other.          *)
EXTENDS ProjectLock, LocalJobs

VARIABLE part
engineVars == <<vars, localVars, part>>

\* A dashboard is told to stop a job, or a start fails, or a dashboard ends.
MCTroubles ==
    {[stops |-> 1, fails |-> 0, ends |-> 0], [stops |-> 0, fails |-> 1, ends |-> 0],
     [stops |-> 0, fails |-> 0, ends |-> 1]}

EngineInit ==
    /\ part \in {"lock", "local"}
    /\ Init /\ LocalInit
    /\ part = "lock" => troubles.ends = 1

EngineNext ==
    \/ part = "lock" /\ Next /\ UNCHANGED <<localVars, part>>
    \/ part = "local" /\ LocalNext /\ UNCHANGED <<vars, part>>

OfLock(A) == part = "lock" /\ A /\ UNCHANGED <<localVars, part>>
OfLocal(A) == part = "local" /\ A /\ UNCHANGED <<vars, part>>

\* Time passes, and the threads of a live process get to run. The body of a
\* section may never end, and Redis may stay silent.
LockFairness ==
    /\ WF_engineVars(OfLock(Tick))
    /\ \A p \in Process :
         WF_engineVars(OfLock(RenewAnswered(p) \/ RenewFails(p) \/ Watch(p)))

\* A start goes on, and so do the other threads together, whatever else they
\* do first. Nothing says that a process ends, or that anything is started.
LocalFairness ==
    /\ \A s \in Servers : WF_engineVars(OfLocal(StartSteps(s)))
    /\ WF_engineVars(OfLocal(ProceedsLocally))

EngineSpec == EngineInit /\ [][EngineNext]_engineVars /\ LockFairness /\ LocalFairness
=============================================================================
