--------------------------- MODULE EngineProofs -----------------------------
(***************************************************************************)
(* Proofs about the two guards of the engine's work, for any number of     *)
(* processes and dashboards: the lock of a project (ProjectLock) and the   *)
(* local jobs (LocalJobs).                                                 *)
(*                                                                         *)
(* The lock. The type invariant carries the whole refinement: the holder   *)
(* of the key is one process, so whatever a step does to the key it does   *)
(* to the turn of that process alone. Every step is then seen from         *)
(* SerialSections in one of three ways: it changes no place, it ends the   *)
(* section of one process, or it gives or takes the turn of one.           *)
(*                                                                         *)
(* The local jobs. An identifier is drawn by one start (StartsApart),      *)
(* which has no process before it starts one. Whoever is about to write    *)
(* that a job ended saw its process dead, or had seen no process at all    *)
(* (ProcessesKnown); and a process that is dead stays so.                  *)
(***************************************************************************)
EXTENDS MCEngine, CollectionLemmas

USE DEF keyVars, timeVars, flagVars

-----------------------------------------------------------------------------
(* Types                                                                   *)

LEMMA InitTypes == Init => TypeOK
  BY LockAssumption DEF Init, TypeOK, Stage, Outcome, Engine

LEMMA Ranges ==
    /\ TTL \in 0 .. TTL
    /\ 0 \in 0 .. TTL /\ 0 \in 0 .. Wait /\ 0 \in 0 .. MaxFailures
    /\ 0 \in 0 .. 1 /\ 1 \in 0 .. 1
    /\ \A n \in 0 .. MaxFailures : n + 1 < MaxFailures => n + 1 \in 0 .. MaxFailures
  BY LockAssumption

LEMMA DownStays == \A n \in Nat : \A m \in 0 .. n : Down(m) \in 0 .. n
  BY DEF Down

LEMMA ExitKeepsTypes ==
    ASSUME TypeOK, NEW p \in Process, NEW r \in Outcome, Exit(p, r),
           owner' \in Process \cup {None}, left' \in 0 .. TTL,
           engine' \in [Process -> Engine]
    PROVE  TypeOK'
<1>1. /\ stage' \in [Process -> Stage] /\ outcome' \in [Process -> Outcome]
      /\ patience' \in [Process -> 0 .. Wait] /\ due' \in [Process -> 0 .. 1]
      /\ failures' \in [Process -> 0 .. MaxFailures]
  BY Ranges DEF TypeOK, Exit, Stage
<1>2. /\ renewing' \in [Process -> BOOLEAN] /\ lost' \in [Process -> BOOLEAN]
      /\ failed' \in [Process -> BOOLEAN] /\ redis' \in BOOLEAN
  BY DEF TypeOK, Exit
<1>3. QED
  BY <1>1, <1>2 DEF TypeOK

LEMMA EngineKeepsTypes ==
    ASSUME TypeOK, NEW p \in Process, NEW e \in Engine, SetEngine(p, e)
    PROVE  TypeOK'
  BY DEF TypeOK, SetEngine

LEMMA StepKeepsTypes ==
    ASSUME TypeOK, NEW p \in Process, Step(p)
    PROVE  TypeOK'
<1>1. CASE Enter(p)
  BY <1>1, LockAssumption DEF Enter, TypeOK, Stage
<1>2. CASE Acquire(p)
  BY <1>2, LockAssumption DEF Acquire, TakeKey, TypeOK, Stage, Outcome
<1>3. CASE AcquireTimeout(p)
  BY <1>3, ExitKeepsTypes DEF AcquireTimeout, TypeOK, Outcome
<1>4. CASE AcquireError(p)
  <2>1. owner' \in Process \cup {None} /\ left' \in 0 .. TTL
    BY <1>4, LockAssumption DEF AcquireError, TakeKey, TypeOK
  <2>2. QED
    BY <1>4, <2>1, ExitKeepsTypes DEF AcquireError, TypeOK, Outcome
<1>5. CASE RenewAnswered(p) \/ RenewFails(p)
  <2>1. owner' \in Process \cup {None} /\ left' \in 0 .. TTL
    BY <1>5, Ranges DEF RenewAnswered, RenewFails, Extend, TypeOK
  <2>2. \/ RaisesFlag(p)
        \/ \E n \in 0 .. MaxFailures : GoesOn(p, n)
    <3>1. CASE RenewAnswered(p)
      BY <3>1, Ranges DEF RenewAnswered
    <3>2. CASE RenewFails(p)
      <4>1. failures[p] \in 0 .. MaxFailures
        BY DEF TypeOK
      <4>2. failures[p] + 1 < MaxFailures \/ failures[p] + 1 >= MaxFailures
        BY <4>1, LockAssumption
      <4>3. QED
        BY <3>2, <4>1, <4>2, Ranges DEF RenewFails
    <3>3. QED
      BY <1>5, <3>1, <3>2
  <2>3. /\ failures' \in [Process -> 0 .. MaxFailures]
        /\ due' \in [Process -> 0 .. 1]
    BY <2>2, Ranges DEF RaisesFlag, GoesOn, TypeOK
  <2>4. renewing' \in [Process -> BOOLEAN] /\ lost' \in [Process -> BOOLEAN]
    BY <2>2 DEF RaisesFlag, GoesOn, TypeOK
  <2>5. QED
    BY <1>5, <2>1, <2>3, <2>4 DEF RenewAnswered, RenewFails, TypeOK
<1>6. CASE StartEngine(p) \/ EngineWorks(p) \/ EngineEnds(p) \/ Watch(p)
  BY <1>6, EngineKeepsTypes
     DEF StartEngine, EngineWorks, EngineEnds, Watch, Engine
<1>7. CASE EndBody(p)
  <2>1. /\ stage' \in [Process -> Stage] /\ due' \in [Process -> 0 .. 1]
        /\ failures' \in [Process -> 0 .. MaxFailures]
    BY <1>7, Ranges DEF EndBody, TypeOK, Stage
  <2>2. renewing' \in [Process -> BOOLEAN] /\ failed' \in [Process -> BOOLEAN]
    BY <1>7 DEF EndBody, TypeOK
  <2>3. QED
    BY <1>7, <2>1, <2>2 DEF EndBody, TypeOK
<1>8. CASE ReleaseAnswered(p) \/ ReleaseFails(p)
  <2>1. owner' \in Process \cup {None} /\ left' \in 0 .. TTL
    <3>1. (owner' = None /\ left' = 0) \/ (owner' = owner /\ left' = left)
      BY <1>8 DEF ReleaseAnswered, ReleaseFails, FreeKey
    <3>2. QED
      BY <3>1, Ranges DEF TypeOK
  <2>2. PICK b \in BOOLEAN : Leave(p, b)
    BY <1>8 DEF ReleaseAnswered, ReleaseFails
  <2>3. QED
    BY <2>1, <2>2, ExitKeepsTypes DEF Leave, TypeOK, Outcome
<1>9. CASE Crash(p)
  <2>1. engine' \in [Process -> Engine]
    BY <1>9 DEF Crash, TypeOK, Engine
  <2>2. QED
    BY <1>9, <2>1, ExitKeepsTypes DEF Crash, TypeOK, Outcome
<1>10. QED
  BY <1>1, <1>2, <1>3, <1>4, <1>5, <1>6, <1>7, <1>8, <1>9 DEF Step

LEMMA NextKeepsTypes == TypeOK /\ [Next]_vars => TypeOK'
<1> SUFFICES ASSUME TypeOK, [Next]_vars PROVE TypeOK'
  OBVIOUS
<1>1. CASE \E p \in Process : Step(p)
  BY <1>1, StepKeepsTypes
<1>2. CASE Tick
  <2>1. owner' \in Process \cup {None} /\ left' \in 0 .. TTL
    BY <1>2, DownStays, LockAssumption DEF Tick, TypeOK
  <2>2. \A p \in Process : Down(patience[p]) \in 0 .. Wait /\ Down(due[p]) \in 0 .. 1
    BY DownStays, LockAssumption DEF TypeOK
  <2>3. QED
    BY <1>2, <2>1, <2>2 DEF Tick, TypeOK
<1>3. CASE RedisChanges
  BY <1>3 DEF RedisChanges, TypeOK
<1>4. CASE UNCHANGED vars
  BY <1>4 DEF vars, TypeOK
<1>5. QED
  BY <1>1, <1>2, <1>3, <1>4 DEF Next

\* Every variable of the lock keeps to its values: the key has at most one
\* holder, and no counter of the renewal thread leaves its range.
THEOREM LockTypeCorrect == Spec => []TypeOK
  BY InitTypes, NextKeepsTypes, PTL DEF Spec

-----------------------------------------------------------------------------
(* How a step is seen from SerialSections                                  *)

Elsewhere(p) == \A q \in Process \ {p} : Place(q)' = Place(q)

LEMMA Unseen ==
    ASSUME outcome' = outcome, \A p \in Process : Place(p)' = Place(p)
    PROVE  UNCHANGED Sections!sectionVars
  BY DEF Sections!sectionVars

LEMMA PlaceChanges ==
    ASSUME NEW p \in Process, Elsewhere(p)
    PROVE  [q \in Process |-> Place(q)]'
             = [[q \in Process |-> Place(q)] EXCEPT ![p] = Place(p)']
  BY DEF Elsewhere

LEMMA FailsSeen ==
    ASSUME TypeOK, NEW p \in Process, Exit(p, "failed"), Elsewhere(p)
    PROVE  Sections!Fail(p)
<1>1. Place(p)' = "out"
  BY DEF Exit, Place, InSection, TypeOK
<1>2. QED
  BY <1>1, PlaceChanges DEF Exit, Sections!Fail

\* A key that is taken when it is free, or given up by its holder, is no
\* other process's turn, before or after.
LEMMA OthersUndisturbed ==
    ASSUME TypeOK, NEW p \in Process,
           owner \in {p, None}, owner' \in {p, None},
           \A q \in Process \ {p} : stage'[q] = stage[q]
    PROVE  Elsewhere(p)
  BY LockAssumption DEF Elsewhere, Place, InSection

LEMMA SameKeyUndisturbed ==
    ASSUME TypeOK, NEW p \in Process, owner' = owner,
           \A q \in Process \ {p} : stage'[q] = stage[q]
    PROVE  Elsewhere(p)
  BY DEF Elsewhere, Place, InSection

LEMMA ExitSparesOthers ==
    ASSUME TypeOK, NEW p \in Process, NEW r, Exit(p, r)
    PROVE  \A q \in Process \ {p} : stage'[q] = stage[q]
  BY DEF Exit, TypeOK

LEMMA SameStageSameKey ==
    ASSUME owner' = owner, stage' = stage
    PROVE  \A p \in Process : Place(p)' = Place(p)
  BY DEF Place, InSection

-----------------------------------------------------------------------------
(* The refinement                                                          *)

LEMMA StepSeen ==
    ASSUME TypeOK, NEW p \in Process, Step(p)
    PROVE  [Sections!Next]_(Sections!sectionVars)
<1> DEFINE Seen == [Sections!Next]_(Sections!sectionVars)
<1>0. Sections!Fail(p) => Seen
  BY DEF Sections!Next
<1>1. CASE Enter(p)
  <2>1. \A q \in Process : Place(q)' = Place(q)
    BY <1>1 DEF Enter, Place, InSection, TypeOK
  <2>2. QED
    BY <1>1, <2>1, Unseen DEF Enter
<1>2. CASE Acquire(p)
  <2>1. Place(p) = "out" /\ \A q \in Process : Place(q) # "turn"
    BY <1>2, LockAssumption DEF Acquire, TakeKey, Place, InSection
  <2>2. Place(p)' = "turn"
    BY <1>2 DEF Acquire, TakeKey, Place, InSection, TypeOK
  <2>3. Elsewhere(p)
    BY <1>2, OthersUndisturbed DEF Acquire, TakeKey, TypeOK
  <2>4. Sections!Begin(p)
    BY <1>2, <2>1, <2>2, <2>3, PlaceChanges DEF Acquire, Sections!Begin
  <2>5. QED
    BY <2>4 DEF Sections!Next
<1>3. CASE AcquireTimeout(p)
  <2>1. Exit(p, "failed") /\ Elsewhere(p)
    BY <1>3, ExitSparesOthers, SameKeyUndisturbed DEF AcquireTimeout
  <2>2. QED
    BY <1>0, <2>1, FailsSeen
<1>4. CASE AcquireError(p)
  <2>1. Exit(p, "failed") /\ \A q \in Process \ {p} : stage'[q] = stage[q]
    BY <1>4, ExitSparesOthers DEF AcquireError
  <2>2. Elsewhere(p)
    BY <1>4, <2>1, OthersUndisturbed, SameKeyUndisturbed
       DEF AcquireError, TakeKey
  <2>3. QED
    BY <1>0, <2>1, <2>2, FailsSeen
<1>5. CASE RenewAnswered(p) \/ RenewFails(p)
  <2>1. owner' = owner /\ stage' = stage /\ outcome' = outcome
    BY <1>5 DEF RenewAnswered, RenewFails, Extend
  <2>2. QED
    BY <2>1, SameStageSameKey, Unseen
<1>6. CASE StartEngine(p) \/ EngineWorks(p) \/ EngineEnds(p) \/ Watch(p)
  <2>1. owner' = owner /\ stage' = stage /\ outcome' = outcome
    BY <1>6 DEF StartEngine, EngineWorks, EngineEnds, Watch, SetEngine
  <2>2. QED
    BY <2>1, SameStageSameKey, Unseen
<1>7. CASE EndBody(p)
  <2>1. \A q \in Process : Place(q)' = Place(q)
    BY <1>7 DEF EndBody, Place, InSection, TypeOK
  <2>2. QED
    BY <1>7, <2>1, Unseen DEF EndBody
<1>8. CASE ReleaseAnswered(p) \/ ReleaseFails(p)
  <2>1. PICK r \in {"ok", "failed"} :
           Exit(p, r) /\ (r = "ok" => owner = p /\ stage[p] = "leaving")
    BY <1>8 DEF ReleaseAnswered, ReleaseFails, Leave
  <2>2. Elsewhere(p)
    BY <1>8, <2>1, ExitSparesOthers, OthersUndisturbed, SameKeyUndisturbed
       DEF ReleaseAnswered, ReleaseFails, FreeKey
  <2>3. CASE r = "failed"
    BY <1>0, <2>1, <2>2, <2>3, FailsSeen
  <2>4. CASE r = "ok"
    <3>1. Place(p) = "turn"
      BY <2>1, <2>4 DEF Place, InSection
    <3>2. Place(p)' = "out"
      BY <2>1 DEF Exit, Place, InSection, TypeOK
    <3>3. Sections!Succeed(p)
      BY <2>1, <2>2, <2>4, <3>1, <3>2, PlaceChanges DEF Exit, Sections!Succeed
    <3>4. QED
      BY <3>3 DEF Sections!Next
  <2>5. QED
    BY <2>1, <2>3, <2>4
<1>9. CASE Crash(p)
  <2>1. Exit(p, "failed") /\ Elsewhere(p)
    BY <1>9, ExitSparesOthers, SameKeyUndisturbed DEF Crash
  <2>2. QED
    BY <1>0, <2>1, FailsSeen
<1>10. QED
  BY <1>1, <1>2, <1>3, <1>4, <1>5, <1>6, <1>7, <1>8, <1>9 DEF Step

\* The time to live takes the turn of the holder, if it is in its section.
LEMMA TickSeen ==
    ASSUME TypeOK, Tick
    PROVE  [Sections!Next]_(Sections!sectionVars)
<1>1. stage' = stage /\ outcome' = outcome
  BY DEF Tick
<1>2. CASE owner' = owner
  BY <1>1, <1>2, SameStageSameKey, Unseen
<1>3. CASE owner' # owner
  <2>1. owner \in Process /\ owner' = None
    BY <1>3 DEF Tick, TypeOK
  <2>2. Elsewhere(owner)
    BY <1>1, <2>1, OthersUndisturbed
  <2>3. CASE InSection(owner)
    <3>1. Place(owner) = "turn"
      BY <2>3 DEF Place
    <3>2. [q \in Process |-> Place(q)]'
             = [[q \in Process |-> Place(q)] EXCEPT ![owner] = "late"]
      <4>1. \A q \in Process :
              Place(q)' = IF q = owner THEN "late" ELSE Place(q)
        BY <1>1, <2>1, <2>3, LockAssumption DEF Place, InSection
      <4>2. QED
        BY <4>1
    <3>3. Sections!Lose(owner)
      BY <1>1, <2>1, <3>1, <3>2 DEF Sections!Lose
    <3>4. QED
      BY <2>1, <3>3 DEF Sections!Next
  <2>4. CASE ~InSection(owner)
    <3>1. \A p \in Process : Place(p)' = Place(p)
      BY <1>1, <2>1, <2>4, LockAssumption DEF Place, InSection
    <3>2. QED
      BY <1>1, <3>1, Unseen
  <2>5. QED
    BY <2>3, <2>4
<1>4. QED
  BY <1>2, <1>3

LEMMA NextSeen == TypeOK /\ [Next]_vars => [Sections!Next]_(Sections!sectionVars)
<1> SUFFICES ASSUME TypeOK, [Next]_vars
             PROVE  [Sections!Next]_(Sections!sectionVars)
  OBVIOUS
<1>1. CASE \E p \in Process : Step(p)
  BY <1>1, StepSeen
<1>2. CASE Tick
  BY <1>2, TickSeen
<1>3. CASE RedisChanges \/ UNCHANGED vars
  <2>1. owner' = owner /\ stage' = stage /\ outcome' = outcome
    BY <1>3 DEF RedisChanges, vars
  <2>2. QED
    BY <2>1, SameStageSameKey, Unseen
<1>4. QED
  BY <1>1, <1>2, <1>3 DEF Next

\* Whatever expires, is slow, crashes or is answered too late: a section that
\* project_lock lets end without an error had the key from its beginning to
\* its end, so two such sections of a project never overlapped.
THEOREM SectionsAreSerial == Spec => ImplementsSections
<1>1. Init => Sections!Init
  BY DEF Init, Sections!Init, Place, InSection
<1>2. QED
  BY <1>1, NextSeen, LockTypeCorrect, PTL DEF Spec, ImplementsSections, Sections!Spec

-----------------------------------------------------------------------------
(* The local jobs: processes and the records about them                    *)

Record == [status : Terminal \cup {"none", "running"}, pid : BOOLEAN, stopping : BOOLEAN]
Turn == [at : Pcs, job : LocalJob \cup {NoJob}, tries : 0 .. 1, seen : Record]
Sweep == [server : Servers \cup {NoServer}, at : Pcs, job : LocalJob \cup {NoJob}, seen : Record]

LocalTypes ==
    /\ claim \in LocalJob \cup {NoClaim}
    /\ fresh \subseteq LocalJob \cup {NoClaim}
    /\ record \in [LocalJob -> Record]
    /\ process \in [LocalJob -> {"none", "alive", "ended", "killed", "gone"}]
    /\ childOf \in [LocalJob -> Servers \cup {NoServer}]
    /\ waiter \in [LocalJob -> {"none", "wait", "ended", "killed", "gone", "release", "free"}]
    /\ up \subseteq Servers
    /\ starter \in [Servers -> Turn]
    /\ stopper \in [Servers -> Turn]
    /\ reaper \in Sweep
    /\ troubles \in [stops : Nat, fails : Nat, ends : Nat]

\* What a start, a stop or the sweep works on is a job.
Working ==
    /\ \A s \in Servers : starter[s].at # "idle" => starter[s].job \in LocalJob
    /\ \A s \in Servers : stopper[s].at # "idle" => stopper[s].job \in LocalJob
    /\ reaper.at # "idle" => reaper.job \in LocalJob

Began(j) == process[j] # "none"
Dead(j) == process[j] \in {"ended", "killed", "gone"}

BeforeProcess == {"open", "look", "unlink", "record", "spawn"}

\* No two starts are of one job, and one has no process before it started it.
StartsApart ==
    /\ \A s, t \in Servers :
         /\ starter[s].at # "idle" /\ starter[t].at # "idle"
         /\ starter[s].job = starter[t].job
         => s = t
    /\ \A s \in Servers :
         /\ starter[s].at \in BeforeProcess => ~Began(starter[s].job)
         /\ starter[s].at = "pid" => Began(starter[s].job)

\* Who waits, stops or has seen an identifier knows that there was a process; who
\* is about to write that a job ended knows that its process is dead.
ProcessesKnown ==
    /\ \A j \in LocalJob :
         /\ record[j].pid => Began(j)
         /\ waiter[j] # "none" => Began(j)
         /\ waiter[j] \notin {"none", "wait"} => Dead(j)
    /\ \A s \in Servers :
         /\ stopper[s].at # "idle" => Began(stopper[s].job)
         /\ stopper[s].at = "settle" => Dead(stopper[s].job)
         /\ stopper[s].at = "mark" => stopper[s].seen.status = "running"
    /\ reaper.at = "write" /\ reaper.seen.pid => Dead(reaper.job)

LocalInv == LocalTypes /\ Working /\ StartsApart /\ ProcessesKnown /\ EndedIsDead

LEMMA LocalValues ==
    /\ Idle \in Turn /\ Idle.at = "idle" /\ NoSweep \in Sweep /\ NoSweep.at = "idle"
    /\ NoRecord \in Record /\ NoRecord.pid = FALSE
    /\ NoServer \in Servers \cup {NoServer} /\ NoClaim \notin LocalJob
    /\ Terminal = {"done", "failed", "stopped", "interrupted"}
    /\ Record = [status : {"done", "failed", "stopped", "interrupted", "none", "running"},
                 pid : BOOLEAN, stopping : BOOLEAN]
    /\ Pcs = {"idle", "open", "look", "unlink", "record", "spawn", "pid", "release",
              "free", "mark", "kill", "wait", "settle", "write"}
<1>1. NoRecord \in Record /\ NoRecord.pid = FALSE
  BY DEF NoRecord, Record
<1>2. QED
  BY <1>1, LocalJobsAssumption DEF Idle, NoSweep, Turn, Sweep, Pcs, NoJob, NoClaim,
     LocalJob, NoRecord, Record, Terminal

LEMMA TurnTo ==
    /\ \A t \in Turn, a \in Pcs : [t EXCEPT !.at = a] \in Turn
    /\ \A t \in Turn, a \in Pcs, j \in LocalJob : [t EXCEPT !.at = a, !.job = j] \in Turn
    /\ \A t \in Turn, a \in Pcs : [t EXCEPT !.at = a, !.tries = 1] \in Turn
    /\ \A r \in Record, a \in Pcs, j \in LocalJob :
          [Idle EXCEPT !.at = a, !.job = j, !.seen = r] \in Turn
    /\ \A r \in Record, x \in Terminal \cup {"none", "running"} : [r EXCEPT !.status = x] \in Record
    /\ \A r \in Record : [r EXCEPT !.stopping = TRUE] \in Record
    /\ \A x \in Terminal \cup {"none", "running"}, b \in BOOLEAN :
          [NoRecord EXCEPT !.status = x, !.pid = b] \in Record
    /\ \A x \in Terminal \cup {"none", "running"} : [NoRecord EXCEPT !.status = x] \in Record
<1>1. Idle \in Turn /\ NoRecord \in Record
  BY LocalValues
<1>2. 1 \in 0 .. 1
  OBVIOUS
<1>3. \A t \in Turn, a \in Pcs : [t EXCEPT !.at = a] \in Turn
  BY DEF Turn
<1>4. \A t \in Turn, a \in Pcs, j \in LocalJob : [t EXCEPT !.at = a, !.job = j] \in Turn
  BY DEF Turn
<1>5. \A t \in Turn, a \in Pcs, n \in 0 .. 1 : [t EXCEPT !.at = a, !.tries = n] \in Turn
  BY DEF Turn
<1>6. \A t \in Turn, r \in Record, a \in Pcs, j \in LocalJob :
        [t EXCEPT !.at = a, !.job = j, !.seen = r] \in Turn
  BY DEF Turn
<1>7. \A r \in Record, x \in Terminal \cup {"none", "running"}, b \in BOOLEAN :
        /\ [r EXCEPT !.status = x] \in Record /\ [r EXCEPT !.stopping = TRUE] \in Record
        /\ [r EXCEPT !.status = x, !.pid = b] \in Record
  BY DEF Record
<1>8. \A r \in Record : [r EXCEPT !.stopping = TRUE] \in Record
  BY DEF Record
<1>9. QED
  BY <1>1, <1>2, <1>3, <1>4, <1>5, <1>6, <1>7, <1>8

LEMMA SetTurn ==
    ASSUME NEW f \in [Servers -> Turn], NEW s \in Servers, NEW t \in Turn
    PROVE  [f EXCEPT ![s] = t] \in [Servers -> Turn]
OBVIOUS

LEMMA SetRecord ==
    ASSUME NEW f \in [LocalJob -> Record], NEW j \in LocalJob, NEW t \in Record
    PROVE  [f EXCEPT ![j] = t] \in [LocalJob -> Record]
OBVIOUS

-----------------------------------------------------------------------------
(* The local jobs: what each step keeps                                    *)

LEMMA OpensAgainKeeps ==
    ASSUME LocalInv, NEW s \in Servers, OpensAgain(s)
    PROVE  LocalInv'
<1> DEFINE j == starter[s].job
<1>1. /\ starter[s].at = "open" /\ j \in LocalJob /\ ~Began(j) /\ starter[s] \in Turn
      /\ starter \in [Servers -> Turn]
  BY DEF LocalInv, LocalTypes, Working, StartsApart, BeforeProcess, OpensAgain
<1>2. /\ claim' \in {claim, j} /\ fresh' \in {fresh, fresh \cup {NoClaim}}
      /\ UNCHANGED <<record, process, childOf, up, waiter, stopper, reaper, troubles>>
  BY DEF OpensAgain, Opens
<1>3. PICK a \in {"record", "look"} :
        starter' = [starter EXCEPT ![s] = [starter[s] EXCEPT !.at = a, !.job = j]]
  BY DEF OpensAgain, Opens
<1>4. starter' = [starter EXCEPT ![s] = [starter[s] EXCEPT !.at = a, !.job = j]]
  BY <1>3
<1>5. /\ starter' \in [Servers -> Turn]
      /\ \A t \in Servers : t # s => starter'[t] = starter[t]
      /\ starter'[s].at = a /\ starter'[s].job = j
  <2>1. a \in Pcs
    BY LocalValues
  <2>2. [starter[s] EXCEPT !.at = a, !.job = j] \in Turn
    <3> HIDE DEF j
    <3> QED BY <1>1, <2>1, TurnTo
  <2>3. /\ [starter[s] EXCEPT !.at = a, !.job = j].at = a
        /\ [starter[s] EXCEPT !.at = a, !.job = j].job = j
    BY <1>1 DEF Turn
  <2> HIDE DEF j
  <2> QED
    BY <1>1, <1>4, <2>2, <2>3, SetTurn
<1> HIDE DEF j
<1>6. LocalTypes'
  BY <1>1, <1>2, <1>5 DEF LocalInv, LocalTypes
<1>7. Working'
  BY <1>1, <1>2, <1>5 DEF LocalInv, Working
<1>8. StartsApart'
  <2>1. \A t \in Servers : starter'[t].at # "idle" =>
          starter[t].at # "idle" /\ starter'[t].job = starter[t].job
    BY <1>1, <1>5 DEF j
  <2>2. a \in BeforeProcess
    BY DEF BeforeProcess
  <2> QED
    BY <1>1, <1>2, <1>5, <2>1, <2>2 DEF LocalInv, StartsApart, Began
<1>9. ProcessesKnown' /\ EndedIsDead'
  BY <1>2 DEF LocalInv, ProcessesKnown, EndedIsDead, Began, Dead
<1>10. QED
  BY <1>6, <1>7, <1>8, <1>9 DEF LocalInv

LEMMA LooksKeeps ==
    ASSUME LocalInv, NEW s \in Servers, Looks(s)
    PROVE  LocalInv'
<1>1. LocalTypes'
  <2>1. starter' \in [Servers -> Turn]
    BY LocalValues, TurnTo DEF LocalInv, LocalTypes, Working, Looks
  <2> QED
    BY <2>1, LocalValues DEF LocalInv, LocalTypes, Working, Looks
<1>2. Working'
  BY LocalValues DEF LocalInv, LocalTypes, Working, Looks, Turn, Sweep
<1>3. StartsApart'
  BY LocalValues DEF LocalInv, LocalTypes, Working, StartsApart, ProcessesKnown,
     BeforeProcess, Began, Looks, Turn, Sweep
<1>4. ProcessesKnown'
  BY LocalValues DEF LocalInv, LocalTypes, Working, StartsApart, ProcessesKnown,
     BeforeProcess, Began, Dead, Looks, Turn, Sweep
<1>5. EndedIsDead'
  BY LocalValues DEF LocalInv, LocalTypes, Working, StartsApart, ProcessesKnown,
     BeforeProcess, Began, Dead, EndedIsDead, Looks, Turn, Sweep
<1>6. QED
  BY <1>1, <1>2, <1>3, <1>4, <1>5 DEF LocalInv

LEMMA UnlinksKeeps ==
    ASSUME LocalInv, NEW s \in Servers, Unlinks(s)
    PROVE  LocalInv'
<1>1. LocalTypes'
  <2>1. starter' \in [Servers -> Turn]
    BY LocalValues, TurnTo DEF LocalInv, LocalTypes, Working, Unlinks
  <2> QED
    BY <2>1, LocalValues DEF LocalInv, LocalTypes, Working, Unlinks
<1>2. Working'
  BY LocalValues DEF LocalInv, LocalTypes, Working, Unlinks, Turn, Sweep
<1>3. StartsApart'
  BY LocalValues DEF LocalInv, LocalTypes, Working, StartsApart, ProcessesKnown,
     BeforeProcess, Began, Unlinks, Turn, Sweep
<1>4. ProcessesKnown'
  BY LocalValues DEF LocalInv, LocalTypes, Working, StartsApart, ProcessesKnown,
     BeforeProcess, Began, Dead, Unlinks, Turn, Sweep
<1>5. EndedIsDead'
  BY LocalValues DEF LocalInv, LocalTypes, Working, StartsApart, ProcessesKnown,
     BeforeProcess, Began, Dead, EndedIsDead, Unlinks, Turn, Sweep
<1>6. QED
  BY <1>1, <1>2, <1>3, <1>4, <1>5 DEF LocalInv

LEMMA RecordsKeeps ==
    ASSUME LocalInv, NEW s \in Servers, Records(s)
    PROVE  LocalInv'
<1>1. LocalTypes'
  <2>1. starter' \in [Servers -> Turn]
    BY LocalValues, TurnTo DEF LocalInv, LocalTypes, Working, Records
  <2>2. record' \in [LocalJob -> Record]
    BY LocalValues, TurnTo DEF LocalInv, LocalTypes, Working, Records
  <2> QED
    BY <2>1, <2>2, LocalValues DEF LocalInv, LocalTypes, Working, Records
<1>2. Working'
  BY LocalValues DEF LocalInv, LocalTypes, Working, Records, Turn, Sweep
<1>3. StartsApart'
  BY LocalValues DEF LocalInv, LocalTypes, Working, StartsApart, ProcessesKnown,
     BeforeProcess, Began, Records, Turn, Sweep
<1>4. ProcessesKnown'
  BY LocalValues DEF LocalInv, LocalTypes, Working, StartsApart, ProcessesKnown,
     BeforeProcess, Began, Dead, Records, Turn, Sweep
<1>5. EndedIsDead'
  BY LocalValues DEF LocalInv, LocalTypes, Working, StartsApart, ProcessesKnown,
     BeforeProcess, Began, Dead, EndedIsDead, Records, Turn, Sweep
<1>6. QED
  BY <1>1, <1>2, <1>3, <1>4, <1>5 DEF LocalInv

LEMMA SpawnsKeeps ==
    ASSUME LocalInv, NEW s \in Servers, Spawns(s)
    PROVE  LocalInv'
<1>1. LocalTypes'
  <2>1. starter' \in [Servers -> Turn]
    BY LocalValues, TurnTo DEF LocalInv, LocalTypes, Working, Spawns
  <2> QED
    BY <2>1, LocalValues DEF LocalInv, LocalTypes, Working, Spawns
<1>2. Working'
  BY LocalValues DEF LocalInv, LocalTypes, Working, Spawns, Turn, Sweep
<1>3. StartsApart'
  BY LocalValues DEF LocalInv, LocalTypes, Working, StartsApart, ProcessesKnown,
     BeforeProcess, Began, Spawns, Turn, Sweep
<1>4. ProcessesKnown'
  BY LocalValues DEF LocalInv, LocalTypes, Working, StartsApart, ProcessesKnown,
     BeforeProcess, Began, Dead, Spawns, Turn, Sweep
<1>5. EndedIsDead'
  BY LocalValues DEF LocalInv, LocalTypes, Working, StartsApart, ProcessesKnown,
     BeforeProcess, Began, Dead, EndedIsDead, Spawns, Turn, Sweep
<1>6. QED
  BY <1>1, <1>2, <1>3, <1>4, <1>5 DEF LocalInv

LEMMA IdentifiesKeeps ==
    ASSUME LocalInv, NEW s \in Servers, Identifies(s)
    PROVE  LocalInv'
<1>1. LocalTypes'
  BY LocalValues DEF LocalInv, LocalTypes, Working, Identifies, Turn, Sweep
<1>2. Working'
  BY LocalValues DEF LocalInv, LocalTypes, Working, Identifies, Turn, Sweep
<1>3. StartsApart'
  BY LocalValues DEF LocalInv, LocalTypes, Working, StartsApart, ProcessesKnown,
     BeforeProcess, Began, Identifies, Turn, Sweep
<1>4. ProcessesKnown'
  BY LocalValues DEF LocalInv, LocalTypes, Working, StartsApart, ProcessesKnown,
     BeforeProcess, Began, Dead, Identifies, Turn, Sweep
<1>5. EndedIsDead'
  BY LocalValues DEF LocalInv, LocalTypes, Working, StartsApart, ProcessesKnown,
     BeforeProcess, Began, Dead, EndedIsDead, Identifies, Turn, Sweep
<1>6. QED
  BY <1>1, <1>2, <1>3, <1>4, <1>5 DEF LocalInv

LEMMA StartFailsKeeps ==
    ASSUME LocalInv, NEW s \in Servers, StartFails(s)
    PROVE  LocalInv'
<1>1. LocalTypes'
  <2>1. starter' \in [Servers -> Turn]
    BY LocalValues, TurnTo DEF LocalInv, LocalTypes, Working, StartFails
  <2>2. record' \in [LocalJob -> Record]
    BY LocalValues, TurnTo DEF LocalInv, LocalTypes, Working, StartFails
  <2> QED
    BY <2>1, <2>2, LocalValues DEF LocalInv, LocalTypes, Working, StartFails
<1>2. Working'
  BY LocalValues DEF LocalInv, LocalTypes, Working, StartFails, Turn, Sweep
<1>3. StartsApart'
  BY LocalValues DEF LocalInv, LocalTypes, Working, StartsApart, ProcessesKnown,
     BeforeProcess, Began, StartFails, Turn, Sweep
<1>4. ProcessesKnown'
  BY LocalValues DEF LocalInv, LocalTypes, Working, StartsApart, ProcessesKnown,
     BeforeProcess, Began, Dead, StartFails, Turn, Sweep
<1>5. EndedIsDead'
  BY LocalValues DEF LocalInv, LocalTypes, Working, StartsApart, ProcessesKnown,
     BeforeProcess, Began, Dead, EndedIsDead, StartFails, Turn, Sweep
<1>6. QED
  BY <1>1, <1>2, <1>3, <1>4, <1>5 DEF LocalInv

LEMMA StarterReleasesKeeps ==
    ASSUME LocalInv, NEW s \in Servers, StarterReleases(s)
    PROVE  LocalInv'
<1>1. LocalTypes'
  <2>1. starter' \in [Servers -> Turn]
    BY LocalValues, TurnTo DEF LocalInv, LocalTypes, Working, StarterReleases, AfterLook
  <2> QED
    BY <2>1, LocalValues DEF LocalInv, LocalTypes, Working, StarterReleases, AfterLook
<1>2. Working'
  BY LocalValues DEF LocalInv, LocalTypes, Working, StarterReleases, AfterLook, Turn, Sweep
<1>3. StartsApart'
  BY LocalValues DEF LocalInv, LocalTypes, Working, StartsApart, ProcessesKnown,
     BeforeProcess, Began, StarterReleases, AfterLook, Turn, Sweep
<1>4. ProcessesKnown'
  BY LocalValues DEF LocalInv, LocalTypes, Working, StartsApart, ProcessesKnown,
     BeforeProcess, Began, Dead, StarterReleases, AfterLook, Turn, Sweep
<1>5. EndedIsDead'
  BY LocalValues DEF LocalInv, LocalTypes, Working, StartsApart, ProcessesKnown,
     BeforeProcess, Began, Dead, EndedIsDead, StarterReleases, AfterLook, Turn, Sweep
<1>6. QED
  BY <1>1, <1>2, <1>3, <1>4, <1>5 DEF LocalInv

LEMMA StarterFreesKeeps ==
    ASSUME LocalInv, NEW s \in Servers, StarterFrees(s)
    PROVE  LocalInv'
<1>1. LocalTypes'
  BY LocalValues DEF LocalInv, LocalTypes, Working, StarterFrees, Turn, Sweep
<1>2. Working'
  BY LocalValues DEF LocalInv, LocalTypes, Working, StarterFrees, Turn, Sweep
<1>3. StartsApart'
  BY LocalValues DEF LocalInv, LocalTypes, Working, StartsApart, ProcessesKnown,
     BeforeProcess, Began, StarterFrees, Turn, Sweep
<1>4. ProcessesKnown'
  BY LocalValues DEF LocalInv, LocalTypes, Working, StartsApart, ProcessesKnown,
     BeforeProcess, Began, Dead, StarterFrees, Turn, Sweep
<1>5. EndedIsDead'
  BY LocalValues DEF LocalInv, LocalTypes, Working, StartsApart, ProcessesKnown,
     BeforeProcess, Began, Dead, EndedIsDead, StarterFrees, Turn, Sweep
<1>6. QED
  BY <1>1, <1>2, <1>3, <1>4, <1>5 DEF LocalInv

LEMMA ProcessEndsKeeps ==
    ASSUME LocalInv, NEW j \in LocalJob, ProcessEnds(j)
    PROVE  LocalInv'
<1>1. LocalTypes'
  BY LocalValues DEF LocalInv, LocalTypes, Working, ProcessEnds, Turn, Sweep
<1>2. Working'
  BY LocalValues DEF LocalInv, LocalTypes, Working, ProcessEnds, Turn, Sweep
<1>3. StartsApart'
  BY LocalValues DEF LocalInv, LocalTypes, Working, StartsApart, ProcessesKnown,
     BeforeProcess, Began, ProcessEnds, Turn, Sweep
<1>4. ProcessesKnown'
  BY LocalValues DEF LocalInv, LocalTypes, Working, StartsApart, ProcessesKnown,
     BeforeProcess, Began, Dead, ProcessEnds, Turn, Sweep
<1>5. EndedIsDead'
  BY LocalValues DEF LocalInv, LocalTypes, Working, StartsApart, ProcessesKnown,
     BeforeProcess, Began, Dead, EndedIsDead, ProcessEnds, Turn, Sweep
<1>6. QED
  BY <1>1, <1>2, <1>3, <1>4, <1>5 DEF LocalInv

LEMMA WaitsKeeps ==
    ASSUME LocalInv, NEW j \in LocalJob, Waits(j)
    PROVE  LocalInv'
<1>1. LocalTypes'
  BY LocalValues DEF LocalInv, LocalTypes, Working, Waits, Turn, Sweep
<1>2. Working'
  BY LocalValues DEF LocalInv, LocalTypes, Working, Waits, Turn, Sweep
<1>3. StartsApart'
  BY LocalValues DEF LocalInv, LocalTypes, Working, StartsApart, ProcessesKnown,
     BeforeProcess, Began, Waits, Turn, Sweep
<1>4. ProcessesKnown'
  BY LocalValues DEF LocalInv, LocalTypes, Working, StartsApart, ProcessesKnown,
     BeforeProcess, Began, Dead, Waits, Turn, Sweep
<1>5. EndedIsDead'
  BY LocalValues DEF LocalInv, LocalTypes, Working, StartsApart, ProcessesKnown,
     BeforeProcess, Began, Dead, EndedIsDead, Waits, Turn, Sweep
<1>6. QED
  BY <1>1, <1>2, <1>3, <1>4, <1>5 DEF LocalInv

LEMMA SettlesKeeps ==
    ASSUME LocalInv, NEW j \in LocalJob, Settles(j)
    PROVE  LocalInv'
<1>1. LocalTypes'
  <2>1. record' \in [LocalJob -> Record]
    <3>1. record[j] \in Record /\ HowEnded(j, waiter[j]) \in Terminal
      BY LocalValues DEF LocalInv, LocalTypes, HowEnded
    <3>2. [record[j] EXCEPT !.status = HowEnded(j, waiter[j])] \in Record
      BY <3>1, TurnTo
    <3>3. record' = [record EXCEPT ![j] = [record[j] EXCEPT !.status = HowEnded(j, waiter[j])]]
      BY DEF Settles
    <3> QED BY <3>2, <3>3, SetRecord DEF LocalInv, LocalTypes
  <2> QED
    BY <2>1, LocalValues DEF LocalInv, LocalTypes, Working, Settles, HowEnded
<1>2. Working'
  BY LocalValues DEF LocalInv, LocalTypes, Working, Settles, HowEnded, Turn, Sweep
<1>3. StartsApart'
  BY LocalValues DEF LocalInv, LocalTypes, Working, StartsApart, ProcessesKnown,
     BeforeProcess, Began, Settles, HowEnded, Turn, Sweep
<1>4. ProcessesKnown'
  <2>1. /\ record \in [LocalJob -> Record]
        /\ waiter \in [LocalJob -> {"none", "wait", "ended", "killed", "gone", "release", "free"}]
    BY DEF LocalInv, LocalTypes
  <2>2. \A i \in LocalJob : record'[i].pid = record[i].pid
    BY <2>1 DEF Settles, Record
  <2>3. Began(j) /\ Dead(j)
    BY DEF LocalInv, ProcessesKnown, Settles
  <2>4. \A i \in LocalJob : i # j => waiter'[i] = waiter[i]
    BY <2>1 DEF Settles
  <2>5. UNCHANGED <<process, stopper, reaper>>
    BY DEF Settles
  <2>6. \A i \in LocalJob :
          /\ record'[i].pid => process[i] # "none"
          /\ waiter'[i] # "none" => process[i] # "none"
          /\ waiter'[i] \notin {"none", "wait"} => process[i] \in {"ended", "killed", "gone"}
    <3>1. ASSUME NEW i \in LocalJob, i # j
          PROVE  /\ record'[i].pid => process[i] # "none"
                 /\ waiter'[i] # "none" => process[i] # "none"
                 /\ waiter'[i] \notin {"none", "wait"} => process[i] \in {"ended", "killed", "gone"}
      BY <2>2, <2>4, <3>1 DEF LocalInv, ProcessesKnown, Began, Dead
    <3> QED
      BY <2>3, <3>1 DEF Began, Dead
  <2>7. /\ \A t \in Servers :
             /\ stopper[t].at # "idle" => process[stopper[t].job] # "none"
             /\ stopper[t].at = "settle" => process[stopper[t].job] \in {"ended", "killed", "gone"}
             /\ stopper[t].at = "mark" => stopper[t].seen.status = "running"
        /\ reaper.at = "write" /\ reaper.seen.pid =>
             process[reaper.job] \in {"ended", "killed", "gone"}
    BY DEF LocalInv, ProcessesKnown, Began, Dead
  <2>8. process' = process /\ stopper' = stopper /\ reaper' = reaper
    BY <2>5
  <2> QED
    BY <2>6, <2>7, <2>8 DEF ProcessesKnown, Began, Dead
<1>5. EndedIsDead'
  <2>1. record \in [LocalJob -> Record] /\ process' = process
    BY DEF LocalInv, LocalTypes, Settles
  <2>2. \A i \in LocalJob : i # j => record'[i] = record[i]
    BY <2>1 DEF Settles
  <2>3. process[j] # "alive"
    BY DEF LocalInv, ProcessesKnown, Settles, Dead
  <2> QED
    BY <2>1, <2>2, <2>3 DEF LocalInv, EndedIsDead
<1>6. QED
  BY <1>1, <1>2, <1>3, <1>4, <1>5 DEF LocalInv

LEMMA WaiterReleasesKeeps ==
    ASSUME LocalInv, NEW j \in LocalJob, WaiterReleases(j)
    PROVE  LocalInv'
<1>1. LocalTypes'
  BY LocalValues DEF LocalInv, LocalTypes, Working, WaiterReleases, AfterLook, Turn, Sweep
<1>2. Working'
  BY LocalValues DEF LocalInv, LocalTypes, Working, WaiterReleases, AfterLook, Turn, Sweep
<1>3. StartsApart'
  BY LocalValues DEF LocalInv, LocalTypes, Working, StartsApart, ProcessesKnown,
     BeforeProcess, Began, WaiterReleases, AfterLook, Turn, Sweep
<1>4. ProcessesKnown'
  BY LocalValues DEF LocalInv, LocalTypes, Working, StartsApart, ProcessesKnown,
     BeforeProcess, Began, Dead, WaiterReleases, AfterLook, Turn, Sweep
<1>5. EndedIsDead'
  BY LocalValues DEF LocalInv, LocalTypes, Working, StartsApart, ProcessesKnown,
     BeforeProcess, Began, Dead, EndedIsDead, WaiterReleases, AfterLook, Turn, Sweep
<1>6. QED
  BY <1>1, <1>2, <1>3, <1>4, <1>5 DEF LocalInv

LEMMA WaiterFreesKeeps ==
    ASSUME LocalInv, NEW j \in LocalJob, WaiterFrees(j)
    PROVE  LocalInv'
<1>1. LocalTypes'
  BY LocalValues DEF LocalInv, LocalTypes, Working, WaiterFrees, Turn, Sweep
<1>2. Working'
  BY LocalValues DEF LocalInv, LocalTypes, Working, WaiterFrees, Turn, Sweep
<1>3. StartsApart'
  BY LocalValues DEF LocalInv, LocalTypes, Working, StartsApart, ProcessesKnown,
     BeforeProcess, Began, WaiterFrees, Turn, Sweep
<1>4. ProcessesKnown'
  BY LocalValues DEF LocalInv, LocalTypes, Working, StartsApart, ProcessesKnown,
     BeforeProcess, Began, Dead, WaiterFrees, Turn, Sweep
<1>5. EndedIsDead'
  BY LocalValues DEF LocalInv, LocalTypes, Working, StartsApart, ProcessesKnown,
     BeforeProcess, Began, Dead, EndedIsDead, WaiterFrees, Turn, Sweep
<1>6. QED
  BY <1>1, <1>2, <1>3, <1>4, <1>5 DEF LocalInv

LEMMA StopBeginsKeeps ==
    ASSUME LocalInv, NEW s \in Servers, NEW j \in LocalJob, StopBegins(s, j)
    PROVE  LocalInv'
<1>1. LocalTypes'
  <2>1. stopper' \in [Servers -> Turn]
    <3>1. record[j] \in Record /\ "mark" \in Pcs /\ "kill" \in Pcs
      BY LocalValues DEF LocalInv, LocalTypes
    <3> DEFINE at == IF Child(s, j) THEN "mark" ELSE "kill"
               new == [Idle EXCEPT !.at = at, !.job = j, !.seen = record[j]]
    <3>2. new \in Turn
      BY <3>1, TurnTo
    <3>3. stopper' = [stopper EXCEPT ![s] = new]
      BY DEF StopBegins
    <3> QED BY <3>2, <3>3, SetTurn DEF LocalInv, LocalTypes
  <2> QED
    BY <2>1, LocalValues DEF LocalInv, LocalTypes, Working, StopBegins, Child, Exists
<1>2. Working'
  BY LocalValues DEF LocalInv, LocalTypes, Working, StopBegins, Child, Exists, Turn, Sweep
<1>3. StartsApart'
  BY LocalValues DEF LocalInv, LocalTypes, Working, StartsApart, ProcessesKnown,
     BeforeProcess, Began, StopBegins, Child, Exists, Turn, Sweep
<1>4. ProcessesKnown'
  BY LocalValues DEF LocalInv, LocalTypes, Working, StartsApart, ProcessesKnown,
     BeforeProcess, Began, Dead, StopBegins, Child, Exists, Turn, Sweep
<1>5. EndedIsDead'
  BY LocalValues DEF LocalInv, LocalTypes, Working, StartsApart, ProcessesKnown,
     BeforeProcess, Began, Dead, EndedIsDead, StopBegins, Child, Exists, Turn, Sweep
<1>6. QED
  BY <1>1, <1>2, <1>3, <1>4, <1>5 DEF LocalInv

LEMMA StopMarksKeeps ==
    ASSUME LocalInv, NEW s \in Servers, StopMarks(s)
    PROVE  LocalInv'
<1>1. LocalTypes'
  <2>1. stopper' \in [Servers -> Turn]
    BY LocalValues, TurnTo DEF LocalInv, LocalTypes, Working, StopMarks
  <2>2. record' \in [LocalJob -> Record]
    <3>1. stopper[s].job \in LocalJob /\ stopper[s].seen \in Record
      BY DEF LocalInv, LocalTypes, Working, StopMarks, Turn
    <3>2. [stopper[s].seen EXCEPT !.stopping = TRUE] \in Record
      BY <3>1, TurnTo
    <3>3. record' = [record EXCEPT ![stopper[s].job] = [stopper[s].seen EXCEPT !.stopping = TRUE]]
      BY DEF StopMarks
    <3> QED BY <3>1, <3>2, <3>3, SetRecord DEF LocalInv, LocalTypes
  <2> QED
    BY <2>1, <2>2, LocalValues DEF LocalInv, LocalTypes, Working, StopMarks
<1>2. Working'
  BY LocalValues DEF LocalInv, LocalTypes, Working, StopMarks, Turn, Sweep
<1>3. StartsApart'
  BY LocalValues DEF LocalInv, LocalTypes, Working, StartsApart, ProcessesKnown,
     BeforeProcess, Began, StopMarks, Turn, Sweep
<1>4. ProcessesKnown'
  BY LocalValues DEF LocalInv, LocalTypes, Working, StartsApart, ProcessesKnown,
     BeforeProcess, Began, Dead, StopMarks, Turn, Sweep
<1>5. EndedIsDead'
  BY LocalValues DEF LocalInv, LocalTypes, Working, StartsApart, ProcessesKnown,
     BeforeProcess, Began, Dead, EndedIsDead, StopMarks, Turn, Sweep
<1>6. QED
  BY <1>1, <1>2, <1>3, <1>4, <1>5 DEF LocalInv

LEMMA StopKillsKeeps ==
    ASSUME LocalInv, NEW s \in Servers, StopKills(s)
    PROVE  LocalInv'
<1>1. LocalTypes'
  <2>1. stopper' \in [Servers -> Turn]
    BY LocalValues, TurnTo DEF LocalInv, LocalTypes, Working, StopKills
  <2>2. process' \in [LocalJob -> {"none", "alive", "ended", "killed", "gone"}]
    <3>1. stopper[s].job \in LocalJob
      BY DEF LocalInv, LocalTypes, Working, StopKills
    <3> QED BY <3>1 DEF LocalInv, LocalTypes, StopKills
  <2> QED
    BY <2>1, <2>2, LocalValues DEF LocalInv, LocalTypes, Working, StopKills
<1>2. Working'
  BY LocalValues DEF LocalInv, LocalTypes, Working, StopKills, Turn, Sweep
<1>3. StartsApart'
  BY LocalValues DEF LocalInv, LocalTypes, Working, StartsApart, ProcessesKnown,
     BeforeProcess, Began, StopKills, Turn, Sweep
<1>4. ProcessesKnown'
  BY LocalValues DEF LocalInv, LocalTypes, Working, StartsApart, ProcessesKnown,
     BeforeProcess, Began, Dead, StopKills, Turn, Sweep
<1>5. EndedIsDead'
  BY LocalValues DEF LocalInv, LocalTypes, Working, StartsApart, ProcessesKnown,
     BeforeProcess, Began, Dead, EndedIsDead, StopKills, Turn, Sweep
<1>6. QED
  BY <1>1, <1>2, <1>3, <1>4, <1>5 DEF LocalInv

LEMMA StopWaitsKeeps ==
    ASSUME LocalInv, NEW s \in Servers, StopWaits(s)
    PROVE  LocalInv'
<1>1. LocalTypes'
  <2>1. stopper' \in [Servers -> Turn]
    BY LocalValues, TurnTo DEF LocalInv, LocalTypes, Working, StopWaits
  <2> QED
    BY <2>1, LocalValues DEF LocalInv, LocalTypes, Working, StopWaits
<1>2. Working'
  BY LocalValues DEF LocalInv, LocalTypes, Working, StopWaits, Turn, Sweep
<1>3. StartsApart'
  <2>1. stopper[s].job \in LocalJob /\ Began(stopper[s].job)
    BY DEF LocalInv, Working, ProcessesKnown, StopWaits
  <2>2. process' = [process EXCEPT ![stopper[s].job] = "gone"] /\ UNCHANGED starter
    BY DEF StopWaits
  <2>3. \A i \in LocalJob : process'[i] # "none" <=> process[i] # "none"
    BY <2>1, <2>2 DEF LocalInv, LocalTypes, Began
  <2> QED
    BY <2>2, <2>3, LocalValues DEF LocalInv, Working, StartsApart, BeforeProcess, Began
<1>4. ProcessesKnown'
  BY LocalValues DEF LocalInv, LocalTypes, Working, StartsApart, ProcessesKnown,
     BeforeProcess, Began, Dead, StopWaits, Turn, Sweep
<1>5. EndedIsDead'
  BY LocalValues DEF LocalInv, LocalTypes, Working, StartsApart, ProcessesKnown,
     BeforeProcess, Began, Dead, EndedIsDead, StopWaits, Turn, Sweep
<1>6. QED
  BY <1>1, <1>2, <1>3, <1>4, <1>5 DEF LocalInv

LEMMA StopSettlesKeeps ==
    ASSUME LocalInv, NEW s \in Servers, StopSettles(s)
    PROVE  LocalInv'
<1> DEFINE j == stopper[s].job
<1>1. /\ j \in LocalJob /\ stopper[s].at = "settle" /\ record[j] \in Record /\ stopper[s] \in Turn
      /\ Dead(j) /\ Began(j) /\ starter \in [Servers -> Turn]
  BY DEF LocalInv, LocalTypes, Working, ProcessesKnown, StopSettles
<1>2. UNCHANGED <<claim, fresh, process, childOf, up, starter, waiter, reaper, troubles>>
  BY DEF StopSettles
<1>3. /\ record' \in {record, [record EXCEPT ![j] = [record[j] EXCEPT !.status = "stopped"]]}
      /\ stopper' \in {[stopper EXCEPT ![s] = [stopper[s] EXCEPT !.at = "release"]],
                        [stopper EXCEPT ![s] = Idle]}
  BY DEF StopSettles
<1>4. /\ record' \in [LocalJob -> Record]
      /\ \A i \in LocalJob : i # j => record'[i] = record[i]
      /\ record'[j].pid = record[j].pid
  <2>1. "stopped" \in Terminal \cup {"none", "running"}
    BY LocalValues
  <2>2. [record[j] EXCEPT !.status = "stopped"] \in Record
    BY <1>1, <2>1, TurnTo
  <2>3. [record[j] EXCEPT !.status = "stopped"].pid = record[j].pid
    BY <1>1 DEF Record
  <2>4. record \in [LocalJob -> Record]
    BY DEF LocalInv, LocalTypes
  <2> HIDE DEF j
  <2> QED
    BY <1>1, <1>3, <2>2, <2>3, <2>4, SetRecord
<1>5. /\ stopper' \in [Servers -> Turn]
      /\ \A t \in Servers : t # s => stopper'[t] = stopper[t]
      /\ stopper'[s].at \in {"idle", "release"} /\ (stopper'[s].at # "idle" => stopper'[s].job = j)
  <2>1. stopper \in [Servers -> Turn] /\ "release" \in Pcs
    BY LocalValues DEF LocalInv, LocalTypes
  <2>2. /\ [stopper[s] EXCEPT !.at = "release"] \in Turn
        /\ [stopper[s] EXCEPT !.at = "release"].at = "release"
        /\ [stopper[s] EXCEPT !.at = "release"].job = j
    BY <1>1, <2>1, TurnTo DEF Turn
  <2>3. PICK t \in {[stopper[s] EXCEPT !.at = "release"], Idle} :
          stopper' = [stopper EXCEPT ![s] = t]
    BY <1>3
  <2>4. t \in Turn /\ t.at \in {"idle", "release"} /\ (t.at # "idle" => t.job = j)
    BY <2>2, LocalValues
  <2> HIDE DEF j
  <2> QED
    BY <2>1, <2>3, <2>4, SetTurn
<1> HIDE DEF j
<1>6. LocalTypes'
  BY <1>2, <1>4, <1>5 DEF LocalInv, LocalTypes
<1>7. Working' /\ StartsApart'
  BY <1>1, <1>2, <1>5 DEF LocalInv, Working, StartsApart, Began
<1>8. ProcessesKnown'
  BY <1>1, <1>2, <1>4, <1>5 DEF LocalInv, ProcessesKnown, Began, Dead
<1>9. EndedIsDead'
  BY <1>1, <1>2, <1>4 DEF LocalInv, EndedIsDead, Dead
<1>10. QED
  BY <1>6, <1>7, <1>8, <1>9 DEF LocalInv

LEMMA StopOverwritesKeeps ==
    ASSUME LocalInv, NEW s \in Servers, StopOverwrites(s)
    PROVE  LocalInv'
<1>1. LocalTypes'
  <2>1. stopper' \in [Servers -> Turn]
    BY LocalValues, TurnTo DEF LocalInv, LocalTypes, Working, StopOverwrites, Exists
  <2>2. record' \in [LocalJob -> Record]
    <3>1. stopper[s].job \in LocalJob /\ stopper[s].seen \in Record /\ "stopped" \in Terminal
      BY LocalValues DEF LocalInv, LocalTypes, Working, StopOverwrites, Turn
    <3>2. [stopper[s].seen EXCEPT !.status = "stopped"] \in Record
      BY <3>1, TurnTo
    <3>3. record' = [record EXCEPT ![stopper[s].job] = [stopper[s].seen EXCEPT !.status = "stopped"]]
      BY DEF StopOverwrites
    <3> QED BY <3>1, <3>2, <3>3, SetRecord DEF LocalInv, LocalTypes
  <2> QED
    BY <2>1, <2>2, LocalValues DEF LocalInv, LocalTypes, Working, StopOverwrites, Exists
<1>2. Working'
  BY LocalValues DEF LocalInv, LocalTypes, Working, StopOverwrites, Exists, Turn, Sweep
<1>3. StartsApart'
  BY LocalValues DEF LocalInv, LocalTypes, Working, StartsApart, ProcessesKnown,
     BeforeProcess, Began, StopOverwrites, Exists, Turn, Sweep
<1>4. ProcessesKnown'
  BY LocalValues DEF LocalInv, LocalTypes, Working, StartsApart, ProcessesKnown,
     BeforeProcess, Began, Dead, StopOverwrites, Exists, Turn, Sweep
<1>5. EndedIsDead'
  BY LocalValues DEF LocalInv, LocalTypes, Working, StartsApart, ProcessesKnown,
     BeforeProcess, Began, Dead, EndedIsDead, StopOverwrites, Exists, Turn, Sweep
<1>6. QED
  BY <1>1, <1>2, <1>3, <1>4, <1>5 DEF LocalInv

LEMMA StopGivesUpKeeps ==
    ASSUME LocalInv, NEW s \in Servers, StopGivesUp(s)
    PROVE  LocalInv'
<1>1. LocalTypes'
  BY LocalValues DEF LocalInv, LocalTypes, Working, StopGivesUp, Turn, Sweep
<1>2. Working'
  BY LocalValues DEF LocalInv, LocalTypes, Working, StopGivesUp, Turn, Sweep
<1>3. StartsApart'
  BY LocalValues DEF LocalInv, LocalTypes, Working, StartsApart, ProcessesKnown,
     BeforeProcess, Began, StopGivesUp, Turn, Sweep
<1>4. ProcessesKnown'
  BY LocalValues DEF LocalInv, LocalTypes, Working, StartsApart, ProcessesKnown,
     BeforeProcess, Began, Dead, StopGivesUp, Turn, Sweep
<1>5. EndedIsDead'
  BY LocalValues DEF LocalInv, LocalTypes, Working, StartsApart, ProcessesKnown,
     BeforeProcess, Began, Dead, EndedIsDead, StopGivesUp, Turn, Sweep
<1>6. QED
  BY <1>1, <1>2, <1>3, <1>4, <1>5 DEF LocalInv

LEMMA StopReleasesKeeps ==
    ASSUME LocalInv, NEW s \in Servers, StopReleases(s)
    PROVE  LocalInv'
<1>1. LocalTypes'
  <2>1. stopper' \in [Servers -> Turn]
    BY LocalValues, TurnTo DEF LocalInv, LocalTypes, Working, StopReleases, AfterLook
  <2> QED
    BY <2>1, LocalValues DEF LocalInv, LocalTypes, Working, StopReleases, AfterLook
<1>2. Working'
  BY LocalValues DEF LocalInv, LocalTypes, Working, StopReleases, AfterLook, Turn, Sweep
<1>3. StartsApart'
  BY LocalValues DEF LocalInv, LocalTypes, Working, StartsApart, ProcessesKnown,
     BeforeProcess, Began, StopReleases, AfterLook, Turn, Sweep
<1>4. ProcessesKnown'
  BY LocalValues DEF LocalInv, LocalTypes, Working, StartsApart, ProcessesKnown,
     BeforeProcess, Began, Dead, StopReleases, AfterLook, Turn, Sweep
<1>5. EndedIsDead'
  BY LocalValues DEF LocalInv, LocalTypes, Working, StartsApart, ProcessesKnown,
     BeforeProcess, Began, Dead, EndedIsDead, StopReleases, AfterLook, Turn, Sweep
<1>6. QED
  BY <1>1, <1>2, <1>3, <1>4, <1>5 DEF LocalInv

LEMMA StopFreesKeeps ==
    ASSUME LocalInv, NEW s \in Servers, StopFrees(s)
    PROVE  LocalInv'
<1>1. LocalTypes'
  BY LocalValues DEF LocalInv, LocalTypes, Working, StopFrees, Turn, Sweep
<1>2. Working'
  BY LocalValues DEF LocalInv, LocalTypes, Working, StopFrees, Turn, Sweep
<1>3. StartsApart'
  BY LocalValues DEF LocalInv, LocalTypes, Working, StartsApart, ProcessesKnown,
     BeforeProcess, Began, StopFrees, Turn, Sweep
<1>4. ProcessesKnown'
  BY LocalValues DEF LocalInv, LocalTypes, Working, StartsApart, ProcessesKnown,
     BeforeProcess, Began, Dead, StopFrees, Turn, Sweep
<1>5. EndedIsDead'
  BY LocalValues DEF LocalInv, LocalTypes, Working, StartsApart, ProcessesKnown,
     BeforeProcess, Began, Dead, EndedIsDead, StopFrees, Turn, Sweep
<1>6. QED
  BY <1>1, <1>2, <1>3, <1>4, <1>5 DEF LocalInv

LEMMA ReapBeginsKeeps ==
    ASSUME LocalInv, NEW s \in Servers, NEW j \in LocalJob, ReapBegins(s, j)
    PROVE  LocalInv'
<1>1. LocalTypes'
  BY LocalValues DEF LocalInv, LocalTypes, Working, ReapBegins, Swept, Exists, Turn, Sweep
<1>2. Working'
  BY LocalValues DEF LocalInv, LocalTypes, Working, ReapBegins, Swept, Exists, Turn, Sweep
<1>3. StartsApart'
  BY LocalValues DEF LocalInv, LocalTypes, Working, StartsApart, ProcessesKnown,
     BeforeProcess, Began, ReapBegins, Swept, Exists, Turn, Sweep
<1>4. ProcessesKnown'
  BY LocalValues DEF LocalInv, LocalTypes, Working, StartsApart, ProcessesKnown,
     BeforeProcess, Began, Dead, ReapBegins, Swept, Exists, Turn, Sweep
<1>5. EndedIsDead'
  BY LocalValues DEF LocalInv, LocalTypes, Working, StartsApart, ProcessesKnown,
     BeforeProcess, Began, Dead, EndedIsDead, ReapBegins, Swept, Exists, Turn, Sweep
<1>6. QED
  BY <1>1, <1>2, <1>3, <1>4, <1>5 DEF LocalInv

LEMMA ReapWritesKeeps ==
    ASSUME LocalInv, ReapWrites
    PROVE  LocalInv'
<1>1. LocalTypes'
  BY LocalValues DEF LocalInv, LocalTypes, Working, ReapWrites, Turn, Sweep
<1>2. Working'
  BY LocalValues DEF LocalInv, LocalTypes, Working, ReapWrites, Turn, Sweep
<1>3. StartsApart'
  BY LocalValues DEF LocalInv, LocalTypes, Working, StartsApart, ProcessesKnown,
     BeforeProcess, Began, ReapWrites, Turn, Sweep
<1>4. ProcessesKnown'
  BY LocalValues DEF LocalInv, LocalTypes, Working, StartsApart, ProcessesKnown,
     BeforeProcess, Began, Dead, ReapWrites, Turn, Sweep
<1>5. EndedIsDead'
  BY LocalValues DEF LocalInv, LocalTypes, Working, StartsApart, ProcessesKnown,
     BeforeProcess, Began, Dead, EndedIsDead, ReapWrites, Turn, Sweep
<1>6. QED
  BY <1>1, <1>2, <1>3, <1>4, <1>5 DEF LocalInv

LEMMA ReapReleasesKeeps ==
    ASSUME LocalInv, ReapReleases
    PROVE  LocalInv'
<1>1. LocalTypes'
  BY LocalValues DEF LocalInv, LocalTypes, Working, ReapReleases, AfterLook, Turn, Sweep
<1>2. Working'
  BY LocalValues DEF LocalInv, LocalTypes, Working, ReapReleases, AfterLook, Turn, Sweep
<1>3. StartsApart'
  BY LocalValues DEF LocalInv, LocalTypes, Working, StartsApart, ProcessesKnown,
     BeforeProcess, Began, ReapReleases, AfterLook, Turn, Sweep
<1>4. ProcessesKnown'
  BY LocalValues DEF LocalInv, LocalTypes, Working, StartsApart, ProcessesKnown,
     BeforeProcess, Began, Dead, ReapReleases, AfterLook, Turn, Sweep
<1>5. EndedIsDead'
  BY LocalValues DEF LocalInv, LocalTypes, Working, StartsApart, ProcessesKnown,
     BeforeProcess, Began, Dead, EndedIsDead, ReapReleases, AfterLook, Turn, Sweep
<1>6. QED
  BY <1>1, <1>2, <1>3, <1>4, <1>5 DEF LocalInv

LEMMA ReapFreesKeeps ==
    ASSUME LocalInv, ReapFrees
    PROVE  LocalInv'
<1>1. LocalTypes'
  BY LocalValues DEF LocalInv, LocalTypes, Working, ReapFrees, Turn, Sweep
<1>2. Working'
  BY LocalValues DEF LocalInv, LocalTypes, Working, ReapFrees, Turn, Sweep
<1>3. StartsApart'
  BY LocalValues DEF LocalInv, LocalTypes, Working, StartsApart, ProcessesKnown,
     BeforeProcess, Began, ReapFrees, Turn, Sweep
<1>4. ProcessesKnown'
  BY LocalValues DEF LocalInv, LocalTypes, Working, StartsApart, ProcessesKnown,
     BeforeProcess, Began, Dead, ReapFrees, Turn, Sweep
<1>5. EndedIsDead'
  BY LocalValues DEF LocalInv, LocalTypes, Working, StartsApart, ProcessesKnown,
     BeforeProcess, Began, Dead, EndedIsDead, ReapFrees, Turn, Sweep
<1>6. QED
  BY <1>1, <1>2, <1>3, <1>4, <1>5 DEF LocalInv

LEMMA AgesKeeps ==
    ASSUME LocalInv, Ages
    PROVE  LocalInv'
<1>1. LocalTypes'
  BY LocalValues DEF LocalInv, LocalTypes, Working, Ages, Turn, Sweep
<1>2. Working'
  BY LocalValues DEF LocalInv, LocalTypes, Working, Ages, Turn, Sweep
<1>3. StartsApart'
  BY LocalValues DEF LocalInv, LocalTypes, Working, StartsApart, ProcessesKnown,
     BeforeProcess, Began, Ages, Turn, Sweep
<1>4. ProcessesKnown'
  BY LocalValues DEF LocalInv, LocalTypes, Working, StartsApart, ProcessesKnown,
     BeforeProcess, Began, Dead, Ages, Turn, Sweep
<1>5. EndedIsDead'
  BY LocalValues DEF LocalInv, LocalTypes, Working, StartsApart, ProcessesKnown,
     BeforeProcess, Began, Dead, EndedIsDead, Ages, Turn, Sweep
<1>6. QED
  BY <1>1, <1>2, <1>3, <1>4, <1>5 DEF LocalInv

LEMMA ServerEndsKeeps ==
    ASSUME LocalInv, NEW s \in Servers, ServerEnds(s)
    PROVE  LocalInv'
<1>1. LocalTypes'
  <2>1. starter' \in [Servers -> Turn]
    BY LocalValues, TurnTo DEF LocalInv, LocalTypes, Working, ServerEnds, Exists
  <2>2. stopper' \in [Servers -> Turn]
    BY LocalValues, TurnTo DEF LocalInv, LocalTypes, Working, ServerEnds, Exists
  <2>3. process' \in [LocalJob -> {"none", "alive", "ended", "killed", "gone"}]
    <3>1. \A j \in LocalJob : process[j] \in {"none", "alive", "ended", "killed", "gone"}
      BY DEF LocalInv, LocalTypes
    <3>2. process' = [j \in LocalJob |-> IF childOf[j] = s /\ Exists(j) /\ process[j] # "alive"
                                          THEN "gone" ELSE process[j]]
      BY DEF ServerEnds
    <3> QED BY <3>1, <3>2
  <2> QED
    BY <2>1, <2>2, <2>3, LocalValues DEF LocalInv, LocalTypes, Working, ServerEnds, Exists
<1>2. Working'
  BY LocalValues DEF LocalInv, LocalTypes, Working, ServerEnds, Exists, Turn, Sweep
<1>3. StartsApart'
  BY LocalValues DEF LocalInv, LocalTypes, Working, StartsApart, ProcessesKnown,
     BeforeProcess, Began, ServerEnds, Exists, Turn, Sweep
<1>4. ProcessesKnown'
  BY LocalValues DEF LocalInv, LocalTypes, Working, StartsApart, ProcessesKnown,
     BeforeProcess, Began, Dead, ServerEnds, Exists, Turn, Sweep
<1>5. EndedIsDead'
  BY LocalValues DEF LocalInv, LocalTypes, Working, StartsApart, ProcessesKnown,
     BeforeProcess, Began, Dead, EndedIsDead, ServerEnds, Exists, Turn, Sweep
<1>6. QED
  BY <1>1, <1>2, <1>3, <1>4, <1>5 DEF LocalInv

LEMMA ServerStartsKeeps ==
    ASSUME LocalInv, NEW s \in Servers, ServerStarts(s)
    PROVE  LocalInv'
<1>1. LocalTypes'
  BY LocalValues DEF LocalInv, LocalTypes, Working, ServerStarts, Turn, Sweep
<1>2. Working'
  BY LocalValues DEF LocalInv, LocalTypes, Working, ServerStarts, Turn, Sweep
<1>3. StartsApart'
  BY LocalValues DEF LocalInv, LocalTypes, Working, StartsApart, ProcessesKnown,
     BeforeProcess, Began, ServerStarts, Turn, Sweep
<1>4. ProcessesKnown'
  BY LocalValues DEF LocalInv, LocalTypes, Working, StartsApart, ProcessesKnown,
     BeforeProcess, Began, Dead, ServerStarts, Turn, Sweep
<1>5. EndedIsDead'
  BY LocalValues DEF LocalInv, LocalTypes, Working, StartsApart, ProcessesKnown,
     BeforeProcess, Began, Dead, EndedIsDead, ServerStarts, Turn, Sweep
<1>6. QED
  BY <1>1, <1>2, <1>3, <1>4, <1>5 DEF LocalInv

\* An identifier that is drawn is nobody's.
LEMMA DrawnIsUnused == Unused # {} => Drawn \in Unused
<1>1. Unused \subseteq Nat
  BY LocalJobsAssumption DEF Unused, LocalJob
<1>2. QED
  BY <1>1, LeastOfSet DEF Drawn

LEMMA StartBeginsKeeps ==
    ASSUME LocalInv, NEW s \in Servers, StartBegins(s)
    PROVE  LocalInv'
<1> DEFINE j == Drawn
<1>1. /\ starter[s].at = "idle" /\ starter[s] \in Turn /\ starter \in [Servers -> Turn]
  BY DEF LocalInv, LocalTypes, StartBegins
<1>0. j \in LocalJob /\ ~Began(j) /\ \A t \in Servers : starter[t].job # j
  BY DrawnIsUnused DEF StartBegins, Unused, Began
<1>2. /\ claim' \in {claim, j} /\ fresh' \in {fresh, fresh \cup {NoClaim}}
      /\ UNCHANGED <<record, process, childOf, up, waiter, stopper, reaper, troubles>>
  BY DEF StartBegins, Opens
<1>3. PICK a \in {"record", "look"} :
        starter' = [starter EXCEPT ![s] = [starter[s] EXCEPT !.at = a, !.job = j]]
  BY DEF StartBegins, Opens
<1>4. /\ starter' \in [Servers -> Turn]
      /\ \A t \in Servers : t # s => starter'[t] = starter[t]
      /\ starter'[s].at = a /\ starter'[s].job = j
  <2>1. a \in Pcs
    BY LocalValues
  <2>2. [starter[s] EXCEPT !.at = a, !.job = j] \in Turn
    <3> HIDE DEF j
    <3> QED BY <1>0, <1>1, <2>1, TurnTo
  <2>3. /\ [starter[s] EXCEPT !.at = a, !.job = j].at = a
        /\ [starter[s] EXCEPT !.at = a, !.job = j].job = j
    BY <1>1 DEF Turn
  <2> HIDE DEF j
  <2> QED
    BY <1>1, <1>3, <2>2, <2>3, SetTurn
<1> HIDE DEF j
<1>6. LocalTypes'
  BY <1>0, <1>2, <1>4 DEF LocalInv, LocalTypes
<1>7. Working'
  BY <1>0, <1>2, <1>4 DEF LocalInv, Working
<1>8. StartsApart'
  <2>1. a \in BeforeProcess /\ a # "pid"
    BY DEF BeforeProcess
  <2> QED
    BY <1>0, <1>2, <1>4, <2>1 DEF LocalInv, StartsApart, Began
<1>9. ProcessesKnown' /\ EndedIsDead'
  BY <1>2 DEF LocalInv, ProcessesKnown, EndedIsDead, Began, Dead
<1>10. QED
  BY <1>6, <1>7, <1>8, <1>9 DEF LocalInv

-----------------------------------------------------------------------------
(* The local jobs: the theorem                                             *)

LEMMA LocalInvInit == LocalInit => LocalInv
<1> SUFFICES ASSUME LocalInit PROVE LocalInv
  OBVIOUS
<1>1. LocalTypes /\ Working
  BY LocalValues, LocalJobsAssumption DEF LocalInit, LocalTypes, Working
<1>2. StartsApart /\ ProcessesKnown
  BY LocalValues DEF LocalInit, StartsApart, ProcessesKnown, BeforeProcess
<1>3. EndedIsDead
  BY LocalValues DEF LocalInit, EndedIsDead
<1>4. QED
  BY <1>1, <1>2, <1>3 DEF LocalInv

LEMMA LocalInvKept == LocalInv /\ [LocalNext]_localVars => LocalInv'
<1> SUFFICES ASSUME LocalInv, [LocalNext]_localVars PROVE LocalInv'
  OBVIOUS
<1>1. ASSUME NEW s \in Servers, StartSteps(s) PROVE LocalInv'
  BY <1>1, OpensAgainKeeps, LooksKeeps, UnlinksKeeps, RecordsKeeps, SpawnsKeeps,
     IdentifiesKeeps,
     StarterReleasesKeeps, StarterFreesKeeps DEF StartSteps
<1>2. ASSUME NEW j \in LocalJob, WaitSteps(j) PROVE LocalInv'
  BY <1>2, WaitsKeeps, SettlesKeeps, WaiterReleasesKeeps, WaiterFreesKeeps DEF WaitSteps
<1>3. ASSUME NEW s \in Servers, StopSteps(s) PROVE LocalInv'
  BY <1>3, StopMarksKeeps, StopKillsKeeps, StopWaitsKeeps, StopSettlesKeeps,
     StopOverwritesKeeps,
     StopGivesUpKeeps, StopReleasesKeeps, StopFreesKeeps DEF StopSteps
<1>4. ASSUME ReapSteps PROVE LocalInv'
  BY <1>4, ReapWritesKeeps, ReapReleasesKeeps, ReapFreesKeeps DEF ReapSteps
<1>5. ASSUME ProceedsLocally PROVE LocalInv'
  BY <1>2, <1>3, <1>4, <1>5, ServerStartsKeeps, ReapBeginsKeeps,
     AgesKeeps DEF ProceedsLocally
<1>6. ASSUME UNCHANGED localVars PROVE LocalInv'
  BY <1>6 DEF localVars, LocalInv, LocalTypes, Working, StartsApart, ProcessesKnown,
     EndedIsDead,
              Began, Dead
<1>7. QED
  BY <1>1, <1>5, <1>6, StartBeginsKeeps, StartFailsKeeps, ServerEndsKeeps, ProcessEndsKeeps,
     StopBeginsKeeps DEF LocalNext

LEMMA LocalInvMeans == LocalInv => LocalTypeOK
<1> SUFFICES ASSUME LocalInv PROVE LocalTypeOK
  OBVIOUS
<1>1. \A j \in LocalJob : record[j] \in Record
  BY DEF LocalInv, LocalTypes
<1>2. \A s \in Servers : starter[s].at \in Pcs /\ stopper[s].at \in Pcs
  BY DEF LocalInv, LocalTypes, Turn
<1>3. QED
  BY <1>1, <1>2 DEF LocalInv, LocalTypes, LocalTypeOK, Record, Sweep

\* However starts, stops, waits and sweeps of several dashboards interleave, fail
\* or end with their dashboard, a record that knows its process does not say that
\* the job ended while that process lives (jobs.py start, _wait, stop,
\* reap_orphans): the safety part of LocalRecordsHold.
THEOREM EndedAreDead == LocalSpec => [](LocalTypeOK /\ EndedIsDead)
<1>1. LocalInv => LocalTypeOK /\ EndedIsDead
  BY LocalInvMeans DEF LocalInv
<1>2. QED
  BY <1>1, LocalInvInit, LocalInvKept, PTL DEF LocalSpec
=============================================================================
