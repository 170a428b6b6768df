---------------------------- MODULE OutwardProofs -----------------------------
(***************************************************************************)
(* Where the program meets other tenants in its process, and people        *)
(* outside: that tenants which share a process do not meet in it           *)
(* (Contexts), for any number of threads, whatever they serve and wherever *)
(* a URL leads; and that mails follow confirmations (Outreach), for any    *)
(* number of editors, workers, letters and mishaps.                        *)
(*                                                                         *)
(* A thread that changes the process holds its lock from before the change *)
(* to after the restoration, so what it keeps to restore is the process as *)
(* it was, and what it finds between is its own (Held). The guard on the   *)
(* network is shared: it stays while one thread is counted (GuardFits). A  *)
(* task runs while the thread it came from waits for it, with a copy of    *)
(* what that thread has (TaskFits).                                        *)
(*                                                                         *)
(* The project lock is held from the claim of a draft to its end, so the   *)
(* draft stays in sending, as it was confirmed, while its mail is on the   *)
(* way (KeyHeld, OnItsWay). A draft in the queue has sent nothing for its  *)
(* confirmation; one left in sending has sent no more than runs died for   *)
(* it (Budgeted). Only a confirmation brings a draft back into the queue,  *)
(* and that one is new.                                                    *)
(***************************************************************************)
EXTENDS Contexts, Outreach, FiniteSetTheorems, SequenceTheorems, WellFoundedInduction, TLAPS

-----------------------------------------------------------------------------
(* Contexts: the values                                                     *)

Who == Threads \cup {Nobody}
KeyOwner == Threads \cup {"host", "pool", Nobody}
Environment == [keys : [Names -> KeyOwner], platform : BOOLEAN, alone : BOOLEAN]
Context == [work : Who, guarded : BOOLEAN, locks : {"file", "none", "redis"}, metered : BOOLEAN]
Frame == [env : Environment, prefs : Who, custom : Who, limit : Nat, pool : BOOLEAN]
Guard == [count : Nat, original : {"none", "plain", "guard"}, request : {"plain", "guard"}]

Holding == {"inject", "count", "install", "register", "wrap", "body", "unwrap",
            "unregister", "uncount", "restore", "unlock"}
Place == Holding \cup {"start", "enter", "wait", "leave", "tenant limit", "decide", "done"}

ContextTypes ==
    /\ load \in Loads
    /\ pc \in [Threads -> Place]
    /\ env \in [Homes -> Environment]
    /\ lock \in [Homes -> [by : Who, depth : Nat]]
    /\ registry \in [Homes -> Who] /\ prefs \in [Homes -> Who]
    /\ guard \in [Homes -> Guard]
    /\ patched \in [Homes -> BOOLEAN]
    /\ ctx \in [Threads -> Context]
    /\ frame \in [Threads -> Frame]
    /\ meter \in [asked : Nat, counted : Nat]

\* Each kind of work has its way through the context.
PlaceFits(t) ==
    /\ pc[t] \in {"wait", "inject", "register", "unregister", "restore", "unlock"} => NeedsProcessState(t)
    /\ pc[t] \in {"wrap", "unwrap"} => load[t] = "job"
    /\ pc[t] \in {"count", "install", "uncount"} => load[t] # "read"
    /\ pc[t] # "done" => load[t] # "none"

-----------------------------------------------------------------------------
(* What a thread holds of its process.                                     *)

Holds(t) == NeedsProcessState(t) /\ pc[t] \in Holding
Injected(t) == pc[t] \notin {"inject", "unlock"}
Registered(t) == pc[t] \in {"wrap", "body", "unwrap", "unregister"}
Wrapped(t) == load[t] = "job" /\ pc[t] \in {"body", "unwrap"}

Normal(h) == [keys |-> IF h = "api" THEN OfTheHost ELSE NoKeys, platform |-> h = "api", alone |-> h = "worker"]
Own(t) == [keys |-> KeysOf(t), platform |-> FALSE, alone |-> FALSE]

\* The process of a thread that holds it ...
Holder(t) ==
    /\ lock[Home(t)].by = t
    /\ lock[Home(t)].depth = IF Wrapped(t) THEN 2 ELSE 1
    /\ Injected(t) => env[Home(t)] = Own(t) /\ frame[t].env = Normal(Home(t))
    /\ ~Injected(t) => env[Home(t)] = Normal(Home(t))
    /\ Registered(t) => /\ registry[Home(t)] = ProviderOf(t) /\ prefs[Home(t)] = ProviderOf(t)
                        /\ frame[t].custom = Nobody /\ frame[t].prefs = Nobody
    /\ ~Registered(t) => registry[Home(t)] = Nobody /\ prefs[Home(t)] = Nobody
    /\ Wrapped(t) => patched[Home(t)] = TRUE
    /\ ~Wrapped(t) => patched[Home(t)] = FALSE

\* ... and one that nobody holds.
FreeProcess(h) ==
    /\ lock[h].by = Nobody /\ lock[h].depth = 0
    /\ env[h] = Normal(h)
    /\ registry[h] = Nobody /\ prefs[h] = Nobody /\ patched[h] = FALSE

NobodyHolds(h) == \A t \in Threads : Home(t) = h => ~Holds(t)

Held == /\ \A t \in Threads : Holds(t) => Holder(t)
        /\ \A h \in Homes : NobodyHolds(h) => FreeProcess(h)

-----------------------------------------------------------------------------
(* The guard, the contexts and the tasks.                                  *)

Guarding(t) ==
    /\ load[t] # "read"
    /\ pc[t] \in {"install", "register", "wrap", "body", "unwrap", "unregister", "uncount"}
GuardsOf(h) == {t \in Threads : Home(t) = h /\ Guarding(t)}

GuardFits ==
    \A h \in Homes :
        /\ guard[h].count = Cardinality(GuardsOf(h))
        /\ guard[h].original = IF GuardsOf(h) = {} THEN "none" ELSE "plain"
        /\ GuardsOf(h) = {} => guard[h].request = "plain"
        /\ \A t \in GuardsOf(h) : pc[t] # "install" => guard[h].request = "guard"

ContextFits(t) ==
    /\ pc[t] \in {"enter", "wait"} \cup Holding /\ load[t] = "job" => ctx[t].metered = TRUE
    /\ pc[t] \in {"wait"} \cup Holding =>
           ctx[t].work = t /\ ctx[t].locks = IF t = "child" THEN "none" ELSE "redis"
    /\ Guarding(t) /\ pc[t] # "install" => ctx[t].guarded = TRUE

TaskFits(k) ==
    /\ k.of \in Threads /\ pc[k.of] = "body" /\ load[k.of] \in {"write", "job"}
    /\ k.ctx = ctx[k.of]
    /\ k.what = "ask" => load[k.of] = "job"

ContextsInv ==
    /\ ContextTypes
    /\ \A t \in Threads : PlaceFits(t)
    /\ Held
    /\ GuardFits
    /\ \A t \in Threads : ContextFits(t)
    /\ \A k \in tasks : TaskFits(k)
    /\ \A s \in seen : s.where = s.of /\ s.ok
    /\ meter.counted = meter.asked

-----------------------------------------------------------------------------
(* Threads and their processes.                                            *)

LEMMA LoadIs ==
    ASSUME ContextTypes, NEW t \in Threads
    PROVE  /\ load[t] \in Kinds
           /\ load[t] = "job" => t = "child"
           /\ t = "child" => load[t] \in {"job", "none"}
  BY ContextsAssumption DEF ContextTypes, Threads, Kinds

LEMMA HomeIs ==
    ASSUME NEW t \in Threads
    PROVE  /\ Home(t) \in Homes /\ t # Nobody
           /\ Home(t) = "worker" <=> t = "child"
           /\ Home(t) = "api" <=> t # "child"
  BY ContextsAssumption DEF Home, Homes, Threads, Nobody

\* One thread moves.
LEMMA Moved ==
    ASSUME ContextTypes, NEW t \in Threads, NEW p, Go(t, p), p \in Place
    PROVE  /\ pc' \in [Threads -> Place] /\ pc'[t] = p
           /\ \A u \in Threads : u # t => pc'[u] = pc[u]
  BY DEF ContextTypes, Go

\* Two threads of a process do not hold it together.
LEMMA OneHolder ==
    ASSUME Held, NEW t \in Threads, NEW u \in Threads, Holds(t), Holds(u), Home(t) = Home(u)
    PROVE  t = u
  BY DEF Held, Holder

\* What a step of one thread has to show.
LEMMA Assemble ==
    ASSUME ContextsInv, NEW t \in Threads,
           \A u \in Threads : u # t => pc'[u] = pc[u] /\ ctx'[u] = ctx[u],
           pc[t] = "body" => Idle(t),
           UNCHANGED <<load, tasks, seen, meter>>,
           ContextTypes', PlaceFits(t)', Held', GuardFits', ContextFits(t)'
    PROVE  ContextsInv'
<1>1. \A u \in Threads : PlaceFits(u)'
  BY DEF ContextsInv, PlaceFits, NeedsProcessState
<1>2. \A u \in Threads : ContextFits(u)'
  <2>1. ASSUME NEW u \in Threads, u # t
        PROVE  ContextFits(u)'
    BY <2>1 DEF ContextsInv, ContextFits, Guarding
  <2>2. QED
    BY <2>1
<1>3. \A k \in tasks' : TaskFits(k)'
  <2>1. ASSUME NEW k \in tasks
        PROVE  TaskFits(k)'
    <3>1. TaskFits(k)
      BY DEF ContextsInv
    <3>2. k.of # t
      BY <3>1 DEF TaskFits, Idle
    <3>3. QED
      BY <3>1, <3>2 DEF TaskFits
  <2>2. QED
    BY <2>1
<1>4. QED
  BY <1>1, <1>2, <1>3 DEF ContextsInv

-----------------------------------------------------------------------------
(* Steps beside the process.                                               *)

\* A thread moves, and holds what it held.
SameHold(t) ==
    /\ Holds(t)' <=> Holds(t)
    /\ Holds(t) => /\ Injected(t)' <=> Injected(t)
                   /\ Registered(t)' <=> Registered(t)
                   /\ Wrapped(t)' <=> Wrapped(t)

LEMMA HeldStays ==
    ASSUME Held, NEW t \in Threads, UNCHANGED <<load, env, lock, registry, prefs, patched>>,
           \A u \in Threads : u # t => pc'[u] = pc[u],
           \A u \in Threads : /\ frame'[u].env = frame[u].env
                              /\ frame'[u].custom = frame[u].custom
                              /\ frame'[u].prefs = frame[u].prefs,
           SameHold(t)
    PROVE  Held'
<1>1. \A u \in Threads : u # t => SameHold(u)
  BY DEF SameHold, Holds, Injected, Registered, Wrapped, NeedsProcessState
<1>2. \A u \in Threads : SameHold(u)
  BY <1>1
<1>3. ASSUME NEW u \in Threads, Holds(u)'
      PROVE  Holder(u)'
  <2>1. Holder(u) /\ SameHold(u) /\ Holds(u)
    BY <1>2, <1>3 DEF Held, SameHold
  <2>2. KeysOf(u)' = KeysOf(u) /\ ProviderOf(u)' = ProviderOf(u)
    BY DEF KeysOf, ProviderOf, HasProvider
  <2>3. QED
    BY <2>1, <2>2 DEF Holder, SameHold, Own
<1>4. ASSUME NEW h \in Homes, NobodyHolds(h)'
      PROVE  FreeProcess(h)'
  <2>1. NobodyHolds(h)
    BY <1>2, <1>4 DEF NobodyHolds, SameHold
  <2>2. QED
    BY <2>1 DEF Held, FreeProcess
<1>5. QED
  BY <1>3, <1>4 DEF Held

LEMMA GuardStays ==
    ASSUME GuardFits, NEW t \in Threads, UNCHANGED <<load, guard>>,
           \A u \in Threads : u # t => pc'[u] = pc[u],
           Guarding(t)' <=> Guarding(t),
           Guarding(t) => (pc'[t] # "install" => pc[t] # "install")
    PROVE  GuardFits'
<1>1. \A u \in Threads : Guarding(u)' <=> Guarding(u)
  BY DEF Guarding
<1>2. \A h \in Homes : GuardsOf(h)' = GuardsOf(h)
  BY <1>1 DEF GuardsOf
<1>3. ASSUME NEW h \in Homes, NEW u \in GuardsOf(h), pc'[u] # "install"
      PROVE  pc[u] # "install"
  BY <1>3 DEF GuardsOf
<1>4. QED
  BY <1>2, <1>3 DEF GuardFits

LEMMA Normals ==
    /\ Normal("api").alone = FALSE /\ Normal("worker").alone = TRUE
    /\ "api" \in Homes /\ "worker" \in Homes
  BY DEF Normal, Homes

\* No step but inject_keys hides that a worker's child takes no project lock.
LEMMA LocksAre ==
    ASSUME ContextsInv, NEW t \in Threads, pc[t] = "enter"
    PROVE  LocksOf(t) = IF t = "child" THEN "none" ELSE "redis"
<1>1. Held /\ ~Holds(t)
  BY DEF ContextsInv, Holds, Holding
<1>2. CASE t = "child"
  <2>1. \A u \in Threads : Home(u) = "worker" => u = t
    BY <1>2, HomeIs
  <2>2. NobodyHolds("worker")
    BY <1>1, <2>1 DEF NobodyHolds
  <2>3. env["worker"].alone = TRUE
    BY <1>1, <2>2, Normals DEF Held, FreeProcess
  <2>4. Home(t) = "worker"
    BY <1>2, HomeIs
  <2>5. QED
    BY <1>2, <2>3, <2>4 DEF LocksOf
<1>3. CASE t # "child"
  <2>1. Home(t) = "api"
    BY <1>3, HomeIs
  <2>2. env["api"].alone = FALSE
    <3>1. CASE NobodyHolds("api")
      BY <1>1, <3>1, Normals DEF Held, FreeProcess
    <3>2. ASSUME NEW u \in Threads, Home(u) = "api", Holds(u)
          PROVE  env["api"].alone = FALSE
      <4>1. Holder(u)
        BY <1>1, <3>2 DEF Held
      <4>2. Own(u).alone = FALSE
        BY DEF Own
      <4>3. QED
        BY <3>2, <4>1, <4>2, Normals DEF Holder
    <3>3. QED
      BY <3>1, <3>2 DEF NobodyHolds
  <2>3. QED
    BY <1>3, <2>1, <2>2 DEF LocksOf
<1>4. QED
  BY <1>2, <1>3

\* Before a thread holds anything, and after.
LEMMA OutsideKeeps ==
    ASSUME ContextsInv, NEW t \in Threads, NEW p, Go(t, p),
           p \in {"enter", "tenant limit", "decide", "done"},
           pc[t] \in {"start", "leave", "tenant limit", "decide"},
           UNCHANGED <<load, env, lock, registry, prefs, guard, patched, tasks, seen, meter>>,
           ctx' \in [Threads -> Context], frame' \in [Threads -> Frame],
           \A u \in Threads : u # t => ctx'[u] = ctx[u],
           \A u \in Threads : /\ frame'[u].env = frame[u].env
                              /\ frame'[u].custom = frame[u].custom
                              /\ frame'[u].prefs = frame[u].prefs,
           p = "enter" /\ load[t] = "job" => ctx'[t].metered = TRUE
    PROVE  ContextsInv'
<1>1. /\ pc' \in [Threads -> Place] /\ pc'[t] = p
      /\ \A u \in Threads : u # t => pc'[u] = pc[u]
  BY Moved DEF ContextsInv, Place
<1>2. ContextTypes'
  BY <1>1 DEF ContextsInv, ContextTypes
<1>3. PlaceFits(t)'
  BY <1>1 DEF ContextsInv, PlaceFits
<1>4. ~Holds(t)' /\ ~Holds(t) /\ ~Guarding(t)' /\ ~Guarding(t)
  BY <1>1 DEF Holds, Holding, Guarding
<1>5. Held'
  <2>1. SameHold(t)
    BY <1>4 DEF SameHold
  <2>2. QED
    BY <1>1, <2>1, HeldStays DEF ContextsInv
<1>6. GuardFits'
  BY <1>1, <1>4, GuardStays DEF ContextsInv
<1>7. ContextFits(t)'
  BY <1>1, <1>4 DEF ContextFits, Holding
<1>8. QED
  BY <1>1, <1>2, <1>3, <1>5, <1>6, <1>7, Assemble

LEMMA StartsKeeps ==
    ASSUME ContextsInv, NEW t \in Threads, Starts(t)
    PROVE  ContextsInv'
<1> DEFINE v == [ctx[t] EXCEPT !.metered = load[t] = "job"]
<1>1. ctx \in [Threads -> Context] /\ ctx[t] \in Context /\ frame \in [Threads -> Frame]
  BY DEF ContextsInv, ContextTypes
<1>2. v \in Context
  BY <1>1 DEF Context
<1>3. load[t] = "job" => v.metered = TRUE
  BY <1>1 DEF Context
<1>4. ctx' = [ctx EXCEPT ![t] = v]
  BY DEF Starts
<1> HIDE DEF v
<1>5. /\ ctx' \in [Threads -> Context] /\ ctx'[t] = v
      /\ \A u \in Threads : u # t => ctx'[u] = ctx[u]
  BY <1>1, <1>2, <1>4
<1>6. /\ Go(t, "enter") /\ pc[t] = "start"
      /\ UNCHANGED <<load, env, lock, registry, prefs, guard, patched, frame, tasks, seen, meter>>
  BY DEF Starts, At
<1>7. QED
  BY <1>1, <1>3, <1>5, <1>6, OutsideKeeps

LEMMA LeavesKeeps ==
    ASSUME ContextsInv, NEW t \in Threads, Leaves(t)
    PROVE  ContextsInv'
<1>1. ctx \in [Threads -> Context] /\ frame \in [Threads -> Frame]
  BY DEF ContextsInv, ContextTypes
<1>2. Outside \in Context
  BY DEF Outside, Context, Who
<1>3. ctx' = [ctx EXCEPT ![t] = Outside]
  BY DEF Leaves
<1>4. /\ ctx' \in [Threads -> Context]
      /\ \A u \in Threads : u # t => ctx'[u] = ctx[u]
  BY <1>1, <1>2, <1>3
<1>5. /\ Go(t, IF load[t] = "reserve" THEN "tenant limit" ELSE "done") /\ pc[t] = "leave"
      /\ UNCHANGED <<load, env, lock, registry, prefs, guard, patched, frame, tasks, seen, meter>>
  BY DEF Leaves, At
<1>6. PICK p : Go(t, p) /\ p \in {"enter", "tenant limit", "decide", "done"} /\ p # "enter"
  BY <1>5
<1>7. QED
  BY <1>1, <1>4, <1>5, <1>6, OutsideKeeps

\* The steps of a reservation around its context
LEMMA ReservationKeeps ==
    ASSUME ContextsInv, NEW t \in Threads, Reserves(t) \/ ReadsLimit(t) \/ Decides(t)
    PROVE  ContextsInv'
<1>1. /\ ctx \in [Threads -> Context] /\ frame \in [Threads -> Frame] /\ frame[t] \in Frame
      /\ env["api"].platform \in BOOLEAN
  BY Normals DEF ContextsInv, ContextTypes, Environment
<1>2. TenantLimit \in Nat
  BY ContextsAssumption DEF TenantLimit, DefaultLimit
<1>3. PICK v : /\ v \in Frame /\ frame' = [frame EXCEPT ![t] = v]
               /\ v.env = frame[t].env /\ v.custom = frame[t].custom /\ v.prefs = frame[t].prefs
  <2>1. CASE Reserves(t)
    <3> DEFINE v == [frame[t] EXCEPT !.pool = env["api"].platform]
    <3>1. v \in Frame /\ v.env = frame[t].env /\ v.custom = frame[t].custom /\ v.prefs = frame[t].prefs
      BY <1>1 DEF Frame
    <3>2. frame' = [frame EXCEPT ![t] = v]
      BY <2>1 DEF Reserves
    <3> HIDE DEF v
    <3>3. QED
      BY <3>1, <3>2
  <2>2. CASE ReadsLimit(t)
    <3> DEFINE v == [frame[t] EXCEPT !.limit = TenantLimit]
    <3>1. v \in Frame /\ v.env = frame[t].env /\ v.custom = frame[t].custom /\ v.prefs = frame[t].prefs
      BY <1>1, <1>2 DEF Frame
    <3>2. frame' = [frame EXCEPT ![t] = v]
      BY <2>2 DEF ReadsLimit
    <3> HIDE DEF v
    <3>3. QED
      BY <3>1, <3>2
  <2>3. CASE Decides(t)
    <3>1. frame' = frame
      BY <2>3 DEF Decides
    <3>2. frame' = [frame EXCEPT ![t] = frame[t]]
      BY <1>1, <3>1
    <3>3. QED
      BY <1>1, <3>2
  <2>4. QED
    BY <2>1, <2>2, <2>3
<1>4. /\ frame' \in [Threads -> Frame]
      /\ \A u \in Threads : /\ frame'[u].env = frame[u].env
                            /\ frame'[u].custom = frame[u].custom
                            /\ frame'[u].prefs = frame[u].prefs
  BY <1>1, <1>3
<1>5. UNCHANGED <<load, env, lock, registry, prefs, guard, patched, ctx, tasks, seen, meter>>
  BY DEF Reserves, ReadsLimit, Decides
<1>6. PICK p : /\ Go(t, p) /\ p \in {"enter", "tenant limit", "decide", "done"}
               /\ pc[t] \in {"start", "leave", "tenant limit", "decide"}
               /\ p = "enter" => load[t] = "reserve"
  <2>1. CASE Reserves(t)
    <3>1. Go(t, "enter") /\ pc[t] = "start" /\ load[t] = "reserve"
      BY <2>1 DEF Reserves, At
    <3>2. QED
      BY <3>1, Zenon
  <2>2. CASE ReadsLimit(t)
    <3>1. Go(t, "decide") /\ pc[t] = "tenant limit"
      BY <2>2 DEF ReadsLimit, At
    <3>2. "decide" # "enter"
      OBVIOUS
    <3>3. QED
      BY <3>1, <3>2, Zenon
  <2>3. CASE Decides(t)
    <3>1. Go(t, "done") /\ pc[t] = "decide"
      BY <2>3 DEF Decides, At
    <3>2. "done" # "enter"
      OBVIOUS
    <3>3. QED
      BY <3>1, <3>2, Zenon
  <2>4. QED
    BY <2>1, <2>2, <2>3
<1>7. QED
  BY <1>1, <1>4, <1>5, <1>6, OutsideKeeps

\* A thread's context is the tenant's from here.
LEMMA EntersKeeps ==
    ASSUME ContextsInv, NEW t \in Threads, Enters(t)
    PROVE  ContextsInv'
<1> DEFINE v == [ctx[t] EXCEPT !.work = t, !.locks = LocksOf(t)]
<1>1. /\ ctx \in [Threads -> Context] /\ ctx[t] \in Context /\ pc[t] = "enter"
      /\ load[t] = "job" => ctx[t].metered = TRUE
  BY DEF ContextsInv, ContextTypes, ContextFits, Enters, At
<1>2. LocksOf(t) = IF t = "child" THEN "none" ELSE "redis"
  BY <1>1, LocksAre
<1>3. v \in Context /\ v.work = t /\ v.locks = LocksOf(t) /\ v.metered = ctx[t].metered
  BY <1>1, <1>2 DEF Context, Who
<1>4. ctx' = [ctx EXCEPT ![t] = v]
  BY DEF Enters
<1> HIDE DEF v
<1>5. /\ ctx' \in [Threads -> Context] /\ ctx'[t] = v
      /\ \A u \in Threads : u # t => ctx'[u] = ctx[u]
  BY <1>1, <1>3, <1>4
<1>6. UNCHANGED <<load, env, lock, registry, prefs, guard, patched, frame, tasks, seen, meter>>
  BY DEF Enters
<1>7. PICK p : /\ Go(t, p)
               /\ \/ p = "body" /\ load[t] = "read"
                  \/ p = "wait" /\ NeedsProcessState(t)
                  \/ p = "count" /\ load[t] # "read" /\ ~NeedsProcessState(t)
  <2>1. Go(t, IF load[t] = "read" THEN "body" ELSE IF NeedsProcessState(t) THEN "wait" ELSE "count")
    BY DEF Enters
  <2>2. QED
    BY <2>1
<1>8. /\ pc' \in [Threads -> Place] /\ pc'[t] = p
      /\ \A u \in Threads : u # t => pc'[u] = pc[u]
  BY <1>7, Moved DEF ContextsInv, Place, Holding
<1>9. ContextTypes'
  BY <1>5, <1>6, <1>8 DEF ContextsInv, ContextTypes
<1>10. NeedsProcessState(t)' <=> NeedsProcessState(t)
  BY <1>6 DEF NeedsProcessState
<1>11. load[t] = "read" => ~NeedsProcessState(t)
  BY DEF NeedsProcessState
<1>12. PlaceFits(t)'
  BY <1>1, <1>6, <1>7, <1>8, <1>10 DEF ContextsInv, PlaceFits
<1>13. ~Holds(t)' /\ ~Holds(t) /\ ~Guarding(t)' /\ ~Guarding(t)
  BY <1>1, <1>6, <1>7, <1>8, <1>10, <1>11 DEF Holds, Holding, Guarding
<1>14. Held'
  <2>1. SameHold(t)
    BY <1>13 DEF SameHold
  <2>2. QED
    BY <1>6, <1>8, <2>1, HeldStays DEF ContextsInv
<1>15. GuardFits'
  BY <1>6, <1>8, <1>13, GuardStays DEF ContextsInv
<1>16. ContextFits(t)'
  BY <1>1, <1>2, <1>3, <1>5, <1>6, <1>13 DEF ContextFits
<1>17. QED
  BY <1>1, <1>5, <1>6, <1>8, <1>9, <1>12, <1>14, <1>15, <1>16, Assemble

\* A body ends when its tasks have.
LEMMA EndsKeeps ==
    ASSUME ContextsInv, NEW t \in Threads, Ends(t)
    PROVE  ContextsInv'
<1>1. /\ pc[t] = "body" /\ Idle(t)
      /\ UNCHANGED <<load, env, lock, registry, prefs, guard, patched, ctx, frame, tasks, seen, meter>>
  BY DEF Ends, At
<1>2. PICK p : /\ Go(t, p)
               /\ \/ p = "leave" /\ load[t] = "read"
                  \/ p = "unwrap" /\ load[t] = "job"
                  \/ p = "unregister" /\ load[t] \notin {"read", "job"} /\ NeedsProcessState(t)
                  \/ p = "uncount" /\ load[t] \notin {"read", "job"} /\ ~NeedsProcessState(t)
  <2>1. Go(t, IF load[t] = "read" THEN "leave" ELSE IF load[t] = "job" THEN "unwrap"
             ELSE IF NeedsProcessState(t) THEN "unregister" ELSE "uncount")
    BY DEF Ends
  <2>2. QED
    BY <2>1
<1>3. /\ pc' \in [Threads -> Place] /\ pc'[t] = p
      /\ \A u \in Threads : u # t => pc'[u] = pc[u]
  BY <1>2, Moved DEF ContextsInv, Place, Holding
<1>4. ContextTypes'
  BY <1>1, <1>3 DEF ContextsInv, ContextTypes
<1>5. NeedsProcessState(t)' <=> NeedsProcessState(t)
  BY <1>1 DEF NeedsProcessState
<1>6. load[t] = "read" => ~NeedsProcessState(t)
  BY DEF NeedsProcessState
<1>7. load[t] = "job" => NeedsProcessState(t)
  BY DEF NeedsProcessState
<1>8. PlaceFits(t)'
  BY <1>1, <1>2, <1>3, <1>5 DEF ContextsInv, PlaceFits
<1>9. SameHold(t)
  BY <1>1, <1>2, <1>3, <1>5, <1>6, <1>7 DEF SameHold, Holds, Holding, Injected, Registered, Wrapped
<1>10. Held'
  BY <1>1, <1>3, <1>9, HeldStays DEF ContextsInv
<1>11. Guarding(t)' <=> Guarding(t)
  BY <1>1, <1>2, <1>3 DEF Guarding
<1>12. GuardFits'
  BY <1>1, <1>3, <1>11, GuardStays DEF ContextsInv
<1>13. ContextFits(t)'
  BY <1>1, <1>2, <1>3, <1>11 DEF ContextsInv, ContextFits, Holding
<1>14. QED
  BY <1>1, <1>3, <1>4, <1>8, <1>10, <1>12, <1>13, Assemble

-----------------------------------------------------------------------------
(* The guard on the network.                                               *)

LEMMA GuardsAreFinite ==
    \A h : IsFiniteSet(GuardsOf(h)) /\ Cardinality(GuardsOf(h)) \in Nat
<1>1. IsFiniteSet(Threads)
  BY ContextsAssumption, FS_AddElement DEF Threads
<1>2. \A h : GuardsOf(h) \subseteq Threads
  BY DEF GuardsOf
<1>3. QED
  BY <1>1, <1>2, FS_Subset, FS_CardinalityType

LEMMA CountsKeeps ==
    ASSUME ContextsInv, NEW t \in Threads, Counts(t)
    PROVE  ContextsInv'
<1> DEFINE h == Home(t)
           g == guard[h]
           S == GuardsOf(h)
<1>1. /\ pc[t] = "count" /\ Go(t, "install") /\ guard' = [guard EXCEPT ![h] = Counted(g)]
      /\ UNCHANGED <<load, env, lock, registry, prefs, patched, ctx, frame, tasks, seen, meter>>
  BY DEF Counts, At
<1>2. h \in Homes /\ g \in Guard /\ guard \in [Homes -> Guard] /\ load[t] # "read"
  BY <1>1, HomeIs DEF ContextsInv, ContextTypes, PlaceFits
<1>3. /\ pc' \in [Threads -> Place] /\ pc'[t] = "install"
      /\ \A u \in Threads : u # t => pc'[u] = pc[u]
  BY <1>1, Moved DEF ContextsInv, Place, Holding
<1>4. /\ g.count = Cardinality(S) /\ g.original = IF S = {} THEN "none" ELSE "plain"
      /\ S = {} => g.request = "plain"
  BY <1>2 DEF ContextsInv, GuardFits
<1>5. g.count = 0 <=> S = {}
  BY <1>4, GuardsAreFinite, FS_EmptySet
<1>6. Counted(g) \in Guard /\ Counted(g).count = g.count + 1 /\ Counted(g).original = "plain"
      /\ Counted(g).request = g.request
  <2> HIDE DEF g, S
  <2> DEFINE o == IF g.count = 0 THEN g.request ELSE g.original
             n == g.count + 1
  <2>1. o = "plain" /\ n \in Nat
    BY <1>2, <1>4, <1>5 DEF Guard
  <2>2. Counted(g) = [g EXCEPT !.count = n, !.original = o]
    BY DEF Counted
  <2> HIDE DEF o, n
  <2>3. /\ Counted(g) \in Guard /\ Counted(g).count = n /\ Counted(g).original = o
        /\ Counted(g).request = g.request
    BY <1>2, <2>1, <2>2 DEF Guard
  <2>4. QED
    BY <2>1, <2>3 DEF n
<1>7. /\ guard' \in [Homes -> Guard] /\ guard'[h] = Counted(g)
      /\ \A k \in Homes : k # h => guard'[k] = guard[k]
  BY <1>1, <1>2, <1>6
<1>8. ContextTypes'
  BY <1>1, <1>3, <1>7 DEF ContextsInv, ContextTypes
<1>9. PlaceFits(t)' /\ ContextFits(t)' /\ SameHold(t)
  BY <1>1, <1>2, <1>3 DEF ContextsInv, PlaceFits, ContextFits, NeedsProcessState, Guarding,
     Holding, SameHold, Holds, Injected, Registered, Wrapped
<1>10. Held'
  BY <1>1, <1>3, <1>9, HeldStays DEF ContextsInv
<1>11. GuardsOf(h)' = S \cup {t} /\ t \notin S
  BY <1>1, <1>2, <1>3 DEF GuardsOf, Guarding
<1>12. \A k \in Homes : k # h => GuardsOf(k)' = GuardsOf(k)
  BY <1>1, <1>3 DEF GuardsOf, Guarding
<1>13. Cardinality(S \cup {t}) = Cardinality(S) + 1
  BY <1>11, GuardsAreFinite, FS_AddElement
<1>14. GuardFits'
  <2> SUFFICES ASSUME NEW k \in Homes
               PROVE  /\ guard'[k].count = Cardinality(GuardsOf(k)')
                      /\ guard'[k].original = IF GuardsOf(k)' = {} THEN "none" ELSE "plain"
                      /\ GuardsOf(k)' = {} => guard'[k].request = "plain"
                      /\ \A u \in GuardsOf(k)' : pc'[u] # "install" => guard'[k].request = "guard"
    BY DEF GuardFits
  <2>1. \A u \in GuardsOf(k) : u \in Threads /\ Home(u) = k
    BY DEF GuardsOf
  <2>2. CASE k = h
    <3>1. \A u \in S : pc[u] # "install" => g.request = "guard"
      BY <1>2 DEF ContextsInv, GuardFits
    <3> HIDE DEF g, S, h
    <3>2. GuardsOf(k)' = S \cup {t} /\ guard'[k] = Counted(g)
      BY <1>7, <1>11, <2>2
    <3>3. guard'[k].count = Cardinality(GuardsOf(k)')
      BY <1>4, <1>6, <1>13, <3>2
    <3>4. \A u \in S \cup {t} : pc'[u] # "install" => u \in S /\ pc[u] # "install"
      BY <1>3, <2>1, <2>2 DEF S
    <3>5. QED
      BY <1>6, <3>1, <3>2, <3>3, <3>4
  <2>3. CASE k # h
    <3>1. \A u \in GuardsOf(k) : pc'[u] = pc[u]
      BY <1>3, <2>1, <2>3
    <3>2. QED
      BY <1>7, <1>12, <2>3, <3>1 DEF ContextsInv, GuardFits
  <2>4. QED
    BY <2>2, <2>3
<1>15. QED
  BY <1>1, <1>3, <1>8, <1>9, <1>10, <1>14, Assemble

LEMMA InstallsKeeps ==
    ASSUME ContextsInv, NEW t \in Threads, Installs(t)
    PROVE  ContextsInv'
<1> DEFINE h == Home(t)
           g == guard[h]
           v == [ctx[t] EXCEPT !.guarded = TRUE]
           w == [g EXCEPT !.request = "guard"]
<1>1. /\ pc[t] = "install" /\ guard' = [guard EXCEPT ![h] = w] /\ ctx' = [ctx EXCEPT ![t] = v]
      /\ UNCHANGED <<load, env, lock, registry, prefs, patched, frame, tasks, seen, meter>>
  BY DEF Installs, At
<1>2. PICK p : /\ Go(t, p)
               /\ \/ p = "register" /\ NeedsProcessState(t)
                  \/ p = "body" /\ ~NeedsProcessState(t)
  <2>1. Go(t, IF NeedsProcessState(t) THEN "register" ELSE "body")
    BY DEF Installs
  <2>2. QED
    BY <2>1
<1>3. /\ h \in Homes /\ g \in Guard /\ guard \in [Homes -> Guard] /\ load[t] # "read"
      /\ ctx \in [Threads -> Context] /\ ctx[t] \in Context
  BY <1>1, HomeIs DEF ContextsInv, ContextTypes, PlaceFits
<1>4. /\ pc' \in [Threads -> Place] /\ pc'[t] = p
      /\ \A u \in Threads : u # t => pc'[u] = pc[u]
  BY <1>2, Moved DEF ContextsInv, Place, Holding
<1>5. /\ w \in Guard /\ w.count = g.count /\ w.original = g.original /\ w.request = "guard"
      /\ v \in Context /\ v.guarded = TRUE /\ v.work = ctx[t].work
      /\ v.locks = ctx[t].locks /\ v.metered = ctx[t].metered
  BY <1>3 DEF Guard, Context
<1> HIDE DEF v, w
<1>6. /\ guard' \in [Homes -> Guard] /\ guard'[h] = w
      /\ \A k \in Homes : k # h => guard'[k] = guard[k]
      /\ ctx' \in [Threads -> Context] /\ ctx'[t] = v
      /\ \A u \in Threads : u # t => ctx'[u] = ctx[u]
  BY <1>1, <1>3, <1>5
<1>7. ContextTypes'
  BY <1>1, <1>4, <1>6 DEF ContextsInv, ContextTypes
<1>8. NeedsProcessState(t)' <=> NeedsProcessState(t)
  BY <1>1 DEF NeedsProcessState
<1>9. load[t] = "job" => NeedsProcessState(t)
  BY DEF NeedsProcessState
<1>10. PlaceFits(t)' /\ SameHold(t)
  BY <1>1, <1>2, <1>3, <1>4, <1>8, <1>9 DEF ContextsInv, PlaceFits, Holding, SameHold, Holds,
     Injected, Registered, Wrapped
<1>11. ContextFits(t)'
  BY <1>1, <1>5, <1>6 DEF ContextsInv, ContextFits, Holding
<1>12. Held'
  BY <1>1, <1>4, <1>10, HeldStays DEF ContextsInv
<1>13. Guarding(t) /\ \A u \in Threads : Guarding(u)' <=> Guarding(u)
  BY <1>1, <1>2, <1>3, <1>4 DEF Guarding
<1>14. t \in GuardsOf(h) /\ \A k \in Homes : GuardsOf(k)' = GuardsOf(k)
  BY <1>13 DEF GuardsOf
<1>15. GuardFits'
  <2> SUFFICES ASSUME NEW k \in Homes
               PROVE  /\ guard'[k].count = Cardinality(GuardsOf(k))
                      /\ guard'[k].original = IF GuardsOf(k) = {} THEN "none" ELSE "plain"
                      /\ GuardsOf(k) = {} => guard'[k].request = "plain"
                      /\ \A u \in GuardsOf(k) : pc'[u] # "install" => guard'[k].request = "guard"
    BY <1>14 DEF GuardFits
  <2>1. /\ guard[k].count = Cardinality(GuardsOf(k))
        /\ guard[k].original = IF GuardsOf(k) = {} THEN "none" ELSE "plain"
        /\ GuardsOf(k) = {} => guard[k].request = "plain"
        /\ \A u \in GuardsOf(k) : pc[u] # "install" => guard[k].request = "guard"
    BY DEF ContextsInv, GuardFits
  <2>2. CASE k = h
    <3> HIDE DEF h
    <3>1. QED
      BY <1>5, <1>6, <1>14, <2>1, <2>2 DEF g
  <2>3. CASE k # h
    <3>1. \A u \in GuardsOf(k) : pc'[u] = pc[u]
      BY <1>4, <2>3 DEF GuardsOf
    <3>2. QED
      BY <1>6, <2>1, <2>3, <3>1
  <2>4. QED
    BY <2>2, <2>3
<1>16. pc[t] # "body"
  BY <1>1
<1>17. QED
  BY <1>1, <1>4, <1>6, <1>7, <1>10, <1>11, <1>12, <1>15, <1>16, Assemble

\* The last one that is counted puts requests' own function back.
Left(g) == IF g.count > 1 THEN [g EXCEPT !.count = @ - 1]
           ELSE [count |-> 0, original |-> "none", request |-> g.original]

LEMMA UncountsKeeps ==
    ASSUME ContextsInv, NEW t \in Threads, Uncounts(t)
    PROVE  ContextsInv'
<1> DEFINE h == Home(t)
           g == guard[h]
           S == GuardsOf(h)
           v == [ctx[t] EXCEPT !.guarded = FALSE]
<1>1. /\ pc[t] = "uncount" /\ guard' = [guard EXCEPT ![h] = Left(g)] /\ ctx' = [ctx EXCEPT ![t] = v]
      /\ UNCHANGED <<load, env, lock, registry, prefs, patched, frame, tasks, seen, meter>>
  BY DEF Uncounts, At, Left
<1>2. PICK p : /\ Go(t, p)
               /\ \/ p = "restore" /\ NeedsProcessState(t)
                  \/ p = "leave" /\ ~NeedsProcessState(t)
  <2>1. Go(t, IF NeedsProcessState(t) THEN "restore" ELSE "leave")
    BY DEF Uncounts
  <2>2. QED
    BY <2>1
<1>3. /\ h \in Homes /\ g \in Guard /\ guard \in [Homes -> Guard] /\ load[t] # "read"
      /\ ctx \in [Threads -> Context] /\ ctx[t] \in Context /\ load[t] # "none"
  BY <1>1, HomeIs DEF ContextsInv, ContextTypes, PlaceFits
<1>4. /\ pc' \in [Threads -> Place] /\ pc'[t] = p
      /\ \A u \in Threads : u # t => pc'[u] = pc[u]
  BY <1>2, Moved DEF ContextsInv, Place, Holding
<1>5. /\ v \in Context /\ v.work = ctx[t].work
      /\ v.locks = ctx[t].locks /\ v.metered = ctx[t].metered
  BY <1>3 DEF Context
<1> HIDE DEF v
<1>6. t \in S
  BY <1>1, <1>3 DEF GuardsOf, Guarding
<1>7. GuardsOf(h)' = S \ {t}
  BY <1>1, <1>2, <1>3, <1>4 DEF GuardsOf, Guarding
<1>8. \A k \in Homes : k # h => GuardsOf(k)' = GuardsOf(k)
  BY <1>1, <1>4 DEF GuardsOf, Guarding
<1>9. /\ g.count = Cardinality(S) /\ g.original = "plain"
      /\ \A u \in S : pc[u] # "install" => g.request = "guard"
  BY <1>3, <1>6 DEF ContextsInv, GuardFits
<1>10. /\ Cardinality(S \ {t}) = Cardinality(S) - 1 /\ Cardinality(S) \in Nat
       /\ IsFiniteSet(S \ {t}) /\ Cardinality(S \ {t}) \in Nat
  BY <1>6, GuardsAreFinite, FS_RemoveElement, FS_CardinalityType
<1>11. Cardinality(S \ {t}) = 0 <=> S \ {t} = {}
  BY <1>10, FS_EmptySet
<1>12. /\ Left(g) \in Guard /\ Left(g).count = Cardinality(S \ {t})
       /\ Left(g).original = IF S \ {t} = {} THEN "none" ELSE "plain"
       /\ S \ {t} = {} => Left(g).request = "plain"
       /\ S \ {t} # {} => Left(g).request = g.request
  <2> HIDE DEF g, S, h
  <2>1. CASE g.count > 1
    <3>1. g.count - 1 \in Nat /\ g.count - 1 = Cardinality(S \ {t}) /\ S \ {t} # {}
      BY <1>9, <1>10, <1>11, <2>1
    <3>2. Left(g) = [g EXCEPT !.count = g.count - 1]
      BY <2>1 DEF Left
    <3>3. Left(g) \in Guard /\ Left(g).count = g.count - 1 /\ Left(g).original = g.original
          /\ Left(g).request = g.request
      BY <1>3, <3>1, <3>2 DEF Guard
    <3>4. QED
      BY <1>9, <3>1, <3>3
  <2>2. CASE ~(g.count > 1)
    <3>1. Cardinality(S \ {t}) = 0 /\ S \ {t} = {}
      BY <1>9, <1>10, <1>11, <2>2
    <3>2. Left(g) = [count |-> 0, original |-> "none", request |-> "plain"]
      BY <1>9, <2>2 DEF Left
    <3>3. QED
      BY <3>1, <3>2 DEF Guard
  <2>3. QED
    BY <2>1, <2>2
<1>13. /\ guard' \in [Homes -> Guard] /\ guard'[h] = Left(g)
       /\ \A k \in Homes : k # h => guard'[k] = guard[k]
       /\ ctx' \in [Threads -> Context] /\ ctx'[t] = v
       /\ \A u \in Threads : u # t => ctx'[u] = ctx[u]
  <2> HIDE DEF g, h
  <2>1. QED
    BY <1>1, <1>3, <1>5, <1>12
<1>14. ContextTypes'
  BY <1>1, <1>4, <1>13 DEF ContextsInv, ContextTypes
<1>15. NeedsProcessState(t)' <=> NeedsProcessState(t)
  BY <1>1 DEF NeedsProcessState
<1>16. PlaceFits(t)' /\ SameHold(t) /\ ~Guarding(t)'
  BY <1>1, <1>2, <1>3, <1>4, <1>15 DEF ContextsInv, PlaceFits, Holding, SameHold, Holds,
     Injected, Registered, Wrapped, Guarding
<1>17. ContextFits(t)'
  BY <1>1, <1>5, <1>13, <1>16 DEF ContextsInv, ContextFits, Holding
<1>18. Held'
  BY <1>1, <1>4, <1>16, HeldStays DEF ContextsInv
<1>19. GuardFits'
  <2> SUFFICES ASSUME NEW k \in Homes
               PROVE  /\ guard'[k].count = Cardinality(GuardsOf(k)')
                      /\ guard'[k].original = IF GuardsOf(k)' = {} THEN "none" ELSE "plain"
                      /\ GuardsOf(k)' = {} => guard'[k].request = "plain"
                      /\ \A u \in GuardsOf(k)' : pc'[u] # "install" => guard'[k].request = "guard"
    BY DEF GuardFits
  <2>1. CASE k = h
    <3>1. \A u \in S \ {t} : pc'[u] = pc[u]
      BY <1>4 DEF GuardsOf
    <3> HIDE DEF g, S, h
    <3>2. GuardsOf(k)' = S \ {t} /\ guard'[k] = Left(g)
      BY <1>7, <1>13, <2>1
    <3>3. QED
      BY <1>9, <1>12, <3>1, <3>2
  <2>2. CASE k # h
    <3>1. \A u \in GuardsOf(k) : pc'[u] = pc[u]
      BY <1>4, <2>2 DEF GuardsOf
    <3>2. QED
      BY <1>8, <1>13, <2>2, <3>1 DEF ContextsInv, GuardFits
  <2>3. QED
    BY <2>1, <2>2
<1>20. pc[t] # "body"
  BY <1>1
<1>21. QED
  BY <1>1, <1>4, <1>13, <1>14, <1>16, <1>17, <1>18, <1>19, <1>20, Assemble

-----------------------------------------------------------------------------
(* Steps of the thread that holds the process, or takes it.                *)

\* Nobody else holds it, so only this thread's part of it has to be shown.
LEMMA HolderMoves ==
    ASSUME Held, NEW t \in Threads, MayLock(t), UNCHANGED load,
           \A u \in Threads : u # t => pc'[u] = pc[u] /\ frame'[u] = frame[u],
           \A h \in Homes : h # Home(t) =>
               /\ env'[h] = env[h] /\ lock'[h] = lock[h] /\ registry'[h] = registry[h]
               /\ prefs'[h] = prefs[h] /\ patched'[h] = patched[h],
           Holds(t)' => Holder(t)',
           ~Holds(t)' => FreeProcess(Home(t))'
    PROVE  Held'
<1>1. \A u \in Threads : u # t => SameHold(u)
  BY DEF SameHold, Holds, Injected, Registered, Wrapped, NeedsProcessState
<1>2. \A u \in Threads : u # t /\ Home(u) = Home(t) => ~Holds(u)
  BY HomeIs DEF Held, Holder, MayLock
<1>3. ASSUME NEW u \in Threads, u # t, Holds(u)'
      PROVE  Holder(u)'
  <2>1. Holds(u) /\ SameHold(u) /\ Holder(u) /\ Home(u) # Home(t) /\ Home(u) \in Homes
    BY <1>1, <1>2, <1>3, HomeIs DEF Held, SameHold
  <2>2. KeysOf(u)' = KeysOf(u) /\ ProviderOf(u)' = ProviderOf(u)
    BY DEF KeysOf, ProviderOf, HasProvider
  <2>3. /\ env'[Home(u)] = env[Home(u)] /\ lock'[Home(u)] = lock[Home(u)]
        /\ registry'[Home(u)] = registry[Home(u)] /\ prefs'[Home(u)] = prefs[Home(u)]
        /\ patched'[Home(u)] = patched[Home(u)] /\ frame'[u] = frame[u]
    BY <1>3, <2>1
  <2>4. QED
    BY <2>1, <2>2, <2>3 DEF Holder, SameHold, Own
<1>4. ASSUME NEW h \in Homes, NobodyHolds(h)'
      PROVE  FreeProcess(h)'
  <2>1. CASE h = Home(t)
    BY <1>4, <2>1 DEF NobodyHolds
  <2>2. CASE h # Home(t)
    <3>1. NobodyHolds(h)
      BY <1>1, <1>4, <2>2 DEF NobodyHolds, SameHold
    <3>2. QED
      BY <2>2, <3>1 DEF Held, FreeProcess
  <2>3. QED
    BY <2>1, <2>2
<1>5. QED
  BY <1>3, <1>4 DEF Held

LEMMA ProcessKeeps ==
    ASSUME ContextsInv, NEW t \in Threads, NEW p, Go(t, p), p \in Holding \cup {"leave"},
           NeedsProcessState(t), MayLock(t), PlaceFits(t)',
           pc[t] \in {"wait", "inject", "register", "wrap", "unwrap", "unregister", "restore", "unlock"},
           Guarding(t)' <=> Guarding(t),
           UNCHANGED <<load, guard, ctx, tasks, seen, meter>>,
           env' \in [Homes -> Environment], lock' \in [Homes -> [by : Who, depth : Nat]],
           registry' \in [Homes -> Who], prefs' \in [Homes -> Who], patched' \in [Homes -> BOOLEAN],
           frame' \in [Threads -> Frame],
           \A u \in Threads : u # t => frame'[u] = frame[u],
           \A h \in Homes : h # Home(t) =>
               /\ env'[h] = env[h] /\ lock'[h] = lock[h] /\ registry'[h] = registry[h]
               /\ prefs'[h] = prefs[h] /\ patched'[h] = patched[h],
           p # "leave" => Holder(t)',
           p = "leave" => FreeProcess(Home(t))'
    PROVE  ContextsInv'
<1>1. /\ pc' \in [Threads -> Place] /\ pc'[t] = p
      /\ \A u \in Threads : u # t => pc'[u] = pc[u]
  BY Moved DEF ContextsInv, Place
<1>2. ContextTypes'
  BY <1>1 DEF ContextsInv, ContextTypes
<1>3. NeedsProcessState(t)' <=> NeedsProcessState(t)
  BY DEF NeedsProcessState
<1>4. Holds(t)' <=> p # "leave"
  BY <1>1, <1>3 DEF Holds, Holding
<1>5. Held'
  BY <1>1, <1>4, HolderMoves DEF ContextsInv
<1>6. GuardFits'
  BY <1>1, GuardStays DEF ContextsInv
<1>7. ContextFits(t)'
  <2>1. pc[t] \in {"wait"} \cup Holding /\ pc[t] # "install"
    BY DEF Holding
  <2>2. QED
    BY <2>1 DEF ContextsInv, ContextFits
<1>8. pc[t] # "body"
  OBVIOUS
<1>9. QED
  BY <1>1, <1>2, <1>5, <1>6, <1>7, <1>8, Assemble

LEMMA KeysTyped ==
    ASSUME NEW t \in Threads
    PROVE  /\ Own(t) \in Environment
           /\ Normal("api") \in Environment /\ Normal("worker") \in Environment
<1>1. NoKeys \in [Names -> KeyOwner] /\ t \in KeyOwner /\ "pool" \in KeyOwner /\ "host" \in KeyOwner
  BY DEF NoKeys, KeyOwner
<1>2. OfTheHost \in [Names -> KeyOwner]
  BY <1>1 DEF OfTheHost
<1>3. KeysOf(t) \in [Names -> KeyOwner]
  <2> DEFINE K == [Names -> KeyOwner]
  <2>1. \A n, o : o \in KeyOwner => [NoKeys EXCEPT ![n] = o] \in K
    BY <1>1
  <2>2. [NoKeys EXCEPT !["first"] = t, !["second"] = "pool", !["custom"] = t] \in K
    BY <1>1
  <2>3. /\ [NoKeys EXCEPT !["first"] = t] \in K /\ [NoKeys EXCEPT !["custom"] = t] \in K
        /\ [NoKeys EXCEPT !["token"] = t] \in K
    BY <1>1, <2>1
  <2> HIDE DEF K
  <2>4. QED
    BY <1>1, <2>2, <2>3 DEF KeysOf, K
<1>4. QED
  BY <1>2, <1>3, <1>1 DEF Own, Normal, Environment

\* What a step of the holder finds.
LEMMA HolderHas ==
    ASSUME ContextsInv, NEW t \in Threads, Holds(t)
    PROVE  /\ Holder(t) /\ MayLock(t)
           /\ Home(t) \in Homes /\ NeedsProcessState(t) /\ load[t] # "read"
<1>1. Holder(t) /\ NeedsProcessState(t)
  BY DEF ContextsInv, Held, Holds
<1>2. QED
  BY <1>1, HomeIs DEF Holder, MayLock, NeedsProcessState

LEMMA TakesLockKeeps ==
    ASSUME ContextsInv, NEW t \in Threads, TakesLock(t)
    PROVE  ContextsInv'
<1> DEFINE h == Home(t)
           k == [by |-> t, depth |-> lock[h].depth + 1]
<1>1. /\ pc[t] = "wait" /\ MayLock(t) /\ Go(t, "inject") /\ lock' = [lock EXCEPT ![h] = k]
      /\ UNCHANGED <<load, env, registry, prefs, guard, patched, ctx, frame, tasks, seen, meter>>
  BY DEF TakesLock, At
<1>2. ContextTypes /\ h \in Homes /\ t # Nobody /\ NeedsProcessState(t) /\ ~Holds(t)
  BY <1>1, HomeIs DEF ContextsInv, PlaceFits, Holds, Holding
<1>3. NobodyHolds(h)
  BY <1>1, <1>2, HomeIs DEF ContextsInv, Held, Holder, NobodyHolds, MayLock
<1>4. FreeProcess(h)
  BY <1>2, <1>3 DEF ContextsInv, Held
<1>5. k.by = t /\ k.depth = 1
  BY <1>4 DEF FreeProcess
<1>6. k \in [by : Who, depth : Nat]
  BY <1>5 DEF Who
<1> HIDE DEF k
<1>7. /\ lock' \in [Homes -> [by : Who, depth : Nat]] /\ lock'[h] = k
      /\ \A g \in Homes : g # h => lock'[g] = lock[g]
  BY <1>1, <1>2, <1>6 DEF ContextTypes
<1>8. pc'[t] = "inject"
  BY <1>1, <1>2, Moved DEF Place, Holding
<1>9. Holder(t)'
  BY <1>1, <1>4, <1>5, <1>7, <1>8 DEF Holder, FreeProcess, Injected, Registered, Wrapped
<1>10. PlaceFits(t)' /\ (Guarding(t)' <=> Guarding(t))
  BY <1>1, <1>2, <1>8 DEF ContextsInv, PlaceFits, Guarding, NeedsProcessState
<1>11. "inject" \in Holding \cup {"leave"} /\ "inject" # "leave"
  BY DEF Holding
<1>12. QED
  BY <1>1, <1>2, <1>7, <1>9, <1>10, <1>11, ProcessKeeps DEF ContextTypes

LEMMA InjectsKeeps ==
    ASSUME ContextsInv, NEW t \in Threads, Injects(t)
    PROVE  ContextsInv'
<1> DEFINE h == Home(t)
           f == [frame[t] EXCEPT !.env = env[h]]
<1>1. /\ pc[t] = "inject" /\ Go(t, "count")
      /\ frame' = [frame EXCEPT ![t] = f] /\ env' = [env EXCEPT ![h] = Own(t)]
      /\ UNCHANGED <<load, lock, registry, prefs, guard, patched, ctx, tasks, seen, meter>>
  BY DEF Injects, At, Own
<1>2. ContextTypes /\ Holds(t)
  BY <1>1 DEF ContextsInv, PlaceFits, Holds, Holding
<1>3. Holder(t) /\ MayLock(t) /\ h \in Homes /\ NeedsProcessState(t)
  BY <1>2, HolderHas
<1>4. /\ f \in Frame /\ f.env = env[h] /\ f.custom = frame[t].custom /\ f.prefs = frame[t].prefs
  BY <1>2, <1>3 DEF ContextTypes, Frame
<1>5. env[h] = Normal(h)
  BY <1>1, <1>3 DEF Holder, Injected
<1> HIDE DEF f
<1>6. /\ frame' \in [Threads -> Frame] /\ frame'[t] = f
      /\ \A u \in Threads : u # t => frame'[u] = frame[u]
      /\ env' \in [Homes -> Environment] /\ env'[h] = Own(t)
      /\ \A g \in Homes : g # h => env'[g] = env[g]
  BY <1>1, <1>2, <1>3, <1>4, KeysTyped DEF ContextTypes
<1>7. pc'[t] = "count"
  BY <1>1, <1>2, Moved DEF Place, Holding
<1>8. Own(t)' = Own(t) /\ Normal(h)' = Normal(h)
  BY <1>1 DEF Own, KeysOf, Normal
<1>9. Holder(t)'
  BY <1>1, <1>3, <1>4, <1>5, <1>6, <1>7, <1>8 DEF Holder, Injected, Registered, Wrapped
<1>10. PlaceFits(t)' /\ (Guarding(t)' <=> Guarding(t))
  BY <1>1, <1>3, <1>7 DEF ContextsInv, PlaceFits, Guarding, NeedsProcessState
<1>11. "count" \in Holding \cup {"leave"} /\ "count" # "leave"
  BY DEF Holding
<1>12. QED
  BY <1>1, <1>2, <1>3, <1>6, <1>9, <1>10, <1>11, ProcessKeeps DEF ContextTypes

LEMMA RegistersKeeps ==
    ASSUME ContextsInv, NEW t \in Threads, Registers(t)
    PROVE  ContextsInv'
<1> DEFINE h == Home(t)
           r == IF HasProvider(t) THEN t ELSE registry[h]
           f == [frame[t] EXCEPT !.custom = registry[h], !.prefs = prefs[h]]
<1>1. /\ pc[t] = "register" /\ frame' = [frame EXCEPT ![t] = f]
      /\ registry' = [registry EXCEPT ![h] = r] /\ prefs' = [prefs EXCEPT ![h] = ProviderOf(t)]
      /\ UNCHANGED <<load, env, lock, guard, patched, ctx, tasks, seen, meter>>
  BY DEF Registers, At
<1>2. PICK p : /\ Go(t, p)
               /\ \/ p = "wrap" /\ load[t] = "job"
                  \/ p = "body" /\ load[t] # "job"
  <2>1. Go(t, IF load[t] = "job" THEN "wrap" ELSE "body")
    BY DEF Registers
  <2>2. QED
    BY <2>1
<1>3. ContextTypes /\ Holds(t)
  BY <1>1 DEF ContextsInv, PlaceFits, Holds, Holding
<1>4. Holder(t) /\ MayLock(t) /\ h \in Homes /\ NeedsProcessState(t) /\ load[t] # "read"
  BY <1>3, HolderHas
<1>5. /\ registry[h] = Nobody /\ prefs[h] = Nobody
  BY <1>1, <1>4 DEF Holder, Registered
<1>6. /\ f \in Frame /\ f.env = frame[t].env /\ f.custom = Nobody /\ f.prefs = Nobody
  <2>1. registry[h] \in Who /\ prefs[h] \in Who /\ frame[t] \in Frame
    BY <1>3, <1>4 DEF ContextTypes
  <2>2. QED
    BY <1>5, <2>1 DEF Frame
<1>7. r = ProviderOf(t) /\ ProviderOf(t) \in Who
  BY <1>5 DEF ProviderOf, Who
<1> HIDE DEF f, r
<1>8. /\ frame' \in [Threads -> Frame] /\ frame'[t] = f
      /\ \A u \in Threads : u # t => frame'[u] = frame[u]
      /\ registry' \in [Homes -> Who] /\ registry'[h] = ProviderOf(t)
      /\ \A g \in Homes : g # h => registry'[g] = registry[g]
      /\ prefs' \in [Homes -> Who] /\ prefs'[h] = ProviderOf(t)
      /\ \A g \in Homes : g # h => prefs'[g] = prefs[g]
  BY <1>1, <1>3, <1>4, <1>6, <1>7 DEF ContextTypes
<1>9. pc'[t] = p
  BY <1>2, <1>3, Moved DEF Place, Holding
<1>10. Own(t)' = Own(t) /\ Normal(h)' = Normal(h) /\ ProviderOf(t)' = ProviderOf(t)
  BY <1>1 DEF Own, KeysOf, Normal, ProviderOf, HasProvider
<1>11. Holder(t)'
  BY <1>1, <1>2, <1>4, <1>6, <1>8, <1>9, <1>10 DEF Holder, Injected, Registered, Wrapped
<1>12. PlaceFits(t)' /\ (Guarding(t)' <=> Guarding(t))
  BY <1>1, <1>2, <1>4, <1>9 DEF ContextsInv, PlaceFits, Guarding, NeedsProcessState
<1>13. p \in Holding \cup {"leave"} /\ p # "leave"
  BY <1>2 DEF Holding
<1>14. QED
  BY <1>1, <1>2, <1>3, <1>4, <1>8, <1>11, <1>12, <1>13, ProcessKeeps DEF ContextTypes

LEMMA WrapsKeeps ==
    ASSUME ContextsInv, NEW t \in Threads, Wraps(t)
    PROVE  ContextsInv'
<1> DEFINE h == Home(t)
           k == [by |-> t, depth |-> lock[h].depth + 1]
<1>1. /\ pc[t] = "wrap" /\ Go(t, "body") /\ lock' = [lock EXCEPT ![h] = k]
      /\ patched' = [patched EXCEPT ![h] = TRUE]
      /\ UNCHANGED <<load, env, registry, prefs, guard, ctx, frame, tasks, seen, meter>>
  BY DEF Wraps, At
<1>2. ContextTypes /\ Holds(t) /\ load[t] = "job"
  BY <1>1 DEF ContextsInv, PlaceFits, Holds, Holding, NeedsProcessState
<1>3. Holder(t) /\ MayLock(t) /\ h \in Homes /\ NeedsProcessState(t)
  BY <1>2, HolderHas
<1>4. k.by = t /\ k.depth = 2 /\ k \in [by : Who, depth : Nat]
  BY <1>1, <1>3 DEF Holder, Wrapped, Who
<1> HIDE DEF k
<1>5. /\ lock' \in [Homes -> [by : Who, depth : Nat]] /\ lock'[h] = k
      /\ \A g \in Homes : g # h => lock'[g] = lock[g]
      /\ patched' \in [Homes -> BOOLEAN] /\ patched'[h] = TRUE
      /\ \A g \in Homes : g # h => patched'[g] = patched[g]
  BY <1>1, <1>2, <1>3, <1>4 DEF ContextTypes
<1>6. pc'[t] = "body"
  BY <1>1, <1>2, Moved DEF Place, Holding
<1>7. Own(t)' = Own(t) /\ Normal(h)' = Normal(h) /\ ProviderOf(t)' = ProviderOf(t)
  BY <1>1 DEF Own, KeysOf, Normal, ProviderOf, HasProvider
<1>8. Holder(t)'
  BY <1>1, <1>2, <1>3, <1>4, <1>5, <1>6, <1>7 DEF Holder, Injected, Registered, Wrapped
<1>9. PlaceFits(t)' /\ (Guarding(t)' <=> Guarding(t))
  BY <1>1, <1>2, <1>6 DEF ContextsInv, PlaceFits, Guarding, NeedsProcessState
<1>10. "body" \in Holding \cup {"leave"} /\ "body" # "leave"
  BY DEF Holding
<1>11. QED
  BY <1>1, <1>2, <1>3, <1>5, <1>8, <1>9, <1>10, ProcessKeeps DEF ContextTypes

LEMMA UnwrapsKeeps ==
    ASSUME ContextsInv, NEW t \in Threads, Unwraps(t)
    PROVE  ContextsInv'
<1> DEFINE h == Home(t)
           k == [lock[h] EXCEPT !.depth = lock[h].depth - 1]
<1>1. /\ pc[t] = "unwrap" /\ Go(t, "unregister") /\ lock' = [lock EXCEPT ![h] = k]
      /\ patched' = [patched EXCEPT ![h] = FALSE]
      /\ UNCHANGED <<load, env, registry, prefs, guard, ctx, frame, tasks, seen, meter>>
  BY DEF Unwraps, At
<1>2. ContextTypes /\ Holds(t) /\ load[t] = "job"
  BY <1>1 DEF ContextsInv, PlaceFits, Holds, Holding, NeedsProcessState
<1>3. Holder(t) /\ MayLock(t) /\ h \in Homes /\ NeedsProcessState(t)
  BY <1>2, HolderHas
<1>4. lock[h].by = t /\ lock[h].depth = 2 /\ lock[h] \in [by : Who, depth : Nat]
  BY <1>1, <1>2, <1>3 DEF Holder, Wrapped, ContextTypes
<1>5. k.by = t /\ k.depth = 1 /\ k \in [by : Who, depth : Nat]
  BY <1>4
<1> HIDE DEF k
<1>6. /\ lock' \in [Homes -> [by : Who, depth : Nat]] /\ lock'[h] = k
      /\ \A g \in Homes : g # h => lock'[g] = lock[g]
      /\ patched' \in [Homes -> BOOLEAN] /\ patched'[h] = FALSE
      /\ \A g \in Homes : g # h => patched'[g] = patched[g]
  BY <1>1, <1>2, <1>3, <1>5 DEF ContextTypes
<1>7. pc'[t] = "unregister"
  BY <1>1, <1>2, Moved DEF Place, Holding
<1>8. Own(t)' = Own(t) /\ Normal(h)' = Normal(h) /\ ProviderOf(t)' = ProviderOf(t)
  BY <1>1 DEF Own, KeysOf, Normal, ProviderOf, HasProvider
<1>9. Holder(t)'
  BY <1>1, <1>2, <1>3, <1>5, <1>6, <1>7, <1>8 DEF Holder, Injected, Registered, Wrapped
<1>10. PlaceFits(t)' /\ (Guarding(t)' <=> Guarding(t))
  BY <1>1, <1>2, <1>3, <1>7 DEF ContextsInv, PlaceFits, Guarding, NeedsProcessState
<1>11. "unregister" \in Holding \cup {"leave"} /\ "unregister" # "leave"
  BY DEF Holding
<1>12. QED
  BY <1>1, <1>2, <1>3, <1>6, <1>9, <1>10, <1>11, ProcessKeeps DEF ContextTypes

LEMMA UnregistersKeeps ==
    ASSUME ContextsInv, NEW t \in Threads, Unregisters(t)
    PROVE  ContextsInv'
<1> DEFINE h == Home(t)
           r == IF HasProvider(t) THEN frame[t].custom ELSE registry[h]
<1>1. /\ pc[t] = "unregister" /\ Go(t, "uncount")
      /\ registry' = [registry EXCEPT ![h] = r] /\ prefs' = [prefs EXCEPT ![h] = frame[t].prefs]
      /\ UNCHANGED <<load, env, lock, guard, patched, ctx, frame, tasks, seen, meter>>
  BY DEF Unregisters, At
<1>2. ContextTypes /\ Holds(t)
  BY <1>1 DEF ContextsInv, PlaceFits, Holds, Holding
<1>3. Holder(t) /\ MayLock(t) /\ h \in Homes /\ NeedsProcessState(t)
  BY <1>2, HolderHas
<1>4. /\ registry[h] = ProviderOf(t) /\ frame[t].custom = Nobody /\ frame[t].prefs = Nobody
  BY <1>1, <1>3 DEF Holder, Registered
<1>5. r = Nobody /\ Nobody \in Who
  BY <1>4 DEF ProviderOf, Who
<1> HIDE DEF r
<1>6. /\ registry' \in [Homes -> Who] /\ registry'[h] = Nobody
      /\ \A g \in Homes : g # h => registry'[g] = registry[g]
      /\ prefs' \in [Homes -> Who] /\ prefs'[h] = Nobody
      /\ \A g \in Homes : g # h => prefs'[g] = prefs[g]
  BY <1>1, <1>2, <1>3, <1>4, <1>5 DEF ContextTypes
<1>7. pc'[t] = "uncount"
  BY <1>1, <1>2, Moved DEF Place, Holding
<1>8. Own(t)' = Own(t) /\ Normal(h)' = Normal(h)
  BY <1>1 DEF Own, KeysOf, Normal
<1>9. Holder(t)'
  BY <1>1, <1>3, <1>6, <1>7, <1>8 DEF Holder, Injected, Registered, Wrapped
<1>10. PlaceFits(t)' /\ (Guarding(t)' <=> Guarding(t))
  BY <1>1, <1>3, <1>7 DEF ContextsInv, PlaceFits, Guarding, NeedsProcessState
<1>11. "uncount" \in Holding \cup {"leave"} /\ "uncount" # "leave"
  BY DEF Holding
<1>12. QED
  BY <1>1, <1>2, <1>3, <1>6, <1>9, <1>10, <1>11, ProcessKeeps DEF ContextTypes

LEMMA RestoresKeeps ==
    ASSUME ContextsInv, NEW t \in Threads, Restores(t)
    PROVE  ContextsInv'
<1> DEFINE h == Home(t)
<1>1. /\ pc[t] = "restore" /\ Go(t, "unlock") /\ env' = [env EXCEPT ![h] = frame[t].env]
      /\ UNCHANGED <<load, lock, registry, prefs, guard, patched, ctx, frame, tasks, seen, meter>>
  BY DEF Restores, At
<1>2. ContextTypes /\ Holds(t)
  BY <1>1 DEF ContextsInv, PlaceFits, Holds, Holding
<1>3. Holder(t) /\ MayLock(t) /\ h \in Homes /\ NeedsProcessState(t)
  BY <1>2, HolderHas
<1>4. frame[t].env = Normal(h) /\ frame[t].env \in Environment
  BY <1>1, <1>2, <1>3 DEF Holder, Injected, ContextTypes, Frame
<1>5. /\ env' \in [Homes -> Environment] /\ env'[h] = Normal(h)
      /\ \A g \in Homes : g # h => env'[g] = env[g]
  BY <1>1, <1>2, <1>3, <1>4 DEF ContextTypes
<1>6. pc'[t] = "unlock"
  BY <1>1, <1>2, Moved DEF Place, Holding
<1>7. Own(t)' = Own(t) /\ Normal(h)' = Normal(h)
  BY <1>1 DEF Own, KeysOf, Normal
<1>8. Holder(t)'
  BY <1>1, <1>3, <1>5, <1>6, <1>7 DEF Holder, Injected, Registered, Wrapped
<1>9. PlaceFits(t)' /\ (Guarding(t)' <=> Guarding(t))
  BY <1>1, <1>3, <1>6 DEF ContextsInv, PlaceFits, Guarding, NeedsProcessState
<1>10. "unlock" \in Holding \cup {"leave"} /\ "unlock" # "leave"
  BY DEF Holding
<1>11. QED
  BY <1>1, <1>2, <1>3, <1>5, <1>8, <1>9, <1>10, ProcessKeeps DEF ContextTypes

LEMMA UnlocksKeeps ==
    ASSUME ContextsInv, NEW t \in Threads, Unlocks(t)
    PROVE  ContextsInv'
<1> DEFINE h == Home(t)
           left == lock[h].depth - 1
           k == [by |-> IF left = 0 THEN Nobody ELSE t, depth |-> left]
<1>1. /\ pc[t] = "unlock" /\ Go(t, "leave") /\ lock' = [lock EXCEPT ![h] = k]
      /\ UNCHANGED <<load, env, registry, prefs, guard, patched, ctx, frame, tasks, seen, meter>>
  BY DEF Unlocks, At
<1>2. ContextTypes /\ Holds(t)
  BY <1>1 DEF ContextsInv, PlaceFits, Holds, Holding
<1>3. Holder(t) /\ MayLock(t) /\ h \in Homes /\ NeedsProcessState(t)
  BY <1>2, HolderHas
<1>4. k.by = Nobody /\ k.depth = 0 /\ k \in [by : Who, depth : Nat]
  BY <1>1, <1>3 DEF Holder, Wrapped, Who
<1> HIDE DEF k
<1>5. /\ lock' \in [Homes -> [by : Who, depth : Nat]] /\ lock'[h] = k
      /\ \A g \in Homes : g # h => lock'[g] = lock[g]
  BY <1>1, <1>2, <1>3, <1>4 DEF ContextTypes
<1>6. pc'[t] = "leave"
  BY <1>1, <1>2, Moved DEF Place, Holding
<1>7. Normal(h)' = Normal(h)
  BY <1>1 DEF Normal
<1>8. FreeProcess(h)'
  BY <1>1, <1>3, <1>4, <1>5, <1>7 DEF Holder, Injected, Registered, Wrapped, FreeProcess
<1>9. PlaceFits(t)' /\ (Guarding(t)' <=> Guarding(t))
  BY <1>1, <1>3, <1>6 DEF ContextsInv, PlaceFits, Guarding, NeedsProcessState
<1>10. "leave" \in Holding \cup {"leave"}
  OBVIOUS
<1>11. QED
  BY <1>1, <1>2, <1>3, <1>5, <1>8, <1>9, <1>10, ProcessKeeps DEF ContextTypes

-----------------------------------------------------------------------------
(* Where a guarded request ends up.                                        *)

\* A set of natural numbers that is not empty has a least one.
LEMMA LeastOf ==
    ASSUME NEW S, S \subseteq Nat, S # {}
    PROVE  Min(S) \in S /\ \A m \in S : Min(S) <= m
<1> DEFINE Less == {p \in Nat \X Nat : p[1] < p[2]}
<1>1. IsWellFoundedOn(Less, Nat)
  BY NatLessThanWellFounded DEF OpToRel
<1>2. \E n \in S : \A m \in S : ~(<<m, n>> \in Less)
  <2> HIDE DEF Less
  <2> QED BY <1>1, WFMin, Zenon
<1>3. PICK n \in S : \A m \in S : ~(<<m, n>> \in Less)
  BY <1>2
<1>4. ASSUME NEW m \in S PROVE n <= m
  <2>1. n \in Nat /\ m \in Nat /\ <<m, n>> \notin Less
    BY <1>3
  <2>2. ~(m < n)
    BY <2>1
  <2>3. QED
    BY <2>1, <2>2
<1>5. QED
  BY <1>4 DEF Min

\* A site is its own.
LEMMA SameSiteItself ==
    ASSUME NEW host \in Seq(STRING), host \notin {<<>>, <<"www">>}
    PROVE  SameSite(host, host)
<1> DEFINE b == Bare(host)
<1>1. Len(host) \in Nat /\ Len(host) # 0 /\ \A i \in 1 .. Len(host) : host[i] \in STRING
  BY EmptySeq, LenProperties, ElementOfSeq
<1>2. b # <<>>
  <2>1. CASE host[Len(host)] = "www"
    <3>1. b = SubSeq(host, 1, Len(host) - 1)
      BY <2>1 DEF Bare, Last, Front
    <3>2. Len(host) # 1
      <4>1. ASSUME Len(host) = 1 PROVE host = <<"www">>
        BY <1>1, <2>1, <4>1
      <4>2. QED
        BY <4>1
    <3>3. Len(b) = Len(host) - 1
      <4>1. 1 \in Int /\ Len(host) - 1 \in Int /\ \A i \in 1 .. Len(host) - 1 : host[i] \in STRING
        BY <1>1
      <4>2. Len(SubSeq(host, 1, Len(host) - 1)) =
              IF 1 <= Len(host) - 1 THEN (Len(host) - 1) - 1 + 1 ELSE 0
        BY <4>1, SubSeqProperties
      <4>3. Len(SubSeq(host, 1, Len(host) - 1)) = Len(host) - 1
        <5> DEFINE n == Len(host)
                   l == Len(SubSeq(host, 1, Len(host) - 1))
        <5>1. n \in Nat /\ n # 0 /\ l = IF 1 <= n - 1 THEN (n - 1) - 1 + 1 ELSE 0
          BY <1>1, <4>2
        <5> HIDE DEF n, l
        <5>2. l = n - 1
          BY <5>1
        <5>3. QED
          BY <5>2 DEF n, l
      <4>4. QED
        BY <3>1, <4>3
    <3>4. Len(b) # 0
      BY <1>1, <3>2, <3>3
    <3>5. QED
      BY <3>4
  <2>2. CASE host[Len(host)] # "www"
    BY <2>2 DEF Bare, Last
  <2>3. QED
    BY <2>1, <2>2
<1>3. Len(b) \in Nat
  <2>1. SubSeq(host, 1, Len(host) - 1) \in Seq(STRING)
    BY <1>1, SubSeqProperties
  <2>2. b \in Seq(STRING)
    BY <2>1 DEF Bare, Front
  <2>3. QED
    BY <2>2, LenProperties
<1> HIDE DEF b
<1>4. IsPrefix(b, b)
  BY <1>3 DEF IsPrefix
<1>5. QED
  BY <1>2, <1>4 DEF SameSite, b

LEMMA GuardedStays ==
    ASSUME NEW chain \in Chains, NEW m
    PROVE  OnSite(chain, Guarded(chain, m).visited)
<1> DEFINE Stops(i) == ~chain[i].public \/ ~Follows(m, chain[i]) \/ i > MaxRedirects
                       \/ i = Len(chain) \/ ~SameSite(chain[1].host, chain[i + 1].host)
           S == {i \in DOMAIN chain : Stops(i)}
           last == Min(S)
           H == [host : Seq(STRING), public : BOOLEAN, answers : Seq(STRING)]
<1>1. chain \in Seq(H) /\ chain # <<>> /\ chain[1].host \notin {<<>>, <<"www">>}
  BY ContextsAssumption
<1>2. Len(chain) \in Nat \ {0} /\ DOMAIN chain = 1 .. Len(chain)
  BY <1>1, EmptySeq, LenProperties
<1>3. Guarded(chain, m).visited = {chain[i] : i \in {j \in 1 .. last : chain[j].public}}
  BY DEF Guarded
<1>4. last \in S /\ \A j \in S : last <= j
  <2>1. S \subseteq Nat /\ S # {}
    BY <1>2
  <2> HIDE DEF S
  <2>2. QED
    BY <2>1, LeastOf
<1>5. chain[1].host \in Seq(STRING)
  <2>1. chain[1] \in H
    <3> HIDE DEF H
    <3>1. QED
      BY <1>1, <1>2, ElementOfSeq
  <2>2. QED
    BY <2>1
<1>6. ASSUME NEW j \in 1 .. last
      PROVE  SameSite(chain[1].host, chain[j].host)
  <2>1. CASE j = 1
    BY <1>1, <1>5, <2>1, SameSiteItself
  <2>2. CASE j # 1
    <3>1. last \in 1 .. Len(chain)
      BY <1>2, <1>4
    <3>2. j - 1 \in DOMAIN chain /\ ~(last <= j - 1) /\ (j - 1) + 1 = j
      BY <1>2, <2>2, <3>1
    <3>3. j - 1 \notin S
      BY <1>4, <3>2
    <3>4. ~Stops(j - 1)
      BY <3>2, <3>3
    <3>5. SameSite(chain[1].host, chain[(j - 1) + 1].host)
      BY <3>4
    <3>6. QED
      BY <3>2, <3>5
  <2>3. QED
    BY <2>1, <2>2
<1> HIDE DEF last
<1>7. QED
  BY <1>3, <1>6 DEF OnSite

-----------------------------------------------------------------------------
(* What the engine does.                                                   *)

\* A step of a body or of a task moves no thread.
LEMMA WorkKeeps ==
    ASSUME ContextsInv,
           UNCHANGED <<load, pc, env, lock, registry, prefs, guard, patched, ctx, frame>>,
           \A k \in tasks' : TaskFits(k), \A s \in seen' : s.where = s.of /\ s.ok,
           meter' \in [asked : Nat, counted : Nat], meter'.counted = meter'.asked
    PROVE  ContextsInv'
<1>1. ContextTypes' /\ \A t \in Threads : PlaceFits(t)' /\ ContextFits(t)'
  BY DEF ContextsInv, ContextTypes, PlaceFits, ContextFits, NeedsProcessState, Guarding
<1>2. \A t \in Threads : SameHold(t)
  BY DEF SameHold, Holds, NeedsProcessState, Injected, Registered, Wrapped
<1>3. "child" \in Threads
  BY DEF Threads
<1>4. Held'
  BY <1>2, <1>3, HeldStays DEF ContextsInv
<1>5. GuardFits'
  <2>1. Guarding("child")' <=> Guarding("child")
    BY DEF Guarding
  <2>2. QED
    BY <1>3, <2>1, GuardStays DEF ContextsInv
<1>6. \A k \in tasks' : TaskFits(k)'
  BY DEF TaskFits
<1>7. QED
  BY <1>1, <1>4, <1>5, <1>6 DEF ContextsInv

\* A thread in its body is guarded, unless it only reads.
LEMMA BodyHas ==
    ASSUME ContextsInv, NEW t \in Threads, pc[t] = "body", load[t] # "read"
    PROVE  /\ ctx[t].work = t /\ ctx[t].guarded = TRUE
           /\ ctx[t].locks = IF t = "child" THEN "none" ELSE "redis"
           /\ load[t] = "job" => ctx[t].metered = TRUE
           /\ guard[Home(t)].request = "guard"
<1>1. ContextFits(t) /\ Guarding(t) /\ Home(t) \in Homes
  BY HomeIs DEF ContextsInv, Guarding
<1>2. t \in GuardsOf(Home(t)) /\ pc[t] # "install"
  BY <1>1 DEF GuardsOf
<1>3. guard[Home(t)].request = "guard"
  BY <1>1, <1>2 DEF ContextsInv, GuardFits
<1>4. QED
  BY <1>1, <1>3 DEF ContextFits, Holding

\* What tasks there may be
Handed(t, what) == [of |-> t, what |-> what, ctx |-> ctx[t]]

LEMMA SubmitsKeeps ==
    ASSUME ContextsInv, NEW t \in Threads, NEW what, Submits(t, what)
    PROVE  ContextsInv'
<1>1. /\ pc[t] = "body" /\ load[t] \in {"write", "job"} /\ (what = "ask" => load[t] = "job")
      /\ tasks' = tasks \cup {Handed(t, what)}
      /\ UNCHANGED <<load, pc, env, lock, registry, prefs, guard, patched, ctx, frame, seen, meter>>
  BY DEF Submits, At, Handed, Copied
<1>2. TaskFits(Handed(t, what))
  BY <1>1 DEF TaskFits, Handed
<1>3. \A k \in tasks' : TaskFits(k)
  BY <1>1, <1>2 DEF ContextsInv
<1>4. QED
  BY <1>1, <1>3, WorkKeeps DEF ContextsInv, ContextTypes

LEMMA LocksProjectKeeps ==
    ASSUME ContextsInv, NEW t \in Threads, LocksProject(t)
    PROVE  ContextsInv'
<1> DEFINE s == Saw(t, "lock", ctx[t].work, ctx[t].locks = IF t = "child" THEN "none" ELSE "redis")
<1>1. /\ pc[t] = "body" /\ load[t] # "read" /\ seen' = seen \cup {s}
      /\ UNCHANGED <<load, pc, env, lock, registry, prefs, guard, patched, ctx, frame, tasks, meter>>
  BY DEF LocksProject, At
<1>2. ctx[t].work = t /\ ctx[t].locks = IF t = "child" THEN "none" ELSE "redis"
  BY <1>1, BodyHas
<1>3. s.where = s.of /\ s.ok
  BY <1>2 DEF Saw
<1> HIDE DEF s
<1>4. \A r \in seen' : r.where = r.of /\ r.ok
  BY <1>1, <1>3 DEF ContextsInv
<1>5. QED
  BY <1>1, <1>4, WorkKeeps DEF ContextsInv, ContextTypes

LEMMA CallsKeeps ==
    ASSUME ContextsInv, NEW t \in Threads, NEW chain \in Chains, Calls(t, chain)
    PROVE  ContextsInv'
<1> DEFINE name == CASE load[t] = "test" -> "first" [] load[t] = "provider" -> "custom" [] OTHER -> "token"
           r == Requested("api", ctx[t], chain, "POST")
           good == env["api"].keys[name] = t /\ OnSite(chain, r.visited)
           s == Saw(t, "call", ctx[t].work, good)
<1>1. /\ pc[t] = "body" /\ load[t] \in {"test", "provider", "publish"} /\ seen' = seen \cup {s}
      /\ UNCHANGED <<load, pc, env, lock, registry, prefs, guard, patched, ctx, frame, tasks, meter>>
  BY DEF Calls, At
<1>2. t # "child" /\ Home(t) = "api" /\ load[t] # "read"
  BY <1>1, LoadIs, HomeIs DEF ContextsInv
<1>3. ctx[t].work = t /\ ctx[t].guarded = TRUE /\ guard["api"].request = "guard"
  BY <1>1, <1>2, BodyHas
<1>4. OnSite(chain, r.visited)
  <2>1. r = Guarded(chain, "POST")
    BY <1>3 DEF Requested
  <2>2. QED
    BY <2>1, GuardedStays
<1>5. env["api"].keys[name] = t
  <2>1. Holder(t)
    BY <1>1 DEF ContextsInv, Held, Holds, NeedsProcessState, Holding
  <2>2. env["api"] = Own(t)
    BY <1>1, <1>2, <2>1 DEF Holder, Injected
  <2>3. env["api"].keys = KeysOf(t)
    BY <2>2 DEF Own
  <2>4. KeysOf(t)[name] = t
    <3>1. CASE load[t] = "test"
      BY <3>1 DEF KeysOf, NoKeys, Names
    <3>2. CASE load[t] = "provider"
      BY <3>2 DEF KeysOf, NoKeys, Names
    <3>3. CASE load[t] = "publish"
      BY <3>3 DEF KeysOf, NoKeys, Names
    <3>4. QED
      BY <1>1, <3>1, <3>2, <3>3
  <2>5. QED
    BY <2>3, <2>4
<1>6. s.where = s.of /\ s.ok = good /\ good
  <2> HIDE DEF good
  <2>1. s.where = ctx[t].work /\ s.of = t /\ s.ok = good
    BY DEF Saw
  <2>2. good
    BY <1>4, <1>5 DEF good
  <2>3. QED
    BY <1>3, <2>1, <2>2
<1> HIDE DEF s, good
<1>7. \A q \in seen' : q.where = q.of /\ q.ok
  BY <1>1, <1>6 DEF ContextsInv
<1>8. QED
  BY <1>1, <1>7, WorkKeeps DEF ContextsInv, ContextTypes

LEMMA FetchesKeeps ==
    ASSUME ContextsInv, NEW k \in tasks, NEW chain \in Chains, Fetches(k, chain)
    PROVE  ContextsInv'
<1> DEFINE t == k.of
           r == Requested(Home(t), k.ctx, chain, "GET")
           good == OnSite(chain, r.visited)
           s == Saw(t, "fetch", k.ctx.work, good)
<1>1. /\ tasks' = tasks \ {k} /\ seen' = seen \cup {s}
      /\ UNCHANGED <<load, pc, env, lock, registry, prefs, guard, patched, ctx, frame, meter>>
  BY DEF Fetches
<1>2. t \in Threads /\ pc[t] = "body" /\ load[t] # "read" /\ k.ctx = ctx[t]
  BY DEF ContextsInv, TaskFits
<1>3. ctx[t].work = t /\ ctx[t].guarded = TRUE /\ guard[Home(t)].request = "guard"
  BY <1>2, BodyHas
<1>4. good
  <2>1. r = Guarded(chain, "GET")
    BY <1>2, <1>3 DEF Requested
  <2>2. QED
    BY <2>1, GuardedStays
<1>5. s.where = s.of /\ s.ok = good
  <2> HIDE DEF good
  <2>1. s.where = k.ctx.work /\ s.of = t /\ s.ok = good
    BY DEF Saw
  <2>2. QED
    BY <1>2, <1>3, <2>1
<1> HIDE DEF s, good
<1>6. \A q \in seen' : q.where = q.of /\ q.ok
  BY <1>1, <1>4, <1>5 DEF ContextsInv
<1>7. \A j \in tasks' : TaskFits(j)
  BY <1>1 DEF ContextsInv
<1>8. QED
  BY <1>1, <1>6, <1>7, WorkKeeps DEF ContextsInv, ContextTypes

LEMMA AsksKeeps ==
    ASSUME ContextsInv, NEW k \in tasks, Asks(k)
    PROVE  ContextsInv'
<1> DEFINE t == k.of
           good == env["worker"].keys["second"] = "pool"
           s == Saw(t, "ask", k.ctx.work, good)
<1>1. /\ k.what = "ask" /\ tasks' = tasks \ {k} /\ seen' = seen \cup {s}
      /\ meter' = [asked |-> meter.asked + 1, counted |-> meter.counted + IF k.ctx.metered THEN 1 ELSE 0]
      /\ UNCHANGED <<load, pc, env, lock, registry, prefs, guard, patched, ctx, frame>>
  BY DEF Asks
<1>2. t \in Threads /\ pc[t] = "body" /\ load[t] = "job" /\ k.ctx = ctx[t]
  BY <1>1 DEF ContextsInv, TaskFits
<1>3. ctx[t].work = t /\ ctx[t].metered = TRUE
  BY <1>2, BodyHas
<1>4. t = "child" /\ Home(t) = "worker"
  BY <1>2, LoadIs, HomeIs DEF ContextsInv
<1>5. good
  <2>1. Holder(t)
    BY <1>2 DEF ContextsInv, Held, Holds, NeedsProcessState, Holding
  <2>2. env["worker"] = Own(t)
    BY <1>2, <1>4, <2>1 DEF Holder, Injected
  <2>3. env["worker"].keys = KeysOf(t)
    BY <2>2 DEF Own
  <2>4. KeysOf(t)["second"] = "pool"
    BY <1>2 DEF KeysOf, NoKeys, Names
  <2>5. QED
    BY <2>3, <2>4
<1>6. s.where = s.of /\ s.ok = good
  <2> HIDE DEF good
  <2>1. s.where = k.ctx.work /\ s.of = t /\ s.ok = good
    BY DEF Saw
  <2>2. QED
    BY <1>2, <1>3, <2>1
<1> HIDE DEF s, good
<1>7. \A q \in seen' : q.where = q.of /\ q.ok
  BY <1>1, <1>5, <1>6 DEF ContextsInv
<1>8. \A j \in tasks' : TaskFits(j)
  BY <1>1 DEF ContextsInv
<1>9. meter' \in [asked : Nat, counted : Nat] /\ meter'.counted = meter'.asked
  <2>1. meter.asked \in Nat /\ meter.counted = meter.asked
    BY DEF ContextsInv, ContextTypes
  <2>2. meter' = [asked |-> meter.asked + 1, counted |-> meter.counted + 1]
    BY <1>1, <1>2, <1>3
  <2>3. QED
    BY <2>1, <2>2
<1>10. QED
  BY <1>1, <1>7, <1>8, <1>9, WorkKeeps

-----------------------------------------------------------------------------
(* The specification.                                                      *)

LEMMA InitInv ==
    ASSUME ContextsInit
    PROVE  ContextsInv
<1>1. \A t \in Threads : pc[t] \in {"start", "done"} /\ (pc[t] = "done" <=> load[t] = "none")
  BY DEF ContextsInit
<1>2. pc \in [Threads -> Place]
  BY DEF ContextsInit, Place
<1>3. /\ env \in [Homes -> Environment]
      /\ env["api"] = Normal("api") /\ env["worker"] = Normal("worker")
  <2>1. "child" \in Threads
    BY DEF Threads
  <2>2. Normal("api") \in Environment /\ Normal("worker") \in Environment
    BY <2>1, KeysTyped
  <2>3. env = [api |-> Normal("api"), worker |-> Normal("worker")]
    BY DEF ContextsInit, Normal
  <2> HIDE DEF Normal
  <2>4. QED
    BY <2>2, <2>3 DEF Homes
<1>4. /\ lock \in [Homes -> [by : Who, depth : Nat]]
      /\ registry \in [Homes -> Who] /\ prefs \in [Homes -> Who]
      /\ guard \in [Homes -> Guard] /\ patched \in [Homes -> BOOLEAN]
  BY DEF ContextsInit, Who, Guard
<1>5. ctx \in [Threads -> Context]
  <2>1. Outside \in Context
    BY DEF Outside, Context, Who
  <2>2. QED
    BY <2>1 DEF ContextsInit
<1>6. frame \in [Threads -> Frame]
  <2>1. NoKeys \in [Names -> KeyOwner]
    BY DEF NoKeys, KeyOwner
  <2>2. NoFrame \in Frame
    BY <2>1 DEF NoFrame, Frame, Environment, Who
  <2>3. QED
    BY <2>2 DEF ContextsInit
<1>7. ContextTypes
  BY <1>2, <1>3, <1>4, <1>5, <1>6 DEF ContextTypes, ContextsInit
<1>8. \A t \in Threads : PlaceFits(t) /\ ContextFits(t) /\ ~Holds(t) /\ ~Guarding(t)
  BY <1>1 DEF PlaceFits, ContextFits, Holds, Holding, Guarding
<1>9. Held
  <2>1. \A h \in Homes : FreeProcess(h)
    BY <1>3 DEF ContextsInit, FreeProcess, Homes
  <2>2. QED
    BY <1>8, <2>1 DEF Held
<1>10. GuardFits
  <2>1. \A h \in Homes : GuardsOf(h) = {}
    BY <1>8 DEF GuardsOf
  <2>2. \A h \in Homes : guard[h].count = 0 /\ guard[h].original = "none" /\ guard[h].request = "plain"
    BY DEF ContextsInit
  <2>3. QED
    BY <2>1, <2>2, FS_EmptySet DEF GuardFits
<1>11. QED
  BY <1>7, <1>8, <1>9, <1>10 DEF ContextsInv, ContextsInit

LEMMA StepKeeps ==
    ASSUME ContextsInv, [ContextsNext]_contextVars
    PROVE  ContextsInv'
<1>1. CASE UNCHANGED contextVars
  BY <1>1, WorkKeeps DEF contextVars, ContextsInv, ContextTypes
<1>2. ASSUME NEW t \in Threads,
             \/ Reserves(t) \/ Starts(t) \/ Enters(t) \/ TakesLock(t) \/ Injects(t) \/ Counts(t)
             \/ Installs(t) \/ Registers(t) \/ Wraps(t) \/ Unwraps(t) \/ Unregisters(t) \/ Uncounts(t)
             \/ Restores(t) \/ Unlocks(t) \/ Leaves(t) \/ LocksProject(t) \/ Ends(t)
             \/ ReadsLimit(t) \/ Decides(t)
      PROVE  ContextsInv'
  BY <1>2, ReservationKeeps, StartsKeeps, EntersKeeps, TakesLockKeeps, InjectsKeeps, CountsKeeps,
     InstallsKeeps, RegistersKeeps, WrapsKeeps, UnwrapsKeeps, UnregistersKeeps, UncountsKeeps,
     RestoresKeeps, UnlocksKeeps, LeavesKeeps, LocksProjectKeeps, EndsKeeps
<1>3. ASSUME NEW t \in Threads, NEW what, Submits(t, what) PROVE ContextsInv'
  BY <1>3, SubmitsKeeps
<1>4. ASSUME NEW t \in Threads, NEW chain \in Chains, Calls(t, chain) PROVE ContextsInv'
  BY <1>4, CallsKeeps
<1>5. ASSUME NEW k \in tasks, Asks(k) PROVE ContextsInv'
  BY <1>5, AsksKeeps
<1>6. ASSUME NEW k \in tasks, NEW chain \in Chains, Fetches(k, chain) PROVE ContextsInv'
  BY <1>6, FetchesKeeps
<1>7. CASE \E t \in Threads : \E what \in {"fetch", "ask"} : Submits(t, what)
  BY <1>3, <1>7, Zenon
<1>8. QED
  BY <1>1, <1>2, <1>4, <1>5, <1>6, <1>7 DEF ContextsNext

-----------------------------------------------------------------------------
(* What the invariant means.                                               *)

LEMMA InvApart ==
    ASSUME ContextsInv
    PROVE  ContextsStayApart
<1>1. BodiesSeeTheirOwn
  <2> SUFFICES ASSUME NEW t \in Threads, Inside(t)
               PROVE  /\ env[Home(t)] = Own(t) /\ prefs[Home(t)] = ProviderOf(t)
                      /\ HasProvider(t) => registry[Home(t)] = t
    BY DEF BodiesSeeTheirOwn, Own
  <2>1. Holder(t) /\ Injected(t) /\ Registered(t)
    BY DEF ContextsInv, Held, Holds, Holding, Inside, Injected, Registered
  <2>2. QED
    BY <2>1 DEF Holder, ProviderOf
<1>2. TasksKeepTheirContext
  BY DEF TasksKeepTheirContext, ContextsInv
<1>3. NothingStaysBehind
  <2> SUFFICES ASSUME NEW h \in Homes, OutsideAgain(h)
               PROVE  /\ env[h] = Normal(h)
                      /\ registry[h] = Nobody /\ prefs[h] = Nobody /\ ~patched[h]
                      /\ guard[h] = [count |-> 0, original |-> "none", request |-> "plain"]
                      /\ lock[h].depth = 0
    BY DEF NothingStaysBehind, Normal
  <2>1. NobodyHolds(h) /\ GuardsOf(h) = {}
    BY DEF OutsideAgain, NobodyHolds, Holds, Holding, GuardsOf, Guarding
  <2>2. FreeProcess(h)
    BY <2>1 DEF ContextsInv, Held
  <2>3. guard[h].count = 0 /\ guard[h].original = "none" /\ guard[h].request = "plain"
    BY <2>1, FS_EmptySet DEF ContextsInv, GuardFits
  <2>4. guard[h] = [count |-> 0, original |-> "none", request |-> "plain"]
    <3>1. guard[h] \in Guard
      BY DEF ContextsInv, ContextTypes
    <3>2. QED
      BY <2>3, <3>1 DEF Guard
  <2>5. QED
    BY <2>2, <2>4 DEF FreeProcess
<1>4. QED
  BY <1>1, <1>2, <1>3 DEF ContextsStayApart

\* Tenants that share a process do not meet in it: a thread finds its own keys and
\* provider between injection and restoration, what its tasks do happens in its
\* directory, under the guard and with its key, and the process is as it was once
\* everybody left (api/adapters/engine.py, context_executor.py, metering.py).
THEOREM TenantsApart == ContextsSpec => []ContextsStayApart
<1>1. ContextsInit => ContextsInv
  BY InitInv
<1>2. ContextsInv /\ [ContextsNext]_contextVars => ContextsInv'
  BY StepKeeps
<1>3. ContextsInv => ContextsStayApart
  BY InvApart
<1>4. QED
  BY <1>1, <1>2, <1>3, PTL DEF ContextsSpec

-----------------------------------------------------------------------------
(* Outreach: the values                                                     *)

Text == Letters \cup {""}
Why == {"", "worker_unavailable", "send_unknown_after_lease", "smtp_not_configured",
        "outreach_draft_not_claimed", "canceled_by_user", "outreach_smtp_send_failed"}
Draft ==
    [status : {"none", "draft", "queued", "sending", "sent", "failed"},
     revision : Nat, text : Text, sure : Nat, sureRevision : Nat, sureText : Text,
     leased : BOOLEAN, error : Why]
Page == [revision : Nat, text : Text]
Request == [at : {"rest", "confirm", "insert", "publish", "store", "restore"},
            job : Nat, revision : Nat, retry : BOOLEAN]
Run == [at : {"wait", "lock", "smtp", "claim", "mail", "mark", "end"},
        job : Nat, sure : Nat, text : Text, ends : {"", "failed", "canceled", "done"}]
Mail == [sure : Nat, text : Text]

\* The values of what the mails depend on.
OutreachTypes ==
    /\ draft \in Draft
    /\ page \in [Editors -> Page]
    /\ step \in [Editors -> Request]
    /\ mailer \in [Mailers -> Run]
    /\ out \in Seq(Mail) /\ sures \in Seq(Text) /\ lost \in Nat

\* A page of the draft's revision shows its text, and a request to confirm names
\* the revision of the page it was made from.
PagesShow ==
    \A e \in Editors :
        /\ page[e].revision <= draft.revision
        /\ page[e].revision = draft.revision => page[e].text = draft.text
        /\ step[e].at = "confirm" => step[e].revision = page[e].revision

\* A draft that may leave holds the text of its confirmation.
DraftIsConfirmed ==
    /\ draft.sure <= Len(sures)
    /\ draft.status \in {"queued", "sending"} =>
         draft.sure > 0 /\ draft.sureText = sures[draft.sure]

KeyHeld == \A w \in Mailers : mailer[w].at \in {"smtp", "claim", "mail", "mark"} => key = w

\* While a mail is on its way its draft stays as it was claimed.
OnItsWay ==
    \A w \in Mailers : mailer[w].at \in {"mail", "mark"} =>
        /\ draft.status = "sending" /\ draft.leased
        /\ draft.sure = mailer[w].sure /\ mailer[w].text = sures[draft.sure]

MailsKnown ==
    \A n \in DOMAIN out : out[n].sure \in DOMAIN sures /\ out[n].text = sures[out[n].sure]

\* The mails of confirmation s.
Count(q, s) == Cardinality({n \in DOMAIN q : q[n].sure = s})

Budgeted ==
    /\ \A s \in DOMAIN sures : Count(out, s) <= 1 + lost
    /\ draft.status = "queued" => Count(out, draft.sure) = 0
    /\ draft.status = "sending" /\ (\A w \in Mailers : mailer[w].at # "mark") =>
         Count(out, draft.sure) <= lost

MailsInv ==
    /\ OutreachTypes /\ PagesShow /\ DraftIsConfirmed /\ KeyHeld /\ OnItsWay /\ MailsKnown
    /\ Budgeted

-----------------------------------------------------------------------------
(* Counting mails                                                          *)

LEMMA CountIsNat ==
    ASSUME NEW T, NEW q \in Seq(T), NEW s
    PROVE  /\ IsFiniteSet({n \in DOMAIN q : q[n].sure = s})
           /\ Count(q, s) \in Nat
<1>1. IsFiniteSet(DOMAIN q)
  BY LenProperties, FS_Interval
<1>2. {n \in DOMAIN q : q[n].sure = s} \in SUBSET DOMAIN q
  OBVIOUS
<1>3. QED
  BY <1>1, <1>2, FS_Subset, FS_CardinalityType DEF Count

\* A mail counts for its confirmation and for no other.
LEMMA CountOneMore ==
    ASSUME NEW T, NEW q \in Seq(T), NEW m \in T, NEW s
    PROVE  Count(Append(q, m), s) = IF m.sure = s THEN Count(q, s) + 1 ELSE Count(q, s)
<1> DEFINE S == {n \in DOMAIN q : q[n].sure = s}
           n1 == Len(q) + 1
<1>1. /\ Len(q) \in Nat /\ DOMAIN q = 1 .. Len(q)
      /\ DOMAIN Append(q, m) = 1 .. n1
      /\ Append(q, m)[n1] = m /\ \A n \in 1 .. Len(q) : Append(q, m)[n] = q[n]
  BY LenProperties, AppendProperties
<1>2. {n \in DOMAIN Append(q, m) : Append(q, m)[n].sure = s}
        = IF m.sure = s THEN S \cup {n1} ELSE S
  BY <1>1
<1>3. n1 \notin S
  BY <1>1
<1>4. IsFiniteSet(S)
  BY CountIsNat
<1>5. QED
  BY <1>2, <1>3, <1>4, FS_AddElement DEF Count

\* A confirmation that no mail names has none.
LEMMA CountNone ==
    ASSUME NEW T, NEW q \in Seq(T), NEW s, \A n \in DOMAIN q : q[n].sure # s
    PROVE  Count(q, s) = 0
<1>1. {n \in DOMAIN q : q[n].sure = s} = {}
  OBVIOUS
<1>2. QED
  BY <1>1, FS_EmptySet DEF Count

-----------------------------------------------------------------------------
(* Editors                                                                 *)

\* Editors' steps leave runs and mails alone, and change the draft only while
\* nobody holds the lock; none but a confirmation brings it into the queue.
LEMMA EditorsKeep ==
    ASSUME MailsInv, draft' \in Draft, page' \in [Editors -> Page],
           step' \in [Editors -> Request], PagesShow',
           UNCHANGED <<mailer, key, out, sures, lost>>,
           \/ draft' = draft
           \/ /\ key = "free" /\ draft'.status \notin {"queued", "sending"}
              /\ draft'.sure <= Len(sures)
    PROVE  MailsInv'
<1> USE DEF MailsInv
<1>1. OutreachTypes'
  BY DEF OutreachTypes
<1>2. key = "free" => \A w \in Mailers : mailer[w].at \notin {"mail", "mark"}
  BY OutreachAssumption DEF KeyHeld
<1>3. DraftIsConfirmed' /\ KeyHeld' /\ MailsKnown'
  BY DEF DraftIsConfirmed, KeyHeld, MailsKnown
<1>4. OnItsWay'
  BY <1>2 DEF OnItsWay
<1>5. Budgeted'
  BY DEF Budgeted, Count
<1>6. QED
  BY <1>1, <1>3, <1>4, <1>5

\* A request goes on, and none of its steps but Send asks to confirm.
LEMMA RequestsMove ==
    ASSUME MailsInv, NEW e \in Editors, NEW r \in Request,
           r.at = "confirm" => r.revision = page[e].revision,
           step' = [step EXCEPT ![e] = r], UNCHANGED <<draft, page>>
    PROVE  step' \in [Editors -> Request] /\ PagesShow'
BY DEF MailsInv, OutreachTypes, PagesShow

LEMMA RestIsRequest ==
    /\ Resting \in Request /\ Resting.at = "rest"
    /\ \A n \in Nat, b \in BOOLEAN : [at |-> "publish", job |-> n, revision |-> 0, retry |-> b] \in Request
BY DEF Resting, Request

LEMMA RequestActions ==
    ASSUME MailsInv, NEW e \in Editors,
           \/ Send(e) \/ InsertSend(e) \/ PublishSend(e) \/ StoreTask(e)
           \/ PublishFails(e) \/ RequestDies(e) \/ \E i \in DOMAIN sends : Retry(e, i),
           Len(sends) \in Nat
    PROVE  MailsInv'
<1>0. Len(sends) + 1 \in Nat
  OBVIOUS
<1>1. step[e] \in Request /\ page[e] \in Page
  BY DEF MailsInv, OutreachTypes
<1>2. PICK r \in Request :
        /\ step' = [step EXCEPT ![e] = r]
        /\ r.at = "confirm" => r.revision = page[e].revision
  <2>1. CASE Send(e)
    <3> DEFINE r == [Resting EXCEPT !.at = "confirm", !.revision = page[e].revision]
    <3>1. r \in Request /\ r.revision = page[e].revision /\ step' = [step EXCEPT ![e] = r]
      BY <1>1, <2>1 DEF Send, Resting, Request, Page
    <3>2. QED
      BY <3>1
  <2>2. CASE InsertSend(e)
    <3>1. CASE step' = [step EXCEPT ![e] = Resting]
      BY <3>1, RestIsRequest
    <3>2. CASE step' = [step EXCEPT ![e].at = "publish", ![e].job = Len(sends) + 1]
      <4> DEFINE r == [step[e] EXCEPT !.at = "publish", !.job = Len(sends) + 1]
      <4>1. r \in Request /\ r.at = "publish"
        BY <1>0, <1>1 DEF Request
      <4>2. step' = [step EXCEPT ![e] = r]
        BY <3>2 DEF MailsInv, OutreachTypes
      <4>3. QED
        BY <4>1, <4>2
    <3>3. QED
      BY <2>2, <3>1, <3>2 DEF InsertSend
  <2>3. CASE PublishSend(e)
    <3> DEFINE r == [step[e] EXCEPT !.at = "store"]
    <3>1. r \in Request /\ r.at = "store" /\ step' = [step EXCEPT ![e] = r]
      BY <1>1, <2>3 DEF Request, PublishSend
    <3>2. QED
      BY <3>1
  <2>4. CASE StoreTask(e) \/ RequestDies(e)
    BY <2>4 DEF StoreTask, RequestDies, Resting, Request
  <2>5. CASE PublishFails(e)
    <3> DEFINE r == IF step[e].retry THEN Resting ELSE [step[e] EXCEPT !.at = "restore"]
    <3>1. r \in Request /\ r.at # "confirm" /\ step' = [step EXCEPT ![e] = r]
      BY <1>1, <2>5 DEF Request, PublishFails, Resting
    <3>2. QED
      BY <3>1
  <2>6. CASE \E i \in DOMAIN sends : Retry(e, i)
    <3> DEFINE r == [at |-> "publish", job |-> Len(sends) + 1, revision |-> 0, retry |-> TRUE]
    <3>1. r \in Request /\ r.at = "publish"
      BY <1>0, RestIsRequest
    <3>2. step' = [step EXCEPT ![e] = r]
      BY <2>6 DEF Retry, Resting
    <3>3. QED
      BY <3>1, <3>2
  <2>7. QED
    BY <2>1, <2>2, <2>3, <2>4, <2>5, <2>6
<1>3. UNCHANGED <<draft, page, mailer, key, out, sures, lost>>
  BY DEF Send, InsertSend, PublishSend, StoreTask, PublishFails, RequestDies, Retry
<1>4. step' \in [Editors -> Request] /\ PagesShow'
  BY <1>2, <1>3, RequestsMove
<1>5. QED
  BY <1>3, <1>4, EditorsKeep DEF MailsInv, OutreachTypes

\* Creating, showing and editing a draft, and giving it up when no job was queued.
DraftAction(e) ==
    \/ \E text \in Letters \cup {""}, kind \in {"offsite", "page"} : CreateDraft(e, kind, text)
    \/ \E owner \in BOOLEAN : Overview(e, owner)
    \/ \E text \in Letters \cup {""} : UpdateDraft(e, text)
    \/ Restore(e)

LEMMA DraftActions ==
    ASSUME MailsInv, NEW e \in Editors, DraftAction(e)
    PROVE  MailsInv'
<1>1. /\ draft \in Draft /\ page \in [Editors -> Page] /\ step \in [Editors -> Request]
      /\ sures \in Seq(Text)
  BY DEF MailsInv, OutreachTypes
<1>7. Len(sures) \in Nat
  BY <1>1, LenProperties
<1>8. 0 <= Len(sures)
  BY <1>7
<1>0. /\ \A f \in Editors : page[f].revision \in Nat
      /\ draft.revision \in Nat /\ draft.text \in Text
  BY <1>1 DEF Page, Draft
<1>2. /\ "" \in Text /\ NoDraft \in Draft
  BY DEF Text, Draft, NoDraft, Why
<1>3. ASSUME NEW text \in Text, NEW kind, CreateDraft(e, kind, text)
      PROVE  MailsInv'
  <2> DEFINE d == [NoDraft EXCEPT !.status = "draft", !.revision = 1, !.text = text]
  <2>1. draft' = d /\ draft = NoDraft /\ key = "free"
    BY <1>3 DEF CreateDraft, Drafted
  <2>2. d \in Draft /\ d.status = "draft" /\ d.sure = 0 /\ d.revision = 1
    BY <1>2 DEF NoDraft, Draft, Why
  <2> HIDE DEF d
  <2>3. UNCHANGED <<page, step, mailer, key, out, sures, lost>>
    BY <1>3 DEF CreateDraft
  <2>6. draft.revision = 0
    BY <2>1 DEF NoDraft
  <2>7. \A f \in Editors : page[f].revision <= 1 /\ page[f].revision # 1
    <3>1. \A f \in Editors : page[f].revision <= 0
      BY <2>6 DEF MailsInv, PagesShow
    <3>2. QED
      BY <1>0, <3>1
  <2>4. PagesShow'
    BY <2>1, <2>2, <2>3, <2>7 DEF MailsInv, PagesShow
  <2>5. QED
    BY <1>1, <1>8, <2>1, <2>2, <2>3, <2>4, EditorsKeep
<1>4. ASSUME NEW owner, Overview(e, owner)
      PROVE  MailsInv'
  <2>1. draft' = draft \/ (key = "free" /\ draft' = Fallen(draft, "send_unknown_after_lease"))
    BY <1>4 DEF Overview, ExpireStaleSending
  <2>2. draft' \in Draft /\ draft'.revision = draft.revision /\ draft'.text = draft.text
        /\ draft'.sure = draft.sure
        /\ (draft' = draft \/ (key = "free" /\ draft'.status = "failed"))
    BY <1>1, <2>1 DEF Fallen, Draft, Why
  <2>3. page' = [page EXCEPT ![e] = [revision |-> draft.revision, text |-> draft.text]]
        /\ UNCHANGED <<step, mailer, key, out, sures, lost>> /\ step[e] = Resting
    BY <1>4 DEF Overview
  <2>0. [revision |-> draft.revision, text |-> draft.text] \in Page
    BY <1>0 DEF Page
  <2>4. page' \in [Editors -> Page]
    BY <1>1, <2>0, <2>3
  <2>5. PagesShow'
    BY <1>0, <1>1, <2>2, <2>3 DEF MailsInv, PagesShow, Resting
  <2>6. draft.sure <= Len(sures)
    BY DEF MailsInv, DraftIsConfirmed
  <2>7. QED
    BY <1>1, <2>2, <2>3, <2>4, <2>5, <2>6, EditorsKeep
<1>5. ASSUME NEW text \in Text, UpdateDraft(e, text)
      PROVE  MailsInv'
  <2> DEFINE n == page[e].revision + 1
             d == [NoDraft EXCEPT !.status = "draft", !.revision = n, !.text = text]
  <2>0. page[e].revision = draft.revision /\ key = "free"
    BY <1>5 DEF UpdateDraft, Edited
  <2>1. draft' = d
    BY <1>5 DEF UpdateDraft, Edited
  <2>2. n \in Nat /\ n > draft.revision
    BY <1>0, <2>0
  <2> HIDE DEF n
  <2>3. d \in Draft /\ d.status = "draft" /\ d.sure = 0 /\ d.revision = n /\ d.text = text
    BY <1>2, <2>2 DEF NoDraft, Draft, Why
  <2> HIDE DEF d
  <2>4. page' = [page EXCEPT ![e] = [revision |-> n, text |-> text]]
        /\ UNCHANGED <<step, mailer, key, out, sures, lost>> /\ step[e] = Resting
    BY <1>5, <2>1, <2>3 DEF UpdateDraft
  <2>5. page' \in [Editors -> Page]
    <3>1. [revision |-> n, text |-> text] \in Page
      BY <2>2 DEF Page
    <3>2. QED
      BY <1>1, <2>4, <3>1
  <2>6. \A f \in Editors : page[f].revision <= n /\ page[f].revision # n
    BY <1>0, <2>2 DEF MailsInv, PagesShow
  <2>7. \A f \in Editors : page'[f] = IF f = e THEN [revision |-> n, text |-> text] ELSE page[f]
    BY <1>1, <2>4
  <2>8. PagesShow'
    <3>1. \A f \in Editors :
             /\ page'[f].revision <= n
             /\ page'[f].revision = n => page'[f].text = text
      BY <2>2, <2>6, <2>7
    <3>2. \A f \in Editors : step[f].at = "confirm" => f # e /\ step[f].revision = page[f].revision
      BY <2>4 DEF MailsInv, PagesShow, Resting
    <3>3. QED
      BY <2>1, <2>3, <2>4, <2>7, <3>1, <3>2 DEF PagesShow
  <2>9. QED
    BY <1>1, <2>0, <2>1, <2>3, <2>4, <2>5, <2>8, <1>8, EditorsKeep
<1>6. CASE Restore(e)
  <2>1. draft' = draft \/ (key = "free" /\ draft' = Fallen(draft, "worker_unavailable"))
    BY <1>6 DEF Restore, RestoredAfterQueueFailure
  <2>2. draft' \in Draft /\ draft'.revision = draft.revision /\ draft'.text = draft.text
        /\ draft'.sure = draft.sure
        /\ (draft' = draft \/ (key = "free" /\ draft'.status = "failed"))
    BY <1>1, <2>1 DEF Fallen, Draft, Why
  <2>3. step' = [step EXCEPT ![e] = Resting] /\ UNCHANGED <<page, mailer, key, out, sures, lost>>
    BY <1>6 DEF Restore
  <2>4. step' \in [Editors -> Request] /\ page' \in [Editors -> Page]
    BY <1>1, <2>3, RestIsRequest
  <2>5. PagesShow'
    BY <1>1, <2>2, <2>3, RestIsRequest DEF MailsInv, PagesShow
  <2>6. draft.sure <= Len(sures)
    BY DEF MailsInv, DraftIsConfirmed
  <2>7. QED
    BY <2>2, <2>3, <2>4, <2>5, <2>6, EditorsKeep
<1>9. QED
  BY <1>3, <1>4, <1>5, <1>6 DEF DraftAction, Text

\* A confirmation is of the text on the page, and new: no mail has its number.
LEMMA ConfirmKeeps ==
    ASSUME MailsInv, NEW e \in Editors, Confirm(e)
    PROVE  MailsInv'
<1> DEFINE n == Len(sures) + 1
           d == Queued(draft, n)
<1>1. /\ draft \in Draft /\ page \in [Editors -> Page] /\ step \in [Editors -> Request]
      /\ out \in Seq(Mail) /\ sures \in Seq(Text)
      /\ Len(sures) \in Nat /\ n \in Nat /\ DOMAIN sures = 1 .. Len(sures)
  BY LenProperties DEF MailsInv, OutreachTypes
<1>2. CASE ~(key = "free" /\ Confirmed(draft, step[e].revision, n) # {})
  <2>1. step' = [step EXCEPT ![e] = Resting]
        /\ UNCHANGED <<draft, page, mailer, key, out, sures, lost>>
    BY <1>2 DEF Confirm
  <2>2. step' \in [Editors -> Request] /\ PagesShow'
    BY <2>1, RestIsRequest, RequestsMove
  <2>3. QED
    BY <1>1, <2>1, <2>2, EditorsKeep
<1>3. CASE key = "free" /\ Confirmed(draft, step[e].revision, n) # {}
  <2> DEFINE r == [step[e] EXCEPT !.at = "insert"]
  <2>1. /\ draft' = d /\ draft.revision = step[e].revision
        /\ sures' = Append(sures, page[e].text)
        /\ step' = [step EXCEPT ![e] = r]
        /\ UNCHANGED <<page, mailer, key, out, lost>> /\ step[e].at = "confirm"
    BY <1>1, <1>3 DEF Confirm, Confirmed
  <2>2. page[e].text = draft.text
    BY <2>1 DEF MailsInv, PagesShow
  <2>3. r \in Request /\ r.at = "insert"
    BY <1>1 DEF Request
  <2>4. /\ d \in Draft /\ d.status = "queued" /\ d.sure = n /\ d.sureText = draft.text
        /\ d.revision = draft.revision /\ d.text = draft.text
    BY <1>1 DEF Queued, Draft, Why
  <2>5. draft.text \in Text
    BY <1>1 DEF Draft
  <2>6. /\ sures' \in Seq(Text) /\ Len(sures') = n /\ DOMAIN sures' = 1 .. n
        /\ sures'[n] = draft.text /\ \A s \in 1 .. Len(sures) : sures'[s] = sures[s]
    BY <1>1, <2>1, <2>2, <2>5, AppendProperties
  <2>7. \A s \in 1 .. n : s \in 1 .. Len(sures) \/ s = n
    BY <1>1
  <2>8. \A s \in 1 .. Len(sures) : s # n /\ s \in 1 .. n
    BY <1>1
  <2>9. n > 0 /\ n <= n /\ n \in 1 .. n
    BY <1>1
  <2> HIDE DEF n, d, r
  <2>10. OutreachTypes'
    BY <2>1, <2>3, <2>4, <2>6, <1>1 DEF MailsInv, OutreachTypes
  <2>11. PagesShow'
    BY <1>1, <2>1, <2>3, <2>4 DEF MailsInv, PagesShow
  <2>12. DraftIsConfirmed'
    BY <2>1, <2>4, <2>6, <2>9 DEF DraftIsConfirmed
  <2>13. KeyHeld'
    BY <2>1 DEF MailsInv, KeyHeld
  <2>14. \A w \in Mailers : mailer[w].at \notin {"mail", "mark"}
    BY <1>3, OutreachAssumption DEF MailsInv, KeyHeld
  <2>15. OnItsWay'
    BY <2>1, <2>14 DEF OnItsWay
  <2>16. MailsKnown'
    BY <1>1, <2>1, <2>6, <2>8 DEF MailsInv, MailsKnown
  <2>17. Count(out, n) = 0
    <3>1. \A k \in DOMAIN out : out[k].sure # n
      BY <1>1, <2>8 DEF MailsInv, MailsKnown
    <3>2. QED
      BY <1>1, <3>1, CountNone
  <2>18. Budgeted'
    <3>1. lost \in Nat
      BY DEF MailsInv, OutreachTypes
    <3>2. \A s \in 1 .. Len(sures) : Count(out, s) <= 1 + lost
      BY <1>1 DEF MailsInv, Budgeted
    <3>3. \A s \in 1 .. n : Count(out, s) <= 1 + lost
      BY <2>7, <2>17, <3>1, <3>2
    <3>4. \A s \in DOMAIN sures' : Count(out', s) <= 1 + lost'
      BY <2>1, <2>6, <3>3
    <3>5. draft'.status = "queued" /\ Count(out', draft'.sure) = 0
      BY <2>1, <2>4, <2>17
    <3>6. QED
      BY <3>4, <3>5 DEF Budgeted
  <2>19. QED
    BY <2>10, <2>11, <2>12, <2>13, <2>15, <2>16, <2>18 DEF MailsInv
<1>4. QED
  BY <1>2, <1>3

-----------------------------------------------------------------------------
(* Runs                                                                    *)

\* Run w goes on as r, and the draft keeps what was confirmed: pages, requests and
\* confirmations are as before.
RunMoves(w, r) ==
    /\ mailer' = [mailer EXCEPT ![w] = r]
    /\ UNCHANGED <<page, step, sures>>
    /\ draft'.revision = draft.revision /\ draft'.text = draft.text
    /\ draft'.sure = draft.sure /\ draft'.sureText = draft.sureText
    /\ draft'.status \in {"queued", "sending"} => draft.status \in {"queued", "sending"}

LEMMA RunMovesKeep ==
    ASSUME MailsInv, NEW w \in Mailers, NEW r \in Run, RunMoves(w, r),
           draft' \in Draft, out' \in Seq(Mail), lost' \in Nat,
           KeyHeld', OnItsWay', MailsKnown', Budgeted'
    PROVE  MailsInv'
<1>1. OutreachTypes'
  BY DEF MailsInv, OutreachTypes, RunMoves
<1>2. PagesShow' /\ DraftIsConfirmed'
  BY DEF MailsInv, PagesShow, DraftIsConfirmed, RunMoves
<1>3. QED
  BY <1>1, <1>2 DEF MailsInv

\* A run outside the lock, or one that has just taken it, has nothing on its way.
LEMMA RunOutsideKeeps ==
    ASSUME MailsInv, NEW w \in Mailers, NEW r \in Run,
           mailer' = [mailer EXCEPT ![w] = r],
           UNCHANGED <<draft, page, step, out, sures, lost>>,
           mailer[w].at \notin {"mail", "mark"}, r.at \notin {"mail", "mark"},
           KeyHeld'
    PROVE  MailsInv'
<1>1. /\ draft \in Draft /\ out \in Seq(Mail) /\ lost \in Nat /\ mailer \in [Mailers -> Run]
  BY DEF MailsInv, OutreachTypes
<1>2. OnItsWay' /\ MailsKnown'
  BY <1>1 DEF MailsInv, OnItsWay, MailsKnown
<1>3. (\A v \in Mailers : mailer'[v].at # "mark") => \A v \in Mailers : mailer[v].at # "mark"
  BY <1>1
<1>4. Budgeted'
  BY <1>3 DEF MailsInv, Budgeted, Count
<1>5. RunMoves(w, r)
  BY DEF RunMoves
<1>6. QED
  BY <1>1, <1>2, <1>4, <1>5, RunMovesKeep

\* A record of a run whose place, and text, changed.
LEMMA RunAt ==
    ASSUME NEW r \in Run, NEW at \in {"wait", "lock", "smtp", "claim", "mail", "mark", "end"}
    PROVE  [r EXCEPT !.at = at] \in Run /\ [r EXCEPT !.at = at].at = at
BY DEF Run

LEMMA WaitingIsRun == Waiting \in Run /\ Waiting.at = "wait"
BY DEF Waiting, Run, Text

LEMMA OutsideActions ==
    ASSUME MailsInv, NEW w \in Mailers,
           EnterLock(w) \/ LockTimeout(w) \/ Settle(w)
    PROVE  MailsInv'
<1>1. mailer \in [Mailers -> Run] /\ mailer[w] \in Run
  BY DEF MailsInv, OutreachTypes
<1>2. UNCHANGED <<draft, page, step, out, sures, lost>>
  BY DEF EnterLock, LockTimeout, Settle
<1>3. CASE EnterLock(w)
  <2> DEFINE r == [mailer[w] EXCEPT !.at = "smtp"]
  <2>1. r \in Run /\ r.at = "smtp"
    BY <1>1 DEF Run
  <2>2. /\ mailer[w].at = "lock" /\ key = "free" /\ key' = w
        /\ mailer' = [mailer EXCEPT ![w] = r]
    BY <1>3 DEF EnterLock
  <2> HIDE DEF r
  <2>3. \A v \in Mailers : mailer[v].at \notin {"smtp", "claim", "mail", "mark"}
    BY <2>2, OutreachAssumption DEF MailsInv, KeyHeld
  <2>4. KeyHeld'
    BY <1>1, <2>1, <2>2, <2>3 DEF KeyHeld
  <2>5. mailer[w].at \notin {"mail", "mark"} /\ r.at \notin {"mail", "mark"}
    BY <2>1, <2>2
  <2>6. QED
    BY <1>2, <2>1, <2>2, <2>4, <2>5, RunOutsideKeeps
<1>4. CASE LockTimeout(w) \/ Settle(w)
  <2>1. /\ mailer[w].at \notin {"mail", "mark"} /\ key' = key
        /\ mailer' = [mailer EXCEPT ![w] = Waiting]
    BY <1>4 DEF LockTimeout, Settle
  <2>2. KeyHeld'
    BY <1>1, <2>1, WaitingIsRun DEF MailsInv, KeyHeld
  <2>3. QED
    BY <1>2, <2>1, <2>2, WaitingIsRun, RunOutsideKeeps
<1>5. QED
  BY <1>3, <1>4

LEMMA ReceiveKeeps ==
    ASSUME MailsInv, NEW w \in Mailers, NEW m \in posted, Receive(w, m),
           \A n \in posted : n.job \in Nat
    PROVE  MailsInv'
<1>1. /\ mailer \in [Mailers -> Run] /\ draft \in Draft
      /\ page \in [Editors -> Page] /\ step \in [Editors -> Request]
  BY DEF MailsInv, OutreachTypes
<1>2. UNCHANGED <<draft, page, step, key, out, sures, lost>> /\ mailer[w] = Waiting
  BY DEF Receive
<1>3. CASE mailer' = mailer
  <2>1. PagesShow'
    BY <1>2 DEF MailsInv, PagesShow
  <2>2. QED
    BY <1>1, <1>2, <1>3, <2>1, EditorsKeep
<1>4. CASE mailer' = [mailer EXCEPT ![w] = [Waiting EXCEPT !.at = "lock", !.job = m.job]]
  <2> DEFINE r == [Waiting EXCEPT !.at = "lock", !.job = m.job]
  <2>1. m.job \in Nat
    OBVIOUS
  <2>2. r \in Run /\ r.at = "lock" /\ mailer' = [mailer EXCEPT ![w] = r]
    BY <1>4, <2>1, WaitingIsRun DEF Run
  <2> HIDE DEF r
  <2>3. KeyHeld'
    BY <1>1, <1>2, <2>2 DEF MailsInv, KeyHeld
  <2>4. mailer[w].at \notin {"mail", "mark"} /\ r.at \notin {"mail", "mark"}
    BY <1>2, <2>2, WaitingIsRun
  <2>5. QED
    BY <1>2, <2>2, <2>3, <2>4, RunOutsideKeeps
<1>5. QED
  BY <1>3, <1>4 DEF Receive

\* A mail that goes out is the one that was claimed, and one more for it.
LEMMA MailGoesOut ==
    ASSUME MailsInv, NEW w \in Mailers, mailer[w].at = "mail", sures' = sures,
           out' = Append(out, [sure |-> mailer[w].sure, text |-> mailer[w].text])
    PROVE  /\ out' \in Seq(Mail) /\ MailsKnown'
           /\ \A s \in DOMAIN sures : Count(out', s) <= 1 + lost
<1> DEFINE m == [sure |-> mailer[w].sure, text |-> mailer[w].text]
<1>1. /\ mailer[w] \in Run /\ out \in Seq(Mail) /\ sures \in Seq(Text) /\ lost \in Nat
      /\ mailer \in [Mailers -> Run] /\ draft \in Draft
  BY DEF MailsInv, OutreachTypes
<1>2. m \in Mail /\ m.sure = mailer[w].sure /\ m.text = mailer[w].text
  BY <1>1 DEF Mail, Run
<1>3. /\ draft.status = "sending" /\ draft.sure = mailer[w].sure
      /\ mailer[w].text = sures[draft.sure]
  BY DEF MailsInv, OnItsWay
<1>4. draft.sure \in DOMAIN sures
  <2>1. DOMAIN sures = 1 .. Len(sures) /\ Len(sures) \in Nat
    BY <1>1, LenProperties
  <2>2. draft.sure \in Nat /\ draft.sure <= Len(sures) /\ draft.sure > 0
    BY <1>1, <1>3 DEF MailsInv, DraftIsConfirmed, Draft
  <2>3. QED
    BY <2>1, <2>2
<1>5. \A v \in Mailers : mailer[v].at # "mark"
  <2>1. key = w
    BY DEF MailsInv, KeyHeld
  <2>2. QED
    BY <2>1 DEF MailsInv, KeyHeld
<1>6. Count(out, draft.sure) <= lost
  BY <1>3, <1>5 DEF MailsInv, Budgeted
<1> HIDE DEF m
<1>7. out' = Append(out, m)
  BY DEF m
<1>8. /\ out' \in Seq(Mail) /\ Len(out) \in Nat /\ DOMAIN out = 1 .. Len(out)
      /\ Len(out') = Len(out) + 1 /\ DOMAIN out' = 1 .. Len(out')
      /\ out'[Len(out) + 1] = m /\ \A n \in 1 .. Len(out) : out'[n] = out[n]
  BY <1>1, <1>2, <1>7, AppendProperties, LenProperties
<1>9. MailsKnown'
  <2>1. \A n \in DOMAIN out' : n \in DOMAIN out \/ n = Len(out) + 1
    BY <1>8
  <2>2. ASSUME NEW n \in DOMAIN out'
        PROVE  out'[n].sure \in DOMAIN sures /\ out'[n].text = sures[out'[n].sure]
    <3>1. CASE n \in DOMAIN out
      BY <1>8, <3>1 DEF MailsInv, MailsKnown
    <3>2. CASE n = Len(out) + 1
      BY <1>2, <1>3, <1>4, <1>8, <3>2
    <3>3. QED
      BY <2>1, <3>1, <3>2
  <2>3. QED
    BY <2>2 DEF MailsKnown
<1>10. ASSUME NEW s \in DOMAIN sures
       PROVE  Count(out', s) <= 1 + lost
  <2>1. Count(out', s) = IF m.sure = s THEN Count(out, s) + 1 ELSE Count(out, s)
    BY <1>1, <1>2, <1>7, CountOneMore
  <2>2. Count(out, s) \in Nat /\ Count(out, s) <= 1 + lost
    BY <1>1, CountIsNat DEF MailsInv, Budgeted
  <2>3. m.sure = s => Count(out, s) <= lost
    BY <1>2, <1>3, <1>6
  <2>4. QED
    BY <1>1, <2>1, <2>2, <2>3
<1>11. QED
  BY <1>8, <1>9, <1>10

\* A run gives the lock back. A draft whose mail was on its way has come to an end.
LEMMA LeavingKeeps ==
    ASSUME MailsInv, NEW w \in Mailers, NEW r \in Run, r.at = "end",
           mailer' = [mailer EXCEPT ![w] = r], key' = "free", key = w,
           UNCHANGED <<page, step, sures, lost>>, draft' \in Draft,
           draft'.revision = draft.revision, draft'.text = draft.text,
           draft'.sure = draft.sure, draft'.sureText = draft.sureText,
           \/ draft'.status \notin {"queued", "sending"}
           \/ draft' = draft /\ mailer[w].at \notin {"mail", "mark"},
           \/ out' = out
           \/ /\ out' = Append(out, [sure |-> mailer[w].sure, text |-> mailer[w].text])
              /\ mailer[w].at = "mail" /\ draft'.status \notin {"queued", "sending"}
    PROVE  MailsInv'
<1>1. /\ draft \in Draft /\ out \in Seq(Mail) /\ lost \in Nat /\ mailer \in [Mailers -> Run]
      /\ mailer[w] \in Run
  BY DEF MailsInv, OutreachTypes
<1>2. \A v \in Mailers : v # w => mailer[v].at \notin {"smtp", "claim", "mail", "mark"}
  BY DEF MailsInv, KeyHeld
<1>3. \A v \in Mailers : mailer'[v].at \notin {"smtp", "claim", "mail", "mark"}
  BY <1>1, <1>2
<1>4. KeyHeld' /\ OnItsWay'
  BY <1>3 DEF KeyHeld, OnItsWay
<1>5. /\ out' \in Seq(Mail) /\ MailsKnown'
      /\ \A s \in DOMAIN sures : Count(out', s) <= 1 + lost
  <2>1. CASE out' = out
    BY <1>1, <2>1 DEF MailsInv, MailsKnown, Budgeted
  <2>2. CASE out' = Append(out, [sure |-> mailer[w].sure, text |-> mailer[w].text])
              /\ mailer[w].at = "mail"
    BY <1>1, <2>2, MailGoesOut
  <2>3. QED
    BY <2>1, <2>2
<1>6. draft'.status \in {"queued", "sending"} =>
        draft' = draft /\ out' = out /\ \A v \in Mailers : mailer[v].at # "mark"
  BY <1>2
<1>7. Budgeted'
  BY <1>5, <1>6 DEF MailsInv, Budgeted, Count
<1>8. RunMoves(w, r)
  BY <1>6 DEF RunMoves
<1>9. QED
  BY <1>1, <1>4, <1>5, <1>7, <1>8, RunMovesKeep

\* What a run leaves behind.
LEMMA EndIsRun ==
    ASSUME NEW r \in Run, NEW status \in {"failed", "canceled", "done"}
    PROVE  /\ [Waiting EXCEPT !.at = "end", !.job = r.job, !.ends = status] \in Run
           /\ [Waiting EXCEPT !.at = "end", !.job = r.job, !.ends = status].at = "end"
BY DEF Waiting, Run, Text

LEMMA StoppedFalls ==
    ASSUME NEW d \in Draft, NEW why \in Why
    PROVE  /\ \A x \in {Stopped(d, why), QueuedFailed(d, why), [d EXCEPT !.status = "sent", !.error = ""]} :
                /\ x \in Draft /\ x.revision = d.revision /\ x.text = d.text
                /\ x.sure = d.sure /\ x.sureText = d.sureText
           /\ Stopped(d, why).status \notin {"queued", "sending"}
           /\ QueuedFailed(d, why) = d \/ QueuedFailed(d, why).status = "failed"
BY DEF Stopped, QueuedFailed, SendingFailed, Fallen, Draft, Why

\* A run that reads, claims, mails or marks holds the lock and either goes on or leaves.
LEMMA ReadSmtpKeeps ==
    ASSUME MailsInv, NEW w \in Mailers, ReadSmtp(w)
    PROVE  MailsInv'
<1>1. /\ mailer \in [Mailers -> Run] /\ mailer[w] \in Run /\ draft \in Draft
      /\ mailer[w].at = "smtp"
  BY DEF MailsInv, OutreachTypes, ReadSmtp
<1>2. key = w /\ UNCHANGED <<page, step, out, sures, lost>>
  BY <1>1 DEF MailsInv, KeyHeld, ReadSmtp
<1>3. CASE mailer' = [mailer EXCEPT ![w].at = "claim"] /\ UNCHANGED <<draft, key>>
  <2> DEFINE r == [mailer[w] EXCEPT !.at = "claim"]
  <2>1. r \in Run /\ r.at = "claim" /\ mailer' = [mailer EXCEPT ![w] = r]
    BY <1>1, <1>3 DEF Run
  <2> HIDE DEF r
  <2>2. KeyHeld'
    BY <1>1, <1>2, <1>3, <2>1 DEF MailsInv, KeyHeld
  <2>3. mailer[w].at \notin {"mail", "mark"} /\ r.at \notin {"mail", "mark"}
    BY <1>1, <2>1
  <2>4. QED
    BY <1>2, <1>3, <2>1, <2>2, <2>3, RunOutsideKeeps
<1>4. CASE draft' = QueuedFailed(draft, "smtp_not_configured") /\ Leave(w, "failed")
  <2> DEFINE r == [Waiting EXCEPT !.at = "end", !.job = mailer[w].job, !.ends = "failed"]
  <2>1. mailer' = [mailer EXCEPT ![w] = r] /\ key' = "free" /\ r \in Run /\ r.at = "end"
    BY <1>1, <1>4, EndIsRun DEF Leave
  <2> HIDE DEF r
  <2>2. /\ draft' \in Draft /\ draft'.revision = draft.revision /\ draft'.text = draft.text
        /\ draft'.sure = draft.sure /\ draft'.sureText = draft.sureText
        /\ draft' = draft \/ draft'.status = "failed"
    BY <1>1, <1>4, StoppedFalls DEF Why
  <2>3. \/ draft'.status \notin {"queued", "sending"}
        \/ draft' = draft /\ mailer[w].at \notin {"mail", "mark"}
    BY <1>1, <2>2
  <2>4. QED
    BY <1>2, <2>1, <2>2, <2>3, LeavingKeeps
<1>5. QED
  BY <1>3, <1>4 DEF ReadSmtp

LEMMA ClaimKeeps ==
    ASSUME MailsInv, NEW w \in Mailers, ClaimForSending(w)
    PROVE  MailsInv'
<1>1. /\ mailer \in [Mailers -> Run] /\ mailer[w] \in Run /\ draft \in Draft
      /\ out \in Seq(Mail) /\ lost \in Nat /\ mailer[w].at = "claim"
  BY DEF MailsInv, OutreachTypes, ClaimForSending
<1>2. key = w /\ UNCHANGED <<page, step, out, sures, lost>>
  BY <1>1 DEF MailsInv, KeyHeld, ClaimForSending
<1>3. CASE /\ Claimable(draft)
           /\ draft' = [draft EXCEPT !.status = "sending", !.leased = TRUE]
           /\ mailer' = [mailer EXCEPT ![w].at = "mail", ![w].sure = draft.sure, ![w].text = draft.text]
           /\ UNCHANGED key
  <2> DEFINE r == [mailer[w] EXCEPT !.at = "mail", !.sure = draft.sure, !.text = draft.text]
  <2>1. draft.sure \in Nat /\ draft.text \in Text
    BY <1>1 DEF Draft
  <2>2. /\ r \in Run /\ r.at = "mail" /\ r.sure = draft.sure /\ r.text = draft.text
        /\ mailer' = [mailer EXCEPT ![w] = r]
    BY <1>1, <1>3, <2>1 DEF Run
  <2> HIDE DEF r
  <2>3. /\ draft' \in Draft /\ draft'.status = "sending" /\ draft'.leased
        /\ draft'.revision = draft.revision /\ draft'.text = draft.text
        /\ draft'.sure = draft.sure /\ draft'.sureText = draft.sureText
    BY <1>1, <1>3 DEF Draft
  <2>4. draft.status \in {"queued", "sending"} /\ draft.sureText = draft.text
    BY <1>3 DEF Claimable
  <2>5. draft.sureText = sures[draft.sure]
    BY <2>4 DEF MailsInv, DraftIsConfirmed
  <2>6. \A v \in Mailers : v # w => mailer[v].at \notin {"smtp", "claim", "mail", "mark"}
    BY <1>2 DEF MailsInv, KeyHeld
  <2>7. KeyHeld'
    BY <1>1, <1>2, <1>3, <2>2, <2>6 DEF KeyHeld
  <2>8. OnItsWay'
    BY <1>1, <1>2, <2>2, <2>3, <2>4, <2>5, <2>6 DEF OnItsWay
  <2>9. MailsKnown'
    BY <1>2 DEF MailsInv, MailsKnown
  <2>10. Count(out, draft.sure) <= lost
    <3>1. \A v \in Mailers : mailer[v].at # "mark"
      BY <1>1, <2>6
    <3>2. draft.status = "queued" => Count(out, draft.sure) = 0
      BY DEF MailsInv, Budgeted
    <3>3. draft.status = "sending" => Count(out, draft.sure) <= lost
      BY <3>1 DEF MailsInv, Budgeted
    <3>4. QED
      BY <1>1, <2>4, <3>2, <3>3
  <2>11. Budgeted'
    BY <1>2, <2>3, <2>10 DEF MailsInv, Budgeted, Count
  <2>12. RunMoves(w, r)
    BY <1>2, <2>2, <2>3, <2>4 DEF RunMoves
  <2>13. QED
    BY <1>1, <1>2, <2>2, <2>3, <2>7, <2>8, <2>9, <2>11, <2>12, RunMovesKeep
<1>4. CASE \/ draft' = Stopped(draft, "outreach_draft_not_claimed") /\ Leave(w, "failed")
           \/ draft' = Stopped(draft, "canceled_by_user") /\ Leave(w, "canceled")
  <2> DEFINE r(status) == [Waiting EXCEPT !.at = "end", !.job = mailer[w].job, !.ends = status]
  <2>1. PICK end \in {r("failed"), r("canceled")} : mailer' = [mailer EXCEPT ![w] = end] /\ key' = "free"
    BY <1>4 DEF Leave
  <2>2. end \in Run /\ end.at = "end"
    BY <1>1, EndIsRun
  <2>3. /\ draft' \in Draft /\ draft'.revision = draft.revision /\ draft'.text = draft.text
        /\ draft'.sure = draft.sure /\ draft'.sureText = draft.sureText
        /\ draft'.status \notin {"queued", "sending"}
    <3>1. CASE draft' = Stopped(draft, "outreach_draft_not_claimed")
      BY <1>1, <3>1, StoppedFalls DEF Why
    <3>2. CASE draft' = Stopped(draft, "canceled_by_user")
      BY <1>1, <3>2, StoppedFalls DEF Why
    <3>3. QED
      BY <1>4, <3>1, <3>2
  <2>4. QED
    BY <1>2, <2>1, <2>2, <2>3, LeavingKeeps
<1>5. QED
  BY <1>3, <1>4 DEF ClaimForSending

LEMMA SendKeeps ==
    ASSUME MailsInv, NEW w \in Mailers, SendSmtp(w)
    PROVE  MailsInv'
<1> DEFINE m == [sure |-> mailer[w].sure, text |-> mailer[w].text]
<1>1. /\ mailer \in [Mailers -> Run] /\ mailer[w] \in Run /\ draft \in Draft
      /\ out \in Seq(Mail) /\ lost \in Nat /\ mailer[w].at = "mail"
  BY DEF MailsInv, OutreachTypes, SendSmtp
<1>2. key = w /\ UNCHANGED <<page, step, sures, lost>>
  BY <1>1 DEF MailsInv, KeyHeld, SendSmtp
<1>3. CASE /\ out' = Append(out, m)
           /\ mailer' = [mailer EXCEPT ![w].at = "mark"]
           /\ UNCHANGED <<draft, key>>
  <2> DEFINE r == [mailer[w] EXCEPT !.at = "mark"]
  <2>1. /\ r \in Run /\ r.at = "mark" /\ r.sure = mailer[w].sure /\ r.text = mailer[w].text
        /\ mailer' = [mailer EXCEPT ![w] = r]
    BY <1>1, <1>3 DEF Run
  <2>2. /\ out' \in Seq(Mail) /\ MailsKnown'
        /\ \A s \in DOMAIN sures : Count(out', s) <= 1 + lost
    BY <1>1, <1>2, <1>3, MailGoesOut
  <2> HIDE DEF r, m
  <2>3. /\ draft.status = "sending" /\ draft.leased /\ draft.sure = mailer[w].sure
        /\ mailer[w].text = sures[draft.sure]
    BY <1>1 DEF MailsInv, OnItsWay
  <2>4. \A v \in Mailers : v # w => mailer[v].at \notin {"smtp", "claim", "mail", "mark"}
    BY <1>2 DEF MailsInv, KeyHeld
  <2>5. KeyHeld'
    BY <1>1, <1>2, <1>3, <2>1, <2>4 DEF KeyHeld
  <2>6. OnItsWay'
    BY <1>1, <1>2, <1>3, <2>1, <2>3, <2>4 DEF OnItsWay
  <2>7. mailer'[w].at = "mark"
    BY <1>1, <2>1
  <2>8. Budgeted'
    BY <1>2, <1>3, <2>2, <2>3, <2>7 DEF Budgeted, Count
  <2>9. RunMoves(w, r)
    BY <1>2, <1>3, <2>1 DEF RunMoves
  <2>10. QED
    BY <1>1, <1>2, <1>3, <2>1, <2>2, <2>5, <2>6, <2>8, <2>9, RunMovesKeep
<1>4. CASE /\ out' \in {out, Append(out, m)}
           /\ draft' = Stopped(draft, "outreach_smtp_send_failed")
           /\ Leave(w, "failed")
  <2> DEFINE r == [Waiting EXCEPT !.at = "end", !.job = mailer[w].job, !.ends = "failed"]
  <2>1. mailer' = [mailer EXCEPT ![w] = r] /\ key' = "free" /\ r \in Run /\ r.at = "end"
    BY <1>1, <1>4, EndIsRun DEF Leave
  <2> HIDE DEF r
  <2>2. /\ draft' \in Draft /\ draft'.revision = draft.revision /\ draft'.text = draft.text
        /\ draft'.sure = draft.sure /\ draft'.sureText = draft.sureText
        /\ draft'.status \notin {"queued", "sending"}
    BY <1>1, <1>4, StoppedFalls DEF Why
  <2>3. \/ out' = out
        \/ /\ out' = Append(out, [sure |-> mailer[w].sure, text |-> mailer[w].text])
           /\ mailer[w].at = "mail" /\ draft'.status \notin {"queued", "sending"}
    BY <1>1, <1>4, <2>2
  <2>4. QED
    BY <1>2, <2>1, <2>2, <2>3, LeavingKeeps
<1>5. QED
  BY <1>3, <1>4 DEF SendSmtp

LEMMA MarkKeeps ==
    ASSUME MailsInv, NEW w \in Mailers, MarkSent(w)
    PROVE  MailsInv'
<1>1. /\ mailer \in [Mailers -> Run] /\ mailer[w] \in Run /\ draft \in Draft
      /\ mailer[w].at = "mark"
  BY DEF MailsInv, OutreachTypes, MarkSent
<1>2. key = w /\ UNCHANGED <<page, step, out, sures, lost>>
  BY <1>1 DEF MailsInv, KeyHeld, MarkSent
<1>3. draft.status = "sending"
  BY <1>1 DEF MailsInv, OnItsWay
<1> DEFINE r == [Waiting EXCEPT !.at = "end", !.job = mailer[w].job, !.ends = "done"]
<1>4. /\ mailer' = [mailer EXCEPT ![w] = r] /\ key' = "free" /\ r \in Run /\ r.at = "end"
      /\ draft' = [draft EXCEPT !.status = "sent", !.error = ""]
  BY <1>1, <1>3, EndIsRun DEF Leave, MarkSent
<1> HIDE DEF r
<1>5. /\ draft' \in Draft /\ draft'.revision = draft.revision /\ draft'.text = draft.text
      /\ draft'.sure = draft.sure /\ draft'.sureText = draft.sureText
      /\ draft'.status = "sent"
  BY <1>1, <1>4 DEF Draft, Why
<1>6. QED
  BY <1>2, <1>4, <1>5, LeavingKeeps

\* A run that dies with the draft in sending is one of those that are lost.
LEMMA DyingKeeps ==
    ASSUME MailsInv, NEW w \in Mailers, MailerDies(w)
    PROVE  MailsInv'
<1>1. /\ mailer \in [Mailers -> Run] /\ mailer[w] \in Run /\ draft \in Draft
      /\ out \in Seq(Mail) /\ lost \in Nat
  BY DEF MailsInv, OutreachTypes
<1>2. /\ mailer' = [mailer EXCEPT ![w] = Waiting]
      /\ key' = IF key = w THEN "dead" ELSE key
      /\ UNCHANGED <<draft, page, step, out, sures>>
  BY DEF MailerDies
<1>3. KeyHeld'
  BY <1>1, <1>2, WaitingIsRun DEF MailsInv, KeyHeld
<1>4. CASE mailer[w].at \notin {"mail", "mark"}
  <2>1. lost' = lost
    BY <1>4 DEF MailerDies
  <2>2. QED
    BY <1>2, <1>3, <1>4, <2>1, WaitingIsRun, RunOutsideKeeps
<1>5. CASE mailer[w].at \in {"mail", "mark"}
  <2>1. lost' = lost + 1
    BY <1>5 DEF MailerDies
  <2>2. key = w
    BY <1>5 DEF MailsInv, KeyHeld
  <2>3. \A v \in Mailers : v # w => mailer[v].at \notin {"mail", "mark"}
    BY <2>2 DEF MailsInv, KeyHeld
  <2>4. OnItsWay' /\ MailsKnown'
    BY <1>1, <1>2, <2>3, WaitingIsRun DEF MailsInv, OnItsWay, MailsKnown
  <2>5. Budgeted'
    <3>1. draft.status = "sending" /\ draft.sure \in DOMAIN sures
      <4>1. draft.status = "sending"
        BY <1>5 DEF MailsInv, OnItsWay
      <4>2. sures \in Seq(Text)
        BY DEF MailsInv, OutreachTypes
      <4>3. DOMAIN sures = 1 .. Len(sures) /\ Len(sures) \in Nat
        BY <4>2, LenProperties
      <4>4. draft.sure \in Nat /\ draft.sure <= Len(sures) /\ draft.sure > 0
        BY <1>1, <4>1 DEF MailsInv, DraftIsConfirmed, Draft
      <4>5. QED
        BY <4>1, <4>3, <4>4
    <3>2. \A s \in DOMAIN sures : Count(out, s) \in Nat /\ Count(out, s) <= 1 + lost
      BY <1>1, CountIsNat DEF MailsInv, Budgeted
    <3>3. \A s \in DOMAIN sures : Count(out, s) <= 1 + lost' /\ Count(out, s) <= lost'
      BY <1>1, <2>1, <3>2
    <3>4. QED
      BY <1>2, <3>1, <3>3 DEF Budgeted, Count
  <2>6. RunMoves(w, Waiting)
    BY <1>2 DEF RunMoves
  <2>7. lost' \in Nat
    BY <1>1, <2>1
  <2>8. QED
    BY <1>1, <1>2, <1>3, <2>4, <2>5, <2>6, <2>7, WaitingIsRun, RunMovesKeep
<1>6. QED
  BY <1>4, <1>5

\* Time passes: a dead run's key goes, or a lease ends that nobody uses.
LEMMA TimeKeeps ==
    ASSUME MailsInv, LockExpires \/ LeaseEnds
    PROVE  MailsInv'
<1>1. /\ mailer \in [Mailers -> Run] /\ draft \in Draft
      /\ page \in [Editors -> Page] /\ step \in [Editors -> Request]
  BY DEF MailsInv, OutreachTypes
<1>2. UNCHANGED <<page, step, mailer, out, sures, lost>>
  BY DEF LockExpires, LeaseEnds
<1>3. CASE LockExpires
  <2>1. key = "dead" /\ key' = "free" /\ draft' = draft
    BY <1>3 DEF LockExpires
  <2>2. KeyHeld'
    BY <1>2, <2>1, OutreachAssumption DEF MailsInv, KeyHeld
  <2>3. QED
    BY <1>2, <2>1, <2>2 DEF MailsInv, OutreachTypes, PagesShow, DraftIsConfirmed, OnItsWay, MailsKnown,
                            Budgeted, Count
<1>4. CASE LeaseEnds
  <2>1. /\ key' = key /\ draft' = [draft EXCEPT !.leased = FALSE]
        /\ \A w \in Mailers : mailer[w].at \notin {"mail", "mark"}
    BY <1>4 DEF LeaseEnds
  <2>2. /\ draft' \in Draft /\ draft'.revision = draft.revision /\ draft'.text = draft.text
        /\ draft'.sure = draft.sure /\ draft'.sureText = draft.sureText
        /\ draft'.status = draft.status
    BY <1>1, <2>1 DEF Draft
  <2>3. QED
    BY <1>2, <2>1, <2>2 DEF MailsInv, OutreachTypes, PagesShow, DraftIsConfirmed, KeyHeld, OnItsWay,
                            MailsKnown, Budgeted, Count
<1>5. QED
  BY <1>3, <1>4

\* What others do to the tenant and to the jobs does not touch drafts and mails.
mailVars == <<draft, page, step, mailer, key, out, sures, lost>>

LEMMA MailsLeftAlone == MailsInv /\ UNCHANGED mailVars => MailsInv'
BY DEF mailVars, MailsInv, OutreachTypes, PagesShow, DraftIsConfirmed, KeyHeld, OnItsWay, MailsKnown,
       Budgeted, Count

-----------------------------------------------------------------------------
(* Jobs                                                                    *)

Row == [action : {"outreach_send", "sample"}, status : {"queued", "running", "done", "failed", "canceled"},
        attempt : 1 .. Tries, cancel : BOOLEAN, known : BOOLEAN]

\* A project runs one job at a time, and who names a job names one that exists.
OneRuns == \A i, j \in Running : i = j
JobsKnown ==
    /\ \A m \in posted : m.job \in DOMAIN sends
    /\ \A w \in Mailers : mailer[w].at = "wait" => mailer[w] = Waiting
    /\ \A w \in Mailers : mailer[w].at # "wait" => mailer[w].job \in DOMAIN sends
    /\ \A w \in Mailers : mailer[w].at = "end" => mailer[w].ends # ""
    /\ \A e \in Editors : step[e].at \in {"publish", "store", "restore"} => step[e].job \in DOMAIN sends
Bounds ==
    /\ draft.revision <= MaxRevision
    /\ smtp \in [set : BOOLEAN, user : BOOLEAN, password : BOOLEAN] /\ (smtp.user => smtp.password)
    /\ key \in Mailers \cup {"free", "dead"}
JobsInv == sends \in Seq(Row) /\ OneRuns /\ JobsKnown /\ Bounds

\* What a step does to the jobs: a row changes and none starts, or a row is new and
\* alone.
JobsMove == sends' \in Seq(Row) /\ DOMAIN sends \subseteq DOMAIN sends' /\ OneRuns'
HoldersMove ==
    /\ \A m \in posted' : m \in posted \/ m.job \in DOMAIN sends'
    /\ \A w \in Mailers : \/ mailer'[w] = mailer[w]
                          \/ mailer'[w] = Waiting
                          \/ /\ mailer'[w].at # "wait" /\ mailer'[w].job \in DOMAIN sends'
                             /\ mailer'[w].at = "end" => mailer'[w].ends # ""
    /\ \A e \in Editors : \/ step'[e] = step[e]
                          \/ step'[e].at \in {"rest", "confirm", "insert"}
                          \/ step'[e].job \in DOMAIN sends'

LEMMA JobsMoveKeep ==
    ASSUME JobsInv, JobsMove, HoldersMove, Bounds'
    PROVE  JobsInv'
<1>1. DOMAIN sends \subseteq DOMAIN sends'
  BY DEF JobsMove
<1>8. \A w \in Mailers : mailer'[w].at = "wait" => mailer'[w] = Waiting
  BY DEF JobsInv, JobsKnown, HoldersMove
<1>2. \A m \in posted' : m.job \in DOMAIN sends'
  BY <1>1 DEF JobsInv, JobsKnown, HoldersMove
<1>3. \A w \in Mailers : mailer'[w].at # "wait" => mailer'[w].job \in DOMAIN sends'
  BY <1>1, WaitingIsRun DEF JobsInv, JobsKnown, HoldersMove
<1>4. \A w \in Mailers : mailer'[w].at = "end" => mailer'[w].ends # ""
  <2>1. Waiting.at # "end"
    BY DEF Waiting
  <2>2. QED
    BY <2>1 DEF JobsInv, JobsKnown, HoldersMove
<1>5. \A e \in Editors : step'[e].at \in {"publish", "store", "restore"} => step'[e].job \in DOMAIN sends'
  BY <1>1 DEF JobsInv, JobsKnown, HoldersMove
<1>6. JobsKnown'
  BY <1>2, <1>3, <1>4, <1>5, <1>8 DEF JobsKnown
<1>7. QED
  BY <1>6 DEF JobsInv, JobsMove

LEMMA RowChanges ==
    ASSUME JobsInv, NEW i \in DOMAIN sends, NEW r \in Row, sends' = [sends EXCEPT ![i] = r],
           r.status \in {"queued", "running"} => sends[i].status \in {"queued", "running"}
    PROVE  JobsMove
<1>1. sends' \in Seq(Row) /\ DOMAIN sends' = DOMAIN sends
  BY ExceptSeq DEF JobsInv
<1>2. \A j \in DOMAIN sends : sends'[j] = IF j = i THEN r ELSE sends[j]
  OBVIOUS
<1>3. Running' \subseteq Running
  BY <1>1, <1>2 DEF Running
<1>4. QED
  BY <1>1, <1>3 DEF JobsMove, JobsInv, OneRuns

LEMMA RowIsNew ==
    ASSUME JobsInv, NEW r \in Row, sends' = Append(sends, r), Running = {}
    PROVE  JobsMove /\ Len(sends) + 1 \in DOMAIN sends'
<1> DEFINE n == Len(sends) + 1
<1>1. /\ sends' \in Seq(Row) /\ Len(sends) \in Nat
      /\ DOMAIN sends = 1 .. Len(sends) /\ DOMAIN sends' = 1 .. n
      /\ \A j \in 1 .. Len(sends) : sends'[j] = sends[j]
  BY AppendProperties, LenProperties DEF JobsInv
<1>2. 1 .. Len(sends) \subseteq 1 .. n /\ n \in 1 .. n
      /\ \A j \in 1 .. n : j \in 1 .. Len(sends) \/ j = n
  BY <1>1
<1>3. Running' \subseteq {n}
  BY <1>1, <1>2 DEF Running
<1>4. QED
  BY <1>1, <1>2, <1>3 DEF JobsMove, OneRuns

LEMMA SameRows == JobsInv /\ sends' = sends => JobsMove
BY DEF JobsInv, JobsMove, OneRuns, Running

LEMMA RowAt ==
    ASSUME JobsInv, NEW i \in DOMAIN sends
    PROVE  sends[i] \in Row
BY ElementOfSeq DEF JobsInv

\* A row with another status, attempt or mark.
LEMMA RowSet ==
    ASSUME NEW r \in Row
    PROVE  /\ \A s \in {"queued", "running", "done", "failed", "canceled"} :
                [r EXCEPT !.status = s] \in Row /\ [r EXCEPT !.status = s].status = s
           /\ [r EXCEPT !.cancel = TRUE] \in Row /\ [r EXCEPT !.cancel = TRUE].status = r.status
           /\ [r EXCEPT !.known = TRUE] \in Row /\ [r EXCEPT !.known = TRUE].status = r.status
           /\ \A a \in 1 .. Tries :
                /\ [r EXCEPT !.status = "running", !.attempt = a] \in Row
                /\ [r EXCEPT !.status = "running", !.attempt = a].status = "running"
BY DEF Row

LEMMA NewRow ==
    ASSUME NEW a \in 1 .. Tries
    PROVE  NewSend(a) \in Row /\ [NewSend(a) EXCEPT !.action = "sample"] \in Row
BY DEF NewSend, Row

\* Editors' requests and the rows they insert and write.
LEMMA RequestJobs ==
    ASSUME MailsInv, JobsInv, NEW e \in Editors,
           \/ InsertSend(e) \/ PublishSend(e) \/ StoreTask(e) \/ PublishFails(e)
           \/ \E i \in DOMAIN sends : Retry(e, i)
    PROVE  JobsInv'
<1>1. step \in [Editors -> Request] /\ UNCHANGED <<draft, smtp, mailer, key>>
  BY DEF MailsInv, OutreachTypes, InsertSend, PublishSend, StoreTask, PublishFails, Retry
<1>2. Bounds'
  BY <1>1 DEF JobsInv, Bounds
<1>3. step[e].at \in {"publish", "store"} => step[e].job \in DOMAIN sends
  BY DEF JobsInv, JobsKnown
<1>4. CASE InsertSend(e)
  <2>1. CASE Running = {}
    <3>0. InsertSend(e) =>
            /\ Running = {} => /\ sends' = Append(sends, NewSend(1))
                               /\ step' = [step EXCEPT ![e].at = "publish", ![e].job = Len(sends) + 1]
            /\ posted' = posted
      BY ZenonT(30) DEF InsertSend
    <3>1. /\ sends' = Append(sends, NewSend(1)) /\ posted' = posted
          /\ step' = [step EXCEPT ![e].at = "publish", ![e].job = Len(sends) + 1]
      BY <1>4, <2>1, <3>0
    <3>2. 1 \in 1 .. Tries
      <4>1. Tries \in Nat \ {0}
        BY OutreachAssumption
      <4>2. QED
        BY <4>1
    <3>3. JobsMove /\ Len(sends) + 1 \in DOMAIN sends'
      BY <2>1, <3>1, <3>2, NewRow, RowIsNew
    <3>4. HoldersMove
      BY <1>1, <3>1, <3>3 DEF HoldersMove
    <3>5. QED
      BY <1>2, <3>3, <3>4, JobsMoveKeep
  <2>2. CASE Running # {}
    <3>1. sends' = sends /\ posted' = posted /\ step' = [step EXCEPT ![e] = Resting]
      BY <1>4, <2>2 DEF InsertSend
    <3>2. HoldersMove
      BY <1>1, <3>1, RestIsRequest DEF HoldersMove
    <3>3. QED
      BY <1>2, <3>1, <3>2, SameRows, JobsMoveKeep
  <2>3. QED
    BY <2>1, <2>2
<1>5. CASE PublishSend(e)
  <2>1. /\ posted' = posted \cup {[job |-> step[e].job, again |-> FALSE]} /\ sends' = sends
        /\ step' = [step EXCEPT ![e].at = "store"] /\ step[e].at = "publish"
    BY <1>5 DEF PublishSend
  <2>2. HoldersMove
    BY <1>1, <1>3, <2>1 DEF HoldersMove
  <2>3. QED
    BY <1>2, <2>1, <2>2, SameRows, JobsMoveKeep
<1>6. CASE StoreTask(e)
  <2>1. /\ sends' = [sends EXCEPT ![step[e].job] = [sends[step[e].job] EXCEPT !.known = TRUE]]
        /\ step' = [step EXCEPT ![e] = Resting] /\ posted' = posted /\ step[e].at = "store"
    BY <1>6 DEF StoreTask
  <2> DEFINE r == [sends[step[e].job] EXCEPT !.known = TRUE]
  <2>5. sends' = [sends EXCEPT ![step[e].job] = r] /\ step[e].job \in DOMAIN sends
    BY <1>3, <2>1
  <2>6. r \in Row /\ r.status = sends[step[e].job].status
    BY <2>5, RowAt, RowSet
  <2> HIDE DEF r
  <2>2. JobsMove
    BY <2>5, <2>6, RowChanges
  <2>3. HoldersMove
    BY <1>1, <2>1, RestIsRequest DEF HoldersMove
  <2>4. QED
    BY <1>2, <2>2, <2>3, JobsMoveKeep
<1>7. CASE PublishFails(e)
  <2>1. /\ sends' = [sends EXCEPT ![step[e].job] = [sends[step[e].job] EXCEPT !.status = "failed"]]
        /\ step' = [step EXCEPT ![e] = IF step[e].retry THEN Resting ELSE [step[e] EXCEPT !.at = "restore"]]
        /\ posted' = posted /\ step[e].at = "publish"
    BY <1>7 DEF PublishFails, SetJob
  <2>2. JobsMove
    BY <1>3, <2>1, RowAt, RowSet, RowChanges
  <2>3. step[e].job \in DOMAIN sends'
    BY <1>3, <2>1, <2>2 DEF JobsMove
  <2>4. step'[e].at = "rest" \/ step'[e].job \in DOMAIN sends'
    BY <1>1, <2>1, <2>3, RestIsRequest DEF Request
  <2>5. \A f \in Editors : f # e => step'[f] = step[f]
    BY <1>1, <2>1
  <2>6. HoldersMove
    BY <1>1, <2>1, <2>4, <2>5 DEF HoldersMove
  <2>7. QED
    BY <1>2, <2>2, <2>6, JobsMoveKeep
<1>8. ASSUME NEW i \in DOMAIN sends, Retry(e, i)
      PROVE  JobsInv'
  <2>1. /\ sends' = Append(sends, NewSend(sends[i].attempt + 1)) /\ Running = {}
        /\ sends[i].attempt < Tries /\ posted' = posted
        /\ step' = [step EXCEPT ![e] = [Resting EXCEPT !.at = "publish", !.job = Len(sends) + 1, !.retry = TRUE]]
    BY <1>8 DEF Retry
  <2>2. sends[i].attempt + 1 \in 1 .. Tries
    <3>1. sends[i] \in Row
      BY <1>8, RowAt
    <3>2. sends[i].attempt \in 1 .. Tries
      BY <3>1 DEF Row
    <3>3. Tries \in Nat
      BY OutreachAssumption
    <3>4. QED
      BY <2>1, <3>2, <3>3
  <2>3. JobsMove /\ Len(sends) + 1 \in DOMAIN sends'
    BY <2>1, <2>2, NewRow, RowIsNew
  <2>4. step'[e].job = Len(sends) + 1 /\ \A f \in Editors : f # e => step'[f] = step[f]
    BY <1>1, <2>1 DEF Resting
  <2>5. HoldersMove
    BY <1>1, <2>1, <2>3, <2>4 DEF HoldersMove
  <2>6. QED
    BY <1>2, <2>3, <2>5, JobsMoveKeep
<1>9. QED
  BY <1>4, <1>5, <1>6, <1>7, <1>8

\* Steps that leave the rows as they are.
LEMMA RowsStay ==
    ASSUME JobsInv, sends' = sends, HoldersMove, Bounds'
    PROVE  JobsInv'
BY SameRows, JobsMoveKeep

\* Editors' other steps change no job; an edit stays within MaxRevision.
LEMMA EditorJobs ==
    ASSUME MailsInv, JobsInv, NEW e \in Editors,
           DraftAction(e) \/ Send(e) \/ Confirm(e) \/ RequestDies(e)
    PROVE  JobsInv'
<1>1. /\ draft \in Draft /\ step \in [Editors -> Request] /\ draft.revision \in Nat
      /\ MaxRevision \in Nat \ {0}
  BY OutreachAssumption DEF MailsInv, OutreachTypes, Draft
<1>2. UNCHANGED <<sends, posted, mailer, smtp, key>>
  BY DEF DraftAction, CreateDraft, Overview, UpdateDraft, Restore, Send, Confirm, RequestDies
<1>3. \A f \in Editors : step'[f] = step[f] \/ step'[f].at \in {"rest", "confirm", "insert"}
  <2>1. CASE DraftAction(e)
    BY <1>1, <2>1, RestIsRequest DEF DraftAction, CreateDraft, Overview, UpdateDraft, Restore
  <2>2. CASE Send(e)
    BY <1>1, <2>2 DEF Send, Resting
  <2>3. CASE Confirm(e)
    <3>1. \/ step' = [step EXCEPT ![e] = Resting]
          \/ step' = [step EXCEPT ![e] = [step[e] EXCEPT !.at = "insert"]]
      BY <2>3 DEF Confirm
    <3>2. [step[e] EXCEPT !.at = "insert"].at = "insert"
      BY <1>1 DEF Request
    <3>3. QED
      BY <1>1, <3>1, <3>2, RestIsRequest
  <2>4. CASE RequestDies(e)
    BY <1>1, <2>4, RestIsRequest DEF RequestDies
  <2>5. QED
    BY <2>1, <2>2, <2>3, <2>4
<1>4. draft'.revision <= MaxRevision
  <2>0. draft.revision <= MaxRevision
    BY DEF JobsInv, Bounds
  <2>1. CASE draft' = draft
    BY <2>0, <2>1
  <2>2. ASSUME NEW text \in Text, NEW kind, CreateDraft(e, kind, text)
        PROVE  draft'.revision <= MaxRevision
    <3>1. draft' = [NoDraft EXCEPT !.status = "draft", !.revision = 1, !.text = text]
      BY <2>2 DEF CreateDraft, Drafted
    <3>2. draft'.revision = 1
      BY <3>1 DEF NoDraft
    <3>3. QED
      BY <1>1, <3>2
  <2>3. ASSUME NEW text \in Text, UpdateDraft(e, text)
        PROVE  draft'.revision <= MaxRevision
    <3>1. /\ draft' = [NoDraft EXCEPT !.status = "draft", !.revision = page[e].revision + 1, !.text = text]
          /\ draft.revision = page[e].revision /\ draft.revision < MaxRevision
      BY <2>3 DEF UpdateDraft, Edited
    <3>2. draft'.revision = draft.revision + 1
      BY <3>1 DEF NoDraft
    <3>3. QED
      BY <1>1, <3>1, <3>2
  <2>4. CASE \/ \E owner \in BOOLEAN : Overview(e, owner)
             \/ Restore(e) \/ Confirm(e)
    <3>1. \/ draft' = draft \/ \E why : draft' = Fallen(draft, why)
          \/ \E n : draft' = Queued(draft, n)
      BY <2>4 DEF Overview, ExpireStaleSending, Restore, RestoredAfterQueueFailure, Confirm, Confirmed
    <3>2. draft'.revision = draft.revision
      BY <1>1, <3>1 DEF Fallen, Queued, Draft
    <3>3. QED
      BY <2>0, <3>2
  <2>5. CASE Send(e) \/ RequestDies(e)
    BY <2>1, <2>5 DEF Send, RequestDies
  <2>6. QED
    BY <2>2, <2>3, <2>4, <2>5 DEF DraftAction, Text
<1>5. Bounds'
  BY <1>2, <1>4 DEF JobsInv, Bounds
<1>6. HoldersMove
  BY <1>2, <1>3 DEF HoldersMove
<1>7. QED
  BY <1>2, <1>5, <1>6, RowsStay

\* What a run may do to its slot, the lock, the draft and the row of its job.
LEMMA RunJobs ==
    ASSUME MailsInv, JobsInv, NEW w \in Mailers,
           \/ EnterLock(w) \/ ReadSmtp(w) \/ ClaimForSending(w) \/ SendSmtp(w) \/ MarkSent(w)
           \/ LockTimeout(w) \/ Settle(w)
    PROVE  JobsInv'
<1>1. mailer \in [Mailers -> Run] /\ mailer[w] \in Run /\ draft \in Draft
  BY DEF MailsInv, OutreachTypes
<1>2. mailer[w].at # "wait" /\ UNCHANGED <<step, posted, smtp>>
  BY <1>1 DEF EnterLock, ReadSmtp, ClaimForSending, SendSmtp, MarkSent, LockTimeout, Settle
<1>3. mailer[w].job \in DOMAIN sends
  BY <1>2 DEF JobsInv, JobsKnown
<1> DEFINE Goes1(r) == r.at # "wait" /\ r.job = mailer[w].job /\ (r.at = "end" => r.ends # "")
<1>4. PICK r : mailer' = [mailer EXCEPT ![w] = r] /\ (r = Waiting \/ Goes1(r))
  <2>1. ASSUME NEW status \in {"failed", "canceled", "done"}, Leave(w, status)
        PROVE  \E r : mailer' = [mailer EXCEPT ![w] = r] /\ (r = Waiting \/ Goes1(r))
    <3> DEFINE r == [Waiting EXCEPT !.at = "end", !.job = mailer[w].job, !.ends = status]
    <3>1. Goes1(r) /\ mailer' = [mailer EXCEPT ![w] = r]
      BY <2>1 DEF Waiting, Leave
    <3>2. QED
      BY <3>1
  <2>2. ASSUME mailer' = [mailer EXCEPT ![w] = Waiting]
        PROVE  \E r : mailer' = [mailer EXCEPT ![w] = r] /\ (r = Waiting \/ Goes1(r))
    BY <2>2, WaitingIsRun
  <2>3. ASSUME NEW at, at # "end", at # "wait", mailer' = [mailer EXCEPT ![w].at = at]
        PROVE  \E r : mailer' = [mailer EXCEPT ![w] = r] /\ (r = Waiting \/ Goes1(r))
    <3> DEFINE r == [mailer[w] EXCEPT !.at = at]
    <3>1. r.job = mailer[w].job /\ r.at = at
      BY <1>1 DEF Run
    <3>2. mailer' = [mailer EXCEPT ![w] = r]
      BY <1>1, <2>3
    <3>3. QED
      BY <2>3, <3>1, <3>2
  <2>4. ASSUME mailer' = [mailer EXCEPT ![w].at = "mail", ![w].sure = draft.sure, ![w].text = draft.text]
        PROVE  \E r : mailer' = [mailer EXCEPT ![w] = r] /\ (r = Waiting \/ Goes1(r))
    <3> DEFINE r == [mailer[w] EXCEPT !.at = "mail", !.sure = draft.sure, !.text = draft.text]
    <3>1. r.job = mailer[w].job /\ r.at = "mail"
      BY <1>1 DEF Run
    <3>2. mailer' = [mailer EXCEPT ![w] = r]
      BY <1>1, <2>4
    <3>3. QED
      BY <3>1, <3>2
  <2>5. QED
    BY <2>1, <2>2, <2>3, <2>4 DEF EnterLock, ReadSmtp, ClaimForSending, SendSmtp, MarkSent, LockTimeout, Settle
<1>5. key' \in Mailers \cup {"free", "dead"}
  <2>1. key' = w \/ key' = "free" \/ key' = key
    BY DEF EnterLock, ReadSmtp, ClaimForSending, SendSmtp, MarkSent, LockTimeout, Settle, Leave
  <2>2. QED
    BY <2>1 DEF JobsInv, Bounds
<1>6. draft'.revision = draft.revision
  <2>1. \/ draft' = draft \/ \E why : draft' = Stopped(draft, why) \/ draft' = QueuedFailed(draft, why)
        \/ draft' = [draft EXCEPT !.status = "sending", !.leased = TRUE]
        \/ draft' = [draft EXCEPT !.status = "sent", !.error = ""]
    BY DEF EnterLock, ReadSmtp, ClaimForSending, SendSmtp, MarkSent, LockTimeout, Settle
  <2>2. QED
    BY <1>1, <2>1 DEF Stopped, QueuedFailed, SendingFailed, Fallen, Draft
<1>7. Bounds'
  BY <1>2, <1>5, <1>6 DEF JobsInv, Bounds
<1>8. JobsMove
  <2>1. CASE sends' = sends
    BY <2>1, SameRows
  <2>2. ASSUME NEW s, s = "done" \/ s = "failed" \/ s = "canceled",
               sends' = [sends EXCEPT ![mailer[w].job] = [sends[mailer[w].job] EXCEPT !.status = s]]
        PROVE  JobsMove
    <3> DEFINE row == [sends[mailer[w].job] EXCEPT !.status = s]
    <3>0. sends[mailer[w].job] \in Row
      BY <1>3, RowAt
    <3>1. row \in Row /\ row.status = s
      BY <2>2, <3>0 DEF Row
    <3>2. sends' = [sends EXCEPT ![mailer[w].job] = row]
      BY <2>2, Zenon
    <3> HIDE DEF row
    <3>3. QED
      BY <1>3, <2>2, <3>1, <3>2, RowChanges, Zenon
  <2>3. CASE Settle(w)
    <3>1. mailer[w].ends \in {"failed", "canceled", "done"}
      <4>1. mailer[w].at = "end"
        BY <2>3 DEF Settle
      <4>2. QED
        BY <1>1, <4>1 DEF JobsInv, JobsKnown, Run
    <3>2. QED
      BY <1>3, <2>1, <2>2, <2>3, <3>1 DEF Settle
  <2>4. CASE LockTimeout(w)
    BY <2>2, <2>4 DEF LockTimeout, SetJob
  <2>5. QED
    BY <2>1, <2>3, <2>4 DEF EnterLock, ReadSmtp, ClaimForSending, SendSmtp, MarkSent
<1>9. HoldersMove
  BY <1>1, <1>2, <1>3, <1>4, <1>8 DEF HoldersMove, JobsMove
<1>10. QED
  BY <1>7, <1>8, <1>9, JobsMoveKeep

\* Deliveries, deaths, cancels and other jobs.
LEMMA OtherJobs ==
    ASSUME MailsInv, JobsInv, UNCHANGED <<draft, step, smtp>>,
           \/ \E w \in Mailers, m \in posted : Receive(w, m)
           \/ \E w \in Mailers : MailerDies(w)
           \/ \E i \in DOMAIN sends : CancelSend(i) \/ RivalEnds(i) \/ Reclaim(i)
           \/ RivalStarts
    PROVE  JobsInv'
<1>1. mailer \in [Mailers -> Run]
  BY DEF MailsInv, OutreachTypes
<1>2. ASSUME key' = key \/ key' = "dead"
      PROVE  Bounds'
  BY <1>2 DEF JobsInv, Bounds
<1>3. ASSUME NEW w \in Mailers, NEW m \in posted, Receive(w, m)
      PROVE  JobsInv'
  <2>1. m.job \in DOMAIN sends /\ posted' \subseteq posted /\ key' = key
    BY <1>3 DEF Receive, JobsInv, JobsKnown
  <2>2. sends[m.job] \in Row
    BY <2>1, RowAt
  <2>3. CASE sends' = sends /\ mailer' = mailer
    <3>1. HoldersMove
      BY <2>1, <2>3 DEF HoldersMove
    <3>2. QED
      BY <1>2, <2>1, <2>3, <3>1, RowsStay
  <2>4. CASE /\ sends[m.job].status \in {"queued", "running"}
             /\ SetJob(m.job, "failed") /\ mailer' = mailer
    <3> DEFINE row == [sends[m.job] EXCEPT !.status = "failed"]
    <3>1. row \in Row /\ row.status = "failed"
      BY <2>2 DEF Row
    <3>2. sends' = [sends EXCEPT ![m.job] = row]
      BY <2>4 DEF SetJob
    <3> HIDE DEF row
    <3>3. JobsMove
      BY <2>1, <3>1, <3>2, RowChanges
    <3>4. HoldersMove
      BY <2>1, <2>4 DEF HoldersMove
    <3>5. QED
      BY <1>2, <2>1, <3>3, <3>4, JobsMoveKeep
  <2>5. ASSUME NEW attempt, attempt = sends[m.job].attempt \/ attempt = sends[m.job].attempt + 1,
               attempt <= Tries, sends[m.job].status \in {"queued", "running"},
               sends' = [sends EXCEPT ![m.job] = [sends[m.job] EXCEPT !.status = "running", !.attempt = attempt]],
               mailer' = [mailer EXCEPT ![w] = [Waiting EXCEPT !.at = "lock", !.job = m.job]]
        PROVE  JobsInv'
    <3> DEFINE row == [sends[m.job] EXCEPT !.status = "running", !.attempt = attempt]
               r == [Waiting EXCEPT !.at = "lock", !.job = m.job]
    <3>1. attempt \in 1 .. Tries
      <4>1. Tries \in Nat /\ sends[m.job].attempt \in 1 .. Tries
        BY <2>2, OutreachAssumption DEF Row
      <4>2. QED
        BY <2>5, <4>1
    <3>2. row \in Row /\ row.status = "running"
      BY <2>2, <3>1 DEF Row
    <3>3. r.at = "lock" /\ r.job = m.job
      BY DEF Waiting
    <3>4. sends' = [sends EXCEPT ![m.job] = row] /\ mailer' = [mailer EXCEPT ![w] = r]
      BY <2>5
    <3> HIDE DEF row, r
    <3>5. JobsMove
      BY <2>1, <2>5, <3>2, <3>4, RowChanges
    <3>6. HoldersMove
      BY <1>1, <1>3, <2>1, <3>3, <3>4, <3>5 DEF HoldersMove, JobsMove
    <3>7. QED
      BY <1>2, <2>1, <3>5, <3>6, JobsMoveKeep
  <2>6. QED
    <3> DEFINE attempt == IF Redelivered(m) THEN sends[m.job].attempt + 1 ELSE sends[m.job].attempt
               free == sends[m.job].status = "queued" \/ Redelivered(m)
    <3>1. \/ /\ free /\ attempt <= Tries
             /\ sends' = [sends EXCEPT ![m.job] = [sends[m.job] EXCEPT !.status = "running", !.attempt = attempt]]
             /\ mailer' = [mailer EXCEPT ![w] = [Waiting EXCEPT !.at = "lock", !.job = m.job]]
          \/ free /\ SetJob(m.job, "failed") /\ mailer' = mailer
          \/ sends' = sends /\ mailer' = mailer
      BY <1>3 DEF Receive
    <3>2. free => sends[m.job].status \in {"queued", "running"}
      BY DEF Redelivered
    <3>3. attempt = sends[m.job].attempt \/ attempt = sends[m.job].attempt + 1
      OBVIOUS
    <3> HIDE DEF attempt, free
    <3>4. QED
      BY <2>3, <2>4, <2>5, <3>1, <3>2, <3>3
<1>4. ASSUME NEW w \in Mailers, MailerDies(w)
      PROVE  JobsInv'
  <2>1. /\ posted' = posted \cup {[job |-> mailer[w].job, again |-> TRUE]}
        /\ mailer' = [mailer EXCEPT ![w] = Waiting] /\ mailer[w] # Waiting
        /\ sends' = sends /\ (key' = key \/ key' = "dead")
    BY <1>4 DEF MailerDies
  <2>2. mailer[w].job \in DOMAIN sends
    BY <2>1 DEF JobsInv, JobsKnown
  <2>5. \A m \in posted' : m \in posted \/ m.job \in DOMAIN sends'
    BY <2>1, <2>2
  <2>3. HoldersMove
    BY <1>1, <2>1, <2>5 DEF HoldersMove
  <2>4. QED
    BY <1>2, <2>1, <2>3, RowsStay
<1>5. ASSUME NEW i \in DOMAIN sends, CancelSend(i) \/ RivalEnds(i) \/ Reclaim(i)
      PROVE  JobsInv'
  <2>1. UNCHANGED <<posted, mailer, key>> /\ sends[i].status \in {"queued", "running"}
    BY <1>5 DEF CancelSend, RivalEnds, Reclaim
  <2>2. PICK r : /\ sends' = [sends EXCEPT ![i] = r] /\ r \in Row
                 /\ r.status \in {"queued", "running"} => r.status = sends[i].status
    <3>1. sends[i] \in Row
      BY <1>5, RowAt
    <3>2. CASE sends' = [sends EXCEPT ![i].cancel = TRUE]
      <4> DEFINE r == [sends[i] EXCEPT !.cancel = TRUE]
      <4>1. r \in Row /\ r.status = sends[i].status
        BY <3>1 DEF Row
      <4>2. sends' = [sends EXCEPT ![i] = r]
        BY <3>2
      <4>3. QED
        BY <4>1, <4>2
    <3>3. ASSUME NEW s, s = "done" \/ s = "failed" \/ s = "canceled", sends' = [sends EXCEPT ![i].status = s]
          PROVE  \E r : /\ sends' = [sends EXCEPT ![i] = r] /\ r \in Row
                        /\ r.status \in {"queued", "running"} => r.status = sends[i].status
      <4> DEFINE r == [sends[i] EXCEPT !.status = s]
      <4>1. r \in Row /\ r.status = s
        BY <3>1, <3>3 DEF Row
      <4>2. sends' = [sends EXCEPT ![i] = r]
        BY <3>3
      <4>3. r.status \notin {"queued", "running"}
        BY <3>3, <4>1
      <4>4. QED
        BY <4>1, <4>2, <4>3
    <3>4. QED
      BY <1>5, <3>2, <3>3 DEF CancelSend, RivalEnds, Reclaim, SetJob
  <2>3. JobsMove
    BY <1>5, <2>1, <2>2, RowChanges
  <2>4. HoldersMove
    BY <2>1 DEF HoldersMove
  <2>5. QED
    BY <1>2, <2>1, <2>3, <2>4, JobsMoveKeep
<1>6. CASE RivalStarts
  <2>1. /\ sends' = Append(sends, [NewSend(1) EXCEPT !.action = "sample"]) /\ Running = {}
        /\ UNCHANGED <<posted, mailer, key>>
    BY <1>6 DEF RivalStarts
  <2>2. 1 \in 1 .. Tries
    <3>1. Tries \in Nat \ {0}
      BY OutreachAssumption
    <3>2. QED
      BY <3>1
  <2>3. JobsMove
    BY <2>1, <2>2, NewRow, RowIsNew
  <2>4. HoldersMove
    BY <2>1 DEF HoldersMove
  <2>5. QED
    BY <1>2, <2>1, <2>3, <2>4, JobsMoveKeep
<1>7. QED
  BY <1>3, <1>4, <1>5, <1>6

\* Settings of the tenant and the passing of time.
LEMMA QuietJobs ==
    ASSUME MailsInv, JobsInv,
           \/ \E user, password \in BOOLEAN : ConfigureSmtp(user, password)
           \/ DeleteSmtp \/ Subscription \/ LockExpires \/ LeaseEnds
    PROVE  JobsInv'
<1>1. UNCHANGED <<sends, posted, mailer, step>> /\ (key' = key \/ key' = "free")
  BY DEF ConfigureSmtp, DeleteSmtp, Subscription, LockExpires, LeaseEnds
<1>2. draft'.revision = draft.revision
  <2>1. draft' = draft \/ draft' = [draft EXCEPT !.leased = FALSE]
    BY DEF ConfigureSmtp, DeleteSmtp, Subscription, LockExpires, LeaseEnds
  <2>2. QED
    BY <2>1 DEF MailsInv, OutreachTypes, Draft
<1>3. smtp' \in [set : BOOLEAN, user : BOOLEAN, password : BOOLEAN] /\ (smtp'.user => smtp'.password)
  <2>1. CASE smtp' = smtp
    BY <2>1 DEF JobsInv, Bounds
  <2>4. CASE smtp' = NoSmtp
    BY <2>4 DEF NoSmtp
  <2>2. ASSUME NEW user \in BOOLEAN, NEW password \in BOOLEAN, ConfigureSmtp(user, password)
        PROVE  /\ smtp' \in [set : BOOLEAN, user : BOOLEAN, password : BOOLEAN]
               /\ smtp'.user => smtp'.password
    BY <2>2 DEF ConfigureSmtp, JobsInv, Bounds
  <2>3. QED
    BY <2>1, <2>2, <2>4 DEF DeleteSmtp, Subscription, LockExpires, LeaseEnds
<1>4. Bounds'
  BY <1>1, <1>2, <1>3 DEF JobsInv, Bounds
<1>5. HoldersMove
  BY <1>1 DEF HoldersMove
<1>6. QED
  BY <1>1, <1>4, <1>5, RowsStay

-----------------------------------------------------------------------------
OutreachInv == MailsInv /\ JobsInv

LEMMA InvAtStart == OutreachInit => OutreachInv
<1> SUFFICES ASSUME OutreachInit PROVE OutreachInv
  OBVIOUS
<1>1. /\ draft = NoDraft /\ page = [e \in Editors |-> NoPage] /\ step = [e \in Editors |-> Resting]
      /\ mailer = [w \in Mailers |-> Waiting] /\ key = "free" /\ lost = 0
      /\ out = <<>> /\ sures = <<>> /\ sends = <<>> /\ posted = {}
      /\ smtp = [set |-> TRUE, user |-> TRUE, password |-> TRUE]
  BY DEF OutreachInit
<1>2. NoDraft \in Draft /\ NoPage \in Page
  BY DEF NoDraft, NoPage, Draft, Page, Text, Why
<1>3. OutreachTypes
  BY <1>1, <1>2, RestIsRequest, WaitingIsRun, EmptySeq DEF OutreachTypes
<1>4. PagesShow
  <2>1. draft.revision = 0 /\ draft.text = "" /\ NoPage.revision = 0 /\ NoPage.text = ""
    BY <1>1 DEF NoDraft, NoPage
  <2>2. \A e \in Editors : page[e] = NoPage /\ step[e] = Resting
    BY <1>1
  <2>3. Resting.at = "rest"
    BY DEF Resting
  <2>4. \A e \in Editors : page[e].revision = 0 /\ page[e].text = "" /\ step[e].at = "rest"
    BY <2>1, <2>2, <2>3
  <2>5. \A e \in Editors : page[e].revision <= draft.revision
    <3>1. 0 <= 0
      OBVIOUS
    <3>2. QED
      BY <2>1, <2>4, <3>1, Zenon
  <2>6. QED
    BY <2>1, <2>4, <2>5 DEF PagesShow
<1>5. Len(sures) = 0 /\ DOMAIN sures = {} /\ DOMAIN out = {} /\ DOMAIN sends = {}
  BY <1>1, EmptySeq
<1>6. DraftIsConfirmed /\ KeyHeld /\ OnItsWay /\ MailsKnown /\ Budgeted
  <2>1. draft.status = "none" /\ draft.sure = 0
    BY <1>1 DEF NoDraft
  <2>2. \A w \in Mailers : mailer[w].at = "wait"
    BY <1>1, WaitingIsRun
  <2>3. DraftIsConfirmed /\ Budgeted
    BY <1>5, <2>1 DEF DraftIsConfirmed, Budgeted
  <2>4. KeyHeld /\ OnItsWay /\ MailsKnown
    BY <1>5, <2>2 DEF KeyHeld, OnItsWay, MailsKnown
  <2>5. QED
    BY <2>3, <2>4
<1>7. OneRuns /\ JobsKnown
  BY <1>1, <1>5, RestIsRequest, WaitingIsRun DEF OneRuns, Running, JobsKnown
<1>8. Bounds
  <2>1. 0 <= MaxRevision
    <3>1. MaxRevision \in Nat \ {0}
      BY OutreachAssumption
    <3>2. QED
      BY <3>1
  <2>2. draft.revision = 0
    BY <1>1 DEF NoDraft
  <2>3. QED
    BY <1>1, <2>1, <2>2 DEF Bounds
<1>9. QED
  BY <1>1, <1>3, <1>4, <1>6, <1>7, <1>8, EmptySeq DEF OutreachInv, MailsInv, JobsInv

\* The actions by who takes them.
EditorActs(e) ==
    \/ DraftAction(e) \/ Confirm(e)
    \/ Send(e) \/ InsertSend(e) \/ PublishSend(e) \/ StoreTask(e) \/ PublishFails(e)
    \/ RequestDies(e) \/ \E i \in DOMAIN sends : Retry(e, i)
RunActs(w) ==
    \/ EnterLock(w) \/ LockTimeout(w) \/ ReadSmtp(w) \/ ClaimForSending(w) \/ SendSmtp(w)
    \/ MarkSent(w) \/ Settle(w)
TenantActs ==
    \/ \E user, password \in BOOLEAN : ConfigureSmtp(user, password)
    \/ DeleteSmtp \/ Subscription
OthersAct ==
    \/ RivalStarts \/ \E i \in DOMAIN sends : CancelSend(i) \/ RivalEnds(i) \/ Reclaim(i)

LEMMA WhoActs ==
    OutreachNext =>
        \/ \E e \in Editors : EditorActs(e)
        \/ \E w \in Mailers : RunActs(w) \/ MailerDies(w)
        \/ \E w \in Mailers, m \in posted : Receive(w, m)
        \/ TenantActs \/ OthersAct \/ LockExpires \/ LeaseEnds
BY ZenonT(60) DEF OutreachNext, EditorActs, RunActs, TenantActs, OthersAct, DraftAction

LEMMA NextKeeps == OutreachInv /\ [OutreachNext]_outreachVars => OutreachInv'
<1> SUFFICES ASSUME OutreachInv, [OutreachNext]_outreachVars PROVE OutreachInv'
  OBVIOUS
<1>0. /\ MailsInv /\ JobsInv /\ Len(sends) \in Nat
      /\ \A n \in posted : n.job \in Nat
  <2>1. DOMAIN sends = 1 .. Len(sends) /\ Len(sends) \in Nat
    BY LenProperties DEF OutreachInv, JobsInv
  <2>2. \A n \in posted : n.job \in DOMAIN sends
    BY DEF OutreachInv, JobsInv, JobsKnown
  <2>3. QED
    BY <2>1, <2>2 DEF OutreachInv
<1>1. ASSUME NEW e \in Editors, EditorActs(e) PROVE MailsInv' /\ JobsInv'
  <2>1. MailsInv'
    BY <1>0, <1>1, DraftActions, ConfirmKeeps, RequestActions DEF EditorActs
  <2>2. JobsInv'
    BY <1>0, <1>1, EditorJobs, RequestJobs DEF EditorActs
  <2>3. QED
    BY <2>1, <2>2
<1>2. ASSUME NEW w \in Mailers, RunActs(w) PROVE MailsInv' /\ JobsInv'
  <2>1. MailsInv'
    BY <1>0, <1>2, OutsideActions, ReadSmtpKeeps, ClaimKeeps, SendKeeps, MarkKeeps DEF RunActs
  <2>2. JobsInv'
    BY <1>0, <1>2, RunJobs DEF RunActs
  <2>3. QED
    BY <2>1, <2>2
<1>3. ASSUME NEW w \in Mailers, MailerDies(w) PROVE MailsInv' /\ JobsInv'
  <2>1. UNCHANGED <<draft, step, smtp>>
    BY <1>3 DEF MailerDies
  <2>2. QED
    BY <1>0, <1>3, <2>1, DyingKeeps, OtherJobs
<1>4. ASSUME NEW w \in Mailers, NEW m \in posted, Receive(w, m) PROVE MailsInv' /\ JobsInv'
  <2>1. UNCHANGED <<draft, step, smtp>>
    BY <1>4 DEF Receive
  <2>2. QED
    BY <1>0, <1>4, <2>1, ReceiveKeeps, OtherJobs
<1>5. CASE TenantActs
  <2>1. UNCHANGED mailVars
    BY <1>5 DEF TenantActs, ConfigureSmtp, DeleteSmtp, Subscription, mailVars
  <2>2. MailsInv'
    BY <1>0, <2>1, MailsLeftAlone
  <2>3. JobsInv'
    BY <1>0, <1>5, QuietJobs, Zenon DEF TenantActs
  <2>4. QED
    BY <2>2, <2>3 DEF OutreachInv
<1>6. CASE OthersAct
  <2>1. UNCHANGED <<draft, page, step, mailer, key, out, sures, lost, smtp>>
    BY <1>6 DEF OthersAct, RivalStarts, CancelSend, RivalEnds, Reclaim
  <2>2. MailsInv'
    BY <1>0, <2>1, MailsLeftAlone DEF mailVars
  <2>3. JobsInv'
    BY <1>0, <1>6, <2>1, OtherJobs, Zenon DEF OthersAct
  <2>4. QED
    BY <2>2, <2>3 DEF OutreachInv
<1>7. CASE LockExpires \/ LeaseEnds
  BY <1>0, <1>7, TimeKeeps, QuietJobs DEF OutreachInv
<1>8. CASE UNCHANGED outreachVars
  <2>1. UNCHANGED mailVars /\ UNCHANGED <<sends, posted, smtp>>
    BY <1>8 DEF outreachVars, mailVars
  <2>4. HoldersMove
    BY <2>1 DEF HoldersMove, mailVars
  <2>5. Bounds'
    BY <1>0, <2>1 DEF JobsInv, Bounds, mailVars
  <2>2. HoldersMove /\ Bounds'
    BY <2>4, <2>5
  <2>3. QED
    BY <1>0, <2>1, <2>2, MailsLeftAlone, RowsStay DEF OutreachInv
<1>9. QED
  BY <1>1, <1>2, <1>3, <1>4, <1>5, <1>6, <1>7, <1>8, WhoActs DEF OutreachInv

\* Drafts, requests, runs, rows and the tenant's settings have the values the
\* code gives them; a project has one active job at most.
THEOREM OutreachTyped == OutreachSpec => []OutreachTypeOK
<1>1. OutreachInv => OutreachTypeOK
  <2> SUFFICES ASSUME OutreachInv PROVE OutreachTypeOK
    OBVIOUS
  <2>1. /\ draft \in Draft /\ step \in [Editors -> Request] /\ mailer \in [Mailers -> Run]
        /\ draft.sure <= Len(sures) /\ sures \in Seq(Text)
    BY DEF OutreachInv, MailsInv, OutreachTypes, DraftIsConfirmed
  <2>2. /\ draft.status \in {"none", "draft", "queued", "sending", "sent", "failed"}
        /\ draft.text \in Letters \cup {""} /\ draft.revision \in Nat /\ draft.sure \in Nat
    BY <2>1 DEF Draft, Text
  <2>3. draft.revision \in 0 .. MaxRevision
    <3>1. MaxRevision \in Nat \ {0}
      BY OutreachAssumption
    <3>2. draft.revision <= MaxRevision
      BY DEF OutreachInv, JobsInv, Bounds
    <3>3. draft.revision \in Nat
      BY <2>2
    <3>4. QED
      BY <3>1, <3>2, <3>3
  <2>4. draft.sure \in 0 .. Len(sures)
    <3>1. Len(sures) \in Nat
      BY <2>1, LenProperties
    <3>2. draft.sure \in Nat /\ draft.sure <= Len(sures)
      BY <2>1, <2>2
    <3>3. QED
      BY <3>1, <3>2
  <2>5. /\ smtp \in [set : BOOLEAN, user : BOOLEAN, password : BOOLEAN] /\ (smtp.user => smtp.password)
        /\ key \in Mailers \cup {"free", "dead"}
    BY DEF OutreachInv, JobsInv, Bounds
  <2>6. /\ \A e \in Editors : step[e].at \in {"rest", "confirm", "insert", "publish", "store", "restore"}
        /\ \A w \in Mailers : mailer[w].at \in {"wait", "lock", "smtp", "claim", "mail", "mark", "end"}
    BY <2>1 DEF Request, Run
  <2>7. \A i \in DOMAIN sends : sends[i].attempt \in 1 .. Tries
    BY RowAt DEF OutreachInv, Row
  <2>8. Cardinality(Running) <= 1
    <3>1. CASE Running = {}
      BY <3>1, FS_EmptySet
    <3>2. CASE Running # {}
      <4>1. \A i, j \in Running : i = j
        BY DEF OutreachInv, JobsInv, OneRuns
      <4>2. PICK i \in Running : TRUE
        BY <3>2
      <4>3. Running = {i}
        BY <4>1, <4>2
      <4>4. QED
        BY <4>3, FS_Singleton
    <3>3. QED
      BY <3>1, <3>2
  <2>9. QED
    BY <2>2, <2>3, <2>4, <2>5, <2>6, <2>7, <2>8 DEF OutreachTypeOK
<1>2. QED
  BY <1>1, InvAtStart, NextKeeps, PTL DEF OutreachSpec

\* Every mail says what its confirmation was of, and a confirmation sends one mail
\* but for the runs that died while they sent.
THEOREM MailsFollow == OutreachSpec => []MailsFollowConfirmations
<1>1. OutreachInv => MailsFollowConfirmations
  <2> SUFFICES ASSUME OutreachInv PROVE MailsFollowConfirmations
    OBVIOUS
  <2>1. DOMAIN sures = 1 .. Len(sures) /\ Len(sures) \in Nat
    BY LenProperties DEF OutreachInv, MailsInv, OutreachTypes
  <2>2. \A s \in DOMAIN sures : s > 0
    BY <2>1
  <2>3. MailsAreConfirmed
    BY <2>2 DEF OutreachInv, MailsInv, MailsKnown, MailsAreConfirmed
  <2>4. OneMailPerConfirmation
    BY DEF OutreachInv, MailsInv, Budgeted, Count, OneMailPerConfirmation
  <2>5. QED
    BY <2>3, <2>4 DEF MailsFollowConfirmations
<1>2. QED
  BY <1>1, InvAtStart, NextKeeps, PTL DEF OutreachSpec
=============================================================================
