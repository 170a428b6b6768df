------------------------------ MODULE Contexts ------------------------------
(***************************************************************************)
(* The contexts in which the product runs engine code for a tenant         *)
(* (api/adapters/engine.py): the tenant's paths and lock factory travel in *)
(* ContextVars, while its keys, its own providers and the guard on the     *)
(* network are state of the whole process: os.environ, the registry of     *)
(* sample.py and requests' Session.request.                                *)
(*                                                                         *)
(* An API process serves requests on several threads; a worker runs one    *)
(* job in a process of its own (api/worker/job_runner.py), which was       *)
(* started without the platform's configuration and told to take no        *)
(* project lock.  Engine code hands work to threads of a pool              *)
(* (engine/scripts/context_executor.py).                                   *)
(***************************************************************************)
EXTENDS Naturals, Sequences, FiniteSets, FiniteSetsExt, SequencesExt

CONSTANTS
    Callers,    \* the threads of the API process
    Loads,      \* the requests the callers serve: a set of functions to Kinds
    Chains,     \* what a URL may lead to: sequences of hops
    CallLimit   \* PLATFORM_POOL_TENANT_MONTHLY_CALL_LIMIT

\* test: test_key; provider: _test_custom_provider; publish: publish_content and
\* the GitHub routes; reserve: sampling_control.reserve; write and read: routes of
\* the workspace; job: a job of the worker's child process.
Kinds == {"test", "provider", "publish", "reserve", "write", "read", "job", "none"}

ASSUME ContextsAssumption ==
    /\ {"child", "nobody"} \cap Callers = {} /\ IsFiniteSet(Callers)
    /\ \A l \in Loads : /\ DOMAIN l = Callers \cup {"child"} /\ l["child"] \in {"job", "none"}
                        /\ \A c \in Callers : l[c] \in Kinds \ {"job"}
    /\ Chains \subseteq Seq([host : Seq(STRING), public : BOOLEAN, answers : Seq(STRING)])
    /\ \A chain \in Chains : chain # <<>> /\ chain[1].host \notin {<<>>, <<"www">>}
    /\ CallLimit \in Nat

\* bound: the limit that holds when the variable is not set; the code's is 10 000
DefaultLimit == CallLimit + 2

VARIABLES
    load,      \* what each thread does
    pc,        \* where it is
    env,       \* per process: os.environ
    lock,      \* per process: the thread that holds _CONTEXT_LOCK, and how often
    registry,  \* per process: whose provider sample.PROVIDERS holds under a custom code
    prefs,     \* per process: whose providers sample.LLM_PREFS names
    guard,     \* per process: _NETWORK_GUARD_COUNT, _ORIGINAL and Session.request
    patched,   \* per process: the engine functions a wrapper replaced
    ctx,       \* the thread's ContextVars
    frame,     \* what the thread's context managers keep to restore
    tasks,     \* the tasks of the pools
    seen,      \* what requests and locks the engine's code made: history
    meter,     \* the counts of meter_platform_calls
    budget     \* the rows a reservation holds and the calls reserved

contextVars == <<load, pc, env, lock, registry, prefs, guard, patched, ctx, frame, tasks, seen, meter, budget>>

Threads == Callers \cup {"child"}
Home(t) == IF t = "child" THEN "worker" ELSE "api"
Homes == {"api", "worker"}
Nobody == "nobody"

\* _environment_name: the variables of two built-in engines, a custom provider's
\* and a publisher's credential.
Names == {"first", "second", "custom", "token"}
NoKeys == [n \in Names |-> Nobody]
OfTheHost == [NoKeys EXCEPT !["first"] = "host"]   \* a key in the process's own environment

Outside == [work |-> Nobody, guarded |-> FALSE, locks |-> "file", metered |-> FALSE]
NoFrame == [env |-> [keys |-> NoKeys, platform |-> FALSE, alone |-> FALSE],
            prefs |-> Nobody, custom |-> Nobody, limit |-> 0, pool |-> FALSE]

ContextsInit ==
    /\ load \in Loads
    /\ pc = [t \in Threads |-> IF load[t] = "none" THEN "done" ELSE "start"]
    /\ env = [api    |-> [keys |-> OfTheHost, platform |-> TRUE, alone |-> FALSE],
              worker |-> [keys |-> NoKeys, platform |-> FALSE, alone |-> TRUE]]
    /\ lock = [h \in Homes |-> [by |-> Nobody, depth |-> 0]]
    /\ registry = [h \in Homes |-> Nobody]
    /\ prefs = [h \in Homes |-> Nobody]
    /\ guard = [h \in Homes |-> [count |-> 0, original |-> "none", request |-> "plain"]]
    /\ patched = [h \in Homes |-> FALSE]
    /\ ctx = [t \in Threads |-> Outside]
    /\ frame = [t \in Threads |-> NoFrame]
    /\ tasks = {} /\ seen = {}
    /\ meter = [asked |-> 0, counted |-> 0]
    /\ budget = [holder |-> Nobody, reserved |-> 0]

---------------------------------------------------------------------------
(* What is injected *)

\* with_tenant_context's keys and custom_providers, as each caller passes them
\* (load_tenant_keys, load_custom_providers, _credentials, resolve_funding).
KeysOf(t) ==
    CASE load[t] = "test"     -> [NoKeys EXCEPT !["first"] = t]
      [] load[t] = "provider" -> [NoKeys EXCEPT !["custom"] = t]
      [] load[t] = "publish"  -> [NoKeys EXCEPT !["token"] = t]
      [] load[t] = "job"      -> [NoKeys EXCEPT !["first"] = t, !["second"] = "pool", !["custom"] = t]
      [] OTHER                -> NoKeys
HasProvider(t) == load[t] \in {"provider", "reserve", "job"}
NeedsProcessState(t) == load[t] \in {"test", "provider", "publish", "reserve", "job"}

\* _transport_headers, _custom_provider_context
ProviderOf(t) == IF HasProvider(t) THEN t ELSE Nobody

---------------------------------------------------------------------------
(* One guarded request *)

\* A host is the sequence of its labels from the top; "www" in front is dropped.
Bare(host) == IF host # <<>> /\ Last(host) = "www" THEN Front(host) ELSE host

\* same_site of protect_network_fetches
SameSite(source, target) ==
    LET s == Bare(source)  d == Bare(target)
    IN  s # <<>> /\ d # <<>> /\ (IsPrefix(s, d) \/ IsPrefix(d, s))

\* request_once: GET and HEAD are tried twice (NETWORK_MAX_ATTEMPTS) when the
\* first try fails or is answered 429 or 5xx; the pinned adapter connects to the
\* address that was validated, whatever the name resolves to by then.
Once(hop, method) ==
    IF method = "GET" /\ Head(hop.answers) \in {"broken", "busy"} THEN Last(hop.answers) ELSE Head(hop.answers)

\* guarded_request up to hop i of a chain: every hop's address is validated, and
\* a redirect is followed within the site, NETWORK_MAX_REDIRECTS times.
MaxRedirects == 5
Follows(method, hop) == method = "GET" /\ Once(hop, method) = "moved"
Guarded(chain, method) ==
    LET stops(i) == ~chain[i].public \/ ~Follows(method, chain[i]) \/ i > MaxRedirects
                    \/ i = Len(chain) \/ ~SameSite(chain[1].host, chain[i + 1].host)
        last     == Min({i \in DOMAIN chain : stops(i)})
    IN  [visited |-> {chain[i] : i \in {j \in 1 .. last : chain[j].public}},
         result  |-> IF ~chain[last].public THEN "refused"
                     ELSE IF Follows(method, chain[last]) THEN "redirect refused" ELSE Once(chain[last], method)]

\* requests' own Session.request follows a chain wherever it leads
Plain(chain) == [visited |-> Range(chain), result |-> Once(Last(chain), "GET")]

---------------------------------------------------------------------------
(* Entering and leaving *)

At(t, at) == pc[t] = at
Go(t, to) == pc' = [pc EXCEPT ![t] = to]

\* reserve up to with_tenant_context: the advisory lock and the tenant's and the
\* project's rows are held from here to the commit, and resolve_funding sees the
\* pool only when the environment shows its keys and prices.
Reserves(t) ==
    /\ At(t, "start") /\ load[t] = "reserve" /\ budget.holder = Nobody
    /\ budget' = [budget EXCEPT !.holder = t]
    /\ frame' = [frame EXCEPT ![t].pool = env["api"].platform]
    /\ Go(t, "enter")
    /\ UNCHANGED <<load, env, lock, registry, prefs, guard, patched, ctx, tasks, seen, meter>>

\* A request or a job that holds no row; the job's runner counts the calls of
\* the pool's engines in a ContextVar (metering.py, meter_platform_calls).
Starts(t) ==
    /\ At(t, "start") /\ load[t] # "reserve"
    /\ ctx' = [ctx EXCEPT ![t].metered = load[t] = "job"]
    /\ Go(t, "enter")
    /\ UNCHANGED <<load, env, lock, registry, prefs, guard, patched, frame, tasks, seen, meter, budget>>

\* with_tenant_context, with_tenant_read_context: the lock factory is chosen here,
\* since inject_keys is about to clear CITEAURA_SKIP_PROJECT_LOCK.
LocksOf(t) == IF env[Home(t)].alone THEN "none" ELSE "redis"

Enters(t) ==
    /\ At(t, "enter")
    /\ ctx' = [ctx EXCEPT ![t].work = t, ![t].locks = LocksOf(t)]
    /\ Go(t, IF load[t] = "read" THEN "body" ELSE IF NeedsProcessState(t) THEN "wait" ELSE "count")
    /\ UNCHANGED <<load, env, lock, registry, prefs, guard, patched, frame, tasks, seen, meter, budget>>

\* process_state_lock, which its holder may take again
MayLock(t) == lock[Home(t)].by \in {Nobody, t}

TakesLock(t) ==
    /\ At(t, "wait") /\ MayLock(t)
    /\ lock' = [lock EXCEPT ![Home(t)] = [by |-> t, depth |-> @.depth + 1]]
    /\ Go(t, "inject")
    /\ UNCHANGED <<load, env, registry, prefs, guard, patched, ctx, frame, tasks, seen, meter, budget>>

\* inject_keys: every engine's key and every platform variable is cleared, then
\* the keys are set; what was there is kept.
Injects(t) ==
    /\ At(t, "inject")
    /\ frame' = [frame EXCEPT ![t].env = env[Home(t)]]
    /\ env' = [env EXCEPT ![Home(t)] = [keys |-> KeysOf(t), platform |-> FALSE, alone |-> FALSE]]
    /\ Go(t, "count")
    /\ UNCHANGED <<load, lock, registry, prefs, guard, patched, ctx, tasks, seen, meter, budget>>

\* A plausible bug: every entry keeps what it finds.
CountedAgain(g) == [g EXCEPT !.count = @ + 1, !.original = g.request]

\* protect_network_fetches: the first one in keeps the original under the state lock ...
Counted(g) == [g EXCEPT !.count = @ + 1, !.original = IF g.count = 0 THEN g.request ELSE @]

Counts(t) ==
    /\ At(t, "count")
    /\ guard' = [guard EXCEPT ![Home(t)] = Counted(@)]
    /\ Go(t, "install")
    /\ UNCHANGED <<load, env, lock, registry, prefs, patched, ctx, frame, tasks, seen, meter, budget>>

\* ... and each of them installs its guard after it let that lock go.
Installs(t) ==
    /\ At(t, "install")
    /\ guard' = [guard EXCEPT ![Home(t)].request = "guard"]
    /\ ctx' = [ctx EXCEPT ![t].guarded = TRUE]
    /\ Go(t, IF NeedsProcessState(t) THEN "register" ELSE "body")
    /\ UNCHANGED <<load, env, lock, registry, prefs, patched, frame, tasks, seen, meter, budget>>

\* _custom_provider_context
Registers(t) ==
    /\ At(t, "register")
    /\ frame' = [frame EXCEPT ![t].custom = registry[Home(t)], ![t].prefs = prefs[Home(t)]]
    /\ registry' = [registry EXCEPT ![Home(t)] = IF HasProvider(t) THEN t ELSE @]
    /\ prefs' = [prefs EXCEPT ![Home(t)] = ProviderOf(t)]
    /\ Go(t, IF load[t] = "job" THEN "wrap" ELSE "body")
    /\ UNCHANGED <<load, env, lock, guard, patched, ctx, tasks, seen, meter, budget>>

\* execute's wrappers (job_runner.py, _wrapper) take the process's lock once more
\* to replace functions of the engine.
Wraps(t) ==
    /\ At(t, "wrap") /\ MayLock(t)
    /\ lock' = [lock EXCEPT ![Home(t)] = [by |-> t, depth |-> @.depth + 1]]
    /\ patched' = [patched EXCEPT ![Home(t)] = TRUE]
    /\ Go(t, "body")
    /\ UNCHANGED <<load, env, registry, prefs, guard, ctx, frame, tasks, seen, meter, budget>>

Idle(t) == \A k \in tasks : k.of # t

Unwraps(t) ==
    /\ At(t, "unwrap")
    /\ patched' = [patched EXCEPT ![Home(t)] = FALSE]
    /\ lock' = [lock EXCEPT ![Home(t)].depth = @ - 1]
    /\ Go(t, "unregister")
    /\ UNCHANGED <<load, env, registry, prefs, guard, ctx, frame, tasks, seen, meter, budget>>

Unregisters(t) ==
    /\ At(t, "unregister")
    /\ registry' = [registry EXCEPT ![Home(t)] = IF HasProvider(t) THEN frame[t].custom ELSE @]
    /\ prefs' = [prefs EXCEPT ![Home(t)] = frame[t].prefs]
    /\ Go(t, "uncount")
    /\ UNCHANGED <<load, env, lock, guard, patched, ctx, frame, tasks, seen, meter, budget>>

\* The last one out puts the original back.
Uncounts(t) ==
    LET g == guard[Home(t)]
    IN  /\ At(t, "uncount")
        /\ ctx' = [ctx EXCEPT ![t].guarded = FALSE]
        /\ guard' = [guard EXCEPT ![Home(t)] =
                        IF g.count > 1 THEN [g EXCEPT !.count = @ - 1]
                        ELSE [count |-> 0, original |-> "none", request |-> g.original]]
        /\ Go(t, IF NeedsProcessState(t) THEN "restore" ELSE "leave")
        /\ UNCHANGED <<load, env, lock, registry, prefs, patched, frame, tasks, seen, meter, budget>>

Restores(t) ==
    /\ At(t, "restore")
    /\ env' = [env EXCEPT ![Home(t)] = frame[t].env]
    /\ Go(t, "unlock")
    /\ UNCHANGED <<load, lock, registry, prefs, guard, patched, ctx, frame, tasks, seen, meter, budget>>

Unlocks(t) ==
    LET left == lock[Home(t)].depth - 1
    IN  /\ At(t, "unlock")
        /\ lock' = [lock EXCEPT ![Home(t)] = [by |-> IF left = 0 THEN Nobody ELSE t, depth |-> left]]
        /\ Go(t, "leave")
        /\ UNCHANGED <<load, env, registry, prefs, guard, patched, ctx, frame, tasks, seen, meter, budget>>

\* scoped_paths and scoped_runtime reset their ContextVars, and the meter's is reset last
Leaves(t) ==
    /\ At(t, "leave")
    /\ ctx' = [ctx EXCEPT ![t] = Outside]
    /\ Go(t, IF load[t] = "reserve" THEN "tenant limit" ELSE "done")
    /\ UNCHANGED <<load, env, lock, registry, prefs, guard, patched, frame, tasks, seen, meter, budget>>

---------------------------------------------------------------------------
(* What the engine does inside *)

\* bound: what a body does once or not at all
Did(t, what) == \E s \in seen : s.of = t /\ s.what = what
Saw(t, what, where, ok) == [of |-> t, what |-> what, where |-> where, ok |-> ok]

\* ThreadPoolExecutor.submit copies the ContextVars of the submitting thread.
Copied(t) == ctx[t]

\* A crawl fetches, and a sampling run asks, on threads of a pool.
Submits(t, what) ==
    /\ At(t, "body") /\ load[t] \in {"write", "job"}
    /\ what = "ask" => load[t] = "job"
    /\ ~Did(t, what) /\ \A k \in tasks : k.of # t \/ k.what # what
    /\ tasks' = tasks \cup {[of |-> t, what |-> what, ctx |-> Copied(t)]}
    /\ UNCHANGED <<load, pc, env, lock, registry, prefs, guard, patched, ctx, frame, seen, meter, budget>>

\* Session.request as code with these ContextVars meets it: without a guard
\* installed, or outside a guarded context, it is requests' own.
Requested(home, c, chain, method) ==
    IF guard[home].request = "guard" /\ c.guarded THEN Guarded(chain, method) ELSE Plain(chain)

OnSite(chain, visited) == \A h \in visited : h.public /\ SameSite(chain[1].host, h.host)

\* A task fetches a page into its project's directory.
Fetches(k, chain) ==
    LET r == Requested(Home(k.of), k.ctx, chain, "GET")
    IN  /\ k \in tasks /\ k.what = "fetch"
        /\ tasks' = tasks \ {k}
        /\ seen' = seen \cup {Saw(k.of, "fetch", k.ctx.work, OnSite(chain, r.visited))}
        /\ UNCHANGED <<load, pc, env, lock, registry, prefs, guard, patched, ctx, frame, meter, budget>>

\* sample.ask on an engine the pool pays for: the metered wrapper counts it when
\* the ContextVar of its thread says so, and the key is read from the environment.
Asks(k) ==
    /\ k \in tasks /\ k.what = "ask"
    /\ tasks' = tasks \ {k}
    /\ seen' = seen \cup {Saw(k.of, "ask", k.ctx.work, env["worker"].keys["second"] = "pool")}
    /\ meter' = [asked |-> meter.asked + 1, counted |-> meter.counted + IF k.ctx.metered THEN 1 ELSE 0]
    /\ UNCHANGED <<load, pc, env, lock, registry, prefs, guard, patched, ctx, frame, budget>>

\* test_key, _test_custom_provider, publish: one request on the request's own
\* thread, with the key the environment holds when it is made.
Calls(t, chain) ==
    LET name == CASE load[t] = "test" -> "first" [] load[t] = "provider" -> "custom" [] OTHER -> "token"
        r    == Requested("api", ctx[t], chain, "POST")
    IN  /\ At(t, "body") /\ load[t] \in {"test", "provider", "publish"} /\ ~Did(t, "call")
        /\ seen' = seen \cup {Saw(t, "call", ctx[t].work,
                                  env["api"].keys[name] = t /\ OnSite(chain, r.visited))}
        /\ UNCHANGED <<load, pc, env, lock, registry, prefs, guard, patched, ctx, frame, tasks, meter, budget>>

\* geolib.project_lock through the context's lock factory; a child process has no
\* access to Redis, where its parent holds the lock.
LocksProject(t) ==
    /\ At(t, "body") /\ load[t] \in {"write", "job"} /\ ~Did(t, "lock")
    /\ seen' = seen \cup {Saw(t, "lock", ctx[t].work, ctx[t].locks = IF t = "child" THEN "none" ELSE "redis")}
    /\ UNCHANGED <<load, pc, env, lock, registry, prefs, guard, patched, ctx, frame, tasks, meter, budget>>

\* The body returns or raises; a pool is joined first.
Ends(t) ==
    /\ At(t, "body") /\ Idle(t)
    /\ Go(t, IF load[t] = "read" THEN "leave" ELSE IF load[t] = "job" THEN "unwrap"
             ELSE IF NeedsProcessState(t) THEN "unregister" ELSE "uncount")
    /\ UNCHANGED <<load, env, lock, registry, prefs, guard, patched, ctx, frame, tasks, seen, meter, budget>>

---------------------------------------------------------------------------
(* The reservation, after its context *)

\* estimate: the limit as the environment shows it now
TenantLimit == IF env["api"].platform THEN CallLimit ELSE DefaultLimit

ReadsLimit(t) ==
    /\ At(t, "tenant limit")
    /\ frame' = [frame EXCEPT ![t].limit = TenantLimit]
    /\ Go(t, "decide")
    /\ UNCHANGED <<load, env, lock, registry, prefs, guard, patched, ctx, tasks, seen, meter, budget>>

\* _limit_state, ensure_allowed and reserve: one call more, when the pool pays
Decides(t) ==
    LET calls == IF frame[t].pool THEN 1 ELSE 0
    IN  /\ At(t, "decide")
        /\ budget' = [holder |-> Nobody,
                      reserved |-> budget.reserved + IF budget.reserved + calls > frame[t].limit THEN 0 ELSE calls]
        /\ Go(t, "done")
        /\ UNCHANGED <<load, env, lock, registry, prefs, guard, patched, ctx, frame, tasks, seen, meter>>

Finished == \A t \in Threads : pc[t] = "done"

ContextsNext ==
    \/ \E t \in Threads :
         \/ Reserves(t) \/ Starts(t) \/ Enters(t) \/ TakesLock(t) \/ Injects(t) \/ Counts(t)
         \/ Installs(t) \/ Registers(t) \/ Wraps(t) \/ Unwraps(t) \/ Unregisters(t) \/ Uncounts(t)
         \/ Restores(t) \/ Unlocks(t) \/ Leaves(t) \/ LocksProject(t) \/ Ends(t)
         \/ ReadsLimit(t) \/ Decides(t)
         \/ \E what \in {"fetch", "ask"} : Submits(t, what)
         \/ \E chain \in Chains : Calls(t, chain)
    \/ \E k \in tasks : Asks(k) \/ \E chain \in Chains : Fetches(k, chain)
    \/ Finished /\ UNCHANGED contextVars

ContextsSpec == ContextsInit /\ [][ContextsNext]_contextVars

---------------------------------------------------------------------------
(* Properties *)

\* The type invariant.
ContextsTypeOK ==
    /\ load \in Loads
    /\ \A h \in Homes :
         /\ env[h] \in [keys : [Names -> Threads \cup {"host", "pool", Nobody}], platform : BOOLEAN, alone : BOOLEAN]
         /\ lock[h] \in [by : Threads \cup {Nobody}, depth : 0 .. 2]
         /\ registry[h] \in Threads \cup {Nobody} /\ prefs[h] \in Threads \cup {Nobody}
         /\ guard[h].count \in 0 .. Cardinality(Threads) /\ guard[h].request \in {"plain", "guard"}
         /\ patched[h] \in BOOLEAN
    /\ \A t \in Threads : ctx[t].work \in {t, Nobody}
    /\ \A k \in tasks : k.of \in Threads
    /\ meter.counted \in 0 .. meter.asked
    /\ budget.holder \in Callers \cup {Nobody} /\ budget.reserved \in Nat

\* Between injection and restoration a thread finds its own keys, its own provider
\* and none of the platform's variables in the process, whatever other threads
\* enter or leave meanwhile (with_tenant_context).
Inside(t) == NeedsProcessState(t) /\ pc[t] \in {"wrap", "body", "unwrap", "unregister"}
BodiesSeeTheirOwn ==
    \A t \in Threads : Inside(t) =>
        /\ env[Home(t)] = [keys |-> KeysOf(t), platform |-> FALSE, alone |-> FALSE]
        /\ prefs[Home(t)] = ProviderOf(t)
        /\ HasProvider(t) => registry[Home(t)] = t

\* What engine code does for a tenant, on its own thread or on a pool's, happens
\* in the tenant's directory, under the guard, with the right key and lock, and
\* every call the pool pays for is counted (context_executor.py, metering.py).
TasksKeepTheirContext ==
    /\ \A s \in seen : s.where = s.of /\ s.ok
    /\ meter.counted = meter.asked

\* Once no thread is inside, the process is as it was: its environment, the
\* registry, the preferences, requests' own Session.request and the engine's functions.
OutsideAgain(h) == \A t \in Threads : Home(t) = h => pc[t] \in {"start", "enter", "wait", "leave", "tenant limit", "decide", "done"}
NothingStaysBehind ==
    \A h \in Homes : OutsideAgain(h) =>
        /\ env[h] = [keys |-> IF h = "api" THEN OfTheHost ELSE NoKeys, platform |-> h = "api", alone |-> h = "worker"]
        /\ registry[h] = Nobody /\ prefs[h] = Nobody /\ ~patched[h]
        /\ guard[h] = [count |-> 0, original |-> "none", request |-> "plain"]
        /\ lock[h].depth = 0

\* Tenants that share a process do not meet in it: not while they run, not in the
\* work they hand to pools, and not in what they leave behind.
ContextsStayApart == BodiesSeeTheirOwn /\ TasksKeepTheirContext /\ NothingStaysBehind
=============================================================================
