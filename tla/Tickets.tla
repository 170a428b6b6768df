-------------------------------- MODULE Tickets ------------------------------
(***************************************************************************)
(* The action tickets of one project: built from the audit and the         *)
(* samples, narrowed to what applies, worked on by people, verified on a   *)
(* re-crawl, and followed by an experiment (engine/scripts/tasks.py and    *)
(* verify.py, api/adapters/ticket_workflow.py, action_scope.py,            *)
(* workspace.py, global_scope.py, api/analytics/experiments.py).           *)
(*                                                                         *)
(* A job holds the project lock from Begin to its end, and edits wait for  *)
(* it; a job's process may die between two of its writes. One ticket       *)
(* stands for each kind of rule: a ticket that only people close, a site   *)
(* check (the sitemap), a page check (client-rendered shells, the one page *)
(* that has it), the sampling baseline, a rate to raise, and the offsite   *)
(* tickets people write. What a ticket says is left out, save that the     *)
(* title of a rate to raise names the rate that was measured. The other    *)
(* checks (the score, llms.txt, languages, citations) are not modelled.    *)
(***************************************************************************)
EXTENDS Naturals, Sequences, FiniteSets

CONSTANTS
    Person,    \* owners people give a ticket
    Changes,   \* what people ask of tickets (TicketUpdate)
    Eligible,  \* the project has the 16 questions an experiment is split over
    Budgets    \* bounds: how often each of these may happen

Bounded == {"changes", "runs", "offsite", "edits", "jobs", "binds", "deaths", "days"}

Status == {"todo", "doing", "done", "blocked", "wontfix"}

\* "as_is": the field is not in the request.
Change == [status : Status \cup {"as_is"}, owner : Person \cup {"as_is"}, note : BOOLEAN]

ASSUME TicketsAssumption ==
    /\ Changes \subseteq Change /\ Eligible \in BOOLEAN /\ Budgets \subseteq [Bounded -> Nat]

VARIABLES
    site,     \* what a crawl would find now
    audit,    \* what the last crawl and its audit found
    sampled,  \* the sampling runs, each by what it shows
    list,     \* tasks.json: the tickets, and those that scoping set aside
    job,      \* the job that holds the project lock, and what it remembers
    day,
    left,     \* what may still happen
    offsite,  \* history: offsite tickets written
    torn      \* history: a job died between a build and its merge

ticketVars == <<site, audit, sampled, list, job, day, left, offsite, torn>>

-----------------------------------------------------------------------------
Site == [sitemap : BOOLEAN, page : {"shell", "full", "gone"}]
Quality == {"thin", "lower", "low", "high"}  \* too few samples; two rates below the target
Id == ({"T", "M"} \X Nat) \cup ({"A"} \X {"sitemap", "render", "baseline"})
RateTitle == {"raise_lower", "raise_low"}
Title == {"definition", "sitemap", "shell", "render", "baseline", "offsite"} \cup RateTitle
State == {"draft", "deployed", "observing", "effective", "ineffective", "inconclusive"}

Effect == [state    : State,
           bound    : BOOLEAN,        \* it has target and control questions
           baseline : Nat,            \* the run; 0: there was none
           ends     : Nat]

Ticket == [id        : Id,
           title     : Title,
           status    : Status,
           owner     : Person \cup {"role"},
           custom    : BOOLEAN, \* workflow_customized
           generated : BOOLEAN, \* scope_generated
           effect    : Effect]

Latest == Len(sampled)
EnoughSamples == Latest > 0 /\ sampled[Latest] # "thin"

May(event) == left[event] > 0
Spend(event) == left' = [left EXCEPT ![event] = @ - 1]

\* Tickets by id or title; the last one wins, as in a Python dict.
Holding(seq, P(_)) == {i \in DOMAIN seq : P(seq[i])}
\* The tickets at some places, and those that are so, in their order.
Places(seq, S) ==
    LET nth(k) == CHOOSE i \in S : Cardinality({j \in S : j <= i}) = k
    IN [k \in 1 .. Cardinality(S) |-> seq[nth(k)]]
Those(seq, P(_)) == Places(seq, Holding(seq, P))
LastOf(seq, S) == seq[CHOOSE i \in S : \A j \in S : j <= i]

Idle == [steps |-> <<>>, manual |-> <<>>, workflow |-> <<>>, results |-> {}]

\* A project that has been crawled and audited once.
TicketsInit ==
    /\ site \in [sitemap : {FALSE}, page : {"shell"}]
    /\ audit = site
    /\ sampled = <<>>
    /\ list = [tickets |-> <<>>, excluded |-> <<>>, deferred |-> <<>>]
    /\ job = Idle
    /\ day = 0
    /\ left \in Budgets
    /\ offsite = {}
    /\ torn = FALSE

-----------------------------------------------------------------------------
(* Building: the tickets the audit and the samples call for                *)

NewEffect(title) ==
    [state |-> "draft", bound |-> title \in RateTitle /\ Eligible, baseline |-> 0, ends |-> 0]

NewTicket(id, title, generated) ==
    [id |-> id, title |-> title, status |-> "todo", owner |-> "role", custom |-> FALSE,
     generated |-> generated, effect |-> NewEffect(title)]

When(p, title) == IF p THEN <<title>> ELSE <<>>

FromAudit == When(~audit.sitemap, "sitemap") \o When(audit.page = "shell", "shell")

FromMetrics ==
    IF Latest = 0 THEN <<>>
    ELSE When(~EnoughSamples, "baseline")
         \o When(sampled[Latest] = "lower", "raise_lower")
         \o When(sampled[Latest] = "low", "raise_low")

\* What is carried over: from the ticket of that place and title, else of
\* that title. The owner is not among it.
Previous(id, title) ==
    LET here == Holding(list.tickets, LAMBDA t : t.id = id /\ t.title = title)
    IN IF here # {} THEN here ELSE Holding(list.tickets, LAMBDA t : t.title = title)

Rebuilt(i, title) ==
    LET new == NewTicket(<<"T", i>>, title, FALSE)
        old == Previous(<<"T", i>>, title)
    IN IF old = {} THEN new
       ELSE [new EXCEPT !.status = LastOf(list.tickets, old).status,
                        !.custom = LastOf(list.tickets, old).custom,
                        !.effect = LastOf(list.tickets, old).effect]

Build ==
    LET titles == <<"definition">> \o FromAudit \o FromMetrics
    IN [tickets  |-> [i \in DOMAIN titles |-> Rebuilt(i, titles[i])],
        excluded |-> <<>>, deferred |-> <<>>]

-----------------------------------------------------------------------------
(* Scoping: which tickets apply. It starts again from all it has seen      *)

\* The first ticket of each id.
ById(seq) == Places(seq, {i \in DOMAIN seq : \A j \in 1 .. i - 1 : seq[j].id # seq[i].id})

Sources(l) ==
    ById(Those(l.tickets \o l.excluded \o l.deferred, LAMBDA t : ~t.generated \/ t.custom))

PageTicket(t) == t.title \in {"shell", "render"}

Scoped(t) == IF PageTicket(t) THEN [t EXCEPT !.title = "render"] ELSE t

\* A ticket of a page no longer failing stays once somebody has taken it up.
Applies(t) ==
    CASE PageTicket(t) ->
             audit.page = "shell" \/ t.status \in {"doing", "blocked", "done", "wontfix"} \/ t.custom
      [] t.title = "sitemap" ->
             ~audit.sitemap \/ t.status \in {"done", "wontfix"} \/ t.custom
      [] t.title = "baseline" -> ~EnoughSamples
      [] t.title \in RateTitle -> EnoughSamples
      [] OTHER -> TRUE

Missing(active, title) == \A i \in DOMAIN active : active[i].title # title

\* The failures no ticket covers get one of their own.
Added(seen, active) ==
    LET add(p, title) == IF p THEN <<NewTicket(<<"A", title>>, title, TRUE)>> ELSE <<>>
    IN add(~EnoughSamples /\ Missing(active, "baseline"), "baseline")
       \o add(audit.page = "shell" /\ Missing(active, "render"), "render")
       \o add(~audit.sitemap /\ Missing(seen, "sitemap"), "sitemap")

ScopeTaskData(l) ==
    LET seen   == Sources(l)
        active == Those(seen, LAMBDA t : t.title \notin RateTitle /\ Applies(t))
        rates  == Those(seen, LAMBDA t : t.title \in RateTitle /\ Applies(t))
        shown  == [i \in DOMAIN active |-> Scoped(active[i])]
    IN [tickets  |-> ById(shown \o rates \o Added(seen, shown)),
        excluded |-> Those(seen, LAMBDA t : t.title \notin RateTitle /\ ~Applies(t)),
        deferred |-> Those(seen, LAMBDA t : t.title \in RateTitle /\ ~Applies(t))]

-----------------------------------------------------------------------------
(* What people wrote, put back after a build                               *)

IsManual(t) == t.title = "offsite"

MergeManual(l, manual) ==
    LET here(m) == \E i \in DOMAIN l.tickets : IsManual(l.tickets[i]) /\ l.tickets[i].id = m.id
    IN [l EXCEPT !.tickets = @ \o Those(manual, LAMBDA m : ~here(m))]

\* A plausible bug: the owner is not among what is put back.
MergeStatus(l, workflow) ==
    [l EXCEPT !.tickets = [i \in DOMAIN @ |->
        LET from == Holding(workflow, LAMBDA w : w.id = @[i].id)
        IN IF from = {} THEN @[i]
           ELSE [@[i] EXCEPT !.status = LastOf(workflow, from).status,
                             !.custom = LastOf(workflow, from).custom]]]

\* By id, and by title only when no ticket people worked on had that id.
Resumed(t, workflow) ==
    LET id    == Holding(workflow, LAMBDA w : w.id = t.id)
        named == Holding(workflow, LAMBDA w : w.title = t.title)
        from  == IF id # {} THEN id ELSE named
    IN IF from = {} THEN t
       ELSE [t EXCEPT !.status = LastOf(workflow, from).status,
                      !.owner  = LastOf(workflow, from).owner,
                      !.custom = LastOf(workflow, from).custom]

MergeWorkflow(l, workflow) ==
    [l EXCEPT !.tickets = [i \in DOMAIN @ |-> Resumed(@[i], workflow)]]

Merge(l) == MergeWorkflow(MergeManual(l, job.manual), job.workflow)

\* normalize_project: before there are tickets it writes none.
NormalizedList(l) == IF l.tickets = <<>> THEN l ELSE ScopeTaskData(l)

-----------------------------------------------------------------------------
(* Verification and experiments                                            *)

\* The audit on disk calls a page "scored" or "not_scored".
EvaluationStatus == IF audit.page = "full" THEN "scored" ELSE "not_scored"

\* check: TRUE and FALSE as "pass" and "fail", None as "manual". A page check
\* that scoping has made role-aware looks for "evaluated", which only the view
\* of the audit says (audit_presentation.py).
Verdict(t) ==
    LET says(p) == IF p THEN "pass" ELSE "fail"
    IN CASE t.title = "sitemap"  -> says(audit.sitemap)
         [] t.title = "shell" /\ audit.page # "gone" -> says(audit.page = "full")
         [] t.title = "render" /\ EvaluationStatus = "evaluated" -> says(audit.page = "full")
         [] t.title = "baseline" -> says(EnoughSamples)
         [] t.title \in RateTitle /\ EnoughSamples -> says(sampled[Latest] = "high")
         [] OTHER -> "manual"

Verified(t) ==
    [t EXCEPT !.status = CASE Verdict(t) = "pass" -> "done"
                           [] Verdict(t) = "fail" /\ @ = "done" -> "todo"
                           [] OTHER -> @]

ObservationDays == 1 \* 14 days, of which only the end matters

\* record_verification, per result: a change that passes is live from now on.
Deployed(t) ==
    IF [id |-> t.id, verdict |-> "pass"] \in job.results /\ t.effect.state = "draft"
    THEN [t EXCEPT !.effect = [@ EXCEPT !.state = "deployed", !.baseline = Latest,
                                        !.ends = day + ObservationDays]]
    ELSE t

Judged(e) ==
    /\ e.state \in {"deployed", "observing"}
    /\ e.baseline \notin {0, Latest}

\* evaluate_experiment; the statistics are a choice of verdict.
Evaluated(t, verdict) ==
    IF ~Judged(t.effect) THEN t
    ELSE [t EXCEPT !.effect.state =
            IF day < t.effect.ends THEN "observing"
            ELSE IF t.effect.bound THEN verdict ELSE "inconclusive"]

OnAll(f(_)) == [list EXCEPT !.tickets = [i \in DOMAIN @ |-> f(@[i])]]

\* record_effect_evaluations: the experiments that run, each on its own.
Evaluations ==
    LET due == {i \in DOMAIN list.tickets : Judged(list.tickets[i].effect)}
    IN {[list EXCEPT !.tickets = [i \in DOMAIN @ |->
             IF i \in due THEN Evaluated(@[i], verdict[i]) ELSE @[i]]] :
        verdict \in [due -> {"effective", "ineffective", "inconclusive"}]}

-----------------------------------------------------------------------------
(* Jobs: the steps each of them takes, every step a write of its own        *)

\* build, as the wrappers of a job make it.
CmdPlan == <<"build", "scope", "manual", "workflow">>

\* cmd_autopilot does the same, after a bootstrap of projects without questions.
CmdServe == <<"crawl", "sample">> \o CmdPlan \o <<"verify">>

TaskVerify == <<"crawl", "verify", "record">>
TaskSample == <<"sample", "normalize", "evaluate">>
TaskCycle == <<"crawl", "sample", "normalize", "evaluate">>

\* The same commands as single actions; what they record is less. Those that
\* build tickets put back what people wrote when they end.
TaskPipeline(cmd) == cmd \o <<"normalize">>
TaskPreserving(cmd) == TaskPipeline(cmd \o <<"restore">>)

Jobs == {TaskPreserving(CmdPlan), TaskPreserving(CmdServe), TaskVerify, TaskSample, TaskCycle,
         TaskPipeline(<<"crawl", "verify">>), TaskPipeline(<<"sample">>)}

At(step) == job.steps # <<>> /\ Head(job.steps) = step
Ahead(step) == step \in {job.steps[i] : i \in DOMAIN job.steps}
Free == job.steps = <<>>
Step == job' = IF Len(job.steps) = 1 THEN Idle ELSE [job EXCEPT !.steps = Tail(@)]

\* preserve_manual_tickets remembers what people wrote; no other job asks for it.
Begin(script) ==
    /\ Free /\ May("jobs") /\ Spend("jobs")
    /\ LET now == NormalizedList(list)
           kept(P(_)) == IF "restore" \in {script[i] : i \in DOMAIN script}
                         THEN Those(now.tickets, P) ELSE <<>>
       IN /\ list' = now
          /\ job' = [Idle EXCEPT !.steps = script, !.manual = kept(IsManual),
                                 !.workflow = kept(LAMBDA t : t.custom)]
    /\ UNCHANGED <<site, audit, sampled, day, offsite, torn>>

Crawl ==
    /\ At("crawl")
    /\ audit' = site
    /\ Step
    /\ UNCHANGED <<site, sampled, list, day, left, offsite, torn>>

\* Sampling that fails fails the job, unless tickets are built after it.
Sample ==
    /\ At("sample")
    /\ \/ Ahead("build") /\ UNCHANGED <<sampled, left>>
       \/ /\ May("runs") /\ Spend("runs")
          /\ \E q \in Quality : sampled' = Append(sampled, q)
    /\ Step
    /\ UNCHANGED <<site, audit, list, day, offsite, torn>>

Writes(step, l) ==
    /\ At(step)
    /\ list' = l
    /\ Step
    /\ UNCHANGED <<site, audit, sampled, day, left, offsite, torn>>

BuildTickets == Writes("build", Build)
ScopeTickets == Writes("scope", ScopeTaskData(list))
PutBackManual == Writes("manual", MergeManual(list, job.manual))
PutBackWorkflow == Writes("workflow", MergeWorkflow(list, job.workflow))
RestoreTickets == Writes("restore", Merge(list))
NormalizeProject == Writes("normalize", NormalizedList(list))

\* There is nothing to verify before the first plan: JobFails.
VerifyTickets ==
    /\ At("verify") /\ list.tickets # <<>>
    /\ list' = OnAll(Verified)
    /\ job' = [job EXCEPT
           !.steps = Tail(@),
           !.results = {[id |-> list.tickets[i].id, verdict |-> Verdict(list.tickets[i])] :
                        i \in DOMAIN list.tickets}]
    /\ UNCHANGED <<site, audit, sampled, day, left, offsite, torn>>

\* Only the verify job writes its results into the timelines.
RecordVerification == Writes("record", OnAll(Deployed))

\* Evaluating may fail, which the job survives.
EvaluateEffects == \E l \in Evaluations \cup {list} : Writes("evaluate", l)

\* An error unwinds the wrappers, which put back what people wrote.
JobFails ==
    /\ ~Free
    /\ IF At("verify") /\ list.tickets = <<>> THEN UNCHANGED left
       ELSE May("deaths") /\ Spend("deaths")
    /\ list' = IF Ahead("restore") THEN Merge(list) ELSE list
    /\ job' = Idle
    /\ UNCHANGED <<site, audit, sampled, day, offsite, torn>>

\* A kill does not: a build whose merge is still to come stays as it is.
JobDies ==
    /\ ~Free /\ May("deaths") /\ Spend("deaths")
    /\ torn' = (torn \/ At("scope") \/ At("manual"))
    /\ job' = Idle
    /\ UNCHANGED <<site, audit, sampled, list, day, offsite>>

-----------------------------------------------------------------------------
(* People, between jobs                                                    *)

Applied(t, change) ==
    LET new == [t EXCEPT !.status = IF change.status = "as_is" THEN @ ELSE change.status,
                         !.owner = IF change.owner = "as_is" THEN @ ELSE change.owner]
    IN IF new = t /\ ~change.note THEN t ELSE [new EXCEPT !.custom = TRUE]

\* update and bulk_update: one change for some tickets, all of them found.
UpdateTickets(I, change) ==
    /\ Free /\ May("edits") /\ Spend("edits")
    /\ list' = [list EXCEPT !.tickets =
                   [i \in DOMAIN @ |-> IF i \in I THEN Applied(@[i], change) ELSE @[i]]]
    /\ UNCHANGED <<site, audit, sampled, job, day, offsite, torn>>

\* The least number no ticket of the file has.
NextOffsite(l) ==
    LET used == {l.tickets[i].id : i \in DOMAIN l.tickets}
    IN <<"M", CHOOSE n \in 1 .. Len(l.tickets) + 1 :
                <<"M", n>> \notin used /\ \A m \in 1 .. n - 1 : <<"M", m>> \in used>>

CreateOffsite ==
    /\ Free /\ May("offsite") /\ Spend("offsite")
    /\ LET now == NormalizedList(list)
       IN /\ list' = [now EXCEPT !.tickets =
                         Append(@, NewTicket(NextOffsite(now), "offsite", FALSE))]
          /\ offsite' = offsite \cup {NextOffsite(now)}
    /\ UNCHANGED <<site, audit, sampled, job, day, torn>>

MayBind(i) == list.tickets[i].effect.state \in {"draft", "inconclusive"}

\* There are always target questions; the control questions may be taken away.
UpdateExperiment(i, bound) ==
    /\ Free /\ MayBind(i) /\ May("binds") /\ Spend("binds")
    /\ list' = [list EXCEPT !.tickets[i].effect.bound = bound]
    /\ UNCHANGED <<site, audit, sampled, job, day, offsite, torn>>

EvaluateNow ==
    /\ Free /\ \E i \in DOMAIN list.tickets : Judged(list.tickets[i].effect)
    /\ list' \in Evaluations
    /\ UNCHANGED <<site, audit, sampled, job, day, left, offsite, torn>>

ChangeSite ==
    /\ May("changes") /\ Spend("changes")
    /\ site' \in Site \ {site}
    /\ UNCHANGED <<audit, sampled, list, job, day, offsite, torn>>

DayPasses ==
    /\ May("days") /\ Spend("days")
    /\ day' = day + 1
    /\ UNCHANGED <<site, audit, sampled, list, job, offsite, torn>>

TicketsNext ==
    \/ \E script \in Jobs : Begin(script)
    \/ Crawl \/ Sample \/ BuildTickets \/ ScopeTickets \/ PutBackManual \/ PutBackWorkflow
    \/ VerifyTickets \/ RecordVerification \/ EvaluateEffects
    \/ RestoreTickets \/ NormalizeProject
    \/ JobFails \/ JobDies
    \/ \E I \in SUBSET DOMAIN list.tickets, change \in Changes :
          Cardinality(I) \in 1 .. 2 /\ UpdateTickets(I, change)
    \/ \E i \in DOMAIN list.tickets, bound \in BOOLEAN : UpdateExperiment(i, bound)
    \/ CreateOffsite \/ EvaluateNow
    \/ ChangeSite \/ DayPasses

TicketsSpec == TicketsInit /\ [][TicketsNext]_ticketVars

-----------------------------------------------------------------------------
(* Properties                                                              *)

\* The variables keep to their values.
TicketsTypeOK ==
    /\ site \in Site /\ audit \in Site
    /\ \A i \in DOMAIN sampled : sampled[i] \in Quality
    /\ \A part \in {"tickets", "excluded", "deferred"} :
           \A i \in DOMAIN list[part] : list[part][i] \in Ticket
    /\ \E script \in Jobs :
           job.steps \in {SubSeq(script, n, Len(script)) : n \in 1 .. Len(script) + 1}
    /\ day \in Nat /\ left \in [Bounded -> Nat]
    /\ offsite \subseteq Id /\ torn \in BOOLEAN

OffsiteIds == {list.tickets[i].id : i \in {j \in DOMAIN list.tickets : IsManual(list.tickets[j])}}

\* An offsite ticket somebody wrote is in the list whenever no job runs, and
\* no two share a number: it survives every rebuild, failed ones included,
\* unless a job was killed between a build and its merge (api/adapters/
\* workspace.py, preserve_manual_tickets).
OffsiteSurvives ==
    Free /\ ~torn =>
        /\ OffsiteIds = offsite
        /\ Cardinality({i \in DOMAIN list.tickets : IsManual(list.tickets[i])})
             = Cardinality(offsite)

\* A job that rebuilds the list ends with the status and the owner people
\* gave a ticket that is still there under its id and title, whatever the
\* site, the samples and the other tickets did meanwhile (_merge_ticket_workflow).
WorkIsKept ==
    [][RestoreTickets =>
        \A i \in DOMAIN job.workflow, j \in DOMAIN list'.tickets :
            LET was == job.workflow[i]
                is  == list'.tickets[j]
            IN was.id = is.id /\ was.title = is.title =>
                 was.status = is.status /\ was.owner = is.owner /\ is.custom]_ticketVars

\* Once an experiment runs, its questions and its baseline are those it
\* started with; it is judged after its window and by a later run than its
\* baseline; and a verdict other than "inconclusive" is final
\* (api/analytics/experiments.py, ticket_workflow.py). Tickets that scoping
\* generates are made anew each time, with their experiments.
ExperimentsComparable ==
    [][\A i \in DOMAIN list.tickets, j \in DOMAIN list'.tickets :
        LET was == list.tickets[i]
            is  == list'.tickets[j]
        IN was.id = is.id /\ was.title = is.title /\ ~was.generated
             /\ was.effect.state # "draft" =>
             /\ is.effect.baseline = was.effect.baseline
             /\ was.effect.state \in {"deployed", "observing"} =>
                  is.effect.bound = was.effect.bound
             /\ was.effect.state \in {"effective", "ineffective"} => is.effect = was.effect
             /\ is.effect.state # was.effect.state /\ is.effect.state # "observing" =>
                  /\ day >= was.effect.ends
                  /\ Latest > was.effect.baseline]_ticketVars

\* What people and measurements have put into the ticket list outlasts the jobs
\* that make it anew: whole tickets, work on them, and experiments.
RemediationLasts == []OffsiteSurvives /\ WorkIsKept /\ ExperimentsComparable
=============================================================================
