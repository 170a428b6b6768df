------------------------------- MODULE Sampling ------------------------------
(***************************************************************************)
(* Asking AI engines a project's questions, and the evidence a delivery    *)
(* rests on (engine/scripts/sample.py, api/adapters/measurement.py,        *)
(* global_scope.py, brand_identity.py, api/worker/worker_sampling.py,      *)
(* worker_pipeline.py, worker_funding.py).                                 *)
(*                                                                         *)
(* A job holds the project lock to its end. It asks each engine its own    *)
(* queue of questions, appends every answer to the run's sample file,      *)
(* writes the run's metrics and attaches to them how they were taken. A    *)
(* delivery first asks what the latest answers lack, and is refused while  *)
(* evidence is missing. What an answer says is left out.                   *)
(***************************************************************************)
EXTENDS Naturals, Sequences, FiniteSets, SequencesExt

CONSTANTS
    Engines,    \* codes of the engines: built-in ones and custom providers
    Profile,    \* what is known of each
    Questions,  \* ids of the questions
    Texts,      \* bound: the versions of a question's text
    Repeat,     \* bound: rounds of a run, and answers each question needs
    Scenes      \* what each behaviour may do: see Scene

Market == {"cn", "global", "both"}
Protocol == {"chat", "ark", "anthropic", "gemini", "openai", "grok"}
Mode == {"api", "search", "manual"}
Bounded == {"jobs", "edits", "funds", "troubles", "deaths", "imports"}

Scene == [left     : [Bounded -> Nat],  \* bound: how often each may happen
          market   : Market,            \* the project's
          asks     : [Questions -> Market],
          platforms: SUBSET Engines,
          funds    : [Engines -> {"none", "byok", "pool"}],
          kinds    : SUBSET {"sample", "serve", "deliver"}]

ASSUME SamplingAssumption ==
    /\ Questions \subseteq Nat \ {0} /\ IsFiniteSet(Questions)
    /\ Texts \in Nat \ {0} /\ Repeat \in Nat \ {0}
    /\ Profile \in [Engines -> [market   : Market,
                                protocol : Protocol,
                                search   : BOOLEAN, \* configured to search
                                dual     : BOOLEAN, \* DUAL_MARKET_PROVIDERS
                                custom   : BOOLEAN]]
    /\ Scenes \subseteq Scene

VARIABLES
    config,   \* geo.json: market, questions and platforms
    fund,     \* who pays for each engine, if anyone
    files,    \* samples/*.jsonl, oldest first
    metrics,  \* metrics/*.json, oldest first
    job,      \* the job that holds the project lock
    jobsRun,   \* how many jobs there were
    edit,     \* the edit that is saved and not yet normalised
    outcome,  \* history: how the last job ended
    remaining,   \* what may still happen
    kinds     \* the jobs of this behaviour

samplingVars ==
    <<config, fund, files, metrics, job, jobsRun, edit, outcome, remaining, kinds>>

-----------------------------------------------------------------------------
(* Questions, engines and answers.                                         *)

\* Text 0: there is no such question.
Question == [text : 0 .. Texts, market : Market]
Asked(c) == {q \in Questions : c.questions[q].text # 0}

\* The version of a question set stands for the questions themselves. A row is
\* tagged with none, with the version it belongs to, or as of an older one.
Version(c) == c.questions
Untagged == {}
Legacy == {<<>>}

Row == [q : Questions, text : 1 .. Texts, run : Nat, round : 1 .. Repeat,
        ok : BOOLEAN, mode : Mode, market : Market]

Metrics == [run      : Nat,
            cohort   : [questions : [Questions -> Question], engines : SUBSET Engines,
                        source : {"api", "api_gap_fill", "manual"}],
            codes    : SUBSET Engines,      \* engines with a successful answer
            prov     : SUBSET [engine : Engines, mode : Mode,
                               source : {"byok", "platform_pool", "unavailable"}],
            by       : Nat]                 \* the job that last wrote the file

Free == [kind |-> "none", step |-> "none", platforms |-> {}, ids |-> {}, run |-> 0,
         queue |-> [e \in Engines |-> <<>>], result |-> "none", soon |-> FALSE,
         targets |-> {}]

MatchesMarket(provider, project) ==
    project = "both" \/ provider \in {"both", project}

\* The questions an engine is asked, narrowed to ids unless ids is empty.
QuestionsFor(c, e, ids) ==
    LET of == Profile[e].market
        Selected == {q \in Asked(c) : ids = {} \/ q \in ids}
        Matched == {q \in Selected : c.questions[q].market \in {"both", of}}
    IN IF of = "both" THEN Selected
       ELSE IF Matched # {} \/ ~Profile[e].dual THEN Matched
       ELSE Selected

\* What asking an engine may come back with. A fatal failure (401, 402, 403)
\* ends the engine's queue.
Answer == [ok : BOOLEAN, mode : Mode, fatal : BOOLEAN]
Succeeds(mode) == [ok |-> TRUE, mode |-> mode, fatal |-> FALSE]
Fails == {[ok |-> FALSE, mode |-> "api", fatal |-> f] : f \in BOOLEAN}

\* Retries are left out: they end in one of these.
AskChat(mode) == {Succeeds(mode)} \cup Fails

\* The Responses call searched, did not, failed; or it gives way to chat.
AskResponses == {Succeeds("search"), Succeeds("api")} \cup Fails
WithFallback(fallback) == AskResponses \cup fallback

AskArk == WithFallback(AskChat("api"))
AskOpenAI(search) == IF search THEN WithFallback(AskChat("api")) ELSE AskChat("api")
AskGrok(search) ==
    IF search THEN WithFallback({Succeeds("search"), Succeeds("api")} \cup AskChat("api"))
    ELSE AskChat("api")
AskGemini(search) ==
    IF search THEN {Succeeds("search")} \cup AskChat("api") ELSE AskChat("api")
\* With the search tool an answer may come without a search; without the tool
\* the last error stands.
AskAnthropic(search) ==
    IF search THEN {Succeeds("search"), Succeeds("api")} \cup AskChat("api") ELSE AskChat("api")

Ask(e) ==
    LET search == Profile[e].search
    IN CASE Profile[e].protocol = "ark" -> AskArk
         [] Profile[e].protocol = "anthropic" -> AskAnthropic(search)
         [] Profile[e].protocol = "gemini" -> AskGemini(search)
         [] Profile[e].protocol = "openai" -> AskOpenAI(search)
         [] Profile[e].protocol = "grok" -> AskGrok(search)
         [] OTHER -> AskChat(IF search THEN "search" ELSE "api")

ConfiguredMode(e) == IF Profile[e].search THEN "search" ELSE "api"

Run(rows) == UNION {ToSet(rows[e]) : e \in Engines}
NoRows == [e \in Engines |-> <<>>]

\* Counter.most_common: of modes seen equally often, the one seen first.
MostCommon(rows) ==
    LET Count(m) == Len(SelectSeq(rows, LAMBDA r : r.mode = m))
        best == CHOOSE n \in 1 .. Len(rows) :
                    /\ \A m \in Mode : Count(m) <= Count(rows[n].mode)
                    /\ \A k \in 1 .. n - 1 : Count(rows[k].mode) < Count(rows[n].mode)
    IN rows[best].mode

-----------------------------------------------------------------------------
(* Which answers count today.                                              *)

CurrentQuestion(row, c) == c.questions[row.q].text = row.text
IsCurrent(row, c) == CurrentQuestion(row, c) /\ row.tag \in {Untagged, {Version(c)}}

IsGlobal(row, c) == c.market = "both" \/ row.market \in {"both", c.market}

CountedRows(rows, c) ==
    [e \in Engines |->
        SelectSeq(rows[e], LAMBDA r : IsGlobal(r, c) /\ IsCurrent(r, c))]

LatestRows == IF files = <<>> THEN NoRows ELSE files[Len(files)].rows
FileOf(run) == {files[i].rows : i \in {j \in DOMAIN files : files[j].run = run}}

-----------------------------------------------------------------------------
(* What a delivery needs: measurement.delivery_question_evidence.          *)

CanSample(e, c) ==
    \/ Asked(c) = {} \/ Profile[e].market = "both"
    \/ \E q \in Asked(c) : c.questions[q].market \in {"both", Profile[e].market}

Active(c) ==
    {e \in c.platforms : /\ fund[e] # "none"
                         /\ MatchesMarket(Profile[e].market, c.market)
                         /\ CanSample(e, c)}

Succeeded(rows) == SelectSeq(rows, LAMBDA r : r.ok)

\* The mode the answers came in, once there are any.
ActualMode(e, rows) ==
    LET ok == Succeeded(rows[e]) IN IF ok = <<>> THEN ConfiguredMode(e) ELSE MostCommon(ok)

Samples(q, e, rows) ==
    Len(SelectSeq(Succeeded(rows[e]), LAMBDA r : r.q = q /\ r.mode = ActualMode(e, rows)))

Enough(q, e, rows) == Samples(q, e, rows) >= Repeat

Applicable(q, e, c) ==
    c.questions[q].market = "both" \/ Profile[e].market \in {"both", c.questions[q].market}

Gaps(c, rows) ==
    {q \in Asked(c) : \E e \in Active(c) : Applicable(q, e, c) /\ ~Enough(q, e, rows)}

Paid == {"byok", "platform_pool"}

\* The engines, modes and sources attached to the latest metrics differ.
CohortChanged(c, rows) ==
    LET prov == IF metrics = <<>> THEN {} ELSE metrics[Len(metrics)].prov
        Previous == {<<p.engine, p.mode>> : p \in {x \in prov : x.source \in Paid}}
    IN Previous # {} /\ Previous # {<<e, ActualMode(e, rows)>> : e \in Active(c)}

Targets(c, rows) ==
    LET all == IF CohortChanged(c, rows) THEN Asked(c) ELSE Gaps(c, rows)
        of == {Profile[e].market : e \in Active(c)}
    IN {q \in all : "both" \in of \/ c.questions[q].market \in of \cup {"both"}}

\* Only answers to today's questions count.
DeliveryRows(c) == CountedRows(LatestRows, c)

NeedsSampling(c) ==
    Active(c) # {} /\ Targets(c, DeliveryRows(c)) # {}
DeliveryReady(c) ==
    /\ Active(c) # {}
    /\ Gaps(c, DeliveryRows(c)) = {}
    /\ ~CohortChanged(c, DeliveryRows(c))

-----------------------------------------------------------------------------
(* Normalising: rows are told apart anew, metrics recomputed from them.    *)

Retagged(row, c) ==
    [row EXCEPT !.tag = IF CurrentQuestion(row, c) THEN {Version(c)} ELSE Legacy]

Reanalyzed(fs, c) ==
    [i \in DOMAIN fs |->
        [fs[i] EXCEPT !.rows = [e \in Engines |->
            [n \in DOMAIN @[e] |-> Retagged(@[e][n], c)]]]]

Answered(rows) == {e \in Engines : Succeeded(rows[e]) # <<>>}

\* Metrics whose run has no answer left that counts stay, but for the latest.
Renewed(ms, fs, c, by) ==
    [i \in DOMAIN ms |->
        LET of == {fs[k].rows : k \in {j \in DOMAIN fs : fs[j].run = ms[i].run}}
            rows == CountedRows(CHOOSE r \in of : TRUE, c)
            new == [ms[i] EXCEPT !.codes = Answered(rows), !.version = {Version(c)}]
        IN IF of # {} /\ (Run(rows) # {} \/ i = Len(ms)) /\ new # ms[i]
           THEN [new EXCEPT !.by = by] ELSE ms[i]]

NormalizeProject(c, by) ==
    LET fs == Reanalyzed(files, c)
    IN files' = fs /\ metrics' = Renewed(metrics, fs, c, by)

-----------------------------------------------------------------------------
(* Jobs.                                                                   *)

May(event) == remaining[event] > 0
Spend(event) == remaining' = [remaining EXCEPT ![event] = @ - 1]

SamplingInit ==
    \E s \in Scenes :
        /\ config = [market |-> s.market, platforms |-> s.platforms,
                     questions |-> [q \in Questions |-> [text |-> 1, market |-> s.asks[q]]]]
        /\ fund = s.funds /\ remaining = s.left /\ kinds = s.kinds
        /\ files = <<>> /\ metrics = <<>>
        /\ job = Free /\ jobsRun = 0
        /\ edit = FALSE /\ outcome = "none"

\* The platform pool pays for every job but a manual sampling.
Funded(kind) == {e \in Engines : fund[e] = "byok" \/ (fund[e] = "pool" /\ kind # "sample")}

\* The project takes on every engine that is paid for and custom providers,
\* and drops the custom providers that are gone.
Synced(c, funded) ==
    [c EXCEPT !.platforms =
        {e \in @ : Profile[e].custom => fund[e] # "none"}
            \cup {e \in Engines :
                    IF Profile[e].custom THEN fund[e] # "none"
                    ELSE e \in funded /\ MatchesMarket(Profile[e].market, c.market)}]

\* resolve_job_funding: the project is normalised, then its engines synced.
ResolveJobFunding(kind, by) ==
    /\ NormalizeProject(config, by)
    /\ config' = Synced(config, Funded(kind))

\* An explicit choice must be paid for and of the project's market.
MayRequest(platforms) ==
    /\ platforms \subseteq Funded("sample")
    /\ \A e \in platforms :
        Profile[e].custom \/ MatchesMarket(Profile[e].market, config.market)

Begin(kind, platforms, ids) ==
    /\ job = Free /\ May("jobs") /\ kind \in kinds
    /\ kind # "sample" => platforms = {} /\ ids = {}
    /\ kind = "sample" => MayRequest(platforms)
    /\ ResolveJobFunding(kind, jobsRun + 1)
    /\ \E soon \in BOOLEAN :  \* within 5 s of the last write to the metrics
        job' = [Free EXCEPT !.kind = kind, !.platforms = platforms, !.ids = ids,
                            !.soon = soon,
                            !.step = IF kind = "deliver" THEN "check" ELSE "start"]
    /\ jobsRun' = jobsRun + 1 /\ outcome' = "none"
    /\ Spend("jobs")
    /\ UNCHANGED <<fund, edit, kinds>>

End(result) == job' = Free /\ outcome' = result

\* Engines the run asks: chosen or configured, paid for, with questions.
Runnable ==
    {e \in (IF job.platforms = {} THEN config.platforms ELSE job.platforms) \cap Funded(job.kind) :
        QuestionsFor(config, e, job.ids) # {}}

QueueOf(e) ==
    LET asked == SetToSortSeq(QuestionsFor(config, e, job.ids), <)
    IN [n \in 1 .. Len(asked) * Repeat |->
            <<asked[((n - 1) \div Repeat) + 1], ((n - 1) % Repeat) + 1>>]

\* A plausible bug: a run for chosen questions starts an empty file.
NoPriorRows == NoRows

\* A run for chosen questions keeps the other answers of the latest file.
PriorRows ==
    IF job.ids = {} THEN NoRows
    ELSE [e \in Engines |->
            SelectSeq(LatestRows[e], LAMBDA r : ~(r.q \in job.ids /\ e \in Runnable))]

StartRun ==
    /\ job.step = "start"
    /\ IF Runnable = {}
       THEN /\ job' = [job EXCEPT !.result = "empty",
                                  !.step = IF job.kind = "serve" THEN "settle" ELSE "conclude"]
            /\ UNCHANGED files
       ELSE /\ files' = Append(files, [run |-> Len(files) + 1, rows |-> PriorRows])
            /\ job' = [job EXCEPT !.step = "ask", !.run = Len(files) + 1,
                          !.queue = [e \in Engines |-> IF e \in Runnable THEN QueueOf(e) ELSE <<>>],
                          !.targets = Runnable \cup {e \in Engines : PriorRows[e] # <<>>}]
    /\ UNCHANGED <<config, fund, metrics, jobsRun, edit, outcome, remaining, kinds>>

AskNext(e) ==
    /\ job.step = "ask" /\ job.queue[e] # <<>>
    /\ \E a \in Ask(e) :
        LET next == Head(job.queue[e])
            row == [q |-> next[1], round |-> next[2], run |-> job.run,
                    text |-> config.questions[next[1]].text,
                    market |-> config.questions[next[1]].market,
                    ok |-> a.ok, mode |-> a.mode, tag |-> Untagged]
        IN /\ a # Succeeds(ConfiguredMode(e)) => May("troubles")
           /\ remaining' = [remaining EXCEPT !.troubles =
                            IF a = Succeeds(ConfiguredMode(e)) THEN @ ELSE @ - 1]
           /\ files' = [files EXCEPT ![Len(files)].rows[e] = Append(@, row)]
           /\ job' = [job EXCEPT !.queue[e] = IF a.fatal THEN <<>> ELSE Tail(@)]
    /\ UNCHANGED <<config, fund, metrics, jobsRun, edit, outcome, kinds>>

WriteMetrics ==
    /\ job.step = "ask" /\ \A e \in Engines : job.queue[e] = <<>>
    /\ metrics' = Append(metrics,
            [run |-> job.run, codes |-> Answered(LatestRows), prov |-> {}, version |-> {},
             cohort |-> [questions |-> Version(config), engines |-> job.targets,
                         source |-> IF job.ids = {} THEN "api" ELSE "api_gap_fill"],
             by |-> jobsRun])
    /\ job' = [job EXCEPT !.result = "metrics",
                          !.step = IF job.kind = "serve" THEN "settle" ELSE "conclude"]
    /\ UNCHANGED <<config, fund, files, jobsRun, edit, outcome, remaining, kinds>>

\* The service cycle swallows what sampling raises and goes on; it normalises
\* the project when the engine has finished. Elsewhere the job fails.
Break ==
    /\ job.step \in {"start", "ask"} /\ May("troubles")
    /\ IF job.kind = "serve"
       THEN job' = [job EXCEPT !.step = "settle"] /\ UNCHANGED outcome
       ELSE End(IF job.kind = "serving" THEN "done" ELSE "failed")
    /\ Spend("troubles")
    /\ UNCHANGED <<config, fund, files, metrics, jobsRun, edit, kinds>>

SettleProject ==
    /\ job.step = "settle"
    /\ NormalizeProject(config, jobsRun)
    /\ job' = [job EXCEPT !.step = "conclude"]
    /\ UNCHANGED <<config, fund, jobsRun, edit, outcome, remaining, kinds>>

WrittenSince == metrics # <<>> /\ (metrics[Len(metrics)].by = jobsRun \/ job.soon)

\* The rows of a run in its own file, without those it took over.
SamplingRows(run) == {r \in UNION {Run(rows) : rows \in FileOf(run)} : r.run = run}

SomeSucceeded(run) ==
    IF SamplingRows(run) # {} THEN \E r \in SamplingRows(run) : r.ok
    ELSE \E rows \in FileOf(run) : Answered(rows) # {}

\* A service cycle is judged by the latest metrics, the others by their own.
SamplingSucceeded ==
    IF job.kind = "serve" THEN WrittenSince /\ SomeSucceeded(metrics[Len(metrics)].run)
    ELSE job.result = "metrics" /\ SomeSucceeded(job.run)

\* What is attached to the latest metrics. Custom providers are not known to
\* the process that writes it.
Provenance(requested, funded) ==
    {[engine |-> e, mode |-> ActualMode(e, LatestRows),
      source |-> IF e \notin funded THEN "unavailable"
                 ELSE IF fund[e] = "byok" THEN "byok" ELSE "platform_pool"] :
        e \in {x \in requested : ~Profile[x].custom}}

RecordSampling(requested, funded, by) ==
    metrics' = [metrics EXCEPT ![Len(metrics)].prov = Provenance(requested, funded),
                               ![Len(metrics)].version = {Version(config)},
                               ![Len(metrics)].by = by]

Conclude ==
    /\ job.step = "conclude"
    /\ IF SamplingSucceeded
       THEN /\ RecordSampling(IF job.platforms = {} THEN config.platforms ELSE job.platforms,
                              Funded(job.kind), jobsRun)
            /\ job' = [job EXCEPT !.step = "after"]
            /\ UNCHANGED outcome
       ELSE End(IF job.kind = "serving" THEN "done" ELSE "failed") /\ UNCHANGED metrics
    /\ UNCHANGED <<config, fund, files, jobsRun, edit, remaining, kinds>>

After ==
    /\ job.step = "after"
    /\ IF job.kind = "serve"
       THEN /\ ResolveJobFunding("serving", jobsRun)
            /\ job' = [job EXCEPT !.step = "check", !.kind = "serving"] /\ UNCHANGED outcome
       ELSE /\ NormalizeProject(config, jobsRun)
            /\ IF job.kind = "sample" THEN End("done")
               ELSE job' = [job EXCEPT !.step = "gate"] /\ UNCHANGED outcome
            /\ UNCHANGED config
    /\ UNCHANGED <<fund, jobsRun, edit, remaining, kinds>>

-----------------------------------------------------------------------------
(* Deliveries.                                                             *)

\* Without an engine to measure, a delivery is diagnostic only.
Check ==
    /\ job.step = "check"
    /\ \/ Active(config) = {} /\ End("diagnostic")
       \/ /\ NeedsSampling(config)
          /\ job' = [job EXCEPT !.step = "start", !.platforms = Active(config),
                                !.ids = Targets(config, DeliveryRows(config)),
                                !.run = 0, !.result = "none"]
          /\ UNCHANGED outcome
       \/ /\ Active(config) # {} /\ ~NeedsSampling(config)
          /\ job' = [job EXCEPT !.step = "gate", !.run = 0] /\ UNCHANGED outcome
    /\ UNCHANGED <<config, fund, files, metrics, jobsRun, edit, remaining, kinds>>

Gate ==
    /\ job.step = "gate"
    /\ End(IF DeliveryReady(config) THEN "delivered"
           ELSE IF job.kind = "serving" THEN "done" ELSE "failed")
    /\ UNCHANGED <<config, fund, files, metrics, jobsRun, edit, remaining, kinds>>

Die ==
    /\ job # Free /\ May("deaths")
    /\ End("failed") /\ Spend("deaths")
    /\ UNCHANGED <<config, fund, files, metrics, jobsRun, edit, kinds>>

-----------------------------------------------------------------------------
(* People.                                                                 *)

\* An edit is saved under the project lock and normalised after it: a job may
\* begin in between, and so may the server's end.
UpdateConfig(q, text, market) ==
    /\ job = Free /\ May("edits")
    /\ text # config.questions[q].text \/ market # config.questions[q].market
    /\ config' = [config EXCEPT !.questions[q] = [text |-> text, market |-> market]]
    /\ edit' = TRUE
    /\ Spend("edits")
    /\ UNCHANGED <<fund, files, metrics, job, jobsRun, outcome, kinds>>

NormalizeEdit ==
    /\ edit /\ job = Free
    /\ NormalizeProject(config, 0)
    /\ edit' = FALSE
    /\ UNCHANGED <<config, fund, job, jobsRun, outcome, remaining, kinds>>

LoseEdit ==
    /\ edit /\ May("deaths")
    /\ edit' = FALSE /\ Spend("deaths")
    /\ UNCHANGED <<config, fund, files, metrics, job, jobsRun, outcome, kinds>>

PutKey(e, source) ==
    /\ job = Free /\ May("funds") /\ source # fund[e]
    /\ Profile[e].custom => source # "pool"
    /\ fund' = [fund EXCEPT ![e] = source]
    /\ Spend("funds")
    /\ UNCHANGED <<config, files, metrics, job, jobsRun, edit, outcome, kinds>>

\* A sheet of answers that people got from the product itself: the latest
\* file and metrics from then on.
SampleImport(e, qs) ==
    /\ job = Free /\ May("imports") /\ ~Profile[e].custom
    /\ qs # {} /\ qs \subseteq Asked(config)
    /\ LET ids == SetToSortSeq(qs, <)
           row(n) == [q |-> ids[n], round |-> 1, run |-> Len(files) + 1,
                      text |-> config.questions[ids[n]].text, market |-> Profile[e].market,
                      ok |-> TRUE, mode |-> "manual", tag |-> Untagged]
       IN files' = Append(files, [run |-> Len(files) + 1,
                    rows |-> [NoRows EXCEPT ![e] = [n \in DOMAIN ids |-> row(n)]]])
    /\ metrics' = Append(metrics,
            [run |-> Len(files) + 1, codes |-> {e}, version |-> {Version(config)}, by |-> 0,
             cohort |-> [questions |-> Version(config), engines |-> {e}, source |-> "manual"],
             prov |-> {[engine |-> e, mode |-> "manual", source |-> "unavailable"]}])
    /\ edit' = TRUE
    /\ Spend("imports")
    /\ UNCHANGED <<config, fund, job, jobsRun, outcome, kinds>>

SamplingNext ==
    \/ \E kind \in kinds, platforms \in SUBSET Engines, ids \in SUBSET Questions :
            Begin(kind, platforms, ids)
    \/ StartRun \/ WriteMetrics \/ Break \/ SettleProject \/ Conclude \/ After
    \/ \E e \in Engines : AskNext(e)
    \/ Check \/ Gate \/ Die
    \/ \E q \in Questions, text \in 0 .. Texts, market \in Market : UpdateConfig(q, text, market)
    \/ NormalizeEdit \/ LoseEdit
    \/ \E e \in Engines, source \in {"none", "byok", "pool"} : PutKey(e, source)
    \/ \E e \in Engines, qs \in SUBSET Questions : SampleImport(e, qs)

-----------------------------------------------------------------------------
(* Properties.                                                             *)

\* Everything keeps to its values: rows to what an engine may have answered,
\* tags to versions, the job to its steps.
SamplingTypeOK ==
    /\ config.market \in Market /\ config.platforms \subseteq Engines
    /\ config.questions \in [Questions -> Question]
    /\ fund \in [Engines -> {"none", "byok", "pool"}]
    /\ \A i \in DOMAIN files : \A e \in Engines : \A n \in DOMAIN files[i].rows[e] :
        LET r == files[i].rows[e][n]
        IN /\ [f \in DOMAIN r \ {"tag"} |-> r[f]] \in Row
           /\ r.run <= files[i].run
           /\ r.mode \in {"manual"} \cup {a.mode : a \in Ask(e)}
    /\ \A i \in DOMAIN metrics :
        [f \in DOMAIN metrics[i] \ {"version"} |-> metrics[i][f]] \in Metrics
    /\ job.step \in {"none", "start", "ask", "settle", "conclude", "after", "check", "gate"}
    /\ job.kind \in {"none", "sample", "serve", "serving", "deliver"}
    /\ edit \in BOOLEAN /\ remaining \in [Bounded -> Nat]

\* The answers to today's wording of a question that the latest file holds, by
\* engine and mode.
Evidence(q, e, mode) ==
    {n \in DOMAIN LatestRows[e] :
        LET r == LatestRows[e][n]
        IN r.q = q /\ r.ok /\ r.text = config.questions[q].text /\ r.mode = mode}

\* A delivery that passes the gate rests on evidence: every engine that is
\* paid for has, in one mode for all questions, enough answers to today's
\* wording of each question of its market (_prepare_delivery_measurement,
\* delivery_question_evidence).
ReadyHasEvidence ==
    [][job.step = "gate" /\ outcome' = "delivered" =>
        \A e \in Active(config) : \E mode \in Mode : \A q \in Asked(config) :
            Applicable(q, e, config) => Cardinality(Evidence(q, e, mode)) >= Repeat]_samplingVars

\* A sampling, or the gap sampling of a delivery, is not concluded on the
\* answers of an earlier run: one of its own succeeded
\* (_require_sampling_output).
SampleNeedsAnswers ==
    [][job.step = "conclude" /\ job'.step = "after" /\ job.kind # "serve" =>
        \E r \in UNION {Run(rows) : rows \in FileOf(job.run)} :
            r.run = job.run /\ r.ok]_samplingVars

\* No answer was missed and none came in another mode than before.
Flawless ==
    /\ \A r \in Run(LatestRows) : r.ok
    /\ \A e \in Engines : \A n \in DOMAIN LatestRows[e] : LatestRows[e][n].mode = ConfiguredMode(e)

NoCustom == \A e \in config.platforms : ~Profile[e].custom

\* A delivery of the built-in engines that sampled its gaps, and got every answer,
\* is ready: it is not refused for evidence that it has
\* (_prepare_delivery_measurement "fills the cohorts that are active and paid for").
FilledBuiltinIsReady ==
    [][job.step = "gate" /\ remaining' = remaining /\ job.run # 0 /\ Flawless /\ NoCustom =>
        outcome' = "delivered"]_samplingVars

\* A verdict on a project - a delivery passed, a sampling concluded, a delivery
\* refused - agrees with the answers that were collected for it.
VerdictsMatchEvidence == ReadyHasEvidence /\ SampleNeedsAnswers /\ FilledBuiltinIsReady
=============================================================================
