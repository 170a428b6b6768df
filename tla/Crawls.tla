------------------------------ MODULE Crawls ------------------------------
(***************************************************************************)
(* The crawl of a project's site and what becomes of its evidence.         *)
(*                                                                         *)
(* engine/scripts/crawl.py fetches the candidates and writes site.json,    *)
(* then pages.jsonl.  The worker wraps it (api/worker/job_runner.py):      *)
(* site_signals checks /llms.txt and /sitemap.xml again and writes         *)
(* site.json once more; a bootstrap or pipeline job (an autopilot) keeps   *)
(* a copy of the evidence and, when the crawl fails or shows no text,      *)
(* recovers text, or puts the copy back, or falls back to the project's    *)
(* identity (workspace.py, resilient_crawl_evidence); every job folds      *)
(* equivalent pages.  The engine's audit then reads pages.jsonl, and the   *)
(* product shows audit.json and the evidence together.                     *)
(*                                                                         *)
(* Any of these steps may be the last of a job that is killed.  A site is  *)
(* a member of Webs; it may change at any time, and the owner may give the *)
(* project another domain while no job runs.                               *)
(***************************************************************************)
EXTENDS PageAudit

CONSTANTS
    Webs,         \* the sites a project may meet: see WebsAssumption
    Order,        \* the URLs in the order of crawl.py's rank, the home page first
    CrawlBudgets  \* bound: how often each kind of event happens, a choice of Init

CrawlEvent == {"crawl", "fail", "kill", "audit", "change", "move"}

URLs == DOMAIN Traits
Root == Head(Order)

\* What a response shows of a page.
PageParts == {"status", "main", "body", "canonical", "noindex", "h1", "h2", "paras", "links",
              "lists", "date", "relevant", "blocks", "types", "title", "heads"}

\* pages: the page at a URL (main: the text in its main element, body: in its
\* whole body); atRoot, declared: the URLs in /sitemap.xml and in the sitemaps
\* robots.txt names; linked: those on the home page; llms: what /llms.txt
\* answers; robots: the groups of robots.txt; maximum, both:
\* what the project sets for this site (its page limit, both markets).
WebsAssumption ==
    /\ Order \in Seq(URLs) /\ Range(Order) = URLs
    /\ \A w \in Webs : /\ DOMAIN w.pages = URLs /\ w.maximum \in Nat
                       /\ w.atRoot \cup w.declared \subseteq URLs /\ w.linked \subseteq URLs
    /\ \A w \in Webs, u \in URLs :
          LET p == w.pages[u] IN
          /\ PageParts \subseteq DOMAIN p
          /\ {p.main, p.body} \subseteq DOMAIN WordCount
          /\ {p.status, p.h1, p.h2, p.paras, p.links} \subseteq Nat
          /\ {p.noindex, p.lists, p.date, p.relevant} \subseteq BOOLEAN
    /\ CrawlBudgets \subseteq [CrawlEvent -> Nat]
ASSUME WebsAssumption

VARIABLES
    web,      \* the site as it is now
    domain,   \* brand.site of geo.json
    ev,       \* evidence/pages.jsonl, a sequence of pages
    sj,       \* evidence/site.json, or NoSite
    rows,     \* the rows of audit.json
    run,      \* the crawl in progress, or NoRun
    serial,   \* the number of crawls begun
    hurt,     \* a job was killed during a crawl: history
    may       \* the events left

crawlVars == <<web, domain, ev, sj, rows, run, serial, hurt, may>>

NoSite == [root |-> 0]
NoRun  == [pc |-> "idle"]

Can(e) == may[e] > 0
Once(e) == may' = [may EXCEPT ![e] = @ - 1]

---------------------------------------------------------------------------
(* crawl.py: which pages *)

\* robots_disallows: of the groups naming the bot most specifically, the longest
\* rule that matches decides, and an allow wins a tie.  A rule is the length of
\* its pattern, the URLs it matches, and whether it allows.
Disallows(robots, bot, u) ==
    LET about(g) == IF bot \in g.agents THEN 2 ELSE IF "*" \in g.agents THEN 1 ELSE 0
        best     == Max({about(g) : g \in robots} \cup {0})
        rules    == UNION {g.rules : g \in {h \in robots : about(h) = best}}
        hits     == {r \in rules : u \in r.urls}
        longest  == {r \in hits : \A q \in hits : r.length >= q.length}
    IN  best > 0 /\ hits # {} /\ \A r \in longest : ~r.allow

\* auto_page_limit, resolve_page_limit: the project's own limit, unless it is the
\* 25 every project once got; otherwise a small site is crawled whole, a large one up to a quota.
PageLimit(configured, count) ==
    IF configured \notin {0, 25} THEN configured
    ELSE IF count = 0 THEN 25
    ELSE IF count <= 40 THEN count
    ELSE IF count <= 150 THEN 60
    ELSE IF count <= 500 THEN 100 ELSE 120

\* discover_sitemap: every sitemap the site declares is read.
ListedUrls == web.atRoot \cup web.declared

\* discover_links: the links of a home page that may be fetched and answers.
Linked ==
    IF Disallows(web.robots, "CiteAuraEngine", Root) \/ web.pages[Root].status = 0
    THEN {} ELSE web.linked

\* rank.
Ranked(urls) ==
    FoldLeft(LAMBDA seq, u : IF u = Root \/ u \in urls THEN Append(seq, u) ELSE seq, << >>, Order)

\* select_candidates: each role has a quota, each family of locales one page (two
\* in a project for both markets); a page its family kept out may still fill
\* what is left.
Pick(acc, u, limit, variants) ==
    LET cap   == CASE Traits[u].quota = "utility"   -> 1
                   [] Traits[u].quota = "support"   -> Max({2, limit \div 4})
                   [] Traits[u].quota = "editorial" -> Max({2, (limit * 3) \div 10})
                   [] OTHER                         -> limit
        alike(f) == Cardinality({i \in DOMAIN acc.in : Traits[acc.in[i]][f] = Traits[u][f]})
    IN  IF Len(acc.in) >= limit \/ alike("quota") >= cap THEN acc
        ELSE IF alike("family") >= variants THEN [acc EXCEPT !.out = Append(@, u)]
        ELSE [acc EXCEPT !.in = Append(@, u)]

Candidates(urls, limit, variants) ==
    LET done == FoldLeft(LAMBDA acc, u : Pick(acc, u, limit, variants),
                         [in |-> << >>, out |-> << >>], Ranked(urls))
        rest == limit - Len(done.in)
    IN  done.in \o SubSeq(done.out, 1, Min({rest, Len(done.out)}))

\* analyze_page: what a response shows; a blocked or failed one shows nothing.
AnalyzePage(u, live, n) ==
    LET blank == live.status = 0
    IN  [url |-> u, status |-> live.status, run |-> n, root |-> domain, aliases |-> {},
         text      |-> IF blank THEN Absent ELSE live.main,
         canonical |-> IF blank THEN Absent ELSE live.canonical,
         noindex   |-> ~blank /\ live.noindex,
         h1 |-> IF blank THEN 0 ELSE live.h1, h2 |-> IF blank THEN 0 ELSE live.h2,
         paras |-> IF blank THEN 0 ELSE live.paras, links |-> IF blank THEN 0 ELSE live.links,
         lists |-> ~blank /\ live.lists, date |-> ~blank /\ live.date,
         relevant  |-> ~blank /\ live.relevant,
         blocks |-> IF blank THEN {} ELSE live.blocks, types |-> IF blank THEN {} ELSE live.types,
         title |-> IF blank THEN {} ELSE live.title, heads |-> IF blank THEN {} ELSE live.heads]

\* _repair_static_page: the body's text, where the main element shows less.
Repaired(p, live) ==
    IF p.status = 200 /\ WordCount[p.text] < 120 /\ WordCount[live.body] > WordCount[p.text]
    THEN [p EXCEPT !.text = live.body] ELSE p

\* crawl_one: robots.txt is asked first; a redirect off the site is a failure.
CrawlOne(u, n) ==
    LET live == web.pages[u]
        shut == Disallows(web.robots, "CiteAuraEngine", u)
        seen == IF shut THEN [live EXCEPT !.status = 0] ELSE live
    IN  Repaired(AnalyzePage(u, seen, n), seen)

\* check_crawl_health: some page answered, and of five pages or more one fifth.
Healthy(pages) ==
    LET ok == Cardinality({i \in DOMAIN pages : pages[i].status = 200})
    IN  pages # << >> /\ ok > 0 /\ ~(Len(pages) >= 5 /\ 5 * ok < Len(pages))

---------------------------------------------------------------------------
(* workspace.py: an autopilot keeps the evidence that works *)

\* Is the evidence on disk of the site the project has now?
SameSite == sj = NoSite \/ sj.root = domain

Usable(pages) == \E i \in DOMAIN pages : UsablePage(pages[i])

\* _recover_snapshot_text: a page that answered without text gets the metadata's.
Recovered(pages) ==
    [i \in DOMAIN pages |->
        IF pages[i].status = 200 /\ ~HasText(pages[i]) /\ (pages[i].title \cup pages[i].heads) # {}
        THEN [pages[i] EXCEPT !.text = "meta"] ELSE pages[i]]

\* _create_identity_evidence: the first page that answered says who the brand is.
Identified(pages) ==
    LET first == Min({i \in DOMAIN pages : pages[i].status = 200})
    IN  [pages EXCEPT ![first].text = "identity"]

\* deduplicate_crawl_evidence: pages.jsonl, then the counts of site.json.
FoldedSite(pages, site) ==
    LET folded == Deduplicated(pages)
    IN  IF pages = << >> \/ site = NoSite THEN site
        ELSE [site EXCEPT !.crawled = Len(folded),
                          !.ok = Cardinality({i \in DOMAIN folded : folded[i].status = 200})]

Fold(pages, site) == ev' = Deduplicated(pages) /\ sj' = FoldedSite(pages, site)

\* A plausible bug: a crawl that fails after it wrote leaves what it wrote.
LeaveIt == UNCHANGED <<ev, sj>>

\* restore_previous_evidence, by an autopilot that made a copy.
PutBack == IF run.copied THEN ev' = run.pages /\ sj' = run.site ELSE LeaveIt

---------------------------------------------------------------------------
(* The steps of a crawl *)

Stands(pc) == run.pc = pc
Go(pc) == run' = [run EXCEPT !.pc = pc]

\* resilient_crawl_evidence is entered: the copy is made.  A cycle or a
\* verification (autopilot = FALSE) crawls without it.
CrawlBegins(autopilot) ==
    /\ Stands("idle") /\ Can("crawl") /\ Once("crawl")
    /\ serial' = serial + 1
    /\ run' = [pc |-> "fetch", autopilot |-> autopilot,
               copied |-> autopilot /\ SameSite /\ (ev # << >> \/ sj # NoSite),
               pages |-> ev, site |-> sj,
               had |-> autopilot /\ SameSite /\ Usable(ev), fetched |-> << >>]
    /\ UNCHANGED <<web, domain, ev, sj, rows, hurt>>

\* crawl.run, up to its health check: the candidates, in order.
Crawled ==
    LET limit == PageLimit(web.maximum, Cardinality(ListedUrls))
        order == Candidates(ListedUrls \cup Linked, limit, IF web.both THEN 2 ELSE 1)
    IN  [i \in DOMAIN order |-> CrawlOne(order[i], serial)]

\* The same behind semantic_site_signals: a crawl that is not healthy raises.
Fetches ==
    /\ Stands("fetch")
    /\ LET got == Crawled
       IN  \/ Healthy(got) /\ run' = [run EXCEPT !.pc = "site", !.fetched = got] /\ UNCHANGED <<ev, sj>>
           \/ ~Healthy(got) /\ PutBack /\ run' = NoRun
    /\ UNCHANGED <<web, domain, rows, serial, hurt, may>>

\* crawl.run writes site.json, with the URLs it crawled ...
WritesSite ==
    /\ Stands("site") /\ Go("pages")
    /\ sj' = [root |-> domain, run |-> serial,
              urls |-> {run.fetched[i].url : i \in DOMAIN run.fetched},
              crawled |-> Len(run.fetched),
              ok |-> Cardinality({i \in DOMAIN run.fetched : run.fetched[i].status = 200}),
              map |-> ListedUrls # {}, llms |-> web.llms # "none"]
    /\ UNCHANGED <<web, domain, ev, rows, serial, hurt, may>>

\* ... and pages.jsonl.
WritesPages ==
    /\ Stands("pages") /\ Go("signals")
    /\ ev' = run.fetched
    /\ UNCHANGED <<web, domain, sj, rows, serial, hurt, may>>

\* validate_llms_response: a page, or a few words, is no facts index.
ValidLlms == web.llms = "index"

\* validate_sitemap_response: /sitemap.xml lists a URL of the site.
ValidSitemap == web.atRoot # {}

\* validate_project_signals: /sitemap.xml alone decides whether there is one.
ChecksSignals ==
    /\ Stands("signals") /\ Go("recover")
    /\ sj' = [sj EXCEPT !.map = ValidSitemap, !.llms = ValidLlms]
    /\ UNCHANGED <<web, domain, ev, rows, serial, hurt, may>>

\* The same, when the project lock does not come free: the crawl has failed.
SignalsFail ==
    /\ Stands("signals") /\ Can("fail") /\ Once("fail")
    /\ PutBack /\ run' = NoRun
    /\ UNCHANGED <<web, domain, rows, serial, hurt>>

\* run_with_recovery after the crawl, and the folding every wrapper ends with:
\* text as crawled, text recovered, the evidence of before, the identity, in
\* this order; a site no page of which answered raised in Healthy.
Settles ==
    /\ Stands("recover") /\ run' = NoRun
    /\ IF ~run.autopilot \/ Usable(ev) THEN Fold(ev, sj)
       ELSE IF Recovered(ev) # ev THEN Fold(Recovered(ev), sj)
       ELSE IF run.had THEN Fold(run.pages, run.site)
       ELSE Fold(Identified(ev), sj)
    /\ UNCHANGED <<web, domain, rows, serial, hurt, may>>

\* The process is killed: no handler runs, and the copy goes with it.
CrawlDies ==
    /\ run # NoRun /\ Can("kill") /\ Once("kill")
    /\ run' = NoRun /\ hurt' = TRUE
    /\ UNCHANGED <<web, domain, ev, sj, rows, serial>>

\* audit.run.
Audited(pages) == {ScorePage(pages[i]) : i \in DOMAIN pages}

\* A job audits, behind normalize_generated_outputs: the evidence is folded, then
\* every page scored.
Audits ==
    /\ Stands("idle") /\ ev # << >> /\ Can("audit") /\ Once("audit")
    /\ Fold(ev, sj)
    /\ rows' = Audited(Deduplicated(ev))
    /\ UNCHANGED <<web, domain, run, serial, hurt>>

\* normalize_audit, whenever the project is normalised: the audit is made again
\* when the folding removed a page or the audit has a row of a page folded in.
Normalizes ==
    /\ Stands("idle") /\ rows # {} /\ Can("audit") /\ Once("audit")
    /\ Fold(ev, sj)
    /\ LET folded  == Deduplicated(ev)
           aliases == UNION {folded[i].aliases : i \in DOMAIN folded}
       IN  rows' = IF Len(folded) < Len(ev) \/ (folded # << >> /\ \E r \in rows : r.url \in aliases)
                   THEN Audited(folded) ELSE rows
    /\ UNCHANGED <<web, domain, run, serial, hurt>>

---------------------------------------------------------------------------
(* The site and its owner *)

WebChanges(w) ==
    /\ Can("change") /\ w # web /\ Once("change")
    /\ web' = w
    /\ UNCHANGED <<domain, ev, sj, rows, run, serial, hurt>>

\* update_config gives the project another site: the configuration is saved and
\* the evidence removed, unless the process ends in between.
MovesDomain(whole) ==
    /\ Stands("idle") /\ Can("move") /\ Once("move")
    /\ domain' = 3 - domain
    /\ IF whole THEN ev' = << >> /\ sj' = NoSite ELSE UNCHANGED <<ev, sj>>
    /\ UNCHANGED <<web, rows, run, serial, hurt>>

CrawlsInit ==
    /\ web \in Webs /\ domain = 1
    /\ ev = << >> /\ sj = NoSite /\ rows = {}
    /\ run = NoRun /\ serial = 0 /\ hurt = FALSE
    /\ may \in CrawlBudgets

CrawlsNext ==
    \/ \E autopilot \in BOOLEAN : CrawlBegins(autopilot)
    \/ Fetches \/ WritesSite \/ WritesPages \/ ChecksSignals \/ SignalsFail
    \/ Settles \/ CrawlDies \/ Audits \/ Normalizes
    \/ \E w \in Webs : WebChanges(w)
    \/ \E whole \in BOOLEAN : MovesDomain(whole)

CrawlsSpec == CrawlsInit /\ [][CrawlsNext]_crawlVars

---------------------------------------------------------------------------
(* What the evidence must stand for *)

CrawlsTypeOK ==
    /\ web \in Webs /\ domain \in {1, 2} /\ serial \in Nat /\ hurt \in BOOLEAN
    /\ \A i \in DOMAIN ev : /\ ev[i].url \in URLs /\ ev[i].aliases \subseteq URLs
                            /\ ev[i].text \in DOMAIN WordCount /\ ev[i].run \in 1..serial
    /\ sj = NoSite \/ (sj.urls \subseteq URLs /\ sj.ok <= sj.crawled)
    /\ \A r \in rows : r.url \in URLs /\ r.scored \in BOOLEAN
    /\ run.pc \in {"idle", "fetch", "site", "pages", "signals", "recover"}

\* present_audit.
View == PresentAudit(rows, ev)

\* What a page must show for a check to be passed on it.
Shows(p, c) ==
    CASE c = "accessibility"     -> p.status = 200
      [] c = "indexability"      -> ~p.noindex
      [] c = "canonical"         -> p.canonical # Absent
      [] c = "rendered_content"  -> WordCount[p.text] >= 20 \/ p.paras >= 2 \/ p.h1 > 0
      [] c = "structured_data"   -> p.types # {}
      [] c = "h1"                -> p.h1 = 1
      [] c = "content_depth"     -> HasText(p) \/ p.paras > 0
      [] c = "section_structure" -> p.h2 > 0
      [] c = "date"              -> p.date
      [] c = "external_evidence" -> p.links > 0
      [] OTHER                   -> c \in p.blocks

\* A check passed has a page behind it: the one crawled now, or the one the
\* audit was made from.
Backed(v, c) == \/ v.page # NoPage /\ Shows(v.page, c)
                \/ Shows(v.row.seen, c)

\* "Weighted coverage of evidence-backed checks" (audit_presentation.py): no check
\* of a page the engine scored is passed that no crawl showed. An audit that is
\* older than the evidence passes no check, and scores no page, that the evidence
\* lacks while it has others, and a site more than a fifth of whose pages are such
\* is not given a score.
NoPassWithoutEvidence ==
    LET view == View
        lone == {v \in view : v.page = NoPage /\ ev # << >>}
    IN  /\ \A v \in view : v.row.scored => \A c \in v.passed : Backed(v, c)
        /\ \A v \in lone : v.passed = {} /\ v.score = -1
        /\ 5 * Cardinality({v \in lone : ~v.excluded}) > Cardinality({v \in view : ~v.excluded})
              => ~ScoreReported(view)

\* An autopilot that ends, in success or in failure, without being killed leaves
\* evidence with text where there was such evidence of this site before; and any
\* crawl that succeeds leaves it of the configured site, as long as no job was
\* killed between its two files (resilient_crawl_evidence).
UsableEvidenceSurvives ==
    [][(run # NoRun /\ run' = NoRun /\ hurt' = hurt /\ may'["kill"] = may["kill"]) =>
          /\ run.had => Usable(ev')
          /\ Stands("recover") /\ ~hurt => sj'.root = domain /\ \A i \in DOMAIN ev' : ev'[i].root = domain]_crawlVars

\* Every URL that was crawled stays a page of the evidence or an alias of one,
\* however often the pages are folded (crawl_evidence.py).
EveryUrlStays ==
    (run = NoRun /\ ~hurt /\ sj # NoSite) =>
        sj.urls = UNION {{ev[i].url} \cup ev[i].aliases : i \in DOMAIN ev}

\* A crawl leaves the project no worse evidence than it found, and forgets no page.
EvidenceStays == []EveryUrlStays /\ UsableEvidenceSurvives
=============================================================================
