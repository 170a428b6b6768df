------------------------------- MODULE MCSites -------------------------------
(* Small sites to crawl: six URLs, and what may be found behind each.         *)
EXTENDS Crawls

UrlTraits(kind, says, path, plain, quota, family) ==
    [kind |-> kind, says |-> says, path |-> path, plain |-> plain, guide |-> TRUE,
     quota |-> quota, family |-> family]

\* A home page, a product page with and without a query, two locales of an
\* article, and a privacy policy.
SixPages ==
    [home    |-> UrlTraits("home", {}, "home", TRUE, "core", "home"),
     product |-> UrlTraits("content", {"product_service"}, "product", TRUE, "core", "product"),
     offer   |-> UrlTraits("content", {"product_service"}, "product", FALSE, "core", "offer"),
     blog    |-> UrlTraits("editorial", {"article_news"}, "blog", TRUE, "editorial", "blog"),
     blogen  |-> UrlTraits("editorial", {"article_news"}, "blogen", TRUE, "editorial", "blog"),
     privacy |-> UrlTraits("legal", {"legal"}, "privacy", TRUE, "core", "privacy")]

ByRank == <<"home", "product", "offer", "blog", "blogen", "privacy">>

Good == [status |-> 200, main |-> "rich", body |-> "rich", canonical |-> Absent, noindex |-> FALSE,
         h1 |-> 1, h2 |-> 8, paras |-> 9, links |-> 3, lists |-> TRUE, date |-> TRUE, relevant |-> TRUE,
         blocks |-> {"definition", "numeric_facts", "comparison", "steps", "faq"},
         types |-> {"product_service"}, title |-> {"product_service"}, heads |-> {}]
Empty == [Good EXCEPT !.main = Absent, !.body = Absent, !.h1 = 0, !.h2 = 0, !.paras = 0, !.links = 0,
                      !.lists = FALSE, !.date = FALSE, !.blocks = {}, !.types = {}]
Gone  == [Good EXCEPT !.status = 404, !.main = "thin", !.body = "thin"]
Bare  == [Empty EXCEPT !.title = {}]

\* A web of these pages, and how a crawl learns of them.
WebOf(pages) ==
    [pages |-> pages, atRoot |-> {"home", "product", "offer", "blog"}, declared |-> {"blogen"},
     linked |-> {"privacy"}, llms |-> "page", robots |-> {}, maximum |-> 6, both |-> FALSE]

All(p) == [u \in DOMAIN SixPages |-> p]
With(pages, u, p) == [pages EXCEPT ![u] = p]

\* Pages that are good, or empty, but for a feature.
Mixed ==
    {WebOf([All(Good) EXCEPT !["product"].noindex = TRUE, !["offer"].h1 = 0,
                             !["blog"].date = FALSE, !["blogen"].h2 = 0,
                             !["privacy"].date = FALSE]),
     WebOf([All(Good) EXCEPT !["product"].types = {}, !["offer"].blocks = {},
                             !["blog"].links = 0, !["blogen"].links = 1,
                             !["privacy"].canonical = "product"]),
     WebOf([All(Good) EXCEPT !["home"] = [Bare EXCEPT !.main = "thin"],
                             !["product"].status = 301, !["privacy"] = Bare,
                             !["blog"] = [Bare EXCEPT !.h1 = 1],
                             !["blogen"] = [Good EXCEPT !.main = "shell", !.body = "thin"]])}

Group(agents, rules) == [agents |-> agents, rules |-> rules]
Line(length, urls, allow) == [length |-> length, urls |-> urls, allow |-> allow]
Robots ==
    {Group({"*"}, {Line(1, DOMAIN SixPages, FALSE)}),
     Group({"CiteAuraEngine"},
           {Line(3, {"blog", "privacy"}, FALSE), Line(5, {"blog"}, TRUE)})}

\* Sites that are good, empty, bare or gone, that only links, only the site map or
\* nothing leads to, that robots.txt restricts, and whose pages stand for others.
Sites ==
    {WebOf(All(Good)), WebOf(All(Empty)), WebOf(All(Bare)), WebOf(All(Gone)),
     [WebOf(With(All(Gone), "home", Good)) EXCEPT !.atRoot = DOMAIN SixPages],
     [WebOf(All(Good)) EXCEPT !.atRoot = {}, !.declared = {"home", "offer"}, !.maximum = 25],
     [WebOf(All(Good)) EXCEPT !.maximum = 0, !.atRoot = {}, !.declared = {}, !.both = TRUE,
                              !.llms = "index"],
     [WebOf(All(Good)) EXCEPT !.maximum = 3, !.robots = Robots],
     WebOf([All(Bare) EXCEPT !["product"].canonical = "home",
                             !["offer"] = [Gone EXCEPT !.canonical = "home"],
                             !["blog"] = [Gone EXCEPT !.main = "other", !.canonical = "home"]])}

EverySite == Sites \cup Mixed

\* How often a site is crawled, a crawl fails or is killed, the pages are audited,
\* the site changes, and moves to another domain.
CrawlBudget(crawl, fail, kill, audit, change, move) ==
    [crawl |-> crawl, fail |-> fail, kill |-> kill, audit |-> audit, change |-> change,
     move |-> move]
FourBudgets ==
    {CrawlBudget(2, 0, 0, 2, 1, 0), CrawlBudget(2, 1, 0, 0, 1, 0),
     CrawlBudget(2, 0, 1, 0, 1, 0), CrawlBudget(2, 0, 0, 0, 1, 1)}
=============================================================================
