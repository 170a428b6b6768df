----------------------------- MODULE PageAudit -----------------------------
(***************************************************************************)
(* What the product says of one crawled page, and of a list of them.       *)
(*                                                                         *)
(* A page of evidence/pages.jsonl is a record: its url, status, the name   *)
(* of its text, its canonical URL, what its HTML shows (counts and sets),  *)
(* the URLs folded into it and the crawl that fetched it.  The engine's    *)
(* audit (engine/scripts/audit.py) turns it into a row of audit.json:      *)
(* issue codes, extractable blocks, scored or not.  The product's view     *)
(* (api/adapters/audit_presentation.py) joins the row with the evidence    *)
(* page of its URL, if there is one, and gives each of fifteen checks a    *)
(* verdict.  api/adapters/crawl_evidence.py folds equivalent pages.        *)
(* Wording, grades and the six dimension scores are left out.              *)
(***************************************************************************)
EXTENDS Integers, Sequences, FiniteSets, FiniteSetsExt, SequencesExt

CONSTANTS
    Traits   \* what its URL says of a page: see TraitsAssumption

\* A URL is a string.  kind: the engine's role of its path; says: the product
\* roles its path names; path: its host and path; plain: it has no query;
\* guide: it promises a procedure.
TraitsAssumption ==
    \A u \in DOMAIN Traits :
        /\ Traits[u].kind \in {"home", "content", "support", "editorial", "contact", "legal", "utility"}
        /\ Traits[u].plain \in BOOLEAN /\ Traits[u].guide \in BOOLEAN
ASSUME TraitsAssumption

Absent == "none"

\* The texts a page may carry, with their number of words.
WordCount == [none |-> 0, shell |-> 8, identity |-> 19, meta |-> 40,
              thin |-> 150, body |-> 700, rich |-> 1500, other |-> 1600]

HasText(p) == p.text # Absent
UsablePage(p) == p.status = 200 /\ HasText(p)

---------------------------------------------------------------------------
(* Engine: audit.py *)

\* page_role: functional, contact and legal paths get no score.
Unscored(u) == Traits[u].kind \in {"utility", "contact", "legal"}

\* _unscored_page: four of the codes, and no block is looked for.
UnscoredCodes(p) ==
    LET lacks == [PAGE_UNREACHABLE |-> p.status = 0 \/ p.status >= 400,
                  NON_200_STATUS   |-> p.status \notin {0, 200} /\ p.status < 400,
                  NOINDEX          |-> p.noindex,
                  NO_CANONICAL     |-> p.canonical = Absent,
                  LOW_CONTENT_PAGE |-> WordCount[p.text] < 120]
    IN  {c \in DOMAIN lacks : lacks[c]}

\* The roles whose Schema.org types are not in AUTHORITY_SCHEMA.
NoAuthority == {"contact", "about", "case_study", "category_listing"}

\* score_page: every code the page earns.
ScoredCodes(p) ==
    LET words == WordCount[p.text]
        lacks == [PAGE_UNREACHABLE   |-> p.status < 200 \/ p.status >= 400,
                  NON_200_STATUS     |-> p.status > 200 /\ p.status < 400,
                  NOINDEX            |-> p.noindex,
                  NO_CANONICAL       |-> p.canonical = Absent,
                  SPA_SHELL          |-> words < 120,
                  SHORT_CONTENT      |-> words < 1000,
                  BAD_H1             |-> p.h1 # 1,
                  FEW_H2             |-> p.h2 < 6,
                  LOW_LIST_DENSITY   |-> ~p.lists,
                  NO_DEFINITION      |-> "definition" \notin p.blocks,
                  NO_NUMBERS         |-> "numeric_facts" \notin p.blocks,
                  NO_COMPARISON      |-> "comparison" \notin p.blocks,
                  NO_HOWTO           |-> "steps" \notin p.blocks,
                  NO_FAQ             |-> "faq" \notin p.blocks,
                  NO_DATE            |-> ~p.date,
                  FEW_EXTERNAL_LINKS |-> p.links < 3,
                  NO_JSONLD          |-> p.types \subseteq NoAuthority,
                  LOW_RELEVANCE      |-> ~p.relevant]
    IN  {c \in DOMAIN lacks : lacks[c]}

\* One row of audit.json.  `seen` is the page it was made from: history that
\* only the properties read.
ScorePage(p) ==
    [url |-> p.url, words |-> WordCount[p.text], title |-> p.title, types |-> p.types,
     scored |-> ~Unscored(p.url),
     codes  |-> IF Unscored(p.url) THEN UnscoredCodes(p) ELSE ScoredCodes(p),
     blocks |-> IF Unscored(p.url) THEN {} ELSE p.blocks,
     seen   |-> p]

---------------------------------------------------------------------------
(* Product: audit_presentation.py *)

Weight == [accessibility |-> 20, indexability |-> 10, canonical |-> 8, rendered_content |-> 15,
           h1 |-> 10, content_depth |-> 12, section_structure |-> 8, structured_data |-> 10,
           definition |-> 8, numeric_facts |-> 8, comparison |-> 8, steps |-> 8, faq |-> 8,
           date |-> 6, external_evidence |-> 5]

AuditChecks == DOMAIN Weight
MinEvaluated == 6

Rule(words, paras, h2, more) == [words |-> words, paras |-> paras, h2 |-> h2, more |-> more]

\* ROLE_POLICY: the least words or paragraphs, the least sections, and the
\* checks a role adds.
Policy ==
    [home             |-> Rule(120, 6, 2, {"definition", "structured_data"}),
     product_service  |-> Rule(120, 5, 2, {"definition", "structured_data"}),
     pricing          |-> Rule(80, 4, 2, {"numeric_facts", "structured_data"}),
     comparison       |-> Rule(250, 8, 3, {"definition", "numeric_facts", "comparison",
                                           "external_evidence", "structured_data"}),
     article_news     |-> Rule(300, 8, 3, {"date", "external_evidence", "structured_data"}),
     docs_howto       |-> Rule(200, 6, 3, {"structured_data"}),
     faq_support      |-> Rule(100, 4, 2, {"faq", "structured_data"}),
     case_study       |-> Rule(200, 6, 3, {"numeric_facts", "structured_data"}),
     about            |-> Rule(100, 4, 1, {"definition", "structured_data"}),
     legal            |-> Rule(100, 5, 1, {"date"}),
     trust_compliance |-> Rule(120, 5, 2, {"external_evidence"}),
     category_listing |-> Rule(60, 3, 1, {"structured_data"}),
     generic          |-> Rule(120, 5, 2, {})]

\* ROLE_PRIORITY: which of two equally supported roles wins.
RolePriority == <<"contact", "legal", "trust_compliance", "auth_utility", "pricing", "comparison",
                  "faq_support", "docs_howto", "case_study", "article_news", "about",
                  "category_listing", "product_service">>

\* classify_page: a path names a role for 12 points, a Schema.org type for 9, a
\* heading for 3; the role with most points wins, then the first in priority.
ClassifyPage(u, types, heads) ==
    LET points(r) == (IF r \in Traits[u].says THEN 12 ELSE 0)
                     + (IF r \in types THEN 9 ELSE 0) + (IF r \in heads THEN 3 ELSE 0)
        most      == Max({points(r) : r \in Range(RolePriority)})
    IN  IF Traits[u].kind = "home" THEN "home"
        ELSE IF most = 0 THEN "generic"
        ELSE RolePriority[Min({i \in DOMAIN RolePriority : points(RolePriority[i]) = most})]

NoPage == [url |-> Absent]

\* _evidence_lookup, _page_evidence: the page of that URL, or that folded it
\* in; failing that, the first one of the same host and path.
PageEvidence(u, pages) ==
    LET exact == {i \in DOMAIN pages : u = pages[i].url \/ u \in pages[i].aliases}
        near  == {i \in DOMAIN pages :
                    \E v \in {pages[i].url} \cup pages[i].aliases : Traits[v].path = Traits[u].path}
    IN  IF exact # {} THEN pages[Max(exact)]
        ELSE IF near # {} THEN pages[Min(near)] ELSE NoPage

Unknown == -2

\* _present_page, its first part: a page of the audit's has a status by its
\* evidence, by a code of the audit, or by default when no evidence is left.
StatusOf(row, p, strict) ==
    IF p # NoPage THEN p.status
    ELSE IF "PAGE_UNREACHABLE" \in row.codes THEN 0
    ELSE IF "NON_200_STATUS" \in row.codes THEN -1
    ELSE IF strict THEN Unknown ELSE 200

Unreachable(row, status) == status = 0 \/ status >= 400 \/ "PAGE_UNREACHABLE" \in row.codes

\* The words and the sections the verdicts count: the evidence's, or the row's.
Words(row, p) == IF p # NoPage THEN WordCount[p.text] ELSE row.words
Paras(p) == IF p # NoPage THEN p.paras ELSE 0

\* Does the page show content?
ShowsContent(row, p) == Words(row, p) >= 20 \/ Paras(p) >= 2 \/ (p # NoPage /\ p.h1 > 0)

\* The checks a page of this role is given.
ChecksOf(u, role) ==
    {"accessibility", "indexability", "canonical", "rendered_content", "h1",
     "content_depth", "section_structure"}
    \cup Policy[role].more
    \cup (IF role = "docs_howto" /\ Traits[u].guide THEN {"steps"} ELSE {})

\* A plausible bug: a page the evidence lacks is judged by what its row says.
KnownByTheRow(row, p, strict, noindex) ==
    IF Unreachable(row, StatusOf(row, p, strict)) THEN {"accessibility"}
    ELSE AuditChecks \ (IF ShowsContent(row, p) THEN {} ELSE
                           {"h1", "content_depth", "section_structure"})

\* _present_page: the checks there is something to judge by.  An unreachable
\* page is asked nothing more; a page with no evidence of its own, while other
\* pages have some (strict), only what its codes say; one that shows no content
\* nothing of its content.
Known(row, p, strict, noindex) ==
    LET status == StatusOf(row, p, strict)
        first  == (IF status = Unknown THEN {} ELSE {"accessibility"})
        head   == (IF strict /\ ~noindex THEN {} ELSE {"indexability"})
                  \cup (IF p # NoPage \/ "NO_CANONICAL" \in row.codes THEN {"canonical"} ELSE {})
        body   == AuditChecks \ {"accessibility", "indexability", "canonical",
                                 "rendered_content", "structured_data"}
    IN  IF Unreachable(row, status) THEN {"accessibility"}
        ELSE first \cup head
             \cup (IF strict THEN {} ELSE {"rendered_content", "structured_data"})
             \cup (IF ~strict /\ ShowsContent(row, p) THEN body ELSE {})

\* _present_page: the judgements, each by the evidence or, where there is none
\* (or the crawl records none), by the absence of the audit's code.
Judgement(row, p, strict, noindex, role) ==
    LET rule == Policy[role]
        has  == p # NoPage
        clear(code) == code \notin row.codes
    IN  [accessibility     |-> StatusOf(row, p, strict) = 200,
         indexability      |-> ~noindex,
         canonical         |-> IF has THEN p.canonical # Absent ELSE clear("NO_CANONICAL"),
         rendered_content  |-> ShowsContent(row, p),
         structured_data   |-> row.types # {} \/ (has /\ p.types # {}) \/ clear("NO_JSONLD"),
         h1                |-> IF has THEN p.h1 = 1 ELSE clear("BAD_H1"),
         content_depth     |-> Words(row, p) >= rule.words \/ Paras(p) >= rule.paras,
         section_structure |-> IF has THEN p.h2 >= rule.h2 ELSE clear("FEW_H2"),
         definition        |-> "definition" \in row.blocks,
         numeric_facts     |-> "numeric_facts" \in row.blocks,
         comparison        |-> "comparison" \in row.blocks,
         steps             |-> "steps" \in row.blocks,
         faq               |-> "faq" \in row.blocks,
         date              |-> clear("NO_DATE"),
         external_evidence |-> IF has THEN p.links >= 1 ELSE clear("FEW_EXTERNAL_LINKS")]

\* A page of the view: the checks passed and failed, and its score, -1 for none.
Verdicts(row, p, passed, failed, excluded) ==
    LET earned   == MapThenSumSet(LAMBDA c : Weight[c], passed)
        possible == MapThenSumSet(LAMBDA c : Weight[c], passed \cup failed)
        enough   == Cardinality(passed \cup failed) >= MinEvaluated
    IN  [url |-> row.url, row |-> row, page |-> p, excluded |-> excluded,
         passed |-> passed, failed |-> failed,
         score  |-> IF enough THEN (100 * earned) \div possible ELSE -1]

\* _present_page.
PresentPage(row, p, available) ==
    LET strict  == available /\ p = NoPage
        role    == IF p = NoPage THEN ClassifyPage(row.url, row.types, row.title)
                   ELSE ClassifyPage(row.url, p.types, p.title \cup p.heads)
        noindex == (p # NoPage /\ p.noindex) \/ "NOINDEX" \in row.codes
    IN  IF role \in {"auth_utility", "contact"} THEN Verdicts(row, p, {}, {}, TRUE)
        ELSE LET judged == ChecksOf(row.url, role) \cap Known(row, p, strict, noindex)
                 ok     == Judgement(row, p, strict, noindex, role)
             IN  Verdicts(row, p, {c \in judged : ok[c]}, {c \in judged : ~ok[c]}, FALSE)

\* present_audit: the view of audit.json (a set of rows) by pages.jsonl.
PresentAudit(rows, pages) ==
    {PresentPage(row, PageEvidence(row.url, pages), pages # << >>) : row \in rows}

\* present_audit_data: a site score is reported when four fifths of the pages
\* that are to be scored have one.
ScoreReported(view) ==
    LET eligible == {v \in view : ~v.excluded}
        scored   == {v \in view : v.score >= 0}
    IN  scored # {} /\ 5 * Cardinality(scored) >= 4 * Cardinality(eligible)

---------------------------------------------------------------------------
(* Product: crawl_evidence.py *)

\* _duplicate_page: one canonical URL and no two texts, or one text at one path.
Duplicates(p, q) ==
    LET same == HasText(p) /\ p.text = q.text
    IN  IF p.canonical # Absent /\ p.canonical = q.canonical
        THEN same \/ ~HasText(p) \/ ~HasText(q)
        ELSE same /\ Traits[p.url].path = Traits[q.url].path

\* _page_preference: what makes a page stand for its group, in this order.
Preference(p) ==
    LET bit(b) == IF b THEN 1 ELSE 0
    IN  10000 * (8 * bit(p.status = 200) + 4 * bit(HasText(p)) + 2 * bit(Traits[p.url].plain)
                 + bit(p.url = p.canonical)) + WordCount[p.text]

\* The first group every member of which the page duplicates, or a new one.
Grouped(groups, p) ==
    LET fits == {i \in DOMAIN groups : \A q \in Range(groups[i]) : Duplicates(p, q)}
    IN  IF fits = {} THEN Append(groups, <<p>>)
        ELSE [groups EXCEPT ![Min(fits)] = Append(@, p)]

\* The page that stands for a group, the first of the preferred ones.
Representative(group) ==
    group[Min({i \in DOMAIN group : \A q \in Range(group) : Preference(group[i]) >= Preference(q)})]

\* The group as one page, under every URL its members had.
Folded(group) ==
    [Representative(group) EXCEPT !.aliases =
        (UNION {{q.url} \cup q.aliases : q \in Range(group)}) \ {Representative(group).url}]

\* deduplicate_crawl_pages.
Deduplicated(pages) ==
    LET groups == FoldLeft(Grouped, << >>, pages)
    IN  [i \in DOMAIN groups |-> Folded(groups[i])]
=============================================================================
