--------------------------------- MODULE Facts --------------------------------
(***************************************************************************)
(* A project's library of brand facts: what a model or the site's          *)
(* structured data fills it with, who may change it, what of it is         *)
(* verified against the pages that were crawled, and the check of sampled  *)
(* answers against it (api/adapters/brand_facts.py, engine bootstrap.py,   *)
(* api/adapters/workspace.py, global_scope.py, worker/tasks.py).           *)
(*                                                                         *)
(* A claim is a value of FactValues. "none" is "Needs verification", and   *)
(* "todo" the bracketed request for a definition that rendering puts in    *)
(* the place of a missing one.                                             *)
(***************************************************************************)
EXTENDS Naturals, FiniteSets

CONSTANTS
    FactValues,    \* what may be claimed
    FactEvents     \* bound: sets of how often each thing happens, [FactEvent -> Nat]

FactEvent == {"crawl", "model", "save", "patch", "sample", "import"}

ASSUME FactsAssumption ==
    /\ FactValues # {} /\ IsFiniteSet(FactValues)
    /\ {"none", "todo"} \cap FactValues = {}
    /\ FactEvents \subseteq [FactEvent -> Nat]

VARIABLES
    facts,      \* content/facts.md
    candidate,  \* the newest facts.bootstrap-*.md
    kept,       \* the texts kept as facts.legacy-zh-*.md
    brand,      \* the brand's configuration in geo.json
    pages,      \* the site's pages: the values in their text, and in structured data
    answers,    \* the values in the latest sampled answers
    ledger,     \* facts.verification.json
    factcheck,  \* factcheck.json
    known,      \* history: the values that some crawl saw or a user typed
    mayFact     \* how often what may still happen

factsVars == <<facts, candidate, kept, brand, pages, answers, ledger, factcheck, known, mayFact>>

FactFields == {"name", "definition", "price", "audience"}

\* What a publication may not be wrong about; the site itself is always verified.
Blocking == {"name", "definition", "price"}

Claim == FactValues \cup {"none"}
Said == FactValues \cup {"none", "todo"}

NoFacts == [by |-> "nobody", reviewed |-> FALSE, says |-> [f \in FactFields |-> "none"]]
NoLedger == [ready |-> FALSE, human |-> FALSE, verified |-> {}]

Occurs(event) == mayFact[event] > 0 /\ mayFact' = [mayFact EXCEPT ![event] = @ - 1]

\* Values a text may be given by its author: one value for all, or none.
Brands == {[f \in FactFields |-> IF f \in fields THEN v ELSE "none"] :
             v \in FactValues, fields \in {{}, {"name"}, FactFields}}

\* bound: a model answers every field with one value, or leaves some out, or
\* defines the brand with another.
ModelAnswers == {[b EXCEPT !["definition"] = v] : b \in Brands, v \in Claim}

FactsInit ==
    /\ mayFact \in FactEvents
    /\ brand \in {[b EXCEPT !["definition"] = "none"] : b \in Brands}
    /\ \E text \in SUBSET FactValues : \E described \in text \cup {"none"} :
         pages = [text |-> text, described |-> described]
    \* A library written by the engine before it wrote English.
    /\ \E by \in {"nobody", "legacy"} : facts = [NoFacts EXCEPT !.by = by]
    /\ candidate = NoFacts /\ kept = {} /\ answers = {}
    /\ ledger = NoLedger /\ factcheck = {}
    /\ known = pages.text \cup ({brand[f] : f \in FactFields} \ {"none"})

-----------------------------------------------------------------------------
(* What the texts say.                                                     *)

Provided(said, configured) == IF said = "none" THEN configured ELSE said

\* A model's answer, completed with what is configured.
ModelBrand(data, configured) ==
    [f \in FactFields |-> IF f = "definition" THEN data[f] ELSE Provided(data[f], configured[f])]

\* Nothing but the definition is taken from a model unless the site's text
\* has it or it was configured.
Extract(data, configured, text) ==
    LET said == ModelBrand(data, configured)
    IN  [f \in FactFields |->
          IF f = "definition" \/ said[f] \in text \cup {configured[f]} THEN said[f]
          ELSE IF f = "price" THEN "none" ELSE configured[f]]

\* The same from structured data: meta descriptions, offers, categories.
Described(site) == site.described
EvidenceBrand(configured, site) ==
    [f \in FactFields |->
      CASE f = "definition" -> Described(site)
        [] f = "name" -> configured[f]
        [] OTHER -> Provided(configured[f], site.described)]

Render(data, by) ==
    [by |-> by, reviewed |-> FALSE,
     says |-> [f \in FactFields |->
                IF f = "definition" /\ data[f] = "none" THEN "todo" ELSE data[f]]]

\* What the generators and the verification read back.
Parse(text) == text.says

Generated(text) == text.by \in {"model", "evidence"}
Managed(text) == Generated(text) \/ text.by = "legacy"
English(text) == text.by # "legacy"

\* A value is sourced when the text of a crawled page holds it.
Sourced(value, site) == value \in site.text

\* One claim: nothing when there is no value to check.
Claimed(text) == {f \in FactFields : Parse(text)[f] # "none"}
Agreed(text, site) == {f \in Claimed(text) : Sourced(Parse(text)[f], site)}

Verify(text, site) ==
    [ready    |-> text.reviewed \/ Claimed(text) \cap Blocking \subseteq Agreed(text, site),
     human    |-> text.reviewed,
     verified |-> Agreed(text, site)]

\* A person's approval, or the site's own words.
Approved(text, site) == text.by # "nobody" /\ (text.reviewed \/ Verify(text, site).ready)

\* Approving makes it reviewed, saving a draft takes all marks away.
ReviewedText(says) == [by |-> "user", reviewed |-> TRUE, says |-> says]
UnreviewedText(says) == [by |-> "user", reviewed |-> FALSE, says |-> says]

-----------------------------------------------------------------------------
(* The upkeep of the library.                                              *)

\* What the library is after ensure_english_facts, and what it keeps.
Adopts(text, new) ==
    /\ new # NoFacts /\ Managed(text) /\ text.by # "model" /\ ~text.reviewed

\* A plausible bug: a newer text of the model's is adopted over any other.
EnsuredAlways(text, new, configured, site) ==
    IF text.by = "nobody" THEN text
    ELSE IF new # NoFacts THEN new
    ELSE IF English(text) THEN text
    ELSE Render(EvidenceBrand(configured, site), "evidence")

Ensured(text, new, configured, site) ==
    IF text.by = "nobody" THEN text
    ELSE IF Adopts(text, new) THEN new
    ELSE IF English(text) THEN text
    ELSE Render(EvidenceBrand(configured, site), "evidence")

Kept(text, becomes) == IF becomes # text THEN {text} ELSE {}

Ensure(text, new, configured, site) ==
    LET becomes == Ensured(text, new, configured, site)
    IN  /\ facts' = becomes
        /\ kept' = kept \cup (IF text.by = "nobody" THEN {} ELSE Kept(text, becomes))

\* The check of the answers; a person's record stops it.
Checks(verification, text, said) ==
    LET items == {[field |-> f, state |-> IF Parse(text)[f] \in said THEN "consistent" ELSE "missing",
                   human |-> FALSE] : f \in verification.verified \cap Blocking}
    IN  IF (\E c \in factcheck : c.human) \/ said = {} \/ items = {} THEN factcheck ELSE items

\* What a job does with the facts after it crawled or sampled.
SyncClaims(text, site, said) ==
    IF text.by = "nobody" THEN UNCHANGED <<ledger, factcheck>>
    ELSE /\ ledger' = Verify(text, site)
         /\ factcheck' = Checks(Verify(text, site), text, said)

-----------------------------------------------------------------------------
(* Actions.                                                                *)

\* A plausible bug: what an earlier crawl described stays beside the new texts.
ReadSiteTexts ==
    /\ Occurs("crawl")
    /\ \E text \in SUBSET FactValues : pages' = [pages EXCEPT !.text = text]
    /\ known' = known \cup pages'.text
    /\ SyncClaims(facts, pages', answers)
    /\ UNCHANGED <<facts, candidate, kept, brand, answers>>

\* A job crawls the site, and verifies the claims with what it found.
ReadSite ==
    /\ Occurs("crawl")
    /\ \E text \in SUBSET FactValues : \E described \in text \cup {"none"} :
         pages' = [text |-> text, described |-> described]
    /\ known' = known \cup pages'.text
    /\ SyncClaims(facts, pages', answers)
    /\ UNCHANGED <<facts, candidate, kept, brand, answers>>

\* The engine asks a model for the facts: they configure the brand, and become
\* the library, or beside one that exists the newest text of the model's.
Bootstrap ==
    /\ Occurs("model") /\ pages.text # {}
    /\ \E data \in ModelAnswers :
         LET said == Extract(data, brand, pages.text)
             configured == [f \in FactFields |->
                             IF f = "definition" THEN brand[f] ELSE Provided(said[f], brand[f])]
             text == Render(ModelBrand(said, configured), "model")
             exists == facts.by # "nobody"
         IN  /\ brand' = configured
             /\ candidate' = IF exists THEN text ELSE candidate
             /\ IF exists THEN Ensure(facts, text, configured, pages)
                ELSE facts' = text /\ UNCHANGED kept
             /\ SyncClaims(facts', pages, answers)
    /\ UNCHANGED <<pages, answers, known>>

\* Every write path of the platform brings the project's files in order.
Normalize ==
    /\ Ensure(facts, candidate, brand, pages)
    /\ UNCHANGED <<candidate, brand, pages, answers, ledger, factcheck, known, mayFact>>

\* A user saves the library, approved or not.
SaveFacts ==
    /\ Occurs("save")
    /\ \E says \in {[b EXCEPT !["definition"] = IF @ = "none" THEN "todo" ELSE @] : b \in Brands} \cup Brands :
         \E approve \in BOOLEAN :
           /\ facts' = IF approve THEN ReviewedText(says) ELSE UnreviewedText(says)
           /\ known' = known \cup ({says[f] : f \in FactFields} \ {"none", "todo"})
    /\ ledger' = Verify(facts', pages)
    /\ UNCHANGED <<candidate, kept, brand, pages, answers, factcheck>>

\* A user changes the brand's configuration; another site has no evidence yet.
PatchBrand ==
    /\ Occurs("patch")
    /\ \E b \in Brands, moved \in BOOLEAN :
         /\ brand' = [b EXCEPT !["definition"] = "none"]
         /\ pages' = IF moved THEN [text |-> {}, described |-> "none"] ELSE pages
         /\ known' = known \cup ({brand'[f] : f \in FactFields} \ {"none"})
    /\ Ensure(facts, candidate, brand', pages')
    /\ UNCHANGED <<candidate, answers, ledger, factcheck>>

\* A sampling's answers, and the check that follows it.
SampleAnswers ==
    /\ Occurs("sample")
    /\ answers' \in SUBSET FactValues
    /\ SyncClaims(facts, pages, answers')
    /\ UNCHANGED <<facts, candidate, kept, brand, pages, known>>

\* A user's own records of what the engines get wrong.
SaveFactcheck ==
    /\ Occurs("import")
    /\ \E records \in {{}, {[field |-> "name", state |-> "wrong", human |-> TRUE]}} :
         factcheck' = records
    /\ UNCHANGED <<facts, candidate, kept, brand, pages, answers, ledger, known>>

FactsNext ==
    \/ ReadSite
    \/ Bootstrap
    \/ Normalize
    \/ SaveFacts
    \/ PatchBrand
    \/ SampleAnswers
    \/ SaveFactcheck

FactsSpec == FactsInit /\ [][FactsNext]_factsVars

-----------------------------------------------------------------------------
(* Properties.                                                             *)

FactText == [by : {"nobody", "legacy", "model", "evidence", "user"}, reviewed : BOOLEAN,
             says : [FactFields -> Said]]

FactsTypeOK ==
    /\ facts \in FactText /\ candidate \in FactText /\ kept \subseteq FactText
    /\ brand \in [FactFields -> Claim]
    /\ pages.text \subseteq FactValues /\ pages.described \in pages.text \cup {"none"}
    /\ answers \subseteq FactValues /\ known \subseteq FactValues
    /\ ledger.verified \subseteq FactFields
    /\ factcheck \subseteq [field : FactFields, state : {"consistent", "missing", "wrong"}, human : BOOLEAN]
    /\ mayFact \in [FactEvent -> Nat]

\* What a model invents stays out of the configuration, and out of the facts
\* apart from the definition, however its texts and the configuration feed each
\* other: every value there was once on the site or typed by a user.
InventionsStayOut ==
    /\ {brand[f] : f \in FactFields} \subseteq known \cup {"none"}
    /\ {facts.says[f] : f \in FactFields \ {"definition"}} \subseteq known \cup {"none", "todo"}

\* What a user saved is changed by users only, whatever a job or an upkeep finds
\* beside it, and what the upkeep replaces can be found again.
UserTextStays ==
    [][/\ (facts.by = "user" /\ facts' # facts) => mayFact'["save"] < mayFact["save"]
       /\ (facts.by = "legacy" /\ facts' # facts /\ mayFact'["save"] = mayFact["save"]) => facts \in kept'
      ]_factsVars

\* What the project says of its brand comes from the site or from its users, and
\* what they said is not said otherwise behind their backs.
FactsAreOwned == []InventionsStayOut /\ UserTextStays
=============================================================================
