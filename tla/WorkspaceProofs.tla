--------------------------- MODULE WorkspaceProofs --------------------------
(***************************************************************************)
(* What a project's directory holds: facts and brand (Facts), packages     *)
(* (Deliveries), generated assets (Assets), snapshots (Snapshots), crawls  *)
(* and their audit (Crawls), the ticket list (Tickets); for any values,    *)
(* numbers of days, versions, files, people and mishaps. Each part has an  *)
(* inductive invariant, preserved by one lemma per action.                 *)
(*                                                                         *)
(* Facts. Every value in a text or in the configuration was seen on the    *)
(* site or typed by a user. Inference only chooses among what it is given, *)
(* so this is inductive with the same said of the pages (FactsInv).        *)
(*                                                                         *)
(* Deliveries. From the staging of a package to its publication what is    *)
(* staged has passed the gate, and there is no backup of its day until the *)
(* build makes one (BuildFits); what a reader may meet under the name it   *)
(* has opened passed the gate too (ReaderFits).                            *)
(*                                                                         *)
(* Assets. What a user saved is in English, so no upkeep replaces it; it   *)
(* is in the project or, while the engine writes, aside (EditKept).        *)
(*                                                                         *)
(* Snapshots. A list names an object once, and what it calls available is  *)
(* there (Sound): of the list on disk and of the one a job has in hand. An *)
(* object that is being made is in no list yet, and a restoration that may *)
(* not overwrite has nothing to overwrite before it (JobFits).             *)
(*                                                                         *)
(* Crawls. The two files of the evidence tell of one crawl (Match) unless  *)
(* a job was killed between them; the copy an autopilot holds is such a    *)
(* pair, and where the crawl stands says which of the two files it has     *)
(* replaced (RunHolds). What folding does to a sequence of pages is shown  *)
(* by induction over the set of its positions (SubsetInduct, FoldIn), and  *)
(* every row of the audit was made from a page of some crawl (AreRows), so *)
(* that each verdict of the view can be traced to a page.                  *)
(*                                                                         *)
(* Tickets. An id tells who wrote a ticket (Whole): a rebuild, the scoping *)
(* or a person. So what scoping or a rebuild writes never has the id of an *)
(* offsite ticket, and the ids of the list stay unique. OffsiteKept says   *)
(* where the offsite tickets are: in the list, or, from a build to the     *)
(* merge after it, in what the job remembers, and a job that has begun to  *)
(* rebuild still has the merge before it (Proper). Whatever a job or a     *)
(* person does to the list then shows in one of two ways on experiments:   *)
(* they are carried over (Carries), or each moves on by what its own state *)
(* allows (Comparable).                                                    *)
(***************************************************************************)
EXTENDS MCWorkspace, CollectionLemmas

-----------------------------------------------------------------------------
(* Facts: the values the texts are made of                                 *)

Pages == [text : SUBSET FactValues, described : Claim]
Brand == [FactFields -> Claim]

\* Every value but a definition was on the site or typed by a user, who are the
\* two sources of what is in seen.
Seen(data, seen) == \A f \in FactFields : data[f] \in seen \cup {"none"}
SeenText(text, seen) ==
    \A f \in FactFields \ {"definition"} : text.says[f] \in seen \cup {"none", "todo"}
OnSite(home, seen) == home.text \subseteq seen /\ home.described \in home.text \cup {"none"}

Ledgers == [ready : BOOLEAN, human : BOOLEAN, verified : SUBSET FactFields]
Findings == [field : FactFields, state : {"consistent", "missing", "wrong"}, human : BOOLEAN]

\* Every part of the directory that holds values holds values that were seen.
FactsInv ==
    /\ facts \in FactText /\ candidate \in FactText /\ kept \subseteq FactText
    /\ brand \in Brand /\ pages \in Pages /\ answers \subseteq FactValues
    /\ known \subseteq FactValues
    /\ ledger \in Ledgers /\ factcheck \subseteq Findings /\ mayFact \in [FactEvent -> Nat]
    /\ OnSite(pages, known) /\ Seen(brand, known)
    /\ SeenText(facts, known) /\ SeenText(candidate, known)

LEMMA FieldFacts ==
    /\ FactFields = {"name", "definition", "price", "audience"}
    /\ Claim \subseteq Said /\ "none" \in Claim /\ "todo" \in Said /\ FactValues \subseteq Claim
  BY DEF FactFields, Claim, Said

LEMMA BrandsFacts ==
    ASSUME NEW b \in Brands
    PROVE  b \in Brand
  BY FieldFacts DEF Brands, Brand, Claim

LEMMA ModelAnswersFacts ==
    ASSUME NEW data \in ModelAnswers
    PROVE  data \in Brand
<1>1. PICK b \in Brands, v \in Claim : data = [b EXCEPT !["definition"] = v]
  BY DEF ModelAnswers
<1>2. b \in Brand
  BY BrandsFacts
<1>3. QED
  BY <1>1, <1>2 DEF Brand

LEMMA ExtractFacts ==
    ASSUME NEW data \in Brand, NEW configured \in Brand, NEW text \in SUBSET FactValues
    PROVE  /\ Extract(data, configured, text) \in Brand
           /\ \A f \in FactFields \ {"definition"} :
                Extract(data, configured, text)[f] \in text \cup {configured[f], "none"}
<1>1. ModelBrand(data, configured) \in Brand
  BY FieldFacts DEF ModelBrand, Provided, Brand
<1>2. QED
  BY <1>1, FieldFacts DEF Extract, Brand

LEMMA RenderFacts ==
    ASSUME NEW data \in Brand, NEW by \in {"nobody", "legacy", "model", "evidence", "user"}
    PROVE  /\ Render(data, by) \in FactText
           /\ \A f \in FactFields \ {"definition"} : Render(data, by).says[f] = data[f]
           /\ Render(data, by).by = by
  BY FieldFacts DEF Render, FactText, Brand

LEMMA EvidenceFacts ==
    ASSUME NEW configured \in Brand, NEW home \in Pages, NEW seen, OnSite(home, seen),
           Seen(configured, seen)
    PROVE  /\ EvidenceBrand(configured, home) \in Brand
           /\ Seen(EvidenceBrand(configured, home), seen)
  BY FieldFacts DEF EvidenceBrand, Described, Provided, Brand, Pages, OnSite, Seen

LEMMA EnsuredFacts ==
    ASSUME NEW text \in FactText, NEW new \in FactText, NEW configured \in Brand,
           NEW home \in Pages, NEW seen, OnSite(home, seen), Seen(configured, seen),
           SeenText(text, seen), SeenText(new, seen)
    PROVE  /\ Ensured(text, new, configured, home) \in FactText
           /\ SeenText(Ensured(text, new, configured, home), seen)
<1> DEFINE e == Render(EvidenceBrand(configured, home), "evidence")
<1>1. e \in FactText /\ SeenText(e, seen)
  BY EvidenceFacts, RenderFacts DEF Seen, SeenText
<1>2. Ensured(text, new, configured, home) \in {text, new, e}
  BY DEF Ensured
<1> HIDE DEF e
<1>3. QED
  BY <1>1, <1>2

\* The upkeep changes no text of a user's, and keeps what it changes.
LEMMA EnsuredKeeps ==
    ASSUME NEW text \in FactText, NEW new, NEW configured, NEW home,
           text.by = "user"
    PROVE  Ensured(text, new, configured, home) = text
  BY DEF Ensured, Adopts, Managed, Generated, English

LEMMA VerifyFacts ==
    ASSUME NEW text \in FactText, NEW home
    PROVE  Verify(text, home) \in Ledgers
  BY DEF Verify, FactText, Agreed, Claimed, Ledgers

LEMMA ChecksFacts ==
    ASSUME NEW verification \in Ledgers,
           NEW text, NEW said, factcheck \subseteq Findings
    PROVE  Checks(verification, text, said) \subseteq Findings
<1> DEFINE StateOf(f) == IF Parse(text)[f] \in said THEN "consistent" ELSE "missing"
           items == {[field |-> f, state |-> StateOf(f), human |-> FALSE] :
                       f \in verification.verified \cap Blocking}
<1>1. \A f : StateOf(f) \in {"consistent", "missing", "wrong"}
  OBVIOUS
<1>2. verification.verified \cap Blocking \subseteq FactFields
  BY DEF Ledgers
<1>3. items \subseteq Findings
  <2> HIDE DEF StateOf
  <2> SUFFICES ASSUME NEW f \in verification.verified \cap Blocking
               PROVE  [field |-> f, state |-> StateOf(f), human |-> FALSE] \in Findings
    OBVIOUS
  <2>1. f \in FactFields /\ StateOf(f) \in {"consistent", "missing", "wrong"}
    BY <1>1, <1>2
  <2> HIDE DEF StateOf
  <2>2. QED
    BY <2>1 DEF Findings
<1>4. Checks(verification, text, said) \in {factcheck, items}
  BY DEF Checks
<1> HIDE DEF items
<1>5. QED
  BY <1>3, <1>4

LEMMA SyncFacts ==
    ASSUME NEW text \in FactText, NEW home, NEW said, factcheck \subseteq Findings,
           ledger \in Ledgers,
           SyncClaims(text, home, said)
    PROVE  /\ factcheck' \subseteq Findings
           /\ ledger' \in Ledgers
  BY VerifyFacts, ChecksFacts DEF SyncClaims

LEMMA OccursFacts ==
    ASSUME mayFact \in [FactEvent -> Nat], NEW event \in FactEvent, Occurs(event)
    PROVE  /\ mayFact' \in [FactEvent -> Nat]
           /\ mayFact'[event] < mayFact[event]
           /\ \A other \in FactEvent \ {event} : mayFact'[other] = mayFact[other]
  BY DEF Occurs
-----------------------------------------------------------------------------
(* Facts: the invariant                                                    *)

LEMMA FactsInitInv == FactsInit => FactsInv
<1> SUFFICES ASSUME FactsInit PROVE FactsInv
  OBVIOUS
<1>1. PICK b \in Brands : brand = [b EXCEPT !["definition"] = "none"]
  BY DEF FactsInit
<1>2. brand \in Brand
  BY <1>1, BrandsFacts, FieldFacts DEF Brand
<1>3. pages \in Pages /\ pages.described \in pages.text \cup {"none"}
  BY FieldFacts DEF FactsInit, Pages
<1>4. known = pages.text \cup ({brand[f] : f \in FactFields} \ {"none"})
  BY DEF FactsInit
<1>5. known \subseteq FactValues
  BY <1>2, <1>3, <1>4 DEF Brand, Claim, Pages
<1>6. Seen(brand, known) /\ OnSite(pages, known)
  BY <1>3, <1>4 DEF Seen, OnSite
<1>7. /\ facts \in FactText /\ candidate \in FactText
      /\ SeenText(facts, known) /\ SeenText(candidate, known)
  <2>1. PICK by \in {"nobody", "legacy"} : facts = [NoFacts EXCEPT !.by = by]
    BY DEF FactsInit
  <2>2. candidate = NoFacts
    BY DEF FactsInit
  <2>3. NoFacts \in FactText /\ NoFacts.says = [f \in FactFields |-> "none"]
    BY FieldFacts DEF NoFacts, FactText
  <2>4. facts \in FactText /\ facts.says = NoFacts.says
    BY <2>1, <2>3 DEF FactText
  <2>5. QED
    BY <2>2, <2>3, <2>4 DEF SeenText
<1>8. mayFact \in [FactEvent -> Nat]
  BY FactsAssumption DEF FactsInit
<1>9. /\ ledger \in Ledgers /\ kept = {} /\ answers = {} /\ factcheck = {}
  BY DEF FactsInit, NoLedger, Ledgers
<1>10. QED
  BY <1>2, <1>3, <1>5, <1>6, <1>7, <1>8, <1>9 DEF FactsInv, FactsTypeOK, Pages, Brand, Ledgers

\* What is seen only grows.
LEMMA SeenGrows ==
    ASSUME NEW less, NEW more, less \subseteq more
    PROVE  /\ \A data : Seen(data, less) => Seen(data, more)
           /\ \A text : SeenText(text, less) => SeenText(text, more)
  BY DEF Seen, SeenText

LEMMA ReadSiteInv == ASSUME FactsInv, ReadSite PROVE FactsInv'
<1>1. PICK text \in SUBSET FactValues : \E described \in text \cup {"none"} :
        pages' = [text |-> text, described |-> described]
  BY DEF ReadSite
<1>2. /\ pages' \in Pages /\ pages'.text = text
      /\ pages'.described \in pages'.text \cup {"none"}
  BY <1>1, FieldFacts DEF Pages
<1>3. known' = known \cup text /\ known' \subseteq FactValues /\ known \subseteq known'
  BY <1>2 DEF ReadSite, FactsInv
<1>4. OnSite(pages', known')
  BY <1>2, <1>3 DEF OnSite
<1>5. mayFact' \in [FactEvent -> Nat]
  BY OccursFacts DEF ReadSite, FactEvent, FactsInv
<1>6. factcheck' \subseteq Findings /\ ledger' \in Ledgers
  BY SyncFacts DEF ReadSite, Ledgers, FactsInv
<1>7. UNCHANGED <<facts, candidate, kept, brand, answers>>
  BY DEF ReadSite
<1>8. Seen(brand', known') /\ SeenText(facts', known') /\ SeenText(candidate', known')
  BY <1>3, <1>7, SeenGrows DEF FactsInv
<1>9. QED
  BY <1>2, <1>3, <1>4, <1>5, <1>6, <1>7, <1>8 DEF FactsInv

\* The upkeep keeps to what was seen, whatever is configured and crawled by then.
LEMMA EnsureInv ==
    ASSUME facts \in FactText, kept \subseteq FactText, NEW new \in FactText,
           NEW configured \in Brand, NEW home \in Pages, NEW seen,
           OnSite(home, seen), Seen(configured, seen), SeenText(facts, seen),
           SeenText(new, seen), Ensure(facts, new, configured, home)
    PROVE  facts' \in FactText /\ kept' \subseteq FactText /\ SeenText(facts', seen)
<1>1. facts' = Ensured(facts, new, configured, home)
  BY DEF Ensure
<1>2. kept' \subseteq kept \cup {facts}
  BY DEF Ensure, Kept
<1>3. QED
  BY <1>1, <1>2, EnsuredFacts

LEMMA BootstrapInv == ASSUME FactsInv, Bootstrap PROVE FactsInv'
<1> DEFINE Says(data) == Extract(data, brand, pages.text)
           Configured(data) == [f \in FactFields |->
                 IF f = "definition" THEN brand[f] ELSE Provided(Says(data)[f], brand[f])]
           Written(data) == Render(ModelBrand(Says(data), Configured(data)), "model")
<1>1. PICK data \in ModelAnswers :
        /\ brand' = Configured(data)
        /\ candidate' = IF facts.by # "nobody" THEN Written(data) ELSE candidate
        /\ IF facts.by # "nobody" THEN Ensure(facts, Written(data), Configured(data), pages)
           ELSE facts' = Written(data) /\ UNCHANGED kept
        /\ SyncClaims(facts', pages, answers)
  BY DEF Bootstrap
<1>2. pages.text \in SUBSET FactValues /\ pages.text \subseteq known
  BY DEF Pages, OnSite, FactsInv
<1>3. /\ Says(data) \in Brand
      /\ \A f \in FactFields \ {"definition"} : Says(data)[f] \in known \cup {"none"}
  BY <1>2, ModelAnswersFacts, ExtractFacts DEF Seen, FactsInv
<1> DEFINE says == Says(data)
           configured == Configured(data)
           text == Written(data)
<1> HIDE DEF Says
<1>4. configured \in Brand /\ Seen(configured, known)
  BY <1>3 DEF Provided, Brand, Seen, FactsInv
<1> DEFINE model == ModelBrand(Says(data), configured)
<1> HIDE DEF Configured
<1>5. /\ model \in Brand
      /\ \A f \in FactFields \ {"definition"} : model[f] \in known \cup {"none"}
  BY <1>3, <1>4 DEF ModelBrand, Provided, Brand, Seen
<1>6. text \in FactText /\ SeenText(text, known)
  <2> HIDE DEF model
  <2>1. text = Render(model, "model")
    BY DEF model
  <2>2. QED
    BY <2>1, <1>5, RenderFacts DEF SeenText
<1> HIDE DEF Written, configured, text, model
<1>7. /\ brand' = configured
      /\ candidate' \in {text, candidate}
      /\ IF facts.by # "nobody" THEN Ensure(facts, text, configured, pages)
         ELSE facts' = text /\ UNCHANGED kept
      /\ SyncClaims(facts', pages, answers)
  BY <1>1 DEF configured, text
<1>8. UNCHANGED <<pages, answers, known>>
  BY DEF Bootstrap
<1>9. facts' \in FactText /\ kept' \subseteq FactText /\ SeenText(facts', known)
  BY <1>4, <1>6, <1>7, EnsureInv DEF FactsInv
<1>10. factcheck' \subseteq Findings /\ ledger' \in Ledgers
  BY <1>7, <1>9, SyncFacts DEF Ledgers, FactsInv
<1>11. mayFact' \in [FactEvent -> Nat]
  BY OccursFacts DEF Bootstrap, FactEvent, FactsInv
<1>12. QED
  BY <1>4, <1>6, <1>7, <1>8, <1>9, <1>10, <1>11 DEF FactsInv

LEMMA NormalizeInv == ASSUME FactsInv, Normalize PROVE FactsInv'
<1>1. facts' \in FactText /\ kept' \subseteq FactText /\ SeenText(facts', known)
  BY EnsureInv DEF Normalize, FactsInv
<1>2. QED
  BY <1>1 DEF Normalize, FactsInv

LEMMA SaveFactsInv == ASSUME FactsInv, SaveFacts PROVE FactsInv'
<1> DEFINE Asked(b) == [b EXCEPT !["definition"] = IF @ = "none" THEN "todo" ELSE @]
<1>1. PICK says \in {Asked(b) : b \in Brands} \cup Brands, approve \in BOOLEAN :
        /\ facts' = IF approve THEN ReviewedText(says) ELSE UnreviewedText(says)
        /\ known' = known \cup ({says[f] : f \in FactFields} \ {"none", "todo"})
  BY DEF SaveFacts
<1>2. PICK b \in Brands : says \in {b, Asked(b)}
  <2> HIDE DEF Asked
  <2>1. QED
    OBVIOUS
<1>3. says \in [FactFields -> Said] /\ DOMAIN says = FactFields
  <2>1. b \in Brand
    BY BrandsFacts
  <2>2. QED
    BY <1>2, <2>1, FieldFacts DEF Brand
<1>4. facts' \in FactText /\ facts'.says = says
  BY <1>1, <1>3 DEF FactText, ReviewedText, UnreviewedText
<1>5. known \subseteq known' /\ known' \subseteq FactValues
  BY <1>1, <1>3 DEF Said, FactsInv
<1>6. SeenText(facts', known')
  BY <1>1, <1>4 DEF SeenText
<1>7. UNCHANGED <<candidate, kept, brand, pages, answers, factcheck>>
  BY DEF SaveFacts
<1>8. Seen(brand', known') /\ SeenText(candidate', known') /\ OnSite(pages', known')
  BY <1>5, <1>7, SeenGrows DEF OnSite, FactsInv
<1>9. ledger' \in Ledgers
  BY <1>4, VerifyFacts DEF SaveFacts, Ledgers
<1>10. mayFact' \in [FactEvent -> Nat]
  BY OccursFacts DEF SaveFacts, FactEvent, FactsInv
<1>11. QED
  BY <1>4, <1>5, <1>6, <1>7, <1>8, <1>9, <1>10 DEF FactsInv

LEMMA PatchBrandInv == ASSUME FactsInv, PatchBrand PROVE FactsInv'
<1>1. PICK b \in Brands, moved \in BOOLEAN :
        /\ brand' = [b EXCEPT !["definition"] = "none"]
        /\ pages' = IF moved THEN [text |-> {}, described |-> "none"] ELSE pages
        /\ known' = known \cup ({brand'[f] : f \in FactFields} \ {"none"})
  BY DEF PatchBrand
<1>2. brand' \in Brand
  BY <1>1, BrandsFacts, FieldFacts DEF Brand
<1>3. known \subseteq known' /\ known' \subseteq FactValues
  BY <1>1, <1>2 DEF Brand, Claim, FactsInv
<1>4. Seen(brand', known')
  BY <1>1 DEF Seen
<1>5. pages' \in Pages /\ OnSite(pages', known')
  BY <1>1, <1>3, FieldFacts DEF Pages, OnSite, FactsInv
<1>6. /\ UNCHANGED <<candidate, answers, ledger, factcheck>>
      /\ Ensure(facts, candidate, brand', pages')
  BY DEF PatchBrand
<1>7. SeenText(facts, known') /\ SeenText(candidate, known')
  BY <1>3, SeenGrows DEF FactsInv
<1>8. facts' \in FactText /\ kept' \subseteq FactText /\ SeenText(facts', known')
  BY <1>2, <1>4, <1>5, <1>6, <1>7, EnsureInv DEF FactsInv
<1>9. mayFact' \in [FactEvent -> Nat]
  BY OccursFacts DEF PatchBrand, FactEvent, FactsInv
<1>10. QED
  BY <1>2, <1>3, <1>4, <1>5, <1>6, <1>7, <1>8, <1>9 DEF FactsInv

LEMMA SampleAnswersInv == ASSUME FactsInv, SampleAnswers PROVE FactsInv'
<1>1. factcheck' \subseteq Findings /\ ledger' \in Ledgers
  BY SyncFacts DEF SampleAnswers, Ledgers, FactsInv
<1>2. mayFact' \in [FactEvent -> Nat]
  BY OccursFacts DEF SampleAnswers, FactEvent, FactsInv
<1>3. QED
  BY <1>1, <1>2 DEF SampleAnswers, FactsInv

LEMMA SaveFactcheckInv == ASSUME FactsInv, SaveFactcheck PROVE FactsInv'
<1>1. factcheck' = {} \/ factcheck' = {[field |-> "name", state |-> "wrong", human |-> TRUE]}
  BY DEF SaveFactcheck
<1>2. [field |-> "name", state |-> "wrong", human |-> TRUE] \in Findings
  BY FieldFacts DEF Findings
<1>3. mayFact' \in [FactEvent -> Nat]
  BY OccursFacts DEF SaveFactcheck, FactEvent, FactsInv
<1>4. QED
  BY <1>1, <1>2, <1>3 DEF SaveFactcheck, FactsInv

LEMMA FactsNextInv == FactsInv /\ [FactsNext]_factsVars => FactsInv'
<1> SUFFICES ASSUME FactsInv, [FactsNext]_factsVars PROVE FactsInv'
  OBVIOUS
<1>1. CASE UNCHANGED factsVars
  BY <1>1 DEF factsVars, FactsInv
<1>2. CASE FactsNext
  BY <1>2, ReadSiteInv, BootstrapInv, NormalizeInv, SaveFactsInv, PatchBrandInv,
     SampleAnswersInv, SaveFactcheckInv DEF FactsNext
<1>3. QED
  BY <1>1, <1>2

-----------------------------------------------------------------------------
(* Facts: what is proved                                                   *)

LEMMA FactsInvHolds == FactsInv => FactsTypeOK /\ InventionsStayOut
<1> SUFFICES ASSUME FactsInv PROVE FactsTypeOK /\ InventionsStayOut
  OBVIOUS
<1>1. InventionsStayOut
  BY DEF InventionsStayOut, Seen, SeenText, FactsInv
<1>2. /\ pages.text \subseteq FactValues /\ pages.described \in pages.text \cup {"none"}
      /\ ledger.verified \subseteq FactFields
  BY DEF FactsInv, Pages, Ledgers, OnSite
<1>3. QED
  BY <1>1, <1>2 DEF FactsInv, FactsTypeOK, Brand, Findings

\* Nobody but a user changes what a user saved, and a text of the engine's from
\* before is kept when it is replaced.
UserTextKept ==
    /\ (facts.by = "user" /\ facts' # facts) => mayFact'["save"] < mayFact["save"]
    /\ (facts.by = "legacy" /\ facts' # facts /\ mayFact'["save"] = mayFact["save"])
         => facts \in kept'

LEMMA EnsureKeeps ==
    ASSUME facts \in FactText, NEW new, NEW configured, NEW home,
           Ensure(facts, new, configured, home)
    PROVE  /\ facts.by = "user" => facts' = facts
           /\ facts.by = "legacy" /\ facts' # facts => facts \in kept'
<1>1. facts.by = "user" => facts' = facts
  BY EnsuredKeeps DEF Ensure
<1>2. ASSUME facts.by = "legacy", facts' # facts PROVE facts \in kept'
  BY <1>2 DEF Ensure, Kept
<1>3. QED
  BY <1>1, <1>2

LEMMA FactsStepKeeps == FactsInv /\ [FactsNext]_factsVars => UserTextKept
<1> SUFFICES ASSUME FactsInv, [FactsNext]_factsVars PROVE UserTextKept
  OBVIOUS
<1>1. facts \in FactText /\ mayFact \in [FactEvent -> Nat]
  BY DEF FactsInv
<1>2. ASSUME facts' = facts PROVE UserTextKept
  BY <1>2 DEF UserTextKept
<1>3. ASSUME NEW new, NEW configured, NEW home, Ensure(facts, new, configured, home)
      PROVE  UserTextKept
  BY <1>1, <1>3, EnsureKeeps DEF UserTextKept
<1>4. CASE SaveFacts
  <2>1. mayFact'["save"] < mayFact["save"] /\ mayFact'["save"] # mayFact["save"]
    BY <1>1, <1>4, OccursFacts DEF SaveFacts, FactEvent
  <2>2. QED
    BY <2>1 DEF UserTextKept
<1>5. CASE Bootstrap
  <2>1. CASE facts.by = "nobody"
    BY <2>1 DEF UserTextKept
  <2>2. CASE facts.by # "nobody"
    <3>1. PICK new, configured : Ensure(facts, new, configured, pages)
      BY <1>5, <2>2 DEF Bootstrap
    <3>2. QED
      BY <3>1, <1>3
  <2>3. QED
    BY <2>1, <2>2
<1>6. CASE Normalize
  BY <1>3, <1>6 DEF Normalize
<1>7. CASE PatchBrand
  BY <1>3, <1>7 DEF PatchBrand
<1>8. CASE ReadSite \/ SampleAnswers \/ SaveFactcheck \/ UNCHANGED factsVars
  BY <1>2, <1>8 DEF ReadSite, SampleAnswers, SaveFactcheck, factsVars
<1>9. QED
  BY <1>4, <1>5, <1>6, <1>7, <1>8 DEF FactsNext

\* The facts, the configuration, the ledger and the checks keep to their values.
THEOREM FactsTyped == FactsSpec => []FactsTypeOK
  BY FactsInitInv, FactsNextInv, FactsInvHolds, PTL DEF FactsSpec

\* What the project says of its brand comes from the site or from its users, and what a user saved
\* is replaced by a save alone, whatever models invent and however site, configuration and texts
\* feed each other.
THEOREM FactsOwned == FactsSpec => FactsAreOwned
<1>1. FactsSpec => []FactsInv
  BY FactsInitInv, FactsNextInv, PTL DEF FactsSpec
<1>2. FactsInv /\ [FactsNext]_factsVars => [UserTextKept]_factsVars
  BY FactsStepKeeps
<1>3. QED
  BY <1>1, <1>2, FactsInvHolds, PTL DEF FactsSpec, FactsAreOwned, UserTextStays, UserTextKept
-----------------------------------------------------------------------------
(* Deliveries: the values                                                  *)


Project == [version : Nat, pages : BOOLEAN, measured : BOOLEAN, finished : BOOLEAN]
BuildState == [step : {"none", "stage", "staged", "checked", "aside", "in"},
          day : Day \cup {0}, by : {"nobody", "job", "send"}]
ReaderState == [step : {"none", "open", "half", "end"}, day : Day \cup {0},
           public : BOOLEAN, read : SUBSET Packs]

\* A build that began has no backup of its day until it moves the package aside,
\* and what it stages passed the gate.
BuildFits ==
    /\ build.step # "none" => build.day \in Day
    /\ build.step \in {"stage", "staged", "checked"} => spare[build.day] = NoPack
    /\ build.step \in {"staged", "checked", "aside"} => staging.gate
    /\ build.step = "aside" => published[build.day] = NoPack
    /\ build.step = "in" => published[build.day] # NoPack

\* What a reader may still meet on the day it reads passed the gate, also when
\* it is aside for a moment.
ReaderFits ==
    /\ \A pack \in reader.read : pack.gate
    /\ reader.step \in {"open", "half"} =>
         /\ reader.day \in Day
         /\ published[reader.day] # NoPack => published[reader.day].gate
         /\ published[reader.day] = NoPack /\ spare[reader.day] # NoPack
              => spare[reader.day].gate

DeliveryTypes ==
    /\ today \in Day /\ content \in Project
    /\ published \in [Day -> Packs] /\ spare \in [Day -> Packs] /\ staging \in Packs
    /\ build \in BuildState /\ canceling \in BOOLEAN
    /\ shares \subseteq [day : Day, until : Nat]
    /\ reader \in ReaderState
    /\ mayDeliver \in [DeliveryEvent -> Nat]

DeliveryInv == DeliveryTypes /\ BuildFits /\ ReaderFits

\* Of every day there is a package, published or as a backup, that had one.
PacksLast ==
    \A d \in Day :
      (published[d] # NoPack \/ spare[d] # NoPack) => (published'[d] # NoPack \/ spare'[d] # NoPack)

LEMMA PackFacts ==
    /\ NoPack \in Packs /\ EnginePack \in Packs /\ NoPack.gate = FALSE
    /\ \A pack \in Packs : pack.gate => pack # NoPack
    /\ \A project \in Project : PackOf(project, TRUE) \in Packs /\ PackOf(project, TRUE).gate
  BY DEF NoPack, EnginePack, Packs, PackOf, KindOf, Project

LEMMA DayFacts == 1 \in Day /\ Day \subseteq Nat \ {0} /\ 0 \notin Day
  BY DeliveriesAssumption DEF Day

LEMMA UseFacts ==
    ASSUME mayDeliver \in [DeliveryEvent -> Nat], NEW event \in DeliveryEvent, UseDelivery(event)
    PROVE  mayDeliver' \in [DeliveryEvent -> Nat]
  BY DEF UseDelivery, CanDeliver

LEMMA GreatestOf ==
    ASSUME NEW S, S \subseteq Day, S # {}
    PROVE  \E d \in S : \A e \in S : e <= d
<1> DEFINE Less == {p \in Nat \X Nat : p[1] < p[2]}
           T == {Days - d : d \in S}
<1>1. IsWellFoundedOn(Less, Nat)
  BY NatLessThanWellFounded DEF OpToRel
<1>2. T \subseteq Nat /\ T # {}
  <2>1. ASSUME NEW d \in S PROVE Days - d \in Nat
    BY DeliveriesAssumption DEF Day
  <2>2. QED
    BY <2>1
<1>3. \E n \in T : \A m \in T : ~(<<m, n>> \in Less)
  <2> HIDE DEF Less, T
  <2> QED BY <1>1, <1>2, WFMin, Zenon
<1>4. PICK d \in S : \A m \in T : ~(<<m, Days - d>> \in Less)
  <2> HIDE DEF Less
  <2>1. QED
    BY <1>3
<1>5. ASSUME NEW e \in S PROVE e <= d
  <2>1. Days - e \in Nat /\ Days - d \in Nat /\ e \in Nat /\ d \in Nat
    BY DeliveriesAssumption DEF Day
  <2>2. ~(<<Days - e, Days - d>> \in Less)
    <3> HIDE DEF Less
    <3>1. QED
      BY <1>4
  <2>3. ~(Days - e < Days - d)
    BY <2>1, <2>2
  <2>4. QED
    BY <2>1, <2>3, DeliveriesAssumption
<1>6. QED
  BY <1>5

LEMMA LatestIsDay == today \in Day => LatestOrToday \in Day
<1> SUFFICES ASSUME today \in Day PROVE LatestOrToday \in Day
  OBVIOUS
<1>1. Dated \subseteq Day
  BY DEF Dated
<1>2. CASE Dated = {}
  BY <1>2 DEF LatestOrToday
<1>3. CASE Dated # {}
  <2>1. \E d \in Dated : \A e \in Dated : e <= d
    BY <1>1, <1>3, GreatestOf
  <2>2. LatestOrToday \in Dated
    BY <1>3, <2>1 DEF LatestOrToday
  <2>3. QED
    BY <1>1, <2>2
<1>4. QED
  BY <1>2, <1>3

LEMMA DeliveriesInitInv == DeliveriesInit => DeliveryInv
<1> SUFFICES ASSUME DeliveriesInit PROVE DeliveryInv
  OBVIOUS
<1>1. published \in [Day -> Packs] /\ spare \in [Day -> Packs] /\ staging \in Packs
  BY PackFacts DEF DeliveriesInit
<1>2. content \in Project /\ today \in Day
  BY DayFacts DEF DeliveriesInit, Project
<1>3. build = NoBuild /\ reader = NoReader /\ canceling = FALSE /\ shares = {}
  BY DEF DeliveriesInit
<1>4. NoBuild \in BuildState /\ NoReader \in ReaderState /\ NoReader.read = {} /\ NoReader.step = "none"
      /\ NoBuild.step = "none"
  BY DEF NoBuild, NoReader, BuildState, ReaderState
<1>5. mayDeliver \in [DeliveryEvent -> Nat]
  BY DeliveriesAssumption DEF DeliveriesInit
<1>6. QED
  BY <1>1, <1>2, <1>3, <1>4, <1>5 DEF DeliveryInv, DeliveryTypes, BuildFits, ReaderFits

-----------------------------------------------------------------------------
(* Deliveries: the steps                                                   *)

\* A package lost halfway is back before anything is swept.
LEMMA BuildBeginsSafe ==
    ASSUME DeliveryInv, NEW d \in Day, NEW by \in {"job", "send"}, BuildBegins(d, by),
           today' \in Day, content' \in Project, canceling' \in BOOLEAN,
           shares' \subseteq [day : Day, until : Nat], reader' = reader,
           mayDeliver' \in [DeliveryEvent -> Nat]
    PROVE  DeliveryInv' /\ PacksLast
<1> DEFINE target == [published EXCEPT ![d] = IF @ = NoPack THEN spare[d] ELSE @]
           rest == [spare EXCEPT ![d] = IF published[d] = NoPack THEN NoPack ELSE @]
<1>1. published \in [Day -> Packs] /\ spare \in [Day -> Packs]
  BY DEF DeliveryInv, DeliveryTypes
<1>2. /\ target \in [Day -> Packs]
      /\ target[d] = IF published[d] = NoPack THEN spare[d] ELSE published[d]
      /\ \A e \in Day \ {d} : target[e] = published[e]
  BY <1>1
<1>3. /\ rest \in [Day -> Packs]
      /\ rest[d] = IF published[d] = NoPack THEN NoPack ELSE spare[d]
      /\ \A e \in Day \ {d} : rest[e] = spare[e]
  BY <1>1, PackFacts
<1>4. /\ published' = target /\ staging' = NoPack
      /\ spare' = [e \in Day |-> IF rest[e] = NoPack THEN NoPack ELSE SweptSpare(target)[e]]
      /\ build' = [step |-> "stage", day |-> d, by |-> by]
  BY DEF BuildBegins
<1> HIDE DEF target, rest
<1>5. \A e \in Day : spare'[e] = IF rest[e] = NoPack \/ target[e] # NoPack THEN NoPack ELSE spare[e]
  BY <1>4 DEF SweptSpare
<1>6. spare' \in [Day -> Packs]
  BY <1>1, <1>4, PackFacts DEF SweptSpare
<1>7. spare'[d] = NoPack
  BY <1>2, <1>3, <1>5
<1>8. PacksLast
  <2> SUFFICES ASSUME NEW e \in Day, published[e] # NoPack \/ spare[e] # NoPack
               PROVE  published'[e] # NoPack \/ spare'[e] # NoPack
    BY DEF PacksLast
  <2>1. CASE e = d
    BY <2>1, <1>2, <1>4
  <2>2. CASE e # d
    BY <2>2, <1>2, <1>3, <1>4, <1>5
  <2>3. QED
    BY <2>1, <2>2
<1>9. DeliveryTypes'
  BY <1>2, <1>4, <1>6, PackFacts DEF DeliveryInv, DeliveryTypes, BuildState
<1>10. BuildFits'
  BY <1>4, <1>7 DEF BuildFits
<1>11. ReaderFits'
  <2>1. ASSUME reader.step \in {"open", "half"}
        PROVE  /\ reader.day \in Day
               /\ published'[reader.day] # NoPack => published'[reader.day].gate
               /\ published'[reader.day] = NoPack /\ spare'[reader.day] # NoPack
                    => spare'[reader.day].gate
    <3>1. /\ reader.day \in Day
          /\ published[reader.day] # NoPack => published[reader.day].gate
          /\ published[reader.day] = NoPack /\ spare[reader.day] # NoPack
               => spare[reader.day].gate
      BY <2>1 DEF DeliveryInv, ReaderFits
    <3>2. CASE reader.day = d
      BY <3>1, <3>2, <1>2, <1>4, <1>7
    <3>3. CASE reader.day # d
      BY <3>1, <3>3, <1>2, <1>3, <1>4, <1>5
    <3>4. QED
      BY <3>1, <3>2, <3>3
  <2>2. QED
    BY <2>1 DEF DeliveryInv, ReaderFits
<1>12. QED
  BY <1>8, <1>9, <1>10, <1>11 DEF DeliveryInv

\* What leaves the packages and the build alone keeps them.
LEMMA AloneSafe ==
    ASSUME DeliveryInv, UNCHANGED <<published, spare>>, DeliveryTypes', BuildFits', ReaderFits'
    PROVE  DeliveryInv' /\ PacksLast
  BY DEF DeliveryInv, PacksLast

LEMMA JobBeginsSafe == ASSUME DeliveryInv, JobBegins PROVE DeliveryInv' /\ PacksLast
<1>1. LatestOrToday \in Day
  BY LatestIsDay DEF DeliveryInv, DeliveryTypes
<1>2. mayDeliver' \in [DeliveryEvent -> Nat]
  BY UseFacts DEF JobBegins, DeliveryInv, DeliveryTypes, DeliveryEvent
<1>3. BuildBegins(LatestOrToday, "job") /\ canceling' = FALSE
      /\ UNCHANGED <<today, content, shares, reader>>
  BY DEF JobBegins
<1>4. QED
  BY <1>1, <1>2, <1>3, BuildBeginsSafe DEF DeliveryInv, DeliveryTypes

LEMMA SendRebuildsSafe ==
    ASSUME DeliveryInv, NEW d \in Day, SendRebuilds(d)
    PROVE  DeliveryInv' /\ PacksLast
<1>1. mayDeliver' \in [DeliveryEvent -> Nat]
  BY UseFacts DEF SendRebuilds, DeliveryInv, DeliveryTypes, DeliveryEvent
<1>2. BuildBegins(d, "send") /\ UNCHANGED <<today, content, canceling, shares, reader>>
  BY DEF SendRebuilds
<1>3. QED
  BY <1>1, <1>2, BuildBeginsSafe DEF DeliveryInv, DeliveryTypes

LEMMA BuildStepFacts ==
    ASSUME build \in BuildState, NEW to \in {"none", "stage", "staged", "checked", "aside", "in"}
    PROVE  /\ [build EXCEPT !.step = to] \in BuildState
           /\ [build EXCEPT !.step = to].step = to
           /\ [build EXCEPT !.step = to].day = build.day
  BY DEF BuildState

LEMMA BuildStagesSafe == ASSUME DeliveryInv, BuildStages PROVE DeliveryInv' /\ PacksLast
<1>1. /\ build' \in BuildState /\ build'.step = "staged" /\ build'.day = build.day
      /\ build.step = "stage"
  BY BuildStepFacts DEF BuildStages, DeliveryInv, DeliveryTypes
<1>2. staging' \in Packs /\ staging'.gate
  BY PackFacts DEF BuildStages, DeliveryInv, DeliveryTypes
<1>3. UNCHANGED <<today, content, published, spare, canceling, shares, reader, mayDeliver>>
  BY DEF BuildStages
<1>4. BuildFits' /\ ReaderFits'
  BY <1>1, <1>2, <1>3 DEF DeliveryInv, BuildFits, ReaderFits
<1>5. QED
  BY <1>1, <1>2, <1>3, <1>4, AloneSafe DEF DeliveryInv, DeliveryTypes

LEMMA NoBuildFacts == NoBuild \in BuildState /\ NoBuild.step = "none"
  BY DEF NoBuild, BuildState

LEMMA BuildFailsSafe == ASSUME DeliveryInv, BuildFails PROVE DeliveryInv' /\ PacksLast
<1>1. /\ staging' = NoPack /\ build' = NoBuild
      /\ UNCHANGED <<today, content, published, spare, canceling, shares, reader, mayDeliver>>
  BY DEF BuildFails
<1>2. BuildFits' /\ ReaderFits'
  BY <1>1, NoBuildFacts DEF DeliveryInv, BuildFits, ReaderFits
<1>3. QED
  BY <1>1, <1>2, NoBuildFacts, PackFacts, AloneSafe DEF DeliveryInv, DeliveryTypes

LEMMA BuildChecksSafe == ASSUME DeliveryInv, BuildChecks PROVE DeliveryInv' /\ PacksLast
<1>1. /\ build' \in BuildState /\ build'.step = "checked" /\ build'.day = build.day
      /\ build.step = "staged"
  BY BuildStepFacts DEF BuildChecks, DeliveryInv, DeliveryTypes
<1>2. UNCHANGED <<today, content, published, spare, staging, canceling, shares, reader, mayDeliver>>
  BY DEF BuildChecks
<1>3. BuildFits' /\ ReaderFits'
  BY <1>1, <1>2 DEF DeliveryInv, BuildFits, ReaderFits
<1>4. QED
  BY <1>1, <1>2, <1>3, AloneSafe DEF DeliveryInv, DeliveryTypes

\* Steps of a build that move packages of its day, seen from a reader.
LEMMA MovesSafe ==
    ASSUME DeliveryInv, NEW d \in Day, NEW front \in Packs, NEW back \in Packs,
           published' = [published EXCEPT ![d] = front], spare' = [spare EXCEPT ![d] = back],
           front = NoPack /\ back = NoPack => published[d] = NoPack /\ spare[d] = NoPack,
           \/ front.gate
           \/ front = NoPack /\ back \in {published[d], NoPack}
           \/ published[d] = NoPack /\ front \in {spare[d], NoPack} /\ back \in {spare[d], NoPack},
           reader' = reader
    PROVE  PacksLast /\ ReaderFits'
<1>1. published \in [Day -> Packs] /\ spare \in [Day -> Packs]
  BY DEF DeliveryInv, DeliveryTypes
<1>2. /\ published'[d] = front /\ spare'[d] = back
      /\ \A e \in Day \ {d} : published'[e] = published[e] /\ spare'[e] = spare[e]
  BY <1>1
<1>3. PacksLast
  BY <1>2 DEF PacksLast
<1>4. ASSUME reader.step \in {"open", "half"}
      PROVE  /\ reader.day \in Day
             /\ published'[reader.day] # NoPack => published'[reader.day].gate
             /\ published'[reader.day] = NoPack /\ spare'[reader.day] # NoPack
                  => spare'[reader.day].gate
  <2>1. /\ reader.day \in Day
        /\ published[reader.day] # NoPack => published[reader.day].gate
        /\ published[reader.day] = NoPack /\ spare[reader.day] # NoPack
             => spare[reader.day].gate
    BY <1>4 DEF DeliveryInv, ReaderFits
  <2>2. CASE reader.day # d
    BY <2>1, <2>2, <1>2
  <2>3. CASE reader.day = d
    BY <2>1, <2>3, <1>2, PackFacts
  <2>4. QED
    BY <2>2, <2>3
<1>5. QED
  BY <1>3, <1>4 DEF DeliveryInv, ReaderFits

LEMMA MovesAsideSafe == ASSUME DeliveryInv, MovesAside PROVE DeliveryInv' /\ PacksLast
<1>1. /\ build' \in BuildState /\ build'.step = "aside" /\ build'.day = build.day
      /\ build.step = "checked" /\ build.day \in Day
  BY BuildStepFacts DEF MovesAside, DeliveryInv, DeliveryTypes, BuildFits
<1>2. /\ published \in [Day -> Packs] /\ spare \in [Day -> Packs] /\ staging.gate
      /\ spare[build.day] = NoPack
  BY <1>1 DEF DeliveryInv, DeliveryTypes, BuildFits
<1>3. /\ spare' = [spare EXCEPT ![build.day] = published[build.day]]
      /\ published' = [published EXCEPT ![build.day] = NoPack]
      /\ UNCHANGED <<today, content, staging, canceling, shares, reader, mayDeliver>>
  BY DEF MovesAside
<1>4. PacksLast /\ ReaderFits'
  BY <1>1, <1>2, <1>3, PackFacts, MovesSafe
<1>5. published' \in [Day -> Packs] /\ spare' \in [Day -> Packs] /\ published'[build.day] = NoPack
  BY <1>1, <1>2, <1>3, PackFacts
<1>6. DeliveryTypes' /\ BuildFits'
  BY <1>1, <1>2, <1>3, <1>5 DEF DeliveryInv, DeliveryTypes, BuildFits
<1>7. QED
  BY <1>4, <1>6 DEF DeliveryInv

LEMMA MovesInSafe == ASSUME DeliveryInv, MovesIn PROVE DeliveryInv' /\ PacksLast
<1>1. /\ build' \in BuildState /\ build'.step = "in" /\ build'.day = build.day
      /\ build.step = "aside" /\ build.day \in Day
  BY BuildStepFacts DEF MovesIn, DeliveryInv, DeliveryTypes, BuildFits
<1>2. /\ published \in [Day -> Packs] /\ spare \in [Day -> Packs]
      /\ staging \in Packs /\ staging.gate /\ staging # NoPack
  BY <1>1, PackFacts DEF DeliveryInv, DeliveryTypes, BuildFits
<1>3. /\ published' = [published EXCEPT ![build.day] = staging] /\ staging' = NoPack
      /\ spare' = [spare EXCEPT ![build.day] = spare[build.day]]
      /\ UNCHANGED <<today, content, spare, canceling, shares, reader, mayDeliver>>
  BY <1>2 DEF MovesIn
<1>4. spare[build.day] \in Packs
  BY <1>1, <1>2
<1>5. PacksLast /\ ReaderFits'
  BY <1>1, <1>2, <1>3, <1>4, PackFacts, MovesSafe
<1>6. published' \in [Day -> Packs] /\ published'[build.day] # NoPack
  BY <1>1, <1>2, <1>3
<1>7. DeliveryTypes' /\ BuildFits'
  BY <1>1, <1>2, <1>3, <1>6, PackFacts DEF DeliveryInv, DeliveryTypes, BuildFits
<1>8. QED
  BY <1>5, <1>7 DEF DeliveryInv

LEMMA MoveFailsSafe == ASSUME DeliveryInv, MoveFails PROVE DeliveryInv' /\ PacksLast
<1>1. /\ build.step = "aside" /\ build.day \in Day
      /\ published[build.day] = NoPack
      /\ published \in [Day -> Packs] /\ spare \in [Day -> Packs]
  BY DEF MoveFails, DeliveryInv, DeliveryTypes, BuildFits
<1>2. /\ published' = [published EXCEPT ![build.day] = spare[build.day]]
      /\ spare' = [spare EXCEPT ![build.day] = NoPack]
      /\ staging' = NoPack /\ build' = NoBuild
      /\ UNCHANGED <<today, content, canceling, shares, reader, mayDeliver>>
  BY DEF MoveFails
<1>3. spare[build.day] \in Packs
  BY <1>1
<1>4. PacksLast /\ ReaderFits'
  BY <1>1, <1>2, <1>3, PackFacts, MovesSafe
<1>5. DeliveryTypes' /\ BuildFits'
  BY <1>1, <1>2, <1>3, NoBuildFacts, PackFacts DEF DeliveryInv, DeliveryTypes, BuildFits
<1>6. QED
  BY <1>4, <1>5 DEF DeliveryInv

LEMMA ShareFacts ==
    ASSUME today \in Day, NEW d \in Day
    PROVE  NewShare(d) \in [day : Day, until : Nat]
  BY DayFacts DEF NewShare

LEMMA BuildEndsSafe == ASSUME DeliveryInv, BuildEnds PROVE DeliveryInv' /\ PacksLast
<1>1. /\ build.step = "in" /\ build.day \in Day
      /\ published[build.day] # NoPack
      /\ published \in [Day -> Packs] /\ spare \in [Day -> Packs]
  BY DEF BuildEnds, DeliveryInv, DeliveryTypes, BuildFits
<1>2. /\ published' = published
      /\ spare' = [spare EXCEPT ![build.day] = NoPack]
      /\ build' = NoBuild /\ shares' \subseteq shares \cup {NewShare(build.day)}
      /\ UNCHANGED <<today, content, staging, canceling, reader, mayDeliver>>
  BY DEF BuildEnds
<1>3. /\ spare' \in [Day -> Packs] /\ spare'[build.day] = NoPack
      /\ \A e \in Day \ {build.day} : spare'[e] = spare[e]
  BY <1>1, <1>2, PackFacts
<1>4. PacksLast
  BY <1>1, <1>2, <1>3 DEF PacksLast
<1>5. ReaderFits'
  BY <1>1, <1>2, <1>3 DEF DeliveryInv, ReaderFits
<1>6. DeliveryTypes' /\ BuildFits'
  BY <1>1, <1>2, <1>3, NoBuildFacts, ShareFacts DEF DeliveryInv, DeliveryTypes, BuildFits
<1>7. QED
  BY <1>4, <1>5, <1>6 DEF DeliveryInv

LEMMA BuildDiesSafe == ASSUME DeliveryInv, BuildDies PROVE DeliveryInv' /\ PacksLast
<1>1. mayDeliver' \in [DeliveryEvent -> Nat]
  BY UseFacts DEF BuildDies, DeliveryInv, DeliveryTypes, DeliveryEvent
<1>2. build' = NoBuild /\ UNCHANGED <<today, content, published, spare, staging, canceling, shares, reader>>
  BY DEF BuildDies
<1>3. BuildFits' /\ ReaderFits'
  BY <1>2, NoBuildFacts DEF DeliveryInv, BuildFits, ReaderFits
<1>4. QED
  BY <1>1, <1>2, <1>3, NoBuildFacts, AloneSafe DEF DeliveryInv, DeliveryTypes

LEMMA CancelSafe == ASSUME DeliveryInv, Cancel PROVE DeliveryInv' /\ PacksLast
<1>1. mayDeliver' \in [DeliveryEvent -> Nat]
  BY UseFacts DEF Cancel, DeliveryInv, DeliveryTypes, DeliveryEvent
<1>2. canceling' = TRUE /\ UNCHANGED <<today, content, published, spare, staging, build, shares, reader>>
  BY DEF Cancel
<1>3. BuildFits' /\ ReaderFits'
  BY <1>2 DEF DeliveryInv, BuildFits, ReaderFits
<1>4. QED
  BY <1>1, <1>2, <1>3, AloneSafe DEF DeliveryInv, DeliveryTypes

LEMMA SendSharesSafe ==
    ASSUME DeliveryInv, NEW d \in Day, SendShares(d)
    PROVE  DeliveryInv' /\ PacksLast
<1>1. mayDeliver' \in [DeliveryEvent -> Nat]
  BY UseFacts DEF SendShares, DeliveryInv, DeliveryTypes, DeliveryEvent
<1>2. /\ shares' = shares \cup {NewShare(d)}
      /\ UNCHANGED <<today, content, published, spare, staging, build, canceling, reader>>
  BY DEF SendShares
<1>3. BuildFits' /\ ReaderFits'
  BY <1>2 DEF DeliveryInv, BuildFits, ReaderFits
<1>4. QED
  BY <1>1, <1>2, <1>3, ShareFacts, AloneSafe DEF DeliveryInv, DeliveryTypes

\* A reader that opens a package opens a valid one.
LEMMA OpensSafe ==
    ASSUME DeliveryInv, NEW d \in Day, NEW public \in BOOLEAN,
           published[d] # NoPack, Valid(published[d]),
           reader' = [step |-> "open", day |-> d, public |-> public, read |-> {}],
           mayDeliver' \in [DeliveryEvent -> Nat],
           UNCHANGED <<today, content, published, spare, staging, build, canceling, shares>>
    PROVE  DeliveryInv' /\ PacksLast
<1>1. reader' \in ReaderState
  BY DEF ReaderState
<1>2. ReaderFits'
  BY DEF ReaderFits, Valid
<1>3. BuildFits'
  BY DEF DeliveryInv, BuildFits
<1>4. QED
  BY <1>1, <1>2, <1>3, AloneSafe DEF DeliveryInv, DeliveryTypes

LEMMA OwnerDownloadsSafe ==
    ASSUME DeliveryInv, NEW d \in Day, OwnerDownloads(d)
    PROVE  DeliveryInv' /\ PacksLast
<1>1. mayDeliver' \in [DeliveryEvent -> Nat]
  BY UseFacts DEF OwnerDownloads, DeliveryInv, DeliveryTypes, DeliveryEvent
<1>2. /\ published[d] # NoPack
      /\ UNCHANGED <<today, content, published, spare, staging, build, canceling, shares>>
  BY DEF OwnerDownloads
<1>3. CASE Valid(published[d])
  <2>1. reader' = [step |-> "open", day |-> d, public |-> FALSE, read |-> {}]
    BY <1>3 DEF OwnerDownloads
  <2>2. QED
    BY <1>1, <1>2, <1>3, <2>1, OpensSafe
<1>4. CASE ~Valid(published[d])
  <2>1. reader' = [step |-> "end", day |-> d, public |-> FALSE, read |-> {PackOf(content, TRUE)}]
    BY <1>4 DEF OwnerDownloads
  <2>2. PackOf(content, TRUE) \in Packs /\ PackOf(content, TRUE).gate
    BY PackFacts DEF DeliveryInv, DeliveryTypes
  <2>3. reader' \in ReaderState /\ reader'.step = "end" /\ reader'.read = {PackOf(content, TRUE)}
    BY <2>1, <2>2 DEF ReaderState
  <2>4. BuildFits' /\ ReaderFits'
    BY <1>2, <2>2, <2>3 DEF DeliveryInv, BuildFits, ReaderFits
  <2>5. QED
    BY <1>1, <1>2, <2>3, <2>4, AloneSafe DEF DeliveryInv, DeliveryTypes
<1>5. QED
  BY <1>3, <1>4

LEMMA ClientDownloadsSafe ==
    ASSUME DeliveryInv, NEW share \in shares, ClientDownloads(share)
    PROVE  DeliveryInv' /\ PacksLast
<1>1. mayDeliver' \in [DeliveryEvent -> Nat]
  BY UseFacts DEF ClientDownloads, DeliveryInv, DeliveryTypes, DeliveryEvent
<1>2. share.day \in Day
  BY DEF DeliveryInv, DeliveryTypes
<1>3. /\ published[share.day] # NoPack /\ Valid(published[share.day])
      /\ reader' = [step |-> "open", day |-> share.day, public |-> TRUE, read |-> {}]
      /\ UNCHANGED <<today, content, published, spare, staging, build, canceling, shares>>
  BY DEF ClientDownloads
<1>4. QED
  BY <1>1, <1>2, <1>3, OpensSafe

LEMMA ReaderReadsSafe == ASSUME DeliveryInv, ReaderReads PROVE DeliveryInv' /\ PacksLast
<1>1. /\ reader \in ReaderState /\ reader.step \in {"open", "half"} /\ reader.day \in Day
      /\ published[reader.day] # NoPack => published[reader.day].gate
      /\ published[reader.day] \in Packs
      /\ \A pack \in reader.read : pack.gate
  BY DEF ReaderReads, DeliveryInv, DeliveryTypes, ReaderFits
<1>2. UNCHANGED <<today, content, published, spare, staging, build, canceling, shares, mayDeliver>>
  BY DEF ReaderReads
<1>3. reader' \in ReaderState /\ ReaderFits'
  <2>1. CASE published[reader.day] = NoPack
    <3>1. reader' = NoReader
      BY <2>1 DEF ReaderReads
    <3>2. QED
      BY <3>1 DEF NoReader, ReaderState, ReaderFits
  <2>2. CASE published[reader.day] # NoPack
    <3>1. /\ reader' \in ReaderState /\ reader'.day = reader.day
          /\ reader'.read = reader.read \cup {published[reader.day]}
      BY <1>1, <2>2 DEF ReaderReads, ReaderState
    <3>2. QED
      BY <1>1, <1>2, <2>2, <3>1 DEF DeliveryInv, ReaderFits
  <2>3. QED
    BY <2>1, <2>2
<1>4. BuildFits'
  BY <1>2 DEF DeliveryInv, BuildFits
<1>5. QED
  BY <1>2, <1>3, <1>4, AloneSafe DEF DeliveryInv, DeliveryTypes

LEMMA ReaderEndsSafe == ASSUME DeliveryInv, ReaderEnds PROVE DeliveryInv' /\ PacksLast
<1>1. UNCHANGED <<today, content, published, spare, staging, build, canceling, shares, mayDeliver>>
      /\ reader' = NoReader
  BY DEF ReaderEnds
<1>2. reader' \in ReaderState /\ ReaderFits'
  BY <1>1 DEF NoReader, ReaderState, ReaderFits
<1>3. BuildFits'
  BY <1>1 DEF DeliveryInv, BuildFits
<1>4. QED
  BY <1>1, <1>2, <1>3, AloneSafe DEF DeliveryInv, DeliveryTypes

LEMMA WorkSafe == ASSUME DeliveryInv, Work PROVE DeliveryInv' /\ PacksLast
<1>1. mayDeliver' \in [DeliveryEvent -> Nat]
  BY UseFacts DEF Work, DeliveryInv, DeliveryTypes, DeliveryEvent
<1>2. content' \in Project
  BY DEF Work, DeliveryInv, DeliveryTypes, Project
<1>3. UNCHANGED <<today, published, spare, staging, build, canceling, shares, reader>>
  BY DEF Work
<1>4. BuildFits' /\ ReaderFits'
  BY <1>3 DEF DeliveryInv, BuildFits, ReaderFits
<1>5. QED
  BY <1>1, <1>2, <1>3, <1>4, AloneSafe DEF DeliveryInv, DeliveryTypes

LEMMA NextDaySafe == ASSUME DeliveryInv, NextDay PROVE DeliveryInv' /\ PacksLast
<1>1. today' \in Day
  BY DeliveriesAssumption DEF NextDay, DeliveryInv, DeliveryTypes, Day
<1>2. UNCHANGED <<content, published, spare, staging, build, canceling, shares, reader, mayDeliver>>
  BY DEF NextDay
<1>3. BuildFits' /\ ReaderFits'
  BY <1>2 DEF DeliveryInv, BuildFits, ReaderFits
<1>4. QED
  BY <1>1, <1>2, <1>3, AloneSafe DEF DeliveryInv, DeliveryTypes

LEMMA DeliveriesNextSafe ==
    DeliveryInv /\ [DeliveriesNext]_deliveryVars => DeliveryInv' /\ PacksLast
<1> SUFFICES ASSUME DeliveryInv, [DeliveriesNext]_deliveryVars PROVE DeliveryInv' /\ PacksLast
  OBVIOUS
<1>1. CASE UNCHANGED deliveryVars
  <2>1. DeliveryTypes' /\ BuildFits' /\ ReaderFits'
    BY <1>1 DEF deliveryVars, DeliveryInv, DeliveryTypes, BuildFits, ReaderFits
  <2>2. QED
    BY <1>1, <2>1, AloneSafe DEF deliveryVars
<1>2. CASE DeliveriesNext
  BY <1>2, JobBeginsSafe, BuildStagesSafe, BuildFailsSafe, BuildChecksSafe, MovesAsideSafe,
     MovesInSafe, MoveFailsSafe, BuildEndsSafe, BuildDiesSafe, CancelSafe, SendSharesSafe,
     SendRebuildsSafe, OwnerDownloadsSafe, ClientDownloadsSafe, ReaderReadsSafe,
     ReaderEndsSafe, WorkSafe, NextDaySafe DEF DeliveriesNext
<1>3. QED
  BY <1>1, <1>2

LEMMA DeliveryInvHolds == DeliveryInv => DeliveriesTypeOK /\ DownloadsPassTheGate
  BY DEF DeliveryInv, DeliveryTypes, ReaderFits, DeliveriesTypeOK, DownloadsPassTheGate, BuildState, ReaderState

-----------------------------------------------------------------------------
(* Deliveries: what is proved                                              *)

\* Packages, builds, shares and readers keep to their values.
THEOREM DeliveriesTyped == DeliveriesSpec => []DeliveriesTypeOK
  BY DeliveriesInitInv, DeliveriesNextSafe, DeliveryInvHolds, PTL DEF DeliveriesSpec

\* Wherever a build fails or dies between its moves, a day that had a package has one, and nobody
\* downloads of one that did not pass the gate, for every number of days.
THEOREM PackagesHeld == DeliveriesSpec => PackagesHold
<1>1. DeliveriesSpec => []DeliveryInv
  BY DeliveriesInitInv, DeliveriesNextSafe, PTL DEF DeliveriesSpec
<1>2. DeliveryInv /\ [DeliveriesNext]_deliveryVars => [PacksLast]_deliveryVars
  BY DeliveriesNextSafe
<1>3. QED
  BY <1>1, <1>2, DeliveryInvHolds, PTL DEF DeliveriesSpec, PackagesHold, PackagesSurvive, PacksLast
-----------------------------------------------------------------------------
(* Assets: the values                                                      *)


Asset == Texts \cup {NoAsset}
Standing == {"absent", "hidden", "deployable", "review_required", "draft"}
Library == [version : 1 .. Versions, complete : BOOLEAN, approved : BOOLEAN]
Generation == [step : {"none", "engine", "index"}, aside : [Family -> Asset],
               wrote : 0 .. Len(Families)]
Saving == [step : {"none", "write", "mark", "index"}, family : Family]

AssetTypes ==
    /\ files \in [Family -> Asset] /\ edited \in [Family -> Asset]
    /\ marked \subseteq Family
    /\ indexed \in [Family -> Standing]
    /\ library \in Library
    /\ typed \in {"none", "inferred", "confirmed"} /\ asked \in BOOLEAN
    /\ generation \in Generation /\ saving \in Saving
    /\ unsafe \in BOOLEAN
    /\ mayAsset \in [AssetEvent -> Nat]

\* What a user saved and the platform marked is in English, and is in the
\* project or, while the engine writes, aside.
EditKept(f) ==
    Exists(edited[f]) =>
      /\ f \in marked /\ InEnglish(edited[f])
      /\ ~unsafe => edited[f] = IF generation.step = "engine" THEN generation.aside[f] ELSE files[f]

\* What is about to be marked is in English, whoever wrote it since.
MarksEnglish == saving.step = "mark" => InEnglish(files[saving.family])

AssetsInv ==
    /\ AssetTypes
    /\ \A f \in Family : EditKept(f) /\ InEnglish(generation.aside[f])
    /\ MarksEnglish

LEMMA FamilyFacts ==
    /\ Len(Families) = 5
    /\ Family = {"llms", "schema", "snippet", "outline", "draft"}
    /\ \A i \in 1 .. 5 : Families[i] \in Family
<1>1. Len(Families) = 5
  BY DEF Families
<1>2. Family = {Families[1], Families[2], Families[3], Families[4], Families[5]}
  <2>1. 1 .. 5 = {1, 2, 3, 4, 5}
    OBVIOUS
  <2> HIDE DEF Families
  <2>2. QED
    BY <1>1, <2>1 DEF Family
<1>3. /\ Families[1] = "llms" /\ Families[2] = "schema" /\ Families[3] = "snippet"
      /\ Families[4] = "outline" /\ Families[5] = "draft"
  BY DEF Families
<1>4. \A i \in 1 .. 5 : Families[i] \in Family
  <2> HIDE DEF Families
  <2>1. QED
    BY <1>1 DEF Family
<1>5. QED
  BY <1>1, <1>2, <1>3, <1>4

LEMMA AssetFacts ==
    /\ NoAsset \in Asset /\ ~Exists(NoAsset) /\ InEnglish(NoAsset)
    /\ \A text \in Asset : Exists(text) => text \in Texts
  BY DEF Asset, NoAsset, Exists, InEnglish, Texts

\* What is written states the facts of the day, and is in English.
LEMMA TextFacts ==
    ASSUME library \in Library, NEW by \in {"engine", "review"}, NEW otherwise \in {"thin", "open"}
    PROVE  /\ Text(by, otherwise) \in Asset /\ InEnglish(Text(by, otherwise))
           /\ Exists(Text(by, otherwise))
           /\ Text(by, otherwise).states = library.version
  BY DEF Text, Asset, Texts, InEnglish, Exists, NoAsset, Library

LEMMA EngineWritesFacts ==
    ASSUME AssetTypes, NEW f \in Family, NEW text \in EngineWrites(f)
    PROVE  text \in Asset /\ (InEnglish(text) \/ text = files[f])
<1>1. library \in Library /\ files \in [Family -> Asset]
  BY DEF AssetTypes
<1>2. text \in {Text("engine", "thin"), NoAsset, files[f]}
  BY FamilyFacts DEF EngineWrites, LlmsText, SchemaText, SnippetText, OutlineText, DraftText
<1>3. QED
  BY <1>1, <1>2, TextFacts, AssetFacts

LEMMA RenderedFacts ==
    ASSUME AssetTypes, NEW f \in Family, NEW text \in Asset
    PROVE  Rendered(f, text) \in Asset
<1>1. library \in Library
  BY DEF AssetTypes
<1>2. \/ Rendered(f, text) \in {text, NoAsset}
      \/ \E by \in {"engine", "review"}, form \in {"thin", "open"} :
           Rendered(f, text) = Text(by, form)
  BY FamilyFacts DEF Rendered, LlmsOf, SchemaOf, SnippetOf, OutlineOf
<1>3. QED
  BY <1>1, <1>2, TextFacts, AssetFacts

\* The upkeep leaves alone what is in English.
LEMMA NormalizedFacts ==
    ASSUME AssetTypes, Normalized
    PROVE  /\ files' \in [Family -> Asset] /\ indexed' \in [Family -> Standing]
           /\ \A f \in Family : InEnglish(files[f]) => files'[f] = files[f]
<1>1. files \in [Family -> Asset]
  BY DEF AssetTypes
<1>2. \A f \in Family : Replaced(f, files[f]) \in Asset
  BY <1>1, RenderedFacts DEF Replaced
<1>3. files' = [f \in Family |-> Replaced(f, files[f])]
  BY DEF Normalized
<1>4. \A f \in Family : InEnglish(files[f]) => Replaced(f, files[f]) = files[f]
  BY DEF Replaced
<1>5. \A f, text : IndexStatus(f, text) \in Standing
  BY DEF IndexStatus, Standing
<1>6. indexed' = [f \in Family |-> IndexStatus(f, files'[f])]
  BY DEF Normalized
<1>7. QED
  BY <1>2, <1>3, <1>4, <1>5, <1>6

LEMMA UseAssetFacts ==
    ASSUME mayAsset \in [AssetEvent -> Nat], NEW event \in AssetEvent, UseAsset(event)
    PROVE  mayAsset' \in [AssetEvent -> Nat]
  BY DEF UseAsset, CanAsset

LEMMA AssetsInitInv == AssetsInit => AssetsInv
<1> SUFFICES ASSUME AssetsInit PROVE AssetsInv
  OBVIOUS
<1>1. files \in [Family -> Asset] /\ edited = [f \in Family |-> NoAsset]
  BY AssetsAssumption, AssetFacts DEF AssetsInit, Asset, Texts
<1>2. library \in Library /\ mayAsset \in [AssetEvent -> Nat]
  BY AssetsAssumption DEF AssetsInit, Library
<1>3. /\ generation = NoGeneration /\ saving = NoSaving /\ NoGeneration \in Generation
      /\ NoSaving \in Saving /\ NoSaving.step = "none"
      /\ NoGeneration.aside = [f \in Family |-> NoAsset]
  BY FamilyFacts, AssetFacts DEF AssetsInit, NoGeneration, NoSaving, Generation, Saving
<1>4. indexed \in [Family -> Standing] /\ marked = {} /\ unsafe = FALSE /\ asked = TRUE
      /\ typed \in {"none", "inferred", "confirmed"}
  BY DEF AssetsInit, Standing
<1>5. AssetTypes
  BY <1>1, <1>2, <1>3, <1>4, AssetFacts DEF AssetTypes
<1>6. ASSUME NEW f \in Family PROVE EditKept(f) /\ InEnglish(generation.aside[f])
  BY <1>1, <1>3, AssetFacts DEF EditKept
<1>7. QED
  BY <1>3, <1>5, <1>6 DEF AssetsInv, MarksEnglish

-----------------------------------------------------------------------------
(* Assets: the steps                                                       *)

\* What keeps every text in English where it is keeps the edits.
LEMMA QuietSafe ==
    ASSUME AssetsInv, AssetTypes',
           \A f \in Family : InEnglish(files[f]) => files'[f] = files[f],
           UNCHANGED <<edited, marked, generation, unsafe>>,
           saving'.step # "mark" \/ saving' = saving
    PROVE  AssetsInv'
<1>1. ASSUME NEW f \in Family PROVE EditKept(f)' /\ InEnglish(generation'.aside[f])
  BY <1>1 DEF AssetsInv, EditKept
<1>2. saving \in Saving
  BY DEF AssetsInv, AssetTypes
<1>3. saving.family \in Family
  BY <1>2 DEF Saving
<1>4. MarksEnglish'
  BY <1>3 DEF AssetsInv, MarksEnglish
<1>5. QED
  BY <1>1, <1>4 DEF AssetsInv

LEMMA SaveNormalizesSafe ==
    ASSUME AssetsInv, NEW f \in Family, SaveNormalizes(f)
    PROVE  AssetsInv'
<1>1. AssetTypes /\ Normalized
  BY DEF AssetsInv, SaveNormalizes
<1>2. \/ saving' = saving
      \/ saving' = [step |-> "write", family |-> f]
  BY DEF SaveNormalizes
<1>3. saving' \in Saving /\ (saving'.step # "mark" \/ saving' = saving)
  BY <1>1, <1>2 DEF Saving, AssetTypes
<1>4. UNCHANGED <<marked, library, typed, asked, generation, package, edited, unsafe, mayAsset>>
  BY DEF SaveNormalizes
<1>5. AssetTypes'
  BY <1>1, <1>3, <1>4, NormalizedFacts DEF AssetTypes
<1>6. QED
  BY <1>1, <1>3, <1>4, <1>5, NormalizedFacts, QuietSafe

LEMMA NoSavingFacts == NoSaving \in Saving /\ NoSaving.step = "none"
  BY FamilyFacts DEF NoSaving, Saving

LEMMA SaveIndexesSafe == ASSUME AssetsInv, SaveIndexes PROVE AssetsInv'
<1>1. AssetTypes /\ Normalized /\ saving' = NoSaving
      /\ UNCHANGED <<marked, library, typed, asked, generation, package, edited, unsafe, mayAsset>>
  BY DEF AssetsInv, SaveIndexes
<1>2. AssetTypes'
  BY <1>1, NormalizedFacts, NoSavingFacts DEF AssetTypes
<1>3. QED
  BY <1>1, <1>2, NormalizedFacts, NoSavingFacts, QuietSafe

LEMMA SaveFailsSafe == ASSUME AssetsInv, SaveFails PROVE AssetsInv'
<1>1. saving' = NoSaving
      /\ UNCHANGED <<files, marked, indexed, library, typed, asked, generation, package, edited, unsafe>>
  BY DEF SaveFails
<1>2. mayAsset' \in [AssetEvent -> Nat]
  BY UseAssetFacts DEF SaveFails, AssetsInv, AssetTypes, AssetEvent
<1>3. AssetTypes'
  BY <1>1, <1>2, NoSavingFacts DEF AssetsInv, AssetTypes
<1>4. QED
  BY <1>1, <1>3, NoSavingFacts, QuietSafe

\* An edit that is marked already counts at once.
LEMMA SaveWritesSafe == ASSUME AssetsInv, SaveWrites PROVE AssetsInv'
<1> DEFINE f == saving.family
<1>1. AssetTypes /\ f \in Family /\ saving.step = "write" /\ generation.step = "none"
  BY DEF AssetsInv, AssetTypes, SaveWrites, Saving, Locked
<1>2. PICK form \in {"whole", "open"} :
        files' = [files EXCEPT ![f] = [by |-> "user", states |-> library.version, form |-> form]]
  BY DEF SaveWrites
<1> DEFINE text == [by |-> "user", states |-> library.version, form |-> form]
<1>3. text \in Asset /\ InEnglish(text)
  BY <1>1 DEF AssetTypes, Library, Asset, Texts, InEnglish
<1> HIDE DEF text, f
<1>4. files' = [files EXCEPT ![f] = text]
  BY <1>2 DEF text
<1>5. /\ files' \in [Family -> Asset] /\ files'[f] = text
      /\ \A g \in Family \ {f} : files'[g] = files[g]
  BY <1>1, <1>3, <1>4 DEF AssetTypes
<1>6. saving' \in Saving /\ saving'.step = "mark" /\ saving'.family = f
  BY <1>1 DEF SaveWrites, AssetTypes, Saving, f
<1>7. /\ edited' = [edited EXCEPT ![f] = IF f \in marked THEN files'[f] ELSE edited[f]]
      /\ UNCHANGED <<marked, indexed, library, typed, asked, generation, package, unsafe>>
  BY DEF SaveWrites, f
<1>8. /\ edited' \in [Family -> Asset]
      /\ edited'[f] = IF f \in marked THEN text ELSE edited[f]
      /\ \A g \in Family \ {f} : edited'[g] = edited[g]
  BY <1>1, <1>3, <1>5, <1>7 DEF AssetTypes
<1>9. mayAsset' \in [AssetEvent -> Nat]
  BY UseAssetFacts DEF SaveWrites, AssetsInv, AssetTypes, AssetEvent
<1>10. AssetTypes'
  BY <1>1, <1>5, <1>6, <1>7, <1>8, <1>9 DEF AssetTypes
<1>11. ASSUME NEW g \in Family PROVE EditKept(g)' /\ InEnglish(generation'.aside[g])
  <2>1. EditKept(g) /\ InEnglish(generation.aside[g])
    BY DEF AssetsInv
  <2>2. CASE g = f
    BY <2>1, <2>2, <1>1, <1>3, <1>5, <1>7, <1>8 DEF EditKept
  <2>3. CASE g # f
    BY <2>1, <2>3, <1>1, <1>5, <1>7, <1>8 DEF EditKept
  <2>4. QED
    BY <2>2, <2>3
<1>12. MarksEnglish'
  BY <1>3, <1>5, <1>6 DEF MarksEnglish
<1>13. QED
  BY <1>10, <1>11, <1>12 DEF AssetsInv

LEMMA SaveMarksSafe == ASSUME AssetsInv, SaveMarks PROVE AssetsInv'
<1> DEFINE f == saving.family
<1>1. AssetTypes /\ f \in Family /\ generation.step = "none" /\ InEnglish(files[f])
  BY DEF AssetsInv, AssetTypes, SaveMarks, Saving, Locked, MarksEnglish
<1>2. /\ marked' = marked \cup {f} /\ edited' = [edited EXCEPT ![f] = files[f]]
      /\ UNCHANGED <<files, indexed, library, typed, asked, generation, package, unsafe, mayAsset>>
  BY DEF SaveMarks
<1>3. saving' \in Saving /\ saving'.step = "index"
  BY <1>1 DEF SaveMarks, AssetTypes, Saving
<1> HIDE DEF f
<1>4. /\ edited' \in [Family -> Asset] /\ edited'[f] = files[f]
      /\ \A g \in Family \ {f} : edited'[g] = edited[g]
  BY <1>1, <1>2 DEF AssetTypes
<1>5. AssetTypes'
  BY <1>1, <1>2, <1>3, <1>4 DEF AssetTypes
<1>6. ASSUME NEW g \in Family PROVE EditKept(g)' /\ InEnglish(generation'.aside[g])
  <2>1. EditKept(g) /\ InEnglish(generation.aside[g])
    BY DEF AssetsInv
  <2>2. CASE g = f
    BY <2>1, <2>2, <1>1, <1>2, <1>4 DEF EditKept
  <2>3. CASE g # f
    BY <2>1, <2>3, <1>1, <1>2, <1>4 DEF EditKept
  <2>4. QED
    BY <2>2, <2>3
<1>7. QED
  BY <1>3, <1>5, <1>6 DEF AssetsInv, MarksEnglish

LEMMA GenerateBeginsSafe == ASSUME AssetsInv, GenerateBegins PROVE AssetsInv'
<1>1. AssetTypes /\ generation.step = "none"
  BY DEF AssetsInv, AssetTypes, GenerateBegins, Locked
<1>2. /\ generation' = [step |-> "engine", wrote |-> 0, aside |-> [f \in Family |-> SetAside(f)]]
      /\ UNCHANGED <<files, marked, indexed, library, typed, asked, saving, package, edited, unsafe>>
  BY DEF GenerateBegins
<1>3. ASSUME NEW f \in Family
      PROVE  SetAside(f) \in Asset /\ InEnglish(SetAside(f))
  BY <1>1, AssetFacts DEF SetAside, AssetTypes
<1>4. /\ generation' \in Generation /\ generation'.step = "engine"
      /\ \A f \in Family : generation'.aside[f] = SetAside(f)
  BY <1>2, <1>3, FamilyFacts DEF Generation
<1>5. mayAsset' \in [AssetEvent -> Nat]
  BY UseAssetFacts DEF GenerateBegins, AssetsInv, AssetTypes, AssetEvent
<1>6. AssetTypes'
  BY <1>1, <1>2, <1>4, <1>5 DEF AssetTypes
<1>7. ASSUME NEW f \in Family PROVE EditKept(f)' /\ InEnglish(generation'.aside[f])
  <2>1. EditKept(f)
    BY DEF AssetsInv
  <2>2. QED
    BY <2>1, <1>1, <1>2, <1>3, <1>4 DEF EditKept, SetAside
<1>8. MarksEnglish'
  BY <1>2 DEF AssetsInv, MarksEnglish
<1>9. QED
  BY <1>6, <1>7, <1>8 DEF AssetsInv

LEMMA GenerateWritesSafe == ASSUME AssetsInv, GenerateWrites PROVE AssetsInv'
<1>1. /\ AssetTypes /\ generation.step = "engine" /\ generation.wrote < 5
      /\ generation \in Generation
      /\ generation' = [generation EXCEPT !.wrote = @ + 1]
  BY FamilyFacts DEF AssetsInv, AssetTypes, GenerateWrites
<1>2. /\ generation' \in Generation /\ generation'.step = "engine"
      /\ generation'.aside = generation.aside /\ generation'.wrote \in 1 .. 5
  BY <1>1, FamilyFacts DEF Generation
<1>3. PICK text \in EngineWrites(Families[generation'.wrote]) :
        files' = [files EXCEPT ![Families[generation'.wrote]] = text]
  BY DEF GenerateWrites
<1> DEFINE f == Families[generation'.wrote]
<1>4. f \in Family
  BY <1>2, FamilyFacts
<1> HIDE DEF f
<1>5. text \in Asset /\ (InEnglish(text) \/ text = files[f]) /\ files' = [files EXCEPT ![f] = text]
  BY <1>1, <1>3, <1>4, EngineWritesFacts DEF f
<1>6. /\ files' \in [Family -> Asset] /\ files'[f] = text
      /\ \A g \in Family \ {f} : files'[g] = files[g]
  BY <1>1, <1>4, <1>5 DEF AssetTypes
<1>7. UNCHANGED <<marked, indexed, library, typed, asked, saving, package, edited, unsafe, mayAsset>>
  BY DEF GenerateWrites
<1>8. AssetTypes'
  BY <1>1, <1>2, <1>6, <1>7 DEF AssetTypes
<1>9. ASSUME NEW g \in Family PROVE EditKept(g)' /\ InEnglish(generation'.aside[g])
  BY <1>1, <1>2, <1>7 DEF AssetsInv, EditKept
<1>10. saving.family \in Family
  BY <1>1 DEF AssetTypes, Saving
<1>11. MarksEnglish'
  BY <1>5, <1>6, <1>7, <1>10 DEF AssetsInv, MarksEnglish
<1>12. QED
  BY <1>8, <1>9, <1>11 DEF AssetsInv

LEMMA NoGenerationFacts ==
    /\ NoGeneration \in Generation /\ NoGeneration.step = "none"
    /\ [NoGeneration EXCEPT !.step = "index"] \in Generation
    /\ [NoGeneration EXCEPT !.step = "index"].step = "index"
    /\ \A f \in Family : /\ NoGeneration.aside[f] = NoAsset
                         /\ [NoGeneration EXCEPT !.step = "index"].aside[f] = NoAsset
  BY FamilyFacts, AssetFacts DEF NoGeneration, Generation

LEMMA GenerateRestoresSafe == ASSUME AssetsInv, GenerateRestores PROVE AssetsInv'
<1>1. AssetTypes /\ generation.step = "engine" /\ generation.aside \in [Family -> Asset]
      /\ files \in [Family -> Asset]
  BY DEF AssetsInv, AssetTypes, GenerateRestores, Generation
<1>2. /\ files' = [f \in Family |-> IF Exists(generation.aside[f]) THEN generation.aside[f] ELSE files[f]]
      /\ UNCHANGED <<marked, indexed, library, typed, asked, saving, package, edited, unsafe, mayAsset>>
  BY DEF GenerateRestores
<1>3. /\ generation' \in Generation /\ generation'.step # "engine"
      /\ \A f \in Family : generation'.aside[f] = NoAsset
  BY NoGenerationFacts DEF GenerateRestores
<1>4. files' \in [Family -> Asset]
  BY <1>1, <1>2
<1>5. AssetTypes'
  BY <1>1, <1>2, <1>3, <1>4 DEF AssetTypes
<1>6. ASSUME NEW f \in Family PROVE EditKept(f)' /\ InEnglish(generation'.aside[f])
  <2>1. EditKept(f)
    BY DEF AssetsInv
  <2>2. QED
    BY <2>1, <1>1, <1>2, <1>3, AssetFacts DEF EditKept
<1>7. saving.family \in Family
  BY <1>1 DEF AssetTypes, Saving
<1>8. MarksEnglish'
  BY <1>2, <1>7 DEF AssetsInv, MarksEnglish
<1>9. QED
  BY <1>5, <1>6, <1>8 DEF AssetsInv

LEMMA GenerateIndexesSafe == ASSUME AssetsInv, GenerateIndexes PROVE AssetsInv'
<1>1. /\ AssetTypes /\ Normalized /\ generation.step = "index" /\ generation' = NoGeneration
      /\ UNCHANGED <<marked, library, typed, asked, saving, package, edited, unsafe, mayAsset>>
  BY DEF AssetsInv, GenerateIndexes
<1>2. AssetTypes'
  BY <1>1, NormalizedFacts, NoGenerationFacts DEF AssetTypes
<1>3. ASSUME NEW f \in Family PROVE EditKept(f)' /\ InEnglish(generation'.aside[f])
  <2>1. EditKept(f) /\ (InEnglish(files[f]) => files'[f] = files[f])
    BY <1>1, NormalizedFacts DEF AssetsInv
  <2>2. QED
    BY <2>1, <1>1, NoGenerationFacts, AssetFacts DEF EditKept
<1>4. saving.family \in Family
  BY <1>1 DEF AssetTypes, Saving
<1>5. MarksEnglish'
  BY <1>1, <1>4, NormalizedFacts DEF AssetsInv, MarksEnglish
<1>6. QED
  BY <1>2, <1>3, <1>5 DEF AssetsInv

LEMMA GenerateDiesSafe == ASSUME AssetsInv, GenerateDies PROVE AssetsInv'
<1>1. /\ AssetTypes /\ generation' = NoGeneration
      /\ unsafe' = (unsafe \/ generation.step = "engine")
      /\ UNCHANGED <<files, marked, indexed, library, typed, asked, saving, package, edited>>
  BY DEF AssetsInv, GenerateDies
<1>2. mayAsset' \in [AssetEvent -> Nat]
  BY UseAssetFacts DEF GenerateDies, AssetsInv, AssetTypes, AssetEvent
<1>3. unsafe' \in BOOLEAN
  BY <1>1
<1>4. AssetTypes'
  BY <1>1, <1>2, <1>3, NoGenerationFacts DEF AssetTypes
<1>5. ASSUME NEW f \in Family PROVE EditKept(f)' /\ InEnglish(generation'.aside[f])
  <2>1. EditKept(f)
    BY DEF AssetsInv
  <2>2. QED
    BY <2>1, <1>1, NoGenerationFacts, AssetFacts DEF EditKept
<1>6. MarksEnglish'
  BY <1>1 DEF AssetsInv, MarksEnglish
<1>7. QED
  BY <1>4, <1>5, <1>6 DEF AssetsInv

LEMMA DeliverSafe == ASSUME AssetsInv, Deliver PROVE AssetsInv'
<1>1. /\ AssetTypes /\ Normalized
      /\ UNCHANGED <<marked, library, typed, asked, generation, saving, edited, unsafe>>
  BY DEF AssetsInv, Deliver
<1>2. mayAsset' \in [AssetEvent -> Nat]
  BY UseAssetFacts DEF Deliver, AssetsInv, AssetTypes, AssetEvent
<1>3. AssetTypes'
  BY <1>1, <1>2, NormalizedFacts DEF AssetTypes
<1>4. QED
  BY <1>1, <1>3, NormalizedFacts, QuietSafe

LEMMA ChangesSafe == ASSUME AssetsInv, ChangeFacts \/ ChangeType \/ RetireQuestion PROVE AssetsInv'
<1>1. AssetTypes /\ UNCHANGED <<files, marked, indexed, generation, saving, edited, unsafe>>
  BY DEF AssetsInv, ChangeFacts, ChangeType, RetireQuestion
<1>2. mayAsset' \in [AssetEvent -> Nat]
  BY <1>1, UseAssetFacts DEF ChangeFacts, ChangeType, RetireQuestion, AssetTypes, AssetEvent
<1>3. library' \in Library
  BY <1>1, AssetsAssumption DEF ChangeFacts, ChangeType, RetireQuestion, AssetTypes, Library
<1>4. typed' \in {"none", "inferred", "confirmed"}
  BY <1>1 DEF ChangeFacts, ChangeType, RetireQuestion, AssetTypes, TypeEvidence
<1>5. asked' \in BOOLEAN
  BY <1>1 DEF ChangeFacts, ChangeType, RetireQuestion, AssetTypes
<1>6. AssetTypes'
  BY <1>1, <1>2, <1>3, <1>4, <1>5 DEF AssetTypes
<1>7. QED
  BY <1>1, <1>6, QuietSafe

LEMMA AssetsNextInv == AssetsInv /\ [AssetsNext]_assetsVars => AssetsInv'
<1> SUFFICES ASSUME AssetsInv, [AssetsNext]_assetsVars PROVE AssetsInv'
  OBVIOUS
<1>1. CASE UNCHANGED assetsVars
  <2>1. AssetTypes' /\ saving' = saving /\ files' = files
        /\ UNCHANGED <<edited, marked, generation, unsafe>>
    BY <1>1 DEF assetsVars, AssetsInv, AssetTypes
  <2>2. QED
    BY <2>1, QuietSafe
<1>2. CASE AssetsNext
  BY <1>2, SaveNormalizesSafe, SaveWritesSafe, SaveMarksSafe, SaveIndexesSafe, SaveFailsSafe,
     GenerateBeginsSafe, GenerateWritesSafe, GenerateRestoresSafe, GenerateIndexesSafe,
     GenerateDiesSafe, DeliverSafe, ChangesSafe DEF AssetsNext
<1>3. QED
  BY <1>1, <1>2

-----------------------------------------------------------------------------
(* Assets: what is proved                                                  *)

LEMMA AssetsInvHolds == AssetsInv => AssetsTypeOK /\ EditsSurvive
<1> SUFFICES ASSUME AssetsInv PROVE AssetsTypeOK /\ EditsSurvive
  OBVIOUS
<1>1. AssetsTypeOK
  BY DEF AssetsInv, AssetTypes, AssetsTypeOK, Asset, Standing, Library, Generation, Saving
<1>2. EditsSurvive
  BY DEF AssetsInv, EditKept, EditsSurvive
<1>3. QED
  BY <1>1, <1>2

\* What a delivery calls ready.
ReadyAs(f) ==
    package'[f].status = "ready" =>
      /\ library.approved /\ ~Unfinished(package'[f].text)
      /\ f = "schema" => indexed'[f] \in {"deployable", "review_required"} /\ typed = "confirmed"
      /\ package'[f].text.by = "review" \/ f = "snippet" => package'[f].text.states = library.version

LEMMA StatusFacts ==
    ASSUME NEW f \in FromFacts, NEW text, AssetStatus(f, text) = "ready"
    PROVE  /\ Exists(text) /\ ~Unfinished(text) /\ text.by # "review" /\ library.approved
           /\ f = "schema" => typed # "inferred"
  BY DEF AssetStatus, FromFacts, Pending

LEMMA DeliverReady ==
    ASSUME AssetsInv, Deliver, package' # package, NEW f \in FromFacts
    PROVE  ReadyAs(f)
<1> DEFINE text == Delivered(f, files'[f])
<1>1. AssetTypes /\ Normalized /\ f \in Family /\ f # "draft" /\ f # "outline"
  BY FamilyFacts DEF AssetsInv, Deliver, FromFacts
<1>2. package'[f].status = AssetStatus(f, text) /\ package'[f].text = text
  BY <1>1 DEF Deliver
<1>3. text = Rendered(f, files'[f])
  BY <1>1 DEF Delivered
<1> HIDE DEF text
<1> SUFFICES ASSUME AssetStatus(f, text) = "ready"
             PROVE  /\ library.approved /\ ~Unfinished(text)
                    /\ f = "schema" => indexed'[f] \in {"deployable", "review_required"} /\ typed = "confirmed"
                    /\ text.by = "review" \/ f = "snippet" => text.states = library.version
  BY <1>2 DEF ReadyAs
<1>4. /\ Exists(text) /\ ~Unfinished(text) /\ text.by # "review" /\ library.approved
      /\ f = "schema" => typed # "inferred"
  BY StatusFacts
<1>5. ASSUME f = "snippet" PROVE text.states = library.version
  <2>1. text = SnippetOf(files'[f])
    BY <1>3, <1>5 DEF Rendered
  <2>2. text = Text("engine", "open")
    BY <2>1, <1>4, AssetFacts DEF SnippetOf
  <2>3. QED
    BY <2>2, <1>1, TextFacts DEF AssetTypes
<1>6. ASSUME f = "schema"
      PROVE  indexed'[f] \in {"deployable", "review_required"} /\ typed = "confirmed"
  <2>1. text = SchemaOf(files'[f])
    BY <1>3, <1>6 DEF Rendered
  <2>2. Exists(files'[f]) /\ typed # "none"
    BY <2>1, <1>4, AssetFacts DEF SchemaOf, TypeDecision
  <2>3. typed = "confirmed"
    BY <2>2, <1>1, <1>4, <1>6 DEF AssetTypes
  <2>4. files'[f] = Replaced(f, files[f])
    BY <1>1 DEF Normalized
  <2>5. InEnglish(files'[f])
    <3>1. CASE InEnglish(files[f]) \/ ~Exists(files[f])
      BY <3>1, <2>4, AssetFacts DEF Replaced, Exists
    <3>2. CASE ~InEnglish(files[f]) /\ Exists(files[f])
      <4>1. Rendered(f, files[f]) = Text("engine", "open")
        BY <3>2, <1>6, <2>2 DEF Rendered, SchemaOf, TypeDecision
      <4>2. files'[f] = Text("engine", "open")
        BY <4>1, <3>2, <2>4, <1>1, TextFacts DEF Replaced, AssetTypes
      <4>3. QED
        BY <4>2, <1>1, TextFacts DEF AssetTypes
    <3>3. QED
      BY <3>1, <3>2
  <2>6. indexed'[f] = IndexStatus(f, files'[f])
    BY <1>1 DEF Normalized
  <2>7. ~Hidden(f, files'[f]) /\ f \notin OfQuestion
    BY <1>6, <2>2, <2>5 DEF Hidden, OfQuestion, TypeDecision
  <2>8. QED
    BY <2>2, <2>3, <2>6, <2>7 DEF IndexStatus
<1>7. QED
  BY <1>4, <1>5, <1>6

ReadyStep == package' # package => \A f \in FromFacts : ReadyAs(f)

LEMMA AssetsStepReady == AssetsInv /\ [AssetsNext]_assetsVars => ReadyStep
<1> SUFFICES ASSUME AssetsInv, [AssetsNext]_assetsVars, package' # package
             PROVE  \A f \in FromFacts : ReadyAs(f)
  BY DEF ReadyStep
<1>1. Deliver
  BY DEF AssetsNext, assetsVars, SaveNormalizes, SaveWrites, SaveMarks, SaveIndexes, SaveFails,
     GenerateBegins, GenerateWrites, GenerateRestores, GenerateIndexes, GenerateDies,
     ChangeFacts, ChangeType, RetireQuestion
<1>2. QED
  BY <1>1, DeliverReady

\* Texts, index, package and the steps of a save and a generation keep to their values.
THEOREM AssetsTyped == AssetsSpec => []AssetsTypeOK
  BY AssetsInitInv, AssetsNextInv, AssetsInvHolds, PTL DEF AssetsSpec

\* However saves, generations and deliveries interleave, the text that a user reviewed lasts, and
\* what a package calls ready was let through.
THEOREM ReviewRespected == AssetsSpec => ReviewIsRespected
<1>1. AssetsSpec => []AssetsInv
  BY AssetsInitInv, AssetsNextInv, PTL DEF AssetsSpec
<1>2. AssetsInv /\ [AssetsNext]_assetsVars => [ReadyStep]_assetsVars
  BY AssetsStepReady
<1>3. QED
  BY <1>1, <1>2, AssetsInvHolds, PTL
     DEF AssetsSpec, ReviewIsRespected, ReadyIsApproved, ReadyStep, ReadyAs
-----------------------------------------------------------------------------
(* Snapshots: the values                                                   *)


RowStatus == {"ready", "failed", "archiving", "restoring", "archived", "purged",
              "initializing", "bootstrapping"}
Row == [status : RowStatus, archived : {"no", "recent", "old"}]
ArchiveStep == {"hash", "add", "verify", "upload", "head", "record", "retain"}
RestoreStep == {"read", "download", "compare", "replace", "save"}
JobStep == {"none", "enqueued", "queued", "lost"} \cup ArchiveStep \cup RestoreStep

\* A file is of one of the writes so far.
Files(n) == [Paths -> 0 .. n]
Entry(n) == [id : Nat, status : {"available", "expired"}, files : Files(n),
             error : BOOLEAN, restored : BOOLEAN]
Directory(n) == [exists : BOOLEAN, files : Files(n), list : Seq(Entry(n))]
Job(n) == [kind : {"none", "archive", "restore", "bootstrap"}, step : JobStep, id : Nat,
           overwrite : BOOLEAN, todo : SUBSET (Paths \cup Nat), hashed : Files(n),
           added : Files(n), list : Seq(Entry(n)), held : BOOLEAN,
           previous : RowStatus \cup {"none"}]
Object == [Paths -> Nat]

SnapshotTypes ==
    /\ row \in Row /\ writes \in Nat
    /\ dir \in Directory(writes) /\ work \in Job(writes)
    /\ objects \in Seq(Object) /\ remote \in BOOLEAN
    /\ create \in {"none", "aside", "init", "publish"}
    /\ sweep \in {"none", "check", "remove", "commit"}
    /\ happens \in [Happening -> Nat]

\* A list names each of its objects once, and what it calls available is there,
\* unless its deletion is known.
Sound(entries, o, gone) ==
    /\ \A i \in DOMAIN entries : entries[i].id \in DOMAIN o
    /\ \A i, j \in DOMAIN entries : entries[i].id = entries[j].id => i = j
    /\ \A i \in DOMAIN entries :
         entries[i].status = "available" /\ entries[i].id \notin gone => o[entries[i].id] = entries[i].files

\* How far a job has come. A new object is in no list yet, and a restoration that
\* may not overwrite has nothing to overwrite before it.
JobFits(w, d, o, gone) ==
    /\ w.step \in ArchiveStep => w.kind = "archive"
    /\ w.step \in RestoreStep => w.kind = "restore"
    /\ w.step \in {"hash", "add", "replace"} => w.todo \subseteq Paths
    /\ w.step \in {"hash", "add", "verify", "upload"} => w.id = Len(o) + 1
    /\ w.step \in {"head", "record"} =>
         w.id = Len(o) /\ w.id # 0 /\ \A i \in DOMAIN d.list : d.list[i].id # w.id
    /\ w.step = "record" => o[w.id] = w.added \/ w.id \in gone
    /\ w.step \in {"download", "compare", "replace"} => EntryOf(w.list, w.id) # {}
    /\ w.step = "replace" /\ ~w.overwrite /\ w.held =>
         \A p \in w.todo \ Unlocked : d.files[p] \in {0, w.added[p]}
    /\ w.step = "retain" => \A id \in w.todo : \E i \in DOMAIN w.list : w.list[i].id = id
    /\ w.step \in {"none", "enqueued"} => w.list = <<>>
    /\ w.step = "enqueued" /\ w.kind # "bootstrap" => w.previous \in RowStatus

\* A retired project has no job, and one that is being created has its first.
SnapshotInv ==
    /\ SnapshotTypes
    /\ Sound(dir.list, objects, dangling) /\ Sound(work.list, objects, dangling)
    /\ JobFits(work, dir, objects, dangling)
    /\ work # Resting => row.archived = "no"
    /\ create # "none" => work.kind = "bootstrap" /\ work.step = "enqueued"

LEMMA RestingFacts ==
    /\ Resting.kind = "none" /\ Resting.step = "none" /\ Resting.list = <<>>
    /\ Resting.previous = "none" /\ Resting.id = 0 /\ Resting.todo = {} /\ Resting.held
    /\ Nothing \in Object
    /\ \A n \in Nat : Nothing \in Files(n) /\ Resting \in Job(n)
    /\ \A o, gone : Sound(<<>>, o, gone)
    /\ \A d, o, gone : JobFits(Resting, d, o, gone)
<1>1. Nothing \in Object /\ \A n \in Nat : Nothing \in Files(n)
  BY DEF Nothing, Object, Files
<1>2. /\ Resting.kind = "none" /\ Resting.step = "none" /\ Resting.list = <<>>
      /\ Resting.previous = "none" /\ Resting.id = 0 /\ Resting.todo = {} /\ Resting.held
      /\ Resting.hashed = Nothing /\ Resting.added = Nothing /\ Resting.overwrite = FALSE
  BY DEF Resting
<1>3. ASSUME NEW n \in Nat PROVE Resting \in Job(n)
  <2>1. <<>> \in Seq(Entry(n)) /\ Nothing \in Files(n)
    BY <1>1
  <2> HIDE DEF Entry, Files
  <2>2. QED
    BY <2>1 DEF Resting, Job, JobStep
<1>4. \A o, gone : Sound(<<>>, o, gone)
  BY DEF Sound
<1>5. \A d, o, gone : JobFits(Resting, d, o, gone)
  BY <1>2 DEF JobFits, ArchiveStep, RestoreStep
<1>6. QED
  BY <1>1, <1>2, <1>3, <1>4, <1>5

\* What is of the writes so far is of those to come.
LEMMA ValuesGrow ==
    ASSUME NEW n \in Nat, NEW m \in Nat, n <= m
    PROVE  /\ Files(n) \subseteq Files(m)
           /\ \A entries \in Seq(Entry(n)) : entries \in Seq(Entry(m))
           /\ \A d \in Directory(n) : d \in Directory(m)
           /\ \A w \in Job(n) : w \in Job(m)
<1>1. Files(n) \subseteq Files(m)
  BY DEF Files
<1>2. Entry(n) \subseteq Entry(m)
  BY <1>1 DEF Entry
<1>3. \A entries \in Seq(Entry(n)) : entries \in Seq(Entry(m))
  <2> HIDE DEF Entry
  <2>1. QED
    BY <1>2
<1>4. ASSUME NEW d \in Directory(n) PROVE d \in Directory(m)
  <2> HIDE DEF Entry, Files
  <2>1. d.files \in Files(m) /\ d.list \in Seq(Entry(m))
    BY <1>1, <1>3 DEF Directory
  <2>2. QED
    BY <2>1 DEF Directory
<1>5. ASSUME NEW w \in Job(n) PROVE w \in Job(m)
  <2> HIDE DEF Entry, Files
  <2>1. w.hashed \in Files(m) /\ w.added \in Files(m) /\ w.list \in Seq(Entry(m))
    BY <1>1, <1>3 DEF Job
  <2>2. QED
    BY <2>1 DEF Job
<1>6. QED
  BY <1>1, <1>3, <1>4, <1>5

LEMMA HappensFacts ==
    ASSUME happens \in [Happening -> Nat], NEW event \in Happening, CanHappen(event), Use(event)
    PROVE  happens' \in [Happening -> Nat]
  BY DEF CanHappen, Use

LEMMA JobEndsFacts ==
    ASSUME row \in Row, NEW result, JobEnds(result)
    PROVE  work' = Resting /\ row' \in Row /\ row'.archived = row.archived
  BY DEF JobEnds, Row, RowStatus

LEMMA SnapshotsInitInv == SnapshotsInit => SnapshotInv
<1> SUFFICES ASSUME SnapshotsInit PROVE SnapshotInv
  OBVIOUS
<1>1. dir \in Directory(1) /\ dir.list = <<>>
  <2>1. [p \in Paths |-> 1] \in Files(1)
    BY DEF Files
  <2>2. <<>> \in Seq(Entry(1))
    OBVIOUS
  <2> HIDE DEF Files, Entry
  <2>3. QED
    BY <2>1, <2>2 DEF SnapshotsInit, Directory
<1>2. row \in Row
  BY DEF SnapshotsInit, Row, RowStatus
<1>3. happens \in [Happening -> Nat]
  BY SnapshotsAssumption DEF SnapshotsInit
<1>4. work = Resting /\ objects = <<>> /\ writes = 1 /\ create = "none" /\ sweep = "none"
      /\ remote \in BOOLEAN
  BY DEF SnapshotsInit
<1>5. SnapshotTypes
  BY <1>1, <1>2, <1>3, <1>4, RestingFacts DEF SnapshotTypes
<1>6. QED
  BY <1>1, <1>4, <1>5, RestingFacts DEF SnapshotInv

-----------------------------------------------------------------------------
(* Snapshots: requests and the job                                         *)

LEMMA QuietStep ==
    ASSUME SnapshotInv, UNCHANGED <<dir, objects, work, writes, dangling, remote>>,
           row' \in Row, create' \in {"none", "aside", "init", "publish"},
           sweep' \in {"none", "check", "remove", "commit"}, happens' \in [Happening -> Nat],
           work # Resting => row'.archived = "no",
           create' # "none" => work.kind = "bootstrap" /\ work.step = "enqueued"
    PROVE  SnapshotInv'
  BY DEF SnapshotInv, SnapshotTypes

LEMMA WorkStep ==
    ASSUME SnapshotInv, UNCHANGED <<dir, objects, remote, create, sweep, writes, dangling>>,
           work' \in Job(writes), Sound(work'.list, objects, dangling),
           JobFits(work', dir, objects, dangling),
           row' \in Row, work' # Resting => row'.archived = "no",
           create # "none" => work'.kind = "bootstrap" /\ work'.step = "enqueued",
           happens' \in [Happening -> Nat]
    PROVE  SnapshotInv'
  BY DEF SnapshotInv, SnapshotTypes

\* A job that ends leaves what it did.
LEMMA EndStep ==
    ASSUME SnapshotInv, UNCHANGED <<dir, objects, remote, create, sweep, writes, dangling>>,
           work' = Resting, row' \in Row, create = "none", happens' \in [Happening -> Nat]
    PROVE  SnapshotInv'
<1>1. writes \in Nat
  BY DEF SnapshotInv, SnapshotTypes
<1>2. QED
  BY <1>1, RestingFacts, WorkStep

\* The step of a job that has begun.
LEMMA JobStepFacts ==
    ASSUME SnapshotInv
    PROVE  /\ work.step \notin {"none", "enqueued"} => create = "none" /\ work # Resting
           /\ work # Resting => row.archived = "no"
           /\ row \in Row /\ writes \in Nat /\ work \in Job(writes) /\ dir \in Directory(writes)
           /\ objects \in Seq(Object) /\ happens \in [Happening -> Nat]
           /\ Sound(dir.list, objects, dangling) /\ Sound(work.list, objects, dangling)
           /\ JobFits(work, dir, objects, dangling)
  BY RestingFacts DEF SnapshotInv, SnapshotTypes

LEMMA EnqueueJobInv ==
    ASSUME SnapshotInv, NEW kind \in {"archive", "restore"}, NEW id \in {0} \cup DOMAIN objects,
           NEW overwrite \in BOOLEAN, EnqueueJob(kind, id, overwrite)
    PROVE  SnapshotInv'
<1>1. work = Resting /\ row.archived = "no" /\ create = "none"
  BY RestingFacts DEF EnqueueJob, Busy, Visible, SnapshotInv
<1>2. /\ work' = [Resting EXCEPT !.kind = kind, !.step = "enqueued", !.id = id,
                                 !.overwrite = overwrite, !.previous = row.status]
      /\ row' = [row EXCEPT !.status = IF kind = "archive" THEN "archiving" ELSE "restoring"]
      /\ UNCHANGED <<dir, objects, remote, create, sweep, writes, dangling>>
      /\ CanHappen("jobs") /\ Use("jobs")
  BY DEF EnqueueJob
<1>3. happens' \in [Happening -> Nat]
  BY <1>2, HappensFacts, JobStepFacts DEF Happening
<1>4. row' \in Row /\ row'.archived = "no"
  BY <1>1, <1>2, JobStepFacts DEF Row, RowStatus
<1>5. id \in Nat
  BY JobStepFacts
<1>6. work'.list = <<>> /\ work'.step = "enqueued" /\ work'.previous \in RowStatus
  BY <1>2, JobStepFacts DEF Resting, Row
<1>7. work' \in Job(writes)
  <2>1. Resting \in Job(writes) /\ row.status \in RowStatus
    BY RestingFacts, JobStepFacts DEF Row
  <2> HIDE DEF Files, Entry
  <2>2. QED
    BY <2>1, <1>2, <1>5 DEF Job, JobStep
<1>8. JobFits(work', dir, objects, dangling)
  BY <1>6 DEF JobFits, ArchiveStep, RestoreStep
<1>9. QED
  BY <1>1, <1>2, <1>3, <1>4, <1>6, <1>7, <1>8, RestingFacts, WorkStep

\* A job that takes its next step, by its new step alone.
LEMMA NextStepFacts ==
    ASSUME NEW n \in Nat, NEW w \in Job(n), NEW to \in JobStep
    PROVE  /\ [w EXCEPT !.step = to] \in Job(n)
           /\ [w EXCEPT !.step = to].step = to
           /\ [w EXCEPT !.step = to].kind = w.kind
           /\ [w EXCEPT !.step = to].id = w.id
           /\ [w EXCEPT !.step = to].list = w.list
           /\ [w EXCEPT !.step = to].added = w.added
           /\ [w EXCEPT !.step = to].todo = w.todo
           /\ [w EXCEPT !.step = to].overwrite = w.overwrite
           /\ [w EXCEPT !.step = to].held = w.held
<1> HIDE DEF Files, Entry, JobStep
<1>1. QED
  BY DEF Job

LEMMA NextStepNames ==
    /\ ArchiveStep \subseteq JobStep /\ RestoreStep \subseteq JobStep
    /\ "queued" \in JobStep /\ "lost" \in JobStep /\ "enqueued" \in JobStep
  BY DEF JobStep, ArchiveStep, RestoreStep

LEMMA PublishInv == ASSUME SnapshotInv, Publish PROVE SnapshotInv'
<1>1. /\ work.step = "enqueued" /\ work.kind # "bootstrap"
      /\ work' = [work EXCEPT !.step = "queued"]
      /\ UNCHANGED <<row, dir, objects, remote, create, sweep, writes, dangling, happens>>
  BY DEF Publish
<1>2. create = "none" /\ work # Resting
  BY <1>1, RestingFacts DEF SnapshotInv
<1>3. work' \in Job(writes) /\ work'.step = "queued" /\ work'.list = work.list
  BY <1>1, NextStepFacts, NextStepNames, JobStepFacts
<1>4. JobFits(work', dir, objects, dangling)
  BY <1>3 DEF JobFits, ArchiveStep, RestoreStep
<1>5. QED
  BY <1>1, <1>2, <1>3, <1>4, JobStepFacts, WorkStep

LEMMA PublishFailsInv == ASSUME SnapshotInv, PublishFails PROVE SnapshotInv'
<1>1. /\ work.step = "enqueued" /\ work.kind # "bootstrap" /\ work' = Resting
      /\ UNCHANGED <<dir, objects, remote, create, sweep, writes, dangling>>
      /\ CanHappen("troubles") /\ Use("troubles")
      /\ row' = [row EXCEPT !.status = work.previous]
  BY DEF PublishFails
<1>2. create = "none"
  BY <1>1 DEF SnapshotInv
<1>3. happens' \in [Happening -> Nat]
  BY <1>1, HappensFacts, JobStepFacts DEF Happening
<1>4. row' \in Row
  BY <1>1, JobStepFacts DEF Row, JobFits
<1>5. QED
  BY <1>1, <1>2, <1>3, <1>4, EndStep

LEMMA ClaimJobInv == ASSUME SnapshotInv, ClaimJob PROVE SnapshotInv'
<1>1. /\ work.step = "queued" /\ work.kind \in {"archive", "restore"}
      /\ UNCHANGED <<row, dir, objects, remote, create, sweep, writes, dangling, happens>>
  BY DEF ClaimJob
<1>2. create = "none" /\ work # Resting /\ writes \in Nat /\ work \in Job(writes)
  BY <1>1, JobStepFacts
<1>3. CASE work.kind = "archive"
  <2>1. work' = [work EXCEPT !.step = "hash", !.todo = Present(dir.files), !.id = Len(objects) + 1]
    BY <1>3 DEF ClaimJob
  <2>2. Present(dir.files) \subseteq Paths /\ Len(objects) + 1 \in Nat
    BY JobStepFacts DEF Present
  <2>3. /\ work' \in Job(writes) /\ work'.step = "hash" /\ work'.list = work.list
        /\ work'.kind = "archive" /\ work'.todo \subseteq Paths /\ work'.id = Len(objects) + 1
    <3> HIDE DEF Files, Entry
    <3>1. "hash" \in JobStep
      BY DEF JobStep, ArchiveStep
    <3> HIDE DEF JobStep
    <3>2. QED
      BY <3>1, <2>1, <2>2, <1>2, <1>3 DEF Job
  <2>4. JobFits(work', dir, objects, dangling)
    BY <2>3 DEF JobFits, ArchiveStep, RestoreStep
  <2>5. QED
    BY <1>1, <1>2, <2>3, <2>4, JobStepFacts, WorkStep
<1>4. CASE work.kind = "restore"
  <2>1. work' = [work EXCEPT !.step = "read"]
    BY <1>4 DEF ClaimJob
  <2>2. /\ work' \in Job(writes) /\ work'.step = "read" /\ work'.list = work.list
        /\ work'.kind = "restore"
    BY <1>2, <1>4, <2>1, NextStepFacts, NextStepNames DEF RestoreStep
  <2>3. JobFits(work', dir, objects, dangling)
    BY <2>2 DEF JobFits, ArchiveStep, RestoreStep
  <2>4. QED
    BY <1>1, <1>2, <2>2, <2>3, JobStepFacts, WorkStep
<1>5. QED
  BY <1>1, <1>3, <1>4

LEMMA LoseLockInv == ASSUME SnapshotInv, LoseLock PROVE SnapshotInv'
<1>1. /\ work.step \notin {"none", "enqueued"}
      /\ work' = [work EXCEPT !.held = FALSE]
      /\ UNCHANGED <<row, dir, objects, remote, create, sweep, writes, dangling>>
      /\ CanHappen("losses") /\ Use("losses")
  BY DEF LoseLock, Running
<1>2. happens' \in [Happening -> Nat]
  BY <1>1, HappensFacts, JobStepFacts DEF Happening
<1>3. create = "none" /\ work # Resting /\ writes \in Nat /\ work \in Job(writes)
  BY <1>1, JobStepFacts
<1>4. /\ work' \in Job(writes) /\ work'.step = work.step /\ work'.list = work.list
      /\ work'.kind = work.kind /\ work'.todo = work.todo /\ work'.id = work.id
      /\ work'.added = work.added /\ work'.held = FALSE
  <2> HIDE DEF Files, Entry, JobStep
  <2>1. QED
    BY <1>1, <1>3 DEF Job
<1>5. JobFits(work', dir, objects, dangling)
  BY <1>1, <1>4, JobStepFacts DEF JobFits
<1>6. QED
  BY <1>1, <1>2, <1>3, <1>4, <1>5, JobStepFacts, WorkStep

LEMMA DieAndRestartInv == ASSUME SnapshotInv, DieAndRestart PROVE SnapshotInv'
<1>1. PICK step \in {"queued", "lost"} :
        work' = [Resting EXCEPT !.kind = work.kind, !.step = step, !.overwrite = work.overwrite,
                                !.id = IF work.kind = "restore" THEN work.id ELSE 0]
  BY DEF DieAndRestart
<1>2. /\ work.step \notin {"none", "enqueued"}
      /\ UNCHANGED <<row, dir, objects, remote, create, sweep, writes, dangling>>
      /\ CanHappen("deaths") /\ Use("deaths")
  BY DEF DieAndRestart, Running
<1>3. happens' \in [Happening -> Nat]
  BY <1>2, HappensFacts, JobStepFacts DEF Happening
<1>4. create = "none" /\ work # Resting /\ writes \in Nat /\ work \in Job(writes)
      /\ Resting \in Job(writes)
  BY <1>2, JobStepFacts, RestingFacts
<1>5. work'.step = step /\ work'.list = <<>>
  BY <1>1 DEF Resting
<1>6. work' \in Job(writes)
  <2>1. step \in JobStep
    BY NextStepNames
  <2> HIDE DEF Files, Entry, JobStep
  <2>2. QED
    BY <1>1, <1>4, <2>1 DEF Job
<1>7. JobFits(work', dir, objects, dangling)
  BY <1>5 DEF JobFits, ArchiveStep, RestoreStep
<1>8. QED
  BY <1>2, <1>3, <1>4, <1>5, <1>6, <1>7, JobStepFacts, RestingFacts, WorkStep

LEMMA ReclaimStaleInv == ASSUME SnapshotInv, ReclaimStale PROVE SnapshotInv'
<1>1. /\ work.step = "lost" /\ work' = Resting
      /\ row' = [row EXCEPT !.status = IF @ = "archived" THEN @ ELSE "failed"]
      /\ UNCHANGED <<dir, objects, remote, create, sweep, writes, dangling, happens>>
  BY DEF ReclaimStale
<1>2. row' \in Row
  BY <1>1, JobStepFacts DEF Row, RowStatus
<1>3. QED
  BY <1>1, <1>2, JobStepFacts, EndStep

-----------------------------------------------------------------------------
(* Snapshots: taking one                                                   *)

\* A job that fails.
LEMMA FailsInv ==
    ASSUME SnapshotInv, work.step \notin {"none", "enqueued"}, NEW result, JobEnds(result),
           UNCHANGED <<dir, objects, remote, create, sweep, writes, dangling>>,
           happens' \in [Happening -> Nat]
    PROVE  SnapshotInv'
<1>1. create = "none" /\ row \in Row
  BY JobStepFacts
<1>2. work' = Resting /\ row' \in Row
  BY <1>1, JobEndsFacts
<1>3. QED
  BY <1>1, <1>2, EndStep

\* Values of an archive's two passes over the files.
LEMMA ReadFileFacts ==
    ASSUME SnapshotInv, NEW p \in Paths
    PROVE  /\ [work EXCEPT !.hashed[p] = dir.files[p], !.todo = @ \ {p}] \in Job(writes)
           /\ [work EXCEPT !.added[p] = dir.files[p], !.todo = @ \ {p}] \in Job(writes)
<1>1. work \in Job(writes) /\ dir.files \in Files(writes)
  BY JobStepFacts DEF Directory
<1>2. work.hashed \in Files(writes) /\ work.added \in Files(writes)
  BY <1>1 DEF Job
<1>3. /\ [work.hashed EXCEPT ![p] = dir.files[p]] \in Files(writes)
      /\ [work.added EXCEPT ![p] = dir.files[p]] \in Files(writes)
  BY <1>1, <1>2 DEF Files
<1> HIDE DEF Files, Entry, JobStep
<1>4. QED
  BY <1>1, <1>3 DEF Job

LEMMA HashFileInv == ASSUME SnapshotInv, HashFile PROVE SnapshotInv'
<1>1. /\ work.step = "hash"
      /\ UNCHANGED <<dir, objects, remote, create, sweep, writes, dangling, happens>>
  BY DEF HashFile
<1>2. create = "none" /\ work # Resting /\ writes \in Nat /\ work \in Job(writes)
  BY <1>1, JobStepFacts
<1>3. work.kind = "archive" /\ work.todo \subseteq Paths /\ work.id = Len(objects) + 1
  BY <1>1, JobStepFacts DEF JobFits, ArchiveStep
<1>4. CASE Present(dir.files) = {}
  <2>1. JobEnds("failed")
    BY <1>4 DEF HashFile
  <2>2. QED
    BY <1>1, <2>1, FailsInv, JobStepFacts
<1>5. ASSUME Present(dir.files) # {}, work.todo = {},
             work' = [work EXCEPT !.step = "add", !.todo = Present(work.hashed)]
      PROVE  SnapshotInv'
  <2>1. Present(work.hashed) \subseteq Paths /\ "add" \in JobStep
    BY DEF Present, JobStep, ArchiveStep
  <2>2. /\ work' \in Job(writes) /\ work'.step = "add" /\ work'.list = work.list
        /\ work'.kind = work.kind /\ work'.todo \subseteq Paths /\ work'.id = work.id
    <3> HIDE DEF Files, Entry, JobStep
    <3>1. QED
      BY <1>2, <1>5, <2>1 DEF Job
  <2>3. JobFits(work', dir, objects, dangling)
    BY <1>3, <2>2 DEF JobFits, ArchiveStep, RestoreStep
  <2>4. UNCHANGED row
    BY <1>5 DEF HashFile
  <2>5. QED
    BY <1>1, <1>2, <2>2, <2>3, <2>4, JobStepFacts, WorkStep
<1>6. ASSUME Present(dir.files) # {}, NEW p \in work.todo,
             work' = [work EXCEPT !.hashed[p] = dir.files[p], !.todo = @ \ {p}]
      PROVE  SnapshotInv'
  <2>1. work' \in Job(writes)
    BY <1>3, <1>6, ReadFileFacts
  <2>2. /\ work'.step = "hash" /\ work'.list = work.list
        /\ work'.kind = work.kind /\ work'.todo \subseteq Paths /\ work'.id = work.id
    BY <1>1, <1>2, <1>3, <1>6 DEF Job
  <2>3. JobFits(work', dir, objects, dangling)
    BY <1>3, <2>2 DEF JobFits, ArchiveStep, RestoreStep
  <2>4. UNCHANGED row
    BY <1>6 DEF HashFile
  <2>5. QED
    BY <1>1, <1>2, <2>1, <2>2, <2>3, <2>4, JobStepFacts, WorkStep
<1>7. QED
  BY <1>4, <1>5, <1>6 DEF HashFile

LEMMA AddFileInv == ASSUME SnapshotInv, AddFile PROVE SnapshotInv'
<1>1. /\ work.step = "add"
      /\ UNCHANGED <<row, dir, objects, remote, create, sweep, writes, dangling, happens>>
  BY DEF AddFile
<1>2. create = "none" /\ work # Resting /\ writes \in Nat /\ work \in Job(writes)
  BY <1>1, JobStepFacts
<1>3. work.kind = "archive" /\ work.todo \subseteq Paths /\ work.id = Len(objects) + 1
  BY <1>1, JobStepFacts DEF JobFits, ArchiveStep
<1>4. ASSUME work' = [work EXCEPT !.step = "verify"] PROVE SnapshotInv'
  <2>1. /\ work' \in Job(writes) /\ work'.step = "verify" /\ work'.list = work.list
        /\ work'.kind = work.kind /\ work'.id = work.id
    BY <1>2, <1>4, NextStepFacts, NextStepNames DEF ArchiveStep
  <2>2. JobFits(work', dir, objects, dangling)
    BY <1>3, <2>1 DEF JobFits, ArchiveStep, RestoreStep
  <2>3. QED
    BY <1>1, <1>2, <2>1, <2>2, JobStepFacts, WorkStep
<1>5. ASSUME NEW p \in work.todo,
             work' = [work EXCEPT !.added[p] = dir.files[p], !.todo = @ \ {p}]
      PROVE  SnapshotInv'
  <2>1. work' \in Job(writes)
    BY <1>3, <1>5, ReadFileFacts
  <2>2. /\ work'.step = "add" /\ work'.list = work.list
        /\ work'.kind = work.kind /\ work'.todo \subseteq Paths /\ work'.id = work.id
    BY <1>1, <1>2, <1>3, <1>5 DEF Job
  <2>3. JobFits(work', dir, objects, dangling)
    BY <1>3, <2>2 DEF JobFits, ArchiveStep, RestoreStep
  <2>4. QED
    BY <1>1, <1>2, <2>1, <2>2, <2>3, JobStepFacts, WorkStep
<1>6. QED
  BY <1>4, <1>5 DEF AddFile

LEMMA VerifySnapshotInv == ASSUME SnapshotInv, VerifySnapshot PROVE SnapshotInv'
<1>1. /\ work.step = "verify"
      /\ UNCHANGED <<dir, objects, remote, create, sweep, writes, dangling, happens>>
  BY DEF VerifySnapshot
<1>2. create = "none" /\ work # Resting /\ writes \in Nat /\ work \in Job(writes)
  BY <1>1, JobStepFacts
<1>3. work.kind = "archive" /\ work.id = Len(objects) + 1
  BY <1>1, JobStepFacts DEF JobFits, ArchiveStep
<1>4. ASSUME work' = [work EXCEPT !.step = "upload"], UNCHANGED row PROVE SnapshotInv'
  <2>1. /\ work' \in Job(writes) /\ work'.step = "upload" /\ work'.list = work.list
        /\ work'.kind = work.kind /\ work'.id = work.id
    BY <1>2, <1>4, NextStepFacts, NextStepNames DEF ArchiveStep
  <2>2. JobFits(work', dir, objects, dangling)
    BY <1>3, <2>1 DEF JobFits, ArchiveStep, RestoreStep
  <2>3. QED
    BY <1>1, <1>2, <1>4, <2>1, <2>2, JobStepFacts, WorkStep
<1>5. ASSUME JobEnds("failed") PROVE SnapshotInv'
  BY <1>1, <1>5, FailsInv, JobStepFacts
<1>6. QED
  BY <1>4, <1>5 DEF VerifySnapshot

\* A list stays sound when an object is added, one that it does not name is
\* changed, or the objects it names are emptied and known to be.
LEMMA SoundKept ==
    ASSUME NEW entries, NEW o \in Seq(Object), NEW gone, Sound(entries, o, gone)
    PROVE  /\ \A x \in Object : Sound(entries, Append(o, x), gone)
           /\ \A id, x : (\A i \in DOMAIN entries : entries[i].id # id)
                => Sound(entries, [o EXCEPT ![id] = x], gone)
           /\ \A id, x : Sound(entries, [o EXCEPT ![id] = x], gone \cup {id})
           /\ \A p : DOMAIN p = DOMAIN o => Sound(entries, p, gone \cup DOMAIN o)
           /\ Sound(entries, o, gone \cup DOMAIN o)
<1>1. ASSUME NEW x \in Object PROVE Sound(entries, Append(o, x), gone)
  <2>1. /\ \A i \in DOMAIN o : i \in DOMAIN Append(o, x) /\ Append(o, x)[i] = o[i]
    <3> HIDE DEF Object
    <3>1. QED
      OBVIOUS
  <2>2. QED
    BY <2>1 DEF Sound
<1>2. ASSUME NEW id, NEW x, \A i \in DOMAIN entries : entries[i].id # id
      PROVE  Sound(entries, [o EXCEPT ![id] = x], gone)
  BY <1>2 DEF Sound
<1>3. ASSUME NEW id, NEW x PROVE Sound(entries, [o EXCEPT ![id] = x], gone \cup {id})
  BY DEF Sound
<1>4. ASSUME NEW p, DOMAIN p = DOMAIN o PROVE Sound(entries, p, gone \cup DOMAIN o)
  BY <1>4 DEF Sound
<1>5. Sound(entries, o, gone \cup DOMAIN o)
  BY DEF Sound
<1>6. QED
  BY <1>1, <1>2, <1>3, <1>4, <1>5

LEMMA ObjectChanges ==
    ASSUME NEW o \in Seq(Object), NEW id, NEW x \in Object
    PROVE  [o EXCEPT ![id] = x] \in Seq(Object)
<1> DEFINE changed == [o EXCEPT ![id] = x]
<1>1. Len(o) \in Nat /\ DOMAIN o = 1 .. Len(o) /\ \A i \in 1 .. Len(o) : o[i] \in Object
  <2> HIDE DEF Object
  <2>1. QED
    OBVIOUS
<1>2. changed \in [1 .. Len(o) -> Object]
  <2> HIDE DEF Object
  <2>1. changed = [i \in 1 .. Len(o) |-> IF i = id THEN x ELSE o[i]]
    BY <1>1
  <2>2. QED
    BY <1>1, <2>1
<1>3. QED
  BY <1>1, <1>2, SeqDef

LEMMA UploadInv == ASSUME SnapshotInv, Upload PROVE SnapshotInv'
<1>1. /\ work.step = "upload"
      /\ dir' = IF remote THEN dir ELSE [dir EXCEPT !.exists = TRUE]
      /\ UNCHANGED <<remote, create, sweep, writes, dangling>>
  BY DEF Upload
<1>2. create = "none" /\ work # Resting /\ writes \in Nat /\ work \in Job(writes)
      /\ row.archived = "no" /\ objects \in Seq(Object) /\ dir \in Directory(writes)
      /\ row \in Row /\ happens \in [Happening -> Nat]
  BY <1>1, JobStepFacts
<1>3. work.kind = "archive" /\ work.id = Len(objects) + 1
  BY <1>1, JobStepFacts DEF JobFits, ArchiveStep
<1>4. dir' \in Directory(writes) /\ dir'.list = dir.list
  <2> HIDE DEF Files, Entry
  <2>1. QED
    BY <1>1, <1>2 DEF Directory
<1>5. happens' \in [Happening -> Nat] \/ UNCHANGED happens
  BY <1>2, HappensFacts DEF Upload, Happening
<1>6. happens' \in [Happening -> Nat]
  BY <1>2, <1>5
<1>7. ASSUME NEW x \in Object, objects' = Append(objects, x),
             work' = [work EXCEPT !.step = "head"], UNCHANGED row
      PROVE  SnapshotInv'
  <2>1. objects' \in Seq(Object) /\ Len(objects') = Len(objects) + 1
    <3> HIDE DEF Object
    <3>1. QED
      BY <1>2, <1>7
  <2>2. /\ work' \in Job(writes) /\ work'.step = "head" /\ work'.list = work.list
        /\ work'.kind = work.kind /\ work'.id = work.id
    BY <1>2, <1>7, NextStepFacts, NextStepNames DEF ArchiveStep
  <2>3. Sound(dir'.list, objects', dangling') /\ Sound(work'.list, objects', dangling')
    <3>1. /\ Sound(dir.list, Append(objects, x), dangling)
          /\ Sound(work.list, Append(objects, x), dangling)
      BY <1>2, JobStepFacts, SoundKept
    <3>2. QED
      BY <1>1, <1>4, <1>7, <2>2, <3>1
  <2>4. \A i \in DOMAIN dir'.list : dir'.list[i].id # work'.id
    <3>1. \A i \in DOMAIN dir.list : dir.list[i].id \in DOMAIN objects
      BY JobStepFacts DEF Sound
    <3>2. Len(objects) + 1 \notin DOMAIN objects
      <4> HIDE DEF Object
      <4>1. QED
        BY <1>2
    <3>3. QED
      BY <1>3, <1>4, <2>2, <3>1, <3>2
  <2>5. work'.id = Len(objects') /\ work'.id # 0
    <3> HIDE DEF Object
    <3>1. QED
      BY <1>2, <1>3, <2>1, <2>2
  <2>6. JobFits(work', dir', objects', dangling')
    BY <1>3, <2>2, <2>4, <2>5 DEF JobFits, ArchiveStep, RestoreStep
  <2>7. QED
    BY <1>1, <1>2, <1>4, <1>6, <1>7, <2>1, <2>2, <2>3, <2>6 DEF SnapshotInv, SnapshotTypes
<1>8. work.added \in Object
  <2>1. work.added \in Files(writes)
    BY <1>2 DEF Job
  <2>2. QED
    BY <1>2, <2>1 DEF Files, Object
<1>9. [work.added EXCEPT ![CHOOSE p \in Paths : TRUE] = 99] \in Object
  BY <1>8 DEF Object
<1>10. ASSUME JobEnds("failed"), UNCHANGED objects PROVE SnapshotInv'
  <2>1. work' = Resting /\ row' \in Row
    BY <1>2, <1>10, JobEndsFacts
  <2>2. Sound(dir'.list, objects', dangling')
    BY <1>1, <1>4, <1>10, JobStepFacts
  <2>3. QED
    BY <1>1, <1>2, <1>4, <1>6, <1>10, <2>1, <2>2, RestingFacts DEF SnapshotInv, SnapshotTypes
<1>11. QED
  BY <1>7, <1>8, <1>9, <1>10 DEF Upload

LEMMA VerifyUploadInv == ASSUME SnapshotInv, VerifyUpload PROVE SnapshotInv'
<1>1. /\ work.step = "head"
      /\ UNCHANGED <<dir, remote, create, sweep, writes, dangling, happens>>
  BY DEF VerifyUpload
<1>2. create = "none" /\ work # Resting /\ writes \in Nat /\ work \in Job(writes)
      /\ row.archived = "no" /\ objects \in Seq(Object) /\ row \in Row
  BY <1>1, JobStepFacts
<1>3. work.kind = "archive" /\ work.id = Len(objects) /\ work.id # 0
      /\ \A i \in DOMAIN dir.list : dir.list[i].id # work.id
  BY <1>1, JobStepFacts DEF JobFits, ArchiveStep
<1>4. ASSUME objects[work.id] = work.added, work' = [work EXCEPT !.step = "record"],
             UNCHANGED <<row, objects>>
      PROVE  SnapshotInv'
  <2>1. /\ work' \in Job(writes) /\ work'.step = "record" /\ work'.list = work.list
        /\ work'.kind = work.kind /\ work'.id = work.id /\ work'.added = work.added
    BY <1>2, <1>4, NextStepFacts, NextStepNames DEF ArchiveStep
  <2>2. JobFits(work', dir, objects, dangling)
    BY <1>3, <1>4, <2>1 DEF JobFits, ArchiveStep, RestoreStep
  <2>3. QED
    BY <1>1, <1>2, <1>4, <2>1, <2>2, JobStepFacts, WorkStep
<1>5. ASSUME JobEnds("failed"), objects' = [objects EXCEPT ![work.id] = Nothing]
      PROVE  SnapshotInv'
  <2>1. work' = Resting /\ row' \in Row
    BY <1>2, <1>5, JobEndsFacts
  <2>2. objects' \in Seq(Object)
    BY <1>2, <1>5, RestingFacts, ObjectChanges
  <2>3. Sound(dir'.list, objects', dangling')
    BY <1>1, <1>2, <1>3, <1>5, JobStepFacts, SoundKept
  <2>4. QED
    BY <1>1, <1>2, <2>1, <2>2, <2>3, RestingFacts, JobStepFacts DEF SnapshotInv, SnapshotTypes
<1>6. QED
  BY <1>4, <1>5 DEF VerifyUpload, HeadObject

-----------------------------------------------------------------------------
(* Snapshots: the list                                                     *)

LEMMA RecordEntryInv == ASSUME SnapshotInv, RecordEntry PROVE SnapshotInv'
<1>1. /\ work.step = "record"
      /\ UNCHANGED <<row, dir, objects, remote, create, sweep, writes, dangling, happens>>
  BY DEF RecordEntry
<1>2. create = "none" /\ work # Resting /\ writes \in Nat /\ work \in Job(writes)
      /\ row.archived = "no" /\ dir \in Directory(writes) /\ objects \in Seq(Object)
  BY <1>1, JobStepFacts
<1>3. /\ work.kind = "archive" /\ work.id = Len(objects) /\ work.id # 0
      /\ \A i \in DOMAIN dir.list : dir.list[i].id # work.id
      /\ objects[work.id] = work.added \/ work.id \in dangling
  BY <1>1, JobStepFacts DEF JobFits, ArchiveStep
<1> DEFINE entry == [id |-> work.id, status |-> "available", files |-> work.added,
                     error |-> FALSE, restored |-> FALSE]
           entries == Append(dir.list, entry)
           surplus == {entries[i].id : i \in Surplus(entries)}
<1>4. work' = [work EXCEPT !.step = "retain", !.list = entries, !.todo = surplus]
  BY DEF RecordEntry
<1>5. entry \in Entry(writes)
  <2>1. work.id \in Nat /\ work.added \in Files(writes)
    BY <1>2 DEF Job
  <2> HIDE DEF Files
  <2>2. QED
    BY <2>1 DEF Entry
<1>6. dir.list \in Seq(Entry(writes))
  BY <1>2 DEF Directory
<1>7. entry.id = work.id /\ entry.status = "available" /\ entry.files = work.added
  OBVIOUS
<1> HIDE DEF entry
<1>8. /\ entries \in Seq(Entry(writes)) /\ DOMAIN entries = DOMAIN dir.list \cup {Len(dir.list) + 1}
      /\ \A i \in DOMAIN dir.list : entries[i] = dir.list[i] /\ i # Len(dir.list) + 1
      /\ entries[Len(dir.list) + 1] = entry
  <2> HIDE DEF Entry
  <2>1. QED
    BY <1>5, <1>6
<1>9. Sound(entries, objects, dangling)
  <2>1. Sound(dir.list, objects, dangling)
    BY JobStepFacts
  <2>2. work.id \in DOMAIN objects
    <3> HIDE DEF Object
    <3>1. QED
      BY <1>2, <1>3
  <2> HIDE DEF entries
  <2>3. QED
    BY <2>1, <2>2, <1>3, <1>7, <1>8 DEF Sound
<1>10. surplus \subseteq Nat /\ \A id \in surplus : \E i \in DOMAIN entries : entries[i].id = id
  <2>1. Surplus(entries) \subseteq DOMAIN entries
    BY DEF Surplus
  <2>2. \A i \in DOMAIN entries : entries[i].id \in Nat
    <3>1. \A i \in DOMAIN entries : entries[i] \in Entry(writes)
      <4> HIDE DEF Entry, entries
      <4>1. QED
        BY <1>8
    <3>2. QED
      BY <3>1 DEF Entry
  <2> HIDE DEF entries
  <2>3. QED
    BY <2>1, <2>2
<1> HIDE DEF entries, surplus
<1>11. /\ work' \in Job(writes) /\ work'.step = "retain" /\ work'.list = entries
       /\ work'.kind = "archive" /\ work'.todo = surplus
  <2>1. "retain" \in JobStep
    BY DEF JobStep, ArchiveStep
  <2> HIDE DEF Files, Entry, JobStep
  <2>2. QED
    BY <2>1, <1>2, <1>3, <1>4, <1>8, <1>10 DEF Job
<1>12. JobFits(work', dir, objects, dangling)
  BY <1>10, <1>11 DEF JobFits, ArchiveStep, RestoreStep
<1>13. QED
  BY <1>1, <1>2, <1>9, <1>11, <1>12, JobStepFacts, WorkStep

LEMMA ListChanges ==
    ASSUME NEW n \in Nat, NEW entries \in Seq(Entry(n)), NEW i \in DOMAIN entries, NEW x \in Entry(n),
           x.id = entries[i].id, NEW o, NEW gone, Sound(entries, o, gone),
           x.status = "expired" \/ (x.status = entries[i].status /\ x.files = entries[i].files)
    PROVE  /\ [entries EXCEPT ![i] = x] \in Seq(Entry(n))
           /\ Sound([entries EXCEPT ![i] = x], o, gone)
           /\ \A j \in DOMAIN entries : j \in DOMAIN [entries EXCEPT ![i] = x]
                                     /\ [entries EXCEPT ![i] = x][j].id = entries[j].id
<1> HIDE DEF Entry
<1> DEFINE new == [entries EXCEPT ![i] = x]
<1>1. new \in Seq(Entry(n))
  BY ExceptSeq
<1>2. DOMAIN new = DOMAIN entries /\ new[i] = x /\ \A j \in DOMAIN entries : j # i => new[j] = entries[j]
  OBVIOUS
<1> HIDE DEF new
<1>3. Sound(new, o, gone)
  BY <1>2 DEF Sound
<1>4. QED
  BY <1>1, <1>2, <1>3 DEF new

LEMMA DeleteSurplusInv == ASSUME SnapshotInv, DeleteSurplus PROVE SnapshotInv'
<1>1. /\ work.step = "retain"
      /\ UNCHANGED <<row, dir, remote, create, sweep, writes>>
  BY DEF DeleteSurplus
<1>2. create = "none" /\ work # Resting /\ writes \in Nat /\ work \in Job(writes)
      /\ row.archived = "no" /\ dir \in Directory(writes) /\ objects \in Seq(Object)
      /\ row \in Row /\ happens \in [Happening -> Nat]
  BY <1>1, JobStepFacts
<1>3. /\ work.kind = "archive"
      /\ \A id \in work.todo : \E i \in DOMAIN work.list : work.list[i].id = id
      /\ work.list \in Seq(Entry(writes))
  BY <1>1, <1>2, JobStepFacts DEF JobFits, ArchiveStep, Job
<1>4. PICK id \in work.todo :
        LET at == CHOOSE i \in DOMAIN work.list : work.list[i].id = id
            gone == ~remote /\ objects[id] = Nothing
        IN \/ /\ objects' = [objects EXCEPT ![id] = Nothing]
              /\ work' = [work EXCEPT !.todo = @ \ {id}, !.list[at].status = "expired",
                                      !.list[at].error = FALSE]
              /\ dangling' = dangling \cup {id} /\ UNCHANGED happens
           \/ /\ gone \/ CanHappen("troubles")
              /\ work' = [work EXCEPT !.todo = @ \ {id}, !.list[at].error = TRUE]
              /\ happens' = IF gone THEN happens ELSE [happens EXCEPT !.troubles = @ - 1]
              /\ UNCHANGED <<objects, dangling>>
  BY DEF DeleteSurplus
<1> DEFINE at == CHOOSE i \in DOMAIN work.list : work.list[i].id = id
<1>5. at \in DOMAIN work.list /\ work.list[at].id = id
  BY <1>3
<1> DEFINE entry == work.list[at]
           spent == [entry EXCEPT !.status = "expired", !.error = FALSE]
           wrong == [entry EXCEPT !.error = TRUE]
<1>6. /\ spent \in Entry(writes) /\ wrong \in Entry(writes)
      /\ spent.id = entry.id /\ wrong.id = entry.id
      /\ spent.status = "expired" /\ wrong.status = entry.status /\ wrong.files = entry.files
  <2>1. entry \in Entry(writes)
    <3> HIDE DEF Entry, at
    <3>1. QED
      BY <1>3, <1>5
  <2> HIDE DEF entry, Files
  <2>2. QED
    BY <2>1 DEF Entry
<1>7. ASSUME NEW x \in Entry(writes), x.id = entry.id,
             x.status = "expired" \/ (x.status = entry.status /\ x.files = entry.files),
             work' = [work EXCEPT !.todo = @ \ {id}, !.list = [work.list EXCEPT ![at] = x]],
             objects' \in Seq(Object), happens' \in [Happening -> Nat],
             Sound(dir.list, objects', dangling'), Sound(work.list, objects', dangling')
      PROVE  SnapshotInv'
  <2> HIDE DEF at
  <2> DEFINE entries == [work.list EXCEPT ![at] = x]
  <2>1. /\ entries \in Seq(Entry(writes)) /\ Sound(entries, objects', dangling')
        /\ \A j \in DOMAIN work.list : j \in DOMAIN entries /\ entries[j].id = work.list[j].id
    BY <1>2, <1>3, <1>5, <1>7, ListChanges
  <2>2. work' = [work EXCEPT !.todo = @ \ {id}, !.list = entries]
    BY <1>7
  <2> HIDE DEF entries
  <2>3. /\ work' \in Job(writes) /\ work'.step = "retain" /\ work'.list = entries
        /\ work'.kind = "archive" /\ work'.todo \subseteq work.todo
    <3> HIDE DEF Files, Entry, JobStep
    <3>1. QED
      BY <1>1, <1>2, <1>3, <2>1, <2>2 DEF Job
  <2>4. JobFits(work', dir, objects', dangling')
    BY <1>3, <2>1, <2>3 DEF JobFits, ArchiveStep, RestoreStep
  <2>5. QED
    BY <1>1, <1>2, <1>7, <2>1, <2>3, <2>4 DEF SnapshotInv, SnapshotTypes
<1>8. CASE /\ objects' = [objects EXCEPT ![id] = Nothing]
           /\ work' = [work EXCEPT !.todo = @ \ {id}, !.list[at].status = "expired",
                                   !.list[at].error = FALSE]
           /\ dangling' = dangling \cup {id} /\ UNCHANGED happens
  <2>1. objects' \in Seq(Object)
    BY <1>2, <1>8, RestingFacts, ObjectChanges
  <2>2. Sound(dir.list, objects', dangling') /\ Sound(work.list, objects', dangling')
    BY <1>2, <1>8, JobStepFacts, SoundKept
  <2>3. work' = [work EXCEPT !.todo = @ \ {id}, !.list = [work.list EXCEPT ![at] = spent]]
    <3> HIDE DEF at, Entry, Files, JobStep
    <3>1. QED
      BY <1>2, <1>3, <1>5, <1>8 DEF Job
  <2>4. happens' \in [Happening -> Nat]
    BY <1>2, <1>8
  <2> HIDE DEF spent, at, entry
  <2>5. QED
    BY <1>6, <1>7, <2>1, <2>2, <2>3, <2>4
<1>9. CASE /\ (~remote /\ objects[id] = Nothing) \/ CanHappen("troubles")
           /\ work' = [work EXCEPT !.todo = @ \ {id}, !.list[at].error = TRUE]
           /\ happens' = IF ~remote /\ objects[id] = Nothing THEN happens
                         ELSE [happens EXCEPT !.troubles = @ - 1]
           /\ UNCHANGED <<objects, dangling>>
  <2>1. happens' \in [Happening -> Nat]
    <3>1. CASE happens' = happens
      BY <1>2, <3>1
    <3>2. CASE CanHappen("troubles") /\ happens' = [happens EXCEPT !.troubles = @ - 1]
      BY <1>2, <3>2, HappensFacts DEF Use, Happening
    <3>3. QED
      BY <1>9, <3>1, <3>2
  <2>2. work' = [work EXCEPT !.todo = @ \ {id}, !.list = [work.list EXCEPT ![at] = wrong]]
    <3> HIDE DEF at, Entry, Files, JobStep
    <3>1. QED
      BY <1>2, <1>3, <1>5, <1>9 DEF Job
  <2> HIDE DEF wrong, at, entry
  <2>3. QED
    BY <1>2, <1>6, <1>7, <1>9, <2>1, <2>2, JobStepFacts
<1>10. QED
  BY <1>4, <1>8, <1>9

LEMMA SaveListInv == ASSUME SnapshotInv, SaveList PROVE SnapshotInv'
<1>1. /\ work.step \in {"retain", "save"} /\ JobEnds("done")
      /\ dir' = [dir EXCEPT !.exists = TRUE, !.list = work.list]
      /\ dangling' = dangling \ {work.list[i].id :
                        i \in {j \in DOMAIN work.list : work.list[j].status = "expired"}}
      /\ UNCHANGED <<objects, remote, create, sweep, writes, happens>>
  BY DEF SaveList
<1>2. create = "none" /\ work # Resting /\ writes \in Nat /\ work \in Job(writes)
      /\ dir \in Directory(writes) /\ row \in Row /\ Sound(work.list, objects, dangling)
  BY <1>1, JobStepFacts
<1>3. work' = Resting /\ row' \in Row
  BY <1>1, <1>2, JobEndsFacts
<1>4. dir' \in Directory(writes) /\ dir'.list = work.list
  <2>1. work.list \in Seq(Entry(writes))
    BY <1>2 DEF Job
  <2> HIDE DEF Files, Entry
  <2>2. QED
    BY <1>1, <1>2, <2>1 DEF Directory
<1>5. Sound(work.list, objects, dangling')
  BY <1>1, <1>2 DEF Sound
<1>6. QED
  BY <1>1, <1>2, <1>3, <1>4, <1>5, RestingFacts, JobStepFacts DEF SnapshotInv, SnapshotTypes

-----------------------------------------------------------------------------
(* Snapshots: restoring                                                    *)

LEMMA ReadListInv == ASSUME SnapshotInv, ReadList PROVE SnapshotInv'
<1>1. /\ work.step = "read"
      /\ UNCHANGED <<dir, objects, remote, create, sweep, writes, dangling, happens>>
  BY DEF ReadList
<1>2. create = "none" /\ work # Resting /\ writes \in Nat /\ work \in Job(writes)
      /\ dir \in Directory(writes) /\ work.kind = "restore"
  BY <1>1, JobStepFacts DEF JobFits, RestoreStep
<1>3. CASE EntryOf(dir.list, work.id) = {}
  <2>1. JobEnds("failed")
    BY <1>3 DEF ReadList
  <2>2. QED
    BY <1>1, <2>1, FailsInv, JobStepFacts
<1>4. CASE EntryOf(dir.list, work.id) # {}
  <2>1. work' = [work EXCEPT !.step = "download", !.list = dir.list] /\ UNCHANGED row
    BY <1>4 DEF ReadList
  <2>2. dir.list \in Seq(Entry(writes)) /\ "download" \in JobStep
    BY <1>2 DEF Directory, JobStep, RestoreStep
  <2>3. /\ work' \in Job(writes) /\ work'.step = "download" /\ work'.list = dir.list
        /\ work'.kind = "restore" /\ work'.id = work.id
    <3> HIDE DEF Files, Entry, JobStep
    <3>1. QED
      BY <1>2, <2>1, <2>2 DEF Job
  <2>4. JobFits(work', dir, objects, dangling)
    BY <1>4, <2>3 DEF JobFits, ArchiveStep, RestoreStep
  <2>5. QED
    BY <1>1, <1>2, <2>1, <2>3, <2>4, JobStepFacts, WorkStep
<1>5. QED
  BY <1>3, <1>4

LEMMA DownloadInv == ASSUME SnapshotInv, Download PROVE SnapshotInv'
<1>1. /\ work.step = "download"
      /\ UNCHANGED <<dir, objects, remote, create, sweep, writes, dangling, happens>>
  BY DEF Download
<1>2. create = "none" /\ work # Resting /\ writes \in Nat /\ work \in Job(writes)
      /\ work.kind = "restore" /\ EntryOf(work.list, work.id) # {}
  BY <1>1, JobStepFacts DEF JobFits, RestoreStep
<1> DEFINE at == CHOOSE i \in EntryOf(work.list, work.id) : TRUE
<1>3. work.list[at].files \in Files(writes)
  <2>1. at \in DOMAIN work.list
    BY <1>2 DEF EntryOf
  <2>2. work.list[at] \in Entry(writes)
    <3>1. work.list \in Seq(Entry(writes))
      BY <1>2 DEF Job
    <3> HIDE DEF Entry, at
    <3>2. QED
      BY <2>1, <3>1
  <2>3. QED
    BY <2>2 DEF Entry
<1>4. CASE objects[work.id] = work.list[at].files
  <2>1. work' = [work EXCEPT !.step = "compare", !.added = objects[work.id]] /\ UNCHANGED row
    BY <1>4 DEF Download
  <2>2. objects[work.id] \in Files(writes) /\ "compare" \in JobStep
    BY <1>3, <1>4 DEF JobStep, RestoreStep
  <2>3. /\ work' \in Job(writes) /\ work'.step = "compare" /\ work'.list = work.list
        /\ work'.kind = "restore" /\ work'.id = work.id
    <3> HIDE DEF Files, Entry, JobStep
    <3>1. QED
      BY <1>2, <2>1, <2>2 DEF Job
  <2>4. JobFits(work', dir, objects, dangling)
    BY <1>2, <2>3 DEF JobFits, ArchiveStep, RestoreStep
  <2>5. QED
    BY <1>1, <1>2, <2>1, <2>3, <2>4, JobStepFacts, WorkStep
<1>5. CASE objects[work.id] # work.list[at].files
  <2>1. JobEnds("failed")
    BY <1>5 DEF Download
  <2>2. QED
    BY <1>1, <2>1, FailsInv, JobStepFacts
<1>6. QED
  BY <1>4, <1>5

\* Nothing stands in the way of a restoration that may not overwrite.
LEMMA CompareInv == ASSUME SnapshotInv, Compare PROVE SnapshotInv'
<1>1. /\ work.step = "compare"
      /\ UNCHANGED <<dir, objects, remote, create, sweep, writes, dangling, happens>>
  BY DEF Compare
<1>2. create = "none" /\ work # Resting /\ writes \in Nat /\ work \in Job(writes)
      /\ work.kind = "restore" /\ EntryOf(work.list, work.id) # {}
  BY <1>1, JobStepFacts DEF JobFits, RestoreStep
<1>3. CASE Conflicts # {} /\ ~work.overwrite
  <2>1. JobEnds("failed")
    BY <1>3 DEF Compare
  <2>2. QED
    BY <1>1, <2>1, FailsInv, JobStepFacts
<1>4. CASE ~(Conflicts # {} /\ ~work.overwrite)
  <2>1. work' = [work EXCEPT !.step = "replace", !.todo = Present(work.added)] /\ UNCHANGED row
    BY <1>4 DEF Compare
  <2>2. Present(work.added) \subseteq Paths /\ "replace" \in JobStep
    BY DEF Present, JobStep, RestoreStep
  <2>3. /\ work' \in Job(writes) /\ work'.step = "replace" /\ work'.list = work.list
        /\ work'.kind = "restore" /\ work'.id = work.id /\ work'.todo = Present(work.added)
        /\ work'.added = work.added /\ work'.overwrite = work.overwrite
    <3> HIDE DEF Files, Entry, JobStep
    <3>1. QED
      BY <1>2, <2>1, <2>2 DEF Job
  <2>4. ~work.overwrite => \A p \in Present(work.added) : dir.files[p] \in {0, work.added[p]}
    BY <1>4 DEF Conflicts
  <2>5. JobFits(work', dir, objects, dangling)
    BY <1>2, <2>2, <2>3, <2>4 DEF JobFits, ArchiveStep, RestoreStep
  <2>6. QED
    BY <1>1, <1>2, <2>1, <2>3, <2>5, JobStepFacts, WorkStep
<1>5. QED
  BY <1>3, <1>4

LEMMA ReplaceFileInv == ASSUME SnapshotInv, ReplaceFile PROVE SnapshotInv'
<1>1. /\ work.step = "replace"
      /\ UNCHANGED <<row, objects, remote, create, sweep, writes, dangling, happens>>
  BY DEF ReplaceFile
<1>2. create = "none" /\ work # Resting /\ writes \in Nat /\ work \in Job(writes)
      /\ row \in Row /\ row.archived = "no" /\ dir \in Directory(writes)
      /\ work.kind = "restore" /\ EntryOf(work.list, work.id) # {} /\ work.todo \subseteq Paths
      /\ Sound(work.list, objects, dangling) /\ Sound(dir.list, objects, dangling)
  BY <1>1, JobStepFacts DEF JobFits, RestoreStep
<1>3. ASSUME work.todo = {}, UNCHANGED dir,
             LET at == CHOOSE i \in EntryOf(work.list, work.id) : TRUE
             IN work' = [work EXCEPT !.step = "save", !.list[at].restored = TRUE]
      PROVE  SnapshotInv'
  <2> DEFINE at == CHOOSE i \in EntryOf(work.list, work.id) : TRUE
             x == [work.list[at] EXCEPT !.restored = TRUE]
             entries == [work.list EXCEPT ![at] = x]
  <2>1. at \in DOMAIN work.list
    BY <1>2 DEF EntryOf
  <2>2. work.list \in Seq(Entry(writes))
    BY <1>2 DEF Job
  <2>3. work.list[at] \in Entry(writes)
    <3> HIDE DEF Entry, at
    <3>1. QED
      BY <2>1, <2>2
  <2>4. /\ x \in Entry(writes) /\ x.id = work.list[at].id
        /\ x.status = work.list[at].status /\ x.files = work.list[at].files
    <3> HIDE DEF at, Files
    <3>1. QED
      BY <2>3 DEF Entry
  <2>5. work' = [work EXCEPT !.step = "save", !.list = entries]
    <3>1. work' = [work EXCEPT !.step = "save", !.list[at].restored = TRUE]
      BY <1>3
    <3> HIDE DEF at, Entry, Files, JobStep
    <3>2. QED
      BY <1>2, <2>1, <2>2, <3>1 DEF Job
  <2>6. entries \in Seq(Entry(writes)) /\ Sound(entries, objects, dangling)
    <3> HIDE DEF x, at
    <3>1. QED
      BY <1>2, <2>1, <2>2, <2>4, ListChanges
  <2> HIDE DEF entries
  <2>7. "save" \in JobStep
    BY DEF JobStep, RestoreStep
  <2>8. /\ work' \in Job(writes) /\ work'.step = "save" /\ work'.list = entries
        /\ work'.kind = "restore"
    <3> HIDE DEF Files, Entry, JobStep
    <3>1. QED
      BY <1>2, <2>5, <2>6, <2>7 DEF Job
  <2>9. JobFits(work', dir, objects, dangling)
    BY <2>8 DEF JobFits, ArchiveStep, RestoreStep
  <2>10. QED
    BY <1>1, <1>2, <1>3, <2>6, <2>8, <2>9, JobStepFacts, WorkStep
<1>4. ASSUME NEW p \in work.todo,
             dir' = [dir EXCEPT !.exists = TRUE, !.files[p] = work.added[p]],
             work' = [work EXCEPT !.todo = @ \ {p}]
      PROVE  SnapshotInv'
  <2>1. dir.files \in Files(writes) /\ work.added \in Files(writes) /\ p \in Paths
    BY <1>2 DEF Directory, Job
  <2> DEFINE filled == [dir.files EXCEPT ![p] = work.added[p]]
  <2>2. filled \in Files(writes)
    BY <2>1 DEF Files
  <2>3. \A q \in Paths : q # p => filled[q] = dir.files[q]
    BY <2>1 DEF Files
  <2>4. dir' = [dir EXCEPT !.exists = TRUE, !.files = filled]
    <3> HIDE DEF Entry, Files
    <3>1. QED
      BY <1>2, <1>4 DEF Directory
  <2> HIDE DEF filled
  <2>5. dir' \in Directory(writes) /\ dir'.list = dir.list /\ dir'.files = filled
    <3> HIDE DEF Entry, Files
    <3>1. QED
      BY <1>2, <2>2, <2>4 DEF Directory
  <2>6. /\ work' \in Job(writes) /\ work'.step = "replace" /\ work'.list = work.list
        /\ work'.kind = "restore" /\ work'.id = work.id /\ work'.todo = work.todo \ {p}
        /\ work'.added = work.added /\ work'.overwrite = work.overwrite /\ work'.held = work.held
    <3> HIDE DEF Entry, Files, JobStep
    <3>1. QED
      BY <1>1, <1>2, <1>4 DEF Job
  <2>7. ~work'.overwrite /\ work'.held =>
          \A q \in work'.todo \ Unlocked : dir'.files[q] \in {0, work'.added[q]}
    <3>1. ~work.overwrite /\ work.held =>
            \A q \in work.todo \ Unlocked : dir.files[q] \in {0, work.added[q]}
      BY <1>1, JobStepFacts DEF JobFits
    <3>2. \A q \in work'.todo : q \in work.todo /\ dir'.files[q] = dir.files[q]
      BY <1>2, <2>3, <2>5, <2>6
    <3>3. QED
      BY <2>6, <3>1, <3>2
  <2>8. JobFits(work', dir', objects', dangling')
    BY <1>2, <2>6, <2>7 DEF JobFits, ArchiveStep, RestoreStep
  <2>9. QED
    BY <1>1, <1>2, <2>5, <2>6, <2>8, JobStepFacts DEF SnapshotInv, SnapshotTypes
<1>5. QED
  BY <1>3, <1>4 DEF ReplaceFile

-----------------------------------------------------------------------------
(* Snapshots: the directory's other writers                                *)

LEMMA WriteInv == ASSUME SnapshotInv, NEW p \in Paths, Write(p) PROVE SnapshotInv'
<1>1. /\ ~Running \/ ~work.held \/ p \in Unlocked
      /\ dir' = [dir EXCEPT !.files[p] = writes + 1] /\ writes' = writes + 1
      /\ CanHappen("writes") /\ Use("writes")
      /\ UNCHANGED <<row, objects, remote, work, create, sweep, dangling>>
  BY DEF Write
<1>2. writes \in Nat /\ work \in Job(writes) /\ dir \in Directory(writes)
      /\ writes' \in Nat /\ writes <= writes'
  BY <1>1, JobStepFacts
<1>3. happens' \in [Happening -> Nat]
  BY <1>1, HappensFacts, JobStepFacts DEF Happening
<1>4. work' \in Job(writes') /\ dir \in Directory(writes') /\ dir.files \in Files(writes')
  <2>1. work \in Job(writes') /\ dir \in Directory(writes')
    BY <1>2, ValuesGrow
  <2>2. QED
    BY <1>1, <2>1 DEF Directory
<1> DEFINE filled == [dir.files EXCEPT ![p] = writes']
<1>5. filled \in Files(writes')
  BY <1>2, <1>4 DEF Files
<1>6. dir' = [dir EXCEPT !.files = filled] /\ \A q \in Paths : q # p => filled[q] = dir.files[q]
  <2>1. DOMAIN dir.files = Paths
    BY <1>4 DEF Files
  <2> HIDE DEF Entry, Files
  <2>2. QED
    BY <1>1, <1>2, <2>1 DEF Directory
<1> HIDE DEF filled
<1>7. dir' \in Directory(writes') /\ dir'.list = dir.list /\ dir'.files = filled
  <2> HIDE DEF Entry, Files
  <2>1. QED
    BY <1>4, <1>5, <1>6 DEF Directory
<1>8. JobFits(work, dir, objects, dangling)
  BY JobStepFacts
<1>9. work.step = "replace" /\ ~work.overwrite /\ work.held =>
        \A q \in work.todo \ Unlocked : dir'.files[q] \in {0, work.added[q]}
  <2>1. work.step = "replace" => Running /\ work.todo \subseteq Paths
    BY <1>8 DEF Running, JobFits
  <2>2. work.step = "replace" /\ ~work.overwrite /\ work.held =>
          \A q \in work.todo \ Unlocked : dir.files[q] \in {0, work.added[q]}
    BY <1>8 DEF JobFits
  <2>3. QED
    BY <1>1, <1>6, <1>7, <2>1, <2>2
<1>10. JobFits(work', dir', objects', dangling')
  BY <1>1, <1>7, <1>8, <1>9 DEF JobFits
<1>11. QED
  BY <1>1, <1>2, <1>3, <1>4, <1>7, <1>10, JobStepFacts DEF SnapshotInv, SnapshotTypes

LEMMA RetireInv == ASSUME SnapshotInv, Retire PROVE SnapshotInv'
<1>1. /\ work = Resting /\ row' = [status |-> "archived", archived |-> "recent"]
      /\ CanHappen("retirements") /\ Use("retirements")
      /\ UNCHANGED <<dir, objects, remote, work, create, sweep, writes, dangling>>
  BY DEF Retire, Busy
<1>2. happens' \in [Happening -> Nat]
  BY <1>1, HappensFacts, JobStepFacts DEF Happening
<1>3. row' \in Row
  BY <1>1 DEF Row, RowStatus
<1>4. QED
  BY <1>1, <1>2, <1>3, QuietStep DEF SnapshotInv, SnapshotTypes

LEMMA AgeInv == ASSUME SnapshotInv, Age PROVE SnapshotInv'
<1>1. /\ row.archived = "recent" /\ row' = [row EXCEPT !.archived = "old"]
      /\ UNCHANGED <<dir, objects, remote, work, create, sweep, writes, dangling, happens>>
  BY DEF Age
<1>2. work = Resting
  BY <1>1 DEF SnapshotInv
<1>3. row' \in Row
  BY <1>1, JobStepFacts DEF Row
<1>4. QED
  BY <1>1, <1>2, <1>3, QuietStep DEF SnapshotInv, SnapshotTypes

LEMMA EmptiedFacts ==
    ASSUME objects \in Seq(Object)
    PROVE  Emptied \in Seq(Object) /\ DOMAIN Emptied = DOMAIN objects /\ Len(Emptied) = Len(objects)
<1>1. Len(objects) \in Nat /\ DOMAIN objects = 1 .. Len(objects)
  <2> HIDE DEF Object
  <2>1. QED
    OBVIOUS
<1> DEFINE gone == [i \in DOMAIN objects |-> Nothing]
<1>2. gone \in Seq(Object) /\ DOMAIN gone = DOMAIN objects /\ Len(gone) = Len(objects)
  <2>1. Nothing \in Object
    BY RestingFacts
  <2>2. gone \in [1 .. Len(objects) -> Object] /\ DOMAIN gone = 1 .. Len(objects)
    <3> HIDE DEF Object, Nothing
    <3>1. QED
      BY <1>1, <2>1
  <2> HIDE DEF gone
  <2>3. gone \in Seq(Object)
    BY <1>1, <2>2, SeqDef
  <2>4. QED
    BY <1>1, <2>2, <2>3, LenProperties
<1>3. QED
  BY <1>2 DEF Emptied

LEMMA NoDirFacts ==
    /\ NoDir.list = <<>> /\ NoDir.files = Nothing
    /\ \A n \in Nat : NoDir \in Directory(n)
<1>1. NoDir.list = <<>> /\ NoDir.files = Nothing
  BY DEF NoDir
<1>2. ASSUME NEW n \in Nat PROVE NoDir \in Directory(n)
  <2>1. Nothing \in Files(n) /\ <<>> \in Seq(Entry(n))
    BY RestingFacts
  <2> HIDE DEF Files, Entry, Nothing
  <2>2. QED
    BY <2>1 DEF NoDir, Directory
<1>3. QED
  BY <1>1, <1>2

LEMMA RecreateInv == ASSUME SnapshotInv, Recreate PROVE SnapshotInv'
<1>1. /\ work = Resting /\ create = "none"
      /\ row' = [status |-> "initializing", archived |-> "no"]
      /\ work' = [Resting EXCEPT !.kind = "bootstrap", !.step = "enqueued"]
      /\ create' \in {"aside", "init"}
      /\ UNCHANGED <<dir, objects, remote, sweep, writes, dangling, happens>>
  BY DEF Recreate, Busy
<1>2. row' \in Row /\ row'.archived = "no"
  BY <1>1 DEF Row, RowStatus
<1>3. /\ work'.list = <<>> /\ work'.step = "enqueued" /\ work'.kind = "bootstrap"
  BY <1>1 DEF Resting
<1>4. work' \in Job(writes)
  <2>1. Resting \in Job(writes)
    BY RestingFacts, JobStepFacts
  <2>2. "enqueued" \in JobStep
    BY NextStepNames
  <2> HIDE DEF Files, Entry, JobStep
  <2>3. QED
    BY <1>1, <2>1, <2>2 DEF Job
<1>5. JobFits(work', dir', objects', dangling')
  BY <1>3 DEF JobFits, ArchiveStep, RestoreStep
<1>6. QED
  BY <1>1, <1>2, <1>3, <1>4, <1>5, RestingFacts DEF SnapshotInv, SnapshotTypes

\* While the project is created again its first job waits, and does nothing.
LEMMA CreatingFacts ==
    ASSUME SnapshotInv, create # "none"
    PROVE  /\ work.kind = "bootstrap" /\ work.step = "enqueued" /\ work.list = <<>>
           /\ work # Resting /\ row.archived = "no"
           /\ \A d, o, gone : JobFits(work, d, o, gone)
<1>1. work.kind = "bootstrap" /\ work.step = "enqueued"
  BY DEF SnapshotInv
<1>2. work.list = <<>>
  BY <1>1 DEF SnapshotInv, JobFits
<1>3. work # Resting
  BY <1>1, RestingFacts
<1>4. \A d, o, gone : JobFits(work, d, o, gone)
  BY <1>1, <1>2 DEF JobFits, ArchiveStep, RestoreStep
<1>5. QED
  BY <1>1, <1>2, <1>3, <1>4 DEF SnapshotInv

LEMMA AsideInv == ASSUME SnapshotInv, Aside PROVE SnapshotInv'
<1>1. create = "aside" /\ UNCHANGED <<remote, sweep, writes, dangling, happens>>
  BY DEF Aside
<1>2. /\ work.kind = "bootstrap" /\ work.step = "enqueued" /\ work.list = <<>>
      /\ work # Resting /\ row.archived = "no" /\ \A d, o, gone : JobFits(work, d, o, gone)
  BY <1>1, CreatingFacts
<1>3. CASE dir.exists
  <2>1. dir' = NoDir /\ objects' = Emptied /\ create' = "init" /\ UNCHANGED <<row, work>>
    BY <1>3 DEF Aside
  <2>2. objects' \in Seq(Object) /\ dir' \in Directory(writes) /\ dir'.list = <<>>
    BY <2>1, EmptiedFacts, NoDirFacts, JobStepFacts
  <2>3. Sound(dir'.list, objects', dangling') /\ Sound(work'.list, objects', dangling')
    BY <1>2, <2>1, <2>2, RestingFacts
  <2>4. QED
    BY <1>1, <1>2, <2>1, <2>2, <2>3 DEF SnapshotInv, SnapshotTypes
<1>4. CASE ~dir.exists
  <2>1. create' = "none" /\ work' = Resting /\ row' = [row EXCEPT !.status = "failed"]
        /\ UNCHANGED <<dir, objects>>
    BY <1>4 DEF Aside
  <2>2. row' \in Row
    BY <2>1, JobStepFacts DEF Row, RowStatus
  <2>3. QED
    BY <1>1, <2>1, <2>2, RestingFacts, JobStepFacts DEF SnapshotInv, SnapshotTypes
<1>5. QED
  BY <1>3, <1>4

LEMMA InitDirectoryInv == ASSUME SnapshotInv, InitDirectory PROVE SnapshotInv'
<1>1. /\ create = "init" /\ writes' = writes + 1 /\ create' = "publish"
      /\ dir' = [dir EXCEPT !.exists = TRUE, !.files = [p \in Paths |-> writes + 1]]
      /\ row' = [row EXCEPT !.status = "bootstrapping"]
      /\ UNCHANGED <<objects, remote, work, sweep, dangling, happens>>
  BY DEF InitDirectory
<1>2. /\ work.kind = "bootstrap" /\ work.step = "enqueued" /\ work.list = <<>>
      /\ work # Resting /\ row.archived = "no" /\ \A d, o, gone : JobFits(work, d, o, gone)
  BY <1>1, CreatingFacts
<1>3. writes \in Nat /\ work \in Job(writes) /\ dir \in Directory(writes) /\ row \in Row
      /\ writes' \in Nat /\ writes <= writes'
  BY <1>1, JobStepFacts
<1>4. work' \in Job(writes') /\ dir \in Directory(writes')
  BY <1>1, <1>3, ValuesGrow
<1>5. dir' \in Directory(writes') /\ dir'.list = dir.list
  <2>1. [p \in Paths |-> writes + 1] \in Files(writes')
    BY <1>1, <1>3 DEF Files
  <2> DEFINE filled == [p \in Paths |-> writes + 1]
  <2>2. dir' = [dir EXCEPT !.exists = TRUE, !.files = filled]
    BY <1>1
  <2> HIDE DEF Files, Entry, filled
  <2>3. QED
    BY <1>4, <2>1, <2>2 DEF Directory, filled
<1>6. row' \in Row /\ row'.archived = "no"
  BY <1>1, <1>2, <1>3 DEF Row, RowStatus
<1>7. QED
  BY <1>1, <1>2, <1>3, <1>4, <1>5, <1>6, JobStepFacts DEF SnapshotInv, SnapshotTypes

LEMMA PublishFirstInv == ASSUME SnapshotInv, PublishFirst \/ CreateDies PROVE SnapshotInv'
<1>1. /\ create # "none" /\ create' = "none" /\ work' = [work EXCEPT !.step = "queued"]
      /\ UNCHANGED <<row, dir, objects, remote, sweep, writes, dangling>>
  BY DEF PublishFirst, CreateDies
<1>2. happens' \in [Happening -> Nat]
  <2>1. CASE PublishFirst
    BY <2>1, JobStepFacts DEF PublishFirst
  <2>2. CASE CreateDies
    BY <2>2, HappensFacts, JobStepFacts DEF CreateDies, Happening
  <2>3. QED
    BY <2>1, <2>2
<1>3. work.list = <<>> /\ row.archived = "no" /\ writes \in Nat /\ work \in Job(writes)
  BY <1>1, CreatingFacts, JobStepFacts
<1>4. work' \in Job(writes) /\ work'.step = "queued" /\ work'.list = <<>>
  BY <1>1, <1>3, NextStepFacts, NextStepNames
<1>5. JobFits(work', dir', objects', dangling')
  BY <1>4 DEF JobFits, ArchiveStep, RestoreStep
<1>6. QED
  BY <1>1, <1>2, <1>3, <1>4, <1>5, RestingFacts, JobStepFacts DEF SnapshotInv, SnapshotTypes

LEMMA RunBootstrapInv == ASSUME SnapshotInv, RunBootstrap PROVE SnapshotInv'
<1>1. /\ work.step = "queued" /\ JobEnds(IF dir.exists THEN "done" ELSE "failed")
      /\ UNCHANGED <<dir, objects, remote, create, sweep, writes, dangling, happens>>
  BY DEF RunBootstrap
<1>2. QED
  BY <1>1, FailsInv, JobStepFacts

LEMMA SweepInv == ASSUME SnapshotInv, SweepReads \/ SweepChecks \/ SweepCommits PROVE SnapshotInv'
<1>1. /\ UNCHANGED <<dir, objects, remote, work, create, writes, dangling, happens>>
      /\ sweep' \in {"none", "check", "remove", "commit"}
      /\ row' = row \/ row' = [row EXCEPT !.status = "purged"]
  BY DEF SweepReads, SweepChecks, SweepCommits
<1>2. row' \in Row /\ row'.archived = row.archived
  BY <1>1, JobStepFacts DEF Row, RowStatus
<1>3. QED
  BY <1>1, <1>2, QuietStep DEF SnapshotInv, SnapshotTypes

\* A purge that removes what a live project needs takes its list away too, unless
\* it fails; what it emptied is known.
LEMMA SweepRemovesInv == ASSUME SnapshotInv, SweepRemoves PROVE SnapshotInv'
<1>1. /\ dangling' = IF row.archived = "no" THEN dangling \cup DOMAIN objects ELSE dangling
      /\ UNCHANGED <<row, remote, work, create, writes>>
  BY DEF SweepRemoves
<1>2. writes \in Nat /\ work \in Job(writes) /\ dir \in Directory(writes)
      /\ objects \in Seq(Object) /\ Sound(work.list, objects, dangling)
      /\ Sound(dir.list, objects, dangling) /\ JobFits(work, dir, objects, dangling)
  BY JobStepFacts
<1>3. work # Resting => dangling' = dangling \cup DOMAIN objects
  BY <1>1 DEF SnapshotInv
<1>4. ASSUME NEW o \in Seq(Object), DOMAIN o = DOMAIN objects, Len(o) = Len(objects),
             objects' = o, NEW d \in Directory(writes), dir' = d,
             d.list = <<>> \/ (o = objects /\ d.list = dir.list),
             \A p \in Paths : d.files[p] \in {0, dir.files[p]},
             sweep' \in {"none", "commit"}, happens' \in [Happening -> Nat]
      PROVE  SnapshotInv'
  <2>1. Sound(dir'.list, objects', dangling')
    BY <1>1, <1>2, <1>4, RestingFacts, SoundKept
  <2>2. Sound(work'.list, objects', dangling')
    <3>1. CASE work = Resting
      BY <1>1, <3>1, RestingFacts
    <3>2. CASE work # Resting
      <4>1. Sound(work.list, o, dangling \cup DOMAIN objects)
        BY <1>2, <1>4, SoundKept
      <4>2. QED
        BY <1>1, <1>3, <1>4, <3>2, <4>1
    <3>3. QED
      BY <3>1, <3>2
  <2>3. JobFits(work', dir', objects', dangling')
    <3>1. CASE work = Resting
      BY <1>1, <3>1, RestingFacts
    <3>2. CASE work # Resting
      <4>1. work.step \in {"hash", "add", "replace"} => work.todo \subseteq Paths
        BY <1>2 DEF JobFits
      <4>2. work.step = "replace" /\ ~work.overwrite /\ work.held =>
              \A p \in work.todo \ Unlocked : d.files[p] \in {0, work.added[p]}
        BY <1>2, <1>4, <4>1 DEF JobFits
      <4>3. work.step \in {"head", "record"} =>
              \A i \in DOMAIN d.list : d.list[i].id # work.id
        BY <1>2, <1>4 DEF JobFits
      <4>4. work.step = "record" => work.id \in dangling'
        <5>1. ASSUME work.step = "record" PROVE work.id \in DOMAIN objects
          <6>1. work.id = Len(objects) /\ work.id # 0
            BY <1>2, <5>1 DEF JobFits
          <6> HIDE DEF Object
          <6>2. QED
            BY <1>2, <6>1
        <5>2. QED
          BY <1>3, <3>2, <5>1
      <4>5. QED
        BY <1>1, <1>2, <1>4, <4>2, <4>3, <4>4 DEF JobFits
    <3>3. QED
      BY <3>1, <3>2
  <2>4. QED
    BY <1>1, <1>2, <1>4, <2>1, <2>2, <2>3 DEF SnapshotInv, SnapshotTypes
<1>5. CASE dir' = NoDir /\ objects' = Emptied /\ sweep' = "commit" /\ UNCHANGED happens
  <2>1. NoDir \in Directory(writes) /\ NoDir.list = <<>> /\ \A p \in Paths : NoDir.files[p] \in {0, dir.files[p]}
    BY <1>2, NoDirFacts DEF Nothing
  <2>2. Emptied \in Seq(Object) /\ DOMAIN Emptied = DOMAIN objects /\ Len(Emptied) = Len(objects)
    BY <1>2, EmptiedFacts
  <2>3. happens' \in [Happening -> Nat]
    BY <1>5, JobStepFacts
  <2>4. ASSUME NEW o, o = Emptied, NEW d, d = NoDir PROVE SnapshotInv'
    BY <1>4, <1>5, <2>1, <2>2, <2>3, <2>4
  <2>5. QED
    BY <2>4
<1>6. ASSUME CanHappen("troubles"), Use("troubles"), NEW rest \in SUBSET Present(dir.files),
             dir' = [dir EXCEPT !.files = [p \in Paths |-> IF p \in rest THEN @[p] ELSE 0]],
             sweep' = "none", UNCHANGED objects
      PROVE  SnapshotInv'
  <2> DEFINE others == [p \in Paths |-> IF p \in rest THEN dir.files[p] ELSE 0]
  <2>1. others \in Files(writes) /\ \A p \in Paths : others[p] \in {0, dir.files[p]}
    <3>1. dir.files \in Files(writes)
      BY <1>2 DEF Directory
    <3>2. QED
      BY <1>2, <3>1 DEF Files
  <2>2. dir' = [dir EXCEPT !.files = others]
    BY <1>6
  <2> HIDE DEF others
  <2>3. dir' \in Directory(writes) /\ dir'.list = dir.list /\ dir'.files = others
    <3> HIDE DEF Files, Entry
    <3>1. QED
      BY <1>2, <2>1, <2>2 DEF Directory
  <2>4. happens' \in [Happening -> Nat]
    BY <1>6, HappensFacts, JobStepFacts DEF Happening
  <2>5. QED
    BY <1>2, <1>4, <1>6, <2>1, <2>3, <2>4
<1>7. QED
  BY <1>5, <1>6 DEF SweepRemoves

LEMMA SnapshotsNextInv == SnapshotInv /\ [SnapshotsNext]_snapshotVars => SnapshotInv'
<1> SUFFICES ASSUME SnapshotInv, [SnapshotsNext]_snapshotVars PROVE SnapshotInv'
  OBVIOUS
<1>1. ASSUME NEW kind \in {"archive", "restore"}, NEW id \in {0} \cup DOMAIN objects,
             NEW overwrite \in BOOLEAN, EnqueueJob(kind, id, overwrite)
      PROVE  SnapshotInv'
  BY <1>1, EnqueueJobInv
<1>2. CASE Publish \/ PublishFails \/ ClaimJob \/ LoseLock \/ DieAndRestart \/ ReclaimStale
  BY <1>2, PublishInv, PublishFailsInv, ClaimJobInv, LoseLockInv, DieAndRestartInv,
     ReclaimStaleInv
<1>3. CASE HashFile \/ AddFile \/ VerifySnapshot \/ Upload \/ VerifyUpload
  BY <1>3, HashFileInv, AddFileInv, VerifySnapshotInv, UploadInv, VerifyUploadInv
<1>4. CASE RecordEntry \/ DeleteSurplus \/ SaveList
  BY <1>4, RecordEntryInv, DeleteSurplusInv, SaveListInv
<1>5. CASE ReadList \/ Download \/ Compare \/ ReplaceFile
  BY <1>5, ReadListInv, DownloadInv, CompareInv, ReplaceFileInv
<1>6. ASSUME NEW p \in Paths, Write(p) PROVE SnapshotInv'
  BY <1>6, WriteInv
<1>7. CASE Retire \/ Age \/ Recreate \/ Aside \/ InitDirectory
  BY <1>7, RetireInv, AgeInv, RecreateInv, AsideInv, InitDirectoryInv
<1>8. CASE PublishFirst \/ CreateDies \/ RunBootstrap
  BY <1>8, PublishFirstInv, RunBootstrapInv
<1>9. CASE SweepReads \/ SweepChecks \/ SweepRemoves \/ SweepCommits
  BY <1>9, SweepInv, SweepRemovesInv
<1>10. CASE UNCHANGED snapshotVars
  BY <1>10, QuietStep DEF snapshotVars, SnapshotInv, SnapshotTypes
<1>11. QED
  BY <1>1, <1>2, <1>3, <1>4, <1>5, <1>6, <1>7, <1>8, <1>9, <1>10 DEF SnapshotsNext

LEMMA SnapshotInvHolds == SnapshotInv => SnapshotsTypeOK /\ ListedIsRestorable
<1> SUFFICES ASSUME SnapshotInv PROVE SnapshotsTypeOK /\ ListedIsRestorable
  OBVIOUS
<1>1. /\ row \in Row /\ dir \in Directory(writes) /\ work \in Job(writes)
      /\ Sound(dir.list, objects, dangling) /\ JobFits(work, dir, objects, dangling)
      /\ happens \in [Happening -> Nat]
      /\ create \in {"none", "aside", "init", "publish"}
      /\ sweep \in {"none", "check", "remove", "commit"}
  BY DEF SnapshotInv, SnapshotTypes
<1>2. row.archived \in {"no", "recent", "old"} /\ row.status \in RowStatus
  BY <1>1 DEF Row
<1>3. dir.exists \in BOOLEAN /\ dir.files \in Files(writes)
  BY <1>1 DEF Directory
<1>4. work.kind \in {"none", "archive", "restore", "bootstrap"} /\ work.held \in BOOLEAN
  BY <1>1 DEF Job
<1>5. \A i \in DOMAIN dir.list : dir.list[i].id \in DOMAIN objects
  BY <1>1 DEF Sound
<1>6. /\ work.step \in ArchiveStep => work.kind = "archive"
      /\ work.step \in RestoreStep => work.kind = "restore"
  BY <1>1 DEF JobFits
<1>7. SnapshotsTypeOK
  BY <1>1, <1>2, <1>3, <1>4, <1>5, <1>6
     DEF SnapshotsTypeOK, RowStatus, Files, ArchiveStep, RestoreStep
<1>8. ListedIsRestorable
  BY <1>1 DEF ListedIsRestorable, Sound
<1>9. QED
  BY <1>7, <1>8

-----------------------------------------------------------------------------
(* Snapshots: what a restoration leaves as it was                          *)

EditsKept ==
    \A p \in Paths \ Unlocked :
        work.step = "replace" /\ work' # work /\ ~work.overwrite /\ work.held /\ dir.files[p] # 0
            => dir'.files[p] = dir.files[p]

LEMMA OthersKeepFiles ==
    ASSUME SnapshotInv, SnapshotsNext, ~ReplaceFile
    PROVE  work.step # "replace" \/ UNCHANGED work \/ UNCHANGED dir
<1>1. ASSUME NEW kind \in {"archive", "restore"}, NEW id \in {0} \cup DOMAIN objects,
             NEW overwrite \in BOOLEAN, EnqueueJob(kind, id, overwrite)
      PROVE  UNCHANGED dir
  BY <1>1 DEF EnqueueJob
<1>2. CASE Publish \/ PublishFails \/ ClaimJob \/ LoseLock \/ DieAndRestart \/ ReclaimStale
  BY <1>2 DEF Publish, PublishFails, ClaimJob, LoseLock, DieAndRestart, ReclaimStale
<1>3. CASE HashFile \/ AddFile \/ VerifySnapshot \/ Upload \/ VerifyUpload
  BY <1>3 DEF HashFile, AddFile, VerifySnapshot, Upload, VerifyUpload
<1>4. CASE RecordEntry \/ DeleteSurplus \/ SaveList
  BY <1>4 DEF RecordEntry, DeleteSurplus, SaveList
<1>5. CASE ReadList \/ Download \/ Compare
  BY <1>5 DEF ReadList, Download, Compare
<1>6. ASSUME NEW p \in Paths, Write(p) PROVE UNCHANGED work
  BY <1>6 DEF Write
<1>7. CASE Retire \/ Age \/ Recreate
  BY <1>7 DEF Retire, Age, Recreate
<1>8. CASE create # "none"
  BY <1>8, CreatingFacts
<1>9. CASE Aside \/ InitDirectory \/ PublishFirst \/ CreateDies
  BY <1>8, <1>9 DEF Aside, InitDirectory, PublishFirst, CreateDies
<1>10. CASE RunBootstrap \/ SweepReads \/ SweepChecks \/ SweepRemoves \/ SweepCommits
  BY <1>10 DEF RunBootstrap, SweepReads, SweepChecks, SweepRemoves, SweepCommits
<1>11. QED
  BY <1>1, <1>2, <1>3, <1>4, <1>5, <1>6, <1>7, <1>9, <1>10 DEF SnapshotsNext

LEMMA SnapshotsStepKeeps == SnapshotInv /\ [SnapshotsNext]_snapshotVars => EditsKept
<1> SUFFICES ASSUME SnapshotInv, [SnapshotsNext]_snapshotVars,
                    NEW p \in Paths \ Unlocked,
                    work.step = "replace", work' # work, ~work.overwrite, work.held,
                    dir.files[p] # 0
             PROVE  dir'.files[p] = dir.files[p]
  BY DEF EditsKept
<1>1. CASE ReplaceFile
  <2>1. CASE UNCHANGED dir
    BY <2>1
  <2>2. ASSUME NEW q \in work.todo,
               dir' = [dir EXCEPT !.exists = TRUE, !.files[q] = work.added[q]]
        PROVE  dir'.files[p] = dir.files[p]
    <3>1. dir \in Directory(writes) /\ dir.files \in Files(writes)
      BY JobStepFacts DEF Directory
    <3>2. dir'.files = [dir.files EXCEPT ![q] = work.added[q]]
      <4> HIDE DEF Entry, Files
      <4>1. QED
        BY <2>2, <3>1 DEF Directory
    <3>3. p = q => dir.files[p] \in {0, work.added[p]}
      BY JobStepFacts DEF JobFits
    <3>4. QED
      BY <3>1, <3>2, <3>3 DEF Files
  <2>3. QED
    BY <1>1, <2>1, <2>2 DEF ReplaceFile
<1>2. CASE SnapshotsNext /\ ~ReplaceFile
  BY <1>2, OthersKeepFiles
<1>3. CASE UNCHANGED snapshotVars
  BY <1>3 DEF snapshotVars
<1>4. QED
  BY <1>1, <1>2, <1>3

-----------------------------------------------------------------------------
(* Snapshots: what is proved                                               *)

\* The invariant holds of every behaviour.
LEMMA SnapshotInvAlways == SnapshotsSpec => []SnapshotInv
  BY SnapshotsInitInv, SnapshotsNextInv, PTL DEF SnapshotsSpec

\* The project, its directory, its snapshots and its job keep to their values; what is listed is the
\* number of an object, and a job's step belongs to its kind.
THEOREM SnapshotsTyped == SnapshotsSpec => []SnapshotsTypeOK
  BY SnapshotInvAlways, SnapshotInvHolds, PTL

\* Whatever is written, retired, created again or purged while a snapshot is taken or restored, and
\* wherever the job dies: what is listed can be restored, and a restoration that was not told to
\* overwrite changes no file that was there. For any files, retention and number of snapshots.
THEOREM RestoreSafe == SnapshotsSpec => RestoreIsSafe
<1>1. SnapshotInv /\ [SnapshotsNext]_snapshotVars => [EditsKept]_snapshotVars
  BY SnapshotsStepKeeps
<1>2. QED
  BY <1>1, SnapshotInvAlways, SnapshotInvHolds, PTL
     DEF SnapshotsSpec, RestoreIsSafe, RestoreKeepsEdits, EditsKept

-----------------------------------------------------------------------------
(* What folding makes of the evidence                                      *)

Groups(R) == Seq(Seq(R) \ {<< >>})
Members(groups) == UNION {Range(groups[i]) : i \in DOMAIN groups}

LEMMA GroupedIn ==
    ASSUME NEW R, NEW groups \in Groups(R), NEW p \in R
    PROVE  Grouped(groups, p) \in Groups(R) /\ Members(Grouped(groups, p)) = Members(groups) \cup {p}
<1> DEFINE fits == {i \in DOMAIN groups : \A q \in Range(groups[i]) : Duplicates(p, q)}
           S == Seq(R) \ {<< >>}
<1>0. groups \in Seq(S) /\ DOMAIN groups = 1 .. Len(groups) /\ Len(groups) \in Nat
  BY DEF Groups
<1>1. CASE fits = {}
  <2>1. Grouped(groups, p) = Append(groups, <<p>>)
    BY <1>1 DEF Grouped
  <2>2. <<p>> \in S /\ Range(<<p>>) = {p}
    BY DEF Range
  <2> DEFINE e == <<p>>
             new == Append(groups, e)
  <2>3. e \in S /\ Range(e) = {p}
    BY <2>2
  <2> HIDE DEF e, S, fits
  <2>4. new \in Seq(S) /\ Len(new) = Len(groups) + 1 /\ new[Len(groups) + 1] = e
        /\ \A i \in 1 .. Len(groups) : new[i] = groups[i]
    BY <1>0, <2>3, AppendProperties
  <2> HIDE DEF new
  <2>5. DOMAIN new = 1 .. Len(groups) + 1
    BY <2>4, LenProperties
  <2>6. DOMAIN new = DOMAIN groups \cup {Len(groups) + 1}
    BY <1>0, <2>5
  <2>7. Members(new) = Members(groups) \cup {p}
    BY <1>0, <2>3, <2>4, <2>6 DEF Members
  <2>8. QED
    BY <2>1, <2>4, <2>7 DEF new, e, S, Groups
<1>2. CASE fits # {}
  <2> DEFINE m == Min(fits)
             e == Append(groups[m], p)
             new == [groups EXCEPT ![m] = e]
  <2>1. fits \in SUBSET Nat
    BY <1>0
  <2>2. m \in fits
    <3> HIDE DEF fits
    <3> QED BY <1>2, <2>1, MinOf
  <2>3. m \in DOMAIN groups
    BY <2>2
  <2>4. Grouped(groups, p) = new
    BY <1>2 DEF Grouped
  <2>5. groups[m] \in S
    <3> HIDE DEF m, S
    <3> QED BY <1>0, <2>3
  <2>6. e \in S /\ Range(e) = Range(groups[m]) \cup {p}
    <3> DEFINE was == groups[m]
    <3>1. was \in Seq(R)
      BY <2>5
    <3> HIDE DEF was
    <3>2. /\ Append(was, p) \in Seq(R) /\ Append(was, p) # << >>
          /\ Len(Append(was, p)) = Len(was) + 1
          /\ \A i \in 1 .. Len(was) : Append(was, p)[i] = was[i]
          /\ Append(was, p)[Len(was) + 1] = p
      BY <3>1, AppendProperties
    <3>3. DOMAIN was = 1 .. Len(was) /\ DOMAIN Append(was, p) = 1 .. Len(was) + 1 /\ Len(was) \in Nat
      BY <3>1, <3>2, LenProperties
    <3>4. DOMAIN Append(was, p) = DOMAIN was \cup {Len(was) + 1}
      BY <3>3
    <3>5. Range(Append(was, p)) = Range(was) \cup {p}
      BY <3>2, <3>3, <3>4 DEF Range
    <3>6. QED
      BY <3>2, <3>5 DEF was
  <2> HIDE DEF m, e, S, fits
  <2>7. new \in Seq(S) /\ DOMAIN new = DOMAIN groups
    <3>1. m \in 1 .. Len(groups)
      BY <1>0, <2>3
    <3>2. new \in Seq(S)
      BY <1>0, <2>6, <3>1, ExceptSeq
    <3>3. QED
      BY <3>2
  <2>8. new[m] = e /\ \A i \in DOMAIN groups : i # m => new[i] = groups[i]
    BY <2>3
  <2> HIDE DEF new
  <2>9. Members(new) = Members(groups) \cup {p}
    <3>1. \A x : x \in Members(new) <=> \E i \in DOMAIN groups : x \in Range(new[i])
      BY <2>7 DEF Members
    <3>2. \A x : x \in Members(groups) <=> \E i \in DOMAIN groups : x \in Range(groups[i])
      BY DEF Members
    <3>3. \A x : x \in Range(new[m]) <=> x \in Range(groups[m]) \/ x = p
      BY <2>6, <2>8
    <3>4. ASSUME NEW x PROVE x \in Members(new) <=> x \in Members(groups) \/ x = p
      BY <2>3, <2>8, <3>1, <3>2, <3>3
    <3>5. QED
      BY <3>4
  <2>10. QED
    BY <2>4, <2>7, <2>9 DEF S, Groups
<1>3. QED
  BY <1>1, <1>2

\* What FoldLeft makes of a sequence with Grouped.
Grouping(g, seq) ==
    g = [s \in SUBSET DOMAIN seq |->
            IF s = {} THEN << >> ELSE Grouped(g[s \ {Max(s)}], seq[Max(s)])]

LEMMA GroupedIs ==
    ASSUME NEW seq
    PROVE  FoldLeft(Grouped, << >>, seq) = (CHOOSE g : Grouping(g, seq))[DOMAIN seq]
  BY DEF FoldLeft, MapThenFoldSet, Grouping

LEMMA GroupsOf ==
    ASSUME NEW R, NEW seq \in Seq(R)
    PROVE  LET groups == FoldLeft(Grouped, << >>, seq)
           IN  groups \in Groups(R) /\ Members(groups) = Range(seq)
<1> DEFINE n == Len(seq)
           A == Groups(R)
           op == [x \in A \X (1 .. n) |-> Grouped(x[1], seq[x[2]])]
           h == CHOOSE g : Grouping(g, seq)
<1>1. n \in Nat /\ DOMAIN seq = 1 .. n /\ \A i \in 1 .. n : seq[i] \in R
  BY LenProperties, ElementOfSeq
<1>2. << >> \in A /\ Members(<< >>) = {}
  BY DEF Groups, Members
<1>3. \A x \in A, i \in 1 .. n : Grouped(x, seq[i]) \in A
  BY <1>1, GroupedIn
<1>4. op \in [A \X (1 .. n) -> A] /\ \A x \in A, i \in 1 .. n : op[<<x, i>>] = Grouped(x, seq[i])
  <2> HIDE DEF A, n
  <2> QED BY <1>3
<1>5. PICK f : Folds(op, << >>, f, 1 .. n)
  <2> HIDE DEF op, A, n
  <2> QED BY <1>1, FoldsExist
<1>6. \A s \in SUBSET (1 .. n) : f[s] \in A
  <2> HIDE DEF op, A, n
  <2> QED BY <1>1, <1>2, <1>4, <1>5, FoldIn
<1>7. Grouping(f, seq)
  <2> DEFINE v(s) == IF s = {} THEN << >> ELSE op[<<f[s \ {Max(s)}], Max(s)>>]
             w(s) == IF s = {} THEN << >> ELSE Grouped(f[s \ {Max(s)}], seq[Max(s)])
  <2>1. f = [s \in SUBSET (1 .. n) |-> v(s)]
    BY <1>5 DEF Folds
  <2>2. ASSUME NEW s \in SUBSET (1 .. n) PROVE v(s) = w(s)
    <3>1. CASE s = {}
      BY <3>1
    <3>2. CASE s # {}
      <4> HIDE DEF op, A, n
      <4> DEFINE m == Max(s)
                 x == f[s \ {m}]
      <4>1. m \in 1 .. n /\ x \in A
        BY <1>1, <1>6, <3>2, LastOfPositions
      <4>2. v(s) = op[<<x, m>>] /\ w(s) = Grouped(x, seq[m])
        BY <3>2
      <4> HIDE DEF m, x, v, w
      <4>3. QED
        BY <1>4, <4>1, <4>2
    <3>3. QED
      BY <3>1, <3>2
  <2>3. [s \in SUBSET (1 .. n) |-> v(s)] = [s \in SUBSET (1 .. n) |-> w(s)]
    <3> HIDE DEF v, w
    <3> QED BY <2>2
  <2>4. f = [s \in SUBSET DOMAIN seq |-> w(s)]
    <3> HIDE DEF v, w, n
    <3> QED BY <1>1, <2>1, <2>3
  <2>5. QED
    BY <2>4, Zenon DEF Grouping
<1>8. Grouping(h, seq)
  BY <1>7
<1> HIDE DEF h, A, op
<1>9. \A s \in SUBSET (1 .. n) : h[s] \in A /\ Members(h[s]) = {seq[i] : i \in s}
  <2> DEFINE P == {s \in SUBSET (1 .. n) : h[s] \in A /\ Members(h[s]) = {seq[i] : i \in s}}
  <2>1. ASSUME NEW V \in SUBSET (1 .. n), \A W \in SUBSET V : W # V => W \in P
        PROVE  V \in P
    <3>1. CASE V = {}
      <4>1. h[V] = << >>
        BY <1>1, <1>8, <3>1 DEF Grouping
      <4>2. QED
        BY <1>2, <3>1, <4>1
    <3>2. CASE V # {}
      <4> DEFINE m == Max(V)
                 rest == V \ {m}
      <4>1. m \in V /\ rest \in SUBSET V /\ rest # V
        BY <1>1, <3>2, LastOfPositions
      <4>2. h[rest] \in A /\ Members(h[rest]) = {seq[i] : i \in rest}
        BY <2>1, <4>1
      <4>3. h[V] = Grouped(h[rest], seq[m])
        BY <1>1, <1>8, <3>2 DEF Grouping
      <4> HIDE DEF m, n
      <4>4. {seq[i] : i \in V} = {seq[i] : i \in rest} \cup {seq[m]}
        BY <4>1
      <4> HIDE DEF rest
      <4>5. h[V] \in A /\ Members(h[V]) = {seq[i] : i \in V}
        <5> DEFINE x == h[rest]
                   p == seq[m]
        <5>1. p \in R /\ x \in Groups(R)
          BY <1>1, <4>1, <4>2 DEF A
        <5> HIDE DEF x, p
        <5>2. Grouped(x, p) \in Groups(R) /\ Members(Grouped(x, p)) = Members(x) \cup {p}
          BY <5>1, GroupedIn
        <5>3. QED
          BY <4>2, <4>3, <4>4, <5>2 DEF A, x, p
      <4>6. QED
        BY <4>5
    <3>3. QED
      BY <3>1, <3>2
  <2>2. IsFiniteSet(1 .. n)
    BY <1>1, FS_Interval
  <2>3. \A V \in SUBSET (1 .. n) : V \in P
    <3> HIDE DEF P, n
    <3> QED BY <2>1, <2>2, SubsetInduct
  <2>4. QED
    BY <2>3
<1>10. h[DOMAIN seq] \in A /\ Members(h[DOMAIN seq]) = Range(seq)
  <2> HIDE DEF n
  <2> QED BY <1>1, <1>9 DEF Range
<1>11. QED
  BY <1>10, GroupedIs DEF h, A

-----------------------------------------------------------------------------
(* Pages, and what stands for several of them                              *)

PageFields == {"url", "status", "run", "root", "aliases", "text", "canonical", "noindex",
               "h1", "h2", "paras", "links", "lists", "date", "relevant", "blocks",
               "types", "title", "heads"}

\* What a crawl makes a page of, whatever the site.
IsPage(p) ==
    /\ DOMAIN p = PageFields
    /\ p.url \in URLs /\ p.aliases \subseteq URLs /\ p.text \in DOMAIN WordCount
    /\ p.status \in Nat /\ p.run \in Nat \ {0} /\ p.root \in {1, 2}
    /\ p.h1 \in Nat /\ p.h2 \in Nat /\ p.paras \in Nat /\ p.links \in Nat
    /\ p.noindex \in BOOLEAN /\ p.lists \in BOOLEAN /\ p.date \in BOOLEAN /\ p.relevant \in BOOLEAN

\* A sequence of pages.
IsEvidence(seq) == seq \in Seq(Range(seq)) /\ \A i \in DOMAIN seq : IsPage(seq[i])

\* The URLs a page stands for, and those a sequence of pages does.
UrlsOf(p) == {p.url} \cup p.aliases
AllUrls(seq) == UNION {UrlsOf(seq[i]) : i \in DOMAIN seq}

LEMMA WordFacts ==
    ASSUME NEW t \in DOMAIN WordCount
    PROVE  WordCount[t] \in Nat /\ WordCount[t] <= 1600 /\ (t = Absent => WordCount[t] = 0) /\ (t # Absent => WordCount[t] > 0)
  BY DEF WordCount, Absent

\* No page is preferred more, and none that can be used less.
Most  == 160000
Least == 120000

LEMMA MostFacts == Most \in Nat /\ Least \in Nat
  BY SMT DEF Most, Least

Preferred(k, w) == 10000 * k + w

LEMMA PreferenceOrder ==
    ASSUME NEW k \in 0 .. 15, NEW w \in Nat, w <= 1600
    PROVE  Preferred(k, w) \in 0 .. Most /\ (k >= 12 <=> Preferred(k, w) >= Least)
<1>1. 10000 * k + w \in Nat
  BY SMT
<1>2. 10000 * k + w <= Most
  BY SMT DEF Most
<1>3. k >= 12 <=> 10000 * k + w >= Least
  BY SMT DEF Least
<1>4. QED
  BY <1>1, <1>2, <1>3, MostFacts, SMT DEF Preferred

LEMMA FourBits ==
    ASSUME NEW a \in {0, 1}, NEW b \in {0, 1}, NEW c \in {0, 1}, NEW d \in {0, 1}
    PROVE  8 * a + 4 * b + 2 * c + d \in 0 .. 15 /\ (a = 1 /\ b = 1 <=> 8 * a + 4 * b + 2 * c + d >= 12)
  OBVIOUS

LEMMA PreferenceFacts ==
    ASSUME NEW p, IsPage(p)
    PROVE  /\ Preference(p) \in 0 .. Most
           /\ UsablePage(p) <=> Preference(p) >= Least
<1> DEFINE w == WordCount[p.text]
           b1 == IF p.status = 200 THEN 1 ELSE 0
           b2 == IF HasText(p) THEN 1 ELSE 0
           b3 == IF Traits[p.url].plain THEN 1 ELSE 0
           b4 == IF p.url = p.canonical THEN 1 ELSE 0
           k == 8 * b1 + 4 * b2 + 2 * b3 + b4
<1>1. w \in Nat /\ w <= 1600
  BY WordFacts DEF IsPage
<1>2. b1 \in {0, 1} /\ b2 \in {0, 1} /\ b3 \in {0, 1} /\ b4 \in {0, 1}
  BY SMT
<1>3. Preference(p) = Preferred(k, w)
  BY SMT DEF Preference, Preferred
<1>4. UsablePage(p) <=> b1 = 1 /\ b2 = 1
  BY SMT DEF UsablePage
<1> HIDE DEF w, b1, b2, b3, b4
<1>5. k \in 0 .. 15 /\ (b1 = 1 /\ b2 = 1 <=> k >= 12)
  BY <1>2, FourBits, SMT
<1> HIDE DEF k
<1>6. Preferred(k, w) \in 0 .. Most /\ (k >= 12 <=> Preferred(k, w) >= Least)
  BY <1>1, <1>5, PreferenceOrder, SMT
<1>7. QED
  BY <1>3, <1>4, <1>5, <1>6, SMT

\* A page stands for its group that is preferred to every other.
LEMMA RepresentativeFacts ==
    ASSUME NEW R, \A p \in R : IsPage(p), NEW group \in Seq(R) \ {<< >>}
    PROVE  /\ Representative(group) \in Range(group)
           /\ \A q \in Range(group) : Preference(Representative(group)) >= Preference(q)
<1> DEFINE scores == {Preference(q) : q \in Range(group)}
           first == {i \in DOMAIN group : \A q \in Range(group) : Preference(group[i]) >= Preference(q)}
<1>0. \A q \in R : Preference(q) \in 0 .. Most
  BY PreferenceFacts, Zenon
<1>1. DOMAIN group = 1 .. Len(group) /\ Len(group) \in Nat /\ \A i \in DOMAIN group : group[i] \in R
  BY LenProperties, ElementOfSeq
<1>2. Range(group) \subseteq R /\ 1 \in DOMAIN group
  BY <1>1, EmptySeq DEF Range
<1>3. scores \in SUBSET (0 .. Most) /\ scores # {}
  <2>1. \A q \in Range(group) : Preference(q) \in 0 .. Most
    BY <1>0, <1>2, Zenon
  <2>2. group[1] \in Range(group)
    BY <1>2 DEF Range
  <2>3. scores \subseteq 0 .. Most
    BY <2>1, Zenon
  <2>4. scores # {}
    BY <2>2, Zenon
  <2>5. QED
    BY <2>3, <2>4
<1>4. Max(scores) \in scores /\ \A e \in scores : e <= Max(scores)
  <2> HIDE DEF scores
  <2> QED BY <1>3, MostFacts, MaxOf
<1>5. PICK i \in DOMAIN group : Preference(group[i]) = Max(scores)
  BY <1>4 DEF Range
<1>6. i \in first
  <2>1. ASSUME NEW q \in Range(group) PROVE Preference(group[i]) >= Preference(q)
    <3>1. Preference(q) \in scores /\ Preference(q) \in 0 .. Most
      BY <1>3
    <3>2. Preference(q) <= Preference(group[i]) /\ Preference(group[i]) \in 0 .. Most
      <4> HIDE DEF scores
      <4> QED BY <1>3, <1>4, <1>5, <3>1
    <3>3. QED
      BY <3>1, <3>2
  <2>2. QED
    BY <2>1
<1>7. first \in SUBSET Nat
  BY <1>1
<1>8. Min(first) \in first
  <2> HIDE DEF first
  <2> QED BY <1>6, <1>7, MinOf
<1>9. Representative(group) = group[Min(first)]
  BY Zenon DEF Representative
<1>10. QED
  BY <1>8, <1>9, Zenon DEF Range

\* A group folded is its representative, under every URL of the group.
LEMMA FoldedFacts ==
    ASSUME NEW R, \A p \in R : IsPage(p), NEW group \in Seq(R) \ {<< >>}
    PROVE  LET p == Folded(group)
           IN  /\ IsPage(p)
               /\ \E q \in Range(group) : p.root = q.root /\ p.run = q.run
               /\ UrlsOf(p) = UNION {UrlsOf(q) : q \in Range(group)}
               /\ (\E q \in Range(group) : UsablePage(q)) => UsablePage(p)
<1> DEFINE r == Representative(group)
           urls == UNION {{q.url} \cup q.aliases : q \in Range(group)}
           p == [r EXCEPT !.aliases = urls \ {r.url}]
<1>1. r \in Range(group) /\ \A q \in Range(group) : Preference(r) >= Preference(q)
  BY RepresentativeFacts
<1>2. \A q \in Range(group) : IsPage(q)
  BY ElementOfSeq, LenProperties DEF Range
<1>3. Folded(group) = p
  BY DEF Folded
<1>4. urls \subseteq URLs
  <2>1. \A q \in Range(group) : q.url \in URLs /\ q.aliases \subseteq URLs
    BY <1>2 DEF IsPage
  <2>2. QED
    BY <2>1
<1>5. r.url \in urls
  BY <1>1
<1>6. IsPage(r)
  BY <1>1, <1>2
<1> DEFINE al == urls \ {r.url}
<1>7. al \subseteq URLs /\ {r.url} \cup al = urls
  BY <1>4, <1>5
<1>8. urls = UNION {UrlsOf(q) : q \in Range(group)}
  BY Zenon DEF UrlsOf
<1> HIDE DEF r, urls, al
<1>9. /\ p.url = r.url /\ p.aliases = al /\ p.root = r.root /\ p.run = r.run
      /\ p.status = r.status /\ p.text = r.text /\ IsPage(p)
  BY <1>6, <1>7 DEF IsPage, PageFields, al
<1>10. UrlsOf(p) = urls
  BY <1>7, <1>9, Zenon DEF UrlsOf
<1>11. ASSUME NEW q \in Range(group), UsablePage(q) PROVE UsablePage(p)
  <2>1. Preference(q) >= Least /\ Preference(r) >= Preference(q)
    BY <1>1, <1>2, <1>11, PreferenceFacts, SMT
  <2>2. Preference(q) \in Nat /\ Preference(r) \in Nat
    BY <1>2, <1>6, MostFacts, PreferenceFacts, SMT
  <2>3. Preference(r) >= Least
    BY <2>1, <2>2, MostFacts, SMT
  <2>4. UsablePage(r)
    BY <1>6, <2>3, PreferenceFacts, SMT
  <2>5. QED
    BY <1>9, <2>4 DEF UsablePage, HasText
<1> HIDE DEF p
<1>12. QED
  BY <1>1, <1>3, <1>8, <1>9, <1>10, <1>11

\* A crawl's evidence, folded, is evidence: no URL is lost, nothing is of another
\* site or crawl, and what could be used still can.
LEMMA DeduplicatedFacts ==
    ASSUME NEW seq, IsEvidence(seq)
    PROVE  /\ IsEvidence(Deduplicated(seq))
           /\ \A i \in DOMAIN Deduplicated(seq) : \E j \in DOMAIN seq :
                 Deduplicated(seq)[i].root = seq[j].root /\ Deduplicated(seq)[i].run = seq[j].run
           /\ AllUrls(Deduplicated(seq)) = AllUrls(seq)
           /\ Usable(seq) => Usable(Deduplicated(seq))
           /\ seq # << >> => Deduplicated(seq) # << >>
<1> DEFINE R == Range(seq)
           groups == FoldLeft(Grouped, << >>, seq)
           D == [i \in DOMAIN groups |-> Folded(groups[i])]
<1>1. seq \in Seq(R) /\ \A p \in R : IsPage(p)
  BY DEF IsEvidence, Range
<1>2. groups \in Groups(R) /\ Members(groups) = R
  BY <1>1, GroupsOf
<1>3. Deduplicated(seq) = D
  BY Zenon DEF Deduplicated
<1>4. \A i \in DOMAIN groups : groups[i] \in Seq(R) \ {<< >>}
  <2> HIDE DEF groups, R
  <2>1. groups \in Seq(Seq(R) \ {<< >>})
    BY <1>2 DEF Groups
  <2>2. QED
    BY <2>1, ElementOfSeq, LenProperties
<1>5. \A i \in DOMAIN groups :
         /\ IsPage(Folded(groups[i]))
         /\ \E q \in Range(groups[i]) : Folded(groups[i]).root = q.root /\ Folded(groups[i]).run = q.run
         /\ UrlsOf(Folded(groups[i])) = UNION {UrlsOf(q) : q \in Range(groups[i])}
         /\ (\E q \in Range(groups[i]) : UsablePage(q)) => UsablePage(Folded(groups[i]))
  <2> HIDE DEF groups, R
  <2> QED BY <1>1, <1>4, FoldedFacts
<1>6. DOMAIN groups = 1 .. Len(groups) /\ Len(groups) \in Nat
  <2> HIDE DEF groups, R
  <2>1. groups \in Seq(Seq(R) \ {<< >>})
    BY <1>2 DEF Groups
  <2>2. QED
    BY <2>1, LenProperties
<1>7. \A q : q \in R <=> \E i \in DOMAIN groups : q \in Range(groups[i])
  <2> HIDE DEF groups, R
  <2> QED BY <1>2 DEF Members
<1> DEFINE fold == [i \in DOMAIN groups |-> Folded(groups[i])]
<1> HIDE DEF groups
<1>8. DOMAIN D = DOMAIN groups /\ \A i \in DOMAIN groups : D[i] = Folded(groups[i])
  OBVIOUS
<1>9. IsEvidence(D)
  <2>1. D \in [1 .. Len(groups) -> Range(D)]
    BY <1>6, <1>8 DEF Range
  <2> HIDE DEF D
  <2>2. D \in Seq(Range(D))
    BY <1>6, <2>1, SeqOfFunction
  <2>3. QED
    BY <1>5, <1>8, <2>2 DEF IsEvidence
<1> HIDE DEF D
<1>10. ASSUME NEW i \in DOMAIN D PROVE \E j \in DOMAIN seq : D[i].root = seq[j].root /\ D[i].run = seq[j].run
  <2>1. PICK q \in Range(groups[i]) : D[i].root = q.root /\ D[i].run = q.run
    BY <1>5, <1>8
  <2>2. q \in R
    BY <1>7, <1>8, <2>1
  <2>3. QED
    BY <2>1, <2>2 DEF Range
<1>11. AllUrls(D) = AllUrls(seq)
  <2>1. \A u : u \in AllUrls(D) <=> \E i \in DOMAIN D : u \in UrlsOf(D[i])
    BY Zenon DEF AllUrls
  <2>2. \A u : u \in AllUrls(seq) <=> \E q \in R : u \in UrlsOf(q)
    BY DEF AllUrls, Range
  <2>3. \A i \in DOMAIN D : UrlsOf(D[i]) = UNION {UrlsOf(q) : q \in Range(groups[i])}
    BY <1>5, <1>8
  <2>4. \A u, i : i \in DOMAIN D => (u \in UrlsOf(D[i]) <=> \E q \in Range(groups[i]) : u \in UrlsOf(q))
    BY <2>3
  <2>5. \A u : u \in AllUrls(D) <=> u \in AllUrls(seq)
    <3> HIDE DEF R
    <3> QED BY <1>7, <1>8, <2>1, <2>2, <2>4
  <2>6. QED
    BY <2>5
<1>12. Usable(seq) => Usable(D)
  <2> SUFFICES ASSUME Usable(seq) PROVE Usable(D)
    OBVIOUS
  <2>1. PICK q \in R : UsablePage(q)
    BY DEF Usable, Range
  <2>2. PICK i \in DOMAIN groups : q \in Range(groups[i])
    BY <1>7
  <2>3. UsablePage(D[i])
    BY <1>5, <1>8, <2>1, <2>2
  <2>4. QED
    BY <1>8, <2>3 DEF Usable
<1>13. ASSUME seq # << >> PROVE D # << >>
  <2>1. 1 \in DOMAIN seq
    BY <1>1, <1>13, EmptySeq, LenProperties
  <2>2. seq[1] \in R
    BY <2>1 DEF Range
  <2>3. PICK i \in DOMAIN groups : seq[1] \in Range(groups[i])
    BY <1>7, <2>2
  <2>4. QED
    BY <1>8, <2>3
<1>14. QED
  BY <1>3, <1>9, <1>10, <1>11, <1>12, <1>13

-----------------------------------------------------------------------------
(* What the view says of a page                                            *)

Roles == {"home", "generic"} \cup Range(RolePriority)
ScoredRoles == Roles \ {"auth_utility", "contact"}

LEMMA RoleFacts ==
    ASSUME NEW u, NEW types, NEW heads
    PROVE  ClassifyPage(u, types, heads) \in Roles
<1> DEFINE points(r) == (IF r \in Traits[u].says THEN 12 ELSE 0)
                         + (IF r \in types THEN 9 ELSE 0) + (IF r \in heads THEN 3 ELSE 0)
           all  == {points(r) : r \in Range(RolePriority)}
           most == Max(all)
           best == {i \in DOMAIN RolePriority : points(RolePriority[i]) = most}
<1>1. \A r : points(r) \in 0 .. 24
  OBVIOUS
<1>2. DOMAIN RolePriority = 1 .. 13
  BY DEF RolePriority
<1>3. RolePriority[1] \in Range(RolePriority)
  BY <1>2 DEF Range
<1> HIDE DEF points
<1>4. all \in SUBSET (0 .. 24) /\ all # {}
  BY <1>1, <1>3
<1>5. most \in all
  <2> HIDE DEF all
  <2> QED BY <1>4, MaxOf
<1> HIDE DEF most
<1>6. best \in SUBSET Nat /\ best # {}
  BY <1>2, <1>5 DEF Range
<1>7. Min(best) \in best
  <2> HIDE DEF best
  <2> QED BY <1>6, MinOf
<1>8. RolePriority[Min(best)] \in Range(RolePriority)
  BY <1>7 DEF Range
<1>9. ClassifyPage(u, types, heads)
        = IF Traits[u].kind = "home" THEN "home" ELSE IF most = 0 THEN "generic" ELSE RolePriority[Min(best)]
  BY DEF ClassifyPage, points, most
<1> HIDE DEF best
<1>10. QED
  BY <1>8, <1>9 DEF Roles

LEMMA ScoredRolesAre ==
    ScoredRoles = {"home", "generic", "legal", "trust_compliance", "pricing", "comparison", "faq_support",
              "docs_howto", "case_study", "article_news", "about", "category_listing", "product_service"}
<1>1. DOMAIN RolePriority = 1 .. 13
  BY DEF RolePriority
<1>2. Range(RolePriority) = {"contact", "legal", "trust_compliance", "auth_utility", "pricing", "comparison",
                  "faq_support", "docs_howto", "case_study", "article_news", "about",
                  "category_listing", "product_service"}
  <2>1. 1 .. 13 = {1, 2, 3, 4, 5, 6, 7, 8, 9, 10, 11, 12, 13}
    OBVIOUS
  <2>2. Range(RolePriority) = {RolePriority[i] : i \in {1, 2, 3, 4, 5, 6, 7, 8, 9, 10, 11, 12, 13}}
    BY <1>1, <2>1 DEF Range
  <2>3. QED
    BY <2>2 DEF RolePriority
<1>3. QED
  BY <1>2 DEF ScoredRoles, Roles

\* No page passes for its depth with no text and no paragraph, or for its
\* sections with none.
LEMMA PolicyFacts ==
    ASSUME NEW role \in ScoredRoles
    PROVE  /\ Policy[role].words \in Nat /\ Policy[role].words > 0
           /\ Policy[role].paras \in Nat /\ Policy[role].paras > 0
           /\ Policy[role].h2 \in Nat /\ Policy[role].h2 > 0
  BY ScoredRolesAre DEF Policy, Rule

\* The codes of a page that is scored, those the view reads.
LEMMA CodeFacts ==
    ASSUME NEW s, IsPage(s), ~Unscored(s.url)
    PROVE  LET line == ScorePage(s)
           IN  /\ "PAGE_UNREACHABLE" \in line.codes <=> s.status < 200 \/ s.status >= 400
               /\ "NON_200_STATUS" \in line.codes <=> s.status > 200 /\ s.status < 400
               /\ "NOINDEX" \in line.codes <=> s.noindex
               /\ "NO_CANONICAL" \in line.codes <=> s.canonical = Absent
               /\ "BAD_H1" \in line.codes <=> s.h1 # 1
               /\ "FEW_H2" \in line.codes <=> s.h2 < 6
               /\ "NO_DATE" \in line.codes <=> ~s.date
               /\ "FEW_EXTERNAL_LINKS" \in line.codes <=> s.links < 3
               /\ "NO_JSONLD" \in line.codes <=> s.types \subseteq NoAuthority
  BY DEF ScorePage, ScoredCodes

LEMMA RowFacts ==
    ASSUME NEW s
    PROVE  LET line == ScorePage(s)
           IN  /\ line.url = s.url /\ line.seen = s /\ line.words = WordCount[s.text] /\ line.types = s.types
               /\ line.scored = ~Unscored(s.url)
               /\ ~Unscored(s.url) => line.blocks = s.blocks
  BY DEF ScorePage

LEMMA ShowsFacts ==
    ASSUME NEW p
    PROVE  /\ Shows(p, "accessibility") <=> p.status = 200
           /\ Shows(p, "indexability") <=> ~p.noindex
           /\ Shows(p, "canonical") <=> p.canonical # Absent
           /\ Shows(p, "rendered_content") <=> WordCount[p.text] >= 20 \/ p.paras >= 2 \/ p.h1 > 0
           /\ Shows(p, "structured_data") <=> p.types # {}
           /\ Shows(p, "h1") <=> p.h1 = 1
           /\ Shows(p, "content_depth") <=> HasText(p) \/ p.paras > 0
           /\ Shows(p, "section_structure") <=> p.h2 > 0
           /\ Shows(p, "date") <=> p.date
           /\ Shows(p, "external_evidence") <=> p.links > 0
           /\ Shows(p, "definition") <=> "definition" \in p.blocks
           /\ Shows(p, "numeric_facts") <=> "numeric_facts" \in p.blocks
           /\ Shows(p, "comparison") <=> "comparison" \in p.blocks
           /\ Shows(p, "steps") <=> "steps" \in p.blocks
           /\ Shows(p, "faq") <=> "faq" \in p.blocks
  BY DEF Shows

LEMMA NoPageFacts == ASSUME NEW p, IsPage(p) PROVE p # NoPage
  BY DEF NoPage, IsPage, PageFields

LEMMA JudgementFacts ==
    ASSUME NEW line, NEW p, NEW strict, NEW noindex, NEW role
    PROVE  LET ok == Judgement(line, p, strict, noindex, role)
               has == p # NoPage
           IN  /\ ok["accessibility"] <=> (StatusOf(line, p, strict) = 200)
               /\ ok["indexability"] <=> (~noindex)
               /\ ok["canonical"] <=> (IF has THEN p.canonical # Absent ELSE "NO_CANONICAL" \notin line.codes)
               /\ ok["rendered_content"] <=> (ShowsContent(line, p))
               /\ ok["structured_data"] <=> (line.types # {} \/ (has /\ p.types # {}) \/ "NO_JSONLD" \notin line.codes)
               /\ ok["h1"] <=> (IF has THEN p.h1 = 1 ELSE "BAD_H1" \notin line.codes)
               /\ ok["content_depth"] <=> (Words(line, p) >= Policy[role].words \/ Paras(p) >= Policy[role].paras)
               /\ ok["section_structure"] <=> (IF has THEN p.h2 >= Policy[role].h2 ELSE "FEW_H2" \notin line.codes)
               /\ ok["definition"] <=> ("definition" \in line.blocks)
               /\ ok["numeric_facts"] <=> ("numeric_facts" \in line.blocks)
               /\ ok["comparison"] <=> ("comparison" \in line.blocks)
               /\ ok["steps"] <=> ("steps" \in line.blocks)
               /\ ok["faq"] <=> ("faq" \in line.blocks)
               /\ ok["date"] <=> ("NO_DATE" \notin line.codes)
               /\ ok["external_evidence"] <=> (IF has THEN p.links >= 1 ELSE "FEW_EXTERNAL_LINKS" \notin line.codes)
  BY DEF Judgement

\* A check that could be judged and was passed has a page behind it.
LEMMA PassedIsBacked ==
    ASSUME NEW s, IsPage(s), NEW line, line = ScorePage(s), line.scored,
           NEW p, p = NoPage \/ IsPage(p), NEW available \in BOOLEAN,
           NEW role \in ScoredRoles, NEW noindex, noindex = ((p # NoPage /\ p.noindex) \/ "NOINDEX" \in line.codes),
           NEW c, c \in Known(line, p, available /\ p = NoPage, noindex),
           Judgement(line, p, available /\ p = NoPage, noindex, role)[c]
    PROVE  (p # NoPage /\ Shows(p, c)) \/ Shows(s, c)
<1> DEFINE strict == available /\ p = NoPage
           ok == Judgement(line, p, strict, noindex, role)
<1>1. ok[c] /\ c \in Known(line, p, strict, noindex)
  OBVIOUS
<1>2. c \in AuditChecks
  BY <1>1 DEF Known, AuditChecks, Weight
<1>3. ~Unscored(s.url) /\ line.seen = s /\ line.words = WordCount[s.text] /\ line.types = s.types
      /\ line.blocks = s.blocks
  BY RowFacts
<1>4. IsPage(p) => p # NoPage
  BY NoPageFacts
<1> HIDE DEF ok, strict
<1>5. CASE c = "accessibility"
  <2>1. StatusOf(line, p, strict) = 200
    BY <1>1, <1>5, JudgementFacts DEF ok
  <2>2. CASE p # NoPage
    BY <1>5, <2>1, <2>2, ShowsFacts DEF StatusOf
  <2>3. CASE p = NoPage
    <3>1. ~("PAGE_UNREACHABLE" \in line.codes) /\ ~("NON_200_STATUS" \in line.codes)
      BY <2>1, <2>3 DEF StatusOf
    <3>2. s.status = 200
      BY <1>3, <3>1, CodeFacts DEF IsPage
    <3>3. QED
      BY <1>5, <3>2, ShowsFacts
  <2>4. QED
    BY <2>2, <2>3
<1>6. CASE c = "indexability"
  <2>1. ~noindex
    BY <1>1, <1>6, JudgementFacts DEF ok
  <2>2. ~s.noindex
    BY <1>3, <2>1, CodeFacts
  <2>3. QED
    BY <1>6, <2>2, ShowsFacts
<1>7. CASE c = "canonical"
  <2>1. IF p # NoPage THEN p.canonical # Absent ELSE "NO_CANONICAL" \notin line.codes
    BY <1>1, <1>7, JudgementFacts DEF ok
  <2>2. QED
    BY <1>3, <1>7, <2>1, CodeFacts, ShowsFacts
<1>8. CASE c = "rendered_content"
  <2>1. ShowsContent(line, p)
    BY <1>1, <1>8, JudgementFacts DEF ok
  <2>2. CASE p # NoPage
    BY <1>8, <2>1, <2>2, ShowsFacts DEF ShowsContent, Words, Paras
  <2>3. CASE p = NoPage
    BY <1>3, <1>8, <2>1, <2>3, ShowsFacts DEF ShowsContent, Words, Paras
  <2>4. QED
    BY <2>2, <2>3
<1>9. CASE c = "structured_data"
  <2>1. line.types # {} \/ (p # NoPage /\ p.types # {}) \/ "NO_JSONLD" \notin line.codes
    BY <1>1, <1>9, JudgementFacts DEF ok
  <2>2. "NO_JSONLD" \notin line.codes => s.types # {}
    BY <1>3, CodeFacts
  <2>3. QED
    BY <1>3, <1>9, <2>1, <2>2, ShowsFacts
<1>10. CASE c = "h1"
  <2>1. IF p # NoPage THEN p.h1 = 1 ELSE "BAD_H1" \notin line.codes
    BY <1>1, <1>10, JudgementFacts DEF ok
  <2>2. QED
    BY <1>3, <1>10, <2>1, CodeFacts, ShowsFacts
<1>11. CASE c = "content_depth"
  <2>1. Words(line, p) >= Policy[role].words \/ Paras(p) >= Policy[role].paras
    BY <1>1, <1>11, JudgementFacts DEF ok
  <2> DEFINE w == Policy[role].words
             n == Policy[role].paras
  <2>2. w \in Nat /\ w > 0 /\ n \in Nat /\ n > 0
    BY PolicyFacts
  <2>3. \A q : IsPage(q) /\ WordCount[q.text] > 0 => HasText(q)
    BY WordFacts DEF IsPage, HasText
  <2>4. \A q : IsPage(q) => WordCount[q.text] \in Nat /\ q.paras \in Nat
    BY WordFacts DEF IsPage
  <2>5. Words(line, p) >= w \/ Paras(p) >= n
    BY <2>1
  <2> HIDE DEF w, n
  <2>6. CASE p # NoPage
    BY <1>11, <2>2, <2>3, <2>4, <2>5, <2>6, ShowsFacts DEF Words, Paras
  <2>7. CASE p = NoPage
    BY <1>3, <1>11, <2>2, <2>3, <2>4, <2>5, <2>7, ShowsFacts DEF Words, Paras
  <2>8. QED
    BY <2>6, <2>7
<1>12. CASE c = "section_structure"
  <2>1. IF p # NoPage THEN p.h2 >= Policy[role].h2 ELSE "FEW_H2" \notin line.codes
    BY <1>1, <1>12, JudgementFacts DEF ok
  <2> DEFINE n == Policy[role].h2
  <2>2. n \in Nat /\ n > 0
    BY PolicyFacts
  <2>3. IF p # NoPage THEN p.h2 >= n ELSE "FEW_H2" \notin line.codes
    BY <2>1
  <2> HIDE DEF n
  <2>4. CASE p # NoPage
    BY <1>12, <2>2, <2>3, <2>4, ShowsFacts DEF IsPage
  <2>5. CASE p = NoPage
    BY <1>3, <1>12, <2>3, <2>5, CodeFacts, ShowsFacts DEF IsPage
  <2>6. QED
    BY <2>4, <2>5
<1>13a. CASE c = "definition"
  BY <1>1, <1>3, <1>13a, JudgementFacts, ShowsFacts DEF ok
<1>13b. CASE c = "numeric_facts"
  BY <1>1, <1>3, <1>13b, JudgementFacts, ShowsFacts DEF ok
<1>13c. CASE c = "comparison"
  BY <1>1, <1>3, <1>13c, JudgementFacts, ShowsFacts DEF ok
<1>13d. CASE c = "steps"
  BY <1>1, <1>3, <1>13d, JudgementFacts, ShowsFacts DEF ok
<1>13e. CASE c = "faq"
  BY <1>1, <1>3, <1>13e, JudgementFacts, ShowsFacts DEF ok
<1>14. CASE c = "date"
  <2>1. "NO_DATE" \notin line.codes
    BY <1>1, <1>14, JudgementFacts DEF ok
  <2>2. QED
    BY <1>3, <1>14, <2>1, CodeFacts, ShowsFacts
<1>15. CASE c = "external_evidence"
  <2>1. IF p # NoPage THEN p.links >= 1 ELSE "FEW_EXTERNAL_LINKS" \notin line.codes
    BY <1>1, <1>15, JudgementFacts DEF ok
  <2>2. CASE p # NoPage
    BY <1>15, <2>1, <2>2, ShowsFacts DEF IsPage
  <2>3. CASE p = NoPage
    BY <1>3, <1>15, <2>1, <2>3, CodeFacts, ShowsFacts DEF IsPage
  <2>4. QED
    BY <2>2, <2>3
<1>16. QED
  BY <1>2, <1>5, <1>6, <1>7, <1>8, <1>9, <1>10, <1>11, <1>12,
     <1>13a, <1>13b, <1>13c, <1>13d, <1>13e, <1>14, <1>15 DEF AuditChecks, Weight

\* Nothing is passed on a page the evidence lacks while it has others.
LEMMA LonePassesNothing ==
    ASSUME NEW line, NEW role, NEW noindex, noindex = ("NOINDEX" \in line.codes),
           NEW c, c \in Known(line, NoPage, TRUE, noindex)
    PROVE  /\ ~Judgement(line, NoPage, TRUE, noindex, role)[c]
           /\ c \in {"accessibility", "indexability", "canonical"}
<1> DEFINE ok == Judgement(line, NoPage, TRUE, noindex, role)
           status == StatusOf(line, NoPage, TRUE)
<1>1. c \in {"accessibility", "indexability", "canonical"}
  BY DEF Known
<1>2. ASSUME c = "accessibility" PROVE ~ok[c]
  <2>1. status # 200
    BY DEF StatusOf, Unknown
  <2>2. QED
    BY <1>2, <2>1, JudgementFacts
<1>3. ASSUME c = "indexability" PROVE ~ok[c]
  <2>1. noindex
    BY <1>3 DEF Known
  <2>2. QED
    BY <1>3, <2>1, JudgementFacts
<1>4. ASSUME c = "canonical" PROVE ~ok[c]
  <2>1. "NO_CANONICAL" \in line.codes
    BY <1>4 DEF Known
  <2>2. QED
    BY <1>4, <2>1, JudgementFacts
<1>5. QED
  BY <1>1, <1>2, <1>3, <1>4

\* A page of the view, by the parts it is made from.
IsVerdict(v, line, p, passed, failed, excluded) ==
    /\ v.row = line /\ v.page = p /\ v.passed = passed /\ v.excluded = excluded
    /\ ~(Cardinality(passed \cup failed) >= MinEvaluated) => v.score = -1

LEMMA VerdictsFacts ==
    ASSUME NEW line, NEW p, NEW passed, NEW failed, NEW excluded
    PROVE  IsVerdict(Verdicts(line, p, passed, failed, excluded), line, p, passed, failed, excluded)
  BY DEF Verdicts, IsVerdict

LEMMA AddedOne ==
    ASSUME NEW S, IsFiniteSet(S), NEW x
    PROVE  IsFiniteSet(S \cup {x}) /\ Cardinality(S \cup {x}) <= Cardinality(S) + 1
<1>1. Cardinality(S) \in Nat
  BY FS_CardinalityType
<1>2. IsFiniteSet(S \cup {x})
  BY FS_AddElement
<1>3. Cardinality(S \cup {x}) = IF x \in S THEN Cardinality(S) ELSE Cardinality(S) + 1
  BY FS_AddElement
<1>4. QED
  BY <1>1, <1>2, <1>3

LEMMA FewChecks ==
    ASSUME NEW S, S \subseteq {"accessibility", "indexability", "canonical"}
    PROVE  ~(Cardinality(S) >= MinEvaluated)
<1> DEFINE T == {"accessibility", "indexability", "canonical"}
<1>1. IsFiniteSet(T) /\ Cardinality(T) <= 3
  <2> DEFINE one == {"accessibility"}
             two == one \cup {"indexability"}
             three == two \cup {"canonical"}
  <2>1. T = three
    OBVIOUS
  <2>2. IsFiniteSet(one) /\ Cardinality(one) = 1
    BY FS_Singleton
  <2>3. IsFiniteSet(two) /\ Cardinality(two) <= Cardinality(one) + 1
    <3> HIDE DEF one
    <3> QED BY <2>2, AddedOne
  <2>4. IsFiniteSet(three) /\ Cardinality(three) <= Cardinality(two) + 1
    <3> HIDE DEF one, two
    <3> QED BY <2>3, AddedOne
  <2>5. Cardinality(one) \in Nat /\ Cardinality(two) \in Nat /\ Cardinality(three) \in Nat
    <3> HIDE DEF one, two, three
    <3> QED BY <2>2, <2>3, <2>4, FS_CardinalityType
  <2>6. QED
    <3> HIDE DEF one, two, three, T
    <3> QED BY <2>1, <2>2, <2>3, <2>4, <2>5
<1>2. IsFiniteSet(S) /\ Cardinality(S) <= Cardinality(T)
  <2> HIDE DEF T
  <2>1. S \subseteq T
    BY DEF T
  <2>2. QED
    BY <1>1, <2>1, FS_Subset
<1>3. Cardinality(S) \in Nat /\ Cardinality(T) \in Nat
  BY <1>1, <1>2, FS_CardinalityType
<1>4. QED
  <2> HIDE DEF T
  <2> QED BY <1>1, <1>2, <1>3 DEF MinEvaluated

IsView(v, line, p, available) ==
    /\ v.row = line /\ v.page = p
    /\ line.scored => \A c \in v.passed : Backed(v, c)
    /\ available /\ p = NoPage => v.passed = {} /\ v.score = -1
    /\ v.excluded => v.score = -1

LEMMA PresentPageFacts ==
    ASSUME NEW s, IsPage(s), NEW line, line = ScorePage(s),
           NEW p, p = NoPage \/ IsPage(p), NEW available \in BOOLEAN
    PROVE  IsView(PresentPage(line, p, available), line, p, available)
<1> DEFINE v == PresentPage(line, p, available)
           strict  == available /\ p = NoPage
           role    == IF p = NoPage THEN ClassifyPage(line.url, line.types, line.title)
                      ELSE ClassifyPage(line.url, p.types, p.title \cup p.heads)
           noindex == (p # NoPage /\ p.noindex) \/ "NOINDEX" \in line.codes
           judged  == ChecksOf(line.url, role) \cap Known(line, p, strict, noindex)
           ok      == Judgement(line, p, strict, noindex, role)
           passed  == {c \in judged : ok[c]}
           failed  == {c \in judged : ~ok[c]}
<1>1. role \in Roles
  BY RoleFacts
<1>2. line.seen = s
  BY RowFacts
<1>3. v = IF role \in {"auth_utility", "contact"} THEN Verdicts(line, p, {}, {}, TRUE)
          ELSE Verdicts(line, p, passed, failed, FALSE)
  BY Zenon DEF PresentPage
<1>4. \A c \in judged : c \in Known(line, p, strict, noindex)
  OBVIOUS
<1>5. CASE role \in {"auth_utility", "contact"}
  <2>1. v = Verdicts(line, p, {}, {}, TRUE)
    BY <1>3, <1>5
  <2> HIDE DEF v
  <2>2. ~(Cardinality({} \cup {}) >= MinEvaluated)
    BY FewChecks
  <2>3. v.row = line /\ v.page = p /\ v.passed = {} /\ v.score = -1
    <3>0. PICK yes : yes = TRUE
      OBVIOUS
    <3> DEFINE w == Verdicts(line, p, {}, {}, yes)
    <3>1. IsVerdict(w, line, p, {}, {}, yes)
      BY VerdictsFacts, Zenon
    <3> HIDE DEF w
    <3>2. v = w
      BY <2>1, <3>0 DEF w
    <3>3. QED
      BY <2>2, <3>1, <3>2 DEF IsVerdict
  <2>4. QED
    BY <2>3, Zenon DEF v, IsView
<1>6. CASE ~(role \in {"auth_utility", "contact"})
  <2>1. v = Verdicts(line, p, passed, failed, FALSE)
    BY <1>3, <1>6
  <2>2. role \in ScoredRoles
    BY <1>1, <1>6 DEF ScoredRoles
  <2> HIDE DEF v, role, noindex, judged, ok
  <2>3. v.row = line /\ v.page = p /\ v.passed = passed /\ v.excluded = FALSE
        /\ (~(Cardinality(passed \cup failed) >= MinEvaluated) => v.score = -1)
    <3> HIDE DEF passed, failed
    <3>0. PICK no : no = FALSE
      OBVIOUS
    <3> DEFINE w == Verdicts(line, p, passed, failed, no)
    <3>1. IsVerdict(w, line, p, passed, failed, no)
      BY VerdictsFacts, Zenon
    <3> HIDE DEF w
    <3>2. v = w
      BY <2>1, <3>0 DEF w
    <3>3. QED
      BY <3>0, <3>1, <3>2 DEF IsVerdict
  <2>4. ASSUME line.scored, NEW c \in v.passed PROVE Backed(v, c)
    <3>1. c \in Known(line, p, strict, noindex) /\ ok[c]
      BY <1>4, <2>3, <2>4
    <3>2. noindex = ((p # NoPage /\ p.noindex) \/ "NOINDEX" \in line.codes)
      BY Zenon DEF noindex
    <3>3. (p # NoPage /\ Shows(p, c)) \/ Shows(s, c)
      BY <2>2, <2>4, <3>1, <3>2, PassedIsBacked DEF ok
    <3>4. QED
      BY <1>2, <2>3, <3>3 DEF Backed
  <2>5. ASSUME available, p = NoPage PROVE v.passed = {} /\ v.score = -1
    <3>1. strict = TRUE
      BY <2>5
    <3>2. noindex = ("NOINDEX" \in line.codes)
      BY <2>5 DEF noindex
    <3>3. \A c \in judged : ~ok[c] /\ c \in {"accessibility", "indexability", "canonical"}
      <4> SUFFICES ASSUME NEW c \in judged
                   PROVE  ~ok[c] /\ c \in {"accessibility", "indexability", "canonical"}
        OBVIOUS
      <4>1. c \in Known(line, NoPage, TRUE, noindex) /\ ok = Judgement(line, NoPage, TRUE, noindex, role)
        BY <1>4, <2>5, <3>1 DEF ok
      <4>2. QED
        BY <3>2, <4>1, LonePassesNothing
    <3>4. passed = {} /\ passed \cup failed \subseteq {"accessibility", "indexability", "canonical"}
      BY <3>3
    <3>5. QED
      <4> HIDE DEF passed, failed
      <4> QED BY <2>3, <3>4, FewChecks
  <2>6. QED
    BY <2>3, <2>4, <2>5, Zenon DEF v, IsView
<1>7. QED
  BY <1>5, <1>6

-----------------------------------------------------------------------------
(* The invariant of a crawl                                                *)

SiteFields == {"root", "run", "urls", "crawled", "ok", "map", "llms"}

\* What site.json holds, or NoSite.
IsSite(x) ==
    \/ x = NoSite
    \/ /\ DOMAIN x = SiteFields
       /\ x.root \in {1, 2} /\ x.urls \subseteq URLs
       /\ x.crawled \in Nat /\ x.ok \in Nat /\ x.ok <= x.crawled

\* No page was fetched by a later crawl than the n-th.
FetchedBy(seq, n) == \A i \in DOMAIN seq : seq[i].run <= n

\* pages.jsonl and site.json tell of one crawl.
Match(seq, x) ==
    IF x = NoSite THEN seq = << >>
    ELSE x.urls = AllUrls(seq) /\ \A i \in DOMAIN seq : seq[i].root = x.root

Answered(seq) == \E i \in DOMAIN seq : seq[i].status = 200

\* The rows of audit.json were made from pages of some crawl.
AreRows(R) == IsFiniteSet(R) /\ \A r \in R : IsPage(r.seen) /\ r = ScorePage(r.seen)

RunFields == {"pc", "autopilot", "copied", "pages", "site", "had", "fetched"}
RunStates == {"fetch", "site", "pages", "signals", "recover"}

\* The copy an autopilot made is evidence of the time before its crawl.
CopyHolds ==
    /\ IsEvidence(run.pages) /\ IsSite(run.site) /\ FetchedBy(run.pages, serial)
    /\ ~hurt => Match(run.pages, run.site)
    /\ run.had => /\ run.autopilot /\ run.copied /\ Usable(run.pages)
                  /\ run.site = NoSite \/ run.site.root = domain

\* What was fetched is evidence of the configured site.
FetchHolds ==
    /\ IsEvidence(run.fetched) /\ FetchedBy(run.fetched, serial) /\ Answered(run.fetched)
    /\ \A i \in DOMAIN run.fetched : run.fetched[i].root = domain /\ run.fetched[i].aliases = {}

\* The files by where the crawl stands: as the copy was made, then one of them
\* and then both as fetched.
FilesHold ==
    /\ run.pc \in {"fetch", "site"} => ev = run.pages /\ sj = run.site
    /\ run.pc \in {"pages", "signals", "recover"} =>
          sj # NoSite /\ sj.root = domain /\ Match(run.fetched, sj)
    /\ run.pc \in {"signals", "recover"} => ev = run.fetched

RunHolds ==
    run = NoRun \/ /\ DOMAIN run = RunFields /\ run.pc \in RunStates
                   /\ run.autopilot \in BOOLEAN /\ run.copied \in BOOLEAN /\ run.had \in BOOLEAN
                   /\ serial > 0
                   /\ CopyHolds /\ FilesHold
                   /\ run.pc # "fetch" => FetchHolds

CrawlsBasics ==
    /\ web \in Webs /\ domain \in {1, 2} /\ serial \in Nat /\ hurt \in BOOLEAN
    /\ may \in [CrawlEvent -> Nat]

EvidenceHolds == IsEvidence(ev) /\ IsSite(sj) /\ FetchedBy(ev, serial)

\* Between crawls the files match, unless a job was killed between the two.
FilesMatch == run = NoRun /\ ~hurt => Match(ev, sj)

CrawlsInv ==
    /\ CrawlsBasics /\ EvidenceHolds /\ AreRows(rows)
    /\ FilesMatch /\ RunHolds

-----------------------------------------------------------------------------
(* The view passes nothing without evidence                                *)

\* The evidence of a page is a page of the sequence, or none.
LEMMA PageEvidenceFacts ==
    ASSUME NEW u, NEW seq, IsEvidence(seq)
    PROVE  PageEvidence(u, seq) = NoPage \/ IsPage(PageEvidence(u, seq))
<1> DEFINE exact == {i \in DOMAIN seq : u = seq[i].url \/ u \in seq[i].aliases}
           near  == {i \in DOMAIN seq :
                       \E v \in {seq[i].url} \cup seq[i].aliases : Traits[v].path = Traits[u].path}
<1>1. DOMAIN seq = 1 .. Len(seq) /\ Len(seq) \in Nat /\ \A i \in DOMAIN seq : IsPage(seq[i])
  BY LenProperties DEF IsEvidence
<1>2. exact \subseteq 1 .. Len(seq) /\ near \subseteq Nat /\ near \subseteq DOMAIN seq /\ exact \subseteq DOMAIN seq
  BY <1>1
<1>3. PageEvidence(u, seq) = IF exact # {} THEN seq[Max(exact)]
                             ELSE IF near # {} THEN seq[Min(near)] ELSE NoPage
  BY Zenon DEF PageEvidence
<1> HIDE DEF exact, near
<1>4. exact # {} => Max(exact) \in exact
  BY <1>1, <1>2, LastOfPositions
<1>5. near # {} => Min(near) \in near
  BY <1>2, MinOf
<1>6. QED
  BY <1>1, <1>2, <1>3, <1>4, <1>5

LEMMA ViewFacts ==
    ASSUME NEW R, AreRows(R), NEW seq, IsEvidence(seq)
    PROVE  LET view == PresentAudit(R, seq)
           IN  /\ IsFiniteSet(view)
               /\ \A v \in view : /\ v.row.scored => \A c \in v.passed : Backed(v, c)
                                  /\ v.page = NoPage /\ seq # << >> => v.passed = {} /\ v.score = -1
                                  /\ v.excluded => v.score = -1
<1> DEFINE made(r) == PresentPage(r, PageEvidence(r.url, seq), seq # << >>)
           view == {made(r) : r \in R}
<1>1. PresentAudit(R, seq) = view
  BY Zenon DEF PresentAudit
<1>2. ASSUME NEW r \in R
      PROVE  LET v == made(r)
             IN  /\ v.row.scored => \A c \in v.passed : Backed(v, c)
                 /\ v.page = NoPage /\ seq # << >> => v.passed = {} /\ v.score = -1
                 /\ v.excluded => v.score = -1
  <2> DEFINE p == PageEvidence(r.url, seq)
             available == seq # << >>
             v == PresentPage(r, p, available)
  <2>1. p = NoPage \/ IsPage(p)
    BY PageEvidenceFacts
  <2>2. IsPage(r.seen) /\ r = ScorePage(r.seen)
    BY DEF AreRows
  <2>3. available \in BOOLEAN /\ (available <=> seq # << >>)
    OBVIOUS
  <2> DEFINE s == r.seen
  <2>4. IsPage(s) /\ r = ScorePage(s)
    BY <2>2
  <2> HIDE DEF p, available, s
  <2>5. IsView(v, r, p, available)
    BY <2>1, <2>3, <2>4, PresentPageFacts, Zenon
  <2>6. made(r) = v
    BY Zenon DEF p, available
  <2> HIDE DEF v, made
  <2>7. QED
    BY <2>3, <2>5, <2>6 DEF IsView
<1>3. IsFiniteSet(view)
  <2>1. IsFiniteSet(R)
    BY DEF AreRows
  <2> DEFINE f == [r \in R |-> made(r)]
  <2> HIDE DEF made
  <2>2. f \in Surjection(R, view)
    BY DEF Surjection
  <2> HIDE DEF f, view
  <2>3. QED
    BY <2>1, <2>2, FS_Surjection
<1>4. \A v \in view : /\ v.row.scored => \A c \in v.passed : Backed(v, c)
                      /\ v.page = NoPage /\ seq # << >> => v.passed = {} /\ v.score = -1
                      /\ v.excluded => v.score = -1
  <2> HIDE DEF made
  <2> QED BY <1>2
<1> HIDE DEF view
<1>5. QED
  BY <1>1, <1>3, <1>4

\* A site more than a fifth of whose pages have no score is given none.
LEMMA TooFewScored ==
    ASSUME NEW view, IsFiniteSet(view), NEW lone, lone \subseteq view,
           \A v \in lone : v.score = -1,
           \A v \in view : v.excluded => v.score = -1,
           5 * Cardinality({v \in lone : ~v.excluded}) > Cardinality({v \in view : ~v.excluded})
    PROVE  ~ScoreReported(view)
<1> DEFINE eligible == {v \in view : ~v.excluded}
           scored   == {v \in view : v.score >= 0}
           out      == {v \in lone : ~v.excluded}
<1>1. scored \subseteq eligible \ out
  OBVIOUS
<1>2. eligible \subseteq view /\ out \subseteq eligible
  OBVIOUS
<1>3. 5 * Cardinality(out) > Cardinality(eligible)
  OBVIOUS
<1>4. ScoreReported(view) => 5 * Cardinality(scored) >= 4 * Cardinality(eligible)
  BY DEF ScoreReported
<1> HIDE DEF eligible, scored, out
<1>5. IsFiniteSet(eligible) /\ IsFiniteSet(out)
  BY <1>2, FS_Subset
<1>6. IsFiniteSet(eligible \ out) /\ Cardinality(eligible \ out) = Cardinality(eligible) - Cardinality(out)
  <2>1. eligible \cap out = out
    BY <1>2
  <2>2. IsFiniteSet(eligible \ out)
        /\ Cardinality(eligible \ out) = Cardinality(eligible) - Cardinality(eligible \cap out)
    BY <1>5, FS_Difference, Zenon
  <2>3. QED
    BY <2>1, <2>2
<1>7. IsFiniteSet(scored) /\ Cardinality(scored) <= Cardinality(eligible \ out)
  BY <1>1, <1>6, FS_Subset
<1>8. Cardinality(scored) \in Nat /\ Cardinality(eligible) \in Nat /\ Cardinality(out) \in Nat
  BY <1>5, <1>7, FS_CardinalityType
<1>9. QED
  BY <1>3, <1>4, <1>6, <1>7, <1>8

LEMMA InvGivesEvidence == CrawlsInv => NoPassWithoutEvidence
<1> SUFFICES ASSUME CrawlsInv PROVE NoPassWithoutEvidence
  OBVIOUS
<1> DEFINE view == PresentAudit(rows, ev)
           lone == {v \in view : v.page = NoPage /\ ev # << >>}
<1>1. AreRows(rows) /\ IsEvidence(ev)
  BY DEF CrawlsInv, EvidenceHolds
<1>2. /\ IsFiniteSet(view)
      /\ \A v \in view : /\ v.row.scored => \A c \in v.passed : Backed(v, c)
                         /\ v.page = NoPage /\ ev # << >> => v.passed = {} /\ v.score = -1
                         /\ v.excluded => v.score = -1
  BY <1>1, ViewFacts, Zenon
<1> HIDE DEF view
<1>3. \A v \in lone : v.passed = {} /\ v.score = -1
  BY <1>2
<1>4. 5 * Cardinality({v \in lone : ~v.excluded}) > Cardinality({v \in view : ~v.excluded})
          => ~ScoreReported(view)
  <2>1. lone \subseteq view
    OBVIOUS
  <2> HIDE DEF lone
  <2>2. QED
    BY <1>2, <1>3, <2>1, TooFewScored
<1>5. View = view
  BY DEF View, view
<1>6. QED
  BY <1>2, <1>3, <1>4, <1>5, Zenon DEF NoPassWithoutEvidence

-----------------------------------------------------------------------------
(* What a crawl fetches                                                    *)

\* One step of rank's fold, and of select_candidates'.
RankStep(seq, u, urls) == IF u = Root \/ u \in urls THEN Append(seq, u) ELSE seq

Ranking(g, urls) ==
    g = [s \in SUBSET DOMAIN Order |->
            IF s = {} THEN << >> ELSE RankStep(g[s \ {Max(s)}], Order[Max(s)], urls)]

LEMMA RankedIs ==
    ASSUME NEW urls
    PROVE  Ranked(urls) = (CHOOSE g : Ranking(g, urls))[DOMAIN Order]
  BY DEF Ranked, FoldLeft, MapThenFoldSet, Ranking, RankStep

LEMMA RankedFacts ==
    ASSUME NEW urls
    PROVE  Ranked(urls) \in Seq(URLs)
<1> DEFINE n == Len(Order)
           A == Seq(URLs)
           op == [x \in A \X (1 .. n) |-> RankStep(x[1], Order[x[2]], urls)]
           h == CHOOSE g : Ranking(g, urls)
<1>1. n \in Nat /\ DOMAIN Order = 1 .. n /\ \A i \in 1 .. n : Order[i] \in URLs
  BY WebsAssumption, LenProperties, ElementOfSeq DEF WebsAssumption
<1>2. << >> \in A
  OBVIOUS
<1>3. \A x \in A, i \in 1 .. n : RankStep(x, Order[i], urls) \in A
  BY <1>1 DEF RankStep
<1>4. op \in [A \X (1 .. n) -> A] /\ \A x \in A, i \in 1 .. n : op[<<x, i>>] = RankStep(x, Order[i], urls)
  <2> HIDE DEF A, n
  <2> QED BY <1>3
<1>5. PICK f : Folds(op, << >>, f, 1 .. n)
  <2> HIDE DEF op, A, n
  <2> QED BY <1>1, FoldsExist
<1>6. \A s \in SUBSET (1 .. n) : f[s] \in A
  <2> HIDE DEF op, A, n
  <2> QED BY <1>1, <1>2, <1>4, <1>5, FoldIn
<1>7. Ranking(f, urls)
  <2> DEFINE v(s) == IF s = {} THEN << >> ELSE op[<<f[s \ {Max(s)}], Max(s)>>]
             w(s) == IF s = {} THEN << >> ELSE RankStep(f[s \ {Max(s)}], Order[Max(s)], urls)
  <2>1. f = [s \in SUBSET (1 .. n) |-> v(s)]
    BY <1>5 DEF Folds
  <2>2. ASSUME NEW s \in SUBSET (1 .. n) PROVE v(s) = w(s)
    <3>1. CASE s = {}
      BY <3>1
    <3>2. CASE s # {}
      <4> HIDE DEF op, A, n
      <4> DEFINE m == Max(s)
                 x == f[s \ {m}]
      <4>1. m \in 1 .. n /\ x \in A
        BY <1>1, <1>6, <3>2, LastOfPositions
      <4>2. v(s) = op[<<x, m>>] /\ w(s) = RankStep(x, Order[m], urls)
        BY <3>2
      <4> HIDE DEF m, x, v, w
      <4>3. QED
        BY <1>4, <4>1, <4>2
    <3>3. QED
      BY <3>1, <3>2
  <2>3. [s \in SUBSET (1 .. n) |-> v(s)] = [s \in SUBSET (1 .. n) |-> w(s)]
    <3> HIDE DEF v, w
    <3> QED BY <2>2
  <2>4. f = [s \in SUBSET DOMAIN Order |-> w(s)]
    <3> HIDE DEF v, w, n
    <3> QED BY <1>1, <2>1, <2>3
  <2>5. QED
    BY <2>4, Zenon DEF Ranking
<1>8. Ranking(h, urls)
  BY <1>7
<1> HIDE DEF h, A, op
<1>9. \A s \in SUBSET (1 .. n) : h[s] \in A
  <2> DEFINE P == {s \in SUBSET (1 .. n) : h[s] \in A}
  <2>1. ASSUME NEW V \in SUBSET (1 .. n), \A W \in SUBSET V : W # V => W \in P
        PROVE  V \in P
    <3>1. CASE V = {}
      BY <1>1, <1>2, <1>8, <3>1 DEF Ranking
    <3>2. CASE V # {}
      <4> DEFINE m == Max(V)
                 rest == V \ {m}
      <4>1. m \in V /\ rest \in SUBSET V /\ rest # V
        BY <1>1, <3>2, LastOfPositions
      <4>2. h[rest] \in A
        BY <2>1, <4>1
      <4>3. h[V] = RankStep(h[rest], Order[m], urls)
        BY <1>1, <1>8, <3>2 DEF Ranking
      <4> HIDE DEF m, n, rest
      <4>4. QED
        BY <1>3, <4>1, <4>2, <4>3
    <3>3. QED
      BY <3>1, <3>2
  <2>2. IsFiniteSet(1 .. n)
    BY <1>1, FS_Interval
  <2>3. \A V \in SUBSET (1 .. n) : V \in P
    <3> HIDE DEF P, n
    <3> QED BY <2>1, <2>2, SubsetInduct
  <2>4. QED
    BY <2>3
<1>10. h[DOMAIN Order] \in A
  <2> HIDE DEF n
  <2> QED BY <1>1, <1>9
<1>11. QED
  BY <1>10, RankedIs DEF h, A

\* What select_candidates keeps: not more pages than the limit, and those kept out.
Chosen(limit) == {acc \in [in : Seq(URLs), out : Seq(URLs)] : Len(acc.in) <= limit}

LEMMA PickFacts ==
    ASSUME NEW limit \in Nat, NEW variants, NEW acc \in Chosen(limit), NEW u \in URLs
    PROVE  Pick(acc, u, limit, variants) \in Chosen(limit)
<1>1. acc \in [in : Seq(URLs), out : Seq(URLs)] /\ Len(acc.in) <= limit
  BY DEF Chosen
<1>2. \/ Pick(acc, u, limit, variants) = acc
      \/ Pick(acc, u, limit, variants) = [acc EXCEPT !.out = Append(@, u)]
      \/ ~(Len(acc.in) >= limit) /\ Pick(acc, u, limit, variants) = [acc EXCEPT !.in = Append(@, u)]
  BY Zenon DEF Pick
<1>3. Len(acc.in) \in Nat /\ Append(acc.in, u) \in Seq(URLs) /\ Append(acc.out, u) \in Seq(URLs)
      /\ Len(Append(acc.in, u)) = Len(acc.in) + 1
  BY <1>1, AppendProperties, LenProperties
<1>4. CASE Pick(acc, u, limit, variants) = acc
  BY <1>4
<1>5. CASE Pick(acc, u, limit, variants) = [acc EXCEPT !.out = Append(@, u)]
  <2>1. [acc EXCEPT !.out = Append(@, u)] \in [in : Seq(URLs), out : Seq(URLs)]
        /\ [acc EXCEPT !.out = Append(@, u)].in = acc.in
    BY <1>1, <1>3
  <2>2. QED
    BY <1>1, <1>5, <2>1 DEF Chosen
<1>6. CASE ~(Len(acc.in) >= limit) /\ Pick(acc, u, limit, variants) = [acc EXCEPT !.in = Append(@, u)]
  <2>1. [acc EXCEPT !.in = Append(@, u)] \in [in : Seq(URLs), out : Seq(URLs)]
        /\ [acc EXCEPT !.in = Append(@, u)].in = Append(acc.in, u)
    BY <1>1, <1>3
  <2>2. Len(Append(acc.in, u)) <= limit
    BY <1>3, <1>6
  <2>3. QED
    BY <1>6, <2>1, <2>2 DEF Chosen
<1>7. QED
  BY <1>2, <1>4, <1>5, <1>6

Picking(g, seq, limit, variants) ==
    g = [s \in SUBSET DOMAIN seq |->
            IF s = {} THEN [in |-> << >>, out |-> << >>]
            ELSE Pick(g[s \ {Max(s)}], seq[Max(s)], limit, variants)]

Picked(seq, limit, variants) ==
    FoldLeft(LAMBDA acc, u : Pick(acc, u, limit, variants), [in |-> << >>, out |-> << >>], seq)

LEMMA PickedIs ==
    ASSUME NEW seq, NEW limit, NEW variants
    PROVE  Picked(seq, limit, variants) = (CHOOSE g : Picking(g, seq, limit, variants))[DOMAIN seq]
  BY DEF FoldLeft, MapThenFoldSet, Picking, Picked

LEMMA PickedFacts ==
    ASSUME NEW seq \in Seq(URLs), NEW limit \in Nat, NEW variants
    PROVE  Picked(seq, limit, variants) \in Chosen(limit)
<1> DEFINE n == Len(seq)
           A == Chosen(limit)
           none == [in |-> << >>, out |-> << >>]
           op == [x \in A \X (1 .. n) |-> Pick(x[1], seq[x[2]], limit, variants)]
           h == CHOOSE g : Picking(g, seq, limit, variants)
<1>1. n \in Nat /\ DOMAIN seq = 1 .. n /\ \A i \in 1 .. n : seq[i] \in URLs
  BY LenProperties, ElementOfSeq
<1>2. none \in A
  BY EmptySeq DEF Chosen
<1>3. \A x \in A, i \in 1 .. n : Pick(x, seq[i], limit, variants) \in A
  BY <1>1, PickFacts
<1> HIDE DEF none
<1>4. op \in [A \X (1 .. n) -> A] /\ \A x \in A, i \in 1 .. n : op[<<x, i>>] = Pick(x, seq[i], limit, variants)
  <2> HIDE DEF A, n
  <2> QED BY <1>3
<1>5. PICK f : Folds(op, none, f, 1 .. n)
  <2> HIDE DEF op, A, n
  <2> QED BY <1>1, FoldsExist
<1>6. \A s \in SUBSET (1 .. n) : f[s] \in A
  <2> HIDE DEF op, A, n
  <2> QED BY <1>1, <1>2, <1>4, <1>5, FoldIn
<1>7. Picking(f, seq, limit, variants)
  <2> DEFINE v(s) == IF s = {} THEN none ELSE op[<<f[s \ {Max(s)}], Max(s)>>]
             w(s) == IF s = {} THEN none ELSE Pick(f[s \ {Max(s)}], seq[Max(s)], limit, variants)
  <2>1. f = [s \in SUBSET (1 .. n) |-> v(s)]
    BY <1>5 DEF Folds
  <2>2. ASSUME NEW s \in SUBSET (1 .. n) PROVE v(s) = w(s)
    <3>1. CASE s = {}
      BY <3>1
    <3>2. CASE s # {}
      <4> HIDE DEF op, A, n
      <4> DEFINE m == Max(s)
                 x == f[s \ {m}]
      <4>1. m \in 1 .. n /\ x \in A
        BY <1>1, <1>6, <3>2, LastOfPositions
      <4>2. v(s) = op[<<x, m>>] /\ w(s) = Pick(x, seq[m], limit, variants)
        BY <3>2
      <4> HIDE DEF m, x, v, w
      <4>3. QED
        BY <1>4, <4>1, <4>2
    <3>3. QED
      BY <3>1, <3>2
  <2>3. [s \in SUBSET (1 .. n) |-> v(s)] = [s \in SUBSET (1 .. n) |-> w(s)]
    <3> HIDE DEF v, w
    <3> QED BY <2>2
  <2>4. f = [s \in SUBSET DOMAIN seq |-> w(s)]
    <3> HIDE DEF v, w, n
    <3> QED BY <1>1, <2>1, <2>3
  <2>5. QED
    BY <2>4, Zenon DEF Picking, none
<1>8. Picking(h, seq, limit, variants)
  BY <1>7
<1> HIDE DEF h, A, op
<1>9. \A s \in SUBSET (1 .. n) : h[s] \in A
  <2> DEFINE P == {s \in SUBSET (1 .. n) : h[s] \in A}
  <2>1. ASSUME NEW V \in SUBSET (1 .. n), \A W \in SUBSET V : W # V => W \in P
        PROVE  V \in P
    <3>1. CASE V = {}
      BY <1>1, <1>2, <1>8, <3>1 DEF Picking, none
    <3>2. CASE V # {}
      <4> DEFINE m == Max(V)
                 rest == V \ {m}
      <4>1. m \in V /\ rest \in SUBSET V /\ rest # V
        BY <1>1, <3>2, LastOfPositions
      <4>2. h[rest] \in A
        BY <2>1, <4>1
      <4>3. h[V] = Pick(h[rest], seq[m], limit, variants)
        BY <1>1, <1>8, <3>2 DEF Picking
      <4> HIDE DEF m, n, rest
      <4>4. QED
        BY <1>3, <4>1, <4>2, <4>3
    <3>3. QED
      BY <3>1, <3>2
  <2>2. IsFiniteSet(1 .. n)
    BY <1>1, FS_Interval
  <2>3. \A V \in SUBSET (1 .. n) : V \in P
    <3> HIDE DEF P, n
    <3> QED BY <2>1, <2>2, SubsetInduct
  <2>4. QED
    BY <2>3
<1>10. h[DOMAIN seq] \in A
  <2> HIDE DEF n
  <2> QED BY <1>1, <1>9
<1>11. QED
  BY <1>10, PickedIs DEF h, A

LEMMA CandidatesFacts ==
    ASSUME NEW urls, NEW limit \in Nat, NEW variants
    PROVE  Candidates(urls, limit, variants) \in Seq(URLs)
<1> DEFINE done == Picked(Ranked(urls), limit, variants)
           rest == limit - Len(done.in)
           m    == Min({rest, Len(done.out)})
<1>1. done \in Chosen(limit)
  BY RankedFacts, PickedFacts
<1>2. Candidates(urls, limit, variants) = done.in \o SubSeq(done.out, 1, m)
  BY Zenon DEF Candidates, Picked
<1> HIDE DEF done
<1>3. done.in \in Seq(URLs) /\ done.out \in Seq(URLs) /\ Len(done.in) <= limit
  BY <1>1 DEF Chosen
<1>4. rest \in Nat /\ Len(done.out) \in Nat
  BY <1>3, LenProperties
<1> HIDE DEF rest
<1>5. m \in {rest, Len(done.out)} /\ m <= Len(done.out) /\ m \in Nat
  <2> DEFINE S == {rest, Len(done.out)}
  <2>1. S \in SUBSET Nat /\ S # {} /\ Len(done.out) \in S
    BY <1>4
  <2> HIDE DEF S
  <2>2. Min(S) \in S /\ Min(S) <= Len(done.out)
    BY <2>1, MinOf
  <2>3. QED
    BY <2>1, <2>2 DEF S
<1> HIDE DEF m
<1>6. SubSeq(done.out, 1, m) \in Seq(URLs)
  <2>1. 1 \in 1 .. Len(done.out) + 1 /\ m \in 1 - 1 .. Len(done.out)
    BY <1>4, <1>5
  <2>2. QED
    BY <1>3, <2>1, SubSeqProperties
<1>7. QED
  BY <1>2, <1>3, <1>6, ConcatProperties

LEMMA LimitFacts ==
    ASSUME NEW w \in Webs, NEW n \in Nat
    PROVE  PageLimit(w.maximum, n) \in Nat
  BY WebsAssumption DEF WebsAssumption, PageLimit

LEMMA LiveFacts ==
    ASSUME NEW w \in Webs, NEW u \in URLs
    PROVE  LET p == w.pages[u]
           IN  /\ PageParts \subseteq DOMAIN p
               /\ p.main \in DOMAIN WordCount /\ p.body \in DOMAIN WordCount
               /\ p.status \in Nat /\ p.h1 \in Nat /\ p.h2 \in Nat /\ p.paras \in Nat /\ p.links \in Nat
               /\ p.noindex \in BOOLEAN /\ p.lists \in BOOLEAN /\ p.date \in BOOLEAN /\ p.relevant \in BOOLEAN
<1> DEFINE p == w.pages[u]
<1>1. /\ PageParts \subseteq DOMAIN p
      /\ {p.main, p.body} \subseteq DOMAIN WordCount
      /\ {p.status, p.h1, p.h2, p.paras, p.links} \subseteq Nat
      /\ {p.noindex, p.lists, p.date, p.relevant} \subseteq BOOLEAN
  BY WebsAssumption, Zenon DEF WebsAssumption
<1> HIDE DEF p
<1>2. QED
  BY <1>1 DEF p

\* One page as it was fetched: of the configured site, by this crawl, its own URL
\* only.
IsFetched(p, n, d) == IsPage(p) /\ p.root = d /\ p.run = n /\ p.aliases = {}

LEMMA AnalyzedFacts ==
    ASSUME domain \in {1, 2}, NEW n \in Nat \ {0}, NEW u \in URLs, NEW live,
           live.main \in DOMAIN WordCount, live.status \in Nat,
           live.h1 \in Nat, live.h2 \in Nat, live.paras \in Nat, live.links \in Nat,
           live.noindex \in BOOLEAN, live.lists \in BOOLEAN, live.date \in BOOLEAN, live.relevant \in BOOLEAN
    PROVE  IsFetched(AnalyzePage(u, live, n), n, domain)
<1>1. Absent \in DOMAIN WordCount
  BY DEF Absent, WordCount
<1>2. QED
  BY <1>1 DEF AnalyzePage, IsFetched, IsPage, PageFields

LEMMA RepairedFacts ==
    ASSUME NEW n, NEW d, NEW p, IsFetched(p, n, d), NEW live, live.body \in DOMAIN WordCount
    PROVE  IsFetched(Repaired(p, live), n, d)
<1> DEFINE q == [p EXCEPT !.text = live.body]
<1>1. IsFetched(q, n, d)
  BY DEF IsFetched, IsPage, PageFields
<1>2. Repaired(p, live) \in {p, q}
  BY DEF Repaired
<1> HIDE DEF q
<1>3. QED
  BY <1>1, <1>2

LEMMA CrawlOneFacts ==
    ASSUME web \in Webs, domain \in {1, 2}, NEW n \in Nat \ {0}, NEW u \in URLs
    PROVE  IsFetched(CrawlOne(u, n), n, domain)
<1> DEFINE live == web.pages[u]
           seen == IF Disallows(web.robots, "CiteAuraEngine", u) THEN [live EXCEPT !.status = 0] ELSE live
<1>1. /\ PageParts \subseteq DOMAIN live
      /\ live.main \in DOMAIN WordCount /\ live.body \in DOMAIN WordCount
      /\ live.status \in Nat /\ live.h1 \in Nat /\ live.h2 \in Nat /\ live.paras \in Nat /\ live.links \in Nat
      /\ live.noindex \in BOOLEAN /\ live.lists \in BOOLEAN /\ live.date \in BOOLEAN /\ live.relevant \in BOOLEAN
  BY LiveFacts
<1>2. CrawlOne(u, n) = Repaired(AnalyzePage(u, seen, n), seen)
  BY Zenon DEF CrawlOne
<1>3. seen \in {[live EXCEPT !.status = 0], live}
  OBVIOUS
<1> HIDE DEF live, seen
<1>4. /\ seen.main \in DOMAIN WordCount /\ seen.body \in DOMAIN WordCount
      /\ seen.status \in Nat /\ seen.h1 \in Nat /\ seen.h2 \in Nat /\ seen.paras \in Nat /\ seen.links \in Nat
      /\ seen.noindex \in BOOLEAN /\ seen.lists \in BOOLEAN /\ seen.date \in BOOLEAN /\ seen.relevant \in BOOLEAN
  BY <1>1, <1>3 DEF PageParts
<1>5. IsFetched(AnalyzePage(u, seen, n), n, domain)
  BY <1>4, AnalyzedFacts
<1>6. QED
  BY <1>2, <1>4, <1>5, RepairedFacts

LEMMA ListedFacts ==
    ASSUME web \in Webs
    PROVE  IsFiniteSet(ListedUrls) /\ Cardinality(ListedUrls) \in Nat
<1>1. ListedUrls \subseteq URLs
  BY WebsAssumption DEF WebsAssumption, ListedUrls
<1>2. IsFiniteSet(URLs)
  <2> DEFINE n == Len(Order)
             f == [i \in 1 .. n |-> Order[i]]
  <2>1. n \in Nat /\ DOMAIN Order = 1 .. n /\ Range(Order) = URLs /\ \A i \in 1 .. n : Order[i] \in URLs
    BY WebsAssumption, LenProperties, ElementOfSeq DEF WebsAssumption
  <2>2. f \in Surjection(1 .. n, URLs)
    BY <2>1 DEF Surjection, Range
  <2>3. IsFiniteSet(1 .. n)
    BY <2>1, FS_Interval
  <2> HIDE DEF f
  <2>4. QED
    BY <2>2, <2>3, FS_Surjection
<1>3. QED
  BY <1>1, <1>2, FS_Subset, FS_CardinalityType

\* What a crawl fetches is evidence of the configured site.
LEMMA CrawledFacts ==
    ASSUME web \in Webs, domain \in {1, 2}, serial \in Nat \ {0}
    PROVE  /\ IsEvidence(Crawled)
           /\ \A i \in DOMAIN Crawled : IsFetched(Crawled[i], serial, domain)
<1> DEFINE limit == PageLimit(web.maximum, Cardinality(ListedUrls))
           order == Candidates(ListedUrls \cup Linked, limit, IF web.both THEN 2 ELSE 1)
           got == [i \in DOMAIN order |-> CrawlOne(order[i], serial)]
<1>1. limit \in Nat
  BY ListedFacts, LimitFacts
<1>2. order \in Seq(URLs)
  <2> HIDE DEF limit
  <2> QED BY <1>1, CandidatesFacts
<1>3. Crawled = got
  BY Zenon DEF Crawled
<1> HIDE DEF order
<1>4. DOMAIN order = 1 .. Len(order) /\ Len(order) \in Nat /\ \A i \in DOMAIN order : order[i] \in URLs
  BY <1>2, LenProperties, ElementOfSeq
<1>5. \A i \in DOMAIN order : IsFetched(CrawlOne(order[i], serial), serial, domain)
  BY <1>4, CrawlOneFacts
<1>6. DOMAIN got = DOMAIN order /\ \A i \in DOMAIN order : IsFetched(got[i], serial, domain)
  BY <1>5
<1>7. got \in [1 .. Len(order) -> Range(got)]
  BY <1>4 DEF Range
<1> HIDE DEF got
<1>8. got \in Seq(Range(got))
  BY <1>4, <1>7, SeqOfFunction
<1>9. QED
  BY <1>3, <1>6, <1>8 DEF IsEvidence, IsFetched

-----------------------------------------------------------------------------
(* What a recovery and a folding leave                                     *)

\* The same pages, but for what they show.
SamePages(a, b) ==
    /\ DOMAIN a = DOMAIN b
    /\ \A i \in DOMAIN b : /\ a[i].url = b[i].url /\ a[i].aliases = b[i].aliases
                           /\ a[i].root = b[i].root /\ a[i].run = b[i].run

LEMMA SamePagesFacts ==
    ASSUME NEW a, NEW b, SamePages(a, b), IsEvidence(b), NEW n, NEW x
    PROVE  /\ AllUrls(a) = AllUrls(b)
           /\ FetchedBy(b, n) => FetchedBy(a, n)
           /\ x # NoSite /\ Match(b, x) => Match(a, x)
<1>1. AllUrls(a) = AllUrls(b)
  <2>1. \A i \in DOMAIN b : UrlsOf(a[i]) = UrlsOf(b[i])
    BY DEF SamePages, UrlsOf
  <2>2. DOMAIN a = DOMAIN b
    BY DEF SamePages
  <2>3. QED
    BY <2>1, <2>2 DEF AllUrls
<1>2. FetchedBy(b, n) => FetchedBy(a, n)
  BY DEF FetchedBy, SamePages
<1>3. x # NoSite /\ Match(b, x) => Match(a, x)
  BY <1>1 DEF Match, SamePages
<1>4. QED
  BY <1>1, <1>2, <1>3

LEMMA RetextedFacts ==
    ASSUME NEW p, IsPage(p), NEW t \in DOMAIN WordCount \ {Absent}
    PROVE  LET q == [p EXCEPT !.text = t]
           IN  /\ IsPage(q) /\ q.url = p.url /\ q.aliases = p.aliases /\ q.root = p.root /\ q.run = p.run
               /\ q.status = p.status /\ HasText(q)
  BY DEF IsPage, PageFields, HasText

LEMMA MetaFacts == "meta" \in DOMAIN WordCount \ {Absent} /\ "identity" \in DOMAIN WordCount \ {Absent}
  BY DEF WordCount, Absent

\* A sequence with one page for each of another's.
LEMMA EvidenceOf ==
    ASSUME NEW seq, IsEvidence(seq), NEW f, DOMAIN f = DOMAIN seq, f = [i \in DOMAIN f |-> f[i]],
           \A i \in DOMAIN seq : IsPage(f[i])
    PROVE  IsEvidence(f)
<1>1. DOMAIN seq = 1 .. Len(seq) /\ Len(seq) \in Nat
  BY LenProperties DEF IsEvidence
<1>2. f \in [1 .. Len(seq) -> Range(f)]
  BY <1>1 DEF Range
<1>3. f \in Seq(Range(f))
  BY <1>1, <1>2, SeqOfFunction
<1>4. QED
  BY <1>3 DEF IsEvidence

LEMMA RecoveredFacts ==
    ASSUME NEW seq, IsEvidence(seq)
    PROVE  /\ IsEvidence(Recovered(seq)) /\ SamePages(Recovered(seq), seq)
           /\ Recovered(seq) # seq => Usable(Recovered(seq))
<1> DEFINE q(p) == [p EXCEPT !.text = "meta"]
           lacks(p) == p.status = 200 /\ ~HasText(p) /\ (p.title \cup p.heads) # {}
           f == [i \in DOMAIN seq |-> IF lacks(seq[i]) THEN q(seq[i]) ELSE seq[i]]
<1>1. Recovered(seq) = f
  BY Zenon DEF Recovered
<1>2. \A i \in DOMAIN seq : IsPage(seq[i])
  BY DEF IsEvidence
<1>3. \A p : IsPage(p) => /\ IsPage(q(p)) /\ q(p).url = p.url /\ q(p).aliases = p.aliases
                          /\ q(p).root = p.root /\ q(p).run = p.run
                          /\ q(p).status = p.status /\ HasText(q(p))
  BY RetextedFacts, MetaFacts
<1>4. DOMAIN f = DOMAIN seq /\ f = [i \in DOMAIN f |-> f[i]]
      /\ \A i \in DOMAIN seq : f[i] = IF lacks(seq[i]) THEN q(seq[i]) ELSE seq[i]
  <2> HIDE DEF q, lacks
  <2> QED OBVIOUS
<1>5. \A p : lacks(p) => p.status = 200
  OBVIOUS
<1> HIDE DEF f, q, lacks
<1>6. \A i \in DOMAIN seq : /\ IsPage(f[i]) /\ f[i].url = seq[i].url /\ f[i].aliases = seq[i].aliases
                            /\ f[i].root = seq[i].root /\ f[i].run = seq[i].run
  BY <1>2, <1>3, <1>4
<1>7. IsEvidence(f)
  BY <1>4, <1>6, EvidenceOf
<1>8. SamePages(f, seq)
  BY <1>4, <1>6 DEF SamePages
<1>9. ASSUME f # seq PROVE Usable(f)
  <2>1. seq = [i \in DOMAIN seq |-> seq[i]]
    BY DEF IsEvidence
  <2>2. \E i \in DOMAIN seq : f[i] # seq[i]
    BY <1>4, <1>9, <2>1
  <2>3. PICK i \in DOMAIN seq : lacks(seq[i]) /\ f[i] = q(seq[i])
    BY <1>4, <2>2
  <2>4. UsablePage(f[i])
    BY <1>2, <1>3, <1>5, <2>3 DEF UsablePage
  <2>5. QED
    BY <1>4, <2>4 DEF Usable
<1>10. QED
  BY <1>1, <1>7, <1>8, <1>9

LEMMA IdentifiedFacts ==
    ASSUME NEW seq, IsEvidence(seq), Answered(seq)
    PROVE  IsEvidence(Identified(seq)) /\ SamePages(Identified(seq), seq) /\ Usable(Identified(seq))
<1> DEFINE S == {i \in DOMAIN seq : seq[i].status = 200}
           k == Min(S)
           p == seq[k]
           q == [p EXCEPT !.text = "identity"]
           f == [seq EXCEPT ![k] = q]
<1>1. DOMAIN seq = 1 .. Len(seq) /\ Len(seq) \in Nat /\ \A i \in DOMAIN seq : IsPage(seq[i])
  BY LenProperties DEF IsEvidence
<1>2. S \in SUBSET Nat /\ S # {}
  BY <1>1 DEF Answered
<1>3. k \in DOMAIN seq /\ p.status = 200
  <2>1. k \in S
    <3> HIDE DEF S
    <3> QED BY <1>2, MinOf
  <2>2. QED
    BY <2>1
<1>4. Identified(seq) = f
  BY Zenon DEF Identified
<1> HIDE DEF S, k
<1>5. /\ IsPage(q) /\ q.url = p.url /\ q.aliases = p.aliases /\ q.root = p.root /\ q.run = p.run
      /\ q.status = p.status /\ HasText(q)
  BY <1>1, <1>3, RetextedFacts, MetaFacts
<1> HIDE DEF q
<1>6. DOMAIN f = DOMAIN seq /\ f = [i \in DOMAIN f |-> f[i]]
      /\ \A i \in DOMAIN seq : f[i] = IF i = k THEN q ELSE seq[i]
  BY <1>3
<1> HIDE DEF f
<1>7. \A i \in DOMAIN seq : /\ IsPage(f[i]) /\ f[i].url = seq[i].url /\ f[i].aliases = seq[i].aliases
                            /\ f[i].root = seq[i].root /\ f[i].run = seq[i].run
  BY <1>1, <1>5, <1>6
<1>8. IsEvidence(f)
  BY <1>6, <1>7, EvidenceOf
<1>9. SamePages(f, seq)
  BY <1>6, <1>7 DEF SamePages
<1>10. Usable(f)
  <2>1. f[k] = q /\ k \in DOMAIN f
    BY <1>3, <1>6
  <2>2. UsablePage(f[k])
    BY <1>3, <1>5, <2>1 DEF UsablePage
  <2>3. QED
    BY <2>1, <2>2 DEF Usable
<1>11. QED
  BY <1>4, <1>8, <1>9, <1>10

LEMMA FoldedSiteFacts ==
    ASSUME NEW seq, IsEvidence(seq), NEW about, IsSite(about)
    PROVE  LET x == FoldedSite(seq, about)
           IN  /\ IsSite(x) /\ (about = NoSite <=> x = NoSite)
               /\ about # NoSite => x.root = about.root /\ x.urls = about.urls
<1> DEFINE folded == Deduplicated(seq)
           ok == {i \in DOMAIN folded : folded[i].status = 200}
           x == [about EXCEPT !.crawled = Len(folded), !.ok = Cardinality(ok)]
<1>1. IsEvidence(folded)
  BY DeduplicatedFacts
<1>2. FoldedSite(seq, about) = IF seq = << >> \/ about = NoSite THEN about ELSE x
  BY Zenon DEF FoldedSite
<1> HIDE DEF folded
<1>3. Len(folded) \in Nat /\ Cardinality(ok) \in Nat /\ Cardinality(ok) <= Len(folded)
  <2> DEFINE m == Len(folded)
  <2>1. m \in Nat /\ DOMAIN folded = 1 .. m
    BY <1>1, LenProperties DEF IsEvidence
  <2>2. IsFiniteSet(1 .. m) /\ Cardinality(1 .. m) = m
    <3> HIDE DEF m
    <3> QED BY <2>1, FS_Interval
  <2>3. ok \in SUBSET (1 .. m)
    BY <2>1
  <2> HIDE DEF ok
  <2>4. IsFiniteSet(ok) /\ Cardinality(ok) <= Cardinality(1 .. m)
    BY <2>2, <2>3, FS_Subset
  <2>5. QED
    BY <2>1, <2>2, <2>4, FS_CardinalityType
<1> DEFINE a == Len(folded)
           b == Cardinality(ok)
<1>4. a \in Nat /\ b \in Nat /\ b <= a /\ x = [about EXCEPT !.crawled = a, !.ok = b]
  BY <1>3
<1> HIDE DEF ok, a, b, x
<1>5. ASSUME about # NoSite PROVE IsSite(x) /\ x # NoSite /\ x.root = about.root /\ x.urls = about.urls
  <2>1. DOMAIN about = SiteFields /\ about.root \in {1, 2} /\ about.urls \subseteq URLs
    BY <1>5 DEF IsSite
  <2>2. DOMAIN x = SiteFields /\ x.root = about.root /\ x.urls = about.urls /\ x.crawled = a /\ x.ok = b
    BY <1>4, <2>1 DEF SiteFields
  <2>3. x # NoSite
    BY <2>1, <2>2 DEF NoSite
  <2>4. QED
    BY <1>4, <2>1, <2>2, <2>3 DEF IsSite
<1>6. QED
  BY <1>2, <1>5

\* The folding keeps the two files together.
LEMMA FoldHolds ==
    ASSUME NEW seq, IsEvidence(seq), NEW about, IsSite(about), NEW n
    PROVE  /\ IsEvidence(Deduplicated(seq)) /\ IsSite(FoldedSite(seq, about))
           /\ FetchedBy(seq, n) => FetchedBy(Deduplicated(seq), n)
           /\ Match(seq, about) => Match(Deduplicated(seq), FoldedSite(seq, about))
<1> DEFINE D == Deduplicated(seq)
           x == FoldedSite(seq, about)
<1>1. /\ IsEvidence(D) /\ AllUrls(D) = AllUrls(seq)
      /\ \A i \in DOMAIN D : \E j \in DOMAIN seq : D[i].root = seq[j].root /\ D[i].run = seq[j].run
  BY DeduplicatedFacts
<1>2. /\ IsSite(x) /\ (about = NoSite <=> x = NoSite)
      /\ about # NoSite => x.root = about.root /\ x.urls = about.urls
  BY FoldedSiteFacts
<1> HIDE DEF D, x
<1>3. FetchedBy(seq, n) => FetchedBy(D, n)
  BY <1>1 DEF FetchedBy
<1>4. ASSUME seq = << >> PROVE D = << >>
  <2>1. AllUrls(seq) = {}
    BY <1>4 DEF AllUrls
  <2>2. \A i \in DOMAIN D : D[i].url \in AllUrls(D)
    BY DEF AllUrls, UrlsOf
  <2>3. DOMAIN D = {}
    BY <1>1, <2>1, <2>2
  <2>4. DOMAIN D = 1 .. Len(D) /\ Len(D) \in Nat /\ D \in Seq(Range(D))
    BY <1>1, LenProperties DEF IsEvidence
  <2>5. Len(D) = 0
    BY <2>3, <2>4
  <2>6. QED
    BY <2>4, <2>5, EmptySeq
<1>5. Match(seq, about) => Match(D, x)
  BY <1>1, <1>2, <1>4 DEF Match
<1>6. QED
  BY <1>1, <1>2, <1>3, <1>5 DEF D, x

LEMMA AuditedFacts ==
    ASSUME NEW seq, IsEvidence(seq)
    PROVE  AreRows(Audited(seq))
<1> DEFINE f == [i \in DOMAIN seq |-> ScorePage(seq[i])]
           R == {ScorePage(seq[i]) : i \in DOMAIN seq}
<1>1. DOMAIN seq = 1 .. Len(seq) /\ Len(seq) \in Nat /\ \A i \in DOMAIN seq : IsPage(seq[i])
  BY LenProperties DEF IsEvidence
<1>2. Audited(seq) = R
  BY Zenon DEF Audited
<1>3. f \in Surjection(DOMAIN seq, R)
  BY DEF Surjection
<1>4. IsFiniteSet(DOMAIN seq)
  BY <1>1, FS_Interval
<1>5. IsFiniteSet(R)
  <2> HIDE DEF f, R
  <2> QED BY <1>3, <1>4, FS_Surjection
<1>6. \A r \in R : IsPage(r.seen) /\ r = ScorePage(r.seen)
  BY <1>1, RowFacts
<1> HIDE DEF R
<1>7. QED
  BY <1>2, <1>5, <1>6 DEF AreRows

-----------------------------------------------------------------------------
(* Every step keeps the invariant                                          *)

LEMMA NoRunIsIdle == RunHolds => (Stands("idle") <=> run = NoRun)
  BY DEF RunHolds, RunStates, Stands, NoRun

\* What is known of a crawl in progress.
LEMMA RunFacts ==
    ASSUME CrawlsInv, run # NoRun
    PROVE  /\ DOMAIN run = RunFields /\ run.pc \in RunStates
           /\ run.autopilot \in BOOLEAN /\ run.copied \in BOOLEAN /\ run.had \in BOOLEAN
           /\ serial \in Nat \ {0} /\ CopyHolds /\ FilesHold
           /\ run.pc # "fetch" => FetchHolds
  BY DEF CrawlsInv, CrawlsBasics, RunHolds

LEMMA UsableIsSome == ASSUME NEW seq, Usable(seq) PROVE seq # << >>
  BY DEF Usable

LEMMA CrawlBeginsHolds ==
    ASSUME CrawlsInv, NEW autopilot \in BOOLEAN, CrawlBegins(autopilot)
    PROVE  CrawlsInv'
<1>0. run = NoRun /\ IsEvidence(ev) /\ IsSite(sj) /\ FetchedBy(ev, serial) /\ serial \in Nat
  BY NoRunIsIdle DEF CrawlsInv, CrawlBegins, EvidenceHolds, CrawlsBasics
<1> DEFINE copied == autopilot /\ SameSite /\ (ev # << >> \/ sj # NoSite)
           had == autopilot /\ SameSite /\ Usable(ev)
<1>1. /\ run' = [pc |-> "fetch", autopilot |-> autopilot, copied |-> copied,
                 pages |-> ev, site |-> sj, had |-> had, fetched |-> << >>]
      /\ serial' = serial + 1 /\ may' = [may EXCEPT !["crawl"] = @ - 1] /\ may["crawl"] > 0
      /\ web' = web /\ domain' = domain /\ ev' = ev /\ sj' = sj /\ rows' = rows /\ hurt' = hurt
  BY Zenon DEF CrawlBegins, Can, Once
<1>2. copied \in BOOLEAN /\ had \in BOOLEAN
  OBVIOUS
<1>3. had => autopilot /\ copied /\ Usable(ev) /\ (sj = NoSite \/ sj.root = domain)
  BY UsableIsSome DEF SameSite
<1> HIDE DEF copied, had
<1>4. FetchedBy(ev, serial + 1)
  BY <1>0 DEF FetchedBy, IsEvidence, IsPage
<1>5. CrawlsBasics'
  BY <1>0, <1>1 DEF CrawlsInv, CrawlsBasics, CrawlEvent
<1>6. EvidenceHolds'
  BY <1>0, <1>1, <1>4 DEF EvidenceHolds
<1>7. /\ DOMAIN run' = RunFields /\ run'.pc = "fetch" /\ run'.autopilot = autopilot /\ run'.copied = copied
      /\ run'.pages = ev /\ run'.site = sj /\ run'.had = had
  BY <1>1 DEF RunFields
<1>8. run' # NoRun
  BY <1>7 DEF NoRun
<1>9. CopyHolds'
  BY <1>0, <1>1, <1>3, <1>4, <1>7 DEF CopyHolds, CrawlsInv, FilesMatch
<1>10. FilesHold'
  BY <1>1, <1>7 DEF FilesHold
<1>11. RunHolds'
  BY <1>0, <1>1, <1>2, <1>7, <1>9, <1>10 DEF RunHolds, RunStates
<1>12. AreRows(rows)' /\ FilesMatch'
  BY <1>1, <1>8 DEF CrawlsInv, FilesMatch
<1>13. QED
  BY <1>5, <1>6, <1>11, <1>12 DEF CrawlsInv

\* A step that leaves the sites, the counters and the rows alone.
Beside == UNCHANGED <<web, domain, rows, serial, hurt>>

LEMMA BesideFacts ==
    ASSUME CrawlsInv, Beside, may' \in [CrawlEvent -> Nat]
    PROVE  CrawlsBasics' /\ AreRows(rows)'
  BY DEF CrawlsInv, CrawlsBasics, Beside

LEMMA OnceFacts ==
    ASSUME may \in [CrawlEvent -> Nat], NEW e \in CrawlEvent, Can(e), Once(e)
    PROVE  may' \in [CrawlEvent -> Nat] /\ may'[e] # may[e]
  BY DEF Can, Once

LEMMA MayFacts == CrawlsInv => may \in [CrawlEvent -> Nat]
  BY DEF CrawlsInv, CrawlsBasics

\* A crawl that ends with evidence on disk that holds.
LEMMA EndsHolds ==
    ASSUME CrawlsInv, Beside, may' \in [CrawlEvent -> Nat], run' = NoRun,
           IsEvidence(ev'), IsSite(sj'), FetchedBy(ev', serial), ~hurt => Match(ev', sj')
    PROVE  CrawlsInv'
<1>1. CrawlsBasics' /\ AreRows(rows)'
  BY BesideFacts
<1>2. EvidenceHolds' /\ FilesMatch' /\ RunHolds'
  BY DEF EvidenceHolds, FilesMatch, RunHolds, Beside
<1>3. QED
  BY <1>1, <1>2 DEF CrawlsInv

\* What stands on disk once the copy is put back, or is left, before the fetched
\* pages are written and after.
LEMMA PutBackFacts ==
    ASSUME CrawlsInv, run # NoRun, run.pc \in {"fetch", "signals"}, PutBack
    PROVE  /\ IsEvidence(ev') /\ IsSite(sj') /\ FetchedBy(ev', serial)
           /\ ~hurt => Match(ev', sj')
           /\ run.had => Usable(ev')
<1>1. CopyHolds /\ FilesHold /\ (run.pc # "fetch" => FetchHolds) /\ EvidenceHolds
  BY RunFacts DEF CrawlsInv
<1>2. CASE run.copied
  BY <1>1, <1>2 DEF PutBack, CopyHolds
<1>3. CASE ~run.copied
  <2>1. ev' = ev /\ sj' = sj /\ ~run.had
    BY <1>1, <1>3 DEF PutBack, LeaveIt, CopyHolds
  <2>2. CASE run.pc = "fetch"
    BY <1>1, <2>1, <2>2 DEF FilesHold, CopyHolds, EvidenceHolds
  <2>3. CASE run.pc = "signals"
    BY <1>1, <2>1, <2>3 DEF FilesHold, EvidenceHolds
  <2>4. QED
    BY <2>2, <2>3
<1>4. QED
  BY <1>2, <1>3

LEMMA FetchesHolds ==
    ASSUME CrawlsInv, Fetches
    PROVE  CrawlsInv'
<1>0. run # NoRun /\ run.pc = "fetch" /\ Beside /\ may' = may
  BY DEF Fetches, Stands, NoRun, Beside
<1>0a. /\ DOMAIN run = RunFields
       /\ run.autopilot \in BOOLEAN /\ run.copied \in BOOLEAN /\ run.had \in BOOLEAN
       /\ serial \in Nat \ {0} /\ CopyHolds /\ FilesHold
  BY <1>0, RunFacts
<1>1. CASE ~Healthy(Crawled) /\ PutBack /\ run' = NoRun
  BY <1>0, <1>1, PutBackFacts, EndsHolds, MayFacts
<1>2. CASE /\ Healthy(Crawled) /\ run' = [run EXCEPT !.pc = "site", !.fetched = Crawled]
           /\ UNCHANGED <<ev, sj>>
  <2> DEFINE got == Crawled
  <2>1. IsEvidence(got) /\ \A i \in DOMAIN got : IsFetched(got[i], serial, domain)
    <3>1. web \in Webs /\ domain \in {1, 2}
      BY DEF CrawlsInv, CrawlsBasics
    <3>2. QED
      BY <1>0a, <3>1, CrawledFacts
  <2>2. Answered(got)
    <3> DEFINE S == {i \in DOMAIN got : got[i].status = 200}
    <3>1. Cardinality(S) > 0
      BY <1>2 DEF Healthy
    <3>2. S # {}
      BY <3>1, FS_EmptySet
    <3>3. QED
      BY <3>2 DEF Answered
  <2> DEFINE new == [run EXCEPT !.pc = "site", !.fetched = got]
  <2>3. run' = new /\ ev' = ev /\ sj' = sj
    BY <1>2
  <2> HIDE DEF got
  <2>4. /\ DOMAIN new = RunFields /\ new.pc = "site" /\ new.fetched = got
        /\ new.autopilot = run.autopilot /\ new.copied = run.copied /\ new.had = run.had
        /\ new.pages = run.pages /\ new.site = run.site
    BY <1>0a DEF RunFields
  <2> HIDE DEF new
  <2>5. CopyHolds'
    BY <1>0, <1>0a, <2>3, <2>4 DEF CopyHolds, Beside
  <2>6. FetchHolds'
    BY <1>0, <1>0a, <2>1, <2>2, <2>3, <2>4 DEF FetchHolds, Beside, FetchedBy, IsFetched
  <2>7. FilesHold'
    BY <1>0, <1>0a, <2>3, <2>4 DEF FilesHold, Beside
  <2>8. RunHolds'
    BY <1>0, <1>0a, <2>3, <2>4, <2>5, <2>6, <2>7 DEF RunHolds, RunStates, Beside
  <2>9. run' # NoRun
    BY <2>3, <2>4 DEF NoRun
  <2>10. EvidenceHolds' /\ FilesMatch'
    BY <1>0, <2>3, <2>9 DEF CrawlsInv, EvidenceHolds, FilesMatch, Beside
  <2>11. CrawlsBasics' /\ AreRows(rows)'
    BY <1>0, BesideFacts, MayFacts
  <2>12. QED
    BY <2>8, <2>10, <2>11 DEF CrawlsInv
<1>3. QED
  BY <1>1, <1>2, Zenon DEF Fetches

\* A crawl that goes on.
LEMMA GoFacts ==
    ASSUME CrawlsInv, run # NoRun, NEW pc \in RunStates \ {"fetch"}, run.pc # "fetch", Go(pc), Beside, may' = may,
           IsSite(sj'), IsEvidence(ev'), FetchedBy(ev', serial), FilesHold'
    PROVE  CrawlsInv'
<1>0. /\ DOMAIN run = RunFields
      /\ run.autopilot \in BOOLEAN /\ run.copied \in BOOLEAN /\ run.had \in BOOLEAN
      /\ serial \in Nat \ {0} /\ CopyHolds /\ FetchHolds
  BY RunFacts
<1>1. /\ DOMAIN run' = RunFields /\ run'.pc = pc /\ run'.fetched = run.fetched
      /\ run'.autopilot = run.autopilot /\ run'.copied = run.copied /\ run'.had = run.had
      /\ run'.pages = run.pages /\ run'.site = run.site
  BY <1>0 DEF RunFields, Go
<1>2. CopyHolds' /\ FetchHolds'
  BY <1>0, <1>1 DEF CopyHolds, FetchHolds, Beside
<1>3. RunHolds'
  BY <1>0, <1>1, <1>2 DEF RunHolds, Beside
<1>4. run' # NoRun
  BY <1>1 DEF NoRun, RunStates
<1>5. EvidenceHolds' /\ FilesMatch'
  BY <1>4 DEF EvidenceHolds, FilesMatch, Beside
<1>6. CrawlsBasics' /\ AreRows(rows)'
  BY BesideFacts, MayFacts
<1>7. QED
  BY <1>3, <1>5, <1>6 DEF CrawlsInv

LEMMA WritesSiteHolds ==
    ASSUME CrawlsInv, WritesSite
    PROVE  CrawlsInv'
<1>0. /\ run # NoRun /\ run.pc = "site" /\ Beside /\ may' = may /\ ev' = ev /\ Go("pages")
  BY DEF WritesSite, Stands, NoRun, Beside
<1>1. FetchHolds /\ EvidenceHolds /\ domain \in {1, 2} /\ DOMAIN run = RunFields
  BY <1>0, RunFacts DEF CrawlsInv, CrawlsBasics
<1> DEFINE got == run.fetched
           urls == {got[i].url : i \in DOMAIN got}
           ok == {i \in DOMAIN got : got[i].status = 200}
<1>2. sj' = [root |-> domain, run |-> serial, urls |-> urls, crawled |-> Len(got), ok |-> Cardinality(ok),
             map |-> ListedUrls # {}, llms |-> web.llms # "none"]
  BY Zenon DEF WritesSite
<1>3. /\ IsEvidence(got) /\ \A i \in DOMAIN got : got[i].root = domain /\ got[i].aliases = {}
  BY <1>1 DEF FetchHolds
<1> HIDE DEF got
<1>4. urls = AllUrls(got)
  <2>1. \A i \in DOMAIN got : UrlsOf(got[i]) = {got[i].url}
    BY <1>3 DEF UrlsOf
  <2>2. QED
    BY <2>1 DEF AllUrls
<1>5. urls \subseteq URLs
  BY <1>3 DEF IsEvidence, IsPage
<1>6. Len(got) \in Nat /\ Cardinality(ok) \in Nat /\ Cardinality(ok) <= Len(got)
  <2> DEFINE m == Len(got)
  <2>1. m \in Nat /\ DOMAIN got = 1 .. m
    BY <1>3, LenProperties DEF IsEvidence
  <2>2. IsFiniteSet(1 .. m) /\ Cardinality(1 .. m) = m
    <3> HIDE DEF m
    <3> QED BY <2>1, FS_Interval
  <2>3. ok \in SUBSET (1 .. m)
    BY <2>1
  <2> HIDE DEF ok
  <2>4. IsFiniteSet(ok) /\ Cardinality(ok) <= Cardinality(1 .. m)
    BY <2>2, <2>3, FS_Subset
  <2>5. QED
    BY <2>1, <2>2, <2>4, FS_CardinalityType
<1> DEFINE a == Len(got)
           b == Cardinality(ok)
<1>7. a \in Nat /\ b \in Nat /\ b <= a
  BY <1>6
<1> HIDE DEF urls, ok
<1>8. /\ DOMAIN sj' = SiteFields /\ sj'.root = domain /\ sj'.urls = urls /\ sj'.crawled = a /\ sj'.ok = b
  BY <1>2 DEF SiteFields
<1> HIDE DEF a, b
<1>9. IsSite(sj') /\ sj' # NoSite
  BY <1>1, <1>5, <1>7, <1>8 DEF IsSite, NoSite
<1>10. Match(got, sj')
  BY <1>3, <1>4, <1>8, <1>9 DEF Match
<1>11. run'.pc = "pages" /\ run'.fetched = got
  BY <1>0, <1>1 DEF Go, RunFields, got
<1>12. FilesHold'
  BY <1>0, <1>8, <1>9, <1>10, <1>11 DEF FilesHold, Beside
<1>13. QED
  <2>1. "pages" \in RunStates \ {"fetch"}
    BY DEF RunStates
  <2>2. QED
    BY <1>0, <1>1, <1>9, <1>12, <2>1, GoFacts DEF EvidenceHolds

LEMMA WritesPagesHolds ==
    ASSUME CrawlsInv, WritesPages
    PROVE  CrawlsInv'
<1>0. /\ run # NoRun /\ run.pc = "pages" /\ Beside /\ may' = may /\ sj' = sj /\ ev' = run.fetched
      /\ Go("signals")
  BY DEF WritesPages, Stands, NoRun, Beside
<1>1. FetchHolds /\ FilesHold /\ EvidenceHolds /\ DOMAIN run = RunFields
  BY <1>0, RunFacts DEF CrawlsInv
<1>2. run'.pc = "signals" /\ run'.fetched = run.fetched
  BY <1>0, <1>1 DEF Go, RunFields
<1>3. FilesHold'
  BY <1>0, <1>1, <1>2 DEF FilesHold, Beside
<1>4. QED
  <2>1. "signals" \in RunStates \ {"fetch"}
    BY DEF RunStates
  <2>2. QED
    BY <1>0, <1>1, <1>3, <2>1, GoFacts DEF EvidenceHolds, FetchHolds

LEMMA ChecksSignalsHolds ==
    ASSUME CrawlsInv, ChecksSignals
    PROVE  CrawlsInv'
<1>0. /\ run # NoRun /\ run.pc = "signals" /\ Beside /\ may' = may /\ ev' = ev
      /\ sj' = [sj EXCEPT !.map = ValidSitemap, !.llms = ValidLlms] /\ Go("recover")
  BY DEF ChecksSignals, Stands, NoRun, Beside
<1>1. FilesHold /\ EvidenceHolds /\ DOMAIN run = RunFields
  BY <1>0, RunFacts DEF CrawlsInv
<1>2. sj # NoSite /\ sj.root = domain /\ Match(run.fetched, sj) /\ ev = run.fetched
  BY <1>0, <1>1 DEF FilesHold
<1>3. DOMAIN sj = SiteFields /\ IsSite(sj)
  BY <1>1, <1>2 DEF EvidenceHolds, IsSite
<1> DEFINE new == [sj EXCEPT !.map = ValidSitemap, !.llms = ValidLlms]
<1>4. /\ DOMAIN new = SiteFields /\ new.root = sj.root /\ new.urls = sj.urls
      /\ new.crawled = sj.crawled /\ new.ok = sj.ok
  BY <1>3 DEF SiteFields
<1>5. sj' = new
  BY <1>0
<1> HIDE DEF new
<1>6. IsSite(new) /\ new # NoSite
  BY <1>2, <1>3, <1>4 DEF IsSite, NoSite
<1>7. Match(run.fetched, new)
  BY <1>2, <1>4, <1>6 DEF Match
<1>8. run'.pc = "recover" /\ run'.fetched = run.fetched
  BY <1>0, <1>1 DEF Go, RunFields
<1>9. FilesHold'
  BY <1>0, <1>2, <1>4, <1>5, <1>6, <1>7, <1>8 DEF FilesHold, Beside
<1>10. QED
  <2>1. "recover" \in RunStates \ {"fetch"}
    BY DEF RunStates
  <2>2. QED
    BY <1>0, <1>1, <1>5, <1>6, <1>9, <2>1, GoFacts DEF EvidenceHolds

LEMMA SignalsFailHolds ==
    ASSUME CrawlsInv, SignalsFail
    PROVE  CrawlsInv'
<1>1. run # NoRun /\ run.pc = "signals" /\ Beside /\ run' = NoRun /\ PutBack
  BY DEF SignalsFail, Stands, NoRun, Beside
<1>2. may' \in [CrawlEvent -> Nat]
  BY MayFacts, OnceFacts DEF SignalsFail, CrawlEvent
<1>3. QED
  BY <1>1, <1>2, PutBackFacts, EndsHolds

\* What a crawl that comes to its end leaves: evidence folded, of the configured
\* site, with text where there was text before.
LEMMA SettlesFacts ==
    ASSUME CrawlsInv, Settles
    PROVE  \E seq, about :
              /\ ev' = Deduplicated(seq) /\ sj' = FoldedSite(seq, about)
              /\ IsEvidence(seq) /\ IsSite(about) /\ FetchedBy(seq, serial)
              /\ ~hurt => Match(seq, about) /\ about # NoSite /\ about.root = domain
              /\ run.had => Usable(seq)
<1>0. run # NoRun /\ run.pc = "recover"
  BY DEF Settles, Stands, NoRun
<1>1. CopyHolds /\ FilesHold /\ FetchHolds /\ EvidenceHolds
  BY <1>0, RunFacts DEF CrawlsInv
<1>2. sj # NoSite /\ sj.root = domain /\ Match(ev, sj) /\ Answered(ev)
  BY <1>0, <1>1 DEF FilesHold, FetchHolds
<1>3. IsEvidence(ev) /\ IsSite(sj) /\ FetchedBy(ev, serial)
  BY <1>1 DEF EvidenceHolds
<1>4. IF ~run.autopilot \/ Usable(ev) THEN Fold(ev, sj)
      ELSE IF Recovered(ev) # ev THEN Fold(Recovered(ev), sj)
      ELSE IF run.had THEN Fold(run.pages, run.site)
      ELSE Fold(Identified(ev), sj)
  BY DEF Settles
<1>5. CASE ~run.autopilot \/ Usable(ev)
  <2>1. run.had => Usable(ev)
    BY <1>1, <1>5 DEF CopyHolds
  <2>2. QED
    BY <1>2, <1>3, <1>4, <1>5, <2>1 DEF Fold
<1>6. CASE ~(~run.autopilot \/ Usable(ev)) /\ Recovered(ev) # ev
  <2> DEFINE seq == Recovered(ev)
  <2>1. IsEvidence(seq) /\ SamePages(seq, ev) /\ Usable(seq)
    BY <1>3, <1>6, RecoveredFacts
  <2>2. Fold(seq, sj)
    BY <1>4, <1>6
  <2> HIDE DEF seq
  <2>3. FetchedBy(seq, serial) /\ Match(seq, sj)
    BY <1>2, <1>3, <2>1, SamePagesFacts
  <2>4. QED
    BY <1>2, <1>3, <2>1, <2>2, <2>3 DEF Fold
<1>7. CASE ~(~run.autopilot \/ Usable(ev)) /\ ~(Recovered(ev) # ev) /\ run.had
  <2>1. Fold(run.pages, run.site)
    BY <1>4, <1>7
  <2>2. IsEvidence(run.pages) /\ IsSite(run.site) /\ FetchedBy(run.pages, serial) /\ Usable(run.pages)
        /\ (~hurt => Match(run.pages, run.site)) /\ (run.site = NoSite \/ run.site.root = domain)
    BY <1>1, <1>7 DEF CopyHolds
  <2>3. run.pages # << >>
    BY <2>2, UsableIsSome
  <2>4. ~hurt => run.site # NoSite
    BY <2>2, <2>3 DEF Match
  <2>5. QED
    BY <2>1, <2>2, <2>4 DEF Fold
<1>8. CASE ~(~run.autopilot \/ Usable(ev)) /\ ~(Recovered(ev) # ev) /\ ~run.had
  <2> DEFINE seq == Identified(ev)
  <2>1. IsEvidence(seq) /\ SamePages(seq, ev) /\ Usable(seq)
    BY <1>2, <1>3, IdentifiedFacts
  <2>2. Fold(seq, sj)
    BY <1>4, <1>8
  <2> HIDE DEF seq
  <2>3. FetchedBy(seq, serial) /\ Match(seq, sj)
    BY <1>2, <1>3, <2>1, SamePagesFacts
  <2>4. QED
    BY <1>2, <1>3, <2>1, <2>2, <2>3 DEF Fold
<1>9. QED
  BY <1>5, <1>6, <1>7, <1>8

LEMMA SettlesHolds ==
    ASSUME CrawlsInv, Settles
    PROVE  CrawlsInv'
<1>1. run # NoRun /\ run' = NoRun /\ Beside /\ may' = may
  BY DEF Settles, Stands, NoRun, Beside
<1>2. PICK seq, about :
              /\ ev' = Deduplicated(seq) /\ sj' = FoldedSite(seq, about)
              /\ IsEvidence(seq) /\ IsSite(about) /\ FetchedBy(seq, serial)
              /\ ~hurt => Match(seq, about) /\ about # NoSite /\ about.root = domain
              /\ run.had => Usable(seq)
  BY SettlesFacts, Zenon
<1>3. /\ IsEvidence(ev') /\ IsSite(sj') /\ FetchedBy(ev', serial)
      /\ ~hurt => Match(ev', sj')
  BY <1>2, FoldHolds
<1>4. QED
  BY <1>1, <1>3, EndsHolds, MayFacts

LEMMA CrawlDiesHolds ==
    ASSUME CrawlsInv, CrawlDies
    PROVE  CrawlsInv'
<1>1. /\ run # NoRun /\ run' = NoRun /\ hurt' = TRUE
      /\ UNCHANGED <<web, domain, ev, sj, rows, serial>>
  BY DEF CrawlDies
<1>2. may' \in [CrawlEvent -> Nat]
  BY MayFacts, OnceFacts DEF CrawlDies, CrawlEvent
<1>3. CrawlsBasics' /\ EvidenceHolds' /\ AreRows(rows)'
  BY <1>1, <1>2 DEF CrawlsInv, CrawlsBasics, EvidenceHolds
<1>4. FilesMatch' /\ RunHolds'
  BY <1>1 DEF FilesMatch, RunHolds
<1>5. QED
  BY <1>3, <1>4 DEF CrawlsInv

\* The folding, while no crawl is on.
LEMMA IdleFoldHolds ==
    ASSUME CrawlsInv, run = NoRun, Fold(ev, sj), UNCHANGED <<web, domain, run, serial, hurt>>,
           may' \in [CrawlEvent -> Nat], AreRows(rows')
    PROVE  CrawlsInv'
<1>1. IsEvidence(ev) /\ IsSite(sj) /\ FetchedBy(ev, serial) /\ (~hurt => Match(ev, sj))
  BY DEF CrawlsInv, EvidenceHolds, FilesMatch
<1>2. /\ IsEvidence(ev') /\ IsSite(sj') /\ FetchedBy(ev', serial)
      /\ ~hurt => Match(ev', sj')
  BY <1>1, FoldHolds DEF Fold
<1>3. CrawlsBasics'
  BY DEF CrawlsInv, CrawlsBasics
<1>4. EvidenceHolds' /\ FilesMatch' /\ RunHolds'
  BY <1>2 DEF EvidenceHolds, FilesMatch, RunHolds
<1>5. QED
  BY <1>3, <1>4 DEF CrawlsInv

LEMMA AuditsHolds ==
    ASSUME CrawlsInv, Audits
    PROVE  CrawlsInv'
<1>1. run = NoRun /\ Fold(ev, sj) /\ rows' = Audited(Deduplicated(ev))
      /\ UNCHANGED <<web, domain, run, serial, hurt>>
  BY NoRunIsIdle DEF Audits, CrawlsInv
<1>2. may' \in [CrawlEvent -> Nat]
  BY MayFacts, OnceFacts DEF Audits, CrawlEvent
<1>3. IsEvidence(Deduplicated(ev))
  BY DeduplicatedFacts DEF CrawlsInv, EvidenceHolds
<1>4. AreRows(rows')
  BY <1>1, <1>3, AuditedFacts
<1>5. QED
  BY <1>1, <1>2, <1>4, IdleFoldHolds

LEMMA NormalizesHolds ==
    ASSUME CrawlsInv, Normalizes
    PROVE  CrawlsInv'
<1>1. run = NoRun /\ Fold(ev, sj) /\ UNCHANGED <<web, domain, run, serial, hurt>>
  BY NoRunIsIdle DEF Normalizes, CrawlsInv
<1>2. may' \in [CrawlEvent -> Nat]
  BY MayFacts, OnceFacts DEF Normalizes, CrawlEvent
<1>3. rows' \in {Audited(Deduplicated(ev)), rows}
  BY Zenon DEF Normalizes
<1>4. IsEvidence(Deduplicated(ev)) /\ AreRows(rows)
  BY DeduplicatedFacts DEF CrawlsInv, EvidenceHolds
<1>5. AreRows(rows')
  BY <1>3, <1>4, AuditedFacts
<1>6. QED
  BY <1>1, <1>2, <1>5, IdleFoldHolds

LEMMA WebChangesHolds ==
    ASSUME CrawlsInv, NEW w \in Webs, WebChanges(w)
    PROVE  CrawlsInv'
<1>1. web' = w /\ UNCHANGED <<domain, ev, sj, rows, run, serial, hurt>>
  BY DEF WebChanges
<1>2. may' \in [CrawlEvent -> Nat]
  BY MayFacts, OnceFacts DEF WebChanges, CrawlEvent
<1>3. CrawlsBasics' /\ EvidenceHolds' /\ AreRows(rows)' /\ FilesMatch'
  BY <1>1, <1>2 DEF CrawlsInv, CrawlsBasics, EvidenceHolds, FilesMatch
<1>4. RunHolds'
  BY <1>1 DEF CrawlsInv, RunHolds, CopyHolds, FilesHold, FetchHolds
<1>5. QED
  BY <1>3, <1>4 DEF CrawlsInv

LEMMA NothingIsEvidence == IsEvidence(<< >>) /\ \A n : FetchedBy(<< >>, n)
  BY DEF IsEvidence, FetchedBy, Range

LEMMA MovesDomainHolds ==
    ASSUME CrawlsInv, NEW whole \in BOOLEAN, MovesDomain(whole)
    PROVE  CrawlsInv'
<1>1. run = NoRun /\ domain' = 3 - domain /\ UNCHANGED <<web, rows, run, serial, hurt>>
  BY NoRunIsIdle DEF MovesDomain, CrawlsInv
<1>2. may' \in [CrawlEvent -> Nat]
  BY MayFacts, OnceFacts DEF MovesDomain, CrawlEvent
<1>3. CrawlsBasics' /\ AreRows(rows)'
  BY <1>1, <1>2 DEF CrawlsInv, CrawlsBasics
<1>4. (ev' = << >> /\ sj' = NoSite) \/ (ev' = ev /\ sj' = sj)
  BY DEF MovesDomain
<1>5. EvidenceHolds' /\ FilesMatch'
  BY <1>1, <1>4, NothingIsEvidence DEF CrawlsInv, EvidenceHolds, FilesMatch, IsSite, Match
<1>6. RunHolds'
  BY <1>1 DEF RunHolds
<1>7. QED
  BY <1>3, <1>5, <1>6 DEF CrawlsInv

LEMMA CrawlsInitHolds == CrawlsInit => CrawlsInv
<1> SUFFICES ASSUME CrawlsInit PROVE CrawlsInv
  OBVIOUS
<1>1. CrawlsBasics
  BY WebsAssumption DEF CrawlsInit, CrawlsBasics, WebsAssumption
<1>2. AreRows(rows)
  BY FS_EmptySet DEF CrawlsInit, AreRows
<1>3. EvidenceHolds /\ FilesMatch /\ RunHolds
  BY NothingIsEvidence DEF CrawlsInit, EvidenceHolds, FilesMatch, RunHolds, IsSite, Match
<1>4. QED
  BY <1>1, <1>2, <1>3 DEF CrawlsInv

LEMMA CrawlsNextHolds == CrawlsInv /\ [CrawlsNext]_crawlVars => CrawlsInv'
<1> SUFFICES ASSUME CrawlsInv, [CrawlsNext]_crawlVars PROVE CrawlsInv'
  OBVIOUS
<1>1. CASE UNCHANGED crawlVars
  BY <1>1 DEF crawlVars, CrawlsInv, CrawlsBasics, EvidenceHolds, FilesMatch, RunHolds, CopyHolds,
              FilesHold, FetchHolds
<1>2. ASSUME NEW autopilot \in BOOLEAN, CrawlBegins(autopilot) PROVE CrawlsInv'
  BY <1>2, CrawlBeginsHolds
<1>3. CASE Fetches
  BY <1>3, FetchesHolds
<1>4. CASE WritesSite
  BY <1>4, WritesSiteHolds
<1>5. CASE WritesPages
  BY <1>5, WritesPagesHolds
<1>6. CASE ChecksSignals
  BY <1>6, ChecksSignalsHolds
<1>7. CASE SignalsFail
  BY <1>7, SignalsFailHolds
<1>8. CASE Settles
  BY <1>8, SettlesHolds
<1>9. CASE CrawlDies
  BY <1>9, CrawlDiesHolds
<1>10. CASE Audits
  BY <1>10, AuditsHolds
<1>11. CASE Normalizes
  BY <1>11, NormalizesHolds
<1>12. ASSUME NEW w \in Webs, WebChanges(w) PROVE CrawlsInv'
  BY <1>12, WebChangesHolds
<1>13. ASSUME NEW whole \in BOOLEAN, MovesDomain(whole) PROVE CrawlsInv'
  BY <1>13, MovesDomainHolds
<1>14. QED
  BY <1>1, <1>2, <1>3, <1>4, <1>5, <1>6, <1>7, <1>8, <1>9, <1>10, <1>11, <1>12, <1>13, Zenon DEF CrawlsNext

LEMMA CrawlsHold == CrawlsSpec => []CrawlsInv
  BY CrawlsInitHolds, CrawlsNextHolds, PTL DEF CrawlsSpec

\* The types of a crawl's variables (crawl.py, job_runner.py, workspace.py).
LEMMA InvGivesCrawlTypes == CrawlsInv => CrawlsTypeOK
<1> SUFFICES ASSUME CrawlsInv PROVE CrawlsTypeOK
  OBVIOUS
<1>1. web \in Webs /\ domain \in {1, 2} /\ serial \in Nat /\ hurt \in BOOLEAN
  BY DEF CrawlsInv, CrawlsBasics
<1>2. \A i \in DOMAIN ev : /\ ev[i].url \in URLs /\ ev[i].aliases \subseteq URLs
                           /\ ev[i].text \in DOMAIN WordCount /\ ev[i].run \in 1 .. serial
  BY <1>1 DEF CrawlsInv, EvidenceHolds, IsEvidence, IsPage, FetchedBy
<1>3. sj = NoSite \/ (sj.urls \subseteq URLs /\ sj.ok <= sj.crawled)
  BY DEF CrawlsInv, EvidenceHolds, IsSite
<1>4. \A r \in rows : r.url \in URLs /\ r.scored \in BOOLEAN
  <2> SUFFICES ASSUME NEW r \in rows PROVE r.url \in URLs /\ r.scored \in BOOLEAN
    OBVIOUS
  <2>1. IsPage(r.seen) /\ r = ScorePage(r.seen)
    BY DEF CrawlsInv, AreRows
  <2> DEFINE s == r.seen
  <2>2. ScorePage(s).url = s.url /\ ScorePage(s).scored = ~Unscored(s.url)
    BY RowFacts
  <2>3. IsPage(s) /\ r = ScorePage(s)
    BY <2>1
  <2>4. Unscored(s.url) \in BOOLEAN
    BY DEF Unscored
  <2> HIDE DEF s
  <2>5. QED
    BY <2>2, <2>3, <2>4 DEF IsPage
<1>5. run.pc \in {"idle", "fetch", "site", "pages", "signals", "recover"}
  BY DEF CrawlsInv, RunHolds, RunStates, NoRun
<1>6. QED
  BY <1>1, <1>2, <1>3, <1>4, <1>5 DEF CrawlsTypeOK

\* A check is passed on a page only if a crawl showed it, now or when the audit
\* was made; a page of an older audit that the evidence lacks passes nothing, and
\* too many of them leave the site without a score (audit.py, audit_presentation.py).
THEOREM PassesHaveEvidence == CrawlsSpec => []NoPassWithoutEvidence
  BY CrawlsHold, InvGivesEvidence, PTL

LEMMA InvKeepsUrls == CrawlsInv => EveryUrlStays
<1> SUFFICES ASSUME CrawlsInv, run = NoRun, ~hurt, sj # NoSite
             PROVE  sj.urls = UNION {{ev[i].url} \cup ev[i].aliases : i \in DOMAIN ev}
  BY Zenon DEF EveryUrlStays
<1>1. sj.urls = AllUrls(ev)
  BY DEF CrawlsInv, FilesMatch, Match
<1>2. QED
  BY <1>1 DEF AllUrls, UrlsOf

\* What UsableEvidenceSurvives says of a step.
EndsWell ==
    (run # NoRun /\ run' = NoRun /\ hurt' = hurt /\ may'["kill"] = may["kill"]) =>
        /\ run.had => Usable(ev')
        /\ Stands("recover") /\ ~hurt => sj'.root = domain /\ \A i \in DOMAIN ev' : ev'[i].root = domain

LEMMA SettlesEndsWell ==
    ASSUME CrawlsInv, Settles
    PROVE  EndsWell
<1>1. PICK seq, about :
              /\ ev' = Deduplicated(seq) /\ sj' = FoldedSite(seq, about)
              /\ IsEvidence(seq) /\ IsSite(about) /\ FetchedBy(seq, serial)
              /\ ~hurt => Match(seq, about) /\ about # NoSite /\ about.root = domain
              /\ run.had => Usable(seq)
  BY SettlesFacts, Zenon
<1>2. run.had => Usable(ev')
  BY <1>1, DeduplicatedFacts
<1>3. ASSUME ~hurt PROVE sj'.root = domain /\ \A i \in DOMAIN ev' : ev'[i].root = domain
  <2> DEFINE D == Deduplicated(seq)
             x == FoldedSite(seq, about)
  <2>1. Match(D, x)
    BY <1>1, <1>3, FoldHolds
  <2>2. x # NoSite /\ x.root = domain
    BY <1>1, <1>3, FoldedSiteFacts
  <2>3. ev' = D /\ sj' = x
    BY <1>1
  <2> HIDE DEF D, x
  <2>4. QED
    BY <2>1, <2>2, <2>3 DEF Match
<1>4. QED
  BY <1>2, <1>3, Zenon DEF EndsWell

LEMMA StepsEndWell == CrawlsInv /\ [CrawlsNext]_crawlVars => EndsWell
<1> SUFFICES ASSUME CrawlsInv, [CrawlsNext]_crawlVars PROVE EndsWell
  OBVIOUS
<1>1. CASE UNCHANGED crawlVars
  BY <1>1 DEF crawlVars, EndsWell
<1>2. ASSUME NEW autopilot \in BOOLEAN, CrawlBegins(autopilot) PROVE EndsWell
  <2>1. run = NoRun
    BY <1>2, NoRunIsIdle DEF CrawlBegins, CrawlsInv
  <2>2. QED
    BY <2>1 DEF EndsWell
<1>3. CASE Fetches
  <2>1. run # NoRun /\ run.pc = "fetch" /\ ~Stands("recover") /\ DOMAIN run = RunFields
    BY <1>3, RunFacts DEF Fetches, Stands, NoRun
  <2>2. CASE ~Healthy(Crawled) /\ PutBack /\ run' = NoRun
    BY <2>1, <2>2, PutBackFacts DEF EndsWell
  <2>3. CASE run' = [run EXCEPT !.pc = "site", !.fetched = Crawled]
    <3>1. run'.pc = "site"
      BY <2>1, <2>3 DEF RunFields
    <3>2. run' # NoRun
      BY <3>1 DEF NoRun
    <3>3. QED
      BY <3>2 DEF EndsWell
  <2>4. QED
    BY <1>3, <2>2, <2>3, Zenon DEF Fetches
<1>4. ASSUME WritesSite \/ WritesPages \/ ChecksSignals PROVE EndsWell
  <2>1. run # NoRun /\ \E pc \in RunStates : Go(pc)
    BY <1>4 DEF WritesSite, WritesPages, ChecksSignals, Stands, NoRun, RunStates
  <2>2. DOMAIN run = RunFields
    BY <2>1, RunFacts
  <2>3. run'.pc \in RunStates
    BY <2>1, <2>2 DEF Go, RunFields
  <2>4. run' # NoRun
    BY <2>3 DEF NoRun, RunStates
  <2>5. QED
    BY <2>4 DEF EndsWell
<1>5. CASE SignalsFail
  <2>1. run # NoRun /\ run.pc = "signals" /\ ~Stands("recover") /\ PutBack
    BY <1>5 DEF SignalsFail, Stands, NoRun
  <2>2. QED
    BY <2>1, PutBackFacts DEF EndsWell
<1>6. CASE Settles
  BY <1>6, SettlesEndsWell
<1>7. CASE CrawlDies
  <2>1. may'["kill"] # may["kill"]
    BY <1>7, MayFacts, OnceFacts DEF CrawlDies, CrawlEvent
  <2>2. QED
    BY <2>1 DEF EndsWell
<1>8. CASE Audits
  BY <1>8 DEF Audits, EndsWell
<1>9. CASE Normalizes
  BY <1>9 DEF Normalizes, EndsWell
<1>10. ASSUME NEW w \in Webs, WebChanges(w) PROVE EndsWell
  BY <1>10 DEF WebChanges, EndsWell
<1>11. ASSUME NEW whole \in BOOLEAN, MovesDomain(whole) PROVE EndsWell
  BY <1>11 DEF MovesDomain, EndsWell
<1>12. QED
  BY <1>1, <1>2, <1>3, <1>4, <1>5, <1>6, <1>7, <1>8, <1>9, <1>10, <1>11, Zenon DEF CrawlsNext

\* No URL that was crawled is forgotten, however the evidence is folded, recovered
\* or put back, and an autopilot that was not killed leaves text where it found
\* text, and evidence of the configured site when its crawl succeeded
\* (crawl_evidence.py, workspace.py resilient_crawl_evidence).
THEOREM EvidenceIsKept == CrawlsSpec => EvidenceStays
<1>1. CrawlsInv /\ [CrawlsNext]_crawlVars => [EndsWell]_crawlVars
  BY StepsEndWell
<1>2. CrawlsSpec => [][EndsWell]_crawlVars
  BY <1>1, CrawlsHold, PTL DEF CrawlsSpec
<1>3. CrawlsSpec => UsableEvidenceSurvives
  BY <1>2, PTL DEF UsableEvidenceSurvives, EndsWell
<1>4. CrawlsSpec => []EveryUrlStays
  BY CrawlsHold, InvKeepsUrls, PTL
<1>5. QED
  BY <1>3, <1>4, PTL DEF EvidenceStays

\* The types of what a crawl, its audit and a recovery leave, for all sites, webs
\* and events.
THEOREM CrawlsTyped == CrawlsSpec => []CrawlsTypeOK
  BY CrawlsHold, InvGivesCrawlTypes, PTL

-----------------------------------------------------------------------------
(* Tickets: lists of tickets                                               *)

Unique(seq) == \A i, j \in DOMAIN seq : seq[i].id = seq[j].id => i = j
Elems(seq) == {seq[i] : i \in DOMAIN seq}

LEMMA PlacesFacts ==
    ASSUME NEW R, NEW seq \in Seq(R), NEW S \in SUBSET DOMAIN seq
    PROVE  /\ Places(seq, S) \in Seq(R)
           /\ Elems(Places(seq, S)) = {seq[i] : i \in S}
           /\ (\A i, j \in S : seq[i].id = seq[j].id => i = j) => Unique(Places(seq, S))
           /\ \A i \in S : \E k \in DOMAIN Places(seq, S) :
                 /\ Places(seq, S)[k] = seq[i]
                 /\ \A l \in 1 .. k - 1 : \E h \in S : h < i /\ Places(seq, S)[l] = seq[h]
<1>1. Len(seq) \in Nat /\ DOMAIN seq = 1 .. Len(seq) /\ \A i \in DOMAIN seq : seq[i] \in R
  OBVIOUS
<1>2. /\ Cardinality(S) \in Nat
      /\ \A k \in 1 .. Cardinality(S) : PlaceIn(S, k) \in S /\ RankIn(S, PlaceIn(S, k)) = k
      /\ \A i \in S : RankIn(S, i) \in 1 .. Cardinality(S) /\ PlaceIn(S, RankIn(S, i)) = i
      /\ \A i, j \in S : i < j => RankIn(S, i) < RankIn(S, j)
  BY <1>1, PlaceFacts
<1>3. Places(seq, S) = [k \in 1 .. Cardinality(S) |-> seq[PlaceIn(S, k)]]
  BY DEF Places, PlaceIn, RankIn
<1>4. Places(seq, S) \in Seq(R)
  <2>1. \A k \in 1 .. Cardinality(S) : seq[PlaceIn(S, k)] \in R
    BY <1>1, <1>2
  <2>2. QED
    BY <1>2, <1>3, <2>1, IsASeq
<1>5. Elems(Places(seq, S)) = {seq[i] : i \in S}
  BY <1>2, <1>3 DEF Elems
<1>6. ASSUME \A i, j \in S : seq[i].id = seq[j].id => i = j PROVE Unique(Places(seq, S))
  <2>1. SUFFICES ASSUME NEW k \in 1 .. Cardinality(S), NEW l \in 1 .. Cardinality(S),
                        seq[PlaceIn(S, k)].id = seq[PlaceIn(S, l)].id
                 PROVE  k = l
    BY <1>3 DEF Unique
  <2>2. PlaceIn(S, k) = PlaceIn(S, l)
    BY <1>2, <1>6, <2>1
  <2>3. QED
    BY <1>2, <2>2
<1>7. ASSUME NEW i \in S
      PROVE  \E k \in DOMAIN Places(seq, S) :
                 /\ Places(seq, S)[k] = seq[i]
                 /\ \A l \in 1 .. k - 1 : \E h \in S : h < i /\ Places(seq, S)[l] = seq[h]
  <2> DEFINE k == RankIn(S, i)
  <2>1. k \in 1 .. Cardinality(S) /\ PlaceIn(S, k) = i
    BY <1>2
  <2> HIDE DEF k
  <2>2. ASSUME NEW l \in 1 .. k - 1
        PROVE  \E h \in S : h < i /\ Places(seq, S)[l] = seq[h]
    <3> DEFINE h == PlaceIn(S, l)
    <3>1. l \in 1 .. Cardinality(S) /\ l < k
      BY <1>2, <2>1
    <3>2. h \in S /\ RankIn(S, h) = l /\ RankIn(S, i) = k
      BY <1>2, <3>1 DEF k
    <3>3. Places(seq, S)[l] = seq[h]
      BY <1>3, <3>1
    <3> HIDE DEF h
    <3>4. ~(i < h) /\ i # h
      <4>1. l \in Int /\ k \in Int
        BY <1>2, <2>1
      <4>2. QED
        BY <1>2, <3>1, <3>2, <4>1
    <3>5. i \in Int /\ h \in Int
      BY <1>1, <3>2
    <3>6. h < i
      BY <3>4, <3>5
    <3>7. QED
      BY <3>2, <3>3, <3>6
  <2>3. k \in DOMAIN Places(seq, S) /\ Places(seq, S)[k] = seq[i]
    BY <1>3, <2>1
  <2>4. QED
    BY <2>2, <2>3
<1>8. QED
  BY <1>4, <1>5, <1>6, <1>7

LEMMA UniquePlaces ==
    ASSUME NEW R, NEW seq \in Seq(R), NEW S \in SUBSET DOMAIN seq, Unique(seq)
    PROVE  Unique(Places(seq, S))
<1>1. \A i, j \in S : seq[i].id = seq[j].id => i = j
  BY DEF Unique
<1>2. QED
  BY <1>1, PlacesFacts

LEMMA ConcatFacts ==
    ASSUME NEW R, NEW a \in Seq(R), NEW b \in Seq(R)
    PROVE  /\ a \o b \in Seq(R)
           /\ Elems(a \o b) = Elems(a) \cup Elems(b)
           /\ \A i \in DOMAIN a : i \in DOMAIN (a \o b) /\ (a \o b)[i] = a[i]
           /\ (/\ Unique(a) /\ Unique(b)
               /\ \A t \in Elems(a), u \in Elems(b) : t.id # u.id) => Unique(a \o b)
<1> DEFINE c == a \o b
<1>1. /\ c \in Seq(R) /\ Len(c) = Len(a) + Len(b) /\ Len(a) \in Nat /\ Len(b) \in Nat
      /\ DOMAIN a = 1 .. Len(a) /\ DOMAIN b = 1 .. Len(b) /\ DOMAIN c = 1 .. Len(c)
      /\ \A i \in 1 .. Len(a) : c[i] = a[i]
      /\ \A i \in 1 .. Len(b) : c[Len(a) + i] = b[i]
  <2>1. Len(a) \in Nat /\ Len(b) \in Nat /\ DOMAIN a = 1 .. Len(a) /\ DOMAIN b = 1 .. Len(b)
    OBVIOUS
  <2>2. c \in Seq(R) /\ Len(c) = Len(a) + Len(b) /\ DOMAIN c = 1 .. Len(c)
    BY ConcatProperties
  <2>3. \A i \in 1 .. Len(a) : c[i] = a[i]
    BY <2>1
  <2>4. ASSUME NEW i \in 1 .. Len(b) PROVE c[Len(a) + i] = b[i]
    <3>1. Len(a) + i \in 1 .. Len(a) + Len(b) /\ ~(Len(a) + i <= Len(a)) /\ (Len(a) + i) - Len(a) = i
      BY <2>1
    <3>2. QED
      BY <2>1, <3>1, ConcatProperties
  <2>5. QED
    BY <2>1, <2>2, <2>3, <2>4
<1>2. ASSUME NEW k \in DOMAIN c
      PROVE  \/ k \in DOMAIN a /\ c[k] = a[k]
             \/ \E i \in DOMAIN b : k = Len(a) + i /\ c[k] = b[i]
  <2>1. k \in Nat
    BY <1>1
  <2>2. CASE k <= Len(a)
    BY <1>1, <1>2, <2>1, <2>2
  <2>3. CASE ~(k <= Len(a))
    <3>1. k - Len(a) \in 1 .. Len(b) /\ Len(a) + (k - Len(a)) = k
      BY <1>1, <1>2, <2>1, <2>3
    <3>2. c[k] = b[k - Len(a)]
      BY <1>1, <3>1
    <3>3. QED
      BY <1>1, <3>1, <3>2
  <2>4. QED
    BY <2>2, <2>3
<1>3. /\ \A i \in DOMAIN a : i \in DOMAIN c /\ c[i] = a[i]
      /\ \A i \in DOMAIN b : Len(a) + i \in DOMAIN c /\ c[Len(a) + i] = b[i]
  BY <1>1
<1>4. Elems(c) = Elems(a) \cup Elems(b)
  <2> HIDE DEF c
  <2>1. ASSUME NEW t \in Elems(c) PROVE t \in Elems(a) \cup Elems(b)
    BY <1>2, <2>1 DEF Elems
  <2>2. ASSUME NEW t \in Elems(a) \cup Elems(b) PROVE t \in Elems(c)
    BY <1>3, <2>2 DEF Elems
  <2>3. QED
    BY <2>1, <2>2
<1>5. ASSUME Unique(a), Unique(b), \A t \in Elems(a), u \in Elems(b) : t.id # u.id
      PROVE  Unique(c)
  <2>1. SUFFICES ASSUME NEW k \in DOMAIN c, NEW l \in DOMAIN c, c[k].id = c[l].id PROVE k = l
    BY DEF Unique
  <2>2. \A i \in DOMAIN a, j \in DOMAIN b : a[i].id # b[j].id
    BY <1>5 DEF Elems
  <2> HIDE DEF c
  <2>3. QED
    BY <1>2, <1>5, <2>1, <2>2 DEF Unique
<1>6. QED
  BY <1>1, <1>3, <1>4, <1>5

LEMMA ByIdFacts ==
    ASSUME NEW R, NEW seq \in Seq(R)
    PROVE  /\ ById(seq) \in Seq(R) /\ Unique(ById(seq)) /\ Elems(ById(seq)) \subseteq Elems(seq)
           /\ \A i \in DOMAIN seq : (\A j \in 1 .. i - 1 : seq[j].id # seq[i].id)
                                      => seq[i] \in Elems(ById(seq))
           /\ \A t \in Elems(seq) : \E u \in Elems(ById(seq)) : u.id = t.id
<1> DEFINE first(i) == \A j \in 1 .. i - 1 : seq[j].id # seq[i].id
           S == {i \in DOMAIN seq : first(i)}
<1>1. S \in SUBSET DOMAIN seq /\ ById(seq) = Places(seq, S)
  BY DEF ById
<1>2. Len(seq) \in Nat /\ DOMAIN seq = 1 .. Len(seq)
  OBVIOUS
<1>3. \A i, j \in S : seq[i].id = seq[j].id => i = j
  <2>1. SUFFICES ASSUME NEW i \in S, NEW j \in S, seq[i].id = seq[j].id, i # j PROVE FALSE
    OBVIOUS
  <2>2. i \in Nat /\ j \in Nat /\ i >= 1 /\ j >= 1
    BY <1>2
  <2>3. CASE i < j
    <3>1. i \in 1 .. j - 1
      BY <2>2, <2>3
    <3>2. QED
      BY <2>1, <3>1
  <2>4. CASE j < i
    <3>1. j \in 1 .. i - 1
      BY <2>2, <2>4
    <3>2. QED
      BY <2>1, <3>1
  <2>5. QED
    BY <2>1, <2>2, <2>3, <2>4
<1>4. ASSUME NEW t \in Elems(seq) PROVE \E i \in S : seq[i].id = t.id
  <2> DEFINE D == {i \in DOMAIN seq : seq[i].id = t.id}
  <2>1. D \in SUBSET (0 .. Len(seq)) /\ D # {}
    BY <1>2 DEF Elems
  <2> HIDE DEF D
  <2>2. Min(D) \in D /\ \A e \in D : Min(D) <= e
    BY <1>2, <2>1, MinOf
  <2>3. ASSUME NEW j \in 1 .. Min(D) - 1 PROVE seq[j].id # seq[Min(D)].id
    <3>1. Min(D) \in 1 .. Len(seq) /\ seq[Min(D)].id = t.id
      BY <1>2, <2>2 DEF D
    <3>2. j \in DOMAIN seq /\ ~(Min(D) <= j)
      BY <1>2, <3>1
    <3>3. j \notin D
      BY <2>2, <3>2
    <3>4. QED
      BY <3>1, <3>2, <3>3 DEF D
  <2>4. Min(D) \in DOMAIN seq /\ seq[Min(D)].id = t.id
    BY <2>2 DEF D
  <2>5. Min(D) \in S
    BY <2>3, <2>4
  <2>6. QED
    BY <2>4, <2>5
<1> HIDE DEF S, first
<1>5. /\ ById(seq) \in Seq(R) /\ Unique(ById(seq)) /\ Elems(ById(seq)) = {seq[i] : i \in S}
  BY <1>1, <1>3, PlacesFacts
<1>6. \A i \in DOMAIN seq : first(i) => seq[i] \in Elems(ById(seq))
  BY <1>5 DEF S
<1>7. Elems(ById(seq)) \subseteq Elems(seq)
  BY <1>1, <1>5 DEF Elems
<1>8. QED
  BY <1>4, <1>5, <1>6, <1>7 DEF first

-----------------------------------------------------------------------------
(* The inductive invariant                                                 *)

\* The tickets there may be after n runs. Those that scoping writes and those
\* that people write have ids of their own kind.
Whole(n) ==
    {t \in Ticket : /\ t.generated <=> t.id[1] = "A"
                    /\ IsManual(t) <=> t.id[1] = "M"
                    /\ t.effect.baseline <= n}

AllManual(seq) == \A t \in Elems(seq) : IsManual(t)
NoManual(seq) == \A t \in Elems(seq) : ~IsManual(t)
ManualIds(seq) == {t.id : t \in {u \in Elems(seq) : IsManual(u)}}

Lists(n) == [tickets : Seq(Whole(n)), excluded : Seq(Whole(n)), deferred : Seq(Whole(n))]
IsList(l, n) ==
    l \in Lists(n) /\ Unique(l.tickets) /\ NoManual(l.excluded) /\ NoManual(l.deferred)

\* The scripts, and what is left of them.
StepNames == {"crawl", "sample", "build", "scope", "manual", "workflow", "verify", "record",
              "normalize", "evaluate", "restore"}
Rebuilding == {"build", "scope", "manual", "workflow"}
Suffix(s, script) == s \in {SubSeq(script, n, Len(script)) : n \in 1 .. Len(script) + 1}
Proper(s) ==
    /\ s \in Seq(StepNames)
    /\ \A i \in DOMAIN s : s[i] \in Rebuilding => \E j \in DOMAIN s : i < j /\ s[j] = "restore"
    /\ \A i \in DOMAIN s : i + 1 \in DOMAIN s =>
           (s[i] = "build" <=> s[i + 1] = "scope") /\ (s[i] = "scope" <=> s[i + 1] = "manual")

Result == [id : Id, verdict : {"pass", "fail", "manual"}]
JobRecord(n) ==
    [steps : Seq(StepNames), manual : Seq(Whole(n)), workflow : Seq(Whole(n)), results : SUBSET Result]
IsJob(j, n) ==
    /\ j \in JobRecord(n)
    /\ Unique(j.manual) /\ AllManual(j.manual)
    /\ Unique(j.workflow) /\ \A t \in Elems(j.workflow) : t.custom
    /\ Proper(j.steps) /\ \E script \in Jobs : Suffix(j.steps, script)

Starts(j, step) == j.steps # << >> /\ j.steps[1] = step
Promises(j) == "restore" \in {j.steps[i] : i \in DOMAIN j.steps}

\* Between a build and its merge the list has no offsite ticket, and the job
\* remembers all of them, as it does until it has put them back.
OffsiteKept(tickets, j, ids) ==
    /\ IF Starts(j, "scope") \/ Starts(j, "manual") THEN NoManual(tickets)
                                                   ELSE ManualIds(tickets) = ids
    /\ Promises(j) => ManualIds(j.manual) = ids

TicketsBasics ==
    /\ site \in Site /\ audit \in Site /\ sampled \in Seq(Quality)
    /\ day \in Nat /\ left \in [Bounded -> Nat] /\ offsite \subseteq Id /\ torn \in BOOLEAN

TicketsInv ==
    /\ TicketsBasics /\ IsList(list, Latest) /\ IsJob(job, Latest)
    /\ ~torn => OffsiteKept(list.tickets, job, offsite)

-----------------------------------------------------------------------------
(* Tickets one by one                                                      *)

LEMMA WholeGrows ==
    ASSUME NEW n \in Nat, NEW m \in Nat, n <= m
    PROVE  /\ Whole(n) \subseteq Whole(m) /\ Seq(Whole(n)) \subseteq Seq(Whole(m))
           /\ \A l : IsList(l, n) => IsList(l, m)
<1>1. Whole(n) \subseteq Whole(m)
  <2>1. ASSUME NEW t \in Whole(n) PROVE t \in Whole(m)
    <3>1. t \in Ticket /\ t.effect.baseline \in Nat /\ t.effect.baseline <= n
      BY DEF Whole, Ticket, Effect
    <3>2. t.effect.baseline <= m
      BY <3>1
    <3>3. QED
      BY <3>2 DEF Whole
  <2>2. QED
    BY <2>1
<1>2. Seq(Whole(n)) \subseteq Seq(Whole(m))
  <2> DEFINE A == Whole(n)
             B == Whole(m)
  <2>1. A \subseteq B
    BY <1>1
  <2> HIDE DEF A, B
  <2>2. Seq(A) \subseteq Seq(B)
    BY <2>1
  <2>3. QED
    BY <2>2 DEF A, B
<1>3. QED
  BY <1>1, <1>2 DEF IsList, Lists

\* A ticket that keeps its id, its title and where it came from.
LEMMA StaysWhole ==
    ASSUME NEW n, NEW t \in Whole(n), NEW u \in Ticket,
           u.id = t.id, u.title = t.title, u.generated = t.generated, u.effect.baseline <= n
    PROVE  u \in Whole(n)
BY DEF Whole, IsManual

LEMMA FieldsOf ==
    ASSUME NEW t \in Ticket
    PROVE  /\ t.id \in Id /\ t.title \in Title /\ t.status \in Status
           /\ t.owner \in Person \cup {"role"} /\ t.custom \in BOOLEAN /\ t.generated \in BOOLEAN
           /\ t.effect \in Effect /\ t.effect.state \in State /\ t.effect.bound \in BOOLEAN
           /\ t.effect.baseline \in Nat /\ t.effect.ends \in Nat
BY DEF Ticket, Effect

\* A ticket with other values in its fields.
LEMMA RewrittenFacts ==
    ASSUME NEW t \in Ticket, NEW s \in Status, NEW o \in Person \cup {"role"},
           NEW c \in BOOLEAN, NEW e \in Effect
    PROVE  /\ [t EXCEPT !.status = s] \in Ticket
           /\ [t EXCEPT !.effect = e] \in Ticket
           /\ [t EXCEPT !.custom = c] \in Ticket
           /\ [t EXCEPT !.status = s, !.owner = o] \in Ticket
           /\ [t EXCEPT !.status = s, !.owner = o, !.custom = c] \in Ticket
           /\ [t EXCEPT !.status = s, !.custom = c, !.effect = e] \in Ticket
<1> DEFINE P == Person \cup {"role"}
           B == BOOLEAN
<1>1. Ticket = [id : Id, title : Title, status : Status, owner : P, custom : B, generated : B,
                effect : Effect]
  BY DEF Ticket
<1>2. s \in Status /\ o \in P /\ c \in B /\ e \in Effect /\ t \in Ticket
  OBVIOUS
<1> HIDE DEF P, B
<1>3. QED
  BY <1>1, <1>2

LEMMA NewTicketFacts ==
    ASSUME NEW n \in Nat, NEW id \in Id, NEW title \in Title, NEW generated \in BOOLEAN,
           generated <=> id[1] = "A", title = "offsite" <=> id[1] = "M"
    PROVE  NewTicket(id, title, generated) \in Whole(n)
<1> DEFINE e == NewEffect(title)
<1>1. e \in Effect /\ e.baseline = 0
  BY DEF NewEffect, Effect, State
<1> HIDE DEF e
<1>2. "todo" \in Status /\ "role" \in Person \cup {"role"} /\ FALSE \in BOOLEAN
  BY DEF Status
<1> DEFINE u == NewTicket(id, title, generated)
<1>3. /\ u = [id |-> id, title |-> title, status |-> "todo", owner |-> "role", custom |-> FALSE,
              generated |-> generated, effect |-> e]
  BY DEF NewTicket, e
<1>4. u \in Ticket
  BY <1>1, <1>2, <1>3 DEF Ticket
<1>5. u.id = id /\ u.title = title /\ u.generated = generated /\ u.effect = e
  BY <1>3
<1> HIDE DEF u
<1>6. u \in Whole(n)
  <2>1. u.effect.baseline <= n
    BY <1>1, <1>5
  <2>2. (u.generated <=> u.id[1] = "A") /\ (IsManual(u) <=> u.id[1] = "M")
    <3>1. u.generated <=> u.id[1] = "A"
      BY <1>5
    <3>2. IsManual(u) <=> u.id[1] = "M"
      BY <1>5 DEF IsManual
    <3>3. QED
      BY <3>1, <3>2
  <2>3. QED
    BY <1>4, <2>1, <2>2, Zenon DEF Whole
<1>7. QED
  BY <1>6 DEF u

LEMMA LastOfFacts ==
    ASSUME NEW R, NEW seq \in Seq(R), NEW S \in SUBSET DOMAIN seq, S # {}
    PROVE  LastOf(seq, S) \in R /\ \E i \in S : LastOf(seq, S) = seq[i]
<1>1. Len(seq) \in Nat /\ DOMAIN seq = 1 .. Len(seq) /\ S \in SUBSET (0 .. Len(seq))
  OBVIOUS
<1>2. Max(S) \in S /\ \A e \in S : e <= Max(S)
  BY <1>1, MaxOf
<1> DEFINE last == CHOOSE i \in S : \A j \in S : j <= i
<1>3. LastOf(seq, S) = seq[last]
  BY DEF LastOf
<1>4. last \in S
  BY <1>2
<1> HIDE DEF last
<1>5. QED
  BY <1>1, <1>3, <1>4

-----------------------------------------------------------------------------
(* Lists of tickets                                                        *)

\* The same tickets, with other work on them or other experiments.
Reworked(new, old) ==
    /\ DOMAIN new = DOMAIN old
    /\ \A i \in DOMAIN old : new[i].id = old[i].id /\ new[i].title = old[i].title

SameEffects(new, old) ==
    Reworked(new, old) /\ \A i \in DOMAIN old : new[i].effect = old[i].effect

\* A ticket that is still there under its id and title has the experiment it had.
Carries(old, new) ==
    \A was \in Elems(old), is \in Elems(new) :
        was.id = is.id /\ was.title = is.title /\ ~was.generated => is.effect = was.effect

LEMMA ReworkedFacts ==
    ASSUME NEW new, NEW old, Reworked(new, old)
    PROVE  /\ Unique(old) => Unique(new)
           /\ ManualIds(new) = ManualIds(old)
           /\ NoManual(old) => NoManual(new)
<1>1. DOMAIN new = DOMAIN old /\ \A i \in DOMAIN old : new[i].id = old[i].id /\ new[i].title = old[i].title
  BY DEF Reworked
<1>2. Unique(old) => Unique(new)
  BY <1>1 DEF Unique
<1>3. ManualIds(new) = ManualIds(old)
  BY <1>1 DEF ManualIds, Elems, IsManual
<1>4. NoManual(old) => NoManual(new)
  BY <1>1 DEF NoManual, Elems, IsManual
<1>5. QED
  BY <1>2, <1>3, <1>4

LEMMA CarriesFacts ==
    /\ \A s : Unique(s) => Carries(s, s)
    /\ \A a, b, c : Carries(a, b) /\ SameEffects(c, b) => Carries(a, c)
    /\ \A a, b : Unique(a) /\ SameEffects(b, a) => Carries(a, b)
<1>1. ASSUME NEW s, Unique(s) PROVE Carries(s, s)
  BY <1>1 DEF Unique, Carries, Elems
<1>2. ASSUME NEW a, NEW b, NEW c, Carries(a, b), SameEffects(c, b) PROVE Carries(a, c)
  <2>1. SUFFICES ASSUME NEW was \in Elems(a), NEW is \in Elems(c),
                        was.id = is.id, was.title = is.title, ~was.generated
                 PROVE  is.effect = was.effect
    BY DEF Carries
  <2>2. PICK i \in DOMAIN c : is = c[i]
    BY DEF Elems
  <2>3. i \in DOMAIN b /\ c[i].id = b[i].id /\ c[i].title = b[i].title /\ c[i].effect = b[i].effect
    BY <1>2, <2>2 DEF SameEffects, Reworked
  <2>4. b[i] \in Elems(b)
    BY <2>3 DEF Elems
  <2>5. QED
    BY <1>2, <2>1, <2>2, <2>3, <2>4 DEF Carries
<1>3. ASSUME NEW a, NEW b, Unique(a), SameEffects(b, a) PROVE Carries(a, b)
  BY <1>1, <1>2, <1>3
<1>4. QED
  BY <1>1, <1>2, <1>3

LEMMA ListFacts ==
    ASSUME NEW n, NEW l, IsList(l, n)
    PROVE  /\ l.tickets \in Seq(Whole(n)) /\ l.excluded \in Seq(Whole(n)) /\ l.deferred \in Seq(Whole(n))
           /\ Unique(l.tickets) /\ NoManual(l.excluded) /\ NoManual(l.deferred)
           /\ \A s : LET new == [l EXCEPT !.tickets = s]
                     IN /\ new.tickets = s /\ new.excluded = l.excluded /\ new.deferred = l.deferred
                        /\ s \in Seq(Whole(n)) /\ Unique(s) => IsList(new, n)
BY DEF IsList, Lists

-----------------------------------------------------------------------------
(* Putting back what people wrote                                          *)

LEMMA ResumedFacts ==
    ASSUME NEW n, NEW t \in Whole(n), NEW workflow \in Seq(Whole(n))
    PROVE  LET r == Resumed(t, workflow)
           IN /\ r \in Whole(n) /\ r.id = t.id /\ r.title = t.title /\ r.effect = t.effect
              /\ \A i \in DOMAIN workflow : Unique(workflow) /\ workflow[i].id = t.id =>
                    /\ r.status = workflow[i].status /\ r.owner = workflow[i].owner
                    /\ r.custom = workflow[i].custom
<1> DEFINE id    == Holding(workflow, LAMBDA w : w.id = t.id)
           named == Holding(workflow, LAMBDA w : w.title = t.title)
           from  == IF id # {} THEN id ELSE named
           w == LastOf(workflow, from)
           r == Resumed(t, workflow)
<1>1. from \in SUBSET DOMAIN workflow
  BY DEF Holding
<1>2. r = IF from = {} THEN t
          ELSE [t EXCEPT !.status = w.status, !.owner = w.owner, !.custom = w.custom]
  BY DEF Resumed
<1>3. \A i \in DOMAIN workflow : workflow[i].id = t.id =>
          /\ i \in from /\ from # {}
          /\ \A j \in from : workflow[j].id = t.id
  BY DEF Holding
<1> HIDE DEF from, r
<1>4. t \in Ticket /\ t.effect.baseline <= n
  BY DEF Whole
<1>5. CASE from = {}
  BY <1>2, <1>3, <1>5 DEF r
<1>6. CASE from # {}
  <2>1. w \in Whole(n) /\ \E i \in from : w = workflow[i]
    BY <1>1, <1>6, LastOfFacts
  <2>2. w \in Ticket
    BY <2>1 DEF Whole
  <2> HIDE DEF w
  <2>3. w.status \in Status /\ w.owner \in Person \cup {"role"} /\ w.custom \in BOOLEAN
    BY <2>2, FieldsOf
  <2>4. r = [t EXCEPT !.status = w.status, !.owner = w.owner, !.custom = w.custom]
    BY <1>2, <1>6
  <2>5. r \in Ticket
    BY <1>4, <2>3, <2>4, RewrittenFacts, FieldsOf
  <2>6. /\ r.id = t.id /\ r.title = t.title /\ r.effect = t.effect /\ r.generated = t.generated
        /\ r.status = w.status /\ r.owner = w.owner /\ r.custom = w.custom
    BY <1>4, <2>4 DEF Ticket
  <2>7. r \in Whole(n)
    BY <1>4, <2>5, <2>6, StaysWhole
  <2>8. ASSUME NEW i \in DOMAIN workflow, Unique(workflow), workflow[i].id = t.id PROVE w = workflow[i]
    BY <1>1, <1>3, <2>1, <2>8 DEF Unique
  <2>9. QED
    BY <2>6, <2>7, <2>8 DEF r
<1>7. QED
  BY <1>5, <1>6

LEMMA MergeWorkflowFacts ==
    ASSUME NEW n, NEW l, IsList(l, n), NEW workflow \in Seq(Whole(n))
    PROVE  LET m == MergeWorkflow(l, workflow)
           IN /\ IsList(m, n) /\ SameEffects(m.tickets, l.tickets)
              /\ \A i \in DOMAIN workflow, j \in DOMAIN m.tickets :
                    Unique(workflow) /\ workflow[i].id = m.tickets[j].id =>
                        /\ m.tickets[j].status = workflow[i].status
                        /\ m.tickets[j].owner = workflow[i].owner
                        /\ m.tickets[j].custom = workflow[i].custom
<1> DEFINE s == l.tickets
           r == [i \in DOMAIN s |-> Resumed(s[i], workflow)]
           m == MergeWorkflow(l, workflow)
           W == Whole(n)
<1>1. m = [l EXCEPT !.tickets = r] /\ m.tickets = r
  BY DEF MergeWorkflow, IsList, Lists
<1>2. s \in Seq(W) /\ Unique(s)
  BY ListFacts
<1>3. ASSUME NEW i \in DOMAIN s
      PROVE  /\ r[i] \in W /\ r[i].id = s[i].id /\ r[i].title = s[i].title
             /\ r[i].effect = s[i].effect
             /\ \A k \in DOMAIN workflow : Unique(workflow) /\ workflow[k].id = s[i].id =>
                   /\ r[i].status = workflow[k].status /\ r[i].owner = workflow[k].owner
                   /\ r[i].custom = workflow[k].custom
  <2>1. s[i] \in W
    BY <1>2
  <2> HIDE DEF s
  <2>2. QED
    BY <2>1, ResumedFacts
<1>4. DOMAIN r = DOMAIN s
  OBVIOUS
<1>5. SameEffects(r, s)
  <2> HIDE DEF r, s
  <2> QED BY <1>3, <1>4 DEF SameEffects, Reworked
<1>6. r \in Seq(W)
  <2>1. Len(s) \in Nat /\ DOMAIN s = 1 .. Len(s)
    BY <1>2
  <2>2. r \in [1 .. Len(s) -> W]
    <3> HIDE DEF W, s
    <3> QED BY <1>3, <2>1
  <2> HIDE DEF r, s, W
  <2>3. QED
    BY <2>1, <2>2, SeqOfFunction
<1>7. Unique(r)
  BY <1>2, <1>5, ReworkedFacts DEF SameEffects
<1>8. IsList(m, n)
  <2> HIDE DEF r, s, m
  <2> QED BY <1>1, <1>6, <1>7, ListFacts DEF W
<1> HIDE DEF r
<1>9. \A i \in DOMAIN workflow, j \in DOMAIN r :
          Unique(workflow) /\ workflow[i].id = r[j].id =>
              /\ r[j].status = workflow[i].status /\ r[j].owner = workflow[i].owner
              /\ r[j].custom = workflow[i].custom
  <2> HIDE DEF s
  <2> QED BY <1>3, <1>4
<1> HIDE DEF m
<1>10. QED
  BY <1>1, <1>5, <1>8, <1>9 DEF m

\* The tickets of an id that says a person wrote it are those that a person wrote.
LEMMA KindOfId ==
    ASSUME NEW n, NEW t \in Whole(n), NEW u \in Whole(n), t.id = u.id
    PROVE  (IsManual(t) <=> IsManual(u)) /\ (t.generated <=> u.generated)
<1>1. t.generated \in BOOLEAN /\ u.generated \in BOOLEAN
  BY FieldsOf DEF Whole
<1>2. QED
  BY <1>1 DEF Whole

LEMMA MergeManualFacts ==
    ASSUME NEW n, NEW l, IsList(l, n),
           NEW manual \in Seq(Whole(n)), AllManual(manual), Unique(manual)
    PROVE  LET m == MergeManual(l, manual)
           IN /\ IsList(m, n) /\ Carries(l.tickets, m.tickets)
              /\ ManualIds(m.tickets) = ManualIds(l.tickets) \cup ManualIds(manual)
<1> DEFINE s == l.tickets
           here(t) == \E i \in DOMAIN s : IsManual(s[i]) /\ s[i].id = t.id
           S == {i \in DOMAIN manual : ~here(manual[i])}
           new == Places(manual, S)
           m == MergeManual(l, manual)
           W == Whole(n)
<1>1. m = [l EXCEPT !.tickets = s \o new] /\ m.tickets = s \o new
  BY DEF MergeManual, Those, Holding, IsList, Lists
<1>2. s \in Seq(W) /\ Unique(s) /\ \A t \in Elems(s) : t \in W
  BY ListFacts DEF Elems
<1>3. S \in SUBSET DOMAIN manual
  OBVIOUS
<1>4. /\ new \in Seq(W) /\ Unique(new) /\ Elems(new) = {manual[i] : i \in S}
  <2> HIDE DEF S
  <2> QED BY <1>3, PlacesFacts, UniquePlaces
<1>5. \A u \in Elems(new) : u \in Elems(manual) /\ u \in W /\ IsManual(u) /\ ~here(u)
  <2>1. \A i \in DOMAIN manual : manual[i] \in W
    OBVIOUS
  <2> HIDE DEF new, W, here
  <2>2. QED
    BY <1>4, <2>1 DEF Elems, AllManual
<1>6. \A t \in Elems(s), u \in Elems(new) : t.id # u.id
  <2>1. SUFFICES ASSUME NEW i \in DOMAIN s, NEW u \in Elems(new), s[i].id = u.id PROVE FALSE
    BY DEF Elems
  <2>2. s[i] \in W /\ u \in W /\ IsManual(u) /\ ~here(u)
    BY <1>2, <1>5 DEF Elems
  <2>3. IsManual(s[i])
    BY <2>1, <2>2, KindOfId
  <2>4. QED
    BY <2>1, <2>2, <2>3
<1> HIDE DEF new
<1>7. s \o new \in Seq(W) /\ Unique(s \o new) /\ Elems(s \o new) = Elems(s) \cup Elems(new)
  <2>1. s \in Seq(W) /\ new \in Seq(W) /\ Unique(s) /\ Unique(new)
    BY <1>2, <1>4
  <2> HIDE DEF s, W
  <2>2. QED
    BY <1>6, <2>1, ConcatFacts
<1>8. IsList(m, n)
  <2> HIDE DEF s, m
  <2> QED BY <1>1, <1>7, ListFacts DEF W
<1>9. Carries(s, s \o new)
  <2>1. Carries(s, s)
    BY <1>2, CarriesFacts
  <2> HIDE DEF s
  <2>2. QED
    BY <1>6, <1>7, <2>1 DEF Carries
<1>10. ManualIds(s \o new) = ManualIds(s) \cup ManualIds(manual)
  <2>1. ASSUME NEW id \in ManualIds(s \o new) PROVE id \in ManualIds(s) \cup ManualIds(manual)
    <3> HIDE DEF s, here
    <3> QED BY <1>5, <1>7, <2>1 DEF ManualIds
  <2>2. ASSUME NEW id \in ManualIds(s) PROVE id \in ManualIds(s \o new)
    <3> HIDE DEF s
    <3> QED BY <1>7, <2>2 DEF ManualIds
  <2>3. ASSUME NEW i \in DOMAIN manual, IsManual(manual[i]) PROVE manual[i].id \in ManualIds(s \o new)
    <3>1. CASE here(manual[i])
      <4>1. PICK k \in DOMAIN s : IsManual(s[k]) /\ s[k].id = manual[i].id
        BY <3>1
      <4>2. s[k] \in Elems(s \o new)
        BY <1>7, <4>1 DEF Elems
      <4>3. QED
        BY <4>1, <4>2 DEF ManualIds
    <3>2. CASE ~here(manual[i])
      <4>1. manual[i] \in Elems(new)
        BY <1>4, <3>2
      <4>2. manual[i] \in Elems(s \o new)
        BY <1>7, <4>1
      <4>3. QED
        BY <2>3, <4>2 DEF ManualIds
    <3>3. QED
      BY <3>1, <3>2
  <2>4. \A id \in ManualIds(manual) : id \in ManualIds(s \o new)
    <3> HIDE DEF s
    <3> QED BY <2>3 DEF ManualIds, Elems
  <2>5. QED
    BY <2>1, <2>2, <2>4
<1>11. QED
  BY <1>1, <1>8, <1>9, <1>10

-----------------------------------------------------------------------------
(* Scoping                                                                 *)

LEMMA SourcesFacts ==
    ASSUME NEW n, NEW l, IsList(l, n)
    PROVE  LET seen == Sources(l)
           IN /\ seen \in Seq(Whole(n)) /\ Unique(seen)
              /\ \A t \in Elems(seen) : t \in Whole(n) /\ (IsManual(t) => t \in Elems(l.tickets))
              /\ \A t \in Elems(l.tickets) : ~t.generated => t \in Elems(seen)
<1> DEFINE W == Whole(n)
           a == l.tickets
           b == l.excluded
           c == l.deferred
           x == (a \o b) \o c
           S == {i \in DOMAIN x : ~x[i].generated \/ x[i].custom}
           y == Places(x, S)
           seen == ById(y)
<1>1. Sources(l) = seen
  BY DEF Sources, Those, Holding
<1>2. /\ a \in Seq(W) /\ b \in Seq(W) /\ c \in Seq(W)
      /\ Unique(a) /\ NoManual(b) /\ NoManual(c)
  BY ListFacts
<1> HIDE DEF W, a, b, c
<1>3. /\ x \in Seq(W) /\ Elems(x) = Elems(a) \cup Elems(b) \cup Elems(c)
      /\ \A i \in DOMAIN a : i \in DOMAIN x /\ x[i] = a[i]
  <2>1. /\ a \o b \in Seq(W) /\ Elems(a \o b) = Elems(a) \cup Elems(b)
        /\ \A i \in DOMAIN a : i \in DOMAIN (a \o b) /\ (a \o b)[i] = a[i]
    BY <1>2, ConcatFacts
  <2> DEFINE d == a \o b
  <2> HIDE DEF d
  <2>2. d \in Seq(W)
    BY <2>1 DEF d
  <2>3. /\ d \o c \in Seq(W) /\ Elems(d \o c) = Elems(d) \cup Elems(c)
        /\ \A i \in DOMAIN d : i \in DOMAIN (d \o c) /\ (d \o c)[i] = d[i]
    BY <1>2, <2>2, ConcatFacts
  <2>4. QED
    BY <2>1, <2>3 DEF d
<1> HIDE DEF x
<1>4. S \in SUBSET DOMAIN x
  OBVIOUS
<1>5. /\ y \in Seq(W) /\ Elems(y) = {x[i] : i \in S}
      /\ \A i \in S : \E k \in DOMAIN y :
            y[k] = x[i] /\ \A j \in 1 .. k - 1 : \E h \in S : h < i /\ y[j] = x[h]
  <2> HIDE DEF S
  <2> QED BY <1>3, <1>4, PlacesFacts
<1> HIDE DEF y
<1>6. /\ seen \in Seq(W) /\ Unique(seen) /\ Elems(seen) \subseteq Elems(y)
      /\ \A i \in DOMAIN y : (\A j \in 1 .. i - 1 : y[j].id # y[i].id) => y[i] \in Elems(seen)
  BY <1>5, ByIdFacts
<1> HIDE DEF seen
<1>7. ASSUME NEW t \in Elems(seen) PROVE t \in W /\ (IsManual(t) => t \in Elems(a))
  <2>1. t \in Elems(x)
    <3> HIDE DEF S
    <3>1. PICK i \in S : t = x[i]
      BY <1>5, <1>6
    <3>2. QED
      BY <1>4, <3>1 DEF Elems
  <2>2. t \in W
    <3>1. \A i \in DOMAIN x : x[i] \in W
      BY <1>3
    <3>2. QED
      BY <2>1, <3>1 DEF Elems
  <2>3. QED
    BY <1>2, <1>3, <2>1, <2>2 DEF NoManual
<1>8. ASSUME NEW i \in DOMAIN a, ~a[i].generated PROVE a[i] \in Elems(seen)
  <2>1. i \in S /\ x[i] = a[i]
    BY <1>3, <1>8
  <2>2. PICK k \in DOMAIN y :
            y[k] = x[i] /\ \A j \in 1 .. k - 1 : \E h \in S : h < i /\ y[j] = x[h]
    BY <1>5, <2>1
  <2>3. ASSUME NEW j \in 1 .. k - 1 PROVE y[j].id # y[k].id
    <3>1. PICK h \in S : h < i /\ y[j] = x[h]
      BY <2>2
    <3>2. h \in DOMAIN a /\ h # i
      <4>1. DOMAIN a = 1 .. Len(a) /\ Len(a) \in Nat /\ DOMAIN x = 1 .. Len(x) /\ Len(x) \in Nat
        BY <1>2, <1>3
      <4>2. h \in 1 .. Len(x)
        BY <1>4, <4>1
      <4>3. QED
        BY <3>1, <4>1, <4>2
    <3>3. y[j] = a[h] /\ y[k] = a[i]
      BY <1>3, <2>1, <2>2, <3>1, <3>2
    <3>4. QED
      BY <1>2, <3>2, <3>3 DEF Unique
  <2>4. QED
    BY <1>6, <2>1, <2>2, <2>3
<1>9. \A t \in Elems(a) : ~t.generated => t \in Elems(seen)
  BY <1>8 DEF Elems
<1>10. QED
  BY <1>1, <1>6, <1>7, <1>9 DEF W, a

LEMMA ScopedFacts ==
    ASSUME NEW n, NEW t \in Whole(n)
    PROVE  LET s == Scoped(t)
           IN /\ s \in Whole(n) /\ s.id = t.id /\ s.effect = t.effect
              /\ (IsManual(s) <=> IsManual(t)) /\ (IsManual(t) => s = t)
<1>1. t \in Ticket /\ t.effect.baseline <= n
  BY DEF Whole
<1>2. CASE PageTicket(t)
  <2> DEFINE s == [t EXCEPT !.title = "render"]
  <2>1. Scoped(t) = s /\ t.title # "offsite"
    BY <1>2 DEF Scoped, PageTicket
  <2>2. s \in Ticket
    <3>1. "render" \in Title
      BY DEF Title
    <3>2. QED
      BY <1>1, <3>1 DEF Ticket
  <2>3. s.id = t.id /\ s.title = "render" /\ s.generated = t.generated /\ s.effect = t.effect
    BY <1>1 DEF Ticket
  <2> HIDE DEF s
  <2>4. s \in Whole(n)
    BY <1>1, <2>1, <2>2, <2>3 DEF Whole, IsManual
  <2>5. QED
    BY <2>1, <2>3, <2>4 DEF IsManual
<1>3. CASE ~PageTicket(t)
  BY <1>3 DEF Scoped
<1>4. QED
  BY <1>2, <1>3

LEMMA ManualApplies ==
    ASSUME NEW t, IsManual(t)
    PROVE  Applies(t) /\ t.title \notin RateTitle
BY DEF IsManual, Applies, PageTicket, RateTitle

LEMMA AddedFacts ==
    ASSUME NEW n \in Nat, NEW seen, NEW active
    PROVE  /\ Added(seen, active) \in Seq(Whole(n))
           /\ \A t \in Elems(Added(seen, active)) : t \in Whole(n) /\ t.generated /\ ~IsManual(t)
<1> DEFINE W == {t \in Whole(n) : t.generated /\ ~IsManual(t)}
           new(title) == NewTicket(<<"A", title>>, title, TRUE)
           add(p, title) == IF p THEN <<new(title)>> ELSE << >>
<1>1. ASSUME NEW title \in {"baseline", "render", "sitemap"} PROVE new(title) \in W
  <2>1. PICK yes \in BOOLEAN : yes = TRUE
    OBVIOUS
  <2> DEFINE id == <<"A", title>>
  <2>2. id \in Id /\ title \in Title /\ id[1] = "A"
    BY DEF Id, Title
  <2>3. title # "offsite" /\ id[1] # "M"
    BY <2>2
  <2> HIDE DEF id
  <2>4. NewTicket(id, title, yes) \in Whole(n)
    BY <2>1, <2>2, <2>3, NewTicketFacts
  <2>5. NewTicket(id, title, yes).generated = yes /\ NewTicket(id, title, yes).title = title
    BY DEF NewTicket
  <2>6. NewTicket(id, title, yes) \in W
    BY <2>1, <2>3, <2>4, <2>5 DEF IsManual
  <2>7. QED
    BY <2>1, <2>6 DEF id
<1> HIDE DEF W, new
<1>2. ASSUME NEW p, NEW title \in {"baseline", "render", "sitemap"} PROVE add(p, title) \in Seq(W)
  BY <1>1
<1>3. Added(seen, active) \in Seq(W)
  <2> DEFINE a1 == add(~EnoughSamples /\ Missing(active, "baseline"), "baseline")
             a2 == add(audit.page = "shell" /\ Missing(active, "render"), "render")
             a3 == add(~audit.sitemap /\ Missing(seen, "sitemap"), "sitemap")
  <2>1. a1 \in Seq(W) /\ a2 \in Seq(W) /\ a3 \in Seq(W)
    BY <1>2
  <2>2. Added(seen, active) = a1 \o a2 \o a3
    BY DEF Added, new
  <2> HIDE DEF a1, a2, a3
  <2>3. QED
    BY <2>1, <2>2
<1>4. Added(seen, active) \in Seq(Whole(n))
  <2> DEFINE V == Whole(n)
  <2>1. W \subseteq V
    BY DEF W
  <2> HIDE DEF V
  <2>2. QED
    BY <1>3, <2>1 DEF V
<1>5. \A i \in DOMAIN Added(seen, active) : Added(seen, active)[i] \in W
  BY <1>3
<1>6. QED
  BY <1>4, <1>5 DEF Elems, W

LEMMA ScopeFacts ==
    ASSUME NEW n \in Nat, NEW l, IsList(l, n)
    PROVE  LET m == ScopeTaskData(l)
           IN /\ IsList(m, n) /\ Carries(l.tickets, m.tickets)
              /\ ManualIds(m.tickets) = ManualIds(l.tickets)
<1> DEFINE W == Whole(n)
           old    == l.tickets
           seen   == Sources(l)
           A      == {i \in DOMAIN seen : seen[i].title \notin RateTitle /\ Applies(seen[i])}
           B      == {i \in DOMAIN seen : seen[i].title \in RateTitle /\ Applies(seen[i])}
           C      == {i \in DOMAIN seen : seen[i].title \notin RateTitle /\ ~Applies(seen[i])}
           D      == {i \in DOMAIN seen : seen[i].title \in RateTitle /\ ~Applies(seen[i])}
           active == Places(seen, A)
           rates  == Places(seen, B)
           out    == Places(seen, C)
           later  == Places(seen, D)
           shown  == [i \in DOMAIN active |-> Scoped(active[i])]
           added  == Added(seen, shown)
           all    == (shown \o rates) \o added
           new    == ById(all)
           m      == ScopeTaskData(l)
           staying(t) == \E s \in Elems(seen) :
                          t.id = s.id /\ t.effect = s.effect /\ (IsManual(t) <=> IsManual(s))
<1>1. m = [tickets |-> new, excluded |-> out, deferred |-> later]
  BY DEF ScopeTaskData, Those, Holding
<1>2. /\ seen \in Seq(W) /\ Unique(seen)
      /\ \A t \in Elems(seen) : t \in W /\ (IsManual(t) => t \in Elems(old))
      /\ \A t \in Elems(old) : ~t.generated => t \in Elems(seen)
      /\ \A t \in Elems(old) : t \in W
  BY SourcesFacts, ListFacts DEF Elems
<1> HIDE DEF seen, old
<1>3. /\ A \in SUBSET DOMAIN seen /\ B \in SUBSET DOMAIN seen
      /\ C \in SUBSET DOMAIN seen /\ D \in SUBSET DOMAIN seen
  OBVIOUS
<1>4. /\ \A i \in DOMAIN seen : IsManual(seen[i]) => i \in A
      /\ \A i \in C \cup D : ~IsManual(seen[i])
  BY ManualApplies
<1> HIDE DEF A, B, C, D
<1>5. /\ active \in Seq(W) /\ Elems(active) = {seen[i] : i \in A}
      /\ rates \in Seq(W) /\ Elems(rates) = {seen[i] : i \in B}
      /\ out \in Seq(W) /\ Elems(out) = {seen[i] : i \in C}
      /\ later \in Seq(W) /\ Elems(later) = {seen[i] : i \in D}
  BY <1>2, <1>3, PlacesFacts
<1> HIDE DEF active, rates, out, later
<1>6. NoManual(out) /\ NoManual(later)
  BY <1>4, <1>5 DEF NoManual
<1>7. \A i \in DOMAIN active : active[i] \in Elems(seen) /\ active[i] \in W
  <2>1. \A t \in Elems(active) : t \in Elems(seen)
    BY <1>3, <1>5 DEF Elems
  <2>2. QED
    BY <1>2, <2>1 DEF Elems
<1>8. \A i \in DOMAIN active :
          /\ shown[i] \in W /\ shown[i].id = active[i].id /\ shown[i].effect = active[i].effect
          /\ (IsManual(shown[i]) <=> IsManual(active[i]))
          /\ (IsManual(active[i]) => shown[i] = active[i])
  BY <1>7, ScopedFacts
<1>9. DOMAIN shown = DOMAIN active /\ shown \in Seq(W)
  <2>1. Len(active) \in Nat /\ DOMAIN active = 1 .. Len(active)
    BY <1>5
  <2>2. DOMAIN shown = DOMAIN active /\ shown \in [1 .. Len(active) -> W]
    <3> HIDE DEF W
    <3> QED BY <1>8, <2>1
  <2> HIDE DEF shown, W
  <2>3. QED
    BY <2>1, <2>2, SeqOfFunction
<1> HIDE DEF shown
<1>10. added \in Seq(W) /\ \A t \in Elems(added) : t \in W /\ t.generated /\ ~IsManual(t)
  BY AddedFacts
<1> HIDE DEF added
<1>11. all \in Seq(W) /\ Elems(all) = Elems(shown) \cup Elems(rates) \cup Elems(added)
  <2> DEFINE d == shown \o rates
  <2>1. d \in Seq(W) /\ Elems(d) = Elems(shown) \cup Elems(rates)
    <3> HIDE DEF W
    <3> QED BY <1>5, <1>9, ConcatFacts
  <2> HIDE DEF d
  <2>2. d \o added \in Seq(W) /\ Elems(d \o added) = Elems(d) \cup Elems(added)
    <3> HIDE DEF W
    <3> QED BY <1>10, <2>1, ConcatFacts
  <2>3. QED
    BY <2>1, <2>2 DEF d
<1> HIDE DEF all
<1>12. /\ new \in Seq(W) /\ Unique(new) /\ Elems(new) \subseteq Elems(all)
       /\ \A t \in Elems(all) : \E u \in Elems(new) : u.id = t.id
  BY <1>11, ByIdFacts
<1> HIDE DEF new
<1>13. IsList(m, n)
  BY <1>1, <1>5, <1>6, <1>12 DEF IsList, Lists
<1>14. m.tickets = new
  BY <1>1
<1>15. ASSUME NEW t \in Elems(new)
       PROVE  /\ t \in W
              /\ (t.generated /\ ~IsManual(t)) \/ staying(t)
  <2>1. t \in W
    <3>1. \A i \in DOMAIN new : new[i] \in W
      BY <1>12
    <3>2. QED
      BY <3>1 DEF Elems
  <2>2. CASE t \in Elems(shown)
    BY <1>7, <1>8, <1>9, <2>1, <2>2 DEF Elems
  <2>3. CASE t \in Elems(rates)
    <3>1. PICK i \in B : t = seen[i]
      BY <1>5, <2>3
    <3>2. t \in Elems(seen)
      BY <1>3, <3>1 DEF Elems
    <3>3. QED
      BY <2>1, <3>2
  <2>4. CASE t \in Elems(added)
    BY <1>10, <2>1, <2>4
  <2>5. QED
    BY <1>11, <1>12, <2>2, <2>3, <2>4
<1> HIDE DEF staying
<1>16. Carries(old, new)
  <2>1. SUFFICES ASSUME NEW was \in Elems(old), NEW is \in Elems(new), was.id = is.id, ~was.generated
                 PROVE  is.effect = was.effect
    BY DEF Carries
  <2>2. was \in W /\ is \in W
    BY <1>2, <1>15
  <2>3. ~is.generated
    BY <2>1, <2>2, KindOfId
  <2>4. PICK s \in Elems(seen) : is.id = s.id /\ is.effect = s.effect
    <3>1. staying(is)
      BY <1>15, <2>3
    <3>2. QED
      BY <3>1 DEF staying
  <2>5. was \in Elems(seen)
    BY <1>2, <2>1
  <2>6. s = was
    BY <1>2, <2>1, <2>4, <2>5 DEF Unique, Elems
  <2>7. QED
    BY <2>4, <2>6
<1>17. ManualIds(new) = ManualIds(old)
  <2>1. ASSUME NEW t \in Elems(new), IsManual(t) PROVE t.id \in ManualIds(old)
    <3>1. PICK s \in Elems(seen) : t.id = s.id /\ IsManual(s)
      <4>1. staying(t)
        BY <1>15, <2>1
      <4>2. QED
        BY <2>1, <4>1 DEF staying
    <3>2. QED
      BY <1>2, <3>1 DEF ManualIds
  <2>2. ASSUME NEW t \in Elems(old), IsManual(t) PROVE t.id \in ManualIds(new)
    <3>1. t \in W
      BY <1>2
    <3>2. ~t.generated
      BY <2>2, <3>1 DEF Whole
    <3>3. PICK k \in DOMAIN seen : t = seen[k]
      BY <1>2, <3>2 DEF Elems
    <3>4. k \in A
      BY <1>4, <2>2, <3>3
    <3>5. t \in Elems(active)
      BY <1>5, <3>3, <3>4
    <3>6. t \in Elems(shown)
      BY <1>8, <1>9, <2>2, <3>5 DEF Elems
    <3>7. PICK u \in Elems(new) : u.id = t.id
      BY <1>11, <1>12, <3>6
    <3>8. u \in W
      BY <1>15
    <3>9. IsManual(u)
      BY <2>2, <3>1, <3>7, <3>8, KindOfId
    <3>10. QED
      BY <3>7, <3>9 DEF ManualIds
  <2>3. QED
    BY <2>1, <2>2 DEF ManualIds
<1> HIDE DEF m
<1>18. QED
  BY <1>13, <1>14, <1>16, <1>17 DEF m, old

LEMMA ListNormalized ==
    ASSUME NEW n \in Nat, NEW l, IsList(l, n)
    PROVE  LET m == NormalizedList(l)
           IN /\ IsList(m, n) /\ Carries(l.tickets, m.tickets)
              /\ ManualIds(m.tickets) = ManualIds(l.tickets)
<1>1. CASE l.tickets = << >>
  BY <1>1, CarriesFacts, ListFacts DEF NormalizedList
<1>2. CASE l.tickets # << >>
  BY <1>2, ScopeFacts DEF NormalizedList
<1>3. QED
  BY <1>1, <1>2

-----------------------------------------------------------------------------
(* Building                                                                *)

BuiltTitles == {"definition", "sitemap", "shell", "baseline", "raise_lower", "raise_low"}

LEMMA TitlesFacts ==
    << "definition" >> \o FromAudit \o FromMetrics \in Seq(BuiltTitles)
<1>1. \A p : \A title \in BuiltTitles : When(p, title) \in Seq(BuiltTitles)
  BY DEF When
<1>2. /\ "definition" \in BuiltTitles /\ "sitemap" \in BuiltTitles /\ "shell" \in BuiltTitles
      /\ "baseline" \in BuiltTitles /\ "raise_lower" \in BuiltTitles /\ "raise_low" \in BuiltTitles
  BY DEF BuiltTitles
<1> DEFINE T == BuiltTitles
<1> HIDE DEF T
<1>3. FromAudit \in Seq(T)
  <2> DEFINE a == When(~audit.sitemap, "sitemap")
             b == When(audit.page = "shell", "shell")
  <2>1. a \in Seq(T) /\ b \in Seq(T)
    BY <1>1, <1>2 DEF T
  <2>2. FromAudit = a \o b
    BY DEF FromAudit
  <2> HIDE DEF a, b
  <2>3. QED
    BY <2>1, <2>2
<1>4. FromMetrics \in Seq(T)
  <2> DEFINE a == When(~EnoughSamples, "baseline")
             b == When(sampled[Latest] = "lower", "raise_lower")
             c == When(sampled[Latest] = "low", "raise_low")
  <2>1. a \in Seq(T) /\ b \in Seq(T) /\ c \in Seq(T)
    BY <1>1, <1>2 DEF T
  <2>2. FromMetrics = IF Latest = 0 THEN << >> ELSE a \o b \o c
    BY DEF FromMetrics
  <2> HIDE DEF a, b, c
  <2>3. QED
    BY <2>1, <2>2
<1>5. << "definition" >> \in Seq(T)
  BY <1>2 DEF T
<1>6. << "definition" >> \o FromAudit \in Seq(T)
  BY <1>3, <1>5
<1>7. QED
  BY <1>4, <1>6 DEF T

LEMMA RebuiltFacts ==
    ASSUME NEW n \in Nat, IsList(list, n), NEW i \in Nat, NEW title \in BuiltTitles
    PROVE  LET r == Rebuilt(i, title)
           IN /\ r \in Whole(n) /\ r.id = <<"T", i>> /\ r.title = title /\ ~IsManual(r)
              /\ \A was \in Elems(list.tickets) :
                    was.id = r.id /\ was.title = r.title => r.effect = was.effect
<1> DEFINE id    == <<"T", i>>
           r     == Rebuilt(i, title)
           old   == Previous(id, title)
           w     == LastOf(list.tickets, old)
           seq   == list.tickets
<1>1. seq \in Seq(Whole(n)) /\ Unique(seq)
  BY ListFacts
<1>2. id \in Id /\ id[1] # "A" /\ id[1] # "M" /\ title \in Title /\ title # "offsite"
  BY DEF Id, BuiltTitles, Title, RateTitle
<1> HIDE DEF id
<1>3. PICK no \in BOOLEAN : no = FALSE
  OBVIOUS
<1> DEFINE new == NewTicket(id, title, no)
<1>4. new \in Whole(n) /\ new.id = id /\ new.title = title /\ new.generated = no
  <2>1. new \in Whole(n)
    BY <1>2, <1>3, NewTicketFacts
  <2>2. QED
    BY <2>1 DEF NewTicket
<1>5. new \in Ticket
  BY <1>4 DEF Whole
<1>6. r = IF old = {} THEN new
          ELSE [new EXCEPT !.status = w.status, !.custom = w.custom, !.effect = w.effect]
  BY <1>3 DEF Rebuilt, id
<1>7. /\ old \in SUBSET DOMAIN seq
      /\ \A k \in DOMAIN seq : seq[k].id = id /\ seq[k].title = title =>
             k \in old /\ \A j \in old : seq[j].id = id
  BY DEF Previous, Holding
<1> HIDE DEF old, new, r
<1>8. CASE old = {}
  <2>1. r = new
    BY <1>6, <1>8
  <2>2. \A was \in Elems(seq) : ~(was.id = id /\ was.title = title)
    BY <1>7, <1>8 DEF Elems
  <2>3. QED
    BY <1>2, <1>4, <2>1, <2>2 DEF r, id, IsManual
<1>9. CASE old # {}
  <2>1. w \in Whole(n) /\ \E k \in old : w = seq[k]
    BY <1>1, <1>7, <1>9, LastOfFacts
  <2>2. w \in Ticket /\ w.effect.baseline <= n
    BY <2>1 DEF Whole
  <2> HIDE DEF w
  <2>3. w.status \in Status /\ w.custom \in BOOLEAN /\ w.effect \in Effect
    BY <2>2, FieldsOf
  <2>4. r = [new EXCEPT !.status = w.status, !.custom = w.custom, !.effect = w.effect]
    BY <1>6, <1>9
  <2>5. r \in Ticket
    BY <1>5, <2>3, <2>4, RewrittenFacts, FieldsOf
  <2>6. r.id = id /\ r.title = title /\ r.generated = no /\ r.effect = w.effect
    BY <1>4, <1>5, <2>4 DEF Ticket
  <2>7. r \in Whole(n)
    BY <1>4, <2>2, <2>5, <2>6, StaysWhole
  <2>8. ASSUME NEW was \in Elems(seq), was.id = id, was.title = title PROVE w.effect = was.effect
    <3>1. PICK k \in DOMAIN seq : was = seq[k]
      BY DEF Elems
    <3>2. \A j \in old : j = k
      BY <1>1, <1>7, <2>8, <3>1 DEF Unique
    <3>3. QED
      BY <2>1, <3>1, <3>2
  <2>9. ~IsManual(r)
    BY <1>2, <2>6 DEF IsManual
  <2>10. QED
    BY <2>6, <2>7, <2>8, <2>9 DEF r, id
<1>10. QED
  BY <1>8, <1>9

LEMMA BuildFacts ==
    ASSUME NEW n \in Nat, IsList(list, n)
    PROVE  IsList(Build, n) /\ NoManual(Build.tickets) /\ Carries(list.tickets, Build.tickets)
<1> DEFINE W == Whole(n)
           titles == << "definition" >> \o FromAudit \o FromMetrics
           new == [i \in DOMAIN titles |-> Rebuilt(i, titles[i])]
           none == << >>
<1>1. Build = [tickets |-> new, excluded |-> none, deferred |-> none]
  BY DEF Build
<1>2. titles \in Seq(BuiltTitles)
  BY TitlesFacts
<1> HIDE DEF titles
<1>3. Len(titles) \in Nat /\ DOMAIN titles = 1 .. Len(titles)
      /\ \A i \in DOMAIN titles : titles[i] \in BuiltTitles
  BY <1>2
<1>4. ASSUME NEW i \in DOMAIN titles
      PROVE  /\ new[i] \in W /\ new[i].id = <<"T", i>> /\ ~IsManual(new[i])
             /\ \A was \in Elems(list.tickets) :
                    was.id = new[i].id /\ was.title = new[i].title => new[i].effect = was.effect
  <2>1. i \in Nat /\ titles[i] \in BuiltTitles
    BY <1>3
  <2>2. QED
    BY <2>1, RebuiltFacts
<1>5. DOMAIN new = DOMAIN titles /\ new \in Seq(W)
  <2>1. DOMAIN new = DOMAIN titles /\ new \in [1 .. Len(titles) -> W]
    <3> HIDE DEF W
    <3> QED BY <1>3, <1>4
  <2> HIDE DEF new, W
  <2>2. QED
    BY <1>3, <2>1, SeqOfFunction
<1> HIDE DEF new
<1>6. Unique(new) /\ NoManual(new) /\ Carries(list.tickets, new)
  <2>1. ASSUME NEW i \in DOMAIN titles, NEW j \in DOMAIN titles, new[i].id = new[j].id PROVE i = j
    <3>1. <<"T", i>> = <<"T", j>>
      BY <1>4, <2>1
    <3>2. QED
      BY <3>1
  <2>2. Unique(new)
    BY <1>5, <2>1 DEF Unique
  <2>3. NoManual(new)
    BY <1>4, <1>5 DEF NoManual, Elems
  <2>4. Carries(list.tickets, new)
    BY <1>4, <1>5 DEF Carries, Elems
  <2>5. QED
    BY <2>2, <2>3, <2>4
<1>7. none \in Seq(W) /\ NoManual(none)
  BY DEF NoManual, Elems
<1>8. IsList(Build, n)
  <2> HIDE DEF none
  <2> QED BY <1>1, <1>5, <1>6, <1>7 DEF IsList, Lists
<1>9. QED
  BY <1>1, <1>6, <1>8

-----------------------------------------------------------------------------
(* Verification, experiments and people's edits                            *)

\* What ExperimentsComparable says of two experiments of one ticket.
Comparable(was, is) ==
    /\ is.baseline = was.baseline
    /\ was.state \in {"deployed", "observing"} => is.bound = was.bound
    /\ was.state \in {"effective", "ineffective"} => is = was
    /\ is.state # was.state /\ is.state # "observing" =>
           day >= was.ends /\ Latest > was.baseline

Compares(old, new) ==
    \A was \in Elems(old), is \in Elems(new) :
        was.id = is.id /\ was.title = is.title /\ ~was.generated /\ was.effect.state # "draft" =>
            Comparable(was.effect, is.effect)

LEMMA CarriesCompares ==
    ASSUME NEW old, NEW new, Carries(old, new)
    PROVE  Compares(old, new)
BY DEF Carries, Compares, Comparable

LEMMA ReworkedCompares ==
    ASSUME NEW old, NEW new, Unique(old), Reworked(new, old),
           \A i \in DOMAIN old : old[i].effect.state # "draft" =>
               Comparable(old[i].effect, new[i].effect)
    PROVE  Compares(old, new)
<1>1. SUFFICES ASSUME NEW i \in DOMAIN old, NEW j \in DOMAIN new, old[i].id = new[j].id,
                      old[i].effect.state # "draft"
               PROVE  Comparable(old[i].effect, new[j].effect)
  BY DEF Compares, Elems
<1>2. j \in DOMAIN old /\ new[j].id = old[j].id
  BY DEF Reworked
<1>3. i = j
  BY <1>1, <1>2 DEF Unique
<1>4. QED
  BY <1>1, <1>3

\* One ticket after another, each kept what it is.
LEMMA ReworkedList ==
    ASSUME NEW n, NEW l, IsList(l, n), NEW m, NEW new \in [DOMAIN l.tickets -> Whole(m)],
           Reworked(new, l.tickets), Whole(n) \subseteq Whole(m)
    PROVE  LET k == [l EXCEPT !.tickets = new]
           IN /\ IsList(k, m) /\ k.tickets = new
              /\ ManualIds(new) = ManualIds(l.tickets)
              /\ NoManual(l.tickets) => NoManual(new)
<1> DEFINE W == Whole(m)
           V == Whole(n)
           s == l.tickets
           k == [l EXCEPT !.tickets = new]
<1>1. Len(s) \in Nat /\ DOMAIN s = 1 .. Len(s) /\ Unique(s)
  BY ListFacts
<1>2. new \in Seq(W)
  <2> HIDE DEF W, s
  <2> QED BY <1>1, SeqOfFunction DEF s, W
<1>3. Unique(new) /\ ManualIds(new) = ManualIds(s) /\ (NoManual(s) => NoManual(new))
  BY <1>1, ReworkedFacts
<1>4. l \in Lists(m)
  <2>1. V \subseteq W
    OBVIOUS
  <2> HIDE DEF V, W
  <2>2. Seq(V) \subseteq Seq(W)
    BY <2>1
  <2>3. QED
    BY <2>2 DEF IsList, Lists, V, W
<1>5. IsList(l, m)
  BY <1>4 DEF IsList
<1>6. IsList(k, m) /\ k.tickets = new
  BY <1>2, <1>3, <1>5, ListFacts
<1>7. QED
  BY <1>3, <1>6

LEMMA VerifiedFacts ==
    ASSUME NEW n, NEW t \in Whole(n)
    PROVE  LET v == Verified(t)
           IN v \in Whole(n) /\ v.id = t.id /\ v.title = t.title /\ v.effect = t.effect
<1>1. t \in Ticket /\ t.effect.baseline <= n
  BY DEF Whole
<1> DEFINE s == CASE Verdict(t) = "pass" -> "done"
                  [] Verdict(t) = "fail" /\ t.status = "done" -> "todo"
                  [] OTHER -> t.status
           v == Verified(t)
<1>2. v = [t EXCEPT !.status = s]
  BY DEF Verified
<1>3. s \in Status
  BY <1>1, FieldsOf DEF Status
<1> HIDE DEF s, v
<1>4. v \in Ticket
  BY <1>1, <1>2, <1>3 DEF Ticket
<1>5. v.id = t.id /\ v.title = t.title /\ v.generated = t.generated /\ v.effect = t.effect
  BY <1>1, <1>2 DEF Ticket
<1>6. v \in Whole(n)
  BY <1>1, <1>4, <1>5, StaysWhole
<1>7. QED
  BY <1>5, <1>6 DEF v

LEMMA DeployedFacts ==
    ASSUME Latest \in Nat, day \in Nat, NEW t \in Whole(Latest)
    PROVE  LET d == Deployed(t)
           IN /\ d \in Whole(Latest) /\ d.id = t.id /\ d.title = t.title
              /\ t.effect.state # "draft" => d.effect = t.effect
<1>1. t \in Ticket /\ t.effect \in Effect /\ t.effect.baseline <= Latest
  BY FieldsOf DEF Whole
<1> DEFINE e == [t.effect EXCEPT !.state = "deployed", !.baseline = Latest,
                                 !.ends = day + ObservationDays]
           d == [t EXCEPT !.effect = e]
<1>2. e \in Effect /\ e.baseline = Latest
  <2>1. "deployed" \in State /\ day + ObservationDays \in Nat
    BY DEF State, ObservationDays
  <2>2. QED
    BY <1>1, <2>1 DEF Effect
<1>3. Deployed(t) = d \/ Deployed(t) = t
  BY DEF Deployed
<1>4. t.effect.state # "draft" => Deployed(t) = t
  BY DEF Deployed
<1> HIDE DEF e
<1>5. d \in Ticket
  BY <1>1, <1>2 DEF Ticket
<1>6. d.id = t.id /\ d.title = t.title /\ d.generated = t.generated /\ d.effect = e
  BY <1>1 DEF Ticket
<1> HIDE DEF d
<1>7. d.effect.baseline <= Latest
  BY <1>2, <1>6
<1>8. d \in Whole(Latest)
  BY <1>5, <1>6, <1>7, StaysWhole
<1>9. QED
  BY <1>3, <1>4, <1>6, <1>8

LEMMA EvaluatedFacts ==
    ASSUME NEW n, Latest \in Nat, day \in Nat, n = Latest, NEW t \in Whole(n),
           NEW verdict \in {"effective", "ineffective", "inconclusive"}
    PROVE  LET v == Evaluated(t, verdict)
           IN /\ v \in Whole(n) /\ v.id = t.id /\ v.title = t.title
              /\ Comparable(t.effect, v.effect)
<1>1. /\ t \in Ticket /\ t.effect \in Effect /\ t.effect.baseline <= n
      /\ t.effect.baseline \in Nat /\ t.effect.ends \in Nat
  BY FieldsOf DEF Whole
<1>2. CASE ~Judged(t.effect)
  BY <1>2 DEF Evaluated, Comparable
<1>3. CASE Judged(t.effect)
  <2> DEFINE s == IF day < t.effect.ends THEN "observing"
                  ELSE IF t.effect.bound THEN verdict ELSE "inconclusive"
             e == [t.effect EXCEPT !.state = s]
             v == [t EXCEPT !.effect = e]
  <2>1. Evaluated(t, verdict) = v
    BY <1>1, <1>3 DEF Evaluated, Ticket
  <2>2. s \in State /\ (s # "observing" => ~(day < t.effect.ends))
    BY DEF State
  <2> HIDE DEF s
  <2>3. /\ e \in Effect /\ e.state = s /\ e.bound = t.effect.bound
        /\ e.baseline = t.effect.baseline /\ e.ends = t.effect.ends
    BY <1>1, <2>2 DEF Effect
  <2> HIDE DEF e
  <2>4. v \in Ticket
    BY <1>1, <2>3 DEF Ticket
  <2>5. v.id = t.id /\ v.title = t.title /\ v.generated = t.generated /\ v.effect = e
    BY <1>1 DEF Ticket
  <2> HIDE DEF v
  <2>6. v.effect.baseline <= n
    BY <1>1, <2>3, <2>5
  <2>7. v \in Whole(n)
    BY <2>4, <2>5, <2>6, StaysWhole
  <2>8. Comparable(t.effect, e)
    <3>1. t.effect.state \in {"deployed", "observing"} /\ t.effect.baseline # Latest
      BY <1>3 DEF Judged
    <3>2. e.state # "observing" => day >= t.effect.ends
      BY <1>1, <2>2, <2>3
    <3>3. Latest > t.effect.baseline
      BY <1>1, <3>1
    <3>4. QED
      BY <2>3, <3>1, <3>2, <3>3 DEF Comparable
  <2>9. QED
    BY <2>1, <2>5, <2>7, <2>8
<1>4. QED
  BY <1>2, <1>3

LEMMA AppliedFacts ==
    ASSUME NEW n, NEW t \in Whole(n), NEW change \in Changes
    PROVE  LET a == Applied(t, change)
           IN a \in Whole(n) /\ a.id = t.id /\ a.title = t.title /\ a.effect = t.effect
<1>1. t \in Ticket /\ t.effect.baseline <= n
  BY DEF Whole
<1> DEFINE s == IF change.status = "as_is" THEN t.status ELSE change.status
           o == IF change.owner = "as_is" THEN t.owner ELSE change.owner
           new == [t EXCEPT !.status = s, !.owner = o]
           a == Applied(t, change)
<1>2. s \in Status /\ o \in Person \cup {"role"}
  <2>1. change \in Change
    BY TicketsAssumption
  <2>2. change.status \in Status \cup {"as_is"} /\ change.owner \in Person \cup {"as_is"}
    BY <2>1 DEF Change
  <2>3. QED
    BY <1>1, <2>2, FieldsOf
<1> HIDE DEF s, o
<1>3. /\ new \in Ticket /\ new.id = t.id /\ new.title = t.title
      /\ new.generated = t.generated /\ new.effect = t.effect
  BY <1>1, <1>2 DEF Ticket
<1>4. PICK yes \in BOOLEAN : yes = TRUE
  OBVIOUS
<1> DEFINE staying == [new EXCEPT !.custom = yes]
<1>5. a = t \/ a = staying
  BY <1>4 DEF Applied, s, o
<1> HIDE DEF a, new
<1>6. /\ staying \in Ticket /\ staying.id = t.id /\ staying.title = t.title
      /\ staying.generated = t.generated /\ staying.effect = t.effect
  BY <1>3 DEF Ticket
<1> HIDE DEF staying
<1>7. staying \in Whole(n)
  <2>1. staying.effect.baseline <= n
    BY <1>1, <1>6
  <2>2. QED
    BY <1>6, <2>1, StaysWhole
<1>8. QED
  BY <1>5, <1>6, <1>7 DEF a

\* There is always a number left for an offsite ticket.
LEMMA NumberLeft ==
    ASSUME NEW R, NEW seq \in Seq(R)
    PROVE  \E n \in 1 .. Len(seq) + 1 : <<"M", n>> \notin {seq[i].id : i \in DOMAIN seq}
<1> SUFFICES ASSUME \A n \in 1 .. Len(seq) + 1 : \E i \in DOMAIN seq : seq[i].id = <<"M", n>>
             PROVE  FALSE
  OBVIOUS
<1> DEFINE N == 1 .. Len(seq) + 1
           D == 1 .. Len(seq)
           f == [n \in N |-> CHOOSE i \in D : seq[i].id = <<"M", n>>]
<1>1. Len(seq) \in Nat /\ DOMAIN seq = D
  OBVIOUS
<1>2. \A n \in N : f[n] \in D /\ seq[f[n]].id = <<"M", n>>
  BY <1>1
<1>3. f \in Injection(N, D)
  <2>1. f \in [N -> D]
    BY <1>2
  <2>2. ASSUME NEW n \in N, NEW m \in N, f[n] = f[m] PROVE n = m
    <3>1. <<"M", n>> = <<"M", m>>
      <4> HIDE DEF f
      <4> QED BY <1>2, <2>2
    <3>2. QED
      BY <3>1
  <2> HIDE DEF f
  <2>3. QED
    BY <2>1, <2>2 DEF Injection, IsInjective
<1>4. IsFiniteSet(D) /\ Cardinality(D) = Len(seq) /\ Cardinality(N) = Len(seq) + 1
  BY <1>1, FS_Interval
<1> HIDE DEF f, N, D
<1>5. Cardinality(N) <= Cardinality(D)
  BY <1>3, <1>4, FS_Injection
<1>6. QED
  BY <1>1, <1>4, <1>5

LEMMA NextOffsiteFacts ==
    ASSUME NEW n, NEW l, IsList(l, n)
    PROVE  LET id == NextOffsite(l)
           IN id \in Id /\ id[1] = "M" /\ \A t \in Elems(l.tickets) : t.id # id
<1> DEFINE seq == l.tickets
           used == {seq[i].id : i \in DOMAIN seq}
           N == 1 .. Len(seq) + 1
           open(k) == <<"M", k>> \notin used
           free == {k \in N : open(k)}
           least(k) == open(k) /\ \A m \in 1 .. k - 1 : ~open(m)
           next == CHOOSE k \in N : least(k)
<1>1. seq \in Seq(Whole(n)) /\ Len(seq) \in Nat
  BY ListFacts
<1>2. free # {} /\ free \in SUBSET (0 .. Len(seq) + 1)
  <2>1. \E k \in N : open(k)
    <3> HIDE DEF seq
    <3> QED BY <1>1, NumberLeft
  <2>2. N \in SUBSET (0 .. Len(seq) + 1)
    BY <1>1
  <2> HIDE DEF N, open
  <2>3. QED
    BY <2>1, <2>2
<1>3. \E k \in N : least(k)
  <2> DEFINE k == Min(free)
  <2>1. k \in free /\ \A e \in free : k <= e
    <3> HIDE DEF free
    <3> QED BY <1>1, <1>2, MinOf
  <2> HIDE DEF k
  <2>2. k \in N /\ open(k)
    BY <2>1
  <2>3. ASSUME NEW m \in 1 .. k - 1 PROVE ~open(m)
    <3>1. k \in Nat
      BY <1>1, <2>2
    <3>2. m \in N /\ ~(k <= m)
      BY <1>1, <2>2, <3>1
    <3>3. m \notin free
      BY <2>1, <3>2
    <3>4. QED
      BY <3>2, <3>3
  <2> HIDE DEF N, open
  <2>4. QED
    BY <2>2, <2>3
<1>4. next \in N /\ least(next)
  <2> HIDE DEF N, least
  <2> QED BY <1>3
<1>5. NextOffsite(l) = <<"M", next>>
  BY DEF NextOffsite
<1> HIDE DEF next
<1>6. next \in Nat
  BY <1>1, <1>4
<1>7. <<"M", next>> \in Id
  BY <1>6 DEF Id
<1>8. \A t \in Elems(seq) : t.id # <<"M", next>>
  BY <1>4 DEF Elems
<1>9. QED
  BY <1>5, <1>7, <1>8

-----------------------------------------------------------------------------
(* The steps of a job                                                      *)

Same(f, d, n, k) == \A i \in 1 .. n : f[k + i] = d[i]

LEMMA Joined ==
    ASSUME NEW R, NEW d \in Seq(R), NEW e \in Seq(R)
    PROVE  /\ d \o e \in Seq(R) /\ Len(d \o e) = Len(d) + Len(e)
           /\ Same(d \o e, d, Len(d), 0) /\ Same(d \o e, e, Len(e), Len(d))
<1>1. d \o e \in Seq(R) /\ Len(d \o e) = Len(d) + Len(e)
  OBVIOUS
<1>2. \A i \in 1 .. Len(d) : (d \o e)[0 + i] = d[i]
  OBVIOUS
<1>3. ASSUME NEW i \in 1 .. Len(e) PROVE (d \o e)[Len(d) + i] = e[i]
  <2>1. /\ Len(d) + i \in 1 .. Len(d) + Len(e) /\ ~(Len(d) + i <= Len(d))
        /\ (Len(d) + i) - Len(d) = i
    OBVIOUS
  <2>2. (d \o e)[Len(d) + i] = e[(Len(d) + i) - Len(d)]
    BY <2>1, ConcatProperties
  <2>3. QED
    BY <2>1, <2>2
<1>4. QED
  BY <1>1, <1>2, <1>3 DEF Same

LEMMA Scripts ==
    Jobs = {<<"build", "scope", "manual", "workflow", "restore", "normalize">>,
            <<"crawl", "sample", "build", "scope", "manual", "workflow", "verify", "restore",
              "normalize">>,
            <<"crawl", "verify", "record">>,
            <<"sample", "normalize", "evaluate">>,
            <<"crawl", "sample", "normalize", "evaluate">>,
            <<"crawl", "verify", "normalize">>,
            <<"sample", "normalize">>}
<1> DEFINE T == StepNames
<1> HIDE DEF T
<1>1. TaskPreserving(CmdPlan) = <<"build", "scope", "manual", "workflow", "restore", "normalize">>
  <2> DEFINE a == <<"build", "scope", "manual", "workflow">>
             b == <<"restore">>
             c == <<"normalize">>
  <2>1. TaskPreserving(CmdPlan) = (a \o b) \o c
    BY DEF TaskPreserving, TaskPipeline, CmdPlan
  <2>2. /\ a \in Seq(T) /\ Len(a) = 4 /\ a[1] = "build" /\ a[2] = "scope" /\ a[3] = "manual"
        /\ a[4] = "workflow"
    BY DEF T, StepNames
  <2>3. b \in Seq(T) /\ Len(b) = 1 /\ b[1] = "restore"
    BY DEF T, StepNames
  <2>4. c \in Seq(T) /\ Len(c) = 1 /\ c[1] = "normalize"
    BY DEF T, StepNames
  <2> HIDE DEF a, b, c
  <2> DEFINE p == a \o b
  <2>5. /\ p \in Seq(T) /\ Len(p) = 5
        /\ Same(p, a, 4, 0) /\ Same(p, b, 1, 4)
    <3>1. /\ p \in Seq(T) /\ Len(p) = Len(a) + Len(b)
          /\ Same(p, a, Len(a), 0) /\ Same(p, b, Len(b), Len(a))
      BY <2>2, <2>3, Joined
    <3> HIDE DEF p
    <3>2. QED
      BY <2>2, <2>3, <3>1
  <2> HIDE DEF p
  <2>6. /\ p \in Seq(T) /\ Len(p) = 5 /\ p[1] = "build" /\ p[2] = "scope" /\ p[3] = "manual"
        /\ p[4] = "workflow" /\ p[5] = "restore"
    <3>1. p[1] = "build" /\ p[2] = "scope" /\ p[3] = "manual" /\ p[4] = "workflow"
      BY <2>2, <2>5 DEF Same
    <3>2. p[4 + 1] = b[1]
      BY <2>5 DEF Same
    <3>3. QED
      BY <2>3, <2>5, <3>1, <3>2
  <2> DEFINE q == p \o c
  <2>7. /\ q \in Seq(T) /\ Len(q) = 6
        /\ Same(q, p, 5, 0) /\ Same(q, c, 1, 5)
    <3>1. /\ q \in Seq(T) /\ Len(q) = Len(p) + Len(c)
          /\ Same(q, p, Len(p), 0) /\ Same(q, c, Len(c), Len(p))
      BY <2>6, <2>4, Joined
    <3> HIDE DEF q
    <3>2. QED
      BY <2>6, <2>4, <3>1
  <2> HIDE DEF q
  <2>8. /\ q \in Seq(T) /\ Len(q) = 6 /\ q[1] = "build" /\ q[2] = "scope" /\ q[3] = "manual"
        /\ q[4] = "workflow" /\ q[5] = "restore" /\ q[6] = "normalize"
    <3>1. /\ q[1] = "build" /\ q[2] = "scope" /\ q[3] = "manual" /\ q[4] = "workflow"
          /\ q[5] = "restore"
      BY <2>6, <2>7 DEF Same
    <3>2. q[5 + 1] = c[1]
      BY <2>7 DEF Same
    <3>3. QED
      BY <2>4, <2>7, <3>1, <3>2
  <2>9. q = <<"build", "scope", "manual", "workflow", "restore", "normalize">>
    BY <2>8
  <2>10. QED
    BY <2>1, <2>9 DEF p, q
<1>2. TaskPreserving(CmdServe) = <<"crawl", "sample", "build", "scope", "manual", "workflow",
                                  "verify", "restore", "normalize">>
  <2> DEFINE a == <<"crawl", "sample">>
             b == <<"build", "scope", "manual", "workflow">>
             c == <<"verify">>
             d == <<"restore">>
             e == <<"normalize">>
  <2>1. TaskPreserving(CmdServe) = (((a \o b) \o c) \o d) \o e
    BY DEF TaskPreserving, TaskPipeline, CmdServe, CmdPlan
  <2>2. a \in Seq(T) /\ Len(a) = 2 /\ a[1] = "crawl" /\ a[2] = "sample"
    BY DEF T, StepNames
  <2>3. /\ b \in Seq(T) /\ Len(b) = 4 /\ b[1] = "build" /\ b[2] = "scope" /\ b[3] = "manual"
        /\ b[4] = "workflow"
    BY DEF T, StepNames
  <2>4. c \in Seq(T) /\ Len(c) = 1 /\ c[1] = "verify"
    BY DEF T, StepNames
  <2>5. d \in Seq(T) /\ Len(d) = 1 /\ d[1] = "restore"
    BY DEF T, StepNames
  <2>6. e \in Seq(T) /\ Len(e) = 1 /\ e[1] = "normalize"
    BY DEF T, StepNames
  <2> HIDE DEF a, b, c, d, e
  <2> DEFINE p == a \o b
  <2>7. /\ p \in Seq(T) /\ Len(p) = 6
        /\ Same(p, a, 2, 0) /\ Same(p, b, 4, 2)
    <3>1. /\ p \in Seq(T) /\ Len(p) = Len(a) + Len(b)
          /\ Same(p, a, Len(a), 0) /\ Same(p, b, Len(b), Len(a))
      BY <2>2, <2>3, Joined
    <3> HIDE DEF p
    <3>2. QED
      BY <2>2, <2>3, <3>1
  <2> HIDE DEF p
  <2>8. /\ p \in Seq(T) /\ Len(p) = 6 /\ p[1] = "crawl" /\ p[2] = "sample" /\ p[3] = "build"
        /\ p[4] = "scope" /\ p[5] = "manual" /\ p[6] = "workflow"
    <3>1. p[1] = "crawl" /\ p[2] = "sample"
      BY <2>2, <2>7 DEF Same
    <3>2. p[2 + 1] = b[1] /\ p[2 + 2] = b[2] /\ p[2 + 3] = b[3] /\ p[2 + 4] = b[4]
      BY <2>7 DEF Same
    <3>3. QED
      BY <2>3, <2>7, <3>1, <3>2
  <2> DEFINE q == p \o c
  <2>9. /\ q \in Seq(T) /\ Len(q) = 7
        /\ Same(q, p, 6, 0) /\ Same(q, c, 1, 6)
    <3>1. /\ q \in Seq(T) /\ Len(q) = Len(p) + Len(c)
          /\ Same(q, p, Len(p), 0) /\ Same(q, c, Len(c), Len(p))
      BY <2>8, <2>4, Joined
    <3> HIDE DEF q
    <3>2. QED
      BY <2>8, <2>4, <3>1
  <2> HIDE DEF q
  <2>10. /\ q \in Seq(T) /\ Len(q) = 7 /\ q[1] = "crawl" /\ q[2] = "sample" /\ q[3] = "build"
        /\ q[4] = "scope" /\ q[5] = "manual" /\ q[6] = "workflow" /\ q[7] = "verify"
    <3>1. /\ q[1] = "crawl" /\ q[2] = "sample" /\ q[3] = "build" /\ q[4] = "scope"
          /\ q[5] = "manual" /\ q[6] = "workflow"
      BY <2>8, <2>9 DEF Same
    <3>2. q[6 + 1] = c[1]
      BY <2>9 DEF Same
    <3>3. QED
      BY <2>4, <2>9, <3>1, <3>2
  <2> DEFINE r == q \o d
  <2>11. /\ r \in Seq(T) /\ Len(r) = 8
        /\ Same(r, q, 7, 0) /\ Same(r, d, 1, 7)
    <3>1. /\ r \in Seq(T) /\ Len(r) = Len(q) + Len(d)
          /\ Same(r, q, Len(q), 0) /\ Same(r, d, Len(d), Len(q))
      BY <2>10, <2>5, Joined
    <3> HIDE DEF r
    <3>2. QED
      BY <2>10, <2>5, <3>1
  <2> HIDE DEF r
  <2>12. /\ r \in Seq(T) /\ Len(r) = 8 /\ r[1] = "crawl" /\ r[2] = "sample" /\ r[3] = "build"
        /\ r[4] = "scope" /\ r[5] = "manual" /\ r[6] = "workflow" /\ r[7] = "verify"
        /\ r[8] = "restore"
    <3>1. /\ r[1] = "crawl" /\ r[2] = "sample" /\ r[3] = "build" /\ r[4] = "scope"
          /\ r[5] = "manual" /\ r[6] = "workflow" /\ r[7] = "verify"
      BY <2>10, <2>11 DEF Same
    <3>2. r[7 + 1] = d[1]
      BY <2>11 DEF Same
    <3>3. QED
      BY <2>5, <2>11, <3>1, <3>2
  <2> DEFINE s == r \o e
  <2>13. /\ s \in Seq(T) /\ Len(s) = 9
        /\ Same(s, r, 8, 0) /\ Same(s, e, 1, 8)
    <3>1. /\ s \in Seq(T) /\ Len(s) = Len(r) + Len(e)
          /\ Same(s, r, Len(r), 0) /\ Same(s, e, Len(e), Len(r))
      BY <2>12, <2>6, Joined
    <3> HIDE DEF s
    <3>2. QED
      BY <2>12, <2>6, <3>1
  <2> HIDE DEF s
  <2>14. /\ s \in Seq(T) /\ Len(s) = 9 /\ s[1] = "crawl" /\ s[2] = "sample" /\ s[3] = "build"
        /\ s[4] = "scope" /\ s[5] = "manual" /\ s[6] = "workflow" /\ s[7] = "verify"
        /\ s[8] = "restore" /\ s[9] = "normalize"
    <3>1. /\ s[1] = "crawl" /\ s[2] = "sample" /\ s[3] = "build" /\ s[4] = "scope"
          /\ s[5] = "manual" /\ s[6] = "workflow" /\ s[7] = "verify" /\ s[8] = "restore"
      BY <2>12, <2>13 DEF Same
    <3>2. s[8 + 1] = e[1]
      BY <2>13 DEF Same
    <3>3. QED
      BY <2>6, <2>13, <3>1, <3>2
  <2>15. s = <<"crawl", "sample", "build", "scope", "manual", "workflow", "verify", "restore",
                "normalize">>
    BY <2>14
  <2>16. QED
    BY <2>1, <2>15 DEF p, q, r, s
<1>3. TaskPipeline(<<"crawl", "verify">>) = <<"crawl", "verify", "normalize">>
  <2> DEFINE a == <<"crawl", "verify">>
             b == <<"normalize">>
  <2>1. TaskPipeline(<<"crawl", "verify">>) = a \o b
    BY DEF TaskPipeline
  <2>2. a \in Seq(T) /\ Len(a) = 2 /\ a[1] = "crawl" /\ a[2] = "verify"
    BY DEF T, StepNames
  <2>3. b \in Seq(T) /\ Len(b) = 1 /\ b[1] = "normalize"
    BY DEF T, StepNames
  <2> HIDE DEF a, b
  <2> DEFINE p == a \o b
  <2>4. /\ p \in Seq(T) /\ Len(p) = 3
        /\ Same(p, a, 2, 0) /\ Same(p, b, 1, 2)
    <3>1. /\ p \in Seq(T) /\ Len(p) = Len(a) + Len(b)
          /\ Same(p, a, Len(a), 0) /\ Same(p, b, Len(b), Len(a))
      BY <2>2, <2>3, Joined
    <3> HIDE DEF p
    <3>2. QED
      BY <2>2, <2>3, <3>1
  <2> HIDE DEF p
  <2>5. p \in Seq(T) /\ Len(p) = 3 /\ p[1] = "crawl" /\ p[2] = "verify" /\ p[3] = "normalize"
    <3>1. p[1] = "crawl" /\ p[2] = "verify"
      BY <2>2, <2>4 DEF Same
    <3>2. p[2 + 1] = b[1]
      BY <2>4 DEF Same
    <3>3. QED
      BY <2>3, <2>4, <3>1, <3>2
  <2>6. p = <<"crawl", "verify", "normalize">>
    BY <2>5
  <2>7. QED
    BY <2>1, <2>6 DEF p
<1>4. TaskPipeline(<<"sample">>) = <<"sample", "normalize">>
  <2> DEFINE a == <<"sample">>
             b == <<"normalize">>
  <2>1. TaskPipeline(<<"sample">>) = a \o b
    BY DEF TaskPipeline
  <2>2. a \in Seq(T) /\ Len(a) = 1 /\ a[1] = "sample"
    BY DEF T, StepNames
  <2>3. b \in Seq(T) /\ Len(b) = 1 /\ b[1] = "normalize"
    BY DEF T, StepNames
  <2> HIDE DEF a, b
  <2> DEFINE p == a \o b
  <2>4. /\ p \in Seq(T) /\ Len(p) = 2
        /\ Same(p, a, 1, 0) /\ Same(p, b, 1, 1)
    <3>1. /\ p \in Seq(T) /\ Len(p) = Len(a) + Len(b)
          /\ Same(p, a, Len(a), 0) /\ Same(p, b, Len(b), Len(a))
      BY <2>2, <2>3, Joined
    <3> HIDE DEF p
    <3>2. QED
      BY <2>2, <2>3, <3>1
  <2> HIDE DEF p
  <2>5. p \in Seq(T) /\ Len(p) = 2 /\ p[1] = "sample" /\ p[2] = "normalize"
    <3>1. p[1] = "sample"
      BY <2>2, <2>4 DEF Same
    <3>2. p[1 + 1] = b[1]
      BY <2>4 DEF Same
    <3>3. QED
      BY <2>3, <2>4, <3>1, <3>2
  <2>6. p = <<"sample", "normalize">>
    BY <2>5
  <2>7. QED
    BY <2>1, <2>6 DEF p
<1>5. QED
  BY <1>1, <1>2, <1>3, <1>4 DEF Jobs, TaskVerify, TaskSample, TaskCycle

LEMMA ScriptFacts ==
    \A script \in Jobs : /\ Proper(script) /\ script # << >>
                         /\ script[1] \notin {"scope", "manual"}
<1> DEFINE Fitting(s) == Proper(s) /\ s # << >> /\ s[1] \notin {"scope", "manual"}
<1>1. Fitting(<<"build", "scope", "manual", "workflow", "restore", "normalize">>)
  BY DEF Proper, StepNames, Rebuilding
<1>2. Fitting(<<"crawl", "sample", "build", "scope", "manual", "workflow", "verify", "restore",
             "normalize">>)
  BY DEF Proper, StepNames, Rebuilding
<1>3. Fitting(<<"crawl", "verify", "record">>)
  BY DEF Proper, StepNames, Rebuilding
<1>4. Fitting(<<"sample", "normalize", "evaluate">>)
  BY DEF Proper, StepNames, Rebuilding
<1>5. Fitting(<<"crawl", "sample", "normalize", "evaluate">>)
  BY DEF Proper, StepNames, Rebuilding
<1>6. Fitting(<<"crawl", "verify", "normalize">>)
  BY DEF Proper, StepNames, Rebuilding
<1>7. Fitting(<<"sample", "normalize">>)
  BY DEF Proper, StepNames, Rebuilding
<1> HIDE DEF Fitting
<1>8. \A script \in Jobs : Fitting(script)
  BY <1>1, <1>2, <1>3, <1>4, <1>5, <1>6, <1>7, Scripts
<1>9. QED
  BY <1>8 DEF Fitting

LEMMA TailFacts ==
    ASSUME NEW s, Proper(s), s # << >>
    PROVE  /\ Proper(Tail(s)) /\ Len(s) \in Nat /\ DOMAIN s = 1 .. Len(s) /\ 1 \in DOMAIN s
           /\ Len(Tail(s)) = Len(s) - 1 /\ DOMAIN Tail(s) = 1 .. Len(s) - 1
           /\ \A i \in DOMAIN Tail(s) : i + 1 \in DOMAIN s /\ Tail(s)[i] = s[i + 1]
           /\ \A i \in DOMAIN s : i # 1 => i - 1 \in DOMAIN Tail(s) /\ Tail(s)[i - 1] = s[i]
<1> DEFINE r == Tail(s)
<1>1. s \in Seq(StepNames) /\ Len(s) \in Nat /\ DOMAIN s = 1 .. Len(s) /\ 1 \in DOMAIN s
  BY DEF Proper
<1>2. r \in Seq(StepNames) /\ Len(r) = Len(s) - 1 /\ DOMAIN r = 1 .. Len(s) - 1
  <2> DEFINE T == StepNames
  <2> HIDE DEF T
  <2>1. s \in Seq(T)
    BY <1>1 DEF T
  <2>2. r \in Seq(T) /\ Len(r) = Len(s) - 1
    BY <2>1
  <2>3. QED
    BY <2>2 DEF T
<1>3. \A i \in DOMAIN r : i + 1 \in DOMAIN s /\ r[i] = s[i + 1]
  BY <1>1, <1>2
<1>4. \A i \in DOMAIN s : i # 1 => i - 1 \in DOMAIN r /\ r[i - 1] = s[i]
  <2>1. SUFFICES ASSUME NEW i \in DOMAIN s, i # 1 PROVE i - 1 \in DOMAIN r /\ r[i - 1] = s[i]
    OBVIOUS
  <2>2. i - 1 \in DOMAIN r /\ (i - 1) + 1 = i
    BY <1>1, <1>2, <2>1
  <2>3. QED
    BY <1>3, <2>2
<1> HIDE DEF r
<1>5. ASSUME NEW i \in DOMAIN r, r[i] \in Rebuilding PROVE \E j \in DOMAIN r : i < j /\ r[j] = "restore"
  <2>1. i + 1 \in DOMAIN s /\ s[i + 1] \in Rebuilding
    BY <1>3, <1>5
  <2>2. PICK j \in DOMAIN s : i + 1 < j /\ s[j] = "restore"
    BY <2>1 DEF Proper
  <2>3. j # 1 /\ i < j - 1
    BY <1>1, <1>2, <2>2
  <2>4. QED
    BY <1>4, <2>2, <2>3
<1>6. ASSUME NEW i \in DOMAIN r, i + 1 \in DOMAIN r
      PROVE  (r[i] = "build" <=> r[i + 1] = "scope") /\ (r[i] = "scope" <=> r[i + 1] = "manual")
  <2> DEFINE k == i + 1
  <2>1. k \in DOMAIN s /\ k + 1 \in DOMAIN s /\ r[i] = s[k] /\ r[k] = s[k + 1]
    BY <1>3, <1>6
  <2> HIDE DEF k
  <2>2. (s[k] = "build" <=> s[k + 1] = "scope") /\ (s[k] = "scope" <=> s[k + 1] = "manual")
    BY <2>1 DEF Proper
  <2>3. QED
    BY <2>1, <2>2 DEF k
<1>7. Proper(r)
  BY <1>2, <1>5, <1>6 DEF Proper
<1>8. QED
  BY <1>1, <1>2, <1>3, <1>4, <1>7 DEF r

LEMMA SuffixFacts ==
    /\ \A script \in Jobs : Suffix(script, script) /\ Suffix(<< >>, script)
    /\ \A s : \A script \in Jobs : Suffix(s, script) /\ s # << >> => Suffix(Tail(s), script)
<1>1. ASSUME NEW script \in Jobs
      PROVE  /\ script \in Seq(StepNames) /\ Len(script) \in Nat
             /\ \A n \in 1 .. Len(script) + 1 :
                   LET s == SubSeq(script, n, Len(script))
                   IN /\ s \in Seq(StepNames) /\ Len(s) = Len(script) + 1 - n
                      /\ \A i \in 1 .. Len(s) : s[i] = script[n + i - 1]
  <2>1. script \in Seq(StepNames) /\ Len(script) \in Nat
    BY ScriptFacts DEF Proper
  <2> DEFINE T == StepNames
  <2> HIDE DEF T
  <2>2. QED
    BY <2>1 DEF T
<1>2. ASSUME NEW script \in Jobs PROVE Suffix(script, script) /\ Suffix(<< >>, script)
  <2> DEFINE L == Len(script)
             a == SubSeq(script, 1, L)
             b == SubSeq(script, L + 1, L)
  <2>1. L \in Nat /\ 1 \in 1 .. L + 1 /\ L + 1 \in 1 .. L + 1
    BY <1>1
  <2>2. a = script
    BY <1>1
  <2>3. b = << >>
    BY <1>1
  <2> HIDE DEF L, a, b
  <2>4. QED
    BY <2>1, <2>2, <2>3 DEF Suffix, L, a, b
<1>3. ASSUME NEW script \in Jobs, NEW s, Suffix(s, script), s # << >>
      PROVE  Suffix(Tail(s), script)
  <2>1. PICK n \in 1 .. Len(script) + 1 : s = SubSeq(script, n, Len(script))
    BY <1>3 DEF Suffix
  <2> DEFINE r == SubSeq(script, n + 1, Len(script))
  <2>2. /\ s \in Seq(StepNames) /\ Len(s) = Len(script) + 1 - n /\ Len(script) \in Nat
        /\ \A i \in 1 .. Len(s) : s[i] = script[n + i - 1]
    BY <1>1, <2>1
  <2>3. n + 1 \in 1 .. Len(script) + 1
    BY <1>3, <2>2
  <2>4. /\ r \in Seq(StepNames) /\ Len(r) = Len(script) - n
        /\ \A i \in 1 .. Len(r) : r[i] = script[n + 1 + i - 1]
    BY <1>1, <2>2, <2>3
  <2> HIDE DEF r
  <2>5. Tail(s) = r
    BY <1>1, <1>3, <2>1, <2>2, <2>3, HeadTailOfSubSeq DEF r
  <2>6. QED
    BY <2>3, <2>5 DEF Suffix, r
<1>4. QED
  BY <1>2, <1>3

LEMMA IdleFacts ==
    ASSUME NEW n
    PROVE  IsJob(Idle, n) /\ Idle.steps = << >> /\ ~Promises(Idle)
<1>1. Idle \in JobRecord(n)
  BY DEF Idle, JobRecord
<1>2. Unique(Idle.manual) /\ AllManual(Idle.manual)
  BY DEF Idle, Unique, AllManual, Elems
<1>3. Unique(Idle.workflow) /\ \A t \in Elems(Idle.workflow) : t.custom
  BY DEF Idle, Unique, Elems
<1>4. Proper(Idle.steps) /\ ~Promises(Idle) /\ Idle.steps = << >>
  BY DEF Idle, Proper, Promises
<1>5. \E script \in Jobs : Suffix(Idle.steps, script)
  <2>1. TaskVerify \in Jobs
    BY DEF Jobs
  <2>2. QED
    BY <1>4, <2>1, SuffixFacts
<1>6. QED
  BY <1>1, <1>2, <1>3, <1>4, <1>5 DEF IsJob

\* The job that has taken a step: k, after j.
Advanced(j, k) ==
    /\ j.steps # << >> /\ k.steps = Tail(j.steps)
    /\ \/ k.manual = j.manual /\ k.workflow = j.workflow
       \/ k = Idle

LEMMA AdvancedFacts ==
    ASSUME NEW n, NEW j, IsJob(j, n), NEW k, k \in JobRecord(n), Advanced(j, k)
    PROVE  /\ IsJob(k, n)
           /\ Starts(k, "scope") <=> Starts(j, "build")
           /\ Starts(k, "manual") <=> Starts(j, "scope")
           /\ Promises(k) => Promises(j) /\ k.manual = j.manual
           /\ Starts(j, "build") \/ Starts(j, "scope") \/ Starts(j, "manual") => Promises(j)
<1> DEFINE s == j.steps
           r == Tail(s)
<1>1. Proper(s) /\ s # << >> /\ k.steps = r
  BY DEF Advanced, IsJob
<1>2. /\ Proper(r) /\ Len(s) \in Nat /\ DOMAIN s = 1 .. Len(s) /\ 1 \in DOMAIN s
      /\ Len(r) = Len(s) - 1 /\ DOMAIN r = 1 .. Len(s) - 1
      /\ \A i \in DOMAIN r : i + 1 \in DOMAIN s /\ r[i] = s[i + 1]
  BY <1>1, TailFacts
<1>3. \E script \in Jobs : Suffix(r, script)
  BY <1>1, SuffixFacts DEF IsJob
<1> HIDE DEF r
<1>4. r \in Seq(StepNames)
  BY <1>2 DEF Proper
<1>5. IsJob(k, n)
  <2>1. CASE k = Idle
    BY <2>1, IdleFacts
  <2>2. CASE k.manual = j.manual /\ k.workflow = j.workflow
    BY <1>1, <1>2, <1>3, <2>2 DEF IsJob
  <2>3. QED
    BY <2>1, <2>2 DEF Advanced
<1>6. s[1] \in Rebuilding => Promises(j) /\ 1 + 1 \in DOMAIN s
  <2>1. SUFFICES ASSUME s[1] \in Rebuilding PROVE Promises(j) /\ 1 + 1 \in DOMAIN s
    OBVIOUS
  <2>2. PICK i \in DOMAIN s : 1 < i /\ s[i] = "restore"
    BY <1>1, <1>2, <2>1 DEF Proper
  <2>3. 1 + 1 \in DOMAIN s
    BY <1>2, <2>2
  <2>4. QED
    BY <2>2, <2>3 DEF Promises
<1>7. r # << >> <=> 1 + 1 \in DOMAIN s
  BY <1>2, <1>4
<1>8. 1 + 1 \in DOMAIN s => r[1] = s[1 + 1]
  BY <1>2
<1>9. 1 + 1 \in DOMAIN s => /\ s[1] = "build" <=> s[1 + 1] = "scope"
                            /\ s[1] = "scope" <=> s[1 + 1] = "manual"
  BY <1>1, <1>2 DEF Proper
<1>10. /\ Starts(k, "scope") <=> Starts(j, "build")
       /\ Starts(k, "manual") <=> Starts(j, "scope")
  <2>1. Starts(k, "scope") <=> 1 + 1 \in DOMAIN s /\ s[1 + 1] = "scope"
    BY <1>1, <1>7, <1>8 DEF Starts
  <2>2. Starts(k, "manual") <=> 1 + 1 \in DOMAIN s /\ s[1 + 1] = "manual"
    BY <1>1, <1>7, <1>8 DEF Starts
  <2>3. /\ Starts(j, "build") <=> s[1] = "build"
        /\ Starts(j, "scope") <=> s[1] = "scope"
    BY <1>1 DEF Starts
  <2>4. s[1] \in {"build", "scope"} => 1 + 1 \in DOMAIN s
    BY <1>6 DEF Rebuilding
  <2>5. QED
    BY <1>9, <2>1, <2>2, <2>3, <2>4
<1>11. Promises(k) => Promises(j) /\ k.manual = j.manual
  <2>1. Promises(k) => Promises(j)
    BY <1>1, <1>2 DEF Promises
  <2>2. k = Idle => ~Promises(k)
    BY IdleFacts
  <2>3. QED
    BY <2>1, <2>2 DEF Advanced
<1>12. Starts(j, "build") \/ Starts(j, "scope") \/ Starts(j, "manual") => Promises(j)
  BY <1>6 DEF Starts, Rebuilding
<1>13. QED
  BY <1>5, <1>10, <1>11, <1>12

LEMMA StepIsAdvance ==
    ASSUME NEW n, IsJob(job, n), job.steps # << >>, Step
    PROVE  job' \in JobRecord(n) /\ Advanced(job, job')
<1>1. job.steps \in Seq(StepNames) /\ job \in JobRecord(n)
  BY DEF IsJob, JobRecord
<1>2. Tail(job.steps) \in Seq(StepNames) /\ Len(job.steps) \in Nat
      /\ Len(Tail(job.steps)) = Len(job.steps) - 1
  BY <1>1, TailFacts DEF IsJob, Proper
<1>3. CASE Len(job.steps) = 1
  <2>1. job' = Idle
    BY <1>3 DEF Step
  <2> DEFINE r == Tail(job.steps)
  <2> HIDE DEF r
  <2>2. Tail(job.steps) = << >>
    <3>1. r \in Seq(StepNames) /\ Len(r) = 0
      BY <1>2, <1>3 DEF r
    <3>2. r = << >>
      BY <3>1
    <3>3. QED
      BY <3>2 DEF r
  <2>3. QED
    BY <2>1, <2>2, IdleFacts DEF Advanced, IsJob
<1>4. CASE Len(job.steps) # 1
  <2>1. job' = [job EXCEPT !.steps = Tail(@)]
    BY <1>4 DEF Step
  <2>2. job' \in JobRecord(n)
    BY <1>1, <1>2, <2>1 DEF JobRecord
  <2>3. job'.steps = Tail(job.steps) /\ job'.manual = job.manual /\ job'.workflow = job.workflow
    BY <1>1, <2>1 DEF JobRecord
  <2>4. QED
    BY <2>2, <2>3 DEF Advanced
<1>5. QED
  BY <1>3, <1>4

LEMMA JobGrows ==
    ASSUME NEW n \in Nat, NEW m \in Nat, n <= m, NEW j, IsJob(j, n)
    PROVE  IsJob(j, m)
<1> DEFINE A == Seq(Whole(n))
           B == Seq(Whole(m))
<1>1. A \subseteq B
  BY WholeGrows
<1> HIDE DEF A, B
<1>2. j \in JobRecord(m)
  BY <1>1 DEF IsJob, JobRecord, A, B
<1>3. QED
  BY <1>2 DEF IsJob

LEMMA NoManualIds ==
    \A s : NoManual(s) <=> ManualIds(s) = {}
BY DEF NoManual, ManualIds

LEMMA KeptAdvances ==
    ASSUME NEW n, NEW j, IsJob(j, n), NEW k, k \in JobRecord(n), Advanced(j, k),
           NEW ids, NEW old, NEW new, OffsiteKept(old, j, ids),
           Starts(j, "build") => NoManual(new),
           Starts(j, "manual") => ManualIds(new) = ManualIds(old) \cup ManualIds(j.manual),
           ~Starts(j, "build") /\ ~Starts(j, "manual") => ManualIds(new) = ManualIds(old)
    PROVE  OffsiteKept(new, k, ids)
<1>1. /\ Starts(k, "scope") <=> Starts(j, "build")
      /\ Starts(k, "manual") <=> Starts(j, "scope")
      /\ Promises(k) => Promises(j) /\ k.manual = j.manual
      /\ Starts(j, "build") \/ Starts(j, "scope") \/ Starts(j, "manual") => Promises(j)
  BY AdvancedFacts
<1>2. /\ Promises(j) => ManualIds(j.manual) = ids
      /\ Starts(j, "scope") \/ Starts(j, "manual") => ManualIds(old) = {}
      /\ ~Starts(j, "scope") /\ ~Starts(j, "manual") => ManualIds(old) = ids
  BY NoManualIds DEF OffsiteKept
<1>3. /\ Starts(j, "build") => ~Starts(j, "scope") /\ ~Starts(j, "manual")
      /\ Starts(j, "scope") => ~Starts(j, "manual")
  BY DEF Starts
<1>4. Starts(j, "build") => ManualIds(new) = {}
  BY NoManualIds
<1>5. Starts(j, "scope") => ManualIds(new) = {}
  BY <1>2, <1>3
<1>6. ~Starts(j, "build") /\ ~Starts(j, "scope") => ManualIds(new) = ids
  BY <1>1, <1>2
<1>7. Promises(k) => ManualIds(k.manual) = ids
  BY <1>1, <1>2
<1>8. IF Starts(k, "scope") \/ Starts(k, "manual") THEN NoManual(new) ELSE ManualIds(new) = ids
  BY <1>1, <1>4, <1>5, <1>6, NoManualIds
<1>9. QED
  BY <1>7, <1>8 DEF OffsiteKept

-----------------------------------------------------------------------------
(* Every step keeps the invariant                                          *)

LEMMA InvFacts ==
    ASSUME TicketsInv
    PROVE  /\ Latest \in Nat /\ day \in Nat /\ IsList(list, Latest) /\ IsJob(job, Latest)
           /\ list.tickets \in Seq(Whole(Latest)) /\ Unique(list.tickets)
           /\ job.manual \in Seq(Whole(Latest)) /\ AllManual(job.manual) /\ Unique(job.manual)
           /\ job.workflow \in Seq(Whole(Latest)) /\ Unique(job.workflow)
           /\ ~torn => OffsiteKept(list.tickets, job, offsite)
           /\ left \in [Bounded -> Nat]
<1>1. Latest \in Nat
  BY DEF TicketsInv, TicketsBasics, Latest
<1>2. IsList(list, Latest) /\ IsJob(job, Latest) /\ day \in Nat /\ left \in [Bounded -> Nat]
      /\ (~torn => OffsiteKept(list.tickets, job, offsite))
  BY DEF TicketsInv, TicketsBasics
<1>3. /\ job.manual \in Seq(Whole(Latest)) /\ AllManual(job.manual) /\ Unique(job.manual)
      /\ job.workflow \in Seq(Whole(Latest)) /\ Unique(job.workflow)
  BY <1>2 DEF IsJob, JobRecord
<1>4. QED
  BY <1>1, <1>2, <1>3, ListFacts

LEMMA AtFacts ==
    ASSUME NEW n, IsJob(job, n), NEW step, At(step)
    PROVE  /\ job.steps # << >> /\ Starts(job, step)
           /\ \A other : Starts(job, other) => other = step
           /\ Ahead("restore") <=> Promises(job)
<1>1. job.steps \in Seq(StepNames)
  BY DEF IsJob, JobRecord
<1>2. QED
  BY <1>1 DEF At, Starts, Ahead, Promises

LEMMA AheadFacts == Ahead("restore") <=> Promises(job)
BY DEF Ahead, Promises

LEMMA WritesHolds ==
    ASSUME TicketsInv, NEW step, NEW l, Writes(step, l), IsList(l, Latest),
           step = "build" => NoManual(l.tickets),
           step = "manual" => ManualIds(l.tickets) = ManualIds(list.tickets) \cup ManualIds(job.manual),
           step # "build" /\ step # "manual" /\ ~torn => ManualIds(l.tickets) = ManualIds(list.tickets)
    PROVE  TicketsInv'
<1>1. /\ At(step) /\ list' = l /\ Step
      /\ UNCHANGED <<site, audit, sampled, day, left, offsite, torn>>
  BY DEF Writes
<1>2. IsJob(job, Latest) /\ IsList(list, Latest) /\ (~torn => OffsiteKept(list.tickets, job, offsite))
  BY InvFacts
<1>3. /\ job.steps # << >> /\ Starts(job, step) /\ \A other : Starts(job, other) => other = step
  BY <1>1, <1>2, AtFacts
<1>4. job' \in JobRecord(Latest) /\ Advanced(job, job')
  BY <1>1, <1>2, <1>3, StepIsAdvance
<1>5. IsJob(job', Latest)
  BY <1>2, <1>4, AdvancedFacts
<1>6. ~torn => OffsiteKept(l.tickets, job', offsite)
  BY <1>2, <1>3, <1>4, KeptAdvances
<1>7. Latest' = Latest
  BY <1>1 DEF Latest
<1>8. TicketsBasics'
  BY <1>1 DEF TicketsInv, TicketsBasics
<1>9. QED
  BY <1>1, <1>5, <1>6, <1>7, <1>8 DEF TicketsInv

LEMMA BuildTicketsHolds ==
    ASSUME TicketsInv, BuildTickets
    PROVE  TicketsInv' /\ Compares(list.tickets, list'.tickets)
<1>1. Latest \in Nat /\ IsList(list, Latest)
  BY InvFacts
<1>2. IsList(Build, Latest) /\ NoManual(Build.tickets) /\ Carries(list.tickets, Build.tickets)
  BY <1>1, BuildFacts
<1>3. Writes("build", Build) /\ list' = Build
  BY DEF BuildTickets, Writes
<1>4. TicketsInv'
  BY <1>2, <1>3, WritesHolds
<1>5. QED
  BY <1>2, <1>3, <1>4, CarriesCompares

LEMMA ScopeTicketsHolds ==
    ASSUME TicketsInv, ScopeTickets
    PROVE  TicketsInv' /\ Compares(list.tickets, list'.tickets)
<1> DEFINE m == ScopeTaskData(list)
<1>1. Latest \in Nat /\ IsList(list, Latest)
  BY InvFacts
<1>2. /\ IsList(m, Latest) /\ Carries(list.tickets, m.tickets)
      /\ ManualIds(m.tickets) = ManualIds(list.tickets)
  BY <1>1, ScopeFacts
<1>3. Writes("scope", m) /\ list' = m
  BY DEF ScopeTickets, Writes
<1> HIDE DEF m
<1>4. TicketsInv'
  BY <1>2, <1>3, WritesHolds
<1>5. QED
  BY <1>2, <1>3, <1>4, CarriesCompares

LEMMA NormalizeProjectHolds ==
    ASSUME TicketsInv, NormalizeProject
    PROVE  TicketsInv' /\ Compares(list.tickets, list'.tickets)
<1> DEFINE m == NormalizedList(list)
<1>1. Latest \in Nat /\ IsList(list, Latest)
  BY InvFacts
<1>2. /\ IsList(m, Latest) /\ Carries(list.tickets, m.tickets)
      /\ ManualIds(m.tickets) = ManualIds(list.tickets)
  BY <1>1, ListNormalized
<1>3. Writes("normalize", m) /\ list' = m
  BY DEF NormalizeProject, Writes
<1> HIDE DEF m
<1>4. TicketsInv'
  BY <1>2, <1>3, WritesHolds
<1>5. QED
  BY <1>2, <1>3, <1>4, CarriesCompares

LEMMA PutBackManualHolds ==
    ASSUME TicketsInv, PutBackManual
    PROVE  TicketsInv' /\ Compares(list.tickets, list'.tickets)
<1> DEFINE m == MergeManual(list, job.manual)
<1>1. /\ IsList(list, Latest) /\ job.manual \in Seq(Whole(Latest))
      /\ AllManual(job.manual) /\ Unique(job.manual)
  BY InvFacts
<1>2. /\ IsList(m, Latest) /\ Carries(list.tickets, m.tickets)
      /\ ManualIds(m.tickets) = ManualIds(list.tickets) \cup ManualIds(job.manual)
  BY <1>1, MergeManualFacts
<1>3. Writes("manual", m) /\ list' = m
  BY DEF PutBackManual, Writes
<1> HIDE DEF m
<1>4. TicketsInv'
  BY <1>2, <1>3, WritesHolds
<1>5. QED
  BY <1>2, <1>3, <1>4, CarriesCompares

LEMMA PutBackWorkflowHolds ==
    ASSUME TicketsInv, PutBackWorkflow
    PROVE  TicketsInv' /\ Compares(list.tickets, list'.tickets)
<1> DEFINE m == MergeWorkflow(list, job.workflow)
<1>1. IsList(list, Latest) /\ job.workflow \in Seq(Whole(Latest)) /\ Unique(list.tickets)
  BY InvFacts
<1>2. IsList(m, Latest) /\ SameEffects(m.tickets, list.tickets)
  BY <1>1, MergeWorkflowFacts
<1>3. Writes("workflow", m) /\ list' = m
  BY DEF PutBackWorkflow, Writes
<1> HIDE DEF m
<1>4. ManualIds(m.tickets) = ManualIds(list.tickets)
  BY <1>2, ReworkedFacts DEF SameEffects
<1>5. TicketsInv'
  BY <1>2, <1>3, <1>4, WritesHolds
<1>6. QED
  BY <1>1, <1>2, <1>3, <1>5, CarriesCompares, CarriesFacts

\* Both merges, as a job that ends or fails makes them.
LEMMA MergeFacts ==
    ASSUME NEW n, IsList(list, n), IsJob(job, n)
    PROVE  LET m == Merge(list)
           IN /\ IsList(m, n) /\ Carries(list.tickets, m.tickets)
              /\ ManualIds(m.tickets) = ManualIds(list.tickets) \cup ManualIds(job.manual)
              /\ \A i \in DOMAIN job.workflow, j \in DOMAIN m.tickets :
                    job.workflow[i].id = m.tickets[j].id =>
                        /\ m.tickets[j].status = job.workflow[i].status
                        /\ m.tickets[j].owner = job.workflow[i].owner
                        /\ m.tickets[j].custom = job.workflow[i].custom
<1> DEFINE p == MergeManual(list, job.manual)
           w == job.workflow
           m == MergeWorkflow(p, w)
<1>1. /\ job.manual \in Seq(Whole(n)) /\ AllManual(job.manual) /\ Unique(job.manual)
      /\ w \in Seq(Whole(n)) /\ Unique(w)
  BY DEF IsJob, JobRecord
<1>2. /\ IsList(p, n) /\ Carries(list.tickets, p.tickets)
      /\ ManualIds(p.tickets) = ManualIds(list.tickets) \cup ManualIds(job.manual)
  BY <1>1, MergeManualFacts
<1> HIDE DEF p, w
<1>3. /\ IsList(m, n) /\ SameEffects(m.tickets, p.tickets)
      /\ \A i \in DOMAIN w, j \in DOMAIN m.tickets :
            Unique(w) /\ w[i].id = m.tickets[j].id =>
                /\ m.tickets[j].status = w[i].status /\ m.tickets[j].owner = w[i].owner
                /\ m.tickets[j].custom = w[i].custom
  BY <1>1, <1>2, MergeWorkflowFacts
<1> HIDE DEF m
<1>4. ManualIds(m.tickets) = ManualIds(p.tickets)
  BY <1>3, ReworkedFacts DEF SameEffects
<1>5. Carries(list.tickets, m.tickets)
  BY <1>2, <1>3, CarriesFacts
<1>6. Merge(list) = m
  BY DEF Merge, m, p, w
<1>7. QED
  BY <1>1, <1>2, <1>3, <1>4, <1>5, <1>6 DEF w

\* Both merges, and what people gave the tickets that are still there.
LEMMA RestoreTicketsHolds ==
    ASSUME TicketsInv, RestoreTickets
    PROVE  /\ TicketsInv' /\ Compares(list.tickets, list'.tickets)
           /\ \A i \in DOMAIN job.workflow, j \in DOMAIN list'.tickets :
                 job.workflow[i].id = list'.tickets[j].id =>
                     /\ job.workflow[i].status = list'.tickets[j].status
                     /\ job.workflow[i].owner = list'.tickets[j].owner
                     /\ list'.tickets[j].custom
<1> DEFINE m == Merge(list)
<1>1. IsList(list, Latest) /\ IsJob(job, Latest) /\ (~torn => OffsiteKept(list.tickets, job, offsite))
  BY InvFacts
<1>2. /\ IsList(m, Latest) /\ Carries(list.tickets, m.tickets)
      /\ ManualIds(m.tickets) = ManualIds(list.tickets) \cup ManualIds(job.manual)
      /\ \A i \in DOMAIN job.workflow, j \in DOMAIN m.tickets :
            job.workflow[i].id = m.tickets[j].id =>
                /\ m.tickets[j].status = job.workflow[i].status
                /\ m.tickets[j].owner = job.workflow[i].owner
                /\ m.tickets[j].custom = job.workflow[i].custom
  BY <1>1, MergeFacts
<1>3. Writes("restore", m) /\ list' = m /\ At("restore")
  BY DEF RestoreTickets, Writes
<1> HIDE DEF m
<1>4. ~torn => ManualIds(m.tickets) = ManualIds(list.tickets)
  <2>1. /\ Starts(job, "restore") /\ ~Starts(job, "scope") /\ ~Starts(job, "manual")
        /\ job.steps \in Seq(StepNames)
    BY <1>1, <1>3, AtFacts DEF IsJob, JobRecord
  <2>2. Promises(job)
    BY <2>1 DEF Starts, Promises
  <2>3. QED
    BY <1>1, <1>2, <2>1, <2>2 DEF OffsiteKept
<1>5. TicketsInv'
  BY <1>2, <1>3, <1>4, WritesHolds
<1>6. \A i \in DOMAIN job.workflow : job.workflow[i].custom
  BY <1>1 DEF IsJob, Elems
<1>7. Compares(list.tickets, list'.tickets)
  BY <1>2, <1>3, CarriesCompares
<1>8. QED
  BY <1>2, <1>3, <1>5, <1>6, <1>7

LEMMA VerdictFacts == \A t : Verdict(t) \in {"pass", "fail", "manual"}
<1> TAKE t
<1>1. \A p : (IF p THEN "pass" ELSE "fail") \in {"pass", "fail", "manual"}
  OBVIOUS
<1>2. QED
  BY <1>1 DEF Verdict

LEMMA OnAllVerified ==
    ASSUME NEW n, IsList(list, n)
    PROVE  LET m == OnAll(Verified)
           IN /\ IsList(m, n) /\ SameEffects(m.tickets, list.tickets)
              /\ ManualIds(m.tickets) = ManualIds(list.tickets)
<1> DEFINE s == list.tickets
           new == [i \in DOMAIN s |-> Verified(s[i])]
           m == OnAll(Verified)
<1>1. m = [list EXCEPT !.tickets = new]
  BY DEF OnAll
<1>2. s \in Seq(Whole(n))
  BY ListFacts
<1>3. \A i \in DOMAIN s : s[i] \in Whole(n)
  BY <1>2
<1>4. \A i \in DOMAIN s : /\ new[i] \in Whole(n) /\ new[i].id = s[i].id /\ new[i].title = s[i].title
                          /\ new[i].effect = s[i].effect
  BY <1>3, VerifiedFacts
<1>5. new \in [DOMAIN s -> Whole(n)] /\ DOMAIN new = DOMAIN s
  <2> DEFINE W == Whole(n)
  <2> HIDE DEF W
  <2> QED BY <1>4 DEF W
<1> HIDE DEF new
<1>6. SameEffects(new, s)
  BY <1>4, <1>5 DEF SameEffects, Reworked
<1>7. Reworked(new, s)
  BY <1>6 DEF SameEffects
<1>8. IsList([list EXCEPT !.tickets = new], n) /\ [list EXCEPT !.tickets = new].tickets = new
      /\ ManualIds(new) = ManualIds(s)
  BY <1>5, <1>7, ReworkedList
<1>9. QED
  BY <1>1, <1>6, <1>8

LEMMA VerifyTicketsHolds ==
    ASSUME TicketsInv, VerifyTickets
    PROVE  TicketsInv' /\ Compares(list.tickets, list'.tickets)
<1> DEFINE m == OnAll(Verified)
           results == {[id |-> list.tickets[i].id, verdict |-> Verdict(list.tickets[i])] :
                       i \in DOMAIN list.tickets}
<1>1. /\ At("verify") /\ list' = m
      /\ job' = [job EXCEPT !.steps = Tail(@), !.results = results]
      /\ UNCHANGED <<site, audit, sampled, day, left, offsite, torn>>
  BY DEF VerifyTickets
<1>2. /\ IsList(list, Latest) /\ IsJob(job, Latest) /\ Unique(list.tickets)
      /\ (~torn => OffsiteKept(list.tickets, job, offsite)) /\ list.tickets \in Seq(Whole(Latest))
  BY InvFacts
<1>3. /\ IsList(m, Latest) /\ SameEffects(m.tickets, list.tickets)
      /\ ManualIds(m.tickets) = ManualIds(list.tickets)
  BY <1>2, OnAllVerified
<1> HIDE DEF m
<1>4. /\ job.steps # << >> /\ ~Starts(job, "build") /\ ~Starts(job, "manual")
      /\ job \in JobRecord(Latest) /\ Proper(job.steps)
  BY <1>1, <1>2, AtFacts DEF IsJob
<1>5. results \in SUBSET Result
  <2>1. ASSUME NEW i \in DOMAIN list.tickets
        PROVE  [id |-> list.tickets[i].id, verdict |-> Verdict(list.tickets[i])] \in Result
    <3>1. list.tickets[i] \in Ticket
      BY <1>2 DEF Whole
    <3>2. list.tickets[i].id \in Id
      BY <3>1, FieldsOf
    <3>3. QED
      BY <3>2, VerdictFacts DEF Result
  <2>2. QED
    BY <2>1
<1> HIDE DEF results
<1>6. Tail(job.steps) \in Seq(StepNames)
  BY <1>4, TailFacts DEF Proper
<1>7. job' \in JobRecord(Latest) /\ Advanced(job, job')
  <2>1. job' \in JobRecord(Latest)
    BY <1>1, <1>4, <1>5, <1>6 DEF JobRecord
  <2>2. job'.steps = Tail(job.steps) /\ job'.manual = job.manual /\ job'.workflow = job.workflow
    BY <1>1, <1>4 DEF JobRecord
  <2>3. QED
    BY <1>4, <2>1, <2>2 DEF Advanced
<1>8. IsJob(job', Latest)
  BY <1>2, <1>7, AdvancedFacts
<1>9. ~torn => OffsiteKept(m.tickets, job', offsite)
  BY <1>2, <1>3, <1>4, <1>7, KeptAdvances
<1>10. TicketsBasics' /\ Latest' = Latest
  BY <1>1 DEF TicketsInv, TicketsBasics, Latest
<1>11. TicketsInv'
  BY <1>1, <1>3, <1>8, <1>9, <1>10 DEF TicketsInv
<1>12. Compares(list.tickets, list'.tickets)
  BY <1>1, <1>2, <1>3, CarriesFacts, CarriesCompares
<1>13. QED
  BY <1>11, <1>12

LEMMA OnAllDeployed ==
    ASSUME IsList(list, Latest), Latest \in Nat, day \in Nat
    PROVE  LET m == OnAll(Deployed)
           IN /\ IsList(m, Latest) /\ Compares(list.tickets, m.tickets)
              /\ ManualIds(m.tickets) = ManualIds(list.tickets)
<1> DEFINE s == list.tickets
           new == [i \in DOMAIN s |-> Deployed(s[i])]
           m == OnAll(Deployed)
           W == Whole(Latest)
<1>1. m = [list EXCEPT !.tickets = new]
  BY DEF OnAll
<1>2. s \in Seq(W) /\ Unique(s)
  BY ListFacts
<1>3. \A i \in DOMAIN s : s[i] \in W
  BY <1>2
<1>4. \A i \in DOMAIN s : /\ new[i] \in W /\ new[i].id = s[i].id /\ new[i].title = s[i].title
                          /\ s[i].effect.state # "draft" => new[i].effect = s[i].effect
  BY <1>3, DeployedFacts
<1>5. new \in [DOMAIN s -> W] /\ DOMAIN new = DOMAIN s
  <2> HIDE DEF W
  <2> QED BY <1>4
<1> HIDE DEF new
<1>6. Reworked(new, s)
  BY <1>4, <1>5 DEF Reworked
<1>7. Compares(s, new)
  <2>1. \A i \in DOMAIN s : s[i].effect.state # "draft" => Comparable(s[i].effect, new[i].effect)
    BY <1>4 DEF Comparable
  <2> HIDE DEF s
  <2>2. QED
    BY <1>2, <1>6, <2>1, ReworkedCompares
<1>8. IsList([list EXCEPT !.tickets = new], Latest) /\ [list EXCEPT !.tickets = new].tickets = new
      /\ ManualIds(new) = ManualIds(s)
  BY <1>5, <1>6, ReworkedList
<1>9. QED
  BY <1>1, <1>7, <1>8

LEMMA RecordVerificationHolds ==
    ASSUME TicketsInv, RecordVerification
    PROVE  TicketsInv' /\ Compares(list.tickets, list'.tickets)
<1> DEFINE m == OnAll(Deployed)
<1>1. Latest \in Nat /\ day \in Nat /\ IsList(list, Latest)
  BY InvFacts
<1>2. /\ IsList(m, Latest) /\ Compares(list.tickets, m.tickets)
      /\ ManualIds(m.tickets) = ManualIds(list.tickets)
  BY <1>1, OnAllDeployed
<1>3. Writes("record", m) /\ list' = m
  BY DEF RecordVerification, Writes
<1> HIDE DEF m
<1>4. TicketsInv'
  BY <1>2, <1>3, WritesHolds
<1>5. QED
  BY <1>2, <1>3, <1>4

LEMMA EvaluationsFacts ==
    ASSUME IsList(list, Latest), Latest \in Nat, day \in Nat, NEW l \in Evaluations
    PROVE  /\ IsList(l, Latest) /\ Compares(list.tickets, l.tickets)
           /\ ManualIds(l.tickets) = ManualIds(list.tickets)
<1> DEFINE s == list.tickets
           W == Whole(Latest)
           due == {i \in DOMAIN s : Judged(s[i].effect)}
<1>1. PICK verdict \in [due -> {"effective", "ineffective", "inconclusive"}] :
          l = [list EXCEPT !.tickets = [i \in DOMAIN @ |->
                   IF i \in due THEN Evaluated(@[i], verdict[i]) ELSE @[i]]]
  BY DEF Evaluations
<1> DEFINE new == [i \in DOMAIN s |-> IF i \in due THEN Evaluated(s[i], verdict[i]) ELSE s[i]]
<1>2. l = [list EXCEPT !.tickets = new]
  BY <1>1
<1>3. s \in Seq(W) /\ Unique(s) /\ \A i \in DOMAIN s : s[i] \in W
  BY ListFacts
<1>4. \A i \in due : verdict[i] \in {"effective", "ineffective", "inconclusive"}
  BY <1>1
<1>5. ASSUME NEW i \in DOMAIN s
      PROVE  /\ new[i] \in W /\ new[i].id = s[i].id /\ new[i].title = s[i].title
             /\ Comparable(s[i].effect, new[i].effect)
  <2>1. CASE i \in due
    <3>1. new[i] = Evaluated(s[i], verdict[i])
      BY <2>1
    <3>2. s[i] \in W /\ verdict[i] \in {"effective", "ineffective", "inconclusive"}
      BY <1>3, <1>4, <2>1
    <3>3. QED
      BY <3>1, <3>2, EvaluatedFacts
  <2>2. CASE i \notin due
    <3>1. new[i] = s[i]
      BY <2>2
    <3> HIDE DEF new
    <3>2. QED
      BY <1>3, <3>1 DEF Comparable
  <2>3. QED
    BY <2>1, <2>2
<1>6. new \in [DOMAIN s -> W] /\ DOMAIN new = DOMAIN s
  <2>1. \A i \in DOMAIN s : new[i] \in W
    BY <1>5
  <2>2. DOMAIN new = DOMAIN s /\ new = [i \in DOMAIN s |-> new[i]]
    OBVIOUS
  <2> HIDE DEF new, s, W
  <2>3. QED
    BY <2>1, <2>2
<1> HIDE DEF new, due
<1>7. Reworked(new, s) /\ Compares(s, new)
  <2>1. Reworked(new, s)
    BY <1>5, <1>6 DEF Reworked
  <2> HIDE DEF s
  <2>2. QED
    BY <1>3, <1>5, <2>1, ReworkedCompares
<1>8. IsList([list EXCEPT !.tickets = new], Latest) /\ [list EXCEPT !.tickets = new].tickets = new
      /\ ManualIds(new) = ManualIds(s)
  BY <1>6, <1>7, ReworkedList
<1>9. QED
  BY <1>2, <1>7, <1>8

LEMMA EvaluateEffectsHolds ==
    ASSUME TicketsInv, EvaluateEffects
    PROVE  TicketsInv' /\ Compares(list.tickets, list'.tickets)
<1>1. Latest \in Nat /\ day \in Nat /\ IsList(list, Latest) /\ Unique(list.tickets)
  BY InvFacts
<1>2. PICK l \in Evaluations \cup {list} : Writes("evaluate", l)
  BY DEF EvaluateEffects
<1>3. /\ IsList(l, Latest) /\ Compares(list.tickets, l.tickets)
      /\ ManualIds(l.tickets) = ManualIds(list.tickets)
  <2>1. CASE l \in Evaluations
    BY <1>1, <2>1, EvaluationsFacts
  <2>2. CASE l = list
    BY <1>1, <2>2, CarriesFacts, CarriesCompares
  <2>3. QED
    BY <2>1, <2>2
<1>4. list' = l
  BY <1>2 DEF Writes
<1>5. TicketsInv'
  BY <1>2, <1>3, WritesHolds
<1>6. QED
  BY <1>3, <1>4, <1>5

LEMMA PromiseFacts ==
    ASSUME NEW n, NEW j, IsJob(j, n), Starts(j, "scope") \/ Starts(j, "manual")
    PROVE  Promises(j)
<1>1. Proper(j.steps) /\ j.steps # << >>
  BY DEF IsJob, Starts
<1>2. 1 \in DOMAIN j.steps
  BY <1>1, TailFacts
<1>3. j.steps[1] \in Rebuilding
  BY DEF Starts, Rebuilding
<1>4. QED
  BY <1>1, <1>2, <1>3 DEF Proper, Promises

LEMMA IdleKept ==
    ASSUME NEW new, NEW ids, ManualIds(new) = ids
    PROVE  OffsiteKept(new, Idle, ids)
BY IdleFacts DEF OffsiteKept, Starts

LEMMA KeptSame ==
    ASSUME NEW j, NEW ids, NEW old, NEW new, OffsiteKept(old, j, ids), ManualIds(new) = ManualIds(old)
    PROVE  OffsiteKept(new, j, ids)
BY NoManualIds DEF OffsiteKept

LEMMA SpendFacts ==
    ASSUME TicketsInv, NEW event, May(event), Spend(event)
    PROVE  left' \in [Bounded -> Nat]
<1>1. left \in [Bounded -> Nat] /\ left' = [left EXCEPT ![event] = @ - 1] /\ left[event] > 0
  BY InvFacts DEF May, Spend
<1>2. CASE event \in Bounded
  <2>1. left[event] \in Nat
    BY <1>1, <1>2
  <2>2. left[event] - 1 \in Nat
    BY <1>1, <2>1
  <2>3. QED
    BY <1>1, <2>2
<1>3. CASE event \notin Bounded
  BY <1>1, <1>3
<1>4. QED
  BY <1>2, <1>3

LEMMA JobFailsHolds ==
    ASSUME TicketsInv, JobFails
    PROVE  TicketsInv' /\ Compares(list.tickets, list'.tickets)
<1>1. /\ list' = IF Ahead("restore") THEN Merge(list) ELSE list
      /\ job' = Idle /\ UNCHANGED <<site, audit, sampled, day, offsite, torn>>
  BY DEF JobFails
<1>2. /\ IsList(list, Latest) /\ IsJob(job, Latest) /\ Unique(list.tickets)
      /\ (~torn => OffsiteKept(list.tickets, job, offsite))
  BY InvFacts
<1>3. left' \in [Bounded -> Nat]
  <2>1. CASE left' = left
    BY <2>1, InvFacts
  <2>2. CASE May("deaths") /\ Spend("deaths")
    BY <2>2, SpendFacts
  <2>3. QED
    BY <2>1, <2>2 DEF JobFails
<1>4. /\ IsList(list', Latest) /\ Carries(list.tickets, list'.tickets)
      /\ (~torn => ManualIds(list'.tickets) = offsite)
  <2>1. CASE Ahead("restore")
    <3> DEFINE m == Merge(list)
    <3>1. /\ IsList(m, Latest) /\ Carries(list.tickets, m.tickets)
          /\ ManualIds(m.tickets) = ManualIds(list.tickets) \cup ManualIds(job.manual)
      BY <1>2, MergeFacts
    <3>2. list' = m
      BY <1>1, <2>1
    <3> HIDE DEF m
    <3>3. Promises(job)
      BY <2>1, AheadFacts
    <3>4. ~torn => ManualIds(job.manual) = offsite /\ ManualIds(list.tickets) \in {offsite, {}}
      BY <1>2, <3>3, NoManualIds DEF OffsiteKept
    <3>5. QED
      BY <3>1, <3>2, <3>4
  <2>2. CASE ~Ahead("restore")
    <3>1. list' = list /\ ~Promises(job)
      BY <1>1, <2>2, AheadFacts
    <3>2. ~Starts(job, "scope") /\ ~Starts(job, "manual")
      BY <1>2, <3>1, PromiseFacts
    <3>3. ~torn => ManualIds(list.tickets) = offsite
      BY <1>2, <3>2 DEF OffsiteKept
    <3>4. QED
      BY <1>2, <3>1, <3>3, CarriesFacts
  <2>3. QED
    BY <2>1, <2>2
<1>5. TicketsBasics' /\ Latest' = Latest
  BY <1>1, <1>3 DEF TicketsInv, TicketsBasics, Latest
<1>6. IsJob(job', Latest) /\ (~torn => OffsiteKept(list'.tickets, job', offsite))
  BY <1>1, <1>4, IdleFacts, IdleKept
<1>7. TicketsInv'
  BY <1>1, <1>4, <1>5, <1>6 DEF TicketsInv
<1>8. QED
  BY <1>4, <1>7, CarriesCompares

LEMMA JobDiesHolds ==
    ASSUME TicketsInv, JobDies
    PROVE  TicketsInv' /\ Compares(list.tickets, list'.tickets)
<1>1. /\ torn' = (torn \/ At("scope") \/ At("manual"))
      /\ job' = Idle /\ UNCHANGED <<site, audit, sampled, list, day, offsite>>
      /\ May("deaths") /\ Spend("deaths") /\ job.steps # << >>
  BY DEF JobDies, Free
<1>2. /\ IsList(list, Latest) /\ IsJob(job, Latest) /\ Unique(list.tickets)
      /\ (~torn => OffsiteKept(list.tickets, job, offsite))
  BY InvFacts
<1>3. left' \in [Bounded -> Nat]
  BY <1>1, SpendFacts
<1>4. At("scope") <=> Starts(job, "scope")
  BY <1>2 DEF IsJob, JobRecord, At, Starts
<1>5. At("manual") <=> Starts(job, "manual")
  BY <1>2 DEF IsJob, JobRecord, At, Starts
<1>6. ~torn' => ManualIds(list.tickets) = offsite
  <2>1. SUFFICES ASSUME ~torn' PROVE ManualIds(list.tickets) = offsite
    OBVIOUS
  <2>2. ~torn /\ ~Starts(job, "scope") /\ ~Starts(job, "manual")
    BY <1>1, <1>4, <1>5, <2>1
  <2>3. QED
    BY <1>2, <2>2 DEF OffsiteKept
<1>7. torn' \in BOOLEAN
  BY <1>1 DEF TicketsInv, TicketsBasics
<1>8. TicketsBasics' /\ Latest' = Latest
  BY <1>1, <1>3, <1>7 DEF TicketsInv, TicketsBasics, Latest
<1>9. IsJob(job', Latest) /\ (~torn' => OffsiteKept(list.tickets, job', offsite))
  BY <1>1, <1>6, IdleFacts, IdleKept
<1>10. TicketsInv'
  BY <1>1, <1>2, <1>8, <1>9 DEF TicketsInv
<1>11. Compares(list.tickets, list'.tickets)
  BY <1>1, <1>2, CarriesFacts, CarriesCompares
<1>12. QED
  BY <1>10, <1>11

LEMMA CrawlHolds ==
    ASSUME TicketsInv, Crawl
    PROVE  TicketsInv' /\ Compares(list.tickets, list'.tickets)
<1>1. At("crawl") /\ audit' = site /\ Step /\ UNCHANGED <<site, sampled, list, day, left, offsite, torn>>
  BY DEF Crawl
<1>2. /\ IsList(list, Latest) /\ IsJob(job, Latest) /\ Unique(list.tickets)
      /\ (~torn => OffsiteKept(list.tickets, job, offsite))
  BY InvFacts
<1>3. job.steps # << >> /\ ~Starts(job, "build") /\ ~Starts(job, "manual")
  BY <1>1, <1>2, AtFacts
<1>4. job' \in JobRecord(Latest) /\ Advanced(job, job')
  BY <1>1, <1>2, <1>3, StepIsAdvance
<1>5. IsJob(job', Latest) /\ (~torn => OffsiteKept(list.tickets, job', offsite))
  BY <1>2, <1>3, <1>4, AdvancedFacts, KeptAdvances
<1>6. TicketsBasics' /\ Latest' = Latest
  BY <1>1 DEF TicketsInv, TicketsBasics, Latest
<1>7. TicketsInv'
  BY <1>1, <1>2, <1>5, <1>6 DEF TicketsInv
<1>8. Compares(list.tickets, list'.tickets)
  BY <1>1, <1>2, CarriesFacts, CarriesCompares
<1>9. QED
  BY <1>7, <1>8

LEMMA SampleHolds ==
    ASSUME TicketsInv, Sample
    PROVE  TicketsInv' /\ Compares(list.tickets, list'.tickets)
<1>1. At("sample") /\ Step /\ UNCHANGED <<site, audit, list, day, offsite, torn>>
  BY DEF Sample
<1>2. /\ IsList(list, Latest) /\ IsJob(job, Latest) /\ Unique(list.tickets) /\ Latest \in Nat
      /\ (~torn => OffsiteKept(list.tickets, job, offsite)) /\ sampled \in Seq(Quality)
  BY InvFacts DEF TicketsInv, TicketsBasics
<1>3. sampled' \in Seq(Quality) /\ Latest' \in Nat /\ Latest <= Latest' /\ left' \in [Bounded -> Nat]
  <2>1. CASE UNCHANGED <<sampled, left>>
    BY <1>2, <2>1, InvFacts DEF Latest
  <2>2. CASE May("runs") /\ Spend("runs") /\ \E q \in Quality : sampled' = Append(sampled, q)
    <3>1. left' \in [Bounded -> Nat]
      BY <2>2, SpendFacts
    <3>2. PICK q \in Quality : sampled' = Append(sampled, q)
      BY <2>2
    <3> DEFINE Q == Quality
    <3> HIDE DEF Q
    <3>3. q \in Q /\ sampled \in Seq(Q)
      BY <1>2, <3>2 DEF Q
    <3>4. Append(sampled, q) \in Seq(Q) /\ Len(Append(sampled, q)) = Len(sampled) + 1
      BY <3>3
    <3>5. Latest' = Latest + 1 /\ sampled' \in Seq(Q)
      BY <3>2, <3>4 DEF Latest
    <3>6. QED
      BY <1>2, <3>1, <3>5 DEF Q
  <2>3. QED
    BY <2>1, <2>2 DEF Sample
<1>4. job.steps # << >> /\ ~Starts(job, "build") /\ ~Starts(job, "manual")
  BY <1>1, <1>2, AtFacts
<1>5. job' \in JobRecord(Latest) /\ Advanced(job, job')
  BY <1>1, <1>2, <1>4, StepIsAdvance
<1>6. IsJob(job', Latest) /\ (~torn => OffsiteKept(list.tickets, job', offsite))
  BY <1>2, <1>4, <1>5, AdvancedFacts, KeptAdvances
<1>7. IsJob(job', Latest')
  BY <1>2, <1>3, <1>6, JobGrows
<1>8. IsList(list', Latest')
  BY <1>1, <1>2, <1>3, WholeGrows
<1>9. TicketsBasics'
  BY <1>1, <1>3 DEF TicketsInv, TicketsBasics
<1>10. TicketsInv'
  BY <1>1, <1>6, <1>7, <1>8, <1>9 DEF TicketsInv
<1>11. Compares(list.tickets, list'.tickets)
  BY <1>1, <1>2, CarriesFacts, CarriesCompares
<1>12. QED
  BY <1>10, <1>11

\* What people do between jobs leaves the job alone.
LEMMA EditHolds ==
    ASSUME TicketsInv, IsList(list', Latest),
           ManualIds(list'.tickets) = ManualIds(list.tickets),
           left' \in [Bounded -> Nat], UNCHANGED <<site, audit, sampled, job, day, offsite, torn>>
    PROVE  TicketsInv'
<1>1. IsJob(job, Latest) /\ (~torn => OffsiteKept(list.tickets, job, offsite))
  BY InvFacts
<1>2. ~torn => OffsiteKept(list'.tickets, job, offsite)
  BY <1>1, KeptSame
<1>3. TicketsBasics' /\ Latest' = Latest
  BY DEF TicketsInv, TicketsBasics, Latest
<1>4. QED
  BY <1>1, <1>2, <1>3 DEF TicketsInv

\* The tickets that are so, of a list whose ids are unique.
LEMMA ManualOf ==
    ASSUME NEW R, NEW seq \in Seq(R), Unique(seq)
    PROVE  LET m == Those(seq, IsManual)
           IN m \in Seq(R) /\ Unique(m) /\ AllManual(m) /\ ManualIds(m) = ManualIds(seq)
<1> DEFINE S == {i \in DOMAIN seq : IsManual(seq[i])}
           m == Places(seq, S)
<1>1. Those(seq, IsManual) = m
  BY DEF Those, Holding
<1>2. m \in Seq(R) /\ Elems(m) = {seq[i] : i \in S} /\ Unique(m)
  BY PlacesFacts, UniquePlaces
<1> HIDE DEF m
<1>3. AllManual(m)
  BY <1>2 DEF AllManual
<1>4. Elems(m) = {u \in Elems(seq) : IsManual(u)}
  BY <1>2 DEF Elems
<1>5. ManualIds(m) = ManualIds(seq)
  BY <1>4 DEF ManualIds
<1>6. QED
  BY <1>1, <1>2, <1>3, <1>5

LEMMA CustomOf ==
    ASSUME NEW R, NEW seq \in Seq(R), Unique(seq)
    PROVE  LET m == Those(seq, LAMBDA t : t.custom)
           IN m \in Seq(R) /\ Unique(m) /\ \A t \in Elems(m) : t.custom
<1> DEFINE S == {i \in DOMAIN seq : seq[i].custom}
           m == Places(seq, S)
<1>1. Those(seq, LAMBDA t : t.custom) = m
  BY DEF Those, Holding
<1>2. m \in Seq(R) /\ Elems(m) = {seq[i] : i \in S} /\ Unique(m)
  BY PlacesFacts, UniquePlaces
<1> HIDE DEF m
<1>3. QED
  BY <1>1, <1>2

LEMMA BeginHolds ==
    ASSUME TicketsInv, NEW script \in Jobs, Begin(script)
    PROVE  TicketsInv' /\ Compares(list.tickets, list'.tickets)
<1> DEFINE now == NormalizedList(list)
           promised == "restore" \in {script[i] : i \in DOMAIN script}
           manual == Those(now.tickets, IsManual)
           custom == Those(now.tickets, LAMBDA t : t.custom)
<1>1. /\ list' = now
      /\ job' = [Idle EXCEPT !.steps = script,
                             !.manual = IF promised THEN manual ELSE << >>,
                             !.workflow = IF promised THEN custom ELSE << >>]
      /\ UNCHANGED <<site, audit, sampled, day, offsite, torn>>
      /\ job.steps = << >> /\ May("jobs") /\ Spend("jobs")
  BY DEF Begin, Free
<1>2. /\ IsList(list, Latest) /\ Latest \in Nat
      /\ (~torn => OffsiteKept(list.tickets, job, offsite))
  BY InvFacts
<1>3. /\ IsList(now, Latest) /\ Carries(list.tickets, now.tickets)
      /\ ManualIds(now.tickets) = ManualIds(list.tickets)
  BY <1>2, ListNormalized
<1> HIDE DEF now
<1>4. now.tickets \in Seq(Whole(Latest)) /\ Unique(now.tickets)
  BY <1>3, ListFacts
<1>5. /\ manual \in Seq(Whole(Latest)) /\ Unique(manual) /\ AllManual(manual)
      /\ ManualIds(manual) = ManualIds(now.tickets)
  BY <1>4, ManualOf
<1>6. custom \in Seq(Whole(Latest)) /\ Unique(custom) /\ \A t \in Elems(custom) : t.custom
  BY <1>4, CustomOf
<1> HIDE DEF manual, custom
<1>7. /\ Proper(script) /\ script # << >> /\ script[1] \notin {"scope", "manual"}
      /\ script \in Seq(StepNames)
  BY ScriptFacts DEF Proper
<1>8. /\ job'.steps = script /\ job'.results = {}
      /\ job'.manual = IF promised THEN manual ELSE << >>
      /\ job'.workflow = IF promised THEN custom ELSE << >>
      /\ job' = [steps |-> job'.steps, manual |-> job'.manual, workflow |-> job'.workflow,
                 results |-> job'.results]
  BY <1>1 DEF Idle
<1> HIDE DEF promised
<1>9. /\ job'.manual \in Seq(Whole(Latest)) /\ Unique(job'.manual) /\ AllManual(job'.manual)
      /\ job'.workflow \in Seq(Whole(Latest)) /\ Unique(job'.workflow)
      /\ \A t \in Elems(job'.workflow) : t.custom
  <2>1. CASE promised
    BY <1>5, <1>6, <1>8, <2>1
  <2>2. CASE ~promised
    <3>1. job'.manual = << >> /\ job'.workflow = << >>
      BY <1>8, <2>2
    <3>2. Unique(<< >>) /\ AllManual(<< >>) /\ \A t \in Elems(<< >>) : t.custom
      BY DEF Unique, AllManual, Elems
    <3>3. QED
      BY <3>1, <3>2
  <2>3. QED
    BY <2>1, <2>2
<1>10. job' \in JobRecord(Latest)
  BY <1>7, <1>8, <1>9 DEF JobRecord
<1>11. IsJob(job', Latest)
  <2>1. Suffix(script, script)
    BY SuffixFacts
  <2>2. QED
    BY <1>7, <1>8, <1>9, <1>10, <2>1 DEF IsJob
<1>12. ~torn => OffsiteKept(now.tickets, job', offsite)
  <2>1. SUFFICES ASSUME ~torn PROVE OffsiteKept(now.tickets, job', offsite)
    OBVIOUS
  <2>2. ManualIds(list.tickets) = offsite
    BY <1>1, <1>2, <2>1 DEF OffsiteKept, Starts
  <2>3. ~Starts(job', "scope") /\ ~Starts(job', "manual")
    BY <1>7, <1>8 DEF Starts
  <2>4. Promises(job') => promised
    BY <1>8 DEF Promises, promised
  <2>5. Promises(job') => ManualIds(job'.manual) = offsite
    BY <1>3, <1>5, <1>8, <2>2, <2>4
  <2>6. QED
    BY <1>3, <2>2, <2>3, <2>5 DEF OffsiteKept
<1>13. left' \in [Bounded -> Nat]
  BY <1>1, SpendFacts
<1>14. TicketsBasics' /\ Latest' = Latest
  BY <1>1, <1>13 DEF TicketsInv, TicketsBasics, Latest
<1>15. TicketsInv'
  BY <1>1, <1>3, <1>11, <1>12, <1>14 DEF TicketsInv
<1>16. QED
  BY <1>1, <1>3, <1>15, CarriesCompares

LEMMA UpdateTicketsHolds ==
    ASSUME TicketsInv, NEW I, NEW change \in Changes, UpdateTickets(I, change)
    PROVE  TicketsInv' /\ Compares(list.tickets, list'.tickets)
<1> DEFINE s == list.tickets
           new == [i \in DOMAIN s |-> IF i \in I THEN Applied(s[i], change) ELSE s[i]]
           W == Whole(Latest)
<1>1. /\ list' = [list EXCEPT !.tickets = new]
      /\ UNCHANGED <<site, audit, sampled, job, day, offsite, torn>>
      /\ May("edits") /\ Spend("edits")
  BY DEF UpdateTickets
<1>2. IsList(list, Latest) /\ s \in Seq(W) /\ Unique(s) /\ \A i \in DOMAIN s : s[i] \in W
  BY InvFacts
<1>3. ASSUME NEW i \in DOMAIN s
      PROVE  /\ new[i] \in W /\ new[i].id = s[i].id /\ new[i].title = s[i].title
             /\ new[i].effect = s[i].effect
  <2>1. CASE i \in I
    <3>1. new[i] = Applied(s[i], change)
      BY <2>1
    <3>2. s[i] \in W
      BY <1>2
    <3>3. QED
      BY <3>1, <3>2, AppliedFacts
  <2>2. CASE i \notin I
    <3>1. new[i] = s[i]
      BY <2>2
    <3> HIDE DEF new
    <3>2. QED
      BY <1>2, <3>1
  <2>3. QED
    BY <2>1, <2>2
<1>4. new \in [DOMAIN s -> W] /\ DOMAIN new = DOMAIN s
  <2>1. \A i \in DOMAIN s : new[i] \in W
    BY <1>3
  <2>2. DOMAIN new = DOMAIN s /\ new = [i \in DOMAIN s |-> new[i]]
    OBVIOUS
  <2> HIDE DEF new, s, W
  <2>3. QED
    BY <2>1, <2>2
<1> HIDE DEF new
<1>5. SameEffects(new, s) /\ Reworked(new, s)
  BY <1>3, <1>4 DEF SameEffects, Reworked
<1>6. IsList([list EXCEPT !.tickets = new], Latest) /\ [list EXCEPT !.tickets = new].tickets = new
      /\ ManualIds(new) = ManualIds(s)
  BY <1>2, <1>4, <1>5, ReworkedList
<1>7. left' \in [Bounded -> Nat]
  BY <1>1, SpendFacts
<1>8. TicketsInv'
  BY <1>1, <1>6, <1>7, EditHolds
<1>9. QED
  BY <1>1, <1>2, <1>5, <1>6, <1>8, CarriesFacts, CarriesCompares

LEMMA UpdateExperimentHolds ==
    ASSUME TicketsInv, NEW i \in DOMAIN list.tickets, NEW bound, bound \in BOOLEAN,
           UpdateExperiment(i, bound)
    PROVE  TicketsInv' /\ Compares(list.tickets, list'.tickets)
<1> DEFINE s == list.tickets
           e == [s[i].effect EXCEPT !.bound = bound]
           t == [s[i] EXCEPT !.effect = e]
           new == [s EXCEPT ![i] = t]
           W == Whole(Latest)
<1>1. /\ list' = [list EXCEPT !.tickets[i].effect.bound = bound]
      /\ UNCHANGED <<site, audit, sampled, job, day, offsite, torn>>
      /\ May("binds") /\ Spend("binds") /\ s[i].effect.state \in {"draft", "inconclusive"}
  BY DEF UpdateExperiment, MayBind
<1>2. IsList(list, Latest) /\ s \in Seq(W) /\ Unique(s) /\ \A k \in DOMAIN s : s[k] \in W
  BY InvFacts
<1>3. s[i] \in W /\ s[i] \in Ticket /\ s[i].effect \in Effect
  BY <1>2, FieldsOf DEF Whole
<1>4. /\ e \in Effect /\ e.state = s[i].effect.state /\ e.baseline = s[i].effect.baseline
      /\ e.ends = s[i].effect.ends
  BY <1>3 DEF Effect
<1>5. list' = [list EXCEPT !.tickets = new]
  BY <1>1
<1> HIDE DEF e
<1>6. t \in W /\ t.id = s[i].id /\ t.title = s[i].title /\ t.effect = e
  <2>1. t \in Ticket
    BY <1>3, <1>4 DEF Ticket
  <2>2. t.id = s[i].id /\ t.title = s[i].title /\ t.effect = e /\ t.generated = s[i].generated
    BY <1>3 DEF Ticket
  <2>3. t.effect.baseline <= Latest
    BY <1>3, <1>4, <2>2 DEF Whole
  <2> HIDE DEF t
  <2>4. QED
    BY <1>3, <2>1, <2>2, <2>3, StaysWhole
<1> HIDE DEF t
<1>7. DOMAIN new = DOMAIN s /\ new[i] = t /\ \A k \in DOMAIN s : k # i => new[k] = s[k]
  OBVIOUS
<1>8. ASSUME NEW k \in DOMAIN s
      PROVE  /\ new[k] \in W /\ new[k].id = s[k].id /\ new[k].title = s[k].title
             /\ s[k].effect.state # "draft" => Comparable(s[k].effect, new[k].effect)
  <2>1. CASE k = i
    BY <1>1, <1>4, <1>6, <1>7, <2>1 DEF Comparable
  <2>2. CASE k # i
    BY <1>2, <1>7, <2>2 DEF Comparable
  <2>3. QED
    BY <2>1, <2>2
<1>9. new \in [DOMAIN s -> W] /\ DOMAIN new = DOMAIN s
  <2>1. \A k \in DOMAIN s : new[k] \in W
    BY <1>8
  <2>2. DOMAIN new = DOMAIN s /\ new = [k \in DOMAIN s |-> new[k]]
    OBVIOUS
  <2> HIDE DEF new, s, W
  <2>3. QED
    BY <2>1, <2>2
<1> HIDE DEF new
<1>10. Reworked(new, s)
  BY <1>8, <1>9 DEF Reworked
<1>11. Compares(s, new)
  <2> HIDE DEF s
  <2>1. QED
    BY <1>2, <1>8, <1>10, ReworkedCompares
<1>12. IsList([list EXCEPT !.tickets = new], Latest) /\ [list EXCEPT !.tickets = new].tickets = new
      /\ ManualIds(new) = ManualIds(s)
  BY <1>2, <1>9, <1>10, ReworkedList
<1>13. left' \in [Bounded -> Nat]
  BY <1>1, SpendFacts
<1>14. TicketsInv'
  BY <1>1, <1>5, <1>12, <1>13, EditHolds
<1>15. QED
  BY <1>5, <1>11, <1>12, <1>14

LEMMA EvaluateNowHolds ==
    ASSUME TicketsInv, EvaluateNow
    PROVE  TicketsInv' /\ Compares(list.tickets, list'.tickets)
<1>1. list' \in Evaluations /\ UNCHANGED <<site, audit, sampled, job, day, left, offsite, torn>>
  BY DEF EvaluateNow
<1>2. Latest \in Nat /\ day \in Nat /\ IsList(list, Latest) /\ left \in [Bounded -> Nat]
  BY InvFacts
<1>3. /\ IsList(list', Latest) /\ Compares(list.tickets, list'.tickets)
      /\ ManualIds(list'.tickets) = ManualIds(list.tickets)
  BY <1>1, <1>2, EvaluationsFacts
<1>4. TicketsInv'
  BY <1>1, <1>2, <1>3, EditHolds
<1>5. QED
  BY <1>3, <1>4

LEMMA ElsewhereHolds ==
    ASSUME TicketsInv, ChangeSite \/ DayPasses \/ UNCHANGED ticketVars
    PROVE  TicketsInv' /\ Compares(list.tickets, list'.tickets)
<1>1. IsList(list, Latest) /\ IsJob(job, Latest) /\ (~torn => OffsiteKept(list.tickets, job, offsite))
      /\ Unique(list.tickets)
  BY InvFacts
<1>2. UNCHANGED <<audit, sampled, list, job, offsite, torn>>
  BY DEF ChangeSite, DayPasses, ticketVars
<1>3. site' \in Site /\ day' \in Nat
  BY DEF ChangeSite, DayPasses, ticketVars, TicketsInv, TicketsBasics
<1>4. left' \in [Bounded -> Nat]
  <2>1. CASE ChangeSite
    BY <2>1, SpendFacts DEF ChangeSite
  <2>2. CASE DayPasses
    BY <2>2, SpendFacts DEF DayPasses
  <2>3. CASE UNCHANGED ticketVars
    BY <2>3, InvFacts DEF ticketVars
  <2>4. QED
    BY <2>1, <2>2, <2>3
<1>5. TicketsBasics' /\ Latest' = Latest
  BY <1>2, <1>3, <1>4 DEF TicketsInv, TicketsBasics, Latest
<1>6. TicketsInv'
  BY <1>1, <1>2, <1>5 DEF TicketsInv
<1>7. Compares(list.tickets, list'.tickets)
  BY <1>1, <1>2, CarriesFacts, CarriesCompares
<1>8. QED
  BY <1>6, <1>7

LEMMA CreateOffsiteHolds ==
    ASSUME TicketsInv, CreateOffsite
    PROVE  TicketsInv' /\ Compares(list.tickets, list'.tickets)
<1> DEFINE now == NormalizedList(list)
           id == NextOffsite(now)
           s == now.tickets
           new == s \o << NewTicket(id, "offsite", FALSE) >>
           W == Whole(Latest)
<1>1. /\ list' = [now EXCEPT !.tickets = Append(s, NewTicket(id, "offsite", FALSE))]
      /\ offsite' = offsite \cup {id} /\ Free /\ May("offsite") /\ Spend("offsite")
      /\ UNCHANGED <<site, audit, sampled, job, day, torn>>
  BY DEF CreateOffsite
<1>2. /\ IsList(list, Latest) /\ Latest \in Nat /\ IsJob(job, Latest)
      /\ (~torn => OffsiteKept(list.tickets, job, offsite))
  BY InvFacts
<1>3. /\ IsList(now, Latest) /\ Carries(list.tickets, s)
      /\ ManualIds(s) = ManualIds(list.tickets)
  BY <1>2, ListNormalized
<1> HIDE DEF now
<1>4. id \in Id /\ id[1] = "M" /\ \A t \in Elems(s) : t.id # id
  BY <1>3, NextOffsiteFacts
<1> HIDE DEF id
<1>5. s \in Seq(W) /\ Unique(s)
  BY <1>3, ListFacts
<1>6. PICK t : t = NewTicket(id, "offsite", FALSE)
  OBVIOUS
<1>7. t \in W
  <2>1. PICK no \in BOOLEAN : no = FALSE
    OBVIOUS
  <2>2. "offsite" \in Title
    BY DEF Title
  <2>3. (no <=> id[1] = "A") /\ ("offsite" = "offsite" <=> id[1] = "M")
    BY <1>4, <2>1
  <2>4. NewTicket(id, "offsite", no) \in W
    <3>1. \A title : title \in Title /\ title = "offsite" => NewTicket(id, title, no) \in W
      BY <1>2, <1>4, <2>3, NewTicketFacts
    <3>2. QED
      BY <2>2, <3>1
  <2>5. QED
    BY <1>6, <2>1, <2>4
<1>8. t.id = id /\ IsManual(t)
  BY <1>6 DEF NewTicket, IsManual
<1> HIDE DEF W
<1>9. PICK one : one = << t >>
  OBVIOUS
<1>10. /\ s \o one \in Seq(W) /\ Elems(s \o one) = Elems(s) \cup {t} /\ Unique(s \o one)
       /\ Append(s, t) = s \o one
  <2>1. one \in Seq(W) /\ Elems(one) = {t} /\ Unique(one) /\ Append(s, t) = s \o one
    BY <1>5, <1>7, <1>9 DEF Elems, Unique
  <2>2. \A u \in Elems(s), v \in Elems(one) : u.id # v.id
    BY <1>4, <1>8, <2>1
  <2>3. QED
    BY <1>5, <2>1, <2>2, ConcatFacts
<1>11. list' = [now EXCEPT !.tickets = s \o one]
  BY <1>1, <1>6, <1>10
<1>12. IsList(list', Latest) /\ list'.tickets = s \o one
  <2>1. s \o one \in Seq(Whole(Latest)) /\ Unique(s \o one)
    BY <1>10 DEF W
  <2>2. PICK q : q = s \o one
    OBVIOUS
  <2>3. IsList(now, Latest) /\ q \in Seq(Whole(Latest)) /\ Unique(q)
    BY <1>3, <2>1, <2>2
  <2>4. IsList([now EXCEPT !.tickets = q], Latest) /\ [now EXCEPT !.tickets = q].tickets = q
    BY <2>3, ListFacts
  <2>5. QED
    BY <1>11, <2>2, <2>4
<1>13. ManualIds(list'.tickets) = ManualIds(s) \cup {id}
  BY <1>8, <1>10, <1>12 DEF ManualIds
<1>14. Compares(list.tickets, list'.tickets)
  <2>1. Carries(list.tickets, list'.tickets)
    <3>1. SUFFICES ASSUME NEW was \in Elems(list.tickets), NEW is \in Elems(list'.tickets),
                          was.id = is.id, was.title = is.title, ~was.generated
                   PROVE  is.effect = was.effect
      BY DEF Carries
    <3>2. is \in Elems(s) \/ is = t
      BY <1>10, <1>12
    <3>3. CASE is \in Elems(s)
      BY <1>3, <3>1, <3>3 DEF Carries
    <3>4. CASE is = t
      <4>1. IsManual(was) /\ was.id = id
        BY <1>8, <3>1, <3>4 DEF IsManual
      <4>2. id \in ManualIds(s)
        BY <1>3, <4>1 DEF ManualIds
      <4>3. QED
        BY <1>4, <4>2 DEF ManualIds
    <3>5. QED
      BY <3>2, <3>3, <3>4
  <2>2. QED
    BY <2>1, CarriesCompares
<1>15. ~torn => OffsiteKept(list'.tickets, job, offsite')
  <2>1. SUFFICES ASSUME ~torn PROVE OffsiteKept(list'.tickets, job, offsite')
    OBVIOUS
  <2>2. job.steps = << >>
    BY <1>1 DEF Free
  <2>3. ~Starts(job, "scope") /\ ~Starts(job, "manual")
    BY <2>2 DEF Starts
  <2>4. ~Promises(job)
    BY <2>2 DEF Promises
  <2>5. ManualIds(list.tickets) = offsite
    BY <1>2, <2>1, <2>3 DEF OffsiteKept
  <2>6. QED
    BY <1>1, <1>3, <1>13, <2>3, <2>4, <2>5 DEF OffsiteKept
<1>16. left' \in [Bounded -> Nat] /\ offsite' \subseteq Id
  <2>1. offsite \subseteq Id
    BY DEF TicketsInv, TicketsBasics
  <2>2. QED
    BY <1>1, <1>4, <2>1, SpendFacts
<1>17. TicketsBasics' /\ Latest' = Latest
  BY <1>1, <1>16 DEF TicketsInv, TicketsBasics, Latest
<1>18. TicketsInv'
  BY <1>1, <1>2, <1>12, <1>15, <1>17 DEF TicketsInv
<1>19. QED
  BY <1>14, <1>18

LEMMA TicketsInitHolds == TicketsInit => TicketsInv
<1> SUFFICES ASSUME TicketsInit PROVE TicketsInv
  OBVIOUS
<1>1. /\ site \in Site /\ audit \in Site /\ sampled = << >> /\ job = Idle /\ day = 0
      /\ left \in [Bounded -> Nat] /\ offsite = {} /\ torn = FALSE
      /\ list = [tickets |-> << >>, excluded |-> << >>, deferred |-> << >>]
  BY TicketsAssumption DEF TicketsInit, Site
<1>2. TicketsBasics
  <2>1. sampled \in Seq(Quality)
    BY <1>1
  <2>2. torn \in BOOLEAN /\ offsite \subseteq Id /\ day \in Nat
    BY <1>1
  <2>3. QED
    BY <1>1, <2>1, <2>2 DEF TicketsBasics
<1>3. IsList(list, Latest)
  BY <1>1 DEF IsList, Lists, Unique, NoManual, Elems
<1>4. IsJob(job, Latest)
  BY <1>1, IdleFacts
<1>5. ManualIds(list.tickets) = offsite
  BY <1>1 DEF ManualIds, Elems
<1>6. OffsiteKept(list.tickets, job, offsite)
  BY <1>1, <1>5, IdleKept
<1>7. QED
  BY <1>2, <1>3, <1>4, <1>6 DEF TicketsInv

LEMMA TicketsStepHolds ==
    ASSUME TicketsInv, [TicketsNext]_ticketVars
    PROVE  TicketsInv' /\ Compares(list.tickets, list'.tickets)
<1>1. CASE \E script \in Jobs : Begin(script)
  BY <1>1, BeginHolds
<1>2. CASE Crawl
  BY <1>2, CrawlHolds
<1>3. CASE Sample
  BY <1>3, SampleHolds
<1>4. CASE BuildTickets
  BY <1>4, BuildTicketsHolds
<1>5. CASE ScopeTickets
  BY <1>5, ScopeTicketsHolds
<1>6. CASE PutBackManual
  BY <1>6, PutBackManualHolds
<1>7. CASE PutBackWorkflow
  BY <1>7, PutBackWorkflowHolds
<1>8. CASE VerifyTickets
  BY <1>8, VerifyTicketsHolds
<1>9. CASE RecordVerification
  BY <1>9, RecordVerificationHolds
<1>10. CASE EvaluateEffects
  BY <1>10, EvaluateEffectsHolds
<1>11. CASE RestoreTickets
  BY <1>11, RestoreTicketsHolds
<1>12. CASE NormalizeProject
  BY <1>12, NormalizeProjectHolds
<1>13. CASE JobFails
  BY <1>13, JobFailsHolds
<1>14. CASE JobDies
  BY <1>14, JobDiesHolds
<1>15. CASE \E I \in SUBSET DOMAIN list.tickets, change \in Changes :
                Cardinality(I) \in 1 .. 2 /\ UpdateTickets(I, change)
  BY <1>15, UpdateTicketsHolds
<1>16. CASE \E i \in DOMAIN list.tickets, bound \in BOOLEAN : UpdateExperiment(i, bound)
  <2>1. PICK i \in DOMAIN list.tickets, bound \in BOOLEAN : UpdateExperiment(i, bound)
    BY <1>16
  <2>2. \A b : b \in BOOLEAN /\ UpdateExperiment(i, b) =>
                  TicketsInv' /\ Compares(list.tickets, list'.tickets)
    BY UpdateExperimentHolds
  <2>3. QED
    BY <2>1, <2>2
<1>17. CASE CreateOffsite
  BY <1>17, CreateOffsiteHolds
<1>18. CASE EvaluateNow
  BY <1>18, EvaluateNowHolds
<1>19. CASE ChangeSite \/ DayPasses \/ UNCHANGED ticketVars
  BY <1>19, ElsewhereHolds
<1>20. QED
  BY <1>1, <1>2, <1>3, <1>4, <1>5, <1>6, <1>7, <1>8, <1>9, <1>10, <1>11, <1>12, <1>13, <1>14,
     <1>15, <1>16, <1>17, <1>18, <1>19 DEF TicketsNext

LEMMA InvGivesTicketTypes == TicketsInv => TicketsTypeOK
<1> SUFFICES ASSUME TicketsInv PROVE TicketsTypeOK
  OBVIOUS
<1>1. /\ site \in Site /\ audit \in Site /\ sampled \in Seq(Quality)
      /\ day \in Nat /\ left \in [Bounded -> Nat] /\ offsite \subseteq Id /\ torn \in BOOLEAN
  BY DEF TicketsInv, TicketsBasics
<1>2. IsList(list, Latest) /\ IsJob(job, Latest)
  BY DEF TicketsInv
<1>3. \A i \in DOMAIN sampled : sampled[i] \in Quality
  <2> DEFINE Q == Quality
  <2> HIDE DEF Q
  <2>1. sampled \in Seq(Q)
    BY <1>1 DEF Q
  <2>2. QED
    BY <2>1 DEF Q
<1>4. \A piece \in {"tickets", "excluded", "deferred"} :
          \A i \in DOMAIN list[piece] : list[piece][i] \in Ticket
  <2> DEFINE W == Whole(Latest)
  <2>1. W \subseteq Ticket
    BY DEF Whole
  <2>2. list["tickets"] \in Seq(W) /\ list["excluded"] \in Seq(W) /\ list["deferred"] \in Seq(W)
    BY <1>2, ListFacts
  <2> HIDE DEF W
  <2>3. \A piece \in {"tickets", "excluded", "deferred"} : list[piece] \in Seq(W)
    BY <2>2
  <2>4. \A s \in Seq(W) : \A i \in DOMAIN s : s[i] \in Ticket
    BY <2>1
  <2>5. QED
    BY <2>3, <2>4
<1>5. \E script \in Jobs :
          job.steps \in {SubSeq(script, n, Len(script)) : n \in 1 .. Len(script) + 1}
  BY <1>2 DEF IsJob, Suffix
<1>6. QED
  BY <1>1, <1>3, <1>4, <1>5 DEF TicketsTypeOK

LEMMA InvKeepsOffsite == TicketsInv => OffsiteSurvives
<1> SUFFICES ASSUME TicketsInv, Free, ~torn
             PROVE  /\ OffsiteIds = offsite
                    /\ Cardinality({i \in DOMAIN list.tickets : IsManual(list.tickets[i])})
                         = Cardinality(offsite)
  BY DEF OffsiteSurvives
<1> DEFINE s == list.tickets
           I == {i \in DOMAIN s : IsManual(s[i])}
<1>1. /\ s \in Seq(Whole(Latest)) /\ Unique(s) /\ OffsiteKept(s, job, offsite)
  BY InvFacts
<1>2. ManualIds(s) = offsite
  BY <1>1 DEF OffsiteKept, Starts, Free
<1>3. OffsiteIds = offsite
  <2>1. OffsiteIds = {s[i].id : i \in I}
    BY DEF OffsiteIds
  <2>2. ManualIds(s) = {s[i].id : i \in I}
    BY DEF ManualIds, Elems
  <2>3. QED
    BY <1>2, <2>1, <2>2
<1>4. IsFiniteSet(I)
  <2>1. I \subseteq 1 .. Len(s) /\ Len(s) \in Nat
    BY <1>1
  <2>2. QED
    BY <2>1, FS_Interval, FS_Subset
<1>5. ExistsBijection(I, offsite)
  <2> DEFINE f == [i \in I |-> s[i].id]
  <2>1. offsite = {s[i].id : i \in I}
    BY <1>2 DEF ManualIds, Elems
  <2>2. f \in [I -> offsite]
    BY <2>1
  <2>3. \A i, j \in I : f[i] = f[j] => i = j
    BY <1>1 DEF Unique
  <2>4. \A t \in offsite : \E i \in I : f[i] = t
    BY <2>1
  <2> HIDE DEF f, I
  <2>5. f \in Bijection(I, offsite)
    BY <2>2, <2>3, <2>4 DEF Bijection, Injection, Surjection, IsInjective
  <2>6. QED
    BY <2>5 DEF ExistsBijection
<1>6. Cardinality(I) = Cardinality(offsite)
  <2> HIDE DEF I
  <2>1. QED
    BY <1>4, <1>5, FS_Bijection
<1>7. QED
  BY <1>3, <1>6

LEMMA TicketsHold == TicketsSpec => []TicketsInv
<1>1. TicketsInit => TicketsInv
  BY TicketsInitHolds
<1>2. TicketsInv /\ [TicketsNext]_ticketVars => TicketsInv'
  BY TicketsStepHolds
<1>3. QED
  BY <1>1, <1>2, PTL DEF TicketsSpec

\* The conditions ExperimentsComparable and WorkIsKept put on one step.
WorkKept ==
    RestoreTickets =>
        \A i \in DOMAIN job.workflow, j \in DOMAIN list'.tickets :
            LET was == job.workflow[i]
                is  == list'.tickets[j]
            IN was.id = is.id /\ was.title = is.title =>
                 was.status = is.status /\ was.owner = is.owner /\ is.custom

LEMMA StepKeepsWork == TicketsInv => WorkKept
BY RestoreTicketsHolds DEF WorkKept

LEMMA StepComparesExperiments ==
    ASSUME TicketsInv, [TicketsNext]_ticketVars
    PROVE  \A i \in DOMAIN list.tickets, j \in DOMAIN list'.tickets :
        LET was == list.tickets[i]
            is  == list'.tickets[j]
        IN was.id = is.id /\ was.title = is.title /\ ~was.generated
             /\ was.effect.state # "draft" =>
             /\ is.effect.baseline = was.effect.baseline
             /\ was.effect.state \in {"deployed", "observing"} =>
                  is.effect.bound = was.effect.bound
             /\ was.effect.state \in {"effective", "ineffective"} => is.effect = was.effect
             /\ is.effect.state # was.effect.state /\ is.effect.state # "observing" =>
                  /\ day >= was.effect.ends
                  /\ Latest > was.effect.baseline
<1>1. Compares(list.tickets, list'.tickets)
  BY TicketsStepHolds
<1>2. ASSUME NEW i \in DOMAIN list.tickets, NEW j \in DOMAIN list'.tickets,
             list.tickets[i].id = list'.tickets[j].id,
             list.tickets[i].title = list'.tickets[j].title,
             ~list.tickets[i].generated, list.tickets[i].effect.state # "draft"
      PROVE  Comparable(list.tickets[i].effect, list'.tickets[j].effect)
  <2>1. list.tickets[i] \in Elems(list.tickets) /\ list'.tickets[j] \in Elems(list'.tickets)
    BY DEF Elems
  <2>2. QED
    BY <1>1, <1>2, <2>1 DEF Compares
<1>3. QED
  BY <1>2 DEF Comparable

\* The types of the ticket lists, of the job that works on them, and of what
\* they are made from, for all people, changes and budgets.
THEOREM TicketsTyped == TicketsSpec => []TicketsTypeOK
<1>1. TicketsInv => TicketsTypeOK
  BY InvGivesTicketTypes
<1>2. QED
  BY <1>1, TicketsHold, PTL

\* An offsite ticket outlasts every rebuild that is not killed before its merge, what
\* people gave a ticket is put back onto it, and an experiment that runs keeps its
\* questions, its baseline and its verdict.
THEOREM RemediationHolds == TicketsSpec => RemediationLasts
<1>1. TicketsInv => OffsiteSurvives
  BY InvKeepsOffsite
<1>2. TicketsSpec => WorkIsKept
  <2>1. TicketsInv /\ [TicketsNext]_ticketVars => [WorkKept]_ticketVars
    BY StepKeepsWork
  <2>2. QED
    BY <2>1, TicketsHold, PTL DEF TicketsSpec, WorkIsKept, WorkKept
<1>3. TicketsSpec => ExperimentsComparable
  <2>1. QED
    BY StepComparesExperiments, TicketsHold, PTL DEF TicketsSpec, ExperimentsComparable
<1>4. QED
  BY <1>1, <1>2, <1>3, TicketsHold, PTL DEF RemediationLasts

-----------------------------------------------------------------------------
(* The whole                                                               *)

\* A behaviour of the workspace is one of each of its parts.
LEMMA WorkspaceParts ==
    WorkspaceSpec => /\ FactsSpec /\ AssetsSpec /\ DeliveriesSpec
                     /\ TicketsSpec /\ CrawlsSpec /\ SnapshotsSpec
<1>1. [WorkspaceNext]_workspaceVars => [FactsNext]_factsVars
  BY DEF WorkspaceNext, workspaceVars
<1>2. [WorkspaceNext]_workspaceVars => [AssetsNext]_assetsVars
  BY DEF WorkspaceNext, workspaceVars
<1>3. [WorkspaceNext]_workspaceVars => [DeliveriesNext]_deliveryVars
  BY DEF WorkspaceNext, workspaceVars
<1>4. [WorkspaceNext]_workspaceVars => [TicketsNext]_ticketVars
  BY DEF WorkspaceNext, workspaceVars
<1>5. [WorkspaceNext]_workspaceVars => [CrawlsNext]_crawlVars
  BY DEF WorkspaceNext, workspaceVars
<1>6. [WorkspaceNext]_workspaceVars => [SnapshotsNext]_snapshotVars
  BY DEF WorkspaceNext, workspaceVars
<1>7. WorkspaceInit => /\ FactsInit /\ AssetsInit /\ DeliveriesInit
                       /\ TicketsInit /\ CrawlsInit /\ SnapshotsInit
  BY DEF WorkspaceInit
<1>8. QED
  BY <1>1, <1>2, <1>3, <1>4, <1>5, <1>6, <1>7, PTL
     DEF WorkspaceSpec, FactsSpec, AssetsSpec, DeliveriesSpec, TicketsSpec, CrawlsSpec,
         SnapshotsSpec

\* The types of everything a project's directory holds.
THEOREM WorkspaceTyped == WorkspaceSpec => []WorkspaceTypeOK
  BY WorkspaceParts, FactsTyped, AssetsTyped, DeliveriesTyped, TicketsTyped, CrawlsTyped,
     SnapshotsTyped, PTL DEF WorkspaceTypeOK
=============================================================================
