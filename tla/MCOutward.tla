------------------------------ MODULE MCOutward ------------------------------
(* Where the program meets others: tenants that share a process, mail that is *)
(* sent, files that are published, figures that Google has, and the answers   *)
(* of engines. A behaviour is of one of these.                                *)
EXTENDS Contexts, Outreach, Publishing, SearchData, Sampling

CONSTANTS p1, p2, w1, w2

\* Two processes: editors' pages, publishing requests or search requests; and
\* two workers.
MCProcess == {p1, p2}
MCMailers == {w1, w2}

-----------------------------------------------------------------------------
(* Contexts                                                                *)

MCCallers == {"a", "b", "c"}

MCLoad(a, b, c, child) == [a |-> a, b |-> b, c |-> c, child |-> child]
MCLoads ==
    {MCLoad("test", "provider", "write", "none"), MCLoad("publish", "reserve", "write", "none"),
     MCLoad("test", "write", "write", "none"), MCLoad("reserve", "provider", "read", "none"),
     MCLoad("none", "none", "none", "job")}

OwnSite == <<"com", "site">>
MCHop(host, public, answers) == [host |-> host, public |-> public, answers |-> answers]
HopTo(host) == MCHop(host, TRUE, <<"ok">>)
HopOn(host) == MCHop(host, TRUE, <<"busy", "moved">>)

\* A page, one moved to www and to a part of the site, one moved elsewhere or to
\* an address that is not public, and one that moves too often.
MCChains ==
    {<<HopTo(OwnSite)>>,
     <<HopOn(OwnSite), HopOn(OwnSite \o <<"www">>), HopTo(OwnSite \o <<"shop">>)>>,
     <<HopOn(OwnSite), HopTo(<<"com", "other">>)>>,
     <<HopOn(OwnSite), MCHop(OwnSite, FALSE, <<"ok">>)>>,
     [i \in 1 .. 8 |-> HopOn(OwnSite)]}

-----------------------------------------------------------------------------
(* Outreach and publishing                                                 *)

Mishap(crash, refusal, mail, cancel, rival, access) ==
    [crash |-> crash, smtp |-> refusal, mail |-> mail, cancel |-> cancel, rival |-> rival,
     access |-> access]
MCMishaps ==
    {Mishap(1, 0, 1, 0, 0, 0), Mishap(1, 0, 0, 1, 1, 0), Mishap(0, 1, 1, 0, 0, 1)}

Upset(pulls, published, lists, merges, saves, faults) ==
    [pulls |-> pulls, posts |-> published, lists |-> lists, merges |-> merges, saves |-> saves,
     faults |-> faults]
MCUpsets == {Upset(2, 0, 0, 0, 0, 1), Upset(3, 0, 1, 1, 0, 0), Upset(0, 2, 0, 0, 1, 1)}

-----------------------------------------------------------------------------
(* Search data                                                             *)

MCProperties == <<"own", "parent", "far">>
MCAccountsOf == {{"own", "far"}, {"parent", "far"}, {}}
MCRelation ==
    [s \in {"s1", "s2"} |-> [own |-> "exact", parent |-> "parent", far |-> "other"]]

MCQuery(name, branded, intent, shown) ==
    [name |-> name, branded |-> branded, short |-> FALSE, intent |-> intent, shown |-> shown]
MCQueries == {MCQuery(1, FALSE, FALSE, 3), MCQuery(2, FALSE, TRUE, 1), MCQuery(3, TRUE, TRUE, 2)}

Visit(user, site, flow) == [user |-> user, site |-> site, flow |-> flow]
Occasion(asks, selects, deletes, changes, adds, faults) ==
    [asks |-> asks, selects |-> selects, deletes |-> deletes, changes |-> changes,
     adds |-> adds, faults |-> faults]
MCOccasions ==
    {Occasion({Visit("u", "s1", "gsc"), Visit("u", "s2", "gsc")}, 1, 0, 0, 1, 1),
     Occasion({Visit("u", "s1", "ga4"), Visit("v", "s1", "ga4")}, 1, 0, 1, 0, 0),
     Occasion({Visit("u", "s1", "gsc"), Visit("v", "s1", "gsc")}, 0, 1, 0, 0, 0),
     Occasion({Visit("u", "s1", "ga4")}, 2, 1, 0, 0, 1)}

-----------------------------------------------------------------------------
(* Sampling: an engine of China, one that asks in two modes, and one that the *)
(* user defined.                                                              *)

EngineProfile(market, protocol, search, dual, custom) ==
    [market |-> market, protocol |-> protocol, search |-> search, dual |-> dual,
     custom |-> custom]
MCProfile ==
    [doubao   |-> EngineProfile("cn", "ark", TRUE, FALSE, FALSE),
     deepseek |-> EngineProfile("global", "chat", FALSE, TRUE, FALSE),
     custom_1 |-> EngineProfile("both", "chat", FALSE, FALSE, TRUE)]

SampleBudget(started, edits, funds, troubles, deaths, imports) ==
    [jobs |-> started, edits |-> edits, funds |-> funds, troubles |-> troubles,
     deaths |-> deaths, imports |-> imports]
Funds(doubao, deepseek, custom) ==
    [doubao |-> doubao, deepseek |-> deepseek, custom_1 |-> custom]
MCScene(budgeted, market, markets, funds, jobs) ==
    [left |-> budgeted, market |-> market, asks |-> markets, platforms |-> {"doubao"},
     funds |-> funds, kinds |-> jobs]
OneScene ==
    MCScene(SampleBudget(1, 0, 1, 1, 0, 0), "both", <<"cn", "global">>,
            Funds("none", "none", "byok"), {"deliver"})
MCScenes ==
    {MCScene(SampleBudget(2, 0, 0, 1, 1, 0), "cn", <<"cn", "both">>,
             Funds("byok", "none", "none"), {"sample", "deliver"}),
     MCScene(SampleBudget(2, 0, 0, 1, 0, 1), "both", <<"cn", "global">>,
             Funds("byok", "pool", "none"), {"deliver"}),
     MCScene(SampleBudget(2, 1, 0, 1, 0, 0), "cn", <<"cn", "both">>,
             Funds("byok", "none", "none"), {"serve"}),
     OneScene}

-----------------------------------------------------------------------------
VARIABLE part
outwardVars == <<contextVars, outreachVars, publishingVars, searchVars, samplingVars, part>>

\* The parts that a behaviour is not of start in one way.
OutwardInit ==
    /\ part \in {"contexts", "outreach", "publishing", "search", "sampling"}
    /\ ContextsInit   /\ (part # "contexts" => load.child = "job")
    /\ OutreachInit   /\ (part # "outreach" => spare.access = 1)
    /\ PublishingInit /\ (part # "publishing" => pubLeft.saves = 1)
    /\ SearchDataInit /\ (part # "search" => searchLeft.selects = 2)
    /\ SamplingInit   /\ (part # "sampling" => remaining = OneScene.left)

OutwardNext ==
    \/ /\ part = "contexts" /\ ContextsNext
       /\ UNCHANGED <<outreachVars, publishingVars, searchVars, samplingVars, part>>
    \/ /\ part = "outreach" /\ OutreachNext
       /\ UNCHANGED <<contextVars, publishingVars, searchVars, samplingVars, part>>
    \/ /\ part = "publishing" /\ PublishingNext
       /\ UNCHANGED <<contextVars, outreachVars, searchVars, samplingVars, part>>
    \/ /\ part = "search" /\ SearchDataNext
       /\ UNCHANGED <<contextVars, outreachVars, publishingVars, samplingVars, part>>
    \/ /\ part = "sampling" /\ SamplingNext
       /\ UNCHANGED <<contextVars, outreachVars, publishingVars, searchVars, part>>

OutwardSpec == OutwardInit /\ [][OutwardNext]_outwardVars

\* The variables of all parts keep to their values.
OutwardTypeOK ==
    /\ ContextsTypeOK /\ OutreachTypeOK /\ PublishingTypeOK
    /\ SearchDataTypeOK /\ SamplingTypeOK

Symmetry == Permutations(MCProcess) \cup Permutations(MCMailers)
=============================================================================
