------------------------------ MODULE MCAccounts -----------------------------
(* What a customer has: a subscription, sessions, a team and the quotas of a  *)
(* plan. They share nothing but the process that serves them, and a behaviour *)
(* is of one of them.                                                         *)
EXTENDS StripeBilling, Sessions, Team, Quotas

CONSTANTS p1, p2, plan1, plan2, s1, s2, x1, x2

\* Two processes, which serve webhooks, sessions, the team and the projects.
MCProcess == {p1, p2}

MCPlan == {plan1, plan2}
MCSub == {s1, s2}

\* What happens besides the first payment, one scenario per behaviour.
Scenarios ==
    {{"renew", "overlap", "usage"}, {"fail"}, {"delete", "overlap"},
     {"delete", "second"}, {"change"}, {"refund"}, {"expire", "overlap", "second"}}

MCPerson == {x1, x2}

MCSlugs == {s1, s2}
MCCatalog == <<"openai", "deepseek">>
MCPrice == [openai |-> 2, deepseek |-> 1, kimi |-> 0]
MCAsks == [openai |-> 1, deepseek |-> 1, kimi |-> 1]
MCProjectLimit == [trial |-> 1, starter |-> 1]

Wanting(kinds, days, requests, failures) ==
    [keys |-> {"kimi"}, callLimit |-> {}, budget |-> {}, does |-> kinds,
     days |-> days, requests |-> requests, failures |-> failures]

\* Customers with a key of their own, without one, and with limits of their own.
MCCustomers ==
    {Wanting({"create", "sample", "import", "retry"}, 0, 4, 1),
     Wanting({"create", "audit", "archive"}, 0, 5, 0),
     Wanting({"create", "deliver", "cancel"}, 0, 4, 0),
     Wanting({"create", "retest", "archive"}, 3, 2, 1),
     [Wanting({"create", "sample", "subscribe"}, 0, 3, 0) EXCEPT !.keys = {}],
     [Wanting({"create", "sample"}, 0, 2, 0) EXCEPT !.keys = {}, !.callLimit = {2}, !.budget = {1}]}

VARIABLES part, focus, scenario
accountVars == <<billingVars, sessionVars, teamVars, quotaVars, part, focus, scenario>>

\* An event that was received is processed next, unless another process handles
\* the same one: until then nothing can change that the receipt has looked at.
Received ==
    {h \in Handler :
        /\ handling[h].step = "received"
        /\ \A g \in Handler \ {h} :
            handling[g] = NoEvent \/ handling[g].event # handling[h].event}

\* What changes between the authorisation of a request and its reading is looked
\* at in one scenario; in the others a request that was authorised reads next.
Authorised ==
    {r \in Caller : asking[r].step = "signed in" /\ "usage" \notin scenario}

BillingStep ==
    IF Received # {} THEN \E h \in Received : Begin(h)
    ELSE IF Authorised # {} THEN \E r \in Authorised : OwnerActs(r)
    ELSE BillingNext

\* What happens in a behaviour of billing: two transactions at once at most, one
\* of them of an owner. A subscription changes at most once a second, since no
\* time stamp could tell two changes apart; two changes of a plan, and what
\* overlaps with the end of a subscription, take three seconds.
InScenario ==
    /\ LET webhooks == Cardinality({h \in Handler : handling'[h] # NoEvent})
           requests == Cardinality({r \in Caller : asking'[r] # NoRequest})
       IN  /\ webhooks + requests <= 2 /\ requests <= 1
           /\ "overlap" \notin scenario => webhooks <= 1
    /\ \A r \in Caller : asking'[r].step = "usage" => "usage" \in scenario
    /\ \A r \in Caller : asking'[r].step = "cancel" => asking'[r].marks
    /\ "change" \in scenario \/ {"delete", "overlap"} \subseteq scenario => now' <= 3
    /\ "second" \notin scenario => Cardinality({s \in Sub : stripe'[s].status # "none"}) <= 1
    /\ \A s \in Sub :
        /\ stripe'[s] # stripe[s] => stripe[s].at < now
        /\ stripe'[s].end > stripe[s].end /\ stripe[s].end # 0 =>
               (IF stripe'[s].status = "active" THEN "renew" ELSE "fail") \in scenario
        /\ stripe'[s].cancels => "delete" \in scenario
        /\ stripe'[s].answers # {} => "change" \in scenario
        /\ refunded'[s] > 0 => "refund" \in scenario /\ refunded'[s] <= 2
    /\ \A i \in DOMAIN sessions : sessions'[i].state = "expired" => "expire" \in scenario

\* A team's behaviour is about invitations that change, about the people an
\* operator suspends, or about the workspace he disables.
InFocus ==
    \A d \in Desk :
        /\ focus = "invitations" => desk'[d].step \notin {"key", "effects"}
        /\ focus # "invitations" =>
            /\ desk'[d].step # "revoke"
            /\ desk'[d].step = "invite" => desk'[d].role = "owner"
            /\ desk'[d].step = "member" => desk'[d].to = "none"
            /\ \A x \in Person : user[x] = "none" /\ role'[x] = "none" => user'[x] = "none"
            /\ \A i \in DOMAIN invites' : invites'[i].state # "expired"
        /\ focus # "users" => \A x \in Person : user'[x] # "disabled"
        /\ focus = "workspace" => desk'[d].step # "member"

\* A person with a link to reset the password has two tokens at most.
InReach == links' # <<>> => Len(tokens') <= 2

AccountsInit ==
    /\ part \in {"billing", "sessions", "team", "quotas"}
    /\ BillingInit
    /\ scenario \in IF part = "billing" THEN Scenarios ELSE {{}}
    /\ SessionsInit
    /\ TeamInit
    /\ focus \in IF part = "team" THEN {"invitations", "users", "workspace"} ELSE {"none"}
    /\ QuotasInit  /\ (part # "quotas" => customer.budget = {1})

AccountsNext ==
    \/ part = "billing" /\ BillingStep /\ InScenario
                        /\ UNCHANGED <<sessionVars, teamVars, quotaVars, part, focus, scenario>>
    \/ part = "sessions" /\ SessionsNext /\ InReach
                         /\ UNCHANGED <<billingVars, teamVars, quotaVars, part, focus, scenario>>
    \/ part = "team" /\ TeamNext /\ InFocus
                     /\ UNCHANGED <<billingVars, sessionVars, quotaVars, part, focus, scenario>>
    \/ part = "quotas" /\ QuotasNext /\ UNCHANGED <<billingVars, sessionVars, teamVars, part, focus, scenario>>

AccountsSpec == AccountsInit /\ [][AccountsNext]_accountVars

\* The variables of the part a behaviour is of keep to their values; the others stay.
AccountsTypeOK ==
    /\ part = "billing" => BillingTypeOK
    /\ part = "sessions" => SessionsTypeOK
    /\ part = "team" => TeamTypeOK
    /\ part = "quotas" => QuotasTypeOK

\* The books of payments and refunds are complete, and no event is stuck; two
\* refunds handled at the same time would count one of them twice.
PaymentsAddUp ==
    PaymentsRecorded /\ LastEventAccepted /\ ("overlap" \notin scenario => RefundsAddUp)

Symmetry == Permutations(MCProcess) \cup Permutations(MCPlan) \cup Permutations(MCSub)
=============================================================================
