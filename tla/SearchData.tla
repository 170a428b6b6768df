----------------------------- MODULE SearchData -----------------------------
(***************************************************************************)
(* First-party search data of a project (api/searchdata): an editor        *)
(* authorizes Google Search Console ("gsc") or Analytics ("ga4"), Google   *)
(* sends the browser back with a code, the code becomes an access token,   *)
(* and with the token one property's figures are read into a snapshot.     *)
(* When it is not clear which property is the project's, the token waits   *)
(* in a session for the editor to choose.  Queries of a snapshot may be    *)
(* added to the project's questions.                                       *)
(*                                                                         *)
(* Requests run in threads of one process and take no lock: PKCE           *)
(* verifiers and sessions are in Redis, snapshots are files.               *)
(***************************************************************************)
EXTENDS Naturals, Sequences, FiniteSets, SequencesExt

CONSTANTS
    Handlers,       \* requests in flight at a time
    Users,
    Sites,         \* projects of the tenant
    Properties,    \* properties of the Google account, in the order they are scanned
    Accounts,      \* what an account may list of them
    Relation,      \* [Sites -> [properties -> "exact", "parent" or "other"]]
    Queries,       \* [name, branded, short, intent, shown]: a site's rows
    ScanLimit,     \* MAX_PROPERTY_SCAN; the code's is 40
    FallbackKeep,  \* FALLBACK_CHOICES; the code's is 10
    CandidateKeep, \* MAX_CANDIDATES; the code's is 20
    HistoryKeep,   \* HISTORY_KEEP; the code's is 5
    Occasions      \* bound: what may happen, one record of counts per instance

Flows == {"gsc", "ga4"}
AllListed == ToSet(Properties)

ASSUME SearchDataAssumption ==
    /\ ScanLimit \in Nat \ {0} /\ FallbackKeep \in Nat /\ CandidateKeep \in Nat /\ HistoryKeep \in Nat \ {0}
    /\ \A listed \in Accounts : listed \subseteq AllListed
    /\ Relation \in [Sites -> [AllListed -> {"exact", "parent", "other"}]]
    /\ \A o \in Occasions : o \in [asks : SUBSET [user : Users, site : Sites, flow : Flows],
                                   selects : Nat, deletes : Nat, changes : Nat, adds : Nat, faults : Nat]

VARIABLES
    editors,    \* the tenant's active owners and editors
    archived,   \* archived projects
    asked,      \* the authorizations, in order: whose, of which project and flow
    fresh,      \* states that are not ten minutes old
    verifiers,  \* PKCE verifiers in Redis, by authorization
    codes,      \* external: codes Google has not exchanged yet
    token,      \* per authorization: no token, one that may be used, one given back
    offer,      \* sessions in Redis: the properties an authorization may choose from
    lapsed,     \* history: sessions that expired
    heard,      \* history: what Google listed to an authorization
    thread,     \* per request: where it is and what it read
    file,       \* the current snapshot of a flow and a project
    history,    \* the snapshots set aside
    bank,       \* questions that came from a snapshot
    searchLeft  \* what may still happen

searchVars == <<editors, archived, asked, fresh, verifiers, codes, token, offer, lapsed, heard, thread,
                file, history, bank, searchLeft>>
google == <<codes, token, heard>>
redis == <<fresh, verifiers, offer, lapsed>>
tenant == <<editors, archived>>
data == <<file, history, bank>>

NoSnapshot == [ask |-> 0]
Unused == [at |-> "away", ask |-> 0, site |-> "", user |-> "", flow |-> "", has |-> FALSE, choice |-> "", selects |-> FALSE]
Places == Flows \X Sites

SearchDataInit ==
    /\ editors = Users /\ archived = {}
    /\ asked = <<>> /\ fresh = {} /\ verifiers = {} /\ codes = {}
    /\ token = <<>> /\ offer = <<>> /\ lapsed = {} /\ heard = <<>>
    /\ thread = [t \in Handlers |-> Unused]
    /\ file = [p \in Places |-> NoSnapshot] /\ history = [p \in Places |-> <<>>]
    /\ bank = [s \in Sites |-> {}]
    /\ searchLeft \in Occasions

Spends(what) == searchLeft[what] > 0 /\ searchLeft' = [searchLeft EXCEPT ![what] = @ - 1]
MovesTo(t, at) == thread' = [thread EXCEPT ![t].at = at]
Returns(t) == thread' = [thread EXCEPT ![t] = Unused]
GivesTokenBack(a) == token' = [token EXCEPT ![a] = "returned"]

\* require_editor with _project
MayEdit(u, s) == u \in editors /\ s \notin archived

-----------------------------------------------------------------------------
(* Authorization *)

\* authorize_gsc, authorize_ga4: the state names user, project and flow, and
\* the verifier waits under its nonce.
AuthorizationUrl(ask) ==
    /\ ask \in searchLeft.asks /\ MayEdit(ask.user, ask.site)
    /\ searchLeft' = [searchLeft EXCEPT !.asks = @ \ {ask}]
    /\ asked' = Append(asked, ask)
    /\ fresh' = fresh \cup {Len(asked')} /\ verifiers' = verifiers \cup {Len(asked')}
    /\ codes' = codes \cup {Len(asked')}
    /\ token' = Append(token, "none") /\ offer' = Append(offer, {}) /\ heard' = Append(heard, {})
    /\ UNCHANGED <<tenant, lapsed, thread, data>>

\* STATE_TTL is the state's and the verifier's.
StateExpires(a) ==
    /\ a \in fresh /\ Spends("changes")
    /\ fresh' = fresh \ {a} /\ verifiers' = verifiers \ {a}
    /\ UNCHANGED <<tenant, asked, google, offer, lapsed, thread, data>>

\* google_callback with verify_state and _callback_user: who it is comes from the
\* signed state, what they may do from the tenant as it is now.
Callback(t, a) ==
    /\ thread[t] = Unused /\ a \in fresh
    /\ MayEdit(asked[a].user, asked[a].site)
    /\ thread' = [thread EXCEPT ![t] = [Unused EXCEPT !.at = "get", !.ask = a, !.site = asked[a].site,
                                                    !.user = asked[a].user, !.flow = asked[a].flow]]
    /\ UNCHANGED <<tenant, asked, redis, google, data, searchLeft>>

\* _take_verifier: two calls of Redis
GetVerifier(t) ==
    /\ thread[t].at = "get"
    /\ thread' = [thread EXCEPT ![t].at = "take", ![t].has = thread[t].ask \in verifiers]
    /\ UNCHANGED <<tenant, asked, redis, google, data, searchLeft>>
TakeVerifier(t) ==
    /\ thread[t].at = "take"
    /\ verifiers' = verifiers \ {thread[t].ask}
    /\ IF thread[t].has THEN MovesTo(t, "exchange") ELSE Returns(t)
    /\ UNCHANGED <<tenant, asked, fresh, offer, lapsed, google, data, searchLeft>>

\* exchange_code: a code is good for one token, which goes back at once when the
\* scope was not granted.
ExchangeCode(t, granted) ==
    LET a == thread[t].ask IN
    /\ thread[t].at = "exchange"
    /\ codes' = codes \ {a}
    /\ IF a \notin codes THEN Returns(t) /\ UNCHANGED token
       ELSE IF ~granted  THEN Returns(t) /\ GivesTokenBack(a)
       ELSE MovesTo(t, "list") /\ token' = [token EXCEPT ![a] = "held"]
    /\ UNCHANGED <<tenant, asked, redis, heard, data, searchLeft>>

-----------------------------------------------------------------------------
(* How a request ends when a call fails *)

\* "upstream": a GscError or a Ga4Error; "other": Redis, a file, a malformed figure.
\* _ga4_callback returns its token whatever happened, _gsc_callback after a
\* GscError; a choice closes its session either way.
\* A plausible bug: the token goes back where the errors of Google are handled.
RaiseUnguarded(t, kind) ==
    IF thread[t].selects THEN MovesTo(t, "close") /\ UNCHANGED token
    ELSE /\ Returns(t)
         /\ IF kind = "upstream" THEN GivesTokenBack(thread[t].ask) ELSE UNCHANGED token
Raise(t, kind) ==
    IF thread[t].selects THEN MovesTo(t, "close") /\ UNCHANGED token
    ELSE /\ Returns(t)
         /\ IF thread[t].flow = "ga4" \/ kind = "upstream"
            THEN GivesTokenBack(thread[t].ask) ELSE UNCHANGED token

\* The request dies of a fault: which ones its step can meet is up to the step.
Faults(t, kind) ==
    /\ Spends("faults") /\ Raise(t, kind)
    /\ UNCHANGED <<tenant, asked, redis, codes, heard, data>>

-----------------------------------------------------------------------------
(* Which property is the project's *)

\* match_sites: the properties of the project's host
MatchSites(site, listed) == {p \in listed : Relation[site][p] = "exact"}

\* The first n properties of a set, in the order they are scanned
Position(p) == CHOOSE i \in DOMAIN Properties : Properties[i] = p
FirstOf(n, s) == {p \in s : Cardinality({q \in s : Position(q) < Position(p)}) < n}

\* match_properties: the first so many are looked up, one lookup may fail; the
\* project's own and its parent's host match, some others are offered.
Scanned(listed) == FirstOf(ScanLimit, listed)
MatchProperties(site, found) == {p \in found : Relation[site][p] # "other"}
Fallback(site, found) == FirstOf(FallbackKeep, {p \in found : Relation[site][p] = "other"})

\* What is offered when it is not exactly one property of the project's own host.
Offered(flow, site, found) ==
    IF flow = "ga4" THEN MatchProperties(site, found) \cup Fallback(site, found)
    ELSE IF MatchSites(site, found) # {} THEN MatchSites(site, found) ELSE found

\* list_sites, list_properties: what the account may read
ListProperties(t, listed, found) ==
    LET a == thread[t].ask  flow == thread[t].flow  site == thread[t].site
        sure == MatchSites(site, found)
        choices == Offered(flow, site, found) IN
    /\ thread[t].at = "list"
    /\ found \subseteq IF flow = "ga4" THEN Scanned(listed) ELSE listed
    /\ flow = "gsc" => found = listed
    /\ heard' = [heard EXCEPT ![a] = listed]
    /\ \/ /\ flow = "ga4" /\ listed # {} /\ found = {}      \* every lookup failed
          /\ Raise(t, "upstream") /\ UNCHANGED offer
       \/ /\ Cardinality(sure) = 1
          /\ thread' = [thread EXCEPT ![t].at = "fetch", ![t].choice = CHOOSE p \in sure : TRUE]
          /\ UNCHANGED <<token, offer>>
       \/ /\ Cardinality(sure) # 1 /\ choices = {}
          /\ Returns(t) /\ GivesTokenBack(a) /\ UNCHANGED offer
       \/ /\ Cardinality(sure) # 1 /\ choices # {}          \* open_session
          /\ Returns(t) /\ offer' = [offer EXCEPT ![a] = choices] /\ UNCHANGED token
    /\ UNCHANGED <<tenant, asked, fresh, verifiers, lapsed, codes, data, searchLeft>>
ListFails(t, kind) == thread[t].at = "list" /\ Faults(t, kind)

-----------------------------------------------------------------------------
(* A property is chosen *)

SessionExpires(a) ==
    /\ offer[a] # {} /\ Spends("changes")
    /\ offer' = [offer EXCEPT ![a] = {}] /\ lapsed' = lapsed \cup {a}
    /\ UNCHANGED <<tenant, asked, fresh, verifiers, google, thread, data>>

\* read_session: a session is for one user, one project and one flow.
ReadSession(a, u, s, f) == offer[a] # {} /\ asked[a] = [user |-> u, site |-> s, flow |-> f]

\* gsc_select, ga4_select: the session is read here and closed at the end.
Select(t, a, u, s, f, choice) ==
    /\ thread[t] = Unused /\ Spends("selects")
    /\ MayEdit(u, s) /\ ReadSession(a, u, s, f) /\ choice \in offer[a]
    /\ thread' = [thread EXCEPT ![t] = [Unused EXCEPT !.at = "fetch", !.ask = a, !.user = u, !.site = s,
                                                    !.flow = f, !.choice = choice, !.selects = TRUE]]
    /\ UNCHANGED <<tenant, asked, redis, google, data>>

\* close_session: get and delete, then the token that was read goes back.
CloseSession(t) ==
    LET a == thread[t].ask IN
    /\ thread[t].at = "close"
    /\ IF offer[a] # {} THEN GivesTokenBack(a) ELSE UNCHANGED token
    /\ offer' = [offer EXCEPT ![a] = {}]
    /\ Returns(t)
    /\ UNCHANGED <<tenant, asked, fresh, verifiers, lapsed, codes, heard, data, searchLeft>>

-----------------------------------------------------------------------------
(* A snapshot is read and stored *)

\* select: neither brand nor too short, intent first, then what was shown most
Eligible(rows) == {q \in rows : ~q.branded /\ ~q.short}
Before(p, q) ==
    IF p.intent # q.intent THEN p.intent
    ELSE p.shown > q.shown \/ (p.shown = q.shown /\ p.name < q.name)
Candidates(rows) ==
    {q \in Eligible(rows) : Cardinality({p \in Eligible(rows) : Before(p, q)}) < CandidateKeep}
BuildSnapshot(a, flow, property) ==
    [ask |-> a, property |-> property, candidates |-> IF flow = "gsc" THEN Candidates(Queries) ELSE {}]

\* fetch_queries, fetch_ai_referrals with the two lookups that may fail alone
Fetch(t) ==
    /\ thread[t].at = "fetch" /\ MovesTo(t, "look")
    /\ UNCHANGED <<tenant, asked, redis, google, data, searchLeft>>
FetchFails(t, kind) == thread[t].at = "fetch" /\ Faults(t, kind)

\* snapshot_store.write: is there a file; it is moved aside; the new one is written.
Look(t) ==
    LET place == <<thread[t].flow, thread[t].site>> IN
    /\ thread[t].at = "look"
    /\ MovesTo(t, IF file[place] = NoSnapshot THEN "write" ELSE "move")
    /\ UNCHANGED <<tenant, asked, redis, google, data, searchLeft>>
\* history/ keeps its last HISTORY_KEEP files.
Latest(kept) == SubSeq(kept, IF Len(kept) > HistoryKeep THEN Len(kept) - HistoryKeep + 1 ELSE 1, Len(kept))
WithHistory(kept, snapshot) == Latest(Append(kept, snapshot))
MoveAside(t) ==
    LET place == <<thread[t].flow, thread[t].site>> IN
    /\ thread[t].at = "move"
    /\ IF file[place] = NoSnapshot       \* another request moved or deleted it
       THEN Raise(t, "other") /\ UNCHANGED <<file, history>>
       ELSE /\ file' = [file EXCEPT ![place] = NoSnapshot]
            /\ history' = [history EXCEPT ![place] = WithHistory(@, file[place])]
            /\ MovesTo(t, "write") /\ UNCHANGED token
    /\ UNCHANGED <<tenant, asked, redis, codes, heard, bank, searchLeft>>
WriteSnapshot(t) ==
    LET place == <<thread[t].flow, thread[t].site>> IN
    /\ thread[t].at = "write"
    /\ file' = [file EXCEPT ![place] = BuildSnapshot(thread[t].ask, thread[t].flow, thread[t].choice)]
    /\ IF thread[t].selects THEN MovesTo(t, "close") /\ UNCHANGED token
                            ELSE Returns(t) /\ GivesTokenBack(thread[t].ask)
    /\ UNCHANGED <<tenant, asked, redis, codes, heard, history, bank, searchLeft>>
WriteFails(t) == thread[t].at \in {"look", "write"} /\ Faults(t, "other")

-----------------------------------------------------------------------------
(* What is done with a snapshot *)

\* snapshot_store.delete: the file, then its history
DeleteSnapshot(t, u, s, f) ==
    /\ thread[t] = Unused /\ Spends("deletes") /\ MayEdit(u, s)
    /\ file' = [file EXCEPT ![<<f, s>>] = NoSnapshot]
    /\ thread' = [thread EXCEPT ![t] = [Unused EXCEPT !.at = "clear", !.user = u, !.site = s, !.flow = f]]
    /\ UNCHANGED <<tenant, asked, redis, google, history, bank>>
ClearHistory(t) ==
    /\ thread[t].at = "clear" /\ Returns(t)
    /\ history' = [history EXCEPT ![<<thread[t].flow, thread[t].site>>] = <<>>]
    /\ UNCHANGED <<tenant, asked, redis, google, file, bank, searchLeft>>

\* candidate_by_id, question_metadata: what a question says of its source is
\* the snapshot's, not the caller's.
QuestionMetadata(snapshot, q) == [query |-> q.name, ask |-> snapshot.ask, property |-> snapshot.property]
\* add_gsc_questions: a text the bank has is passed over.
AddQuestions(u, s, q) ==
    LET snapshot == file[<<"gsc", s>>] IN
    /\ MayEdit(u, s) /\ Spends("adds")
    /\ snapshot # NoSnapshot /\ q \in snapshot.candidates
    /\ bank' = IF \E b \in bank[s] : b.query = q.name THEN bank
               ELSE [bank EXCEPT ![s] = @ \cup {QuestionMetadata(snapshot, q)}]
    /\ UNCHANGED <<tenant, asked, redis, google, thread, file, history>>

\* A member becomes a viewer or leaves; a project is archived.
TenantChanges ==
    /\ Spends("changes")
    /\ \/ \E u \in editors : editors' = editors \ {u} /\ UNCHANGED archived
       \/ \E s \in Sites \ archived : archived' = archived \cup {s} /\ UNCHANGED editors
    /\ UNCHANGED <<asked, redis, google, thread, data>>

-----------------------------------------------------------------------------
SearchDataNext ==
    \/ \E ask \in searchLeft.asks : AuthorizationUrl(ask)
    \/ \E a \in DOMAIN asked : StateExpires(a) \/ SessionExpires(a)
    \/ TenantChanges
    \/ \E u \in Users, s \in Sites, q \in Queries : AddQuestions(u, s, q)
    \/ \E t \in Handlers :
         \/ \E a \in DOMAIN asked : Callback(t, a)
         \/ GetVerifier(t) \/ TakeVerifier(t)
         \/ \E granted \in BOOLEAN : ExchangeCode(t, granted)
         \/ \E listed \in Accounts : \E found \in SUBSET listed : ListProperties(t, listed, found)
         \/ \E kind \in {"upstream", "other"} : ListFails(t, kind) \/ FetchFails(t, kind)
         \/ \E a \in DOMAIN asked, u \in Users, s \in Sites, f \in Flows, p \in AllListed : Select(t, a, u, s, f, p)
         \/ CloseSession(t)
         \/ Fetch(t) \/ Look(t) \/ MoveAside(t) \/ WriteSnapshot(t) \/ WriteFails(t)
         \/ \E u \in Users, s \in Sites, f \in Flows : DeleteSnapshot(t, u, s, f)
         \/ ClearHistory(t)

SearchDataSpec == SearchDataInit /\ [][SearchDataNext]_searchVars

-----------------------------------------------------------------------------
(* Properties *)

\* What the variables hold.
SearchDataTypeOK ==
    /\ editors \subseteq Users /\ archived \subseteq Sites
    /\ asked \in Seq([user : Users, site : Sites, flow : Flows])
    /\ fresh \cup verifiers \cup codes \cup lapsed \subseteq DOMAIN asked /\ verifiers \subseteq fresh
    /\ token \in [DOMAIN asked -> {"none", "held", "returned"}]
    /\ offer \in [DOMAIN asked -> SUBSET AllListed] /\ heard \in [DOMAIN asked -> SUBSET AllListed]
    /\ \A t \in Handlers : thread[t].ask \in {0} \cup DOMAIN asked
    /\ \A p \in Places : file[p].ask \in {0} \cup DOMAIN asked /\ Len(history[p]) <= HistoryKeep

\* Some request still works with the token of an authorization.
InHand(a) == \E t \in Handlers : thread[t].ask = a /\ thread[t].at # "away"
\* A token is in a request's hands, waits in a session, or waited in one that expired.
Accounted(a) == token[a] = "held" => InHand(a) \/ offer[a] # {} \/ a \in lapsed

\* However a request for Analytics ends, the token it obtained goes back or waits
\* in a session for the editor's choice: _ga4_callback's finally.
AnalyticsTokensEnd == \A a \in DOMAIN asked : asked[a].flow = "ga4" => Accounted(a)

\* First-party figures stay with the project they were authorized for: every
\* snapshot, every one set aside and the source of every imported question came
\* from an authorization of that project and that flow, and of a property that
\* Google listed to it - whatever sessions, members and projects did meanwhile.
FiguresStayHome ==
    /\ \A f \in Flows, s \in Sites : \A x \in {file[<<f, s>>]} \cup ToSet(history[<<f, s>>]) :
         x # NoSnapshot => asked[x.ask].site = s /\ asked[x.ask].flow = f /\ x.property \in heard[x.ask]
    /\ \A s \in Sites : \A b \in bank[s] :
         asked[b.ask].site = s /\ asked[b.ask].flow = "gsc" /\ b.property \in heard[b.ask]

\* What an editor authorized is used for that, and given back.
AuthorizationsHold == FiguresStayHome /\ AnalyticsTokensEnd
=============================================================================
