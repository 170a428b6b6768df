----------------------------- MODULE Publishing -----------------------------
(***************************************************************************)
(* Publishing a project's content: posts to WordPress and to webhooks      *)
(* (api/adapters/publishing.py, engine/scripts/publish.py) and pull        *)
(* requests on GitHub (api/adapters/github_pr.py), behind the routes of    *)
(* api/publishing/router.py.                                               *)
(*                                                                         *)
(* The routes that talk to a destination inject the tenant's credentials,  *)
(* which makes them run one at a time in the process (engine.py, and the   *)
(* module Contexts); editing a file, saving a channel's configuration and  *)
(* the worker's jobs do not wait for them.  A destination may take a       *)
(* request and lose the answer, and the process may die between any two    *)
(* calls: what was done there stays done.                                  *)
(***************************************************************************)
EXTENDS Naturals, Sequences, FiniteSets, SequencesExt

CONSTANTS
    Clients,     \* requests in flight at a time
    Files,       \* files of the project
    Repos,       \* repositories a configuration may name
    PullsKept,   \* the rows .github-prs.json keeps; the code's are 100
    PostsKept,   \* the rows publish.json keeps; the code's are 200
    MaxEdits,    \* bound: changes of the files
    Upsets       \* bound: what else may happen, one record of counts per instance

ASSUME PublishingAssumption ==
    /\ PullsKept \in Nat \ {0} /\ PostsKept \in Nat \ {0} /\ MaxEdits \in Nat
    /\ {"", "bad"} \cap Repos = {} /\ Repos # {} /\ "free" \notin Clients
    /\ \A u \in Upsets : u \in [pulls : Nat, posts : Nat, lists : Nat, merges : Nat, saves : Nat, faults : Nat]

VARIABLES
    asset,     \* per file: its text's version and whether it is deployable
    channels,  \* geo.json's "publishing": the repository and the site
    secrets,   \* the ApiKey rows with a publisher's prefix
    client,    \* per request: where it is and what it read
    alone,     \* the request that holds the process lock
    remote,    \* per repository: its branches and its pull requests
    rows,      \* .github-prs.json
    posts,     \* publish.json
    opened,    \* history: the pulls that were opened and answered, in order
    answered,  \* history: the answered posts, in order
    pubLeft    \* what may still happen

publishingVars == <<asset, channels, secrets, client, alone, remote, rows, posts, opened, answered, pubLeft>>

\* PUBLISHERS without wechat_draft: INTERNATIONAL_PUBLISHERS
Channels == {"github", "wordpress", "webhook"}
Tickets == {"t 1", "t-1", "u"}
\* Characters that a branch may not have become a dash.
Branch(ticket) == IF ticket \in {"t 1", "t-1"} THEN "citeaura/t-1" ELSE "citeaura/u"
NoFiles == [f \in {} |-> 0]
Away == [at |-> "away", ticket |-> "", paths |-> <<>>, repo |-> "", number |-> 0, seen |-> <<>>, next |-> 1, changed |-> FALSE,
         platform |-> ""]

PublishingInit ==
    /\ asset = [f \in Files |-> [version |-> 1, deployable |-> TRUE]]
    /\ channels = [repo |-> CHOOSE r \in Repos : TRUE, site |-> "site"]
    /\ secrets = {"github", "wordpress"}
    /\ client = [c \in Clients |-> Away]
    /\ alone = "free"
    /\ remote = [r \in Repos |-> [branches |-> NoFiles, pulls |-> <<>>]]
    /\ rows = <<>> /\ posts = <<>> /\ opened = <<>> /\ answered = <<>>
    /\ pubLeft \in Upsets

Uses(what) == pubLeft[what] > 0 /\ pubLeft' = [pubLeft EXCEPT ![what] = @ - 1]
Faulty == Uses("faults")
LastOf(kept, s) == SubSeq(s, IF Len(s) > kept THEN Len(s) - kept + 1 ELSE 1, Len(s))
\* A plausible bug: the list is cut as it is read, and the entry comes on top.
KeptAndNoted(kept, list, entry) == Append(LastOf(kept, list), entry)
\* A list with one more entry is cut to its last ones.
Noted(kept, list, entry) == LastOf(kept, Append(list, entry))

-----------------------------------------------------------------------------
(* What a channel needs *)

\* _REQUIRED_CONFIG and missing credentials: overview
Ready(platform) ==
    /\ platform \in secrets
    /\ platform = "github" => channels.repo # ""
    /\ platform = "wordpress" => channels.site # ""

\* _clean_url: the form of the address is checked and its host is not resolved.
ValidSite(site) == site \in {"site", "private"}
\* validate_config: a value may be empty and may not be malformed.
ValidConfig(values) == values.repo \in Repos \cup {""} /\ (values.site = "" \/ ValidSite(values.site))

\* save_config: one channel's values in geo.json
Saved(platform, values) ==
    CASE platform = "github"    -> [channels EXCEPT !.repo = values.repo]
      [] platform = "wordpress" -> [channels EXCEPT !.site = values.site]
      [] OTHER                  -> channels

\* update_publisher: the file is written under the project lock, the rows after it.
SaveChannel(c, platform, values, secret) ==
    /\ client[c] = Away /\ Uses("saves") /\ ValidConfig(values)
    /\ channels' = Saved(platform, values)
    /\ client' = [client EXCEPT ![c] = [Away EXCEPT !.at = IF secret THEN "keep" ELSE "drop", !.platform = platform]]
    /\ UNCHANGED <<asset, secrets, alone, remote, rows, posts, opened, answered>>
CommitSecret(c) ==
    /\ client[c].at \in {"keep", "drop"}
    /\ secrets' = IF client[c].at = "keep" THEN secrets \cup {client[c].platform}
                                           ELSE secrets \ {client[c].platform}
    /\ client' = [client EXCEPT ![c] = Away]
    /\ UNCHANGED <<asset, channels, alone, remote, rows, posts, opened, answered, pubLeft>>

\* save_asset and the worker's jobs: neither waits for a request that publishes.
EditFile(f, deployable) ==
    /\ asset[f].version <= MaxEdits
    /\ asset' = [asset EXCEPT ![f] = [version |-> @.version + 1, deployable |-> deployable]]
    /\ UNCHANGED <<channels, secrets, client, alone, remote, rows, posts, opened, answered, pubLeft>>

-----------------------------------------------------------------------------
(* One request at a time: with_tenant_context with credentials *)

TakesProcess(c) == alone = "free" /\ alone' = c
GivesBack(c) == alone' = IF alone = c THEN "free" ELSE alone

Finish(c) == client' = [client EXCEPT ![c] = Away] /\ GivesBack(c)
Advance(c, at) == client' = [client EXCEPT ![c].at = at] /\ UNCHANGED alone

\* The process dies, or a job holds the project lock for longer than a request
\* waits for it: whatever the request did elsewhere is done.
ProcessDies(c) ==
    /\ client[c] # Away /\ Faulty
    /\ Finish(c)
    /\ UNCHANGED <<asset, channels, secrets, remote, rows, posts, opened, answered>>

-----------------------------------------------------------------------------
(* create_github_pr *)

\* _approved_assets: generated files that are deployable now, none of them twice
Approved(paths) == \A n \in DOMAIN paths : asset[paths[n]].deployable

CreatePull(c, ticket, paths) ==
    /\ client[c] = Away /\ Uses("pulls")
    /\ Ready("github") /\ Approved(paths)
    /\ TakesProcess(c)
    /\ client' = [client EXCEPT ![c] = [Away EXCEPT !.at = "branch", !.ticket = ticket, !.paths = paths,
                                                    !.repo = channels.repo]]
    /\ UNCHANGED <<asset, channels, secrets, remote, rows, posts, opened, answered>>

OnRemote(c) == remote[client[c].repo]
Named(c) == Branch(client[c].ticket)

\* A plausible bug: a branch that is there already is taken for the one asked for.
NewBranchOrOld(branches, b) == b \notin DOMAIN branches \/ b \in DOMAIN branches
\* The reference is created, or GitHub answers that it exists.
NewBranch(branches, b) == b \notin DOMAIN branches

\* The base is read and the branch made; a request that fails may have made it.
MakeBranch(c) ==
    /\ client[c].at = "branch"
    /\ LET made == [remote EXCEPT ![client[c].repo].branches =
                        [b \in DOMAIN @ \cup {Named(c)} |-> IF b \in DOMAIN @ THEN @[b] ELSE NoFiles]]
       IN  IF NewBranch(OnRemote(c).branches, Named(c))
           THEN \/ remote' = made /\ Advance(c, "upload") /\ UNCHANGED pubLeft
                \/ remote' \in {remote, made} /\ Finish(c) /\ Faulty
           ELSE Finish(c) /\ UNCHANGED <<remote, pubLeft>>
    /\ UNCHANGED <<asset, channels, secrets, rows, posts, opened, answered>>

\* The file is read when its turn comes; one that the base has already is put again
\* with its sha.
UploadFile(c) ==
    /\ client[c].at = "upload" /\ client[c].next <= Len(client[c].paths)
    /\ LET f == client[c].paths[client[c].next]
           put == [remote EXCEPT ![client[c].repo].branches[Named(c)] =
                       [x \in DOMAIN @ \cup {f} |-> IF x = f THEN asset[f] ELSE @[x]]]
       IN  \/ remote' = put /\ client' = [client EXCEPT ![c].next = @ + 1] /\ UNCHANGED <<alone, pubLeft>>
           \/ remote' \in {remote, put} /\ Finish(c) /\ Faulty
    /\ UNCHANGED <<asset, channels, secrets, rows, posts, opened, answered>>

\* The pull request is opened with what its branch holds.
OpenPull(c) ==
    /\ client[c].at = "upload" /\ client[c].next > Len(client[c].paths)
    /\ LET pull == [branch |-> Named(c), files |-> OnRemote(c).branches[Named(c)],
                    asked |-> ToSet(client[c].paths), state |-> "open"]
           made == [remote EXCEPT ![client[c].repo].pulls = Append(@, pull)]
       IN  \/ /\ remote' = made
              /\ client' = [client EXCEPT ![c].at = "record", ![c].number = Len(OnRemote(c).pulls) + 1]
              /\ UNCHANGED <<alone, pubLeft>>
           \/ remote' \in {remote, made} /\ Finish(c) /\ Faulty
    /\ UNCHANGED <<asset, channels, secrets, rows, posts, opened, answered>>

\* The record, read and written under the project lock
RecordPull(c) ==
    /\ client[c].at = "record"
    /\ LET row == [repo |-> client[c].repo, number |-> client[c].number, status |-> "open"]
       IN  rows' = Noted(PullsKept, rows, row) /\ opened' = Append(opened, row)
    /\ Finish(c)
    /\ UNCHANGED <<asset, channels, secrets, remote, posts, answered, pubLeft>>

\* Somebody merges a pull request or closes it.
ReviewPull(r, n, state) ==
    /\ remote[r].pulls[n].state = "open" /\ Uses("merges")
    /\ remote' = [remote EXCEPT ![r].pulls[n].state = state]
    /\ UNCHANGED <<asset, channels, secrets, client, alone, rows, posts, opened, answered>>

-----------------------------------------------------------------------------
(* list_github_prs with refresh: the rows are read first, asked about one by one, *)
(* and written back when one has changed; each is asked for in the repository     *)
(* that is configured now.                                                        *)

ListPulls(c) ==
    /\ client[c] = Away /\ Uses("lists")
    /\ "github" \in secrets /\ channels.repo # "" /\ rows # <<>>
    /\ TakesProcess(c)
    /\ client' = [client EXCEPT ![c] = [Away EXCEPT !.at = "ask", !.repo = channels.repo, !.seen = rows]]
    /\ UNCHANGED <<asset, channels, secrets, remote, rows, posts, opened, answered>>

\* A row whose pull cannot be read keeps its status.
AskPull(c) ==
    /\ client[c].at = "ask" /\ client[c].next <= Len(client[c].seen)
    /\ LET number == client[c].seen[client[c].next].number
           pulls == remote[client[c].repo].pulls
       IN  \/ /\ number \in DOMAIN pulls
              /\ \E touched \in BOOLEAN :   \* its updated_at may be new with the status it had
                     client' = [client EXCEPT ![c].seen[client[c].next].status = pulls[number].state, ![c].next = @ + 1,
                                    ![c].changed = @ \/ touched \/ pulls[number].state # client[c].seen[client[c].next].status]
              /\ UNCHANGED pubLeft
          \/ /\ number \notin DOMAIN pulls
              /\ client' = [client EXCEPT ![c].next = @ + 1] /\ UNCHANGED pubLeft
           \/ /\ client' = [client EXCEPT ![c].next = @ + 1] /\ Faulty
    /\ UNCHANGED <<asset, channels, secrets, alone, remote, rows, posts, opened, answered>>

WritePulls(c) ==
    /\ client[c].at = "ask" /\ client[c].next > Len(client[c].seen)
    /\ rows' = IF client[c].changed THEN LastOf(PullsKept, client[c].seen) ELSE rows
    /\ Finish(c)
    /\ UNCHANGED <<asset, channels, secrets, remote, posts, opened, answered, pubLeft>>

-----------------------------------------------------------------------------
(* publish_content: WordPress and webhooks; GitHub is refused here *)

\* publishing.publish: now the host must resolve to public addresses.
Reachable(platform) == platform = "wordpress" => channels.site = "site"

Post(c, platform, f) ==
    /\ client[c] = Away /\ platform # "github" /\ Uses("posts")
    /\ Ready(platform) /\ Reachable(platform)
    /\ TakesProcess(c)
    /\ client' = [client EXCEPT ![c] = [Away EXCEPT !.at = "post", !.platform = platform, !.paths = <<f>>]]
    /\ UNCHANGED <<asset, channels, secrets, remote, rows, posts, opened, answered>>

Codes == {200, 201, 404}
WordPressTook(code) == code = 201
WebhookTook(code) == code \in 200 .. 299
Took(platform, code) == IF platform = "wordpress" THEN WordPressTook(code) ELSE WebhookTook(code)

\* An answer of any kind is recorded; a request that has none is not, whether the
\* destination took it or not.
SendPost(c) ==
    /\ client[c].at = "post"
    /\ \/ \E code \in Codes :
              /\ client' = [client EXCEPT ![c].at = "note", ![c].changed = Took(client[c].platform, code), ![c].seen = posts]
              /\ UNCHANGED <<alone, pubLeft>>
       \/ Finish(c) /\ Faulty
    /\ UNCHANGED <<asset, channels, secrets, remote, rows, posts, opened, answered>>
NotePost(c) ==
    /\ client[c].at = "note"
    /\ LET entry == [platform |-> client[c].platform, path |-> client[c].paths[1], ok |-> client[c].changed]
       IN  posts' = Noted(PostsKept, client[c].seen, entry) /\ answered' = Append(answered, entry)
    /\ Finish(c)
    /\ UNCHANGED <<asset, channels, secrets, remote, rows, opened, pubLeft>>

Requests == {<<f>> : f \in Files} \cup {s \in [1 .. 2 -> Files] : s[1] # s[2]}

PublishingNext ==
    \/ \E c \in Clients, platform \in Channels, secret \in BOOLEAN :
           \E repo \in Repos \cup {"", "bad"}, site \in {"site", "private", "bad", ""} :
               SaveChannel(c, platform, [repo |-> repo, site |-> site], secret)
    \/ \E c \in Clients : \/ CommitSecret(c) \/ ProcessDies(c)
                          \/ MakeBranch(c) \/ UploadFile(c) \/ OpenPull(c) \/ RecordPull(c)
                          \/ ListPulls(c) \/ AskPull(c) \/ WritePulls(c)
                          \/ SendPost(c) \/ NotePost(c)
    \/ \E f \in Files, deployable \in BOOLEAN : EditFile(f, deployable)
    \/ \E c \in Clients, ticket \in Tickets, paths \in Requests : CreatePull(c, ticket, paths)
    \/ \E r \in Repos : \E n \in DOMAIN remote[r].pulls, state \in {"merged", "closed"} : ReviewPull(r, n, state)
    \/ \E c \in Clients, platform \in Channels, f \in Files : Post(c, platform, f)

PublishingSpec == PublishingInit /\ [][PublishingNext]_publishingVars

-----------------------------------------------------------------------------
PublishingTypeOK ==
    /\ \A f \in Files : asset[f].deployable \in BOOLEAN /\ asset[f].version \in 1 .. MaxEdits + 1
    /\ channels.repo \in Repos \cup {""} /\ secrets \subseteq Channels
    /\ alone \in Clients \cup {"free"}
    /\ \A c \in Clients : client[c].at \in {"away", "keep", "drop", "branch", "upload", "record", "ask", "post", "note"}
    /\ Len(rows) <= PullsKept /\ Len(posts) <= PostsKept

\* The files remember what was done: the pull requests that were opened and the posts
\* that were answered, each but the oldest, whatever runs at the same time
\* (github_pr.create and list_prs, publish.publish; the last 100 and 200 are kept).
NothingIsForgotten ==
    /\ [n \in DOMAIN rows |-> rows[n].number] =
           LET kept == LastOf(PullsKept, opened) IN [n \in DOMAIN kept |-> kept[n].number]
    /\ posts = LastOf(PostsKept, answered)

\* A pull request holds exactly the files it was asked to hold: what an earlier,
\* failed request left on a branch is in no pull request (github_pr.create).
PullsHoldTheRequest ==
    \A r \in Repos : \A n \in DOMAIN remote[r].pulls :
        LET pull == remote[r].pulls[n] IN DOMAIN pull.files = pull.asked

\* The project's records and the repository agree on what was asked and done.
RecordsMatch == NothingIsForgotten /\ PullsHoldTheRequest
=============================================================================
