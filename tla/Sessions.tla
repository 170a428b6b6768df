------------------------------- MODULE Sessions ------------------------------
(***************************************************************************)
(* The sessions of one account: access and refresh tokens, their rotation, *)
(* logout, password reset and suspension (api/auth/router.py, deps.py,     *)
(* security.py, api/admin/router.py).                                      *)
(*                                                                         *)
(* A token carries the session version of the account when it was signed;  *)
(* it is worth something while the two agree. Ending all sessions is       *)
(* "session_version += 1", a read and a later write that takes no lock on  *)
(* the account; a refresh token and a reset link are locked from the read  *)
(* to the commit, so what happens to them is one action. Signatures and    *)
(* hashes are external: nobody presents a token that was not issued.       *)
(***************************************************************************)
EXTENDS Naturals, Sequences, FiniteSets

CONSTANTS
    Process,   \* API processes, one request each
    MaxTokens, \* bound: sessions opened and tokens rotated
    MaxEnds,   \* bound: times all sessions are ended
    MaxLinks   \* bound: reset links mailed

ASSUME SessionsAssumption ==
    MaxTokens \in Nat /\ MaxEnds \in Nat /\ MaxLinks \in Nat

VARIABLES
    version, \* users.session_version
    account, \* users.status
    tokens,  \* refresh_tokens, each with the claims its token was signed with
    links,   \* password_reset_tokens
    request, \* what each process has read
    ends,    \* history: how often all sessions were ended
    lapsed   \* history: two endings overlapped, and the version rose once

sessionVars == <<version, account, tokens, links, request, ends, lapsed>>

Token == [family  : 1 .. MaxTokens,  \* named after its first token
          sv      : 0 .. MaxEnds,
          used    : BOOLEAN,
          revoked : BOOLEAN,
          expired : BOOLEAN,
          born    : 0 .. MaxEnds]    \* history: ends when the user signed in

Link == {"unused", "used", "expired"}

Idle == [step |-> "none"]

SessionsInit ==
    /\ version = 0
    /\ account = "active"
    /\ tokens = <<>>
    /\ links = <<>>
    /\ request = [p \in Process |-> Idle]
    /\ ends = 0
    /\ lapsed = FALSE

At(p, step) == request[p].step = step
Free(p) == At(p, "none")
Hold(p, r) == request' = [request EXCEPT ![p] = r]
Release(p) == Hold(p, Idle)

\* get_current_user: what a token is worth now, as an access token.
Accepted(t) == account = "active" /\ t.sv = version

-----------------------------------------------------------------------------
(* Ending sessions                                                         *)

\* A plausible bug: once for the access token and once for the refresh token.
BumpPerToken(p) ==
    /\ ends < MaxEnds
    /\ version' = request[p].sv + 2
    /\ ends' = ends + 1
    /\ lapsed' = (lapsed \/ version # request[p].sv)

\* session_version += 1, as the process read it. Bound: MaxEnds.
Bump(p) ==
    /\ ends < MaxEnds
    /\ version' = request[p].sv + 1
    /\ ends' = ends + 1
    /\ lapsed' = (lapsed \/ version # request[p].sv)

RevokeAll == [i \in DOMAIN tokens |-> [tokens[i] EXCEPT !.revoked = TRUE]]

BeginLogout(p, i) ==
    /\ Free(p)
    /\ tokens[i].sv = version
    /\ Hold(p, [step |-> "logout", sv |-> version])
    /\ UNCHANGED <<version, account, tokens, links, ends, lapsed>>

FinishLogout(p) ==
    /\ At(p, "logout")
    /\ Bump(p)
    /\ tokens' = RevokeAll
    /\ Release(p)
    /\ UNCHANGED <<account, links>>

ForgotPassword ==
    /\ Len(links) < MaxLinks
    /\ links' = Append(links, "unused")
    /\ UNCHANGED <<version, account, tokens, request, ends, lapsed>>

LinkExpires(l) ==
    /\ links[l] = "unused"
    /\ links' = [links EXCEPT ![l] = "expired"]
    /\ UNCHANGED <<version, account, tokens, request, ends, lapsed>>

Locked(l) == \E q \in Process : At(q, "reset") /\ request[q].link = l

\* The new password is hashed between the lock and the commit.
BeginReset(p, l) ==
    /\ Free(p)
    /\ links[l] = "unused" /\ ~Locked(l)
    /\ Hold(p, [step |-> "reset", sv |-> version, link |-> l])
    /\ UNCHANGED <<version, account, tokens, links, ends, lapsed>>

OtherReset(p) == \E q \in Process \ {p} : At(q, "reset")

\* The update of all links waits for those another reset has locked.
FinishReset(p) ==
    /\ At(p, "reset") /\ ~OtherReset(p)
    /\ Bump(p)
    /\ links' = [l \in DOMAIN links |->
                    IF links[l] = "unused" THEN "used" ELSE links[l]]
    /\ Release(p)
    /\ UNCHANGED <<account, tokens>>

\* Two resets wait for each other: the database aborts one.
ResetAborted(p) ==
    /\ At(p, "reset") /\ OtherReset(p)
    /\ Release(p)
    /\ UNCHANGED <<version, account, tokens, links, ends, lapsed>>

\* Bound: the status changes.
BeginStatus(p, to) ==
    /\ Free(p) /\ to # account
    /\ Hold(p, [step |-> "status", sv |-> version, to |-> to])
    /\ UNCHANGED <<version, account, tokens, links, ends, lapsed>>

FinishStatus(p) ==
    /\ At(p, "status")
    /\ Bump(p)
    /\ account' = request[p].to
    /\ Release(p)
    /\ UNCHANGED <<tokens, links>>

-----------------------------------------------------------------------------
(* Issuing tokens                                                          *)

\* The password is verified, then committing the login drops what was read.
CheckLogin(p) ==
    /\ Free(p) /\ account = "active"
    /\ Hold(p, [step |-> "login"])
    /\ UNCHANGED <<version, account, tokens, links, ends, lapsed>>

\* token_response reads the version ...
ReadVersion(p) ==
    /\ At(p, "login")
    /\ Hold(p, [step |-> "issue", sv |-> version, born |-> ends])
    /\ UNCHANGED <<version, account, tokens, links, ends, lapsed>>

\* ... unless the request has read the account before, with its token.
BeginSwitch(p, i) ==
    /\ Free(p)
    /\ Accepted(tokens[i])
    /\ Hold(p, [step |-> "issue", sv |-> version, born |-> tokens[i].born])
    /\ UNCHANGED <<version, account, tokens, links, ends, lapsed>>

NewToken(family, sv, born) ==
    [family |-> family, sv |-> sv, used |-> FALSE, revoked |-> FALSE,
     expired |-> FALSE, born |-> born]

Issue(p) ==
    /\ At(p, "issue")
    /\ Len(tokens) < MaxTokens
    /\ tokens' = Append(tokens, NewToken(Len(tokens) + 1, request[p].sv,
                                         request[p].born))
    /\ Release(p)
    /\ UNCHANGED <<version, account, links, ends, lapsed>>

BeginRefresh(p, i) ==
    /\ Free(p)
    /\ Accepted(tokens[i])
    /\ Hold(p, [step |-> "refresh", sv |-> version, token |-> i])
    /\ UNCHANGED <<version, account, tokens, links, ends, lapsed>>

Row(p) == tokens[request[p].token]

RefreshRefused(p) ==
    /\ At(p, "refresh") /\ Row(p).revoked
    /\ Release(p)
    /\ UNCHANGED <<version, account, tokens, links, ends, lapsed>>

\* A token that was rotated comes back: its family and all sessions end.
RefreshReused(p) ==
    /\ At(p, "refresh") /\ ~Row(p).revoked /\ Row(p).used
    /\ Bump(p)
    /\ tokens' = [i \in DOMAIN tokens |->
                    IF tokens[i].family = Row(p).family
                    THEN [tokens[i] EXCEPT !.revoked = TRUE] ELSE tokens[i]]
    /\ Release(p)
    /\ UNCHANGED <<account, links>>

RefreshExpired(p) ==
    /\ At(p, "refresh")
    /\ ~Row(p).revoked /\ ~Row(p).used /\ Row(p).expired
    /\ tokens' = [tokens EXCEPT ![request[p].token].revoked = TRUE]
    /\ Release(p)
    /\ UNCHANGED <<version, account, links, ends, lapsed>>

\* A plausible bug: a token in use is rotated again.
MayRotateUsed(t) == ~t.revoked /\ ~t.expired
MayRotate(t) == ~t.revoked /\ ~t.used /\ ~t.expired

Signed(p) == request[p].sv

Rotate(p) ==
    /\ At(p, "refresh") /\ MayRotate(Row(p))
    /\ Len(tokens) < MaxTokens
    /\ tokens' = Append([tokens EXCEPT ![request[p].token].used = TRUE],
                        NewToken(Row(p).family, Signed(p), Row(p).born))
    /\ Release(p)
    /\ UNCHANGED <<version, account, links, ends, lapsed>>

\* The term is looked at last, so that of other tokens does not matter.
TokenExpires(i) ==
    /\ ~tokens[i].expired /\ ~tokens[i].used /\ ~tokens[i].revoked
    /\ tokens' = [tokens EXCEPT ![i].expired = TRUE]
    /\ UNCHANGED <<version, account, links, request, ends, lapsed>>

-----------------------------------------------------------------------------
SessionsNext ==
    \/ ForgotPassword
    \/ \E l \in DOMAIN links : LinkExpires(l)
    \/ \E i \in DOMAIN tokens : TokenExpires(i)
    \/ \E p \in Process :
        \/ CheckLogin(p) \/ ReadVersion(p) \/ Issue(p)
        \/ RefreshRefused(p) \/ RefreshReused(p) \/ RefreshExpired(p) \/ Rotate(p)
        \/ FinishLogout(p) \/ FinishReset(p) \/ ResetAborted(p) \/ FinishStatus(p)
        \/ \E to \in {"active", "disabled"} : BeginStatus(p, to)
        \/ \E l \in DOMAIN links : BeginReset(p, l)
        \/ \E i \in DOMAIN tokens :
            BeginLogout(p, i) \/ BeginSwitch(p, i) \/ BeginRefresh(p, i)

SessionsSpec == SessionsInit /\ [][SessionsNext]_sessionVars

-----------------------------------------------------------------------------
(* Properties                                                              *)

\* Types; a version never runs ahead of the endings that raised it.
SessionsTypeOK ==
    /\ version \in 0 .. ends
    /\ account \in {"active", "disabled"}
    /\ tokens \in Seq(Token) /\ Len(tokens) <= MaxTokens
    /\ links \in Seq(Link) /\ Len(links) <= MaxLinks
    /\ \A p \in Process : request[p].step \in
        {"none", "logout", "reset", "status", "login", "issue", "refresh"}
    /\ ends \in 0 .. MaxEnds
    /\ lapsed \in BOOLEAN

\* After a logout, a reset, a reuse or a change of the account's status no
\* session of before is worth anything, through whatever rotations and
\* switches of the workspace it was kept alive; unless two endings overlapped
\* and raised the version once.
ResetEndsSessions ==
    lapsed \/ \A i \in DOMAIN tokens :
                Accepted(tokens[i]) => tokens[i].born = ends

\* A session has at most one refresh token that can still be rotated, so that
\* a copy is noticed when the second of the two is used.
RotationLinear ==
    \A i, j \in DOMAIN tokens :
        /\ tokens[i].family = tokens[j].family
        /\ ~tokens[i].used /\ ~tokens[j].used
        /\ ~tokens[i].revoked /\ ~tokens[j].revoked
        => i = j

\* An ended session stays ended, and a copied one is noticed.
SessionsHold == ResetEndsSessions /\ RotationLinear
=============================================================================
