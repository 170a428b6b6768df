--------------------------------- MODULE Team --------------------------------
(***************************************************************************)
(* Members, invitations and API tokens of one workspace, and what an       *)
(* operator does to it (api/team/router.py, invitations.py, the            *)
(* registration of api/auth/router.py, api/integrations/router.py,         *)
(* api/auth/api_tokens.py, api/admin/router.py).                           *)
(*                                                                         *)
(* A request is authorised first and takes its row locks later: what it    *)
(* does under the locks is one action, decided on the rows as they are     *)
(* then, or as its session has read them before. Where the code takes no   *)
(* lock, another request may come in between.                              *)
(***************************************************************************)
EXTENDS Naturals, Sequences, FiniteSets

CONSTANTS
    Person,     \* people, each with one e-mail address
    Founder,    \* who registered the workspace
    Desk,       \* processes that serve a request
    MaxInvites, \* bound: rows of team_invitations
    MaxKeys     \* bound: rows of api_access_tokens

ASSUME TeamAssumption ==
    /\ IsFiniteSet(Person) /\ Founder \in Person
    /\ MaxInvites \in Nat /\ MaxKeys \in Nat

VARIABLES
    role,      \* memberships: the role of each person, or "none"
    user,      \* users.status, or "none" before the registration
    workspace, \* tenants.status
    invites,   \* team_invitations
    keys,      \* api_access_tokens
    running,   \* what goes on by itself: subscriptions renew, schedules fire
    desk       \* what each process has read and has still to do

teamVars == <<role, user, workspace, invites, keys, running, desk>>

Role == {"owner", "editor", "viewer"}

\* The token itself is not kept: a rotated row answers to its new link only.
Invite == [to    : Person,
           role  : Role,
           state : {"pending", "expired", "accepted", "deleted"}]

\* late: its creator was no longer an active member when it was committed.
Key == [by : Person, live : BOOLEAN, late : BOOLEAN]

\* What change_tenant_status does to a disabled workspace, in this order.
Effects == <<"billing", "api_access_tokens", "schedules">>

Nothing == [step |-> "none"]

TeamInit ==
    /\ role = [x \in Person |-> IF x = Founder THEN "owner" ELSE "none"]
    /\ user = [x \in Person |-> IF x = Founder THEN "active" ELSE "none"]
    /\ workspace = "active"
    /\ invites = <<>>
    /\ keys = <<>>
    /\ running = {"billing", "schedules"}
    /\ desk = [d \in Desk |-> Nothing]

Owners == {x \in Person : role[x] = "owner"}

\* get_current_user, require_owner
SignedIn(x) == user[x] = "active" /\ workspace = "active" /\ role[x] # "none"
IsOwner(x) == SignedIn(x) /\ role[x] = "owner"

Serves(d, step) == desk[d].step = step
Take(d, r) == desk' = [desk EXCEPT ![d] = r]
Answer(d) == Take(d, Nothing)

-----------------------------------------------------------------------------
(* Invitations                                                             *)

Pending(x) == {i \in DOMAIN invites : invites[i].to = x
                                      /\ invites[i].state \in {"pending", "expired"}}

Latest(x) == CHOOSE i \in Pending(x) : \A j \in Pending(x) : j <= i

\* An owner invites somebody who is not a member ...
BeginInvite(d, owner, x, r) ==
    /\ Serves(d, "none")
    /\ IsOwner(owner) /\ role[x] = "none"
    /\ Take(d, [step |-> "invite", to |-> x, role |-> r])
    /\ UNCHANGED <<role, user, workspace, invites, keys, running>>

\* ... a row that was not accepted is locked and gets a new link, the role
\* and a new term ...
RotateInvite(d) ==
    /\ Serves(d, "invite")
    /\ Pending(desk[d].to) # {}
    /\ invites' = [invites EXCEPT ![Latest(desk[d].to)] =
                    [@ EXCEPT !.role = desk[d].role, !.state = "pending"]]
    /\ Answer(d)
    /\ UNCHANGED <<role, user, workspace, keys, running>>

\* ... and where there is none, nothing is locked and a row is inserted later.
MissInvite(d) ==
    /\ Serves(d, "invite")
    /\ Pending(desk[d].to) = {}
    /\ Take(d, [desk[d] EXCEPT !.step = "insert"])
    /\ UNCHANGED <<role, user, workspace, invites, keys, running>>

InsertInvite(d) ==
    /\ Serves(d, "insert")
    /\ Len(invites) < MaxInvites
    /\ invites' = Append(invites, [to |-> desk[d].to, role |-> desk[d].role,
                                   state |-> "pending"])
    /\ Answer(d)
    /\ UNCHANGED <<role, user, workspace, keys, running>>

InviteExpires(i) ==
    /\ invites[i].state = "pending"
    /\ invites' = [invites EXCEPT ![i].state = "expired"]
    /\ UNCHANGED <<role, user, workspace, keys, running, desk>>

BeginRevoke(d, owner, i) ==
    /\ Serves(d, "none")
    /\ IsOwner(owner)
    /\ invites[i].state \in {"pending", "expired"}
    /\ Take(d, [step |-> "revoke", invite |-> i])
    /\ UNCHANGED <<role, user, workspace, invites, keys, running>>

\* The row goes, even when it was accepted meanwhile.
FinishRevoke(d) ==
    /\ Serves(d, "revoke")
    /\ invites' = [invites EXCEPT ![desk[d].invite].state = "deleted"]
    /\ Answer(d)
    /\ UNCHANGED <<role, user, workspace, keys, running>>

\* A member who accepts keeps the role.
Admit(x, i) ==
    /\ invites[i].to = x /\ invites[i].state = "pending"
    /\ invites' = [invites EXCEPT ![i].state = "accepted"]
    /\ role' = [role EXCEPT ![x] = IF @ = "none" THEN invites[i].role ELSE @]

\* accept_invitation, signed in to any workspace
Accept(x, i) ==
    /\ user[x] = "active"
    /\ Admit(x, i)
    /\ UNCHANGED <<user, workspace, keys, running, desk>>

\* register with an invitation; of two at once the unique address admits one
Register(x, i) ==
    /\ user[x] = "none"
    /\ user' = [user EXCEPT ![x] = "active"]
    /\ Admit(x, i)
    /\ UNCHANGED <<workspace, keys, running, desk>>

\* register without one: the person gets a workspace of their own.
RegisterElsewhere(x) ==
    /\ user[x] = "none"
    /\ user' = [user EXCEPT ![x] = "active"]
    /\ UNCHANGED <<role, workspace, invites, keys, running, desk>>

-----------------------------------------------------------------------------
(* Members                                                                 *)

\* A change of a member, to another role or, for a removal, to none, is
\* authorised ...
BeginMember(d, owner, x, to) ==
    /\ Serves(d, "none")
    /\ IsOwner(owner)
    /\ Take(d, [step |-> "member", by |-> owner, member |-> x, to |-> to])
    /\ UNCHANGED <<role, user, workspace, invites, keys, running>>

\* ... the query that locks the owners starts: who becomes one while it waits
\* for the locks is not in its snapshot ...
ReadOwners(d) ==
    /\ Serves(d, "member")
    /\ Take(d, [step |-> "owners", by |-> desk[d].by, member |-> desk[d].member,
                to |-> desk[d].to, owners |-> Owners])
    /\ UNCHANGED <<role, user, workspace, invites, keys, running>>

\* ... the member is locked, too. The session keeps the caller's own row as the
\* authorisation read it: the caller takes himself for an owner still.
RoleRead(d) == IF desk[d].member = desk[d].by THEN "owner" ELSE role[desk[d].member]

LastOwner(d) ==
    /\ RoleRead(d) = "owner"
    /\ desk[d].to # "owner"
    /\ Cardinality(desk[d].owners \cap Owners) <= 1

\* A plausible bug: the keys of a removed member are kept.
RevokeOfNobody(x) == keys
RevokeOf(x) == [k \in DOMAIN keys |->
                    IF keys[k].by = x THEN [keys[k] EXCEPT !.live = FALSE]
                                      ELSE keys[k]]

\* A role that equals the one the session has read is not written.
ChangeMember(d) ==
    /\ Serves(d, "owners") /\ desk[d].to # "none"
    /\ role[desk[d].member] # "none" /\ ~LastOwner(d)
    /\ role' = IF desk[d].to = RoleRead(d) THEN role
               ELSE [role EXCEPT ![desk[d].member] = desk[d].to]
    /\ Answer(d)
    /\ UNCHANGED <<user, workspace, invites, keys, running>>

RemoveMember(d) ==
    /\ Serves(d, "owners") /\ desk[d].to = "none"
    /\ role[desk[d].member] # "none" /\ ~LastOwner(d)
    /\ role' = [role EXCEPT ![desk[d].member] = "none"]
    /\ keys' = RevokeOf(desk[d].member)
    /\ Answer(d)
    /\ UNCHANGED <<user, workspace, invites, running>>

\* 404 or 409
RefuseMember(d) ==
    /\ Serves(d, "owners")
    /\ role[desk[d].member] = "none" \/ LastOwner(d)
    /\ Answer(d)
    /\ UNCHANGED <<role, user, workspace, invites, keys, running>>

-----------------------------------------------------------------------------
(* API tokens                                                              *)

BeginKey(d, owner) ==
    /\ Serves(d, "none")
    /\ IsOwner(owner)
    /\ Take(d, [step |-> "key", by |-> owner])
    /\ UNCHANGED <<role, user, workspace, invites, keys, running>>

IssueKey(d) ==
    /\ Serves(d, "key")
    /\ Len(keys) < MaxKeys
    /\ keys' = Append(keys, [by |-> desk[d].by, live |-> TRUE,
                             late |-> ~SignedIn(desk[d].by)])
    /\ Answer(d)
    /\ UNCHANGED <<role, user, workspace, invites, running>>

\* revoke_api_token, or its term ends
RevokeKey(k) ==
    /\ keys' = [keys EXCEPT ![k].live = FALSE]
    /\ UNCHANGED <<role, user, workspace, invites, running, desk>>

-----------------------------------------------------------------------------
(* The operator                                                            *)

\* change_user_status; suspending revokes the person's keys.
ChangeUser(x, to) ==
    /\ user[x] # "none"
    /\ user' = [user EXCEPT ![x] = to]
    /\ keys' = IF to = "active" THEN keys ELSE RevokeOf(x)
    /\ UNCHANGED <<role, workspace, invites, running, desk>>

\* change_tenant_status commits the status first ...
ChangeWorkspace(d, to) ==
    /\ Serves(d, "none")
    /\ workspace' = to
    /\ desk' = IF to = "active" THEN desk
               ELSE [desk EXCEPT ![d] = [step |-> "effects", rest |-> Effects]]
    /\ UNCHANGED <<role, user, invites, keys, running>>

NextEffect(d) == Take(d, IF Len(desk[d].rest) = 1 THEN Nothing
                         ELSE [desk[d] EXCEPT !.rest = Tail(@)])

\* ... and then each consequence in a transaction of its own,
RunEffect(d) ==
    /\ Serves(d, "effects")
    /\ running' = running \ {Head(desk[d].rest)}
    /\ keys' = IF Head(desk[d].rest) = "api_access_tokens"
               THEN [k \in DOMAIN keys |-> [keys[k] EXCEPT !.live = FALSE]]
               ELSE keys
    /\ NextEffect(d)
    /\ UNCHANGED <<role, user, workspace, invites>>

\* of which any may fail and is noted in the audit row.
EffectFails(d) ==
    /\ Serves(d, "effects")
    /\ NextEffect(d)
    /\ UNCHANGED <<role, user, workspace, invites, keys, running>>

\* A request dies, and nothing of it is committed that was not.
RequestDies(d) ==
    /\ ~Serves(d, "none")
    /\ Answer(d)
    /\ UNCHANGED <<role, user, workspace, invites, keys, running>>

-----------------------------------------------------------------------------
TeamNext ==
    \/ \E i \in DOMAIN invites : InviteExpires(i)
    \/ \E x \in Person :
        \/ RegisterElsewhere(x)
        \/ \E i \in DOMAIN invites : Accept(x, i) \/ Register(x, i)
        \/ \E to \in {"active", "disabled"} : ChangeUser(x, to)
    \/ \E k \in DOMAIN keys : RevokeKey(k)
    \/ \E d \in Desk :
        \/ RotateInvite(d) \/ MissInvite(d) \/ InsertInvite(d) \/ FinishRevoke(d)
        \/ ReadOwners(d) \/ ChangeMember(d) \/ RemoveMember(d) \/ RefuseMember(d)
        \/ IssueKey(d)
        \/ \E to \in {"active", "disabled"} : ChangeWorkspace(d, to)
        \/ RunEffect(d) \/ EffectFails(d) \/ RequestDies(d)
        \/ \E owner \in Person :
            \/ BeginKey(d, owner)
            \/ \E i \in DOMAIN invites : BeginRevoke(d, owner, i)
            \/ \E x \in Person :
                \/ \E r \in Role : BeginInvite(d, owner, x, r)
                \/ \E r \in Role \cup {"none"} : BeginMember(d, owner, x, r)

TeamSpec == TeamInit /\ [][TeamNext]_teamVars

-----------------------------------------------------------------------------
(* Properties                                                              *)

\* What a process has read is what its step needs.
DeskOK ==
    \A d \in Desk :
        desk[d] \in {Nothing}
            \cup [step : {"invite", "insert"}, to : Person, role : Role]
            \cup [step : {"revoke"}, invite : DOMAIN invites]
            \cup [step : {"member"}, by : Person, member : Person,
                  to : Role \cup {"none"}]
            \cup [step : {"owners"}, by : Person, member : Person,
                  to : Role \cup {"none"}, owners : SUBSET Person]
            \cup [step : {"key"}, by : Person]
            \cup [step : {"effects"},
                  rest : {Effects, Tail(Effects), Tail(Tail(Effects))}]

\* The variables keep to their values.
TeamTypeOK ==
    /\ role \in [Person -> Role \cup {"none"}]
    /\ user \in [Person -> {"none", "active", "disabled"}]
    /\ workspace \in {"active", "disabled"}
    /\ invites \in Seq(Invite) /\ Len(invites) <= MaxInvites
    /\ keys \in Seq(Key) /\ Len(keys) <= MaxKeys
    /\ running \subseteq {"billing", "schedules"}
    /\ DOMAIN desk = Desk /\ DeskOK

\* A workspace never loses its last owner, however many changes of members
\* are under way at once, and never has a member without an account.
OwnersRemain ==
    /\ Owners # {}
    /\ \A x \in Person : role[x] # "none" => user[x] # "none"

\* A key that works belongs to a member whose account is active; except for
\* one whose request was authorised before its creator was removed or
\* suspended and committed after.
KeysFollowMembers ==
    \A k \in DOMAIN keys :
        keys[k].live => \/ role[keys[k].by] # "none" /\ user[keys[k].by] = "active"
                        \/ keys[k].late

\* Owners and keys follow the members of the workspace.
MembershipHolds == OwnersRemain /\ KeysFollowMembers
=============================================================================
