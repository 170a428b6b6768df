---------------------------- MODULE AccountsProofs ----------------------------
(***************************************************************************)
(* Proofs about the accounts: the members of a workspace (Team), the       *)
(* sessions of a person (Sessions), what a plan lets one create and sample *)
(* (Quotas), and subscriptions and their payments (StripeBilling).         *)
(*                                                                         *)
(* A workspace keeps an owner, and its keys follow its members, for any    *)
(* number of people, of processes, of invitations and of keys.             *)
(*                                                                         *)
(* An ended session stays ended and a copied one is noticed, for any       *)
(* number of processes, tokens, endings and links. Two facts carry that    *)
(* proof. As long as no two endings overlapped, the version of the account *)
(* is the number of endings (VersionCounts), and a token or a request that *)
(* is about to sign one has as many endings behind it as its version says  *)
(* (SignedWhenBorn): so what is accepted was born after the last ending.   *)
(* And a token of a family is no younger than the family (FamilyFirst): so *)
(* a new family has no token yet.                                          *)
(*                                                                         *)
(* An allowance is kept for any names, prices and limits: what a request   *)
(* found free is still free when it takes it, because it holds the row     *)
(* that the others would have to hold (QuotaInv).                          *)
(*                                                                         *)
(* A payment that was answered is recorded, for any number of              *)
(* subscriptions, owner's requests and webhooks at once. Every event tells *)
(* of one invoice and every subscription has one row (EventsAreOne,        *)
(* RowsAreOne); a row that has ended was ended by an event that was        *)
(* answered (RowsExplained); and what a webhook is about to commit is      *)
(* still right when it does, because the row is locked from the reading on *)
(* (LocksApart, CommitsExplained).                                         *)
(*                                                                         *)
(* Refunds add up as long as those of one charge are handled one after the *)
(* other: what one has read and is about to record, with what is recorded, *)
(* is no more than was refunded (RefundCommits).                           *)
(***************************************************************************)
EXTENDS MCAccounts, CollectionLemmas

(***************************************************************************)
(* Operators                                                               *)
(***************************************************************************)

\* A set of more than one element has one besides any given.
LEMMA AnotherOne ==
    ASSUME NEW S, IsFiniteSet(S), Cardinality(S) > 1, NEW x
    PROVE  \E y \in S : y # x
<1>1. SUFFICES ASSUME S \subseteq {x} PROVE FALSE
  OBVIOUS
<1>2. IsFiniteSet({x}) /\ Cardinality({x}) = 1
  BY FS_Singleton
<1>3. Cardinality(S) <= Cardinality({x})
  BY <1>1, <1>2, FS_Subset
<1>4. Cardinality(S) \in Nat
  BY FS_CardinalityType
<1>5. QED
  BY <1>2, <1>3, <1>4

\* The latest of a person's rows is one of them.
LEMMA LatestIsPending ==
    ASSUME NEW x, Pending(x) # {}, invites \in Seq(Invite)
    PROVE  Latest(x) \in Pending(x)
<1> DEFINE n == Len(invites)
           Back == {n - i : i \in Pending(x)}
<1>1. n \in Nat /\ DOMAIN invites = 1 .. n
  BY LenProperties
<1>2. Pending(x) \subseteq 1 .. n
  BY <1>1 DEF Pending
<1>3. Back \subseteq Nat /\ Back # {}
  BY <1>1, <1>2
<1>4. PICK b \in Back : \A m \in Back : b <= m
  <2> HIDE DEF Back
  <2> QED BY <1>3, LeastOfSet
<1>5. PICK i \in Pending(x) : b = n - i
  BY <1>4
<1>6. ASSUME NEW j \in Pending(x) PROVE j <= i
  <2>1. n - i <= n - j
    BY <1>4, <1>5
  <2>2. QED
    BY <2>1, <1>1, <1>2
<1>7. QED
  BY <1>5, <1>6 DEF Latest

\* The change of one row of a list is a list of as many rows.
LEMMA RowChanged ==
    ASSUME NEW R, NEW s \in Seq(R), NEW i \in DOMAIN s, NEW r \in R
    PROVE  /\ [s EXCEPT ![i] = r] \in Seq(R)
           /\ Len([s EXCEPT ![i] = r]) = Len(s)
           /\ DOMAIN [s EXCEPT ![i] = r] = DOMAIN s
  BY ExceptSeq, LenProperties

\* A list with a row put in the place of each is a list of as many rows.
LEMMA RowsChanged ==
    ASSUME NEW R, NEW s \in Seq(R), NEW t, DOMAIN t = DOMAIN s,
           t = [i \in DOMAIN s |-> t[i]],
           \A i \in DOMAIN s : t[i] \in R
    PROVE  t \in Seq(R) /\ Len(t) = Len(s)
<1>1. Len(s) \in Nat /\ DOMAIN s = 1 .. Len(s)
  BY LenProperties
<1>2. t \in [1 .. Len(s) -> R]
  BY <1>1
<1>3. t \in Seq(R)
  BY <1>1, <1>2, SeqDef
<1>4. Len(t) = Len(s)
  BY <1>1, <1>2, <1>3, LenProperties
<1>5. QED
  BY <1>3, <1>4

\* The revocation of keys leaves a list of keys of the same creators, and none
\* that works of the person.
LEMMA RevocationOfKeys ==
    ASSUME keys \in Seq(Key), NEW x
    PROVE  /\ RevokeOf(x) \in Seq(Key) /\ Len(RevokeOf(x)) = Len(keys)
           /\ DOMAIN RevokeOf(x) = DOMAIN keys
           /\ \A k \in DOMAIN keys :
                /\ RevokeOf(x)[k].by = keys[k].by
                /\ RevokeOf(x)[k].late = keys[k].late
                /\ RevokeOf(x)[k].live => keys[k].live /\ keys[k].by # x
<1>1. DOMAIN RevokeOf(x) = DOMAIN keys
  BY DEF RevokeOf
<1>2. ASSUME NEW k \in DOMAIN keys
      PROVE  /\ keys[k] \in Key /\ RevokeOf(x)[k] \in Key
             /\ RevokeOf(x)[k].by = keys[k].by
             /\ RevokeOf(x)[k].late = keys[k].late
             /\ RevokeOf(x)[k].live => keys[k].live /\ keys[k].by # x
  <2>1. keys[k] \in Key
    BY ElementOfSeq, LenProperties
  <2>2. CASE keys[k].by = x
    BY <2>1, <2>2 DEF RevokeOf, Key
  <2>3. CASE keys[k].by # x
    BY <2>1, <2>3 DEF RevokeOf, Key
  <2>4. QED
    BY <2>1, <2>2, <2>3
<1>3. RevokeOf(x) \in Seq(Key) /\ Len(RevokeOf(x)) = Len(keys)
  BY <1>1, <1>2, RowsChanged DEF RevokeOf
<1>4. QED
  BY <1>1, <1>2, <1>3

(***************************************************************************)
(* Type correctness                                                        *)
(***************************************************************************)

\* What a process keeps, by the step it is at.
LEMMA DeskFields ==
    ASSUME DeskOK, NEW d \in Desk
    PROVE  /\ Serves(d, "invite") \/ Serves(d, "insert") =>
                /\ desk[d].to \in Person /\ desk[d].role \in Role
                /\ [desk[d] EXCEPT !.step = "insert"] =
                        [step |-> "insert", to |-> desk[d].to, role |-> desk[d].role]
           /\ Serves(d, "revoke") => desk[d].invite \in DOMAIN invites
           /\ Serves(d, "member") \/ Serves(d, "owners") =>
                /\ desk[d].by \in Person /\ desk[d].member \in Person
                /\ desk[d].to \in Role \cup {"none"}
           /\ Serves(d, "owners") => desk[d].owners \subseteq Person
           /\ Serves(d, "key") => desk[d].by \in Person
           /\ Serves(d, "effects") =>
                /\ desk[d].rest \in {Effects, Tail(Effects), Tail(Tail(Effects))}
                /\ \A r : [desk[d] EXCEPT !.rest = r] = [step |-> "effects", rest |-> r]
  BY DEF DeskOK, Serves, Nothing

\* A process that takes up what a step needs leaves the others what they have.
LEMMA DeskTaken ==
    ASSUME DeskOK, DOMAIN desk = Desk, NEW d \in Desk, NEW r, Take(d, r),
           DOMAIN invites \subseteq DOMAIN invites',
           \/ r = Nothing
           \/ r \in [step : {"invite", "insert"}, to : Person, role : Role]
           \/ r \in [step : {"revoke"}, invite : DOMAIN invites]
           \/ r \in [step : {"member"}, by : Person, member : Person,
                     to : Role \cup {"none"}]
           \/ r \in [step : {"owners"}, by : Person, member : Person,
                     to : Role \cup {"none"}, owners : SUBSET Person]
           \/ r \in [step : {"key"}, by : Person]
           \/ r \in [step : {"effects"},
                     rest : {Effects, Tail(Effects), Tail(Tail(Effects))}]
    PROVE  DOMAIN desk' = Desk /\ DeskOK'
  BY DEF DeskOK, Take

\* Rows of invitations only grow in number, and desks keep.
LEMMA DeskKept ==
    ASSUME DeskOK, DOMAIN desk = Desk, desk' = desk,
           DOMAIN invites \subseteq DOMAIN invites'
    PROVE  DOMAIN desk' = Desk /\ DeskOK'
  BY DEF DeskOK

LEMMA TypesInit == TeamInit => TeamTypeOK
<1> SUFFICES ASSUME TeamInit PROVE TeamTypeOK
  OBVIOUS
<1>1. /\ <<>> \in Seq(Invite) /\ Len(<<>>) = 0
      /\ <<>> \in Seq(Key)
  BY EmptySeq
<1>2. DeskOK
  BY DEF TeamInit, DeskOK
<1>3. QED
  BY <1>1, <1>2, TeamAssumption DEF TeamInit, TeamTypeOK, Role

\* The rows of invitations that an action changes.
LEMMA InvitesTyped ==
    ASSUME TeamTypeOK, NEW i \in DOMAIN invites, NEW r \in Invite,
           invites' = [invites EXCEPT ![i] = r]
    PROVE  /\ invites' \in Seq(Invite) /\ Len(invites') <= MaxInvites
           /\ DOMAIN invites' = DOMAIN invites
  BY RowChanged DEF TeamTypeOK

LEMMA InviteTyped ==
    ASSUME TeamTypeOK, NEW i \in DOMAIN invites
    PROVE  /\ invites[i] \in Invite
           /\ \A st \in {"pending", "expired", "accepted", "deleted"} :
                [invites[i] EXCEPT !.state = st] \in Invite
<1>1. invites[i] \in Invite
  BY LenProperties, ElementOfSeq DEF TeamTypeOK
<1>2. QED
  BY <1>1 DEF Invite

LEMMA TypesNext == TeamTypeOK /\ [TeamNext]_teamVars => TeamTypeOK'
<1> SUFFICES ASSUME TeamTypeOK, [TeamNext]_teamVars
             PROVE  TeamTypeOK'
  OBVIOUS
<1>0. DeskOK /\ DOMAIN desk = Desk
  BY DEF TeamTypeOK
<1>a. ASSUME NEW i \in DOMAIN invites, InviteExpires(i) PROVE TeamTypeOK'
  <2>1. invites' = [invites EXCEPT ![i] = [invites[i] EXCEPT !.state = "expired"]]
    BY <1>a DEF InviteExpires
  <2>2. /\ invites' \in Seq(Invite) /\ Len(invites') <= MaxInvites
        /\ DOMAIN invites' = DOMAIN invites
    BY <2>1, InviteTyped, InvitesTyped
  <2>3. QED
    BY <1>a, <1>0, <2>2, DeskKept DEF InviteExpires, TeamTypeOK
<1>b. ASSUME NEW x \in Person, RegisterElsewhere(x) PROVE TeamTypeOK'
  BY <1>b, <1>0, DeskKept DEF RegisterElsewhere, TeamTypeOK
<1>c. ASSUME NEW x \in Person, NEW i \in DOMAIN invites, Accept(x, i) \/ Register(x, i)
      PROVE  TeamTypeOK'
  <2>1. /\ invites' = [invites EXCEPT ![i] = [invites[i] EXCEPT !.state = "accepted"]]
        /\ role' = [role EXCEPT ![x] = IF @ = "none" THEN invites[i].role ELSE @]
        /\ UNCHANGED <<workspace, keys, running, desk>>
    BY <1>c DEF Accept, Register, Admit
  <2>2. /\ invites' \in Seq(Invite) /\ Len(invites') <= MaxInvites
        /\ DOMAIN invites' = DOMAIN invites
    BY <2>1, InviteTyped, InvitesTyped
  <2>3. role' \in [Person -> Role \cup {"none"}]
    BY <2>1, InviteTyped DEF TeamTypeOK, Invite
  <2>4. user' \in [Person -> {"none", "active", "disabled"}]
    BY <1>c DEF Accept, Register, TeamTypeOK
  <2>5. QED
    BY <1>0, <2>1, <2>2, <2>3, <2>4, DeskKept DEF TeamTypeOK
<1>d. ASSUME NEW x \in Person, NEW to \in {"active", "disabled"}, ChangeUser(x, to)
      PROVE  TeamTypeOK'
  <2>1. keys' \in Seq(Key) /\ Len(keys') <= MaxKeys
    BY <1>d, RevocationOfKeys DEF ChangeUser, TeamTypeOK
  <2>2. user' \in [Person -> {"none", "active", "disabled"}]
    BY <1>d DEF ChangeUser, TeamTypeOK
  <2>3. QED
    BY <1>d, <1>0, <2>1, <2>2, DeskKept DEF ChangeUser, TeamTypeOK
<1>e. ASSUME NEW k \in DOMAIN keys, RevokeKey(k) PROVE TeamTypeOK'
  <2>1. keys[k] \in Key
    BY LenProperties, ElementOfSeq DEF TeamTypeOK
  <2>2. /\ keys' = [keys EXCEPT ![k] = [keys[k] EXCEPT !.live = FALSE]]
        /\ [keys[k] EXCEPT !.live = FALSE] \in Key
    BY <1>e, <2>1 DEF RevokeKey, Key
  <2>3. keys' \in Seq(Key) /\ Len(keys') <= MaxKeys
    BY <2>2, RowChanged DEF TeamTypeOK
  <2>4. QED
    BY <1>e, <1>0, <2>3, DeskKept DEF RevokeKey, TeamTypeOK
<1>f. ASSUME NEW d \in Desk, RotateInvite(d) PROVE TeamTypeOK'
  <2> DEFINE i == Latest(desk[d].to)
  <2>1. i \in DOMAIN invites
    BY <1>f, LatestIsPending DEF RotateInvite, Pending, TeamTypeOK
  <2>2. [[invites[i] EXCEPT !.role = desk[d].role] EXCEPT !.state = "pending"] \in Invite
    BY <1>f, <1>0, <2>1, InviteTyped, DeskFields DEF RotateInvite, Invite
  <2>3. invites' = [invites EXCEPT ![i] =
                [[invites[i] EXCEPT !.role = desk[d].role] EXCEPT !.state = "pending"]]
    BY <1>f DEF RotateInvite
  <2>4. /\ invites' \in Seq(Invite) /\ Len(invites') <= MaxInvites
        /\ DOMAIN invites' = DOMAIN invites
    <3> HIDE DEF i
    <3> QED BY <2>1, <2>2, <2>3, InvitesTyped
  <2>5. DOMAIN desk' = Desk /\ DeskOK'
    BY <1>f, <1>0, <2>4, DeskTaken DEF RotateInvite, Answer
  <2>6. QED
    BY <1>f, <2>4, <2>5 DEF RotateInvite, TeamTypeOK
<1>g. ASSUME NEW d \in Desk, MissInvite(d) PROVE TeamTypeOK'
  <2>0. Take(d, [step |-> "insert", to |-> desk[d].to, role |-> desk[d].role])
    BY <1>g, <1>0, DeskFields DEF MissInvite
  <2>1. DOMAIN desk' = Desk /\ DeskOK'
    BY <1>g, <1>0, <2>0, DeskFields, DeskTaken DEF MissInvite
  <2>2. QED
    BY <1>g, <2>1 DEF MissInvite, TeamTypeOK
<1>h. ASSUME NEW d \in Desk, InsertInvite(d) PROVE TeamTypeOK'
  <2>1. [to |-> desk[d].to, role |-> desk[d].role, state |-> "pending"] \in Invite
    BY <1>h, <1>0, DeskFields DEF InsertInvite, Invite
  <2>2. /\ invites' \in Seq(Invite) /\ Len(invites') = Len(invites) + 1
        /\ Len(invites) \in Nat
        /\ DOMAIN invites \subseteq DOMAIN invites'
    BY <1>h, <2>1, AppendProperties, LenProperties DEF InsertInvite, TeamTypeOK
  <2>3. Len(invites') <= MaxInvites
    BY <1>h, <2>2, TeamAssumption DEF InsertInvite
  <2>4. DOMAIN desk' = Desk /\ DeskOK'
    BY <1>h, <1>0, <2>2, DeskTaken DEF InsertInvite, Answer
  <2>5. QED
    BY <1>h, <2>2, <2>3, <2>4 DEF InsertInvite, TeamTypeOK
<1>i. ASSUME NEW d \in Desk, FinishRevoke(d) PROVE TeamTypeOK'
  <2> DEFINE i == desk[d].invite
  <2>1. i \in DOMAIN invites
    BY <1>i, <1>0, DeskFields DEF FinishRevoke
  <2>2. invites' = [invites EXCEPT ![i] = [invites[i] EXCEPT !.state = "deleted"]]
    BY <1>i DEF FinishRevoke
  <2>3. /\ invites' \in Seq(Invite) /\ Len(invites') <= MaxInvites
        /\ DOMAIN invites' = DOMAIN invites
    BY <2>1, <2>2, InviteTyped, InvitesTyped
  <2>4. DOMAIN desk' = Desk /\ DeskOK'
    BY <1>i, <1>0, <2>3, DeskTaken DEF FinishRevoke, Answer
  <2>5. QED
    BY <1>i, <2>3, <2>4 DEF FinishRevoke, TeamTypeOK
<1>j. ASSUME NEW d \in Desk, ReadOwners(d) PROVE TeamTypeOK'
  <2>1. DOMAIN desk' = Desk /\ DeskOK'
    BY <1>j, <1>0, DeskFields, DeskTaken DEF ReadOwners, Owners
  <2>2. QED
    BY <1>j, <2>1 DEF ReadOwners, TeamTypeOK
<1>k. ASSUME NEW d \in Desk, ChangeMember(d) PROVE TeamTypeOK'
  <2>1. DOMAIN desk' = Desk /\ DeskOK'
    BY <1>k, <1>0, DeskTaken DEF ChangeMember, Answer
  <2>2. role' \in [Person -> Role \cup {"none"}]
    BY <1>k, <1>0, DeskFields DEF ChangeMember, TeamTypeOK
  <2>3. QED
    BY <1>k, <2>1, <2>2 DEF ChangeMember, TeamTypeOK
<1>l. ASSUME NEW d \in Desk, RemoveMember(d) PROVE TeamTypeOK'
  <2>1. DOMAIN desk' = Desk /\ DeskOK'
    BY <1>l, <1>0, DeskTaken DEF RemoveMember, Answer
  <2>2. role' \in [Person -> Role \cup {"none"}]
    BY <1>l, <1>0, DeskFields DEF RemoveMember, TeamTypeOK
  <2>3. keys' \in Seq(Key) /\ Len(keys') <= MaxKeys
    BY <1>l, RevocationOfKeys DEF RemoveMember, TeamTypeOK
  <2>4. QED
    BY <1>l, <2>1, <2>2, <2>3 DEF RemoveMember, TeamTypeOK
<1>m. ASSUME NEW d \in Desk, RefuseMember(d) \/ RequestDies(d) PROVE TeamTypeOK'
  <2>1. DOMAIN desk' = Desk /\ DeskOK'
    BY <1>m, <1>0, DeskTaken DEF RefuseMember, RequestDies, Answer
  <2>2. QED
    BY <1>m, <2>1 DEF RefuseMember, RequestDies, TeamTypeOK
<1>n. ASSUME NEW d \in Desk, IssueKey(d) PROVE TeamTypeOK'
  <2> DEFINE key == [by |-> desk[d].by, live |-> TRUE, late |-> ~SignedIn(desk[d].by)]
  <2>1. key \in Key
    BY <1>n, <1>0, DeskFields DEF IssueKey, Key
  <2>2. keys' \in Seq(Key) /\ Len(keys') = Len(keys) + 1 /\ Len(keys) \in Nat
    <3> HIDE DEF key
    <3>1. keys' = Append(keys, key)
      BY <1>n DEF IssueKey, key
    <3>2. QED
      BY <2>1, <3>1, AppendProperties, LenProperties DEF TeamTypeOK
  <2>3. Len(keys') <= MaxKeys
    BY <1>n, <2>2, TeamAssumption DEF IssueKey
  <2>4. DOMAIN desk' = Desk /\ DeskOK'
    BY <1>n, <1>0, DeskTaken DEF IssueKey, Answer
  <2>5. QED
    BY <1>n, <2>2, <2>3, <2>4 DEF IssueKey, TeamTypeOK
<1>o. ASSUME NEW d \in Desk, NEW to \in {"active", "disabled"}, ChangeWorkspace(d, to)
      PROVE  TeamTypeOK'
  <2>1. CASE to = "active"
    BY <1>o, <1>0, <2>1, DeskKept DEF ChangeWorkspace, TeamTypeOK
  <2>2. CASE to # "active"
    <3>1. Take(d, [step |-> "effects", rest |-> Effects]) /\ invites' = invites
      BY <1>o, <2>2 DEF ChangeWorkspace, Take
    <3>2. DOMAIN desk' = Desk /\ DeskOK'
      BY <1>0, <3>1, DeskTaken
    <3>3. QED
      BY <1>o, <3>2 DEF ChangeWorkspace, TeamTypeOK
  <2>3. QED
    BY <2>1, <2>2
<1>p. ASSUME NEW d \in Desk, RunEffect(d) \/ EffectFails(d) PROVE TeamTypeOK'
  <2>1. DOMAIN desk' = Desk /\ DeskOK'
    <3>1. NextEffect(d) /\ invites' = invites /\ Serves(d, "effects")
      BY <1>p DEF RunEffect, EffectFails
    <3>2. \/ Take(d, Nothing)
          \/ /\ desk[d].rest \in {Effects, Tail(Effects)}
             /\ Take(d, [desk[d] EXCEPT !.rest = Tail(desk[d].rest)])
      <4>1. desk[d].rest = Tail(Tail(Effects)) => Len(desk[d].rest) = 1
        BY DEF Effects
      <4>2. QED
        BY <1>0, <3>1, <4>1, DeskFields DEF NextEffect
    <3>3. CASE Take(d, Nothing)
      BY <1>0, <3>1, <3>3, DeskTaken
    <3>4. CASE /\ desk[d].rest \in {Effects, Tail(Effects)}
               /\ Take(d, [desk[d] EXCEPT !.rest = Tail(desk[d].rest)])
      <4>1. Take(d, [step |-> "effects", rest |-> Tail(desk[d].rest)])
        BY <1>0, <3>1, <3>4, DeskFields
      <4>2. [step |-> "effects", rest |-> Tail(desk[d].rest)] \in
                [step : {"effects"}, rest : {Effects, Tail(Effects), Tail(Tail(Effects))}]
        BY <3>4
      <4>3. QED
        BY <1>0, <3>1, <4>1, <4>2, DeskTaken
    <3>5. QED
      BY <3>2, <3>3, <3>4
  <2>2. keys' \in Seq(Key) /\ Len(keys') <= MaxKeys
    <3>1. CASE keys' = keys
      BY <3>1 DEF TeamTypeOK
    <3>2. CASE keys' = [k \in DOMAIN keys |-> [keys[k] EXCEPT !.live = FALSE]]
      <4>1. ASSUME NEW k \in DOMAIN keys PROVE keys'[k] \in Key
        <5>1. keys[k] \in Key
          BY LenProperties, ElementOfSeq DEF TeamTypeOK
        <5>2. QED
          BY <3>2, <5>1 DEF Key
      <4>2. keys' \in Seq(Key) /\ Len(keys') = Len(keys)
        BY <3>2, <4>1, RowsChanged DEF TeamTypeOK
      <4>3. QED
        BY <4>2 DEF TeamTypeOK
    <3>3. QED
      BY <1>p, <3>1, <3>2 DEF RunEffect, EffectFails
  <2>3. running' \subseteq {"billing", "schedules"}
    BY <1>p DEF RunEffect, EffectFails, TeamTypeOK
  <2>4. QED
    BY <1>p, <2>1, <2>2, <2>3 DEF RunEffect, EffectFails, TeamTypeOK
<1>q. ASSUME NEW d \in Desk, NEW owner \in Person,
             \/ BeginKey(d, owner)
             \/ \E i \in DOMAIN invites : BeginRevoke(d, owner, i)
             \/ \E x \in Person : \E r \in Role : BeginInvite(d, owner, x, r)
             \/ \E x \in Person : \E r \in Role \cup {"none"} : BeginMember(d, owner, x, r)
      PROVE  TeamTypeOK'
  <2>1. UNCHANGED <<role, user, workspace, invites, keys, running>>
    BY <1>q DEF BeginKey, BeginRevoke, BeginInvite, BeginMember
  <2>2. DOMAIN desk' = Desk /\ DeskOK'
    BY <1>q, <1>0, <2>1, DeskTaken DEF BeginKey, BeginRevoke, BeginInvite, BeginMember
  <2>3. QED
    BY <2>1, <2>2 DEF TeamTypeOK
<1>r. CASE UNCHANGED teamVars
  BY <1>r, <1>0, DeskKept DEF teamVars, TeamTypeOK
<1>z. QED
  BY <1>a, <1>b, <1>c, <1>d, <1>e, <1>f, <1>g, <1>h, <1>i, <1>j, <1>k, <1>l, <1>m,
     <1>n, <1>o, <1>p, <1>q, <1>r DEF TeamNext

\* The variables keep to their values, and no process works on what it has not
\* read.
THEOREM TypesHold == TeamSpec => []TeamTypeOK
  BY TypesInit, TypesNext, PTL DEF TeamSpec

(***************************************************************************)
(* Owners                                                                  *)
(***************************************************************************)

\* Who is an owner now.
LEMMA OwnersAreFinite ==
    ASSUME NEW S
    PROVE  IsFiniteSet(S \cap Owners)
<1>1. S \cap Owners \subseteq Person
  BY DEF Owners
<1>2. QED
  BY <1>1, TeamAssumption, FS_Subset

\* While two owners at least are locked, one remains besides the member who
\* changes; and a caller who is no owner any more changes nobody to an owner.
LEMMA AnOwnerRemains ==
    ASSUME TeamTypeOK, Owners # {}, NEW d \in Desk, Serves(d, "owners"), ~LastOwner(d),
           \/ role' = role
           \/ role' = [role EXCEPT ![desk[d].member] = desk[d].to]
    PROVE  Owners' # {}
<1> DEFINE x == desk[d].member
<1>0. /\ x \in Person /\ desk[d].to \in Role \cup {"none"}
      /\ role \in [Person -> Role \cup {"none"}]
  BY DeskFields DEF TeamTypeOK
<1>1. CASE role' = role
  BY <1>1 DEF Owners
<1>2. CASE role' = [role EXCEPT ![x] = desk[d].to] /\ desk[d].to = "owner"
  BY <1>0, <1>2 DEF Owners
<1>3. CASE /\ role' = [role EXCEPT ![x] = desk[d].to]
           /\ desk[d].to # "owner" /\ RoleRead(d) # "owner"
  <2>1. role[x] # "owner"
    BY <1>3 DEF RoleRead
  <2>2. PICK y \in Person : role[y] = "owner"
    BY DEF Owners
  <2>3. role'[y] = "owner"
    BY <1>0, <1>3, <2>1, <2>2
  <2>4. QED
    BY <2>3 DEF Owners
<1>4. CASE /\ role' = [role EXCEPT ![x] = desk[d].to]
           /\ desk[d].to # "owner" /\ RoleRead(d) = "owner"
  <2> DEFINE S == desk[d].owners \cap Owners
  <2>1. IsFiniteSet(S) /\ Cardinality(S) \in Nat
    BY OwnersAreFinite, FS_CardinalityType
  <2>2. Cardinality(S) > 1
    BY <1>4, <2>1 DEF LastOwner
  <2>3. PICK y \in S : y # x
    <3> HIDE DEF S, x
    <3> QED BY <2>1, <2>2, AnotherOne
  <2>4. y \in Person /\ role[y] = "owner"
    BY DEF Owners
  <2>5. role'[y] = "owner"
    BY <1>0, <1>4, <2>3, <2>4
  <2>6. QED
    BY <2>4, <2>5 DEF Owners
<1>5. QED
  BY <1>1, <1>2, <1>3, <1>4

LEMMA OwnersNext ==
    TeamTypeOK /\ OwnersRemain /\ [TeamNext]_teamVars => OwnersRemain'
<1> SUFFICES ASSUME TeamTypeOK, OwnersRemain, [TeamNext]_teamVars
             PROVE  OwnersRemain'
  OBVIOUS
<1> DEFINE Members == \A x \in Person : role[x] # "none" => user[x] # "none"
<1>0. /\ role \in [Person -> Role \cup {"none"}]
      /\ user \in [Person -> {"none", "active", "disabled"}]
      /\ Owners # {} /\ Members
  BY DEF TeamTypeOK, OwnersRemain
<1>1. ASSUME UNCHANGED <<role, user>> PROVE OwnersRemain'
  BY <1>1 DEF OwnersRemain, Owners
<1>2. ASSUME NEW x \in Person, NEW to \in {"active", "disabled"},
             user' = [user EXCEPT ![x] = to], role' = role
      PROVE  OwnersRemain'
  BY <1>0, <1>2 DEF OwnersRemain, Owners
<1>3. ASSUME NEW x \in Person, NEW i \in DOMAIN invites, Accept(x, i) \/ Register(x, i)
      PROVE  OwnersRemain'
  <2>1. role' = [role EXCEPT ![x] = IF @ = "none" THEN invites[i].role ELSE @]
    BY <1>3 DEF Accept, Register, Admit
  <2>2. user' \in [Person -> {"none", "active", "disabled"}] /\ user'[x] = "active"
        /\ \A y \in Person : y # x => user'[y] = user[y]
    BY <1>0, <1>3 DEF Accept, Register
  <2>3. Owners' # {}
    <3>1. PICK y \in Person : role[y] = "owner"
      BY <1>0 DEF Owners
    <3>2. role'[y] = "owner"
      BY <1>0, <2>1, <3>1
    <3>3. QED
      BY <3>2 DEF Owners
  <2>4. Members'
    BY <1>0, <2>1, <2>2
  <2>5. QED
    BY <2>3, <2>4 DEF OwnersRemain
<1>4. ASSUME NEW d \in Desk, ChangeMember(d) \/ RemoveMember(d)
      PROVE  OwnersRemain'
  <2>1. /\ Serves(d, "owners") /\ ~LastOwner(d) /\ user' = user
        /\ role[desk[d].member] # "none"
        /\ \/ role' = role
           \/ role' = [role EXCEPT ![desk[d].member] = desk[d].to]
    BY <1>4 DEF ChangeMember, RemoveMember
  <2>2. Owners' # {}
    BY <1>0, <2>1, AnOwnerRemains
  <2>3. Members'
    BY <1>0, <2>1
  <2>4. QED
    BY <2>2, <2>3 DEF OwnersRemain
<1>5. QED
  BY <1>1, <1>2, <1>3, <1>4
     DEF TeamNext, teamVars, InviteExpires, RegisterElsewhere, ChangeUser, RevokeKey,
         RotateInvite, MissInvite, InsertInvite, FinishRevoke, ReadOwners, RefuseMember,
         IssueKey, ChangeWorkspace, RunEffect, EffectFails, RequestDies, BeginKey,
         BeginRevoke, BeginInvite, BeginMember

(***************************************************************************)
(* Keys                                                                    *)
(***************************************************************************)

\* The key k, and the member it belongs to.
LEMMA KeyTyped ==
    ASSUME TeamTypeOK, NEW k \in DOMAIN keys
    PROVE  keys[k] \in Key /\ keys[k].by \in Person
<1>1. keys[k] \in Key
  BY LenProperties, ElementOfSeq DEF TeamTypeOK
<1>2. QED
  BY <1>1 DEF Key

LEMMA KeysNext ==
    TeamTypeOK /\ KeysFollowMembers /\ [TeamNext]_teamVars => KeysFollowMembers'
<1> SUFFICES ASSUME TeamTypeOK, KeysFollowMembers, [TeamNext]_teamVars
             PROVE  KeysFollowMembers'
  OBVIOUS
<1> DEFINE Good(x) == role[x] # "none" /\ user[x] = "active"
<1>0. /\ role \in [Person -> Role \cup {"none"}]
      /\ user \in [Person -> {"none", "active", "disabled"}]
      /\ keys \in Seq(Key)
  BY DEF TeamTypeOK
\* A step that revokes what it takes the ground from keeps the invariant.
<1>1. ASSUME DOMAIN keys' = DOMAIN keys,
             \A k \in DOMAIN keys :
                /\ keys'[k].by = keys[k].by /\ keys'[k].late = keys[k].late
                /\ keys'[k].live => /\ keys[k].live
                                    /\ Good(keys[k].by) => Good(keys[k].by)'
      PROVE  KeysFollowMembers'
  BY <1>1, KeyTyped DEF KeysFollowMembers
<1>2. ASSUME UNCHANGED <<role, user, keys>> PROVE KeysFollowMembers'
  BY <1>2 DEF KeysFollowMembers
<1>3. ASSUME NEW x \in Person, \/ RegisterElsewhere(x)
                               \/ \E i \in DOMAIN invites : Accept(x, i) \/ Register(x, i)
      PROVE  KeysFollowMembers'
  <2>1. keys' = keys
    BY <1>3 DEF RegisterElsewhere, Accept, Register
  <2>2. \A y \in Person : Good(y) => Good(y)'
    BY <1>0, <1>3 DEF RegisterElsewhere, Accept, Register, Admit
  <2>3. QED
    BY <2>1, <2>2, KeyTyped DEF KeysFollowMembers
<1>4. ASSUME NEW x \in Person, NEW to \in {"active", "disabled"}, ChangeUser(x, to)
      PROVE  KeysFollowMembers'
  <2>1. \A y \in Person : y # x \/ to = "active" => (Good(y) => Good(y)')
    BY <1>0, <1>4 DEF ChangeUser
  <2>2. CASE to = "active"
    <3>1. keys' = keys
      BY <1>4, <2>2 DEF ChangeUser
    <3>2. QED
      BY <2>1, <2>2, <3>1, KeyTyped DEF KeysFollowMembers
  <2>3. CASE to # "active"
    <3>1. keys' = RevokeOf(x)
      BY <1>4, <2>3 DEF ChangeUser
    <3>2. QED
      BY <1>0, <1>1, <2>1, <3>1, RevocationOfKeys, KeyTyped
  <2>4. QED
    BY <2>2, <2>3
<1>5. ASSUME NEW d \in Desk, ChangeMember(d) PROVE KeysFollowMembers'
  <2>1. keys' = keys
    BY <1>5 DEF ChangeMember
  <2>2. \A y \in Person : Good(y) => Good(y)'
    BY <1>0, <1>5 DEF ChangeMember
  <2>3. QED
    BY <2>1, <2>2, KeyTyped DEF KeysFollowMembers
<1>6. ASSUME NEW d \in Desk, RemoveMember(d) PROVE KeysFollowMembers'
  <2>1. \A y \in Person : y # desk[d].member => (Good(y) => Good(y)')
    BY <1>0, <1>6 DEF RemoveMember
  <2>2. keys' = RevokeOf(desk[d].member)
    BY <1>6 DEF RemoveMember
  <2>3. QED
    BY <1>0, <1>1, <2>1, <2>2, RevocationOfKeys, KeyTyped
<1>7. ASSUME NEW d \in Desk, IssueKey(d) PROVE KeysFollowMembers'
  <2> DEFINE key == [by |-> desk[d].by, live |-> TRUE, late |-> ~SignedIn(desk[d].by)]
  <2>1. key \in Key
    BY <1>7, DeskFields DEF IssueKey, Key, TeamTypeOK
  <2>2. key.live => Good(key.by) \/ key.late
    BY DEF SignedIn
  <2>3. keys' = Append(keys, key) /\ UNCHANGED <<role, user>>
    BY <1>7 DEF IssueKey
  <2>4. /\ Len(keys) \in Nat /\ DOMAIN keys = 1 .. Len(keys)
        /\ DOMAIN keys' = 1 .. (Len(keys) + 1)
        /\ \A k \in DOMAIN keys : keys'[k] = keys[k]
        /\ keys'[Len(keys) + 1] = key
    <3> HIDE DEF key
    <3> QED BY <1>0, <2>1, <2>3, AppendProperties, LenProperties
  <2>5. ASSUME NEW k \in DOMAIN keys', keys'[k].live
        PROVE  \/ role'[keys'[k].by] # "none" /\ user'[keys'[k].by] = "active"
               \/ keys'[k].late
    <3>1. k \in DOMAIN keys \/ k = Len(keys) + 1
      BY <2>4
    <3>2. CASE k \in DOMAIN keys
      <4>1. keys'[k] = keys[k]
        BY <2>4, <3>2
      <4>2. \/ role[keys[k].by] # "none" /\ user[keys[k].by] = "active"
            \/ keys[k].late
        BY <2>5, <3>2, <4>1 DEF KeysFollowMembers
      <4>3. QED
        BY <2>3, <4>1, <4>2
    <3>3. CASE k = Len(keys) + 1
      <4>1. keys'[k] = key
        BY <2>4, <3>3
      <4>2. QED
        BY <2>2, <2>3, <2>5, <4>1
    <3>4. QED
      BY <3>1, <3>2, <3>3
  <2>6. QED
    BY <2>5 DEF KeysFollowMembers
<1>8. ASSUME NEW k \in DOMAIN keys, RevokeKey(k) PROVE KeysFollowMembers'
  <2>1. ASSUME NEW j \in DOMAIN keys
        PROVE  /\ keys'[j].by = keys[j].by /\ keys'[j].late = keys[j].late
               /\ keys'[j].live => keys[j].live
    BY <1>8, <2>1, KeyTyped DEF RevokeKey, Key
  <2>2. DOMAIN keys' = DOMAIN keys /\ UNCHANGED <<role, user>>
    BY <1>8 DEF RevokeKey
  <2>3. QED
    BY <1>1, <2>1, <2>2
<1>9. ASSUME NEW d \in Desk, RunEffect(d) PROVE KeysFollowMembers'
  <2>0. UNCHANGED <<role, user>>
    BY <1>9 DEF RunEffect
  <2>1. CASE keys' = keys
    BY <2>0, <2>1, <1>2
  <2>2. CASE keys' = [k \in DOMAIN keys |-> [keys[k] EXCEPT !.live = FALSE]]
    <3>1. ASSUME NEW j \in DOMAIN keys PROVE ~keys'[j].live
      BY <2>2, KeyTyped DEF Key
    <3>2. QED
      BY <2>2, <3>1 DEF KeysFollowMembers
  <2>3. QED
    BY <1>9, <2>1, <2>2 DEF RunEffect
<1>10. QED
  BY <1>2, <1>3, <1>4, <1>5, <1>6, <1>7, <1>8, <1>9
     DEF TeamNext, teamVars, InviteExpires, RotateInvite, MissInvite, InsertInvite,
         FinishRevoke, ReadOwners, RefuseMember, ChangeWorkspace, EffectFails,
         RequestDies, BeginKey, BeginRevoke, BeginInvite, BeginMember

\* Whatever members, invitations, accounts and the workspace go through at
\* once, an owner remains, a member has an account, and a key that works belongs
\* to an active member or is one that was committed too late.
THEOREM MembersHold == TeamSpec => []MembershipHolds
<1>1. TeamInit => OwnersRemain /\ KeysFollowMembers
  <2>1. ASSUME TeamInit PROVE OwnersRemain
    BY <2>1, TeamAssumption DEF TeamInit, OwnersRemain, Owners
  <2>2. ASSUME TeamInit PROVE KeysFollowMembers
    BY <2>2 DEF TeamInit, KeysFollowMembers
  <2>3. QED
    BY <2>1, <2>2
<1>2. MembershipHolds <=> OwnersRemain /\ KeysFollowMembers
  BY DEF MembershipHolds
<1>3. QED
  BY <1>1, <1>2, TypesHold, OwnersNext, KeysNext, PTL DEF TeamSpec

-----------------------------------------------------------------------------
(***************************************************************************)
(* Sessions                                                                *)
(***************************************************************************)

InFlight ==
    {Idle}
        \cup [step : {"logout"}, sv : Nat]
        \cup [step : {"reset"}, sv : Nat, link : Nat]
        \cup [step : {"status"}, sv : Nat, to : {"active", "disabled"}]
        \cup [step : {"login"}]
        \cup [step : {"issue"}, sv : Nat, born : Nat]
        \cup [step : {"refresh"}, sv : Nat, token : Nat]

Tokens == [family : Nat, sv : Nat, used : BOOLEAN, revoked : BOOLEAN,
           expired : BOOLEAN, born : Nat]

Reading(p) == request[p].step \in {"logout", "reset", "status", "issue", "refresh"}

\* SessionsTypeOK, with what a process has read.
Types ==
    /\ version \in Nat /\ ends \in Nat /\ version <= ends /\ ends <= MaxEnds
    /\ account \in {"active", "disabled"}
    /\ tokens \in Seq(Tokens)
    /\ Len(tokens) <= MaxTokens
    /\ links \in Seq(Link) /\ Len(links) <= MaxLinks
    /\ request \in [Process -> InFlight]
    /\ lapsed \in BOOLEAN

\* What was read is no newer than what is, and points to what exists.
ReadsArePast ==
    \A p \in Process :
        /\ Reading(p) => request[p].sv <= ends
        /\ At(p, "issue") => request[p].born <= ends
        /\ At(p, "refresh") => request[p].token \in DOMAIN tokens

TokensArePast ==
    \A i \in DOMAIN tokens : tokens[i].sv <= ends /\ tokens[i].born <= ends

\* A token is no older than its family.
FamilyFirst == \A i \in DOMAIN tokens : tokens[i].family \in 1 .. i

VersionCounts == lapsed \/ version = ends

\* A token is as old as its version says, and so is what is being signed.
SignedWhenBorn ==
    lapsed \/
    /\ \A i \in DOMAIN tokens : tokens[i].sv = tokens[i].born
    /\ \A p \in Process :
        /\ At(p, "issue") => request[p].sv = request[p].born
        /\ At(p, "refresh") => request[p].sv = tokens[request[p].token].sv

SessionsInv ==
    /\ Types /\ ReadsArePast /\ TokensArePast /\ FamilyFirst
    /\ VersionCounts /\ SignedWhenBorn /\ RotationLinear

-----------------------------------------------------------------------------
(* What the actions have in common                                         *)

\* What a process has read has the fields of its step.
LEMMA RequestShape ==
    ASSUME NEW r \in InFlight
    PROVE  /\ r.step \in {"logout", "reset", "status", "issue", "refresh"} => r.sv \in Nat
           /\ r.step = "issue" => r.born \in Nat
           /\ r.step = "refresh" => r.token \in Nat
           /\ r.step = "status" => r.to \in {"active", "disabled"}
BY DEF InFlight, Idle

\* A change of tokens in their places leaves a sequence of tokens.
LEMMA InPlace ==
    ASSUME NEW T, NEW s \in Seq(T), NEW t, t \in [DOMAIN s -> T]
    PROVE  t \in Seq(T) /\ Len(t) = Len(s) /\ DOMAIN t = DOMAIN s
<1>1. DOMAIN s = 1 .. Len(s) /\ Len(s) \in Nat
  BY LenProperties
<1>2. t \in Seq(T)
  BY <1>1, SeqDef
<1>3. QED
  BY <1>1, <1>2, LenProperties

\* A process that reads for the first time, or that answers.
LEMMA HoldTypes ==
    ASSUME Types, NEW p \in Process, NEW r \in InFlight, Hold(p, r)
    PROVE  /\ request' \in [Process -> InFlight]
           /\ request'[p] = r
           /\ \A q \in Process \ {p} : request'[q] = request[q]
BY DEF Types, Hold

\* Ending all sessions keeps the version behind the endings, and at their
\* number while no two overlap.
LEMMA BumpCounts ==
    ASSUME Types, ReadsArePast, VersionCounts, NEW p \in Process, Reading(p), Bump(p)
    PROVE  /\ version' \in Nat /\ ends' \in Nat /\ version' <= ends' /\ ends' <= MaxEnds
           /\ ends' = ends + 1 /\ lapsed' \in BOOLEAN
           /\ VersionCounts'
           /\ ~lapsed' => ~lapsed
<1>1. request[p].sv \in Nat /\ request[p].sv <= ends /\ version \in Nat /\ ends \in Nat
  BY RequestShape DEF Types, ReadsArePast, Reading
<1>2. /\ ends + 1 <= MaxEnds
      /\ version' = request[p].sv + 1 /\ ends' = ends + 1
      /\ lapsed' = (lapsed \/ version # request[p].sv)
  BY <1>1, SessionsAssumption DEF Bump, Types
<1>3. lapsed \in BOOLEAN
  BY DEF Types
<1>4. lapsed' \in BOOLEAN /\ (~lapsed' => ~lapsed /\ version = request[p].sv)
  BY <1>2, <1>3, Zenon
<1>5. VersionCounts'
  <2>1. CASE lapsed'
    BY <2>1 DEF VersionCounts
  <2>2. CASE ~lapsed'
    <3>1. version = ends /\ version = request[p].sv
      BY <2>2, <1>4 DEF VersionCounts
    <3>2. version' = ends'
      BY <3>1, <1>2
    <3>3. QED
      BY <3>2 DEF VersionCounts
  <2>3. QED
    BY <2>1, <2>2
<1>6. QED
  BY <1>1, <1>2, <1>4, <1>5

\* What a request reads in this step is as old as its claims say.
ReadNow(r) ==
    /\ r.step \in {"logout", "reset", "status", "issue", "refresh"} => r.sv <= ends
    /\ r.step = "issue" => r.born <= ends /\ (lapsed \/ r.sv = r.born)
    /\ r.step = "refresh" =>
        r.token \in DOMAIN tokens /\ (lapsed \/ r.sv = tokens[r.token].sv)

RequestsMove ==
    /\ request' \in [Process -> InFlight]
    /\ \A p \in Process : request'[p] = request[p] \/ ReadNow(request'[p])

\* A token keeps its claims, and what ended it.
Marked(t, u) ==
    /\ u.family = t.family /\ u.sv = t.sv /\ u.born = t.born
    /\ t.used => u.used
    /\ t.revoked => u.revoked

\* A new token is as old as its claims say, and the only live one it has.
Fresh(i) ==
    /\ tokens'[i].sv <= ends /\ tokens'[i].born <= ends
    /\ lapsed \/ tokens'[i].sv = tokens'[i].born
    /\ tokens'[i].family \in 1 .. i
    /\ \A j \in DOMAIN tokens :
        tokens[j].family = tokens'[i].family => tokens'[j].used \/ tokens'[j].revoked

TokensMove ==
    /\ tokens' \in Seq(Tokens) /\ Len(tokens') <= MaxTokens
    /\ Len(tokens') \in {Len(tokens), Len(tokens) + 1}
    /\ \A i \in DOMAIN tokens : Marked(tokens[i], tokens'[i])
    /\ \A i \in DOMAIN tokens' \ DOMAIN tokens : Fresh(i)

EndingsMove ==
    /\ version' \in Nat /\ ends' \in Nat /\ version' <= ends' /\ ends' <= MaxEnds
    /\ ends <= ends' /\ lapsed' \in BOOLEAN
    /\ VersionCounts'
    /\ ~lapsed' => ~lapsed

\* Of two sequences one at most a place longer, only that place is new.
LEMMA OneMore ==
    ASSUME NEW n \in Nat, NEW m \in {n, n + 1}
    PROVE  \A k \in 1 .. m : k \notin 1 .. n => k = n + 1
OBVIOUS

\* Every step that moves requests, tokens and endings this way keeps the
\* invariant: it is what the cases of the theorem have left to show.
LEMMA MovesKeepInv ==
    ASSUME SessionsInv, RequestsMove, TokensMove, EndingsMove,
           account' \in {"active", "disabled"},
           links' \in Seq(Link), Len(links') <= MaxLinks
    PROVE  SessionsInv'
<1> USE DEF SessionsInv
<1>1. Types'
  BY DEF Types, RequestsMove, TokensMove, EndingsMove
<1>2. /\ DOMAIN tokens = 1 .. Len(tokens) /\ DOMAIN tokens' = 1 .. Len(tokens')
      /\ Len(tokens) \in Nat /\ Len(tokens') \in Nat
      /\ DOMAIN tokens \subseteq DOMAIN tokens'
  BY LenProperties DEF Types, TokensMove
<1>3. /\ ends \in Nat /\ ends' \in Nat /\ ends <= ends'
  BY DEF Types, EndingsMove
<1>4. /\ \A i \in DOMAIN tokens : tokens[i] \in Tokens
      /\ \A i \in DOMAIN tokens' : tokens'[i] \in Tokens
  BY ElementOfSeq, <1>2 DEF Types, TokensMove
<1>5. ReadsArePast'
  <2> SUFFICES ASSUME NEW p \in Process
               PROVE  /\ Reading(p)' => request'[p].sv <= ends'
                      /\ At(p, "issue")' => request'[p].born <= ends'
                      /\ At(p, "refresh")' => request'[p].token \in DOMAIN tokens'
    BY DEF ReadsArePast
  <2>1. request'[p] \in InFlight
    BY DEF RequestsMove
  <2>2. CASE request'[p] = request[p]
    BY <1>2, <1>3, <2>1, <2>2, RequestShape DEF ReadsArePast, Reading, At
  <2>3. CASE ReadNow(request'[p])
    BY <1>2, <1>3, <2>1, <2>3, RequestShape DEF ReadNow, Reading, At
  <2>4. QED
    BY <2>2, <2>3 DEF RequestsMove
<1>6. TokensArePast'
  <2> SUFFICES ASSUME NEW i \in DOMAIN tokens'
               PROVE  tokens'[i].sv <= ends' /\ tokens'[i].born <= ends'
    BY DEF TokensArePast
  <2>1. tokens'[i].sv \in Nat /\ tokens'[i].born \in Nat
    BY <1>4 DEF Tokens
  <2>2. CASE i \in DOMAIN tokens
    BY <1>3, <2>1, <2>2 DEF TokensArePast, TokensMove, Marked
  <2>3. CASE i \notin DOMAIN tokens
    BY <1>3, <2>1, <2>3 DEF TokensMove, Fresh
  <2>4. QED
    BY <2>2, <2>3
<1>7. FamilyFirst'
  BY <1>2 DEF FamilyFirst, TokensMove, Marked, Fresh
<1>8. SignedWhenBorn'
  <2>1. CASE lapsed'
    BY <2>1 DEF SignedWhenBorn
  <2>2. CASE ~lapsed'
    <3>1. ~lapsed
      BY <2>2 DEF EndingsMove
    <3>2. \A i \in DOMAIN tokens' : tokens'[i].sv = tokens'[i].born
      BY <3>1, <1>2 DEF SignedWhenBorn, TokensMove, Marked, Fresh
    <3>3. ASSUME NEW p \in Process
          PROVE  /\ At(p, "issue")' => request'[p].sv = request'[p].born
                 /\ At(p, "refresh")' => request'[p].sv = tokens'[request'[p].token].sv
      <4>1. CASE request'[p] = request[p]
        BY <3>1, <4>1 DEF SignedWhenBorn, ReadsArePast, TokensMove, Marked, At
      <4>2. CASE ReadNow(request'[p])
        BY <3>1, <4>2 DEF ReadNow, TokensMove, Marked, At
      <4>3. QED
        BY <4>1, <4>2 DEF RequestsMove
    <3>4. QED
      BY <3>2, <3>3 DEF SignedWhenBorn
  <2>3. QED
    BY <2>1, <2>2
<1>9. RotationLinear'
  <2> SUFFICES ASSUME NEW i \in DOMAIN tokens', NEW j \in DOMAIN tokens',
                      tokens'[i].family = tokens'[j].family,
                      ~tokens'[i].used, ~tokens'[j].used,
                      ~tokens'[i].revoked, ~tokens'[j].revoked
               PROVE  i = j
    BY DEF RotationLinear
  <2>1. CASE i \in DOMAIN tokens /\ j \in DOMAIN tokens
    BY <2>1 DEF RotationLinear, TokensMove, Marked
  <2>2. CASE i \in DOMAIN tokens /\ j \notin DOMAIN tokens
    BY <2>2 DEF TokensMove, Marked, Fresh
  <2>3. CASE i \notin DOMAIN tokens /\ j \in DOMAIN tokens
    BY <2>3 DEF TokensMove, Marked, Fresh
  <2>4. CASE i \notin DOMAIN tokens /\ j \notin DOMAIN tokens
    <3>1. Len(tokens') \in {Len(tokens), Len(tokens) + 1}
      BY DEF TokensMove
    <3>2. \A k \in DOMAIN tokens' : k \notin DOMAIN tokens => k = Len(tokens) + 1
      BY <3>1, <1>2, OneMore
    <3>3. QED
      BY <2>4, <3>2
  <2>5. QED
    BY <2>1, <2>2, <2>3, <2>4
<1>10. VersionCounts'
  BY DEF EndingsMove
<1>11. QED
  BY <1>1, <1>5, <1>6, <1>7, <1>8, <1>9, <1>10

\* Tokens that are left alone, or marked where they are.
LEMMA MarksMove ==
    ASSUME SessionsInv, tokens' \in [DOMAIN tokens -> Tokens],
           \A i \in DOMAIN tokens : Marked(tokens[i], tokens'[i])
    PROVE  TokensMove
<1>1. tokens \in Seq(Tokens) /\ Len(tokens) <= MaxTokens
  BY DEF SessionsInv, Types
<1>2. tokens' \in Seq(Tokens) /\ Len(tokens') = Len(tokens) /\ DOMAIN tokens' = DOMAIN tokens
  BY <1>1, InPlace
<1>3. QED
  BY <1>1, <1>2 DEF TokensMove

LEMMA SameTokensMove ==
    ASSUME SessionsInv, UNCHANGED tokens
    PROVE  TokensMove
<1>1. tokens \in Seq(Tokens)
  BY DEF SessionsInv, Types
<1>2. \A i \in DOMAIN tokens : tokens[i] \in Tokens
  BY <1>1, ElementOfSeq, LenProperties
<1>3. tokens = [i \in DOMAIN tokens |-> tokens[i]]
  BY <1>1, LenProperties, SeqDef
<1>4. tokens' \in [DOMAIN tokens -> Tokens]
  BY <1>2, <1>3
<1>5. \A i \in DOMAIN tokens : Marked(tokens[i], tokens'[i])
  BY DEF Marked
<1>6. QED
  BY <1>4, <1>5, MarksMove

\* A process that puts down what it read, or reads something of now.
LEMMA HoldMoves ==
    ASSUME SessionsInv, NEW p \in Process, NEW r \in InFlight, Hold(p, r),
           ReadNow(r)
    PROVE  RequestsMove
BY HoldTypes DEF SessionsInv, RequestsMove

LEMMA ReleaseMoves ==
    ASSUME SessionsInv, NEW p \in Process, Release(p)
    PROVE  RequestsMove
<1>1. Idle \in InFlight /\ ReadNow(Idle)
  BY DEF InFlight, Idle, ReadNow
<1>2. QED
  BY <1>1, HoldMoves DEF Release

LEMMA SameEndingsMove ==
    ASSUME SessionsInv, UNCHANGED <<version, ends, lapsed>>
    PROVE  EndingsMove
BY DEF SessionsInv, Types, VersionCounts, EndingsMove

LEMMA BumpMoves ==
    ASSUME SessionsInv, NEW p \in Process, Reading(p), Bump(p)
    PROVE  EndingsMove
<1>1. /\ Types /\ ReadsArePast /\ VersionCounts
      /\ ends \in Nat
  BY DEF SessionsInv, Types
<1>2. QED
  BY <1>1, BumpCounts DEF EndingsMove

-----------------------------------------------------------------------------
(* Every action moves this way                                             *)

\* What is signed next joins the tokens.
LEMMA AppendMoves ==
    ASSUME SessionsInv, Len(tokens) < MaxTokens, NEW marked \in [DOMAIN tokens -> Tokens],
           \A i \in DOMAIN tokens : Marked(tokens[i], marked[i]),
           NEW t \in Tokens, tokens' = Append(marked, t),
           t.sv <= ends, t.born <= ends, lapsed \/ t.sv = t.born,
           t.family \in 1 .. Len(tokens) + 1,
           \A j \in DOMAIN tokens :
               tokens[j].family = t.family => marked[j].used \/ marked[j].revoked
    PROVE  TokensMove
<1>1. tokens \in Seq(Tokens) /\ Len(tokens) \in Nat /\ DOMAIN tokens = 1 .. Len(tokens)
  BY LenProperties DEF SessionsInv, Types
<1>2. marked \in Seq(Tokens) /\ Len(marked) = Len(tokens)
  BY <1>1, InPlace
<1>3. /\ tokens' \in Seq(Tokens) /\ Len(tokens') = Len(tokens) + 1
      /\ \A i \in DOMAIN tokens : tokens'[i] = marked[i]
      /\ tokens'[Len(tokens) + 1] = t
  BY <1>1, <1>2, AppendProperties
<1>4. DOMAIN tokens' = 1 .. Len(tokens) + 1
  BY <1>3, LenProperties
<1>5. \A i \in DOMAIN tokens' \ DOMAIN tokens : i = Len(tokens) + 1
  BY <1>1, <1>4
<1>6. Fresh(Len(tokens) + 1)
  BY <1>3 DEF Fresh
<1>7. Len(tokens') <= MaxTokens
  BY <1>1, <1>3, SessionsAssumption
<1>8. QED
  BY <1>3, <1>5, <1>6, <1>7 DEF TokensMove

\* What a step has at hand: the rows and the request it reads.
LEMMA AtHand ==
    ASSUME SessionsInv
    PROVE  /\ ends \in Nat /\ version \in Nat /\ version <= ends
           /\ Len(tokens) \in Nat /\ DOMAIN tokens = 1 .. Len(tokens)
           /\ tokens = [i \in DOMAIN tokens |-> tokens[i]]
           /\ \A i \in DOMAIN tokens :
                /\ tokens[i] \in Tokens
                /\ tokens[i].sv <= ends /\ tokens[i].born <= ends
                /\ lapsed \/ tokens[i].sv = tokens[i].born
                /\ tokens[i].family \in 1 .. i
           /\ lapsed \/ version = ends
<1>1. tokens \in Seq(Tokens) /\ ends \in Nat /\ version \in Nat /\ version <= ends
  BY DEF SessionsInv, Types
<1>2. /\ Len(tokens) \in Nat /\ DOMAIN tokens = 1 .. Len(tokens)
      /\ tokens = [i \in DOMAIN tokens |-> tokens[i]]
  BY <1>1, LenProperties, SeqDef
<1>3. \A i \in DOMAIN tokens : tokens[i] \in Tokens
  BY <1>1, <1>2, ElementOfSeq
<1>4. QED
  BY <1>1, <1>2, <1>3
     DEF SessionsInv, TokensArePast, SignedWhenBorn, FamilyFirst, VersionCounts

LEMMA LeftAlone ==
    ASSUME SessionsInv
    PROVE  /\ account \in {"active", "disabled"}
           /\ links \in Seq(Link) /\ Len(links) <= MaxLinks
BY DEF SessionsInv, Types

LEMMA MarkedTyped ==
    ASSUME NEW t \in Tokens
    PROVE  /\ Marked(t, t)
           /\ [t EXCEPT !.used = TRUE] \in Tokens
           /\ [t EXCEPT !.revoked = TRUE] \in Tokens
           /\ [t EXCEPT !.expired = TRUE] \in Tokens
           /\ Marked(t, [t EXCEPT !.used = TRUE])
           /\ Marked(t, [t EXCEPT !.revoked = TRUE])
           /\ Marked(t, [t EXCEPT !.expired = TRUE])
BY DEF Tokens, Marked

LEMMA InitHolds == SessionsInit => SessionsInv
<1> SUFFICES ASSUME SessionsInit PROVE SessionsInv
  OBVIOUS
<1>1. Len(<<>>) = 0 /\ DOMAIN <<>> = {}
  OBVIOUS
<1>2. Types
  <2>1. Idle \in InFlight
    BY DEF InFlight
  <2>2. request \in [Process -> InFlight]
    BY <2>1 DEF SessionsInit
  <2>3. tokens \in Seq(Tokens) /\ Len(tokens) = 0 /\ links \in Seq(Link) /\ Len(links) = 0
    BY DEF SessionsInit
  <2>4. /\ version = 0 /\ ends = 0 /\ account = "active" /\ lapsed = FALSE
        /\ 0 <= MaxEnds /\ 0 <= MaxTokens /\ 0 <= MaxLinks
    BY SessionsAssumption DEF SessionsInit
  <2>5. account \in {"active", "disabled"} /\ lapsed \in BOOLEAN
    BY <2>4
  <2>6. /\ version \in Nat /\ ends \in Nat /\ version <= ends /\ ends <= MaxEnds
        /\ Len(tokens) <= MaxTokens /\ Len(links) <= MaxLinks
    BY <2>3, <2>4
  <2>7. QED
    BY <2>2, <2>3, <2>5, <2>6 DEF Types
<1>3. QED
  BY <1>1, <1>2 DEF SessionsInit, SessionsInv, ReadsArePast, TokensArePast, FamilyFirst,
     VersionCounts, SignedWhenBorn, RotationLinear, Reading, At, Idle

\* A process reads the version, or the row of a token, and does nothing else.
LEMMA ReadKeepsInv ==
    ASSUME SessionsInv, NEW p \in Process, NEW r \in InFlight, Hold(p, r), ReadNow(r),
           UNCHANGED <<version, account, tokens, links, ends, lapsed>>
    PROVE  SessionsInv'
<1>1. RequestsMove /\ TokensMove /\ EndingsMove
  BY HoldMoves, SameTokensMove, SameEndingsMove
<1>2. QED
  BY <1>1, LeftAlone, MovesKeepInv

LEMMA ReadActions ==
    ASSUME SessionsInv, NEW p \in Process,
           \/ CheckLogin(p) \/ ReadVersion(p)
           \/ \E to \in {"active", "disabled"} : BeginStatus(p, to)
           \/ \E l \in DOMAIN links : BeginReset(p, l)
           \/ \E i \in DOMAIN tokens :
                BeginLogout(p, i) \/ BeginSwitch(p, i) \/ BeginRefresh(p, i)
    PROVE  SessionsInv'
<1>1. CASE CheckLogin(p)
  <2>1. [step |-> "login"] \in InFlight /\ ReadNow([step |-> "login"])
    BY DEF InFlight, ReadNow
  <2>2. QED
    BY <1>1, <2>1, ReadKeepsInv DEF CheckLogin
<1>2. CASE ReadVersion(p)
  <2> DEFINE r == [step |-> "issue", sv |-> version, born |-> ends]
  <2>1. r \in InFlight /\ ReadNow(r)
    BY AtHand DEF InFlight, ReadNow
  <2>2. QED
    BY <1>2, <2>1, ReadKeepsInv DEF ReadVersion
<1>3. ASSUME NEW to \in {"active", "disabled"}, BeginStatus(p, to)
      PROVE  SessionsInv'
  <2> DEFINE r == [step |-> "status", sv |-> version, to |-> to]
  <2>1. r \in InFlight /\ ReadNow(r)
    BY AtHand DEF InFlight, ReadNow
  <2>2. QED
    BY <1>3, <2>1, ReadKeepsInv DEF BeginStatus
<1>4. ASSUME NEW l \in DOMAIN links, BeginReset(p, l)
      PROVE  SessionsInv'
  <2> DEFINE r == [step |-> "reset", sv |-> version, link |-> l]
  <2>1. l \in Nat
    BY LeftAlone, LenProperties
  <2>2. r \in InFlight /\ ReadNow(r)
    BY <2>1, AtHand DEF InFlight, ReadNow
  <2>3. QED
    BY <1>4, <2>2, ReadKeepsInv DEF BeginReset
<1>5. ASSUME NEW i \in DOMAIN tokens, BeginLogout(p, i)
      PROVE  SessionsInv'
  <2> DEFINE r == [step |-> "logout", sv |-> version]
  <2>1. r \in InFlight /\ ReadNow(r)
    BY AtHand DEF InFlight, ReadNow
  <2>2. QED
    BY <1>5, <2>1, ReadKeepsInv DEF BeginLogout
<1>6. ASSUME NEW i \in DOMAIN tokens, BeginSwitch(p, i)
      PROVE  SessionsInv'
  <2> DEFINE r == [step |-> "issue", sv |-> version, born |-> tokens[i].born]
  <2>1. tokens[i].sv = version
    BY <1>6 DEF BeginSwitch, Accepted
  <2>2. r \in InFlight /\ ReadNow(r)
    BY <2>1, AtHand DEF InFlight, ReadNow, Tokens
  <2>3. QED
    BY <1>6, <2>2, ReadKeepsInv DEF BeginSwitch
<1>7. ASSUME NEW i \in DOMAIN tokens, BeginRefresh(p, i)
      PROVE  SessionsInv'
  <2> DEFINE r == [step |-> "refresh", sv |-> version, token |-> i]
  <2>1. tokens[i].sv = version
    BY <1>7 DEF BeginRefresh, Accepted
  <2>2. r \in InFlight /\ ReadNow(r)
    BY <2>1, AtHand DEF InFlight, ReadNow
  <2>3. QED
    BY <1>7, <2>2, ReadKeepsInv DEF BeginRefresh
<1>8. QED
  BY <1>1, <1>2, <1>3, <1>4, <1>5, <1>6, <1>7

\* The steps that end sessions or refuse a token.
LEMMA EndActions ==
    ASSUME SessionsInv, NEW p \in Process,
           \/ FinishLogout(p) \/ FinishReset(p) \/ ResetAborted(p) \/ FinishStatus(p)
           \/ RefreshRefused(p) \/ RefreshReused(p) \/ RefreshExpired(p)
    PROVE  SessionsInv'
<1>1. CASE FinishLogout(p)
  <2>1. Reading(p) /\ RequestsMove
    BY <1>1, ReleaseMoves DEF FinishLogout, Reading, At
  <2>2. EndingsMove
    BY <1>1, <2>1, BumpMoves DEF FinishLogout
  <2>3. tokens' = [i \in DOMAIN tokens |-> [tokens[i] EXCEPT !.revoked = TRUE]]
    BY <1>1 DEF FinishLogout, RevokeAll
  <2>4. TokensMove
    BY <2>3, AtHand, MarkedTyped, MarksMove
  <2>5. QED
    BY <1>1, <2>1, <2>2, <2>4, LeftAlone, MovesKeepInv DEF FinishLogout
<1>2. CASE FinishReset(p)
  <2>1. Reading(p) /\ RequestsMove
    BY <1>2, ReleaseMoves DEF FinishReset, Reading, At
  <2>2. EndingsMove /\ TokensMove
    BY <1>2, <2>1, BumpMoves, SameTokensMove DEF FinishReset
  <2>3. links' = [l \in DOMAIN links |-> IF links[l] = "unused" THEN "used" ELSE links[l]]
    BY <1>2 DEF FinishReset
  <2>4. \A l \in DOMAIN links : links[l] \in Link
    BY LeftAlone, ElementOfSeq, LenProperties
  <2>5. links' \in [DOMAIN links -> Link]
    BY <2>3, <2>4 DEF Link
  <2>6. links' \in Seq(Link) /\ Len(links') <= MaxLinks
    BY <2>5, LeftAlone, InPlace
  <2>7. QED
    BY <1>2, <2>1, <2>2, <2>6, LeftAlone, MovesKeepInv DEF FinishReset
<1>3. CASE ResetAborted(p)
  <2>1. RequestsMove /\ TokensMove /\ EndingsMove
    BY <1>3, ReleaseMoves, SameTokensMove, SameEndingsMove DEF ResetAborted
  <2>2. QED
    BY <1>3, <2>1, LeftAlone, MovesKeepInv DEF ResetAborted
<1>4. CASE FinishStatus(p)
  <2>1. Reading(p) /\ RequestsMove /\ request[p] \in InFlight /\ request[p].step = "status"
    BY <1>4, ReleaseMoves DEF FinishStatus, Reading, At, SessionsInv, Types
  <2>2. EndingsMove /\ TokensMove
    BY <1>4, <2>1, BumpMoves, SameTokensMove DEF FinishStatus
  <2>3. account' \in {"active", "disabled"}
    BY <1>4, <2>1, RequestShape DEF FinishStatus
  <2>4. QED
    BY <1>4, <2>1, <2>2, <2>3, LeftAlone, MovesKeepInv DEF FinishStatus
<1>5. CASE RefreshRefused(p)
  <2>1. RequestsMove /\ TokensMove /\ EndingsMove
    BY <1>5, ReleaseMoves, SameTokensMove, SameEndingsMove DEF RefreshRefused
  <2>2. QED
    BY <1>5, <2>1, LeftAlone, MovesKeepInv DEF RefreshRefused
<1>6. CASE RefreshReused(p)
  <2>1. Reading(p) /\ RequestsMove
    BY <1>6, ReleaseMoves DEF RefreshReused, Reading, At
  <2>2. EndingsMove
    BY <1>6, <2>1, BumpMoves DEF RefreshReused
  <2>3. tokens' = [i \in DOMAIN tokens |->
                     IF tokens[i].family = Row(p).family
                     THEN [tokens[i] EXCEPT !.revoked = TRUE] ELSE tokens[i]]
    BY <1>6 DEF RefreshReused
  <2>4. TokensMove
    BY <2>3, AtHand, MarkedTyped, MarksMove
  <2>5. QED
    BY <1>6, <2>1, <2>2, <2>4, LeftAlone, MovesKeepInv DEF RefreshReused
<1>7. CASE RefreshExpired(p)
  <2>1. RequestsMove /\ EndingsMove
    BY <1>7, ReleaseMoves, SameEndingsMove DEF RefreshExpired
  <2>2. tokens' = [i \in DOMAIN tokens |->
                     IF i = request[p].token
                     THEN [tokens[i] EXCEPT !.revoked = TRUE] ELSE tokens[i]]
    BY <1>7, AtHand DEF RefreshExpired
  <2>3. TokensMove
    BY <2>2, AtHand, MarkedTyped, MarksMove
  <2>4. QED
    BY <1>7, <2>1, <2>3, LeftAlone, MovesKeepInv DEF RefreshExpired
<1>8. QED
  BY <1>1, <1>2, <1>3, <1>4, <1>5, <1>6, <1>7

\* The steps that sign a token. A new family has none yet; a rotated token was
\* the one live token of its family, and is used from here on.
LEMMA IssueActions ==
    ASSUME SessionsInv, NEW p \in Process, Issue(p) \/ Rotate(p)
    PROVE  SessionsInv'
<1>1. /\ request[p] \in InFlight
      /\ At(p, "issue") \/ At(p, "refresh") => request[p].sv \in Nat /\ request[p].sv <= ends
      /\ At(p, "issue") => /\ request[p].born \in Nat /\ request[p].born <= ends
                           /\ lapsed \/ request[p].sv = request[p].born
      /\ At(p, "refresh") => /\ request[p].token \in DOMAIN tokens
                             /\ lapsed \/ request[p].sv = tokens[request[p].token].sv
  BY RequestShape DEF SessionsInv, Types, ReadsArePast, SignedWhenBorn, Reading, At
<1>2. CASE Issue(p)
  <2> DEFINE new == NewToken(Len(tokens) + 1, request[p].sv, request[p].born)
             same == [i \in DOMAIN tokens |-> tokens[i]]
  <2>1. At(p, "issue") /\ Len(tokens) < MaxTokens /\ tokens' = Append(same, new)
    BY <1>2, AtHand DEF Issue
  <2>2. /\ new \in Tokens /\ new.sv = request[p].sv /\ new.born = request[p].born
        /\ new.family = Len(tokens) + 1
    BY <1>1, <2>1, AtHand DEF NewToken, Tokens
  <2>3. same \in [DOMAIN tokens -> Tokens] /\ \A i \in DOMAIN tokens : Marked(tokens[i], same[i])
    BY AtHand, MarkedTyped
  <2>4. \A j \in DOMAIN tokens : tokens[j].family # new.family
    BY <2>2, AtHand
  <2>5. new.family \in 1 .. Len(tokens) + 1
    BY <2>2, AtHand
  <2> HIDE DEF new, same
  <2>6. TokensMove
    BY <1>1, <2>1, <2>2, <2>3, <2>4, <2>5, AppendMoves
  <2>7. RequestsMove /\ EndingsMove
    BY <1>2, ReleaseMoves, SameEndingsMove DEF Issue
  <2>8. QED
    BY <1>2, <2>6, <2>7, LeftAlone, MovesKeepInv DEF Issue
<1>3. CASE Rotate(p)
  <2> DEFINE k == request[p].token
             new == NewToken(tokens[k].family, request[p].sv, tokens[k].born)
             marked == [i \in DOMAIN tokens |->
                          IF i = k THEN [tokens[i] EXCEPT !.used = TRUE] ELSE tokens[i]]
  <2>1. /\ At(p, "refresh") /\ Len(tokens) < MaxTokens /\ k \in DOMAIN tokens
        /\ ~tokens[k].used /\ ~tokens[k].revoked
        /\ tokens' = Append([tokens EXCEPT ![k].used = TRUE], new)
    BY <1>1, <1>3 DEF Rotate, Row, Signed, MayRotate
  <2>2. tokens' = Append(marked, new)
    <3>1. [tokens EXCEPT ![k].used = TRUE] = marked
      BY <2>1, AtHand
    <3>2. QED
      BY <2>1, <3>1
  <2>3. /\ new \in Tokens /\ new.sv = request[p].sv /\ new.born = tokens[k].born
        /\ new.family = tokens[k].family
    BY <1>1, <2>1, AtHand DEF NewToken, Tokens
  <2>4. /\ marked \in [DOMAIN tokens -> Tokens]
        /\ \A i \in DOMAIN tokens : Marked(tokens[i], marked[i])
        /\ marked[k].used
    BY <2>1, AtHand, MarkedTyped DEF Tokens
  <2>5. \A j \in DOMAIN tokens :
            tokens[j].family = new.family => marked[j].used \/ marked[j].revoked
    BY <2>1, <2>3, <2>4 DEF SessionsInv, RotationLinear, Marked
  <2>6. new.family \in 1 .. Len(tokens) + 1
    BY <2>1, <2>3, AtHand
  <2>7. new.born <= ends /\ (lapsed \/ new.sv = new.born)
    BY <1>1, <2>1, <2>3, AtHand
  <2> HIDE DEF new, marked, k
  <2>8. TokensMove
    BY <1>1, <2>1, <2>2, <2>3, <2>4, <2>5, <2>6, <2>7, AppendMoves
  <2>9. RequestsMove /\ EndingsMove
    BY <1>3, ReleaseMoves, SameEndingsMove DEF Rotate
  <2>10. QED
    BY <1>3, <2>8, <2>9, LeftAlone, MovesKeepInv DEF Rotate
<1>4. QED
  BY <1>2, <1>3

LEMMA NextKeepsInv == SessionsInv /\ [SessionsNext]_sessionVars => SessionsInv'
<1> SUFFICES ASSUME SessionsInv, [SessionsNext]_sessionVars
             PROVE  SessionsInv'
  OBVIOUS
<1>1. CASE ForgotPassword
  <2>1. RequestsMove /\ TokensMove /\ EndingsMove
    BY <1>1, SameTokensMove, SameEndingsMove
       DEF ForgotPassword, RequestsMove, SessionsInv, Types
  <2>2. /\ Len(links) \in Nat /\ Len(links) < MaxLinks
        /\ links' = Append(links, "unused") /\ "unused" \in Link
    BY <1>1, LeftAlone, LenProperties DEF ForgotPassword, Link
  <2>3. links' \in Seq(Link) /\ Len(links') = Len(links) + 1
    BY <2>2, LeftAlone, AppendProperties
  <2>4. Len(links') <= MaxLinks
    BY <2>2, <2>3, SessionsAssumption
  <2>5. QED
    BY <1>1, <2>1, <2>3, <2>4, LeftAlone, MovesKeepInv DEF ForgotPassword
<1>2. ASSUME NEW l \in DOMAIN links, LinkExpires(l)
      PROVE  SessionsInv'
  <2>1. RequestsMove /\ TokensMove /\ EndingsMove
    BY <1>2, SameTokensMove, SameEndingsMove DEF LinkExpires, RequestsMove, SessionsInv,
       Types
  <2>2. links' \in Seq(Link) /\ Len(links') = Len(links)
    BY <1>2, LeftAlone, ExceptSeq, LenProperties DEF LinkExpires, Link
  <2>3. QED
    BY <1>2, <2>1, <2>2, LeftAlone, MovesKeepInv DEF LinkExpires
<1>3. ASSUME NEW i \in DOMAIN tokens, TokenExpires(i)
      PROVE  SessionsInv'
  <2>1. RequestsMove /\ EndingsMove
    BY <1>3, SameEndingsMove DEF TokenExpires, RequestsMove, SessionsInv, Types
  <2>2. tokens' = [j \in DOMAIN tokens |->
                     IF j = i THEN [tokens[j] EXCEPT !.expired = TRUE] ELSE tokens[j]]
    BY <1>3, AtHand DEF TokenExpires
  <2>3. TokensMove
    BY <2>2, AtHand, MarkedTyped, MarksMove
  <2>4. QED
    BY <1>3, <2>1, <2>3, LeftAlone, MovesKeepInv DEF TokenExpires
<1>4. CASE UNCHANGED sessionVars
  <2>1. TokensMove /\ EndingsMove /\ RequestsMove
    BY <1>4, SameTokensMove, SameEndingsMove DEF sessionVars, RequestsMove, SessionsInv,
       Types
  <2>2. QED
    BY <1>4, <2>1, LeftAlone, MovesKeepInv DEF sessionVars
<1>5. QED
  BY <1>1, <1>2, <1>3, <1>4, ReadActions, EndActions, IssueActions DEF SessionsNext

-----------------------------------------------------------------------------
(* Theorems                                                                *)

LEMMA SessionsInvHolds == SessionsSpec => []SessionsInv
BY InitHolds, NextKeepsInv, PTL DEF SessionsSpec

\* Versions, endings and the tokens of the requests are what the rows can hold.
LEMMA SessionsInvMeans == SessionsInv => SessionsTypeOK
<1> SUFFICES ASSUME SessionsInv PROVE SessionsTypeOK
  OBVIOUS
<1>1. /\ tokens \in Seq(Tokens) /\ Len(tokens) \in Nat /\ Len(tokens) <= MaxTokens
      /\ MaxTokens \in Nat /\ MaxEnds \in Nat
      /\ ends \in Nat /\ ends <= MaxEnds /\ version \in Nat /\ version <= ends
      /\ DOMAIN tokens = 1 .. Len(tokens)
  BY LenProperties, SessionsAssumption DEF SessionsInv, Types
<1>2. \A i \in DOMAIN tokens : tokens[i] \in Token
  BY <1>1, AtHand DEF Tokens, Token
<1>3. tokens \in Seq(Token)
  BY <1>1, <1>2, AtHand, SeqDef
<1>4. ASSUME NEW p \in Process
      PROVE  request[p].step \in
               {"none", "logout", "reset", "status", "login", "issue", "refresh"}
  BY DEF SessionsInv, Types, InFlight, Idle
<1>5. QED
  BY <1>1, <1>3, <1>4 DEF SessionsInv, Types, SessionsTypeOK

\* The version of an account never runs ahead of the endings of its sessions
\* (auth/router.py, admin/router.py: session_version += 1 is the only write),
\* and rows, links and requests keep their shapes.
THEOREM SessionsTyped == SessionsSpec => []SessionsTypeOK
BY SessionsInvMeans, SessionsInvHolds, PTL

\* After a logout, a reset, a reuse or a change of status no session of before
\* is accepted (deps.py get_current_user), unless two endings overlapped; and
\* a family never has two refresh tokens that can be rotated (auth/router.py
\* refresh), however many requests run at once.
THEOREM SessionsStayEnded == SessionsSpec => []SessionsHold
<1>1. SessionsInv => SessionsHold
  <2> SUFFICES ASSUME SessionsInv PROVE ResetEndsSessions /\ RotationLinear
    BY DEF SessionsHold
  <2>1. ResetEndsSessions
    BY AtHand DEF ResetEndsSessions, Accepted
  <2>2. QED
    BY <2>1 DEF SessionsInv
<1>2. QED
  BY <1>1, SessionsInvHolds, PTL

-----------------------------------------------------------------------------
(* Quotas: the invariant.                                                  *)

\* What a request, the rows it looks at and the sweep keep to.
Asker == [pc : {"idle", "checked", "importing", "publish", "creating", "reserve"},
          kind : Kinds, of : Slugs \cup {Nobody}, row : Nat, samples : BOOLEAN]
Place == [state : {"absent", "active", "archived"}, born : Nat, pool : BOOLEAN,
          done : SUBSET RetestDays]
Plans == [plan : {"trial", "starter", "expired"}, ends : Nat]
Sweeper == [pc : {"idle", "publish"}, row : Nat, done : SUBSET RetestDays]

QuotaTypes ==
    /\ tenant \in Plans
    /\ today \in Nat
    /\ places \in [Slugs -> Place]
    /\ book \in Seq(JobRow)
    /\ spent \in [Slugs -> Nat]
    /\ tenantRow \in Askers \cup {Nobody}
    /\ asker \in [Askers -> Asker]
    /\ sweep \in Sweeper
    /\ customer \in Customer

\* Who holds the tenant's row.
HoldsTenant == {"checked", "creating"}
TenantHeld ==
    \A a \in Askers :
        /\ asker[a].pc \in HoldsTenant => tenantRow = a
        /\ asker[a].pc # "idle" => asker[a].of \in Slugs

\* A job nobody works on before its message is sent.
Waiting(row) == row.status \in {"queued", "canceled"} /\ ~row.sent /\ ~row.started
Imports(row) ==
    row.status = "running" /\ row.action = "sample-import" /\ row.started /\ row.samples

\* The requests that have a row, which is theirs.
OfWaiting == {"publish", "reserve"}
OfRow == {"publish", "reserve", "importing"}
OwnRow ==
    /\ \A a \in Askers :
        /\ asker[a].pc \in OfRow => asker[a].row \in 1 .. Len(book)
        /\ asker[a].pc \in OfWaiting => Waiting(book[asker[a].row])
        /\ asker[a].pc = "importing" => Imports(book[asker[a].row])
        /\ asker[a].pc \in OfRow /\ sweep.pc = "publish" => asker[a].row # sweep.row
    /\ \A a, b \in Askers :
        asker[a].pc \in OfRow /\ asker[b].pc \in OfRow /\ asker[a].row = asker[b].row => a = b
    /\ sweep.pc = "publish" => sweep.row \in 1 .. Len(book) /\ Waiting(book[sweep.row])

\* A retry has a job to take its engines from.
Retried(b, p) ==
    \E i \in 1 .. Len(b) : b[i].of = p /\ b[i].action = "sample" /\ b[i].status \in {"failed", "canceled"}
RetriesEnded ==
    \A a \in Askers :
        asker[a].pc = "checked" /\ asker[a].kind = "retry" => Retried(book, asker[a].of)

QuotaForm == QuotaTypes /\ TenantHeld /\ OwnRow /\ RetriesEnded

\* What a trial was admitted to, and the room an import that was checked has.
Admits(row) == row.gated /\ CountedRow(row) /\ RowSampled(row)
Admitted(b, ps) == {i \in 1 .. Len(b) : b[i].of \in ps /\ Admits(b[i])}
ImportRoom ==
    \A a \in Askers : asker[a].pc = "checked" /\ asker[a].kind = "import" /\ OnTrial =>
        /\ Cardinality(Admitted(book, {asker[a].of})) < PerProject
        /\ Cardinality(Admitted(book, Slugs)) < LifetimeLimit

\* The room for a project that was checked.
ProjectRoom ==
    \A a \in Askers : asker[a].pc = "creating" =>
        tenant.plan # "expired" /\ Cardinality(Open(places)) < ProjectLimit[tenant.plan]

\* The days of the retests that were or may still be run are done; until the sweep
\* has published one, it can put back the days that were done before.
Live(row) == row.status # "failed" \/ row.started
DaysDone ==
    \A i \in 1 .. Len(book) :
        Live(book[i]) /\ book[i].day # 0 => book[i].day \in places[book[i].of].done
PutBack ==
    sweep.pc = "publish" =>
        /\ places[book[sweep.row].of].done = sweep.done \cup {book[sweep.row].day}
        /\ book[sweep.row].day \notin sweep.done

-----------------------------------------------------------------------------
(* Quotas: rows and allowances.                                            *)

LEMMA PoolIsFinite ==
    ASSUME NEW pool
    PROVE  PoolCodes(pool) \in SUBSET Codes /\ IsFiniteSet(PoolCodes(pool))
<1>1. Catalog \in Seq(Codes)
  BY QuotasAssumption
<1>2. ToSet(Catalog) \subseteq Codes
  BY <1>1 DEF ToSet
<1>3. IsFiniteSet(ToSet(Catalog))
  <2> DEFINE f == [i \in DOMAIN Catalog |-> Catalog[i]]
  <2>1. IsFiniteSet(DOMAIN Catalog)
    BY <1>1, FS_Interval, LenProperties
  <2>2. ToSet(Catalog) = {f[i] : i \in DOMAIN Catalog}
    BY DEF ToSet
  <2>3. f \in Surjection(DOMAIN Catalog, ToSet(Catalog))
    BY <2>2 DEF Surjection, ToSet
  <2>4. QED
    BY <2>1, <2>3, FS_Surjection
<1>4. PoolCodes(pool) \subseteq ToSet(Catalog)
  BY DEF PoolCodes
<1>5. QED
  BY <1>2, <1>3, <1>4, FS_Subset

LEMMA CostIsNat ==
    ASSUME NEW codes \in SUBSET Codes, IsFiniteSet(codes)
    PROVE  CostOf(codes) \in Nat
<1> DEFINE f == [c \in Codes |-> Asks[c] * Rounds * Price[c]]
<1>1. \A c \in codes : f[c] \in Nat
  <2>1. ASSUME NEW c \in codes PROVE Asks[c] \in Nat /\ Rounds \in Nat /\ Price[c] \in Nat
    BY QuotasAssumption
  <2>2. QED
    BY <2>1
<1>2. SumFunctionOnSet(f, codes) \in Nat
  <2> HIDE DEF f
  <2> QED BY <1>1, SumIsNat
<1>3. QED
  BY <1>2 DEF CostOf

LEMMA EstimateIsNat ==
    ASSUME NEW p, NEW pool, NEW platforms \in SUBSET Codes
    PROVE  Estimate(p, pool, platforms).cost \in Nat
<1>1. /\ platforms \cap PoolCodes(pool) \in SUBSET Codes
      /\ IsFiniteSet(platforms \cap PoolCodes(pool))
  <2>1. platforms \cap PoolCodes(pool) \subseteq PoolCodes(pool)
    OBVIOUS
  <2>2. QED
    BY <2>1, PoolIsFinite, FS_Subset
<1>2. CostOf(platforms \cap PoolCodes(pool)) \in Nat
  BY <1>1, CostIsNat
<1>3. QED
  BY <1>2 DEF Estimate

LEMMA BlankIsRow ==
    ASSUME NEW p \in Slugs, NEW action \in Actions
    PROVE  Blank(p, action) \in JobRow
  BY DEF Blank, JobRow

LEMMA GatedIsRow ==
    ASSUME NEW row \in JobRow
    PROVE  Gated(row) \in JobRow
<1>1. OnTrial \in BOOLEAN
  BY DEF OnTrial
<1>2. QED
  BY <1>1 DEF Gated, JobRow

LEMMA FailedIsRow ==
    ASSUME NEW row \in JobRow
    PROVE  Failed(row) \in JobRow
  BY DEF Failed, JobRow

LEMMA ReservingIsRow ==
    ASSUME NEW row \in JobRow, NEW pool, NEW platforms \in SUBSET Codes
    PROVE  Reserving(row, pool, platforms) \in JobRow
<1>1. Estimate(row.of, pool, platforms).cost \in Nat
  BY EstimateIsNat
<1> DEFINE n == Estimate(row.of, pool, platforms).cost
<1>2. n \in Nat /\ (n > 0) \in BOOLEAN
  BY <1>1
<1>3. Reserving(row, pool, platforms)
        = [row EXCEPT !.platforms = platforms, !.cost = n, !.holds = n > 0]
  BY DEF Reserving
<1> HIDE DEF n
<1>4. QED
  BY <1>2, <1>3 DEF JobRow

\* The rows a request admits are finitely many.
LEMMA AdmittedFinite ==
    ASSUME NEW b, Len(b) \in Nat, NEW ps
    PROVE  IsFiniteSet(Admitted(b, ps)) /\ Cardinality(Admitted(b, ps)) \in Nat
<1>1. IsFiniteSet(1 .. Len(b))
  BY FS_Interval
<1>2. Admitted(b, ps) \subseteq 1 .. Len(b)
  BY DEF Admitted
<1>3. QED
  BY <1>1, <1>2, FS_Subset, FS_CardinalityType

\* What a step may make of a row: it is not admitted or revived by it.
Fades(row, new) ==
    /\ new \in JobRow /\ new.of = row.of /\ new.day = row.day
    /\ Admits(new) => Admits(row)
    /\ Live(new) => Live(row)
    /\ row.action = "sample" /\ row.status \in {"failed", "canceled"} =>
          new.action = "sample" /\ new.status \in {"failed", "canceled"}
RowMoves(i, new) ==
    i \in 1 .. Len(book) /\ Fades(book[i], new) /\ book' = [book EXCEPT ![i] = new]
RowAdded(row) == row \in JobRow /\ book' = Append(book, row)

LEMMA MovedBook ==
    ASSUME NEW b \in Seq(JobRow), NEW c, NEW i \in 1 .. Len(b), NEW new \in JobRow,
           c = [b EXCEPT ![i] = new]
    PROVE  /\ c \in Seq(JobRow) /\ Len(c) = Len(b) /\ c[i] = new
           /\ \A j \in 1 .. Len(b) : j # i => c[j] = b[j]
<1>1. Len(b) \in Nat /\ b \in [1 .. Len(b) -> JobRow]
  BY LenProperties
<1>2. c \in [1 .. Len(b) -> JobRow] /\ c[i] = new /\ \A j \in 1 .. Len(b) : j # i => c[j] = b[j]
  BY <1>1
<1>3. c \in Seq(JobRow) /\ Len(c) = Len(b)
  BY <1>1, <1>2, SeqOfFunction
<1>4. QED
  BY <1>2, <1>3

LEMMA AddedBook ==
    ASSUME NEW b \in Seq(JobRow), NEW c, NEW row \in JobRow, c = Append(b, row)
    PROVE  /\ c \in Seq(JobRow) /\ Len(c) = Len(b) + 1 /\ c[Len(c)] = row
           /\ \A j \in 1 .. Len(b) : c[j] = b[j] /\ j # Len(c)
<1>1. Len(b) \in Nat
  BY LenProperties
<1>2. QED
  BY <1>1, AppendProperties

LEMMA AdmittedLess ==
    ASSUME NEW b, NEW c, NEW ps, Len(b) \in Nat, Len(c) = Len(b),
           \A i \in 1 .. Len(b) : c[i].of = b[i].of /\ (Admits(c[i]) => Admits(b[i]))
    PROVE  Cardinality(Admitted(c, ps)) <= Cardinality(Admitted(b, ps))
<1>1. Admitted(c, ps) \subseteq Admitted(b, ps)
  BY DEF Admitted
<1>2. QED
  BY <1>1, AdmittedFinite, FS_Subset

LEMMA AdmittedMore ==
    ASSUME NEW b \in Seq(JobRow), NEW c, NEW ps, NEW row \in JobRow, c = Append(b, row)
    PROVE  /\ Cardinality(Admitted(c, ps)) <= Cardinality(Admitted(b, ps)) + 1
           /\ ~Admits(row) => Cardinality(Admitted(c, ps)) <= Cardinality(Admitted(b, ps))
           /\ row.of \notin ps => Cardinality(Admitted(c, ps)) <= Cardinality(Admitted(b, ps))
<1>1. /\ Len(b) \in Nat /\ Len(c) = Len(b) + 1 /\ c[Len(c)] = row
      /\ \A j \in 1 .. Len(b) : c[j] = b[j]
  BY LenProperties, AddedBook
<1> DEFINE A == Admitted(b, ps)
           B == Admitted(c, ps)
<1>2. B \subseteq A \cup {Len(c)}
  BY <1>1 DEF Admitted
<1>3. IsFiniteSet(A) /\ Cardinality(A) \in Nat /\ IsFiniteSet(B) /\ Cardinality(B) \in Nat
  BY <1>1, AdmittedFinite
<1>4. Len(c) \notin A
  BY <1>1 DEF Admitted
<1>5. IsFiniteSet(A \cup {Len(c)}) /\ Cardinality(A \cup {Len(c)}) = Cardinality(A) + 1
  <2> HIDE DEF A
  <2> QED BY <1>3, <1>4, FS_AddElement
<1>6. Cardinality(B) <= Cardinality(A \cup {Len(c)})
  <2> HIDE DEF A, B
  <2> QED BY <1>2, <1>5, FS_Subset
<1>7. ASSUME ~(Len(c) \in B) PROVE Cardinality(B) <= Cardinality(A)
  <2>1. B \subseteq A
    BY <1>2, <1>7
  <2> HIDE DEF A, B
  <2>2. QED
    BY <2>1, <1>3, FS_Subset
<1>8. ~Admits(row) \/ row.of \notin ps => ~(Len(c) \in B)
  BY <1>1 DEF Admitted
<1>9. QED
  BY <1>3, <1>5, <1>6, <1>7, <1>8

\* Who may sample has room: what was admitted is counted.
LEMMA MaySampleRoom ==
    ASSUME NEW p, QuotaTypes, OnTrial, MaySample(p)
    PROVE  /\ Cardinality(Admitted(book, {p})) < PerProject
           /\ Cardinality(Admitted(book, Slugs)) < LifetimeLimit
<1>1. Len(book) \in Nat /\ DOMAIN book = 1 .. Len(book)
  BY LenProperties DEF QuotaTypes
<1> DEFINE One == {i \in DOMAIN book : book[i].of = p /\ CountedRow(book[i]) /\ RowSampled(book[i])}
           All == {i \in DOMAIN book : CountedRow(book[i]) /\ RowSampled(book[i])}
<1>2. IsFiniteSet(One) /\ IsFiniteSet(All)
  <2>1. IsFiniteSet(1 .. Len(book))
    BY <1>1, FS_Interval
  <2>2. One \subseteq 1 .. Len(book) /\ All \subseteq 1 .. Len(book)
    BY <1>1
  <2> HIDE DEF One, All
  <2>3. QED
    BY <2>1, <2>2, FS_Subset
<1>3. Cardinality(One) < PerProject /\ Cardinality(All) < LifetimeLimit
  BY DEF MaySample, Counted, CountedInAll
<1>4. Admitted(book, {p}) \subseteq One /\ Admitted(book, Slugs) \subseteq All
  BY <1>1 DEF Admitted, Admits
<1>5. /\ Cardinality(Admitted(book, {p})) <= Cardinality(One)
      /\ Cardinality(Admitted(book, Slugs)) <= Cardinality(All)
  <2> HIDE DEF One, All
  <2> QED BY <1>2, <1>4, FS_Subset
<1>6. /\ Cardinality(One) \in Nat /\ Cardinality(All) \in Nat
      /\ Cardinality(Admitted(book, {p})) \in Nat /\ Cardinality(Admitted(book, Slugs)) \in Nat
  <2> HIDE DEF One, All
  <2> QED BY <1>1, <1>2, AdmittedFinite, FS_CardinalityType
<1>7. PerProject \in Nat /\ LifetimeLimit \in Nat
  BY QuotasAssumption DEF LifetimeLimit
<1> HIDE DEF One, All
<1>8. QED
  BY <1>3, <1>5, <1>6, <1>7

-----------------------------------------------------------------------------
(* Quotas: the form of the state.                                          *)

RestTypes ==
    /\ tenant \in Plans /\ today \in Nat /\ places \in [Slugs -> Place]
    /\ spent \in [Slugs -> Nat] /\ customer \in Customer

\* A step that leaves the rows alone.
LEMMA FormSame ==
    ASSUME QuotaForm, RestTypes', book' = book, sweep' = sweep,
           tenantRow' \in Askers \cup {Nobody}, asker' \in [Askers -> Asker], TenantHeld',
           \A a \in Askers :
               \/ asker'[a] = asker[a]
               \/ asker'[a].pc \notin OfRow /\ (asker'[a].pc = "checked" /\ asker'[a].kind = "retry"
                                                  => Retried(book, asker'[a].of))
    PROVE  QuotaForm'
<1>1. QuotaTypes'
  BY DEF QuotaForm, QuotaTypes, RestTypes
<1>2. OwnRow'
  <2>1. OfWaiting \subseteq OfRow /\ "importing" \in OfRow
    BY DEF OfWaiting, OfRow
  <2>2. \A a \in Askers : asker'[a].pc \in OfRow => asker'[a] = asker[a]
    OBVIOUS
  <2>3. OwnRow
    BY DEF QuotaForm
  <2>4. QED
    BY <2>1, <2>2, <2>3 DEF OwnRow
<1>3. RetriesEnded'
  BY DEF QuotaForm, RetriesEnded
<1>4. QED
  BY <1>1, <1>2, <1>3 DEF QuotaForm

LEMMA RetriedStays ==
    ASSUME NEW b, NEW c, NEW p, Retried(b, p), Len(b) \in Nat, Len(c) \in Nat, Len(b) <= Len(c),
           \A i \in 1 .. Len(b) :
               b[i].action = "sample" /\ b[i].status \in {"failed", "canceled"}
                 => /\ c[i].of = b[i].of
                    /\ c[i].action = "sample" /\ c[i].status \in {"failed", "canceled"}
    PROVE  Retried(c, p)
<1>1. PICK i \in 1 .. Len(b) : /\ b[i].of = p /\ b[i].action = "sample"
                               /\ b[i].status \in {"failed", "canceled"}
  BY DEF Retried
<1>2. i \in 1 .. Len(c)
  OBVIOUS
<1>3. QED
  BY <1>1, <1>2 DEF Retried

\* A step that changes a row, and may release it.
LEMMA FormMoved ==
    ASSUME QuotaForm, RestTypes', NEW i, NEW new, RowMoves(i, new),
           tenantRow' = tenantRow, asker' \in [Askers -> Asker], sweep' \in Sweeper,
           \A a \in Askers :
               \/ asker'[a] = asker[a]
               \/ asker'[a].pc = "idle"
               \/ asker[a].pc = "reserve" /\ asker'[a] = [asker[a] EXCEPT !.pc = "publish"],
           \A a \in Askers : asker'[a].pc \in OfRow /\ asker[a].row = i =>
               (Waiting(book[i]) => Waiting(new)) /\ (Imports(book[i]) => Imports(new)),
           sweep'.pc = "publish" =>
               sweep' = sweep /\ (sweep.row = i => (Waiting(book[i]) => Waiting(new)))
    PROVE  QuotaForm'
<1>1. /\ book' \in Seq(JobRow) /\ Len(book') = Len(book) /\ Len(book) \in Nat
      /\ i \in 1 .. Len(book) /\ book'[i] = new
      /\ \A j \in 1 .. Len(book) : j # i => book'[j] = book[j]
  <2>1. i \in 1 .. Len(book) /\ new \in JobRow /\ book' = [book EXCEPT ![i] = new]
    BY DEF RowMoves, Fades
  <2>2. book \in Seq(JobRow)
    BY DEF QuotaForm, QuotaTypes
  <2>3. QED
    BY <2>1, <2>2, MovedBook, LenProperties
<1>2. QuotaTypes'
  BY <1>1 DEF QuotaForm, QuotaTypes, RestTypes
<1>3. ASSUME NEW a \in Askers
      PROVE  /\ asker'[a].pc # "idle" => asker[a].pc # "idle" /\ asker'[a].of = asker[a].of
             /\ asker'[a].pc \in HoldsTenant => asker[a].pc \in HoldsTenant
             /\ asker'[a].pc \in OfRow => asker[a].pc \in OfRow /\ asker'[a].row = asker[a].row
             /\ asker'[a].pc \in OfWaiting => asker[a].pc \in OfWaiting
             /\ asker'[a].pc = "importing" => asker[a].pc = "importing"
             /\ asker'[a].pc = "checked" => asker'[a] = asker[a]
  <2>1. asker[a] \in Asker
    BY DEF QuotaForm, QuotaTypes
  <2>2. QED
    BY <2>1 DEF Asker, HoldsTenant, OfRow, OfWaiting
<1>4. TenantHeld'
  BY <1>3 DEF QuotaForm, TenantHeld
<1>5. OwnRow'
  <2>1. ASSUME NEW a \in Askers
        PROVE  /\ asker'[a].pc \in OfRow => asker'[a].row \in 1 .. Len(book')
               /\ asker'[a].pc \in OfWaiting => Waiting(book'[asker'[a].row])
               /\ asker'[a].pc = "importing" => Imports(book'[asker'[a].row])
               /\ asker'[a].pc \in OfRow /\ sweep'.pc = "publish" => asker'[a].row # sweep'.row
    <3>1. /\ asker[a].pc \in OfRow => asker[a].row \in 1 .. Len(book)
          /\ asker[a].pc \in OfWaiting => Waiting(book[asker[a].row])
          /\ asker[a].pc = "importing" => Imports(book[asker[a].row])
          /\ asker[a].pc \in OfRow /\ sweep.pc = "publish" => asker[a].row # sweep.row
      BY DEF QuotaForm, OwnRow
    <3>2. OfWaiting \subseteq OfRow /\ "importing" \in OfRow
      BY DEF OfWaiting, OfRow
    <3>3. QED
      BY <1>1, <1>3, <3>1, <3>2
  <2>2. ASSUME NEW a \in Askers, NEW b \in Askers, asker'[a].pc \in OfRow, asker'[b].pc \in OfRow,
               asker'[a].row = asker'[b].row
        PROVE  a = b
    BY <1>3, <2>2 DEF QuotaForm, OwnRow
  <2>3. sweep'.pc = "publish" => sweep'.row \in 1 .. Len(book') /\ Waiting(book'[sweep'.row])
    BY <1>1 DEF QuotaForm, OwnRow
  <2>4. QED
    BY <2>1, <2>2, <2>3 DEF OwnRow
<1>6. RetriesEnded'
  <2>1. \A j \in 1 .. Len(book) :
            book[j].action = "sample" /\ book[j].status \in {"failed", "canceled"}
              => /\ book'[j].of = book[j].of
                 /\ book'[j].action = "sample" /\ book'[j].status \in {"failed", "canceled"}
    BY <1>1 DEF RowMoves, Fades
  <2>2. ASSUME NEW a \in Askers, asker'[a].pc = "checked", asker'[a].kind = "retry"
        PROVE  Retried(book', asker'[a].of)
    <3>1. asker'[a] = asker[a]
      BY <1>3, <2>2
    <3>2. Retried(book, asker[a].of)
      BY <2>2, <3>1 DEF QuotaForm, RetriesEnded
    <3>3. QED
      BY <1>1, <2>1, <3>1, <3>2, RetriedStays
  <2>3. QED
    BY <2>2 DEF RetriesEnded
<1>7. QED
  BY <1>2, <1>4, <1>5, <1>6 DEF QuotaForm

\* A step that adds a row, which is one request's or the sweep's.
GivenRow(a, row) ==
    /\ asker'[a].pc \in OfRow /\ asker'[a].row = Len(book) + 1
    /\ asker'[a].pc \in OfWaiting => Waiting(row)
    /\ asker'[a].pc = "importing" => Imports(row)
LEMMA FormAdded ==
    ASSUME QuotaForm, RestTypes', NEW row, RowAdded(row),
           tenantRow' \in Askers \cup {Nobody}, asker' \in [Askers -> Asker], TenantHeld',
           \/ /\ sweep' = sweep
              /\ \E a \in Askers : GivenRow(a, row) /\ \A b \in Askers \ {a} : asker'[b] = asker[b]
           \/ /\ sweep' \in Sweeper /\ sweep'.row = Len(book) + 1 /\ Waiting(row)
              /\ asker' = asker
    PROVE  QuotaForm'
<1>1. /\ book' \in Seq(JobRow) /\ Len(book') = Len(book) + 1 /\ Len(book) \in Nat
      /\ book'[Len(book) + 1] = row
      /\ \A j \in 1 .. Len(book) : book'[j] = book[j] /\ j # Len(book) + 1
  <2>1. row \in JobRow /\ book' = Append(book, row)
    BY DEF RowAdded
  <2>2. book \in Seq(JobRow)
    BY DEF QuotaForm, QuotaTypes
  <2>3. QED
    BY <2>1, <2>2, AddedBook, LenProperties
<1>2. QuotaTypes'
  BY <1>1 DEF QuotaForm, QuotaTypes, RestTypes
<1>3. \A a \in Askers : asker'[a] = asker[a] \/ GivenRow(a, row)
  OBVIOUS
<1>4. OwnRow'
  <2>0. OfWaiting \subseteq OfRow /\ "importing" \in OfRow
    BY DEF OfWaiting, OfRow
  <2>1. ASSUME NEW a \in Askers
        PROVE  /\ asker'[a].pc \in OfRow => asker'[a].row \in 1 .. Len(book')
               /\ asker'[a].pc \in OfWaiting => Waiting(book'[asker'[a].row])
               /\ asker'[a].pc = "importing" => Imports(book'[asker'[a].row])
               /\ asker'[a].pc \in OfRow /\ sweep'.pc = "publish" => asker'[a].row # sweep'.row
    <3>1. /\ asker[a].pc \in OfRow => asker[a].row \in 1 .. Len(book)
          /\ asker[a].pc \in OfWaiting => Waiting(book[asker[a].row])
          /\ asker[a].pc = "importing" => Imports(book[asker[a].row])
          /\ asker[a].pc \in OfRow /\ sweep.pc = "publish" => asker[a].row # sweep.row
          /\ sweep.pc = "publish" => sweep.row \in 1 .. Len(book)
      BY DEF QuotaForm, OwnRow
    <3>2. QED
      BY <1>1, <1>3, <2>0, <3>1 DEF GivenRow
  <2>2. ASSUME NEW a \in Askers, NEW b \in Askers, asker'[a].pc \in OfRow, asker'[b].pc \in OfRow,
               asker'[a].row = asker'[b].row
        PROVE  a = b
    <3>1. /\ asker[a].pc \in OfRow => asker[a].row \in 1 .. Len(book)
          /\ asker[b].pc \in OfRow => asker[b].row \in 1 .. Len(book)
          /\ asker[a].pc \in OfRow /\ asker[b].pc \in OfRow /\ asker[a].row = asker[b].row => a = b
      BY DEF QuotaForm, OwnRow
    <3>2. QED
      BY <1>1, <2>2, <3>1 DEF GivenRow
  <2>3. sweep'.pc = "publish" => sweep'.row \in 1 .. Len(book') /\ Waiting(book'[sweep'.row])
    <3>1. sweep.pc = "publish" => sweep.row \in 1 .. Len(book) /\ Waiting(book[sweep.row])
      BY DEF QuotaForm, OwnRow
    <3>2. QED
      BY <1>1, <3>1
  <2>4. QED
    BY <2>1, <2>2, <2>3 DEF OwnRow
<1>5. RetriesEnded'
  <2>1. ASSUME NEW a \in Askers, asker'[a].pc = "checked", asker'[a].kind = "retry"
        PROVE  Retried(book', asker'[a].of)
    <3>1. asker'[a] = asker[a]
      BY <1>3, <2>1 DEF GivenRow, OfRow
    <3>2. Retried(book, asker[a].of)
      BY <2>1, <3>1 DEF QuotaForm, RetriesEnded
    <3>3. QED
      BY <1>1, <3>1, <3>2, RetriedStays
  <2>2. QED
    BY <2>1 DEF RetriesEnded
<1>6. QED
  BY <1>2, <1>4, <1>5 DEF QuotaForm

-----------------------------------------------------------------------------
(* Quotas: what each step makes of the rows.                               *)

LEMMA RowTyped ==
    ASSUME QuotaForm, NEW i \in 1 .. Len(book)
    PROVE  book[i] \in JobRow
<1>1. book \in Seq(JobRow)
  BY DEF QuotaForm, QuotaTypes
<1>2. book \in [1 .. Len(book) -> JobRow]
  BY <1>1, LenProperties
<1>3. QED
  BY <1>2

LEMMA FadesSent ==
    ASSUME NEW row \in JobRow
    PROVE  Fades(row, [row EXCEPT !.sent = TRUE])
  BY DEF Fades, JobRow, Admits, CountedRow, RowSampled, Live

LEMMA FadesFailed ==
    ASSUME NEW row \in JobRow, row.status \in {"queued", "running"} \/ Waiting(row)
    PROVE  Fades(row, Failed(row))
<1>1. Failed(row) \in JobRow
  BY FailedIsRow
<1>2. /\ Failed(row).of = row.of /\ Failed(row).day = row.day /\ Failed(row).status = "failed"
      /\ Failed(row).started = row.started /\ Failed(row).action = row.action
      /\ Failed(row).gated = row.gated /\ Failed(row).samples = row.samples
  BY DEF Failed, JobRow
<1>3. QED
  BY <1>1, <1>2 DEF Fades, Waiting, Admits, CountedRow, RowSampled, Live

LEMMA FadesReserving ==
    ASSUME NEW row \in JobRow, NEW pool, NEW platforms \in SUBSET Codes, Waiting(row)
    PROVE  /\ Fades(row, Reserving(row, pool, platforms))
           /\ Waiting(Reserving(row, pool, platforms))
           /\ Reserving(row, pool, platforms).action = row.action
<1> DEFINE new == Reserving(row, pool, platforms)
<1>1. new \in JobRow
  BY ReservingIsRow
<1>2. /\ new.of = row.of /\ new.day = row.day /\ new.status = row.status
      /\ new.started = row.started /\ new.action = row.action /\ new.sent = row.sent
      /\ new.gated = row.gated /\ new.samples = row.samples
  BY DEF Reserving, JobRow
<1> HIDE DEF new
<1>3. Fades(row, new) /\ Waiting(new)
  BY <1>1, <1>2 DEF Fades, Waiting, Admits, CountedRow, RowSampled, Live
<1>4. QED
  BY <1>2, <1>3 DEF new

LEMMA NotAskingTyped == NotAsking \in Asker /\ NotAsking.pc = "idle"
BY DEF NotAsking, Asker, Kinds

LEMMA FundedInCodes == ASSUME QuotaForm, NEW pool PROVE Funded(pool) \in SUBSET Codes
<1>1. customer.keys \in SUBSET Codes
  BY DEF QuotaForm, QuotaTypes, Customer
<1>2. QED
  BY <1>1, PoolIsFinite DEF Funded

\* The day and the failures of a customer that are left.
LEMMA FewerOf ==
    ASSUME QuotaForm
    PROVE  /\ Unsent => customer' \in Customer
           /\ Asked => customer' \in Customer
           /\ customer.days > 0 => [customer EXCEPT !.days = @ - 1] \in Customer
<1>1. /\ customer \in Customer /\ customer.failures \in Nat /\ customer.requests \in Nat
      /\ customer.days \in Nat
  BY DEF QuotaForm, QuotaTypes, Customer
<1>2. ASSUME Unsent PROVE customer' \in Customer
  <2>1. customer.failures - 1 \in Nat
    BY <1>1, <1>2 DEF Unsent
  <2>2. customer' = [customer EXCEPT !.failures = customer.failures - 1]
    BY <1>2 DEF Unsent
  <2>3. QED
    BY <1>1, <2>1, <2>2 DEF Customer
<1>3. ASSUME Asked PROVE customer' \in Customer
  <2>1. customer.requests - 1 \in Nat
    BY <1>1, <1>3 DEF Asked
  <2>2. customer' = [customer EXCEPT !.requests = customer.requests - 1]
    BY <1>3 DEF Asked
  <2>3. QED
    BY <1>1, <2>1, <2>2 DEF Customer
<1>4. ASSUME customer.days > 0 PROVE [customer EXCEPT !.days = @ - 1] \in Customer
  <2>1. customer.days - 1 \in Nat
    BY <1>1, <1>4
  <2>2. QED
    BY <1>1, <2>1 DEF Customer
<1>5. QED
  BY <1>2, <1>3, <1>4

LEMMA PublishForm ==
    ASSUME QuotaForm, NEW a \in Askers, Publish(a)
    PROVE  QuotaForm' /\ \E i, new : RowMoves(i, new)
<1> DEFINE r == asker[a].row
<1>1. r \in 1 .. Len(book) /\ Waiting(book[r]) /\ asker[a].pc \in OfRow
  BY DEF Publish, QuotaForm, OwnRow, OfRow, OfWaiting
<1>2. book[r] \in JobRow
  BY <1>1, RowTyped
<1>3. PICK new : Fades(book[r], new) /\ book' = [book EXCEPT ![r] = new]
  <2>1. CASE book' = [book EXCEPT ![r].sent = TRUE]
    BY <1>2, <2>1, FadesSent
  <2>2. CASE book' = [book EXCEPT ![r] = Failed(@)]
    BY <1>1, <1>2, <2>2, FadesFailed
  <2>3. QED
    BY <2>1, <2>2 DEF Publish
<1>4. RowMoves(r, new)
  BY <1>1, <1>3 DEF RowMoves
<1>5. asker' = [asker EXCEPT ![a] = NotAsking] /\ asker \in [Askers -> Asker]
  BY DEF Publish, Goes, QuotaForm, QuotaTypes
<1>6. asker' \in [Askers -> Asker] /\ asker'[a].pc = "idle" /\ \A b \in Askers : b # a => asker'[b] = asker[b]
  BY <1>5, NotAskingTyped
<1>7. RestTypes'
  BY FewerOf DEF Publish, RestTypes, QuotaForm, QuotaTypes
<1>8. \A b \in Askers : asker'[b].pc \in OfRow => asker[b].row # r
  BY <1>1, <1>6 DEF QuotaForm, OwnRow, OfRow
<1>9. sweep' = sweep /\ tenantRow' = tenantRow /\ sweep \in Sweeper
  BY DEF Publish, QuotaForm, QuotaTypes
<1>10. sweep.pc = "publish" => sweep.row # r
  BY <1>1 DEF QuotaForm, OwnRow
<1> HIDE DEF r
<1>11. QuotaForm'
  BY <1>4, <1>6, <1>7, <1>8, <1>9, <1>10, FormMoved
<1>12. QED
  BY <1>4, <1>11

LEMMA EndImportForm ==
    ASSUME QuotaForm, NEW a \in Askers, EndImport(a)
    PROVE  QuotaForm' /\ \E i, new : RowMoves(i, new)
<1> DEFINE r == asker[a].row
<1>1. r \in 1 .. Len(book) /\ Imports(book[r]) /\ asker[a].pc \in OfRow
  BY DEF EndImport, QuotaForm, OwnRow, OfRow
<1>2. book[r] \in JobRow
  BY <1>1, RowTyped
<1>3. PICK some \in BOOLEAN, status \in {"done", "deleted"} :
          book' = [book EXCEPT ![asker[a].row].status = status, ![asker[a].row].samples = some]
  BY DEF EndImport
<1> DEFINE new == [book[r] EXCEPT !.status = status, !.samples = some]
<1>4. book' = [book EXCEPT ![r] = new]
  BY <1>1, <1>2, <1>3 DEF JobRow
<1>5. Fades(book[r], new)
  <2>1. new \in JobRow /\ new.of = book[r].of /\ new.day = book[r].day /\ new.gated = book[r].gated
        /\ new.action = book[r].action
    BY <1>2 DEF JobRow
  <2>2. book[r].status = "running" /\ book[r].action = "sample-import" /\ book[r].samples
    BY <1>1 DEF Imports
  <2> HIDE DEF new
  <2>3. QED
    BY <2>1, <2>2 DEF Fades, Admits, CountedRow, RowSampled, Live
<1> HIDE DEF new
<1>6. RowMoves(r, new)
  BY <1>1, <1>4, <1>5 DEF RowMoves
<1>7. asker' = [asker EXCEPT ![a] = NotAsking] /\ asker \in [Askers -> Asker]
  BY DEF EndImport, Goes, QuotaForm, QuotaTypes
<1>8. asker' \in [Askers -> Asker] /\ asker'[a].pc = "idle" /\ \A b \in Askers : b # a => asker'[b] = asker[b]
  BY <1>7, NotAskingTyped
<1>9. RestTypes'
  BY DEF EndImport, RestTypes, QuotaForm, QuotaTypes
<1>10. \A b \in Askers : asker'[b].pc \in OfRow => asker[b].row # r
  BY <1>1, <1>8 DEF QuotaForm, OwnRow, OfRow
<1>11. sweep' = sweep /\ tenantRow' = tenantRow /\ sweep \in Sweeper
  BY DEF EndImport, QuotaForm, QuotaTypes
<1>12. sweep.pc = "publish" => sweep.row # r
  BY <1>1 DEF QuotaForm, OwnRow
<1> HIDE DEF r
<1>13. QuotaForm'
  BY <1>6, <1>8, <1>9, <1>10, <1>11, <1>12, FormMoved
<1>14. QED
  BY <1>6, <1>13

LEMMA CreateReserveForm ==
    ASSUME QuotaForm, NEW a \in Askers, CreateReserve(a)
    PROVE  QuotaForm' /\ \E i, new : RowMoves(i, new)
<1> DEFINE r == asker[a].row
           platforms == Funded(places[asker[a].of].pool)
           pool == places[asker[a].of].pool
<1>1. r \in 1 .. Len(book) /\ Waiting(book[r]) /\ asker[a].pc = "reserve" /\ asker[a].pc \in OfRow
  BY DEF CreateReserve, QuotaForm, OwnRow, OfRow, OfWaiting
<1>2. book[r] \in JobRow /\ platforms \in SUBSET Codes
  BY <1>1, RowTyped, FundedInCodes
<1>3. asker \in [Askers -> Asker]
  BY DEF QuotaForm, QuotaTypes
<1>4. PICK new : /\ Fades(book[r], new) /\ book' = [book EXCEPT ![r] = new]
                 /\ asker' \in [Askers -> Asker]
                 /\ \/ Waiting(new) /\ asker'[a] = [asker[a] EXCEPT !.pc = "publish"]
                    \/ asker'[a].pc = "idle"
                 /\ \A b \in Askers : b # a => asker'[b] = asker[b]
  <2>1. CASE /\ book' = [book EXCEPT ![r] = Reserving(book[r], pool, platforms)]
             /\ Goes(a, [asker[a] EXCEPT !.pc = "publish"])
    <3>1. Fades(book[r], Reserving(book[r], pool, platforms))
          /\ Waiting(Reserving(book[r], pool, platforms))
      <4> HIDE DEF platforms, pool, r
      <4> QED BY <1>1, <1>2, FadesReserving
    <3>2. [asker[a] EXCEPT !.pc = "publish"] \in Asker
      BY <1>3 DEF Asker
    <3>3. asker' = [asker EXCEPT ![a] = [asker[a] EXCEPT !.pc = "publish"]]
      BY <2>1 DEF Goes
    <3>4. QED
      BY <1>3, <2>1, <3>1, <3>2, <3>3
  <2>2. CASE book' = [book EXCEPT ![r] = Failed(book[r])] /\ Goes(a, NotAsking)
    <3>1. Fades(book[r], Failed(book[r]))
      BY <1>1, <1>2, FadesFailed
    <3>2. asker' = [asker EXCEPT ![a] = NotAsking]
      BY <2>2 DEF Goes
    <3>3. QED
      BY <1>3, <2>2, <3>1, <3>2, NotAskingTyped
  <2>3. QED
    BY <2>1, <2>2 DEF CreateReserve
<1>5. RowMoves(r, new)
  BY <1>1, <1>4 DEF RowMoves
<1>6. RestTypes'
  BY DEF CreateReserve, RestTypes, QuotaForm, QuotaTypes
<1>7. \A b \in Askers : b # a /\ asker'[b].pc \in OfRow => asker[b].row # r
  BY <1>1, <1>4 DEF QuotaForm, OwnRow
<1>8. sweep' = sweep /\ tenantRow' = tenantRow /\ sweep \in Sweeper
  BY DEF CreateReserve, QuotaForm, QuotaTypes
<1>9. sweep.pc = "publish" => sweep.row # r
  BY <1>1 DEF QuotaForm, OwnRow
<1>10. \A b \in Askers : asker'[b].pc \in OfRow /\ asker[b].row = r =>
           (Waiting(book[r]) => Waiting(new)) /\ (Imports(book[r]) => Imports(new))
  <2>1. ~Imports(book[r])
    BY <1>1 DEF Waiting, Imports
  <2>2. "idle" \notin OfRow
    BY DEF OfRow
  <2>3. QED
    BY <1>4, <1>7, <2>1, <2>2
<1>11. \A b \in Askers :
           \/ asker'[b] = asker[b]
           \/ asker'[b].pc = "idle"
           \/ asker[b].pc = "reserve" /\ asker'[b] = [asker[b] EXCEPT !.pc = "publish"]
  BY <1>1, <1>4
<1> HIDE DEF r, platforms, pool
<1>12. QuotaForm'
  BY <1>4, <1>5, <1>6, <1>8, <1>9, <1>10, <1>11, FormMoved
<1>13. QED
  BY <1>5, <1>12

\* A step of a worker, or of someone who cancels.
LEMMA WorkerForm ==
    ASSUME QuotaForm, NEW i \in DOMAIN book, Run(i) \/ End(i) \/ CancelQueued(i)
    PROVE  QuotaForm' /\ RowMoves(i, book'[i])
<1>1. i \in 1 .. Len(book) /\ book \in Seq(JobRow)
  BY LenProperties DEF QuotaForm, QuotaTypes
<1>2. book[i] \in JobRow
  BY <1>1, RowTyped
<1>3. PICK new : /\ Fades(book[i], new) /\ book' = [book EXCEPT ![i] = new]
                 /\ Waiting(book[i]) => Waiting(new)
                 /\ Imports(book[i]) => Imports(new)
  <2>1. CASE Run(i)
    <3>1. ~Waiting(book[i]) /\ ~Imports(book[i]) /\ book[i].status = "queued"
      BY <2>1 DEF Run, Waiting, Imports
    <3>2. Fades(book[i], Failed(book[i]))
      BY <1>2, <3>1, FadesFailed
    <3>3. Fades(book[i], [Failed(book[i]) EXCEPT !.started = TRUE])
      BY <1>2, <3>1 DEF Failed, Fades, JobRow, Admits, CountedRow, RowSampled, Live
    <3>4. Fades(book[i], [book[i] EXCEPT !.status = "running", !.started = TRUE])
      BY <1>2, <3>1 DEF Fades, JobRow, Admits, CountedRow, RowSampled, Live
    <3>5. \/ book' = [book EXCEPT ![i] = Failed(book[i])]
          \/ book' = [book EXCEPT ![i] = [Failed(book[i]) EXCEPT !.started = TRUE]]
          \/ book' = [book EXCEPT ![i] = [book[i] EXCEPT !.status = "running", !.started = TRUE]]
      BY <2>1 DEF Run
    <3>6. QED
      BY <3>1, <3>2, <3>3, <3>4, <3>5
  <2>2. CASE End(i)
    <3>1. ~Waiting(book[i]) /\ ~Imports(book[i]) /\ book[i].status = "running"
      BY <2>2 DEF End, Waiting, Imports
    <3>2. Fades(book[i], Failed(book[i]))
      BY <1>2, <3>1, FadesFailed
    <3>3. Fades(book[i], [book[i] EXCEPT !.status = "done", !.holds = FALSE])
      BY <1>2, <3>1 DEF Fades, JobRow, Admits, CountedRow, RowSampled, Live
    <3>4. \/ book' = [book EXCEPT ![i] = Failed(book[i])]
          \/ book' = [book EXCEPT ![i] = [book[i] EXCEPT !.status = "done", !.holds = FALSE]]
      BY <2>2 DEF End
    <3>5. QED
      BY <3>1, <3>2, <3>3, <3>4
  <2>3. CASE CancelQueued(i)
    <3> DEFINE ended == [book[i] EXCEPT !.status = "canceled", !.holds = FALSE]
    <3>1. ~Imports(book[i]) /\ book[i].status = "queued" /\ book' = [book EXCEPT ![i] = ended]
      BY <2>3 DEF CancelQueued, Imports
    <3>2. Fades(book[i], ended)
      BY <1>2, <3>1 DEF Fades, JobRow, Admits, CountedRow, RowSampled, Live
    <3>3. Waiting(book[i]) => Waiting(ended)
      BY <1>2 DEF Waiting, JobRow
    <3>4. QED
      BY <3>1, <3>2, <3>3
  <2>4. QED
    BY <2>1, <2>2, <2>3
<1>4. RowMoves(i, new)
  BY <1>1, <1>3 DEF RowMoves
<1>5. RestTypes'
  <2>1. CASE End(i)
    <3>1. tenant' = tenant /\ today' = today /\ places' = places /\ customer' = customer
      BY <2>1 DEF End
    <3>2. spent' \in [Slugs -> Nat]
      <4>1. spent \in [Slugs -> Nat] /\ book[i].of \in Slugs /\ book[i].cost \in Nat
        BY <1>2 DEF QuotaForm, QuotaTypes, JobRow
      <4>2. PICK n \in Nat : spent' = [spent EXCEPT ![book[i].of] = @ + n] \/ spent' = spent
        BY <2>1, <4>1 DEF End
      <4>3. QED
        BY <4>1, <4>2
    <3>3. QED
      BY <3>1, <3>2 DEF RestTypes, QuotaForm, QuotaTypes
  <2>2. CASE Run(i) \/ CancelQueued(i)
    BY <2>2 DEF Run, CancelQueued, RestTypes, QuotaForm, QuotaTypes
  <2>3. QED
    BY <2>1, <2>2
<1>6. /\ asker' = asker /\ sweep' = sweep /\ tenantRow' = tenantRow
      /\ asker \in [Askers -> Asker] /\ sweep \in Sweeper
  BY DEF Run, End, CancelQueued, QuotaForm, QuotaTypes
<1>7. QuotaForm'
  BY <1>3, <1>4, <1>5, <1>6, FormMoved
<1>8. book'[i] = new
  BY <1>1, <1>3, LenProperties
<1>9. QED
  BY <1>4, <1>7, <1>8

LEMMA PublishRetestForm ==
    ASSUME QuotaForm, PublishRetest
    PROVE  QuotaForm' /\ \E i, new : RowMoves(i, new)
<1> DEFINE r == sweep.row
<1>1. r \in 1 .. Len(book) /\ Waiting(book[r]) /\ sweep.pc = "publish"
  BY DEF PublishRetest, QuotaForm, OwnRow
<1>2. book[r] \in JobRow
  BY <1>1, RowTyped
<1>3. PICK new : Fades(book[r], new) /\ book' = [book EXCEPT ![r] = new]
  <2>1. CASE book' = [book EXCEPT ![r].sent = TRUE]
    BY <1>2, <2>1, FadesSent
  <2>2. CASE book' = [book EXCEPT ![r] = Failed(@)]
    BY <1>1, <1>2, <2>2, FadesFailed
  <2>3. QED
    BY <2>1, <2>2 DEF PublishRetest
<1>4. RowMoves(r, new)
  BY <1>1, <1>3 DEF RowMoves
<1>5. RestTypes'
  <2>1. places \in [Slugs -> Place] /\ sweep.done \in SUBSET RetestDays
    BY DEF QuotaForm, QuotaTypes, Sweeper
  <2>2. places' \in [Slugs -> Place]
    <3>1. CASE places' = places
      BY <2>1, <3>1
    <3>2. CASE places' = [places EXCEPT ![book[r].of].done = sweep.done]
      BY <2>1, <3>2 DEF Place
    <3>3. QED
      BY <3>1, <3>2 DEF PublishRetest
  <2>3. customer' \in Customer
    BY FewerOf DEF PublishRetest, QuotaForm, QuotaTypes
  <2>4. QED
    BY <2>2, <2>3 DEF PublishRetest, RestTypes, QuotaForm, QuotaTypes
<1>6. asker' = asker /\ tenantRow' = tenantRow /\ asker \in [Askers -> Asker]
  BY DEF PublishRetest, QuotaForm, QuotaTypes
<1>7. sweep' \in Sweeper /\ sweep'.pc = "idle"
  BY DEF PublishRetest, QuotaForm, QuotaTypes, Sweeper
<1>8. \A b \in Askers : asker'[b].pc \in OfRow => asker[b].row # r
  BY <1>1, <1>6 DEF QuotaForm, OwnRow
<1> HIDE DEF r
<1>9. QuotaForm'
  BY <1>4, <1>5, <1>6, <1>7, <1>8, FormMoved
<1>10. QED
  BY <1>4, <1>9

LEMMA BlankFacts ==
    ASSUME NEW p \in Slugs, NEW action \in Actions
    PROVE  /\ Blank(p, action) \in JobRow /\ Waiting(Blank(p, action))
           /\ Blank(p, action).of = p /\ Blank(p, action).day = 0 /\ ~Admits(Blank(p, action))
           /\ Blank(p, action).action = action
BY BlankIsRow DEF Blank, Waiting, Admits

LEMMA GatedFacts ==
    ASSUME NEW row \in JobRow
    PROVE  /\ Gated(row) \in JobRow /\ Waiting(Gated(row)) = Waiting(row)
           /\ Gated(row).of = row.of /\ Gated(row).day = row.day /\ Gated(row).action = row.action
           /\ Admits(Gated(row)) => OnTrial
BY GatedIsRow DEF Gated, JobRow, Waiting, Admits

\* What a step leaves of the lock of the tenant's row.
LEMMA TenantReleased ==
    ASSUME QuotaForm, NEW a \in Askers, NEW v \in Asker, EndsTransaction(a) \/ tenantRow' = tenantRow,
           asker' = [asker EXCEPT ![a] = v], v.pc \notin HoldsTenant, v.pc # "idle" => v.of \in Slugs
    PROVE  /\ TenantHeld' /\ tenantRow' \in Askers \cup {Nobody}
           /\ asker' \in [Askers -> Asker] /\ asker'[a] = v
           /\ \A b \in Askers \ {a} : asker'[b] = asker[b]
<1>1. asker \in [Askers -> Asker] /\ tenantRow \in Askers \cup {Nobody} /\ TenantHeld
  BY DEF QuotaForm, QuotaTypes
<1>2. tenantRow' \in {tenantRow, Nobody} /\ (tenantRow # a => tenantRow' = tenantRow)
  BY DEF EndsTransaction
<1>3. asker' \in [Askers -> Asker] /\ asker'[a] = v /\ \A b \in Askers \ {a} : asker'[b] = asker[b]
  BY <1>1
<1>4. TenantHeld'
  BY <1>1, <1>2, <1>3 DEF TenantHeld
<1>5. QED
  BY <1>1, <1>2, <1>3, <1>4

LEMMA TenantTaken ==
    ASSUME QuotaForm, NEW a \in Askers, NEW v \in Asker, LocksTenant(a),
           asker' = [asker EXCEPT ![a] = v], v.of \in Slugs
    PROVE  /\ TenantHeld' /\ tenantRow' \in Askers \cup {Nobody}
           /\ asker' \in [Askers -> Asker] /\ asker'[a] = v
           /\ \A b \in Askers \ {a} : asker'[b] = asker[b]
<1>1. asker \in [Askers -> Asker] /\ TenantHeld /\ Nobody \notin Askers
  BY QuotasAssumption DEF QuotaForm, QuotaTypes
<1>2. tenantRow = Nobody /\ tenantRow' = a
  BY DEF LocksTenant
<1>3. asker' \in [Askers -> Asker] /\ asker'[a] = v /\ \A b \in Askers \ {a} : asker'[b] = asker[b]
  BY <1>1
<1>4. TenantHeld'
  BY <1>1, <1>2, <1>3 DEF TenantHeld
<1>5. QED
  BY <1>1, <1>2, <1>3, <1>4

LEMMA PlatformsInCodes ==
    ASSUME QuotaForm, NEW a \in Askers, asker[a].pc = "checked", NEW pool
    PROVE  PlatformsOf(a, pool) \in SUBSET Codes
<1>1. CASE asker[a].kind # "retry"
  BY <1>1, FundedInCodes DEF PlatformsOf
<1>2. CASE asker[a].kind = "retry"
  <2> DEFINE ended == {i \in DOMAIN book : book[i].of = asker[a].of /\ book[i].action = "sample"
                         /\ book[i].status \in {"failed", "canceled"}}
  <2>1. Retried(book, asker[a].of)
    BY <1>2 DEF QuotaForm, RetriesEnded
  <2>2. DOMAIN book = 1 .. Len(book) /\ Len(book) \in Nat
    BY LenProperties DEF QuotaForm, QuotaTypes
  <2>3. ended # {}
    BY <2>1, <2>2 DEF Retried
  <2>4. ended \in SUBSET (0 .. Len(book))
    BY <2>2
  <2>5. Max(ended) \in ended
    <3> HIDE DEF ended
    <3> QED BY <2>2, <2>3, <2>4, MaxOf
  <2>6. book[Max(ended)] \in JobRow
    <3>1. Max(ended) \in 1 .. Len(book)
      BY <2>2, <2>5
    <3> HIDE DEF ended
    <3>2. QED
      BY <3>1, RowTyped
  <2>7. book[Max(ended)].platforms \in SUBSET Codes
    <3> HIDE DEF ended
    <3> QED BY <2>6 DEF JobRow
  <2>8. PlatformsOf(a, pool) = book[Max(ended)].platforms
    BY <1>2 DEF PlatformsOf
  <2>9. QED
    BY <2>7, <2>8
<1>3. QED
  BY <1>1, <1>2

ReserveRow(a, row) ==
    /\ RowAdded(row) /\ row.of = asker[a].of /\ row.day = 0
    /\ Admits(row) => OnTrial

LEMMA ReserveForm ==
    ASSUME QuotaForm, NEW a \in Askers, Reserve(a)
    PROVE  /\ QuotaForm'
           /\ \/ book' = book
              \/ MaySample(asker[a].of) /\ \E row : ReserveRow(a, row) /\ row.action # "bootstrap"
<1> DEFINE p == asker[a].of
           pool == places[p].pool \/ (asker[a].kind = "sample" /\ Catalog # <<>>)
           platforms == PlatformsOf(a, pool)
           fresh == Gated(Blank(p, "sample"))
           row == Reserving(fresh, pool, platforms)
<1>1. /\ p \in Slugs /\ asker[a].pc = "checked" /\ asker \in [Askers -> Asker] /\ asker[a] \in Asker
      /\ places \in [Slugs -> Place] /\ Len(book) + 1 \in Nat
  BY LenProperties DEF Reserve, QuotaForm, TenantHeld, QuotaTypes
<1>2. platforms \in SUBSET Codes
  BY <1>1, PlatformsInCodes
<1>3. row \in JobRow /\ Waiting(row) /\ row.of = p /\ row.day = 0 /\ (Admits(row) => OnTrial)
      /\ row.action = "sample"
  <2>1. fresh \in JobRow /\ Waiting(fresh) /\ fresh.of = p /\ fresh.day = 0 /\ (Admits(fresh) => OnTrial)
        /\ fresh.action = "sample"
    <3>1. "sample" \in Actions
      BY DEF Actions
    <3>2. QED
      BY <1>1, <3>1, BlankFacts, GatedFacts
  <2>2. Fades(fresh, row) /\ Waiting(row) /\ row.action = fresh.action
    <3> HIDE DEF fresh, platforms, pool
    <3> QED BY <1>2, <2>1, FadesReserving
  <2> HIDE DEF fresh, row
  <2>3. QED
    BY <2>1, <2>2 DEF Fades
<1>4. RestTypes'
  <2>1. places' \in [Slugs -> Place]
    <3>1. pool \in BOOLEAN
      BY <1>1 DEF Place
    <3>2. places' = places \/ places' = [places EXCEPT ![p].pool = pool]
      BY DEF Reserve
    <3> HIDE DEF pool
    <3>3. CASE places' = places
      BY <1>1, <3>3
    <3>4. CASE places' = [places EXCEPT ![p].pool = pool]
      BY <1>1, <3>1, <3>4 DEF Place
    <3>5. QED
      BY <3>2, <3>3, <3>4
  <2>2. QED
    BY <2>1 DEF Reserve, RestTypes, QuotaForm, QuotaTypes
<1>5. sweep' = sweep /\ EndsTransaction(a)
  BY DEF Reserve
<1>6. CASE book' = book /\ Goes(a, NotAsking)
  <2>1. asker' = [asker EXCEPT ![a] = NotAsking]
    BY <1>6 DEF Goes
  <2>2. NotAsking \in Asker /\ NotAsking.pc = "idle" /\ NotAsking.pc \notin HoldsTenant
    BY NotAskingTyped DEF HoldsTenant
  <2>3. /\ TenantHeld' /\ tenantRow' \in Askers \cup {Nobody}
        /\ asker' \in [Askers -> Asker] /\ asker'[a] = NotAsking
        /\ \A b \in Askers \ {a} : asker'[b] = asker[b]
    BY <1>5, <2>1, <2>2, TenantReleased
  <2>4. \A b \in Askers : asker'[b] = asker[b] \/ (asker'[b].pc \notin OfRow
            /\ (asker'[b].pc = "checked" /\ asker'[b].kind = "retry" => Retried(book, asker'[b].of)))
    BY <2>2, <2>3 DEF OfRow
  <2>5. QuotaForm'
    BY <1>4, <1>5, <1>6, <2>3, <2>4, FormSame
  <2>6. QED
    BY <1>6, <2>5
<1>7. CASE /\ MaySample(p) /\ book' = Append(book, row)
           /\ Goes(a, [asker[a] EXCEPT !.pc = "publish", !.row = Len(book) + 1])
  <2> DEFINE v == [asker[a] EXCEPT !.pc = "publish", !.row = Len(book) + 1]
  <2>1. v \in Asker /\ v.pc = "publish" /\ v.row = Len(book) + 1 /\ v.of = p
    BY <1>1 DEF Asker
  <2>2. asker' = [asker EXCEPT ![a] = v]
    BY <1>7 DEF Goes
  <2>3. "publish" \notin HoldsTenant /\ "publish" \in OfRow
    BY DEF HoldsTenant, OfRow
  <2> HIDE DEF v, row, p
  <2>4. /\ TenantHeld' /\ tenantRow' \in Askers \cup {Nobody}
        /\ asker' \in [Askers -> Asker] /\ asker'[a] = v
        /\ \A b \in Askers \ {a} : asker'[b] = asker[b]
    BY <1>1, <1>5, <2>1, <2>2, <2>3, TenantReleased
  <2>5. GivenRow(a, row)
    BY <1>3, <2>1, <2>3, <2>4 DEF GivenRow
  <2>6. RowAdded(row)
    BY <1>3, <1>7 DEF RowAdded
  <2>7. QuotaForm'
    BY <1>4, <1>5, <2>4, <2>5, <2>6, FormAdded
  <2>8. ReserveRow(a, row)
    BY <1>3, <2>6 DEF ReserveRow, p
  <2>9. QED
    BY <1>3, <1>7, <2>7, <2>8 DEF p
<1>8. row.of = p
  BY <1>3
<1>9. QED
  <2>1. Gated(Blank(p, "sample")).of = p
    BY DEF Gated, Blank
  <2> HIDE DEF platforms
  <2>2. \/ Inserted(a, row) /\ MaySample(p)
        \/ book' = book /\ Goes(a, NotAsking)
    BY DEF Reserve, platforms
  <2>3. CASE Inserted(a, row) /\ MaySample(p)
    <3> HIDE DEF row, p
    <3>1. QED
      BY <1>6, <1>7, <2>3 DEF Inserted
  <2>4. QED
    BY <1>6, <2>2, <2>3

LEMMA BeginImportForm ==
    ASSUME QuotaForm, NEW a \in Askers, BeginImport(a)
    PROVE  QuotaForm' /\ (book' = book \/ \E row : ReserveRow(a, row) /\ row.action # "bootstrap")
<1> DEFINE p == asker[a].of
           fresh == Gated(Blank(p, "sample-import"))
           row == [fresh EXCEPT !.status = "running", !.started = TRUE, !.sent = TRUE]
<1>1. /\ p \in Slugs /\ asker[a].pc = "checked" /\ asker \in [Askers -> Asker] /\ asker[a] \in Asker
      /\ Len(book) + 1 \in Nat
  BY LenProperties DEF BeginImport, QuotaForm, TenantHeld, QuotaTypes
<1>2. row \in JobRow /\ Imports(row) /\ row.of = p /\ row.day = 0 /\ (Admits(row) => OnTrial)
      /\ row.action # "bootstrap"
  <2>1. OnTrial \in BOOLEAN
    BY DEF OnTrial
  <2>2. QED
    BY <1>1, <2>1 DEF Gated, Blank, JobRow, Imports, Admits, Actions
<1>3. RestTypes'
  BY DEF BeginImport, RestTypes, QuotaForm, QuotaTypes
<1>4. sweep' = sweep /\ EndsTransaction(a)
  BY DEF BeginImport
<1>5. CASE book' = book /\ Goes(a, NotAsking)
  <2>1. asker' = [asker EXCEPT ![a] = NotAsking]
    BY <1>5 DEF Goes
  <2>2. NotAsking \in Asker /\ NotAsking.pc = "idle" /\ NotAsking.pc \notin HoldsTenant
    BY NotAskingTyped DEF HoldsTenant
  <2>3. /\ TenantHeld' /\ tenantRow' \in Askers \cup {Nobody}
        /\ asker' \in [Askers -> Asker] /\ asker'[a] = NotAsking
        /\ \A b \in Askers \ {a} : asker'[b] = asker[b]
    BY <1>4, <2>1, <2>2, TenantReleased
  <2>4. \A b \in Askers : asker'[b] = asker[b] \/ (asker'[b].pc \notin OfRow
            /\ (asker'[b].pc = "checked" /\ asker'[b].kind = "retry" => Retried(book, asker'[b].of)))
    BY <2>2, <2>3 DEF OfRow
  <2>5. QuotaForm'
    BY <1>3, <1>4, <1>5, <2>3, <2>4, FormSame
  <2>6. QED
    BY <1>5, <2>5
<1>6. CASE /\ book' = Append(book, row)
           /\ Goes(a, [asker[a] EXCEPT !.pc = "importing", !.row = Len(book) + 1])
  <2> DEFINE v == [asker[a] EXCEPT !.pc = "importing", !.row = Len(book) + 1]
  <2>1. v \in Asker /\ v.pc = "importing" /\ v.row = Len(book) + 1 /\ v.of = p
    BY <1>1 DEF Asker
  <2>2. asker' = [asker EXCEPT ![a] = v]
    BY <1>6 DEF Goes
  <2>3. "importing" \notin HoldsTenant /\ "importing" \in OfRow /\ "importing" \notin OfWaiting
    BY DEF HoldsTenant, OfRow, OfWaiting
  <2> HIDE DEF v, row, p
  <2>4. /\ TenantHeld' /\ tenantRow' \in Askers \cup {Nobody}
        /\ asker' \in [Askers -> Asker] /\ asker'[a] = v
        /\ \A b \in Askers \ {a} : asker'[b] = asker[b]
    BY <1>1, <1>4, <2>1, <2>2, <2>3, TenantReleased
  <2>5. GivenRow(a, row)
    BY <1>2, <2>1, <2>3, <2>4 DEF GivenRow
  <2>6. RowAdded(row)
    BY <1>2, <1>6 DEF RowAdded
  <2>7. QuotaForm'
    BY <1>3, <1>4, <2>4, <2>5, <2>6, FormAdded
  <2>8. ReserveRow(a, row)
    BY <1>2, <2>6 DEF ReserveRow, p
  <2>9. QED
    BY <1>2, <2>7, <2>8
<1>7. QED
  BY <1>5, <1>6 DEF BeginImport

LEMMA DeliverForm ==
    ASSUME QuotaForm, NEW a \in Askers, Deliver(a)
    PROVE  QuotaForm' /\ \E row : RowAdded(row) /\ row.day = 0 /\ ~Admits(row) /\ row.action # "bootstrap"
<1>1. PICK p \in Open(places) :
        /\ Asked /\ book' = Append(book, Blank(p, "deliver"))
        /\ Goes(a, [NotAsking EXCEPT !.pc = "publish", !.kind = "deliver", !.of = p,
                                !.row = Len(book) + 1])
        /\ UNCHANGED <<tenant, today, places, spent, tenantRow, sweep>>
  BY DEF Deliver
<1> DEFINE row == Blank(p, "deliver")
           v == [NotAsking EXCEPT !.pc = "publish", !.kind = "deliver", !.of = p, !.row = Len(book) + 1]
<1>2. p \in Slugs /\ Len(book) + 1 \in Nat
  BY LenProperties DEF Open, QuotaForm, QuotaTypes
<1>3. row \in JobRow /\ Waiting(row) /\ row.day = 0 /\ ~Admits(row) /\ row.action # "bootstrap"
  <2>1. "deliver" \in Actions
    BY DEF Actions
  <2>2. QED
    BY <1>2, <2>1, BlankFacts
<1>4. RestTypes'
  BY <1>1, FewerOf DEF RestTypes, QuotaForm, QuotaTypes
<1>5. v \in Asker /\ v.pc = "publish" /\ v.row = Len(book) + 1 /\ v.of = p
  BY <1>2 DEF Asker, NotAsking, Kinds
<1>6. asker' = [asker EXCEPT ![a] = v]
  BY <1>1 DEF Goes
<1>7. "publish" \notin HoldsTenant /\ "publish" \in OfRow
  BY DEF HoldsTenant, OfRow
<1>8. sweep' = sweep /\ tenantRow' = tenantRow /\ book' = Append(book, row)
  BY <1>1
<1> HIDE DEF v, row
<1>9. /\ TenantHeld' /\ tenantRow' \in Askers \cup {Nobody}
      /\ asker' \in [Askers -> Asker] /\ asker'[a] = v
      /\ \A b \in Askers \ {a} : asker'[b] = asker[b]
  BY <1>2, <1>5, <1>6, <1>7, <1>8, TenantReleased
<1>10. GivenRow(a, row)
  BY <1>3, <1>5, <1>7, <1>9 DEF GivenRow
<1>11. RowAdded(row)
  BY <1>3, <1>8 DEF RowAdded
<1>12. QuotaForm'
  BY <1>4, <1>8, <1>9, <1>10, <1>11, FormAdded
<1>13. QED
  BY <1>3, <1>11, <1>12

LEMMA CreateCommitForm ==
    ASSUME QuotaForm, NEW a \in Askers, CreateCommit(a)
    PROVE  /\ QuotaForm'
           /\ \/ book' = book
              \/ \E row : ReserveRow(a, row) /\ (Admits(row) => MaySample(row.of))
<1> DEFINE p == asker[a].of
           pool == places[p].pool \/ (asker[a].samples /\ Catalog # <<>>)
           samples == Samples(pool, asker[a].samples)
           born == IF places[p].state = "absent" THEN today ELSE places[p].born
           opened == [places[p] EXCEPT !.state = "active", !.born = born, !.pool = pool]
           blank == Blank(p, IF samples THEN "autopilot" ELSE "bootstrap")
           base == IF samples THEN Gated(blank) ELSE blank
           row == [base EXCEPT !.samples = samples]
           v == [asker[a] EXCEPT !.pc = IF samples THEN "reserve" ELSE "publish", !.row = Len(book) + 1]
<1>1. /\ p \in Slugs /\ asker[a].pc = "creating" /\ asker \in [Askers -> Asker] /\ asker[a] \in Asker
      /\ places \in [Slugs -> Place] /\ today \in Nat /\ Len(book) + 1 \in Nat
  BY LenProperties DEF CreateCommit, QuotaForm, TenantHeld, QuotaTypes
<1>2. pool \in BOOLEAN /\ samples \in BOOLEAN /\ born \in Nat
  <2>1. places[p] \in Place
    BY <1>1
  <2>2. asker[a].samples \in BOOLEAN
    BY <1>1 DEF Asker
  <2>3. pool \in BOOLEAN /\ born \in Nat
    BY <1>1, <2>1 DEF Place
  <2> HIDE DEF pool
  <2>4. samples \in BOOLEAN
    BY <2>2 DEF Samples
  <2>5. QED
    BY <2>3, <2>4
<1>3. /\ row \in JobRow /\ Waiting(row) /\ row.of = p /\ row.day = 0
      /\ Admits(row) => OnTrial /\ samples
  <2> HIDE DEF samples, p
  <2>1. blank \in JobRow /\ Waiting(blank) /\ blank.of = p /\ blank.day = 0 /\ ~Admits(blank)
        /\ ~blank.gated
    <3>1. (IF samples THEN "autopilot" ELSE "bootstrap") \in Actions
      BY DEF Actions
    <3>2. PICK act \in Actions : act = IF samples THEN "autopilot" ELSE "bootstrap"
      BY <3>1
    <3>3. blank = Blank(p, act)
      BY <3>2
    <3>4. ~Blank(p, act).gated
      BY DEF Blank
    <3> HIDE DEF blank
    <3>5. QED
      BY <1>1, <3>2, <3>3, <3>4, BlankFacts
  <2> HIDE DEF blank
  <2>2. /\ base \in JobRow /\ Waiting(base) /\ base.of = p /\ base.day = 0
        /\ base.gated => OnTrial /\ samples
    <3>1. Gated(blank).gated = OnTrial
      BY <2>1 DEF Gated, JobRow
    <3>2. QED
      BY <2>1, <3>1, GatedFacts
  <2> HIDE DEF base
  <2>3. QED
    BY <1>2, <2>2 DEF JobRow, Waiting, Admits
<1>4. RestTypes'
  <2>1. opened \in Place
    <3>1. places[p] \in Place
      BY <1>1
    <3> HIDE DEF born, pool
    <3>2. QED
      BY <1>2, <3>1 DEF Place
  <2>2. places' = places \/ places' = [places EXCEPT ![p] = opened]
    BY DEF CreateCommit
  <2>3. places' \in [Slugs -> Place]
    <3> HIDE DEF opened
    <3> QED BY <1>1, <2>1, <2>2
  <2>4. QED
    BY <2>3 DEF CreateCommit, RestTypes, QuotaForm, QuotaTypes
<1>5. sweep' = sweep /\ EndsTransaction(a)
  BY DEF CreateCommit
<1>6. CASE book' = book /\ Goes(a, NotAsking)
  <2>1. asker' = [asker EXCEPT ![a] = NotAsking]
    BY <1>6 DEF Goes
  <2>2. NotAsking \in Asker /\ NotAsking.pc = "idle" /\ NotAsking.pc \notin HoldsTenant
    BY NotAskingTyped DEF HoldsTenant
  <2>3. /\ TenantHeld' /\ tenantRow' \in Askers \cup {Nobody}
        /\ asker' \in [Askers -> Asker] /\ asker'[a] = NotAsking
        /\ \A b \in Askers \ {a} : asker'[b] = asker[b]
    BY <1>5, <2>1, <2>2, TenantReleased
  <2>4. \A b \in Askers : asker'[b] = asker[b] \/ (asker'[b].pc \notin OfRow
            /\ (asker'[b].pc = "checked" /\ asker'[b].kind = "retry" => Retried(book, asker'[b].of)))
    BY <2>2, <2>3 DEF OfRow
  <2>5. QuotaForm'
    BY <1>4, <1>5, <1>6, <2>3, <2>4, FormSame
  <2>6. QED
    BY <1>6, <2>5
<1>7. CASE (samples => MaySample(p)) /\ book' = Append(book, row) /\ Goes(a, v)
  <2>1. v \in Asker /\ v.pc \in {"reserve", "publish"} /\ v.row = Len(book) + 1 /\ v.of = p
    <3>1. (IF samples THEN "reserve" ELSE "publish") \in {"reserve", "publish"}
      OBVIOUS
    <3> HIDE DEF samples
    <3>2. QED
      BY <1>1, <3>1 DEF Asker
  <2>2. asker' = [asker EXCEPT ![a] = v]
    BY <1>7 DEF Goes
  <2>3. v.pc \notin HoldsTenant /\ v.pc \in OfRow
    BY <2>1 DEF HoldsTenant, OfRow
  <2> HIDE DEF v, row, p, samples
  <2>4. /\ TenantHeld' /\ tenantRow' \in Askers \cup {Nobody}
        /\ asker' \in [Askers -> Asker] /\ asker'[a] = v
        /\ \A b \in Askers \ {a} : asker'[b] = asker[b]
    BY <1>1, <1>5, <2>1, <2>2, <2>3, TenantReleased
  <2>5. GivenRow(a, row)
    BY <1>3, <2>1, <2>3, <2>4 DEF GivenRow
  <2>6. RowAdded(row)
    BY <1>3, <1>7 DEF RowAdded
  <2>7. QuotaForm'
    BY <1>4, <1>5, <2>4, <2>5, <2>6, FormAdded
  <2>8. ReserveRow(a, row)
    BY <1>3, <2>6 DEF ReserveRow, p
  <2>9. Admits(row) => MaySample(row.of)
    BY <1>3, <1>7
  <2>10. QED
    BY <2>7, <2>8, <2>9
<1>8. \/ (samples => MaySample(p)) /\ book' = Append(book, row) /\ Goes(a, v)
      \/ book' = book /\ Goes(a, NotAsking)
  BY DEF CreateCommit
<1>9. QED
  BY <1>6, <1>7, <1>8

\* The row of a retest, and the day it is of.
RetestRow(p, row) ==
    /\ RowAdded(row) /\ row.of = p /\ row.day \in Due(p) /\ row.action # "bootstrap"
    /\ Admits(row) => MaySample(p)
    /\ sweep' = [pc |-> "publish", row |-> Len(book) + 1, done |-> places[p].done]
    /\ places' = [places EXCEPT ![p].done = @ \cup {row.day}]

LEMMA RetestForm ==
    ASSUME QuotaForm, NEW p \in Slugs, Retest(p)
    PROVE  QuotaForm' /\ \E row : RetestRow(p, row)
<1> DEFINE day == Min(Due(p))
           platforms == Funded(places[p].pool)
           blank == Gated(Blank(p, "cycle"))
           fresh == [blank EXCEPT !.day = day]
           row == Reserving(fresh, places[p].pool, platforms)
<1>1. places \in [Slugs -> Place] /\ Len(book) + 1 \in Nat /\ Len(book) \in Nat
  BY LenProperties DEF QuotaForm, QuotaTypes
<1>2. Due(p) \subseteq RetestDays /\ RetestDays \in SUBSET Nat /\ day \in Due(p)
  <2>1. RetestDays \in SUBSET Nat
    BY QuotasAssumption
  <2>2. Due(p) \subseteq RetestDays /\ Due(p) # {}
    BY DEF Due, Retest
  <2>3. Min(Due(p)) \in Due(p)
    BY <2>1, <2>2, MinOf
  <2>4. QED
    BY <2>1, <2>2, <2>3
<1>3. platforms \in SUBSET Codes
  BY FundedInCodes
<1>4. fresh \in JobRow /\ Waiting(fresh) /\ fresh.of = p /\ fresh.day = day /\ fresh.action = "cycle"
  <2>1. blank \in JobRow /\ Waiting(blank) /\ blank.of = p /\ blank.action = "cycle"
    <3>1. "cycle" \in Actions
      BY DEF Actions
    <3>2. QED
      BY <3>1, BlankFacts, GatedFacts
  <2>2. day \in {0} \cup RetestDays
    BY <1>2
  <2> HIDE DEF blank, day
  <2>3. QED
    BY <2>1, <2>2 DEF JobRow, Waiting
<1>5. row \in JobRow /\ Waiting(row) /\ row.of = p /\ row.day = day /\ row.action = "cycle"
  <2>1. Fades(fresh, row) /\ Waiting(row) /\ row.action = fresh.action
    <3> HIDE DEF fresh, platforms
    <3> QED BY <1>3, <1>4, FadesReserving
  <2> HIDE DEF fresh, row
  <2>2. QED
    BY <1>4, <2>1 DEF Fades
<1>6. /\ book' = Append(book, row) /\ MaySample(p)
      /\ sweep' = [pc |-> "publish", row |-> Len(book) + 1, done |-> places[p].done]
      /\ places' = [places EXCEPT ![p].done = @ \cup {day}]
      /\ UNCHANGED <<customer, tenant, today, spent, tenantRow, asker>>
  BY DEF Retest
<1>7. RestTypes'
  <2>1. places' \in [Slugs -> Place]
    <3>1. places[p].done \cup {day} \in SUBSET RetestDays
      BY <1>1, <1>2 DEF Place
    <3> HIDE DEF day
    <3>2. QED
      BY <1>1, <1>6, <3>1 DEF Place
  <2>2. QED
    BY <2>1, <1>6 DEF RestTypes, QuotaForm, QuotaTypes
<1>8. sweep' \in Sweeper /\ sweep'.row = Len(book) + 1
  BY <1>1, <1>6 DEF Sweeper, Place
<1>9. RowAdded(row)
  BY <1>5, <1>6 DEF RowAdded
<1>10. RetestRow(p, row)
  BY <1>2, <1>5, <1>6, <1>9 DEF RetestRow
<1>11. asker' = asker /\ asker \in [Askers -> Asker] /\ TenantHeld' /\ tenantRow' \in Askers \cup {Nobody}
  BY <1>6 DEF QuotaForm, QuotaTypes, TenantHeld
<1> HIDE DEF row
<1>12. QuotaForm'
  BY <1>5, <1>7, <1>8, <1>9, <1>11, FormAdded
<1>13. QED
  BY <1>10, <1>12

LEMMA CheckForm ==
    ASSUME QuotaForm, NEW a \in Askers, Check(a) \/ CreateCheck(a)
    PROVE  QuotaForm'
<1>1. PICK v : /\ v \in Asker /\ v.of \in Slugs /\ v.pc \notin OfRow
               /\ v.pc = "checked" /\ v.kind = "retry" => Retried(book, v.of)
               /\ asker' = [asker EXCEPT ![a] = v]
               /\ Asked /\ LocksTenant(a)
               /\ UNCHANGED <<tenant, today, places, book, spent, sweep>>
  <2>1. CASE Check(a)
    <3>1. PICK kind \in {"sample", "import", "retry"}, p \in Open(places) :
              /\ Asked /\ LocksTenant(a)
              /\ kind = "retry" => \E i \in DOMAIN book :
                     book[i].of = p /\ book[i].action = "sample"
                     /\ book[i].status \in {"failed", "canceled"}
              /\ Goes(a, [NotAsking EXCEPT !.pc = "checked", !.kind = kind, !.of = p])
              /\ UNCHANGED <<tenant, today, places, book, spent, sweep>>
      BY <2>1 DEF Check
    <3> DEFINE v == [NotAsking EXCEPT !.pc = "checked", !.kind = kind, !.of = p]
    <3>2. p \in Slugs /\ DOMAIN book = 1 .. Len(book)
      BY LenProperties DEF Open, QuotaForm, QuotaTypes
    <3>3. v \in Asker /\ v.of = p /\ v.pc = "checked" /\ v.kind = kind
      BY <3>2 DEF Asker, NotAsking, Kinds
    <3>4. "checked" \notin OfRow
      BY DEF OfRow
    <3>5. kind = "retry" => Retried(book, p)
      BY <3>1, <3>2 DEF Retried
    <3>6. asker' = [asker EXCEPT ![a] = v]
      BY <3>1 DEF Goes
    <3> HIDE DEF v
    <3>7. QED
      BY <3>1, <3>2, <3>3, <3>4, <3>5, <3>6
  <2>2. CASE CreateCheck(a)
    <3>1. PICK p \in Slugs \ Open(places), kind \in {"create", "audit"} :
              /\ Asked /\ LocksTenant(a)
              /\ Goes(a, [NotAsking EXCEPT !.pc = "creating", !.kind = kind, !.of = p,
                                !.samples = kind = "create"])
              /\ UNCHANGED <<tenant, today, places, book, spent, sweep>>
      BY <2>2 DEF CreateCheck
    <3> DEFINE v == [NotAsking EXCEPT !.pc = "creating", !.kind = kind, !.of = p,
                                !.samples = kind = "create"]
    <3>2. v \in Asker /\ v.of = p /\ v.pc = "creating"
      BY <3>1 DEF Asker, NotAsking, Kinds
    <3>3. "creating" \notin OfRow
      BY DEF OfRow
    <3>4. asker' = [asker EXCEPT ![a] = v]
      BY <3>1 DEF Goes
    <3> HIDE DEF v
    <3>5. QED
      BY <3>1, <3>2, <3>3, <3>4
  <2>3. QED
    BY <2>1, <2>2
<1>2. /\ TenantHeld' /\ tenantRow' \in Askers \cup {Nobody}
      /\ asker' \in [Askers -> Asker] /\ asker'[a] = v
      /\ \A b \in Askers \ {a} : asker'[b] = asker[b]
  BY <1>1, TenantTaken
<1>3. RestTypes'
  BY <1>1, FewerOf DEF RestTypes, QuotaForm, QuotaTypes
<1>4. \A b \in Askers : asker'[b] = asker[b] \/ (asker'[b].pc \notin OfRow
          /\ (asker'[b].pc = "checked" /\ asker'[b].kind = "retry" => Retried(book, asker'[b].of)))
  BY <1>1, <1>2
<1>5. book' = book /\ sweep' = sweep
  BY <1>1
<1>6. QED
  BY <1>2, <1>3, <1>4, <1>5, FormSame

LEMMA OthersForm ==
    ASSUME QuotaForm, (\E p \in Slugs : Archive(p)) \/ NextDay \/ ChangePlan \/ UNCHANGED quotaVars
    PROVE  QuotaForm'
<1>1. asker' = asker /\ tenantRow' = tenantRow /\ book' = book /\ sweep' = sweep
  BY DEF Archive, NextDay, ChangePlan, quotaVars
<1>2. RestTypes'
  <2>1. /\ places \in [Slugs -> Place] /\ tenant \in Plans /\ today \in Nat /\ spent \in [Slugs -> Nat]
        /\ customer \in Customer
    BY DEF QuotaForm, QuotaTypes
  <2>2. CASE \E p \in Slugs : Archive(p)
    BY <2>1, <2>2 DEF Archive, RestTypes, Place
  <2>3. CASE NextDay
    <3>1. customer' \in Customer
      BY <2>3, FewerOf DEF NextDay
    <3>2. today' \in Nat
      BY <2>1, <2>3 DEF NextDay
    <3>3. QED
      BY <2>1, <2>3, <3>1, <3>2 DEF NextDay, RestTypes
  <2>4. CASE ChangePlan
    BY <2>1, <2>4 DEF ChangePlan, RestTypes, Plans
  <2>5. CASE UNCHANGED quotaVars
    BY <2>1, <2>5 DEF quotaVars, RestTypes
  <2>6. QED
    BY <2>2, <2>3, <2>4, <2>5
<1>3. asker \in [Askers -> Asker] /\ tenantRow \in Askers \cup {Nobody} /\ TenantHeld'
  BY <1>1 DEF QuotaForm, QuotaTypes, TenantHeld
<1>4. QED
  BY <1>1, <1>2, <1>3, FormSame

LEMMA QuotaFormKept ==
    ASSUME QuotaForm, [QuotasNext]_quotaVars
    PROVE  QuotaForm'
<1>1. ASSUME NEW a \in Askers, Request(a) PROVE QuotaForm'
  BY <1>1, CheckForm, ReserveForm, BeginImportForm, EndImportForm, DeliverForm, PublishForm,
     CreateCommitForm, CreateReserveForm DEF Request
<1>2. QED
  BY <1>1, WorkerForm, RetestForm, PublishRetestForm, OthersForm DEF QuotasNext

LEMMA QuotaFormInit == QuotasInit => QuotaForm
<1> SUFFICES ASSUME QuotasInit PROVE QuotaForm
  OBVIOUS
<1>1. asker \in [Askers -> Asker] /\ \A a \in Askers : asker[a].pc = "idle"
  BY NotAskingTyped DEF QuotasInit
<1>2. QuotaTypes
  <2>1. book \in Seq(JobRow)
    BY DEF QuotasInit
  <2>2. places \in [Slugs -> Place]
    BY DEF QuotasInit, NoProject, Place
  <2>3. sweep \in Sweeper /\ tenant \in Plans /\ today \in Nat /\ spent \in [Slugs -> Nat]
    BY QuotasAssumption DEF QuotasInit, Sweeper, Plans
  <2>4. customer \in Customer
    BY QuotasAssumption DEF QuotasInit
  <2>5. QED
    BY <1>1, <2>1, <2>2, <2>3, <2>4 DEF QuotasInit, QuotaTypes
<1>3. sweep.pc = "idle"
  BY DEF QuotasInit
<1>4. QED
  BY <1>1, <1>2, <1>3 DEF QuotaForm, TenantHeld, OwnRow, OfRow, OfWaiting, HoldsTenant,
     RetriesEnded

-----------------------------------------------------------------------------
(* Quotas: the allowance of a trial.                                       *)

Room(b, p) ==
    /\ Cardinality(Admitted(b, {p})) < PerProject
    /\ Cardinality(Admitted(b, Slugs)) < LifetimeLimit
Allowed(b) ==
    /\ \A p \in Slugs : Cardinality(Admitted(b, {p})) <= PerProject
    /\ Cardinality(Admitted(b, Slugs)) <= LifetimeLimit

LEMMA BookLength == ASSUME QuotaTypes PROVE Len(book) \in Nat
BY LenProperties DEF QuotaTypes

LEMMA MovedAdmits ==
    ASSUME QuotaForm, NEW i, NEW new, RowMoves(i, new), NEW ps
    PROVE  Cardinality(Admitted(book', ps)) <= Cardinality(Admitted(book, ps))
<1>1. book \in Seq(JobRow) /\ Len(book) \in Nat
  BY LenProperties DEF QuotaForm, QuotaTypes
<1>2. /\ Len(book') = Len(book) /\ book'[i] = new
      /\ \A j \in 1 .. Len(book) : j # i => book'[j] = book[j]
  BY <1>1, MovedBook DEF RowMoves, Fades
<1>3. new.of = book[i].of /\ (Admits(new) => Admits(book[i]))
  BY DEF RowMoves, Fades
<1>4. \A j \in 1 .. Len(book) : book'[j].of = book[j].of /\ (Admits(book'[j]) => Admits(book[j]))
  BY <1>2, <1>3
<1>5. QED
  BY <1>1, <1>2, <1>4, AdmittedLess

NoMore == \A ps : Cardinality(Admitted(book', ps)) <= Cardinality(Admitted(book, ps))

LEMMA NoMoreAllowed ==
    ASSUME QuotaForm, QuotaForm', Allowed(book), NoMore
    PROVE  Allowed(book')
<1>1. Len(book) \in Nat /\ Len(book') \in Nat /\ PerProject \in Nat /\ LifetimeLimit \in Nat
  BY LenProperties, QuotasAssumption DEF QuotaForm, QuotaTypes, LifetimeLimit
<1>2. ASSUME NEW ps, NEW n \in Nat, Cardinality(Admitted(book, ps)) <= n
      PROVE  Cardinality(Admitted(book', ps)) <= n
  <2>1. Cardinality(Admitted(book, ps)) \in Nat /\ Cardinality(Admitted(book', ps)) \in Nat
    BY <1>1, AdmittedFinite
  <2>2. QED
    BY <1>2, <2>1 DEF NoMore
<1>3. QED
  BY <1>1, <1>2 DEF Allowed

LEMMA NoMoreRoom ==
    ASSUME QuotaForm, QuotaForm', NEW p, Room(book, p), NoMore
    PROVE  Room(book', p)
<1>1. Len(book) \in Nat /\ Len(book') \in Nat /\ PerProject \in Nat /\ LifetimeLimit \in Nat
  BY LenProperties, QuotasAssumption DEF QuotaForm, QuotaTypes, LifetimeLimit
<1>2. ASSUME NEW ps, NEW n \in Nat, Cardinality(Admitted(book, ps)) < n
      PROVE  Cardinality(Admitted(book', ps)) < n
  <2>1. Cardinality(Admitted(book, ps)) \in Nat /\ Cardinality(Admitted(book', ps)) \in Nat
    BY <1>1, AdmittedFinite
  <2>2. QED
    BY <1>2, <2>1 DEF NoMore
<1>3. QED
  BY <1>1, <1>2 DEF Room

\* A row for which there was room.
LEMMA OneMoreAllowed ==
    ASSUME QuotaForm, Allowed(book), NEW row, RowAdded(row), Admits(row) => Room(book, row.of)
    PROVE  Allowed(book')
<1>1. Len(book) \in Nat /\ PerProject \in Nat /\ LifetimeLimit \in Nat /\ book \in Seq(JobRow)
      /\ row \in JobRow /\ book' = Append(book, row) /\ Len(book') \in Nat
  <2>1. book \in Seq(JobRow) /\ row \in JobRow /\ book' = Append(book, row)
    BY DEF QuotaForm, QuotaTypes, RowAdded
  <2>2. QED
    BY <2>1, LenProperties, AddedBook, QuotasAssumption DEF LifetimeLimit
<1>2. ASSUME NEW ps, NEW n \in Nat, Cardinality(Admitted(book, ps)) <= n,
             Admits(row) => row.of \notin ps \/ Cardinality(Admitted(book, ps)) < n
      PROVE  Cardinality(Admitted(book', ps)) <= n
  <2>1. Cardinality(Admitted(book, ps)) \in Nat /\ Cardinality(Admitted(book', ps)) \in Nat
    BY <1>1, AdmittedFinite
  <2>2. /\ Cardinality(Admitted(book', ps)) <= Cardinality(Admitted(book, ps)) + 1
        /\ ~Admits(row) => Cardinality(Admitted(book', ps)) <= Cardinality(Admitted(book, ps))
        /\ row.of \notin ps => Cardinality(Admitted(book', ps)) <= Cardinality(Admitted(book, ps))
    BY <1>1, AdmittedMore
  <2>3. QED
    BY <1>2, <2>1, <2>2
<1>3. ASSUME NEW p \in Slugs PROVE Cardinality(Admitted(book', {p})) <= PerProject
  <2>1. Cardinality(Admitted(book, {p})) <= PerProject
    BY DEF Allowed
  <2>2. Admits(row) => row.of \notin {p} \/ Cardinality(Admitted(book, {p})) < PerProject
    BY DEF Room
  <2>3. QED
    BY <1>1, <1>2, <2>1, <2>2
<1>4. Cardinality(Admitted(book', Slugs)) <= LifetimeLimit
  <2>1. Cardinality(Admitted(book, Slugs)) <= LifetimeLimit
    BY DEF Allowed
  <2>2. Admits(row) => row.of \notin Slugs \/ Cardinality(Admitted(book, Slugs)) < LifetimeLimit
    BY DEF Room
  <2>3. QED
    BY <1>1, <1>2, <2>1, <2>2
<1>5. QED
  BY <1>3, <1>4 DEF Allowed

\* Nobody has checked while nobody holds the tenant's row.
LEMMA NobodyChecked ==
    ASSUME QuotaForm, tenantRow = Nobody, NEW a \in Askers
    PROVE  asker[a].pc \notin HoldsTenant
BY QuotasAssumption DEF QuotaForm, TenantHeld

LEMMA RoomVacuous ==
    ASSUME QuotaForm', tenantRow' = Nobody
    PROVE  ImportRoom' /\ ProjectRoom'
<1>1. \A a \in Askers : asker'[a].pc \notin HoldsTenant
  BY QuotasAssumption DEF QuotaForm, TenantHeld
<1>2. QED
  BY <1>1 DEF ImportRoom, ProjectRoom, HoldsTenant

LEMMA RoomKept ==
    ASSUME QuotaForm, QuotaForm', ImportRoom, NoMore, tenant' = tenant,
           \A a \in Askers : asker'[a].pc = "checked" =>
              asker'[a] = asker[a] \/ (OnTrial => Room(book, asker'[a].of))
    PROVE  ImportRoom'
<1>1. ASSUME NEW a \in Askers, asker'[a].pc = "checked", asker'[a].kind = "import", OnTrial
      PROVE  Room(book', asker'[a].of)
  <2>1. Room(book, asker'[a].of)
    BY <1>1 DEF ImportRoom, Room
  <2>2. QED
    BY <2>1, NoMoreRoom
<1>2. QED
  BY <1>1 DEF ImportRoom, Room, OnTrial

LEMMA SameNoMore == ASSUME QuotaForm, book' = book PROVE NoMore
<1>1. ASSUME NEW ps
      PROVE  Cardinality(Admitted(book', ps)) <= Cardinality(Admitted(book, ps))
  <2>1. Cardinality(Admitted(book, ps)) \in Nat
    BY AdmittedFinite, LenProperties DEF QuotaForm, QuotaTypes
  <2>2. QED
    BY <2>1
<1>2. QED
  BY <1>1 DEF NoMore

LEMMA MovedNoMore ==
    ASSUME QuotaForm, \E i, new : RowMoves(i, new) PROVE NoMore
BY MovedAdmits DEF NoMore

LEMMA AllowanceOfRequest ==
    ASSUME QuotaForm, QuotaForm', Allowed(book), ImportRoom, NEW a \in Askers, Request(a)
    PROVE  Allowed(book') /\ ImportRoom'
<1>0. asker \in [Askers -> Asker]
  BY DEF QuotaForm, QuotaTypes
<1>1. CASE Check(a) \/ CreateCheck(a)
  <2>1. NoMore /\ tenant' = tenant
    BY <1>1, SameNoMore DEF Check, CreateCheck
  <2>2. ASSUME NEW b \in Askers, asker'[b].pc = "checked"
        PROVE  asker'[b] = asker[b] \/ (OnTrial => Room(book, asker'[b].of))
    <3>1. CASE Check(a)
      <4>1. PICK kind \in {"sample", "import", "retry"}, p \in Open(places) :
                MaySample(p) /\ Goes(a, [NotAsking EXCEPT !.pc = "checked", !.kind = kind, !.of = p])
        BY <3>1 DEF Check
      <4> DEFINE v == [NotAsking EXCEPT !.pc = "checked", !.kind = kind, !.of = p]
      <4>2. asker' = [asker EXCEPT ![a] = v] /\ v.of = p
        BY <4>1 DEF Goes, NotAsking
      <4>3. OnTrial => Room(book, p)
        BY <4>1, MaySampleRoom DEF Room, QuotaForm
      <4> HIDE DEF v
      <4>4. QED
        BY <1>0, <4>2, <4>3
    <3>2. CASE CreateCheck(a)
      <4>1. PICK v : asker' = [asker EXCEPT ![a] = v] /\ v.pc = "creating"
        <5>1. PICK p, kind : Goes(a, [NotAsking EXCEPT !.pc = "creating", !.kind = kind, !.of = p,
                                !.samples = kind = "create"])
          BY <3>2 DEF CreateCheck
        <5>2. [NotAsking EXCEPT !.pc = "creating", !.kind = kind, !.of = p,
                                !.samples = kind = "create"].pc = "creating"
          BY DEF NotAsking
        <5>3. QED
          BY <5>1, <5>2 DEF Goes
      <4>2. QED
        BY <1>0, <2>2, <4>1
    <3>3. QED
      BY <1>1, <3>1, <3>2
  <2>3. QED
    BY <2>1, <2>2, NoMoreAllowed, RoomKept
<1>2. CASE Reserve(a) \/ BeginImport(a) \/ CreateCommit(a)
  <2>1. asker[a].pc \in HoldsTenant /\ EndsTransaction(a)
    BY <1>2 DEF Reserve, BeginImport, CreateCommit, HoldsTenant
  <2>2. tenantRow' = Nobody
    BY <2>1 DEF EndsTransaction, QuotaForm, TenantHeld
  <2>3. Allowed(book')
    <3>1. CASE book' = book
      BY <3>1, SameNoMore, NoMoreAllowed
    <3>2. CASE \E row : ReserveRow(a, row) /\ (Admits(row) => Room(book, row.of))
      <4>1. PICK row : ReserveRow(a, row) /\ (Admits(row) => Room(book, row.of))
        BY <3>2
      <4>2. RowAdded(row)
        BY <4>1 DEF ReserveRow
      <4>3. QED
        BY <4>1, <4>2, OneMoreAllowed
    <3>3. CASE Reserve(a)
      <4>1. book' = book \/ (MaySample(asker[a].of) /\ \E row : ReserveRow(a, row))
        BY <3>3, ReserveForm
      <4>2. ASSUME MaySample(asker[a].of), NEW row, ReserveRow(a, row), Admits(row)
            PROVE  Room(book, row.of)
        BY <4>2, MaySampleRoom DEF ReserveRow, Room, QuotaForm
      <4>3. QED
        BY <3>1, <3>2, <4>1, <4>2
    <3>4. CASE BeginImport(a)
      <4>1. book' = book \/ \E row : ReserveRow(a, row)
        BY <3>4, BeginImportForm
      <4>2. ASSUME NEW row, ReserveRow(a, row), Admits(row)
            PROVE  Room(book, row.of)
        BY <3>4, <4>2 DEF BeginImport, ReserveRow, ImportRoom, Room
      <4>3. QED
        BY <3>1, <3>2, <4>1, <4>2
    <3>5. CASE CreateCommit(a)
      <4>1. \/ book' = book
            \/ \E row : ReserveRow(a, row) /\ (Admits(row) => MaySample(row.of))
        BY <3>5, CreateCommitForm
      <4>2. ASSUME NEW row, ReserveRow(a, row), Admits(row), MaySample(row.of)
            PROVE  Room(book, row.of)
        BY <4>2, MaySampleRoom DEF ReserveRow, Room, QuotaForm
      <4>3. QED
        BY <3>1, <3>2, <4>1, <4>2
    <3>6. QED
      BY <1>2, <3>3, <3>4, <3>5
  <2>4. QED
    BY <2>2, <2>3, RoomVacuous
<1>3. CASE EndImport(a) \/ Publish(a) \/ CreateReserve(a)
  <2>1. NoMore
    BY <1>3, EndImportForm, PublishForm, CreateReserveForm, MovedNoMore
  <2>2. tenant' = tenant
    BY <1>3 DEF EndImport, Publish, CreateReserve
  <2>3. ASSUME NEW b \in Askers, asker'[b].pc = "checked" PROVE asker'[b] = asker[b]
    <3>1. PICK v : asker' = [asker EXCEPT ![a] = v] /\ v.pc # "checked"
      <4>1. NotAsking.pc # "checked" /\ [asker[a] EXCEPT !.pc = "publish"].pc # "checked"
        BY <1>0 DEF NotAsking, Asker
      <4>2. QED
        BY <1>3, <4>1 DEF EndImport, Publish, CreateReserve, Goes
    <3>2. QED
      BY <1>0, <2>3, <3>1
  <2>4. QED
    BY <2>1, <2>2, <2>3, NoMoreAllowed, RoomKept
<1>4. CASE Deliver(a)
  <2>1. PICK row : RowAdded(row) /\ ~Admits(row)
    BY <1>4, DeliverForm
  <2>2. NoMore
    <3>1. book \in Seq(JobRow) /\ row \in JobRow /\ book' = Append(book, row)
      BY <2>1 DEF QuotaForm, QuotaTypes, RowAdded
    <3>2. QED
      BY <2>1, <3>1, AdmittedMore DEF NoMore
  <2>3. tenant' = tenant
    BY <1>4 DEF Deliver
  <2>4. ASSUME NEW b \in Askers, asker'[b].pc = "checked" PROVE asker'[b] = asker[b]
    <3>1. PICK v : asker' = [asker EXCEPT ![a] = v] /\ v.pc = "publish"
      <4>1. PICK p : Goes(a, [NotAsking EXCEPT !.pc = "publish", !.kind = "deliver", !.of = p,
                                !.row = Len(book) + 1])
        BY <1>4 DEF Deliver
      <4>2. [NotAsking EXCEPT !.pc = "publish", !.kind = "deliver", !.of = p,
                                !.row = Len(book) + 1].pc = "publish"
        BY DEF NotAsking
      <4>3. QED
        BY <4>1, <4>2 DEF Goes
    <3>2. QED
      BY <1>0, <2>4, <3>1
  <2>5. QED
    BY <2>2, <2>3, <2>4, NoMoreAllowed, RoomKept
<1>5. QED
  BY <1>1, <1>2, <1>3, <1>4 DEF Request

LEMMA AllowanceKept ==
    ASSUME QuotaForm, QuotaForm', Allowed(book), ImportRoom, [QuotasNext]_quotaVars
    PROVE  Allowed(book') /\ ImportRoom'
<1>1. CASE \E a \in Askers : Request(a)
  BY <1>1, AllowanceOfRequest
<1>2. CASE \E i \in DOMAIN book : Run(i) \/ End(i) \/ CancelQueued(i)
  <2>1. NoMore
    BY <1>2, WorkerForm, MovedNoMore
  <2>2. asker' = asker /\ tenant' = tenant
    BY <1>2 DEF Run, End, CancelQueued
  <2>3. QED
    BY <2>1, <2>2, NoMoreAllowed, RoomKept
<1>3. CASE PublishRetest
  <2>1. NoMore
    BY <1>3, PublishRetestForm, MovedNoMore
  <2>2. asker' = asker /\ tenant' = tenant
    BY <1>3 DEF PublishRetest
  <2>3. QED
    BY <2>1, <2>2, NoMoreAllowed, RoomKept
<1>4. CASE \E p \in Slugs : Retest(p)
  <2>1. PICK p \in Slugs : Retest(p)
    BY <1>4
  <2>2. PICK row : RetestRow(p, row)
    BY <2>1, RetestForm
  <2>3. OnTrial /\ tenantRow' = Nobody
    BY <2>1 DEF Retest
  <2>4. RowAdded(row) /\ (Admits(row) => Room(book, row.of))
    BY <2>2, <2>3, MaySampleRoom DEF RetestRow, Room, QuotaForm
  <2>5. QED
    BY <2>3, <2>4, OneMoreAllowed, RoomVacuous
<1>5. CASE (\E p \in Slugs : Archive(p)) \/ NextDay \/ UNCHANGED quotaVars
  <2>1. asker' = asker /\ tenant' = tenant /\ book' = book
    BY <1>5 DEF Archive, NextDay, quotaVars
  <2>2. QED
    BY <2>1, SameNoMore, NoMoreAllowed, RoomKept
<1>6. CASE ChangePlan
  <2>1. book' = book /\ tenantRow' = Nobody
    BY <1>6 DEF ChangePlan
  <2>2. QED
    BY <2>1, SameNoMore, NoMoreAllowed, RoomVacuous
<1>7. QED
  BY <1>1, <1>2, <1>3, <1>4, <1>5, <1>6 DEF QuotasNext

-----------------------------------------------------------------------------
(* Quotas: the projects of a plan.                                         *)

LEMMA OpenFinite ==
    ASSUME NEW ps PROVE IsFiniteSet(Open(ps)) /\ Cardinality(Open(ps)) \in Nat
<1>1. Open(ps) \subseteq Slugs /\ IsFiniteSet(Slugs)
  BY QuotasAssumption DEF Open
<1>2. QED
  BY <1>1, FS_Subset, FS_CardinalityType

LEMMA OpenFewer ==
    ASSUME NEW ps, NEW qs, Open(qs) \subseteq Open(ps)
    PROVE  Cardinality(Open(qs)) <= Cardinality(Open(ps))
BY OpenFinite, FS_Subset

LEMMA OpenOneMore ==
    ASSUME NEW ps, NEW qs, NEW p, Open(qs) \subseteq Open(ps) \cup {p}
    PROVE  Cardinality(Open(qs)) <= Cardinality(Open(ps)) + 1
<1> DEFINE A == Open(ps)
           B == Open(qs)
<1>1. IsFiniteSet(A) /\ Cardinality(A) \in Nat /\ IsFiniteSet(B) /\ Cardinality(B) \in Nat
  BY OpenFinite
<1>2. B \subseteq A \cup {p}
  OBVIOUS
<1> HIDE DEF A, B
<1>3. CASE p \in A
  <2>1. B \subseteq A
    BY <1>2, <1>3
  <2>2. Cardinality(B) <= Cardinality(A)
    BY <1>1, <2>1, FS_Subset
  <2>3. QED
    BY <1>1, <2>2 DEF A, B
<1>4. CASE p \notin A
  <2>1. IsFiniteSet(A \cup {p}) /\ Cardinality(A \cup {p}) = Cardinality(A) + 1
    BY <1>1, <1>4, FS_AddElement
  <2>2. Cardinality(B) <= Cardinality(A \cup {p})
    BY <1>2, <2>1, FS_Subset
  <2>3. QED
    BY <2>1, <2>2 DEF A, B
<1>5. QED
  BY <1>3, <1>4

LEMMA LimitOfPlan ==
    /\ ProjectLimit["trial"] \in Nat /\ ProjectLimit["starter"] \in Nat
    /\ ProjectLimit["trial"] <= ProjectLimit["starter"]
BY QuotasAssumption

LEMMA FewerProjects ==
    ASSUME QuotaForm, ProjectsWithinPlan, ProjectRoom, Open(places') \subseteq Open(places),
           tenant' = tenant,
           \A a \in Askers : asker'[a].pc = "creating" => asker[a].pc = "creating"
    PROVE  ProjectsWithinPlan' /\ ProjectRoom'
<1> DEFINE m == Cardinality(Open(places))
           n == Cardinality(Open(places'))
           limit == ProjectLimit[tenant.plan]
<1>1. n <= m /\ m \in Nat /\ n \in Nat
  BY OpenFewer, OpenFinite
<1>2. tenant.plan # "expired" => limit \in Nat
  BY LimitOfPlan DEF QuotaForm, QuotaTypes, Plans
<1>3. tenant.plan # "expired" => m <= limit
  BY DEF ProjectsWithinPlan
<1>4. tenant.plan # "expired" => n <= limit
  <2> HIDE DEF m, n, limit
  <2> QED BY <1>1, <1>2, <1>3
<1>5. ASSUME NEW a \in Askers, asker'[a].pc = "creating"
      PROVE  tenant.plan # "expired" /\ n < limit
  <2>1. tenant.plan # "expired" /\ m < limit
    BY <1>5 DEF ProjectRoom
  <2> HIDE DEF m, n, limit
  <2>2. QED
    BY <1>1, <1>2, <2>1
<1>6. ProjectsWithinPlan'
  BY <1>4 DEF ProjectsWithinPlan
<1>7. ProjectRoom'
  BY <1>5 DEF ProjectRoom
<1>8. QED
  BY <1>6, <1>7

LEMMA OpenSame ==
    ASSUME NEW ps, NEW qs, \A p \in Slugs : qs[p].state = ps[p].state \/ qs[p].state # "active"
    PROVE  Open(qs) \subseteq Open(ps)
BY DEF Open

LEMMA NotCreating ==
    ASSUME QuotaForm, NEW a \in Askers,
           \/ Check(a) \/ Reserve(a) \/ BeginImport(a) \/ EndImport(a)
           \/ Deliver(a) \/ Publish(a) \/ CreateReserve(a)
    PROVE  /\ \A b \in Askers : asker'[b].pc = "creating" => asker[b].pc = "creating"
           /\ tenant' = tenant
           /\ \A p \in Slugs : places'[p].state = places[p].state
<1>0. asker \in [Askers -> Asker]
  BY DEF QuotaForm, QuotaTypes
<1>1. PICK v : asker' = [asker EXCEPT ![a] = v] /\ v.pc # "creating"
  <2>0. asker[a] \in Asker /\ NotAsking.pc = "idle"
    BY <1>0 DEF NotAsking
  <2>1. CASE Check(a)
    <3>1. PICK p, kind : Goes(a, [NotAsking EXCEPT !.pc = "checked", !.kind = kind, !.of = p])
      BY <2>1 DEF Check
    <3>2. [NotAsking EXCEPT !.pc = "checked", !.kind = kind, !.of = p].pc = "checked"
      BY DEF NotAsking
    <3>3. QED
      BY <3>1, <3>2 DEF Goes
  <2>2. CASE Reserve(a) \/ BeginImport(a) \/ CreateReserve(a)
    <3>1. \/ Goes(a, [asker[a] EXCEPT !.pc = "publish", !.row = Len(book) + 1])
          \/ Goes(a, [asker[a] EXCEPT !.pc = "importing", !.row = Len(book) + 1])
          \/ Goes(a, [asker[a] EXCEPT !.pc = "publish"])
          \/ Goes(a, NotAsking)
      <4>1. CASE Reserve(a)
        BY <4>1 DEF Reserve, Inserted
      <4>2. CASE BeginImport(a)
        BY <4>2 DEF BeginImport
      <4>3. CASE CreateReserve(a)
        BY <4>3 DEF CreateReserve
      <4>4. QED
        BY <2>2, <4>1, <4>2, <4>3
    <3>2. /\ [asker[a] EXCEPT !.pc = "publish", !.row = Len(book) + 1].pc = "publish"
          /\ [asker[a] EXCEPT !.pc = "importing", !.row = Len(book) + 1].pc = "importing"
          /\ [asker[a] EXCEPT !.pc = "publish"].pc = "publish"
      BY <2>0 DEF Asker
    <3>3. QED
      BY <2>0, <3>1, <3>2 DEF Goes
  <2>3. CASE Deliver(a)
    <3>1. PICK p : Goes(a, [NotAsking EXCEPT !.pc = "publish", !.kind = "deliver", !.of = p,
                                !.row = Len(book) + 1])
      BY <2>3 DEF Deliver
    <3>2. [NotAsking EXCEPT !.pc = "publish", !.kind = "deliver", !.of = p,
                                !.row = Len(book) + 1].pc = "publish"
      BY DEF NotAsking
    <3>3. QED
      BY <3>1, <3>2 DEF Goes
  <2>4. CASE EndImport(a) \/ Publish(a)
    BY <2>0, <2>4 DEF EndImport, Publish, Goes
  <2>5. QED
    BY <2>1, <2>2, <2>3, <2>4
<1>2. tenant' = tenant
  BY DEF Check, Reserve, BeginImport, EndImport, Deliver, Publish, CreateReserve
<1>3. ASSUME NEW p \in Slugs PROVE places'[p].state = places[p].state
  <2>1. places \in [Slugs -> Place]
    BY DEF QuotaForm, QuotaTypes
  <2>2. PICK q, pool : places' = places \/ places' = [places EXCEPT ![q].pool = pool]
    BY DEF Check, Reserve, BeginImport, EndImport, Deliver, Publish, CreateReserve
  <2>3. QED
    BY <2>1, <2>2 DEF Place
<1>4. QED
  BY <1>0, <1>1, <1>2, <1>3

LEMMA ProjectsOfRequest ==
    ASSUME QuotaForm, QuotaForm', ProjectsWithinPlan, ProjectRoom, NEW a \in Askers, Request(a)
    PROVE  ProjectsWithinPlan' /\ ProjectRoom'
<1>1. CASE \/ Check(a) \/ Reserve(a) \/ BeginImport(a) \/ EndImport(a)
           \/ Deliver(a) \/ Publish(a) \/ CreateReserve(a)
  BY <1>1, NotCreating, OpenSame, FewerProjects
<1>2. CASE CreateCheck(a)
  <2>1. places' = places /\ tenant' = tenant /\ MayCreate
    BY <1>2 DEF CreateCheck
  <2>2. ProjectsWithinPlan'
    BY <2>1 DEF ProjectsWithinPlan
  <2>3. tenant.plan # "expired" /\ Cardinality(Open(places)) < ProjectLimit[tenant.plan]
    BY <2>1 DEF MayCreate, ProductAccess
  <2>4. QED
    BY <2>1, <2>2, <2>3 DEF ProjectRoom
<1>3. CASE CreateCommit(a)
  <2> DEFINE p == asker[a].of
             m == Cardinality(Open(places))
             n == Cardinality(Open(places'))
             limit == ProjectLimit[tenant.plan]
  <2>1. tenant' = tenant /\ asker[a].pc = "creating" /\ EndsTransaction(a)
    BY <1>3 DEF CreateCommit
  <2>2. tenantRow' = Nobody
    BY <2>1 DEF EndsTransaction, QuotaForm, TenantHeld, HoldsTenant
  <2>3. tenant.plan # "expired" /\ m < limit
    BY <2>1 DEF ProjectRoom
  <2>4. Open(places') \subseteq Open(places) \cup {p}
    <3>1. places \in [Slugs -> Place]
      BY DEF QuotaForm, QuotaTypes
    <3>2. PICK to : places' = places \/ places' = [places EXCEPT ![p] = to]
      BY <1>3 DEF CreateCommit
    <3>3. \A q \in Slugs : q # p => places'[q] = places[q]
      BY <3>1, <3>2
    <3>4. QED
      BY <3>3 DEF Open
  <2>5. n <= m + 1 /\ m \in Nat /\ n \in Nat
    BY <2>4, OpenOneMore, OpenFinite
  <2>6. limit \in Nat
    BY <2>3, LimitOfPlan DEF QuotaForm, QuotaTypes, Plans
  <2>7. n <= limit
    <3> HIDE DEF m, n, limit
    <3> QED BY <2>3, <2>5, <2>6
  <2>8. ProjectsWithinPlan'
    BY <2>1, <2>7 DEF ProjectsWithinPlan
  <2>9. QED
    BY <2>2, <2>8, RoomVacuous
<1>4. QED
  BY <1>1, <1>2, <1>3 DEF Request

LEMMA ProjectsKept ==
    ASSUME QuotaForm, QuotaForm', ProjectsWithinPlan, ProjectRoom, [QuotasNext]_quotaVars
    PROVE  ProjectsWithinPlan' /\ ProjectRoom'
<1>0. places \in [Slugs -> Place]
  BY DEF QuotaForm, QuotaTypes
<1>1. CASE \E a \in Askers : Request(a)
  BY <1>1, ProjectsOfRequest
<1>2. CASE \E i \in DOMAIN book : Run(i) \/ End(i) \/ CancelQueued(i)
  <2>1. places' = places /\ tenant' = tenant /\ asker' = asker
    BY <1>2 DEF Run, End, CancelQueued
  <2>2. QED
    BY <2>1, OpenSame, FewerProjects
<1>3. CASE PublishRetest \/ \E p \in Slugs : Retest(p)
  <2>1. tenant' = tenant /\ asker' = asker
    BY <1>3 DEF PublishRetest, Retest
  <2>2. PICK q, days : places' = places \/ places' = [places EXCEPT ![q].done = days]
    BY <1>3 DEF PublishRetest, Retest
  <2>3. \A p \in Slugs : places'[p].state = places[p].state
    BY <1>0, <2>2 DEF Place
  <2>4. QED
    BY <2>1, <2>3, OpenSame, FewerProjects
<1>4. CASE \E p \in Slugs : Archive(p)
  <2>1. PICK q \in Slugs : places' = [places EXCEPT ![q].state = "archived"]
    BY <1>4 DEF Archive
  <2>2. tenant' = tenant /\ asker' = asker
    BY <1>4 DEF Archive
  <2>3. \A p \in Slugs : places'[p].state = places[p].state \/ places'[p].state # "active"
    BY <1>0, <2>1 DEF Place
  <2>4. QED
    BY <2>2, <2>3, OpenSame, FewerProjects
<1>5. CASE NextDay \/ UNCHANGED quotaVars
  <2>1. places' = places /\ tenant' = tenant /\ asker' = asker
    BY <1>5 DEF NextDay, quotaVars
  <2>2. QED
    BY <2>1, OpenSame, FewerProjects
<1>6. CASE ChangePlan
  <2>1. places' = places /\ tenantRow' = Nobody
    BY <1>6 DEF ChangePlan
  <2>2. tenant'.plan # "expired" => tenant.plan = "trial" /\ tenant'.plan = "starter"
    <3>1. tenant' = [tenant EXCEPT !.plan = IF @ = "trial" THEN "starter" ELSE "expired"]
      BY <1>6 DEF ChangePlan
    <3>2. tenant \in Plans
      BY DEF QuotaForm, QuotaTypes
    <3>3. QED
      BY <3>1, <3>2 DEF Plans
  <2>3. tenant'.plan # "expired" => Cardinality(Open(places)) <= ProjectLimit["starter"]
    <3>1. ASSUME tenant.plan = "trial" PROVE Cardinality(Open(places)) <= ProjectLimit["trial"]
      BY <3>1 DEF ProjectsWithinPlan
    <3>2. Cardinality(Open(places)) \in Nat
      BY OpenFinite
    <3>3. QED
      BY <2>2, <3>1, <3>2, LimitOfPlan
  <2>4. ProjectsWithinPlan'
    BY <2>1, <2>2, <2>3 DEF ProjectsWithinPlan
  <2>5. QED
    BY <2>1, <2>4, RoomVacuous
<1>7. QED
  BY <1>1, <1>2, <1>3, <1>4, <1>5, <1>6 DEF QuotasNext

-----------------------------------------------------------------------------
(* Quotas: the days of the retests.                                        *)

Once(b) ==
    \A i, j \in 1 .. Len(b) :
        /\ b[i].of = b[j].of /\ b[i].day = b[j].day /\ b[i].day # 0
        /\ Live(b[i]) /\ Live(b[j])
        => i = j
Days == Once(book) /\ DaysDone /\ PutBack

SameDays == \A p \in Slugs : places'[p].done = places[p].done

LEMMA OfSlugs ==
    ASSUME QuotaForm, NEW i \in 1 .. Len(book)
    PROVE  book[i].of \in Slugs
BY RowTyped DEF JobRow

LEMMA DaysSame ==
    ASSUME QuotaForm, Days, book' = book, SameDays, sweep' = sweep
    PROVE  Days'
<1>1. DaysDone'
  BY OfSlugs DEF Days, DaysDone, SameDays
<1>2. PutBack'
  <2>1. ASSUME sweep.pc = "publish"
        PROVE  /\ places'[book[sweep.row].of].done = sweep.done \cup {book[sweep.row].day}
               /\ book[sweep.row].day \notin sweep.done
    <3>1. sweep.row \in 1 .. Len(book)
      BY <2>1 DEF QuotaForm, OwnRow
    <3>2. book[sweep.row].of \in Slugs
      BY <3>1, OfSlugs
    <3>3. QED
      BY <2>1, <3>2 DEF Days, PutBack, SameDays
  <2>2. QED
    BY <2>1 DEF PutBack
<1>3. QED
  BY <1>1, <1>2 DEF Days

LEMMA DaysMoved ==
    ASSUME QuotaForm, Days, NEW i, NEW new, RowMoves(i, new), SameDays,
           sweep' = sweep \/ sweep'.pc = "idle"
    PROVE  Days'
<1>1. book \in Seq(JobRow) /\ Len(book) \in Nat
  BY LenProperties DEF QuotaForm, QuotaTypes
<1>2. /\ Len(book') = Len(book) /\ book'[i] = new
      /\ \A j \in 1 .. Len(book) : j # i => book'[j] = book[j]
  BY <1>1, MovedBook DEF RowMoves, Fades
<1>3. new.of = book[i].of /\ new.day = book[i].day /\ (Live(new) => Live(book[i]))
  BY DEF RowMoves, Fades
<1>4. \A j \in 1 .. Len(book) : /\ book'[j].of = book[j].of /\ book'[j].day = book[j].day
                                /\ Live(book'[j]) => Live(book[j])
  BY <1>2, <1>3
<1>5. Once(book')
  BY <1>2, <1>4 DEF Days, Once
<1>6. DaysDone'
  BY <1>2, <1>4, OfSlugs DEF Days, DaysDone, SameDays
<1>7. PutBack'
  <2>1. ASSUME sweep.pc = "publish", sweep' = sweep
        PROVE  /\ places'[book'[sweep.row].of].done = sweep.done \cup {book'[sweep.row].day}
               /\ book'[sweep.row].day \notin sweep.done
    <3>1. sweep.row \in 1 .. Len(book)
      BY <2>1 DEF QuotaForm, OwnRow
    <3>2. book[sweep.row].of \in Slugs
      BY <3>1, OfSlugs
    <3>3. QED
      BY <1>4, <2>1, <3>1, <3>2 DEF Days, PutBack, SameDays
  <2>2. QED
    BY <2>1 DEF PutBack
<1>8. QED
  BY <1>5, <1>6, <1>7 DEF Days

LEMMA DaysAdded ==
    ASSUME QuotaForm, Days, NEW row, RowAdded(row), row.day = 0, SameDays, sweep' = sweep
    PROVE  Days'
<1>1. book \in Seq(JobRow) /\ Len(book) \in Nat
  BY LenProperties DEF QuotaForm, QuotaTypes
<1>2. /\ Len(book') = Len(book) + 1 /\ book'[Len(book')] = row
      /\ \A j \in 1 .. Len(book) : book'[j] = book[j]
  BY <1>1, AddedBook DEF RowAdded
<1>3. \A j \in 1 .. Len(book') : book'[j].day # 0 => j \in 1 .. Len(book)
  BY <1>1, <1>2
<1>4. Once(book')
  BY <1>1, <1>2, <1>3 DEF Days, Once
<1>5. DaysDone'
  BY <1>2, <1>3, OfSlugs DEF Days, DaysDone, SameDays
<1>6. PutBack'
  <2>1. ASSUME sweep.pc = "publish"
        PROVE  /\ places'[book'[sweep.row].of].done = sweep.done \cup {book'[sweep.row].day}
               /\ book'[sweep.row].day \notin sweep.done
    <3>1. sweep.row \in 1 .. Len(book)
      BY <2>1 DEF QuotaForm, OwnRow
    <3>2. book[sweep.row].of \in Slugs
      BY <3>1, OfSlugs
    <3>3. QED
      BY <1>2, <2>1, <3>1, <3>2 DEF Days, PutBack, SameDays
  <2>2. QED
    BY <2>1 DEF PutBack
<1>7. QED
  BY <1>4, <1>5, <1>6 DEF Days

\* A retest is of a day that was not done.
LEMMA DaysOfRetest ==
    ASSUME QuotaForm, Days, NEW p \in Slugs, Retest(p)
    PROVE  Days'
<1>1. PICK row : RetestRow(p, row)
  BY RetestForm
<1>2. book \in Seq(JobRow) /\ Len(book) \in Nat /\ places \in [Slugs -> Place]
  BY LenProperties DEF QuotaForm, QuotaTypes
<1>3. /\ Len(book') = Len(book) + 1 /\ book'[Len(book) + 1] = row /\ row.of = p
      /\ \A j \in 1 .. Len(book) : book'[j] = book[j]
  BY <1>1, <1>2, AddedBook DEF RetestRow, RowAdded
<1>4. row.day \notin places[p].done
  BY <1>1 DEF RetestRow, Due
<1>5. places' = [places EXCEPT ![p].done = @ \cup {row.day}]
      /\ sweep' = [pc |-> "publish", row |-> Len(book) + 1, done |-> places[p].done]
  BY <1>1 DEF RetestRow
<1>6. /\ places'[p].done = places[p].done \cup {row.day}
      /\ \A q \in Slugs : q # p => places'[q].done = places[q].done
  BY <1>2, <1>5 DEF Place
<1>7. \A j \in 1 .. Len(book) : book[j].of = p /\ Live(book[j]) /\ book[j].day # 0 => book[j].day # row.day
  BY <1>4 DEF Days, DaysDone
<1>8. Once(book')
  <2>1. ASSUME NEW i \in 1 .. Len(book'), NEW j \in 1 .. Len(book'),
               book'[i].of = book'[j].of, book'[i].day = book'[j].day, book'[i].day # 0,
               Live(book'[i]), Live(book'[j])
        PROVE  i = j
    <3>1. i \in 1 .. Len(book) \/ i = Len(book) + 1
      BY <1>2, <1>3
    <3>2. j \in 1 .. Len(book) \/ j = Len(book) + 1
      BY <1>2, <1>3
    <3>3. CASE i \in 1 .. Len(book) /\ j \in 1 .. Len(book)
      BY <1>3, <2>1, <3>3 DEF Days, Once
    <3>4. CASE i \in 1 .. Len(book) /\ j = Len(book) + 1
      BY <1>3, <1>7, <2>1, <3>4
    <3>5. CASE i = Len(book) + 1 /\ j \in 1 .. Len(book)
      BY <1>3, <1>7, <2>1, <3>5
    <3>6. QED
      BY <3>1, <3>2, <3>3, <3>4, <3>5
  <2>2. QED
    BY <2>1 DEF Once
<1>9. DaysDone'
  <2>1. ASSUME NEW i \in 1 .. Len(book'), Live(book'[i]), book'[i].day # 0
        PROVE  book'[i].day \in places'[book'[i].of].done
    <3>1. CASE i \in 1 .. Len(book)
      <4>1. book[i].day \in places[book[i].of].done /\ book[i].of \in Slugs
        BY <1>3, <2>1, <3>1, OfSlugs DEF Days, DaysDone
      <4>2. QED
        BY <1>3, <1>6, <3>1, <4>1
    <3>2. CASE i = Len(book) + 1
      BY <1>3, <1>6, <3>2
    <3>3. QED
      BY <1>2, <1>3, <3>1, <3>2
  <2>2. QED
    BY <2>1 DEF DaysDone
<1>10. PutBack'
  BY <1>3, <1>4, <1>5, <1>6 DEF PutBack
<1>11. QED
  BY <1>8, <1>9, <1>10 DEF Days

\* A retest that was not published is due again, and its row is dead.
LEMMA DaysPutBack ==
    ASSUME QuotaForm, Days, PublishRetest
    PROVE  Days'
<1> DEFINE r == sweep.row
<1>1. r \in 1 .. Len(book) /\ Waiting(book[r]) /\ sweep.pc = "publish" /\ sweep'.pc = "idle"
  BY DEF PublishRetest, QuotaForm, OwnRow, QuotaTypes, Sweeper
<1>2. CASE places' = places
  BY <1>1, <1>2, PublishRetestForm, DaysMoved DEF SameDays
<1>3. CASE /\ book' = [book EXCEPT ![r] = Failed(book[r])]
           /\ places' = [places EXCEPT ![book[r].of].done = sweep.done]
  <2> DEFINE p == book[r].of
             day == book[r].day
  <2>1. book \in Seq(JobRow) /\ Len(book) \in Nat /\ places \in [Slugs -> Place]
        /\ book[r] \in JobRow /\ p \in Slugs
    BY <1>1, LenProperties, RowTyped, OfSlugs DEF QuotaForm, QuotaTypes
  <2>2. Failed(book[r]) \in JobRow
    BY <2>1, FailedIsRow
  <2>3. /\ Len(book') = Len(book) /\ book'[r] = Failed(book[r])
        /\ \A j \in 1 .. Len(book) : j # r => book'[j] = book[j]
    BY <1>1, <1>3, <2>1, <2>2, MovedBook
  <2>4. Live(book[r]) /\ ~Live(Failed(book[r]))
    BY <1>1, <2>1 DEF Waiting, Live, Failed, JobRow
  <2>5. places'[p].done = sweep.done /\ \A q \in Slugs : q # p => places'[q].done = places[q].done
    BY <1>3, <2>1 DEF Place
  <2>6. places[p].done = sweep.done \cup {day}
    BY <1>1 DEF Days, PutBack
  <2>7. Once(book')
    BY <2>3, <2>4 DEF Days, Once
  <2>8. DaysDone'
    <3>1. ASSUME NEW j \in 1 .. Len(book), Live(book'[j]), book'[j].day # 0
          PROVE  book'[j].day \in places'[book'[j].of].done
      <4>1. j # r /\ book'[j] = book[j]
        BY <2>3, <2>4, <3>1
      <4>2. book[j].day \in places[book[j].of].done /\ book[j].of \in Slugs
        BY <3>1, <4>1, OfSlugs DEF Days, DaysDone
      <4>3. CASE book[j].of = p
        <5>1. book[j].day # day
          BY <1>1, <2>4, <3>1, <4>1, <4>3 DEF Days, Once
        <5>2. QED
          BY <2>5, <2>6, <4>1, <4>2, <4>3, <5>1
      <4>4. CASE book[j].of # p
        BY <2>5, <4>1, <4>2, <4>4
      <4>5. QED
        BY <4>3, <4>4
    <3>2. QED
      BY <2>3, <3>1 DEF DaysDone
  <2>9. PutBack'
    BY <1>1 DEF PutBack
  <2>10. QED
    BY <2>7, <2>8, <2>9 DEF Days
<1>4. QED
  BY <1>2, <1>3 DEF PublishRetest

LEMMA SameDaysOf ==
    ASSUME QuotaForm,
           \/ \E a \in Askers : Request(a)
           \/ \E i \in DOMAIN book : Run(i) \/ End(i) \/ CancelQueued(i)
           \/ \E p \in Slugs : Archive(p)
           \/ NextDay \/ ChangePlan \/ UNCHANGED quotaVars
    PROVE  SameDays /\ sweep' = sweep
<1>1. places \in [Slugs -> Place]
  BY DEF QuotaForm, QuotaTypes
<1>2. sweep' = sweep
  BY DEF Request, Check, Reserve, BeginImport, EndImport, Deliver, Publish, CreateCheck,
         CreateCommit, CreateReserve, Run, End, CancelQueued, Archive, NextDay, ChangePlan, quotaVars
<1>3. ASSUME NEW a \in Askers, Request(a) PROVE SameDays
  <2>1. CASE CreateCommit(a)
    <3> DEFINE p == asker[a].of
               pool == places[p].pool \/ (asker[a].samples /\ Catalog # <<>>)
               born == IF places[p].state = "absent" THEN today ELSE places[p].born
               opened == [places[p] EXCEPT !.state = "active", !.born = born, !.pool = pool]
    <3>1. places' = places \/ places' = [places EXCEPT ![p] = opened]
      BY <2>1 DEF CreateCommit
    <3>2. p \in Slugs => opened.done = places[p].done
      <4>1. p \in Slugs => places[p] \in Place
        BY <1>1
      <4> HIDE DEF p, pool, born
      <4>2. QED
        BY <4>1 DEF Place
    <3> HIDE DEF opened, p
    <3>3. ASSUME NEW q \in Slugs PROVE places'[q].done = places[q].done
      BY <1>1, <3>1, <3>2
    <3>4. QED
      BY <3>3 DEF SameDays
  <2>2. CASE Reserve(a)
    <3>1. PICK p, pool : places' = places \/ places' = [places EXCEPT ![p].pool = pool]
      BY <2>2 DEF Reserve
    <3>2. QED
      BY <1>1, <3>1 DEF SameDays, Place
  <2>3. CASE places' = places
    BY <2>3 DEF SameDays
  <2>4. QED
    BY <1>3, <2>1, <2>2, <2>3 DEF Request, Check, BeginImport, EndImport, Deliver, Publish,
       CreateCheck,
                                  CreateReserve
<1>4. ASSUME NEW p \in Slugs, Archive(p) PROVE SameDays
  <2>1. p \in Slugs /\ places[p] \in Place
    BY <1>1
  <2> DEFINE shut == [places[p] EXCEPT !.state = "archived"]
  <2>2. places' = [places EXCEPT ![p] = shut]
    BY <1>4 DEF Archive
  <2>3. shut.done = places[p].done
    BY <2>1 DEF Place
  <2> HIDE DEF shut
  <2>4. \A q \in Slugs : places'[q].done = places[q].done
    BY <1>1, <2>2, <2>3
  <2>5. QED
    BY <2>4 DEF SameDays
<1>5. ASSUME places' = places PROVE SameDays
  BY <1>5 DEF SameDays
<1>6. QED
  BY <1>2, <1>3, <1>4, <1>5 DEF Run, End, CancelQueued, NextDay, ChangePlan, quotaVars

LEMMA DaysKept ==
    ASSUME QuotaForm, Days, [QuotasNext]_quotaVars
    PROVE  Days'
<1>1. CASE \E a \in Askers : Request(a)
  <2>1. PICK a \in Askers : Request(a)
    BY <1>1
  <2>2. SameDays /\ sweep' = sweep
    BY <1>1, SameDaysOf
  <2>3. \/ book' = book
        \/ \E i, new : RowMoves(i, new)
        \/ \E row : RowAdded(row) /\ row.day = 0
    <3>1. CASE Check(a) \/ CreateCheck(a)
      BY <3>1 DEF Check, CreateCheck
    <3>2. CASE EndImport(a) \/ Publish(a) \/ CreateReserve(a)
      BY <3>2, EndImportForm, PublishForm, CreateReserveForm
    <3>3. CASE Reserve(a) \/ BeginImport(a) \/ CreateCommit(a)
      <4>1. book' = book \/ \E row : ReserveRow(a, row)
        BY <3>3, ReserveForm, BeginImportForm, CreateCommitForm
      <4>2. QED
        BY <4>1 DEF ReserveRow
    <3>4. CASE Deliver(a)
      BY <3>4, DeliverForm
    <3>5. QED
      BY <2>1, <3>1, <3>2, <3>3, <3>4 DEF Request
  <2>4. QED
    BY <2>2, <2>3, DaysSame, DaysMoved, DaysAdded
<1>2. CASE \E i \in DOMAIN book : Run(i) \/ End(i) \/ CancelQueued(i)
  BY <1>2, WorkerForm, SameDaysOf, DaysMoved
<1>3. CASE \E p \in Slugs : Retest(p)
  BY <1>3, DaysOfRetest
<1>4. CASE PublishRetest
  BY <1>4, DaysPutBack
<1>5. CASE (\E p \in Slugs : Archive(p)) \/ NextDay \/ ChangePlan \/ UNCHANGED quotaVars
  <2>1. book' = book
    BY <1>5 DEF Archive, NextDay, ChangePlan, quotaVars
  <2>2. QED
    BY <1>5, <2>1, SameDaysOf, DaysSame
<1>6. QED
  BY <1>1, <1>2, <1>3, <1>4, <1>5 DEF QuotasNext

-----------------------------------------------------------------------------
(* Quotas: the theorems.                                                   *)

QuotaInv ==
    /\ QuotaForm
    /\ Allowed(book) /\ ImportRoom
    /\ ProjectsWithinPlan /\ ProjectRoom
    /\ Days

LEMMA QuotaInvInit == QuotasInit => QuotaInv
<1> SUFFICES ASSUME QuotasInit PROVE QuotaInv
  OBVIOUS
<1>1. QuotaForm
  BY QuotaFormInit
<1>2. Len(book) = 0 /\ sweep.pc = "idle"
  BY DEF QuotasInit
<1>3. /\ \A a \in Askers : asker[a].pc = "idle"
      /\ \A p \in Slugs : places[p].state = "absent"
      /\ tenant.plan = "trial"
  BY DEF QuotasInit, NotAsking, NoProject
<1>4. Allowed(book)
  <2>1. \A ps : Admitted(book, ps) = {}
    BY <1>2 DEF Admitted
  <2>2. PerProject \in Nat /\ LifetimeLimit \in Nat
    BY QuotasAssumption DEF LifetimeLimit
  <2>3. Cardinality({}) = 0
    BY FS_EmptySet
  <2>4. QED
    BY <2>1, <2>2, <2>3 DEF Allowed
<1>5. ProjectsWithinPlan
  <2>1. Open(places) = {}
    BY <1>3 DEF Open
  <2>2. QED
    BY <1>3, <2>1, FS_EmptySet, LimitOfPlan DEF ProjectsWithinPlan
<1>6. ImportRoom /\ ProjectRoom
  BY <1>3 DEF ImportRoom, ProjectRoom
<1>7. Days
  BY <1>2 DEF Days, Once, DaysDone, PutBack
<1>8. QED
  BY <1>1, <1>4, <1>5, <1>6, <1>7 DEF QuotaInv

LEMMA QuotaInvKept == QuotaInv /\ [QuotasNext]_quotaVars => QuotaInv'
BY QuotaFormKept, AllowanceKept, ProjectsKept, DaysKept DEF QuotaInv

\* What the invariant says.
LEMMA QuotaInvMeans ==
    ASSUME QuotaInv
    PROVE  QuotasTypeOK /\ TrialAllowance /\ ProjectsWithinPlan /\ RetestsOnce
<1>1. DOMAIN book = 1 .. Len(book)
  BY LenProperties DEF QuotaInv, QuotaForm, QuotaTypes
<1>2. QuotasTypeOK
  <2>1. \A i \in DOMAIN book : book[i] \in JobRow
    BY <1>1, RowTyped DEF QuotaInv
  <2>2. QuotaTypes
    BY DEF QuotaInv, QuotaForm
  <2>3. \A a \in Askers : asker[a].pc \in {"idle", "checked", "importing", "publish", "creating", "reserve"}
    BY <2>2 DEF QuotaTypes, Asker
  <2>4. sweep.pc \in {"idle", "publish"}
    BY <2>2 DEF QuotaTypes, Sweeper
  <2>5. /\ tenant \in [plan : {"trial", "starter", "expired"}, ends : Nat]
        /\ places \in [Slugs -> [state : {"absent", "active", "archived"}, born : Nat,
                             pool : BOOLEAN, done : SUBSET RetestDays]]
    BY <2>2 DEF QuotaTypes, Plans, Place
  <2>6. QED
    BY <2>1, <2>2, <2>3, <2>4, <2>5 DEF QuotasTypeOK, QuotaTypes
<1>3. TrialAllowance
  <2>1. ASSUME NEW ps PROVE AdmittedRuns(ps) = Cardinality(Admitted(book, ps))
    <3>1. {i \in DOMAIN book : book[i].of \in ps /\ book[i].gated
                     /\ CountedRow(book[i]) /\ RowSampled(book[i])} = Admitted(book, ps)
      BY <1>1 DEF Admitted, Admits
    <3>2. QED
      BY <3>1 DEF AdmittedRuns
  <2>2. QED
    BY <2>1 DEF QuotaInv, Allowed, TrialAllowance
<1>4. RetestsOnce
  BY <1>1 DEF QuotaInv, Days, Once, Live, RetestsOnce
<1>5. QED
  BY <1>2, <1>3, <1>4 DEF QuotaInv

\* A project that was asked to sample is created without it only for want of money.
PromiseKept ==
    \A i \in DOMAIN book' :
          ~(i \in DOMAIN book) /\ book'[i].action = "bootstrap" =>
          \E a \in Askers :
             /\ asker[a].pc = "creating" /\ asker[a].of = book'[i].of
             /\ asker[a].samples =>
                  \/ Promised = {}
                  \/ OnTrial /\ customer.keys = {} /\ (~TrialPoolLeft \/ StarterPlan = {})

LEMMA NoBootstrap ==
    ASSUME QuotaForm,
           \/ book' = book
           \/ \E i, new : RowMoves(i, new)
           \/ \E row : RowAdded(row) /\ row.action # "bootstrap"
    PROVE  PromiseKept
<1>1. book \in Seq(JobRow) /\ Len(book) \in Nat /\ DOMAIN book = 1 .. Len(book)
  BY LenProperties DEF QuotaForm, QuotaTypes
<1>2. ASSUME NEW i \in DOMAIN book', ~(i \in DOMAIN book) PROVE book'[i].action # "bootstrap"
  <2>1. CASE book' = book
    BY <1>2, <2>1
  <2>2. CASE \E j, new : RowMoves(j, new)
    BY <1>2, <2>2 DEF RowMoves
  <2>3. CASE \E row : RowAdded(row) /\ row.action # "bootstrap"
    <3>1. PICK row : RowAdded(row) /\ row.action # "bootstrap"
      BY <2>3
    <3>2. book' \in Seq(JobRow) /\ Len(book') = Len(book) + 1 /\ book'[Len(book')] = row
      BY <1>1, <3>1, AddedBook DEF RowAdded
    <3>3. DOMAIN book' = 1 .. Len(book')
      BY <3>2, LenProperties
    <3>4. i = Len(book')
      BY <1>1, <1>2, <3>2, <3>3
    <3>5. QED
      BY <3>1, <3>2, <3>4
  <2>4. QED
    BY <2>1, <2>2, <2>3
<1>3. QED
  BY <1>2 DEF PromiseKept

LEMMA PromiseOfCreate ==
    ASSUME QuotaForm, NEW a \in Askers, CreateCommit(a)
    PROVE  PromiseKept
<1> DEFINE p == asker[a].of
           asked == asker[a].samples
           pool == places[p].pool \/ (asked /\ Catalog # <<>>)
           samples == Samples(pool, asked)
           blank == Blank(p, IF samples THEN "autopilot" ELSE "bootstrap")
           row == [(IF samples THEN Gated(blank) ELSE blank) EXCEPT !.samples = samples]
<1>1. book \in Seq(JobRow) /\ Len(book) \in Nat /\ DOMAIN book = 1 .. Len(book)
      /\ asker[a].pc = "creating" /\ asker[a] \in Asker
  BY LenProperties DEF QuotaForm, QuotaTypes, CreateCommit
<1>2. book' = book \/ book' = Append(book, row)
  BY DEF CreateCommit
<1>3. ASSUME NEW i \in DOMAIN book', ~(i \in DOMAIN book), book'[i].action = "bootstrap"
      PROVE  book'[i].of = p /\ ~samples
  <2>1. book' = Append(book, row)
    BY <1>2, <1>3
  <2>2. row.of = p /\ row.action = IF samples THEN "autopilot" ELSE "bootstrap"
    <3> HIDE DEF samples, p
    <3> QED BY DEF Blank, Gated
  <2> HIDE DEF row
  <2>3. DOMAIN book' = 1 .. (Len(book) + 1) /\ book'[Len(book) + 1] = row
    BY <1>1, <2>1
  <2>4. i = Len(book) + 1
    BY <1>1, <1>3, <2>3
  <2>5. QED
    BY <1>3, <2>2, <2>3, <2>4
<1>4. ASSUME ~samples, asked
      PROVE  Promised = {} \/ (OnTrial /\ customer.keys = {} /\ (~TrialPoolLeft \/ StarterPlan = {}))
  <2>1. \/ ~SamplingAccess(pool)
        \/ OnTrial /\ customer.keys = {} /\ pool /\ StarterPlan = {}
    <3> HIDE DEF pool
    <3> QED BY <1>4 DEF Samples
  <2>2. ASSUME ~SamplingAccess(pool), Promised # {}
        PROVE  OnTrial /\ customer.keys = {} /\ ~TrialPoolLeft
    <3>1. customer.keys = {}
      BY <2>2 DEF SamplingAccess
    <3>2. tenant.plan # "expired" /\ ToSet(Catalog) # {}
      BY <2>2, <3>1 DEF Promised
    <3>3. Catalog # <<>>
      BY <3>2 DEF ToSet
    <3>4. pool
      BY <1>4, <3>3
    <3> HIDE DEF pool
    <3>5. QED
      BY <2>2, <3>1, <3>2, <3>3, <3>4 DEF SamplingAccess
  <2>3. QED
    BY <2>1, <2>2
<1>5. QED
  BY <1>1, <1>3, <1>4 DEF PromiseKept

LEMMA PromisesKept ==
    ASSUME QuotaForm, [QuotasNext]_quotaVars
    PROVE  PromiseKept
<1>1. ASSUME NEW a \in Askers, Request(a) PROVE PromiseKept
  <2>1. CASE CreateCommit(a)
    BY <2>1, PromiseOfCreate
  <2>2. CASE Check(a) \/ CreateCheck(a)
    BY <2>2, NoBootstrap DEF Check, CreateCheck
  <2>3. CASE Reserve(a) \/ BeginImport(a)
    <3>1. book' = book \/ \E row : ReserveRow(a, row) /\ row.action # "bootstrap"
      BY <2>3, ReserveForm, BeginImportForm
    <3>2. QED
      BY <3>1, NoBootstrap DEF ReserveRow
  <2>4. CASE EndImport(a) \/ Publish(a) \/ CreateReserve(a) \/ Deliver(a)
    BY <2>4, EndImportForm, PublishForm, CreateReserveForm, DeliverForm, NoBootstrap
  <2>5. QED
    BY <1>1, <2>1, <2>2, <2>3, <2>4 DEF Request
<1>2. ASSUME NEW p \in Slugs, Retest(p) PROVE PromiseKept
  <2>1. PICK row : RetestRow(p, row)
    BY <1>2, RetestForm
  <2>2. QED
    BY <2>1, NoBootstrap DEF RetestRow
<1>3. CASE book' = book
  BY <1>3, NoBootstrap
<1>4. QED
  BY <1>1, <1>2, <1>3, WorkerForm, PublishRetestForm, NoBootstrap
     DEF QuotasNext, Archive, NextDay, ChangePlan, quotaVars

\* However requests, imports, retries, retests and changes of the plan interleave, a
\* trial is admitted no more runs than its allowance, a workspace opens no more
\* projects than its plan, a retest runs once, and a project that is asked to sample
\* is created without it only when nobody would pay.
THEOREM AllowancesKept == QuotasSpec => AllowancesHold
<1>1. QuotasSpec => []QuotaInv
  BY QuotaInvInit, QuotaInvKept, PTL DEF QuotasSpec
<1>2. QuotaInv => TrialAllowance /\ ProjectsWithinPlan /\ RetestsOnce
  BY QuotaInvMeans
<1>3. QuotaInv /\ [QuotasNext]_quotaVars => [PromiseKept]_quotaVars
  BY PromisesKept DEF QuotaInv
<1>4. CreatedAsPromised <=> [][PromiseKept]_quotaVars
  BY DEF CreatedAsPromised, PromiseKept
<1>5. QED
  BY <1>1, <1>2, <1>3, <1>4, PTL DEF QuotasSpec, AllowancesHold

-----------------------------------------------------------------------------
(* Billing: what the variables hold.                                       *)

PlanName == Plan \cup {"trial", "expired"}
WrittenPlan == PlanName \cup {None}

StripeAnswer == [plan : Plan, status : Current, end : Time]

OwnerRequest ==
    {NoRequest}
        \cup [step : {"signed in", "usage"}, plan : PlanName]
        \cup [step : {"checkout"}, row : 1 .. MaxRows, locks : BOOLEAN, plan : WrittenPlan]
        \cup [step : {"change"}, row : 1 .. MaxRows, locks : {TRUE}, plan : WrittenPlan,
              answer : StripeAnswer]
        \cup [step : {"cancel"}, row : 1 .. MaxRows, marks : BOOLEAN, plan : WrittenPlan]

EventEffect == [put : SubscriptionRow \cup {None}, plan : WrittenPlan,
                pay : {"none", "succeeded", "failed", "refunded"}, amount : 0 .. 3,
                done : BOOLEAN, rejected : BOOLEAN]

Transaction == [step : {"commit"}, event : Event, row : 0 .. MaxRows, effect : EventEffect,
                locks : SUBSET (1 .. MaxRows), key : 0 .. MaxEvents]

WebhookState == {NoEvent} \cup [step : {"received"}, event : Event] \cup Transaction

\* A session of Checkout is named by the events about it only; every event
\* about a subscription tells its plan.
WellFormed(e) ==
    /\ e \in Event
    /\ e.type \notin {"expired", "refund"} =>
         /\ e.sub \in Sub /\ e.plan \in Plan /\ e.invoice # 0
         /\ e.status \notin {"pending", "incomplete"}
    /\ IF e.type \in {"checkout", "expired"} THEN e.session # 0 ELSE e.session = 0

StripeTypes ==
    /\ stripe \in [Sub -> StripeSub]
    /\ \A s \in Sub : stripe[s].status # "none" => stripe[s].plan \in Plan
    /\ \A s \in Sub : stripe[s].answers \subseteq StripeAnswer
    /\ sessions \in [1 .. MaxRows -> Session]
    /\ refunded \in [Sub -> 0 .. 3]

EventTypes ==
    /\ IsFiniteSet(events)
    /\ \A e \in events : WellFormed(e)

TableTypes ==
    /\ rows \in Seq(SubscriptionRow) /\ Len(rows) <= MaxRows
    /\ plan \in PlanName
    /\ ledger \subseteq 1 .. MaxEvents /\ acked \subseteq 1 .. MaxEvents
    /\ notified \subseteq 1 .. MaxEvents
    /\ IsFiniteSet(payments) /\ payments \subseteq Payment

\* A request or a webhook points to a row that exists, a webhook to an event.
AskingTypes ==
    /\ asking \in [Caller -> OwnerRequest]
    /\ \A r \in Caller : asking[r].step \in {"checkout", "change", "cancel"} =>
            asking[r].row <= Len(rows)

HandlingTypes ==
    /\ handling \in [Handler -> WebhookState]
    /\ \A h \in Handler :
         /\ handling[h].step # "idle" => handling[h].event \in events
         /\ handling[h].step = "commit" => /\ handling[h].row <= Len(rows)
                                           /\ handling[h].locks \subseteq 1 .. Len(rows)

ClockTypes == now \in 0 .. MaxTime /\ lost \in BOOLEAN

BillingTypes == StripeTypes /\ EventTypes /\ TableTypes /\ AskingTypes /\ HandlingTypes /\ ClockTypes

-----------------------------------------------------------------------------
(* Billing: rows, plans and effects.                                       *)

LEMMA RowAt ==
    ASSUME NEW table \in Seq(SubscriptionRow), NEW i \in 1 .. Len(table)
    PROVE  table[i] \in SubscriptionRow
<1>1. table \in [1 .. Len(table) -> SubscriptionRow]
  BY LenProperties
<1>2. QED
  BY <1>1

LEMMA PlanOfTyped ==
    ASSUME NEW table \in Seq(SubscriptionRow), NEW old \in PlanName
    PROVE  PlanOf(table, old) \in PlanName
<1> DEFINE live == {i \in DOMAIN table : IsCurrent(table[i])}
<1>1. CASE live # {}
  <2> DEFINE i == CHOOSE i \in live : TRUE
  <2>1. i \in live
    BY <1>1
  <2>2. i \in 1 .. Len(table)
    BY <2>1, LenProperties
  <2>3. table[i] \in SubscriptionRow
    BY <2>2, RowAt
  <2>4. table[i].plan \in Plan
    BY <2>3 DEF SubscriptionRow
  <2>5. PlanOf(table, old) = table[i].plan
    BY <1>1 DEF PlanOf
  <2>6. QED
    BY <2>4, <2>5 DEF PlanName
<1>2. CASE live = {}
  <2>1. PlanOf(table, old) \in {"expired", old}
    BY <1>2 DEF PlanOf
  <2>2. QED
    BY <2>1 DEF PlanName
<1>3. QED
  BY <1>1, <1>2

LEMMA ChangedTyped ==
    ASSUME NEW p \in PlanName
    PROVE  Changed(p) \in WrittenPlan /\ \A r \in Caller : ChangedIn(r, p) \in WrittenPlan
BY DEF Changed, ChangedIn, WrittenPlan

LEMMA WrittenTyped ==
    ASSUME TableTypes, NEW p \in WrittenPlan
    PROVE  Written(p) \in PlanName
BY DEF Written, WrittenPlan, TableTypes

LEMMA FoundRow ==
    ASSUME TableTypes, NEW e, NEW i, i = Found(e)
    PROVE  /\ i \in 0 .. Len(rows)
           /\ i # 0 => \/ e.sub # None /\ rows[i].sub = e.sub
                       \/ e.session # 0 /\ rows[i].session = e.session
           /\ \A j \in 1 .. Len(rows) : e.sub # None /\ rows[j].sub = e.sub => rows[i].sub = e.sub /\ i # 0
<1> DEFINE bySub == {j \in Ids : e.sub # None /\ rows[j].sub = e.sub}
           bySession == {j \in Ids : e.session # 0 /\ rows[j].session = e.session}
           best == IF bySub # {} THEN bySub ELSE bySession
<1>1. i = IF best = {} THEN 0 ELSE CHOOSE j \in best : TRUE
  BY DEF Found
<1>2. Len(rows) \in Nat
  BY LenProperties DEF TableTypes
<1>3. CASE best = {}
  BY <1>1, <1>2, <1>3 DEF Ids
<1>4. CASE best # {}
  <2>1. i \in best
    BY <1>1, <1>4
  <2>2. QED
    BY <1>2, <2>1 DEF Ids
<1>5. QED
  BY <1>3, <1>4

LEMMA NewRowTyped ==
    ASSUME NEW p \in Plan
    PROVE  NewRow(p) \in SubscriptionRow
<1>1. 0 \in 0 .. MaxRows /\ 0 \in 0 .. MaxTime /\ 0 \in 0 .. MaxTime + 3 * Period
  BY BillingAssumption
<1>2. QED
  BY <1>1 DEF NewRow, SubscriptionRow, RowStatus, Time

LEMMA FreshTyped ==
    ASSUME NEW e, WellFormed(e), e.type \notin {"expired", "refund"}
    PROVE  /\ FreshRow(e) \in SubscriptionRow
           /\ FreshRow(e).sub = e.sub /\ FreshRow(e).session = 0
           /\ FreshRow(e).status = "incomplete" /\ FreshRow(e).plan = e.plan
           /\ FreshRow(e).seen = 0 /\ FreshRow(e).expires = 0
<1>1. e.plan \in Plan /\ e.sub \in Sub
  BY DEF WellFormed
<1>2. NewRow(e.plan) \in SubscriptionRow
  BY <1>1, NewRowTyped
<1>3. QED
  BY <1>1, <1>2 DEF FreshRow, NewRow, SubscriptionRow, RowStatus

LEMMA EffectsTyped ==
    ASSUME NEW r \in SubscriptionRow, NEW p \in WrittenPlan, NEW done \in BOOLEAN
    PROVE  Put(r, p, done) \in EventEffect /\ NoEffect \in EventEffect /\ Rejected \in EventEffect
<1>1. None \in SubscriptionRow \cup {None} /\ None \in WrittenPlan /\ 0 \in 0 .. 3
  BY DEF WrittenPlan
<1>2. NoEffect \in EventEffect
  BY <1>1 DEF NoEffect, EventEffect
<1>3. Rejected \in EventEffect
  BY <1>2 DEF Rejected, EventEffect
<1>4. Put(r, p, done) \in EventEffect
  BY <1>2 DEF Put, EventEffect
<1>5. QED
  BY <1>2, <1>3, <1>4

-----------------------------------------------------------------------------
(* Billing: what an event asks for.                                        *)

Ended == {"canceled", "unpaid"}

\* The row that event e makes of row i: of no other subscription and session
\* than the row had or the event names.
Succeeds(put, e, i) ==
    /\ put \in SubscriptionRow
    /\ put.status # "pending"
    /\ put.sub = IF i # 0 /\ e.type # "checkout" THEN rows[i].sub ELSE e.sub
    /\ put.session = IF e.type = "checkout" THEN e.session
                     ELSE IF i # 0 THEN rows[i].session ELSE 0
    /\ put.status \in Ended =>
         \/ e.type \in {"updated", "deleted"} /\ e.status \in Ended /\ put.seen = e.created
         \/ e.type = "expired" /\ i # 0 /\ rows[i].status = "pending"

\* What every effect keeps to.
Proper(f, e, i) ==
    /\ f \in EventEffect
    /\ f.put # None => Succeeds(f.put, e, i)
    /\ f.pay # "none" => ~f.rejected
    /\ e.type = "checkout" /\ f.done => f.put # None

LEMMA NoEffectProper == ASSUME NEW e, NEW i PROVE Proper(NoEffect, e, i)
<1>1. None \in WrittenPlan /\ 0 \in 0 .. 3
  BY DEF WrittenPlan
<1>2. QED
  BY <1>1 DEF Proper, NoEffect, EventEffect

LEMMA PutProper ==
    ASSUME NEW e, NEW i, NEW r, Succeeds(r, e, i), NEW p \in WrittenPlan, NEW done \in BOOLEAN
    PROVE  Proper(Put(r, p, done), e, i)
<1>1. r # None
  BY NoneAssumption DEF Succeeds
<1>2. r \in SubscriptionRow
  BY DEF Succeeds
<1>3. Put(r, p, done) \in EventEffect
  BY <1>2, EffectsTyped
<1>4. /\ Put(r, p, done).put = r /\ Put(r, p, done).pay = "none"
      /\ Put(r, p, done).done = done
  BY DEF Put, NoEffect
<1>5. QED
  BY <1>1, <1>3, <1>4 DEF Proper

\* The row an event finds, or the new one it begins with.
LEMMA OldRow ==
    ASSUME TableTypes, NEW e, WellFormed(e), NEW i \in 0 .. Len(rows),
           i = 0 => e.type \notin {"expired", "refund"}
    PROVE  /\ (IF i = 0 THEN FreshRow(e) ELSE rows[i]) \in SubscriptionRow
           /\ (IF i = 0 THEN FreshRow(e) ELSE rows[i]).sub = IF i = 0 THEN e.sub ELSE rows[i].sub
           /\ (IF i = 0 THEN FreshRow(e) ELSE rows[i]).session = IF i = 0 THEN 0 ELSE rows[i].session
<1>1. CASE i = 0
  BY <1>1, FreshTyped
<1>2. CASE i # 0
  <2>1. i \in 1 .. Len(rows) /\ rows \in Seq(SubscriptionRow)
    BY <1>2, LenProperties DEF TableTypes
  <2>2. QED
    BY <1>2, <2>1, RowAt
<1>3. QED
  BY <1>1, <1>2

LEMMA PlanWithTyped ==
    ASSUME TableTypes, NEW i \in 0 .. Len(rows), NEW r \in SubscriptionRow
    PROVE  Changed(PlanWith(i, r)) \in WrittenPlan
<1>1. rows \in Seq(SubscriptionRow) /\ plan \in PlanName
  BY DEF TableTypes
<1>2. Append(rows, r) \in Seq(SubscriptionRow)
  BY <1>1, AppendProperties
<1>3. i # 0 => [rows EXCEPT ![i] = r] \in Seq(SubscriptionRow)
  BY <1>1, ExceptSeq, LenProperties
<1>4. PlanWith(i, r) \in PlanName
  BY <1>1, <1>2, <1>3, PlanOfTyped DEF PlanWith
<1>5. QED
  BY <1>4, ChangedTyped

LEMMA CheckoutProper ==
    ASSUME TableTypes, StripeTypes, NEW e, WellFormed(e), e.type = "checkout",
           NEW i \in 0 .. Len(rows)
    PROVE  Proper(ActivateCheckout(e, i), e, i)
<1> DEFINE old == IF i = 0 THEN FreshRow(e) ELSE rows[i]
           end == sessions[e.session].at + Period
           new == [old EXCEPT !.plan = e.plan, !.sub = e.sub, !.session = e.session,
                              !.seen = e.created, !.expires = end]
           beside == [new EXCEPT !.status = "incomplete"]
           active == [new EXCEPT !.status = "active", !.cancels = FALSE]
<1>1. old \in SubscriptionRow
  BY OldRow
<1>2. /\ e.session \in 1 .. MaxRows /\ e.plan \in Plan /\ e.sub \in Sub /\ e.created \in 0 .. MaxTime
      /\ e.session \in 0 .. MaxRows
  BY BillingAssumption DEF WellFormed, Event
<1>3. end \in Time
  <2>1. sessions[e.session] \in Session
    BY <1>2 DEF StripeTypes
  <2>2. sessions[e.session].at \in 0 .. MaxTime
    BY <2>1 DEF Session
  <2>3. QED
    BY <2>2, BillingAssumption DEF Time
<1>4. /\ ActivateCheckout(e, i) = IF i # 0 /\ Stale(old, e) THEN NoEffect
                                  ELSE IF Others(i) # {} THEN Put(beside, None, FALSE)
                                  ELSE Put(active, Changed(e.plan), TRUE)
  BY DEF ActivateCheckout
<1>5. new \in SubscriptionRow /\ new.sub = e.sub /\ new.session = e.session
  <2> HIDE DEF old, end
  <2> QED BY <1>1, <1>2, <1>3 DEF SubscriptionRow
<1> HIDE DEF new
<1>6. /\ beside \in SubscriptionRow /\ beside.sub = e.sub /\ beside.session = e.session
      /\ beside.status = "incomplete"
  BY <1>5 DEF SubscriptionRow, RowStatus
<1>7. /\ active \in SubscriptionRow /\ active.sub = e.sub /\ active.session = e.session
      /\ active.status = "active"
  BY <1>5 DEF SubscriptionRow, RowStatus, Current
<1> HIDE DEF beside, active
<1>8. Succeeds(beside, e, i) /\ Succeeds(active, e, i)
  BY <1>6, <1>7 DEF Succeeds, Ended
<1>9. e.plan \in PlanName
  BY <1>2 DEF PlanName
<1>10. Changed(e.plan) \in WrittenPlan /\ None \in WrittenPlan
  BY <1>9, ChangedTyped DEF WrittenPlan
<1>11. Proper(Put(beside, None, FALSE), e, i) /\ Proper(Put(active, Changed(e.plan), TRUE), e, i)
  BY <1>8, <1>10, PutProper
<1>12. QED
  BY <1>4, <1>11, NoEffectProper

LEMMA UpdateProper ==
    ASSUME TableTypes, NEW e, WellFormed(e), e.type \in {"updated", "deleted"},
           NEW i \in 0 .. Len(rows)
    PROVE  Proper(UpdateSubscription(e, i), e, i)
<1> DEFINE old == IF i = 0 THEN FreshRow(e) ELSE rows[i]
           blocked == e.status \in Current /\ Others(i) # {}
           status == IF blocked THEN "incomplete" ELSE e.status
           new == [old EXCEPT !.status = status, !.cancels = e.cancels, !.expires = e.end,
                              !.seen = e.created, !.plan = e.plan]
<1>1. /\ old \in SubscriptionRow /\ old.sub = IF i = 0 THEN e.sub ELSE rows[i].sub
      /\ old.session = IF i = 0 THEN 0 ELSE rows[i].session
  BY OldRow
<1>2. /\ e.plan \in Plan /\ e.created \in 0 .. MaxTime /\ e.cancels \in BOOLEAN /\ e.end \in Time
      /\ e.status \in RowStatus /\ e.status \notin {"pending", "incomplete"}
  BY DEF WellFormed, Event
<1>3. status \in RowStatus /\ status # "pending" /\ status \in {"incomplete", e.status}
  BY <1>2 DEF RowStatus
<1>4. UpdateSubscription(e, i) = IF Stale(old, e) /\ e.end <= old.expires THEN NoEffect
                                 ELSE Put(new, Changed(PlanWith(i, new)), ~blocked)
  BY DEF UpdateSubscription
<1>5. /\ new \in SubscriptionRow /\ new.sub = old.sub /\ new.session = old.session
      /\ new.status = status /\ new.seen = e.created
  <2> HIDE DEF old, status
  <2> QED BY <1>1, <1>2, <1>3 DEF SubscriptionRow
<1>6. Changed(PlanWith(i, new)) \in WrittenPlan
  <2> HIDE DEF new
  <2> QED BY <1>5, PlanWithTyped
<1>7. Succeeds(new, e, i)
  <2> HIDE DEF new, old, status
  <2> QED BY <1>1, <1>3, <1>5 DEF Succeeds, Ended
<1>8. Proper(Put(new, Changed(PlanWith(i, new)), ~blocked), e, i)
  <2> HIDE DEF new
  <2> QED BY <1>6, <1>7, PutProper
<1>9. QED
  BY <1>4, <1>8, NoEffectProper

LEMMA ExpireProper ==
    ASSUME TableTypes, NEW e, WellFormed(e), e.type = "expired", NEW i \in 0 .. Len(rows)
    PROVE  Proper(ExpireCheckout(e, i), e, i)
<1> DEFINE new == [rows[i] EXCEPT !.status = "canceled", !.seen = e.created]
<1>1. CASE i # 0 /\ rows[i].status = "pending"
  <2>1. rows[i] \in SubscriptionRow
    BY <1>1, OldRow
  <2>2. e.created \in 0 .. MaxTime
    BY DEF WellFormed, Event
  <2>3. /\ new \in SubscriptionRow /\ new.sub = rows[i].sub /\ new.session = rows[i].session
        /\ new.status = "canceled"
    BY <2>1, <2>2 DEF SubscriptionRow, RowStatus
  <2> HIDE DEF new
  <2>4. Succeeds(new, e, i)
    BY <1>1, <2>3 DEF Succeeds
  <2>5. None \in WrittenPlan
    BY DEF WrittenPlan
  <2>6. Proper(Put(new, None, TRUE), e, i)
    BY <2>4, <2>5, PutProper
  <2>7. QED
    BY <1>1, <2>6 DEF ExpireCheckout, new
<1>2. CASE ~(i # 0 /\ rows[i].status = "pending")
  BY <1>2, NoEffectProper DEF ExpireCheckout
<1>3. QED
  BY <1>1, <1>2

\* An invoice is recorded, or refused, or dropped because its subscription has
\* ended; it keeps the row's subscription.
LEMMA InvoiceProper ==
    ASSUME TableTypes, NEW e, WellFormed(e), e.type \in {"failed", "paid"},
           NEW i \in 0 .. Len(rows)
    PROVE  /\ Proper(UpdateInvoice(e, i), e, i)
           /\ e.type = "paid" =>
                \/ UpdateInvoice(e, i).pay = "succeeded"
                \/ UpdateInvoice(e, i).rejected
                \/ i # 0 /\ Stale(rows[i], e) /\ rows[i].status \in Ended
           /\ i = 0 => UpdateInvoice(e, i).put # None
<1> DEFINE paid  == e.type = "paid"
           old   == IF i = 0 THEN [FreshRow(e) EXCEPT !.seen = e.created, !.started = e.created]
                    ELSE rows[i]
           stale == i # 0 /\ Stale(old, e)
           ended == paid /\ old.status \in {"canceled", "unpaid"}
           pay == IF paid THEN "succeeded" ELSE "failed"
           record == [NoEffect EXCEPT !.pay = pay, !.done = TRUE]
           With(r, p) == [record EXCEPT !.put = r, !.plan = p]
           beside == [old EXCEPT !.status = "incomplete", !.seen = e.created]
           new == [old EXCEPT !.status = IF paid THEN "active" ELSE "past_due",
                              !.expires = IF paid THEN Later(e.end, @) ELSE @,
                              !.seen = e.created]
<1>1. e.plan \in Plan /\ e.created \in 0 .. MaxTime /\ e.end \in Time
  BY DEF WellFormed, Event
<1>2. /\ old \in SubscriptionRow /\ old.sub = IF i = 0 THEN e.sub ELSE rows[i].sub
      /\ old.session = IF i = 0 THEN 0 ELSE rows[i].session
      /\ i = 0 => old.status = "incomplete" /\ old.plan = e.plan
  <2>1. CASE i = 0
    <3>1. FreshRow(e) \in SubscriptionRow
      BY FreshTyped
    <3>2. old = [FreshRow(e) EXCEPT !.seen = e.created, !.started = e.created]
      BY <2>1
    <3>3. QED
      BY <2>1, <3>1, <3>2, <1>1, FreshTyped DEF SubscriptionRow
  <2>2. CASE i # 0
    BY <2>2, OldRow
  <2>3. QED
    BY <2>1, <2>2
<1>3. UpdateInvoice(e, i) =
        IF stale /\ ended THEN NoEffect
        ELSE IF paid /\ ~e.prorated /\ e.plan # old.plan THEN Rejected
        ELSE IF stale \/ (ended /\ Others(i) # {}) THEN record
        ELSE IF Others(i) # {} THEN With(beside, None)
        ELSE With(new, Changed(PlanWith(i, new)))
  BY DEF UpdateInvoice
<1>4. /\ i # 0 => old = rows[i]
      /\ ended => paid /\ old.status \in Ended
  BY DEF Ended
<1>5. i = 0 => ~stale /\ ~ended
  BY <1>2
<1>6. Later(e.end, old.expires) \in Time
  BY <1>1, <1>2 DEF Later, SubscriptionRow
<1>7. /\ beside \in SubscriptionRow /\ beside.sub = old.sub /\ beside.session = old.session
      /\ beside.status = "incomplete"
  <2> HIDE DEF old
  <2> QED BY <1>1, <1>2 DEF SubscriptionRow, RowStatus
<1>8. /\ new \in SubscriptionRow /\ new.sub = old.sub /\ new.session = old.session
      /\ new.status \in {"active", "past_due"}
  <2> HIDE DEF old
  <2> QED BY <1>1, <1>2, <1>6 DEF SubscriptionRow, RowStatus, Current
<1> HIDE DEF beside, new
<1>9. Succeeds(beside, e, i) /\ Succeeds(new, e, i)
  <2> HIDE DEF old
  <2> QED BY <1>2, <1>7, <1>8 DEF Succeeds, Ended
<1>10. Changed(PlanWith(i, new)) \in WrittenPlan /\ None \in WrittenPlan
  BY <1>8, PlanWithTyped DEF WrittenPlan
<1>11. /\ record \in EventEffect /\ record.put = None /\ record.pay = pay /\ ~record.rejected
  <2>1. pay \in {"succeeded", "failed"} /\ 0 \in 0 .. 3
    OBVIOUS
  <2> HIDE DEF pay
  <2> QED BY <1>10, <2>1 DEF NoEffect, EventEffect
<1>12. Proper(record, e, i)
  <2> HIDE DEF record
  <2> QED BY <1>11 DEF Proper
<1>13. ASSUME NEW r, Succeeds(r, e, i), NEW p \in WrittenPlan
       PROVE  /\ Proper(With(r, p), e, i) /\ With(r, p).put = r
              /\ With(r, p).pay = record.pay
  <2>1. r \in SubscriptionRow /\ r # None
    BY <1>13, NoneAssumption DEF Succeeds
  <2>2. /\ With(r, p) \in EventEffect /\ With(r, p).put = r
        /\ With(r, p).pay = record.pay /\ ~With(r, p).rejected
    <3> HIDE DEF record
    <3> QED BY <1>11, <1>13, <2>1 DEF EventEffect
  <2> HIDE DEF With
  <2>3. QED
    BY <1>13, <2>2 DEF Proper
<1>14. Proper(Rejected, e, i) /\ Rejected.rejected
  <2>1. /\ Rejected.put = None /\ Rejected.pay = "none" /\ Rejected.rejected /\ ~Rejected.done
    BY DEF Rejected, NoEffect
  <2>2. Rejected \in EventEffect
    BY <1>2, <1>10, EffectsTyped
  <2>3. QED
    BY <2>1, <2>2 DEF Proper
<1> DEFINE w1 == With(beside, None)
           w2 == With(new, Changed(PlanWith(i, new)))
<1>15. /\ Proper(w1, e, i) /\ w1.put = beside /\ w1.pay = record.pay
       /\ Proper(w2, e, i) /\ w2.put = new /\ w2.pay = record.pay
  <2> HIDE DEF With
  <2> QED BY <1>9, <1>10, <1>13
<1>16. beside # None /\ new # None
  BY <1>7, <1>8, NoneAssumption
<1> HIDE DEF record, With
<1>17. Proper(UpdateInvoice(e, i), e, i)
  <2> HIDE DEF w1, w2, stale, ended, paid, old
  <2> QED BY <1>3, <1>12, <1>14, <1>15, NoEffectProper DEF w1, w2
<1>18. i = 0 => UpdateInvoice(e, i).put # None
  <2>1. i = 0 => e.plan = old.plan
    BY <1>2
  <2> HIDE DEF w1, w2, stale, ended, paid, old
  <2> QED BY <1>3, <1>5, <1>15, <1>16, <2>1 DEF w1, w2
<1>19. paid => \/ UpdateInvoice(e, i).pay = "succeeded"
               \/ UpdateInvoice(e, i).rejected
               \/ stale /\ ended
  <2> HIDE DEF w1, w2, stale, ended, old
  <2> QED BY <1>3, <1>11, <1>14, <1>15 DEF w1, w2
<1>20. QED
  BY <1>4, <1>17, <1>18, <1>19

LEMMA RefundsAreNat ==
    ASSUME TableTypes, NEW invoice
    PROVE  RecordedRefunds(invoice) \in Nat
<1> DEFINE f == [p \in payments |-> p.amount]
           S == {p \in payments : p.invoice = invoice /\ p.status = "refunded"}
<1>1. IsFiniteSet(S)
  BY FS_Subset DEF TableTypes
<1>2. \A p \in S : f[p] \in Nat
  BY DEF TableTypes, Payment
<1>3. RecordedRefunds(invoice) = SumFunctionOnSet(f, S)
  BY DEF RecordedRefunds
<1> HIDE DEF f, S
<1>4. QED
  BY <1>1, <1>2, <1>3, SumIsNat

LEMMA RefundProper ==
    ASSUME TableTypes, NEW e, WellFormed(e), e.type = "refund", NEW i \in 0 .. Len(rows)
    PROVE  Proper(RecordRefund(e, i), e, i)
<1> DEFINE before == RecordedRefunds(e.invoice)
           amount == IF e.total > before THEN e.total - before ELSE 0
           f == [NoEffect EXCEPT !.pay = "refunded", !.done = TRUE, !.amount = amount]
<1>1. amount \in 0 .. 3
  <2>1. before \in Nat
    BY RefundsAreNat
  <2>2. e.total \in 0 .. 3
    BY DEF WellFormed, Event
  <2> HIDE DEF before
  <2>3. QED
    BY <2>1, <2>2
<1>2. None \in WrittenPlan
  BY DEF WrittenPlan
<1>3. RecordRefund(e, i) = IF \E p \in payments : p.invoice = e.invoice /\ p.status = "succeeded"
                           THEN f ELSE NoEffect
  BY DEF RecordRefund
<1> HIDE DEF amount
<1>4. f \in EventEffect /\ f.put = None /\ ~f.rejected
  BY <1>1, <1>2 DEF NoEffect, EventEffect
<1> HIDE DEF f
<1>5. Proper(f, e, i)
  BY <1>4 DEF Proper
<1>6. QED
  BY <1>3, <1>5, NoEffectProper

LEMMA EffectProper ==
    ASSUME TableTypes, StripeTypes, NEW e, WellFormed(e), NEW i \in 0 .. Len(rows)
    PROVE  Proper(Effect(e, i), e, i)
<1>1. e.type \in EventType
  BY DEF WellFormed, Event
<1>2. CASE e.type = "checkout"
  BY <1>2, CheckoutProper DEF Effect
<1>3. CASE e.type = "expired"
  BY <1>3, ExpireProper DEF Effect
<1>4. CASE e.type \in {"updated", "deleted"}
  BY <1>4, UpdateProper DEF Effect
<1>5. CASE e.type \in {"failed", "paid"}
  BY <1>5, InvoiceProper DEF Effect
<1>6. CASE e.type = "refund"
  BY <1>6, RefundProper DEF Effect
<1>7. QED
  BY <1>1, <1>2, <1>3, <1>4, <1>5, <1>6 DEF EventType

-----------------------------------------------------------------------------
(* Billing: what Stripe emits.                                             *)

LEMMA EventCount == ASSUME EventTypes PROVE Cardinality(events) \in Nat /\ NextInvoice \in Nat \ {0}
<1>1. Cardinality(events) \in Nat
  BY FS_CardinalityType DEF EventTypes
<1>2. QED
  BY <1>1 DEF NextInvoice

\* The fields an event has from the subscription it is about.
LEMMA AboutFields ==
    ASSUME ClockTypes, NEW type \in EventType, NEW s \in Sub, NEW sub \in StripeSub,
           sub.status # "none", NextInvoice \in 1 .. MaxEvents
    PROVE  /\ About(type, s, sub) \in Event
           /\ About(type, s, sub).type = type /\ About(type, s, sub).sub = s
           /\ About(type, s, sub).plan = sub.plan /\ About(type, s, sub).status = sub.status
           /\ About(type, s, sub).session = 0 /\ About(type, s, sub).invoice = NextInvoice
           /\ About(type, s, sub).created = now
           /\ sub.status \notin {"pending", "incomplete"}
<1>1. /\ 1 \in 1 .. MaxEvents /\ 0 \in 0 .. MaxRows /\ 0 \in 0 .. MaxTime + 3 * Period
      /\ 0 \in 0 .. MaxEvents /\ 0 \in 0 .. 3 /\ NextInvoice \in 0 .. MaxEvents
  BY BillingAssumption
<1>2. BlankEvent \in Event
  BY <1>1 DEF BlankEvent, Event, EventType, RowStatus, Current, ClockTypes, Time
<1>3. sub.status \in RowStatus /\ sub.status \notin {"pending", "incomplete"}
  BY DEF StripeSub, RowStatus, Current
<1>4. sub.plan \in Plan \cup {None} /\ sub.end \in Time /\ sub.cancels \in BOOLEAN
  BY DEF StripeSub
<1>5. BlankEvent.session = 0 /\ BlankEvent.created = now
  BY DEF BlankEvent
<1>6. QED
  BY <1>1, <1>2, <1>3, <1>4, <1>5 DEF About, Event

\* Of a subscription that has begun, of which every event tells the plan.
LEMMA AboutFormed ==
    ASSUME ClockTypes, NEW type \in EventType \ {"checkout", "expired"}, NEW s \in Sub,
           NEW sub \in StripeSub, sub.status # "none", sub.plan \in Plan,
           NextInvoice \in 1 .. MaxEvents
    PROVE  WellFormed(About(type, s, sub))
<1>1. /\ About(type, s, sub) \in Event
      /\ About(type, s, sub).type = type /\ About(type, s, sub).sub = s
      /\ About(type, s, sub).plan = sub.plan /\ About(type, s, sub).status = sub.status
      /\ About(type, s, sub).session = 0 /\ About(type, s, sub).invoice = NextInvoice
      /\ sub.status \notin {"pending", "incomplete"}
  BY AboutFields
<1>2. QED
  BY <1>1 DEF WellFormed

Numbered(e, n) == [e EXCEPT !.id = n]

LEMMA NumberedFormed ==
    ASSUME NEW e, WellFormed(e), NEW n \in 1 .. MaxEvents
    PROVE  /\ WellFormed(Numbered(e, n)) /\ Numbered(e, n).id = n
           /\ \A f \in {"type", "created", "sub", "session", "plan", "status", "end",
                        "cancels", "prorated", "invoice", "total"} : Numbered(e, n)[f] = e[f]
<1>1. e \in Event
  BY DEF WellFormed
<1>2. /\ Numbered(e, n) \in Event /\ Numbered(e, n).id = n /\ Numbered(e, n).type = e.type
      /\ Numbered(e, n).sub = e.sub /\ Numbered(e, n).plan = e.plan
      /\ Numbered(e, n).invoice = e.invoice /\ Numbered(e, n).status = e.status
      /\ Numbered(e, n).session = e.session
  BY <1>1 DEF Numbered, Event
<1>3. \A f \in {"type", "created", "sub", "session", "plan", "status", "end",
                "cancels", "prorated", "invoice", "total"} : Numbered(e, n)[f] = e[f]
  BY <1>1 DEF Numbered, Event
<1>4. QED
  BY <1>2, <1>3 DEF WellFormed

\* The events of one moment are numbered from the next number on.
LEMMA EmitTyped ==
    ASSUME EventTypes, NEW seq, DOMAIN seq = 1 .. Len(seq), Len(seq) \in Nat,
           Emit(seq), \A k \in 1 .. Len(seq) : WellFormed(seq[k])
    PROVE  /\ EventTypes'
           /\ events' = events \cup {Numbered(seq[k], Cardinality(events) + k) : k \in 1 .. Len(seq)}
           /\ Cardinality(events) + Len(seq) <= MaxEvents
<1> DEFINE n == Cardinality(events)
           new == {Numbered(seq[k], n + k) : k \in 1 .. Len(seq)}
<1>1. n \in Nat
  BY EventCount
<1>2. n + Len(seq) <= MaxEvents /\ events' = events \cup new
  BY DEF Emit, Numbered
<1>3. IsFiniteSet(new)
  <2>1. IsFiniteSet(1 .. Len(seq))
    BY FS_Interval
  <2> DEFINE f == [k \in 1 .. Len(seq) |-> Numbered(seq[k], n + k)]
  <2>2. new = {f[k] : k \in 1 .. Len(seq)}
    OBVIOUS
  <2>3. f \in Surjection(1 .. Len(seq), new)
    <3>1. f \in [1 .. Len(seq) -> new]
      OBVIOUS
    <3>2. \A x \in new : \E k \in 1 .. Len(seq) : f[k] = x
      OBVIOUS
    <3>3. QED
      BY <3>1, <3>2 DEF Surjection
  <2>4. QED
    BY <2>1, <2>3, FS_Surjection
<1>4. ASSUME NEW e \in new PROVE WellFormed(e)
  <2>1. PICK k \in 1 .. Len(seq) : e = Numbered(seq[k], n + k)
    OBVIOUS
  <2>2. n + k \in 1 .. MaxEvents
    BY <1>1, <1>2, BillingAssumption
  <2>3. WellFormed(seq[k])
    OBVIOUS
  <2>4. QED
    BY <2>1, <2>2, <2>3, NumberedFormed
<1>5. IsFiniteSet(events')
  BY <1>2, <1>3, FS_Union DEF EventTypes
<1>6. QED
  BY <1>2, <1>4, <1>5 DEF EventTypes

-----------------------------------------------------------------------------
(* Billing: every step keeps what the variables hold.                      *)

LEMMA BillingTypesInit == BillingInit => BillingTypes
<1> SUFFICES ASSUME BillingInit PROVE BillingTypes
  OBVIOUS
<1>1. /\ 0 \in 0 .. MaxTime + 3 * Period /\ 0 \in 0 .. MaxTime /\ 1 \in 0 .. MaxTime
      /\ 0 \in 0 .. MaxEvents /\ 0 <= MaxRows
  BY BillingAssumption
<1>2. StripeTypes
  BY <1>1 DEF BillingInit, StripeTypes, StripeSub, Session, Time, StripeAnswer
<1>3. EventTypes
  BY FS_EmptySet DEF BillingInit, EventTypes
<1>4. TableTypes
  <2>1. rows \in Seq(SubscriptionRow) /\ Len(rows) = 0
    BY DEF BillingInit
  <2>2. QED
    BY <1>1, <2>1, FS_EmptySet DEF BillingInit, TableTypes, PlanName
<1>5. AskingTypes
  BY DEF BillingInit, AskingTypes, OwnerRequest, NoRequest
<1>6. HandlingTypes
  BY DEF BillingInit, HandlingTypes, WebhookState, NoEvent
<1>7. ClockTypes
  BY <1>1 DEF BillingInit, ClockTypes
<1>8. QED
  BY <1>2, <1>3, <1>4, <1>5, <1>6, <1>7 DEF BillingTypes

\* A request takes r, at a row that exists.
RequestTyped(r) ==
    r \in OwnerRequest /\ (r.step \in {"checkout", "change", "cancel"} => r.row <= Len(rows)')

LEMMA RequestFields ==
    ASSUME NEW x \in OwnerRequest
    PROVE  /\ x.step \in {"checkout", "change", "cancel"} =>
                x.row \in 1 .. MaxRows /\ x.plan \in WrittenPlan
           /\ x.step \in {"signed in", "usage"} => x.plan \in PlanName
           /\ x.step = "checkout" => x.locks \in BOOLEAN
           /\ x.step = "change" => x.locks = TRUE /\ x.answer \in StripeAnswer
           /\ x.step = "cancel" => x.marks \in BOOLEAN
<1>1. CASE x = NoRequest
  BY <1>1 DEF NoRequest
<1>2. CASE x \in [step : {"signed in", "usage"}, plan : PlanName]
  BY <1>2
<1>3. CASE x \in [step : {"checkout"}, row : 1 .. MaxRows, locks : BOOLEAN, plan : WrittenPlan]
  BY <1>3
<1>4. CASE x \in [step : {"change"}, row : 1 .. MaxRows, locks : {TRUE}, plan : WrittenPlan,
                  answer : StripeAnswer]
  BY <1>4
<1>5. CASE x \in [step : {"cancel"}, row : 1 .. MaxRows, marks : BOOLEAN, plan : WrittenPlan]
  BY <1>5
<1>6. QED
  BY <1>1, <1>2, <1>3, <1>4, <1>5 DEF OwnerRequest

LEMMA RequestMoves ==
    ASSUME AskingTypes, Len(rows) \in Nat, Len(rows)' \in Nat, Len(rows) <= Len(rows)',
           NEW r \in Caller, NEW x, RequestTyped(x),
           asking' = [asking EXCEPT ![r] = x]
    PROVE  AskingTypes'
<1>1. asking' \in [Caller -> OwnerRequest]
  BY DEF AskingTypes, RequestTyped
<1>2. ASSUME NEW q \in Caller, asking'[q].step \in {"checkout", "change", "cancel"}
      PROVE  asking'[q].row <= Len(rows)'
  <2>1. CASE q = r
    BY <1>2, <2>1 DEF AskingTypes, RequestTyped
  <2>2. CASE q # r
    <3>1. asking'[q] = asking[q]
      BY <2>2 DEF AskingTypes
    <3>2. asking[q].row <= Len(rows)
      BY <1>2, <3>1 DEF AskingTypes
    <3>3. asking[q].row \in 1 .. MaxRows
      BY <1>2, <3>1, RequestFields DEF AskingTypes
    <3>4. QED
      BY <3>1, <3>2, <3>3, BillingAssumption
  <2>3. QED
    BY <2>1, <2>2
<1>3. QED
  BY <1>1, <1>2 DEF AskingTypes

LEMMA RequestEnds ==
    ASSUME AskingTypes, Len(rows) \in Nat, Len(rows)' \in Nat, Len(rows) <= Len(rows)',
           NEW r \in Caller, Answered(r)
    PROVE  AskingTypes'
<1>1. RequestTyped(NoRequest)
  BY DEF RequestTyped, OwnerRequest, NoRequest
<1>2. QED
  BY <1>1, RequestMoves DEF Answered

LEMMA AskingStays ==
    ASSUME AskingTypes, Len(rows) \in Nat, Len(rows)' \in Nat, Len(rows) <= Len(rows)',
           asking' = asking
    PROVE  AskingTypes'
<1>1. ASSUME NEW q \in Caller, asking'[q].step \in {"checkout", "change", "cancel"}
      PROVE  asking'[q].row <= Len(rows)'
  <2>1. asking[q].row <= Len(rows)
    BY <1>1 DEF AskingTypes
  <2>2. asking[q].row \in 1 .. MaxRows
    BY <1>1, RequestFields DEF AskingTypes
  <2>3. QED
    BY <2>1, <2>2, BillingAssumption
<1>2. QED
  BY <1>1 DEF AskingTypes

\* A webhook takes w.
WebhookTyped(w) ==
    /\ w \in WebhookState
    /\ w.step # "idle" => w.event \in events'
    /\ w.step = "commit" => w.row <= Len(rows)' /\ w.locks \subseteq 1 .. Len(rows)'

LEMMA HandlingStays ==
    ASSUME HandlingTypes, events \subseteq events',
           Len(rows) \in Nat, Len(rows)' \in Nat, Len(rows) <= Len(rows)', NEW h \in Handler
    PROVE  WebhookTyped(handling[h])
<1>1. handling[h] \in WebhookState
  BY DEF HandlingTypes
<1>2. handling[h].step # "idle" => handling[h].event \in events'
  BY DEF HandlingTypes
<1>3. ASSUME handling[h].step = "commit"
      PROVE  handling[h].row <= Len(rows)' /\ handling[h].locks \subseteq 1 .. Len(rows)'
  <2>1. handling[h].row <= Len(rows) /\ handling[h].locks \subseteq 1 .. Len(rows)
    BY <1>3 DEF HandlingTypes
  <2>2. handling[h].row \in 0 .. MaxRows
    BY <1>1, <1>3 DEF WebhookState, NoEvent, Transaction
  <2>3. QED
    BY <2>1, <2>2, BillingAssumption
<1>4. QED
  BY <1>1, <1>2, <1>3 DEF WebhookTyped

LEMMA HandlingKept ==
    ASSUME HandlingTypes, events \subseteq events', handling' = handling,
           Len(rows) \in Nat, Len(rows)' \in Nat, Len(rows) <= Len(rows)'
    PROVE  HandlingTypes'
<1>1. \A h \in Handler : WebhookTyped(handling[h])
  BY HandlingStays
<1>2. QED
  BY <1>1 DEF WebhookTyped, HandlingTypes

LEMMA WebhookMoves ==
    ASSUME HandlingTypes, events \subseteq events',
           Len(rows) \in Nat, Len(rows)' \in Nat, Len(rows) <= Len(rows)',
           NEW h \in Handler, NEW w, WebhookTyped(w), handling' = [handling EXCEPT ![h] = w]
    PROVE  HandlingTypes'
<1>1. \A g \in Handler : WebhookTyped(handling[g])
  BY HandlingStays
<1>2. handling' \in [Handler -> WebhookState]
  BY DEF HandlingTypes, WebhookTyped
<1>3. ASSUME NEW g \in Handler PROVE WebhookTyped(handling'[g])
  BY <1>1 DEF HandlingTypes
<1>4. QED
  BY <1>2, <1>3 DEF WebhookTyped, HandlingTypes

LEMMA RowsLength == ASSUME TableTypes PROVE Len(rows) \in Nat /\ rows \in [1 .. Len(rows) -> SubscriptionRow]
BY LenProperties DEF TableTypes

LEMMA RowPutTyped ==
    ASSUME TableTypes, NEW i \in 1 .. Len(rows), NEW x \in SubscriptionRow,
           rows' = [rows EXCEPT ![i] = x]
    PROVE  rows' \in Seq(SubscriptionRow) /\ Len(rows)' = Len(rows)
BY ExceptSeq DEF TableTypes

LEMMA RowAppended ==
    ASSUME TableTypes, Len(rows) < MaxRows, NEW x \in SubscriptionRow, rows' = Append(rows, x)
    PROVE  rows' \in Seq(SubscriptionRow) /\ Len(rows)' = Len(rows) + 1 /\ Len(rows)' <= MaxRows
<1>1. rows \in Seq(SubscriptionRow) /\ Len(rows) \in Nat
  BY RowsLength DEF TableTypes
<1>2. QED
  BY <1>1, AppendProperties, BillingAssumption

LEMMA SyncedTyped ==
    ASSUME TableTypes, AskingTypes, NEW r \in Caller, asking[r].step \in {"signed in", "usage"}
    PROVE  Synced(r) \in WrittenPlan
<1>1. asking[r].plan \in PlanName
  BY RequestFields DEF AskingTypes
<1>2. rows \in Seq(SubscriptionRow)
  BY DEF TableTypes
<1>3. PlanOf(rows, asking[r].plan) \in PlanName
  BY <1>1, <1>2, PlanOfTyped
<1>4. QED
  BY <1>3, ChangedTyped DEF Synced

\* A step of a request that leaves Stripe and the webhooks alone.
OwnerLeaves(r) ==
    /\ \/ Answered(r)
       \/ \E x : RequestTyped(x) /\ asking' = [asking EXCEPT ![r] = x]
    /\ UNCHANGED <<now, refunded, acked, ledger, notified, payments, handling>>

LEMMA OwnerTyped ==
    ASSUME BillingTypes, NEW r \in Caller, OwnerLeaves(r), StripeTypes', EventTypes',
           events \subseteq events', lost' \in BOOLEAN,
           rows' \in Seq(SubscriptionRow), Len(rows)' <= MaxRows, Len(rows) <= Len(rows)',
           plan' \in PlanName
    PROVE  BillingTypes'
<1>1. Len(rows) \in Nat /\ Len(rows)' \in Nat
  BY RowsLength, LenProperties DEF BillingTypes
<1>2. TableTypes'
  BY DEF BillingTypes, TableTypes, OwnerLeaves
<1>3. AskingTypes'
  <2>1. CASE Answered(r)
    BY <1>1, <2>1, RequestEnds DEF BillingTypes
  <2>2. ASSUME NEW x, RequestTyped(x), asking' = [asking EXCEPT ![r] = x]
        PROVE  AskingTypes'
    BY <1>1, <2>2, RequestMoves DEF BillingTypes
  <2>3. QED
    BY <2>1, <2>2 DEF OwnerLeaves
<1>4. HandlingTypes'
  BY <1>1, HandlingKept DEF BillingTypes, OwnerLeaves
<1>5. ClockTypes'
  BY DEF BillingTypes, ClockTypes, OwnerLeaves
<1>6. QED
  BY <1>2, <1>3, <1>4, <1>5 DEF BillingTypes

\* The same, if the rows stay and Stripe is not changed.
LEMMA OwnerReadsTyped ==
    ASSUME BillingTypes, NEW r \in Caller, OwnerLeaves(r),
           UNCHANGED <<stripeVars, rows, plan, lost>>
    PROVE  BillingTypes'
<1>1. StripeTypes' /\ EventTypes' /\ events \subseteq events' /\ lost' \in BOOLEAN
  BY DEF BillingTypes, StripeTypes, EventTypes, ClockTypes, stripeVars
<1>2. /\ rows' \in Seq(SubscriptionRow) /\ Len(rows)' <= MaxRows /\ Len(rows) <= Len(rows)'
      /\ plan' \in PlanName
  BY RowsLength DEF BillingTypes, TableTypes
<1>3. QED
  BY <1>1, <1>2, OwnerTyped

LEMMA SignInTyped ==
    ASSUME BillingTypes, NEW r \in Caller, SignIn(r) \/ Leave(r) \/ BeginUsage(r)
    PROVE  BillingTypes'
<1>1. UNCHANGED <<now, stripeVars, rows, plan, ledger, notified, payments, handling, lost>>
  BY DEF SignIn, Leave, BeginUsage, tableVars
<1>2. CASE SignIn(r)
  <2> DEFINE x == [step |-> "signed in", plan |-> PlanOf(rows, plan)]
  <2>1. PlanOf(rows, plan) \in PlanName
    BY PlanOfTyped DEF BillingTypes, TableTypes
  <2>2. x \in OwnerRequest /\ x.step = "signed in"
    BY <2>1 DEF OwnerRequest
  <2>3. asking' = [asking EXCEPT ![r] = x]
    BY <1>2 DEF SignIn
  <2> HIDE DEF x
  <2>4. OwnerLeaves(r)
    BY <1>1, <2>2, <2>3 DEF OwnerLeaves, RequestTyped, stripeVars
  <2>5. QED
    BY <1>1, <2>4, OwnerReadsTyped
<1>3. CASE Leave(r)
  <2>1. OwnerLeaves(r)
    BY <1>1, <1>3 DEF OwnerLeaves, Leave, stripeVars
  <2>2. QED
    BY <1>1, <2>1, OwnerReadsTyped
<1>4. CASE BeginUsage(r)
  <2> DEFINE x == [step |-> "usage", plan |-> Synced(r)]
  <2>1. Synced(r) \in PlanName
    BY <1>4, SyncedTyped DEF BeginUsage, BillingTypes, Ask, WrittenPlan
  <2>2. x \in OwnerRequest /\ x.step = "usage"
    BY <2>1 DEF OwnerRequest
  <2>3. asking' = [asking EXCEPT ![r] = x]
    BY <1>4 DEF BeginUsage, Ask
  <2> HIDE DEF x
  <2>4. OwnerLeaves(r)
    BY <1>1, <2>2, <2>3 DEF OwnerLeaves, RequestTyped, stripeVars
  <2>5. QED
    BY <1>1, <2>4, OwnerReadsTyped
<1>5. QED
  BY <1>2, <1>3, <1>4

LEMMA FinishUsageTyped ==
    ASSUME BillingTypes, NEW r \in Caller, FinishUsage(r)
    PROVE  BillingTypes'
<1>1. UNCHANGED <<stripeVars, rows, lost>> /\ OwnerLeaves(r)
  BY DEF FinishUsage, OwnerLeaves, stripeVars
<1>2. plan' \in PlanName
  BY RequestFields DEF FinishUsage, BillingTypes, AskingTypes
<1>3. StripeTypes' /\ EventTypes' /\ events \subseteq events' /\ lost' \in BOOLEAN
  BY <1>1 DEF BillingTypes, StripeTypes, EventTypes, ClockTypes, stripeVars
<1>4. rows' \in Seq(SubscriptionRow) /\ Len(rows)' <= MaxRows /\ Len(rows) <= Len(rows)'
  BY <1>1, RowsLength DEF BillingTypes, TableTypes
<1>5. QED
  BY <1>1, <1>2, <1>3, <1>4, OwnerTyped

LEMMA CheckoutTyped ==
    ASSUME BillingTypes, NEW r \in Caller, NEW p \in Plan,
           BeginCheckout(r, p) \/ \E i \in Ids : RepeatCheckout(r, p, i)
    PROVE  BillingTypes'
<1>1. Len(rows) \in Nat /\ MaxRows \in Nat
  BY RowsLength, BillingAssumption DEF BillingTypes
<1>2. CASE BeginCheckout(r, p)
  <2> DEFINE n == Len(rows) + 1
             x == [step |-> "checkout", row |-> n, locks |-> FALSE, plan |-> None]
  <2>1. /\ rows' = Append(rows, NewRow(p)) /\ Len(rows) < MaxRows
        /\ asking' = [asking EXCEPT ![r] = x] /\ asking[r].step = "signed in"
        /\ plan' = Written(Synced(r))
        /\ UNCHANGED <<now, stripeVars, ledger, notified, payments, handling, lost>>
    BY <1>2 DEF BeginCheckout, Ask
  <2>2. NewRow(p) \in SubscriptionRow
    BY NewRowTyped
  <2>3. rows' \in Seq(SubscriptionRow) /\ Len(rows)' = n /\ Len(rows)' <= MaxRows
    BY <2>1, <2>2, RowAppended DEF BillingTypes
  <2>4. n \in 1 .. MaxRows
    <3>1. Len(rows) < MaxRows
      BY <2>1
    <3>2. QED
      BY <1>1, <3>1
  <2> HIDE DEF n
  <2>5. x \in OwnerRequest /\ x.row = n
    BY <2>4 DEF OwnerRequest, WrittenPlan
  <2>6. n <= Len(rows)'
    BY <2>3, <2>4
  <2> HIDE DEF x
  <2>7. RequestTyped(x)
    BY <2>5, <2>6 DEF RequestTyped
  <2>8. plan' \in PlanName
    BY <2>1, SyncedTyped, WrittenTyped DEF BillingTypes
  <2>9. OwnerLeaves(r)
    BY <2>1, <2>7 DEF OwnerLeaves, stripeVars
  <2>10. StripeTypes' /\ EventTypes' /\ events \subseteq events' /\ lost' \in BOOLEAN
    BY <2>1 DEF BillingTypes, StripeTypes, EventTypes, ClockTypes, stripeVars
  <2>11. Len(rows) <= Len(rows)'
    BY <1>1, <2>3 DEF n
  <2>12. QED
    BY <2>3, <2>8, <2>9, <2>10, <2>11, OwnerTyped
<1>3. ASSUME NEW i \in Ids, RepeatCheckout(r, p, i) PROVE BillingTypes'
  <2> DEFINE s == Synced(r)
             x == [step |-> "checkout", row |-> i, locks |-> TRUE, plan |-> s]
  <2>1. /\ UNCHANGED <<now, stripeVars, tableVars, handling, lost>>
        /\ asking' = [asking EXCEPT ![r] = x] /\ asking[r].step = "signed in"
    BY <1>3 DEF RepeatCheckout, Ask
  <2>2. i \in 1 .. MaxRows /\ i <= Len(rows)
    BY <1>1 DEF Ids, BillingTypes, TableTypes
  <2>3. s \in WrittenPlan
    BY <2>1, SyncedTyped DEF BillingTypes
  <2>4. x \in OwnerRequest /\ x.row = i
    <3> HIDE DEF s
    <3> QED BY <2>2, <2>3 DEF OwnerRequest
  <2>5. Len(rows)' = Len(rows)
    BY <2>1 DEF tableVars
  <2> HIDE DEF x
  <2>6. RequestTyped(x)
    BY <2>2, <2>4, <2>5 DEF RequestTyped
  <2>7. OwnerLeaves(r)
    BY <2>1, <2>6 DEF OwnerLeaves, stripeVars, tableVars
  <2>8. QED
    BY <2>1, <2>7, OwnerReadsTyped DEF tableVars
<1>4. QED
  BY <1>2, <1>3

\* A row keeps to its table when some of its fields are written.
LEMMA WrittenRows ==
    ASSUME NEW i, NEW r \in SubscriptionRow
    PROVE  /\ i \in 1 .. MaxRows => [r EXCEPT !.session = i] \in SubscriptionRow
           /\ [r EXCEPT !.cancels = TRUE] \in SubscriptionRow
           /\ [r EXCEPT !.cancels = TRUE].sub = r.sub
           /\ [r EXCEPT !.cancels = TRUE].session = r.session
           /\ [r EXCEPT !.cancels = TRUE].status = r.status
           /\ [r EXCEPT !.cancels = TRUE].seen = r.seen
           /\ [r EXCEPT !.session = i].sub = r.sub
           /\ [r EXCEPT !.session = i].session = i
           /\ [r EXCEPT !.session = i].status = r.status
           /\ [r EXCEPT !.session = i].seen = r.seen
<1>1. i \in 1 .. MaxRows => i \in 0 .. MaxRows
  BY BillingAssumption
<1>2. i \in 1 .. MaxRows => [r EXCEPT !.session = i] \in SubscriptionRow
  BY <1>1 DEF SubscriptionRow
<1>3. [r EXCEPT !.cancels = TRUE] \in SubscriptionRow
  BY DEF SubscriptionRow
<1>4. /\ [r EXCEPT !.cancels = TRUE].sub = r.sub
      /\ [r EXCEPT !.cancels = TRUE].session = r.session
      /\ [r EXCEPT !.cancels = TRUE].status = r.status
      /\ [r EXCEPT !.cancels = TRUE].seen = r.seen
  BY DEF SubscriptionRow
<1>5. /\ [r EXCEPT !.session = i].sub = r.sub
      /\ [r EXCEPT !.session = i].session = i
      /\ [r EXCEPT !.session = i].status = r.status
      /\ [r EXCEPT !.session = i].seen = r.seen
  BY DEF SubscriptionRow
<1>6. QED
  BY <1>2, <1>3, <1>4, <1>5

LEMMA FinishCheckoutTyped ==
    ASSUME BillingTypes, NEW r \in Caller, NEW stored \in BOOLEAN, FinishCheckout(r, stored)
    PROVE  BillingTypes'
<1> DEFINE i == asking[r].row
<1>1. /\ asking[r].step = "checkout" /\ Answered(r)
      /\ UNCHANGED <<now, stripe, refunded, events, acked, ledger, notified, payments,
                     handling, lost>>
      /\ sessions' \in {CreateCheckoutSession(i), sessions}
      /\ stored => rows' = [rows EXCEPT ![i].session = i] /\ plan' = Written(asking[r].plan)
      /\ ~stored => UNCHANGED <<rows, plan>>
  BY DEF FinishCheckout
<1>2. i \in 1 .. MaxRows /\ i <= Len(rows) /\ asking[r].plan \in WrittenPlan
  BY <1>1, RequestFields DEF BillingTypes, AskingTypes
<1>3. Len(rows) \in Nat /\ rows \in Seq(SubscriptionRow) /\ Len(rows) <= MaxRows
  BY RowsLength DEF BillingTypes, TableTypes
<1>4. i \in 1 .. Len(rows)
  BY <1>2, <1>3
<1> HIDE DEF i
<1>5. rows' \in Seq(SubscriptionRow) /\ Len(rows)' = Len(rows)
  <2>1. CASE stored
    <3> DEFINE x == [rows[i] EXCEPT !.session = i]
    <3>1. rows[i] \in SubscriptionRow
      BY <1>3, <1>4, RowAt
    <3>2. x \in SubscriptionRow
      BY <1>2, <3>1, WrittenRows
    <3>3. rows' = [rows EXCEPT ![i] = x]
      BY <1>1, <2>1
    <3> HIDE DEF x
    <3>4. QED
      BY <1>4, <3>2, <3>3, RowPutTyped DEF BillingTypes
  <2>2. CASE ~stored
    BY <1>1, <1>3, <2>2
  <2>3. QED
    BY <2>1, <2>2
<1>6. plan' \in PlanName
  <2>1. stored => plan' \in PlanName
    BY <1>1, <1>2, WrittenTyped DEF BillingTypes
  <2>2. QED
    BY <1>1, <2>1 DEF BillingTypes, TableTypes
<1>7. sessions' \in [1 .. MaxRows -> Session]
  <2>1. sessions \in [1 .. MaxRows -> Session] /\ now \in 0 .. MaxTime
    BY DEF BillingTypes, StripeTypes, ClockTypes
  <2>2. CreateCheckoutSession(i) \in [1 .. MaxRows -> Session]
    BY <2>1 DEF CreateCheckoutSession, Session
  <2>3. QED
    BY <1>1, <2>1, <2>2
<1>8. StripeTypes' /\ EventTypes' /\ events \subseteq events' /\ lost' \in BOOLEAN
  BY <1>1, <1>7 DEF BillingTypes, StripeTypes, EventTypes, ClockTypes
<1>9. OwnerLeaves(r)
  BY <1>1 DEF OwnerLeaves
<1>10. QED
  BY <1>3, <1>5, <1>6, <1>8, <1>9, OwnerTyped

LEMMA FinishCancelTyped ==
    ASSUME BillingTypes, NEW r \in Caller, NEW stored \in BOOLEAN, FinishCancel(r, stored)
    PROVE  BillingTypes'
<1> DEFINE i == asking[r].row
<1>1. /\ asking[r].step = "cancel" /\ Answered(r)
      /\ UNCHANGED <<now, stripeVars, ledger, notified, payments, handling, lost>>
      /\ \/ rows' = [rows EXCEPT ![i].cancels = TRUE]
         \/ rows' = rows
      /\ plan' \in {Written(asking[r].plan), plan}
  BY DEF FinishCancel
<1>2. i \in 1 .. MaxRows /\ i <= Len(rows) /\ asking[r].plan \in WrittenPlan
  BY <1>1, RequestFields DEF BillingTypes, AskingTypes
<1>3. Len(rows) \in Nat /\ rows \in Seq(SubscriptionRow) /\ Len(rows) <= MaxRows
  BY RowsLength DEF BillingTypes, TableTypes
<1>4. i \in 1 .. Len(rows)
  BY <1>2, <1>3
<1> HIDE DEF i
<1>5. rows' \in Seq(SubscriptionRow) /\ Len(rows)' = Len(rows)
  <2>1. CASE rows' = [rows EXCEPT ![i].cancels = TRUE]
    <3> DEFINE x == [rows[i] EXCEPT !.cancels = TRUE]
    <3>1. rows[i] \in SubscriptionRow
      BY <1>3, <1>4, RowAt
    <3>2. x \in SubscriptionRow
      BY <3>1, WrittenRows
    <3>3. rows' = [rows EXCEPT ![i] = x]
      BY <2>1
    <3> HIDE DEF x
    <3>4. QED
      BY <1>4, <3>2, <3>3, RowPutTyped DEF BillingTypes
  <2>2. QED
    BY <1>1, <1>3, <2>1
<1>6. plan' \in PlanName
  <2>1. Written(asking[r].plan) \in PlanName
    BY <1>2, WrittenTyped DEF BillingTypes
  <2>2. QED
    BY <1>1, <2>1 DEF BillingTypes, TableTypes
<1>7. StripeTypes' /\ EventTypes' /\ events \subseteq events' /\ lost' \in BOOLEAN
  BY <1>1 DEF BillingTypes, StripeTypes, EventTypes, ClockTypes, stripeVars
<1>8. OwnerLeaves(r)
  BY <1>1 DEF OwnerLeaves, stripeVars
<1>9. QED
  BY <1>3, <1>5, <1>6, <1>7, <1>8, OwnerTyped

\* The row a change of the plan writes.
ChangedRow(r, answer) ==
    [r EXCEPT !.plan = answer.plan, !.cancels = FALSE, !.status = answer.status,
              !.expires = answer.end]

LEMMA ChangedRowTyped ==
    ASSUME NEW r \in SubscriptionRow, NEW answer \in StripeAnswer
    PROVE  /\ ChangedRow(r, answer) \in SubscriptionRow
           /\ ChangedRow(r, answer).sub = r.sub /\ ChangedRow(r, answer).session = r.session
           /\ ChangedRow(r, answer).status \in Current
BY DEF ChangedRow, SubscriptionRow, StripeAnswer, RowStatus

LEMMA ChangeWrites ==
    ASSUME TableTypes, NEW i \in 1 .. Len(rows), NEW answer,
           rows' = [rows EXCEPT ![i].plan = answer.plan, ![i].cancels = FALSE,
                                ![i].status = answer.status, ![i].expires = answer.end]
    PROVE  rows' = [rows EXCEPT ![i] = ChangedRow(rows[i], answer)]
<1>1. rows \in [1 .. Len(rows) -> SubscriptionRow]
  BY RowsLength
<1>2. QED
  BY <1>1 DEF ChangedRow

LEMMA FinishChangeTyped ==
    ASSUME BillingTypes, NEW r \in Caller, NEW stored \in BOOLEAN, FinishChange(r, stored)
    PROVE  BillingTypes'
<1> DEFINE i == asking[r].row
           answer == asking[r].answer
<1>1. /\ asking[r].step = "change" /\ Answered(r)
      /\ UNCHANGED <<now, stripeVars, ledger, notified, payments, handling>>
      /\ lost' \in {lost, TRUE}
      /\ \/ /\ rows' = [rows EXCEPT ![i].plan = answer.plan, ![i].cancels = FALSE,
                              ![i].status = answer.status, ![i].expires = answer.end]
            /\ plan' = Written(asking[r].plan)
         \/ rows' = rows /\ plan' = plan
  BY DEF FinishChange
<1>2. /\ i \in 1 .. MaxRows /\ i <= Len(rows) /\ asking[r].plan \in WrittenPlan
      /\ answer \in StripeAnswer
  BY <1>1, RequestFields DEF BillingTypes, AskingTypes
<1>3. Len(rows) \in Nat /\ rows \in Seq(SubscriptionRow) /\ Len(rows) <= MaxRows
  BY RowsLength DEF BillingTypes, TableTypes
<1>4. i \in 1 .. Len(rows)
  BY <1>2, <1>3
<1> HIDE DEF i, answer
<1>5. rows' \in Seq(SubscriptionRow) /\ Len(rows)' = Len(rows)
  <2>1. CASE rows' = [rows EXCEPT ![i].plan = answer.plan, ![i].cancels = FALSE,
                              ![i].status = answer.status, ![i].expires = answer.end]
    <3>1. rows[i] \in SubscriptionRow
      BY <1>3, <1>4, RowAt
    <3>2. ChangedRow(rows[i], answer) \in SubscriptionRow
      BY <1>2, <3>1, ChangedRowTyped
    <3>3. rows' = [rows EXCEPT ![i] = ChangedRow(rows[i], answer)]
      BY <1>4, <2>1, ChangeWrites DEF BillingTypes
    <3>4. QED
      BY <1>4, <3>2, <3>3, RowPutTyped DEF BillingTypes
  <2>2. QED
    BY <1>1, <1>3, <2>1
<1>6. plan' \in PlanName
  <2>1. Written(asking[r].plan) \in PlanName
    BY <1>2, WrittenTyped DEF BillingTypes
  <2>2. QED
    BY <1>1, <2>1 DEF BillingTypes, TableTypes
<1>7. StripeTypes' /\ EventTypes' /\ events \subseteq events' /\ lost' \in BOOLEAN
  BY <1>1 DEF BillingTypes, StripeTypes, EventTypes, ClockTypes, stripeVars
<1>8. OwnerLeaves(r)
  BY <1>1 DEF OwnerLeaves, stripeVars
<1>9. QED
  BY <1>3, <1>5, <1>6, <1>7, <1>8, OwnerTyped

-----------------------------------------------------------------------------
(* Billing: the requests that ask Stripe, and Stripe.                      *)

\* Stripe changes one subscription.
LEMMA SubscriptionMoves ==
    ASSUME StripeTypes, NEW s \in Sub, NEW sub \in StripeSub,
           sub.status # "none" => sub.plan \in Plan, sub.answers \subseteq StripeAnswer,
           stripe' = [stripe EXCEPT ![s] = sub],
           sessions' \in [1 .. MaxRows -> Session], refunded' \in [Sub -> 0 .. 3]
    PROVE  StripeTypes'
<1>1. stripe' \in [Sub -> StripeSub]
  BY DEF StripeTypes
<1>2. ASSUME NEW q \in Sub
      PROVE  /\ stripe'[q].status # "none" => stripe'[q].plan \in Plan
             /\ stripe'[q].answers \subseteq StripeAnswer
  <2>1. CASE q = s
    <3>1. stripe'[q] = sub
      BY <2>1 DEF StripeTypes
    <3>2. QED
      BY <3>1
  <2>2. CASE q # s
    <3>1. stripe'[q] = stripe[q]
      BY <2>2 DEF StripeTypes
    <3>2. QED
      BY <3>1 DEF StripeTypes
  <2>3. QED
    BY <2>1, <2>2
<1>3. QED
  BY <1>1, <1>2 DEF StripeTypes

LEMMA SubAt ==
    ASSUME StripeTypes, NEW s \in Sub
    PROVE  /\ stripe[s] \in StripeSub /\ stripe[s].answers \subseteq StripeAnswer
           /\ stripe[s].status # "none" => stripe[s].plan \in Plan
BY DEF StripeTypes

\* What one moment emits about a subscription in state sub, one event per type.
LEMMA DraftsFormed ==
    ASSUME ClockTypes, EventTypes, NEW s \in Sub, NEW sub \in StripeSub,
           sub.status # "none", sub.plan \in Plan, NEW types,
           DOMAIN types = 1 .. Len(types), Len(types) \in Nat \ {0},
           \A k \in DOMAIN types : types[k] \in EventType \ {"checkout", "expired"},
           Cardinality(events) + Len(types) <= MaxEvents
    PROVE  \A k \in 1 .. Len(types) : WellFormed(About(types[k], s, sub))
<1>1. NextInvoice \in 1 .. MaxEvents
  BY EventCount, BillingAssumption DEF NextInvoice
<1>2. QED
  BY <1>1, AboutFormed

\* One more event than there is fits if the moment's events do.
LEMMA NextFits ==
    ASSUME EventTypes, NEW seq, Emit(seq), Len(seq) \in Nat \ {0}
    PROVE  NextInvoice \in 1 .. MaxEvents
<1>1. Cardinality(events) + Len(seq) <= MaxEvents
  BY DEF Emit
<1>2. QED
  BY <1>1, EventCount, BillingAssumption DEF NextInvoice

LEMMA ModifiedSub ==
    ASSUME StripeTypes, ClockTypes, NEW s \in Sub, stripe[s].status \in Current, NEW p \in Plan
    PROVE  /\ ModifySubscription(s, p) \in StripeSub
           /\ ModifySubscription(s, p).status = stripe[s].status
           /\ ModifySubscription(s, p).plan = p
           /\ ModifySubscription(s, p).end \in Time
           /\ ModifySubscription(s, p).answers \subseteq StripeAnswer
<1> DEFINE a == [plan |-> p, status |-> stripe[s].status, end |-> stripe[s].end]
           all == stripe[s].answers \cup {a}
           new == [stripe[s] EXCEPT !.plan = p, !.cancels = FALSE, !.at = now, !.answers = all]
<1>1. stripe[s] \in StripeSub /\ stripe[s].answers \subseteq StripeAnswer
  BY SubAt
<1>2. a \in StripeAnswer
  BY <1>1 DEF StripeAnswer, StripeSub
<1> HIDE DEF a
<1>3. all \subseteq StripeAnswer
  BY <1>1, <1>2
<1>4. all \in SUBSET [plan : Plan, status : RowStatus, end : Time]
  BY <1>3 DEF StripeAnswer, RowStatus
<1> HIDE DEF all
<1>5. /\ new \in StripeSub /\ new.status = stripe[s].status /\ new.plan = p
      /\ new.end \in Time /\ new.answers = all
  BY <1>1, <1>4 DEF StripeSub, ClockTypes
<1>6. ModifySubscription(s, p) = new
  BY <1>1 DEF ModifySubscription, all, a, StripeSub
<1> HIDE DEF new
<1>7. QED
  BY <1>3, <1>5, <1>6

LEMMA ProratedFormed ==
    ASSUME NEW e, WellFormed(e), NEW p, p = [e EXCEPT !.prorated = TRUE]
    PROVE  /\ WellFormed(p) /\ p.type = e.type /\ p.sub = e.sub /\ p.invoice = e.invoice
           /\ p.session = e.session /\ p.created = e.created /\ p.status = e.status
<1>1. e \in Event
  BY DEF WellFormed
<1>2. /\ p \in Event /\ p.type = e.type /\ p.sub = e.sub /\ p.invoice = e.invoice
      /\ p.session = e.session /\ p.created = e.created /\ p.status = e.status
      /\ p.plan = e.plan
  BY <1>1 DEF Event
<1>3. QED
  BY <1>2 DEF WellFormed

\* A request that asks Stripe leaves the tables alone.
LEMMA OwnerAsksTyped ==
    ASSUME BillingTypes, NEW r \in Caller, NEW x, RequestTyped(x),
           asking' = [asking EXCEPT ![r] = x],
           StripeTypes', EventTypes', events \subseteq events', lost' \in BOOLEAN,
           UNCHANGED <<now, refunded, acked, tableVars, handling>>
    PROVE  BillingTypes'
<1>1. OwnerLeaves(r)
  BY DEF OwnerLeaves, tableVars
<1>2. /\ rows' \in Seq(SubscriptionRow) /\ Len(rows)' <= MaxRows /\ Len(rows) <= Len(rows)'
      /\ plan' \in PlanName
  BY RowsLength DEF BillingTypes, TableTypes, tableVars
<1>3. QED
  BY <1>1, <1>2, OwnerTyped

LEMMA PairFormed ==
    ASSUME NEW a, NEW b, WellFormed(a), WellFormed(b)
    PROVE  /\ Len(<<a, b>>) = 2 /\ DOMAIN <<a, b>> = 1 .. 2
           /\ \A k \in 1 .. 2 : WellFormed(<<a, b>>[k])
OBVIOUS

\* The events of a change of the plan, if Stripe makes it.
ChangeEmits(s, p) ==
    Emit(<<[About("paid", s, ModifySubscription(s, p)) EXCEPT !.prorated = TRUE],
           About("updated", s, ModifySubscription(s, p))>>)

LEMMA ChangePair ==
    ASSUME BillingTypes, NEW s \in Sub, NEW p \in Plan, stripe[s].status \in Current,
           ChangeEmits(s, p)
    PROVE  \E a, b : /\ WellFormed(a) /\ a.type = "paid" /\ a.sub = s /\ a.invoice = NextInvoice
                     /\ WellFormed(b) /\ b.type = "updated"
                     /\ Emit(<<a, b>>)
<1> DEFINE new == ModifySubscription(s, p)
           a0 == About("paid", s, new)
           a == [a0 EXCEPT !.prorated = TRUE]
           b == About("updated", s, new)
           pair == <<a, b>>
<1>1. new \in StripeSub /\ new.status \in Current /\ new.plan \in Plan
  BY ModifiedSub DEF BillingTypes
<1>2. Emit(pair)
  BY DEF ChangeEmits
<1>3. NextInvoice \in 1 .. MaxEvents
  <2>1. Len(pair) \in Nat \ {0}
    OBVIOUS
  <2> HIDE DEF pair
  <2>2. QED
    BY <1>2, <2>1, NextFits DEF BillingTypes
<1> HIDE DEF new
<1>4. new.status # "none"
  BY <1>1 DEF Current
<1>5. WellFormed(a0) /\ WellFormed(b)
  BY <1>1, <1>3, <1>4, AboutFormed DEF BillingTypes, EventType
<1>6. a0.type = "paid" /\ a0.sub = s /\ a0.invoice = NextInvoice /\ b.type = "updated"
  BY <1>1, <1>3, <1>4, AboutFields DEF BillingTypes, EventType
<1> HIDE DEF a0
<1>7. WellFormed(a) /\ a.type = "paid" /\ a.sub = s /\ a.invoice = NextInvoice
  BY <1>5, <1>6, ProratedFormed
<1> HIDE DEF a, b
<1>8. QED
  BY <1>2, <1>5, <1>6, <1>7 DEF pair

LEMMA BeginChangeTyped ==
    ASSUME BillingTypes, NEW r \in Caller, NEW p \in Plan, NEW i \in Ids, BeginChange(r, p, i)
    PROVE  BillingTypes'
<1> DEFINE s == rows[i].sub
           known == Remembered(s, p)
           new == ModifySubscription(s, p)
           given == [plan |-> p, status |-> new.status, end |-> new.end]
           Taken(answer) == [step |-> "change", row |-> i, locks |-> TRUE,
                             plan |-> ChangedIn(r, p), answer |-> answer]
           e1 == [About("paid", s, new) EXCEPT !.prorated = TRUE]
           e2 == About("updated", s, new)
<1>1. /\ rows[i].sub # None /\ UNCHANGED <<now, sessions, refunded, acked, tableVars, handling>>
      /\ \/ /\ known # {}
            /\ asking' = [asking EXCEPT ![r] = Taken(CHOOSE a \in known : TRUE)]
            /\ lost' = TRUE /\ UNCHANGED <<stripe, events>>
         \/ /\ stripe[s].status \in Current
            /\ stripe' = [stripe EXCEPT ![s] = new]
            /\ Emit(<<e1, e2>>)
            /\ asking' = [asking EXCEPT ![r] = Taken(given)]
            /\ UNCHANGED lost
  BY DEF BeginChange, Ask
<1>2. i \in 1 .. Len(rows) /\ Len(rows) \in Nat /\ Len(rows) <= MaxRows /\ Len(rows)' = Len(rows)
  BY <1>1, RowsLength DEF Ids, BillingTypes, TableTypes, tableVars
<1>3. s \in Sub
  <2>1. rows[i] \in SubscriptionRow
    BY <1>2, RowAt DEF BillingTypes, TableTypes
  <2>2. QED
    BY <1>1, <2>1 DEF SubscriptionRow
<1>4. i \in 1 .. MaxRows /\ i <= Len(rows)'
  BY <1>2, BillingAssumption
<1>5. ChangedIn(r, p) \in WrittenPlan
  BY ChangedTyped DEF PlanName
<1> HIDE DEF s
<1>6. ASSUME NEW answer \in StripeAnswer PROVE RequestTyped(Taken(answer))
  <2>1. Taken(answer) \in OwnerRequest /\ Taken(answer).row = i
    BY <1>4, <1>5 DEF OwnerRequest
  <2>2. QED
    BY <1>4, <2>1 DEF RequestTyped
<1>7. CASE /\ known # {}
           /\ asking' = [asking EXCEPT ![r] = Taken(CHOOSE a \in known : TRUE)]
           /\ lost' = TRUE /\ UNCHANGED <<stripe, events>>
  <2> DEFINE answer == CHOOSE a \in known : TRUE
  <2>1. answer \in known
    BY <1>7
  <2>2. answer \in StripeAnswer
    BY <1>3, <2>1, SubAt DEF Remembered, BillingTypes
  <2> HIDE DEF answer
  <2>3. RequestTyped(Taken(answer))
    BY <1>6, <2>2
  <2>4. asking' = [asking EXCEPT ![r] = Taken(answer)]
    BY <1>7 DEF answer
  <2>5. StripeTypes' /\ EventTypes' /\ events \subseteq events' /\ lost' \in BOOLEAN
    BY <1>1, <1>7 DEF BillingTypes, StripeTypes, EventTypes
  <2> HIDE DEF Taken
  <2>6. QED
    BY <1>1, <2>3, <2>4, <2>5, OwnerAsksTyped
<1>8. CASE /\ stripe[s].status \in Current
           /\ stripe' = [stripe EXCEPT ![s] = new]
           /\ Emit(<<e1, e2>>)
           /\ asking' = [asking EXCEPT ![r] = Taken(given)]
           /\ UNCHANGED lost
  <2>1. /\ new \in StripeSub /\ new.status \in Current /\ new.plan \in Plan /\ new.end \in Time
        /\ new.answers \subseteq StripeAnswer
    BY <1>3, <1>8, ModifiedSub DEF BillingTypes
  <2> HIDE DEF new
  <2>2. given \in StripeAnswer
    BY <2>1 DEF StripeAnswer
  <2> HIDE DEF given
  <2>3. RequestTyped(Taken(given))
    BY <1>6, <2>2
  <2> HIDE DEF Taken
  <2>4. new.status # "none"
    BY <2>1 DEF Current
  <2>5. StripeTypes'
    BY <1>1, <1>3, <1>8, <2>1, SubscriptionMoves DEF BillingTypes, StripeTypes
  <2>6. ChangeEmits(s, p)
    BY <1>8 DEF ChangeEmits, new
  <2>7. PICK a, b : WellFormed(a) /\ WellFormed(b) /\ Emit(<<a, b>>)
    BY <1>3, <1>8, <2>6, ChangePair
  <2>8. Len(<<a, b>>) = 2 /\ DOMAIN <<a, b>> = 1 .. 2 /\ \A k \in 1 .. 2 : WellFormed(<<a, b>>[k])
    BY <2>7, PairFormed
  <2>9. EventTypes' /\ events \subseteq events'
    <3> DEFINE pair == <<a, b>>
    <3>1. Emit(pair) /\ Len(pair) = 2 /\ DOMAIN pair = 1 .. 2 /\ \A k \in 1 .. 2 : WellFormed(pair[k])
      BY <2>7, <2>8
    <3> HIDE DEF pair
    <3>2. QED
      BY <3>1, EmitTyped DEF BillingTypes
  <2>10. lost' \in BOOLEAN
    BY <1>8 DEF BillingTypes, ClockTypes
  <2>11. QED
    BY <1>1, <1>8, <2>3, <2>5, <2>9, <2>10, OwnerAsksTyped
<1>9. QED
  <2> HIDE DEF known, new, given, Taken, e1, e2
  <2> QED BY <1>1, <1>7, <1>8

\* The events of one moment that are not about a change of the owner's.
LEMMA OneFormed ==
    ASSUME NEW a, WellFormed(a)
    PROVE  Len(<<a>>) = 1 /\ DOMAIN <<a>> = 1 .. 1 /\ \A k \in 1 .. 1 : WellFormed(<<a>>[k])
OBVIOUS

LEMMA EmitOne ==
    ASSUME EventTypes, NEW a, Emit(<<a>>)
    PROVE  /\ NextInvoice \in 1 .. MaxEvents
           /\ WellFormed(a) => EventTypes' /\ events \subseteq events'
<1> DEFINE seq == <<a>>
<1>1. Len(seq) = 1 /\ DOMAIN seq = 1 .. 1
  OBVIOUS
<1>2. WellFormed(a) => \A k \in 1 .. 1 : WellFormed(seq[k])
  BY OneFormed
<1>3. Emit(seq)
  OBVIOUS
<1> HIDE DEF seq
<1>4. Len(seq) \in Nat \ {0}
  BY <1>1
<1>5. NextInvoice \in 1 .. MaxEvents
  BY <1>3, <1>4, NextFits
<1>6. WellFormed(a) => EventTypes' /\ events \subseteq events'
  BY <1>1, <1>2, <1>3, EmitTyped
<1>7. QED
  BY <1>5, <1>6

LEMMA CancelledSub ==
    ASSUME StripeTypes, ClockTypes, NEW s \in Sub, stripe[s].status \in Current
    PROVE  /\ CancelSubscription(s) \in StripeSub
           /\ CancelSubscription(s).status = stripe[s].status
           /\ CancelSubscription(s).plan \in Plan
           /\ CancelSubscription(s).answers \subseteq StripeAnswer
<1>1. stripe[s] \in StripeSub /\ stripe[s].answers \subseteq StripeAnswer /\ stripe[s].plan \in Plan
  BY SubAt DEF Current
<1>2. QED
  BY <1>1 DEF CancelSubscription, StripeSub, ClockTypes

LEMMA CancelEvent ==
    ASSUME BillingTypes, NEW s \in Sub, stripe[s].status \in Current,
           Emit(<<About("updated", s, CancelSubscription(s))>>)
    PROVE  \E e : WellFormed(e) /\ e.type = "updated" /\ Emit(<<e>>)
<1> DEFINE new == CancelSubscription(s)
           e == About("updated", s, new)
<1>1. new \in StripeSub /\ new.status \in Current /\ new.plan \in Plan
  BY CancelledSub DEF BillingTypes
<1> HIDE DEF new
<1>2. new.status # "none"
  BY <1>1 DEF Current
<1>3. NextInvoice \in 1 .. MaxEvents
  BY EmitOne DEF BillingTypes
<1>4. WellFormed(e) /\ e.type = "updated"
  BY <1>1, <1>2, <1>3, AboutFormed, AboutFields DEF BillingTypes, EventType
<1>5. Emit(<<e>>)
  BY DEF new
<1> HIDE DEF e
<1>6. QED
  BY <1>4, <1>5

LEMMA BeginCancelTyped ==
    ASSUME BillingTypes, NEW r \in Caller, NEW i \in Ids, BeginCancel(r, i)
    PROVE  BillingTypes'
<1> DEFINE s == rows[i].sub
           new == CancelSubscription(s)
           e == About("updated", s, new)
           x == [step |-> "cancel", row |-> i, marks |-> ~rows[i].cancels, plan |-> Synced(r)]
<1>1. /\ rows[i].sub # None /\ stripe[s].status \in Current
      /\ UNCHANGED <<now, sessions, refunded, acked, tableVars, handling, lost>>
      /\ asking' = [asking EXCEPT ![r] = x] /\ asking[r].step = "signed in"
      /\ \/ UNCHANGED <<stripe, events>>
         \/ stripe' = [stripe EXCEPT ![s] = new] /\ Emit(<<e>>)
  BY DEF BeginCancel, Ask
<1>2. i \in 1 .. Len(rows) /\ Len(rows) \in Nat /\ Len(rows) <= MaxRows /\ Len(rows)' = Len(rows)
  BY <1>1, RowsLength DEF Ids, BillingTypes, TableTypes, tableVars
<1>3. s \in Sub
  <2>1. rows[i] \in SubscriptionRow
    BY <1>2, RowAt DEF BillingTypes, TableTypes
  <2>2. QED
    BY <1>1, <2>1 DEF SubscriptionRow
<1>4. i \in 1 .. MaxRows /\ i <= Len(rows)'
  BY <1>2, BillingAssumption
<1>5. Synced(r) \in WrittenPlan
  BY <1>1, SyncedTyped DEF BillingTypes
<1>6. RequestTyped(x)
  <2> DEFINE marks == ~rows[i].cancels
  <2>1. marks \in BOOLEAN
    OBVIOUS
  <2> HIDE DEF marks
  <2>2. x = [step |-> "cancel", row |-> i, marks |-> marks, plan |-> Synced(r)]
    BY DEF marks
  <2>3. [step |-> "cancel", row |-> i, marks |-> marks, plan |-> Synced(r)] \in OwnerRequest
    BY <1>4, <1>5, <2>1 DEF OwnerRequest
  <2>4. x \in OwnerRequest
    BY <2>2, <2>3
  <2>5. x.row = i
    OBVIOUS
  <2> HIDE DEF x
  <2>6. QED
    BY <1>4, <2>4, <2>5 DEF RequestTyped
<1> HIDE DEF x, s
<1>7. StripeTypes' /\ EventTypes' /\ events \subseteq events'
  <2>1. CASE UNCHANGED <<stripe, events>>
    BY <1>1, <2>1 DEF BillingTypes, StripeTypes, EventTypes
  <2>2. CASE stripe' = [stripe EXCEPT ![s] = new] /\ Emit(<<e>>)
    <3>1. /\ new \in StripeSub /\ new.status \in Current /\ new.plan \in Plan
          /\ new.answers \subseteq StripeAnswer
      BY <1>1, <1>3, CancelledSub DEF BillingTypes
    <3> HIDE DEF new
    <3>2. new.status # "none"
      BY <3>1 DEF Current
    <3>3. StripeTypes'
      BY <1>1, <1>3, <2>2, <3>1, SubscriptionMoves DEF BillingTypes, StripeTypes
    <3>4. PICK d : WellFormed(d) /\ Emit(<<d>>)
      BY <1>1, <1>3, <2>2, CancelEvent DEF new
    <3>5. QED
      BY <3>3, <3>4, EmitOne DEF BillingTypes
  <2>3. QED
    BY <1>1, <2>1, <2>2
<1>8. lost' \in BOOLEAN
  BY <1>1 DEF BillingTypes, ClockTypes
<1>9. QED
  BY <1>1, <1>6, <1>7, <1>8, OwnerAsksTyped

LEMMA StripeStepTyped ==
    ASSUME BillingTypes, Quietly, StripeTypes', EventTypes', events \subseteq events', lost' \in BOOLEAN
    PROVE  BillingTypes'
<1>1. Len(rows) \in Nat /\ Len(rows)' = Len(rows)
  BY RowsLength DEF BillingTypes, Quietly, tableVars
<1>2. TableTypes'
  BY DEF BillingTypes, TableTypes, Quietly, tableVars
<1>3. AskingTypes'
  BY <1>1, AskingStays DEF BillingTypes, Quietly
<1>4. HandlingTypes'
  BY <1>1, HandlingKept DEF BillingTypes, Quietly
<1>5. ClockTypes'
  BY DEF BillingTypes, ClockTypes, Quietly
<1>6. QED
  BY <1>2, <1>3, <1>4, <1>5 DEF BillingTypes

LEMMA MovedTyped ==
    ASSUME BillingTypes, NEW s \in Sub, NEW new \in StripeSub, new.status # "none",
           new.plan \in Plan, new.answers \subseteq StripeAnswer, NEW types,
           DOMAIN types = 1 .. Len(types), Len(types) \in Nat \ {0},
           \A k \in DOMAIN types : types[k] \in EventType \ {"checkout", "expired"},
           Moves(s, new, types), lost' \in BOOLEAN
    PROVE  BillingTypes'
<1> DEFINE at == [new EXCEPT !.at = now]
           seq == [k \in DOMAIN types |-> About(types[k], s, new)]
<1>1. /\ stripe' = [stripe EXCEPT ![s] = at] /\ Emit(seq) /\ UNCHANGED <<sessions, refunded>>
      /\ Quietly
  BY DEF Moves
<1>2. at \in StripeSub /\ at.status = new.status /\ at.plan = new.plan /\ at.answers = new.answers
  BY DEF StripeSub, BillingTypes, ClockTypes
<1> HIDE DEF at
<1>3. StripeTypes'
  BY <1>1, <1>2, SubscriptionMoves DEF BillingTypes, StripeTypes
<1>4. DOMAIN seq = 1 .. Len(types) /\ Len(seq) = Len(types)
  OBVIOUS
<1>5. Cardinality(events) + Len(types) <= MaxEvents
  BY <1>1, <1>4 DEF Emit
<1>6. \A k \in 1 .. Len(seq) : WellFormed(seq[k])
  BY <1>4, <1>5, DraftsFormed DEF BillingTypes
<1> HIDE DEF seq
<1>7. EventTypes' /\ events \subseteq events'
  BY <1>1, <1>4, <1>6, EmitTyped DEF BillingTypes
<1>8. QED
  BY <1>1, <1>3, <1>7, StripeStepTyped

LEMMA TypeLists ==
    /\ \A t \in {<<"paid", "updated">>, <<"failed", "updated">>} :
         /\ DOMAIN t = 1 .. Len(t) /\ Len(t) = 2
         /\ \A k \in DOMAIN t : t[k] \in EventType \ {"checkout", "expired"}
    /\ \A t \in {<<"updated">>, <<"deleted">>} :
         /\ DOMAIN t = 1 .. Len(t) /\ Len(t) = 1
         /\ \A k \in DOMAIN t : t[k] \in EventType \ {"checkout", "expired"}
BY DEF EventType

\* What a subscription that has begun becomes.
LEMMA ChangedSub ==
    ASSUME StripeTypes, NEW s \in Sub, stripe[s].status # "none", NEW end \in Time,
           NEW status \in {"active", "past_due", "unpaid", "canceled"}, NEW new,
           \/ new = [stripe[s] EXCEPT !.end = end]
           \/ new = [stripe[s] EXCEPT !.status = status]
           \/ new = [stripe[s] EXCEPT !.end = end, !.status = status]
    PROVE  /\ new \in StripeSub /\ new.status # "none" /\ new.plan \in Plan
           /\ new.answers \subseteq StripeAnswer
<1>1. stripe[s] \in StripeSub /\ stripe[s].plan \in Plan /\ stripe[s].answers \subseteq StripeAnswer
  BY SubAt
<1>2. CASE new = [stripe[s] EXCEPT !.end = end]
  BY <1>1, <1>2 DEF StripeSub
<1>3. CASE new = [stripe[s] EXCEPT !.status = status]
  BY <1>1, <1>3 DEF StripeSub
<1>4. CASE new = [stripe[s] EXCEPT !.end = end, !.status = status]
  BY <1>1, <1>4 DEF StripeSub
<1>5. QED
  BY <1>2, <1>3, <1>4

LEMMA RenewalsTyped ==
    ASSUME BillingTypes, NEW s \in Sub,
           Renew(s) \/ RenewalFails(s) \/ Collects(s) \/ GivesUp(s) \/ Deletes(s)
    PROVE  BillingTypes'
<1>1. lost \in BOOLEAN /\ now \in 0 .. MaxTime /\ StripeTypes
  BY DEF BillingTypes, ClockTypes
<1>2. ASSUME NEW new, NEW types, new \in StripeSub, new.status # "none", new.plan \in Plan,
             new.answers \subseteq StripeAnswer, Moves(s, new, types), lost' \in BOOLEAN,
             \/ types \in {<<"paid", "updated">>, <<"failed", "updated">>}
             \/ types \in {<<"updated">>, <<"deleted">>}
      PROVE  BillingTypes'
  <2>1. /\ DOMAIN types = 1 .. Len(types) /\ Len(types) \in {1, 2}
        /\ \A k \in DOMAIN types : types[k] \in EventType \ {"checkout", "expired"}
    BY <1>2, TypeLists
  <2>2. Len(types) \in Nat \ {0}
    BY <2>1
  <2>3. QED
    BY <1>2, <2>1, <2>2, MovedTyped
<1>3. Renewable(s) => stripe[s].end + Period \in Time /\ stripe[s].status = "active"
  <2>1. stripe[s].end \in Time
    BY <1>1, SubAt DEF StripeSub
  <2>2. QED
    BY <1>1, <2>1, BillingAssumption DEF Renewable, Time
<1>4. 0 \in Time
  BY BillingAssumption DEF Time
<1>5. CASE Renew(s)
  <2> DEFINE new == [stripe[s] EXCEPT !.end = @ + Period]
             types == <<"paid", "updated">>
  <2>1. Moves(s, new, types) /\ lost' \in BOOLEAN /\ Renewable(s)
    BY <1>5 DEF Renew
  <2>2. /\ new \in StripeSub /\ new.status # "none" /\ new.plan \in Plan
        /\ new.answers \subseteq StripeAnswer
    BY <1>1, <1>3, <2>1, ChangedSub
  <2>3. types \in {<<"paid", "updated">>, <<"failed", "updated">>}
    OBVIOUS
  <2> HIDE DEF new, types
  <2>4. QED
    BY <1>2, <2>1, <2>2, <2>3
<1>6. CASE RenewalFails(s)
  <2> DEFINE new == [stripe[s] EXCEPT !.end = @ + Period, !.status = "past_due"]
             types == <<"failed", "updated">>
  <2>1. Moves(s, new, types) /\ lost' \in BOOLEAN /\ Renewable(s)
    BY <1>6 DEF RenewalFails
  <2>2. /\ new \in StripeSub /\ new.status # "none" /\ new.plan \in Plan
        /\ new.answers \subseteq StripeAnswer
    BY <1>1, <1>3, <2>1, ChangedSub
  <2>3. types \in {<<"paid", "updated">>, <<"failed", "updated">>}
    OBVIOUS
  <2> HIDE DEF new, types
  <2>4. QED
    BY <1>2, <2>1, <2>2, <2>3
<1>7. CASE Collects(s)
  <2> DEFINE new == [stripe[s] EXCEPT !.status = "active"]
             types == <<"paid", "updated">>
  <2>1. Moves(s, new, types) /\ lost' \in BOOLEAN /\ stripe[s].status # "none"
    BY <1>1, <1>7 DEF Collects
  <2>2. /\ new \in StripeSub /\ new.status # "none" /\ new.plan \in Plan
        /\ new.answers \subseteq StripeAnswer
    BY <1>1, <1>4, <2>1, ChangedSub
  <2>3. types \in {<<"paid", "updated">>, <<"failed", "updated">>}
    OBVIOUS
  <2> HIDE DEF new, types
  <2>4. QED
    BY <1>2, <2>1, <2>2, <2>3
<1>8. CASE GivesUp(s)
  <2> DEFINE new == [stripe[s] EXCEPT !.status = "unpaid"]
             types == <<"updated">>
  <2>1. Moves(s, new, types) /\ lost' \in BOOLEAN /\ stripe[s].status # "none"
    BY <1>1, <1>8 DEF GivesUp
  <2>2. /\ new \in StripeSub /\ new.status # "none" /\ new.plan \in Plan
        /\ new.answers \subseteq StripeAnswer
    BY <1>1, <1>4, <2>1, ChangedSub
  <2>3. types \in {<<"updated">>, <<"deleted">>}
    OBVIOUS
  <2> HIDE DEF new, types
  <2>4. QED
    BY <1>2, <2>1, <2>2, <2>3
<1>9. CASE Deletes(s)
  <2> DEFINE new == [stripe[s] EXCEPT !.status = "canceled"]
             types == <<"deleted">>
  <2>1. Moves(s, new, types) /\ lost' \in BOOLEAN /\ stripe[s].status # "none"
    BY <1>1, <1>9 DEF Deletes
  <2>2. /\ new \in StripeSub /\ new.status # "none" /\ new.plan \in Plan
        /\ new.answers \subseteq StripeAnswer
    BY <1>1, <1>4, <2>1, ChangedSub
  <2>3. types \in {<<"updated">>, <<"deleted">>}
    OBVIOUS
  <2> HIDE DEF new, types
  <2>4. QED
    BY <1>2, <2>1, <2>2, <2>3
<1>10. QED
  BY <1>5, <1>6, <1>7, <1>8, <1>9

\* The first payment of a subscription: what it makes of it, and its events.
PaidSub(i, s) ==
    [stripe[s] EXCEPT !.status = "active", !.plan = rows[i].plan, !.end = now + Period,
                      !.at = now, !.invoice = NextInvoice]

PaidEvents(i, s) ==
    <<[About("checkout", s, PaidSub(i, s)) EXCEPT !.session = i],
      About("updated", s, PaidSub(i, s)), About("paid", s, PaidSub(i, s))>>

LEMMA PaySteps ==
    ASSUME NEW i, NEW s, Pay(i, s)
    PROVE  /\ sessions[i].state = "open" /\ stripe[s].status = "none"
           /\ stripe' = [stripe EXCEPT ![s] = PaidSub(i, s)]
           /\ Emit(PaidEvents(i, s))
           /\ sessions' = [sessions EXCEPT ![i].state = "paid"]
           /\ UNCHANGED <<refunded, lost>> /\ Quietly
BY DEF Pay, PaidSub, PaidEvents

LEMMA PaidSubTyped ==
    ASSUME BillingTypes, NEW s \in Sub, NEW i \in 1 .. Len(rows), NextInvoice \in 1 .. MaxEvents
    PROVE  /\ PaidSub(i, s) \in StripeSub /\ PaidSub(i, s).status = "active"
           /\ PaidSub(i, s).plan \in Plan /\ PaidSub(i, s).answers \subseteq StripeAnswer
<1>1. stripe[s] \in StripeSub /\ stripe[s].answers \subseteq StripeAnswer
  BY SubAt DEF BillingTypes
<1>2. rows[i] \in SubscriptionRow
  BY RowAt DEF BillingTypes, TableTypes
<1>3. rows[i].plan \in Plan
  BY <1>2 DEF SubscriptionRow
<1>4. now \in 0 .. MaxTime /\ now + Period \in Time /\ NextInvoice \in 0 .. MaxEvents
  BY BillingAssumption DEF BillingTypes, ClockTypes, Time
<1>5. QED
  BY <1>1, <1>3, <1>4 DEF PaidSub, StripeSub

LEMMA PaidEventsFormed ==
    ASSUME BillingTypes, NEW s \in Sub, NEW i \in 1 .. Len(rows), NextInvoice \in 1 .. MaxEvents
    PROVE  /\ Len(PaidEvents(i, s)) = 3 /\ DOMAIN PaidEvents(i, s) = 1 .. 3
           /\ \A k \in 1 .. 3 : WellFormed(PaidEvents(i, s)[k])
           /\ PaidEvents(i, s)[1].type = "checkout" /\ PaidEvents(i, s)[1].session = i
           /\ PaidEvents(i, s)[2].type = "updated" /\ PaidEvents(i, s)[3].type = "paid"
           /\ \A k \in 1 .. 3 : /\ PaidEvents(i, s)[k].sub = s
                                /\ PaidEvents(i, s)[k].invoice = NextInvoice
<1> DEFINE sub == PaidSub(i, s)
           a == About("checkout", s, sub)
           e1 == [a EXCEPT !.session = i]
           e2 == About("updated", s, sub)
           e3 == About("paid", s, sub)
<1>1. sub \in StripeSub /\ sub.status = "active" /\ sub.plan \in Plan
  BY PaidSubTyped
<1>2. ClockTypes /\ sub.status # "none"
  BY <1>1 DEF BillingTypes
<1>3. i \in 0 .. MaxRows /\ i # 0
  BY RowsLength, BillingAssumption DEF BillingTypes, TableTypes
<1> HIDE DEF sub
<1>4. /\ a \in Event /\ a.type = "checkout" /\ a.sub = s /\ a.plan = sub.plan
      /\ a.status = sub.status /\ a.invoice = NextInvoice
  BY <1>1, <1>2, AboutFields DEF EventType
<1> HIDE DEF a
<1>5. /\ e1 \in Event /\ e1.type = "checkout" /\ e1.sub = s /\ e1.plan = sub.plan
      /\ e1.status = sub.status /\ e1.invoice = NextInvoice /\ e1.session = i
  BY <1>3, <1>4 DEF Event
<1> HIDE DEF e1
<1>6. WellFormed(e1)
  BY <1>1, <1>3, <1>5 DEF WellFormed
<1>7. /\ WellFormed(e2) /\ e2.type = "updated" /\ e2.sub = s /\ e2.invoice = NextInvoice
      /\ WellFormed(e3) /\ e3.type = "paid" /\ e3.sub = s /\ e3.invoice = NextInvoice
  BY <1>1, <1>2, AboutFields, AboutFormed DEF EventType
<1> HIDE DEF e2, e3
<1>8. PaidEvents(i, s) = <<e1, e2, e3>>
  BY DEF PaidEvents, e1, e2, e3, a, sub
<1>9. QED
  BY <1>5, <1>6, <1>7, <1>8

LEMMA EmitNext ==
    ASSUME EventTypes, NEW seq, Emit(seq), Len(seq) \in Nat \ {0}
    PROVE  Cardinality(events) + Len(seq) <= MaxEvents /\ NextInvoice \in 1 .. MaxEvents
BY NextFits DEF Emit

LEMMA PayTyped ==
    ASSUME BillingTypes, NEW s \in Sub, NEW i \in 1 .. Len(rows), Pay(i, s)
    PROVE  BillingTypes'
<1> DEFINE seq == PaidEvents(i, s)
<1>1. /\ stripe' = [stripe EXCEPT ![s] = PaidSub(i, s)] /\ Emit(seq)
      /\ sessions' = [sessions EXCEPT ![i].state = "paid"]
      /\ UNCHANGED <<refunded, lost>> /\ Quietly
  BY PaySteps
<1>2. Len(seq) = 3
  BY DEF PaidEvents
<1> HIDE DEF seq
<1>3. NextInvoice \in 1 .. MaxEvents
  BY <1>1, <1>2, EmitNext DEF BillingTypes
<1>4. DOMAIN seq = 1 .. Len(seq) /\ \A k \in 1 .. Len(seq) : WellFormed(seq[k])
  BY <1>2, <1>3, PaidEventsFormed DEF seq
<1>5. EventTypes' /\ events \subseteq events'
  BY <1>1, <1>2, <1>4, EmitTyped DEF BillingTypes
<1>6. /\ PaidSub(i, s) \in StripeSub /\ PaidSub(i, s).status = "active"
      /\ PaidSub(i, s).plan \in Plan /\ PaidSub(i, s).answers \subseteq StripeAnswer
  BY <1>3, PaidSubTyped
<1>7. sessions' \in [1 .. MaxRows -> Session]
  BY <1>1 DEF BillingTypes, StripeTypes, Session
<1>8. StripeTypes'
  BY <1>1, <1>6, <1>7, SubscriptionMoves DEF BillingTypes, StripeTypes
<1>9. QED
  BY <1>1, <1>5, <1>8, StripeStepTyped DEF BillingTypes, ClockTypes

\* The event of a session that expires.
LEMMA SessionExpiresSteps ==
    ASSUME BillingTypes, NEW i \in 1 .. Len(rows), SessionExpires(i)
    PROVE  /\ sessions' = [sessions EXCEPT ![i].state = "expired"] /\ sessions[i].state = "open"
           /\ UNCHANGED <<stripe, refunded, lost>> /\ Quietly
           /\ \E e : WellFormed(e) /\ e.type = "expired" /\ Emit(<<e>>)
<1> DEFINE e == [BlankEvent EXCEPT !.type = "expired", !.session = i]
<1>1. /\ sessions' = [sessions EXCEPT ![i].state = "expired"] /\ Emit(<<e>>)
      /\ UNCHANGED <<stripe, refunded, lost>> /\ Quietly /\ sessions[i].state = "open"
  BY DEF SessionExpires
<1>2. NextInvoice \in 1 .. MaxEvents
  BY <1>1, EmitOne DEF BillingTypes
<1>3. WellFormed(e) /\ e.type = "expired"
  <2>1. /\ 1 \in 1 .. MaxEvents /\ 0 \in 0 .. MaxTime + 3 * Period /\ 0 \in 0 .. MaxEvents
        /\ 0 \in 0 .. 3 /\ i \in 0 .. MaxRows /\ i # 0
    BY <1>2, BillingAssumption, RowsLength DEF BillingTypes, TableTypes
  <2>2. e \in Event
    BY <2>1 DEF BlankEvent, Event, EventType, RowStatus, Current, BillingTypes, ClockTypes,
       Time
  <2>3. e.type = "expired" /\ e.session = i
    BY DEF BlankEvent
  <2> HIDE DEF e
  <2>4. QED
    BY <2>1, <2>2, <2>3 DEF WellFormed
<1> HIDE DEF e
<1>4. QED
  BY <1>1, <1>3

LEMMA SessionExpiresTyped ==
    ASSUME BillingTypes, NEW i \in 1 .. Len(rows), SessionExpires(i)
    PROVE  BillingTypes'
<1>1. /\ sessions' = [sessions EXCEPT ![i].state = "expired"]
      /\ UNCHANGED <<stripe, refunded, lost>> /\ Quietly
  BY SessionExpiresSteps
<1>2. PICK e : WellFormed(e) /\ e.type = "expired" /\ Emit(<<e>>)
  BY SessionExpiresSteps
<1>3. EventTypes' /\ events \subseteq events'
  BY <1>2, EmitOne DEF BillingTypes
<1>4. StripeTypes'
  BY <1>1 DEF BillingTypes, StripeTypes, Session
<1>5. QED
  BY <1>1, <1>3, <1>4, StripeStepTyped DEF BillingTypes, ClockTypes

\* The event of a refund.
LEMMA RefundSteps ==
    ASSUME BillingTypes, NEW s \in Sub, Refund(s)
    PROVE  /\ UNCHANGED <<stripe, sessions, lost>> /\ Quietly
           /\ refunded' \in [Sub -> 0 .. 3]
           /\ \E e : WellFormed(e) /\ e.type = "refund" /\ Emit(<<e>>)
<1> DEFINE a == About("refund", s, stripe[s])
           e == [a EXCEPT !.total = refunded[s] + 1, !.invoice = stripe[s].invoice]
<1>1. /\ stripe[s].status # "none" /\ refunded[s] < 3
      /\ refunded' = [refunded EXCEPT ![s] = @ + 1] /\ Emit(<<e>>)
      /\ UNCHANGED <<stripe, sessions, lost>> /\ Quietly
  BY DEF Refund
<1>2. NextInvoice \in 1 .. MaxEvents
  BY <1>1, EmitOne DEF BillingTypes
<1>3. stripe[s] \in StripeSub /\ ClockTypes
  BY SubAt DEF BillingTypes
<1>4. refunded[s] \in 0 .. 3
  BY DEF BillingTypes, StripeTypes
<1>5. refunded[s] + 1 \in 0 .. 3
  BY <1>1, <1>4
<1>6. a \in Event /\ a.type = "refund" /\ a.session = 0
  BY <1>1, <1>2, <1>3, AboutFields DEF EventType
<1>7. stripe[s].invoice \in 0 .. MaxEvents
  BY <1>3 DEF StripeSub
<1> HIDE DEF a
<1>8. e \in Event /\ e.type = "refund" /\ e.session = 0
  BY <1>5, <1>6, <1>7 DEF Event
<1> HIDE DEF e
<1>9. WellFormed(e)
  BY <1>8 DEF WellFormed
<1>10. refunded' \in [Sub -> 0 .. 3]
  BY <1>1, <1>5 DEF BillingTypes, StripeTypes
<1>11. QED
  BY <1>1, <1>8, <1>9, <1>10

LEMMA RefundTyped ==
    ASSUME BillingTypes, NEW s \in Sub, Refund(s)
    PROVE  BillingTypes'
<1>1. UNCHANGED <<stripe, sessions, lost>> /\ Quietly /\ refunded' \in [Sub -> 0 .. 3]
  BY RefundSteps
<1>2. PICK e : WellFormed(e) /\ e.type = "refund" /\ Emit(<<e>>)
  BY RefundSteps
<1>3. EventTypes' /\ events \subseteq events'
  BY <1>2, EmitOne DEF BillingTypes
<1>4. StripeTypes'
  BY <1>1 DEF BillingTypes, StripeTypes
<1>5. QED
  BY <1>1, <1>3, <1>4, StripeStepTyped DEF BillingTypes, ClockTypes

LEMMA TickTyped ==
    ASSUME BillingTypes, Tick
    PROVE  BillingTypes'
<1>1. /\ now < MaxTime /\ now' = now + 1
      /\ UNCHANGED <<stripeVars, tableVars, handling, asking, lost>>
  BY DEF Tick
<1>2. ClockTypes'
  BY <1>1, BillingAssumption DEF BillingTypes, ClockTypes
<1>3. StripeTypes' /\ EventTypes' /\ TableTypes'
  BY <1>1 DEF BillingTypes, StripeTypes, EventTypes, TableTypes, stripeVars, tableVars
<1>4. AskingTypes' /\ HandlingTypes'
  BY <1>1 DEF BillingTypes, AskingTypes, HandlingTypes, stripeVars, tableVars
<1>5. QED
  BY <1>2, <1>3, <1>4 DEF BillingTypes

-----------------------------------------------------------------------------
(* Billing: webhooks.                                                      *)

LEMMA WebhookFields ==
    ASSUME NEW w \in WebhookState
    PROVE  /\ w.step \in {"idle", "received", "commit"}
           /\ w.step = "idle" => w = NoEvent
           /\ w.step # "idle" => w.event \in Event
           /\ w.step = "commit" => w \in Transaction
<1>1. CASE w = NoEvent
  BY <1>1 DEF NoEvent
<1>2. CASE w \in [step : {"received"}, event : Event]
  BY <1>2
<1>3. CASE w \in Transaction
  BY <1>3 DEF Transaction
<1>4. QED
  BY <1>1, <1>2, <1>3 DEF WebhookState

LEMMA Handling ==
    ASSUME HandlingTypes, EventTypes, NEW h \in Handler, handling[h].step # "idle"
    PROVE  /\ handling[h] \in WebhookState /\ handling[h].event \in events
           /\ WellFormed(handling[h].event) /\ handling[h].event.id \in 1 .. MaxEvents
<1>1. handling[h] \in WebhookState /\ handling[h].event \in events
  BY DEF HandlingTypes
<1>2. WellFormed(handling[h].event)
  BY <1>1 DEF EventTypes
<1>3. QED
  BY <1>1, <1>2 DEF WellFormed, Event

\* A webhook that changes no table.
LEMMA WebhookTypedStep ==
    ASSUME BillingTypes, NEW h \in Handler, NEW w, WebhookTyped(w),
           handling' = [handling EXCEPT ![h] = w],
           UNCHANGED <<now, stripe, sessions, refunded, events, tableVars, asking, lost>>,
           acked' \subseteq 1 .. MaxEvents
    PROVE  BillingTypes'
<1>1. /\ Len(rows) \in Nat /\ Len(rows)' \in Nat /\ Len(rows) <= Len(rows)'
      /\ events \subseteq events' /\ HandlingTypes
  BY RowsLength DEF BillingTypes, tableVars
<1>2. HandlingTypes'
  BY <1>1, WebhookMoves
<1>3. AskingTypes'
  BY <1>1, AskingStays DEF BillingTypes
<1>4. StripeTypes' /\ EventTypes' /\ TableTypes' /\ ClockTypes'
  BY DEF BillingTypes, StripeTypes, EventTypes, TableTypes, ClockTypes, tableVars
<1>5. QED
  BY <1>2, <1>3, <1>4 DEF BillingTypes

LEMMA IdleTyped == WebhookTyped(NoEvent)
BY DEF WebhookTyped, WebhookState, NoEvent

LEMMA FailTyped ==
    ASSUME BillingTypes, NEW h \in Handler, Fail(h)
    PROVE  BillingTypes'
<1>1. /\ handling' = [handling EXCEPT ![h] = NoEvent]
      /\ UNCHANGED <<now, stripe, sessions, refunded, events, acked, tableVars, asking, lost>>
  BY DEF Fail, stripeVars
<1>2. acked' \subseteq 1 .. MaxEvents
  BY <1>1 DEF BillingTypes, TableTypes
<1>3. QED
  BY <1>1, <1>2, IdleTyped, WebhookTypedStep

LEMMA SkipTyped ==
    ASSUME BillingTypes, NEW h \in Handler, handling[h].step = "commit", Skip(h)
    PROVE  BillingTypes'
<1>1. /\ handling' = [handling EXCEPT ![h] = NoEvent]
      /\ acked' = acked \cup {handling[h].event.id}
      /\ UNCHANGED <<now, stripe, sessions, refunded, events, tableVars, asking, lost>>
  BY DEF Skip
<1>2. handling[h].event.id \in 1 .. MaxEvents
  BY Handling DEF BillingTypes
<1>3. acked' \subseteq 1 .. MaxEvents
  BY <1>1, <1>2 DEF BillingTypes, TableTypes
<1>4. QED
  BY <1>1, <1>3, IdleTyped, WebhookTypedStep

LEMMA ReceiveTyped ==
    ASSUME BillingTypes, NEW h \in Handler, NEW e \in events, Receive(h, e)
    PROVE  BillingTypes'
<1> DEFINE w == [step |-> "received", event |-> e]
<1>1. /\ handling' = [handling EXCEPT ![h] = w]
      /\ UNCHANGED <<now, stripe, sessions, refunded, events, acked, tableVars, asking, lost>>
  BY DEF Receive, stripeVars
<1>2. e \in Event
  BY DEF BillingTypes, EventTypes, WellFormed
<1>3. w \in WebhookState /\ w.step = "received" /\ w.event = e
  BY <1>2 DEF WebhookState
<1> HIDE DEF w
<1>4. WebhookTyped(w)
  BY <1>1, <1>3 DEF WebhookTyped
<1>5. acked' \subseteq 1 .. MaxEvents
  BY <1>1 DEF BillingTypes, TableTypes
<1>6. QED
  BY <1>1, <1>4, <1>5, WebhookTypedStep

\* What a webhook has read when it commits.
Read(e) ==
    [step |-> "commit", event |-> e, row |-> Found(e), effect |-> Effect(e, Found(e)),
     locks |-> LockSet(e, Found(e)), key |-> NotificationKey(e, Effect(e, Found(e)))]

LEMMA LockSetTyped ==
    ASSUME TableTypes, NEW e, NEW i \in 0 .. Len(rows)
    PROVE  /\ LockSet(e, i) \subseteq 1 .. Len(rows)
           /\ e.type \notin {"refund", "expired"} /\ i # 0 => i \in LockSet(e, i)
           /\ e.type = "expired" /\ i # 0 /\ rows[i].status = "pending" => i \in LockSet(e, i)
<1>1. Len(rows) \in Nat
  BY RowsLength
<1>2. Others(i) \subseteq 1 .. Len(rows)
  BY DEF Others, Ids
<1>3. CASE e.type = "refund"
  BY <1>3 DEF LockSet
<1>4. CASE e.type = "expired"
  BY <1>1, <1>4 DEF LockSet
<1>5. CASE e.type \notin {"refund", "expired"}
  <2>1. LockSet(e, i) = ({i} \ {0}) \cup IF LooksForOthers(e, i) THEN Others(i) ELSE {}
    BY <1>5 DEF LockSet
  <2>2. QED
    BY <1>1, <1>2, <1>5, <2>1
<1>6. QED
  BY <1>3, <1>4, <1>5

LEMMA ReadTyped ==
    ASSUME BillingTypes, NEW e \in events
    PROVE  /\ Read(e) \in Transaction /\ Found(e) \in 0 .. Len(rows)
           /\ Read(e).step = "commit" /\ Read(e).event = e /\ Read(e).row = Found(e)
           /\ Read(e).effect = Effect(e, Found(e)) /\ Read(e).locks = LockSet(e, Found(e))
           /\ Read(e).key = NotificationKey(e, Effect(e, Found(e)))
           /\ Proper(Effect(e, Found(e)), e, Found(e)) /\ WellFormed(e)
<1> DEFINE i == Found(e)
           f == Effect(e, i)
<1>1. WellFormed(e) /\ TableTypes /\ StripeTypes
  BY DEF BillingTypes, EventTypes
<1>2. i \in 0 .. Len(rows) /\ Len(rows) \in Nat
  BY <1>1, FoundRow, RowsLength
<1> HIDE DEF i
<1>3. Proper(f, e, i)
  BY <1>1, <1>2, EffectProper
<1>4. f \in EventEffect
  BY <1>3 DEF Proper
<1>5. NotificationKey(e, f) \in 0 .. MaxEvents
  BY <1>1, BillingAssumption DEF NotificationKey, WellFormed, Event
<1>6. i \in 0 .. MaxRows /\ LockSet(e, i) \in SUBSET (1 .. MaxRows)
  BY <1>1, <1>2, LockSetTyped, BillingAssumption DEF TableTypes
<1>7. e \in Event
  BY <1>1 DEF WellFormed
<1>8. [step |-> "commit", event |-> e, row |-> i, effect |-> f, locks |-> LockSet(e, i),
       key |-> NotificationKey(e, f)] \in Transaction
  <2> HIDE DEF f
  <2> QED BY <1>4, <1>5, <1>6, <1>7 DEF Transaction
<1>9. QED
  BY <1>1, <1>2, <1>3, <1>8 DEF Read, i

LEMMA BeginTyped ==
    ASSUME BillingTypes, NEW h \in Handler, Begin(h)
    PROVE  BillingTypes'
<1> DEFINE e == handling[h].event
<1>1. /\ handling[h].step = "received"
      /\ handling' = [handling EXCEPT ![h] = Read(e)]
      /\ UNCHANGED <<now, stripe, sessions, refunded, events, acked, tableVars, asking, lost>>
  BY DEF Begin, Read, stripeVars
<1>2. e \in events
  BY <1>1, Handling DEF BillingTypes
<1> HIDE DEF e
<1>3. /\ Read(e) \in Transaction /\ Read(e).step = "commit" /\ Read(e).event = e
      /\ Read(e).row \in 0 .. Len(rows) /\ Read(e).locks \subseteq 1 .. Len(rows)
  BY <1>2, ReadTyped, LockSetTyped DEF BillingTypes
<1>4. Len(rows)' = Len(rows) /\ events' = events /\ Len(rows) \in Nat
  BY <1>1, RowsLength DEF tableVars, BillingTypes
<1>5. Read(e).row <= Len(rows)'
  BY <1>3, <1>4
<1>6. WebhookTyped(Read(e))
  BY <1>2, <1>3, <1>4, <1>5 DEF WebhookTyped, WebhookState
<1>7. acked' \subseteq 1 .. MaxEvents
  BY <1>1 DEF BillingTypes, TableTypes
<1>8. QED
  BY <1>1, <1>6, <1>7, WebhookTypedStep

\* What the commit of w makes of the rows, and how many there are after it.
PutRows(w) ==
    IF w.effect.put = None THEN rows
    ELSE IF w.row = 0 THEN Append(rows, w.effect.put)
    ELSE [rows EXCEPT ![w.row] = w.effect.put]

LEMMA TransactionFields ==
    ASSUME NEW w \in Transaction
    PROVE  /\ w.event \in Event /\ w.row \in 0 .. MaxRows /\ w.effect \in EventEffect
           /\ w.key \in 0 .. MaxEvents /\ w.effect.put \in SubscriptionRow \cup {None}
           /\ w.effect.plan \in WrittenPlan
BY DEF Transaction, EventEffect

LEMMA PutRowsTyped ==
    ASSUME TableTypes, NEW w \in Transaction, w.row <= Len(rows), Fits(w)
    PROVE  /\ PutRows(w) \in Seq(SubscriptionRow)
           /\ Len(PutRows(w)) <= MaxRows /\ Len(rows) <= Len(PutRows(w))
           /\ Len(PutRows(w)) \in Nat
<1> DEFINE put == w.effect.put
<1>1. w.row \in 0 .. MaxRows /\ put \in SubscriptionRow \cup {None}
  BY TransactionFields
<1>2. rows \in Seq(SubscriptionRow) /\ Len(rows) \in Nat /\ Len(rows) <= MaxRows /\ MaxRows \in Nat
  BY RowsLength, BillingAssumption DEF TableTypes
<1>3. CASE put = None
  BY <1>2, <1>3 DEF PutRows
<1>4. CASE put # None /\ w.row = 0
  <2>1. PutRows(w) = Append(rows, put)
    BY <1>4 DEF PutRows
  <2>2. Append(rows, put) \in Seq(SubscriptionRow) /\ Len(Append(rows, put)) = Len(rows) + 1
    BY <1>1, <1>2, <1>4, AppendProperties
  <2>3. Len(rows) < MaxRows
    BY <1>4 DEF Fits
  <2>4. QED
    BY <1>2, <2>1, <2>2, <2>3
<1>5. CASE put # None /\ w.row # 0
  <2>1. PutRows(w) = [rows EXCEPT ![w.row] = put]
    BY <1>5 DEF PutRows
  <2>2. w.row \in 1 .. Len(rows)
    BY <1>1, <1>2, <1>5
  <2>3. [rows EXCEPT ![w.row] = put] \in Seq(SubscriptionRow)
        /\ Len([rows EXCEPT ![w.row] = put]) = Len(rows)
    BY <1>1, <1>2, <1>5, <2>2, ExceptSeq
  <2>4. QED
    BY <1>2, <2>1, <2>3
<1>6. QED
  BY <1>3, <1>4, <1>5

LEMMA TransactionsTyped ==
    ASSUME NEW w \in Transaction
    PROVE  IsFiniteSet(Transactions(w)) /\ Transactions(w) \subseteq Payment
<1> DEFINE p == [event |-> w.event.id, status |-> w.effect.pay,
                 invoice |-> w.event.invoice, amount |-> w.effect.amount]
<1>1. CASE w.effect.pay = "none"
  BY <1>1, FS_EmptySet DEF Transactions
<1>2. CASE w.effect.pay # "none"
  <2>1. w.event \in Event /\ w.effect \in EventEffect
    BY TransactionFields
  <2>2. w.event.id \in 1 .. MaxEvents /\ w.event.invoice \in 0 .. MaxEvents
    BY <2>1 DEF Event
  <2>3. w.effect.pay \in {"succeeded", "failed", "refunded"} /\ w.effect.amount \in 0 .. 3
    BY <1>2, <2>1 DEF EventEffect
  <2>4. p \in Payment
    BY <2>2, <2>3 DEF Payment
  <2>5. Transactions(w) = {p}
    BY <1>2 DEF Transactions
  <2>6. QED
    BY <2>4, <2>5, FS_Singleton
<1>3. QED
  BY <1>1, <1>2

LEMMA WriteSteps ==
    ASSUME NEW h, Write(h)
    PROVE  /\ rows' = PutRows(handling[h])
           /\ plan' = Written(handling[h].effect.plan)
           /\ payments' = payments \cup Transactions(handling[h])
           /\ ledger' = ledger \cup {handling[h].event.id}
           /\ notified' = notified \cup ({handling[h].key} \ {0})
           /\ acked' = acked \cup {handling[h].event.id}
           /\ handling' = [handling EXCEPT ![h] = NoEvent]
           /\ UNCHANGED <<now, stripe, sessions, refunded, events, asking, lost>>
BY DEF Write, PutRows

LEMMA WriteTyped ==
    ASSUME BillingTypes, NEW h \in Handler, handling[h].step = "commit", Fits(handling[h]), Write(h)
    PROVE  BillingTypes'
<1> DEFINE w == handling[h]
<1>1. /\ rows' = PutRows(w)
      /\ plan' = Written(w.effect.plan)
      /\ payments' = payments \cup Transactions(w)
      /\ ledger' = ledger \cup {w.event.id}
      /\ notified' = notified \cup ({w.key} \ {0})
      /\ acked' = acked \cup {w.event.id}
      /\ handling' = [handling EXCEPT ![h] = NoEvent]
      /\ UNCHANGED <<now, stripe, sessions, refunded, events, asking, lost>>
  BY WriteSteps
<1>2. w \in Transaction /\ w.event.id \in 1 .. MaxEvents /\ w.row <= Len(rows) /\ Fits(w)
  BY Handling, WebhookFields DEF BillingTypes, HandlingTypes
<1> HIDE DEF w
<1>3. w.effect.plan \in WrittenPlan /\ w.key \in 0 .. MaxEvents
  BY <1>2, TransactionFields
<1>4. /\ rows' \in Seq(SubscriptionRow) /\ Len(rows)' <= MaxRows /\ Len(rows) <= Len(rows)'
      /\ Len(rows)' \in Nat /\ Len(rows) \in Nat
  BY <1>1, <1>2, PutRowsTyped, RowsLength DEF BillingTypes
<1>5. plan' \in PlanName
  BY <1>1, <1>3, WrittenTyped DEF BillingTypes
<1>6. IsFiniteSet(payments') /\ payments' \subseteq Payment
  BY <1>1, <1>2, TransactionsTyped, FS_Union DEF BillingTypes, TableTypes
<1>7. /\ ledger' \subseteq 1 .. MaxEvents /\ acked' \subseteq 1 .. MaxEvents
      /\ notified' \subseteq 1 .. MaxEvents
  <2>1. ledger' \subseteq 1 .. MaxEvents
    BY <1>1, <1>2 DEF BillingTypes, TableTypes
  <2>2. acked' \subseteq 1 .. MaxEvents
    BY <1>1, <1>2 DEF BillingTypes, TableTypes
  <2>3. {w.key} \ {0} \subseteq 1 .. MaxEvents
    BY <1>3, BillingAssumption
  <2>4. notified' \subseteq 1 .. MaxEvents
    BY <1>1, <2>3 DEF BillingTypes, TableTypes
  <2>5. QED
    BY <2>1, <2>2, <2>4
<1>8. TableTypes'
  BY <1>4, <1>5, <1>6, <1>7 DEF TableTypes
<1>9. AskingTypes'
  BY <1>1, <1>4, AskingStays DEF BillingTypes
<1>10. HandlingTypes'
  <2>1. events \subseteq events'
    BY <1>1
  <2>2. QED
    BY <1>1, <1>4, <2>1, IdleTyped, WebhookMoves DEF BillingTypes
<1>11. StripeTypes' /\ EventTypes' /\ ClockTypes'
  BY <1>1 DEF BillingTypes, StripeTypes, EventTypes, ClockTypes
<1>12. QED
  BY <1>8, <1>9, <1>10, <1>11 DEF BillingTypes

LEMMA BillingTypesKept == BillingTypes /\ [BillingNext]_billingVars => BillingTypes'
<1> SUFFICES ASSUME BillingTypes, [BillingNext]_billingVars PROVE BillingTypes'
  OBVIOUS
<1>1. CASE Tick
  BY <1>1, TickTyped
<1>2. CASE Owner
  <2>1. PICK r \in Caller :
          \/ SignIn(r) \/ OwnerActs(r) \/ FinishUsage(r)
          \/ \E b \in BOOLEAN : FinishCheckout(r, b) \/ FinishChange(r, b) \/ FinishCancel(r, b)
    BY <1>2 DEF Owner
  <2>2. CASE SignIn(r) \/ FinishUsage(r)
    BY <2>2, SignInTyped, FinishUsageTyped
  <2>3. CASE OwnerActs(r)
    BY <2>3, SignInTyped, CheckoutTyped, BeginChangeTyped, BeginCancelTyped DEF OwnerActs
  <2>4. ASSUME NEW b \in BOOLEAN, FinishCheckout(r, b) \/ FinishChange(r, b) \/ FinishCancel(r, b)
        PROVE  BillingTypes'
    BY <2>4, FinishCheckoutTyped, FinishChangeTyped, FinishCancelTyped
  <2>5. QED
    BY <2>1, <2>2, <2>3, <2>4
<1>3. CASE Stripe
  <2>1. Ids = 1 .. Len(rows)
    BY DEF Ids
  <2>2. QED
    BY <1>3, <2>1, PayTyped, RenewalsTyped, RefundTyped, SessionExpiresTyped DEF Stripe
<1>4. CASE Webhook
  <2>1. PICK h \in Handler : (\E e \in events : Receive(h, e)) \/ Begin(h) \/ Commit(h) \/ Dies(h)
    BY <1>4 DEF Webhook
  <2>2. ASSUME Commit(h) PROVE BillingTypes'
    <3>1. handling[h].step = "commit" /\ Fits(handling[h]) /\ (Fail(h) \/ Skip(h) \/ Write(h))
      BY <2>2 DEF Commit
    <3>2. QED
      BY <3>1, FailTyped, SkipTyped, WriteTyped
  <2>3. QED
    BY <2>1, <2>2, ReceiveTyped, BeginTyped, FailTyped DEF Dies
<1>5. CASE UNCHANGED billingVars
  <2>1. UNCHANGED <<now, stripe, sessions, refunded, events, acked, rows, plan, ledger, notified,
                    payments, handling, asking, lost>>
    BY <1>5 DEF billingVars, stripeVars, tableVars
  <2>2. QED
    BY <2>1 DEF BillingTypes, StripeTypes, EventTypes, TableTypes, AskingTypes,
       HandlingTypes,
                ClockTypes
<1>6. QED
  BY <1>1, <1>2, <1>3, <1>4, <1>5 DEF BillingNext

LEMMA BillingTypesMean == BillingTypes => BillingTypeOK
<1> SUFFICES ASSUME BillingTypes PROVE BillingTypeOK
  OBVIOUS
<1>1. /\ now \in 0 .. MaxTime /\ lost \in BOOLEAN /\ stripe \in [Sub -> StripeSub]
      /\ sessions \in [1 .. MaxRows -> Session] /\ refunded \in [Sub -> 0 .. 3]
  BY DEF BillingTypes, ClockTypes, StripeTypes
<1>2. \A e \in events : e \in Event
  BY DEF BillingTypes, EventTypes, WellFormed
<1>3. \A i \in Ids : rows[i] \in SubscriptionRow
  BY RowAt DEF BillingTypes, TableTypes, Ids
<1>4. /\ Len(rows) <= MaxRows /\ plan \in PlanName /\ ledger \subseteq 1 .. MaxEvents
      /\ acked \subseteq 1 .. MaxEvents /\ \A p \in payments : p \in Payment
  BY DEF BillingTypes, TableTypes
<1>5. QED
  BY <1>1, <1>2, <1>3, <1>4 DEF BillingTypeOK, PlanName

-----------------------------------------------------------------------------
(* Billing: the invariant of the payments.                                 *)

Invoiced(e) == e.type \in {"paid", "checkout"}

\* Every event has a number, every paid invoice and every session one event;
\* a paid session and the subscription it began stay so.
EventsAreOne ==
    /\ \A e \in events, d \in events :
         /\ e.id = d.id => e = d
         /\ Invoiced(e) /\ Invoiced(d) /\ e.invoice = d.invoice =>
              e.sub = d.sub /\ (e.type = d.type => e = d)
         /\ e.type = "checkout" /\ d.type = "checkout" /\ (e.session = d.session \/ e.sub = d.sub)
              => e = d
    /\ \A e \in events :
         /\ e.id <= Cardinality(events)
         /\ Invoiced(e) => e.invoice <= Cardinality(events)
         /\ e.type = "checkout" => /\ sessions[e.session].state = "paid"
                                   /\ stripe[e.sub].status # "none"

\* No answer and no message is about an event that is not there yet.
AnswersAreOld ==
    /\ \A a \in acked : a <= Cardinality(events)
    /\ \A v \in notified : v <= Cardinality(events)

\* It was applied that the subscription had ended, at a second or later.
EndSeen(evs, ack, sub, second) ==
    \E d \in evs : d.status \in Ended /\ d.sub = sub /\ d.created >= second /\ d.id \in ack

\* A row with a session and a subscription has them from one checkout.
OpenedBy(evs, r) ==
    r.session # 0 /\ r.sub # None =>
        \E e \in evs : e.type = "checkout" /\ e.session = r.session /\ e.sub = r.sub

RowExplained(r, evs, ack) ==
    /\ OpenedBy(evs, r)
    /\ r.status = "pending" => r.sub = None
    /\ r.status \in Ended /\ r.sub # None => EndSeen(evs, ack, r.sub, r.seen)

RowsExplained == \A i \in 1 .. Len(rows) : RowExplained(rows[i], events, acked)

RowsAreOne ==
    \A i \in 1 .. Len(rows), j \in 1 .. Len(rows) :
        rows[i].sub # None /\ rows[i].sub = rows[j].sub => i = j

\* The row of a checkout that is on its way has no session but its own, and no
\* subscription without it.
Unopened(x, table) ==
    x.step = "checkout" =>
        /\ table[x.row].session \in {0, x.row}
        /\ table[x.row].session = 0 => table[x.row].sub = None

AsksAreOpen == \A r \in Caller : Unopened(asking[r], rows)

LockedBy(w) == IF w.step = "commit" THEN w.locks ELSE {}
KeptBy(x) == IF x.step \in {"checkout", "change"} /\ x.locks THEN {x.row} ELSE {}

LocksApart ==
    /\ \A h \in Handler, g \in Handler : h # g => LockedBy(handling[h]) \cap LockedBy(handling[g]) = {}
    /\ \A h \in Handler, r \in Caller : LockedBy(handling[h]) \cap KeptBy(asking[r]) = {}

\* A message was sent only about a subscription that has a row.
NotifiedHasRow ==
    \A e \in events : Invoiced(e) /\ e.invoice \in notified =>
        \E i \in 1 .. Len(rows) : rows[i].sub = e.sub

\* The row that a commit writes: what the event says of it, and that the row
\* it replaces is locked and of the same subscription.
PutExplained(w, table, evs) ==
    LET e == w.event
        put == w.effect.put
    IN  put # None =>
          /\ OpenedBy(evs, put)
          /\ put.status # "pending"
          /\ put.sub = e.sub \/ (e.type = "expired" /\ put.sub = None)
          /\ put.status \in Ended =>
               put.sub = None \/ (put.seen = e.created /\ e.status \in Ended)
          /\ w.row # 0 =>
               /\ w.row \in w.locks
               /\ table[w.row].sub \in {None, put.sub}
               /\ table[w.row].session \in {0, put.session}
               /\ table[w.row].session # 0 \/ table[w.row].sub # None

\* A payment that is about to be committed: it is recorded, or refused, or too
\* late; and no message about it was sent since it was read.
PaidExplained(w, table, evs, ack, led, sent) ==
    LET e == w.event
        f == w.effect
    IN  e.type = "paid" =>
          /\ f.pay = "succeeded" \/ f.rejected \/ EndSeen(evs, ack, e.sub, e.created)
          /\ w.row = 0 => f.put # None
          /\ w.row # 0 =>
               /\ w.row \in w.locks
               /\ table[w.row].sub = e.sub
               /\ w.key # 0 /\ e.id \notin led => w.key \notin sent

KeyExplained(w) ==
    w.key # 0 => /\ Invoiced(w.event) /\ w.key = w.event.invoice
                 /\ w.event.type = "checkout" => w.effect.put # None

CommitExplained(w, table, evs, ack, led, sent) ==
    /\ PutExplained(w, table, evs)
    /\ PaidExplained(w, table, evs, ack, led, sent)
    /\ KeyExplained(w)

CommitsExplained ==
    \A h \in Handler : handling[h].step = "commit" =>
        CommitExplained(handling[h], rows, events, acked, ledger, notified)

PaymentsInv ==
    /\ BillingTypes
    /\ EventsAreOne
    /\ AnswersAreOld
    /\ RowsExplained
    /\ RowsAreOne
    /\ AsksAreOpen
    /\ LocksApart
    /\ ledger \subseteq acked
    /\ NotifiedHasRow
    /\ CommitsExplained
    /\ PaymentsRecorded

LEMMA NumberOf ==
    ASSUME EventTypes, NEW e \in events
    PROVE  /\ e.id \in 1 .. MaxEvents /\ e.created \in 0 .. MaxTime /\ e.invoice \in 0 .. MaxEvents
           /\ e.type \in EventType /\ WellFormed(e)
           /\ Invoiced(e) => e.sub \in Sub /\ e.sub # None
<1>1. WellFormed(e)
  BY DEF EventTypes
<1>2. QED
  BY <1>1, BillingAssumption DEF WellFormed, Event, Invoiced

LEMMA EndSeenLasts ==
    ASSUME NEW evs, NEW ack, NEW evs2, NEW ack2, evs \subseteq evs2, ack \subseteq ack2,
           NEW sub, NEW second, EndSeen(evs, ack, sub, second)
    PROVE  EndSeen(evs2, ack2, sub, second)
BY DEF EndSeen

LEMMA OpenedLasts ==
    ASSUME NEW evs, NEW evs2, evs \subseteq evs2, NEW r, OpenedBy(evs, r)
    PROVE  OpenedBy(evs2, r)
BY DEF OpenedBy

LEMMA RowLasts ==
    ASSUME NEW evs, NEW ack, NEW evs2, NEW ack2, evs \subseteq evs2, ack \subseteq ack2,
           NEW r, RowExplained(r, evs, ack)
    PROVE  RowExplained(r, evs2, ack2)
BY OpenedLasts, EndSeenLasts DEF RowExplained

\* A commit stays explained as long as the rows it holds keep their
\* subscription and session, and no message about it is sent.
LEMMA CommitLasts ==
    ASSUME NEW w, NEW table, NEW evs, NEW ack, NEW led, NEW sent,
           NEW table2, NEW evs2, NEW ack2, NEW led2, NEW sent2,
           CommitExplained(w, table, evs, ack, led, sent),
           evs \subseteq evs2, ack \subseteq ack2, led \subseteq led2,
           \A i \in w.locks : table2[i].sub = table[i].sub /\ table2[i].session = table[i].session,
           /\ w.event.type = "paid" /\ w.row # 0 /\ w.key # 0 /\ w.event.id \notin led2
              /\ w.key \notin sent
              => w.key \notin sent2
    PROVE  CommitExplained(w, table2, evs2, ack2, led2, sent2)
<1>1. PutExplained(w, table2, evs2)
  BY OpenedLasts DEF CommitExplained, PutExplained
<1>2. PaidExplained(w, table2, evs2, ack2, led2, sent2)
  <2>1. w.event.type = "paid" => \/ w.effect.pay = "succeeded" \/ w.effect.rejected
                                 \/ EndSeen(evs2, ack2, w.event.sub, w.event.created)
    BY EndSeenLasts DEF CommitExplained, PaidExplained
  <2>2. QED
    BY <2>1 DEF CommitExplained, PaidExplained
<1>3. QED
  BY <1>1, <1>2 DEF CommitExplained

\* What Stripe made of sessions and subscriptions that had begun stays.
BegunLasts ==
    /\ \A i \in 1 .. MaxRows : sessions[i].state = "paid" => sessions'[i].state = "paid"
    /\ \A s \in Sub : stripe[s].status # "none" => stripe'[s].status # "none"

LEMMA SameEventsOne ==
    ASSUME EventTypes, EventsAreOne, BegunLasts, events' = events
    PROVE  EventsAreOne'
<1>1. ASSUME NEW e \in events, e.type = "checkout"
      PROVE  sessions'[e.session].state = "paid" /\ stripe'[e.sub].status # "none"
  <2>1. WellFormed(e) /\ e.session \in 0 .. MaxRows /\ e.session # 0
    BY <1>1 DEF EventTypes, WellFormed, Event
  <2>2. e.session \in 1 .. MaxRows /\ e.sub \in Sub
    BY <1>1, <2>1, BillingAssumption DEF WellFormed
  <2>3. QED
    BY <1>1, <2>2 DEF EventsAreOne, BegunLasts
<1>2. QED
  BY <1>1 DEF EventsAreOne

\* The events of one moment: at most one checkout and one payment, of one
\* subscription, under the next invoice.
Moment(seq, s) ==
    /\ \A k \in 1 .. Len(seq) : WellFormed(seq[k])
    /\ \A k \in 1 .. Len(seq) : Invoiced(seq[k]) => seq[k].sub = s /\ seq[k].invoice = NextInvoice
    /\ \A k \in 1 .. Len(seq), m \in 1 .. Len(seq) :
         Invoiced(seq[k]) /\ seq[k].type = seq[m].type => k = m
    /\ \A k \in 1 .. Len(seq) : seq[k].type = "checkout" =>
         /\ sessions[seq[k].session].state # "paid" /\ sessions'[seq[k].session].state = "paid"
         /\ stripe[s].status = "none" /\ stripe'[s].status # "none"

LEMMA EmitCounts ==
    ASSUME EventTypes, EventsAreOne, NEW seq, Len(seq) \in Nat, DOMAIN seq = 1 .. Len(seq),
           Emit(seq), \A k \in 1 .. Len(seq) : WellFormed(seq[k])
    PROVE  Cardinality(events') = Cardinality(events) + Len(seq)
<1> DEFINE n == Cardinality(events)
           S == 1 .. Len(seq)
           f == [k \in S |-> Numbered(seq[k], n + k)]
           new == {Numbered(seq[k], n + k) : k \in S}
<1>1. n \in Nat /\ events' = events \cup new /\ n + Len(seq) <= MaxEvents
  BY EventCount, EmitTyped
<1>2. ASSUME NEW k \in S PROVE f[k].id = n + k
  <2>1. n + k \in 1 .. MaxEvents
    BY <1>1, BillingAssumption
  <2>2. QED
    BY <2>1, NumberedFormed
<1>3. \A k \in S, m \in S : f[k] = f[m] => k = m
  BY <1>1, <1>2
<1>4. f \in [S -> new] /\ \A x \in new : \E k \in S : f[k] = x
  OBVIOUS
<1>5. IsFiniteSet(S) /\ Cardinality(S) = Len(seq)
  BY FS_Interval
<1> HIDE DEF f, S
<1>6. f \in Bijection(S, new)
  <2> HIDE DEF new
  <2>1. IsInjective(f)
    BY <1>3, <1>4 DEF IsInjective
  <2>2. QED
    BY <1>4, <2>1 DEF Bijection, Injection, Surjection
<1>7. IsFiniteSet(new) /\ Cardinality(new) = Len(seq)
  <2> HIDE DEF new
  <2>1. ExistsBijection(S, new)
    BY <1>6 DEF ExistsBijection
  <2>2. QED
    BY <1>5, <2>1, FS_Bijection
<1>8. events \cap new = {}
  <2> SUFFICES ASSUME NEW e \in events, e \in new PROVE FALSE
    OBVIOUS
  <2>1. PICK k \in S : f[k] = e
    BY <1>4
  <2>2. e.id = n + k /\ e.id <= n
    BY <1>2, <2>1 DEF EventsAreOne
  <2>3. k \in Nat \ {0}
    BY DEF S
  <2>4. QED
    BY <1>1, <2>2, <2>3
<1>9. IsFiniteSet(events)
  BY DEF EventTypes
<1>10. Cardinality(events \cup new) = Cardinality(events) + Cardinality(new) - Cardinality(events \cap new)
  <2> HIDE DEF new
  <2> QED BY <1>7, <1>9, FS_Union
<1>11. Cardinality(events \cap new) = 0
  BY <1>8, FS_EmptySet
<1>12. QED
  <2> HIDE DEF new
  <2> QED BY <1>1, <1>7, <1>10, <1>11

LEMMA NewEventsOne ==
    ASSUME BillingTypes, EventsAreOne, BegunLasts, NEW seq, NEW s,
           Len(seq) \in Nat, DOMAIN seq = 1 .. Len(seq), Emit(seq), Moment(seq, s)
    PROVE  /\ EventsAreOne' /\ events \subseteq events'
           /\ Cardinality(events') = Cardinality(events) + Len(seq)
           /\ Cardinality(events) \in Nat
           /\ \A e \in events' : e \in events \/ /\ e.id > Cardinality(events)
                                                 /\ Invoiced(e) => e.invoice > Cardinality(events)
<1> DEFINE n == Cardinality(events)
           new == {Numbered(seq[k], n + k) : k \in 1 .. Len(seq)}
<1>1. /\ n \in Nat /\ events' = events \cup new /\ n + Len(seq) <= MaxEvents /\ EventTypes
      /\ \A k \in 1 .. Len(seq) : WellFormed(seq[k])
  BY EventCount, EmitTyped DEF BillingTypes, Moment
<1>2. Cardinality(events') = n + Len(seq)
  BY <1>1, EmitCounts
<1>3. ASSUME NEW e \in new
      PROVE  \E k \in 1 .. Len(seq) :
               /\ e.id = n + k /\ e.type = seq[k].type /\ e.sub = seq[k].sub
               /\ e.invoice = seq[k].invoice /\ e.session = seq[k].session /\ WellFormed(e)
  <2>1. PICK k \in 1 .. Len(seq) : e = Numbered(seq[k], n + k)
    OBVIOUS
  <2>2. n + k \in 1 .. MaxEvents
    BY <1>1, BillingAssumption
  <2>3. QED
    BY <1>1, <2>1, <2>2, NumberedFormed
<1> HIDE DEF new
<1>4. ASSUME NEW e \in events
      PROVE  /\ e.id <= n /\ e.id \in Nat /\ e.invoice \in Nat /\ (Invoiced(e) => e.invoice <= n)
             /\ e.type = "checkout" =>
                  /\ e.session \in 1 .. MaxRows /\ e.sub \in Sub
                  /\ sessions[e.session].state = "paid" /\ stripe[e.sub].status # "none"
                  /\ sessions'[e.session].state = "paid" /\ stripe'[e.sub].status # "none"
  <2>1. /\ e.id \in 1 .. MaxEvents /\ e.invoice \in 0 .. MaxEvents /\ WellFormed(e)
    BY <1>1, NumberOf
  <2>2. e.type = "checkout" => e.session \in 1 .. MaxRows /\ e.sub \in Sub
    BY <2>1, BillingAssumption DEF WellFormed, Event
  <2>3. QED
    BY <2>1, <2>2, BillingAssumption DEF EventsAreOne, BegunLasts
<1>5. ASSUME NEW e \in new
      PROVE  /\ e.id > n /\ e.id <= n + Len(seq) /\ e.id \in Nat
             /\ Invoiced(e) => e.sub = s /\ e.invoice = n + 1 /\ n + 1 <= n + Len(seq)
             /\ e.type = "checkout" =>
                  /\ sessions[e.session].state # "paid" /\ sessions'[e.session].state = "paid"
                  /\ stripe[s].status = "none" /\ stripe'[s].status # "none"
  <2>1. PICK k \in 1 .. Len(seq) :
               /\ e.id = n + k /\ e.type = seq[k].type /\ e.sub = seq[k].sub
               /\ e.invoice = seq[k].invoice /\ e.session = seq[k].session /\ WellFormed(e)
    BY <1>3
  <2>2. Invoiced(e) => Invoiced(seq[k])
    BY <2>1 DEF Invoiced
  <2>3. e.id > n /\ e.id <= n + Len(seq) /\ e.id \in Nat /\ n + 1 <= n + Len(seq)
    BY <1>1, <2>1
  <2>4. NextInvoice = n + 1
    BY DEF NextInvoice
  <2>5. QED
    BY <2>1, <2>2, <2>3, <2>4 DEF Moment
<1>6. ASSUME NEW e \in new, NEW d \in new
      PROVE  /\ e.id = d.id => e = d
             /\ Invoiced(e) /\ e.type = d.type => e = d
  <2>1. PICK k \in 1 .. Len(seq) : e = Numbered(seq[k], n + k)
    BY DEF new
  <2>2. PICK m \in 1 .. Len(seq) : d = Numbered(seq[m], n + m)
    BY DEF new
  <2>3. n + k \in 1 .. MaxEvents /\ n + m \in 1 .. MaxEvents
    BY <1>1, BillingAssumption
  <2>4. e.id = n + k /\ d.id = n + m /\ e.type = seq[k].type /\ d.type = seq[m].type
    BY <1>1, <2>1, <2>2, <2>3, NumberedFormed
  <2>5. e.id = d.id => k = m
    BY <1>1, <2>4
  <2>6. Invoiced(e) /\ e.type = d.type => k = m
    BY <2>4 DEF Invoiced, Moment
  <2>7. QED
    BY <2>1, <2>2, <2>5, <2>6
<1>7. ASSUME NEW e \in events', NEW d \in events'
      PROVE  /\ e.id = d.id => e = d
             /\ Invoiced(e) /\ Invoiced(d) /\ e.invoice = d.invoice =>
                  e.sub = d.sub /\ (e.type = d.type => e = d)
             /\ e.type = "checkout" /\ d.type = "checkout" /\ (e.session = d.session \/ e.sub = d.sub)
                  => e = d
  <2>1. CASE e \in events /\ d \in events
    BY <2>1 DEF EventsAreOne
  <2>2. CASE e \in new /\ d \in new
    <3>1. e.type = "checkout" => Invoiced(e)
      BY DEF Invoiced
    <3>2. QED
      BY <1>5, <1>6, <2>2, <3>1
  <2>3. CASE e \in events /\ d \in new
    <3>1. e.id # d.id /\ ~(Invoiced(e) /\ Invoiced(d) /\ e.invoice = d.invoice)
      BY <1>1, <1>4, <1>5, <2>3
    <3>2. d.type = "checkout" => d.sub = s
      BY <1>5, <2>3 DEF Invoiced
    <3>3. ~(e.type = "checkout" /\ d.type = "checkout" /\ (e.session = d.session \/ e.sub = d.sub))
      BY <1>4, <1>5, <2>3, <3>2
    <3>4. QED
      BY <3>1, <3>3
  <2>4. CASE e \in new /\ d \in events
    <3>1. e.id # d.id /\ ~(Invoiced(e) /\ Invoiced(d) /\ e.invoice = d.invoice)
      BY <1>1, <1>4, <1>5, <2>4
    <3>2. e.type = "checkout" => e.sub = s
      BY <1>5, <2>4 DEF Invoiced
    <3>3. ~(e.type = "checkout" /\ d.type = "checkout" /\ (e.session = d.session \/ e.sub = d.sub))
      BY <1>4, <1>5, <2>4, <3>2
    <3>4. QED
      BY <3>1, <3>3
  <2>5. QED
    BY <1>1, <2>1, <2>2, <2>3, <2>4
<1>8. ASSUME NEW e \in events'
      PROVE  /\ e.id <= Cardinality(events')
             /\ Invoiced(e) => e.invoice <= Cardinality(events')
             /\ e.type = "checkout" => /\ sessions'[e.session].state = "paid"
                                       /\ stripe'[e.sub].status # "none"
  <2>1. CASE e \in events
    BY <1>1, <1>2, <1>4, <2>1
  <2>2. CASE e \in new
    <3>1. e.type = "checkout" => e.sub = s
      BY <1>5, <2>2 DEF Invoiced
    <3>2. QED
      BY <1>1, <1>2, <1>5, <2>2, <3>1
  <2>3. QED
    BY <1>1, <2>1, <2>2
<1>9. EventsAreOne'
  BY <1>7, <1>8 DEF EventsAreOne
<1>10. ASSUME NEW e \in events', e \notin events
       PROVE  e.id > n /\ (Invoiced(e) => e.invoice > n)
  BY <1>1, <1>5, <1>10
<1>11. QED
  BY <1>1, <1>2, <1>9, <1>10

\* Events that were there stay, and new ones have new numbers and invoices.
EventsGrow ==
    /\ EventsAreOne' /\ events \subseteq events'
    /\ Cardinality(events) \in Nat /\ Cardinality(events') \in Nat
    /\ Cardinality(events) <= Cardinality(events')
    /\ \A e \in events' : e \in events \/ /\ e.id > Cardinality(events)
                                          /\ Invoiced(e) => e.invoice > Cardinality(events)

LEMMA NoNewEvents ==
    ASSUME BillingTypes, EventsAreOne, BegunLasts, events' = events
    PROVE  EventsGrow
<1>1. EventsAreOne'
  BY SameEventsOne DEF BillingTypes
<1>2. Cardinality(events) \in Nat /\ Cardinality(events') = Cardinality(events)
  BY EventCount DEF BillingTypes
<1>3. QED
  BY <1>1, <1>2 DEF EventsGrow

LEMMA NewEvents ==
    ASSUME BillingTypes, EventsAreOne, BegunLasts, NEW seq, NEW s,
           Len(seq) \in Nat, DOMAIN seq = 1 .. Len(seq), Emit(seq), Moment(seq, s)
    PROVE  EventsGrow
<1>1. /\ EventsAreOne' /\ events \subseteq events' /\ Cardinality(events) \in Nat
      /\ Cardinality(events') = Cardinality(events) + Len(seq)
  BY NewEventsOne
<1>2. \A e \in events' : e \in events \/ /\ e.id > Cardinality(events)
                                         /\ Invoiced(e) => e.invoice > Cardinality(events)
  BY NewEventsOne
<1>3. Cardinality(events') \in Nat /\ Cardinality(events) <= Cardinality(events')
  BY <1>1
<1>4. QED
  BY <1>1, <1>2, <1>3 DEF EventsGrow

\* Rows stay of the subscriptions they are of, and locked ones of their sessions.
RowsLast ==
    /\ Len(rows) \in Nat /\ Len(rows)' \in Nat /\ Len(rows) <= Len(rows)'
    /\ \A i \in 1 .. Len(rows) : rows'[i].sub = rows[i].sub
    /\ \A h \in Handler : \A i \in LockedBy(handling[h]) : rows'[i].session = rows[i].session

LEMMA LocksTyped ==
    ASSUME HandlingTypes, NEW h \in Handler
    PROVE  /\ handling[h] \in WebhookState
           /\ handling[h].step = "commit" =>
                /\ LockedBy(handling[h]) = handling[h].locks
                /\ handling[h].locks \subseteq 1 .. Len(rows)
                /\ handling[h].row <= Len(rows)
                /\ handling[h] \in Transaction
                /\ handling[h].event \in events
BY WebhookFields DEF HandlingTypes, LockedBy

\* A step of Stripe or of an owner.
LEMMA GrowthKeeps ==
    ASSUME PaymentsInv, BillingTypes', EventsGrow, RowsLast,
           UNCHANGED <<acked, ledger, notified, payments, handling>>,
           RowsExplained', RowsAreOne', AsksAreOpen', LocksApart'
    PROVE  PaymentsInv'
<1> DEFINE n == Cardinality(events)
<1>0. /\ \A a \in acked : a \in Nat /\ a <= n
      /\ \A v \in notified : v \in Nat /\ v <= n
      /\ n \in Nat
  <2>1. \A a \in acked : a \in Nat /\ a <= n
    BY BillingAssumption DEF PaymentsInv, AnswersAreOld, BillingTypes, TableTypes
  <2>2. \A v \in notified : v \in Nat /\ v <= n
    BY BillingAssumption DEF PaymentsInv, AnswersAreOld, BillingTypes, TableTypes
  <2>3. n \in Nat
    BY DEF EventsGrow
  <2>4. QED
    BY <2>1, <2>2, <2>3
<1>1. AnswersAreOld'
  BY <1>0 DEF AnswersAreOld, EventsGrow
<1>2. NotifiedHasRow'
  <2> SUFFICES ASSUME NEW e \in events', Invoiced(e), e.invoice \in notified
               PROVE  \E i \in 1 .. Len(rows)' : rows'[i].sub = e.sub
    BY DEF NotifiedHasRow
  <2>1. e.invoice <= n /\ e.invoice \in Nat /\ n \in Nat
    BY <1>0
  <2>2. e \in events
    BY <2>1 DEF EventsGrow
  <2>3. PICK i \in 1 .. Len(rows) : rows[i].sub = e.sub
    BY <2>2 DEF PaymentsInv, NotifiedHasRow
  <2>4. i \in 1 .. Len(rows)' /\ rows'[i].sub = rows[i].sub
    BY DEF RowsLast
  <2>5. QED
    BY <2>3, <2>4
<1>3. CommitsExplained'
  <2> SUFFICES ASSUME NEW h \in Handler, handling[h].step = "commit"
               PROVE  CommitExplained(handling[h], rows', events', acked', ledger', notified')
    BY DEF CommitsExplained
  <2>1. CommitExplained(handling[h], rows, events, acked, ledger, notified)
    BY DEF PaymentsInv, CommitsExplained
  <2>2. ASSUME NEW i \in handling[h].locks
        PROVE  rows'[i].sub = rows[i].sub /\ rows'[i].session = rows[i].session
    BY <2>2, LocksTyped DEF RowsLast, PaymentsInv, BillingTypes
  <2>3. events \subseteq events' /\ acked \subseteq acked' /\ ledger \subseteq ledger' /\ notified' = notified
    BY DEF EventsGrow
  <2>4. QED
    BY <2>1, <2>2, <2>3, CommitLasts
<1>4. PaymentsRecorded'
  <2> SUFFICES ASSUME NEW e \in events', e.type = "paid", e.id \in acked
               PROVE  \/ \E p \in payments : p.event = e.id /\ p.status = "succeeded"
                      \/ \E d \in events' : /\ d.status \in {"canceled", "unpaid"} /\ d.sub = e.sub
                                            /\ d.created >= e.created /\ d.id \in acked
    BY DEF PaymentsRecorded
  <2>1. e.id <= n /\ e.id \in Nat /\ n \in Nat
    BY <1>0
  <2>2. e \in events /\ events \subseteq events'
    BY <2>1 DEF EventsGrow
  <2>3. QED
    BY <2>2 DEF PaymentsInv, PaymentsRecorded
<1>5. (ledger \subseteq acked)'
  BY DEF PaymentsInv
<1>6. QED
  BY <1>1, <1>2, <1>3, <1>4, <1>5 DEF PaymentsInv, EventsGrow

LEMMA RowsExplainedStay ==
    ASSUME RowsExplained, events \subseteq events', acked \subseteq acked', rows' = rows
    PROVE  RowsExplained'
BY RowLasts DEF RowsExplained

\* Nothing but Stripe moves.
LEMMA StripeKeeps ==
    ASSUME PaymentsInv, BillingTypes', EventsGrow, Quietly
    PROVE  PaymentsInv'
<1>1. UNCHANGED <<acked, rows, ledger, notified, payments, handling, asking>>
  BY DEF Quietly, tableVars
<1>2. RowsLast
  BY <1>1, RowsLength DEF RowsLast, PaymentsInv, BillingTypes
<1>3. RowsExplained'
  BY <1>1, RowsExplainedStay DEF PaymentsInv, EventsGrow
<1>4. RowsAreOne' /\ AsksAreOpen' /\ LocksApart'
  BY <1>1 DEF PaymentsInv, RowsAreOne, AsksAreOpen, LocksApart
<1>5. QED
  BY <1>1, <1>2, <1>3, <1>4, GrowthKeeps

LEMMA BegunMoves ==
    ASSUME StripeTypes, NEW s \in Sub, NEW x, x.status # "none",
           stripe' = [stripe EXCEPT ![s] = x],
           \A i \in 1 .. MaxRows : sessions[i].state = "paid" => sessions'[i].state = "paid"
    PROVE  BegunLasts
BY DEF StripeTypes, BegunLasts

\* One event that is neither of a payment nor of a checkout.
LEMMA OneMoment ==
    ASSUME NEW e, WellFormed(e), ~Invoiced(e), NEW s
    PROVE  /\ Moment(<<e>>, s) /\ Len(<<e>>) \in Nat /\ DOMAIN <<e>> = 1 .. Len(<<e>>)
<1> DEFINE seq == <<e>>
<1>1. Len(seq) = 1 /\ DOMAIN seq = 1 .. 1 /\ seq[1] = e
  OBVIOUS
<1> HIDE DEF seq
<1>2. \A k \in 1 .. Len(seq) : k = 1
  BY <1>1
<1>3. e.type # "checkout"
  BY DEF Invoiced
<1>4. Moment(seq, s)
  BY <1>1, <1>2, <1>3 DEF Moment
<1>5. QED
  BY <1>1, <1>4 DEF seq

LEMMA OneGrows ==
    ASSUME BillingTypes, EventsAreOne, BegunLasts, NEW e, WellFormed(e), ~Invoiced(e), Emit(<<e>>)
    PROVE  EventsGrow
<1> DEFINE seq == <<e>>
<1>1. Moment(seq, None) /\ Len(seq) \in Nat /\ DOMAIN seq = 1 .. Len(seq)
  BY OneMoment
<1>2. Emit(seq)
  OBVIOUS
<1> HIDE DEF seq
<1>3. QED
  BY <1>1, <1>2, NewEvents

\* Events about one subscription, each of another type.
Drafted(types, s, sub) == [k \in DOMAIN types |-> About(types[k], s, sub)]

LEMMA ListMoment ==
    ASSUME BillingTypes, NEW s \in Sub, NEW sub \in StripeSub, sub.status # "none",
           sub.plan \in Plan, NEW types,
           DOMAIN types = 1 .. Len(types), Len(types) \in Nat \ {0},
           \A k \in DOMAIN types : types[k] \in EventType \ {"checkout", "expired"},
           \A k \in DOMAIN types, m \in DOMAIN types : types[k] = types[m] => k = m,
           NEW seq, seq = Drafted(types, s, sub), Emit(seq)
    PROVE  Moment(seq, s) /\ Len(seq) \in Nat /\ DOMAIN seq = 1 .. Len(seq)
<1>1. DOMAIN seq = 1 .. Len(seq) /\ Len(seq) = Len(types) /\ Len(seq) \in Nat \ {0}
  BY DEF Drafted
<1>2. Cardinality(events) + Len(types) <= MaxEvents /\ NextInvoice \in 1 .. MaxEvents
  BY <1>1, EmitNext DEF BillingTypes
<1>3. ASSUME NEW k \in 1 .. Len(seq)
      PROVE  /\ WellFormed(seq[k]) /\ seq[k].type = types[k] /\ seq[k].sub = s
             /\ seq[k].invoice = NextInvoice /\ seq[k].type # "checkout"
  <2>1. seq[k] = About(types[k], s, sub) /\ types[k] \in EventType \ {"checkout", "expired"}
    BY <1>1 DEF Drafted
  <2>2. WellFormed(About(types[k], s, sub))
    BY <1>2, <2>1, AboutFormed DEF BillingTypes
  <2>3. /\ About(types[k], s, sub).type = types[k] /\ About(types[k], s, sub).sub = s
        /\ About(types[k], s, sub).invoice = NextInvoice
    BY <1>2, <2>1, AboutFields DEF BillingTypes
  <2>4. QED
    BY <2>1, <2>2, <2>3
<1>4. Moment(seq, s)
  <2>1. \A k \in 1 .. Len(seq), m \in 1 .. Len(seq) : seq[k].type = seq[m].type => k = m
    BY <1>1, <1>3
  <2>2. QED
    BY <1>3, <2>1 DEF Moment
<1>5. QED
  BY <1>1, <1>4

LEMMA ListsApart ==
    \A t \in {<<"paid", "updated">>, <<"failed", "updated">>, <<"updated">>, <<"deleted">>} :
        \A k \in DOMAIN t, m \in DOMAIN t : t[k] = t[m] => k = m
OBVIOUS

LEMMA MovesGrow ==
    ASSUME BillingTypes, EventsAreOne, NEW s \in Sub, NEW new \in StripeSub, new.status # "none",
           new.plan \in Plan, NEW types,
           \/ types \in {<<"paid", "updated">>, <<"failed", "updated">>}
           \/ types \in {<<"updated">>, <<"deleted">>},
           Moves(s, new, types)
    PROVE  EventsGrow
<1> DEFINE at == [new EXCEPT !.at = now]
           seq == Drafted(types, s, new)
<1>1. stripe' = [stripe EXCEPT ![s] = at] /\ Emit(seq) /\ UNCHANGED <<sessions, refunded>>
  BY DEF Moves, Drafted
<1>2. at.status # "none"
  BY DEF StripeSub
<1> HIDE DEF at
<1>3. BegunLasts
  BY <1>1, <1>2, BegunMoves DEF BillingTypes
<1>4. /\ DOMAIN types = 1 .. Len(types) /\ Len(types) \in {1, 2}
      /\ \A k \in DOMAIN types : types[k] \in EventType \ {"checkout", "expired"}
      /\ \A k \in DOMAIN types, m \in DOMAIN types : types[k] = types[m] => k = m
  BY TypeLists, ListsApart
<1>5. Len(types) \in Nat \ {0}
  BY <1>4
<1>6. seq = Drafted(types, s, new)
  OBVIOUS
<1> HIDE DEF seq
<1>7. Moment(seq, s) /\ Len(seq) \in Nat /\ DOMAIN seq = 1 .. Len(seq)
  BY <1>1, <1>4, <1>5, <1>6, ListMoment
<1>8. QED
  BY <1>1, <1>3, <1>7, NewEvents

LEMMA RenewalsKeep ==
    ASSUME PaymentsInv, BillingTypes', NEW s \in Sub,
           Renew(s) \/ RenewalFails(s) \/ Collects(s) \/ GivesUp(s) \/ Deletes(s)
    PROVE  PaymentsInv'
<1>1. lost \in BOOLEAN /\ now \in 0 .. MaxTime /\ StripeTypes /\ BillingTypes /\ EventsAreOne
  BY DEF PaymentsInv, BillingTypes, ClockTypes
<1>2. ASSUME NEW new, NEW types, new \in StripeSub, new.status # "none", new.plan \in Plan,
             Moves(s, new, types),
             \/ types \in {<<"paid", "updated">>, <<"failed", "updated">>}
             \/ types \in {<<"updated">>, <<"deleted">>}
      PROVE  PaymentsInv'
  <2>1. EventsGrow
    BY <1>1, <1>2, MovesGrow
  <2>2. Quietly
    BY <1>2 DEF Moves
  <2>3. QED
    BY <2>1, <2>2, StripeKeeps
<1>3. Renewable(s) => stripe[s].end + Period \in Time /\ stripe[s].status = "active"
  <2>1. stripe[s].end \in Time
    BY <1>1, SubAt DEF StripeSub
  <2>2. QED
    BY <1>1, <2>1, BillingAssumption DEF Renewable, Time
<1>4. 0 \in Time
  BY BillingAssumption DEF Time
<1>5. CASE Renew(s)
  <2> DEFINE new == [stripe[s] EXCEPT !.end = @ + Period]
             types == <<"paid", "updated">>
  <2>1. Moves(s, new, types) /\ Renewable(s)
    BY <1>5 DEF Renew
  <2>2. new \in StripeSub /\ new.status # "none" /\ new.plan \in Plan
    BY <1>1, <1>3, <2>1, ChangedSub
  <2>3. types \in {<<"paid", "updated">>, <<"failed", "updated">>}
    OBVIOUS
  <2> HIDE DEF new, types
  <2>4. QED
    BY <1>2, <2>1, <2>2, <2>3
<1>6. CASE RenewalFails(s)
  <2> DEFINE new == [stripe[s] EXCEPT !.end = @ + Period, !.status = "past_due"]
             types == <<"failed", "updated">>
  <2>1. Moves(s, new, types) /\ Renewable(s)
    BY <1>6 DEF RenewalFails
  <2>2. new \in StripeSub /\ new.status # "none" /\ new.plan \in Plan
    BY <1>1, <1>3, <2>1, ChangedSub
  <2>3. types \in {<<"paid", "updated">>, <<"failed", "updated">>}
    OBVIOUS
  <2> HIDE DEF new, types
  <2>4. QED
    BY <1>2, <2>1, <2>2, <2>3
<1>7. CASE Collects(s)
  <2> DEFINE new == [stripe[s] EXCEPT !.status = "active"]
             types == <<"paid", "updated">>
  <2>1. Moves(s, new, types) /\ stripe[s].status # "none"
    BY <1>1, <1>7 DEF Collects
  <2>2. new \in StripeSub /\ new.status # "none" /\ new.plan \in Plan
    BY <1>1, <1>4, <2>1, ChangedSub
  <2>3. types \in {<<"paid", "updated">>, <<"failed", "updated">>}
    OBVIOUS
  <2> HIDE DEF new, types
  <2>4. QED
    BY <1>2, <2>1, <2>2, <2>3
<1>8. CASE GivesUp(s)
  <2> DEFINE new == [stripe[s] EXCEPT !.status = "unpaid"]
             types == <<"updated">>
  <2>1. Moves(s, new, types) /\ stripe[s].status # "none"
    BY <1>1, <1>8 DEF GivesUp
  <2>2. new \in StripeSub /\ new.status # "none" /\ new.plan \in Plan
    BY <1>1, <1>4, <2>1, ChangedSub
  <2>3. types \in {<<"updated">>, <<"deleted">>}
    OBVIOUS
  <2> HIDE DEF new, types
  <2>4. QED
    BY <1>2, <2>1, <2>2, <2>3
<1>9. CASE Deletes(s)
  <2> DEFINE new == [stripe[s] EXCEPT !.status = "canceled"]
             types == <<"deleted">>
  <2>1. Moves(s, new, types) /\ stripe[s].status # "none"
    BY <1>1, <1>9 DEF Deletes
  <2>2. new \in StripeSub /\ new.status # "none" /\ new.plan \in Plan
    BY <1>1, <1>4, <2>1, ChangedSub
  <2>3. types \in {<<"updated">>, <<"deleted">>}
    OBVIOUS
  <2> HIDE DEF new, types
  <2>4. QED
    BY <1>2, <2>1, <2>2, <2>3
<1>10. QED
  BY <1>5, <1>6, <1>7, <1>8, <1>9

LEMMA PayKeeps ==
    ASSUME PaymentsInv, BillingTypes', NEW s \in Sub, NEW i \in 1 .. Len(rows), Pay(i, s)
    PROVE  PaymentsInv'
<1> DEFINE seq == PaidEvents(i, s)
<1>0. BillingTypes /\ EventsAreOne /\ StripeTypes /\ i \in 1 .. MaxRows
  BY RowsLength, BillingAssumption DEF PaymentsInv, BillingTypes, TableTypes
<1>1. /\ sessions[i].state = "open" /\ stripe[s].status = "none"
      /\ stripe' = [stripe EXCEPT ![s] = PaidSub(i, s)] /\ Emit(seq)
      /\ sessions' = [sessions EXCEPT ![i].state = "paid"] /\ Quietly
  BY PaySteps
<1>2. Len(seq) = 3
  BY DEF PaidEvents
<1> HIDE DEF seq
<1>3. NextInvoice \in 1 .. MaxEvents
  BY <1>0, <1>1, <1>2, EmitNext DEF BillingTypes
<1>4. PaidSub(i, s).status # "none"
  BY <1>0, <1>3, PaidSubTyped
<1>5. /\ sessions'[i].state = "paid" /\ stripe'[s].status # "none"
      /\ \A j \in 1 .. MaxRows : sessions[j].state = "paid" => sessions'[j].state = "paid"
  BY <1>0, <1>1, <1>4 DEF StripeTypes, Session
<1>6. BegunLasts
  BY <1>0, <1>1, <1>4, <1>5, BegunMoves
<1>7. /\ DOMAIN seq = 1 .. Len(seq) /\ \A k \in 1 .. Len(seq) : WellFormed(seq[k])
      /\ seq[1].type = "checkout" /\ seq[1].session = i
      /\ seq[2].type = "updated" /\ seq[3].type = "paid"
      /\ \A k \in 1 .. Len(seq) : seq[k].sub = s /\ seq[k].invoice = NextInvoice
  BY <1>0, <1>2, <1>3, PaidEventsFormed DEF seq
<1>8. \A k \in 1 .. Len(seq) : k \in {1, 2, 3}
  BY <1>2
<1>9. Moment(seq, s)
  <2>1. \A k \in 1 .. Len(seq), m \in 1 .. Len(seq) : seq[k].type = seq[m].type => k = m
    BY <1>7, <1>8
  <2>2. \A k \in 1 .. Len(seq) : seq[k].type = "checkout" => seq[k].session = i
    BY <1>7, <1>8
  <2>3. QED
    BY <1>1, <1>5, <1>7, <2>1, <2>2 DEF Moment
<1>10. EventsGrow
  BY <1>0, <1>1, <1>2, <1>6, <1>7, <1>9, NewEvents
<1>11. QED
  BY <1>1, <1>10, StripeKeeps

LEMMA SessionExpiresKeeps ==
    ASSUME PaymentsInv, BillingTypes', NEW i \in 1 .. Len(rows), SessionExpires(i)
    PROVE  PaymentsInv'
<1>0. BillingTypes /\ EventsAreOne /\ StripeTypes
  BY DEF PaymentsInv, BillingTypes
<1>1. /\ sessions' = [sessions EXCEPT ![i].state = "expired"] /\ sessions[i].state = "open"
      /\ stripe' = stripe /\ Quietly
  BY <1>0, SessionExpiresSteps
<1>2. PICK e : WellFormed(e) /\ e.type = "expired" /\ Emit(<<e>>)
  BY <1>0, SessionExpiresSteps
<1>3. BegunLasts
  BY <1>0, <1>1 DEF BegunLasts, StripeTypes
<1>4. EventsGrow
  BY <1>0, <1>2, <1>3, OneGrows DEF Invoiced
<1>5. QED
  BY <1>1, <1>4, StripeKeeps

LEMMA RefundKeeps ==
    ASSUME PaymentsInv, BillingTypes', NEW s \in Sub, Refund(s)
    PROVE  PaymentsInv'
<1>0. BillingTypes /\ EventsAreOne
  BY DEF PaymentsInv
<1>1. stripe' = stripe /\ sessions' = sessions /\ Quietly
  BY <1>0, RefundSteps
<1>2. PICK e : WellFormed(e) /\ e.type = "refund" /\ Emit(<<e>>)
  BY <1>0, RefundSteps
<1>3. BegunLasts
  BY <1>1 DEF BegunLasts
<1>4. EventsGrow
  BY <1>0, <1>2, <1>3, OneGrows DEF Invoiced
<1>5. QED
  BY <1>1, <1>4, StripeKeeps

LEMMA StripeStays ==
    ASSUME PaymentsInv, UNCHANGED <<stripe, sessions, events>>
    PROVE  EventsGrow
BY NoNewEvents DEF PaymentsInv, BegunLasts

LEMMA TickKeeps ==
    ASSUME PaymentsInv, BillingTypes', Tick
    PROVE  PaymentsInv'
<1>1. UNCHANGED <<stripeVars, tableVars, handling, asking>>
  BY DEF Tick
<1>2. UNCHANGED <<stripe, sessions, events, acked, ledger, notified, payments, handling, rows, asking>>
  BY <1>1 DEF stripeVars, tableVars
<1>3. EventsGrow
  BY <1>2, StripeStays
<1>4. RowsLast
  BY <1>2, RowsLength DEF RowsLast, PaymentsInv, BillingTypes
<1>5. RowsExplained'
  BY <1>2, RowsExplainedStay DEF PaymentsInv
<1>6. RowsAreOne' /\ AsksAreOpen' /\ LocksApart'
  BY <1>2 DEF PaymentsInv, RowsAreOne, AsksAreOpen, LocksApart
<1>7. QED
  BY <1>2, <1>3, <1>4, <1>5, <1>6, GrowthKeeps

LEMMA StripeActs ==
    ASSUME PaymentsInv, BillingTypes', Stripe
    PROVE  PaymentsInv'
<1>1. ASSUME NEW s \in Sub, NEW i \in Ids, Pay(i, s) PROVE PaymentsInv'
  BY <1>1, PayKeeps DEF Ids
<1>2. ASSUME NEW i \in Ids, SessionExpires(i) PROVE PaymentsInv'
  BY <1>2, SessionExpiresKeeps DEF Ids
<1>3. QED
  BY <1>1, <1>2, RenewalsKeep, RefundKeeps DEF Stripe

-----------------------------------------------------------------------------
(* Billing: the owner's requests keep the invariant of the payments.       *)

LEMMA HeldIs ==
    /\ \A h \in Handler : HeldByHandler(h) = LockedBy(handling[h])
    /\ \A r \in Caller : HeldByRequest(r) = KeptBy(asking[r])
BY DEF HeldByHandler, LockedBy, HeldByRequest, KeptBy

\* A request that is neither of Checkout nor of a change holds nothing.
LEMMA LightRequest ==
    ASSUME NEW x, x.step \notin {"checkout", "change"}, NEW table
    PROVE  KeptBy(x) = {} /\ Unopened(x, table)
BY DEF KeptBy, Unopened

LEMMA NoRequestLight == NoRequest.step \notin {"checkout", "change"}
BY DEF NoRequest

LEMMA AsksApart ==
    ASSUME LocksApart, AskingTypes, NEW r \in Caller, NEW x, asking' = [asking EXCEPT ![r] = x],
           handling' = handling, \A h \in Handler : LockedBy(handling[h]) \cap KeptBy(x) = {}
    PROVE  LocksApart'
<1>1. \A q \in Caller : asking'[q] = IF q = r THEN x ELSE asking[q]
  BY DEF AskingTypes
<1>2. QED
  BY <1>1 DEF LocksApart

LEMMA AsksOpen ==
    ASSUME AskingTypes, NEW r \in Caller, NEW x, asking' = [asking EXCEPT ![r] = x],
           Unopened(x, rows'), \A q \in Caller : Unopened(asking[q], rows')
    PROVE  AsksAreOpen'
<1>1. \A q \in Caller : asking'[q] = IF q = r THEN x ELSE asking[q]
  BY DEF AskingTypes
<1>2. QED
  BY <1>1 DEF AsksAreOpen

\* A request that leaves the table alone.
LEMMA OwnerReadsKeeps ==
    ASSUME PaymentsInv, BillingTypes', EventsGrow, NEW r \in Caller, NEW x,
           asking' = [asking EXCEPT ![r] = x], Unopened(x, rows),
           \A h \in Handler : LockedBy(handling[h]) \cap KeptBy(x) = {},
           UNCHANGED <<acked, rows, ledger, notified, payments, handling>>
    PROVE  PaymentsInv'
<1>1. RowsLast
  BY RowsLength DEF RowsLast, PaymentsInv, BillingTypes
<1>2. RowsExplained'
  BY RowsExplainedStay DEF PaymentsInv, EventsGrow
<1>3. RowsAreOne'
  BY DEF PaymentsInv, RowsAreOne
<1>4. LocksApart'
  BY AsksApart DEF PaymentsInv, BillingTypes
<1>5. AsksAreOpen'
  BY AsksOpen DEF PaymentsInv, BillingTypes, AsksAreOpen
<1>6. QED
  BY <1>1, <1>2, <1>3, <1>4, <1>5, GrowthKeeps

\* A request that ends, and leaves another value in a row.
LEMMA OwnerWritesKeeps ==
    ASSUME PaymentsInv, BillingTypes', EventsGrow, NEW r \in Caller, Answered(r),
           NEW i \in 1 .. Len(rows), NEW new, rows' = [rows EXCEPT ![i] = new],
           new.sub = rows[i].sub, RowExplained(new, events, acked),
           new.session \in {rows[i].session, i},
           \A h \in Handler : i \in LockedBy(handling[h]) => new.session = rows[i].session,
           UNCHANGED <<acked, ledger, notified, payments, handling>>
    PROVE  PaymentsInv'
<1>1. /\ Len(rows) \in Nat /\ DOMAIN rows = 1 .. Len(rows) /\ Len(rows)' = Len(rows)
      /\ \A j \in 1 .. Len(rows) : rows'[j] = IF j = i THEN new ELSE rows[j]
  <2>1. rows \in [1 .. Len(rows) -> SubscriptionRow] /\ Len(rows) \in Nat
    BY RowsLength DEF PaymentsInv, BillingTypes
  <2>2. rows' \in [1 .. Len(rows') -> SubscriptionRow] /\ Len(rows') \in Nat
    BY LenProperties DEF BillingTypes, TableTypes
  <2>3. DOMAIN rows' = 1 .. Len(rows)
    BY <2>1
  <2>4. Len(rows') = Len(rows)
    BY <2>1, <2>2, <2>3
  <2>5. QED
    BY <2>1, <2>4
<1>2. RowsLast
  <2>1. \A h \in Handler : \A j \in LockedBy(handling[h]) : j \in 1 .. Len(rows)
    BY LocksTyped DEF PaymentsInv, BillingTypes, LockedBy
  <2>2. QED
    BY <1>1, <2>1 DEF RowsLast
<1>3. RowsExplained'
  <2> SUFFICES ASSUME NEW j \in 1 .. Len(rows) PROVE RowExplained(rows'[j], events', acked')
    BY <1>1 DEF RowsExplained
  <2>1. events \subseteq events' /\ acked \subseteq acked'
    BY DEF EventsGrow
  <2>2. RowExplained(rows'[j], events, acked)
    BY <1>1 DEF PaymentsInv, RowsExplained
  <2>3. QED
    BY <2>1, <2>2, RowLasts
<1>4. RowsAreOne'
  BY <1>1 DEF PaymentsInv, RowsAreOne
<1>5. LocksApart'
  BY AsksApart, LightRequest, NoRequestLight DEF PaymentsInv, BillingTypes, Answered
<1>6. ASSUME NEW q \in Caller PROVE Unopened(asking[q], rows')
  <2> SUFFICES ASSUME asking[q].step = "checkout"
               PROVE  /\ rows'[asking[q].row].session \in {0, asking[q].row}
                      /\ rows'[asking[q].row].session = 0 => rows'[asking[q].row].sub = None
    BY DEF Unopened
  <2>1. asking[q].row \in 1 .. MaxRows /\ asking[q].row <= Len(rows)
    BY RequestFields DEF PaymentsInv, BillingTypes, AskingTypes
  <2>2. asking[q].row \in 1 .. Len(rows)
    BY <1>1, <2>1
  <2>3. /\ rows[asking[q].row].session \in {0, asking[q].row}
        /\ rows[asking[q].row].session = 0 => rows[asking[q].row].sub = None
    BY DEF PaymentsInv, AsksAreOpen, Unopened
  <2>4. i # 0
    BY <1>1
  <2>5. QED
    BY <1>1, <2>2, <2>3, <2>4
<1>7. AsksAreOpen'
  BY <1>6, AsksOpen, LightRequest, NoRequestLight DEF PaymentsInv, BillingTypes, Answered
<1>8. QED
  BY <1>2, <1>3, <1>4, <1>5, <1>7, GrowthKeeps

\* A row whose state becomes a current one, or stays, is explained as before.
LEMMA RowRewritten ==
    ASSUME NEW old, NEW new, NEW evs, NEW ack, RowExplained(old, evs, ack),
           new.sub = old.sub, new.session = old.session,
           new.status \in Current \/ (new.status = old.status /\ new.seen = old.seen)
    PROVE  RowExplained(new, evs, ack)
<1>1. OpenedBy(evs, new)
  BY DEF RowExplained, OpenedBy
<1>2. QED
  BY <1>1 DEF RowExplained, Current, Ended

LEMMA StripeLeft ==
    ASSUME PaymentsInv, UNCHANGED stripeVars
    PROVE  EventsGrow /\ UNCHANGED acked
BY StripeStays DEF stripeVars

LEMMA SignInKeeps ==
    ASSUME PaymentsInv, BillingTypes', NEW r \in Caller,
           SignIn(r) \/ Leave(r) \/ BeginUsage(r) \/ FinishUsage(r)
    PROVE  PaymentsInv'
<1>1. UNCHANGED <<stripeVars, rows, ledger, notified, payments, handling>>
  BY DEF SignIn, Leave, BeginUsage, FinishUsage, tableVars
<1>2. EventsGrow /\ UNCHANGED acked
  BY <1>1, StripeLeft
<1>3. PICK x : asking' = [asking EXCEPT ![r] = x] /\ x.step \notin {"checkout", "change"}
  <2> DEFINE x1a == [step |-> "signed in", plan |-> PlanOf(rows, plan)]
             x1b == [step |-> "usage", plan |-> Synced(r)]
  <2>1. x1a.step = "signed in" /\ x1b.step = "usage"
    OBVIOUS
  <2>2. asking' \in {[asking EXCEPT ![r] = x1a], [asking EXCEPT ![r] = x1b], [asking EXCEPT ![r] = NoRequest]}
    BY DEF SignIn, Leave, BeginUsage, FinishUsage, Ask, Answered
  <2> HIDE DEF x1a, x1b
  <2>3. QED
    BY <2>1, <2>2, NoRequestLight
<1>4. Unopened(x, rows) /\ \A h \in Handler : LockedBy(handling[h]) \cap KeptBy(x) = {}
  BY <1>3, LightRequest
<1>5. QED
  BY <1>1, <1>2, <1>3, <1>4, OwnerReadsKeeps

\* A request that ends without a trace in the rows.
LEMMA AnsweredKeeps ==
    ASSUME PaymentsInv, BillingTypes', EventsGrow, NEW r \in Caller, Answered(r),
           UNCHANGED <<acked, rows, ledger, notified, payments, handling>>
    PROVE  PaymentsInv'
<1>1. Unopened(NoRequest, rows) /\ \A h \in Handler : LockedBy(handling[h]) \cap KeptBy(NoRequest) = {}
  BY LightRequest, NoRequestLight
<1>2. asking' = [asking EXCEPT ![r] = NoRequest]
  BY DEF Answered
<1>3. QED
  BY <1>1, <1>2, OwnerReadsKeeps

LEMMA FinishCancelKeeps ==
    ASSUME PaymentsInv, BillingTypes', NEW r \in Caller, NEW stored \in BOOLEAN, FinishCancel(r, stored)
    PROVE  PaymentsInv'
<1> DEFINE i == asking[r].row
           new == [rows[i] EXCEPT !.cancels = TRUE]
<1>1. /\ asking[r].step = "cancel" /\ Answered(r)
      /\ UNCHANGED <<stripeVars, ledger, notified, payments, handling>>
      /\ \/ rows' = [rows EXCEPT ![i] = new]
         \/ rows' = rows
  BY DEF FinishCancel
<1>2. EventsGrow /\ UNCHANGED acked
  BY <1>1, StripeLeft
<1>3. i \in 1 .. Len(rows)
  <2>1. i \in 1 .. MaxRows /\ i <= Len(rows)
    BY <1>1, RequestFields DEF PaymentsInv, BillingTypes, AskingTypes
  <2>2. QED
    BY <2>1, RowsLength DEF PaymentsInv, BillingTypes
<1> HIDE DEF i
<1>4. rows[i] \in SubscriptionRow /\ RowExplained(rows[i], events, acked)
  BY <1>3, RowAt DEF PaymentsInv, BillingTypes, TableTypes, RowsExplained
<1>5. /\ new.sub = rows[i].sub /\ new.session = rows[i].session
      /\ new.status = rows[i].status /\ new.seen = rows[i].seen
  BY <1>4, WrittenRows
<1> HIDE DEF new
<1>6. RowExplained(new, events, acked)
  BY <1>4, <1>5, RowRewritten
<1>7. CASE rows' = rows
  BY <1>1, <1>2, <1>7, AnsweredKeeps
<1>8. CASE rows' = [rows EXCEPT ![i] = new]
  BY <1>1, <1>2, <1>3, <1>5, <1>6, <1>8, OwnerWritesKeeps
<1>9. QED
  BY <1>1, <1>7, <1>8

LEMMA FinishChangeKeeps ==
    ASSUME PaymentsInv, BillingTypes', NEW r \in Caller, NEW stored \in BOOLEAN, FinishChange(r, stored)
    PROVE  PaymentsInv'
<1> DEFINE i == asking[r].row
           answer == asking[r].answer
           new == ChangedRow(rows[i], answer)
<1>1. /\ asking[r].step = "change" /\ Answered(r)
      /\ UNCHANGED <<stripeVars, ledger, notified, payments, handling>>
      /\ \/ rows' = [rows EXCEPT ![i].plan = answer.plan, ![i].cancels = FALSE,
                           ![i].status = answer.status, ![i].expires = answer.end]
         \/ rows' = rows
  BY DEF FinishChange
<1>2. EventsGrow /\ UNCHANGED acked
  BY <1>1, StripeLeft
<1>3. i \in 1 .. Len(rows) /\ answer \in StripeAnswer
  <2>1. i \in 1 .. MaxRows /\ i <= Len(rows) /\ answer \in StripeAnswer
    BY <1>1, RequestFields DEF PaymentsInv, BillingTypes, AskingTypes
  <2>2. QED
    BY <2>1, RowsLength DEF PaymentsInv, BillingTypes
<1> HIDE DEF i, answer
<1>4. rows[i] \in SubscriptionRow /\ RowExplained(rows[i], events, acked)
  BY <1>3, RowAt DEF PaymentsInv, BillingTypes, TableTypes, RowsExplained
<1>5. /\ new.sub = rows[i].sub /\ new.session = rows[i].session
      /\ new.status \in Current
  BY <1>3, <1>4, ChangedRowTyped
<1>6. rows' = rows \/ rows' = [rows EXCEPT ![i] = new]
  BY <1>1, <1>3, ChangeWrites DEF PaymentsInv, BillingTypes
<1> HIDE DEF new
<1>7. RowExplained(new, events, acked)
  BY <1>4, <1>5, RowRewritten
<1>8. CASE rows' = rows
  BY <1>1, <1>2, <1>8, AnsweredKeeps
<1>9. CASE rows' = [rows EXCEPT ![i] = new]
  BY <1>1, <1>2, <1>3, <1>5, <1>7, <1>9, OwnerWritesKeeps
<1>10. QED
  BY <1>6, <1>8, <1>9

LEMMA FinishCheckoutKeeps ==
    ASSUME PaymentsInv, BillingTypes', NEW r \in Caller, NEW stored \in BOOLEAN, FinishCheckout(r, stored)
    PROVE  PaymentsInv'
<1> DEFINE i == asking[r].row
           new == [rows[i] EXCEPT !.session = i]
<1>1. /\ asking[r].step = "checkout" /\ Answered(r)
      /\ UNCHANGED <<stripe, events, acked, ledger, notified, payments, handling>>
      /\ sessions' \in {CreateCheckoutSession(i), sessions}
      /\ \/ /\ rows' = [rows EXCEPT ![i] = new]
            /\ \A h \in Handler : i \notin HeldByHandler(h)
         \/ rows' = rows
  BY DEF FinishCheckout
<1>2. i \in 1 .. Len(rows)
  <2>1. i \in 1 .. MaxRows /\ i <= Len(rows)
    BY <1>1, RequestFields DEF PaymentsInv, BillingTypes, AskingTypes
  <2>2. QED
    BY <2>1, RowsLength DEF PaymentsInv, BillingTypes
<1>3. rows[i].session \in {0, i} /\ (rows[i].session = 0 => rows[i].sub = None)
  BY <1>1 DEF PaymentsInv, AsksAreOpen, Unopened
<1> HIDE DEF i
<1>4. EventsGrow
  <2>1. sessions \in [1 .. MaxRows -> Session]
    BY DEF PaymentsInv, BillingTypes, StripeTypes
  <2>2. \A j \in 1 .. MaxRows : sessions[j].state = "paid" => sessions'[j].state = "paid"
    BY <1>1, <2>1 DEF CreateCheckoutSession
  <2>3. BegunLasts
    BY <1>1, <2>2 DEF BegunLasts
  <2>4. QED
    BY <1>1, <2>3, NoNewEvents DEF PaymentsInv
<1>5. rows[i] \in SubscriptionRow /\ RowExplained(rows[i], events, acked)
  BY <1>2, RowAt DEF PaymentsInv, BillingTypes, TableTypes, RowsExplained
<1>6. /\ new.sub = rows[i].sub /\ new.session = i
      /\ new.status = rows[i].status /\ new.seen = rows[i].seen
  BY <1>5, WrittenRows
<1> HIDE DEF new
<1>7. OpenedBy(events, new)
  BY <1>3, <1>5, <1>6 DEF RowExplained, OpenedBy
<1>8. RowExplained(new, events, acked)
  BY <1>5, <1>6, <1>7 DEF RowExplained
<1>9. CASE rows' = rows
  BY <1>1, <1>4, <1>9, AnsweredKeeps
<1>10. CASE rows' = [rows EXCEPT ![i] = new] /\ \A h \in Handler : i \notin HeldByHandler(h)
  <2>1. \A h \in Handler : i \notin LockedBy(handling[h])
    BY <1>10, HeldIs
  <2>2. QED
    BY <1>1, <1>2, <1>4, <1>6, <1>8, <1>10, <2>1, OwnerWritesKeeps
<1>11. QED
  BY <1>1, <1>9, <1>10

LEMMA BeginCheckoutKeeps ==
    ASSUME PaymentsInv, BillingTypes', NEW r \in Caller, NEW p \in Plan, BeginCheckout(r, p)
    PROVE  PaymentsInv'
<1> DEFINE n == Len(rows) + 1
           x == [step |-> "checkout", row |-> n, locks |-> FALSE, plan |-> None]
<1>1. /\ rows' = Append(rows, NewRow(p)) /\ Len(rows) < MaxRows
      /\ asking' = [asking EXCEPT ![r] = x]
      /\ UNCHANGED <<stripeVars, ledger, notified, payments, handling>>
  BY DEF BeginCheckout, Ask
<1>2. EventsGrow /\ UNCHANGED acked
  BY <1>1, StripeLeft
<1>3. Len(rows) \in Nat /\ rows \in Seq(SubscriptionRow)
  BY RowsLength DEF PaymentsInv, BillingTypes, TableTypes
<1>4. NewRow(p) \in SubscriptionRow
  BY NewRowTyped
<1>5. /\ Len(rows') = n /\ \A i \in 1 .. Len(rows) : rows'[i] = rows[i]
      /\ rows'[n] = NewRow(p)
  BY <1>1, <1>3, <1>4, AppendProperties
<1>6. /\ NewRow(p).sub = None /\ NewRow(p).session = 0 /\ NewRow(p).status = "pending"
  BY DEF NewRow
<1>7. x.step = "checkout" /\ x.row = n /\ KeptBy(x) = {}
  BY DEF KeptBy
<1> HIDE DEF x
<1>8. /\ \A i \in 1 .. Len(rows)' : i \in 1 .. Len(rows) \/ i = n
      /\ Len(rows)' \in Nat /\ Len(rows) <= Len(rows)'
  BY <1>3, <1>5
<1> HIDE DEF n
<1>9. RowsLast
  <2>1. \A h \in Handler : \A i \in LockedBy(handling[h]) : i \in 1 .. Len(rows)
    BY LocksTyped DEF PaymentsInv, BillingTypes, LockedBy
  <2>2. QED
    BY <1>3, <1>5, <1>8, <2>1 DEF RowsLast
<1>10. RowsExplained'
  <2> SUFFICES ASSUME NEW i \in 1 .. Len(rows)' PROVE RowExplained(rows'[i], events', acked')
    BY DEF RowsExplained
  <2>1. events \subseteq events' /\ acked \subseteq acked'
    BY <1>2 DEF EventsGrow
  <2>2. RowExplained(rows'[i], events, acked)
    <3>1. CASE i \in 1 .. Len(rows)
      BY <1>5, <3>1 DEF PaymentsInv, RowsExplained
    <3>2. CASE i = n
      BY <1>5, <1>6, <3>2 DEF RowExplained, OpenedBy
    <3>3. QED
      BY <1>8, <3>1, <3>2
  <2>3. QED
    BY <2>1, <2>2, RowLasts
<1>11. RowsAreOne'
  <2> SUFFICES ASSUME NEW i \in 1 .. Len(rows)', NEW j \in 1 .. Len(rows)',
                      rows'[i].sub # None, rows'[i].sub = rows'[j].sub
               PROVE  i = j
    BY DEF RowsAreOne
  <2>1. i \in 1 .. Len(rows) /\ j \in 1 .. Len(rows)
    BY <1>5, <1>6, <1>8
  <2>2. QED
    BY <1>5, <2>1 DEF PaymentsInv, RowsAreOne
<1>12. LocksApart'
  BY <1>1, <1>7, AsksApart DEF PaymentsInv, BillingTypes
<1>13. Unopened(x, rows')
  BY <1>5, <1>6, <1>7 DEF Unopened
<1>14. ASSUME NEW q \in Caller PROVE Unopened(asking[q], rows')
  <2> SUFFICES ASSUME asking[q].step = "checkout" PROVE Unopened(asking[q], rows')
    BY DEF Unopened
  <2>1. asking[q].row \in 1 .. MaxRows /\ asking[q].row <= Len(rows)
    BY RequestFields DEF PaymentsInv, BillingTypes, AskingTypes
  <2>2. asking[q].row \in 1 .. Len(rows)
    BY <1>3, <2>1
  <2>3. QED
    BY <1>5, <2>2 DEF PaymentsInv, AsksAreOpen, Unopened
<1>15. AsksAreOpen'
  BY <1>1, <1>13, <1>14, AsksOpen DEF PaymentsInv, BillingTypes
<1>16. QED
  BY <1>1, <1>2, <1>9, <1>10, <1>11, <1>12, <1>15, GrowthKeeps

\* A request that takes a row no other transaction holds.
LEMMA TakesFree ==
    ASSUME NEW i, ~LockedRow(i), NEW x, x.row = i
    PROVE  \A h \in Handler : LockedBy(handling[h]) \cap KeptBy(x) = {}
BY HeldIs DEF LockedRow, KeptBy

LEMMA RepeatCheckoutKeeps ==
    ASSUME PaymentsInv, BillingTypes', NEW r \in Caller, NEW p, NEW i \in Ids, RepeatCheckout(r, p, i)
    PROVE  PaymentsInv'
<1> DEFINE x == [step |-> "checkout", row |-> i, locks |-> TRUE, plan |-> Synced(r)]
<1>1. /\ rows[i].status = "pending" /\ rows[i].session = 0 /\ ~LockedRow(i)
      /\ asking' = [asking EXCEPT ![r] = x]
      /\ UNCHANGED <<stripeVars, tableVars, handling>>
  BY DEF RepeatCheckout, Ask, PendingRows
<1>2. EventsGrow /\ UNCHANGED acked /\ UNCHANGED <<rows, ledger, notified, payments>>
  BY <1>1, StripeLeft DEF tableVars
<1>3. rows[i].sub = None
  BY <1>1 DEF PaymentsInv, RowsExplained, RowExplained, Ids
<1>4. x.row = i
  OBVIOUS
<1> HIDE DEF x
<1>5. Unopened(x, rows)
  BY <1>1, <1>3, <1>4 DEF Unopened
<1>6. \A h \in Handler : LockedBy(handling[h]) \cap KeptBy(x) = {}
  BY <1>1, <1>4, TakesFree
<1>7. QED
  BY <1>1, <1>2, <1>5, <1>6, OwnerReadsKeeps

LEMMA RowSub ==
    ASSUME TableTypes, NEW i \in Ids, rows[i].sub # None
    PROVE  rows[i].sub \in Sub
<1>1. rows[i] \in SubscriptionRow
  BY RowAt DEF TableTypes, Ids
<1>2. QED
  BY <1>1 DEF SubscriptionRow

LEMMA ChangeGrows ==
    ASSUME PaymentsInv, NEW s \in Sub, NEW p \in Plan, stripe[s].status \in Current,
           ChangeEmits(s, p), stripe' = [stripe EXCEPT ![s] = ModifySubscription(s, p)],
           sessions' = sessions
    PROVE  EventsGrow
<1>0. BillingTypes /\ StripeTypes /\ EventsAreOne /\ ClockTypes
  BY DEF PaymentsInv, BillingTypes
<1>1. PICK a, b : /\ WellFormed(a) /\ a.type = "paid" /\ a.sub = s /\ a.invoice = NextInvoice
                  /\ WellFormed(b) /\ b.type = "updated"
                  /\ Emit(<<a, b>>)
  BY <1>0, ChangePair
<1>2. ModifySubscription(s, p).status # "none"
  BY <1>0, ModifiedSub DEF Current
<1>3. BegunLasts
  BY <1>0, <1>2, BegunMoves
<1> DEFINE seq == <<a, b>>
<1>4. Len(seq) = 2 /\ DOMAIN seq = 1 .. 2 /\ seq[1] = a /\ seq[2] = b /\ Emit(seq)
  BY <1>1
<1> HIDE DEF seq
<1>5. \A k \in 1 .. Len(seq) : k = 1 \/ k = 2
  BY <1>4
<1>6. Moment(seq, s)
  <2>1. \A k \in 1 .. Len(seq) : WellFormed(seq[k]) /\ seq[k].type # "checkout"
    BY <1>1, <1>4, <1>5
  <2>2. \A k \in 1 .. Len(seq) : Invoiced(seq[k]) => k = 1
    BY <1>1, <1>4, <1>5 DEF Invoiced
  <2>3. \A k \in 1 .. Len(seq), m \in 1 .. Len(seq) :
            Invoiced(seq[k]) /\ seq[k].type = seq[m].type => k = m
    <3>1. ASSUME NEW k \in 1 .. Len(seq), NEW m \in 1 .. Len(seq), Invoiced(seq[k]), seq[k].type = seq[m].type
          PROVE  k = m
      <4>1. Invoiced(seq[m])
        BY <3>1 DEF Invoiced
      <4>2. QED
        BY <2>2, <3>1, <4>1
    <3>2. QED
      BY <3>1
  <2>4. \A k \in 1 .. Len(seq) : Invoiced(seq[k]) => seq[k].sub = s /\ seq[k].invoice = NextInvoice
    BY <1>1, <1>4, <2>2
  <2>5. QED
    BY <2>1, <2>3, <2>4 DEF Moment
<1>7. QED
  BY <1>0, <1>3, <1>4, <1>6, NewEvents

LEMMA BeginChangeKeeps ==
    ASSUME PaymentsInv, BillingTypes', NEW r \in Caller, NEW p \in Plan, NEW i \in Ids, BeginChange(r, p, i)
    PROVE  PaymentsInv'
<1> DEFINE s == rows[i].sub
           new == ModifySubscription(s, p)
           given == [plan |-> p, status |-> new.status, end |-> new.end]
           Taken(answer) == [step |-> "change", row |-> i, locks |-> TRUE,
                             plan |-> ChangedIn(r, p), answer |-> answer]
<1>1. /\ s # None /\ ~LockedRow(i) /\ UNCHANGED <<sessions, acked, tableVars, handling>>
      /\ \/ /\ asking' = [asking EXCEPT ![r] = Taken(CHOOSE a \in Remembered(s, p) : TRUE)]
            /\ UNCHANGED <<stripe, events>>
         \/ /\ stripe[s].status \in Current
            /\ stripe' = [stripe EXCEPT ![s] = new]
            /\ ChangeEmits(s, p)
            /\ asking' = [asking EXCEPT ![r] = Taken(given)]
  BY DEF BeginChange, Ask, ChangeEmits
<1>2. s \in Sub
  BY <1>1, RowSub DEF PaymentsInv, BillingTypes
<1>3. PICK x : asking' = [asking EXCEPT ![r] = x] /\ x.row = i /\ x.step = "change"
  <2>1. \A answer : Taken(answer).row = i /\ Taken(answer).step = "change"
    OBVIOUS
  <2> HIDE DEF Taken, given, new, s
  <2>2. QED
    BY <1>1, <2>1
<1>4. EventsGrow
  <2>1. CASE UNCHANGED <<stripe, events>>
    BY <1>1, <2>1, StripeStays
  <2>2. CASE /\ stripe[s].status \in Current
             /\ stripe' = [stripe EXCEPT ![s] = new]
             /\ ChangeEmits(s, p)
    <3> HIDE DEF s
    <3> QED BY <1>1, <1>2, <2>2, ChangeGrows
  <2> HIDE DEF s, new, Taken, given
  <2>3. QED
    BY <1>1, <2>1, <2>2
<1>5. Unopened(x, rows)
  BY <1>3 DEF Unopened
<1>6. \A h \in Handler : LockedBy(handling[h]) \cap KeptBy(x) = {}
  BY <1>1, <1>3, TakesFree
<1>7. UNCHANGED <<acked, rows, ledger, notified, payments, handling>>
  BY <1>1 DEF tableVars
<1>8. QED
  BY <1>3, <1>4, <1>5, <1>6, <1>7, OwnerReadsKeeps

LEMMA BeginCancelKeeps ==
    ASSUME PaymentsInv, BillingTypes', NEW r \in Caller, NEW i \in Ids, BeginCancel(r, i)
    PROVE  PaymentsInv'
<1> DEFINE s == rows[i].sub
           new == CancelSubscription(s)
           e == About("updated", s, new)
           x == [step |-> "cancel", row |-> i, marks |-> ~rows[i].cancels, plan |-> Synced(r)]
<1>1. /\ s # None /\ stripe[s].status \in Current
      /\ UNCHANGED <<sessions, acked, tableVars, handling>>
      /\ asking' = [asking EXCEPT ![r] = x]
      /\ \/ UNCHANGED <<stripe, events>>
         \/ stripe' = [stripe EXCEPT ![s] = new] /\ Emit(<<e>>)
  BY DEF BeginCancel, Ask
<1>2. s \in Sub /\ BillingTypes /\ StripeTypes /\ ClockTypes /\ EventsAreOne
  BY <1>1, RowSub DEF PaymentsInv, BillingTypes
<1>3. x.step = "cancel"
  OBVIOUS
<1> HIDE DEF x, s
<1>4. EventsGrow
  <2>1. CASE UNCHANGED <<stripe, events>>
    BY <1>1, <2>1, StripeStays
  <2>2. CASE stripe' = [stripe EXCEPT ![s] = new] /\ Emit(<<e>>)
    <3>1. new.status # "none"
      BY <1>1, <1>2, CancelledSub DEF Current
    <3>2. PICK d : WellFormed(d) /\ d.type = "updated" /\ Emit(<<d>>)
      BY <1>1, <1>2, <2>2, CancelEvent
    <3> HIDE DEF new
    <3>3. BegunLasts
      BY <1>1, <1>2, <2>2, <3>1, BegunMoves
    <3>4. QED
      BY <1>2, <3>2, <3>3, OneGrows DEF Invoiced
  <2>3. QED
    BY <1>1, <2>1, <2>2
<1>5. Unopened(x, rows) /\ \A h \in Handler : LockedBy(handling[h]) \cap KeptBy(x) = {}
  BY <1>3, LightRequest
<1>6. UNCHANGED <<acked, rows, ledger, notified, payments, handling>>
  BY <1>1 DEF tableVars
<1>7. QED
  BY <1>1, <1>4, <1>5, <1>6, OwnerReadsKeeps

LEMMA OwnerKeeps ==
    ASSUME PaymentsInv, BillingTypes', Owner
    PROVE  PaymentsInv'
<1>1. PICK r \in Caller : \/ SignIn(r) \/ OwnerActs(r) \/ FinishUsage(r)
                          \/ \E b \in BOOLEAN : FinishCheckout(r, b) \/ FinishChange(r, b) \/ FinishCancel(r, b)
  BY DEF Owner
<1>2. CASE OwnerActs(r)
  <2>1. ASSUME NEW p \in Plan, BeginCheckout(r, p) PROVE PaymentsInv'
    BY <2>1, BeginCheckoutKeeps
  <2>2. ASSUME NEW p \in Plan, NEW i \in Ids, RepeatCheckout(r, p, i) \/ BeginChange(r, p, i)
        PROVE  PaymentsInv'
    BY <2>2, RepeatCheckoutKeeps, BeginChangeKeeps
  <2>3. ASSUME NEW i \in Ids, BeginCancel(r, i) PROVE PaymentsInv'
    BY <2>3, BeginCancelKeeps
  <2>4. QED
    BY <1>2, <2>1, <2>2, <2>3, SignInKeeps DEF OwnerActs
<1>3. QED
  BY <1>1, <1>2, SignInKeeps, FinishCheckoutKeeps, FinishChangeKeeps, FinishCancelKeeps

-----------------------------------------------------------------------------
(* Billing: the webhooks keep the invariant of the payments.               *)

\* An expired session closes a pending row only; a refund writes no row.
LEMMA QuietEffects ==
    ASSUME NEW e, NEW i, Effect(e, i).put # None
    PROVE  e.type # "refund" /\ (e.type = "expired" => i # 0 /\ rows[i].status = "pending")
<1>1. NoEffect.put = None
  BY DEF NoEffect
<1>2. e.type = "refund" => RecordRefund(e, i).put = None
  BY DEF RecordRefund, NoEffect
<1>3. ~(i # 0 /\ rows[i].status = "pending") => ExpireCheckout(e, i) = NoEffect
  BY DEF ExpireCheckout
<1>4. e.type = "refund" => Effect(e, i) = RecordRefund(e, i)
  BY DEF Effect
<1>5. e.type = "expired" => Effect(e, i) = ExpireCheckout(e, i)
  BY DEF Effect
<1>6. QED
  BY <1>1, <1>2, <1>3, <1>4, <1>5

\* The row of an event, and what the invariant says of it.
LEMMA RowRead ==
    ASSUME PaymentsInv, NEW e \in events, NEW i, i = Found(e), i # 0
    PROVE  /\ i \in 1 .. Len(rows) /\ RowExplained(rows[i], events, acked)
           /\ \/ e.sub # None /\ rows[i].sub = e.sub
              \/ e.session # 0 /\ rows[i].session = e.session
           /\ e.type \notin {"checkout", "expired"} => e.sub # None /\ rows[i].sub = e.sub
           /\ e.type = "checkout" => /\ rows[i].sub \in {None, e.sub}
                                     /\ rows[i].session \in {0, e.session}
           /\ rows[i].session # 0 \/ rows[i].sub # None
<1>1. WellFormed(e) /\ TableTypes /\ Len(rows) \in Nat
  BY RowsLength DEF PaymentsInv, BillingTypes, EventTypes
<1>2. /\ i \in 0 .. Len(rows)
      /\ \/ e.sub # None /\ rows[i].sub = e.sub
         \/ e.session # 0 /\ rows[i].session = e.session
  BY <1>1, FoundRow
<1>3. i \in 1 .. Len(rows)
  BY <1>1, <1>2
<1>4. RowExplained(rows[i], events, acked)
  BY <1>3 DEF PaymentsInv, RowsExplained
<1>5. e.type \notin {"checkout", "expired"} => e.session = 0
  BY <1>1 DEF WellFormed
<1>6. e.type = "checkout" => rows[i].sub \in {None, e.sub} /\ rows[i].session \in {0, e.session}
  <2> SUFFICES ASSUME e.type = "checkout", rows[i].sub # None, rows[i].session # 0
               PROVE  rows[i].sub = e.sub /\ rows[i].session = e.session
    BY <1>2
  <2>1. PICK d \in events : d.type = "checkout" /\ d.session = rows[i].session /\ d.sub = rows[i].sub
    BY <1>4 DEF RowExplained, OpenedBy
  <2>2. d = e
    BY <1>2, <2>1 DEF PaymentsInv, EventsAreOne
  <2>3. QED
    BY <2>1, <2>2
<1>7. QED
  BY <1>2, <1>3, <1>4, <1>5, <1>6

LEMMA PutRead ==
    ASSUME PaymentsInv, NEW e \in events
    PROVE  PutExplained(Read(e), rows, events)
<1> DEFINE i == Found(e)
           f == Effect(e, i)
           put == f.put
<1>1. /\ Read(e).event = e /\ Read(e).row = i /\ Read(e).effect = f /\ Read(e).locks = LockSet(e, i)
      /\ Proper(f, e, i) /\ i \in 0 .. Len(rows) /\ TableTypes
  BY ReadTyped DEF PaymentsInv, BillingTypes
<1> SUFFICES ASSUME put # None
             PROVE  /\ OpenedBy(events, put)
                    /\ put.status # "pending"
                    /\ put.sub = e.sub \/ (e.type = "expired" /\ put.sub = None)
                    /\ put.status \in Ended =>
                         put.sub = None \/ (put.seen = e.created /\ e.status \in Ended)
                    /\ i # 0 =>
                         /\ i \in LockSet(e, i)
                         /\ rows[i].sub \in {None, put.sub}
                         /\ rows[i].session \in {0, put.session}
                         /\ rows[i].session # 0 \/ rows[i].sub # None
  BY <1>1 DEF PutExplained
<1>2. Succeeds(put, e, i)
  BY <1>1 DEF Proper
<1>3. e.type # "refund" /\ (e.type = "expired" => i # 0 /\ rows[i].status = "pending")
  BY QuietEffects
<1> HIDE DEF put, f
<1>4. i # 0 => /\ i \in 1 .. Len(rows) /\ RowExplained(rows[i], events, acked)
               /\ e.type \notin {"checkout", "expired"} => e.sub # None /\ rows[i].sub = e.sub
               /\ e.type = "checkout" => /\ rows[i].sub \in {None, e.sub}
                                         /\ rows[i].session \in {0, e.session}
               /\ rows[i].session # 0 \/ rows[i].sub # None
  BY RowRead
<1>5. e.type = "expired" => i # 0 /\ rows[i].sub = None
  BY <1>3, <1>4 DEF RowExplained
<1> HIDE DEF i
<1>6. OpenedBy(events, put)
  <2>1. CASE e.type = "checkout"
    <3>1. put.sub = e.sub /\ put.session = e.session
      BY <1>2, <2>1 DEF Succeeds
    <3>2. QED
      BY <2>1, <3>1 DEF OpenedBy
  <2>2. CASE e.type # "checkout" /\ i # 0
    <3>1. put.sub = rows[i].sub /\ put.session = rows[i].session
      BY <1>2, <2>2 DEF Succeeds
    <3>2. QED
      BY <1>4, <2>2, <3>1 DEF RowExplained, OpenedBy
  <2>3. CASE e.type # "checkout" /\ i = 0
    BY <1>2, <2>3 DEF Succeeds, OpenedBy
  <2>4. QED
    BY <2>1, <2>2, <2>3
<1>7. put.sub = e.sub \/ (e.type = "expired" /\ put.sub = None)
  BY <1>2, <1>4, <1>5 DEF Succeeds
<1>8. put.status \in Ended => put.sub = None \/ (put.seen = e.created /\ e.status \in Ended)
  BY <1>2, <1>5 DEF Succeeds
<1>9. ASSUME i # 0
      PROVE  /\ i \in LockSet(e, i)
             /\ rows[i].sub \in {None, put.sub}
             /\ rows[i].session \in {0, put.session}
             /\ rows[i].session # 0 \/ rows[i].sub # None
  <2>1. i \in LockSet(e, i)
    BY <1>1, <1>3, <1>9, LockSetTyped
  <2>2. rows[i].sub \in {None, put.sub} /\ rows[i].session \in {0, put.session}
    BY <1>2, <1>4, <1>9 DEF Succeeds
  <2>3. QED
    BY <1>4, <1>9, <2>1, <2>2
<1>10. put.status # "pending"
  BY <1>2 DEF Succeeds
<1>11. QED
  BY <1>6, <1>7, <1>8, <1>9, <1>10

LEMMA EarlierEnd ==
    ASSUME EventTypes, NEW ack, NEW sub, NEW a \in Nat, NEW b \in Nat, b <= a,
           EndSeen(events, ack, sub, a)
    PROVE  EndSeen(events, ack, sub, b)
<1>1. PICK d \in events : d.status \in Ended /\ d.sub = sub /\ d.created >= a /\ d.id \in ack
  BY DEF EndSeen
<1>2. d.created \in Nat
  BY NumberOf, BillingAssumption
<1>3. d.created >= b
  BY <1>1, <1>2
<1>4. QED
  BY <1>1, <1>3 DEF EndSeen

LEMMA PaidRead ==
    ASSUME PaymentsInv, NEW e \in events
    PROVE  PaidExplained(Read(e), rows, events, acked, ledger, notified) /\ KeyExplained(Read(e))
<1> DEFINE i == Found(e)
           f == Effect(e, i)
           key == NotificationKey(e, f)
<1>1. /\ Read(e).event = e /\ Read(e).row = i /\ Read(e).effect = f /\ Read(e).locks = LockSet(e, i)
      /\ Read(e).key = key
      /\ Proper(f, e, i) /\ i \in 0 .. Len(rows) /\ TableTypes /\ WellFormed(e)
  BY ReadTyped DEF PaymentsInv, BillingTypes
<1>2. key # 0 => key = e.invoice /\ e.invoice \notin notified /\ f.done /\ e.type \in {"checkout", "paid"}
  BY DEF NotificationKey
<1> HIDE DEF key
<1>3. KeyExplained(Read(e))
  BY <1>1, <1>2 DEF KeyExplained, Invoiced, Proper
<1>4. PaidExplained(Read(e), rows, events, acked, ledger, notified)
  <2> SUFFICES ASSUME e.type = "paid"
               PROVE  /\ f.pay = "succeeded" \/ f.rejected \/ EndSeen(events, acked, e.sub, e.created)
                      /\ i = 0 => f.put # None
                      /\ i # 0 => /\ i \in LockSet(e, i)
                                  /\ rows[i].sub = e.sub
                                  /\ key # 0 /\ e.id \notin ledger => key \notin notified
    BY <1>1 DEF PaidExplained
  <2>1. f = UpdateInvoice(e, i)
    BY DEF Effect
  <2>2. /\ \/ f.pay = "succeeded"
           \/ f.rejected
           \/ i # 0 /\ Stale(rows[i], e) /\ rows[i].status \in Ended
        /\ i = 0 => f.put # None
    BY <1>1, <2>1, InvoiceProper
  <2> HIDE DEF f
  <2>3. i # 0 => /\ i \in 1 .. Len(rows) /\ RowExplained(rows[i], events, acked)
                 /\ e.sub # None /\ rows[i].sub = e.sub
    BY RowRead
  <2> HIDE DEF i
  <2>4. i # 0 => i \in LockSet(e, i)
    BY <1>1, LockSetTyped
  <2>5. ASSUME i # 0, Stale(rows[i], e), rows[i].status \in Ended
        PROVE  EndSeen(events, acked, e.sub, e.created)
    <3>1. EndSeen(events, acked, e.sub, rows[i].seen)
      BY <2>3, <2>5 DEF RowExplained
    <3>2. e.created <= rows[i].seen
      BY <2>5 DEF Stale
    <3>3. rows[i] \in SubscriptionRow /\ e \in Event
      BY <1>1, <2>3, <2>5, RowAt DEF TableTypes, WellFormed
    <3>4. rows[i].seen \in Nat /\ e.created \in Nat
      BY <3>3, BillingAssumption DEF SubscriptionRow, Event
    <3>5. QED
      BY <3>1, <3>2, <3>4, EarlierEnd DEF PaymentsInv, BillingTypes
  <2>6. QED
    BY <1>2, <2>2, <2>3, <2>4, <2>5
<1>5. QED
  BY <1>3, <1>4

LEMMA ReadExplained ==
    ASSUME PaymentsInv, NEW e \in events
    PROVE  CommitExplained(Read(e), rows, events, acked, ledger, notified)
BY PutRead, PaidRead DEF CommitExplained

\* A webhook that changes neither tables nor answers.
LEMMA WebhookMovesOn ==
    ASSUME PaymentsInv, BillingTypes', NEW h \in Handler, NEW w,
           handling' = [handling EXCEPT ![h] = w],
           UNCHANGED <<stripe, sessions, events, acked, rows, ledger, notified, payments, asking>>,
           \A g \in Handler \ {h} : LockedBy(w) \cap LockedBy(handling[g]) = {},
           \A r \in Caller : LockedBy(w) \cap KeptBy(asking[r]) = {},
           w.step = "commit" => CommitExplained(w, rows, events, acked, ledger, notified)
    PROVE  PaymentsInv'
<1>1. \A g \in Handler : handling'[g] = IF g = h THEN w ELSE handling[g]
  BY DEF PaymentsInv, BillingTypes, HandlingTypes
<1>2. LocksApart'
  BY <1>1 DEF PaymentsInv, LocksApart
<1>3. CommitsExplained'
  BY <1>1 DEF PaymentsInv, CommitsExplained
<1>4. EventsAreOne'
  BY DEF PaymentsInv, EventsAreOne
<1>5. AnswersAreOld' /\ RowsExplained' /\ RowsAreOne' /\ NotifiedHasRow'
  BY DEF PaymentsInv, AnswersAreOld, RowsExplained, RowsAreOne, NotifiedHasRow
<1>6. AsksAreOpen' /\ PaymentsRecorded' /\ (ledger \subseteq acked)'
  BY DEF PaymentsInv, AsksAreOpen, PaymentsRecorded
<1>7. QED
  BY <1>2, <1>3, <1>4, <1>5, <1>6 DEF PaymentsInv

LEMMA LetsGo ==
    ASSUME NEW w, w.step # "commit"
    PROVE  LockedBy(w) = {}
BY DEF LockedBy

LEMMA ReceiveKeeps ==
    ASSUME PaymentsInv, BillingTypes', NEW h \in Handler, NEW e \in events, Receive(h, e)
    PROVE  PaymentsInv'
<1> DEFINE w == [step |-> "received", event |-> e]
<1>1. /\ handling' = [handling EXCEPT ![h] = w]
      /\ UNCHANGED <<stripe, sessions, events, acked, rows, ledger, notified, payments, asking>>
  BY DEF Receive, stripeVars, tableVars
<1>2. w.step # "commit"
  OBVIOUS
<1> HIDE DEF w
<1>3. QED
  BY <1>1, <1>2, LetsGo, WebhookMovesOn

LEMMA NoEventLight == NoEvent.step # "commit"
BY DEF NoEvent

LEMMA FailKeeps ==
    ASSUME PaymentsInv, BillingTypes', NEW h \in Handler, Fail(h)
    PROVE  PaymentsInv'
<1>1. /\ handling' = [handling EXCEPT ![h] = NoEvent]
      /\ UNCHANGED <<stripe, sessions, events, acked, rows, ledger, notified, payments, asking>>
  BY DEF Fail, stripeVars, tableVars
<1>2. QED
  BY <1>1, NoEventLight, LetsGo, WebhookMovesOn

LEMMA BeginKeeps ==
    ASSUME PaymentsInv, BillingTypes', NEW h \in Handler, Begin(h)
    PROVE  PaymentsInv'
<1> DEFINE e == handling[h].event
           w == Read(e)
<1>1. /\ handling[h].step = "received"
      /\ \A j \in LockSet(e, Found(e)) : ~LockedRow(j)
      /\ handling' = [handling EXCEPT ![h] = w]
      /\ UNCHANGED <<stripe, sessions, events, acked, rows, ledger, notified, payments, asking>>
  BY DEF Begin, Read, stripeVars, tableVars
<1>2. e \in events
  BY <1>1, Handling DEF PaymentsInv, BillingTypes
<1> HIDE DEF e
<1>3. w.step = "commit" /\ LockedBy(w) = LockSet(e, Found(e))
  BY <1>2, ReadTyped DEF PaymentsInv, LockedBy
<1>4. CommitExplained(w, rows, events, acked, ledger, notified)
  BY <1>2, ReadExplained
<1> HIDE DEF w
<1>5. \A g \in Handler : LockedBy(w) \cap LockedBy(handling[g]) = {}
  BY <1>1, <1>3, HeldIs DEF LockedRow
<1>6. \A r \in Caller : LockedBy(w) \cap KeptBy(asking[r]) = {}
  BY <1>1, <1>3, HeldIs DEF LockedRow
<1>7. QED
  BY <1>1, <1>4, <1>5, <1>6, WebhookMovesOn

LEMMA Committing ==
    ASSUME PaymentsInv, NEW h \in Handler, handling[h].step = "commit", NEW w, w = handling[h]
    PROVE  /\ w \in Transaction /\ w.event \in events /\ WellFormed(w.event)
           /\ LockedBy(w) = w.locks /\ w.locks \subseteq 1 .. Len(rows) /\ w.row <= Len(rows)
           /\ w.row \in Nat
           /\ CommitExplained(w, rows, events, acked, ledger, notified)
<1>1. HandlingTypes /\ EventTypes
  BY DEF PaymentsInv, BillingTypes
<1>2. /\ w \in Transaction /\ w.event \in events
      /\ LockedBy(w) = w.locks /\ w.locks \subseteq 1 .. Len(rows) /\ w.row <= Len(rows)
  BY <1>1, LocksTyped
<1>3. w.row \in 0 .. MaxRows
  BY <1>2, TransactionFields
<1>4. w.row \in Nat
  BY <1>3, BillingAssumption
<1>5. WellFormed(w.event)
  BY <1>1, <1>2 DEF EventTypes
<1>6. CommitExplained(w, rows, events, acked, ledger, notified)
  BY DEF PaymentsInv, CommitsExplained
<1>7. QED
  BY <1>2, <1>4, <1>5, <1>6

\* What a payment, once answered, has left.
Settled(e, evs, ack, paid) ==
    \/ \E p \in paid : p.event = e.id /\ p.status = "succeeded"
    \/ EndSeen(evs, ack, e.sub, e.created)

LEMMA SettledMeans ==
    PaymentsRecorded <=> \A e \in events : e.type = "paid" /\ e.id \in acked =>
                                              Settled(e, events, acked, payments)
BY DEF PaymentsRecorded, Settled, EndSeen, Ended

\* One more answer: the events answered before stay settled.
LEMMA OneMoreAnswer ==
    ASSUME PaymentsInv, NEW e \in events, events' = events, acked' = acked \cup {e.id},
           payments \subseteq payments',
           e.type = "paid" => Settled(e, events, acked', payments')
    PROVE  PaymentsRecorded'
<1>1. ASSUME NEW d \in events, d.type = "paid", d.id \in acked'
      PROVE  Settled(d, events, acked', payments')
  <2>1. CASE d.id \in acked
    <3>1. Settled(d, events, acked, payments)
      BY <1>1, <2>1, SettledMeans DEF PaymentsInv
    <3>2. QED
      BY <3>1, EndSeenLasts DEF Settled
  <2>2. CASE d.id = e.id
    <3>1. d = e
      BY <2>2 DEF PaymentsInv, EventsAreOne
    <3>2. QED
      BY <1>1, <3>1
  <2>3. QED
    BY <1>1, <2>1, <2>2
<1>2. QED
  BY <1>1 DEF PaymentsRecorded, Settled, EndSeen, Ended

LEMMA AnswerIsOld ==
    ASSUME PaymentsInv, NEW e \in events, events' = events, acked' = acked \cup {e.id},
           \A v \in notified' : v <= Cardinality(events)
    PROVE  AnswersAreOld'
BY DEF PaymentsInv, AnswersAreOld, EventsAreOne

\* A webhook whose event or message is known was answered before, or its
\* message says that the payment's row is there, which it looked for.
LEMMA KnownIsSettled ==
    ASSUME PaymentsInv, NEW h \in Handler, NEW w, w = handling[h], w.step = "commit",
           Known(w), w.event.type = "paid", ~w.effect.rejected,
           ~(w.effect.put # None /\ Refused(w.row, w.effect.put))
    PROVE  w.event.id \in acked
<1> DEFINE e == w.event
<1>1. /\ e \in events /\ WellFormed(e) /\ w.row \in Nat
      /\ PutExplained(w, rows, events)
      /\ PaidExplained(w, rows, events, acked, ledger, notified) /\ KeyExplained(w)
  BY Committing DEF CommitExplained
<1>2. SUFFICES ASSUME e.id \notin ledger, w.key \in notified PROVE FALSE
  BY DEF Known, PaymentsInv
<1>3. w.key # 0
  BY <1>2, BillingAssumption DEF PaymentsInv, BillingTypes, TableTypes
<1>4. w.row = 0
  BY <1>1, <1>2, <1>3 DEF PaidExplained
<1>5. w.effect.put # None /\ w.effect.put.sub = e.sub /\ e.sub # None
  <2>1. w.effect.put # None
    BY <1>1, <1>4 DEF PaidExplained
  <2>2. e.sub \in Sub /\ e.sub # None
    BY <1>1, BillingAssumption DEF WellFormed
  <2>3. QED
    BY <1>1, <2>1, <2>2 DEF PutExplained
<1>6. PICK i \in 1 .. Len(rows) : rows[i].sub = e.sub
  BY <1>1, <1>2, <1>3 DEF PaymentsInv, NotifiedHasRow, KeyExplained
<1>7. i \in Ids \ {0}
  BY RowsLength DEF Ids, PaymentsInv, BillingTypes
<1>8. QED
  BY <1>4, <1>5, <1>6, <1>7 DEF Refused

LEMMA SkipKeeps ==
    ASSUME PaymentsInv, BillingTypes', NEW h \in Handler, NEW w, w = handling[h], w.step = "commit",
           Known(w), ~w.effect.rejected,
           w.effect.put # None /\ Refused(w.row, w.effect.put) => w.event.type = "checkout",
           Skip(h)
    PROVE  PaymentsInv'
<1> DEFINE e == w.event
<1>1. /\ acked' = acked \cup {e.id} /\ handling' = [handling EXCEPT ![h] = NoEvent]
      /\ UNCHANGED <<stripe, sessions, events, rows, ledger, notified, payments, asking>>
  BY DEF Skip, tableVars
<1>2. e \in events
  BY Committing
<1>3. e.type = "paid" => e.id \in acked
  BY KnownIsSettled
<1>4. e.type = "paid" => Settled(e, events, acked', payments')
  <2>1. e.type = "paid" => Settled(e, events, acked, payments)
    BY <1>2, <1>3, SettledMeans DEF PaymentsInv
  <2>2. QED
    BY <1>1, <2>1, EndSeenLasts DEF Settled
<1> HIDE DEF e
<1>5. PaymentsRecorded'
  BY <1>1, <1>2, <1>4, OneMoreAnswer
<1>6. AnswersAreOld'
  BY <1>1, <1>2, AnswerIsOld DEF PaymentsInv, AnswersAreOld
<1>7. \A g \in Handler : handling'[g] = IF g = h THEN NoEvent ELSE handling[g]
  BY <1>1 DEF PaymentsInv, BillingTypes, HandlingTypes
<1>8. LocksApart'
  BY <1>1, <1>7, NoEventLight, LetsGo DEF PaymentsInv, LocksApart
<1>9. CommitsExplained'
  <2> SUFFICES ASSUME NEW g \in Handler, handling'[g].step = "commit"
               PROVE  CommitExplained(handling'[g], rows', events', acked', ledger', notified')
    BY DEF CommitsExplained
  <2>1. handling'[g] = handling[g]
    BY <1>7, NoEventLight
  <2>2. CommitExplained(handling[g], rows, events, acked, ledger, notified)
    BY <2>1 DEF PaymentsInv, CommitsExplained
  <2>3. QED
    BY <1>1, <2>1, <2>2, CommitLasts
<1>10. EventsAreOne'
  BY <1>1 DEF PaymentsInv, EventsAreOne
<1>11. RowsExplained'
  BY <1>1, RowsExplainedStay DEF PaymentsInv
<1>12. RowsAreOne' /\ NotifiedHasRow' /\ AsksAreOpen' /\ (ledger \subseteq acked)'
  BY <1>1 DEF PaymentsInv, RowsAreOne, NotifiedHasRow, AsksAreOpen
<1>13. QED
  BY <1>5, <1>6, <1>8, <1>9, <1>10, <1>11, <1>12 DEF PaymentsInv

\* The row that a commit leaves at i.
LEMMA PutRowsAt ==
    ASSUME TableTypes, NEW w \in Transaction, w.row <= Len(rows), rows' = PutRows(w),
           rows' \in Seq(SubscriptionRow)
    PROVE  /\ Len(rows) \in Nat /\ Len(rows') \in Nat /\ Len(rows) <= Len(rows')
           /\ w.effect.put = None => rows' = rows
           /\ w.effect.put # None /\ w.row = 0 =>
                /\ Len(rows') = Len(rows) + 1 /\ rows'[Len(rows')] = w.effect.put
                /\ \A i \in 1 .. Len(rows) : rows'[i] = rows[i]
           /\ w.effect.put # None /\ w.row # 0 =>
                /\ w.row \in 1 .. Len(rows) /\ Len(rows') = Len(rows)
                /\ rows'[w.row] = w.effect.put
                /\ \A i \in 1 .. Len(rows) : i # w.row => rows'[i] = rows[i]
<1> DEFINE put == w.effect.put
<1>1. /\ w.row \in 0 .. MaxRows /\ put \in SubscriptionRow \cup {None}
      /\ rows \in Seq(SubscriptionRow) /\ Len(rows) \in Nat /\ DOMAIN rows = 1 .. Len(rows)
  BY TransactionFields, LenProperties DEF TableTypes
<1>2. Len(rows') \in Nat /\ DOMAIN rows' = 1 .. Len(rows')
  BY LenProperties
<1>3. CASE put = None
  BY <1>1, <1>3 DEF PutRows
<1>4. CASE put # None /\ w.row = 0
  <2>1. rows' = Append(rows, put) /\ put \in SubscriptionRow
    BY <1>1, <1>4 DEF PutRows
  <2> HIDE DEF put
  <2>2. /\ Len(rows') = Len(rows) + 1 /\ rows'[Len(rows) + 1] = put
        /\ \A i \in 1 .. Len(rows) : rows'[i] = rows[i]
    BY <1>1, <2>1, AppendProperties
  <2>3. rows'[Len(rows')] = put
    BY <2>2
  <2>4. Len(rows) <= Len(rows')
    BY <1>1, <2>2
  <2>5. QED
    BY <1>1, <1>2, <1>4, <2>2, <2>3, <2>4 DEF put
<1>5. CASE put # None /\ w.row # 0
  <2>1. rows' = [rows EXCEPT ![w.row] = put]
    BY <1>5 DEF PutRows
  <2>2. w.row \in 1 .. Len(rows) /\ put \in SubscriptionRow
    BY <1>1, <1>5
  <2> HIDE DEF put
  <2>3. Len([rows EXCEPT ![w.row] = put]) = Len(rows)
    BY <1>1, <2>2, ExceptSeq
  <2>4. Len(rows') = Len(rows)
    BY <2>1, <2>3
  <2>5. rows'[w.row] = put /\ \A i \in 1 .. Len(rows) : i # w.row => rows'[i] = rows[i]
    BY <1>1, <2>1, <2>2
  <2>6. QED
    <3>1. put # None /\ w.row # 0
      BY <1>5 DEF put
    <3>2. Len(rows) \in Nat /\ Len(rows') \in Nat /\ Len(rows) <= Len(rows')
      BY <1>1, <2>4
    <3>3. QED
      BY <2>2, <2>4, <2>5, <3>1, <3>2 DEF put
<1>6. QED
  BY <1>3, <1>4, <1>5

\* A commit that is written: of webhook w, neither refused nor known.
Writes(h, w) ==
    /\ w = handling[h] /\ w.step = "commit" /\ ~Known(w) /\ ~w.effect.rejected
    /\ w.effect.put # None => ~Refused(w.row, w.effect.put)
    /\ rows' = PutRows(w)
    /\ payments' = payments \cup Transactions(w)
    /\ ledger' = ledger \cup {w.event.id}
    /\ notified' = notified \cup ({w.key} \ {0})
    /\ acked' = acked \cup {w.event.id}
    /\ handling' = [handling EXCEPT ![h] = NoEvent]
    /\ UNCHANGED <<stripe, sessions, events, asking>>

\* Where the commit puts its row, and what the others are.
LEMMA PutPlace ==
    ASSUME PaymentsInv, BillingTypes', NEW h \in Handler, NEW w, Writes(h, w), w.effect.put # None
    PROVE  \E k \in 1 .. Len(rows') :
             /\ rows'[k] = w.effect.put
             /\ \A i \in 1 .. Len(rows') : i # k => i \in 1 .. Len(rows) /\ rows'[i] = rows[i]
             /\ \A i \in 1 .. Len(rows) : i \in 1 .. Len(rows')
             /\ w.row # 0 => k = w.row /\ k \in 1 .. Len(rows)
             /\ w.row = 0 => k \notin 1 .. Len(rows)
<1>1. w \in Transaction /\ w.row <= Len(rows) /\ rows' = PutRows(w)
  BY Committing DEF Writes
<1>2. TableTypes /\ rows' \in Seq(SubscriptionRow)
  BY DEF PaymentsInv, BillingTypes, TableTypes
<1>3. /\ Len(rows) \in Nat /\ Len(rows') \in Nat
      /\ w.row = 0 =>
           /\ Len(rows') = Len(rows) + 1 /\ rows'[Len(rows')] = w.effect.put
           /\ \A i \in 1 .. Len(rows) : rows'[i] = rows[i]
      /\ w.row # 0 =>
           /\ w.row \in 1 .. Len(rows) /\ Len(rows') = Len(rows)
           /\ rows'[w.row] = w.effect.put
           /\ \A i \in 1 .. Len(rows) : i # w.row => rows'[i] = rows[i]
  BY <1>1, <1>2, PutRowsAt
<1>4. CASE w.row = 0
  <2>1. Len(rows') \in 1 .. Len(rows') /\ Len(rows') \notin 1 .. Len(rows)
    BY <1>3, <1>4
  <2>2. \A i \in 1 .. Len(rows') : i # Len(rows') => i \in 1 .. Len(rows)
    BY <1>3, <1>4
  <2>3. \A i \in 1 .. Len(rows) : i \in 1 .. Len(rows')
    BY <1>3, <1>4
  <2>4. QED
    BY <1>3, <1>4, <2>1, <2>2, <2>3
<1>5. CASE w.row # 0
  BY <1>3, <1>5
<1>6. QED
  BY <1>4, <1>5

LEMMA Committed ==
    ASSUME PaymentsInv, NEW h \in Handler, NEW w, Writes(h, w)
    PROVE  /\ w.event \in events /\ WellFormed(w.event)
           /\ PutExplained(w, rows, events)
           /\ PaidExplained(w, rows, events, acked, ledger, notified) /\ KeyExplained(w)
           /\ w.event.id \notin ledger /\ w.key \notin notified
           /\ w.effect.put # None /\ w.effect.put.sub # None =>
                \A j \in 1 .. Len(rows) : j # w.row => rows[j].sub # w.effect.put.sub
<1>1. /\ w.event \in events /\ WellFormed(w.event)
      /\ CommitExplained(w, rows, events, acked, ledger, notified)
  BY Committing DEF Writes
<1>2. w.event.id \notin ledger /\ w.key \notin notified
  BY DEF Writes, Known
<1>3. w.effect.put # None /\ w.effect.put.sub # None =>
        \A j \in 1 .. Len(rows) : j # w.row => rows[j].sub # w.effect.put.sub
  BY DEF Writes, Refused, Ids
<1>4. QED
  BY <1>1, <1>2, <1>3 DEF CommitExplained

LEMMA WriteExplainsRows ==
    ASSUME PaymentsInv, BillingTypes', NEW h \in Handler, NEW w, Writes(h, w)
    PROVE  RowsExplained' /\ RowsAreOne'
<1> DEFINE e == w.event
           put == w.effect.put
<1>1. events' = events /\ acked' = acked \cup {e.id} /\ rows' = PutRows(w)
  BY DEF Writes
<1>2. CASE put = None
  <2>1. rows' = rows
    BY <1>1, <1>2 DEF PutRows
  <2>2. RowsExplained'
    BY <1>1, <2>1, RowsExplainedStay DEF PaymentsInv
  <2>3. RowsAreOne'
    BY <2>1 DEF PaymentsInv, RowsAreOne
  <2>4. QED
    BY <2>2, <2>3
<1>3. CASE put # None
  <2>1. PICK k \in 1 .. Len(rows') :
             /\ rows'[k] = put
             /\ \A i \in 1 .. Len(rows') : i # k => i \in 1 .. Len(rows) /\ rows'[i] = rows[i]
             /\ w.row # 0 => k = w.row
             /\ w.row = 0 => k \notin 1 .. Len(rows)
    BY <1>3, PutPlace
  <2>2. /\ e \in events /\ WellFormed(e) /\ PutExplained(w, rows, events)
        /\ put.sub # None => \A j \in 1 .. Len(rows) : j # w.row => rows[j].sub # put.sub
    BY <1>3, Committed
  <2>3. /\ OpenedBy(events, put) /\ put.status # "pending"
        /\ put.sub = None \/ put.sub = e.sub
        /\ put.status \in Ended => put.sub = None \/ (put.seen = e.created /\ e.status \in Ended)
    BY <1>3, <2>2 DEF PutExplained
  <2>4. e.created \in Nat
    BY <2>2, BillingAssumption DEF WellFormed, Event
  <2> HIDE DEF put, e
  <2>5. put.status \in Ended /\ put.sub # None => EndSeen(events', acked', put.sub, put.seen)
    BY <1>1, <2>2, <2>3, <2>4 DEF EndSeen
  <2>6. RowExplained(put, events', acked')
    BY <1>1, <2>3, <2>5 DEF RowExplained
  <2>7. RowsExplained'
    <3> SUFFICES ASSUME NEW i \in 1 .. Len(rows') PROVE RowExplained(rows'[i], events', acked')
      BY DEF RowsExplained
    <3>1. CASE i = k
      BY <2>1, <2>6, <3>1
    <3>2. CASE i # k
      <4>1. i \in 1 .. Len(rows) /\ rows'[i] = rows[i]
        BY <2>1, <3>2
      <4>2. RowExplained(rows[i], events, acked)
        BY <4>1 DEF PaymentsInv, RowsExplained
      <4>3. QED
        BY <1>1, <4>1, <4>2, RowLasts
    <3>3. QED
      BY <3>1, <3>2
  <2>8. RowsAreOne'
    <3> SUFFICES ASSUME NEW i \in 1 .. Len(rows'), NEW j \in 1 .. Len(rows'),
                        rows'[i].sub # None, rows'[i].sub = rows'[j].sub
                 PROVE  i = j
      BY DEF RowsAreOne
    <3>1. CASE i # k /\ j # k
      BY <2>1, <3>1 DEF PaymentsInv, RowsAreOne
    <3>2. \A m \in 1 .. Len(rows') : m # k => m # w.row
      BY <2>1
    <3>3. CASE i = k /\ j # k
      BY <2>1, <2>2, <3>2, <3>3
    <3>4. CASE i # k /\ j = k
      BY <2>1, <2>2, <3>2, <3>4
    <3>5. QED
      BY <3>1, <3>3, <3>4
  <2>9. QED
    BY <2>7, <2>8
<1>4. QED
  BY <1>2, <1>3

LEMMA WriteKeepsAsks ==
    ASSUME PaymentsInv, BillingTypes', NEW h \in Handler, NEW w, Writes(h, w)
    PROVE  AsksAreOpen'
<1> DEFINE put == w.effect.put
<1>1. asking' = asking /\ rows' = PutRows(w)
  BY DEF Writes
<1>2. CASE put = None
  BY <1>1, <1>2 DEF PutRows, PaymentsInv, AsksAreOpen
<1>3. CASE put # None
  <2>1. PICK k \in 1 .. Len(rows') :
             /\ rows'[k] = put
             /\ \A i \in 1 .. Len(rows') : i # k => i \in 1 .. Len(rows) /\ rows'[i] = rows[i]
             /\ \A i \in 1 .. Len(rows) : i \in 1 .. Len(rows')
             /\ w.row # 0 => k = w.row
             /\ w.row = 0 => k \notin 1 .. Len(rows)
    BY <1>3, PutPlace
  <2>2. w.row # 0 => /\ rows[w.row].session \in {0, put.session}
                     /\ rows[w.row].session # 0 \/ rows[w.row].sub # None
    BY <1>3, Committed DEF PutExplained
  <2>3. ASSUME NEW q \in Caller, asking[q].step = "checkout"
        PROVE  /\ rows'[asking[q].row].session \in {0, asking[q].row}
               /\ rows'[asking[q].row].session = 0 => rows'[asking[q].row].sub = None
    <3>1. asking[q].row \in 1 .. MaxRows /\ asking[q].row <= Len(rows)
      BY <2>3, RequestFields DEF PaymentsInv, BillingTypes, AskingTypes
    <3>2. asking[q].row \in 1 .. Len(rows) /\ asking[q].row # 0
      BY <3>1, RowsLength DEF PaymentsInv, BillingTypes
    <3>3. /\ rows[asking[q].row].session \in {0, asking[q].row}
          /\ rows[asking[q].row].session = 0 => rows[asking[q].row].sub = None
      BY <2>3 DEF PaymentsInv, AsksAreOpen, Unopened
    <3>4. CASE asking[q].row # k
      BY <2>1, <3>2, <3>3, <3>4
    <3>5. CASE asking[q].row = k
      <4>1. w.row = k /\ w.row # 0
        BY <2>1, <3>2, <3>5
      <4>2. rows[k].session = k /\ put.session = k
        BY <2>2, <3>3, <3>5, <4>1
      <4>3. QED
        BY <2>1, <3>2, <3>5, <4>2
    <3>6. QED
      BY <3>4, <3>5
  <2>4. QED
    BY <1>1, <2>3 DEF AsksAreOpen, Unopened
<1>4. QED
  BY <1>2, <1>3

LEMMA WriteNotifies ==
    ASSUME PaymentsInv, BillingTypes', NEW h \in Handler, NEW w, Writes(h, w)
    PROVE  NotifiedHasRow'
<1> DEFINE e == w.event
           put == w.effect.put
<1>1. events' = events /\ notified' = notified \cup ({w.key} \ {0}) /\ rows' = PutRows(w)
  BY DEF Writes
<1>2. /\ e \in events /\ PutExplained(w, rows, events)
      /\ PaidExplained(w, rows, events, acked, ledger, notified) /\ KeyExplained(w)
  BY Committed
<1> SUFFICES ASSUME NEW d \in events, Invoiced(d), d.invoice \in notified'
             PROVE  \E i \in 1 .. Len(rows') : rows'[i].sub = d.sub
  BY <1>1 DEF NotifiedHasRow
<1>3. d.sub # None
  BY NumberOf DEF PaymentsInv, BillingTypes
\* A row of a subscription is there after the commit if it was before, or is put.
<1>4. ASSUME \/ \E i \in 1 .. Len(rows) : rows[i].sub = d.sub
             \/ put # None /\ put.sub = d.sub
      PROVE  \E i \in 1 .. Len(rows') : rows'[i].sub = d.sub
  <2>1. CASE put = None
    <3>1. rows' = rows
      BY <1>1, <2>1 DEF PutRows
    <3>2. QED
      BY <1>4, <2>1, <3>1
  <2>2. CASE put # None
    <3>1. PICK k \in 1 .. Len(rows') :
             /\ rows'[k] = put
             /\ \A i \in 1 .. Len(rows') : i # k => i \in 1 .. Len(rows) /\ rows'[i] = rows[i]
             /\ \A i \in 1 .. Len(rows) : i \in 1 .. Len(rows')
             /\ w.row # 0 => k = w.row
             /\ w.row = 0 => k \notin 1 .. Len(rows)
      BY <2>2, PutPlace
    <3>2. CASE put.sub = d.sub
      BY <3>1, <3>2
    <3>3. ASSUME NEW i \in 1 .. Len(rows), rows[i].sub = d.sub, put.sub # d.sub
          PROVE  rows'[i].sub = d.sub /\ i \in 1 .. Len(rows')
      <4>1. i # k
        <5>1. w.row # 0 => rows[w.row].sub \in {None, put.sub}
          BY <1>2, <2>2 DEF PutExplained
        <5>2. QED
          BY <1>3, <3>1, <3>3, <5>1
      <4>2. QED
        BY <3>1, <3>3, <4>1
    <3>4. QED
      BY <1>4, <3>2, <3>3
  <2>3. QED
    BY <2>1, <2>2
<1>5. CASE d.invoice \in notified
  BY <1>4, <1>5 DEF PaymentsInv, NotifiedHasRow
<1>6. CASE d.invoice = w.key /\ w.key # 0
  <2>1. Invoiced(e) /\ e.invoice = d.invoice /\ (e.type = "checkout" => put # None)
    BY <1>2, <1>6 DEF KeyExplained
  <2>2. d.sub = e.sub
    BY <1>2, <2>1 DEF PaymentsInv, EventsAreOne
  <2>3. put # None => put.sub = e.sub
    BY <1>2, <2>1 DEF PutExplained, Invoiced
  <2>4. CASE put # None
    BY <1>4, <2>2, <2>3, <2>4
  <2>5. CASE put = None
    <3>1. e.type = "paid"
      BY <2>1, <2>5 DEF Invoiced
    <3>2. w.row # 0 /\ w.row \in w.locks /\ rows[w.row].sub = e.sub
      BY <1>2, <2>5, <3>1 DEF PaidExplained
    <3>3. w.row \in 1 .. Len(rows)
      BY <3>2, Committing DEF Writes
    <3>4. QED
      BY <1>4, <2>2, <3>2, <3>3
  <2>6. QED
    BY <2>4, <2>5
<1>7. QED
  BY <1>1, <1>5, <1>6

\* The commit of another webhook stays explained: its rows are locked, and no
\* message about its payment is sent under another event.
LEMMA WriteKeepsCommits ==
    ASSUME PaymentsInv, BillingTypes', NEW h \in Handler, NEW w, Writes(h, w)
    PROVE  CommitsExplained'
<1> DEFINE e == w.event
           put == w.effect.put
<1>1. /\ events' = events /\ acked' = acked \cup {e.id} /\ ledger' = ledger \cup {e.id}
      /\ notified' = notified \cup ({w.key} \ {0}) /\ rows' = PutRows(w)
      /\ handling' = [handling EXCEPT ![h] = NoEvent] /\ w = handling[h] /\ w.step = "commit"
  BY DEF Writes
<1>2. /\ e \in events /\ PutExplained(w, rows, events) /\ KeyExplained(w)
      /\ put # None /\ put.sub # None =>
           \A j \in 1 .. Len(rows) : j # w.row => rows[j].sub # put.sub
  BY Committed
<1>3. \A g \in Handler : handling'[g] = IF g = h THEN NoEvent ELSE handling[g]
  BY <1>1 DEF PaymentsInv, BillingTypes, HandlingTypes
<1> SUFFICES ASSUME NEW g \in Handler, handling'[g].step = "commit"
             PROVE  CommitExplained(handling'[g], rows', events', acked', ledger', notified')
  BY DEF CommitsExplained
<1> DEFINE v == handling[g]
<1>4. g # h /\ handling'[g] = v /\ v.step = "commit"
  BY <1>3, NoEventLight
<1>5. /\ v.event \in events /\ v.locks \subseteq 1 .. Len(rows) /\ LockedBy(v) = v.locks
      /\ CommitExplained(v, rows, events, acked, ledger, notified)
  BY <1>4, Committing
<1>6. LockedBy(w) = w.locks
  BY <1>1, Committing
<1>7. v.locks \cap w.locks = {}
  BY <1>1, <1>4, <1>5, <1>6 DEF PaymentsInv, LocksApart
<1> HIDE DEF v, e, put
<1>8. \A i \in v.locks : rows'[i].sub = rows[i].sub /\ rows'[i].session = rows[i].session
  <2>1. CASE put = None
    BY <1>1, <2>1 DEF PutRows, put
  <2>2. CASE put # None
    <3>1. PICK k \in 1 .. Len(rows') :
             /\ \A i \in 1 .. Len(rows') : i # k => i \in 1 .. Len(rows) /\ rows'[i] = rows[i]
             /\ \A i \in 1 .. Len(rows) : i \in 1 .. Len(rows')
             /\ w.row # 0 => k = w.row
             /\ w.row = 0 => k \notin 1 .. Len(rows)
      BY <2>2, PutPlace DEF put
    <3>2. w.row # 0 => w.row \in w.locks
      BY <1>2, <2>2 DEF PutExplained, put
    <3>3. \A i \in v.locks : i # k /\ i \in 1 .. Len(rows)
      BY <1>5, <1>7, <3>1, <3>2
    <3>4. QED
      BY <3>1, <3>3
  <2>3. QED
    BY <2>1, <2>2
<1>9. ASSUME v.event.type = "paid", v.row # 0, v.key # 0, v.event.id \notin ledger', v.key = w.key
      PROVE  FALSE
  <2>1. /\ v.key = v.event.invoice /\ v.row \in v.locks /\ rows[v.row].sub = v.event.sub
    BY <1>5, <1>9 DEF CommitExplained, PaidExplained, KeyExplained
  <2>2. Invoiced(e) /\ e.invoice = v.event.invoice /\ (e.type = "checkout" => put # None)
    BY <1>2, <1>9, <2>1 DEF KeyExplained, e, put
  <2>3. Invoiced(v.event)
    BY <1>9 DEF Invoiced
  <2>4. e.sub = v.event.sub /\ (e.type = v.event.type => e = v.event)
    BY <1>2, <1>5, <2>2, <2>3 DEF PaymentsInv, EventsAreOne
  <2>5. e # v.event
    BY <1>1, <1>9
  <2>6. e.type = "checkout" /\ put # None
    BY <1>9, <2>2, <2>4, <2>5 DEF Invoiced
  <2>7. put.sub = e.sub /\ (w.row # 0 => w.row \in w.locks)
    BY <1>2, <2>6 DEF PutExplained, put, e
  <2>8. e.sub # None
    BY <1>2, <2>2, NumberOf DEF PaymentsInv, BillingTypes
  <2>9. v.row \in 1 .. Len(rows)
    BY <1>5, <2>1
  <2>10. v.row = w.row
    BY <1>2, <2>1, <2>4, <2>6, <2>7, <2>8, <2>9
  <2>11. QED
    BY <1>7, <1>9, <2>1, <2>7, <2>10
<1>10. /\ events \subseteq events' /\ acked \subseteq acked' /\ ledger \subseteq ledger'
       /\ v.event.type = "paid" /\ v.row # 0 /\ v.key # 0 /\ v.event.id \notin ledger'
          /\ v.key \notin notified
          => v.key \notin notified'
  BY <1>1, <1>9
<1>11. CommitExplained(v, rows', events', acked', ledger', notified')
  BY <1>5, <1>8, <1>10, CommitLasts
<1>12. QED
  BY <1>4, <1>11

LEMMA WriteSettles ==
    ASSUME PaymentsInv, NEW h \in Handler, NEW w, Writes(h, w)
    PROVE  PaymentsRecorded'
<1> DEFINE e == w.event
<1>1. /\ events' = events /\ acked' = acked \cup {e.id} /\ payments' = payments \cup Transactions(w)
      /\ ~w.effect.rejected
  BY DEF Writes
<1>2. e \in events /\ PaidExplained(w, rows, events, acked, ledger, notified)
  BY Committed
<1>3. e.type = "paid" => Settled(e, events, acked', payments')
  <2> SUFFICES ASSUME e.type = "paid" PROVE Settled(e, events, acked', payments')
    OBVIOUS
  <2>1. CASE w.effect.pay = "succeeded"
    <3>1. \E p \in Transactions(w) : p.event = e.id /\ p.status = "succeeded"
      BY <2>1 DEF Transactions
    <3>2. QED
      BY <1>1, <3>1 DEF Settled
  <2>2. CASE EndSeen(events, acked, e.sub, e.created)
    BY <1>1, <2>2, EndSeenLasts DEF Settled
  <2>3. QED
    BY <1>1, <1>2, <2>1, <2>2 DEF PaidExplained
<1> HIDE DEF e
<1>4. payments \subseteq payments'
  BY <1>1
<1>5. QED
  BY <1>1, <1>2, <1>3, <1>4, OneMoreAnswer

LEMMA WriteKeeps ==
    ASSUME PaymentsInv, BillingTypes', NEW h \in Handler, NEW w, Writes(h, w)
    PROVE  PaymentsInv'
<1> DEFINE e == w.event
<1>1. /\ UNCHANGED <<stripe, sessions, events, asking>>
      /\ acked' = acked \cup {e.id} /\ ledger' = ledger \cup {e.id}
      /\ notified' = notified \cup ({w.key} \ {0})
      /\ handling' = [handling EXCEPT ![h] = NoEvent]
  BY DEF Writes
<1>2. e \in events /\ KeyExplained(w)
  BY Committed
<1>3. EventsAreOne'
  BY <1>1 DEF PaymentsInv, EventsAreOne
<1>4. AnswersAreOld'
  <2>1. w.key # 0 => w.key <= Cardinality(events)
    BY <1>2 DEF KeyExplained, PaymentsInv, EventsAreOne
  <2>2. \A v \in notified' : v <= Cardinality(events)
    BY <1>1, <2>1 DEF PaymentsInv, AnswersAreOld
  <2>3. QED
    BY <1>1, <1>2, <2>2, AnswerIsOld
<1>5. \A g \in Handler : handling'[g] = IF g = h THEN NoEvent ELSE handling[g]
  BY <1>1 DEF PaymentsInv, BillingTypes, HandlingTypes
<1>6. LocksApart'
  BY <1>1, <1>5, NoEventLight, LetsGo DEF PaymentsInv, LocksApart
<1>7. (ledger \subseteq acked)'
  BY <1>1 DEF PaymentsInv
<1>8. QED
  BY <1>3, <1>4, <1>6, <1>7, WriteExplainsRows, WriteKeepsAsks, WriteNotifies,
     WriteKeepsCommits,
     WriteSettles DEF PaymentsInv

LEMMA CommitKeeps ==
    ASSUME PaymentsInv, BillingTypes', NEW h \in Handler, Commit(h)
    PROVE  PaymentsInv'
<1> DEFINE w == handling[h]
           refused == w.effect.put # None /\ Refused(w.row, w.effect.put)
<1>1. /\ w.step = "commit"
      /\ \/ Fail(h)
         \/ ~w.effect.rejected /\ ~(refused /\ w.event.type # "checkout") /\ Known(w) /\ Skip(h)
         \/ ~w.effect.rejected /\ ~Known(w) /\ ~refused /\ Write(h)
  BY DEF Commit
<1>2. CASE Fail(h)
  BY <1>2, FailKeeps
<1>3. CASE ~w.effect.rejected /\ ~(refused /\ w.event.type # "checkout") /\ Known(w) /\ Skip(h)
  BY <1>1, <1>3, SkipKeeps
<1>4. CASE ~w.effect.rejected /\ ~Known(w) /\ ~refused /\ Write(h)
  <2>1. Writes(h, w)
    BY <1>1, <1>4, WriteSteps DEF Writes
  <2>2. QED
    BY <2>1, WriteKeeps
<1>5. QED
  BY <1>1, <1>2, <1>3, <1>4

LEMMA WebhookKeeps ==
    ASSUME PaymentsInv, BillingTypes', Webhook
    PROVE  PaymentsInv'
BY ReceiveKeeps, BeginKeeps, CommitKeeps, FailKeeps DEF Webhook, Dies

LEMMA PaymentsInvInit == BillingInit => PaymentsInv
<1> SUFFICES ASSUME BillingInit PROVE PaymentsInv
  OBVIOUS
<1>1. /\ events = {} /\ acked = {} /\ notified = {} /\ ledger = {} /\ rows = <<>> /\ Len(rows) = 0
      /\ \A r \in Caller : asking[r] = NoRequest
      /\ \A h \in Handler : handling[h] = NoEvent
  BY DEF BillingInit
<1>2. BillingTypes
  BY BillingTypesInit
<1>3. EventsAreOne /\ AnswersAreOld /\ NotifiedHasRow /\ PaymentsRecorded /\ ledger \subseteq acked
  BY <1>1 DEF EventsAreOne, AnswersAreOld, NotifiedHasRow, PaymentsRecorded
<1>4. RowsExplained /\ RowsAreOne
  BY <1>1 DEF RowsExplained, RowsAreOne
<1>5. AsksAreOpen /\ LocksApart /\ CommitsExplained
  <2>1. AsksAreOpen
    BY <1>1, LightRequest, NoRequestLight DEF AsksAreOpen
  <2>2. LocksApart
    BY <1>1, LetsGo, NoEventLight DEF LocksApart
  <2>3. CommitsExplained
    BY <1>1, NoEventLight DEF CommitsExplained
  <2>4. QED
    BY <2>1, <2>2, <2>3
<1>6. QED
  BY <1>2, <1>3, <1>4, <1>5 DEF PaymentsInv

LEMMA PaymentsInvKept == PaymentsInv /\ [BillingNext]_billingVars => PaymentsInv'
<1> SUFFICES ASSUME PaymentsInv, [BillingNext]_billingVars PROVE PaymentsInv'
  OBVIOUS
<1>1. BillingTypes'
  BY BillingTypesKept DEF PaymentsInv
<1>2. CASE UNCHANGED billingVars
  <2>1. UNCHANGED <<stripe, sessions, events, acked, rows, ledger, notified, payments, handling, asking>>
    BY <1>2 DEF billingVars, stripeVars, tableVars
  <2>2. EventsGrow
    BY <2>1, StripeStays
  <2>3. RowsLast
    BY <2>1, RowsLength DEF RowsLast, PaymentsInv, BillingTypes
  <2>4. RowsExplained'
    BY <2>1, RowsExplainedStay DEF PaymentsInv
  <2>5. RowsAreOne' /\ AsksAreOpen' /\ LocksApart'
    BY <2>1 DEF PaymentsInv, RowsAreOne, AsksAreOpen, LocksApart
  <2>6. QED
    BY <1>1, <2>1, <2>2, <2>3, <2>4, <2>5, GrowthKeeps
<1>3. QED
  BY <1>1, <1>2, TickKeeps, OwnerKeeps, StripeActs, WebhookKeeps DEF BillingNext

\* However the webhooks overlap, fail, are repeated and reordered, an invoice
\* that was paid and answered with 2xx is in payment_transactions; unless it was
\* applied and answered that its subscription had ended by then
\* (stripe_webhook, _record_invoice_transaction).
THEOREM PaymentsAreRecorded == BillingSpec => []PaymentsRecorded
<1>1. PaymentsInv => PaymentsRecorded
  BY DEF PaymentsInv
<1>2. QED
  BY <1>1, PaymentsInvInit, PaymentsInvKept, PTL DEF BillingSpec

-----------------------------------------------------------------------------
(* Billing: the invariant of the refunds.                                  *)

Refunding(h) == handling[h].step = "commit" /\ handling[h].event.type = "refund"

\* Refunds of one invoice are handled one after the other: no two of them have
\* read what is recorded and not committed yet.
RefundsApart ==
    \A h \in Handler, g \in Handler :
        Refunding(h) /\ Refunding(g) /\ handling[h].event.invoice = handling[g].event.invoice
            => h = g

\* An event of a refund is of the first charge of its subscription, and tells
\* of no more than was refunded.
RefundsKnown ==
    \A e \in events : e.type = "refund" =>
        /\ e.sub \in Sub /\ e.invoice # 0 /\ e.invoice = stripe[e.sub].invoice
        /\ e.total <= refunded[e.sub]

\* A subscription that has begun has a first charge, and no other has the same.
InvoicesApart ==
    /\ \A s \in Sub : /\ stripe[s].status = "none" <=> stripe[s].invoice = 0
                      /\ stripe[s].invoice <= Cardinality(events)
    /\ \A s \in Sub, q \in Sub : stripe[s].invoice = stripe[q].invoice /\ stripe[s].invoice # 0 => s = q

RefundCommits ==
    \A h \in Handler :
        handling[h].step = "commit" /\ handling[h].effect.pay = "refunded" =>
            LET e == handling[h].event
            IN  /\ e.type = "refund"
                /\ RecordedRefunds(e.invoice) + handling[h].effect.amount <= refunded[e.sub]

RefundsOld == \A p \in payments : p.status = "refunded" => p.invoice <= Cardinality(events)

RefundsInv ==
    /\ PaymentsInv
    /\ RefundsKnown /\ InvoicesApart /\ RefundCommits /\ RefundsOld /\ RefundsAddUp

\* What a payment adds to the refunds of its own invoice, and to no other.
LEMMA RefundAdds ==
    ASSUME IsFiniteSet(payments), payments \subseteq Payment, NEW q \in Payment, NEW invoice,
           payments' = payments \cup {q}
    PROVE  /\ RecordedRefunds(invoice) \in Nat /\ RecordedRefunds(invoice)' \in Nat
           /\ RecordedRefunds(invoice)' <= RecordedRefunds(invoice) + q.amount
           /\ ~(q.invoice = invoice /\ q.status = "refunded") =>
                RecordedRefunds(invoice)' = RecordedRefunds(invoice)
<1> DEFINE f == [p \in payments |-> p.amount]
           g == [p \in payments' |-> p.amount]
           S == {p \in payments : p.invoice = invoice /\ p.status = "refunded"}
           T == {p \in payments' : p.invoice = invoice /\ p.status = "refunded"}
<1>1. RecordedRefunds(invoice) = SumFunctionOnSet(f, S) /\ RecordedRefunds(invoice)' = SumFunctionOnSet(g, T)
  BY DEF RecordedRefunds
<1>2. /\ S \subseteq payments /\ T \subseteq payments' /\ S \subseteq T
      /\ payments' \subseteq Payment
      /\ q \notin S /\ T # S => q \in T /\ T \ {q} = S
      /\ ~(q.invoice = invoice /\ q.status = "refunded") => T = S
      /\ \A p \in S : f[p] = g[p]
      /\ g[q] = q.amount
  OBVIOUS
<1>3. IsFiniteSet(payments') /\ IsFiniteSet(S) /\ IsFiniteSet(T)
  <2>1. IsFiniteSet(payments')
    BY FS_AddElement
  <2> HIDE DEF S, T
  <2>2. QED
    BY <1>2, <2>1, FS_Subset
<1>4. \A p \in T : g[p] \in Nat
  BY <1>2 DEF Payment
<1>5. q.amount \in Nat
  BY DEF Payment
<1> HIDE DEF f, g, S, T
<1>6. SumFunctionOnSet(f, S) = SumFunctionOnSet(g, S)
  BY <1>2, <1>3, SumAgree
<1>7. SumFunctionOnSet(g, S) \in Nat /\ SumFunctionOnSet(g, T) \in Nat
  BY <1>2, <1>3, <1>4, SumIsNat
<1>8. CASE T = S
  BY <1>1, <1>5, <1>6, <1>7, <1>8
<1>9. CASE T # S
  <2>1. q \in T /\ T \ {q} = S
    <3>1. q \in T
      BY <1>2, <1>9 DEF S, T
    <3>2. QED
      BY <1>2, <1>9, <3>1 DEF S, T
  <2>2. SumFunctionOnSet(g, T) = g[q] + SumFunctionOnSet(g, T \ {q})
    BY <1>3, <1>4, <2>1, SumWithout
  <2>3. SumFunctionOnSet(g, T) = q.amount + SumFunctionOnSet(f, S)
    BY <1>2, <1>6, <2>1, <2>2
  <2>4. q.invoice = invoice /\ q.status = "refunded"
    BY <1>2, <1>9
  <2>5. QED
    BY <1>1, <1>5, <1>6, <1>7, <2>3, <2>4
<1>10. QED
  BY <1>8, <1>9

\* Nothing else changes what is recorded.
LEMMA RefundsSame ==
    ASSUME payments' = payments, NEW invoice
    PROVE  RecordedRefunds(invoice)' = RecordedRefunds(invoice)
BY DEF RecordedRefunds

-----------------------------------------------------------------------------
(* Billing: what a step that is no refund leaves                           *)

\* New events are no refunds.
NoRefundCame == events \subseteq events' /\ \A e \in events' : e \in events \/ e.type # "refund"

LEMMA EmitNone ==
    ASSUME NEW seq, Emit(seq), \A k \in DOMAIN seq : WellFormed(seq[k]) /\ seq[k].type # "refund"
    PROVE  NoRefundCame
<1> DEFINE n == Cardinality(events)
<1>1. events' = events \cup {Numbered(seq[k], n + k) : k \in DOMAIN seq}
  BY DEF Emit, Numbered
<1>2. ASSUME NEW k \in DOMAIN seq PROVE Numbered(seq[k], n + k).type # "refund"
  BY DEF Numbered, WellFormed, Event
<1>3. QED
  BY <1>1, <1>2 DEF NoRefundCame

LEMMA EventsCounted ==
    ASSUME BillingTypes, BillingTypes', events \subseteq events'
    PROVE  /\ Cardinality(events) \in Nat /\ Cardinality(events') \in Nat
           /\ Cardinality(events) <= Cardinality(events')
BY FS_Subset, FS_CardinalityType DEF BillingTypes, EventTypes

LEMMA RefundFields ==
    ASSUME RefundsInv, NEW e \in events, e.type = "refund"
    PROVE  /\ e.sub \in Sub /\ e.invoice # 0 /\ e.invoice = stripe[e.sub].invoice
           /\ e.total <= refunded[e.sub] /\ stripe[e.sub].status # "none"
           /\ e.invoice <= Cardinality(events)
<1>1. e.sub \in Sub /\ e.invoice # 0 /\ e.invoice = stripe[e.sub].invoice /\ e.total <= refunded[e.sub]
  BY DEF RefundsInv, RefundsKnown
<1>2. QED
  BY <1>1 DEF RefundsInv, InvoicesApart

\* A step that no refund is part of, and that begins no subscription.
LEMMA RefundsStay ==
    ASSUME RefundsInv, PaymentsInv', NoRefundCame,
           UNCHANGED <<refunded, payments, handling>>,
           \A s \in Sub : stripe'[s].invoice = stripe[s].invoice
                          /\ (stripe'[s].status = "none" <=> stripe[s].status = "none")
    PROVE  RefundsInv'
<1>1. /\ Cardinality(events) \in Nat /\ Cardinality(events') \in Nat
      /\ Cardinality(events) <= Cardinality(events')
  BY EventsCounted DEF RefundsInv, PaymentsInv, NoRefundCame
<1>2. RefundsKnown'
  BY DEF NoRefundCame, RefundsInv, RefundsKnown
<1>3. \A s \in Sub : stripe[s].invoice \in Nat
  BY SubAt, BillingAssumption DEF RefundsInv, PaymentsInv, BillingTypes, StripeSub
<1>4. InvoicesApart'
  BY <1>1, <1>3 DEF RefundsInv, InvoicesApart
<1>5. RefundCommits'
  BY RefundsSame DEF RefundsInv, RefundCommits
<1>6. RefundsOld'
  <2>1. \A p \in payments : p.invoice \in Nat
    BY BillingAssumption DEF RefundsInv, PaymentsInv, BillingTypes, TableTypes, Payment
  <2>2. QED
    BY <1>1, <2>1 DEF RefundsInv, RefundsOld
<1>7. RefundsAddUp'
  BY RefundsSame DEF RefundsInv, RefundsAddUp
<1>8. QED
  BY <1>2, <1>4, <1>5, <1>6, <1>7 DEF RefundsInv

LEMMA StillRefunds ==
    ASSUME RefundsInv, PaymentsInv', UNCHANGED <<stripe, events, refunded, payments, handling>>
    PROVE  RefundsInv'
BY RefundsStay DEF NoRefundCame

-----------------------------------------------------------------------------
(* Billing: requests and Stripe                                            *)

\* What the subscription s becomes keeps its first charge.
LEMMA KeepsCharge ==
    ASSUME RefundsInv, PaymentsInv', NoRefundCame, UNCHANGED <<refunded, payments, handling>>,
           NEW s \in Sub, NEW x, stripe' = [stripe EXCEPT ![s] = x],
           x.invoice = stripe[s].invoice, x.status # "none", stripe[s].status # "none"
    PROVE  RefundsInv'
<1>1. \A q \in Sub : stripe'[q].invoice = stripe[q].invoice
                     /\ (stripe'[q].status = "none" <=> stripe[q].status = "none")
  BY DEF RefundsInv, PaymentsInv, BillingTypes, StripeTypes
<1>2. QED
  BY <1>1, RefundsStay

LEMMA ChangeRefunds ==
    ASSUME RefundsInv, PaymentsInv', NEW r \in Caller, NEW p \in Plan, NEW i \in Ids, BeginChange(r, p, i)
    PROVE  RefundsInv'
<1> DEFINE s == rows[i].sub
           new == ModifySubscription(s, p)
<1>1. /\ s # None /\ UNCHANGED <<refunded, payments, handling>>
      /\ \/ UNCHANGED <<stripe, events>>
         \/ /\ stripe[s].status \in Current
            /\ stripe' = [stripe EXCEPT ![s] = new]
            /\ ChangeEmits(s, p)
  BY DEF BeginChange, Ask, ChangeEmits, tableVars
<1>2. s \in Sub /\ BillingTypes
  BY <1>1, RowSub DEF RefundsInv, PaymentsInv, BillingTypes
<1> HIDE DEF s
<1>3. CASE UNCHANGED <<stripe, events>>
  BY <1>1, <1>3, StillRefunds
<1>4. CASE /\ stripe[s].status \in Current
           /\ stripe' = [stripe EXCEPT ![s] = new]
           /\ ChangeEmits(s, p)
  <2>1. PICK a, b : /\ WellFormed(a) /\ a.type = "paid" /\ WellFormed(b) /\ b.type = "updated"
                    /\ Emit(<<a, b>>)
    BY <1>2, <1>4, ChangePair
  <2>2. NoRefundCame
    <3> DEFINE seq == <<a, b>>
    <3>1. Emit(seq) /\ \A k \in DOMAIN seq : WellFormed(seq[k]) /\ seq[k].type # "refund"
      BY <2>1
    <3> HIDE DEF seq
    <3>2. QED
      BY <3>1, EmitNone
  <2>3. stripe[s] \in StripeSub
    BY <1>2, SubAt DEF BillingTypes
  <2>4. new.invoice = stripe[s].invoice /\ new.status = stripe[s].status
    BY <2>3 DEF ModifySubscription, StripeSub
  <2>5. stripe[s].status # "none"
    BY <1>4 DEF Current
  <2> HIDE DEF new
  <2>6. QED
    BY <1>1, <1>2, <1>4, <2>2, <2>4, <2>5, KeepsCharge
<1>5. QED
  BY <1>1, <1>3, <1>4

LEMMA CancelRefunds ==
    ASSUME RefundsInv, PaymentsInv', NEW r \in Caller, NEW i \in Ids, BeginCancel(r, i)
    PROVE  RefundsInv'
<1> DEFINE s == rows[i].sub
           new == CancelSubscription(s)
           e == About("updated", s, new)
<1>1. /\ s # None /\ stripe[s].status \in Current /\ UNCHANGED <<refunded, payments, handling>>
      /\ \/ UNCHANGED <<stripe, events>>
         \/ stripe' = [stripe EXCEPT ![s] = new] /\ Emit(<<e>>)
  BY DEF BeginCancel, Ask, tableVars
<1>2. s \in Sub /\ BillingTypes
  BY <1>1, RowSub DEF RefundsInv, PaymentsInv, BillingTypes
<1> HIDE DEF s
<1>3. CASE UNCHANGED <<stripe, events>>
  BY <1>1, <1>3, StillRefunds
<1>4. CASE stripe' = [stripe EXCEPT ![s] = new] /\ Emit(<<e>>)
  <2>1. PICK d : WellFormed(d) /\ d.type = "updated" /\ Emit(<<d>>)
    BY <1>1, <1>2, <1>4, CancelEvent
  <2>2. NoRefundCame
    <3> DEFINE seq == <<d>>
    <3>1. Emit(seq) /\ \A k \in DOMAIN seq : WellFormed(seq[k]) /\ seq[k].type # "refund"
      BY <2>1
    <3> HIDE DEF seq
    <3>2. QED
      BY <3>1, EmitNone
  <2>3. stripe[s] \in StripeSub
    BY <1>2, SubAt DEF BillingTypes
  <2>4. new.invoice = stripe[s].invoice /\ new.status = stripe[s].status
    BY <2>3 DEF CancelSubscription, StripeSub
  <2>5. stripe[s].status # "none"
    BY <1>1 DEF Current
  <2> HIDE DEF new
  <2>6. QED
    BY <1>1, <1>2, <1>4, <2>2, <2>4, <2>5, KeepsCharge
<1>5. QED
  BY <1>1, <1>3, <1>4

LEMMA OwnerRefunds ==
    ASSUME RefundsInv, PaymentsInv', Owner
    PROVE  RefundsInv'
<1>1. PICK r \in Caller : \/ SignIn(r) \/ OwnerActs(r) \/ FinishUsage(r)
                          \/ \E b \in BOOLEAN : FinishCheckout(r, b) \/ FinishChange(r, b) \/ FinishCancel(r, b)
  BY DEF Owner
<1>2. ASSUME UNCHANGED <<stripe, events, refunded, payments, handling>> PROVE RefundsInv'
  BY <1>2, StillRefunds
<1>3. CASE SignIn(r) \/ FinishUsage(r)
  <2>1. UNCHANGED <<stripe, events, refunded, payments, handling>>
    BY <1>3 DEF SignIn, FinishUsage, stripeVars, tableVars
  <2>2. QED
    BY <1>2, <2>1
<1>4. ASSUME NEW b \in BOOLEAN, FinishCheckout(r, b) \/ FinishChange(r, b) \/ FinishCancel(r, b)
      PROVE  UNCHANGED <<stripe, events, refunded, payments, handling>>
  <2>1. CASE FinishCheckout(r, b)
    BY <2>1 DEF FinishCheckout
  <2>2. CASE FinishChange(r, b)
    BY <2>2 DEF FinishChange, stripeVars
  <2>3. CASE FinishCancel(r, b)
    BY <2>3 DEF FinishCancel, stripeVars
  <2>4. QED
    BY <1>4, <2>1, <2>2, <2>3
<1>5. CASE OwnerActs(r)
  <2>1. ASSUME Leave(r) \/ BeginUsage(r) PROVE RefundsInv'
    <3>1. UNCHANGED <<stripe, events, refunded, payments, handling>>
      BY <2>1 DEF Leave, BeginUsage, stripeVars, tableVars
    <3>2. QED
      BY <1>2, <3>1
  <2>2. ASSUME NEW p \in Plan, BeginCheckout(r, p) PROVE RefundsInv'
    <3>1. UNCHANGED <<stripe, events, refunded, payments, handling>>
      BY <2>2 DEF BeginCheckout, stripeVars
    <3>2. QED
      BY <1>2, <3>1
  <2>3. ASSUME NEW p \in Plan, NEW i \in Ids, RepeatCheckout(r, p, i) PROVE RefundsInv'
    <3>1. UNCHANGED <<stripe, events, refunded, payments, handling>>
      BY <2>3 DEF RepeatCheckout, stripeVars, tableVars
    <3>2. QED
      BY <1>2, <3>1
  <2>4. QED
    BY <1>5, <2>1, <2>2, <2>3, ChangeRefunds, CancelRefunds DEF OwnerActs
<1>6. QED
  BY <1>1, <1>2, <1>3, <1>4, <1>5

LEMMA MovesRefunds ==
    ASSUME RefundsInv, PaymentsInv', NEW s \in Sub, NEW new \in StripeSub, new.status # "none",
           new.plan \in Plan, new.invoice = stripe[s].invoice, stripe[s].status # "none", NEW types,
           \/ types \in {<<"paid", "updated">>, <<"failed", "updated">>}
           \/ types \in {<<"updated">>, <<"deleted">>},
           Moves(s, new, types)
    PROVE  RefundsInv'
<1> DEFINE at == [new EXCEPT !.at = now]
           seq == Drafted(types, s, new)
<1>1. /\ stripe' = [stripe EXCEPT ![s] = at] /\ Emit(seq)
      /\ UNCHANGED <<refunded, payments, handling>>
  BY DEF Moves, Drafted, Quietly, tableVars
<1>2. at.status # "none" /\ at.invoice = stripe[s].invoice
  BY DEF StripeSub
<1> HIDE DEF at
<1>3. /\ DOMAIN types = 1 .. Len(types) /\ Len(types) \in {1, 2}
      /\ \A k \in DOMAIN types : types[k] \in EventType \ {"checkout", "expired"}
      /\ \A k \in DOMAIN types : types[k] # "refund"
  BY TypeLists
<1>4. Len(types) \in Nat \ {0}
  BY <1>3
<1>5. DOMAIN seq = 1 .. Len(types) /\ Len(seq) = Len(types)
  BY <1>3, <1>4 DEF Drafted
<1>6. ClockTypes /\ EventTypes
  BY DEF RefundsInv, PaymentsInv, BillingTypes
<1>7. Cardinality(events) + Len(types) <= MaxEvents /\ NextInvoice \in 1 .. MaxEvents
  BY <1>1, <1>4, <1>5, <1>6, EmitNext
<1>8. ASSUME NEW k \in DOMAIN seq PROVE WellFormed(seq[k]) /\ seq[k].type # "refund"
  <2>1. seq[k] = About(types[k], s, new) /\ types[k] \in EventType \ {"checkout", "expired", "refund"}
    BY <1>3, <1>5 DEF Drafted
  <2>2. WellFormed(About(types[k], s, new)) /\ About(types[k], s, new).type = types[k]
    BY <1>6, <1>7, <2>1, AboutFormed, AboutFields
  <2>3. QED
    BY <2>1, <2>2
<1> HIDE DEF seq
<1>9. NoRefundCame
  BY <1>1, <1>8, EmitNone
<1>10. QED
  BY <1>1, <1>2, <1>9, KeepsCharge

LEMMA RenewalRefunds ==
    ASSUME RefundsInv, PaymentsInv', NEW s \in Sub,
           Renew(s) \/ RenewalFails(s) \/ Collects(s) \/ GivesUp(s) \/ Deletes(s)
    PROVE  RefundsInv'
<1>1. /\ stripe[s] \in StripeSub /\ StripeTypes /\ now \in 0 .. MaxTime
  BY SubAt DEF RefundsInv, PaymentsInv, BillingTypes, ClockTypes
<1>2. Renewable(s) => stripe[s].end + Period \in Time /\ stripe[s].status = "active"
  <2>1. stripe[s].end \in Time
    BY <1>1 DEF StripeSub
  <2>2. QED
    BY <1>1, <2>1, BillingAssumption DEF Renewable, Time
<1>3. 0 \in Time
  BY BillingAssumption DEF Time
<1>4. ASSUME NEW end \in Time, NEW status \in {"active", "past_due", "unpaid", "canceled"}, NEW new,
             NEW types, stripe[s].status # "none", Moves(s, new, types),
             \/ new = [stripe[s] EXCEPT !.end = end]
             \/ new = [stripe[s] EXCEPT !.status = status]
             \/ new = [stripe[s] EXCEPT !.end = end, !.status = status],
             \/ types \in {<<"paid", "updated">>, <<"failed", "updated">>}
             \/ types \in {<<"updated">>, <<"deleted">>}
      PROVE  RefundsInv'
  <2>1. new \in StripeSub /\ new.status # "none" /\ new.plan \in Plan
    BY <1>1, <1>4, ChangedSub
  <2>2. new.invoice = stripe[s].invoice
    BY <1>1, <1>4 DEF StripeSub
  <2>3. QED
    BY <1>4, <2>1, <2>2, MovesRefunds
<1>5. CASE Renew(s)
  <2> DEFINE new == [stripe[s] EXCEPT !.end = @ + Period]
             types == <<"paid", "updated">>
  <2>1. Moves(s, new, types) /\ Renewable(s)
    BY <1>5 DEF Renew
  <2>2. new = [stripe[s] EXCEPT !.end = stripe[s].end + Period]
    OBVIOUS
  <2>3. types \in {<<"paid", "updated">>, <<"failed", "updated">>}
    OBVIOUS
  <2> HIDE DEF new, types
  <2>4. QED
    BY <1>2, <1>4, <2>1, <2>2, <2>3
<1>6. CASE RenewalFails(s)
  <2> DEFINE new == [stripe[s] EXCEPT !.end = @ + Period, !.status = "past_due"]
             types == <<"failed", "updated">>
  <2>1. Moves(s, new, types) /\ Renewable(s)
    BY <1>6 DEF RenewalFails
  <2>2. new = [stripe[s] EXCEPT !.end = stripe[s].end + Period, !.status = "past_due"]
    OBVIOUS
  <2>3. types \in {<<"paid", "updated">>, <<"failed", "updated">>}
    OBVIOUS
  <2> HIDE DEF new, types
  <2>4. QED
    BY <1>2, <1>4, <2>1, <2>2, <2>3
<1>7. CASE Collects(s) \/ GivesUp(s) \/ Deletes(s)
  <2>1. PICK status \in {"active", "past_due", "unpaid", "canceled"},
             types \in {<<"paid", "updated">>, <<"updated">>, <<"deleted">>} :
          Moves(s, [stripe[s] EXCEPT !.status = status], types)
    BY <1>7 DEF Collects, GivesUp, Deletes
  <2>2. stripe[s].status # "none"
    BY <1>7 DEF Collects, GivesUp, Deletes
  <2>3. \/ types \in {<<"paid", "updated">>, <<"failed", "updated">>}
        \/ types \in {<<"updated">>, <<"deleted">>}
    BY <2>1
  <2> DEFINE new == [stripe[s] EXCEPT !.status = status]
  <2>4. Moves(s, new, types) /\ new = [stripe[s] EXCEPT !.status = status]
    BY <2>1
  <2> HIDE DEF new
  <2>5. QED
    BY <1>3, <1>4, <2>1, <2>2, <2>3, <2>4
<1>8. QED
  BY <1>5, <1>6, <1>7

LEMMA PayRefunds ==
    ASSUME RefundsInv, PaymentsInv', NEW s \in Sub, NEW i \in 1 .. Len(rows), Pay(i, s)
    PROVE  RefundsInv'
<1> DEFINE seq == PaidEvents(i, s)
           n == Cardinality(events)
<1>0. /\ BillingTypes /\ EventsAreOne /\ StripeTypes /\ EventTypes /\ TableTypes
      /\ i \in 1 .. MaxRows
  BY RowsLength, BillingAssumption DEF RefundsInv, PaymentsInv, BillingTypes, TableTypes
<1>1. /\ stripe[s].status = "none" /\ stripe' = [stripe EXCEPT ![s] = PaidSub(i, s)] /\ Emit(seq)
      /\ UNCHANGED <<refunded, payments, handling>>
  BY PaySteps DEF Quietly, tableVars
<1>2. Len(seq) = 3
  BY DEF PaidEvents
<1> HIDE DEF seq
<1>3. NextInvoice \in 1 .. MaxEvents
  BY <1>0, <1>1, <1>2, EmitNext
<1>4. PaidSub(i, s).status # "none" /\ PaidSub(i, s).invoice = n + 1
  <2>1. stripe[s] \in StripeSub
    BY <1>0, SubAt
  <2>2. PaidSub(i, s).invoice = NextInvoice
    BY <2>1 DEF PaidSub, StripeSub
  <2>3. QED
    BY <1>0, <1>3, <2>2, PaidSubTyped DEF NextInvoice
<1>5. /\ DOMAIN seq = 1 .. Len(seq) /\ \A k \in 1 .. Len(seq) : WellFormed(seq[k])
      /\ seq[1].type = "checkout" /\ seq[2].type = "updated" /\ seq[3].type = "paid"
  BY <1>0, <1>2, <1>3, PaidEventsFormed DEF seq
<1>6. \A k \in 1 .. Len(seq) : k \in {1, 2, 3}
  BY <1>2
<1>7. NoRefundCame
  <2>1. \A k \in DOMAIN seq : WellFormed(seq[k]) /\ seq[k].type # "refund"
    BY <1>5, <1>6
  <2>2. QED
    BY <1>1, <2>1, EmitNone
<1>8. Cardinality(events') = n + 3 /\ n \in Nat
  <2>1. Len(seq) \in Nat /\ DOMAIN seq = 1 .. Len(seq)
    BY <1>2, <1>5
  <2>2. Cardinality(events') = Cardinality(events) + Len(seq)
    BY <1>0, <1>1, <1>5, <2>1, EmitCounts
  <2>3. QED
    BY <1>0, <1>2, <2>2, EventCount
<1> HIDE DEF n
<1>9. \A q \in Sub : stripe'[q] = IF q = s THEN PaidSub(i, s) ELSE stripe[q]
  BY <1>0, <1>1 DEF StripeTypes
<1>10. \A q \in Sub : stripe[q].invoice \in Nat /\ stripe[q].invoice <= n
  BY <1>0, SubAt, BillingAssumption DEF RefundsInv, InvoicesApart, StripeSub, n
<1>11. RefundsKnown'
  <2>1. ASSUME NEW e \in events, e.type = "refund" PROVE e.sub \in Sub /\ e.sub # s
    BY <1>1, <2>1, RefundFields
  <2>2. QED
    BY <1>1, <1>7, <1>9, <2>1 DEF RefundsInv, RefundsKnown, NoRefundCame
<1>12. InvoicesApart'
  <2>1. \A q \in Sub : /\ stripe'[q].status = "none" <=> stripe'[q].invoice = 0
                       /\ stripe'[q].invoice <= Cardinality(events')
    BY <1>4, <1>8, <1>9, <1>10 DEF RefundsInv, InvoicesApart
  <2>2. ASSUME NEW q \in Sub, NEW r \in Sub, stripe'[q].invoice = stripe'[r].invoice, stripe'[q].invoice # 0
        PROVE  q = r
    BY <1>4, <1>8, <1>9, <1>10, <2>2 DEF RefundsInv, InvoicesApart
  <2>3. QED
    BY <2>1, <2>2 DEF InvoicesApart
<1>13. RefundCommits'
  BY <1>1, RefundsSame DEF RefundsInv, RefundCommits
<1>14. ASSUME NEW p \in payments, p.status = "refunded" PROVE p.invoice \in Nat /\ p.invoice <= n
  BY <1>0, <1>14, BillingAssumption DEF RefundsInv, RefundsOld, TableTypes, Payment, n
<1>15. RefundsOld'
  BY <1>1, <1>8, <1>14 DEF RefundsOld
<1>16. RefundsAddUp'
  <2>1. RecordedRefunds(n + 1) = 0
    <3> DEFINE f == [p \in payments |-> p.amount]
               S == {p \in payments : p.invoice = n + 1 /\ p.status = "refunded"}
    <3>1. S = {}
      BY <1>8, <1>14
    <3>2. RecordedRefunds(n + 1) = SumFunctionOnSet(f, S)
      BY DEF RecordedRefunds
    <3>3. IsFiniteSet(S) /\ \A x \in S : f[x] = 0
      BY <3>1, FS_EmptySet
    <3> HIDE DEF f, S
    <3>4. QED
      BY <3>2, <3>3, SumOfNothing
  <2>2. refunded[s] \in Nat
    BY <1>0 DEF StripeTypes
  <2>3. \A v : RecordedRefunds(v)' = RecordedRefunds(v)
    BY <1>1, RefundsSame
  <2>4. ASSUME NEW q \in Sub, stripe'[q].invoice # 0
        PROVE  RecordedRefunds(stripe[q].invoice)' <= refunded'[q]
    <3>1. RecordedRefunds(stripe[q].invoice)' = RecordedRefunds(stripe'[q].invoice)
      BY <1>1 DEF RecordedRefunds
    <3>2. CASE q = s
      BY <1>1, <1>4, <1>9, <2>1, <2>2, <3>1, <3>2
    <3>3. CASE q # s
      BY <1>1, <1>9, <2>4, <3>1, <3>3 DEF RefundsInv, RefundsAddUp
    <3>4. QED
      BY <3>2, <3>3
  <2>5. QED
    BY <2>4 DEF RefundsAddUp
<1>17. QED
  BY <1>11, <1>12, <1>13, <1>15, <1>16 DEF RefundsInv

\* A refund is told of with the new sum, which the older events stay below.
LEMMA RefundRefunds ==
    ASSUME RefundsInv, PaymentsInv', NEW s \in Sub, Refund(s)
    PROVE  RefundsInv'
<1> DEFINE a == About("refund", s, stripe[s])
           e == [a EXCEPT !.total = refunded[s] + 1, !.invoice = stripe[s].invoice]
<1>0. /\ BillingTypes /\ StripeTypes /\ EventTypes /\ ClockTypes /\ TableTypes
  BY DEF RefundsInv, PaymentsInv, BillingTypes
<1>1. /\ stripe[s].status # "none" /\ refunded' = [refunded EXCEPT ![s] = @ + 1]
      /\ Emit(<<e>>) /\ UNCHANGED <<stripe, payments, handling>>
  BY DEF Refund, Quietly, tableVars
<1>2. NextInvoice \in 1 .. MaxEvents /\ stripe[s] \in StripeSub
  BY <1>0, <1>1, EmitOne, SubAt
<1>3. a \in Event /\ a.sub = s
  BY <1>0, <1>1, <1>2, AboutFields DEF EventType
<1> HIDE DEF a
<1>4. e.sub = s /\ e.total = refunded[s] + 1 /\ e.invoice = stripe[s].invoice
  BY <1>3 DEF Event
<1>5. Numbered(e, Cardinality(events) + 1).sub = s
      /\ Numbered(e, Cardinality(events) + 1).total = refunded[s] + 1
      /\ Numbered(e, Cardinality(events) + 1).invoice = stripe[s].invoice
  BY <1>3 DEF Numbered, Event
<1> DEFINE new == Numbered(e, Cardinality(events) + 1)
<1>6. events' = events \cup {new}
  <2> DEFINE seq == <<e>>
  <2>1. Emit(seq) /\ DOMAIN seq = {1} /\ seq[1] = e
    BY <1>1
  <2> HIDE DEF seq, e
  <2>2. events' = events \cup {Numbered(seq[k], Cardinality(events) + k) : k \in DOMAIN seq}
    BY <2>1 DEF Emit, Numbered
  <2>3. QED
    BY <2>1, <2>2
<1>7. new.sub = s /\ new.total = refunded[s] + 1 /\ new.invoice = stripe[s].invoice
  BY <1>5
<1> HIDE DEF e, new
<1>8. \A q \in Sub : /\ refunded[q] \in Nat
                     /\ refunded'[q] = IF q = s THEN refunded[q] + 1 ELSE refunded[q]
  BY <1>0, <1>1 DEF StripeTypes
<1>9. \A d \in events : d.total \in Nat
  BY <1>0 DEF EventTypes, WellFormed, Event
<1>10. RefundsKnown'
  <2>1. stripe[s].invoice # 0
    BY <1>1 DEF RefundsInv, InvoicesApart
  <2>2. ASSUME NEW d \in events, d.type = "refund"
        PROVE  /\ d.sub \in Sub /\ d.invoice # 0 /\ d.invoice = stripe[d.sub].invoice
               /\ d.total <= refunded'[d.sub]
    BY <1>8, <1>9, <2>2, RefundFields
  <2>3. QED
    BY <1>1, <1>6, <1>7, <1>8, <2>1, <2>2 DEF RefundsKnown
<1>11. /\ Cardinality(events) \in Nat /\ Cardinality(events') \in Nat
       /\ Cardinality(events) <= Cardinality(events')
  BY <1>0, <1>6, EventsCounted DEF PaymentsInv
<1>12. \A q \in Sub : stripe[q].invoice \in Nat
  BY <1>0, SubAt, BillingAssumption DEF StripeSub
<1>13. InvoicesApart'
  BY <1>1, <1>11, <1>12 DEF RefundsInv, InvoicesApart
<1>14. RefundsOld'
  <2>1. \A p \in payments : p.invoice \in Nat
    BY <1>0, BillingAssumption DEF TableTypes, Payment
  <2>2. QED
    BY <1>1, <1>11, <2>1 DEF RefundsInv, RefundsOld
<1>15. ASSUME NEW v PROVE RecordedRefunds(v) \in Nat /\ RecordedRefunds(v)' = RecordedRefunds(v)
  BY <1>0, <1>1, RefundsAreNat, RefundsSame
<1>16. RefundsAddUp'
  <2>1. ASSUME NEW q \in Sub, stripe[q].invoice # 0
        PROVE  RecordedRefunds(stripe[q].invoice)' <= refunded'[q]
    <3>1. RecordedRefunds(stripe[q].invoice) <= refunded[q] /\ RecordedRefunds(stripe[q].invoice) \in Nat
      BY <1>15, <2>1 DEF RefundsInv, RefundsAddUp
    <3>2. RecordedRefunds(stripe[q].invoice)' = RecordedRefunds(stripe[q].invoice)
      BY <1>1 DEF RecordedRefunds
    <3>3. QED
      BY <1>8, <3>1, <3>2
  <2>2. QED
    BY <1>1, <2>1 DEF RefundsAddUp
<1>17. RefundCommits'
  <2>1. ASSUME NEW h \in Handler, handling[h].step = "commit", handling[h].effect.pay = "refunded"
        PROVE  /\ handling[h].event.type = "refund"
               /\ RecordedRefunds(handling[h].event.invoice) + handling[h].effect.amount
                    <= refunded'[handling[h].event.sub]
    <3> DEFINE w == handling[h]
    <3>1. /\ w.event.type = "refund"
          /\ RecordedRefunds(w.event.invoice) + w.effect.amount <= refunded[w.event.sub]
      BY <2>1 DEF RefundsInv, RefundCommits
    <3>2. w.event \in events /\ w \in Transaction
      BY <2>1, Committing DEF RefundsInv
    <3>3. w.event.sub \in Sub
      BY <3>1, <3>2, RefundFields
    <3>4. w.effect.amount \in Nat
      BY <3>2 DEF Transaction, EventEffect
    <3> HIDE DEF w
    <3>5. RecordedRefunds(w.event.invoice) \in Nat
      BY <1>15
    <3>6. RecordedRefunds(w.event.invoice) + w.effect.amount <= refunded'[w.event.sub]
      BY <1>8, <3>1, <3>3, <3>4, <3>5
    <3>7. QED
      BY <3>1, <3>6 DEF w
  <2>2. ASSUME NEW h \in Handler
        PROVE  RecordedRefunds(handling[h].event.invoice)' = RecordedRefunds(handling[h].event.invoice)
    BY <1>1 DEF RecordedRefunds
  <2>3. QED
    BY <1>1, <2>1, <2>2 DEF RefundCommits
<1>18. QED
  BY <1>10, <1>13, <1>14, <1>16, <1>17 DEF RefundsInv

LEMMA StripeRefunds ==
    ASSUME RefundsInv, PaymentsInv', Stripe
    PROVE  RefundsInv'
<1>1. ASSUME NEW s \in Sub, NEW i \in Ids, Pay(i, s) PROVE RefundsInv'
  BY <1>1, PayRefunds DEF Ids
<1>2. ASSUME NEW i \in Ids, SessionExpires(i) PROVE RefundsInv'
  <2>1. i \in 1 .. Len(rows) /\ BillingTypes
    BY DEF Ids, RefundsInv, PaymentsInv
  <2>2. UNCHANGED <<stripe, refunded, payments, handling>>
    BY <1>2, <2>1, SessionExpiresSteps DEF Quietly, tableVars
  <2>3. PICK e : WellFormed(e) /\ e.type = "expired" /\ Emit(<<e>>)
    BY <1>2, <2>1, SessionExpiresSteps
  <2>4. NoRefundCame
    <3> DEFINE seq == <<e>>
    <3>1. Emit(seq) /\ \A k \in DOMAIN seq : WellFormed(seq[k]) /\ seq[k].type # "refund"
      BY <2>3
    <3> HIDE DEF seq
    <3>2. QED
      BY <3>1, EmitNone
  <2>5. QED
    BY <2>2, <2>4, RefundsStay
<1>3. QED
  BY <1>1, <1>2, RenewalRefunds, RefundRefunds DEF Stripe

-----------------------------------------------------------------------------
(* Billing: webhooks                                                       *)

\* Only a refund records one, of what is new in its sum.
LEMMA EffectRefunds ==
    ASSUME NEW e, e.type \in EventType, NEW i, Effect(e, i).pay = "refunded"
    PROVE  /\ e.type = "refund"
           /\ Effect(e, i).amount = IF e.total > RecordedRefunds(e.invoice)
                                    THEN e.total - RecordedRefunds(e.invoice) ELSE 0
<1>1. NoEffect.pay = "none" /\ Rejected.pay = "none" /\ \A r, p, d : Put(r, p, d).pay = "none"
  BY DEF NoEffect, Rejected, Put
<1>2. CASE e.type = "checkout"
  <2>1. Effect(e, i) = ActivateCheckout(e, i)
    BY <1>2 DEF Effect
  <2>2. ActivateCheckout(e, i).pay = "none"
    BY <1>1 DEF ActivateCheckout
  <2>3. QED
    BY <2>1, <2>2
<1>3. CASE e.type = "expired"
  <2>1. Effect(e, i) = ExpireCheckout(e, i)
    BY <1>3 DEF Effect
  <2>2. ExpireCheckout(e, i).pay = "none"
    BY <1>1 DEF ExpireCheckout
  <2>3. QED
    BY <2>1, <2>2
<1>4. CASE e.type \in {"updated", "deleted"}
  <2>1. Effect(e, i) = UpdateSubscription(e, i)
    BY <1>4 DEF Effect
  <2>2. UpdateSubscription(e, i).pay = "none"
    BY <1>1 DEF UpdateSubscription
  <2>3. QED
    BY <2>1, <2>2
<1>5. CASE e.type \in {"failed", "paid"}
  <2>1. Effect(e, i) = UpdateInvoice(e, i)
    BY <1>5 DEF Effect
  <2>2. UpdateInvoice(e, i).pay # "refunded"
    BY <1>1 DEF UpdateInvoice, NoEffect
  <2>3. QED
    BY <2>1, <2>2
<1>6. CASE e.type = "refund"
  <2>1. Effect(e, i) = RecordRefund(e, i)
    BY <1>6 DEF Effect
  <2>2. RecordRefund(e, i).pay = "refunded" =>
          RecordRefund(e, i).amount = IF e.total > RecordedRefunds(e.invoice)
                                      THEN e.total - RecordedRefunds(e.invoice) ELSE 0
    BY <1>1 DEF RecordRefund, NoEffect
  <2>3. QED
    BY <1>6, <2>1, <2>2
<1>7. QED
  BY <1>2, <1>3, <1>4, <1>5, <1>6 DEF EventType

\* A handler moves on and commits nothing.
LEMMA HandlerRefunds ==
    ASSUME RefundsInv, PaymentsInv', NEW h \in Handler, NEW w,
           handling' = [handling EXCEPT ![h] = w],
           UNCHANGED <<stripe, events, refunded, payments>>,
           w.step = "commit" /\ w.effect.pay = "refunded" =>
               /\ w.event.type = "refund"
               /\ RecordedRefunds(w.event.invoice) + w.effect.amount <= refunded[w.event.sub]
    PROVE  RefundsInv'
<1>1. \A g \in Handler : handling'[g] = IF g = h THEN w ELSE handling[g]
  BY DEF RefundsInv, PaymentsInv, BillingTypes, HandlingTypes
<1>2. RefundCommits'
  <2>1. ASSUME NEW v PROVE RecordedRefunds(v)' = RecordedRefunds(v)
    BY RefundsSame
  <2>2. ASSUME NEW g \in Handler, handling'[g].step = "commit", handling'[g].effect.pay = "refunded"
        PROVE  /\ handling'[g].event.type = "refund"
               /\ RecordedRefunds(handling'[g].event.invoice) + handling'[g].effect.amount
                    <= refunded[handling'[g].event.sub]
    BY <1>1, <2>2 DEF RefundsInv, RefundCommits
  <2>3. ASSUME NEW g \in Handler
        PROVE  RecordedRefunds(handling[g].event.invoice)' = RecordedRefunds(handling'[g].event.invoice)
    BY DEF RecordedRefunds
  <2>4. QED
    BY <2>2, <2>3 DEF RefundCommits
<1>3. RefundsKnown' /\ InvoicesApart' /\ RefundsOld'
  BY DEF RefundsInv, RefundsKnown, InvoicesApart, RefundsOld
<1>4. RefundsAddUp'
  BY DEF RefundsInv, RefundsAddUp, RecordedRefunds
<1>5. QED
  BY <1>2, <1>3, <1>4 DEF RefundsInv

LEMMA ReceiveRefunds ==
    ASSUME RefundsInv, PaymentsInv', NEW h \in Handler, NEW e \in events, Receive(h, e)
    PROVE  RefundsInv'
<1> DEFINE w == [step |-> "received", event |-> e]
<1>1. handling' = [handling EXCEPT ![h] = w] /\ UNCHANGED <<stripe, events, refunded, payments>>
  BY DEF Receive, stripeVars, tableVars
<1>2. w.step # "commit"
  OBVIOUS
<1> HIDE DEF w
<1>3. QED
  BY <1>1, <1>2, HandlerRefunds

LEMMA FailRefunds ==
    ASSUME RefundsInv, PaymentsInv', NEW h \in Handler, Fail(h) \/ Skip(h)
    PROVE  RefundsInv'
<1>1. handling' = [handling EXCEPT ![h] = NoEvent] /\ UNCHANGED <<stripe, events, refunded, payments>>
  BY DEF Fail, Skip, stripeVars, tableVars
<1>2. QED
  BY <1>1, NoEventLight, HandlerRefunds

\* What a refund is about to record is what the recorded ones lack.
LEMMA BeginRefunds ==
    ASSUME RefundsInv, PaymentsInv', NEW h \in Handler, Begin(h)
    PROVE  RefundsInv'
<1> DEFINE e == handling[h].event
           w == Read(e)
           before == RecordedRefunds(e.invoice)
<1>1. /\ handling[h].step = "received" /\ handling' = [handling EXCEPT ![h] = w]
      /\ UNCHANGED <<stripe, events, refunded, payments>>
  BY DEF Begin, Read, stripeVars, tableVars
<1>2. e \in events /\ BillingTypes /\ TableTypes /\ EventTypes
  BY <1>1, Handling DEF RefundsInv, PaymentsInv, BillingTypes
<1> HIDE DEF e
<1>3. w.event = e /\ w.effect = Effect(e, Found(e)) /\ e \in Event
  BY <1>2, ReadTyped DEF WellFormed
<1> HIDE DEF w
<1>4. ASSUME w.effect.pay = "refunded"
      PROVE  e.type = "refund" /\ before + w.effect.amount <= refunded[e.sub]
  <2>1. /\ e.type = "refund"
        /\ w.effect.amount = IF e.total > before THEN e.total - before ELSE 0
    BY <1>3, <1>4, EffectRefunds DEF Event
  <2>2. e.sub \in Sub /\ e.invoice # 0 /\ e.invoice = stripe[e.sub].invoice /\ e.total <= refunded[e.sub]
    BY <1>2, <2>1, RefundFields
  <2>3. before <= refunded[e.sub]
    BY <2>2 DEF RefundsInv, RefundsAddUp
  <2>4. before \in Nat /\ e.total \in Nat /\ refunded[e.sub] \in Nat
    BY <1>2, <1>3, <2>2, RefundsAreNat DEF Event, BillingTypes, StripeTypes
  <2> HIDE DEF before
  <2>5. QED
    BY <2>1, <2>2, <2>3, <2>4
<1>5. QED
  BY <1>1, <1>3, <1>4, HandlerRefunds

\* A commit records its own refund; no other one of that invoice is waiting.
LEMMA WriteRefunds ==
    ASSUME RefundsInv, RefundsApart, PaymentsInv', NEW h \in Handler, handling[h].step = "commit",
           Write(h)
    PROVE  RefundsInv'
<1> DEFINE w == handling[h]
           q == [event |-> w.event.id, status |-> w.effect.pay,
                 invoice |-> w.event.invoice, amount |-> w.effect.amount]
<1>0. BillingTypes /\ TableTypes /\ StripeTypes /\ EventTypes /\ HandlingTypes
  BY DEF RefundsInv, PaymentsInv, BillingTypes
<1>1. /\ payments' = payments \cup Transactions(w) /\ handling' = [handling EXCEPT ![h] = NoEvent]
      /\ UNCHANGED <<stripe, events, refunded>>
  BY WriteSteps
<1>2. w \in Transaction /\ w.event \in events
  BY Committing DEF RefundsInv
<1>3. \A g \in Handler : handling'[g] = IF g = h THEN NoEvent ELSE handling[g]
  BY <1>0, <1>1 DEF HandlingTypes
<1>4. RefundsKnown' /\ InvoicesApart'
  BY <1>1 DEF RefundsInv, RefundsKnown, InvoicesApart
<1>5. CASE w.effect.pay = "none"
  <2>1. payments' = payments
    BY <1>1, <1>5 DEF Transactions
  <2>2. QED
    BY <1>1, <2>1, NoEventLight, HandlerRefunds
<1>6. CASE w.effect.pay # "none"
  <2>1. Transactions(w) = {q} /\ q \in Payment
    BY <1>2, <1>6, TransactionsTyped DEF Transactions
  <2>2. q.status = w.effect.pay /\ q.invoice = w.event.invoice /\ q.amount = w.effect.amount
    OBVIOUS
  <2>3. w.effect.pay = "refunded" =>
          /\ w.event.type = "refund"
          /\ RecordedRefunds(w.event.invoice) + w.effect.amount <= refunded[w.event.sub]
    BY DEF RefundsInv, RefundCommits
  <2>4. w.event.type = "refund" =>
          /\ w.event.sub \in Sub /\ w.event.invoice # 0
          /\ w.event.invoice = stripe[w.event.sub].invoice
          /\ w.event.invoice <= Cardinality(events)
    BY <1>2, RefundFields
  <2>5. ASSUME NEW g \in Handler, g # h, handling[g].step = "commit", handling[g].effect.pay = "refunded"
        PROVE  ~(q.invoice = handling[g].event.invoice /\ q.status = "refunded")
    <3>1. handling[g].event.type = "refund"
      BY <2>5 DEF RefundsInv, RefundCommits
    <3>2. QED
      BY <2>2, <2>3, <2>5, <3>1 DEF RefundsApart, Refunding
  <2> HIDE DEF q, w
  <2>6. payments' = payments \cup {q}
    BY <1>1, <2>1
  <2>7. ASSUME NEW v
        PROVE  /\ RecordedRefunds(v) \in Nat /\ RecordedRefunds(v)' \in Nat
               /\ RecordedRefunds(v)' <= RecordedRefunds(v) + q.amount
               /\ ~(q.invoice = v /\ q.status = "refunded") => RecordedRefunds(v)' = RecordedRefunds(v)
    BY <1>0, <2>1, <2>6, RefundAdds DEF TableTypes
  <2>8. RefundsOld'
    BY <1>1, <2>2, <2>3, <2>4, <2>6 DEF RefundsInv, RefundsOld
  <2>9. RefundsAddUp'
    <3>1. ASSUME NEW s \in Sub, stripe[s].invoice # 0
          PROVE  RecordedRefunds(stripe[s].invoice)' <= refunded[s]
      <4> DEFINE v == stripe[s].invoice
      <4>1. stripe'[s].invoice = v
        BY <1>1
      <4>2. CASE q.invoice = v /\ q.status = "refunded"
        <5>1. /\ w.event.type = "refund" /\ w.event.invoice = v /\ w.event.sub \in Sub
              /\ v = stripe[w.event.sub].invoice
          BY <2>2, <2>3, <2>4, <4>2
        <5>2. w.event.sub = s
          BY <3>1, <5>1 DEF RefundsInv, InvoicesApart
        <5>3. RecordedRefunds(v) + q.amount <= refunded[s]
          BY <2>2, <2>3, <4>2, <5>1, <5>2
        <5>4. RecordedRefunds(v)' = RecordedRefunds(stripe[s].invoice)'
          OBVIOUS
        <5>5. q.amount \in Nat /\ refunded[s] \in Nat
          BY <1>0, <2>1 DEF Payment, StripeTypes
        <5>6. RecordedRefunds(v)' \in Nat /\ RecordedRefunds(v) \in Nat
              /\ RecordedRefunds(v)' <= RecordedRefunds(v) + q.amount
          BY <2>7, <1>1 DEF RecordedRefunds
        <5> HIDE DEF v
        <5>7. QED
          BY <5>3, <5>4, <5>5, <5>6
      <4>3. CASE ~(q.invoice = v /\ q.status = "refunded")
        <5>1. RecordedRefunds(v)' = RecordedRefunds(v)
          BY <1>1, <2>7, <4>3 DEF RecordedRefunds
        <5>2. QED
          BY <3>1, <5>1 DEF RefundsInv, RefundsAddUp
      <4>4. QED
        BY <4>2, <4>3
    <3>2. QED
      BY <1>1, <3>1 DEF RefundsAddUp
  <2>10. RefundCommits'
    <3>1. ASSUME NEW g \in Handler, handling'[g].step = "commit", handling'[g].effect.pay = "refunded"
          PROVE  /\ handling'[g].event.type = "refund"
                 /\ RecordedRefunds(handling[g].event.invoice)' + handling'[g].effect.amount
                      <= refunded'[handling'[g].event.sub]
                 /\ handling'[g] = handling[g]
      <4>1. g # h /\ handling'[g] = handling[g]
        BY <1>3, <3>1, NoEventLight
      <4>2. ~(q.invoice = handling[g].event.invoice /\ q.status = "refunded")
        BY <2>5, <3>1, <4>1
      <4>3. RecordedRefunds(handling[g].event.invoice)' = RecordedRefunds(handling[g].event.invoice)
        <5>1. PICK v : v = handling[g].event.invoice
          OBVIOUS
        <5>2. RecordedRefunds(v)' = RecordedRefunds(v)
          BY <2>7, <4>2, <5>1
        <5>3. RecordedRefunds(handling[g].event.invoice)' = RecordedRefunds(v)'
          BY <4>1, <5>1 DEF RecordedRefunds
        <5>4. QED
          BY <5>1, <5>2, <5>3
      <4>4. QED
        BY <1>1, <3>1, <4>1, <4>3 DEF RefundsInv, RefundCommits
    <3>2. QED
      BY <3>1 DEF RefundCommits, RecordedRefunds
  <2>11. QED
    BY <1>4, <2>8, <2>9, <2>10 DEF RefundsInv
<1>7. QED
  BY <1>5, <1>6

LEMMA WebhookRefunds ==
    ASSUME RefundsInv, RefundsApart, PaymentsInv', Webhook
    PROVE  RefundsInv'
<1>1. ASSUME NEW h \in Handler, Commit(h) PROVE RefundsInv'
  <2>1. handling[h].step = "commit" /\ (Fail(h) \/ Skip(h) \/ Write(h))
    BY <1>1 DEF Commit
  <2>2. QED
    BY <2>1, FailRefunds, WriteRefunds
<1>2. QED
  BY <1>1, ReceiveRefunds, BeginRefunds, FailRefunds DEF Webhook, Dies

LEMMA RefundsInvInit == BillingInit => RefundsInv
<1> SUFFICES ASSUME BillingInit PROVE RefundsInv
  OBVIOUS
<1>1. /\ events = {} /\ payments = {} /\ \A h \in Handler : handling[h] = NoEvent
      /\ \A s \in Sub : stripe[s].status = "none" /\ stripe[s].invoice = 0
      /\ PaymentsInv
  BY PaymentsInvInit DEF BillingInit
<1>2. Cardinality(events) = 0
  BY <1>1, FS_EmptySet
<1>3. RefundsKnown /\ InvoicesApart /\ RefundsOld /\ RefundsAddUp
  BY <1>1, <1>2 DEF RefundsKnown, InvoicesApart, RefundsOld, RefundsAddUp
<1>4. RefundCommits
  BY <1>1, NoEventLight DEF RefundCommits
<1>5. QED
  BY <1>1, <1>3, <1>4 DEF RefundsInv

LEMMA RefundsInvKept == RefundsInv /\ RefundsApart /\ [BillingNext]_billingVars => RefundsInv'
<1> SUFFICES ASSUME RefundsInv, RefundsApart, [BillingNext]_billingVars PROVE RefundsInv'
  OBVIOUS
<1>1. PaymentsInv'
  BY PaymentsInvKept DEF RefundsInv
<1>2. CASE UNCHANGED billingVars
  <2>1. UNCHANGED <<stripe, events, refunded, payments, handling>>
    BY <1>2 DEF billingVars, stripeVars, tableVars
  <2>2. QED
    BY <1>1, <2>1, StillRefunds
<1>3. CASE Tick
  <2>1. UNCHANGED <<stripe, events, refunded, payments, handling>>
    BY <1>3 DEF Tick, stripeVars, tableVars
  <2>2. QED
    BY <1>1, <2>1, StillRefunds
<1>4. QED
  BY <1>1, <1>2, <1>3, OwnerRefunds, StripeRefunds, WebhookRefunds DEF BillingNext

\* Refunds handled one after the other, in whatever order Stripe's events arrive
\* and however often they are repeated, never add up to more than was refunded of
\* the charge (_record_refund_transaction). Other webhooks, requests and refunds of
\* other charges may overlap as they like.
THEOREM RefundsCounted == BillingSpec /\ []RefundsApart => []RefundsAddUp
<1>1. RefundsInv => RefundsAddUp
  BY DEF RefundsInv
<1>2. QED
  BY <1>1, RefundsInvInit, RefundsInvKept, PTL DEF BillingSpec

-----------------------------------------------------------------------------
(* The four parts together                                                 *)

\* What each part keeps to, in the behaviours that are of it.
AccountsInv ==
    /\ part = "billing" => BillingTypes
    /\ part = "sessions" => SessionsInv
    /\ part = "team" => TeamTypeOK
    /\ part = "quotas" => QuotaInv

LEMMA AccountsInvInit == AccountsInit => AccountsInv
  BY BillingTypesInit, InitHolds, TypesInit, QuotaInvInit DEF AccountsInit, AccountsInv

\* The order in which a run takes the steps of billing leaves steps out.
LEMMA BillingStepIs == BillingStep => BillingNext
<1> SUFFICES ASSUME BillingStep PROVE BillingNext
  OBVIOUS
<1>1. Received \subseteq Handler /\ Authorised \subseteq Caller
  BY DEF Received, Authorised
<1>2. CASE \E h \in Received : Begin(h)
  BY <1>1, <1>2 DEF BillingNext, Webhook
<1>3. CASE \E r \in Authorised : OwnerActs(r)
  BY <1>1, <1>3 DEF BillingNext, Owner
<1> QED
  BY <1>2, <1>3 DEF BillingStep

LEMMA AccountsInvKept == AccountsInv /\ [AccountsNext]_accountVars => AccountsInv'
<1> SUFFICES ASSUME AccountsInv, [AccountsNext]_accountVars PROVE AccountsInv'
  OBVIOUS
<1>1. part' = part
  BY DEF AccountsNext, accountVars
<1>2. ASSUME part = "billing" PROVE BillingTypes'
  <2>1. [BillingNext]_billingVars
    BY <1>2, BillingStepIs DEF AccountsNext, accountVars
  <2> QED
    BY <1>2, <2>1, BillingTypesKept DEF AccountsInv
<1>3. ASSUME part = "sessions" PROVE SessionsInv'
  <2>1. [SessionsNext]_sessionVars
    BY <1>3 DEF AccountsNext, accountVars
  <2> QED
    BY <1>3, <2>1, NextKeepsInv DEF AccountsInv
<1>4. ASSUME part = "team" PROVE TeamTypeOK'
  <2>1. [TeamNext]_teamVars
    BY <1>4 DEF AccountsNext, accountVars
  <2> QED
    BY <1>4, <2>1, TypesNext DEF AccountsInv
<1>5. ASSUME part = "quotas" PROVE QuotaInv'
  <2>1. [QuotasNext]_quotaVars
    BY <1>5 DEF AccountsNext, accountVars
  <2> QED
    BY <1>5, <2>1, QuotaInvKept DEF AccountsInv
<1> QED
  BY <1>1, <1>2, <1>3, <1>4, <1>5 DEF AccountsInv

\* In every behaviour of the accounts each variable keeps to what its table, the
\* provider or the request can hold, whichever part the behaviour is of: the row
\* of a webhook event, the answer of Stripe, the session, the invitation, the
\* usage of a day (AccountsTypeOK).
THEOREM AccountsTyped == AccountsSpec => []AccountsTypeOK
<1>1. AccountsInv => AccountsTypeOK
  BY BillingTypesMean, SessionsInvMeans, QuotaInvMeans DEF AccountsInv, AccountsTypeOK
<1> QED
  BY <1>1, AccountsInvInit, AccountsInvKept, PTL DEF AccountsSpec
=============================================================================
