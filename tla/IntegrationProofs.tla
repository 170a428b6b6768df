-------------------------- MODULE IntegrationProofs --------------------------
(***************************************************************************)
(* Publishing: that the project's records match what was asked and done,   *)
(* for any number of requests, files and repositories and any length of    *)
(* the lists. A request that talks to a destination has the process to     *)
(* itself (Alone), so what it read of the two lists is what they still     *)
(* hold when it writes them back (ReadIsCurrent), and its branch holds the *)
(* files it has put there and no other (BranchHolds). A list that is cut   *)
(* each time an entry is added holds the last entries of all (CutThenAdd). *)
(*                                                                         *)
(* SearchData: that first-party figures stay with the project they were    *)
(* authorized for, and that a token of Analytics is given back, for any    *)
(* number of requests, users, projects and properties. A code is exchanged *)
(* once, so one request at most ever asks Google what an authorization may *)
(* read, and nothing was built on that authorization before it did         *)
(* (Unheard). What Google listed therefore only grows, and so does every   *)
(* fact that is about it.                                                  *)
(***************************************************************************)
EXTENDS Publishing, SearchData, SequenceTheorems, FiniteSetTheorems, TLAPS

-----------------------------------------------------------------------------
(* Publishing                                                              *)

FileState == [version : 1 .. MaxEdits + 1, deployable : BOOLEAN]
BranchName == {"citeaura/t-1", "citeaura/u"}
PullState == {"open", "merged", "closed"}
Repository == Repos \cup {""}
Content == UNION {[F -> FileState] : F \in SUBSET Files}
Branches == UNION {[B -> Content] : B \in SUBSET BranchName}
Pull == [branch : BranchName, files : Content, asked : SUBSET Files, state : PullState]
Row == [repo : Repository, number : Nat, status : PullState]
Entry == [platform : Channels \cup {""}, path : Files, ok : BOOLEAN]
Place == {"away", "keep", "drop", "branch", "upload", "record", "ask", "post", "note"}
Request == [at : Place, ticket : Tickets \cup {""}, paths : Seq(Files), repo : Repository,
            number : Nat, seen : Seq(Row) \cup Seq(Entry), next : Nat \ {0},
            changed : BOOLEAN, platform : Channels \cup {""}]

Types ==
    /\ asset \in [Files -> FileState]
    /\ channels \in [repo : Repository, site : {"site", "private", "bad", ""}]
    /\ client \in [Clients -> Request]
    /\ remote \in [Repos -> [branches : Branches, pulls : Seq(Pull)]]
    /\ rows \in Seq(Row) /\ opened \in Seq(Row)
    /\ posts \in Seq(Entry) /\ answered \in Seq(Entry)

Talking == {"branch", "upload", "record", "ask", "post", "note"}

\* One request talks to destinations at a time.
Alone == \A c \in Clients : client[c].at \in Talking => alone = c

\* The requests keep what their steps rely on.
RequestsFit ==
    \A c \in Clients :
        /\ client[c].at \in {"branch", "upload", "record", "ask"} => client[c].repo \in Repos
        /\ client[c].at \in {"branch", "upload"} => client[c].ticket \in Tickets
        /\ client[c].at = "branch" => client[c].next = 1
        /\ client[c].at \in {"post", "note"} => client[c].paths # <<>>

Numbers(s) == [n \in DOMAIN s |-> s[n].number]

\* What a request read of a list is what the list holds.
ReadIsCurrent ==
    \A c \in Clients :
        /\ client[c].at = "ask" => client[c].seen \in Seq(Row) /\ Numbers(client[c].seen) = Numbers(rows)
        /\ client[c].at = "note" => client[c].seen = posts

\* The branch of a request holds what the request has put there.
BranchHolds ==
    \A c \in Clients : client[c].at = "upload" =>
        /\ client[c].next <= Len(client[c].paths) + 1
        /\ Named(c) \in DOMAIN OnRemote(c).branches
        /\ DOMAIN OnRemote(c).branches[Named(c)] =
               {client[c].paths[n] : n \in 1 .. client[c].next - 1}

PullsHold ==
    \A r \in Repos : \A n \in DOMAIN remote[r].pulls :
        DOMAIN remote[r].pulls[n].files = remote[r].pulls[n].asked

ListsHold ==
    /\ Numbers(rows) = Numbers(LastOf(PullsKept, opened))
    /\ posts = LastOf(PostsKept, answered)

PublishingInv == /\ Types
                 /\ Alone
                 /\ RequestsFit
                 /\ ReadIsCurrent
                 /\ BranchHolds
                 /\ PullsHold
                 /\ ListsHold

-----------------------------------------------------------------------------
(* Lists that are cut.                                                     *)

\* The last k entries of a list, or all of them.
LEMMA LastOfList ==
    ASSUME NEW S, NEW k \in Nat \ {0}, NEW s \in Seq(S)
    PROVE  /\ LastOf(k, s) \in Seq(S)
           /\ Len(LastOf(k, s)) = IF Len(s) > k THEN k ELSE Len(s)
           /\ \A i \in 1 .. Len(LastOf(k, s)) :
                 LastOf(k, s)[i] = s[i + (Len(s) - Len(LastOf(k, s)))]
<1> DEFINE m == IF Len(s) > k THEN Len(s) - k + 1 ELSE 1
           n == Len(s)
<1>1. n \in Nat /\ m \in Nat /\ m >= 1 /\ m <= n + 1
  BY LenProperties
<1>2. \A i \in m .. n : s[i] \in S
  BY <1>1, ElementOfSeq
<1>3. LastOf(k, s) = SubSeq(s, m, n)
  BY DEF LastOf
<1>4. n - m + 1 = IF n > k THEN k ELSE n
  BY <1>1
<1> HIDE DEF m, n
<1>5. /\ SubSeq(s, m, n) \in Seq(S)
      /\ Len(SubSeq(s, m, n)) = n - m + 1
      /\ \A i \in 1 .. n - m + 1 : SubSeq(s, m, n)[i] = s[m + i - 1]
  <2>1. m \in Int /\ n \in Int
    BY <1>1
  <2>2. /\ SubSeq(s, m, n) \in Seq(S)
        /\ Len(SubSeq(s, m, n)) = IF m <= n THEN n - m + 1 ELSE 0
        /\ \A i \in 1 .. n - m + 1 : SubSeq(s, m, n)[i] = s[m + i - 1]
    BY <1>2, <2>1, SubSeqProperties
  <2>3. QED
    BY <1>1, <2>2
<1>6. \A i \in 1 .. n - m + 1 : m + i - 1 = i + (n - (n - m + 1))
  BY <1>1
<1>7. QED
  BY <1>3, <1>4, <1>5, <1>6 DEF n

\* A list that is cut whenever an entry is added holds the last entries of all.
LEMMA CutThenAdd ==
    ASSUME NEW S, NEW k \in Nat \ {0}, NEW s \in Seq(S), NEW e \in S
    PROVE  Noted(k, LastOf(k, s), e) = LastOf(k, Append(s, e))
<1> DEFINE c == LastOf(k, s)
           x == Append(c, e)
           y == Append(s, e)
           a == LastOf(k, x)
           b == LastOf(k, y)
<1>1. /\ c \in Seq(S)
      /\ Len(c) = IF Len(s) > k THEN k ELSE Len(s)
      /\ \A i \in 1 .. Len(c) : c[i] = s[i + (Len(s) - Len(c))]
  BY LastOfList
<1>2. Len(s) \in Nat /\ Len(c) \in Nat
  BY <1>1, LenProperties
<1>3. /\ x \in Seq(S) /\ Len(x) = Len(c) + 1 /\ x[Len(c) + 1] = e
      /\ \A i \in 1 .. Len(c) : x[i] = c[i]
  BY <1>1, AppendProperties
<1>4. /\ y \in Seq(S) /\ Len(y) = Len(s) + 1 /\ y[Len(s) + 1] = e
      /\ \A i \in 1 .. Len(s) : y[i] = s[i]
  BY AppendProperties
<1> HIDE DEF c, x, y
<1>5. /\ a \in Seq(S)
      /\ Len(a) = IF Len(x) > k THEN k ELSE Len(x)
      /\ \A i \in 1 .. Len(a) : a[i] = x[i + (Len(x) - Len(a))]
  BY <1>3, LastOfList
<1>6. /\ b \in Seq(S)
      /\ Len(b) = IF Len(y) > k THEN k ELSE Len(y)
      /\ \A i \in 1 .. Len(b) : b[i] = y[i + (Len(y) - Len(b))]
  BY <1>4, LastOfList
<1> HIDE DEF a, b
<1>7. Len(a) = Len(b) /\ Len(a) \in Nat
  BY <1>1, <1>2, <1>3, <1>4, <1>5, <1>6
<1>8. ASSUME NEW i \in 1 .. Len(a)
      PROVE  a[i] = b[i]
  <2> DEFINE f == i + (Len(x) - Len(a))
             g == i + (Len(y) - Len(b))
  <2>1. a[i] = x[f] /\ b[i] = y[g]
    BY <1>5, <1>6, <1>7
  <2>2. /\ f \in 1 .. Len(c) + 1 /\ g \in 1 .. Len(s) + 1
        /\ g = f + (Len(s) - Len(c))
    <3>1. /\ i \in Nat /\ i >= 1 /\ i <= Len(a)
          /\ Len(a) <= Len(c) + 1 /\ Len(a) <= Len(s) + 1
      BY <1>1, <1>2, <1>3, <1>5, <1>7
    <3>2. f = i + (Len(c) + 1 - Len(a)) /\ g = i + (Len(s) + 1 - Len(a))
      BY <1>3, <1>4, <1>7
    <3> HIDE DEF f, g
    <3>3. QED
      BY <1>2, <1>7, <3>1, <3>2
  <2> HIDE DEF f, g
  <2>3. CASE f = Len(c) + 1
    BY <1>2, <1>3, <1>4, <2>1, <2>2, <2>3
  <2>4. CASE f \in 1 .. Len(c)
    <3>1. g \in 1 .. Len(s)
      BY <1>1, <1>2, <2>2, <2>4
    <3>2. x[f] = s[g]
      BY <1>1, <1>3, <2>2, <2>4
    <3>3. QED
      BY <1>4, <2>1, <3>1, <3>2
  <2>5. QED
    BY <1>2, <2>2, <2>3, <2>4
<1>9. a = b
  BY <1>5, <1>6, <1>7, <1>8, SeqEqual
<1>10. QED
  BY <1>9 DEF Noted, a, b, x, y, c

LEMMA SameRange ==
    ASSUME NEW m \in Nat, NEW n \in Nat, 1 .. m = 1 .. n
    PROVE  m = n
<1>1. \A x : x \in 1 .. m <=> x \in 1 .. n
  OBVIOUS
<1>2. m < n => n \notin 1 .. m /\ n \in 1 .. n
  OBVIOUS
<1>3. n < m => m \notin 1 .. n /\ m \in 1 .. m
  OBVIOUS
<1>4. QED
  BY <1>1, <1>2, <1>3

\* The numbers of two lists are the same, entry by entry.
LEMMA SameNumbers ==
    ASSUME NEW s \in Seq(Row), NEW t \in Seq(Row)
    PROVE  Numbers(s) = Numbers(t)
             <=> Len(s) = Len(t) /\ \A i \in 1 .. Len(s) : s[i].number = t[i].number
<1>1. /\ DOMAIN s = 1 .. Len(s) /\ DOMAIN t = 1 .. Len(t)
      /\ Len(s) \in Nat /\ Len(t) \in Nat
  BY LenProperties
<1>2. ASSUME Numbers(s) = Numbers(t)
      PROVE  Len(s) = Len(t) /\ \A i \in 1 .. Len(s) : s[i].number = t[i].number
  <2>1. DOMAIN Numbers(s) = 1 .. Len(s) /\ DOMAIN Numbers(t) = 1 .. Len(t)
    BY <1>1 DEF Numbers
  <2>2. 1 .. Len(s) = 1 .. Len(t)
    BY <1>2, <2>1
  <2>3. Len(s) = Len(t)
    BY <1>1, <2>2, SameRange
  <2>4. ASSUME NEW i \in 1 .. Len(s)
        PROVE  s[i].number = t[i].number
    <3>1. Numbers(s)[i] = s[i].number /\ Numbers(t)[i] = t[i].number
      BY <1>1, <2>3 DEF Numbers
    <3>2. QED
      BY <1>2, <3>1
  <2>5. QED
    BY <2>3, <2>4
<1>3. ASSUME Len(s) = Len(t), \A i \in 1 .. Len(s) : s[i].number = t[i].number
      PROVE  Numbers(s) = Numbers(t)
  BY <1>1, <1>3 DEF Numbers
<1>4. QED
  BY <1>2, <1>3

LEMMA CutNumbers ==
    ASSUME NEW k \in Nat \ {0}, NEW s \in Seq(Row), NEW t \in Seq(Row), NEW e \in Row,
           Numbers(s) = Numbers(t)
    PROVE  Numbers(LastOf(k, Append(s, e))) = Numbers(LastOf(k, Append(t, e)))
<1> DEFINE x == Append(s, e)
           y == Append(t, e)
           a == LastOf(k, x)
           b == LastOf(k, y)
<1>1. Len(s) = Len(t) /\ Len(s) \in Nat /\ \A i \in 1 .. Len(s) : s[i].number = t[i].number
  BY SameNumbers, LenProperties
<1>2. /\ x \in Seq(Row) /\ Len(x) = Len(s) + 1 /\ x[Len(s) + 1] = e
      /\ \A i \in 1 .. Len(s) : x[i] = s[i]
  BY AppendProperties
<1>3. /\ y \in Seq(Row) /\ Len(y) = Len(t) + 1 /\ y[Len(t) + 1] = e
      /\ \A i \in 1 .. Len(t) : y[i] = t[i]
  BY AppendProperties
<1> HIDE DEF x, y
<1>4. \A i \in 1 .. Len(x) : x[i].number = y[i].number
  BY <1>1, <1>2, <1>3
<1>5. /\ a \in Seq(Row)
      /\ Len(a) = IF Len(x) > k THEN k ELSE Len(x)
      /\ \A i \in 1 .. Len(a) : a[i] = x[i + (Len(x) - Len(a))]
  BY <1>2, LastOfList
<1>6. /\ b \in Seq(Row)
      /\ Len(b) = IF Len(y) > k THEN k ELSE Len(y)
      /\ \A i \in 1 .. Len(b) : b[i] = y[i + (Len(y) - Len(b))]
  BY <1>3, LastOfList
<1> HIDE DEF a, b
<1>7. Len(a) = Len(b) /\ Len(x) = Len(y) /\ Len(a) \in Nat /\ Len(x) \in Nat /\ Len(a) <= Len(x)
  BY <1>1, <1>2, <1>3, <1>5, <1>6
<1>8. ASSUME NEW i \in 1 .. Len(a)
      PROVE  a[i].number = b[i].number
  <2>1. PICK f : f = i + (Len(x) - Len(a))
    OBVIOUS
  <2>2. f \in 1 .. Len(x)
    BY <1>7, <2>1
  <2>3. a[i] = x[f] /\ b[i] = y[f]
    BY <1>5, <1>6, <1>7, <2>1
  <2>4. QED
    BY <1>4, <2>2, <2>3
<1>9. Numbers(a) = Numbers(b)
  BY <1>5, <1>6, <1>7, <1>8, SameNumbers
<1>10. QED
  BY <1>9 DEF a, b, x, y

-----------------------------------------------------------------------------
(* What a destination holds after a call.                                  *)

Remote == [Repos -> [branches : Branches, pulls : Seq(Pull)]]
HoldAsked(R) ==
    \A r \in Repos : \A n \in DOMAIN R[r].pulls : DOMAIN R[r].pulls[n].files = R[r].pulls[n].asked

LEMMA BranchesAre ==
    ASSUME NEW B \in Branches
    PROVE  DOMAIN B \subseteq BranchName /\ B \in [DOMAIN B -> Content]
<1>1. PICK D \in SUBSET BranchName : B \in [D -> Content]
  BY DEF Branches
<1>2. QED
  BY <1>1

LEMMA ContentIs ==
    ASSUME NEW C \in Content
    PROVE  DOMAIN C \subseteq Files /\ C \in [DOMAIN C -> FileState]
<1>1. PICK D \in SUBSET Files : C \in [D -> FileState]
  BY DEF Content
<1>2. QED
  BY <1>1

WithBranches(R, r, B) == [R EXCEPT ![r].branches = B]
WithPulls(R, r, P) == [R EXCEPT ![r].pulls = P]

\* One repository changes its branches ...
LEMMA BranchesChange ==
    ASSUME NEW R \in Remote, NEW r \in Repos, NEW B \in Branches, HoldAsked(R),
           NEW S, S = WithBranches(R, r, B)
    PROVE  S \in Remote /\ HoldAsked(S) /\ S[r].branches = B
<1> DEFINE T == [R[r] EXCEPT !.branches = B]
<1>1. R[r] \in [branches : Branches, pulls : Seq(Pull)]
  BY DEF Remote
<1>2. T \in [branches : Branches, pulls : Seq(Pull)] /\ T.branches = B /\ T.pulls = R[r].pulls
  BY <1>1
<1>3. S = [R EXCEPT ![r] = T]
  BY DEF WithBranches
<1> HIDE DEF T
<1>4. S \in Remote /\ S[r] = T /\ \A q \in Repos : q # r => S[q] = R[q]
  BY <1>2, <1>3 DEF Remote
<1>5. HoldAsked(S)
  BY <1>2, <1>4 DEF HoldAsked
<1>6. QED
  BY <1>2, <1>3, <1>4, <1>5

\* ... or its pull requests.
LEMMA PullsChange ==
    ASSUME NEW R \in Remote, NEW r \in Repos, NEW P \in Seq(Pull), HoldAsked(R),
           \A n \in DOMAIN P : DOMAIN P[n].files = P[n].asked,
           NEW S, S = WithPulls(R, r, P)
    PROVE  /\ S \in Remote /\ HoldAsked(S)
           /\ \A q \in Repos : S[q].branches = R[q].branches
<1> DEFINE T == [R[r] EXCEPT !.pulls = P]
<1>1. R[r] \in [branches : Branches, pulls : Seq(Pull)]
  BY DEF Remote
<1>2. T \in [branches : Branches, pulls : Seq(Pull)] /\ T.pulls = P /\ T.branches = R[r].branches
  BY <1>1
<1>3. S = [R EXCEPT ![r] = T]
  BY DEF WithPulls
<1> HIDE DEF T
<1>4. S \in Remote /\ S[r] = T /\ \A q \in Repos : q # r => S[q] = R[q]
  BY <1>2, <1>3 DEF Remote
<1>5. HoldAsked(S)
  BY <1>2, <1>4 DEF HoldAsked
<1>6. \A q \in Repos : S[q].branches = R[q].branches
  BY <1>2, <1>4
<1>7. QED
  BY <1>3, <1>4, <1>5, <1>6

\* A branch is made where there was none.
LEMMA BranchMade ==
    ASSUME NEW B \in Branches, NEW b \in BranchName
    PROVE  LET M == [x \in DOMAIN B \cup {b} |-> IF x \in DOMAIN B THEN B[x] ELSE NoFiles]
           IN  M \in Branches /\ b \in DOMAIN M /\ (b \notin DOMAIN B => DOMAIN M[b] = {})
<1> DEFINE D == DOMAIN B \cup {b}
           M == [x \in D |-> IF x \in DOMAIN B THEN B[x] ELSE NoFiles]
<1>1. DOMAIN B \subseteq BranchName /\ B \in [DOMAIN B -> Content]
  BY BranchesAre
<1>2. NoFiles \in Content /\ DOMAIN NoFiles = {}
  <2>1. NoFiles \in [{} -> FileState]
    BY DEF NoFiles
  <2>2. NoFiles \in Content
    BY <2>1 DEF Content
  <2>3. DOMAIN NoFiles = {}
    BY <2>1
  <2>4. QED
    BY <2>2, <2>3
<1>3. M \in [D -> Content]
  BY <1>1, <1>2
<1>4. D \in SUBSET BranchName
  BY <1>1
<1>5. M \in Branches
  BY <1>3, <1>4 DEF Branches
<1>6. QED
  BY <1>2, <1>5

\* A file is put on a branch.
LEMMA FilePut ==
    ASSUME NEW B \in Branches, NEW b \in DOMAIN B, NEW f \in Files, NEW v \in FileState
    PROVE  LET C == [x \in DOMAIN B[b] \cup {f} |-> IF x = f THEN v ELSE B[b][x]]
               P == [B EXCEPT ![b] = C]
           IN  P \in Branches /\ DOMAIN P = DOMAIN B /\ DOMAIN P[b] = DOMAIN B[b] \cup {f}
<1> DEFINE C == [x \in DOMAIN B[b] \cup {f} |-> IF x = f THEN v ELSE B[b][x]]
           P == [B EXCEPT ![b] = C]
<1>1. DOMAIN B \subseteq BranchName /\ B \in [DOMAIN B -> Content]
  BY BranchesAre
<1>2. DOMAIN B[b] \subseteq Files /\ B[b] \in [DOMAIN B[b] -> FileState]
  BY <1>1, ContentIs
<1>3. C \in [DOMAIN B[b] \cup {f} -> FileState] /\ DOMAIN C = DOMAIN B[b] \cup {f}
  BY <1>2
<1> HIDE DEF C
<1>4. C \in Content
  BY <1>2, <1>3 DEF Content
<1>5. P \in [DOMAIN B -> Content] /\ DOMAIN P = DOMAIN B /\ P[b] = C
  BY <1>1, <1>4
<1> HIDE DEF P
<1>6. P \in Branches
  BY <1>1, <1>5 DEF Branches
<1>7. QED
  BY <1>3, <1>5, <1>6 DEF P, C

-----------------------------------------------------------------------------
(* Steps of the requests.                                                  *)

USE DEF Talking

\* While one request talks no other does.
LEMMA OneTalks ==
    ASSUME PublishingInv, NEW c \in Clients, client[c].at \in Talking
    PROVE  alone = c /\ \A d \in Clients : d # c => client[d].at \notin Talking
  BY DEF PublishingInv, Alone

\* What a step of a talking request has to show: the values, the lists, and what
\* it relies on itself.
LEMMA TalkGoesOn ==
    ASSUME PublishingInv, NEW c \in Clients, client[c].at \in Talking,
           NEW T, client' = [client EXCEPT ![c] = T], UNCHANGED alone,
           Types', HoldAsked(remote'), ListsHold',
           T.at \in {"branch", "upload", "record", "ask"} => T.repo \in Repos,
           T.at \in {"branch", "upload"} => T.ticket \in Tickets,
           T.at = "branch" => T.next = 1,
           T.at \in {"post", "note"} => T.paths # <<>>,
           T.at = "ask" => T.seen \in Seq(Row) /\ Numbers(T.seen) = Numbers(rows'),
           T.at = "note" => T.seen = posts',
           T.at = "upload" =>
               /\ T.next <= Len(T.paths) + 1
               /\ Branch(T.ticket) \in DOMAIN remote'[T.repo].branches
               /\ DOMAIN remote'[T.repo].branches[Branch(T.ticket)] =
                      {T.paths[n] : n \in 1 .. T.next - 1}
    PROVE  PublishingInv'
<1>1. alone = c /\ \A d \in Clients : d # c => client[d].at \notin Talking
  BY OneTalks
<1>2. client'[c] = T /\ \A d \in Clients : d # c => client'[d] = client[d]
  BY DEF PublishingInv, Types
<1>3. Alone'
  BY <1>1, <1>2 DEF Alone
<1>4. RequestsFit'
  BY <1>1, <1>2 DEF RequestsFit
<1>5. ReadIsCurrent'
  BY <1>1, <1>2 DEF ReadIsCurrent
<1>6. BranchHolds'
  BY <1>1, <1>2 DEF BranchHolds, Named, OnRemote
<1>7. PullsHold'
  BY DEF PullsHold, HoldAsked
<1>8. QED
  BY <1>3, <1>4, <1>5, <1>6, <1>7 DEF PublishingInv

LEMMA AwayFits == Away \in Request /\ Away.at = "away" /\ Away.next = 1
<1>1. <<>> \in Seq(Files) /\ <<>> \in Seq(Row)
  BY EmptySeq
<1>2. QED
  BY <1>1 DEF Away, Request, Place, Repository

LEMMA TalkEnds ==
    ASSUME PublishingInv, NEW c \in Clients, client[c].at \in Talking, Finish(c),
           remote' \in Remote, HoldAsked(remote'), ListsHold',
           rows' \in Seq(Row), opened' \in Seq(Row),
           posts' \in Seq(Entry), answered' \in Seq(Entry),
           UNCHANGED <<asset, channels>>
    PROVE  PublishingInv'
<1>1. alone = c /\ \A d \in Clients : d # c => client[d].at \notin Talking
  BY OneTalks
<1>2. /\ client' \in [Clients -> Request]
      /\ \A d \in Clients : client'[d].at \notin Talking
  BY <1>1, AwayFits DEF PublishingInv, Types, Finish
<1>3. Types'
  BY <1>2 DEF PublishingInv, Types, Remote
<1>4. Alone' /\ RequestsFit' /\ ReadIsCurrent' /\ BranchHolds'
  BY <1>2 DEF Alone, RequestsFit, ReadIsCurrent, BranchHolds
<1>5. PullsHold'
  BY DEF PullsHold, HoldAsked
<1>6. QED
  BY <1>3, <1>4, <1>5 DEF PublishingInv

\* A request takes the process while nobody talks.
LEMMA TalkBegins ==
    ASSUME PublishingInv, NEW c \in Clients, TakesProcess(c),
           NEW T \in Request, client' = [client EXCEPT ![c] = T],
           UNCHANGED <<asset, channels, remote, rows, posts, opened, answered>>,
           T.at \in {"branch", "post", "ask"},
           T.at \in {"branch", "ask"} => T.repo \in Repos,
           T.at = "branch" => T.next = 1 /\ T.ticket \in Tickets,
           T.at = "post" => T.paths # <<>>,
           T.at = "ask" => T.seen = rows
    PROVE  PublishingInv'
<1>1. \A d \in Clients : client[d].at \notin Talking
  BY PublishingAssumption DEF PublishingInv, Alone, TakesProcess
<1>2. /\ client' \in [Clients -> Request] /\ client'[c] = T
      /\ \A d \in Clients : d # c => client'[d] = client[d]
  BY DEF PublishingInv, Types
<1>3. Types' /\ PullsHold' /\ ListsHold'
  BY <1>2 DEF PublishingInv, Types, PullsHold, ListsHold
<1>4. Alone'
  BY <1>1, <1>2 DEF Alone, TakesProcess
<1>5. RequestsFit'
  BY <1>1, <1>2 DEF RequestsFit
<1>6. ReadIsCurrent' /\ BranchHolds'
  BY <1>1, <1>2 DEF ReadIsCurrent, BranchHolds, PublishingInv, Types
<1>7. QED
  BY <1>3, <1>4, <1>5, <1>6 DEF PublishingInv

\* A step beside the talk: the files, the configuration, the pull requests' states.
LEMMA Beside ==
    ASSUME PublishingInv, Types', UNCHANGED <<alone, rows, posts, opened, answered>>,
           HoldAsked(remote'),
           \A r \in Repos : remote'[r].branches = remote[r].branches,
           \A d \in Clients : \/ client'[d] = client[d]
                              \/ client'[d].at \notin Talking
    PROVE  PublishingInv'
<1>1. Alone'
  BY DEF PublishingInv, Alone
<1>2. RequestsFit' /\ ReadIsCurrent'
  BY DEF PublishingInv, RequestsFit, ReadIsCurrent
<1>3. BranchHolds'
  <2> SUFFICES ASSUME NEW d \in Clients, client'[d].at = "upload"
               PROVE  /\ client'[d].next <= Len(client'[d].paths) + 1
                      /\ Named(d)' \in DOMAIN OnRemote(d)'.branches
                      /\ DOMAIN OnRemote(d)'.branches[Named(d)'] =
                             {client'[d].paths[n] : n \in 1 .. client'[d].next - 1}
    BY DEF BranchHolds
  <2>1. client'[d] = client[d] /\ client[d].repo \in Repos
    BY DEF PublishingInv, RequestsFit
  <2>2. Named(d)' = Named(d) /\ OnRemote(d)'.branches = OnRemote(d).branches
    BY <2>1 DEF Named, OnRemote
  <2>3. QED
    BY <2>1, <2>2 DEF PublishingInv, BranchHolds
<1>4. PullsHold' /\ ListsHold'
  BY DEF PublishingInv, PullsHold, HoldAsked, ListsHold
<1>5. QED
  BY <1>1, <1>2, <1>3, <1>4 DEF PublishingInv

LEMMA HoldAskedNow == PublishingInv => HoldAsked(remote) /\ remote \in Remote
  BY DEF PublishingInv, PullsHold, HoldAsked, Types, Remote

LEMMA SaveKeeps ==
    ASSUME PublishingInv, NEW c \in Clients, NEW platform \in Channels, NEW secret,
           NEW repo \in Repos \cup {"", "bad"}, NEW site \in {"site", "private", "bad", ""},
           SaveChannel(c, platform, [repo |-> repo, site |-> site], secret)
    PROVE  PublishingInv'
<1> DEFINE T == [Away EXCEPT !.at = IF secret THEN "keep" ELSE "drop", !.platform = platform]
           values == [repo |-> repo, site |-> site]
<1>1. T \in Request /\ T.at \notin Talking
  BY AwayFits DEF Away, Request, Place
<1>2. client' = [client EXCEPT ![c] = T]
  BY DEF SaveChannel
<1>3. channels' = Saved(platform, values) /\ ValidConfig(values)
  BY DEF SaveChannel
<1>4. UNCHANGED <<asset, alone, remote, rows, posts, opened, answered>>
  BY DEF SaveChannel
<1> HIDE DEF T
<1>5. channels' \in [repo : Repository, site : {"site", "private", "bad", ""}]
  BY <1>3 DEF Saved, ValidConfig, PublishingInv, Types, Repository
<1>6. /\ client' \in [Clients -> Request]
      /\ \A d \in Clients : client'[d] = client[d] \/ client'[d].at \notin Talking
  BY <1>1, <1>2 DEF PublishingInv, Types
<1>7. Types'
  BY <1>4, <1>5, <1>6 DEF PublishingInv, Types
<1>8. QED
  BY <1>4, <1>6, <1>7, Beside, HoldAskedNow

LEMMA CommitKeeps ==
    ASSUME PublishingInv, NEW c \in Clients, CommitSecret(c)
    PROVE  PublishingInv'
<1>1. client' = [client EXCEPT ![c] = Away]
  BY DEF CommitSecret
<1>2. UNCHANGED <<asset, channels, alone, remote, rows, posts, opened, answered>>
  BY DEF CommitSecret
<1>3. /\ client' \in [Clients -> Request]
      /\ \A d \in Clients : client'[d] = client[d] \/ client'[d].at \notin Talking
  BY <1>1, AwayFits DEF PublishingInv, Types
<1>4. Types'
  BY <1>2, <1>3 DEF PublishingInv, Types
<1>5. QED
  BY <1>2, <1>3, <1>4, Beside, HoldAskedNow

Edited(f) == \E deployable \in BOOLEAN : EditFile(f, deployable)

LEMMA EditKeeps ==
    ASSUME PublishingInv, NEW f \in Files, Edited(f)
    PROVE  PublishingInv'
<1>1. UNCHANGED <<channels, client, alone, remote, rows, posts, opened, answered>>
  BY DEF Edited, EditFile
<1>2. asset' \in [Files -> FileState]
  <2>1. asset[f] \in FileState
    BY DEF PublishingInv, Types
  <2>2. asset[f].version <= MaxEdits
    BY DEF Edited, EditFile
  <2>3. asset[f].version + 1 \in 1 .. MaxEdits + 1
    <3>1. asset[f].version \in 1 .. MaxEdits + 1
      BY <2>1 DEF FileState
    <3>2. MaxEdits \in Nat
      BY PublishingAssumption
    <3>3. QED
      BY <2>2, <3>1, <3>2
  <2>4. PICK v : asset' = [asset EXCEPT ![f] = v] /\ v \in FileState
    <3>1. PICK d \in BOOLEAN :
              asset' = [asset EXCEPT ![f] = [version |-> asset[f].version + 1, deployable |-> d]]
      BY DEF Edited, EditFile
    <3>2. [version |-> asset[f].version + 1, deployable |-> d] \in FileState
      BY <2>3 DEF FileState
    <3>3. QED
      BY <3>1, <3>2
  <2>5. QED
    BY <2>4 DEF PublishingInv, Types
<1>3. Types'
  BY <1>1, <1>2 DEF PublishingInv, Types
<1>4. QED
  BY <1>1, <1>3, Beside, HoldAskedNow

Reviewed(r, n) == \E state \in {"merged", "closed"} : ReviewPull(r, n, state)

LEMMA ReviewKeeps ==
    ASSUME PublishingInv, NEW r \in Repos, NEW n \in DOMAIN remote[r].pulls, Reviewed(r, n)
    PROVE  PublishingInv'
<1>a. PICK state : /\ state \in PullState
                   /\ remote' = [remote EXCEPT ![r].pulls[n].state = state]
  BY DEF Reviewed, ReviewPull, PullState
<1> DEFINE Q == remote[r].pulls
           q == [Q[n] EXCEPT !.state = state]
           P == [Q EXCEPT ![n] = q]
<1>1. Q \in Seq(Pull) /\ n \in 1 .. Len(Q) /\ Q[n] \in Pull
  <2>1. Q \in Seq(Pull)
    BY DEF PublishingInv, Types
  <2>2. n \in 1 .. Len(Q)
    BY <2>1, LenProperties
  <2>3. QED
    BY <2>1, <2>2, ElementOfSeq
<1>2. q \in Pull /\ q.files = Q[n].files /\ q.asked = Q[n].asked
  BY <1>a, <1>1 DEF Pull
<1>3. remote' = [remote EXCEPT ![r].pulls = P]
  BY <1>a
<1>4. UNCHANGED <<asset, channels, client, alone, rows, posts, opened, answered>>
  BY DEF Reviewed, ReviewPull
<1>5. \A m \in 1 .. Len(Q) : DOMAIN Q[m].files = Q[m].asked
  BY <1>1, LenProperties DEF PublishingInv, PullsHold
<1> HIDE DEF Q, q
<1>6. /\ P \in Seq(Pull) /\ Len(P) = Len(Q)
      /\ \A m \in 1 .. Len(Q) : P[m] = IF m = n THEN q ELSE Q[m]
  BY <1>1, <1>2, ExceptSeq
<1> HIDE DEF P
<1>7. DOMAIN P = 1 .. Len(Q)
  BY <1>6, LenProperties
<1>8. \A m \in DOMAIN P : DOMAIN P[m].files = P[m].asked
  <2> SUFFICES ASSUME NEW m \in 1 .. Len(Q)
               PROVE  DOMAIN P[m].files = P[m].asked
    BY <1>7
  <2>1. CASE m = n
    BY <1>1, <1>2, <1>5, <1>6, <2>1
  <2>2. CASE m # n
    BY <1>5, <1>6, <2>2
  <2>3. QED
    BY <2>1, <2>2
<1>9. /\ remote' \in Remote /\ HoldAsked(remote')
      /\ \A p \in Repos : remote'[p].branches = remote[p].branches
  <2>1. remote \in Remote /\ HoldAsked(remote)
    BY HoldAskedNow
  <2>2. remote' = WithPulls(remote, r, P)
    BY <1>3 DEF WithPulls
  <2>3. QED
    BY <1>6, <1>8, <2>1, <2>2, PullsChange
<1>10. Types'
  BY <1>4, <1>9 DEF PublishingInv, Types, Remote
<1>11. QED
  BY <1>4, <1>9, <1>10, Beside

LEMMA BeginKeeps ==
    ASSUME PublishingInv, NEW c \in Clients,
           \/ \E ticket \in Tickets, paths \in Requests : CreatePull(c, ticket, paths)
           \/ ListPulls(c)
           \/ \E platform \in Channels, f \in Files : Post(c, platform, f)
    PROVE  PublishingInv'
<1>1. /\ <<>> \in Seq(Row) /\ rows \in Seq(Row) /\ channels.repo \in Repository
      /\ <<>> \in Seq(Files)
  BY EmptySeq DEF PublishingInv, Types
<1>2. ASSUME NEW ticket \in Tickets, NEW paths \in Requests, CreatePull(c, ticket, paths)
      PROVE  PublishingInv'
  <2> DEFINE T == [Away EXCEPT !.at = "branch", !.ticket = ticket, !.paths = paths, !.repo = channels.repo]
  <2>1. paths \in Seq(Files)
    <3>1. CASE paths \in {<<f>> : f \in Files}
      <4>1. PICK f \in Files : paths = <<f>>
        BY <3>1
      <4>2. QED
        BY <4>1
    <3>2. CASE paths \in [1 .. 2 -> Files]
      BY <3>2, SeqDef
    <3>3. QED
      BY <3>1, <3>2 DEF Requests
  <2>2. channels.repo \in Repos
    BY <1>1, <1>2 DEF CreatePull, Ready, Repository
  <2>3. /\ T \in Request /\ T.at = "branch" /\ T.repo \in Repos /\ T.next = 1
        /\ T.ticket \in Tickets
    BY <1>1, <2>1, <2>2, AwayFits DEF Request, Place
  <2>4. client' = [client EXCEPT ![c] = T]
    BY <1>2 DEF CreatePull
  <2>5. TakesProcess(c) /\ UNCHANGED <<asset, channels, remote, rows, posts, opened, answered>>
    BY <1>2 DEF CreatePull
  <2> HIDE DEF T
  <2>6. QED
    BY <2>3, <2>4, <2>5, TalkBegins
<1>3. CASE ListPulls(c)
  <2> DEFINE T == [Away EXCEPT !.at = "ask", !.repo = channels.repo, !.seen = rows]
  <2>1. channels.repo \in Repos
    BY <1>1, <1>3 DEF ListPulls, Repository
  <2>2. T \in Request /\ T.at = "ask" /\ T.repo \in Repos /\ T.seen = rows
    BY <1>1, <2>1, AwayFits DEF Request, Place
  <2>3. client' = [client EXCEPT ![c] = T]
    BY <1>3 DEF ListPulls
  <2>4. TakesProcess(c) /\ UNCHANGED <<asset, channels, remote, rows, posts, opened, answered>>
    BY <1>3 DEF ListPulls
  <2> HIDE DEF T
  <2>5. QED
    BY <2>2, <2>3, <2>4, TalkBegins
<1>4. ASSUME NEW platform \in Channels, NEW f \in Files, Post(c, platform, f)
      PROVE  PublishingInv'
  <2> DEFINE T == [Away EXCEPT !.at = "post", !.platform = platform, !.paths = <<f>>]
  <2>1. <<f>> \in Seq(Files) /\ <<f>> # <<>>
    OBVIOUS
  <2>2. T \in Request /\ T.at = "post" /\ T.paths # <<>>
    BY <1>1, <2>1, AwayFits DEF Request, Place
  <2>3. client' = [client EXCEPT ![c] = T]
    BY <1>4 DEF Post
  <2>4. TakesProcess(c) /\ UNCHANGED <<asset, channels, remote, rows, posts, opened, answered>>
    BY <1>4 DEF Post
  <2> HIDE DEF T
  <2>5. QED
    BY <2>2, <2>3, <2>4, TalkBegins
<1>5. QED
  BY <1>2, <1>3, <1>4

-----------------------------------------------------------------------------
(* Steps of a talking request.                                             *)

BranchCase(c, made) ==
    \/ remote' = made /\ Advance(c, "upload") /\ Named(c) \notin DOMAIN OnRemote(c).branches
    \/ remote' \in {remote, made} /\ Finish(c)

LEMMA MakeBranchKeeps ==
    ASSUME PublishingInv, NEW c \in Clients, MakeBranch(c)
    PROVE  PublishingInv'
<1> DEFINE r == client[c].repo
           b == Named(c)
           B == remote[r].branches
           M == [x \in DOMAIN B \cup {b} |-> IF x \in DOMAIN B THEN B[x] ELSE NoFiles]
           made == WithBranches(remote, r, M)
           T == [client[c] EXCEPT !.at = "upload"]
<1>1. /\ client[c].at = "branch" /\ client[c] \in Request /\ r \in Repos
      /\ client[c].ticket \in Tickets /\ client[c].next = 1
  BY DEF MakeBranch, PublishingInv, Types, RequestsFit
<1>2. b \in BranchName /\ B \in Branches
  BY <1>1 DEF Named, Branch, BranchName, PublishingInv, Types
<1>3. M \in Branches /\ b \in DOMAIN M /\ (b \notin DOMAIN B => DOMAIN M[b] = {})
  BY <1>2, BranchMade
<1>4. BranchCase(c, made)
  BY DEF MakeBranch, NewBranch, OnRemote, BranchCase, WithBranches
<1>5. UNCHANGED <<asset, channels, rows, posts, opened, answered>>
  BY DEF MakeBranch
<1>6. T \in Request /\ T.at = "upload" /\ T.next = 1 /\ T.repo = r
      /\ T.ticket = client[c].ticket /\ T.paths = client[c].paths
  BY <1>1 DEF Request, Place
<1>7. Advance(c, "upload") => client' = [client EXCEPT ![c] = T] /\ UNCHANGED alone
  BY DEF Advance
<1>8. /\ Types /\ HoldAsked(remote) /\ remote \in Remote /\ ListsHold
  BY HoldAskedNow DEF PublishingInv
<1>9. b = Branch(client[c].ticket) /\ Len(client[c].paths) \in Nat
  BY <1>1, LenProperties DEF Named, Request
<1>10. OnRemote(c).branches = B
  BY DEF OnRemote
<1> HIDE DEF M, T, b, B, r
<1>12. /\ made \in Remote /\ HoldAsked(made) /\ made[r].branches = M
  BY <1>1, <1>3, <1>8, BranchesChange
<1> HIDE DEF made
<1>13. ListsHold'
  BY <1>5, <1>8 DEF ListsHold
<1>14. CASE remote' = made /\ Advance(c, "upload") /\ Named(c) \notin DOMAIN OnRemote(c).branches
  <2>1. client' \in [Clients -> Request] /\ Types'
    BY <1>5, <1>6, <1>7, <1>8, <1>12, <1>14 DEF Types, Remote
  <2>2. DOMAIN M[b] = {}
    BY <1>3, <1>10, <1>14 DEF b
  <2>3. {T.paths[n] : n \in 1 .. T.next - 1} = {}
    BY <1>6
  <2>4. T.next <= Len(T.paths) + 1
    BY <1>6, <1>9
  <2>5. /\ Branch(T.ticket) \in DOMAIN remote'[T.repo].branches
        /\ DOMAIN remote'[T.repo].branches[Branch(T.ticket)] = {}
    BY <1>3, <1>6, <1>9, <1>12, <1>14, <2>2
  <2>6. client[c].at \in Talking
    BY <1>1
  <2>7. HoldAsked(remote')
    BY <1>12, <1>14
  <2>8. T.repo \in Repos /\ T.ticket \in Tickets
    BY <1>1, <1>6
  <2>9. QED
    BY <1>6, <1>7, <1>13, <1>14, <2>1, <2>3, <2>4, <2>5, <2>6, <2>7, <2>8, TalkGoesOn
<1>15. CASE remote' \in {remote, made} /\ Finish(c)
  <2>1. remote' \in Remote /\ HoldAsked(remote') /\ client[c].at \in Talking
    BY <1>1, <1>8, <1>12, <1>15
  <2>2. /\ rows' \in Seq(Row) /\ opened' \in Seq(Row)
        /\ posts' \in Seq(Entry) /\ answered' \in Seq(Entry)
    BY <1>5, <1>8 DEF Types
  <2>3. QED
    BY <1>5, <1>13, <1>15, <2>1, <2>2, TalkEnds
<1>16. QED
  BY <1>4, <1>14, <1>15 DEF BranchCase

UploadCase(c, put) ==
    \/ remote' = put /\ client' = [client EXCEPT ![c].next = @ + 1] /\ UNCHANGED alone
    \/ remote' \in {remote, put} /\ Finish(c)

LEMMA UploadFileKeeps ==
    ASSUME PublishingInv, NEW c \in Clients, UploadFile(c)
    PROVE  PublishingInv'
<1> DEFINE r == client[c].repo
           b == Named(c)
           B == remote[r].branches
           k == client[c].next
           f == client[c].paths[k]
           P == [B EXCEPT ![b] = [x \in DOMAIN B[b] \cup {f} |-> IF x = f THEN asset[f] ELSE B[b][x]]]
           put == WithBranches(remote, r, P)
           T == [client[c] EXCEPT !.next = k + 1]
<1>1. /\ client[c].at = "upload" /\ client[c] \in Request /\ r \in Repos
      /\ client[c].ticket \in Tickets /\ k \in Nat \ {0} /\ client[c].paths \in Seq(Files)
      /\ k <= Len(client[c].paths)
  BY DEF UploadFile, PublishingInv, Types, RequestsFit, Request
<1>2. /\ B \in Branches /\ b \in DOMAIN B /\ b = Branch(client[c].ticket)
      /\ DOMAIN B[b] = {client[c].paths[n] : n \in 1 .. k - 1}
  BY <1>1 DEF Named, OnRemote, PublishingInv, Types, BranchHolds
<1>3. f \in Files
  <2>1. k \in 1 .. Len(client[c].paths)
    BY <1>1, LenProperties
  <2>2. QED
    BY <1>1, <2>1, ElementOfSeq
<1>4. asset[f] \in FileState
  BY <1>3 DEF PublishingInv, Types
<1>5. P \in Branches /\ DOMAIN P = DOMAIN B /\ DOMAIN P[b] = DOMAIN B[b] \cup {f}
  <2> HIDE DEF B, b, f
  <2>1. QED
    BY <1>2, <1>3, <1>4, FilePut
<1>6. UploadCase(c, put)
  BY DEF UploadFile, OnRemote, UploadCase, WithBranches
<1>7. UNCHANGED <<asset, channels, rows, posts, opened, answered>>
  BY DEF UploadFile
<1>8. T \in Request /\ T.at = "upload" /\ T.next = k + 1 /\ T.repo = r
      /\ T.ticket = client[c].ticket /\ T.paths = client[c].paths
  <2>1. k + 1 \in Nat \ {0}
    BY <1>1
  <2> HIDE DEF k
  <2>2. QED
    BY <1>1, <2>1 DEF Request
<1>9. client' = [client EXCEPT ![c].next = @ + 1] => client' = [client EXCEPT ![c] = T]
  OBVIOUS
<1>10. Types /\ HoldAsked(remote) /\ remote \in Remote /\ ListsHold
  BY HoldAskedNow DEF PublishingInv
<1>11. DOMAIN P[b] = {T.paths[n] : n \in 1 .. T.next - 1}
  <2>1. T.next - 1 = k /\ 1 .. k = (1 .. k - 1) \cup {k}
    BY <1>1, <1>8
  <2>2. {client[c].paths[n] : n \in 1 .. k} = {client[c].paths[n] : n \in 1 .. k - 1} \cup {f}
    BY <2>1
  <2>3. DOMAIN B[b] \cup {f} = {client[c].paths[n] : n \in 1 .. k}
    BY <1>2, <2>2
  <2> HIDE DEF P, T
  <2>4. QED
    BY <1>5, <1>8, <2>1, <2>3
<1>12. T.next <= Len(T.paths) + 1
  BY <1>1, <1>8, LenProperties
<1>13. client[c].at \in Talking
  BY <1>1
<1> HIDE DEF P, T, b, B, r, k, f
<1>14. put \in Remote /\ HoldAsked(put) /\ put[r].branches = P
  BY <1>1, <1>5, <1>10, BranchesChange
<1> HIDE DEF put
<1>15. ListsHold'
  BY <1>7, <1>10 DEF ListsHold
<1>16. CASE remote' = put /\ client' = [client EXCEPT ![c].next = @ + 1] /\ UNCHANGED alone
  <2>1. client' = [client EXCEPT ![c] = T]
    BY <1>9, <1>16
  <2>2. client' \in [Clients -> Request] /\ Types'
    BY <1>7, <1>8, <1>10, <1>14, <1>16, <2>1 DEF Types, Remote
  <2>3. /\ Branch(T.ticket) \in DOMAIN remote'[T.repo].branches
        /\ DOMAIN remote'[T.repo].branches[Branch(T.ticket)] =
               {T.paths[n] : n \in 1 .. T.next - 1}
    BY <1>2, <1>5, <1>8, <1>11, <1>14, <1>16
  <2>4. HoldAsked(remote') /\ T.repo \in Repos /\ T.ticket \in Tickets
    BY <1>1, <1>8, <1>14, <1>16
  <2>5. UNCHANGED alone
    BY <1>16
  <2>6. QED
    BY <1>8, <1>12, <1>13, <1>15, <2>1, <2>2, <2>3, <2>4, <2>5, TalkGoesOn
<1>17. CASE remote' \in {remote, put} /\ Finish(c)
  <2>1. remote' \in Remote /\ HoldAsked(remote')
    BY <1>10, <1>14, <1>17
  <2>2. /\ rows' \in Seq(Row) /\ opened' \in Seq(Row)
        /\ posts' \in Seq(Entry) /\ answered' \in Seq(Entry)
    BY <1>7, <1>10 DEF Types
  <2>3. QED
    BY <1>7, <1>13, <1>15, <1>17, <2>1, <2>2, TalkEnds
<1>18. QED
  BY <1>6, <1>16, <1>17 DEF UploadCase

OpenCase(c, made) ==
    \/ /\ remote' = made /\ UNCHANGED alone
       /\ client' = [client EXCEPT ![c].at = "record", ![c].number = Len(OnRemote(c).pulls) + 1]
    \/ remote' \in {remote, made} /\ Finish(c)

LEMMA OpenPullKeeps ==
    ASSUME PublishingInv, NEW c \in Clients, OpenPull(c)
    PROVE  PublishingInv'
<1> DEFINE r == client[c].repo
           b == Named(c)
           B == remote[r].branches
           Q == remote[r].pulls
           pull == [branch |-> b, files |-> B[b], asked |-> ToSet(client[c].paths), state |-> "open"]
           P == Append(Q, pull)
           made == WithPulls(remote, r, P)
           T == [client[c] EXCEPT !.at = "record", !.number = Len(Q) + 1]
<1>1. /\ client[c].at = "upload" /\ client[c] \in Request /\ r \in Repos
      /\ client[c].ticket \in Tickets /\ client[c].next \in Nat \ {0}
      /\ client[c].paths \in Seq(Files) /\ Q \in Seq(Pull)
      /\ client[c].next > Len(client[c].paths) /\ client[c].next <= Len(client[c].paths) + 1
  BY DEF OpenPull, PublishingInv, Types, RequestsFit, Request, BranchHolds
<1>2. /\ B \in Branches /\ b \in DOMAIN B /\ b \in BranchName
      /\ DOMAIN B[b] = {client[c].paths[n] : n \in 1 .. client[c].next - 1}
  BY <1>1 DEF Named, OnRemote, Branch, BranchName, PublishingInv, Types, BranchHolds
<1>3. Len(client[c].paths) \in Nat /\ DOMAIN client[c].paths = 1 .. Len(client[c].paths)
  BY <1>1, LenProperties
<1>4. client[c].next - 1 = Len(client[c].paths)
  BY <1>1, <1>3
<1>5. ToSet(client[c].paths) = {client[c].paths[n] : n \in 1 .. Len(client[c].paths)}
  BY <1>3 DEF ToSet
<1>6. DOMAIN pull.files = pull.asked /\ pull.asked \subseteq Files
  BY <1>1, <1>2, <1>3, <1>4, <1>5, ElementOfSeq
<1>7. pull \in Pull
  <2>1. B[b] \in Content
    BY <1>2, BranchesAre
  <2>2. QED
    BY <1>2, <1>6, <2>1 DEF Pull, PullState
<1>8. /\ P \in Seq(Pull) /\ Len(P) = Len(Q) + 1 /\ P[Len(Q) + 1] = pull
      /\ \A i \in 1 .. Len(Q) : P[i] = Q[i]
  <2> HIDE DEF pull, Q
  <2>1. QED
    BY <1>1, <1>7, AppendProperties
<1>9. \A n \in DOMAIN P : DOMAIN P[n].files = P[n].asked
  <2>1. \A n \in 1 .. Len(Q) : DOMAIN Q[n].files = Q[n].asked
    BY <1>1, LenProperties DEF PublishingInv, PullsHold
  <2>2. DOMAIN P = 1 .. Len(Q) + 1 /\ Len(Q) \in Nat
    BY <1>1, <1>8, LenProperties
  <2> HIDE DEF P, Q
  <2>3. \A n \in 1 .. Len(Q) + 1 : n \in 1 .. Len(Q) \/ n = Len(Q) + 1
    BY <2>2
  <2>4. QED
    BY <1>6, <1>8, <2>1, <2>2, <2>3
<1>10. OpenCase(c, made)
  BY DEF OpenPull, OnRemote, OpenCase, WithPulls
<1>11. UNCHANGED <<asset, channels, rows, posts, opened, answered>>
  BY DEF OpenPull
<1>12. T \in Request /\ T.at = "record" /\ T.repo = r
  <2>1. Len(Q) + 1 \in Nat
    BY <1>1, LenProperties
  <2>2. QED
    BY <1>1, <2>1 DEF Request, Place
<1>13. client' = [client EXCEPT ![c].at = "record", ![c].number = Len(OnRemote(c).pulls) + 1]
         => client' = [client EXCEPT ![c] = T]
  BY DEF OnRemote
<1>14. Types /\ HoldAsked(remote) /\ remote \in Remote /\ ListsHold
  BY HoldAskedNow DEF PublishingInv
<1>15. client[c].at \in Talking
  BY <1>1
<1> HIDE DEF P, T, b, B, Q, r, pull
<1>16. made \in Remote /\ HoldAsked(made)
  BY <1>1, <1>8, <1>9, <1>14, PullsChange
<1> HIDE DEF made
<1>17. ListsHold'
  BY <1>11, <1>14 DEF ListsHold
<1>18. CASE /\ remote' = made /\ UNCHANGED alone
            /\ client' = [client EXCEPT ![c].at = "record", ![c].number = Len(OnRemote(c).pulls) + 1]
  <2>1. client' = [client EXCEPT ![c] = T]
    BY <1>13, <1>18
  <2>2. client' \in [Clients -> Request] /\ Types'
    BY <1>11, <1>12, <1>14, <1>16, <1>18, <2>1 DEF Types, Remote
  <2>3. HoldAsked(remote') /\ T.repo \in Repos
    BY <1>1, <1>12, <1>16, <1>18
  <2>4. UNCHANGED alone
    BY <1>18
  <2>5. QED
    BY <1>12, <1>15, <1>17, <2>1, <2>2, <2>3, <2>4, TalkGoesOn
<1>19. CASE remote' \in {remote, made} /\ Finish(c)
  <2>1. remote' \in Remote /\ HoldAsked(remote')
    BY <1>14, <1>16, <1>19
  <2>2. /\ rows' \in Seq(Row) /\ opened' \in Seq(Row)
        /\ posts' \in Seq(Entry) /\ answered' \in Seq(Entry)
    BY <1>11, <1>14 DEF Types
  <2>3. QED
    BY <1>11, <1>15, <1>17, <1>19, <2>1, <2>2, TalkEnds
<1>20. QED
  BY <1>10, <1>18, <1>19 DEF OpenCase

LEMMA RecordPullKeeps ==
    ASSUME PublishingInv, NEW c \in Clients, RecordPull(c)
    PROVE  PublishingInv'
<1> DEFINE row == [repo |-> client[c].repo, number |-> client[c].number, status |-> "open"]
           kept == LastOf(PullsKept, opened)
<1>1. client[c].at = "record" /\ client[c] \in Request /\ Finish(c)
  BY DEF RecordPull, PublishingInv, Types
<1>2. row \in Row
  BY <1>1 DEF Row, Request, PullState
<1>3. /\ rows' = Noted(PullsKept, rows, row) /\ opened' = Append(opened, row)
      /\ UNCHANGED <<asset, channels, remote, posts, answered>>
  BY DEF RecordPull
<1>4. /\ rows \in Seq(Row) /\ opened \in Seq(Row) /\ posts \in Seq(Entry)
      /\ answered \in Seq(Entry) /\ ListsHold
  BY DEF PublishingInv, Types
<1>5. PullsKept \in Nat \ {0}
  BY PublishingAssumption
<1> HIDE DEF row
<1>6. kept \in Seq(Row) /\ Noted(PullsKept, kept, row) = LastOf(PullsKept, Append(opened, row))
  BY <1>2, <1>4, <1>5, LastOfList, CutThenAdd
<1>7. Numbers(rows) = Numbers(kept)
  BY <1>4 DEF ListsHold
<1> HIDE DEF kept
<1>8. Numbers(LastOf(PullsKept, Append(rows, row))) = Numbers(LastOf(PullsKept, Append(kept, row)))
  BY <1>2, <1>4, <1>5, <1>6, <1>7, CutNumbers
<1>9. Numbers(rows') = Numbers(LastOf(PullsKept, opened'))
  BY <1>3, <1>6, <1>8 DEF Noted
<1>10. rows' \in Seq(Row) /\ opened' \in Seq(Row)
  BY <1>2, <1>3, <1>4, <1>5, AppendProperties, LastOfList DEF Noted
<1>11. ListsHold'
  BY <1>3, <1>4, <1>9 DEF ListsHold
<1>12. remote' \in Remote /\ HoldAsked(remote')
  BY <1>3, HoldAskedNow
<1>13. QED
  BY <1>1, <1>3, <1>4, <1>10, <1>11, <1>12, TalkEnds

\* A row is asked about, and found or not.
AskCase(c) ==
    \/ /\ client[c].seen[client[c].next].number \in DOMAIN remote[client[c].repo].pulls
       /\ \E touched \in BOOLEAN :
              client' = [client EXCEPT
                  ![c].seen[client[c].next].status =
                      remote[client[c].repo].pulls[client[c].seen[client[c].next].number].state,
                  ![c].next = @ + 1,
                  ![c].changed = \/ @ \/ touched
                                 \/ remote[client[c].repo].pulls[client[c].seen[client[c].next].number].state
                                       # client[c].seen[client[c].next].status]
    \/ client' = [client EXCEPT ![c].next = @ + 1]

LEMMA AskPullKeeps ==
    ASSUME PublishingInv, NEW c \in Clients, AskPull(c)
    PROVE  PublishingInv'
<1> DEFINE k == client[c].next
           s == client[c].seen
           Q == remote[client[c].repo].pulls
<1>1. /\ client[c].at = "ask" /\ client[c] \in Request /\ client[c].repo \in Repos
      /\ k \in Nat \ {0} /\ k <= Len(s) /\ s \in Seq(Row) /\ Numbers(s) = Numbers(rows)
      /\ client[c].changed \in BOOLEAN
  BY DEF AskPull, PublishingInv, Types, RequestsFit, Request, ReadIsCurrent
<1>2. AskCase(c)
  BY DEF AskPull, AskCase
<1>3. UNCHANGED <<asset, channels, alone, remote, rows, posts, opened, answered>>
  BY DEF AskPull
<1>4. /\ Types /\ ListsHold /\ HoldAsked(remote') /\ Q \in Seq(Pull) /\ rows \in Seq(Row)
      /\ client \in [Clients -> Request]
  BY <1>1, <1>3, HoldAskedNow DEF PublishingInv, Types
<1>5. k + 1 \in Nat \ {0} /\ k \in 1 .. Len(s)
  BY <1>1, LenProperties
<1>6. SUFFICES ASSUME NEW T \in Request, client' = [client EXCEPT ![c] = T],
                      T.at = "ask", T.repo = client[c].repo,
                      T.seen \in Seq(Row), Numbers(T.seen) = Numbers(s)
               PROVE  PublishingInv'
  <2>1. CASE client' = [client EXCEPT ![c].next = @ + 1]
    <3> DEFINE U == [client[c] EXCEPT !.next = k + 1]
    <3>1. client' = [client EXCEPT ![c] = U]
      BY <2>1
    <3>2. U.at = "ask" /\ U.repo = client[c].repo /\ U.seen = s
      BY <1>1 DEF Request
    <3>3. U \in Request
      <4> HIDE DEF k, s
      <4>1. QED
        BY <1>1, <1>5 DEF Request
    <3> HIDE DEF U
    <3>4. QED
      BY <1>1, <1>6, <3>1, <3>2, <3>3
  <2>2. ASSUME s[k].number \in DOMAIN Q, NEW touched \in BOOLEAN,
               client' = [client EXCEPT
                   ![c].seen[k].status = Q[s[k].number].state,
                   ![c].next = @ + 1,
                   ![c].changed = @ \/ touched \/ Q[s[k].number].state # s[k].status]
        PROVE  PublishingInv'
    <3> DEFINE st == Q[s[k].number].state
               ch == client[c].changed \/ touched \/ st # s[k].status
               row == [s[k] EXCEPT !.status = st]
               seen == [s EXCEPT ![k] = row]
               U == [client[c] EXCEPT !.seen = seen, !.next = k + 1, !.changed = ch]
    <3>1. client' = [client EXCEPT ![c] = U]
      BY <2>2
    <3>2. st \in PullState
      <4>1. s[k].number \in 1 .. Len(Q)
        BY <1>4, <2>2, LenProperties
      <4>2. Q[s[k].number] \in Pull
        BY <1>4, <4>1, ElementOfSeq
      <4>3. QED
        BY <4>2 DEF Pull
    <3>3. s[k] \in Row
      BY <1>1, <1>5, ElementOfSeq
    <3>4. row \in Row /\ row.number = s[k].number
      <4> HIDE DEF st
      <4>1. QED
        BY <3>2, <3>3 DEF Row
    <3>5. ch \in BOOLEAN
      OBVIOUS
    <3> HIDE DEF row, ch, s, k
    <3>6. /\ seen \in Seq(Row) /\ Len(seen) = Len(s)
          /\ \A i \in 1 .. Len(s) : seen[i] = IF i = k THEN row ELSE s[i]
      BY <1>1, <1>5, <3>4, ExceptSeq
    <3> HIDE DEF seen
    <3>7. Numbers(seen) = Numbers(s)
      <4>1. \A i \in 1 .. Len(seen) : seen[i].number = s[i].number
        BY <3>4, <3>6
      <4>2. QED
        BY <1>1, <3>6, <4>1, SameNumbers
    <3>8. U \in Request /\ U.at = "ask" /\ U.repo = client[c].repo /\ U.seen = seen
      BY <1>1, <1>5, <3>5, <3>6 DEF Request
    <3> HIDE DEF U
    <3>9. QED
      BY <1>6, <3>1, <3>6, <3>7, <3>8
  <2>3. QED
    BY <1>2, <2>1, <2>2 DEF AskCase
<1> HIDE DEF k, s, Q
<1>7. ListsHold' /\ Numbers(T.seen) = Numbers(rows')
  BY <1>1, <1>3, <1>4, <1>6 DEF ListsHold
<1>8. Types'
  BY <1>3, <1>4, <1>6 DEF Types
<1>9. client[c].at \in Talking /\ T.repo \in Repos /\ UNCHANGED alone
  BY <1>1, <1>3, <1>6
<1>10. QED
  BY <1>4, <1>6, <1>7, <1>8, <1>9, TalkGoesOn

LEMMA WritePullsKeeps ==
    ASSUME PublishingInv, NEW c \in Clients, WritePulls(c)
    PROVE  PublishingInv'
<1> DEFINE s == client[c].seen
           kept == LastOf(PullsKept, opened)
<1>1. /\ client[c].at = "ask" /\ Finish(c) /\ s \in Seq(Row) /\ Numbers(s) = Numbers(rows)
  BY DEF WritePulls, PublishingInv, ReadIsCurrent
<1>2. /\ rows' = LastOf(PullsKept, s) \/ rows' = rows
      /\ UNCHANGED <<asset, channels, remote, posts, opened, answered>>
  BY DEF WritePulls
<1>3. /\ rows \in Seq(Row) /\ opened \in Seq(Row) /\ posts \in Seq(Entry)
      /\ answered \in Seq(Entry) /\ ListsHold
  BY DEF PublishingInv, Types
<1>4. PullsKept \in Nat \ {0}
  BY PublishingAssumption
<1>5. kept \in Seq(Row) /\ Len(kept) = IF Len(opened) > PullsKept THEN PullsKept ELSE Len(opened)
  BY <1>3, <1>4, LastOfList
<1>6. Numbers(s) = Numbers(kept)
  BY <1>1, <1>3 DEF ListsHold
<1> HIDE DEF s, kept
<1>7. Len(s) = Len(kept)
  BY <1>1, <1>5, <1>6, SameNumbers
<1>8. Len(opened) \in Nat /\ Len(s) \in Nat
  BY <1>1, <1>3, LenProperties
<1>9. /\ LastOf(PullsKept, s) \in Seq(Row)
      /\ Len(LastOf(PullsKept, s)) = IF Len(s) > PullsKept THEN PullsKept ELSE Len(s)
      /\ \A i \in 1 .. Len(LastOf(PullsKept, s)) :
             LastOf(PullsKept, s)[i] = s[i + (Len(s) - Len(LastOf(PullsKept, s)))]
  BY <1>1, <1>4, LastOfList
<1>10. Len(LastOf(PullsKept, s)) = Len(s)
  BY <1>4, <1>5, <1>7, <1>8, <1>9
<1>11. \A i \in 1 .. Len(s) : LastOf(PullsKept, s)[i] = s[i]
  <2>1. \A i \in 1 .. Len(s) : i + (Len(s) - Len(s)) = i
    BY <1>8
  <2>2. QED
    BY <1>9, <1>10, <2>1
<1>12. LastOf(PullsKept, s) = s
  BY <1>1, <1>9, <1>10, <1>11, SeqEqual
<1>13. rows' \in Seq(Row) /\ Numbers(rows') = Numbers(rows)
  BY <1>1, <1>2, <1>3, <1>12
<1>14. ListsHold'
  BY <1>2, <1>3, <1>13 DEF ListsHold
<1>15. remote' \in Remote /\ HoldAsked(remote')
  BY <1>2, HoldAskedNow
<1>16. client[c].at \in Talking
  BY <1>1
<1>17. QED
  BY <1>1, <1>2, <1>3, <1>13, <1>14, <1>15, <1>16, TalkEnds

LEMMA TookOrNot ==
    ASSUME NEW platform, NEW code
    PROVE  Took(platform, code) \in BOOLEAN
<1>1. WordPressTook(code) \in BOOLEAN
  BY DEF WordPressTook
<1>2. WebhookTook(code) \in BOOLEAN
  BY DEF WebhookTook
<1>3. QED
  BY <1>1, <1>2 DEF Took

\* The answer of a destination is kept until it is noted.
SendCase(c) ==
    \/ \E ok \in BOOLEAN :
           client' = [client EXCEPT ![c].at = "note", ![c].changed = ok, ![c].seen = posts]
    \/ Finish(c)

LEMMA SendPostKeeps ==
    ASSUME PublishingInv, NEW c \in Clients, SendPost(c)
    PROVE  PublishingInv'
<1>1. /\ client[c].at = "post" /\ client[c] \in Request /\ client[c].paths # <<>>
      /\ posts \in Seq(Entry)
  BY DEF SendPost, PublishingInv, Types, RequestsFit
<1>2. /\ UNCHANGED <<asset, channels, remote, rows, posts, opened, answered>>
      /\ UNCHANGED alone \/ Finish(c)
  BY DEF SendPost
<1>3. SendCase(c)
  <2>1. ASSUME NEW code \in Codes,
               client' = [client EXCEPT ![c].at = "note",
                                        ![c].changed = Took(client[c].platform, code),
                                        ![c].seen = posts]
        PROVE  SendCase(c)
    <3>1. Took(client[c].platform, code) \in BOOLEAN
      BY TookOrNot
    <3>2. QED
      BY <2>1, <3>1 DEF SendCase
  <2>2. QED
    BY <2>1 DEF SendPost, SendCase
<1>4. /\ Types /\ HoldAsked(remote') /\ remote' \in Remote /\ ListsHold'
      /\ client[c].at \in Talking
  BY <1>1, <1>2, HoldAskedNow DEF PublishingInv, ListsHold
<1>5. CASE Finish(c)
  <2>1. /\ rows' \in Seq(Row) /\ opened' \in Seq(Row)
        /\ posts' \in Seq(Entry) /\ answered' \in Seq(Entry)
    BY <1>2, <1>4 DEF Types
  <2>2. QED
    BY <1>2, <1>4, <1>5, <2>1, TalkEnds
<1>6. ASSUME UNCHANGED alone, NEW ok \in BOOLEAN,
             client' = [client EXCEPT ![c].at = "note", ![c].changed = ok, ![c].seen = posts]
      PROVE  PublishingInv'
  <2> DEFINE T == [client[c] EXCEPT !.at = "note", !.changed = ok, !.seen = posts]
  <2>1. client' = [client EXCEPT ![c] = T]
    BY <1>6
  <2>2. T \in Request /\ T.at = "note" /\ T.seen = posts /\ T.paths # <<>>
    BY <1>1 DEF Request, Place
  <2> HIDE DEF T
  <2>3. Types'
    BY <1>2, <1>4, <2>1, <2>2 DEF Types
  <2>4. T.seen = posts'
    BY <1>2, <2>2
  <2>5. QED
    BY <1>4, <1>6, <2>1, <2>2, <2>3, <2>4, TalkGoesOn
<1>7. QED
  BY <1>2, <1>3, <1>5, <1>6 DEF SendCase

LEMMA NotePostKeeps ==
    ASSUME PublishingInv, NEW c \in Clients, NotePost(c)
    PROVE  PublishingInv'
<1> DEFINE entry == [platform |-> client[c].platform, path |-> client[c].paths[1],
                     ok |-> client[c].changed]
<1>1. /\ client[c].at = "note" /\ client[c] \in Request /\ Finish(c)
      /\ client[c].paths # <<>> /\ client[c].seen = posts
  BY DEF NotePost, PublishingInv, Types, RequestsFit, ReadIsCurrent
<1>2. entry \in Entry
  <2>1. client[c].paths \in Seq(Files)
    BY <1>1 DEF Request
  <2>2. client[c].paths[1] \in Files
    <3>1. Len(client[c].paths) \in Nat /\ Len(client[c].paths) # 0
      BY <1>1, <2>1, LenProperties, EmptySeq
    <3>2. QED
      BY <2>1, <3>1, ElementOfSeq
  <2>3. QED
    BY <1>1, <2>2 DEF Entry, Request
<1>3. /\ posts' = Noted(PostsKept, posts, entry) /\ answered' = Append(answered, entry)
      /\ UNCHANGED <<asset, channels, remote, rows, opened>>
  BY <1>1 DEF NotePost
<1>4. /\ rows \in Seq(Row) /\ opened \in Seq(Row) /\ posts \in Seq(Entry)
      /\ answered \in Seq(Entry) /\ ListsHold
  BY DEF PublishingInv, Types
<1>5. PostsKept \in Nat \ {0}
  BY PublishingAssumption
<1> HIDE DEF entry
<1>6. posts' = LastOf(PostsKept, answered')
  BY <1>2, <1>3, <1>4, <1>5, CutThenAdd DEF ListsHold
<1>7. answered' \in Seq(Entry) /\ posts' \in Seq(Entry)
  <2>1. answered' \in Seq(Entry)
    BY <1>2, <1>3, <1>4, AppendProperties
  <2>2. QED
    BY <1>5, <1>6, <2>1, LastOfList
<1>8. ListsHold' /\ rows' \in Seq(Row) /\ opened' \in Seq(Row)
  BY <1>3, <1>4, <1>6 DEF ListsHold
<1>9. remote' \in Remote /\ HoldAsked(remote') /\ client[c].at \in Talking
  BY <1>1, <1>3, HoldAskedNow
<1>10. QED
  BY <1>1, <1>3, <1>7, <1>8, <1>9, TalkEnds

\* A request that dies gives back what it held, and nothing else.
LEMMA ProcessDiesKeeps ==
    ASSUME PublishingInv, NEW c \in Clients, ProcessDies(c)
    PROVE  PublishingInv'
<1>1. Finish(c) /\ UNCHANGED <<asset, channels, remote, rows, posts, opened, answered>>
  BY DEF ProcessDies
<1>2. CASE client[c].at \in Talking
  <2>1. /\ remote' \in Remote /\ HoldAsked(remote') /\ ListsHold'
        /\ rows' \in Seq(Row) /\ opened' \in Seq(Row)
        /\ posts' \in Seq(Entry) /\ answered' \in Seq(Entry)
    BY <1>1, HoldAskedNow DEF PublishingInv, Types, ListsHold
  <2>2. QED
    BY <1>1, <1>2, <2>1, TalkEnds
<1>3. CASE client[c].at \notin Talking
  <2>1. /\ client' \in [Clients -> Request] /\ client'[c].at \notin Talking
        /\ \A d \in Clients : d # c => client'[d] = client[d]
    BY <1>1, AwayFits DEF Finish, PublishingInv, Types
  <2>2. Types' /\ PullsHold' /\ ListsHold'
    BY <1>1, <2>1 DEF PublishingInv, Types, PullsHold, ListsHold
  <2>3. Alone'
    BY <1>1, <1>3, <2>1 DEF PublishingInv, Alone, Finish, GivesBack
  <2>4. RequestsFit' /\ ReadIsCurrent'
    BY <1>1, <2>1 DEF PublishingInv, RequestsFit, ReadIsCurrent
  <2>5. BranchHolds'
    <3> SUFFICES ASSUME NEW d \in Clients, client'[d].at = "upload"
                 PROVE  /\ client'[d].next <= Len(client'[d].paths) + 1
                        /\ Named(d)' \in DOMAIN OnRemote(d)'.branches
                        /\ DOMAIN OnRemote(d)'.branches[Named(d)'] =
                               {client'[d].paths[n] : n \in 1 .. client'[d].next - 1}
      BY DEF BranchHolds
    <3>1. client'[d] = client[d] /\ remote' = remote
      BY <1>1, <2>1
    <3>2. Named(d)' = Named(d) /\ OnRemote(d)' = OnRemote(d)
      BY <3>1 DEF Named, OnRemote
    <3>3. QED
      BY <3>1, <3>2 DEF PublishingInv, BranchHolds
  <2>6. QED
    BY <2>2, <2>3, <2>4, <2>5 DEF PublishingInv
<1>4. QED
  BY <1>2, <1>3

-----------------------------------------------------------------------------
(* The invariant.                                                          *)

LEMMA InitInv == PublishingInit => PublishingInv
<1> SUFFICES ASSUME PublishingInit PROVE PublishingInv
  OBVIOUS
<1>1. asset \in [Files -> FileState]
  <2>1. 1 \in 1 .. MaxEdits + 1
    <3>1. MaxEdits \in Nat
      BY PublishingAssumption
    <3>2. QED
      BY <3>1
  <2>2. QED
    BY <2>1 DEF PublishingInit, FileState
<1>2. channels \in [repo : Repository, site : {"site", "private", "bad", ""}]
  <2>1. (CHOOSE r \in Repos : TRUE) \in Repos
    BY PublishingAssumption
  <2>2. QED
    BY <2>1 DEF PublishingInit, Repository
<1>3. client \in [Clients -> Request] /\ \A c \in Clients : client[c].at = "away"
  BY AwayFits DEF PublishingInit
<1>4. NoFiles \in Branches
  <2>1. NoFiles \in [{} -> Content]
    BY DEF NoFiles
  <2>2. QED
    BY <2>1 DEF Branches
<1>5. /\ remote \in [Repos -> [branches : Branches, pulls : Seq(Pull)]]
      /\ \A r \in Repos : remote[r].pulls = <<>>
  BY <1>4 DEF PublishingInit
<1>6. rows = <<>> /\ posts = <<>> /\ opened = <<>> /\ answered = <<>>
  BY DEF PublishingInit
<1>7. Types
  <2>1. <<>> \in Seq(Row) /\ <<>> \in Seq(Entry)
    BY EmptySeq
  <2>2. QED
    BY <1>1, <1>2, <1>3, <1>5, <1>6, <2>1 DEF Types
<1>8. Alone /\ RequestsFit /\ ReadIsCurrent /\ BranchHolds
  BY <1>3 DEF Alone, RequestsFit, ReadIsCurrent, BranchHolds
<1>9. PullsHold
  BY <1>5 DEF PullsHold
<1>10. ListsHold
  <2>1. \A k \in Nat \ {0} : LastOf(k, <<>>) = <<>>
    BY DEF LastOf
  <2>2. PullsKept \in Nat \ {0} /\ PostsKept \in Nat \ {0}
    BY PublishingAssumption
  <2>3. QED
    BY <1>6, <2>1, <2>2 DEF ListsHold
<1>11. QED
  BY <1>7, <1>8, <1>9, <1>10 DEF PublishingInv

LEMMA StepKeeps == PublishingInv /\ [PublishingNext]_publishingVars => PublishingInv'
<1> SUFFICES ASSUME PublishingInv, [PublishingNext]_publishingVars
             PROVE  PublishingInv'
  OBVIOUS
<1>1. CASE UNCHANGED publishingVars
  BY <1>1 DEF publishingVars, PublishingInv, Types, Alone, RequestsFit, ReadIsCurrent,
              BranchHolds, PullsHold, ListsHold, Named, OnRemote
<1>2. CASE \E c \in Clients, platform \in Channels, secret \in BOOLEAN :
               \E repo \in Repos \cup {"", "bad"}, site \in {"site", "private", "bad", ""} :
                   SaveChannel(c, platform, [repo |-> repo, site |-> site], secret)
  BY <1>2, SaveKeeps
<1>3. CASE \E c \in Clients : \/ CommitSecret(c) \/ ProcessDies(c)
                              \/ MakeBranch(c) \/ UploadFile(c) \/ OpenPull(c) \/ RecordPull(c)
                              \/ ListPulls(c) \/ AskPull(c) \/ WritePulls(c)
                              \/ SendPost(c) \/ NotePost(c)
  BY <1>3, CommitKeeps, ProcessDiesKeeps, MakeBranchKeeps, UploadFileKeeps, OpenPullKeeps,
     RecordPullKeeps, BeginKeeps, AskPullKeeps, WritePullsKeeps, SendPostKeeps, NotePostKeeps
<1>4. CASE \E f \in Files : Edited(f)
  BY <1>4, EditKeeps
<1>5. CASE \E c \in Clients, ticket \in Tickets, paths \in Requests : CreatePull(c, ticket, paths)
  BY <1>5, BeginKeeps
<1>6. CASE \E r \in Repos : \E n \in DOMAIN remote[r].pulls : Reviewed(r, n)
  BY <1>6, ReviewKeeps
<1>7. CASE \E c \in Clients, platform \in Channels, f \in Files : Post(c, platform, f)
  BY <1>7, BeginKeeps
<1>8. (\E f \in Files, deployable \in BOOLEAN : EditFile(f, deployable)) => \E f \in Files : Edited(f)
  BY DEF Edited
<1>9. (\E r \in Repos : \E n \in DOMAIN remote[r].pulls, state \in {"merged", "closed"} : ReviewPull(r, n, state))
        => \E r \in Repos : \E n \in DOMAIN remote[r].pulls : Reviewed(r, n)
  BY DEF Reviewed
<1>10. QED
  BY <1>1, <1>2, <1>3, <1>4, <1>5, <1>6, <1>7, <1>8, <1>9, Zenon DEF PublishingNext

\* The project's records hold what was asked and done, each entry but the oldest,
\* and a pull request holds the files it was asked to hold, whatever requests run
\* at the same time, fail halfway or die (github_pr.create and list_prs,
\* publish.publish).
THEOREM RecordsKept == PublishingSpec => []RecordsMatch
<1>1. PublishingInv => RecordsMatch
  <2> SUFFICES ASSUME PublishingInv PROVE RecordsMatch
    OBVIOUS
  <2>1. ListsHold /\ PullsHold
    BY DEF PublishingInv
  <2>2. NothingIsForgotten
    BY <2>1 DEF NothingIsForgotten, ListsHold, Numbers
  <2>3. PullsHoldTheRequest
    BY <2>1 DEF PullsHoldTheRequest, PullsHold
  <2>4. QED
    BY <2>2, <2>3 DEF RecordsMatch
<1>2. QED
  BY InitInv, StepKeeps, <1>1, PTL DEF PublishingSpec

-----------------------------------------------------------------------------
(* SearchData                                                              *)

Ask == [user : Users, site : Sites, flow : Flows]
Working == {"list", "fetch", "look", "move", "write", "close"}
Inquiry ==
    [at : Working \cup {"away", "get", "take", "exchange", "clear"}, ask : Nat,
     site : Sites \cup {""}, user : Users \cup {""}, flow : Flows \cup {""}, has : BOOLEAN,
     choice : AllListed \cup {""}, selects : BOOLEAN]
Snapshot == [ask : Nat, property : AllListed, candidates : SUBSET Queries]
Source == [query : {q.name : q \in Queries}, ask : Nat, property : AllListed]

Left == [asks : SUBSET Ask, selects : Nat, deletes : Nat, changes : Nat, adds : Nat,
         faults : Nat]
Tokens == {"none", "held", "returned"}

SearchTypes ==
    /\ asked \in Seq(Ask) /\ codes \subseteq DOMAIN asked
    /\ token \in Seq(Tokens) /\ Len(token) = Len(asked)
    /\ offer \in Seq(SUBSET AllListed) /\ Len(offer) = Len(asked)
    /\ heard \in Seq(SUBSET AllListed) /\ Len(heard) = Len(asked)
    /\ thread \in [Handlers -> Inquiry]
    /\ file \in [Places -> {NoSnapshot} \cup Snapshot]
    /\ history \in [Places -> Seq(Snapshot)]
    /\ bank \in [Sites -> SUBSET Source]
    /\ searchLeft \in Left

\* What a request says of its authorization is so.
Knows(r) ==
    /\ r.at \notin {"away", "clear"} =>
        /\ r.ask \in DOMAIN asked
        /\ asked[r.ask].site = r.site /\ asked[r.ask].flow = r.flow
    /\ r.at \in {"get", "take", "exchange", "list"} => ~r.selects
    /\ r.at = "close" => r.selects
    /\ r.at = "clear" => r.site \in Sites /\ r.flow \in Flows
    /\ r.at \in {"fetch", "look", "move", "write"} => r.choice \in heard[r.ask]

\* One that was given a session finds it, or the session has lapsed, or another
\* that was given it has closed it.
HasSession(r) ==
    r.selects /\ r.at \in Working =>
        offer[r.ask] # {} \/ r.ask \in lapsed \/ token[r.ask] = "returned"

RequestsKnow == \A t \in Handlers : Knows(thread[t])
SessionsAreRead == \A t \in Handlers : HasSession(thread[t])
OffersHeard == \A a \in DOMAIN asked : offer[a] \subseteq heard[a]

\* Who may still hear what an authorization may read: whoever exchanges its code,
\* and then the request that did.
Unheard ==
    /\ \A a \in codes : heard[a] = {} /\ token[a] = "none"
    /\ \A t \in Handlers : thread[t].at = "list" =>
        /\ heard[thread[t].ask] = {} /\ thread[t].ask \notin codes
        /\ \A u \in Handlers :
             thread[u].at = "list" /\ thread[u].ask = thread[t].ask => u = t

\* Figures of a project and a flow that were authorized and listed.
AtHome(x, f, s) ==
    /\ x.ask \in DOMAIN asked
    /\ asked[x.ask].site = s /\ asked[x.ask].flow = f
    /\ x.property \in heard[x.ask]
FiguresAtHome ==
    /\ \A f \in Flows, s \in Sites :
        /\ file[<<f, s>>] # NoSnapshot => AtHome(file[<<f, s>>], f, s)
        /\ \A i \in DOMAIN history[<<f, s>>] : AtHome(history[<<f, s>>][i], f, s)
    /\ \A s \in Sites : \A b \in bank[s] : AtHome(b, "gsc", s)

\* A token that is held is some request's that will give it back, or a session's.
TokensEnd ==
    \A a \in DOMAIN asked : asked[a].flow = "ga4" /\ token[a] = "held" =>
        \/ \E t \in Handlers : thread[t].ask = a /\ thread[t].at \in Working
        \/ offer[a] # {} \/ a \in lapsed

SearchDataInv ==
    /\ SearchTypes /\ RequestsKnow /\ SessionsAreRead /\ OffersHeard /\ Unheard
    /\ FiguresAtHome /\ TokensEnd

-----------------------------------------------------------------------------
(* A request takes a step                                                  *)

\* What is at hand of request t.
LEMMA AtHand ==
    ASSUME SearchDataInv, NEW t \in Handlers
    PROVE  /\ thread[t] \in Inquiry
           /\ Knows(thread[t]) /\ HasSession(thread[t])
           /\ DOMAIN token = DOMAIN asked /\ DOMAIN offer = DOMAIN asked
           /\ DOMAIN heard = DOMAIN asked
           /\ \A a \in DOMAIN asked : offer[a] # {} => a \notin codes
           /\ thread[t].at \in {"list", "fetch", "look", "move", "write"} =>
                thread[t].ask \notin codes
<1>1. SearchTypes /\ RequestsKnow /\ SessionsAreRead /\ OffersHeard /\ Unheard
  BY DEF SearchDataInv
<1>2. /\ DOMAIN asked = 1 .. Len(asked) /\ DOMAIN token = 1 .. Len(token)
      /\ DOMAIN offer = 1 .. Len(offer) /\ DOMAIN heard = 1 .. Len(heard)
      /\ Len(token) = Len(asked) /\ Len(offer) = Len(asked) /\ Len(heard) = Len(asked)
  BY <1>1, LenProperties DEF SearchTypes
<1>3. thread[t] \in Inquiry /\ Knows(thread[t]) /\ HasSession(thread[t])
  BY <1>1 DEF SearchTypes, RequestsKnow, SessionsAreRead
<1>4. \A a \in DOMAIN asked : offer[a] # {} => a \notin codes
  BY <1>1 DEF OffersHeard, Unheard
<1>5. thread[t].at \in {"fetch", "look", "move", "write"} => thread[t].ask \notin codes
  BY <1>1, <1>3 DEF Knows, Unheard
<1>6. thread[t].at = "list" => thread[t].ask \notin codes
  BY <1>1 DEF Unheard
<1>7. QED
  BY <1>2, <1>3, <1>4, <1>5, <1>6

\* Inquiry t goes on as r, tokens only go back, and a session is only closed with
\* its token. What is said of requests, sessions and tokens stays so.
Moves(t, r) ==
    /\ thread' = [thread EXCEPT ![t] = r]
    /\ UNCHANGED <<asked, heard, lapsed>> /\ codes' \subseteq codes
    /\ \A a \in DOMAIN asked :
        /\ token'[a] = token[a] \/ (a \notin codes' /\ token'[a] = "returned")
        /\ offer'[a] = offer[a] \/ (offer'[a] = {} /\ token'[a] = "returned")

\* It takes the token of Analytics that it had with it.
Keeps(t, r) ==
    thread[t].at \in Working /\ asked[thread[t].ask].flow = "ga4" =>
        \/ r.at \in Working /\ r.ask = thread[t].ask
        \/ token'[thread[t].ask] # "held" \/ offer'[thread[t].ask] # {}
        \/ thread[t].ask \in lapsed

LEMMA MovesKeep ==
    ASSUME SearchDataInv, NEW t \in Handlers, NEW r \in Inquiry, Moves(t, r), Keeps(t, r),
           r.at # "list", Knows(r), HasSession(r)
    PROVE  /\ thread' \in [Handlers -> Inquiry]
           /\ RequestsKnow' /\ SessionsAreRead' /\ OffersHeard' /\ Unheard' /\ TokensEnd'
<1>1. /\ thread \in [Handlers -> Inquiry] /\ codes \subseteq DOMAIN asked
      /\ thread' = [thread EXCEPT ![t] = r] /\ asked' = asked /\ heard' = heard
      /\ lapsed' = lapsed /\ codes' \subseteq codes
  BY DEF SearchDataInv, SearchTypes, Moves
<1>2. /\ thread'[t] = r
      /\ \A u \in Handlers : u # t => thread'[u] = thread[u]
      /\ thread' \in [Handlers -> Inquiry]
  BY <1>1
<1>3. \A a \in DOMAIN asked :
        /\ token'[a] = token[a] \/ (a \notin codes' /\ token'[a] = "returned")
        /\ offer'[a] = offer[a] \/ (offer'[a] = {} /\ token'[a] = "returned")
  BY DEF Moves
<1>4. \A u \in Handlers : Knows(thread'[u]) /\ HasSession(thread'[u])
  BY <1>2 DEF SearchDataInv, RequestsKnow, SessionsAreRead
<1>5. RequestsKnow'
  BY <1>1, <1>4 DEF RequestsKnow, Knows
<1>6. SessionsAreRead'
  <2> SUFFICES ASSUME NEW u \in Handlers, thread'[u].selects, thread'[u].at \in Working
               PROVE  \/ offer'[thread'[u].ask] # {} \/ thread'[u].ask \in lapsed'
                      \/ token'[thread'[u].ask] = "returned"
    BY DEF SessionsAreRead, HasSession
  <2>1. thread'[u].ask \in DOMAIN asked
    BY <1>4 DEF Knows, Working
  <2>2. \/ offer[thread'[u].ask] # {} \/ thread'[u].ask \in lapsed
        \/ token[thread'[u].ask] = "returned"
    BY <1>4 DEF HasSession
  <2>3. QED
    BY <1>1, <1>3, <2>1, <2>2
<1>7. OffersHeard'
  BY <1>1, <1>3 DEF SearchDataInv, OffersHeard
<1>8. Unheard'
  <2>1. \A a \in codes' : heard'[a] = {} /\ token'[a] = "none"
    BY <1>1, <1>3 DEF SearchDataInv, Unheard
  <2>2. ASSUME NEW u \in Handlers, thread'[u].at = "list"
        PROVE  /\ heard'[thread'[u].ask] = {}
               /\ thread'[u].ask \notin codes'
               /\ \A v \in Handlers :
                    thread'[v].at = "list" /\ thread'[v].ask = thread'[u].ask => v = u
    BY <1>1, <1>2, <2>2 DEF SearchDataInv, Unheard
  <2>3. QED
    BY <2>1, <2>2 DEF Unheard
<1>9. TokensEnd'
  <2> SUFFICES ASSUME NEW a \in DOMAIN asked, asked[a].flow = "ga4", token'[a] = "held"
               PROVE  \/ \E u \in Handlers : thread'[u].ask = a /\ thread'[u].at \in Working
                      \/ offer'[a] # {} \/ a \in lapsed
    BY <1>1 DEF TokensEnd
  <2>1. token[a] = "held" /\ offer'[a] = offer[a]
    BY <1>3
  <2>2. CASE offer[a] # {} \/ a \in lapsed
    BY <2>1, <2>2
  <2>3. ASSUME NEW u \in Handlers, thread[u].ask = a, thread[u].at \in Working
        PROVE  \/ \E v \in Handlers : thread'[v].ask = a /\ thread'[v].at \in Working
               \/ offer'[a] # {} \/ a \in lapsed
    BY <1>2, <2>3 DEF Keeps
  <2>4. QED
    BY <2>1, <2>2, <2>3 DEF SearchDataInv, TokensEnd
<1>10. QED
  BY <1>2, <1>5, <1>6, <1>7, <1>8, <1>9

\* What may still happen stays a budget.
LEMMA SpendsTyped ==
    ASSUME searchLeft \in Left,
           NEW what \in {"selects", "deletes", "changes", "adds", "faults"}, Spends(what)
    PROVE  searchLeft' \in Left
<1>1. searchLeft[what] \in Nat /\ searchLeft[what] > 0
  BY DEF Spends, Left
<1>2. searchLeft[what] - 1 \in Nat
  BY <1>1
<1>3. searchLeft' = [searchLeft EXCEPT ![what] = searchLeft[what] - 1]
  BY DEF Spends
<1>4. QED
  BY <1>2, <1>3 DEF Left

\* A token goes back to Google.
LEMMA GoesBack ==
    ASSUME SearchDataInv, NEW a \in DOMAIN asked, GivesTokenBack(a)
    PROVE  /\ token' \in Seq(Tokens) /\ Len(token') = Len(token)
           /\ DOMAIN token' = DOMAIN token
           /\ \A b \in DOMAIN asked : token'[b] = IF b = a THEN "returned" ELSE token[b]
<1>1. /\ token \in Seq(Tokens) /\ Len(token) = Len(asked) /\ asked \in Seq(Ask)
      /\ DOMAIN token = 1 .. Len(token) /\ DOMAIN asked = 1 .. Len(asked)
  BY LenProperties DEF SearchDataInv, SearchTypes
<1>2. token' = [token EXCEPT ![a] = "returned"] /\ "returned" \in Tokens /\ a \in 1 .. Len(token)
  BY <1>1 DEF GivesTokenBack, Tokens
<1>3. token' \in Seq(Tokens) /\ Len(token') = Len(token)
  BY <1>1, <1>2, ExceptSeq
<1>4. QED
  BY <1>1, <1>2, <1>3

\* Figures, and what was authorized, stay where they are.
LEMMA FiguresStay ==
    ASSUME SearchDataInv, UNCHANGED <<asked, heard, file, history, bank>>
    PROVE  FiguresAtHome'
BY DEF SearchDataInv, FiguresAtHome, AtHome

\* A step of one request that leaves figures alone.
LEMMA RequestStep ==
    ASSUME SearchDataInv, NEW t \in Handlers, NEW r \in Inquiry, Moves(t, r), Keeps(t, r),
           r.at # "list", Knows(r), HasSession(r),
           token' \in Seq(Tokens), Len(token') = Len(token),
           offer' \in Seq(SUBSET AllListed), Len(offer') = Len(offer),
           searchLeft' \in Left, UNCHANGED data
    PROVE  SearchDataInv'
<1>1. /\ thread' \in [Handlers -> Inquiry]
      /\ RequestsKnow' /\ SessionsAreRead' /\ OffersHeard' /\ Unheard' /\ TokensEnd'
  BY MovesKeep
<1>2. UNCHANGED <<asked, heard, file, history, bank>> /\ codes' \subseteq codes
  BY DEF Moves, data
<1>3. FiguresAtHome'
  BY <1>2, FiguresStay
<1>4. SearchTypes'
  BY <1>1, <1>2 DEF SearchDataInv, SearchTypes
<1>5. QED
  BY <1>1, <1>3, <1>4 DEF SearchDataInv

\* A request that neither gives back a token nor closes a session.
LEMMA QuietStep ==
    ASSUME SearchDataInv, NEW t \in Handlers, NEW r \in Inquiry,
           thread' = [thread EXCEPT ![t] = r],
           UNCHANGED <<asked, heard, lapsed, codes, token, offer, data>>,
           searchLeft' \in Left,
           thread[t].at \in Working => r.at \in Working /\ r.ask = thread[t].ask,
           r.at # "list", Knows(r), HasSession(r)
    PROVE  SearchDataInv'
<1>1. Moves(t, r)
  BY DEF Moves
<1>2. Keeps(t, r)
  BY DEF Keeps
<1>3. /\ token' \in Seq(Tokens) /\ Len(token') = Len(token)
      /\ offer' \in Seq(SUBSET AllListed) /\ Len(offer') = Len(offer)
  BY DEF SearchDataInv, SearchTypes
<1>4. QED
  BY <1>1, <1>2, <1>3, RequestStep DEF data

-----------------------------------------------------------------------------
(* The steps of a request that leave figures alone                         *)

LEMMA UnusedIdle ==
    ASSUME TRUE
    PROVE  Unused \in Inquiry /\ Knows(Unused) /\ HasSession(Unused) /\ Unused.at = "away"
BY DEF Unused, Inquiry, Knows, HasSession, Working

\* A request that stands somewhere else with what it knows.
LEMMA StandsElsewhere ==
    ASSUME NEW r \in Inquiry, NEW at \in Working \cup {"away", "get", "take", "exchange", "clear"}
    PROVE  /\ [r EXCEPT !.at = at] \in Inquiry
           /\ [r EXCEPT !.at = at].at = at
           /\ [r EXCEPT !.at = at].ask = r.ask /\ [r EXCEPT !.at = at].site = r.site
           /\ [r EXCEPT !.at = at].flow = r.flow /\ [r EXCEPT !.at = at].choice = r.choice
           /\ [r EXCEPT !.at = at].selects = r.selects
BY DEF Inquiry

LEMMA TakesVerifier ==
    ASSUME NEW r \in Inquiry, NEW has \in BOOLEAN
    PROVE  LET q == [r EXCEPT !.at = "take", !.has = has]
           IN  /\ q \in Inquiry /\ q.at = "take" /\ q.ask = r.ask /\ q.site = r.site
               /\ q.flow = r.flow /\ q.choice = r.choice /\ q.selects = r.selects
BY DEF Inquiry

LEMMA KnowsOn ==
    ASSUME NEW r, NEW q, Knows(r), HasSession(r), q.ask = r.ask, q.site = r.site,
           q.flow = r.flow, q.choice = r.choice, q.selects = r.selects,
           r.at \notin {"away", "clear"}, q.at # "clear",
           q.at \in {"fetch", "look", "move", "write"} =>
                r.at \in {"fetch", "look", "move", "write"},
           q.at \in Working => r.at \in Working,
           q.at \in {"get", "take", "exchange", "list"} =>
                r.at \in {"get", "take", "exchange", "list"},
           q.at = "close" => r.selects
    PROVE  Knows(q) /\ HasSession(q)
BY DEF Knows, HasSession

LEMMA MovesToIs ==
    ASSUME SearchDataInv, NEW t \in Handlers, NEW at, MovesTo(t, at)
    PROVE  thread' = [thread EXCEPT ![t] = [thread[t] EXCEPT !.at = at]]
BY DEF MovesTo, SearchDataInv, SearchTypes

LEMMA BeforeTheToken ==
    ASSUME SearchDataInv, NEW t \in Handlers,
           GetVerifier(t) \/ TakeVerifier(t) \/ \E a \in DOMAIN asked : Callback(t, a)
    PROVE  SearchDataInv'
<1> USE DEF tenant, redis, google, data
<1>1. ASSUME NEW a \in DOMAIN asked, Callback(t, a)
      PROVE  SearchDataInv'
  <2> DEFINE r == [Unused EXCEPT !.at = "get", !.ask = a, !.site = asked[a].site,
                                 !.user = asked[a].user, !.flow = asked[a].flow]
  <2>1. asked[a] \in Ask /\ a \in Nat
    BY ElementOfSeq, LenProperties DEF SearchDataInv, SearchTypes
  <2>2. r \in Inquiry /\ Knows(r) /\ HasSession(r) /\ r.at = "get"
    BY <2>1 DEF Unused, Inquiry, Knows, HasSession, Working, Ask
  <2>3. /\ thread' = [thread EXCEPT ![t] = r] /\ thread[t] = Unused
        /\ UNCHANGED <<asked, heard, lapsed, codes, token, offer, data, searchLeft>>
    BY <1>1 DEF Callback
  <2> HIDE DEF r
  <2>4. searchLeft' \in Left /\ thread[t].at \notin Working
    BY <2>3, UnusedIdle DEF SearchDataInv, SearchTypes, Working
  <2>5. QED
    BY <2>2, <2>3, <2>4, QuietStep
<1>2. CASE GetVerifier(t)
  <2> DEFINE r == [thread[t] EXCEPT !.at = "take", !.has = thread[t].ask \in verifiers]
  <2>1. thread[t] \in Inquiry /\ Knows(thread[t]) /\ HasSession(thread[t]) /\ thread[t].at = "get"
    BY <1>2, AtHand DEF GetVerifier
  <2>2. r \in Inquiry /\ Knows(r) /\ HasSession(r) /\ r.at = "take"
    <3>1. /\ r \in Inquiry /\ r.at = "take" /\ r.ask = thread[t].ask /\ r.site = thread[t].site
          /\ r.flow = thread[t].flow /\ r.choice = thread[t].choice
          /\ r.selects = thread[t].selects
      <4> DEFINE has == thread[t].ask \in verifiers
      <4>1. has \in BOOLEAN
        OBVIOUS
      <4> HIDE DEF has
      <4>2. QED
        BY <2>1, <4>1, TakesVerifier DEF has
    <3> HIDE DEF r
    <3>2. QED
      BY <2>1, <3>1, KnowsOn DEF Working
  <2>3. /\ thread' = [thread EXCEPT ![t] = r]
        /\ UNCHANGED <<asked, heard, lapsed, codes, token, offer, data, searchLeft>>
    BY <1>2 DEF GetVerifier, SearchDataInv, SearchTypes
  <2> HIDE DEF r
  <2>4. searchLeft' \in Left /\ thread[t].at \notin Working
    BY <2>1, <2>3 DEF SearchDataInv, SearchTypes, Working
  <2>5. QED
    BY <2>2, <2>3, <2>4, QuietStep
<1>3. CASE TakeVerifier(t)
  <2> DEFINE r == IF thread[t].has THEN [thread[t] EXCEPT !.at = "exchange"] ELSE Unused
  <2>1. thread[t] \in Inquiry /\ Knows(thread[t]) /\ HasSession(thread[t]) /\ thread[t].at = "take"
    BY <1>3, AtHand DEF TakeVerifier
  <2>2. r \in Inquiry /\ Knows(r) /\ HasSession(r) /\ r.at # "list"
    <3>1. CASE ~thread[t].has
      BY <3>1, UnusedIdle
    <3>2. CASE thread[t].has
      <4>1. /\ r \in Inquiry /\ r.at = "exchange" /\ r.ask = thread[t].ask
            /\ r.site = thread[t].site /\ r.flow = thread[t].flow
            /\ r.choice = thread[t].choice /\ r.selects = thread[t].selects
        BY <2>1, <3>2, StandsElsewhere DEF Working
      <4> HIDE DEF r
      <4>2. QED
        BY <2>1, <4>1, KnowsOn DEF Working
    <3>3. QED
      BY <3>1, <3>2
  <2>3. /\ thread' = [thread EXCEPT ![t] = r]
        /\ UNCHANGED <<asked, heard, lapsed, codes, token, offer, data, searchLeft>>
    BY <1>3, MovesToIs DEF TakeVerifier, Returns
  <2> HIDE DEF r
  <2>4. searchLeft' \in Left /\ thread[t].at \notin Working
    BY <2>1, <2>3 DEF SearchDataInv, SearchTypes, Working
  <2>5. QED
    BY <2>2, <2>3, <2>4, QuietStep
<1>4. QED
  BY <1>1, <1>2, <1>3

\* The editor chooses; a snapshot is fetched, or the place of the old one is looked at.
LEMMA WithAChoice ==
    ASSUME SearchDataInv, NEW t \in Handlers,
           \/ Fetch(t) \/ Look(t)
           \/ \E a \in DOMAIN asked, u \in Users, s \in Sites, f \in Flows, p \in AllListed :
                Select(t, a, u, s, f, p)
    PROVE  SearchDataInv'
<1> USE DEF tenant, redis, google, data
<1>1. ASSUME NEW a \in DOMAIN asked, NEW u \in Users, NEW s \in Sites, NEW f \in Flows,
             NEW p \in AllListed, Select(t, a, u, s, f, p)
      PROVE  SearchDataInv'
  <2> DEFINE r == [Unused EXCEPT !.at = "fetch", !.ask = a, !.user = u, !.site = s,
                                 !.flow = f, !.choice = p, !.selects = TRUE]
  <2>1. /\ offer[a] # {} /\ p \in offer[a]
        /\ asked[a] = [user |-> u, site |-> s, flow |-> f]
    BY <1>1 DEF Select, ReadSession
  <2>2. a \in Nat /\ p \in heard[a]
    BY <2>1, LenProperties DEF SearchDataInv, SearchTypes, OffersHeard
  <2>3. r \in Inquiry /\ Knows(r) /\ HasSession(r) /\ r.at = "fetch"
    <3>1. /\ r \in Inquiry /\ r.at = "fetch" /\ r.ask = a /\ r.site = s /\ r.flow = f
          /\ r.choice = p
      BY <2>2 DEF Unused, Inquiry, Working
    <3>2. asked[a].site = s /\ asked[a].flow = f
      BY <2>1
    <3> HIDE DEF r
    <3>3. QED
      BY <2>1, <2>2, <3>1, <3>2 DEF Knows, HasSession
  <2>4. /\ thread' = [thread EXCEPT ![t] = r] /\ thread[t] = Unused
        /\ UNCHANGED <<asked, heard, lapsed, codes, token, offer, data>>
    BY <1>1 DEF Select
  <2> HIDE DEF r
  <2>5. searchLeft' \in Left /\ thread[t].at \notin Working
    <3>1. Spends("selects") /\ searchLeft \in Left
      BY <1>1 DEF Select, SearchDataInv, SearchTypes
    <3>2. searchLeft' \in Left
      BY <3>1, SpendsTyped
    <3>3. QED
      BY <2>4, <3>2, UnusedIdle DEF Working
  <2>6. QED
    BY <2>3, <2>4, <2>5, QuietStep
<1>2. ASSUME NEW at \in {"look", "write", "move"}, thread[t].at \in {"fetch", "look"}, MovesTo(t, at),
             UNCHANGED <<asked, heard, lapsed, codes, token, offer, data, searchLeft>>
      PROVE  SearchDataInv'
  <2> DEFINE r == [thread[t] EXCEPT !.at = at]
  <2>1. thread[t] \in Inquiry /\ Knows(thread[t]) /\ HasSession(thread[t])
    BY AtHand
  <2>2. r \in Inquiry /\ Knows(r) /\ HasSession(r) /\ r.at = at /\ r.ask = thread[t].ask
    <3>1. /\ r \in Inquiry /\ r.at = at /\ r.ask = thread[t].ask /\ r.site = thread[t].site
          /\ r.flow = thread[t].flow /\ r.choice = thread[t].choice
          /\ r.selects = thread[t].selects
      BY <1>2, <2>1, StandsElsewhere DEF Working
    <3> HIDE DEF r
    <3>2. QED
      BY <1>2, <2>1, <3>1, KnowsOn DEF Working
  <2>3. thread' = [thread EXCEPT ![t] = r]
    BY <1>2, MovesToIs
  <2> HIDE DEF r
  <2>4. searchLeft' \in Left /\ at \in Working /\ at # "list"
    BY <1>2 DEF SearchDataInv, SearchTypes, Working
  <2>5. QED
    BY <1>2, <2>2, <2>3, <2>4, QuietStep
<1>3. QED
  BY <1>1, <1>2 DEF Fetch, Look

\* A call fails: the token goes back, or the session is closed next, or the
\* token was not one of Analytics.
LEMMA RaiseKeeps ==
    ASSUME SearchDataInv, NEW t \in Handlers, NEW kind,
           thread[t].at \in {"list", "fetch", "look", "move", "write"}, Raise(t, kind),
           UNCHANGED <<asked, heard, lapsed, codes, offer, data>>, searchLeft' \in Left
    PROVE  SearchDataInv'
<1>1. /\ thread[t] \in Inquiry /\ Knows(thread[t]) /\ HasSession(thread[t])
      /\ thread[t].ask \notin codes /\ thread[t].at \in Working
  BY AtHand DEF Working
<1>2. thread[t].ask \in DOMAIN asked /\ asked[thread[t].ask].flow = thread[t].flow
  BY <1>1 DEF Knows
<1>3. /\ token \in Seq(Tokens)
      /\ offer' \in Seq(SUBSET AllListed) /\ Len(offer') = Len(offer)
  BY DEF SearchDataInv, SearchTypes
<1>4. CASE thread[t].selects /\ MovesTo(t, "close") /\ UNCHANGED token
  <2>2. thread' = [thread EXCEPT ![t] = [thread[t] EXCEPT !.at = "close"]]
    BY <1>4, MovesToIs
  <2> DEFINE r == [thread[t] EXCEPT !.at = "close"]
  <2>3. r \in Inquiry /\ Knows(r) /\ HasSession(r) /\ r.at = "close" /\ r.ask = thread[t].ask
    <3>1. /\ r \in Inquiry /\ r.at = "close" /\ r.ask = thread[t].ask
          /\ r.site = thread[t].site /\ r.flow = thread[t].flow
          /\ r.choice = thread[t].choice /\ r.selects = thread[t].selects
      BY <1>1, StandsElsewhere DEF Working
    <3> HIDE DEF r
    <3>2. QED
      BY <1>1, <1>4, <3>1, KnowsOn DEF Working
  <2>4. r.at \in Working /\ thread' = [thread EXCEPT ![t] = r]
    BY <2>2, <2>3 DEF Working
  <2> HIDE DEF r
  <2>5. QED
    BY <1>4, <2>3, <2>4, QuietStep
<1>5. CASE ~thread[t].selects /\ GivesTokenBack(thread[t].ask) /\ Returns(t)
  <2>1. /\ token' \in Seq(Tokens) /\ Len(token') = Len(token)
        /\ \A b \in DOMAIN asked : token'[b] = IF b = thread[t].ask THEN "returned" ELSE token[b]
    BY <1>2, <1>5, GoesBack
  <2>2. Moves(t, Unused)
    BY <1>1, <1>5, <2>1 DEF Moves, Returns
  <2>3. Keeps(t, Unused)
    BY <1>2, <2>1 DEF Keeps
  <2>4. QED
    BY <1>3, <2>1, <2>2, <2>3, UnusedIdle, RequestStep
<1>6. CASE ~thread[t].selects /\ thread[t].flow # "ga4" /\ UNCHANGED token /\ Returns(t)
  <2>1. Moves(t, Unused) /\ Keeps(t, Unused)
    BY <1>2, <1>6 DEF Moves, Keeps, Returns
  <2>2. QED
    BY <1>3, <1>6, <2>1, UnusedIdle, RequestStep
<1>7. \/ thread[t].selects /\ MovesTo(t, "close") /\ UNCHANGED token
      \/ ~thread[t].selects /\ GivesTokenBack(thread[t].ask) /\ Returns(t)
      \/ ~thread[t].selects /\ thread[t].flow # "ga4" /\ UNCHANGED token /\ Returns(t)
  BY Zenon DEF Raise
<1>8. QED
  BY <1>4, <1>5, <1>6, <1>7

LEMMA CallsFail ==
    ASSUME SearchDataInv, NEW t \in Handlers,
           \/ \E kind \in {"upstream", "other"} : ListFails(t, kind) \/ FetchFails(t, kind)
           \/ WriteFails(t)
    PROVE  SearchDataInv'
<1>1. PICK kind : Faults(t, kind) /\ thread[t].at \in {"list", "fetch", "look", "write"}
  BY DEF ListFails, FetchFails, WriteFails
<1>2. /\ Raise(t, kind) /\ Spends("faults")
      /\ UNCHANGED <<asked, heard, lapsed, codes, offer, data>>
  BY <1>1 DEF Faults, redis, data
<1>3. searchLeft \in Left
  BY DEF SearchDataInv, SearchTypes
<1>4. searchLeft' \in Left
  BY <1>2, <1>3, SpendsTyped
<1>5. QED
  BY <1>1, <1>2, <1>4, RaiseKeeps

\* A session is closed: its token goes back if it was still there.
LEMMA CloseKeeps ==
    ASSUME SearchDataInv, NEW t \in Handlers, CloseSession(t)
    PROVE  SearchDataInv'
<1> DEFINE a == thread[t].ask
<1>1. /\ thread[t].at = "close" /\ thread' = [thread EXCEPT ![t] = Unused]
      /\ offer' = [offer EXCEPT ![a] = {}]
      /\ UNCHANGED <<asked, lapsed, codes, heard, file, history, bank, searchLeft>>
      /\ IF offer[a] # {} THEN GivesTokenBack(a) ELSE UNCHANGED token
  BY DEF CloseSession, Returns, data
<1>2. /\ Knows(thread[t]) /\ HasSession(thread[t])
      /\ DOMAIN offer = DOMAIN asked /\ DOMAIN token = DOMAIN asked
      /\ \A b \in DOMAIN asked : offer[b] # {} => b \notin codes
  BY AtHand
<1>3. a \in DOMAIN asked
  BY <1>1, <1>2 DEF Knows
<1>4. /\ offer \in Seq(SUBSET AllListed) /\ token \in Seq(Tokens) /\ searchLeft \in Left
      /\ a \in 1 .. Len(offer) /\ {} \in SUBSET AllListed
  BY <1>2, <1>3, LenProperties DEF SearchDataInv, SearchTypes
<1>5. offer' \in Seq(SUBSET AllListed) /\ Len(offer') = Len(offer)
  BY <1>1, <1>4, ExceptSeq
<1>6. \A b \in DOMAIN asked : offer'[b] = IF b = a THEN {} ELSE offer[b]
  BY <1>1, <1>2
<1>7. CASE offer[a] # {}
  <2>1. /\ token' \in Seq(Tokens) /\ Len(token') = Len(token)
        /\ \A b \in DOMAIN asked : token'[b] = IF b = a THEN "returned" ELSE token[b]
    BY <1>1, <1>3, <1>7, GoesBack
  <2>2. Moves(t, Unused)
    BY <1>1, <1>2, <1>6, <1>7, <2>1 DEF Moves
  <2>3. Keeps(t, Unused)
    BY <1>3, <2>1 DEF Keeps
  <2>4. QED
    BY <1>1, <1>4, <1>5, <2>1, <2>2, <2>3, UnusedIdle, RequestStep DEF data
<1>8. CASE offer[a] = {}
  <2>1. token' = token
    BY <1>1, <1>8
  <2>2. Moves(t, Unused)
    BY <1>1, <1>6, <1>8, <2>1 DEF Moves
  <2>3. Keeps(t, Unused)
    BY <1>1, <1>2, <1>8, <2>1 DEF Keeps, Knows, HasSession
  <2>4. QED
    BY <1>1, <1>4, <1>5, <2>1, <2>2, <2>3, UnusedIdle, RequestStep DEF data
<1>9. QED
  BY <1>7, <1>8

\* A code is exchanged: the token is the request's, and the code is spent.
LEMMA ExchangeKeeps ==
    ASSUME SearchDataInv, NEW t \in Handlers, NEW granted \in BOOLEAN, ExchangeCode(t, granted)
    PROVE  SearchDataInv'
<1> DEFINE a == thread[t].ask
<1>1. /\ thread[t].at = "exchange" /\ codes' = codes \ {a}
      /\ UNCHANGED <<asked, lapsed, offer, heard, file, history, bank, searchLeft>>
  BY DEF ExchangeCode, redis, data
<1>2. /\ thread[t] \in Inquiry /\ Knows(thread[t]) /\ DOMAIN offer = DOMAIN asked
      /\ DOMAIN token = DOMAIN asked /\ DOMAIN heard = DOMAIN asked
  BY AtHand
<1>3. a \in DOMAIN asked
  BY <1>1, <1>2 DEF Knows
<1>4. /\ offer' \in Seq(SUBSET AllListed) /\ Len(offer') = Len(offer)
      /\ token \in Seq(Tokens) /\ searchLeft' \in Left /\ UNCHANGED data
  BY <1>1 DEF SearchDataInv, SearchTypes, data
<1>5. thread[t].at \notin Working
  BY <1>1 DEF Working
<1>6. CASE a \notin codes /\ Returns(t) /\ UNCHANGED token
  <2>1. Moves(t, Unused) /\ Keeps(t, Unused)
    BY <1>1, <1>5, <1>6 DEF Moves, Keeps, Returns
  <2>2. QED
    BY <1>4, <1>6, <2>1, UnusedIdle, RequestStep
<1>7. CASE Returns(t) /\ GivesTokenBack(a)
  <2>1. /\ token' \in Seq(Tokens) /\ Len(token') = Len(token)
        /\ \A b \in DOMAIN asked : token'[b] = IF b = a THEN "returned" ELSE token[b]
    BY <1>3, <1>7, GoesBack
  <2>2. Moves(t, Unused) /\ Keeps(t, Unused)
    BY <1>1, <1>5, <1>7, <2>1 DEF Moves, Keeps, Returns
  <2>3. QED
    BY <1>4, <2>1, <2>2, UnusedIdle, RequestStep
<1>8. CASE a \in codes /\ MovesTo(t, "list") /\ token' = [token EXCEPT ![a] = "held"]
  <2> DEFINE r == [thread[t] EXCEPT !.at = "list"]
  <2>1. /\ r \in Inquiry /\ r.at = "list" /\ r.ask = a /\ r.site = thread[t].site
        /\ r.flow = thread[t].flow /\ r.choice = thread[t].choice
        /\ r.selects = thread[t].selects
    <3>1. "list" \in Working
      BY DEF Working
    <3>2. QED
      BY <1>2, <3>1, StandsElsewhere
  <2>2. thread' = [thread EXCEPT ![t] = r]
    BY <1>8, MovesToIs
  <2> HIDE DEF r, a
  <2>3. /\ thread' \in [Handlers -> Inquiry] /\ thread'[t] = r
        /\ \A u \in Handlers \ {t} : thread'[u] = thread[u]
    BY <2>1, <2>2 DEF SearchDataInv, SearchTypes
  <2>4. heard[a] = {} /\ token[a] = "none"
    BY <1>8 DEF SearchDataInv, Unheard
  <2>5. token' \in Seq(Tokens) /\ Len(token') = Len(token)
    <3>1. token \in Seq(Tokens) /\ a \in 1 .. Len(token) /\ "held" \in Tokens
      BY <1>2, <1>3, <1>4, LenProperties DEF Tokens
    <3>2. QED
      BY <1>8, <3>1, ExceptSeq
  <2>6. \A b \in DOMAIN asked : token'[b] = IF b = a THEN "held" ELSE token[b]
    BY <1>2, <1>8
  <2>7. ~r.selects /\ Knows(r) /\ ~thread[t].selects
    BY <1>1, <1>2, <1>3, <2>1 DEF Knows, a
  <2>8. RequestsKnow'
    BY <1>1, <2>3, <2>7 DEF SearchDataInv, RequestsKnow, Knows
  <2>9. SessionsAreRead'
    <3> SUFFICES ASSUME NEW u \in Handlers, thread'[u].selects, thread'[u].at \in Working
                 PROVE  \/ offer'[thread'[u].ask] # {} \/ thread'[u].ask \in lapsed'
                        \/ token'[thread'[u].ask] = "returned"
      BY DEF SessionsAreRead, HasSession
    <3>1. u # t /\ thread'[u] = thread[u]
      BY <2>3, <2>7
    <3>2. Knows(thread[u]) /\ HasSession(thread[u])
      BY DEF SearchDataInv, RequestsKnow, SessionsAreRead
    <3>3. thread[u].ask \in DOMAIN asked
      BY <3>1, <3>2 DEF Knows, Working
    <3>4. QED
      BY <1>1, <2>4, <2>6, <3>1, <3>2, <3>3 DEF HasSession
  <2>10. OffersHeard' /\ FiguresAtHome'
    BY <1>1, FiguresStay DEF SearchDataInv, OffersHeard
  <2>11. Unheard'
    <3>1. \A b \in codes' : heard'[b] = {} /\ token'[b] = "none"
      BY <1>1, <2>6 DEF SearchDataInv, SearchTypes, Unheard
    <3>2. ASSUME NEW u \in Handlers, thread'[u].at = "list"
          PROVE  /\ heard'[thread'[u].ask] = {} /\ thread'[u].ask \notin codes'
                 /\ \A v \in Handlers :
                      thread'[v].at = "list" /\ thread'[v].ask = thread'[u].ask => v = u
      BY <1>1, <1>8, <2>1, <2>3, <2>4, <3>2 DEF SearchDataInv, Unheard
    <3>3. QED
      BY <3>1, <3>2 DEF Unheard
  <2>12. TokensEnd'
    <3> SUFFICES ASSUME NEW b \in DOMAIN asked, asked[b].flow = "ga4", token'[b] = "held"
                 PROVE  \/ \E u \in Handlers : thread'[u].ask = b /\ thread'[u].at \in Working
                        \/ offer'[b] # {} \/ b \in lapsed'
      BY <1>1 DEF TokensEnd
    <3>1. CASE b = a
      BY <2>1, <2>3, <3>1 DEF Working
    <3>2. CASE b # a
      BY <1>1, <1>5, <2>3, <2>6, <3>2 DEF SearchDataInv, TokensEnd
    <3>3. QED
      BY <3>1, <3>2
  <2>13. SearchTypes'
    BY <1>1, <1>4, <2>3, <2>5 DEF SearchDataInv, SearchTypes
  <2>14. QED
    BY <2>8, <2>9, <2>10, <2>11, <2>12, <2>13 DEF SearchDataInv
<1>9. QED
  BY <1>6, <1>7, <1>8 DEF ExchangeCode

-----------------------------------------------------------------------------
(* A request hears what its authorization may read                         *)

\* Inquiry t hears what a may read and goes on as r. It is the only one that
\* does, and nothing was built on a before: what is heard only grows.
Hears(t, r, a, listed) ==
    /\ thread' = [thread EXCEPT ![t] = r]
    /\ heard' = [heard EXCEPT ![a] = listed]
    /\ UNCHANGED <<asked, lapsed, codes, file, history, bank, searchLeft>>
    /\ \A b \in DOMAIN asked :
        /\ token'[b] = token[b] \/ (b = a /\ token'[b] = "returned")
        /\ offer'[b] = offer[b] \/ (b = a /\ offer'[b] # {} /\ offer'[b] \subseteq listed)
    /\ asked[a].flow = "ga4" =>
        (r.at \in Working /\ r.ask = a) \/ token'[a] = "returned" \/ offer'[a] # {}

LEMMA HearingKeeps ==
    ASSUME SearchDataInv, NEW t \in Handlers, thread[t].at = "list", NEW r \in Inquiry,
           NEW listed \in SUBSET AllListed, Hears(t, r, thread[t].ask, listed),
           r.at # "list", ~r.selects, Knows(r)',
           token' \in Seq(Tokens), Len(token') = Len(token),
           offer' \in Seq(SUBSET AllListed), Len(offer') = Len(offer)
    PROVE  SearchDataInv'
<1> DEFINE a == thread[t].ask
<1>1. /\ Knows(thread[t]) /\ DOMAIN heard = DOMAIN asked /\ a \notin codes
  BY AtHand
<1>2. a \in DOMAIN asked /\ heard[a] = {} /\ offer[a] = {}
  BY <1>1 DEF Knows, SearchDataInv, Unheard, OffersHeard
<1> HIDE DEF a
<1>3. /\ thread' = [thread EXCEPT ![t] = r] /\ heard' = [heard EXCEPT ![a] = listed]
      /\ UNCHANGED <<asked, lapsed, codes, file, history, bank, searchLeft>>
      /\ \A b \in DOMAIN asked :
          /\ token'[b] = token[b] \/ (b = a /\ token'[b] = "returned")
          /\ offer'[b] = offer[b] \/ (b = a /\ offer'[b] # {} /\ offer'[b] \subseteq listed)
      /\ asked[a].flow = "ga4" =>
          (r.at \in Working /\ r.ask = a) \/ token'[a] = "returned" \/ offer'[a] # {}
  BY DEF Hears, a
<1>4. /\ thread' \in [Handlers -> Inquiry] /\ thread'[t] = r
      /\ \A u \in Handlers \ {t} : thread'[u] = thread[u]
  BY <1>3 DEF SearchDataInv, SearchTypes
<1>5. \A b \in DOMAIN asked : heard'[b] = IF b = a THEN listed ELSE heard[b]
  BY <1>1, <1>3
<1>6. \A b \in DOMAIN asked : heard[b] \subseteq heard'[b]
  BY <1>2, <1>5
<1>7. heard' \in Seq(SUBSET AllListed) /\ Len(heard') = Len(heard)
  <2>1. heard \in Seq(SUBSET AllListed) /\ a \in 1 .. Len(heard)
    BY <1>1, <1>2, LenProperties DEF SearchDataInv, SearchTypes
  <2>2. QED
    BY <1>3, <2>1, ExceptSeq
<1>8. SearchTypes'
  BY <1>3, <1>4, <1>7 DEF SearchDataInv, SearchTypes
<1>9. RequestsKnow'
  <2> SUFFICES ASSUME NEW u \in Handlers PROVE Knows(thread[u])'
    BY DEF RequestsKnow
  <2>1. CASE u = t
    BY <1>4, <2>1 DEF Knows
  <2>2. CASE u # t
    <3>1. Knows(thread[u]) /\ thread'[u] = thread[u]
      BY <1>4, <2>2 DEF SearchDataInv, RequestsKnow
    <3>2. QED
      BY <1>3, <1>6, <3>1 DEF Knows
  <2>3. QED
    BY <2>1, <2>2
<1>10. SessionsAreRead'
  <2> SUFFICES ASSUME NEW u \in Handlers, thread'[u].selects, thread'[u].at \in Working
               PROVE  \/ offer'[thread'[u].ask] # {} \/ thread'[u].ask \in lapsed'
                      \/ token'[thread'[u].ask] = "returned"
    BY DEF SessionsAreRead, HasSession
  <2>1. u # t /\ thread'[u] = thread[u]
    BY <1>4
  <2>2. Knows(thread[u]) /\ HasSession(thread[u])
    BY DEF SearchDataInv, RequestsKnow, SessionsAreRead
  <2>3. thread[u].ask \in DOMAIN asked
    BY <2>1, <2>2 DEF Knows, Working
  <2>4. QED
    BY <1>3, <2>1, <2>2, <2>3 DEF HasSession
<1>11. OffersHeard'
  BY <1>3, <1>5, <1>6 DEF SearchDataInv, OffersHeard
<1>12. Unheard'
  <2>1. \A b \in codes' : heard'[b] = {} /\ token'[b] = "none"
    BY <1>1, <1>3, <1>5 DEF SearchDataInv, SearchTypes, Unheard, a
  <2>2. ASSUME NEW u \in Handlers, thread'[u].at = "list"
        PROVE  /\ heard'[thread'[u].ask] = {} /\ thread'[u].ask \notin codes'
               /\ \A v \in Handlers :
                    thread'[v].at = "list" /\ thread'[v].ask = thread'[u].ask => v = u
    <3>1. u # t /\ thread'[u] = thread[u]
      BY <1>4, <2>2
    <3>2. Knows(thread[u]) /\ thread[u].ask # a
      BY <2>2, <3>1 DEF SearchDataInv, RequestsKnow, Unheard, a
    <3>3. thread[u].ask \in DOMAIN asked
      BY <2>2, <3>1, <3>2 DEF Knows
    <3>4. heard[thread[u].ask] = {} /\ thread[u].ask \notin codes
      BY <2>2, <3>1 DEF SearchDataInv, Unheard
    <3>5. heard'[thread'[u].ask] = {} /\ thread'[u].ask \notin codes'
      BY <1>3, <1>5, <3>1, <3>2, <3>3, <3>4
    <3>6. ASSUME NEW v \in Handlers, thread'[v].at = "list", thread'[v].ask = thread'[u].ask
          PROVE  v = u
      <4>1. v # t /\ thread'[v] = thread[v]
        BY <1>4, <3>6
      <4>2. QED
        BY <2>2, <3>1, <3>6, <4>1 DEF SearchDataInv, Unheard
    <3>7. QED
      BY <3>5, <3>6
  <2>3. QED
    BY <2>1, <2>2 DEF Unheard
<1>13. FiguresAtHome'
  BY <1>3, <1>6 DEF SearchDataInv, FiguresAtHome, AtHome
<1>14. TokensEnd'
  <2> SUFFICES ASSUME NEW b \in DOMAIN asked, asked[b].flow = "ga4", token'[b] = "held"
               PROVE  \/ \E u \in Handlers : thread'[u].ask = b /\ thread'[u].at \in Working
                      \/ offer'[b] # {} \/ b \in lapsed'
    BY <1>3 DEF TokensEnd
  <2>1. CASE b = a
    BY <1>3, <1>4, <2>1
  <2>2. CASE b # a
    <3>1. token[b] = "held" /\ offer'[b] = offer[b]
      BY <1>3, <2>2
    <3>2. QED
      BY <1>3, <1>4, <2>2, <3>1 DEF SearchDataInv, TokensEnd, a
  <2>3. QED
    BY <2>1, <2>2
<1>15. QED
  BY <1>8, <1>9, <1>10, <1>11, <1>12, <1>13, <1>14 DEF SearchDataInv

\* What is offered, and what is taken without asking, is among what was found.
LEMMA OfferedFound ==
    ASSUME NEW flow, NEW site, NEW found
    PROVE  Offered(flow, site, found) \subseteq found /\ MatchSites(site, found) \subseteq found
BY DEF Offered, MatchSites, MatchProperties, Fallback, FirstOf

LEMMA ListingKeeps ==
    ASSUME SearchDataInv, NEW t \in Handlers, NEW listed \in Accounts, NEW found \in SUBSET listed,
           ListProperties(t, listed, found)
    PROVE  SearchDataInv'
<1> DEFINE a == thread[t].ask
           sure == MatchSites(thread[t].site, found)
           choices == Offered(thread[t].flow, thread[t].site, found)
<1>1. /\ thread[t].at = "list" /\ heard' = [heard EXCEPT ![a] = listed]
      /\ UNCHANGED <<asked, lapsed, codes, file, history, bank, searchLeft>>
  BY DEF ListProperties, data
<1>2. /\ thread[t] \in Inquiry /\ Knows(thread[t])
      /\ DOMAIN offer = DOMAIN asked /\ DOMAIN heard = DOMAIN asked
  BY AtHand
<1>3. /\ a \in DOMAIN asked /\ ~thread[t].selects
      /\ asked[a].site = thread[t].site /\ asked[a].flow = thread[t].flow
  BY <1>1, <1>2 DEF Knows
<1>4. listed \in SUBSET AllListed
  BY SearchDataAssumption
<1>5. choices \subseteq listed /\ sure \subseteq listed
  BY OfferedFound
<1>6. /\ offer \in Seq(SUBSET AllListed) /\ token \in Seq(Tokens)
      /\ a \in 1 .. Len(offer)
  BY <1>2, <1>3, LenProperties DEF SearchDataInv, SearchTypes
<1>7. Knows(Unused)' /\ ~Unused.selects
  BY DEF Knows, Unused
<1>8. \/ Returns(t) /\ GivesTokenBack(a) /\ UNCHANGED offer
      \/ /\ Cardinality(sure) = 1
         /\ thread' = [thread EXCEPT ![t].at = "fetch", ![t].choice = CHOOSE p \in sure : TRUE]
         /\ UNCHANGED <<token, offer>>
      \/ choices # {} /\ Returns(t) /\ offer' = [offer EXCEPT ![a] = choices] /\ UNCHANGED token
  BY <1>3 DEF ListProperties, Raise
<1> HIDE DEF a, choices, sure
<1>9. CASE Returns(t) /\ GivesTokenBack(a) /\ UNCHANGED offer
  <2>1. /\ token' \in Seq(Tokens) /\ Len(token') = Len(token)
        /\ \A b \in DOMAIN asked : token'[b] = IF b = a THEN "returned" ELSE token[b]
    BY <1>3, <1>9, GoesBack
  <2>2. Hears(t, Unused, a, listed)
    BY <1>1, <1>3, <1>9, <2>1 DEF Hears, Returns
  <2>3. QED
    BY <1>1, <1>4, <1>6, <1>7, <1>9, <2>1, <2>2, UnusedIdle, HearingKeeps DEF a
<1>10. CASE /\ Cardinality(sure) = 1
            /\ thread' = [thread EXCEPT ![t].at = "fetch", ![t].choice = CHOOSE p \in sure : TRUE]
            /\ UNCHANGED <<token, offer>>
  <2>1. PICK c : c = CHOOSE p \in sure : TRUE
    OBVIOUS
  <2>2. c \in sure /\ c \in listed /\ c \in AllListed
    <3>1. sure # {}
      BY <1>10, FS_EmptySet
    <3>2. QED
      BY <1>4, <1>5, <2>1, <3>1
  <2>3. PICK r : r = [thread[t] EXCEPT !.at = "fetch", !.choice = c]
    OBVIOUS
  <2>4. /\ r \in Inquiry /\ r.at = "fetch" /\ r.ask = a /\ r.choice = c /\ r.selects = FALSE
        /\ r.site = thread[t].site /\ r.flow = thread[t].flow
    BY <1>2, <1>3, <2>2, <2>3 DEF Inquiry, Working, a
  <2>5. thread' = [thread EXCEPT ![t] = r]
    <3>1. thread' = [thread EXCEPT ![t].at = "fetch", ![t].choice = c]
      BY <1>10, <2>1
    <3>2. thread \in [Handlers -> Inquiry]
      BY DEF SearchDataInv, SearchTypes
    <3>3. QED
      BY <2>3, <3>1, <3>2
  <2>6. Hears(t, r, a, listed)
    BY <1>1, <1>10, <2>4, <2>5 DEF Hears, Working
  <2>7. Knows(r)'
    <3>1. heard'[a] = listed
      BY <1>1, <1>2, <1>3
    <3>2. QED
      BY <1>1, <1>3, <2>2, <2>4, <3>1 DEF Knows
  <2>8. r.at # "list" /\ ~r.selects
    BY <2>4
  <2>9. /\ token' \in Seq(Tokens) /\ Len(token') = Len(token)
        /\ offer' \in Seq(SUBSET AllListed) /\ Len(offer') = Len(offer)
    BY <1>6, <1>10
  <2>10. QED
    BY <1>1, <1>4, <2>4, <2>6, <2>7, <2>8, <2>9, HearingKeeps DEF a
<1>11. CASE choices # {} /\ Returns(t) /\ offer' = [offer EXCEPT ![a] = choices] /\ UNCHANGED token
  <2>1. choices \in SUBSET AllListed
    BY <1>4, <1>5
  <2>2. offer' \in Seq(SUBSET AllListed) /\ Len(offer') = Len(offer)
    BY <1>6, <1>11, <2>1, ExceptSeq
  <2>3. \A b \in DOMAIN asked : offer'[b] = IF b = a THEN choices ELSE offer[b]
    BY <1>2, <1>11
  <2>4. Hears(t, Unused, a, listed)
    BY <1>1, <1>3, <1>5, <1>11, <2>3 DEF Hears, Returns
  <2>5. QED
    BY <1>1, <1>4, <1>6, <1>7, <1>11, <2>2, <2>4, UnusedIdle, HearingKeeps DEF a
<1>12. QED
  BY <1>8, <1>9, <1>10, <1>11

-----------------------------------------------------------------------------
(* Figures are stored, set aside and dropped                               *)

\* The places of the figures: a flow and a project.
LEMMA FiguresMoved ==
    ASSUME SearchDataInv, UNCHANGED <<asked, heard, bank>>,
           \A f \in Flows, s \in Sites :
               /\ file'[<<f, s>>] # NoSnapshot => AtHome(file'[<<f, s>>], f, s)
               /\ \A i \in DOMAIN history'[<<f, s>>] : AtHome(history'[<<f, s>>][i], f, s)
    PROVE  FiguresAtHome'
BY DEF SearchDataInv, FiguresAtHome, AtHome

\* The history keeps what it had, or the snapshot that joins it.
LEMMA HistoryKept ==
    ASSUME NEW T, NEW kept \in Seq(T), NEW x \in T
    PROVE  /\ WithHistory(kept, x) \in Seq(T)
           /\ \A i \in DOMAIN WithHistory(kept, x) :
                \/ WithHistory(kept, x)[i] = x
                \/ \E j \in DOMAIN kept : WithHistory(kept, x)[i] = kept[j]
<1> DEFINE long == Append(kept, x)
           m == IF Len(long) > HistoryKeep THEN Len(long) - HistoryKeep + 1 ELSE 1
           n == Len(long)
<1>1. /\ long \in Seq(T) /\ n \in Nat /\ n = Len(kept) + 1 /\ Len(kept) \in Nat
      /\ DOMAIN kept = 1 .. Len(kept)
      /\ \A i \in 1 .. Len(kept) : long[i] = kept[i]
      /\ long[n] = x
  BY AppendProperties, LenProperties
<1>2. HistoryKeep \in Nat
  BY SearchDataAssumption
<1>3. m \in Int /\ 1 <= m
  BY <1>1, <1>2
<1>4. WithHistory(kept, x) = SubSeq(long, m, n)
  BY DEF WithHistory, Latest
<1> HIDE DEF long, m, n
<1>5. \A i \in m .. n : long[i] \in T
  <2>1. \A i \in m .. n : i \in 1 .. Len(kept) \/ i = n
    BY <1>1, <1>3
  <2>2. \A i \in 1 .. Len(kept) : kept[i] \in T
    BY ElementOfSeq
  <2>3. QED
    BY <1>1, <2>1, <2>2
<1>6. /\ SubSeq(long, m, n) \in Seq(T)
      /\ Len(SubSeq(long, m, n)) = IF m <= n THEN n - m + 1 ELSE 0
      /\ \A i \in 1 .. n - m + 1 : SubSeq(long, m, n)[i] = long[m + i - 1]
  BY <1>1, <1>3, <1>5, SubSeqProperties
<1>7. DOMAIN SubSeq(long, m, n) = 1 .. Len(SubSeq(long, m, n))
  BY <1>6, LenProperties
<1>8. ASSUME NEW i \in DOMAIN SubSeq(long, m, n)
      PROVE  \/ SubSeq(long, m, n)[i] = x
             \/ \E j \in DOMAIN kept : SubSeq(long, m, n)[i] = kept[j]
  <2>1. i \in Nat /\ 1 <= i /\ i <= n - m + 1
    BY <1>1, <1>3, <1>6, <1>7, <1>8
  <2>2. SubSeq(long, m, n)[i] = long[m + i - 1]
    BY <1>1, <1>3, <1>6, <2>1
  <2>3. m + i - 1 \in 1 .. Len(kept) \/ m + i - 1 = n
    BY <1>1, <1>3, <2>1
  <2>4. QED
    BY <1>1, <2>2, <2>3
<1>9. QED
  BY <1>4, <1>6, <1>8

\* What a request that works with a snapshot is about.
LEMMA PlaceOf ==
    ASSUME SearchDataInv, NEW t \in Handlers, thread[t].at \in {"look", "move", "write"}
    PROVE  /\ thread[t].flow \in Flows /\ thread[t].site \in Sites
           /\ <<thread[t].flow, thread[t].site>> \in Places
           /\ thread[t].ask \in DOMAIN asked /\ thread[t].ask \in Nat
           /\ asked[thread[t].ask].site = thread[t].site
           /\ asked[thread[t].ask].flow = thread[t].flow
           /\ thread[t].choice \in heard[thread[t].ask] /\ thread[t].choice \in AllListed
<1>1. Knows(thread[t]) /\ thread[t] \in Inquiry /\ DOMAIN heard = DOMAIN asked
  BY AtHand
<1>2. /\ thread[t].ask \in DOMAIN asked
      /\ asked[thread[t].ask].site = thread[t].site
      /\ asked[thread[t].ask].flow = thread[t].flow
      /\ thread[t].choice \in heard[thread[t].ask]
  BY <1>1 DEF Knows
<1>3. /\ asked[thread[t].ask] \in Ask /\ thread[t].ask \in Nat
      /\ heard[thread[t].ask] \in SUBSET AllListed
  BY <1>1, <1>2, ElementOfSeq, LenProperties DEF SearchDataInv, SearchTypes
<1>4. QED
  BY <1>2, <1>3 DEF Ask, Places

LEMMA MovingKeeps ==
    ASSUME SearchDataInv, NEW t \in Handlers, MoveAside(t)
    PROVE  SearchDataInv'
<1> DEFINE place == <<thread[t].flow, thread[t].site>>
<1>1. /\ thread[t].at = "move"
      /\ UNCHANGED <<asked, heard, lapsed, codes, offer, bank, searchLeft>>
  BY DEF MoveAside, redis
<1>2. /\ thread[t] \in Inquiry /\ Knows(thread[t]) /\ HasSession(thread[t])
  BY AtHand
<1>3. /\ file \in [Places -> {NoSnapshot} \cup Snapshot] /\ history \in [Places -> Seq(Snapshot)]
      /\ searchLeft' \in Left
  BY <1>1 DEF SearchDataInv, SearchTypes
<1>4. place \in Places
  BY <1>1, PlaceOf
<1>5. CASE Raise(t, "other") /\ UNCHANGED <<file, history>>
  BY <1>1, <1>3, <1>5, RaiseKeeps DEF data
<1>6. CASE /\ file[place] # NoSnapshot
           /\ file' = [file EXCEPT ![place] = NoSnapshot]
           /\ history' = [history EXCEPT ![place] = WithHistory(history[place], file[place])]
           /\ MovesTo(t, "write") /\ UNCHANGED token
  <2> DEFINE r == [thread[t] EXCEPT !.at = "write"]
  <2>1. /\ r \in Inquiry /\ Knows(r) /\ HasSession(r) /\ r.at = "write" /\ r.ask = thread[t].ask
    <3>1. "write" \in Working
      BY DEF Working
    <3>2. /\ r \in Inquiry /\ r.at = "write" /\ r.ask = thread[t].ask /\ r.site = thread[t].site
          /\ r.flow = thread[t].flow /\ r.choice = thread[t].choice
          /\ r.selects = thread[t].selects
      BY <1>2, <3>1, StandsElsewhere
    <3> HIDE DEF r
    <3>3. QED
      BY <1>1, <1>2, <3>2, KnowsOn DEF Working
  <2>2. thread' = [thread EXCEPT ![t] = r]
    BY <1>6, MovesToIs
  <2> HIDE DEF r
  <2>3. Moves(t, r) /\ Keeps(t, r)
    BY <1>1, <1>6, <2>1, <2>2 DEF Moves, Keeps, Working
  <2>4. /\ thread' \in [Handlers -> Inquiry]
        /\ RequestsKnow' /\ SessionsAreRead' /\ OffersHeard' /\ Unheard' /\ TokensEnd'
    BY <2>1, <2>3, MovesKeep
  <2>5. /\ file[place] \in Snapshot /\ history[place] \in Seq(Snapshot)
        /\ AtHome(file[place], thread[t].flow, thread[t].site)
        /\ \A j \in DOMAIN history[place] :
              AtHome(history[place][j], thread[t].flow, thread[t].site)
    BY <1>1, <1>3, <1>4, <1>6, PlaceOf DEF SearchDataInv, FiguresAtHome
  <2>6. PICK new : new = WithHistory(history[place], file[place])
    OBVIOUS
  <2>7. /\ new \in Seq(Snapshot)
        /\ \A i \in DOMAIN new : AtHome(new[i], thread[t].flow, thread[t].site)
    <3>1. /\ new \in Seq(Snapshot)
          /\ \A i \in DOMAIN new :
               new[i] = file[place] \/ \E j \in DOMAIN history[place] : new[i] = history[place][j]
      <4> DEFINE kept == history[place]
                 x == file[place]
      <4>1. kept \in Seq(Snapshot) /\ x \in Snapshot /\ new = WithHistory(kept, x)
        BY <2>5, <2>6
      <4> HIDE DEF kept, x
      <4>2. /\ new \in Seq(Snapshot)
            /\ \A i \in DOMAIN new : new[i] = x \/ \E j \in DOMAIN kept : new[i] = kept[j]
        BY <4>1, HistoryKept
      <4>3. QED
        BY <4>2 DEF kept, x
    <3> HIDE DEF place
    <3>2. QED
      BY <2>5, <3>1
  <2>8. \A f \in Flows, s \in Sites :
          /\ file'[<<f, s>>] # NoSnapshot => AtHome(file'[<<f, s>>], f, s)
          /\ \A i \in DOMAIN history'[<<f, s>>] : AtHome(history'[<<f, s>>][i], f, s)
    <3> SUFFICES ASSUME NEW f \in Flows, NEW s \in Sites
                 PROVE  /\ file'[<<f, s>>] # NoSnapshot => AtHome(file'[<<f, s>>], f, s)
                        /\ \A i \in DOMAIN history'[<<f, s>>] : AtHome(history'[<<f, s>>][i], f, s)
      OBVIOUS
    <3>1. <<f, s>> \in Places
      BY DEF Places
    <3>2. CASE <<f, s>> = place
      BY <1>3, <1>4, <1>6, <2>6, <2>7, <3>2
    <3>3. CASE <<f, s>> # place
      BY <1>3, <1>4, <1>6, <3>1, <3>3 DEF SearchDataInv, FiguresAtHome
    <3>4. QED
      BY <3>2, <3>3
  <2>9. FiguresAtHome'
    BY <1>1, <2>8, FiguresMoved
  <2>10. SearchTypes'
    <3>1. file' \in [Places -> {NoSnapshot} \cup Snapshot]
      BY <1>3, <1>6
    <3>2. history' \in [Places -> Seq(Snapshot)]
      BY <1>3, <1>6, <2>6, <2>7
    <3>3. QED
      BY <1>1, <1>6, <2>4, <3>1, <3>2 DEF SearchDataInv, SearchTypes
  <2>11. QED
    BY <2>4, <2>9, <2>10 DEF SearchDataInv
<1>7. QED
  BY <1>5, <1>6 DEF MoveAside

\* The token of a request that ends with what it came for goes back.
LEMMA WritingKeeps ==
    ASSUME SearchDataInv, NEW t \in Handlers, WriteSnapshot(t)
    PROVE  SearchDataInv'
<1> DEFINE place == <<thread[t].flow, thread[t].site>>
<1>1. PICK x : x = BuildSnapshot(thread[t].ask, thread[t].flow, thread[t].choice)
  OBVIOUS
<1>2. /\ thread[t].at = "write" /\ file' = [file EXCEPT ![place] = x]
      /\ UNCHANGED <<asked, heard, lapsed, codes, offer, history, bank, searchLeft>>
      /\ IF thread[t].selects THEN MovesTo(t, "close") /\ UNCHANGED token
                              ELSE Returns(t) /\ GivesTokenBack(thread[t].ask)
  BY <1>1 DEF WriteSnapshot, redis
<1>3. /\ thread[t] \in Inquiry /\ Knows(thread[t]) /\ HasSession(thread[t])
      /\ thread[t].ask \notin codes
  BY <1>2, AtHand
<1>4. /\ place \in Places /\ thread[t].ask \in DOMAIN asked
      /\ file \in [Places -> {NoSnapshot} \cup Snapshot]
  BY <1>2, PlaceOf DEF SearchDataInv, SearchTypes
<1>5. x \in Snapshot /\ AtHome(x, thread[t].flow, thread[t].site)
  <2>1. Candidates(Queries) \in SUBSET Queries /\ {} \in SUBSET Queries
    BY DEF Candidates, Eligible
  <2>2. PICK c \in SUBSET Queries :
          x = [ask |-> thread[t].ask, property |-> thread[t].choice, candidates |-> c]
    BY <1>1, <2>1 DEF BuildSnapshot
  <2>3. QED
    BY <1>2, <2>2, PlaceOf DEF Snapshot, AtHome
<1>6. FiguresAtHome'
  <2> SUFFICES ASSUME NEW f \in Flows, NEW s \in Sites
               PROVE  /\ file'[<<f, s>>] # NoSnapshot => AtHome(file'[<<f, s>>], f, s)
                      /\ \A i \in DOMAIN history'[<<f, s>>] : AtHome(history'[<<f, s>>][i], f, s)
    BY <1>2, FiguresMoved
  <2>1. <<f, s>> \in Places
    BY DEF Places
  <2>2. CASE <<f, s>> = place
    BY <1>2, <1>4, <1>5, <2>2 DEF SearchDataInv, FiguresAtHome
  <2>3. CASE <<f, s>> # place
    BY <1>2, <1>4, <2>1, <2>3 DEF SearchDataInv, FiguresAtHome
  <2>4. QED
    BY <2>2, <2>3
<1>7. file' \in [Places -> {NoSnapshot} \cup Snapshot]
  BY <1>2, <1>4, <1>5
<1> HIDE DEF place
<1>8. CASE thread[t].selects /\ MovesTo(t, "close") /\ UNCHANGED token
  <2> DEFINE r == [thread[t] EXCEPT !.at = "close"]
  <2>1. /\ r \in Inquiry /\ Knows(r) /\ HasSession(r) /\ r.at = "close" /\ r.ask = thread[t].ask
    <3>1. "close" \in Working
      BY DEF Working
    <3>2. /\ r \in Inquiry /\ r.at = "close" /\ r.ask = thread[t].ask /\ r.site = thread[t].site
          /\ r.flow = thread[t].flow /\ r.choice = thread[t].choice
          /\ r.selects = thread[t].selects
      BY <1>3, <3>1, StandsElsewhere
    <3> HIDE DEF r
    <3>3. QED
      BY <1>2, <1>3, <1>8, <3>2, KnowsOn DEF Working
  <2>2. thread' = [thread EXCEPT ![t] = r]
    BY <1>8, MovesToIs
  <2> HIDE DEF r
  <2>3. Moves(t, r) /\ Keeps(t, r)
    BY <1>2, <1>8, <2>1, <2>2 DEF Moves, Keeps, Working
  <2>4. /\ thread' \in [Handlers -> Inquiry]
        /\ RequestsKnow' /\ SessionsAreRead' /\ OffersHeard' /\ Unheard' /\ TokensEnd'
    BY <2>1, <2>3, MovesKeep
  <2>5. SearchTypes'
    BY <1>2, <1>7, <1>8, <2>4 DEF SearchDataInv, SearchTypes
  <2>6. QED
    BY <1>6, <2>4, <2>5 DEF SearchDataInv
<1>9. CASE Returns(t) /\ GivesTokenBack(thread[t].ask)
  <2>1. /\ token' \in Seq(Tokens) /\ Len(token') = Len(token)
        /\ \A b \in DOMAIN asked : token'[b] = IF b = thread[t].ask THEN "returned" ELSE token[b]
    BY <1>4, <1>9, GoesBack
  <2>2. Moves(t, Unused)
    BY <1>2, <1>3, <1>9, <2>1 DEF Moves, Returns
  <2>3. Keeps(t, Unused)
    BY <1>4, <2>1 DEF Keeps
  <2>4. /\ thread' \in [Handlers -> Inquiry]
        /\ RequestsKnow' /\ SessionsAreRead' /\ OffersHeard' /\ Unheard' /\ TokensEnd'
    BY <2>2, <2>3, UnusedIdle, MovesKeep
  <2>5. SearchTypes'
    BY <1>2, <1>7, <2>1, <2>4 DEF SearchDataInv, SearchTypes
  <2>6. QED
    BY <1>6, <2>4, <2>5 DEF SearchDataInv
<1>10. QED
  BY <1>2, <1>8, <1>9

LEMMA DroppingKeeps ==
    ASSUME SearchDataInv, NEW t \in Handlers,
           \/ ClearHistory(t)
           \/ \E u \in Users, s \in Sites, f \in Flows : DeleteSnapshot(t, u, s, f)
    PROVE  SearchDataInv'
<1> USE DEF tenant, redis, google
<1>0. /\ searchLeft \in Left /\ thread[t] \in Inquiry /\ Knows(thread[t])
      /\ file \in [Places -> {NoSnapshot} \cup Snapshot] /\ history \in [Places -> Seq(Snapshot)]
      /\ <<>> \in Seq(Snapshot) /\ DOMAIN <<>> = {}
  BY AtHand, EmptySeq DEF SearchDataInv, SearchTypes
<1>1. CASE ClearHistory(t)
  <2> DEFINE place == <<thread[t].flow, thread[t].site>>
  <2>1. /\ thread[t].at = "clear" /\ Returns(t) /\ history' = [history EXCEPT ![place] = <<>>]
        /\ UNCHANGED <<asked, heard, lapsed, codes, token, offer, file, bank, searchLeft>>
    BY <1>1 DEF ClearHistory
  <2>2. Moves(t, Unused) /\ Keeps(t, Unused)
    BY <2>1 DEF Moves, Keeps, Returns, Working
  <2>3. /\ thread' \in [Handlers -> Inquiry]
        /\ RequestsKnow' /\ SessionsAreRead' /\ OffersHeard' /\ Unheard' /\ TokensEnd'
    BY <2>2, UnusedIdle, MovesKeep
  <2>4. history' \in [Places -> Seq(Snapshot)]
    BY <1>0, <2>1
  <2>5. FiguresAtHome'
    <3> SUFFICES ASSUME NEW f \in Flows, NEW s \in Sites
                 PROVE  /\ file'[<<f, s>>] # NoSnapshot => AtHome(file'[<<f, s>>], f, s)
                        /\ \A i \in DOMAIN history'[<<f, s>>] : AtHome(history'[<<f, s>>][i], f, s)
      BY <2>1, FiguresMoved
    <3>1. <<f, s>> \in Places
      BY DEF Places
    <3>2. history'[<<f, s>>] = IF <<f, s>> = place THEN <<>> ELSE history[<<f, s>>]
      BY <1>0, <2>1, <3>1
    <3> HIDE DEF place
    <3>3. QED
      BY <1>0, <2>1, <3>2 DEF SearchDataInv, FiguresAtHome
  <2>6. SearchTypes'
    BY <2>1, <2>3, <2>4 DEF SearchDataInv, SearchTypes
  <2>7. QED
    BY <2>3, <2>5, <2>6 DEF SearchDataInv
<1>2. ASSUME NEW u \in Users, NEW s \in Sites, NEW f \in Flows, DeleteSnapshot(t, u, s, f)
      PROVE  SearchDataInv'
  <2> DEFINE r == [Unused EXCEPT !.at = "clear", !.user = u, !.site = s, !.flow = f]
  <2>1. /\ thread[t] = Unused /\ thread' = [thread EXCEPT ![t] = r]
        /\ file' = [file EXCEPT ![<<f, s>>] = NoSnapshot] /\ Spends("deletes")
        /\ UNCHANGED <<asked, heard, lapsed, codes, token, offer, history, bank>>
    BY <1>2 DEF DeleteSnapshot
  <2>2. r \in Inquiry /\ Knows(r) /\ HasSession(r) /\ r.at = "clear"
    BY DEF Unused, Inquiry, Knows, HasSession, Working
  <2> HIDE DEF r
  <2>3. Moves(t, r) /\ Keeps(t, r)
    BY <2>1, UnusedIdle DEF Moves, Keeps, Working
  <2>4. /\ thread' \in [Handlers -> Inquiry]
        /\ RequestsKnow' /\ SessionsAreRead' /\ OffersHeard' /\ Unheard' /\ TokensEnd'
    BY <2>2, <2>3, MovesKeep
  <2>5. searchLeft' \in Left
    BY <1>0, <2>1, SpendsTyped
  <2>6. file' \in [Places -> {NoSnapshot} \cup Snapshot]
    BY <1>0, <2>1
  <2>7. FiguresAtHome'
    <3> SUFFICES ASSUME NEW g \in Flows, NEW z \in Sites
                 PROVE  /\ file'[<<g, z>>] # NoSnapshot => AtHome(file'[<<g, z>>], g, z)
                        /\ \A i \in DOMAIN history'[<<g, z>>] : AtHome(history'[<<g, z>>][i], g, z)
      BY <2>1, FiguresMoved
    <3>1. <<g, z>> \in Places
      BY DEF Places
    <3>2. file'[<<g, z>>] = NoSnapshot \/ file'[<<g, z>>] = file[<<g, z>>]
      BY <1>0, <2>1, <3>1
    <3>3. QED
      BY <2>1, <3>2 DEF SearchDataInv, FiguresAtHome
  <2>8. SearchTypes'
    BY <2>1, <2>4, <2>5, <2>6 DEF SearchDataInv, SearchTypes
  <2>9. QED
    BY <2>4, <2>7, <2>8 DEF SearchDataInv
<1>3. QED
  BY <1>1, <1>2

-----------------------------------------------------------------------------
(* What happens without a request                                          *)

\* Requests, figures and what was authorized stay as they are.
LEMMA OtherStep ==
    ASSUME SearchDataInv,
           UNCHANGED <<asked, codes, token, heard, thread, file, history, bank>>,
           searchLeft' \in Left, offer' \in Seq(SUBSET AllListed), Len(offer') = Len(offer),
           lapsed \subseteq lapsed',
           \A a \in DOMAIN asked :
               offer'[a] = offer[a] \/ (offer'[a] = {} /\ a \in lapsed')
    PROVE  SearchDataInv'
<1>1. SearchTypes'
  BY DEF SearchDataInv, SearchTypes
<1>2. RequestsKnow' /\ Unheard' /\ FiguresAtHome' /\ OffersHeard'
  BY DEF SearchDataInv, RequestsKnow, Knows, Unheard, FiguresAtHome, AtHome, OffersHeard
<1>3. SessionsAreRead'
  <2> SUFFICES ASSUME NEW u \in Handlers, thread[u].selects, thread[u].at \in Working
               PROVE  \/ offer'[thread[u].ask] # {} \/ thread[u].ask \in lapsed'
                      \/ token[thread[u].ask] = "returned"
    BY DEF SessionsAreRead, HasSession
  <2>1. Knows(thread[u]) /\ HasSession(thread[u])
    BY DEF SearchDataInv, RequestsKnow, SessionsAreRead
  <2>2. thread[u].ask \in DOMAIN asked
    BY <2>1 DEF Knows, Working
  <2>3. QED
    BY <2>1, <2>2 DEF HasSession
<1>4. TokensEnd'
  BY DEF SearchDataInv, TokensEnd
<1>5. QED
  BY <1>1, <1>2, <1>3, <1>4 DEF SearchDataInv

LEMMA OthersKeep ==
    ASSUME SearchDataInv,
           \/ \E a \in DOMAIN asked : StateExpires(a) \/ SessionExpires(a)
           \/ TenantChanges \/ UNCHANGED searchVars
    PROVE  SearchDataInv'
<1> USE DEF google, data
<1>1. /\ searchLeft \in Left /\ offer \in Seq(SUBSET AllListed)
      /\ DOMAIN offer = 1 .. Len(offer) /\ DOMAIN offer = DOMAIN asked
  BY LenProperties DEF SearchDataInv, SearchTypes
<1>2. ASSUME NEW a \in DOMAIN asked, SessionExpires(a)
      PROVE  SearchDataInv'
  <2>1. offer' = [offer EXCEPT ![a] = {}] /\ lapsed' = lapsed \cup {a} /\ Spends("changes")
    BY <1>2 DEF SessionExpires
  <2>2. offer' \in Seq(SUBSET AllListed) /\ Len(offer') = Len(offer)
    <3>1. a \in 1 .. Len(offer) /\ {} \in SUBSET AllListed
      BY <1>1
    <3>2. QED
      BY <1>1, <2>1, <3>1, ExceptSeq
  <2>3. searchLeft' \in Left
    BY <1>1, <2>1, SpendsTyped
  <2>4. UNCHANGED <<asked, codes, token, heard, thread, file, history, bank>>
    BY <1>2 DEF SessionExpires
  <2>5. \A b \in DOMAIN asked : offer'[b] = offer[b] \/ (offer'[b] = {} /\ b \in lapsed')
    BY <1>1, <2>1
  <2>6. QED
    BY <2>1, <2>2, <2>3, <2>4, <2>5, OtherStep
<1>3. ASSUME searchLeft' \in Left,
             UNCHANGED <<asked, codes, token, heard, thread, file, history, bank, offer, lapsed>>
      PROVE  SearchDataInv'
  BY <1>1, <1>3, OtherStep
<1>4. ASSUME NEW a \in DOMAIN asked, StateExpires(a)
      PROVE  SearchDataInv'
  BY <1>1, <1>3, <1>4, SpendsTyped DEF StateExpires
<1>5. CASE TenantChanges
  BY <1>1, <1>3, <1>5, SpendsTyped DEF TenantChanges, redis
<1>6. CASE UNCHANGED searchVars
  BY <1>1, <1>3, <1>6 DEF searchVars
<1>7. QED
  BY <1>2, <1>4, <1>5, <1>6

\* A query of a snapshot becomes a question: it comes from where the snapshot does.
LEMMA AddingKeeps ==
    ASSUME SearchDataInv, NEW u \in Users, NEW s \in Sites, NEW q \in Queries, AddQuestions(u, s, q)
    PROVE  SearchDataInv'
<1> DEFINE snapshot == file[<<"gsc", s>>]
<1>1. /\ snapshot # NoSnapshot /\ Spends("adds")
      /\ UNCHANGED <<asked, codes, token, heard, offer, lapsed, thread, file, history>>
      /\ \/ bank' = bank
         \/ bank' = [bank EXCEPT ![s] = bank[s] \cup {QuestionMetadata(snapshot, q)}]
  BY DEF AddQuestions, redis, google
<1>2. /\ searchLeft \in Left /\ <<"gsc", s>> \in Places
      /\ file \in [Places -> {NoSnapshot} \cup Snapshot] /\ bank \in [Sites -> SUBSET Source]
  BY DEF SearchDataInv, SearchTypes, Places, Flows
<1>3. snapshot \in Snapshot /\ AtHome(snapshot, "gsc", s)
  BY <1>1, <1>2 DEF SearchDataInv, FiguresAtHome, Flows
<1>4. PICK b : b = QuestionMetadata(snapshot, q)
  OBVIOUS
<1>5. b \in Source /\ b.ask = snapshot.ask /\ b.property = snapshot.property
  BY <1>3, <1>4 DEF QuestionMetadata, Source, Snapshot
<1>6. AtHome(b, "gsc", s)
  BY <1>3, <1>5 DEF AtHome
<1> HIDE DEF snapshot
<1>7. bank' \in [Sites -> SUBSET Source]
  BY <1>1, <1>2, <1>4, <1>5
<1>8. searchLeft' \in Left
  BY <1>1, <1>2, SpendsTyped
<1>9. SearchTypes'
  BY <1>1, <1>7, <1>8 DEF SearchDataInv, SearchTypes
<1>10. FiguresAtHome'
  <2>1. \A z \in Sites : \A x \in bank'[z] : x \in bank[z] \/ (z = s /\ x = b)
    BY <1>1, <1>2, <1>4
  <2>2. QED
    BY <1>1, <1>6, <2>1 DEF SearchDataInv, FiguresAtHome, AtHome
<1>11. RequestsKnow' /\ SessionsAreRead' /\ OffersHeard' /\ Unheard' /\ TokensEnd'
  BY <1>1 DEF SearchDataInv, RequestsKnow, Knows, SessionsAreRead, HasSession, OffersHeard,
     Unheard, TokensEnd
<1>12. QED
  BY <1>9, <1>10, <1>11 DEF SearchDataInv

\* An authorization is asked for: nothing knows it yet.
LEMMA AskingKeeps ==
    ASSUME SearchDataInv, NEW ask \in searchLeft.asks, AuthorizationUrl(ask)
    PROVE  SearchDataInv'
<1> DEFINE n == Len(asked) + 1
<1>1. /\ asked' = Append(asked, ask) /\ codes' = codes \cup {Len(asked')}
      /\ token' = Append(token, "none") /\ offer' = Append(offer, {}) /\ heard' = Append(heard, {})
      /\ searchLeft' = [searchLeft EXCEPT !.asks = searchLeft.asks \ {ask}]
      /\ UNCHANGED <<lapsed, thread, file, history, bank>>
  BY DEF AuthorizationUrl, data
<1>2. /\ asked \in Seq(Ask) /\ ask \in Ask /\ codes \subseteq DOMAIN asked
      /\ token \in Seq(Tokens) /\ "none" \in Tokens
      /\ offer \in Seq(SUBSET AllListed) /\ heard \in Seq(SUBSET AllListed)
      /\ {} \in SUBSET AllListed /\ searchLeft \in Left
      /\ Len(token) = Len(asked) /\ Len(offer) = Len(asked) /\ Len(heard) = Len(asked)
  BY DEF SearchDataInv, SearchTypes, Left, Tokens
<1>3. /\ asked' \in Seq(Ask) /\ Len(asked') = n /\ asked'[n] = ask
      /\ \A a \in 1 .. Len(asked) : asked'[a] = asked[a]
  BY <1>1, <1>2, AppendProperties
<1>4. /\ token' \in Seq(Tokens) /\ Len(token') = n /\ token'[n] = "none"
      /\ \A a \in 1 .. Len(asked) : token'[a] = token[a]
  BY <1>1, <1>2, AppendProperties
<1>5. /\ offer' \in Seq(SUBSET AllListed) /\ Len(offer') = n /\ offer'[n] = {}
      /\ \A a \in 1 .. Len(asked) : offer'[a] = offer[a]
  BY <1>1, <1>2, AppendProperties
<1>6. /\ heard' \in Seq(SUBSET AllListed) /\ Len(heard') = n /\ heard'[n] = {}
      /\ \A a \in 1 .. Len(asked) : heard'[a] = heard[a]
  BY <1>1, <1>2, AppendProperties
<1>7. /\ DOMAIN asked = 1 .. Len(asked) /\ DOMAIN asked' = 1 .. n /\ Len(asked) \in Nat
  BY <1>2, <1>3, LenProperties
<1>8. /\ n \notin DOMAIN asked /\ DOMAIN asked \subseteq DOMAIN asked'
      /\ \A a \in DOMAIN asked' : a \in DOMAIN asked \/ a = n
  BY <1>7
<1> HIDE DEF n
<1>9. searchLeft' \in Left
  BY <1>1, <1>2 DEF Left
<1>10. codes' = codes \cup {n} /\ codes' \subseteq DOMAIN asked'
  BY <1>1, <1>2, <1>3, <1>7, <1>8 DEF n
<1>11. SearchTypes'
  BY <1>1, <1>3, <1>4, <1>5, <1>6, <1>9, <1>10 DEF SearchDataInv, SearchTypes
<1>12. RequestsKnow'
  BY <1>1, <1>3, <1>6, <1>7, <1>8 DEF SearchDataInv, RequestsKnow, Knows
<1>13. \A t \in Handlers : thread[t].at \in Working => thread[t].ask \in DOMAIN asked
  BY DEF SearchDataInv, RequestsKnow, Knows, Working
<1>14. SessionsAreRead'
  BY <1>1, <1>4, <1>5, <1>7, <1>13 DEF SearchDataInv, SessionsAreRead, HasSession
<1>15. OffersHeard'
  BY <1>5, <1>6, <1>7, <1>8 DEF SearchDataInv, OffersHeard
<1>16. Unheard'
  <2>1. \A a \in codes' : heard'[a] = {} /\ token'[a] = "none"
    BY <1>2, <1>4, <1>6, <1>7, <1>10 DEF SearchDataInv, Unheard
  <2>2. ASSUME NEW t \in Handlers, thread[t].at = "list"
        PROVE  /\ heard'[thread[t].ask] = {} /\ thread[t].ask \notin codes'
               /\ \A u \in Handlers :
                    thread[u].at = "list" /\ thread[u].ask = thread[t].ask => u = t
    <3>1. thread[t].ask \in DOMAIN asked
      BY <1>13, <2>2 DEF Working
    <3>2. QED
      BY <1>6, <1>7, <1>8, <1>10, <2>2, <3>1 DEF SearchDataInv, Unheard
  <2>3. QED
    BY <1>1, <2>1, <2>2 DEF Unheard
<1>17. FiguresAtHome'
  BY <1>1, <1>3, <1>6, <1>7, <1>8 DEF SearchDataInv, FiguresAtHome, AtHome
<1>18. TokensEnd'
  <2> SUFFICES ASSUME NEW a \in DOMAIN asked', asked'[a].flow = "ga4", token'[a] = "held"
               PROVE  \/ \E t \in Handlers : thread'[t].ask = a /\ thread'[t].at \in Working
                      \/ offer'[a] # {} \/ a \in lapsed'
    BY DEF TokensEnd
  <2>1. a \in DOMAIN asked
    BY <1>4, <1>8
  <2>2. QED
    BY <1>1, <1>3, <1>4, <1>5, <1>7, <2>1 DEF SearchDataInv, TokensEnd
<1>19. QED
  BY <1>11, <1>12, <1>14, <1>15, <1>16, <1>17, <1>18 DEF SearchDataInv

-----------------------------------------------------------------------------
(* The theorem                                                             *)

LEMMA InitHolds == SearchDataInit => SearchDataInv
<1> SUFFICES ASSUME SearchDataInit PROVE SearchDataInv
  OBVIOUS
<1>1. /\ asked = <<>> /\ codes = {} /\ token = <<>> /\ offer = <<>> /\ heard = <<>>
      /\ thread = [t \in Handlers |-> Unused]
      /\ file = [p \in Places |-> NoSnapshot] /\ history = [p \in Places |-> <<>>]
      /\ bank = [s \in Sites |-> {}] /\ searchLeft \in Left
  BY SearchDataAssumption DEF SearchDataInit, Left, Ask
<1>2. Len(<<>>) = 0 /\ DOMAIN <<>> = {}
  OBVIOUS
<1>3. SearchTypes
  <2>1. thread \in [Handlers -> Inquiry]
    BY <1>1, UnusedIdle
  <2>2. /\ asked \in Seq(Ask) /\ token \in Seq(Tokens) /\ offer \in Seq(SUBSET AllListed)
        /\ heard \in Seq(SUBSET AllListed) /\ history \in [Places -> Seq(Snapshot)]
    BY <1>1, EmptySeq
  <2>3. file \in [Places -> {NoSnapshot} \cup Snapshot] /\ bank \in [Sites -> SUBSET Source]
    BY <1>1
  <2>4. QED
    BY <1>1, <2>1, <2>2, <2>3 DEF SearchTypes
<1>4. \A t \in Handlers : thread[t] = Unused
  BY <1>1
<1>5. RequestsKnow /\ SessionsAreRead /\ Unheard
  BY <1>1, <1>4, UnusedIdle DEF RequestsKnow, SessionsAreRead, Unheard
<1>6. OffersHeard /\ TokensEnd
  BY <1>1, <1>2 DEF OffersHeard, TokensEnd
<1>7. FiguresAtHome
  <2>1. \A f \in Flows, s \in Sites :
          file[<<f, s>>] = NoSnapshot /\ history[<<f, s>>] = <<>>
    BY <1>1 DEF Places
  <2>2. QED
    BY <1>1, <1>2, <2>1 DEF FiguresAtHome
<1>8. QED
  BY <1>3, <1>5, <1>6, <1>7 DEF SearchDataInv

LEMMA NextKeepsInv == SearchDataInv /\ [SearchDataNext]_searchVars => SearchDataInv'
<1> SUFFICES ASSUME SearchDataInv, [SearchDataNext]_searchVars
             PROVE  SearchDataInv'
  OBVIOUS
<1>1. ASSUME NEW t \in Handlers,
             \/ \E a \in DOMAIN asked : Callback(t, a)
             \/ GetVerifier(t) \/ TakeVerifier(t)
             \/ \E granted \in BOOLEAN : ExchangeCode(t, granted)
             \/ \E listed \in Accounts : \E found \in SUBSET listed : ListProperties(t, listed, found)
             \/ \E kind \in {"upstream", "other"} : ListFails(t, kind) \/ FetchFails(t, kind)
             \/ \E a \in DOMAIN asked, u \in Users, s \in Sites, f \in Flows, p \in AllListed :
                  Select(t, a, u, s, f, p)
             \/ CloseSession(t)
             \/ Fetch(t) \/ Look(t) \/ MoveAside(t) \/ WriteSnapshot(t) \/ WriteFails(t)
             \/ \E u \in Users, s \in Sites, f \in Flows : DeleteSnapshot(t, u, s, f)
             \/ ClearHistory(t)
      PROVE  SearchDataInv'
  BY <1>1, BeforeTheToken, ExchangeKeeps, ListingKeeps, CallsFail, WithAChoice, CloseKeeps,
     MovingKeeps, WritingKeeps, DroppingKeeps
<1>2. QED
  BY <1>1, AskingKeeps, AddingKeeps, OthersKeep DEF SearchDataNext

\* Every snapshot of first-party figures, every one set aside and the source of
\* every imported question came from an authorization of that project and flow and
\* of a property Google listed to it (searchdata/router.py, oauth.py); and however
\* a request for Analytics ends, its token goes back, is in the hands of a request
\* or waits in a session (_ga4_callback).
THEOREM FiguresAuthorized == SearchDataSpec => []AuthorizationsHold
<1>1. SearchDataInv => AuthorizationsHold
  <2> SUFFICES ASSUME SearchDataInv PROVE FiguresStayHome /\ AnalyticsTokensEnd
    BY DEF AuthorizationsHold
  <2>1. FiguresStayHome
    BY DEF SearchDataInv, FiguresAtHome, AtHome, FiguresStayHome, ToSet
  <2>2. AnalyticsTokensEnd
    <3>1. "away" \notin Working
      BY DEF Working
    <3>2. QED
      BY <3>1 DEF SearchDataInv, TokensEnd, AnalyticsTokensEnd, Accounted, InHand
  <2>3. QED
    BY <2>1, <2>2
<1>2. SearchDataInit => SearchDataInv
  BY InitHolds
<1>3. SearchDataInv /\ [SearchDataNext]_searchVars => SearchDataInv'
  BY NextKeepsInv
<1>4. QED
  BY <1>1, <1>2, <1>3, PTL DEF SearchDataSpec
=============================================================================
