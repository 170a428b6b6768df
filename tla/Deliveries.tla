------------------------------- MODULE Deliveries ------------------------------
(***************************************************************************)
(* The customer's packages: a job, or a request to send one, builds a      *)
(* package beside the published one and swaps the two, owners download     *)
(* packages and clients download what was shared with them, and all of it  *)
(* may end anywhere (api/adapters/delivery_package.py, delivery_common.py, *)
(* delivery_assets.py, delivery_share.py, api/projects/delivery_routes.py, *)
(* public.py, api/worker/tasks.py).                                        *)
(*                                                                         *)
(* A package is published under the day it is named after. Its content is  *)
(* the version of the project that it was built from.                      *)
(***************************************************************************)
EXTENDS Naturals, FiniteSets

CONSTANTS
    Days,             \* bound: the days there are, 1 .. Days
    DeliveryEvents    \* bound: sets of how often each thing happens, [DeliveryEvent -> Nat]

DeliveryEvent == {"deliver", "work", "send", "download", "cancel", "kill"}

ASSUME DeliveriesAssumption ==
    /\ Days \in Nat \ {0}
    /\ DeliveryEvents \subseteq [DeliveryEvent -> Nat]

VARIABLES
    today,
    content,      \* the project: its version, whether its audit has pages, its
                  \* answers suffice, and its assets need no more work
    published,    \* delivery/<day>
    spare,        \* delivery/.<day>.backup
    staging,      \* delivery/.delivery-english-*
    build,        \* the build that holds the project's lock
    canceling,    \* the cancellation of the job that builds
    shares,       \* the links clients have
    reader,       \* the download under way
    mayDeliver    \* how often what may still happen

deliveryVars == <<today, content, published, spare, staging, build, canceling, shares, reader,
                  mayDeliver>>

Day == 1 .. Days
NoPack == [version |-> 0, kind |-> "none", gate |-> FALSE]

\* A package that the engine compiled, before the platform owned deliveries.
EnginePack == [version |-> 0, kind |-> "review", gate |-> FALSE]

NoBuild == [step |-> "none", day |-> 0, by |-> "nobody"]
NoReader == [step |-> "none", day |-> 0, public |-> FALSE, read |-> {}]

CanDeliver(event) == mayDeliver[event] > 0
UseDelivery(event) == CanDeliver(event) /\ mayDeliver' = [mayDeliver EXCEPT ![event] = @ - 1]

DeliveriesInit ==
    /\ mayDeliver \in DeliveryEvents
    /\ today = 1
    /\ content \in [version : {1}, pages : {TRUE}, measured : BOOLEAN, finished : BOOLEAN]
    /\ \E first \in {NoPack, EnginePack} :
         published = [d \in Day |-> IF d = 1 THEN first ELSE NoPack]
    /\ spare = [d \in Day |-> NoPack] /\ staging = NoPack
    /\ build = NoBuild /\ canceling = FALSE
    /\ shares = {} /\ reader = NoReader

-----------------------------------------------------------------------------
(* What a package is.                                                      *)

\* Without pages there is no diagnosis, without measurement and finished assets
\* no implementation.
KindOf(project) ==
    IF ~project.pages THEN "review"
    ELSE IF project.measured /\ project.finished THEN "implementation" ELSE "diagnostic"

PackOf(project, gate) == [version |-> project.version, kind |-> KindOf(project), gate |-> gate]

Sendable(pack) == pack.kind \in {"implementation", "diagnostic"}

\* A published package is valid when it has every document and its gate passed.
Valid(pack) == pack.gate

\* What is deliverable now, and the package of the last day there is one.
Dated == {d \in Day : published[d] # NoPack}
LatestOrToday == IF Dated = {} THEN today ELSE CHOOSE d \in Dated : \A e \in Dated : e <= d

\* A plausible bug: all backups are swept away.
SweptOfAll(target) == [d \in Day |-> NoPack]

\* What an earlier build left is swept away, but never a backup that is all
\* there is of its day.
SweptSpare(target) == [d \in Day |-> IF target[d] # NoPack THEN NoPack ELSE spare[d]]

-----------------------------------------------------------------------------
(* A build.                                                                *)

\* A package lost halfway comes back first, then the directory is swept.
BuildBegins(d, by) ==
    LET target == [published EXCEPT ![d] = IF @ = NoPack THEN spare[d] ELSE @]
        rest == [spare EXCEPT ![d] = IF published[d] = NoPack THEN NoPack ELSE @]
    IN  /\ build.step = "none"
        /\ published' = target
        /\ spare' = [e \in Day |-> IF rest[e] = NoPack THEN NoPack ELSE SweptSpare(target)[e]]
        /\ staging' = NoPack
        /\ build' = [step |-> "stage", day |-> d, by |-> by]

\* A job delivers: the package it builds is the latest there is.
JobBegins ==
    /\ UseDelivery("deliver")
    /\ BuildBegins(LatestOrToday, "job")
    /\ canceling' = FALSE
    /\ UNCHANGED <<today, content, shares, reader>>

\* Everything is written to the staging directory, under checks of the answers
\* (of a job's only), of quality and language, and for cancellation.
Enough == build.by = "job" => content.measured
Canceled == build.by = "job" /\ canceling

BuildStages ==
    /\ build.step = "stage" /\ ~Canceled /\ Enough
    /\ staging' = PackOf(content, TRUE)
    /\ build' = [build EXCEPT !.step = "staged"]
    /\ UNCHANGED <<today, content, published, spare, canceling, shares, reader, mayDeliver>>

\* Any of them may fail: what was staged goes, what was published stays.
BuildFails ==
    /\ build.step \in {"stage", "staged"}
    /\ staging' = NoPack /\ build' = NoBuild
    /\ UNCHANGED <<today, content, published, spare, canceling, shares, reader, mayDeliver>>

BuildChecks ==
    /\ build.step = "staged" /\ ~Canceled
    /\ build' = [build EXCEPT !.step = "checked"]
    /\ UNCHANGED <<today, content, published, spare, staging, canceling, shares, reader, mayDeliver>>

MovesAside ==
    /\ build.step = "checked"
    /\ spare' = [spare EXCEPT ![build.day] = published[build.day]]
    /\ published' = [published EXCEPT ![build.day] = NoPack]
    /\ build' = [build EXCEPT !.step = "aside"]
    /\ UNCHANGED <<today, content, staging, canceling, shares, reader, mayDeliver>>

MovesIn ==
    /\ build.step = "aside"
    /\ published' = [published EXCEPT ![build.day] = staging]
    /\ staging' = NoPack
    /\ build' = [build EXCEPT !.step = "in"]
    /\ UNCHANGED <<today, content, spare, canceling, shares, reader, mayDeliver>>

\* The rename fails, and the backup comes back.
MoveFails ==
    /\ build.step = "aside"
    /\ published' = [published EXCEPT ![build.day] = spare[build.day]]
    /\ spare' = [spare EXCEPT ![build.day] = NoPack]
    /\ staging' = NoPack /\ build' = NoBuild
    /\ UNCHANGED <<today, content, canceling, shares, reader, mayDeliver>>

NewShare(d) == [day |-> d, until |-> today + 1]

\* The backup goes, and a request to send goes on to share the package.
BuildEnds ==
    /\ build.step = "in"
    /\ spare' = [spare EXCEPT ![build.day] = NoPack]
    /\ shares' = IF build.by = "send" /\ Sendable(published[build.day])
                 THEN shares \cup {NewShare(build.day)} ELSE shares
    /\ build' = NoBuild
    /\ UNCHANGED <<today, content, published, staging, canceling, reader, mayDeliver>>

\* The process that builds ends, wherever it is.
BuildDies ==
    /\ build.step # "none" /\ UseDelivery("kill")
    /\ build' = NoBuild
    /\ UNCHANGED <<today, content, published, spare, staging, canceling, shares, reader>>

Cancel ==
    /\ build.by = "job" /\ ~canceling /\ UseDelivery("cancel")
    /\ canceling' = TRUE
    /\ UNCHANGED <<today, content, published, spare, staging, build, shares, reader>>

-----------------------------------------------------------------------------
(* Packages are sent and downloaded; no reader takes the lock.             *)

\* A valid package is shared as it is,
SendShares(d) ==
    /\ UseDelivery("send")
    /\ published[d] # NoPack /\ Valid(published[d]) /\ Sendable(published[d])
    /\ shares' = shares \cup {NewShare(d)}
    /\ UNCHANGED <<today, content, published, spare, staging, build, canceling, reader>>

\* another is built again first, without a look at its answers.
SendRebuilds(d) ==
    /\ UseDelivery("send")
    /\ published[d] # NoPack /\ ~Valid(published[d])
    /\ BuildBegins(d, "send")
    /\ UNCHANGED <<today, content, canceling, shares, reader>>

\* An owner gets a package that is not valid built aside, and sees nothing of it.
OwnerDownloads(d) ==
    /\ reader.step = "none" /\ UseDelivery("download")
    /\ published[d] # NoPack
    /\ reader' = IF Valid(published[d])
                 THEN [step |-> "open", day |-> d, public |-> FALSE, read |-> {}]
                 ELSE [step |-> "end", day |-> d, public |-> FALSE, read |-> {PackOf(content, TRUE)}]
    /\ UNCHANGED <<today, content, published, spare, staging, build, canceling, shares>>

\* A client's link works until it expires, for a package that is valid.
ClientDownloads(share) ==
    /\ reader.step = "none" /\ UseDelivery("download")
    /\ share.until > today
    /\ published[share.day] # NoPack /\ Valid(published[share.day])
    /\ reader' = [step |-> "open", day |-> share.day, public |-> TRUE, read |-> {}]
    /\ UNCHANGED <<today, content, published, spare, staging, build, canceling, shares>>

\* The directory is listed, and its files are read one after the other, by name:
\* two stand for all of them.
ReaderReads ==
    /\ reader.step \in {"open", "half"}
    /\ reader' = IF published[reader.day] = NoPack THEN NoReader
                 ELSE [reader EXCEPT !.step = IF @ = "open" THEN "half" ELSE "end",
                                     !.read = @ \cup {published[reader.day]}]
    /\ UNCHANGED <<today, content, published, spare, staging, build, canceling, shares, mayDeliver>>

ReaderEnds ==
    /\ reader.step = "end"
    /\ reader' = NoReader
    /\ UNCHANGED <<today, content, published, spare, staging, build, canceling, shares, mayDeliver>>

-----------------------------------------------------------------------------
(* The project goes on.                                                    *)

\* Other jobs change the project, when nobody builds.
Work ==
    /\ build.step = "none" /\ UseDelivery("work")
    /\ content' \in [version : {content.version + 1}, pages : BOOLEAN, measured : BOOLEAN,
                     finished : {content.finished}]
    /\ UNCHANGED <<today, published, spare, staging, build, canceling, shares, reader>>

NextDay ==
    /\ today < Days
    /\ today' = today + 1
    /\ UNCHANGED <<content, published, spare, staging, build, canceling, shares, reader, mayDeliver>>

DeliveriesNext ==
    \/ JobBegins
    \/ BuildStages
    \/ BuildFails
    \/ BuildChecks
    \/ MovesAside
    \/ MovesIn
    \/ MoveFails
    \/ BuildEnds
    \/ BuildDies
    \/ Cancel
    \/ \E d \in Day : SendShares(d)
    \/ \E d \in Day : SendRebuilds(d)
    \/ \E d \in Day : OwnerDownloads(d)
    \/ \E share \in shares : ClientDownloads(share)
    \/ ReaderReads
    \/ ReaderEnds
    \/ Work
    \/ NextDay

DeliveriesSpec == DeliveriesInit /\ [][DeliveriesNext]_deliveryVars

-----------------------------------------------------------------------------
(* Properties.                                                             *)

Packs == [version : Nat, kind : {"none", "review", "diagnostic", "implementation"}, gate : BOOLEAN]

DeliveriesTypeOK ==
    /\ today \in Day
    /\ published \in [Day -> Packs] /\ spare \in [Day -> Packs] /\ staging \in Packs
    /\ build.step \in {"none", "stage", "staged", "checked", "aside", "in"}
    /\ build.day \in Day \cup {0} /\ build.by \in {"nobody", "job", "send"}
    /\ canceling \in BOOLEAN
    /\ shares \subseteq [day : Day, until : Nat]
    /\ reader.read \subseteq Packs
    /\ mayDeliver \in [DeliveryEvent -> Nat]

\* A package that was published is not lost: whatever build fails or dies at
\* whatever point, a package of its day is published, or kept as its backup.
PackagesSurvive ==
    [][\A d \in Day :
         (published[d] # NoPack \/ spare[d] # NoPack) => (published'[d] # NoPack \/ spare'[d] # NoPack)
      ]_deliveryVars

\* Nothing is ever downloaded, by an owner or a client, of a package that did not
\* pass the gate, although packages are swapped while they are read.
DownloadsPassTheGate == \A pack \in reader.read : pack.gate

\* Packages neither get lost nor get out unchecked, however builds fail and swap.
PackagesHold == PackagesSurvive /\ []DownloadsPassTheGate
=============================================================================
