----------------------------- MODULE MCWorkspace -----------------------------
(* What a project's directory holds: brand facts, generated assets, delivery   *)
(* packages, tickets, crawled evidence and snapshots. Each of them is written  *)
(* by several actors, and a behaviour is of one of them.                       *)
EXTENDS Facts, Assets, Deliveries, Tickets, MCSites, Snapshots

-----------------------------------------------------------------------------
(* What happens in a behaviour of the tickets, the facts, the assets, the      *)
(* deliveries and the snapshots.                                               *)

TicketBudget(changes, runs, manual, edits, jobs, binds, deaths, days) ==
    [changes |-> changes, runs |-> runs, offsite |-> manual, edits |-> edits, jobs |-> jobs,
     binds |-> binds, deaths |-> deaths, days |-> days]
MCBudgets ==
    {TicketBudget(1, 0, 0, 1, 2, 0, 0, 0), TicketBudget(0, 1, 1, 1, 2, 0, 0, 0),
     TicketBudget(1, 0, 2, 0, 2, 0, 1, 0), TicketBudget(0, 2, 0, 0, 4, 1, 0, 1)}

\* One field at a time, or a note.
MCChanges ==
    {c \in Change : Cardinality({f \in {"status", "owner"} : c[f] # "as_is"})
                       + (IF c.note THEN 1 ELSE 0) = 1}

FactBudget(crawl, model, save, patch, sample, import) ==
    [crawl |-> crawl, model |-> model, save |-> save, patch |-> patch, sample |-> sample,
     import |-> import]
MCFactEvents ==
    {FactBudget(0, 2, 0, 0, 0, 0), FactBudget(1, 1, 0, 1, 0, 0), FactBudget(0, 1, 1, 0, 0, 0),
     FactBudget(0, 0, 1, 0, 1, 1), FactBudget(1, 0, 1, 0, 1, 0)}

AssetBudget(edit, change, schema, question, generate, deliver, kill) ==
    [edit |-> edit, facts |-> change, schema |-> schema, question |-> question,
     generate |-> generate, deliver |-> deliver, kill |-> kill]
MCAssetEvents ==
    {AssetBudget(1, 0, 0, 0, 2, 0, 1), AssetBudget(1, 1, 0, 0, 0, 1, 0),
     AssetBudget(0, 1, 1, 1, 1, 1, 0)}

MCDeliveryEvents ==
    {[deliver |-> 2, work |-> 1, send |-> 1, download |-> 1, cancel |-> 1, kill |-> 1]}

SnapshotBudget(jobs, written, troubles, deaths, losses, retirements) ==
    [jobs |-> jobs, writes |-> written, troubles |-> troubles, deaths |-> deaths,
     losses |-> losses, retirements |-> retirements]
MCHappenings ==
    {SnapshotBudget(4, 1, 1, 1, 0, 0), SnapshotBudget(2, 2, 0, 1, 1, 0),
     SnapshotBudget(2, 0, 1, 1, 0, 1)}

-----------------------------------------------------------------------------
VARIABLE part
workspaceVars ==
    <<factsVars, assetsVars, deliveryVars, ticketVars, crawlVars, snapshotVars, part>>

\* The parts that a behaviour is not of start in one way.
OneFact == mayFact = FactBudget(0, 2, 0, 0, 0, 0) /\ {brand[f] : f \in FactFields} = {"none"}
               /\ pages.text = {} /\ facts.by = "nobody"
OneAsset == mayAsset = AssetBudget(1, 1, 0, 0, 0, 1, 0) /\ files = edited
                /\ library.complete /\ library.approved /\ typed = "none"
OneDelivery == content.measured /\ content.finished /\ published[1] = NoPack
OneTicket == left.days = 1
OneCrawl == may.move = 1 /\ web = WebOf(All(Good))
OneSnapshot == happens.retirements = 1 /\ remote

WorkspaceInit ==
    /\ part \in {"facts", "assets", "deliveries", "tickets", "crawls", "snapshots"}
    /\ FactsInit      /\ (part # "facts" => OneFact)
    /\ AssetsInit     /\ (part # "assets" => OneAsset)
    /\ DeliveriesInit /\ (part # "deliveries" => OneDelivery)
    /\ TicketsInit    /\ (part # "tickets" => OneTicket)
    /\ CrawlsInit     /\ (part # "crawls" => OneCrawl)
    /\ SnapshotsInit  /\ (part # "snapshots" => OneSnapshot)

WorkspaceNext ==
    \/ /\ part = "facts" /\ FactsNext
       /\ UNCHANGED <<assetsVars, deliveryVars, ticketVars, crawlVars, snapshotVars, part>>
    \/ /\ part = "assets" /\ AssetsNext
       /\ UNCHANGED <<factsVars, deliveryVars, ticketVars, crawlVars, snapshotVars, part>>
    \/ /\ part = "deliveries" /\ DeliveriesNext
       /\ UNCHANGED <<factsVars, assetsVars, ticketVars, crawlVars, snapshotVars, part>>
    \/ /\ part = "tickets" /\ TicketsNext
       /\ UNCHANGED <<factsVars, assetsVars, deliveryVars, crawlVars, snapshotVars, part>>
    \/ /\ part = "crawls" /\ CrawlsNext
       /\ UNCHANGED <<factsVars, assetsVars, deliveryVars, ticketVars, snapshotVars, part>>
    \/ /\ part = "snapshots" /\ SnapshotsNext
       /\ UNCHANGED <<factsVars, assetsVars, deliveryVars, ticketVars, crawlVars, part>>

WorkspaceSpec == WorkspaceInit /\ [][WorkspaceNext]_workspaceVars

\* The variables of all parts keep to their values.
WorkspaceTypeOK ==
    /\ FactsTypeOK /\ AssetsTypeOK /\ DeliveriesTypeOK
    /\ TicketsTypeOK /\ CrawlsTypeOK /\ SnapshotsTypeOK
=============================================================================
