SPECIFICATION WorkspaceSpec
CONSTANTS
    FactValues = {v1, v2}
    FactEvents <- MCFactEvents
    Versions = 2
    AssetEvents <- MCAssetEvents
    Days = 2
    DeliveryEvents <- MCDeliveryEvents
    Person = {ann}
    Eligible = TRUE
    Changes <- MCChanges
    Budgets <- MCBudgets
    Traits <- SixPages
    Order <- ByRank
    Webs <- EverySite
    CrawlBudgets <- FourBudgets
    Paths = {config, tasks, search}
    Unlocked = {search}
    Retention = 2
    Happenings <- MCHappenings
INVARIANTS WorkspaceTypeOK NoPassWithoutEvidence
PROPERTIES FactsAreOwned  PackagesHold  EvidenceStays 
CHECK_DEADLOCK FALSE
