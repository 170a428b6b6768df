SPECIFICATION OutwardSpec
CONSTANTS
    p1 = p1  p2 = p2  w1 = w1  w2 = w2
    Callers <- MCCallers
    Loads <- MCLoads
    Chains <- MCChains
    CallLimit = 1
    Editors <- MCProcess
    Mailers <- MCMailers
    Letters = {"a", "b"}
    MaxRevision = 2
    MaxSendJobs = 2
    Tries = 2
    Mishaps <- MCMishaps
    Clients <- MCProcess
    Files = {"f", "g"}
    Repos = {"r1", "r2"}
    PullsKept = 2
    PostsKept = 1
    MaxEdits = 1
    Upsets <- MCUpsets
    Handlers <- MCProcess
    Users = {"u", "v"}
    Sites = {"s1", "s2"}
    Properties <- MCProperties
    Accounts <- MCAccountsOf
    Relation <- MCRelation
    Queries <- MCQueries
    ScanLimit = 2
    FallbackKeep = 1
    CandidateKeep = 1
    HistoryKeep = 1
    Occasions <- MCOccasions
    Engines = {"doubao", "deepseek", "custom_1"}
    Profile <- MCProfile
    Questions = {1, 2}
    Texts = 2
    Repeat = 1
    Scenes <- MCScenes
INVARIANTS OutwardTypeOK ContextsStayApart  RecordsMatch 
PROPERTIES VerdictsMatchEvidence
SYMMETRY Symmetry
CHECK_DEADLOCK FALSE
