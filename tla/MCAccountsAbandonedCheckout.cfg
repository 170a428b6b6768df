SPECIFICATION AccountsSpec
CONSTANTS
    p1 = p1  p2 = p2  plan1 = plan1  plan2 = plan2  s1 = s1  s2 = s2  x1 = x1  x2 = x2
    Plan <- MCPlan
    Sub <- MCSub
    Handler <- MCProcess
    Caller <- MCProcess
    None = None
    Period = 2
    MaxTime = 4
    MaxEvents = 7
    MaxRows = 2
    Process <- MCProcess
    MaxTokens = 3
    MaxEnds = 2
    MaxLinks = 1
    Person <- MCPerson
    Founder = x1
    Desk <- MCProcess
    MaxInvites = 1
    MaxKeys = 1
    Slugs <- MCSlugs
    Askers <- MCProcess
    Catalog <- MCCatalog
    Price <- MCPrice
    Searches = {"openai"}
    Codes = {"openai", "deepseek", "kimi"}
    Asks <- MCAsks
    Rounds = 1
    StartBudget = 3
    PoolLimit = 5
    ProjectLimit <- MCProjectLimit
    PerProject = 3
    TrialDays = 2
    RetestDays = {1, 2}
    Customers <- MCCustomers
INVARIANTS TrialSurvivesCheckout
SYMMETRY Symmetry
CHECK_DEADLOCK FALSE
