SPECIFICATION DashboardSpec
CONSTANTS
    Calls = {c1, c2}
    c1 = c1
    c2 = c2
    Emails = {"anna@shop"}
    Email <- MCEmail
    Rejected = {}
    RefreshedTTL = 1
    AccessTTL = 2
    RefreshTTL = 3
    Horizon = 3
    Faults = 1

    Requests = {q1, q2}
    Users = {anna, ben}
    Orgs = {home, office}
    Home <- MCHome
    Projects = {shop1, shop2, shop3}
    Endpoints = {hook1, hook2, hook3}
    Rules = {mock1, mock2, mock3}
    Keys = {key1, key2, key3}
    Channels = {chat1, chat2, chat3}
    Suites = {suite1, suite2, suite3}
    Findings = {leak1, leak2}
    Captured = {got1, got2}
    Initially <- MCInitially
    Slugs = {addr1, addr2, addr3}
    SlugOf <- MCSlugOf
    Urls = {url}
    None = None
    anna = anna
    ben = ben
    home = home
    office = office
    shop1 = shop1
    shop2 = shop2
    shop3 = shop3
    hook1 = hook1
    hook2 = hook2
    hook3 = hook3
    mock1 = mock1
    mock2 = mock2
    mock3 = mock3
    key1 = key1
    key2 = key2
    key3 = key3
    chat1 = chat1
    chat2 = chat2
    chat3 = chat3
    suite1 = suite1
    suite2 = suite2
    suite3 = suite3
    leak1 = leak1
    leak2 = leak2
    got1 = got1
    got2 = got2
    addr1 = addr1
    addr2 = addr2
    addr3 = addr3

    Paths = {top, amount, token}
    Top = top
    Up <- MCUp
    Element = {}
    Sensitive = {token}
    top = top
    amount = amount
    token = token
    Edits = {h1, h2, h3}
    BaselineIds = {1, 2, 3}
    Hooks = {w1, w2}
    Doc <- MCDoc
    Samples <- MCSamples
    Contracts <- MCContracts
    Slips = 1

    Questions = {x1}
    Provider = "groq"
    Texts <- MCTexts
    Labels <- MCLabels
    Revisions = 2
SYMMETRY MCSymmetry
INVARIANTS
    DashboardTypeOK
    AccountsUsable
    NamedColumnsStick
    OneActiveBaseline
    DriftSettles
    RefusedOnlyIfDeleted
    
PROPERTY TenantIsolation
CHECK_DEADLOCK FALSE
