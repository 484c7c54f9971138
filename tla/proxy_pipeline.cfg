SPECIFICATION FairSpec
CONSTANTS
    a1 = a1
    p1 = p1
    h1 = h1
    h2 = h2
    h3 = h3
    Agent = a1
    None = None
    Task = {t1, t2}
    Host <- MCHost
    Method <- MCMethod
    Path <- MCPath
    Ip <- MCIp
    Request <- MCRequest
    Terms <- MCTerms
    MaxBody = 2
    MaxJsonDepth = 2
    MaxHops = 2
INVARIANTS CredentialContained SendsAuthorised UseBuysLittle
PROPERTIES RequestAnswered SendsCease
