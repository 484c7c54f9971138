SPECIFICATION GuardsSpec
CONSTANTS
    Host = {"h1", "h2"}
    Method = {"m1", "m2"}
    Path <- MCPath
    Allow <- MCAllow
    Request <- MCScope
    Child <- MCChild
    None = None
    MaxJsonDepth = 1
    GlobPath <- MCGlobPath
    GlobPattern <- MCGlobPattern
    MaxDepth = 2
    Conn = {c1, c2}
    Nonce = {1, 2, 3}
    Stamp = {5}
    Tick = 2
    Window = 1
    Capacity = 2
    NoRequest = NoRequest
    MaxTime = 9
    MaxAccepts = 4
    Caller = {t1, t2}
    Token <- MCToken
    Key <- MCKey
    IdToken <- MCIdToken
    Trusted <- MCTrusted
    FetchLimit = 1
    MaxClock = 3
    MaxEvents = 2
    MaxIssued = 1
    NoToken = NoToken
    GateId = {g1, g2}
    NoGate = NoGate
    Kind = {"rust", "python", "typescript", "wrap"}
    CredRef = {"r1", "r2"}
    MaxCalls = 3
    MaxOpen = 2
\* The bounds end a behaviour.
CHECK_DEADLOCK FALSE
INVARIANTS GrantWithinBoth  GlobRight ReplayBounded SpentTokensRefused AttestationCurrent AloneIsFound FetchUsesAsked NoCallStranded
