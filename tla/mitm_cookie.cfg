SPECIFICATION WorkersSpec
CONSTANTS
    Task = {t1, t2}
    Ref = {r1, r2}
    TooLong = {r2}
    None = None
    MaxCommands = 3
    MaxDropped = 1
    Event = {e1, e2, e3, e4}
    Genesis = Genesis
    Garbled = Garbled
    NoEntry = NoEntry
    WriteMayFail = TRUE
    Origin = {"a"}
    Wrapper = {"bwrap", "unshare"}
    Config <- MCConfig
    MaxLogins = 1
    NoOrigin = NoOrigin
    Host = {"a", "b"}
    Intercepted = {"a"}
    Ask <- MCAsk
    Message <- MCMessage
    MaxAsks = 1
    MaxMessages = 2
    MaxRead = 5
    Script <- MCScript
    PipeSize = 1
    Maker = {"m1", "m2"}
    Size <- MCSize
    Stored <- MCStored
    DevRef = {"e1", "e2"}
    Password = {"p", "q"}
    GatePassword = "p"
    Nobody = Nobody
    Detaches = {TRUE, FALSE}
\* The bounds on commands and logins end a behaviour.
CHECK_DEADLOCK FALSE
INVARIANT CookieIsLastHeader
