SPECIFICATION FairSpec
CONSTANTS
    Host = {"h"}
    Method = {}
    Path = {}
    None = None
    MaxJsonDepth = 1
    NumFiles = 2
    Content <- MCContent
    Initial <- MCInitial
    Garbled = Garbled
    Malformed = Malformed
    Wildcard = Wildcard
    Agent <- MCAgent
    Credential = {"k"}
    Requested <- MCRequested
    Task = {t1}
    Gui = {"kdialog", None}
    ProtocolRenewals = 3
    ProtocolCumulative = 4
    MaxName = 2
    ChannelSize = 1
    MaxEdits = 2
    MaxDialogs = 2
INVARIANT GrantJustified
PROPERTIES RequestReturns SeenChangeInForce
