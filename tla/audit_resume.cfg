SPECIFICATION LogSpec
CONSTANTS
    Event = {e1, e2}
    Genesis = Genesis
    Garbled = Garbled
    NoEntry = NoEntry
    WriteMayFail = FALSE
INVARIANT ResumedChainIntact
