\* Another thread calls shutdown() and forceClose() while the peer closes.
CONSTANTS
    t1 = t1
    Foreign <- MCForeign
    UserOps = {}
    ForeignOps = {"shutdown", "forceClose"}
    ReadControlStates <- LiveStates
    HighWaterMark = 2
    MaxLen = 2
    MaxCalls = 2
    MaxPeerSends = 1
    Owners = {"server"}
    ClientRetry = {FALSE}
SPECIFICATION Spec
INVARIANT CloseOnce
