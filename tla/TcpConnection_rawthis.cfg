\* Another thread calls send() on a connection the peer is closing.
CONSTANTS
    t1 = t1
    Foreign <- MCForeign
    UserOps = {}
    ForeignOps = {"send"}
    ReadControlStates <- LiveStates
    HighWaterMark = 2
    MaxLen = 2
    MaxCalls = 2
    MaxPeerSends = 1
    Owners = {"server"}
    ClientRetry = {FALSE}
SPECIFICATION Spec
INVARIANT NoUseAfterFree
