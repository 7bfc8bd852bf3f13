\* stopRead() with nothing to write takes the channel out of epoll; a later
\* close re-adds it with no interest and a HUP closes the connection again.
CONSTANTS
    t1 = t1
    Foreign <- MCForeign
    UserOps = {"send", "shutdown", "forceClose", "startRead", "stopRead"}
    ForeignOps = {}
    ReadControlStates <- LiveStates
    HighWaterMark = 2
    MaxLen = 2
    MaxCalls = 3
    MaxPeerSends = 1
    Owners = {"server"}
    ClientRetry = {FALSE}
SPECIFICATION Spec
INVARIANT CloseOnce
