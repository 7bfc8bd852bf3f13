\* One connection owned by a TcpServer or a TcpClient, the application calling on the loop thread.
CONSTANTS
    t1 = t1
    Foreign <- MCForeign
    UserOps = {"send", "shutdown", "forceClose", "forceCloseWithDelay", "startRead", "connect", "disconnect", "stop"}
    ForeignOps = {"send"}
    ReadControlStates <- LiveStates
    HighWaterMark = 2
    MaxLen = 2
    MaxCalls = 2
    MaxPeerSends = 1
    Owners = {"server", "client"}
    ClientRetry = {TRUE}
SPECIFICATION FairSpec
INVARIANT TypeOK
INVARIANT CloseOnce
INVARIANT ShutdownAfterDrain
INVARIANT WriteInterestMatchesBacklog
INVARIANT ChannelGoneBeforeDestroy
PROPERTY ClosedIsReleased
PROPERTY ShutdownCompletes
PROPERTY ImplementsLifecycle
PROPERTY DelayedCloseCompletes
