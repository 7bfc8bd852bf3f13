\* The owner of a live connection destroyed: a TcpServer on its base loop, a TcpClient on the loop thread or on another thread.
CONSTANTS
    t1 = t1
    Foreign <- MCForeign
    UserOps = {"send", "~TcpClient", "~TcpServer"}
    ForeignOps = {"~TcpClient"}
    ReadControlStates <- LiveStates
    HighWaterMark = 2
    MaxLen = 2
    MaxCalls = 2
    MaxPeerSends = 1
    Owners = {"server", "client"}
    ClientRetry = {FALSE}
SPECIFICATION Spec
INVARIANT OwnerDtorLeavesNoDanglingPointer
