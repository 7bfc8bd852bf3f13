\* A TcpServer with a pool of two I/O loops: start(), three accepted
\* connections handed out round-robin (next_ wraps), peers closing them,
\* and the server and its pool destroyed at any point.
CONSTANTS
    NumThreads = 2
    MaxConns = 3
SPECIFICATION FairSpec
INVARIANT TypeOK
INVARIANT StartedLoopsLive
INVARIANT RoundRobin
INVARIANT ConnectionFunctorsInOrder
PROPERTY StartCompletes
PROPERTY ClosedConnectionReleased
\* The program ends once the pool is destroyed.
CHECK_DEADLOCK FALSE
