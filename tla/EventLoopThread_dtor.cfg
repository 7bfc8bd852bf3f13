\* Destroying a TcpServer and its pool of one I/O loop right after start(),
\* before any connection is accepted.
CONSTANTS
    NumThreads = 1
    MaxConns = 0
SPECIFICATION FairSpec
PROPERTY DestroyCompletes
\* The program ends once the pool is destroyed.
CHECK_DEADLOCK FALSE
