\* A Buffer with kCheapPrepend as in the code and a small initial size, so
\* that appends both grow the vector and compact it.
CONSTANTS
    Bytes = {1, 2}
    kCheapPrepend = 8
    InitialSize = 2
    MaxLen = 2
    MaxReadable = 4
SPECIFICATION Spec
INVARIANT TypeOK
PROPERTY ImplementsFIFO
