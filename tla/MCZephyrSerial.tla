--------------------------- MODULE MCZephyrSerial ---------------------------
EXTENDS ZephyrSerial

CONSTANTS t1, t2

\* Two writers, one of which also begins and flushes.
MCWriters == [t \in Thread |-> IF t = t1 THEN {"begin", "write", "flush"}
                                         ELSE {"write"}]

\* Two readers, one of which also begins.
MCReaders == [t \in Thread |-> IF t = t1 THEN {"begin", "available", "read"}
                                         ELSE {"peek", "read", "availableForWrite"}]

\* One writes more than the ring holds.
MCMaxSent == [t \in Thread |-> IF t = t1 THEN 3 ELSE 1]
MCNone    == [t \in Thread |-> 0]

\* The thread of the CAN library, and the main thread.
MCPriority == [t \in Thread |-> IF t = t1 THEN 10 ELSE 14]
=============================================================================
