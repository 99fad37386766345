\* Two clients connecting, commanding, closing, resetting and a stop: no
\* descriptor leaks and a reset connection is always released.
CONSTANTS
    Conns = {c1, c2}
    Fds <- MC_Fds
    NoFd = NoFd
    NoConn = NoConn
SPECIFICATION Spec
INVARIANT TypeOK
INVARIANT NoFdLeak
PROPERTY ResetReleases
\* The server waits for clients forever once all have gone.
CHECK_DEADLOCK FALSE
