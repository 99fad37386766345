\* A client that closes its end: the thread of its connection.
CONSTANTS
    Conns = {c1, c2}
    Fds <- MC_Fds
    NoFd = NoFd
    NoConn = NoConn
SPECIFICATION Spec
PROPERTY EofReleases
\* The server waits for clients forever once all have gone.
CHECK_DEADLOCK FALSE
