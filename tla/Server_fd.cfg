\* Two clients, one after the other, on one descriptor number: the socket
\* of the second while the first's thread finishes.
CONSTANTS
    Conns = {c1, c2}
    Fds <- MC_Fds
    NoFd = NoFd
    NoConn = NoConn
SPECIFICATION Spec
INVARIANT SocketClosedOnlyByOwner
CHECK_DEADLOCK FALSE
