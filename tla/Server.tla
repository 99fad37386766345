------------------------------ MODULE Server -------------------------------
(***************************************************************************)
(* The Connection Acceptor (src/Server.cpp) and the life of a connection   *)
(* socket (src/LinuxSocketWrapper.cpp, src/WinsockWrapper.cpp).  The       *)
(* acceptor thread accepts a client, sets TCP_NODELAY and starts a thread  *)
(* running handleClientConnection, which loops: recv one command byte,     *)
(* dispatch it.  What dispatchCommand does is modelled in Connections;     *)
(* here it returns true or false.                                          *)
(*                                                                         *)
(* Sockets are file descriptors of one process table: accept returns the   *)
(* lowest free number, close frees it.  A connection's socket is closed    *)
(* by clientSocket->close() on the error paths and again by the wrapper's  *)
(* destructor when the thread returns.                                     *)
(***************************************************************************)
EXTENDS Integers, FiniteSets

CONSTANTS
    Conns,     \* clients, each connecting once
    Fds,       \* descriptor numbers free for sockets
    NoFd,      \* model value: no descriptor
    NoConn     \* model value: no client

ASSUME Fds \subseteq Nat /\ Fds # {}

VARIABLES
    bStop,     \* Server::bStop
    apc,       \* acceptor thread: "accept", "join" (joining clientThreads), "done"
    peer,      \* the client end: "none" (not connected), "open", "eof", "reset"
    tpc,       \* connection thread: "none", "top" (the while (!bStop) test),
               \* "recv" (in recv), "dispatch", "closed", "ended"
    sock,      \* the descriptor the connection's SocketWrapper holds
    fdOpen,    \* descriptors open in the process
    owner,     \* descriptor -> the client whose socket it is, NoConn when free
    platform,  \* the build: "linux" (LinuxSocketWrapper) or "windows" (WinsockWrapper)
    nonblock   \* per client: its socket is in non-blocking mode (FIONBIO)

vars == <<bStop, apc, peer, tpc, sock, fdOpen, owner, platform, nonblock>>

\* Threads in handleClientConnection's loop, using their socket.
Live == {c \in Conns : tpc[c] \in {"top", "recv", "dispatch"}}

TypeOK ==
    /\ bStop \in BOOLEAN
    /\ apc \in {"accept", "join", "done"}
    /\ peer \in [Conns -> {"none", "open", "eof", "reset"}]
    /\ tpc \in [Conns -> {"none", "top", "recv", "dispatch", "closed", "ended"}]
    /\ sock \in [Conns -> Fds \cup {NoFd}]
    /\ fdOpen \subseteq Fds
    /\ owner \in [Fds -> Conns \cup {NoConn}]
    /\ platform \in {"linux", "windows"}
    /\ nonblock \in [Conns -> BOOLEAN]
    /\ \A c \in Live : sock[c] \in Fds

(* ::close(fd): frees the number, whoever uses it now.                     *)
Close(fd) == fdOpen' = fdOpen \ {fd}

\* The client at the other end of c's descriptor, if it is still open.
Endpoint(c) == IF sock[c] \in fdOpen THEN owner[sock[c]] ELSE NoConn

(* recv on c's socket returns -1: the number is closed or names no        *)
(* client, the connection was reset, or the socket is non-blocking.  A     *)
(* WinsockWrapper socket stays non-blocking once recvNonBlocking has set   *)
(* FIONBIO, and recv(MSG_WAITALL) on it fails (WSAEOPNOTSUPP, or           *)
(* WSAEWOULDBLOCK while no byte is there).                                 *)
RecvFails(c) ==
    \/ Endpoint(c) = NoConn
    \/ Endpoint(c) \in Conns /\ peer[Endpoint(c)] = "reset"
    \/ nonblock[c]

Init ==
    /\ bStop = FALSE
    /\ apc = "accept"
    /\ peer = [c \in Conns |-> "none"]
    /\ tpc = [c \in Conns |-> "none"]
    /\ sock = [c \in Conns |-> NoFd]
    /\ fdOpen = {}
    /\ owner = [f \in Fds |-> NoConn]
    /\ platform \in {"linux", "windows"}
    /\ nonblock = [c \in Conns |-> FALSE]

-----------------------------------------------------------------------------
(* Variant of Accept without the setsockopt failure test: a failed accept  *)
(* (-1, no descriptor free) gets a thread of its own.                      *)
AcceptServesFailed(c) ==
    /\ apc = "accept"
    /\ peer[c] = "none"
    /\ IF Fds \ fdOpen = {}
       THEN /\ peer' = [peer EXCEPT ![c] = "open"]
            /\ tpc' = [tpc EXCEPT ![c] = "top"]
            /\ UNCHANGED <<sock, fdOpen, owner>>
       ELSE LET f == CHOOSE g \in Fds \ fdOpen : \A h \in Fds \ fdOpen : g <= h
            IN /\ peer' = [peer EXCEPT ![c] = "open"]
               /\ tpc' = [tpc EXCEPT ![c] = "top"]
               /\ sock' = [sock EXCEPT ![c] = f]
               /\ fdOpen' = fdOpen \cup {f}
               /\ owner' = [owner EXCEPT ![f] = c]
    /\ apc' = IF bStop THEN "join" ELSE "accept"
    /\ UNCHANGED <<bStop, platform, nonblock>>

(* Server::start's loop, lines 56-78: accept (the lowest free descriptor); *)
(* if setsockopt(TCP_NODELAY) fails the socket is closed, twice (close,    *)
(* then the wrapper's destructor at `continue`); else a thread is started  *)
(* for it.  bStop is read only once accept has returned.  With no          *)
(* descriptor free accept returns -1 at once, setsockopt on it fails and   *)
(* the loop goes round again, the client still waiting: that changes no    *)
(* state, so Accept is simply not enabled then.                            *)
Accept(c) ==
    /\ apc = "accept"
    /\ peer[c] = "none"
    /\ Fds \ fdOpen # {}
    /\ LET f == CHOOSE g \in Fds \ fdOpen : \A h \in Fds \ fdOpen : g <= h
       IN \/ /\ peer' = [peer EXCEPT ![c] = "reset"]
             /\ tpc' = [tpc EXCEPT ![c] = "ended"]
             /\ UNCHANGED <<sock, fdOpen, owner>>
          \/ /\ peer' = [peer EXCEPT ![c] = "open"]
             /\ tpc' = [tpc EXCEPT ![c] = "top"]
             /\ sock' = [sock EXCEPT ![c] = f]
             /\ fdOpen' = fdOpen \cup {f}
             /\ owner' = [owner EXCEPT ![f] = c]
    /\ apc' = IF bStop THEN "join" ELSE "accept"
    /\ UNCHANGED <<bStop, platform, nonblock>>

(* Lines 80-83: join every client thread, in order; join waits for the     *)
(* thread to return.                                                       *)
JoinAll ==
    /\ apc = "join"
    /\ \A c \in Conns : tpc[c] \in {"none", "ended"}
    /\ apc' = "done"
    /\ UNCHANGED <<bStop, peer, tpc, sock, fdOpen, owner, platform, nonblock>>

(* Server::stop, lines 89-91.                                              *)
Stop ==
    /\ ~bStop
    /\ bStop' = TRUE
    /\ UNCHANGED <<apc, peer, tpc, sock, fdOpen, owner, platform, nonblock>>

-----------------------------------------------------------------------------
(* Variant of ThreadExit whose return does not close the socket.           *)
ThreadExitKeepsFd(c) ==
    /\ tpc[c] = "top"
    /\ bStop
    /\ tpc' = [tpc EXCEPT ![c] = "ended"]
    /\ UNCHANGED <<bStop, apc, peer, sock, fdOpen, owner, platform, nonblock>>

(* handleClientConnection, line 103: with bStop set the loop ends and the  *)
(* function returns; the wrapper's destructor closes the socket.           *)
ThreadExit(c) ==
    /\ tpc[c] = "top"
    /\ bStop
    /\ Close(sock[c])
    /\ tpc' = [tpc EXCEPT ![c] = "ended"]
    /\ UNCHANGED <<bStop, apc, peer, sock, owner, platform, nonblock>>

(* Lines 103-105: bStop is clear; recv(buffer, 1, MSG_WAITALL) is called.  *)
ToRecv(c) ==
    /\ tpc[c] = "top"
    /\ ~bStop
    /\ tpc' = [tpc EXCEPT ![c] = "recv"]
    /\ UNCHANGED <<bStop, apc, peer, sock, fdOpen, owner, platform, nonblock>>

(* recv returns what arrives on the descriptor: a command byte from the    *)
(* client at its other end (it blocks until one does) ...                  *)
RecvCommand(c) ==
    /\ tpc[c] = "recv"
    /\ Endpoint(c) # NoConn
    /\ peer[Endpoint(c)] = "open"
    /\ tpc' = [tpc EXCEPT ![c] = "dispatch"]
    /\ UNCHANGED <<bStop, apc, peer, sock, fdOpen, owner, platform, nonblock>>

(* ... 0 once that client has closed its end: `continue` (line 113) goes   *)
(* back to the loop test ...                                               *)
RecvEof(c) ==
    /\ tpc[c] = "recv"
    /\ Endpoint(c) # NoConn
    /\ peer[Endpoint(c)] = "eof"
    /\ tpc' = [tpc EXCEPT ![c] = "top"]
    /\ UNCHANGED <<bStop, apc, peer, sock, fdOpen, owner, platform, nonblock>>

(* Variant of RecvError that goes round the loop again, as for a 0.        *)
RecvErrorRetry(c) ==
    /\ tpc[c] = "recv"
    /\ RecvFails(c)
    /\ tpc' = [tpc EXCEPT ![c] = "top"]
    /\ UNCHANGED <<bStop, apc, peer, sock, fdOpen, owner, platform, nonblock>>

(* ... or -1: the socket is closed and the thread returns (lines 107-111). *)
RecvError(c) ==
    /\ tpc[c] = "recv"
    /\ RecvFails(c)
    /\ Close(sock[c])
    /\ tpc' = [tpc EXCEPT ![c] = "closed"]
    /\ UNCHANGED <<bStop, apc, peer, sock, owner, platform, nonblock>>

(* dispatchCommand returns true: back to the loop test; false: close and   *)
(* return (lines 121-125).                                                 *)
DispatchReturns(c) ==
    /\ tpc[c] = "dispatch"
    /\ \/ /\ tpc' = [tpc EXCEPT ![c] = "top"]
          /\ UNCHANGED fdOpen
       \/ /\ Close(sock[c])
          /\ tpc' = [tpc EXCEPT ![c] = "closed"]
    /\ UNCHANGED <<bStop, apc, peer, sock, owner, platform>>

(* Any command but GETARCHITECTURE leaves the socket's mode alone.         *)
Dispatch(c) ==
    /\ DispatchReturns(c)
    /\ UNCHANGED nonblock

(* GETARCHITECTURE: handleCommandGetArchitecture polls the socket with     *)
(* recvNonBlocking.  WinsockWrapper's sets FIONBIO on the socket and never *)
(* clears it; LinuxSocketWrapper's passes MSG_DONTWAIT to the one call and *)
(* leaves the socket as it was.                                            *)
DispatchGetArchitecture(c) ==
    /\ DispatchReturns(c)
    /\ nonblock' = [nonblock EXCEPT ![c] = @ \/ platform = "windows"]

(* After the explicit close the function returns; the Client and the       *)
(* thread's copy of the shared_ptr go, and ~LinuxSocketWrapper (line 16)  *)
(* or ~WinsockWrapper calls close on the same number again.                *)
Release(c) ==
    /\ tpc[c] = "closed"
    /\ Close(sock[c])
    /\ tpc' = [tpc EXCEPT ![c] = "ended"]
    /\ UNCHANGED <<bStop, apc, peer, sock, owner, platform, nonblock>>

(* The client closes its end (recv then returns 0) or the connection is    *)
(* reset (recv returns -1).                                                *)
PeerClose(c) ==
    /\ peer[c] = "open"
    /\ peer' = [peer EXCEPT ![c] = "eof"]
    /\ UNCHANGED <<bStop, apc, tpc, sock, fdOpen, owner, platform, nonblock>>

PeerReset(c) ==
    /\ peer[c] = "open"
    /\ peer' = [peer EXCEPT ![c] = "reset"]
    /\ UNCHANGED <<bStop, apc, tpc, sock, fdOpen, owner, platform, nonblock>>

-----------------------------------------------------------------------------
Next ==
    \/ \E c \in Conns : Accept(c)
    \/ JoinAll
    \/ Stop
    \/ \E c \in Conns :
          \/ ThreadExit(c) \/ ToRecv(c)
          \/ RecvCommand(c) \/ RecvEof(c) \/ RecvError(c)
          \/ Dispatch(c) \/ DispatchGetArchitecture(c) \/ Release(c)
          \/ PeerClose(c) \/ PeerReset(c)

(* Every thread the OS can run runs: the acceptor's join, and each         *)
(* connection thread's steps that do not wait for the client.  Accepting,  *)
(* sending commands, closing and stopping are the clients' and the test's  *)
(* choice.                                                                 *)
Fairness ==
    /\ WF_vars(JoinAll)
    /\ \A c \in Conns : /\ WF_vars(ThreadExit(c))
                        /\ WF_vars(ToRecv(c))
                        /\ WF_vars(RecvEof(c))
                        /\ WF_vars(RecvError(c))
                        /\ WF_vars(Dispatch(c) \/ DispatchGetArchitecture(c))
                        /\ WF_vars(Release(c))

Spec == Init /\ [][Next]_vars /\ Fairness

-----------------------------------------------------------------------------
(* No descriptor leaks: every open descriptor is the socket of a thread    *)
(* still in handleClientConnection's loop, so each path out of the loop    *)
(* (recv error, dispatch failure, stop) and the rejected accept close it.  *)
NoFdLeak ==
    \A f \in fdOpen : \E c \in Live : sock[c] = f

(* A connection the client resets is closed by the server and its thread   *)
(* ends (recv returns -1 at line 105, close and return).                   *)
ResetReleases ==
    \A c \in Conns : peer[c] = "reset" ~> tpc[c] = "ended"

(* A connection the client closes is closed by the server and its thread   *)
(* ends, as after a reset: recv returns 0 for the end of the stream.       *)
EofReleases ==
    \A c \in Conns : peer[c] = "eof" ~> tpc[c] = "ended"

(* A thread's socket stays open while the thread is in its loop: only its  *)
(* own thread closes it (the two closes of a finished connection, the      *)
(* explicit one and the wrapper destructor's, hit no other connection).    *)
SocketClosedOnlyByOwner ==
    \A c \in Live : sock[c] \in fdOpen

=============================================================================
