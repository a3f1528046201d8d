----------------------------- MODULE OgsSocket -----------------------------
(***************************************************************************)
(* src/core/ogs-socket.c: socket records and the descriptors behind them.  *)
(*                                                                         *)
(* The kernel is modelled by the descriptors that are open, and whether    *)
(* each listens; every system call may fail.  A record whose socket()      *)
(* failed is freed by nobody (line 91).  Of the record only the descriptor *)
(* is kept: its family and addresses are copies that nothing here reads.   *)
(***************************************************************************)
EXTENDS OgsSockaddr

CONSTANTS Socks,       \* memory blocks for socket records
          Fds,         \* the descriptors the process may have
          NoSock       \* no record

InvalidSocket == -1

ASSUME SocketAssumption == Fds \subseteq Nat /\ NoSock \notin Socks \cup Fds \cup {InvalidSocket}

VARIABLES sock,        \* [Socks -> the descriptor of the record, or NoSock]
          kernel,      \* [open descriptors -> do they listen?]
          caller       \* the records the program itself holds

sockvars == <<sock, kernel, caller>>

SockInit == /\ sock = [k \in Socks |-> NoSock]
            /\ kernel = << >>
            /\ caller = {}

OpenFds == DOMAIN kernel
FreeFds == Fds \ OpenFds
UsedSocks == {k \in Socks : sock[k] # NoSock}
FreeSocks == Socks \ UsedSocks

\* The table of the kernel with one descriptor more, or some fewer.
Opened(fd, listens) == [f \in OpenFds \cup {fd} |-> IF f = fd THEN listens ELSE kernel[f]]
Closed(fds) == [f \in OpenFds \ fds |-> kernel[f]]

-----------------------------------------------------------------------------
\* ogs_sock_destroy, as far as the record and its descriptor go.
Destroyed(k) == /\ sock' = [sock EXCEPT ![k] = NoSock]
                /\ kernel' = Closed({sock[k]})

\* ogs_sock_socket by the program.  A failure loses the record.
SockSocket ==
  \E k \in FreeSocks :
    \/ \E fd \in FreeFds :
         /\ sock' = [sock EXCEPT ![k] = fd]
         /\ kernel' = Opened(fd, FALSE)
         /\ caller' = caller \cup {k}
    \/ /\ sock' = [sock EXCEPT ![k] = InvalidSocket]
       /\ UNCHANGED <<kernel, caller>>

SockDestroy(k) == k \in caller /\ Destroyed(k) /\ caller' = caller \ {k}

\* ogs_sock_listen; a failure changes nothing.
SockListen(k) == /\ sock[k] \in OpenFds
                 /\ kernel' = [kernel EXCEPT ![sock[k]] = TRUE]
                 /\ UNCHANGED <<sock, caller>>

\* ogs_sock_accept: a new record for the connection; nothing is allocated
\* when accept() fails.
SockAccept(k) ==
  /\ sock[k] \in OpenFds /\ kernel[sock[k]]
  /\ \E new \in FreeSocks, fd \in FreeFds :
       /\ sock' = [sock EXCEPT ![new] = fd]
       /\ kernel' = Opened(fd, FALSE)
       /\ caller' = caller \cup {new}

-----------------------------------------------------------------------------
SockCall ==
  \/ SockSocket
  \/ \E k \in caller : SockListen(k) \/ SockAccept(k) \/ SockDestroy(k)
=============================================================================
