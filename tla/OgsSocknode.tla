---------------------------- MODULE OgsSocknode ----------------------------
(***************************************************************************)
(* src/core/ogs-socknode.c with ogs-tcp.c and ogs-udp.c: a node holds a    *)
(* list of addresses, the socket opened for one of them, and the polls of  *)
(* that socket; freeing the node gives everything back.                    *)
(*                                                                         *)
(* The calls are those of one thread.  A node that is given a list owns it *)
(* from then on.  The pollset is known by its registrations: `watch' has   *)
(* the descriptor and the direction of each, and epoll takes a descriptor  *)
(* once, whatever the direction.                                           *)
(***************************************************************************)
EXTENDS OgsSocket

CONSTANTS Nodes,       \* memory blocks for nodes
          Backends,    \* of "epoll", "select"
          NoNode       \* an unused node

Directions == {"in", "out"}

NodeRecords == [addr : Seq(Blocks), sock : Socks \cup {NoSock},
                handler : SUBSET Directions, poll : SUBSET Directions]

ASSUME SocknodeAssumption == Nodes \cap Holders = {} /\ NoNode \notin NodeRecords

VARIABLES node,        \* [Nodes -> record or NoNode]
          list,        \* the nodes on the program's list
          watch,       \* the registrations of the pollset
          backend

nodevars == <<node, list, watch, backend>>
netvars == <<addrvars, sockvars, nodevars>>

NodeInit == /\ node = [n \in Nodes |-> NoNode]
            /\ list = {}
            /\ watch = {}
            /\ backend \in Backends

UsedNodes == {n \in Nodes : node[n] # NoNode}

NewNode(s) == [addr |-> s, sock |-> NoSock, handler |-> {}, poll |-> {}]

\* ogs_socknode_new: the node takes over the holder's list.
SocknodeNew(h) ==
  /\ sa[h] # << >>
  /\ \E n \in Nodes \ UsedNodes : node' = [node EXCEPT ![n] = NewNode(sa[h])]
  /\ sa' = [sa EXCEPT ![h] = << >>]
  /\ UNCHANGED <<record, aborted, sockvars, list, watch, backend>>

\* ogs_socknode_add: the list is filtered first, and no node is made when
\* nothing is left of it.
SocknodeAdd(h, family) ==
  LET kept == IF family = "unspec" THEN sa[h] ELSE Filtered(sa[h], family) IN
  /\ sa[h] # << >>
  /\ record' = Released(ToSet(sa[h]) \ ToSet(kept))
  /\ sa' = [sa EXCEPT ![h] = << >>]
  /\ \/ kept = << >> /\ UNCHANGED <<node, list>>
     \/ /\ kept # << >>
        /\ \E n \in Nodes \ UsedNodes : /\ node' = [node EXCEPT ![n] = NewNode(kept)]
                                        /\ list' = list \cup {n}
  /\ UNCHANGED <<aborted, sockvars, watch, backend>>

-----------------------------------------------------------------------------
(* Freeing                                                                 *)

\* The registrations that are left when the polls of n are removed.
WatchWithout(n) ==
  IF node[n].sock = NoSock THEN watch
  ELSE watch \ ({sock[node[n].sock]} \X node[n].poll)

\* ogs_socknode_free: addresses, polls, then the socket (by the handler of
\* ogs_socknode_set_cleanup if there is one), then the node.
FreeNode(n) ==
  /\ record' = Released(ToSet(node[n].addr))
  /\ watch' = WatchWithout(n)
  /\ IF node[n].sock = NoSock THEN UNCHANGED <<sock, kernel>> ELSE Destroyed(node[n].sock)
  /\ node' = [node EXCEPT ![n] = NoNode]
  /\ UNCHANGED <<sa, aborted, caller, backend>>

SocknodeFree(n) == n \notin list /\ FreeNode(n) /\ UNCHANGED list
SocknodeRemove(n) == n \in list /\ FreeNode(n) /\ list' = list \ {n}

\* ogs_socknode_remove_all.
RemoveAll ==
  LET socks == {node[n].sock : n \in list} \ {NoSock}
  IN  /\ list # {}
      /\ record' = Released(UNION {ToSet(node[n].addr) : n \in list})
      /\ watch' = watch \ UNION {watch \ WatchWithout(n) : n \in list}
      /\ sock' = [k \in Socks |-> IF k \in socks THEN NoSock ELSE sock[k]]
      /\ kernel' = Closed({sock[k] : k \in socks})
      /\ node' = [n \in Nodes |-> IF n \in list THEN NoNode ELSE node[n]]
      /\ list' = {}
      /\ UNCHANGED <<sa, aborted, caller, backend>>

-----------------------------------------------------------------------------
(* Handlers                                                                *)

SetPoll(n, when) ==
  /\ node' = [node EXCEPT ![n].handler = @ \cup {when}]
  /\ UNCHANGED <<addrvars, sockvars, list, watch, backend>>

\* The pollset accepts both registrations of install_poll, or it is epoll,
\* refuses the second, and the assertion ends the process.
InstallFails(n) == backend = "epoll" /\ node[n].handler = Directions

\* ogs_socknode_install_poll: node->sock is k, with descriptor fd.
Installed(n, k, fd) ==
  /\ node' = [node EXCEPT ![n].sock = k, ![n].poll = node[n].handler]
  /\ watch' = watch \cup ({fd} \X node[n].handler)
  /\ UNCHANGED <<record, sa, list, backend>>

-----------------------------------------------------------------------------
(* Opening the socket of a node                                            *)

\* For the addresses `failed' there is no socket: the records made for them
\* are lost.
Losses(failed) == {lost \in SUBSET FreeSocks : Cardinality(lost) = Cardinality(failed)}

RecordsWith(lost) == [k \in Socks |-> IF k \in lost THEN InvalidSocket ELSE sock[k]]

\* One address of the node works: socket() failed for `failed' before it;
\* where bind() or connect() failed the socket has been destroyed again.
Opens(n, failed, listens) ==
  \E lost \in Losses(failed), fd \in FreeFds :
    \E k \in FreeSocks \ lost :
      /\ sock' = [RecordsWith(lost) EXCEPT ![k] = fd]
      /\ kernel' = Opened(fd, listens)
      /\ aborted' = InstallFails(n)
      /\ Installed(n, k, fd)
      /\ UNCHANGED caller

\* Nothing works: the node stays without a socket.
OpensNothing(n, failed) ==
  /\ \E lost \in Losses(failed) : sock' = RecordsWith(lost)
  /\ UNCHANGED <<kernel, caller, addrvars, nodevars>>

TcpOpen(n, listens) ==
  /\ node[n].sock = NoSock
  /\ \/ \E i \in DOMAIN node[n].addr : \E failed \in SUBSET (1 .. i - 1) : Opens(n, failed, listens)
     \/ \E failed \in SUBSET DOMAIN node[n].addr : OpensNothing(n, failed)
     \/ /\ listens      \* setsockopt or listen fails, and an assertion with it
        /\ aborted' = TRUE
        /\ UNCHANGED <<record, sa, sockvars, nodevars>>

TcpServer(n) == TcpOpen(n, TRUE)
TcpClient(n) == TcpOpen(n, FALSE)

\* ogs_udp_socket asserts its socket: no address is tried after one for
\* which there is no socket.
UdpOpen(n, listens) ==
  /\ node[n].sock = NoSock
  /\ \/ \E i \in DOMAIN node[n].addr : Opens(n, {}, listens)
     \/ OpensNothing(n, {})
     \/ /\ aborted' = TRUE
        /\ UNCHANGED <<record, sa, sockvars, nodevars>>

UdpServer(n) == UdpOpen(n, FALSE)
UdpClient(n) == UdpOpen(n, FALSE)

\* A connection for the listener of a node; the new record is the caller's.
NodeAccept(n) == /\ node[n].sock # NoSock
                 /\ SockAccept(node[n].sock)
                 /\ UNCHANGED <<addrvars, nodevars>>

-----------------------------------------------------------------------------
(* ogs_socknode_probe                                                      *)

Usable(x, dev, families) ==
  /\ x.flags = {}                            \* neither loopback nor point-to-point
  /\ x.dev = dev \/ dev = "any"
  /\ x.family \in families
  /\ x.class = "global"

\* A node for every interface address that other hosts may use, of the
\* families for which the caller gave a list.
Probe(dev, families) ==
  LET found == Picked(Ifaces, {i \in DOMAIN Ifaces : Usable(Ifaces[i], dev, families)}) IN
  \E s \in NewBlocks(Len(found)),
     n \in {n \in [DOMAIN found -> Nodes \ UsedNodes] : IsInjective(n)} :
       /\ record' = Filled(s, [i \in DOMAIN s |-> AddressOf(found[i])])
       /\ node' = [x \in Nodes |-> IF \E i \in DOMAIN n : n[i] = x
                                   THEN NewNode(<<s[CHOOSE i \in DOMAIN n : n[i] = x]>>)
                                   ELSE node[x]]
       /\ list' = list \cup Range(n)
       /\ UNCHANGED <<sa, aborted, sockvars, watch, backend>>

-----------------------------------------------------------------------------
NodeCall ==
  \/ \E h \in Holders : \/ SocknodeNew(h)
                        \/ \E f \in Families \cup {"unspec"} : SocknodeAdd(h, f)
  \/ \E n \in UsedNodes : \/ SocknodeFree(n) \/ SocknodeRemove(n)
                          \/ \E when \in Directions : SetPoll(n, when)
                          \/ TcpServer(n) \/ TcpClient(n)
                          \/ UdpServer(n) \/ UdpClient(n)
                          \/ NodeAccept(n)
  \/ \E i \in DOMAIN Ifaces, families \in SUBSET Families :
       \E dev \in {Ifaces[i].dev, "any"} : Probe(dev, families)
  \/ RemoveAll

NetInit == AddrInit /\ SockInit /\ NodeInit

NetNext == IF aborted THEN UNCHANGED netvars
           ELSE \/ AddrCall /\ UNCHANGED <<sockvars, nodevars>>
                \/ SockCall /\ UNCHANGED <<addrvars, nodevars>>
                \/ NodeCall

NetSpec == NetInit /\ [][NetNext]_netvars

-----------------------------------------------------------------------------
(* Properties                                                              *)

\* Where block b is linked: by holders and by nodes.
Owners == Holders \cup UsedNodes
ListOf(o) == IF o \in Holders THEN sa[o] ELSE node[o].addr
Links(b) == UNION {{o} \X {i \in DOMAIN ListOf(o) : ListOf(o)[i] = b} : o \in Owners}

\* Through adding, filtering, sorting, copying and handing lists to nodes,
\* every allocated address is on exactly one list and a freed one on none:
\* nothing leaks, and no free is a second one.
AddressesHaveOneOwner ==
  \A b \in Blocks : Cardinality(Links(b)) = IF record[b] = NoAddr THEN 0 ELSE 1

NodeSocks == {node[n].sock : n \in UsedNodes} \ {NoSock}

\* Whatever fails on the way (socket, bind, connect, no address left), every
\* open descriptor has one record that somebody holds, and every
\* registration of the pollset is a poll of the node that holds its
\* descriptor: none outlives the descriptor, whose number may come back.
DescriptorsHaveOneOwner ==
  LET held == caller \cup NodeSocks IN
  ~aborted =>
    /\ caller \cap NodeSocks = {}
    /\ OpenFds = {sock[k] : k \in held}
    /\ \A k, m \in held : sock[k] = sock[m] => k = m
    /\ watch = UNION {{sock[node[n].sock]} \X node[n].poll :
                      n \in {n \in UsedNodes : node[n].sock # NoSock}}

\* Every address and every descriptor has one owner, through all failures.
EverythingHasOneOwner == AddressesHaveOneOwner /\ DescriptorsHaveOneOwner

\* ogs_sortaddrinfo loses nothing and doubles nothing, and an address of the
\* preferred family comes first if there is one: it is what tcp_client and
\* its like try first.
SortPrefersFamily ==
  \A h \in Holders, f \in Families :
    LET s == SortedBy(sa[h], f) IN
      /\ ToSet(s) = ToSet(sa[h]) /\ Len(s) = Len(sa[h])
      /\ (\E b \in ToSet(s) : FamilyOf(b) = f) => FamilyOf(s[1]) = f

\* "Unknown family(%d)": two addresses of known families can be compared.
KnownFamiliesCompare ==
  \A b1, b2 \in Blocks \ FreeBlocks : IsEqual(record[b1], record[b2]) \in {"true", "false"}
=============================================================================
