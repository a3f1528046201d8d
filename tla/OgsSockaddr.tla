---------------------------- MODULE OgsSockaddr ----------------------------
(***************************************************************************)
(* src/core/ogs-sockaddr.c: lists of socket addresses.                     *)
(*                                                                         *)
(* Every element of a list is a block of its own from ogs_calloc, linked   *)
(* by `next'.  `record' is what the blocks hold; a list is the sequence of *)
(* its blocks, and a holder is a variable of the program that points to    *)
(* the first of them.  Whoever holds a list frees all of it.  Ports are    *)
(* left out, and an address is its number: nothing here looks inside,      *)
(* except for the class of an IPv6 address.                                *)
(***************************************************************************)
EXTENDS Integers, Sequences, SequencesExt, FiniteSets, FiniteSetsExt

CONSTANTS Blocks,      \* the memory blocks for addresses
          Holders,     \* the variables of the program that hold lists
          Known,       \* what the resolver knows: records [family, ip, scope]
          MaxFound,    \* the longest answer of the resolver
          Ifaces,      \* getifaddrs: a sequence of records
                       \*   [dev, flags, family, ip, class, scope]
          NoAddr       \* an unused block

Families == {"inet", "inet6"}

Addresses == [family : Families,
              ip : {a.ip : a \in Known} \cup {Ifaces[i].ip : i \in DOMAIN Ifaces},
              scope : {a.scope : a \in Known} \cup {Ifaces[i].scope : i \in DOMAIN Ifaces}]

ASSUME SockaddrAssumption == /\ Known \subseteq Addresses /\ NoAddr \notin Addresses
                             /\ MaxFound \in Nat
                             /\ Ifaces \in Seq(ToSet(Ifaces))

VARIABLES record,    \* the contents of the blocks
          sa,        \* the list of each holder
          aborted    \* the process has ended itself

addrvars == <<record, sa, aborted>>

AddrInit == /\ record = [b \in Blocks |-> NoAddr]
            /\ sa = [h \in Holders |-> << >>]
            /\ aborted = FALSE

-----------------------------------------------------------------------------
FreeBlocks == {b \in Blocks : record[b] = NoAddr}

\* ogs_calloc once per element: the new blocks, in the order of the list.
NewBlocks(n) == {s \in [1 .. n -> FreeBlocks] : IsInjective(s)}

\* The contents of the blocks after the blocks of s got the values vals.
Filled(s, vals) ==
  [b \in Blocks |-> IF \E i \in DOMAIN s : s[i] = b
                    THEN vals[CHOOSE i \in DOMAIN s : s[i] = b] ELSE record[b]]

\* ogs_free of these blocks.
Released(blocks) == [b \in Blocks |-> IF b \in blocks THEN NoAddr ELSE record[b]]

FamilyOf(b) == record[b].family

-----------------------------------------------------------------------------
(* What the functions make of a list                                       *)

\* What a loop over s picks out: the elements at the places p, in their order.
Rank(p, i) == Cardinality({k \in p : k <= i})
Picked(s, p) == [n \in 1 .. Cardinality(p) |-> s[CHOOSE i \in p : Rank(p, i) = n]]

\* ogs_filteraddrinfo keeps these and frees the others.
Filtered(s, family) == Picked(s, {i \in DOMAIN s : FamilyOf(s[i]) = family})

\* The number of elements of `head' in front of which the loop does not put
\* another family's address: the first one and the run behind it without
\* the preferred family.
RunLength(head, family) ==
  LET stops == {i \in 2 .. Len(head) : FamilyOf(head[i]) = family}
  IN  IF stops = {} THEN Len(head) ELSE Min(stops) - 1

\* (seeded fault: without the test for an empty head the first address of
\* the other family is put behind a list that does not exist, and is lost)
PlacedNoHead(head, b, family) ==
  IF FamilyOf(b) = family THEN InsertAt(head, 1, b)
  ELSE IF head = << >> THEN << >> ELSE InsertAt(head, RunLength(head, family) + 1, b)

\* One round of ogs_sortaddrinfo: the preferred family (and whatever comes
\* first) goes to the front, the others behind the run.
Placed(head, b, family) ==
  InsertAt(head, IF head = << >> \/ FamilyOf(b) = family THEN 1 ELSE RunLength(head, family) + 1, b)

SortedBy(s, family) ==
  LET head[n \in 0 .. Len(s)] == IF n = 0 THEN << >> ELSE Placed(head[n - 1], s[n], family)
  IN  head[Len(s)]

\* ogs_filter_ip_version: the blocks it keeps, sorted.
IpVersion(s, no_ipv4, no_ipv6, prefer_ipv4) ==
  LET v6 == IF no_ipv4 THEN Filtered(s, "inet6") ELSE s
      kept == IF no_ipv6 THEN Filtered(v6, "inet") ELSE v6
  IN  SortedBy(kept, IF prefer_ipv4 THEN "inet" ELSE "inet6")

\* A list of the program is replaced by some of its own blocks; the others
\* are freed.
Keep(h, s) == /\ sa' = [sa EXCEPT ![h] = s]
              /\ record' = Released(ToSet(sa[h]) \ ToSet(s))
              /\ UNCHANGED aborted

-----------------------------------------------------------------------------
(* The calls                                                               *)

\* getaddrinfo of the C library: an error, or some of the addresses of the
\* asked-for family (either, for AF_UNSPEC).
Answers(family) == {s \in BoundedSeq({a \in Known : family \in {"unspec", a.family}}, MaxFound) :
                      IsInjective(s)}

\* ogs_addaddrinfo: the answers go behind the list that is there.
AddAddrInfo(h, family) ==
  /\ \E found \in Answers(family) :
       \E s \in NewBlocks(Len(found)) :
         /\ record' = Filled(s, found)
         /\ sa' = [sa EXCEPT ![h] = @ \o s]
  /\ UNCHANGED aborted

\* ogs_getaddrinfo into a variable that holds nothing (the old list would be
\* lost).
GetAddrInfo(h, family) == sa[h] = << >> /\ AddAddrInfo(h, family)

FreeAddrInfo(h) == /\ sa[h] # << >>
                   /\ record' = Released(ToSet(sa[h]))
                   /\ sa' = [sa EXCEPT ![h] = << >>]
                   /\ UNCHANGED aborted

FilterAddrInfo(h, family) == Keep(h, Filtered(sa[h], family))

SortAddrInfo(h, family) == Keep(h, SortedBy(sa[h], family))

FilterIpVersion(h) ==
  \E no_ipv4, no_ipv6, prefer_ipv4 \in BOOLEAN :
    Keep(h, IpVersion(sa[h], no_ipv4, no_ipv6, prefer_ipv4))

\* (seeded fault: the copy shares all but its first element, as the copied
\* `next' pointers say)
CopySharesTail(dst, src) ==
  /\ sa[dst] = << >> /\ sa[src] # << >>
  /\ \E s \in NewBlocks(1) :
       /\ record' = Filled(s, <<record[Head(sa[src])]>>)
       /\ sa' = [sa EXCEPT ![dst] = s \o Tail(sa[src])]
  /\ UNCHANGED aborted

\* ogs_copyaddrinfo into a variable that holds nothing.
CopyAddrInfo(dst, src) ==
  /\ sa[dst] = << >> /\ sa[src] # << >>
  /\ \E s \in NewBlocks(Len(sa[src])) :
       /\ record' = Filled(s, [i \in DOMAIN s |-> record[sa[src][i]]])
       /\ sa' = [sa EXCEPT ![dst] = s]
  /\ UNCHANGED aborted

-----------------------------------------------------------------------------
(* Interfaces                                                              *)

LinkLocal(x) == x.family = "inet6" /\ x.class = "linklocal"

\* An address of an interface, in a block.
AddressOf(x) == [family |-> x.family, ip |-> x.ip, scope |-> x.scope]

\* ogs_link_local_addr_by_dev: a copy of the first link-local address.  Only
\* AF_INET is skipped by family; the other families of an interface are
\* taken here to fail the test of the address.
LinkLocalByDev(h, dev) ==
  LET found == {i \in DOMAIN Ifaces : Ifaces[i].dev = dev /\ LinkLocal(Ifaces[i])} IN
  /\ sa[h] = << >> /\ found # {}
  /\ \E s \in NewBlocks(1) :
       /\ record' = Filled(s, <<AddressOf(Ifaces[Min(found)])>>)
       /\ sa' = [sa EXCEPT ![h] = s]
  /\ UNCHANGED aborted

\* The class of an address is that of the interface that has it.
LinkLocalsWith(ip) == {i \in DOMAIN Ifaces : LinkLocal(Ifaces[i]) /\ Ifaces[i].ip = ip}
IsLinkLocal(a) == a.family = "inet6" /\ LinkLocalsWith(a.ip) # {}

\* ogs_socknode_fill_scope_id_in_local: the last interface that has the
\* address gives the scope of a link-local address without one.
WithScope(a) ==
  IF ~IsLinkLocal(a) \/ a.scope # 0 THEN a
  ELSE [a EXCEPT !.scope = Ifaces[Max(LinkLocalsWith(a.ip))].scope]

FillScopeId(h) ==
  /\ record' = [b \in Blocks |-> IF b \in ToSet(sa[h]) THEN WithScope(record[b]) ELSE record[b]]
  /\ UNCHANGED <<sa, aborted>>

-----------------------------------------------------------------------------
\* ogs_sockaddr_is_equal compares families, then the addresses of a family
\* it knows; what is left "is" an unknown family, and the process ends.
IsEqual(a, b) == CASE a.family # b.family -> "false"
                   [] a.family = b.family /\ a.ip = b.ip -> "true"
                   [] OTHER -> "abort"

Compare(b1, b2) == /\ {b1, b2} \cap FreeBlocks = {}
                   /\ aborted' = (IsEqual(record[b1], record[b2]) = "abort")
                   /\ UNCHANGED <<record, sa>>

AddrCall ==
  \/ \E h \in Holders :
       \/ \E f \in Families \cup {"unspec"} : GetAddrInfo(h, f) \/ AddAddrInfo(h, f)
       \/ \E f \in Families : FilterAddrInfo(h, f) \/ SortAddrInfo(h, f)
       \/ FilterIpVersion(h) \/ FreeAddrInfo(h) \/ FillScopeId(h)
       \/ \E i \in DOMAIN Ifaces : LinkLocalByDev(h, Ifaces[i].dev)
       \/ \E src \in Holders : CopyAddrInfo(h, src)
  \/ \E b1, b2 \in Blocks : Compare(b1, b2)

=============================================================================
