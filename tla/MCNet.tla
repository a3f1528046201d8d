------------------------------- MODULE MCNet -------------------------------
(* A host with a loopback, an Ethernet and a tunnel interface. *)
EXTENDS OgsSocknode, TLC

CONSTANTS b1, b2, b3, s1, s2, n1, n2, x, y

Interfaces ==
  << [dev |-> "lo", flags |-> {"loopback"}, family |-> "inet", ip |-> 127, class |-> "loopback", scope |-> 0],
     [dev |-> "eth0", flags |-> {}, family |-> "packet", ip |-> 0, class |-> "none", scope |-> 0],
     [dev |-> "eth0", flags |-> {}, family |-> "inet", ip |-> 1, class |-> "global", scope |-> 0],
     [dev |-> "eth0", flags |-> {}, family |-> "inet6", ip |-> 2, class |-> "linklocal", scope |-> 7] >>

\* The resolver knows an address of each family, or another one as well.
BothFamilies == { [family |-> "inet", ip |-> 1, scope |-> 0],
                  [family |-> "inet6", ip |-> 2, scope |-> 0] }
TwoOfOneFamily == BothFamilies \cup { [family |-> "inet", ip |-> 3, scope |-> 0] }

Alike == Permutations(Blocks) \cup Permutations(Socks) \cup Permutations(Nodes)
         \cup Permutations(Holders)
=============================================================================
