CONSTANTS
  Size = 5
  NULL = NULL
  RbNodes = {1, 2, 3, 4, 5, 6, 7, 8}
  KeyOf <- PairedKeys
  NoNode = NoNode
  k1 = k1
  k2 = k2
  k3 = k3
  Keys = {k1, k2, k3}
  Vals = {v1, v2}
  Nil = Nil
  Hash <- CollidingHashes
  InitialMax = 1
  Lnodes = {n1, n2, n3, n4}
  n1 = n1
  n2 = n2
  n3 = n3
  n4 = n4
  v1 = v1
  v2 = v2
  NoLnode = NoLnode
SPECIFICATION Containers
SYMMETRY Symmetry
INVARIANTS PoolSound TreeIsSound TableSound LinksAgree
PROPERTIES ImplementsAllocator ImplementsSortedList ImplementsMap VisitsEachOnce VisitsAll
