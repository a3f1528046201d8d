CONSTANTS
  b1 = b1
  b2 = b2
  b3 = b3
  s1 = s1
  s2 = s2
  n1 = n1
  n2 = n2
  x = x
  y = y
  Blocks = {b1, b2}
  Holders = {x, y}
  Known <- TwoOfOneFamily
  MaxFound = 1
  Ifaces <- Interfaces
  NoAddr = NoAddr
  Socks = {s1}
  Fds = {3}
  NoSock = NoSock
  Nodes = {n1}
  Backends = {"epoll", "select"}
  NoNode = NoNode
SPECIFICATION NetSpec
INVARIANT KnownFamiliesCompare
