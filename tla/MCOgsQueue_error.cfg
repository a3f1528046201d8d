CONSTANTS
  p1 = p1
  p2 = p2
  c1 = c1
  c2 = c2
  k1 = k1
  d1 = d1
  d2 = d2
  Threads <- OneAndTwo
  Producers <- Pushers1
  Consumers <- Poppers2
  Controllers = {k1}
  Data = {d1}
  Capacity = 1
  NoCall = NoCall
  NoItem = NoItem
  SpuriousWakeups = FALSE
SPECIFICATION Spec
INVARIANT ErrorOnlyIfInterrupted
