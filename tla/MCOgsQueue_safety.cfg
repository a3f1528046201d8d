CONSTANTS
  p1 = p1
  p2 = p2
  c1 = c1
  c2 = c2
  k1 = k1
  d1 = d1
  d2 = d2
  Threads <- TwoAndOne
  Producers <- Pushers2
  Consumers <- Poppers1
  Controllers = {k1}
  Data = {d1, d2}
  Capacity = 2
  NoCall = NoCall
  NoItem = NoItem
  SpuriousWakeups = TRUE
SPECIFICATION Spec
SYMMETRY Symmetric
INVARIANTS QueueSound NoLostWakeup NobodySleepsAfterTerm
PROPERTIES ImplementsFifo
