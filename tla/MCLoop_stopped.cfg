CONSTANTS
  p1 = p1
  c1 = c1
  c2 = c2
  Threads <- PusherAndPoppers
  Producers = {p1}
  Consumers = {c1, c2}
  Controllers = {p1, c2}
  Data = {d1}
  Capacity = 1
  NoCall = NoCall
  NoItem = NoItem
  SpuriousWakeups = FALSE
  Timers = {r1, r2}
  Durations = {1, 2}
  MaxNow = 3
  Records = {t1}
  Deadline = 2
  About = {"timers"}
SPECIFICATION LoopSpec
PROPERTY StoppedStaysSilent
