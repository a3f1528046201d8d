CONSTANTS
  Backends = {"select"}
  Sockets = {1, 3}
  Uses <- UsesOfSockets
  NotifyFd = 2
  n0 = n0
  a = a
  b = b
  Polls <- ThreePolls
  NotifyPoll = n0
  MaxBytes = 2
  DrainSize = 1
  NULL = NULL
  KqUses <- TwoDescriptors
  KqPolls <- RecordsInOrder
  NoPoll = NoPoll
SPECIFICATION PollSpec
INVARIANT ReadyIsSeen
