CONSTANTS
  Parts = {"codec"}
  Classes <- TwoClasses
  SizeOf <- TwoSizes
  PoolOf <- TwoPools
  Pkbufs = {p1, p2, p3}
  Clusters = {c1, c2, c3}
  Sizes = {2, 5}
  Lengths = {1, 2}
  Header = 1
  Requests = {1, 2}
  NULL = NULL
  FsmStates = {a, b, c}
  Initial = i
  Final = f
  NoHandler = NoHandler
  Tlvs = {1, 2, 3, 4}
  NoTlv = NoTlv
  TlvModes = {"T1_L1", "T1_L2_I1", "T2_L2"}
  Elements <- TwoElements
  ContainerTypes = {2}
  ByteBase = 4
  BuffLen = 4
  MaxTrees = 2
  Children = {1, 2, 3}
  DomainIds = {1, 2, 3}
  DomainNames = {"sock", "mem"}
  LogRecords = {1, 2, 3}
  LogFiles = {"f", "g"}
  LogLevels = {1, 4}
  DefaultLevel = 4
  MaxRotations = 2
  NoDomain = NoDomain
  NoLog = NoLog
  ShaKinds <- Algorithms
  BlockOf <- BlockWords
  DigestOf <- DigestWords
  LengthOf <- LengthWords
  KeySizesOf <- SafeKeys
  MessagePieces = {1, 13, 32}
  MaxMessage = 48
  WordLimit = 1000000
  NoMac = NoMac
  Inputs <- Calls
  NoInput = NoInput
  Failed = Failed
  LineLen = 8
  ShortOptions <- Options
  LongOptions <- LongNames
SPECIFICATION LibSpec
INVARIANT HexStaysInside
CHECK_DEADLOCK FALSE
