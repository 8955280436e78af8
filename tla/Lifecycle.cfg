SPECIFICATION LifeSpec
CONSTANTS
  ba = ba  bb = bb  bc = bc  bx = bx
  c1 = c1
  Nil = Nil  NoIndex = NoIndex  NoBlob = NoBlob
  Blob = {ba, bb, bc, bx}
  NsOf <- MCNsOf
  Shares <- MCShares
  MinWidth = 2
  MaxWidth = 128
  Call = {c1}
  Request <- Batches
  NsList <- NamespaceLists
  Op = {"submit", "getAll", "eds", "get"}
  Unshareable = {bx}
  ClientIndex <- NoClientIndex
  MaxHeight = 2
  MaxFaults = 1
  HeaderCall = {c1}
  ClientOp = {"submit", "getAll", "eds", "get"}
  Kind = {"height"}
  Invalid = {}
  MaxAttempts = 1
  MaxHeaderFaults = 0
  MaxStarts = 2
CHECK_DEADLOCK FALSE
INVARIANTS
  LivesStartAfresh
  ServedSquaresAreIndexed
