SPECIFICATION Spec
CONSTANTS
  ba = ba  bb = bb  bc = bc  bx = bx
  c1 = c1  c2 = c2  c3 = c3
  Nil = Nil  NoIndex = NoIndex  NoBlob = NoBlob
  Blob = {ba, bb, bc, bx}
  NsOf <- MCNsOf
  Shares <- MCShares
  MinWidth = 2
  MaxWidth = 128
  Call = {c1, c2}
  Request <- SafeBatches
  NsList <- BothNamespaces
  Op = {"submit", "getAll", "eds", "get"}
  Unshareable = {bx}
  ClientIndex <- SomeClientIndex
  MaxHeight = 1
  MaxFaults = 1
SYMMETRY CallSymmetry
INVARIANTS
  TypeOK
  IndexesFollowData
  SquaresHoldStoredBlobs
  AckedBlobsAreFound
  NothingAboveCurrentHeight
  UnracedSquareIsComplete
  EveryIndexIsAPosition
  UncutSquaresAreIndexed
PROPERTIES
  ImplementsLedger
  UnindexedGetsAreExplained
  IndexesAreKept
