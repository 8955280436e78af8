SPECIFICATION Spec
CONSTANTS
  ba = ba  bb = bb  bc = bc  bx = bx
  c1 = c1  c2 = c2  c3 = c3
  Nil = Nil  NoIndex = NoIndex  NoBlob = NoBlob
  Blob = {ba, bb, bc, bx}
  NsOf <- MCNsOf
  Shares <- MCShares
  MinWidth = 2
  MaxWidth = 128
  Call = {c1}
  Request <- Batches
  NsList <- NamespaceLists
  Op = {"submit", "getAll", "eds", "get"}
  Unshareable = {bx}
  ClientIndex <- NoClientIndex
  MaxHeight = 2
  MaxFaults = 0

INVARIANT
  AckedHeightsAreReadable
