SPECIFICATION Spec
CONSTANTS
  ba = ba  bb = bb  bc = bc  bx = bx
  c1 = c1  c2 = c2  c3 = c3
  Nil = Nil  NoIndex = NoIndex  NoBlob = NoBlob
  Blob = {ba, bb}
  NsOf <- MCNsOf
  Shares <- MCShares
  MinWidth = 2
  MaxWidth = 128
  Call = {c1, c2}
  Request <- OneRacedBatch
  NsList <- BothNamespaces
  Op = {"submit", "get"}
  Unshareable = {}
  ClientIndex <- NoClientIndex
  MaxHeight = 1
  MaxFaults = 0
SYMMETRY CallSymmetry
INVARIANT
  GetReturnsAnIndex
