SPECIFICATION HeaderSpec
CONSTANTS
  ba = ba  bb = bb
  c1 = c1  c2 = c2  c3 = c3
  Nil = Nil  NoIndex = NoIndex  NoBlob = NoBlob
  Blob = {ba, bb}
  NsOf <- MCNsOf
  Shares <- MCShares
  MinWidth = 2
  MaxWidth = 128
  Call = {c1, c2}
  Request <- EitherBlob
  NsList = {}
  Op = {"submit", "eds"}
  Unshareable = {}
  ClientIndex <- NoClientIndex
  MaxHeight = 3
  MaxFaults = 0
  HeaderCall = {c1}
  ClientOp = {"submit"}
  Kind = {"head", "sync", "range"}
  Invalid <- InvalidFirst
  MaxAttempts = 1
  MaxHeaderFaults = 0
SYMMETRY BlobSymmetry
INVARIANTS
  RangesAreRuns
  KnownHeightsHaveHeaders
  HeightsHoldOneBatch
PROPERTIES
  ImplementsBlobStore
  ImplementsLedger
