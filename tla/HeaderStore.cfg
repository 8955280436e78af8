SPECIFICATION HeaderSpec
CONSTANTS
  ba = ba  bb = bb
  c1 = c1  c2 = c2  c3 = c3
  Nil = Nil  NoIndex = NoIndex  NoBlob = NoBlob
  Blob = {ba}
  NsOf <- MCNsOf
  Shares <- MCShares
  MinWidth = 2
  MaxWidth = 128
  Call = {c1, c2}
  Request <- OneBlob
  NsList = {}
  Op = {"submit", "eds"}
  Unshareable = {}
  ClientIndex <- NoClientIndex
  MaxHeight = 1
  MaxFaults = 1
  HeaderCall = {c1, c2}
  ClientOp = {"submit"}
  Kind = {"height", "hash", "wait"}
  Invalid <- InvalidSecond
  MaxAttempts = 1
  MaxHeaderFaults = 1
SYMMETRY CallSymmetry
INVARIANTS
  HeaderTypeOK
  HeadersCommitToSquares
  SealedHeadersAreFound
  KnownHeightsHaveHeaders
PROPERTY
  SettledHeadersStay
