SPECIFICATION FairHeaderSpec
CONSTANTS
  ba = ba  bb = bb
  c1 = c1  c2 = c2  c3 = c3
  Nil = Nil  NoIndex = NoIndex  NoBlob = NoBlob
  Blob = {ba}
  NsOf <- MCNsOf
  Shares <- MCShares
  MinWidth = 2
  MaxWidth = 128
  Call = {c1, c2}
  Request <- OneBlob
  NsList <- ItsNamespace
  Op = {"submit", "getAll", "eds", "get"}
  Unshareable = {}
  ClientIndex <- NoClientIndex
  MaxHeight = 1
  MaxFaults = 0
  HeaderCall = {c1}
  ClientOp = {"submit", "getAll", "eds", "get"}
  Kind = {"head", "sync", "wait", "range"}
  Invalid <- InvalidFirst
  MaxAttempts = 2
  MaxHeaderFaults = 0
PROPERTIES
  EveryCallIsAnswered
  EveryHeaderCallIsAnswered
  WaitsAreOver
