SPECIFICATION Spec
CONSTANTS
  Blob <- MCBlob
  NsOf <- MCNsOf
  Shares <- MCShares
  MinWidth = 2
  MaxWidth = 4
INVARIANTS
  WidthsAreLeast
  SortedLayoutsAreAccepted
  RangesAreTheirCells
  BlobsAreAtTheirIndex
  ProofsAreOfTheFirstRow
