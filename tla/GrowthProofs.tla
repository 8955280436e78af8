---------------------------- MODULE GrowthProofs ----------------------------
(***************************************************************************)
(* What is computed from a square is right for every layout that           *)
(* get_eds_at_height can form of any blobs, of any sizes: the theorems     *)
(* about SquareGrowth, from the lemmas of LayoutProofs.                    *)
(***************************************************************************)
EXTENDS SquareGrowth, LayoutProofs

\* What every layout is holds at the start and stays so.
LEMMA LayoutTypeInvariant == Spec => []LayoutTypeOK
<1>1. Init => LayoutTypeOK
  BY DEF Init, LayoutTypeOK, IsInjective
<1>2. LayoutTypeOK /\ [Next]_layout => LayoutTypeOK'
  <2> SUFFICES ASSUME LayoutTypeOK, [Next]_layout PROVE LayoutTypeOK'
    OBVIOUS
  <2>1. CASE AppendBlob
    <3>1. PICK b \in Blob \ ToSet(layout) : layout' = Append(layout, b)
      BY <2>1 DEF AppendBlob
    <3>2. layout \in Seq(Blob) /\ \A i \in 1..Len(layout) : layout[i] # b
      BY <3>1 DEF LayoutTypeOK, ToSet
    <3>3. /\ layout' \in Seq(Blob) /\ Len(layout') = Len(layout) + 1
          /\ layout'[Len(layout) + 1] = b
          /\ \A i \in 1..Len(layout) : layout'[i] = layout[i]
          /\ DOMAIN layout' = 1..(Len(layout) + 1)
      BY <3>1, <3>2
    <3>4. \A i \in 1..(Len(layout) + 1) : i \in 1..Len(layout) \/ i = Len(layout) + 1
      BY <3>2
    <3>5. \A i, j \in 1..Len(layout) : layout[i] = layout[j] => i = j
      BY DEF LayoutTypeOK, IsInjective
    <3>6. IsInjective(layout')
      BY <3>2, <3>3, <3>4, <3>5 DEF IsInjective
    <3> QED BY <3>3, <3>6 DEF LayoutTypeOK
  <2>2. CASE NextHeight
    BY <2>2 DEF NextHeight, LayoutTypeOK, IsInjective
  <2>3. CASE UNCHANGED layout
    BY <2>3 DEF LayoutTypeOK, IsInjective
  <2> QED BY <2>1, <2>2, <2>3 DEF Next
<1> QED BY <1>1, <1>2, PTL DEF Spec

\* The square of every layout is as narrow as its shares allow (square_width).
THEOREM WidthsCorrect == Spec => []WidthsAreLeast
<1>1. LayoutTypeOK => WidthsAreLeast
  BY WidthOfALayout DEF LayoutTypeOK, WidthsAreLeast
<1> QED BY <1>1, LayoutTypeInvariant, PTL

\* from_ods, which get_eds_at_height unwraps, accepts a layout sorted by
\* namespace as long as it fits into the widest square.
THEOREM SortedLayoutsCorrect == Spec => []SortedLayoutsAreAccepted
<1>1. LayoutTypeOK => SortedLayoutsAreAccepted
  BY SortedSquares DEF LayoutTypeOK, SortedLayoutsAreAccepted
<1> QED BY <1>1, LayoutTypeInvariant, PTL

\* get_share_range answers every range with its cells, in order, and its rows,
\* the ranges of RangesAreTheirCells among them.
THEOREM RangesAnswered ==
  Spec => [](RangesAreTheirCells /\ \A start, end \in Nat : RangeIsItsCells(layout, start, end))
<1>1. LayoutTypeOK => \A start, end \in Nat : RangeIsItsCells(layout, start, end)
  BY RangesAreCells DEF LayoutTypeOK
<1>2. LayoutTypeOK => Corners \subseteq Nat
  <2> SUFFICES ASSUME LayoutTypeOK PROVE Corners \subseteq Nat
    OBVIOUS
  <2> DEFINE w == Width(layout)
  <2>1. w \in Nat \ {0}
    BY WidthOfALayout DEF LayoutTypeOK
  <2> HIDE DEF w
  <2>2. 2 * w \in Nat \ {0} /\ w * w \in Nat \ {0}
    BY <2>1
  <2>3. \A n \in {1, w, 2 * w, w * w} : {n - 1, n, n + 1} \subseteq Nat
    BY <2>1, <2>2
  <2> QED BY <2>3 DEF Corners, w
<1>3. LayoutTypeOK => RangesAreTheirCells
  BY <1>1, <1>2 DEF RangesAreTheirCells
<1> QED BY <1>1, <1>3, LayoutTypeInvariant, PTL

\* The range at the index get_eds_at_height gives a blob is the blob, in the
\* rows that hold it.
THEOREM BlobRangesCorrect == Spec => []BlobsAreAtTheirIndex
<1>1. LayoutTypeOK => BlobsAreAtTheirIndex
  BY BlobsHaveTheirRange DEF LayoutTypeOK, BlobsAreAtTheirIndex
<1> QED BY <1>1, LayoutTypeInvariant, PTL

\* get_blob_proof proves the rows of just the blobs in the first row, and
\* blob_included accepts the proofs of all rows of just those.
THEOREM ProofsCorrect == Spec => []ProofsAreOfTheFirstRow
<1>1. LayoutTypeOK => ProofsAreOfTheFirstRow
  BY ProofsAreRightInTheFirstRow DEF LayoutTypeOK, ProofsAreOfTheFirstRow
<1> QED BY <1>1, LayoutTypeInvariant, PTL
=============================================================================
