----------------------------- MODULE SquareGrowth -----------------------------
(***************************************************************************)
(* The loop of get_eds_at_height over the blobs of a height, which lays    *)
(* one blob after the other out in the square, and what must hold of the   *)
(* layout whatever their order, and of all that is read from its square.   *)
(***************************************************************************)
EXTENDS SquareReads

VARIABLE layout      \* the blobs whose shares have been appended

Init == layout = <<>>

\* One round of the loop: the shares of the next blob listed are appended.
AppendBlob == \E b \in Blob \ ToSet(layout) : layout' = Append(layout, b)

\* The loop is over, and the next height begins.
NextHeight == layout # <<>> /\ layout' = <<>>

Next == AppendBlob \/ NextHeight

Spec == Init /\ [][Next]_layout

\* Every blob is laid out once (SMEMBERS lists a key once, and a blob has one
\* key and one namespace).
LayoutTypeOK == layout \in Seq(Blob) /\ IsInjective(layout)

-----------------------------------------------------------------------------

\* The width of the square of every layout is right (square_width).
WidthsAreLeast == WidthIsLeast(layout)

\* A sorted layout makes from_ods fail where it is too large, and only there.
SortedLayoutsAreAccepted == SortedIsAccepted(layout)

\* The cells next to which a range may be one off: around the ends of the first
\* row, of the second one and of the square.
Corners == LET w == Width(layout)
           IN  UNION {{n - 1, n, n + 1} : n \in {1, w, 2 * w, w * w}}

\* share.GetRange answers with the cells asked for (get_share_range).
RangesAreTheirCells == \A start, end \in Corners : RangeIsItsCells(layout, start, end)

\* share.GetRange finds a blob at its index (get_share_range, with the indexes
\* get_eds_at_height gives out).
BlobsAreAtTheirIndex == \A b \in ToSet(layout) : RangeOfBlobIsTheBlob(layout, b)

\* For a blob that lies in the first row of the original square blob.GetProof
\* proves the right rows and blob.Included accepts a proof of each of them, and
\* for no other blob does either (the division by the width of the extended
\* square in get_blob_proof and in blob_included).
ProofsAreOfTheFirstRow ==
  \A b \in ToSet(layout) :
     LET inFirstRow == HoldingRows(layout, b) = {0}
     IN  /\ ProofIsOfHolders(layout, b) <=> inFirstRow
         /\ HolderIsIncluded(layout, b) <=> inFirstRow

\* blob.Included answers true to a proof of the row where the blob is.
HoldersAreIncluded == \A b \in ToSet(layout) : HolderIsIncluded(layout, b)
=============================================================================
