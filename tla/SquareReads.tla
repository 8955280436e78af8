----------------------------- MODULE SquareReads -----------------------------
(***************************************************************************)
(* What RedisStorage computes from a square it has: the shares of a range  *)
(* (get_share_range), the rows that prove a blob (get_blob_proof) and the  *)
(* rows in which a proof is looked for (blob_included).                    *)
(*                                                                         *)
(* An extended square is twice as wide as the original square in its upper *)
(* left quarter; the rest is parity.  A share of the original square is    *)
(* represented by its row and column, both counted from 0.                 *)
(***************************************************************************)
EXTENDS SquareLayout

\* ExtendedDataSquare::square_width.
ExtendedWidth(layout) == 2 * Width(layout)

-----------------------------------------------------------------------------
(* get_share_range                                                         *)

OdsWidth(layout) == ExtendedWidth(layout) \div 2

\* The range is refused, rather than answered with less.
RangeRefused(layout, start, end) ==
  start > end \/ start >= OdsWidth(layout) * OdsWidth(layout)

\* Mutant: the last row ends where the first one does not.
ShareRangeWholeRows(layout, start, end) ==
  LET w == OdsWidth(layout)
      last == IF end < w * w - 1 THEN end ELSE w * w - 1
      rows == (start \div w)..(last \div w)
      ColStart(row) == IF row = start \div w THEN start % w ELSE 0
      Cells(row) == [k \in 1..(w - ColStart(row)) |-> <<row, ColStart(row) + k - 1>>]
      shares == FlattenSeq([k \in 1..Cardinality(rows) |-> Cells(start \div w + k - 1)])
      ns == NsAt(layout, shares[1][1], shares[1][2])
  IN  [rows |-> rows, shares |-> shares, ns |-> ns,
       proofs |-> {[row |-> row, ns |-> ns] : row \in rows}]

\* The rows of a range, its shares row by row, the namespace of the first of them
\* and, of every row, a proof of that one namespace.
ShareRange(layout, start, end) ==
  LET w == OdsWidth(layout)
      last == IF end < w * w - 1 THEN end ELSE w * w - 1
      rows == (start \div w)..(last \div w)
      ColStart(row) == IF row = start \div w THEN start % w ELSE 0
      ColEnd(row) == IF row = last \div w THEN last % w ELSE w - 1
      Cells(row) == [k \in 1..(ColEnd(row) - ColStart(row) + 1) |->
                        <<row, ColStart(row) + k - 1>>]
      shares == FlattenSeq([k \in 1..Cardinality(rows) |-> Cells(start \div w + k - 1)])
      ns == NsAt(layout, shares[1][1], shares[1][2])
  IN  [rows |-> rows, shares |-> shares, ns |-> ns,
       proofs |-> {[row |-> row, ns |-> ns] : row \in rows}]

-----------------------------------------------------------------------------
(* get_blob_proof and blob_included, of a blob b with an index             *)

\* The rows get_blob_proof takes its proofs from.  The index counts cells of
\* the original square, the rows are as long as those of the extended one.
ProofRows(layout, b, index) ==
  LET width == ExtendedWidth(layout)
  IN  (index \div width)..((index + Shares[b] - 1) \div width)

\* Mutant: the last share is taken to be the one after it.
IncludedRowsOneOn(layout, b, index) ==
  LET width == ExtendedWidth(layout)
  IN  (index \div width)..((index + Shares[b]) \div width)

\* The rows blob_included tries the proof on.
IncludedRows(layout, b, index) ==
  LET width == ExtendedWidth(layout)
  IN  (index \div width)..((index + Shares[b] - 1) \div width)

\* NamespaceProof::verify_complete_namespace: what get_namespace_proof makes of
\* a row proves which shares of the namespace that row has, and nothing about
\* a row with another root.
Verifies(proof, row, ns) == proof.row = row /\ proof.ns = ns

\* blob.GetProof
BlobProof(layout, b, index) ==
  {[row |-> r, ns |-> NsOf[b]] : r \in ProofRows(layout, b, index)}

\* blob.Included
BlobIncluded(layout, b, index, proof) ==
  \E r \in IncludedRows(layout, b, index) : Verifies(proof, r, NsOf[b])

-----------------------------------------------------------------------------
(* Reference definitions.                                                  *)

\* The rows in which the shares of b really are.
HoldingRows(layout, b) ==
  {r \in 0..(Width(layout) - 1) :
     \E cell \in FirstCell(layout, b)..(FirstCell(layout, b) + Shares[b] - 1) :
       cell \div Width(layout) = r}

\* A range that is not refused is answered with the cells from its start to its
\* end, or to the end of the square, one after the other and none twice, and
\* with the rows of these cells.
RangeIsItsCells(layout, start, end) ==
  LET w == Width(layout)
      r == ShareRange(layout, start, end)
      n == Cardinality((start..end) \cap (0..(w * w - 1)))
  IN  ~ RangeRefused(layout, start, end) =>
        /\ [i \in 1..Len(r.shares) |-> r.shares[i][1] * w + r.shares[i][2]]
             = [i \in 1..n |-> start + i - 1]
        /\ r.rows = {r.shares[i][1] : i \in 1..Len(r.shares)}

\* The range that begins at the index of a blob and is as long as the blob has
\* the namespace of the blob all over, and a proof of it in each row that holds
\* the blob and in no other.
RangeOfBlobIsTheBlob(layout, b) ==
  LET index == FirstCell(layout, b)
      r == ShareRange(layout, index, index + Shares[b] - 1)
  IN  /\ Len(r.shares) = Shares[b]
      /\ \A i \in 1..Len(r.shares) : NsAt(layout, r.shares[i][1], r.shares[i][2]) = NsOf[b]
      /\ r.ns = NsOf[b]
      /\ r.proofs = {[row |-> row, ns |-> NsOf[b]] : row \in HoldingRows(layout, b)}

\* The proofs of blob.GetProof are those of the rows that hold the blob.
ProofIsOfHolders(layout, b) ==
  BlobProof(layout, b, FirstCell(layout, b))
    = {[row |-> r, ns |-> NsOf[b]] : r \in HoldingRows(layout, b)}

\* blob.Included accepts the proof of a row that does hold shares of the blob.
HolderIsIncluded(layout, b) ==
  \A r \in HoldingRows(layout, b) :
     BlobIncluded(layout, b, FirstCell(layout, b), [row |-> r, ns |-> NsOf[b]])
=============================================================================
