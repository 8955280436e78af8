--------------------------- MODULE MCSquareLayout ---------------------------
(* The layouts get_eds_at_height can form of a few blobs, in every order.   *)
EXTENDS SquareGrowth

\* A blob is named by its shares; the sums of some of them are all the numbers
\* up to 63, and the square grows from the least width to two doublings of it,
\* the second of which is already too wide.
MCBlob == {1, 2, 4, 8, 16, 32}
MCNsOf == [b \in MCBlob |-> CASE b \in {1, 8} -> 1 [] b \in {2, 32} -> 2 [] OTHER -> 3]
MCShares == [b \in MCBlob |-> b]
=============================================================================
