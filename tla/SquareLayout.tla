---------------------------- MODULE SquareLayout ----------------------------
(***************************************************************************)
(* The arithmetic of an original data square (ODS): how the blobs of one   *)
(* height are laid out in it by RedisStorage::get_eds_at_height, how wide  *)
(* the square is, and which squares ExtendedDataSquare::from_ods accepts.  *)
(*                                                                         *)
(* A layout is the sequence of blobs in the order in which their shares    *)
(* are appended.  A share is represented by its owner: the blob it belongs *)
(* to, or one of the two padding namespaces.                               *)
(***************************************************************************)
EXTENDS Naturals, Sequences, FiniteSets, SequencesExt

CONSTANTS
  Blob,        \* identities of blobs: a (namespace, commitment) pair each
  NsOf,        \* NsOf[b]: the namespace of b, a number ordered as namespaces are
  Shares,      \* Shares[b]: how many shares Blob::to_shares cuts b into
  MinWidth,    \* MIN_EXTENDED_SQUARE_WIDTH of celestia_types
  MaxWidth     \* the widest original square of the app version

ASSUME LayoutAssumption ==
  /\ NsOf \in [Blob -> Nat \ {0}]
  /\ Shares \in [Blob -> Nat \ {0}]
  /\ MinWidth \in Nat \ {0}
  /\ MaxWidth \in Nat
  /\ IsFiniteSet(Blob)

\* The widths of squares are powers of two, the widest one included.
ASSUME WidthAssumption ==
  /\ MinWidth <= MaxWidth
  /\ \E k \in 0..MaxWidth : 2^k = MaxWidth

Ns == {NsOf[b] : b \in Blob}

-----------------------------------------------------------------------------
(* The width of the square.                                                *)

CeilSqrt(n) == CHOOSE r \in 0..n : r * r >= n /\ (r = 0 \/ (r - 1) * (r - 1) < n)

NextPowerOfTwo(n) ==
  CHOOSE p \in {2^k : k \in 0..n} : p >= n /\ (p = 1 \/ p \div 2 < n)

\* Mutant: the root is rounded down.
SquareWidthRoundedDown(total) ==
  LET root == CHOOSE r \in 0..total : r * r <= total /\ (r + 1) * (r + 1) > total
  IN  NextPowerOfTwo(IF root < MinWidth THEN MinWidth ELSE root)

\* square_width for a number of shares: the rounded-up root, at least
\* MIN_EXTENDED_SQUARE_WIDTH, rounded up to a power of two.
SquareWidth(total) ==
  LET root == CeilSqrt(total)
  IN  NextPowerOfTwo(IF root < MinWidth THEN MinWidth ELSE root)

-----------------------------------------------------------------------------
(* The shares of a layout.  Namespace 0 stands for                         *)
(* PRIMARY_RESERVED_PADDING, which sorts before every blob's namespace,    *)
(* and TailPadding for TAIL_PADDING, which sorts after all of them.        *)

TailPadding == 1 + FoldSet(LAMBDA x, y : x + y, 0, Ns)

\* Mutant: the primary padding comes after the blobs.
DataSharesPaddedLast(layout) ==
  FlattenSeq([i \in 1..Len(layout) |->
                 [j \in 1..Shares[layout[i]] |-> NsOf[layout[i]]]]) \o <<0>>

\* all_shares before the tail padding: the owner of every share, by namespace.
DataShares(layout) ==
  <<0>> \o FlattenSeq([i \in 1..Len(layout) |->
                          [j \in 1..Shares[layout[i]] |-> NsOf[layout[i]]]])

Width(layout) == SquareWidth(Len(DataShares(layout)))

\* The namespace at a row and a column of the ODS, both counted from 0.
NsAt(layout, row, col) ==
  LET cell == row * Width(layout) + col + 1
      data == DataShares(layout)
  IN  IF cell <= Len(data) THEN data[cell] ELSE TailPadding

\* ExtendedDataSquare::from_ods returns Err, which the caller unwraps, unless
\* the square is not too wide and every row and every column is sorted by
\* namespace.
Accepts(layout) ==
  LET w == Width(layout) IN
  /\ w <= MaxWidth
  /\ \A i \in 0..(w - 1), j \in 0..(w - 2) :
        /\ NsAt(layout, i, j) <= NsAt(layout, i, j + 1)
        /\ NsAt(layout, j, i) <= NsAt(layout, j + 1, i)

-----------------------------------------------------------------------------
(* Reference definitions, against which the code's arithmetic is checked.  *)

\* The cell of the ODS, counted from 0 in row-major order, at which the
\* shares of a blob of the layout begin.
FirstCell(layout, b) ==
  LET k == CHOOSE i \in 1..Len(layout) : layout[i] = b
  IN  FoldLeft(LAMBDA n, x : n + Shares[x], 1, SubSeq(layout, 1, k - 1))

\* A width a square of n shares may have, and the least of them.
Fits(w, n) == w \in {2^k : k \in 0..w} /\ w >= MinWidth /\ w * w >= n

LeastWidth(w, n) == Fits(w, n) /\ \A v \in 1..(w - 1) : ~ Fits(v, n)

\* The square of a layout is as small as a square that holds its shares can be,
\* and never below the least width celestia_types accepts.
WidthIsLeast(layout) == LeastWidth(Width(layout), Len(DataShares(layout)))

\* A layout sorted by namespace is accepted as long as its shares, with the one
\* of padding, fit into the widest square: with padding before and after the
\* blobs, rows and columns are sorted wherever the rows end.
SortedIsAccepted(layout) ==
  (\A i, j \in 1..Len(layout) : i < j => NsOf[layout[i]] <= NsOf[layout[j]])
    => (Accepts(layout) <=> Len(DataShares(layout)) <= MaxWidth * MaxWidth)
=============================================================================
