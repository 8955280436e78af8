---------------------------- MODULE MCHeaderStore ----------------------------
(* A small instance of HeaderStore for TLC.                                *)
EXTENDS HeaderStore, TLC

CONSTANTS ba, bb       \* blobs
CONSTANTS c1, c2, c3   \* calls

MCNsOf == [z \in Blob |-> 1]
MCShares == [z \in Blob |-> 1]
NoClientIndex == [z \in Blob |-> NoIndex]

\* One blob at every height.
OneBlob == {<<ba>>}

\* The namespace of that blob, for blob.GetAll.
ItsNamespace == {<<1>>}

\* One of two, so that heights can be told apart.
EitherBlob == {<<ba>>, <<bb>>}

\* The first header generated at height 1 is invalid, or the second.
InvalidFirst == {<<1, 1>>}
InvalidSecond == {<<1, 2>>}

CallSymmetry == Permutations(Call)

\* The blobs of an instance have the same namespace and as many shares.
BlobSymmetry == Permutations(Blob)
=============================================================================
