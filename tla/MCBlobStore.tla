---------------------------- MODULE MCBlobStore ----------------------------
(* A small instance of BlobStore for TLC.                                  *)
EXTENDS BlobStore, TLC

CONSTANTS ba, bb, bc, bx    \* blobs
CONSTANTS c1, c2, c3        \* calls

\* ba, bc and bx share a namespace, bb has the other; bc has two shares, so that
\* a square with bb before bc is rejected, and one with bb before ba is not.
MCNsOf == [z \in Blob |-> IF z = bb THEN 2 ELSE 1]
MCShares == [z \in Blob |-> IF z = bc THEN 2 ELSE 1]
NoClientIndex == [z \in Blob |-> NoIndex]
SomeClientIndex == [z \in Blob |-> IF z = ba THEN 1 ELSE NoIndex]

\* For the safety of one height: nothing, a vector of both namespaces whose
\* squares put bb at 0 or at 2, or one that holds a blob twice.
SafeBatches == {<<>>, <<bb, bc, bx>>, <<ba, bx, ba>>}
BothNamespaces == {<<>>, <<2, 1>>}

\* For builders of a square that race the submit of its height.
OneRacedBatch == {<<bb, ba>>}

\* For one call at a time: a vector may hold a blob twice.
Batches == {<<>>, <<ba>>, <<bb, ba>>, <<bc, bb, bx>>, <<ba, bc, ba>>}
NamespaceLists == {<<>>, <<1>>, <<2, 1>>}

CallSymmetry == Permutations(Call)
=============================================================================
