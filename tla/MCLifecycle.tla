----------------------------- MODULE MCLifecycle -----------------------------
(* A small instance of Lifecycle for TLC.                                  *)
EXTENDS Lifecycle, TLC

CONSTANTS ba, bb, bc, bx   \* blobs
CONSTANTS c1               \* the one call

\* As in MCBlobStore: a square with bb before bc is rejected.
MCNsOf == [z \in Blob |-> IF z = bb THEN 2 ELSE 1]
MCShares == [z \in Blob |-> IF z = bc THEN 2 ELSE 1]
NoClientIndex == [z \in Blob |-> NoIndex]

\* A vector may hold a blob twice.
Batches == {<<>>, <<bc, bb, bx>>, <<ba, bc, ba>>}
NamespaceLists == {<<2, 1>>}
=============================================================================
