----------------------------- MODULE BlobLedger -----------------------------
(***************************************************************************)
(* What the blob store promises its clients, with no keys and no commands: *)
(* a ledger of heights, each of which holds the blobs of one submit.       *)
(*                                                                         *)
(* A submit takes the next height, its blobs come to be found one after    *)
(* the other in the order submitted, and it is answered Ok only when all   *)
(* of them are.  What can be found stays found.  A submit may stop half    *)
(* way; it is then never answered Ok, and what is visible of it stays.     *)
(***************************************************************************)
EXTENDS Naturals, Sequences, SequencesExt

CONSTANTS
  Request,     \* the vectors that may be submitted
  MaxHeight    \* bound: heights that may be taken

VARIABLES
  height,      \* the last height taken
  batch,       \* the vector submitted at each height
  visible,     \* the blobs that blob.Get finds at each height
  acked        \* heights whose submit was answered Ok

ledger == <<height, batch, visible, acked>>

Init ==
  /\ height = 0
  /\ batch = [h \in 1..MaxHeight |-> <<>>]
  /\ visible = [h \in 1..MaxHeight |-> {}]
  /\ acked = {}

\* store_blobs takes the next height (increment_height).
Reserve(blobs) ==
  /\ blobs # <<>>
  /\ height < MaxHeight
  /\ height' = height + 1
  /\ batch' = [batch EXCEPT ![height + 1] = blobs]
  /\ UNCHANGED <<visible, acked>>

\* store_blob_at_height makes the next blob of the vector visible.
Publish(h) ==
  /\ \E i \in 1..Len(batch[h]) :
       /\ ToSet(SubSeq(batch[h], 1, i - 1)) \subseteq visible[h]
       /\ visible' = [visible EXCEPT ![h] = @ \cup {batch[h][i]}]
  /\ UNCHANGED <<height, batch, acked>>

\* store_blobs answers Ok.
Acknowledge(h) ==
  /\ h <= height
  /\ ToSet(batch[h]) \subseteq visible[h]
  /\ acked' = acked \cup {h}
  /\ UNCHANGED <<height, batch, visible>>

Next ==
  \/ \E blobs \in Request : Reserve(blobs)
  \/ \E h \in 1..MaxHeight : Publish(h) \/ Acknowledge(h)

Spec == Init /\ [][Next]_ledger
=============================================================================
