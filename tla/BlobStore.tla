----------------------------- MODULE BlobStore -----------------------------
(***************************************************************************)
(* The blob half of RedisStorage: blob.Submit (store_blobs), blob.GetAll   *)
(* (get_all_blobs), share.GetEDS (get_eds_at_height, which every other     *)
(* read builds on) and blob.Get (get_blob), as calls that run concurrently *)
(* over one Redis database.                                                *)
(*                                                                         *)
(* Redis runs one command at a time, so each command is one atomic step    *)
(* and calls interleave between commands.  Everything a handler computes   *)
(* between two commands is part of the step before.                        *)
(***************************************************************************)
EXTENDS SquareLayout

CONSTANTS
  Call,          \* slots for RPC calls in progress
  Request,       \* the blob vectors a client may submit
  NsList,        \* the namespace vectors a client may pass to blob.GetAll
  Op,            \* the operations clients use, of those named below
  Unshareable,   \* blobs whose to_shares fails
  ClientIndex,   \* ClientIndex[b]: the index field b is submitted with
  Nil,           \* the reply of Redis for a key that does not exist
  NoIndex,       \* blob.index = None
  NoBlob,        \* the target of a call that is not about one blob
  MaxHeight,     \* bound: heights the clients use up
  MaxFaults      \* bound: Redis commands that fail or time out

ASSUME StoreAssumption ==
  /\ Request \subseteq Seq(Blob)
  /\ NsList \subseteq Seq(Ns)
  /\ Op \subseteq {"submit", "getAll", "eds", "get"}
  /\ Unshareable \subseteq Blob
  /\ ClientIndex \in [Blob -> Nat \cup {NoIndex}]
  /\ Nil # NoIndex /\ Nil \notin Nat /\ NoIndex \notin Nat
  /\ Nil \notin Seq(Blob) /\ NoBlob \notin Blob
  /\ MaxHeight \in Nat /\ MaxFaults \in Nat

Height == 1..MaxHeight

VARIABLES
  currentHeight, \* RedisStorage.current_height, a counter behind a mutex
  blobData,      \* blob:<h>:<ns>:<commitment>; only the index ever changes
  members,       \* namespace:<h>:<ns>, a set of blob keys
  commitment,    \* the keys commitment:<h>:<ns>:<commitment>, present or not
  heightNs,      \* height_namespaces:<h>, a set of namespaces
  eds,           \* eds:<h>, the layout of the cached square
  blobIndex,     \* blob_index:<h>:<ns>:<commitment>, its start
  call,          \* the state of each call
  faults,        \* Redis commands that have failed so far
  (* History, for stating properties; no step of the code depends on it.  *)
  batch,         \* the vector submitted at each height
  acked,         \* heights blob.Submit has answered Ok with
  early,         \* heights whose namespaces a square was begun from before that
  layouts,       \* every layout written to eds:<h>
  cut            \* heights at which a builder was given up on at a write

redisVars == <<blobData, members, commitment, heightNs, eds, blobIndex>>
historyVars == <<batch, acked, early, layouts, cut>>
vars == <<currentHeight, redisVars, call, faults, historyVars>>

-----------------------------------------------------------------------------
(* A call.                                                                 *)

\* Where a call stands: each name is the Redis command it issues next.
SubmitPc == {"setBlob", "addMember", "setCommitment", "trackNamespace"}
SquarePc == {"eds", "namespaces", "members", "storeEds", "indexBlob",
             "mapIndex", "edsReturned"}
Pc == {"idle", "readBlob", "done"} \cup SubmitPc \cup SquarePc

BuildPc == {"storeEds", "indexBlob", "mapIndex"}

WritePc == SubmitPc \cup BuildPc

\* The answer of a call.  A call whose write timed out has been answered
\* "redisError" while the write is still under way.
Outcome == {"pending", "ok", "headerNotFound", "blobNotFound",
            "indexNotSet", "redisError", "panic"}

CallState ==
  [op      : {"none", "submit", "getAll", "eds", "get"},
   pc      : Pc,
   out     : Outcome,
   height  : 0..MaxHeight,
   target  : Blob \cup {NoBlob},   \* blob.Get: the blob asked for
   todo    : Seq(Blob),            \* blobs still to be stored, or to be indexed
   nss     : Seq(Ns),              \* namespaces still to be listed
   square  : Seq(Blob),            \* blobs listed so far; the square returned
   next    : Nat,                  \* start_idx of the next blob of todo
   index   : Nat \cup {NoIndex},   \* blob.Get: the index of the blob returned
   retry   : BOOLEAN,              \* blob.Get: the second get_eds_at_height
   asked   : SUBSET Ns,            \* history: the namespaces of a blob.GetAll
   knew    : BOOLEAN]              \* history: began after its height was acked

Idle ==
  [op |-> "none", pc |-> "idle", out |-> "pending", height |-> 0,
   target |-> NoBlob, todo |-> <<>>, nss |-> <<>>, square |-> <<>>, next |-> 0,
   index |-> NoIndex, retry |-> FALSE, asked |-> {},
   knew |-> FALSE]

Init ==
  /\ currentHeight = 0
  /\ blobData = [h \in Height |-> [b \in Blob |-> Nil]]
  /\ members = [h \in Height |-> [n \in Ns |-> {}]]
  /\ commitment = [h \in Height |-> {}]
  /\ heightNs = [h \in Height |-> {}]
  /\ eds = [h \in Height |-> Nil]
  /\ blobIndex = [h \in Height |-> [b \in Blob |-> Nil]]
  /\ call = [c \in Call |-> Idle]
  /\ faults = 0
  /\ batch = [h \in Height |-> <<>>]
  /\ acked = {}
  /\ early = {}
  /\ layouts = [h \in Height |-> {}]
  /\ cut = {}

\* The call ends with an answer; the rest of its locals are dropped.
Ended(s, out) == [s EXCEPT !.pc = "done", !.out = out, !.todo = <<>>,
                           !.nss = <<>>, !.next = 0]

Abandoned(c) == call[c].out = "redisError" /\ call[c].pc \in WritePc

\* After a write the handler goes on, unless it has already given up on the
\* write and answered: then nothing of the call is left but the write.
AfterWrite(c, s) ==
  call' = [call EXCEPT ![c] = IF Abandoned(c) THEN Ended(@, "redisError") ELSE s]

\* Redis replies to SMEMBERS with the members of a set in an order of its own.
Replies(S) == Bijection(1..Cardinality(S), S)

-----------------------------------------------------------------------------
(* blob.Submit                                                             *)

\* store_blobs of an empty vector returns height 0 and touches nothing.
SubmitNothing(c) ==
  /\ "submit" \in Op
  /\ <<>> \in Request
  /\ call[c].pc = "idle"
  /\ call' = [call EXCEPT ![c] = [Idle EXCEPT !.op = "submit", !.pc = "done",
                                              !.out = "ok"]]
  /\ UNCHANGED <<currentHeight, redisVars, faults, historyVars>>

\* Mutant: the counter is read before its mutex is taken, so that the increment
\* of another submit may be lost.
AssignHeightUnlocked(c, blobs) ==
  /\ "submit" \in Op
  /\ blobs # <<>>
  /\ currentHeight < MaxHeight
  /\ call[c].pc = "idle"
  /\ \E read \in {currentHeight, currentHeight - 1} \cap Nat :
       /\ currentHeight' = read + 1
       /\ call' = [call EXCEPT ![c] = [Idle EXCEPT !.op = "submit", !.pc = "setBlob",
                                          !.height = read + 1, !.todo = blobs]]
       /\ batch' = [batch EXCEPT ![read + 1] = blobs]
  /\ UNCHANGED <<redisVars, faults, acked, early, layouts, cut>>

\* increment_height: the height is taken, and visible to every reader, before
\* any blob is stored.
AssignHeight(c, blobs) ==
  /\ "submit" \in Op
  /\ blobs # <<>>
  /\ currentHeight < MaxHeight
  /\ call[c].pc = "idle"
  /\ currentHeight' = currentHeight + 1
  /\ call' = [call EXCEPT ![c] = [Idle EXCEPT !.op = "submit", !.pc = "setBlob",
                                     !.height = currentHeight + 1, !.todo = blobs]]
  /\ batch' = [batch EXCEPT ![currentHeight + 1] = blobs]
  /\ UNCHANGED <<redisVars, faults, acked, early, layouts, cut>>

\* Mutant: an error of the SET of the blob is logged and no more.
SetBlobIgnoringErrors(c) ==
  /\ call[c].pc = "setBlob"
  /\ \/ LET b == Head(call[c].todo)
        IN  blobData' = [blobData EXCEPT ![call[c].height][b] = ClientIndex[b]]
     \/ UNCHANGED blobData
  /\ AfterWrite(c, [call[c] EXCEPT !.pc = "addMember"])
  /\ UNCHANGED <<currentHeight, members, commitment, heightNs, eds, blobIndex,
                 faults, historyVars>>

\* The four commands of store_blob_at_height, for the first blob of todo.
SetBlob(c) ==
  /\ call[c].pc = "setBlob"
  /\ LET b == Head(call[c].todo)
     IN  blobData' = [blobData EXCEPT ![call[c].height][b] = ClientIndex[b]]
  /\ AfterWrite(c, [call[c] EXCEPT !.pc = "addMember"])
  /\ UNCHANGED <<currentHeight, members, commitment, heightNs, eds, blobIndex,
                 faults, historyVars>>

\* Mutant: every blob is listed under the namespace of the first of its vector.
AddMemberToFirstNamespace(c) ==
  /\ call[c].pc = "addMember"
  /\ LET b == Head(call[c].todo)
         n == NsOf[batch[call[c].height][1]]
     IN  members' = [members EXCEPT ![call[c].height][n] = @ \cup {b}]
  /\ AfterWrite(c, [call[c] EXCEPT !.pc = "setCommitment"])
  /\ UNCHANGED <<currentHeight, blobData, commitment, heightNs, eds, blobIndex,
                 faults, historyVars>>

\* Mutant: SET where the code has SADD.
AddMemberOverwriting(c) ==
  /\ call[c].pc = "addMember"
  /\ LET b == Head(call[c].todo)
     IN  members' = [members EXCEPT ![call[c].height][NsOf[b]] = {b}]
  /\ AfterWrite(c, [call[c] EXCEPT !.pc = "setCommitment"])
  /\ UNCHANGED <<currentHeight, blobData, commitment, heightNs, eds, blobIndex,
                 faults, historyVars>>

AddMember(c) ==
  /\ call[c].pc = "addMember"
  /\ LET b == Head(call[c].todo)
     IN  members' = [members EXCEPT ![call[c].height][NsOf[b]] = @ \cup {b}]
  /\ AfterWrite(c, [call[c] EXCEPT !.pc = "setCommitment"])
  /\ UNCHANGED <<currentHeight, blobData, commitment, heightNs, eds, blobIndex,
                 faults, historyVars>>

\* Mutant: the commitment of the last blob of the vector.
SetLastCommitment(c) ==
  /\ call[c].pc = "setCommitment"
  /\ commitment' = [commitment EXCEPT ![call[c].height] =
                                         @ \cup {Last(call[c].todo)}]
  /\ AfterWrite(c, [call[c] EXCEPT !.pc = "trackNamespace"])
  /\ UNCHANGED <<currentHeight, blobData, members, heightNs, eds, blobIndex,
                 faults, historyVars>>

SetCommitment(c) ==
  /\ call[c].pc = "setCommitment"
  /\ commitment' = [commitment EXCEPT ![call[c].height] =
                                         @ \cup {Head(call[c].todo)}]
  /\ AfterWrite(c, [call[c] EXCEPT !.pc = "trackNamespace"])
  /\ UNCHANGED <<currentHeight, blobData, members, heightNs, eds, blobIndex,
                 faults, historyVars>>

\* Mutant: SET where the code has SADD.
TrackNamespaceOverwriting(c) ==
  LET h == call[c].height
      rest == Tail(call[c].todo)
  IN
  /\ call[c].pc = "trackNamespace"
  /\ heightNs' = [heightNs EXCEPT ![h] = {NsOf[Head(call[c].todo)]}]
  /\ AfterWrite(c, IF rest = <<>> THEN Ended(call[c], "ok")
                   ELSE [call[c] EXCEPT !.pc = "setBlob", !.todo = rest])
  /\ acked' = IF rest = <<>> /\ ~ Abandoned(c) THEN acked \cup {h} ELSE acked
  /\ UNCHANGED <<currentHeight, blobData, members, commitment, eds, blobIndex,
                 faults, batch, early, layouts, cut>>

\* After the last blob of the vector store_blobs answers with the height.
TrackNamespace(c) ==
  LET h == call[c].height
      rest == Tail(call[c].todo)
  IN
  /\ call[c].pc = "trackNamespace"
  /\ heightNs' = [heightNs EXCEPT ![h] = @ \cup {NsOf[Head(call[c].todo)]}]
  /\ AfterWrite(c, IF rest = <<>> THEN Ended(call[c], "ok")
                   ELSE [call[c] EXCEPT !.pc = "setBlob", !.todo = rest])
  /\ acked' = IF rest = <<>> /\ ~ Abandoned(c) THEN acked \cup {h} ELSE acked
  /\ UNCHANGED <<currentHeight, blobData, members, commitment, eds, blobIndex,
                 faults, batch, early, layouts, cut>>

-----------------------------------------------------------------------------
(* get_all_blobs: blob.GetAll, and the middle of get_eds_at_height.  The   *)
(* RPC does not ask whether the height exists.                             *)

GetAll(c, h, nss) ==
  /\ "getAll" \in Op
  /\ call[c].pc = "idle"
  /\ call' = [call EXCEPT ![c] =
                [Idle EXCEPT !.op = "getAll", !.height = h, !.nss = nss,
                             !.pc = IF nss = <<>> THEN "done" ELSE "members",
                             !.out = IF nss = <<>> THEN "ok" ELSE "pending",
                             !.asked = ToSet(nss), !.knew = h \in acked]]
  /\ UNCHANGED <<currentHeight, redisVars, faults, historyVars>>

\* Mutant: a blob whose to_shares fails keeps its place in the square.
ListedUnshareable(c) ==
  LET h == call[c].height
  IN  {b \in members[h][Head(call[c].nss)] : blobData[h][b] # Nil}

\* The blobs of the namespace at the head of nss: SMEMBERS and the GETs of the
\* keys it lists.  Of a blob only its presence matters here, and that never
\* ends, so the GETs see what they would have seen one by one; a key without
\* data is skipped.  The square leaves out blobs that have no shares.
Listed(c) ==
  LET h == call[c].height
      S == {b \in members[h][Head(call[c].nss)] : blobData[h][b] # Nil}
  IN  IF call[c].op = "getAll" THEN S ELSE S \ Unshareable

ReadMembers(c) ==
  /\ call[c].pc = "members"
  /\ \E reply \in Replies(Listed(c)) :
       LET rest == Tail(call[c].nss)
           s == [call[c] EXCEPT !.nss = rest, !.square = @ \o reply]
       IN  call' = [call EXCEPT ![c] =
                      IF rest # <<>> THEN s
                      ELSE IF s.op = "getAll" THEN Ended(s, "ok")
                      ELSE [s EXCEPT !.pc = "storeEds"]]
  /\ UNCHANGED <<currentHeight, redisVars, faults, historyVars>>

-----------------------------------------------------------------------------
(* get_eds_at_height                                                       *)

GetEds(c, h) ==
  /\ "eds" \in Op
  /\ call[c].pc = "idle"
  /\ call' = [call EXCEPT ![c] = [Idle EXCEPT !.op = "eds", !.pc = "eds",
                                     !.height = h, !.knew = h \in acked]]
  /\ UNCHANGED <<currentHeight, redisVars, faults, historyVars>>

\* Mutant: a height beyond the current one is taken for an empty one.
HeightZeroUnknown(h) == h = 0

\* Mutant: the current height is not one yet.
HeightUnknownAtTop(h) == h = 0 \/ h >= currentHeight

\* The height check and the GET of the cached square.  The height only grows,
\* so nothing is lost by taking both in one step.
HeightUnknown(h) == h = 0 \/ h > currentHeight

EdsHeightNotFound(c) ==
  /\ call[c].pc = "eds"
  /\ HeightUnknown(call[c].height)
  /\ call' = [call EXCEPT ![c] = Ended(@, "headerNotFound")]
  /\ UNCHANGED <<currentHeight, redisVars, faults, historyVars>>

ReadEds(c) ==
  LET h == call[c].height IN
  /\ call[c].pc = "eds"
  /\ ~ HeightUnknown(h)
  /\ call' = [call EXCEPT ![c] =
                IF eds[h] = Nil THEN [@ EXCEPT !.pc = "namespaces", !.square = <<>>]
                ELSE [@ EXCEPT !.pc = "edsReturned", !.square = eds[h]]]
  /\ UNCHANGED <<currentHeight, redisVars, faults, historyVars>>

\* get_namespaces_at_height.  A set has no duplicates, so the code's own
\* removal of duplicates has nothing to do.
ReadNamespaces(c) ==
  LET h == call[c].height IN
  /\ call[c].pc = "namespaces"
  /\ \E reply \in Replies(heightNs[h]) :
       call' = [call EXCEPT ![c] =
                  [@ EXCEPT !.nss = reply,
                            !.pc = IF reply = <<>> THEN "storeEds" ELSE "members"]]
  /\ early' = IF h \in acked THEN early ELSE early \cup {h}
  /\ UNCHANGED <<currentHeight, redisVars, faults, batch, acked, layouts, cut>>

\* ExtendedDataSquare::from_ods(..).unwrap() on a square it does not accept.
PanicFromOds(c) ==
  /\ call[c].pc = "storeEds"
  /\ call[c].out = "pending"
  /\ ~ Accepts(call[c].square)
  /\ call' = [call EXCEPT ![c] = Ended(@, "panic")]
  /\ UNCHANGED <<currentHeight, redisVars, faults, historyVars>>

\* Mutant: the indexes leave out the padding share.
StoreEdsUnpadded(c) ==
  LET h == call[c].height
      layout == call[c].square
  IN
  /\ call[c].pc = "storeEds"
  /\ Accepts(layout)
  /\ eds' = [eds EXCEPT ![h] = layout]
  /\ layouts' = [layouts EXCEPT ![h] = @ \cup {layout}]
  /\ AfterWrite(c, [call[c] EXCEPT !.todo = layout, !.next = 0,
                      !.pc = IF layout = <<>> THEN "edsReturned" ELSE "indexBlob"])
  /\ UNCHANGED <<currentHeight, blobData, members, commitment, heightNs,
                 blobIndex, faults, batch, acked, early, cut>>

\* SET eds:<h>.  The first share of the square is padding.
StoreEds(c) ==
  LET h == call[c].height
      layout == call[c].square
  IN
  /\ call[c].pc = "storeEds"
  /\ Accepts(layout)
  /\ eds' = [eds EXCEPT ![h] = layout]
  /\ layouts' = [layouts EXCEPT ![h] = @ \cup {layout}]
  /\ AfterWrite(c, [call[c] EXCEPT !.todo = layout, !.next = 1,
                      !.pc = IF layout = <<>> THEN "edsReturned" ELSE "indexBlob"])
  /\ UNCHANGED <<currentHeight, blobData, members, commitment, heightNs,
                 blobIndex, faults, batch, acked, early, cut>>

\* Mutant: the blob is serialized before its index is set.
IndexBlobTooLate(c) ==
  /\ call[c].pc = "indexBlob"
  /\ AfterWrite(c, [call[c] EXCEPT !.pc = "mapIndex"])
  /\ UNCHANGED <<currentHeight, redisVars, faults, historyVars>>

\* GET and SET of the first blob of todo, with its index.  The GET decides
\* only whether there is a blob, which never changes once there is one: a blob
\* of a square is never gone, and the loop never skips its index.
IndexBlob(c) ==
  LET b == Head(call[c].todo) IN
  /\ call[c].pc = "indexBlob"
  /\ blobData' = [blobData EXCEPT ![call[c].height][b] =
                    IF @ = Nil THEN Nil ELSE call[c].next]
  /\ AfterWrite(c, [call[c] EXCEPT !.pc = "mapIndex"])
  /\ UNCHANGED <<currentHeight, members, commitment, heightNs, eds, blobIndex,
                 faults, historyVars>>

\* Mutant: the loop ends with the first blob.
MapIndexOnlyFirst(c) ==
  LET b == Head(call[c].todo) IN
  /\ call[c].pc = "mapIndex"
  /\ blobIndex' = [blobIndex EXCEPT ![call[c].height][b] = call[c].next]
  /\ AfterWrite(c, [call[c] EXCEPT !.todo = <<>>, !.next = 0, !.pc = "edsReturned"])
  /\ UNCHANGED <<currentHeight, blobData, members, commitment, heightNs, eds,
                 faults, historyVars>>

MapIndex(c) ==
  LET b == Head(call[c].todo)
      rest == Tail(call[c].todo)
  IN
  /\ call[c].pc = "mapIndex"
  /\ blobIndex' = [blobIndex EXCEPT ![call[c].height][b] = call[c].next]
  /\ AfterWrite(c, [call[c] EXCEPT !.todo = rest,
                      !.next = IF rest = <<>> THEN 0 ELSE @ + Shares[b],
                      !.pc = IF rest = <<>> THEN "edsReturned" ELSE "indexBlob"])
  /\ UNCHANGED <<currentHeight, blobData, members, commitment, heightNs, eds,
                 faults, historyVars>>

ReturnEds(c) ==
  /\ call[c].pc = "edsReturned"
  /\ call[c].op = "eds"
  /\ call' = [call EXCEPT ![c] = Ended(@, "ok")]
  /\ UNCHANGED <<currentHeight, redisVars, faults, historyVars>>

-----------------------------------------------------------------------------
(* get_blob                                                                *)

GetBlob(c, h, b) ==
  /\ "get" \in Op
  /\ call[c].pc = "idle"
  /\ call' = [call EXCEPT ![c] = [Idle EXCEPT !.op = "get", !.pc = "eds",
                                     !.height = h, !.target = b,
                                     !.knew = h \in acked]]
  /\ UNCHANGED <<currentHeight, redisVars, faults, historyVars>>

\* GET commitment:<h>:<ns>:<commitment>, after the first get_eds_at_height.
ReadCommitment(c) ==
  /\ call[c].pc = "edsReturned"
  /\ call[c].op = "get" /\ ~ call[c].retry
  /\ call' = [call EXCEPT ![c] =
                IF call[c].target \in commitment[call[c].height]
                THEN [@ EXCEPT !.pc = "readBlob"]
                ELSE Ended(@, "blobNotFound")]
  /\ UNCHANGED <<currentHeight, redisVars, faults, historyVars>>

\* GET of the blob.  A blob without an index sends the call through
\* get_eds_at_height once more.
ReadBlob(c) ==
  LET data == blobData[call[c].height][call[c].target] IN
  /\ call[c].pc = "readBlob"
  /\ call' = [call EXCEPT ![c] =
                IF data = Nil THEN Ended(@, "blobNotFound")
                ELSE IF data = NoIndex THEN [@ EXCEPT !.pc = "eds", !.retry = TRUE]
                ELSE Ended([@ EXCEPT !.index = data], "ok")]
  /\ UNCHANGED <<currentHeight, redisVars, faults, historyVars>>

\* Mutant: the second get_eds_at_height is repeated until there is an index.
RereadBlobUntilIndexed(c) ==
  LET data == blobData[call[c].height][call[c].target] IN
  /\ call[c].pc = "edsReturned"
  /\ call[c].op = "get" /\ call[c].retry
  /\ call' = [call EXCEPT ![c] =
                IF data = Nil THEN Ended(@, "blobNotFound")
                ELSE IF data = NoIndex THEN [@ EXCEPT !.pc = "eds"]
                ELSE Ended(@, "ok")]
  /\ UNCHANGED <<currentHeight, redisVars, faults, historyVars>>

\* GET of the blob again.  The blob read here shadows the first one only
\* within the block: what the call returns is the blob without an index.
RereadBlob(c) ==
  LET data == blobData[call[c].height][call[c].target] IN
  /\ call[c].pc = "edsReturned"
  /\ call[c].op = "get" /\ call[c].retry
  /\ call' = [call EXCEPT ![c] =
                IF data = Nil THEN Ended(@, "blobNotFound")
                ELSE IF data = NoIndex THEN Ended(@, "indexNotSet")
                ELSE Ended(@, "ok")]
  /\ UNCHANGED <<currentHeight, redisVars, faults, historyVars>>

-----------------------------------------------------------------------------
(* Redis does not answer in time, or the connection fails.                 *)

ReadPc(c) == \/ call[c].pc \in {"eds", "namespaces", "members", "readBlob"}
             \/ call[c].pc = "edsReturned" /\ call[c].op = "get"

\* A failed read ends the call.
FailRead(c) ==
  /\ ReadPc(c)
  /\ faults < MaxFaults
  /\ faults' = faults + 1
  /\ call' = [call EXCEPT ![c] = Ended(@, "redisError")]
  /\ UNCHANGED <<currentHeight, redisVars, historyVars>>

\* Mutant: a submit whose last write of a blob timed out, though Redis did it,
\* stores the blob over again.
FailWriteRetrying(c) ==
  LET h == call[c].height
      again == call[c].pc = "trackNamespace"
  IN
  /\ call[c].pc \in WritePc
  /\ call[c].pc = "storeEds" => Accepts(call[c].square)
  /\ call[c].out = "pending"
  /\ faults < MaxFaults
  /\ faults' = faults + 1
  /\ heightNs' = IF again THEN [heightNs EXCEPT ![h] = @ \cup {NsOf[Head(call[c].todo)]}]
                 ELSE heightNs
  /\ call' = IF again THEN [call EXCEPT ![c].pc = "setBlob"]
             ELSE [call EXCEPT ![c].out = "redisError"]
  /\ cut' = IF call[c].pc \in BuildPc THEN cut \cup {h} ELSE cut
  /\ UNCHANGED <<currentHeight, blobData, members, commitment, eds, blobIndex,
                 batch, acked, early, layouts>>

\* A failed write is answered at once, but the command may be on its way.
FailWrite(c) ==
  /\ call[c].pc \in WritePc
  /\ call[c].pc = "storeEds" => Accepts(call[c].square)
  /\ call[c].out = "pending"
  /\ faults < MaxFaults
  /\ faults' = faults + 1
  /\ call' = [call EXCEPT ![c].out = "redisError"]
  /\ cut' = IF call[c].pc \in BuildPc THEN cut \cup {call[c].height} ELSE cut
  /\ UNCHANGED <<currentHeight, redisVars, batch, acked, early, layouts>>

\* It never reaches Redis.
LoseWrite(c) ==
  /\ Abandoned(c)
  /\ call' = [call EXCEPT ![c] = Ended(@, "redisError")]
  /\ UNCHANGED <<currentHeight, redisVars, faults, historyVars>>

\* The client has its answer, and the slot is free for another call.
Finish(c) ==
  /\ call[c].pc = "done"
  /\ call' = [call EXCEPT ![c] = Idle]
  /\ UNCHANGED <<currentHeight, redisVars, faults, historyVars>>

-----------------------------------------------------------------------------
Begin(c) ==
  \/ SubmitNothing(c)
  \/ \E blobs \in Request : AssignHeight(c, blobs)
  \/ \E h \in 0..MaxHeight :
       \/ GetEds(c, h)
       \/ \E b \in Blob : GetBlob(c, h, b)
  \/ \E h \in Height, nss \in NsList : GetAll(c, h, nss)

\* What a call in progress does next by itself.
Step(c) ==
  \/ SetBlob(c) \/ AddMember(c) \/ SetCommitment(c) \/ TrackNamespace(c)
  \/ EdsHeightNotFound(c) \/ ReadEds(c) \/ ReadNamespaces(c) \/ ReadMembers(c)
  \/ PanicFromOds(c) \/ StoreEds(c) \/ IndexBlob(c) \/ MapIndex(c) \/ ReturnEds(c)
  \/ ReadCommitment(c) \/ ReadBlob(c) \/ RereadBlob(c)

Fault(c) == FailRead(c) \/ FailWrite(c) \/ LoseWrite(c)

Next == \E c \in Call : Begin(c) \/ Step(c) \/ Fault(c) \/ Finish(c)

Spec == Init /\ [][Next]_vars

-----------------------------------------------------------------------------
(* Properties.                                                             *)

Submitted(h) == ToSet(batch[h])

\* Types; the set of a namespace lists blobs of that namespace only, and a
\* call that is about to store or index a blob has one left.
TypeOK ==
  /\ currentHeight \in 0..MaxHeight
  /\ blobData \in [Height -> [Blob -> Nat \cup {NoIndex, Nil}]]
  /\ members \in [Height -> [Ns -> SUBSET Blob]]
  /\ \A h \in Height, n \in Ns, b \in Blob : b \in members[h][n] => NsOf[b] = n
  /\ commitment \in [Height -> SUBSET Blob]
  /\ heightNs \in [Height -> SUBSET Ns]
  /\ eds \in [Height -> Seq(Blob) \cup {Nil}]
  /\ blobIndex \in [Height -> [Blob -> Nat \cup {Nil}]]
  /\ call \in [Call -> CallState]
  /\ faults \in 0..MaxFaults
  /\ batch \in [Height -> Seq(Blob)]
  /\ acked \subseteq Height
  /\ early \subseteq Height
  /\ layouts \in [Height -> SUBSET Seq(Blob)]
  /\ cut \subseteq Height

\* No read or write, whatever height a client names and however long a call is
\* delayed, leaves a key behind at a height that no submit was given: the next
\* submit starts from an empty height and its square is not cached in advance
\* (store_blobs, the height check of get_eds_at_height).
NothingAboveCurrentHeight ==
  \A h \in Height : h > currentHeight =>
     /\ \A b \in Blob : blobData[h][b] = Nil /\ blobIndex[h][b] = Nil
     /\ \A n \in Ns : members[h][n] = {}
     /\ commitment[h] = {} /\ heightNs[h] = {} /\ eds[h] = Nil

\* Whenever a call fails, and whatever of it still reaches Redis, the indexes
\* never point at nothing: a key listed by a commitment or a namespace has its
\* data, and a tracked namespace has a blob (the order of the four writes of
\* store_blob_at_height).
IndexesFollowData ==
  \A h \in Height :
     /\ \A n \in Ns : \A b \in members[h][n] : blobData[h][b] # Nil
     /\ \A b \in commitment[h] : b \in members[h][NsOf[b]]
     /\ \A n \in heightNs[h] : \E b \in commitment[h] : NsOf[b] = n

\* Concurrent submits do not share a height: what is stored at a height is of
\* the one vector submitted at it (increment_height under its mutex).
HeightsHoldOneBatch ==
  \A h \in Height, b \in Blob : blobData[h][b] # Nil => b \in Submitted(h)

\* A cached square lists each blob once, and only blobs that are stored and
\* have shares; the other blobs of the height have no place in it.
SquaresHoldStoredBlobs ==
  \A h \in Height : eds[h] # Nil =>
     /\ IsInjective(eds[h])
     /\ \A b \in ToSet(eds[h]) : blobData[h][b] # Nil /\ b \notin Unshareable

\* A square none of whose builders began before the submit was answered holds
\* every blob of the submit, however many builders raced to cache one.
UnracedSquareIsComplete ==
  \A h \in acked \ early :
     eds[h] # Nil => ToSet(eds[h]) = Submitted(h) \ Unshareable

\* An index kept for a blob, in the blob or beside it, is the cell at which its
\* shares begin in some square cached for the height, or, in the blob, the index
\* that the client sent.
EveryIndexIsAPosition ==
  \A h \in Height, b \in Blob :
     LET Positions == {FirstCell(l, b) : l \in {m \in layouts[h] : b \in ToSet(m)}}
     IN  /\ blobData[h][b] \in Positions \cup {ClientIndex[b], Nil}
         /\ blobIndex[h][b] \in Positions \cup {Nil}

Indexing(h) ==
  \E c \in Call : call[c].height = h /\ call[c].pc \in {"indexBlob", "mapIndex"}

\* However many builders raced: once no builder is at work any more on a height
\* whose builders all began after its submit was answered and none of which was
\* given up on, every blob of the cached square has an index.  Where one layout
\* only was cached it is the cell where the blob begins in it, in the blob and
\* beside it (the order of square and indexes in get_eds_at_height).
UncutSquaresAreIndexed ==
  \A h \in Height \ (early \cup cut) :
     eds[h] # Nil /\ ~ Indexing(h) =>
       \A b \in ToSet(eds[h]) :
          /\ blobData[h][b] \in Nat
          /\ layouts[h] = {eds[h]} =>
               blobData[h][b] = FirstCell(eds[h], b) /\ blobIndex[h][b] = FirstCell(eds[h], b)

\* A step in which blob.Get finds its blob without an index, the first time or
\* the second.
FindsNoIndex(c) ==
  /\ call[c].op = "get"
  /\ \/ call'[c].retry /\ ~ call[c].retry
     \/ call'[c].out = "indexNotSet" /\ call[c].out # "indexNotSet"

\* blob.Get finds a blob without an index for four reasons only: it cannot be
\* laid out, its square is being indexed at that moment, or it was cached too
\* early or cut short by a failure.  So no sequence of calls, however they
\* interleave, takes an index away from a blob of an answered submit (get_blob,
\* over get_eds_at_height).
UnindexedGetsAreExplained ==
  [][\A c \in Call : FindsNoIndex(c) =>
       \/ call[c].target \in Unshareable
       \/ Indexing(call[c].height)
       \/ call[c].height \in early \cup cut]_vars

\* An index is taken away from a blob only by the second SET of a blob that its
\* vector holds twice, before the submit is answered: whatever a submit still
\* writes, or a late write does, it does not reset what a builder has indexed
\* (store_blob_at_height, which stores the blob as the client sent it).
IndexesAreKept ==
  [][\A h \in Height, b \in Blob :
       blobData[h][b] \in Nat /\ blobData'[h][b] \notin Nat =>
         h \notin acked /\ ~ IsInjective(batch[h])]_vars

\* Once a submit has been answered, a blob.Get of one of its blobs never says
\* that there is none, and a blob.GetAll of its namespace never leaves it out.
AckedBlobsAreFound ==
  \A c \in Call :
     LET s == call[c] IN
     s.knew =>
       /\ s.op = "get" /\ s.target \in Submitted(s.height) => s.out # "blobNotFound"
       /\ s.op = "getAll" /\ s.out = "ok" =>
            ToSet(s.square) = {b \in Submitted(s.height) : NsOf[b] \in s.asked}

\* Every call is answered in the end.
EveryCallIsAnswered ==
  \A c \in Call : call[c].pc # "idle" ~> call[c].pc = "done" \/ call[c].out # "pending"

-----------------------------------------------------------------------------
(* The promise of BlobLedger: a blob is visible once its commitment key and *)
(* its data are there.                                                     *)

Ledger == INSTANCE BlobLedger WITH
  height <- currentHeight,
  visible <- [h \in Height |-> {b \in commitment[h] : blobData[h][b] # Nil}]

\* Calls that interleave, fail and leave writes behind keep the promise of
\* the ledger: heights are given out once, blobs appear in order, nothing
\* found is lost again and no submit is answered Ok before it is complete.
ImplementsLedger == Ledger!Spec

-----------------------------------------------------------------------------
(* What tests and comments say of blob.Get and of the indexes.             *)

\* A blob.Get of a blob whose submit has been answered, and which has shares,
\* does not fail for the want of an index.
AckedBlobsAreIndexed ==
  \A c \in Call :
     call[c].op = "get" /\ call[c].knew /\ call[c].target \notin Unshareable
       => call[c].out # "indexNotSet"

\* A blob.Get that succeeds returns a blob with its index.
GetReturnsAnIndex ==
  \A c \in Call : call[c].op = "get" /\ call[c].out = "ok" => call[c].index # NoIndex

\* The blobs of a submit that has been answered can be read, whichever of their
\* namespaces Redis lists first: no square of them is refused by from_ods.
AckedHeightsAreReadable ==
  \A c \in Call : call[c].knew => call[c].out # "panic"

\* While no call is at work on a height, the index in a blob of its cached
\* square is the cell at which the shares of the blob begin in that square.
IndexesMatchTheSquare ==
  \A h \in Height :
     eds[h] # Nil /\ (\A c \in Call : call[c].height = h => call[c].pc = "done") =>
       \A b \in ToSet(eds[h]) : blobData[h][b] = FirstCell(eds[h], b)
=============================================================================
