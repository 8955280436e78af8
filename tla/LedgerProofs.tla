----------------------------- MODULE LedgerProofs -----------------------------
(***************************************************************************)
(* BlobStore implements BlobLedger, for every set of calls, blobs and      *)
(* requests and every bound.                                               *)
(*                                                                         *)
(* What is visible at a height is just what has a commitment key           *)
(* (VisibleIsCommitted, from IndexesFollowData), so the one step that      *)
(* publishes a blob is SetCommitment, whatever has failed before.          *)
(*                                                                         *)
(* And what a client is told of a submit that has been answered: that such *)
(* a submit is complete is what the ledger promises, so it is proved of    *)
(* the ledger and holds of the store by refinement.                        *)
(***************************************************************************)
EXTENDS BlobStoreProofs

\* What the ledger is told to be visible.
Visible == [h \in Height |-> {b \in commitment[h] : blobData[h][b] # Nil}]

CommittedVisible == Visible = commitment

\* A submit that is storing has left of its vector what comes after the blobs
\* that it has committed.
Progress(c) ==
  LET s == call[c]
      v == batch[s.height]
  IN
  s.pc \in SubmitPc =>
    \E k \in Nat :
       /\ Len(v) = k + Len(s.todo)
       /\ \A i \in 1..Len(s.todo) : s.todo[i] = v[k + i]
       /\ \A i \in 1..k : v[i] \in commitment[s.height]

LedgerInv == IInv /\ \A c \in Call : Progress(c)

-----------------------------------------------------------------------------
LEMMA VisibleIsCommitted == IInv => CommittedVisible
<1> SUFFICES ASSUME IInv PROVE Visible = commitment
  BY DEF CommittedVisible
<1>1. commitment \in [Height -> SUBSET Blob]
  BY DEF IInv, TypeOK
<1>2. ASSUME NEW h \in Height, NEW b \in commitment[h] PROVE blobData[h][b] # Nil
  <2>1. b \in Blob /\ NsOf[b] \in Ns
    BY <1>1 DEF Ns
  <2>2. b \in members[h][NsOf[b]]
    BY DEF IInv, IndexesFollowData
  <2> QED BY <2>1, <2>2 DEF IInv, IndexesFollowData
<1>3. \A h \in Height : {b \in commitment[h] : blobData[h][b] # Nil} = commitment[h]
  BY <1>2
<1> QED BY <1>1, <1>3 DEF Visible

LEMMA VisibleIsCommittedNext == IInv' => CommittedVisible'
BY VisibleIsCommitted, PTL

\* A call that is not storing after a step, or is storing what it was.
LEMMA OwnProgress ==
  ASSUME NEW c \in Call, Progress(c), UNCHANGED <<commitment, batch>>,
         call'[c].pc \in SubmitPc =>
           /\ call[c].pc \in SubmitPc
           /\ call'[c].todo = call[c].todo /\ call'[c].height = call[c].height
  PROVE  Progress(c)'
<1> SUFFICES ASSUME call'[c].pc \in SubmitPc PROVE Progress(c)'
  BY DEF Progress
<1>1. /\ call[c].pc \in SubmitPc /\ commitment' = commitment /\ batch' = batch
      /\ call'[c].todo = call[c].todo /\ call'[c].height = call[c].height
  OBVIOUS
<1> QED BY <1>1 DEF Progress

\* What others do takes nothing away.
LEMMA OtherProgress ==
  ASSUME IInv, NEW c \in Call, Progress(c), call'[c] = call[c],
         \A h \in Height : h <= currentHeight => batch'[h] = batch[h],
         \A h \in Height : commitment[h] \subseteq commitment'[h]
  PROVE  Progress(c)'
<1> SUFFICES ASSUME call[c].pc \in SubmitPc PROVE Progress(c)'
  BY DEF Progress
<1>1. call[c].height \in Height /\ call[c].height <= currentHeight
  BY SubmitPlace
<1>2. batch'[call[c].height] = batch[call[c].height]
      /\ commitment[call[c].height] \subseteq commitment'[call[c].height]
  BY <1>1
<1>3. PICK k \in Nat :
        /\ Len(batch[call[c].height]) = k + Len(call[c].todo)
        /\ \A i \in 1..Len(call[c].todo) : call[c].todo[i] = batch[call[c].height][k + i]
        /\ \A i \in 1..k : batch[call[c].height][i] \in commitment[call[c].height]
  BY DEF Progress
<1>4. \A i \in 1..k : batch[call[c].height][i] \in commitment'[call[c].height]
  BY <1>2, <1>3
<1> QED BY <1>2, <1>3, <1>4 DEF Progress

-----------------------------------------------------------------------------
(* Steps that the ledger does not see.                                     *)

Unseen(c) ==
  /\ UNCHANGED <<currentHeight, commitment, batch, acked>>
  /\ \A d \in Call : d # c => call'[d] = call[d]
  /\ call'[c].pc \in SubmitPc =>
       /\ call[c].pc \in SubmitPc
       /\ call'[c].todo = call[c].todo /\ call'[c].height = call[c].height

\* The call is not storing when the step is over.
LEMMA NotStoring ==
  ASSUME IInv, NEW c \in Call, NEW s, s.pc \notin SubmitPc,
         call' = [call EXCEPT ![c] = s],
         UNCHANGED <<currentHeight, commitment, batch, acked>>
  PROVE  Unseen(c)
BY DEF Unseen, IInv, TypeOK

LEMMA EndsUnseen ==
  ASSUME IInv, NEW c \in Call, NEW s \in CallState, NEW out \in Outcome,
         call' = [call EXCEPT ![c] = Ended(s, out)],
         UNCHANGED <<currentHeight, commitment, batch, acked>>
  PROVE  Unseen(c)
<1>1. Ended(s, out).pc = "done"
  BY EndedIsACall
<1>2. Ended(s, out).pc \notin SubmitPc
  BY <1>1 DEF SubmitPc
<1> QED BY <1>2, NotStoring

\* A write goes on to s, or the call had given up on it.
LEMMA WritesUnseen ==
  ASSUME IInv, NEW c \in Call, NEW s, AfterWrite(c, s),
         s.pc \in SubmitPc =>
           /\ call[c].pc \in SubmitPc
           /\ s.todo = call[c].todo /\ s.height = call[c].height,
         UNCHANGED <<currentHeight, commitment, batch, acked>>
  PROVE  Unseen(c)
<1>1. call[c] \in CallState /\ "redisError" \in Outcome /\ call \in [Call -> CallState]
  BY DEF IInv, TypeOK, Outcome
<1>2. CASE Abandoned(c)
  <2>1. call' = [call EXCEPT ![c] = Ended(call[c], "redisError")]
    BY <1>2 DEF AfterWrite
  <2> QED BY <1>1, <2>1, EndsUnseen
<1>3. CASE ~ Abandoned(c)
  <2>1. call' = [call EXCEPT ![c] = s]
    BY <1>3 DEF AfterWrite
  <2> QED BY <1>1, <2>1 DEF Unseen
<1> QED BY <1>2, <1>3

LEMMA UnseenStep ==
  ASSUME LedgerInv, IInv', NEW c \in Call, Unseen(c)
  PROVE  LedgerInv' /\ UNCHANGED <<currentHeight, Visible, batch, acked>>
<1>1. ASSUME NEW d \in Call PROVE Progress(d)'
  <2>1. CASE d = c
    BY <2>1, OwnProgress DEF LedgerInv, Unseen
  <2>2. CASE d # c
    <3>1. call'[d] = call[d]
      BY <2>2 DEF Unseen
    <3> QED BY <3>1, OtherProgress DEF LedgerInv, Unseen
  <2> QED BY <2>1, <2>2
<1>2. Visible = commitment /\ Visible' = commitment'
  BY VisibleIsCommitted, VisibleIsCommittedNext DEF LedgerInv, CommittedVisible
<1> QED BY <1>1, <1>2 DEF LedgerInv, Unseen

LEMMA StoringUnseen ==
  ASSUME IInv, NEW c \in Call, SetBlob(c) \/ AddMember(c)
  PROVE  Unseen(c)
<1> DEFINE s == call[c]
           t == [s EXCEPT !.pc = "addMember"]
           u == [s EXCEPT !.pc = "setCommitment"]
<1>1. s \in CallState /\ s.pc \in SubmitPc
  BY DEF IInv, TypeOK, SetBlob, AddMember, SubmitPc
<1>2. t.todo = s.todo /\ t.height = s.height /\ u.todo = s.todo /\ u.height = s.height
  BY <1>1 DEF CallState
<1>3. AfterWrite(c, t) \/ AfterWrite(c, u)
  BY DEF SetBlob, AddMember
<1>4. UNCHANGED <<currentHeight, commitment, batch, acked>>
  BY DEF SetBlob, AddMember, historyVars
<1> HIDE DEF t, u
<1> QED BY <1>1, <1>2, <1>3, <1>4, WritesUnseen

LEMMA SquareUnseen ==
  ASSUME IInv, NEW c \in Call, StoreEds(c) \/ IndexBlob(c) \/ MapIndex(c)
  PROVE  Unseen(c)
<1> DEFINE s == call[c]
           p == IF s.square = <<>> THEN "edsReturned" ELSE "indexBlob"
           q == IF Tail(s.todo) = <<>> THEN "edsReturned" ELSE "indexBlob"
           n == IF Tail(s.todo) = <<>> THEN 0 ELSE s.next + Shares[Head(s.todo)]
           t == [s EXCEPT !.todo = s.square, !.next = 1, !.pc = p]
           u == [s EXCEPT !.pc = "mapIndex"]
           v == [s EXCEPT !.todo = Tail(s.todo), !.next = n, !.pc = q]
<1>1. s \in CallState
  BY DEF IInv, TypeOK
<1>2. AfterWrite(c, t) \/ AfterWrite(c, u) \/ AfterWrite(c, v)
  BY DEF StoreEds, IndexBlob, MapIndex
<1>3. p \notin SubmitPc /\ q \notin SubmitPc /\ "mapIndex" \notin SubmitPc
  BY DEF SubmitPc
<1> HIDE DEF p, q, n
<1>4. t.pc \notin SubmitPc /\ u.pc \notin SubmitPc /\ v.pc \notin SubmitPc
  BY <1>1, <1>3 DEF CallState
<1>5. UNCHANGED <<currentHeight, commitment, batch, acked>>
  BY DEF StoreEds, IndexBlob, MapIndex, historyVars
<1> HIDE DEF t, u, v
<1> QED BY <1>2, <1>4, <1>5, WritesUnseen

LEMMA BeginningUnseen ==
  ASSUME IInv, NEW c \in Call,
         \/ SubmitNothing(c)
         \/ \E h \in 0..MaxHeight : GetEds(c, h) \/ \E b \in Blob : GetBlob(c, h, b)
         \/ \E h \in Height, nss \in NsList : GetAll(c, h, nss)
         \/ Finish(c)
  PROVE  Unseen(c)
<1>1. UNCHANGED <<currentHeight, commitment, batch, acked>>
  BY DEF SubmitNothing, GetEds, GetBlob, GetAll, Finish, redisVars, historyVars
<1>2. \E s : call' = [call EXCEPT ![c] = s] /\ s.pc \notin SubmitPc
  <2>1. CASE SubmitNothing(c)
    <3> DEFINE s == [Idle EXCEPT !.op = "submit", !.pc = "done", !.out = "ok"]
    <3>1. call' = [call EXCEPT ![c] = s]
      BY <2>1 DEF SubmitNothing
    <3>2. s.pc = "done" /\ "done" \notin SubmitPc
      BY DEF Idle, SubmitPc
    <3> HIDE DEF s
    <3> QED BY <3>1, <3>2
  <2>2. ASSUME NEW h \in 0..MaxHeight, GetEds(c, h)
        PROVE  \E s : call' = [call EXCEPT ![c] = s] /\ s.pc \notin SubmitPc
    <3> DEFINE s == [Idle EXCEPT !.op = "eds", !.pc = "eds", !.height = h, !.knew = h \in acked]
    <3>1. call' = [call EXCEPT ![c] = s]
      BY <2>2 DEF GetEds
    <3>2. s.pc = "eds" /\ "eds" \notin SubmitPc
      BY DEF Idle, SubmitPc
    <3> HIDE DEF s
    <3> QED BY <3>1, <3>2
  <2>3. ASSUME NEW h \in 0..MaxHeight, NEW b \in Blob, GetBlob(c, h, b)
        PROVE  \E s : call' = [call EXCEPT ![c] = s] /\ s.pc \notin SubmitPc
    <3> DEFINE s == [Idle EXCEPT !.op = "get", !.pc = "eds", !.height = h, !.target = b,
                                 !.knew = h \in acked]
    <3>1. call' = [call EXCEPT ![c] = s]
      BY <2>3 DEF GetBlob
    <3>2. s.pc = "eds" /\ "eds" \notin SubmitPc
      BY DEF Idle, SubmitPc
    <3> HIDE DEF s
    <3> QED BY <3>1, <3>2
  <2>4. ASSUME NEW h \in Height, NEW nss \in NsList, GetAll(c, h, nss)
        PROVE  \E s : call' = [call EXCEPT ![c] = s] /\ s.pc \notin SubmitPc
    <3> DEFINE p == IF nss = <<>> THEN "done" ELSE "members"
               o == IF nss = <<>> THEN "ok" ELSE "pending"
               s == [Idle EXCEPT !.op = "getAll", !.height = h, !.nss = nss, !.pc = p,
                                 !.out = o, !.asked = ToSet(nss), !.knew = h \in acked]
    <3>1. call' = [call EXCEPT ![c] = s]
      BY <2>4 DEF GetAll
    <3>2. p \notin SubmitPc
      BY DEF SubmitPc
    <3> HIDE DEF p, o
    <3>3. s.pc = p
      BY DEF Idle
    <3> HIDE DEF s
    <3> QED BY <3>1, <3>2, <3>3
  <2>5. CASE Finish(c)
    <3>1. call' = [call EXCEPT ![c] = Idle] /\ Idle.pc \notin SubmitPc
      BY <2>5 DEF Finish, Idle, SubmitPc
    <3> HIDE DEF Idle
    <3> QED BY <3>1
  <2> QED BY <2>1, <2>2, <2>3, <2>4, <2>5
<1> QED BY <1>1, <1>2, NotStoring

LEMMA ReadingUnseen ==
  ASSUME IInv, NEW c \in Call,
         \/ ReadEds(c) \/ ReadNamespaces(c) \/ ReadMembers(c)
         \/ ReadCommitment(c) \/ ReadBlob(c) \/ RereadBlob(c)
         \/ EdsHeightNotFound(c) \/ PanicFromOds(c) \/ ReturnEds(c)
         \/ FailRead(c) \/ LoseWrite(c)
  PROVE  Unseen(c)
<1> DEFINE s == call[c]
           Other(t) == call' = [call EXCEPT ![c] = t] /\ t.pc \notin SubmitPc
<1>1. s \in CallState /\ \A p \in {"namespaces", "edsReturned", "storeEds", "members",
                                  "readBlob", "eds"} : p \notin SubmitPc
      /\ {"ok", "headerNotFound", "blobNotFound", "indexNotSet", "redisError", "panic"}
           \subseteq Outcome
  BY DEF IInv, TypeOK, SubmitPc, Outcome
<1>2. UNCHANGED <<currentHeight, commitment, batch, acked>>
  BY DEF ReadEds, ReadNamespaces, ReadMembers, ReadCommitment, ReadBlob, RereadBlob,
         EdsHeightNotFound, PanicFromOds, ReturnEds, FailRead, LoseWrite, redisVars,
         historyVars
<1>3. CASE ReadEds(c)
  <2> DEFINE t == [s EXCEPT !.pc = "namespaces", !.square = <<>>]
             u == [s EXCEPT !.pc = "edsReturned", !.square = eds[s.height]]
  <2>1. t.pc = "namespaces" /\ u.pc = "edsReturned"
    BY <1>1 DEF CallState
  <2>2. call' = [call EXCEPT ![c] = t] \/ call' = [call EXCEPT ![c] = u]
    BY <1>3 DEF ReadEds
  <2> HIDE DEF t, u
  <2> QED BY <1>1, <1>2, <2>1, <2>2, NotStoring
<1>4. CASE ReadNamespaces(c)
  <2>1. PICK reply \in Replies(heightNs[s.height]) :
          call' = [call EXCEPT ![c] =
             [s EXCEPT !.nss = reply,
                       !.pc = IF reply = <<>> THEN "storeEds" ELSE "members"]]
    BY <1>4 DEF ReadNamespaces
  <2> DEFINE p == IF reply = <<>> THEN "storeEds" ELSE "members"
             t == [s EXCEPT !.nss = reply, !.pc = p]
  <2>2. p \notin SubmitPc
    BY <1>1
  <2>3. call' = [call EXCEPT ![c] = t]
    BY <2>1
  <2> HIDE DEF p
  <2>4. t.pc = p
    BY <1>1 DEF CallState
  <2> HIDE DEF t
  <2> QED BY <1>2, <2>2, <2>3, <2>4, NotStoring
<1>5. CASE ReadMembers(c)
  <2> DEFINE n == Tail(s.nss)
             t(sq) == [s EXCEPT !.nss = n, !.square = sq]
             u(sq) == [t(sq) EXCEPT !.pc = "storeEds"]
             e(sq) == Ended(t(sq), "ok")
  <2>1. PICK sq : \/ call' = [call EXCEPT ![c] = t(sq)]
                  \/ call' = [call EXCEPT ![c] = u(sq)]
                  \/ call' = [call EXCEPT ![c] = e(sq)]
    <3>1. PICK reply \in Replies(Listed(c)) :
            call' = [call EXCEPT ![c] =
               IF n # <<>> THEN t(s.square \o reply)
               ELSE IF t(s.square \o reply).op = "getAll" THEN e(s.square \o reply)
               ELSE u(s.square \o reply)]
      BY <1>5 DEF ReadMembers
    <3> HIDE DEF n, t, u, e
    <3> QED BY <3>1
  <2> HIDE DEF n
  <2>2. t(sq).pc = "members"
    BY <1>1, <1>5 DEF CallState, ReadMembers
  <2>3. u(sq).pc = "storeEds"
    BY <1>1 DEF CallState
  <2>4. e(sq).pc = "done"
    BY <1>1 DEF Ended, CallState
  <2> HIDE DEF t, u, e
  <2> QED BY <1>1, <1>2, <2>1, <2>2, <2>3, <2>4, NotStoring DEF SubmitPc
<1>6. CASE ReadCommitment(c)
  <2> DEFINE t == [s EXCEPT !.pc = "readBlob"]
             e == Ended(s, "blobNotFound")
  <2>1. call' = [call EXCEPT ![c] = t] \/ call' = [call EXCEPT ![c] = e]
    BY <1>6 DEF ReadCommitment
  <2>2. t.pc = "readBlob"
    BY <1>1 DEF CallState
  <2> HIDE DEF t
  <2> QED BY <1>1, <1>2, <2>1, <2>2, NotStoring, EndsUnseen
<1>7. CASE ReadBlob(c) \/ RereadBlob(c)
  <2> DEFINE data == blobData[s.height][s.target]
             t == [s EXCEPT !.pc = "eds", !.retry = TRUE]
             u == [s EXCEPT !.index = data]
             e == Ended(u, "ok")
  <2>1. \/ call' = [call EXCEPT ![c] = t] \/ call' = [call EXCEPT ![c] = e]
        \/ \E out \in {"blobNotFound", "indexNotSet", "ok"} :
             call' = [call EXCEPT ![c] = Ended(s, out)]
    BY <1>7 DEF ReadBlob, RereadBlob
  <2>2. t.pc = "eds"
    BY <1>1 DEF CallState
  <2>3. e.pc = "done"
    BY <1>1 DEF Ended, CallState
  <2> HIDE DEF t, u, e
  <2> QED BY <1>1, <1>2, <2>1, <2>2, <2>3, NotStoring, EndsUnseen DEF SubmitPc
<1>8. CASE EdsHeightNotFound(c) \/ PanicFromOds(c) \/ ReturnEds(c) \/ FailRead(c) \/ LoseWrite(c)
  <2>1. \E out \in {"headerNotFound", "panic", "ok", "redisError"} :
          call' = [call EXCEPT ![c] = Ended(s, out)]
    BY <1>8 DEF EdsHeightNotFound, PanicFromOds, ReturnEds, FailRead, LoseWrite
  <2> QED BY <1>1, <1>2, <2>1, EndsUnseen
<1> QED BY <1>3, <1>4, <1>5, <1>6, <1>7, <1>8

LEMMA FailWriteUnseen ==
  ASSUME IInv, NEW c \in Call, FailWrite(c)
  PROVE  Unseen(c)
<1> DEFINE s == call[c]
           t == [s EXCEPT !.out = "redisError"]
<1>1. s \in CallState /\ call \in [Call -> CallState]
  BY DEF IInv, TypeOK
<1>2. call' = [call EXCEPT ![c] = t]
      /\ UNCHANGED <<currentHeight, commitment, batch, acked>>
  BY DEF FailWrite, redisVars, historyVars
<1>3. t.pc = s.pc /\ t.todo = s.todo /\ t.height = s.height
  BY <1>1 DEF CallState
<1> HIDE DEF t
<1> QED BY <1>1, <1>2, <1>3 DEF Unseen

-----------------------------------------------------------------------------
(* Steps that the ledger sees.                                             *)

\* increment_height: nothing is stored yet.
LEMMA AssignHeightReserves ==
  ASSUME LedgerInv, IInv', NEW c \in Call, NEW blobs \in Request, AssignHeight(c, blobs)
  PROVE  LedgerInv' /\ Ledger!Reserve(blobs)
<1> DEFINE g == currentHeight + 1
           t == [Idle EXCEPT !.op = "submit", !.pc = "setBlob", !.height = g,
                             !.todo = blobs]
<1>1. /\ blobs # <<>> /\ currentHeight < MaxHeight
      /\ currentHeight' = g
      /\ call' = [call EXCEPT ![c] = t]
      /\ batch' = [batch EXCEPT ![g] = blobs]
      /\ UNCHANGED <<redisVars, acked>>
  BY DEF AssignHeight
<1>2. /\ currentHeight \in Nat /\ g \in Height /\ blobs \in Seq(Blob)
      /\ call \in [Call -> CallState] /\ batch \in [Height -> Seq(Blob)]
  BY <1>1, StoreAssumption DEF LedgerInv, IInv, TypeOK, Height
<1>3. t.pc = "setBlob" /\ t.height = g /\ t.todo = blobs
  BY DEF Idle
<1> HIDE DEF t
<1>4. /\ batch'[g] = blobs /\ \A h \in Height : h # g => batch'[h] = batch[h]
      /\ \A h \in Height : h <= currentHeight => batch'[h] = batch[h]
      /\ commitment' = commitment
  BY <1>1, <1>2 DEF redisVars
<1>5. ASSUME NEW d \in Call PROVE Progress(d)'
  <2>1. CASE d = c
    <3>1. call'[c] = t
      BY <1>1, <1>2
    <3>2. Len(blobs) = 0 + Len(blobs) /\ \A i \in 1..Len(blobs) : blobs[i] = blobs[0 + i]
      BY <1>2
    <3> QED BY <1>3, <1>4, <2>1, <3>1, <3>2 DEF Progress
  <2>2. CASE d # c
    <3>1. call'[d] = call[d]
      BY <1>1, <1>2, <2>2
    <3> QED BY <1>4, <3>1, OtherProgress DEF LedgerInv
  <2> QED BY <2>1, <2>2
<1>6. UNCHANGED <<Visible, acked>>
  BY <1>1 DEF Visible, redisVars
<1>7. Ledger!Reserve(blobs)
  BY <1>1, <1>6 DEF Ledger!Reserve, Visible
<1> QED BY <1>5, <1>7 DEF LedgerInv

\* The blobs of a vector up to a place.
LEMMA PrefixIsIn ==
  ASSUME NEW S, NEW v \in Seq(S), NEW k \in Nat, k <= Len(v), NEW T,
         \A i \in 1..k : v[i] \in T
  PROVE  Ledger!ToSet(SubSeq(v, 1, k)) \subseteq T
<1> DEFINE s == SubSeq(v, 1, k)
<1>1. Len(s) = k /\ \A i \in 1..k : s[i] = v[i]
  OBVIOUS
<1>2. DOMAIN s = 1..k
  BY <1>1
<1> HIDE DEF s
<1>3. Ledger!ToSet(s) \subseteq T
  BY <1>1, <1>2 DEF Ledger!ToSet
<1> QED BY <1>3 DEF s

\* What a submit that is storing has done, and the blob it is at.
LEMMA StoringPlace ==
  ASSUME LedgerInv, NEW c \in Call, call[c].pc \in SubmitPc
  PROVE  LET s == call[c]
             v == batch[s.height]
         IN  /\ s \in CallState /\ s.height \in Height /\ s.height <= currentHeight
             /\ v \in Seq(Blob) /\ s.todo \in Seq(Blob) /\ s.todo # <<>>
             /\ Head(s.todo) \in Blob
             /\ \E k \in Nat :
                  /\ Len(v) = k + Len(s.todo)
                  /\ \A i \in 1..Len(s.todo) : s.todo[i] = v[k + i]
                  /\ \A i \in 1..k : v[i] \in commitment[s.height]
                  /\ k + 1 \in 1..Len(v) /\ v[k + 1] = Head(s.todo)
<1> DEFINE s == call[c]
           v == batch[s.height]
<1>1. /\ s \in CallState /\ s.height \in Height /\ s.height <= currentHeight
      /\ s.todo \in Seq(Blob) /\ s.todo # <<>> /\ Head(s.todo) \in Blob
  BY SubmitPlace DEF LedgerInv
<1>2. v \in Seq(Blob)
  BY <1>1 DEF LedgerInv, IInv, TypeOK
<1>3. PICK k \in Nat :
        /\ Len(v) = k + Len(s.todo)
        /\ \A i \in 1..Len(s.todo) : s.todo[i] = v[k + i]
        /\ \A i \in 1..k : v[i] \in commitment[s.height]
  BY DEF LedgerInv, Progress
<1>4. Len(s.todo) \in Nat /\ Len(s.todo) >= 1 /\ Head(s.todo) = s.todo[1]
  BY <1>1
<1>5. k + 1 \in 1..Len(v) /\ v[k + 1] = Head(s.todo)
  BY <1>3, <1>4
<1> QED BY <1>1, <1>2, <1>3, <1>5

\* The SET of the commitment key publishes the blob, even that of a call that
\* has given up on it.
LEMMA SetCommitmentPublishes ==
  ASSUME LedgerInv, IInv', NEW c \in Call, SetCommitment(c)
  PROVE  LedgerInv' /\ Ledger!Publish(call[c].height)
<1> DEFINE s == call[c]
           h == s.height
           v == batch[h]
           b == Head(s.todo)
           t == [s EXCEPT !.pc = "trackNamespace"]
<1>1. /\ commitment' = [commitment EXCEPT ![h] = @ \cup {b}]
      /\ AfterWrite(c, t)
      /\ UNCHANGED <<currentHeight, batch, acked>>
      /\ s.pc \in SubmitPc
  BY DEF SetCommitment, SubmitPc, historyVars
<1>2. /\ s \in CallState /\ h \in Height /\ v \in Seq(Blob) /\ b \in Blob
      /\ call \in [Call -> CallState] /\ commitment \in [Height -> SUBSET Blob]
  BY <1>1, StoringPlace DEF LedgerInv, IInv, TypeOK
<1>3. t.pc = "trackNamespace" /\ t.todo = s.todo /\ t.height = h /\ t \in CallState
  BY <1>2 DEF CallState, Pc, SubmitPc
<1>4. \A g \in Height : commitment[g] \subseteq commitment'[g]
  BY <1>1, <1>2
<1>5. ASSUME NEW d \in Call PROVE Progress(d)'
  <2>1. CASE d = c
    <3>1. call'[c] = t \/ call'[c].pc = "done"
      BY <1>1, <1>3, CallAfterWrite DEF LedgerInv, IInv
    <3>2. CASE call'[c].pc = "done"
      BY <2>1, <3>2 DEF Progress, SubmitPc
    <3>3. CASE call'[c] = t
      <4>1. PICK k \in Nat :
              /\ Len(v) = k + Len(s.todo)
              /\ \A i \in 1..Len(s.todo) : s.todo[i] = v[k + i]
              /\ \A i \in 1..k : v[i] \in commitment[h]
        BY <1>1, StoringPlace
      <4>2. \A i \in 1..k : v[i] \in commitment'[h]
        BY <1>2, <1>4, <4>1
      <4> HIDE DEF t
      <4> QED BY <1>1, <1>3, <2>1, <3>3, <4>1, <4>2 DEF Progress
    <3> QED BY <3>1, <3>2, <3>3
  <2>2. CASE d # c
    <3>1. call'[d] = call[d]
      BY <1>1, <1>3, <2>2, CallAfterWrite DEF LedgerInv, IInv
    <3> QED BY <1>1, <1>4, <3>1, OtherProgress DEF LedgerInv
  <2> QED BY <2>1, <2>2
<1>6. Visible = commitment /\ Visible' = commitment'
  BY VisibleIsCommitted, VisibleIsCommittedNext DEF LedgerInv, CommittedVisible
<1>7. PICK k \in Nat :
        /\ \A i \in 1..k : v[i] \in commitment[h]
        /\ k + 1 \in 1..Len(v) /\ v[k + 1] = b
  BY <1>1, StoringPlace
<1>8. Ledger!ToSet(SubSeq(v, 1, k)) \subseteq Visible[h]
  BY <1>2, <1>6, <1>7, PrefixIsIn
<1>9. (k + 1) - 1 = k
  BY <1>7
<1>10. Visible' = [Visible EXCEPT ![h] = @ \cup {v[k + 1]}]
  BY <1>1, <1>6, <1>7
<1>11. \E i \in 1..Len(v) :
         /\ Ledger!ToSet(SubSeq(v, 1, i - 1)) \subseteq Visible[h]
         /\ Visible' = [Visible EXCEPT ![h] = @ \cup {v[i]}]
  BY <1>7, <1>8, <1>9, <1>10
<1>12. Ledger!Publish(h)
  BY <1>1, <1>11 DEF Ledger!Publish, Visible
<1> QED BY <1>5, <1>12 DEF LedgerInv

\* After the last blob of the vector all of it is visible, and the submit is
\* answered; before that the ledger sees nothing.
LEMMA TrackNamespaceAcknowledges ==
  ASSUME LedgerInv, IInv', NEW c \in Call, TrackNamespace(c)
  PROVE  /\ LedgerInv'
         /\ \/ Ledger!Acknowledge(call[c].height)
            \/ UNCHANGED <<currentHeight, Visible, batch, acked>>
<1> DEFINE s == call[c]
           h == s.height
           v == batch[h]
           b == Head(s.todo)
           rest == Tail(s.todo)
           next == [s EXCEPT !.pc = "setBlob", !.todo = rest]
           e == Ended(s, "ok")
           t == IF rest = <<>> THEN e ELSE next
<1>1. /\ acked' = IF rest = <<>> /\ ~ Abandoned(c) THEN acked \cup {h} ELSE acked
      /\ AfterWrite(c, t)
      /\ UNCHANGED <<currentHeight, commitment, batch>>
      /\ s.pc \in SubmitPc /\ s.pc = "trackNamespace"
  BY DEF TrackNamespace, SubmitPc
<1>2. /\ s \in CallState /\ h \in Height /\ h <= currentHeight
      /\ v \in Seq(Blob) /\ b \in Blob /\ s.todo \in Seq(Blob) /\ s.todo # <<>>
      /\ call \in [Call -> CallState]
  BY <1>1, StoringPlace DEF LedgerInv, IInv, TypeOK
<1>3. PICK k \in Nat :
        /\ Len(v) = k + Len(s.todo)
        /\ \A i \in 1..Len(s.todo) : s.todo[i] = v[k + i]
        /\ \A i \in 1..k : v[i] \in commitment[h]
        /\ k + 1 \in 1..Len(v) /\ v[k + 1] = b
  BY <1>1, StoringPlace
<1>4. b \in commitment[h]
  BY <1>1 DEF LedgerInv, IInv, CallInv
<1>5. \A i \in 1..(k + 1) : v[i] \in commitment[h]
  <2> SUFFICES ASSUME NEW i \in 1..(k + 1) PROVE v[i] \in commitment[h]
    OBVIOUS
  <2>1. i = k + 1 \/ i \in 1..k
    BY <1>3
  <2> QED BY <1>3, <1>4, <2>1
<1>6. /\ rest \in Seq(Blob) /\ Len(rest) = Len(s.todo) - 1 /\ Len(s.todo) \in Nat \ {0}
      /\ \A i \in 1..Len(rest) : rest[i] = s.todo[i + 1]
  BY <1>2
<1>7. e \in CallState /\ e.pc = "done"
  BY <1>2, EndedIsACall DEF Outcome
<1>8. next \in CallState /\ next.todo = rest /\ next.height = h
  BY <1>2, <1>6 DEF CallState, Pc, SubmitPc
<1> HIDE DEF e, next
<1>9. t \in CallState /\ (t.pc = "done" \/ t = next)
  BY <1>7, <1>8
<1>10. ASSUME NEW d \in Call PROVE Progress(d)'
  <2>1. CASE d = c
    <3>1. call'[c] = t \/ call'[c].pc = "done"
      BY <1>1, <1>9, CallAfterWrite DEF LedgerInv, IInv
    <3>2. CASE call'[c].pc = "done"
      BY <2>1, <3>2 DEF Progress, SubmitPc
    <3>3. CASE call'[c] = next
      <4>1. Len(v) = (k + 1) + Len(rest) /\ k + 1 \in Nat
        <5> DEFINE n == Len(s.todo)
                   m == Len(rest)
                   l == Len(v)
        <5>1. n \in Nat \ {0} /\ m = n - 1 /\ l = k + n /\ k \in Nat
          BY <1>3, <1>6
        <5> HIDE DEF n, m, l
        <5>2. l = (k + 1) + m /\ k + 1 \in Nat
          BY <5>1
        <5> QED BY <5>2 DEF l, m
      <4>2. ASSUME NEW i \in 1..Len(rest) PROVE rest[i] = v[(k + 1) + i]
        <5>1. i + 1 \in 1..Len(s.todo) /\ k + (i + 1) = (k + 1) + i
          BY <1>3, <1>6
        <5>2. s.todo[i + 1] = v[k + (i + 1)]
          BY <1>3, <5>1
        <5> QED BY <1>6, <5>1, <5>2
      <4> HIDE DEF rest
      <4> QED BY <1>1, <1>5, <1>8, <2>1, <3>3, <4>1, <4>2 DEF Progress
    <3> QED BY <1>9, <3>1, <3>2, <3>3
  <2>2. CASE d # c
    <3>1. call'[d] = call[d]
      BY <1>1, <1>9, <2>2, CallAfterWrite DEF LedgerInv, IInv
    <3> QED BY <1>1, <3>1, OtherProgress DEF LedgerInv
  <2> QED BY <2>1, <2>2
<1>11. Visible = commitment /\ Visible' = commitment'
  BY VisibleIsCommitted, VisibleIsCommittedNext DEF LedgerInv, CommittedVisible
<1>12. CASE rest = <<>> /\ ~ Abandoned(c)
  <2>1. Len(v) = k + 1
    <3> DEFINE n == Len(s.todo)
               l == Len(v)
    <3>1. Len(rest) = 0
      <4>1. rest = <<>>
        BY <1>12
      <4> HIDE DEF rest
      <4> QED BY <4>1
    <3>2. Len(rest) = n - 1 /\ n \in Nat \ {0}
      BY <1>6
    <3>3. l = k + n /\ k \in Nat
      BY <1>3
    <3> HIDE DEF rest
    <3> HIDE DEF n, l
    <3>4. l = k + 1
      BY <3>1, <3>2, <3>3
    <3> QED BY <3>4 DEF l
  <2>2. Ledger!ToSet(v) \subseteq Visible[h]
    BY <1>2, <1>5, <1>11, <2>1 DEF Ledger!ToSet
  <2>3. acked' = acked \cup {h}
    BY <1>1, <1>12
  <2>4. Ledger!Acknowledge(h)
    BY <1>1, <1>2, <1>11, <2>2, <2>3 DEF Ledger!Acknowledge, Visible
  <2> QED BY <1>10, <2>4 DEF LedgerInv
<1>13. CASE ~ (rest = <<>> /\ ~ Abandoned(c))
  BY <1>1, <1>10, <1>11, <1>13 DEF LedgerInv
<1> QED BY <1>12, <1>13

-----------------------------------------------------------------------------
LEMMA LedgerInitially == Init => LedgerInv /\ Ledger!Init
<1> SUFFICES ASSUME Init PROVE LedgerInv /\ Ledger!Init
  OBVIOUS
<1>1. IInv
  BY Initially
<1>2. ASSUME NEW c \in Call PROVE Progress(c)
  BY DEF Init, Idle, Progress, SubmitPc
<1>3. Visible = [h \in Height |-> {}]
  BY DEF Init, Visible
<1>4. Ledger!Init
  BY <1>3 DEF Init, Ledger!Init, Visible, Height
<1> QED BY <1>1, <1>2, <1>4 DEF LedgerInv

LEMMA LedgerInductive == LedgerInv /\ [Next]_vars => LedgerInv' /\ [Ledger!Next]_(Ledger!ledger)
<1> SUFFICES ASSUME LedgerInv, [Next]_vars
             PROVE  LedgerInv' /\ [Ledger!Next]_(Ledger!ledger)
  OBVIOUS
<1>1. IInv /\ IInv'
  BY Inductive DEF LedgerInv
<1>2. ASSUME UNCHANGED <<currentHeight, Visible, batch, acked>>
      PROVE  [Ledger!Next]_(Ledger!ledger)
  BY <1>2 DEF Ledger!ledger, Visible
<1>3. ASSUME NEW c \in Call, Unseen(c)
      PROVE  LedgerInv' /\ [Ledger!Next]_(Ledger!ledger)
  BY <1>1, <1>2, <1>3, UnseenStep
<1>4. ASSUME NEW c \in Call, Begin(c)
      PROVE  LedgerInv' /\ [Ledger!Next]_(Ledger!ledger)
  <2>1. ASSUME NEW blobs \in Request, AssignHeight(c, blobs)
        PROVE  LedgerInv' /\ [Ledger!Next]_(Ledger!ledger)
    BY <1>1, <2>1, AssignHeightReserves DEF Ledger!Next
  <2> QED BY <1>1, <1>3, <1>4, <2>1, BeginningUnseen DEF Begin
<1>5. ASSUME NEW c \in Call, Step(c)
      PROVE  LedgerInv' /\ [Ledger!Next]_(Ledger!ledger)
  <2>1. CASE SetCommitment(c)
    <3>1. call[c].height \in 1..MaxHeight
      BY <2>1, StoringPlace DEF SetCommitment, SubmitPc, Height
    <3>2. LedgerInv' /\ Ledger!Publish(call[c].height)
      BY <1>1, <2>1, SetCommitmentPublishes
    <3>3. PICK h \in 1..MaxHeight : h = call[c].height
      BY <3>1
    <3>4. Ledger!Publish(h)
      BY <3>2, <3>3 DEF Ledger!Publish
    <3> QED BY <3>2, <3>4 DEF Ledger!Next
  <2>2. CASE TrackNamespace(c)
    <3>1. call[c].height \in 1..MaxHeight
      BY <2>2, StoringPlace DEF TrackNamespace, SubmitPc, Height
    <3> QED BY <1>1, <1>2, <2>2, <3>1, TrackNamespaceAcknowledges DEF Ledger!Next
  <2>3. CASE ~ SetCommitment(c) /\ ~ TrackNamespace(c)
    BY <1>1, <1>3, <1>5, <2>3, StoringUnseen, SquareUnseen, ReadingUnseen DEF Step
  <2> QED BY <2>1, <2>2, <2>3
<1>6. ASSUME NEW c \in Call, Fault(c) \/ Finish(c)
      PROVE  LedgerInv' /\ [Ledger!Next]_(Ledger!ledger)
  BY <1>1, <1>3, <1>6, ReadingUnseen, FailWriteUnseen, BeginningUnseen DEF Fault
<1>7. CASE UNCHANGED vars
  <2>1. \A c \in Call : Progress(c)'
    <3> SUFFICES ASSUME NEW c \in Call PROVE Progress(c)'
      OBVIOUS
    <3>1. UNCHANGED <<call, batch, commitment>>
      BY <1>7 DEF vars, redisVars, historyVars
    <3> QED BY <3>1, OwnProgress DEF LedgerInv
  <2>2. UNCHANGED <<currentHeight, Visible, batch, acked>>
    BY <1>7 DEF vars, redisVars, historyVars, Visible
  <2> QED BY <1>1, <1>2, <2>1, <2>2 DEF LedgerInv
<1> QED BY <1>4, <1>5, <1>6, <1>7 DEF Next

\* The store keeps the promise of the ledger, however calls interleave and
\* whichever commands fail or come late: heights are given out once, blobs come
\* to be found in the order submitted and stay found, and a submit is answered
\* Ok only when all of it is.
THEOREM LedgerImplemented == Spec => ImplementsLedger
<1> QED
  BY LedgerInitially, LedgerInductive, PTL DEF Spec, ImplementsLedger, Ledger!Spec

-----------------------------------------------------------------------------
(* What a client is told of a submit that has been answered: what a call   *)
(* has gathered of it (AnswerInv).                                         *)

\* All of a submit that has been answered is there.
AckedComplete ==
  \A h \in acked : h <= currentHeight /\ Submitted(h) \subseteq commitment[h]

\* The blobs of its namespaces that a blob.GetAll is to answer with.
Wanted(s) == {b \in Submitted(s.height) : NsOf[b] \in s.asked}

\* It has those of the namespaces it has listed.
Gathered(s) ==
  /\ ToSet(s.square) \subseteq Wanted(s)
  /\ ToSet(s.nss) \subseteq s.asked
  /\ \A b \in Wanted(s) : b \in ToSet(s.square) \/ NsOf[b] \in ToSet(s.nss)

AnswerInv(c) ==
  LET s == call[c] IN
  s.knew =>
    /\ s.height \in acked
    /\ s.op = "get" /\ s.target \in Submitted(s.height) => s.out # "blobNotFound"
    /\ s.op = "getAll" /\ (s.pc = "members" \/ s.out = "ok") => Gathered(s)
    /\ s.op = "getAll" /\ s.out = "ok" => s.nss = <<>>

AInv == LedgerInv /\ AckedComplete /\ \A c \in Call : AnswerInv(c)

-----------------------------------------------------------------------------
(* Sequences.                                                              *)

LEMMA PartsOfAConcatenation ==
  ASSUME NEW S, NEW v \in Seq(S), NEW w \in Seq(S)
  PROVE  ToSet(v \o w) = ToSet(v) \cup ToSet(w)
<1> DEFINE z == v \o w
           m == Len(v)
           n == Len(w)
<1>1. /\ m \in Nat /\ n \in Nat /\ z \in Seq(S) /\ Len(z) = m + n
      /\ \A i \in 1..m : z[i] = v[i]
      /\ \A i \in 1..n : z[m + i] = w[i]
      /\ DOMAIN z = 1..(m + n) /\ DOMAIN v = 1..m /\ DOMAIN w = 1..n
  OBVIOUS
<1> HIDE DEF z, m, n
<1>2. ASSUME NEW i \in DOMAIN z PROVE z[i] \in ToSet(v) \cup ToSet(w)
  <2>1. CASE i \in 1..m
    BY <1>1, <2>1 DEF ToSet
  <2>2. CASE i \notin 1..m
    <3>1. i - m \in 1..n /\ m + (i - m) = i
      BY <1>1, <1>2, <2>2
    <3>2. z[i] = w[i - m]
      BY <1>1, <3>1
    <3> QED BY <1>1, <3>1, <3>2 DEF ToSet
  <2> QED BY <2>1, <2>2
<1>3. ASSUME NEW i \in DOMAIN v PROVE v[i] \in ToSet(z)
  <2>1. i \in DOMAIN z /\ z[i] = v[i]
    BY <1>1
  <2> QED BY <2>1 DEF ToSet
<1>4. ASSUME NEW i \in DOMAIN w PROVE w[i] \in ToSet(z)
  <2>1. m + i \in DOMAIN z /\ z[m + i] = w[i]
    BY <1>1
  <2> QED BY <2>1 DEF ToSet
<1>5. ToSet(z) \subseteq ToSet(v) \cup ToSet(w)
  BY <1>2 DEF ToSet
<1>6. ToSet(v) \subseteq ToSet(z) /\ ToSet(w) \subseteq ToSet(z)
  BY <1>3, <1>4 DEF ToSet
<1> QED BY <1>5, <1>6 DEF z

LEMMA HeadOrTail ==
  ASSUME NEW S, NEW s \in Seq(S), s # <<>>, NEW x \in ToSet(s), x # Head(s)
  PROVE  x \in ToSet(Tail(s))
<1>1. PICK i \in DOMAIN s : x = s[i]
  BY DEF ToSet
<1>2. /\ Len(s) \in Nat \ {0} /\ DOMAIN s = 1..Len(s) /\ Head(s) = s[1]
      /\ DOMAIN Tail(s) = 1..(Len(s) - 1)
      /\ \A j \in 1..(Len(s) - 1) : Tail(s)[j] = s[j + 1]
  OBVIOUS
<1>3. i - 1 \in 1..(Len(s) - 1) /\ (i - 1) + 1 = i
  BY <1>1, <1>2
<1>4. x = Tail(s)[i - 1]
  BY <1>1, <1>2, <1>3
<1> QED BY <1>2, <1>3, <1>4 DEF ToSet

\* A reply lists the whole of the set, and nothing else.
LEMMA RepliesAreComplete ==
  ASSUME NEW S, NEW r \in Replies(S)
  PROVE  ToSet(r) = S
BY DEF Replies, Bijection, Surjection, Injection, ToSet

-----------------------------------------------------------------------------
(* Steps in general.                                                       *)

\* What is found of a submit that has been answered.
LEMMA AckedBlobs ==
  ASSUME IInv, AckedComplete, NEW h \in acked, NEW b \in Submitted(h)
  PROVE  /\ h \in Height /\ b \in Blob /\ NsOf[b] \in Ns
         /\ b \in commitment[h] /\ b \in members[h][NsOf[b]] /\ blobData[h][b] # Nil
<1>1. h \in Height /\ b \in commitment[h]
  BY DEF IInv, TypeOK, AckedComplete
<1>2. b \in Blob
  BY <1>1 DEF IInv, TypeOK
<1>3. NsOf[b] \in Ns
  BY <1>2 DEF Ns
<1>4. b \in members[h][NsOf[b]]
  BY <1>1 DEF IInv, IndexesFollowData
<1>5. blobData[h][b] # Nil
  BY <1>1, <1>3, <1>4 DEF IInv, IndexesFollowData
<1> QED BY <1>1, <1>2, <1>3, <1>4, <1>5

\* No step takes from what has been answered.
AnswersStay ==
  /\ acked \subseteq acked'
  /\ \A h \in acked : batch'[h] = batch[h]

\* Whatever step of the store it is, to the ledger it is one of three.
LEMMA LedgerKeepsAnswers ==
  ASSUME LedgerInv, LedgerInv', AckedComplete, [Ledger!Next]_(Ledger!ledger)
  PROVE  AckedComplete' /\ AnswersStay
<1>1. Visible = commitment /\ Visible' = commitment'
  BY VisibleIsCommitted, VisibleIsCommittedNext DEF LedgerInv, CommittedVisible
<1>2. /\ acked \subseteq Height /\ currentHeight \in Nat
      /\ commitment \in [Height -> SUBSET Blob] /\ batch \in [Height -> Seq(Blob)]
      /\ Height \subseteq Nat
  BY StoreAssumption DEF LedgerInv, IInv, TypeOK, Height
<1>3. ASSUME NEW blobs \in Request, Ledger!Reserve(blobs)
      PROVE  AckedComplete' /\ AnswersStay
  <2>1. /\ currentHeight' = currentHeight + 1 /\ acked' = acked
        /\ batch' = [batch EXCEPT ![currentHeight + 1] = blobs]
        /\ Visible' = Visible
    BY <1>3 DEF Ledger!Reserve, Visible
  <2>2. \A h \in acked : h \in Height /\ h # currentHeight + 1
    BY <1>2 DEF AckedComplete
  <2>3. \A h \in acked : batch'[h] = batch[h]
    BY <1>2, <2>1, <2>2
  <2> QED BY <1>1, <1>2, <2>1, <2>2, <2>3 DEF AckedComplete, AnswersStay, Submitted
<1>4. ASSUME NEW g \in 1..MaxHeight, Ledger!Publish(g)
      PROVE  AckedComplete' /\ AnswersStay
  <2>1. /\ UNCHANGED <<currentHeight, batch, acked>>
        /\ \E b : Visible' = [Visible EXCEPT ![g] = @ \cup {b}]
    BY <1>4 DEF Ledger!Publish, Visible
  <2>2. \A h \in Height : commitment[h] \subseteq commitment'[h]
    BY <1>1, <1>2, <2>1 DEF Height
  <2> QED BY <1>2, <2>1, <2>2 DEF AckedComplete, AnswersStay, Submitted
<1>5. ASSUME NEW g \in 1..MaxHeight, Ledger!Acknowledge(g)
      PROVE  AckedComplete' /\ AnswersStay
  <2>1. /\ g <= currentHeight /\ Ledger!ToSet(batch[g]) \subseteq Visible[g]
        /\ acked' = acked \cup {g} /\ UNCHANGED <<currentHeight, batch>>
        /\ Visible' = Visible
    BY <1>5 DEF Ledger!Acknowledge, Visible
  <2>2. Submitted(g) \subseteq commitment[g]
    BY <1>1, <2>1 DEF Submitted, ToSet, Ledger!ToSet
  <2> QED BY <1>1, <2>1, <2>2 DEF AckedComplete, AnswersStay, Submitted
<1>6. CASE UNCHANGED Ledger!ledger
  <2>1. UNCHANGED <<currentHeight, batch, acked>> /\ Visible' = Visible
    BY <1>6 DEF Ledger!ledger, Visible
  <2> QED BY <1>1, <2>1 DEF AckedComplete, AnswersStay, Submitted
<1> QED BY <1>3, <1>4, <1>5, <1>6 DEF Ledger!Next

\* A call that does not move.
LEMMA OtherAnswers ==
  ASSUME AnswersStay, NEW c \in Call, AnswerInv(c), call'[c] = call[c]
  PROVE  AnswerInv(c)'
<1> SUFFICES ASSUME call[c].knew PROVE AnswerInv(c)'
  BY DEF AnswerInv
<1>1. call[c].height \in acked /\ call[c].height \in acked'
  BY DEF AnswerInv, AnswersStay
<1>2. batch'[call[c].height] = batch[call[c].height]
  BY <1>1 DEF AnswersStay
<1> QED BY <1>1, <1>2 DEF AnswerInv, Gathered, Wanted, Submitted

\* What a call was asked for.
SameAsked(s, t) ==
  t.op = s.op /\ t.height = s.height /\ t.target = s.target /\ t.knew = s.knew

\* A step of a call other than a blob.GetAll that does not answer that there is
\* no such blob.
Plain(c) ==
  /\ \A d \in Call : d # c => call'[d] = call[d]
  /\ call[c].op # "getAll" /\ SameAsked(call[c], call'[c])
  /\ call'[c].out = call[c].out \/ call'[c].out # "blobNotFound"

LEMMA PlainAnswer ==
  ASSUME AnswersStay, NEW c \in Call, AnswerInv(c), Plain(c)
  PROVE  AnswerInv(c)'
<1> SUFFICES ASSUME call[c].knew PROVE AnswerInv(c)'
  BY DEF AnswerInv, Plain, SameAsked
<1>1. call[c].height \in acked /\ call[c].height \in acked'
  BY DEF AnswerInv, AnswersStay
<1>2. batch'[call[c].height] = batch[call[c].height]
  BY <1>1 DEF AnswersStay
<1> QED BY <1>1, <1>2 DEF AnswerInv, Plain, SameAsked, Submitted

LEMMA EndedKeeps ==
  ASSUME NEW s \in CallState, NEW out
  PROVE  LET e == Ended(s, out) IN
         /\ SameAsked(s, e) /\ e.pc = "done" /\ e.out = out /\ e.nss = <<>>
         /\ e.square = s.square /\ e.asked = s.asked
BY DEF Ended, SameAsked, CallState

-----------------------------------------------------------------------------
(* Steps of calls other than blob.GetAll.                                  *)

\* A blob.GetAll lists namespaces, and does nothing else.
LEMMA GetAllPlaces ==
  ASSUME IInv, NEW c \in Call, call[c].pc \notin {"members", "done"}
  PROVE  call[c].op # "getAll"
BY DEF IInv, CallInv

LEMMA MoveIsPlain ==
  ASSUME IInv, NEW c \in Call, call[c].op # "getAll",
         NEW t, call' = [call EXCEPT ![c] = t], SameAsked(call[c], t),
         t.out = call[c].out \/ t.out # "blobNotFound"
  PROVE  Plain(c)
BY DEF Plain, IInv, TypeOK

LEMMA EndIsPlain ==
  ASSUME IInv, NEW c \in Call, call[c].op # "getAll",
         NEW out, out # "blobNotFound", call' = [call EXCEPT ![c] = Ended(call[c], out)]
  PROVE  Plain(c)
<1> DEFINE e == Ended(call[c], out)
<1>1. call[c] \in CallState
  BY DEF IInv, TypeOK
<1>2. SameAsked(call[c], e) /\ e.out = out
  BY <1>1, EndedKeeps
<1> HIDE DEF e
<1> QED BY <1>2, MoveIsPlain DEF e

LEMMA WriteIsPlain ==
  ASSUME IInv, NEW c \in Call, call[c].op # "getAll",
         NEW t, AfterWrite(c, t), SameAsked(call[c], t),
         t.out = call[c].out \/ t.out # "blobNotFound"
  PROVE  Plain(c)
<1>1. CASE Abandoned(c)
  <2>1. call' = [call EXCEPT ![c] = Ended(call[c], "redisError")]
    BY <1>1 DEF AfterWrite
  <2> QED BY <2>1, EndIsPlain
<1>2. CASE ~ Abandoned(c)
  <2>1. call' = [call EXCEPT ![c] = t]
    BY <1>2 DEF AfterWrite
  <2> QED BY <2>1, MoveIsPlain
<1> QED BY <1>1, <1>2

LEMMA StoringIsPlain ==
  ASSUME IInv, NEW c \in Call,
         SetBlob(c) \/ AddMember(c) \/ SetCommitment(c) \/ TrackNamespace(c)
  PROVE  Plain(c)
<1> DEFINE s == call[c]
           t1 == [s EXCEPT !.pc = "addMember"]
           t2 == [s EXCEPT !.pc = "setCommitment"]
           t3 == [s EXCEPT !.pc = "trackNamespace"]
           t4 == [s EXCEPT !.pc = "setBlob", !.todo = Tail(s.todo)]
           e == Ended(s, "ok")
<1>1. s \in CallState
  BY DEF IInv, TypeOK
<1>2. s.op # "getAll"
  BY GetAllPlaces DEF SetBlob, AddMember, SetCommitment, TrackNamespace
<1>3. /\ SameAsked(s, t1) /\ t1.out = s.out
      /\ SameAsked(s, t2) /\ t2.out = s.out
      /\ SameAsked(s, t3) /\ t3.out = s.out
      /\ SameAsked(s, t4) /\ t4.out = s.out
  BY <1>1 DEF SameAsked, CallState
<1>4. SameAsked(s, e) /\ e.out = "ok"
  BY <1>1, EndedKeeps
<1>5. \/ AfterWrite(c, t1) \/ AfterWrite(c, t2) \/ AfterWrite(c, t3)
      \/ AfterWrite(c, t4) \/ AfterWrite(c, e)
  BY DEF SetBlob, AddMember, SetCommitment, TrackNamespace
<1> HIDE DEF t1, t2, t3, t4, e
<1> QED BY <1>2, <1>3, <1>4, <1>5, WriteIsPlain

LEMMA SquareIsPlain ==
  ASSUME IInv, NEW c \in Call, StoreEds(c) \/ IndexBlob(c) \/ MapIndex(c)
  PROVE  Plain(c)
<1> DEFINE s == call[c]
           p == IF s.square = <<>> THEN "edsReturned" ELSE "indexBlob"
           q == IF Tail(s.todo) = <<>> THEN "edsReturned" ELSE "indexBlob"
           n == IF Tail(s.todo) = <<>> THEN 0 ELSE s.next + Shares[Head(s.todo)]
           t == [s EXCEPT !.todo = s.square, !.next = 1, !.pc = p]
           u == [s EXCEPT !.pc = "mapIndex"]
           v == [s EXCEPT !.todo = Tail(s.todo), !.next = n, !.pc = q]
<1>1. s \in CallState
  BY DEF IInv, TypeOK
<1>2. s.op # "getAll"
  BY GetAllPlaces DEF StoreEds, IndexBlob, MapIndex
<1>3. AfterWrite(c, t) \/ AfterWrite(c, u) \/ AfterWrite(c, v)
  BY DEF StoreEds, IndexBlob, MapIndex
<1> HIDE DEF p, q, n
<1>4. /\ SameAsked(s, t) /\ t.out = s.out
      /\ SameAsked(s, u) /\ u.out = s.out
      /\ SameAsked(s, v) /\ v.out = s.out
  BY <1>1 DEF SameAsked, CallState
<1> HIDE DEF t, u, v
<1> QED BY <1>2, <1>3, <1>4, WriteIsPlain

LEMMA ReadingIsPlain ==
  ASSUME IInv, NEW c \in Call,
         \/ EdsHeightNotFound(c) \/ ReadEds(c) \/ ReadNamespaces(c)
         \/ PanicFromOds(c) \/ ReturnEds(c) \/ FailWrite(c) \/ LoseWrite(c)
  PROVE  Plain(c)
<1> DEFINE s == call[c]
<1>1. s \in CallState
  BY DEF IInv, TypeOK
<1>2. s.op # "getAll"
  BY GetAllPlaces DEF EdsHeightNotFound, ReadEds, ReadNamespaces, PanicFromOds,
                      ReturnEds, FailWrite, LoseWrite, Abandoned, WritePc, SubmitPc, BuildPc
<1>3. CASE ReadEds(c)
  <2> DEFINE t == [s EXCEPT !.pc = "namespaces", !.square = <<>>]
             u == [s EXCEPT !.pc = "edsReturned", !.square = eds[s.height]]
  <2>1. call' = [call EXCEPT ![c] = t] \/ call' = [call EXCEPT ![c] = u]
    BY <1>3 DEF ReadEds
  <2>2. SameAsked(s, t) /\ t.out = s.out /\ SameAsked(s, u) /\ u.out = s.out
    BY <1>1 DEF SameAsked, CallState
  <2> HIDE DEF t, u
  <2> QED BY <1>2, <2>1, <2>2, MoveIsPlain
<1>4. CASE ReadNamespaces(c)
  <2>1. PICK reply :
          call' = [call EXCEPT ![c] =
                     [s EXCEPT !.nss = reply,
                               !.pc = IF reply = <<>> THEN "storeEds" ELSE "members"]]
    BY <1>4 DEF ReadNamespaces
  <2> DEFINE p == IF reply = <<>> THEN "storeEds" ELSE "members"
             t == [s EXCEPT !.nss = reply, !.pc = p]
  <2>2. call' = [call EXCEPT ![c] = t]
    BY <2>1
  <2> HIDE DEF p
  <2>3. SameAsked(s, t) /\ t.out = s.out
    BY <1>1 DEF SameAsked, CallState
  <2> HIDE DEF t
  <2> QED BY <1>2, <2>2, <2>3, MoveIsPlain
<1>5. CASE FailWrite(c)
  <2> DEFINE t == [s EXCEPT !.out = "redisError"]
  <2>1. call' = [call EXCEPT ![c] = t]
    BY <1>5 DEF FailWrite
  <2>2. SameAsked(s, t) /\ t.out = "redisError"
    BY <1>1 DEF SameAsked, CallState
  <2> HIDE DEF t
  <2> QED BY <1>2, <2>1, <2>2, MoveIsPlain
<1>6. CASE EdsHeightNotFound(c) \/ PanicFromOds(c) \/ ReturnEds(c) \/ LoseWrite(c)
  <2>1. \E out \in {"headerNotFound", "panic", "ok", "redisError"} :
          call' = [call EXCEPT ![c] = Ended(s, out)]
    BY <1>6 DEF EdsHeightNotFound, PanicFromOds, ReturnEds, LoseWrite
  <2> QED BY <1>2, <2>1, EndIsPlain
<1> QED BY <1>3, <1>4, <1>5, <1>6

-----------------------------------------------------------------------------
(* The steps that answer.                                                  *)

\* A blob.Get does not miss a blob of a submit that was answered before it
\* began: the blob has both of its keys.
LEMMA GetAnswers ==
  ASSUME IInv, AckedComplete, AnswersStay, NEW c \in Call, AnswerInv(c),
         ReadCommitment(c) \/ ReadBlob(c) \/ RereadBlob(c)
  PROVE  AnswerInv(c)'
<1> DEFINE s == call[c]
           data == blobData[s.height][s.target]
           t == [s EXCEPT !.pc = "readBlob"]
           u == [s EXCEPT !.pc = "eds", !.retry = TRUE]
           v == [s EXCEPT !.index = data]
           e == Ended(s, "blobNotFound")
<1>1. s \in CallState /\ call \in [Call -> CallState] /\ CallInv(c)
  BY DEF IInv, TypeOK
<1>2. s.op = "get" /\ s.target \in Blob /\ s.height \in Height
  BY <1>1 DEF CallInv, ReadCommitment, ReadBlob, RereadBlob
<1>3. /\ SameAsked(s, t) /\ t.out = s.out
      /\ SameAsked(s, u) /\ u.out = s.out
  BY <1>1 DEF SameAsked, CallState
<1>4. \/ call' = [call EXCEPT ![c] = t] \/ call' = [call EXCEPT ![c] = u]
      \/ \E out \in {"indexNotSet", "ok"} : call' = [call EXCEPT ![c] = Ended(s, out)]
      \/ data \notin {Nil, NoIndex} /\ call' = [call EXCEPT ![c] = Ended(v, "ok")]
      \/ /\ call' = [call EXCEPT ![c] = e]
         /\ s.target \notin commitment[s.height] \/ data = Nil
  BY DEF ReadCommitment, ReadBlob, RereadBlob
<1>5. CASE call' = [call EXCEPT ![c] = t] \/ call' = [call EXCEPT ![c] = u]
  <2> HIDE DEF t, u
  <2>1. Plain(c)
    BY <1>2, <1>3, <1>5, MoveIsPlain
  <2> QED BY <2>1, PlainAnswer
<1>6. CASE \E out \in {"indexNotSet", "ok"} : call' = [call EXCEPT ![c] = Ended(s, out)]
  <2>1. Plain(c)
    BY <1>2, <1>6, EndIsPlain
  <2> QED BY <2>1, PlainAnswer
<1>7. CASE data \notin {Nil, NoIndex} /\ call' = [call EXCEPT ![c] = Ended(v, "ok")]
  <2> DEFINE f == Ended(v, "ok")
  <2>1. data \in Nat
    BY <1>2, <1>7 DEF IInv, TypeOK
  <2> HIDE DEF data
  <2>2. v \in CallState /\ SameAsked(s, v)
    BY <1>1, <2>1 DEF CallState, SameAsked
  <2> HIDE DEF v
  <2>3. SameAsked(v, f) /\ f.out = "ok"
    BY <2>2, EndedKeeps
  <2> HIDE DEF f
  <2>4. SameAsked(s, f)
    BY <2>2, <2>3 DEF SameAsked
  <2>5. Plain(c)
    BY <1>2, <1>7, <2>3, <2>4, MoveIsPlain DEF f
  <2> QED BY <2>5, PlainAnswer
<1>8. CASE /\ call' = [call EXCEPT ![c] = e]
           /\ s.target \notin commitment[s.height] \/ data = Nil
  <2>1. SameAsked(s, e)
    BY <1>1, EndedKeeps
  <2> HIDE DEF e
  <2>2. call'[c] = e
    BY <1>1, <1>8
  <2>3. ASSUME s.knew PROVE s.target \notin Submitted(s.height)
    <3>1. s.height \in acked
      BY <2>3 DEF AnswerInv
    <3> QED BY <1>8, <3>1, AckedBlobs
  <2>4. ASSUME s.knew
        PROVE  s.height \in acked' /\ batch'[s.height] = batch[s.height]
    BY <2>4 DEF AnswerInv, AnswersStay
  <2> QED BY <1>2, <2>1, <2>2, <2>3, <2>4 DEF AnswerInv, SameAsked, Submitted
<1> QED BY <1>4, <1>5, <1>6, <1>7, <1>8

\* What a blob.GetAll lists of a namespace is all there is to list.
LEMMA ListedIsComplete ==
  ASSUME IInv, AckedComplete, NEW c \in Call, call[c].op = "getAll",
         call[c].height \in acked, Head(call[c].nss) \in Ns
  PROVE  Listed(c) = {b \in Submitted(call[c].height) : NsOf[b] = Head(call[c].nss)}
<1> DEFINE h == call[c].height
           n == Head(call[c].nss)
<1>1. h \in Height /\ n \in Ns
  BY DEF IInv, TypeOK
<1>2. Listed(c) = {b \in members[h][n] : blobData[h][b] # Nil}
  BY DEF Listed
<1>3. ASSUME NEW b \in members[h][n], blobData[h][b] # Nil
      PROVE  b \in Submitted(h) /\ NsOf[b] = n
  <2>1. b \in Blob
    BY <1>1 DEF IInv, TypeOK
  <2> QED BY <1>1, <1>3, <2>1 DEF IInv, TypeOK, HeightsHoldOneBatch
<1>4. ASSUME NEW b \in Submitted(h), NsOf[b] = n
      PROVE  b \in members[h][n] /\ blobData[h][b] # Nil
  BY <1>4, AckedBlobs
<1> HIDE DEF h, n
<1>5. {b \in members[h][n] : blobData[h][b] # Nil} = {b \in Submitted(h) : NsOf[b] = n}
  BY <1>3, <1>4
<1> QED BY <1>2, <1>5 DEF h, n

\* Listing one more namespace leaves the others; after the last one nothing that
\* was submitted is missing, and there is nothing else.
LEMMA GetAllAnswers ==
  ASSUME IInv, AckedComplete, AnswersStay, NEW c \in Call, AnswerInv(c), ReadMembers(c)
  PROVE  AnswerInv(c)'
<1> DEFINE s == call[c]
           n == Head(s.nss)
           rest == Tail(s.nss)
<1>1. s \in CallState /\ call \in [Call -> CallState] /\ CallInv(c) /\ s.pc = "members"
  BY DEF IInv, TypeOK, ReadMembers
<1>2. /\ s.nss \in Seq(Ns) /\ s.nss # <<>> /\ s.square \in Seq(Blob)
      /\ s.height \in Height
  BY <1>1 DEF CallInv, CallState
<1>3. n \in Ns /\ rest \in Seq(Ns) /\ n \in ToSet(s.nss) /\ ToSet(rest) \subseteq ToSet(s.nss)
  BY <1>2, HeadAndTail
<1>4. Listed(c) \in SUBSET Blob
  BY <1>2, <1>3 DEF Listed, IInv, TypeOK
<1>5. PICK reply \in Replies(Listed(c)) :
        LET w == [s EXCEPT !.nss = rest, !.square = @ \o reply]
        IN  call' = [call EXCEPT ![c] =
                       IF rest # <<>> THEN w
                       ELSE IF w.op = "getAll" THEN Ended(w, "ok")
                       ELSE [w EXCEPT !.pc = "storeEds"]]
  BY DEF ReadMembers
<1> DEFINE square == s.square \o reply
           u == [s EXCEPT !.nss = rest, !.square = square]
           store == [u EXCEPT !.pc = "storeEds"]
           e == Ended(u, "ok")
<1>6. call' = [call EXCEPT ![c] = IF rest # <<>> THEN u
                                  ELSE IF u.op = "getAll" THEN e
                                  ELSE store]
  BY <1>5
<1>7. reply \in Seq(Blob)
  BY <1>4, BlobReply
<1>8. square \in Seq(Blob) /\ ToSet(square) = ToSet(s.square) \cup Listed(c)
  BY <1>2, <1>7, PartsOfAConcatenation, RepliesAreComplete
<1> HIDE DEF square
<1>9. /\ u \in CallState /\ SameAsked(s, u) /\ u.out = s.out /\ u.asked = s.asked
      /\ u.nss = rest /\ u.square = square /\ u.pc = "members"
  BY <1>1, <1>3, <1>8 DEF CallState, SameAsked
<1> HIDE DEF u
<1>10. SameAsked(u, store) /\ store.out = u.out
  BY <1>9 DEF CallState, SameAsked
<1>11. /\ SameAsked(u, e) /\ e.out = "ok" /\ e.nss = <<>> /\ e.square = square
       /\ e.asked = s.asked
  BY <1>9, EndedKeeps
<1> HIDE DEF store, e
<1>12. CASE s.op # "getAll"
  <2>1. PICK t \in {u, store} : call' = [call EXCEPT ![c] = t]
    BY <1>6, <1>9, <1>12 DEF SameAsked
  <2>2. SameAsked(s, t) /\ t.out = s.out
    BY <1>9, <1>10, <2>1 DEF SameAsked
  <2>3. Plain(c)
    BY <1>12, <2>1, <2>2, MoveIsPlain
  <2> QED BY <2>3, PlainAnswer
<1>13. CASE s.op = "getAll" /\ s.knew
  <2>1. PICK t \in {u, e} : call'[c] = t /\ t.nss = rest
    BY <1>1, <1>6, <1>9, <1>11, <1>13 DEF SameAsked
  <2>2. /\ SameAsked(s, t) /\ t.asked = s.asked /\ t.square = square
        /\ ToSet(t.nss) = ToSet(rest)
    BY <1>9, <1>11, <2>1 DEF SameAsked
  <2>3. s.height \in acked /\ Gathered(s) /\ s.out # "ok"
    BY <1>1, <1>2, <1>13 DEF AnswerInv
  <2>4. Listed(c) = {b \in Submitted(s.height) : NsOf[b] = n}
    BY <1>3, <1>13, <2>3, ListedIsComplete
  <2>5. ToSet(t.square) \subseteq Wanted(s)
    BY <1>3, <1>8, <2>2, <2>3, <2>4 DEF Gathered, Wanted
  <2>6. ToSet(t.nss) \subseteq s.asked
    BY <1>3, <2>2, <2>3 DEF Gathered
  <2>7. ASSUME NEW b \in Wanted(s)
        PROVE  b \in ToSet(t.square) \/ NsOf[b] \in ToSet(t.nss)
    <3>1. CASE NsOf[b] = n
      BY <1>8, <2>2, <2>4, <3>1 DEF Wanted
    <3>2. CASE NsOf[b] # n
      <4>1. NsOf[b] \in ToSet(s.nss) => NsOf[b] \in ToSet(rest)
        BY <1>2, <3>2, HeadOrTail
      <4> QED BY <1>8, <2>2, <2>3, <4>1 DEF Gathered
    <3> QED BY <3>1, <3>2
  <2>8. s.height \in acked' /\ batch'[s.height] = batch[s.height]
    BY <2>3 DEF AnswersStay
  <2>9. t.out = "ok" => t.nss = <<>>
    BY <1>9, <1>11, <2>1, <2>3
  <2> HIDE DEF s, n, rest
  <2>10. Gathered(call[c])'
    BY <2>1, <2>2, <2>5, <2>6, <2>7, <2>8
       DEF Gathered, Wanted, Submitted, SameAsked
  <2> QED BY <1>13, <2>1, <2>2, <2>8, <2>9, <2>10 DEF AnswerInv, SameAsked
<1>14. CASE ~ s.knew
  <2>1. PICK t \in {u, e, store} : call'[c] = t
    BY <1>1, <1>6
  <2>2. ~ t.knew
    BY <1>9, <1>10, <1>11, <1>14, <2>1 DEF SameAsked
  <2> QED BY <2>1, <2>2 DEF AnswerInv
<1> QED BY <1>12, <1>13, <1>14

LEMMA FailReadAnswers ==
  ASSUME IInv, AnswersStay, NEW c \in Call, AnswerInv(c), FailRead(c)
  PROVE  AnswerInv(c)'
<1> DEFINE e == Ended(call[c], "redisError")
<1>1. call[c] \in CallState /\ call \in [Call -> CallState]
  BY DEF IInv, TypeOK
<1>2. call' = [call EXCEPT ![c] = e]
  BY DEF FailRead
<1>3. SameAsked(call[c], e) /\ e.pc = "done" /\ e.out = "redisError"
  BY <1>1, EndedKeeps
<1> HIDE DEF e
<1>4. call'[c] = e
  BY <1>1, <1>2
<1>5. call[c].knew =>
        call[c].height \in acked'
  BY DEF AnswerInv, AnswersStay
<1> QED BY <1>3, <1>4, <1>5 DEF AnswerInv, SameAsked

\* A call that begins is told of what has been answered by then.
LEMMA BeginningAnswers ==
  ASSUME IInv, AnswersStay, NEW c \in Call, Begin(c) \/ Finish(c)
  PROVE  AnswerInv(c)'
<1>1. call \in [Call -> CallState]
  BY DEF IInv, TypeOK
<1>2. ASSUME NEW t, call' = [call EXCEPT ![c] = t], ~ t.knew
      PROVE  AnswerInv(c)'
  <2>1. call'[c] = t
    BY <1>1, <1>2
  <2> QED BY <1>2, <2>1 DEF AnswerInv
<1>3. ASSUME NEW t, call' = [call EXCEPT ![c] = t], acked' = acked,
             t.knew => t.height \in acked, t.op \in {"get", "eds"}, t.out = "pending"
      PROVE  AnswerInv(c)'
  <2>1. call'[c] = t
    BY <1>1, <1>3
  <2> QED BY <1>3, <2>1 DEF AnswerInv
<1>4. CASE SubmitNothing(c)
  <2> DEFINE t == [Idle EXCEPT !.op = "submit", !.pc = "done", !.out = "ok"]
  <2>1. call' = [call EXCEPT ![c] = t] /\ ~ t.knew
    BY <1>4 DEF SubmitNothing, Idle
  <2> HIDE DEF t
  <2> QED BY <1>2, <2>1
<1>5. ASSUME NEW blobs \in Request, AssignHeight(c, blobs) PROVE AnswerInv(c)'
  <2> DEFINE t == [Idle EXCEPT !.op = "submit", !.pc = "setBlob",
                               !.height = currentHeight + 1, !.todo = blobs]
  <2>1. call' = [call EXCEPT ![c] = t] /\ ~ t.knew
    BY <1>5 DEF AssignHeight, Idle
  <2> HIDE DEF t
  <2> QED BY <1>2, <2>1
<1>6. ASSUME NEW h \in 0..MaxHeight, GetEds(c, h) PROVE AnswerInv(c)'
  <2> DEFINE knew == h \in acked
             t == [Idle EXCEPT !.op = "eds", !.pc = "eds", !.height = h, !.knew = knew]
  <2>1. call' = [call EXCEPT ![c] = t] /\ acked' = acked
    BY <1>6 DEF GetEds, historyVars
  <2> HIDE DEF knew
  <2>2. t.knew = knew /\ t.height = h /\ t.op = "eds" /\ t.out = "pending"
    BY DEF Idle
  <2> HIDE DEF t
  <2> QED BY <1>3, <2>1, <2>2 DEF knew
<1>7. ASSUME NEW h \in 0..MaxHeight, NEW b \in Blob, GetBlob(c, h, b)
      PROVE  AnswerInv(c)'
  <2> DEFINE knew == h \in acked
             t == [Idle EXCEPT !.op = "get", !.pc = "eds", !.height = h, !.target = b,
                               !.knew = knew]
  <2>1. call' = [call EXCEPT ![c] = t] /\ acked' = acked
    BY <1>7 DEF GetBlob, historyVars
  <2> HIDE DEF knew
  <2>2. t.knew = knew /\ t.height = h /\ t.op = "get" /\ t.out = "pending"
    BY DEF Idle
  <2> HIDE DEF t
  <2> QED BY <1>3, <2>1, <2>2 DEF knew
<1>8. ASSUME NEW h \in Height, NEW nss \in NsList, GetAll(c, h, nss)
      PROVE  AnswerInv(c)'
  <2> DEFINE knew == h \in acked
             asked == ToSet(nss)
             p == IF nss = <<>> THEN "done" ELSE "members"
             o == IF nss = <<>> THEN "ok" ELSE "pending"
             t == [Idle EXCEPT !.op = "getAll", !.height = h, !.nss = nss, !.pc = p,
                               !.out = o, !.asked = asked, !.knew = knew]
  <2>1. call' = [call EXCEPT ![c] = t] /\ acked' = acked
    BY <1>8 DEF GetAll, historyVars
  <2>2. o = "ok" => nss = <<>>
    OBVIOUS
  <2> HIDE DEF knew, asked, p, o
  <2>3. /\ t.knew = knew /\ t.height = h /\ t.op = "getAll" /\ t.out = o
        /\ t.nss = nss /\ t.square = <<>> /\ t.asked = asked
    BY DEF Idle
  <2> HIDE DEF t
  <2>4. call'[c] = t
    BY <1>1, <2>1
  <2>5. ToSet(<<>>) = {}
    BY DEF ToSet
  <2>6. Gathered(call[c])'
    BY <2>3, <2>4, <2>5 DEF Gathered, Wanted, asked
  <2> QED BY <2>1, <2>2, <2>3, <2>4, <2>6 DEF AnswerInv, knew
<1>9. CASE Finish(c)
  <2>1. call' = [call EXCEPT ![c] = Idle] /\ ~ Idle.knew
    BY <1>9 DEF Finish, Idle
  <2> HIDE DEF Idle
  <2> QED BY <1>2, <2>1
<1> QED BY <1>4, <1>5, <1>6, <1>7, <1>8, <1>9 DEF Begin

-----------------------------------------------------------------------------
\* Only the slot of a call that takes a step changes.
LEMMA OneCallMoves ==
  ASSUME IInv, NEW c \in Call, Begin(c) \/ Step(c) \/ Fault(c) \/ Finish(c)
  PROVE  \A d \in Call : d # c => call'[d] = call[d]
<1>1. \E t : call' = [call EXCEPT ![c] = t]
  BY DEF Begin, Step, Fault, Finish, AfterWrite, SubmitNothing, AssignHeight, GetEds,
         GetBlob, GetAll, SetBlob, AddMember, SetCommitment, TrackNamespace,
         EdsHeightNotFound, ReadEds, ReadNamespaces, ReadMembers, PanicFromOds, StoreEds,
         IndexBlob, MapIndex, ReturnEds, ReadCommitment, ReadBlob, RereadBlob, FailRead,
         FailWrite, LoseWrite
<1> QED BY <1>1 DEF IInv, TypeOK

LEMMA AnswersInitially == Init => AInv
<1> SUFFICES ASSUME Init PROVE AInv
  OBVIOUS
<1>1. LedgerInv
  BY LedgerInitially
<1>2. AckedComplete
  BY DEF Init, AckedComplete
<1>3. \A c \in Call : AnswerInv(c)
  BY DEF Init, Idle, AnswerInv
<1> QED BY <1>1, <1>2, <1>3 DEF AInv

LEMMA AnswersInductive == AInv /\ [Next]_vars => AInv'
<1> SUFFICES ASSUME AInv, [Next]_vars PROVE AInv'
  OBVIOUS
<1>1. LedgerInv /\ IInv /\ AckedComplete /\ \A c \in Call : AnswerInv(c)
  BY DEF AInv, LedgerInv
<1>2. LedgerInv' /\ [Ledger!Next]_(Ledger!ledger)
  BY <1>1, LedgerInductive
<1>3. AckedComplete' /\ AnswersStay
  BY <1>1, <1>2, LedgerKeepsAnswers
<1>4. ASSUME NEW c \in Call, Begin(c) \/ Step(c) \/ Fault(c) \/ Finish(c)
      PROVE  \A d \in Call : AnswerInv(d)'
  <2>1. ASSUME NEW d \in Call, d # c PROVE AnswerInv(d)'
    <3>1. call'[d] = call[d]
      BY <1>1, <1>4, <2>1, OneCallMoves
    <3> QED BY <1>1, <1>3, <3>1, OtherAnswers
  <2>2. AnswerInv(c)'
    <3>1. CASE Begin(c) \/ Finish(c)
      BY <1>1, <1>3, <3>1, BeginningAnswers
    <3>2. CASE ReadCommitment(c) \/ ReadBlob(c) \/ RereadBlob(c)
      BY <1>1, <1>3, <3>2, GetAnswers
    <3>3. CASE ReadMembers(c)
      BY <1>1, <1>3, <3>3, GetAllAnswers
    <3>4. CASE FailRead(c)
      BY <1>1, <1>3, <3>4, FailReadAnswers
    <3>5. CASE /\ Step(c) \/ Fault(c)
               /\ ~ (ReadCommitment(c) \/ ReadBlob(c) \/ RereadBlob(c))
               /\ ~ ReadMembers(c) /\ ~ FailRead(c)
      <4>1. Plain(c)
        BY <1>1, <3>5, StoringIsPlain, SquareIsPlain, ReadingIsPlain DEF Step, Fault
      <4> QED BY <1>1, <1>3, <4>1, PlainAnswer
    <3> QED BY <1>4, <3>1, <3>2, <3>3, <3>4, <3>5
  <2> QED BY <2>1, <2>2
<1>5. CASE UNCHANGED vars
  <2>1. \A c \in Call : call'[c] = call[c]
    BY <1>5 DEF vars
  <2> QED BY <1>1, <1>2, <1>3, <2>1, OtherAnswers DEF AInv
<1>6. CASE Next
  BY <1>2, <1>3, <1>4, <1>6 DEF Next, AInv
<1> QED BY <1>5, <1>6

\* Once a submit has been answered, a blob.Get of one of its blobs never says
\* that there is none, and a blob.GetAll of its namespaces returns all of them
\* and nothing else, whatever other calls, failures and late writes do.
THEOREM AnswersCorrect == Spec => []AckedBlobsAreFound
<1>1. Spec => []AInv
  BY AnswersInitially, AnswersInductive, PTL DEF Spec
<1>2. AInv => AckedBlobsAreFound
  <2> SUFFICES ASSUME AInv, NEW c \in Call, call[c].knew
               PROVE  LET s == call[c] IN
                      /\ s.op = "get" /\ s.target \in Submitted(s.height) =>
                           s.out # "blobNotFound"
                      /\ s.op = "getAll" /\ s.out = "ok" =>
                           ToSet(s.square) = {b \in Submitted(s.height) : NsOf[b] \in s.asked}
    BY DEF AckedBlobsAreFound
  <2>1. AnswerInv(c)
    BY DEF AInv
  <2>2. ToSet(<<>>) = {}
    BY DEF ToSet
  <2> QED BY <2>1, <2>2 DEF AnswerInv, Gathered, Wanted
<1> QED BY <1>1, <1>2, PTL
=============================================================================
