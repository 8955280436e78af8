-------------------------- MODULE BlobStoreProofs --------------------------
(***************************************************************************)
(* Safety of BlobStore for every set of calls, blobs and requests and      *)
(* every bound.                                                            *)
(*                                                                         *)
(* The invariants of the store are not inductive by themselves: what a     *)
(* call may write next depends on what it has written before, and on the   *)
(* height it was given.  CallInv says what a call relies on at each place, *)
(* and Grows why no step of another call takes it away.                    *)
(***************************************************************************)
EXTENDS BlobStore, FiniteSetTheorems, TLAPS

-----------------------------------------------------------------------------
(* Sequences.                                                              *)

\* The first blob of a vector that is not empty, and the rest of it, are of
\* the vector.
LEMMA HeadAndTail ==
  ASSUME NEW S, NEW s \in Seq(S), s # <<>>
  PROVE  /\ Head(s) \in S /\ Tail(s) \in Seq(S)
         /\ Head(s) \in ToSet(s) /\ ToSet(Tail(s)) \subseteq ToSet(s)
<1>1. Len(s) \in Nat /\ Len(s) > 0 /\ DOMAIN s = 1..Len(s)
  OBVIOUS
<1>2. Head(s) = s[1] /\ Tail(s) \in Seq(S) /\ s[1] \in S
  BY <1>1
<1>3. Head(s) \in ToSet(s)
  BY <1>1, <1>2 DEF ToSet
<1>4. ToSet(Tail(s)) \subseteq ToSet(s)
  <2> SUFFICES ASSUME NEW i \in DOMAIN Tail(s) PROVE Tail(s)[i] \in ToSet(s)
    BY DEF ToSet
  <2>1. DOMAIN Tail(s) = 1..(Len(s) - 1) /\ Tail(s)[i] = s[i + 1]
    BY <1>1
  <2>2. i + 1 \in DOMAIN s
    BY <1>1, <2>1
  <2> QED BY <2>1, <2>2 DEF ToSet
<1> QED BY <1>2, <1>3, <1>4

\* A reply to SMEMBERS is a sequence of the members of the set.
LEMMA RepliesAreSequences ==
  ASSUME NEW T, NEW S \in SUBSET T, IsFiniteSet(S), NEW r \in Replies(S)
  PROVE  r \in Seq(T)
<1>1. Cardinality(S) \in Nat
  BY FS_CardinalityType
<1>2. r \in [1..Cardinality(S) -> S]
  BY DEF Replies, Bijection, Injection
<1>3. r \in [1..Cardinality(S) -> T]
  BY <1>2
<1> QED BY <1>1, <1>3

-----------------------------------------------------------------------------
(* The inductive invariant.                                                *)

\* At these places a call is at work on a height it has found taken.
AtWork(s) == s.pc \notin {"idle", "done", "eds"} /\ s.op # "getAll"

\* What a call has at each place, and what the write before has left in Redis.
CallInv(c) ==
  LET s == call[c]
      b == Head(s.todo)
  IN
  /\ s.op = "get" => s.target \in Blob
  /\ s.op = "getAll" => s.pc \in {"members", "done"}
  /\ s.pc = "readBlob" => s.op = "get"
  /\ s.pc \notin {"idle", "done", "eds"} => s.height \in Height
  /\ AtWork(s) => s.height <= currentHeight
  /\ s.pc \in SubmitPc \cup {"indexBlob", "mapIndex"} => s.todo # <<>>
  /\ s.pc = "members" => s.nss # <<>>
  /\ s.pc \in SubmitPc => ToSet(s.todo) \subseteq Submitted(s.height)
  /\ s.pc = "addMember" => blobData[s.height][b] # Nil
  /\ s.pc = "setCommitment" => b \in members[s.height][NsOf[b]]
  /\ s.pc = "trackNamespace" => b \in commitment[s.height]

\* A step of any call keeps what the others rely on: heights are only taken,
\* what is stored stays, and the vector of a taken height stays the same.
Grow ==
  /\ currentHeight' >= currentHeight
  /\ \A h \in Height : h <= currentHeight => batch'[h] = batch[h]
  /\ \A h \in Height, b \in Blob : blobData[h][b] # Nil => blobData'[h][b] # Nil
  /\ \A h \in Height, n \in Ns : members[h][n] \subseteq members'[h][n]
  /\ \A h \in Height : commitment[h] \subseteq commitment'[h]

IInv ==
  /\ TypeOK
  /\ \A c \in Call : CallInv(c)
  /\ NothingAboveCurrentHeight
  /\ IndexesFollowData
  /\ HeightsHoldOneBatch

-----------------------------------------------------------------------------
(* Steps in general.                                                       *)

\* A call that ends is a call, of the same operation.
LEMMA EndedIsACall ==
  ASSUME NEW s \in CallState, NEW out \in Outcome
  PROVE  /\ Ended(s, out) \in CallState
         /\ Ended(s, out).pc = "done"
         /\ Ended(s, out).op = s.op
         /\ Ended(s, out).target = s.target
<1> DEFINE s1 == [s EXCEPT !.pc = "done"]
           s2 == [s1 EXCEPT !.out = out]
           s3 == [s2 EXCEPT !.todo = <<>>]
           s4 == [s3 EXCEPT !.nss = <<>>]
           s5 == [s4 EXCEPT !.next = 0]
<1>0. <<>> \in Seq(Blob) /\ <<>> \in Seq(Ns)
  OBVIOUS
<1>1. s1 \in CallState /\ s1.pc = "done" /\ s1.op = s.op /\ s1.target = s.target
  BY DEF CallState, Pc
<1> HIDE DEF s1
<1>2. s2 \in CallState /\ s2.pc = "done" /\ s2.op = s.op /\ s2.target = s.target
  BY <1>1 DEF CallState
<1> HIDE DEF s2
<1>3. s3 \in CallState /\ s3.pc = "done" /\ s3.op = s.op /\ s3.target = s.target
  BY <1>0, <1>2 DEF CallState
<1> HIDE DEF s3
<1>4. s4 \in CallState /\ s4.pc = "done" /\ s4.op = s.op /\ s4.target = s.target
  BY <1>0, <1>3 DEF CallState
<1> HIDE DEF s4
<1>5. s5 \in CallState /\ s5.pc = "done" /\ s5.op = s.op /\ s5.target = s.target
  BY <1>4 DEF CallState
<1>6. Ended(s, out) = s5
  BY DEF Ended, s1, s2, s3, s4
<1> QED BY <1>5, <1>6

\* A slot that no call has is in the state of a call.
LEMMA IdleIsACall == Idle \in CallState
<1>1. <<>> \in Seq(Blob) /\ <<>> \in Seq(Ns)
  OBVIOUS
<1> QED BY <1>1, StoreAssumption DEF Idle, CallState, Pc, Outcome

\* A call that has ended, or waits at the height check, relies on nothing.
LEMMA RestingCall ==
  ASSUME NEW c \in Call, call'[c].pc \in {"done", "eds"},
         call'[c].op = "get" => call'[c].target \in Blob,
         call'[c].op = "getAll" => call'[c].pc = "done"
  PROVE  CallInv(c)'
BY DEF CallInv, AtWork, SubmitPc

\* What a call relies on is kept by every step that is not its own.
LEMMA OtherCalls ==
  ASSUME TypeOK, TypeOK', Grow, NEW c \in Call, CallInv(c), call'[c] = call[c]
  PROVE  CallInv(c)'
<1> DEFINE s == call[c]
           b == Head(s.todo)
<1>1. s \in CallState /\ currentHeight \in Nat /\ currentHeight' \in Nat
  BY DEF TypeOK
<1>2. s.height \in Nat /\ s.todo \in Seq(Blob)
  BY <1>1 DEF CallState
<1>3. ASSUME s.pc \in SubmitPc
      PROVE  /\ b \in Blob /\ s.height \in Height /\ s.height <= currentHeight
             /\ NsOf[b] \in Ns
  <2>1. s.pc \notin {"idle", "done", "eds", "members"}
    BY <1>3 DEF SubmitPc
  <2>2. s.height \in Height /\ s.height <= currentHeight
    BY <2>1 DEF CallInv, AtWork
  <2>3. b \in Blob
    BY <1>2, <1>3, HeadAndTail DEF CallInv
  <2> QED BY <2>2, <2>3 DEF Ns
<1>4. AtWork(s) => s.height <= currentHeight'
  BY <1>1, <1>2 DEF CallInv, Grow
<1>5. s.pc \in SubmitPc => ToSet(s.todo) \subseteq Submitted(s.height)'
  BY <1>3 DEF CallInv, Grow, Submitted
<1>6. s.pc = "addMember" => blobData'[s.height][b] # Nil
  BY <1>3 DEF CallInv, Grow, SubmitPc
<1>7. s.pc = "setCommitment" => b \in members'[s.height][NsOf[b]]
  BY <1>3 DEF CallInv, Grow, SubmitPc
<1>8. s.pc = "trackNamespace" => b \in commitment'[s.height]
  BY <1>3 DEF CallInv, Grow, SubmitPc
<1> QED BY <1>4, <1>5, <1>6, <1>7, <1>8 DEF CallInv, AtWork

\* A step that writes nothing to Redis keeps the invariant if the call that
\* takes it is left with what it relies on.
LEMMA QuietStep ==
  ASSUME IInv, NEW c \in Call, NEW s \in CallState, call' = [call EXCEPT ![c] = s],
         UNCHANGED <<currentHeight, redisVars, batch, acked, layouts>>,
         faults' \in 0..MaxFaults, early' \subseteq Height, cut' \subseteq Height, CallInv(c)'
  PROVE  IInv'
<1>1. TypeOK'
  BY DEF IInv, TypeOK, redisVars
<1>2. Grow
  BY DEF IInv, TypeOK, Grow, redisVars
<1>3. \A d \in Call : CallInv(d)'
  <2> SUFFICES ASSUME NEW d \in Call, d # c PROVE CallInv(d)'
    OBVIOUS
  <2>1. call'[d] = call[d]
    BY DEF IInv, TypeOK
  <2> QED BY <1>1, <1>2, <2>1, OtherCalls DEF IInv
<1>4. NothingAboveCurrentHeight' /\ IndexesFollowData' /\ HeightsHoldOneBatch'
  BY DEF IInv, NothingAboveCurrentHeight, IndexesFollowData, HeightsHoldOneBatch,
         Submitted, redisVars
<1> QED BY <1>1, <1>3, <1>4 DEF IInv

\* A step after which the call has ended without a write is such a step.
LEMMA EndingStep ==
  ASSUME IInv, NEW c \in Call, NEW s \in CallState, NEW out \in Outcome,
         s.op = call[c].op, s.target = call[c].target,
         call' = [call EXCEPT ![c] = Ended(s, out)],
         UNCHANGED <<currentHeight, redisVars, historyVars>>,
         faults' \in 0..MaxFaults
  PROVE  IInv'
<1> DEFINE e == Ended(s, out)
<1>1. /\ e \in CallState /\ e.pc = "done" /\ e.op = call[c].op
      /\ e.target = call[c].target
  BY EndedIsACall
<1>2. call'[c] = e
  BY DEF IInv, TypeOK
<1>3. CallInv(c)
  BY DEF IInv
<1>4. CallInv(c)'
  BY <1>1, <1>2, <1>3, RestingCall DEF CallInv
<1>5. early' \subseteq Height /\ cut' \subseteq Height /\ UNCHANGED <<batch, acked, layouts>>
  BY DEF IInv, TypeOK, historyVars
<1> QED BY <1>1, <1>4, <1>5, QuietStep

\* What is left of a call by a write: what its action makes of it, or, if it
\* had given up on the write, an ended call.
LEMMA CallAfterWrite ==
  ASSUME TypeOK, NEW c \in Call, NEW s \in CallState, AfterWrite(c, s)
  PROVE  /\ call' \in [Call -> CallState]
         /\ \A d \in Call : d # c => call'[d] = call[d]
         /\ \/ call'[c] = s
            \/ /\ call'[c].pc = "done"
               /\ call'[c].op = call[c].op /\ call'[c].target = call[c].target
<1> DEFINE e == Ended(call[c], "redisError")
<1>1. call[c] \in CallState /\ "redisError" \in Outcome
  BY DEF TypeOK, Outcome
<1>2. e \in CallState /\ e.pc = "done" /\ e.op = call[c].op /\ e.target = call[c].target
  BY <1>1, EndedIsACall
<1>3. CASE Abandoned(c)
  <2>1. call' = [call EXCEPT ![c] = e]
    BY <1>3 DEF AfterWrite
  <2> HIDE DEF e
  <2> QED BY <1>2, <2>1 DEF TypeOK
<1>4. CASE ~ Abandoned(c)
  <2>1. call' = [call EXCEPT ![c] = s]
    BY <1>4 DEF AfterWrite
  <2> QED BY <2>1 DEF TypeOK
<1> QED BY <1>3, <1>4

\* A write keeps the invariant if it keeps what the other calls rely on, leaves
\* its own call with what that relies on, and keeps the invariants of the store.
LEMMA WriteStep ==
  ASSUME IInv, NEW c \in Call, TypeOK', Grow, CallInv(c)',
         \A d \in Call : d # c => call'[d] = call[d],
         NothingAboveCurrentHeight', IndexesFollowData', HeightsHoldOneBatch'
  PROVE  IInv'
<1>1. \A d \in Call : CallInv(d)'
  <2> SUFFICES ASSUME NEW d \in Call, d # c PROVE CallInv(d)'
    OBVIOUS
  <2> QED BY OtherCalls DEF IInv
<1> QED BY <1>1 DEF IInv

\* The blob a submit is about to store, and its height.
LEMMA SubmitPlace ==
  ASSUME IInv, NEW c \in Call, call[c].pc \in SubmitPc
  PROVE  LET s == call[c]
             b == Head(s.todo)
         IN  /\ s \in CallState /\ s.todo \in Seq(Blob) /\ s.todo # <<>>
             /\ b \in Blob /\ NsOf[b] \in Ns /\ b \in Submitted(s.height)
             /\ s.height \in Height /\ s.height <= currentHeight
             /\ Tail(s.todo) \in Seq(Blob)
             /\ ToSet(s.todo) \subseteq Submitted(s.height)
             /\ ToSet(Tail(s.todo)) \subseteq Submitted(s.height)
             /\ s.op # "getAll" /\ (s.op = "get" => s.target \in Blob)
<1> DEFINE s == call[c]
           b == Head(s.todo)
<1>1. CallInv(c) /\ s \in CallState
  BY DEF IInv, TypeOK
<1>2. s.pc \notin {"idle", "done", "eds", "members"}
  BY DEF SubmitPc
<1>3. s.todo \in Seq(Blob) /\ s.todo # <<>> /\ ToSet(s.todo) \subseteq Submitted(s.height)
  BY <1>1 DEF CallInv, CallState
<1>4. /\ b \in Blob /\ Tail(s.todo) \in Seq(Blob)
      /\ b \in ToSet(s.todo) /\ ToSet(Tail(s.todo)) \subseteq ToSet(s.todo)
  BY <1>3, HeadAndTail
<1>5. s.op # "getAll" /\ (s.op = "get" => s.target \in Blob)
  BY <1>1, <1>2 DEF CallInv
<1>6. s.height \in Height /\ s.height <= currentHeight
  BY <1>1, <1>2, <1>5 DEF CallInv, AtWork
<1>7. NsOf[b] \in Ns
  BY <1>4 DEF Ns
<1> QED BY <1>1, <1>3, <1>4, <1>5, <1>6, <1>7

-----------------------------------------------------------------------------
(* The writes of blob.Submit.                                              *)

LEMMA SetBlobStep ==
  ASSUME IInv, NEW c \in Call, SetBlob(c)
  PROVE  IInv'
<1> DEFINE s == call[c]
           h == s.height
           b == Head(s.todo)
           t == [s EXCEPT !.pc = "addMember"]
<1>1. /\ s \in CallState /\ b \in Blob /\ b \in Submitted(h) /\ s.todo # <<>>
      /\ h \in Height /\ h <= currentHeight
      /\ ToSet(s.todo) \subseteq Submitted(h)
      /\ s.op # "getAll" /\ (s.op = "get" => s.target \in Blob)
  BY SubmitPlace DEF SetBlob, SubmitPc
<1>2. t \in CallState
  BY <1>1 DEF CallState, Pc, SubmitPc
<1>3. /\ call' \in [Call -> CallState]
      /\ \A d \in Call : d # c => call'[d] = call[d]
      /\ \/ call'[c] = t
         \/ call'[c].pc = "done" /\ call'[c].op = s.op /\ call'[c].target = s.target
  BY <1>2, CallAfterWrite DEF SetBlob, IInv
<1>4. ClientIndex[b] \in Nat \cup {NoIndex} /\ ClientIndex[b] # Nil
  BY <1>1, StoreAssumption
<1>5. /\ blobData' = [blobData EXCEPT ![h][b] = ClientIndex[b]]
      /\ UNCHANGED <<currentHeight, members, commitment, heightNs, eds, blobIndex,
                     faults, historyVars>>
  BY DEF SetBlob
<1>6. TypeOK /\ TypeOK'
  BY <1>1, <1>3, <1>4, <1>5 DEF IInv, TypeOK, historyVars
<1>7. \A g \in Height, z \in Blob :
        blobData'[g][z] = IF g = h /\ z = b THEN ClientIndex[b] ELSE blobData[g][z]
  BY <1>1, <1>5, <1>6 DEF TypeOK
<1>8. Grow
  BY <1>4, <1>5, <1>6, <1>7 DEF Grow, TypeOK, historyVars
<1>9. NothingAboveCurrentHeight'
  BY <1>1, <1>5, <1>6, <1>7 DEF IInv, NothingAboveCurrentHeight, TypeOK, Height
<1>10. IndexesFollowData'
  BY <1>4, <1>5, <1>6, <1>7 DEF IInv, IndexesFollowData, TypeOK
<1>11. HeightsHoldOneBatch'
  BY <1>1, <1>5, <1>7 DEF IInv, HeightsHoldOneBatch, Submitted, historyVars
<1>12. CallInv(c)'
  <2>1. CASE call'[c] = t
    <3>1. /\ t.pc = "addMember" /\ t.op = s.op /\ t.height = h
          /\ t.todo = s.todo /\ t.target = s.target
      BY <1>1 DEF CallState
    <3>2. blobData'[h][b] # Nil
      BY <1>1, <1>4, <1>7
    <3> HIDE DEF t
    <3> QED BY <1>1, <1>5, <2>1, <3>1, <3>2
            DEF CallInv, AtWork, SubmitPc, Submitted, historyVars
  <2>2. CASE call'[c].pc = "done" /\ call'[c].op = s.op /\ call'[c].target = s.target
    BY <1>1, <2>2, RestingCall
  <2> QED BY <1>3, <2>1, <2>2
<1> QED BY <1>3, <1>6, <1>8, <1>9, <1>10, <1>11, <1>12, WriteStep

LEMMA AddMemberStep ==
  ASSUME IInv, NEW c \in Call, AddMember(c)
  PROVE  IInv'
<1> DEFINE s == call[c]
           h == s.height
           b == Head(s.todo)
           t == [s EXCEPT !.pc = "setCommitment"]
<1>1. /\ s \in CallState /\ b \in Blob /\ NsOf[b] \in Ns /\ s.todo # <<>>
      /\ h \in Height /\ h <= currentHeight
      /\ ToSet(s.todo) \subseteq Submitted(h)
      /\ s.op # "getAll" /\ (s.op = "get" => s.target \in Blob)
  BY SubmitPlace DEF AddMember, SubmitPc
<1>2. t \in CallState
  BY <1>1 DEF CallState, Pc, SubmitPc
<1>3. /\ call' \in [Call -> CallState]
      /\ \A d \in Call : d # c => call'[d] = call[d]
      /\ \/ call'[c] = t
         \/ call'[c].pc = "done" /\ call'[c].op = s.op /\ call'[c].target = s.target
  BY <1>2, CallAfterWrite DEF AddMember, IInv
<1>4. blobData[h][b] # Nil
  BY DEF IInv, CallInv, AddMember
<1>5. /\ members' = [members EXCEPT ![h][NsOf[b]] = @ \cup {b}]
      /\ UNCHANGED <<currentHeight, blobData, commitment, heightNs, eds, blobIndex,
                     faults, historyVars>>
  BY DEF AddMember
<1>6. /\ members' \in [Height -> [Ns -> SUBSET Blob]]
      /\ \A g \in Height, n \in Ns, z \in Blob :
           z \in members'[g][n] <=>
             z \in members[g][n] \/ (g = h /\ n = NsOf[b] /\ z = b)
  <2> DEFINE m == [members[h] EXCEPT ![NsOf[b]] = @ \cup {b}]
  <2>1. members \in [Height -> [Ns -> SUBSET Blob]]
    BY DEF IInv, TypeOK
  <2>2. members[h] \in [Ns -> SUBSET Blob]
    BY <1>1, <2>1
  <2>3. m \in [Ns -> SUBSET Blob]
    BY <1>1, <2>2
  <2>4. ASSUME NEW n \in Ns, NEW z \in Blob
        PROVE  z \in m[n] <=> z \in members[h][n] \/ (n = NsOf[b] /\ z = b)
    BY <1>1, <2>2
  <2>5. members' = [members EXCEPT ![h] = m]
    BY <1>5
  <2> HIDE DEF m
  <2>6. ASSUME NEW g \in Height
        PROVE  members'[g] = IF g = h THEN m ELSE members[g]
    BY <1>1, <2>1, <2>5
  <2>7. members' \in [Height -> [Ns -> SUBSET Blob]]
    BY <1>1, <2>1, <2>3, <2>5
  <2>8. ASSUME NEW g \in Height, NEW n \in Ns, NEW z \in Blob
        PROVE  z \in members'[g][n] <=>
                 z \in members[g][n] \/ (g = h /\ n = NsOf[b] /\ z = b)
    <3>1. CASE g = h
      BY <2>4, <2>6, <3>1
    <3>2. CASE g # h
      BY <2>6, <3>2
    <3> QED BY <3>1, <3>2
  <2> QED BY <2>7, <2>8
<1> HIDE DEF s, h, b, t
<1>7. TypeOK /\ TypeOK'
  <2>1. TypeOK
    BY DEF IInv
  <2>2. \A g \in Height, n \in Ns, z \in Blob : z \in members'[g][n] => NsOf[z] = n
    BY <1>6, <2>1 DEF TypeOK
  <2> QED BY <1>3, <1>5, <1>6, <2>1, <2>2 DEF TypeOK, historyVars
<1>8. Grow
  BY <1>5, <1>6, <1>7 DEF Grow, TypeOK, historyVars
<1>9. NothingAboveCurrentHeight'
  BY <1>1, <1>5, <1>6, <1>7 DEF IInv, NothingAboveCurrentHeight, TypeOK, Height
<1>10. IndexesFollowData'
  BY <1>1, <1>4, <1>5, <1>6, <1>7 DEF IInv, IndexesFollowData, TypeOK
<1> USE DEF s, h, b, t
<1>11. HeightsHoldOneBatch'
  BY <1>5 DEF IInv, HeightsHoldOneBatch, Submitted, historyVars
<1>12. CallInv(c)'
  <2>1. CASE call'[c] = t
    <3>1. /\ t.pc = "setCommitment" /\ t.op = s.op /\ t.height = h
          /\ t.todo = s.todo /\ t.target = s.target
      BY <1>1 DEF CallState
    <3>2. b \in members'[h][NsOf[b]]
      BY <1>1, <1>6
    <3> HIDE DEF t
    <3> QED BY <1>1, <1>5, <2>1, <3>1, <3>2
            DEF CallInv, AtWork, SubmitPc, Submitted, historyVars
  <2>2. CASE call'[c].pc = "done" /\ call'[c].op = s.op /\ call'[c].target = s.target
    BY <1>1, <2>2, RestingCall
  <2> QED BY <1>3, <2>1, <2>2
<1> QED BY <1>3, <1>7, <1>8, <1>9, <1>10, <1>11, <1>12, WriteStep

LEMMA SetCommitmentStep ==
  ASSUME IInv, NEW c \in Call, SetCommitment(c)
  PROVE  IInv'
<1> DEFINE s == call[c]
           h == s.height
           b == Head(s.todo)
           t == [s EXCEPT !.pc = "trackNamespace"]
<1>1. /\ s \in CallState /\ b \in Blob /\ NsOf[b] \in Ns /\ s.todo # <<>>
      /\ h \in Height /\ h <= currentHeight
      /\ ToSet(s.todo) \subseteq Submitted(h)
      /\ s.op # "getAll" /\ (s.op = "get" => s.target \in Blob)
  BY SubmitPlace DEF SetCommitment, SubmitPc
<1>2. t \in CallState
  BY <1>1 DEF CallState, Pc, SubmitPc
<1>3. /\ call' \in [Call -> CallState]
      /\ \A d \in Call : d # c => call'[d] = call[d]
      /\ \/ call'[c] = t
         \/ call'[c].pc = "done" /\ call'[c].op = s.op /\ call'[c].target = s.target
  BY <1>2, CallAfterWrite DEF SetCommitment, IInv
<1>4. b \in members[h][NsOf[b]]
  BY DEF IInv, CallInv, SetCommitment
<1>5. /\ commitment' = [commitment EXCEPT ![h] = @ \cup {b}]
      /\ UNCHANGED <<currentHeight, blobData, members, heightNs, eds, blobIndex,
                     faults, historyVars>>
  BY DEF SetCommitment
<1>6. TypeOK /\ TypeOK'
  BY <1>1, <1>3, <1>5 DEF IInv, TypeOK, historyVars
<1>7. \A g \in Height :
        commitment'[g] = IF g = h THEN commitment[g] \cup {b} ELSE commitment[g]
  BY <1>1, <1>5, <1>6 DEF TypeOK
<1>8. Grow
  BY <1>5, <1>6, <1>7 DEF Grow, TypeOK, historyVars
<1>9. NothingAboveCurrentHeight'
  BY <1>1, <1>5, <1>6, <1>7 DEF IInv, NothingAboveCurrentHeight, TypeOK, Height
<1>10. IndexesFollowData'
  BY <1>1, <1>4, <1>5, <1>6, <1>7 DEF IInv, IndexesFollowData, TypeOK
<1>11. HeightsHoldOneBatch'
  BY <1>5 DEF IInv, HeightsHoldOneBatch, Submitted, historyVars
<1>12. CallInv(c)'
  <2>1. CASE call'[c] = t
    <3>1. /\ t.pc = "trackNamespace" /\ t.op = s.op /\ t.height = h
          /\ t.todo = s.todo /\ t.target = s.target
      BY <1>1 DEF CallState
    <3>2. b \in commitment'[h]
      BY <1>1, <1>7
    <3> HIDE DEF t
    <3> QED BY <1>1, <1>5, <2>1, <3>1, <3>2
            DEF CallInv, AtWork, SubmitPc, Submitted, historyVars
  <2>2. CASE call'[c].pc = "done" /\ call'[c].op = s.op /\ call'[c].target = s.target
    BY <1>1, <2>2, RestingCall
  <2> QED BY <1>3, <2>1, <2>2
<1> QED BY <1>3, <1>6, <1>8, <1>9, <1>10, <1>11, <1>12, WriteStep

LEMMA TrackNamespaceStep ==
  ASSUME IInv, NEW c \in Call, TrackNamespace(c)
  PROVE  IInv'
<1> DEFINE s == call[c]
           h == s.height
           b == Head(s.todo)
           rest == Tail(s.todo)
           next == [s EXCEPT !.pc = "setBlob", !.todo = rest]
           t == IF rest = <<>> THEN Ended(s, "ok") ELSE next
<1>1. /\ s \in CallState /\ b \in Blob /\ NsOf[b] \in Ns
      /\ h \in Height /\ h <= currentHeight /\ rest \in Seq(Blob)
      /\ ToSet(rest) \subseteq Submitted(h)
      /\ s.op # "getAll" /\ (s.op = "get" => s.target \in Blob)
  BY SubmitPlace DEF TrackNamespace, SubmitPc
<1>2. /\ next \in CallState /\ next.pc = "setBlob" /\ next.op = s.op
      /\ next.height = h /\ next.todo = rest /\ next.target = s.target
  BY <1>1 DEF CallState, Pc, SubmitPc
<1>3. /\ Ended(s, "ok") \in CallState /\ Ended(s, "ok").pc = "done"
      /\ Ended(s, "ok").op = s.op /\ Ended(s, "ok").target = s.target
  BY <1>1, EndedIsACall DEF Outcome
<1>4. b \in commitment[h]
  BY DEF IInv, CallInv, TrackNamespace
<1>5. /\ heightNs' = [heightNs EXCEPT ![h] = @ \cup {NsOf[b]}]
      /\ acked' = IF rest = <<>> /\ ~ Abandoned(c) THEN acked \cup {h} ELSE acked
      /\ UNCHANGED <<currentHeight, blobData, members, commitment, eds, blobIndex,
                     faults, batch, early, layouts, cut>>
      /\ AfterWrite(c, t)
  BY DEF TrackNamespace
<1> HIDE DEF next
<1>6. t \in CallState
  BY <1>2, <1>3
<1>7. /\ call' \in [Call -> CallState]
      /\ \A d \in Call : d # c => call'[d] = call[d]
      /\ \/ call'[c] = t
         \/ call'[c].pc = "done" /\ call'[c].op = s.op /\ call'[c].target = s.target
  BY <1>5, <1>6, CallAfterWrite DEF IInv
<1>8. CallInv(c)'
  <2>1. CASE call'[c] = next /\ rest # <<>>
    BY <1>1, <1>2, <1>5, <2>1 DEF CallInv, AtWork, SubmitPc, Submitted
  <2>2. CASE call'[c].pc = "done" /\ call'[c].op = s.op /\ call'[c].target = s.target
    BY <1>1, <2>2, RestingCall
  <2> QED BY <1>3, <1>7, <2>1, <2>2
<1> HIDE DEF s, h, b, rest, t
<1>9. TypeOK /\ TypeOK'
  <2>1. TypeOK
    BY DEF IInv
  <2> QED BY <1>1, <1>5, <1>7, <2>1 DEF TypeOK
<1>10. \A g \in Height : heightNs'[g] = IF g = h THEN heightNs[g] \cup {NsOf[b]}
                                        ELSE heightNs[g]
  BY <1>1, <1>5, <1>9 DEF TypeOK
<1>11. Grow
  BY <1>5, <1>9 DEF Grow, TypeOK
<1>12. NothingAboveCurrentHeight'
  BY <1>1, <1>5, <1>9, <1>10 DEF IInv, NothingAboveCurrentHeight, TypeOK, Height
<1>13. IndexesFollowData'
  BY <1>1, <1>4, <1>5, <1>9, <1>10 DEF IInv, IndexesFollowData, TypeOK
<1>14. HeightsHoldOneBatch'
  BY <1>5 DEF IInv, HeightsHoldOneBatch, Submitted
<1> QED BY <1>7, <1>8, <1>9, <1>11, <1>12, <1>13, <1>14, WriteStep

\* The new height has nothing stored at it, so it may be given to any vector.
LEMMA AssignHeightStep ==
  ASSUME IInv, NEW c \in Call, NEW blobs \in Request, AssignHeight(c, blobs)
  PROVE  IInv'
<1> DEFINE g == currentHeight + 1
           t == [Idle EXCEPT !.op = "submit", !.pc = "setBlob", !.height = g,
                             !.todo = blobs]
<1>1. /\ blobs # <<>> /\ currentHeight < MaxHeight
      /\ currentHeight' = g
      /\ call' = [call EXCEPT ![c] = t]
      /\ batch' = [batch EXCEPT ![g] = blobs]
      /\ UNCHANGED <<redisVars, faults, acked, early, layouts, cut>>
  BY DEF AssignHeight
<1>2. /\ currentHeight \in Nat /\ MaxHeight \in Nat /\ g \in Height
      /\ blobs \in Seq(Blob)
  BY <1>1, StoreAssumption DEF IInv, TypeOK, Height
<1>3. /\ t \in CallState /\ t.pc = "setBlob" /\ t.op = "submit"
      /\ t.height = g /\ t.todo = blobs
  <2>1. Idle \in CallState
    BY IdleIsACall
  <2>2. g \in 0..MaxHeight
    BY <1>2 DEF Height
  <2> HIDE DEF g
  <2> QED BY <1>2, <2>1, <2>2 DEF CallState, Pc, SubmitPc
<1> HIDE DEF t
<1>4. /\ TypeOK /\ call' \in [Call -> CallState] /\ call'[c] = t
      /\ \A d \in Call : d # c => call'[d] = call[d]
  BY <1>1, <1>3 DEF IInv, TypeOK
<1>5. /\ batch' \in [Height -> Seq(Blob)] /\ batch'[g] = blobs
      /\ \A h \in Height : h # g => batch'[h] = batch[h]
  BY <1>1, <1>2, <1>4 DEF TypeOK
<1>6. TypeOK'
  BY <1>1, <1>2, <1>4, <1>5 DEF TypeOK, redisVars, Height
<1>7. Grow
  BY <1>1, <1>2, <1>4, <1>5 DEF Grow, TypeOK, redisVars
<1>8. NothingAboveCurrentHeight'
  BY <1>1, <1>2 DEF IInv, NothingAboveCurrentHeight, redisVars, Height
<1>9. IndexesFollowData'
  BY <1>1 DEF IInv, IndexesFollowData, redisVars
<1>10. HeightsHoldOneBatch'
  <2> SUFFICES ASSUME NEW h \in Height, NEW b \in Blob, blobData[h][b] # Nil
               PROVE  b \in Submitted(h)'
    BY <1>1 DEF HeightsHoldOneBatch, redisVars
  <2>1. h # g
    BY <1>2 DEF IInv, NothingAboveCurrentHeight
  <2> QED BY <1>5, <2>1 DEF IInv, HeightsHoldOneBatch, Submitted
<1>11. CallInv(c)'
  <2>1. ToSet(t.todo) \subseteq ToSet(batch'[t.height])
    BY <1>3, <1>5
  <2> QED BY <1>1, <1>2, <1>3, <1>4, <2>1 DEF CallInv, AtWork, SubmitPc, Submitted
<1> QED BY <1>4, <1>6, <1>7, <1>8, <1>9, <1>10, <1>11, WriteStep

-----------------------------------------------------------------------------
(* The writes of get_eds_at_height.                                        *)

\* The height of a square about to be written, or indexed, is taken.
LEMMA SquarePlace ==
  ASSUME IInv, NEW c \in Call, call[c].pc \in {"storeEds", "indexBlob", "mapIndex"}
  PROVE  LET s == call[c]
         IN  /\ s \in CallState /\ s.todo \in Seq(Blob) /\ s.square \in Seq(Blob)
             /\ s.height \in Height /\ s.height <= currentHeight
             /\ s.op # "getAll" /\ (s.op = "get" => s.target \in Blob)
<1> DEFINE s == call[c]
<1>1. CallInv(c) /\ s \in CallState
  BY DEF IInv, TypeOK
<1>2. s.op # "getAll" /\ (s.op = "get" => s.target \in Blob)
  BY <1>1 DEF CallInv
<1>3. s.height \in Height /\ s.height <= currentHeight
  BY <1>1, <1>2 DEF CallInv, AtWork
<1> QED BY <1>1, <1>2, <1>3 DEF CallState

\* The blob whose index is about to be written.
LEMMA IndexPlace ==
  ASSUME IInv, NEW c \in Call, call[c].pc \in {"indexBlob", "mapIndex"}
  PROVE  LET s == call[c]
         IN  /\ s.todo # <<>> /\ Head(s.todo) \in Blob /\ Tail(s.todo) \in Seq(Blob)
             /\ s.next \in Nat
<1>1. CallInv(c) /\ call[c] \in CallState
  BY DEF IInv, TypeOK
<1>2. call[c].todo # <<>> /\ call[c].todo \in Seq(Blob) /\ call[c].next \in Nat
  BY <1>1 DEF CallInv, CallState
<1> QED BY <1>2, HeadAndTail

\* A call at work on a square relies on its height and on what is left to index.
LEMMA SquareCall ==
  ASSUME NEW c \in Call, call'[c].pc \in {"indexBlob", "mapIndex", "edsReturned"},
         call'[c].op # "getAll", call'[c].op = "get" => call'[c].target \in Blob,
         call'[c].height \in Height, call'[c].height <= currentHeight',
         call'[c].pc # "edsReturned" => call'[c].todo # <<>>
  PROVE  CallInv(c)'
BY DEF CallInv, AtWork, SubmitPc

LEMMA StoreEdsStep ==
  ASSUME IInv, NEW c \in Call, StoreEds(c)
  PROVE  IInv'
<1> DEFINE s == call[c]
           h == s.height
           layout == s.square
           place == IF layout = <<>> THEN "edsReturned" ELSE "indexBlob"
           t == [s EXCEPT !.todo = layout, !.next = 1, !.pc = place]
<1>1. /\ s \in CallState /\ layout \in Seq(Blob)
      /\ h \in Height /\ h <= currentHeight
      /\ s.op # "getAll" /\ (s.op = "get" => s.target \in Blob)
  BY SquarePlace DEF StoreEds
<1>2. /\ eds' = [eds EXCEPT ![h] = layout]
      /\ layouts' = [layouts EXCEPT ![h] = @ \cup {layout}]
      /\ AfterWrite(c, t)
      /\ UNCHANGED <<currentHeight, blobData, members, commitment, heightNs,
                     blobIndex, faults, batch, acked, early, cut>>
  BY DEF StoreEds
<1>3. place \in {"edsReturned", "indexBlob"} /\ (place # "edsReturned" => layout # <<>>)
  OBVIOUS
<1> HIDE DEF place
<1>4. /\ t \in CallState /\ t.pc = place /\ t.op = s.op
      /\ t.height = h /\ t.todo = layout /\ t.target = s.target
  BY <1>1, <1>3 DEF CallState, Pc, SquarePc
<1> HIDE DEF s, h, layout, t
<1>5. /\ call' \in [Call -> CallState]
      /\ \A d \in Call : d # c => call'[d] = call[d]
      /\ \/ call'[c] = t
         \/ call'[c].pc = "done" /\ call'[c].op = s.op /\ call'[c].target = s.target
  BY <1>2, <1>4, CallAfterWrite DEF IInv, s
<1>6. CallInv(c)'
  <2>1. CASE call'[c] = t
    BY <1>1, <1>2, <1>3, <1>4, <2>1, SquareCall
  <2>2. CASE call'[c].pc = "done" /\ call'[c].op = s.op /\ call'[c].target = s.target
    BY <1>1, <2>2, RestingCall
  <2> QED BY <1>5, <2>1, <2>2
<1>7. TypeOK /\ TypeOK'
  <2>1. TypeOK
    BY DEF IInv
  <2>2. eds' \in [Height -> Seq(Blob) \cup {Nil}]
    BY <1>1, <1>2, <2>1 DEF TypeOK
  <2>3. layouts' \in [Height -> SUBSET Seq(Blob)]
    BY <1>1, <1>2, <2>1 DEF TypeOK
  <2> QED BY <1>2, <1>5, <2>1, <2>2, <2>3 DEF TypeOK
<1>8. Grow
  BY <1>2, <1>7 DEF Grow, TypeOK
<1>9. NothingAboveCurrentHeight'
  BY <1>1, <1>2, <1>7 DEF IInv, NothingAboveCurrentHeight, TypeOK, Height
<1>10. IndexesFollowData' /\ HeightsHoldOneBatch'
  BY <1>2 DEF IInv, IndexesFollowData, HeightsHoldOneBatch, Submitted
<1> QED BY <1>5, <1>6, <1>7, <1>8, <1>9, <1>10, WriteStep

LEMMA IndexBlobStep ==
  ASSUME IInv, NEW c \in Call, IndexBlob(c)
  PROVE  IInv'
<1> DEFINE s == call[c]
           h == s.height
           b == Head(s.todo)
           t == [s EXCEPT !.pc = "mapIndex"]
<1>1. /\ s \in CallState /\ b \in Blob /\ s.todo # <<>> /\ s.next \in Nat
      /\ h \in Height /\ h <= currentHeight
      /\ s.op # "getAll" /\ (s.op = "get" => s.target \in Blob)
  BY SquarePlace, IndexPlace DEF IndexBlob
<1>2. /\ blobData' = [blobData EXCEPT ![h][b] = IF @ = Nil THEN Nil ELSE s.next]
      /\ AfterWrite(c, t)
      /\ UNCHANGED <<currentHeight, members, commitment, heightNs, eds, blobIndex,
                     faults, historyVars>>
  BY DEF IndexBlob
<1>3. /\ t \in CallState /\ t.pc = "mapIndex" /\ t.op = s.op
      /\ t.height = h /\ t.todo = s.todo /\ t.target = s.target
  BY <1>1 DEF CallState, Pc, SquarePc
<1> DEFINE new == IF blobData[h][b] = Nil THEN Nil ELSE s.next
<1>4. /\ blobData' = [blobData EXCEPT ![h][b] = new]
      /\ new \in Nat \cup {Nil} /\ (new = Nil <=> blobData[h][b] = Nil)
  BY <1>1, <1>2, StoreAssumption
<1>5. /\ call' \in [Call -> CallState]
      /\ \A d \in Call : d # c => call'[d] = call[d]
      /\ \/ call'[c] = t
         \/ call'[c].pc = "done" /\ call'[c].op = s.op /\ call'[c].target = s.target
  BY <1>2, <1>3, CallAfterWrite DEF IInv
<1> HIDE DEF s, h, b, t, new
<1>6. CallInv(c)'
  <2>1. CASE call'[c] = t
    BY <1>1, <1>2, <1>3, <2>1, SquareCall
  <2>2. CASE call'[c].pc = "done" /\ call'[c].op = s.op /\ call'[c].target = s.target
    BY <1>1, <2>2, RestingCall
  <2> QED BY <1>5, <2>1, <2>2
<1>7. TypeOK /\ TypeOK'
  <2>1. TypeOK
    BY DEF IInv
  <2> QED BY <1>1, <1>2, <1>4, <1>5, <2>1 DEF TypeOK, historyVars
<1>8. \A g \in Height, z \in Blob :
        blobData'[g][z] = IF g = h /\ z = b THEN new ELSE blobData[g][z]
  BY <1>1, <1>4, <1>7 DEF TypeOK
<1>9. \A g \in Height, z \in Blob : blobData'[g][z] = Nil <=> blobData[g][z] = Nil
  BY <1>4, <1>8
<1>10. Grow
  BY <1>2, <1>7, <1>9 DEF Grow, TypeOK, historyVars
<1>11. NothingAboveCurrentHeight'
  BY <1>2, <1>9 DEF IInv, NothingAboveCurrentHeight
<1>12. IndexesFollowData'
  BY <1>2, <1>7, <1>9 DEF IInv, IndexesFollowData, TypeOK
<1>13. HeightsHoldOneBatch'
  BY <1>2, <1>9 DEF IInv, HeightsHoldOneBatch, Submitted, historyVars
<1> QED BY <1>5, <1>6, <1>7, <1>10, <1>11, <1>12, <1>13, WriteStep

LEMMA MapIndexStep ==
  ASSUME IInv, NEW c \in Call, MapIndex(c)
  PROVE  IInv'
<1> DEFINE s == call[c]
           h == s.height
           b == Head(s.todo)
           rest == Tail(s.todo)
           place == IF rest = <<>> THEN "edsReturned" ELSE "indexBlob"
           cell == IF rest = <<>> THEN 0 ELSE s.next + Shares[b]
           t == [s EXCEPT !.todo = rest, !.next = cell, !.pc = place]
<1>1. /\ s \in CallState /\ b \in Blob /\ rest \in Seq(Blob) /\ s.next \in Nat
      /\ h \in Height /\ h <= currentHeight
      /\ s.op # "getAll" /\ (s.op = "get" => s.target \in Blob)
  BY SquarePlace, IndexPlace DEF MapIndex
<1>2. /\ blobIndex' = [blobIndex EXCEPT ![h][b] = s.next]
      /\ AfterWrite(c, t)
      /\ UNCHANGED <<currentHeight, blobData, members, commitment, heightNs, eds,
                     faults, historyVars>>
  BY DEF MapIndex
<1>3. /\ place \in {"edsReturned", "indexBlob"}
      /\ place # "edsReturned" => rest # <<>>
      /\ cell \in Nat
  <2>1. Shares[b] \in Nat
    BY <1>1, LayoutAssumption
  <2> HIDE DEF s, b, rest
  <2> QED BY <1>1, <2>1
<1> HIDE DEF place, cell
<1>4. /\ t \in CallState /\ t.pc = place /\ t.op = s.op
      /\ t.height = h /\ t.todo = rest /\ t.target = s.target
  BY <1>1, <1>3 DEF CallState, Pc, SquarePc
<1>5. /\ call' \in [Call -> CallState]
      /\ \A d \in Call : d # c => call'[d] = call[d]
      /\ \/ call'[c] = t
         \/ call'[c].pc = "done" /\ call'[c].op = s.op /\ call'[c].target = s.target
  BY <1>2, <1>4, CallAfterWrite DEF IInv
<1> HIDE DEF s, h, b, rest, t
<1>6. CallInv(c)'
  <2>1. CASE call'[c] = t
    BY <1>1, <1>2, <1>3, <1>4, <2>1, SquareCall
  <2>2. CASE call'[c].pc = "done" /\ call'[c].op = s.op /\ call'[c].target = s.target
    BY <1>1, <2>2, RestingCall
  <2> QED BY <1>5, <2>1, <2>2
<1>7. TypeOK /\ TypeOK'
  <2>1. TypeOK
    BY DEF IInv
  <2> QED BY <1>1, <1>2, <1>5, <2>1 DEF TypeOK, historyVars
<1>8. Grow
  BY <1>2, <1>7 DEF Grow, TypeOK, historyVars
<1>9. NothingAboveCurrentHeight'
  BY <1>1, <1>2, <1>7 DEF IInv, NothingAboveCurrentHeight, TypeOK, Height
<1>10. IndexesFollowData' /\ HeightsHoldOneBatch'
  BY <1>2 DEF IInv, IndexesFollowData, HeightsHoldOneBatch, Submitted, historyVars
<1> QED BY <1>5, <1>6, <1>7, <1>8, <1>9, <1>10, WriteStep

-----------------------------------------------------------------------------
(* The beginnings of calls that write nothing at once.                     *)

\* The history variables apart, a call that begins leaves everything alone.
LEMMA BeginningStep ==
  ASSUME IInv, NEW c \in Call, NEW s \in CallState, call' = [call EXCEPT ![c] = s],
         UNCHANGED <<currentHeight, redisVars, faults, historyVars>>, CallInv(c)'
  PROVE  IInv'
<1>1. faults' \in 0..MaxFaults /\ early' \subseteq Height /\ cut' \subseteq Height
  BY DEF IInv, TypeOK, historyVars
<1> QED BY <1>1, QuietStep DEF historyVars

LEMMA SubmitNothingStep ==
  ASSUME IInv, NEW c \in Call, SubmitNothing(c)
  PROVE  IInv'
<1> DEFINE t == [Idle EXCEPT !.op = "submit", !.pc = "done", !.out = "ok"]
<1>1. t \in CallState /\ t.pc = "done" /\ t.op = "submit"
  BY IdleIsACall DEF CallState, Pc, Outcome
<1> HIDE DEF t
<1>2. call' = [call EXCEPT ![c] = t]
      /\ UNCHANGED <<currentHeight, redisVars, faults, historyVars>>
  BY DEF SubmitNothing, t
<1>3. call'[c] = t
  BY <1>2 DEF IInv, TypeOK
<1>4. CallInv(c)'
  BY <1>1, <1>3, RestingCall
<1> QED BY <1>1, <1>2, <1>4, BeginningStep

LEMMA GetEdsStep ==
  ASSUME IInv, NEW c \in Call, NEW h \in 0..MaxHeight, GetEds(c, h)
  PROVE  IInv'
<1> DEFINE knew == h \in acked
           t == [Idle EXCEPT !.op = "eds", !.pc = "eds", !.height = h, !.knew = knew]
<1>0. knew \in BOOLEAN
  OBVIOUS
<1> HIDE DEF knew
<1>1. t \in CallState /\ t.pc = "eds" /\ t.op = "eds"
  BY <1>0, IdleIsACall DEF CallState, Pc, SquarePc
<1> HIDE DEF t
<1>2. call' = [call EXCEPT ![c] = t]
      /\ UNCHANGED <<currentHeight, redisVars, faults, historyVars>>
  BY DEF GetEds, t, knew
<1>3. call'[c] = t
  BY <1>2 DEF IInv, TypeOK
<1>4. CallInv(c)'
  BY <1>1, <1>3, RestingCall
<1> QED BY <1>1, <1>2, <1>4, BeginningStep

LEMMA GetBlobStep ==
  ASSUME IInv, NEW c \in Call, NEW h \in 0..MaxHeight, NEW b \in Blob,
         GetBlob(c, h, b)
  PROVE  IInv'
<1> DEFINE knew == h \in acked
           s == [Idle EXCEPT !.op = "get", !.pc = "eds"]
           t == [s EXCEPT !.height = h, !.target = b, !.knew = knew]
<1>0. knew \in BOOLEAN
  OBVIOUS
<1>1. s \in CallState /\ s.pc = "eds" /\ s.op = "get"
  BY IdleIsACall DEF CallState, Pc, SquarePc
<1>2. call' = [call EXCEPT ![c] = t]
      /\ UNCHANGED <<currentHeight, redisVars, faults, historyVars>>
  BY DEF GetBlob
<1> HIDE DEF knew, s
<1>3. t \in CallState /\ t.pc = "eds" /\ t.op = "get" /\ t.target = b
  BY <1>0, <1>1 DEF CallState
<1> HIDE DEF t
<1>4. call'[c] = t
  BY <1>2 DEF IInv, TypeOK
<1>5. CallInv(c)'
  BY <1>3, <1>4, RestingCall
<1> QED BY <1>2, <1>3, <1>5, BeginningStep

\* A call that lists namespaces relies on there being one left to list and, on
\* the way to a square, on its height.
LEMMA ListingCall ==
  ASSUME NEW c \in Call, call'[c].pc = "members", call'[c].nss # <<>>,
         call'[c].height \in Height,
         call'[c].op # "getAll" => call'[c].height <= currentHeight',
         call'[c].op = "get" => call'[c].target \in Blob
  PROVE  CallInv(c)'
BY DEF CallInv, AtWork, SubmitPc

LEMMA GetAllStep ==
  ASSUME IInv, NEW c \in Call, NEW h \in Height, NEW nss \in NsList,
         GetAll(c, h, nss)
  PROVE  IInv'
<1> DEFINE place == IF nss = <<>> THEN "done" ELSE "members"
           answer == IF nss = <<>> THEN "ok" ELSE "pending"
           knew == h \in acked
           asked == ToSet(nss)
           s == [Idle EXCEPT !.op = "getAll", !.height = h, !.nss = nss, !.pc = place]
           t == [s EXCEPT !.out = answer, !.asked = asked, !.knew = knew]
<1>1. /\ nss \in Seq(Ns) /\ asked \in SUBSET Ns /\ knew \in BOOLEAN
      /\ h \in 0..MaxHeight
  BY StoreAssumption DEF ToSet, Height
<1>2. /\ place \in {"done", "members"} /\ answer \in {"ok", "pending"}
      /\ place = "members" => nss # <<>>
  OBVIOUS
<1>3. call' = [call EXCEPT ![c] = t]
      /\ UNCHANGED <<currentHeight, redisVars, faults, historyVars>>
  BY DEF GetAll
<1> HIDE DEF place, answer, knew, asked
<1>4. /\ s \in CallState /\ s.pc = place /\ s.op = "getAll" /\ s.height = h
      /\ s.nss = nss
  BY <1>1, <1>2, IdleIsACall DEF CallState, Pc, SquarePc
<1> HIDE DEF s
<1>5. /\ t \in CallState /\ t.pc = place /\ t.op = "getAll" /\ t.height = h
      /\ t.nss = nss
  BY <1>1, <1>2, <1>4 DEF CallState, Outcome
<1> HIDE DEF t
<1>6. call'[c] = t
  BY <1>3 DEF IInv, TypeOK
<1>7. CallInv(c)'
  <2>1. CASE place = "done"
    BY <1>5, <1>6, <2>1, RestingCall
  <2>2. CASE place = "members"
    BY <1>2, <1>5, <1>6, <2>2, ListingCall
  <2> QED BY <1>2, <2>1, <2>2
<1> QED BY <1>3, <1>5, <1>7, BeginningStep

-----------------------------------------------------------------------------
(* The reads of get_eds_at_height, get_all_blobs and get_blob.             *)

\* What is known of any call before it goes on.
LEMMA CallFacts ==
  ASSUME IInv, NEW c \in Call
  PROVE  /\ call[c] \in CallState /\ CallInv(c) /\ TypeOK
         /\ call[c].op = "get" => call[c].target \in Blob
BY DEF IInv, TypeOK, CallInv

LEMMA EdsHeightNotFoundStep ==
  ASSUME IInv, NEW c \in Call, EdsHeightNotFound(c)
  PROVE  IInv'
<1>1. "headerNotFound" \in Outcome
  BY DEF Outcome
<1>2. call' = [call EXCEPT ![c] = Ended(call[c], "headerNotFound")]
      /\ UNCHANGED <<currentHeight, redisVars, faults, historyVars>>
  BY DEF EdsHeightNotFound
<1>3. call[c] \in CallState /\ faults' \in 0..MaxFaults
  BY <1>2 DEF IInv, TypeOK
<1> QED BY <1>1, <1>2, <1>3, EndingStep

LEMMA ReadEdsStep ==
  ASSUME IInv, NEW c \in Call, ReadEds(c)
  PROVE  IInv'
<1> DEFINE s == call[c]
           h == s.height
           miss == [s EXCEPT !.pc = "namespaces", !.square = <<>>]
           hit == [s EXCEPT !.pc = "edsReturned", !.square = eds[h]]
           t == IF eds[h] = Nil THEN miss ELSE hit
<1>1. /\ s \in CallState /\ CallInv(c) /\ TypeOK
      /\ s.op = "get" => s.target \in Blob
  BY CallFacts
<1>2. /\ call' = [call EXCEPT ![c] = t] /\ s.pc = "eds" /\ ~ HeightUnknown(h)
      /\ UNCHANGED <<currentHeight, redisVars, faults, historyVars>>
  BY DEF ReadEds
<1>3. h \in Height /\ h <= currentHeight /\ s.op # "getAll"
  BY <1>1, <1>2 DEF HeightUnknown, TypeOK, CallState, Height, CallInv
<1>4. eds[h] \in Seq(Blob) \cup {Nil} /\ <<>> \in Seq(Blob)
  BY <1>1, <1>3 DEF TypeOK
<1>5. /\ miss \in CallState /\ miss.pc = "namespaces" /\ miss.op = s.op
      /\ miss.height = h /\ miss.target = s.target
  BY <1>1, <1>4 DEF CallState, Pc, SquarePc
<1>6. ASSUME eds[h] # Nil
      PROVE  /\ hit \in CallState /\ hit.pc = "edsReturned" /\ hit.op = s.op
             /\ hit.height = h /\ hit.target = s.target
  BY <1>1, <1>4, <1>6 DEF CallState, Pc, SquarePc
<1> HIDE DEF miss, hit
<1>7. /\ t \in CallState /\ t.pc \in {"namespaces", "edsReturned"} /\ t.op = s.op
      /\ t.height = h /\ t.target = s.target
  BY <1>5, <1>6
<1> HIDE DEF t
<1>8. call'[c] = t
  BY <1>1, <1>2 DEF TypeOK
<1>9. CallInv(c)'
  BY <1>1, <1>2, <1>3, <1>7, <1>8 DEF CallInv, AtWork, SubmitPc
<1> QED BY <1>2, <1>7, <1>9, BeginningStep

\* Any set of namespaces or of blobs is finite, so a reply lists it.
LEMMA NamespaceReply ==
  ASSUME NEW S \in SUBSET Ns, NEW r \in Replies(S)
  PROVE  r \in Seq(Ns)
<1>1. IsFiniteSet(Blob)
  BY LayoutAssumption
<1>2. IsFiniteSet(Ns)
  <2>1. Ns = {NsOf[b] : b \in Blob}
    BY DEF Ns
  <2>2. NsOf \in Surjection(Blob, Ns)
    BY <2>1, LayoutAssumption DEF Surjection
  <2> QED BY <1>1, <2>2, FS_Surjection
<1>3. IsFiniteSet(S)
  BY <1>2, FS_Subset
<1> QED BY <1>3, RepliesAreSequences

LEMMA BlobReply ==
  ASSUME NEW S \in SUBSET Blob, NEW r \in Replies(S)
  PROVE  r \in Seq(Blob)
<1>1. IsFiniteSet(S)
  BY LayoutAssumption, FS_Subset
<1> QED BY <1>1, RepliesAreSequences

LEMMA ReadNamespacesStep ==
  ASSUME IInv, NEW c \in Call, ReadNamespaces(c)
  PROVE  IInv'
<1> DEFINE s == call[c]
           h == s.height
<1>1. /\ s \in CallState /\ CallInv(c) /\ TypeOK
      /\ s.op = "get" => s.target \in Blob
  BY CallFacts
<1>2. s.pc = "namespaces"
  BY DEF ReadNamespaces
<1>3. h \in Height /\ h <= currentHeight /\ s.op # "getAll"
  BY <1>1, <1>2 DEF CallInv, AtWork
<1>4. heightNs[h] \in SUBSET Ns
  BY <1>1, <1>3 DEF TypeOK
<1>5. PICK reply \in Replies(heightNs[h]) :
        call' = [call EXCEPT ![c] =
                  [@ EXCEPT !.nss = reply,
                            !.pc = IF reply = <<>> THEN "storeEds" ELSE "members"]]
  BY DEF ReadNamespaces
<1> DEFINE place == IF reply = <<>> THEN "storeEds" ELSE "members"
           t == [s EXCEPT !.nss = reply, !.pc = place]
<1>6. call' = [call EXCEPT ![c] = t]
  BY <1>5
<1>7. reply \in Seq(Ns)
  BY <1>4, NamespaceReply
<1>8. place \in {"storeEds", "members"} /\ (place = "members" => reply # <<>>)
  OBVIOUS
<1> HIDE DEF place
<1>9. /\ t \in CallState /\ t.pc = place /\ t.op = s.op
      /\ t.height = h /\ t.target = s.target /\ t.nss = reply
  BY <1>1, <1>7, <1>8 DEF CallState, Pc, SquarePc
<1> HIDE DEF t
<1>10. call'[c] = t
  BY <1>1, <1>6 DEF TypeOK
<1>11. /\ UNCHANGED <<currentHeight, redisVars, faults, batch, acked, layouts, cut>>
       /\ early' = IF h \in acked THEN early ELSE early \cup {h}
  BY DEF ReadNamespaces
<1>12. faults' \in 0..MaxFaults /\ early' \subseteq Height /\ cut' \subseteq Height
  BY <1>1, <1>3, <1>11 DEF TypeOK
<1>13. CallInv(c)'
  BY <1>1, <1>3, <1>8, <1>9, <1>10, <1>11 DEF CallInv, AtWork, SubmitPc
<1> QED BY <1>6, <1>9, <1>11, <1>12, <1>13, QuietStep

LEMMA ReadMembersStep ==
  ASSUME IInv, NEW c \in Call, ReadMembers(c)
  PROVE  IInv'
<1> DEFINE s == call[c]
           h == s.height
           rest == Tail(s.nss)
<1>1. /\ s \in CallState /\ CallInv(c) /\ TypeOK
      /\ s.op = "get" => s.target \in Blob
  BY CallFacts
<1>2. /\ s.pc = "members"
      /\ UNCHANGED <<currentHeight, redisVars, faults, historyVars>>
  BY DEF ReadMembers
<1>3. /\ h \in Height /\ (s.op # "getAll" => h <= currentHeight)
      /\ s.nss # <<>> /\ s.nss \in Seq(Ns) /\ s.square \in Seq(Blob)
  BY <1>1, <1>2 DEF CallInv, AtWork, CallState
<1>4. Head(s.nss) \in Ns /\ rest \in Seq(Ns)
  BY <1>3, HeadAndTail
<1>5. Listed(c) \in SUBSET Blob
  BY <1>1, <1>3, <1>4 DEF Listed, TypeOK
<1>6. PICK reply \in Replies(Listed(c)) :
        LET u == [s EXCEPT !.nss = rest, !.square = @ \o reply]
        IN  call' = [call EXCEPT ![c] =
                       IF rest # <<>> THEN u
                       ELSE IF u.op = "getAll" THEN Ended(u, "ok")
                       ELSE [u EXCEPT !.pc = "storeEds"]]
  BY DEF ReadMembers
<1> DEFINE square == s.square \o reply
           u == [s EXCEPT !.nss = rest, !.square = square]
           store == [u EXCEPT !.pc = "storeEds"]
<1>7. call' = [call EXCEPT ![c] = IF rest # <<>> THEN u
                                  ELSE IF u.op = "getAll" THEN Ended(u, "ok")
                                  ELSE store]
  BY <1>6
<1>8. square \in Seq(Blob)
  <2>1. reply \in Seq(Blob)
    BY <1>5, BlobReply
  <2> QED BY <1>3, <2>1
<1> HIDE DEF square
<1>9. /\ u \in CallState /\ u.pc = "members" /\ u.op = s.op /\ u.nss = rest
      /\ u.height = h /\ u.target = s.target
  BY <1>1, <1>2, <1>4, <1>8 DEF CallState
<1> HIDE DEF u
<1>10. /\ store \in CallState /\ store.pc = "storeEds" /\ store.op = s.op
       /\ store.height = h /\ store.target = s.target
  BY <1>9 DEF CallState, Pc, SquarePc
<1> HIDE DEF store
<1>11. CASE rest # <<>>
  <2>1. call' = [call EXCEPT ![c] = u] /\ call'[c] = u
    BY <1>1, <1>7, <1>11 DEF TypeOK
  <2>2. CallInv(c)'
    BY <1>1, <1>2, <1>3, <1>9, <1>11, <2>1, ListingCall
  <2> QED BY <1>2, <1>9, <2>1, <2>2, BeginningStep
<1>12. CASE rest = <<>> /\ s.op = "getAll"
  <2>1. call' = [call EXCEPT ![c] = Ended(u, "ok")]
    BY <1>7, <1>9, <1>12
  <2>2. "ok" \in Outcome /\ faults' \in 0..MaxFaults
    BY <1>1, <1>2 DEF Outcome, TypeOK
  <2> QED BY <1>2, <1>9, <2>1, <2>2, EndingStep
<1>13. CASE rest = <<>> /\ s.op # "getAll"
  <2>1. call' = [call EXCEPT ![c] = store] /\ call'[c] = store
    BY <1>1, <1>7, <1>9, <1>13 DEF TypeOK
  <2>2. CallInv(c)'
    BY <1>1, <1>2, <1>3, <1>10, <1>13, <2>1 DEF CallInv, AtWork, SubmitPc
  <2> QED BY <1>2, <1>10, <2>1, <2>2, BeginningStep
<1> QED BY <1>11, <1>12, <1>13

\* Steps that end a call without having looked at what it holds.
LEMMA PlainEndingSteps ==
  ASSUME IInv, NEW c \in Call,
         PanicFromOds(c) \/ ReturnEds(c) \/ FailRead(c) \/ LoseWrite(c)
  PROVE  IInv'
<1>1. PICK out \in {"panic", "ok", "redisError"} :
        call' = [call EXCEPT ![c] = Ended(call[c], out)]
  BY DEF PanicFromOds, ReturnEds, FailRead, LoseWrite
<1>2. UNCHANGED <<currentHeight, redisVars, historyVars>>
  BY DEF PanicFromOds, ReturnEds, FailRead, LoseWrite
<1>3. faults' = faults \/ (faults < MaxFaults /\ faults' = faults + 1)
  BY DEF PanicFromOds, ReturnEds, FailRead, LoseWrite
<1>4. faults' \in 0..MaxFaults
  BY <1>3, StoreAssumption DEF IInv, TypeOK
<1>5. out \in Outcome /\ call[c] \in CallState
  BY DEF Outcome, IInv, TypeOK
<1> QED BY <1>1, <1>2, <1>4, <1>5, EndingStep

LEMMA ReadCommitmentStep ==
  ASSUME IInv, NEW c \in Call, ReadCommitment(c)
  PROVE  IInv'
<1> DEFINE s == call[c]
           t == [s EXCEPT !.pc = "readBlob"]
<1>1. /\ s \in CallState /\ CallInv(c) /\ TypeOK
      /\ s.op = "get" => s.target \in Blob
  BY CallFacts
<1>2. /\ s.pc = "edsReturned" /\ s.op = "get"
      /\ UNCHANGED <<currentHeight, redisVars, faults, historyVars>>
      /\ \/ call' = [call EXCEPT ![c] = t]
         \/ call' = [call EXCEPT ![c] = Ended(s, "blobNotFound")]
  BY DEF ReadCommitment
<1>3. /\ t \in CallState /\ t.pc = "readBlob" /\ t.op = s.op
      /\ t.height = s.height /\ t.target = s.target
  BY <1>1 DEF CallState, Pc
<1> HIDE DEF t
<1>4. CASE call' = [call EXCEPT ![c] = t]
  <2>1. call'[c] = t
    BY <1>1, <1>4 DEF TypeOK
  <2>2. CallInv(c)'
    BY <1>1, <1>2, <1>3, <2>1 DEF CallInv, AtWork, SubmitPc
  <2> QED BY <1>2, <1>3, <1>4, <2>2, BeginningStep
<1>5. CASE call' = [call EXCEPT ![c] = Ended(s, "blobNotFound")]
  <2>1. "blobNotFound" \in Outcome /\ faults' \in 0..MaxFaults
    BY <1>1, <1>2 DEF Outcome, TypeOK
  <2> QED BY <1>1, <1>2, <1>5, <2>1, EndingStep
<1> QED BY <1>2, <1>4, <1>5

LEMMA ReadBlobStep ==
  ASSUME IInv, NEW c \in Call, ReadBlob(c)
  PROVE  IInv'
<1> DEFINE s == call[c]
           data == blobData[s.height][s.target]
           again == [s EXCEPT !.pc = "eds", !.retry = TRUE]
           found == [s EXCEPT !.index = data]
<1>1. /\ s \in CallState /\ CallInv(c) /\ TypeOK
      /\ s.op = "get" => s.target \in Blob
  BY CallFacts
<1>2. /\ s.pc = "readBlob"
      /\ UNCHANGED <<currentHeight, redisVars, faults, historyVars>>
      /\ \/ data = Nil /\ call' = [call EXCEPT ![c] = Ended(s, "blobNotFound")]
         \/ call' = [call EXCEPT ![c] = again]
         \/ data \notin {Nil, NoIndex} /\ call' = [call EXCEPT ![c] = Ended(found, "ok")]
  BY DEF ReadBlob
<1>3. s.op = "get" /\ s.height \in Height
  BY <1>1, <1>2 DEF CallInv
<1>4. data \in Nat \cup {NoIndex, Nil}
  BY <1>1, <1>3 DEF TypeOK
<1>5. /\ {"ok", "blobNotFound"} \subseteq Outcome
      /\ faults' \in 0..MaxFaults
  BY <1>1, <1>2 DEF Outcome, TypeOK
<1>6. again \in CallState /\ again.pc = "eds" /\ again.op = "get" /\ again.target = s.target
  BY <1>1, <1>3 DEF CallState, Pc, SquarePc
<1> HIDE DEF again, data
<1>7. ASSUME data \notin {Nil, NoIndex}
      PROVE  found \in CallState /\ found.op = s.op /\ found.target = s.target
  BY <1>1, <1>4, <1>7 DEF CallState
<1> HIDE DEF found
<1>8. CASE call' = [call EXCEPT ![c] = again]
  <2>1. call'[c] = again
    BY <1>1, <1>8 DEF TypeOK
  <2>2. CallInv(c)'
    BY <1>1, <1>3, <1>6, <2>1, RestingCall
  <2> QED BY <1>2, <1>6, <1>8, <2>2, BeginningStep
<1>9. CASE call' = [call EXCEPT ![c] = Ended(s, "blobNotFound")]
  BY <1>1, <1>2, <1>5, <1>9, EndingStep
<1>10. CASE data \notin {Nil, NoIndex} /\ call' = [call EXCEPT ![c] = Ended(found, "ok")]
  BY <1>2, <1>5, <1>7, <1>10, EndingStep
<1> QED BY <1>2, <1>8, <1>9, <1>10

LEMMA RereadBlobStep ==
  ASSUME IInv, NEW c \in Call, RereadBlob(c)
  PROVE  IInv'
<1>1. PICK out \in {"blobNotFound", "indexNotSet", "ok"} :
        call' = [call EXCEPT ![c] = Ended(call[c], out)]
  BY DEF RereadBlob
<1>2. UNCHANGED <<currentHeight, redisVars, faults, historyVars>>
  BY DEF RereadBlob
<1>3. out \in Outcome /\ call[c] \in CallState /\ faults' \in 0..MaxFaults
  BY <1>2 DEF Outcome, IInv, TypeOK
<1> QED BY <1>1, <1>2, <1>3, EndingStep

\* A call that gives up on a write keeps what it relies on: the write may
\* still be done.
LEMMA FailWriteStep ==
  ASSUME IInv, NEW c \in Call, FailWrite(c)
  PROVE  IInv'
<1> DEFINE s == call[c]
           t == [s EXCEPT !.out = "redisError"]
<1>1. /\ s \in CallState /\ CallInv(c) /\ TypeOK
      /\ s.op = "get" => s.target \in Blob
  BY CallFacts
<1>2. /\ call' = [call EXCEPT ![c] = t]
      /\ faults < MaxFaults /\ faults' = faults + 1
      /\ s.pc \in WritePc
      /\ cut' = IF s.pc \in BuildPc THEN cut \cup {s.height} ELSE cut
      /\ UNCHANGED <<currentHeight, redisVars, batch, acked, early, layouts>>
  BY DEF FailWrite
<1>3. /\ t \in CallState /\ t.pc = s.pc /\ t.op = s.op /\ t.height = s.height
      /\ t.target = s.target /\ t.todo = s.todo /\ t.nss = s.nss
  BY <1>1 DEF CallState, Outcome
<1> HIDE DEF t
<1>4. call'[c] = t
  BY <1>1, <1>2 DEF TypeOK
<1>5. CallInv(c)'
  BY <1>1, <1>2, <1>3, <1>4
     DEF CallInv, AtWork, SubmitPc, Submitted, redisVars
<1>6. s.pc \in BuildPc => s.height \in Height
  BY <1>1 DEF CallInv, AtWork, BuildPc
<1>7. faults' \in 0..MaxFaults /\ early' \subseteq Height /\ cut' \subseteq Height
  BY <1>1, <1>2, <1>6, StoreAssumption DEF TypeOK
<1> QED BY <1>2, <1>3, <1>5, <1>7, QuietStep

LEMMA FinishStep ==
  ASSUME IInv, NEW c \in Call, Finish(c)
  PROVE  IInv'
<1>1. /\ call' = [call EXCEPT ![c] = Idle]
      /\ UNCHANGED <<currentHeight, redisVars, faults, historyVars>>
  BY DEF Finish
<1>2. Idle \in CallState /\ call'[c] = Idle
  BY <1>1, IdleIsACall DEF IInv, TypeOK
<1>3. Idle.pc = "idle" /\ Idle.op = "none"
  BY DEF Idle
<1>4. CallInv(c)'
  BY <1>2, <1>3 DEF CallInv, AtWork, SubmitPc
<1> QED BY <1>1, <1>2, <1>4, BeginningStep

-----------------------------------------------------------------------------
(* The theorems.                                                           *)

LEMMA Initially == Init => IInv
<1> SUFFICES ASSUME Init PROVE IInv
  OBVIOUS
<1>1. Idle \in CallState /\ Idle.pc = "idle" /\ Idle.op = "none"
  BY IdleIsACall DEF Idle
<1>2. <<>> \in Seq(Blob) /\ MaxHeight \in Nat /\ MaxFaults \in Nat
  BY StoreAssumption
<1>3. TypeOK
  BY <1>1, <1>2 DEF Init, TypeOK
<1>4. \A c \in Call : CallInv(c)
  BY <1>1 DEF Init, CallInv, AtWork, SubmitPc
<1>5. NothingAboveCurrentHeight /\ IndexesFollowData /\ HeightsHoldOneBatch
  BY DEF Init, NothingAboveCurrentHeight, IndexesFollowData, HeightsHoldOneBatch
<1> QED BY <1>3, <1>4, <1>5 DEF IInv

LEMMA Inductive == IInv /\ [Next]_vars => IInv'
<1> SUFFICES ASSUME IInv, [Next]_vars PROVE IInv'
  OBVIOUS
<1>1. ASSUME NEW c \in Call, Begin(c) PROVE IInv'
  <2>1. CASE SubmitNothing(c)
    BY <2>1, SubmitNothingStep
  <2>2. CASE \E blobs \in Request : AssignHeight(c, blobs)
    BY <2>2, AssignHeightStep
  <2>3. CASE \E h \in 0..MaxHeight : GetEds(c, h)
    BY <2>3, GetEdsStep
  <2>4. CASE \E h \in 0..MaxHeight, b \in Blob : GetBlob(c, h, b)
    BY <2>4, GetBlobStep
  <2>5. CASE \E h \in Height, nss \in NsList : GetAll(c, h, nss)
    BY <2>5, GetAllStep
  <2> QED BY <1>1, <2>1, <2>2, <2>3, <2>4, <2>5 DEF Begin
<1>2. ASSUME NEW c \in Call, Step(c) PROVE IInv'
  <2>1. CASE SetBlob(c) \/ AddMember(c) \/ SetCommitment(c) \/ TrackNamespace(c)
    BY <2>1, SetBlobStep, AddMemberStep, SetCommitmentStep, TrackNamespaceStep
  <2>2. CASE StoreEds(c) \/ IndexBlob(c) \/ MapIndex(c)
    BY <2>2, StoreEdsStep, IndexBlobStep, MapIndexStep
  <2>3. CASE EdsHeightNotFound(c) \/ ReadEds(c) \/ ReadNamespaces(c) \/ ReadMembers(c)
    BY <2>3, EdsHeightNotFoundStep, ReadEdsStep, ReadNamespacesStep, ReadMembersStep
  <2>4. CASE PanicFromOds(c) \/ ReturnEds(c)
    BY <2>4, PlainEndingSteps
  <2>5. CASE ReadCommitment(c) \/ ReadBlob(c) \/ RereadBlob(c)
    BY <2>5, ReadCommitmentStep, ReadBlobStep, RereadBlobStep
  <2> QED BY <1>2, <2>1, <2>2, <2>3, <2>4, <2>5 DEF Step
<1>3. ASSUME NEW c \in Call, Fault(c) \/ Finish(c) PROVE IInv'
  BY <1>3, PlainEndingSteps, FailWriteStep, FinishStep DEF Fault
<1>4. CASE UNCHANGED vars
  <2>1. TypeOK /\ \A c \in Call : CallInv(c)
    BY DEF IInv
  <2>2. TypeOK'
    BY <1>4, <2>1 DEF TypeOK, vars, redisVars, historyVars
  <2>3. Grow
    BY <1>4, <2>1 DEF Grow, TypeOK, vars, redisVars, historyVars
  <2>4. \A c \in Call : CallInv(c)'
    BY <1>4, <2>1, <2>2, <2>3, OtherCalls DEF vars
  <2> QED BY <1>4, <2>2, <2>4
          DEF IInv, NothingAboveCurrentHeight, IndexesFollowData,
              HeightsHoldOneBatch, Submitted, vars, redisVars, historyVars
<1> QED BY <1>1, <1>2, <1>3, <1>4 DEF Next

\* The inductive invariant holds throughout.
THEOREM Invariance == Spec => []IInv
<1> QED BY Initially, Inductive, PTL DEF Spec

\* The state of the store and of every call stays well-formed, the set of a
\* namespace lists blobs of that namespace only, however many calls there are.
THEOREM TypeCorrect == Spec => []TypeOK
<1>1. IInv => TypeOK
  BY DEF IInv
<1> QED BY <1>1, Invariance, PTL

\* Nothing is ever left behind at a height that no submit was given.
THEOREM FreshHeights == Spec => []NothingAboveCurrentHeight
<1>1. IInv => NothingAboveCurrentHeight
  BY DEF IInv
<1> QED BY <1>1, Invariance, PTL

\* No interleaving, failure or late write makes an index point at nothing.
THEOREM IndexesPointAtData == Spec => []IndexesFollowData
<1>1. IInv => IndexesFollowData
  BY DEF IInv
<1> QED BY <1>1, Invariance, PTL

\* Concurrent submits never mix their blobs at one height.
THEOREM OneBatchPerHeight == Spec => []HeightsHoldOneBatch
<1>1. IInv => HeightsHoldOneBatch
  BY DEF IInv
<1> QED BY <1>1, Invariance, PTL
=============================================================================
