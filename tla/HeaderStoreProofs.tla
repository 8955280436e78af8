------------------------- MODULE HeaderStoreProofs -------------------------
(***************************************************************************)
(* Safety of HeaderStore for every set of calls, blobs and requests and    *)
(* every bound, and that it implements BlobStore.                          *)
(*                                                                         *)
(* Every step of HeaderStore is a step of BlobStore or leaves BlobStore    *)
(* alone, except that store_header writes the current height: it writes    *)
(* what is there, since a call that has come so far once found its height  *)
(* below the current one, and that only grows (HeaderCallInv).             *)
(***************************************************************************)
EXTENDS HeaderStore, BlobStoreProofs, SequenceTheorems

-----------------------------------------------------------------------------
(* The inductive invariant.                                                *)

\* What a header call relies on at each place.
HeaderCallInv(c) ==
  LET s == req[c] IN
  /\ s.pc \in {"building", "setHeader", "setHash"} => s.height \in 1..currentHeight
  /\ s.pc \in {"setHeader", "setHash"} => s.new # 0
  /\ s.pc \in {"building", "setHeader"} => s.first
  /\ s.pc = "setHash" => header[s.height] # Nil
  /\ s.kind = "hash" =>
       /\ s.pc \in {"readHash", "readKey", "done"}
       /\ s.pc # "done" => s.out = "pending"
       /\ s.pc = "readKey" => s.hash \in headerHash /\ s.height = s.hash[1]
       /\ s.sealed =>
            /\ s.hash \in headerHash
            /\ s.out # "headerNotFound"
            /\ s.out = "ok" => s.got[1][1] = s.hash[1]
  /\ s.pc \in {"readHash", "readKey"} => s.kind = "hash"
  /\ s.pc = "sleep" => s.attempts # 0

\* Headers are of heights that were given out; a hash that can be looked up
\* leads to a header, and so does that of a header its maker has answered with.
HeaderKeysInv ==
  /\ \A h \in Height : header[h] # Nil => h <= currentHeight
  /\ \A hd \in headerHash : header[hd[1]] # Nil
  /\ answered.maker \subseteq headerHash

HIInv ==
  /\ IInv
  /\ HeaderTypeOK
  /\ HeaderKeysInv
  /\ \A c \in Call : HeaderCallInv(c)

\* What no step takes away.
HeaderGrow ==
  /\ currentHeight' >= currentHeight
  /\ \A h \in Height : header[h] # Nil => header'[h] # Nil
  /\ headerHash \subseteq headerHash'

-----------------------------------------------------------------------------
(* Steps of BlobStore, seen from here.                                     *)

\* The height never falls, and no call but a submit changes it.
LEMMA StepKeepsHeight ==
  ASSUME NEW c \in Call, Step(c) \/ Fault(c) \/ Finish(c)
  PROVE  currentHeight' = currentHeight
BY DEF Step, Fault, Finish, SetBlob, AddMember, SetCommitment, TrackNamespace,
       EdsHeightNotFound, ReadEds, ReadNamespaces, ReadMembers, PanicFromOds, StoreEds,
       IndexBlob, MapIndex, ReturnEds, ReadCommitment, ReadBlob, RereadBlob, FailRead,
       FailWrite, LoseWrite

LEMMA HeightGrows ==
  ASSUME currentHeight \in Nat, [Next]_vars
  PROVE  currentHeight' >= currentHeight
<1>1. ASSUME NEW c \in Call, Begin(c) PROVE currentHeight' >= currentHeight
  <2>1. CASE \E blobs \in Request : AssignHeight(c, blobs)
    BY <2>1 DEF AssignHeight
  <2>2. CASE SubmitNothing(c)
    BY <2>2 DEF SubmitNothing
  <2>3. CASE \E h \in 0..MaxHeight : GetEds(c, h)
    BY <2>3 DEF GetEds
  <2>4. CASE \E h \in 0..MaxHeight, b \in Blob : GetBlob(c, h, b)
    BY <2>4 DEF GetBlob
  <2>5. CASE \E h \in Height, nss \in NsList : GetAll(c, h, nss)
    BY <2>5 DEF GetAll
  <2> QED BY <1>1, <2>1, <2>2, <2>3, <2>4, <2>5 DEF Begin
<1>2. ASSUME NEW c \in Call, Step(c) \/ Fault(c) \/ Finish(c)
      PROVE currentHeight' >= currentHeight
  BY <1>2, StepKeepsHeight
<1> QED BY <1>1, <1>2 DEF Next, vars

-----------------------------------------------------------------------------
(* The state of a header call.                                             *)

LEMMA NoReqIsAReq == NoReq \in HeaderReq
<1>1. <<>> \in Seq(Header)
  OBVIOUS
<1>2. 0 \in 0..MaxHeight /\ 0 \in 0..MaxAttempts
  BY StoreAssumption, HeaderAssumption
<1> QED BY <1>1, <1>2 DEF NoReq, HeaderReq, HeaderPc, HeaderOutcome, Outcome

LEMMA AnswerIsAReq ==
  ASSUME NEW s \in HeaderReq, NEW out \in HeaderOutcome
  PROVE  /\ Answer(s, out) \in HeaderReq
         /\ Answer(s, out).pc = "done"
         /\ Answer(s, out).out = out
         /\ \A f \in {"kind", "height", "hash", "sealed", "got"} : Answer(s, out)[f] = s[f]
<1> DEFINE t == [s EXCEPT !.pc = "done"]
<1>1. t \in HeaderReq /\ t.pc = "done"
      /\ \A f \in {"kind", "height", "hash", "sealed", "got"} : t[f] = s[f]
  BY DEF HeaderReq, HeaderPc
<1>2. Answer(s, out) = [t EXCEPT !.out = out]
  BY DEF Answer
<1> HIDE DEF t
<1> QED BY <1>1, <1>2 DEF HeaderReq

\* get_header_by_height has answered: the call is over, or a range goes on.
LEMMA AfterHeaderIsAReq ==
  ASSUME NEW s \in HeaderReq, NEW hd \in Seq(Header)
  PROVE  /\ AfterHeader(s, hd) \in HeaderReq
         /\ AfterHeader(s, hd).pc \in {"done", "readHeader"}
         /\ AfterHeader(s, hd).kind = s.kind
         /\ AfterHeader(s, hd).got = s.got \o hd
<1> DEFINE t == [s EXCEPT !.got = @ \o hd]
           u == [t EXCEPT !.height = @ + 1]
           v == [u EXCEPT !.pc = "readHeader"]
<1>1. t \in HeaderReq /\ t.kind = s.kind /\ t.got = s.got \o hd
      /\ t.height = s.height /\ t.upto = s.upto
  <2>1. s.got \o hd \in Seq(Header)
    BY DEF HeaderReq
  <2> QED BY <2>1 DEF HeaderReq
<1>2. AfterHeader(s, hd) =
        IF s.kind # "range" THEN Answer(t, IF hd = <<>> THEN "headerNotFound" ELSE "ok")
        ELSE IF s.height < s.upto THEN v ELSE RangeAnswer(t)
  BY DEF AfterHeader
<1> HIDE DEF t
<1>3. {"headerNotFound", "ok", "invalidRange"} \subseteq HeaderOutcome
  BY DEF HeaderOutcome, Outcome
<1>4. ASSUME NEW out \in HeaderOutcome
      PROVE  /\ Answer(t, out) \in HeaderReq
             /\ Answer(t, out).pc = "done"
             /\ Answer(t, out).kind = s.kind
             /\ Answer(t, out).got = s.got \o hd
  <2>1. \A f \in {"kind", "got"} : Answer(t, out)[f] = t[f]
    BY <1>1, AnswerIsAReq
  <2> QED BY <1>1, <2>1, AnswerIsAReq
<1>5. CASE s.kind # "range"
  BY <1>2, <1>3, <1>4, <1>5
<1>6. CASE s.kind = "range" /\ s.height < s.upto
  <2>1. u \in HeaderReq /\ u.kind = s.kind /\ u.got = s.got \o hd
    <3>1. t.height + 1 \in 0..MaxHeight
      BY <1>1, <1>6, StoreAssumption DEF HeaderReq
    <3> QED BY <1>1, <3>1 DEF HeaderReq
  <2> HIDE DEF u
  <2>2. v \in HeaderReq /\ v.kind = s.kind /\ v.got = s.got \o hd /\ v.pc = "readHeader"
    BY <2>1 DEF HeaderReq, HeaderPc
  <2> QED BY <1>2, <1>6, <2>2
<1>7. CASE s.kind = "range" /\ ~ (s.height < s.upto)
  <2>1. RangeAnswer(t) \in {Answer(t, "ok"), Answer(t, "invalidRange")}
    BY DEF RangeAnswer
  <2> QED BY <1>2, <1>3, <1>4, <1>7, <2>1
<1> QED BY <1>5, <1>6, <1>7

\* What a step adds to the headers clients have been given.
LEMMA AnsweredHeaders ==
  ASSUME HeaderTypeOK, NEW c \in Call, NEW s \in HeaderReq, AnsweredBy(c, s)
  PROVE  /\ answered' \in [maker : SUBSET Header, other : SUBSET Header]
         /\ req[c].pc # "setHash" => answered'.maker = answered.maker
         /\ \A hd \in answered'.maker :
              \/ hd \in answered.maker
              \/ s.got # <<>> /\ hd = Last(s.got) /\ s.pc = "done" /\ s.out = "ok"
<1> DEFINE M == answered.maker
           O == answered.other
<1>1. M \in SUBSET Header /\ O \in SUBSET Header /\ answered \in [maker : SUBSET Header, other : SUBSET Header]
  BY DEF HeaderTypeOK
<1>2. s.got \in Seq(Header)
  BY DEF HeaderReq
<1>3. ToSet(s.got) \subseteq Header
  BY <1>2 DEF ToSet
<1>4. CASE ~ (s.pc = "done" /\ s.out = "ok" /\ s.got # <<>>)
  BY <1>1, <1>4 DEF AnsweredBy
<1>5. CASE s.pc = "done" /\ s.out = "ok" /\ s.got # <<>> /\ req[c].pc = "setHash"
  <2>1. Last(s.got) \in Header
    BY <1>2, <1>5 DEF Last
  <2>2. ToSet(Front(s.got)) \subseteq Header
    BY <1>2, <1>5 DEF ToSet, Front
  <2> DEFINE a == [answered EXCEPT !.maker = @ \cup {Last(s.got)}]
  <2>3. a \in [maker : SUBSET Header, other : SUBSET Header] /\ a.maker = M \cup {Last(s.got)}
    BY <1>1, <2>1
  <2>4. answered' = [a EXCEPT !.other = @ \cup ToSet(Front(s.got))]
    BY <1>5 DEF AnsweredBy
  <2> HIDE DEF a
  <2>5. answered' \in [maker : SUBSET Header, other : SUBSET Header] /\ answered'.maker = a.maker
    BY <2>2, <2>3, <2>4
  <2> QED BY <1>5, <2>3, <2>5
<1>6. CASE s.pc = "done" /\ s.out = "ok" /\ s.got # <<>> /\ req[c].pc # "setHash"
  <2>1. answered' = [answered EXCEPT !.other = @ \cup ToSet(s.got)]
    BY <1>6 DEF AnsweredBy
  <2> QED BY <1>1, <1>3, <1>6, <2>1
<1> QED BY <1>4, <1>5, <1>6

-----------------------------------------------------------------------------
(* Steps keep the invariant.                                               *)

\* A call at a place where it relies on nothing.
LEMMA RestingHeaderCall ==
  ASSUME NEW c \in Call, req'[c].kind # "hash",
         req'[c].pc \in {"idle", "sleep", "readHeader", "done"},
         req'[c].pc = "sleep" => req'[c].attempts # 0
  PROVE  HeaderCallInv(c)'
BY DEF HeaderCallInv

\* What a call relies on stays as it is while others go on.
LEMMA OtherHeaderCalls ==
  ASSUME HeaderTypeOK, HeaderGrow, NEW c \in Call, HeaderCallInv(c), req'[c] = req[c],
         currentHeight \in 0..MaxHeight, currentHeight' \in Nat
  PROVE  HeaderCallInv(c)'
<1> DEFINE s == req[c]
<1>1. s.height \in Nat /\ currentHeight \in Nat /\ MaxHeight \in Nat
  BY StoreAssumption DEF HeaderTypeOK, HeaderReq
<1>2. s.pc \in {"building", "setHeader", "setHash"} => s.height \in 1..currentHeight'
  BY <1>1 DEF HeaderCallInv, HeaderGrow
<1>3. s.pc = "setHash" => header'[s.height] # Nil
  BY <1>1 DEF HeaderCallInv, HeaderGrow, Height
<1>4. s.hash \in headerHash => s.hash \in headerHash'
  BY DEF HeaderGrow
<1> QED BY <1>2, <1>3, <1>4 DEF HeaderCallInv

\* The step of a header call.
LEMMA HeaderCallStep ==
  ASSUME HIInv, IInv', HeaderGrow, HeaderKeysInv', NEW c \in Call, NEW s \in HeaderReq,
         req' = [req EXCEPT ![c] = s], HeaderCallInv(c)',
         header' \in [Height -> (Nat \ {0}) \cup {Nil}], headerHash' \subseteq Header,
         headerFaults' \in 0..MaxHeaderFaults,
         generated' \in [Height -> Seq(Seq(Blob))],
         answered' \in [maker : SUBSET Header, other : SUBSET Header]
  PROVE  HIInv'
<1>1. HeaderTypeOK /\ currentHeight \in 0..MaxHeight /\ currentHeight' \in 0..MaxHeight
  BY DEF HIInv, IInv, TypeOK
<1>2. currentHeight' \in Nat
  BY <1>1, StoreAssumption
<1>3. req \in [Call -> HeaderReq]
  BY <1>1 DEF HeaderTypeOK
<1>4. ASSUME NEW d \in Call PROVE HeaderCallInv(d)'
  <2>1. CASE d = c
    BY <2>1
  <2>2. CASE d # c
    <3>1. req'[d] = req[d]
      BY <1>3, <2>2
    <3> QED BY <1>1, <1>2, <3>1, OtherHeaderCalls DEF HIInv
  <2> QED BY <2>1, <2>2
<1>5. HeaderTypeOK'
  BY <1>3 DEF HeaderTypeOK
<1> QED BY <1>4, <1>5 DEF HIInv

\* One that changes nothing else but what clients have been given and the faults.
LEMMA QuietHeaderStep ==
  ASSUME HIInv, NEW c \in Call, NEW s \in HeaderReq,
         req' = [req EXCEPT ![c] = s], HeaderCallInv(c)',
         UNCHANGED <<vars, header, headerHash, generated>>,
         headerFaults' \in 0..MaxHeaderFaults,
         answered' \in [maker : SUBSET Header, other : SUBSET Header],
         answered'.maker = answered.maker
  PROVE  HIInv'
<1>1. IInv'
  BY Inductive DEF HIInv
<1>2. currentHeight' = currentHeight /\ currentHeight \in Nat
  BY StoreAssumption DEF vars, HIInv, IInv, TypeOK
<1>3. HeaderGrow
  BY <1>2 DEF HeaderGrow
<1>4. HeaderKeysInv'
  BY <1>2 DEF HIInv, HeaderKeysInv
<1>5. header' \in [Height -> (Nat \ {0}) \cup {Nil}] /\ headerHash' \subseteq Header
      /\ generated' \in [Height -> Seq(Seq(Blob))]
  BY DEF HIInv, HeaderTypeOK
<1> QED BY <1>1, <1>3, <1>4, <1>5, HeaderCallStep

\* The calls that are answered with one header, looked for by its height.
OneHeader == {"height", "head", "sync", "wait"}

\* Where the call of a client begins.
StartsWell(s) ==
  \/ /\ s.kind # "hash" /\ s.pc \in {"sleep", "readHeader", "done"}
     /\ s.pc = "sleep" => s.attempts # 0
     /\ s.kind \in OneHeader /\ s.height \in 1..currentHeight =>
          s.pc = "readHeader" /\ s.out = "pending"
     /\ s.kind = "range" =>
          \/ s.pc = "done" /\ s.out = "invalidRange"
          \/ /\ s.pc = "readHeader" /\ s.out = "pending"
             /\ s.got = <<>> /\ s.height <= s.upto
  \/ /\ s.kind = "hash" /\ s.pc = "readHash" /\ s.out = "pending"
     /\ s.sealed => s.hash \in answered.maker

\* A call begins.
LEMMA BeginWithStep ==
  ASSUME HIInv, NEW c \in Call, NEW s \in HeaderReq, BeginWith(c, s), StartsWell(s)
  PROVE  HIInv'
<1> DEFINE t == [s EXCEPT !.from = s.height]
           u == [t EXCEPT !.seen = currentHeight]
<1>1. currentHeight \in 0..MaxHeight
  BY DEF HIInv, IInv, TypeOK
<1>2. /\ t \in HeaderReq
      /\ \A f \in {"kind", "pc", "out", "attempts", "hash", "sealed"} : t[f] = s[f]
  BY DEF HeaderReq
<1>3. req' = [req EXCEPT ![c] = u]
  BY DEF BeginWith
<1> HIDE DEF t
<1>4. /\ u \in HeaderReq
      /\ \A f \in {"kind", "pc", "out", "attempts", "hash", "sealed"} : u[f] = t[f]
  BY <1>1, <1>2 DEF HeaderReq
<1> HIDE DEF u
<1>5. u.kind = s.kind /\ u.pc = s.pc /\ u.out = s.out /\ u.hash = s.hash /\ u.sealed = s.sealed
      /\ u.attempts = s.attempts
  BY <1>2, <1>4
<1>6. UNCHANGED <<vars, header, headerHash, headerFaults, generated, answered>>
  BY DEF BeginWith
<1>7. req'[c] = u
  BY <1>3 DEF HIInv, HeaderTypeOK
<1>8. HeaderCallInv(c)'
  <2>1. CASE s.kind # "hash"
    BY <1>5, <1>7, <2>1, RestingHeaderCall DEF StartsWell
  <2>2. CASE s.kind = "hash"
    <3>1. answered.maker \subseteq headerHash /\ headerHash' = headerHash
      BY <1>6 DEF HIInv, HeaderKeysInv
    <3> QED BY <1>5, <1>7, <2>2, <3>1 DEF HeaderCallInv, StartsWell
  <2> QED BY <2>1, <2>2
<1>9. headerFaults' \in 0..MaxHeaderFaults
      /\ answered' \in [maker : SUBSET Header, other : SUBSET Header]
  BY <1>6 DEF HIInv, HeaderTypeOK
<1> QED BY <1>3, <1>4, <1>6, <1>8, <1>9, QuietHeaderStep

\* The first state of a call.
LEMMA NewReqIsAReq ==
  ASSUME NEW k \in {"height", "head", "sync", "hash", "wait", "range"},
         NEW h \in 0..MaxHeight, NEW pc \in HeaderPc
  PROVE  /\ NewReq(k, h, pc) \in HeaderReq
         /\ NewReq(k, h, pc).kind = k /\ NewReq(k, h, pc).pc = pc
         /\ NewReq(k, h, pc).out = "pending"
BY NoReqIsAReq DEF HeaderReq, NewReq, NoReq

LEMMA BeginHeaderIsBeginWith ==
  ASSUME HIInv, NEW c \in Call, BeginHeader(c)
  PROVE  \E s \in HeaderReq : BeginWith(c, s) /\ StartsWell(s)
<1> DEFINE Begins == \E s \in HeaderReq : BeginWith(c, s) /\ StartsWell(s)
<1>0. ASSUME NEW s \in HeaderReq, BeginWith(c, s), StartsWell(s) PROVE Begins
  BY <1>0
<1> HIDE DEF Begins
<1>1. currentHeight \in 0..MaxHeight /\ 0 \in 0..MaxHeight
      /\ {"idle", "readHeader", "sleep", "readHash"} \subseteq HeaderPc
      /\ {"ok", "invalidRange"} \subseteq HeaderOutcome
  BY StoreAssumption DEF HIInv, IInv, TypeOK, HeaderPc, HeaderOutcome, Outcome
<1>2. ASSUME NEW h \in 0..MaxHeight, GetHeaderByHeight(c, h) PROVE Begins
  BY <1>1, <1>2, NewReqIsAReq, <1>0 DEF GetHeaderByHeight, StartsWell, OneHeader
<1>3. ASSUME GetLatestHead(c) PROVE Begins
  BY <1>1, <1>3, NewReqIsAReq, <1>0 DEF GetLatestHead, StartsWell, OneHeader
<1>4. ASSUME Sync(c) PROVE Begins
  <2> DEFINE s == NewReq("sync", 0, "idle")
             t == Answer(s, "ok")
  <2>1. s \in HeaderReq /\ s.kind = "sync" /\ s.height = 0
    <3>1. s.height = 0
      BY DEF NewReq, NoReq
    <3> QED BY <1>1, <3>1, NewReqIsAReq
  <2> HIDE DEF s
  <2>2. t \in HeaderReq /\ t.pc = "done" /\ t["kind"] = s["kind"] /\ t["height"] = s["height"]
    BY <1>1, <2>1, AnswerIsAReq
  <2> HIDE DEF t
  <2>3. CASE currentHeight = 0
    <3>1. BeginWith(c, t)
      BY <1>4, <2>3 DEF Sync, t, s
    <3>2. t.height \notin 1..currentHeight
      BY <2>1, <2>2
    <3> QED BY <2>1, <2>2, <3>1, <3>2, <1>0 DEF StartsWell
  <2>4. CASE currentHeight # 0
    <3>1. BeginWith(c, NewReq("sync", currentHeight, "readHeader"))
      BY <1>4, <2>4 DEF Sync
    <3> QED BY <1>1, <3>1, NewReqIsAReq, <1>0 DEF StartsWell
  <2> QED BY <2>3, <2>4
<1>5. ASSUME NEW h \in 0..MaxHeight, WaitForHeader(c, h) PROVE Begins
  <2> DEFINE pc == IF h <= currentHeight THEN "readHeader" ELSE "sleep"
             s == NewReq("wait", h, pc)
             t == [s EXCEPT !.attempts = MaxAttempts]
  <2>1. BeginWith(c, t)
    BY <1>5 DEF WaitForHeader
  <2>2. /\ pc \in HeaderPc /\ pc \in {"readHeader", "sleep"}
        /\ h \in 1..currentHeight => pc = "readHeader"
    BY <1>1
  <2> HIDE DEF pc
  <2>3. s \in HeaderReq /\ s.kind = "wait" /\ s.pc = pc /\ s.out = "pending" /\ s.height = h
    <3>1. s.height = h
      BY DEF NewReq, NoReq
    <3> QED BY <2>2, <3>1, NewReqIsAReq
  <2> HIDE DEF s
  <2>4. MaxAttempts \in 0..MaxAttempts /\ MaxAttempts # 0
    BY HeaderAssumption
  <2>5. t \in HeaderReq /\ t.kind = s.kind /\ t.pc = s.pc /\ t.attempts = MaxAttempts
        /\ t.out = s.out /\ t.height = s.height
    BY <2>3, <2>4 DEF HeaderReq
  <2> HIDE DEF t
  <2> QED BY <2>1, <2>2, <2>3, <2>4, <2>5, <1>0 DEF StartsWell
<1>6. ASSUME NEW from \in Height, NEW to \in 0..MaxHeight, GetHeadersByRange(c, from, to)
      PROVE Begins
  <2> DEFINE s == NewReq("range", from, "readHeader")
             t == [s EXCEPT !.upto = to]
             u == Answer(t, "invalidRange")
  <2>1. s \in HeaderReq /\ s.kind = "range" /\ s.pc = "readHeader" /\ s.out = "pending"
    BY <1>1, NewReqIsAReq DEF Height
  <2>2. s.got = <<>> /\ s.height = from
    BY DEF NewReq, NoReq
  <2>3. BeginWith(c, IF from > to THEN u ELSE t)
    BY <1>6 DEF GetHeadersByRange
  <2> HIDE DEF s
  <2>4. t \in HeaderReq /\ t.kind = s.kind /\ t.pc = s.pc /\ t.out = s.out
        /\ t.got = s.got /\ t.height = s.height /\ t.upto = to
    BY <2>1 DEF HeaderReq
  <2> HIDE DEF t
  <2>5. u \in HeaderReq /\ u.pc = "done" /\ u.out = "invalidRange" /\ u["kind"] = t["kind"]
    BY <1>1, <2>4, AnswerIsAReq
  <2> HIDE DEF u
  <2>6. CASE from > to
    BY <2>1, <2>3, <2>4, <2>5, <2>6, <1>0 DEF StartsWell, OneHeader
  <2>7. CASE ~ (from > to)
    <3>1. from <= to
      BY <2>7, StoreAssumption DEF Height
    <3> QED BY <2>1, <2>2, <2>3, <2>4, <2>7, <3>1, <1>0 DEF StartsWell, OneHeader
  <2> QED BY <2>6, <2>7
<1>7. ASSUME NEW hd \in answered.maker \cup answered.other \cup {Nil}, GetHeaderByHash(c, hd)
      PROVE Begins
  <2> DEFINE s == NewReq("hash", 0, "readHash")
             t == [s EXCEPT !.hash = hd]
             u == [t EXCEPT !.sealed = hd \in answered.maker]
  <2>1. s \in HeaderReq /\ s.kind = "hash" /\ s.pc = "readHash" /\ s.out = "pending"
    BY <1>1, NewReqIsAReq
  <2>2. BeginWith(c, u)
    BY <1>7 DEF GetHeaderByHash
  <2> HIDE DEF s
  <2>3. hd \in Header \cup {Nil}
    BY DEF HIInv, HeaderTypeOK
  <2>4. t \in HeaderReq /\ t.kind = s.kind /\ t.pc = s.pc /\ t.out = s.out /\ t.hash = hd
    BY <2>1, <2>3 DEF HeaderReq
  <2> HIDE DEF t
  <2>5. u \in HeaderReq /\ u.kind = t.kind /\ u.pc = t.pc /\ u.out = t.out /\ u.hash = t.hash
        /\ (u.sealed => hd \in answered.maker)
    <3>1. CASE hd \in answered.maker
      <4>1. u = [t EXCEPT !.sealed = TRUE]
        BY <3>1
      <4> QED BY <2>4, <3>1, <4>1 DEF HeaderReq
    <3>2. CASE hd \notin answered.maker
      <4>0. (hd \in answered.maker) = FALSE
        BY <3>2
      <4>1. u = [t EXCEPT !.sealed = FALSE]
        BY <4>0
      <4> QED BY <2>4, <4>1 DEF HeaderReq
    <3> QED BY <3>1, <3>2
  <2> HIDE DEF u
  <2> QED BY <2>1, <2>2, <2>4, <2>5, <1>0 DEF StartsWell
<1>8. Begins
  BY <1>2, <1>3, <1>4, <1>5, <1>6, <1>7 DEF BeginHeader
<1> QED BY <1>8 DEF Begins

LEMMA BeginHeaderStep ==
  ASSUME HIInv, NEW c \in Call, BeginHeader(c)
  PROVE  HIInv'
<1>1. PICK s \in HeaderReq : BeginWith(c, s) /\ StartsWell(s)
  BY BeginHeaderIsBeginWith
<1> QED BY <1>1, BeginWithStep

\* A header call begins with the state of one, and is found in it.
LEMMA HeaderFacts ==
  ASSUME HIInv, NEW c \in Call
  PROVE  /\ HeaderTypeOK /\ HeaderCallInv(c) /\ TypeOK
         /\ req[c] \in HeaderReq /\ call[c] \in CallState
         /\ currentHeight \in 0..MaxHeight /\ MaxHeight \in Nat
         /\ \A s : req' = [req EXCEPT ![c] = s] => req'[c] = s
BY StoreAssumption DEF HIInv, HeaderTypeOK, IInv, TypeOK

\* The call goes on by itself to a place where it relies on nothing.
LEMMA GoesOnStep ==
  ASSUME HIInv, NEW c \in Call, NEW s \in HeaderReq, GoesOn(c, s), s.kind # "hash",
         s.pc \in {"readHeader", "done"}, req[c].pc # "setHash",
         UNCHANGED <<vars, header, headerHash, headerFaults, generated>>
  PROVE  HIInv'
<1>1. req' = [req EXCEPT ![c] = s] /\ AnsweredBy(c, s)
  BY DEF GoesOn
<1>2. req'[c] = s
  BY <1>1, HeaderFacts
<1>3. HeaderCallInv(c)'
  BY <1>2, RestingHeaderCall
<1>4. answered' \in [maker : SUBSET Header, other : SUBSET Header]
      /\ answered'.maker = answered.maker
  BY <1>1, HeaderFacts, AnsweredHeaders
<1>5. headerFaults' \in 0..MaxHeaderFaults
  BY DEF HIInv, HeaderTypeOK
<1> QED BY <1>1, <1>3, <1>4, <1>5, QuietHeaderStep

LEMMA ReadHeaderStep ==
  ASSUME HIInv, NEW c \in Call, ReadHeaderNotFound(c) \/ ReadHeader(c)
  PROVE  HIInv'
<1> DEFINE h == req[c].height
           hd == << <<h, header[h]>> >>
           none == <<>>
<1>1. req[c].pc = "readHeader" /\ req[c] \in HeaderReq
      /\ UNCHANGED <<vars, header, headerHash, headerFaults, generated>>
  BY HeaderFacts DEF ReadHeaderNotFound, ReadHeader
<1>2. req[c].kind # "hash"
  BY <1>1, HeaderFacts DEF HeaderCallInv
<1>3. CASE ReadHeaderNotFound(c)
  <2>1. GoesOn(c, AfterHeader(req[c], none)) /\ none \in Seq(Header)
    BY <1>3 DEF ReadHeaderNotFound
  <2> HIDE DEF none
  <2> QED BY <1>1, <1>2, <2>1, AfterHeaderIsAReq, GoesOnStep
<1>4. CASE ReadHeader(c)
  <2>1. GoesOn(c, AfterHeader(req[c], hd)) /\ header[h] # Nil /\ ~ HeightUnknown(h)
    BY <1>4 DEF ReadHeader
  <2>2. h \in Height
    BY <1>1, <2>1, HeaderFacts DEF HeightUnknown, Height, HeaderReq
  <2>3. <<h, header[h]>> \in Header
    BY <2>1, <2>2, HeaderFacts DEF HeaderTypeOK, Header
  <2>4. hd \in Seq(Header)
    BY <2>3
  <2> HIDE DEF hd
  <2> QED BY <1>1, <1>2, <2>1, <2>4, AfterHeaderIsAReq, GoesOnStep
<1> QED BY <1>3, <1>4

LEMMA PanicFromEdsStep ==
  ASSUME HIInv, NEW c \in Call, PanicFromEds(c)
  PROVE  HIInv'
<1>1. req[c].pc = "building" /\ req[c] \in HeaderReq
      /\ UNCHANGED <<vars, header, headerHash, headerFaults, generated>>
      /\ GoesOn(c, Answer(req[c], "panic"))
  BY HeaderFacts DEF PanicFromEds
<1>2. req[c].kind # "hash"
  BY <1>1, HeaderFacts DEF HeaderCallInv
<1>3. "panic" \in HeaderOutcome
  BY DEF HeaderOutcome, Outcome
<1>4. Answer(req[c], "panic")["kind"] = req[c]["kind"]
  BY <1>1, <1>3, AnswerIsAReq
<1> QED BY <1>1, <1>2, <1>3, <1>4, AnswerIsAReq, GoesOnStep

\* Steps of header calls that are steps of BlobStore.
LEMMA GetEdsIsBegin ==
  ASSUME NEW c \in Call, NEW h \in 0..MaxHeight, GetEds(c, h)
  PROVE  [Next]_vars
BY DEF Begin, Next

LEMMA FinishIsNext ==
  ASSUME NEW c \in Call, Finish(c)
  PROVE  [Next]_vars
BY DEF Next

LEMMA ReadNoHeaderStep ==
  ASSUME HIInv, NEW c \in Call, ReadNoHeader(c)
  PROVE  HIInv' /\ [Next]_vars
<1> DEFINE h == req[c].height
           s == [req[c] EXCEPT !.pc = "building"]
           t == [s EXCEPT !.first = TRUE]
<1>1. /\ req[c].pc = "readHeader" /\ req[c] \in HeaderReq
      /\ ~ HeightUnknown(h) /\ GetEds(c, h) /\ header[h] = Nil
      /\ UNCHANGED <<header, headerHash, headerFaults, generated, answered>>
  BY HeaderFacts DEF ReadNoHeader
<1>2. req' = [req EXCEPT ![c] = t]
  <2>1. (header[h] = Nil) = TRUE
    BY <1>1
  <2> QED BY <2>1, HeaderFacts DEF ReadNoHeader
<1>3. h \in 1..currentHeight /\ h \in 0..MaxHeight
  BY <1>1, HeaderFacts DEF HeightUnknown, HeaderReq
<1>4. req[c].kind # "hash"
  BY <1>1, HeaderFacts DEF HeaderCallInv
<1>5. s \in HeaderReq /\ s.pc = "building" /\ s.height = h /\ s.kind = req[c].kind
  BY <1>1 DEF HeaderReq, HeaderPc
<1> HIDE DEF s
<1>6. t \in HeaderReq /\ t.pc = "building" /\ t.height = h /\ t.kind = s.kind /\ t.first
  BY <1>5 DEF HeaderReq
<1> HIDE DEF t
<1>7. [Next]_vars
  BY <1>1, <1>3, GetEdsIsBegin
<1>8. IInv' /\ currentHeight' = currentHeight
  BY <1>1, <1>7, Inductive DEF HIInv, GetEds
<1>9. HeaderCallInv(c)'
  <2>1. req'[c] = t
    BY <1>2, HeaderFacts
  <2>2. t.kind # "hash"
    BY <1>4, <1>5, <1>6
  <2> QED BY <1>3, <1>6, <1>8, <2>1, <2>2 DEF HeaderCallInv
<1>10. HeaderGrow /\ HeaderKeysInv'
  BY <1>1, <1>8, HeaderFacts DEF HeaderGrow, HIInv, HeaderKeysInv
<1> QED BY <1>1, <1>2, <1>6, <1>7, <1>8, <1>9, <1>10, HeaderCallStep DEF HIInv, HeaderTypeOK

\* generate_new has made one more header, of the square that was built.
LEMMA OneMoreGenerated ==
  ASSUME HIInv, NEW c \in Call, req[c].pc = "building",
         generated' = [generated EXCEPT ![req[c].height] = Append(@, call[c].square)]
  PROVE  /\ generated' \in [Height -> Seq(Seq(Blob))]
         /\ Len(generated[req[c].height]) + 1 \in Nat \ {0}
         /\ req[c].height \in 1..currentHeight /\ req[c].height \in Height
         /\ req[c].first /\ req[c].kind # "hash"
<1> DEFINE h == req[c].height
<1>1. h \in 1..currentHeight /\ h \in Height /\ req[c].first /\ req[c].kind # "hash"
  BY HeaderFacts DEF HeaderCallInv, Height, HeaderReq
<1>2. generated \in [Height -> Seq(Seq(Blob))] /\ call[c].square \in Seq(Blob)
  BY HeaderFacts DEF CallState, HeaderTypeOK
<1>3. generated[h] \in Seq(Seq(Blob))
  BY <1>1, <1>2
<1>4. Append(generated[h], call[c].square) \in Seq(Seq(Blob)) /\ Len(generated[h]) \in Nat
  BY <1>2, <1>3
<1>5. generated' \in [Height -> Seq(Seq(Blob))]
  BY <1>1, <1>2, <1>4
<1> QED BY <1>1, <1>4, <1>5

LEMMA GenerateStep ==
  ASSUME HIInv, NEW c \in Call, Generate(c)
  PROVE  HIInv' /\ [Next]_vars
<1> DEFINE h == req[c].height
           n == Len(generated[h]) + 1
           s == [req[c] EXCEPT !.pc = "setHeader"]
           t == [s EXCEPT !.new = n]
<1>1. /\ req[c].pc = "building" /\ req[c] \in HeaderReq
      /\ Finish(c)
      /\ generated' = [generated EXCEPT ![h] = Append(@, call[c].square)]
      /\ req' = [req EXCEPT ![c] = t]
      /\ UNCHANGED <<header, headerHash, headerFaults, answered>>
  <2>1. req' = [req EXCEPT ![c] = t]
    <3>1. req' = [req EXCEPT ![c].pc = "setHeader", ![c].new = n]
      BY DEF Generate
    <3> HIDE DEF n
    <3> QED BY <3>1, HeaderFacts DEF HeaderTypeOK
  <2> QED BY <2>1, HeaderFacts DEF Generate
<1>2. /\ h \in 1..currentHeight /\ h \in Height /\ req[c].first /\ req[c].kind # "hash"
      /\ generated' \in [Height -> Seq(Seq(Blob))] /\ n \in Nat \ {0}
  BY <1>1, OneMoreGenerated
<1> HIDE DEF n
<1>4. /\ s \in HeaderReq /\ s.pc = "setHeader" /\ s.height = h
      /\ s.kind = req[c].kind /\ s.first = req[c].first
  BY <1>1 DEF HeaderReq, HeaderPc
<1> HIDE DEF s
<1>5. /\ t \in HeaderReq /\ t.pc = "setHeader" /\ t.height = h /\ t.new = n
      /\ t.kind = req[c].kind /\ t.first = req[c].first
  BY <1>2, <1>4 DEF HeaderReq
<1> HIDE DEF t
<1>6. [Next]_vars
  BY <1>1, FinishIsNext
<1>7. IInv' /\ currentHeight' = currentHeight
  BY <1>1, <1>6, Inductive DEF HIInv, Finish
<1>8. HeaderCallInv(c)'
  <2>1. req'[c] = t
    BY <1>1, HeaderFacts
  <2> QED BY <1>2, <1>5, <1>7, <2>1 DEF HeaderCallInv
<1>9. HeaderGrow /\ HeaderKeysInv'
  BY <1>1, <1>7, HeaderFacts DEF HeaderGrow, HIInv, HeaderKeysInv
<1> QED
  BY <1>1, <1>2, <1>5, <1>6, <1>7, <1>8, <1>9, HeaderCallStep DEF HIInv, HeaderTypeOK

LEMMA PanicFromValidateStep ==
  ASSUME HIInv, NEW c \in Call, PanicFromValidate(c)
  PROVE  HIInv' /\ [Next]_vars
<1> DEFINE h == req[c].height
           t == Answer(req[c], "panic")
<1>1. /\ req[c].pc = "building" /\ req[c] \in HeaderReq
      /\ Finish(c)
      /\ generated' = [generated EXCEPT ![h] = Append(@, call[c].square)]
      /\ req' = [req EXCEPT ![c] = t] /\ AnsweredBy(c, t)
      /\ UNCHANGED <<header, headerHash, headerFaults>>
  BY HeaderFacts DEF PanicFromValidate, GoesOn
<1>2. req[c].kind # "hash" /\ generated' \in [Height -> Seq(Seq(Blob))]
  BY <1>1, OneMoreGenerated
<1>3. t \in HeaderReq /\ t.pc = "done" /\ t["kind"] = req[c]["kind"]
  <2>1. "panic" \in HeaderOutcome
    BY DEF HeaderOutcome, Outcome
  <2> QED BY <1>1, <2>1, AnswerIsAReq
<1> HIDE DEF t
<1>4. [Next]_vars
  BY <1>1, FinishIsNext
<1>5. IInv' /\ currentHeight' = currentHeight
  BY <1>1, <1>4, Inductive DEF HIInv, Finish
<1>6. HeaderCallInv(c)'
  <2>1. req'[c] = t
    BY <1>1, HeaderFacts
  <2> QED BY <1>2, <1>3, <2>1, RestingHeaderCall
<1>7. answered' \in [maker : SUBSET Header, other : SUBSET Header]
      /\ answered'.maker = answered.maker
  BY <1>1, <1>3, HeaderFacts, AnsweredHeaders
<1>8. HeaderGrow /\ HeaderKeysInv'
  BY <1>1, <1>5, <1>7, HeaderFacts DEF HeaderGrow, HIInv, HeaderKeysInv
<1> QED
  BY <1>1, <1>2, <1>3, <1>4, <1>5, <1>6, <1>7, <1>8, HeaderCallStep DEF HIInv, HeaderTypeOK

\* The two writes of store_header: the call goes on as s, or has given up.
LEMMA HeaderWriteStep ==
  ASSUME HIInv, NEW c \in Call, NEW s \in HeaderReq, AfterHeaderWrite(c, s),
         req[c].pc \in HeaderWritePc, IInv', currentHeight' = currentHeight,
         header' \in [Height -> (Nat \ {0}) \cup {Nil}], headerHash' \subseteq Header,
         \A h \in Height : header'[h] # header[h] => h <= currentHeight /\ header'[h] # Nil,
         headerHash \subseteq headerHash', \A hd \in headerHash' : header'[hd[1]] # Nil,
         UNCHANGED <<headerFaults, generated>>,
         answered'.maker \subseteq headerHash',
         s.kind # "hash", s.pc \in {"setHash", "readHeader", "done"},
         s.pc = "setHash" =>
           /\ s.height \in 1..currentHeight /\ s.new # 0 /\ header'[s.height] # Nil
  PROVE  HIInv'
<1> DEFINE t == IF AbandonedHeader(c) THEN Answer(req[c], "redisError") ELSE s
<1>1. req[c] \in HeaderReq /\ req[c].kind # "hash" /\ "redisError" \in HeaderOutcome
  BY HeaderFacts DEF HeaderCallInv, HeaderWritePc, HeaderOutcome, Outcome
<1>2. t \in HeaderReq /\ t.kind # "hash"
      /\ (t.pc \in {"readHeader", "done"} \/ (t = s /\ s.pc = "setHash"))
  <2>1. Answer(req[c], "redisError")["kind"] = req[c]["kind"]
    BY <1>1, AnswerIsAReq
  <2> QED BY <1>1, <2>1, AnswerIsAReq
<1>3. req' = [req EXCEPT ![c] = t] /\ AnsweredBy(c, t)
  BY DEF AfterHeaderWrite, GoesOn
<1> HIDE DEF t
<1>4. req'[c] = t
  BY <1>3, HeaderFacts
<1>5. HeaderCallInv(c)'
  BY <1>2, <1>4 DEF HeaderCallInv
<1>6. HeaderGrow
  BY HeaderFacts DEF HeaderGrow
<1>7. HeaderKeysInv'
  BY DEF HeaderKeysInv, HIInv
<1>8. answered' \in [maker : SUBSET Header, other : SUBSET Header]
  BY <1>2, <1>3, HeaderFacts, AnsweredHeaders
<1>9. headerFaults' \in 0..MaxHeaderFaults /\ generated' \in [Height -> Seq(Seq(Blob))]
  BY DEF HIInv, HeaderTypeOK
<1> QED BY <1>2, <1>3, <1>5, <1>6, <1>7, <1>8, <1>9, HeaderCallStep

LEMMA SetHeaderStep ==
  ASSUME HIInv, NEW c \in Call, SetHeader(c)
  PROVE  HIInv'
<1> DEFINE h == req[c].height
           s == [req[c] EXCEPT !.pc = "setHash"]
<1>1. /\ req[c].pc = "setHeader" /\ req[c] \in HeaderReq
      /\ header' = [header EXCEPT ![h] = req[c].new]
      /\ AfterHeaderWrite(c, s)
      /\ UNCHANGED <<vars, headerHash, headerFaults, generated>>
  BY HeaderFacts DEF SetHeader
<1>2. /\ h \in 1..currentHeight /\ h \in Height
      /\ req[c].new \in Nat \ {0} /\ req[c].kind # "hash"
  BY <1>1, HeaderFacts DEF HeaderCallInv, Height, HeaderReq
<1>3. req[c].new # Nil
  BY <1>2, StoreAssumption
<1>4. header \in [Height -> (Nat \ {0}) \cup {Nil}] /\ headerHash \subseteq Header
  BY HeaderFacts DEF HeaderTypeOK
<1>5. /\ header' \in [Height -> (Nat \ {0}) \cup {Nil}]
      /\ header'[h] = req[c].new /\ \A k \in Height \ {h} : header'[k] = header[k]
  BY <1>1, <1>2, <1>4
<1>6. /\ s \in HeaderReq /\ s.pc = "setHash" /\ s.height = h /\ s.new = req[c].new
      /\ s.kind = req[c].kind
  BY <1>1 DEF HeaderReq, HeaderPc
<1> HIDE DEF s
<1>7. IInv' /\ currentHeight' = currentHeight
  BY <1>1, Inductive DEF HIInv, vars
<1>8. \A hd \in headerHash' : header'[hd[1]] # Nil
  <2>1. \A hd \in headerHash : hd[1] \in Height /\ header[hd[1]] # Nil
    BY <1>4 DEF HIInv, HeaderKeysInv, Header
  <2> QED BY <1>1, <1>3, <1>5, <2>1
<1>9. answered'.maker \subseteq headerHash'
  <2> DEFINE u == IF AbandonedHeader(c) THEN Answer(req[c], "redisError") ELSE s
  <2>1. u \in HeaderReq /\ AnsweredBy(c, u)
    BY <1>1, <1>6, AnswerIsAReq DEF AfterHeaderWrite, GoesOn, HeaderOutcome, Outcome
  <2> HIDE DEF u
  <2>2. answered'.maker = answered.maker
    BY <1>1, <2>1, HeaderFacts, AnsweredHeaders
  <2> QED BY <1>1, <2>2 DEF HIInv, HeaderKeysInv
<1>10. \A k \in Height : header'[k] # header[k] => k <= currentHeight /\ header'[k] # Nil
  BY <1>2, <1>3, <1>5
<1>11. headerHash' \subseteq Header /\ headerHash \subseteq headerHash'
       /\ UNCHANGED <<headerFaults, generated>> /\ req[c].pc \in HeaderWritePc
  BY <1>1, <1>4 DEF HeaderWritePc
<1>12. s.kind # "hash" /\ s.height \in 1..currentHeight /\ s.new # 0
       /\ header'[s.height] # Nil
  BY <1>2, <1>3, <1>5, <1>6
<1> QED
  BY <1>1, <1>5, <1>6, <1>7, <1>8, <1>9, <1>10, <1>11, <1>12, HeaderWriteStep

\* The height that store_header ends with is the one it finds.
LEMMA SetHashStep ==
  ASSUME HIInv, NEW c \in Call, SetHash(c)
  PROVE  HIInv' /\ UNCHANGED vars
<1> DEFINE h == req[c].height
           hd == <<h, req[c].new>>
           one == <<hd>>
           s == AfterHeader(req[c], one)
<1>1. /\ req[c].pc = "setHash" /\ req[c] \in HeaderReq
      /\ headerHash' = headerHash \cup {hd}
      /\ AfterHeaderWrite(c, s)
      /\ UNCHANGED <<redisVars, call, faults, historyVars, header, headerFaults, generated>>
  BY HeaderFacts DEF SetHash
<1>2. /\ h \in 1..currentHeight /\ h \in Height /\ header[h] # Nil
      /\ req[c].new \in Nat \ {0} /\ req[c].kind # "hash"
  BY <1>1, HeaderFacts DEF HeaderCallInv, Height, HeaderReq
<1>3. currentHeight' = currentHeight
  BY <1>2, HeaderFacts DEF SetHash, HeightAfterHeader
<1>4. UNCHANGED vars
  BY <1>1, <1>3 DEF vars
<1>5. IInv'
  BY <1>4, Inductive DEF HIInv
<1>6. hd \in Header
  BY <1>2 DEF Header
<1> HIDE DEF hd
<1>7. one \in Seq(Header) /\ Len(one) = 1 /\ one[1] = hd
  BY <1>6
<1> HIDE DEF one
<1>8. s \in HeaderReq /\ s.pc \in {"done", "readHeader"} /\ s.kind = req[c].kind
      /\ s.got = req[c].got \o one
  BY <1>1, <1>7, AfterHeaderIsAReq
<1>9. Last(s.got) = hd
  <2>1. req[c].got \in Seq(Header)
    BY <1>1 DEF HeaderReq
  <2>2. Len(req[c].got \o one) = Len(req[c].got) + 1
        /\ (req[c].got \o one)[Len(req[c].got) + 1] = hd
    <3> DEFINE g == req[c].got
    <3>1. g \in Seq(Header)
      BY <2>1
    <3> HIDE DEF g
    <3>2. Len(g) \in Nat /\ Len(g \o one) = Len(g) + 1
      BY <1>7, <3>1, ConcatProperties
    <3>3. (g \o one)[Len(g) + 1] = one[1]
      <4>1. (g \o one)[Len(g) + 1]
              = IF Len(g) + 1 <= Len(g) THEN g[Len(g) + 1] ELSE one[Len(g) + 1 - Len(g)]
        BY <1>7, <3>1, <3>2, ConcatProperties
      <4>2. ~ (Len(g) + 1 <= Len(g)) /\ Len(g) + 1 - Len(g) = 1
        BY <3>2
      <4> QED BY <4>1, <4>2
    <3> QED BY <1>7, <3>2, <3>3 DEF g
  <2> QED BY <1>8, <2>2 DEF Last
<1> HIDE DEF s
<1>10. /\ header' \in [Height -> (Nat \ {0}) \cup {Nil}]
       /\ headerHash' \subseteq Header /\ headerHash \subseteq headerHash'
       /\ req[c].pc \in HeaderWritePc
       /\ UNCHANGED <<header, headerFaults, generated>>
  BY <1>1, <1>6, HeaderFacts DEF HeaderTypeOK, HeaderWritePc
<1>11. \A k \in headerHash' : header'[k[1]] # Nil
  <2>1. hd[1] = h
    BY DEF hd
  <2>2. \A k \in headerHash : header[k[1]] # Nil
    BY DEF HIInv, HeaderKeysInv
  <2> QED BY <1>1, <1>2, <1>10, <2>1, <2>2
<1>12. answered'.maker \subseteq headerHash'
  <2> DEFINE u == IF AbandonedHeader(c) THEN Answer(req[c], "redisError") ELSE s
  <2>1. "redisError" \in HeaderOutcome
    BY DEF HeaderOutcome, Outcome
  <2>2. u \in HeaderReq /\ AnsweredBy(c, u)
    BY <1>1, <1>8, <2>1, AnswerIsAReq DEF AfterHeaderWrite, GoesOn
  <2>3. u.out = "ok" => u = s
    BY <1>1, <2>1, AnswerIsAReq
  <2> HIDE DEF u
  <2>4. \A k \in answered'.maker : k \in answered.maker \/ k = hd
    BY <1>9, <2>2, <2>3, HeaderFacts, AnsweredHeaders
  <2> QED BY <1>1, <2>4 DEF HIInv, HeaderKeysInv
<1> QED
  BY <1>1, <1>2, <1>3, <1>4, <1>5, <1>8, <1>10, <1>11, <1>12, HeaderWriteStep

LEMMA LookAgainStep ==
  ASSUME HIInv, NEW c \in Call, LookAgain(c)
  PROVE  HIInv'
<1> DEFINE r == req[c]
           s == [r EXCEPT !.pc = "readHeader"]
           w == [r EXCEPT !.attempts = @ - 1]
           z == [r EXCEPT !.attempts = 0]
           t == Answer(z, "timeout")
<1>1. /\ r.pc = "sleep" /\ r \in HeaderReq /\ r.kind # "hash" /\ r.attempts # 0
      /\ UNCHANGED <<vars, header, headerHash, headerFaults, generated, answered>>
  BY HeaderFacts DEF LookAgain, HeaderCallInv
<1>2. \/ req' = [req EXCEPT ![c] = s]
      \/ req' = [req EXCEPT ![c] = t]
      \/ req' = [req EXCEPT ![c] = w] /\ r.attempts # 1
  BY DEF LookAgain
<1>3. s \in HeaderReq /\ s.kind = r.kind /\ s.pc = "readHeader"
  BY <1>1 DEF HeaderReq, HeaderPc
<1>4. z \in HeaderReq /\ z.kind = r.kind
  <2>1. 0 \in 0..MaxAttempts
    BY HeaderAssumption
  <2> QED BY <1>1, <2>1 DEF HeaderReq
<1>5. w \in HeaderReq /\ w.kind = r.kind /\ w.pc = r.pc /\ (r.attempts # 1 => w.attempts # 0)
  <2>1. r.attempts \in 0..MaxAttempts /\ MaxAttempts \in Nat
    BY <1>1, HeaderAssumption DEF HeaderReq
  <2>2. r.attempts - 1 \in 0..MaxAttempts /\ (r.attempts # 1 => r.attempts - 1 # 0)
    BY <1>1, <2>1
  <2> QED BY <1>1, <2>2 DEF HeaderReq
<1> HIDE DEF s, w, z
<1>6. t \in HeaderReq /\ t.pc = "done" /\ t["kind"] = z["kind"]
  BY <1>4, AnswerIsAReq DEF HeaderOutcome
<1> HIDE DEF t
<1>7. ASSUME NEW u \in HeaderReq, req' = [req EXCEPT ![c] = u], u.kind # "hash",
             u.pc \in {"sleep", "readHeader", "done"}, u.pc = "sleep" => u.attempts # 0
      PROVE  HIInv'
  <2>1. req'[c] = u
    BY <1>7, HeaderFacts
  <2>2. HeaderCallInv(c)'
    BY <1>7, <2>1, RestingHeaderCall
  <2>3. headerFaults' \in 0..MaxHeaderFaults /\ answered' = answered
        /\ answered' \in [maker : SUBSET Header, other : SUBSET Header]
    BY <1>1, HeaderFacts DEF HeaderTypeOK
  <2> QED BY <1>1, <1>7, <2>2, <2>3, QuietHeaderStep
<1> QED BY <1>1, <1>2, <1>3, <1>4, <1>5, <1>6, <1>7

\* A call for a hash goes on: what holds of its state makes the invariant hold.
LEMMA HashCallStep ==
  ASSUME HIInv, NEW c \in Call, NEW s \in HeaderReq, GoesOn(c, s), req[c].pc # "setHash",
         UNCHANGED <<vars, header, headerHash, headerFaults, generated>>,
         s.kind = "hash",
         \/ s.pc = "readKey" /\ s.out = "pending" /\ s.hash \in headerHash
            /\ s.height = s.hash[1]
         \/ s.pc = "done",
         s.sealed =>
           /\ s.hash \in headerHash
           /\ s.out # "headerNotFound"
           /\ s.out = "ok" => s.got[1][1] = s.hash[1]
  PROVE  HIInv'
<1>1. req' = [req EXCEPT ![c] = s] /\ AnsweredBy(c, s)
  BY DEF GoesOn
<1>2. req'[c] = s
  BY <1>1, HeaderFacts
<1>3. HeaderCallInv(c)'
  BY <1>2 DEF HeaderCallInv
<1>4. answered' \in [maker : SUBSET Header, other : SUBSET Header]
      /\ answered'.maker = answered.maker
  BY <1>1, HeaderFacts, AnsweredHeaders
<1>5. headerFaults' \in 0..MaxHeaderFaults
  BY DEF HIInv, HeaderTypeOK
<1> QED BY <1>1, <1>3, <1>4, <1>5, QuietHeaderStep

\* What a call for a hash knows while it is at work.
LEMMA HashCallFacts ==
  ASSUME HIInv, NEW c \in Call, req[c].pc \in {"readHash", "readKey"}
  PROVE  /\ req[c] \in HeaderReq /\ req[c].kind = "hash" /\ req[c].out = "pending"
         /\ req[c].sealed => req[c].hash \in headerHash
         /\ req[c].pc = "readKey" =>
              req[c].hash \in headerHash /\ req[c].height = req[c].hash[1]
BY HeaderFacts DEF HeaderCallInv

LEMMA ReadHashStep ==
  ASSUME HIInv, NEW c \in Call, ReadHash(c)
  PROVE  HIInv'
<1> DEFINE r == req[c]
           s == [r EXCEPT !.pc = "readKey"]
           t == [s EXCEPT !.height = r.hash[1]]
           no == Answer(r, "headerNotFound")
<1>1. /\ r.pc = "readHash" /\ r \in HeaderReq /\ r.kind = "hash" /\ r.out = "pending"
      /\ r.sealed => r.hash \in headerHash
      /\ UNCHANGED <<vars, header, headerHash, headerFaults, generated>>
  BY HashCallFacts DEF ReadHash
<1>2. CASE r.hash \in headerHash
  <2>1. GoesOn(c, t)
    BY <1>2 DEF ReadHash
  <2>2. s \in HeaderReq /\ s.pc = "readKey" /\ s.kind = r.kind /\ s.out = r.out
        /\ s.hash = r.hash /\ s.sealed = r.sealed
    BY <1>1 DEF HeaderReq, HeaderPc
  <2> HIDE DEF s
  <2>3. r.hash[1] \in 0..MaxHeight
    BY <1>2, HeaderFacts DEF HeaderTypeOK, Header, Height
  <2>4. t \in HeaderReq /\ t.pc = "readKey" /\ t.kind = r.kind /\ t.out = r.out
        /\ t.hash = r.hash /\ t.sealed = r.sealed /\ t.height = r.hash[1]
    BY <2>2, <2>3 DEF HeaderReq
  <2> HIDE DEF t
  <2> QED BY <1>1, <1>2, <2>1, <2>4, HashCallStep
<1>3. CASE r.hash \notin headerHash
  <2>1. GoesOn(c, no)
    BY <1>3 DEF ReadHash
  <2>2. "headerNotFound" \in HeaderOutcome
    BY DEF HeaderOutcome, Outcome
  <2>3. no \in HeaderReq /\ no.pc = "done" /\ no["kind"] = r["kind"] /\ no["sealed"] = r["sealed"]
    BY <1>1, <2>2, AnswerIsAReq
  <2> HIDE DEF no
  <2> QED BY <1>1, <1>3, <2>1, <2>3, HashCallStep
<1> QED BY <1>2, <1>3

\* The key that a hash leads to has a header.
LEMMA ReadKeyStep ==
  ASSUME HIInv, NEW c \in Call, ReadKey(c)
  PROVE  HIInv'
<1> DEFINE r == req[c]
           h == r.height
           hd == << <<h, header[h]>> >>
           s == [r EXCEPT !.got = hd]
           t == Answer(s, "ok")
<1>1. /\ r.pc = "readKey" /\ r \in HeaderReq /\ r.kind = "hash"
      /\ r.hash \in headerHash /\ h = r.hash[1]
      /\ UNCHANGED <<vars, header, headerHash, headerFaults, generated>>
  BY HashCallFacts DEF ReadKey
<1>2. h \in Height /\ header[h] # Nil /\ header[h] \in Nat \ {0}
  BY <1>1, HeaderFacts DEF HIInv, HeaderKeysInv, HeaderTypeOK, Header
<1>3. GoesOn(c, t)
  BY <1>2 DEF ReadKey
<1>4. hd \in Seq(Header) /\ hd[1][1] = h
  <2>1. <<h, header[h]>> \in Header /\ <<h, header[h]>>[1] = h
    BY <1>2 DEF Header
  <2> QED BY <2>1
<1> HIDE DEF hd
<1>5. s \in HeaderReq /\ s.kind = r.kind /\ s.hash = r.hash /\ s.got = hd
  BY <1>1, <1>4 DEF HeaderReq
<1> HIDE DEF s
<1>6. "ok" \in HeaderOutcome
  BY DEF HeaderOutcome, Outcome
<1>7. t \in HeaderReq /\ t.pc = "done" /\ t.out = "ok"
      /\ t["kind"] = s["kind"] /\ t["hash"] = s["hash"] /\ t["got"] = s["got"]
  BY <1>5, <1>6, AnswerIsAReq
<1> HIDE DEF t
<1> QED BY <1>1, <1>3, <1>4, <1>5, <1>7, HashCallStep

LEMMA HeaderFaultStep ==
  ASSUME HIInv, NEW c \in Call, HeaderFault(c) \/ FinishHeader(c)
  PROVE  HIInv'
<1> DEFINE r == req[c]
           a == Answer(r, "redisError")
           w == [r EXCEPT !.out = "redisError"]
<1>1. r \in HeaderReq /\ "redisError" \in HeaderOutcome /\ MaxHeaderFaults \in Nat
      /\ headerFaults \in 0..MaxHeaderFaults
  BY HeaderFacts, HeaderAssumption DEF HeaderTypeOK, HeaderOutcome, Outcome
<1>2. UNCHANGED <<vars, header, headerHash, generated, answered>>
  BY DEF HeaderFault, FailHeaderRead, FailHeaderWrite, LoseHeaderWrite, FinishHeader
<1>3. headerFaults' \in 0..MaxHeaderFaults
  BY <1>1 DEF HeaderFault, FailHeaderRead, FailHeaderWrite, LoseHeaderWrite, FinishHeader
<1>4. ASSUME NEW u \in HeaderReq, req' = [req EXCEPT ![c] = u], HeaderCallInv(c)'
      PROVE  HIInv'
  <2>1. answered' \in [maker : SUBSET Header, other : SUBSET Header]
        /\ answered'.maker = answered.maker
    BY <1>2, HeaderFacts DEF HeaderTypeOK
  <2> QED BY <1>2, <1>3, <1>4, <2>1, QuietHeaderStep
<1>5. a \in HeaderReq /\ a.pc = "done" /\ a.out = "redisError"
      /\ a["kind"] = r["kind"] /\ a["hash"] = r["hash"] /\ a["sealed"] = r["sealed"]
  BY <1>1, AnswerIsAReq
<1>6. w \in HeaderReq /\ w.out = "redisError" /\ w.pc = r.pc /\ w.kind = r.kind
      /\ w.height = r.height /\ w.new = r.new /\ w.first = r.first
  BY <1>1 DEF HeaderReq
<1> HIDE DEF a, w
<1>7. CASE FailHeaderRead(c) \/ LoseHeaderWrite(c)
  <2>1. req' = [req EXCEPT ![c] = a]
    BY <1>7 DEF FailHeaderRead, LoseHeaderWrite, a
  <2>2. req'[c] = a
    BY <2>1, HeaderFacts
  <2>3. HeaderCallInv(c) /\ headerHash' = headerHash
    BY <1>2, HeaderFacts
  <2>4. HeaderCallInv(c)'
    BY <1>5, <2>2, <2>3 DEF HeaderCallInv
  <2> QED BY <1>4, <1>5, <2>1, <2>4
<1>8. CASE FailHeaderWrite(c)
  <2>1. r.pc \in HeaderWritePc
    BY <1>8 DEF FailHeaderWrite
  <2>2. req' = [req EXCEPT ![c] = w]
    BY <1>8 DEF FailHeaderWrite, w
  <2>3. req'[c] = w
    BY <2>2, HeaderFacts
  <2>4. HeaderCallInv(c) /\ header' = header /\ currentHeight' = currentHeight
    BY <1>2, HeaderFacts DEF vars
  <2>5. HeaderCallInv(c)'
    BY <1>6, <2>1, <2>3, <2>4 DEF HeaderCallInv, HeaderWritePc
  <2> QED BY <1>4, <1>6, <2>2, <2>5
<1>9. CASE FinishHeader(c)
  <2>1. req' = [req EXCEPT ![c] = NoReq]
    BY <1>9 DEF FinishHeader
  <2>2. req'[c] = NoReq
    BY <2>1, HeaderFacts
  <2>3. HeaderCallInv(c)'
    BY <2>2, RestingHeaderCall DEF NoReq
  <2> QED BY <1>4, <2>1, <2>3, NoReqIsAReq
<1> QED BY <1>7, <1>8, <1>9 DEF HeaderFault

\* A step of the blob half beside the header calls.
LEMMA BlobStepStep ==
  ASSUME HIInv, [Next]_vars, UNCHANGED headerVars
  PROVE  HIInv'
<1>1. IInv' /\ currentHeight \in Nat /\ currentHeight' \in Nat
  BY Inductive, StoreAssumption DEF HIInv, IInv, TypeOK
<1>2. currentHeight' >= currentHeight
  BY <1>1, HeightGrows
<1>3. HeaderGrow
  BY <1>2 DEF HeaderGrow, headerVars
<1>4. HeaderTypeOK'
  BY DEF HIInv, HeaderTypeOK, headerVars
<1>5. HeaderKeysInv'
  <2>1. \A h \in Height : h <= currentHeight => h <= currentHeight'
    BY <1>1, <1>2, StoreAssumption DEF Height
  <2> QED BY <2>1 DEF HIInv, HeaderKeysInv, headerVars
<1>6. ASSUME NEW c \in Call PROVE HeaderCallInv(c)'
  <2>1. HeaderTypeOK /\ HeaderCallInv(c) /\ currentHeight \in 0..MaxHeight /\ req'[c] = req[c]
    BY HeaderFacts DEF headerVars
  <2> QED BY <1>1, <1>3, <2>1, OtherHeaderCalls
<1> QED BY <1>1, <1>4, <1>5, <1>6 DEF HIInv

-----------------------------------------------------------------------------
(* The invariant.                                                          *)

LEMMA HeaderInitially == HeaderInit => HIInv
<1> SUFFICES ASSUME HeaderInit PROVE HIInv
  OBVIOUS
<1>1. IInv
  BY Initially DEF HeaderInit
<1>2. <<>> \in Seq(Seq(Blob)) /\ 0 \in 0..MaxHeaderFaults
  BY HeaderAssumption
<1>3. HeaderTypeOK
  BY <1>2, NoReqIsAReq DEF HeaderInit, HeaderTypeOK
<1>4. HeaderKeysInv
  BY DEF HeaderInit, HeaderKeysInv
<1>5. ASSUME NEW c \in Call PROVE HeaderCallInv(c)
  <2>1. req[c] = NoReq
    BY DEF HeaderInit
  <2> QED BY <2>1 DEF HeaderCallInv, NoReq
<1> QED BY <1>1, <1>3, <1>4, <1>5 DEF HIInv

\* Every step keeps the invariant, and is one of BlobStore.
LEMMA HeaderInductive == HIInv /\ [HeaderNext]_hvars => HIInv' /\ [Next]_vars
<1> SUFFICES ASSUME HIInv, [HeaderNext]_hvars PROVE HIInv' /\ [Next]_vars
  OBVIOUS
<1>1. ASSUME NEW c \in Call, BlobStep(c) PROVE HIInv' /\ [Next]_vars
  <2>1. [Next]_vars /\ UNCHANGED headerVars
    BY <1>1 DEF BlobStep, Next
  <2> QED BY <2>1, BlobStepStep
<1>2. ASSUME NEW c \in Call, BeginHeader(c) PROVE HIInv' /\ [Next]_vars
  <2>1. UNCHANGED vars
    BY <1>2 DEF BeginHeader, GetHeaderByHeight, WaitForHeader, GetHeadersByRange,
                GetLatestHead, Sync, GetHeaderByHash, BeginWith
  <2> QED BY <1>2, <2>1, BeginHeaderStep
<1>3. ASSUME NEW c \in Call, HeaderStep(c) PROVE HIInv' /\ [Next]_vars
  <2>1. CASE ReadHeaderNotFound(c) \/ ReadHeader(c)
    BY <2>1, ReadHeaderStep DEF ReadHeaderNotFound, ReadHeader
  <2>2. CASE ReadNoHeader(c)
    BY <2>2, ReadNoHeaderStep
  <2>3. CASE PanicFromEds(c)
    BY <2>3, PanicFromEdsStep DEF PanicFromEds
  <2>4. CASE Generate(c)
    BY <2>4, GenerateStep
  <2>5. CASE SetHeader(c)
    BY <2>5, SetHeaderStep DEF SetHeader
  <2>6. CASE SetHash(c)
    BY <2>6, SetHashStep
  <2>7. CASE LookAgain(c)
    BY <2>7, LookAgainStep DEF LookAgain
  <2>8. CASE ReadHash(c)
    BY <2>8, ReadHashStep DEF ReadHash
  <2>9. CASE ReadKey(c)
    BY <2>9, ReadKeyStep DEF ReadKey
  <2>10. CASE PanicFromValidate(c)
    BY <2>10, PanicFromValidateStep
  <2> QED
    BY <1>3, <2>1, <2>2, <2>3, <2>4, <2>5, <2>6, <2>7, <2>8, <2>9, <2>10 DEF HeaderStep
<1>4. ASSUME NEW c \in Call, HeaderFault(c) \/ FinishHeader(c) PROVE HIInv' /\ [Next]_vars
  <2>1. UNCHANGED vars
    BY <1>4 DEF HeaderFault, FailHeaderRead, FailHeaderWrite, LoseHeaderWrite, FinishHeader
  <2> QED BY <1>4, <2>1, HeaderFaultStep
<1>5. CASE UNCHANGED hvars
  <2>1. UNCHANGED vars /\ UNCHANGED headerVars
    BY <1>5 DEF hvars
  <2> QED BY <2>1, BlobStepStep
<1> QED BY <1>1, <1>2, <1>3, <1>4, <1>5 DEF HeaderNext

\* The invariant holds in every state of the store with its headers.
THEOREM HeaderInvariance == HeaderSpec => []HIInv
<1> QED BY HeaderInitially, HeaderInductive, PTL DEF HeaderSpec

\* The state of every header, every key and every header call stays well-formed,
\* however many calls there are and whatever fails.
THEOREM HeaderTypeCorrect == HeaderSpec => []HeaderTypeOK
<1>1. HIInv => HeaderTypeOK
  BY DEF HIInv
<1> QED BY <1>1, HeaderInvariance, PTL

\* The header half is a client of the blob half: its squares are built as those
\* of share.GetEDS are, and store_header leaves the current height as it is.
THEOREM HeadersImplementBlobStore == HeaderSpec => ImplementsBlobStore
<1>1. HeaderInit => Init
  BY DEF HeaderInit
<1> QED
  BY <1>1, HeaderInitially, HeaderInductive, PTL
  DEF HeaderSpec, ImplementsBlobStore, Spec

\* A header that its maker has answered with is found by its hash, by a call that
\* reads it while others store theirs at the same height.
THEOREM SealedHeadersCorrect == HeaderSpec => []SealedHeadersAreFound
<1>1. HIInv => SealedHeadersAreFound
  <2> SUFFICES ASSUME HIInv, NEW c \in Call, req[c].kind = "hash", req[c].sealed
               PROVE  /\ req[c].out # "headerNotFound"
                      /\ req[c].out = "ok" => req[c].got[1][1] = req[c].hash[1]
    BY DEF SealedHeadersAreFound
  <2> QED BY DEF HIInv, HeaderCallInv
<1> QED BY <1>1, HeaderInvariance, PTL

\* No other step writes a header.
LEMMA OnlySetHeader ==
  ASSUME NEW c \in Call,
         BlobStep(c) \/ BeginHeader(c) \/ HeaderStep(c) \/ HeaderFault(c) \/ FinishHeader(c),
         ~ SetHeader(c)
  PROVE  header' = header
<1>1. CASE BlobStep(c)
  BY <1>1 DEF BlobStep, headerVars
<1>2. CASE BeginHeader(c)
  BY <1>2 DEF BeginHeader, GetHeaderByHeight, WaitForHeader, GetHeadersByRange,
              GetLatestHead, Sync, GetHeaderByHash, BeginWith
<1>3. CASE HeaderStep(c)
  BY <1>3 DEF HeaderStep, ReadHeaderNotFound, ReadHeader, ReadNoHeader, PanicFromEds,
              Generate, PanicFromValidate, SetHash, LookAgain, ReadHash, ReadKey
<1>4. CASE HeaderFault(c) \/ FinishHeader(c)
  BY <1>4 DEF HeaderFault, FailHeaderRead, FailHeaderWrite, LoseHeaderWrite, FinishHeader
<1> QED BY <1>1, <1>2, <1>3, <1>4

\* A header that is stored is replaced only by a call that had found none at its
\* height when it looked.
THEOREM SettledHeadersCorrect == HeaderSpec => SettledHeadersStay
<1> DEFINE Stay ==
       \A h \in Height :
         header[h] # Nil /\ header'[h] # header[h] =>
           \E c \in Call : req[c].height = h /\ req[c].pc = "setHeader" /\ req[c].first
<1>1. ASSUME HIInv, [HeaderNext]_hvars PROVE [Stay]_hvars
  <2>1. ASSUME NEW h \in Height, header'[h] # header[h]
        PROVE  \E c \in Call : req[c].height = h /\ req[c].pc = "setHeader" /\ req[c].first
    <3>1. PICK c \in Call : SetHeader(c)
      BY <1>1, <2>1, OnlySetHeader DEF HeaderNext, hvars, headerVars
    <3>2. req[c].pc = "setHeader" /\ req[c].first
      BY <1>1, <3>1, HeaderFacts DEF SetHeader, HeaderCallInv
    <3>3. req[c].height = h
      BY <1>1, <2>1, <3>1, HeaderFacts DEF SetHeader, HeaderTypeOK
    <3> QED BY <3>2, <3>3
  <2> QED BY <2>1
<1> QED BY <1>1, HeaderInvariance, PTL DEF HeaderSpec, SettledHeadersStay
=============================================================================
