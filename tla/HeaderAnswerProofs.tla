------------------------- MODULE HeaderAnswerProofs -------------------------
(***************************************************************************)
(* What the answers of header calls hold, for every set of calls, blobs    *)
(* and requests and every bound: headers commit to the squares of          *)
(* SquareProofs, as HeaderStore uses them, ranges are runs, and a call for *)
(* a height that is there gets a header unless from_ods refuses its square *)
(* or a command fails.                                                     *)
(*                                                                         *)
(* A header call takes its square from the slot in which get_eds_at_height *)
(* ran for it.  So the invariant says that this is what the slot holds     *)
(* (CommitCallInv), and that a header is one that was generated.           *)
(***************************************************************************)
EXTENDS HeaderStoreProofs, SquareProofs

CommitCallInv(c) ==
  LET r == req[c]
      s == call[c]
  IN
  /\ r.pc = "building" =>
       /\ s.op = "eds" /\ s.height = r.height
       /\ s.out = "ok" => s.pc = "done"
  /\ r.pc \in HeaderWritePc => r.new \in 1..Len(generated[r.height])

CommitKeysInv ==
  \A h \in Height :
     /\ \A i \in 1..Len(generated[h]) : generated[h][i] \in layouts[h]
     /\ header[h] # Nil => header[h] \in 1..Len(generated[h])

CInv == HIInv /\ SInv /\ CommitKeysInv /\ \A c \in Call : CommitCallInv(c)

-----------------------------------------------------------------------------
(* The square a header call waits for.                                     *)

\* Why the call is answered so in a step.
Ends(c, out) ==
  \/ out = "ok"
  \/ out = "headerNotFound" /\ HeightUnknown(call[c].height)
  \/ out = "panic" /\ PanicFromOds(c)
  \/ out = "redisError" /\ (call[c].out = "redisError" \/ faults' > 0)

\* The call goes to t in building a square: it is answered Ok at its end.
Builds(c, t) ==
  LET s == call[c] IN
  /\ t.op = s.op /\ t.height = s.height
  /\ t.out = "ok" => t.pc = "done" \/ s.out = "ok"
  /\ t.out = s.out \/ Ends(c, t.out)

LEMMA EndBuilds ==
  ASSUME IInv, NEW c \in Call, NEW out, Ends(c, out),
         call' = [call EXCEPT ![c] = Ended(call[c], out)]
  PROVE  Builds(c, call'[c])
<1> DEFINE e == Ended(call[c], out)
<1>1. call[c] \in CallState /\ call \in [Call -> CallState]
  BY DEF IInv, TypeOK
<1>2. SameAsked(call[c], e) /\ e.pc = "done" /\ e.out = out
  BY <1>1, EndedKeeps
<1> HIDE DEF e
<1>3. call'[c] = e
  BY <1>1 DEF e
<1> QED BY <1>2, <1>3 DEF Builds, SameAsked

LEMMA WriteBuilds ==
  ASSUME IInv, NEW c \in Call, NEW t, AfterWrite(c, t), Builds(c, t)
  PROVE  Builds(c, call'[c])
<1>1. CASE Abandoned(c)
  <2>1. call' = [call EXCEPT ![c] = Ended(call[c], "redisError")]
    BY <1>1 DEF AfterWrite
  <2>2. Ends(c, "redisError")
    BY <1>1 DEF Abandoned, Ends
  <2> QED BY <2>1, <2>2, EndBuilds
<1>2. CASE ~ Abandoned(c)
  <2>1. call' = [call EXCEPT ![c] = t]
    BY <1>2 DEF AfterWrite
  <2>2. call'[c] = t
    BY <2>1 DEF IInv, TypeOK
  <2> QED BY <2>2
<1> QED BY <1>1, <1>2

\* A call of share.GetEDS goes on with its square until it is answered.
LEMMA EdsBuilds ==
  ASSUME SInv, NEW c \in Call, Step(c) \/ Fault(c), call[c].op = "eds"
  PROVE  Builds(c, call'[c])
<1> DEFINE s == call[c]
<1>1. IInv /\ SquareInv(c) /\ CallInv(c) /\ s \in CallState /\ call \in [Call -> CallState]
  BY DEF SInv, AInv, LedgerInv, IInv, TypeOK
<1>2. ~ (SetBlob(c) \/ AddMember(c) \/ SetCommitment(c) \/ TrackNamespace(c))
  BY <1>1 DEF SquareInv, SubmitPc, SetBlob, AddMember, SetCommitment, TrackNamespace
<1>3. ~ (ReadCommitment(c) \/ RereadBlob(c))
  BY DEF ReadCommitment, RereadBlob
<1>4. faults \in Nat
  BY <1>1, StoreAssumption DEF IInv, TypeOK
<1>5. CASE EdsHeightNotFound(c) \/ PanicFromOds(c) \/ ReturnEds(c) \/ FailRead(c) \/ LoseWrite(c)
  <2>1. CASE EdsHeightNotFound(c)
    BY <1>1, <2>1, EndBuilds DEF EdsHeightNotFound, Ends
  <2>2. CASE PanicFromOds(c)
    <3>1. Ends(c, "panic") /\ call' = [call EXCEPT ![c] = Ended(call[c], "panic")]
      BY <2>2 DEF PanicFromOds, Ends
    <3> QED BY <1>1, <3>1, EndBuilds
  <2>3. CASE ReturnEds(c)
    BY <1>1, <2>3, EndBuilds DEF ReturnEds, Ends
  <2>4. CASE FailRead(c)
    <3>1. faults' > 0 /\ call' = [call EXCEPT ![c] = Ended(call[c], "redisError")]
      BY <1>4, <2>4 DEF FailRead
    <3>2. Ends(c, "redisError")
      BY <3>1 DEF Ends
    <3> QED BY <1>1, <3>1, <3>2, EndBuilds
  <2>5. CASE LoseWrite(c)
    BY <1>1, <2>5, EndBuilds DEF LoseWrite, Abandoned, Ends
  <2> QED BY <1>5, <2>1, <2>2, <2>3, <2>4, <2>5
<1>6. CASE StoreEds(c) \/ IndexBlob(c) \/ MapIndex(c)
  <2> DEFINE p == IF s.square = <<>> THEN "edsReturned" ELSE "indexBlob"
             q == IF Tail(s.todo) = <<>> THEN "edsReturned" ELSE "indexBlob"
             n == IF Tail(s.todo) = <<>> THEN 0 ELSE s.next + Shares[Head(s.todo)]
             t == [s EXCEPT !.todo = s.square, !.next = 1, !.pc = p]
             u == [s EXCEPT !.pc = "mapIndex"]
             v == [s EXCEPT !.todo = Tail(s.todo), !.next = n, !.pc = q]
  <2>1. AfterWrite(c, t) \/ AfterWrite(c, u) \/ AfterWrite(c, v)
    BY <1>6 DEF StoreEds, IndexBlob, MapIndex
  <2> HIDE DEF p, q, n
  <2>2. Builds(c, t) /\ Builds(c, u) /\ Builds(c, v)
    BY <1>1 DEF Builds, CallState
  <2> HIDE DEF t, u, v
  <2> QED BY <1>1, <2>1, <2>2, WriteBuilds
<1>7. ASSUME NEW t, call' = [call EXCEPT ![c] = t], Builds(c, t)
      PROVE  Builds(c, call'[c])
  BY <1>1, <1>7
<1>8. CASE ReadEds(c)
  <2> DEFINE t == [s EXCEPT !.pc = "namespaces", !.square = <<>>]
             u == [s EXCEPT !.pc = "edsReturned", !.square = eds[s.height]]
  <2>1. call' = [call EXCEPT ![c] = t] \/ call' = [call EXCEPT ![c] = u]
    BY <1>8 DEF ReadEds
  <2>2. Builds(c, t) /\ Builds(c, u)
    BY <1>1 DEF Builds, CallState
  <2> HIDE DEF t, u
  <2> QED BY <1>7, <2>1, <2>2
<1>9. CASE ReadNamespaces(c)
  <2>1. PICK reply : call' = [call EXCEPT ![c] =
               [s EXCEPT !.nss = reply,
                         !.pc = IF reply = <<>> THEN "storeEds" ELSE "members"]]
    BY <1>9 DEF ReadNamespaces
  <2> DEFINE p == IF reply = <<>> THEN "storeEds" ELSE "members"
             t == [s EXCEPT !.nss = reply, !.pc = p]
  <2>2. call' = [call EXCEPT ![c] = t]
    BY <2>1
  <2> HIDE DEF p
  <2>3. Builds(c, t)
    BY <1>1 DEF Builds, CallState
  <2> HIDE DEF t
  <2> QED BY <1>7, <2>2, <2>3
<1>10. CASE ReadMembers(c)
  <2>1. PICK reply :
          LET rest == Tail(s.nss)
              z == [s EXCEPT !.nss = rest, !.square = @ \o reply]
          IN  call' = [call EXCEPT ![c] =
                         IF rest # <<>> THEN z
                         ELSE IF z.op = "getAll" THEN Ended(z, "ok")
                         ELSE [z EXCEPT !.pc = "storeEds"]]
    BY <1>10 DEF ReadMembers
  <2> DEFINE rest == Tail(s.nss)
             both == s.square \o reply
             z == [s EXCEPT !.nss = rest, !.square = both]
             t == [z EXCEPT !.pc = "storeEds"]
  <2> HIDE DEF rest, both
  <2>2. z.op = "eds" /\ Builds(c, z) /\ Builds(c, t)
    BY <1>1 DEF Builds, CallState
  <2>3. call' = [call EXCEPT ![c] = z] \/ call' = [call EXCEPT ![c] = t]
    BY <2>1, <2>2 DEF rest, both
  <2> HIDE DEF z, t
  <2> QED BY <1>7, <2>2, <2>3
<1>11. CASE FailWrite(c)
  <2> DEFINE t == [s EXCEPT !.out = "redisError"]
  <2>1. call' = [call EXCEPT ![c] = t]
    BY <1>1, <1>11 DEF FailWrite
  <2>2. t.op = s.op /\ t.height = s.height /\ t.out = "redisError" /\ faults' > 0
    BY <1>1, <1>4, <1>11 DEF CallState, FailWrite
  <2>3. Builds(c, t)
    BY <2>2 DEF Builds, Ends
  <2> HIDE DEF t
  <2> QED BY <1>7, <2>1, <2>3
<1>12. ~ ReadBlob(c)
  BY <1>1 DEF CallInv, ReadBlob
<1> QED
  BY <1>2, <1>3, <1>5, <1>6, <1>8, <1>9, <1>10, <1>11, <1>12 DEF Step, Fault

-----------------------------------------------------------------------------
(* Steps keep the invariant.                                               *)

\* A call is where its header is no concern, or where it was.
LEMMA CommitCallKept ==
  ASSUME NEW c \in Call, CommitCallInv(c), call'[c] = call[c],
         \A h \in Height : Len(generated'[h]) >= Len(generated[h]),
         generated \in [Height -> Seq(Seq(Blob))], generated' \in [Height -> Seq(Seq(Blob))],
         req[c].pc \in HeaderWritePc => req[c].height \in Height,
         \/ req'[c] = req[c]
         \/ req'[c].pc \notin {"building"} \cup HeaderWritePc
         \/ /\ req[c].pc \in HeaderWritePc /\ req'[c].pc \in HeaderWritePc
            /\ req'[c].height = req[c].height /\ req'[c].new = req[c].new
  PROVE  CommitCallInv(c)'
<1>1. CASE req'[c].pc \notin {"building"} \cup HeaderWritePc
  BY <1>1 DEF CommitCallInv
<1>2. CASE req'[c].pc \in {"building"} \cup HeaderWritePc
  <2>1. \A h \in Height : \A n \in 1..Len(generated[h]) : n \in 1..Len(generated'[h])
    <3> SUFFICES ASSUME NEW h \in Height, NEW n \in 1..Len(generated[h])
                 PROVE  n \in 1..Len(generated'[h])
      OBVIOUS
    <3>1. Len(generated[h]) \in Nat /\ Len(generated'[h]) \in Nat
      OBVIOUS
    <3> QED BY <3>1
  <2>2. CASE req'[c].pc = "building"
    <3>1. req'[c] = req[c]
      BY <2>2 DEF HeaderWritePc
    <3> QED BY <2>2, <3>1 DEF CommitCallInv, HeaderWritePc
  <2>3. CASE req'[c].pc \in HeaderWritePc
    <3>1. /\ req[c].pc \in HeaderWritePc
          /\ req'[c].height = req[c].height /\ req'[c].new = req[c].new
      BY <1>2, <2>3
    <3>2. req[c].new \in 1..Len(generated[req[c].height]) /\ req[c].height \in Height
      BY <3>1 DEF CommitCallInv
    <3>3. req'[c].pc # "building"
      BY <2>3 DEF HeaderWritePc
    <3> QED BY <2>1, <3>1, <3>2, <3>3 DEF CommitCallInv
  <2> QED BY <1>2, <2>2, <2>3
<1> QED BY <1>1, <1>2

\* A step that adds no header.
LEMMA CommitKeysKept ==
  ASSUME CommitKeysInv, UNCHANGED <<header, generated>>,
         \A h \in Height : layouts[h] \subseteq layouts'[h]
  PROVE  CommitKeysInv'
BY DEF CommitKeysInv

\* The facts that every step begins with.
LEMMA CommitFacts ==
  ASSUME CInv, NEW c \in Call
  PROVE  /\ HIInv /\ SInv /\ IInv /\ CommitKeysInv /\ CommitCallInv(c) /\ SquareInv(c)
         /\ HeaderCallInv(c) /\ req[c] \in HeaderReq /\ req \in [Call -> HeaderReq]
         /\ call[c] \in CallState /\ call \in [Call -> CallState]
         /\ generated \in [Height -> Seq(Seq(Blob))]
         /\ req[c].pc \in {"building"} \cup HeaderWritePc => req[c].height \in Height
<1>1. HIInv /\ SInv /\ IInv /\ TypeOK /\ HeaderTypeOK /\ HeaderCallInv(c)
  BY DEF CInv, HIInv, IInv
<1>2. req[c] \in HeaderReq /\ call[c] \in CallState
  BY <1>1 DEF HeaderTypeOK, TypeOK
<1>3. currentHeight \in 0..MaxHeight /\ MaxHeight \in Nat
  BY <1>1, StoreAssumption DEF TypeOK
<1>4. req[c].pc \in {"building"} \cup HeaderWritePc => req[c].height \in Height
  BY <1>1, <1>2, <1>3 DEF HeaderCallInv, HeaderWritePc, Height, HeaderReq
<1> QED BY <1>1, <1>2, <1>4 DEF CInv, SInv, HeaderTypeOK, TypeOK

\* A header call goes on, and nothing is stored, generated or built.
LEMMA QuietCommit ==
  ASSUME CInv, NEW c \in Call, NEW s, req' = [req EXCEPT ![c] = s],
         UNCHANGED <<call, layouts, header, generated>>,
         \/ s.pc \notin {"building"} \cup HeaderWritePc
         \/ /\ req[c].pc \in HeaderWritePc /\ s.pc \in HeaderWritePc
            /\ s.height = req[c].height /\ s.new = req[c].new
  PROVE  CommitKeysInv' /\ \A d \in Call : CommitCallInv(d)'
<1>1. CommitKeysInv'
  BY CommitKeysKept DEF CInv
<1>2. ASSUME NEW d \in Call PROVE CommitCallInv(d)'
  <2>1. \/ req'[d] = req[d]
        \/ d = c /\ req'[d] = s
    BY CommitFacts
  <2>2. /\ CommitCallInv(d) /\ call'[d] = call[d]
        /\ generated \in [Height -> Seq(Seq(Blob))]
        /\ req[d].pc \in HeaderWritePc => req[d].height \in Height
    BY CommitFacts
  <2>3. generated' \in [Height -> Seq(Seq(Blob))]
        /\ \A h \in Height : Len(generated'[h]) >= Len(generated[h])
    <3>1. \A h \in Height : Len(generated[h]) \in Nat
      BY <2>2
    <3> QED BY <2>2, <3>1
  <2>4. CASE req'[d] = req[d]
    BY <2>2, <2>3, <2>4, CommitCallKept
  <2>5. CASE d = c /\ req'[d] = s
    BY <2>2, <2>3, <2>5, CommitCallKept
  <2> QED BY <2>1, <2>4, <2>5
<1> QED BY <1>1, <1>2

\* What is generated is the square that the slot of the call holds.
LEMMA GenerateCommit ==
  ASSUME CInv, NEW c \in Call, Generate(c) \/ PanicFromValidate(c)
  PROVE  CommitKeysInv' /\ \A d \in Call : CommitCallInv(d)'
<1> DEFINE h == req[c].height
           square == call[c].square
           n == Len(generated[h]) + 1
<1>1. /\ req[c].pc = "building" /\ call[c].out = "ok" /\ Finish(c)
      /\ generated' = [generated EXCEPT ![h] = Append(@, square)]
      /\ \/ req' = [req EXCEPT ![c].pc = "setHeader", ![c].new = n]
         \/ req' = [req EXCEPT ![c] = Answer(req[c], "panic")]
      /\ header' = header
  BY DEF Generate, PanicFromValidate, GoesOn
<1>2. h \in Height /\ square \in layouts[h]
  BY <1>1, CommitFacts DEF CommitCallInv, SquareInv
<1>3. layouts' = layouts /\ call' = [call EXCEPT ![c] = Idle]
  BY <1>1 DEF Finish, historyVars
<1>4. generated \in [Height -> Seq(Seq(Blob))] /\ square \in Seq(Blob)
  BY CommitFacts DEF CallState
<1> HIDE DEF h, square
<1>5. /\ generated'[h] = Append(generated[h], square)
      /\ \A g \in Height \ {h} : generated'[g] = generated[g]
  BY <1>1, <1>2, <1>4
<1>6. generated' \in [Height -> Seq(Seq(Blob))]
  <2>1. Append(generated[h], square) \in Seq(Seq(Blob))
    BY <1>2, <1>4
  <2> QED BY <1>1, <1>4, <2>1
<1>7. /\ Len(generated[h]) \in Nat /\ n = Len(generated'[h])
      /\ n = Len(generated[h]) + 1 /\ n \in 1..n
      /\ \A i \in 1..Len(generated[h]) : generated'[h][i] = generated[h][i]
      /\ generated'[h][n] = square
  <2>1. generated[h] \in Seq(Seq(Blob))
    BY <1>2, <1>4
  <2> QED BY <1>4, <1>5, <2>1
<1> HIDE DEF n
<1>8. \A g \in Height : Len(generated'[g]) >= Len(generated[g])
  <2>1. \A g \in Height : Len(generated[g]) \in Nat
    BY <1>4
  <2> QED BY <1>5, <1>7, <2>1 DEF n
<1>9. CommitKeysInv'
  <2> SUFFICES ASSUME NEW g \in Height
               PROVE  /\ \A i \in 1..Len(generated'[g]) : generated'[g][i] \in layouts'[g]
                      /\ header'[g] # Nil => header'[g] \in 1..Len(generated'[g])
    BY DEF CommitKeysInv
  <2>1. /\ \A i \in 1..Len(generated[g]) : generated[g][i] \in layouts[g]
        /\ header[g] # Nil => header[g] \in 1..Len(generated[g])
    BY CommitFacts DEF CommitKeysInv
  <2>2. CASE g # h
    BY <1>1, <1>3, <1>5, <2>1, <2>2
  <2>3. CASE g = h
    <3>1. \A i \in 1..n : i \in 1..Len(generated[h]) \/ i = n
      BY <1>7
    <3>2. \A i \in 1..n : generated'[h][i] \in layouts'[h]
      BY <1>2, <1>3, <1>7, <2>1, <2>3, <3>1
    <3>3. header[g] \in 1..Len(generated[h]) => header[g] \in 1..n
      BY <1>7
    <3> QED BY <1>1, <1>7, <2>1, <2>3, <3>2, <3>3
  <2> QED BY <2>2, <2>3
<1>10. ASSUME NEW d \in Call PROVE CommitCallInv(d)'
  <2>1. CASE d # c
    <3>1. req'[d] = req[d] /\ call'[d] = call[d]
      BY <1>1, <1>3, <2>1, CommitFacts
    <3> QED BY <1>4, <1>6, <1>8, <3>1, CommitFacts, CommitCallKept
  <2>2. CASE d = c
    <3>1. \/ req'[c].pc = "setHeader" /\ req'[c].new = n /\ req'[c].height = h
          \/ req'[c].pc = "done"
      <4> DEFINE s == [req[c] EXCEPT !.pc = "setHeader", !.new = n]
                 a == Answer(req[c], "panic")
      <4>1. s.pc = "setHeader" /\ s.new = n /\ s.height = h /\ a.pc = "done"
        BY CommitFacts DEF HeaderReq, Answer, h
      <4>2. req' = [req EXCEPT ![c] = s] \/ req' = [req EXCEPT ![c] = a]
        BY <1>1, CommitFacts
      <4> HIDE DEF s, a
      <4> QED BY <4>1, <4>2, CommitFacts
    <3> QED BY <1>7, <2>2, <3>1 DEF CommitCallInv, HeaderWritePc
  <2> QED BY <2>1, <2>2
<1> QED BY <1>9, <1>10

\* The header that is stored is the one generated.
LEMMA SetHeaderCommit ==
  ASSUME CInv, NEW c \in Call, SetHeader(c)
  PROVE  CommitKeysInv' /\ \A d \in Call : CommitCallInv(d)'
<1> DEFINE r == req[c]
           h == r.height
           s == [r EXCEPT !.pc = "setHash"]
           a == Answer(r, "redisError")
           t == IF AbandonedHeader(c) THEN a ELSE s
<1>1. /\ r.pc = "setHeader" /\ r \in HeaderReq
      /\ header' = [header EXCEPT ![h] = r.new]
      /\ req' = [req EXCEPT ![c] = t]
      /\ UNCHANGED <<vars, generated>>
  BY CommitFacts DEF SetHeader, AfterHeaderWrite, GoesOn
<1>2. call' = call /\ layouts' = layouts
  BY <1>1 DEF vars, historyVars
<1>3. r.pc \in HeaderWritePc /\ h \in Height /\ r.new \in 1..Len(generated[h])
  BY <1>1, CommitFacts DEF CommitCallInv, HeaderWritePc
<1>4. s.pc = "setHash" /\ s.height = h /\ s.new = r.new
  BY <1>1 DEF HeaderReq
<1>5. a.pc = "done"
  BY <1>1, AnswerIsAReq DEF HeaderOutcome, Outcome
<1> HIDE DEF s, a
<1>6. t.pc = "done" \/ (t.pc = "setHash" /\ t.height = h /\ t.new = r.new)
  BY <1>4, <1>5
<1> HIDE DEF t
<1>7. header \in [Height -> (Nat \ {0}) \cup {Nil}]
  BY DEF CInv, HIInv, HeaderTypeOK
<1>8. CommitKeysInv'
  <2>1. ASSUME NEW g \in Height, header'[g] # Nil
        PROVE  header'[g] \in 1..Len(generated'[g])
    <3>1. CASE g = h
      BY <1>1, <1>3, <1>7, <3>1
    <3>2. CASE g # h
      BY <1>1, <1>7, <2>1, <3>2, CommitFacts DEF CommitKeysInv
    <3> QED BY <3>1, <3>2
  <2> QED BY <1>1, <1>2, <2>1, CommitFacts DEF CommitKeysInv
<1>9. ASSUME NEW d \in Call PROVE CommitCallInv(d)'
  <2>1. \A g \in Height : Len(generated'[g]) >= Len(generated[g])
    <3>1. \A g \in Height : Len(generated[g]) \in Nat
      BY CommitFacts
    <3> QED BY <1>1, <3>1
  <2>2. CommitCallInv(d) /\ call'[d] = call[d] /\ generated \in [Height -> Seq(Seq(Blob))]
        /\ generated' \in [Height -> Seq(Seq(Blob))]
        /\ (req[d].pc \in HeaderWritePc => req[d].height \in Height)
    BY <1>1, <1>2, CommitFacts
  <2>3. \/ req'[d] = req[d]
        \/ d = c /\ req'[d] = t
    BY <1>1, CommitFacts
  <2>4. CASE req'[d] = req[d]
    BY <2>1, <2>2, <2>4, CommitCallKept
  <2>5. CASE d = c /\ req'[d] = t
    <3>1. \/ req'[d].pc \notin {"building"} \cup HeaderWritePc
          \/ /\ req[d].pc \in HeaderWritePc /\ req'[d].pc \in HeaderWritePc
             /\ req'[d].height = req[d].height /\ req'[d].new = req[d].new
      BY <1>3, <1>6, <2>5 DEF HeaderWritePc
    <3> QED BY <2>1, <2>2, <3>1, CommitCallKept
  <2> QED BY <2>3, <2>4, <2>5
<1> QED BY <1>8, <1>9

\* A header call begins to wait for its square.
LEMMA ReadNoHeaderCommit ==
  ASSUME CInv, NEW c \in Call, ReadNoHeader(c)
  PROVE  CommitKeysInv' /\ \A d \in Call : CommitCallInv(d)'
<1> DEFINE h == req[c].height
           f == header[h] = Nil
           t == [Idle EXCEPT !.op = "eds", !.pc = "eds", !.height = h, !.knew = h \in acked]
<1>1. /\ call' = [call EXCEPT ![c] = t] /\ layouts' = layouts
      /\ req' = [req EXCEPT ![c].pc = "building", ![c].first = f]
      /\ UNCHANGED <<header, generated>>
  BY DEF ReadNoHeader, GetEds, historyVars
<1>2. t.op = "eds" /\ t.height = h /\ t.out = "pending"
  BY DEF Idle
<1> HIDE DEF t, f
<1>3. CommitKeysInv'
  BY <1>1, CommitFacts, CommitKeysKept
<1>4. ASSUME NEW d \in Call PROVE CommitCallInv(d)'
  <2>1. CASE d # c
    <3>1. req'[d] = req[d] /\ call'[d] = call[d]
      BY <1>1, <2>1, CommitFacts
    <3>2. CommitCallInv(d)
      BY CommitFacts
    <3> QED BY <1>1, <3>1, <3>2 DEF CommitCallInv
  <2>2. CASE d = c
    <3>1. req'[c].pc = "building" /\ req'[c].height = h /\ call'[c] = t
      BY <1>1, CommitFacts DEF HeaderReq
    <3> QED BY <1>2, <2>2, <3>1 DEF CommitCallInv, HeaderWritePc
  <2> QED BY <2>1, <2>2
<1> QED BY <1>3, <1>4

\* The blob half goes on, be it for a client or for a header call.
LEMMA BlobStepCommit ==
  ASSUME CInv, NEW c \in Call, BlobStep(c)
  PROVE  CommitKeysInv' /\ \A d \in Call : CommitCallInv(d)'
<1>1. /\ Begin(c) \/ Step(c) \/ Fault(c) \/ Finish(c)
      /\ req[c].pc = "building" => Step(c) \/ Fault(c)
      /\ UNCHANGED <<header, req, generated>>
  BY DEF BlobStep, headerVars
<1>2. SquaresStay
  BY <1>1, CommitFacts, StepsKeepSquares
<1>3. CommitKeysInv'
  BY <1>1, <1>2, CommitFacts, CommitKeysKept DEF SquaresStay
<1>4. ASSUME NEW d \in Call PROVE CommitCallInv(d)'
  <2>1. CommitCallInv(d)
    BY CommitFacts
  <2>2. CASE d # c
    <3>1. call'[d] = call[d]
      BY <1>1, <2>2, CommitFacts, OneCallMoves
    <3> QED BY <1>1, <2>1, <3>1 DEF CommitCallInv
  <2>3. CASE d = c /\ req[c].pc # "building"
    BY <1>1, <2>1, <2>3 DEF CommitCallInv
  <2>4. CASE d = c /\ req[c].pc = "building"
    <3>1. call[c].op = "eds" /\ call[c].height = req[c].height
          /\ (call[c].out = "ok" => call[c].pc = "done")
      BY <2>1, <2>4 DEF CommitCallInv
    <3>2. Builds(c, call'[c])
      BY <1>1, <2>4, <3>1, CommitFacts, EdsBuilds
    <3>3. call[c].out # "ok"
      <4>1. call[c].pc # "done"
        BY <1>1, <2>4
           DEF Step, Fault, SetBlob, AddMember, SetCommitment, TrackNamespace,
               EdsHeightNotFound, ReadEds, ReadNamespaces, ReadMembers, PanicFromOds,
               StoreEds, IndexBlob, MapIndex, ReturnEds, ReadCommitment, ReadBlob,
               RereadBlob, FailRead, FailWrite, LoseWrite, ReadPc, WritePc, SubmitPc,
               BuildPc, Abandoned
      <4> QED BY <3>1, <4>1
    <3> QED BY <1>1, <2>4, <3>1, <3>2, <3>3 DEF CommitCallInv, Builds, HeaderWritePc
  <2> QED BY <2>2, <2>3, <2>4
<1> QED BY <1>3, <1>4

\* The other steps of header calls.
LEMMA HeaderCallCommit ==
  ASSUME CInv, NEW c \in Call,
         \/ BeginHeader(c) \/ HeaderFault(c) \/ FinishHeader(c)
         \/ /\ HeaderStep(c) /\ ~ Generate(c) /\ ~ PanicFromValidate(c)
            /\ ~ SetHeader(c) /\ ~ ReadNoHeader(c)
  PROVE  CommitKeysInv' /\ \A d \in Call : CommitCallInv(d)'
<1> DEFINE r == req[c]
           Commits == CommitKeysInv' /\ \A d \in Call : CommitCallInv(d)'
<1>1. r \in HeaderReq /\ HIInv /\ HeaderCallInv(c)
      /\ {"ok", "panic", "redisError", "headerNotFound", "timeout"} \subseteq HeaderOutcome
  BY CommitFacts DEF HeaderOutcome, Outcome
<1>2. UNCHANGED <<call, layouts, header, generated>>
  BY DEF BeginHeader, GetHeaderByHeight, WaitForHeader, GetHeadersByRange, GetLatestHead,
         Sync, GetHeaderByHash, BeginWith, HeaderFault, FailHeaderRead, FailHeaderWrite,
         LoseHeaderWrite, FinishHeader, HeaderStep, ReadHeaderNotFound, ReadHeader,
         PanicFromEds, SetHash, LookAgain, ReadHash, ReadKey, vars, historyVars
<1>3. ASSUME NEW s, req' = [req EXCEPT ![c] = s],
             s.pc \in {"idle", "sleep", "readHeader", "readHash", "readKey", "done"}
      PROVE  Commits
  <2>1. s.pc \notin {"building"} \cup HeaderWritePc
    BY <1>3 DEF HeaderWritePc
  <2> QED BY <1>2, <1>3, <2>1, QuietCommit
<1> HIDE DEF Commits
<1> SUFFICES Commits
  BY DEF Commits
<1>4. ASSUME NEW s \in HeaderReq, NEW out \in HeaderOutcome,
             req' = [req EXCEPT ![c] = Answer(s, out)]
      PROVE  Commits
  BY <1>3, <1>4, AnswerIsAReq
<1>5. ASSUME NEW hd \in Seq(Header), req' = [req EXCEPT ![c] = AfterHeader(r, hd)]
      PROVE  Commits
  <2>1. AfterHeader(r, hd).pc \in {"done", "readHeader"}
    BY <1>1, AfterHeaderIsAReq
  <2> QED BY <1>3, <1>5, <2>1
<1>6. CASE BeginHeader(c)
  <2>1. PICK s \in HeaderReq : BeginWith(c, s) /\ StartsWell(s)
    BY <1>1, <1>6, BeginHeaderIsBeginWith
  <2> DEFINE t == [s EXCEPT !.from = s.height, !.seen = currentHeight]
  <2>2. req' = [req EXCEPT ![c] = t]
    BY <2>1 DEF BeginWith
  <2>3. t.pc = s.pc
    BY DEF HeaderReq
  <2> HIDE DEF t
  <2> QED BY <1>3, <2>1, <2>2, <2>3 DEF StartsWell
<1>7. CASE FailHeaderRead(c) \/ LoseHeaderWrite(c)
  <2>1. req' = [req EXCEPT ![c] = Answer(r, "redisError")]
    BY <1>7 DEF FailHeaderRead, LoseHeaderWrite
  <2> QED BY <1>1, <1>4, <2>1
<1>8. CASE FailHeaderWrite(c)
  <2> DEFINE s == [r EXCEPT !.out = "redisError"]
  <2>1. req' = [req EXCEPT ![c] = s] /\ r.pc \in HeaderWritePc
    BY <1>8 DEF FailHeaderWrite
  <2>2. s.pc = r.pc /\ s.height = r.height /\ s.new = r.new
    BY <1>1 DEF HeaderReq
  <2> HIDE DEF s
  <2> QED BY <1>2, <2>1, <2>2, QuietCommit DEF Commits
<1>9. CASE FinishHeader(c)
  <2>1. req' = [req EXCEPT ![c] = NoReq] /\ NoReq.pc = "idle"
    BY <1>9 DEF FinishHeader, NoReq
  <2> QED BY <1>3, <2>1
<1>10. CASE ReadHeaderNotFound(c)
  <2> DEFINE none == <<>>
  <2>1. req' = [req EXCEPT ![c] = AfterHeader(r, none)] /\ none \in Seq(Header)
    BY <1>10 DEF ReadHeaderNotFound, GoesOn
  <2> HIDE DEF none
  <2> QED BY <1>5, <2>1
<1>11. CASE ReadHeader(c)
  <2> DEFINE h == r.height
             hd == << <<h, header[h]>> >>
  <2>1. req' = [req EXCEPT ![c] = AfterHeader(r, hd)] /\ header[h] # Nil /\ ~ HeightUnknown(h)
    BY <1>11 DEF ReadHeader, GoesOn
  <2>2. h \in Height
    BY <1>1, <2>1, HeaderFacts DEF HeightUnknown, Height, HeaderReq
  <2>3. <<h, header[h]>> \in Header
    BY <1>1, <2>1, <2>2, HeaderFacts DEF HeaderTypeOK, Header
  <2>4. hd \in Seq(Header)
    BY <2>3
  <2> HIDE DEF hd
  <2> QED BY <1>5, <2>1, <2>4
<1>12. CASE PanicFromEds(c)
  <2>1. req' = [req EXCEPT ![c] = Answer(r, "panic")]
    BY <1>12 DEF PanicFromEds, GoesOn
  <2> QED BY <1>1, <1>4, <2>1
<1>13. CASE SetHash(c)
  <2> DEFINE hd == <<r.height, r.new>>
             one == <<hd>>
  <2>1. /\ r.pc = "setHash"
        /\ \/ req' = [req EXCEPT ![c] = Answer(r, "redisError")]
           \/ req' = [req EXCEPT ![c] = AfterHeader(r, one)]
    BY <1>13 DEF SetHash, AfterHeaderWrite, GoesOn
  <2>2. hd \in Header
    BY <1>1, <2>1, CommitFacts DEF HeaderCallInv, HeaderWritePc, Header, HeaderReq
  <2>3. one \in Seq(Header)
    BY <2>2
  <2> HIDE DEF one
  <2> QED BY <1>1, <1>4, <1>5, <2>1, <2>3
<1>14. CASE LookAgain(c)
  <2> DEFINE s == [r EXCEPT !.pc = "readHeader"]
             w == [r EXCEPT !.attempts = @ - 1]
             z == [r EXCEPT !.attempts = 0]
  <2>1. /\ r.pc = "sleep"
        /\ \/ req' = [req EXCEPT ![c] = s]
           \/ req' = [req EXCEPT ![c] = Answer(z, "timeout")]
           \/ req' = [req EXCEPT ![c] = w]
    BY <1>14 DEF LookAgain
  <2>2. z \in HeaderReq
    <3>1. 0 \in 0..MaxAttempts
      BY HeaderAssumption
    <3> QED BY <1>1, <3>1 DEF HeaderReq
  <2>3. s.pc = "readHeader" /\ w.pc = r.pc
    BY <1>1 DEF HeaderReq
  <2> HIDE DEF s, w, z
  <2> QED BY <1>1, <1>3, <1>4, <2>1, <2>2, <2>3
<1>15. CASE ReadHash(c)
  <2> DEFINE s == [r EXCEPT !.pc = "readKey", !.height = r.hash[1]]
  <2>1. \/ req' = [req EXCEPT ![c] = s]
        \/ req' = [req EXCEPT ![c] = Answer(r, "headerNotFound")]
    BY <1>15 DEF ReadHash, GoesOn
  <2>2. s.pc = "readKey"
    BY <1>1 DEF HeaderReq
  <2> HIDE DEF s
  <2> QED BY <1>1, <1>3, <1>4, <2>1, <2>2
<1>16. CASE ReadKey(c)
  <2> DEFINE h == r.height
             hd == << <<h, header[h]>> >>
             s == [r EXCEPT !.got = hd]
  <2>1. \/ req' = [req EXCEPT ![c] = Answer(r, "headerNotFound")]
        \/ req' = [req EXCEPT ![c] = Answer(s, "ok")] /\ header[h] # Nil
    BY <1>16 DEF ReadKey, GoesOn
  <2>2. CASE req' = [req EXCEPT ![c] = Answer(r, "headerNotFound")]
    BY <1>1, <1>4, <2>2
  <2>3. CASE req' = [req EXCEPT ![c] = Answer(s, "ok")] /\ header[h] # Nil
    <3>1. h \in Height
      BY <1>1, <1>16, HashCallFacts, HeaderFacts DEF ReadKey, HeaderTypeOK, Header
    <3>2. <<h, header[h]>> \in Header
      BY <1>1, <2>3, <3>1, HeaderFacts DEF HeaderTypeOK, Header
    <3>3. hd \in Seq(Header)
      BY <3>2
    <3> HIDE DEF hd
    <3>4. s \in HeaderReq
      BY <1>1, <3>3 DEF HeaderReq
    <3> HIDE DEF s
    <3> QED BY <1>1, <1>4, <2>3, <3>4
  <2> QED BY <2>1, <2>2, <2>3
<1> QED
  BY <1>6, <1>7, <1>8, <1>9, <1>10, <1>11, <1>12, <1>13, <1>14, <1>15, <1>16
     DEF HeaderFault, HeaderStep

-----------------------------------------------------------------------------
LEMMA CommitsInitially == HeaderInit => CInv
<1> SUFFICES ASSUME HeaderInit PROVE CInv
  OBVIOUS
<1>1. HIInv /\ SInv
  BY HeaderInitially, SquaresInitially DEF HeaderInit
<1>2. CommitKeysInv
  <2>1. Len(<<>>) = 0 /\ 1..0 = {}
    OBVIOUS
  <2> QED BY <2>1 DEF HeaderInit, CommitKeysInv
<1>3. \A c \in Call : CommitCallInv(c)
  BY DEF HeaderInit, NoReq, CommitCallInv, HeaderWritePc
<1> QED BY <1>1, <1>2, <1>3 DEF CInv

LEMMA CommitsInductive == CInv /\ [HeaderNext]_hvars => CInv'
<1> SUFFICES ASSUME CInv, [HeaderNext]_hvars PROVE CInv'
  OBVIOUS
<1>1. HIInv' /\ SInv'
  <2>1. HIInv' /\ [Next]_vars
    BY HeaderInductive DEF CInv
  <2> QED BY <2>1, SquaresInductive DEF CInv
<1>2. ASSUME NEW c \in Call,
             \/ BlobStep(c) \/ BeginHeader(c) \/ HeaderStep(c) \/ HeaderFault(c)
             \/ FinishHeader(c)
      PROVE  CommitKeysInv' /\ \A d \in Call : CommitCallInv(d)'
  BY <1>2, BlobStepCommit, GenerateCommit, SetHeaderCommit, ReadNoHeaderCommit,
     HeaderCallCommit
<1>3. CASE UNCHANGED hvars
  <2>1. UNCHANGED <<call, layouts, header, req, generated>>
    BY <1>3 DEF hvars, vars, historyVars, headerVars
  <2>2. CommitKeysInv' /\ \A c \in Call : CommitCallInv(c)'
    BY <2>1 DEF CInv, CommitKeysInv, CommitCallInv
  <2> QED BY <1>1, <2>2 DEF CInv
<1> QED BY <1>1, <1>2, <1>3 DEF HeaderNext, CInv

LEMMA CommitInvariance == HeaderSpec => []CInv
BY CommitsInitially, CommitsInductive, PTL DEF HeaderSpec

\* A header commits to a square that was cached at its height, though the cache
\* may have changed between the square and the header; where no builder was
\* early, to every blob of the submit (get_header_by_height).
THEOREM HeaderSquaresCorrect == HeaderSpec => []HeadersCommitToSquares
<1>1. CInv => HeadersCommitToSquares
  <2> SUFFICES ASSUME CInv, NEW h \in Height, header[h] # Nil
               PROVE  /\ generated[h][header[h]] \in layouts[h]
                      /\ h \in acked \ early =>
                           ToSet(generated[h][header[h]]) = Submitted(h) \ Unshareable
    BY DEF HeadersCommitToSquares
  <2>1. generated[h][header[h]] \in layouts[h]
    BY DEF CInv, CommitKeysInv
  <2>2. SInv
    BY DEF CInv
  <2> QED BY <2>1, <2>2, LayoutsAreComplete
<1> QED BY <1>1, CommitInvariance, PTL

-----------------------------------------------------------------------------
(* Ranges of headers, while the current height grows.                      *)
(*                                                                         *)
(* A height that is not there is skipped, and one above it may be there by *)
(* the time it is read: then what a range has gathered has a gap, and      *)
(* keeps it to the end, where it is refused.  Otherwise it is a run.       *)

Run(got, from) == \A i \in 1..Len(got) : got[i][1] = from + i - 1

Gap(got) == \E i \in 2..Len(got) : got[i][1] # got[i - 1][1] + 1

\* What a range that reads the heights in turn has gathered when it comes to k.
Gathers(got, from, seen, k) ==
  \/ Gap(got)
  \/ /\ Run(got, from)
     /\ Len(got) <= k - from
     /\ Len(got) = k - from \/ Len(got) > seen - from

ReadingPc == {"readHeader", "building"} \cup HeaderWritePc

RangeInv(c) ==
  LET s == req[c] IN
  s.kind = "range" =>
    /\ s.pc # "sleep"
    /\ s.out = "ok" => s.pc = "done"
    /\ s.from \in 1..s.seen =>
         /\ s.seen <= currentHeight
         /\ s.pc \in ReadingPc =>
              /\ s.from <= s.height /\ s.height <= s.upto
              /\ Gathers(s.got, s.from, s.seen, s.height)
         /\ s.out = "ok" =>
              /\ Run(s.got, s.from)
              /\ \A h \in s.from..s.upto : h <= s.seen => h < s.from + Len(s.got)

RInv == HIInv /\ \A c \in Call : RangeInv(c)

-----------------------------------------------------------------------------
(* Sequences of headers.                                                   *)

LEMMA GapStays ==
  ASSUME NEW got \in Seq(Header), NEW hd \in Seq(Header), Gap(got)
  PROVE  Gap(got \o hd)
<1> DEFINE z == got \o hd
<1>1. /\ Len(got) \in Nat /\ Len(hd) \in Nat /\ Len(z) = Len(got) + Len(hd)
      /\ \A i \in 1..Len(got) : z[i] = got[i]
  OBVIOUS
<1> HIDE DEF z
<1>2. PICK i \in 2..Len(got) : got[i][1] # got[i - 1][1] + 1
  BY DEF Gap
<1>3. i \in 2..Len(z) /\ z[i] = got[i] /\ z[i - 1] = got[i - 1]
  BY <1>1
<1>4. Gap(z)
  BY <1>2, <1>3 DEF Gap
<1> QED BY <1>4 DEF z

\* One more header makes a longer run, or a gap.
LEMMA RunGrows ==
  ASSUME NEW got \in Seq(Header), NEW hd \in Header, NEW from \in Nat, Run(got, from)
  PROVE  /\ Len(got) \in Nat /\ Len(got \o <<hd>>) = Len(got) + 1
         /\ hd[1] = from + Len(got) => Run(got \o <<hd>>, from)
         /\ hd[1] # from + Len(got) /\ got # <<>> => Gap(got \o <<hd>>)
<1> DEFINE z == got \o <<hd>>
           n == Len(got)
<1>1. /\ n \in Nat /\ Len(z) = n + 1 /\ z[n + 1] = hd
      /\ \A i \in 1..n : z[i] = got[i]
      /\ got # <<>> => n # 0
  OBVIOUS
<1> HIDE DEF z
<1>2. ASSUME hd[1] = from + n PROVE Run(z, from)
  <2> SUFFICES ASSUME NEW i \in 1..Len(z) PROVE z[i][1] = from + i - 1
    BY DEF Run
  <2>1. CASE i \in 1..n
    BY <1>1, <2>1 DEF Run
  <2>2. CASE i \notin 1..n
    <3>1. i = n + 1
      BY <1>1, <2>2
    <3> QED BY <1>1, <1>2, <3>1
  <2> QED BY <2>1, <2>2
<1>3. ASSUME hd[1] # from + n, got # <<>> PROVE Gap(z)
  <2>1. n \in 1..n /\ n + 1 \in 2..Len(z) /\ (n + 1) - 1 = n
    BY <1>1, <1>3
  <2>2. got[n][1] = from + n - 1
    BY <2>1 DEF Run
  <2>3. z[n + 1][1] # z[(n + 1) - 1][1] + 1
    BY <1>1, <1>3, <2>1, <2>2
  <2> QED BY <2>1, <2>3 DEF Gap
<1> QED BY <1>1, <1>2, <1>3 DEF z

\* A height has been read: it has a header, or is above those seen at first.
LEMMA HeightRead ==
  ASSUME NEW got \in Seq(Header), NEW from \in Nat, NEW seen \in Nat, NEW k \in Nat,
         from <= seen, from <= k, Gathers(got, from, seen, k),
         NEW hd \in Seq(Header),
         \/ hd = <<>> /\ k > seen
         \/ \E one \in Header : one[1] = k /\ hd = <<one>>
  PROVE  Gathers(got \o hd, from, seen, k + 1)
<1>1. CASE Gap(got)
  BY <1>1, GapStays DEF Gathers
<1>2. CASE ~ Gap(got)
  <2>1. /\ Run(got, from) /\ Len(got) \in Nat /\ Len(got) <= k - from
        /\ Len(got) = k - from \/ Len(got) > seen - from
    BY <1>2 DEF Gathers
  <2>2. CASE hd = <<>> /\ k > seen
    <3>1. got \o hd = got
      BY <2>2
    <3> QED BY <2>1, <2>2, <3>1 DEF Gathers
  <2>3. CASE \E one \in Header : one[1] = k /\ hd = <<one>>
    <3>1. PICK one \in Header : one[1] = k /\ hd = <<one>>
      BY <2>3
    <3>2. Len(got \o hd) = Len(got) + 1
      BY <2>1, <3>1, RunGrows
    <3>3. CASE Len(got) = k - from
      <4>1. Run(got \o hd, from)
        BY <2>1, <3>1, <3>3, RunGrows
      <4> QED BY <2>1, <3>2, <3>3, <4>1 DEF Gathers
    <3>4. CASE Len(got) # k - from
      <4>1. got # <<>> /\ one[1] # from + Len(got)
        BY <2>1, <3>1, <3>4
      <4>2. Gap(got \o hd)
        BY <2>1, <3>1, <4>1, RunGrows
      <4> QED BY <4>2 DEF Gathers
    <3> QED BY <3>3, <3>4
  <2> QED BY <2>2, <2>3
<1> QED BY <1>1, <1>2

\* A range without a gap has all that it was asked for, as far as was there.
LEMMA RunIsTheRange ==
  ASSUME NEW got \in Seq(Header), NEW from \in Nat, NEW seen \in Nat, NEW upto \in Nat,
         from <= upto, Gathers(got, from, seen, upto + 1), ~ Gap(got)
  PROVE  /\ Run(got, from)
         /\ \A h \in from..upto : h <= seen => h < from + Len(got)
<1>1. Len(got) \in Nat
  OBVIOUS
<1> QED BY <1>1 DEF Gathers

-----------------------------------------------------------------------------
(* Steps of a range.                                                       *)

LEMMA RangeFacts ==
  ASSUME HIInv, NEW c \in Call
  PROVE  /\ req[c] \in HeaderReq /\ req \in [Call -> HeaderReq] /\ HeaderCallInv(c)
         /\ currentHeight \in Nat /\ MaxHeight \in Nat
         /\ req[c].height \in Nat /\ req[c].upto \in Nat /\ req[c].from \in Nat
         /\ req[c].seen \in Nat /\ req[c].got \in Seq(Header)
<1>1. req[c] \in HeaderReq /\ req \in [Call -> HeaderReq] /\ HeaderCallInv(c)
  BY DEF HIInv, HeaderTypeOK
<1>2. currentHeight \in Nat /\ MaxHeight \in Nat
  BY StoreAssumption DEF HIInv, IInv, TypeOK
<1> QED BY <1>1, <1>2 DEF HeaderReq

LEMMA AnswerKeepsRange ==
  ASSUME NEW s \in HeaderReq, NEW out
  PROVE  LET t == Answer(s, out) IN
         /\ t.pc = "done" /\ t.out = out /\ t.kind = s.kind /\ t.from = s.from
         /\ t.seen = s.seen /\ t.upto = s.upto /\ t.got = s.got
BY DEF Answer, HeaderReq

\* A range that has read a height goes on with the next one, or is answered.
LEMMA RangeGoesOn ==
  ASSUME NEW s \in HeaderReq, s.kind = "range", NEW hd \in Seq(Header)
  PROVE  LET t == AfterHeader(s, hd) IN
         /\ t.kind = "range" /\ t.from = s.from /\ t.seen = s.seen /\ t.upto = s.upto
         /\ t.got = s.got \o hd
         /\ \/ /\ s.height < s.upto /\ t.pc = "readHeader" /\ t.height = s.height + 1
               /\ t.out = s.out
            \/ /\ ~ (s.height < s.upto) /\ t.pc = "done"
               /\ t.out = "ok" => ~ Gap(s.got \o hd)
<1> DEFINE got == s.got \o hd
           t == [s EXCEPT !.got = got]
           u == [t EXCEPT !.height = @ + 1, !.pc = "readHeader"]
<1>1. got \in Seq(Header)
  BY DEF HeaderReq
<1>2. AfterHeader(s, hd) = IF s.height < s.upto THEN u ELSE RangeAnswer(t)
  <2>1. t.kind = "range" /\ t.height = s.height
    BY DEF HeaderReq
  <2> QED BY <2>1 DEF AfterHeader
<1> HIDE DEF got
<1>3. /\ t \in HeaderReq /\ t.kind = "range" /\ t.from = s.from /\ t.seen = s.seen
      /\ t.upto = s.upto /\ t.got = got /\ t.height = s.height /\ t.out = s.out
  BY <1>1 DEF HeaderReq
<1> HIDE DEF t
<1>4. /\ u.kind = "range" /\ u.from = s.from /\ u.seen = s.seen /\ u.upto = s.upto
      /\ u.got = got /\ u.height = s.height + 1 /\ u.pc = "readHeader" /\ u.out = s.out
  BY <1>3 DEF HeaderReq
<1> HIDE DEF u
<1>5. CASE s.height < s.upto
  BY <1>2, <1>4, <1>5 DEF got
<1>6. CASE ~ (s.height < s.upto)
  <2> DEFINE w == RangeAnswer(t)
  <2>1. \/ w = Answer(t, "ok") /\ ~ Gap(got)
        \/ w = Answer(t, "invalidRange")
    BY <1>3 DEF RangeAnswer, Gap
  <2> HIDE DEF w
  <2>2. /\ w.pc = "done" /\ w.kind = "range" /\ w.from = s.from
        /\ w.seen = s.seen /\ w.upto = s.upto /\ w.got = got
        /\ w.out = "ok" => ~ Gap(got)
    BY <1>3, <2>1, AnswerKeepsRange
  <2>3. AfterHeader(s, hd) = w
    BY <1>2, <1>6 DEF w
  <2> QED BY <1>6, <2>2, <2>3 DEF got
<1> QED BY <1>5, <1>6

\* A call that does not move.
LEMMA RangeStays ==
  ASSUME HIInv, NEW c \in Call, RangeInv(c), req'[c] = req[c],
         currentHeight' \in Nat, currentHeight' >= currentHeight
  PROVE  RangeInv(c)'
<1>1. req[c].seen <= currentHeight => req[c].seen <= currentHeight'
  BY RangeFacts
<1> QED BY <1>1 DEF RangeInv

\* A range that reads nothing, and goes on or ends without its headers.
LEMMA RangeMoves ==
  ASSUME HIInv, NEW c \in Call, RangeInv(c), NEW t, req' = [req EXCEPT ![c] = t],
         currentHeight' = currentHeight,
         req[c].kind = "range" =>
           /\ t.from = req[c].from /\ t.seen = req[c].seen /\ t.out # "ok"
           /\ \/ t.pc = "done"
              \/ /\ req[c].pc \in ReadingPc /\ t.pc \in ReadingPc
                 /\ t.upto = req[c].upto /\ t.height = req[c].height /\ t.got = req[c].got,
         t.kind = req[c].kind
  PROVE  RangeInv(c)'
<1>1. req'[c] = t
  BY RangeFacts
<1>2. "sleep" \notin ReadingPc /\ "done" \notin ReadingPc
  BY DEF ReadingPc, HeaderWritePc
<1> QED BY <1>1, <1>2 DEF RangeInv

\* A range has read a height.
LEMMA RangeReads ==
  ASSUME HIInv, NEW c \in Call, RangeInv(c), req[c].pc \in ReadingPc,
         NEW hd \in Seq(Header), req' = [req EXCEPT ![c] = AfterHeader(req[c], hd)],
         currentHeight' = currentHeight,
         \/ hd = <<>> /\ (req[c].height = 0 \/ req[c].height > currentHeight)
         \/ \E one \in Header : one[1] = req[c].height /\ hd = <<one>>
  PROVE  RangeInv(c)'
<1> DEFINE s == req[c]
           t == AfterHeader(s, hd)
<1>1. /\ s \in HeaderReq /\ req'[c] = t
      /\ currentHeight \in Nat
      /\ s.height \in Nat /\ s.upto \in Nat /\ s.from \in Nat
      /\ s.seen \in Nat /\ s.got \in Seq(Header)
  BY RangeFacts
<1>2. CASE s.kind # "range"
  <2>1. t.kind # "range"
    BY <1>1, <1>2, AfterHeaderIsAReq
  <2> QED BY <1>1, <2>1 DEF RangeInv
<1>3. CASE s.kind = "range"
  <2>1. /\ t.kind = "range" /\ t.from = s.from /\ t.seen = s.seen /\ t.upto = s.upto
        /\ t.got = s.got \o hd
        /\ \/ /\ s.height < s.upto /\ t.pc = "readHeader" /\ t.height = s.height + 1
              /\ t.out = s.out
           \/ /\ ~ (s.height < s.upto) /\ t.pc = "done"
              /\ t.out = "ok" => ~ Gap(s.got \o hd)
    BY <1>1, <1>3, RangeGoesOn
  <2> HIDE DEF t
  <2>2. s.out # "ok"
    BY <1>3 DEF RangeInv, ReadingPc, HeaderWritePc
  <2>3. t.pc # "sleep" /\ (t.out = "ok" => t.pc = "done")
    BY <2>1, <2>2
  <2>4. ASSUME s.from \in 1..s.seen
        PROVE  /\ t.seen <= currentHeight'
               /\ t.pc \in ReadingPc =>
                    /\ t.from <= t.height /\ t.height <= t.upto
                    /\ Gathers(t.got, t.from, t.seen, t.height)
               /\ t.out = "ok" =>
                    /\ Run(t.got, t.from)
                    /\ \A h \in t.from..t.upto : h <= t.seen => h < t.from + Len(t.got)
    <3>1. /\ s.seen <= currentHeight /\ s.from <= s.height /\ s.height <= s.upto
          /\ Gathers(s.got, s.from, s.seen, s.height)
      BY <1>3, <2>4 DEF RangeInv
    <3>2. s.from <= s.seen /\ (hd = <<>> => s.height > s.seen)
      <4>1. hd = <<>> => s.height > currentHeight
        <5>1. s.height # 0
          BY <1>1, <2>4, <3>1
        <5>2. \A one \in Header : hd = <<one>> => hd # <<>>
          OBVIOUS
        <5> QED BY <5>1, <5>2
      <4> QED BY <1>1, <2>4, <3>1, <4>1
    <3>3. Gathers(s.got \o hd, s.from, s.seen, s.height + 1)
      BY <1>1, <3>1, <3>2, HeightRead
    <3>4. CASE s.height < s.upto
      <4>1. t.pc = "readHeader" /\ t.height = s.height + 1 /\ t.out # "ok"
        BY <2>1, <2>2, <3>4
      <4> QED BY <1>1, <2>1, <3>1, <3>3, <3>4, <4>1
    <3>5. CASE ~ (s.height < s.upto)
      <4>1. s.height = s.upto
        BY <1>1, <3>1, <3>5
      <4>2. t.pc = "done" /\ "done" \notin ReadingPc /\ (t.out = "ok" => ~ Gap(s.got \o hd))
        BY <2>1, <3>5 DEF ReadingPc, HeaderWritePc
      <4>3. s.got \o hd \in Seq(Header)
        BY <1>1
      <4>4. ASSUME t.out = "ok"
            PROVE  /\ Run(s.got \o hd, s.from)
                   /\ \A h \in s.from..s.upto : h <= s.seen => h < s.from + Len(s.got \o hd)
        BY <1>1, <3>1, <3>3, <4>1, <4>2, <4>3, <4>4, RunIsTheRange
      <4> QED BY <2>1, <3>1, <4>2, <4>4
    <3> QED BY <3>4, <3>5
  <2> QED BY <1>1, <2>1, <2>3, <2>4 DEF RangeInv
<1> QED BY <1>2, <1>3

\* A range begins at its first height, with nothing gathered.
LEMMA RangeBegins ==
  ASSUME HIInv, NEW c \in Call, BeginHeader(c)
  PROVE  RangeInv(c)'
<1>1. req \in [Call -> HeaderReq] /\ currentHeight \in Nat /\ currentHeight' = currentHeight
  BY RangeFacts
     DEF BeginHeader, GetHeaderByHeight, WaitForHeader, GetHeadersByRange, GetLatestHead,
         Sync, GetHeaderByHash, BeginWith, vars
<1>2. PICK s \in HeaderReq : BeginWith(c, s) /\ StartsWell(s)
  BY BeginHeaderIsBeginWith
<1> DEFINE t == [s EXCEPT !.from = s.height, !.seen = currentHeight]
<1>3. req' = [req EXCEPT ![c] = t]
  BY <1>2 DEF BeginWith
<1>4. /\ t.kind = s.kind /\ t.pc = s.pc /\ t.out = s.out /\ t.height = s.height
      /\ t.upto = s.upto /\ t.got = s.got /\ t.from = s.height /\ t.seen = currentHeight
  BY DEF HeaderReq
<1> HIDE DEF t
<1>5. req'[c] = t
  BY <1>1, <1>3
<1>6. CASE t.kind # "range"
  BY <1>5, <1>6 DEF RangeInv
<1>7. CASE t.kind = "range" /\ t.pc = "done" /\ t.out = "invalidRange"
  BY <1>1, <1>4, <1>5, <1>7 DEF RangeInv, ReadingPc, HeaderWritePc
<1>8. CASE /\ t.kind = "range" /\ t.pc = "readHeader" /\ t.out = "pending"
           /\ t.got = <<>> /\ t.height <= t.upto
  <2>1. t.from = t.height /\ t.from <= t.height /\ t.from \in Nat
    BY <1>4 DEF HeaderReq
  <2>2. Len(<<>>) = 0 /\ 1..0 = {}
    OBVIOUS
  <2>3. Run(<<>>, t.from)
    BY <2>2 DEF Run
  <2>4. Gathers(t.got, t.from, t.seen, t.height)
    BY <1>8, <2>1, <2>2, <2>3 DEF Gathers
  <2> QED BY <1>1, <1>4, <1>5, <1>8, <2>1, <2>4 DEF RangeInv
<1> QED BY <1>2, <1>4, <1>6, <1>7, <1>8 DEF StartsWell

\* The other steps of header calls.
LEMMA RangeSteps ==
  ASSUME HIInv, HIInv', NEW c \in Call, RangeInv(c), currentHeight' = currentHeight,
         HeaderStep(c) \/ HeaderFault(c) \/ FinishHeader(c)
  PROVE  RangeInv(c)'
<1> DEFINE r == req[c]
<1>1. /\ r \in HeaderReq /\ HeaderCallInv(c) /\ req \in [Call -> HeaderReq]
      /\ currentHeight \in Nat /\ r.height \in Nat
  BY RangeFacts
<1>2. r.kind = "range" /\ r.pc # "done" => r.out # "ok"
  BY DEF RangeInv
<1>3. ASSUME NEW out, out # "ok", req' = [req EXCEPT ![c] = Answer(r, out)]
      PROVE  RangeInv(c)'
  <2> DEFINE t == Answer(r, out)
  <2>1. t.pc = "done" /\ t.out = out /\ t.kind = r.kind /\ t.from = r.from /\ t.seen = r.seen
    BY <1>1, AnswerKeepsRange
  <2> HIDE DEF t
  <2> QED BY <1>3, <2>1, RangeMoves DEF t
<1>4. ASSUME NEW t, req' = [req EXCEPT ![c] = t], r.kind = "range" => r.out # "ok",
             r.pc \in ReadingPc, t.pc \in ReadingPc, t.kind = r.kind, t.from = r.from,
             t.seen = r.seen, t.upto = r.upto, t.height = r.height, t.got = r.got,
             t.out \in {r.out, "redisError"}
      PROVE  RangeInv(c)'
  BY <1>4, RangeMoves
<1>5. ASSUME r.kind # "range", NEW t, t.kind = r.kind, req' = [req EXCEPT ![c] = t]
      PROVE  RangeInv(c)'
  <2>1. req'[c] = t
    BY <1>1, <1>5
  <2> QED BY <1>5, <2>1 DEF RangeInv
<1>6. {"readHeader", "building", "setHeader", "setHash"} = ReadingPc
  BY DEF ReadingPc, HeaderWritePc
<1>7. CASE ReadHeaderNotFound(c)
  <2> DEFINE none == <<>>
  <2>1. /\ req' = [req EXCEPT ![c] = AfterHeader(r, none)] /\ none \in Seq(Header)
        /\ r.pc = "readHeader" /\ (r.height = 0 \/ r.height > currentHeight) /\ none = <<>>
    BY <1>7 DEF ReadHeaderNotFound, GoesOn, HeightUnknown
  <2> HIDE DEF none
  <2> QED BY <1>6, <2>1, RangeReads
<1>8. CASE ReadHeader(c)
  <2> DEFINE h == r.height
             one == <<h, header[h]>>
             hd == <<one>>
  <2>1. /\ req' = [req EXCEPT ![c] = AfterHeader(r, hd)] /\ header[h] # Nil
        /\ ~ HeightUnknown(h) /\ r.pc = "readHeader"
    BY <1>8 DEF ReadHeader, GoesOn
  <2>2. h \in Height
    BY <1>1, <2>1, HeaderFacts DEF HeightUnknown, Height, HeaderReq
  <2>3. one \in Header /\ one[1] = h
    BY <2>1, <2>2, HeaderFacts DEF HeaderTypeOK, Header
  <2> HIDE DEF one
  <2>4. hd \in Seq(Header)
    BY <2>3
  <2>5. \E k \in Header : k[1] = r.height /\ hd = <<k>>
    BY <2>3
  <2> HIDE DEF hd
  <2> QED BY <1>6, <2>1, <2>4, <2>5, RangeReads
<1>9. CASE ReadNoHeader(c)
  <2> DEFINE f == header[r.height] = Nil
             t == [r EXCEPT !.pc = "building", !.first = f]
  <2>1. r.pc = "readHeader" /\ req' = [req EXCEPT ![c] = t]
    BY <1>9, <1>1 DEF ReadNoHeader
  <2> HIDE DEF f
  <2>2. /\ t.pc = "building" /\ t.kind = r.kind /\ t.from = r.from /\ t.seen = r.seen
        /\ t.upto = r.upto /\ t.height = r.height /\ t.got = r.got /\ t.out = r.out
    BY <1>1 DEF HeaderReq
  <2> HIDE DEF t
  <2> QED BY <1>2, <1>4, <1>6, <2>1, <2>2
<1>10. CASE PanicFromEds(c)
  BY <1>3, <1>10 DEF PanicFromEds, GoesOn
<1>19. CASE PanicFromValidate(c)
  BY <1>3, <1>19 DEF PanicFromValidate, GoesOn
<1>11. CASE Generate(c)
  <2> DEFINE n == Len(generated[r.height]) + 1
             t == [r EXCEPT !.pc = "setHeader", !.new = n]
  <2>1. r.pc = "building" /\ req' = [req EXCEPT ![c] = t]
    <3>1. r.pc = "building" /\ req' = [req EXCEPT ![c].pc = "setHeader", ![c].new = n]
      BY <1>11 DEF Generate
    <3> HIDE DEF n
    <3> QED BY <1>1, <3>1
  <2> HIDE DEF n
  <2>2. /\ t.pc = "setHeader" /\ t.kind = r.kind /\ t.from = r.from /\ t.seen = r.seen
        /\ t.upto = r.upto /\ t.height = r.height /\ t.got = r.got /\ t.out = r.out
    BY <1>1 DEF HeaderReq
  <2> HIDE DEF t
  <2> QED BY <1>2, <1>4, <1>6, <2>1, <2>2
<1>12. CASE SetHeader(c)
  <2> DEFINE t == [r EXCEPT !.pc = "setHash"]
  <2>1. /\ r.pc = "setHeader"
        /\ \/ req' = [req EXCEPT ![c] = Answer(r, "redisError")]
           \/ req' = [req EXCEPT ![c] = t]
    BY <1>12 DEF SetHeader, AfterHeaderWrite, GoesOn
  <2>2. /\ t.pc = "setHash" /\ t.kind = r.kind /\ t.from = r.from /\ t.seen = r.seen
        /\ t.upto = r.upto /\ t.height = r.height /\ t.got = r.got /\ t.out = r.out
    BY <1>1 DEF HeaderReq
  <2> HIDE DEF t
  <2> QED BY <1>2, <1>3, <1>4, <1>6, <2>1, <2>2
<1>13. CASE SetHash(c)
  <2> DEFINE h == r.height
             one == <<h, r.new>>
             hd == <<one>>
  <2>1. /\ r.pc = "setHash"
        /\ \/ req' = [req EXCEPT ![c] = Answer(r, "redisError")]
           \/ req' = [req EXCEPT ![c] = AfterHeader(r, hd)]
    BY <1>13 DEF SetHash, AfterHeaderWrite, GoesOn
  <2>2. h \in Height /\ r.new \in Nat \ {0}
    BY <1>1, <2>1, HeaderFacts DEF HeaderCallInv, Height, HeaderReq
  <2>3. one \in Header /\ one[1] = h
    BY <2>2 DEF Header
  <2> HIDE DEF one
  <2>4. hd \in Seq(Header)
    BY <2>3
  <2>5. \E k \in Header : k[1] = r.height /\ hd = <<k>>
    BY <2>3
  <2> HIDE DEF hd
  <2> QED BY <1>3, <1>6, <2>1, <2>4, <2>5, RangeReads
<1>14. CASE LookAgain(c)
  <2> DEFINE s == [r EXCEPT !.pc = "readHeader"]
             w == [r EXCEPT !.attempts = @ - 1]
             z == [r EXCEPT !.attempts = 0]
  <2>1. /\ r.pc = "sleep"
        /\ \/ req' = [req EXCEPT ![c] = s]
           \/ req' = [req EXCEPT ![c] = Answer(z, "timeout")]
           \/ req' = [req EXCEPT ![c] = w]
    BY <1>14 DEF LookAgain
  <2>2. r.kind # "range"
    BY <2>1 DEF RangeInv
  <2>3. z \in HeaderReq /\ z.kind = r.kind
    <3>1. 0 \in 0..MaxAttempts
      BY HeaderAssumption
    <3> QED BY <1>1, <3>1 DEF HeaderReq
  <2>4. s.kind = r.kind /\ w.kind = r.kind
    BY <1>1 DEF HeaderReq
  <2> HIDE DEF s, w, z
  <2>5. Answer(z, "timeout").kind = r.kind
    BY <2>3, AnswerKeepsRange
  <2> QED BY <1>5, <2>1, <2>2, <2>4, <2>5
<1>15. CASE ReadHash(c) \/ ReadKey(c)
  <2>1. r.kind = "hash"
    BY <1>15, HashCallFacts DEF ReadHash, ReadKey
  <2>2. r.pc \in {"readHash", "readKey"}
    BY <1>15 DEF ReadHash, ReadKey
  <2> DEFINE s == [r EXCEPT !.pc = "readKey", !.height = r.hash[1]]
             no == Answer(r, "headerNotFound")
             hd == << <<r.height, header[r.height]>> >>
             g == [r EXCEPT !.got = hd]
             a == Answer(g, "ok")
  <2>3. \/ req' = [req EXCEPT ![c] = s]
        \/ req' = [req EXCEPT ![c] = no]
        \/ req' = [req EXCEPT ![c] = a]
    BY <1>15 DEF ReadHash, ReadKey, GoesOn
  <2> HIDE DEF hd
  <2>4. s.kind = r.kind
    BY <1>1 DEF HeaderReq
  <2>5. no.kind = r.kind
    BY <1>1, AnswerKeepsRange
  <2>6. a.kind = r.kind
    BY <1>1 DEF HeaderReq, Answer
  <2> HIDE DEF s, no, a
  <2> QED BY <1>5, <2>1, <2>3, <2>4, <2>5, <2>6
<1>16. CASE FailHeaderRead(c) \/ LoseHeaderWrite(c)
  BY <1>3, <1>16 DEF FailHeaderRead, LoseHeaderWrite
<1>17. CASE FailHeaderWrite(c)
  <2> DEFINE t == [r EXCEPT !.out = "redisError"]
  <2>1. r.pc \in HeaderWritePc /\ req' = [req EXCEPT ![c] = t]
    BY <1>17 DEF FailHeaderWrite
  <2>2. /\ t.pc = r.pc /\ t.kind = r.kind /\ t.from = r.from /\ t.seen = r.seen
        /\ t.upto = r.upto /\ t.height = r.height /\ t.got = r.got /\ t.out = "redisError"
    BY <1>1 DEF HeaderReq
  <2>3. r.pc \in ReadingPc /\ r.pc # "done"
    BY <2>1 DEF ReadingPc, HeaderWritePc
  <2> HIDE DEF t
  <2> QED BY <1>2, <1>4, <2>1, <2>2, <2>3
<1>18. CASE FinishHeader(c)
  <2>1. req' = [req EXCEPT ![c] = NoReq] /\ NoReq.kind = "none"
    BY <1>18 DEF FinishHeader, NoReq
  <2>2. req'[c].kind = "none"
    BY <1>1, <2>1
  <2> QED BY <2>2 DEF RangeInv
<1> QED
  BY <1>7, <1>8, <1>9, <1>10, <1>11, <1>12, <1>13, <1>14, <1>15, <1>16, <1>17, <1>18, <1>19
     DEF HeaderStep, HeaderFault

-----------------------------------------------------------------------------
LEMMA RangesInductive == RInv /\ [HeaderNext]_hvars => RInv'
<1> SUFFICES ASSUME RInv, [HeaderNext]_hvars PROVE RInv'
  OBVIOUS
<1>1. HIInv /\ HIInv' /\ [Next]_vars
  BY HeaderInductive DEF RInv
<1>2. currentHeight \in Nat /\ currentHeight' \in Nat /\ currentHeight' >= currentHeight
  <2>1. currentHeight \in Nat /\ currentHeight' \in Nat
    BY <1>1, StoreAssumption DEF HIInv, IInv, TypeOK
  <2> QED BY <1>1, <2>1, HeightGrows
<1>3. ASSUME NEW d \in Call, req'[d] = req[d] PROVE RangeInv(d)'
  BY <1>1, <1>2, <1>3, RangeStays DEF RInv
<1>4. CASE UNCHANGED headerVars
  BY <1>1, <1>3, <1>4 DEF headerVars, RInv
<1>5. ASSUME NEW c \in Call,
             BeginHeader(c) \/ HeaderStep(c) \/ HeaderFault(c) \/ FinishHeader(c)
      PROVE  \A d \in Call : RangeInv(d)'
  <2>1. ASSUME NEW d \in Call, d # c PROVE RangeInv(d)'
    <3>1. req'[d] = req[d]
      <4>1. \E t : req' = [req EXCEPT ![c] = t]
        BY <1>5 DEF BeginHeader, GetHeaderByHeight, WaitForHeader, GetHeadersByRange,
             GetLatestHead, Sync, GetHeaderByHash, BeginWith, HeaderStep,
             ReadHeaderNotFound, ReadHeader, ReadNoHeader, PanicFromEds, Generate,
             PanicFromValidate, SetHeader, SetHash, LookAgain, ReadHash, ReadKey, GoesOn, AfterHeaderWrite,
             HeaderFault, FailHeaderRead, FailHeaderWrite, LoseHeaderWrite, FinishHeader
      <4> QED BY <1>1, <2>1, <4>1, RangeFacts
    <3> QED BY <1>3, <3>1
  <2>2. RangeInv(c)'
    <3>1. CASE BeginHeader(c)
      BY <1>1, <3>1, RangeBegins
    <3>2. CASE HeaderStep(c) \/ HeaderFault(c) \/ FinishHeader(c)
      <4>1. currentHeight' = currentHeight
        <5>1. CASE SetHash(c)
          BY <1>1, <5>1, SetHashStep DEF vars
        <5>2. CASE ~ SetHash(c)
          BY <3>2, <5>2
             DEF HeaderStep, ReadHeaderNotFound, ReadHeader, ReadNoHeader, GetEds,
                 PanicFromEds, Generate, PanicFromValidate, Finish, SetHeader, LookAgain, ReadHash, ReadKey,
                 HeaderFault, FailHeaderRead, FailHeaderWrite, LoseHeaderWrite,
                 FinishHeader, vars
        <5> QED BY <5>1, <5>2
      <4> QED BY <1>1, <3>2, <4>1, RangeSteps DEF RInv
    <3> QED BY <1>5, <3>1, <3>2
  <2> QED BY <2>1, <2>2
<1>6. CASE UNCHANGED hvars
  BY <1>4, <1>6 DEF hvars
<1>7. CASE HeaderNext
  BY <1>1, <1>4, <1>5, <1>7 DEF HeaderNext, BlobStep, RInv
<1> QED BY <1>6, <1>7

LEMMA RangeInvariance == HeaderSpec => []RInv
<1>1. HeaderInit => RInv
  BY HeaderInitially DEF HeaderInit, RInv, RangeInv, NoReq
<1> QED BY <1>1, RangesInductive, PTL DEF HeaderSpec

\* A range that begins at a height that is there is answered with headers of
\* consecutive heights from there on, as many as there were at least when the
\* call began (get_headers_by_range, whose loop asks for the current height anew).
THEOREM RangesCorrect == HeaderSpec => []RangesAreRuns
<1>1. RInv => RangesAreRuns
  <2> SUFFICES ASSUME RInv, NEW c \in Call, req[c].kind = "range", req[c].out = "ok",
                      req[c].from \in 1..req[c].seen
               PROVE  /\ \A i \in 1..Len(req[c].got) :
                           req[c].got[i][1] = req[c].from + i - 1
                      /\ \A h \in req[c].from..req[c].upto :
                           h <= req[c].seen => h < req[c].from + Len(req[c].got)
    BY DEF RangesAreRuns
  <2> QED BY DEF RInv, RangeInv, Run
<1> QED BY <1>1, RangeInvariance, PTL

-----------------------------------------------------------------------------
(* The squares that from_ods refuses.                                      *)
(*                                                                         *)
(* A layout of one namespace is sorted, and accepted where it fits.  So    *)
(* what is refused is of several namespaces, and these are tracked.        *)

\* Whatever of a vector is laid out, it fits into the widest square.
RequestsFit ==
  \A blobs \in Request : \A layout \in Seq(Blob) :
     IsInjective(layout) /\ ToSet(layout) \subseteq ToSet(blobs) \ Unshareable
       => Len(DataShares(layout)) <= MaxWidth * MaxWidth

Several(nss) == \E m \in nss, n \in nss : m # n

BatchesInv == \A h \in Height : batch[h] \in Request \cup {<<>>}

\* What a builder lists, and has listed, is of namespaces that are tracked.
ListsInv(c) ==
  LET s == call[c] IN
  s.op # "getAll" /\ s.pc \in {"members", "storeEds"} =>
    /\ ToSet(s.nss) \subseteq heightNs[s.height]
    /\ \A b \in ToSet(s.square) : NsOf[b] \in heightNs[s.height]

\* Why a call of share.GetEDS has no square.
ToldInv(c) ==
  LET s == call[c] IN
  s.op = "eds" =>
    /\ s.out \in {"pending", "ok", "headerNotFound", "redisError", "panic"}
    /\ s.out = "redisError" => faults > 0
    /\ s.out = "panic" => s.height \in Height /\ Several(heightNs[s.height])

EInv == SInv /\ BatchesInv /\ \A c \in Call : ListsInv(c) /\ ToldInv(c)

LEMMA OneNamespaceIsAccepted ==
  ASSUME RequestsFit, IInv, BatchesInv, NEW h \in Height, NEW layout \in Seq(Blob),
         Good(h, layout), \A b \in ToSet(layout) : NsOf[b] \in heightNs[h],
         ~ Several(heightNs[h])
  PROVE  Accepts(layout)
<1>1. ToSet(layout) \subseteq ToSet(batch[h]) \ Unshareable /\ IsInjective(layout)
  BY DEF Good, IInv, HeightsHoldOneBatch, Submitted
<1>2. Len(DataShares(layout)) <= MaxWidth * MaxWidth
  <2>1. CASE batch[h] \in Request
    BY <1>1, <2>1 DEF RequestsFit
  <2>2. CASE batch[h] = <<>>
    <3>1. ToSet(layout) = {}
      BY <1>1, <2>2, NothingInTheEmptySequence
    <3>2. Len(layout) = 0
      <4>1. Len(layout) \in Nat /\ DOMAIN layout = 1..Len(layout)
        OBVIOUS
      <4>2. ASSUME NEW i \in 1..Len(layout)
            PROVE  layout[i] \in ToSet(layout)
        BY <4>1 DEF ToSet
      <4> QED BY <3>1, <4>1, <4>2
    <3>3. Len(DataShares(layout)) = 1
      BY <3>2, EndsGrow, SharesOfALayout
    <3>4. MaxWidth \in Nat \ {0}
      BY LayoutAssumption, WidthAssumption
    <3>5. 1 <= MaxWidth * MaxWidth
      BY <3>4
    <3> QED BY <3>3, <3>5
  <2> QED BY <2>1, <2>2 DEF BatchesInv
<1>3. ASSUME NEW i \in 1..Len(layout), NEW j \in 1..Len(layout)
      PROVE  NsOf[layout[i]] = NsOf[layout[j]]
  <2>1. layout[i] \in ToSet(layout) /\ layout[j] \in ToSet(layout)
    BY DEF ToSet
  <2> QED BY <2>1 DEF Several
<1>4. ASSUME NEW i \in 1..Len(layout), NEW j \in 1..Len(layout)
      PROVE  NsOf[layout[i]] <= NsOf[layout[j]]
  <2>1. layout[i] \in Blob
    OBVIOUS
  <2>2. NsOf[layout[i]] \in Nat
    BY <2>1, LayoutAssumption
  <2> QED BY <1>3, <2>2
<1> QED BY <1>2, <1>4, SortedSquares DEF SortedIsAccepted

LEMMA SeveralStay ==
  ASSUME NEW S, NEW T, S \subseteq T, Several(S)
  PROVE  Several(T)
BY DEF Several

\* A call that does not move.
LEMMA ListsStay ==
  ASSUME IInv, SquaresStay, NEW c \in Call, ListsInv(c), call'[c] = call[c]
  PROVE  ListsInv(c)'
<1>1. CallInv(c)
  BY DEF IInv
<1>2. call[c].pc \in {"members", "storeEds"} => call[c].height \in Height
  BY <1>1 DEF CallInv
<1> QED BY <1>2 DEF ListsInv, SquaresStay

LEMMA ReadNamespacesLists ==
  ASSUME IInv, NEW c \in Call, SquareInv(c), ReadNamespaces(c)
  PROVE  ListsInv(c)'
<1> DEFINE s == call[c]
           h == s.height
<1>1. /\ s \in CallState /\ call \in [Call -> CallState] /\ CallInv(c)
      /\ s.pc = "namespaces" /\ UNCHANGED heightNs
  BY DEF IInv, TypeOK, ReadNamespaces, redisVars
<1>2. h \in Height /\ s.op # "getAll"
  BY <1>1 DEF CallInv
<1>3. heightNs[h] \in SUBSET Ns
  BY <1>2 DEF IInv, TypeOK
<1>4. PICK reply \in Replies(heightNs[h]) : call' = [call EXCEPT ![c] =
         [s EXCEPT !.nss = reply, !.pc = IF reply = <<>> THEN "storeEds" ELSE "members"]]
  BY DEF ReadNamespaces
<1> DEFINE p == IF reply = <<>> THEN "storeEds" ELSE "members"
           t == [s EXCEPT !.nss = reply, !.pc = p]
<1>5. ToSet(reply) = heightNs[h]
  BY <1>3, RepliesAreComplete
<1>6. s.square = <<>>
  BY <1>1, <1>2 DEF SquareInv
<1> HIDE DEF p
<1>7. t.nss = reply /\ t.square = <<>> /\ t.height = h
  BY <1>1, <1>6 DEF CallState
<1>8. call'[c] = t
  BY <1>1, <1>4 DEF p
<1> HIDE DEF t
<1> QED BY <1>1, <1>5, <1>7, <1>8, NothingInTheEmptySequence DEF ListsInv

LEMMA ReadMembersLists ==
  ASSUME IInv, NEW c \in Call, ListsInv(c), ReadMembers(c)
  PROVE  ListsInv(c)'
<1> DEFINE s == call[c]
           h == s.height
           n == Head(s.nss)
           rest == Tail(s.nss)
<1>1. /\ s \in CallState /\ call \in [Call -> CallState] /\ CallInv(c) /\ s.pc = "members"
      /\ UNCHANGED heightNs
  BY DEF IInv, TypeOK, ReadMembers, redisVars
<1>2. /\ s.nss \in Seq(Ns) /\ s.nss # <<>> /\ s.square \in Seq(Blob) /\ h \in Height
  BY <1>1 DEF CallInv, CallState
<1>3. n \in Ns /\ n \in ToSet(s.nss) /\ ToSet(rest) \subseteq ToSet(s.nss)
  BY <1>2, HeadAndTail
<1>4. Listed(c) \in SUBSET Blob /\ \A b \in Listed(c) : NsOf[b] = n
  <2>1. Listed(c) \subseteq members[h][n]
    BY DEF Listed
  <2> QED BY <1>2, <1>3, <2>1 DEF IInv, TypeOK
<1>5. PICK reply \in Replies(Listed(c)) :
        LET w == [s EXCEPT !.nss = rest, !.square = @ \o reply]
        IN  call' = [call EXCEPT ![c] =
                       IF rest # <<>> THEN w
                       ELSE IF w.op = "getAll" THEN Ended(w, "ok")
                       ELSE [w EXCEPT !.pc = "storeEds"]]
  BY DEF ReadMembers
<1> DEFINE square == s.square \o reply
           u == [s EXCEPT !.nss = rest, !.square = square]
           store == [u EXCEPT !.pc = "storeEds"]
           e == Ended(u, "ok")
<1>6. call'[c] \in {u, store, e}
  BY <1>1, <1>5
<1>7. reply \in Seq(Blob) /\ ToSet(reply) = Listed(c)
  BY <1>4, BlobReply, RepliesAreComplete
<1>8. square \in Seq(Blob) /\ ToSet(square) = ToSet(s.square) \cup Listed(c)
  BY <1>2, <1>7, PartsOfAConcatenation
<1> HIDE DEF square
<1>9. e.pc = "done"
  BY <1>1 DEF CallState, Ended
<1>10. /\ u.op = s.op /\ u.height = h /\ u.nss = rest /\ u.square = square
       /\ store.op = s.op /\ store.height = h /\ store.nss = rest /\ store.square = square
  BY <1>1 DEF CallState
<1> HIDE DEF u, store, e
<1>11. CASE s.op = "getAll" \/ call'[c] = e
  <2>1. call'[c].op = "getAll" \/ call'[c].pc = "done"
    BY <1>6, <1>9, <1>10, <1>11
  <2> QED BY <2>1 DEF ListsInv
<1>12. CASE s.op # "getAll" /\ call'[c] \in {u, store}
  <2>1. /\ ToSet(s.nss) \subseteq heightNs[h]
        /\ \A b \in ToSet(s.square) : NsOf[b] \in heightNs[h]
    BY <1>1, <1>12 DEF ListsInv
  <2>2. \A b \in ToSet(square) : NsOf[b] \in heightNs[h]
    BY <1>3, <1>4, <1>8, <2>1
  <2>3. ToSet(rest) \subseteq heightNs[h]
    BY <1>3, <2>1
  <2>4. call'[c].height = h /\ call'[c].nss = rest /\ call'[c].square = square
    BY <1>10, <1>12
  <2> HIDE DEF rest
  <2> QED BY <1>1, <2>2, <2>3, <2>4 DEF ListsInv
<1> QED BY <1>6, <1>11, <1>12

LEMMA StepLists ==
  ASSUME SInv, NEW c \in Call, ListsInv(c), Begin(c) \/ Step(c) \/ Fault(c) \/ Finish(c)
  PROVE  ListsInv(c)'
<1>1. /\ IInv /\ SquareInv(c) /\ call[c] \in CallState /\ call \in [Call -> CallState]
  BY DEF SInv, AInv, LedgerInv, IInv, TypeOK
<1>2. CASE ReadNamespaces(c) \/ ReadMembers(c)
  BY <1>1, <1>2, ReadNamespacesLists, ReadMembersLists
<1>3. CASE StoreEds(c) \/ IndexBlob(c) \/ MapIndex(c)
  <2> DEFINE s == call[c]
             p == IF s.square = <<>> THEN "edsReturned" ELSE "indexBlob"
             q == IF Tail(s.todo) = <<>> THEN "edsReturned" ELSE "indexBlob"
             n == IF Tail(s.todo) = <<>> THEN 0 ELSE s.next + Shares[Head(s.todo)]
             t == [s EXCEPT !.todo = s.square, !.next = 1, !.pc = p]
             u == [s EXCEPT !.pc = "mapIndex"]
             v == [s EXCEPT !.todo = Tail(s.todo), !.next = n, !.pc = q]
             e == Ended(s, "redisError")
  <2>1. AfterWrite(c, t) \/ AfterWrite(c, u) \/ AfterWrite(c, v)
    BY <1>3 DEF StoreEds, IndexBlob, MapIndex
  <2>2. p \notin {"members", "storeEds"} /\ q \notin {"members", "storeEds"}
    OBVIOUS
  <2> HIDE DEF p, q, n
  <2>3. \A w \in {t, u, v} : w.pc \notin {"members", "storeEds"}
    BY <1>1, <2>2 DEF CallState
  <2>4. e.pc = "done"
    BY <1>1, EndedKeeps
  <2> HIDE DEF t, u, v, e
  <2>5. call'[c] \in {t, u, v, e}
    BY <1>1, <2>1 DEF AfterWrite, e
  <2> QED BY <2>3, <2>4, <2>5 DEF ListsInv
<1>4. CASE FailWrite(c)
  <2> DEFINE t == [call[c] EXCEPT !.out = "redisError"]
  <2>1. call'[c] = t /\ UNCHANGED heightNs
    BY <1>1, <1>4 DEF FailWrite, redisVars
  <2>2. /\ t.op = call[c].op /\ t.pc = call[c].pc /\ t.height = call[c].height
        /\ t.nss = call[c].nss /\ t.square = call[c].square
    BY <1>1 DEF CallState
  <2> HIDE DEF t
  <2> QED BY <2>1, <2>2 DEF ListsInv
<1>5. ASSUME Elsewhere(call'[c]) PROVE ListsInv(c)'
  BY <1>5 DEF Elsewhere, ListsInv
<1> QED BY <1>1, <1>2, <1>3, <1>4, <1>5, StepsElsewhere DEF Step, Fault

\* A call is of the operation it began with.
LEMMA StepsKeepTheOp ==
  ASSUME IInv, NEW c \in Call, Step(c) \/ Fault(c)
  PROVE  call'[c].op = call[c].op
<1> DEFINE s == call[c]
<1>1. s \in CallState /\ call \in [Call -> CallState]
  BY DEF IInv, TypeOK
<1>2. ASSUME Plain(c) PROVE call'[c].op = s.op
  BY <1>2 DEF Plain, SameAsked
<1>3. ASSUME NEW t, t.op = s.op, call' = [call EXCEPT ![c] = t]
      PROVE  call'[c].op = s.op
  BY <1>1, <1>3
<1>4. CASE ReadMembers(c)
  <2> DEFINE u(reply) == [s EXCEPT !.nss = Tail(s.nss), !.square = @ \o reply]
             v(reply) == [u(reply) EXCEPT !.pc = "storeEds"]
             e(reply) == Ended(u(reply), "ok")
  <2>1. PICK reply : \/ call' = [call EXCEPT ![c] = u(reply)]
                     \/ call' = [call EXCEPT ![c] = e(reply)]
                     \/ call' = [call EXCEPT ![c] = v(reply)]
    BY <1>4 DEF ReadMembers
  <2>2. u(reply).op = s.op /\ v(reply).op = s.op /\ e(reply).op = s.op
    BY <1>1 DEF CallState, Ended
  <2> HIDE DEF u, v, e
  <2> QED BY <1>3, <2>1, <2>2
<1>5. CASE ReadCommitment(c) \/ ReadBlob(c) \/ RereadBlob(c)
  <2> DEFINE t == [s EXCEPT !.pc = "readBlob"]
             u == [s EXCEPT !.pc = "eds", !.retry = TRUE]
             v == [s EXCEPT !.index = blobData[s.height][s.target]]
             e(out) == Ended(s, out)
             i(out) == Ended(v, out)
  <2>1. \/ call' = [call EXCEPT ![c] = t] \/ call' = [call EXCEPT ![c] = u]
        \/ \E out : call' = [call EXCEPT ![c] = e(out)] \/ call' = [call EXCEPT ![c] = i(out)]
    BY <1>5 DEF ReadCommitment, ReadBlob, RereadBlob
  <2>2. t.op = s.op /\ u.op = s.op /\ \A out : e(out).op = s.op /\ i(out).op = s.op
    BY <1>1 DEF CallState, Ended
  <2> HIDE DEF t, u, v, e, i
  <2> QED BY <1>3, <2>1, <2>2
<1>6. CASE FailRead(c)
  <2> DEFINE e == Ended(s, "redisError")
  <2>1. call' = [call EXCEPT ![c] = e]
    BY <1>6 DEF FailRead
  <2>2. e.op = s.op
    BY <1>1, EndedKeeps DEF SameAsked
  <2> HIDE DEF e
  <2> QED BY <1>3, <2>1, <2>2
<1> QED
  BY <1>2, <1>4, <1>5, <1>6, StoringIsPlain, SquareIsPlain, ReadingIsPlain DEF Step, Fault

LEMMA FaultsGrow ==
  ASSUME IInv, NEW c \in Call, Begin(c) \/ Step(c) \/ Fault(c) \/ Finish(c)
  PROVE  faults \in Nat /\ faults' \in Nat /\ faults' >= faults
<1>1. faults \in Nat
  BY StoreAssumption DEF IInv, TypeOK
<1>2. CASE FailRead(c) \/ FailWrite(c)
  BY <1>1, <1>2 DEF FailRead, FailWrite
<1>3. CASE ~ FailRead(c) /\ ~ FailWrite(c)
  <2>1. faults' = faults
    BY <1>3
       DEF Begin, Step, Fault, Finish, SubmitNothing, AssignHeight, GetEds, GetBlob,
           GetAll, SetBlob, AddMember, SetCommitment, TrackNamespace, EdsHeightNotFound,
           ReadEds, ReadNamespaces, ReadMembers, PanicFromOds, StoreEds, IndexBlob,
           MapIndex, ReturnEds, ReadCommitment, ReadBlob, RereadBlob, LoseWrite
  <2> QED BY <1>1, <2>1
<1> QED BY <1>2, <1>3

LEMMA BatchesStay ==
  ASSUME IInv, BatchesInv, NEW c \in Call, Begin(c) \/ Step(c) \/ Fault(c) \/ Finish(c)
  PROVE  BatchesInv'
<1>1. batch \in [Height -> Seq(Blob)]
  BY DEF IInv, TypeOK
<1>2. ASSUME NEW blobs \in Request, AssignHeight(c, blobs) PROVE BatchesInv'
  BY <1>1, <1>2 DEF AssignHeight, BatchesInv
<1>3. CASE ~ \E blobs \in Request : AssignHeight(c, blobs)
  <2>1. batch' = batch
    BY <1>3
       DEF Begin, Step, Fault, Finish, SubmitNothing, GetEds, GetBlob, GetAll, SetBlob,
           AddMember, SetCommitment, TrackNamespace, EdsHeightNotFound, ReadEds,
           ReadNamespaces, ReadMembers, PanicFromOds, StoreEds, IndexBlob, MapIndex,
           ReturnEds, ReadCommitment, ReadBlob, RereadBlob, FailRead, FailWrite,
           LoseWrite, historyVars
  <2> QED BY <2>1 DEF BatchesInv
<1> QED BY <1>2, <1>3

\* A call that does not move.
LEMMA ToldStays ==
  ASSUME SquaresStay, faults \in Nat, faults' \in Nat, faults' >= faults,
         NEW c \in Call, ToldInv(c), call'[c] = call[c]
  PROVE  ToldInv(c)'
<1>1. call[c].height \in Height /\ Several(heightNs[call[c].height])
        => Several(heightNs'[call[c].height])
  BY SeveralStay DEF SquaresStay
<1>2. faults > 0 => faults' > 0
  OBVIOUS
<1> QED BY <1>1, <1>2 DEF ToldInv

\* Whoever is told of a panic had a square of several namespaces.
LEMMA PanicIsOfSeveral ==
  ASSUME RequestsFit, SInv, BatchesInv, NEW c \in Call, ListsInv(c), PanicFromOds(c)
  PROVE  call[c].height \in Height /\ Several(heightNs[call[c].height])
<1> DEFINE s == call[c]
           h == s.height
<1>1. /\ IInv /\ SquareInv(c) /\ CallInv(c) /\ s \in CallState
      /\ s.pc = "storeEds" /\ ~ Accepts(s.square)
  BY DEF SInv, AInv, LedgerInv, IInv, TypeOK, PanicFromOds
<1>2. h \in Height /\ s.op # "getAll" /\ s.square \in Seq(Blob)
  BY <1>1 DEF CallInv, CallState
<1>3. Good(h, s.square) /\ \A b \in ToSet(s.square) : NsOf[b] \in heightNs[h]
  BY <1>1, <1>2 DEF SquareInv, Built, ListsInv
<1> QED BY <1>1, <1>2, <1>3, OneNamespaceIsAccepted

LEMMA StepTells ==
  ASSUME RequestsFit, SInv, BatchesInv, NEW c \in Call, ListsInv(c), ToldInv(c),
         Step(c) \/ Fault(c)
  PROVE  ToldInv(c)'
<1> DEFINE s == call[c]
           t == call'[c]
<1>1. IInv /\ SquaresStay /\ t.op = s.op
      /\ faults \in Nat /\ faults' \in Nat /\ faults' >= faults
  BY StepsKeepSquares, StepsKeepTheOp, FaultsGrow DEF SInv, AInv, LedgerInv
<1> SUFFICES ASSUME s.op = "eds" PROVE ToldInv(c)'
  BY <1>1 DEF ToldInv
<1>2. t.height = s.height /\ (t.out = s.out \/ Ends(c, t.out))
  BY EdsBuilds DEF Builds
<1>3. /\ s.out \in {"pending", "ok", "headerNotFound", "redisError", "panic"}
      /\ s.out = "redisError" => faults > 0
      /\ s.out = "panic" => s.height \in Height /\ Several(heightNs[s.height])
  BY DEF ToldInv
<1>4. t.out \in {"pending", "ok", "headerNotFound", "redisError", "panic"}
  BY <1>2, <1>3 DEF Ends
<1>5. t.out = "redisError" => faults' > 0
  BY <1>1, <1>2, <1>3 DEF Ends
<1>6. ASSUME t.out = "panic"
      PROVE  t.height \in Height /\ Several(heightNs'[t.height])
  <2>1. s.height \in Height /\ Several(heightNs[s.height])
    BY <1>2, <1>3, <1>6, PanicIsOfSeveral DEF Ends
  <2> QED BY <1>1, <1>2, <2>1, SeveralStay DEF SquaresStay
<1> QED BY <1>4, <1>5, <1>6 DEF ToldInv

\* A call that begins, or is over, has not been told of anything.
LEMMA BeginningTells ==
  ASSUME IInv, NEW c \in Call, Begin(c) \/ Finish(c)
  PROVE  ToldInv(c)'
<1>1. call \in [Call -> CallState]
  BY DEF IInv, TypeOK
<1>2. ASSUME NEW t, call' = [call EXCEPT ![c] = t], t.op # "eds" \/ t.out = "pending"
      PROVE  ToldInv(c)'
  <2>1. call'[c] = t
    BY <1>1, <1>2
  <2> QED BY <1>2, <2>1 DEF ToldInv
<1>3. CASE SubmitNothing(c)
  BY <1>2, <1>3 DEF SubmitNothing, Idle
<1>4. ASSUME NEW blobs \in Request, AssignHeight(c, blobs) PROVE ToldInv(c)'
  BY <1>2, <1>4 DEF AssignHeight, Idle
<1>5. ASSUME NEW h \in 0..MaxHeight, GetEds(c, h) PROVE ToldInv(c)'
  <2> DEFINE k == h \in acked
             t == [Idle EXCEPT !.op = "eds", !.pc = "eds", !.height = h, !.knew = k]
  <2>1. call' = [call EXCEPT ![c] = t]
    BY <1>5 DEF GetEds
  <2>2. t.out = "pending"
    BY DEF Idle
  <2> HIDE DEF t
  <2> QED BY <1>2, <2>1, <2>2
<1>6. ASSUME NEW h \in 0..MaxHeight, NEW b \in Blob, GetBlob(c, h, b) PROVE ToldInv(c)'
  <2> DEFINE k == h \in acked
             t == [Idle EXCEPT !.op = "get", !.pc = "eds", !.height = h, !.target = b,
                               !.knew = k]
  <2>1. call' = [call EXCEPT ![c] = t]
    BY <1>6 DEF GetBlob
  <2>2. t.op = "get"
    BY DEF Idle
  <2> HIDE DEF t
  <2> QED BY <1>2, <2>1, <2>2
<1>7. ASSUME NEW h \in Height, NEW nss \in NsList, GetAll(c, h, nss) PROVE ToldInv(c)'
  <2> DEFINE k == h \in acked
             p == IF nss = <<>> THEN "done" ELSE "members"
             o == IF nss = <<>> THEN "ok" ELSE "pending"
             t == [Idle EXCEPT !.op = "getAll", !.height = h, !.nss = nss, !.pc = p,
                               !.out = o, !.asked = ToSet(nss), !.knew = k]
  <2>1. call' = [call EXCEPT ![c] = t]
    BY <1>7 DEF GetAll
  <2> HIDE DEF k, p, o
  <2>2. t.op = "getAll"
    BY DEF Idle
  <2> HIDE DEF t
  <2> QED BY <1>2, <2>1, <2>2
<1>8. CASE Finish(c)
  BY <1>2, <1>8 DEF Finish, Idle
<1> QED BY <1>3, <1>4, <1>5, <1>6, <1>7, <1>8 DEF Begin

LEMMA ReasonsInitially == Init => EInv
<1> SUFFICES ASSUME Init PROVE EInv
  OBVIOUS
<1>1. \A c \in Call : call[c].op = "none" /\ call[c].pc = "idle"
  BY DEF Init, Idle
<1>2. BatchesInv
  BY DEF Init, BatchesInv
<1> QED BY <1>1, <1>2, SquaresInitially DEF EInv, ListsInv, ToldInv

LEMMA ReasonsInductive ==
  ASSUME RequestsFit, EInv, [Next]_vars
  PROVE  EInv'
<1>1. IInv /\ SInv /\ SInv' /\ BatchesInv /\ \A c \in Call : ListsInv(c) /\ ToldInv(c)
  BY SquaresInductive DEF EInv, SInv, AInv, LedgerInv
<1>2. ASSUME NEW c \in Call, Begin(c) \/ Step(c) \/ Fault(c) \/ Finish(c)
      PROVE  EInv'
  <2>1. BatchesInv' /\ SquaresStay
        /\ faults \in Nat /\ faults' \in Nat /\ faults' >= faults
    BY <1>1, <1>2, BatchesStay, StepsKeepSquares, FaultsGrow
  <2>2. ASSUME NEW d \in Call, d # c PROVE ListsInv(d)' /\ ToldInv(d)'
    <3>1. call'[d] = call[d]
      BY <1>1, <1>2, <2>2, OneCallMoves
    <3> QED BY <1>1, <2>1, <3>1, ListsStay, ToldStays
  <2>3. ListsInv(c)'
    BY <1>1, <1>2, StepLists
  <2>4. ToldInv(c)'
    BY <1>1, <1>2, StepTells, BeginningTells
  <2> QED BY <1>1, <2>1, <2>2, <2>3, <2>4 DEF EInv
<1>3. CASE UNCHANGED vars
  <2>1. UNCHANGED <<call, faults, heightNs, batch>>
    BY <1>3 DEF vars, redisVars, historyVars
  <2> QED BY <1>1, <2>1 DEF EInv, BatchesInv, ListsInv, ToldInv, Several
<1> QED BY <1>2, <1>3 DEF Next

-----------------------------------------------------------------------------
(* The headers of heights that are known.                                  *)
(*                                                                         *)
(* A call for one header that begins at a height that is there stays at    *)
(* it, and the height stays there: what it is told in the end is what its  *)
(* square was told, or what it has met itself.                             *)

HasInvalid(numbers, h) == \E n \in 1..Len(numbers[h]) : <<h, n>> \in Invalid

\* What makes a handler panic over a header.
Excused(failed, nss, numbers, h) ==
  failed > 0 \/ Several(nss[h]) \/ HasInvalid(numbers, h)

\* Why the call has no header.
WhyNot(s) ==
  \/ s.out \in {"pending", "ok"}
  \/ s.out = "redisError" /\ headerFaults > 0
  \/ s.out = "panic" /\ Excused(faults, heightNs, generated, s.height)

Asks(s) == s.kind \in OneHeader /\ s.from \in 1..s.seen

KnownInv(c) ==
  LET s == req[c] IN
  /\ s.pc = "building" => call[c].out # "headerNotFound"
  /\ Asks(s) =>
       /\ s.height = s.from /\ s.seen <= currentHeight
       /\ s.pc \in ReadingPc \cup {"done"}
       /\ WhyNot(s)

KInv == CInv /\ EInv /\ \A c \in Call : KnownInv(c)

LEMMA KnownFacts ==
  ASSUME KInv, NEW c \in Call
  PROVE  /\ req[c] \in HeaderReq /\ req \in [Call -> HeaderReq] /\ HeaderCallInv(c)
         /\ HIInv /\ IInv /\ CommitCallInv(c) /\ ToldInv(c) /\ KnownInv(c)
         /\ currentHeight \in Nat /\ faults \in Nat /\ headerFaults \in Nat
         /\ req[c].seen \in Nat
         /\ Asks(req[c]) => /\ req[c].height \in Height /\ req[c].height \in 1..currentHeight
                            /\ ~ HeightUnknown(req[c].height)
<1>1. /\ req[c] \in HeaderReq /\ req \in [Call -> HeaderReq] /\ HeaderCallInv(c)
      /\ HIInv /\ IInv /\ CommitCallInv(c) /\ ToldInv(c) /\ KnownInv(c)
  BY CommitFacts DEF KInv, EInv
<1>2. /\ currentHeight \in Nat /\ faults \in Nat /\ headerFaults \in Nat
      /\ currentHeight \in 0..MaxHeight /\ MaxHeight \in Nat
  BY <1>1, StoreAssumption, HeaderAssumption DEF HIInv, IInv, TypeOK, HeaderTypeOK
<1>3. req[c].seen \in Nat
  BY <1>1, <1>2 DEF HeaderReq
<1>4. Asks(req[c]) => req[c].height \in 1..req[c].seen /\ req[c].seen <= currentHeight
  BY <1>1 DEF KnownInv, Asks
<1>5. ASSUME Asks(req[c])
      PROVE  /\ req[c].height \in Height /\ req[c].height \in 1..currentHeight
             /\ ~ HeightUnknown(req[c].height)
  BY <1>2, <1>3, <1>4, <1>5 DEF Height, HeightUnknown
<1> QED BY <1>1, <1>2, <1>3, <1>5

\* A call that does not move.
LEMMA KnownStays ==
  ASSUME KInv, NEW c \in Call, req'[c] = req[c],
         req[c].pc = "building" => call'[c].out # "headerNotFound",
         currentHeight' \in Nat, currentHeight' >= currentHeight,
         faults' \in Nat, faults' >= faults,
         headerFaults' \in Nat, headerFaults' >= headerFaults,
         \A h \in Height : heightNs[h] \subseteq heightNs'[h],
         \A h \in Height : HasInvalid(generated, h) => HasInvalid(generated', h)
  PROVE  KnownInv(c)'
<1> DEFINE s == req[c]
<1>1. /\ KnownInv(c) /\ currentHeight \in Nat /\ faults \in Nat /\ headerFaults \in Nat
      /\ s.seen \in Nat /\ (Asks(s) => s.height \in Height)
  BY KnownFacts
<1>2. ASSUME Asks(s)
      PROVE  /\ s.height = s.from /\ s.seen <= currentHeight'
             /\ s.pc \in ReadingPc \cup {"done"}
             /\ \/ s.out \in {"pending", "ok"}
                \/ s.out = "redisError" /\ headerFaults' > 0
                \/ s.out = "panic" /\ Excused(faults', heightNs', generated', s.height)
  <2>1. /\ s.height = s.from /\ s.seen <= currentHeight
        /\ s.pc \in ReadingPc \cup {"done"} /\ WhyNot(s)
    BY <1>1, <1>2 DEF KnownInv
  <2>2. Several(heightNs[s.height]) => Several(heightNs'[s.height])
    BY <1>1, <1>2, SeveralStay
  <2>3. s.seen <= currentHeight'
    BY <1>1, <2>1
  <2>4. /\ headerFaults > 0 => headerFaults' > 0
        /\ faults > 0 => faults' > 0
    BY <1>1
  <2>5. Excused(faults, heightNs, generated, s.height)
          => Excused(faults', heightNs', generated', s.height)
    BY <1>1, <1>2, <2>2, <2>4 DEF Excused
  <2> QED BY <2>1, <2>3, <2>4, <2>5 DEF WhyNot
<1> QED BY <1>2 DEF KnownInv, Asks, WhyNot

\* A call that goes on at its height.
LEMMA KnownMoves ==
  ASSUME KInv, NEW c \in Call, NEW t, req' = [req EXCEPT ![c] = t],
         UNCHANGED <<currentHeight, faults, heightNs>>,
         t.pc = "building" => call'[c].out # "headerNotFound",
         t.kind = req[c].kind, t.from = req[c].from, t.seen = req[c].seen,
         Asks(req[c]) =>
           /\ t.height = req[c].height
           /\ t.pc \in ReadingPc \cup {"done"}
           /\ \/ t.out \in {"pending", "ok"}
              \/ t.out = "redisError" /\ headerFaults' > 0
              \/ t.out = "panic" /\ Excused(faults', heightNs', generated', t.height)
  PROVE  KnownInv(c)'
<1>1. req'[c] = t /\ KnownInv(c)
  BY KnownFacts
<1>2. Asks(t) => Asks(req[c])
  BY DEF Asks
<1> QED BY <1>1, <1>2 DEF KnownInv, Asks, WhyNot

\* A call that is for no header of a height that was there.
LEMMA KnownElse ==
  ASSUME KInv, NEW c \in Call, NEW t, req' = [req EXCEPT ![c] = t],
         t.pc # "building", t.kind \notin OneHeader
  PROVE  KnownInv(c)'
<1>1. req'[c] = t
  BY KnownFacts
<1> QED BY <1>1 DEF KnownInv, Asks

LEMMA KnownBegins ==
  ASSUME KInv, NEW c \in Call, BeginHeader(c)
  PROVE  KnownInv(c)'
<1>1. req \in [Call -> HeaderReq] /\ currentHeight \in Nat /\ currentHeight' = currentHeight
  BY KnownFacts
     DEF BeginHeader, GetHeaderByHeight, WaitForHeader, GetHeadersByRange, GetLatestHead,
         Sync, GetHeaderByHash, BeginWith, vars
<1>2. PICK s \in HeaderReq : BeginWith(c, s) /\ StartsWell(s)
  BY KnownFacts, BeginHeaderIsBeginWith
<1> DEFINE t == [s EXCEPT !.from = s.height, !.seen = currentHeight]
<1>3. req' = [req EXCEPT ![c] = t]
  BY <1>2 DEF BeginWith
<1>4. /\ t.kind = s.kind /\ t.pc = s.pc /\ t.out = s.out /\ t.height = s.height
      /\ t.from = s.height /\ t.seen = currentHeight
  BY DEF HeaderReq
<1> HIDE DEF t
<1>5. req'[c] = t
  BY <1>1, <1>3
<1>6. t.pc # "building"
  BY <1>2, <1>4 DEF StartsWell
<1>7. Asks(t) => t.pc = "readHeader" /\ t.out = "pending"
  BY <1>2, <1>4 DEF Asks, StartsWell, OneHeader
<1>8. currentHeight <= currentHeight
  BY <1>1
<1> QED BY <1>1, <1>4, <1>5, <1>6, <1>7, <1>8 DEF KnownInv, Asks, WhyNot, ReadingPc

\* get_header_by_height answers a call that is not for a range.
LEMMA OneHeaderAnswer ==
  ASSUME NEW s \in HeaderReq, s.kind # "range", NEW hd
  PROVE  LET t == AfterHeader(s, hd) IN
         /\ t.pc = "done" /\ t.kind = s.kind /\ t.from = s.from /\ t.seen = s.seen
         /\ t.height = s.height
         /\ t.out = IF hd = <<>> THEN "headerNotFound" ELSE "ok"
<1> DEFINE u == [s EXCEPT !.got = @ \o hd]
           o == IF hd = <<>> THEN "headerNotFound" ELSE "ok"
           a == [u EXCEPT !.pc = "done", !.out = o]
<1>1. AfterHeader(s, hd) = a
  BY DEF AfterHeader, Answer
<1> HIDE DEF o
<1>2. a.pc = "done" /\ a.kind = s.kind /\ a.from = s.from /\ a.seen = s.seen
      /\ a.height = s.height /\ a.out = o
  BY DEF HeaderReq
<1> HIDE DEF a
<1> QED BY <1>1, <1>2 DEF o

\* It has read a height, and a known one has a header.
LEMMA KnownReads ==
  ASSUME KInv, NEW c \in Call, NEW hd \in Seq(Header),
         req' = [req EXCEPT ![c] = AfterHeader(req[c], hd)],
         UNCHANGED <<currentHeight, faults, heightNs>>,
         Asks(req[c]) => hd # <<>>
  PROVE  KnownInv(c)'
<1> DEFINE s == req[c]
           t == AfterHeader(s, hd)
<1>1. s \in HeaderReq
  BY KnownFacts
<1>2. t.pc # "building" /\ t.kind = s.kind
  BY <1>1, AfterHeaderIsAReq
<1>3. CASE s.kind \notin OneHeader
  <2> HIDE DEF t
  <2> QED BY <1>2, <1>3, KnownElse DEF t
<1>4. CASE s.kind \in OneHeader
  <2>1. s.kind # "range"
    BY <1>4 DEF OneHeader
  <2>2. /\ t.pc = "done" /\ t.from = s.from /\ t.seen = s.seen /\ t.height = s.height
        /\ t.out = IF hd = <<>> THEN "headerNotFound" ELSE "ok"
    BY <1>1, <2>1, OneHeaderAnswer
  <2> HIDE DEF t
  <2>3. req' = [req EXCEPT ![c] = t]
    BY DEF t
  <2> QED BY <1>2, <2>2, <2>3, KnownMoves
<1> QED BY <1>3, <1>4

\* What a call is told of its square.
LEMMA PanicIsKnown ==
  ASSUME KInv, NEW c \in Call, req[c].pc = "building", call[c].out \notin {"pending", "ok"}
  PROVE  Excused(faults, heightNs, generated, req[c].height)
<1>1. call[c].op = "eds" /\ call[c].height = req[c].height /\ call[c].out # "headerNotFound"
  BY KnownFacts DEF CommitCallInv, KnownInv
<1> QED BY <1>1, KnownFacts DEF ToldInv, Excused

\* Numbers are only added.
LEMMA InvalidStays ==
  ASSUME HIInv, NEW c \in Call, NEW h \in Height, HasInvalid(generated, h),
         \/ BlobStep(c) \/ BeginHeader(c) \/ HeaderStep(c) \/ HeaderFault(c)
         \/ FinishHeader(c)
  PROVE  HasInvalid(generated', h)
<1>1. CASE generated' = generated
  BY <1>1
<1>2. CASE Generate(c) \/ PanicFromValidate(c)
  <2>1. req[c].pc = "building"
        /\ generated' = [generated EXCEPT ![req[c].height] = Append(@, call[c].square)]
    BY <1>2 DEF Generate, PanicFromValidate
  <2>2. /\ generated \in [Height -> Seq(Seq(Blob))] /\ call[c].square \in Seq(Blob)
        /\ generated' \in [Height -> Seq(Seq(Blob))] /\ req[c].height \in Height
    BY <2>1, HeaderFacts, OneMoreGenerated DEF HeaderTypeOK, CallState
  <2>3. /\ generated[h] \in Seq(Seq(Blob)) /\ generated'[h] \in Seq(Seq(Blob))
        /\ generated'[h] \in {generated[h], Append(generated[h], call[c].square)}
    BY <2>1, <2>2
  <2>4. Len(generated[h]) \in Nat /\ Len(generated'[h]) \in Nat
        /\ Len(generated'[h]) >= Len(generated[h])
    BY <2>2, <2>3
  <2> QED BY <2>4 DEF HasInvalid
<1>3. CASE ~ Generate(c) /\ ~ PanicFromValidate(c)
  <2>1. generated' = generated
    BY <1>3 DEF BlobStep, headerVars, BeginHeader, GetHeaderByHeight, WaitForHeader,
       GetHeadersByRange, GetLatestHead, Sync, GetHeaderByHash, BeginWith, HeaderStep,
       ReadHeaderNotFound, ReadHeader, ReadNoHeader, PanicFromEds, SetHeader, SetHash,
       LookAgain, ReadHash, ReadKey, HeaderFault, FailHeaderRead, FailHeaderWrite,
       LoseHeaderWrite, FinishHeader
  <2> QED BY <1>1, <2>1
<1> QED BY <1>2, <1>3

LEMMA KnownSteps ==
  ASSUME KInv, NEW c \in Call, UNCHANGED <<currentHeight, faults, heightNs>>,
         HeaderStep(c) \/ HeaderFault(c) \/ FinishHeader(c)
  PROVE  KnownInv(c)'
<1> DEFINE r == req[c]
<1>1. /\ r \in HeaderReq /\ HeaderCallInv(c) /\ req \in [Call -> HeaderReq] /\ HIInv
      /\ KnownInv(c) /\ headerFaults \in Nat
      /\ Asks(r) => r.height \in Height /\ ~ HeightUnknown(r.height)
  BY KnownFacts
<1>0. Asks(r) => (Excused(faults, heightNs, generated, r.height)
                    => Excused(faults', heightNs', generated', r.height))
  BY <1>1, InvalidStays DEF Excused
<1>2. ASSUME NEW out, req' = [req EXCEPT ![c] = Answer(r, out)],
             Asks(r) => \/ out = "redisError" /\ headerFaults' > 0
                        \/ out = "panic" /\ Excused(faults', heightNs', generated', r.height)
      PROVE  KnownInv(c)'
  <2> DEFINE t == Answer(r, out)
  <2>1. t.pc = "done" /\ t.out = out /\ t.kind = r.kind /\ t.from = r.from
        /\ t.seen = r.seen /\ t.height = r.height
    BY <1>1 DEF Answer, HeaderReq
  <2> HIDE DEF t
  <2> QED BY <1>2, <2>1, KnownMoves DEF t
<1>3. ASSUME NEW t, req' = [req EXCEPT ![c] = t], t.pc \in HeaderWritePc, t.kind = r.kind,
             t.from = r.from, t.seen = r.seen, t.height = r.height,
             \/ t.out = r.out /\ headerFaults' = headerFaults
             \/ t.out = "redisError" /\ headerFaults' > 0
      PROVE  KnownInv(c)'
  <2>1. t.pc # "building" /\ t.pc \in ReadingPc
    BY <1>3 DEF HeaderWritePc, ReadingPc
  <2>2. Asks(r) => WhyNot(r)
    BY <1>1 DEF KnownInv
  <2> QED BY <1>0, <1>3, <2>1, <2>2, KnownMoves DEF WhyNot
<1>4. ASSUME AbandonedHeader(c), Asks(r) PROVE r.out = "redisError" /\ headerFaults > 0
  BY <1>1, <1>4 DEF AbandonedHeader, KnownInv, WhyNot
<1>5. CASE ReadHeaderNotFound(c)
  <2> DEFINE none == <<>>
  <2>1. req' = [req EXCEPT ![c] = AfterHeader(r, none)] /\ none \in Seq(Header)
        /\ HeightUnknown(r.height)
    BY <1>5 DEF ReadHeaderNotFound, GoesOn
  <2> HIDE DEF none
  <2> QED BY <1>1, <2>1, KnownReads
<1>6. CASE ReadHeader(c)
  <2> DEFINE h == r.height
             one == <<h, header[h]>>
             hd == <<one>>
  <2>1. req' = [req EXCEPT ![c] = AfterHeader(r, hd)] /\ header[h] # Nil
        /\ ~ HeightUnknown(h)
    BY <1>6 DEF ReadHeader, GoesOn
  <2>2. h \in Height
    BY <1>1, <2>1, HeaderFacts DEF HeightUnknown, Height, HeaderReq
  <2>3. one \in Header
    BY <1>1, <2>1, <2>2, HeaderFacts DEF HeaderTypeOK, Header
  <2> HIDE DEF one
  <2>4. hd \in Seq(Header) /\ hd # <<>>
    BY <2>3
  <2> HIDE DEF hd
  <2> QED BY <2>1, <2>4, KnownReads
<1>7. CASE ReadNoHeader(c)
  <2> DEFINE f == header[r.height] = Nil
             t == [r EXCEPT !.pc = "building", !.first = f]
             k == r.height \in acked
             s == [Idle EXCEPT !.op = "eds", !.pc = "eds", !.height = r.height, !.knew = k]
  <2>1. req' = [req EXCEPT ![c] = t] /\ call' = [call EXCEPT ![c] = s]
        /\ headerFaults' = headerFaults
    BY <1>1, <1>7 DEF ReadNoHeader, GetEds
  <2> HIDE DEF f, k
  <2>2. /\ t.pc = "building" /\ t.kind = r.kind /\ t.from = r.from /\ t.seen = r.seen
        /\ t.height = r.height /\ t.out = r.out
    BY <1>1 DEF HeaderReq
  <2>3. s.out = "pending"
    BY DEF Idle
  <2> HIDE DEF t, s
  <2>4. call'[c].out = "pending"
    BY <1>1, <2>1, <2>3 DEF HIInv, IInv, TypeOK
  <2>5. Asks(r) => WhyNot(r)
    BY <1>1 DEF KnownInv
  <2>6. t.pc \in ReadingPc
    BY <2>2 DEF ReadingPc
  <2> QED BY <1>0, <2>1, <2>2, <2>4, <2>5, <2>6, KnownMoves DEF WhyNot
<1>8. CASE PanicFromEds(c)
  BY <1>0, <1>2, <1>8, PanicIsKnown DEF PanicFromEds, GoesOn
<1>18. CASE PanicFromValidate(c)
  <2> DEFINE h == r.height
             n == Len(generated[h]) + 1
  <2>1. /\ req' = [req EXCEPT ![c] = Answer(r, "panic")] /\ <<h, n>> \in Invalid
        /\ r.pc = "building"
        /\ generated' = [generated EXCEPT ![h] = Append(@, call[c].square)]
    BY <1>18 DEF PanicFromValidate, GoesOn
  <2>2. /\ generated \in [Height -> Seq(Seq(Blob))] /\ call[c].square \in Seq(Blob)
        /\ h \in Height
    BY <1>1, <2>1, HeaderFacts, OneMoreGenerated DEF HeaderTypeOK, CallState
  <2>3. generated'[h] = Append(generated[h], call[c].square) /\ generated[h] \in Seq(Seq(Blob))
    BY <2>1, <2>2
  <2>4. n \in 1..Len(generated'[h])
    BY <2>2, <2>3
  <2>5. Excused(faults', heightNs', generated', h)
    BY <2>1, <2>4 DEF Excused, HasInvalid
  <2> QED BY <1>2, <2>1, <2>5
<1>9. CASE Generate(c)
  <2> DEFINE n == Len(generated[r.height]) + 1
             t == [r EXCEPT !.pc = "setHeader", !.new = n]
  <2>1. req' = [req EXCEPT ![c] = t] /\ headerFaults' = headerFaults
    <3>1. /\ req' = [req EXCEPT ![c].pc = "setHeader", ![c].new = n]
          /\ headerFaults' = headerFaults
      BY <1>9 DEF Generate
    <3> HIDE DEF n
    <3> QED BY <1>1, <3>1
  <2> HIDE DEF n
  <2>2. /\ t.pc \in HeaderWritePc /\ t.kind = r.kind /\ t.from = r.from /\ t.seen = r.seen
        /\ t.height = r.height /\ t.out = r.out
    BY <1>1 DEF HeaderReq, HeaderWritePc
  <2> HIDE DEF t
  <2> QED BY <1>3, <2>1, <2>2
<1>10. CASE SetHeader(c)
  <2> DEFINE t == [r EXCEPT !.pc = "setHash"]
  <2>1. /\ headerFaults' = headerFaults
        /\ \/ AbandonedHeader(c) /\ req' = [req EXCEPT ![c] = Answer(r, "redisError")]
           \/ req' = [req EXCEPT ![c] = t]
    BY <1>10 DEF SetHeader, AfterHeaderWrite, GoesOn
  <2>2. /\ t.pc \in HeaderWritePc /\ t.kind = r.kind /\ t.from = r.from /\ t.seen = r.seen
        /\ t.height = r.height /\ t.out = r.out
    BY <1>1 DEF HeaderReq, HeaderWritePc
  <2> HIDE DEF t
  <2> QED BY <1>2, <1>3, <1>4, <2>1, <2>2
<1>11. CASE SetHash(c)
  <2> DEFINE h == r.height
             one == <<h, r.new>>
             hd == <<one>>
  <2>1. /\ r.pc = "setHash" /\ headerFaults' = headerFaults
        /\ \/ AbandonedHeader(c) /\ req' = [req EXCEPT ![c] = Answer(r, "redisError")]
           \/ req' = [req EXCEPT ![c] = AfterHeader(r, hd)]
    BY <1>11 DEF SetHash, AfterHeaderWrite, GoesOn
  <2>2. h \in Height /\ r.new \in Nat \ {0}
    BY <1>1, <2>1, HeaderFacts DEF HeaderCallInv, Height, HeaderReq
  <2>3. one \in Header
    BY <2>2 DEF Header
  <2> HIDE DEF one
  <2>4. hd \in Seq(Header) /\ hd # <<>>
    BY <2>3
  <2> HIDE DEF hd
  <2> QED BY <1>2, <1>4, <2>1, <2>4, KnownReads
<1>12. CASE LookAgain(c)
  <2> DEFINE s == [r EXCEPT !.pc = "readHeader"]
             w == [r EXCEPT !.attempts = @ - 1]
             z == [r EXCEPT !.attempts = 0]
             a == Answer(z, "timeout")
  <2>1. /\ r.pc = "sleep"
        /\ \/ req' = [req EXCEPT ![c] = s]
           \/ req' = [req EXCEPT ![c] = a]
           \/ req' = [req EXCEPT ![c] = w]
    BY <1>12 DEF LookAgain
  <2>2. ~ Asks(r)
    BY <1>1, <2>1 DEF KnownInv, ReadingPc, HeaderWritePc
  <2>3. /\ s.kind = r.kind /\ s.from = r.from /\ s.seen = r.seen /\ s.pc = "readHeader"
        /\ w.kind = r.kind /\ w.from = r.from /\ w.seen = r.seen /\ w.pc = r.pc
    BY <1>1 DEF HeaderReq
  <2>4. a.kind = r.kind /\ a.from = r.from /\ a.seen = r.seen /\ a.pc = "done"
    BY <1>1 DEF HeaderReq, Answer
  <2> HIDE DEF s, w, z, a
  <2> QED BY <2>1, <2>2, <2>3, <2>4, KnownMoves
<1>13. CASE ReadHash(c) \/ ReadKey(c)
  <2>1. r.kind \notin OneHeader
    BY <1>1, <1>13, HashCallFacts DEF ReadHash, ReadKey, OneHeader
  <2> DEFINE s == [r EXCEPT !.pc = "readKey", !.height = r.hash[1]]
             no == Answer(r, "headerNotFound")
             hd == << <<r.height, header[r.height]>> >>
             g == [r EXCEPT !.got = hd]
             a == Answer(g, "ok")
  <2>2. \/ req' = [req EXCEPT ![c] = s]
        \/ req' = [req EXCEPT ![c] = no]
        \/ req' = [req EXCEPT ![c] = a]
    BY <1>13 DEF ReadHash, ReadKey, GoesOn
  <2> HIDE DEF hd
  <2>3. s.kind = r.kind /\ s.pc = "readKey"
    BY <1>1 DEF HeaderReq
  <2>4. no.kind = r.kind /\ no.pc = "done" /\ a.kind = r.kind /\ a.pc = "done"
    BY <1>1 DEF HeaderReq, Answer
  <2> HIDE DEF s, no, a
  <2> QED BY <2>1, <2>2, <2>3, <2>4, KnownElse
<1>14. CASE FailHeaderRead(c)
  <2>1. req' = [req EXCEPT ![c] = Answer(r, "redisError")] /\ headerFaults' > 0
    BY <1>1, <1>14 DEF FailHeaderRead
  <2> QED BY <1>2, <2>1
<1>15. CASE FailHeaderWrite(c)
  <2> DEFINE t == [r EXCEPT !.out = "redisError"]
  <2>1. r.pc \in HeaderWritePc /\ req' = [req EXCEPT ![c] = t] /\ headerFaults' > 0
    BY <1>1, <1>15 DEF FailHeaderWrite
  <2>2. /\ t.pc = r.pc /\ t.kind = r.kind /\ t.from = r.from /\ t.seen = r.seen
        /\ t.height = r.height /\ t.out = "redisError"
    BY <1>1 DEF HeaderReq
  <2> HIDE DEF t
  <2> QED BY <1>3, <2>1, <2>2
<1>16. CASE LoseHeaderWrite(c)
  <2>1. AbandonedHeader(c) /\ req' = [req EXCEPT ![c] = Answer(r, "redisError")]
        /\ headerFaults' = headerFaults
    BY <1>16 DEF LoseHeaderWrite
  <2> QED BY <1>2, <1>4, <2>1
<1>17. CASE FinishHeader(c)
  <2>1. req' = [req EXCEPT ![c] = NoReq]
    BY <1>17 DEF FinishHeader
  <2>2. NoReq.pc # "building" /\ NoReq.kind \notin OneHeader
    BY DEF NoReq, OneHeader
  <2> HIDE DEF NoReq
  <2> QED BY <2>1, <2>2, KnownElse
<1> QED
  BY <1>5, <1>6, <1>7, <1>8, <1>9, <1>10, <1>11, <1>12, <1>13, <1>14, <1>15, <1>16, <1>17,
     <1>18
     DEF HeaderStep, HeaderFault

\* Header calls do nothing to the faults and the namespaces of the blob half.
LEMMA HeaderStepsLeave ==
  ASSUME HIInv, NEW c \in Call, HeaderStep(c) \/ HeaderFault(c) \/ FinishHeader(c)
  PROVE  UNCHANGED <<currentHeight, faults, heightNs>>
<1>1. CASE SetHash(c)
  BY <1>1, SetHashStep DEF vars, redisVars
<1>2. CASE ~ SetHash(c)
  BY <1>2
     DEF HeaderStep, ReadHeaderNotFound, ReadHeader, ReadNoHeader, GetEds, PanicFromEds,
         Generate, PanicFromValidate, Finish, SetHeader, LookAgain, ReadHash, ReadKey, HeaderFault,
         FailHeaderRead, FailHeaderWrite, LoseHeaderWrite, FinishHeader, vars, redisVars
<1> QED BY <1>1, <1>2

\* The square that a call waits for is of a height that is there.
LEMMA KnownBuilds ==
  ASSUME KInv, NEW c \in Call, req[c].pc = "building", Step(c) \/ Fault(c)
  PROVE  call'[c].out # "headerNotFound"
<1>1. /\ call[c].op = "eds" /\ call[c].height = req[c].height
      /\ call[c].out # "headerNotFound" /\ req[c].height \in 1..currentHeight
      /\ currentHeight \in Nat
  BY KnownFacts DEF CommitCallInv, KnownInv, HeaderCallInv
<1>2. ~ HeightUnknown(call[c].height)
  BY <1>1 DEF HeightUnknown
<1>3. Builds(c, call'[c])
  BY <1>1, EdsBuilds DEF KInv, EInv
<1> QED BY <1>1, <1>2, <1>3 DEF Builds, Ends

LEMMA KnownInductive ==
  ASSUME RequestsFit, KInv, [HeaderNext]_hvars
  PROVE  KInv'
<1>1. /\ HIInv /\ HIInv' /\ IInv /\ [Next]_vars /\ CInv'
      /\ call \in [Call -> CallState] /\ req \in [Call -> HeaderReq]
  BY HeaderInductive, CommitsInductive DEF KInv, CInv, HIInv, IInv, TypeOK, HeaderTypeOK
<1>2. EInv'
  BY <1>1, ReasonsInductive DEF KInv
<1>3. currentHeight \in Nat /\ currentHeight' \in Nat /\ currentHeight' >= currentHeight
  <2>1. currentHeight \in Nat /\ currentHeight' \in Nat
    BY <1>1, StoreAssumption DEF HIInv, IInv, TypeOK
  <2> QED BY <1>1, <2>1, HeightGrows
<1>4. /\ faults \in Nat /\ faults' \in Nat /\ faults' >= faults
      /\ \A h \in Height : heightNs[h] \subseteq heightNs'[h]
  <2>1. CASE UNCHANGED vars
    <3>1. faults' = faults /\ heightNs' = heightNs /\ faults \in Nat
      BY <1>1, <2>1, StoreAssumption DEF vars, redisVars, IInv, TypeOK
    <3> QED BY <3>1
  <2>2. ASSUME NEW c \in Call, Begin(c) \/ Step(c) \/ Fault(c) \/ Finish(c)
        PROVE  /\ faults \in Nat /\ faults' \in Nat /\ faults' >= faults
               /\ \A h \in Height : heightNs[h] \subseteq heightNs'[h]
    BY <1>1, <2>2, FaultsGrow, StepsKeepSquares DEF SquaresStay
  <2> QED BY <1>1, <2>1, <2>2 DEF Next
<1>5. headerFaults \in Nat /\ headerFaults' \in Nat
  BY <1>1, HeaderAssumption DEF HIInv, HeaderTypeOK
<1>6. headerFaults' >= headerFaults
  <2>1. ASSUME NEW c \in Call, HeaderFault(c)
        PROVE  headerFaults' = headerFaults \/ headerFaults' = headerFaults + 1
    BY <2>1 DEF HeaderFault, FailHeaderRead, FailHeaderWrite, LoseHeaderWrite
  <2>2. ASSUME NEW c \in Call, BlobStep(c) \/ BeginHeader(c) \/ FinishHeader(c)
        PROVE  headerFaults' = headerFaults
    BY <2>2 DEF BlobStep, headerVars, BeginHeader, GetHeaderByHeight, WaitForHeader,
       GetHeadersByRange, GetLatestHead, Sync, GetHeaderByHash, BeginWith, FinishHeader
  <2>3. ASSUME NEW c \in Call, HeaderStep(c) PROVE headerFaults' = headerFaults
    BY <2>3 DEF HeaderStep, ReadHeaderNotFound, ReadHeader, ReadNoHeader, PanicFromEds,
       Generate, PanicFromValidate, SetHeader, SetHash, LookAgain, ReadHash, ReadKey
  <2>4. headerFaults' = headerFaults \/ headerFaults' = headerFaults + 1
    <3>1. CASE HeaderNext
      BY <2>1, <2>2, <2>3, <3>1 DEF HeaderNext
    <3>2. CASE UNCHANGED hvars
      BY <3>2 DEF hvars, headerVars
    <3> QED BY <3>1, <3>2
  <2> QED BY <1>5, <2>4
<1>12. ASSUME NEW h \in Height, HasInvalid(generated, h) PROVE HasInvalid(generated', h)
  <2>1. CASE UNCHANGED hvars
    BY <1>12, <2>1 DEF hvars, headerVars
  <2> QED BY <1>1, <1>12, <2>1, InvalidStays DEF HeaderNext
<1>7. ASSUME NEW d \in Call, req'[d] = req[d],
             req[d].pc = "building" => call'[d].out # "headerNotFound"
      PROVE  KnownInv(d)'
  BY <1>3, <1>4, <1>5, <1>6, <1>7, <1>12, KnownStays
<1>8. ASSUME NEW d \in Call, req'[d] = req[d], call'[d] = call[d]
      PROVE  KnownInv(d)'
  <2>1. req[d].pc = "building" => call'[d].out # "headerNotFound"
    BY <1>8, KnownFacts DEF KnownInv
  <2> QED BY <1>7, <1>8, <2>1
<1>9. ASSUME NEW c \in Call, BlobStep(c) PROVE \A d \in Call : KnownInv(d)'
  <2>1. /\ Begin(c) \/ Step(c) \/ Fault(c) \/ Finish(c)
        /\ req[c].pc = "building" => Step(c) \/ Fault(c)
        /\ req' = req
    BY <1>9 DEF BlobStep, headerVars
  <2>2. ASSUME NEW d \in Call, d # c PROVE KnownInv(d)'
    <3>1. call'[d] = call[d]
      BY <1>1, <2>1, <2>2, OneCallMoves
    <3> QED BY <1>8, <2>1, <3>1
  <2>3. KnownInv(c)'
    BY <1>7, <2>1, KnownBuilds
  <2> QED BY <2>2, <2>3
<1>10. ASSUME NEW c \in Call,
              BeginHeader(c) \/ HeaderStep(c) \/ HeaderFault(c) \/ FinishHeader(c)
       PROVE  \A d \in Call : KnownInv(d)'
  <2>1. ASSUME NEW d \in Call, d # c PROVE KnownInv(d)'
    <3>1. req'[d] = req[d]
      <4>1. \E t : req' = [req EXCEPT ![c] = t]
        BY <1>10 DEF BeginHeader, GetHeaderByHeight, WaitForHeader, GetHeadersByRange,
             GetLatestHead, Sync, GetHeaderByHash, BeginWith, HeaderStep,
             ReadHeaderNotFound, ReadHeader, ReadNoHeader, PanicFromEds, Generate,
             PanicFromValidate, SetHeader, SetHash, LookAgain, ReadHash, ReadKey, GoesOn, AfterHeaderWrite,
             HeaderFault, FailHeaderRead, FailHeaderWrite, LoseHeaderWrite, FinishHeader
      <4> QED BY <1>1, <2>1, <4>1
    <3>2. call'[d] = call[d]
      BY <1>1, <1>10, <2>1 DEF BeginHeader, GetHeaderByHeight, WaitForHeader,
         GetHeadersByRange, GetLatestHead, Sync, GetHeaderByHash, BeginWith, HeaderStep,
         ReadHeaderNotFound, ReadHeader, ReadNoHeader, GetEds, PanicFromEds, Generate,
         PanicFromValidate, Finish, SetHeader, SetHash, LookAgain, ReadHash, ReadKey, HeaderFault,
         FailHeaderRead, FailHeaderWrite, LoseHeaderWrite, FinishHeader, vars
    <3> QED BY <1>8, <3>1, <3>2
  <2>2. KnownInv(c)'
    BY <1>1, <1>10, KnownBegins, KnownSteps, HeaderStepsLeave
  <2> QED BY <2>1, <2>2
<1>11. CASE UNCHANGED hvars
  <2>1. req' = req /\ call' = call
    BY <1>11 DEF hvars, headerVars, vars
  <2> QED BY <1>1, <1>2, <1>8, <2>1 DEF KInv
<1> QED BY <1>1, <1>2, <1>9, <1>10, <1>11 DEF HeaderNext, KInv

LEMMA SeveralAreMoreThanOne ==
  ASSUME NEW S \in SUBSET Ns, Several(S)
  PROVE  Cardinality(S) > 1
<1>1. IsFiniteSet(S)
  <2>1. IsFiniteSet(Ns)
    <3>1. NsOf \in Surjection(Blob, Ns)
      BY LayoutAssumption DEF Ns, Surjection
    <3> QED BY <3>1, FS_Surjection, LayoutAssumption
  <2> QED BY <2>1, FS_Subset
<1>2. PICK m \in S, n \in S : m # n
  BY DEF Several
<1>3. IsFiniteSet(S \ {m}) /\ Cardinality(S) \in Nat
      /\ Cardinality(S \ {m}) = Cardinality(S) - 1 /\ Cardinality(S \ {m}) \in Nat
  BY <1>1, <1>2, FS_RemoveElement, FS_CardinalityType
<1>4. Cardinality(S \ {m}) # 0
  BY <1>2, <1>3, FS_EmptySet
<1> QED BY <1>3, <1>4

\* A call for one header of a height that was there when it began is answered
\* with a header, whatever is stored, cached and replaced meanwhile, unless a
\* command of Redis failed, from_ods refused a square of several namespaces or a
\* generated header was invalid; where all that clients submit fits into the
\* widest square, from_ods refuses no other (get_header_by_height, over get_eds_at_height).
THEOREM KnownHeightsCorrect ==
  ASSUME RequestsFit
  PROVE  HeaderSpec => []KnownHeightsHaveHeaders
<1>1. ASSUME HeaderInit PROVE KInv
  <2>1. CInv /\ EInv
    BY <1>1, CommitsInitially, ReasonsInitially DEF HeaderInit
  <2>2. \A c \in Call : req[c].pc = "idle" /\ req[c].kind = "none"
    BY <1>1 DEF HeaderInit, NoReq
  <2> QED BY <2>1, <2>2 DEF KInv, KnownInv, Asks, OneHeader
<1>2. ASSUME KInv, [HeaderNext]_hvars PROVE KInv'
  BY <1>2, KnownInductive
<1>3. ASSUME KInv PROVE KnownHeightsHaveHeaders
  <2> SUFFICES ASSUME NEW c \in Call, Asks(req[c])
               PROVE  LET s == req[c] IN
                      \/ s.out \in {"pending", "ok"}
                      \/ s.out = "redisError" /\ headerFaults > 0
                      \/ s.out = "panic" /\ \/ faults > 0
                                             \/ Cardinality(heightNs[s.height]) > 1
                                             \/ InvalidGenerated(s.height)
    BY DEF KnownHeightsHaveHeaders, Asks, OneHeader
  <2>1. WhyNot(req[c]) /\ req[c].height \in Height
    BY <1>3, KnownFacts DEF KnownInv
  <2>2. heightNs[req[c].height] \in SUBSET Ns
    BY <1>3, <2>1, KnownFacts DEF IInv, TypeOK
  <2> QED
    BY <2>1, <2>2, SeveralAreMoreThanOne DEF WhyNot, Excused, HasInvalid, InvalidGenerated
<1> QED BY <1>1, <1>2, <1>3, PTL DEF HeaderSpec
=============================================================================
