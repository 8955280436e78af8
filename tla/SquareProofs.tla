---------------------------- MODULE SquareProofs ----------------------------
(***************************************************************************)
(* The squares that are cached, for every set of calls, blobs and requests *)
(* and every bound.                                                        *)
(*                                                                         *)
(* A builder lists namespace after namespace, so that what it has so far   *)
(* is disjoint from what is to come (Built); and either its height counts  *)
(* as early or all of a submit was there for it to list (Complete).        *)
(*                                                                         *)
(* An index kept for a blob is a place in some square that was cached, and *)
(* a builder that began late enough and is not given up on places all that *)
(* it has behind it (BuilderInv).  Nothing takes an index away again: the  *)
(* one submit of a height is over by then (OwnInv).                        *)
(***************************************************************************)
EXTENDS LedgerProofs, LayoutProofs

\* The layout has each blob once, and only blobs that are stored and have shares.
Good(h, layout) ==
  /\ IsInjective(layout)
  /\ \A b \in ToSet(layout) : b \in Blob /\ blobData[h][b] # Nil /\ b \notin Unshareable

\* Unless a builder began before the submit was answered, the layout has all of
\* it but what is in the namespaces that are left.
Complete(h, layout, left) ==
  h \in early \/ /\ h \in acked
                 /\ \A b \in Submitted(h) \ Unshareable : b \in ToSet(layout) \/ NsOf[b] \in left

\* A layout as far as it has been built.
Built(s) ==
  /\ Good(s.height, s.square)
  /\ \A b \in ToSet(s.square) : NsOf[b] \notin ToSet(s.nss)
  /\ Complete(s.height, s.square, ToSet(s.nss))

Tracked(h, left) == \A b \in Submitted(h) : NsOf[b] \in heightNs[h] \/ b \in left

SquareInv(c) ==
  LET s == call[c] IN
  /\ s.pc \in SubmitPc => s.op = "submit" /\ Tracked(s.height, ToSet(s.todo))
  /\ s.op # "getAll" =>
       /\ s.pc = "namespaces" => s.square = <<>>
       /\ s.pc = "members" => IsInjective(s.nss)
       /\ s.pc = "storeEds" => s.nss = <<>>
       /\ s.pc \in {"members", "storeEds"} => Built(s)
  /\ s.pc \in {"indexBlob", "mapIndex", "edsReturned"} => s.square \in layouts[s.height]
  /\ s.op = "eds" /\ s.pc = "done" /\ s.out = "ok" =>
       s.height \in Height /\ s.square \in layouts[s.height]

AckedTracked == \A h \in acked : Tracked(h, {})

LayoutInv ==
  \A h \in Height :
     /\ eds[h] # Nil => eds[h] \in layouts[h]
     /\ \A layout \in layouts[h] : Good(h, layout) /\ Complete(h, layout, {})

SInv == AInv /\ AckedTracked /\ LayoutInv /\ \A c \in Call : SquareInv(c)

-----------------------------------------------------------------------------
(* Sequences without repetition.                                           *)

LEMMA InjectiveConcatenation ==
  ASSUME NEW S, NEW v \in Seq(S), NEW w \in Seq(S), IsInjective(v), IsInjective(w),
         ToSet(v) \cap ToSet(w) = {}
  PROVE  IsInjective(v \o w)
<1> DEFINE z == v \o w
           m == Len(v)
           n == Len(w)
<1>1. /\ m \in Nat /\ n \in Nat
      /\ \A i \in 1..m : z[i] = v[i]
      /\ \A i \in 1..n : z[m + i] = w[i]
      /\ DOMAIN z = 1..(m + n) /\ DOMAIN v = 1..m /\ DOMAIN w = 1..n
  OBVIOUS
<1> HIDE DEF z, m, n
<1>2. ASSUME NEW i \in DOMAIN z
      PROVE  \/ i \in 1..m /\ z[i] = v[i] /\ v[i] \in ToSet(v)
             \/ /\ i - m \in 1..n /\ z[i] = w[i - m] /\ w[i - m] \in ToSet(w)
                /\ i \notin 1..m
  <2>1. CASE i \in 1..m
    BY <1>1, <2>1 DEF ToSet
  <2>2. CASE i \notin 1..m
    <3>1. i - m \in 1..n /\ m + (i - m) = i
      BY <1>1, <1>2, <2>2
    <3>2. z[i] = w[i - m]
      BY <1>1, <3>1
    <3> QED BY <1>1, <2>2, <3>1, <3>2 DEF ToSet
  <2> QED BY <2>1, <2>2
<1>3. ASSUME NEW i \in DOMAIN z, NEW j \in DOMAIN z, z[i] = z[j]
      PROVE  i = j
  <2>1. CASE i \in 1..m /\ j \in 1..m
    <3>1. v[i] = v[j]
      BY <1>1, <1>3, <2>1
    <3> QED BY <1>1, <2>1, <3>1 DEF IsInjective
  <2>2. CASE i \notin 1..m /\ j \notin 1..m
    <3>1. i - m \in DOMAIN w /\ j - m \in DOMAIN w /\ w[i - m] = w[j - m]
      BY <1>1, <1>2, <1>3, <2>2
    <3>2. i - m = j - m
      BY <3>1 DEF IsInjective
    <3> QED BY <1>1, <3>2
  <2>3. CASE ~ (i \in 1..m <=> j \in 1..m)
    BY <1>2, <1>3, <2>3
  <2> QED BY <2>1, <2>2, <2>3
<1>4. IsInjective(z)
  BY <1>3 DEF IsInjective
<1> QED BY <1>4 DEF z

LEMMA InjectiveTail ==
  ASSUME NEW S, NEW s \in Seq(S), s # <<>>, IsInjective(s)
  PROVE  IsInjective(Tail(s)) /\ Head(s) \notin ToSet(Tail(s))
<1>1. /\ Len(s) \in Nat \ {0} /\ DOMAIN s = 1..Len(s) /\ Head(s) = s[1]
      /\ DOMAIN Tail(s) = 1..(Len(s) - 1)
      /\ \A j \in 1..(Len(s) - 1) : Tail(s)[j] = s[j + 1]
  OBVIOUS
<1>2. ASSUME NEW i \in DOMAIN Tail(s), NEW j \in DOMAIN Tail(s), Tail(s)[i] = Tail(s)[j]
      PROVE  i = j
  <2>1. i + 1 \in DOMAIN s /\ j + 1 \in DOMAIN s /\ s[i + 1] = s[j + 1]
    BY <1>1, <1>2
  <2>2. i + 1 = j + 1
    BY <2>1 DEF IsInjective
  <2> QED BY <1>1, <2>2
<1>3. ASSUME NEW i \in DOMAIN Tail(s) PROVE Tail(s)[i] # Head(s)
  <2>1. i + 1 \in DOMAIN s /\ 1 \in DOMAIN s /\ i + 1 # 1 /\ Tail(s)[i] = s[i + 1]
    BY <1>1
  <2> QED BY <1>1, <2>1 DEF IsInjective
<1>4. IsInjective(Tail(s))
  BY <1>2 DEF IsInjective
<1> QED BY <1>3, <1>4 DEF ToSet

LEMMA RepliesAreInjective ==
  ASSUME NEW S, NEW r \in Replies(S)
  PROVE  IsInjective(r)
BY DEF Replies, Bijection, Injection

LEMMA NothingInTheEmptySequence == IsInjective(<<>>) /\ ToSet(<<>>) = {}
BY DEF IsInjective, ToSet

-----------------------------------------------------------------------------
(* Steps in general.                                                       *)

\* A step takes nothing from what squares are built of, nor from the squares.
SquaresStay ==
  /\ \A h \in Height : h <= currentHeight => batch'[h] = batch[h]
  /\ \A h \in Height, b \in Blob : blobData[h][b] # Nil => blobData'[h][b] # Nil
  /\ \A h \in Height : heightNs[h] \subseteq heightNs'[h] /\ layouts[h] \subseteq layouts'[h]
  /\ acked \subseteq acked' /\ early \subseteq early'

LEMMA GoodStays ==
  ASSUME SquaresStay, NEW h \in Height, NEW layout, Good(h, layout)
  PROVE  Good(h, layout)'
BY DEF Good, SquaresStay

LEMMA CompleteStays ==
  ASSUME AckedComplete, SquaresStay, NEW h \in Height, NEW layout, NEW left,
         Complete(h, layout, left)
  PROVE  Complete(h, layout, left)'
BY DEF AckedComplete, Complete, SquaresStay, Submitted

LEMMA TrackedStays ==
  ASSUME SquaresStay, NEW h \in Height, h <= currentHeight, NEW left, Tracked(h, left)
  PROVE  Tracked(h, left)'
BY DEF Tracked, SquaresStay, Submitted

\* A call that does not move.
LEMMA OtherSquares ==
  ASSUME IInv, AckedComplete, SquaresStay, NEW c \in Call, SquareInv(c), call'[c] = call[c]
  PROVE  SquareInv(c)'
<1> DEFINE s == call[c]
<1>1. s \in CallState /\ CallInv(c) /\ call'[c] = s
  BY DEF IInv, TypeOK
<1>2. ASSUME s.pc \in SubmitPc PROVE Tracked(call[c].height, ToSet(call[c].todo))'
  <2>1. s.height \in Height /\ s.height <= currentHeight
    BY <1>1, <1>2 DEF CallInv, AtWork, SubmitPc
  <2>2. Tracked(s.height, ToSet(s.todo))
    BY <1>2 DEF SquareInv
  <2>3. PICK h, left : h \in Height /\ h = s.height /\ left = ToSet(s.todo)
    BY <2>1
  <2>4. Tracked(h, left)'
    BY <2>1, <2>2, <2>3, TrackedStays
  <2> QED BY <1>1, <2>3, <2>4
<1>3. ASSUME s.op # "getAll", s.pc \in {"members", "storeEds"}
      PROVE  Built(call[c])'
  <2>1. s.height \in Height
    BY <1>1, <1>3 DEF CallInv
  <2>2. Good(s.height, s.square) /\ Complete(s.height, s.square, ToSet(s.nss))
        /\ \A b \in ToSet(s.square) : NsOf[b] \notin ToSet(s.nss)
    BY <1>3 DEF SquareInv, Built
  <2>3. PICK h, square, left :
          h \in Height /\ h = s.height /\ square = s.square /\ left = ToSet(s.nss)
    BY <2>1
  <2>4. Good(h, square) /\ Complete(h, square, left)
    BY <2>2, <2>3
  <2>5. Good(h, square)' /\ Complete(h, square, left)'
    BY <2>3, <2>4, GoodStays, CompleteStays
  <2> QED BY <1>1, <2>2, <2>3, <2>5 DEF Built
<1>4. ASSUME s.pc \in {"indexBlob", "mapIndex", "edsReturned"}
      PROVE  s.square \in layouts'[s.height]
  <2>1. s.height \in Height
    BY <1>1, <1>4 DEF CallInv
  <2> QED BY <1>4, <2>1 DEF SquareInv, SquaresStay
<1>5. ASSUME s.op = "eds", s.pc = "done", s.out = "ok"
      PROVE  s.height \in Height /\ s.square \in layouts'[s.height]
  BY <1>5 DEF SquareInv, SquaresStay
<1>6. SquareInv(c) /\ call'[c] = call[c]
  OBVIOUS
<1> QED BY <1>1, <1>2, <1>3, <1>4, <1>5, <1>6 DEF SquareInv

\* Every step is of this kind.
LEMMA StepsKeepSquares ==
  ASSUME IInv, NEW c \in Call, Begin(c) \/ Step(c) \/ Fault(c) \/ Finish(c)
  PROVE  SquaresStay
<1>1. /\ blobData \in [Height -> [Blob -> Nat \cup {NoIndex, Nil}]]
      /\ heightNs \in [Height -> SUBSET Ns] /\ layouts \in [Height -> SUBSET Seq(Blob)]
      /\ batch \in [Height -> Seq(Blob)] /\ call \in [Call -> CallState] /\ CallInv(c)
      /\ currentHeight \in Nat /\ Height \subseteq Nat
  BY StoreAssumption DEF IInv, TypeOK, Height
<1>2. CASE UNCHANGED <<blobData, heightNs, layouts, batch, acked, early>>
  BY <1>2 DEF SquaresStay
<1>3. ASSUME NEW blobs \in Request, AssignHeight(c, blobs) PROVE SquaresStay
  <2>1. /\ batch' = [batch EXCEPT ![currentHeight + 1] = blobs]
        /\ UNCHANGED <<blobData, heightNs, layouts, acked, early>>
    BY <1>3 DEF AssignHeight, redisVars
  <2>2. \A h \in Height : h <= currentHeight => batch'[h] = batch[h]
    BY <1>1, <2>1
  <2> QED BY <2>1, <2>2 DEF SquaresStay
<1>4. CASE SetBlob(c)
  <2>1. /\ blobData' = [blobData EXCEPT ![call[c].height][Head(call[c].todo)] =
                          ClientIndex[Head(call[c].todo)]]
        /\ UNCHANGED <<heightNs, layouts, batch, acked, early>>
    BY <1>4 DEF SetBlob, historyVars
  <2>2. ASSUME NEW b \in Blob PROVE ClientIndex[b] # Nil
    BY StoreAssumption
  <2>3. \A h \in Height, b \in Blob : blobData[h][b] # Nil => blobData'[h][b] # Nil
    BY <1>1, <2>1, <2>2
  <2> QED BY <2>1, <2>3 DEF SquaresStay
<1>5. CASE IndexBlob(c)
  <2> DEFINE g == call[c].height
             d == Head(call[c].todo)
             i == IF blobData[g][d] = Nil THEN Nil ELSE call[c].next
  <2>1. /\ blobData' = [blobData EXCEPT ![g][d] = i]
        /\ UNCHANGED <<heightNs, layouts, batch, acked, early>>
    BY <1>5 DEF IndexBlob, historyVars
  <2>2. g \in Height /\ call[c].next \in Nat
    BY <1>1, <1>5 DEF CallInv, IndexBlob, CallState
  <2>3. blobData[g][d] # Nil => i # Nil
    BY <2>2, StoreAssumption
  <2> HIDE DEF g, d, i
  <2>4. \A h \in Height, b \in Blob : blobData[h][b] # Nil => blobData'[h][b] # Nil
    BY <1>1, <2>1, <2>2, <2>3
  <2> QED BY <2>1, <2>4 DEF SquaresStay
<1>6. CASE TrackNamespace(c)
  <2> DEFINE g == call[c].height
             n == NsOf[Head(call[c].todo)]
  <2>1. /\ heightNs' = [heightNs EXCEPT ![g] = @ \cup {n}]
        /\ acked \subseteq acked' /\ UNCHANGED <<blobData, layouts, batch, early>>
    BY <1>6 DEF TrackNamespace
  <2> HIDE DEF g, n
  <2>2. \A h \in Height : heightNs[h] \subseteq heightNs'[h]
    BY <1>1, <2>1
  <2> QED BY <2>1, <2>2 DEF SquaresStay
<1>7. CASE StoreEds(c)
  <2> DEFINE g == call[c].height
             l == call[c].square
  <2>1. /\ layouts' = [layouts EXCEPT ![g] = @ \cup {l}]
        /\ UNCHANGED <<blobData, heightNs, batch, acked, early>>
    BY <1>7 DEF StoreEds
  <2> HIDE DEF g, l
  <2>2. \A h \in Height : layouts[h] \subseteq layouts'[h]
    BY <1>1, <2>1
  <2> QED BY <2>1, <2>2 DEF SquaresStay
<1>8. CASE ReadNamespaces(c)
  BY <1>8 DEF ReadNamespaces, redisVars, SquaresStay
<1>9. CASE /\ Begin(c) \/ Step(c) \/ Fault(c) \/ Finish(c)
           /\ ~ SetBlob(c) /\ ~ IndexBlob(c) /\ ~ TrackNamespace(c) /\ ~ StoreEds(c)
           /\ ~ ReadNamespaces(c) /\ \A blobs \in Request : ~ AssignHeight(c, blobs)
  <2>1. UNCHANGED <<blobData, heightNs, layouts, batch, acked, early>>
    BY <1>9 DEF Begin, Step, Fault, Finish, SubmitNothing, GetEds, GetBlob, GetAll,
                AddMember, SetCommitment, EdsHeightNotFound, ReadEds, ReadMembers,
                PanicFromOds, MapIndex, ReturnEds, ReadCommitment, ReadBlob, RereadBlob,
                FailRead, FailWrite, LoseWrite, redisVars, historyVars
  <2> QED BY <1>2, <2>1
<1> QED BY <1>3, <1>4, <1>5, <1>6, <1>7, <1>8, <1>9

\* Layouts that nothing is added to stay what they were.
LEMMA LayoutsStay ==
  ASSUME AckedComplete, SquaresStay, LayoutInv, UNCHANGED <<eds, layouts>>
  PROVE  LayoutInv'
<1> SUFFICES ASSUME NEW h \in Height
             PROVE  /\ eds'[h] # Nil => eds'[h] \in layouts'[h]
                    /\ \A layout \in layouts'[h] : Good(h, layout)' /\ Complete(h, layout, {})'
  BY DEF LayoutInv
<1>1. ASSUME NEW layout \in layouts[h] PROVE Good(h, layout)' /\ Complete(h, layout, {})'
  <2>1. Good(h, layout) /\ Complete(h, layout, {})
    BY DEF LayoutInv
  <2> QED BY <2>1, GoodStays, CompleteStays
<1> QED BY <1>1 DEF LayoutInv

LEMMA AckedTrackedStays ==
  ASSUME IInv, AckedComplete, SquaresStay, AckedTracked, UNCHANGED acked
  PROVE  AckedTracked'
<1> SUFFICES ASSUME NEW h \in acked PROVE Tracked(h, {})'
  BY DEF AckedTracked
<1>1. h \in Height /\ h <= currentHeight
  BY DEF IInv, TypeOK, AckedComplete
<1>2. Tracked(h, {})
  BY DEF AckedTracked
<1> QED BY <1>1, <1>2, TrackedStays

\* A call that is not about a square when the step is over.
LEMMA NoSquare ==
  ASSUME NEW c \in Call, call'[c].pc \in {"idle", "done", "eds", "readBlob"},
         call'[c].op = "eds" => call'[c].out # "ok"
  PROVE  SquareInv(c)'
BY DEF SquareInv, SubmitPc

-----------------------------------------------------------------------------
(* The steps of a call.                                                    *)

\* A write goes on to t, or the call had given up on it.
LEMMA WriteSquare ==
  ASSUME IInv, NEW c \in Call, NEW t, AfterWrite(c, t), call'[c] = t => SquareInv(c)'
  PROVE  SquareInv(c)'
<1>1. call[c] \in CallState /\ call \in [Call -> CallState]
  BY DEF IInv, TypeOK
<1>2. CASE Abandoned(c)
  <2> DEFINE e == Ended(call[c], "redisError")
  <2>1. e.pc = "done" /\ e.out = "redisError"
    BY <1>1, EndedKeeps
  <2> HIDE DEF e
  <2>2. call'[c] = e
    BY <1>1, <1>2 DEF AfterWrite, e
  <2> QED BY <2>1, <2>2, NoSquare
<1>3. CASE ~ Abandoned(c)
  BY <1>1, <1>3 DEF AfterWrite
<1> QED BY <1>2, <1>3

LEMMA StoringSquare ==
  ASSUME IInv, SquaresStay, NEW c \in Call, SquareInv(c),
         SetBlob(c) \/ AddMember(c) \/ SetCommitment(c)
  PROVE  SquareInv(c)'
<1> DEFINE s == call[c]
           t1 == [s EXCEPT !.pc = "addMember"]
           t2 == [s EXCEPT !.pc = "setCommitment"]
           t3 == [s EXCEPT !.pc = "trackNamespace"]
<1>1. s \in CallState /\ s.pc \in SubmitPc /\ CallInv(c)
  BY DEF IInv, TypeOK, SetBlob, AddMember, SetCommitment, SubmitPc
<1>2. s.height \in Height /\ s.height <= currentHeight
  BY <1>1 DEF CallInv, AtWork, SubmitPc
<1>3. PICK t \in {t1, t2, t3} : AfterWrite(c, t)
  BY DEF SetBlob, AddMember, SetCommitment
<1>4. /\ t.pc \in SubmitPc /\ t.op = s.op /\ t.height = s.height /\ t.todo = s.todo
  BY <1>1, <1>3 DEF CallState, SubmitPc
<1> HIDE DEF t1, t2, t3
<1>5. s.op = "submit" /\ Tracked(s.height, ToSet(s.todo))
  BY <1>1 DEF SquareInv
<1>6. PICK h, left : h \in Height /\ h = s.height /\ left = ToSet(s.todo)
  BY <1>2
<1>7. Tracked(h, left)'
  BY <1>2, <1>5, <1>6, TrackedStays
<1>8. ASSUME call'[c] = t PROVE SquareInv(c)'
  BY <1>4, <1>5, <1>6, <1>7, <1>8 DEF SquareInv, SubmitPc
<1> QED BY <1>3, <1>8, WriteSquare

\* The namespaces of all blobs of a submit are tracked when it is answered.
LEMMA TrackSquare ==
  ASSUME IInv, AckedComplete, AckedTracked, SquaresStay, NEW c \in Call, SquareInv(c),
         TrackNamespace(c)
  PROVE  SquareInv(c)' /\ AckedTracked'
<1> DEFINE s == call[c]
           rest == Tail(s.todo)
           next == [s EXCEPT !.pc = "setBlob", !.todo = rest]
           e == Ended(s, "ok")
<1>1. /\ s \in CallState /\ s.pc \in SubmitPc /\ CallInv(c)
      /\ heightNs \in [Height -> SUBSET Ns] /\ acked \subseteq Height
  BY DEF IInv, TypeOK, TrackNamespace, SubmitPc
<1>2. /\ s.height \in Height /\ s.height <= currentHeight
      /\ s.todo \in Seq(Blob) /\ s.todo # <<>>
  BY <1>1 DEF CallInv, AtWork, SubmitPc, CallState
<1>3. s.op = "submit" /\ Tracked(s.height, ToSet(s.todo))
  BY <1>1 DEF SquareInv
<1>4. /\ heightNs' = [heightNs EXCEPT ![s.height] = @ \cup {NsOf[Head(s.todo)]}]
      /\ AfterWrite(c, IF rest = <<>> THEN e ELSE next)
      /\ acked' = acked \/ (rest = <<>> /\ acked' = acked \cup {s.height})
      /\ batch' = batch
  <2>1. /\ heightNs' = [heightNs EXCEPT ![s.height] = @ \cup {NsOf[Head(s.todo)]}]
        /\ batch' = batch
    BY DEF TrackNamespace
  <2>2. AfterWrite(c, IF rest = <<>> THEN e ELSE next)
    BY DEF TrackNamespace
  <2>3. acked' = IF rest = <<>> /\ ~ Abandoned(c) THEN acked \cup {s.height} ELSE acked
    BY DEF TrackNamespace
  <2> HIDE DEF s, rest, next, e
  <2>4. acked' = acked \/ (rest = <<>> /\ acked' = acked \cup {s.height})
    BY <2>3
  <2> QED BY <2>1, <2>2, <2>4
<1>5. PICK h \in Height : h = s.height
  BY <1>2
<1>6. ASSUME NEW b \in Submitted(h)
      PROVE  NsOf[b] \in heightNs'[h] \/ b \in ToSet(rest)
  <2>1. CASE b = Head(s.todo)
    BY <1>1, <1>4, <1>5, <2>1
  <2>2. CASE b # Head(s.todo)
    <3>1. b \in ToSet(s.todo) => b \in ToSet(rest)
      BY <1>2, <2>2, HeadOrTail
    <3>2. NsOf[b] \in heightNs[h] => NsOf[b] \in heightNs'[h]
      BY DEF SquaresStay
    <3> QED BY <1>3, <1>5, <3>1, <3>2 DEF Tracked
  <2> QED BY <2>1, <2>2
<1>7. PICK left : left = ToSet(rest)
  OBVIOUS
<1>8. Tracked(h, left)'
  BY <1>4, <1>6, <1>7 DEF Tracked, Submitted
<1>9. rest = <<>> => left = {}
  BY <1>7, NothingInTheEmptySequence
<1>10. AckedTracked'
  <2> SUFFICES ASSUME NEW g \in acked' PROVE Tracked(g, {})'
    BY DEF AckedTracked
  <2>1. CASE g \in acked
    <3>1. g \in Height /\ g <= currentHeight /\ Tracked(g, {})
      BY <1>1, <2>1 DEF AckedComplete, AckedTracked
    <3> QED BY <3>1, TrackedStays
  <2>2. CASE g \notin acked
    <3>1. g = h /\ left = {}
      BY <1>4, <1>5, <1>9, <2>2
    <3> QED BY <1>8, <3>1
  <2> QED BY <2>1, <2>2
<1>11. next.pc = "setBlob" /\ next.op = s.op /\ next.height = s.height /\ next.todo = rest
  BY <1>1 DEF CallState
<1>12. e.pc = "done" /\ e.op = s.op
  BY <1>1, EndedKeeps DEF SameAsked
<1> HIDE DEF next, e
<1>13. PICK t \in {next, e} : AfterWrite(c, t)
  BY <1>4
<1>14. ASSUME call'[c] = t PROVE SquareInv(c)'
  <2>1. CASE t = e
    BY <1>3, <1>12, <1>14, <2>1, NoSquare
  <2>2. CASE t = next
    <3> HIDE DEF rest
    <3> QED BY <1>3, <1>5, <1>7, <1>8, <1>11, <1>14, <2>2 DEF SquareInv, SubmitPc
  <2> QED BY <1>13, <2>1, <2>2
<1> QED BY <1>10, <1>13, <1>14, WriteSquare

\* What is cached is what has been built.
LEMMA StoreSquare ==
  ASSUME IInv, AckedComplete, LayoutInv, SquaresStay, NEW c \in Call, SquareInv(c),
         StoreEds(c)
  PROVE  SquareInv(c)' /\ LayoutInv'
<1> DEFINE s == call[c]
           layout == s.square
           p == IF layout = <<>> THEN "edsReturned" ELSE "indexBlob"
           t == [s EXCEPT !.todo = layout, !.next = 1, !.pc = p]
<1>1. /\ s \in CallState /\ s.pc = "storeEds" /\ CallInv(c)
      /\ layouts \in [Height -> SUBSET Seq(Blob)] /\ eds \in [Height -> Seq(Blob) \cup {Nil}]
  BY DEF IInv, TypeOK, StoreEds
<1>2. s.height \in Height
  BY <1>1 DEF CallInv
<1>3. s.op # "getAll"
  BY <1>1, GetAllPlaces
<1>4. Built(s) /\ s.nss = <<>>
  BY <1>1, <1>3 DEF SquareInv
<1>5. /\ eds' = [eds EXCEPT ![s.height] = layout]
      /\ layouts' = [layouts EXCEPT ![s.height] = @ \cup {layout}]
      /\ AfterWrite(c, t)
  BY DEF StoreEds
<1> HIDE DEF p
<1>6. /\ t.op = s.op /\ t.pc = p /\ t.height = s.height /\ t.square = layout
  BY <1>1 DEF CallState
<1> HIDE DEF t
<1>7. layout \in layouts'[s.height]
  BY <1>1, <1>2, <1>5
<1>8. ASSUME call'[c] = t PROVE SquareInv(c)'
  <2>1. p \in {"edsReturned", "indexBlob"}
    BY DEF p
  <2>2. p \notin SubmitPc \cup {"namespaces", "members", "storeEds"}
    BY <2>1 DEF SubmitPc
  <2> QED BY <1>2, <1>6, <1>7, <1>8, <2>2 DEF SquareInv
<1>9. SquareInv(c)'
  BY <1>5, <1>8, WriteSquare
<1>10. Good(s.height, layout) /\ Complete(s.height, layout, {})
  BY <1>4, NothingInTheEmptySequence DEF Built
<1>11. PICK g, l : g \in Height /\ g = s.height /\ l = layout
  BY <1>2
<1>12. Good(g, l)' /\ Complete(g, l, {})'
  BY <1>10, <1>11, GoodStays, CompleteStays
<1>13. ASSUME NEW h \in Height
       PROVE  /\ eds'[h] # Nil => eds'[h] \in layouts'[h]
              /\ \A m \in layouts'[h] : Good(h, m)' /\ Complete(h, m, {})'
  <2>1. \A m \in layouts'[h] : m \in layouts[h] \/ (h = g /\ m = l)
    BY <1>1, <1>5, <1>11
  <2>2. ASSUME NEW m \in layouts[h] PROVE Good(h, m)' /\ Complete(h, m, {})'
    <3>1. Good(h, m) /\ Complete(h, m, {})
      BY DEF LayoutInv
    <3> QED BY <3>1, GoodStays, CompleteStays
  <2>3. eds'[h] # Nil => eds'[h] \in layouts'[h]
    <3>1. CASE h = g
      BY <1>1, <1>2, <1>5, <1>7, <1>11, <3>1
    <3>2. CASE h # g
      BY <1>1, <1>5, <1>11, <3>2 DEF LayoutInv
    <3> QED BY <3>1, <3>2
  <2> QED BY <1>12, <2>1, <2>2, <2>3
<1>14. LayoutInv'
  BY <1>13 DEF LayoutInv
<1> QED BY <1>9, <1>14

LEMMA IndexSquare ==
  ASSUME IInv, SquaresStay, NEW c \in Call, SquareInv(c), IndexBlob(c) \/ MapIndex(c)
  PROVE  SquareInv(c)'
<1> DEFINE s == call[c]
           q == IF Tail(s.todo) = <<>> THEN "edsReturned" ELSE "indexBlob"
           n == IF Tail(s.todo) = <<>> THEN 0 ELSE s.next + Shares[Head(s.todo)]
           u == [s EXCEPT !.pc = "mapIndex"]
           v == [s EXCEPT !.todo = Tail(s.todo), !.next = n, !.pc = q]
<1>1. s \in CallState /\ s.pc \in {"indexBlob", "mapIndex"} /\ CallInv(c)
  BY DEF IInv, TypeOK, IndexBlob, MapIndex
<1>2. s.height \in Height
  BY <1>1 DEF CallInv
<1>3. PICK t \in {u, v} : AfterWrite(c, t)
  BY DEF IndexBlob, MapIndex
<1>4. q \in {"edsReturned", "indexBlob"}
  OBVIOUS
<1> HIDE DEF q, n
<1>5. /\ t.op = s.op /\ t.height = s.height /\ t.square = s.square
      /\ t.pc \in {"edsReturned", "indexBlob", "mapIndex"}
  BY <1>1, <1>3, <1>4 DEF CallState
<1> HIDE DEF u, v
<1>6. s.square \in layouts'[s.height]
  BY <1>1, <1>2 DEF SquareInv, SquaresStay
<1>7. t.pc \notin SubmitPc \cup {"namespaces", "members", "storeEds"}
  BY <1>5 DEF SubmitPc
<1>8. ASSUME call'[c] = t PROVE SquareInv(c)'
  BY <1>2, <1>5, <1>6, <1>7, <1>8 DEF SquareInv
<1> QED BY <1>3, <1>8, WriteSquare

\* The height check, and what is cached; or nothing has been built yet.
LEMMA ReadEdsSquare ==
  ASSUME IInv, LayoutInv, NEW c \in Call, ReadEds(c)
  PROVE  SquareInv(c)'
<1> DEFINE s == call[c]
           t == [s EXCEPT !.pc = "namespaces", !.square = <<>>]
           u == [s EXCEPT !.pc = "edsReturned", !.square = eds[s.height]]
<1>1. /\ s \in CallState /\ s.pc = "eds" /\ call \in [Call -> CallState]
      /\ currentHeight \in 0..MaxHeight
  BY DEF IInv, TypeOK, ReadEds
<1>2. s.height \in Height
  BY <1>1, StoreAssumption DEF ReadEds, HeightUnknown, Height, CallState
<1>3. /\ t.op = s.op /\ t.out = s.out /\ t.height = s.height /\ t.pc = "namespaces"
      /\ t.square = <<>>
      /\ u.op = s.op /\ u.out = s.out /\ u.height = s.height /\ u.pc = "edsReturned"
      /\ u.square = eds[s.height]
  BY <1>1 DEF CallState
<1>4. \/ call'[c] = t
      \/ call'[c] = u /\ eds[s.height] # Nil
  BY <1>1 DEF ReadEds
<1>5. UNCHANGED layouts
  BY DEF ReadEds, historyVars
<1> HIDE DEF t, u
<1>6. CASE call'[c] = u /\ eds[s.height] # Nil
  <2>1. u.square \in layouts'[s.height]
    BY <1>2, <1>3, <1>5, <1>6 DEF LayoutInv
  <2> QED BY <1>2, <1>3, <1>6, <2>1 DEF SquareInv, SubmitPc
<1>7. CASE call'[c] = t
  BY <1>3, <1>7 DEF SquareInv, SubmitPc
<1> QED BY <1>4, <1>6, <1>7

\* The builder begins with all namespaces left.  If the submit has been answered
\* by now, they are those of all its blobs; if not, the height is early.
LEMMA ReadNamespacesSquare ==
  ASSUME IInv, AckedTracked, NEW c \in Call, SquareInv(c), ReadNamespaces(c)
  PROVE  SquareInv(c)'
<1> DEFINE s == call[c]
           h == s.height
<1>1. /\ s \in CallState /\ s.pc = "namespaces" /\ CallInv(c) /\ call \in [Call -> CallState]
      /\ heightNs \in [Height -> SUBSET Ns]
  BY DEF IInv, TypeOK, ReadNamespaces
<1>2. h \in Height /\ s.op # "getAll" /\ s.square = <<>>
  BY <1>1, GetAllPlaces DEF CallInv, SquareInv
<1>3. PICK reply \in Replies(heightNs[h]) :
        call' = [call EXCEPT ![c] =
                   [s EXCEPT !.nss = reply,
                             !.pc = IF reply = <<>> THEN "storeEds" ELSE "members"]]
  BY DEF ReadNamespaces
<1>4. /\ early' = IF h \in acked THEN early ELSE early \cup {h}
      /\ UNCHANGED <<heightNs, blobData, batch, acked>>
  BY DEF ReadNamespaces, redisVars
<1>5. ToSet(reply) = heightNs[h] /\ IsInjective(reply)
  BY RepliesAreComplete, RepliesAreInjective
<1> DEFINE p == IF reply = <<>> THEN "storeEds" ELSE "members"
           t == [s EXCEPT !.nss = reply, !.pc = p]
<1>6. call'[c] = t
  BY <1>1, <1>3
<1>7. p \in {"storeEds", "members"} /\ (p = "storeEds" => reply = <<>>)
  OBVIOUS
<1> HIDE DEF p
<1>8. /\ t.op = s.op /\ t.pc = p /\ t.height = h /\ t.square = <<>> /\ t.nss = reply
  BY <1>1, <1>2 DEF CallState
<1> HIDE DEF t
<1>9. h \in early' \/ (h \in acked' /\ \A b \in Submitted(h) : NsOf[b] \in heightNs[h])
  <2>1. CASE h \in acked
    BY <1>4, <2>1 DEF AckedTracked, Tracked
  <2>2. CASE h \notin acked
    BY <1>4, <2>2
  <2> QED BY <2>1, <2>2
<1>10. PICK g, left : g = h /\ left = ToSet(reply)
  OBVIOUS
<1>11. Good(g, <<>>)' /\ Complete(g, <<>>, left)'
  BY <1>4, <1>5, <1>9, <1>10, NothingInTheEmptySequence DEF Good, Complete, Submitted
<1>12. Built(call[c])'
  BY <1>6, <1>8, <1>10, <1>11, NothingInTheEmptySequence DEF Built
<1>13. p \notin SubmitPc \cup {"namespaces", "indexBlob", "mapIndex", "edsReturned", "done"}
  BY <1>7 DEF SubmitPc
<1> QED BY <1>5, <1>6, <1>7, <1>8, <1>12, <1>13 DEF SquareInv

\* One more namespace: its blobs are new to the square, since their namespace
\* was still left, and no other is left that is theirs.
LEMMA ReadMembersSquare ==
  ASSUME IInv, AckedComplete, NEW c \in Call, SquareInv(c), ReadMembers(c)
  PROVE  SquareInv(c)'
<1> DEFINE s == call[c]
           h == s.height
           n == Head(s.nss)
           rest == Tail(s.nss)
<1>1. /\ s \in CallState /\ call \in [Call -> CallState] /\ CallInv(c) /\ s.pc = "members"
      /\ UNCHANGED <<blobData, batch, acked, early>>
  BY DEF IInv, TypeOK, ReadMembers, redisVars, historyVars
<1>2. /\ s.nss \in Seq(Ns) /\ s.nss # <<>> /\ s.square \in Seq(Blob) /\ h \in Height
  BY <1>1 DEF CallInv, CallState
<1>3. n \in Ns /\ rest \in Seq(Ns) /\ n \in ToSet(s.nss) /\ ToSet(rest) \subseteq ToSet(s.nss)
  BY <1>2, HeadAndTail
<1>4. Listed(c) \in SUBSET Blob
  BY <1>2, <1>3 DEF Listed, IInv, TypeOK
<1>5. PICK reply \in Replies(Listed(c)) :
        LET w == [s EXCEPT !.nss = rest, !.square = @ \o reply]
        IN  call' = [call EXCEPT ![c] =
                       IF rest # <<>> THEN w
                       ELSE IF w.op = "getAll" THEN Ended(w, "ok")
                       ELSE [w EXCEPT !.pc = "storeEds"]]
  BY DEF ReadMembers
<1> DEFINE square == s.square \o reply
           u == [s EXCEPT !.nss = rest, !.square = square]
           store == [u EXCEPT !.pc = "storeEds"]
           e == Ended(u, "ok")
<1>6. call' = [call EXCEPT ![c] = IF rest # <<>> THEN u
                                  ELSE IF u.op = "getAll" THEN e
                                  ELSE store]
  BY <1>5
<1>7. reply \in Seq(Blob) /\ ToSet(reply) = Listed(c) /\ IsInjective(reply)
  BY <1>4, BlobReply, RepliesAreComplete, RepliesAreInjective
<1>8. square \in Seq(Blob) /\ ToSet(square) = ToSet(s.square) \cup Listed(c)
  BY <1>2, <1>7, PartsOfAConcatenation
<1>9. /\ u \in CallState /\ u.op = s.op /\ u.height = h /\ u.nss = rest
      /\ u.square = square /\ u.pc = "members"
  <2> HIDE DEF square
  <2> QED BY <1>1, <1>3, <1>8 DEF CallState
<1> HIDE DEF u
<1>10. /\ store.op = s.op /\ store.height = h /\ store.nss = rest
       /\ store.square = square /\ store.pc = "storeEds"
  <2> HIDE DEF square
  <2> QED BY <1>9 DEF CallState
<1>11. e.pc = "done" /\ e.op = s.op
  BY <1>9, EndedKeeps DEF SameAsked
<1> HIDE DEF store, e
<1>12. CASE s.op = "getAll"
  <2>1. call'[c] \in {u, e}
    BY <1>1, <1>6, <1>9, <1>12
  <2>2. call'[c].op = "getAll" /\ call'[c].pc \in {"members", "done"}
    BY <1>9, <1>11, <1>12, <2>1
  <2> QED BY <2>2 DEF SquareInv, SubmitPc
<1>13. CASE s.op # "getAll"
  <2>1. PICK t \in {u, store} : call'[c] = t /\ (t.pc = "storeEds" => rest = <<>>)
    BY <1>1, <1>6, <1>9, <1>13
  <2>2. /\ t.op = s.op /\ t.height = h /\ t.nss = rest /\ t.square = square
        /\ t.pc \in {"members", "storeEds"}
    BY <1>9, <1>10, <2>1
  <2>3. Built(s) /\ IsInjective(s.nss)
    BY <1>1, <1>13 DEF SquareInv
  <2>4. IsInjective(rest) /\ n \notin ToSet(rest)
    BY <1>2, <2>3, InjectiveTail
  <2>5. Listed(c) = {b \in members[h][n] : blobData[h][b] # Nil} \ Unshareable
    BY <1>13 DEF Listed
  <2>6. ASSUME NEW b \in Listed(c)
        PROVE  b \in Blob /\ NsOf[b] = n /\ blobData[h][b] # Nil /\ b \notin Unshareable
    BY <1>2, <1>3, <1>4, <2>5, <2>6 DEF IInv, TypeOK
  <2>7. \A b \in ToSet(s.square) : NsOf[b] \notin ToSet(s.nss)
    BY <2>3 DEF Built
  <2>8. ToSet(s.square) \cap ToSet(reply) = {}
    BY <1>3, <1>7, <2>6, <2>7
  <2>9. IsInjective(square)
    BY <1>2, <1>7, <2>3, <2>8, InjectiveConcatenation DEF Built, Good
  <2> HIDE DEF square
  <2>10. Good(h, square)
    BY <1>8, <2>3, <2>6, <2>9 DEF Built, Good
  <2>11. \A b \in ToSet(square) : NsOf[b] \notin ToSet(rest)
    BY <1>3, <1>8, <2>4, <2>6, <2>7
  <2>12. Complete(h, square, ToSet(rest))
    <3>1. SUFFICES ASSUME h \notin early
                   PROVE  /\ h \in acked
                          /\ \A b \in Submitted(h) \ Unshareable :
                               b \in ToSet(square) \/ NsOf[b] \in ToSet(rest)
      BY DEF Complete
    <3>2. h \in acked
      BY <2>3, <3>1 DEF Built, Complete
    <3>3. ASSUME NEW b \in Submitted(h) \ Unshareable, NsOf[b] \notin ToSet(rest)
          PROVE  b \in ToSet(square)
      <4>1. CASE NsOf[b] = n
        <5>1. b \in members[h][n] /\ blobData[h][b] # Nil
          BY <3>2, <3>3, <4>1, AckedBlobs
        <5> QED BY <1>8, <2>5, <3>3, <5>1
      <4>2. CASE NsOf[b] # n
        <5>1. NsOf[b] \notin ToSet(s.nss)
          BY <1>2, <3>3, <4>2, HeadOrTail
        <5>2. b \in ToSet(s.square)
          BY <2>3, <3>1, <3>3, <5>1 DEF Built, Complete
        <5> QED BY <1>8, <5>2
      <4> QED BY <4>1, <4>2
    <3> QED BY <3>2, <3>3
  <2>13. PICK g, l, left : g = h /\ l = square /\ left = ToSet(rest)
    OBVIOUS
  <2>14. Good(g, l)' /\ Complete(g, l, left)'
    BY <1>1, <2>10, <2>12, <2>13 DEF Good, Complete, Submitted
  <2> HIDE DEF rest
  <2>15. Built(call[c])'
    BY <2>1, <2>2, <2>11, <2>13, <2>14 DEF Built
  <2>16. t.pc \notin SubmitPc \cup {"namespaces", "indexBlob", "mapIndex", "edsReturned", "done"}
    BY <2>2 DEF SubmitPc
  <2> QED BY <2>1, <2>2, <2>4, <2>15, <2>16 DEF SquareInv
<1> QED BY <1>12, <1>13

\* A call that ends, but for the answer of share.GetEDS.
LEMMA EndSquare ==
  ASSUME IInv, NEW c \in Call, NEW s \in CallState, NEW out,
         s.op = "eds" => out # "ok", call' = [call EXCEPT ![c] = Ended(s, out)]
  PROVE  SquareInv(c)'
<1> DEFINE e == Ended(s, out)
<1>1. e.pc = "done" /\ e.op = s.op /\ e.out = out
  BY EndedKeeps DEF SameAsked
<1> HIDE DEF e
<1>2. call'[c] = e
  BY DEF IInv, TypeOK, e
<1> QED BY <1>1, <1>2, NoSquare

LEMMA ReturnEdsSquare ==
  ASSUME IInv, NEW c \in Call, SquareInv(c), ReturnEds(c)
  PROVE  SquareInv(c)'
<1> DEFINE s == call[c]
           e == Ended(s, "ok")
<1>1. /\ s \in CallState /\ call \in [Call -> CallState] /\ CallInv(c)
      /\ s.pc = "edsReturned" /\ UNCHANGED layouts
  BY DEF IInv, TypeOK, ReturnEds, historyVars
<1>2. s.height \in Height /\ s.square \in layouts[s.height]
  BY <1>1 DEF CallInv, SquareInv
<1>3. e.pc = "done" /\ e.height = s.height /\ e.square = s.square
  BY <1>1, EndedKeeps DEF SameAsked
<1> HIDE DEF e
<1>4. call'[c] = e
  BY <1>1 DEF ReturnEds, e
<1> QED BY <1>1, <1>2, <1>3, <1>4 DEF SquareInv, SubmitPc

LEMMA GetSquare ==
  ASSUME IInv, NEW c \in Call, ReadCommitment(c) \/ ReadBlob(c) \/ RereadBlob(c)
  PROVE  SquareInv(c)'
<1> DEFINE s == call[c]
           data == blobData[s.height][s.target]
           t == [s EXCEPT !.pc = "readBlob"]
           u == [s EXCEPT !.pc = "eds", !.retry = TRUE]
           v == [s EXCEPT !.index = data]
<1>1. s \in CallState /\ call \in [Call -> CallState] /\ CallInv(c)
  BY DEF IInv, TypeOK
<1>2. s.op = "get" /\ s.target \in Blob /\ s.height \in Height
  BY <1>1 DEF CallInv, ReadCommitment, ReadBlob, RereadBlob
<1>3. \/ call' = [call EXCEPT ![c] = t] \/ call' = [call EXCEPT ![c] = u]
      \/ \E out : call' = [call EXCEPT ![c] = Ended(s, out)]
      \/ data \notin {Nil, NoIndex} /\ call' = [call EXCEPT ![c] = Ended(v, "ok")]
  BY DEF ReadCommitment, ReadBlob, RereadBlob
<1>4. t.pc = "readBlob" /\ t.op = s.op /\ u.pc = "eds" /\ u.op = s.op
  BY <1>1 DEF CallState
<1>5. data \in Nat \cup {Nil, NoIndex}
  BY <1>2 DEF IInv, TypeOK
<1> HIDE DEF t, u, data
<1>6. CASE call' = [call EXCEPT ![c] = t] \/ call' = [call EXCEPT ![c] = u]
  <2>1. call'[c] \in {t, u}
    BY <1>1, <1>6
  <2> QED BY <1>2, <1>4, <2>1, NoSquare
<1>7. CASE \E out : call' = [call EXCEPT ![c] = Ended(s, out)]
  BY <1>1, <1>2, <1>7, EndSquare
<1>8. CASE data \notin {Nil, NoIndex} /\ call' = [call EXCEPT ![c] = Ended(v, "ok")]
  <2>1. v \in CallState /\ v.op = s.op
    BY <1>1, <1>5, <1>8 DEF CallState
  <2> HIDE DEF v
  <2> QED BY <1>2, <1>8, <2>1, EndSquare
<1> QED BY <1>3, <1>6, <1>7, <1>8

LEMMA FailSquare ==
  ASSUME IInv, AckedComplete, SquaresStay, NEW c \in Call, SquareInv(c),
         \/ EdsHeightNotFound(c) \/ PanicFromOds(c)
         \/ FailRead(c) \/ FailWrite(c) \/ LoseWrite(c)
  PROVE  SquareInv(c)'
<1> DEFINE s == call[c]
           t == [s EXCEPT !.out = "redisError"]
<1>1. s \in CallState /\ call \in [Call -> CallState] /\ CallInv(c)
  BY DEF IInv, TypeOK
<1>2. CASE EdsHeightNotFound(c) \/ PanicFromOds(c) \/ FailRead(c) \/ LoseWrite(c)
  <2>1. \E out \in {"headerNotFound", "panic", "redisError"} :
          call' = [call EXCEPT ![c] = Ended(s, out)]
    BY <1>2 DEF EdsHeightNotFound, PanicFromOds, FailRead, LoseWrite
  <2> QED BY <1>1, <2>1, EndSquare
<1>3. CASE FailWrite(c)
  <2>1. /\ t.op = s.op /\ t.pc = s.pc /\ t.height = s.height /\ t.todo = s.todo
        /\ t.nss = s.nss /\ t.square = s.square
    BY <1>1 DEF CallState
  <2>2. s.pc # "done"
    BY <1>3 DEF FailWrite, WritePc, SubmitPc, BuildPc
  <2>3. UNCHANGED <<blobData, heightNs, batch, acked, early, layouts>>
    BY <1>3 DEF FailWrite, redisVars, historyVars
  <2>4. call'[c] = t
    BY <1>1, <1>3 DEF FailWrite
  <2> HIDE DEF t
  <2> QED BY <2>1, <2>2, <2>3, <2>4
          DEF SquareInv, Built, Good, Complete, Tracked, Submitted
<1> QED BY <1>2, <1>3

LEMMA BeginningSquare ==
  ASSUME IInv, NEW c \in Call, Begin(c) \/ Finish(c)
  PROVE  SquareInv(c)'
<1>1. call \in [Call -> CallState] /\ currentHeight \in Nat
      /\ batch \in [Height -> Seq(Blob)] /\ Height = 1..MaxHeight
  BY StoreAssumption DEF IInv, TypeOK, Height
<1>2. ASSUME NEW t, call' = [call EXCEPT ![c] = t],
             \/ t.pc \in {"idle", "done", "eds"} /\ (t.op = "eds" => t.out # "ok")
             \/ t.op = "getAll" /\ t.pc \in {"members", "done"}
      PROVE  SquareInv(c)'
  <2>1. call'[c] = t
    BY <1>1, <1>2
  <2> QED BY <1>2, <2>1 DEF SquareInv, SubmitPc
<1>3. CASE SubmitNothing(c)
  <2> DEFINE t == [Idle EXCEPT !.op = "submit", !.pc = "done", !.out = "ok"]
  <2>1. call' = [call EXCEPT ![c] = t] /\ t.pc = "done" /\ t.op = "submit"
    BY <1>3 DEF SubmitNothing, Idle
  <2> HIDE DEF t
  <2> QED BY <1>2, <2>1
<1>4. ASSUME NEW blobs \in Request, AssignHeight(c, blobs) PROVE SquareInv(c)'
  <2> DEFINE g == currentHeight + 1
             t == [Idle EXCEPT !.op = "submit", !.pc = "setBlob", !.height = g,
                               !.todo = blobs]
  <2>1. /\ call' = [call EXCEPT ![c] = t] /\ g \in Height
        /\ batch' = [batch EXCEPT ![g] = blobs]
    BY <1>1, <1>4, StoreAssumption DEF AssignHeight
  <2> HIDE DEF g
  <2>2. t.op = "submit" /\ t.pc = "setBlob" /\ t.height = g /\ t.todo = blobs
    BY DEF Idle
  <2> HIDE DEF t
  <2>3. call'[c] = t /\ batch'[g] = blobs
    BY <1>1, <2>1
  <2>4. Tracked(call[c].height, ToSet(call[c].todo))'
    BY <2>2, <2>3 DEF Tracked, Submitted
  <2> QED BY <2>2, <2>3, <2>4 DEF SquareInv
<1>5. ASSUME NEW h \in 0..MaxHeight, GetEds(c, h) PROVE SquareInv(c)'
  <2> DEFINE knew == h \in acked
             t == [Idle EXCEPT !.op = "eds", !.pc = "eds", !.height = h, !.knew = knew]
  <2>1. call' = [call EXCEPT ![c] = t]
    BY <1>5 DEF GetEds
  <2> HIDE DEF knew
  <2>2. t.pc = "eds" /\ t.out = "pending"
    BY DEF Idle
  <2> HIDE DEF t
  <2> QED BY <1>2, <2>1, <2>2
<1>6. ASSUME NEW h \in 0..MaxHeight, NEW b \in Blob, GetBlob(c, h, b)
      PROVE  SquareInv(c)'
  <2> DEFINE knew == h \in acked
             t == [Idle EXCEPT !.op = "get", !.pc = "eds", !.height = h, !.target = b,
                               !.knew = knew]
  <2>1. call' = [call EXCEPT ![c] = t]
    BY <1>6 DEF GetBlob
  <2> HIDE DEF knew
  <2>2. t.pc = "eds" /\ t.out = "pending"
    BY DEF Idle
  <2> HIDE DEF t
  <2> QED BY <1>2, <2>1, <2>2
<1>7. ASSUME NEW h \in Height, NEW nss \in NsList, GetAll(c, h, nss)
      PROVE  SquareInv(c)'
  <2> DEFINE knew == h \in acked
             asked == ToSet(nss)
             p == IF nss = <<>> THEN "done" ELSE "members"
             o == IF nss = <<>> THEN "ok" ELSE "pending"
             t == [Idle EXCEPT !.op = "getAll", !.height = h, !.nss = nss, !.pc = p,
                               !.out = o, !.asked = asked, !.knew = knew]
  <2>1. call' = [call EXCEPT ![c] = t]
    BY <1>7 DEF GetAll
  <2>2. p \in {"members", "done"}
    OBVIOUS
  <2> HIDE DEF knew, asked, p, o
  <2>3. t.op = "getAll" /\ t.pc = p
    BY DEF Idle
  <2> HIDE DEF t
  <2> QED BY <1>2, <2>1, <2>2, <2>3
<1>8. CASE Finish(c)
  <2>1. call' = [call EXCEPT ![c] = Idle] /\ Idle.pc = "idle" /\ Idle.out = "pending"
    BY <1>8 DEF Finish, Idle
  <2> HIDE DEF Idle
  <2> QED BY <1>2, <2>1
<1> QED BY <1>3, <1>4, <1>5, <1>6, <1>7, <1>8 DEF Begin

-----------------------------------------------------------------------------
LEMMA SquaresInitially == Init => SInv
<1> SUFFICES ASSUME Init PROVE SInv
  OBVIOUS
<1>1. AInv
  BY AnswersInitially
<1>2. AckedTracked /\ LayoutInv
  BY DEF Init, AckedTracked, LayoutInv
<1>3. \A c \in Call : SquareInv(c)
  BY DEF Init, Idle, SquareInv, SubmitPc
<1> QED BY <1>1, <1>2, <1>3 DEF SInv

LEMMA SquaresInductive == SInv /\ [Next]_vars => SInv'
<1> SUFFICES ASSUME SInv, [Next]_vars PROVE SInv'
  OBVIOUS
<1>1. /\ AInv /\ IInv /\ AckedComplete /\ AckedTracked /\ LayoutInv
      /\ \A c \in Call : SquareInv(c)
  BY DEF SInv, AInv, LedgerInv
<1>2. AInv'
  BY <1>1, AnswersInductive
<1>3. ASSUME NEW c \in Call, Begin(c) \/ Step(c) \/ Fault(c) \/ Finish(c)
      PROVE  AckedTracked' /\ LayoutInv' /\ \A d \in Call : SquareInv(d)'
  <2>1. SquaresStay
    BY <1>1, <1>3, StepsKeepSquares
  <2>2. ASSUME NEW d \in Call, d # c PROVE SquareInv(d)'
    <3>1. call'[d] = call[d]
      BY <1>1, <1>3, <2>2, OneCallMoves
    <3> QED BY <1>1, <2>1, <3>1, OtherSquares
  <2>3. CASE TrackNamespace(c)
    <3>1. SquareInv(c)' /\ AckedTracked'
      BY <1>1, <2>1, <2>3, TrackSquare
    <3>2. UNCHANGED <<eds, layouts>>
      BY <2>3 DEF TrackNamespace
    <3>3. LayoutInv'
      BY <1>1, <2>1, <3>2, LayoutsStay
    <3> QED BY <2>2, <3>1, <3>3
  <2>4. CASE StoreEds(c)
    <3>1. SquareInv(c)' /\ LayoutInv'
      BY <1>1, <2>1, <2>4, StoreSquare
    <3>2. UNCHANGED acked
      BY <2>4 DEF StoreEds
    <3>3. AckedTracked'
      BY <1>1, <2>1, <3>2, AckedTrackedStays
    <3> QED BY <2>2, <3>1, <3>3
  <2>5. CASE ~ TrackNamespace(c) /\ ~ StoreEds(c)
    <3>1. UNCHANGED <<eds, layouts, acked>>
      BY <1>3, <2>5
         DEF Begin, Step, Fault, Finish, SubmitNothing, AssignHeight, GetEds, GetBlob,
             GetAll, SetBlob, AddMember, SetCommitment, EdsHeightNotFound, ReadEds,
             ReadNamespaces, ReadMembers, PanicFromOds, IndexBlob, MapIndex, ReturnEds,
             ReadCommitment, ReadBlob, RereadBlob, FailRead, FailWrite, LoseWrite,
             redisVars, historyVars
    <3>2. AckedTracked' /\ LayoutInv'
      BY <1>1, <2>1, <3>1, AckedTrackedStays, LayoutsStay
    <3>3. SquareInv(c)'
      <4>1. CASE Begin(c) \/ Finish(c)
        BY <1>1, <4>1, BeginningSquare
      <4>2. CASE SetBlob(c) \/ AddMember(c) \/ SetCommitment(c)
        BY <1>1, <2>1, <4>2, StoringSquare
      <4>3. CASE IndexBlob(c) \/ MapIndex(c)
        BY <1>1, <2>1, <4>3, IndexSquare
      <4>4. CASE ReadEds(c) \/ ReadNamespaces(c) \/ ReadMembers(c) \/ ReturnEds(c)
        BY <1>1, <4>4, ReadEdsSquare, ReadNamespacesSquare, ReadMembersSquare,
           ReturnEdsSquare
      <4>5. CASE ReadCommitment(c) \/ ReadBlob(c) \/ RereadBlob(c)
        BY <1>1, <4>5, GetSquare
      <4>6. CASE EdsHeightNotFound(c) \/ PanicFromOds(c) \/ Fault(c)
        BY <1>1, <2>1, <4>6, FailSquare DEF Fault
      <4> QED BY <1>3, <2>5, <4>1, <4>2, <4>3, <4>4, <4>5, <4>6 DEF Step
    <3> QED BY <2>2, <3>2, <3>3
  <2> QED BY <2>3, <2>4, <2>5
<1>4. CASE UNCHANGED vars
  <2>1. UNCHANGED <<currentHeight, blobData, heightNs, eds, layouts, batch, acked, early>>
        /\ \A c \in Call : call'[c] = call[c]
    BY <1>4 DEF vars, redisVars, historyVars
  <2>2. SquaresStay
    BY <2>1 DEF SquaresStay
  <2>3. AckedTracked' /\ LayoutInv' /\ \A c \in Call : SquareInv(c)'
    BY <1>1, <2>1, <2>2, AckedTrackedStays, LayoutsStay, OtherSquares
  <2> QED BY <1>2, <2>3 DEF SInv
<1>5. CASE Next
  BY <1>2, <1>3, <1>5 DEF Next, SInv
<1> QED BY <1>4, <1>5

LEMMA SquareInvariance == Spec => []SInv
BY SquaresInitially, SquaresInductive, PTL DEF Spec

\* A cached square lists each blob once, and only blobs that are stored and have
\* shares, whichever builders raced to cache one.
THEOREM SquaresCorrect == Spec => []SquaresHoldStoredBlobs
<1>1. SInv => SquaresHoldStoredBlobs
  BY DEF SInv, LayoutInv, Good, SquaresHoldStoredBlobs
<1> QED BY <1>1, SquareInvariance, PTL

\* A layout cached for a height that no builder was early for has every blob of
\* its submit that has shares, and no other.
LEMMA LayoutsAreComplete ==
  ASSUME SInv, NEW h \in acked \ early, NEW layout \in layouts[h]
  PROVE  ToSet(layout) = Submitted(h) \ Unshareable
<1>1. h \in Height /\ IInv
  BY DEF SInv, AInv, LedgerInv, IInv, TypeOK
<1>2. Good(h, layout) /\ Complete(h, layout, {})
  BY <1>1 DEF SInv, LayoutInv
<1>3. ToSet(layout) \subseteq Submitted(h) \ Unshareable
  BY <1>1, <1>2 DEF Good, IInv, HeightsHoldOneBatch
<1>4. Submitted(h) \ Unshareable \subseteq ToSet(layout)
  BY <1>2 DEF Complete
<1> QED BY <1>3, <1>4

\* A square none of whose builders began before the submit was answered holds
\* every blob of the submit.
THEOREM UnracedSquaresCorrect == Spec => []UnracedSquareIsComplete
<1>1. SInv => UnracedSquareIsComplete
  <2> SUFFICES ASSUME SInv, NEW h \in acked \ early, eds[h] # Nil
               PROVE  ToSet(eds[h]) = Submitted(h) \ Unshareable
    BY DEF UnracedSquareIsComplete
  <2>1. h \in Height
    BY DEF SInv, AInv, LedgerInv, IInv, TypeOK
  <2>2. eds[h] \in layouts[h]
    BY <2>1 DEF SInv, LayoutInv
  <2> QED BY <2>2, LayoutsAreComplete
<1> QED BY <1>1, SquareInvariance, PTL

-----------------------------------------------------------------------------
(* The indexes that are kept for blobs.                                    *)
(*                                                                         *)
(* A builder goes through the blobs of a square that it has cached, and    *)
(* next is where the first of those that are left begins (IndexesFrom).    *)
(* Its square may have been replaced by then, but was cached once.         *)

\* The blob begins there in one of these squares.
Position(squares, b, i) == \E l \in squares : b \in ToSet(l) /\ i = FirstCell(l, b)

IndexesFrom(s) ==
  \E k \in 1..Len(s.square) :
     /\ s.todo = SubSeq(s.square, k, Len(s.square))
     /\ s.next = EndOf(s.square, k - 1)

IndexingPc == {"indexBlob", "mapIndex"}

IndexingInv(c) == call[c].pc \in IndexingPc => IndexesFrom(call[c])

DataInv ==
  \A h \in Height, b \in Blob :
     blobData[h][b] \in {ClientIndex[b], Nil} \/ Position(layouts[h], b, blobData[h][b])

IndexInv ==
  \A h \in Height, b \in Blob :
     blobIndex[h][b] = Nil \/ Position(layouts[h], b, blobIndex[h][b])

PInv == SInv /\ DataInv /\ IndexInv /\ \A c \in Call : IndexingInv(c)

LEMMA RestsOfASquare ==
  ASSUME NEW S, NEW s \in Seq(S), NEW k \in 1..Len(s)
  PROVE  LET rest == SubSeq(s, k, Len(s))
         IN  /\ Head(rest) = s[k] /\ s[k] \in ToSet(s) /\ s[k] \in S
             /\ Tail(rest) # <<>> => k + 1 \in 1..Len(s)
             /\ Tail(rest) = SubSeq(s, k + 1, Len(s))
<1> DEFINE n == Len(s)
           rest == SubSeq(s, k, n)
           next == SubSeq(s, k + 1, n)
<1>1. n \in Nat /\ k \in 1..n /\ DOMAIN s = 1..n
  OBVIOUS
<1>2. /\ rest \in Seq(S) /\ Len(rest) = n - k + 1
      /\ \A i \in 1..(n - k + 1) : rest[i] = s[k + i - 1]
  BY <1>1
<1>3. /\ next \in Seq(S) /\ Len(next) = n - k
      /\ \A i \in 1..(n - k) : next[i] = s[k + i]
  BY <1>1
<1>4. s[k] \in S /\ s[k] \in ToSet(s)
  BY <1>1 DEF ToSet
<1> HIDE DEF rest, next, n
<1>5. /\ Head(rest) = rest[1] /\ rest # <<>>
      /\ Tail(rest) \in Seq(S) /\ Len(Tail(rest)) = n - k
      /\ \A i \in 1..(n - k) : Tail(rest)[i] = rest[i + 1]
  BY <1>1, <1>2
<1>6. Head(rest) = s[k]
  BY <1>1, <1>2, <1>5
<1>7. \A i \in 1..(n - k) : Tail(rest)[i] = next[i]
  BY <1>1, <1>2, <1>3, <1>5
<1>8. Tail(rest) = next
  BY <1>1, <1>3, <1>5, <1>7, SeqEqual
<1>9. Tail(rest) # <<>> => k + 1 \in 1..n
  BY <1>1, <1>5
<1> QED BY <1>4, <1>6, <1>8, <1>9 DEF rest, next, n

LEMMA PositionStays ==
  ASSUME SquaresStay, NEW h \in Height, NEW b, NEW i, Position(layouts[h], b, i)
  PROVE  Position(layouts'[h], b, i)
BY DEF Position, SquaresStay

\* What has been cached and is not empty is indexed from its first blob.
LEMMA IndexingBegins ==
  ASSUME NEW s, s.square \in Seq(Blob), s.square # <<>>, s.todo = s.square, s.next = 1
  PROVE  IndexesFrom(s)
<1>1. /\ 1 \in 1..Len(s.square) /\ SubSeq(s.square, 1, Len(s.square)) = s.square
      /\ 1 - 1 = 0
  BY SubSeqFull
<1>2. EndOf(s.square, 0) = 1
  BY EndsGrow
<1> QED BY <1>1, <1>2 DEF IndexesFrom

\* The blob that is indexed next begins at next in a square that was cached.
LEMMA IndexingPositions ==
  ASSUME SInv, NEW c \in Call, IndexingInv(c), call[c].pc \in IndexingPc
  PROVE  /\ call[c].height \in Height /\ Head(call[c].todo) \in Blob
         /\ Position(layouts[call[c].height], Head(call[c].todo), call[c].next)
<1> DEFINE s == call[c]
           h == s.height
           l == s.square
<1>1. s \in CallState /\ CallInv(c) /\ layouts \in [Height -> SUBSET Seq(Blob)]
  BY DEF SInv, AInv, LedgerInv, IInv, TypeOK
<1>2. h \in Height /\ l \in Seq(Blob)
  BY <1>1 DEF CallInv, CallState, IndexingPc
<1>3. l \in layouts[h]
  BY DEF SInv, SquareInv, IndexingPc
<1>4. IsInjective(l)
  BY <1>2, <1>3 DEF SInv, LayoutInv, Good
<1>5. PICK k \in 1..Len(l) : s.todo = SubSeq(l, k, Len(l)) /\ s.next = EndOf(l, k - 1)
  BY DEF IndexingInv, IndexesFrom
<1> HIDE DEF s, h, l
<1>6. Head(s.todo) = l[k] /\ l[k] \in ToSet(l) /\ l[k] \in Blob
  BY <1>2, <1>5, RestsOfASquare
<1>7. FirstCell(l, l[k]) = s.next
  BY <1>2, <1>4, <1>5, CellsOfABlob
<1>8. Position(layouts[h], l[k], s.next)
  BY <1>3, <1>6, <1>7 DEF Position
<1> QED BY <1>2, <1>6, <1>8 DEF s, h, l

\* After it the next one is where it ends.
LEMMA IndexingGoesOn ==
  ASSUME NEW s, s.square \in Seq(Blob), IndexesFrom(s), NEW t, t.square = s.square,
         t.todo = Tail(s.todo), t.todo # <<>>, t.next = s.next + Shares[Head(s.todo)]
  PROVE  IndexesFrom(t)
<1> DEFINE l == s.square
<1>1. PICK k \in 1..Len(l) : s.todo = SubSeq(l, k, Len(l)) /\ s.next = EndOf(l, k - 1)
  BY DEF IndexesFrom
<1>2. l \in Seq(Blob)
  OBVIOUS
<1> HIDE DEF l
<1>3. /\ Head(s.todo) = l[k] /\ k + 1 \in 1..Len(l)
      /\ Tail(s.todo) = SubSeq(l, k + 1, Len(l))
  BY <1>1, <1>2, RestsOfASquare
<1>4. EndOf(l, k) = EndOf(l, k - 1) + Shares[l[k]]
  BY <1>2, EndsGrow
<1>5. (k + 1) - 1 = k
  OBVIOUS
<1>6. t.square = l
  BY DEF l
<1> QED BY <1>1, <1>3, <1>4, <1>5, <1>6 DEF IndexesFrom

LEMMA DataStays ==
  ASSUME SquaresStay, DataInv, UNCHANGED blobData
  PROVE  DataInv'
BY PositionStays DEF DataInv

LEMMA IndexStays ==
  ASSUME SquaresStay, IndexInv, UNCHANGED blobIndex
  PROVE  IndexInv'
BY PositionStays DEF IndexInv

\* A write goes on to t, or the call had given up on it.
LEMMA WriteIndexing ==
  ASSUME IInv, NEW c \in Call, NEW t, AfterWrite(c, t),
         call'[c] = t => IndexingInv(c)'
  PROVE  IndexingInv(c)'
<1>1. call[c] \in CallState /\ call \in [Call -> CallState]
  BY DEF IInv, TypeOK
<1>2. CASE Abandoned(c)
  <2> DEFINE e == Ended(call[c], "redisError")
  <2>1. e.pc = "done"
    BY <1>1, EndedKeeps
  <2> HIDE DEF e
  <2>2. call'[c] = e
    BY <1>1, <1>2 DEF AfterWrite, e
  <2> QED BY <2>1, <2>2 DEF IndexingInv, IndexingPc
<1>3. CASE ~ Abandoned(c)
  BY <1>1, <1>3 DEF AfterWrite
<1> QED BY <1>2, <1>3

\* A client's index is one that DataInv knows of.
LEMMA SetBlobPositions ==
  ASSUME PInv, SquaresStay, NEW c \in Call, SetBlob(c)
  PROVE  DataInv'
<1> DEFINE g == call[c].height
           d == Head(call[c].todo)
           i == ClientIndex[d]
<1>1. /\ blobData' = [blobData EXCEPT ![g][d] = i]
      /\ blobData \in [Height -> [Blob -> Nat \cup {NoIndex, Nil}]]
  BY DEF SetBlob, PInv, SInv, AInv, LedgerInv, IInv, TypeOK
<1>2. i = ClientIndex[d]
  OBVIOUS
<1> HIDE DEF g, d, i
<1> SUFFICES ASSUME NEW h \in Height, NEW b \in Blob
             PROVE  \/ blobData'[h][b] \in {ClientIndex[b], Nil}
                    \/ Position(layouts'[h], b, blobData'[h][b])
  BY DEF DataInv
<1>3. CASE h = g /\ b = d
  BY <1>1, <1>2, <1>3
<1>4. CASE ~ (h = g /\ b = d)
  <2>1. blobData'[h][b] = blobData[h][b]
    BY <1>1, <1>4
  <2> QED BY <2>1, PositionStays DEF PInv, DataInv
<1> QED BY <1>3, <1>4

LEMMA IndexBlobPositions ==
  ASSUME PInv, SquaresStay, NEW c \in Call, IndexBlob(c)
  PROVE  DataInv' /\ IndexingInv(c)'
<1> DEFINE s == call[c]
           g == s.height
           d == Head(s.todo)
           n == s.next
           t == [s EXCEPT !.pc = "mapIndex"]
<1>1. /\ blobData' = [blobData EXCEPT ![g][d] = IF @ = Nil THEN Nil ELSE n]
      /\ s.pc = "indexBlob" /\ AfterWrite(c, t)
  BY DEF IndexBlob
<1>2. /\ blobData \in [Height -> [Blob -> Nat \cup {NoIndex, Nil}]]
      /\ s \in CallState /\ IInv /\ IndexingInv(c)
  BY DEF PInv, SInv, AInv, LedgerInv, IInv, TypeOK
<1>3. g \in Height /\ d \in Blob /\ Position(layouts[g], d, n)
  BY <1>1, IndexingPositions DEF PInv, IndexingPc
<1>4. IndexingInv(c)'
  <2>1. t.square = s.square /\ t.todo = s.todo /\ t.next = s.next
    BY <1>2 DEF CallState
  <2>2. IndexesFrom(s)
    BY <1>1, <1>2 DEF IndexingInv, IndexingPc
  <2> HIDE DEF t, s
  <2>3. IndexesFrom(t)
    BY <2>1, <2>2 DEF IndexesFrom
  <2>4. ASSUME call'[c] = t PROVE IndexingInv(c)'
    BY <2>3, <2>4 DEF IndexingInv, IndexesFrom
  <2> QED BY <1>1, <1>2, <2>4, WriteIndexing
<1> HIDE DEF g, d, n
<1>5. ASSUME NEW h \in Height, NEW b \in Blob
      PROVE  \/ blobData'[h][b] \in {ClientIndex[b], Nil}
             \/ Position(layouts'[h], b, blobData'[h][b])
  <2>1. CASE h = g /\ b = d
    <3>1. blobData'[h][b] \in {Nil, n}
      BY <1>1, <1>2, <1>3, <2>1
    <3>2. Position(layouts'[h], b, n)
      BY <1>3, <2>1, PositionStays
    <3>3. blobData'[h][b] = n => Position(layouts'[h], b, blobData'[h][b])
      BY <3>2 DEF Position
    <3> QED BY <3>1, <3>3
  <2>2. CASE ~ (h = g /\ b = d)
    <3>1. blobData'[h][b] = blobData[h][b]
      BY <1>1, <1>2, <2>2
    <3> QED BY <3>1, PositionStays DEF PInv, DataInv
  <2> QED BY <2>1, <2>2
<1> QED BY <1>4, <1>5 DEF DataInv

LEMMA MapIndexPositions ==
  ASSUME PInv, SquaresStay, NEW c \in Call, MapIndex(c)
  PROVE  IndexInv' /\ IndexingInv(c)'
<1> DEFINE s == call[c]
           g == s.height
           d == Head(s.todo)
           n == s.next
           rest == Tail(s.todo)
           next == IF rest = <<>> THEN 0 ELSE n + Shares[d]
           p == IF rest = <<>> THEN "edsReturned" ELSE "indexBlob"
           t == [s EXCEPT !.todo = rest, !.next = next, !.pc = p]
<1>1. /\ blobIndex' = [blobIndex EXCEPT ![g][d] = n]
      /\ s.pc = "mapIndex" /\ AfterWrite(c, t)
  BY DEF MapIndex
<1>2. /\ blobIndex \in [Height -> [Blob -> Nat \cup {Nil}]]
      /\ s \in CallState /\ IInv /\ IndexingInv(c)
  BY DEF PInv, SInv, AInv, LedgerInv, IInv, TypeOK
<1>3. g \in Height /\ d \in Blob /\ Position(layouts[g], d, n)
  BY <1>1, IndexingPositions DEF PInv, IndexingPc
<1>4. IndexingInv(c)'
  <2>1. p \in IndexingPc => rest # <<>> /\ next = n + Shares[d]
    BY DEF IndexingPc
  <2> HIDE DEF next, p
  <2>2. t.square = s.square /\ t.todo = rest /\ t.next = next /\ t.pc = p
    BY <1>2 DEF CallState
  <2>3. IndexesFrom(s) /\ s.square \in Seq(Blob)
    BY <1>1, <1>2 DEF IndexingInv, IndexingPc, CallState
  <2> HIDE DEF t, s
  <2>4. ASSUME p \in IndexingPc PROVE IndexesFrom(t)
    BY <2>1, <2>2, <2>3, <2>4, IndexingGoesOn
  <2>5. ASSUME call'[c] = t PROVE IndexingInv(c)'
    BY <2>2, <2>4, <2>5 DEF IndexingInv, IndexesFrom
  <2> QED BY <1>1, <1>2, <2>5, WriteIndexing
<1> HIDE DEF g, d, n
<1>5. ASSUME NEW h \in Height, NEW b \in Blob
      PROVE  blobIndex'[h][b] = Nil \/ Position(layouts'[h], b, blobIndex'[h][b])
  <2>1. CASE h = g /\ b = d
    <3>1. blobIndex'[h][b] = n
      BY <1>1, <1>2, <1>3, <2>1
    <3>2. Position(layouts'[h], b, n)
      BY <1>3, <2>1, PositionStays
    <3> QED BY <3>1, <3>2 DEF Position
  <2>2. CASE ~ (h = g /\ b = d)
    <3>1. blobIndex'[h][b] = blobIndex[h][b]
      BY <1>1, <1>2, <2>2
    <3> QED BY <3>1, PositionStays DEF PInv, IndexInv
  <2> QED BY <2>1, <2>2
<1> QED BY <1>4, <1>5 DEF IndexInv

LEMMA StoreEdsPositions ==
  ASSUME PInv, NEW c \in Call, StoreEds(c)
  PROVE  IndexingInv(c)'
<1> DEFINE s == call[c]
           layout == s.square
           p == IF layout = <<>> THEN "edsReturned" ELSE "indexBlob"
           t == [s EXCEPT !.todo = layout, !.next = 1, !.pc = p]
<1>1. AfterWrite(c, t)
  BY DEF StoreEds
<1>2. s \in CallState /\ IInv
  BY DEF PInv, SInv, AInv, LedgerInv, IInv, TypeOK
<1>3. p \in IndexingPc => layout # <<>>
  BY DEF IndexingPc
<1> HIDE DEF p
<1>4. t.square = layout /\ t.todo = layout /\ t.next = 1 /\ t.pc = p /\ layout \in Seq(Blob)
  BY <1>2 DEF CallState
<1> HIDE DEF t, s
<1>5. ASSUME p \in IndexingPc PROVE IndexesFrom(t)
  BY <1>3, <1>4, <1>5, IndexingBegins
<1>6. ASSUME call'[c] = t PROVE IndexingInv(c)'
  BY <1>4, <1>5, <1>6 DEF IndexingInv, IndexesFrom
<1> QED BY <1>1, <1>2, <1>6, WriteIndexing

\* A call that neither lists blobs for a square nor indexes those of one.
Elsewhere(t) ==
  /\ t.pc \notin {"indexBlob", "mapIndex"}
  /\ t.op # "getAll" => t.pc \notin {"members", "storeEds"}

\* All but these steps lead there.
LEMMA StepsElsewhere ==
  ASSUME IInv, NEW c \in Call,
         \/ Begin(c) \/ Finish(c)
         \/ SetBlob(c) \/ AddMember(c) \/ SetCommitment(c) \/ TrackNamespace(c)
         \/ EdsHeightNotFound(c) \/ ReadEds(c) \/ PanicFromOds(c) \/ ReturnEds(c)
         \/ ReadCommitment(c) \/ ReadBlob(c) \/ RereadBlob(c)
         \/ FailRead(c) \/ LoseWrite(c)
  PROVE  Elsewhere(call'[c])
<1>1. call \in [Call -> CallState]
  BY DEF IInv, TypeOK
<1>2. ASSUME NEW t, call' = [call EXCEPT ![c] = t], Elsewhere(t)
      PROVE  Elsewhere(call'[c])
  BY <1>1, <1>2
<1>3. \A s \in CallState : \A out : Ended(s, out).pc = "done"
  BY EndedKeeps
<1>4. ASSUME NEW t, AfterWrite(c, t), Elsewhere(t)
      PROVE  Elsewhere(call'[c])
  <2>1. CASE Abandoned(c)
    <3>1. call' = [call EXCEPT ![c] = Ended(call[c], "redisError")]
      BY <1>4, <2>1 DEF AfterWrite
    <3> QED BY <1>1, <1>2, <1>3, <3>1 DEF Elsewhere
  <2>2. CASE ~ Abandoned(c)
    BY <1>2, <1>4, <2>2 DEF AfterWrite
  <2> QED BY <2>1, <2>2
<1>5. call[c] \in CallState
  BY <1>1
<1>6. CASE Begin(c) \/ Finish(c)
  <2>1. CASE SubmitNothing(c)
    BY <1>2, <2>1 DEF SubmitNothing, Idle, Elsewhere
  <2>2. ASSUME NEW blobs \in Request, AssignHeight(c, blobs) PROVE Elsewhere(call'[c])
    BY <1>2, <2>2 DEF AssignHeight, Idle, Elsewhere
  <2>3. ASSUME NEW h \in 0..MaxHeight, GetEds(c, h) PROVE Elsewhere(call'[c])
    <3>1. call'[c].pc = "eds"
      BY <1>1, <2>3 DEF GetEds, Idle
    <3> QED BY <3>1 DEF Elsewhere
  <2>4. ASSUME NEW h \in 0..MaxHeight, NEW b \in Blob, GetBlob(c, h, b)
        PROVE  Elsewhere(call'[c])
    <3>1. call'[c].pc = "eds"
      BY <1>1, <2>4 DEF GetBlob, Idle
    <3> QED BY <3>1 DEF Elsewhere
  <2>5. ASSUME NEW h \in Height, NEW nss \in NsList, GetAll(c, h, nss)
        PROVE  Elsewhere(call'[c])
    <3>1. call'[c].pc \in {"done", "members"} /\ call'[c].op = "getAll"
      BY <1>1, <2>5 DEF GetAll, Idle
    <3> QED BY <3>1 DEF Elsewhere
  <2>6. CASE Finish(c)
    BY <1>2, <2>6 DEF Finish, Idle, Elsewhere
  <2> QED BY <1>6, <2>1, <2>2, <2>3, <2>4, <2>5, <2>6 DEF Begin
<1>7. CASE SetBlob(c) \/ AddMember(c) \/ SetCommitment(c)
  <2> DEFINE s == call[c]
             t1 == [s EXCEPT !.pc = "addMember"]
             t2 == [s EXCEPT !.pc = "setCommitment"]
             t3 == [s EXCEPT !.pc = "trackNamespace"]
  <2>1. PICK t \in {t1, t2, t3} : AfterWrite(c, t)
    BY <1>7 DEF SetBlob, AddMember, SetCommitment
  <2>2. Elsewhere(t)
    BY <1>5, <2>1 DEF CallState, Elsewhere
  <2> QED BY <1>4, <2>1, <2>2
<1>8. CASE TrackNamespace(c)
  <2> DEFINE s == call[c]
             rest == Tail(s.todo)
             next == [s EXCEPT !.pc = "setBlob", !.todo = rest]
             e == Ended(s, "ok")
             t == IF rest = <<>> THEN e ELSE next
  <2>1. AfterWrite(c, t)
    BY <1>8 DEF TrackNamespace
  <2>2. e.pc = "done" /\ next.pc = "setBlob"
    BY <1>3, <1>5 DEF CallState
  <2> HIDE DEF e, next
  <2>3. Elsewhere(t)
    BY <2>2 DEF Elsewhere
  <2> QED BY <1>4, <2>1, <2>3
<1>9. CASE ReadEds(c)
  <2> DEFINE s == call[c]
             t == [s EXCEPT !.pc = "namespaces", !.square = <<>>]
             u == [s EXCEPT !.pc = "edsReturned", !.square = eds[s.height]]
  <2>1. call' = [call EXCEPT ![c] = t] \/ call' = [call EXCEPT ![c] = u]
    BY <1>9 DEF ReadEds
  <2>2. Elsewhere(t) /\ Elsewhere(u)
    BY <1>5 DEF CallState, Elsewhere
  <2> QED BY <1>2, <2>1, <2>2
<1>10. CASE ReadCommitment(c) \/ ReadBlob(c) \/ RereadBlob(c)
  <2> DEFINE s == call[c]
             t == [s EXCEPT !.pc = "readBlob"]
             u == [s EXCEPT !.pc = "eds", !.retry = TRUE]
             v == [s EXCEPT !.index = blobData[s.height][s.target]]
  <2>1. \E w \in {t, u} : call' = [call EXCEPT ![c] = w]
        \/ \E out : \E x \in {s, v} : call' = [call EXCEPT ![c] = Ended(x, out)]
    BY <1>10 DEF ReadCommitment, ReadBlob, RereadBlob
  <2>2. /\ t.pc = "readBlob" /\ u.pc = "eds"
        /\ \A out : Ended(s, out).pc = "done" /\ Ended(v, out).pc = "done"
    BY <1>5 DEF CallState, Ended
  <2> QED BY <1>2, <2>1, <2>2 DEF Elsewhere
<1>11. CASE EdsHeightNotFound(c) \/ PanicFromOds(c) \/ ReturnEds(c) \/ FailRead(c)
            \/ LoseWrite(c)
  <2>1. PICK out : call' = [call EXCEPT ![c] = Ended(call[c], out)]
    BY <1>11 DEF EdsHeightNotFound, PanicFromOds, ReturnEds, FailRead, LoseWrite
  <2> QED BY <1>2, <1>3, <1>5, <2>1 DEF Elsewhere
<1> QED BY <1>6, <1>7, <1>8, <1>9, <1>10, <1>11

\* These list for a square, or have all that was listed.
LEMMA StepsThatList ==
  ASSUME IInv, NEW c \in Call, ReadNamespaces(c) \/ ReadMembers(c)
  PROVE  call'[c].pc \in {"members", "storeEds", "done"}
<1>1. call \in [Call -> CallState] /\ call[c] \in CallState
  BY DEF IInv, TypeOK
<1>2. CASE ReadNamespaces(c)
  <2> DEFINE s == call[c]
             p(reply) == IF reply = <<>> THEN "storeEds" ELSE "members"
             t(reply) == [s EXCEPT !.nss = reply, !.pc = p(reply)]
  <2>1. PICK reply : call' = [call EXCEPT ![c] = t(reply)]
    BY <1>2 DEF ReadNamespaces
  <2>2. t(reply).pc \in {"members", "storeEds"}
    BY <1>1 DEF CallState
  <2> HIDE DEF t
  <2> QED BY <1>1, <2>1, <2>2
<1>3. CASE ReadMembers(c)
  <2> DEFINE s == call[c]
             u(reply) == [s EXCEPT !.nss = Tail(s.nss), !.square = @ \o reply]
             v(reply) == [u(reply) EXCEPT !.pc = "storeEds"]
             e(reply) == Ended(u(reply), "ok")
  <2>1. PICK reply : \/ call' = [call EXCEPT ![c] = u(reply)]
                     \/ call' = [call EXCEPT ![c] = e(reply)]
                     \/ call' = [call EXCEPT ![c] = v(reply)]
    BY <1>3 DEF ReadMembers
  <2>2. s.pc = "members"
    BY <1>3 DEF ReadMembers
  <2>3. u(reply).pc = "members" /\ v(reply).pc = "storeEds" /\ e(reply).pc = "done"
    BY <1>1, <2>2 DEF CallState, Ended
  <2> HIDE DEF u, v, e
  <2> QED BY <1>1, <2>1, <2>3
<1> QED BY <1>2, <1>3

LEMMA FailWriteIndexing ==
  ASSUME IInv, NEW c \in Call, IndexingInv(c), FailWrite(c)
  PROVE  IndexingInv(c)'
<1> DEFINE s == call[c]
           t == [s EXCEPT !.out = "redisError"]
<1>1. s \in CallState /\ call \in [Call -> CallState] /\ call' = [call EXCEPT ![c] = t]
  BY DEF IInv, TypeOK, FailWrite
<1>2. t.square = s.square /\ t.todo = s.todo /\ t.next = s.next /\ t.pc = s.pc
  BY <1>1 DEF CallState
<1>3. call'[c] = t
  BY <1>1
<1> HIDE DEF t
<1> QED BY <1>2, <1>3 DEF IndexingInv, IndexesFrom

LEMMA PositionsInitially == Init => PInv
<1> SUFFICES ASSUME Init PROVE PInv
  OBVIOUS
<1>1. DataInv /\ IndexInv
  BY DEF Init, DataInv, IndexInv
<1>2. \A c \in Call : IndexingInv(c)
  BY DEF Init, Idle, IndexingInv, IndexingPc
<1> QED BY <1>1, <1>2, SquaresInitially DEF PInv

LEMMA PositionsInductive == PInv /\ [Next]_vars => PInv'
<1> SUFFICES ASSUME PInv, [Next]_vars PROVE PInv'
  OBVIOUS
<1>1. IInv /\ SInv /\ SInv' /\ \A c \in Call : IndexingInv(c)
  BY SquaresInductive DEF PInv, SInv, AInv, LedgerInv
<1>2. ASSUME NEW c \in Call, Begin(c) \/ Step(c) \/ Fault(c) \/ Finish(c)
      PROVE  DataInv' /\ IndexInv' /\ \A d \in Call : IndexingInv(d)'
  <2>1. SquaresStay
    BY <1>1, <1>2, StepsKeepSquares
  <2>2. ASSUME NEW d \in Call, d # c PROVE IndexingInv(d)'
    <3>1. call'[d] = call[d]
      BY <1>1, <1>2, <2>2, OneCallMoves
    <3> QED BY <1>1, <3>1 DEF IndexingInv, IndexesFrom
  <2>3. IndexingInv(c)'
    <3>1. ASSUME \/ Elsewhere(call'[c])
                 \/ call'[c].pc \in {"members", "storeEds", "done"}
          PROVE  IndexingInv(c)'
      BY <3>1 DEF Elsewhere, IndexingInv, IndexingPc
    <3>2. CASE StoreEds(c) \/ IndexBlob(c) \/ MapIndex(c) \/ FailWrite(c)
      BY <1>1, <2>1, <3>2, FailWriteIndexing, StoreEdsPositions, IndexBlobPositions,
         MapIndexPositions
    <3>3. CASE ReadNamespaces(c) \/ ReadMembers(c)
      BY <1>1, <3>1, <3>3, StepsThatList
    <3> QED BY <1>1, <1>2, <3>1, <3>2, <3>3, StepsElsewhere DEF Step, Fault
  <2>4. DataInv'
    <3>1. CASE SetBlob(c) \/ IndexBlob(c)
      BY <2>1, <3>1, SetBlobPositions, IndexBlobPositions
    <3>2. CASE ~ SetBlob(c) /\ ~ IndexBlob(c)
      <4>1. UNCHANGED blobData
        BY <1>2, <3>2
           DEF Begin, Step, Fault, Finish, SubmitNothing, AssignHeight, GetEds, GetBlob,
               GetAll, AddMember, SetCommitment, TrackNamespace, EdsHeightNotFound,
               ReadEds, ReadNamespaces, ReadMembers, PanicFromOds, StoreEds, MapIndex,
               ReturnEds, ReadCommitment, ReadBlob, RereadBlob, FailRead, FailWrite,
               LoseWrite, redisVars
      <4> QED BY <2>1, <4>1, DataStays DEF PInv
    <3> QED BY <3>1, <3>2
  <2>5. IndexInv'
    <3>1. CASE MapIndex(c)
      BY <2>1, <3>1, MapIndexPositions
    <3>2. CASE ~ MapIndex(c)
      <4>1. UNCHANGED blobIndex
        BY <1>2, <3>2
           DEF Begin, Step, Fault, Finish, SubmitNothing, AssignHeight, GetEds, GetBlob,
               GetAll, SetBlob, AddMember, SetCommitment, TrackNamespace,
               EdsHeightNotFound, ReadEds, ReadNamespaces, ReadMembers, PanicFromOds,
               StoreEds, IndexBlob, ReturnEds, ReadCommitment, ReadBlob, RereadBlob,
               FailRead, FailWrite, LoseWrite, redisVars
      <4> QED BY <2>1, <4>1, IndexStays DEF PInv
    <3> QED BY <3>1, <3>2
  <2> QED BY <2>2, <2>3, <2>4, <2>5
<1>3. CASE UNCHANGED vars
  <2>1. UNCHANGED <<blobData, blobIndex, call, layouts>>
    BY <1>3 DEF vars, redisVars, historyVars
  <2> QED BY <1>1, <2>1 DEF PInv, DataInv, IndexInv, Position, IndexingInv, IndexesFrom
<1> QED BY <1>1, <1>2, <1>3 DEF Next, PInv

LEMMA PositionInvariance == Spec => []PInv
BY PositionsInitially, PositionsInductive, PTL DEF Spec

\* Whichever builders race, and whatever of one still reaches Redis after it has
\* failed: an index kept for a blob is where the blob begins in a square that was
\* cached for its height, or what the client sent.
THEOREM PositionsCorrect == Spec => []EveryIndexIsAPosition
<1>1. PInv => EveryIndexIsAPosition
  BY DEF PInv, DataInv, IndexInv, Position, EveryIndexIsAPosition
<1> QED BY <1>1, PositionInvariance, PTL

-----------------------------------------------------------------------------
(* Indexes that are not taken away.                                        *)
(*                                                                         *)
(* An index is lost only to the SET of a submit.  A height has one submit, *)
(* which is over once the height is answered; before that, a blob of a     *)
(* vector that repeats none is stored once (OwnInv).                       *)

OwnInv(c) ==
  LET s == call[c]
      h == s.height
  IN
  s.pc \in SubmitPc =>
    /\ h \notin acked
    /\ \A d \in Call : d # c /\ call[d].pc \in SubmitPc => call[d].height # h
    /\ IsInjective(batch[h]) =>
         /\ IsInjective(s.todo)
         /\ \A b \in ToSet(s.todo) :
              b # Head(s.todo) \/ s.pc = "setBlob" => blobData[h][b] = Nil

\* The steps that write to a blob, and what they write.
LEMMA DataMoves ==
  ASSUME IInv, NEW c \in Call, Begin(c) \/ Step(c) \/ Fault(c) \/ Finish(c),
         NEW h \in Height, NEW b \in Blob, blobData'[h][b] # blobData[h][b]
  PROVE  /\ h = call[c].height /\ b = Head(call[c].todo)
         /\ \/ SetBlob(c)
            \/ IndexBlob(c) /\ blobData[h][b] # Nil /\ blobData'[h][b] = call[c].next
<1>1. blobData \in [Height -> [Blob -> Nat \cup {NoIndex, Nil}]]
  BY DEF IInv, TypeOK
<1> DEFINE g == call[c].height
           d == Head(call[c].todo)
           i == IF blobData[g][d] = Nil THEN Nil ELSE call[c].next
<1>2. CASE SetBlob(c)
  <2>1. blobData' = [blobData EXCEPT ![g][d] = ClientIndex[d]]
    BY <1>2 DEF SetBlob
  <2> HIDE DEF g, d
  <2>2. h = g /\ b = d
    BY <1>1, <2>1
  <2> QED BY <1>2, <2>2 DEF g, d
<1>3. CASE IndexBlob(c)
  <2>1. blobData' = [blobData EXCEPT ![g][d] = i]
    BY <1>3 DEF IndexBlob
  <2> HIDE DEF g, d, i
  <2>2. h = g /\ b = d /\ blobData'[h][b] = i
    BY <1>1, <2>1
  <2>3. i = IF blobData[h][b] = Nil THEN Nil ELSE call[c].next
    BY <2>2 DEF i
  <2> QED BY <1>3, <2>2, <2>3 DEF g, d
<1>4. CASE ~ SetBlob(c) /\ ~ IndexBlob(c)
  <2>1. UNCHANGED blobData
    BY <1>4
       DEF Begin, Step, Fault, Finish, SubmitNothing, AssignHeight, GetEds, GetBlob,
           GetAll, AddMember, SetCommitment, TrackNamespace, EdsHeightNotFound,
           ReadEds, ReadNamespaces, ReadMembers, PanicFromOds, StoreEds, MapIndex,
           ReturnEds, ReadCommitment, ReadBlob, RereadBlob, FailRead, FailWrite,
           LoseWrite, redisVars
  <2> QED BY <2>1
<1> QED BY <1>2, <1>3, <1>4

\* A call that is storing once the step is over is at the blob it was at, or has
\* gone on to the next one.
LEMMA SubmitMoves ==
  ASSUME LedgerInv, NEW c \in Call, Begin(c) \/ Step(c) \/ Fault(c) \/ Finish(c),
         \A blobs \in Request : ~ AssignHeight(c, blobs), call'[c].pc \in SubmitPc
  PROVE  /\ call[c].pc \in SubmitPc /\ call'[c].height = call[c].height
         /\ UNCHANGED <<acked, batch>>
         /\ \/ /\ call'[c].todo = call[c].todo
               /\ call'[c].pc = "setBlob" => call[c].pc = "setBlob" /\ UNCHANGED blobData
            \/ call'[c].todo = Tail(call[c].todo) /\ UNCHANGED blobData
<1>1. IInv /\ call \in [Call -> CallState] /\ call[c] \in CallState
  BY DEF LedgerInv, IInv, TypeOK
<1>2. ASSUME NEW t, AfterWrite(c, t) PROVE call'[c] = t \/ call'[c].pc = "done"
  <2> DEFINE e == Ended(call[c], "redisError")
  <2>1. e.pc = "done"
    BY <1>1, EndedKeeps
  <2> HIDE DEF e
  <2>2. call' = [call EXCEPT ![c] = e] \/ call' = [call EXCEPT ![c] = t]
    BY <1>2 DEF AfterWrite, e
  <2> QED BY <1>1, <2>1, <2>2
<1>3. call'[c].pc # "done"
  BY DEF SubmitPc
<1>4. CASE SetBlob(c) \/ AddMember(c) \/ SetCommitment(c)
  <2> DEFINE s == call[c]
             t1 == [s EXCEPT !.pc = "addMember"]
             t2 == [s EXCEPT !.pc = "setCommitment"]
             t3 == [s EXCEPT !.pc = "trackNamespace"]
  <2>1. PICK t \in {t1, t2, t3} : AfterWrite(c, t)
    BY <1>4 DEF SetBlob, AddMember, SetCommitment
  <2>2. t.pc # "setBlob" /\ t.height = s.height /\ t.todo = s.todo
    BY <1>1, <2>1 DEF CallState
  <2>3. s.pc \in SubmitPc /\ UNCHANGED <<acked, batch>>
    BY <1>4 DEF SetBlob, AddMember, SetCommitment, SubmitPc, historyVars
  <2> QED BY <1>2, <1>3, <2>1, <2>2, <2>3
<1>5. CASE TrackNamespace(c)
  <2> DEFINE s == call[c]
             rest == Tail(s.todo)
             next == [s EXCEPT !.pc = "setBlob", !.todo = rest]
             e == Ended(s, "ok")
  <2>1. /\ AfterWrite(c, IF rest = <<>> THEN e ELSE next)
        /\ acked' = IF rest = <<>> /\ ~ Abandoned(c) THEN acked \cup {s.height} ELSE acked
        /\ UNCHANGED <<batch, blobData>> /\ s.pc \in SubmitPc
    BY <1>5 DEF TrackNamespace, SubmitPc
  <2>2. e.pc = "done" /\ next.height = s.height /\ next.todo = rest
    BY <1>1, EndedKeeps DEF CallState
  <2> HIDE DEF e, next
  <2>3. call'[c] = IF rest = <<>> THEN e ELSE next
    BY <1>2, <1>3, <2>1
  <2>4. rest # <<>>
    BY <1>3, <2>2, <2>3
  <2>5. call'[c] = next /\ acked' = acked
    BY <2>1, <2>3, <2>4
  <2> QED BY <2>1, <2>2, <2>5
<1>6. CASE FailWrite(c)
  <2> DEFINE t == [call[c] EXCEPT !.out = "redisError"]
  <2>1. call' = [call EXCEPT ![c] = t] /\ UNCHANGED <<acked, batch, blobData>>
    BY <1>6 DEF FailWrite, redisVars
  <2>2. t.pc = call[c].pc /\ t.height = call[c].height /\ t.todo = call[c].todo
    BY <1>1 DEF CallState
  <2> HIDE DEF t
  <2>3. call'[c] = t
    BY <1>1, <2>1
  <2> QED BY <2>1, <2>2, <2>3
<1>7. CASE \/ SubmitNothing(c) \/ (\E h \in 0..MaxHeight : GetEds(c, h))
           \/ (\E h \in 0..MaxHeight, b \in Blob : GetBlob(c, h, b))
           \/ (\E h \in Height, nss \in NsList : GetAll(c, h, nss)) \/ Finish(c)
  <2>1. CASE SubmitNothing(c) \/ Finish(c)
    <3> DEFINE t == [Idle EXCEPT !.op = "submit", !.pc = "done", !.out = "ok"]
    <3>1. call' = [call EXCEPT ![c] = t] \/ call' = [call EXCEPT ![c] = Idle]
      BY <2>1 DEF SubmitNothing, Finish
    <3>2. t.pc = "done" /\ Idle.pc = "idle"
      BY DEF Idle
    <3> HIDE DEF t
    <3>3. call'[c].pc \in {"done", "idle"}
      BY <1>1, <3>1, <3>2
    <3> QED BY <3>3 DEF SubmitPc
  <2>2. ASSUME NEW h \in 0..MaxHeight, GetEds(c, h) \/ \E b \in Blob : GetBlob(c, h, b)
        PROVE  call'[c].pc = "eds"
    BY <1>1, <2>2 DEF GetEds, GetBlob, Idle
  <2>3. ASSUME NEW h \in Height, NEW nss \in NsList, GetAll(c, h, nss)
        PROVE  call'[c].pc \in {"done", "members"}
    BY <1>1, <2>3 DEF GetAll, Idle
  <2> QED BY <1>7, <2>1, <2>2, <2>3 DEF SubmitPc
<1>8. CASE ReadEds(c) \/ ReadCommitment(c) \/ ReadBlob(c) \/ RereadBlob(c)
  <2> DEFINE s == call[c]
             t == [s EXCEPT !.pc = "namespaces", !.square = <<>>]
             u == [s EXCEPT !.pc = "edsReturned", !.square = eds[s.height]]
             v == [s EXCEPT !.pc = "readBlob"]
             w == [s EXCEPT !.pc = "eds", !.retry = TRUE]
             x == [s EXCEPT !.index = blobData[s.height][s.target]]
  <2>1. \/ \E y \in {t, u, v, w} : call' = [call EXCEPT ![c] = y]
        \/ \E out : \E y \in {s, x} : call' = [call EXCEPT ![c] = Ended(y, out)]
    BY <1>8 DEF ReadEds, ReadCommitment, ReadBlob, RereadBlob
  <2>2. /\ t.pc = "namespaces" /\ u.pc = "edsReturned" /\ v.pc = "readBlob" /\ w.pc = "eds"
        /\ \A out : Ended(s, out).pc = "done" /\ Ended(x, out).pc = "done"
    BY <1>1 DEF CallState, Ended
  <2> HIDE DEF t, u, v, w, x
  <2>3. call'[c].pc \in {"namespaces", "edsReturned", "readBlob", "eds", "done"}
    BY <1>1, <2>1, <2>2
  <2> QED BY <2>3 DEF SubmitPc
<1>9. CASE EdsHeightNotFound(c) \/ PanicFromOds(c) \/ ReturnEds(c) \/ FailRead(c)
           \/ LoseWrite(c)
  <2>1. PICK out : call' = [call EXCEPT ![c] = Ended(call[c], out)]
    BY <1>9 DEF EdsHeightNotFound, PanicFromOds, ReturnEds, FailRead, LoseWrite
  <2>2. Ended(call[c], out).pc = "done"
    BY <1>1, EndedKeeps
  <2> QED BY <1>1, <1>3, <2>1, <2>2
<1>10. CASE ReadNamespaces(c) \/ ReadMembers(c)
  BY <1>1, <1>10, StepsThatList DEF SubmitPc
<1>11. CASE StoreEds(c) \/ IndexBlob(c) \/ MapIndex(c)
  <2> DEFINE s == call[c]
             p == IF s.square = <<>> THEN "edsReturned" ELSE "indexBlob"
             q == IF Tail(s.todo) = <<>> THEN "edsReturned" ELSE "indexBlob"
             t == [s EXCEPT !.todo = s.square, !.next = 1, !.pc = p]
             u == [s EXCEPT !.pc = "mapIndex"]
             v == [s EXCEPT !.todo = Tail(s.todo),
                            !.next = IF Tail(s.todo) = <<>> THEN 0
                                     ELSE @ + Shares[Head(s.todo)],
                            !.pc = q]
  <2>1. AfterWrite(c, t) \/ AfterWrite(c, u) \/ AfterWrite(c, v)
    BY <1>11 DEF StoreEds, IndexBlob, MapIndex
  <2>2. t.pc = p /\ u.pc = "mapIndex" /\ v.pc = q
    BY <1>1 DEF CallState
  <2>3. p \in {"edsReturned", "indexBlob"} /\ q \in {"edsReturned", "indexBlob"}
    OBVIOUS
  <2> HIDE DEF t, u, v, p, q
  <2>4. call'[c].pc \in {"edsReturned", "indexBlob", "mapIndex", "done"}
    BY <1>2, <2>1, <2>2, <2>3
  <2> QED BY <2>4 DEF SubmitPc
<1> QED
  BY <1>4, <1>5, <1>6, <1>7, <1>8, <1>9, <1>10, <1>11 DEF Begin, Step, Fault

LEMMA OwnInitially == Init => \A c \in Call : OwnInv(c)
BY DEF Init, Idle, OwnInv, SubmitPc

\* A submit that begins has a height that nobody else has, with nothing stored.
LEMMA AssignHeightOwns ==
  ASSUME SInv, NEW c \in Call, NEW blobs \in Request, AssignHeight(c, blobs)
  PROVE  OwnInv(c)'
<1> DEFINE h == currentHeight + 1
           t == [Idle EXCEPT !.op = "submit", !.pc = "setBlob", !.height = h, !.todo = blobs]
<1>1. /\ IInv /\ AckedComplete /\ call \in [Call -> CallState] /\ batch \in [Height -> Seq(Blob)]
      /\ currentHeight \in 0..MaxHeight
  BY DEF SInv, AInv, LedgerInv, IInv, TypeOK
<1>2. /\ call' = [call EXCEPT ![c] = t] /\ batch' = [batch EXCEPT ![h] = blobs]
      /\ UNCHANGED <<acked, blobData>> /\ currentHeight < MaxHeight
  BY DEF AssignHeight, redisVars
<1>3. t.pc = "setBlob" /\ t.height = h /\ t.todo = blobs
  BY DEF Idle
<1> HIDE DEF t
<1>4. call'[c] = t /\ \A d \in Call : d # c => call'[d] = call[d]
  BY <1>1, <1>2
<1>5. h \in Height /\ h > currentHeight /\ currentHeight \in Nat /\ \A g \in Height : g \in Nat
  BY <1>1, <1>2, StoreAssumption DEF Height
<1>6. h \notin acked /\ ~ (h <= currentHeight)
  BY <1>1, <1>5 DEF AckedComplete
<1>7. ASSUME NEW d \in Call, d # c, call'[d].pc \in SubmitPc
      PROVE  call'[d].height # h
  <2>1. call[d].height <= currentHeight
    BY <1>1, <1>4, <1>7, SubmitPlace
  <2> QED BY <1>4, <1>6, <1>7, <2>1
<1>8. batch'[h] = blobs
  BY <1>1, <1>2, <1>5
<1>9. ASSUME NEW b \in ToSet(blobs) PROVE blobData'[h][b] = Nil
  <2>1. b \in Blob
    BY StoreAssumption DEF ToSet
  <2> QED BY <1>1, <1>2, <1>5, <2>1 DEF IInv, NothingAboveCurrentHeight
<1> HIDE DEF h
<1> QED BY <1>2, <1>3, <1>4, <1>6, <1>7, <1>8, <1>9 DEF OwnInv

\* And it keeps it, blob after blob.
LEMMA SubmitOwns ==
  ASSUME SInv, NEW c \in Call, OwnInv(c), Begin(c) \/ Step(c) \/ Fault(c) \/ Finish(c),
         \A blobs \in Request : ~ AssignHeight(c, blobs)
  PROVE  OwnInv(c)'
<1> SUFFICES ASSUME call'[c].pc \in SubmitPc PROVE OwnInv(c)'
  BY DEF OwnInv
<1> DEFINE h == call[c].height
           v == call[c].todo
           w == call'[c].todo
<1>1. IInv /\ LedgerInv
  BY DEF SInv, AInv, LedgerInv
<1>2. /\ call[c].pc \in SubmitPc /\ call'[c].height = h
      /\ UNCHANGED <<acked, batch>>
      /\ \/ /\ w = v
            /\ call'[c].pc = "setBlob" => call[c].pc = "setBlob" /\ UNCHANGED blobData
         \/ w = Tail(v) /\ UNCHANGED blobData
  BY <1>1, SubmitMoves
<1>3. h \in Height /\ v \in Seq(Blob) /\ v # <<>> /\ Head(v) \in Blob
  BY <1>1, <1>2, SubmitPlace
<1>4. \A d \in Call : d # c => call'[d] = call[d]
  BY <1>1, OneCallMoves
<1>5. h \notin acked /\ \A d \in Call : d # c /\ call[d].pc \in SubmitPc => call[d].height # h
  BY <1>2 DEF OwnInv
<1>6. ASSUME IsInjective(batch[h])
      PROVE  /\ IsInjective(w)
             /\ \A b \in ToSet(w) : b # Head(w) \/ call'[c].pc = "setBlob" => blobData'[h][b] = Nil
  <2>1. /\ IsInjective(v)
        /\ \A b \in ToSet(v) : b # Head(v) \/ call[c].pc = "setBlob" => blobData[h][b] = Nil
    BY <1>2, <1>6 DEF OwnInv
  <2>2. CASE w = v
    <3> SUFFICES ASSUME NEW b \in ToSet(v), b # Head(v) \/ call'[c].pc = "setBlob"
                 PROVE  blobData'[h][b] = Nil
      BY <2>1, <2>2
    <3>1. b \in Blob
      BY <1>3 DEF ToSet
    <3>2. CASE b # Head(v)
      <4>1. blobData'[h][b] = blobData[h][b]
        BY <1>1, <1>3, <3>1, <3>2, DataMoves
      <4> QED BY <2>1, <3>2, <4>1
    <3>3. CASE b = Head(v)
      <4>1. v # Tail(v)
        <5>1. Len(v) \in Nat /\ Len(Tail(v)) = Len(v) - 1
          BY <1>3
        <5>2. Len(Tail(v)) # Len(v)
          BY <5>1
        <5> QED BY <5>2
      <4>2. call[c].pc = "setBlob" /\ UNCHANGED blobData
        BY <1>2, <2>2, <3>3, <4>1
      <4> QED BY <2>1, <4>2
    <3> QED BY <3>2, <3>3
  <2>3. CASE w = Tail(v) /\ UNCHANGED blobData
    <3>1. IsInjective(w) /\ Head(v) \notin ToSet(w)
      BY <1>3, <2>1, <2>3, InjectiveTail
    <3>2. ToSet(w) \subseteq ToSet(v)
      BY <1>3, <2>3, HeadAndTail
    <3> QED BY <2>1, <2>3, <3>1, <3>2
  <2> QED BY <1>2, <2>2, <2>3
<1>7. \A d \in Call : d # c /\ call'[d].pc \in SubmitPc => call'[d].height # h
  BY <1>4, <1>5
<1>8. h \notin acked' /\ (IsInjective(batch'[h]) => IsInjective(batch[h]))
  BY <1>2, <1>5
<1> QED BY <1>2, <1>6, <1>7, <1>8 DEF OwnInv

\* The others do not touch it.
LEMMA OthersOwn ==
  ASSUME SInv, \A e \in Call : OwnInv(e), NEW c \in Call,
         Begin(c) \/ Step(c) \/ Fault(c) \/ Finish(c), NEW d \in Call, d # c
  PROVE  OwnInv(d)'
<1>1. IInv /\ LedgerInv /\ SquaresStay /\ AckedComplete /\ currentHeight \in Nat
  BY StepsKeepSquares, StoreAssumption DEF SInv, AInv, LedgerInv, IInv, TypeOK
<1>2. \A e \in Call : e # c => call'[e] = call[e]
  BY <1>1, OneCallMoves
<1> SUFFICES ASSUME call[d].pc \in SubmitPc PROVE OwnInv(d)'
  BY <1>2 DEF OwnInv
<1> DEFINE h == call[d].height
           v == call[d].todo
<1>3. /\ h \in Height /\ h <= currentHeight /\ v \in Seq(Blob)
      /\ h \notin acked /\ \A e \in Call : e # d /\ call[e].pc \in SubmitPc => call[e].height # h
  BY <1>1, SubmitPlace DEF OwnInv
<1>4. call[c].pc \in SubmitPc => call[c].height # h
  BY <1>3
<1>5. h \notin acked'
  <2>1. CASE TrackNamespace(c)
    <3>1. acked' \subseteq acked \cup {call[c].height} /\ call[c].pc \in SubmitPc
      BY <2>1 DEF TrackNamespace, SubmitPc
    <3> QED BY <1>3, <1>4, <3>1
  <2>2. CASE ~ TrackNamespace(c)
    <3>1. UNCHANGED acked
      BY <2>2
         DEF Begin, Step, Fault, Finish, SubmitNothing, AssignHeight, GetEds, GetBlob,
             GetAll, SetBlob, AddMember, SetCommitment, EdsHeightNotFound, ReadEds,
             ReadNamespaces, ReadMembers, PanicFromOds, StoreEds, IndexBlob, MapIndex,
             ReturnEds, ReadCommitment, ReadBlob, RereadBlob, FailRead, FailWrite,
             LoseWrite, historyVars
    <3> QED BY <1>3, <3>1
  <2> QED BY <2>1, <2>2
<1>6. ASSUME call'[c].pc \in SubmitPc PROVE call'[c].height # h
  <2>1. CASE \E blobs \in Request : AssignHeight(c, blobs)
    <3> DEFINE t(blobs) == [Idle EXCEPT !.op = "submit", !.pc = "setBlob",
                                        !.height = currentHeight + 1, !.todo = blobs]
    <3>1. PICK blobs : call' = [call EXCEPT ![c] = t(blobs)]
      BY <2>1 DEF AssignHeight
    <3>2. t(blobs).height = currentHeight + 1
      BY DEF Idle
    <3> HIDE DEF t
    <3>3. call'[c].height = currentHeight + 1
      BY <1>1, <3>1, <3>2 DEF IInv, TypeOK
    <3>4. h \in Nat /\ h < currentHeight + 1
      BY <1>1, <1>3 DEF Height
    <3> QED BY <3>3, <3>4
  <2>2. CASE \A blobs \in Request : ~ AssignHeight(c, blobs)
    BY <1>1, <1>4, <1>6, <2>2, SubmitMoves
  <2> QED BY <2>1, <2>2
<1>7. \A e \in Call : e # d /\ call'[e].pc \in SubmitPc => call'[e].height # h
  BY <1>2, <1>3, <1>6
<1>8. batch'[h] = batch[h] /\ call'[d] = call[d]
  BY <1>1, <1>2, <1>3 DEF SquaresStay
<1>9. ASSUME NEW b \in ToSet(v), blobData[h][b] = Nil PROVE blobData'[h][b] = Nil
  <2>1. b \in Blob
    BY <1>3 DEF ToSet
  <2>2. SetBlob(c) => call[c].pc \in SubmitPc
    BY DEF SetBlob, SubmitPc
  <2> QED BY <1>1, <1>3, <1>4, <1>9, <2>1, <2>2, DataMoves
<1>10. IsInjective(batch[h]) =>
         /\ IsInjective(v)
         /\ \A b \in ToSet(v) : b # Head(v) \/ call[d].pc = "setBlob" => blobData[h][b] = Nil
  BY DEF OwnInv
<1> QED BY <1>5, <1>7, <1>8, <1>9, <1>10 DEF OwnInv

\* Only the SET of a submit in progress takes an index away, and of a vector
\* without repetition not even that.
LEMMA NoIndexIsTaken ==
  ASSUME SInv, NEW c \in Call, OwnInv(c), Begin(c) \/ Step(c) \/ Fault(c) \/ Finish(c),
         NEW h \in Height, NEW b \in Blob,
         blobData[h][b] \in Nat, blobData'[h][b] \notin Nat
  PROVE  h \notin acked /\ ~ IsInjective(batch[h])
<1>1. IInv
  BY DEF SInv, AInv, LedgerInv
<1>2. /\ h = call[c].height /\ b = Head(call[c].todo)
      /\ \/ SetBlob(c)
         \/ IndexBlob(c) /\ blobData[h][b] # Nil /\ blobData'[h][b] = call[c].next
  BY <1>1, DataMoves
<1>3. SetBlob(c)
  <2>1. CASE IndexBlob(c)
    <3>1. call[c].next \in Nat
      BY <1>1, <2>1, IndexPlace DEF IndexBlob
    <3>2. ~ SetBlob(c)
      BY <2>1 DEF IndexBlob, SetBlob
    <3> QED BY <1>2, <3>1, <3>2
  <2> QED BY <1>2, <2>1
<1>4. call[c].pc = "setBlob" /\ call[c].pc \in SubmitPc
  BY <1>3 DEF SetBlob, SubmitPc
<1>5. call[c].todo \in Seq(Blob) /\ call[c].todo # <<>>
  BY <1>1, <1>4, SubmitPlace
<1>6. b \in ToSet(call[c].todo)
  BY <1>2, <1>5, HeadAndTail
<1>7. blobData[h][b] # Nil
  BY StoreAssumption
<1> QED BY <1>2, <1>4, <1>6, <1>7 DEF OwnInv

-----------------------------------------------------------------------------
(* Squares that are indexed to the end.                                    *)
(*                                                                         *)
(* Of a height that no builder was early for, every square has the same    *)
(* blobs, so that each builder indexes what all the others do: the blobs   *)
(* it has behind it are placed (BuilderInv), and when it leaves its square *)
(* without having been given up on, all are (IndexedInv).                  *)

\* The index in the blob is its place in a square that was cached.
Kept(h, b) == Position(layouts[h], b, blobData[h][b])

\* It is written beside the blob, too.
Placed(h, b) == Kept(h, b) /\ blobIndex[h][b] # Nil

ToIndex(h) == Submitted(h) \ Unshareable

BuilderInv(c) ==
  LET s == call[c]
      h == s.height
  IN
  /\ s.pc # "done" =>
       \/ s.out = "pending"
       \/ s.out = "redisError" /\ s.pc \in WritePc /\ (s.pc \in BuildPc => h \in cut)
  /\ s.pc = "readBlob" => layouts[h] # {}
  /\ s.pc \in IndexingPc /\ h \notin early =>
       /\ \A b \in ToIndex(h) : b \in ToSet(s.todo) \/ Placed(h, b)
       /\ s.pc = "mapIndex" => Kept(h, Head(s.todo))

IndexedInv ==
  \A h \in Height \ (early \cup cut) :
     layouts[h] # {} /\ ~ Indexing(h) => \A b \in ToIndex(h) : Placed(h, b)

QInv == PInv /\ IndexedInv /\ \A c \in Call : OwnInv(c) /\ BuilderInv(c)

\* A height with a square that no builder was early for has been answered.
LEMMA SquaresOfAnswered ==
  ASSUME SInv, NEW h \in Height, h \notin early, layouts[h] # {}
  PROVE  h \in acked /\ h <= currentHeight
<1>1. PICK l : l \in layouts[h]
  OBVIOUS
<1>2. Complete(h, l, {})
  BY <1>1 DEF SInv, LayoutInv
<1>3. h \in acked
  BY <1>2 DEF Complete
<1> QED BY <1>3 DEF SInv, AInv, AckedComplete

LEMMA IndexingHasASquare ==
  ASSUME SInv, NEW c \in Call, call[c].pc \in IndexingPc
  PROVE  call[c].height \in Height /\ layouts[call[c].height] # {}
<1>1. call[c].square \in layouts[call[c].height]
  BY DEF SInv, SquareInv, IndexingPc
<1>2. call[c].height \in Height
  BY SquarePlace DEF SInv, AInv, LedgerInv, IndexingPc
<1> QED BY <1>1, <1>2

\* Once a height has been answered, an index in a blob is replaced by another
\* only.
LEMMA KeptStays ==
  ASSUME PInv, NEW c \in Call, OwnInv(c), Begin(c) \/ Step(c) \/ Fault(c) \/ Finish(c),
         NEW h \in Height, h \in acked, NEW b \in Blob, Kept(h, b)
  PROVE  Kept(h, b)'
<1>1. IInv /\ SInv /\ SquaresStay
  BY StepsKeepSquares DEF PInv, SInv, AInv, LedgerInv
<1>2. CASE blobData'[h][b] = blobData[h][b]
  <2>1. Position(layouts'[h], b, blobData[h][b])
    BY <1>1, PositionStays DEF Kept
  <2> QED BY <1>2, <2>1 DEF Kept
<1>3. CASE blobData'[h][b] # blobData[h][b]
  <2>1. /\ h = call[c].height /\ b = Head(call[c].todo)
        /\ \/ SetBlob(c)
           \/ IndexBlob(c) /\ blobData[h][b] # Nil /\ blobData'[h][b] = call[c].next
    BY <1>1, <1>3, DataMoves
  <2>2. ~ SetBlob(c)
    BY <2>1 DEF OwnInv, SetBlob, SubmitPc
  <2>3. call[c].pc \in IndexingPc
    BY <2>1, <2>2 DEF IndexBlob, IndexingPc
  <2>4. Position(layouts[h], b, call[c].next)
    BY <1>1, <2>1, <2>3, IndexingPositions DEF PInv
  <2>5. Position(layouts'[h], b, call[c].next)
    BY <1>1, <2>4, PositionStays
  <2> QED BY <2>1, <2>2, <2>5 DEF Kept
<1> QED BY <1>2, <1>3

\* So does an index beside it.
LEMMA PlacedStays ==
  ASSUME PInv, NEW c \in Call, OwnInv(c), Begin(c) \/ Step(c) \/ Fault(c) \/ Finish(c),
         NEW h \in Height, h \in acked, NEW b \in Blob, Placed(h, b)
  PROVE  Placed(h, b)'
<1>1. IInv
  BY DEF PInv, SInv, AInv, LedgerInv
<1>2. Kept(h, b)'
  BY KeptStays DEF Placed
<1>3. blobIndex \in [Height -> [Blob -> Nat \cup {Nil}]] /\ blobIndex[h][b] # Nil
  BY <1>1 DEF IInv, TypeOK, Placed
<1>4. blobIndex'[h][b] # Nil
  <2>1. CASE MapIndex(c)
    <3> DEFINE g == call[c].height
               d == Head(call[c].todo)
               n == call[c].next
    <3>1. n \in Nat
      BY <1>1, <2>1, IndexPlace DEF MapIndex
    <3>2. blobIndex' = [blobIndex EXCEPT ![g][d] = n]
      BY <2>1 DEF MapIndex
    <3> HIDE DEF g, d, n
    <3>3. blobIndex'[h][b] \in {blobIndex[h][b], n}
      BY <1>3, <3>2
    <3> QED BY <1>3, <3>1, <3>3, StoreAssumption
  <2>2. CASE ~ MapIndex(c)
    <3>1. UNCHANGED blobIndex
      BY <2>2
         DEF Begin, Step, Fault, Finish, SubmitNothing, AssignHeight, GetEds, GetBlob,
             GetAll, SetBlob, AddMember, SetCommitment, TrackNamespace,
             EdsHeightNotFound, ReadEds, ReadNamespaces, ReadMembers, PanicFromOds,
             StoreEds, IndexBlob, ReturnEds, ReadCommitment, ReadBlob, RereadBlob,
             FailRead, FailWrite, LoseWrite, redisVars
    <3> QED BY <1>3, <3>1
  <2> QED BY <2>1, <2>2
<1> QED BY <1>2, <1>4 DEF Placed

\* Nothing of this step is about an index that a client asked for, and a call
\* that had given up on a write is over.
Usual(s, t) ==
  /\ t.pc # "readBlob"
  /\ t.retry => s.retry
  /\ t.out = "indexNotSet" => s.out = "indexNotSet"
  /\ \/ t.pc = "done" \/ t.out = "pending"
     \/ t.out = s.out /\ s.pc # "done" /\ ~ (s.out = "redisError" /\ s.pc \in WritePc)

LEMMA UsualEnds ==
  ASSUME NEW s \in CallState, NEW out, out # "indexNotSet"
  PROVE  Usual(s, Ended(s, out))
BY DEF Usual, Ended, CallState

\* A write goes on to t, or the call had given up on it.
LEMMA UsualWrites ==
  ASSUME IInv, NEW c \in Call, call[c].pc \in WritePc, NEW t, AfterWrite(c, t),
         t.pc # "readBlob", t.retry = call[c].retry, t.out = call[c].out
  PROVE  Usual(call[c], call'[c])
<1>1. call \in [Call -> CallState] /\ call[c] \in CallState
  BY DEF IInv, TypeOK
<1>2. CASE Abandoned(c)
  <2> DEFINE e == Ended(call[c], "redisError")
  <2>1. call' = [call EXCEPT ![c] = e]
    BY <1>2 DEF AfterWrite
  <2>2. Usual(call[c], e)
    BY <1>1, UsualEnds
  <2> HIDE DEF e
  <2>3. call'[c] = e
    BY <1>1, <2>1
  <2> QED BY <2>2, <2>3
<1>3. CASE ~ Abandoned(c)
  <2>1. call'[c] = t
    BY <1>1, <1>3 DEF AfterWrite
  <2>2. call[c].pc # "done"
    BY DEF WritePc, SubmitPc, BuildPc
  <2> QED BY <1>3, <2>1, <2>2 DEF Usual, Abandoned
<1> QED BY <1>2, <1>3

\* All steps but these are of the usual kind.
LEMMA UsualSteps ==
  ASSUME IInv, NEW c \in Call, Begin(c) \/ Step(c) \/ Fault(c) \/ Finish(c),
         ~ ReadCommitment(c), ~ ReadBlob(c), ~ RereadBlob(c), ~ FailWrite(c)
  PROVE  Usual(call[c], call'[c])
<1>1. call \in [Call -> CallState] /\ call[c] \in CallState
  BY DEF IInv, TypeOK
<1> DEFINE s == call[c]
<1>2. ASSUME NEW t, call' = [call EXCEPT ![c] = t], Usual(s, t)
      PROVE  Usual(s, call'[c])
  <2>1. call'[c] = t
    BY <1>1, <1>2
  <2> QED BY <1>2, <2>1
<1>3. ASSUME NEW t, call' = [call EXCEPT ![c] = t], ~ t.retry, t.out \in {"pending", "ok"},
             t.pc # "readBlob", t.pc = "done" \/ t.out = "pending"
      PROVE  Usual(s, call'[c])
  BY <1>2, <1>3 DEF Usual
<1>4. CASE Begin(c) \/ Finish(c)
  <2>1. CASE SubmitNothing(c)
    <3> DEFINE t == [Idle EXCEPT !.op = "submit", !.pc = "done", !.out = "ok"]
    <3>1. call' = [call EXCEPT ![c] = t] /\ ~ t.retry /\ t.out = "ok" /\ t.pc = "done"
      BY <2>1 DEF SubmitNothing, Idle
    <3> HIDE DEF t
    <3> QED BY <1>3, <3>1
  <2>2. ASSUME NEW blobs \in Request, AssignHeight(c, blobs) PROVE Usual(s, call'[c])
    <3> DEFINE t == [Idle EXCEPT !.op = "submit", !.pc = "setBlob",
                                 !.height = currentHeight + 1, !.todo = blobs]
    <3>1. /\ call' = [call EXCEPT ![c] = t] /\ ~ t.retry
          /\ t.out = "pending" /\ t.pc = "setBlob"
      BY <2>2 DEF AssignHeight, Idle
    <3> HIDE DEF t
    <3> QED BY <1>3, <3>1
  <2>3. ASSUME NEW h \in 0..MaxHeight, GetEds(c, h) PROVE Usual(s, call'[c])
    <3> DEFINE t == [Idle EXCEPT !.op = "eds", !.pc = "eds", !.height = h,
                                 !.knew = h \in acked]
    <3>1. call' = [call EXCEPT ![c] = t] /\ ~ t.retry /\ t.out = "pending" /\ t.pc = "eds"
      BY <2>3 DEF GetEds, Idle
    <3> HIDE DEF t
    <3> QED BY <1>3, <3>1
  <2>4. ASSUME NEW h \in 0..MaxHeight, NEW b \in Blob, GetBlob(c, h, b)
        PROVE  Usual(s, call'[c])
    <3> DEFINE t == [Idle EXCEPT !.op = "get", !.pc = "eds", !.height = h, !.target = b,
                                 !.knew = h \in acked]
    <3>1. call' = [call EXCEPT ![c] = t] /\ ~ t.retry /\ t.out = "pending" /\ t.pc = "eds"
      BY <2>4 DEF GetBlob, Idle
    <3> HIDE DEF t
    <3> QED BY <1>3, <3>1
  <2>5. ASSUME NEW h \in Height, NEW nss \in NsList, GetAll(c, h, nss)
        PROVE  Usual(s, call'[c])
    <3> DEFINE p == IF nss = <<>> THEN "done" ELSE "members"
               o == IF nss = <<>> THEN "ok" ELSE "pending"
               t == [Idle EXCEPT !.op = "getAll", !.height = h, !.nss = nss, !.pc = p,
                                 !.out = o, !.asked = ToSet(nss), !.knew = h \in acked]
    <3>1. call' = [call EXCEPT ![c] = t]
      BY <2>5 DEF GetAll
    <3>2. /\ p # "readBlob" /\ (p = "done" \/ o = "pending") /\ o \in {"pending", "ok"}
      OBVIOUS
    <3> HIDE DEF p, o
    <3>3. ~ t.retry /\ t.out = o /\ t.pc = p
      BY DEF Idle
    <3> HIDE DEF t
    <3> QED BY <1>3, <3>1, <3>2, <3>3
  <2>6. CASE Finish(c)
    <3>1. call' = [call EXCEPT ![c] = Idle] /\ ~ Idle.retry /\ Idle.out = "pending"
          /\ Idle.pc = "idle"
      BY <2>6 DEF Finish, Idle
    <3> HIDE DEF Idle
    <3> QED BY <1>3, <3>1
  <2> QED BY <1>4, <2>1, <2>2, <2>3, <2>4, <2>5, <2>6 DEF Begin
<1>5. CASE SetBlob(c) \/ AddMember(c) \/ SetCommitment(c)
  <2> DEFINE t1 == [s EXCEPT !.pc = "addMember"]
             t2 == [s EXCEPT !.pc = "setCommitment"]
             t3 == [s EXCEPT !.pc = "trackNamespace"]
  <2>1. PICK t \in {t1, t2, t3} : AfterWrite(c, t)
    BY <1>5 DEF SetBlob, AddMember, SetCommitment
  <2>2. t.pc # "readBlob" /\ t.retry = s.retry /\ t.out = s.out
    BY <1>1, <2>1 DEF CallState
  <2>3. s.pc \in WritePc
    BY <1>5 DEF SetBlob, AddMember, SetCommitment, WritePc, SubmitPc
  <2> QED BY <2>1, <2>2, <2>3, UsualWrites
<1>6. CASE TrackNamespace(c)
  <2> DEFINE rest == Tail(s.todo)
             next == [s EXCEPT !.pc = "setBlob", !.todo = rest]
             e == Ended(s, "ok")
  <2>1. AfterWrite(c, IF rest = <<>> THEN e ELSE next) /\ s.pc \in WritePc
    BY <1>6 DEF TrackNamespace, WritePc, SubmitPc
  <2>2. next.pc # "readBlob" /\ next.retry = s.retry /\ next.out = s.out
    BY <1>1 DEF CallState
  <2>3. Usual(s, e)
    BY <1>1, UsualEnds
  <2> HIDE DEF e, next
  <2>4. CASE rest # <<>>
    BY <2>1, <2>2, <2>4, UsualWrites
  <2>5. CASE rest = <<>> /\ ~ Abandoned(c)
    <3>1. call' = [call EXCEPT ![c] = e]
      BY <2>1, <2>5 DEF AfterWrite
    <3> QED BY <1>2, <2>3, <3>1
  <2>6. CASE Abandoned(c)
    <3>1. call' = [call EXCEPT ![c] = Ended(s, "redisError")]
      BY <2>1, <2>6 DEF AfterWrite
    <3> QED BY <1>1, <1>2, <3>1, UsualEnds
  <2> QED BY <2>4, <2>5, <2>6
<1>7. CASE StoreEds(c) \/ IndexBlob(c) \/ MapIndex(c)
  <2> DEFINE p == IF s.square = <<>> THEN "edsReturned" ELSE "indexBlob"
             q == IF Tail(s.todo) = <<>> THEN "edsReturned" ELSE "indexBlob"
             t == [s EXCEPT !.todo = s.square, !.next = 1, !.pc = p]
             u == [s EXCEPT !.pc = "mapIndex"]
             v == [s EXCEPT !.todo = Tail(s.todo),
                            !.next = IF Tail(s.todo) = <<>> THEN 0
                                     ELSE @ + Shares[Head(s.todo)],
                            !.pc = q]
  <2>1. PICK w \in {t, u, v} : AfterWrite(c, w)
    BY <1>7 DEF StoreEds, IndexBlob, MapIndex
  <2>2. p # "readBlob" /\ q # "readBlob"
    OBVIOUS
  <2> HIDE DEF p, q
  <2>3. /\ t.pc = p /\ u.pc = "mapIndex" /\ v.pc = q
        /\ t.retry = s.retry /\ u.retry = s.retry /\ v.retry = s.retry
        /\ t.out = s.out /\ u.out = s.out /\ v.out = s.out
    BY <1>1 DEF CallState
  <2> HIDE DEF t, u, v
  <2>4. s.pc \in WritePc
    BY <1>7 DEF StoreEds, IndexBlob, MapIndex, WritePc, BuildPc
  <2> QED BY <2>1, <2>2, <2>3, <2>4, UsualWrites
<1>8. CASE EdsHeightNotFound(c) \/ PanicFromOds(c) \/ ReturnEds(c) \/ FailRead(c)
           \/ LoseWrite(c)
  <2>1. PICK out \in {"headerNotFound", "panic", "ok", "redisError"} :
          call' = [call EXCEPT ![c] = Ended(s, out)]
    BY <1>8 DEF EdsHeightNotFound, PanicFromOds, ReturnEds, FailRead, LoseWrite
  <2> QED BY <1>1, <1>2, <2>1, UsualEnds
<1>9. CASE ReadEds(c) \/ ReadNamespaces(c) \/ ReadMembers(c)
  <2>1. s.pc \in {"eds", "namespaces", "members"}
    BY <1>9 DEF ReadEds, ReadNamespaces, ReadMembers
  <2>2. s.pc # "done" /\ s.pc \notin WritePc
    BY <2>1 DEF WritePc, SubmitPc, BuildPc
  <2>3. ASSUME NEW t, call' = [call EXCEPT ![c] = t], t.pc # "readBlob",
               t.retry = s.retry, t.out = s.out
        PROVE  Usual(s, call'[c])
    BY <1>2, <2>2, <2>3 DEF Usual
  <2>4. CASE ReadEds(c)
    <3> DEFINE t == [s EXCEPT !.pc = "namespaces", !.square = <<>>]
               u == [s EXCEPT !.pc = "edsReturned", !.square = eds[s.height]]
    <3>1. PICK w \in {t, u} : call' = [call EXCEPT ![c] = w]
      BY <2>4 DEF ReadEds
    <3>2. w.pc # "readBlob" /\ w.retry = s.retry /\ w.out = s.out
      BY <1>1, <3>1 DEF CallState
    <3> QED BY <2>3, <3>1, <3>2
  <2>5. CASE ReadNamespaces(c)
    <3> DEFINE p(reply) == IF reply = <<>> THEN "storeEds" ELSE "members"
               t(reply) == [s EXCEPT !.nss = reply, !.pc = p(reply)]
    <3>1. PICK reply : call' = [call EXCEPT ![c] = t(reply)]
      BY <2>5 DEF ReadNamespaces
    <3>2. /\ t(reply).pc \in {"storeEds", "members"}
          /\ t(reply).retry = s.retry /\ t(reply).out = s.out
      BY <1>1 DEF CallState
    <3> QED BY <2>3, <3>1, <3>2
  <2>6. CASE ReadMembers(c)
    <3> DEFINE u(reply) == [s EXCEPT !.nss = Tail(s.nss), !.square = @ \o reply]
               v(reply) == [u(reply) EXCEPT !.pc = "storeEds"]
               e(reply) == Ended(u(reply), "ok")
    <3>1. PICK reply : \/ call' = [call EXCEPT ![c] = u(reply)]
                       \/ call' = [call EXCEPT ![c] = e(reply)]
                       \/ call' = [call EXCEPT ![c] = v(reply)]
      BY <2>6 DEF ReadMembers
    <3>2. /\ u(reply).pc = s.pc /\ u(reply).retry = s.retry /\ u(reply).out = s.out
          /\ v(reply).pc = "storeEds" /\ v(reply).retry = s.retry /\ v(reply).out = s.out
          /\ e(reply).pc = "done" /\ e(reply).retry = s.retry /\ e(reply).out = "ok"
      BY <1>1 DEF CallState, Ended
    <3> HIDE DEF u, v, e
    <3>3. Usual(s, e(reply))
      BY <3>2 DEF Usual
    <3> QED BY <1>2, <2>1, <2>3, <3>1, <3>2, <3>3
  <2> QED BY <1>9, <2>4, <2>5, <2>6
<1> QED BY <1>4, <1>5, <1>6, <1>7, <1>8, <1>9 DEF Step, Fault

\* The submit of an answered height stays what it was.
LEMMA ToIndexStays ==
  ASSUME IInv, AckedComplete, NEW c \in Call, Begin(c) \/ Step(c) \/ Fault(c) \/ Finish(c),
         NEW h \in Height, h \in acked
  PROVE  ToIndex(h)' = ToIndex(h) /\ ToIndex(h) \subseteq Blob
<1>1. batch'[h] = batch[h]
  BY StepsKeepSquares DEF AckedComplete, SquaresStay
<1>2. batch[h] \in Seq(Blob)
  BY DEF IInv, TypeOK
<1> QED BY <1>1, <1>2 DEF ToIndex, Submitted, ToSet

\* Builders that are given up on stay so.
LEMMA CutStays ==
  ASSUME NEW c \in Call, Begin(c) \/ Step(c) \/ Fault(c) \/ Finish(c)
  PROVE  cut \subseteq cut'
<1>1. CASE FailWrite(c)
  <2>1. cut' = cut \/ cut' = cut \cup {call[c].height}
    BY <1>1 DEF FailWrite
  <2> QED BY <2>1
<1>2. CASE ~ FailWrite(c)
  <2>1. UNCHANGED cut
    BY <1>2
       DEF Begin, Step, Fault, Finish, SubmitNothing, AssignHeight, GetEds, GetBlob,
           GetAll, SetBlob, AddMember, SetCommitment, TrackNamespace, EdsHeightNotFound,
           ReadEds, ReadNamespaces, ReadMembers, PanicFromOds, StoreEds, IndexBlob,
           MapIndex, ReturnEds, ReadCommitment, ReadBlob, RereadBlob, FailRead,
           LoseWrite, historyVars
  <2> QED BY <2>1
<1> QED BY <1>1, <1>2

\* The first blob left to a builder has data.
LEMMA IndexedBlobIsStored ==
  ASSUME SInv, NEW c \in Call, IndexingInv(c), call[c].pc \in IndexingPc
  PROVE  blobData[call[c].height][Head(call[c].todo)] # Nil
<1>1. /\ call[c].height \in Height
      /\ Position(layouts[call[c].height], Head(call[c].todo), call[c].next)
  BY IndexingPositions
<1>2. PICK l \in layouts[call[c].height] : Head(call[c].todo) \in ToSet(l)
  BY <1>1 DEF Position
<1> QED BY <1>1, <1>2 DEF SInv, LayoutInv, Good

\* After its SET the blob has the index of a cached square.
LEMMA IndexBlobKeeps ==
  ASSUME PInv, NEW c \in Call, IndexBlob(c),
         NEW h, h = call[c].height, NEW b, b = Head(call[c].todo)
  PROVE  Kept(h, b)'
<1> DEFINE n == call[c].next
<1>1. IInv /\ SInv /\ SquaresStay /\ IndexingInv(c) /\ call[c].pc \in IndexingPc
  BY StepsKeepSquares DEF PInv, SInv, AInv, LedgerInv, Step, IndexBlob, IndexingPc
<1>2. /\ h \in Height /\ b \in Blob /\ Position(layouts[h], b, n) /\ blobData[h][b] # Nil
  BY <1>1, IndexingPositions, IndexedBlobIsStored
<1>3. blobData' = [blobData EXCEPT ![h][b] = IF @ = Nil THEN Nil ELSE n]
  BY DEF IndexBlob
<1>4. blobData \in [Height -> [Blob -> Nat \cup {NoIndex, Nil}]]
  BY <1>1 DEF IInv, TypeOK
<1> HIDE DEF n
<1>5. blobData'[h][b] = n
  BY <1>2, <1>3, <1>4
<1>6. Position(layouts'[h], b, n)
  BY <1>1, <1>2, PositionStays
<1> QED BY <1>5, <1>6 DEF Kept

\* After that of its start, it has that of the square beside it.
LEMMA MapIndexPlaces ==
  ASSUME PInv, NEW c \in Call, OwnInv(c), MapIndex(c), call[c].height \in acked,
         Kept(call[c].height, Head(call[c].todo)),
         NEW h, h = call[c].height, NEW b, b = Head(call[c].todo)
  PROVE  Placed(h, b)'
<1> DEFINE n == call[c].next
<1>1. IInv /\ call[c].pc \in {"indexBlob", "mapIndex"}
  BY DEF PInv, SInv, AInv, LedgerInv, MapIndex
<1>2. h \in Height /\ b \in Blob /\ n \in Nat
  BY <1>1, SquarePlace, IndexPlace
<1>3. blobIndex' = [blobIndex EXCEPT ![h][b] = n]
  BY DEF MapIndex
<1>4. blobIndex \in [Height -> [Blob -> Nat \cup {Nil}]]
  BY <1>1 DEF IInv, TypeOK
<1>5. Kept(h, b)'
  BY <1>2, KeptStays DEF Step
<1> HIDE DEF n
<1>6. blobIndex'[h][b] = n
  BY <1>2, <1>3, <1>4
<1>7. blobIndex'[h][b] # Nil
  BY <1>2, <1>6, StoreAssumption
<1> QED BY <1>5, <1>7 DEF Placed

\* A call that does not move.
LEMMA OtherBuilders ==
  ASSUME PInv, NEW c \in Call, OwnInv(c), Begin(c) \/ Step(c) \/ Fault(c) \/ Finish(c),
         NEW d \in Call, d # c, BuilderInv(d)
  PROVE  BuilderInv(d)'
<1> DEFINE s == call[d]
<1>1. IInv /\ SInv /\ SquaresStay /\ AckedComplete /\ cut \subseteq cut'
  BY StepsKeepSquares, CutStays DEF PInv, SInv, AInv, LedgerInv
<1>2. call'[d] = s
  BY <1>1, OneCallMoves
<1>3. s.pc # "done" =>
        \/ s.out = "pending"
        \/ s.out = "redisError" /\ s.pc \in WritePc /\ (s.pc \in BuildPc => s.height \in cut')
  BY <1>1 DEF BuilderInv
<1>4. ASSUME s.pc = "readBlob" PROVE layouts'[s.height] # {}
  <2>1. s.height \in Height
    BY <1>1, <1>4 DEF IInv, CallInv
  <2>2. layouts[s.height] # {}
    BY <1>4 DEF BuilderInv
  <2> QED BY <1>1, <2>1, <2>2 DEF SquaresStay
<1>5. ASSUME s.pc \in IndexingPc, s.height \notin early',
             NEW h, h = s.height, NEW todo, todo = s.todo
      PROVE  /\ \A b \in ToIndex(h)' : b \in ToSet(todo) \/ Placed(h, b)'
             /\ s.pc = "mapIndex" => Kept(h, Head(todo))'
  <2>1. h \in Height /\ layouts[h] # {} /\ h \notin early
    BY <1>1, <1>5, IndexingHasASquare DEF SquaresStay
  <2>2. h \in acked
    BY <1>1, <2>1, SquaresOfAnswered
  <2>3. ToIndex(h)' = ToIndex(h) /\ ToIndex(h) \subseteq Blob
    BY <1>1, <2>1, <2>2, ToIndexStays
  <2>4. /\ \A b \in ToIndex(h) : b \in ToSet(todo) \/ Placed(h, b)
        /\ s.pc = "mapIndex" => Kept(h, Head(todo))
    BY <1>5, <2>1 DEF BuilderInv
  <2>5. ASSUME NEW b \in ToIndex(h), b \notin ToSet(todo) PROVE Placed(h, b)'
    BY <2>1, <2>2, <2>3, <2>4, <2>5, PlacedStays
  <2>6. ASSUME s.pc = "mapIndex" PROVE Kept(h, Head(todo))'
    <3>1. Head(todo) \in Blob
      BY <1>1, <1>5, <2>6, IndexPlace
    <3> QED BY <2>1, <2>2, <2>4, <2>6, <3>1, KeptStays
  <2> QED BY <2>3, <2>5, <2>6
<1> HIDE DEF s
<1>6. PICK h, todo : h = s.height /\ todo = s.todo
  OBVIOUS
<1>7. s.pc \in IndexingPc /\ h \notin early' =>
        /\ \A b \in ToIndex(h)' : b \in ToSet(todo) \/ Placed(h, b)'
        /\ s.pc = "mapIndex" => Kept(h, Head(todo))'
  BY <1>5, <1>6
<1> QED BY <1>2, <1>3, <1>4, <1>6, <1>7 DEF BuilderInv

\* A builder that indexes does nothing else.
LEMMA IndexingMoves ==
  ASSUME NEW c \in Call, Begin(c) \/ Step(c) \/ Fault(c) \/ Finish(c),
         call[c].pc \in IndexingPc
  PROVE  IndexBlob(c) \/ MapIndex(c) \/ FailWrite(c) \/ LoseWrite(c)
BY DEF Begin, Step, Fault, Finish, SubmitNothing, AssignHeight, GetEds, GetBlob, GetAll,
       SetBlob, AddMember, SetCommitment, TrackNamespace, EdsHeightNotFound, ReadEds,
       ReadNamespaces, ReadMembers, PanicFromOds, StoreEds, ReturnEds, ReadCommitment,
       ReadBlob, RereadBlob, FailRead, ReadPc, IndexingPc

\* What a write does to a call that had not given up on it, where the call is
\* not over.
LEMMA WriteGoesOn ==
  ASSUME IInv, NEW c \in Call, NEW t, AfterWrite(c, t), call'[c].pc # "done"
  PROVE  call'[c] = t
<1> DEFINE e == Ended(call[c], "redisError")
<1>1. call \in [Call -> CallState] /\ call[c] \in CallState
  BY DEF IInv, TypeOK
<1>2. e.pc = "done"
  BY <1>1, EndedKeeps
<1>3. call' = [call EXCEPT ![c] = e] \/ call' = [call EXCEPT ![c] = t]
  BY DEF AfterWrite
<1> HIDE DEF e
<1> QED BY <1>1, <1>2, <1>3

\* What is cached has all there is to index.
LEMMA CachedIsToIndex ==
  ASSUME SInv, NEW c \in Call, StoreEds(c), call[c].height \notin early
  PROVE  /\ call[c].height \in Height /\ call[c].height \in acked
         /\ ToIndex(call[c].height) \subseteq ToSet(call[c].square)
<1>1. IInv /\ call[c].pc = "storeEds"
  BY DEF SInv, AInv, LedgerInv, StoreEds
<1>2. call[c].op # "getAll" /\ call[c].height \in Height
  BY <1>1, SquarePlace
<1>3. Built(call[c]) /\ call[c].nss = <<>>
  BY <1>1, <1>2 DEF SInv, SquareInv
<1>4. Complete(call[c].height, call[c].square, {})
  BY <1>3, NothingInTheEmptySequence DEF Built
<1> QED BY <1>2, <1>4 DEF Complete, ToIndex

\* A builder that goes on indexing has placed what it has behind it.
LEMMA BuilderGoesOn ==
  ASSUME PInv, NEW c \in Call, OwnInv(c), BuilderInv(c),
         StoreEds(c) \/ IndexBlob(c) \/ MapIndex(c) \/ FailWrite(c),
         call'[c].pc \in IndexingPc,
         NEW h, h = call'[c].height, h \notin early', NEW todo, todo = call'[c].todo
  PROVE  /\ \A b \in ToIndex(h)' : b \in ToSet(todo) \/ Placed(h, b)'
         /\ call'[c].pc = "mapIndex" => Kept(h, Head(todo))'
<1> DEFINE s == call[c]
<1>1. /\ IInv /\ SInv /\ SquaresStay /\ AckedComplete /\ call[c] \in CallState
      /\ call \in [Call -> CallState]
  BY StepsKeepSquares DEF PInv, SInv, AInv, LedgerInv, Step, Fault, IInv, TypeOK
<1>2. call'[c].pc # "done" /\ h \notin early
  BY <1>1 DEF IndexingPc, SquaresStay
<1>3. CASE StoreEds(c)
  <2> DEFINE p == IF s.square = <<>> THEN "edsReturned" ELSE "indexBlob"
             t == [s EXCEPT !.todo = s.square, !.next = 1, !.pc = p]
  <2>1. AfterWrite(c, t)
    BY <1>3 DEF StoreEds
  <2>2. t.height = s.height /\ t.todo = s.square /\ t.pc = p /\ p # "mapIndex"
    BY <1>1 DEF CallState
  <2> HIDE DEF p, t
  <2>3. call'[c] = t
    BY <1>1, <1>2, <2>1, WriteGoesOn
  <2>4. h \in Height /\ h \in acked /\ ToIndex(h) \subseteq ToSet(todo)
    BY <1>1, <1>2, <1>3, <2>2, <2>3, CachedIsToIndex
  <2>5. ToIndex(h)' = ToIndex(h)
    BY <1>1, <1>3, <2>4, ToIndexStays DEF Step
  <2> QED BY <2>2, <2>3, <2>4, <2>5
<1>4. CASE IndexBlob(c) \/ MapIndex(c) \/ FailWrite(c)
  <2> DEFINE t == [s EXCEPT !.pc = "mapIndex"]
             rest == Tail(s.todo)
             q == IF rest = <<>> THEN "edsReturned" ELSE "indexBlob"
             u == [s EXCEPT !.todo = rest, !.next = IF rest = <<>> THEN 0
                                                    ELSE @ + Shares[Head(s.todo)],
                            !.pc = q]
             v == [s EXCEPT !.out = "redisError"]
  <2>1. /\ t.height = s.height /\ t.todo = s.todo /\ t.pc = "mapIndex"
        /\ u.height = s.height /\ u.todo = rest /\ u.pc = q /\ q # "mapIndex"
        /\ v.height = s.height /\ v.todo = s.todo /\ v.pc = s.pc
    BY <1>1 DEF CallState
  <2>2. /\ IndexBlob(c) => AfterWrite(c, t)
        /\ MapIndex(c) => AfterWrite(c, u)
        /\ FailWrite(c) => call' = [call EXCEPT ![c] = v]
    BY DEF IndexBlob, MapIndex, FailWrite
  <2> HIDE DEF t, u, v, q
  <2>3. /\ IndexBlob(c) => call'[c] = t
        /\ MapIndex(c) => call'[c] = u
        /\ FailWrite(c) => call'[c] = v
    BY <1>1, <1>2, <2>2, WriteGoesOn
  <2>4. s.pc \in IndexingPc /\ h = s.height
    BY <1>4, <2>1, <2>3 DEF IndexBlob, MapIndex, IndexingPc
  <2>5. h \in Height /\ h \in acked
    BY <1>1, <1>2, <2>4, IndexingHasASquare, SquaresOfAnswered
  <2>6. ToIndex(h)' = ToIndex(h) /\ ToIndex(h) \subseteq Blob
    BY <1>1, <1>4, <2>5, ToIndexStays DEF Step, Fault
  <2>7. s.todo \in Seq(Blob) /\ s.todo # <<>> /\ Head(s.todo) \in Blob
    BY <1>1, <2>4, SquarePlace, IndexPlace DEF IndexingPc
  <2>8. /\ \A b \in ToIndex(h) : b \in ToSet(s.todo) \/ Placed(h, b)
        /\ s.pc = "mapIndex" => Kept(h, Head(s.todo))
    BY <1>2, <2>4 DEF BuilderInv
  <2>9. ASSUME NEW b \in ToIndex(h), b \notin ToSet(s.todo) PROVE Placed(h, b)'
    BY <1>4, <2>5, <2>6, <2>8, <2>9, PlacedStays DEF Step, Fault
  <2>10. CASE IndexBlob(c)
    <3>1. PICK d : d = Head(s.todo)
      OBVIOUS
    <3>2. Kept(h, d)'
      BY <2>4, <2>10, <3>1, IndexBlobKeeps
    <3> QED BY <2>1, <2>3, <2>6, <2>9, <2>10, <3>1, <3>2
  <2>11. CASE MapIndex(c)
    <3>1. PICK d : d = Head(s.todo)
      OBVIOUS
    <3>2. Placed(h, d)'
      BY <2>4, <2>5, <2>8, <2>11, <3>1, MapIndexPlaces DEF MapIndex
    <3>3. ASSUME NEW b \in ToIndex(h), b \notin ToSet(rest) PROVE Placed(h, b)'
      BY <2>7, <2>9, <3>1, <3>2, <3>3, HeadOrTail
    <3> QED BY <2>1, <2>3, <2>6, <2>11, <3>3
  <2>12. CASE FailWrite(c)
    <3>1. PICK d : d = Head(s.todo)
      OBVIOUS
    <3>2. s.pc = "mapIndex" => Kept(h, d)'
      BY <2>5, <2>7, <2>8, <2>12, <3>1, KeptStays DEF Fault
    <3> QED BY <2>1, <2>3, <2>6, <2>9, <2>12, <3>1, <3>2
  <2> QED BY <1>4, <2>10, <2>11, <2>12
<1> QED BY <1>3, <1>4

LEMMA OwnBuilder ==
  ASSUME PInv, NEW c \in Call, OwnInv(c), BuilderInv(c),
         Begin(c) \/ Step(c) \/ Fault(c) \/ Finish(c)
  PROVE  BuilderInv(c)'
<1>1. /\ IInv /\ SInv /\ SquaresStay /\ call[c] \in CallState
      /\ call \in [Call -> CallState] /\ CallInv(c)
  BY StepsKeepSquares DEF PInv, SInv, AInv, LedgerInv, IInv, TypeOK
<1> DEFINE s == call[c]
           t == [s EXCEPT !.out = "redisError"]
           u == [s EXCEPT !.pc = "readBlob"]
           v == [s EXCEPT !.pc = "eds", !.retry = TRUE]
           w == [s EXCEPT !.index = blobData[s.height][s.target]]
<1>2. /\ t.out = "redisError" /\ t.pc = s.pc /\ t.height = s.height
      /\ u.out = s.out /\ u.pc = "readBlob" /\ u.height = s.height
      /\ v.out = s.out /\ v.pc = "eds"
      /\ \A out : Ended(s, out).pc = "done" /\ Ended(w, out).pc = "done"
  BY <1>1 DEF CallState, Ended
<1>3. /\ FailWrite(c) => call' = [call EXCEPT ![c] = t]
      /\ ReadCommitment(c) => \/ call' = [call EXCEPT ![c] = u]
                              \/ \E out : call' = [call EXCEPT ![c] = Ended(s, out)]
      /\ ReadBlob(c) \/ RereadBlob(c) =>
           \/ call' = [call EXCEPT ![c] = v]
           \/ \E out : \E x \in {s, w} : call' = [call EXCEPT ![c] = Ended(x, out)]
  BY DEF FailWrite, ReadCommitment, ReadBlob, RereadBlob
<1> HIDE DEF t, u, v, w
<1>4. /\ FailWrite(c) => call'[c] = t
      /\ ReadCommitment(c) => call'[c] = u \/ call'[c].pc = "done"
      /\ ReadBlob(c) \/ RereadBlob(c) => call'[c] = v \/ call'[c].pc = "done"
  BY <1>1, <1>2, <1>3
<1>5. s.pc # "done" /\ s.pc \notin WritePc => s.out = "pending"
  BY DEF BuilderInv
<1>6. ReadCommitment(c) \/ ReadBlob(c) \/ RereadBlob(c) => s.out = "pending"
  <2>1. ASSUME s.pc \in {"edsReturned", "readBlob"} PROVE s.out = "pending"
    BY <1>5, <2>1 DEF WritePc, SubmitPc, BuildPc
  <2> QED BY <2>1 DEF ReadCommitment, ReadBlob, RereadBlob
<1>7. /\ \/ call'[c].pc = "done" \/ call'[c].out = "pending" \/ FailWrite(c)
      /\ call'[c].pc = "readBlob" => ReadCommitment(c) /\ call'[c] = u
  <2>1. CASE FailWrite(c)
    <3>1. call'[c].pc # "readBlob"
      BY <1>2, <1>4, <2>1 DEF FailWrite, WritePc, SubmitPc, BuildPc
    <3> QED BY <2>1, <3>1
  <2>2. CASE ReadCommitment(c) \/ ReadBlob(c) \/ RereadBlob(c)
    BY <1>2, <1>4, <1>6, <2>2
  <2>3. CASE ~ (ReadCommitment(c) \/ ReadBlob(c) \/ RereadBlob(c) \/ FailWrite(c))
    <3>1. Usual(s, call'[c])
      BY <1>1, <2>3, UsualSteps
    <3>2. s.pc # "done" /\ s.out # "pending" => s.out = "redisError" /\ s.pc \in WritePc
      BY DEF BuilderInv
    <3> QED BY <3>1, <3>2 DEF Usual
  <2> QED BY <2>1, <2>2, <2>3
<1>8. ASSUME call'[c].pc # "done", call'[c].out # "pending"
      PROVE  /\ call'[c].out = "redisError" /\ call'[c].pc \in WritePc
             /\ call'[c].pc \in BuildPc => call'[c].height \in cut'
  <2>1. FailWrite(c) /\ call'[c] = t
    BY <1>4, <1>7, <1>8
  <2>2. s.pc \in WritePc /\ cut' = IF s.pc \in BuildPc THEN cut \cup {s.height} ELSE cut
    BY <2>1 DEF FailWrite
  <2> QED BY <1>2, <2>1, <2>2
<1>9. ASSUME call'[c].pc = "readBlob", NEW h, h = call'[c].height PROVE layouts'[h] # {}
  <2>1. s.pc = "edsReturned" /\ s.op = "get" /\ h = s.height
    BY <1>2, <1>7, <1>9 DEF ReadCommitment
  <2>2. h \in Height
    BY <1>1, <2>1 DEF CallInv
  <2>3. s.square \in layouts[h]
    BY <1>1, <2>1 DEF SInv, SquareInv
  <2> QED BY <1>1, <2>2, <2>3 DEF SquaresStay
<1>10. PICK h, todo : h = call'[c].height /\ todo = call'[c].todo
  OBVIOUS
<1>11. ASSUME call'[c].pc \in IndexingPc, h \notin early'
       PROVE  /\ \A b \in ToIndex(h)' : b \in ToSet(todo) \/ Placed(h, b)'
              /\ call'[c].pc = "mapIndex" => Kept(h, Head(todo))'
  <2>1. StoreEds(c) \/ IndexBlob(c) \/ MapIndex(c) \/ FailWrite(c)
    <3>1. ~ Elsewhere(call'[c]) /\ call'[c].pc \notin {"members", "storeEds", "done"}
      BY <1>11 DEF Elsewhere, IndexingPc
    <3> QED BY <1>1, <3>1, StepsElsewhere, StepsThatList DEF Step, Fault
  <2> QED BY <1>10, <1>11, <2>1, BuilderGoesOn
<1>12. call'[c].pc = "readBlob" => layouts'[h] # {}
  BY <1>9, <1>10
<1> HIDE DEF s
<1> QED BY <1>8, <1>10, <1>11, <1>12 DEF BuilderInv

\* The builder that leaves a square last leaves it indexed.
LEMMA IndexedStep ==
  ASSUME QInv, NEW c \in Call, Begin(c) \/ Step(c) \/ Fault(c) \/ Finish(c)
  PROVE  IndexedInv'
<1>1. /\ PInv /\ IInv /\ SInv /\ SquaresStay /\ AckedComplete /\ cut \subseteq cut'
      /\ call[c] \in CallState /\ call \in [Call -> CallState]
      /\ OwnInv(c) /\ BuilderInv(c)
  BY StepsKeepSquares, CutStays DEF QInv, PInv, SInv, AInv, LedgerInv, IInv, TypeOK
<1> SUFFICES ASSUME NEW h \in Height \ (early' \cup cut'), layouts'[h] # {}, ~ Indexing(h)',
                    NEW b \in ToIndex(h)'
             PROVE  Placed(h, b)'
  BY DEF IndexedInv
<1>2. h \in Height /\ h \notin early /\ h \notin cut
  BY <1>1 DEF SquaresStay
<1> DEFINE s == call[c]
<1>3. call'[c].height = h => call'[c].pc \notin IndexingPc
  BY DEF Indexing, IndexingPc
<1>4. s.height = h /\ s.pc \in BuildPc => s.out = "pending" /\ ~ Abandoned(c)
  <2> SUFFICES ASSUME s.height = h, s.pc \in BuildPc PROVE s.out = "pending"
    BY DEF Abandoned
  <2>1. s.pc # "done"
    BY DEF BuildPc
  <2> QED BY <1>1, <1>2, <2>1 DEF BuilderInv
<1>5. CASE layouts[h] # {}
  <2>1. h \in acked
    BY <1>1, <1>2, <1>5, SquaresOfAnswered
  <2>2. b \in ToIndex(h) /\ b \in Blob
    BY <1>1, <1>2, <2>1, ToIndexStays
  <2>3. ASSUME Placed(h, b) PROVE Placed(h, b)'
    BY <1>1, <1>2, <2>1, <2>2, <2>3, PlacedStays
  <2>4. CASE ~ Indexing(h)
    BY <1>2, <1>5, <2>2, <2>3, <2>4 DEF QInv, IndexedInv
  <2>5. CASE Indexing(h)
    <3>1. PICK d \in Call : call[d].height = h /\ call[d].pc \in IndexingPc
      BY <2>5 DEF Indexing, IndexingPc
    <3>2. d = c
      <4>1. d # c => call'[d] = call[d]
        BY <1>1, OneCallMoves
      <4> QED BY <3>1, <4>1 DEF Indexing, IndexingPc
    <3>3. s.height = h /\ s.pc \in IndexingPc /\ ~ Abandoned(c)
      BY <1>4, <3>1, <3>2 DEF IndexingPc, BuildPc
    <3>4. ~ LoseWrite(c)
      BY <3>3 DEF LoseWrite
    <3> DEFINE t == [s EXCEPT !.pc = "mapIndex"]
               v == [s EXCEPT !.out = "redisError"]
    <3>5. ~ IndexBlob(c) /\ ~ FailWrite(c)
      <4>1. /\ IndexBlob(c) => call' = [call EXCEPT ![c] = t]
            /\ FailWrite(c) => call' = [call EXCEPT ![c] = v]
        BY <3>3 DEF IndexBlob, FailWrite, AfterWrite
      <4>2. /\ t.pc = "mapIndex" /\ t.height = s.height
            /\ v.pc = s.pc /\ v.height = s.height
        BY <1>1 DEF CallState
      <4> HIDE DEF t, v
      <4>3. IndexBlob(c) => call'[c] = t
        BY <1>1, <4>1
      <4>4. FailWrite(c) => call'[c] = v
        BY <1>1, <4>1
      <4> QED BY <1>3, <3>3, <4>2, <4>3, <4>4 DEF IndexingPc
    <3>6. MapIndex(c)
      BY <3>3, <3>4, <3>5, IndexingMoves
    <3> DEFINE rest == Tail(s.todo)
               q == IF rest = <<>> THEN "edsReturned" ELSE "indexBlob"
               n == IF rest = <<>> THEN 0 ELSE s.next + Shares[Head(s.todo)]
               u == [s EXCEPT !.todo = rest, !.next = n, !.pc = q]
    <3>7. rest = <<>>
      <4>1. call' = [call EXCEPT ![c] = u]
        BY <3>3, <3>6 DEF MapIndex, AfterWrite
      <4> HIDE DEF q, n
      <4>2. u.pc = q /\ u.height = s.height
        BY <1>1 DEF CallState
      <4> HIDE DEF u
      <4>3. call'[c] = u
        BY <1>1, <4>1
      <4>4. q # "indexBlob"
        BY <1>3, <3>3, <4>2, <4>3 DEF IndexingPc
      <4> QED BY <4>4 DEF q
    <3>8. s.todo \in Seq(Blob) /\ s.todo # <<>>
      BY <1>1, <3>3, SquarePlace, IndexPlace DEF IndexingPc
    <3>9. /\ b \in ToSet(s.todo) \/ Placed(h, b)
          /\ Kept(h, Head(s.todo))
      BY <1>1, <1>2, <2>2, <3>3, <3>6 DEF BuilderInv, MapIndex
    <3>10. CASE Placed(h, b)
      BY <2>3, <3>10
    <3>11. CASE b \in ToSet(s.todo)
      <4>1. b = Head(s.todo)
        <5>1. b # Head(s.todo) => b \in ToSet(rest)
          BY <3>8, <3>11, HeadOrTail
        <5> HIDE DEF rest
        <5> QED BY <3>7, <5>1, NothingInTheEmptySequence
      <4> QED BY <1>1, <2>1, <3>3, <3>6, <3>9, <4>1, MapIndexPlaces
    <3> QED BY <3>9, <3>10, <3>11
  <2> QED BY <2>4, <2>5
<1>6. CASE layouts[h] = {}
  <2>1. StoreEds(c)
    <3>1. CASE ~ StoreEds(c)
      <4>1. UNCHANGED layouts
        BY <3>1
           DEF Begin, Step, Fault, Finish, SubmitNothing, AssignHeight, GetEds, GetBlob,
               GetAll, SetBlob, AddMember, SetCommitment, TrackNamespace,
               EdsHeightNotFound, ReadEds, ReadNamespaces, ReadMembers, PanicFromOds,
               IndexBlob, MapIndex, ReturnEds, ReadCommitment, ReadBlob, RereadBlob,
               FailRead, FailWrite, LoseWrite, historyVars
      <4> QED BY <1>6, <4>1
    <3> QED BY <3>1
  <2> DEFINE l == s.square
             p == IF l = <<>> THEN "edsReturned" ELSE "indexBlob"
             t == [s EXCEPT !.todo = l, !.next = 1, !.pc = p]
  <2>2. /\ layouts' = [layouts EXCEPT ![s.height] = @ \cup {l}] /\ AfterWrite(c, t)
        /\ batch' = batch /\ s.pc = "storeEds"
    BY <2>1 DEF StoreEds
  <2>3. s.height = h
    <3>1. layouts \in [Height -> SUBSET Seq(Blob)]
      BY <1>1 DEF IInv, TypeOK
    <3> HIDE DEF s, t
    <3> QED BY <1>2, <1>6, <2>2, <3>1
  <2>4. call' = [call EXCEPT ![c] = t]
    BY <1>4, <2>2, <2>3 DEF AfterWrite, BuildPc
  <2> HIDE DEF p
  <2>5. t.pc = p /\ t.height = s.height
    BY <1>1 DEF CallState
  <2> HIDE DEF t
  <2>6. p # "indexBlob"
    <3>1. call'[c] = t
      BY <1>1, <2>4
    <3> QED BY <1>3, <2>3, <2>5, <3>1 DEF IndexingPc
  <2>7. l = <<>>
    BY <2>6 DEF p
  <2>8. ToIndex(h) \subseteq ToSet(l)
    BY <1>1, <1>2, <2>1, <2>3, CachedIsToIndex
  <2>9. b \in ToIndex(h)
    BY <2>2 DEF ToIndex, Submitted
  <2> HIDE DEF l
  <2> QED BY <2>7, <2>8, <2>9, NothingInTheEmptySequence
<1> QED BY <1>5, <1>6

LEMMA IndexedInitially == Init => QInv
<1> SUFFICES ASSUME Init PROVE QInv
  OBVIOUS
<1>1. PInv /\ \A c \in Call : OwnInv(c)
  BY PositionsInitially, OwnInitially
<1>2. IndexedInv
  BY DEF Init, IndexedInv
<1>3. \A c \in Call : BuilderInv(c)
  BY DEF Init, Idle, BuilderInv, IndexingPc
<1> QED BY <1>1, <1>2, <1>3 DEF QInv

LEMMA IndexedInductive == QInv /\ [Next]_vars => QInv'
<1> SUFFICES ASSUME QInv, [Next]_vars PROVE QInv'
  OBVIOUS
<1>1. PInv /\ SInv /\ PInv' /\ \A c \in Call : OwnInv(c) /\ BuilderInv(c)
  BY PositionsInductive DEF QInv, PInv
<1>2. ASSUME NEW c \in Call, Begin(c) \/ Step(c) \/ Fault(c) \/ Finish(c)
      PROVE  IndexedInv' /\ \A d \in Call : OwnInv(d)' /\ BuilderInv(d)'
  <2>1. IndexedInv'
    BY <1>2, IndexedStep
  <2>2. ASSUME NEW d \in Call, d # c PROVE OwnInv(d)' /\ BuilderInv(d)'
    BY <1>1, <1>2, <2>2, OthersOwn, OtherBuilders
  <2>3. OwnInv(c)'
    <3>1. CASE \E blobs \in Request : AssignHeight(c, blobs)
      BY <1>1, <3>1, AssignHeightOwns
    <3>2. CASE \A blobs \in Request : ~ AssignHeight(c, blobs)
      BY <1>1, <1>2, <3>2, SubmitOwns
    <3> QED BY <3>1, <3>2
  <2>4. BuilderInv(c)'
    BY <1>1, <1>2, OwnBuilder
  <2> QED BY <2>1, <2>2, <2>3, <2>4
<1>3. CASE UNCHANGED vars
  <2>1. UNCHANGED <<call, blobData, blobIndex, layouts, batch, acked, early, cut>>
    BY <1>3 DEF vars, redisVars, historyVars
  <2>2. IndexedInv'
    BY <2>1 DEF QInv, IndexedInv, Indexing, ToIndex, Submitted, Placed, Kept, Position
  <2>3. ASSUME NEW d \in Call PROVE OwnInv(d)' /\ BuilderInv(d)'
    <3>1. OwnInv(d) /\ BuilderInv(d)
      BY <1>1
    <3>2. OwnInv(d)'
      BY <2>1, <3>1 DEF OwnInv
    <3>3. BuilderInv(d)'
      <4>1. \A h, b : (Placed(h, b)' <=> Placed(h, b)) /\ (Kept(h, b)' <=> Kept(h, b))
        BY <2>1 DEF Placed, Kept, Position
      <4>2. \A h : ToIndex(h)' = ToIndex(h)
        BY <2>1 DEF ToIndex, Submitted
      <4>3. PICK s, h, b : s = call[d] /\ h = s.height /\ b = Head(s.todo)
        OBVIOUS
      <4>4. /\ s.pc # "done" =>
                 \/ s.out = "pending"
                 \/ s.out = "redisError" /\ s.pc \in WritePc /\ (s.pc \in BuildPc => h \in cut)
            /\ s.pc = "readBlob" => layouts[h] # {}
        BY <3>1, <4>3 DEF BuilderInv
      <4>5. s.pc \in IndexingPc /\ h \notin early =>
              /\ \A x \in ToIndex(h) : x \in ToSet(s.todo) \/ Placed(h, x)
              /\ s.pc = "mapIndex" => Kept(h, b)
        BY <3>1, <4>3 DEF BuilderInv
      <4>6. call'[d] = s /\ layouts' = layouts /\ early' = early /\ cut' = cut
        BY <2>1, <4>3
      <4>7. s.pc \in IndexingPc /\ h \notin early' =>
              /\ \A x \in ToIndex(h)' : x \in ToSet(s.todo) \/ Placed(h, x)'
              /\ s.pc = "mapIndex" => Kept(h, b)'
        BY <4>1, <4>2, <4>5, <4>6
      <4> QED BY <4>3, <4>4, <4>6, <4>7 DEF BuilderInv
    <3> QED BY <3>2, <3>3
  <2> QED BY <1>1, <2>2, <2>3 DEF QInv
<1> QED BY <1>1, <1>2, <1>3 DEF Next, QInv

LEMMA IndexedInvariance == Spec => []QInv
BY IndexedInitially, IndexedInductive, PTL DEF Spec

LEMMA IndexedSquares == QInv => UncutSquaresAreIndexed
<1> SUFFICES ASSUME QInv, NEW h \in Height \ (early \cup cut), eds[h] # Nil, ~ Indexing(h),
                    NEW b \in ToSet(eds[h])
             PROVE  /\ blobData[h][b] \in Nat
                    /\ layouts[h] = {eds[h]} =>
                         /\ blobData[h][b] = FirstCell(eds[h], b)
                         /\ blobIndex[h][b] = FirstCell(eds[h], b)
  BY DEF UncutSquaresAreIndexed
<1>1. PInv /\ SInv /\ IInv /\ h \in Height /\ h \notin early
  BY DEF QInv, PInv, SInv, AInv, LedgerInv
<1>2. eds[h] \in layouts[h] /\ layouts[h] \subseteq Seq(Blob)
  BY <1>1 DEF SInv, LayoutInv, IInv, TypeOK
<1>3. h \in acked
  BY <1>1, <1>2, SquaresOfAnswered
<1>4. b \in ToIndex(h) /\ b \in Blob
  <2>1. ToSet(eds[h]) = ToIndex(h)
    BY <1>1, <1>2, <1>3, LayoutsAreComplete DEF ToIndex
  <2>2. b \in Blob
    BY <1>1, <1>2 DEF SInv, LayoutInv, Good
  <2> QED BY <2>1, <2>2
<1>5. Placed(h, b)
  BY <1>1, <1>2, <1>4 DEF QInv, IndexedInv
<1>6. PICK l \in layouts[h] : b \in ToSet(l) /\ blobData[h][b] = FirstCell(l, b)
  BY <1>5 DEF Placed, Kept, Position
<1>7. FirstCell(l, b) \in Nat
  <2>1. l \in Seq(Blob) /\ IsInjective(l)
    BY <1>1, <1>2 DEF SInv, LayoutInv, Good
  <2>2. PICK k \in 1..Len(l) : b = l[k]
    BY <1>6, <2>1 DEF ToSet
  <2> QED BY <2>1, <2>2, CellsOfABlob
<1>8. PICK m \in layouts[h] : blobIndex[h][b] = FirstCell(m, b)
  BY <1>1, <1>4, <1>5 DEF Placed, PInv, IndexInv, Position
<1> QED BY <1>6, <1>7, <1>8

\* However many builders race, on a height whose builders all began after its
\* submit was answered and none of which was given up on: once none is at work
\* any more, every blob of the square has an index, that of its place where one
\* layout only was cached.
THEOREM SquaresAreIndexed == Spec => []UncutSquaresAreIndexed
BY IndexedSquares, IndexedInvariance, PTL

\* An index is taken away only by the second SET of a blob that its vector holds
\* twice, before the submit is answered.
THEOREM IndexesStay == Spec => IndexesAreKept
<1>1. QInv /\ [Next]_vars =>
        [\A h \in Height, b \in Blob :
           blobData[h][b] \in Nat /\ blobData'[h][b] \notin Nat =>
             h \notin acked /\ ~ IsInjective(batch[h])]_vars
  <2> SUFFICES ASSUME QInv, Next, NEW h \in Height, NEW b \in Blob,
                      blobData[h][b] \in Nat, blobData'[h][b] \notin Nat
               PROVE  h \notin acked /\ ~ IsInjective(batch[h])
    OBVIOUS
  <2>1. PICK c \in Call : Begin(c) \/ Step(c) \/ Fault(c) \/ Finish(c)
    BY DEF Next
  <2> QED BY <2>1, NoIndexIsTaken DEF QInv, PInv
<1> QED BY <1>1, IndexedInvariance, PTL DEF Spec, IndexesAreKept

\* A blob.Get that finds no index has read the blob then.
LEMMA FindingNoIndex ==
  ASSUME IInv, NEW c \in Call, Begin(c) \/ Step(c) \/ Fault(c) \/ Finish(c),
         NEW d \in Call, FindsNoIndex(d)
  PROVE  /\ d = c /\ (ReadBlob(c) \/ RereadBlob(c))
         /\ blobData[call[d].height][call[d].target] = NoIndex
<1>1. call \in [Call -> CallState] /\ call[c] \in CallState
  BY DEF IInv, TypeOK
<1>2. d = c
  BY OneCallMoves DEF FindsNoIndex
<1> DEFINE s == call[c]
           data == blobData[s.height][s.target]
<1>3. ~ Usual(s, call'[c])
  BY <1>2 DEF FindsNoIndex, Usual
<1> DEFINE t == [s EXCEPT !.out = "redisError"]
           u == [s EXCEPT !.pc = "readBlob"]
           w == [s EXCEPT !.index = data]
<1>4. /\ t.retry = s.retry /\ t.out # "indexNotSet"
      /\ u.retry = s.retry /\ u.out = s.out
      /\ \A out : /\ Ended(s, out).retry = s.retry /\ Ended(s, out).out = out
                  /\ Ended(w, out).retry = s.retry /\ Ended(w, out).out = out
  BY <1>1 DEF CallState, Ended
<1> HIDE DEF t, u, w
<1>5. ~ FailWrite(c)
  <2>1. FailWrite(c) => call' = [call EXCEPT ![c] = t]
    BY DEF FailWrite, t
  <2>2. FailWrite(c) => call'[c] = t
    BY <1>1, <2>1
  <2> QED BY <1>2, <1>4, <2>2 DEF FindsNoIndex
<1>6. ~ ReadCommitment(c)
  <2>1. ReadCommitment(c) => \/ call' = [call EXCEPT ![c] = u]
                             \/ call' = [call EXCEPT ![c] = Ended(s, "blobNotFound")]
    BY DEF ReadCommitment, u
  <2>2. ReadCommitment(c) => call'[c] = u \/ call'[c] = Ended(s, "blobNotFound")
    BY <1>1, <2>1
  <2> QED BY <1>2, <1>4, <2>2 DEF FindsNoIndex
<1>7. ReadBlob(c) \/ RereadBlob(c)
  BY <1>3, <1>5, <1>6, UsualSteps
<1>8. data # NoIndex => \/ call' = [call EXCEPT ![c] = Ended(s, "blobNotFound")]
                        \/ call' = [call EXCEPT ![c] = Ended(s, "ok")]
                        \/ call' = [call EXCEPT ![c] = Ended(w, "ok")]
  BY <1>7 DEF ReadBlob, RereadBlob, w
<1>9. data # NoIndex => \/ call'[c] = Ended(s, "blobNotFound")
                        \/ call'[c] = Ended(s, "ok")
                        \/ call'[c] = Ended(w, "ok")
  BY <1>1, <1>8
<1>10. data = NoIndex
  BY <1>2, <1>4, <1>9 DEF FindsNoIndex
<1> QED BY <1>2, <1>7, <1>10

\* A blob.Get finds a blob without an index only if it has no place in a square,
\* or its square is being indexed, was cached early or cut short.
THEOREM UnindexedGets == Spec => UnindexedGetsAreExplained
<1> DEFINE Explained(c) == \/ call[c].target \in Unshareable
                           \/ Indexing(call[c].height)
                           \/ call[c].height \in early \cup cut
<1>1. QInv /\ [Next]_vars => [\A c \in Call : FindsNoIndex(c) => Explained(c)]_vars
  <2> SUFFICES ASSUME QInv, Next, NEW d \in Call, FindsNoIndex(d), ~ Explained(d)
               PROVE  FALSE
    OBVIOUS
  <2> DEFINE h == call[d].height
             b == call[d].target
  <2>1. PInv /\ SInv /\ IInv /\ CallInv(d) /\ BuilderInv(d)
    BY DEF QInv, PInv, SInv, AInv, LedgerInv, IInv
  <2>2. PICK c \in Call : Begin(c) \/ Step(c) \/ Fault(c) \/ Finish(c)
    BY DEF Next
  <2>3. (ReadBlob(d) \/ RereadBlob(d)) /\ blobData[h][b] = NoIndex
    BY <2>1, <2>2, FindingNoIndex
  <2>4. call[d].op = "get" /\ call[d].pc \in {"readBlob", "edsReturned"}
    BY <2>3 DEF ReadBlob, RereadBlob, FindsNoIndex
  <2>5. h \in Height /\ b \in Blob
    BY <2>1, <2>4 DEF CallInv
  <2>6. layouts[h] # {}
    BY <2>1, <2>4 DEF BuilderInv, SInv, SquareInv
  <2>7. b \in ToIndex(h)
    <3>1. b \in Submitted(h)
      BY <2>1, <2>3, <2>5, StoreAssumption DEF IInv, HeightsHoldOneBatch
    <3> QED BY <3>1 DEF ToIndex
  <2>8. Placed(h, b)
    BY <2>5, <2>6, <2>7 DEF QInv, IndexedInv
  <2>9. PICK l \in layouts[h] : b \in ToSet(l) /\ NoIndex = FirstCell(l, b)
    BY <2>3, <2>8 DEF Placed, Kept, Position
  <2>10. l \in Seq(Blob) /\ IsInjective(l)
    BY <2>1, <2>5 DEF SInv, LayoutInv, Good, IInv, TypeOK
  <2>11. PICK k \in 1..Len(l) : b = l[k]
    BY <2>9, <2>10 DEF ToSet
  <2>12. FirstCell(l, b) \in Nat
    BY <2>10, <2>11, CellsOfABlob
  <2> QED BY <2>9, <2>12, StoreAssumption
<1> QED BY <1>1, IndexedInvariance, PTL DEF Spec, UnindexedGetsAreExplained
=============================================================================
