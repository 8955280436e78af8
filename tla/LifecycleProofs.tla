---------------------------- MODULE LifecycleProofs ----------------------------
(***************************************************************************)
(* Whatever the last life of the process left in Redis, the next one that  *)
(* serves begins from the initial state: the FLUSHDB of main makes every   *)
(* state of HeaderStore's invariant, whatever was there, into an initial   *)
(* state of HeaderStore, and the writes that were under way when the       *)
(* process ended do not move the height of the next one (Residue).         *)
(* So what SquareProofs shows of the indexes of a single process (QInv)    *)
(* holds of every one that serves.                                         *)
(***************************************************************************)
EXTENDS Lifecycle, HeaderStoreProofs, SquareProofs

-----------------------------------------------------------------------------
(* The inductive invariant.                                                *)

\* Between two lives nothing is left of a header call but a write.
Residue ==
  /\ req \in [Call -> HeaderReq]
  /\ \A c \in Call : req[c].pc \in {"idle", "done"} \/ AbandonedHeader(c)

LInv ==
  /\ phase \in {"down", "connected", "serving"}
  /\ phase = "serving" => HIInv
  /\ phase = "connected" => currentHeight = 0
  /\ phase # "serving" => Residue

-----------------------------------------------------------------------------
(* Steps keep the invariant.                                               *)

LEMMA LifeInitially == LifeInit => LInv
<1> SUFFICES ASSUME LifeInit PROVE LInv
  OBVIOUS
<1>1. phase = "down" /\ req = [c \in Call |-> NoReq]
  BY DEF LifeInit, HeaderInit
<1>2. Residue
  BY <1>1, NoReqIsAReq DEF Residue, NoReq
<1> QED BY <1>1, <1>2 DEF LInv

\* The initial states, of the state after a step.
LEMMA HeaderInitiallyNext == HeaderInit' => HIInv'
BY HeaderInitially, PTL

LEMMA ClearStep ==
  ASSUME LInv, Clear
  PROVE  LInv'
<1>1. currentHeight' = 0 /\ phase' = "serving"
  BY DEF LInv, Clear
<1>2. HeaderInit'
  BY <1>1 DEF Clear, Renewed, HeaderInit, Init
<1> QED BY <1>1, <1>2, HeaderInitiallyNext DEF LInv

LEMMA StopStep ==
  ASSUME LInv, Stop
  PROVE  LInv'
<1>1. HeaderTypeOK /\ phase' = "down"
      /\ req' = [c \in Call |-> Dropped(req[c], NoReq, HeaderWritePc)]
  BY DEF LInv, Stop, HIInv
<1>2. ASSUME NEW c \in Call
      PROVE  LET d == Dropped(req[c], NoReq, HeaderWritePc)
             IN  /\ d \in HeaderReq
                 /\ \/ d.pc \in {"idle", "done"}
                    \/ d.out = "redisError" /\ d.pc \in HeaderWritePc
  <2> DEFINE w == [req[c] EXCEPT !.out = "redisError"]
  <2>1. w \in HeaderReq /\ w.out = "redisError" /\ w.pc = req[c].pc
    <3>1. req[c] \in HeaderReq /\ "redisError" \in HeaderOutcome
      BY <1>1 DEF HeaderTypeOK, HeaderOutcome, Outcome
    <3> QED BY <3>1 DEF HeaderReq
  <2>2. NoReq \in HeaderReq /\ NoReq.pc = "idle"
    BY NoReqIsAReq DEF NoReq
  <2>3. Dropped(req[c], NoReq, HeaderWritePc)
          = IF req[c].pc \in HeaderWritePc THEN w ELSE NoReq
    BY DEF Dropped
  <2> HIDE DEF w
  <2>4. CASE req[c].pc \in HeaderWritePc
    BY <2>1, <2>3, <2>4
  <2>5. CASE req[c].pc \notin HeaderWritePc
    BY <2>2, <2>3, <2>5
  <2> QED BY <2>4, <2>5
<1>3. Residue'
  BY <1>1, <1>2 DEF Residue, AbandonedHeader
<1> QED BY <1>1, <1>3 DEF LInv

\* Of a header call that has been cut short, only a write goes on.
LEMMA ResidualHeaderStep ==
  ASSUME Residue, NEW c \in Call, HeaderStep(c) \/ LoseHeaderWrite(c)
  PROVE  /\ req' = [req EXCEPT ![c] = Answer(req[c], "redisError")]
         /\ currentHeight' = currentHeight /\ call' = call
<1>1. req[c].pc \in {"idle", "done"} \/ AbandonedHeader(c)
  BY DEF Residue
<1>2. CASE LoseHeaderWrite(c)
  BY <1>2 DEF LoseHeaderWrite, vars
<1>3. CASE HeaderStep(c)
  <2>1. SetHeader(c) \/ SetHash(c)
    BY <1>1, <1>3 DEF HeaderStep, ReadHeaderNotFound, ReadHeader, ReadNoHeader,
                      PanicFromEds, Generate, PanicFromValidate, LookAgain, ReadHash, ReadKey,
                      AbandonedHeader, HeaderWritePc
  <2>2. AbandonedHeader(c)
    BY <1>1, <2>1 DEF SetHeader, SetHash
  <2> QED BY <2>1, <2>2 DEF SetHeader, SetHash, AfterHeaderWrite, GoesOn, vars
<1> QED BY <1>2, <1>3

LEMMA LeftoverStep ==
  ASSUME LInv, Leftover
  PROVE  LInv'
<1>1. Residue /\ phase # "serving" /\ phase' = phase
  BY DEF LInv, Leftover
<1>2. PICK c \in Call : \/ Step(c) /\ UNCHANGED headerVars
                        \/ HeaderStep(c)
                        \/ LoseWrite(c) /\ UNCHANGED headerVars
                        \/ LoseHeaderWrite(c)
  BY DEF Leftover
<1>3. CASE (Step(c) \/ LoseWrite(c)) /\ UNCHANGED headerVars
  <2>1. currentHeight' = currentHeight
    BY <1>3, StepKeepsHeight DEF Fault
  <2>2. Residue'
    BY <1>1, <1>3 DEF Residue, AbandonedHeader, headerVars
  <2> QED BY <1>1, <2>1, <2>2 DEF LInv
<1>4. CASE HeaderStep(c) \/ LoseHeaderWrite(c)
  <2> DEFINE a == Answer(req[c], "redisError")
  <2>1. req' = [req EXCEPT ![c] = a] /\ currentHeight' = currentHeight
    BY <1>1, <1>4, ResidualHeaderStep
  <2>2. a \in HeaderReq /\ a.pc = "done"
    BY <1>1, AnswerIsAReq DEF Residue, HeaderOutcome, Outcome
  <2> HIDE DEF a
  <2>3. Residue'
    BY <1>1, <2>1, <2>2 DEF Residue, AbandonedHeader
  <2> QED BY <1>1, <2>1, <2>3 DEF LInv
<1> QED BY <1>2, <1>3, <1>4

LEMMA LifeInductive == LInv /\ [LifeNext]_lifeVars => LInv'
<1> SUFFICES ASSUME LInv, [LifeNext]_lifeVars PROVE LInv'
  OBVIOUS
<1>1. CASE Start
  <2>1. Residue /\ req' = req /\ phase' = "connected" /\ currentHeight' = 0
    BY <1>1 DEF LInv, Start, headerVars
  <2>2. Residue'
    BY <2>1 DEF Residue, AbandonedHeader
  <2> QED BY <2>1, <2>2 DEF LInv
<1>2. CASE FailClear
  <2>1. Residue /\ req' = req /\ phase' = "down"
    BY <1>2 DEF LInv, FailClear, hvars, headerVars
  <2>2. Residue'
    BY <2>1 DEF Residue, AbandonedHeader
  <2> QED BY <2>1, <2>2 DEF LInv
<1>3. CASE Clear
  BY <1>3, ClearStep
<1>4. CASE Stop
  BY <1>4, StopStep
<1>5. CASE Served
  <2>1. HIInv'
    BY <1>5, HeaderInductive DEF LInv, Served
  <2>2. phase' = "serving"
    BY <1>5 DEF Served
  <2> QED BY <2>1, <2>2 DEF LInv
<1>6. CASE Leftover
  BY <1>6, LeftoverStep
<1>7. CASE UNCHANGED lifeVars
  <2>1. UNCHANGED hvars /\ phase' = phase
    BY <1>7 DEF lifeVars
  <2>2. HIInv => HIInv'
    BY <2>1, HeaderInductive
  <2>3. Residue => Residue'
    BY <2>1 DEF Residue, AbandonedHeader, hvars, headerVars
  <2>4. currentHeight' = currentHeight
    BY <2>1 DEF hvars, vars
  <2> QED BY <2>1, <2>2, <2>3, <2>4 DEF LInv
<1> QED BY <1>1, <1>2, <1>3, <1>4, <1>5, <1>6, <1>7 DEF LifeNext

\* Whenever the process serves, the invariant of HeaderStore holds, however
\* often it has been stopped, at whatever moment of whatever call.
THEOREM LifeInvariance == LifeSpec => []LInv
<1> QED BY LifeInitially, LifeInductive, PTL DEF LifeSpec

\* What a process finds in Redis once it serves is of submits of its own life
\* and of heights it has given out.
THEOREM LivesCorrect == LifeSpec => []LivesStartAfresh
<1>1. LInv => LivesStartAfresh
  <2> SUFFICES ASSUME HIInv
               PROVE  /\ NothingAboveCurrentHeight /\ HeightsHoldOneBatch
                      /\ \A h \in Height : h > currentHeight => header[h] = Nil
    BY DEF LInv, LivesStartAfresh
  <2>1. currentHeight \in Nat /\ \A h \in Height : h \in Nat
    BY StoreAssumption DEF HIInv, IInv, TypeOK, Height
  <2> QED BY <2>1 DEF HIInv, IInv, HeaderKeysInv
<1> QED BY <1>1, LifeInvariance, PTL

-----------------------------------------------------------------------------
(* The indexes of a process that serves.                                   *)

ServedInv == LInv /\ (phase = "serving" => QInv)

\* The initial states of the blob store, of the state after a step.
LEMMA IndexedInitiallyNext == Init' => QInv'
BY IndexedInitially, PTL

LEMMA ServedInductive == ServedInv /\ [LifeNext]_lifeVars => ServedInv'
<1> SUFFICES ASSUME ServedInv, [LifeNext]_lifeVars, phase' = "serving" PROVE QInv'
  BY LifeInductive DEF ServedInv
<1>1. CASE Start \/ FailClear \/ Stop
  BY <1>1 DEF Start, FailClear, Stop
<1>2. CASE Clear
  <2>1. currentHeight' = 0
    BY <1>2 DEF ServedInv, LInv, Clear
  <2>2. Init'
    BY <1>2, <2>1 DEF Clear, Renewed, Init
  <2> QED BY <2>2, IndexedInitiallyNext
<1>3. CASE Served \/ UNCHANGED lifeVars
  <2>1. QInv /\ HIInv /\ [HeaderNext]_hvars
    BY <1>3 DEF ServedInv, LInv, Served, lifeVars
  <2>2. [Next]_vars
    BY <2>1, HeaderInductive
  <2> QED BY <2>1, <2>2, IndexedInductive
<1>4. CASE Leftover
  BY <1>4 DEF Leftover
<1> QED BY <1>1, <1>2, <1>3, <1>4 DEF LifeNext

\* While a process serves, header calls included, the squares whose builders
\* neither began too early nor were given up on have all their indexes, whatever
\* an earlier process left half-indexed.
THEOREM ServedIndexesCorrect == LifeSpec => []ServedSquaresAreIndexed
<1>1. LifeInit => ServedInv
  BY LifeInitially DEF LifeInit, ServedInv
<1>2. ServedInv => ServedSquaresAreIndexed
  BY IndexedSquares DEF ServedInv, ServedSquaresAreIndexed
<1> QED BY <1>1, <1>2, ServedInductive, PTL DEF LifeSpec
=============================================================================
