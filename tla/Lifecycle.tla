------------------------------ MODULE Lifecycle ------------------------------
(***************************************************************************)
(* The life of the server process (main): it connects, clears the database *)
(* with FLUSHDB, serves, and stops or crashes at any moment, between any   *)
(* two Redis commands of a call.  The height is kept in memory only, and   *)
(* starts again from 0.                                                    *)
(*                                                                         *)
(* A write under way when the process ends may be done or lost as long as  *)
(* Redis has not run the FLUSHDB of the next one.  That none comes after   *)
(* it is an assumption: Redis reads what a closed connection has left      *)
(* before a new process has come up.                                       *)
(***************************************************************************)
EXTENDS HeaderStore

CONSTANT MaxStarts   \* bound: times the process is started

ASSUME LifecycleAssumption == MaxStarts \in Nat

VARIABLES phase, starts

lifeVars == <<hvars, phase, starts>>

LifeInit == HeaderInit /\ phase = "down" /\ starts = 0

\* RedisStorage::new and connect.
Start ==
  /\ phase = "down"
  /\ starts < MaxStarts
  /\ phase' = "connected"
  /\ starts' = starts + 1
  /\ currentHeight' = 0
  /\ UNCHANGED <<redisVars, call, faults, historyVars, headerVars>>

\* A connect that fails is no step; a clear_database that fails ends the process.
FailClear ==
  /\ phase = "connected"
  /\ phase' = "down"
  /\ UNCHANGED <<hvars, starts>>

\* No call is in progress, and history begins anew.
Renewed ==
  /\ call' = [c \in Call |-> Idle]
  /\ req' = [c \in Call |-> NoReq]
  /\ faults' = 0 /\ headerFaults' = 0
  /\ batch' = [h \in Height |-> <<>>] /\ acked' = {} /\ early' = {}
  /\ layouts' = [h \in Height |-> {}] /\ cut' = {}
  /\ generated' = [h \in Height |-> <<>>]
  /\ answered' = [maker |-> {}, other |-> {}]

\* Mutant: the database is left as it is.
ServeUncleared ==
  /\ phase = "connected"
  /\ phase' = "serving"
  /\ Renewed
  /\ UNCHANGED <<currentHeight, redisVars, header, headerHash, starts>>

\* Mutant: the keys of blobs and headers are deleted, those of squares are not.
ClearAllButSquares ==
  /\ phase = "connected"
  /\ phase' = "serving"
  /\ blobData' = [h \in Height |-> [b \in Blob |-> Nil]]
  /\ members' = [h \in Height |-> [n \in Ns |-> {}]]
  /\ commitment' = [h \in Height |-> {}]
  /\ heightNs' = [h \in Height |-> {}]
  /\ blobIndex' = [h \in Height |-> [b \in Blob |-> Nil]]
  /\ header' = [h \in Height |-> Nil]
  /\ headerHash' = {}
  /\ Renewed
  /\ UNCHANGED <<currentHeight, eds, starts>>

\* FLUSHDB, after which the server is built and started: every key is gone.  (A
\* server that cannot be built is a Clear that is followed by a Stop at once.)
Clear ==
  /\ phase = "connected"
  /\ phase' = "serving"
  /\ blobData' = [h \in Height |-> [b \in Blob |-> Nil]]
  /\ members' = [h \in Height |-> [n \in Ns |-> {}]]
  /\ commitment' = [h \in Height |-> {}]
  /\ heightNs' = [h \in Height |-> {}]
  /\ eds' = [h \in Height |-> Nil]
  /\ blobIndex' = [h \in Height |-> [b \in Blob |-> Nil]]
  /\ header' = [h \in Height |-> Nil]
  /\ headerHash' = {}
  /\ Renewed
  /\ UNCHANGED <<currentHeight, starts>>

\* What is left of a call: a write under way.
Dropped(s, idle, writes) ==
  IF s.pc \in writes THEN [s EXCEPT !.out = "redisError"] ELSE idle

\* Ctrl-C or a crash: no handler goes on.
Stop ==
  /\ phase = "serving"
  /\ phase' = "down"
  /\ call' = [c \in Call |->
                IF call[c].pc = "storeEds" /\ ~ Accepts(call[c].square) THEN Idle
                ELSE Dropped(call[c], Idle, WritePc)]
  /\ req' = [c \in Call |-> Dropped(req[c], NoReq, HeaderWritePc)]
  /\ UNCHANGED <<currentHeight, redisVars, faults, historyVars, header, headerHash,
                 headerFaults, generated, answered, starts>>

Served ==
  /\ phase = "serving"
  /\ HeaderNext
  /\ UNCHANGED <<phase, starts>>

\* A write of the process that has ended.
Leftover ==
  /\ phase # "serving"
  /\ \E c \in Call :
       \/ Step(c) /\ UNCHANGED headerVars
       \/ HeaderStep(c)
       \/ LoseWrite(c) /\ UNCHANGED headerVars
       \/ LoseHeaderWrite(c)
  /\ UNCHANGED <<phase, starts>>

LifeNext == Start \/ FailClear \/ Clear \/ Stop \/ Served \/ Leftover

LifeSpec == LifeInit /\ [][LifeNext]_lifeVars

-----------------------------------------------------------------------------
(* Properties.                                                             *)

\* Whatever the process was doing when it ended, the next one that serves finds
\* nothing of it: what is stored at a height is of a vector submitted since, and
\* nothing, header or blob, is there above the current height (main clears the
\* database before it serves).
LivesStartAfresh ==
  phase = "serving" =>
     /\ NothingAboveCurrentHeight
     /\ HeightsHoldOneBatch
     /\ \A h \in Height : h > currentHeight => header[h] = Nil

\* The squares that a serving process caches have their indexes, as far as those
\* of a single process do: no index is of a square that an earlier one built, and
\* none is missing since the end of an earlier one cut its builder short (main
\* clears squares and indexes together).
ServedSquaresAreIndexed == phase = "serving" => UncutSquaresAreIndexed
=============================================================================
