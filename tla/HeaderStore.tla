----------------------------- MODULE HeaderStore -----------------------------
(***************************************************************************)
(* The header half of RedisStorage, over the blob half: header.GetByHeight *)
(* (get_header_by_height), GetByHash, WaitForHeight, GetRangeByHeight,     *)
(* LocalHead and NetworkHead, SyncState and SyncWait.                      *)
(*                                                                         *)
(* A header is made when it is first asked for, from the square of its     *)
(* height: the call then runs get_eds_at_height as a call of BlobStore, in *)
(* the same slot, and goes on with its result.                             *)
(***************************************************************************)
EXTENDS BlobStore

CONSTANTS
  HeaderCall,       \* the slots in which clients call header methods
  ClientOp,         \* the operations of BlobStore that clients use beside
  Kind,             \* the header operations clients use
  Invalid,          \* headers that validate refuses when they are generated
  MaxAttempts,      \* MAX_ATTEMPTS of wait_for_header, 30 in the code
  MaxHeaderFaults   \* bound: Redis commands of header calls that fail

ASSUME HeaderAssumption ==
  /\ HeaderCall \subseteq Call
  /\ "eds" \in Op /\ ClientOp \subseteq Op
  /\ Kind \subseteq {"height", "head", "sync", "hash", "wait", "range"}
  /\ MaxAttempts \in Nat \ {0}
  /\ MaxHeaderFaults \in Nat
  /\ Nil \notin Height \X Nat
  /\ Invalid \subseteq Height \X (Nat \ {0})

VARIABLES
  header,        \* header:<h>; a header is known by its height and a number
  headerHash,    \* the keys header_hash:<hash>, which all point to header:<h>
  req,           \* the state of each header call
  headerFaults,  \* Redis commands of header calls that have failed so far
  (* History.                                                             *)
  generated,     \* the squares of the headers generated at each height
  answered       \* the headers clients have been given

headerVars == <<header, headerHash, req, headerFaults, generated, answered>>
hvars == <<vars, headerVars>>

-----------------------------------------------------------------------------
(* A header call.  generate_new draws its hashes at random: no two headers *)
(* are equal, and the n-th one generated at height h is <<h, n>>.          *)

Header == Height \X (Nat \ {0})

HeaderPc == {"idle", "sleep", "readHeader", "building", "setHeader", "setHash",
             "readHash", "readKey", "done"}

HeaderOutcome == Outcome \cup {"timeout", "invalidRange"}

HeaderReq ==
  [kind     : {"none", "height", "head", "sync", "hash", "wait", "range"},
   pc       : HeaderPc,
   out      : HeaderOutcome,
   height   : 0..MaxHeight,        \* the height at work
   upto     : 0..MaxHeight,        \* the last height of the range
   attempts : 0..MaxAttempts,      \* times still to look for the height
   hash     : Header \cup {Nil},   \* the header asked for by its hash
   new      : Nat,                 \* the number of the header generated
   got      : Seq(Header),         \* the headers of the answer
   first    : BOOLEAN,             \* history: there was no header to replace
   from     : 0..MaxHeight,        \* history: the first height asked for
   seen     : 0..MaxHeight,        \* history: the current height at the beginning
   sealed   : BOOLEAN]             \* history: the maker of hash had it answered

NoReq ==
  [kind |-> "none", pc |-> "idle", out |-> "pending", height |-> 0, upto |-> 0,
   attempts |-> 0, hash |-> Nil, new |-> 0, got |-> <<>>, first |-> FALSE,
   from |-> 0, seen |-> 0, sealed |-> FALSE]

HeaderInit ==
  /\ Init
  /\ header = [h \in Height |-> Nil]
  /\ headerHash = {}
  /\ req = [c \in Call |-> NoReq]
  /\ headerFaults = 0
  /\ generated = [h \in Height |-> <<>>]
  /\ answered = [maker |-> {}, other |-> {}]

Answer(s, out) == [s EXCEPT !.pc = "done", !.out = out]

HeaderWritePc == {"setHeader", "setHash"}

AbandonedHeader(c) == req[c].out = "redisError" /\ req[c].pc \in HeaderWritePc

\* Mutant: whether the headers of a range follow each other is not verified.
RangeAnswerUnverified(s) == Answer(s, "ok")

\* The end of get_headers_by_range.
RangeAnswer(s) ==
  IF \A i \in 2..Len(s.got) : s.got[i][1] = s.got[i - 1][1] + 1
  THEN Answer(s, "ok")
  ELSE Answer(s, "invalidRange")

\* get_header_by_height has answered, with a header (a sequence of one) or
\* HeaderNotFound (an empty one): the range goes on, and skips what is missing;
\* the others are answered.
AfterHeader(s, hd) ==
  LET t == [s EXCEPT !.got = @ \o hd] IN
  IF s.kind # "range"
  THEN Answer(t, IF hd = <<>> THEN "headerNotFound" ELSE "ok")
  ELSE IF s.height < s.upto
       THEN [t EXCEPT !.height = @ + 1, !.pc = "readHeader"]
       ELSE RangeAnswer(t)

-----------------------------------------------------------------------------
(* The calls begin.                                                        *)

BeginWith(c, s) ==
  /\ c \in HeaderCall
  /\ s.kind \in Kind
  /\ req[c].pc = "idle"
  /\ call[c].pc = "idle"
  /\ req' = [req EXCEPT ![c] = [s EXCEPT !.from = s.height, !.seen = currentHeight]]
  /\ UNCHANGED <<vars, header, headerHash, headerFaults, generated, answered>>

NewReq(kind, h, pc) == [NoReq EXCEPT !.kind = kind, !.height = h, !.pc = pc]

GetHeaderByHeight(c, h) == BeginWith(c, NewReq("height", h, "readHeader"))

\* get_latest_head reads the current height and asks for its header.
GetLatestHead(c) == BeginWith(c, NewReq("head", currentHeight, "readHeader"))

\* header_sync_state and header_sync_wait have nothing to do before the first
\* height and ask for the header of the current one after that.
Sync(c) ==
  BeginWith(c, IF currentHeight = 0 THEN Answer(NewReq("sync", 0, "idle"), "ok")
               ELSE NewReq("sync", currentHeight, "readHeader"))

\* wait_for_header asks at once where the height is there.
WaitForHeader(c, h) ==
  LET pc == IF h <= currentHeight THEN "readHeader" ELSE "sleep"
  IN  BeginWith(c, [NewReq("wait", h, pc) EXCEPT !.attempts = MaxAttempts])

GetHeadersByRange(c, from, to) ==
  LET s == [NewReq("range", from, "readHeader") EXCEPT !.upto = to]
  IN  BeginWith(c, IF from > to THEN Answer(s, "invalidRange") ELSE s)

\* A client asks for the hash of a header it was given, or for one of no header.
GetHeaderByHash(c, hd) ==
  BeginWith(c, [NewReq("hash", 0, "readHash") EXCEPT !.hash = hd,
                                                     !.sealed = hd \in answered.maker])

-----------------------------------------------------------------------------
(* get_header_by_height                                                    *)

AnsweredBy(c, s) ==
  answered' = IF s.pc = "done" /\ s.out = "ok" /\ s.got # <<>>
              THEN IF req[c].pc = "setHash"
                   THEN [answered EXCEPT !.maker = @ \cup {Last(s.got)},
                                         !.other = @ \cup ToSet(Front(s.got))]
                   ELSE [answered EXCEPT !.other = @ \cup ToSet(s.got)]
              ELSE answered

\* The rest of the step of call c: it goes on as s.
GoesOn(c, s) ==
  /\ req' = [req EXCEPT ![c] = s]
  /\ AnsweredBy(c, s)

ReadHeaderNotFound(c) ==
  /\ req[c].pc = "readHeader"
  /\ HeightUnknown(req[c].height)
  /\ GoesOn(c, AfterHeader(req[c], <<>>))
  /\ UNCHANGED <<vars, header, headerHash, headerFaults, generated>>

\* The height check and the GET of header:<h>, which finds a header.
ReadHeader(c) ==
  LET h == req[c].height IN
  /\ req[c].pc = "readHeader"
  /\ ~ HeightUnknown(h)
  /\ header[h] # Nil
  /\ GoesOn(c, AfterHeader(req[c], << <<h, header[h]>> >>))
  /\ UNCHANGED <<vars, header, headerHash, headerFaults, generated>>

\* Mutant: the header that is there is not looked for.
ReadNoHeaderAnyway(c) ==
  LET h == req[c].height IN
  /\ req[c].pc = "readHeader"
  /\ ~ HeightUnknown(h)
  /\ GetEds(c, h)
  /\ req' = [req EXCEPT ![c].pc = "building", ![c].first = header[h] = Nil]
  /\ UNCHANGED <<header, headerHash, headerFaults, generated, answered>>

\* It finds none, and get_eds_at_height begins.
ReadNoHeader(c) ==
  LET h == req[c].height IN
  /\ req[c].pc = "readHeader"
  /\ ~ HeightUnknown(h)
  /\ header[h] = Nil
  /\ GetEds(c, h)
  /\ req' = [req EXCEPT ![c].pc = "building", ![c].first = header[h] = Nil]
  /\ UNCHANGED <<header, headerHash, headerFaults, generated, answered>>

\* The unwrap of an error of get_eds_at_height, or a panic within it.
PanicFromEds(c) ==
  /\ req[c].pc = "building"
  /\ call[c].out \notin {"pending", "ok"}
  /\ GoesOn(c, Answer(req[c], "panic"))
  /\ UNCHANGED <<vars, header, headerHash, headerFaults, generated>>

\* Mutant: the header is generated for an empty square.
GenerateForNoSquare(c) ==
  LET h == req[c].height
      new == Len(generated[h]) + 1
  IN
  /\ req[c].pc = "building"
  /\ call[c].out = "ok"
  /\ <<h, new>> \notin Invalid
  /\ Finish(c)
  /\ generated' = [generated EXCEPT ![h] = Append(@, <<>>)]
  /\ req' = [req EXCEPT ![c].pc = "setHeader", ![c].new = new]
  /\ UNCHANGED <<header, headerHash, headerFaults, answered>>

\* generate_new, with the roots of the square.
Generate(c) ==
  LET h == req[c].height
      new == Len(generated[h]) + 1
  IN
  /\ req[c].pc = "building"
  /\ call[c].out = "ok"
  /\ <<h, new>> \notin Invalid
  /\ Finish(c)
  /\ generated' = [generated EXCEPT ![h] = Append(@, call[c].square)]
  /\ req' = [req EXCEPT ![c].pc = "setHeader", ![c].new = new]
  /\ UNCHANGED <<header, headerHash, headerFaults, answered>>

\* The expect of generate_new, on a header that its own validation refuses: what
\* it draws at random may make one.
PanicFromValidate(c) ==
  LET h == req[c].height IN
  /\ req[c].pc = "building"
  /\ call[c].out = "ok"
  /\ <<h, Len(generated[h]) + 1>> \in Invalid
  /\ Finish(c)
  /\ generated' = [generated EXCEPT ![h] = Append(@, call[c].square)]
  /\ GoesOn(c, Answer(req[c], "panic"))
  /\ UNCHANGED <<header, headerHash, headerFaults>>

AfterHeaderWrite(c, s) == GoesOn(c, IF AbandonedHeader(c) THEN Answer(req[c], "redisError") ELSE s)

\* Mutant: the header counts as stored before its hash is.
SetHeaderOnly(c) ==
  LET h == req[c].height IN
  /\ req[c].pc = "setHeader"
  /\ header' = [header EXCEPT ![h] = req[c].new]
  /\ req' = [req EXCEPT ![c] = AfterHeader(@, << <<h, req[c].new>> >>)]
  /\ answered' = [answered EXCEPT !.maker = @ \cup {<<h, req[c].new>>}]
  /\ UNCHANGED <<vars, headerHash, headerFaults, generated>>

\* store_header: SET header:<h>.
SetHeader(c) ==
  LET h == req[c].height IN
  /\ req[c].pc = "setHeader"
  /\ header' = [header EXCEPT ![h] = req[c].new]
  /\ AfterHeaderWrite(c, [req[c] EXCEPT !.pc = "setHash"])
  /\ UNCHANGED <<vars, headerHash, headerFaults, generated>>

\* Mutant: the current height is that of the header, be it higher or not.
HeightAfterAnyHeader(h) == h

\* store_header: the current height becomes that of the header if it is higher.
HeightAfterHeader(h) == IF h > currentHeight THEN h ELSE currentHeight

\* store_header: SET header_hash:<hash> and the update of the current height,
\* which a call that has given up on the SET does not reach.
SetHash(c) ==
  LET h == req[c].height
      hd == <<h, req[c].new>>
  IN
  /\ req[c].pc = "setHash"
  /\ headerHash' = headerHash \cup {hd}
  /\ currentHeight' = IF AbandonedHeader(c) THEN currentHeight ELSE HeightAfterHeader(h)
  /\ AfterHeaderWrite(c, AfterHeader(req[c], <<hd>>))
  /\ UNCHANGED <<redisVars, call, faults, historyVars, header, headerFaults, generated>>

-----------------------------------------------------------------------------
(* wait_for_header                                                         *)

\* Mutant: the height has to be passed, not just to be reached.
LookAgainLater(c) ==
  LET s == req[c] IN
  /\ s.pc = "sleep"
  /\ req' = [req EXCEPT ![c] =
               IF s.height < currentHeight THEN [s EXCEPT !.pc = "readHeader"]
               ELSE IF s.attempts = 1 THEN Answer([s EXCEPT !.attempts = 0], "timeout")
               ELSE [s EXCEPT !.attempts = @ - 1]]
  /\ UNCHANGED <<vars, header, headerHash, headerFaults, generated, answered>>

\* Mutant: the last attempt does not end the wait.
LookAgainPastTheLast(c) ==
  LET s == req[c] IN
  /\ s.pc = "sleep"
  /\ req' = [req EXCEPT ![c] = IF s.height <= currentHeight
                               THEN [s EXCEPT !.pc = "readHeader"]
                               ELSE [s EXCEPT !.attempts = @ - 1]]
  /\ UNCHANGED <<vars, header, headerHash, headerFaults, generated, answered>>

\* Mutant: attempts are not counted.
LookAgainForever(c) ==
  LET s == req[c] IN
  /\ s.pc = "sleep"
  /\ req' = [req EXCEPT ![c] = IF s.height <= currentHeight
                               THEN [s EXCEPT !.pc = "readHeader"] ELSE s]
  /\ UNCHANGED <<vars, header, headerHash, headerFaults, generated, answered>>

\* The call wakes up after a second.
LookAgain(c) ==
  LET s == req[c] IN
  /\ s.pc = "sleep"
  /\ req' = [req EXCEPT ![c] =
               IF s.height <= currentHeight THEN [s EXCEPT !.pc = "readHeader"]
               ELSE IF s.attempts = 1 THEN Answer([s EXCEPT !.attempts = 0], "timeout")
               ELSE [s EXCEPT !.attempts = @ - 1]]
  /\ UNCHANGED <<vars, header, headerHash, headerFaults, generated, answered>>

-----------------------------------------------------------------------------
(* get_header_by_hash                                                      *)

ReadHash(c) ==
  /\ req[c].pc = "readHash"
  /\ GoesOn(c, IF req[c].hash \in headerHash
               THEN [req[c] EXCEPT !.pc = "readKey", !.height = req[c].hash[1]]
               ELSE Answer(req[c], "headerNotFound"))
  /\ UNCHANGED <<vars, header, headerHash, headerFaults, generated>>

\* The header at the key the hash points to, whatever its own hash is.
ReadKey(c) ==
  LET h == req[c].height IN
  /\ req[c].pc = "readKey"
  /\ GoesOn(c, IF header[h] = Nil THEN Answer(req[c], "headerNotFound")
               ELSE Answer([req[c] EXCEPT !.got = << <<h, header[h]>> >>], "ok"))
  /\ UNCHANGED <<vars, header, headerHash, headerFaults, generated>>

-----------------------------------------------------------------------------
(* Redis commands that fail or time out, as in BlobStore.                  *)

FailHeaderRead(c) ==
  /\ \/ req[c].pc \in {"readHash", "readKey"}
     \/ req[c].pc = "readHeader" /\ ~ HeightUnknown(req[c].height)
  /\ headerFaults < MaxHeaderFaults
  /\ headerFaults' = headerFaults + 1
  /\ req' = [req EXCEPT ![c] = Answer(@, "redisError")]
  /\ UNCHANGED <<vars, header, headerHash, generated, answered>>

FailHeaderWrite(c) ==
  /\ req[c].pc \in HeaderWritePc
  /\ req[c].out = "pending"
  /\ headerFaults < MaxHeaderFaults
  /\ headerFaults' = headerFaults + 1
  /\ req' = [req EXCEPT ![c].out = "redisError"]
  /\ UNCHANGED <<vars, header, headerHash, generated, answered>>

LoseHeaderWrite(c) ==
  /\ AbandonedHeader(c)
  /\ req' = [req EXCEPT ![c] = Answer(@, "redisError")]
  /\ UNCHANGED <<vars, header, headerHash, headerFaults, generated, answered>>

FinishHeader(c) ==
  /\ req[c].pc = "done"
  /\ req' = [req EXCEPT ![c] = NoReq]
  /\ UNCHANGED <<vars, header, headerHash, headerFaults, generated, answered>>

-----------------------------------------------------------------------------
BeginHeader(c) ==
  \/ \E h \in 0..MaxHeight : GetHeaderByHeight(c, h) \/ WaitForHeader(c, h)
  \/ \E from \in Height, to \in 0..MaxHeight : GetHeadersByRange(c, from, to)
  \/ GetLatestHead(c) \/ Sync(c)
  \/ \E hd \in answered.maker \cup answered.other \cup {Nil} : GetHeaderByHash(c, hd)

\* What a header call in progress does next by itself.
HeaderStep(c) ==
  \/ ReadHeaderNotFound(c) \/ ReadHeader(c) \/ ReadNoHeader(c) \/ PanicFromEds(c)
  \/ Generate(c) \/ PanicFromValidate(c) \/ SetHeader(c) \/ SetHash(c)
  \/ LookAgain(c) \/ ReadHash(c) \/ ReadKey(c)

HeaderFault(c) == FailHeaderRead(c) \/ FailHeaderWrite(c) \/ LoseHeaderWrite(c)

\* A step of the blob half: of a call of a client, which only begins in a slot
\* with no header call, or of the square that a header call waits for.
BlobStep(c) ==
  /\ \/ req[c].pc = "idle" /\ Begin(c) /\ call'[c].op \in ClientOp
     \/ req[c].pc # "building" /\ Finish(c)
     \/ Step(c)
     \/ Fault(c)
  /\ UNCHANGED headerVars

HeaderNext ==
  \E c \in Call :
     BlobStep(c) \/ BeginHeader(c) \/ HeaderStep(c) \/ HeaderFault(c) \/ FinishHeader(c)

HeaderSpec == HeaderInit /\ [][HeaderNext]_hvars

\* Every handler is a task of the runtime, which polls a task that is ready, and
\* Redis answers: a call in progress goes on, be it a blob call, a header call or
\* the square that one waits for, and sleep ends.  (Where Redis does not answer,
\* most commands are given up on after five seconds, by the code; the GETs of
\* eds:<h>, of a blob read again, of a blob to be indexed and of headers are left
\* to the client library of Redis.)
FairHeaderSpec ==
  /\ HeaderSpec
  /\ \A c \in Call : WF_hvars(Step(c) /\ UNCHANGED headerVars)
  /\ \A c \in HeaderCall : WF_hvars(HeaderStep(c))

-----------------------------------------------------------------------------
(* Properties.                                                             *)

HeaderTypeOK ==
  /\ header \in [Height -> (Nat \ {0}) \cup {Nil}]
  /\ headerHash \subseteq Header
  /\ req \in [Call -> HeaderReq]
  /\ headerFaults \in 0..MaxHeaderFaults
  /\ generated \in [Height -> Seq(Seq(Blob))]
  /\ answered \in [maker : SUBSET Header, other : SUBSET Header]

\* Header calls do nothing to the blob half that a client could not: their
\* squares are calls of share.GetEDS, and the update of the current height at
\* the end of store_header never changes it.
ImplementsBlobStore == Spec

\* A header commits to a square that was cached at its height at some time; one
\* of a height whose squares were all begun after the submit was answered
\* commits to every blob of it (get_header_by_height, over get_eds_at_height).
HeadersCommitToSquares ==
  \A h \in Height : header[h] # Nil =>
     LET layout == generated[h][header[h]] IN
     /\ layout \in layouts[h]
     /\ h \in acked \ early => ToSet(layout) = Submitted(h) \ Unshareable

\* A header is replaced only by a call that had found none: once those calls
\* are over, header.GetByHeight gives everyone the same header.
SettledHeadersStay ==
  [][\A h \in Height :
       header[h] # Nil /\ header'[h] # header[h] =>
         \E c \in Call : req[c].height = h /\ req[c].pc = "setHeader" /\ req[c].first]_hvars

\* A header that its maker has answered with can be asked for by its hash, and
\* the answer is a header of the same height.
SealedHeadersAreFound ==
  \A c \in Call :
     LET s == req[c] IN
     s.kind = "hash" /\ s.sealed =>
       /\ s.out # "headerNotFound"
       /\ s.out = "ok" => s.got[1][1] = s.hash[1]

InvalidGenerated(h) == \E n \in 1..Len(generated[h]) : <<h, n>> \in Invalid

\* A call for one header of a height that was there when it began is answered
\* with a header, though heights grow, headers are stored and squares are cached
\* meanwhile; without one it is left only by a Redis command that failed, or by
\* the panic over a square of several namespaces or over a generated header that
\* is invalid (get_header_by_height).
KnownHeightsHaveHeaders ==
  \A c \in Call :
     LET s == req[c] IN
     s.kind \in {"height", "head", "sync", "wait"} /\ s.from \in 1..s.seen =>
       \/ s.out \in {"pending", "ok"}
       \/ s.out = "redisError" /\ headerFaults > 0
       \/ s.out = "panic" /\ \/ faults > 0
                              \/ Cardinality(heightNs[s.height]) > 1
                              \/ InvalidGenerated(s.height)

\* A range that begins at a height that is there is answered with headers of
\* consecutive heights from there on, as many as there were at least when the
\* call began, though the current height grows while the range is read.
RangesAreRuns ==
  \A c \in Call :
     LET s == req[c] IN
     s.kind = "range" /\ s.out = "ok" /\ s.from \in 1..s.seen =>
       /\ \A i \in 1..Len(s.got) : s.got[i][1] = s.from + i - 1
       /\ \A h \in s.from..s.upto : h <= s.seen => h < s.from + Len(s.got)

\* Every header call is answered in the end, a waiting one by its last attempt.
EveryHeaderCallIsAnswered ==
  \A c \in HeaderCall : req[c].pc # "idle" ~> req[c].pc = "done" \/ req[c].out # "pending"

\* A wait whose height is there before its last look ends with the header of
\* it, or over one that is invalid, and not with a timeout: the look comes after
\* the sleep (wait_for_header).
WaitsAreOver ==
  \A c \in HeaderCall :
     req[c].pc = "sleep" /\ req[c].height \in 1..currentHeight
       ~> \/ req[c].out = "ok"
          \/ req[c].out = "panic" /\ InvalidGenerated(req[c].height)

-----------------------------------------------------------------------------
(* What a test says of header.GetByHash.                                   *)

\* The header that a client was given is what its hash finds.
HashFindsItsHeader ==
  \A c \in Call :
     LET s == req[c] IN
     s.kind = "hash" /\ s.hash # Nil =>
       s.out # "headerNotFound" /\ (s.out = "ok" => s.got = <<s.hash>>)
=============================================================================
