# Verification of localestia

localestia is a stand-in for a Celestia node: a JSON-RPC server with the `blob`,
`share` and `header` methods of a node, which keeps everything in one Redis
database instead of a network. This directory models its behaviour in TLA+, checks
the models with TLC and proves theorems about them with TLAPS.

Paths such as `src/src/storage/redis_storage.rs:160` are relative to the directory
that holds the repository under `src/`; below, a bare line number is a line of
`redis_storage.rs`.

## 1. The system

### Components

| Component | State | Operations |
|---|---|---|
| `RedisStorage`, blobs (`redis_storage.rs`) | the counter `current_height` behind a mutex; in Redis `blob:<h>:<ns>:<commitment>`, `namespace:<h>:<ns>`, `commitment:<h>:<ns>:<commitment>`, `height_namespaces:<h>` | `store_blobs`, `store_blob_at_height`, `get_blob`, `get_all_blobs`, `get_namespaces_at_height`, `increment_height` |
| `RedisStorage`, squares | in Redis `eds:<h>` (a cache), `blob_index:<h>:<ns>:<commitment>`, and the `index` inside each blob | `get_eds_at_height` |
| `RedisStorage`, proofs and ranges | none of its own | `get_blob_proof`, `blob_included`, `get_share_range` |
| `RedisStorage`, headers | `header:<h>`, `header_hash:<hash>`; `current_height` again | `store_header`, `get_header_by_height`, `get_header_by_hash`, `wait_for_header`, `get_headers_by_range`, `get_latest_head` |
| `header_utils` | none | random headers made around a square |
| RPC modules (`rpc/blob.rs`, `rpc/share.rs`, `rpc/header.rs`) | none | one method per storage operation, with errors translated |
| `main.rs`, `rpc/server.rs` | the process | connect, FLUSHDB, serve, stop |

### How they interact

Every RPC method runs as its own asynchronous task and calls `RedisStorage` through
an `Arc`. The tasks share the height counter (a mutex held only for the increment)
and the Redis database. Nothing else is locked: the `Mutex<Connection>` made in `connect` is
not held across commands, each operation opens its own multiplexed connection, and no
operation uses MULTI or a script. A Redis command is atomic; a handler is a sequence of them,
and another handler may run between any two.

`get_eds_at_height` is the centre of the read side. `share.*`, `blob.Get`,
`blob.GetProof`, `blob.Included` and all header reads go through it, and despite its name it
*writes*: the first call builds the square of a height, caches it for good and gives
each blob its index.

### What is hard

* **Visibility before data.** `store_blobs` increments the height (:160) before it stores
  a blob (:163), so a reader can build, and cache, the square of half a batch.
* **Write order.** The square is cached (:1006) before its indexes are written
  (:1028-1064), four keys per blob are written one at a time, and a failure or a
  timeout between any two of them leaves the rest undone.
* **Timeouts.** Most commands are given up on after five seconds, but a write given up on may still reach
  Redis after its call has been answered. Some GETs (:397, :725, :769, :774, :876, :1030) have no timeout
  of the code's own: how long they wait is up to the client library.
* **Order.** SMEMBERS returns a set in no particular order; the layout of
  the square is in that order, and `from_ods` accepts only some orders.
* **Boundaries.** Width of the square, the padding share that shifts all indexes, rows of an
  index, the end of a range.
* **Headers.** Two generators of one height, random headers that may not validate, a wait loop of 30 attempts, ranges over a growing height.
* **Restart.** `main` clears the database while commands of another process may be on their way.

`PROJECT.json` lists each of these as a hazard at its line.

### What makes each component correct

* Blobs: heights are given out once; a height holds one batch; indexes never point at
  nothing; blobs of an answered submit are found; nothing found gets lost.
* Squares: only stored blobs, each once; complete if built after the submit was answered; the
  width is the least legal one; an index is the cell where its blob begins; a blob of
  an answered submit has one, and keeps it.
* Proofs and ranges: a range is the cells asked for, with proofs of their namespace; the rows of a blob's proof are rows that hold it, and
  `blob.Included` accepts a proof of any of them.
* Headers: a header commits to a square that was cached at its height; one header per height once its makers are
  done, and it is found by its hash; a call for a height that is there gets a header; a range is adjacent and leaves
  nothing out; a waiter is answered.
* Lifecycle: a new process starts from an empty store and does not see what an old one left.

## 2. Modules

| Module | What it is |
|---|---|
| `SquareLayout` | the arithmetic of a square: shares in order, width, the check of `from_ods`, and reference definitions for them |
| `SquareReads` | what is computed from a square: ranges of shares, rows of proofs. EXTENDS `SquareLayout` |
| `SquareGrowth` | every layout that the loop of `get_eds_at_height` can form, blob after blob, with the properties of `SquareLayout` and `SquareReads` as invariants. EXTENDS `SquareReads` |
| `BlobStore` | the blob and square half of `RedisStorage`: concurrent calls, one action per Redis command. EXTENDS `SquareLayout` |
| `BlobLedger` | the abstract specification of `BlobStore`: a ledger of heights without keys or commands |
| `HeaderStore` | the header half, composed with the blob half. EXTENDS `BlobStore` |
| `Lifecycle` | the process around both: start, FLUSHDB, serving, an end at any moment. EXTENDS `HeaderStore` |
| `LayoutProofs`, `GrowthProofs` | lemmas about the arithmetic of squares, and theorems about `SquareGrowth` |
| `BlobStoreProofs`, `LedgerProofs`, `SquareProofs` | theorems about `BlobStore`, each module on top of the one before; the last one, which is about squares and their indexes, uses `LayoutProofs` too |
| `HeaderStoreProofs`, `HeaderAnswerProofs` | theorems about `HeaderStore` |
| `LifecycleProofs` | theorems about `Lifecycle` |
| `MCSquareLayout`, `MCBlobStore`, `MCHeaderStore`, `MCLifecycle` | instances for TLC |

Three specifications refine one another. `BlobStore` implements `BlobLedger` under the mapping
`height <- currentHeight` and `visible[h] <-` the blobs whose commitment key and data are both there
(`Ledger == INSTANCE BlobLedger WITH ...`, property `ImplementsLedger`). `HeaderStore` implements `BlobStore` with
no mapping at all (`ImplementsBlobStore`): it has all its variables and more, and what a header call does to them is what a
client of `share.GetEDS` could do. `Lifecycle` behaves as `HeaderStore` from each FLUSHDB to the next end of the process.

### From the code to `BlobStore`

A *call* is one RPC in progress. Its `pc` names the next Redis command it issues; its other
fields are the locals of the handler that are live there. `Call` is a set of
slots, so the number of slots is the number of concurrent calls; `Finish` frees a slot.

| Code | Actions |
|---|---|
| `store_blobs`, empty vector | `SubmitNothing` |
| `increment_height` at the start of `store_blobs` | `AssignHeight` |
| the four commands of `store_blob_at_height` | `SetBlob`, `AddMember`, `SetCommitment`, `TrackNamespace` (the last also loops, or answers Ok) |
| `get_all_blobs` | `GetAll`, `ReadMembers` |
| `get_eds_at_height`: height check, cache read | `EdsHeightNotFound`, `ReadEds` |
| ... building the square | `ReadNamespaces`, `ReadMembers`, `PanicFromOds` |
| ... caching it and giving out indexes | `StoreEds`, `IndexBlob`, `MapIndex` |
| `share.GetEDS` | `GetEds`, `ReturnEds` |
| `get_blob` | `GetBlob`, (the square), `ReadCommitment`, `ReadBlob`, (the square again), `RereadBlob` |
| a command fails or times out | `FailRead`, `FailWrite`, `LoseWrite` |

Choices a reader should know of:

* `Blob` is a set of identities, a (namespace, commitment) pair each: this is what all keys are made
  of. The only part of a stored blob that changes is its index, so `blobData`
  is the index, `NoIndex` for none, `Nil` for no key. The client may send a blob with an
  index of its own (`ClientIndex`), which the code stores as it is.
* A reply to SMEMBERS is any sequence of the members (`Replies`), anew on each call.
* Steps are merged only where no other step can tell: the height check with the GET of the cached square (the height
  only grows); the GETs of listed keys with the SMEMBERS that listed them
  (only presence is used, and no key of the store is deleted by a call); the GET and SET of
  a blob being indexed (the SET would overwrite an index written in between by
  another builder just the same, and the other fields never change).
* `FailWrite` answers the call and leaves the command *abandoned*: it then either takes
  effect at any later time (the write's own action) or never does (`LoseWrite`). A client that
  disconnects, which drops the handler at an await, has the same effect.
* A blob whose `to_shares` fails is stored and listed, but has no place in the square (`Unshareable`).
* Namespaces are numbers, ordered as the code's `Namespace` is: 0 is the
  primary padding at the front of every square, `TailPadding` is above all others.
  Client namespaces are taken to be strictly between the two, which holds of every
  namespace a client may put user data in.
* `batch`, `acked`, `early`, `layouts`, `cut` and the call fields `asked` and `knew` are history: no guard reads them. `early` has the
  heights of which a builder read the namespaces before the submit was answered, `cut` those at which a builder was given up on at one of its writes.
* `Accepts` knows the greatest width, `MaxWidth`; the runs of `BlobStore` and `HeaderStore` have the code's 128 and stay far below it, `square_layout` reaches it.
* Left out: the path of `get_namespaces_at_height` for keys of an older
  type (unreachable: `main` clears the database first), the text of errors, logs, and the fallback for an empty commitment,
  which no commitment is.

### From the code to `SquareReads`

`ShareRange` is `get_share_range` (the rows, the columns of each, the namespace of the first share and, of each row, the proof of that namespace), `RangeRefused` its checks; `ProofRows` is the row
computation of `get_blob_proof` and `IncludedRows` that of `blob_included`, one expression each in the code and therefore two
definitions here. They are operators on a layout and an index; `BlobStore` says which layouts and indexes exist. A share is its row
and column in the original square, a namespace proof is the row and the namespace it is of, and
`Verifies` is what such a proof says: which shares of a namespace a row with one root has.

`SquareGrowth` is the loop over the blobs of a height: it appends the shares of one blob after another, each blob once, in any
order, and begins anew for the next height. Its states are all layouts there can be, sorted or not.

### From the code to `HeaderStore`

A header call has a record of its own in `req[c]`, and uses the slot `call[c]` of `BlobStore` for the one thing it does
there: `get_eds_at_height`.

| Code | Actions |
|---|---|
| `header.GetByHeight`, `LocalHead` and `NetworkHead`, `SyncState` and `SyncWait`, `WaitForHeight`, `GetRangeByHeight`, `GetByHash` | `GetHeaderByHeight`, `GetLatestHead`, `Sync`, `WaitForHeader`, `GetHeadersByRange`, `GetHeaderByHash` |
| `get_header_by_height`: the height check and the GET | `ReadHeaderNotFound`, `ReadHeader`, `ReadNoHeader` |
| ... `get_eds_at_height(..).await.unwrap()` | the `eds` call of `BlobStore` in the same slot, `PanicFromEds` |
| ... `generate_new` | `Generate`, `PanicFromValidate` (its `expect` on a header that does not validate) |
| `store_header` | `SetHeader`, `SetHash` (which ends with the update of the current height) |
| the loop of `get_headers_by_range`, its check of adjacency | `AfterHeader`, `RangeAnswer` |
| the sleep and the look of `wait_for_header` | `LookAgain` |
| `get_header_by_hash`: its two GETs | `ReadHash`, `ReadKey` |
| a command fails or times out | `FailHeaderRead`, `FailHeaderWrite`, `LoseHeaderWrite` |

Choices a reader should know of:

* `generate_new` draws hashes at random, so a header is known by its height and a running number; that it commits to its
  square is the history variable `generated`, the square each one was made from. Which of them `validate` refuses is the constant
  `Invalid`, any set of headers: the code says of its random values that they may be invalid (`src/src/utils/header_utils.rs:92`), and
  the checks themselves, keys and signatures are cryptography.
* The height check stands with the GET of the header in one step: the height only grows, and a header that is there stays there.
* A header is asked for by the hash of one that a client has been given, or by one of no header. `answered` tells headers
  their own maker has answered with from those that others have seen in between: finding 5 is about the second kind.
* `sleep` is the one place where a call waits without a command; each waking up is one `LookAgain`. How long a
  second is compared with other calls is left open, so every number of submits may come in between.
* The update of the current height in `SetHash` is modelled as the code writes it. That it never changes anything is not built in but
  is what `ImplementsBlobStore` says: `BlobStore` has no such step.
* A range begins with the height of a header, which is at least 1; a height asked for may be 0.

### From the code to `Lifecycle`

`Start` is `RedisStorage::new` and `connect`, `Clear` the FLUSHDB of `clear_database` and the start of the server
(nothing changes the state between the two), `FailClear` its failure, which ends the process, `Stop` the ctrl-c, a crash, or an error on the way. `Stop` may come between any
two commands of any call. No handler goes on after it, but a write that was under way may still be done or be
lost (`Leftover`) until the next FLUSHDB. **Assumption**: none is done after that FLUSHDB. Redis handles what it has read from a closed connection
before a new process has come up, so this is a matter of the set-up, not of the code. `Clear` renews the history variables too:
the properties are about what a life of the process does.

The variable `CLEAR_REDIS` of `src/DOCKER.md:51` is read nowhere: the database is always cleared, as `src/README.md:37` says.

## 3. What is checked

All runs use the code's own interleaving, one Redis command per step. Sizes are distinct states.

| Run | Instance | What it shows |
|---|---|---|
| `blob_safety` | 2 calls of any kind, 1 height, an empty vector, a batch of two namespaces and three blobs (one unshareable; an unsorted order of the others is refused by `from_ods`, and one of them is at another index in a square that lacks the other) or a vector with a blob twice that is sent with a wrong index, 1 fault; 0.8 million states | `TypeOK`, `IndexesFollowData`, `SquaresHoldStoredBlobs`, `AckedBlobsAreFound`, `NothingAboveCurrentHeight`, `UnracedSquareIsComplete`, `EveryIndexIsAPosition`, `UncutSquaresAreIndexed`, `ImplementsLedger`, `UnindexedGetsAreExplained`, `IndexesAreKept` |
| `header_store` | 2 calls, of them any a header call by height, by hash or waiting; 1 height, 1 fault in each half, the second header generated does not validate; 1.7 million states | `HeaderTypeOK`, `HeadersCommitToSquares`, `SealedHeadersAreFound`, `KnownHeightsHaveHeaders`, `SettledHeadersStay` |
| `header_ranges` | a reader of ranges, heads and sync states and a submitter, 3 heights, either of two batches at each, the first header of height 1 does not validate; 0.8 million states | `RangesAreRuns`, `KnownHeightsHaveHeaders`, `HeightsHoldOneBatch`; `ImplementsBlobStore` and `ImplementsLedger` over heights that are taken while they are read |
| `header_fair` | 2 calls of any blob kind, one of them instead a call for the head, the sync state, a range or a wait of two attempts, 1 height, with fairness | `EveryCallIsAnswered`, `EveryHeaderCallIsAnswered`, `WaitsAreOver` |
| `lifecycle` | 1 call of any blob kind or for a header in each life, 2 starts, 2 heights, an empty vector, batches with a blob twice and with an unshareable one, 1 fault; 0.9 million states | `LivesStartAfresh`, `ServedSquaresAreIndexed` |
| `square_layout` | every order of every subset of six blobs of 1, 2, 4, 8, 16 and 32 shares | `WidthsAreLeast`, `SortedLayoutsAreAccepted`, `RangesAreTheirCells`, `BlobsAreAtTheirIndex`, `ProofsAreOfTheFirstRow` |
| `blob_shadowed_index`, `blob_stale_square`, `blob_refused`, `square_included` | 1 or 2 heights, 1 to 3 calls, no faults | findings of section 5 |
| `blob_unindexed`, `header_hash` | 1 height, 2 calls, 1 fault | findings of section 5 |

**Why the bounds are enough.** Interactions are between calls on one height, except for
the height counter, so one height with two slots shows every pair; since a slot is reused, a run is not limited
to two calls in all. A stale square needs three: a submit and two builders. In `blob_safety` two are enough for the late write of a submit
that was given up on beside two builders, which then see different blobs and put one of them at different indexes; squares of one set in two layouts
are left to `blob_stale_square` and to the theorems. Three heights are the least that
let a range have a first, a middle and a last header, and a gap if one is skipped: with two, a header left out is at an end
and no gap. Its reader needs no second reader, since ranges meet each other only at the headers of single heights, which
`header_store` covers. A wait of two attempts has one that is not the last and one that is; the code's 30 differ in
number only. A batch of two or three blobs has a first, a middle and a last blob, blobs that share a
namespace and blobs that do not. One fault is enough to leave any one command abandoned, lost or
late relative to every other call. Two starts are one end of the process at any place and one new life. The widths of
`square_layout` go from the least one, 2, up to and beyond the greatest the run allows, 4 (128 in the
code), so that squares that fit, just fit and do not fit all occur. The slots of `Call` are
interchangeable where all of them may do the same, as are the two blobs of `header_ranges`, and the properties of the runs with `SYMMETRY` do not name any; the run of the
liveness properties has no symmetry.

**Bounds.** `MaxHeight` guards `AssignHeight`, `MaxFaults` guards `FailRead` and `FailWrite`, `MaxHeaderFaults` guards `FailHeaderRead` and
`FailHeaderWrite`, `MaxStarts` guards `Start`. `MaxAttempts` is a constant of the code, 30. `HeaderCall`, `Kind`, `Op` and `ClientOp` say which calls the clients of an instance make; the
proofs leave them open. The height is a `u64` in the code and cannot overflow in any run of the program.

**Fairness.** `FairHeaderSpec` asks of each call in progress that it goes on: `WF_hvars(HeaderStep(c))`, and
`WF_hvars(Step(c) /\ UNCHANGED headerVars)` for blob calls and for the square a header call waits for. The runtime polls
every task that is ready, a sleep ends, no handler holds a lock across an await except the increment, and Redis answers.
Clients owe nothing: beginning a call and freeing its slot are not fair, nor are faults. `WaitsAreOver` needs no more:
a wait whose height is there before its last look is answered although no one submits again. Where Redis
does *not* answer, most commands end by the code's timeout and the GETs listed in section 1 by whatever the client library does; the
properties claim nothing about that case.

**Deadlock** is checked in every run but `lifecycle`, where the process may be down with no start left.

**Mutants.** Every property of a passing run comes with a mutated definition (the operators whose comment begins with
"Mutant") that violates it: a lost error, a SET for a SADD, an increment outside its mutex, a dropped height
check, an index that forgets the padding, a database left uncleared, a wait that does not count its attempts, and so on. No specification uses them.

## 4. What is proved

For every set of calls, blobs, namespaces and requests and for all bounds:

| Module | Theorem | Statement |
|---|---|---|
| `BlobStoreProofs` | `Invariance` | `Spec => []IInv` |
| | `TypeCorrect` | `Spec => []TypeOK` |
| | `FreshHeights` | `Spec => []NothingAboveCurrentHeight` |
| | `IndexesPointAtData` | `Spec => []IndexesFollowData` |
| | `OneBatchPerHeight` | `Spec => []HeightsHoldOneBatch` |
| `LedgerProofs` | `LedgerImplemented` | `Spec => ImplementsLedger` |
| | `AnswersCorrect` | `Spec => []AckedBlobsAreFound` |
| `SquareProofs` | `SquaresCorrect` | `Spec => []SquaresHoldStoredBlobs` |
| | `UnracedSquaresCorrect` | `Spec => []UnracedSquareIsComplete` |
| | `PositionsCorrect` | `Spec => []EveryIndexIsAPosition` |
| | `SquaresAreIndexed` | `Spec => []UncutSquaresAreIndexed` |
| | `IndexesStay` | `Spec => IndexesAreKept` |
| | `UnindexedGets` | `Spec => UnindexedGetsAreExplained` |
| `GrowthProofs` | `WidthsCorrect` | `Spec => []WidthsAreLeast` |
| | `SortedLayoutsCorrect` | `Spec => []SortedLayoutsAreAccepted` |
| | `RangesAnswered` | `Spec => []RangesAreTheirCells`, and the same of every range |
| | `BlobRangesCorrect` | `Spec => []BlobsAreAtTheirIndex` |
| | `ProofsCorrect` | `Spec => []ProofsAreOfTheFirstRow` |
| `HeaderStoreProofs` | `HeaderInvariance` | `HeaderSpec => []HIInv` |
| | `HeaderTypeCorrect` | `HeaderSpec => []HeaderTypeOK` |
| | `HeadersImplementBlobStore` | `HeaderSpec => ImplementsBlobStore` |
| | `SealedHeadersCorrect` | `HeaderSpec => []SealedHeadersAreFound` |
| | `SettledHeadersCorrect` | `HeaderSpec => SettledHeadersStay` |
| `HeaderAnswerProofs` | `HeaderSquaresCorrect` | `HeaderSpec => []HeadersCommitToSquares` |
| | `RangesCorrect` | `HeaderSpec => []RangesAreRuns` |
| | `KnownHeightsCorrect` | `RequestsFit` implies `HeaderSpec => []KnownHeightsHaveHeaders` |
| `LifecycleProofs` | `LifeInvariance` | `LifeSpec => []LInv` |
| | `LivesCorrect` | `LifeSpec => []LivesStartAfresh` |
| | `ServedIndexesCorrect` | `LifeSpec => []ServedSquaresAreIndexed` |

The assumptions are those of the modules: `LayoutAssumption` (namespaces and
numbers of shares are positive, the blobs are finitely many), `WidthAssumption` (the greatest width is a power of two
and not below the least one, 128 and 2 in the code), `StoreAssumption` (the types of the
other constants, and that `Nil`, `NoIndex` and `NoBlob` are none of the values they stand beside) and `HeaderAssumption` (header
calls are calls, and at least one attempt is made). One theorem, `KnownHeightsCorrect`, needs more of an instance, and says so:
`RequestsFit`, that what a client submits in one vector, with its padding, has room in the widest square. The code does not
look: `from_ods` refuses a larger square and its `unwrap` panics, even where all is of one namespace. The runs `header_store` and `header_ranges` have such instances.

**`BlobStore`.** The three store invariants are not inductive: that `SetCommitment` keeps
`IndexesFollowData`, for example, depends on what the same call did two steps before. `IInv` adds
`CallInv`, which says for each place of a handler what it has achieved there: a call about to add a member has stored its
blob, one about to set the commitment is listed as a member, one about to track the namespace has its
commitment; what is left of a submit is part of the batch of its height; and a call that writes is at a
height that has been given out. For the other calls,
`CallInv` survives a step because the store only ever grows: `Grow` says that
the height, presence of data, members, commitments and tracked namespaces never shrink and that the batch
of a height taken never changes. Each action has a lemma that proves `IInv'` and `Grow` of it, with one step per
conjunct it can disturb; the actions that only move a call share `QuietStep` and `EndingStep`.
`AssignHeight` is the one step that changes `batch`, and it is `NothingAboveCurrentHeight`
that makes that harmless.

**`BlobLedger`.** What the ledger sees of a height is exactly what has a commitment key there (`VisibleIsCommitted`, from
`IndexesFollowData`), so only one command publishes: `SetCommitment`. For the order of publishing `IInv` is too weak, since it
knows of the rest of a vector only that it belongs to the batch. `LedgerInv` adds `Progress`: what a submit has left is the
end of its vector, and all that comes before has its commitment. With it `AssignHeight` is a `Reserve`, `SetCommitment` a
`Publish`, the `TrackNamespace` of the last blob an `Acknowledge`, and every other step leaves the ledger as it is (`Unseen`);
a failed or abandoned command needs no case of its own, since it never moves `todo` without its effect.

**Answers.** That nothing of an answered submit is missed is said by the ledger: its `Acknowledge` needs all of the batch to be visible, and what is
visible stays. Through the refinement this is `AckedComplete`, about the keys of the store (`LedgerKeepsAnswers`). `AnswerInv` carries it along a
call that began after the submit was answered: a blob.Get is not told that there is no such blob, and a blob.GetAll has, of what is `Wanted`, all but what
is in the namespaces it has yet to list (`Gathered`). Steps of other calls and of the other operations are `Plain`.

**Squares.** A builder lists one namespace after the other, with a new reply to SMEMBERS each time. `Built` says what makes that
work: what it has so far is stored and listed once, and disjoint from the namespaces that are left, since those are without repetition and each blob is in
the set of its own namespace only. `Complete` adds that, unless the height counts as early, all of the submit is in the layout or in a namespace that is left;
this holds at the start because the namespaces of an answered submit are tracked (`AckedTracked`). `LayoutInv` says it of every layout
ever cached, not only of the one in the cache: a later builder may replace it, and headers were made of earlier ones.

**The arithmetic of squares.** `FirstCell`, `DataShares` and `TailPadding` are folds and a flattening of the community modules, each of which stands for a
recursive function that is chosen by its equations. `LayoutProofs` first proves that such a function exists, which gives the equations, and
that two of them agree where their definitions do; then facts about prefixes of a layout follow by induction. The induction is over *sets*: a
set with 0 and the successors of its numbers has all numbers (`InductionOnNat`), since otherwise there is a least one that it lacks. So it
needs no induction theorem with an operator as a parameter, which no prover here could apply.
The main results: `CellsOfABlob` (a blob begins where the one before it ends, and its cells are the square's),
`WidthOfALayout` (the width is the least legal one; that of two powers of two the lesser is at most half of the other
comes from counting subsets, `PowerIsCardinality`), `SortedSquares` (rows and columns of a sorted layout are sorted, wherever the rows end) and `RangesAreCells`
(the rows and columns of a range, split at the ends of rows by division, are the cells asked for). The theorems of `GrowthProofs` follow from them
with the one invariant that a layout is a sequence without repetition. `ProofsCorrect` compares the rows by the width of the extended square with the rows
that really hold the blob: a blob that ends beyond the first row of the original square begins, by the wrong width, in a row that is too low or misses its last one.

**Positions.** `PInv` says where a builder is: what is left to index is the end of its square, and `next` is the cell where that begins (`IndexesFrom`).
So whatever it writes is the cell of a blob in a square that was cached; the history variable `layouts` keeps
that square when another builder replaces it. The padding share is the 1 that `next` starts from.

**Indexes.** `QInv` adds to `PInv` why indexes are there and stay. A blob is *placed* when its index and the key beside it are cells of cached squares (`Placed`).
Two things could go wrong: a builder could leave blobs out, and a write could take an index away.

* `OwnInv` is about the second. Only `SetBlob` writes a blob without an index; a submit that is still at work, or that has left a write behind, is the only one at its height, and the height is
  not answered. So no `SetBlob` is left at an answered height. Before the answer, what a submit has still to store has not been stored yet, if its vector repeats no blob, and no builder can
  have indexed it. That is `IndexesAreKept`.
* `BuilderInv` is about the first: at a height that is not early, the blobs a builder has behind it in its square are placed. All squares of
  such a height have the *same* blobs (`LayoutsAreComplete`), so it does not matter whose square the cache holds: whoever finishes has
  placed all of them, whatever the order of the other builders' writes. A builder that is given up on puts its height into `cut`, and is then of no concern.
* `IndexedInv` draws the two together: of a height with a cached square, not early and not cut, either a builder is still at work or every blob is placed. With one layout
  only, `Position` leaves one cell. That is `UncutSquaresAreIndexed`, and a blob that blob.Get finds without an index is one outside of all this: `UnindexedGetsAreExplained`.

None of it needs a bound on calls or faults: the exceptions are in the properties, and findings 1 to 3 are what the code does in them.

**`HeaderStore`.** Every action but one leaves `vars` alone or is an action of `BlobStore`; the one is `SetHash`,
which writes the current height. It writes what is there since `HeaderCallInv` has the call's height in
`1..currentHeight` from the moment it found it known, and heights only grow (`HeightGrows`, over all steps of `BlobStore`). So
every step is one of `BlobStore`, which gives the refinement and, by it, every theorem about `BlobStore`. For
the hashes, `HeaderKeysInv` says that what clients were given by a maker has its hash stored, and that a stored hash leads to a
height with a header; `HeaderCallInv` carries that along a call for a hash, from the moment it begins to its answer. As before, `HeaderGrow` (heights grow, headers and hashes stay)
keeps it for the calls that do not move. `SettledHeadersStay` follows from `SetHeader` being the only writer and its call having `first`.

For `HeadersCommitToSquares`, `CommitCallInv` says that the slot a header call waits for holds the square of its own height and is answered Ok only with one;
`CommitKeysInv` that headers are among those generated and those were made of cached layouts. The rest is `LayoutsAreComplete` of `SquareProofs`, which
applies because every step here is a step of `BlobStore`.

For `RangesAreRuns`, no invariant says that a range in progress has no gap: a height may be missing when it is read, and the next one there by the time *it*
is read. `Gathers` says that such a gap stays to the end, where the check of adjacency refuses the range, and that otherwise what is gathered is a run
which falls short of the heights read only beyond those that were there at first.

`KnownHeightsHaveHeaders` is about why a call is answered without a header, and the reason is in what its slot was told, steps before. `EInv` says
what each call may be told: a redis error has a fault that is counted, HeaderNotFound a height that is not there, and a panic a
layout of several namespaces, since a layout of one is sorted, and by `SortedSquares` accepted where it fits (`RequestsFit`). That a layout of several namespaces means
that several are *tracked* needs what the builder listed from (`ListsInv`), and tracked namespaces stay. `KInv` joins this with the header call that waits for the slot:
its height was there when it began, heights only grow, so the one reason left out is that the height is not there.

**`Lifecycle`.** `LInv` says that `HIInv` holds while the process serves, and otherwise that nothing is left of header calls but
abandoned writes (`Residue`), so that no leftover moves the height of a process that has connected. Then
FLUSHDB makes every state an initial one, whatever the last life left in Redis. Nothing is assumed of what is in
Redis in between.

`ServedInv` adds that `QInv` holds while the process serves. A step of a served header call is one of `BlobStore` (`HeaderInductive`), which `QInv` survives, and
FLUSHDB deletes squares and indexes together, so that it holds at the beginning of each life too: this is where a square left half-indexed by
the end of the process is done with.

**Only model-checked**: liveness (`EveryCallIsAnswered`, `EveryHeaderCallIsAnswered`, `WaitsAreOver`), which is beyond the prover,
as is ENABLED. Every invariant, action property and refinement of a passing run is proved as well.

## 5. Findings

Each is a run in which TLC finds the disagreement, with the lines quoted in `PROJECT.json`.

1. **Blobs that never get an index** (`blob_unindexed`, :321). A reader that builds the square before the answer of
   the submit caches it without the rest of the batch. The cache is never rebuilt, so every later `blob.Get` of these blobs fails with "Failed to set blob index": the retry of `get_blob`,
   which is to "force a regeneration of the EDS" (:392), finds the cached square and changes nothing. Nor does it need a second call: a command that fails between two
   indexes ends the builder, and leaves the rest without one (with one slot in the cfg TLC finds this way).
2. **A blob returned without its index** (`blob_shadowed_index`, :409). After its retry, `get_blob` checks
   the blob it has read again and returns the one it read first. Two concurrent gets of a fresh
   blob are enough.
3. **A square beside the indexes of another** (`blob_stale_square`, :1047). Two builders that saw different
   blobs leave the square of the one beside indexes of the other, in the blobs themselves.
4. **"The sorted array" is not sorted** (`blob_refused`, :999). Namespaces are laid out as
   SMEMBERS lists them; where a row or column is then out of order, `from_ods` fails and its `unwrap` panics (`PanicFromOds`). No concurrency is needed.
5. **A header that its hash does not find** (`header_hash`, :670). A header is stored under its height before its hash is, and is returned to others from then on. If its maker
   fails at one of the two writes, or is given up on, the hash is never stored (the behaviour TLC shows); if it is only not there yet, a client that is quick is told so too (what TLC shows without
   faults); and where two calls made the header of a height, the hash of the one that was overwritten leads to the other. `SealedHeadersAreFound` is what does hold.
6. **A blob looked for in the wrong row** (`square_included`, :498). `blob_included` and `get_blob_proof` divide an index into the
   original square by the width of the extended one, so that a blob beyond the first row is proved and looked for in a row that need not
   hold it. The two agree with each other, so a test that passes the proof of one to the other sees nothing; `ProofsAreOfTheFirstRow` says how far both are right.

What holds beside findings 1 to 3, for any number of calls and faults, is `UncutSquaresAreIndexed` and its companions: where no builder was early and none was cut short,
every blob of a cached square is indexed, and stays so.

## 6. Not modelled

* Cryptography and encodings: commitments, erasure coding, the roots and signatures of headers, Merkle proofs, serde. They carry no control.
* The copying of shares, samples and rows out of a square (`share_get_share`, `share_get_samples`, `share_get_row`, `share_get_namespace_data`, and `share_shares_available`): pure reads of a square that is there.
* The RPC server shell, error texts, type declarations, the container set-up and the tests: no state.
* A connection that `connect` cannot make: the process ends before it has a state.

## 7. What is left

Larger instances of `header_store`, with two heights or three calls, would add only combinations of the cases the present ones have, at many
times the states; the theorems cover them. `UncutSquaresAreIndexed` could be sharpened for a height that is `cut`: the blobs without an index are those
that were left to the builder given up on and to no other.
