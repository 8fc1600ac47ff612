# A TLA+ model of BAM

BAM (blob-authenticated messaging, ERC-8180) moves signed messages to
Ethereum in blobs.  Authors hand messages to a **Poster**, which queues them in
a relational store, packs the queues of several content tags into one blob
transaction at a time, and records the inclusion.  **Readers** follow the
contract's events and rebuild confirmed messages in the same tables, and
**Indexers** project confirmed messages into application tables.  The contracts
only validate a call and emit events; the truth is the canonical chain, and the
packages must agree with it through forks, timeouts, crashes and concurrent
processes.  That agreement is what this project specifies.

## Inventory

| Component | State | Operations | What is hard | Correct when |
|---|---|---|---|---|
| `bam-store` | tables `messages`, `batches`, `nonces`, `tag_seq`, `reader_cursor` | `insertPending`, `upsertObserved`, `markReorged`, `upsertBatch`, `updateBatchStatus`, lists | two processes write the same rows; COALESCE merges | rows and batches agree; bodies never change |
| Poster: ingest | nonce tracker, queue | `checkMonotonicity`, `insertPending` in one transaction | retries, lazily seeded tracker, reorged rows at the key | an acknowledged message is never lost or replaced |
| Poster: aggregator loop | tick in flight, back-off, health | snapshot, plan, send, wait, commit | five awaits; timeout, lost reply, crash between any two | each message is posted, once if nothing fails, and recorded |
| Poster: reorg watcher | candidate list of a tick | list, look up, reorg and re-enqueue | look-ups interleave with forks and commits; packed transactions | whatever a fork removed is queued again |
| Poster: planner and policy | per-tag streaks | `select`, `fill`, `planPack` | capacities in bytes and field elements, starvation | segments are disjoint and fit; the oldest tag is not skipped for ever |
| Reader | cursor | live tail, backfill, watcher, resets | rows and cursor in separate transactions, unreachable blobs | no event behind the cursor is missing |
| Poster: intake and views | rate-limit windows, health | gates of `POST /submit`, read views, HTTP answers | order of the gates; views read rows another step rewrites | a signer is not crowded out; a client can find what was accepted |
| Log scan, blob fetch | none / archive | `eth_getLogs` paging, pairing, source fallback, search of a beacon slot | provider limits, lying sources, gaps | every event once, with its segment; only verified bytes, and those whenever a source has them |
| Indexer | cursors per handler generation | forward pass, reorg pass, migration | late confirmations, equal timestamps | the projection equals the confirmed messages |
| Contracts: registries | keys, delegations, indices | register, rotate, revoke, dispatch | call sequences of several parties, replayed proofs | a key verifies only for whom it was proven |
| Contracts: stakes, disputes, exposures | stakes, disputes, records, ether | stake, withdraw, slash, challenge, resolve, expose | refused transfers, swallowed failures | the contracts hold what they owe; records rest on exposures |
| Coprocessor | rows and watermarks of two jobs | validate, prove, recover, serve | restarts, failures between rows and watermark, reorgs | a message is listed once, proven, without a gap |
| Wire formats | none | encode and decode batches, blobs, contents, exposures; check signatures | several implementations of one format | all readers read the same, and what was written |
| Clients | composers, feeds, comment widget, forum, timeline | compose, retry, refresh, build threads | lost replies, rows that move between two reads | the user is told what happened; nothing is shown twice or left out |
| Applications' API routes | none | forward a request to a service, or put an answer together from several | services that are down, garbled, or ahead of one another | a page never shows less, or something else, as if it were the whole |
| Explorer | settings per tab and in the browser's storage | load panels, change and apply settings | two loads in flight; two tabs | the panels are those of the settings the tab shows |
| Starting of the services | environment, dotenv files, command line | read the configuration, reconcile, open the store, run | settings given twice, or differently to two services | a service runs as it was told, or says why not |
| CLI, other pages | none | front ends | nothing of their own | out of scope |

Interactions: HTTP requests call ingest, `POST /flush` calls a tick; the
aggregator and watcher workers run on timers (`WorkerTimer`); Poster and Reader
share the store's tables through serializable transactions; both learn about
the chain by RPC only; the Indexer reads the tables and writes its own.

## Modules

| Module | Models | Extends |
|---|---|---|
| `BamStore` | the tables and each statement of `postgres.ts` as an operator from old table to new table | |
| `L1` | mempool, mining, forks, reverted calls (external) | `BamStore` |
| `Poster` | ingest, aggregator ticks, reorg watcher, crash | `L1` |
| `Reader` | live tail, its reorg watcher, backfill, resets, crash, and the rest of the system as its environment | `L1` |
| `Indexer` | migration and generations, forward and reorg passes, reset command, crash; the writers of the source as its environment | `BamStore` |
| `MessageLog` | abstract: a queue per tag, what is on chain, what a reorg took back | |
| `PosterViews` | the read views of the Poster, and the Poster as an implementation of `MessageLog` | `Poster` |
| `BamSystem` | Poster and Reader on one store, with another Poster on the contract | `Poster`, `Reader` |
| `Registries` | ECDSA and BLS registry, dispatcher | |
| `Exposure` | SocialBlobsCore, BLSExposer, ExposureRecord, stakes, disputes, dictionaries | `Registries` |
| `Coprocessor` | the validation and the proof job, recovery, shutdown, crash | |
| `ReadApi` | the HTTP interfaces of the four services; a client that pages | |
| `Retrieval` | log scan and pairing, blob sources, search of a beacon slot | |
| `Contents` | the applications' formats of contents | |
| `Codec` | batches, blob segments, ZSTD guard, the guest's port; signature checks | `Contents` |
| `OnChainCode` | BPE compression and its decoder contract, exposure batches and KZG byte ranges | `Codec` |
| `Intake` | gates of a submission and the rate limiter; policy, planner, self-check, back-off | `Codec` |
| `Clients` | composers with their retries, feeds, the comment widget | |
| `Threads` | the comment tree, the forum's threads and badges | |
| `Timeline` | the program apps/bam-indexer | |
| `Startup` | environment, command line, reconciliation and exit of the three services | |
| `Proxies` | the applications' API routes and the clients they call the services through | |
| `Explorer` | settings, loads and panels of the explorer | `ReadApi`, `Proxies` |
| `MCPoster`, `MCReader`, `MCIndexer`, `MCSystem`, `MCPeriphery` | instances for TLC | the modules they check |
| `StoreProofs` | lemmas about the statements of the store and the steps of the chain | `L1` |
| `PosterProofs` | type correctness, nonce tracker, durability, write-once; agreement of `messages` and `batches`; inclusions and re-enqueued messages | `Poster`, `StoreProofs` |
| `PosterLogProofs` | the Poster implements `MessageLog`; its views show what it accepted | `PosterProofs`, `PosterViews` |
| `ReaderProofs` | the Reader's types, the completeness of its cursor, snapshots and message rows | `Reader`, `StoreProofs` |
| `SystemProofs` | Poster and Reader on one store tell one story | `BamSystem`, `PosterProofs`, `ReaderProofs` |
| `IndexerProofs` | type correctness of the Indexer, frozen generations, the forward and the reorg cursor | `Indexer`, `StoreProofs` |
| `ChainProofs` | what reads and writes the chain: the key tables, the records of exposures, the ether of stakes and disputes; the proof job; the blob fetch and slot search; the checks of a signature | `Exposure`, `Coprocessor`, `Retrieval`, `Codec` |
| `PeripheryProofs` | what serves people: the rate limiter, the clients, the starting of the services; the services' routes, the applications' pages, the explorer | `Intake`, `Clients`, `Startup`, `Explorer` |

### How state and actions correspond to the code

*Store.*  A key is `<<sender, nonce>>`; `messages[k]` is the row or
`NoMessage`.  A body stands for `(contentTag, contents)`, which `messageHash`
determines, so comparing hashes is comparing bodies.  A batch is identified by
`<<transaction, tag>>`; timestamps keep whether they are null, `blockNumber` is
kept because the watcher's window reads it.  `withTxn` is serializable, so every
transaction of the code is one action, and its effect is built from the
operators of `BamStore`.

*Ingest* is one transaction: `IngestAccept`, `IngestRetry` (the byte-equal retry,
acknowledged without reading the row) and `IngestReject` (which keeps only the
seeded tracker).  Gates that only turn a request away are no steps.  `acked` is
a history variable: what clients were told.

*A tick* (`AggregatorLoop.tick`) is `TickSelect` (the snapshot and the plan),
`TickSend`, `TickReceipt`, `TickCommit`, with a failure action at each await:
`TickSendFails` (the transaction may or may not have reached the node),
`TickReceiptFails` (timeout or RPC error: the transaction stays in the mempool),
`TickCommitFails` (the transaction throws: a conflicting row or the database).
`Packable` admits every pack the policy and the planner can return, so the
model does not depend on sizes and ages.  `Tickers` are the callers of tick: the
worker, and `POST /flush`.

*The watcher* lists candidates once (`WatchList`) and then, per candidate, asks
the node (`WatchKeep`, `WatchLost`) and runs one transaction (`WatchReorg`).
`WatchLost` also happens on an RPC error, because `getTransactionReceipt` maps
every error to null.

*Crash* resets all memory and keeps store and chain.

*The Reader* is two processes and an operator.  A live-tail tick reads the head
(`TailStart`), the cursor and the logs (`TailScan`), runs `processBatch` per event
(`TailBatch`, one transaction), writes the cursor after each block in a
transaction of its own (`TailBlock`) or stops in front of a block with an
unreachable blob, catches up over empty blocks (`TailCatchUp`), and runs the reorg
watcher (`TailList`, `TailKeep`, `TailLost`, `TailMark`).  A backfill (`FillStart` to
`FillChunk`) does the same by chunks without parking, next to the live tail.
`reset` drops the cursor or all rows (`ResetCursor`, `ResetAll`).  Any await may
throw (`TailThrows`, `FillThrows`) and the process may die (`ReaderCrash`).  The
code does not lock `reset --all` or a backfill's range against a running tick;
`CarefulOperator` says that the operator stops the reader before `reset --all`
and asks only for ranges that start at or below the cursor and end at the safe
head, as the markers of the command line do.  `PosterRecords` stands for the
Poster's commit on the same database, which is how rows get into the watcher's
window: the Reader itself only writes final blocks.

*The Indexer* is the `serve` daemon and the `reset` command over one handler
(handlers share no row).  A tick reads the current cursor (`TickStart`), a page of
confirmed rows in chain order (`TickList`), and per row commits the entity and the
cursor (`TickProject`); a failed transaction ends the pass, and one whose row does
not decode ends the tick (`TickProjectFails`).  Then it lists the reorged batches
by `invalidated_at` (`TickReorgs`) and per batch commits the eviction and the cursor
(`TickEvict`, `TickEvictFails`).  The cursor it carries, `daemon.fwd`, is the row as
read at the start; `Accepts` is the unique index that refuses it once a migration
(`Migrate`, run by `Boot` and by `ResetStart`) made another generation current.
`resetHandler` is two steps (`ResetDrop`, `ResetForget`), because it runs them without
a transaction.  `Confirm` and `Lose` write the source as the Poster and the Reader
do, neither waiting for the other: a batch may be confirmed in any of its `Blocks` and in
any order, and a reorg is stamped with any value of a clock, the newest one again or an
older one included.  What the Indexer cannot see then is recorded in two history
variables: `late`, the messages that were confirmed at a place the pass of a current
generation had been at, and `tied`, the batches that have the stamp of another or one
older than the newest.  One assumption is about the operator: under `CarefulReset` the
daemon is stopped before its own generation is reset, which the code does not enforce.
A `reset` that died between its two statements is remembered (`cli.died`).

*Poster and Reader together* (`BamSystem`) take the steps of the two modules on one
store.  `PosterRecords` is not used there: the Poster is.

*The Poster as a message log.*  `MessageLog` has the set of messages that wait, the
relation `ahead` that orders each tag's queue, what is included and what a reorg took
back.  `PosterViews` maps the store to it: the pending rows wait, ordered by their
numbers, `included` are the confirmed rows, `withdrawn` the reorged ones.  Most steps of
a tick are stutters; `TickCommit` is an inclusion, the watcher's transaction a withdrawal
that puts back one tag's messages.

*The periphery* has no state shared with the store, so its parts are checked side by
side: `MCPeriphery` gives each a scene, an initial state in which the other parts stand
still.  In `Registries` and `Exposure` a transaction that succeeds is an action and every
`require` a guard.  `Coprocessor` has an action for every statement of a job after which
the process may die; what a tick has left is a set of candidates with their coordinates,
of which it takes the lowest.  `ReadApi` answers any request, with parameters that are absent,
malformed, too large or fit, from fixed rows, and has a client that follows a list while
rows are inserted.  `Retrieval` runs the scan over every sequence of up to three calls,
cut into windows as the provider demands, and the fetch over every combination of what
the sources answer.  `Contents`, `Codec` and `OnChainCode` are functions on bytes: a byte is a digit of
a small base, widths are constants, and an intruder may change or cut the bytes.
`Intake` is two machines, planner and limiter.  `Clients`, `Threads` and `Timeline` see
the services as their answers.  `Proxies` answers a browser from any combination of what
the services behind a route answer.  `Explorer` is a browser's tabs, their storage and the
loads in flight: applying settings starts a load with the old settings and one with the
new, neither is cancelled, and the one answered last is shown.  `Startup` starts one
service with any environment, dotenv file and command line: a variable is absent, fits,
or is one of the texts that a parser could take for something else.  Only the Poster
compares the schema version of the database with its own; an unset `POSTGRES_URL` gives
each service a store in its own process; the Indexer's chain id is compared with nothing.

*L1* mines one modelled transaction per block; a fork replaces the last
`MaxForkDepth` blocks at most and sends each transaction they held back to the
mempool or to another block.  Transactions are never dropped from the mempool.

## Runs

| Run | Instance | Result |
|---|---|---|
| `poster_safety` | 1 author, 2 nonces, 2 tags, 3 transactions, 1 fork, 1 fault of any kind, 1 caller of tick | passes, 324k states |
| `poster_live` | 1 author, 2 nonces, 1 tag, 5 transactions, 1 fork, 1 crash, store or RPC fault; fairness | passes, 37k states |
| `reader_safety` | 1 author, 2 nonces, 2 transactions (one the Poster's) with 2 packs that conflict at a key, 1 fork, 1 backfill or reset, 1 fault of any kind; fairness | passes, 543k states |
| `indexer_safety` | 2 batches of a message each, one not decodable, confirmed in any order and mined again around each other, 2 reorgs stamped 1 or 2, pages of 2, 2 versions, 2 generations, 1 reset, 1 fault of any kind; fairness | passes, 582k states |
| `system` | 1 key, 2 bodies, 2 transactions (either of the two Posters' own), 1 fork, 1 fault of each process | passes, 1.05M states |
| `periphery` | the scenes below | passes, 613k states |
| `poster_packed_fork` | 2 tags, 1 fork, no fault | violates `ReorgedIsRequeued` |
| `poster_flush` | worker and flush, no fork, no fault | violates `NoDoubleInclusion` |
| `poster_revert` | a register call may revert | violates `ConfirmedRegistered` |
| `reader_replay` | 1 transaction, 1 backfill or reset, one verification that times out | violates `ReplayIdempotent` |
| `indexer_late` | 2 batches confirmed in any order, no reorg, no fault | violates `Converges` |
| `system_next_nonce` | 2 nonces, another Poster's message, no fork, no fault | violates `NextNonceIsFree` |

The scenes of `periphery`, and the question each answers:

| Scene | Instance | Property |
|---|---|---|
| registries | 2 owners, 3 keys, 3 registries under 2 schemes; any calls | `TablesAgree`, `OnlyProvenKeys` |
| exposures, disputes, stakes, dictionaries | 2 messages, 2 contents, receivers that refuse ether | `EscrowConserved`, `ExposuresRecorded` |
| coprocessor | 3 batches, two of one message; reorg, restart, every failure | `ProvenOnceWithoutGap` |
| paging, requests | every route of four servers with any two parameters off | `ClientsAreServed` |
| pages | every API route of three applications, with services that are down, garbled or ahead of one another | `ClientsAreServed` |
| explorer | up to 2 tabs, 2 overrides, loads that overtake each other | `ClientsAreServed` |
| starting | an environment that suits with up to two variables that do not; command lines of the three services | `StartsAsMeant` |
| scan | up to 3 calls in 2 transactions, 2 tags and 4 blocks, ranges of 1 to 3 blocks | `ScanIsExact` |
| fetch, search | 3 sources that lie, fail or answer; slots with gaps | `BlobReached` |
| codec | batches of up to 2 messages, every changed byte and every cut; contents of five applications; every kind of signature | `EveryReaderAgrees`, `AcceptedVerifies` |
| on chain | dictionaries of five corpora, pages of up to 2 messages; exposed messages at any offset | `ContractReadsAsWritten` |
| intake | up to 3 tags with queues of several sizes; submissions of 2 signers and of nobody | `OldestShips`, `SignerNotCrowdedOut` |
| clients | 3 submissions of a wallet; feeds while messages move; the widget | `UserIsToldTheTruth` (with `FeedIsWhole`) |
| threads | 4 comments with any parents, a cycle or a missing one among them; 3 forum rows at any stage | `ThreadsAreWhole` |
| timeline | up to 2 transactions of 1 or 2 calls, 2 runs of the program | `TimelineAgrees` |

Bounds, and why they are enough: two messages and two tags give every way two
queues can share a transaction; a second transaction is needed to re-post and a
third to re-post after a timeout *and* a fork; one fork together with one
fault meets every await of a tick and of the watcher (the fault and the fork are
free to happen anywhere).  `ReorgWindow` is 1 in the safety run so that batches
also leave the window.  `UnhealthyAfter` is 2 instead of 50.  The liveness run
needs a larger window (4) than the chain it can build beyond a batch, because the
code leaves older batches alone, and one transaction identifier per re-post.

For the Reader, two transactions give two blocks with events, or one block with
both, so that a cursor can be wrong between them; one backfill or reset meets
every step of a tick; `ReaderWindow` equals `MaxForkDepth`, the depth of fork the
code promises to survive, and `ChunkSize` is 1 so that a backfill has several
chunks.  With one fault, each of the seven kinds strikes at every await.

For the Indexer, the first batch is mined in front of the second or behind it, and so may
be confirmed late or be mined again on either side of it; a row confirmed after a page was
read is ahead of it, within it or behind it.  A page of 2 holds both rows, and a failure or
a crash cuts it after the first, as a shorter page would.  Two reorgs with stamps of 1 and 2
follow in order, coincide or run backwards.  Two versions of the code and two generations
let a migration or a reset overtake a tick; a third generation would repeat the second.

What the violations show (details in `PROJECT.json`):

* `poster_packed_fork`: `markReorged` acts on all tags of a transaction, the
  re-enqueue on one; when the watcher kept the first tag before the fork and
  lost the second after it, the first tag's messages stay `reorged`.
* `poster_flush`: `POST /flush` runs the "test-only" tick next to the worker,
  and both post the same pending messages.
* `poster_revert`: the receipt's status is not looked at.
* `reader_replay`: a second pass whose verification call times out shrinks the
  snapshot of a batch, and the dropped message stays confirmed under it.
* `indexer_late`: the forward pass reads strictly after its cursor, and the Poster
  confirms at inclusion what the Reader confirms only behind the safe head, or a
  backfill long after; a row confirmed behind the cursor is never projected.

* `system_next_nonce`: the nonce endpoint reads the Poster's tracker, which does not
  see what the Reader observed; the nonce it names is taken, and ingest answers
  `duplicate` for ever.

What modelling the periphery showed besides (each is excepted by name in a property, or
modelled and noted as a hazard):

* `POSTER_BATCH_ENCODING=abi` makes the self-check, which decodes the binary format,
  refuse every pack: the aggregator stops for good (`OldestShips` supposes `binary`).
* A text that starts with a byte order mark is read without it: the decoders are not
  the inverse of the encoders their comments say they are.
* The registry's signature check takes v of 27 and 28 only, the SDK and the guest also
  0 and 1: what ingest accepts, a Reader with a registry may reject.
* apps/bam-indexer without a node and without its cache file fails on the first tweet
  among the Reader's rows, which have a `sender` and no `author`; with the file, it never
  looks at the chain again.
* The confirmed feed of the twitter demo answers 500, rather than ask the Reader, when the
  Indexer's answer has status 200 and no JSON in it; a thread it builds from the Reader
  sees the oldest 1000 rows only.
* An answer of a service without the expected field is read as an empty list.
* A network error of the beacon node, as opposed to an answer, ends the fallback to
  Blobscan.

The bounds of the scenes: codecs run with a base of 16 and fields of one or two digits,
so that every length, every cut and every carry across a field element occurs; the
contracts with two owners, because every hazard is one party against another; the HTTP
routes with two deviating parameters, because their checks are independent but their
order is not; the planner with three tags for a pack of two, so that one always waits.
The violations of the coprocessor's and the clients' mutants take three runs or batches,
the third after a second one has undone the first.

### Fairness

`FairSpec` assumes weak fairness of: the steps of a tick (the worker's timer
schedules another tick after every outcome but `permanent`, even a throw, and
the age trigger makes every non-empty queue fire in the end), the steps of the
watcher (its timer does the same), and mining of whatever is in the mempool.
Nothing is assumed of ingest, forks, faults or crashes.  `EventuallySettled`
excepts a permanent failure, after which the code waits for an operator.

`ReaderFairSpec` assumes weak fairness of the live tail (`serve` starts a tick
after every other, a throw included) and of mining; nothing of a backfill.

The periphery and the composed system assume none: their properties are safety
properties.

`IndexerFairSpec` assumes weak fairness of the tick (`serve` arms the next one after
every outcome) and of the second step of a reset; the daemon need not be started.

## Proofs

The theorems hold for every value of the constants that the named assumptions
(`BamStoreAssumption`, `L1Assumption`, `PosterAssumption`, `ReaderAssumption`,
`IndexerAssumption`, `RegistriesAssumption`, `ExposureAssumption`,
`CoprocessorAssumption`, `IntakeAssumption`, `ClientsAssumption`, `RetrievalAssumption`,
`ScanAssumption`, `CodecAssumption`, `StartupAssumption`, `ReadApiAssumption`, `StoredAssumption`, `RequestsAssumption`,
`VisitsAssumption`, `ExplorerAssumption` and those of the modules they extend) allow.  The
last five are the types of what is stored, asked, replied, typed and left in a browser's storage,
and that the values that stand for what is absent or malformed are none of these.  A theorem that needs more states it as a hypothesis of
its own; the run that violates it without is named below, where there is one.

### The Poster (`PosterProofs`, `PosterLogProofs`)

* `TypeCorrect`: `TypeOK` is inductive by itself.  (That a set of numbers has a least and a
  greatest one, which types and lists rest on, is shown by the library's induction over the
  numbers, `LeastNumber` in `StoreProofs`.)
* `TrackerBoundsRows`: `TrackerDominates` needs `TrackerBacked` (every tracker row
  names a message row), because a lazily seeded tracker takes its value from the
  rows; `TrackerInv` is the conjunction.
* `AcceptedIsDurable`: an acknowledged key is at or below its tracker, so a fresh
  ingest cannot reach it, and `UpsertObserved` writes the body it finds
  (`AckedInv`).
* `WrittenOnce`: the action property, from the same invariant.
* `ConfirmedIsBacked`: needs that a batch row exists only for a transaction some
  tick sent and that at most one tick holds a transaction (`TxOwned`), so a
  commit never overwrites the snapshot of another pack (`BackedInv`).
* `LiveInOneBatch`, under `SingleTicker`: what a tick holds is still pending or
  was re-enqueued with the same body when it commits (`PackQueued`).  With two
  tickers it is false, see `poster_flush`.
* `CalmlyIncludedOnce`, under `SingleTicker`: while there was neither a fork nor a fault,
  every transaction that was sent is recorded or is the one the tick waits for
  (`SentAccounted`), and whatever the store or the watcher knows of is on the chain
  (`KnownIsMined`); so a message in a second transaction would not have been pending when
  it was packed.
* `ReorgStrandsNone`, under `OneTagPacks` (one tag, or one tag per pack): a transaction has
  rows of one tag (`OneTagEach`, `OneRowEach`), so the watcher re-enqueues every message
  it marks in the transaction that marks it, and no message is `reorged` between two
  transactions, with any number of tickers.  With two tags in a pack it is false, see
  `poster_packed_fork`.
* `PosterImplementsMessageLog`, under `SingleTicker`: every step of the Poster is a step of
  `MessageLog` or a stutter.  Two invariants carry the order: the pending rows of a tag
  have distinct numbers that its counter bounds (`NumbersInOrder`), and the pack of a tick
  stays ahead of everything the tick left, through all that happens before its commit
  (`PackAhead`).
* `AcceptedStaysVisible`, under `SingleTicker`: `ViewInv` adds to the durability of what
  was accepted that a transaction the store knows is in the list the status page is made of
  (`AllSubmitted`, `KnownListed`), that a row and the snapshot of its batch name each other
  (`SnapshotsHold`), that links from a replaced batch lead to later ones (`LinksForward`)
  and that transactions are listed in the order they were sent (`SentInOrder`).  What the
  views sort is shown to be the set they sort, each member once (`ListedRows`): a member's
  place is its rank, and as many ranks as members leave none out.

### The Reader (`ReaderProofs`)

* `ReaderTypesOK`: types are inductive by themselves, for any operator and forks of any
  depth.
* `CursorIsComplete`, under `SafeOperation` (a careful operator,
  and forks no deeper than `ReaderWindow`).  `CursorComplete` speaks of the cursor
  alone; it survives a step because of what the two processes are about to
  write.  `ReaderInv` therefore says, of each work list, that it ends at or below
  the safe head and that every event up to its end is in the store or still on
  the list (`CoveredTo`), which holds no event before the block in progress
  (`TodoOK`).  When a block is done, everything up to it is covered and may become
  the cursor (`BlockCovered`).  A fork cannot disturb any of this: a transaction
  that is at or below the safe head, before or after the fork, did not move
  (`L1Final`).  Without `SafeOperation` it is false: a backfill whose range leaves
  a gap, or `reset --all` next to a tick, moves the cursor past missing rows.
* `ObservedIsBacked` and `ReplayLosesNothing` (an action property) need no hypothesis: a
  snapshot holds messages of the pack of its transaction only (`SnapshotsWithin`), so
  processing the same event again rebuilds it (`Rebuilds`); a fork that moves a
  transaction keeps its pack (`PacksKept`).  Both except a verification that failed
  midway, as `reader_replay` shows they must.
* `ContentBelowCursor`, under `SafeOperation`: as `ReaderInv` follows the events,
  `ContentInv` follows what was made of them: up to the end of each work list a batch is
  rebuilt, or on the list, or in the block a tick is parked in front of (`Rebuilt`,
  `Awaited`, `Parked`).  The kinds of failure in `Dropping`, which the code itself passes
  over, are excepted.

### The Indexer (`IndexerProofs`)

* `IndexerTypesOK`; `FrozenGenerations` under `CarefulReset`.  A tick
  carries the cursor row of a generation that may be superseded or deleted by the
  time it writes.  The unique index (`Accepts`) refuses the write if another
  generation is current, so the write can only go wrong when none is:
  `CurrentExists` says that a tick, or a reset that has migrated, always has a
  current generation next to it (`CarriedCursor` and `BornFirst` say that it is one
  that was handed out).  Without `CarefulReset` it is false: a tick inserts the row of
  a generation that was reset under it again.
* `NothingBehindTheCursor`, under `CarefulReset`: whatever the order of confirmations, the
  pass misses only what was confirmed where it had been.  The cursor a tick carries may
  lag behind the stored one after a commit that was reported as failed (`CursorsLag`), and
  its page lies ahead of the carried one (`PageAhead`).  Of the messages that are not late
  the page is faithful (`PageFaithful`): one that is served ahead of the cursor is in it or
  comes after all of it, and a row that is out of date stands for a message that moved
  ahead; a lost batch that was confirmed again in time is ahead of the cursor when its old
  rows are evicted (`LostAhead`).  That late messages are really lost is what `indexer_late`
  shows.
* `NoCascadeIsMissed`, under `CarefulReset`: the same of the page of reorgs and their stamps.
  The comparison is strict, so a batch that shares its stamp may be passed over; what is
  not tied has its stamp for itself (`StampsOrdered`), whatever the clocks do, and hence
  no tie of other batches, cut page or failure hides it (`LostFaithful`, and
  `PageLostLater` for the posts a stale page is about to write).

### The contracts, the coprocessor and the blobs (`ChainProofs`)

* `RegistriesTypeCorrect`, `TablesAlwaysAgree`, `OnlyProvenKeysVerify`: the tables agree
  because an index is given out once (`IndexesAreFresh`); a stored key was consented to
  by its holder for its owner (`KeysConsented`), and a signature is by who holds the key.
* `ExposuresAlwaysRecorded`: `RecordsInv` adds what each contract believes of the others:
  what the verifier was told of was registered, an exposed message rests on a registered
  content, and a record written by the exposer on an exposed message; the two lists name
  each of their members once (`ListsOnce`), so that a count by list is a count.
* `EscrowAlwaysConserved`: owed ether is counted as the set of the wei that open records
  account for (`Wei`), whose cardinality is the balance.  Every transaction adds or removes the wei
  of one message (`Brings`, `Takes`), a refused transfer neither.
* `ListedIsProvenOnce`: what a tick lists ahead of its watermark and the limits cut off
  comes after everything it takes (`OldestFirst`, `FetchedInOrder`), so within a tick the
  candidates left are past the watermark and nothing listed lies between (`InOrder`); a
  commit moves the watermark to the one computed, the lowest.  A request that has been
  paid for belongs to the candidate in hand, to a committed coordinate or to a fault
  (`PaidFor`).
* `BlobIsReached`: what the three sources say is asked in turn.  The bisection is a recursive
  function; it is what its definition says because every recursion over a measure has a
  fixed point (`RecursionHasASolution`, used in `BisectUnfolds`), and what it finds follows
  by taking the shortest interval on which it does not (`BisectFinds`).  The beacon chain
  gives what the search needs: blocks ascend with slots (`BlocksAscend`), and a probe only
  finds nothing where `ProbeDepth` slots in a row are missed (`NoLongRun`).
* `ScanIsAlwaysExact`: what a range comes to is listed, each registration once (`Lists`), from
  the answer of the provider up.  In log order the declaration of a call comes right before its
  registration (`DeclaredBefore`), so no later one of the tag is pending when it is claimed
  (`ClaimsTheLatest`), whatever else the transaction declares, and the walk gives each
  registration its own range (`WalkPairs`).  Halves and chunks join to the whole
  (`JoinedLists`, `HalvingIsExact`, `ChunksAreExact`), and the final sort puts an event at the
  rank of its log (`ListingInOrder`).

* `AcceptedAlwaysVerifies`: a signature that was judged was judged as it stands, by all four at
  once, and one the SDK signed has v = 27 or 28 (`CheckInv`); which of them accept it is then a
  question of cases (`VerdictsAgree`).

### The deployment (`SystemProofs`)

* `SystemTellsOneStory`: the Poster and the Reader write the same rows, so neither's
  invariant can be taken over: the Reader inserts rows no tracker bounds
  (`TrackerDominates` is false with two writers), and the Poster writes a batch the Reader
  has already observed.  `SystemInv` keeps what survives both: what was accepted is at or
  below its tracker and is stored (`AckedBelow`, `AckedDurable`, `TrackerBacked`), a
  snapshot is the pack of its transaction whoever wrote it (`PacksInv`), a message the
  Reader saw is on a batch that holds it (`SeenInv`).  As long as there
  was no fork and no failed lookup, decoding or verification (`Undisturbed`), rows, ticks and
  watchers name mined transactions only (`MinedOnly`), the cursor stays within the head
  (`WithinHead`), and below it every message of a batch has its row, confirmed unless the
  key is another message's (`ContentSettled`).

### The periphery (`PeripheryProofs`)

* `SignerIsNotCrowdedOut`: the property counts admissions, the code counts the stamps it still
  keeps.  A signer's stamps ascend, and past every cutoff within the window they are as many
  as its admissions (`Metered`), whatever was pruned before it.
* `ClientsTellTheTruth`: of the wallet, that no message is accepted twice, and that a run
  answered "stale" has been outrun by the wallet's other runs once for each of its attempts
  (`AcceptedOnce`, `Knows`, `Outrun`); of the feed, that an answer still holds of every
  message that has not moved since it was given, and that what is shown is the two answers
  merged (`PendingSaid`, `ConfirmedSaid`, `ShowsAnswers`); of the widget, that the form is
  busy with the one submission of its session (`OneUnderWay`).
* `ServicesStartAsMeant`: `StartInv` says of a process past its beginning that its
  configuration is the one its files and environment give, accepted (`Ready`), and of one that
  works that it may do that at its command line and chain (`MayDo`).  What a command line
  stands for, for arguments of any number, is `ReaderCommands` and `IndexerCommands`.
* `PagesAreComplete`: nothing a client was given comes after its cursor, and every row of its
  first page's moment that it still lacks does (`PagingInv`).  A page takes the rows right after the
  cursor, none of which it has; rows that are inserted meanwhile change neither fact, wherever they fall.
* `RequestsAreAnswered`: no invariant but that the answer is the one of the request
  (`Answered`); the work is that each of the four servers gives an answer that suits its request.
  A list is what its query selects, arranged (`Arranged`): each row's place is the number of
  rows ahead of it, so the rows listed are rows selected, and as many as the limit allows.
* `HonestPages`: likewise, route by route: every page can be traced to the replies it was put
  together from (`PageIsTold`).  `Filtered` and `SortedRows` are stated by ranks, as `Arranged` is,
  because the provers take `SelectSeq` and `SortSeq` as unknown operators.
* `ExplorerIsCurrent`: of each tab, that a load that was the last started for a panel carries
  the settings the tab shows, and that what a panel shows is what the load it is from found
  (`DashboardInv`); of the storage, that reading back what a tab wrote gives its settings.
* `ClientsAlwaysServed`: the four together.  `ServedSpec` is the conjunction of the three
  specifications, so the client, the browser and the explorer may step one by one, as in the run,
  or at the same time.

### Only model-checked

* Liveness (`EventuallySettled`, `TailCatchesUp`, `ConvergesInTime`): the provers do not handle
  `ENABLED`.  `Converges`, that the table becomes exactly the confirmed messages, is what the
  README of the package says and `indexer_late` shows violated; `ConvergesInTime` says it of the
  messages that were not late and the batches that are not tied, a message that two batches
  carry being compared in the batch the source has it in.
* `ReplayIdempotent` and the other properties that runs show violated.
* `EveryReaderAgrees`, `ContractReadsAsWritten`, `OldestShips`,
  `ThreadsAreWhole`, `TimelineAgrees`: they speak of what folds, filters and
  sorts of sequences compute (`SelectSeq`, `SortSeq`, `FoldLeft`, `FlattenSeq`, `@@`).  The
  provers take `SelectSeq`, `SortSeq` and `@@` as unknown operators, and a fold is defined by
  a recursion whose step is an operator, which they cannot instantiate.

## Plan

1. `Poster`, `Reader`, `Indexer` (done), with their first theorems.
2. The composed system, the abstract message log, the periphery (done).
3. Proofs of the safety properties of the Poster, the refinement of `MessageLog`, the Reader,
   the Indexer, the contracts and the coprocessor (done).
4. `OneStory` for the composed system, the Poster's views, the rate limiter, the clients, the
   blob fetch and the starting of the services (done).
5. The services' routes, the applications' pages and the explorer (done).
6. The log scan and the checks of signatures (done).
7. Left: the decoders and the planner, from a theory of filters and folds of
   sequences that the provers can use.

## Not modelled

* Curve arithmetic: `BLS12381.sol`, the pairings of `BLSVerifier.sol` and the point
  decompression of `BLSDecompression.sol` work on 381-bit integers through precompiles;
  no instance small enough for TLC is the same curve.  A signature is modelled as who
  made it and over what, so whether `_reduce768` and the comparison of coordinates are right stays
  with tests.
* Hashes, KZG commitments, ZSTD and the proof system of the coprocessor: a digest is
  what it is of, a commitment opens to what it was made of, a proof is a step that may
  fail and costs.
* The contract clients of the SDK, the command line, the explorer's batch page, the
  price calculator and the layout of all pages: no protocol state of their own.
* Outcomes that nothing the model can produce leads to: `range_rejected` of the Reader
  (process-batch.ts:178-195; the contract that emits the range reverts a malformed one), and a
  proof whose verifying key has no hash (proof.rs:246-275; every proof the coprocessor stores
  here is well formed, so its key is cached with it).
* Gas, fees and wall-clock time (a timeout may strike at any time); logging; the
  operator's actions after a permanent failure; `markSubmitted` and other statements of
  the store that no service calls.
