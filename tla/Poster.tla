------------------------------- MODULE Poster -------------------------------
(***************************************************************************)
(* The Poster (package bam-poster): it accepts signed messages from        *)
(* clients, packs the pending messages of every tag into one blob          *)
(* transaction at a time, records the inclusion, and puts the messages of  *)
(* a transaction that a fork removed back in the queue.                    *)
(*                                                                         *)
(* Three kinds of process share the store: ingest requests (one            *)
(* transaction each, so one action each), aggregator ticks, and the reorg  *)
(* watcher.  A tick awaits between its steps, and each step is an action.  *)
(* The Poster runs its own aggregator worker; POST /flush runs a tick in   *)
(* the request handler, next to the worker's.  Tickers names the callers   *)
(* of a tick.                                                              *)
(***************************************************************************)
EXTENDS L1

CONSTANTS
    Tickers,        \* callers of AggregatorLoop.tick
    ReorgWindow,    \* clampReorgWindow(reorgWindowBlocks)
    TagCapacity,    \* messages of one tag that fit one pack
    MaxTagsPerPack, \* tags of one pack
    UnhealthyAfter, \* consecutive failures that make health `unhealthy'
    FaultKinds,     \* kinds of fault that may happen
    MaxFaults       \* number of faults in a behaviour

ASSUME PosterAssumption ==
    /\ ReorgWindow \in Nat
    /\ TagCapacity \in Nat \ {0}
    /\ MaxTagsPerPack \in Nat \ {0}
    /\ UnhealthyAfter \in Nat \ {0}
    /\ FaultKinds \subseteq {"crash", "send", "receipt", "store", "rpc"}
    /\ MaxFaults \in Nat

VARIABLES
    agg,        \* the tick each caller is running
    attempts,   \* BackoffState: consecutive failures (capped at UnhealthyAfter)
    stopped,    \* permanentlyStopped
    watch,      \* the reorg watcher's tick
    acked,      \* history: messages a client was told are accepted
    faults      \* faults so far

posterProcVars == <<agg, attempts, stopped, watch, acked, faults>>
posterVars == <<storeVars, l1Vars, posterProcVars>>

Tick == [pc : {"idle", "send", "receipt", "commit"},
         pack : SUBSET Entry,
         tx : Tx \cup {NoTx},
         block : Nat]
NoTick == [pc |-> "idle", pack |-> {}, tx |-> NoTx, block |-> 0]

\* `todo' is what is left of the candidate list, `cur' the candidate whose
\* transaction the RPC node did not find.
Watch == [todo : SUBSET BatchId, cur : SUBSET BatchId]
NoWatch == [todo |-> {}, cur |-> {}]

\* A tick that waits for a receipt, or has one, holds its transaction.
AggTypeOK ==
    /\ agg \in [Tickers -> Tick]
    /\ \A g \in Tickers : agg[g].pc \in {"receipt", "commit"} => agg[g].tx \in Tx

PosterProcTypeOK ==
    /\ AggTypeOK
    /\ attempts \in 0 .. UnhealthyAfter
    /\ stopped \in BOOLEAN
    /\ watch \in Watch
    /\ acked \in SUBSET Entry
    /\ faults \in Nat

\* The type invariant.
TypeOK == StoreTypeOK /\ L1TypeOK /\ PosterProcTypeOK

PosterProcInit ==
    /\ agg = [g \in Tickers |-> NoTick]
    /\ attempts = 0
    /\ stopped = FALSE
    /\ watch = NoWatch
    /\ acked = {}
    /\ faults = 0

PosterInit == StoreInit /\ L1Init /\ PosterProcInit

Fault(kind) ==
    /\ kind \in FaultKinds
    /\ faults < MaxFaults
    /\ faults' = faults + 1

-----------------------------------------------------------------------------
(* Ingest.  The gates before the transaction (size, envelope, allowlist,   *)
(* rate limit) change no state of the model; a request they turn away is   *)
(* no step.                                                                *)

Healthy == ~stopped /\ attempts < UnhealthyAfter

\* checkMonotonicity's view of a sender, seeded from `messages' when the
\* tracker has no row.
LastAcceptedFromRows(s) == MaxNonReorgedNonce(messages, s)  \* mutant: no tracker
LastAccepted(s) ==
    IF nonces[s] = NoNonce THEN MaxNonReorgedNonce(messages, s) ELSE nonces[s]

\* Decision `accept', validator satisfied, key free: tracker, sequence number
\* and row are written in one transaction.
IngestAccept(s, n, b) ==
    /\ Healthy
    /\ n > LastAccepted(s).lastNonce
    /\ ~Occupied(messages, <<s, n>>)
    /\ nonces' = [nonces EXCEPT ![s] = [lastNonce |-> n, lastBody |-> b]]
    /\ tagSeq' = [tagSeq EXCEPT ![TagOf[b]] = @ + 1]
    /\ messages' = InsertPending(messages, <<s, n>>, b, tagSeq[TagOf[b]] + 1)
    /\ acked' = acked \cup {[key |-> <<s, n>>, body |-> b]}
    /\ UNCHANGED <<batches, l1Vars, agg, attempts, stopped, watch, faults>>

\* Decision `no_op': the retry of the last accepted message is acknowledged
\* without looking at its row.
IngestRetry(s, n, b) ==
    /\ Healthy
    /\ LastAccepted(s) = [lastNonce |-> n, lastBody |-> b]
    /\ nonces' = [nonces EXCEPT ![s] = LastAccepted(s)]
    /\ acked' = acked \cup {[key |-> <<s, n>>, body |-> b]}
    /\ UNCHANGED <<messages, batches, tagSeq, l1Vars, agg, attempts, stopped,
                   watch, faults>>

\* stale_nonce, or a message the validator refuses: only the seed of the
\* tracker is kept.  (The rejection `duplicate' rolls the transaction back:
\* no step.)
IngestReject(s) ==
    /\ Healthy
    /\ nonces' = [nonces EXCEPT ![s] = LastAccepted(s)]
    /\ UNCHANGED <<messages, batches, tagSeq, l1Vars, posterProcVars>>

Ingest ==
    \E s \in Senders :
        \/ \E n \in 0 .. MaxNonce, b \in Bodies :
              IngestAccept(s, n, b) \/ IngestRetry(s, n, b)
        \/ IngestReject(s)

-----------------------------------------------------------------------------
(* Aggregator tick *)

\* The messages of tag t in K are the oldest of the tag's queue: the batch
\* policy fills greedily in ingest order.
NewestFirst(K, t) ==     \* mutant: the queue is read from its tail
    \A k \in K \cap PendingByTag(messages, t) :
        \A q \in PendingByTag(messages, t) \ K :
            messages[k].ingestSeq > messages[q].ingestSeq
OldestFirst(K, t) ==
    \A k \in K \cap PendingByTag(messages, t) :
        \A q \in PendingByTag(messages, t) \ K :
            messages[k].ingestSeq < messages[q].ingestSeq

EntryOf(k) == [key |-> k, body |-> messages[k].body]
PackTags(pack) == {TagOfEntry(m) : m \in pack}

\* What aggregator.tick may pick from a snapshot of the queues.  Which tags
\* trigger and where capacity cuts a queue is decided by sizes and ages.
PackableBelowCapacity(K) ==     \* mutant: a pack may not be full
    /\ K # {}
    /\ Cardinality(PackTags({EntryOf(k) : k \in K})) <= MaxTagsPerPack
    /\ \A t \in Tags :
          /\ OldestFirst(K, t)
          /\ Cardinality(K \cap PendingByTag(messages, t)) < TagCapacity
Packable(K) ==
    /\ K # {}
    /\ Cardinality(PackTags({EntryOf(k) : k \in K})) <= MaxTagsPerPack
    /\ \A t \in Tags :
          /\ OldestFirst(K, t)
          /\ Cardinality(K \cap PendingByTag(messages, t)) <= TagCapacity

\* Snapshot the queues in a read transaction and plan the pack.
TickSelect(g) ==
    /\ agg[g].pc = "idle"
    /\ ~stopped
    /\ \E K \in SUBSET {k \in Key : messages[k].status = "pending"} :
          /\ Packable(K)
          /\ agg' = [agg EXCEPT ![g] = [NoTick EXCEPT
                        !.pc = "send", !.pack = {EntryOf(k) : k \in K}]]
    /\ UNCHANGED <<storeVars, l1Vars, attempts, stopped, watch, acked, faults>>

\* sendBlobTransaction returns the hash.
TickSend(g) ==
    /\ agg[g].pc = "send"
    /\ \E t \in Tx :
          /\ NextTx(t)
          /\ EnterMempool(t, agg[g].pack)
          /\ agg' = [agg EXCEPT ![g].pc = "receipt", ![g].tx = t]
    /\ UNCHANGED <<storeVars, head, forks, attempts, stopped, watch, acked,
                   faults>>

\* Outcome `retryable' or `permanent' ends the tick.
TickFailed(g, permanent) ==
    /\ agg' = [agg EXCEPT ![g] = NoTick]
    /\ attempts' = IF attempts < UnhealthyAfter THEN attempts + 1 ELSE attempts
    /\ stopped' = (stopped \/ permanent)
    /\ UNCHANGED <<storeVars, watch, acked>>

\* A throw before or in sendBlobTransaction; the transaction may have reached
\* the node although the caller saw an error.
TickSendFailsGoesOn(g, permanent) ==     \* mutant: the catch does not return
    /\ agg[g].pc = "send"
    /\ Fault("send")
    /\ agg' = [agg EXCEPT ![g].pc = "receipt"]
    /\ \/ UNCHANGED chain
       \/ \E t \in Tx : NextTx(t) /\ EnterMempool(t, agg[g].pack)
    /\ UNCHANGED <<storeVars, head, forks, attempts, stopped, watch, acked>>
TickSendFails(g, permanent) ==
    /\ agg[g].pc = "send"
    /\ Fault("send")
    /\ TickFailed(g, permanent)
    /\ \/ UNCHANGED chain
       \/ \E t \in Tx : NextTx(t) /\ EnterMempool(t, agg[g].pack)
    /\ UNCHANGED <<head, forks>>

\* waitForReceipt returns the block; the receipt's status is not looked at.
TickReceipt(g) ==
    /\ agg[g].pc = "receipt"
    /\ Mined(agg[g].tx)
    /\ agg' = [agg EXCEPT ![g].pc = "commit", ![g].block = chain[agg[g].tx].block]
    /\ UNCHANGED <<storeVars, l1Vars, attempts, stopped, watch, acked, faults>>

\* waitForReceipt throws: a timeout, or an RPC error.
TickReceiptFails(g, permanent) ==
    /\ agg[g].pc = "receipt"
    /\ Fault("receipt")
    /\ TickFailed(g, permanent)
    /\ UNCHANGED l1Vars

\* The rows the confirmation writes.
ConfirmedBatches(tx, block, pack) ==
    [e \in {tx} \X PackTags(pack) |->
        [status |-> "confirmed", blockNumber |-> block, replacedBy |-> NoTx,
         submittedAt |-> TRUE, invalidatedAt |-> FALSE,
         snapshot |-> {m \in pack : TagOfEntry(m) = e[2]}]]

\* A message whose row is gone is skipped; the others keep the sequence
\* number of their row.
Present(pack) == {m \in pack : messages[m.key].status # "absent"}
ConfirmedMessages(tx, pack) ==
    [k \in {m.key : m \in Present(pack)} |->
        [status |-> "confirmed",
         body |-> (CHOOSE m \in pack : m.key = k).body,
         batchRef |-> tx,
         ingestSeq |-> messages[k].ingestSeq]]

\* Reorged batches of an included tag, mined at most ReorgWindow blocks before
\* the receipt's block and not yet replaced, whose snapshot shares a message
\* with the pack.
ReplaceableRelink(bs, block, pack) ==       \* mutant: linked rows not skipped
    {e \in BatchesSince(bs, "reorged", block - ReorgWindow) :
        \E m \in pack : TagOfEntry(m) = e[2] /\ m \in bs[e].snapshot}
Replaceable(bs, block, pack) ==
    {e \in BatchesSince(bs, "reorged", block - ReorgWindow) :
        /\ bs[e].replacedBy = NoTx
        /\ \E m \in pack : TagOfEntry(m) = e[2] /\ m \in bs[e].snapshot}
LinkReplaced(bs, tx, block, pack) ==
    [e \in DOMAIN bs |->
        IF e \in Replaceable(bs, block, pack)
        THEN [bs[e] EXCEPT !.replacedBy = tx] ELSE bs[e]]

\* One transaction records the inclusion of the whole pack.
TickCommit(g) ==
    LET tick == agg[g] IN
    /\ tick.pc = "commit"
    /\ \A m \in tick.pack : ~ObservedConflict(messages, m)
    /\ batches' = LinkReplaced(
                    UpsertBatch(batches,
                        ConfirmedBatches(tick.tx, tick.block, tick.pack)),
                    tick.tx, tick.block, tick.pack)
    /\ messages' = UpsertObserved(messages,
                        ConfirmedMessages(tick.tx, tick.pack))
    /\ agg' = [agg EXCEPT ![g] = NoTick]
    /\ attempts' = 0
    /\ UNCHANGED <<nonces, tagSeq, l1Vars, stopped, watch, acked, faults>>

\* The transaction throws: upsertObserved met a conflicting row, or the
\* database failed.  The tick ends and the worker's timer runs a new one.
TickCommitFails(g) ==
    /\ agg[g].pc = "commit"
    /\ \/ /\ \E m \in agg[g].pack : ObservedConflict(messages, m)
          /\ UNCHANGED faults
       \/ Fault("store")
    /\ agg' = [agg EXCEPT ![g] = NoTick]
    /\ UNCHANGED <<storeVars, l1Vars, attempts, stopped, watch, acked>>

Aggregate ==
    \E g \in Tickers :
        \/ TickSelect(g) \/ TickSend(g) \/ TickReceipt(g)
        \/ TickCommit(g) \/ TickCommitFails(g)
        \/ \E permanent \in BOOLEAN :
              TickSendFails(g, permanent) \/ TickReceiptFails(g, permanent)

-----------------------------------------------------------------------------
(* Reorg watcher *)

\* Read the head, then list the confirmed batches of the window.
WatchList ==
    /\ watch = NoWatch
    /\ watch' = [NoWatch EXCEPT
                    !.todo = BatchesSince(batches, "confirmed", head - ReorgWindow)]
    /\ UNCHANGED <<storeVars, l1Vars, agg, attempts, stopped, acked, faults>>

\* getTransactionBlock finds the transaction: the batch is kept.
WatchKeep(e) ==
    /\ watch.cur = {}
    /\ e \in watch.todo
    /\ Mined(e[1])
    /\ watch' = [watch EXCEPT !.todo = @ \ {e}]
    /\ UNCHANGED <<storeVars, l1Vars, agg, attempts, stopped, acked, faults>>

\* getTransactionBlock returns null: the transaction is not on the canonical
\* chain, or the RPC call failed (getTransactionReceipt catches every error).
WatchLost(e) ==
    /\ watch.cur = {}
    /\ e \in watch.todo
    /\ \/ ~Mined(e[1]) /\ UNCHANGED faults
       \/ Mined(e[1]) /\ Fault("rpc")
    /\ watch' = [todo |-> watch.todo \ {e}, cur |-> {e}]
    /\ UNCHANGED <<storeVars, l1Vars, agg, attempts, stopped, acked>>

\* The messages of one batch: batch_ref is the transaction, the tag is its own.
Attached(e) ==
    {k \in Key : messages[k].batchRef = e[1] /\ TagOf[messages[k].body] = e[2]}

\* The orders in which rows may be re-enqueued: by their old sequence number.
RequeueOrders(K) ==
    {rank \in [K -> 1 .. Cardinality(K)] :
        \A k, l \in K : /\ k # l => rank[k] # rank[l]
                        /\ messages[k].ingestSeq < messages[l].ingestSeq
                             => rank[k] < rank[l]}
RequeuedMessages(K, t, rank) ==
    [k \in K |-> [status |-> "pending", body |-> messages[k].body,
                  batchRef |-> NoTx, ingestSeq |-> tagSeq[t] + rank[k]]]

\* reorgBatch: mark every batch of the transaction reorged, cascade to their
\* messages, and re-enqueue the messages of this batch with new numbers.
WatchReorg(e) ==
    /\ watch.cur = {e}
    /\ HasBatch(batches, e[1])
    /\ LET ms == ReorgMessages(messages, e[1])
           K == {k \in Attached(e) : ms[k].status # "pending"}
       IN  /\ batches' = ReorgBatches(batches, e[1])
           /\ \E rank \in RequeueOrders(K) :
                messages' = UpsertObserved(ms, RequeuedMessages(K, e[2], rank))
           /\ tagSeq' = [tagSeq EXCEPT ![e[2]] = @ + Cardinality(K)]
    /\ watch' = [watch EXCEPT !.cur = {}]
    /\ UNCHANGED <<nonces, l1Vars, agg, attempts, stopped, acked, faults>>

\* The transaction throws: the rest of the tick is abandoned.
WatchReorgFails ==
    /\ watch.cur # {}
    /\ \/ /\ \E e \in watch.cur : ~HasBatch(batches, e[1])
          /\ UNCHANGED faults
       \/ Fault("store")
    /\ watch' = NoWatch
    /\ UNCHANGED <<storeVars, l1Vars, agg, attempts, stopped, acked>>

WatchReorgs ==
    \/ WatchList
    \/ \E e \in BatchId : WatchKeep(e) \/ WatchLost(e) \/ WatchReorg(e)
    \/ WatchReorgFails

-----------------------------------------------------------------------------

\* The process dies and is started again: the store and the chain stay.
Crash ==
    /\ Fault("crash")
    /\ agg' = [g \in Tickers |-> NoTick]
    /\ attempts' = 0
    /\ stopped' = FALSE
    /\ watch' = NoWatch
    /\ UNCHANGED <<storeVars, l1Vars, acked>>

PosterNext == Ingest \/ Aggregate \/ WatchReorgs \/ Crash

Next ==
    \/ PosterNext
    \/ L1Next /\ UNCHANGED <<storeVars, posterProcVars>>

Spec == PosterInit /\ [][Next]_posterVars

-----------------------------------------------------------------------------
(* Fairness: the worker's timer always runs another tick until a permanent *)
(* failure (WorkerTimer), the age trigger makes every queue fire in the    *)
(* end, awaited calls return, the watcher's timer always runs another      *)
(* tick, and L1 mines what stays in the mempool.                           *)

TickStep(g) == TickSelect(g) \/ TickSend(g) \/ TickReceipt(g) \/ TickCommit(g)
WatchStep ==
    \/ WatchList
    \/ \E e \in BatchId : WatchKeep(e) \/ WatchLost(e) \/ WatchReorg(e)
Mine == \E t \in Tx : MineTx(t, TRUE) /\ UNCHANGED <<storeVars, posterProcVars>>

FairSpec ==
    /\ Spec
    /\ \A g \in Tickers : WF_posterVars(TickStep(g))
    /\ WF_posterVars(WatchStep)
    /\ WF_posterVars(Mine)

-----------------------------------------------------------------------------
(* Safety *)

\* A message a client was told is accepted keeps a row with its own body:
\* no ingest, confirmation, reorg, crash or failed transaction loses it or
\* puts another message at its (sender, nonce).
AckedDurable ==
    \A m \in acked : /\ messages[m.key].status # "absent"
                     /\ messages[m.key].body = m.body

\* The nonce tracker dominates every row of the sender, and names the body of
\* the row at its nonce; this is what lets re-enqueue skip the monotonicity
\* check (reorg-watcher.ts: a fresh ingest with the same (sender, nonce)
\* cannot exist).
TrackerDominates ==
    \A k \in Key : messages[k].status # "absent" =>
        /\ k[2] <= nonces[k[1]].lastNonce
        /\ k[2] = nonces[k[1]].lastNonce => nonces[k[1]].lastBody = messages[k].body

\* A confirmed message names a confirmed batch of its own tag whose frozen
\* snapshot holds it: the two tables never disagree about what is on L1,
\* whatever the watcher, a late commit and a crash interleave.
ConfirmedBacked ==
    \A k \in Key : messages[k].status = "confirmed" =>
        LET e == <<messages[k].batchRef, TagOf[messages[k].body]>>
        IN  /\ e \in BatchId
            /\ batches[e].status = "confirmed"
            /\ EntryOf(k) \in batches[e].snapshot

\* With one caller of tick, a message in the snapshot of a confirmed batch is
\* confirmed under that batch: it is never pending again, nor listed by two
\* confirmed batches, so the Poster never knowingly posts it twice.
OneLiveBatch ==
    \A e \in BatchId : batches[e].status = "confirmed" =>
        \A m \in batches[e].snapshot :
            /\ messages[m.key].status = "confirmed"
            /\ messages[m.key].batchRef = e[1]

\* Without crashes and failed transactions, a reorged message is one whose
\* batch the watcher's current tick has still to re-enqueue: the window
\* between the transaction of one tag of a pack and that of the next.
ReorgedIsRequeued ==
    \A k \in Key : messages[k].status = "reorged" =>
        <<messages[k].batchRef, TagOf[messages[k].body]>>
            \in watch.todo \cup watch.cur

\* No message is in two transactions of the canonical chain.
NoDoubleInclusion ==
    \A t, u \in Tx : t # u /\ Mined(t) /\ Mined(u) =>
        chain[t].pack \cap chain[u].pack = {}

\* It takes a fork or a fault to post a message twice: as long as none has
\* happened, the queue and the confirmations alone keep the transactions of
\* one caller of tick disjoint.
CalmInclusion == forks = 0 /\ faults = 0 => NoDoubleInclusion

\* What the store calls confirmed was registered on L1: unless the watcher
\* has still to notice a fork, the transaction is mined and its register call
\* succeeded.
ConfirmedRegistered ==
    \A e \in BatchId : batches[e].status = "confirmed" /\ Mined(e[1]) =>
        chain[e[1]].ok

-----------------------------------------------------------------------------
(* What a step may never do *)

\* The body at a key never changes once written, and a replacement link is
\* never redirected.
RowsImmutable ==
    [][/\ \A k \in Key : messages[k].status # "absent" =>
             messages'[k].body = messages[k].body
       /\ \A e \in BatchId : batches[e].replacedBy # NoTx =>
             batches'[e].replacedBy = batches[e].replacedBy]_posterVars

-----------------------------------------------------------------------------
(* Liveness *)

Settled(m) ==
    /\ messages[m.key].status = "confirmed"
    /\ messages[m.key].body = m.body
    /\ Mined(messages[m.key].batchRef)

\* Every accepted message ends up confirmed under a batch that stays on the
\* chain, unless a permanent failure halts submission: forks, timeouts and
\* RPC errors only delay it.
EventuallySettled ==
    <>[](stopped \/ \A m \in acked : Settled(m))
=============================================================================
