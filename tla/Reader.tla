------------------------------- MODULE Reader -------------------------------
(***************************************************************************)
(* The Reader (package bam-reader): it follows the events of the contract, *)
(* rebuilds the batches and messages of every confirmed transaction in the *)
(* store, and marks the batches a fork removed.                            *)
(*                                                                         *)
(* Two processes write: the daemon (`serve'), which runs live-tail ticks   *)
(* one after the other, and a one-shot `backfill' of a range of blocks.    *)
(* The operator may also drop the cursor, or all rows.  An event stands    *)
(* for one BlobBatchRegistered log: transaction, content tag and the block *)
(* it was read in.                                                         *)
(***************************************************************************)
EXTENDS L1, Sequences

CONSTANTS
    ReaderWindow,       \* reorgWindowBlocks, also the depth of safeHead
    StartBlock,         \* first block to scan when there is no cursor
    ChunkSize,          \* logScanChunkBlocks of a backfill
    MaxCommands,        \* number of backfills and resets in a behaviour
    ReaderFaultKinds,   \* kinds of fault that may happen
    MaxReaderFaults,    \* number of faults in a behaviour
    CarefulOperator,    \* whether the operator keeps to the README's usage
    AnnouncedPacks,     \* packs that transactions may carry
    PosterTx            \* transactions of the Poster on the same database

ASSUME ReaderAssumption ==
    /\ ReaderWindow \in Nat
    /\ StartBlock \in Nat \ {0}
    /\ ChunkSize \in Nat \ {0}
    /\ MaxCommands \in Nat
    /\ ReaderFaultKinds \subseteq
         {"tail_blob", "fill_blob", "decode", "verify", "lookup", "throw", "crash"}
    /\ MaxReaderFaults \in Nat
    /\ CarefulOperator \in BOOLEAN
    /\ AnnouncedPacks \subseteq SUBSET Entry
    /\ PosterTx \subseteq Tx

\* No pack holds two messages with the same key under one tag.
ASSUME PacksAssumption ==
    \A pack \in AnnouncedPacks : \A m, n \in pack :
        m.key = n.key /\ TagOfEntry(m) = TagOfEntry(n) => m = n

VARIABLES
    cursor,     \* table `reader_cursor': last_block_number, or NoCursor
    tail,       \* the live-tail tick
    fill,       \* the backfill
    commands,   \* backfills and resets so far
    rfaults     \* the kinds of the faults so far, in order

readerProcVars == <<cursor, tail, fill, commands, rfaults>>
readerVars == <<storeVars, l1Vars, readerProcVars>>

NoCursor == -1

Event == [id : BatchId, block : Nat]

\* `at' is the block being processed (0: none), `last' the last block whose
\* cursor was written, `parked' whether a blob of the block was unreachable;
\* `cand' and `lost' belong to the reorg watcher at the end of the tick.
TailTick == [pc : {"idle", "scan", "work", "list", "look"},
         to : Int,
         todo : SUBSET Event,
         at : Nat,
         last : Nat,
         parked : BOOLEAN,
         cand : SUBSET BatchId,
         lost : SUBSET BatchId]
NoTail == [pc |-> "idle", to |-> 0, todo |-> {}, at |-> 0, last |-> 0,
           parked |-> FALSE, cand |-> {}, lost |-> {}]

\* The chunk is from .. upto, the whole range ends at `to'.
FillRun == [pc : {"idle", "scan", "work"},
         from : Nat,
         upto : Nat,
         to : Nat,
         todo : SUBSET Event,
         at : Nat,
         last : Nat]
NoFill == [pc |-> "idle", from |-> 0, upto |-> 0, to |-> 0, todo |-> {},
           at |-> 0, last |-> 0]

ReaderProcTypeOK ==
    /\ cursor \in Nat \cup {NoCursor}
    /\ tail \in TailTick
    /\ fill \in FillRun
    /\ commands \in Nat
    /\ rfaults \in Seq(ReaderFaultKinds)

\* The type invariant.
ReaderTypeOK == StoreTypeOK /\ L1TypeOK /\ ReaderProcTypeOK

ReaderProcInit ==
    /\ cursor = NoCursor
    /\ tail = NoTail
    /\ fill = NoFill
    /\ commands = 0
    /\ rfaults = <<>>

ReaderFault(kind) ==
    /\ kind \in ReaderFaultKinds
    /\ Len(rfaults) < MaxReaderFaults
    /\ rfaults' = Append(rfaults, kind)

Happened(kinds) == \E i \in DOMAIN rfaults : rfaults[i] \in kinds

-----------------------------------------------------------------------------
(* processBatch *)

PackOf(id) == {m \in chain[id[1]].pack : TagOfEntry(m) = id[2]}

\* The logs of a range of blocks: a register call that reverted has none.
Logs(from, to) ==
    {[id |-> e, block |-> chain[e[1]].block] : e \in
        {e \in BatchId : /\ Mined(e[1]) /\ chain[e[1]].ok
                         /\ PackOf(e) # {}
                         /\ chain[e[1]].block \in from .. to}}

ObservedBatch(ev, snapshot) ==
    [e \in {ev.id} |->
        [status |-> "confirmed", blockNumber |-> ev.block, replacedBy |-> NoTx,
         submittedAt |-> FALSE, invalidatedAt |-> FALSE, snapshot |-> snapshot]]

\* A message whose key holds another message is skipped, not an error.
ObservedMessagesSubmitted(ev, snapshot) ==  \* mutant: not final yet
    [k \in {m.key : m \in {m \in snapshot : ~ObservedConflict(messages, m)}} |->
        [status |-> "submitted",
         body |-> (CHOOSE m \in snapshot : m.key = k).body,
         batchRef |-> ev.id[1],
         ingestSeq |-> 0]]
ObservedMessages(ev, snapshot) ==
    [k \in {m.key : m \in {m \in snapshot : ~ObservedConflict(messages, m)}} |->
        [status |-> "confirmed",
         body |-> (CHOOSE m \in snapshot : m.key = k).body,
         batchRef |-> ev.id[1],
         ingestSeq |-> 0]]

\* Decoded: one transaction writes the batch and the verified messages.
Observe(ev, snapshot) ==
    /\ batches' = UpsertBatch(batches, ObservedBatch(ev, snapshot))
    /\ messages' = UpsertObserved(messages, ObservedMessages(ev, snapshot))
    /\ UNCHANGED <<nonces, tagSeq>>

\* Every message is verified, or an eth_call of the verification failed or
\* timed out for some, which are dropped.
ObserveVerified(ev) ==
    \/ Observe(ev, PackOf(ev.id)) /\ UNCHANGED rfaults
    \/ /\ ReaderFault("verify")
       /\ \E kept \in SUBSET PackOf(ev.id) : kept # PackOf(ev.id) /\ Observe(ev, kept)

\* The decoder's eth_call fails, or the blob is unreachable: only the batch
\* row is written, with an empty snapshot.
ObserveNothing(ev) ==
    /\ batches' = UpsertBatch(batches, ObservedBatch(ev, {}))
    /\ UNCHANGED <<messages, nonces, tagSeq>>

\* The next event in (block, logIndex) order; logs of one block are read in
\* the order of the log, which the model leaves open.
NextEvent(todo, at, ev) ==
    /\ ev \in todo
    /\ IF at = 0 THEN \A other \in todo : ev.block <= other.block
       ELSE ev.block = at

\* All events of the block in progress are processed.
BlockDone(todo, at) == at # 0 /\ \A ev \in todo : ev.block # at

-----------------------------------------------------------------------------
(* Live tail *)

TailStartUnsafe ==  \* mutant: the range goes up to the head
    /\ tail.pc = "idle"
    /\ tail' = [NoTail EXCEPT !.pc = "scan", !.to = head]
    /\ UNCHANGED <<storeVars, l1Vars, cursor, fill, commands, rfaults>>
TailStart ==
    /\ tail.pc = "idle"
    /\ tail' = [NoTail EXCEPT !.pc = "scan", !.to = head - ReaderWindow]
    /\ UNCHANGED <<storeVars, l1Vars, cursor, fill, commands, rfaults>>

\* The cursor decides the range; an empty range ends the tick, before the
\* reorg watcher is run.
From == IF cursor = NoCursor THEN StartBlock ELSE cursor + 1

TailScan ==
    /\ tail.pc = "scan"
    /\ tail' = IF From > tail.to THEN NoTail
               ELSE [tail EXCEPT !.pc = "work", !.todo = Logs(From, tail.to)]
    /\ UNCHANGED <<storeVars, l1Vars, cursor, fill, commands, rfaults>>

TailBatch(ev) ==
    /\ tail.pc = "work"
    /\ NextEvent(tail.todo, tail.at, ev)
    /\ \/ /\ ObserveVerified(ev)
          /\ tail' = [tail EXCEPT !.todo = @ \ {ev}, !.at = ev.block]
       \/ /\ ReaderFault("decode")
          /\ ObserveNothing(ev)
          /\ tail' = [tail EXCEPT !.todo = @ \ {ev}, !.at = ev.block]
       \/ /\ ReaderFault("tail_blob")
          /\ ObserveNothing(ev)
          /\ tail' = [tail EXCEPT !.todo = @ \ {ev}, !.at = ev.block,
                                  !.parked = TRUE]
    /\ UNCHANGED <<l1Vars, cursor, fill, commands>>

\* The end of a block: its cursor is written, unless a blob was unreachable:
\* then the rest of the range waits for the next tick.
TailBlockUnparked ==    \* mutant: an unreachable blob does not park the cursor
    /\ tail.pc = "work"
    /\ BlockDone(tail.todo, tail.at)
    /\ cursor' = tail.at
    /\ tail' = [tail EXCEPT !.at = 0, !.last = tail.at, !.parked = FALSE]
    /\ UNCHANGED <<storeVars, l1Vars, fill, commands, rfaults>>
TailBlock ==
    /\ tail.pc = "work"
    /\ BlockDone(tail.todo, tail.at)
    /\ IF tail.parked
       THEN /\ tail' = [NoTail EXCEPT !.pc = "list"]
            /\ UNCHANGED cursor
       ELSE /\ cursor' = tail.at
            /\ tail' = [tail EXCEPT !.at = 0, !.last = tail.at]
    /\ UNCHANGED <<storeVars, l1Vars, fill, commands, rfaults>>

\* All events are committed: the cursor catches up with the end of the range.
TailCatchUpNot ==   \* mutant: no catch-up over blocks without events
    /\ tail.pc = "work"
    /\ tail.todo = {} /\ tail.at = 0
    /\ tail' = [NoTail EXCEPT !.pc = "list"]
    /\ UNCHANGED <<storeVars, l1Vars, cursor, fill, commands, rfaults>>
TailCatchUp ==
    /\ tail.pc = "work"
    /\ tail.todo = {} /\ tail.at = 0
    /\ cursor' = IF tail.last < tail.to THEN tail.to ELSE cursor
    /\ tail' = [NoTail EXCEPT !.pc = "list"]
    /\ UNCHANGED <<storeVars, l1Vars, fill, commands, rfaults>>

-----------------------------------------------------------------------------
(* Reorg watcher, at the end of a tick *)

TailList ==
    /\ tail.pc = "list"
    /\ tail' = [NoTail EXCEPT
          !.pc = "look",
          !.cand = BatchesSince(batches, "confirmed", head - ReaderWindow)]
    /\ UNCHANGED <<storeVars, l1Vars, cursor, fill, commands, rfaults>>

\* getTransactionBlock finds the transaction.
TailKeep(e) ==
    /\ tail.pc = "look" /\ tail.lost = {}
    /\ e \in tail.cand
    /\ Mined(e[1])
    /\ tail' = [tail EXCEPT !.cand = @ \ {e}]
    /\ UNCHANGED <<storeVars, l1Vars, cursor, fill, commands, rfaults>>

\* It returns null: the transaction is not on the chain, or the call failed.
TailLost(e) ==
    /\ tail.pc = "look" /\ tail.lost = {}
    /\ e \in tail.cand
    /\ \/ ~Mined(e[1]) /\ UNCHANGED rfaults
       \/ Mined(e[1]) /\ ReaderFault("lookup")
    /\ tail' = [tail EXCEPT !.cand = @ \ {e}, !.lost = {e}]
    /\ UNCHANGED <<storeVars, l1Vars, cursor, fill, commands>>

\* markReorged in a transaction of its own.
TailMark(e) ==
    /\ tail.pc = "look" /\ tail.lost = {e}
    /\ HasBatch(batches, e[1])
    /\ batches' = ReorgBatches(batches, e[1])
    /\ messages' = ReorgMessages(messages, e[1])
    /\ tail' = [tail EXCEPT !.lost = {}]
    /\ UNCHANGED <<nonces, tagSeq, l1Vars, cursor, fill, commands, rfaults>>

TailEnd ==
    /\ tail.pc = "look" /\ tail.cand = {} /\ tail.lost = {}
    /\ tail' = NoTail
    /\ UNCHANGED <<storeVars, l1Vars, cursor, fill, commands, rfaults>>

\* An RPC call or a store transaction throws, or markReorged finds no batch:
\* the tick is abandoned and `serve' starts another one.
TailThrows ==
    /\ tail.pc # "idle"
    /\ \/ ReaderFault("throw")
       \/ /\ \E e \in tail.lost : ~HasBatch(batches, e[1])
          /\ UNCHANGED rfaults
    /\ tail' = NoTail
    /\ UNCHANGED <<storeVars, l1Vars, cursor, fill, commands>>

LiveTail ==
    \/ TailStart \/ TailScan \/ TailBlock \/ TailCatchUp
    \/ \E ev \in tail.todo : TailBatch(ev)
    \/ TailList \/ TailEnd
    \/ \E e \in BatchId : TailKeep(e) \/ TailLost(e) \/ TailMark(e)

-----------------------------------------------------------------------------
(* Backfill *)

\* The operator asks for the range from .. to.  A careful one starts no later
\* than the live tail would and ends at safeHead or before, as the markers
\* `deploy' and `catchup' do; any other range leaves a gap or reads blocks a
\* fork may still replace.
FillStart(from, to) ==
    /\ fill.pc = "idle"
    /\ commands < MaxCommands
    /\ from <= to
    /\ CarefulOperator => from <= From /\ to <= head - ReaderWindow
    /\ fill' = [NoFill EXCEPT !.pc = "scan", !.from = from, !.to = to]
    /\ commands' = commands + 1
    /\ UNCHANGED <<storeVars, l1Vars, cursor, tail, rfaults>>

FillScan ==
    /\ fill.pc = "scan"
    /\ LET end == fill.from + ChunkSize - 1
           upto == IF end < fill.to THEN end ELSE fill.to
       IN  fill' = [fill EXCEPT !.pc = "work", !.upto = upto, !.last = 0,
                                !.todo = Logs(fill.from, upto)]
    /\ UNCHANGED <<storeVars, l1Vars, cursor, tail, commands, rfaults>>

\* An unreachable blob is counted, as permanent or transient, and passed over.
FillBatch(ev) ==
    /\ fill.pc = "work"
    /\ NextEvent(fill.todo, fill.at, ev)
    /\ \/ ObserveVerified(ev)
       \/ \E kind \in {"decode", "fill_blob"} : ReaderFault(kind) /\ ObserveNothing(ev)
    /\ fill' = [fill EXCEPT !.todo = @ \ {ev}, !.at = ev.block]
    /\ UNCHANGED <<l1Vars, cursor, tail, commands>>

FillBlock ==
    /\ fill.pc = "work"
    /\ BlockDone(fill.todo, fill.at)
    /\ cursor' = fill.at
    /\ fill' = [fill EXCEPT !.at = 0, !.last = fill.at]
    /\ UNCHANGED <<storeVars, l1Vars, tail, commands, rfaults>>

FillChunk ==
    /\ fill.pc = "work"
    /\ fill.todo = {} /\ fill.at = 0
    /\ cursor' = IF fill.last < fill.upto THEN fill.upto ELSE cursor
    /\ fill' = IF fill.upto = fill.to THEN NoFill
               ELSE [fill EXCEPT !.pc = "scan", !.from = fill.upto + 1]
    /\ UNCHANGED <<storeVars, l1Vars, tail, commands, rfaults>>

FillThrows ==
    /\ fill.pc # "idle"
    /\ ReaderFault("throw")
    /\ fill' = NoFill
    /\ UNCHANGED <<storeVars, l1Vars, cursor, tail, commands>>

Backfill ==
    \/ \E from, to \in StartBlock .. head : FillStart(from, to)
    \/ FillScan \/ FillBlock \/ FillChunk
    \/ \E ev \in fill.todo : FillBatch(ev)

-----------------------------------------------------------------------------
(* Operator *)

Idle == tail.pc = "idle" /\ fill.pc = "idle"

\* reset --cursor, on a running daemon or a stopped one.
ResetCursor ==
    /\ commands < MaxCommands
    /\ cursor' = NoCursor
    /\ commands' = commands + 1
    /\ UNCHANGED <<storeVars, l1Vars, tail, fill, rfaults>>

\* reset --all.  No lock keeps it from a running tick, whose cursor write
\* would then pass blocks whose rows are deleted: a careful operator stops the
\* reader first.
ResetAll ==
    /\ CarefulOperator => Idle
    /\ commands < MaxCommands
    /\ messages' = [k \in Key |-> NoMessage]
    /\ batches' = [e \in BatchId |-> NoBatch]
    /\ cursor' = NoCursor
    /\ commands' = commands + 1
    /\ UNCHANGED <<nonces, tagSeq, l1Vars, tail, fill, rfaults>>

\* The process dies and is started again.
ReaderCrash ==
    /\ ReaderFault("crash")
    /\ tail' = NoTail
    /\ fill' = NoFill
    /\ UNCHANGED <<storeVars, l1Vars, cursor, commands>>

ReaderNext ==
    \/ LiveTail \/ TailThrows
    \/ Backfill \/ FillThrows
    \/ ResetCursor \/ ResetAll
    \/ ReaderCrash

-----------------------------------------------------------------------------
(* The rest of the system, as far as the Reader sees it.  Anyone may send a *)
(* transaction; the Poster on the same database records one of its own as   *)
(* soon as it is mined.                                                     *)

Announce(t, pack) ==
    /\ NextTx(t)
    /\ EnterMempool(t, pack)
    /\ UNCHANGED <<storeVars, head, forks, readerProcVars>>

PosterRecords(t) ==
    LET pack == chain[t].pack
        rows == [e \in {<<t, TagOfEntry(m)>> : m \in pack} |->
                    [ObservedBatch([id |-> e, block |-> chain[t].block],
                                   PackOf(e))[e] EXCEPT !.submittedAt = TRUE]]
        first == CHOOSE e \in DOMAIN rows : TRUE
    IN
    /\ Mined(t)
    /\ \A m \in pack : ~ObservedConflict(messages, m)
    /\ \E e \in DOMAIN rows : ~batches[e].submittedAt
    /\ batches' = UpsertBatch(batches, rows)
    /\ messages' = UpsertObserved(messages,
                        ObservedMessages([id |-> first, block |-> chain[t].block], pack))
    /\ UNCHANGED <<nonces, tagSeq, l1Vars, readerProcVars>>

ReaderEnvironment ==
    \/ \E t \in Tx, pack \in AnnouncedPacks : Announce(t, pack)
    \/ \E t \in PosterTx : PosterRecords(t)
    \/ L1Next /\ UNCHANGED <<storeVars, readerProcVars>>

ReaderInit == StoreInit /\ L1Init /\ ReaderProcInit

ReaderSpec == ReaderInit /\ [][ReaderNext \/ ReaderEnvironment]_readerVars

\* `serve' starts a tick after every other, awaited calls return, and L1
\* mines what stays in the mempool.  A backfill may stop anywhere.
ReaderFairSpec ==
    /\ ReaderSpec
    /\ WF_readerVars(LiveTail)
    /\ WF_readerVars(\E t \in Tx : MineTx(t, TRUE) /\ UNCHANGED <<storeVars, readerProcVars>>)

-----------------------------------------------------------------------------
(* Properties, for forks no deeper than ReaderWindow and a careful operator *)

\* Every event at or below the cursor is in the store, under the block it is
\* in: no crash between the transaction of a batch and that of the cursor, no
\* fork, reset or backfill that runs next to the live tail leaves a hole
\* below the cursor that no later tick would scan.
CursorComplete ==
    \A ev \in Logs(StartBlock, cursor) :
        /\ batches[ev.id].status # "absent"
        /\ batches[ev.id].status = "confirmed" => batches[ev.id].blockNumber = ev.block

\* The faults whose effect the code takes as final: the message or the batch
\* is skipped and the cursor passes it.
Dropping == {"decode", "verify", "fill_blob"}

\* Below the cursor the content is rebuilt too: the snapshot is the whole
\* pack and each of its messages has a row.  An unreachable blob in the live
\* tail only delays the cursor, which waits in front of its block.
MessagesComplete ==
    Happened(Dropping) \/
        \A ev \in Logs(StartBlock, cursor) :
            /\ batches[ev.id].snapshot = PackOf(ev.id)
            /\ \A m \in PackOf(ev.id) : messages[m.key].status # "absent"

\* A confirmed message names a confirmed batch whose snapshot holds it, with
\* two processes, the reorg watcher and the Poster writing both tables.
ObservedBacked ==
    Happened({"verify"}) \/
        \A k \in Key : messages[k].status = "confirmed" =>
            LET e == <<messages[k].batchRef, TagOf[messages[k].body]>>
            IN  /\ batches[e].status = "confirmed"
                /\ [key |-> k, body |-> messages[k].body] \in batches[e].snapshot

\* Processing an event again, after a rewind, a reset of the cursor, a crash or
\* a fork, with the blob or the decoder out of reach this time, loses none of
\* the messages a batch was seen with before.
SnapshotKept ==
    \A e \in BatchId :
        batches'[e].status # "absent" => batches[e].snapshot \subseteq batches'[e].snapshot
ReplayKeeps == [][Happened({"verify"})' \/ SnapshotKept]_readerVars

\* The same without the exception: backfill's comment calls a second run of a
\* range idempotent, as the upserts preserve prior values.
ReplayIdempotent == [][SnapshotKept]_readerVars

\* The live tail reaches the safe head and stays there, whatever outages,
\* crashes, resets and rewinds came before.
TailCatchesUp ==
    <>[](head - ReaderWindow >= StartBlock => cursor = head - ReaderWindow)
=============================================================================
