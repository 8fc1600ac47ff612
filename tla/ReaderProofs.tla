---------------------------- MODULE ReaderProofs ----------------------------
(***************************************************************************)
(* Theorems of the Reader's specification, for every chain, any number of  *)
(* backfills, resets and faults, and forks no deeper than ReaderWindow.    *)
(***************************************************************************)
EXTENDS Reader, StoreProofs

\* What the README of the package asks of the deployment.
SafeOperation == CarefulOperator /\ MaxForkDepth <= ReaderWindow

-----------------------------------------------------------------------------
(* The invariant behind CursorComplete *)

\* The batch has an event in a block between StartBlock and c.
Registered(e, c) ==
    /\ Mined(e[1]) /\ chain[e[1]].ok
    /\ PackOf(e) # {}
    /\ StartBlock <= chain[e[1]].block /\ chain[e[1]].block <= c

Known(e) ==
    /\ batches[e].status # "absent"
    /\ batches[e].status = "confirmed" => batches[e].blockNumber = chain[e[1]].block

\* Every event up to c is in the store or still to be processed.
CoveredTo(c, todo) ==
    \A e \in BatchId : Registered(e, c) =>
        Known(e) \/ \E ev \in todo : ev.id = e

\* The work list holds events up to c, from the block in progress on.
TodoOK(todo, at, c) ==
    /\ at <= c
    /\ \A ev \in todo : /\ Mined(ev.id[1])
                        /\ ev.block = chain[ev.id[1]].block
                        /\ at <= ev.block /\ ev.block <= c

CursorInv ==
    /\ cursor = NoCursor \/ cursor <= head - ReaderWindow
    /\ CoveredTo(cursor, {})

TailInv ==
    /\ tail.pc \in {"scan", "work"} => tail.to <= head - ReaderWindow
    /\ tail.pc = "scan" => tail.at = 0
    /\ tail.pc = "work" => /\ TodoOK(tail.todo, tail.at, tail.to)
                           /\ CoveredTo(tail.to, tail.todo)

FillInv ==
    /\ fill.pc # "idle" => /\ fill.from <= fill.to
                           /\ fill.to <= head - ReaderWindow
    /\ fill.pc = "scan" => /\ CoveredTo(fill.from - 1, {})
                           /\ fill.at = 0
    /\ fill.pc = "work" => /\ fill.upto <= fill.to
                           /\ TodoOK(fill.todo, fill.at, fill.upto)
                           /\ CoveredTo(fill.upto, fill.todo)

ReaderInv == ReaderTypeOK /\ CursorInv /\ TailInv /\ FillInv

-----------------------------------------------------------------------------
(* Types *)

LEMMA LogsType ==
  ASSUME L1TypeOK, NEW from, NEW to
  PROVE  Logs(from, to) \subseteq Event
  BY DEF L1TypeOK, ChainTx, Logs, Event, BatchId

LEMMA PackOfType ==
  ASSUME L1TypeOK, NEW e \in BatchId
  PROVE  PackOf(e) \in SUBSET Entry
  BY DEF L1TypeOK, ChainTx, PackOf, BatchId

LEMMA ObservedBatchType ==
  ASSUME NEW ev \in Event, NEW snapshot \in SUBSET Entry
  PROVE  ObservedBatch(ev, snapshot)[ev.id] \in BatchRow
  BY DEF ObservedBatch, Event, BatchRow, BatchStatus, NoTx

LEMMA ObservedMessagesType ==
  ASSUME NEW ev \in Event, NEW snapshot \in SUBSET Entry,
         NEW k \in DOMAIN ObservedMessages(ev, snapshot)
  PROVE  ObservedMessages(ev, snapshot)[k] \in MessageRow
  <1> DEFINE b == (CHOOSE m \in snapshot : m.key = k).body
  <1>1. \E m \in snapshot : m.key = k
    BY DEF ObservedMessages
  <1>2. b \in Bodies
    BY <1>1 DEF Entry
  <1>3. ObservedMessages(ev, snapshot)[k] =
          [status |-> "confirmed", body |-> b, batchRef |-> ev.id[1], ingestSeq |-> 0]
    BY DEF ObservedMessages
  <1>4. ev.id[1] \in Tx
    BY DEF Event, BatchId
  <1> HIDE DEF b
  <1>5. QED
    BY <1>2, <1>3, <1>4 DEF MessageRow, MessageStatus

LEMMA ObserveType ==
  ASSUME StoreTypeOK, NEW ev \in Event, NEW snapshot \in SUBSET Entry,
         Observe(ev, snapshot)
  PROVE  StoreTypeOK'
  <1>1. \A e \in DOMAIN ObservedBatch(ev, snapshot) :
           ObservedBatch(ev, snapshot)[e] \in BatchRow
    BY ObservedBatchType DEF ObservedBatch
  <1>2. batches' \in BatchTable
    BY <1>1, UpsertBatchType DEF Observe, StoreTypeOK, BatchTable
  <1>3. messages' \in MessageTable
    BY ObservedMessagesType, UpsertObservedType DEF Observe, StoreTypeOK, MessageTable
  <1>4. QED
    BY <1>2, <1>3 DEF Observe, StoreTypeOK, BatchTable, MessageTable

LEMMA ObserveNothingType ==
  ASSUME StoreTypeOK, NEW ev \in Event, ObserveNothing(ev)
  PROVE  StoreTypeOK'
  <1>1. \A e \in DOMAIN ObservedBatch(ev, {}) : ObservedBatch(ev, {})[e] \in BatchRow
    BY ObservedBatchType DEF ObservedBatch
  <1>2. batches' \in BatchTable
    BY <1>1, UpsertBatchType DEF ObserveNothing, StoreTypeOK, BatchTable
  <1>3. QED
    BY <1>2 DEF ObserveNothing, StoreTypeOK, BatchTable

LEMMA FaultType ==
  ASSUME ReaderProcTypeOK, NEW kind, ReaderFault(kind)
  PROVE  rfaults' \in Seq(ReaderFaultKinds)
  BY DEF ReaderProcTypeOK, ReaderFault

\* Either way the event of a work list is processed.
Processed(ev) == ObserveVerified(ev) \/ ObserveNothing(ev)

LEMMA ProcessedType ==
  ASSUME StoreTypeOK, L1TypeOK, NEW ev \in Event, Processed(ev)
  PROVE  StoreTypeOK'
  <1>1. ev.id \in BatchId
    BY DEF Event
  <1>2. CASE ObserveNothing(ev)
    BY <1>2, ObserveNothingType
  <1>3. CASE ObserveVerified(ev)
    <2>1. PICK kept \in SUBSET PackOf(ev.id) : Observe(ev, kept)
      BY <1>3 DEF ObserveVerified
    <2>2. kept \in SUBSET Entry
      BY <1>1, PackOfType
    <2>3. QED
      BY <2>1, <2>2, ObserveType
  <1>4. QED
    BY <1>2, <1>3 DEF Processed

LEMMA PosterRecordsType ==
  ASSUME StoreTypeOK, L1TypeOK, NEW t \in PosterTx, PosterRecords(t)
  PROVE  StoreTypeOK'
  <1> DEFINE pack == chain[t].pack
             ids == {<<t, TagOfEntry(m)>> : m \in pack}
             event(e) == [id |-> e, block |-> chain[t].block]
             row(e) == [ObservedBatch(event(e), PackOf(e))[e] EXCEPT !.submittedAt = TRUE]
             rows == [e \in ids |-> row(e)]
             first == CHOOSE e \in ids : TRUE
  <1>1. t \in Tx /\ pack \in SUBSET Entry /\ chain[t].block \in Nat
    BY ReaderAssumption DEF L1TypeOK, ChainTx
  <1>2. ids \subseteq BatchId
    BY <1>1, BamStoreAssumption DEF BatchId, Entry, TagOfEntry
  <1>3. \A e \in BatchId : row(e) \in BatchRow
    <2> SUFFICES ASSUME NEW e \in BatchId
                 PROVE  row(e) \in BatchRow
      OBVIOUS
    <2>1. event(e) \in Event /\ event(e).id = e /\ PackOf(e) \in SUBSET Entry
      BY <1>1, PackOfType DEF Event
    <2>2. ObservedBatch(event(e), PackOf(e))[e] \in BatchRow
      BY <2>1, ObservedBatchType
    <2>3. QED
      BY <2>2 DEF BatchRow
  <1>4. batches' = UpsertBatch(batches, rows)
    BY DEF PosterRecords
  <1>5. batches' \in BatchTable
    <2> HIDE DEF row
    <2>1. \A e \in DOMAIN rows : rows[e] \in BatchRow
      BY <1>2, <1>3
    <2> HIDE DEF rows
    <2>2. QED
      BY <1>4, <2>1, UpsertBatchType DEF StoreTypeOK, BatchTable
  <1>6. messages' = UpsertObserved(messages, ObservedMessages(event(first), pack))
    BY DEF PosterRecords
  <1>7. first \in ids
    BY DEF PosterRecords
  <1> HIDE DEF first
  <1>8. event(first) \in Event
    BY <1>1, <1>2, <1>7 DEF Event
  <1> HIDE DEF event, pack, ids
  <1>9. messages' \in MessageTable
    BY <1>1, <1>6, <1>8, ObservedMessagesType, UpsertObservedType
       DEF StoreTypeOK, MessageTable
  <1>10. QED
    BY <1>5, <1>9 DEF PosterRecords, StoreTypeOK, BatchTable, MessageTable

LEMMA AnnounceType ==
  ASSUME L1TypeOK, NEW t \in Tx, NEW pack \in AnnouncedPacks, Announce(t, pack)
  PROVE  L1TypeOK'
  <1>1. [NoChainTx EXCEPT !.status = "mempool", !.pack = pack] \in ChainTx
    BY ReaderAssumption DEF NoChainTx, ChainTx
  <1>2. QED
    BY <1>1 DEF Announce, EnterMempool, L1TypeOK

-----------------------------------------------------------------------------
(* The chain below the safe head does not change *)

FinalKept ==
    /\ head' >= head
    /\ \A t \in Tx :
          \/ chain[t].status = "mined" /\ chain[t].block <= head - ReaderWindow
          \/ chain'[t].status = "mined" /\ chain'[t].block <= head - ReaderWindow
          => chain'[t] = chain[t]

LEMMA L1Final ==
  ASSUME SafeOperation, L1TypeOK, L1Next
  PROVE  FinalKept
  <1>1. head \in Nat /\ ReaderWindow \in Nat /\ MaxForkDepth \in Nat
        /\ MaxForkDepth <= ReaderWindow
        /\ \A t \in Tx : chain[t].block \in Nat
        /\ chain \in [Tx -> ChainTx]
    BY L1Assumption, ReaderAssumption DEF L1TypeOK, SafeOperation, ChainTx
  <1>2. ASSUME NEW t \in Tx, NEW ok \in BOOLEAN, MineTx(t, ok)
        PROVE  FinalKept
    <2>1. head' = head + 1 /\ chain[t].status = "mempool"
      BY <1>2 DEF MineTx
    <2>2. \A u \in Tx \ {t} : chain'[u] = chain[u]
      BY <1>1, <1>2 DEF MineTx
    <2>3. chain'[t].block = head + 1
      BY <1>1, <1>2 DEF MineTx, ChainTx
    <2>4. QED
      BY <1>1, <2>1, <2>2, <2>3 DEF FinalKept
  <1>3. CASE MineEmpty
    BY <1>1, <1>3 DEF MineEmpty, FinalKept
  <1>4. ASSUME NEW first \in 1 .. head, Fork(first)
        PROVE  FinalKept
    <2> DEFINE moved == {t \in Tx : Mined(t) /\ chain[t].block >= first}
    <2>1. PICK place \in [moved -> {0} \cup (first .. head)] :
            chain' = [t \in Tx |->
                  IF t \notin moved THEN chain[t]
                  ELSE IF place[t] = 0
                  THEN [chain[t] EXCEPT !.status = "mempool", !.block = 0]
                  ELSE [chain[t] EXCEPT !.block = place[t]]]
      BY <1>4 DEF Fork
    <2>2. first \in Nat /\ first > head - ReaderWindow /\ head' = head
      <3>1. first > head - MaxForkDepth /\ head' = head
        BY <1>4 DEF Fork
      <3>2. first \in Nat
        BY <1>1
      <3> HIDE DEF moved
      <3>3. QED
        BY <1>1, <3>1, <3>2
    <2>3. \A t \in Tx : t \notin moved => chain'[t] = chain[t]
      BY <2>1
    <2>4. ASSUME NEW t \in moved
          PROVE  /\ chain[t].block >= first
                 /\ chain'[t].status = "mined" => chain'[t].block \in first .. head
      <3>1. t \in Tx /\ chain[t] \in ChainTx /\ chain[t].block >= first
        BY <1>1
      <3>2. CASE place[t] = 0
        <4>1. chain'[t] = [chain[t] EXCEPT !.status = "mempool", !.block = 0]
          BY <2>1, <3>1, <3>2
        <4>2. chain'[t].status = "mempool"
          BY <3>1, <4>1 DEF ChainTx
        <4>3. QED
          BY <3>1, <4>2
      <3>3. CASE place[t] # 0
        <4>1. chain'[t] = [chain[t] EXCEPT !.block = place[t]]
          BY <2>1, <3>1, <3>3
        <4>2. chain'[t].block = place[t] /\ place[t] \in first .. head
          BY <2>1, <3>1, <3>3, <4>1 DEF ChainTx
        <4>3. QED
          BY <1>1, <3>1, <4>2
      <3>4. QED
        BY <3>2, <3>3
    <2> HIDE DEF moved
    <2>5. QED
      BY <1>1, <2>2, <2>3, <2>4 DEF FinalKept
  <1>5. QED
    BY <1>2, <1>3, <1>4 DEF L1Next

LEMMA AnnounceFinal ==
  ASSUME L1TypeOK, NEW t \in Tx, NEW pack \in AnnouncedPacks, Announce(t, pack)
  PROVE  FinalKept
  <1>1. chain[t].status = "unsent" /\ chain \in [Tx -> ChainTx] /\ head \in Nat
    BY DEF Announce, NextTx, L1TypeOK
  <1>2. chain'[t].status = "mempool" /\ head' = head
    BY <1>1 DEF Announce, EnterMempool, NoChainTx
  <1>3. \A u \in Tx \ {t} : chain'[u] = chain[u]
    BY <1>1 DEF Announce, EnterMempool
  <1>4. QED
    BY <1>1, <1>2, <1>3 DEF FinalKept

-----------------------------------------------------------------------------
(* What is known about a final event stays known *)

KnownKept ==
    \A e \in BatchId :
        /\ Mined(e[1]) /\ chain[e[1]].block <= head - ReaderWindow
        /\ Known(e)
        => /\ batches'[e].status # "absent"
           /\ batches'[e].status = "confirmed" =>
                batches'[e].blockNumber = chain'[e[1]].block

LEMMA UpsertedBatch ==
  ASSUME NEW bs \in BatchTable, NEW rows, NEW e \in BatchId,
         \A x \in DOMAIN rows : rows[x] \in BatchRow /\ rows[x].status = "confirmed"
  PROVE  /\ e \notin DOMAIN rows => UpsertBatch(bs, rows)[e] = bs[e]
         /\ e \in DOMAIN rows =>
               /\ UpsertBatch(bs, rows)[e].status = "confirmed"
               /\ UpsertBatch(bs, rows)[e].blockNumber = rows[e].blockNumber
  <1>1. ASSUME NEW old, NEW new \in BatchRow
        PROVE  /\ MergeBatch(old, new).status = new.status
               /\ MergeBatch(old, new).blockNumber = new.blockNumber
    BY DEF MergeBatch, BatchRow
  <1>2. DOMAIN bs = BatchId
    BY DEF BatchTable
  <1>3. QED
    BY <1>1, <1>2 DEF UpsertBatch

LEMMA ObservedKnown ==
  ASSUME batches \in BatchTable, NEW ev \in Event, NEW snapshot \in SUBSET Entry,
         ev.block = chain[ev.id[1]].block, chain' = chain,
         batches' = UpsertBatch(batches, ObservedBatch(ev, snapshot))
  PROVE  /\ KnownKept
         /\ batches'[ev.id].status = "confirmed"
         /\ batches'[ev.id].blockNumber = ev.block
  <1>1. DOMAIN ObservedBatch(ev, snapshot) = {ev.id} /\ ev.id \in BatchId
    BY DEF ObservedBatch, Event
  <1>2. /\ ObservedBatch(ev, snapshot)[ev.id] \in BatchRow
        /\ ObservedBatch(ev, snapshot)[ev.id].status = "confirmed"
        /\ ObservedBatch(ev, snapshot)[ev.id].blockNumber = ev.block
    BY ObservedBatchType DEF ObservedBatch
  <1>3. /\ \A e \in BatchId \ {ev.id} : batches'[e] = batches[e]
        /\ batches'[ev.id].status = "confirmed"
        /\ batches'[ev.id].blockNumber = ev.block
    BY <1>1, <1>2, UpsertedBatch
  <1>4. QED
    BY <1>3 DEF KnownKept, Known

LEMMA ProcessedKnown ==
  ASSUME StoreTypeOK, L1TypeOK, NEW ev \in Event,
         ev.block = chain[ev.id[1]].block, chain' = chain, Processed(ev)
  PROVE  /\ KnownKept
         /\ batches'[ev.id].status = "confirmed"
         /\ batches'[ev.id].blockNumber = ev.block
  <1>1. PICK snapshot \in SUBSET Entry :
           batches' = UpsertBatch(batches, ObservedBatch(ev, snapshot))
    <2>1. CASE ObserveNothing(ev)
      BY <2>1 DEF ObserveNothing
    <2>2. CASE ObserveVerified(ev)
      <3>1. PICK kept \in SUBSET PackOf(ev.id) : Observe(ev, kept)
        BY <2>2 DEF ObserveVerified
      <3>2. kept \in SUBSET Entry
        BY PackOfType DEF Event
      <3>3. QED
        BY <3>1, <3>2 DEF Observe
    <2>3. QED
      BY <2>1, <2>2 DEF Processed
  <1>2. QED
    BY <1>1, ObservedKnown DEF StoreTypeOK, BatchTable

LEMMA PosterRecordsKnown ==
  ASSUME StoreTypeOK, L1TypeOK, NEW t \in PosterTx, PosterRecords(t)
  PROVE  KnownKept /\ chain' = chain /\ head' = head
  <1> DEFINE pack == chain[t].pack
             ids == {<<t, TagOfEntry(m)>> : m \in pack}
             event(e) == [id |-> e, block |-> chain[t].block]
             row(e) == [ObservedBatch(event(e), PackOf(e))[e] EXCEPT !.submittedAt = TRUE]
             rows == [e \in ids |-> row(e)]
  <1>1. t \in Tx /\ pack \in SUBSET Entry /\ chain[t].block \in Nat
    BY ReaderAssumption DEF L1TypeOK, ChainTx
  <1>2. ids \subseteq BatchId /\ \A e \in ids : e[1] = t
    BY <1>1, BamStoreAssumption DEF BatchId, Entry, TagOfEntry
  <1>3. \A e \in BatchId : /\ row(e) \in BatchRow
                           /\ row(e).status = "confirmed"
                           /\ row(e).blockNumber = chain[t].block
    <2> SUFFICES ASSUME NEW e \in BatchId
                 PROVE  /\ row(e) \in BatchRow
                        /\ row(e).status = "confirmed"
                        /\ row(e).blockNumber = chain[t].block
      OBVIOUS
    <2>1. event(e) \in Event /\ event(e).id = e /\ PackOf(e) \in SUBSET Entry
      BY <1>1, PackOfType DEF Event
    <2>2. /\ ObservedBatch(event(e), PackOf(e))[e] \in BatchRow
          /\ ObservedBatch(event(e), PackOf(e))[e].status = "confirmed"
          /\ ObservedBatch(event(e), PackOf(e))[e].blockNumber = chain[t].block
      BY <2>1, ObservedBatchType DEF ObservedBatch
    <2>3. QED
      BY <2>2 DEF BatchRow
  <1>4. batches' = UpsertBatch(batches, rows) /\ chain' = chain /\ head' = head
    BY DEF PosterRecords, l1Vars
  <1> HIDE DEF row, pack, event
  <1>5. \A e \in DOMAIN rows : /\ rows[e] \in BatchRow
                                /\ rows[e].status = "confirmed"
                                /\ rows[e].blockNumber = chain[e[1]].block
    BY <1>2, <1>3
  <1> HIDE DEF rows
  <1>6. \A e \in BatchId :
          \/ batches'[e] = batches[e]
          \/ batches'[e].status = "confirmed" /\ batches'[e].blockNumber = chain[e[1]].block
    BY <1>4, <1>5, UpsertedBatch DEF StoreTypeOK, BatchTable
  <1>7. QED
    BY <1>4, <1>6 DEF KnownKept, Known

LEMMA MarkedKnown ==
  ASSUME StoreTypeOK, NEW e, TailMark(e)
  PROVE  KnownKept
  <1>1. \A x \in BatchId : \/ batches'[x] = batches[x]
                          \/ batches'[x].status = "reorged"
    <2>1. \A x \in BatchId : batches[x].status # "absent" => batches[x] \in BatchRow
      BY DEF StoreTypeOK, NoBatch
    <2>2. QED
      BY <2>1 DEF TailMark, ReorgBatches, StoreTypeOK, BatchRow
  <1>2. QED
    BY <1>1 DEF TailMark, KnownKept, Known, l1Vars

-----------------------------------------------------------------------------
(* What a step that leaves a process alone does to its part of ReaderInv *)

LEMMA BlockType ==
  ASSUME L1TypeOK, NEW e \in BatchId
  PROVE  /\ e[1] \in Tx
         /\ chain[e[1]].block \in Nat
         /\ head \in Nat /\ ReaderWindow \in Nat /\ StartBlock \in Nat \ {0}
  BY ReaderAssumption DEF L1TypeOK, ChainTx, BatchId

LEMMA SafeHeadGrows ==
  ASSUME NEW c \in Int, NEW h \in Nat, NEW i \in Nat, h <= i, c <= h - ReaderWindow
  PROVE  c <= i - ReaderWindow
  BY ReaderAssumption

LEMMA CursorFrame ==
  ASSUME ReaderInv, L1TypeOK', FinalKept, KnownKept, cursor' = cursor
  PROVE  CursorInv'
  <1>0. L1TypeOK /\ ReaderProcTypeOK /\ CursorInv
    BY DEF ReaderInv, ReaderTypeOK
  <1>1. cursor \in Int /\ head \in Nat /\ head' \in Nat /\ ReaderWindow \in Nat
    BY <1>0, ReaderAssumption DEF ReaderProcTypeOK, L1TypeOK, NoCursor
  <1>2. cursor' = NoCursor \/ cursor' <= head' - ReaderWindow
    <2>1. head <= head' /\ (cursor = NoCursor \/ cursor <= head - ReaderWindow)
      BY <1>0, <1>1 DEF CursorInv, FinalKept
    <2>2. QED
      BY <1>1, <2>1, SafeHeadGrows
  <1>3. ASSUME NEW e \in BatchId, Registered(e, cursor)'
        PROVE  Known(e)'
    <2>1. /\ e[1] \in Tx /\ chain[e[1]].block \in Nat /\ chain'[e[1]].block \in Nat
          /\ StartBlock \in Nat \ {0}
      BY <1>0, BlockType DEF L1TypeOK, ChainTx
    <2>2. chain'[e[1]].status = "mined" /\ chain'[e[1]].block <= head - ReaderWindow
      BY <1>0, <1>1, <1>3, <2>1 DEF Registered, Mined, CursorInv, NoCursor
    <2>3. chain'[e[1]] = chain[e[1]]
      BY <2>1, <2>2 DEF FinalKept
    <2>4. Registered(e, cursor)
      BY <1>3, <2>3 DEF Registered, Mined, PackOf
    <2>5. Known(e)
      BY <1>0, <2>4 DEF CursorInv, CoveredTo
    <2>6. QED
      BY <2>2, <2>3, <2>5 DEF KnownKept, Known, Mined
  <1>4. QED
    BY <1>2, <1>3 DEF CursorInv, CoveredTo

\* The frame of a work list, for the tail and the backfill alike.
LEMMA WorkKept ==
  ASSUME L1TypeOK, L1TypeOK', FinalKept, KnownKept,
         NEW c \in Int, c <= head - ReaderWindow,
         NEW todo, NEW at, TodoOK(todo, at, c), CoveredTo(c, todo),
         todo \subseteq Event
  PROVE  TodoOK(todo, at, c)' /\ CoveredTo(c, todo)'
  <1>1. ASSUME NEW ev \in todo
        PROVE  /\ Mined(ev.id[1])'
               /\ ev.block = chain'[ev.id[1]].block
    <2>1. ev.id \in BatchId
      BY DEF Event
    <2>2. Mined(ev.id[1]) /\ ev.block = chain[ev.id[1]].block /\ ev.block <= c
      BY DEF TodoOK
    <2>3. chain'[ev.id[1]] = chain[ev.id[1]]
      BY <2>1, <2>2, BlockType DEF Mined, FinalKept
    <2>4. QED
      BY <2>2, <2>3 DEF Mined
  <1>2. ASSUME NEW e \in BatchId, Registered(e, c)', ~ \E ev \in todo : ev.id = e
        PROVE  Known(e)'
    <2>1. /\ e[1] \in Tx /\ chain[e[1]].block \in Nat /\ chain'[e[1]].block \in Nat
          /\ head \in Nat /\ ReaderWindow \in Nat
      BY BlockType DEF L1TypeOK, ChainTx
    <2>2. chain'[e[1]].status = "mined" /\ chain'[e[1]].block <= head - ReaderWindow
      BY <1>2, <2>1 DEF Registered, Mined
    <2>3. chain'[e[1]] = chain[e[1]]
      BY <2>1, <2>2 DEF FinalKept
    <2>4. Registered(e, c)
      BY <1>2, <2>3 DEF Registered, Mined, PackOf
    <2>5. Known(e)
      BY <1>2, <2>4 DEF CoveredTo
    <2>6. QED
      BY <2>2, <2>3, <2>5 DEF KnownKept, Known, Mined
  <1>3. QED
    BY <1>1, <1>2 DEF TodoOK, CoveredTo

LEMMA TailFrame ==
  ASSUME ReaderInv, L1TypeOK', FinalKept, KnownKept, tail' = tail
  PROVE  TailInv'
  <1>1. L1TypeOK /\ TailInv /\ tail \in TailTick
    BY DEF ReaderInv, ReaderTypeOK, ReaderProcTypeOK
  <1>2. /\ head \in Nat /\ head' \in Nat /\ head <= head' /\ ReaderWindow \in Nat
        /\ tail.to \in Int
    BY <1>1, ReaderAssumption DEF L1TypeOK, FinalKept, TailTick
  <1>3. /\ tail'.pc \in {"scan", "work"} => tail'.to <= head' - ReaderWindow
        /\ tail'.pc = "scan" => tail'.at = 0
    BY <1>1, <1>2 DEF TailInv
  <1>4. tail'.pc = "work" => /\ TodoOK(tail.todo, tail.at, tail.to)'
                             /\ CoveredTo(tail.to, tail.todo)'
    <2> SUFFICES ASSUME tail.pc = "work"
                 PROVE  /\ TodoOK(tail.todo, tail.at, tail.to)'
                        /\ CoveredTo(tail.to, tail.todo)'
      OBVIOUS
    <2>1. /\ tail.to <= head - ReaderWindow
          /\ TodoOK(tail.todo, tail.at, tail.to)
          /\ CoveredTo(tail.to, tail.todo)
          /\ tail.todo \subseteq Event
      BY <1>1 DEF TailInv, TailTick
    <2>2. CoveredTo(tail.to, tail.todo)'
      BY <1>1, <1>2, <2>1, WorkKept
         DEF CoveredTo, Registered, Known, Mined, PackOf
    <2>3. TodoOK(tail.todo, tail.at, tail.to)'
      BY <1>1, <1>2, <2>1, WorkKept
         DEF TodoOK, Registered, Mined, PackOf
    <2>4. QED
      BY <2>1, <2>2, <2>3
  <1>5. QED
    BY <1>3, <1>4 DEF TailInv

LEMMA FillFrame ==
  ASSUME ReaderInv, L1TypeOK', FinalKept, KnownKept, fill' = fill
  PROVE  FillInv'
  <1>1. L1TypeOK /\ FillInv /\ fill \in FillRun
    BY DEF ReaderInv, ReaderTypeOK, ReaderProcTypeOK
  <1>2. /\ head \in Nat /\ head' \in Nat /\ head <= head' /\ ReaderWindow \in Nat
        /\ fill.from \in Nat /\ fill.to \in Nat /\ fill.upto \in Nat
        /\ fill.todo \subseteq Event
    BY <1>1, ReaderAssumption DEF L1TypeOK, FinalKept, FillRun
  <1>3. fill.pc # "idle" => /\ fill.from <= fill.to
                            /\ fill.to <= head - ReaderWindow
                            /\ fill.to <= head' - ReaderWindow
    BY <1>1, <1>2, SafeHeadGrows DEF FillInv
  <1>4. ASSUME fill.pc = "scan"
        PROVE  CoveredTo(fill.from - 1, {})' /\ fill.at = 0
    <2>1. /\ fill.from - 1 \in Int /\ fill.from - 1 <= head - ReaderWindow
          /\ CoveredTo(fill.from - 1, {})
      BY <1>1, <1>2, <1>3, <1>4 DEF FillInv
    <2>2. TodoOK({}, fill.from - 1, fill.from - 1)
      BY <2>1 DEF TodoOK
    <2>3. CoveredTo(fill.from - 1, {})'
      BY <1>1, <2>1, <2>2, WorkKept DEF CoveredTo, Registered, Known, Mined, PackOf
    <2>4. QED
      BY <1>1, <1>4, <2>3 DEF FillInv
  <1>5. ASSUME fill.pc = "work"
        PROVE  /\ fill.upto <= fill.to
               /\ TodoOK(fill.todo, fill.at, fill.upto)'
               /\ CoveredTo(fill.upto, fill.todo)'
    <2>1. /\ fill.upto <= fill.to /\ fill.upto <= head - ReaderWindow
          /\ TodoOK(fill.todo, fill.at, fill.upto)
          /\ CoveredTo(fill.upto, fill.todo)
      BY <1>1, <1>2, <1>3, <1>5 DEF FillInv
    <2>2. CoveredTo(fill.upto, fill.todo)'
      BY <1>1, <1>2, <2>1, WorkKept DEF CoveredTo, Registered, Known, Mined, PackOf
    <2>3. TodoOK(fill.todo, fill.at, fill.upto)'
      BY <1>1, <1>2, <2>1, WorkKept DEF TodoOK, Registered, Mined, PackOf
    <2>4. QED
      BY <2>1, <2>2, <2>3
  <1>6. QED
    BY <1>3, <1>4, <1>5 DEF FillInv

\* A step that touches neither rows nor chain keeps both kinds of fact.
LEMMA QuietKept ==
  ASSUME L1TypeOK, UNCHANGED <<batches, l1Vars>>
  PROVE  FinalKept /\ KnownKept /\ L1TypeOK'
  BY DEF FinalKept, KnownKept, Known, L1TypeOK, l1Vars

\* Steps of the rest of the system.
LEMMA EnvironmentStep ==
  ASSUME SafeOperation, ReaderInv, ReaderEnvironment
  PROVE  ReaderInv'
  <1>1. StoreTypeOK /\ L1TypeOK /\ ReaderProcTypeOK
    BY DEF ReaderInv, ReaderTypeOK
  <1> DEFINE Kept == /\ StoreTypeOK' /\ L1TypeOK' /\ FinalKept /\ KnownKept
                     /\ UNCHANGED readerProcVars
  <1>2. Kept
    <2>1. ASSUME NEW t \in Tx, NEW pack \in AnnouncedPacks, Announce(t, pack)
          PROVE  Kept
      <3>1. L1TypeOK' /\ FinalKept
        BY <1>1, <2>1, AnnounceType, AnnounceFinal
      <3>2. UNCHANGED <<storeVars, readerProcVars>>
        BY <2>1 DEF Announce
      <3>3. \A e \in BatchId : Mined(e[1]) => chain'[e[1]].block = chain[e[1]].block
        BY <1>1, <2>1 DEF Announce, NextTx, EnterMempool, Mined, L1TypeOK, BatchId
      <3>4. KnownKept
        BY <3>2, <3>3 DEF KnownKept, Known, storeVars
      <3>5. QED
        BY <1>1, <3>1, <3>2, <3>4 DEF StoreTypeOK, storeVars
    <2>2. ASSUME NEW t \in PosterTx, PosterRecords(t)
          PROVE  Kept
      <3>1. StoreTypeOK' /\ KnownKept
        BY <1>1, <2>2, PosterRecordsType, PosterRecordsKnown
      <3>2. UNCHANGED <<l1Vars, readerProcVars>>
        BY <2>2 DEF PosterRecords
      <3>3. FinalKept /\ L1TypeOK'
        BY <1>1, <3>2 DEF FinalKept, L1TypeOK, l1Vars
      <3>4. QED
        BY <3>1, <3>2, <3>3
    <2>3. ASSUME L1Next, UNCHANGED <<storeVars, readerProcVars>>
          PROVE  Kept
      <3>1. L1TypeOK' /\ FinalKept
        BY <1>1, <2>3, L1TypeStep, L1Final
      <3>2. KnownKept
        BY <1>1, <2>3, <3>1 DEF KnownKept, Known, FinalKept, Mined, storeVars, BatchId
      <3>3. QED
        BY <1>1, <2>3, <3>1, <3>2 DEF StoreTypeOK, storeVars
    <2>4. QED
      BY <2>1, <2>2, <2>3 DEF ReaderEnvironment
  <1>3. ReaderTypeOK'
    BY <1>1, <1>2 DEF ReaderTypeOK, ReaderProcTypeOK, readerProcVars
  <1>4. CursorInv' /\ TailInv' /\ FillInv'
    BY <1>2, CursorFrame, TailFrame, FillFrame DEF readerProcVars
  <1>5. QED
    BY <1>3, <1>4 DEF ReaderInv

-----------------------------------------------------------------------------
(* The live tail *)

LEMMA NoTailType == NoTail \in TailTick /\ NoFill \in FillRun
  BY DEF NoTail, TailTick, NoFill, FillRun

\* What remains to be shown of a step that leaves the backfill alone and
\* processes at most one event.
LEMMA TailStepSuffices ==
  ASSUME ReaderInv, FinalKept, KnownKept, StoreTypeOK', L1TypeOK',
         UNCHANGED <<fill, commands>>, rfaults' \in Seq(ReaderFaultKinds),
         tail' \in TailTick, cursor' \in Nat \cup {NoCursor}, CursorInv', TailInv'
  PROVE  ReaderInv'
  <1>1. FillInv'
    BY FillFrame
  <1>2. ReaderProcTypeOK'
    BY DEF ReaderInv, ReaderTypeOK, ReaderProcTypeOK
  <1>3. QED
    BY <1>1, <1>2 DEF ReaderInv, ReaderTypeOK

\* Steps that write neither the store nor the cursor.
LEMMA TailQuiet ==
  ASSUME ReaderInv, UNCHANGED <<storeVars, l1Vars, cursor, fill, commands>>,
         rfaults' \in Seq(ReaderFaultKinds), tail' \in TailTick, TailInv'
  PROVE  ReaderInv'
  <1>1. StoreTypeOK' /\ L1TypeOK' /\ FinalKept /\ KnownKept
    BY QuietKept DEF ReaderInv, ReaderTypeOK, StoreTypeOK, storeVars
  <1>2. CursorInv'
    BY <1>1, CursorFrame
  <1>3. cursor' \in Nat \cup {NoCursor}
    BY DEF ReaderInv, ReaderTypeOK, ReaderProcTypeOK
  <1>4. QED
    BY <1>1, <1>2, <1>3, TailStepSuffices

LEMMA TailAtType ==
  ASSUME NEW pc \in {"idle", "scan", "work", "list", "look"}, NEW to \in Int
  PROVE  LET new == [NoTail EXCEPT !.pc = pc, !.to = to]
         IN  /\ new \in TailTick
             /\ new.pc = pc /\ new.to = to /\ new.at = 0
  BY DEF TailTick, NoTail

LEMMA TailPcType ==
  ASSUME NEW pc \in {"idle", "scan", "work", "list", "look"}
  PROVE  LET new == [NoTail EXCEPT !.pc = pc]
         IN  new \in TailTick /\ new.pc = pc
  <1>1. NoTail \in TailTick
    BY NoTailType
  <1>2. QED
    BY <1>1 DEF TailTick

LEMMA TailStartStep ==
  ASSUME ReaderInv, TailStart
  PROVE  ReaderInv'
  <1>1. head \in Nat /\ ReaderWindow \in Nat /\ rfaults \in Seq(ReaderFaultKinds)
    BY ReaderAssumption DEF ReaderInv, ReaderTypeOK, L1TypeOK, ReaderProcTypeOK
  <1> DEFINE to == head - ReaderWindow
  <1>2. tail' = [NoTail EXCEPT !.pc = "scan", !.to = to] /\ to \in Int
    BY <1>1 DEF TailStart
  <1>3. tail' \in TailTick /\ tail'.pc = "scan" /\ tail'.to = to /\ tail'.at = 0
    <2> HIDE DEF to
    <2>1. QED
      BY <1>2, TailAtType
  <1>4. UNCHANGED <<storeVars, l1Vars, cursor, fill, commands, rfaults>>
    BY DEF TailStart
  <1>5. TailInv'
    BY <1>1, <1>3, <1>4 DEF TailInv, l1Vars
  <1>6. QED
    BY <1>1, <1>3, <1>4, <1>5, TailQuiet

LEMMA LogsTodo ==
  ASSUME L1TypeOK, NEW from \in Nat, NEW to \in Int, from <= to
  PROVE  TodoOK(Logs(from, to), 0, to)
  <1>1. \A x \in BatchId : chain[x[1]].block \in Nat
    BY BlockType
  <1>2. ASSUME NEW ev \in Logs(from, to)
        PROVE  /\ Mined(ev.id[1])
               /\ ev.block = chain[ev.id[1]].block
               /\ 0 <= ev.block /\ ev.block <= to
    <2>1. PICK e \in BatchId : /\ Mined(e[1])
                               /\ chain[e[1]].block \in from .. to
                               /\ ev = [id |-> e, block |-> chain[e[1]].block]
      BY DEF Logs
    <2>2. ev.id = e /\ ev.block = chain[e[1]].block /\ chain[e[1]].block \in Nat
      BY <1>1, <2>1
    <2>3. QED
      BY <2>1, <2>2
  <1>3. QED
    BY <1>2 DEF TodoOK

\* A scan finds exactly the events of its range.
LEMMA LogsAreRegistered ==
  ASSUME L1TypeOK, NEW from \in Nat, NEW to \in Int, from <= to,
         CoveredTo(from - 1, {})
  PROVE  TodoOK(Logs(from, to), 0, to) /\ CoveredTo(to, Logs(from, to))
  <1>1. \A x \in BatchId : chain[x[1]].block \in Nat
    BY BlockType
  <1>3. ASSUME NEW e \in BatchId, Registered(e, to)
        PROVE  Known(e) \/ \E ev \in Logs(from, to) : ev.id = e
    <2>1. CASE chain[e[1]].block <= from - 1
      BY <1>3, <2>1 DEF CoveredTo, Registered
    <2>2. CASE ~(chain[e[1]].block <= from - 1)
      <3> DEFINE ev == [id |-> e, block |-> chain[e[1]].block]
      <3>1. chain[e[1]].block \in from .. to
        BY <1>1, <1>3, <2>2 DEF Registered
      <3>2. ev \in Logs(from, to)
        BY <1>3, <3>1 DEF Logs, Registered
      <3>3. ev.id = e
        OBVIOUS
      <3> HIDE DEF ev
      <3>4. QED
        BY <3>2, <3>3
    <2>3. QED
      BY <2>1, <2>2
  <1>4. QED
    BY <1>3, LogsTodo DEF CoveredTo

LEMMA TailScanStep ==
  ASSUME ReaderInv, TailScan
  PROVE  ReaderInv'
  <1>1. /\ L1TypeOK /\ tail \in TailTick /\ cursor \in Nat \cup {NoCursor}
        /\ rfaults \in Seq(ReaderFaultKinds) /\ TailInv /\ CursorInv
        /\ StartBlock \in Nat \ {0} /\ tail.to \in Int
    BY ReaderAssumption DEF ReaderInv, ReaderTypeOK, ReaderProcTypeOK, TailTick
  <1>2. UNCHANGED <<storeVars, l1Vars, cursor, fill, commands, rfaults>>
    BY DEF TailScan
  <1>3. CASE From > tail.to
    <2>1. tail' = NoTail
      BY <1>3 DEF TailScan
    <2>2. tail' \in TailTick /\ TailInv'
      BY <2>1, NoTailType DEF TailInv, NoTail
    <2>3. QED
      BY <1>1, <1>2, <2>2, TailQuiet
  <1>4. CASE ~(From > tail.to)
    <2> DEFINE logs == Logs(From, tail.to)
    <2>1. tail' = [tail EXCEPT !.pc = "work", !.todo = logs] /\ tail.pc = "scan"
      BY <1>4 DEF TailScan
    <2>2. logs \subseteq Event
      BY <1>1, LogsType
    <2>3. From \in Nat /\ From <= tail.to /\ CoveredTo(From - 1, {})
      <3>1. CASE cursor = NoCursor
        <4>1. From = StartBlock
          BY <3>1 DEF From
        <4>2. CoveredTo(StartBlock - 1, {})
          BY <1>1, BlockType DEF CoveredTo, Registered
        <4>3. QED
          BY <1>1, <1>4, <4>1, <4>2
      <3>2. CASE cursor # NoCursor
        <4>1. From = cursor + 1 /\ cursor \in Nat /\ CoveredTo(cursor, {})
          BY <1>1, <3>2 DEF From, CursorInv
        <4>2. From - 1 = cursor
          BY <4>1
        <4>3. QED
          BY <1>1, <1>4, <4>1, <4>2
      <3>3. QED
        BY <3>1, <3>2
    <2>4. TodoOK(logs, 0, tail.to) /\ CoveredTo(tail.to, logs)
      BY <1>1, <2>3, LogsAreRegistered
    <2> HIDE DEF logs
    <2>5. /\ tail'.pc = "work" /\ tail'.todo = logs
          /\ tail'.to = tail.to /\ tail'.at = 0 /\ tail.to <= head - ReaderWindow
      BY <1>1, <2>1 DEF TailTick, TailInv
    <2>6. tail' \in TailTick
      BY <1>1, <2>1, <2>2 DEF TailTick
    <2>7. TailInv'
      BY <1>2, <2>4, <2>5
         DEF TailInv, TodoOK, CoveredTo, Registered, Known, Mined, PackOf, l1Vars, storeVars
    <2>8. QED
      BY <1>1, <1>2, <2>6, <2>7, TailQuiet
  <1>5. QED
    BY <1>3, <1>4

\* What is left of a work list when its next event is processed, and when the
\* events of a block are.
LEMMA NextTodo ==
  ASSUME chain' = chain, NEW c, NEW todo, NEW at, NEW ev,
         TodoOK(todo, at, c), NextEvent(todo, at, ev)
  PROVE  TodoOK(todo \ {ev}, ev.block, c)'
  BY DEF NextEvent, TodoOK, Mined

LEMMA BlockTodo ==
  ASSUME NEW c \in Int, NEW todo, todo \subseteq Event, NEW at \in Nat, TodoOK(todo, at, c)
  PROVE  TodoOK(todo, 0, c)
  <1>1. \A ev \in todo : ev.block \in Nat
    BY DEF Event
  <1>2. QED
    BY <1>1 DEF TodoOK

\* One event of a work list is processed.
LEMMA EventProcessed ==
  ASSUME StoreTypeOK, L1TypeOK, UNCHANGED l1Vars,
         NEW c \in Int, NEW todo, todo \subseteq Event, NEW at \in Nat,
         c <= head - ReaderWindow, TodoOK(todo, at, c), CoveredTo(c, todo),
         NEW ev, NextEvent(todo, at, ev), Processed(ev)
  PROVE  /\ StoreTypeOK' /\ L1TypeOK' /\ FinalKept /\ KnownKept
         /\ TodoOK(todo \ {ev}, ev.block, c)'
         /\ CoveredTo(c, todo \ {ev})'
  <1>1. /\ ev \in todo /\ ev \in Event
        /\ ev.block = chain[ev.id[1]].block /\ ev.block <= c
        /\ chain' = chain /\ head' = head /\ forks' = forks
    BY DEF NextEvent, TodoOK, l1Vars
  <1>2. StoreTypeOK' /\ KnownKept /\ Known(ev.id)'
    BY <1>1, ProcessedType, ProcessedKnown DEF Known
  <1>3. L1TypeOK' /\ FinalKept
    BY <1>1 DEF L1TypeOK, FinalKept
  <1>5. TodoOK(todo \ {ev}, ev.block, c)'
    BY <1>1, NextTodo
  <1>6. ASSUME NEW e \in BatchId, Registered(e, c)',
               ~ \E other \in todo \ {ev} : other.id = e
        PROVE  Known(e)'
    <2>1. CASE e = ev.id
      BY <1>2, <2>1
    <2>2. CASE e # ev.id
      <3>1. Registered(e, c)
        BY <1>1, <1>6 DEF Registered, Mined, PackOf
      <3>2. Known(e)
        BY <1>6, <2>2, <3>1 DEF CoveredTo
      <3>3. Mined(e[1]) /\ chain[e[1]].block <= head - ReaderWindow
        BY <3>1, BlockType DEF Registered
      <3>4. QED
        BY <1>2, <3>2, <3>3 DEF KnownKept, Known
    <2>3. QED
      BY <2>1, <2>2
  <1>7. QED
    BY <1>2, <1>3, <1>5, <1>6 DEF CoveredTo

\* When the events of a block are processed, everything up to it is covered.
LEMMA BlockCovered ==
  ASSUME L1TypeOK, NEW c \in Int, NEW todo, todo \subseteq Event, NEW at \in Nat,
         TodoOK(todo, at, c), CoveredTo(c, todo), BlockDone(todo, at)
  PROVE  CoveredTo(at, {}) /\ TodoOK(todo, 0, c)
  <1>1. ASSUME NEW e \in BatchId, Registered(e, at)
        PROVE  Known(e)
    <2>1. chain[e[1]].block \in Nat /\ chain[e[1]].block <= at /\ at <= c
      BY <1>1, BlockType DEF Registered, TodoOK
    <2>2. Registered(e, c)
      BY <1>1, <2>1 DEF Registered
    <2>3. \A ev \in todo : ev.id # e
      BY <2>1 DEF TodoOK, BlockDone
    <2>4. QED
      BY <2>2, <2>3 DEF CoveredTo
  <1>2. TodoOK(todo, 0, c)
    BY BlockTodo
  <1>3. QED
    BY <1>1, <1>2 DEF CoveredTo

\* Rows and chain unchanged, the cursor may move to whatever is covered.
LEMMA CursorWritten ==
  ASSUME UNCHANGED <<storeVars, l1Vars>>, NEW c,
         c = NoCursor \/ c <= head - ReaderWindow, CoveredTo(c, {}), cursor' = c
  PROVE  CursorInv'
  BY DEF CursorInv, CoveredTo, Registered, Known, Mined, PackOf, storeVars, l1Vars

LEMMA TailBatchStep ==
  ASSUME ReaderInv, NEW ev, TailBatch(ev)
  PROVE  ReaderInv'
  <1>1. /\ StoreTypeOK /\ L1TypeOK /\ ReaderProcTypeOK /\ TailInv
        /\ tail \in TailTick /\ rfaults \in Seq(ReaderFaultKinds)
        /\ tail.pc = "work" /\ tail.to \in Int /\ tail.at \in Nat
        /\ tail.todo \subseteq Event
    BY DEF ReaderInv, ReaderTypeOK, ReaderProcTypeOK, TailTick, TailBatch
  <1>a. PICK c : c = tail.to
    OBVIOUS
  <1>b. PICK todo : todo = tail.todo
    OBVIOUS
  <1>c. PICK at : at = tail.at
    OBVIOUS
  <1>2. /\ c \in Int /\ at \in Nat /\ todo \subseteq Event
        /\ c <= head - ReaderWindow /\ TodoOK(todo, at, c) /\ CoveredTo(c, todo)
    BY <1>1, <1>a, <1>b, <1>c DEF TailInv
  <1>3. /\ UNCHANGED <<l1Vars, cursor, fill, commands>> /\ Processed(ev)
        /\ NextEvent(todo, at, ev)
        /\ rfaults' \in Seq(ReaderFaultKinds)
    BY <1>1, <1>b, <1>c, FaultType DEF TailBatch, Processed, ObserveVerified
  <1>4. ev \in Event /\ ev.block \in Nat
    BY <1>2, <1>3 DEF NextEvent, Event
  <1>5. /\ tail' \in TailTick
        /\ tail'.pc = "work" /\ tail'.to = c
        /\ tail'.todo = todo \ {ev} /\ tail'.at = ev.block
    BY <1>1, <1>a, <1>b, <1>4 DEF TailBatch, TailTick
  <1>6. /\ StoreTypeOK' /\ L1TypeOK' /\ FinalKept /\ KnownKept
        /\ TodoOK(todo \ {ev}, ev.block, c)'
        /\ CoveredTo(c, todo \ {ev})'
    BY <1>1, <1>2, <1>3, EventProcessed
  <1>7. TailInv'
    BY <1>2, <1>3, <1>5, <1>6 DEF TailInv, TodoOK, CoveredTo, l1Vars
  <1>8. CursorInv'
    BY <1>3, <1>6, CursorFrame
  <1>9. cursor' \in Nat \cup {NoCursor}
    BY <1>1, <1>3 DEF ReaderProcTypeOK
  <1>10. QED
    BY <1>3, <1>5, <1>6, <1>7, <1>8, <1>9, TailStepSuffices

LEMMA TailBlockStep ==
  ASSUME ReaderInv, TailBlock
  PROVE  ReaderInv'
  <1>1. /\ StoreTypeOK /\ L1TypeOK /\ TailInv
        /\ tail \in TailTick /\ rfaults \in Seq(ReaderFaultKinds)
        /\ tail.pc = "work" /\ tail.to \in Int /\ tail.at \in Nat
        /\ tail.todo \subseteq Event /\ BlockDone(tail.todo, tail.at)
    BY DEF ReaderInv, ReaderTypeOK, ReaderProcTypeOK, TailTick, TailBlock
  <1>2. UNCHANGED <<storeVars, l1Vars, fill, commands, rfaults>>
    BY DEF TailBlock
  <1>3. CASE tail.parked
    <2>1. tail' = [NoTail EXCEPT !.pc = "list"] /\ UNCHANGED cursor
      BY <1>3 DEF TailBlock
    <2>2. tail' \in TailTick /\ tail'.pc = "list"
      BY <2>1, TailPcType
    <2>3. TailInv'
      BY <2>2 DEF TailInv
    <2>4. QED
      BY <1>1, <1>2, <2>1, <2>2, <2>3, TailQuiet
  <1>4. CASE ~tail.parked
    <2>1. cursor' = tail.at /\ tail' = [tail EXCEPT !.at = 0, !.last = tail.at]
      BY <1>4 DEF TailBlock
    <2>2. /\ tail' \in TailTick /\ tail'.pc = "work"
          /\ tail'.to = tail.to /\ tail'.todo = tail.todo /\ tail'.at = 0
      BY <1>1, <2>1 DEF TailTick
    <2>3. /\ tail.to <= head - ReaderWindow /\ TodoOK(tail.todo, tail.at, tail.to)
          /\ CoveredTo(tail.to, tail.todo)
      BY <1>1 DEF TailInv
    <2>4. CoveredTo(tail.at, {}) /\ TodoOK(tail.todo, 0, tail.to)
      BY <1>1, <2>3, BlockCovered
    <2>5. TailInv'
      BY <1>2, <2>2, <2>3, <2>4
         DEF TailInv, TodoOK, CoveredTo, Registered, Known, Mined, PackOf, l1Vars, storeVars
    <2>6. tail.at <= head - ReaderWindow
      <3>1. head \in Nat /\ ReaderWindow \in Nat /\ tail.at <= tail.to
        BY <1>1, <2>3, ReaderAssumption DEF L1TypeOK, TodoOK
      <3>2. QED
        BY <1>1, <2>3, <3>1
    <2>7. CursorInv'
      BY <1>2, <2>1, <2>4, <2>6, CursorWritten
    <2>8. StoreTypeOK' /\ L1TypeOK' /\ FinalKept /\ KnownKept
      BY <1>1, <1>2, QuietKept DEF StoreTypeOK, storeVars
    <2>9. QED
      BY <1>1, <1>2, <2>1, <2>2, <2>5, <2>7, <2>8, TailStepSuffices
  <1>5. QED
    BY <1>3, <1>4

LEMMA TailCatchUpStep ==
  ASSUME ReaderInv, TailCatchUp
  PROVE  ReaderInv'
  <1>1. /\ StoreTypeOK /\ L1TypeOK /\ TailInv /\ CursorInv
        /\ rfaults \in Seq(ReaderFaultKinds) /\ cursor \in Nat \cup {NoCursor}
        /\ tail.pc = "work" /\ tail.to \in Int /\ tail.todo = {} /\ tail.at = 0
    BY DEF ReaderInv, ReaderTypeOK, ReaderProcTypeOK, TailTick, TailCatchUp
  <1>2. /\ UNCHANGED <<storeVars, l1Vars, fill, commands, rfaults>>
        /\ tail' = [NoTail EXCEPT !.pc = "list"]
        /\ cursor' = IF tail.last < tail.to THEN tail.to ELSE cursor
    BY DEF TailCatchUp
  <1>3. tail' \in TailTick /\ tail'.pc = "list"
    BY <1>2, TailPcType
  <1>4. TailInv'
    BY <1>3 DEF TailInv
  <1>5. tail.to <= head - ReaderWindow /\ CoveredTo(tail.to, {}) /\ tail.to \in Nat
    BY <1>1 DEF TailInv, TodoOK
  <1>6. CursorInv' /\ cursor' \in Nat \cup {NoCursor}
    BY <1>1, <1>2, <1>5, CursorWritten DEF CursorInv
  <1>7. StoreTypeOK' /\ L1TypeOK' /\ FinalKept /\ KnownKept
    BY <1>1, <1>2, QuietKept DEF StoreTypeOK, storeVars
  <1>8. QED
    BY <1>1, <1>2, <1>3, <1>4, <1>6, <1>7, TailStepSuffices

\* The watcher's steps and the end of a tick, however it ends, leave no work
\* list behind.
LEMMA NoWorkStep ==
  ASSUME ReaderInv, StoreTypeOK', KnownKept,
         UNCHANGED <<l1Vars, cursor, fill, commands>>,
         rfaults' \in Seq(ReaderFaultKinds),
         tail' \in TailTick, tail'.pc \notin {"scan", "work"}
  PROVE  ReaderInv'
  <1>1. L1TypeOK /\ cursor \in Nat \cup {NoCursor}
    BY DEF ReaderInv, ReaderTypeOK, ReaderProcTypeOK
  <1>2. L1TypeOK' /\ FinalKept
    BY <1>1 DEF L1TypeOK, FinalKept, l1Vars
  <1>3. CursorInv' /\ TailInv'
    BY <1>2, CursorFrame DEF TailInv
  <1>4. QED
    BY <1>1, <1>2, <1>3, TailStepSuffices

LEMMA WatcherStep ==
  ASSUME ReaderInv,
         \/ TailList \/ TailEnd \/ TailThrows
         \/ \E e \in BatchId : TailKeep(e) \/ TailLost(e) \/ TailMark(e)
  PROVE  ReaderInv'
  <1>1. /\ StoreTypeOK /\ ReaderProcTypeOK
        /\ tail \in TailTick /\ rfaults \in Seq(ReaderFaultKinds)
    BY DEF ReaderInv, ReaderTypeOK, ReaderProcTypeOK
  <1> DEFINE Ready == /\ StoreTypeOK' /\ KnownKept
                      /\ UNCHANGED <<l1Vars, cursor, fill, commands>>
                      /\ rfaults' \in Seq(ReaderFaultKinds)
                      /\ tail' \in TailTick /\ tail'.pc \notin {"scan", "work"}
  <1>2. ASSUME UNCHANGED <<storeVars, l1Vars>>
        PROVE  StoreTypeOK' /\ KnownKept
    BY <1>1, <1>2 DEF StoreTypeOK, KnownKept, Known, storeVars, l1Vars
  <1>3. ASSUME TailList
        PROVE  Ready
    <2> DEFINE cand == BatchesSince(batches, "confirmed", head - ReaderWindow)
    <2>1. cand \subseteq BatchId
      BY <1>1 DEF BatchesSince, StoreTypeOK
    <2>2. tail' = [NoTail EXCEPT !.pc = "look", !.cand = cand]
      BY <1>3 DEF TailList
    <2> HIDE DEF cand
    <2>3. tail' \in TailTick /\ tail'.pc = "look"
      BY <2>1, <2>2, NoTailType DEF TailTick
    <2>4. QED
      BY <1>1, <1>2, <1>3, <2>3 DEF TailList
  <1>4. ASSUME TailEnd \/ TailThrows
        PROVE  Ready
    <2>1. tail' = NoTail /\ UNCHANGED <<storeVars, l1Vars, cursor, fill, commands>>
      BY <1>4 DEF TailEnd, TailThrows
    <2>2. rfaults' \in Seq(ReaderFaultKinds)
      BY <1>1, <1>4, FaultType DEF TailEnd, TailThrows
    <2>3. NoTail.pc \notin {"scan", "work"}
      BY DEF NoTail
    <2>4. QED
      BY <1>2, <2>1, <2>2, <2>3, NoTailType
  <1>5. ASSUME NEW e \in BatchId, TailKeep(e)
        PROVE  Ready
    <2>1. tail' \in TailTick /\ tail'.pc = "look"
      BY <1>1, <1>5 DEF TailKeep, TailTick
    <2>2. QED
      BY <1>1, <1>2, <1>5, <2>1 DEF TailKeep
  <1>6. ASSUME NEW e \in BatchId, TailLost(e)
        PROVE  Ready
    <2>1. tail' \in TailTick /\ tail'.pc = "look"
      BY <1>1, <1>6 DEF TailLost, TailTick
    <2>2. rfaults' \in Seq(ReaderFaultKinds)
      BY <1>1, <1>6, FaultType DEF TailLost
    <2>3. QED
      BY <1>2, <1>6, <2>1, <2>2 DEF TailLost
  <1>7. ASSUME NEW e \in BatchId, TailMark(e)
        PROVE  Ready
    <2>1. tail' \in TailTick /\ tail'.pc = "look"
      BY <1>1, <1>7 DEF TailMark, TailTick
    <2>2. batches' \in BatchTable /\ messages' \in MessageTable
      BY <1>1, <1>7, ReorgBatchesType, ReorgMessagesType
         DEF TailMark, StoreTypeOK, BatchTable, MessageTable
    <2>3. StoreTypeOK' /\ KnownKept
      BY <1>1, <1>7, <2>2, MarkedKnown
         DEF TailMark, StoreTypeOK, BatchTable, MessageTable
    <2>4. QED
      BY <1>1, <1>7, <2>1, <2>3 DEF TailMark
  <1>8. Ready
    BY <1>3, <1>4, <1>5, <1>6, <1>7
  <1>9. QED
    BY <1>8, NoWorkStep

LEMMA LiveTailStep ==
  ASSUME ReaderInv, LiveTail \/ TailThrows
  PROVE  ReaderInv'
  BY TailStartStep, TailScanStep, TailBatchStep, TailBlockStep, TailCatchUpStep,
     WatcherStep
  DEF LiveTail

-----------------------------------------------------------------------------
(* The backfill *)

\* What remains to be shown of a step that leaves the live tail alone.
LEMMA FillStepSuffices ==
  ASSUME ReaderInv, FinalKept, KnownKept, StoreTypeOK', L1TypeOK',
         UNCHANGED tail, commands' \in Nat, rfaults' \in Seq(ReaderFaultKinds),
         fill' \in FillRun, cursor' \in Nat \cup {NoCursor}, CursorInv', FillInv'
  PROVE  ReaderInv'
  <1>1. TailInv'
    BY TailFrame
  <1>2. ReaderProcTypeOK'
    BY DEF ReaderInv, ReaderTypeOK, ReaderProcTypeOK
  <1>3. QED
    BY <1>1, <1>2 DEF ReaderInv, ReaderTypeOK

\* Steps that write neither the store nor the cursor.
LEMMA FillQuiet ==
  ASSUME ReaderInv, UNCHANGED <<storeVars, l1Vars, cursor, tail>>,
         commands' \in Nat, rfaults' \in Seq(ReaderFaultKinds),
         fill' \in FillRun, FillInv'
  PROVE  ReaderInv'
  <1>1. StoreTypeOK' /\ L1TypeOK' /\ FinalKept /\ KnownKept
    BY QuietKept DEF ReaderInv, ReaderTypeOK, StoreTypeOK, storeVars
  <1>2. CursorInv'
    BY <1>1, CursorFrame
  <1>3. cursor' \in Nat \cup {NoCursor}
    BY DEF ReaderInv, ReaderTypeOK, ReaderProcTypeOK
  <1>4. QED
    BY <1>1, <1>2, <1>3, FillStepSuffices

LEMMA FillFacts ==
  ASSUME ReaderInv
  PROVE  /\ StoreTypeOK /\ L1TypeOK /\ ReaderProcTypeOK /\ FillInv /\ CursorInv
         /\ fill \in FillRun /\ rfaults \in Seq(ReaderFaultKinds) /\ commands \in Nat
         /\ fill.from \in Nat /\ fill.to \in Nat /\ fill.upto \in Nat /\ fill.at \in Nat
         /\ fill.last \in Nat /\ fill.todo \subseteq Event
         /\ cursor \in Nat \cup {NoCursor} /\ StartBlock \in Nat \ {0}
         /\ head \in Nat /\ ReaderWindow \in Nat /\ ChunkSize \in Nat \ {0}
  BY ReaderAssumption DEF ReaderInv, ReaderTypeOK, ReaderProcTypeOK, FillRun, L1TypeOK

\* Everything before the block the live tail starts from is covered.
LEMMA BeforeFrom ==
  ASSUME ReaderInv
  PROVE  From \in Nat /\ CoveredTo(From - 1, {})
  <1>1. CASE cursor = NoCursor
    <2>1. From = StartBlock
      BY <1>1 DEF From
    <2>2. CoveredTo(StartBlock - 1, {})
      BY FillFacts, BlockType DEF CoveredTo, Registered
    <2>3. QED
      BY <2>1, <2>2, FillFacts
  <1>2. CASE cursor # NoCursor
    <2>1. From = cursor + 1 /\ cursor \in Nat /\ CoveredTo(cursor, {})
      BY <1>2, FillFacts DEF From, CursorInv
    <2>2. From - 1 = cursor
      BY <2>1
    <2>3. QED
      BY <2>1, <2>2
  <1>3. QED
    BY <1>1, <1>2

LEMMA CoveredBelow ==
  ASSUME L1TypeOK, NEW c \in Int, NEW d \in Int, d <= c, CoveredTo(c, {})
  PROVE  CoveredTo(d, {})
  BY BlockType DEF CoveredTo, Registered

LEMMA FillStartStep ==
  ASSUME SafeOperation, ReaderInv, NEW from \in StartBlock .. head,
         NEW to \in StartBlock .. head, FillStart(from, to)
  PROVE  ReaderInv'
  <1>1. from \in Nat /\ to \in Nat
    BY FillFacts
  <1>2. /\ from <= to /\ from <= From /\ to <= head - ReaderWindow
        /\ commands' = commands + 1
        /\ UNCHANGED <<storeVars, l1Vars, cursor, tail, rfaults>>
        /\ fill' = [NoFill EXCEPT !.pc = "scan", !.from = from, !.to = to]
    BY DEF FillStart, SafeOperation
  <1>3. /\ fill' \in FillRun /\ fill'.pc = "scan"
        /\ fill'.from = from /\ fill'.to = to /\ fill'.at = 0
    BY <1>1, <1>2 DEF NoFill, FillRun
  <1>4. CoveredTo(from - 1, {})
    <2>1. From \in Nat /\ CoveredTo(From - 1, {}) /\ L1TypeOK
      BY BeforeFrom, FillFacts
    <2>2. From - 1 \in Int /\ from - 1 \in Int /\ from - 1 <= From - 1
      BY <1>1, <1>2, <2>1
    <2>3. QED
      BY <2>1, <2>2, CoveredBelow
  <1>5. FillInv'
    BY <1>2, <1>3, <1>4
       DEF FillInv, CoveredTo, Registered, Known, Mined, PackOf, l1Vars, storeVars
  <1>6. QED
    BY <1>2, <1>3, <1>5, FillQuiet, FillFacts

LEMMA FillScanStep ==
  ASSUME ReaderInv, FillScan
  PROVE  ReaderInv'
  <1> DEFINE end == fill.from + ChunkSize - 1
             upto == IF end < fill.to THEN end ELSE fill.to
             logs == Logs(fill.from, upto)
  <1>1. /\ fill.from <= fill.to /\ fill.to <= head - ReaderWindow
        /\ fill.pc = "scan" /\ CoveredTo(fill.from - 1, {}) /\ fill.at = 0
    BY FillFacts DEF FillInv, FillScan
  <1>2. upto \in Nat /\ fill.from <= upto /\ upto <= fill.to
    <2>1. fill.from \in Nat /\ fill.to \in Nat /\ ChunkSize \in Nat \ {0}
      BY FillFacts
    <2>2. upto = IF fill.from + ChunkSize - 1 < fill.to THEN fill.from + ChunkSize - 1 ELSE fill.to
      OBVIOUS
    <2>3. fill.from <= fill.to
      BY <1>1
    <2> HIDE DEF upto, end
    <2>4. QED
      BY ONLY <2>1, <2>2, <2>3
  <1>3. /\ fill' = [fill EXCEPT !.pc = "work", !.upto = upto, !.last = 0, !.todo = logs]
        /\ UNCHANGED <<storeVars, l1Vars, cursor, tail, commands, rfaults>>
    BY DEF FillScan
  <1> HIDE DEF upto
  <1>4. TodoOK(logs, 0, upto) /\ CoveredTo(upto, logs) /\ logs \subseteq Event
    BY <1>1, <1>2, FillFacts, LogsAreRegistered, LogsType
  <1> HIDE DEF logs
  <1>5. /\ fill' \in FillRun /\ fill'.pc = "work" /\ fill'.upto = upto
        /\ fill'.from = fill.from /\ fill'.to = fill.to
        /\ fill'.todo = logs /\ fill'.at = 0
    BY <1>1, <1>2, <1>3, <1>4, FillFacts DEF FillRun
  <1>6. FillInv'
    BY <1>1, <1>2, <1>3, <1>4, <1>5
       DEF FillInv, TodoOK, CoveredTo, Registered, Known, Mined, PackOf, l1Vars, storeVars
  <1>7. QED
    BY <1>3, <1>5, <1>6, FillQuiet, FillFacts

LEMMA FillBatchStep ==
  ASSUME ReaderInv, NEW ev, FillBatch(ev)
  PROVE  ReaderInv'
  <1>a. PICK c : c = fill.upto
    OBVIOUS
  <1>b. PICK todo : todo = fill.todo
    OBVIOUS
  <1>c. PICK at : at = fill.at
    OBVIOUS
  <1>1. /\ fill.pc = "work" /\ fill.from <= fill.to
        /\ fill.to <= head - ReaderWindow /\ c <= fill.to
        /\ TodoOK(todo, at, c) /\ CoveredTo(c, todo)
        /\ c \in Nat /\ at \in Nat /\ todo \subseteq Event
    BY <1>a, <1>b, <1>c, FillFacts DEF FillInv, FillBatch
  <1>2. c \in Int /\ c <= head - ReaderWindow
    BY <1>1, FillFacts
  <1>3. /\ UNCHANGED <<l1Vars, cursor, tail, commands>> /\ Processed(ev)
        /\ NextEvent(todo, at, ev)
        /\ rfaults' \in Seq(ReaderFaultKinds)
    BY <1>b, <1>c, FillFacts, FaultType DEF FillBatch, Processed, ObserveVerified
  <1>4. ev \in Event /\ ev.block \in Nat
    BY <1>1, <1>3 DEF NextEvent, Event
  <1>5. /\ fill' \in FillRun /\ fill'.pc = "work"
        /\ fill'.from = fill.from /\ fill'.to = fill.to /\ fill'.upto = c
        /\ fill'.todo = todo \ {ev} /\ fill'.at = ev.block
    BY <1>a, <1>b, <1>1, <1>4, FillFacts DEF FillBatch, FillRun
  <1>6. /\ StoreTypeOK' /\ L1TypeOK' /\ FinalKept /\ KnownKept
        /\ TodoOK(todo \ {ev}, ev.block, c)'
        /\ CoveredTo(c, todo \ {ev})'
    BY <1>1, <1>2, <1>3, FillFacts, EventProcessed
  <1>7. FillInv'
    BY <1>1, <1>3, <1>5, <1>6 DEF FillInv, TodoOK, CoveredTo, l1Vars
  <1>8. CursorInv'
    BY <1>3, <1>6, CursorFrame
  <1>9. cursor' \in Nat \cup {NoCursor} /\ commands' \in Nat
    BY <1>3, FillFacts
  <1>10. QED
    BY <1>3, <1>5, <1>6, <1>7, <1>8, <1>9, FillStepSuffices

LEMMA FillBlockStep ==
  ASSUME ReaderInv, FillBlock
  PROVE  ReaderInv'
  <1>1. /\ fill.pc = "work" /\ fill.from <= fill.to
        /\ fill.to <= head - ReaderWindow /\ fill.upto <= fill.to
        /\ TodoOK(fill.todo, fill.at, fill.upto) /\ CoveredTo(fill.upto, fill.todo)
        /\ BlockDone(fill.todo, fill.at)
    BY FillFacts DEF FillInv, FillBlock
  <1>2. /\ cursor' = fill.at /\ fill' = [fill EXCEPT !.at = 0, !.last = fill.at]
        /\ UNCHANGED <<storeVars, l1Vars, tail, commands, rfaults>>
    BY DEF FillBlock
  <1>3. CoveredTo(fill.at, {}) /\ TodoOK(fill.todo, 0, fill.upto)
    BY <1>1, FillFacts, BlockCovered
  <1>4. /\ fill' \in FillRun /\ fill'.pc = "work" /\ fill'.from = fill.from
        /\ fill'.to = fill.to /\ fill'.upto = fill.upto
        /\ fill'.todo = fill.todo /\ fill'.at = 0
    BY <1>1, <1>2, FillFacts DEF FillRun
  <1>5. FillInv'
    BY <1>1, <1>2, <1>3, <1>4
       DEF FillInv, TodoOK, CoveredTo, Registered, Known, Mined, PackOf, l1Vars, storeVars
  <1>6. fill.at <= head - ReaderWindow
    <2>1. fill.at <= fill.upto
      BY <1>1 DEF TodoOK
    <2>2. QED
      BY <1>1, <2>1, FillFacts
  <1>7. CursorInv'
    BY <1>2, <1>3, <1>6, CursorWritten
  <1>8. StoreTypeOK' /\ L1TypeOK' /\ FinalKept /\ KnownKept
    BY <1>2, FillFacts, QuietKept DEF StoreTypeOK, storeVars
  <1>9. QED
    BY <1>2, <1>4, <1>5, <1>7, <1>8, FillStepSuffices, FillFacts

LEMMA FillChunkStep ==
  ASSUME ReaderInv, FillChunk
  PROVE  ReaderInv'
  <1>1. /\ fill.pc = "work" /\ fill.todo = {} /\ fill.at = 0 /\ fill.from <= fill.to
        /\ fill.to <= head - ReaderWindow /\ fill.upto <= fill.to
        /\ CoveredTo(fill.upto, {})
    BY FillFacts DEF FillInv, FillChunk
  <1>2. /\ cursor' = IF fill.last < fill.upto THEN fill.upto ELSE cursor
        /\ fill' = IF fill.upto = fill.to THEN NoFill
                   ELSE [fill EXCEPT !.pc = "scan", !.from = fill.upto + 1]
        /\ UNCHANGED <<storeVars, l1Vars, tail, commands, rfaults>>
    BY DEF FillChunk
  <1>3. fill.upto <= head - ReaderWindow
    BY <1>1, FillFacts
  <1>4. CursorInv' /\ cursor' \in Nat \cup {NoCursor}
    BY <1>1, <1>2, <1>3, CursorWritten, FillFacts DEF CursorInv
  <1>5. fill' \in FillRun /\ FillInv'
    <2>1. CASE fill.upto = fill.to
      BY <1>2, <2>1, NoTailType DEF NoFill, FillInv
    <2>2. CASE fill.upto # fill.to
      <3>1. fill' = [fill EXCEPT !.pc = "scan", !.from = fill.upto + 1]
        BY <1>2, <2>2
      <3>2. /\ fill' \in FillRun /\ fill'.pc = "scan" /\ fill'.from = fill.upto + 1
            /\ fill'.to = fill.to /\ fill'.at = 0
        <4>1. fill \in FillRun /\ fill.upto + 1 \in Nat /\ fill.at = 0
          BY <1>1, FillFacts
        <4>2. QED
          BY <3>1, <4>1 DEF FillRun
      <3>3. fill'.from <= fill'.to /\ fill'.from - 1 = fill.upto
        <4>1. fill.upto \in Nat /\ fill.to \in Nat
          BY FillFacts
        <4>2. fill.upto + 1 <= fill.to /\ (fill.upto + 1) - 1 = fill.upto
          BY <1>1, <2>2, <4>1
        <4>3. QED
          BY <3>2, <4>2
      <3>4. CoveredTo(fill.from - 1, {})'
        BY <1>1, <1>2, <3>3
           DEF CoveredTo, Registered, Known, Mined, PackOf, l1Vars, storeVars
      <3>5. QED
        BY <1>1, <1>2, <3>2, <3>3, <3>4 DEF FillInv, l1Vars
    <2>3. QED
      BY <2>1, <2>2
  <1>6. StoreTypeOK' /\ L1TypeOK' /\ FinalKept /\ KnownKept
    BY <1>2, FillFacts, QuietKept DEF StoreTypeOK, storeVars
  <1>7. QED
    BY <1>2, <1>4, <1>5, <1>6, FillStepSuffices, FillFacts

LEMMA FillThrowsStep ==
  ASSUME ReaderInv, FillThrows
  PROVE  ReaderInv'
  <1>1. /\ fill' = NoFill /\ UNCHANGED <<storeVars, l1Vars, cursor, tail, commands>>
        /\ rfaults' \in Seq(ReaderFaultKinds)
    BY FillFacts, FaultType DEF FillThrows
  <1>2. fill' \in FillRun /\ FillInv'
    BY <1>1, NoTailType DEF NoFill, FillInv
  <1>3. QED
    BY <1>1, <1>2, FillQuiet, FillFacts

LEMMA BackfillStep ==
  ASSUME SafeOperation, ReaderInv, Backfill \/ FillThrows
  PROVE  ReaderInv'
  BY FillStartStep, FillScanStep, FillBatchStep, FillBlockStep, FillChunkStep,
     FillThrowsStep
  DEF Backfill

-----------------------------------------------------------------------------
(* The operator, crashes, and the whole system *)

\* Dropping the cursor or the rows: nothing is below the cursor any more.
LEMMA NothingCovered ==
  ASSUME L1TypeOK
  PROVE  CoveredTo(NoCursor, {})
  BY BlockType DEF CoveredTo, Registered, NoCursor

LEMMA ResetCursorStep ==
  ASSUME ReaderInv, ResetCursor
  PROVE  ReaderInv'
  <1>1. /\ cursor' = NoCursor /\ commands' = commands + 1
        /\ UNCHANGED <<storeVars, l1Vars, tail, fill, rfaults>>
    BY DEF ResetCursor
  <1>2. StoreTypeOK' /\ L1TypeOK' /\ FinalKept /\ KnownKept
    BY <1>1, FillFacts, QuietKept DEF StoreTypeOK, storeVars
  <1>3. CursorInv'
    BY <1>1, NothingCovered, CursorWritten, FillFacts
  <1>4. FillInv'
    BY <1>1, <1>2, FillFrame
  <1>5. QED
    BY <1>1, <1>2, <1>3, <1>4, FillStepSuffices, FillFacts

LEMMA ResetAllStep ==
  ASSUME SafeOperation, ReaderInv, ResetAll
  PROVE  ReaderInv'
  <1>1. /\ cursor' = NoCursor /\ commands' = commands + 1
        /\ UNCHANGED <<nonces, tagSeq, l1Vars, tail, fill, rfaults>>
        /\ messages' = [k \in Key |-> NoMessage]
        /\ batches' = [e \in BatchId |-> NoBatch]
        /\ tail.pc = "idle" /\ fill.pc = "idle"
    BY DEF ResetAll, SafeOperation, Idle
  <1>2. StoreTypeOK' /\ L1TypeOK' /\ ReaderProcTypeOK'
    BY <1>1, FillFacts
       DEF StoreTypeOK, L1TypeOK, l1Vars, ReaderProcTypeOK
  <1>3. TailInv' /\ FillInv'
    BY <1>1 DEF TailInv, FillInv
  <1>4. CoveredTo(NoCursor, {})'
    BY <1>1, <1>2, NothingCovered, FillFacts, BlockType
       DEF CoveredTo, Registered, NoCursor, l1Vars
  <1>5. CursorInv'
    BY <1>1, <1>4 DEF CursorInv, CoveredTo
  <1>6. QED
    BY <1>2, <1>3, <1>5 DEF ReaderInv, ReaderTypeOK

LEMMA ReaderCrashStep ==
  ASSUME ReaderInv, ReaderCrash
  PROVE  ReaderInv'
  <1>1. /\ tail' = NoTail /\ fill' = NoFill
        /\ UNCHANGED <<storeVars, l1Vars, cursor, commands>>
        /\ rfaults' \in Seq(ReaderFaultKinds)
    BY FillFacts, FaultType DEF ReaderCrash
  <1>2. StoreTypeOK' /\ L1TypeOK' /\ FinalKept /\ KnownKept
    BY <1>1, FillFacts, QuietKept DEF StoreTypeOK, storeVars
  <1>3. TailInv' /\ FillInv' /\ tail' \in TailTick /\ fill' \in FillRun
    BY <1>1, NoTailType DEF TailInv, FillInv, NoTail, NoFill
  <1>4. CursorInv'
    BY <1>1, <1>2, CursorFrame
  <1>5. ReaderProcTypeOK'
    BY <1>1, <1>3, FillFacts DEF ReaderProcTypeOK
  <1>6. QED
    BY <1>2, <1>3, <1>4, <1>5 DEF ReaderInv, ReaderTypeOK

LEMMA ReaderInvStep ==
  ASSUME SafeOperation, ReaderInv, [ReaderNext \/ ReaderEnvironment]_readerVars
  PROVE  ReaderInv'
  <1>1. CASE ReaderNext
    BY <1>1, LiveTailStep, BackfillStep, ResetCursorStep, ResetAllStep, ReaderCrashStep
    DEF ReaderNext
  <1>2. CASE ReaderEnvironment
    BY <1>2, EnvironmentStep
  <1>3. CASE UNCHANGED readerVars
    <2>1. UNCHANGED <<storeVars, l1Vars, readerProcVars>>
      BY <1>3 DEF readerVars
    <2>2. StoreTypeOK' /\ L1TypeOK' /\ FinalKept /\ KnownKept
      BY <2>1, FillFacts, QuietKept DEF StoreTypeOK, storeVars
    <2>3. CursorInv' /\ TailInv' /\ FillInv'
      BY <2>1, <2>2, CursorFrame, TailFrame, FillFrame DEF readerProcVars
    <2>4. ReaderProcTypeOK'
      BY <2>1, FillFacts DEF ReaderProcTypeOK, readerProcVars
    <2>5. QED
      BY <2>2, <2>3, <2>4 DEF ReaderInv, ReaderTypeOK
  <1>4. QED
    BY <1>1, <1>2, <1>3

LEMMA ReaderInvInit ==
  ASSUME ReaderInit
  PROVE  ReaderInv
  <1>1. StoreTypeOK /\ L1TypeOK
    BY BamStoreAssumption
       DEF ReaderInit, StoreInit, StoreTypeOK, NonceRow, NoNonce, L1Init, L1TypeOK,
           NoChainTx, ChainTx
  <1>2. /\ cursor = NoCursor /\ tail = NoTail /\ fill = NoFill
        /\ commands = 0 /\ rfaults = <<>>
    BY DEF ReaderInit, ReaderProcInit
  <1>3. ReaderProcTypeOK
    BY <1>2, NoTailType DEF ReaderProcTypeOK
  <1>4. TailInv /\ FillInv
    BY <1>2 DEF TailInv, FillInv, NoTail, NoFill
  <1>5. CursorInv
    BY <1>1, <1>2, NothingCovered DEF CursorInv
  <1>6. QED
    BY <1>1, <1>3, <1>4, <1>5 DEF ReaderInv, ReaderTypeOK

LEMMA ReaderInvComplete ==
  ASSUME ReaderInv
  PROVE  ReaderTypeOK /\ CursorComplete
  <1>1. CoveredTo(cursor, {})
    BY DEF ReaderInv, CursorInv
  <1>2. ASSUME NEW ev \in Logs(StartBlock, cursor)
        PROVE  Known(ev.id) /\ ev.block = chain[ev.id[1]].block
    <2>1. PICK e \in BatchId : /\ Mined(e[1]) /\ chain[e[1]].ok /\ PackOf(e) # {}
                               /\ chain[e[1]].block \in StartBlock .. cursor
                               /\ ev = [id |-> e, block |-> chain[e[1]].block]
      BY DEF Logs
    <2>2. Registered(e, cursor)
      BY <2>1, FillFacts, BlockType DEF Registered, NoCursor
    <2>3. QED
      BY <1>1, <2>1, <2>2 DEF CoveredTo
  <1>3. QED
    BY <1>2 DEF ReaderInv, CursorComplete, Known

\* No crash, restart, fork within the window, reset or backfill next to the
\* live tail leaves an event below the cursor that is not in the store.
THEOREM CursorIsComplete == ASSUME SafeOperation
                            PROVE  ReaderSpec => []CursorComplete
  <1>1. ReaderInit => ReaderInv
    BY ReaderInvInit
  <1>2. ReaderInv /\ [ReaderNext \/ ReaderEnvironment]_readerVars => ReaderInv'
    BY ReaderInvStep
  <1>3. ReaderInv => CursorComplete
    BY ReaderInvComplete
  <1>4. QED
    BY <1>1, <1>2, <1>3, PTL DEF ReaderSpec
-----------------------------------------------------------------------------
(***************************************************************************)
(* What the Reader rebuilds: the snapshots of the batches and the rows of  *)
(* their messages.  The first theorems hold whatever range the operator    *)
(* asks for and however deep the forks are.                                *)
(***************************************************************************)

-----------------------------------------------------------------------------
(* Types, for any operator and any fork *)

LEMMA TypeFacts ==
  ASSUME ReaderTypeOK
  PROVE  /\ StoreTypeOK /\ L1TypeOK /\ ReaderProcTypeOK
         /\ tail \in TailTick /\ fill \in FillRun /\ commands \in Nat
         /\ rfaults \in Seq(ReaderFaultKinds) /\ cursor \in Nat \cup {NoCursor}
         /\ tail.to \in Int /\ tail.at \in Nat /\ tail.last \in Nat
         /\ tail.todo \subseteq Event
         /\ fill.from \in Nat /\ fill.to \in Nat /\ fill.upto \in Nat
         /\ fill.at \in Nat /\ fill.todo \subseteq Event
         /\ head \in Nat /\ ReaderWindow \in Nat /\ ChunkSize \in Nat \ {0}
  BY ReaderAssumption
  DEF ReaderTypeOK, ReaderProcTypeOK, TailTick, FillRun, L1TypeOK

\* The fields of a tick and of a backfill after each kind of assignment.
LEMMA TailFields ==
  ASSUME NEW t \in TailTick
  PROVE  /\ \A todo \in SUBSET Event : [t EXCEPT !.pc = "work", !.todo = todo] \in TailTick
         /\ \A todo \in SUBSET Event, at \in Nat :
               /\ [t EXCEPT !.todo = todo, !.at = at] \in TailTick
               /\ [t EXCEPT !.todo = todo, !.at = at, !.parked = TRUE] \in TailTick
         /\ \A last \in Nat : [t EXCEPT !.at = 0, !.last = last] \in TailTick
         /\ \A cand \in SUBSET BatchId, lost \in SUBSET BatchId :
               /\ [t EXCEPT !.cand = cand, !.lost = lost] \in TailTick
               /\ [t EXCEPT !.cand = cand] \in TailTick
               /\ [t EXCEPT !.lost = lost] \in TailTick
               /\ [t EXCEPT !.pc = "look", !.cand = cand] \in TailTick
         /\ [t EXCEPT !.pc = "list"] \in TailTick
         /\ \A to \in Int : [t EXCEPT !.pc = "scan", !.to = to] \in TailTick
  BY DEF TailTick

LEMMA FillFields ==
  ASSUME NEW f \in FillRun
  PROVE  /\ \A from, to \in Nat : [f EXCEPT !.pc = "scan", !.from = from, !.to = to] \in FillRun
         /\ \A from \in Nat : [f EXCEPT !.pc = "scan", !.from = from] \in FillRun
         /\ \A upto \in Nat, todo \in SUBSET Event :
               [f EXCEPT !.pc = "work", !.upto = upto, !.last = 0, !.todo = todo] \in FillRun
         /\ \A todo \in SUBSET Event, at \in Nat : [f EXCEPT !.todo = todo, !.at = at] \in FillRun
         /\ \A last \in Nat : [f EXCEPT !.at = 0, !.last = last] \in FillRun
  BY DEF FillRun

LEMMA LiveTailType ==
  ASSUME ReaderTypeOK, LiveTail \/ TailThrows
  PROVE  ReaderTypeOK'
  <1> DEFINE Kept == UNCHANGED <<storeVars, l1Vars, fill, commands>>
             Typed == /\ tail' \in TailTick /\ cursor' \in Nat \cup {NoCursor}
                      /\ rfaults' \in Seq(ReaderFaultKinds)
  <1>1. ASSUME Kept, Typed
        PROVE  ReaderTypeOK'
    BY <1>1, TypeFacts
       DEF ReaderTypeOK, ReaderProcTypeOK, StoreTypeOK, L1TypeOK, storeVars, l1Vars
  <1>2. CASE TailStart
    <2>1. head - ReaderWindow \in Int
      BY TypeFacts
    <2>2. tail' \in TailTick
      BY <1>2, <2>1, TailFields, NoTailType DEF TailStart
    <2>3. QED
      BY <1>1, <1>2, <2>2, TypeFacts DEF TailStart
  <1>3. CASE TailScan
    <2>1. Logs(From, tail.to) \in SUBSET Event
      BY TypeFacts, LogsType
    <2>2. QED
      BY <1>1, <1>3, <2>1, TypeFacts, TailFields, NoTailType DEF TailScan
  <1>4. CASE TailBlock
    <2>1. tail' \in TailTick
      BY <1>4, TypeFacts, TailFields, NoTailType DEF TailBlock
    <2>2. QED
      BY <1>1, <1>4, <2>1, TypeFacts DEF TailBlock
  <1>5. CASE TailCatchUp
    <2>1. tail' \in TailTick
      BY <1>5, TailFields, NoTailType DEF TailCatchUp
    <2>2. cursor' \in Nat \cup {NoCursor}
      BY <1>5, TypeFacts DEF TailCatchUp
    <2>3. QED
      BY <1>1, <1>5, <2>1, <2>2, TypeFacts DEF TailCatchUp
  <1>6. ASSUME NEW ev \in tail.todo, TailBatch(ev)
        PROVE  ReaderTypeOK'
    <2>1. /\ UNCHANGED <<l1Vars, cursor, fill, commands>> /\ Processed(ev)
          /\ rfaults' \in Seq(ReaderFaultKinds)
      BY <1>6, TypeFacts, FaultType DEF TailBatch, Processed, ObserveVerified
    <2>2. ev \in Event /\ ev.block \in Nat
      BY TypeFacts DEF Event
    <2>3. StoreTypeOK'
      BY <2>1, <2>2, TypeFacts, ProcessedType
    <2>4. tail' \in TailTick
      <3>1. tail.todo \ {ev} \in SUBSET Event
        BY TypeFacts
      <3>2. \/ tail' = [tail EXCEPT !.todo = tail.todo \ {ev}, !.at = ev.block]
            \/ tail' = [tail EXCEPT !.todo = tail.todo \ {ev}, !.at = ev.block,
                                    !.parked = TRUE]
        BY <1>6 DEF TailBatch
      <3>3. QED
        BY <2>2, <3>1, <3>2, TypeFacts DEF TailTick
    <2>5. QED
      BY <2>1, <2>3, <2>4, TypeFacts DEF ReaderTypeOK, ReaderProcTypeOK, L1TypeOK, l1Vars
  <1>7. CASE TailList
    <2>1. BatchesSince(batches, "confirmed", head - ReaderWindow) \in SUBSET BatchId
      BY TypeFacts DEF BatchesSince, StoreTypeOK
    <2>2. QED
      BY <1>1, <1>7, <2>1, TypeFacts, TailFields, NoTailType DEF TailList
  <1>8. CASE TailEnd \/ TailThrows
    BY <1>1, <1>8, TypeFacts, FaultType, NoTailType DEF TailEnd, TailThrows
  <1>9. ASSUME NEW e \in BatchId, TailKeep(e) \/ TailLost(e)
        PROVE  ReaderTypeOK'
    <2>1. tail.cand \ {e} \in SUBSET BatchId /\ {e} \in SUBSET BatchId
      BY TypeFacts DEF TailTick
    <2>2. QED
      <3>1. \/ tail' = [tail EXCEPT !.cand = tail.cand \ {e}]
            \/ tail' = [tail EXCEPT !.cand = tail.cand \ {e}, !.lost = {e}]
        BY <1>9 DEF TailKeep, TailLost
      <3>2. tail' \in TailTick
        BY <2>1, <3>1, TypeFacts DEF TailTick
      <3>3. rfaults' \in Seq(ReaderFaultKinds)
        BY <1>9, TypeFacts, FaultType DEF TailKeep, TailLost
      <3>4. QED
        BY <1>1, <1>9, <3>2, <3>3, TypeFacts DEF TailKeep, TailLost
  <1>10. ASSUME NEW e \in BatchId, TailMark(e)
         PROVE  ReaderTypeOK'
    <2>1. tail' \in TailTick
      BY <1>10, TypeFacts, TailFields DEF TailMark
    <2>2. batches' \in BatchTable /\ messages' \in MessageTable
      BY <1>10, TypeFacts, ReorgBatchesType, ReorgMessagesType
         DEF TailMark, StoreTypeOK, BatchTable, MessageTable
    <2>3. StoreTypeOK'
      BY <1>10, <2>2, TypeFacts DEF TailMark, StoreTypeOK, BatchTable, MessageTable
    <2>4. QED
      BY <1>10, <2>1, <2>3, TypeFacts
         DEF TailMark, ReaderTypeOK, ReaderProcTypeOK, L1TypeOK, l1Vars
  <1>11. QED
    BY <1>2, <1>3, <1>4, <1>5, <1>6, <1>7, <1>8, <1>9, <1>10 DEF LiveTail

LEMMA BackfillType ==
  ASSUME ReaderTypeOK, Backfill \/ FillThrows
  PROVE  ReaderTypeOK'
  <1> DEFINE Kept == UNCHANGED <<storeVars, l1Vars, tail>>
             Typed == /\ fill' \in FillRun /\ cursor' \in Nat \cup {NoCursor}
                      /\ commands' \in Nat /\ rfaults' \in Seq(ReaderFaultKinds)
  <1>1. ASSUME Kept, Typed
        PROVE  ReaderTypeOK'
    BY <1>1, TypeFacts
       DEF ReaderTypeOK, ReaderProcTypeOK, StoreTypeOK, L1TypeOK, storeVars, l1Vars
  <1>2. ASSUME NEW from \in StartBlock .. head, NEW to \in StartBlock .. head,
               FillStart(from, to)
        PROVE  ReaderTypeOK'
    <2>1. from \in Nat /\ to \in Nat
      BY TypeFacts, ReaderAssumption
    <2>2. QED
      <3>1. fill' \in FillRun
        BY <1>2, <2>1, FillFields, NoTailType DEF FillStart
      <3>2. QED
        BY <1>1, <1>2, <3>1, TypeFacts DEF FillStart
  <1>3. CASE FillScan
    <2> DEFINE end == fill.from + ChunkSize - 1
               upto == IF end < fill.to THEN end ELSE fill.to
               logs == Logs(fill.from, upto)
    <2>1. upto \in Nat
      BY TypeFacts
    <2>2. logs \in SUBSET Event
      BY TypeFacts, LogsType
    <2>3. fill' = [fill EXCEPT !.pc = "work", !.upto = upto, !.last = 0, !.todo = logs]
      BY <1>3 DEF FillScan
    <2> HIDE DEF upto, logs
    <2>4. fill' \in FillRun
      BY <2>1, <2>2, <2>3, TypeFacts, FillFields
    <2>5. QED
      BY <1>1, <1>3, <2>4, TypeFacts DEF FillScan
  <1>4. CASE FillBlock
    BY <1>1, <1>4, TypeFacts, FillFields DEF FillBlock
  <1>5. CASE FillChunk
    <2>1. fill.upto + 1 \in Nat
      BY TypeFacts
    <2>2. fill' \in FillRun
      BY <1>5, <2>1, TypeFacts, FillFields, NoTailType DEF FillChunk
    <2>3. QED
      BY <1>1, <1>5, <2>2, TypeFacts DEF FillChunk
  <1>6. ASSUME NEW ev \in fill.todo, FillBatch(ev)
        PROVE  ReaderTypeOK'
    <2>1. /\ UNCHANGED <<l1Vars, cursor, tail, commands>> /\ Processed(ev)
          /\ rfaults' \in Seq(ReaderFaultKinds)
      BY <1>6, TypeFacts, FaultType DEF FillBatch, Processed, ObserveVerified
    <2>2. ev \in Event /\ ev.block \in Nat
      BY TypeFacts DEF Event
    <2>3. StoreTypeOK'
      BY <2>1, <2>2, TypeFacts, ProcessedType
    <2>4. fill' \in FillRun
      <3>1. fill.todo \ {ev} \in SUBSET Event
        BY TypeFacts
      <3>2. QED
        BY <1>6, <2>2, <3>1, TypeFacts, FillFields DEF FillBatch
    <2>5. QED
      BY <2>1, <2>3, <2>4, TypeFacts DEF ReaderTypeOK, ReaderProcTypeOK, L1TypeOK, l1Vars
  <1>7. CASE FillThrows
    BY <1>1, <1>7, TypeFacts, FaultType, NoTailType DEF FillThrows
  <1>8. QED
    BY <1>2, <1>3, <1>4, <1>5, <1>6, <1>7 DEF Backfill

LEMMA ReaderTypeStep ==
  ASSUME ReaderTypeOK, [ReaderNext \/ ReaderEnvironment]_readerVars
  PROVE  ReaderTypeOK'
  <1>1. CASE LiveTail \/ TailThrows
    BY <1>1, LiveTailType
  <1>2. CASE Backfill \/ FillThrows
    BY <1>2, BackfillType
  <1>3. CASE ResetCursor
    BY <1>3, TypeFacts
       DEF ResetCursor, ReaderTypeOK, ReaderProcTypeOK, StoreTypeOK, L1TypeOK,
           storeVars, l1Vars
  <1>4. CASE ResetAll
    BY <1>4, TypeFacts
       DEF ResetAll, ReaderTypeOK, ReaderProcTypeOK, StoreTypeOK, L1TypeOK, l1Vars
  <1>5. CASE ReaderCrash
    BY <1>5, TypeFacts, FaultType, NoTailType
       DEF ReaderCrash, ReaderTypeOK, ReaderProcTypeOK, StoreTypeOK, L1TypeOK,
           storeVars, l1Vars
  <1>6. ASSUME NEW t \in Tx, NEW pack \in AnnouncedPacks, Announce(t, pack)
        PROVE  ReaderTypeOK'
    BY <1>6, TypeFacts, AnnounceType
       DEF Announce, ReaderTypeOK, ReaderProcTypeOK, StoreTypeOK, storeVars, readerProcVars
  <1>7. ASSUME NEW t \in PosterTx, PosterRecords(t)
        PROVE  ReaderTypeOK'
    BY <1>7, TypeFacts, PosterRecordsType
       DEF PosterRecords, ReaderTypeOK, ReaderProcTypeOK, L1TypeOK, l1Vars, readerProcVars
  <1>8. CASE L1Next /\ UNCHANGED <<storeVars, readerProcVars>>
    BY <1>8, TypeFacts, L1TypeStep
       DEF ReaderTypeOK, ReaderProcTypeOK, StoreTypeOK, storeVars, readerProcVars
  <1>9. CASE UNCHANGED readerVars
    BY <1>9, TypeFacts
       DEF readerVars, ReaderTypeOK, ReaderProcTypeOK, StoreTypeOK, L1TypeOK,
           storeVars, l1Vars, readerProcVars
  <1>10. QED
    BY <1>1, <1>2, <1>3, <1>4, <1>5, <1>6, <1>7, <1>8, <1>9
       DEF ReaderNext, ReaderEnvironment

-----------------------------------------------------------------------------
(* What rebuilding writes *)

\* A transaction that was not sent yet has no pack, so packs only grow.
UnsentEmpty == \A t \in Tx : chain[t].status = "unsent" => chain[t].pack = {}

PacksKept ==
    \A t \in Tx : chain[t].status # "unsent" =>
        chain'[t].status # "unsent" /\ chain'[t].pack = chain[t].pack

SnapshotsWithin == \A e \in BatchId : batches[e].snapshot \subseteq PackOf(e)

\* What ObservedBacked says of the row of one message.
BackedRow(k) ==
    /\ messages[k].batchRef \in Tx
    /\ LET e == <<messages[k].batchRef, TagOf[messages[k].body]>>
       IN  /\ batches[e].status = "confirmed"
           /\ [key |-> k, body |-> messages[k].body] \in batches[e].snapshot

AllBacked == \A k \in Key : messages[k].status = "confirmed" => BackedRow(k)

\* What every step does that processes an event without losing messages.
Rebuilds ==
    /\ \A e \in BatchId : batches'[e].status \in {batches[e].status, "confirmed"}
    /\ \A e \in BatchId : batches[e].snapshot \subseteq batches'[e].snapshot
    /\ \A k \in Key : messages'[k] = messages[k] \/ BackedRow(k)'
    /\ \A k \in Key : messages[k].status # "absent" => messages'[k].status # "absent"

LEMMA PacksGrow ==
  ASSUME UnsentEmpty, PacksKept, NEW e \in BatchId
  PROVE  PackOf(e) \subseteq PackOf(e)'
  BY DEF UnsentEmpty, PacksKept, PackOf, BatchId

\* The row of one event after it is written with a snapshot.
LEMMA ObservedSnapshot ==
  ASSUME batches \in BatchTable, NEW ev \in Event, NEW snapshot \in SUBSET Entry,
         batches' = UpsertBatch(batches, ObservedBatch(ev, snapshot))
  PROVE  /\ \A e \in BatchId \ {ev.id} : batches'[e] = batches[e]
         /\ batches'[ev.id].status = "confirmed"
         /\ batches'[ev.id].snapshot =
              IF snapshot = {} THEN batches[ev.id].snapshot ELSE snapshot
  <1> DEFINE row == ObservedBatch(ev, snapshot)[ev.id]
  <1>1. /\ ev.id \in BatchId /\ row \in BatchRow
        /\ row.status = "confirmed" /\ row.snapshot = snapshot
        /\ DOMAIN ObservedBatch(ev, snapshot) = {ev.id}
    BY ObservedBatchType DEF ObservedBatch, Event
  <1>2. /\ \A e \in BatchId \ {ev.id} : batches'[e] = batches[e]
        /\ batches'[ev.id] = IF batches[ev.id].status = "absent" THEN row
                             ELSE MergeBatch(batches[ev.id], row)
    BY <1>1 DEF UpsertBatch, BatchTable
  <1> HIDE DEF row
  <1>3. CASE batches[ev.id].status = "absent"
    <2>1. batches[ev.id].snapshot = {}
      BY <1>1, <1>3 DEF BatchTable, BatchRow, BatchStatus, NoBatch
    <2>2. QED
      BY <1>1, <1>2, <1>3, <2>1
  <1>4. CASE batches[ev.id].status # "absent"
    <2>1. /\ MergeBatch(batches[ev.id], row).status = row.status
          /\ MergeBatch(batches[ev.id], row).snapshot =
               IF row.snapshot = {} THEN batches[ev.id].snapshot ELSE row.snapshot
      BY <1>1 DEF MergeBatch, BatchRow
    <2>2. QED
      BY <1>1, <1>2, <1>4, <2>1
  <1>5. QED
    BY <1>3, <1>4

\* The rows of the messages of one snapshot after it is written.
LEMMA ObservedRows ==
  ASSUME messages \in MessageTable, NEW ev \in Event, NEW snapshot \in SUBSET Entry,
         messages' = UpsertObserved(messages, ObservedMessages(ev, snapshot))
  PROVE  /\ \A k \in Key :
              \/ messages'[k] = messages[k]
              \/ /\ messages'[k].status = "confirmed"
                 /\ messages'[k].batchRef = ev.id[1]
                 /\ [key |-> k, body |-> messages'[k].body] \in snapshot
         /\ \A m \in snapshot : messages'[m.key].status # "absent"
  <1> DEFINE rows == ObservedMessages(ev, snapshot)
             body(k) == (CHOOSE m \in snapshot : m.key = k).body
  <1>1. ASSUME NEW k \in DOMAIN rows
        PROVE  /\ rows[k].status = "confirmed" /\ rows[k].batchRef = ev.id[1]
               /\ [key |-> k, body |-> rows[k].body] \in snapshot
    <2>1. \E m \in snapshot : m.key = k
      BY <1>1 DEF ObservedMessages
    <2>2. PICK m \in snapshot : m.key = k /\ m.body = body(k)
      BY <2>1
    <2>3. m = [key |-> k, body |-> body(k)]
      BY <2>2 DEF Entry
    <2>4. rows[k] = [status |-> "confirmed", body |-> body(k),
                     batchRef |-> ev.id[1], ingestSeq |-> 0]
      BY <1>1 DEF ObservedMessages
    <2> HIDE DEF body, rows
    <2>5. QED
      BY <2>2, <2>3, <2>4
  <1>2. \A k \in Key : messages'[k] = IF k \in DOMAIN rows /\ messages[k].status # "confirmed"
                                      THEN rows[k] ELSE messages[k]
    BY DEF UpsertObserved, MessageTable
  <1>3. ASSUME NEW m \in snapshot
        PROVE  messages'[m.key].status # "absent"
    <2>1. m.key \in Key
      BY DEF Entry
    <2>2. CASE ObservedConflict(messages, m)
      BY <1>1, <1>2, <2>1, <2>2 DEF ObservedConflict
    <2>3. CASE ~ObservedConflict(messages, m)
      <3>1. m.key \in DOMAIN rows
        BY <2>3 DEF ObservedMessages
      <3>2. QED
        BY <1>1, <1>2, <2>1, <3>1
    <2>4. QED
      BY <2>2, <2>3
  <1> HIDE DEF rows
  <1>4. QED
    BY <1>1, <1>2, <1>3

LEMMA ObserveWithin ==
  ASSUME StoreTypeOK, L1TypeOK, SnapshotsWithin, NEW ev \in Event,
         Processed(ev), chain' = chain
  PROVE  SnapshotsWithin'
  <1>1. /\ batches \in BatchTable /\ ev.id \in BatchId
        /\ PackOf(ev.id) \in SUBSET Entry
        /\ \A e \in BatchId : PackOf(e)' = PackOf(e)
    BY PackOfType DEF StoreTypeOK, BatchTable, Event, PackOf
  <1>2. PICK snapshot \in SUBSET PackOf(ev.id) :
           batches' = UpsertBatch(batches, ObservedBatch(ev, snapshot))
    BY DEF Processed, ObserveVerified, ObserveNothing, Observe
  <1>3. snapshot \in SUBSET Entry
    BY <1>1
  <1>4. /\ \A e \in BatchId \ {ev.id} : batches'[e] = batches[e]
        /\ batches'[ev.id].snapshot =
              IF snapshot = {} THEN batches[ev.id].snapshot ELSE snapshot
    BY <1>1, <1>2, <1>3, ObservedSnapshot
  <1>5. QED
    BY <1>1, <1>4 DEF SnapshotsWithin

LEMMA ObserveRebuilds ==
  ASSUME StoreTypeOK, L1TypeOK, SnapshotsWithin, NEW ev \in Event,
         Observe(ev, PackOf(ev.id)) \/ ObserveNothing(ev)
  PROVE  Rebuilds
  <1>1. /\ batches \in BatchTable /\ messages \in MessageTable /\ ev.id \in BatchId
        /\ PackOf(ev.id) \in SUBSET Entry /\ {} \in SUBSET Entry
    BY PackOfType DEF StoreTypeOK, BatchTable, MessageTable, Event
  <1>2. CASE ObserveNothing(ev)
    <2>1. batches' = UpsertBatch(batches, ObservedBatch(ev, {})) /\ messages' = messages
      BY <1>2 DEF ObserveNothing
    <2>2. QED
      BY <1>1, <2>1, ObservedSnapshot DEF Rebuilds
  <1>3. CASE Observe(ev, PackOf(ev.id))
    <2>1. /\ \A e \in BatchId \ {ev.id} : batches'[e] = batches[e]
          /\ batches'[ev.id].status = "confirmed"
          /\ batches'[ev.id].snapshot =
               IF PackOf(ev.id) = {} THEN batches[ev.id].snapshot ELSE PackOf(ev.id)
      BY <1>1, <1>3, ObservedSnapshot DEF Observe
    <2>2. batches[ev.id].snapshot \subseteq PackOf(ev.id)
      BY <1>1 DEF SnapshotsWithin
    <2>3. \A k \in Key :
              \/ messages'[k] = messages[k]
              \/ /\ messages'[k].status = "confirmed"
                 /\ messages'[k].batchRef = ev.id[1]
                 /\ [key |-> k, body |-> messages'[k].body] \in PackOf(ev.id)
      BY <1>1, <1>3, ObservedRows DEF Observe
    <2>4. ASSUME NEW k \in Key, messages'[k] # messages[k]
          PROVE  BackedRow(k)' /\ messages'[k].status = "confirmed"
      <3>1. /\ messages'[k].batchRef = ev.id[1]
            /\ [key |-> k, body |-> messages'[k].body] \in PackOf(ev.id)
            /\ messages'[k].status = "confirmed"
        BY <2>3, <2>4
      <3>2. TagOf[messages'[k].body] = ev.id[2]
        BY <3>1 DEF PackOf, TagOfEntry
      <3>3. ev.id = <<messages'[k].batchRef, TagOf[messages'[k].body]>>
            /\ messages'[k].batchRef \in Tx
        BY <1>1, <3>1, <3>2 DEF BatchId
      <3>4. QED
        BY <2>1, <3>1, <3>3 DEF BackedRow
    <2>5. QED
      BY <2>1, <2>2, <2>4 DEF Rebuilds
  <1>4. QED
    BY <1>2, <1>3

\* What a transaction of several rows writes, one of them for each tag.
LEMMA UpsertedSnapshot ==
  ASSUME NEW bs \in BatchTable, NEW rows, NEW e \in BatchId,
         \A x \in DOMAIN rows : rows[x] \in BatchRow /\ rows[x].status = "confirmed"
  PROVE  /\ e \notin DOMAIN rows => UpsertBatch(bs, rows)[e] = bs[e]
         /\ e \in DOMAIN rows =>
               /\ UpsertBatch(bs, rows)[e].status = "confirmed"
               /\ UpsertBatch(bs, rows)[e].snapshot =
                    IF rows[e].snapshot = {} THEN bs[e].snapshot ELSE rows[e].snapshot
  <1>1. bs[e].status = "absent" => bs[e].snapshot = {}
    BY DEF BatchTable, BatchRow, BatchStatus, NoBatch
  <1>2. ASSUME NEW new \in BatchRow
        PROVE  /\ MergeBatch(bs[e], new).status = new.status
               /\ MergeBatch(bs[e], new).snapshot =
                    IF new.snapshot = {} THEN bs[e].snapshot ELSE new.snapshot
    BY DEF MergeBatch, BatchRow
  <1>3. DOMAIN bs = BatchId
    BY DEF BatchTable
  <1>4. QED
    BY <1>1, <1>2, <1>3 DEF UpsertBatch

LEMMA PosterRecordsRebuilds ==
  ASSUME StoreTypeOK, L1TypeOK, SnapshotsWithin, NEW t \in PosterTx, PosterRecords(t)
  PROVE  Rebuilds /\ SnapshotsWithin'
  <1> DEFINE pack == chain[t].pack
             ids == {<<t, TagOfEntry(m)>> : m \in pack}
             event(e) == [id |-> e, block |-> chain[t].block]
             row(e) == [ObservedBatch(event(e), PackOf(e))[e] EXCEPT !.submittedAt = TRUE]
             rows == [e \in ids |-> row(e)]
             first == CHOOSE e \in ids : TRUE
  <1>1. t \in Tx /\ pack \in SUBSET Entry /\ chain[t].block \in Nat
    BY ReaderAssumption DEF L1TypeOK, ChainTx
  <1>2. ids \subseteq BatchId /\ \A e \in ids : e[1] = t
    BY <1>1, BamStoreAssumption DEF BatchId, Entry, TagOfEntry
  <1>3. ASSUME NEW e \in BatchId
        PROVE  /\ row(e) \in BatchRow
               /\ row(e).status = "confirmed" /\ row(e).snapshot = PackOf(e)
    <2>1. event(e) \in Event /\ event(e).id = e /\ PackOf(e) \in SUBSET Entry
      BY <1>1, PackOfType DEF Event
    <2>2. /\ ObservedBatch(event(e), PackOf(e))[e] \in BatchRow
          /\ ObservedBatch(event(e), PackOf(e))[e].status = "confirmed"
          /\ ObservedBatch(event(e), PackOf(e))[e].snapshot = PackOf(e)
      BY <2>1, ObservedBatchType DEF ObservedBatch
    <2>3. QED
      BY <2>2 DEF BatchRow
  <1>4. /\ batches' = UpsertBatch(batches, rows) /\ chain' = chain
        /\ messages' = UpsertObserved(messages, ObservedMessages(event(first), pack))
    BY DEF PosterRecords, l1Vars
  <1>5. first \in ids
    BY DEF PosterRecords
  <1>6. event(first) \in Event /\ event(first).id[1] = t
    BY <1>1, <1>2, <1>5 DEF Event
  <1>7. ASSUME NEW k \in Key
        PROVE  \/ messages'[k] = messages[k]
               \/ /\ messages'[k].status = "confirmed" /\ messages'[k].batchRef = t
                  /\ [key |-> k, body |-> messages'[k].body] \in pack
    <2> HIDE DEF event, first, pack
    <2>1. messages \in MessageTable
      BY DEF StoreTypeOK, MessageTable
    <2>2. QED
      BY <1>1, <1>4, <1>6, <2>1, ObservedRows
  <1> HIDE DEF first, row, event
  <1>8. \A e \in DOMAIN rows : rows[e] \in BatchRow /\ rows[e].status = "confirmed"
    BY <1>2, <1>3
  <1>9. \A e \in ids : rows[e].snapshot = PackOf(e)
    BY <1>2, <1>3
  <1>10. DOMAIN rows = ids
    OBVIOUS
  <1> HIDE DEF rows
  <1>11. ASSUME NEW e \in BatchId
         PROVE  /\ e \notin ids => batches'[e] = batches[e]
                /\ e \in ids => /\ batches'[e].status = "confirmed"
                                /\ batches'[e].snapshot = PackOf(e)
    <2>1. batches \in BatchTable
      BY DEF StoreTypeOK, BatchTable
    <2>2. batches[e].snapshot \subseteq PackOf(e)
      BY DEF SnapshotsWithin
    <2>3. /\ e \notin DOMAIN rows => batches'[e] = batches[e]
          /\ e \in DOMAIN rows =>
                /\ batches'[e].status = "confirmed"
                /\ batches'[e].snapshot =
                     IF rows[e].snapshot = {} THEN batches[e].snapshot ELSE rows[e].snapshot
      BY <1>4, <1>8, <2>1, UpsertedSnapshot
    <2> HIDE DEF ids
    <2>4. QED
      BY <1>9, <1>10, <2>2, <2>3
  <1>12. ASSUME NEW k \in Key, messages'[k] # messages[k]
         PROVE  BackedRow(k)' /\ messages'[k].status = "confirmed"
    <2> DEFINE m == [key |-> k, body |-> messages'[k].body]
               e == <<messages'[k].batchRef, TagOf[messages'[k].body]>>
    <2>1. m \in pack /\ messages'[k].batchRef = t /\ messages'[k].status = "confirmed"
      BY <1>7, <1>12
    <2>2. e = <<t, TagOfEntry(m)>>
      BY <2>1 DEF TagOfEntry
    <2>3. e \in ids /\ e \in BatchId
      BY <1>2, <2>1, <2>2
    <2>4. m \in PackOf(e)
      BY <2>1, <2>2 DEF PackOf
    <2>5. QED
      BY <1>1, <1>11, <2>1, <2>3, <2>4 DEF BackedRow
  <1>13. Rebuilds
    BY <1>11, <1>12 DEF Rebuilds, SnapshotsWithin
  <1>14. SnapshotsWithin'
    BY <1>4, <1>11 DEF SnapshotsWithin, PackOf
  <1>15. QED
    BY <1>13, <1>14

\* A watcher that marks a batch takes its messages with it.
LEMMA MarkedBacked ==
  ASSUME StoreTypeOK, NEW t, batches' = ReorgBatches(batches, t),
         messages' = ReorgMessages(messages, t)
  PROVE  /\ AllBacked => AllBacked'
         /\ \A e \in BatchId : batches'[e].snapshot = batches[e].snapshot
         /\ \A k \in Key : messages[k].status # "absent" => messages'[k].status # "absent"
  <1>1. ASSUME NEW e \in BatchId
        PROVE  /\ batches'[e].snapshot = batches[e].snapshot
               /\ e[1] # t => batches'[e] = batches[e]
    <2>1. batches[e].status # "absent" => batches[e] \in BatchRow
      BY DEF StoreTypeOK, NoBatch
    <2>2. QED
      BY <2>1 DEF ReorgBatches, StoreTypeOK, BatchRow
  <1>2. ASSUME NEW k \in Key
        PROVE  /\ messages[k].status # "absent" => messages'[k].status # "absent"
               /\ messages'[k].status = "confirmed" =>
                     messages'[k] = messages[k] /\ messages[k].batchRef # t
    <2>1. messages[k].status # "absent" => messages[k] \in MessageRow
      BY DEF StoreTypeOK, NoMessage
    <2>2. messages'[k] = IF messages[k].batchRef = t /\ messages[k].status = "confirmed"
                         THEN [messages[k] EXCEPT !.status = "reorged"] ELSE messages[k]
      BY DEF ReorgMessages, StoreTypeOK
    <2>3. CASE messages[k].batchRef = t /\ messages[k].status = "confirmed"
      BY <2>1, <2>2, <2>3 DEF MessageRow
    <2>4. CASE ~(messages[k].batchRef = t /\ messages[k].status = "confirmed")
      BY <2>2, <2>4
    <2>5. QED
      BY <2>3, <2>4
  <1>3. ASSUME AllBacked, NEW k \in Key, messages'[k].status = "confirmed"
        PROVE  BackedRow(k)'
    <2>1. /\ BackedRow(k) /\ messages'[k] = messages[k] /\ messages[k].batchRef # t
          /\ messages[k] \in MessageRow
      BY <1>2, <1>3 DEF AllBacked, StoreTypeOK, NoMessage
    <2> DEFINE e == <<messages[k].batchRef, TagOf[messages[k].body]>>
    <2>2. e \in BatchId /\ e[1] # t
      BY <2>1, BamStoreAssumption DEF BackedRow, BatchId, MessageRow
    <2>3. batches'[e] = batches[e]
      BY <1>1, <2>2
    <2>4. QED
      BY <2>1, <2>3 DEF BackedRow
  <1>4. QED
    BY <1>1, <1>2, <1>3 DEF AllBacked

LEMMA RebuildsBacked ==
  ASSUME StoreTypeOK, AllBacked, Rebuilds
  PROVE  AllBacked'
  <1> SUFFICES ASSUME NEW k \in Key, messages'[k].status = "confirmed"
               PROVE  BackedRow(k)'
    BY DEF AllBacked
  <1>1. CASE messages'[k] # messages[k]
    BY <1>1 DEF Rebuilds
  <1>2. CASE messages'[k] = messages[k]
    <2>1. BackedRow(k) /\ messages[k] \in MessageRow
      BY <1>2 DEF AllBacked, StoreTypeOK, NoMessage
    <2> DEFINE e == <<messages[k].batchRef, TagOf[messages[k].body]>>
    <2>2. e \in BatchId
      BY <2>1, BamStoreAssumption DEF BackedRow, BatchId, MessageRow
    <2>3. /\ batches'[e].status \in {batches[e].status, "confirmed"}
          /\ batches[e].snapshot \subseteq batches'[e].snapshot
      BY <2>2 DEF Rebuilds
    <2>4. QED
      BY <1>2, <2>1, <2>3 DEF BackedRow
  <1>3. QED
    BY <1>1, <1>2

-----------------------------------------------------------------------------
(* What any step does to the rows *)

FaultsGrow == rfaults' = rfaults \/ \E kind \in ReaderFaultKinds : ReaderFault(kind)

Marks == \E t \in Tx : /\ batches' = ReorgBatches(batches, t)
                       /\ messages' = ReorgMessages(messages, t)

Effect ==
    /\ FaultsGrow
    /\ PacksKept /\ UnsentEmpty' /\ SnapshotsWithin'
    /\ Happened({"verify"})' \/ Rebuilds \/ Marks \/ ResetAll

LEMMA HappenedStays ==
  ASSUME ReaderTypeOK, FaultsGrow, NEW kinds, Happened(kinds)
  PROVE  Happened(kinds)'
  <1>1. PICK i \in DOMAIN rfaults : rfaults[i] \in kinds
    BY DEF Happened
  <1>2. i \in DOMAIN rfaults' /\ rfaults'[i] = rfaults[i]
    <2>1. CASE rfaults' = rfaults
      BY <1>1, <2>1
    <2>2. ASSUME NEW kind \in ReaderFaultKinds, rfaults' = Append(rfaults, kind)
          PROVE  i \in DOMAIN rfaults' /\ rfaults'[i] = rfaults[i]
      <3>1. rfaults \in Seq(ReaderFaultKinds) /\ i \in 1 .. Len(rfaults)
        BY <1>1, TypeFacts
      <3>2. QED
        BY <2>2, <3>1
    <2>3. QED
      BY <2>1, <2>2 DEF FaultsGrow, ReaderFault
  <1>3. QED
    BY <1>1, <1>2 DEF Happened

LEMMA FaultHappens ==
  ASSUME ReaderTypeOK, NEW kind, NEW kinds, ReaderFault(kind), kind \in kinds
  PROVE  FaultsGrow /\ Happened(kinds)'
  <1>1. /\ kind \in ReaderFaultKinds /\ rfaults' = Append(rfaults, kind)
        /\ rfaults \in Seq(ReaderFaultKinds)
    BY TypeFacts DEF ReaderFault
  <1>2. Len(rfaults) + 1 \in DOMAIN rfaults' /\ rfaults'[Len(rfaults) + 1] = kind
    BY <1>1
  <1>3. QED
    BY <1>1, <1>2 DEF Happened, FaultsGrow

LEMMA StillRebuilds ==
  ASSUME UNCHANGED storeVars
  PROVE  Rebuilds
  BY DEF Rebuilds, storeVars

LEMMA StillPacks ==
  ASSUME UNCHANGED l1Vars, UnsentEmpty
  PROVE  PacksKept /\ UnsentEmpty'
  BY DEF PacksKept, UnsentEmpty, l1Vars

LEMMA L1Packs ==
  ASSUME L1TypeOK, UnsentEmpty, L1Next
  PROVE  /\ PacksKept /\ UnsentEmpty'
         /\ \A t \in Tx : chain'[t].pack = chain[t].pack
  <1> SUFFICES ASSUME NEW u \in Tx
               PROVE  /\ chain'[u].pack = chain[u].pack
                      /\ chain[u].status = "unsent" => chain'[u].pack = {}
                      /\ chain[u].status # "unsent" =>
                            chain'[u].status # "unsent" /\ chain'[u].pack = chain[u].pack
    BY DEF PacksKept, UnsentEmpty
  <1>1. chain \in [Tx -> ChainTx] /\ (chain[u].status = "unsent" => chain[u].pack = {})
    BY DEF L1TypeOK, UnsentEmpty
  <1>2. ASSUME NEW t \in Tx, NEW ok \in BOOLEAN, MineTx(t, ok)
        PROVE  /\ chain'[u].pack = chain[u].pack
               /\ chain[u].status # "unsent" => chain'[u].status # "unsent"
    BY <1>1, <1>2 DEF MineTx, ChainTx
  <1>3. ASSUME NEW first \in 1 .. head, Fork(first)
        PROVE  /\ chain'[u].pack = chain[u].pack
               /\ chain[u].status # "unsent" => chain'[u].status # "unsent"
    <2> DEFINE moved == {t \in Tx : Mined(t) /\ chain[t].block >= first}
    <2>1. PICK place \in [moved -> {0} \cup (first .. head)] :
            chain' = [t \in Tx |->
                  IF t \notin moved THEN chain[t]
                  ELSE IF place[t] = 0
                  THEN [chain[t] EXCEPT !.status = "mempool", !.block = 0]
                  ELSE [chain[t] EXCEPT !.block = place[t]]]
      BY <1>3 DEF Fork
    <2> HIDE DEF moved
    <2>2. \/ chain'[u] = chain[u]
          \/ chain'[u] = [chain[u] EXCEPT !.status = "mempool", !.block = 0]
          \/ chain'[u] = [chain[u] EXCEPT !.block = place[u]]
      BY <2>1
    <2>3. QED
      BY <1>1, <2>2 DEF ChainTx
  <1>4. ASSUME MineEmpty
        PROVE  chain' = chain
    BY <1>4 DEF MineEmpty
  <1>5. QED
    BY <1>1, <1>2, <1>3, <1>4 DEF L1Next

LEMMA AnnouncePacks ==
  ASSUME L1TypeOK, UnsentEmpty, NEW t \in Tx, NEW pack \in AnnouncedPacks,
         Announce(t, pack)
  PROVE  PacksKept /\ UnsentEmpty'
  <1>1. chain[t].status = "unsent" /\ chain \in [Tx -> ChainTx]
    BY DEF Announce, NextTx, L1TypeOK
  <1>2. /\ chain'[t].status = "mempool"
        /\ \A u \in Tx \ {t} : chain'[u] = chain[u]
    BY <1>1 DEF Announce, EnterMempool, NoChainTx
  <1>3. QED
    BY <1>1, <1>2 DEF PacksKept, UnsentEmpty

\* Snapshots stay within packs when the rows do not gain anything.
LEMMA WithinKept ==
  ASSUME SnapshotsWithin, UnsentEmpty, PacksKept,
         \A e \in BatchId : batches'[e].snapshot \subseteq batches[e].snapshot
  PROVE  SnapshotsWithin'
  <1> SUFFICES ASSUME NEW e \in BatchId
               PROVE  batches'[e].snapshot \subseteq PackOf(e)'
    BY DEF SnapshotsWithin
  <1>1. PackOf(e) \subseteq PackOf(e)'
    BY PacksGrow
  <1>2. QED
    BY <1>1 DEF SnapshotsWithin

SeenInv ==
    /\ ReaderTypeOK
    /\ UnsentEmpty
    /\ SnapshotsWithin
    /\ Happened({"verify"}) \/ AllBacked

LEMMA QuietEffect ==
  ASSUME SeenInv, UNCHANGED storeVars, FaultsGrow, PacksKept, UnsentEmpty'
  PROVE  Effect
  BY WithinKept, StillRebuilds DEF Effect, SeenInv, storeVars

LEMMA EventEffect ==
  ASSUME SeenInv, NEW ev \in Event, UNCHANGED l1Vars,
         \/ ObserveVerified(ev)
         \/ ObserveNothing(ev) /\ FaultsGrow
  PROVE  Effect
  <1>1. StoreTypeOK /\ L1TypeOK /\ SnapshotsWithin /\ UnsentEmpty /\ ReaderTypeOK
        /\ chain' = chain
    BY DEF SeenInv, ReaderTypeOK, l1Vars
  <1>2. PacksKept /\ UnsentEmpty'
    BY <1>1, StillPacks
  <1>3. Processed(ev)
    BY DEF Processed
  <1>4. SnapshotsWithin'
    BY <1>1, <1>3, ObserveWithin
  <1>5. FaultsGrow
    BY DEF ObserveVerified, FaultsGrow, ReaderFault
  <1>6. Happened({"verify"})' \/ Rebuilds
    <2>1. CASE Observe(ev, PackOf(ev.id)) \/ ObserveNothing(ev)
      BY <1>1, <2>1, ObserveRebuilds
    <2>2. CASE ReaderFault("verify")
      BY <1>1, <2>2, FaultHappens
    <2>3. QED
      BY <2>1, <2>2 DEF ObserveVerified
  <1>7. QED
    BY <1>2, <1>4, <1>5, <1>6 DEF Effect

LEMMA EveryEffect ==
  ASSUME SeenInv, [ReaderNext \/ ReaderEnvironment]_readerVars
  PROVE  Effect
  <1>1. /\ ReaderTypeOK /\ StoreTypeOK /\ L1TypeOK /\ UnsentEmpty /\ SnapshotsWithin
        /\ tail.todo \subseteq Event /\ fill.todo \subseteq Event
    BY TypeFacts DEF SeenInv
  <1>2. ASSUME UNCHANGED <<storeVars, l1Vars>>, FaultsGrow
        PROVE  Effect
    BY <1>1, <1>2, StillPacks, QuietEffect
  <1>3. ASSUME NEW ev \in tail.todo, TailBatch(ev)
        PROVE  Effect
    <2>1. UNCHANGED l1Vars /\ ev \in Event
      BY <1>1, <1>3 DEF TailBatch
    <2>2. ObserveVerified(ev) \/ (ObserveNothing(ev) /\ FaultsGrow)
      BY <1>3 DEF TailBatch, FaultsGrow, ReaderFault
    <2>3. QED
      BY <2>1, <2>2, EventEffect
  <1>4. ASSUME NEW ev \in fill.todo, FillBatch(ev)
        PROVE  Effect
    <2>1. UNCHANGED l1Vars /\ ev \in Event
      BY <1>1, <1>4 DEF FillBatch
    <2>2. ObserveVerified(ev) \/ (ObserveNothing(ev) /\ FaultsGrow)
      BY <1>4 DEF FillBatch, FaultsGrow, ReaderFault
    <2>3. QED
      BY <2>1, <2>2, EventEffect
  <1>5. ASSUME NEW e \in BatchId, TailMark(e)
        PROVE  Effect
    <2>1. /\ Marks /\ UNCHANGED l1Vars /\ FaultsGrow
          /\ batches' = ReorgBatches(batches, e[1])
          /\ messages' = ReorgMessages(messages, e[1])
      BY <1>5 DEF TailMark, Marks, FaultsGrow, BatchId
    <2>2. \A x \in BatchId : batches'[x].snapshot = batches[x].snapshot
      BY <1>1, <2>1, MarkedBacked
    <2>3. PacksKept /\ UnsentEmpty'
      BY <1>1, <2>1, StillPacks
    <2>4. SnapshotsWithin'
      BY <1>1, <2>2, <2>3, WithinKept
    <2>5. QED
      BY <2>1, <2>3, <2>4 DEF Effect
  <1>6. CASE ResetAll
    <2>1. UNCHANGED l1Vars /\ FaultsGrow
      BY <1>6 DEF ResetAll, FaultsGrow
    <2>2. PacksKept /\ UnsentEmpty'
      BY <1>1, <2>1, StillPacks
    <2>3. \A e \in BatchId : batches'[e].snapshot = {}
      BY <1>6 DEF ResetAll, NoBatch
    <2>4. SnapshotsWithin'
      BY <1>1, <2>2, <2>3, WithinKept
    <2>5. QED
      BY <1>6, <2>1, <2>2, <2>4 DEF Effect
  <1>7. ASSUME NEW t \in Tx, NEW pack \in AnnouncedPacks, Announce(t, pack)
        PROVE  Effect
    <2>1. UNCHANGED storeVars /\ FaultsGrow
      BY <1>7 DEF Announce, FaultsGrow, readerProcVars
    <2>2. QED
      BY <1>1, <1>7, <2>1, AnnouncePacks, QuietEffect
  <1>8. ASSUME NEW t \in PosterTx, PosterRecords(t)
        PROVE  Effect
    <2>1. UNCHANGED l1Vars /\ FaultsGrow
      BY <1>8 DEF PosterRecords, FaultsGrow, readerProcVars
    <2>2. PacksKept /\ UnsentEmpty'
      BY <1>1, <2>1, StillPacks
    <2>3. Rebuilds /\ SnapshotsWithin'
      BY <1>1, <1>8, PosterRecordsRebuilds
    <2>4. QED
      BY <2>1, <2>2, <2>3 DEF Effect
  <1>9. CASE L1Next /\ UNCHANGED <<storeVars, readerProcVars>>
    <2>1. UNCHANGED storeVars /\ FaultsGrow
      BY <1>9 DEF FaultsGrow, readerProcVars
    <2>2. QED
      BY <1>1, <1>9, <2>1, L1Packs, QuietEffect
  <1>10. CASE \/ TailStart \/ TailScan \/ TailBlock \/ TailCatchUp \/ TailList \/ TailEnd
              \/ TailThrows
    BY <1>2, <1>10
       DEF TailStart, TailScan, TailBlock, TailCatchUp, TailList, TailEnd, TailThrows,
           FaultsGrow, ReaderFault
  <1>11. ASSUME NEW e \in BatchId, TailKeep(e) \/ TailLost(e)
         PROVE  Effect
    BY <1>2, <1>11 DEF TailKeep, TailLost, FaultsGrow, ReaderFault
  <1>12. ASSUME NEW from \in StartBlock .. head, NEW to \in StartBlock .. head,
                FillStart(from, to)
         PROVE  Effect
    BY <1>2, <1>12 DEF FillStart, FaultsGrow
  <1>13. CASE FillScan \/ FillBlock \/ FillChunk \/ FillThrows \/ ResetCursor \/ ReaderCrash
    BY <1>2, <1>13
       DEF FillScan, FillBlock, FillChunk, FillThrows, ResetCursor, ReaderCrash,
           FaultsGrow, ReaderFault
  <1>14. CASE UNCHANGED readerVars
    BY <1>2, <1>14 DEF readerVars, readerProcVars, FaultsGrow
  <1>15. QED
    BY <1>3, <1>4, <1>5, <1>6, <1>7, <1>8, <1>9, <1>10, <1>11, <1>12, <1>13, <1>14
       DEF ReaderNext, ReaderEnvironment, LiveTail, Backfill

LEMMA SeenStep ==
  ASSUME SeenInv, [ReaderNext \/ ReaderEnvironment]_readerVars
  PROVE  SeenInv' /\ (Happened({"verify"})' \/ SnapshotKept)
  <1>1. ReaderTypeOK /\ ReaderTypeOK' /\ Effect /\ StoreTypeOK
    BY ReaderTypeStep, EveryEffect, TypeFacts DEF SeenInv
  <1>2. CASE Happened({"verify"})'
    BY <1>1, <1>2 DEF SeenInv, Effect
  <1>3. CASE ~Happened({"verify"})'
    <2>1. AllBacked
      BY <1>1, <1>3, HappenedStays DEF SeenInv, Effect
    <2>2. CASE Rebuilds
      <3>1. AllBacked'
        BY <1>1, <2>1, <2>2, RebuildsBacked
      <3>2. SnapshotKept
        BY <2>2 DEF Rebuilds, SnapshotKept
      <3>3. QED
        BY <1>1, <3>1, <3>2 DEF SeenInv, Effect
    <2>3. CASE Marks
      <3>1. AllBacked' /\ \A e \in BatchId : batches'[e].snapshot = batches[e].snapshot
        BY <1>1, <2>1, <2>3, MarkedBacked DEF Marks
      <3>2. SnapshotKept
        BY <3>1 DEF SnapshotKept
      <3>3. QED
        BY <1>1, <3>1, <3>2 DEF SeenInv, Effect
    <2>4. CASE ResetAll
      <3>1. AllBacked' /\ SnapshotKept
        BY <2>4 DEF ResetAll, AllBacked, SnapshotKept, NoMessage, NoBatch
      <3>2. QED
        BY <1>1, <3>1 DEF SeenInv, Effect
    <2>5. QED
      BY <1>1, <1>3, <2>2, <2>3, <2>4 DEF Effect
  <1>4. QED
    BY <1>2, <1>3

LEMMA ReaderTypeInit ==
  ASSUME ReaderInit
  PROVE  ReaderTypeOK
  <1>1. StoreTypeOK /\ L1TypeOK
    BY BamStoreAssumption
       DEF ReaderInit, StoreInit, StoreTypeOK, NonceRow, NoNonce, L1Init, L1TypeOK,
           NoChainTx, ChainTx
  <1>2. ReaderProcTypeOK
    BY NoTailType DEF ReaderInit, ReaderProcInit, ReaderProcTypeOK
  <1>3. QED
    BY <1>1, <1>2 DEF ReaderTypeOK

LEMMA SeenInit ==
  ASSUME ReaderInit
  PROVE  SeenInv
  <1>1. UnsentEmpty
    BY DEF ReaderInit, L1Init, UnsentEmpty, NoChainTx
  <1>2. SnapshotsWithin /\ AllBacked
    BY DEF ReaderInit, StoreInit, SnapshotsWithin, AllBacked, NoBatch, NoMessage
  <1>3. QED
    BY <1>1, <1>2, ReaderTypeInit DEF SeenInv

LEMMA AllBackedObserved ==
  ASSUME SeenInv
  PROVE  ObservedBacked
  BY DEF SeenInv, AllBacked, BackedRow, ObservedBacked

\* Type correctness of the Reader, its chain and the shared store.
THEOREM ReaderTypesOK == ReaderSpec => []ReaderTypeOK
  <1>1. ReaderInit => ReaderTypeOK
    BY ReaderTypeInit
  <1>2. ReaderTypeOK /\ [ReaderNext \/ ReaderEnvironment]_readerVars => ReaderTypeOK'
    BY ReaderTypeStep
  <1>3. QED
    BY <1>1, <1>2, PTL DEF ReaderSpec

\* A confirmed message names a confirmed batch whose snapshot holds it, whoever
\* wrote the two tables last, for every range a backfill is asked for and forks
\* of any depth.  Only a verification that failed midway breaks it.
THEOREM ObservedIsBacked == ReaderSpec => []ObservedBacked
  <1>1. ReaderInit => SeenInv
    BY SeenInit
  <1>2. SeenInv /\ [ReaderNext \/ ReaderEnvironment]_readerVars => SeenInv'
    BY SeenStep
  <1>3. SeenInv => ObservedBacked
    BY AllBackedObserved
  <1>4. QED
    BY <1>1, <1>2, <1>3, PTL DEF ReaderSpec

\* Processing an event again, after any outage, crash, rewind or fork, loses no
\* message a batch was seen with, as long as no verification failed midway.
THEOREM ReplayLosesNothing == ReaderSpec => ReplayKeeps
  <1>1. ReaderInit => SeenInv
    BY SeenInit
  <1>2. SeenInv /\ [ReaderNext \/ ReaderEnvironment]_readerVars
          => SeenInv' /\ [Happened({"verify"})' \/ SnapshotKept]_readerVars
    BY SeenStep
  <1>3. QED
    BY <1>1, <1>2, PTL DEF ReaderSpec, ReplayKeeps

-----------------------------------------------------------------------------
(* The invariant behind MessagesComplete *)

\* The events up to c, as batch identifiers.
Due(c) == {e \in BatchId : Registered(e, c)}

\* The batches whose content is in the store.
Rebuilt ==
    {e \in BatchId : /\ batches[e].snapshot = PackOf(e)
                     /\ \A m \in PackOf(e) : messages[m.key].status # "absent"}

\* The batches still to be processed, and those of the block a tick is in
\* once a blob of that block was unreachable.
Awaited(todo) == {e \in BatchId : \E ev \in todo : ev.id = e}
Parked == {e \in BatchId : tail.parked /\ chain[e[1]].block = tail.at}

CursorContent == Due(cursor) \subseteq Rebuilt

TailContent ==
    tail.pc = "work" => Due(tail.to) \subseteq Rebuilt \cup Awaited(tail.todo) \cup Parked

FillContent ==
    /\ fill.pc = "scan" => Due(fill.from - 1) \subseteq Rebuilt
    /\ fill.pc = "work" => Due(fill.upto) \subseteq Rebuilt \cup Awaited(fill.todo)

Content == CursorContent /\ TailContent /\ FillContent

ContentInv == ReaderInv /\ SeenInv /\ (Happened(Dropping) \/ Content)

\* What a step keeps that empties no table and drops nothing.
Steady ==
    /\ L1TypeOK /\ L1TypeOK' /\ FinalKept
    /\ \A e \in BatchId : Mined(e[1]) /\ e \in Rebuilt => e \in Rebuilt'

\* How a step treats the chain.
LEMMA StepFinal ==
  ASSUME SafeOperation, L1TypeOK, [ReaderNext \/ ReaderEnvironment]_readerVars
  PROVE  FinalKept
  <1>1. ASSUME UNCHANGED l1Vars
        PROVE  FinalKept
    BY <1>1 DEF FinalKept, L1TypeOK, l1Vars
  <1>2. CASE LiveTail \/ TailThrows
    BY <1>1, <1>2
       DEF LiveTail, TailStart, TailScan, TailBatch, TailBlock, TailCatchUp, TailList,
           TailEnd, TailKeep, TailLost, TailMark, TailThrows
  <1>3. CASE Backfill \/ FillThrows
    BY <1>1, <1>3
       DEF Backfill, FillStart, FillScan, FillBatch, FillBlock, FillChunk, FillThrows
  <1>4. CASE ResetCursor \/ ResetAll \/ ReaderCrash
    BY <1>1, <1>4 DEF ResetCursor, ResetAll, ReaderCrash
  <1>5. ASSUME NEW t \in Tx, NEW pack \in AnnouncedPacks, Announce(t, pack)
        PROVE  FinalKept
    BY <1>5, AnnounceFinal
  <1>6. ASSUME NEW t \in PosterTx, PosterRecords(t)
        PROVE  FinalKept
    BY <1>1, <1>6 DEF PosterRecords
  <1>7. CASE L1Next
    BY <1>7, L1Final
  <1>8. CASE UNCHANGED readerVars
    BY <1>1, <1>8 DEF readerVars
  <1>9. QED
    BY <1>2, <1>3, <1>4, <1>5, <1>6, <1>7, <1>8 DEF ReaderNext, ReaderEnvironment

LEMMA StepSteady ==
  ASSUME SeenInv, ReaderTypeOK', PacksKept, SnapshotsWithin', FinalKept,
         Rebuilds \/ Marks
  PROVE  Steady
  <1>1. /\ StoreTypeOK /\ L1TypeOK /\ L1TypeOK' /\ SnapshotsWithin
    BY DEF SeenInv, ReaderTypeOK
  <1>2. /\ \A e \in BatchId : batches[e].snapshot \subseteq batches'[e].snapshot
        /\ \A k \in Key : messages[k].status # "absent" => messages'[k].status # "absent"
    <2>1. CASE Rebuilds
      BY <2>1 DEF Rebuilds
    <2>2. CASE Marks
      BY <1>1, <2>2, MarkedBacked DEF Marks
    <2>3. QED
      BY <2>1, <2>2
  <1>3. ASSUME NEW e \in BatchId, Mined(e[1]), e \in Rebuilt
        PROVE  e \in Rebuilt'
    <2>1. PackOf(e)' = PackOf(e)
      BY <1>3, BlockType, <1>1 DEF PacksKept, Mined, PackOf
    <2>2. batches'[e].snapshot = PackOf(e)
      BY <1>2, <1>3, <2>1 DEF SnapshotsWithin, Rebuilt
    <2>3. \A m \in PackOf(e) : m.key \in Key
      BY <1>1, PackOfType DEF Entry
    <2>4. \A m \in PackOf(e) : messages'[m.key].status # "absent"
      BY <1>2, <1>3, <2>3 DEF Rebuilt
    <2>5. QED
      BY <2>1, <2>2, <2>4 DEF Rebuilt
  <1>4. QED
    BY <1>1, <1>3 DEF Steady

\* Events below the safe head neither come nor go, and what was rebuilt of
\* them stays so.
LEMMA DueKept ==
  ASSUME Steady, NEW c \in Int, c = NoCursor \/ c <= head - ReaderWindow,
         NEW W, Due(c) \subseteq Rebuilt \cup W, NEW e \in BatchId, Registered(e, c)'
  PROVE  /\ e \in Rebuilt' \/ e \in W
         /\ chain'[e[1]] = chain[e[1]]
  <1>1. /\ e[1] \in Tx /\ chain[e[1]].block \in Nat /\ chain'[e[1]].block \in Nat
        /\ StartBlock \in Nat \ {0} /\ head \in Nat /\ ReaderWindow \in Nat
    BY BlockType DEF Steady, L1TypeOK, ChainTx
  <1>2. chain'[e[1]].status = "mined" /\ chain'[e[1]].block <= head - ReaderWindow
    BY <1>1 DEF Registered, Mined, NoCursor
  <1>3. chain'[e[1]] = chain[e[1]]
    BY <1>1, <1>2 DEF Steady, FinalKept
  <1>4. Registered(e, c) /\ Mined(e[1])
    BY <1>3 DEF Registered, Mined, PackOf
  <1>5. e \in Rebuilt \/ e \in W
    BY <1>4 DEF Due
  <1>6. QED
    BY <1>3, <1>4, <1>5 DEF Steady

LEMMA CursorContentKept ==
  ASSUME ReaderInv, Steady, CursorContent, cursor' = cursor
  PROVE  CursorContent'
  <1>1. cursor \in Int /\ (cursor = NoCursor \/ cursor <= head - ReaderWindow)
    BY FillFacts DEF CursorInv, NoCursor
  <1>2. PICK c : c = cursor
    OBVIOUS
  <1>3. c \in Int /\ (c = NoCursor \/ c <= head - ReaderWindow) /\ Due(c) \subseteq Rebuilt \cup {}
    BY <1>1, <1>2 DEF CursorContent
  <1>4. \A e \in BatchId : Registered(e, c)' => e \in Rebuilt'
    BY <1>3, DueKept
  <1>5. QED
    BY <1>2, <1>4 DEF CursorContent, Due, Registered, Mined, PackOf

LEMMA TailContentKept ==
  ASSUME ReaderInv, Steady, TailContent, tail' = tail
  PROVE  TailContent'
  <1> SUFFICES ASSUME tail.pc = "work"
               PROVE  Due(tail.to)' \subseteq Rebuilt' \cup Awaited(tail.todo)' \cup Parked'
    BY DEF TailContent
  <1>1. PICK c : c = tail.to
    OBVIOUS
  <1>2. PICK W : W = Awaited(tail.todo) \cup Parked
    OBVIOUS
  <1>3. c \in Int /\ c <= head - ReaderWindow /\ Due(c) \subseteq Rebuilt \cup W
    BY <1>1, <1>2, TypeFacts DEF ReaderInv, TailInv, TailContent
  <1>4. \A e \in BatchId : Registered(e, c)' =>
           (e \in Rebuilt' \/ e \in W) /\ chain'[e[1]] = chain[e[1]]
    BY <1>3, DueKept
  <1>5. ASSUME NEW e \in BatchId, Registered(e, tail.to)'
        PROVE  e \in Rebuilt' \/ e \in Awaited(tail.todo)' \/ e \in Parked'
    <2>1. Registered(e, c)'
      BY <1>1, <1>5 DEF Registered, Mined, PackOf
    <2>2. (e \in Rebuilt' \/ e \in W) /\ chain'[e[1]] = chain[e[1]]
      BY <1>4, <2>1
    <2>3. e \in Awaited(tail.todo) => e \in Awaited(tail.todo)'
      BY DEF Awaited
    <2>4. e \in Parked => e \in Parked'
      BY <2>2 DEF Parked
    <2>5. QED
      BY <1>2, <2>2, <2>3, <2>4
  <1>6. QED
    BY <1>5 DEF Due

LEMMA FillContentKept ==
  ASSUME ReaderInv, Steady, FillContent, fill' = fill
  PROVE  FillContent'
  <1>1. /\ FillInv /\ fill.from \in Nat /\ fill.to \in Nat /\ fill.upto \in Nat
        /\ head \in Nat /\ ReaderWindow \in Nat
    BY FillFacts
  <1>2. ASSUME fill.pc = "scan"
        PROVE  Due(fill.from - 1)' \subseteq Rebuilt'
    <2>1. PICK c : c = fill.from - 1
      OBVIOUS
    <2>2. c \in Int /\ c <= head - ReaderWindow /\ Due(c) \subseteq Rebuilt \cup {}
      BY <1>1, <1>2, <2>1 DEF FillInv, FillContent
    <2>3. \A e \in BatchId : Registered(e, c)' => e \in Rebuilt'
      BY <2>2, DueKept
    <2>4. QED
      BY <2>1, <2>3 DEF Due, Registered, Mined, PackOf
  <1>3. ASSUME fill.pc = "work"
        PROVE  Due(fill.upto)' \subseteq Rebuilt' \cup Awaited(fill.todo)'
    <2>1. PICK c : c = fill.upto
      OBVIOUS
    <2>2. PICK W : W = Awaited(fill.todo)
      OBVIOUS
    <2>3. c \in Int /\ c <= head - ReaderWindow /\ Due(c) \subseteq Rebuilt \cup W
      BY <1>1, <1>3, <2>1, <2>2 DEF FillInv, FillContent
    <2>4. \A e \in BatchId : Registered(e, c)' => e \in Rebuilt' \/ e \in W
      BY <2>3, DueKept
    <2>5. Awaited(fill.todo)' = Awaited(fill.todo)
      BY DEF Awaited
    <2>6. QED
      BY <2>1, <2>2, <2>4, <2>5 DEF Due, Registered, Mined, PackOf
  <1>4. QED
    BY <1>2, <1>3 DEF FillContent

LEMMA ObservedRebuilt ==
  ASSUME StoreTypeOK, L1TypeOK, SnapshotsWithin, NEW ev \in Event,
         Observe(ev, PackOf(ev.id)), chain' = chain
  PROVE  ev.id \in Rebuilt'
  <1>1. /\ batches \in BatchTable /\ messages \in MessageTable /\ ev.id \in BatchId
        /\ PackOf(ev.id) \in SUBSET Entry /\ PackOf(ev.id)' = PackOf(ev.id)
    BY PackOfType DEF StoreTypeOK, BatchTable, MessageTable, Event, PackOf
  <1>2. batches'[ev.id].snapshot =
          IF PackOf(ev.id) = {} THEN batches[ev.id].snapshot ELSE PackOf(ev.id)
    BY <1>1, ObservedSnapshot DEF Observe
  <1>3. batches[ev.id].snapshot \subseteq PackOf(ev.id)
    BY <1>1 DEF SnapshotsWithin
  <1>4. batches'[ev.id].snapshot = PackOf(ev.id)
    BY <1>2, <1>3
  <1>5. \A m \in PackOf(ev.id) : messages'[m.key].status # "absent"
    BY <1>1, ObservedRows DEF Observe
  <1>6. QED
    BY <1>1, <1>4, <1>5 DEF Rebuilt

LEMMA DueBelow ==
  ASSUME L1TypeOK, NEW c \in Int, NEW d \in Int, d <= c, NEW S, Due(c) \subseteq S
  PROVE  Due(d) \subseteq S
  BY BlockType DEF Due, Registered

\* Nothing is due below the first block.
LEMMA NothingDue ==
  ASSUME L1TypeOK, NEW c \in Int, c < StartBlock
  PROVE  Due(c) = {}
  BY BlockType DEF Due, Registered

LEMMA BeforeFromContent ==
  ASSUME ReaderTypeOK, NEW S, Due(cursor) \subseteq S
  PROVE  From \in Nat /\ Due(From - 1) \subseteq S
  <1> USE ReaderAssumption
  <1>1. CASE cursor = NoCursor
    <2>1. From = StartBlock /\ From - 1 \in Int /\ From - 1 < StartBlock
      BY <1>1, TypeFacts DEF From
    <2>2. Due(From - 1) = {}
      BY <2>1, NothingDue, TypeFacts
    <2>3. QED
      BY <2>1, <2>2, TypeFacts
  <1>2. CASE cursor # NoCursor
    <2>1. From = cursor + 1 /\ cursor \in Nat /\ From - 1 = cursor
      BY <1>2, TypeFacts DEF From
    <2>2. QED
      BY <2>1
  <1>3. QED
    BY <1>1, <1>2

LEMMA ScanContent ==
  ASSUME L1TypeOK, NEW from \in Nat, NEW to \in Int,
         NEW S, Due(from - 1) \subseteq S
  PROVE  Due(to) \subseteq S \cup Awaited(Logs(from, to))
  <1> SUFFICES ASSUME NEW e \in BatchId, Registered(e, to)
               PROVE  e \in S \cup Awaited(Logs(from, to))
    BY DEF Due
  <1>1. CASE chain[e[1]].block <= from - 1
    BY <1>1 DEF Due, Registered
  <1>2. CASE ~(chain[e[1]].block <= from - 1)
    <2> DEFINE ev == [id |-> e, block |-> chain[e[1]].block]
    <2>1. chain[e[1]].block \in from .. to
      BY <1>2, BlockType DEF Registered
    <2>2. ev \in Logs(from, to)
      BY <2>1 DEF Logs, Registered
    <2>3. ev.id = e
      OBVIOUS
    <2> HIDE DEF ev
    <2>4. QED
      BY <2>2, <2>3 DEF Awaited
  <1>3. QED
    BY <1>1, <1>2

LEMMA BlockContent ==
  ASSUME L1TypeOK, NEW c \in Int, NEW todo, todo \subseteq Event, NEW at \in Nat,
         TodoOK(todo, at, c), BlockDone(todo, at),
         NEW S, Due(c) \subseteq S \cup Awaited(todo)
  PROVE  Due(at) \subseteq S
  <1> SUFFICES ASSUME NEW e \in BatchId, Registered(e, at)
               PROVE  e \in S
    BY DEF Due
  <1>1. chain[e[1]].block \in Nat /\ chain[e[1]].block <= at /\ at <= c
    BY BlockType DEF Registered, TodoOK
  <1>2. Registered(e, c)
    BY <1>1 DEF Registered
  <1>3. \A ev \in todo : ev.id # e
    BY <1>1 DEF TodoOK, BlockDone
  <1>4. QED
    BY <1>2, <1>3 DEF Due, Awaited

\* Steps that write no row: the same events are due, the same are rebuilt.
LEMMA QuietContent ==
  ASSUME UNCHANGED <<storeVars, l1Vars>>
  PROVE  Rebuilt' = Rebuilt /\ \A c : Due(c)' = Due(c)
  BY DEF Rebuilt, Due, Registered, Mined, PackOf, storeVars, l1Vars

\* The cursor moves to a block all of whose content is there.
LEMMA CursorMoves ==
  ASSUME UNCHANGED <<storeVars, l1Vars>>, NEW c, Due(c) \subseteq Rebuilt, cursor' = c
  PROVE  CursorContent'
  BY DEF CursorContent, Rebuilt, Due, Registered, Mined, PackOf, storeVars, l1Vars

LEMMA TailScanContent ==
  ASSUME ReaderInv, Steady, Content, TailScan
  PROVE  Content'
  <1>1. CursorContent' /\ FillContent'
    BY CursorContentKept, FillContentKept DEF Content, TailScan
  <1>2. TailContent'
    <2>1. CASE From > tail.to
      BY <2>1 DEF TailScan, TailContent, NoTail
    <2>2. CASE ~(From > tail.to)
      <3>1. /\ tail \in TailTick /\ tail.to \in Int /\ L1TypeOK
            /\ From \in Nat /\ Due(From - 1) \subseteq Rebuilt
        BY BeforeFromContent, TypeFacts DEF ReaderInv, Content, CursorContent
      <3>2. Due(tail.to) \subseteq Rebuilt \cup Awaited(Logs(From, tail.to))
        BY <3>1, ScanContent
      <3>3. /\ UNCHANGED <<storeVars, l1Vars>>
            /\ tail'.to = tail.to /\ tail'.todo = Logs(From, tail.to)
        BY <2>2, <3>1 DEF TailScan, TailTick
      <3>4. Awaited(tail.todo)' = Awaited(Logs(From, tail.to))
        BY <3>3 DEF Awaited
      <3>5. QED
        BY <3>2, <3>3, <3>4
           DEF TailContent, Rebuilt, Due, Registered, Mined, PackOf, storeVars, l1Vars
    <2>3. QED
      BY <2>1, <2>2
  <1>3. QED
    BY <1>1, <1>2 DEF Content

LEMMA TailBatchContent ==
  ASSUME ReaderInv, SeenInv, Steady, Content, NEW ev \in tail.todo, TailBatch(ev),
         ~Happened(Dropping)'
  PROVE  Content'
  <1>1. /\ StoreTypeOK /\ L1TypeOK /\ ReaderTypeOK /\ SnapshotsWithin
        /\ tail \in TailTick /\ ev \in Event /\ tail.pc = "work"
        /\ tail.to \in Int /\ tail.to <= head - ReaderWindow
        /\ TodoOK(tail.todo, tail.at, tail.to) /\ chain' = chain
        /\ UNCHANGED <<cursor, fill>>
    BY TypeFacts DEF ReaderInv, SeenInv, TailInv, TailBatch, l1Vars
  <1>2. CursorContent' /\ FillContent'
    BY <1>1, CursorContentKept, FillContentKept DEF Content
  <1>3. PICK c : c = tail.to
    OBVIOUS
  <1>4. PICK W : W = Awaited(tail.todo) \cup Parked
    OBVIOUS
  <1>5. \A e \in BatchId : Registered(e, c)' => e \in Rebuilt' \/ e \in W
    <2>1. c \in Int /\ c <= head - ReaderWindow /\ Due(c) \subseteq Rebuilt \cup W
      BY <1>1, <1>3, <1>4 DEF Content, TailContent
    <2>2. QED
      BY <2>1, DueKept
  <1>6. \/ Observe(ev, PackOf(ev.id))
        \/ tail' = [tail EXCEPT !.todo = @ \ {ev}, !.at = ev.block, !.parked = TRUE]
    BY <1>1, FaultHappens DEF TailBatch, ObserveVerified, Dropping
  <1>7. /\ tail'.to = c /\ tail'.todo = tail.todo \ {ev} /\ tail'.at = ev.block
        /\ tail.parked => tail'.parked
        /\ tail' = [tail EXCEPT !.todo = @ \ {ev}, !.at = ev.block, !.parked = TRUE]
              => tail'.parked
    BY <1>1, <1>3 DEF TailBatch, TailTick
  <1>8. ASSUME NEW e \in BatchId, Registered(e, tail.to)'
        PROVE  e \in Rebuilt' \/ e \in Awaited(tail.todo)' \/ e \in Parked'
    <2>1. Registered(e, c)'
      BY <1>3, <1>7, <1>8 DEF Registered, Mined, PackOf
    <2>2. CASE e \in Parked
      <3>1. tail.parked /\ chain[e[1]].block = tail.at /\ tail.at # 0
        BY <1>1, <2>1, <2>2, BlockType DEF Parked, Registered
      <3>2. ev.block = tail.at
        BY <3>1 DEF TailBatch, NextEvent
      <3>3. QED
        BY <1>1, <1>7, <3>1, <3>2 DEF Parked
    <2>3. ASSUME NEW other \in tail.todo, other.id = e, other # ev
          PROVE  e \in Awaited(tail.todo)'
      BY <1>7, <2>3 DEF Awaited
    <2>4. CASE e = ev.id
      <3>1. CASE Observe(ev, PackOf(ev.id))
        BY <1>1, <2>4, <3>1, ObservedRebuilt
      <3>2. CASE tail' = [tail EXCEPT !.todo = @ \ {ev}, !.at = ev.block, !.parked = TRUE]
        <4>1. ev.block = chain'[e[1]].block
          BY <1>1, <2>4 DEF TodoOK
        <4>2. QED
          BY <1>7, <3>2, <4>1 DEF Parked
      <3>3. QED
        BY <1>6, <3>1, <3>2
    <2>5. QED
      BY <1>4, <1>5, <2>1, <2>2, <2>3, <2>4 DEF Awaited
  <1>9. TailContent'
    BY <1>8 DEF TailContent, Due
  <1>10. QED
    BY <1>2, <1>9 DEF Content

LEMMA TailBlockContent ==
  ASSUME ReaderInv, Steady, Content, TailBlock
  PROVE  Content'
  <1>1. /\ tail \in TailTick /\ tail.pc = "work" /\ L1TypeOK
        /\ tail.to \in Int /\ tail.at \in Nat /\ tail.todo \subseteq Event
        /\ TodoOK(tail.todo, tail.at, tail.to) /\ BlockDone(tail.todo, tail.at)
        /\ UNCHANGED <<storeVars, l1Vars, fill>>
        /\ Due(tail.to) \subseteq Rebuilt \cup Awaited(tail.todo) \cup Parked
    BY TypeFacts DEF ReaderInv, TailInv, TailBlock, Content, TailContent
  <1>2. FillContent'
    BY <1>1, FillContentKept DEF Content
  <1>3. CASE tail.parked
    <2>1. tail'.pc = "list" /\ cursor' = cursor
      BY <1>3, TailPcType DEF TailBlock
    <2>2. CursorContent' /\ TailContent'
      BY <2>1, CursorContentKept DEF Content, TailContent
    <2>3. QED
      BY <1>2, <2>2 DEF Content
  <1>4. CASE ~tail.parked
    <2>1. Due(tail.to) \subseteq Rebuilt \cup Awaited(tail.todo)
      BY <1>1, <1>4 DEF Parked
    <2>2. Due(tail.at) \subseteq Rebuilt
      BY <1>1, <2>1, BlockContent
    <2>3. /\ cursor' = tail.at /\ tail'.to = tail.to /\ tail'.todo = tail.todo
      BY <1>1, <1>4 DEF TailBlock, TailTick
    <2>4. CursorContent'
      BY <1>1, <2>2, <2>3, CursorMoves
    <2>5. Awaited(tail.todo)' = Awaited(tail.todo)
      BY <2>3 DEF Awaited
    <2>6. TailContent'
      BY <1>1, <2>1, <2>3, <2>5
         DEF TailContent, Rebuilt, Due, Registered, Mined, PackOf, storeVars, l1Vars
    <2>7. QED
      BY <1>2, <2>4, <2>6 DEF Content
  <1>5. QED
    BY <1>3, <1>4

LEMMA TailCatchUpContent ==
  ASSUME ReaderInv, Steady, Content, TailCatchUp
  PROVE  Content'
  <1>1. /\ tail.pc = "work" /\ L1TypeOK /\ tail.todo = {} /\ tail.at = 0
        /\ UNCHANGED <<storeVars, l1Vars, fill>>
        /\ Due(tail.to) \subseteq Rebuilt \cup Awaited(tail.todo) \cup Parked
        /\ tail' = [NoTail EXCEPT !.pc = "list"]
        /\ cursor' = IF tail.last < tail.to THEN tail.to ELSE cursor
    BY TypeFacts DEF ReaderInv, TailCatchUp, Content, TailContent
  <1>2. FillContent'
    BY <1>1, FillContentKept DEF Content
  <1>3. Due(tail.to) \subseteq Rebuilt
    BY <1>1, BlockType DEF Due, Registered, Awaited, Parked
  <1>4. CursorContent'
    BY <1>1, <1>3, CursorMoves DEF Content, CursorContent
  <1>5. TailContent'
    BY <1>1, TailPcType DEF TailContent
  <1>6. QED
    BY <1>2, <1>4, <1>5 DEF Content

LEMMA FillStartContent ==
  ASSUME SafeOperation, ReaderInv, Steady, Content, NEW from \in StartBlock .. head,
         NEW to \in StartBlock .. head, FillStart(from, to)
  PROVE  Content'
  <1>1. /\ from \in Nat /\ from <= From
        /\ UNCHANGED <<storeVars, l1Vars, cursor, tail>>
        /\ fill' = [NoFill EXCEPT !.pc = "scan", !.from = from, !.to = to]
    BY FillFacts DEF FillStart, SafeOperation
  <1>2. CursorContent' /\ TailContent'
    BY <1>1, CursorContentKept, TailContentKept DEF Content
  <1>3. Due(from - 1) \subseteq Rebuilt
    <2>1. From \in Nat /\ Due(From - 1) \subseteq Rebuilt /\ L1TypeOK
      BY BeforeFromContent, FillFacts DEF ReaderInv, Content, CursorContent
    <2>2. From - 1 \in Int /\ from - 1 \in Int /\ from - 1 <= From - 1
      BY <1>1, <2>1
    <2>3. QED
      BY <2>1, <2>2, DueBelow
  <1>4. fill'.pc = "scan" /\ fill'.from = from
    BY <1>1 DEF NoFill
  <1>5. FillContent'
    BY <1>1, <1>3, <1>4
       DEF FillContent, Rebuilt, Due, Registered, Mined, PackOf, storeVars, l1Vars
  <1>6. QED
    BY <1>2, <1>5 DEF Content

LEMMA FillScanContent ==
  ASSUME ReaderInv, Steady, Content, FillScan
  PROVE  Content'
  <1> DEFINE end == fill.from + ChunkSize - 1
             upto == IF end < fill.to THEN end ELSE fill.to
             logs == Logs(fill.from, upto)
  <1>1. /\ UNCHANGED <<storeVars, l1Vars, cursor, tail>>
        /\ Due(fill.from - 1) \subseteq Rebuilt /\ L1TypeOK
        /\ fill' = [fill EXCEPT !.pc = "work", !.upto = upto, !.last = 0, !.todo = logs]
    BY FillFacts DEF FillScan, Content, FillContent
  <1>2. CursorContent' /\ TailContent'
    BY <1>1, CursorContentKept, TailContentKept DEF Content
  <1>3. upto \in Int
    BY FillFacts
  <1> HIDE DEF upto
  <1>4. Due(upto) \subseteq Rebuilt \cup Awaited(logs)
    BY <1>1, <1>3, FillFacts, ScanContent
  <1> HIDE DEF logs
  <1>5. fill'.pc = "work" /\ fill'.upto = upto /\ fill'.todo = logs
    BY <1>1, FillFacts DEF FillRun
  <1>6. Awaited(fill.todo)' = Awaited(logs)
    BY <1>5 DEF Awaited
  <1>7. FillContent'
    BY <1>1, <1>4, <1>5, <1>6
       DEF FillContent, Rebuilt, Due, Registered, Mined, PackOf, storeVars, l1Vars
  <1>8. QED
    BY <1>2, <1>7 DEF Content

LEMMA FillBatchContent ==
  ASSUME ReaderInv, SeenInv, Steady, Content, NEW ev \in fill.todo, FillBatch(ev),
         ~Happened(Dropping)'
  PROVE  Content'
  <1>1. /\ StoreTypeOK /\ L1TypeOK /\ ReaderTypeOK /\ SnapshotsWithin
        /\ fill \in FillRun /\ ev \in Event /\ fill.pc = "work"
        /\ fill.upto \in Int /\ fill.upto <= head - ReaderWindow
        /\ chain' = chain /\ UNCHANGED <<cursor, tail>>
    BY FillFacts DEF ReaderInv, SeenInv, FillInv, FillBatch, l1Vars
  <1>2. CursorContent' /\ TailContent'
    BY <1>1, CursorContentKept, TailContentKept DEF Content
  <1>3. PICK c : c = fill.upto
    OBVIOUS
  <1>4. PICK W : W = Awaited(fill.todo)
    OBVIOUS
  <1>5. \A e \in BatchId : Registered(e, c)' => e \in Rebuilt' \/ e \in W
    <2>1. c \in Int /\ c <= head - ReaderWindow /\ Due(c) \subseteq Rebuilt \cup W
      BY <1>1, <1>3, <1>4 DEF Content, FillContent
    <2>2. QED
      BY <2>1, DueKept
  <1>6. Observe(ev, PackOf(ev.id))
    BY <1>1, FaultHappens DEF FillBatch, ObserveVerified, Dropping
  <1>7. ev.id \in Rebuilt'
    BY <1>1, <1>6, ObservedRebuilt
  <1>8. fill'.pc = "work" /\ fill'.upto = c /\ fill'.todo = fill.todo \ {ev}
    BY <1>1, <1>3 DEF FillBatch, FillRun
  <1>9. ASSUME NEW e \in BatchId, Registered(e, fill.upto)'
        PROVE  e \in Rebuilt' \/ e \in Awaited(fill.todo)'
    <2>1. Registered(e, c)'
      BY <1>3, <1>8, <1>9 DEF Registered, Mined, PackOf
    <2>2. ASSUME NEW other \in fill.todo, other.id = e
          PROVE  e = ev.id \/ e \in Awaited(fill.todo)'
      BY <1>8, <2>2 DEF Awaited
    <2>3. QED
      BY <1>4, <1>5, <1>7, <2>1, <2>2 DEF Awaited
  <1>10. FillContent'
    BY <1>8, <1>9 DEF FillContent, Due
  <1>11. QED
    BY <1>2, <1>10 DEF Content

LEMMA FillBlockContent ==
  ASSUME ReaderInv, Steady, Content, FillBlock
  PROVE  Content'
  <1>1. /\ fill.pc = "work" /\ fill.at \in Nat /\ fill.upto \in Nat
        /\ TodoOK(fill.todo, fill.at, fill.upto) /\ BlockDone(fill.todo, fill.at)
        /\ UNCHANGED <<storeVars, l1Vars, tail>> /\ cursor' = fill.at
        /\ Due(fill.upto) \subseteq Rebuilt \cup Awaited(fill.todo)
        /\ fill.todo \subseteq Event /\ L1TypeOK
    BY FillFacts DEF FillInv, FillBlock, Content, FillContent
  <1>2. TailContent'
    BY <1>1, TailContentKept DEF Content
  <1>3. Due(fill.at) \subseteq Rebuilt
    <2>1. fill.upto \in Int /\ L1TypeOK /\ fill.todo \subseteq Event /\ fill.at \in Nat
      BY <1>1
    <2>2. \A S : Due(fill.upto) \subseteq S \cup Awaited(fill.todo) => Due(fill.at) \subseteq S
      BY <1>1, <2>1, BlockContent
    <2>3. QED
      BY <1>1, <2>2
  <1>4. CursorContent'
    BY <1>1, <1>3, CursorMoves
  <1>5. fill'.pc = "work" /\ fill'.upto = fill.upto /\ fill'.todo = fill.todo
    BY <1>1, FillFacts DEF FillBlock, FillRun
  <1>6. Awaited(fill.todo)' = Awaited(fill.todo)
    BY <1>5 DEF Awaited
  <1>7. FillContent'
    BY <1>1, <1>5, <1>6
       DEF FillContent, Rebuilt, Due, Registered, Mined, PackOf, storeVars, l1Vars
  <1>8. QED
    BY <1>2, <1>4, <1>7 DEF Content

LEMMA FillChunkContent ==
  ASSUME ReaderInv, Steady, Content, FillChunk
  PROVE  Content'
  <1>1. /\ fill.pc = "work" /\ fill.todo = {} /\ fill.upto \in Nat
        /\ UNCHANGED <<storeVars, l1Vars, tail>>
        /\ cursor' = IF fill.last < fill.upto THEN fill.upto ELSE cursor
        /\ fill' = IF fill.upto = fill.to THEN NoFill
                   ELSE [fill EXCEPT !.pc = "scan", !.from = fill.upto + 1]
        /\ Due(fill.upto) \subseteq Rebuilt
    BY FillFacts DEF FillChunk, Content, FillContent, Awaited
  <1>2. TailContent'
    BY <1>1, TailContentKept DEF Content
  <1>3. CursorContent'
    BY <1>1, CursorMoves DEF Content, CursorContent
  <1>4. FillContent'
    <2>1. CASE fill.upto = fill.to
      BY <1>1, <2>1 DEF FillContent, NoFill
    <2>2. CASE fill.upto # fill.to
      <3>1. fill'.pc = "scan" /\ fill'.from = fill.upto + 1
        BY <1>1, <2>2, FillFacts DEF FillRun
      <3>2. fill'.from - 1 = fill.upto
        BY <1>1, <3>1
      <3>3. QED
        BY <1>1, <3>1, <3>2
           DEF FillContent, Rebuilt, Due, Registered, Mined, PackOf, storeVars, l1Vars
    <2>3. QED
      BY <2>1, <2>2
  <1>5. QED
    BY <1>2, <1>3, <1>4 DEF Content

\* The table is emptied, with no process at work and the cursor dropped.
LEMMA ResetAllContent ==
  ASSUME SafeOperation, ReaderInv, ResetAll
  PROVE  Content'
  <1>1. /\ tail'.pc = "idle" /\ fill'.pc = "idle" /\ cursor' = NoCursor
        /\ UNCHANGED l1Vars
    BY DEF ResetAll, SafeOperation, Idle
  <1>2. \A e \in BatchId : chain'[e[1]].block \in Nat /\ StartBlock \in Nat \ {0}
    BY <1>1, BlockType, FillFacts DEF l1Vars
  <1>3. CursorContent'
    BY <1>1, <1>2 DEF CursorContent, Due, Registered, NoCursor
  <1>4. QED
    BY <1>1, <1>3 DEF Content, TailContent, FillContent

LEMMA ContentStep ==
  ASSUME SafeOperation, ReaderInv, SeenInv, Steady, Content, ~Happened(Dropping)',
         [ReaderNext \/ ReaderEnvironment]_readerVars
  PROVE  Content'
  <1>1. ASSUME UNCHANGED <<cursor, tail, fill>>
        PROVE  Content'
    BY <1>1, CursorContentKept, TailContentKept, FillContentKept DEF Content
  <1>2. ASSUME UNCHANGED <<cursor, fill>>, tail'.pc # "work"
        PROVE  Content'
    BY <1>2, CursorContentKept, FillContentKept DEF Content, TailContent
  <1>3. NoTail.pc = "idle" /\ NoFill.pc = "idle"
    BY DEF NoTail, NoFill
  <1>4. CASE TailStart
    BY <1>2, <1>4 DEF TailStart, NoTail
  <1>5. CASE TailList
    BY <1>2, <1>5 DEF TailList, NoTail
  <1>6. CASE TailEnd \/ TailThrows
    BY <1>2, <1>3, <1>6 DEF TailEnd, TailThrows
  <1>7. ASSUME NEW e \in BatchId, TailKeep(e) \/ TailLost(e) \/ TailMark(e)
        PROVE  Content'
    <2>1. tail \in TailTick /\ tail.pc = "look"
      BY <1>7, TypeFacts DEF ReaderInv, TailKeep, TailLost, TailMark
    <2>2. UNCHANGED <<cursor, fill>> /\ tail'.pc = "look"
      BY <1>7, <2>1 DEF TailKeep, TailLost, TailMark, TailTick
    <2>3. QED
      BY <1>2, <2>2
  <1>8. CASE FillThrows
    <2>1. UNCHANGED <<cursor, tail>> /\ fill' = NoFill
      BY <1>8 DEF FillThrows
    <2>2. QED
      BY <1>3, <2>1, CursorContentKept, TailContentKept DEF Content, FillContent
  <1>9. CASE ResetCursor
    <2>1. UNCHANGED <<storeVars, l1Vars, tail, fill>> /\ cursor' = NoCursor
      BY <1>9 DEF ResetCursor
    <2>2. Due(NoCursor) = {}
      BY NothingDue, FillFacts DEF NoCursor
    <2>3. QED
      BY <2>1, <2>2, CursorMoves, TailContentKept, FillContentKept DEF Content
  <1>10. CASE ReaderCrash
    <2>1. UNCHANGED cursor /\ tail' = NoTail /\ fill' = NoFill
      BY <1>10 DEF ReaderCrash
    <2>2. QED
      BY <1>3, <2>1, CursorContentKept DEF Content, TailContent, FillContent
  <1>11. CASE ReaderEnvironment
    BY <1>1, <1>11 DEF ReaderEnvironment, Announce, PosterRecords, readerProcVars
  <1>12. CASE UNCHANGED readerVars
    BY <1>1, <1>12 DEF readerVars, readerProcVars
  <1>13. CASE LiveTail
    BY <1>4, <1>5, <1>6, <1>7, <1>13, TailScanContent, TailBatchContent, TailBlockContent,
       TailCatchUpContent
       DEF LiveTail
  <1>14. CASE Backfill
    BY <1>14, FillStartContent, FillScanContent, FillBatchContent, FillBlockContent,
       FillChunkContent
       DEF Backfill
  <1>15. QED
    BY <1>6, <1>8, <1>9, <1>10, <1>11, <1>12, <1>13, <1>14, ResetAllContent
       DEF ReaderNext

LEMMA ContentInvStep ==
  ASSUME SafeOperation, ContentInv, [ReaderNext \/ ReaderEnvironment]_readerVars
  PROVE  ContentInv'
  <1>1. /\ ReaderInv /\ ReaderInv' /\ SeenInv /\ SeenInv' /\ Effect
        /\ ReaderTypeOK /\ ReaderTypeOK' /\ FinalKept
    BY ReaderInvStep, SeenStep, EveryEffect, StepFinal, TypeFacts
       DEF ContentInv, SeenInv
  <1>2. CASE Happened(Dropping)'
    BY <1>1, <1>2 DEF ContentInv
  <1>3. CASE ~Happened(Dropping)'
    <2>1. Content
      BY <1>1, <1>3, HappenedStays DEF ContentInv, Effect
    <2>2. Rebuilds \/ Marks \/ ResetAll
      BY <1>1, <1>3 DEF Effect, Happened, Dropping
    <2>3. CASE Rebuilds \/ Marks
      <3>1. Steady
        BY <1>1, <2>3, StepSteady DEF Effect
      <3>2. QED
        BY <1>1, <1>3, <2>1, <3>1, ContentStep DEF ContentInv
    <2>4. CASE ResetAll
      BY <1>1, <2>4, ResetAllContent DEF ContentInv
    <2>5. QED
      BY <2>2, <2>3, <2>4
  <1>4. QED
    BY <1>2, <1>3

LEMMA ContentInvInit ==
  ASSUME ReaderInit
  PROVE  ContentInv
  <1>1. ReaderInv /\ SeenInv
    BY ReaderInvInit, SeenInit
  <1>2. cursor = NoCursor /\ tail.pc = "idle" /\ fill.pc = "idle"
    BY DEF ReaderInit, ReaderProcInit, NoTail, NoFill
  <1>3. Due(NoCursor) = {}
    BY <1>1, NothingDue, FillFacts DEF NoCursor
  <1>4. QED
    BY <1>1, <1>2, <1>3
       DEF ContentInv, Content, CursorContent, TailContent, FillContent

LEMMA ContentIsComplete ==
  ASSUME ContentInv
  PROVE  MessagesComplete
  <1> SUFFICES ASSUME Due(cursor) \subseteq Rebuilt, NEW ev \in Logs(StartBlock, cursor)
               PROVE  ev.id \in Rebuilt
    BY DEF ContentInv, Content, CursorContent, MessagesComplete, Rebuilt
  <1>1. PICK e \in BatchId : /\ Mined(e[1]) /\ chain[e[1]].ok /\ PackOf(e) # {}
                             /\ chain[e[1]].block \in StartBlock .. cursor
                             /\ ev = [id |-> e, block |-> chain[e[1]].block]
    BY DEF Logs
  <1>2. Registered(e, cursor)
    BY <1>1, FillFacts, BlockType DEF ContentInv, Registered, NoCursor
  <1>3. QED
    BY <1>1, <1>2 DEF Due

\* Below the cursor every batch has its whole snapshot and every message of it
\* a row, unless a decoder, a verification or a backfill's blob failed: an
\* unreachable blob in the live tail only holds the cursor back.
THEOREM ContentBelowCursor == ASSUME SafeOperation
                              PROVE  ReaderSpec => []MessagesComplete
  <1>1. ReaderInit => ContentInv
    BY ContentInvInit
  <1>2. ContentInv /\ [ReaderNext \/ ReaderEnvironment]_readerVars => ContentInv'
    BY ContentInvStep
  <1>3. ContentInv => MessagesComplete
    BY ContentIsComplete
  <1>4. QED
    BY <1>1, <1>2, <1>3, PTL DEF ReaderSpec
=============================================================================
