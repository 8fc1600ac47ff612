---------------------------- MODULE SystemProofs ----------------------------
(***************************************************************************)
(* The theorem of the deployment: a Poster and a Reader on one store, with *)
(* another Poster on the same contract, for any number of authors, tags,   *)
(* transactions, forks and faults.  What holds of one writer alone need    *)
(* not hold of two: the nonce tracker no longer bounds the rows, as the    *)
(* Reader writes rows no client sent to this Poster, and a batch may have  *)
(* a row before the tick that sent it commits.  The invariant below is     *)
(* what is left, and it is enough for OneStory.                            *)
(***************************************************************************)
EXTENDS BamSystem, PosterProofs, ReaderProofs

-----------------------------------------------------------------------------
(* Types: every step of the system is a step of the Poster, or one of the  *)
(* Reader or its environment.                                              *)

SystemTypeOK == TypeOK /\ ReaderProcTypeOK

\* A step that is not the Poster's.
ReadersSide == (Serve \/ OtherPoster \/ ChainStep) /\ UNCHANGED posterProcVars

LEMMA StepSides ==
  ASSUME [SystemNext]_systemVars
  PROVE  \/ PosterStep
         \/ ReadersSide /\ (ReaderNext \/ ReaderEnvironment)
         \/ UNCHANGED systemVars
  BY DEF SystemNext, ReadersSide, Serve, OtherPoster, ChainStep, ReaderNext, ReaderEnvironment

LEMMA SystemTypeStep ==
  ASSUME SystemTypeOK, [SystemNext]_systemVars
  PROVE  SystemTypeOK'
  <1>1. CASE PosterStep
    <2>1. TypeOK'
      BY <1>1, TypeStep DEF SystemTypeOK, PosterStep, Next
    <2>2. ReaderProcTypeOK'
      BY <1>1 DEF SystemTypeOK, PosterStep, ReaderProcTypeOK, readerProcVars
    <2>3. QED
      BY <2>1, <2>2 DEF SystemTypeOK
  <1>2. CASE (ReadersSide /\ (ReaderNext \/ ReaderEnvironment)) \/ UNCHANGED systemVars
    <2>1. ReaderTypeOK
      BY DEF SystemTypeOK, ReaderTypeOK, TypeOK
    <2>2. ReaderTypeOK'
      BY <1>2, <2>1, ReaderTypeStep DEF systemVars, readerVars
    <2>3. PosterProcTypeOK'
      BY <1>2 DEF ReadersSide, systemVars, posterProcVars, SystemTypeOK, TypeOK,
         PosterProcTypeOK, AggTypeOK
    <2>4. QED
      BY <2>2, <2>3 DEF SystemTypeOK, ReaderTypeOK, TypeOK
  <1>3. QED
    BY <1>1, <1>2, StepSides

LEMMA SystemTypeFacts ==
  ASSUME SystemTypeOK
  PROVE  /\ TypeOK /\ ReaderTypeOK /\ StoreTypeOK /\ L1TypeOK
         /\ chain \in [Tx -> ChainTx] /\ batches \in BatchTable /\ messages \in MessageTable
         /\ \A g \in Tickers : /\ agg[g] \in Tick /\ agg[g].pack \in SUBSET Entry
                               /\ Waiting(g) => agg[g].tx \in Tx
  BY DEF SystemTypeOK, TypeOK, ReaderTypeOK, L1TypeOK, StoreTypeOK, PosterProcTypeOK,
     AggTypeOK, Waiting, Tick, BatchTable, MessageTable

-----------------------------------------------------------------------------
(* What transactions carry *)

\* No pack holds two messages with the same key under one tag.
OneEach(pack) ==
    \A m, n \in pack : m.key = n.key /\ TagOfEntry(m) = TagOfEntry(n) => m = n

PacksOnce ==
    /\ \A t \in Tx : OneEach(chain[t].pack)
    /\ \A g \in Tickers : OneEach(agg[g].pack)

\* A tick that has sent its transaction holds the pack the transaction carries.
SentPacks ==
    \A g \in Tickers : Waiting(g) =>
        /\ chain[agg[g].tx].status # "unsent"
        /\ chain[agg[g].tx].pack = agg[g].pack

PacksInv == UnsentEmpty /\ PacksOnce /\ SentPacks

LEMMA EnteredPacks ==
  ASSUME L1TypeOK, UnsentEmpty, NEW t, NEW pack \in SUBSET Entry,
         NextTx(t), EnterMempool(t, pack)
  PROVE  /\ t \in Tx /\ chain[t].status = "unsent"
         /\ chain'[t].status = "mempool" /\ chain'[t].pack = pack
         /\ \A u \in Tx \ {t} : chain'[u] = chain[u]
         /\ PacksKept /\ UnsentEmpty'
  <1>1. t \in Tx /\ chain[t].status = "unsent" /\ chain \in [Tx -> ChainTx]
    BY DEF NextTx, L1TypeOK
  <1>2. /\ chain'[t].status = "mempool" /\ chain'[t].pack = pack
        /\ \A u \in Tx \ {t} : chain'[u] = chain[u]
    BY <1>1 DEF EnterMempool, NoChainTx
  <1>3. QED
    BY <1>1, <1>2 DEF PacksKept, UnsentEmpty

LEMMA SelectedOnce ==
  ASSUME NEW K \in SUBSET Key
  PROVE  OneEach({EntryOf(k) : k \in K})
  BY DEF OneEach, EntryOf

\* The chain of the Poster's steps: only a send, or a failed one, touches it.
LEMMA PosterChain ==
  ASSUME PosterNext
  PROVE  \/ \E g \in Tickers : TickSend(g)
         \/ \E g \in Tickers, permanent \in BOOLEAN : TickSendFails(g, permanent)
         \/ UNCHANGED l1Vars
  BY DEF PosterNext, Ingest, Aggregate, WatchReorgs, IngestAccept,
     IngestRetry, IngestReject, TickSelect, TickReceipt,
     TickCommit, TickCommitFails, TickReceiptFails, WatchList,
     WatchKeep, WatchLost, WatchReorg, WatchReorgFails, Crash

\* The ticks of the Poster's steps.
LEMMA PosterTicks ==
  ASSUME SystemTypeOK, PosterNext
  PROVE  \/ \E g \in Tickers : TickSend(g)
         \/ \A h \in Tickers :
              /\ \/ agg'[h] = agg[h] \/ agg'[h] = NoTick
                 \/ \E K \in SUBSET Key : /\ agg'[h].pc = "send"
                                          /\ agg'[h].pack = {EntryOf(k) : k \in K}
                 \/ /\ agg[h].pc = "receipt" /\ agg'[h].pc = "commit"
                    /\ agg'[h].tx = agg[h].tx /\ agg'[h].pack = agg[h].pack
                    /\ Mined(agg[h].tx)
  <1> DEFINE Good == \A h \in Tickers :
              /\ \/ agg'[h] = agg[h] \/ agg'[h] = NoTick
                 \/ \E K \in SUBSET Key : /\ agg'[h].pc = "send"
                                          /\ agg'[h].pack = {EntryOf(k) : k \in K}
                 \/ /\ agg[h].pc = "receipt" /\ agg'[h].pc = "commit"
                    /\ agg'[h].tx = agg[h].tx /\ agg'[h].pack = agg[h].pack
                    /\ Mined(agg[h].tx)
  <1>1. agg \in [Tickers -> Tick]
    BY DEF SystemTypeOK, TypeOK, PosterProcTypeOK, AggTypeOK
  <1>2. ASSUME NEW g \in Tickers, TickSelect(g)
        PROVE  Good
    <2>1. PICK K \in SUBSET {k \in Key : messages[k].status = "pending"} :
             agg' = [agg EXCEPT ![g] = [NoTick EXCEPT
                        !.pc = "send", !.pack = {EntryOf(k) : k \in K}]]
      BY <1>2 DEF TickSelect
    <2>2. \A h \in Tickers : h # g => agg'[h] = agg[h]
      BY <1>1, <2>1
    <2>3. agg'[g].pc = "send" /\ agg'[g].pack = {EntryOf(k) : k \in K}
      BY <1>1, <2>1 DEF NoTick
    <2>4. QED
      BY <2>2, <2>3
  <1>3. ASSUME NEW g \in Tickers, TickReceipt(g)
        PROVE  Good
    <2>1. agg[g].pc = "receipt" /\ Mined(agg[g].tx) /\ agg[g] \in Tick
      BY <1>1, <1>3 DEF TickReceipt
    <2>2. agg' = [agg EXCEPT ![g].pc = "commit", ![g].block = chain[agg[g].tx].block]
      BY <1>3 DEF TickReceipt
    <2>3. \A h \in Tickers : h # g => agg'[h] = agg[h]
      BY <1>1, <2>2
    <2>4. agg'[g].pc = "commit" /\ agg'[g].tx = agg[g].tx /\ agg'[g].pack = agg[g].pack
      BY <1>1, <2>1, <2>2 DEF Tick
    <2>5. QED
      BY <2>1, <2>3, <2>4
  <1>4. ASSUME NEW g \in Tickers,
               \/ TickCommit(g) \/ TickCommitFails(g)
               \/ \E permanent \in BOOLEAN :
                     TickSendFails(g, permanent) \/ TickReceiptFails(g, permanent)
        PROVE  Good
    <2>1. agg' = [agg EXCEPT ![g] = NoTick]
      BY <1>4 DEF TickCommit, TickCommitFails, TickSendFails, TickReceiptFails, TickFailed
    <2>2. QED
      BY <1>1, <2>1
  <1>5. CASE Ingest \/ WatchReorgs
    <2>1. agg' = agg
      BY <1>5 DEF Ingest, IngestAccept, IngestRetry, IngestReject, WatchReorgs, WatchList,
         WatchKeep, WatchLost, WatchReorg, WatchReorgFails, posterProcVars
    <2>2. QED
      BY <2>1
  <1>6. CASE Crash
    BY <1>6 DEF Crash
  <1> HIDE DEF Good
  <1>7. CASE Aggregate
    <2>1. PICK g \in Tickers :
            \/ TickSelect(g) \/ TickSend(g) \/ TickReceipt(g)
            \/ TickCommit(g) \/ TickCommitFails(g)
            \/ \E permanent \in BOOLEAN :
                  TickSendFails(g, permanent) \/ TickReceiptFails(g, permanent)
      BY <1>7 DEF Aggregate
    <2>2. CASE TickSend(g)
      BY <2>2
    <2>3. CASE ~TickSend(g)
      BY <1>2, <1>3, <1>4, <2>1, <2>3 DEF Good
    <2>4. QED
      BY <2>2, <2>3
  <1>8. QED
    BY <1>5, <1>6, <1>7 DEF PosterNext, Good

LEMMA OnceEmpty == OneEach({})
  BY DEF OneEach

LEMMA PacksStep ==
  ASSUME SystemTypeOK, PacksInv, [SystemNext]_systemVars
  PROVE  PacksKept /\ PacksInv'
  <1>1. /\ L1TypeOK /\ UnsentEmpty /\ chain \in [Tx -> ChainTx]
        /\ \A t \in Tx : OneEach(chain[t].pack)
        /\ \A g \in Tickers : /\ OneEach(agg[g].pack) /\ agg[g] \in Tick
                              /\ agg[g].pack \in SUBSET Entry
                              /\ Waiting(g) => agg[g].tx \in Tx
    BY SystemTypeFacts DEF PacksInv, PacksOnce
  <1>2. ASSUME PacksKept, \A h \in Tickers : agg'[h] = agg[h] \/ agg'[h] = NoTick
        PROVE  SentPacks'
    <2> SUFFICES ASSUME NEW h \in Tickers, Waiting(h)'
                 PROVE  chain'[agg'[h].tx].status # "unsent" /\ chain'[agg'[h].tx].pack = agg'[h].pack
      BY DEF SentPacks
    <2>1. agg'[h] = agg[h] /\ Waiting(h) /\ agg[h].tx \in Tx
      BY <1>1, <1>2 DEF Waiting, NoTick
    <2>2. QED
      BY <1>2, <2>1 DEF PacksKept, PacksInv, SentPacks
  <1>3. ASSUME UNCHANGED agg, NEW t, NEW pack \in SUBSET Entry, OneEach(pack),
               NextTx(t), EnterMempool(t, pack)
        PROVE  PacksKept /\ PacksInv'
    <2>1. /\ chain'[t].pack = pack /\ \A u \in Tx \ {t} : chain'[u] = chain[u]
          /\ PacksKept /\ UnsentEmpty'
      BY <1>1, <1>3, EnteredPacks
    <2>2. \A u \in Tx : OneEach(chain'[u].pack)
      <3>1. ASSUME NEW u \in Tx
            PROVE  OneEach(chain'[u].pack)
        BY <1>1, <1>3, <2>1
      <3>2. QED
        BY <3>1
    <2>3. PacksOnce'
      BY <1>1, <1>3, <2>2 DEF PacksOnce, OneEach, TagOfEntry
    <2>4. QED
      BY <1>2, <1>3, <2>1, <2>3 DEF PacksInv
  <1>4. CASE PosterStep
    <2>1. CASE UNCHANGED l1Vars /\ ~ \E g \in Tickers : TickSend(g)
      <3>1. PacksKept /\ UnsentEmpty' /\ chain' = chain
        BY <1>1, <2>1, StillPacks DEF l1Vars
      <3>2. ASSUME NEW h \in Tickers
            PROVE  /\ OneEach(agg'[h].pack)
                   /\ Waiting(h)' => Waiting(h) /\ agg'[h].tx = agg[h].tx
                                     /\ agg'[h].pack = agg[h].pack
        <4>1. CASE agg'[h] = agg[h]
          BY <1>1, <4>1 DEF Waiting
        <4>2. CASE agg'[h] = NoTick
          BY <4>2, OnceEmpty DEF NoTick, Waiting
        <4>3. ASSUME NEW K \in SUBSET Key, agg'[h].pc = "send",
                     agg'[h].pack = {EntryOf(k) : k \in K}
              PROVE  OneEach(agg'[h].pack) /\ ~Waiting(h)'
          BY <4>3, SelectedOnce DEF Waiting
        <4>4. CASE /\ agg[h].pc = "receipt" /\ agg'[h].pc = "commit"
                   /\ agg'[h].tx = agg[h].tx /\ agg'[h].pack = agg[h].pack
          BY <1>1, <4>4 DEF Waiting
        <4>5. QED
          BY <1>4, <2>1, <4>1, <4>2, <4>3, <4>4, PosterTicks DEF PosterStep
      <3>3. PacksOnce'
        BY <1>1, <3>1, <3>2 DEF PacksOnce, OneEach, TagOfEntry
      <3>4. SentPacks'
        BY <1>1, <3>1, <3>2 DEF PacksInv, SentPacks
      <3>5. QED
        BY <3>1, <3>3, <3>4 DEF PacksInv
    <2>2. ASSUME NEW g \in Tickers, TickSend(g)
          PROVE  PacksKept /\ PacksInv'
      <3>1. PICK t \in Tx : /\ NextTx(t) /\ EnterMempool(t, agg[g].pack)
                            /\ agg' = [agg EXCEPT ![g].pc = "receipt", ![g].tx = t]
        BY <2>2 DEF TickSend
      <3>2. /\ chain'[t].status = "mempool" /\ chain'[t].pack = agg[g].pack
            /\ \A u \in Tx \ {t} : chain'[u] = chain[u]
            /\ PacksKept /\ UnsentEmpty'
        BY <1>1, <3>1, EnteredPacks
      <3>3. /\ agg'[g].pack = agg[g].pack /\ agg'[g].tx = t
            /\ \A h \in Tickers \ {g} : agg'[h] = agg[h]
        <4>1. agg \in [Tickers -> Tick] /\ agg[g] \in Tick
          BY <1>1 DEF SystemTypeOK, TypeOK, PosterProcTypeOK, AggTypeOK
        <4>2. QED
          BY <3>1, <4>1 DEF Tick
      <3>4. PacksOnce'
        <4>1. ASSUME NEW u \in Tx
              PROVE  OneEach(chain'[u].pack)
          BY <1>1, <3>2
        <4>2. ASSUME NEW h \in Tickers
              PROVE  OneEach(agg'[h].pack)
          BY <1>1, <3>3
        <4>3. QED
          BY <4>1, <4>2 DEF PacksOnce, OneEach, TagOfEntry
      <3>5. SentPacks'
        <4> SUFFICES ASSUME NEW h \in Tickers, Waiting(h)'
                     PROVE  /\ chain'[agg'[h].tx].status # "unsent"
                            /\ chain'[agg'[h].tx].pack = agg'[h].pack
          BY DEF SentPacks
        <4>1. CASE h = g
          BY <3>2, <3>3, <4>1
        <4>2. CASE h # g
          <5>1. agg'[h] = agg[h] /\ Waiting(h) /\ agg[h].tx \in Tx
            BY <1>1, <3>3, <4>2 DEF Waiting
          <5>2. QED
            BY <3>2, <5>1 DEF PacksKept, PacksInv, SentPacks
        <4>3. QED
          BY <4>1, <4>2
      <3>6. QED
        BY <3>2, <3>4, <3>5 DEF PacksInv
    <2>3. ASSUME NEW g \in Tickers, NEW permanent \in BOOLEAN, TickSendFails(g, permanent)
          PROVE  PacksKept /\ PacksInv'
      <3>1. \A h \in Tickers : agg'[h] = agg[h] \/ agg'[h] = NoTick
        BY <2>3 DEF TickSendFails, TickFailed, SystemTypeOK, TypeOK, PosterProcTypeOK, AggTypeOK
      <3>2. /\ PacksKept /\ UnsentEmpty'
            /\ \A u \in Tx : OneEach(chain'[u].pack)
        <4>1. CASE UNCHANGED chain
          BY <1>1, <4>1 DEF PacksKept, UnsentEmpty
        <4>2. ASSUME NEW t \in Tx, NextTx(t), EnterMempool(t, agg[g].pack)
              PROVE  /\ PacksKept /\ UnsentEmpty'
                     /\ \A u \in Tx : OneEach(chain'[u].pack)
          <5>1. /\ chain'[t].pack = agg[g].pack /\ \A u \in Tx \ {t} : chain'[u] = chain[u]
                /\ PacksKept /\ UnsentEmpty'
            BY <1>1, <4>2, EnteredPacks
          <5>2. ASSUME NEW u \in Tx
                PROVE  OneEach(chain'[u].pack)
            BY <1>1, <5>1
          <5>3. QED
            BY <5>1, <5>2
        <4>3. QED
          BY <2>3, <4>1, <4>2 DEF TickSendFails
      <3>3. ASSUME NEW h \in Tickers
            PROVE  OneEach(agg'[h].pack)
        BY <1>1, <3>1, OnceEmpty DEF NoTick
      <3>4. PacksOnce'
        BY <3>2, <3>3 DEF PacksOnce, OneEach, TagOfEntry
      <3>5. QED
        BY <1>2, <3>1, <3>2, <3>4 DEF PacksInv
    <2>4. QED
      BY <1>4, <2>1, <2>2, <2>3, PosterChain DEF PosterStep
  <1>5. CASE UNCHANGED <<chain, agg>>
    <2>1. PacksKept
      BY <1>5 DEF PacksKept
    <2>2. PacksInv'
      BY <1>5 DEF PacksInv, UnsentEmpty, PacksOnce, SentPacks, Waiting, OneEach, TagOfEntry
    <2>3. QED
      BY <2>1, <2>2
  <1>6. CASE Serve \/ UNCHANGED systemVars
    <2>1. UNCHANGED <<chain, agg>>
      BY <1>6 DEF Serve, LiveTail, TailStart, TailScan, TailBatch, TailBlock, TailCatchUp,
         TailList, TailEnd, TailKeep, TailLost, TailMark, TailThrows, ReaderCrash,
         systemVars, l1Vars, posterProcVars
    <2>2. QED
      BY <1>5, <2>1
  <1>7. CASE OtherPoster
    <2>1. PICK t \in Tx, pack \in AnnouncedPacks : Announce(t, pack)
      BY <1>7 DEF OtherPoster
    <2>2. pack \in SUBSET Entry /\ OneEach(pack)
      BY ReaderAssumption, PacksAssumption DEF OneEach
    <2>3. NextTx(t) /\ EnterMempool(t, pack) /\ UNCHANGED agg
      BY <1>7, <2>1 DEF Announce, OtherPoster, posterProcVars
    <2>4. QED
      BY <1>3, <2>2, <2>3
  <1>8. CASE ChainStep
    <2>1. /\ PacksKept /\ UnsentEmpty' /\ agg' = agg
          /\ \A t \in Tx : chain'[t].pack = chain[t].pack
      BY <1>1, <1>8, L1Packs DEF ChainStep, posterProcVars
    <2>2. PacksOnce'
      BY <1>1, <2>1 DEF PacksOnce, OneEach, TagOfEntry
    <2>3. QED
      BY <1>2, <2>1, <2>2 DEF PacksInv
  <1>9. QED
    BY <1>4, <1>6, <1>7, <1>8 DEF SystemNext

-----------------------------------------------------------------------------
(* The two tables agree (the Reader's SeenInv, with the Poster's steps)     *)

\* The Poster's commit, whoever wrote the rows before: the batches of the
\* transaction are confirmed and hold their whole packs, the others stay.
LEMMA CommitAnyBatches ==
  ASSUME SystemTypeOK, PacksInv, NEW g \in Tickers, TickCommit(g), NEW e \in BatchId
  PROVE  /\ agg[g].tx \in Tx /\ agg[g].pack = chain[agg[g].tx].pack
         /\ IF e \in {agg[g].tx} \X PackTags(agg[g].pack)
            THEN batches'[e].status = "confirmed" /\ batches'[e].snapshot = PackOf(e)
            ELSE /\ batches'[e].status = batches[e].status
                 /\ batches'[e].snapshot = batches[e].snapshot
  <1> DEFINE tick == agg[g]
             rows == ConfirmedBatches(tick.tx, tick.block, tick.pack)
             bs == UpsertBatch(batches, rows)
  <1>1. /\ tick.tx \in Tx /\ tick.block \in Nat /\ tick.pack \in SUBSET Entry
        /\ tick.pack = chain[tick.tx].pack /\ batches \in BatchTable
    BY SystemTypeFacts DEF Tick, TickCommit, Waiting, PacksInv, SentPacks
  <1>2. \A d \in DOMAIN rows :
           /\ rows[d] \in BatchRow /\ rows[d].status = "confirmed"
           /\ rows[d].snapshot = PackOf(d)
    BY <1>1, ConfirmedBatchesType DEF ConfirmedBatches, PackOf
  <1>3. DOMAIN rows = {tick.tx} \X PackTags(tick.pack)
    BY DEF ConfirmedBatches
  <1>4. batches' = LinkReplaced(bs, tick.tx, tick.block, tick.pack)
    BY DEF TickCommit
  <1>5. e \in DOMAIN rows => PackOf(e) # {}
    BY <1>1, <1>3 DEF PackTags, PackOf
  <1> HIDE DEF rows, tick
  <1>6. bs \in BatchTable
    BY <1>1, <1>2, UpsertBatchType
  <1>7. /\ e \notin DOMAIN rows => bs[e] = batches[e]
        /\ e \in DOMAIN rows => bs[e].status = "confirmed" /\ bs[e].snapshot = PackOf(e)
    BY <1>1, <1>2, <1>5, UpsertedSnapshot
  <1> HIDE DEF bs
  <1>8. /\ batches'[e].status = bs[e].status
        /\ batches'[e].snapshot = bs[e].snapshot
    <2>1. bs[e] \in BatchRow \cup {NoBatch} /\ DOMAIN bs = BatchId
      BY <1>6 DEF BatchTable
    <2>2. batches'[e] = bs[e] \/ batches'[e] = [bs[e] EXCEPT !.replacedBy = tick.tx]
      BY <1>4, <2>1 DEF LinkReplaced
    <2>3. QED
      BY <2>1, <2>2 DEF BatchRow, NoBatch
  <1>9. QED
    BY <1>1, <1>3, <1>7, <1>8 DEF tick

\* A commit rebuilds: it is for its transaction what the Reader's is for one
\* event.
LEMMA CommitRebuilds ==
  ASSUME SystemTypeOK, PacksInv, SnapshotsWithin, NEW g \in Tickers, TickCommit(g)
  PROVE  Rebuilds /\ \A e \in BatchId : batches'[e].snapshot \subseteq PackOf(e)
  <1>1. TypeOK /\ messages \in MessageTable
    BY SystemTypeFacts
  <1>2. ASSUME NEW e \in BatchId
        PROVE  /\ batches'[e].status \in {batches[e].status, "confirmed"}
               /\ batches[e].snapshot \subseteq batches'[e].snapshot
               /\ batches'[e].snapshot \subseteq PackOf(e)
    BY CommitAnyBatches DEF SnapshotsWithin
  <1>3. ASSUME NEW k \in Key, messages'[k] # messages[k]
        PROVE  BackedRow(k)' /\ messages'[k].status = "confirmed"
    <2>1. /\ messages'[k].status = "confirmed"
          /\ messages'[k].batchRef = agg[g].tx
          /\ messages'[k].body = messages[k].body
          /\ EntryOf(k) \in agg[g].pack
      BY <1>1, <1>3, CommitMessages
    <2> DEFINE m == [key |-> k, body |-> messages'[k].body]
               e == <<agg[g].tx, TagOf[messages'[k].body]>>
    <2>2. m \in agg[g].pack /\ TagOfEntry(m) = e[2]
      BY <2>1 DEF EntryOf, TagOfEntry
    <2>3. /\ agg[g].tx \in Tx /\ agg[g].pack \in SUBSET Entry
      BY SystemTypeFacts DEF TickCommit, Waiting
    <2>4. e[2] \in PackTags(agg[g].pack) /\ e[2] \in Tags /\ e[1] = agg[g].tx
      BY <2>2, <2>3, BamStoreAssumption DEF PackTags, TagOfEntry, Entry
    <2>5. e \in BatchId /\ e \in {agg[g].tx} \X PackTags(agg[g].pack)
      BY <2>3, <2>4 DEF BatchId
    <2>6. /\ batches'[e].status = "confirmed" /\ batches'[e].snapshot = PackOf(e)
          /\ agg[g].pack = chain[agg[g].tx].pack
      BY <2>5, CommitAnyBatches
    <2>7. m \in PackOf(e)
      BY <2>2, <2>6 DEF PackOf
    <2>8. QED
      BY <2>1, <2>3, <2>6, <2>7 DEF BackedRow
  <1>4. \A k \in Key : messages[k].status # "absent" => messages'[k].status # "absent"
    BY <1>3
  <1>5. QED
    BY <1>2, <1>3, <1>4 DEF Rebuilds

LEMMA SeenPoster ==
  ASSUME SystemTypeOK, SystemTypeOK', PacksInv, PacksInv', PacksKept, SeenInv, PosterStep
  PROVE  SeenInv'
  <1>1. /\ TypeOK /\ ReaderTypeOK /\ StoreTypeOK /\ SnapshotsWithin /\ UnsentEmpty
        /\ ReaderTypeOK' /\ UnsentEmpty' /\ rfaults' = rfaults
        /\ messages \in MessageTable /\ batches \in BatchTable
    BY SystemTypeFacts
       DEF SystemTypeOK, TypeOK, ReaderTypeOK, SeenInv, PacksInv, PosterStep, readerProcVars
  <1>2. Happened({"verify"})' <=> Happened({"verify"})
    BY <1>1 DEF Happened
  <1>3. /\ \A e \in BatchId : batches'[e].snapshot \subseteq PackOf(e) \cup batches[e].snapshot
        /\ AllBacked => AllBacked'
    <2>1. ASSUME NEW s \in Senders, NEW n \in 0 .. MaxNonce, NEW b \in Bodies,
                 IngestAccept(s, n, b)
          PROVE  /\ batches' = batches
                 /\ \A k \in Key : messages'[k].status = "confirmed" => messages'[k] = messages[k]
      BY <1>1, <2>1, AcceptedMessages DEF IngestAccept
    <2>2. ASSUME NEW e \in BatchId, WatchReorg(e)
          PROVE  /\ \A d \in BatchId : /\ batches'[d].snapshot = batches[d].snapshot
                                       /\ d[1] # e[1] => batches'[d] = batches[d]
                 /\ \A k \in Key : messages'[k].status = "confirmed" =>
                        messages'[k] = messages[k] /\ messages[k].batchRef # e[1]
      BY <1>1, <2>2, ReorgedMessages, ReorgedBatches
    <2>3. ASSUME NEW g \in Tickers, TickCommit(g)
          PROVE  /\ \A e \in BatchId : batches'[e].snapshot \subseteq PackOf(e)
                 /\ AllBacked => AllBacked'
      BY <1>1, <2>3, CommitRebuilds, RebuildsBacked
    <2>4. ASSUME batches' = batches,
                 \A k \in Key : messages'[k].status = "confirmed" => messages'[k] = messages[k]
          PROVE  /\ \A e \in BatchId : batches'[e].snapshot = batches[e].snapshot
                 /\ AllBacked => AllBacked'
      BY <2>4 DEF AllBacked, BackedRow
    <2>5. ASSUME NEW e \in BatchId, WatchReorg(e), AllBacked, NEW k \in Key,
                 messages'[k].status = "confirmed"
          PROVE  BackedRow(k)'
      <3>1. /\ messages'[k] = messages[k] /\ messages[k].batchRef # e[1]
            /\ BackedRow(k) /\ messages[k] \in MessageRow
        BY <1>1, <2>2, <2>5 DEF AllBacked, MessageTable, NoMessage
      <3> DEFINE d == <<messages[k].batchRef, TagOf[messages[k].body]>>
      <3>2. d \in BatchId /\ d[1] # e[1]
        BY <3>1, BamStoreAssumption DEF BackedRow, BatchId, MessageRow
      <3>3. batches'[d] = batches[d]
        BY <2>2, <2>5, <3>2
      <3>4. QED
        BY <3>1, <3>3 DEF BackedRow
    <2>6. ASSUME NEW e \in BatchId, WatchReorg(e)
          PROVE  AllBacked => AllBacked'
      BY <2>5, <2>6 DEF AllBacked
    <2>7. \/ \E s \in Senders, n \in 0 .. MaxNonce, b \in Bodies : IngestAccept(s, n, b)
          \/ \E g \in Tickers : TickCommit(g)
          \/ \E e \in BatchId : WatchReorg(e)
          \/ UNCHANGED <<messages, batches>>
      BY MessagesStep DEF PosterStep, Next
    <2>8. CASE UNCHANGED <<messages, batches>>
      BY <2>4, <2>8
    <2>9. CASE \E s \in Senders, n \in 0 .. MaxNonce, b \in Bodies : IngestAccept(s, n, b)
      BY <2>1, <2>4, <2>9
    <2>10. CASE \E e \in BatchId : WatchReorg(e)
      BY <2>2, <2>6, <2>10
    <2>11. QED
      BY <2>3, <2>7, <2>8, <2>9, <2>10
  <1>4. SnapshotsWithin'
    <2> SUFFICES ASSUME NEW e \in BatchId
                 PROVE  batches'[e].snapshot \subseteq PackOf(e)'
      BY DEF SnapshotsWithin
    <2>1. PackOf(e) \subseteq PackOf(e)'
      BY <1>1, PacksGrow
    <2>2. QED
      BY <1>1, <1>3, <2>1 DEF SnapshotsWithin
  <1>5. QED
    BY <1>1, <1>2, <1>3, <1>4 DEF SeenInv

LEMMA SystemSeenStep ==
  ASSUME SystemTypeOK, SystemTypeOK', PacksInv, PacksInv', PacksKept, SeenInv,
         [SystemNext]_systemVars
  PROVE  SeenInv' /\ FaultsGrow
  <1>1. CASE PosterStep
    BY <1>1, SeenPoster DEF PosterStep, readerProcVars, FaultsGrow
  <1>2. CASE ReadersSide /\ (ReaderNext \/ ReaderEnvironment)
    BY <1>2, SeenStep, EveryEffect DEF Effect
  <1>3. CASE UNCHANGED systemVars
    <2>1. UNCHANGED readerVars
      BY <1>3 DEF systemVars, readerVars
    <2>2. QED
      BY <2>1, SeenStep DEF readerVars, readerProcVars, FaultsGrow
  <1>4. QED
    BY <1>1, <1>2, <1>3, StepSides

-----------------------------------------------------------------------------
(* Accepted messages *)

\* No tracker bounds the rows here, but an acknowledged message is still below
\* its author's: that is what keeps an ingest from taking its place.
AckedBelow == \A m \in acked : m.key[2] <= nonces[m.key[1]].lastNonce

RowsInv == AckedDurable /\ TrackerBacked /\ AckedBelow

\* Rows stay, with their bodies.
RowsStay ==
    \A k \in Key : messages[k].status # "absent" =>
        messages'[k].status # "absent" /\ messages'[k].body = messages[k].body

LEMMA RowsStayed ==
  ASSUME SystemTypeOK, RowsInv, RowsStay, UNCHANGED <<nonces, acked>>
  PROVE  RowsInv'
  <1>1. /\ \A m \in acked : m.key \in Key
        /\ \A s \in Senders : nonces[s].lastNonce >= 0 => <<s, nonces[s].lastNonce>> \in Key
    BY DEF SystemTypeOK, TypeOK, StoreTypeOK, PosterProcTypeOK, Entry, NonceRow, Key
  <1>2. QED
    BY <1>1 DEF RowsInv, RowsStay, AckedDurable, TrackerBacked, AckedBelow

\* The tracker of an author without a row is the rows', or nothing.
LEMMA SeedRow ==
  ASSUME SystemTypeOK, RowsInv, NEW s \in Senders
  PROVE  /\ LastAccepted(s).lastNonce \in Int
         /\ nonces[s].lastNonce <= LastAccepted(s).lastNonce
         /\ LastAccepted(s).lastNonce >= 0 =>
               /\ messages[<<s, LastAccepted(s).lastNonce>>].status # "absent"
               /\ messages[<<s, LastAccepted(s).lastNonce>>].body = LastAccepted(s).lastBody
  <1>1. /\ TypeOK /\ LastAccepted(s) \in NonceRow /\ nonces[s] \in NonceRow
        /\ NoNonce.lastNonce = -1
    BY LastAcceptedRow DEF SystemTypeOK, TypeOK, StoreTypeOK, NoNonce
  <1>2. LastAccepted(s).lastNonce \in Int /\ -1 <= LastAccepted(s).lastNonce
    BY <1>1 DEF NonceRow
  <1>3. CASE nonces[s] # NoNonce
    <2>1. LastAccepted(s) = nonces[s]
      BY <1>1, <1>3, LastAcceptedRow
    <2>2. QED
      BY <1>1, <1>2, <2>1 DEF RowsInv, TrackerBacked
  <1>4. CASE nonces[s] = NoNonce
    BY <1>1, <1>2, <1>4, LastAcceptedRow
  <1>5. QED
    BY <1>3, <1>4

\* The three outcomes of an ingest write the tracker of one author.
LEMMA IngestRows ==
  ASSUME SystemTypeOK, RowsInv, Ingest
  PROVE  RowsInv'
  <1>1. /\ \A m \in acked : m.key \in Key /\ m.key[1] \in Senders
                            /\ m.key[2] \in 0 .. MaxNonce /\ m.key = <<m.key[1], m.key[2]>>
        /\ nonces \in [Senders -> NonceRow] /\ messages \in MessageTable
        /\ \A s \in Senders : nonces[s].lastNonce \in Int
    BY DEF SystemTypeOK, TypeOK, StoreTypeOK, PosterProcTypeOK, Entry, NonceRow, Key,
       MessageTable
  <1>2. ASSUME NEW s \in Senders, NEW row,
               nonces' = [nonces EXCEPT ![s] = row], row.lastNonce \in Int,
               nonces[s].lastNonce <= row.lastNonce,
               \A k \in Key : messages[k].status # "absent" /\ k[1] # s =>
                                 messages'[k] = messages[k],
               \A m \in acked : messages'[m.key] = messages[m.key],
               row.lastNonce >= 0 =>
                  /\ messages'[<<s, row.lastNonce>>].status # "absent"
                  /\ messages'[<<s, row.lastNonce>>].body = row.lastBody,
               \/ acked' = acked
               \/ row.lastNonce >= 0 /\ acked' = acked \cup
                     {[key |-> <<s, row.lastNonce>>, body |-> row.lastBody]}
        PROVE  RowsInv'
    <2>1. /\ nonces'[s] = row
          /\ \A r \in Senders : r # s => nonces'[r] = nonces[r]
      BY <1>1, <1>2
    <2>2. TrackerBacked'
      <3> SUFFICES ASSUME NEW r \in Senders, nonces'[r].lastNonce >= 0
                   PROVE  /\ messages'[<<r, nonces'[r].lastNonce>>].status # "absent"
                          /\ messages'[<<r, nonces'[r].lastNonce>>].body = nonces'[r].lastBody
        BY DEF TrackerBacked
      <3>1. CASE r = s
        BY <1>2, <2>1, <3>1
      <3>2. CASE r # s
        <4>1. <<r, nonces[r].lastNonce>> \in Key /\ nonces'[r] = nonces[r]
          BY <1>1, <2>1, <3>2 DEF Key, NonceRow
        <4>2. /\ messages[<<r, nonces[r].lastNonce>>].status # "absent"
              /\ messages[<<r, nonces[r].lastNonce>>].body = nonces[r].lastBody
          BY <4>1 DEF RowsInv, TrackerBacked
        <4>3. QED
          BY <1>2, <3>2, <4>1, <4>2
      <3>3. QED
        BY <3>1, <3>2
    <2>3. ASSUME NEW m \in acked
          PROVE  /\ messages'[m.key].status # "absent" /\ messages'[m.key].body = m.body
                 /\ m.key[2] <= nonces'[m.key[1]].lastNonce
      <3>1. /\ messages[m.key].status # "absent" /\ messages[m.key].body = m.body
            /\ m.key[2] <= nonces[m.key[1]].lastNonce
        BY DEF RowsInv, AckedDurable, AckedBelow
      <3>2. m.key[2] <= nonces'[m.key[1]].lastNonce
        BY <1>1, <1>2, <2>1, <3>1
      <3>3. QED
        BY <1>2, <3>1, <3>2
    <2>4. ASSUME NEW m, m = [key |-> <<s, row.lastNonce>>, body |-> row.lastBody],
                 row.lastNonce >= 0
          PROVE  /\ messages'[m.key].status # "absent" /\ messages'[m.key].body = m.body
                 /\ m.key[2] <= nonces'[m.key[1]].lastNonce
      BY <1>2, <2>1, <2>4
    <2>5. \A m \in acked' : m \in acked \/
             (row.lastNonce >= 0 /\ m = [key |-> <<s, row.lastNonce>>, body |-> row.lastBody])
      BY <1>2
    <2>6. AckedDurable' /\ AckedBelow'
      BY <2>3, <2>4, <2>5 DEF AckedDurable, AckedBelow
    <2>7. QED
      BY <2>2, <2>6 DEF RowsInv
  <1>3. ASSUME NEW s \in Senders, NEW n \in 0 .. MaxNonce, NEW b \in Bodies,
               IngestAccept(s, n, b)
        PROVE  RowsInv'
    <2> DEFINE row == [lastNonce |-> n, lastBody |-> b]
    <2>1. n > LastAccepted(s).lastNonce /\ n \in Nat /\ <<s, n>> \in Key
      BY <1>3 DEF IngestAccept, Key
    <2>2. /\ messages' = [messages EXCEPT ![<<s, n>>] =
                            [status |-> "pending", body |-> b, batchRef |-> NoTx,
                             ingestSeq |-> tagSeq[TagOf[b]] + 1]]
          /\ nonces' = [nonces EXCEPT ![s] = row]
          /\ acked' = acked \cup {[key |-> <<s, n>>, body |-> b]}
      BY <1>3 DEF IngestAccept, InsertPending
    <2>3. nonces[s].lastNonce < n
      <3>1. LastAccepted(s).lastNonce \in Int /\ nonces[s].lastNonce <= LastAccepted(s).lastNonce
        BY SeedRow
      <3>2. QED
        BY <1>1, <2>1, <3>1
    <2>4. \A m \in acked : m.key # <<s, n>>
      BY <1>1, <2>1, <2>3 DEF RowsInv, AckedBelow
    <2>5. /\ \A k \in Key : k # <<s, n>> => messages'[k] = messages[k]
          /\ messages'[<<s, n>>].status # "absent" /\ messages'[<<s, n>>].body = b
      BY <1>1, <2>1, <2>2 DEF MessageTable
    <2>6. /\ \A k \in Key : messages[k].status # "absent" /\ k[1] # s => messages'[k] = messages[k]
          /\ \A m \in acked : messages'[m.key] = messages[m.key]
      BY <1>1, <2>4, <2>5
    <2>7. row.lastNonce = n /\ row.lastBody = b
      OBVIOUS
    <2> HIDE DEF row
    <2>8. /\ row.lastNonce \in Int /\ nonces[s].lastNonce <= row.lastNonce
          /\ nonces' = [nonces EXCEPT ![s] = row]
          /\ acked' = acked \cup {[key |-> <<s, row.lastNonce>>, body |-> row.lastBody]}
          /\ row.lastNonce >= 0
          /\ messages'[<<s, row.lastNonce>>].status # "absent"
          /\ messages'[<<s, row.lastNonce>>].body = row.lastBody
      BY <1>1, <2>1, <2>2, <2>3, <2>5, <2>7
    <2>9. QED
      BY <1>2, <2>6, <2>8
  <1>4. ASSUME NEW s \in Senders,
               nonces' = [nonces EXCEPT ![s] = LastAccepted(s)], messages' = messages,
               \/ acked' = acked
               \/ LastAccepted(s).lastNonce >= 0 /\ acked' = acked \cup
                     {[key |-> <<s, LastAccepted(s).lastNonce>>, body |-> LastAccepted(s).lastBody]}
        PROVE  RowsInv'
    <2>1. PICK row : row = LastAccepted(s)
      OBVIOUS
    <2>2. /\ row.lastNonce \in Int /\ nonces[s].lastNonce <= row.lastNonce
          /\ row.lastNonce >= 0 =>
                /\ messages[<<s, row.lastNonce>>].status # "absent"
                /\ messages[<<s, row.lastNonce>>].body = row.lastBody
      BY <2>1, SeedRow
    <2>3. QED
      BY <1>2, <1>4, <2>1, <2>2
  <1>5. ASSUME NEW s \in Senders, NEW n \in 0 .. MaxNonce, NEW b \in Bodies,
               IngestRetry(s, n, b)
        PROVE  RowsInv'
    <2>1. /\ LastAccepted(s) = [lastNonce |-> n, lastBody |-> b] /\ n >= 0
          /\ nonces' = [nonces EXCEPT ![s] = LastAccepted(s)]
          /\ acked' = acked \cup {[key |-> <<s, n>>, body |-> b]}
          /\ messages' = messages
      BY <1>5 DEF IngestRetry
    <2>2. LastAccepted(s).lastNonce = n /\ LastAccepted(s).lastBody = b
      BY <2>1
    <2>3. QED
      BY <1>4, <2>1, <2>2
  <1>6. ASSUME NEW s \in Senders, IngestReject(s)
        PROVE  RowsInv'
    BY <1>4, <1>6 DEF IngestReject, posterProcVars
  <1>7. QED
    BY <1>3, <1>5, <1>6 DEF Ingest

\* The Reader never gives a key that has a row another body: a pack holds one
\* message for a key and a tag.
LEMMA ObservedStay ==
  ASSUME SystemTypeOK, PacksInv, NEW ev \in Event, NEW snapshot \in SUBSET PackOf(ev.id),
         Observe(ev, snapshot)
  PROVE  RowsStay
  <1> DEFINE rows == ObservedMessages(ev, snapshot)
             named(k) == CHOOSE m \in snapshot : m.key = k
  <1>1. /\ messages \in MessageTable /\ ev.id \in BatchId
        /\ PackOf(ev.id) \in SUBSET Entry
        /\ \A m, n \in PackOf(ev.id) : m.key = n.key => m = n
    BY SystemTypeFacts, PackOfType DEF PacksInv, PacksOnce, OneEach, PackOf, Event, BatchId
  <1>2. messages' = UpsertObserved(messages, rows)
    BY DEF Observe
  <1>3. ASSUME NEW k \in DOMAIN rows, messages[k].status # "absent"
        PROVE  rows[k].status = "confirmed" /\ rows[k].body = messages[k].body
    <2>1. PICK m \in snapshot : m.key = k /\ ~ObservedConflict(messages, m)
      BY <1>3 DEF ObservedMessages
    <2>2. named(k) \in snapshot /\ named(k).key = k
      BY <2>1
    <2>3. rows[k].body = named(k).body /\ rows[k].status = "confirmed"
      BY <1>3 DEF ObservedMessages
    <2> HIDE DEF named, rows
    <2>4. named(k) = m
      BY <1>1, <2>1, <2>2
    <2>5. QED
      BY <1>3, <2>1, <2>3, <2>4 DEF ObservedConflict
  <1> HIDE DEF rows
  <1>4. \A k \in Key : messages'[k] = IF k \in DOMAIN rows /\ messages[k].status # "confirmed"
                                      THEN rows[k] ELSE messages[k]
    BY <1>1, <1>2 DEF UpsertObserved, MessageTable
  <1>5. QED
    BY <1>3, <1>4 DEF RowsStay

LEMMA ObserveKeeps ==
  ASSUME SystemTypeOK, PacksInv, NEW ev \in Event, ObserveVerified(ev) \/ ObserveNothing(ev)
  PROVE  RowsStay
  <1>1. CASE ObserveNothing(ev)
    BY <1>1 DEF ObserveNothing, RowsStay
  <1>2. CASE ObserveVerified(ev)
    BY <1>2, ObservedStay DEF ObserveVerified
  <1>3. QED
    BY <1>1, <1>2

LEMMA MarkKeeps ==
  ASSUME SystemTypeOK, NEW e, TailMark(e)
  PROVE  RowsStay
  BY SystemTypeFacts DEF TailMark, ReorgMessages, RowsStay, MessageTable, MessageRow, NoMessage

\* What the steps that are not the Poster's do to `messages'.
LEMMA ReaderMessages ==
  ASSUME SystemTypeOK, ReadersSide
  PROVE  \/ \E ev \in tail.todo : TailBatch(ev)
         \/ \E e \in BatchId : TailMark(e)
         \/ UNCHANGED storeVars
  BY DEF ReadersSide, Serve, OtherPoster, ChainStep, Announce, LiveTail, TailStart, TailScan,
     TailBlock, TailCatchUp, TailList, TailEnd, TailKeep, TailLost, TailThrows, ReaderCrash

LEMMA SystemRowsStep ==
  ASSUME SystemTypeOK, PacksInv, RowsInv, [SystemNext]_systemVars
  PROVE  RowsInv'
  <1>1. TypeOK /\ tail.todo \subseteq Event
    BY SystemTypeFacts, TypeFacts
  <1>2. CASE PosterStep /\ ~Ingest
    <2>1. \/ \E g \in Tickers : TickCommit(g)
          \/ \E e \in BatchId : WatchReorg(e)
          \/ UNCHANGED <<messages, batches>>
      BY <1>2, MessagesStep DEF PosterStep, Next, Ingest
    <2>2. RowsStay
      BY <1>1, <2>1, CommitKeepsRows, ReorgKeepsRows DEF SameRows, RowsStay
    <2>3. UNCHANGED <<nonces, acked>>
      BY <1>2 DEF PosterStep, PosterNext, Aggregate, WatchReorgs, TickSelect, TickSend,
         TickReceipt, TickCommit, TickCommitFails, TickSendFails, TickReceiptFails, TickFailed,
         WatchList, WatchKeep, WatchLost, WatchReorg, WatchReorgFails, Crash, storeVars
    <2>4. QED
      BY <2>2, <2>3, RowsStayed
  <1>3. CASE ReadersSide
    <2>1. RowsStay
      <3>1. ASSUME NEW ev \in tail.todo, TailBatch(ev)
            PROVE  RowsStay
        BY <1>1, <3>1, ObserveKeeps DEF TailBatch
      <3>2. QED
        BY <1>3, <3>1, ReaderMessages, MarkKeeps DEF storeVars, RowsStay
    <2>2. UNCHANGED nonces
      <3>1. ASSUME NEW ev \in tail.todo, TailBatch(ev)
            PROVE  UNCHANGED nonces
        BY <3>1 DEF TailBatch, ObserveVerified, Observe, ObserveNothing
      <3>2. QED
        BY <1>3, <3>1, ReaderMessages DEF TailMark, storeVars
    <2>3. UNCHANGED acked
      BY <1>3 DEF ReadersSide, posterProcVars
    <2>4. QED
      BY <2>1, <2>2, <2>3, RowsStayed
  <1>4. CASE UNCHANGED systemVars
    BY <1>4, RowsStayed DEF systemVars, storeVars, posterProcVars, RowsStay
  <1>5. CASE Ingest
    BY <1>5, IngestRows
  <1>6. QED
    BY <1>2, <1>3, <1>4, <1>5, StepSides

-----------------------------------------------------------------------------
(* Without a fork, a failed receipt lookup or a failed decoding.  Nothing   *)
(* that is mined leaves the chain then and nothing is marked, so that a     *)
(* confirmed row stays confirmed, and the Reader's cursor may be trusted.   *)

Undisturbed ==
    forks = 0 /\ ~RpcFault /\ ~Happened({"decode", "verify", "lookup"})

\* The rows, the ticks and the watchers name mined transactions only.
MinedOnly ==
    /\ \A e \in BatchId : batches[e].status # "absent" => Mined(e[1])
    /\ \A g \in Tickers : agg[g].pc = "commit" => Mined(agg[g].tx)
    /\ watch.cur = {} /\ \A e \in watch.todo : Mined(e[1])
    /\ tail.lost = {} /\ \A e \in tail.cand : Mined(e[1])
    /\ \A k \in Key : messages[k].status # "reorged"

WithinHead ==
    /\ cursor <= head
    /\ tail.pc \in {"scan", "work"} => tail.to <= head
    /\ tail.pc = "scan" => tail.at = 0
    /\ tail.pc = "work" => TodoOK(tail.todo, tail.at, tail.to)

\* The batches whose messages all have their rows, confirmed unless the key
\* belongs to another message.
SettledBatches ==
    {e \in BatchId : \A m \in PackOf(e) :
        /\ messages[m.key].status # "absent"
        /\ messages[m.key].body = m.body => messages[m.key].status = "confirmed"}

TailSettled ==
    tail.pc = "work" =>
        Due(tail.to) \subseteq SettledBatches \cup Awaited(tail.todo) \cup Parked

ContentSettled == Due(cursor) \subseteq SettledBatches /\ TailSettled

SystemInv ==
    /\ SystemTypeOK /\ PacksInv /\ SeenInv /\ RowsInv
    /\ Undisturbed => MinedOnly /\ WithinHead /\ ContentSettled

\* What a step may do to the chain, the rows and the faults.
ChainGrows ==
    /\ head <= head'
    /\ \A t \in Tx : Mined(t) => chain'[t] = chain[t]
    /\ \A t \in Tx : Mined(t)' /\ ~Mined(t) => chain'[t].block > head

RowsSettle ==
    /\ RowsStay
    /\ \A k \in Key : messages[k].status = "confirmed" => messages'[k].status = "confirmed"

LEMMA SameChain ==
  ASSUME UNCHANGED l1Vars, L1TypeOK
  PROVE  ChainGrows
  BY DEF ChainGrows, Mined, l1Vars, L1TypeOK

LEMMA EnteredGrows ==
  ASSUME L1TypeOK, UnsentEmpty, NEW t, NEW pack \in SUBSET Entry,
         NextTx(t), EnterMempool(t, pack), head' = head
  PROVE  ChainGrows
  <1>1. /\ chain[t].status = "unsent" /\ chain'[t].status = "mempool"
        /\ \A u \in Tx \ {t} : chain'[u] = chain[u]
        /\ head \in Nat
    BY EnteredPacks DEF L1TypeOK
  <1>2. QED
    BY <1>1 DEF ChainGrows, Mined

LEMMA L1Grows ==
  ASSUME L1TypeOK, L1Next, forks' = 0
  PROVE  forks = 0 /\ ChainGrows
  <1>1. head \in Nat /\ forks \in Nat /\ chain \in [Tx -> ChainTx]
    BY DEF L1TypeOK
  <1>2. ASSUME NEW t \in Tx, NEW ok \in BOOLEAN, MineTx(t, ok)
        PROVE  forks = 0 /\ ChainGrows
    <2>1. /\ head' = head + 1 /\ forks' = forks /\ ~Mined(t)
          /\ chain'[t].block = head + 1
          /\ \A u \in Tx \ {t} : chain'[u] = chain[u]
      BY <1>1, <1>2 DEF MineTx, Mined, ChainTx
    <2>2. QED
      BY <1>1, <2>1 DEF ChainGrows, Mined
  <1>3. CASE MineEmpty
    BY <1>1, <1>3 DEF MineEmpty, ChainGrows, Mined
  <1>4. ASSUME NEW first \in 1 .. head, Fork(first)
        PROVE  FALSE
    <2>1. forks' = forks + 1
      BY <1>4 DEF Fork
    <2>2. QED
      BY <1>1, <2>1
  <1>5. QED
    BY <1>2, <1>3, <1>4 DEF L1Next

LEMMA SystemGrows ==
  ASSUME SystemTypeOK, PacksInv, [SystemNext]_systemVars, forks' = 0
  PROVE  forks = 0 /\ ChainGrows
  <1>1. L1TypeOK /\ UnsentEmpty /\ \A g \in Tickers : agg[g].pack \in SUBSET Entry
    BY SystemTypeFacts DEF PacksInv
  <1>2. CASE UNCHANGED l1Vars
    BY <1>1, <1>2, SameChain DEF l1Vars
  <1>3. ASSUME NEW g \in Tickers, TickSend(g)
        PROVE  forks = 0 /\ ChainGrows
    BY <1>1, <1>3, EnteredGrows DEF TickSend
  <1>4. ASSUME NEW g \in Tickers, NEW permanent \in BOOLEAN, TickSendFails(g, permanent)
        PROVE  forks = 0 /\ ChainGrows
    <2>1. CASE UNCHANGED chain
      BY <1>2, <1>4, <2>1 DEF TickSendFails, l1Vars
    <2>2. CASE \E t \in Tx : NextTx(t) /\ EnterMempool(t, agg[g].pack)
      BY <1>1, <1>4, <2>2, EnteredGrows DEF TickSendFails
    <2>3. QED
      BY <1>4, <2>1, <2>2 DEF TickSendFails
  <1>5. CASE PosterStep
    BY <1>2, <1>3, <1>4, <1>5, PosterChain DEF PosterStep
  <1>6. CASE OtherPoster
    BY <1>1, <1>6, EnteredGrows, ReaderAssumption DEF OtherPoster, Announce
  <1>7. CASE ChainStep
    BY <1>1, <1>7, L1Grows DEF ChainStep
  <1>8. CASE Serve \/ UNCHANGED systemVars
    <2>1. UNCHANGED l1Vars
      BY <1>8 DEF Serve, LiveTail, TailStart, TailScan, TailBatch, TailBlock, TailCatchUp,
         TailList, TailEnd, TailKeep, TailLost, TailMark, TailThrows, ReaderCrash, systemVars
    <2>2. QED
      BY <1>2, <2>1
  <1>9. QED
    BY <1>5, <1>6, <1>7, <1>8 DEF SystemNext

LEMMA FaultsStay ==
  ASSUME SystemTypeOK, [SystemNext]_systemVars
  PROVE  faults \in Nat /\ faults' \in {faults, faults + 1}
  <1>1. faults \in Nat
    BY DEF SystemTypeOK, TypeOK, PosterProcTypeOK
  <1>2. CASE ReadersSide \/ UNCHANGED systemVars
    BY <1>1, <1>2 DEF ReadersSide, systemVars, posterProcVars
  <1>3. CASE PosterStep
    BY <1>1, <1>3 DEF PosterStep, PosterNext, Ingest, IngestAccept, IngestRetry, IngestReject,
       Aggregate, WatchReorgs, TickSelect, TickSend, TickReceipt, TickCommit, TickCommitFails,
       TickSendFails, TickReceiptFails, WatchList, WatchKeep, WatchLost, WatchReorg,
       WatchReorgFails, Crash, Fault, posterProcVars
  <1>4. QED
    BY <1>1, <1>2, <1>3, StepSides

LEMMA UndisturbedBefore ==
  ASSUME SystemTypeOK, PacksInv, FaultsGrow, [SystemNext]_systemVars, Undisturbed'
  PROVE  Undisturbed /\ ChainGrows
  <1>1. forks = 0 /\ ChainGrows
    BY SystemGrows DEF Undisturbed
  <1>2. ~RpcFault
    BY FaultsStay DEF Undisturbed, RpcFault
  <1>3. ~Happened({"decode", "verify", "lookup"})
    BY HappenedStays, SystemTypeFacts DEF Undisturbed
  <1>4. QED
    BY <1>1, <1>2, <1>3 DEF Undisturbed

LEMMA SettledStay ==
  ASSUME L1TypeOK, ChainGrows, RowsSettle, NEW e \in BatchId, Mined(e[1]), e \in SettledBatches
  PROVE  e \in SettledBatches'
  <1>1. PackOf(e)' = PackOf(e) /\ PackOf(e) \in SUBSET Entry
    BY PackOfType DEF ChainGrows, PackOf, BatchId
  <1>2. \A m \in PackOf(e) : m.key \in Key
    BY <1>1 DEF Entry
  <1>3. ASSUME NEW m \in PackOf(e)
        PROVE  /\ messages'[m.key].status # "absent"
               /\ messages'[m.key].body = m.body => messages'[m.key].status = "confirmed"
    BY <1>2 DEF SettledBatches, RowsSettle, RowsStay
  <1>4. QED
    BY <1>1, <1>3 DEF SettledBatches

\* Blocks up to the head neither gain nor lose events.
LEMMA DueSettled ==
  ASSUME L1TypeOK, L1TypeOK', ChainGrows, RowsSettle, NEW c \in Int, c <= head,
         NEW W, Due(c) \subseteq SettledBatches \cup W, NEW e \in BatchId, Registered(e, c)'
  PROVE  /\ e \in SettledBatches' \/ e \in W
         /\ chain'[e[1]] = chain[e[1]]
  <1>1. e[1] \in Tx /\ head \in Nat /\ chain'[e[1]].block \in Nat
    BY DEF L1TypeOK, ChainTx, BatchId
  <1>2. Mined(e[1])' /\ chain'[e[1]].block <= c
    BY DEF Registered
  <1>3. Mined(e[1]) /\ chain'[e[1]] = chain[e[1]]
    BY <1>1, <1>2 DEF ChainGrows
  <1>4. Registered(e, c)
    BY <1>3 DEF Registered, PackOf
  <1>5. QED
    BY <1>3, <1>4, SettledStay DEF Due

LEMMA TodoKept ==
  ASSUME ChainGrows, NEW todo, todo \subseteq Event, NEW at, NEW c, TodoOK(todo, at, c)
  PROVE  TodoOK(todo, at, c)'
  <1>1. \A ev \in todo : ev.id[1] \in Tx
    BY DEF Event, BatchId
  <1>2. \A ev \in todo : chain'[ev.id[1]] = chain[ev.id[1]] /\ Mined(ev.id[1])
    BY <1>1 DEF TodoOK, ChainGrows
  <1>3. QED
    BY <1>2 DEF TodoOK, Mined

\* A step of the Poster: its watcher finds every transaction.
LEMMA PosterMinedOnly ==
  ASSUME SystemTypeOK, PacksInv, MinedOnly, ChainGrows, PosterStep, Undisturbed'
  PROVE  MinedOnly' /\ RowsSettle
  <1>1. /\ TypeOK /\ messages \in MessageTable /\ batches \in BatchTable
        /\ \A t \in Tx : Mined(t) => Mined(t)'
        /\ tail' = tail
        /\ faults \in Nat
    BY SystemTypeFacts, FaultsStay
       DEF ChainGrows, Mined, PosterStep, readerProcVars, SystemTypeOK, TypeOK, PosterProcTypeOK
  <1>2. ~ \E e \in BatchId : WatchReorg(e)
    BY DEF WatchReorg, MinedOnly
  <1>3. ~ \E e \in BatchId : WatchLost(e)
    <2> SUFFICES ASSUME NEW e \in BatchId, WatchLost(e)
                 PROVE  FALSE
      OBVIOUS
    <2>1. Mined(e[1])
      BY DEF WatchLost, MinedOnly
    <2>2. faults' = faults + 1 /\ "rpc" \in FaultKinds
      BY <2>1 DEF WatchLost, Fault
    <2>3. QED
      BY <1>1, <2>2 DEF Undisturbed, RpcFault
  <1>4. ASSUME NEW e \in BatchId
        PROVE  batches'[e].status # "absent" => Mined(e[1])
    <2>1. e[1] \in Tx
      BY DEF BatchId
    <2>2. CASE batches'[e].status = batches[e].status
      BY <2>2 DEF MinedOnly
    <2>3. ASSUME NEW g \in Tickers, TickCommit(g)
          PROVE  batches'[e].status = batches[e].status \/ Mined(e[1])
      <3>1. Mined(agg[g].tx)
        BY <2>3 DEF TickCommit, MinedOnly
      <3>2. e \in {agg[g].tx} \X PackTags(agg[g].pack) => e[1] = agg[g].tx
        OBVIOUS
      <3>3. QED
        BY <2>3, <3>1, <3>2, CommitAnyBatches
    <2>4. ASSUME NEW s \in Senders, NEW n \in 0 .. MaxNonce, NEW b \in Bodies,
                 IngestAccept(s, n, b)
          PROVE  batches' = batches
      BY <2>4 DEF IngestAccept
    <2>5. QED
      BY <1>2, <2>2, <2>3, <2>4, MessagesStep DEF PosterStep, Next
  <1>5. ASSUME NEW k \in Key
        PROVE  /\ messages'[k].status # "reorged"
               /\ messages[k].status # "absent" =>
                     messages'[k].status # "absent" /\ messages'[k].body = messages[k].body
               /\ messages[k].status = "confirmed" => messages'[k].status = "confirmed"
    <2>1. messages[k].status # "reorged"
      BY DEF MinedOnly
    <2>2. ASSUME NEW s \in Senders, NEW n \in 0 .. MaxNonce, NEW b \in Bodies,
                 IngestAccept(s, n, b)
          PROVE  \/ messages'[k] = messages[k]
                 \/ messages'[k].status = "pending" /\ messages[k].status = "absent"
      BY <1>1, <2>1, <2>2, AcceptedMessages
    <2>3. ASSUME NEW g \in Tickers, TickCommit(g)
          PROVE  \/ messages'[k] = messages[k]
                 \/ messages'[k].status = "confirmed" /\ messages'[k].body = messages[k].body
      BY <1>1, <2>3, CommitMessages
    <2>4. QED
      BY <1>2, <2>1, <2>2, <2>3, MessagesStep DEF PosterStep, Next
  <1>6. ASSUME NEW g \in Tickers, agg'[g].pc = "commit"
        PROVE  Mined(agg'[g].tx) /\ agg'[g].tx \in Tx
    <2>1. ASSUME NEW h \in Tickers, TickSend(h)
          PROVE  agg'[g] = agg[g]
      BY <1>1, <1>6, <2>1 DEF TickSend, TypeOK, PosterProcTypeOK, AggTypeOK, Tick
    <2>2. \/ agg'[g] = agg[g]
          \/ /\ agg[g].pc = "receipt" /\ agg'[g].tx = agg[g].tx
             /\ Mined(agg[g].tx)
      BY <1>6, <2>1, PosterTicks DEF PosterStep, NoTick
    <2>3. QED
      BY <1>6, <2>2, SystemTypeFacts DEF MinedOnly, Waiting
  <1>7. watch'.cur = {} /\ \A e \in watch'.todo : e \in BatchId /\ Mined(e[1])
    <2>1. watch \in Watch /\ watch.cur = {} /\ \A e \in watch.todo : e \in BatchId /\ Mined(e[1])
      BY DEF SystemTypeOK, TypeOK, PosterProcTypeOK, Watch, MinedOnly
    <2>2. CASE WatchList
      <3>1. \A e \in BatchesSince(batches, "confirmed", head - ReorgWindow) :
               e \in BatchId /\ Mined(e[1])
        BY <1>1 DEF BatchesSince, BatchTable, MinedOnly
      <3>2. QED
        BY <2>2, <3>1 DEF WatchList, NoWatch
    <2>3. ASSUME NEW e \in BatchId, WatchKeep(e)
          PROVE  watch'.cur = watch.cur /\ watch'.todo \subseteq watch.todo
      BY <2>1, <2>3 DEF WatchKeep, Watch
    <2>4. CASE WatchReorgFails \/ Crash
      BY <2>4 DEF WatchReorgFails, Crash, NoWatch
    <2>5. CASE Ingest \/ Aggregate
      BY <2>1, <2>5 DEF Ingest, IngestAccept, IngestRetry, IngestReject, Aggregate, TickSelect,
         TickSend, TickReceipt, TickCommit, TickCommitFails, TickSendFails, TickReceiptFails,
         TickFailed, posterProcVars
    <2>6. QED
      BY <1>2, <1>3, <2>1, <2>2, <2>3, <2>4, <2>5 DEF PosterStep, PosterNext, WatchReorgs
  <1>8. MinedOnly'
    <2>1. \A e \in BatchId : e[1] \in Tx
      BY DEF BatchId
    <2>2. tail.lost = {} /\ \A e \in tail.cand : e \in BatchId /\ Mined(e[1])
      BY SystemTypeFacts, TypeFacts DEF MinedOnly, TailTick
    <2>3. QED
      BY <1>1, <1>4, <1>5, <1>6, <1>7, <2>1, <2>2 DEF MinedOnly
  <1>9. RowsSettle
    BY <1>5 DEF RowsSettle, RowsStay
  <1>10. QED
    BY <1>8, <1>9

\* A step of the Reader or the chain: its watcher finds every transaction too.
LEMMA NeverLost ==
  ASSUME SystemTypeOK, MinedOnly, Undisturbed', NEW e \in BatchId
  PROVE  ~TailLost(e) /\ ~TailMark(e)
  <1>1. ~TailMark(e)
    BY DEF TailMark, MinedOnly
  <1>2. ASSUME TailLost(e)
        PROVE  FALSE
    <2>1. Mined(e[1])
      BY <1>2 DEF TailLost, MinedOnly
    <2>2. ReaderFault("lookup")
      BY <1>2, <2>1 DEF TailLost
    <2>3. QED
      BY <2>2, FaultHappens, SystemTypeFacts DEF Undisturbed
  <1>3. QED
    BY <1>1, <1>2

LEMMA TailNames ==
  ASSUME SystemTypeOK, MinedOnly, ReadersSide, Undisturbed'
  PROVE  /\ tail'.lost = {}
         /\ \A e \in tail'.cand : e \in tail.cand \/ (e \in BatchId /\ batches[e].status # "absent")
  <1>1. tail \in TailTick /\ tail.lost = {} /\ batches \in BatchTable
    BY SystemTypeFacts, TypeFacts DEF MinedOnly
  <1>2. NoTail.lost = {} /\ NoTail.cand = {}
    BY DEF NoTail
  <1>3. CASE TailStart \/ TailCatchUp \/ TailEnd \/ TailThrows \/ ReaderCrash
    BY <1>2, <1>3 DEF TailStart, TailCatchUp, TailEnd, TailThrows, ReaderCrash, NoTail
  <1>4. CASE TailScan \/ TailBlock
    <2>1. \/ tail' = NoTail \/ tail' = [NoTail EXCEPT !.pc = "list"]
          \/ tail' = [tail EXCEPT !.pc = "work", !.todo = Logs(From, tail.to)]
          \/ tail' = [tail EXCEPT !.at = 0, !.last = tail.at]
      BY <1>4 DEF TailScan, TailBlock
    <2>2. CASE tail' = NoTail \/ tail' = [NoTail EXCEPT !.pc = "list"]
      BY <2>2 DEF NoTail
    <2>3. CASE \/ tail' = [tail EXCEPT !.pc = "work", !.todo = Logs(From, tail.to)]
               \/ tail' = [tail EXCEPT !.at = 0, !.last = tail.at]
      <3>1. tail'.lost = tail.lost /\ tail'.cand = tail.cand
        BY <1>1, <2>3 DEF TailTick
      <3>2. QED
        BY <1>1, <3>1
    <2>4. QED
      BY <2>1, <2>2, <2>3
  <1>5. ASSUME NEW ev, TailBatch(ev)
        PROVE  tail'.lost = tail.lost /\ tail'.cand = tail.cand
    BY <1>1, <1>5 DEF TailBatch, TailTick
  <1>6. CASE TailList
    BY <1>1, <1>6 DEF TailList, NoTail, BatchesSince, BatchTable
  <1>7. ASSUME NEW e \in BatchId, TailKeep(e)
        PROVE  tail'.lost = tail.lost /\ tail'.cand \subseteq tail.cand
    BY <1>1, <1>7 DEF TailKeep, TailTick
  <1>8. CASE OtherPoster \/ ChainStep
    <2>1. tail' = tail
      BY <1>8 DEF OtherPoster, Announce, ChainStep, readerProcVars
    <2>2. QED
      BY <1>1, <2>1
  <1>9. CASE LiveTail
    BY <1>1, <1>3, <1>4, <1>5, <1>6, <1>7, <1>9, NeverLost DEF LiveTail
  <1>10. QED
    BY <1>3, <1>8, <1>9 DEF ReadersSide, Serve

\* What one event of the list does to the rows when nothing else goes wrong.
LEMMA EventSettles ==
  ASSUME SystemTypeOK, PacksInv, NEW ev \in Event, ObserveVerified(ev) \/ ObserveNothing(ev)
  PROVE  /\ \A e \in BatchId \ {ev.id} : batches'[e] = batches[e]
         /\ \A k \in Key : messages'[k] = messages[k] \/ messages'[k].status = "confirmed"
  <1>1. /\ batches \in BatchTable /\ messages \in MessageTable
        /\ PackOf(ev.id) \in SUBSET Entry /\ {} \in SUBSET Entry
    BY SystemTypeFacts, PackOfType DEF Event
  <1>2. CASE ObserveNothing(ev)
    <2>1. batches' = UpsertBatch(batches, ObservedBatch(ev, {})) /\ messages' = messages
      BY <1>2 DEF ObserveNothing
    <2>2. QED
      BY <1>1, <2>1, ObservedSnapshot
  <1>3. CASE ObserveVerified(ev)
    <2>1. PICK snapshot \in SUBSET PackOf(ev.id) : Observe(ev, snapshot)
      BY <1>3 DEF ObserveVerified
    <2>2. snapshot \in SUBSET Entry
      BY <1>1, <2>1
    <2>3. QED
      BY <1>1, <2>1, <2>2, ObservedSnapshot, ObservedRows DEF Observe
  <1>4. QED
    BY <1>2, <1>3

LEMMA ReaderMinedOnly ==
  ASSUME SystemTypeOK, PacksInv, MinedOnly, WithinHead, ChainGrows, ReadersSide, Undisturbed'
  PROVE  MinedOnly' /\ RowsSettle
  <1>1. /\ tail.todo \subseteq Event /\ tail \in TailTick
        /\ \A t \in Tx : Mined(t) => Mined(t)'
        /\ agg' = agg /\ watch' = watch
        /\ \A e \in BatchId : e[1] \in Tx
    BY SystemTypeFacts, TypeFacts DEF ChainGrows, Mined, ReadersSide, posterProcVars, BatchId
  <1>2. /\ RowsSettle
        /\ \A e \in BatchId : batches'[e].status # "absent" => Mined(e[1])
        /\ \A k \in Key : messages'[k].status # "reorged"
    <2>1. CASE UNCHANGED storeVars
      BY <2>1 DEF storeVars, RowsSettle, RowsStay, MinedOnly
    <2>2. ASSUME NEW ev \in tail.todo, TailBatch(ev)
          PROVE  /\ RowsSettle
                 /\ \A e \in BatchId : batches'[e].status # "absent" => Mined(e[1])
                 /\ \A k \in Key : messages'[k].status # "reorged"
      <3>1. /\ ev \in Event /\ (ObserveVerified(ev) \/ ObserveNothing(ev))
            /\ tail.pc = "work" /\ Mined(ev.id[1])
        BY <1>1, <2>2 DEF TailBatch, WithinHead, TodoOK
      <3>2. RowsStay
        BY <3>1, ObserveKeeps
      <3>3. /\ \A e \in BatchId \ {ev.id} : batches'[e] = batches[e]
            /\ \A k \in Key : messages'[k] = messages[k] \/ messages'[k].status = "confirmed"
        BY <3>1, EventSettles
      <3>4. QED
        BY <3>1, <3>2, <3>3 DEF RowsSettle, MinedOnly
    <2>3. QED
      BY <2>1, <2>2, ReaderMessages, NeverLost
  <1>3. tail'.lost = {} /\ \A e \in tail'.cand : e \in BatchId /\ Mined(e[1])
    BY <1>1, TailNames DEF MinedOnly, TailTick
  <1>4. \A g \in Tickers : agg[g].pc = "commit" => agg[g].tx \in Tx /\ Mined(agg[g].tx)
    BY SystemTypeFacts DEF MinedOnly, Waiting
  <1>5. watch.cur = {} /\ \A e \in watch.todo : e \in BatchId /\ Mined(e[1])
    BY DEF SystemTypeOK, TypeOK, PosterProcTypeOK, Watch, MinedOnly
  <1>6. MinedOnly'
    BY <1>1, <1>2, <1>3, <1>4, <1>5 DEF MinedOnly
  <1>7. QED
    BY <1>2, <1>6

-----------------------------------------------------------------------------
(* The cursor and the tick of an undisturbed Reader *)

Reading == WithinHead /\ ContentSettled

LEMMA ReadingTypes ==
  ASSUME SystemTypeOK
  PROVE  /\ L1TypeOK /\ StoreTypeOK /\ tail \in TailTick /\ cursor \in Int /\ head \in Nat
         /\ tail.to \in Int /\ tail.at \in Nat /\ tail.todo \subseteq Event
         /\ ReaderWindow \in Nat /\ StartBlock \in Nat \ {0}
  BY SystemTypeFacts, TypeFacts, ReaderAssumption DEF NoCursor

LEMMA CursorSettled ==
  ASSUME SystemTypeOK, SystemTypeOK', ChainGrows, RowsSettle, WithinHead, ContentSettled,
         cursor' = cursor
  PROVE  cursor' <= head' /\ Due(cursor)' \subseteq SettledBatches'
  <1>1. /\ L1TypeOK /\ L1TypeOK' /\ cursor \in Int /\ cursor <= head
        /\ head \in Nat /\ head' \in Nat /\ head <= head'
    BY SystemTypeFacts, ReadingTypes DEF WithinHead, ChainGrows, SystemTypeOK, TypeOK, L1TypeOK
  <1>2. PICK c : c = cursor
    OBVIOUS
  <1>3. c \in Int /\ c <= head /\ Due(c) \subseteq SettledBatches \cup {}
    BY <1>1, <1>2 DEF ContentSettled
  <1>4. \A e \in BatchId : Registered(e, c)' => e \in SettledBatches'
    BY <1>1, <1>3, DueSettled
  <1>5. QED
    BY <1>1, <1>2, <1>4 DEF Due, Registered, Mined, PackOf

\* The tick is not in its range of blocks after the step.
LEMMA OutsideReading ==
  ASSUME SystemTypeOK, SystemTypeOK', ChainGrows, RowsSettle, Reading,
         cursor' = cursor, tail'.pc \notin {"scan", "work"}
  PROVE  Reading'
  BY CursorSettled DEF Reading, WithinHead, ContentSettled, TailSettled

\* The tick is not touched by the step.
LEMMA StillReading ==
  ASSUME SystemTypeOK, SystemTypeOK', ChainGrows, RowsSettle, Reading,
         cursor' = cursor, tail' = tail
  PROVE  Reading'
  <1>1. /\ L1TypeOK /\ L1TypeOK' /\ head \in Nat /\ head' \in Nat /\ head <= head'
        /\ tail.to \in Int /\ tail.at \in Nat /\ tail.todo \subseteq Event
        /\ WithinHead /\ ContentSettled
    BY SystemTypeFacts, ReadingTypes DEF Reading, ChainGrows, SystemTypeOK, TypeOK, L1TypeOK
  <1>2. tail.pc \in {"scan", "work"} => tail.to <= head'
    BY <1>1 DEF WithinHead
  <1>3. tail.pc = "work" => TodoOK(tail.todo, tail.at, tail.to)'
    <2>1. PICK todo, at, c : todo = tail.todo /\ at = tail.at /\ c = tail.to
      OBVIOUS
    <2>2. tail.pc = "work" => TodoOK(todo, at, c)'
      BY <1>1, <2>1, TodoKept DEF WithinHead
    <2>3. QED
      BY <2>1, <2>2 DEF TodoOK, Mined
  <1>4. WithinHead'
    BY <1>1, <1>2, <1>3, CursorSettled DEF WithinHead
  <1>5. TailSettled'
    <2> SUFFICES ASSUME tail.pc = "work"
                 PROVE  Due(tail.to)' \subseteq SettledBatches' \cup Awaited(tail.todo)' \cup Parked'
      BY DEF TailSettled
    <2>1. PICK c : c = tail.to
      OBVIOUS
    <2>2. PICK W : W = Awaited(tail.todo) \cup Parked
      OBVIOUS
    <2>3. c \in Int /\ c <= head /\ Due(c) \subseteq SettledBatches \cup W
      BY <1>1, <2>1, <2>2 DEF WithinHead, ContentSettled, TailSettled
    <2>4. \A e \in BatchId : Registered(e, c)' =>
             (e \in SettledBatches' \/ e \in W) /\ chain'[e[1]] = chain[e[1]]
      BY <1>1, <2>3, DueSettled
    <2>5. ASSUME NEW e \in BatchId, Registered(e, tail.to)'
          PROVE  e \in SettledBatches' \/ e \in Awaited(tail.todo)' \/ e \in Parked'
      <3>1. Registered(e, c)'
        BY <2>1, <2>5 DEF Registered, Mined, PackOf
      <3>2. (e \in SettledBatches' \/ e \in W) /\ chain'[e[1]] = chain[e[1]]
        BY <2>4, <3>1
      <3>3. e \in Awaited(tail.todo) => e \in Awaited(tail.todo)'
        BY DEF Awaited
      <3>4. e \in Parked => e \in Parked'
        BY <3>2 DEF Parked
      <3>5. QED
        BY <2>2, <3>2, <3>3, <3>4
    <2>6. QED
      BY <2>5 DEF Due
  <1>6. QED
    BY <1>4, <1>5, CursorSettled, <1>1 DEF Reading, ContentSettled

LEMMA ScanReading ==
  ASSUME SystemTypeOK, SystemTypeOK', ChainGrows, RowsSettle, Reading, TailStart \/ TailScan
  PROVE  Reading'
  <1>1. /\ L1TypeOK /\ tail \in TailTick /\ head \in Nat /\ ReaderWindow \in Nat
        /\ tail.to \in Int /\ WithinHead /\ ContentSettled /\ ReaderTypeOK
        /\ cursor' = cursor /\ UNCHANGED <<storeVars, l1Vars>>
    BY SystemTypeFacts, ReadingTypes DEF Reading, TailStart, TailScan
  <1>2. CASE TailStart
    <2>1. tail'.pc = "scan" /\ tail'.to = head - ReaderWindow /\ tail'.at = 0
      BY <1>2 DEF TailStart, NoTail
    <2>2. head - ReaderWindow <= head /\ head' = head
      BY <1>1 DEF l1Vars
    <2>3. WithinHead' /\ TailSettled'
      BY <1>1, <2>1, <2>2, CursorSettled DEF WithinHead, TailSettled
    <2>4. QED
      BY <1>1, <2>3, CursorSettled DEF Reading, ContentSettled
  <1>3. CASE TailScan /\ From > tail.to
    <2>1. tail'.pc = "idle"
      BY <1>3 DEF TailScan, NoTail
    <2>2. QED
      BY <1>1, <2>1, OutsideReading
  <1>4. CASE TailScan /\ ~(From > tail.to)
    <2> DEFINE logs == Logs(From, tail.to)
    <2>1. From \in Nat /\ Due(From - 1) \subseteq SettledBatches
      BY <1>1, BeforeFromContent DEF ContentSettled
    <2>2. Due(tail.to) \subseteq SettledBatches \cup Awaited(logs)
      BY <1>1, <2>1, ScanContent
    <2>3. logs \subseteq Event /\ TodoOK(logs, 0, tail.to)
      BY <1>1, <1>4, <2>1, LogsType, LogsTodo
    <2>4. /\ tail.pc = "scan" /\ tail.at = 0 /\ tail.to <= head
          /\ tail' = [tail EXCEPT !.pc = "work", !.todo = logs]
      BY <1>1, <1>4 DEF TailScan, WithinHead
    <2> HIDE DEF logs
    <2>5. tail'.pc = "work" /\ tail'.todo = logs /\ tail'.to = tail.to /\ tail'.at = 0
      BY <1>1, <2>4 DEF TailTick
    <2>6. Awaited(tail.todo)' = Awaited(logs)
      BY <2>5 DEF Awaited
    <2>7. TailSettled'
      BY <1>1, <2>2, <2>5, <2>6
         DEF TailSettled, SettledBatches, Due, Registered, Mined, PackOf, storeVars, l1Vars
    <2>8. WithinHead'
      BY <1>1, <2>3, <2>4, <2>5, CursorSettled DEF WithinHead, TodoOK, Mined, l1Vars
    <2>9. QED
      BY <1>1, <2>7, <2>8, CursorSettled DEF Reading, ContentSettled
  <1>5. QED
    BY <1>2, <1>3, <1>4

\* An event whose whole pack is observed.
LEMMA ObservedSettled ==
  ASSUME SystemTypeOK, PacksInv, NEW ev \in Event, Observe(ev, PackOf(ev.id)), chain' = chain
  PROVE  ev.id \in SettledBatches'
  <1>1. /\ messages \in MessageTable /\ ev.id \in BatchId
        /\ PackOf(ev.id) \in SUBSET Entry /\ PackOf(ev.id)' = PackOf(ev.id)
    BY SystemTypeFacts, PackOfType DEF Event, PackOf
  <1>2. messages' = UpsertObserved(messages, ObservedMessages(ev, PackOf(ev.id)))
    BY DEF Observe
  <1>3. RowsStay
    BY ObservedStay
  <1>4. ASSUME NEW m \in PackOf(ev.id)
        PROVE  /\ messages'[m.key].status # "absent"
               /\ messages'[m.key].body = m.body => messages'[m.key].status = "confirmed"
    <2>1. m.key \in Key /\ messages'[m.key].status # "absent"
      BY <1>1, <1>2, ObservedRows DEF Entry
    <2>2. CASE ObservedConflict(messages, m)
      BY <1>3, <2>1, <2>2 DEF ObservedConflict, RowsStay
    <2>3. CASE ~ObservedConflict(messages, m)
      <3> DEFINE rows == ObservedMessages(ev, PackOf(ev.id))
      <3>1. m.key \in DOMAIN rows /\ rows[m.key].status = "confirmed"
        BY <2>3 DEF ObservedMessages
      <3>2. messages'[m.key] = IF m.key \in DOMAIN rows /\ messages[m.key].status # "confirmed"
                               THEN rows[m.key] ELSE messages[m.key]
        BY <1>1, <1>2, <2>1 DEF UpsertObserved, MessageTable
      <3> HIDE DEF rows
      <3>3. QED
        BY <3>1, <3>2
    <2>4. QED
      BY <2>2, <2>3
  <1>5. QED
    BY <1>1, <1>4 DEF SettledBatches

LEMMA BatchReading ==
  ASSUME SystemTypeOK, SystemTypeOK', PacksInv, ChainGrows, RowsSettle, Reading,
         NEW ev \in tail.todo, TailBatch(ev), Undisturbed'
  PROVE  Reading'
  <1>1. /\ L1TypeOK /\ L1TypeOK' /\ ReaderTypeOK /\ tail \in TailTick /\ ev \in Event
        /\ tail.to \in Int /\ tail.to <= head /\ TodoOK(tail.todo, tail.at, tail.to)
        /\ tail.pc = "work" /\ chain' = chain /\ head' = head /\ cursor' = cursor
        /\ WithinHead /\ ContentSettled /\ StartBlock \in Nat \ {0}
    BY SystemTypeFacts, ReadingTypes
       DEF Reading, WithinHead, TailBatch, l1Vars, SystemTypeOK, TypeOK, L1TypeOK
  <1>2. /\ tail'.pc = "work" /\ tail'.to = tail.to /\ tail'.todo = tail.todo \ {ev}
        /\ tail'.at = ev.block /\ (tail.parked => tail'.parked)
        /\ tail' = [tail EXCEPT !.todo = @ \ {ev}, !.at = ev.block, !.parked = TRUE]
              => tail'.parked
    BY <1>1 DEF TailBatch, TailTick
  <1>3. \/ Observe(ev, PackOf(ev.id))
        \/ tail' = [tail EXCEPT !.todo = @ \ {ev}, !.at = ev.block, !.parked = TRUE]
    BY <1>1, FaultHappens DEF TailBatch, ObserveVerified, Undisturbed
  <1>4. WithinHead'
    <2>1. TodoOK(tail.todo \ {ev}, ev.block, tail.to)'
      <3>1. PICK todo, at, c : todo = tail.todo /\ at = tail.at /\ c = tail.to
        OBVIOUS
      <3>2. TodoOK(todo \ {ev}, ev.block, c)'
        BY <1>1, <3>1, NextTodo DEF TailBatch
      <3>3. QED
        BY <1>2, <3>1, <3>2 DEF TodoOK, Mined
    <2>2. QED
      BY <1>1, <1>2, <2>1, CursorSettled DEF WithinHead, TodoOK, Mined
  <1>5. PICK c : c = tail.to
    OBVIOUS
  <1>6. PICK W : W = Awaited(tail.todo) \cup Parked
    OBVIOUS
  <1>7. \A e \in BatchId : Registered(e, c)' => e \in SettledBatches' \/ e \in W
    <2>1. c \in Int /\ c <= head /\ Due(c) \subseteq SettledBatches \cup W
      BY <1>1, <1>5, <1>6 DEF ContentSettled, TailSettled
    <2>2. QED
      BY <1>1, <2>1, DueSettled
  <1>8. ASSUME NEW e \in BatchId, Registered(e, tail.to)'
        PROVE  e \in SettledBatches' \/ e \in Awaited(tail.todo)' \/ e \in Parked'
    <2>1. Registered(e, c)'
      BY <1>2, <1>5, <1>8 DEF Registered, Mined, PackOf
    <2>2. CASE e \in Parked
      <3>1. tail.parked /\ chain[e[1]].block = tail.at /\ tail.at # 0
        BY <1>1, <2>1, <2>2, BlockType DEF Parked, Registered
      <3>2. ev.block = tail.at
        BY <3>1 DEF TailBatch, NextEvent
      <3>3. QED
        BY <1>1, <1>2, <3>1, <3>2 DEF Parked
    <2>3. ASSUME NEW other \in tail.todo, other.id = e, other # ev
          PROVE  e \in Awaited(tail.todo)'
      BY <1>2, <2>3 DEF Awaited
    <2>4. CASE e = ev.id
      <3>1. CASE Observe(ev, PackOf(ev.id))
        BY <1>1, <2>4, <3>1, ObservedSettled
      <3>2. CASE tail' = [tail EXCEPT !.todo = @ \ {ev}, !.at = ev.block, !.parked = TRUE]
        <4>1. ev.block = chain'[e[1]].block
          BY <1>1, <2>4 DEF TodoOK
        <4>2. QED
          BY <1>2, <3>2, <4>1 DEF Parked
      <3>3. QED
        BY <1>3, <3>1, <3>2
    <2>5. QED
      BY <1>6, <1>7, <2>1, <2>2, <2>3, <2>4 DEF Awaited
  <1>9. TailSettled'
    BY <1>8 DEF TailSettled, Due
  <1>10. QED
    BY <1>1, <1>4, <1>9, CursorSettled DEF Reading, ContentSettled

LEMMA BlockReading ==
  ASSUME SystemTypeOK, SystemTypeOK', ChainGrows, RowsSettle, Reading, TailBlock
  PROVE  Reading'
  <1>1. /\ L1TypeOK /\ tail \in TailTick /\ tail.pc = "work" /\ head \in Nat
        /\ tail.to \in Int /\ tail.at \in Nat /\ tail.todo \subseteq Event /\ tail.to <= head
        /\ TodoOK(tail.todo, tail.at, tail.to) /\ BlockDone(tail.todo, tail.at)
        /\ UNCHANGED <<storeVars, l1Vars>>
        /\ Due(tail.to) \subseteq SettledBatches \cup Awaited(tail.todo) \cup Parked
    BY ReadingTypes DEF Reading, WithinHead, ContentSettled, TailSettled, TailBlock
  <1>2. CASE tail.parked
    <2>1. tail'.pc = "list" /\ cursor' = cursor
      BY <1>2, TailPcType DEF TailBlock
    <2>2. QED
      BY <2>1, OutsideReading
  <1>3. CASE ~tail.parked
    <2>1. Due(tail.to) \subseteq SettledBatches \cup Awaited(tail.todo)
      BY <1>1, <1>3 DEF Parked
    <2>2. Due(tail.at) \subseteq SettledBatches
      BY <1>1, <2>1, BlockContent
    <2>3. /\ cursor' = tail.at /\ tail'.pc = "work" /\ tail'.at = 0
          /\ tail'.to = tail.to /\ tail'.todo = tail.todo
      BY <1>1, <1>3 DEF TailBlock, TailTick
    <2>4. cursor' <= head' /\ Due(cursor)' \subseteq SettledBatches'
      BY <1>1, <2>2, <2>3
         DEF TodoOK, SettledBatches, Due, Registered, Mined, PackOf, storeVars, l1Vars
    <2>5. TodoOK(tail.todo, 0, tail.to)
      BY <1>1, BlockTodo
    <2>6. WithinHead'
      BY <1>1, <2>3, <2>4, <2>5 DEF WithinHead, TodoOK, Mined, l1Vars
    <2>7. Awaited(tail.todo)' = Awaited(tail.todo)
      BY <2>3 DEF Awaited
    <2>8. TailSettled'
      BY <1>1, <2>1, <2>3, <2>7
         DEF TailSettled, SettledBatches, Due, Registered, Mined, PackOf, storeVars, l1Vars
    <2>9. QED
      BY <2>4, <2>6, <2>8 DEF Reading, ContentSettled
  <1>4. QED
    BY <1>2, <1>3

LEMMA CatchUpReading ==
  ASSUME SystemTypeOK, SystemTypeOK', ChainGrows, RowsSettle, Reading, TailCatchUp
  PROVE  Reading'
  <1>1. /\ L1TypeOK /\ tail.pc = "work" /\ tail.todo = {} /\ tail.at = 0
        /\ StartBlock \in Nat \ {0} /\ tail.to <= head
        /\ UNCHANGED <<storeVars, l1Vars>> /\ tail' = [NoTail EXCEPT !.pc = "list"]
        /\ cursor' = IF tail.last < tail.to THEN tail.to ELSE cursor
        /\ Due(tail.to) \subseteq SettledBatches \cup Awaited(tail.todo) \cup Parked
    BY ReadingTypes DEF Reading, WithinHead, ContentSettled, TailSettled, TailCatchUp
  <1>2. tail'.pc = "list"
    BY <1>1, TailPcType
  <1>3. CASE cursor' = cursor
    BY <1>2, <1>3, OutsideReading
  <1>4. CASE cursor' = tail.to
    <2>1. Due(tail.to) \subseteq SettledBatches
      BY <1>1, BlockType DEF Due, Registered, Awaited, Parked
    <2>2. cursor' <= head' /\ Due(cursor)' \subseteq SettledBatches'
      BY <1>1, <1>4, <2>1
         DEF SettledBatches, Due, Registered, Mined, PackOf, storeVars, l1Vars
    <2>3. QED
      BY <1>2, <2>2 DEF Reading, WithinHead, ContentSettled, TailSettled
  <1>5. QED
    BY <1>1, <1>3, <1>4

LEMMA ReadingStep ==
  ASSUME SystemTypeOK, SystemTypeOK', PacksInv, ChainGrows, RowsSettle, MinedOnly, Reading,
         [SystemNext]_systemVars, Undisturbed'
  PROVE  Reading'
  <1>1. tail \in TailTick
    BY ReadingTypes
  <1>2. CASE PosterStep \/ OtherPoster \/ ChainStep \/ UNCHANGED systemVars
    <2>1. tail' = tail /\ cursor' = cursor
      BY <1>2 DEF PosterStep, OtherPoster, Announce, ChainStep, systemVars, readerProcVars
    <2>2. QED
      BY <2>1, StillReading
  <1>3. ASSUME NEW e \in BatchId, TailKeep(e)
        PROVE  Reading'
    <2>1. tail'.pc = "look" /\ cursor' = cursor
      BY <1>1, <1>3 DEF TailKeep, TailTick
    <2>2. QED
      BY <2>1, OutsideReading
  <1>4. CASE TailList \/ TailEnd \/ TailThrows \/ ReaderCrash
    <2>1. CASE TailList
      <3>1. tail'.pc = "look" /\ cursor' = cursor
        BY <2>1 DEF TailList, NoTail
      <3>2. QED
        BY <3>1, OutsideReading
    <2>2. CASE TailEnd \/ TailThrows \/ ReaderCrash
      <3>1. tail' = NoTail /\ NoTail.pc = "idle" /\ cursor' = cursor
        BY <2>2 DEF TailEnd, TailThrows, ReaderCrash, NoTail
      <3>2. QED
        BY <3>1, OutsideReading
    <2>3. QED
      BY <1>4, <2>1, <2>2
  <1>5. CASE LiveTail
    BY <1>3, <1>4, <1>5, ScanReading, BatchReading, BlockReading, CatchUpReading, NeverLost
       DEF LiveTail
  <1>6. QED
    BY <1>2, <1>4, <1>5 DEF SystemNext, Serve

-----------------------------------------------------------------------------
(* The theorem *)

LEMMA SystemStep ==
  ASSUME SystemInv, [SystemNext]_systemVars
  PROVE  SystemInv'
  <1>1. SystemTypeOK /\ PacksInv /\ SeenInv /\ RowsInv
    BY DEF SystemInv
  <1>2. SystemTypeOK' /\ PacksInv' /\ PacksKept /\ RowsInv'
    BY <1>1, SystemTypeStep, PacksStep, SystemRowsStep
  <1>3. SeenInv' /\ FaultsGrow
    BY <1>1, <1>2, SystemSeenStep
  <1>4. ASSUME Undisturbed'
        PROVE  MinedOnly' /\ WithinHead' /\ ContentSettled'
    <2>1. Undisturbed /\ ChainGrows
      BY <1>1, <1>3, <1>4, UndisturbedBefore
    <2>2. MinedOnly /\ Reading
      BY <2>1 DEF SystemInv, Reading
    <2>3. MinedOnly' /\ RowsSettle
      <3>1. CASE PosterStep
        BY <1>1, <1>4, <2>1, <2>2, <3>1, PosterMinedOnly
      <3>2. CASE ReadersSide
        BY <1>1, <1>4, <2>1, <2>2, <3>2, ReaderMinedOnly DEF Reading
      <3>3. CASE UNCHANGED systemVars
        BY <2>2, <3>3 DEF systemVars, storeVars, l1Vars, posterProcVars, readerProcVars,
           MinedOnly, Mined, RowsSettle, RowsStay
      <3>4. QED
        BY <3>1, <3>2, <3>3, StepSides
    <2>4. Reading'
      BY <1>1, <1>2, <1>4, <2>1, <2>2, <2>3, ReadingStep
    <2>5. QED
      BY <2>3, <2>4 DEF Reading
  <1>5. QED
    BY <1>2, <1>3, <1>4 DEF SystemInv

LEMMA SystemStart ==
  ASSUME SystemInit
  PROVE  SystemInv
  <1>1. StoreInit /\ L1Init /\ PosterProcInit /\ ReaderProcInit
    BY DEF SystemInit
  <1>2. ReaderInit /\ ReaderTypeOK /\ SeenInv
    BY <1>1, ReaderTypeInit, SeenInit DEF ReaderInit
  <1>3. SystemTypeOK
    BY <1>1, <1>2, TrackerInit DEF PosterInit, TrackerInv, SystemTypeOK, TypeOK, ReaderTypeOK
  <1>4. PacksInv
    <2>1. \A t \in Tx : chain[t].status = "unsent" /\ chain[t].pack = {}
      BY <1>1 DEF L1Init, NoChainTx
    <2>2. \A g \in Tickers : agg[g].pack = {} /\ ~Waiting(g)
      BY <1>1 DEF PosterProcInit, NoTick, Waiting
    <2>3. QED
      BY <2>1, <2>2 DEF PacksInv, UnsentEmpty, PacksOnce, OneEach, SentPacks
  <1>5. RowsInv
    BY <1>1 DEF PosterProcInit, StoreInit, RowsInv, AckedDurable, TrackerBacked, AckedBelow, NoNonce
  <1>6. MinedOnly
    BY <1>1 DEF PosterProcInit, StoreInit, ReaderProcInit, MinedOnly, NoBatch, NoMessage,
       NoTick, NoWatch, NoTail
  <1>7. WithinHead /\ ContentSettled
    <2>1. tail.pc = "idle" /\ cursor = -1 /\ head = 0
      BY <1>1 DEF ReaderProcInit, NoTail, NoCursor, L1Init
    <2>2. Due(cursor) = {}
      BY <1>3, <2>1, NothingDue, ReadingTypes
    <2>3. QED
      BY <2>1, <2>2 DEF WithinHead, ContentSettled, TailSettled
  <1>8. QED
    BY <1>2, <1>3, <1>4, <1>5, <1>6, <1>7 DEF SystemInv

LEMMA SystemStory ==
  ASSUME SystemInv
  PROVE  OneStory
  <1>1. AckedDurable /\ SystemTypeOK
    BY DEF SystemInv, RowsInv
  <1>2. ~Happened({"verify"}) => ConfirmedBacked
    <2> SUFFICES ASSUME ~Happened({"verify"}), NEW k \in Key, messages[k].status = "confirmed"
                 PROVE  LET e == <<messages[k].batchRef, TagOf[messages[k].body]>>
                        IN  e \in BatchId /\ batches[e].status = "confirmed"
                            /\ EntryOf(k) \in batches[e].snapshot
      BY DEF ConfirmedBacked
    <2>1. BackedRow(k)
      BY DEF SystemInv, SeenInv, AllBacked
    <2>2. TagOf[messages[k].body] \in Tags
      BY <1>1, SystemTypeFacts, BamStoreAssumption DEF MessageTable, MessageRow, NoMessage
    <2>3. QED
      BY <2>1, <2>2 DEF BackedRow, EntryOf, BatchId
  <1>3. ASSUME Undisturbed, NEW ev \in Logs(StartBlock, cursor), NEW m \in PackOf(ev.id),
               messages[m.key].body = m.body
        PROVE  messages[m.key].status = "confirmed"
    <2>1. PICK e \in BatchId : /\ Mined(e[1]) /\ chain[e[1]].ok /\ PackOf(e) # {}
                               /\ chain[e[1]].block \in StartBlock .. cursor
                               /\ ev = [id |-> e, block |-> chain[e[1]].block]
      BY DEF Logs
    <2>2. Registered(e, cursor)
      BY <1>1, <2>1, ReadingTypes, BlockType DEF Registered
    <2>3. e \in SettledBatches
      BY <1>3, <2>2 DEF SystemInv, ContentSettled, Due
    <2>4. QED
      BY <1>3, <2>1, <2>3 DEF SettledBatches
  <1>4. QED
    BY <1>1, <1>2, <1>3 DEF OneStory, Undisturbed

\* The two writers of messages and batches tell one story, under every
\* interleaving of their steps: an accepted message keeps its row, a confirmed
\* one names a batch that holds it, and below the Reader's cursor a message of
\* an undisturbed history is confirmed.
THEOREM SystemTellsOneStory == SystemSpec => []OneStory
  <1>1. SystemInit => SystemInv
    BY SystemStart
  <1>2. SystemInv /\ [SystemNext]_systemVars => SystemInv'
    BY SystemStep
  <1>3. SystemInv => OneStory
    BY SystemStory
  <1>4. QED
    BY <1>1, <1>2, <1>3, PTL DEF SystemSpec
=============================================================================
