---------------------------- MODULE PosterProofs ----------------------------
(***************************************************************************)
(* Theorems of the Poster's specification, for every number of authors,    *)
(* nonces, tags, transactions and callers of tick, and any faults.         *)
(***************************************************************************)
EXTENDS Poster, StoreProofs

LEMMA LinkReplacedType ==
  ASSUME NEW bs \in BatchTable, NEW tx \in Tx \cup {NoTx}, NEW block, NEW pack
  PROVE  LinkReplaced(bs, tx, block, pack) \in BatchTable
  <1>1. \A e \in Replaceable(bs, block, pack) : e \in BatchId /\ bs[e] \in BatchRow
    BY DEF Replaceable, BatchesSince, BatchTable, NoBatch
  <1>2. \A r \in BatchRow : [r EXCEPT !.replacedBy = tx] \in BatchRow
    BY DEF BatchRow
  <1>3. QED
    BY <1>1, <1>2 DEF LinkReplaced, BatchTable

-----------------------------------------------------------------------------
(* The nonce tracker and the types *)

\* The converse of TrackerDominates: the tracker names a row that exists.
TrackerBacked ==
    \A s \in Senders : nonces[s].lastNonce >= 0 =>
        /\ messages[<<s, nonces[s].lastNonce>>].status # "absent"
        /\ messages[<<s, nonces[s].lastNonce>>].body = nonces[s].lastBody

\* With the tracker dominating the rows, seeding it from the rows changes
\* nothing: checkMonotonicity compares with the tracker.
LEMMA LastAcceptedIsTracker ==
  ASSUME TypeOK, TrackerDominates, NEW s \in Senders
  PROVE  LastAccepted(s) = nonces[s]
  <1>1. CASE nonces[s] # NoNonce
    BY <1>1 DEF LastAccepted
  <1>2. CASE nonces[s] = NoNonce
    <2>1. \A k \in Key : k[1] = s => messages[k].status = "absent"
      BY <1>2, BamStoreAssumption DEF TrackerDominates, NoNonce, Key
    <2>2. Slots(messages, s) = {}
      BY <2>1 DEF Slots, TypeOK, StoreTypeOK
    <2>3. QED
      BY <1>2, <2>2 DEF LastAccepted, MaxNonReorgedNonce
  <1>3. QED
    BY <1>1, <1>2

\* Without that: the seed is well typed, and either the tracker itself or a
\* row of the sender.
LEMMA LastAcceptedRow ==
  ASSUME TypeOK, NEW s \in Senders
  PROVE  /\ LastAccepted(s) \in NonceRow
         /\ nonces[s] # NoNonce => LastAccepted(s) = nonces[s]
         /\ nonces[s] = NoNonce /\ LastAccepted(s) # NoNonce =>
               LET k == <<s, LastAccepted(s).lastNonce>>
               IN  /\ k \in Key
                   /\ messages[k].status # "absent"
                   /\ messages[k].body = LastAccepted(s).lastBody
  BY MaxNonceRow DEF LastAccepted, TypeOK, StoreTypeOK, MessageTable

LEMMA PresentRow ==
  ASSUME TypeOK, NEW k \in Key, messages[k].status # "absent"
  PROVE  messages[k] \in MessageRow /\ messages[k].body \in Bodies
  BY DEF TypeOK, StoreTypeOK, MessageRow, NoMessage

LEMMA ConfirmedBatchesType ==
  ASSUME NEW tx \in Tx \cup {NoTx}, NEW block \in Nat, NEW pack \in SUBSET Entry,
         NEW e \in DOMAIN ConfirmedBatches(tx, block, pack)
  PROVE  ConfirmedBatches(tx, block, pack)[e] \in BatchRow
  BY DEF ConfirmedBatches, BatchRow, BatchStatus, NoTx

LEMMA ConfirmedMessagesType ==
  ASSUME TypeOK, NEW tx \in Tx \cup {NoTx}, NEW pack \in SUBSET Entry,
         NEW k \in DOMAIN ConfirmedMessages(tx, pack)
  PROVE  /\ k \in Key
         /\ messages[k].status # "absent"
         /\ \E m \in pack : m.key = k /\ ConfirmedMessages(tx, pack)[k].body = m.body
         /\ ConfirmedMessages(tx, pack)[k] \in MessageRow
  <1> DEFINE b == (CHOOSE m \in pack : m.key = k).body
  <1>1. PICK p \in Present(pack) : k = p.key
    BY DEF ConfirmedMessages
  <1>2. k \in Key /\ p \in pack /\ messages[k].status # "absent"
    BY <1>1 DEF Present, Entry
  <1>3. \E m \in pack : m.key = k /\ b = m.body
    BY <1>1, <1>2
  <1>4. b \in Bodies
    BY <1>3 DEF Entry
  <1>5. messages[k].ingestSeq \in Nat
    BY <1>2, PresentRow DEF MessageRow
  <1>6. ConfirmedMessages(tx, pack)[k] =
          [status |-> "confirmed", body |-> b, batchRef |-> tx,
           ingestSeq |-> messages[k].ingestSeq]
    BY DEF ConfirmedMessages
  <1>7. ConfirmedMessages(tx, pack)[k] \in MessageRow
    BY <1>4, <1>5, <1>6 DEF MessageRow, MessageStatus
  <1>8. ConfirmedMessages(tx, pack)[k].body = b
    BY <1>6
  <1> HIDE DEF b
  <1>9. QED
    BY <1>2, <1>3, <1>7, <1>8

LEMMA RequeuedMessagesType ==
  ASSUME TypeOK, NEW t \in Tags, NEW K \in SUBSET Key,
         NEW rank \in RequeueOrders(K), NEW k \in K,
         messages[k].status # "absent"
  PROVE  RequeuedMessages(K, t, rank)[k] \in MessageRow
  <1>1. IsFiniteSet(K)
    BY KeyFinite, FS_Subset
  <1>2. Cardinality(K) \in Nat
    BY <1>1, FS_CardinalityType
  <1>3. rank[k] \in Nat
    BY <1>2 DEF RequeueOrders
  <1>4. tagSeq[t] + rank[k] \in Nat /\ messages[k].body \in Bodies
    BY <1>3, PresentRow DEF TypeOK, StoreTypeOK, MessageRow
  <1>5. QED
    BY <1>4 DEF RequeuedMessages, MessageRow, MessageStatus

LEMMA TypeStep == TypeOK /\ [Next]_posterVars => TypeOK'
  <1> SUFFICES ASSUME TypeOK, [Next]_posterVars
               PROVE  TypeOK'
    OBVIOUS
  <1> USE DEF TypeOK
  <1>1. ASSUME NEW s \in Senders, NEW n \in 0 .. MaxNonce, NEW b \in Bodies,
               IngestAccept(s, n, b)
        PROVE  TypeOK'
    <2>1. <<s, n>> \in Key /\ TagOf[b] \in Tags
      BY BamStoreAssumption DEF Key
    <2>2. tagSeq[TagOf[b]] + 1 \in Nat
      BY <2>1 DEF StoreTypeOK
    <2>3. messages' \in MessageTable
      BY <1>1, <2>1, <2>2, InsertPendingType
         DEF IngestAccept, StoreTypeOK, MessageTable
    <2>4. [lastNonce |-> n, lastBody |-> b] \in NonceRow
      BY BamStoreAssumption DEF NonceRow
    <2>5. nonces' \in [Senders -> NonceRow] /\ tagSeq' \in [Tags -> Nat]
      BY <1>1, <2>2, <2>4 DEF IngestAccept, StoreTypeOK
    <2>6. acked' \in SUBSET Entry
      BY <1>1, <2>1 DEF IngestAccept, PosterProcTypeOK, AggTypeOK, Entry
    <2>7. QED
      BY <1>1, <2>3, <2>5, <2>6 DEF IngestAccept, StoreTypeOK, L1TypeOK,
         PosterProcTypeOK, AggTypeOK, l1Vars, MessageTable, BatchTable
  <1>2. ASSUME NEW s \in Senders, NEW n \in 0 .. MaxNonce, NEW b \in Bodies,
               IngestRetry(s, n, b)
        PROVE  TypeOK'
    <2>1. nonces' \in [Senders -> NonceRow]
      BY <1>2, LastAcceptedRow DEF IngestRetry, StoreTypeOK
    <2>2. acked' \in SUBSET Entry
      BY <1>2 DEF IngestRetry, PosterProcTypeOK, AggTypeOK, Entry, Key
    <2>3. QED
      BY <1>2, <2>1, <2>2
         DEF IngestRetry, StoreTypeOK, L1TypeOK, PosterProcTypeOK, AggTypeOK, l1Vars
  <1>3. ASSUME NEW s \in Senders, IngestReject(s)
        PROVE  TypeOK'
    <2>1. nonces' \in [Senders -> NonceRow]
      BY <1>3, LastAcceptedRow DEF IngestReject, StoreTypeOK
    <2>2. QED
      BY <1>3, <2>1 DEF IngestReject, StoreTypeOK, L1TypeOK, PosterProcTypeOK, AggTypeOK,
                        l1Vars, posterProcVars
  <1>4. ASSUME NEW g \in Tickers, TickSelect(g)
        PROVE  TypeOK'
    <2>1. PICK K \in SUBSET {k \in Key : messages[k].status = "pending"} :
             agg' = [agg EXCEPT ![g] = [NoTick EXCEPT
                        !.pc = "send", !.pack = {EntryOf(k) : k \in K}]]
      BY <1>4 DEF TickSelect
    <2>2. \A k \in K : EntryOf(k) \in Entry
      BY PresentRow DEF EntryOf, Entry
    <2>3. [NoTick EXCEPT !.pc = "send", !.pack = {EntryOf(k) : k \in K}] \in Tick
      BY <2>2 DEF Tick, NoTick
    <2>4. AggTypeOK'
      BY <2>1, <2>3 DEF PosterProcTypeOK, AggTypeOK
    <2>5. QED
      BY <1>4, <2>4 DEF TickSelect, StoreTypeOK, L1TypeOK, PosterProcTypeOK, AggTypeOK,
         l1Vars, storeVars
  <1>5. ASSUME NEW t \in Tx, NEW pack \in SUBSET Entry, EnterMempool(t, pack)
        PROVE  chain' \in [Tx -> ChainTx]
    <2>1. [NoChainTx EXCEPT !.status = "mempool", !.pack = pack] \in ChainTx
      BY DEF NoChainTx, ChainTx
    <2>2. QED
      BY <1>5, <2>1 DEF EnterMempool, L1TypeOK
  <1>6. ASSUME NEW g \in Tickers, TickSend(g)
        PROVE  TypeOK'
    <2>1. PICK t \in Tx :
             /\ EnterMempool(t, agg[g].pack)
             /\ agg' = [agg EXCEPT ![g].pc = "receipt", ![g].tx = t]
      BY <1>6 DEF TickSend
    <2>2. agg[g].pack \in SUBSET Entry
      BY DEF PosterProcTypeOK, AggTypeOK, Tick
    <2>3. chain' \in [Tx -> ChainTx]
      BY <1>5, <2>1, <2>2
    <2>4. AggTypeOK'
      BY <2>1 DEF PosterProcTypeOK, AggTypeOK, Tick
    <2>5. QED
      BY <1>6, <2>3, <2>4 DEF TickSend, StoreTypeOK, L1TypeOK, PosterProcTypeOK, AggTypeOK,
         storeVars
  <1>7. ASSUME NEW g \in Tickers, NEW permanent \in BOOLEAN,
               TickFailed(g, permanent), Fault("send") \/ Fault("receipt"),
               chain' \in [Tx -> ChainTx], UNCHANGED <<head, forks>>
        PROVE  TypeOK'
    <2>1. AggTypeOK'
      BY <1>7 DEF TickFailed, PosterProcTypeOK, AggTypeOK, Tick, NoTick, NoTx
    <2>2. attempts' \in 0 .. UnhealthyAfter /\ stopped' \in BOOLEAN
      BY <1>7, PosterAssumption DEF TickFailed, PosterProcTypeOK, AggTypeOK
    <2>3. faults' \in Nat
      BY <1>7 DEF Fault, PosterProcTypeOK, AggTypeOK
    <2>4. QED
      BY <1>7, <2>1, <2>2, <2>3
         DEF TickFailed, StoreTypeOK, L1TypeOK, PosterProcTypeOK, AggTypeOK, storeVars
  <1>8. ASSUME NEW g \in Tickers, NEW permanent \in BOOLEAN,
               TickSendFails(g, permanent)
        PROVE  TypeOK'
    <2>1. agg[g].pack \in SUBSET Entry
      BY DEF PosterProcTypeOK, AggTypeOK, Tick
    <2>2. chain' \in [Tx -> ChainTx]
      BY <1>5, <1>8, <2>1 DEF TickSendFails, L1TypeOK
    <2>3. QED
      BY <1>7, <1>8, <2>2 DEF TickSendFails
  <1>9. ASSUME NEW g \in Tickers, NEW permanent \in BOOLEAN,
               TickReceiptFails(g, permanent)
        PROVE  TypeOK'
    BY <1>7, <1>9 DEF TickReceiptFails, l1Vars, L1TypeOK
  <1>10. ASSUME NEW g \in Tickers, TickReceipt(g)
         PROVE  TypeOK'
    <2>1. agg[g].tx \in Tx
      BY <1>10 DEF TickReceipt, PosterProcTypeOK, AggTypeOK, Tick
    <2>2. chain[agg[g].tx].block \in Nat
      BY <2>1 DEF L1TypeOK, ChainTx
    <2>3. AggTypeOK'
      BY <1>10, <2>1, <2>2 DEF TickReceipt, PosterProcTypeOK, AggTypeOK, Tick
    <2>4. QED
      BY <1>10, <2>3 DEF TickReceipt, StoreTypeOK, L1TypeOK, PosterProcTypeOK,
         AggTypeOK, storeVars, l1Vars
  <1>11. ASSUME NEW g \in Tickers, TickCommit(g)
         PROVE  TypeOK'
    <2> DEFINE tick == agg[g]
    <2>1. /\ tick.tx \in Tx \cup {NoTx} /\ tick.block \in Nat
          /\ tick.pack \in SUBSET Entry
      BY DEF PosterProcTypeOK, AggTypeOK, Tick
    <2> HIDE DEF tick
    <2>2. UpsertBatch(batches, ConfirmedBatches(tick.tx, tick.block, tick.pack))
            \in BatchTable
      BY <2>1, ConfirmedBatchesType, UpsertBatchType DEF StoreTypeOK, BatchTable
    <2>3. batches' \in BatchTable
      BY <1>11, <2>1, <2>2, LinkReplacedType DEF TickCommit, tick
    <2>4. messages' \in MessageTable
      BY <1>11, <2>1, ConfirmedMessagesType, UpsertObservedType
         DEF TickCommit, tick, StoreTypeOK, MessageTable
    <2>5. AggTypeOK'
      BY <1>11 DEF TickCommit, PosterProcTypeOK, AggTypeOK, Tick, NoTick, NoTx
    <2>6. attempts' \in 0 .. UnhealthyAfter
      BY <1>11, PosterAssumption DEF TickCommit
    <2>7. QED
      BY <1>11, <2>3, <2>4, <2>5, <2>6 DEF TickCommit, StoreTypeOK, L1TypeOK,
         PosterProcTypeOK, AggTypeOK, l1Vars, MessageTable, BatchTable
  <1>12. ASSUME NEW g \in Tickers, TickCommitFails(g)
         PROVE  TypeOK'
    <2>1. AggTypeOK'
      BY <1>12 DEF TickCommitFails, PosterProcTypeOK, AggTypeOK, Tick, NoTick, NoTx
    <2>2. faults' \in Nat
      BY <1>12 DEF TickCommitFails, Fault, PosterProcTypeOK, AggTypeOK
    <2>3. QED
      BY <1>12, <2>1, <2>2 DEF TickCommitFails, StoreTypeOK, L1TypeOK,
         PosterProcTypeOK, AggTypeOK, l1Vars, storeVars
  <1>13. ASSUME WatchList \/ WatchReorgFails
                  \/ \E e \in BatchId : WatchKeep(e) \/ WatchLost(e)
         PROVE  TypeOK'
    <2>1. BatchesSince(batches, "confirmed", head - ReorgWindow) \in SUBSET BatchId
      BY DEF BatchesSince, StoreTypeOK
    <2>2. watch' \in Watch
      BY <1>13, <2>1 DEF WatchList, WatchReorgFails, WatchKeep, WatchLost, Watch,
         NoWatch, PosterProcTypeOK, AggTypeOK
    <2>3. faults' \in Nat
      BY <1>13 DEF WatchList, WatchReorgFails, WatchKeep, WatchLost, Fault,
         PosterProcTypeOK, AggTypeOK
    <2>4. /\ UNCHANGED <<storeVars, l1Vars>>
          /\ UNCHANGED <<agg, attempts, stopped, acked>>
      BY <1>13 DEF WatchList, WatchReorgFails, WatchKeep, WatchLost
    <2>5. QED
      BY <2>2, <2>3, <2>4 DEF StoreTypeOK, L1TypeOK, PosterProcTypeOK, AggTypeOK, l1Vars,
         storeVars
  <1>14. ASSUME NEW e \in BatchId, WatchReorg(e)
         PROVE  TypeOK'
    <2> DEFINE ms == ReorgMessages(messages, e[1])
               K == {k \in Attached(e) : ms[k].status # "pending"}
    <2>1. PICK rank \in RequeueOrders(K) :
             messages' = UpsertObserved(ms, RequeuedMessages(K, e[2], rank))
      BY <1>14 DEF WatchReorg
    <2>2. K \in SUBSET Key /\ e[2] \in Tags /\ e[1] \in Tx
      BY DEF Attached, BatchId
    <2>3. Cardinality(K) \in Nat
      BY <2>2, KeyFinite, FS_Subset, FS_CardinalityType
    <2>4. \A k \in K : messages[k].status # "absent"
      BY <2>2, BamStoreAssumption
         DEF Attached, StoreTypeOK, NoMessage, NoTx, Tx, MessageRow, MessageStatus
    <2>5. tagSeq' \in [Tags -> Nat]
      BY <1>14, <2>2, <2>3 DEF WatchReorg, StoreTypeOK
    <2>6. ms \in MessageTable
      BY ReorgMessagesType DEF StoreTypeOK, MessageTable
    <2> HIDE DEF ms, K
    <2>7. \A k \in K : RequeuedMessages(K, e[2], rank)[k] \in MessageRow
      BY <2>1, <2>2, <2>4, RequeuedMessagesType
    <2>8. messages' \in MessageTable
      BY <2>1, <2>6, <2>7, UpsertObservedType DEF RequeuedMessages
    <2>9. batches' \in BatchTable
      BY <1>14, ReorgBatchesType DEF WatchReorg, StoreTypeOK, BatchTable
    <2>10. QED
      BY <1>14, <2>5, <2>8, <2>9 DEF WatchReorg, StoreTypeOK, L1TypeOK,
         PosterProcTypeOK, AggTypeOK, l1Vars, MessageTable, BatchTable, Watch
  <1>15. ASSUME Crash
         PROVE  TypeOK'
    <2>1. AggTypeOK'
      BY <1>15 DEF Crash, AggTypeOK, Tick, NoTick, NoTx
    <2>2. PosterProcTypeOK'
      <3>1. attempts' \in 0 .. UnhealthyAfter /\ stopped' \in BOOLEAN
        <4>1. 0 \in 0 .. UnhealthyAfter
          BY PosterAssumption
        <4>2. QED
          BY <1>15, <4>1, Zenon DEF Crash
      <3>2. watch' \in Watch /\ faults' \in Nat /\ acked' = acked
        BY <1>15 DEF Crash, Fault, PosterProcTypeOK, Watch, NoWatch
      <3>3. QED
        BY <2>1, <3>1, <3>2 DEF PosterProcTypeOK
    <2>3. QED
      BY <1>15, <2>2 DEF Crash, StoreTypeOK, L1TypeOK, storeVars, l1Vars
  <1>16. ASSUME L1Next, UNCHANGED <<storeVars, posterProcVars>>
         PROVE  TypeOK'
    <2>1. L1TypeOK'
      BY <1>16, L1TypeStep
    <2>2. QED
      BY <1>16, <2>1 DEF StoreTypeOK, PosterProcTypeOK, AggTypeOK, storeVars, posterProcVars
  <1>17. CASE UNCHANGED posterVars
    BY <1>17 DEF posterVars, storeVars, l1Vars, posterProcVars, StoreTypeOK,
       L1TypeOK, PosterProcTypeOK, AggTypeOK
  <1>18. QED
    BY <1>1, <1>2, <1>3, <1>4, <1>6, <1>8, <1>9, <1>10, <1>11, <1>12, <1>13,
       <1>14, <1>15, <1>16, <1>17
       DEF Next, PosterNext, Ingest, Aggregate, WatchReorgs

-----------------------------------------------------------------------------
(* What a step does to the rows of `messages' *)

\* The same rows exist before and after the step, with the same bodies.
SameRows ==
    \A k \in Key : /\ messages'[k].status = "absent" <=> messages[k].status = "absent"
                   /\ messages'[k].body = messages[k].body

LEMMA CommitKeepsRows ==
  ASSUME TypeOK, NEW g \in Tickers, TickCommit(g)
  PROVE  SameRows
  <1> DEFINE rows == ConfirmedMessages(agg[g].tx, agg[g].pack)
  <1>1. agg[g].tx \in Tx \cup {NoTx} /\ agg[g].pack \in SUBSET Entry
    BY DEF TypeOK, PosterProcTypeOK, AggTypeOK, Tick
  <1>2. messages' = UpsertObserved(messages, rows)
    BY DEF TickCommit
  <1>3. \A m \in agg[g].pack : messages[m.key].status # "absent" =>
                               m.body = messages[m.key].body
    BY DEF TickCommit, ObservedConflict
  <1>4. \A k \in DOMAIN rows : /\ rows[k].status = "confirmed"
                               /\ messages[k].status # "absent"
                               /\ rows[k].body = messages[k].body
    <2> SUFFICES ASSUME NEW k \in DOMAIN rows
                 PROVE  /\ rows[k].status = "confirmed"
                        /\ messages[k].status # "absent"
                        /\ rows[k].body = messages[k].body
      OBVIOUS
    <2>1. messages[k].status # "absent"
      BY <1>1, ConfirmedMessagesType
    <2>2. PICK m \in agg[g].pack : m.key = k /\ rows[k].body = m.body
      BY <1>1, ConfirmedMessagesType
    <2>3. rows[k].status = "confirmed"
      BY DEF ConfirmedMessages
    <2>4. QED
      BY <1>3, <2>1, <2>2, <2>3
  <1> HIDE DEF rows
  <1>5. QED
    BY <1>2, <1>4 DEF UpsertObserved, SameRows, TypeOK, StoreTypeOK

LEMMA ReorgKeepsRows ==
  ASSUME TypeOK, NEW e \in BatchId, WatchReorg(e)
  PROVE  SameRows
  <1> DEFINE ms == ReorgMessages(messages, e[1])
             K == {k \in Attached(e) : ms[k].status # "pending"}
  <1>1. PICK rank \in RequeueOrders(K) :
           messages' = UpsertObserved(ms, RequeuedMessages(K, e[2], rank))
    BY DEF WatchReorg
  <1>2. \A k \in Key : /\ ms[k].status = "absent" <=> messages[k].status = "absent"
                       /\ ms[k].body = messages[k].body
    BY DEF ReorgMessages, TypeOK, StoreTypeOK, MessageRow, NoMessage
  <1>3. DOMAIN ms = Key
    BY DEF ReorgMessages, TypeOK, StoreTypeOK
  <1>4. \A k \in K : messages[k].status # "absent"
    BY BamStoreAssumption DEF Attached, BatchId, TypeOK, StoreTypeOK, NoMessage,
       NoTx, Tx, MessageRow, MessageStatus
  <1> HIDE DEF ms, K
  <1>5. QED
    BY <1>1, <1>2, <1>3, <1>4 DEF UpsertObserved, RequeuedMessages, SameRows

\* Only an accepted ingest creates a row or changes the tracker.
LEMMA RowsStep ==
  ASSUME TypeOK, TrackerDominates, [Next]_posterVars
  PROVE  \/ \E s \in Senders, n \in 0 .. MaxNonce, b \in Bodies : IngestAccept(s, n, b)
         \/ \E s \in Senders, n \in 0 .. MaxNonce, b \in Bodies :
               IngestRetry(s, n, b) /\ UNCHANGED <<messages, nonces>>
         \/ SameRows /\ UNCHANGED <<nonces, acked>>
  <1> DEFINE Same == SameRows /\ UNCHANGED <<nonces, acked>>
  <1>1. ASSUME UNCHANGED <<messages, nonces, acked>>
        PROVE  Same
    BY <1>1 DEF SameRows
  <1>2. ASSUME NEW s \in Senders, NEW n \in 0 .. MaxNonce, NEW b \in Bodies,
               IngestRetry(s, n, b)
        PROVE  UNCHANGED <<messages, nonces>>
    BY <1>2, LastAcceptedIsTracker DEF IngestRetry, TypeOK, StoreTypeOK
  <1>3. ASSUME NEW s \in Senders, IngestReject(s)
        PROVE  Same
    BY <1>1, <1>3, LastAcceptedIsTracker
       DEF IngestReject, TypeOK, StoreTypeOK, posterProcVars
  <1>4. ASSUME NEW g \in Tickers, TickCommit(g)
        PROVE  Same
    BY <1>4, CommitKeepsRows DEF TickCommit
  <1>5. ASSUME NEW e \in BatchId, WatchReorg(e)
        PROVE  Same
    BY <1>5, ReorgKeepsRows DEF WatchReorg
  <1>6. ASSUME NEW g \in Tickers,
               \/ TickSelect(g) \/ TickSend(g) \/ TickReceipt(g) \/ TickCommitFails(g)
               \/ \E permanent \in BOOLEAN :
                     TickSendFails(g, permanent) \/ TickReceiptFails(g, permanent)
        PROVE  Same
    BY <1>1, <1>6 DEF TickSelect, TickSend, TickReceipt, TickCommitFails,
       TickSendFails, TickReceiptFails, TickFailed, storeVars
  <1>7. ASSUME \/ WatchList \/ WatchReorgFails
               \/ \E e \in BatchId : WatchKeep(e) \/ WatchLost(e)
        PROVE  Same
    BY <1>1, <1>7 DEF WatchList, WatchReorgFails, WatchKeep, WatchLost, storeVars
  <1>8. ASSUME \/ Crash
               \/ L1Next /\ UNCHANGED <<storeVars, posterProcVars>>
               \/ UNCHANGED posterVars
        PROVE  Same
    BY <1>1, <1>8 DEF Crash, storeVars, posterProcVars, posterVars
  <1> HIDE DEF Same
  <1>9. QED
    BY <1>2, <1>3, <1>4, <1>5, <1>6, <1>7, <1>8
       DEF Next, PosterNext, Ingest, Aggregate, WatchReorgs, Same

\* Only a commit and a reorg change `batches'.
LEMMA BatchesStep ==
  ASSUME [Next]_posterVars
  PROVE  \/ \E g \in Tickers : TickCommit(g)
         \/ \E e \in BatchId : WatchReorg(e)
         \/ UNCHANGED batches
  BY DEF Next, PosterNext, Ingest, Aggregate, WatchReorgs, IngestAccept,
     IngestRetry, IngestReject, TickSelect, TickSend, TickReceipt,
     TickCommitFails, TickSendFails, TickReceiptFails, TickFailed, WatchList,
     WatchKeep, WatchLost, WatchReorgFails, Crash, storeVars, posterVars

TrackerInv == TypeOK /\ TrackerDominates /\ TrackerBacked

LEMMA TrackerStep == TrackerInv /\ [Next]_posterVars => TrackerInv'
  <1> SUFFICES ASSUME TrackerInv, [Next]_posterVars
               PROVE  TrackerInv'
    OBVIOUS
  <1> USE DEF TrackerInv
  <1>1. TypeOK'
    BY TypeStep
  <1>2. ASSUME NEW s \in Senders, NEW n \in 0 .. MaxNonce, NEW b \in Bodies,
               IngestAccept(s, n, b)
        PROVE  TrackerDominates' /\ TrackerBacked'
    <2>1. LastAccepted(s) = nonces[s] /\ nonces[s].lastNonce \in Int
      BY LastAcceptedIsTracker DEF TypeOK, StoreTypeOK, NonceRow
    <2>2. n > nonces[s].lastNonce /\ n \in Nat
      BY <1>2, <2>1, BamStoreAssumption DEF IngestAccept
    <2>3. /\ nonces' = [nonces EXCEPT ![s] = [lastNonce |-> n, lastBody |-> b]]
          /\ messages' = [messages EXCEPT ![<<s, n>>] =
                            [status |-> "pending", body |-> b, batchRef |-> NoTx,
                             ingestSeq |-> tagSeq[TagOf[b]] + 1]]
      BY <1>2 DEF IngestAccept, InsertPending
    <2>4. <<s, n>> \in Key
      BY DEF Key
    <2>5. ASSUME NEW k \in Key, messages'[k].status # "absent"
          PROVE  /\ k[2] <= nonces'[k[1]].lastNonce
                 /\ k[2] = nonces'[k[1]].lastNonce =>
                       nonces'[k[1]].lastBody = messages'[k].body
      <3>1. CASE k = <<s, n>>
        BY <2>2, <2>3, <2>4, <3>1 DEF TypeOK, StoreTypeOK
      <3>2. CASE k # <<s, n>> /\ k[1] = s
        <4>1. messages[k].status # "absent"
          BY <2>3, <2>5, <3>2 DEF TypeOK, StoreTypeOK
        <4>2. k[2] <= nonces[s].lastNonce
          BY <3>2, <4>1 DEF TrackerDominates
        <4>3. k[2] < n /\ nonces'[s].lastNonce = n
          BY <2>1, <2>2, <2>3, <4>2, BamStoreAssumption DEF Key, TypeOK, StoreTypeOK
        <4>4. QED
          BY <2>2, <3>2, <4>3, BamStoreAssumption DEF Key
      <3>3. CASE k[1] # s
        <4>1. messages'[k] = messages[k] /\ nonces'[k[1]] = nonces[k[1]]
          BY <2>3, <3>3 DEF TypeOK, StoreTypeOK, Key
        <4>2. QED
          BY <2>5, <4>1 DEF TrackerDominates
      <3>4. QED
        BY <3>1, <3>2, <3>3
    <2>6. ASSUME NEW r \in Senders, nonces'[r].lastNonce >= 0
          PROVE  /\ messages'[<<r, nonces'[r].lastNonce>>].status # "absent"
                 /\ messages'[<<r, nonces'[r].lastNonce>>].body = nonces'[r].lastBody
      <3>1. CASE r = s
        BY <2>3, <2>4, <3>1 DEF TypeOK, StoreTypeOK
      <3>2. CASE r # s
        <4>1. nonces'[r] = nonces[r] /\ nonces[r].lastNonce \in 0 .. MaxNonce
          BY <2>3, <2>6, <3>2, BamStoreAssumption DEF TypeOK, StoreTypeOK, NonceRow
        <4>2. <<r, nonces[r].lastNonce>> \in Key
          BY <4>1 DEF Key
        <4>3. messages'[<<r, nonces[r].lastNonce>>] = messages[<<r, nonces[r].lastNonce>>]
          BY <2>3, <3>2, <4>2 DEF TypeOK, StoreTypeOK
        <4>4. QED
          BY <2>6, <4>1, <4>3 DEF TrackerBacked
      <3>3. QED
        BY <3>1, <3>2
    <2>7. QED
      BY <2>5, <2>6 DEF TrackerDominates, TrackerBacked
  <1>3. ASSUME UNCHANGED <<messages, nonces>>
        PROVE  TrackerDominates' /\ TrackerBacked'
    BY <1>3 DEF TrackerDominates, TrackerBacked
  <1>4. ASSUME SameRows, nonces' = nonces
        PROVE  TrackerDominates' /\ TrackerBacked'
    <2>1. TrackerDominates'
      BY <1>4 DEF TrackerDominates, SameRows
    <2>2. ASSUME NEW s \in Senders, nonces[s].lastNonce >= 0
          PROVE  <<s, nonces[s].lastNonce>> \in Key
      BY <2>2, BamStoreAssumption DEF Key, TypeOK, StoreTypeOK, NonceRow
    <2>3. TrackerBacked'
      BY <1>4, <2>2 DEF TrackerBacked, SameRows
    <2>4. QED
      BY <2>1, <2>3
  <1>5. QED
    BY <1>1, <1>2, <1>3, <1>4, RowsStep

LEMMA TrackerInit == PosterInit => TrackerInv
  <1> SUFFICES ASSUME PosterInit
               PROVE  TrackerInv
    OBVIOUS
  <1> USE DEF PosterInit
  <1>1. StoreTypeOK
    BY BamStoreAssumption DEF StoreInit, StoreTypeOK, NoNonce, NonceRow, NoBatch,
       BatchRow, BatchStatus, NoTx
  <1>2. L1TypeOK
    BY DEF L1Init, L1TypeOK, NoChainTx, ChainTx
  <1>3. AggTypeOK
    BY DEF PosterProcInit, AggTypeOK, NoTick, Tick, NoTx
  <1>4. attempts \in 0 .. UnhealthyAfter /\ stopped \in BOOLEAN
    <2>1. 0 \in 0 .. UnhealthyAfter
      BY PosterAssumption
    <2>2. QED
      BY <2>1, Zenon DEF PosterProcInit
  <1>5. watch \in Watch /\ acked \in SUBSET Entry /\ faults \in Nat
    BY DEF PosterProcInit, NoWatch, Watch
  <1>6. TrackerDominates
    BY DEF StoreInit, NoMessage, TrackerDominates
  <1>7. TrackerBacked
    BY DEF StoreInit, NoNonce, TrackerBacked
  <1>8. QED
    BY <1>1, <1>2, <1>3, <1>4, <1>5, <1>6, <1>7
       DEF TrackerInv, TypeOK, PosterProcTypeOK

\* Every transaction of the Poster keeps its tables, and every await of a tick
\* its local state, well typed: in particular a receipt is only waited for
\* with a transaction in hand.
THEOREM TypeCorrect == Spec => []TypeOK
  <1>1. TrackerInv => TypeOK
    BY DEF TrackerInv
  <1>2. QED
    BY <1>1, TrackerInit, TrackerStep, PTL DEF Spec

\* Whatever forks, crashes, faults and re-enqueues do, the nonce tracker of
\* monotonicity.ts bounds every row of the sender.  reorg-watcher.ts relies on
\* it when it re-enqueues without the monotonicity check.
THEOREM TrackerBoundsRows == Spec => []TrackerDominates
  <1>1. TrackerInv => TrackerDominates
    BY DEF TrackerInv
  <1>2. QED
    BY <1>1, TrackerInit, TrackerStep, PTL DEF Spec

-----------------------------------------------------------------------------
(* Accepted messages *)

AckedInv == TrackerInv /\ AckedDurable

\* The acknowledgement of a retry looks at the tracker only: it is honest
\* because the tracker always names a row that exists.
LEMMA AckedStep == AckedInv /\ [Next]_posterVars => AckedInv'
  <1> SUFFICES ASSUME AckedInv, [Next]_posterVars
               PROVE  AckedDurable'
    BY TrackerStep DEF AckedInv
  <1> USE DEF AckedInv, TrackerInv
  <1>1. \A m \in acked : m.key \in Key
    BY DEF TypeOK, PosterProcTypeOK, Entry
  <1>2. ASSUME NEW s \in Senders, NEW n \in 0 .. MaxNonce, NEW b \in Bodies,
               IngestAccept(s, n, b)
        PROVE  AckedDurable'
    <2>1. nonces[s].lastNonce \in Int /\ n > nonces[s].lastNonce /\ n \in Int
      BY <1>2, LastAcceptedIsTracker, BamStoreAssumption
         DEF IngestAccept, TypeOK, StoreTypeOK, NonceRow
    <2>2. <<s, n>> \in Key /\ messages[<<s, n>>].status = "absent"
      BY <2>1 DEF TrackerDominates, Key
    <2>3. /\ messages' = [messages EXCEPT ![<<s, n>>] =
                            [status |-> "pending", body |-> b, batchRef |-> NoTx,
                             ingestSeq |-> tagSeq[TagOf[b]] + 1]]
          /\ acked' = acked \cup {[key |-> <<s, n>>, body |-> b]}
      BY <1>2 DEF IngestAccept, InsertPending
    <2>4. \A m \in acked : messages'[m.key] = messages[m.key]
      BY <1>1, <2>2, <2>3 DEF AckedDurable, TypeOK, StoreTypeOK
    <2>5. /\ messages'[<<s, n>>].status # "absent"
          /\ messages'[<<s, n>>].body = b
      BY <2>2, <2>3 DEF TypeOK, StoreTypeOK
    <2>6. QED
      BY <2>3, <2>4, <2>5 DEF AckedDurable
  <1>3. ASSUME NEW s \in Senders, NEW n \in 0 .. MaxNonce, NEW b \in Bodies,
               IngestRetry(s, n, b), UNCHANGED <<messages, nonces>>
        PROVE  AckedDurable'
    <2>1. nonces[s] = [lastNonce |-> n, lastBody |-> b] /\ n >= 0
      BY <1>3, LastAcceptedIsTracker, BamStoreAssumption DEF IngestRetry
    <2>2. /\ messages[<<s, n>>].status # "absent"
          /\ messages[<<s, n>>].body = b
      BY <2>1 DEF TrackerBacked
    <2>3. QED
      BY <1>3, <2>2 DEF IngestRetry, AckedDurable
  <1>4. ASSUME SameRows, acked' = acked
        PROVE  AckedDurable'
    BY <1>1, <1>4 DEF SameRows, AckedDurable
  <1>5. QED
    BY <1>2, <1>3, <1>4, RowsStep

\* No message whose acceptance was acknowledged is ever lost or replaced by
\* another at its (sender, nonce).
THEOREM AcceptedIsDurable == Spec => []AckedDurable
  <1>1. PosterInit => AckedInv
    BY TrackerInit DEF AckedInv, AckedDurable, PosterInit, PosterProcInit
  <1>2. AckedInv => AckedDurable
    BY DEF AckedInv
  <1>3. QED
    BY <1>1, <1>2, AckedStep, PTL DEF Spec

-----------------------------------------------------------------------------
(* What is written once stays *)

LEMMA CommitKeepsLinks ==
  ASSUME TypeOK, NEW g \in Tickers, TickCommit(g),
         NEW e \in BatchId, batches[e].replacedBy # NoTx
  PROVE  batches'[e].replacedBy = batches[e].replacedBy
  <1> DEFINE tick == agg[g]
             rows == ConfirmedBatches(tick.tx, tick.block, tick.pack)
             bs == UpsertBatch(batches, rows)
  <1>1. batches[e].status # "absent" /\ e \in DOMAIN batches
    BY DEF TypeOK, StoreTypeOK, NoBatch, NoTx, BatchRow, BatchStatus
  <1>2. \A d \in DOMAIN rows : rows[d].replacedBy = NoTx
    BY DEF ConfirmedBatches
  <1>3. tick.tx \in Tx \cup {NoTx} /\ tick.block \in Nat /\ tick.pack \in SUBSET Entry
    BY DEF TypeOK, PosterProcTypeOK, AggTypeOK, Tick
  <1>4. \A d \in DOMAIN rows : rows[d] \in BatchRow
    BY <1>3, ConfirmedBatchesType
  <1>5. batches' = LinkReplaced(bs, tick.tx, tick.block, tick.pack)
    BY DEF TickCommit
  <1> HIDE DEF rows
  <1>6. e \in DOMAIN bs /\ bs[e].replacedBy = batches[e].replacedBy
    BY <1>1, <1>2, <1>4 DEF UpsertBatch, MergeBatch, BatchRow
  <1> HIDE DEF bs, tick
  <1>7. e \notin Replaceable(bs, tick.block, tick.pack)
    BY <1>6 DEF Replaceable
  <1>8. QED
    BY <1>5, <1>6, <1>7 DEF LinkReplaced

LEMMA ImmutableStep ==
  ASSUME TrackerInv, [Next]_posterVars
  PROVE  /\ \A k \in Key : messages[k].status # "absent" =>
              messages'[k].body = messages[k].body
         /\ \A e \in BatchId : batches[e].replacedBy # NoTx =>
              batches'[e].replacedBy = batches[e].replacedBy
  <1> USE DEF TrackerInv
  <1>1. ASSUME NEW k \in Key, messages[k].status # "absent"
        PROVE  messages'[k].body = messages[k].body
    <2>1. ASSUME NEW s \in Senders, NEW n \in 0 .. MaxNonce, NEW b \in Bodies,
                 IngestAccept(s, n, b)
          PROVE  messages'[k].body = messages[k].body
      <3>1. nonces[s].lastNonce \in Int /\ n > nonces[s].lastNonce /\ n \in Int
        BY <2>1, LastAcceptedIsTracker, BamStoreAssumption
           DEF IngestAccept, TypeOK, StoreTypeOK, NonceRow
      <3>2. k # <<s, n>>
        BY <1>1, <3>1 DEF TrackerDominates, Key
      <3>3. QED
        BY <2>1, <3>2 DEF IngestAccept, InsertPending, TypeOK, StoreTypeOK
    <2>2. QED
      BY <2>1, RowsStep DEF SameRows
  <1>2. ASSUME NEW e \in BatchId, batches[e].replacedBy # NoTx
        PROVE  batches'[e].replacedBy = batches[e].replacedBy
    <2>1. ASSUME NEW g \in Tickers, TickCommit(g)
          PROVE  batches'[e].replacedBy = batches[e].replacedBy
      BY <1>2, <2>1, CommitKeepsLinks
    <2>2. ASSUME NEW d \in BatchId, WatchReorg(d)
          PROVE  batches'[e].replacedBy = batches[e].replacedBy
      <3>1. batches' = ReorgBatches(batches, d[1]) /\ e \in DOMAIN batches
        BY <2>2 DEF WatchReorg, TypeOK, StoreTypeOK
      <3>2. batches[e] \in BatchRow
        BY <1>2 DEF TypeOK, StoreTypeOK, NoBatch
      <3>3. QED
        BY <3>1, <3>2 DEF ReorgBatches, BatchRow
    <2>3. ASSUME UNCHANGED batches
          PROVE  batches'[e].replacedBy = batches[e].replacedBy
      BY <2>3
    <2>4. QED
      BY <2>1, <2>2, <2>3, BatchesStep
  <1>3. QED
    BY <1>1, <1>2

\* Whatever is interleaved, the message at a key and a batch's replacement are
\* written once: upsertObserved refuses another messageHash, and the commit
\* skips a batch that is already linked.
THEOREM WrittenOnce == Spec => RowsImmutable
  <1>1. TrackerInv /\ [Next]_posterVars =>
          [/\ \A k \in Key : messages[k].status # "absent" =>
                messages'[k].body = messages[k].body
           /\ \A e \in BatchId : batches[e].replacedBy # NoTx =>
                batches'[e].replacedBy = batches[e].replacedBy]_posterVars
    BY ImmutableStep
  <1>2. QED
    BY <1>1, TrackerInit, TrackerStep, PTL DEF Spec, RowsImmutable

-----------------------------------------------------------------------------
(***************************************************************************)
(* The agreement of the Poster's two tables.  The argument is about        *)
(* ownership: from the send to the end of the tick a transaction belongs   *)
(* to one tick, and no batch row names it before that tick's commit; so a  *)
(* commit only creates rows, and never revives a batch that the watcher    *)
(* has marked.                                                             *)
(***************************************************************************)

Waiting(g) == agg[g].pc \in {"receipt", "commit"}
Unrecorded(t) == \A tag \in Tags : batches[<<t, tag>>].status = "absent"

\* No row names an unsent transaction, or one whose tick has not committed;
\* and two ticks never wait for the same transaction.
TxOwned ==
    /\ \A t \in Tx : chain[t].status = "unsent" => Unrecorded(t)
    /\ \A g \in Tickers : Waiting(g) =>
          chain[agg[g].tx].status # "unsent" /\ Unrecorded(agg[g].tx)
    /\ \A g, h \in Tickers : g # h /\ Waiting(g) /\ Waiting(h) =>
          agg[g].tx # agg[h].tx

-----------------------------------------------------------------------------
(* What the two writers of `batches' do *)

LEMMA CommitBatches ==
  ASSUME TypeOK, TxOwned, NEW g \in Tickers, TickCommit(g), NEW e \in BatchId
  PROVE  IF e \in {agg[g].tx} \X PackTags(agg[g].pack)
         THEN /\ batches'[e].status = "confirmed"
              /\ batches'[e].snapshot = {m \in agg[g].pack : TagOfEntry(m) = e[2]}
         ELSE /\ batches'[e].status = batches[e].status
              /\ batches'[e].snapshot = batches[e].snapshot
  <1> DEFINE tick == agg[g]
             rows == ConfirmedBatches(tick.tx, tick.block, tick.pack)
             bs == UpsertBatch(batches, rows)
  <1>1. tick.tx \in Tx /\ tick.block \in Nat /\ tick.pack \in SUBSET Entry
    BY DEF TypeOK, PosterProcTypeOK, AggTypeOK, Tick, TickCommit
  <1>2. bs \in BatchTable
    <2>1. \A d \in DOMAIN rows : rows[d] \in BatchRow
      BY <1>1, ConfirmedBatchesType
    <2>2. QED
      BY <2>1, UpsertBatchType DEF TypeOK, StoreTypeOK, BatchTable
  <1>3. Unrecorded(tick.tx)
    BY DEF TxOwned, Waiting, TickCommit
  <1>4. DOMAIN rows = {tick.tx} \X PackTags(tick.pack)
    BY DEF ConfirmedBatches
  <1>5. \A d \in DOMAIN rows :
           /\ rows[d].status = "confirmed"
           /\ rows[d].snapshot = {m \in tick.pack : TagOfEntry(m) = d[2]}
    BY DEF ConfirmedBatches
  <1>6. batches' = LinkReplaced(bs, tick.tx, tick.block, tick.pack)
    BY DEF TickCommit
  <1>7. e \in DOMAIN rows => bs[e] = rows[e]
    BY <1>3, <1>4 DEF UpsertBatch, Unrecorded, BatchId, TypeOK, StoreTypeOK
  <1>8. e \notin DOMAIN rows => bs[e] = batches[e]
    BY DEF UpsertBatch, TypeOK, StoreTypeOK
  <1> HIDE DEF bs
  <1>9. /\ batches'[e].status = bs[e].status
        /\ batches'[e].snapshot = bs[e].snapshot
    <2>1. bs[e] \in BatchRow \cup {NoBatch} /\ DOMAIN bs = BatchId
      BY <1>2 DEF BatchTable
    <2> HIDE DEF tick
    <2>2. batches'[e] = bs[e] \/ batches'[e] = [bs[e] EXCEPT !.replacedBy = tick.tx]
      BY <1>6, <2>1 DEF LinkReplaced
    <2>3. QED
      BY <2>1, <2>2 DEF BatchRow, NoBatch
  <1> HIDE DEF rows
  <1>10. QED
    BY <1>4, <1>5, <1>7, <1>8, <1>9

LEMMA ReorgedBatches ==
  ASSUME TypeOK, NEW d \in BatchId, WatchReorg(d), NEW e \in BatchId
  PROVE  /\ e[1] # d[1] => batches'[e] = batches[e]
         /\ e[1] = d[1] => batches'[e].status # "confirmed"
         /\ batches'[e].status = "absent" <=> batches[e].status = "absent"
         /\ batches'[e].status \in {batches[e].status, "reorged"}
         /\ batches'[e].snapshot = batches[e].snapshot
  <1>1. batches' = ReorgBatches(batches, d[1]) /\ e \in DOMAIN batches
    BY DEF WatchReorg, TypeOK, StoreTypeOK
  <1>2. batches[e].status = "absent" \/ batches[e] \in BatchRow
    BY DEF TypeOK, StoreTypeOK, NoBatch
  <1>3. QED
    BY <1>1, <1>2 DEF ReorgBatches, BatchRow

\* A transaction once sent stays known to the node or its fork's mempool.
LEMMA NeverUnsent ==
  ASSUME L1TypeOK, L1Next, NEW t \in Tx, chain'[t].status = "unsent"
  PROVE  chain[t].status = "unsent"
  <1>1. chain \in [Tx -> ChainTx]
    BY DEF L1TypeOK
  <1>2. ASSUME NEW u \in Tx, NEW ok \in BOOLEAN, MineTx(u, ok)
        PROVE  chain[t].status = "unsent"
    <2> DEFINE mined == [chain[u] EXCEPT !.status = "mined", !.block = head + 1,
                                         !.ok = ok]
    <2>1. chain' = [chain EXCEPT ![u] = mined]
      BY <1>2 DEF MineTx
    <2>2. mined.status = "mined"
      BY <1>1 DEF ChainTx
    <2> HIDE DEF mined
    <2>3. QED
      BY <1>1, <2>1, <2>2
  <1>3. ASSUME MineEmpty
        PROVE  chain[t].status = "unsent"
    BY <1>3 DEF MineEmpty
  <1>4. ASSUME NEW first \in 1 .. head, Fork(first)
        PROVE  chain[t].status = "unsent"
    <2> DEFINE moved == {u \in Tx : Mined(u) /\ chain[u].block >= first}
    <2>1. PICK place \in [moved -> {0} \cup (first .. head)] :
            chain' = [u \in Tx |->
                  IF u \notin moved THEN chain[u]
                  ELSE IF place[u] = 0
                  THEN [chain[u] EXCEPT !.status = "mempool", !.block = 0]
                  ELSE [chain[u] EXCEPT !.block = place[u]]]
      BY <1>4 DEF Fork
    <2>2. \A u \in moved : chain[u].status = "mined"
      BY DEF Mined
    <2> HIDE DEF moved
    <2>3. QED
      BY <1>1, <2>1, <2>2 DEF ChainTx
  <1>5. QED
    BY <1>2, <1>3, <1>4 DEF L1Next

LEMMA OwnedStep == TypeOK /\ TypeOK' /\ TxOwned /\ [Next]_posterVars => TxOwned'
  <1> SUFFICES ASSUME TypeOK, TypeOK', TxOwned, [Next]_posterVars
               PROVE  TxOwned'
    OBVIOUS
  <1>1. \A g \in Tickers : Waiting(g) => agg[g].tx \in Tx
    BY DEF Waiting, TypeOK, PosterProcTypeOK, AggTypeOK
  <1>2. ASSUME UNCHANGED <<batches, agg>>,
               \A t \in Tx : chain'[t].status = "unsent" => chain[t].status = "unsent"
        PROVE  TxOwned'
    BY <1>1, <1>2 DEF TxOwned, Waiting, Unrecorded
  <1>3. ASSUME UNCHANGED batches,
               \A g \in Tickers : agg'[g] = NoTick \/ agg'[g] = agg[g],
               \A t \in Tx : chain'[t].status = "unsent" => chain[t].status = "unsent"
        PROVE  TxOwned'
    BY <1>1, <1>3 DEF TxOwned, Waiting, Unrecorded, NoTick
  <1>4. ASSUME NEW t \in Tx, NEW pack \in SUBSET Entry, EnterMempool(t, pack),
               NEW u \in Tx
        PROVE  /\ u # t => chain'[u].status = chain[u].status
               /\ chain'[t].status = "mempool"
    BY <1>4 DEF EnterMempool, NoChainTx, TypeOK, L1TypeOK
  <1>5. ASSUME Ingest
        PROVE  TxOwned'
    BY <1>2, <1>5 DEF Ingest, IngestAccept, IngestRetry, IngestReject, l1Vars,
       posterProcVars
  <1>6. ASSUME NEW g \in Tickers, TickSelect(g)
        PROVE  TxOwned'
    <2>1. UNCHANGED <<batches, chain>>
      BY <1>6 DEF TickSelect, storeVars, l1Vars
    <2>2. \A h \in Tickers : agg'[h].pc = "send" \/ agg'[h] = agg[h]
      BY <1>6 DEF TickSelect, TypeOK, PosterProcTypeOK, AggTypeOK
    <2>3. QED
      BY <2>1, <2>2 DEF TxOwned, Waiting, Unrecorded
  <1>7. ASSUME NEW g \in Tickers, TickSend(g)
        PROVE  TxOwned'
    <2>1. PICK t \in Tx :
             /\ NextTx(t)
             /\ EnterMempool(t, agg[g].pack)
             /\ agg' = [agg EXCEPT ![g].pc = "receipt", ![g].tx = t]
      BY <1>7 DEF TickSend
    <2>2. agg[g].pack \in SUBSET Entry
      BY DEF TypeOK, PosterProcTypeOK, AggTypeOK, Tick
    <2>3. chain[t].status = "unsent" /\ UNCHANGED batches
      BY <1>7, <2>1 DEF NextTx, TickSend, storeVars
    <2>4. /\ agg'[g].tx = t
          /\ \A h \in Tickers : h # g => agg'[h] = agg[h]
      BY <2>1 DEF TypeOK, PosterProcTypeOK, AggTypeOK, Tick
    <2>5. \A u \in Tx : chain'[u].status = "unsent" => chain[u].status = "unsent"
      BY <1>4, <2>1, <2>2
    <2>6. \A u \in Tx : chain[u].status # "unsent" => chain'[u].status # "unsent"
      BY <2>5
    <2>7. \A u \in Tx : Unrecorded(u)' <=> Unrecorded(u)
      BY <2>3 DEF Unrecorded
    <2>8. chain'[t].status # "unsent" /\ Unrecorded(t)
      BY <1>4, <2>1, <2>2, <2>3 DEF TxOwned
    <2>9. \A h \in Tickers : h # g /\ Waiting(h)' => Waiting(h) /\ agg[h].tx # t
      BY <2>3, <2>4 DEF TxOwned, Waiting
    <2>10. QED
      BY <1>1, <2>4, <2>5, <2>6, <2>7, <2>8, <2>9 DEF TxOwned
  <1>8. ASSUME NEW g \in Tickers, NEW permanent \in BOOLEAN,
               TickSendFails(g, permanent)
        PROVE  TxOwned'
    <2>1. UNCHANGED batches /\ agg' = [agg EXCEPT ![g] = NoTick]
      BY <1>8 DEF TickSendFails, TickFailed, storeVars
    <2>2. agg[g].pack \in SUBSET Entry
      BY DEF TypeOK, PosterProcTypeOK, AggTypeOK, Tick
    <2>3. \A t \in Tx : chain'[t].status = "unsent" => chain[t].status = "unsent"
      BY <1>4, <1>8, <2>2 DEF TickSendFails
    <2>4. \A h \in Tickers : agg'[h] = NoTick \/ agg'[h] = agg[h]
      BY <2>1 DEF TypeOK, PosterProcTypeOK, AggTypeOK
    <2>5. QED
      BY <1>3, <2>1, <2>3, <2>4
  <1>9. ASSUME NEW g \in Tickers, TickReceipt(g)
        PROVE  TxOwned'
    <2>1. UNCHANGED <<batches, chain>>
      BY <1>9 DEF TickReceipt, storeVars, l1Vars
    <2>2. \A h \in Tickers : /\ Waiting(h)' <=> Waiting(h)
                             /\ agg'[h].tx = agg[h].tx
      BY <1>9 DEF TickReceipt, Waiting, TypeOK, PosterProcTypeOK, AggTypeOK, Tick
    <2>3. QED
      BY <2>1, <2>2 DEF TxOwned, Unrecorded
  <1>10. ASSUME NEW g \in Tickers,
                \/ \E permanent \in BOOLEAN : TickReceiptFails(g, permanent)
                \/ TickCommitFails(g)
         PROVE  TxOwned'
    <2>1. UNCHANGED <<batches, chain>> /\ agg' = [agg EXCEPT ![g] = NoTick]
      BY <1>10 DEF TickReceiptFails, TickCommitFails, TickFailed, storeVars, l1Vars
    <2>2. \A h \in Tickers : agg'[h] = NoTick \/ agg'[h] = agg[h]
      BY <2>1 DEF TypeOK, PosterProcTypeOK, AggTypeOK
    <2>3. QED
      BY <1>3, <2>1, <2>2
  <1>11. ASSUME NEW g \in Tickers, TickCommit(g)
         PROVE  TxOwned'
    <2>1. UNCHANGED chain /\ agg' = [agg EXCEPT ![g] = NoTick] /\ Waiting(g)
      BY <1>11 DEF TickCommit, l1Vars, Waiting
    <2>2. \A u \in Tx : u # agg[g].tx /\ Unrecorded(u) => Unrecorded(u)'
      BY <1>11, CommitBatches DEF Unrecorded, BatchId
    <2>3. \A h \in Tickers : /\ h # g => agg'[h] = agg[h]
                             /\ agg'[g].pc = "idle"
      BY <2>1 DEF TypeOK, PosterProcTypeOK, AggTypeOK, NoTick
    <2>4. \A h \in Tickers : Waiting(h)' =>
             h # g /\ Waiting(h) /\ agg[h].tx # agg[g].tx /\ agg'[h] = agg[h]
      BY <2>1, <2>3 DEF TxOwned, Waiting
    <2>5. chain[agg[g].tx].status # "unsent"
      BY <2>1 DEF TxOwned
    <2>6. QED
      BY <1>1, <2>1, <2>2, <2>4, <2>5 DEF TxOwned
  <1>12. ASSUME NEW e \in BatchId, WatchReorg(e)
         PROVE  TxOwned'
    <2>1. \A u \in Tx : Unrecorded(u)' <=> Unrecorded(u)
      BY <1>12, ReorgedBatches DEF Unrecorded, BatchId
    <2>2. UNCHANGED <<chain, agg>>
      BY <1>12 DEF WatchReorg, l1Vars
    <2>3. QED
      BY <1>1, <2>1, <2>2 DEF TxOwned, Waiting
  <1>13. ASSUME \/ WatchList \/ WatchReorgFails
                \/ \E e \in BatchId : WatchKeep(e) \/ WatchLost(e)
                \/ UNCHANGED posterVars
         PROVE  TxOwned'
    BY <1>2, <1>13 DEF WatchList, WatchReorgFails, WatchKeep, WatchLost,
       storeVars, l1Vars, posterVars, posterProcVars
  <1>14. ASSUME Crash
         PROVE  TxOwned'
    BY <1>3, <1>14 DEF Crash, storeVars, l1Vars
  <1>15. ASSUME L1Next, UNCHANGED <<storeVars, posterProcVars>>
         PROVE  TxOwned'
    <2>1. \A t \in Tx : chain'[t].status = "unsent" => chain[t].status = "unsent"
      BY <1>15, NeverUnsent DEF TypeOK
    <2>2. QED
      BY <1>2, <1>15, <2>1 DEF storeVars, posterProcVars
  <1>16. QED
    BY <1>5, <1>6, <1>7, <1>8, <1>9, <1>10, <1>11, <1>12, <1>13, <1>14, <1>15
       DEF Next, PosterNext, Aggregate, WatchReorgs

-----------------------------------------------------------------------------
(* What the two writers of `messages' do *)

LEMMA CommitMessages ==
  ASSUME TypeOK, NEW g \in Tickers, TickCommit(g), NEW k \in Key
  PROVE  \/ messages'[k] = messages[k]
         \/ /\ messages'[k].status = "confirmed"
            /\ messages'[k].batchRef = agg[g].tx
            /\ messages'[k].body = messages[k].body
            /\ EntryOf(k) \in agg[g].pack
  <1> DEFINE rows == ConfirmedMessages(agg[g].tx, agg[g].pack)
  <1>1. agg[g].tx \in Tx \cup {NoTx} /\ agg[g].pack \in SUBSET Entry
    BY DEF TypeOK, PosterProcTypeOK, AggTypeOK, Tick
  <1>2. messages' = UpsertObserved(messages, rows)
    BY DEF TickCommit
  <1>3. CASE k \in DOMAIN rows
    <2>1. PICK m \in agg[g].pack : m.key = k /\ rows[k].body = m.body
      BY <1>1, <1>3, ConfirmedMessagesType
    <2>2. messages[k].status # "absent"
      BY <1>1, <1>3, ConfirmedMessagesType
    <2>3. m.body = messages[k].body
      BY <2>1, <2>2 DEF TickCommit, ObservedConflict
    <2>4. m = EntryOf(k)
      BY <1>1, <2>1, <2>3 DEF EntryOf, Entry
    <2>5. rows[k].status = "confirmed" /\ rows[k].batchRef = agg[g].tx
      BY <1>3 DEF ConfirmedMessages
    <2> HIDE DEF rows
    <2>6. QED
      BY <1>2, <2>1, <2>3, <2>4, <2>5 DEF UpsertObserved, TypeOK, StoreTypeOK
  <1>4. CASE k \notin DOMAIN rows
    BY <1>2, <1>4 DEF UpsertObserved, TypeOK, StoreTypeOK
  <1>5. QED
    BY <1>3, <1>4

LEMMA ReorgedMessages ==
  ASSUME TypeOK, NEW e \in BatchId, WatchReorg(e), NEW k \in Key
  PROVE  \/ messages'[k] = messages[k] /\ ~ (messages[k].batchRef = e[1] /\ messages[k].status = "confirmed")
         \/ /\ messages'[k].status \in {"pending", "reorged"}
            /\ messages[k].batchRef = e[1]
            /\ messages[k].status # "pending"
  <1> DEFINE ms == ReorgMessages(messages, e[1])
             K == {l \in Attached(e) : ms[l].status # "pending"}
  <1>1. PICK rank \in RequeueOrders(K) :
           messages' = UpsertObserved(ms, RequeuedMessages(K, e[2], rank))
    BY DEF WatchReorg
  <1>2. DOMAIN ms = Key
    BY DEF ReorgMessages, TypeOK, StoreTypeOK
  <1>3. messages[k] \in MessageRow \cup {NoMessage}
    BY DEF TypeOK, StoreTypeOK
  <1>4. IF messages[k].batchRef = e[1] /\ messages[k].status = "confirmed"
        THEN ms[k].status = "reorged" ELSE ms[k] = messages[k]
    BY <1>3 DEF ReorgMessages, TypeOK, StoreTypeOK, MessageRow, NoMessage
  <1>5. k \in K => /\ messages[k].batchRef = e[1]
                   /\ ms[k].status # "pending"
    BY DEF Attached
  <1> HIDE DEF ms, K
  <1>6. CASE k \in K
    <2>1. messages[k].status # "pending"
      BY <1>4, <1>5, <1>6
    <2>2. CASE ms[k].status = "confirmed"
      BY <1>4, <1>5, <1>6, <2>2
    <2>3. CASE ms[k].status # "confirmed"
      BY <1>1, <1>2, <1>5, <1>6, <2>1, <2>3 DEF UpsertObserved, RequeuedMessages
    <2>4. QED
      BY <2>2, <2>3
  <1>7. CASE k \notin K
    <2>1. messages'[k] = ms[k]
      BY <1>1, <1>2, <1>7 DEF UpsertObserved, RequeuedMessages
    <2>2. QED
      BY <1>4, <2>1
  <1>8. QED
    BY <1>6, <1>7

\* A step that writes `messages' accepts, commits or reorgs.
LEMMA MessagesStep ==
  ASSUME [Next]_posterVars
  PROVE  \/ \E s \in Senders, n \in 0 .. MaxNonce, b \in Bodies : IngestAccept(s, n, b)
         \/ \E g \in Tickers : TickCommit(g)
         \/ \E e \in BatchId : WatchReorg(e)
         \/ UNCHANGED <<messages, batches>>
  BY DEF Next, PosterNext, Ingest, Aggregate, WatchReorgs, IngestAccept,
     IngestRetry, IngestReject, TickSelect, TickSend, TickReceipt,
     TickCommitFails, TickSendFails, TickReceiptFails, TickFailed, WatchList,
     WatchKeep, WatchLost, WatchReorgFails, Crash, storeVars, posterVars

\* An accepted message overwrites no confirmed row.
LEMMA AcceptedMessages ==
  ASSUME TypeOK, NEW s \in Senders, NEW n \in 0 .. MaxNonce, NEW b \in Bodies,
         IngestAccept(s, n, b), NEW k \in Key
  PROVE  \/ messages'[k] = messages[k]
         \/ /\ messages'[k].status = "pending"
            /\ messages[k].status \in {"absent", "reorged"}
  BY DEF IngestAccept, InsertPending, Occupied, TypeOK, StoreTypeOK

-----------------------------------------------------------------------------
(* A confirmed message is backed by its batch *)

BackedInv == TrackerInv /\ TxOwned /\ ConfirmedBacked

LEMMA BackedStep == BackedInv /\ [Next]_posterVars => BackedInv'
  <1> SUFFICES ASSUME BackedInv, [Next]_posterVars
               PROVE  ConfirmedBacked'
    BY TrackerStep, OwnedStep DEF BackedInv, TrackerInv
  <1> USE DEF BackedInv, TrackerInv
  <1> DEFINE Batch(k) == <<messages[k].batchRef, TagOf[messages[k].body]>>
             Backed(k) == /\ Batch(k) \in BatchId
                          /\ batches[Batch(k)].status = "confirmed"
                          /\ EntryOf(k) \in batches[Batch(k)].snapshot
  <1> SUFFICES ASSUME NEW k \in Key, messages'[k].status = "confirmed"
               PROVE  Backed(k)'
    BY DEF ConfirmedBacked
  <1>1. messages[k].status = "confirmed" => Backed(k)
    BY DEF ConfirmedBacked
  <1>2. ASSUME messages'[k] = messages[k], messages[k].status = "confirmed",
               batches'[Batch(k)].status = batches[Batch(k)].status,
               batches'[Batch(k)].snapshot = batches[Batch(k)].snapshot
        PROVE  Backed(k)'
    BY <1>1, <1>2 DEF EntryOf
  <1>3. ASSUME NEW s \in Senders, NEW n \in 0 .. MaxNonce, NEW b \in Bodies,
               IngestAccept(s, n, b)
        PROVE  Backed(k)'
    BY <1>2, <1>3, AcceptedMessages DEF IngestAccept
  <1>4. ASSUME NEW g \in Tickers, TickCommit(g)
        PROVE  Backed(k)'
    <2>1. agg[g].tx \in Tx /\ agg[g].pack \in SUBSET Entry
      BY <1>4 DEF TypeOK, PosterProcTypeOK, AggTypeOK, Tick, TickCommit
    <2>2. CASE messages'[k] = messages[k]
      <3>1. batches[<<agg[g].tx, TagOf[messages[k].body]>>].status = "absent"
              \/ Batch(k)[1] # agg[g].tx
        BY <1>1, <1>4, <2>2 DEF TxOwned, Waiting, Unrecorded, TickCommit, BatchId
      <3>2. Batch(k)[1] # agg[g].tx
        BY <1>1, <2>2, <3>1 DEF BatchId
      <3>3. QED
        BY <1>1, <1>2, <1>4, <2>2, <3>2, CommitBatches
    <2>3. CASE /\ messages'[k].batchRef = agg[g].tx
               /\ messages'[k].body = messages[k].body
               /\ EntryOf(k) \in agg[g].pack
      <3>1. EntryOf(k)' = EntryOf(k) /\ EntryOf(k).body = messages'[k].body
        BY <2>3 DEF EntryOf
      <3>2. TagOfEntry(EntryOf(k)) = TagOf[messages'[k].body]
        BY <3>1 DEF TagOfEntry
      <3>3. TagOf[messages'[k].body] \in PackTags(agg[g].pack) \cap Tags
        BY <2>1, <2>3, <3>1, <3>2, BamStoreAssumption DEF PackTags, Entry
      <3>4. Batch(k)' \in BatchId /\ Batch(k)' \in {agg[g].tx} \X PackTags(agg[g].pack)
        BY <2>1, <2>3, <3>3 DEF BatchId
      <3>5. /\ batches'[Batch(k)'].status = "confirmed"
            /\ batches'[Batch(k)'].snapshot =
                  {m \in agg[g].pack : TagOfEntry(m) = Batch(k)'[2]}
        BY <1>4, <3>4, CommitBatches
      <3>6. QED
        BY <2>3, <3>1, <3>2, <3>4, <3>5
    <2>4. QED
      BY <1>4, <2>2, <2>3, CommitMessages
  <1>5. ASSUME NEW e \in BatchId, WatchReorg(e)
        PROVE  Backed(k)'
    <2>1. messages'[k] = messages[k] /\ messages[k].batchRef # e[1]
      BY <1>5, ReorgedMessages
    <2>2. QED
      BY <1>1, <1>2, <1>5, <2>1, ReorgedBatches
  <1>6. ASSUME UNCHANGED <<messages, batches>>
        PROVE  Backed(k)'
    BY <1>2, <1>6
  <1>7. QED
    BY <1>3, <1>4, <1>5, <1>6, MessagesStep

LEMMA BackedInit == PosterInit => BackedInv
  <1> SUFFICES ASSUME PosterInit
               PROVE  TxOwned /\ ConfirmedBacked
    BY TrackerInit DEF BackedInv
  <1>1. TxOwned
    BY DEF PosterInit, StoreInit, PosterProcInit, TxOwned, Unrecorded, Waiting,
       NoBatch, NoTick, BatchId
  <1>2. ConfirmedBacked
    BY DEF PosterInit, StoreInit, NoMessage, ConfirmedBacked
  <1>3. QED
    BY <1>1, <1>2

\* Whatever ticks, watcher steps, crashes and faults interleave, a message the
\* store calls confirmed is in the snapshot of a confirmed batch of its tag:
\* the commit and markReorged keep the two tables together.
THEOREM ConfirmedIsBacked == Spec => []ConfirmedBacked
  <1>1. BackedInv => ConfirmedBacked
    BY DEF BackedInv
  <1>2. QED
    BY <1>1, BackedInit, BackedStep, PTL DEF Spec

-----------------------------------------------------------------------------
(* With one caller of tick, a message is live in one batch at most *)

\* The deployment the Poster's own worker makes; POST /flush breaks it.
SingleTicker == \E w : Tickers = {w}

\* What a tick packed stays queued until its own commit.
PackQueued ==
    \A g \in Tickers : agg[g].pc # "idle" =>
        \A m \in agg[g].pack : /\ messages[m.key].status = "pending"
                               /\ messages[m.key].body = m.body

LiveInv == BackedInv /\ PackQueued /\ OneLiveBatch

\* A commit confirms every message of the pack that is still queued.
LEMMA CommitQueued ==
  ASSUME TypeOK, NEW g \in Tickers, TickCommit(g), NEW m \in agg[g].pack,
         messages[m.key].status = "pending", messages[m.key].body = m.body
  PROVE  /\ messages'[m.key].status = "confirmed"
         /\ messages'[m.key].batchRef = agg[g].tx
  <1> DEFINE rows == ConfirmedMessages(agg[g].tx, agg[g].pack)
  <1>1. m.key \in Key
    BY DEF TypeOK, PosterProcTypeOK, AggTypeOK, Tick, Entry
  <1>2. m.key \in DOMAIN rows
    BY DEF ConfirmedMessages, Present
  <1>3. rows[m.key].status = "confirmed" /\ rows[m.key].batchRef = agg[g].tx
    BY <1>2 DEF ConfirmedMessages
  <1>4. messages' = UpsertObserved(messages, rows)
    BY DEF TickCommit
  <1> HIDE DEF rows
  <1>5. QED
    BY <1>1, <1>2, <1>3, <1>4 DEF UpsertObserved, TypeOK, StoreTypeOK

\* A commit leaves a confirmed row alone, whatever batch confirmed it.
LEMMA CommitKeepsConfirmed ==
  ASSUME TypeOK, NEW g \in Tickers, TickCommit(g), NEW k \in Key,
         messages[k].status = "confirmed"
  PROVE  messages'[k] = messages[k]
  BY DEF TickCommit, UpsertObserved, TypeOK, StoreTypeOK

\* A tick that is not idle after a step holds the pack it held before, unless
\* the step selected it from the queues.
LEMMA PackStep ==
  ASSUME TypeOK, [Next]_posterVars, NEW g \in Tickers, agg'[g].pc # "idle"
  PROVE  \/ /\ agg[g].pc # "idle"
            /\ agg'[g].pack = agg[g].pack
         \/ /\ TickSelect(g)
            /\ UNCHANGED messages
            /\ \A m \in agg'[g].pack :
                  \E k \in Key : m = EntryOf(k) /\ messages[k].status = "pending"
  <1> DEFINE Kept == agg[g].pc # "idle" /\ agg'[g].pack = agg[g].pack
  <1>0. agg \in [Tickers -> Tick]
    BY DEF TypeOK, PosterProcTypeOK, AggTypeOK
  <1>1. ASSUME UNCHANGED agg
        PROVE  Kept
    BY <1>1
  <1>2. ASSUME NEW h \in Tickers, agg' = [agg EXCEPT ![h] = NoTick]
        PROVE  Kept
    BY <1>0, <1>2 DEF NoTick
  <1>3. ASSUME NEW h \in Tickers, TickSend(h) \/ TickReceipt(h)
        PROVE  Kept
    BY <1>0, <1>3 DEF TickSend, TickReceipt, Tick
  <1>4. ASSUME NEW h \in Tickers, TickSelect(h)
        PROVE  \/ Kept
               \/ /\ TickSelect(g)
                  /\ UNCHANGED messages
                  /\ \A m \in agg'[g].pack :
                        \E k \in Key : m = EntryOf(k) /\ messages[k].status = "pending"
    <2>1. PICK K \in SUBSET {k \in Key : messages[k].status = "pending"} :
             agg' = [agg EXCEPT ![h] = [NoTick EXCEPT
                        !.pc = "send", !.pack = {EntryOf(k) : k \in K}]]
      BY <1>4 DEF TickSelect
    <2>2. UNCHANGED messages
      BY <1>4 DEF TickSelect, storeVars
    <2>3. CASE g = h
      BY <1>0, <1>4, <2>1, <2>2, <2>3 DEF NoTick
    <2>4. CASE g # h
      BY <1>0, <2>1, <2>4
    <2>5. QED
      BY <2>3, <2>4
  <1>5. ASSUME Crash
        PROVE  FALSE
    BY <1>5 DEF Crash, NoTick
  <1>6. QED
    BY <1>1, <1>2, <1>3, <1>4, <1>5
       DEF Next, PosterNext, Ingest, Aggregate, WatchReorgs, IngestAccept,
           IngestRetry, IngestReject, TickCommit, TickCommitFails, TickSendFails,
           TickReceiptFails, TickFailed, WatchList, WatchKeep, WatchLost,
           WatchReorg, WatchReorgFails, posterVars, posterProcVars

LEMMA LiveStep ==
  ASSUME SingleTicker, LiveInv, [Next]_posterVars
  PROVE  LiveInv'
  <1> USE DEF LiveInv, BackedInv, TrackerInv
  <1> SUFFICES PackQueued' /\ OneLiveBatch'
    BY BackedStep
  <1>1. ASSUME NEW k \in Key, messages[k].status = "pending",
               \A g \in Tickers : ~ TickCommit(g)
        PROVE  messages'[k] = messages[k]
    BY <1>1, MessagesStep, AcceptedMessages, ReorgedMessages
  <1>2. PackQueued'
    <2> SUFFICES ASSUME NEW g \in Tickers, agg'[g].pc # "idle",
                        NEW m \in agg'[g].pack
                 PROVE  /\ messages'[m.key].status = "pending"
                        /\ messages'[m.key].body = m.body
      BY DEF PackQueued
    <2>1. CASE agg[g].pc # "idle" /\ agg'[g].pack = agg[g].pack
      <3>1. m.key \in Key
        BY <2>1 DEF TypeOK, PosterProcTypeOK, AggTypeOK, Tick, Entry
      <3>2. messages[m.key].status = "pending" /\ messages[m.key].body = m.body
        BY <2>1 DEF PackQueued
      <3>3. \A h \in Tickers : ~ TickCommit(h)
        <4>1. \A h \in Tickers : h = g
          BY DEF SingleTicker
        <4>2. ~ TickCommit(g)
          BY DEF TickCommit, NoTick, TypeOK, PosterProcTypeOK, AggTypeOK
        <4>3. QED
          BY <4>1, <4>2
      <3>4. QED
        BY <1>1, <3>1, <3>2, <3>3
    <2>2. CASE /\ UNCHANGED messages
               /\ \E k \in Key : m = EntryOf(k) /\ messages[k].status = "pending"
      BY <2>2 DEF EntryOf
    <2>3. QED
      BY <2>1, <2>2, PackStep
  <1>3. OneLiveBatch'
    <2> SUFFICES ASSUME NEW e \in BatchId, batches'[e].status = "confirmed",
                        NEW m \in batches'[e].snapshot
                 PROVE  /\ messages'[m.key].status = "confirmed"
                        /\ messages'[m.key].batchRef = e[1]
      BY DEF OneLiveBatch
    <2>1. ASSUME batches[e].status = "confirmed", batches'[e].snapshot = batches[e].snapshot
          PROVE  /\ m.key \in Key
                 /\ messages[m.key].status = "confirmed"
                 /\ messages[m.key].batchRef = e[1]
      BY <2>1 DEF OneLiveBatch, TypeOK, StoreTypeOK, BatchRow, NoBatch, Entry
    <2>2. ASSUME NEW s \in Senders, NEW n \in 0 .. MaxNonce, NEW b \in Bodies,
                 IngestAccept(s, n, b)
          PROVE  /\ messages'[m.key].status = "confirmed"
                 /\ messages'[m.key].batchRef = e[1]
      BY <2>1, <2>2, AcceptedMessages DEF IngestAccept
    <2>3. ASSUME NEW g \in Tickers, TickCommit(g)
          PROVE  /\ messages'[m.key].status = "confirmed"
                 /\ messages'[m.key].batchRef = e[1]
      <3>1. CASE e \in {agg[g].tx} \X PackTags(agg[g].pack)
        <4>1. m \in agg[g].pack /\ e[1] = agg[g].tx
          BY <2>3, <3>1, CommitBatches
        <4>2. messages[m.key].status = "pending" /\ messages[m.key].body = m.body
          BY <2>3, <4>1 DEF PackQueued, TickCommit
        <4>3. QED
          BY <2>3, <4>1, <4>2, CommitQueued
      <3>2. CASE e \notin {agg[g].tx} \X PackTags(agg[g].pack)
        BY <2>1, <2>3, <3>2, CommitBatches, CommitKeepsConfirmed
      <3>3. QED
        BY <3>1, <3>2
    <2>4. ASSUME NEW d \in BatchId, WatchReorg(d)
          PROVE  /\ messages'[m.key].status = "confirmed"
                 /\ messages'[m.key].batchRef = e[1]
      <3>1. batches'[e].snapshot = batches[e].snapshot /\ batches[e].status = "confirmed"
        BY <2>4, ReorgedBatches
      <3>2. e[1] # d[1]
        BY <2>4, ReorgedBatches
      <3>3. QED
        BY <2>1, <2>4, <3>1, <3>2, ReorgedMessages
    <2>5. ASSUME UNCHANGED <<messages, batches>>
          PROVE  /\ messages'[m.key].status = "confirmed"
                 /\ messages'[m.key].batchRef = e[1]
      BY <2>1, <2>5
    <2>6. QED
      BY <2>2, <2>3, <2>4, <2>5, MessagesStep
  <1>4. QED
    BY <1>2, <1>3

\* With the worker as the only caller of tick, a message of a confirmed batch
\* is confirmed under that batch and under no other: the Poster never queues,
\* nor packs again, what it recorded as included.
THEOREM LiveInOneBatch ==
  ASSUME SingleTicker
  PROVE  Spec => []OneLiveBatch
  <1>1. PosterInit => LiveInv
    BY BackedInit DEF LiveInv, PackQueued, OneLiveBatch, PosterInit, StoreInit,
       PosterProcInit, NoTick, NoBatch
  <1>2. LiveInv /\ [Next]_posterVars => LiveInv'
    BY LiveStep
  <1>3. LiveInv => OneLiveBatch
    BY DEF LiveInv
  <1>4. QED
    BY <1>1, <1>2, <1>3, PTL DEF Spec

-----------------------------------------------------------------------------
(* As long as nothing has gone wrong, no message is posted twice *)

Calm == forks = 0 /\ faults = 0

\* Every message of the transaction is recorded as included by it.
Recorded(t) ==
    \A m \in chain[t].pack : /\ messages[m.key].status = "confirmed"
                             /\ messages[m.key].batchRef = t

\* A transaction that was sent is the one its tick waits for, with the tick's
\* own pack, or its inclusion is recorded: no transaction is forgotten.
SentAccounted ==
    \A t \in Tx : chain[t].status # "unsent" =>
        \/ Recorded(t)
        \/ \E g \in Tickers : /\ Waiting(g) /\ agg[g].tx = t
                             /\ agg[g].pack = chain[t].pack

\* What the store or the watcher knows of is on the chain, so the watcher has
\* nothing to take back.
KnownIsMined ==
    /\ \A g \in Tickers : agg[g].pc = "commit" => Mined(agg[g].tx)
    /\ \A e \in BatchId : batches[e].status # "absent" => Mined(e[1])
    /\ \A e \in watch.todo : Mined(e[1])
    /\ watch.cur = {}

CalmInv == LiveInv /\ (Calm => SentAccounted /\ KnownIsMined)

\* A calm step was no fault and no fork, and started calm.
LEMMA CalmBefore ==
  ASSUME TypeOK, [Next]_posterVars, Calm'
  PROVE  /\ Calm
         /\ ~ Crash
         /\ \A kind : ~ Fault(kind)
         /\ \A first \in 1 .. head : ~ Fork(first)
  <1>1. forks \in Nat /\ faults \in Nat
    BY DEF TypeOK, L1TypeOK, PosterProcTypeOK
  <1>2. \A kind : ~ Fault(kind)
    BY <1>1 DEF Calm, Fault
  <1>3. ASSUME NEW first \in 1 .. head, Fork(first)
        PROVE  FALSE
    <2>1. forks' = forks + 1
      BY <1>3, Zenon DEF Fork
    <2>2. QED
      BY <1>1, <2>1 DEF Calm
  <1>4. ~ Crash
    BY <1>2 DEF Crash
  <1>5. \A g \in Tickers, permanent \in BOOLEAN :
           ~ TickSendFails(g, permanent) /\ ~ TickReceiptFails(g, permanent)
    BY <1>2 DEF TickSendFails, TickReceiptFails
  <1>6. ASSUME Ingest
        PROVE  UNCHANGED <<forks, faults>>
    BY <1>6 DEF Ingest, IngestAccept, IngestRetry, IngestReject, l1Vars, posterProcVars
  <1>7. ASSUME Aggregate
        PROVE  UNCHANGED <<forks, faults>>
    <2>1. ASSUME NEW g \in Tickers, TickCommitFails(g)
          PROVE  UNCHANGED <<forks, faults>>
      BY <1>2, <2>1 DEF TickCommitFails, l1Vars
    <2>2. QED
      BY <1>5, <1>7, <2>1 DEF Aggregate, TickSelect, TickSend, TickReceipt, TickCommit, l1Vars
  <1>8. ASSUME WatchReorgs
        PROVE  UNCHANGED <<forks, faults>>
    <2>1. ASSUME NEW e \in BatchId, WatchLost(e)
          PROVE  UNCHANGED <<forks, faults>>
      BY <1>2, <2>1 DEF WatchLost, l1Vars
    <2>2. ASSUME WatchReorgFails
          PROVE  UNCHANGED <<forks, faults>>
      BY <1>2, <2>2 DEF WatchReorgFails, l1Vars
    <2>3. QED
      BY <1>8, <2>1, <2>2 DEF WatchReorgs, WatchList, WatchKeep, WatchReorg, l1Vars
  <1>9. ASSUME L1Next, UNCHANGED <<storeVars, posterProcVars>>
        PROVE  UNCHANGED <<forks, faults>>
    <2>1. UNCHANGED forks
      BY <1>3, <1>9 DEF L1Next, MineTx, MineEmpty
    <2>2. QED
      BY <1>9, <2>1 DEF posterProcVars
  <1>10. UNCHANGED <<forks, faults>>
    BY <1>4, <1>6, <1>7, <1>8, <1>9
       DEF Next, PosterNext, posterVars, l1Vars, posterProcVars
  <1>11. QED
    BY <1>2, <1>3, <1>4, <1>10 DEF Calm

\* What a calm step may do to the transactions and to what is known of them.
LEMMA ForklessChain ==
  ASSUME TypeOK, L1Next, \A first \in 1 .. head : ~ Fork(first), NEW t \in Tx
  PROVE  /\ chain'[t].pack = chain[t].pack
         /\ chain'[t].status = "unsent" <=> chain[t].status = "unsent"
         /\ Mined(t) => Mined(t)'
  <1>1. chain \in [Tx -> ChainTx]
    BY DEF TypeOK, L1TypeOK
  <1>2. ASSUME NEW u \in Tx, NEW ok \in BOOLEAN, MineTx(u, ok)
        PROVE  /\ chain'[t].pack = chain[t].pack
               /\ chain'[t].status = "unsent" <=> chain[t].status = "unsent"
               /\ Mined(t) => Mined(t)'
    <2> DEFINE mined == [chain[u] EXCEPT !.status = "mined", !.block = head + 1,
                                         !.ok = ok]
    <2>1. chain' = [chain EXCEPT ![u] = mined] /\ chain[u].status = "mempool"
      BY <1>2 DEF MineTx
    <2>2. mined.status = "mined" /\ mined.pack = chain[u].pack
      BY <1>1 DEF ChainTx
    <2> HIDE DEF mined
    <2>3. QED
      BY <1>1, <2>1, <2>2 DEF Mined
  <1>3. QED
    BY <1>2 DEF L1Next, MineEmpty, Mined

\* Tickers is one caller: a tick that is not idle is the only one.
LEMMA OneTicker ==
  ASSUME SingleTicker, NEW g \in Tickers, NEW h \in Tickers
  PROVE  g = h
  BY DEF SingleTicker

LEMMA CalmStep ==
  ASSUME SingleTicker, CalmInv, [Next]_posterVars
  PROVE  CalmInv'
  <1> USE DEF CalmInv, LiveInv, BackedInv, TrackerInv
  <1> SUFFICES ASSUME Calm'
               PROVE  SentAccounted' /\ KnownIsMined'
    BY LiveStep
  <1>1. /\ SentAccounted /\ KnownIsMined
        /\ ~ Crash
        /\ \A kind : ~ Fault(kind)
        /\ \A first \in 1 .. head : ~ Fork(first)
    BY CalmBefore
  <1>2. agg \in [Tickers -> Tick] /\ chain \in [Tx -> ChainTx]
    BY DEF TypeOK, PosterProcTypeOK, AggTypeOK, L1TypeOK
  <1>3. \A g \in Tickers : Waiting(g) => agg[g].tx \in Tx
    BY DEF Waiting, TypeOK, PosterProcTypeOK, AggTypeOK
  <1>4. ASSUME NEW t \in Tx, Recorded(t), chain'[t].pack = chain[t].pack,
               \A k \in Key : messages[k].status = "confirmed" => messages'[k] = messages[k]
        PROVE  Recorded(t)'
    BY <1>2, <1>4 DEF Recorded, ChainTx, Entry
  <1>5. ASSUME NEW s \in Senders, NEW n \in 0 .. MaxNonce, NEW b \in Bodies,
               IngestAccept(s, n, b)
        PROVE  SentAccounted' /\ KnownIsMined'
    <2>1. UNCHANGED <<chain, agg, batches, watch>>
      BY <1>5 DEF IngestAccept, l1Vars
    <2>2. \A k \in Key : messages[k].status = "confirmed" => messages'[k] = messages[k]
      BY <1>5, AcceptedMessages
    <2>3. SentAccounted'
      BY <1>1, <1>4, <2>1, <2>2 DEF SentAccounted, Waiting
    <2>4. QED
      BY <1>1, <2>1, <2>3 DEF KnownIsMined, Mined
  <1>6. ASSUME NEW g \in Tickers, TickSelect(g)
        PROVE  SentAccounted' /\ KnownIsMined'
    <2>1. UNCHANGED <<messages, chain, batches, watch>>
      BY <1>6 DEF TickSelect, storeVars, l1Vars
    <2>2. \A h \in Tickers : agg'[h].pc = "send" \/ agg'[h] = agg[h]
      BY <1>2, <1>6 DEF TickSelect
    <2>3. \A h \in Tickers : ~ Waiting(h)
      BY <1>6, OneTicker DEF TickSelect, Waiting
    <2>4. SentAccounted'
      BY <1>1, <2>1, <2>3 DEF SentAccounted, Recorded
    <2>5. QED
      BY <1>1, <2>1, <2>2, <2>4 DEF KnownIsMined, Mined
  <1>7. ASSUME NEW g \in Tickers, TickSend(g)
        PROVE  SentAccounted' /\ KnownIsMined'
    <2>1. PICK t \in Tx :
             /\ NextTx(t)
             /\ EnterMempool(t, agg[g].pack)
             /\ agg' = [agg EXCEPT ![g].pc = "receipt", ![g].tx = t]
      BY <1>7 DEF TickSend
    <2>2. UNCHANGED <<messages, batches, watch>> /\ chain[t].status = "unsent"
      BY <1>7, <2>1 DEF TickSend, storeVars, NextTx
    <2>3. /\ agg'[g].tx = t /\ agg'[g].pc = "receipt"
          /\ agg'[g].pack = agg[g].pack
      BY <1>2, <2>1 DEF Tick
    <2>4. /\ chain'[t].pack = agg[g].pack
          /\ \A u \in Tx : u # t => chain'[u] = chain[u]
      BY <1>2, <2>1 DEF EnterMempool, NoChainTx
    <2>5. \A h \in Tickers : ~ Waiting(h)
      BY <1>7, OneTicker DEF TickSend, Waiting
    <2>6. ASSUME NEW u \in Tx, chain'[u].status # "unsent"
          PROVE  \/ Recorded(u)'
                 \/ \E h \in Tickers : /\ Waiting(h)' /\ agg'[h].tx = u
                                      /\ agg'[h].pack = chain'[u].pack
      <3>1. CASE u = t
        BY <2>3, <2>4, <3>1 DEF Waiting
      <3>2. CASE u # t
        BY <1>1, <1>4, <2>2, <2>4, <2>5, <2>6, <3>2 DEF SentAccounted
      <3>3. QED
        BY <3>1, <3>2
    <2>7. SentAccounted'
      BY <2>6 DEF SentAccounted
    <2>8. \A h \in Tickers : agg'[h].pc # "commit"
      BY <2>3, OneTicker
    <2>9. \A u \in Tx : Mined(u) => Mined(u)'
      BY <2>2, <2>4 DEF Mined
    <2>10. QED
      BY <1>1, <1>3, <2>2, <2>7, <2>8, <2>9 DEF KnownIsMined, BatchId, TypeOK,
         PosterProcTypeOK, Watch
  <1>8. ASSUME NEW g \in Tickers, TickReceipt(g)
        PROVE  SentAccounted' /\ KnownIsMined'
    <2>1. UNCHANGED <<messages, batches, watch, chain>> /\ Mined(agg[g].tx)
      BY <1>8 DEF TickReceipt, storeVars, l1Vars
    <2>2. \A h \in Tickers : /\ Waiting(h)' <=> Waiting(h)
                             /\ agg'[h].tx = agg[h].tx
                             /\ agg'[h].pack = agg[h].pack
      BY <1>2, <1>8 DEF TickReceipt, Waiting, Tick
    <2>3. SentAccounted'
      BY <1>1, <2>1, <2>2 DEF SentAccounted, Recorded
    <2>4. \A h \in Tickers : Mined(agg[h].tx)'
      BY <2>1, <2>2, OneTicker DEF Mined
    <2>5. QED
      BY <1>1, <2>1, <2>3, <2>4 DEF KnownIsMined, Mined
  <1>9. ASSUME NEW g \in Tickers, TickCommit(g)
        PROVE  SentAccounted' /\ KnownIsMined'
    <2>1. UNCHANGED <<chain, watch>> /\ agg' = [agg EXCEPT ![g] = NoTick]
      BY <1>9 DEF TickCommit, l1Vars
    <2>2. agg[g].pc = "commit" /\ agg[g].tx \in Tx /\ Mined(agg[g].tx)
      BY <1>1, <1>3, <1>9 DEF TickCommit, Waiting, KnownIsMined
    <2>3. \A h \in Tickers : agg'[h].pc = "idle"
      BY <1>2, <2>1, OneTicker DEF NoTick
    <2>4. ASSUME NEW u \in Tx, chain'[u].status # "unsent"
          PROVE  Recorded(u)'
      <3>1. CASE Recorded(u)
        BY <1>4, <1>9, <2>1, <3>1, CommitKeepsConfirmed
      <3>2. CASE agg[g].tx = u /\ agg[g].pack = chain[u].pack
        <4>1. \A m \in agg[g].pack : /\ messages[m.key].status = "pending"
                                     /\ messages[m.key].body = m.body
          BY <2>2 DEF PackQueued
        <4>2. \A m \in agg[g].pack : /\ messages'[m.key].status = "confirmed"
                                     /\ messages'[m.key].batchRef = u
          BY <1>9, <3>2, <4>1, CommitQueued
        <4>3. QED
          BY <2>1, <3>2, <4>2 DEF Recorded
      <3>3. QED
        BY <1>1, <2>1, <2>4, <3>1, <3>2, OneTicker DEF SentAccounted
    <2>5. \A e \in BatchId : batches'[e].status # "absent" => Mined(e[1])
      BY <1>1, <1>9, <2>2, CommitBatches DEF KnownIsMined
    <2>6. QED
      BY <1>1, <2>1, <2>3, <2>4, <2>5 DEF SentAccounted, KnownIsMined, Mined
  <1>10. ASSUME NEW g \in Tickers, TickCommitFails(g)
         PROVE  FALSE
    <2>1. PICK m \in agg[g].pack : ObservedConflict(messages, m) /\ agg[g].pc = "commit"
      BY <1>1, <1>10 DEF TickCommitFails
    <2>2. QED
      BY <2>1 DEF PackQueued, ObservedConflict
  <1>11. ASSUME WatchList
         PROVE  SentAccounted' /\ KnownIsMined'
    <2>1. UNCHANGED <<messages, batches, chain, agg>> /\ watch'.cur = {}
      BY <1>11 DEF WatchList, NoWatch, storeVars, l1Vars
    <2>2. \A e \in watch'.todo : e \in BatchId /\ batches[e].status = "confirmed"
      BY <1>11 DEF WatchList, NoWatch, BatchesSince, TypeOK, StoreTypeOK
    <2>3. SentAccounted'
      BY <1>1, <2>1 DEF SentAccounted, Recorded, Waiting
    <2>4. \A e \in watch'.todo : Mined(e[1])'
      BY <1>1, <2>1, <2>2 DEF KnownIsMined, Mined
    <2>5. QED
      BY <1>1, <2>1, <2>3, <2>4 DEF KnownIsMined, Mined
  <1>12. ASSUME NEW e \in BatchId, WatchKeep(e)
         PROVE  SentAccounted' /\ KnownIsMined'
    <2>1. UNCHANGED <<messages, batches, chain, agg>>
      BY <1>12 DEF WatchKeep, storeVars, l1Vars
    <2>2. watch'.cur = {} /\ watch'.todo \subseteq watch.todo
      BY <1>12 DEF WatchKeep, TypeOK, PosterProcTypeOK, Watch
    <2>3. SentAccounted'
      BY <1>1, <2>1 DEF SentAccounted, Recorded, Waiting
    <2>4. QED
      BY <1>1, <2>1, <2>2, <2>3 DEF KnownIsMined, Mined
  <1>13. ASSUME NEW e \in BatchId, WatchLost(e) \/ WatchReorg(e)
         PROVE  FALSE
    BY <1>1, <1>13 DEF WatchLost, WatchReorg, KnownIsMined
  <1>14. ~ WatchReorgFails
    BY <1>1 DEF WatchReorgFails, KnownIsMined
  <1>15. ASSUME L1Next, UNCHANGED <<storeVars, posterProcVars>>
         PROVE  SentAccounted' /\ KnownIsMined'
    <2>1. UNCHANGED <<messages, batches, agg, watch>>
      BY <1>15 DEF storeVars, posterProcVars
    <2>2. \A t \in Tx : /\ chain'[t].pack = chain[t].pack
                        /\ chain'[t].status = "unsent" <=> chain[t].status = "unsent"
                        /\ Mined(t) => Mined(t)'
      BY <1>1, <1>15, ForklessChain
    <2>3. SentAccounted'
      BY <1>1, <2>1, <2>2 DEF SentAccounted, Recorded, Waiting
    <2>4. \A g \in Tickers : agg'[g].pc = "commit" => Mined(agg[g].tx)'
      BY <1>1, <1>3, <2>1, <2>2 DEF KnownIsMined, Waiting
    <2>5. QED
      BY <1>1, <2>1, <2>2, <2>3, <2>4 DEF KnownIsMined, BatchId, TypeOK,
         PosterProcTypeOK, Watch
  <1>16. ASSUME UNCHANGED <<messages, batches, chain, agg, watch>>
         PROVE  SentAccounted' /\ KnownIsMined'
    BY <1>1, <1>16 DEF SentAccounted, Recorded, Waiting, KnownIsMined, Mined
  <1>17. ASSUME NEW g \in Tickers, NEW permanent \in BOOLEAN,
                TickSendFails(g, permanent) \/ TickReceiptFails(g, permanent)
         PROVE  FALSE
    BY <1>1, <1>17 DEF TickSendFails, TickReceiptFails
  <1>18. ASSUME NEW s \in Senders, NEW n \in 0 .. MaxNonce, NEW b \in Bodies,
                IngestRetry(s, n, b)
         PROVE  SentAccounted' /\ KnownIsMined'
    BY <1>16, <1>18 DEF IngestRetry, l1Vars, posterProcVars
  <1>19. ASSUME NEW s \in Senders, IngestReject(s)
         PROVE  SentAccounted' /\ KnownIsMined'
    BY <1>16, <1>19 DEF IngestReject, l1Vars, posterProcVars
  <1>20. ASSUME UNCHANGED posterVars
         PROVE  SentAccounted' /\ KnownIsMined'
    BY <1>16, <1>20 DEF posterVars, storeVars, l1Vars, posterProcVars
  <1>21. QED
    BY <1>1, <1>5, <1>6, <1>7, <1>8, <1>9, <1>10, <1>11, <1>12, <1>13, <1>14,
       <1>15, <1>17, <1>18, <1>19, <1>20
       DEF Next, PosterNext, Ingest, Aggregate, WatchReorgs

\* One caller of tick alone never posts a message twice: it takes a fork or a
\* fault (with two callers, run poster_flush does it without any).  A message
\* in a second transaction would have been packed while its first transaction
\* was awaited or recorded, and then it was not pending.
THEOREM CalmlyIncludedOnce ==
  ASSUME SingleTicker
  PROVE  Spec => []CalmInclusion
  <1>1. PosterInit => CalmInv
    <2> SUFFICES ASSUME PosterInit
                 PROVE  LiveInv /\ SentAccounted /\ KnownIsMined
      BY DEF CalmInv
    <2>1. LiveInv
      BY BackedInit DEF LiveInv, PackQueued, OneLiveBatch, PosterInit, StoreInit,
         PosterProcInit, NoTick, NoBatch
    <2>2. SentAccounted /\ KnownIsMined
      BY DEF PosterInit, StoreInit, L1Init, PosterProcInit, NoTick, NoBatch,
         NoChainTx, NoWatch, SentAccounted, KnownIsMined
    <2>3. QED
      BY <2>1, <2>2
  <1>2. CalmInv /\ [Next]_posterVars => CalmInv'
    BY CalmStep
  <1>3. CalmInv => CalmInclusion
    <2> SUFFICES ASSUME CalmInv, Calm, NEW t \in Tx, NEW u \in Tx, t # u,
                        Mined(t), Mined(u), NEW m \in chain[t].pack,
                        m \in chain[u].pack
                 PROVE  FALSE
      BY DEF CalmInclusion, NoDoubleInclusion, Calm
    <2>1. chain[t].status # "unsent" /\ chain[u].status # "unsent"
      BY DEF Mined
    <2>2. \A v \in {t, u} :
             \/ messages[m.key].status = "confirmed" /\ messages[m.key].batchRef = v
             \/ \E g \in Tickers : /\ agg[g].tx = v
                                  /\ messages[m.key].status = "pending"
      BY <2>1 DEF CalmInv, SentAccounted, Recorded, LiveInv, PackQueued, Waiting
    <2>3. QED
      BY <2>2, OneTicker
  <1>4. QED
    BY <1>1, <1>2, <1>3, PTL DEF Spec

-----------------------------------------------------------------------------
(* With packs of one tag, the cascade strands no message *)

\* A transaction carries one tag: the Poster serves one tag only, or its
\* packs are limited to one.
OneTagPacks == MaxTagsPerPack = 1 \/ \E t : Tags = {t}

OneTagEach ==
    \A g \in Tickers : \A m, n \in agg[g].pack : TagOfEntry(m) = TagOfEntry(n)

\* A transaction has a row of one tag, ...
OneRowEach ==
    \A t \in Tx : \A v, w \in Tags :
        batches[<<t, v>>].status # "absent" /\ batches[<<t, w>>].status # "absent"
            => v = w

\* ... and the watcher looks at rows that exist.
WatchesRows == \A e \in watch.todo \cup watch.cur : batches[e].status # "absent"

\* No message stays behind when its batch is marked: the rows of the batch are
\* re-enqueued by the same transaction.
NoneStranded == \A k \in Key : messages[k].status # "reorged"

StrandInv == BackedInv /\ OneTagEach /\ OneRowEach /\ WatchesRows /\ NoneStranded

\* A finite set of which at most one element is counted has one element.
LEMMA AtMostOne ==
  ASSUME NEW S, IsFiniteSet(S), Cardinality(S) <= 1, NEW x \in S, NEW y \in S
  PROVE  x = y
  <1>1. SUFFICES ASSUME x # y
                 PROVE  FALSE
    OBVIOUS
  <1>2. {x, y} = {x} \cup {y} /\ {x, y} \subseteq S
    OBVIOUS
  <1>3. Cardinality({x}) = 1 /\ IsFiniteSet({x})
    BY FS_Singleton
  <1>4. Cardinality({x} \cup {y}) = 2
    <2>1. y \notin {x}
      BY <1>1
    <2>2. Cardinality({x} \cup {y}) = Cardinality({x}) + 1
      BY <1>3, <2>1, FS_AddElement
    <2>3. QED
      BY <1>3, <2>2
  <1>5. Cardinality({x, y}) <= Cardinality(S) /\ Cardinality(S) \in Nat
    BY <1>2, FS_Subset, FS_CardinalityType
  <1>6. QED
    BY <1>2, <1>4, <1>5

LEMMA SelectOneTag ==
  ASSUME OneTagPacks, TypeOK, NEW K \in SUBSET Key, Packable(K),
         \A k \in K : messages[k].status = "pending",
         NEW m \in {EntryOf(k) : k \in K}, NEW n \in {EntryOf(k) : k \in K}
  PROVE  TagOfEntry(m) = TagOfEntry(n)
  <1> DEFINE pack == {EntryOf(k) : k \in K}
             tags == PackTags(pack)
             f == [k \in K |-> TagOfEntry(EntryOf(k))]
  <1>1. IsFiniteSet(K)
    BY KeyFinite, FS_Subset
  <1>2. f \in Surjection(K, tags)
    BY DEF Surjection, PackTags
  <1>3. IsFiniteSet(tags)
    BY <1>1, <1>2, FS_Surjection
  <1>4. TagOfEntry(m) \in tags /\ TagOfEntry(n) \in tags
    BY DEF PackTags
  <1>5. tags \subseteq Tags
    BY PresentRow, BamStoreAssumption DEF PackTags, EntryOf, TagOfEntry
  <1>6. Cardinality(tags) <= MaxTagsPerPack
    BY DEF Packable
  <1> HIDE DEF tags, pack
  <1>7. QED
    BY <1>3, <1>4, <1>5, <1>6, AtMostOne DEF OneTagPacks

LEMMA OneTagStep ==
  ASSUME OneTagPacks, TypeOK, OneTagEach, [Next]_posterVars
  PROVE  OneTagEach'
  <1>1. agg \in [Tickers -> Tick]
    BY DEF TypeOK, PosterProcTypeOK, AggTypeOK
  <1>2. ASSUME \A g \in Tickers : agg'[g].pack \subseteq agg[g].pack
        PROVE  OneTagEach'
    BY <1>2 DEF OneTagEach, TagOfEntry
  <1>3. ASSUME NEW g \in Tickers, TickSelect(g)
        PROVE  OneTagEach'
    <2>1. PICK K \in SUBSET {k \in Key : messages[k].status = "pending"} :
             /\ Packable(K)
             /\ agg' = [agg EXCEPT ![g] = [NoTick EXCEPT
                           !.pc = "send", !.pack = {EntryOf(k) : k \in K}]]
      BY <1>3 DEF TickSelect
    <2>2. \A h \in Tickers : IF h = g THEN agg'[h].pack = {EntryOf(k) : k \in K}
                                     ELSE agg'[h] = agg[h]
      BY <1>1, <2>1 DEF NoTick
    <2>3. \A m, n \in {EntryOf(k) : k \in K} : TagOfEntry(m) = TagOfEntry(n)
      BY <2>1, SelectOneTag
    <2>4. SUFFICES ASSUME NEW h \in Tickers, NEW m \in agg'[h].pack, NEW n \in agg'[h].pack
                   PROVE  TagOfEntry(m) = TagOfEntry(n)
      BY DEF OneTagEach, TagOfEntry
    <2>5. QED
      BY <2>2, <2>3, <2>4 DEF OneTagEach
  <1>4. ASSUME NEW g \in Tickers, TickSend(g) \/ TickReceipt(g)
        PROVE  OneTagEach'
    BY <1>1, <1>2, <1>4 DEF TickSend, TickReceipt, Tick
  <1>5. ASSUME NEW g \in Tickers, agg' = [agg EXCEPT ![g] = NoTick]
        PROVE  OneTagEach'
    BY <1>1, <1>2, <1>5 DEF NoTick
  <1>6. ASSUME Crash
        PROVE  OneTagEach'
    BY <1>2, <1>6 DEF Crash, NoTick
  <1>7. ASSUME UNCHANGED agg
        PROVE  OneTagEach'
    BY <1>2, <1>7
  <1>8. QED
    BY <1>3, <1>4, <1>5, <1>6, <1>7
       DEF Next, PosterNext, Ingest, IngestAccept, IngestRetry, IngestReject,
           Aggregate, TickCommit, TickCommitFails, TickSendFails,
           TickReceiptFails, TickFailed, WatchReorgs, WatchList, WatchKeep,
           WatchLost, WatchReorg, WatchReorgFails, posterVars, posterProcVars

LEMMA OneRowStep ==
  ASSUME TypeOK, TxOwned, OneTagEach, OneRowEach, [Next]_posterVars
  PROVE  OneRowEach'
  <1>1. ASSUME NEW g \in Tickers, TickCommit(g)
        PROVE  OneRowEach'
    <2> SUFFICES ASSUME NEW t \in Tx, NEW v \in Tags, NEW w \in Tags,
                        batches'[<<t, v>>].status # "absent",
                        batches'[<<t, w>>].status # "absent"
                 PROVE  v = w
      BY DEF OneRowEach
    <2>1. <<t, v>> \in BatchId /\ <<t, w>> \in BatchId
      BY DEF BatchId
    <2>2. CASE t = agg[g].tx
      <3>1. Unrecorded(t)
        BY <1>1, <2>2 DEF TxOwned, Waiting, TickCommit
      <3>2. v \in PackTags(agg[g].pack) /\ w \in PackTags(agg[g].pack)
        BY <1>1, <2>1, <3>1, CommitBatches DEF Unrecorded
      <3>3. QED
        BY <3>2 DEF PackTags, OneTagEach
    <2>3. CASE t # agg[g].tx
      BY <1>1, <2>1, <2>3, CommitBatches DEF OneRowEach
    <2>4. QED
      BY <2>2, <2>3
  <1>2. ASSUME NEW e \in BatchId, WatchReorg(e)
        PROVE  OneRowEach'
    BY <1>2, ReorgedBatches DEF OneRowEach, BatchId
  <1>3. QED
    BY <1>1, <1>2, BatchesStep DEF OneRowEach

\* Rows are never removed, and the watcher's list is read from them.
LEMMA WatchesStep ==
  ASSUME TypeOK, TxOwned, WatchesRows, [Next]_posterVars
  PROVE  WatchesRows'
  <1>1. watch \in Watch
    BY DEF TypeOK, PosterProcTypeOK
  <1>2. \A e \in BatchId : batches[e].status # "absent" => batches'[e].status # "absent"
    BY BatchesStep, CommitBatches, ReorgedBatches
  <1>3. ASSUME watch'.todo \cup watch'.cur \subseteq watch.todo \cup watch.cur
        PROVE  WatchesRows'
    BY <1>1, <1>2, <1>3 DEF WatchesRows, Watch
  <1>4. ASSUME WatchList
        PROVE  WatchesRows'
    BY <1>2, <1>4 DEF WatchList, NoWatch, BatchesSince, WatchesRows, TypeOK, StoreTypeOK
  <1>5. ASSUME NEW e \in BatchId, WatchKeep(e) \/ WatchLost(e) \/ WatchReorg(e)
        PROVE  WatchesRows'
    <2>1. e \in watch.todo \cup watch.cur
      BY <1>5 DEF WatchKeep, WatchLost, WatchReorg
    <2>2. QED
      BY <1>1, <1>3, <1>5, <2>1 DEF WatchKeep, WatchLost, WatchReorg, Watch
  <1>6. ASSUME watch' = NoWatch
        PROVE  WatchesRows'
    BY <1>3, <1>6 DEF NoWatch
  <1>7. ASSUME UNCHANGED watch
        PROVE  WatchesRows'
    BY <1>3, <1>7
  <1>8. QED
    BY <1>4, <1>5, <1>6, <1>7
       DEF Next, PosterNext, Ingest, IngestAccept, IngestRetry, IngestReject,
           Aggregate, TickSelect, TickSend, TickReceipt, TickCommit,
           TickCommitFails, TickSendFails, TickReceiptFails, TickFailed,
           WatchReorgs, WatchReorgFails, Crash, posterVars, posterProcVars

\* The transaction that marks a batch leaves none of the batch's own messages
\* reorged.
LEMMA RequeueOwn ==
  ASSUME TypeOK, NEW e \in BatchId, WatchReorg(e), NEW k \in Key,
         messages'[k].status = "reorged"
  PROVE  k \notin Attached(e)
  <1> DEFINE ms == ReorgMessages(messages, e[1])
             K == {l \in Attached(e) : ms[l].status # "pending"}
  <1> SUFFICES ASSUME k \in Attached(e)
               PROVE  FALSE
    OBVIOUS
  <1>1. PICK rank \in RequeueOrders(K) :
           messages' = UpsertObserved(ms, RequeuedMessages(K, e[2], rank))
    BY DEF WatchReorg
  <1>2. DOMAIN ms = Key
    BY DEF ReorgMessages, TypeOK, StoreTypeOK
  <1>3. ms[k].status # "confirmed"
    BY DEF Attached, ReorgMessages, TypeOK, StoreTypeOK, MessageRow, NoMessage
  <1> HIDE DEF ms
  <1>4. CASE ms[k].status = "pending"
    BY <1>1, <1>2, <1>4 DEF UpsertObserved, RequeuedMessages
  <1>5. CASE ms[k].status # "pending"
    <2>1. k \in K
      BY <1>5
    <2> HIDE DEF K
    <2>2. QED
      BY <1>1, <1>2, <1>3, <2>1 DEF UpsertObserved, RequeuedMessages
  <1>6. QED
    BY <1>4, <1>5

LEMMA StrandStep ==
  ASSUME OneTagPacks, StrandInv, [Next]_posterVars
  PROVE  StrandInv'
  <1> USE DEF StrandInv, BackedInv, TrackerInv
  <1>1. BackedInv' /\ OneTagEach' /\ OneRowEach' /\ WatchesRows'
    BY BackedStep, OneTagStep, OneRowStep, WatchesStep
  <1>2. NoneStranded'
    <2> SUFFICES ASSUME NEW k \in Key, messages'[k].status = "reorged"
                 PROVE  FALSE
      BY DEF NoneStranded
    <2>1. messages[k].status # "reorged"
      BY DEF NoneStranded
    <2>2. ASSUME NEW e \in BatchId, WatchReorg(e)
          PROVE  FALSE
      <3>1. messages[k].batchRef = e[1] /\ messages[k].status = "confirmed"
        <4>1. messages[k].batchRef = e[1] /\ messages[k].status # "pending"
          BY <2>1, <2>2, ReorgedMessages
        <4>2. e[1] # NoTx
          BY DEF BatchId, Tx, NoTx
        <4>3. messages[k] \in MessageRow \cup {NoMessage}
          BY DEF TypeOK, StoreTypeOK
        <4>4. QED
          BY <2>1, <4>1, <4>2, <4>3 DEF MessageRow, MessageStatus, NoMessage
      <3> DEFINE d == <<e[1], TagOf[messages[k].body]>>
      <3>2. d \in BatchId /\ batches[d].status = "confirmed"
        BY <3>1 DEF ConfirmedBacked
      <3>3. batches[e].status # "absent"
        BY <2>2 DEF WatchReorg, WatchesRows
      <3>4. e = <<e[1], e[2]>> /\ e[1] \in Tx /\ e[2] \in Tags
        BY DEF BatchId
      <3>5. TagOf[messages[k].body] = e[2]
        BY <3>2, <3>3, <3>4 DEF OneRowEach, BatchId
      <3>6. QED
        BY <2>2, <3>1, <3>5, RequeueOwn DEF Attached
    <2>3. QED
      BY <2>1, <2>2, MessagesStep, AcceptedMessages, CommitMessages
  <1>3. QED
    BY <1>1, <1>2

\* With packs of one tag no message is left reorged between two transactions,
\* whatever forks, crashes, faults and callers of tick do: the batch that is
\* marked is the only one of its transaction, and its messages are re-enqueued
\* with the mark.  (With two tags in a transaction, run poster_packed_fork
\* strands the messages of the second.)
THEOREM ReorgStrandsNone ==
  ASSUME OneTagPacks
  PROVE  Spec => [](NoneStranded /\ ReorgedIsRequeued)
  <1>1. PosterInit => StrandInv
    BY BackedInit DEF StrandInv, OneTagEach, OneRowEach, WatchesRows, NoneStranded,
       PosterInit, StoreInit, PosterProcInit, NoTick, NoWatch, NoBatch, NoMessage,
       BatchId
  <1>2. StrandInv /\ [Next]_posterVars => StrandInv'
    BY StrandStep
  <1>3. StrandInv => NoneStranded /\ ReorgedIsRequeued
    BY DEF StrandInv, NoneStranded, ReorgedIsRequeued
  <1>4. QED
    BY <1>1, <1>2, <1>3, PTL DEF Spec
=============================================================================
