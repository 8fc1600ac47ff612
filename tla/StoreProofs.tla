----------------------------- MODULE StoreProofs -----------------------------
(***************************************************************************)
(* Lemmas about the statements of the store and the steps of the chain,    *)
(* used by the theorems of the Poster and of the Reader.                   *)
(***************************************************************************)
EXTENDS L1, FiniteSetTheorems, NaturalsInduction, WellFoundedInduction, TLAPS

-----------------------------------------------------------------------------
(* Least elements.  They stand in for induction: the set of counterexamples *)
(* of a statement about numbers, if it is not empty, has a least one.       *)

LEMMA LeastNumber ==
  ASSUME NEW S \in SUBSET Nat, S # {}
  PROVE  \E n \in S : \A m \in S : n <= m
  <1>1. PICK n \in S : \A m \in S : ~(<<m, n>> \in OpToRel(<, Nat))
    BY NatLessThanWellFounded, WFMin
  <1>2. \A m \in S : ~(m < n)
    BY <1>1 DEF OpToRel
  <1>3. QED
    BY <1>2

\* Among numbers with a bound there is a greatest one.
LEMMA GreatestNumber ==
  ASSUME NEW bound \in Nat, NEW S \in SUBSET (0 .. bound), S # {}
  PROVE  \E n \in S : \A m \in S : m <= n
  <1> DEFINE gaps == {i \in 0 .. bound : bound - i \in S}
  <1>1. gaps # {} /\ gaps \in SUBSET Nat
    <2>1. PICK n \in S : n \in 0 .. bound
      OBVIOUS
    <2>2. bound - n \in 0 .. bound /\ bound - (bound - n) = n
      BY <2>1
    <2>3. bound - n \in gaps
      BY <2>1, <2>2
    <2>4. QED
      BY <2>3
  <1>2. PICK i \in gaps : \A j \in gaps : i <= j
    BY <1>1, LeastNumber
  <1>3. ASSUME NEW m \in S
        PROVE  m <= bound - i
    <2>1. m \in 0 .. bound /\ bound - m \in 0 .. bound /\ bound - (bound - m) = m
      OBVIOUS
    <2>2. bound - m \in gaps
      BY <2>1
    <2>3. i <= bound - m /\ i \in 0 .. bound
      BY <1>2, <2>2
    <2>4. QED
      BY <2>1, <2>3
  <1>4. QED
    BY <1>2, <1>3

-----------------------------------------------------------------------------
(* Lemmas about the store's statements *)

MessageTable == [Key -> MessageRow \cup {NoMessage}]
BatchTable == [BatchId -> BatchRow \cup {NoBatch}]

LEMMA KeyFinite == IsFiniteSet(Key)
  <1>1. IsFiniteSet(0 .. MaxNonce)
    BY FS_Interval, BamStoreAssumption
  <1>2. QED
    BY <1>1, FS_Product, BamStoreAssumption DEF Key

\* The rows of a transaction keep the table well typed.
LEMMA UpsertObservedType ==
  ASSUME NEW ms \in MessageTable, NEW rows,
         \A k \in DOMAIN rows : rows[k] \in MessageRow
  PROVE  UpsertObserved(ms, rows) \in MessageTable
  BY DEF UpsertObserved, MessageTable

LEMMA InsertPendingType ==
  ASSUME NEW ms \in MessageTable, NEW k \in Key, NEW b \in Bodies,
         NEW seq \in Nat
  PROVE  InsertPending(ms, k, b, seq) \in MessageTable
  BY DEF InsertPending, MessageRow, MessageStatus, NoTx, MessageTable

LEMMA ReorgMessagesType ==
  ASSUME NEW ms \in MessageTable, NEW t
  PROVE  ReorgMessages(ms, t) \in MessageTable
  BY DEF ReorgMessages, MessageRow, MessageStatus, MessageTable, NoMessage

LEMMA ReorgBatchesType ==
  ASSUME NEW bs \in BatchTable, NEW t
  PROVE  ReorgBatches(bs, t) \in BatchTable
  <1>1. \A e \in BatchId : bs[e].status # "absent" => bs[e] \in BatchRow
    BY DEF BatchTable, NoBatch
  <1>2. \A r \in BatchRow :
           [r EXCEPT !.status = "reorged", !.invalidatedAt = TRUE] \in BatchRow
    BY DEF BatchRow, BatchStatus
  <1>3. QED
    BY <1>1, <1>2 DEF ReorgBatches, BatchTable

LEMMA MergeBatchType ==
  ASSUME NEW old \in BatchRow, NEW new \in BatchRow
  PROVE  MergeBatch(old, new) \in BatchRow
  BY DEF MergeBatch, BatchRow

LEMMA UpsertBatchType ==
  ASSUME NEW bs \in BatchTable, NEW rows,
         \A e \in DOMAIN rows : rows[e] \in BatchRow
  PROVE  UpsertBatch(bs, rows) \in BatchTable
  <1>1. \A e \in BatchId : bs[e].status # "absent" => bs[e] \in BatchRow
    BY DEF BatchTable, NoBatch
  <1>2. \A e \in BatchId :
           (IF e \notin DOMAIN rows THEN bs[e]
            ELSE IF bs[e].status = "absent" THEN rows[e]
            ELSE MergeBatch(bs[e], rows[e])) \in BatchRow \cup {NoBatch}
    BY <1>1, MergeBatchType DEF BatchTable
  <1>3. QED
    BY <1>2 DEF UpsertBatch, BatchTable

-----------------------------------------------------------------------------
(* getMaxNonReorgedNonce names a row of the sender when it names anything *)

LEMMA MaxNonceRow ==
  ASSUME NEW ms \in MessageTable, NEW s \in Senders
  PROVE  /\ MaxNonReorgedNonce(ms, s) \in NonceRow
         /\ MaxNonReorgedNonce(ms, s) = NoNonce
              \/ LET k == <<s, MaxNonReorgedNonce(ms, s).lastNonce>>
                 IN  /\ k \in Key
                     /\ ms[k].status # "absent"
                     /\ ms[k].body = MaxNonReorgedNonce(ms, s).lastBody
  <1>1. CASE Slots(ms, s) = {}
    <2>1. NoNonce \in NonceRow
      BY BamStoreAssumption DEF NoNonce, NonceRow
    <2>2. QED
      BY <1>1, <2>1 DEF MaxNonReorgedNonce
  <1>2. CASE Slots(ms, s) # {}
    <2> DEFINE greatest(k) == k \in Slots(ms, s) /\ \A l \in Slots(ms, s) : l[2] <= k[2]
               k == CHOOSE k \in Slots(ms, s) : \A l \in Slots(ms, s) : l[2] <= k[2]
               used == {l[2] : l \in Slots(ms, s)}
    <2>1. Slots(ms, s) \subseteq Key /\ \A l \in Slots(ms, s) : ms[l].status # "absent" /\ l[1] = s
      BY DEF Slots, MessageTable
    <2>2. used \in SUBSET (0 .. MaxNonce) /\ used # {}
      BY <1>2, <2>1 DEF Key
    <2>3. \E n \in used : \A m \in used : m <= n
      BY <2>2, GreatestNumber, BamStoreAssumption
    <2>4. \E l \in Slots(ms, s) : greatest(l)
      BY <2>3
    <2>5. k \in Slots(ms, s)
      BY <2>4
    <2>6. MaxNonReorgedNonce(ms, s) = [lastNonce |-> k[2], lastBody |-> ms[k].body]
      BY <1>2 DEF MaxNonReorgedNonce
    <2> HIDE DEF k
    <2>7. /\ k \in Key /\ k = <<s, k[2]>> /\ k[2] \in 0 .. MaxNonce
          /\ ms[k].status # "absent"
      BY <2>1, <2>5 DEF Key
    <2>8. ms[k].body \in Bodies
      BY <2>7 DEF MessageTable, MessageRow, NoMessage
    <2>9. [lastNonce |-> k[2], lastBody |-> ms[k].body] \in NonceRow
      BY <2>7, <2>8, BamStoreAssumption DEF NonceRow
    <2>10. QED
      BY <2>6, <2>7, <2>9
  <1>3. QED
    BY <1>1, <1>2

-----------------------------------------------------------------------------
(* The chain *)

\* What mining and a fork do to one transaction.
LEMMA MinedType ==
  ASSUME NEW c \in ChainTx, NEW block \in Nat, NEW ok \in BOOLEAN
  PROVE  [c EXCEPT !.status = "mined", !.block = block, !.ok = ok] \in ChainTx
  BY DEF ChainTx

LEMMA MovedType ==
  ASSUME NEW c \in ChainTx, NEW block \in Nat
  PROVE  /\ [c EXCEPT !.status = "mempool", !.block = 0] \in ChainTx
         /\ [c EXCEPT !.block = block] \in ChainTx
  BY DEF ChainTx

LEMMA L1TypeStep == L1TypeOK /\ L1Next => L1TypeOK'
  <1> SUFFICES ASSUME L1TypeOK, L1Next
               PROVE  L1TypeOK'
    OBVIOUS
  <1>1. head \in Nat /\ chain \in [Tx -> ChainTx] /\ forks \in Nat
    BY DEF L1TypeOK
  <1>2. ASSUME NEW t \in Tx, NEW ok \in BOOLEAN, MineTx(t, ok)
        PROVE  L1TypeOK'
    <2>1. head' \in Nat /\ forks' \in Nat
      BY <1>1, <1>2 DEF MineTx
    <2> DEFINE mined == [chain[t] EXCEPT !.status = "mined", !.block = head + 1,
                                         !.ok = ok]
    <2>2. chain' = [chain EXCEPT ![t] = mined]
      BY <1>2 DEF MineTx
    <2>3. chain[t] \in ChainTx /\ head + 1 \in Nat
      BY <1>1
    <2>4. mined \in ChainTx
      BY <2>3, MinedType
    <2> HIDE DEF mined
    <2>5. chain' \in [Tx -> ChainTx]
      BY <1>1, <2>2, <2>4
    <2>6. QED
      BY <2>1, <2>5 DEF L1TypeOK
  <1>3. ASSUME MineEmpty
        PROVE  L1TypeOK'
    BY <1>1, <1>3 DEF MineEmpty, L1TypeOK
  <1>4. ASSUME NEW first \in 1 .. head, Fork(first)
        PROVE  L1TypeOK'
    <2> DEFINE moved == {t \in Tx : Mined(t) /\ chain[t].block >= first}
    <2>1. PICK place \in [moved -> {0} \cup (first .. head)] :
            chain' = [t \in Tx |->
                  IF t \notin moved THEN chain[t]
                  ELSE IF place[t] = 0
                  THEN [chain[t] EXCEPT !.status = "mempool", !.block = 0]
                  ELSE [chain[t] EXCEPT !.block = place[t]]]
      BY <1>4 DEF Fork
    <2> HIDE DEF moved
    <2>2. {0} \cup (first .. head) \subseteq Nat
      BY <1>1
    <2>3. \A t \in moved : place[t] \in Nat
      BY <2>1, <2>2
    <2>4. \A t \in Tx : (IF t \notin moved THEN chain[t]
                         ELSE IF place[t] = 0
                         THEN [chain[t] EXCEPT !.status = "mempool", !.block = 0]
                         ELSE [chain[t] EXCEPT !.block = place[t]]) \in ChainTx
      BY <1>1, <2>3, MovedType
    <2>5. chain' \in [Tx -> ChainTx]
      <3>1. chain' = [t \in Tx |->
                  IF t \notin moved THEN chain[t]
                  ELSE IF place[t] = 0
                  THEN [chain[t] EXCEPT !.status = "mempool", !.block = 0]
                  ELSE [chain[t] EXCEPT !.block = place[t]]]
        BY <2>1
      <3>2. QED
        BY <2>4, <3>1
    <2>6. forks' = forks + 1 /\ head' = head
      BY <1>4 DEF Fork
    <2>7. QED
      BY <1>1, <2>5, <2>6 DEF L1TypeOK
  <1>5. QED
    BY <1>2, <1>3, <1>4 DEF L1Next
=============================================================================
