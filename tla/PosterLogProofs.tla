--------------------------- MODULE PosterLogProofs ---------------------------
(***************************************************************************)
(* The Poster with one caller of tick implements MessageLog.  Two          *)
(* invariants carry the order of a queue through packs and forks: the      *)
(* pending rows of a tag have distinct numbers up to the tag's counter,    *)
(* and what a tick packed is ahead of everything it left.                  *)
(* On the same invariant rests what a client sees of the queue and of the  *)
(* history (AcceptedIsVisible).                                            *)
(***************************************************************************)
EXTENDS PosterProofs, PosterViews

SameTag(k, l) == TagOf[messages[k].body] = TagOf[messages[l].body]
Pending(k) == messages[k].status = "pending"

\* The numbers of a queue are handed out once, by the tag's counter.
NumbersInOrder ==
    /\ \A k \in Key : Pending(k) =>
          /\ messages[k].ingestSeq > 0
          /\ messages[k].ingestSeq <= tagSeq[TagOf[messages[k].body]]
    /\ \A k, l \in Key :
          k # l /\ Pending(k) /\ Pending(l) /\ SameTag(k, l)
            => messages[k].ingestSeq # messages[l].ingestSeq

\* A pack stays a prefix of the queues while its transaction is under way.
PackAhead ==
    \A g \in Tickers : agg[g].pc # "idle" =>
        \A m \in agg[g].pack : \A k \in Key :
            Pending(k) /\ TagOf[messages[k].body] = TagOfEntry(m)
                       /\ EntryOf(k) \notin agg[g].pack
              => messages[m.key].ingestSeq < messages[k].ingestSeq

LogInv == LiveInv /\ NumbersInOrder /\ PackAhead

-----------------------------------------------------------------------------
(* What the three writers of `messages' do to the queues *)

\* A new row takes the next number of its tag, at a key without a row.
LEMMA AcceptedRow ==
  ASSUME TypeOK, TrackerDominates, NEW s \in Senders, NEW n \in 0 .. MaxNonce,
         NEW b \in Bodies, IngestAccept(s, n, b)
  PROVE  /\ <<s, n>> \in Key
         /\ messages[<<s, n>>].status = "absent"
         /\ messages'[<<s, n>>] = [status |-> "pending", body |-> b, batchRef |-> NoTx,
                                   ingestSeq |-> tagSeq[TagOf[b]] + 1]
         /\ \A k \in Key : k # <<s, n>> => messages'[k] = messages[k]
         /\ TagOf[b] \in Tags
         /\ tagSeq' = [tagSeq EXCEPT ![TagOf[b]] = @ + 1]
  <1>1. <<s, n>> \in Key
    BY DEF Key
  <1>2. n > nonces[s].lastNonce
    BY LastAcceptedIsTracker DEF IngestAccept
  <1>3. nonces[s].lastNonce \in -1 .. MaxNonce
    BY DEF TypeOK, StoreTypeOK, NonceRow
  <1>4. messages[<<s, n>>].status = "absent"
    BY <1>1, <1>2, <1>3, BamStoreAssumption DEF TrackerDominates
  <1>5. QED
    BY <1>1, <1>4, BamStoreAssumption DEF IngestAccept, InsertPending, TypeOK, StoreTypeOK

\* A commit changes the rows of its pack only, and none of them stays pending.
LEMMA CommittedRow ==
  ASSUME LiveInv, NEW g \in Tickers, TickCommit(g), NEW k \in Key
  PROVE  IF Pending(k) /\ EntryOf(k) \in agg[g].pack
         THEN /\ messages'[k].status = "confirmed"
              /\ messages'[k].body = messages[k].body
         ELSE messages'[k] = messages[k]
  <1> USE DEF LiveInv, BackedInv, TrackerInv
  <1>1. agg[g].pc = "commit"
    BY DEF TickCommit
  <1>2. EntryOf(k).key = k /\ EntryOf(k).body = messages[k].body
    BY DEF EntryOf
  <1>3. EntryOf(k) \in agg[g].pack => Pending(k)
    BY <1>1, <1>2 DEF PackQueued, Pending
  <1>4. CASE EntryOf(k) \in agg[g].pack
    BY <1>2, <1>3, <1>4, CommitQueued, CommitMessages DEF Pending
  <1>5. CASE EntryOf(k) \notin agg[g].pack
    BY <1>5, CommitMessages
  <1>6. QED
    BY <1>3, <1>4, <1>5

\* What reorgBatch takes back: the rows confirmed under the transaction; and
\* what it re-enqueues: those of the batch's own tag, and those of the tag
\* that an earlier mark left reorged.
TakenBack(e, k) == messages[k].batchRef = e[1] /\ messages[k].status = "confirmed"
Requeued(e, k) ==
    /\ k \in Attached(e)
    /\ messages[k].status \in {"confirmed", "reorged"}

LEMMA ReorgedRows ==
  ASSUME TypeOK, NEW e \in BatchId, WatchReorg(e)
  PROVE  \E rank \in RequeueOrders({k \in Key : Requeued(e, k)}) :
           /\ tagSeq' = [tagSeq EXCEPT ![e[2]] =
                            @ + Cardinality({k \in Key : Requeued(e, k)})]
           /\ \A k \in Key :
                /\ Requeued(e, k) =>
                      messages'[k] = [status |-> "pending", body |-> messages[k].body,
                                      batchRef |-> NoTx, ingestSeq |-> tagSeq[e[2]] + rank[k]]
                /\ ~ Requeued(e, k) =>
                      messages'[k] = IF TakenBack(e, k)
                                     THEN [messages[k] EXCEPT !.status = "reorged"]
                                     ELSE messages[k]
  <1> DEFINE ms == ReorgMessages(messages, e[1])
             K == {k \in Attached(e) : ms[k].status # "pending"}
  <1>1. \A k \in Key : messages[k] \in MessageRow \cup {NoMessage}
    BY DEF TypeOK, StoreTypeOK
  <1>2. DOMAIN ms = Key
    BY DEF ReorgMessages, TypeOK, StoreTypeOK
  <1>3. \A k \in Key : ms[k] = IF TakenBack(e, k)
                               THEN [messages[k] EXCEPT !.status = "reorged"]
                               ELSE messages[k]
    BY DEF ReorgMessages, TakenBack, TypeOK, StoreTypeOK
  <1>4. \A k \in Key : TakenBack(e, k) => /\ ms[k].status = "reorged"
                                          /\ ms[k].body = messages[k].body
    BY <1>1, <1>3 DEF MessageRow, NoMessage
  <1>5. e[1] # NoTx
    BY DEF BatchId, Tx, NoTx
  <1> HIDE DEF ms
  <1>6. K = {k \in Key : Requeued(e, k)}
    <2>1. ASSUME NEW k \in Attached(e)
          PROVE  ms[k].status # "pending" <=> messages[k].status \in {"confirmed", "reorged"}
      <3>1. k \in Key /\ messages[k].batchRef = e[1]
        BY DEF Attached
      <3>2. messages[k].status \in MessageStatus
        BY <1>1, <1>5, <3>1 DEF MessageRow, NoMessage
      <3>3. QED
        BY <1>3, <1>4, <3>1, <3>2 DEF TakenBack, MessageStatus
    <2>2. QED
      BY <2>1 DEF Requeued, Attached
  <1>7. PICK rank \in RequeueOrders(K) :
           messages' = UpsertObserved(ms, RequeuedMessages(K, e[2], rank))
    BY DEF WatchReorg, ms
  <1>8. tagSeq' = [tagSeq EXCEPT ![e[2]] = @ + Cardinality(K)]
    BY DEF WatchReorg, ms
  <1> HIDE DEF K
  <1>9. ASSUME NEW k \in Key, k \in K
        PROVE  messages'[k] = [status |-> "pending", body |-> messages[k].body,
                               batchRef |-> NoTx, ingestSeq |-> tagSeq[e[2]] + rank[k]]
    <2>1. ms[k].status # "confirmed"
      BY <1>3, <1>4, <1>6, <1>9 DEF TakenBack, Requeued, Attached
    <2>2. QED
      BY <1>2, <1>7, <1>9, <2>1 DEF UpsertObserved, RequeuedMessages
  <1>10. ASSUME NEW k \in Key, k \notin K
         PROVE  messages'[k] = ms[k]
    BY <1>2, <1>7, <1>10 DEF UpsertObserved, RequeuedMessages
  <1>11. QED
    BY <1>3, <1>6, <1>7, <1>8, <1>9, <1>10

\* A step that writes `messages' or `tag_seq' accepts, commits or reorgs.
LEMMA QueueStep ==
  ASSUME [Next]_posterVars
  PROVE  \/ \E s \in Senders, n \in 0 .. MaxNonce, b \in Bodies : IngestAccept(s, n, b)
         \/ \E g \in Tickers : TickCommit(g)
         \/ \E e \in BatchId : WatchReorg(e)
         \/ UNCHANGED <<messages, tagSeq>>
  BY DEF Next, PosterNext, Ingest, Aggregate, WatchReorgs, IngestAccept,
     IngestRetry, IngestReject, TickSelect, TickSend, TickReceipt,
     TickCommitFails, TickSendFails, TickReceiptFails, TickFailed, WatchList,
     WatchKeep, WatchLost, WatchReorgFails, Crash, storeVars, posterVars

\* The ranks of a re-enqueue are numbers of their own.
LEMMA RequeueRanks ==
  ASSUME TypeOK, NEW K \in SUBSET Key, NEW rank \in RequeueOrders(K)
  PROVE  /\ Cardinality(K) \in Nat
         /\ \A k \in K : rank[k] \in Nat /\ rank[k] > 0 /\ rank[k] <= Cardinality(K)
         /\ \A k, l \in K : k # l => rank[k] # rank[l]
  <1>1. IsFiniteSet(K)
    BY KeyFinite, FS_Subset
  <1>2. Cardinality(K) \in Nat
    BY <1>1, FS_CardinalityType
  <1>3. QED
    BY <1>2 DEF RequeueOrders

\* The pending rows after a step are rows that were pending before, with their
\* number, or rows with a number above their tag's counter.
Kept(k) == /\ Pending(k)
           /\ messages'[k].body = messages[k].body
           /\ messages'[k].ingestSeq = messages[k].ingestSeq
Renumbered(k) == messages'[k].ingestSeq > tagSeq[TagOf[messages'[k].body]]

CountersGrow == \A t \in Tags : tagSeq'[t] \in Nat /\ tagSeq'[t] >= tagSeq[t]
NumberedRow(k) ==
    Pending(k)' =>
        /\ messages'[k].ingestSeq \in Nat
        /\ messages'[k].body \in Bodies
        /\ messages'[k].ingestSeq <= tagSeq'[TagOf[messages'[k].body]]
        /\ Kept(k) \/ Renumbered(k)
NewDistinct ==
    \A k, l \in Key :
        k # l /\ Pending(k)' /\ Pending(l)' /\ Renumbered(k) /\ Renumbered(l)
          => messages'[k].ingestSeq # messages'[l].ingestSeq

LEMMA NumberedRows ==
  ASSUME LogInv, [Next]_posterVars
  PROVE  CountersGrow /\ (\A k \in Key : NumberedRow(k)) /\ NewDistinct
  <1> USE DEF LogInv, LiveInv, BackedInv, TrackerInv
  <1> DEFINE Goal == CountersGrow /\ (\A k \in Key : NumberedRow(k)) /\ NewDistinct
  <1>1. /\ tagSeq \in [Tags -> Nat]
        /\ \A k \in Key : Pending(k) => /\ messages[k].ingestSeq \in Nat
                                       /\ messages[k].body \in Bodies
                                       /\ TagOf[messages[k].body] \in Tags
                                       /\ messages[k].ingestSeq <= tagSeq[TagOf[messages[k].body]]
    BY PresentRow, BamStoreAssumption DEF TypeOK, StoreTypeOK, Pending, MessageRow, NumbersInOrder
  <1>2. ASSUME \A k \in Key : Pending(k)' => messages'[k] = messages[k],
               UNCHANGED tagSeq
        PROVE  Goal
    <2>1. \A k \in Key : Pending(k)' => Kept(k) /\ ~ Renumbered(k)
      BY <1>1, <1>2 DEF Pending, Kept, Renumbered
    <2>2. CountersGrow
      BY <1>1, <1>2 DEF CountersGrow
    <2>3. \A k \in Key : NumberedRow(k)
      BY <1>1, <1>2, <2>1 DEF NumberedRow, Kept, Pending
    <2>4. NewDistinct
      BY <2>1 DEF NewDistinct, Pending
    <2>5. QED
      BY <2>2, <2>3, <2>4
  <1>3. ASSUME NEW s \in Senders, NEW n \in 0 .. MaxNonce, NEW b \in Bodies,
               IngestAccept(s, n, b)
        PROVE  Goal
    <2> DEFINE new == <<s, n>>
    <2>1. /\ new \in Key
          /\ messages'[new] = [status |-> "pending", body |-> b, batchRef |-> NoTx,
                               ingestSeq |-> tagSeq[TagOf[b]] + 1]
          /\ \A k \in Key : k # new => messages'[k] = messages[k]
          /\ TagOf[b] \in Tags
          /\ tagSeq' = [tagSeq EXCEPT ![TagOf[b]] = @ + 1]
      BY <1>3, AcceptedRow
    <2> HIDE DEF new
    <2>2. /\ messages'[new].ingestSeq = tagSeq[TagOf[b]] + 1
          /\ messages'[new].body = b
      BY <2>1
    <2>3. \A t \in Tags : tagSeq'[t] = IF t = TagOf[b] THEN tagSeq[t] + 1 ELSE tagSeq[t]
      BY <1>1, <2>1
    <2>4. \A k \in Key : k # new /\ Pending(k)' => Pending(k) /\ Kept(k) /\ ~ Renumbered(k)
      BY <1>1, <2>1 DEF Pending, Kept, Renumbered
    <2>5. Renumbered(new)
      BY <1>1, <2>1, <2>2 DEF Renumbered
    <2>6. CountersGrow
      BY <1>1, <2>3 DEF CountersGrow
    <2>7. ASSUME NEW k \in Key, Pending(k)'
          PROVE  NumberedRow(k)
      <3>1. CASE k = new
        BY <1>1, <2>1, <2>2, <2>3, <2>5, <3>1 DEF NumberedRow
      <3>2. CASE k # new
        <4>1. Pending(k) /\ Kept(k)
          BY <2>4, <2>7, <3>2
        <4>2. QED
          BY <1>1, <2>6, <4>1 DEF Kept, NumberedRow, CountersGrow
      <3>3. QED
        BY <3>1, <3>2
    <2>8. NewDistinct
      BY <2>4 DEF NewDistinct, Pending
    <2>9. \A k \in Key : NumberedRow(k)
      BY <2>7 DEF NumberedRow
    <2>10. QED
      BY <2>6, <2>8, <2>9
  <1>4. ASSUME NEW g \in Tickers, TickCommit(g)
        PROVE  Goal
    <2>1. UNCHANGED tagSeq
      BY <1>4 DEF TickCommit
    <2>2. \A k \in Key : Pending(k)' => messages'[k] = messages[k]
      BY <1>4, CommittedRow DEF Pending
    <2> HIDE DEF Goal
    <2>3. QED
      BY <1>2, <2>1, <2>2
  <1>5. ASSUME NEW e \in BatchId, WatchReorg(e)
        PROVE  Goal
    <2> DEFINE K == {k \in Key : Requeued(e, k)}
    <2>1. PICK rank \in RequeueOrders(K) :
             /\ tagSeq' = [tagSeq EXCEPT ![e[2]] = @ + Cardinality(K)]
             /\ \A k \in Key :
                  /\ Requeued(e, k) =>
                        messages'[k] = [status |-> "pending", body |-> messages[k].body,
                                        batchRef |-> NoTx, ingestSeq |-> tagSeq[e[2]] + rank[k]]
                  /\ ~ Requeued(e, k) =>
                        messages'[k] = IF TakenBack(e, k)
                                       THEN [messages[k] EXCEPT !.status = "reorged"]
                                       ELSE messages[k]
      BY <1>5, ReorgedRows
    <2>2. \A k \in Key : Requeued(e, k) <=> k \in K
      OBVIOUS
    <2>3. K \in SUBSET Key /\ e[2] \in Tags
      BY DEF BatchId
    <2> HIDE DEF K
    <2>4. /\ Cardinality(K) \in Nat
          /\ \A k \in K : rank[k] \in Nat /\ rank[k] > 0 /\ rank[k] <= Cardinality(K)
          /\ \A k, l \in K : k # l => rank[k] # rank[l]
      BY <2>3, RequeueRanks
    <2>5. \A t \in Tags : tagSeq'[t] = IF t = e[2] THEN tagSeq[t] + Cardinality(K) ELSE tagSeq[t]
      BY <1>1, <2>1, <2>3, <2>4
    <2>6. CountersGrow
      BY <1>1, <2>4, <2>5 DEF CountersGrow
    <2>7. ASSUME NEW k \in K
          PROVE  /\ k \in Key
                 /\ messages'[k].ingestSeq = tagSeq[e[2]] + rank[k]
                 /\ messages'[k].body = messages[k].body
                 /\ messages[k].body \in Bodies
                 /\ TagOf[messages[k].body] = e[2]
      <3>1. Requeued(e, k)
        BY <2>2, <2>3, <2>7
      <3>2. messages[k].status # "absent" /\ TagOf[messages[k].body] = e[2]
        BY <3>1 DEF Requeued, Attached
      <3>3. messages'[k] = [status |-> "pending", body |-> messages[k].body,
                            batchRef |-> NoTx, ingestSeq |-> tagSeq[e[2]] + rank[k]]
        BY <2>1, <2>3, <2>7, <3>1
      <3>4. k \in Key /\ messages[k].body \in Bodies
        BY <2>3, <2>7, <3>2, PresentRow
      <3>5. QED
        BY <3>2, <3>3, <3>4
    <2>8. ASSUME NEW k \in Key, k \notin K, Pending(k)'
          PROVE  Pending(k) /\ Kept(k) /\ ~ Renumbered(k)
      <3>1. messages'[k] = IF TakenBack(e, k)
                           THEN [messages[k] EXCEPT !.status = "reorged"]
                           ELSE messages[k]
        BY <2>1, <2>2, <2>8
      <3>2. messages[k] \in MessageRow \cup {NoMessage}
        BY DEF TypeOK, StoreTypeOK
      <3>3. messages'[k] = messages[k]
        BY <2>8, <3>1, <3>2 DEF Pending, MessageRow, NoMessage
      <3>4. QED
        BY <1>1, <2>8, <3>3 DEF Pending, Kept, Renumbered
    <2>9. ASSUME NEW k \in Key, Pending(k)'
          PROVE  NumberedRow(k)
      <3>1. CASE k \in K
        BY <1>1, <2>3, <2>4, <2>5, <2>7, <3>1 DEF Renumbered, NumberedRow
      <3>2. CASE k \notin K
        <4>1. Pending(k) /\ Kept(k)
          BY <2>8, <2>9, <3>2
        <4>2. QED
          BY <1>1, <2>6, <4>1 DEF Kept, NumberedRow, CountersGrow
      <3>3. QED
        BY <3>1, <3>2
    <2>10. ASSUME NEW k \in Key, NEW l \in Key, k # l, Pending(k)', Pending(l)',
                  Renumbered(k), Renumbered(l)
           PROVE  messages'[k].ingestSeq # messages'[l].ingestSeq
      <3>1. k \in K /\ l \in K
        BY <2>8, <2>10
      <3>2. QED
        BY <1>1, <2>3, <2>4, <2>7, <2>10, <3>1
    <2>11. NewDistinct
      BY <2>10 DEF NewDistinct, Pending
    <2>12. \A k \in Key : NumberedRow(k)
      BY <2>9 DEF NumberedRow
    <2>13. QED
      BY <2>6, <2>11, <2>12
  <1>6. ASSUME UNCHANGED <<messages, tagSeq>>
        PROVE  Goal
    <2>1. \A k \in Key : Pending(k)' => messages'[k] = messages[k]
      BY <1>6
    <2> HIDE DEF Goal
    <2>2. QED
      BY <1>2, <1>6, <2>1
  <1>7. Goal
    <2> HIDE DEF Goal
    <2> QED
      BY <1>3, <1>4, <1>5, <1>6, QueueStep
  <1>8. QED
    BY <1>7

-----------------------------------------------------------------------------
(* The order of the queues is kept *)

LEMMA NumbersStep ==
  ASSUME LogInv, [Next]_posterVars
  PROVE  NumbersInOrder'
  <1> USE DEF LogInv, LiveInv, BackedInv, TrackerInv
  <1>1. CountersGrow /\ (\A k \in Key : NumberedRow(k)) /\ NewDistinct
    BY NumberedRows
  <1>2. /\ tagSeq \in [Tags -> Nat]
        /\ \A k \in Key : Pending(k) => /\ messages[k].ingestSeq \in Nat
                                       /\ messages[k].body \in Bodies
    BY PresentRow DEF TypeOK, StoreTypeOK, Pending, MessageRow
  <1>3. ASSUME NEW k \in Key, Pending(k)'
        PROVE  /\ messages'[k].ingestSeq > 0
               /\ messages'[k].ingestSeq <= tagSeq'[TagOf[messages'[k].body]]
               /\ messages'[k].ingestSeq \in Nat
               /\ tagSeq[TagOf[messages'[k].body]] \in Nat
               /\ \/ Kept(k) /\ messages'[k].ingestSeq <= tagSeq[TagOf[messages'[k].body]]
                  \/ Renumbered(k)
    <2>1. NumberedRow(k)
      BY <1>1
    <2>2. TagOf[messages'[k].body] \in Tags
      BY <1>3, <2>1, BamStoreAssumption DEF NumberedRow
    <2>3. Kept(k) => /\ messages'[k].ingestSeq > 0
                     /\ messages'[k].ingestSeq <= tagSeq[TagOf[messages'[k].body]]
      BY DEF Kept, NumbersInOrder
    <2>4. QED
      BY <1>2, <1>3, <2>1, <2>2, <2>3 DEF NumberedRow, Renumbered
  <1>4. ASSUME NEW k \in Key, NEW l \in Key, k # l, Pending(k)', Pending(l)', SameTag(k, l)'
        PROVE  messages'[k].ingestSeq # messages'[l].ingestSeq
    <2>1. CASE Kept(k) /\ Kept(l)
      <3>1. SameTag(k, l)
        BY <1>4, <2>1 DEF SameTag, Kept
      <3>2. QED
        BY <1>4, <2>1, <3>1 DEF Kept, NumbersInOrder
    <2>2. CASE Renumbered(k) /\ Renumbered(l)
      BY <1>1, <1>4, <2>2 DEF NewDistinct
    <2>3. CASE ~ Renumbered(k) /\ Renumbered(l)
      BY <1>3, <1>4, <2>3 DEF SameTag, Renumbered
    <2>4. CASE Renumbered(k) /\ ~ Renumbered(l)
      BY <1>3, <1>4, <2>4 DEF SameTag, Renumbered
    <2>5. QED
      BY <1>3, <1>4, <2>1, <2>2, <2>3, <2>4
  <1>5. QED
    BY <1>3, <1>4 DEF NumbersInOrder

LEMMA PackAheadStep ==
  ASSUME SingleTicker, LogInv, [Next]_posterVars
  PROVE  PackAhead'
  <1> USE DEF LogInv, LiveInv, BackedInv, TrackerInv
  <1>1. /\ LiveInv'
        /\ \A k \in Key : NumberedRow(k)
    BY LiveStep, NumberedRows
  <1> SUFFICES ASSUME NEW g \in Tickers, agg'[g].pc # "idle",
                      NEW m \in agg'[g].pack, NEW k \in Key, Pending(k)',
                      TagOf[messages'[k].body] = TagOfEntry(m),
                      EntryOf(k)' \notin agg'[g].pack
               PROVE  messages'[m.key].ingestSeq < messages'[k].ingestSeq
    BY DEF PackAhead, Pending, TagOfEntry
  <1>2. m.key \in Key /\ agg'[g].pack \subseteq Entry
    BY <1>1 DEF TypeOK, PosterProcTypeOK, AggTypeOK, Tick, Entry
  <1>3. CASE agg[g].pc # "idle" /\ agg'[g].pack = agg[g].pack
    <2>1. Pending(m.key) /\ messages[m.key].body = m.body
      BY <1>3 DEF PackQueued, Pending
    <2>2. \A h \in Tickers : ~ TickCommit(h)
      <3>1. ~ TickCommit(g)
        BY DEF TickCommit, NoTick, TypeOK, PosterProcTypeOK, AggTypeOK
      <3>2. QED
        BY <3>1, OneTicker
    <2>3. messages'[m.key] = messages[m.key]
      BY <1>2, <2>1, <2>2, MessagesStep, AcceptedMessages, ReorgedMessages DEF Pending
    <2>4. CASE Kept(k)
      <3>1. EntryOf(k) = EntryOf(k)'
        BY <2>4 DEF Kept, EntryOf
      <3>2. messages[m.key].ingestSeq < messages[k].ingestSeq
        BY <1>3, <2>4, <3>1 DEF Kept, PackAhead
      <3>3. QED
        BY <2>3, <2>4, <3>2 DEF Kept
    <2>5. CASE Renumbered(k)
      <3>1. /\ messages[m.key].ingestSeq <= tagSeq[TagOfEntry(m)]
            /\ messages[m.key] \in MessageRow
            /\ TagOfEntry(m) \in Tags
        BY <1>2, <2>1, PresentRow, BamStoreAssumption DEF NumbersInOrder, Pending, TagOfEntry
      <3>2. messages'[k].ingestSeq > tagSeq[TagOfEntry(m)] /\ messages'[k].ingestSeq \in Nat
        BY <1>1, <2>5 DEF Renumbered, NumberedRow
      <3>3. QED
        BY <2>3, <3>1, <3>2 DEF TypeOK, StoreTypeOK, MessageRow
    <2>6. QED
      BY <1>1, <2>4, <2>5 DEF NumberedRow
  <1>4. CASE TickSelect(g) /\ UNCHANGED messages
    <2>1. PICK K \in SUBSET {l \in Key : messages[l].status = "pending"} :
             /\ Packable(K)
             /\ agg' = [agg EXCEPT ![g] = [NoTick EXCEPT
                           !.pc = "send", !.pack = {EntryOf(l) : l \in K}]]
      BY <1>4 DEF TickSelect
    <2>2. agg'[g].pack = {EntryOf(l) : l \in K}
      BY <2>1 DEF TypeOK, PosterProcTypeOK, AggTypeOK, NoTick
    <2>3. PICK l \in K : m = EntryOf(l)
      BY <2>2
    <2>4. m.key = l /\ TagOfEntry(m) = TagOf[messages[l].body]
      BY <2>3 DEF EntryOf, TagOfEntry
    <2>5. EntryOf(k)' = EntryOf(k)
      BY <1>4 DEF EntryOf
    <2>6. k \notin K
      BY <2>2, <2>5
    <2>7. TagOfEntry(m) \in Tags
      BY <2>1, <2>4, PresentRow, BamStoreAssumption
    <2>8. l \in K \cap PendingByTag(messages, TagOfEntry(m))
      BY <2>1, <2>4 DEF PendingByTag, TypeOK, StoreTypeOK
    <2>9. k \in PendingByTag(messages, TagOfEntry(m)) \ K
      BY <1>4, <2>6 DEF PendingByTag, Pending, TypeOK, StoreTypeOK
    <2>10. OldestFirst(K, TagOfEntry(m))
      BY <2>1, <2>7 DEF Packable
    <2>11. QED
      BY <1>4, <2>4, <2>8, <2>9, <2>10 DEF OldestFirst
  <1>5. QED
    BY <1>3, <1>4, PackStep

LEMMA LogStep ==
  ASSUME SingleTicker, LogInv, [Next]_posterVars
  PROVE  LogInv'
  BY LiveStep, NumbersStep, PackAheadStep DEF LogInv

LEMMA LogStart == PosterInit => LogInv
  <1> SUFFICES ASSUME PosterInit
               PROVE  LogInv
    OBVIOUS
  <1>1. LiveInv
    BY BackedInit DEF LiveInv, PackQueued, OneLiveBatch, PosterInit, StoreInit,
       PosterProcInit, NoTick, NoBatch
  <1>2. QED
    BY <1>1 DEF LogInv, NumbersInOrder, PackAhead, Pending, PosterInit, StoreInit,
       PosterProcInit, NoTick, NoMessage

-----------------------------------------------------------------------------
(* Every step is a step of the log *)

TagFun == [m \in Entry |-> TagOfEntry(m)]

LEMMA EntryMember ==
  ASSUME NEW m, NEW status
  PROVE  m \in EntriesWith(status) <=>
            m \in Entry /\ messages[m.key].status = status /\ messages[m.key].body = m.body
  BY DEF EntriesWith

LEMMA AheadMember ==
  ASSUME NEW m, NEW n
  PROVE  <<m, n>> \in AheadInQueue <=>
            /\ m \in EntriesWith("pending") /\ n \in EntriesWith("pending")
            /\ TagOfEntry(m) = TagOfEntry(n)
            /\ messages[m.key].ingestSeq < messages[n.key].ingestSeq
  BY DEF AheadInQueue

LEMMA AcceptIsAccept ==
  ASSUME LogInv, NEW s \in Senders, NEW n \in 0 .. MaxNonce, NEW b \in Bodies,
         IngestAccept(s, n, b)
  PROVE  \E m \in Entry : Log!Accept(m)
  <1> USE DEF LogInv, LiveInv, BackedInv, TrackerInv
  <1> DEFINE k == <<s, n>>
             new == [key |-> k, body |-> b]
  <1>1. /\ k \in Key
        /\ messages[k].status = "absent"
        /\ messages'[k] = [status |-> "pending", body |-> b, batchRef |-> NoTx,
                            ingestSeq |-> tagSeq[TagOf[b]] + 1]
        /\ \A l \in Key : l # k => messages'[l] = messages[l]
        /\ TagOf[b] \in Tags
    BY AcceptedRow
  <1> HIDE DEF k
  <1>2. /\ messages'[k].status = "pending" /\ messages'[k].body = b
        /\ messages'[k].ingestSeq = tagSeq[TagOf[b]] + 1
    BY <1>1
  <1>3. new \in Entry /\ new.key = k /\ new.body = b /\ TagOfEntry(new) = TagOf[b]
    BY <1>1 DEF Entry, TagOfEntry
  <1>4. \A m \in Entry : m.key \in Key /\ (m.key = k /\ m.body = b => m = new)
    BY DEF Entry
  <1> HIDE DEF new
  <1>5. ASSUME NEW status \in MessageStatus
        PROVE  /\ new \notin EntriesWith(status)
               /\ EntriesWith(status)' = IF status = "pending"
                                         THEN EntriesWith(status) \cup {new}
                                         ELSE EntriesWith(status)
    BY <1>1, <1>2, <1>3, <1>4 DEF EntriesWith, MessageStatus
  <1>6. ASSUME NEW m \in EntriesWith("pending"), TagOfEntry(m) = TagOf[b]
        PROVE  /\ messages[m.key].ingestSeq < messages'[k].ingestSeq
               /\ messages'[m.key] = messages[m.key]
    <2>1. Pending(m.key) /\ m.key \in Key /\ TagOf[messages[m.key].body] = TagOf[b]
      BY <1>4, <1>6, EntryMember DEF Pending, TagOfEntry
    <2>2. messages[m.key].ingestSeq <= tagSeq[TagOf[b]]
      BY <2>1 DEF NumbersInOrder
    <2>3. messages[m.key] \in MessageRow
      BY <2>1, PresentRow DEF Pending
    <2>4. QED
      BY <1>1, <1>2, <2>1, <2>2, <2>3 DEF MessageRow, TypeOK, StoreTypeOK, Pending
  <1> DEFINE Q == {m \in EntriesWith("pending") : TagFun[m] = TagFun[new]}
  <1>7. AheadInQueue' = AheadInQueue \cup (Q \X {new})
    <2>1. \A m \in EntriesWith("pending") : m # new /\ m \in Entry
      BY <1>5, EntryMember DEF MessageStatus
    <2>2. \A m \in EntriesWith("pending") : m.key # k /\ messages'[m.key] = messages[m.key]
      BY <1>1, <1>4, EntryMember
    <2>3. \A m \in EntriesWith("pending") : m \in Q <=> TagOfEntry(m) = TagOf[b]
      BY <1>3, <2>1 DEF TagFun
    <2>4. EntriesWith("pending")' = EntriesWith("pending") \cup {new}
      BY <1>5 DEF MessageStatus
    <2>5. ~ (messages'[k].ingestSeq < messages'[k].ingestSeq)
      BY <1>1, <1>2 DEF TypeOK, StoreTypeOK
    <2>6. ASSUME NEW m, NEW o
          PROVE  <<m, o>> \in AheadInQueue' <=> <<m, o>> \in AheadInQueue \cup (Q \X {new})
      <3>1. <<m, o>> \in AheadInQueue' <=>
               /\ m \in EntriesWith("pending")' /\ o \in EntriesWith("pending")'
               /\ TagOfEntry(m) = TagOfEntry(o)
               /\ messages'[m.key].ingestSeq < messages'[o.key].ingestSeq
        BY DEF AheadInQueue, TagOfEntry
      <3>2. CASE o = new
        <4>1. <<m, o>> \notin AheadInQueue
          BY <2>1, <3>2, AheadMember
        <4>2. CASE m = new
          BY <1>3, <2>1, <2>5, <3>1, <3>2, <4>1, <4>2
        <4>3. CASE m # new
          BY <1>3, <1>6, <2>2, <2>3, <2>4, <3>1, <3>2, <4>1, <4>3
        <4>4. QED
          BY <4>2, <4>3
      <3>3. CASE o # new /\ m = new
        <4>1. <<m, o>> \notin AheadInQueue \cup (Q \X {new})
          BY <2>1, <3>3, AheadMember
        <4>2. ASSUME o \in EntriesWith("pending"), TagOfEntry(o) = TagOf[b]
              PROVE  ~ (messages'[k].ingestSeq < messages'[o.key].ingestSeq)
          <5>1. messages[o.key].ingestSeq < messages'[k].ingestSeq /\ messages'[o.key] = messages[o.key]
            BY <1>6, <4>2
          <5>2. messages[o.key] \in MessageRow
            BY <1>4, <4>2, PresentRow, EntryMember
          <5>3. QED
            BY <1>1, <1>2, <5>1, <5>2 DEF MessageRow, TypeOK, StoreTypeOK
        <4>3. QED
          BY <1>3, <2>4, <3>1, <3>3, <4>1, <4>2
      <3>4. CASE o # new /\ m # new
        BY <2>2, <2>4, <3>1, <3>4, AheadMember
      <3>5. QED
        BY <3>2, <3>3, <3>4
    <2>7. /\ AheadInQueue' \subseteq EntriesWith("pending")' \X EntriesWith("pending")'
          /\ AheadInQueue \subseteq EntriesWith("pending") \X EntriesWith("pending")
      BY DEF AheadInQueue
    <2> HIDE DEF Q
    <2>8. QED
      BY <2>6, <2>7
  <1>8. /\ new \notin EntriesWith("pending") \cup EntriesWith("confirmed") \cup EntriesWith("reorged")
        /\ EntriesWith("pending")' = EntriesWith("pending") \cup {new}
        /\ EntriesWith("confirmed")' = EntriesWith("confirmed")
        /\ EntriesWith("reorged")' = EntriesWith("reorged")
    BY <1>5 DEF MessageStatus
  <1>9. Log!Accept(new)
    BY <1>7, <1>8 DEF Log!Accept, Log!QueueOf, TagFun
  <1>10. QED
    BY <1>3, <1>9

LEMMA CommitIsInclude ==
  ASSUME LogInv, NEW g \in Tickers, TickCommit(g)
  PROVE  \E taken \in SUBSET EntriesWith("pending") : Log!Include(taken)
  <1> USE DEF LogInv, LiveInv, BackedInv, TrackerInv
  <1> DEFINE taken == agg[g].pack
  <1>1. taken \subseteq Entry /\ agg[g].pc = "commit"
    BY DEF TypeOK, PosterProcTypeOK, AggTypeOK, Tick, TickCommit
  <1>2. taken \subseteq EntriesWith("pending")
    BY <1>1, EntryMember DEF PackQueued
  <1>3. \A m \in Entry : m.key \in Key
    BY DEF Entry
  <1>4. ASSUME NEW m \in Entry
        PROVE  /\ m \in taken => /\ messages'[m.key].status = "confirmed"
                                 /\ messages'[m.key].body = m.body
               /\ m \notin taken =>
                     \/ messages'[m.key] = messages[m.key]
                     \/ messages[m.key].body # m.body /\ messages'[m.key].body # m.body
    <2>1. CASE m \in taken
      <3>1. messages[m.key].status = "pending" /\ messages[m.key].body = m.body
        BY <1>1, <2>1 DEF PackQueued
      <3>2. EntryOf(m.key) = m
        BY <3>1 DEF EntryOf, Entry
      <3>3. QED
        BY <1>3, <2>1, <3>1, <3>2, CommittedRow DEF Pending
    <2>2. CASE m \notin taken
      <3>1. messages[m.key].body = m.body => EntryOf(m.key) = m
        BY DEF EntryOf, Entry
      <3>2. QED
        BY <1>3, <2>2, <3>1, CommittedRow DEF Pending
    <2>3. QED
      BY <2>1, <2>2
  <1> HIDE DEF taken
  <1>5. /\ EntriesWith("pending")' = EntriesWith("pending") \ taken
        /\ EntriesWith("confirmed")' = EntriesWith("confirmed") \cup taken
        /\ EntriesWith("reorged")' = EntriesWith("reorged")
    <2>1. \A m \in taken : messages[m.key].status = "pending"
      BY <1>2, EntryMember
    <2>2. ASSUME NEW m \in Entry
          PROVE  /\ m \in EntriesWith("pending")' <=> m \in EntriesWith("pending") \ taken
                 /\ m \in EntriesWith("confirmed")' <=> m \in EntriesWith("confirmed") \cup taken
                 /\ m \in EntriesWith("reorged")' <=> m \in EntriesWith("reorged")
      BY <1>4, <2>1 DEF EntriesWith
    <2>3. \A st \in {"pending", "confirmed", "reorged"} :
             EntriesWith(st) \subseteq Entry /\ EntriesWith(st)' \subseteq Entry
      BY DEF EntriesWith
    <2>4. QED
      BY <1>1, <2>2, <2>3
  <1>6. ASSUME NEW p \in AheadInQueue, p[2] \in taken
        PROVE  p[1] \in taken
    <2> SUFFICES ASSUME p[1] \notin taken
                 PROVE  FALSE
      OBVIOUS
    <2> DEFINE k == p[1].key
               m == p[2]
    <2>1. /\ p[1] \in EntriesWith("pending") /\ m \in EntriesWith("pending")
          /\ TagOfEntry(p[1]) = TagOfEntry(m)
          /\ messages[k].ingestSeq < messages[m.key].ingestSeq
      BY DEF AheadInQueue
    <2>2. /\ k \in Key /\ Pending(k) /\ m.key \in Key /\ Pending(m.key)
          /\ TagOf[messages[k].body] = TagOfEntry(m)
          /\ EntryOf(k) = p[1]
      BY <1>3, <2>1, EntryMember DEF Pending, TagOfEntry, EntryOf, Entry
    <2>3. messages[m.key].ingestSeq < messages[k].ingestSeq
      BY <1>1, <1>6, <2>2 DEF PackAhead, taken
    <2>4. messages[m.key] \in MessageRow /\ messages[k] \in MessageRow
      BY <2>2, PresentRow DEF Pending
    <2>5. QED
      BY <2>1, <2>3, <2>4 DEF MessageRow
  <1>7. AheadInQueue' = {p \in AheadInQueue : p[1] \notin taken}
    <2>1. \A m \in EntriesWith("pending") \ taken : messages'[m.key] = messages[m.key]
      BY <1>4, EntryMember
    <2>2. ASSUME NEW m, NEW o
          PROVE  <<m, o>> \in AheadInQueue' <=> <<m, o>> \in AheadInQueue /\ m \notin taken
      <3>1. <<m, o>> \in AheadInQueue' <=>
               /\ m \in EntriesWith("pending")' /\ o \in EntriesWith("pending")'
               /\ TagOfEntry(m) = TagOfEntry(o)
               /\ messages'[m.key].ingestSeq < messages'[o.key].ingestSeq
        BY DEF AheadInQueue, TagOfEntry
      <3>2. <<m, o>> \in AheadInQueue /\ o \in taken => m \in taken
        <4>1. SUFFICES ASSUME <<m, o>> \in AheadInQueue, o \in taken
                       PROVE  m \in taken
          OBVIOUS
        <4>2. <<m, o>>[1] = m /\ <<m, o>>[2] = o
          OBVIOUS
        <4>3. QED
          BY <1>6, <4>1, <4>2
      <3>3. QED
        BY <1>5, <2>1, <3>1, <3>2, AheadMember
    <2>3. /\ AheadInQueue' \subseteq EntriesWith("pending")' \X EntriesWith("pending")'
          /\ AheadInQueue \subseteq EntriesWith("pending") \X EntriesWith("pending")
      BY DEF AheadInQueue
    <2>4. ASSUME NEW p
          PROVE  p \in AheadInQueue' <=> p \in AheadInQueue /\ p[1] \notin taken
      BY <2>2, <2>3
    <2>5. QED
      BY <2>4
  <1>8. Log!Include(taken)
    BY <1>5, <1>6, <1>7 DEF Log!Include
  <1>9. QED
    BY <1>2, <1>8

LEMMA ReorgIsWithdraw ==
  ASSUME LogInv, NEW e \in BatchId, WatchReorg(e)
  PROVE  \E lost \in SUBSET EntriesWith("confirmed") :
           \E back \in SUBSET (EntriesWith("reorged") \cup lost) :
             \E t \in Tags : Log!Withdraw(t, lost, back)
  <1> USE DEF LogInv, LiveInv, BackedInv, TrackerInv
  <1> DEFINE K == {k \in Key : Requeued(e, k)}
             lost == {m \in EntriesWith("confirmed") : messages[m.key].batchRef = e[1]}
             back == {m \in Entry : m.key \in K /\ m.body = messages[m.key].body}
  <1>1. PICK rank \in RequeueOrders(K) :
           /\ tagSeq' = [tagSeq EXCEPT ![e[2]] = @ + Cardinality(K)]
           /\ \A k \in Key :
                /\ Requeued(e, k) =>
                      messages'[k] = [status |-> "pending", body |-> messages[k].body,
                                      batchRef |-> NoTx, ingestSeq |-> tagSeq[e[2]] + rank[k]]
                /\ ~ Requeued(e, k) =>
                      messages'[k] = IF TakenBack(e, k)
                                     THEN [messages[k] EXCEPT !.status = "reorged"]
                                     ELSE messages[k]
    BY ReorgedRows
  <1>2. \A k \in Key : Requeued(e, k) <=> k \in K
    OBVIOUS
  <1>3. K \in SUBSET Key /\ e[2] \in Tags
    BY DEF BatchId
  <1> HIDE DEF K
  <1>4. /\ \A k \in K : rank[k] \in Nat /\ rank[k] > 0
        /\ \A k, l \in K : k # l => rank[k] # rank[l]
    BY <1>3, RequeueRanks
  <1>5. \A m \in Entry : m.key \in Key
    BY DEF Entry
  <1>6. \A k \in K : /\ TagOf[messages[k].body] = e[2]
                     /\ messages[k].batchRef = e[1]
                     /\ messages[k].status \in {"confirmed", "reorged"}
    BY <1>2, <1>3 DEF Requeued, Attached
  <1>7. \A k \in K : /\ messages'[k].status = "pending"
                     /\ messages'[k].body = messages[k].body
                     /\ messages'[k].ingestSeq = tagSeq[e[2]] + rank[k]
    <2>1. ASSUME NEW k \in K
          PROVE  /\ messages'[k].status = "pending"
                 /\ messages'[k].body = messages[k].body
                 /\ messages'[k].ingestSeq = tagSeq[e[2]] + rank[k]
      <3>1. messages'[k] = [status |-> "pending", body |-> messages[k].body,
                            batchRef |-> NoTx, ingestSeq |-> tagSeq[e[2]] + rank[k]]
        BY <1>1, <1>2, <1>3
      <3>2. QED
        BY <3>1
    <2>2. QED
      BY <2>1
  <1>8. ASSUME NEW k \in Key, k \notin K
        PROVE  IF TakenBack(e, k)
               THEN messages'[k].status = "reorged" /\ messages'[k].body = messages[k].body
               ELSE messages'[k] = messages[k]
    <2>1. messages'[k] = IF TakenBack(e, k)
                         THEN [messages[k] EXCEPT !.status = "reorged"]
                         ELSE messages[k]
      BY <1>1, <1>2, <1>8
    <2>2. messages[k] \in MessageRow \cup {NoMessage}
      BY DEF TypeOK, StoreTypeOK
    <2>3. QED
      BY <2>1, <2>2 DEF MessageRow, NoMessage
  <1>9. ASSUME NEW m \in Entry
        PROVE  /\ m \in EntriesWith("pending")' <=> m \in EntriesWith("pending") \cup back
               /\ m \in EntriesWith("confirmed")' <=> m \in EntriesWith("confirmed") \ lost
               /\ m \in EntriesWith("reorged")' <=> m \in (EntriesWith("reorged") \cup lost) \ back
    <2>1. /\ m \in lost <=> /\ messages[m.key].status = "confirmed"
                            /\ messages[m.key].body = m.body
                            /\ messages[m.key].batchRef = e[1]
          /\ m \in back <=> m.key \in K /\ m.body = messages[m.key].body
      BY DEF EntriesWith
    <2>2. CASE m.key \in K
      BY <1>6, <1>7, <2>1, <2>2 DEF EntriesWith
    <2>3. CASE m.key \notin K
      BY <1>5, <1>8, <2>1, <2>3 DEF EntriesWith, TakenBack
    <2>4. QED
      BY <2>2, <2>3
  <1>10. /\ EntriesWith("pending")' = EntriesWith("pending") \cup back
         /\ EntriesWith("confirmed")' = EntriesWith("confirmed") \ lost
         /\ EntriesWith("reorged")' = (EntriesWith("reorged") \cup lost) \ back
    <2>1. \A st \in {"pending", "confirmed", "reorged"} :
             EntriesWith(st) \subseteq Entry /\ EntriesWith(st)' \subseteq Entry
      BY DEF EntriesWith
    <2>2. lost \subseteq Entry /\ back \subseteq Entry
      BY DEF EntriesWith
    <2> HIDE DEF lost, back
    <2>3. QED
      BY <1>9, <2>1, <2>2
  <1>11. lost \subseteq EntriesWith("confirmed") /\ back \subseteq EntriesWith("reorged") \cup lost
    <2>1. ASSUME NEW m \in back
          PROVE  m \in EntriesWith("reorged") \cup lost
      BY <1>6 DEF EntriesWith
    <2>2. QED
      BY <2>1
  <1>12. \A m \in back : m \in Entry /\ m.key \in K /\ TagOfEntry(m) = e[2]
    BY <1>6 DEF TagOfEntry
  <1>13. \A m, n \in back : m.key = n.key => m = n
    BY DEF Entry
  <1>14. \A m \in EntriesWith("pending") :
            /\ m \in Entry /\ m \notin back /\ messages'[m.key] = messages[m.key]
            /\ messages[m.key].ingestSeq \in Nat
            /\ TagOfEntry(m) \in Tags
            /\ messages[m.key].ingestSeq <= tagSeq[TagOfEntry(m)]
    <2>1. ASSUME NEW m \in EntriesWith("pending")
          PROVE  /\ m \in Entry /\ m \notin back /\ messages'[m.key] = messages[m.key]
                 /\ messages[m.key].ingestSeq \in Nat
                 /\ TagOfEntry(m) \in Tags
                 /\ messages[m.key].ingestSeq <= tagSeq[TagOfEntry(m)]
      <3>1. m \in Entry /\ Pending(m.key) /\ messages[m.key].body = m.body /\ m.key \in Key
        BY <1>5, EntryMember DEF Pending
      <3>2. m.key \notin K
        BY <1>6, <3>1 DEF Pending
      <3>3. messages[m.key] \in MessageRow /\ TagOfEntry(m) \in Tags
        BY <3>1, PresentRow, BamStoreAssumption DEF Pending, TagOfEntry
      <3>4. QED
        BY <1>8, <3>1, <3>2, <3>3 DEF TakenBack, Pending, MessageRow, NumbersInOrder, TagOfEntry
    <2>2. QED
      BY <2>1
  <1>15. /\ \A m \in back : /\ messages'[m.key].ingestSeq = tagSeq[e[2]] + rank[m.key]
                            /\ rank[m.key] \in Nat /\ rank[m.key] > 0
         /\ \A m, n \in back : m # n => rank[m.key] # rank[n.key]
         /\ tagSeq[e[2]] \in Nat
    BY <1>3, <1>4, <1>7, <1>12, <1>13 DEF TypeOK, StoreTypeOK
  <1> HIDE DEF lost, back
  <1> DEFINE order == {p \in back \X back : rank[p[1].key] < rank[p[2].key]}
             Q == {m \in EntriesWith("pending") : TagFun[m] = e[2]}
  <1>16. order \in Log!LinearOrders(back)
    <2>1. \A m, n \in back : <<m, n>> \in order <=> rank[m.key] < rank[n.key]
      OBVIOUS
    <2>2. order \in SUBSET (back \X back)
      OBVIOUS
    <2> HIDE DEF order
    <2>3. \A m, n \in back : m # n => (<<m, n>> \in order <=> <<n, m>> \notin order)
      BY <1>15, <2>1
    <2>4. \A m \in back : <<m, m>> \notin order
      BY <1>15, <2>1
    <2>5. \A m, n, o \in back : <<m, n>> \in order /\ <<n, o>> \in order => <<m, o>> \in order
      BY <1>15, <2>1
    <2>6. QED
      BY <2>2, <2>3, <2>4, <2>5 DEF Log!LinearOrders
  <1>17. AheadInQueue' = AheadInQueue \cup (Q \X back) \cup order
    <2>1. \A m \in EntriesWith("pending") : m \in Q <=> TagOfEntry(m) = e[2]
      BY <1>14 DEF TagFun
    <2>2. ASSUME NEW m, NEW o
          PROVE  <<m, o>> \in AheadInQueue' <=>
                    <<m, o>> \in AheadInQueue \cup (Q \X back) \cup order
      <3>1. <<m, o>> \in AheadInQueue' <=>
               /\ m \in EntriesWith("pending") \cup back /\ o \in EntriesWith("pending") \cup back
               /\ TagOfEntry(m) = TagOfEntry(o)
               /\ messages'[m.key].ingestSeq < messages'[o.key].ingestSeq
        BY <1>10 DEF AheadInQueue, TagOfEntry
      <3>2. <<m, o>> \in order <=> m \in back /\ o \in back /\ rank[m.key] < rank[o.key]
        OBVIOUS
      <3>3. <<m, o>> \in Q \X back <=> m \in Q /\ o \in back
        OBVIOUS
      <3> HIDE DEF order
      <3>4. CASE m \in back /\ o \in back
        BY <1>12, <1>14, <1>15, <3>1, <3>2, <3>3, <3>4, AheadMember
      <3>5. CASE m \in back /\ o \notin back
        <4>1. <<m, o>> \notin AheadInQueue
          BY <1>14, <3>5, AheadMember
        <4>2. ASSUME o \in EntriesWith("pending"), TagOfEntry(o) = e[2]
              PROVE  ~ (messages'[m.key].ingestSeq < messages'[o.key].ingestSeq)
          BY <1>14, <1>15, <3>5, <4>2
        <4>3. QED
          BY <1>12, <1>14, <3>1, <3>2, <3>3, <3>5, <4>1, <4>2
      <3>6. CASE m \notin back /\ o \in back
        <4>1. <<m, o>> \notin AheadInQueue
          BY <1>14, <3>6, AheadMember
        <4>2. ASSUME m \in EntriesWith("pending"), TagOfEntry(m) = e[2]
              PROVE  messages'[m.key].ingestSeq < messages'[o.key].ingestSeq
          BY <1>14, <1>15, <3>6, <4>2
        <4>3. QED
          BY <1>12, <2>1, <3>1, <3>2, <3>3, <3>6, <4>1, <4>2
      <3>7. CASE m \notin back /\ o \notin back
        BY <1>14, <3>1, <3>2, <3>3, <3>7, AheadMember
      <3>8. QED
        BY <3>4, <3>5, <3>6, <3>7
    <2>3. /\ AheadInQueue' \subseteq EntriesWith("pending")' \X EntriesWith("pending")'
          /\ AheadInQueue \subseteq EntriesWith("pending") \X EntriesWith("pending")
          /\ order \subseteq back \X back
      BY DEF AheadInQueue
    <2> HIDE DEF Q, order
    <2>4. QED
      BY <2>2, <2>3
  <1>18. \A m \in back : TagFun[m] = e[2]
    BY <1>12 DEF TagFun
  <1>19. Log!Withdraw(e[2], lost, back)
    <2> HIDE DEF order
    <2>1. AheadInQueue' =
             AheadInQueue \cup (Log!QueueOf(e[2]) \X back) \cup order
      BY <1>17 DEF Log!QueueOf, TagFun
    <2>2. QED
      BY <1>10, <1>16, <1>18, <2>1 DEF Log!Withdraw, TagFun
  <1>20. QED
    BY <1>3, <1>11, <1>19

\* The Poster with its own worker as the only caller of tick implements
\* MessageLog, for any number of authors, tags and transactions and any forks,
\* crashes and failures: what leaves a queue is a prefix of it, a message that
\* a reorg takes back goes behind everything that waits, and none is lost,
\* duplicated or overtaken (ingest, aggregator-loop.ts, reorg-watcher.ts).
THEOREM PosterImplementsMessageLog ==
  ASSUME SingleTicker
  PROVE  Spec => ImplementsMessageLog
  <1>1. PosterInit => LogInv
    BY LogStart
  <1>2. LogInv /\ [Next]_posterVars => LogInv'
    BY LogStep
  <1>3. PosterInit => Log!LogInit
    <2> SUFFICES ASSUME PosterInit
                 PROVE  Log!LogInit
      OBVIOUS
    <2>1. \A k \in Key : messages[k].status = "absent"
      BY DEF PosterInit, StoreInit, NoMessage
    <2>2. \A st \in MessageStatus : EntriesWith(st) = {}
      BY <2>1 DEF EntriesWith, MessageStatus, Entry
    <2>3. QED
      BY <2>2 DEF Log!LogInit, AheadInQueue, MessageStatus
  <1>4. LogInv /\ [Next]_posterVars => [Log!LogNext]_(Log!logVars)
    <2> SUFFICES ASSUME LogInv, [Next]_posterVars, Log!logVars' # Log!logVars
                 PROVE  Log!LogNext
      OBVIOUS
    <2>1. CASE UNCHANGED <<messages, tagSeq>>
      <3>1. UNCHANGED Log!logVars
        BY <2>1 DEF Log!logVars, EntriesWith, AheadInQueue
      <3>2. QED
        BY <3>1
    <2>2. ASSUME NEW s \in Senders, NEW n \in 0 .. MaxNonce, NEW b \in Bodies,
                 IngestAccept(s, n, b)
          PROVE  Log!LogNext
      BY <2>2, AcceptIsAccept DEF Log!LogNext
    <2>3. ASSUME NEW g \in Tickers, TickCommit(g)
          PROVE  Log!LogNext
      BY <2>3, CommitIsInclude DEF Log!LogNext
    <2>4. ASSUME NEW e \in BatchId, WatchReorg(e)
          PROVE  Log!LogNext
      BY <2>4, ReorgIsWithdraw DEF Log!LogNext
    <2>5. QED
      BY <2>1, <2>2, <2>3, <2>4, QueueStep
  <1>5. QED
    BY <1>1, <1>2, <1>3, <1>4, PTL DEF Spec, ImplementsMessageLog, Log!LogSpec

-----------------------------------------------------------------------------
(***************************************************************************)
(* What a client can see of the Poster.  A view is a listed query, so the  *)
(* argument has two halves: a listing holds each row of its query once,    *)
(* and the rows agree with one another (ViewInv).                          *)
(***************************************************************************)

\* A strict total order of S.
Orders(precedes, S) ==
    /\ \A x \in S : <<x, x>> \notin precedes
    /\ \A x, y \in S : x # y => <<x, y>> \in precedes \/ <<y, x>> \in precedes
    /\ \A x, y, z \in S : <<x, y>> \in precedes /\ <<y, z>> \in precedes
                             => <<x, z>> \in precedes

\* ORDER BY by ranks: every row once, and in the order asked for.  The ranks are distinct and below
\* the number of rows, so by the pigeonhole principle each number is the rank of a row.
LEMMA ListedRows ==
  ASSUME NEW S, IsFiniteSet(S), NEW precedes, Orders(precedes, S)
  PROVE  /\ Cardinality(S) \in Nat
         /\ Listed(S, precedes) \in [1 .. Cardinality(S) -> S]
         /\ Range(Listed(S, precedes)) = S
         /\ \A i, j \in 1 .. Cardinality(S) :
               i < j => <<Listed(S, precedes)[i], Listed(S, precedes)[j]>> \in precedes
  <1> DEFINE before(x) == {y \in S : <<y, x>> \in precedes}
             n == Cardinality(S)
             rank(x) == Cardinality(before(x))
             list == Listed(S, precedes)
  <1>1. n \in Nat
    BY FS_CardinalityType
  <1>2. ASSUME NEW x \in S
        PROVE  IsFiniteSet(before(x)) /\ rank(x) \in 0 .. n - 1
    <2>1. /\ IsFiniteSet(S \ {x})
          /\ Cardinality(S \ {x}) = n - 1
      BY FS_RemoveElement
    <2>2. before(x) \in SUBSET (S \ {x})
      BY DEF Orders
    <2> HIDE DEF before, n
    <2>3. IsFiniteSet(before(x)) /\ Cardinality(before(x)) <= n - 1
      BY <2>1, <2>2, FS_Subset
    <2>4. Cardinality(before(x)) \in Nat
      BY <2>3, FS_CardinalityType
    <2>5. QED
      BY <1>1, <2>3, <2>4
  <1>3. ASSUME NEW x \in S, NEW y \in S, <<x, y>> \in precedes
        PROVE  rank(x) < rank(y)
    <2>1. before(x) \in SUBSET before(y) /\ before(x) # before(y)
      BY <1>3 DEF Orders
    <2> HIDE DEF before
    <2>2. Cardinality(before(x)) <= Cardinality(before(y)) /\ Cardinality(before(x)) # Cardinality(before(y))
      BY <1>2, <2>1, FS_Subset
    <2>3. rank(x) \in Int /\ rank(y) \in Int
      BY <1>1, <1>2
    <2>4. QED
      BY <2>2, <2>3
  <1> HIDE DEF before
  <1>4. \A x, y \in S : rank(x) = rank(y) => x = y
    <2>1. \A x, y \in S : x # y => rank(x) < rank(y) \/ rank(y) < rank(x)
      BY <1>3 DEF Orders
    <2>2. \A x \in S : rank(x) \in Int
      BY <1>1, <1>2
    <2> HIDE DEF rank
    <2>3. QED
      BY <2>1, <2>2
  <1>5. ASSUME NEW r \in 0 .. n - 1
        PROVE  \E x \in S : rank(x) = r
    <2> SUFFICES ASSUME \A x \in S : rank(x) # r
                 PROVE  FALSE
      OBVIOUS
    <2> DEFINE f == [x \in S |-> rank(x)]
    <2> HIDE DEF rank
    <2>1. f \in [S -> (0 .. n - 1) \ {r}] /\ \A x \in S : f[x] = rank(x)
      BY <1>2
    <2>2. IsFiniteSet(0 .. n - 1) /\ Cardinality(0 .. n - 1) = n
      BY <1>1, FS_Interval
    <2>3. /\ IsFiniteSet((0 .. n - 1) \ {r})
          /\ Cardinality((0 .. n - 1) \ {r}) = n - 1
      BY <2>2, FS_RemoveElement
    <2>4. Cardinality((0 .. n - 1) \ {r}) < Cardinality(S)
      BY <1>1, <2>3
    <2> HIDE DEF f, n
    <2>5. \E x, y \in S : x # y /\ f[x] = f[y]
      BY <2>1, <2>3, <2>4, FS_PigeonHole
    <2>6. QED
      BY <1>4, <2>1, <2>5
  <1>6. list = [i \in 1 .. n |-> CHOOSE x \in S : rank(x) = i - 1]
    BY DEF Listed, before, rank
  <1> HIDE DEF rank, n, list
  <1>7. ASSUME NEW i \in 1 .. n
        PROVE  list[i] \in S /\ rank(list[i]) = i - 1
    <2>1. \E x \in S : rank(x) = i - 1
      BY <1>1, <1>5
    <2>2. QED
      BY <1>6, <2>1
  <1>8. list \in [1 .. n -> S]
    BY <1>6, <1>7
  <1>9. ASSUME NEW x \in S
        PROVE  \E i \in 1 .. n : list[i] = x
    <2>1. rank(x) + 1 \in 1 .. n
      BY <1>1, <1>2
    <2>2. rank(list[rank(x) + 1]) = rank(x) /\ list[rank(x) + 1] \in S
      BY <1>1, <1>2, <1>7, <2>1
    <2>3. QED
      BY <1>4, <2>1, <2>2
  <1>10. Range(list) = S
    BY <1>8, <1>9 DEF Range
  <1>11. ASSUME NEW i \in 1 .. n, NEW j \in 1 .. n, i < j
         PROVE  <<list[i], list[j]>> \in precedes
    <2>1. list[i] \in S /\ list[j] \in S /\ rank(list[i]) < rank(list[j])
      BY <1>1, <1>7, <1>11
    <2>2. rank(list[i]) \in Int /\ rank(list[j]) \in Int
      BY <1>1, <1>2, <2>1
    <2>3. list[i] # list[j] /\ <<list[j], list[i]>> \notin precedes
      BY <1>3, <2>1, <2>2
    <2>4. QED
      BY <2>1, <2>3 DEF Orders
  <1>12. QED
    BY <1>1, <1>8, <1>10, <1>11 DEF n, list

\* The Poster writes a batch row only for its own transaction.
AllSubmitted == \A e \in BatchId : batches[e].status # "absent" => batches[e].submittedAt

\* A row that left the queue is in the snapshot of the batch it names, reorged or not.
KnownListed ==
    \A k \in Key : messages[k].status \in {"confirmed", "reorged"} =>
        LET e == <<messages[k].batchRef, TagOf[messages[k].body]>>
        IN  e \in BatchId /\ EntryOf(k) \in batches[e].snapshot

\* A snapshot is of one tag, of messages whose rows exist, and of its own transaction.
SnapshotsHold ==
    \A e \in BatchId : \A m \in batches[e].snapshot :
        /\ messages[m.key].status # "absent"
        /\ TagOfEntry(m) = e[2]
        /\ m \in chain[e[1]].pack

\* A link leads to the row of a later transaction with one of the messages.
LinksForward ==
    \A e \in BatchId : batches[e].replacedBy # NoTx =>
        LET d == <<batches[e].replacedBy, e[2]>>
        IN  /\ d[1] > e[1]
            /\ batches[d].status # "absent"
            /\ batches[e].snapshot \cap batches[d].snapshot # {}

\* Transactions are numbered as they are sent, and the tick that waits has sent the last one that
\* any row can name: what makes a link lead forward.
SentInOrder ==
    /\ \A t, u \in Tx : chain[t].status # "unsent" /\ chain[u].status = "unsent" => t < u
    /\ \A g \in Tickers : Waiting(g) =>
          /\ chain[agg[g].tx].pack = agg[g].pack
          /\ \A e \in BatchId : batches[e].status # "absent" => e[1] < agg[g].tx

ViewInv ==
    /\ LogInv
    /\ AckedDurable
    /\ AllSubmitted
    /\ KnownListed
    /\ SnapshotsHold
    /\ LinksForward
    /\ SentInOrder

LEMMA SnapshotMember ==
  ASSUME TypeOK, NEW e \in BatchId, NEW m \in batches[e].snapshot
  PROVE  m \in Entry /\ m.key \in Key /\ m.body \in Bodies /\ batches[e].status # "absent"
  BY DEF TypeOK, StoreTypeOK, BatchRow, BatchStatus, NoBatch, Entry

\* A commit writes the rows of its pack, and links rows that share a message with it.
LEMMA CommittedBatch ==
  ASSUME TypeOK, TxOwned, NEW g \in Tickers, TickCommit(g), NEW e \in BatchId
  PROVE  IF e \in {agg[g].tx} \X PackTags(agg[g].pack)
         THEN batches'[e] = ConfirmedBatches(agg[g].tx, agg[g].block, agg[g].pack)[e]
         ELSE \/ batches'[e] = batches[e]
              \/ /\ batches[e] \in BatchRow
                 /\ batches'[e] = [batches[e] EXCEPT !.replacedBy = agg[g].tx]
                 /\ \E m \in agg[g].pack : TagOfEntry(m) = e[2] /\ m \in batches[e].snapshot
  <1> DEFINE tick == agg[g]
             rows == ConfirmedBatches(tick.tx, tick.block, tick.pack)
             bs == UpsertBatch(batches, rows)
  <1>1. Unrecorded(tick.tx)
    BY DEF TxOwned, Waiting, TickCommit
  <1>2. DOMAIN rows = {tick.tx} \X PackTags(tick.pack)
    BY DEF ConfirmedBatches
  <1>3. \A d \in DOMAIN rows : rows[d].status = "confirmed"
    BY DEF ConfirmedBatches
  <1>4. batches' = LinkReplaced(bs, tick.tx, tick.block, tick.pack)
    BY DEF TickCommit
  <1>5. e \in DOMAIN rows => bs[e] = rows[e]
    BY <1>1, <1>2 DEF UpsertBatch, Unrecorded, BatchId, TypeOK, StoreTypeOK
  <1>6. e \notin DOMAIN rows => bs[e] = batches[e]
    BY DEF UpsertBatch, TypeOK, StoreTypeOK
  <1>7. DOMAIN bs = BatchId
    BY DEF UpsertBatch, TypeOK, StoreTypeOK
  <1>8. batches[e] \in BatchRow \/ batches[e].status = "absent"
    BY DEF TypeOK, StoreTypeOK, NoBatch
  <1> HIDE DEF bs, rows, tick
  <1>9. \/ batches'[e] = bs[e]
        \/ /\ e \in Replaceable(bs, tick.block, tick.pack)
           /\ batches'[e] = [bs[e] EXCEPT !.replacedBy = tick.tx]
    BY <1>4, <1>7 DEF LinkReplaced
  <1>10. e \in Replaceable(bs, tick.block, tick.pack) =>
            /\ bs[e].status = "reorged"
            /\ \E m \in tick.pack : TagOfEntry(m) = e[2] /\ m \in bs[e].snapshot
    BY DEF Replaceable, BatchesSince
  <1>11. QED
    BY <1>2, <1>3, <1>5, <1>6, <1>8, <1>9, <1>10 DEF tick, rows

\* markReorged touches neither the link nor submitted_at.
LEMMA ReorgedColumns ==
  ASSUME TypeOK, NEW d \in BatchId, WatchReorg(d), NEW e \in BatchId
  PROVE  /\ batches'[e].submittedAt = batches[e].submittedAt
         /\ batches'[e].replacedBy = batches[e].replacedBy
  <1>1. batches' = ReorgBatches(batches, d[1]) /\ e \in DOMAIN batches
    BY DEF WatchReorg, TypeOK, StoreTypeOK
  <1>2. batches[e].status = "absent" \/ batches[e] \in BatchRow
    BY DEF TypeOK, StoreTypeOK, NoBatch
  <1>3. QED
    BY <1>1, <1>2 DEF ReorgBatches, BatchRow

\* No step deletes a row.
LEMMA RowsStay ==
  ASSUME TrackerInv, [Next]_posterVars, NEW k \in Key, messages[k].status # "absent"
  PROVE  messages'[k].status # "absent"
  <1> USE DEF TrackerInv
  <1>1. ASSUME NEW s \in Senders, NEW n \in 0 .. MaxNonce, NEW b \in Bodies,
               IngestAccept(s, n, b)
        PROVE  messages'[k].status # "absent"
    BY <1>1, AcceptedMessages
  <1>2. QED
    BY <1>1, RowsStep DEF SameRows

\* What the watcher's reorg leaves of a row that is not back in the queue.
LEMMA ReorgedRow ==
  ASSUME TypeOK, NEW e \in BatchId, WatchReorg(e), NEW k \in Key
  PROVE  \/ Pending(k)'
         \/ /\ messages'[k].body = messages[k].body
            /\ messages'[k].batchRef = messages[k].batchRef
            /\ \/ messages'[k].status = messages[k].status
               \/ messages'[k].status = "reorged" /\ messages[k].status = "confirmed"
  <1>1. messages[k] \in MessageRow \cup {NoMessage}
    BY DEF TypeOK, StoreTypeOK
  <1>2. PICK rank :
           /\ Requeued(e, k) =>
                 messages'[k] = [status |-> "pending", body |-> messages[k].body,
                                 batchRef |-> NoTx, ingestSeq |-> tagSeq[e[2]] + rank[k]]
           /\ ~ Requeued(e, k) =>
                 messages'[k] = IF TakenBack(e, k)
                                THEN [messages[k] EXCEPT !.status = "reorged"]
                                ELSE messages[k]
    BY ReorgedRows
  <1>3. CASE Requeued(e, k)
    BY <1>2, <1>3 DEF Pending
  <1>4. CASE ~ Requeued(e, k)
    <2>1. CASE TakenBack(e, k)
      <3>1. messages[k] \in MessageRow /\ messages[k].status = "confirmed"
        BY <1>1, <2>1 DEF TakenBack, NoMessage
      <3>2. messages'[k] = [messages[k] EXCEPT !.status = "reorged"]
        BY <1>2, <1>4, <2>1
      <3>3. QED
        BY <3>1, <3>2 DEF MessageRow
    <2>2. CASE ~ TakenBack(e, k)
      BY <1>2, <1>4, <2>2
    <2>3. QED
      BY <2>1, <2>2
  <1>5. QED
    BY <1>3, <1>4

-----------------------------------------------------------------------------

\* A send gives its tick the lowest identifier left, and its transaction the tick's pack.
LEMMA SendStep ==
  ASSUME TypeOK, NEW t, NEW pack \in SUBSET Entry, NextTx(t), EnterMempool(t, pack)
  PROVE  /\ t \in Tx /\ chain[t].status = "unsent"
         /\ chain'[t].status = "mempool" /\ chain'[t].pack = pack
         /\ \A u \in Tx : u # t => chain'[u] = chain[u]
         /\ \A u \in Tx : chain[u].status = "unsent" => t <= u
  BY DEF NextTx, EnterMempool, NoChainTx, TypeOK, L1TypeOK

\* What a step does to a transaction: its pack and whether it is sent stay as they are, unless it
\* is the one that a send enters in the mempool.
SameTx(t) ==
    /\ chain'[t].pack = chain[t].pack
    /\ chain'[t].status = "unsent" <=> chain[t].status = "unsent"

LEMMA SentChain ==
  ASSUME TypeOK, [Next]_posterVars
  PROVE  \/ \A t \in Tx : SameTx(t)
         \/ \E t \in Tx, pack \in SUBSET Entry :
               /\ NextTx(t) /\ EnterMempool(t, pack)
               /\ UNCHANGED <<messages, batches>>
  <1>1. \A g \in Tickers : agg[g].pack \in SUBSET Entry
    BY DEF TypeOK, PosterProcTypeOK, AggTypeOK, Tick
  <1>2. CASE UNCHANGED chain
    BY <1>2 DEF SameTx
  <1>3. ASSUME NEW g \in Tickers, TickSend(g)
        PROVE  \E t \in Tx, pack \in SUBSET Entry :
                  /\ NextTx(t) /\ EnterMempool(t, pack)
                  /\ UNCHANGED <<messages, batches>>
    <2>1. PICK t \in Tx : NextTx(t) /\ EnterMempool(t, agg[g].pack)
      BY <1>3 DEF TickSend
    <2>2. UNCHANGED <<messages, batches>>
      BY <1>3 DEF TickSend, storeVars
    <2>3. QED
      BY <1>1, <2>1, <2>2
  <1>4. ASSUME NEW g \in Tickers, NEW permanent \in BOOLEAN, TickSendFails(g, permanent)
        PROVE  \/ UNCHANGED chain
               \/ \E t \in Tx, pack \in SUBSET Entry :
                     /\ NextTx(t) /\ EnterMempool(t, pack)
                     /\ UNCHANGED <<messages, batches>>
    <2>1. UNCHANGED <<messages, batches>>
      BY <1>4 DEF TickSendFails, TickFailed, storeVars
    <2>2. UNCHANGED chain \/ \E t \in Tx : NextTx(t) /\ EnterMempool(t, agg[g].pack)
      BY <1>4 DEF TickSendFails
    <2>3. QED
      BY <1>1, <2>1, <2>2
  <1>5. ASSUME NEW first \in 1 .. head, Fork(first), NEW t \in Tx
        PROVE  SameTx(t)
    <2> DEFINE moved == {u \in Tx : Mined(u) /\ chain[u].block >= first}
    <2>1. PICK place \in [moved -> {0} \cup (first .. head)] :
            chain' = [u \in Tx |->
                  IF u \notin moved THEN chain[u]
                  ELSE IF place[u] = 0
                  THEN [chain[u] EXCEPT !.status = "mempool", !.block = 0]
                  ELSE [chain[u] EXCEPT !.block = place[u]]]
      BY <1>5 DEF Fork
    <2>2. \A u \in moved : chain[u].status = "mined"
      BY DEF Mined
    <2>3. chain \in [Tx -> ChainTx]
      BY DEF TypeOK, L1TypeOK
    <2> HIDE DEF moved
    <2>4. QED
      BY <2>1, <2>2, <2>3 DEF ChainTx, SameTx
  <1>6. ASSUME L1Next
        PROVE  \A t \in Tx : SameTx(t)
    <2>1. CASE \A first \in 1 .. head : ~ Fork(first)
      BY <1>6, <2>1, ForklessChain DEF SameTx
    <2>2. QED
      BY <1>5, <2>1
  <1>7. ASSUME Ingest \/ WatchReorgs \/ Crash
        PROVE  UNCHANGED chain
    BY <1>7 DEF Ingest, IngestAccept, IngestRetry, IngestReject, WatchReorgs, WatchList,
       WatchKeep, WatchLost, WatchReorg, WatchReorgFails, Crash, l1Vars
  <1>8. ASSUME NEW g \in Tickers,
               \/ TickSelect(g) \/ TickReceipt(g) \/ TickCommit(g) \/ TickCommitFails(g)
               \/ \E permanent \in BOOLEAN : TickReceiptFails(g, permanent)
        PROVE  UNCHANGED chain
    BY <1>8 DEF TickSelect, TickReceipt, TickCommit, TickCommitFails, TickReceiptFails, l1Vars
  <1>9. QED
    BY <1>2, <1>3, <1>4, <1>6, <1>7, <1>8
       DEF Next, PosterNext, Aggregate, posterVars, l1Vars

\* A tick that waits after a step has just sent, or waited before for the same transaction.
LEMMA WaitStep ==
  ASSUME TypeOK, [Next]_posterVars, NEW g \in Tickers, Waiting(g)'
  PROVE  \/ /\ Waiting(g) /\ ~ TickCommit(g)
            /\ agg'[g].tx = agg[g].tx /\ agg'[g].pack = agg[g].pack
         \/ TickSend(g)
  <1> DEFINE Still == /\ Waiting(g) /\ ~ TickCommit(g)
                      /\ agg'[g].tx = agg[g].tx /\ agg'[g].pack = agg[g].pack
  <1>1. agg \in [Tickers -> Tick]
    BY DEF TypeOK, PosterProcTypeOK, AggTypeOK
  <1>2. ~ TickCommit(g)
    BY <1>1 DEF TickCommit, Waiting, NoTick
  <1>3. ASSUME UNCHANGED agg
        PROVE  Still
    BY <1>2, <1>3 DEF Waiting
  <1>4. ASSUME NEW h \in Tickers, agg' = [agg EXCEPT ![h] = NoTick]
        PROVE  Still
    BY <1>1, <1>2, <1>4 DEF NoTick, Waiting
  <1>5. ASSUME NEW h \in Tickers, TickSend(h)
        PROVE  Still \/ TickSend(g)
    BY <1>1, <1>2, <1>5 DEF TickSend, Waiting, Tick
  <1>6. ASSUME NEW h \in Tickers, TickReceipt(h)
        PROVE  Still
    BY <1>1, <1>2, <1>6 DEF TickReceipt, Waiting, Tick
  <1>7. ASSUME NEW h \in Tickers, TickSelect(h)
        PROVE  Still
    <2>1. PICK K : agg' = [agg EXCEPT ![h] = [NoTick EXCEPT
                        !.pc = "send", !.pack = {EntryOf(k) : k \in K}]]
      BY <1>7 DEF TickSelect
    <2>2. agg'[h].pc = "send" /\ \A i \in Tickers : i # h => agg'[i] = agg[i]
      BY <1>1, <2>1 DEF NoTick
    <2>3. QED
      BY <1>2, <2>2 DEF Waiting
  <1>8. ASSUME Crash
        PROVE  FALSE
    BY <1>8 DEF Crash, NoTick, Waiting
  <1>9. QED
    BY <1>3, <1>4, <1>5, <1>6, <1>7, <1>8
       DEF Next, PosterNext, Ingest, Aggregate, WatchReorgs, IngestAccept,
           IngestRetry, IngestReject, TickCommit, TickCommitFails, TickSendFails,
           TickReceiptFails, TickFailed, WatchList, WatchKeep, WatchLost,
           WatchReorg, WatchReorgFails, posterVars, posterProcVars

\* The row of a batch is written by the commit that creates it; afterwards only its status and
\* its link change.
Created(g, e) ==
    /\ TickCommit(g)
    /\ e \in {agg[g].tx} \X PackTags(agg[g].pack)
    /\ batches[e].status = "absent"
    /\ batches'[e] = ConfirmedBatches(agg[g].tx, agg[g].block, agg[g].pack)[e]
LinkedBy(g, e) ==
    /\ TickCommit(g)
    /\ batches'[e].replacedBy = agg[g].tx
    /\ \E m \in agg[g].pack : TagOfEntry(m) = e[2] /\ m \in batches[e].snapshot
RowKept(e) ==
    /\ batches'[e].snapshot = batches[e].snapshot
    /\ batches'[e].submittedAt = batches[e].submittedAt
    /\ batches'[e].status = "absent" <=> batches[e].status = "absent"

LEMMA BatchStep ==
  ASSUME TypeOK, TxOwned, [Next]_posterVars, NEW e \in BatchId
  PROVE  \/ \E g \in Tickers : Created(g, e)
         \/ /\ RowKept(e)
            /\ \/ batches'[e].replacedBy = batches[e].replacedBy
               \/ \E g \in Tickers : LinkedBy(g, e)
  <1>1. ASSUME NEW g \in Tickers, TickCommit(g)
        PROVE  \/ Created(g, e)
               \/ /\ RowKept(e)
                  /\ batches'[e].replacedBy = batches[e].replacedBy \/ LinkedBy(g, e)
    <2>1. CASE e \in {agg[g].tx} \X PackTags(agg[g].pack)
      <3>1. batches[e].status = "absent"
        BY <1>1, <2>1 DEF TxOwned, Waiting, Unrecorded, TickCommit, BatchId
      <3>2. QED
        BY <1>1, <2>1, <3>1, CommittedBatch DEF Created
    <2>2. CASE e \notin {agg[g].tx} \X PackTags(agg[g].pack)
      <3>1. CASE batches'[e] = batches[e]
        BY <3>1 DEF RowKept
      <3>2. CASE batches'[e] # batches[e]
        <4>1. /\ batches[e] \in BatchRow
              /\ batches'[e] = [batches[e] EXCEPT !.replacedBy = agg[g].tx]
              /\ \E m \in agg[g].pack : TagOfEntry(m) = e[2] /\ m \in batches[e].snapshot
          BY <1>1, <2>2, <3>2, CommittedBatch
        <4>2. QED
          BY <1>1, <4>1 DEF RowKept, LinkedBy, BatchRow
      <3>3. QED
        BY <3>1, <3>2
    <2>3. QED
      BY <2>1, <2>2
  <1>2. ASSUME NEW d \in BatchId, WatchReorg(d)
        PROVE  RowKept(e) /\ batches'[e].replacedBy = batches[e].replacedBy
    BY <1>2, ReorgedBatches, ReorgedColumns DEF RowKept
  <1>3. CASE UNCHANGED batches
    BY <1>3 DEF RowKept
  <1>4. QED
    BY <1>1, <1>2, <1>3, BatchesStep

LEMMA CreatedRow ==
  ASSUME NEW g, NEW e, Created(g, e)
  PROVE  /\ TickCommit(g) /\ e[1] = agg[g].tx
         /\ batches'[e].status = "confirmed" /\ batches'[e].submittedAt
         /\ batches'[e].replacedBy = NoTx
         /\ batches'[e].snapshot = {m \in agg[g].pack : TagOfEntry(m) = e[2]}
  BY DEF Created, ConfirmedBatches

LEMMA SentBatch ==
  ASSUME TxOwned, NEW e \in BatchId, batches[e].status # "absent"
  PROVE  e[1] \in Tx /\ chain[e[1]].status # "unsent"
  BY DEF TxOwned, Unrecorded, BatchId

-----------------------------------------------------------------------------

(* The invariant is inductive *)

LEMMA SubmittedStep == ViewInv /\ [Next]_posterVars => AllSubmitted'
  <1> SUFFICES ASSUME ViewInv, [Next]_posterVars, NEW e \in BatchId,
                      batches'[e].status # "absent"
               PROVE  batches'[e].submittedAt
    BY DEF AllSubmitted
  <1> USE DEF ViewInv, LogInv, LiveInv, BackedInv, TrackerInv
  <1>1. ASSUME NEW g \in Tickers, Created(g, e)
        PROVE  batches'[e].submittedAt
    BY <1>1, CreatedRow
  <1>2. CASE RowKept(e)
    BY <1>2 DEF RowKept, AllSubmitted
  <1>3. QED
    BY <1>1, <1>2, BatchStep

LEMMA ListedStep == ViewInv /\ [Next]_posterVars => KnownListed'
  <1> SUFFICES ASSUME ViewInv, [Next]_posterVars, NEW k \in Key,
                      messages'[k].status \in {"confirmed", "reorged"}
               PROVE  LET e == <<messages'[k].batchRef, TagOf[messages'[k].body]>>
                      IN  e \in BatchId /\ [key |-> k, body |-> messages'[k].body] \in batches'[e].snapshot
    BY DEF KnownListed, EntryOf
  <1> USE DEF ViewInv, LogInv, LiveInv, BackedInv, TrackerInv
  <1> DEFINE Goal == LET e == <<messages'[k].batchRef, TagOf[messages'[k].body]>>
                     IN  e \in BatchId /\ [key |-> k, body |-> messages'[k].body] \in batches'[e].snapshot
  <1>1. ASSUME messages[k].status \in {"confirmed", "reorged"},
               messages'[k].body = messages[k].body,
               messages'[k].batchRef = messages[k].batchRef
        PROVE  Goal
    <2> DEFINE e == <<messages[k].batchRef, TagOf[messages[k].body]>>
    <2>1. e \in BatchId /\ [key |-> k, body |-> messages[k].body] \in batches[e].snapshot
      BY <1>1 DEF KnownListed, EntryOf
    <2> HIDE DEF e
    <2>2. batches[e].status # "absent"
      BY <2>1, SnapshotMember
    <2>3. \A g \in Tickers : ~ Created(g, e)
      BY <2>2 DEF Created
    <2>4. batches'[e].snapshot = batches[e].snapshot
      BY <2>1, <2>3, BatchStep DEF RowKept
    <2>5. QED
      BY <1>1, <2>1, <2>4 DEF e
  <1> HIDE DEF Goal
  <1>2. ASSUME NEW s \in Senders, NEW n \in 0 .. MaxNonce, NEW b \in Bodies,
               IngestAccept(s, n, b)
        PROVE  Goal
    BY <1>1, <1>2, AcceptedMessages
  <1>3. ASSUME NEW g \in Tickers, TickCommit(g)
        PROVE  Goal
    <2>1. CASE messages'[k] = messages[k]
      BY <1>1, <2>1
    <2>2. CASE messages'[k] # messages[k]
      <3>1. /\ messages'[k].batchRef = agg[g].tx
            /\ messages'[k].body = messages[k].body
            /\ EntryOf(k) \in agg[g].pack
        BY <1>3, <2>2, CommitMessages
      <3> DEFINE e == <<agg[g].tx, TagOf[messages[k].body]>>
      <3>2. agg[g].tx \in Tx /\ agg[g].pack \in SUBSET Entry
        BY <1>3 DEF TickCommit, TypeOK, PosterProcTypeOK, AggTypeOK, Tick
      <3>3. messages[k].body \in Bodies /\ TagOfEntry(EntryOf(k)) = TagOf[messages[k].body]
        BY <3>1, <3>2 DEF EntryOf, Entry, TagOfEntry
      <3>4. e \in BatchId /\ e \in {agg[g].tx} \X PackTags(agg[g].pack) /\ e[2] = TagOf[messages[k].body]
        BY <3>1, <3>2, <3>3, BamStoreAssumption DEF BatchId, PackTags
      <3> HIDE DEF e
      <3>5. batches'[e].snapshot = {m \in agg[g].pack : TagOfEntry(m) = e[2]}
        BY <1>3, <3>4, CommitBatches
      <3>6. EntryOf(k) \in batches'[e].snapshot
        BY <3>1, <3>3, <3>4, <3>5
      <3>7. QED
        BY <3>1, <3>4, <3>6 DEF Goal, e, EntryOf
    <2>3. QED
      BY <2>1, <2>2
  <1>4. ASSUME NEW e \in BatchId, WatchReorg(e)
        PROVE  Goal
    BY <1>1, <1>4, ReorgedRow DEF Pending
  <1>5. ASSUME UNCHANGED messages
        PROVE  Goal
    <2>1. messages'[k] = messages[k]
      BY <1>5
    <2>2. QED
      BY <1>1, <2>1
  <1>6. Goal
    BY <1>2, <1>3, <1>4, <1>5, MessagesStep
  <1>7. QED
    BY <1>6 DEF Goal

LEMMA SnapshotsStep == ViewInv /\ [Next]_posterVars => SnapshotsHold'
  <1> SUFFICES ASSUME ViewInv, [Next]_posterVars, NEW e \in BatchId,
                      NEW m \in batches'[e].snapshot
               PROVE  /\ messages'[m.key].status # "absent"
                      /\ TagOfEntry(m) = e[2]
                      /\ m \in chain'[e[1]].pack
    BY DEF SnapshotsHold, TagOfEntry
  <1> USE DEF ViewInv, LogInv, LiveInv, BackedInv, TrackerInv
  <1>1. ASSUME NEW g \in Tickers, Created(g, e)
        PROVE  /\ messages'[m.key].status # "absent"
               /\ TagOfEntry(m) = e[2]
               /\ m \in chain'[e[1]].pack
    <2>1. TickCommit(g) /\ e[1] = agg[g].tx /\ m \in agg[g].pack /\ TagOfEntry(m) = e[2]
      BY <1>1, CreatedRow
    <2>2. agg[g].pc = "commit" /\ UNCHANGED chain
      BY <2>1 DEF TickCommit, l1Vars
    <2>3. chain[e[1]].pack = agg[g].pack
      BY <2>1, <2>2 DEF SentInOrder, Waiting
    <2>4. m.key \in Key
      BY <2>1 DEF TypeOK, PosterProcTypeOK, AggTypeOK, Tick, Entry
    <2>5. messages[m.key].status # "absent"
      BY <2>1, <2>2 DEF PackQueued
    <2>6. QED
      BY <2>1, <2>2, <2>3, <2>4, <2>5, RowsStay
  <1>2. CASE RowKept(e)
    <2>1. m \in batches[e].snapshot
      BY <1>2 DEF RowKept
    <2>2. m.key \in Key /\ batches[e].status # "absent"
      BY <2>1, SnapshotMember
    <2>3. messages[m.key].status # "absent" /\ TagOfEntry(m) = e[2] /\ m \in chain[e[1]].pack
      BY <2>1 DEF SnapshotsHold
    <2>4. e[1] \in Tx /\ chain[e[1]].status # "unsent"
      BY <2>2, SentBatch
    <2>5. chain'[e[1]].pack = chain[e[1]].pack
      BY <2>4, SentChain, SendStep DEF SameTx
    <2>6. QED
      BY <2>2, <2>3, <2>5, RowsStay
  <1>3. QED
    BY <1>1, <1>2, BatchStep

LEMMA LinksStep == ViewInv /\ [Next]_posterVars => LinksForward'
  <1> SUFFICES ASSUME ViewInv, [Next]_posterVars, NEW e \in BatchId,
                      batches'[e].replacedBy # NoTx
               PROVE  LET d == <<batches'[e].replacedBy, e[2]>>
                      IN  /\ d[1] > e[1]
                          /\ batches'[d].status # "absent"
                          /\ batches'[e].snapshot \cap batches'[d].snapshot # {}
    BY DEF LinksForward
  <1> USE DEF ViewInv, LogInv, LiveInv, BackedInv, TrackerInv
  <1> DEFINE Goal == LET d == <<batches'[e].replacedBy, e[2]>>
                     IN  /\ d[1] > e[1]
                         /\ batches'[d].status # "absent"
                         /\ batches'[e].snapshot \cap batches'[d].snapshot # {}
  <1>1. ASSUME RowKept(e), batches'[e].replacedBy = batches[e].replacedBy
        PROVE  Goal
    <2> DEFINE d == <<batches[e].replacedBy, e[2]>>
    <2>1. d \in BatchId /\ d[1] = batches[e].replacedBy
      BY <1>1 DEF TypeOK, StoreTypeOK, BatchRow, NoBatch, BatchId
    <2>2. d[1] > e[1] /\ batches[d].status # "absent" /\ batches[e].snapshot \cap batches[d].snapshot # {}
      BY <1>1 DEF LinksForward
    <2> HIDE DEF d
    <2>3. \A g \in Tickers : ~ Created(g, d)
      BY <2>2 DEF Created
    <2>4. RowKept(d)
      BY <2>1, <2>3, BatchStep
    <2>5. QED
      BY <1>1, <2>2, <2>4 DEF RowKept, d
  <1>2. ASSUME NEW g \in Tickers, RowKept(e), LinkedBy(g, e)
        PROVE  Goal
    <2> DEFINE d == <<agg[g].tx, e[2]>>
    <2>1. TickCommit(g) /\ batches'[e].replacedBy = agg[g].tx
      BY <1>2 DEF LinkedBy
    <2>2. PICK m \in agg[g].pack : TagOfEntry(m) = e[2] /\ m \in batches[e].snapshot
      BY <1>2 DEF LinkedBy
    <2>3. agg[g].tx \in Tx
      BY <2>1 DEF TickCommit, TypeOK, PosterProcTypeOK, AggTypeOK
    <2>4. d \in BatchId /\ d \in {agg[g].tx} \X PackTags(agg[g].pack) /\ d[2] = e[2] /\ d[1] = agg[g].tx
      BY <2>2, <2>3 DEF BatchId, PackTags
    <2>5. batches[e].status # "absent"
      BY <2>2, SnapshotMember
    <2>6. e[1] < agg[g].tx
      BY <2>1, <2>5 DEF SentInOrder, Waiting, TickCommit
    <2> HIDE DEF d
    <2>7. batches'[d].status = "confirmed" /\ m \in batches'[d].snapshot
      BY <2>1, <2>2, <2>4, CommitBatches
    <2>8. m \in batches'[e].snapshot
      BY <1>2, <2>2 DEF RowKept
    <2>9. d[1] > e[1]
      BY <2>3, <2>4, <2>6 DEF Tx, BatchId
    <2>10. QED
      BY <2>1, <2>7, <2>8, <2>9 DEF d
  <1>3. ASSUME NEW g \in Tickers, Created(g, e)
        PROVE  FALSE
    BY <1>3, CreatedRow
  <1>4. QED
    BY <1>1, <1>2, <1>3, BatchStep

LEMMA OrderStep ==
  ASSUME SingleTicker, ViewInv, [Next]_posterVars
  PROVE  SentInOrder'
  <1> USE DEF ViewInv, LogInv, LiveInv, BackedInv, TrackerInv
  <1>1. ASSUME NEW t \in Tx, NEW u \in Tx, chain'[t].status # "unsent", chain'[u].status = "unsent"
        PROVE  t < u
    <2>1. CASE \A v \in Tx : SameTx(v)
      BY <1>1, <2>1 DEF SameTx, SentInOrder
    <2>2. ASSUME NEW v \in Tx, NEW pack \in SUBSET Entry, NextTx(v), EnterMempool(v, pack)
          PROVE  t < u
      <3>1. u # v /\ chain[u].status = "unsent" /\ v <= u
        BY <1>1, <2>2, SendStep
      <3>2. CASE t = v
        BY <3>1, <3>2 DEF Tx
      <3>3. CASE t # v
        BY <1>1, <2>2, <3>1, <3>3, SendStep DEF SentInOrder
      <3>4. QED
        BY <3>2, <3>3
    <2>3. QED
      BY <2>1, <2>2, SentChain
  <1>2. ASSUME NEW g \in Tickers, Waiting(g)'
        PROVE  /\ chain'[agg'[g].tx].pack = agg'[g].pack
               /\ \A e \in BatchId : batches'[e].status # "absent" => e[1] < agg'[g].tx
    <2>1. CASE /\ Waiting(g) /\ ~ TickCommit(g)
               /\ agg'[g].tx = agg[g].tx /\ agg'[g].pack = agg[g].pack
      <3>1. agg[g].tx \in Tx /\ chain[agg[g].tx].status # "unsent"
        BY <2>1 DEF TxOwned, Waiting, TypeOK, PosterProcTypeOK, AggTypeOK
      <3>2. chain'[agg[g].tx].pack = chain[agg[g].tx].pack
        BY <3>1, SentChain, SendStep DEF SameTx
      <3>3. \A h \in Tickers : ~ TickCommit(h)
        BY <2>1, OneTicker
      <3>4. \A e \in BatchId : batches'[e].status # "absent" => batches[e].status # "absent"
        BY <3>3, BatchStep DEF Created, RowKept
      <3>5. QED
        BY <2>1, <3>2, <3>4 DEF SentInOrder
    <2>2. CASE TickSend(g)
      <3>1. PICK t \in Tx :
               /\ NextTx(t)
               /\ EnterMempool(t, agg[g].pack)
               /\ agg' = [agg EXCEPT ![g].pc = "receipt", ![g].tx = t]
        BY <2>2 DEF TickSend
      <3>2. agg'[g].tx = t /\ agg'[g].pack = agg[g].pack /\ agg[g].pack \in SUBSET Entry
        BY <3>1 DEF TypeOK, PosterProcTypeOK, AggTypeOK, Tick
      <3>3. UNCHANGED batches
        BY <2>2 DEF TickSend, storeVars
      <3>4. chain[t].status = "unsent" /\ chain'[t].pack = agg[g].pack
        BY <3>1, <3>2, SendStep
      <3>5. QED
        BY <3>2, <3>3, <3>4, SentBatch DEF SentInOrder
    <2>3. QED
      BY <1>2, <2>1, <2>2, WaitStep
  <1>3. QED
    BY <1>1, <1>2 DEF SentInOrder

LEMMA ViewStep ==
  ASSUME SingleTicker, ViewInv, [Next]_posterVars
  PROVE  ViewInv'
  <1>1. LogInv'
    BY LogStep DEF ViewInv
  <1>2. AckedDurable'
    BY AckedStep DEF AckedInv, ViewInv, LogInv, LiveInv, BackedInv
  <1>3. QED
    BY <1>1, <1>2, SubmittedStep, ListedStep, SnapshotsStep, LinksStep, OrderStep DEF ViewInv

-----------------------------------------------------------------------------
(* What the invariant shows of the views *)

\* The pending view is the whole queue.
LEMMA PendingListed ==
  ASSUME TypeOK, NumbersInOrder, NEW t \in Tags
  PROVE  Range(PendingView(t, NoLimit, 0)) = PendingByTag(messages, t)
  <1> DEFINE rows == {k \in PendingByTag(messages, t) : messages[k].ingestSeq > 0}
             precedes == {p \in rows \X rows :
                             messages[p[1]].ingestSeq < messages[p[2]].ingestSeq}
  <1>1. \A k \in PendingByTag(messages, t) :
           /\ k \in Key /\ Pending(k) /\ TagOf[messages[k].body] = t
           /\ messages[k].ingestSeq \in Nat /\ messages[k].ingestSeq > 0
    <2>1. ASSUME NEW k \in PendingByTag(messages, t)
          PROVE  /\ k \in Key /\ Pending(k) /\ TagOf[messages[k].body] = t
                 /\ messages[k].ingestSeq \in Nat /\ messages[k].ingestSeq > 0
      <3>1. k \in Key /\ Pending(k) /\ TagOf[messages[k].body] = t
        BY DEF PendingByTag, Pending, TypeOK, StoreTypeOK
      <3>2. messages[k] \in MessageRow
        BY <3>1, PresentRow DEF Pending
      <3>3. QED
        BY <3>1, <3>2 DEF NumbersInOrder, MessageRow
    <2>2. QED
      BY <2>1
  <1>2. rows = PendingByTag(messages, t) /\ rows \in SUBSET Key
    BY <1>1
  <1>3. IsFiniteSet(rows)
    BY <1>2, KeyFinite, FS_Subset
  <1>4. \A k, l \in rows : k # l => messages[k].ingestSeq # messages[l].ingestSeq
    BY <1>1, <1>2 DEF NumbersInOrder, SameTag
  <1>5. \A k \in rows : messages[k].ingestSeq \in Nat
    BY <1>1, <1>2
  <1> HIDE DEF rows
  <1>6. \A k, l \in rows : <<k, l>> \in precedes <=> messages[k].ingestSeq < messages[l].ingestSeq
    OBVIOUS
  <1>7. PendingView(t, NoLimit, 0) = Listed(rows, precedes)
    BY DEF PendingView, Limited, rows
  <1> HIDE DEF precedes
  <1>8. Orders(precedes, rows)
    BY <1>4, <1>5, <1>6 DEF Orders
  <1>9. QED
    BY <1>2, <1>3, <1>7, <1>8, ListedRows

\* The history of a tag: one row of each of its batches, newest first.
LEMMA HistoryListed ==
  ASSUME TypeOK, AllSubmitted, NEW t \in Tags
  PROVE  LET n == Cardinality(BatchesOf(t))
             list == NewestOnTop(BatchesOf(t))
         IN  /\ n \in Nat
             /\ list \in [1 .. n -> BatchesOf(t)]
             /\ Range(list) = BatchesOf(t)
             /\ SubmittedView(t, NoLimit) = [i \in 1 .. n |-> SubmittedBatch(list[i])]
             /\ \A i, j \in 1 .. n : i < j => Newer(list[i], list[j])
  <1> DEFINE S == BatchesOf(t)
             precedes == {p \in S \X S : Newer(p[1], p[2])}
             n == Cardinality(S)
             list == NewestOnTop(S)
  <1>1. \A e \in S : /\ e \in BatchId /\ e[1] \in Int /\ e = <<e[1], t>>
                     /\ batches[e].blockNumber \in Int /\ batches[e].submittedAt
    BY DEF BatchesOf, BatchId, Tx, AllSubmitted, TypeOK, StoreTypeOK, BatchRow, NoBatch
  <1>2. IsFiniteSet(S)
    <2>1. IsFiniteSet(Tx)
      BY FS_Interval, BamStoreAssumption DEF Tx
    <2>2. IsFiniteSet(Tx \X {t})
      BY <2>1, FS_Singleton, FS_Product
    <2>3. S \in SUBSET (Tx \X {t})
      BY DEF BatchesOf, BatchId
    <2>4. QED
      BY <2>2, <2>3, FS_Subset
  <1>3. {e \in S : batches[e].submittedAt} = S
    BY <1>1
  <1> HIDE DEF S
  <1>4. \A e, f \in S : <<e, f>> \in precedes <=> Newer(e, f)
    OBVIOUS
  <1>5. list = Listed(S, precedes)
    BY DEF NewestOnTop
  <1> HIDE DEF precedes, list
  <1>6. Orders(precedes, S)
    <2>1. \A e \in S : <<e, e>> \notin precedes
      BY <1>1, <1>4 DEF Newer
    <2>2. \A e, f \in S : e # f => e[1] # f[1]
      BY <1>1
    <2>3. \A e, f \in S : e # f => <<e, f>> \in precedes \/ <<f, e>> \in precedes
      BY <1>1, <1>4, <2>2 DEF Newer
    <2>4. \A e, f, g \in S : <<e, f>> \in precedes /\ <<f, g>> \in precedes
                                => <<e, g>> \in precedes
      BY <1>1, <1>4 DEF Newer
    <2>5. QED
      BY <2>1, <2>3, <2>4 DEF Orders
  <1>7. /\ n \in Nat /\ list \in [1 .. n -> S] /\ Range(list) = S
        /\ \A i, j \in 1 .. n : i < j => <<list[i], list[j]>> \in precedes
    BY <1>2, <1>5, <1>6, ListedRows
  <1>8. \A i, j \in 1 .. n : i < j => Newer(list[i], list[j])
    BY <1>4, <1>7
  <1>9. SubmittedView(t, NoLimit) = [i \in 1 .. n |-> SubmittedBatch(list[i])]
    <2>1. SubmittedView(t, NoLimit) = [i \in DOMAIN list |-> SubmittedBatch(list[i])]
      BY <1>3 DEF SubmittedView, Limited, S, list
    <2>2. QED
      BY <1>7, <2>1
  <1>10. QED
    BY <1>7, <1>8, <1>9 DEF S, list

\* With every batch submitted by this Poster, the status page names the head of the history.
LEMMA StatusNamesHead ==
  ASSUME TypeOK, AllSubmitted, NEW t \in Tags, StatusView(t).lastSubmitted # NoTx
  PROVE  StatusView(t).lastSubmitted = Head(SubmittedView(t, NoLimit)).tx
  <1> DEFINE n == Cardinality(BatchesOf(t))
             list == NewestOnTop(BatchesOf(t))
             page == Limited(list, StatusWindow)
             ours == {i \in DOMAIN page : batches[page[i]].submittedAt}
  <1>1. /\ n \in Nat /\ list \in [1 .. n -> BatchesOf(t)]
        /\ SubmittedView(t, NoLimit) = [i \in 1 .. n |-> SubmittedBatch(list[i])]
    BY HistoryListed
  <1>2. StatusView(t).lastSubmitted =
           IF ours = {} THEN NoTx ELSE page[CHOOSE i \in ours : \A j \in ours : i <= j][1]
    BY DEF StatusView
  <1>3. ours # {}
    BY <1>2
  <1> HIDE DEF n, list
  <1>4. /\ DOMAIN page \in SUBSET (1 .. n) /\ (DOMAIN page # {} => 1 \in DOMAIN page)
        /\ \A i \in DOMAIN page : page[i] = list[i]
    <2>1. list \in Seq(BatchesOf(t)) /\ Len(list) = n
      BY <1>1
    <2>2. CASE page = list
      BY <1>1, <2>2
    <2>3. CASE page # list
      <3>1. page = SubSeq(list, 1, StatusWindow) /\ StatusWindow \in Nat \ {0} /\ n >= StatusWindow
        BY <1>1, <2>1, <2>3, PosterViewsAssumption DEF Limited
      <3> HIDE DEF page
      <3>2. page = [i \in 1 .. StatusWindow |-> list[i]]
        BY <2>1, <3>1
      <3>3. QED
        BY <1>1, <3>1, <3>2
    <2>4. QED
      BY <2>2, <2>3
  <1> HIDE DEF page
  <1>5. \A i \in DOMAIN page : batches[page[i]].submittedAt
    BY <1>1, <1>4 DEF BatchesOf, AllSubmitted
  <1>6. ours = DOMAIN page
    BY <1>5
  <1>7. 1 \in ours /\ \A j \in ours : j \in Nat /\ 1 <= j
    BY <1>1, <1>3, <1>4, <1>6
  <1> HIDE DEF ours
  <1>8. (CHOOSE i \in ours : \A j \in ours : i <= j) = 1
    BY <1>7
  <1>9. StatusView(t).lastSubmitted = list[1][1] /\ 1 \in 1 .. n
    BY <1>2, <1>3, <1>4, <1>6, <1>7, <1>8
  <1>10. Head(SubmittedView(t, NoLimit)) = SubmittedBatch(list[1])
    <2> DEFINE view == SubmittedView(t, NoLimit)
    <2>1. view = [i \in 1 .. n |-> SubmittedBatch(list[i])]
      BY <1>1
    <2> HIDE DEF view
    <2>2. Head(view) = view[1]
      OBVIOUS
    <2>3. view[1] = SubmittedBatch(list[1])
      BY <1>9, <2>1
    <2>4. QED
      BY <2>2, <2>3 DEF view
  <1>11. QED
    BY <1>9, <1>10 DEF SubmittedBatch

\* A listed batch is the whole snapshot of its row.
LEMMA ListedBatch ==
  ASSUME TypeOK, SnapshotsHold, NEW e \in BatchId, batches[e].status # "absent"
  PROVE  /\ SubmittedBatch(e).tx = e[1]
         /\ SubmittedBatch(e).replacedBy = batches[e].replacedBy
         /\ SubmittedBatch(e).messages = batches[e].snapshot
         /\ SubmittedBatch(e).status = "included" => batches[e].status = "confirmed"
         /\ SubmittedBatch(e).status = "resubmitted" => batches[e].replacedBy # NoTx
  <1>1. batches[e].status \in BatchStatus
    BY DEF TypeOK, StoreTypeOK, BatchRow, NoBatch
  <1>2. {m \in batches[e].snapshot : messages[m.key].status # "absent"} = batches[e].snapshot
    BY DEF SnapshotsHold
  <1>3. /\ SubmittedBatch(e).status = ViewStatus(batches[e])
        /\ SubmittedBatch(e).tx = e[1]
        /\ SubmittedBatch(e).replacedBy = batches[e].replacedBy
        /\ SubmittedBatch(e).messages = batches[e].snapshot
    BY <1>2 DEF SubmittedBatch
  <1>4. batches[e].status = "reorged" =>
           ViewStatus(batches[e]) = IF batches[e].replacedBy = NoTx THEN "reorged" ELSE "resubmitted"
    BY DEF ViewStatus
  <1>5. batches[e].status = "confirmed" => ViewStatus(batches[e]) = "included"
    BY DEF ViewStatus
  <1>6. QED
    BY <1>1, <1>3, <1>4, <1>5 DEF BatchStatus

\* `unhealthy' is what closes the ingest.
LEMMA HealthClosesIngest ==
  ASSUME TypeOK
  PROVE  HealthCode = 200 <=> Healthy
  <1>1. attempts \in 0 .. UnhealthyAfter /\ stopped \in BOOLEAN
    BY DEF TypeOK, PosterProcTypeOK
  <1>2. CASE Healthy
    <2>1. attempts < UnhealthyAfter /\ ~ stopped
      BY <1>2 DEF Healthy
    <2>2. CASE attempts < DegradedAfter
      <3>1. HealthState = "ok"
        BY <1>1, <2>1, <2>2, PosterViewsAssumption, PosterAssumption DEF HealthState
      <3>2. QED
        BY <1>2, <3>1 DEF HealthCode
    <2>3. CASE attempts >= DegradedAfter
      <3>1. HealthState = "degraded"
        BY <1>1, <2>1, <2>3, PosterViewsAssumption, PosterAssumption DEF HealthState
      <3>2. QED
        BY <1>2, <3>1 DEF HealthCode
    <2>4. QED
      BY <1>1, <2>2, <2>3, PosterViewsAssumption, PosterAssumption
  <1>3. CASE ~ Healthy
    <2>1. attempts >= UnhealthyAfter \/ stopped
      BY <1>1, <1>3, PosterAssumption DEF Healthy
    <2>2. HealthState = "unhealthy"
      BY <1>1, <2>1, PosterViewsAssumption, PosterAssumption DEF HealthState
    <2>3. QED
      BY <1>3, <2>2 DEF HealthCode
  <1>4. QED
    BY <1>2, <1>3

LEMMA ViewInvShows == ViewInv => AcceptedIsVisible
  <1> SUFFICES ASSUME ViewInv
               PROVE  AcceptedIsVisible
    OBVIOUS
  <1> USE DEF ViewInv, LogInv, LiveInv, BackedInv, TrackerInv
  <1>1. SUFFICES ASSUME NEW t \in Tags
        PROVE  LET waiting == Range(PendingView(t, NoLimit, 0))
                   history == SubmittedView(t, NoLimit)
                   listed == Range(history)
                   summary == StatusView(t)
               IN  /\ \A m \in {n \in acked : TagOfEntry(n) = t} :
                         LET included == {b \in listed : b.status = "included" /\ m \in b.messages}
                         IN  /\ m.key \in waiting \/ \E b \in listed : m \in b.messages
                             /\ m.key \in waiting => included = {}
                             /\ Cardinality(included) <= 1
                             /\ m.key[2] < NextNonce(m.key[1])
                   /\ \A b \in listed :
                         /\ b.messages \subseteq chain[b.tx].pack
                         /\ b.status = "resubmitted" =>
                               \E c \in listed : /\ c.tx = b.replacedBy /\ c.tx > b.tx
                                                 /\ b.messages \cap c.messages # {}
                   /\ summary.pending = Cardinality(waiting)
                   /\ summary.lastSubmitted # NoTx => summary.lastSubmitted = Head(history).tx
    BY HealthClosesIngest DEF AcceptedIsVisible
  <1> DEFINE waiting == Range(PendingView(t, NoLimit, 0))
             listed == Range(SubmittedView(t, NoLimit))
  <1>2. waiting = PendingByTag(messages, t)
    BY PendingListed
  <1>3. \A b : b \in listed <=> \E e \in BatchesOf(t) : b = SubmittedBatch(e)
    <2> DEFINE n == Cardinality(BatchesOf(t))
               list == NewestOnTop(BatchesOf(t))
               view == SubmittedView(t, NoLimit)
    <2>1. /\ list \in [1 .. n -> BatchesOf(t)]
          /\ Range(list) = BatchesOf(t)
          /\ view = [i \in 1 .. n |-> SubmittedBatch(list[i])]
      BY HistoryListed
    <2> HIDE DEF n, list, view
    <2>2. \A b : b \in Range(view) <=> \E i \in 1 .. n : b = SubmittedBatch(list[i])
      BY <2>1 DEF Range
    <2>3. \A e : e \in BatchesOf(t) <=> \E i \in 1 .. n : e = list[i]
      BY <2>1 DEF Range
    <2>4. QED
      BY <2>2, <2>3 DEF view
  <1>4. \A e \in BatchesOf(t) : e \in BatchId /\ e[2] = t /\ batches[e].status # "absent" /\ e = <<e[1], t>>
    BY DEF BatchesOf, BatchId
  <1> HIDE DEF waiting, listed
  <1>5. ASSUME NEW e \in BatchesOf(t)
        PROVE  /\ SubmittedBatch(e) \in listed
               /\ SubmittedBatch(e).tx = e[1]
               /\ SubmittedBatch(e).replacedBy = batches[e].replacedBy
               /\ SubmittedBatch(e).messages = batches[e].snapshot
               /\ SubmittedBatch(e).status = "included" => batches[e].status = "confirmed"
               /\ SubmittedBatch(e).status = "resubmitted" => batches[e].replacedBy # NoTx
    BY <1>3, <1>4, ListedBatch
  <1>6. ASSUME NEW m \in acked, TagOfEntry(m) = t
        PROVE  LET included == {b \in listed : b.status = "included" /\ m \in b.messages}
               IN  /\ m.key \in waiting \/ \E b \in listed : m \in b.messages
                   /\ m.key \in waiting => included = {}
                   /\ Cardinality(included) <= 1
                   /\ m.key[2] < NextNonce(m.key[1])
    <2> DEFINE included == {b \in listed : b.status = "included" /\ m \in b.messages}
    <2>1. /\ m \in Entry /\ m.key \in Key
          /\ messages[m.key].status # "absent" /\ messages[m.key].body = m.body
          /\ EntryOf(m.key) = m /\ TagOf[messages[m.key].body] = t
      BY <1>6 DEF AckedDurable, TypeOK, PosterProcTypeOK, Entry, EntryOf, TagOfEntry
    <2>2. messages[m.key].status \in MessageStatus
      BY <2>1, PresentRow DEF MessageRow
    <2>3. m.key \in waiting <=> messages[m.key].status = "pending"
      BY <1>2, <2>1 DEF PendingByTag, TypeOK, StoreTypeOK
    <2>4. ASSUME messages[m.key].status # "pending"
          PROVE  \E b \in listed : m \in b.messages
      <3> DEFINE e == <<messages[m.key].batchRef, t>>
      <3>1. e \in BatchId /\ m \in batches[e].snapshot /\ e[2] = t
        BY <2>1, <2>2, <2>4 DEF KnownListed, MessageStatus
      <3> HIDE DEF e
      <3>2. e \in BatchesOf(t)
        BY <3>1, SnapshotMember DEF BatchesOf
      <3>3. QED
        BY <1>5, <3>1, <3>2
    <2>5. ASSUME NEW b \in included
          PROVE  /\ messages[m.key].status = "confirmed"
                 /\ b = SubmittedBatch(<<messages[m.key].batchRef, t>>)
      <3>1. PICK e \in BatchesOf(t) : b = SubmittedBatch(e)
        BY <1>3
      <3>2. batches[e].status = "confirmed" /\ m \in batches[e].snapshot
        BY <1>5, <3>1
      <3>3. messages[m.key].status = "confirmed" /\ messages[m.key].batchRef = e[1]
        BY <1>4, <3>2 DEF OneLiveBatch
      <3>4. QED
        BY <1>4, <3>1, <3>3
    <2> HIDE DEF included
    <2>6. m.key \in waiting => included = {}
      BY <2>3, <2>5
    <2>7. Cardinality(included) <= 1
      <3>1. CASE included = {}
        BY <3>1, FS_EmptySet
      <3>2. CASE included # {}
        <4> DEFINE b == SubmittedBatch(<<messages[m.key].batchRef, t>>)
        <4>1. included = {b}
          BY <2>5, <3>2
        <4> HIDE DEF b
        <4>2. QED
          BY <4>1, FS_Singleton
      <3>3. QED
        BY <3>1, <3>2
    <2>8. m.key[2] < NextNonce(m.key[1])
      <3>1. m.key[2] <= nonces[m.key[1]].lastNonce
        BY <2>1 DEF TrackerDominates
      <3>2. m.key[2] \in Int /\ nonces[m.key[1]].lastNonce \in Int
        BY <2>1 DEF Key, TypeOK, StoreTypeOK, NonceRow
      <3>3. QED
        BY <3>1, <3>2 DEF NextNonce
    <2>9. QED
      BY <2>3, <2>4, <2>6, <2>7, <2>8 DEF included
  <1>7. ASSUME NEW b \in listed
        PROVE  /\ b.messages \subseteq chain[b.tx].pack
               /\ b.status = "resubmitted" =>
                     \E c \in listed : /\ c.tx = b.replacedBy /\ c.tx > b.tx
                                       /\ b.messages \cap c.messages # {}
    <2>1. PICK e \in BatchesOf(t) : b = SubmittedBatch(e)
      BY <1>3
    <2>2. b.messages \subseteq chain[b.tx].pack
      BY <1>4, <1>5, <2>1 DEF SnapshotsHold
    <2>3. ASSUME b.status = "resubmitted"
          PROVE  \E c \in listed : /\ c.tx = b.replacedBy /\ c.tx > b.tx
                                   /\ b.messages \cap c.messages # {}
      <3> DEFINE d == <<batches[e].replacedBy, t>>
      <3>1. batches[e].replacedBy # NoTx /\ e \in BatchId /\ e[2] = t
        BY <1>4, <1>5, <2>1, <2>3
      <3>2. /\ d[1] > e[1] /\ batches[d].status # "absent"
            /\ batches[e].snapshot \cap batches[d].snapshot # {}
        BY <3>1 DEF LinksForward
      <3>3. batches[e].replacedBy \in Tx
        BY <3>1 DEF TypeOK, StoreTypeOK, BatchRow, NoBatch
      <3>4. d \in BatchesOf(t) /\ d[1] = batches[e].replacedBy
        BY <3>2, <3>3 DEF BatchesOf, BatchId
      <3> HIDE DEF d
      <3>5. QED
        BY <1>5, <2>1, <3>2, <3>4
    <2>4. QED
      BY <2>2, <2>3
  <1>8. StatusView(t).pending = Cardinality(waiting)
    BY <1>2 DEF StatusView
  <1>9. QED
    BY <1>6, <1>7, <1>8, StatusNamesHead DEF waiting, listed

\* With the worker as the only caller of tick, a client that polls always finds what the Poster
\* accepted, in one place: in the queue, or in a batch of the history that shows only messages of
\* its transaction, and in one included batch at most; a replacement link leads forward, the status
\* page agrees with the history and the nonce told next is above everything accepted.  So for any
\* number of authors, tags and transactions and any forks, crashes and failures
\* (listSubmittedBatches, listPending, getNextNonce, readStatus, readHealth).
THEOREM AcceptedStaysVisible ==
  ASSUME SingleTicker
  PROVE  Spec => []AcceptedIsVisible
  <1>1. PosterInit => ViewInv
    BY LogStart DEF ViewInv, AckedDurable, AllSubmitted, KnownListed, SnapshotsHold, LinksForward,
       SentInOrder, Waiting, PosterInit, StoreInit, PosterProcInit, L1Init, NoTick, NoBatch,
       NoMessage, NoChainTx
  <1>2. ViewInv /\ [Next]_posterVars => ViewInv'
    BY ViewStep
  <1>3. QED
    BY <1>1, <1>2, ViewInvShows, PTL DEF Spec
=============================================================================
