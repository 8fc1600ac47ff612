------------------------------ MODULE Timeline ------------------------------
(***************************************************************************)
(* apps/bam-indexer: a program that is run by hand and lists the tweets in *)
(* chain order.  It reads the chain itself, through Blobscan and receipts, *)
(* and keeps what it fetched in a file; without a node and without the     *)
(* file it asks the Reader.                                                *)
(***************************************************************************)
EXTENDS Integers, Sequences, FiniteSets, SequencesExt

CONSTANTS
    Transactions,   \* what may be mined: sequences of calls [tag, hash, range] of BAM Core
    SegmentOf,      \* the messages in <<hash, range>>, or Undecodable
    Undecodable,
    TwitterTag,
    MaxMined, MaxRuns     \* bounds

VARIABLE timeline   \* the chain, the cache file, and what the last run listed

NoFile == <<[file |-> "none"]>>
TornFile == <<[file |-> "torn"]>>
Listed(tweets) == [ok |-> TRUE, tweets |-> tweets]
RunFailed == [ok |-> FALSE, tweets |-> <<>>]

-----------------------------------------------------------------------------
(***************************************************************************)
(* The fetch.  A transaction has a block of its own; its log holds, for    *)
(* each call, the segment declaration and then the registration.           *)
(***************************************************************************)
ReceiptLogs(t) ==
    FlattenSeq([i \in DOMAIN timeline.chain[t] |->
        LET call == timeline.chain[t][i]
            log == [tx |-> t, tag |-> call.tag, hash |-> call.hash]
        IN <<log @@ [event |-> "segment", index |-> 2 * i, range |-> call.range],
             log @@ [event |-> "batch", index |-> 2 * i + 1]>>])

\* parseReceiptEvents: the registrations, or the declarations, of the tag.
ParseReceiptEvents(t, event) ==
    SelectSeq(ReceiptLogs(t), LAMBDA l : l.tag = TwitterTag /\ l.event = event)

FirstSegment(registration, segments) ==   \* mutant: the first declaration of the blob
    LET mine == {n \in DOMAIN segments : segments[n].hash = registration.hash}
    IN segments[CHOOSE n \in mine : \A l \in mine : n <= l].range

\* pairSegmentsForTx, called for one registration at a time: the last declaration of the blob
\* before it.
PairSegmentsForTx(registration, segments) ==
    LET mine == {n \in DOMAIN segments : /\ segments[n].index < registration.index
                                         /\ segments[n].hash = registration.hash}
    IN segments[CHOOSE n \in mine : \A l \in mine : l <= n].range

\* fetchAllBamTxs: Blobscan lists the transactions newest first, up to a page that fails.
BlobscanTxs == {[i \in 1 .. n |-> Len(timeline.chain) - n + i] : n \in 0 .. Len(timeline.chain)}

\* fetchBlobBytes: a registration whose blob no source of Blobscan has is skipped.
Registrations ==
    UNION {{<<t, 2 * i + 1>> : i \in DOMAIN timeline.chain[t]} : t \in DOMAIN timeline.chain}
HasBlob(b, unavailable) == <<b.tx, b.index>> \notin unavailable

\* The batches of the transactions Blobscan lists.
FetchBlobBatches(txs, unavailable) ==
    LET batchesOf(t) ==
            LET registered == ParseReceiptEvents(t, "batch")
            IN [n \in DOMAIN registered |->
                    [tx |-> t, index |-> registered[n].index, hash |-> registered[n].hash,
                     range |-> PairSegmentsForTx(registered[n], ParseReceiptEvents(t, "segment"))]]
        all == FlattenSeq([n \in DOMAIN txs |-> batchesOf(txs[n])])
    IN SelectSeq(all, LAMBDA b : HasBlob(b, unavailable))

-----------------------------------------------------------------------------
(***************************************************************************)
(* The timeline of the batches: chain order, and of an author's nonce the  *)
(* first.  Batches that do not decode are skipped, and so are messages     *)
(* that are no tweets.                                                     *)
(***************************************************************************)
DecodeTweets(b) ==
    LET messages == SegmentOf[b.hash, b.range]
    IN IF messages = Undecodable THEN <<>>
       ELSE [n \in DOMAIN messages |-> messages[n] @@ [tx |-> b.tx, at |-> n]]

ChainOrder(m, n) ==
    \/ m.tx < n.tx
    \/ m.tx = n.tx /\ m.at < n.at

KeyOf(m) == <<m.author, m.nonce>>
FirstOfEachKey(messages) ==
    SelectSeq([n \in DOMAIN messages |->
                  messages[n] @@ [first |-> \A l \in 1 .. n - 1 : KeyOf(messages[l]) # KeyOf(messages[n])]],
              LAMBDA m : m.first)

\* The sort is stable: messages of one place in two batches of a transaction stay in log order.
BuildTimelineFromBlobs(batches) ==
    LET sorted == SortSeq(batches, LAMBDA b, c : b.tx < c.tx \/ (b.tx = c.tx /\ b.index < c.index))
        decoded == SelectSeq(FlattenSeq([n \in DOMAIN sorted |-> DecodeTweets(sorted[n])]),
                             LAMBDA m : m.tweet)
        numbered == [n \in DOMAIN decoded |-> decoded[n] @@ [n |-> n]]
    IN FirstOfEachKey(SortSeq(numbered, LAMBDA m, o :
            ChainOrder(m, o) \/ (~ChainOrder(o, m) /\ m.n < o.n)))

-----------------------------------------------------------------------------
TimelineInit ==
    timeline = [chain |-> <<>>, file |-> NoFile, of |-> 0, complete |-> TRUE, runs |-> 0,
                shown |-> RunFailed]
NoTimeline == timeline = [chain |-> <<>>, runs |-> MaxRuns, shown |-> RunFailed]

Mine ==
    /\ Len(timeline.chain) < MaxMined /\ timeline.runs < MaxRuns
    /\ \E tx \in Transactions : timeline' = [timeline EXCEPT !.chain = Append(@, tx)]

ARun == timeline.runs < MaxRuns

\* loadCache: a file that does not parse is no file.
Cached == timeline.file \notin {NoFile, TornFile}

\* With a cache file there is no other source, whatever has been mined since.
RunFromCache ==
    /\ ARun /\ Cached
    /\ timeline' = [timeline EXCEPT !.runs = @ + 1, !.shown = Listed(BuildTimelineFromBlobs(timeline.file))]

\* With a node.  What was fetched is saved before it is listed; the process may be killed there.
RunFromChain ==
    /\ ARun /\ ~Cached
    /\ \E txs \in BlobscanTxs, unavailable \in SUBSET Registrations :
        LET fetched == FetchBlobBatches(txs, unavailable)
            saved == [timeline EXCEPT !.runs = @ + 1, !.of = Len(timeline.chain),
                                      !.complete = Len(txs) = Len(timeline.chain) /\ unavailable = {}]
        IN \/ timeline' = [saved EXCEPT !.file = fetched, !.shown = Listed(BuildTimelineFromBlobs(fetched))]
           \/ timeline' = [saved EXCEPT !.file = TornFile, !.shown = RunFailed]

\* A receipt that cannot be had, or a file written without a node, ends the run.
RunFails ==
    /\ ARun
    /\ timeline' = [timeline EXCEPT !.runs = @ + 1, !.shown = RunFailed]

\* buildTimeline of the Reader's rows: a row has a sender and no author, so the first tweet among
\* them throws; rows that are no tweets are skipped.
BuildTimeline(anyTweet) == IF anyTweet THEN RunFailed ELSE Listed(<<>>)

\* Without a node and without a file.
RunFromReader ==
    /\ ARun /\ timeline.file = NoFile
    /\ \E anyTweet \in BOOLEAN :
        timeline' = [timeline EXCEPT !.runs = @ + 1, !.complete = FALSE, !.shown = BuildTimeline(anyTweet)]

TimelineNext ==
    \/ Mine
    \/ RunFromCache
    \/ RunFromChain
    \/ RunFails
    \/ RunFromReader

-----------------------------------------------------------------------------
(***************************************************************************)
(* Properties.                                                             *)
(***************************************************************************)
\* Every message on the first n transactions, as the Reader meets them: batch after batch.
OnChain(n) ==
    FlattenSeq([t \in 1 .. n |->
        FlattenSeq([i \in DOMAIN timeline.chain[t] |->
            LET call == timeline.chain[t][i]
            IN IF call.tag # TwitterTag THEN <<>>
               ELSE DecodeTweets([hash |-> call.hash, range |-> call.range, tx |-> t])])])

\* What the Reader stores of a key: the first copy that is signed.
StoredByReader(n, key) ==
    LET copies == SelectSeq(OnChain(n), LAMBDA m : KeyOf(m) = key /\ m.signed)
    IN Head(copies)

\* The timeline, computed from the chain by other means than the Reader's store, agrees with it.  It
\* lists what is on chain, in order, a key once; and when Blobscan had everything, it lists every key
\* whose copies all are signed tweets, none twice in one transaction, with the copy the Reader keeps
\* (pipeline.ts: the same rule as bam-store's upsertObserved).  A run from the file shows the chain
\* of the day the file was written.
TimelineAgrees ==
    timeline.shown.ok =>
        LET shown == timeline.shown.tweets
            chain == OnChain(timeline.of)
            copies(key) == {n \in DOMAIN chain : KeyOf(chain[n]) = key}
            plain(key) == /\ \A n \in copies(key) : chain[n].signed /\ chain[n].tweet
                          /\ \A n, l \in copies(key) : n # l => chain[n].tx # chain[l].tx
            same(m, c) == m.tx = c.tx /\ m.at = c.at /\ KeyOf(m) = KeyOf(c) /\ m.text = c.text
        IN /\ \A i \in DOMAIN shown : \E n \in DOMAIN chain : same(shown[i], chain[n])
           /\ \A i, j \in DOMAIN shown :
                i < j => KeyOf(shown[i]) # KeyOf(shown[j]) /\ ~ChainOrder(shown[j], shown[i])
           /\ timeline.complete =>
                \A n \in DOMAIN chain :
                    plain(KeyOf(chain[n])) =>
                        \E i \in DOMAIN shown :
                            same(shown[i], StoredByReader(timeline.of, KeyOf(chain[n])))
=============================================================================
