----------------------------- MODULE PosterViews -----------------------------
(***************************************************************************)
(* What a client sees of the Poster: the read views behind GET /pending,   *)
(* /submitted-batches, /nonce, /status and /health, computed from the      *)
(* store and the aggregator's state, and the Poster as an implementation   *)
(* of MessageLog.                                                          *)
(***************************************************************************)
EXTENDS Poster, SequencesExt

CONSTANTS
    NoLimit,        \* a query without ?limit=
    StatusWindow,   \* rows status() looks at for a tag's last submission (8)
    DegradedAfter   \* consecutive failures that make health `degraded'

ASSUME PosterViewsAssumption ==
    /\ NoLimit \notin Nat
    /\ StatusWindow \in Nat \ {0}
    /\ DegradedAfter \in 1 .. UnhealthyAfter

Limited(rows, limit) ==
    IF limit = NoLimit \/ Len(rows) < limit THEN rows ELSE SubSeq(rows, 1, limit)

\* ORDER BY: each row of S behind those that precede it.
Listed(S, precedes) ==
    [i \in 1 .. Cardinality(S) |->
        CHOOSE x \in S : Cardinality({y \in S : <<y, x>> \in precedes}) = i - 1]

-----------------------------------------------------------------------------
\* listPending of one tag: ingest order, past the caller's position.
PendingView(t, limit, since) ==
    LET rows == {k \in PendingByTag(messages, t) : messages[k].ingestSeq > since}
    IN  Limited(Listed(rows, {p \in rows \X rows :
                                  messages[p[1]].ingestSeq < messages[p[2]].ingestSeq}),
                limit)

\* listBatches: newest block first, and within a block the later transaction.
Newer(e, f) ==
    \/ batches[e].blockNumber > batches[f].blockNumber
    \/ batches[e].blockNumber = batches[f].blockNumber /\ e[1] > f[1]
BatchesOf(t) == {e \in BatchId : e[2] = t /\ batches[e].status # "absent"}
NewestOnTop(S) == Listed(S, {p \in S \X S : Newer(p[1], p[2])})

ViewStatus(row) ==
    CASE row.status = "confirmed" -> "included"
      [] row.status = "reorged" /\ row.replacedBy # NoTx -> "resubmitted"
      [] row.status = "reorged" /\ row.replacedBy = NoTx -> "reorged"

\* A listed batch: its frozen snapshot, joined with the rows that still exist.
SubmittedBatchLive(e) ==    \* mutant: the rows of batch_ref instead of the snapshot
    [tx |-> e[1], status |-> ViewStatus(batches[e]), replacedBy |-> batches[e].replacedBy,
     messages |-> {EntryOf(k) : k \in {l \in Attached(e) : messages[l].status # "absent"}}]
SubmittedBatch(e) ==
    [tx |-> e[1], status |-> ViewStatus(batches[e]), replacedBy |-> batches[e].replacedBy,
     messages |-> {m \in batches[e].snapshot : messages[m.key].status # "absent"}]

\* listSubmittedBatches: the rows this Poster wrote; the limit comes after the filter.
SubmittedView(t, limit) ==
    LET page == Limited(NewestOnTop({e \in BatchesOf(t) : batches[e].submittedAt}), limit)
    IN  [i \in DOMAIN page |-> SubmittedBatch(page[i])]

\* getNextNonce: the tracker, never the rows.
NextNonce(s) == nonces[s].lastNonce + 1

\* readStatus: the limit comes before the filter.
StatusView(t) ==
    LET page == Limited(NewestOnTop(BatchesOf(t)), StatusWindow)
        ours == {i \in DOMAIN page : batches[page[i]].submittedAt}
    IN  [pending |-> Cardinality(PendingByTag(messages, t)),
         lastSubmitted |-> IF ours = {} THEN NoTx
                           ELSE page[CHOOSE i \in ours : \A j \in ours : i <= j][1]]

\* readHealth, and the status code of GET /health.
HealthState ==
    CASE attempts >= UnhealthyAfter \/ stopped -> "unhealthy"
      [] attempts \in DegradedAfter .. UnhealthyAfter - 1 /\ ~stopped -> "degraded"
      [] attempts < DegradedAfter /\ ~stopped -> "ok"
HealthCode == IF HealthState = "unhealthy" THEN 503 ELSE 200

-----------------------------------------------------------------------------
\* A client that polls can always find what the Poster accepted, and what it finds is so.  A message
\* that waits is in the pending view and in no included batch; one that was included and lost is in
\* the history for good; a listed batch shows messages of its own transaction; a link to a
\* replacement leads to a later batch with one of its messages; the status page counts the queue and
\* names the newest batch while its window holds one; the nonce the client is told next is above
\* everything accepted; and `unhealthy' is what closes the ingest (listSubmittedBatches, listPending,
\* getNextNonce, readStatus, readHealth).
AcceptedIsVisible ==
    /\ HealthCode = 200 <=> Healthy
    /\ \A t \in Tags :
        LET waiting == Range(PendingView(t, NoLimit, 0))
            history == SubmittedView(t, NoLimit)
            listed == Range(history)
            summary == StatusView(t)
        IN  /\ \A m \in {n \in acked : TagOfEntry(n) = t} :
                  LET included == {b \in listed : b.status = "included" /\ m \in b.messages}
                  IN  /\ m.key \in waiting \/ \E b \in listed : m \in b.messages
                      /\ m.key \in waiting => included = {}
                      /\ Cardinality(included) <= 1
                      /\ m.key[2] < NextNonce(m.key[1])
            /\ \A b \in listed :
                  /\ b.messages \subseteq chain[b.tx].pack
                  /\ b.status = "resubmitted" =>
                        \E c \in listed : /\ c.tx = b.replacedBy /\ c.tx > b.tx
                                          /\ b.messages \cap c.messages # {}
            /\ summary.pending = Cardinality(waiting)
            /\ summary.lastSubmitted # NoTx => summary.lastSubmitted = Head(history).tx

-----------------------------------------------------------------------------
(***************************************************************************)
(* The Poster implements MessageLog: the pending rows of a tag are its     *)
(* queue, in the order of their numbers; the chain is the confirmed rows,  *)
(* and the reorged rows wait aside.                                        *)
(***************************************************************************)
EntriesWith(status) ==
    {m \in Entry : messages[m.key].status = status /\ messages[m.key].body = m.body}
AheadInQueue ==
    {p \in EntriesWith("pending") \X EntriesWith("pending") :
        /\ TagOfEntry(p[1]) = TagOfEntry(p[2])
        /\ messages[p[1].key].ingestSeq < messages[p[2].key].ingestSeq}

Log == INSTANCE MessageLog WITH
    LogMessages <- Entry, LogTags <- Tags,
    LogTagOf <- [m \in Entry |-> TagOfEntry(m)],
    waiting <- EntriesWith("pending"),
    ahead <- AheadInQueue,
    included <- EntriesWith("confirmed"),
    withdrawn <- EntriesWith("reorged")

\* With one caller of tick, the Poster keeps the promise of MessageLog through every interleaving of
\* requests, ticks, forks, watcher transactions, crashes and failures: what leaves a queue is a
\* prefix of it, and a message taken back goes to the tail (aggregator-loop.ts, reorg-watcher.ts).
ImplementsMessageLog == Log!LogSpec
=============================================================================
