----------------------------- MODULE Retrieval -----------------------------
(***************************************************************************)
(* How the readers of the chain get at what was put on it: the Reader's    *)
(* scan of the event log, its fetch of a blob from the archive, the beacon *)
(* API or Blobscan, the dispatch of the segment to a decoder, and the      *)
(* coprocessor's search of the beacon slot of an execution block.          *)
(***************************************************************************)
EXTENDS Integers, Sequences, FiniteSets, SequencesExt

CONSTANTS
    Calls,          \* sequences of the BAM Core calls whose logs are scanned
    ScanBlocks,     \* the range [1, ScanBlocks] that is scanned
    MinChunk,       \* MIN_CHUNK_BLOCKS
    ChunkSizes,     \* values of chunkSize, 0 when it is not set
    ProviderSpans,  \* widest range the provider answers
    Slots,          \* the beacon chain: slots 0 .. Slots - 1 exist
    ProbeDepth,     \* PROBE_BLOCK_DEPTH
    Windows         \* BRACKET_WINDOWS

ASSUME RetrievalAssumption ==
    /\ Slots \in Nat \ {0} /\ ProbeDepth \in Nat \ {0}
    /\ Windows \in Seq(Nat)

\* The blocks of the calls ascend, as the calls do.
ASSUME ScanAssumption ==
    /\ ScanBlocks \in Nat /\ MinChunk \in Nat \ {0}
    /\ ChunkSizes \subseteq Nat /\ ProviderSpans \subseteq Nat \ {0}
    /\ \A calls \in Calls :
        /\ calls \in Seq({calls[i] : i \in DOMAIN calls})
        /\ \A i, j \in DOMAIN calls :
            /\ calls[i].block \in 1 .. ScanBlocks
            /\ i < j => calls[i].block <= calls[j].block

VARIABLES
    scan,       \* the scan: the calls, the chunk size, the provider, and the events it returned
    archive,    \* the archive's file of the blob: "none", "whole" or "torn"
    fetch,      \* the last fetch of the blob: what each source said, what came of it
    search      \* the slot search: the chain, the target block, the estimate and the slot found

retrievalVars == <<scan, archive, fetch, search>>

NotScanned == <<[pending |-> TRUE]>>
NoScanner == <<[pending |-> FALSE]>>

-----------------------------------------------------------------------------
(***************************************************************************)
(* The log scan.  A call of BAM Core is "register" (a segment declaration  *)
(* and its batch registration, back to back) or "declare" (a declaration   *)
(* alone, open to anyone).  The versioned hash is the same in all of them. *)
(* Log indexes ascend along the chain.  A registration's log does not hold *)
(* the range its call declared: that field is for the properties alone.    *)
(***************************************************************************)
LogsOfCall(calls, i) ==
    LET log(event, index) == [event |-> event, index |-> index, block |-> calls[i].block,
                              tx |-> calls[i].tx, tag |-> calls[i].tag, range |-> calls[i].range]
        declared == {log("segment", 2 * i - 1)}
    IN IF calls[i].kind = "register" THEN declared \cup {log("batch", 2 * i)} ELSE declared

ChainLogs(calls) == UNION {LogsOfCall(calls, i) : i \in DOMAIN calls}

\* The members of a finite set in the order of a set of pairs.
Placed(S, precedes) ==
    [n \in 1 .. Cardinality(S) |-> CHOOSE x \in S : Cardinality({y \in S : <<y, x>> \in precedes}) = n - 1]

ByIndex(logs) == Placed(logs, {p \in logs \X logs : p[1].index < p[2].index})

\* eth_getLogs over a range, refused when the range is wider than the provider takes.
\* A provider need not order what it answers: this one starts with the last.
GetLogs(s, from, to) ==
    Reverse(ByIndex({l \in ChainLogs(s.calls) : l.block \in from .. to /\ l.tag \in s.tags}))

TooLarge(s, from, to) == to - from + 1 > s.span

\* A registration claims the declaration at j.
Claimed(walk, log, j) ==
    [pending |-> RemoveAt(walk.pending, j),
     ranges |-> [i \in DOMAIN walk.ranges \cup {log.index} |->
                    IF i = log.index THEN walk.pending[j].range ELSE walk.ranges[i]]]

ClaimFirst(walk, log) ==   \* mutant: a registration claims the first declaration of its tag
    IF log.event = "segment"
    THEN [walk EXCEPT !.pending = Append(@, log)]
    ELSE LET matching == {j \in DOMAIN walk.pending : walk.pending[j].tag = log.tag}
         IN IF matching = {} THEN walk
            ELSE Claimed(walk, log, CHOOSE m \in matching : \A n \in matching : m <= n)

\* One step of the walk of a transaction's logs: a registration claims the most recent
\* declaration of its content tag that is still pending.
Claim(walk, log) ==
    IF log.event = "segment"
    THEN [walk EXCEPT !.pending = Append(@, log)]
    ELSE LET matching == {j \in DOMAIN walk.pending : walk.pending[j].tag = log.tag}
         IN IF matching = {} THEN walk
            ELSE Claimed(walk, log, CHOOSE m \in matching : \A n \in matching : n <= m)

Unpaired == [pending |-> <<>>, ranges |-> <<>>]
FullBlob == 0      \* the range of a registration without a declaration

\* The range of every batch registration among a transaction's logs that found one, by log index.
WalkOf(items) ==
    LET walk[n \in 0 .. Len(items)] == IF n = 0 THEN Unpaired ELSE Claim(walk[n - 1], items[n])
    IN walk[Len(items)].ranges

PairSegmentRanges(logs) ==
    LET txs == {logs[i].tx : i \in DOMAIN logs}
        paired(t) == WalkOf(ByIndex({l \in {logs[i] : i \in DOMAIN logs} : l.tx = t}))
    IN [i \in UNION {DOMAIN paired(t) : t \in txs} |->
            paired(CHOOSE t \in txs : i \in DOMAIN paired(t))[i]]

EventOf(log, range) == [block |-> log.block, index |-> log.index, tag |-> log.tag, range |-> range]

FetchRange(s, from, to) ==
    LET logs == GetLogs(s, from, to)
        ranges == PairSegmentRanges(logs)
        at == {i \in DOMAIN logs : logs[i].event = "batch"}
        kept == Placed(at, {p \in at \X at : p[1] < p[2]})
        event(l) == EventOf(l, IF l.index \in DOMAIN ranges THEN ranges[l.index] ELSE FullBlob)
    IN [n \in DOMAIN kept |-> event(logs[kept[n]])]

Thrown == <<[failed |-> TRUE]>>
Joined(first, second) == IF Thrown \in {first, second} THEN Thrown ELSE first \o second

FetchWithHalving(s, first, last) ==
    LET fetchIn[r \in (1 .. ScanBlocks) \X (1 .. ScanBlocks)] ==
            LET from == r[1] to == r[2]
                wide == to - from + 1
                mid == from + wide \div 2 - 1
            IN IF ~TooLarge(s, from, to) THEN FetchRange(s, from, to)
               ELSE IF wide <= MinChunk THEN Thrown
               ELSE Joined(fetchIn[<<from, mid>>], fetchIn[<<mid + 1, to>>])
    IN fetchIn[<<first, last>>]

\* The order of the chain; what it does not tell apart stays as it was.
InChainOrder(events) ==
    LET at == DOMAIN events
        before(e, f) == e.block < f.block \/ (e.block = f.block /\ e.index < f.index)
        order == Placed(at, {p \in at \X at : \/ before(events[p[1]], events[p[2]])
                                              \/ p[1] < p[2] /\ ~before(events[p[2]], events[p[1]])})
    IN [n \in at |-> events[order[n]]]

ScanLogs(s, from, to) ==
    LET size == IF s.chunk = 0 THEN to - from + 1 ELSE s.chunk
        fetched[f \in from .. to + size] ==    \* the chunks from block f on
            IF f > to THEN <<>>
            ELSE Joined(FetchWithHalving(s, f, IF f + size - 1 < to THEN f + size - 1 ELSE to), fetched[f + size])
    IN IF from > to THEN <<>>
       ELSE IF fetched[from] = Thrown THEN Thrown ELSE InChainOrder(fetched[from])

\* A scan of the whole range; its result stays.
Scan ==
    /\ scan.events = NotScanned
    /\ scan' = [scan EXCEPT !.events = ScanLogs(scan, 1, ScanBlocks)]
    /\ UNCHANGED <<archive, fetch, search>>

-----------------------------------------------------------------------------
(***************************************************************************)
(* The blob fetch.  A source says "right" or "wrong" (bytes that do not    *)
(* hash to the versioned hash), "absent", or fails: "error".               *)
(***************************************************************************)
Sources == <<"archive", "beacon", "blobscan">>
Sayings == {"right", "wrong", "absent", "error"}

\* What the verifying archive says of its file; reading it may fail.
ArchiveSays ==
    {"error"} \cup CASE archive = "none" -> {"absent"}
                     [] archive = "torn" -> {"wrong"}
                     [] archive = "whole" -> {"right"}

\* The sidecars of a slot are tried in turn: those that are malformed or of another
\* commitment are skipped, the first of the commitment decides.  Bytes of the wrong
\* length raise a RangeError, which is not a mismatch.
FetchFromBeaconApi(slotKnown, sidecars) ==
    LET mine == {i \in DOMAIN sidecars : sidecars[i] \notin {"malformed", "other"}}
    IN IF ~slotKnown \/ mine = {} THEN "absent"
       ELSE LET first == sidecars[CHOOSE i \in mine : \A j \in mine : i <= j]
            IN IF first = "short" THEN "error" ELSE first

\* Blobscan answers with the bytes, or with storage URLs: one that is refused (an internal
\* host, no plausible length) or unreachable fails the fetch, one that is not found is passed.
FetchFromBlobscan(inline, urls) ==
    IF inline # "absent" THEN inline
    ELSE LET answering == {i \in DOMAIN urls : urls[i] # "absent"}
         IN IF answering = {} THEN "absent"
            ELSE LET first == urls[CHOOSE i \in answering : \A j \in answering : i <= j]
                 IN IF first = "refused" THEN "error" ELSE first

\* The orchestrator: sources in order up to the first that has the bytes.  A lie or an absence
\* passes to the next one, and so does a failure of the archive; a failure of a network source
\* ends the fetch.  A source that is not configured says "off".
FetchBlob(say) ==
    LET passed(i) == say[i] \in {"off", "absent", "wrong"}
                        \/ (say[i] = "error" /\ Sources[i] = "archive")
        asked == {i \in DOMAIN Sources : \A j \in 1 .. i - 1 : passed(j)}
        last == CHOOSE i \in asked : \A j \in asked : j <= i
        tried == {i \in asked : say[i] # "off"}
    IN [result |-> IF say[last] = "right" THEN "blob"
                   ELSE IF passed(last) THEN "null" ELSE "throws",
        from |-> last,
        allLied |-> tried # {} /\ \A i \in tried : say[i] = "wrong"]

\* What the write-back leaves: a whole file, the torn file of a crash before the data reached
\* the disk (the name is published first), or the old one when the write failed.
WriteBack(got) == IF got.result = "blob" /\ got.from > 1 /\ fetch.archived
                  THEN {"whole", "torn", archive} ELSE {archive}

Sidecars == UNION {[1 .. n -> {"malformed", "other", "right", "wrong", "short"}] : n \in 0 .. 2}
StorageUrls == UNION {[1 .. n -> {"absent", "refused", "right", "wrong"}] : n \in 0 .. 2}

BeaconSays == {"off", "error"} \cup {FetchFromBeaconApi(k, s) : k \in BOOLEAN, s \in Sidecars}
BlobscanSays == {"off", "error"} \cup {FetchFromBlobscan(i, u) : i \in {"absent", "right", "wrong"},
                                                              u \in StorageUrls}

Fetch ==
    /\ \E a \in IF fetch.archived THEN ArchiveSays ELSE {"off"}, b \in BeaconSays, s \in BlobscanSays :
        LET got == FetchBlob(<<a, b, s>>)
        IN /\ fetch' = [fetch EXCEPT !.say = <<a, b, s>>, !.got = got]
           /\ archive' \in WriteBack(got)
    /\ UNCHANGED <<scan, search>>

-----------------------------------------------------------------------------
(***************************************************************************)
(* The slot search.  A slot is missed or holds the next execution block;   *)
(* slots past the head of the chain answer like missed ones.               *)
(***************************************************************************)
ExecBlockAt(missed, slot) ==
    IF slot \in missed \/ slot >= Slots THEN -1 ELSE Cardinality((0 .. slot) \ missed)

ProbeForward(missed, start, upper) ==
    LET end == IF start + ProbeDepth < upper + 1 THEN start + ProbeDepth ELSE upper + 1
        hits == {s \in start .. end - 1 : ExecBlockAt(missed, s) # -1}
    IN IF hits = {} THEN -1 ELSE CHOOSE s \in hits : \A t \in hits : s <= t

ProbeBackward(missed, start, lower) ==
    LET hits == {s \in start - ProbeDepth + 1 .. start :
                    s >= lower /\ s >= 0 /\ ExecBlockAt(missed, s) # -1}
    IN IF hits = {} THEN -1 ELSE CHOOSE s \in hits : \A t \in hits : t <= s

WindowLow(q, w) == IF q.estimate > w THEN q.estimate - w ELSE 0

\* The first window whose ends, moved inward over missed slots, hold the block between them.
Bracketing(q) ==
    {i \in DOMAIN Windows :
        LET winLo == WindowLow(q, Windows[i])
            winHi == q.estimate + Windows[i]
            lo == ProbeForward(q.missed, winLo, winHi)
            hi == ProbeBackward(q.missed, winHi, winLo)
        IN /\ lo # -1 /\ hi # -1
           /\ ExecBlockAt(q.missed, lo) <= q.block /\ q.block <= ExecBlockAt(q.missed, hi)}

BisectShort(q, low, high) ==   \* mutant: a probe below the block moves the low end to the middle's successor
    LET find[r \in (0 .. Slots) \X (-1 .. Slots)] ==
            LET lo == r[1] hi == r[2]
                mid == (lo + hi) \div 2
                slot == ProbeForward(q.missed, mid, hi)
            IN IF lo >= hi THEN -1
               ELSE IF slot = -1 THEN find[<<lo, mid - 1>>]
               ELSE IF ExecBlockAt(q.missed, slot) = q.block THEN slot
               ELSE IF ExecBlockAt(q.missed, slot) < q.block THEN find[<<slot + 1, hi>>]
               ELSE find[<<lo, mid - 1>>]
    IN find[<<low, high>>]

Bisect(q, low, high) ==
    LET find[r \in (0 .. Slots) \X (-1 .. Slots)] ==
            LET lo == r[1] hi == r[2]
                mid == (lo + hi) \div 2
                slot == ProbeForward(q.missed, mid, hi)
            IN IF lo > hi THEN -1
               ELSE IF slot = -1 THEN find[<<lo, mid - 1>>]
               ELSE IF ExecBlockAt(q.missed, slot) = q.block THEN slot
               ELSE IF ExecBlockAt(q.missed, slot) < q.block THEN find[<<slot + 1, hi>>]
               ELSE find[<<lo, mid - 1>>]
    IN find[<<low, high>>]

FindSlot(q) ==
    LET first == CHOOSE i \in Bracketing(q) : \A j \in Bracketing(q) : i <= j
        winLo == WindowLow(q, Windows[first])
        winHi == q.estimate + Windows[first]
    IN IF Bracketing(q) = {} THEN -1
       ELSE Bisect(q, ProbeForward(q.missed, winLo, winHi), ProbeBackward(q.missed, winHi, winLo))

FindSlotForExecBlock ==
    /\ search.slot = -2
    /\ search' = [search EXCEPT !.slot = FindSlot(search)]
    /\ UNCHANGED <<scan, archive, fetch>>

-----------------------------------------------------------------------------
ScanTags == {c.tag : c \in UNION {{s[i] : i \in DOMAIN s} : s \in Calls}}

ScanInit ==
    scan \in [calls : Calls, chunk : ChunkSizes, span : ProviderSpans,
              tags : SUBSET ScanTags \ {{}},
              events : {NotScanned}]
NoScan == scan = [events |-> NoScanner]
FetchInit ==
    /\ archive = "none"
    /\ fetch \in [say : {<<"off", "off", "off">>}, archived : BOOLEAN,
                  got : {[result |-> "null", from |-> 3, allLied |-> FALSE]}]
\* The head is not missed: it is the slot of the last block.
SearchInit ==
    search \in UNION {[missed : {m}, block : 1 .. Cardinality((0 .. Slots - 1) \ m),
                       estimate : 0 .. Slots - 1, slot : {-2}] : m \in SUBSET (0 .. Slots - 2)}
NoSearch == search = [slot |-> -3]

RetrievalInit == (ScanInit \/ NoScan) /\ FetchInit /\ (SearchInit \/ NoSearch)
RetrievalNext == Scan \/ Fetch \/ FindSlotForExecBlock
RetrievalSpec == RetrievalInit /\ [][RetrievalNext]_retrievalVars

-----------------------------------------------------------------------------
(***************************************************************************)
(* Properties.                                                             *)
(***************************************************************************)
\* A scan that returns, returns every batch registration of the range once, in chain order,
\* with the segment range its own registration call declared, whatever other declarations the
\* transaction holds, however the range is cut and in whatever order the provider answers;
\* and it returns unless the provider refuses ranges of MinChunk blocks.
RegistrationsOf(s) ==
    LET registered == ByIndex({l \in ChainLogs(s.calls) : l.event = "batch" /\ l.tag \in s.tags})
    IN [n \in DOMAIN registered |-> EventOf(registered[n], registered[n].range)]

ScanIsExact ==
    scan.events \notin {NotScanned, NoScanner} =>
        \/ scan.events = RegistrationsOf(scan)
        \/ scan.events = Thrown /\ scan.span < MinChunk

\* The blob fetch returns the blob whenever a source has it and no network source before it
\* failed, never other bytes, and raises the alarm of lying sources only when each source that
\* was asked served wrong bytes: a torn archive file, an absence or a failure is not enough.
BlobServed ==
    LET right == {i \in DOMAIN Sources : fetch.say[i] = "right"}
        failed == {i \in 2 .. 3 : fetch.say[i] = "error"}
    IN /\ fetch.got.result = "blob" <=> \E i \in right : \A j \in failed : i < j
       /\ fetch.got.result = "blob" => fetch.got.from \in right
       /\ fetch.got.allLied => \A i \in DOMAIN Sources : fetch.say[i] \in {"off", "wrong"}

\* The slot search finds the slot of the block, whatever slots are missed and wherever the
\* estimate lies, as long as no ProbeDepth slots in a row are missed, a window around the
\* estimate holds the block, and the chain reaches within a probe of the window's end; and
\* never another slot.
LongestMissed(missed) ==
    LET runs == {r \in (0 .. Slots - 1) \X (0 .. Slots - 1) : r[1] .. r[2] \subseteq missed}
    IN IF missed = {} THEN 0
       ELSE CHOOSE n \in {r[2] - r[1] + 1 : r \in runs} : \A r \in runs : r[2] - r[1] + 1 <= n

SlotOf(q) == CHOOSE s \in 0 .. Slots - 1 : ExecBlockAt(q.missed, s) = q.block

SlotFound ==
    search.slot >= -1 =>
        \/ search.slot = SlotOf(search)
        \/ /\ search.slot = -1
           /\ \/ LongestMissed(search.missed) >= ProbeDepth
              \/ \A i \in DOMAIN Windows :
                    \/ SlotOf(search) \notin WindowLow(search, Windows[i]) .. search.estimate + Windows[i]
                    \/ search.estimate + Windows[i] >= Slots + ProbeDepth - 1

\* A reader of the chain that knows where to look gets the blob: the coprocessor by the slot of the
\* block, the Reader from the first source that has it (find_slot, fetchBlob).
BlobReached == BlobServed /\ SlotFound
=============================================================================
