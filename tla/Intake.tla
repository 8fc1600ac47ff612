------------------------------- MODULE Intake -------------------------------
(***************************************************************************)
(* What bam-poster does in memory: the gates of POST /submit up to the     *)
(* store, with the rate limiter, and the planner of a pack, from the batch *)
(* policy of a tag to the checks before and after the broadcast.  The      *)
(* module Poster has the store's side of both (Ingest, AggregatorTick ...) *)
(* and picks any pack the planner could make.                              *)
(*                                                                         *)
(* A tag is a number, in the lexicographic order of tags.  Chain, RPC node *)
(* and submitters are external: they answer and submit as they like.       *)
(***************************************************************************)
EXTENDS Codec, TLC

CONSTANTS
    Encodings,               \* values of POSTER_BATCH_ENCODING: "binary", "abi"
    WordBytes,               \* of an ABI word
    Tags,                    \* the allowlisted tags
    Incoming,                \* <<tag, length of the contents>> of the messages that may arrive
    PolicyCapacity,          \* blobCapacityBytes of the policy
    AgeTrigger, CountTrigger, MaxTagsPerPack,
    IdlePoll, BackoffBase, BackoffCap,
    MaxArrivals, MaxPlannerTime, MaxReorgs,      \* bounds
    Senders, RateWindow, MaxPerWindow,
    MaxSubmissions, MaxLimiterTime               \* bounds

ASSUME IntakeAssumption == RateWindow \in Nat /\ MaxPerWindow \in Nat

VARIABLES
    planner,   \* the pools, the aggregator loop, and the pack it has planned
    limiter    \* the rate limiter, the nonce tracker, and the last reply

intakeVars == <<planner, limiter>>

Encoding == planner.encoding
Smaller(m, n) == IF m < n THEN m ELSE n

-----------------------------------------------------------------------------
(***************************************************************************)
(* The ABI encoding of a batch.                                            *)
(***************************************************************************)
Padded(length) == ((length + WordBytes - 1) \div WordBytes) * WordBytes
PadRight(bytes) == bytes \o [i \in 1 .. Padded(Len(bytes)) - Len(bytes) |-> 0]
Word(value) == WriteBE(value, WordBytes)

TupleABI(m) ==
    Word(m.sender) \o Word(m.nonce) \o Word(3 * WordBytes) \o Word(Len(m.contents)) \o PadRight(m.contents)

EncodeBatchABI(messages) ==
    LET n == Len(messages)
        tuples == [i \in 1 .. n |-> TupleABI(messages[i])]
        offset(i) == n * WordBytes + Len(FlattenSeq(SubSeq(tuples, 1, i - 1)))
        list == Word(n) \o FlattenSeq([i \in 1 .. n |-> Word(offset(i))]) \o FlattenSeq(tuples)
        signatures == FlattenSeq([i \in 1 .. n |-> WriteBE(messages[i].signature, SignatureBytes)])
    IN IF n = 0 THEN <<>>
       ELSE Word(2 * WordBytes) \o Word(2 * WordBytes + Len(list)) \o list
                \o Word(Len(signatures)) \o PadRight(signatures)

EstimateBatchSizeABI(messages) ==
    IF messages = <<>> THEN 0
    ELSE FoldLeft(LAMBDA sum, m : sum + 5 * WordBytes + Padded(Len(m.contents)),
                  4 * WordBytes + Padded(SignatureBytes * Len(messages)), messages)

EstimateBatchSizeBinary(messages) ==
    FoldLeft(LAMBDA sum, m : sum + RecordOverhead + Len(m.contents), HeaderBytes, messages)

\* bin/bam-poster hands the aggregator an encoder and the policy the estimator that goes with it.
EncodeSelection(messages) ==
    IF Encoding = "abi" THEN EncodeBatchABI(messages) ELSE EncodeBatch(messages)
EstimateBatchSize(messages) ==
    IF Encoding = "abi" THEN EstimateBatchSizeABI(messages) ELSE EstimateBatchSizeBinary(messages)

-----------------------------------------------------------------------------
(***************************************************************************)
(* The batch policy: a tag's pool is taken from its head while the batch   *)
(* fits; it fires by size, by the age of the head or by the pool's length. *)
(***************************************************************************)
ToBAMMessages(pending) ==
    [i \in DOMAIN pending |-> [sender |-> 1, nonce |-> i % Base,
                               contents |-> [k \in 1 .. pending[i].size |-> 0], signature |-> 1]]

Fits(pending, n) == EstimateBatchSize(ToBAMMessages(SubSeq(pending, 1, n))) <= PolicyCapacity

GreedyFifoFill(pending) ==
    LET blocked == {n \in DOMAIN pending : ~Fits(pending, n)}
        taken == CHOOSE n \in 0 .. Len(pending) :
                    IF blocked = {} THEN n = Len(pending) ELSE n + 1 \in blocked /\ \A m \in blocked : n < m
    IN SubSeq(pending, 1, taken)

Select(pending, now) ==
    LET picked == GreedyFifoFill(pending)
    IN /\ picked # <<>>
       /\ \/ 4 * EstimateBatchSize(ToBAMMessages(picked)) >= 3 * PolicyCapacity
          \/ now - picked[1].at >= AgeTrigger
          \/ CountTrigger > 0 /\ Len(pending) >= CountTrigger

-----------------------------------------------------------------------------
(***************************************************************************)
(* The pack: of the tags that fire and, when one does, of the others as    *)
(* passengers, the oldest heads first, up to MaxTagsPerPack; a payload     *)
(* that does not fit behind those before it is left out.                   *)
(***************************************************************************)
FiredTags(pool, now) == {t \in Tags : Select(pool[t], now)}

Selections(pool, fired) ==
    LET selection(t, picked) ==
            [tag |-> t, oldest |-> pool[t][1].at, messages |-> picked,
             payload |-> EncodeSelection(ToBAMMessages(picked))]
    IN IF fired = {} THEN {}
       ELSE {selection(t, GreedyFifoFill(pool[t])) : t \in {u \in Tags : pool[u] # <<>> /\ Fits(pool[u], 1)}}

OlderByTag(s, t) == s.tag < t.tag   \* mutant: the age of the head is not looked at

Older(s, t) == s.oldest < t.oldest \/ (s.oldest = t.oldest /\ s.tag < t.tag)

PlanPack(selections) ==
    LET sorted == SetToSortSeq(selections, Older)
        capped == SubSeq(sorted, 1, Smaller(MaxTagsPerPack, Len(sorted)))
        place(plan, s) ==
            LET end == plan.endFE + SegmentFEs(Len(s.payload))
            IN IF \/ s.payload = <<>> \/ end > FieldElements
                  \/ plan.bytes + Len(s.payload) > FieldElements * FEBytes
               THEN plan
               ELSE [included |-> Append(plan.included, s @@ [startFE |-> plan.endFE, endFE |-> end]),
                     endFE |-> end, bytes |-> plan.bytes + Len(s.payload)]
    IN FoldLeft(place, [included |-> <<>>, endFE |-> 0, bytes |-> 0], capped).included

ValidatePackPlanInvariants(included) ==
    /\ \A i \in DOMAIN included : ValidSegmentRange(included[i].startFE, included[i].endFE)
    /\ \A i \in 2 .. Len(included) : included[i].startFE >= included[i - 1].endFE
    /\ \A i \in DOMAIN included :
            Len(included[i].payload) <= (included[i].endFE - included[i].startFE) * FEBytes

RoundTrips(s, bytes) ==
    bytes = s.payload /\ LET decoded == DecodeBatch(bytes) IN decoded # Rejected /\ Len(decoded) = Len(s.messages)

VerifyPackedBlobRoundTrips(blob, included) ==
    \A i \in DOMAIN included :
        LET s == included[i]
        IN RoundTrips(s, SubSeq(ExtractSegmentBytes(blob, s.startFE, s.endFE), 1, Len(s.payload)))

\* What is checked before the broadcast; a failure is permanent.
SelfCheck(included) ==
    LET assembled == AssembleMultiSegmentBlob([i \in DOMAIN included |-> included[i].payload])
    IN /\ ValidatePackPlanInvariants(included)
       /\ assembled.fits
       /\ \A i \in DOMAIN included :
            assembled.segments[i] = [startFE |-> included[i].startFE, endFE |-> included[i].endFE]
       /\ VerifyPackedBlobRoundTrips(assembled.blob, included)

-----------------------------------------------------------------------------
(***************************************************************************)
(* The aggregator loop.                                                    *)
(***************************************************************************)
NoPack == [selections |-> {}, included |-> <<>>]

PlannerInit ==
    \E encoding \in Encodings :
        planner = [encoding |-> encoding, clock |-> 0, pool |-> [t \in Tags |-> <<>>], arrivals |-> 0,
                   reorgs |-> 0, streak |-> [t \in Tags |-> 0], attempts |-> 0, nextAt |-> 0,
                   stage |-> "waiting", pack |-> NoPack, last |-> <<>>]
NoPlanner == planner = [stage |-> "none"]

NextDelay(attempts) ==
    IF attempts = 0 THEN 0 ELSE Smaller(BackoffBase * 2 ^ (attempts - 1), BackoffCap)

Running == planner.stage \in {"waiting", "sending", "stopped"}

Arrive ==
    /\ Running /\ planner.arrivals < MaxArrivals
    /\ \E m \in Incoming :
        planner' = [planner EXCEPT !.arrivals = @ + 1,
                                   !.pool[m[1]] = Append(@, [at |-> planner.clock, size |-> m[2]])]
    /\ UNCHANGED limiter

PlannerTime ==
    /\ Running /\ planner.clock < MaxPlannerTime
    /\ planner' = [planner EXCEPT !.clock = @ + 1]
    /\ UNCHANGED limiter

\* A tag that fired and was not included has lost once more; passengers are not counted.
Streaks(fired, included) ==
    LET shipped == {included[i].tag : i \in DOMAIN included}
    IN [t \in Tags |-> IF t \notin fired THEN planner.streak[t]
                       ELSE IF t \in shipped THEN 0 ELSE planner.streak[t] + 1]

\* The loop waits when nothing is to be sent, and stops when the checks refuse the pack.
Tick ==
    /\ planner.stage = "waiting" /\ planner.nextAt <= planner.clock
    /\ \E fired \in {FiredTags(planner.pool, planner.clock)} :
       \E selections \in {Selections(planner.pool, fired)} :
       \E included \in {PlanPack(selections)} :
       \E stage \in {IF included = <<>> THEN "waiting"
                     ELSE IF SelfCheck(included) THEN "sending" ELSE "stopped"} :
            planner' = [planner EXCEPT
                !.streak = Streaks(fired, included), !.stage = stage,
                !.nextAt = IF stage = "waiting" THEN planner.clock + IdlePoll ELSE @,
                !.attempts = IF stage = "stopped" THEN @ + 1 ELSE @,
                !.pack = IF stage = "waiting" THEN @ ELSE [selections |-> selections, included |-> included]]
    /\ UNCHANGED limiter

\* The receipt: the messages of the pack leave their pools.
Included ==
    /\ planner.stage = "sending"
    /\ LET included == planner.pack.included
           taken(t) == {i \in DOMAIN included : included[i].tag = t}
           left(t) == IF taken(t) = {} THEN planner.pool[t]
                      ELSE LET i == CHOOSE j \in taken(t) : TRUE
                           IN SubSeq(planner.pool[t], Len(included[i].messages) + 1, Len(planner.pool[t]))
       IN planner' = [planner EXCEPT !.stage = "waiting", !.attempts = 0, !.nextAt = planner.clock,
                        !.pool = [t \in Tags |-> left(t)], !.pack = NoPack, !.last = included]
    /\ UNCHANGED limiter

\* classifySubmissionError: what matches no pattern is retried.
Retryable ==
    /\ planner.stage = "sending"
    /\ planner' = [planner EXCEPT !.stage = "waiting", !.attempts = @ + 1, !.pack = NoPack,
                        !.nextAt = planner.clock + NextDelay(planner.attempts + 1)]
    /\ UNCHANGED limiter

Permanent ==
    /\ planner.stage = "sending"
    /\ planner' = [planner EXCEPT !.stage = "stopped", !.attempts = @ + 1, !.pack = NoPack]
    /\ UNCHANGED limiter

\* The reorg watcher puts the messages of the last pack back, behind newer ones, with the time
\* they came in.
ReorgedBack ==
    /\ planner.stage \in {"waiting", "sending"} /\ planner.last # <<>> /\ planner.reorgs < MaxReorgs
    /\ LET last == planner.last
           back(t) == FlattenSeq([i \in DOMAIN last |->
                        IF last[i].tag = t THEN last[i].messages ELSE <<>>])
       IN planner' = [planner EXCEPT !.reorgs = @ + 1, !.last = <<>>,
                        !.pool = [t \in Tags |-> @[t] \o back(t)]]
    /\ UNCHANGED limiter

-----------------------------------------------------------------------------
(***************************************************************************)
(* POST /submit.  A submission names its sender, which it may not be.      *)
(***************************************************************************)
NobodysKey == "recover failed"      \* RECOVER_FAILED_KEY
NoNonce == [nonce |-> -1, hash |-> "none"]

Submissions ==
    [shape : {"good"}, allowlisted : {TRUE}, sender : Senders, signed : BOOLEAN,
     nonce : 0 .. 1, hash : {"h1", "h2"}]
    \cup [shape : {"oversized", "malformed", "contents too large"}, allowlisted : {TRUE},
          sender : Senders, signed : {TRUE}, nonce : {0}, hash : {"h1"}]
    \cup [shape : {"good"}, allowlisted : {FALSE}, sender : Senders, signed : {TRUE}, nonce : {0},
          hash : {"h1"}]

LimiterInit ==
    limiter = [clock |-> 0, timestamps |-> [k \in {} |-> <<>>], lastSweep |-> 0,
               last |-> [s \in Senders |-> NoNonce], submissions |-> 0,
               reply |-> "none", from |-> "none", admitted |-> {}]
NoLimiter == limiter = [reply |-> "no limiter"]

LimiterTime ==
    /\ limiter.reply # "no limiter" /\ limiter.clock < MaxLimiterTime
    /\ limiter' = [limiter EXCEPT !.clock = @ + 1, !.reply = "none", !.from = "none"]
    /\ UNCHANGED planner

\* RateLimiter.check: the entry of the key slides, and once per window the stale entries go.  The
\* timestamps of an entry ascend: the stale ones come first.
RateLimited(timestamps, lastSweep, now, key) ==
    LET fresh(at) == at > now - RateWindow
        stamps == IF key \in DOMAIN timestamps THEN timestamps[key] ELSE <<>>
        stale == {i \in DOMAIN stamps : ~fresh(stamps[i])}
        history == SubSeq(stamps, Cardinality(stale) + 1, Len(stamps))
        sweep == now - lastSweep >= RateWindow
        kept == {k \in DOMAIN timestamps \ {key} : ~sweep \/ fresh(timestamps[k][Len(timestamps[k])])}
        refused == Len(history) >= MaxPerWindow
    IN [refused |-> refused,
        lastSweep |-> IF sweep THEN now ELSE lastSweep,
        timestamps |-> [k \in kept \cup {key} |->
                            IF k # key THEN timestamps[k]
                            ELSE IF refused THEN history ELSE Append(history, now)]]

RateLimitKeyClaimed(s) == s.sender   \* mutant: the bucket is that of whom the envelope names

RateLimitKey(s) == IF s.signed THEN s.sender ELSE NobodysKey

\* Inside the store transaction: the nonce before the signature.
StoreReply(s) ==
    LET last == limiter.last[s.sender]
    IN CASE s.nonce = last.nonce /\ s.hash = last.hash -> "accepted"
         [] s.nonce < last.nonce \/ (s.nonce = last.nonce /\ s.hash # last.hash) -> "stale_nonce"
         [] s.nonce > last.nonce /\ ~s.signed -> "bad_signature"
         [] OTHER -> "accepted"

Submit ==
    /\ limiter.reply # "no limiter" /\ limiter.submissions < MaxSubmissions
    /\ \E s \in Submissions :
        LET checked == RateLimited(limiter.timestamps, limiter.lastSweep, limiter.clock, RateLimitKey(s))
            answered(reply) == [limiter EXCEPT !.submissions = @ + 1, !.reply = reply,
                                    !.from = IF s.signed THEN s.sender ELSE NobodysKey]
            metered(reply) == [answered(reply) EXCEPT !.timestamps = checked.timestamps,
                                                      !.lastSweep = checked.lastSweep]
        IN \/ /\ s.shape \in {"oversized", "contents too large"}
              /\ limiter' = answered("message_too_large")
           \/ s.shape = "malformed" /\ limiter' = answered("malformed")
           \/ s.shape = "good" /\ ~s.allowlisted /\ limiter' = answered("unknown_tag")
           \/ /\ s.shape = "good" /\ s.allowlisted /\ checked.refused
              /\ limiter' = metered("rate_limited")
           \/ /\ s.shape = "good" /\ s.allowlisted /\ ~checked.refused
              /\ LET reply == StoreReply(s)
                 IN limiter' = [metered(reply) EXCEPT
                        !.admitted = @ \cup {<<limiter.submissions, limiter.clock,
                                               IF s.signed THEN s.sender ELSE NobodysKey>>},
                        !.last[s.sender] = IF reply = "accepted"
                                           THEN [nonce |-> s.nonce, hash |-> s.hash] ELSE @]
    /\ UNCHANGED planner

IntakeNext ==
    \/ Arrive
    \/ PlannerTime
    \/ Tick
    \/ Included
    \/ Retryable
    \/ Permanent
    \/ ReorgedBack
    \/ LimiterTime
    \/ Submit

\* A planner and a limiter, either of them absent.
IntakeInit == (PlannerInit \/ NoPlanner) /\ (LimiterInit \/ NoLimiter)
IntakeSpec == IntakeInit /\ [][IntakeNext]_intakeVars

-----------------------------------------------------------------------------
(***************************************************************************)
(* Properties.                                                             *)
(***************************************************************************)
\* A pack that is planned is broadcast (bin/bam-poster.ts wires an encoder and a decoder for each
\* POSTER_BATCH_ENCODING): the checks before the broadcast never stop the aggregator, as they
\* would for ever.
PlannedIsBroadcast == planner.stage = "stopped" => planner.pack = NoPack

\* A pack ships the tag whose head has waited longest, unless its payload alone exceeds a blob; a
\* tag with something to ship is left out only behind older heads: because they fill the tags of
\* a pack, or because the segments of older heads leave too little of the blob.  And what is
\* shipped passes the producer's own checks, segment by segment.
OldestShips ==
    planner.stage \in {"sending", "stopped"} =>
        LET pack == planner.pack
            Before(r, s) == r.oldest < s.oldest \/ (r.oldest = s.oldest /\ r.tag < s.tag)
            shipped == {pack.included[i].tag : i \in DOMAIN pack.included}
            ahead(s) == {r \in pack.selections : Before(r, s)}
            used(s) == FoldLeft(LAMBDA sum, e : sum + SegmentFEs(Len(e.payload)), 0,
                                SelectSeq(pack.included, LAMBDA e : Before(e, s)))
        IN /\ Encoding = "binary" => PlannedIsBroadcast
           /\ \A s \in pack.selections :
                s.tag \notin shipped =>
                    \/ used(s) + SegmentFEs(Len(s.payload)) > FieldElements
                    \/ Cardinality(ahead(s)) >= MaxTagsPerPack

\* Whoever signs is not refused for what others submit: a submission its sender signed is answered
\* rate_limited only if that sender had MaxPerWindow submissions admitted within the window; and
\* never more are admitted in a window, of one signer or of all who sign for nobody.
SignerNotCrowdedOut ==
    limiter.reply # "no limiter" =>
        LET within(k, now) == {e \in limiter.admitted :
                                e[3] = k /\ e[2] > now - RateWindow /\ e[2] <= now}
        IN /\ limiter.reply = "rate_limited" =>
                Cardinality(within(limiter.from, limiter.clock)) = MaxPerWindow
           /\ \A k \in Senders \cup {NobodysKey}, now \in 0 .. limiter.clock :
                Cardinality(within(k, now)) <= MaxPerWindow
=============================================================================
