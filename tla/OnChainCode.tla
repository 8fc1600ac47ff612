---------------------------- MODULE OnChainCode ----------------------------
(***************************************************************************)
(* What a contract decodes: batches compressed with a dictionary (bam-sdk  *)
(* bpe.ts and codec/bpe.ts against BPEDecoder.sol), and messages exposed   *)
(* from a blob (bam-sdk exposure/ and kzg/ against KZGVerifier.sol and     *)
(* BLSExposer.sol).                                                        *)
(*                                                                         *)
(* A dictionary has four tiers of CodesPerTier codes, of tokens of four,   *)
(* three, two and one bytes.  As in the code, where a byte is 8 bits and a *)
(* code 12, two codes fill three bytes: 4 * CodesPerTier = Base ^ (3/2).   *)
(* The point evaluation precompile is external.                            *)
(***************************************************************************)
EXTENDS Codec

CONSTANTS
    CodesPerTier,
    Corpora,          \* texts a dictionary is built from
    Pages,            \* batches written with it
    ExposedBatches,   \* batches written for exposure
    ExposureStarts    \* where one starts in its blob

ASSUME TiersFillCodes == (4 * CodesPerTier) * (4 * CodesPerTier) = Base ^ 3 /\ Base <= CodesPerTier

VARIABLES
    page,       \* a dictionary, a batch written with it and what was read
    exposure    \* an exposure batch in its blob and what the contract extracted

onChainVars == <<page, exposure>>

-----------------------------------------------------------------------------
(***************************************************************************)
(* Dictionaries.                                                           *)
(***************************************************************************)
Codes == 0 .. 4 * CodesPerTier - 1
TokenLength(code) == 4 - code \div CodesPerTier
TierStart(length) == CASE length = 4 -> 0 [] length = 3 -> 4 * CodesPerTier
                       [] length = 2 -> 7 * CodesPerTier [] length = 1 -> 9 * CodesPerTier
Zeros(n) == [i \in 1 .. n |-> 0]

\* A set in an order.
Ranked(S, Before(_, _)) ==
    [k \in 1 .. Cardinality(S) |-> CHOOSE x \in S : Cardinality({y \in S : Before(y, x)}) = k - 1]

\* The most frequent windows of a length, the first seen first.
TopTokens(data, length, n) ==
    LET at(i) == SubSeq(data, i, i + length - 1)
        windows == 1 .. Len(data) - length + 1
        count(i) == Cardinality({j \in windows : at(j) = at(i)})
        firsts == {i \in windows : \A j \in 1 .. i - 1 : at(j) # at(i)}
        ranked == Ranked(firsts, LAMBDA i, j : count(i) > count(j) \/ (count(i) = count(j) /\ i < j))
    IN [k \in 1 .. (IF Len(ranked) < n THEN Len(ranked) ELSE n) |-> at(ranked[k])]

Coded(tokens, first) ==
    [token \in ToSet(tokens) |-> first + (CHOOSE k \in DOMAIN tokens : tokens[k] = token) - 1]

\* The zero token keeps code 0 unless the corpus has it among its windows.
TokenToCode(corpus) ==
    Coded(TopTokens(corpus, 4, CodesPerTier - 1), 1) @@ (Zeros(4) :> 0)
        @@ Coded(TopTokens(corpus, 3, CodesPerTier), CodesPerTier)
        @@ Coded(TopTokens(corpus, 2, CodesPerTier), 2 * CodesPerTier)
        @@ Coded([b \in 1 .. Base |-> <<b - 1>>], 3 * CodesPerTier)

\* Tokens are laid out in the order of their codes, tier by tier, without gaps inside a tier.
BuildDictionaryOf(corpus) ==
    LET toCode == TokenToCode(corpus)
        tokens(length) == Ranked({t \in DOMAIN toCode : Len(t) = length},
                                 LAMBDA s, t : toCode[s] < toCode[t])
        tier(length) == FlattenSeq(tokens(length))
        rank(code) == Cardinality({t \in DOMAIN toCode :
                            Len(t) = TokenLength(code) /\ toCode[t] < code})
        used == {toCode[t] : t \in DOMAIN toCode}
    IN [toCode |-> toCode,
        bytes |-> FlattenSeq([i \in 1 .. 4 |->
                    tier(5 - i) \o Zeros((5 - i) * CodesPerTier - Len(tier(5 - i)))]),
        offset |-> [c \in Codes |-> IF c \in used
                    THEN TierStart(TokenLength(c)) + rank(c) * TokenLength(c) ELSE 0],
        length |-> [c \in Codes |-> IF c \in used THEN TokenLength(c) ELSE 0]]

\* The contract, and bpeDictionaryFromBytes, find a token by the value of its code.
CodeOffset(code) == TierStart(TokenLength(code)) + (code % CodesPerTier) * TokenLength(code)

TokenAt(bytes, offset, length) == SubSeq(bytes, offset + 1, offset + length)

BpeDictionaryFromBytes(bytes) ==
    LET token(c) == TokenAt(bytes, CodeOffset(c), TokenLength(c))
    IN [bytes |-> bytes,
        offset |-> [c \in Codes |-> CodeOffset(c)],
        length |-> [c \in Codes |-> TokenLength(c)],
        toCode |-> [t \in {token(c) : c \in Codes} |->
                    CHOOSE c \in Codes : token(c) = t /\ \A d \in 0 .. c - 1 : token(d) # t]]

\* Serialised and read back: the bytes, offsets and lengths are kept, the last code of a token wins.
DeserializeDictionary(dict) ==
    LET used == {c \in Codes : dict.length[c] > 0}
        token(c) == TokenAt(dict.bytes, dict.offset[c], dict.length[c])
    IN [dict EXCEPT !.toCode = [t \in {token(c) : c \in used} |->
            CHOOSE c \in used : token(c) = t /\ \A d \in used : d > c => token(d) # t]]

-----------------------------------------------------------------------------
(***************************************************************************)
(* Compression: the longest token first; code 0 pads to an even number of  *)
(* codes and is skipped by both decoders.                                  *)
(***************************************************************************)
BpeEncode(data, dict) ==
    LET matches(i) == {n \in 1 .. 4 : i + n - 1 <= Len(data)
                            /\ SubSeq(data, i, i + n - 1) \in DOMAIN dict.toCode
                            /\ (n = 4 => dict.toCode[SubSeq(data, i, i + 3)] > 0)}
        longest(i) == CHOOSE n \in matches(i) : \A m \in matches(i) : m <= n
        step(done, i) == IF i < done.next THEN done
            ELSE [next |-> i + longest(i),
                  codes |-> Append(done.codes, dict.toCode[SubSeq(data, i, i + longest(i) - 1)])]
        codes == FoldLeft(step, [next |-> 1, codes |-> <<>>], [i \in DOMAIN data |-> i]).codes
        padded == IF Len(codes) % 2 = 0 THEN codes ELSE Append(codes, 0)
    IN FlattenSeq([w \in 1 .. Len(padded) \div 2 |->
            WriteBE(padded[2 * w - 1] * 4 * CodesPerTier + padded[2 * w], 3)])

CodesOf(bytes) ==
    FlattenSeq([w \in 1 .. Len(bytes) \div 3 |->
        LET word == ReadBE(bytes, 3 * (w - 1), 3)
        IN <<word \div (4 * CodesPerTier), word % (4 * CodesPerTier)>>])

BpeDecode(bytes, dict) ==
    LET codes == SelectSeq(CodesOf(bytes), LAMBDA c : c # 0)
    IN FlattenSeq([i \in DOMAIN codes |-> TokenAt(dict.bytes, dict.offset[codes[i]], dict.length[codes[i]])])

\* BPEDecoder._decompress, on the bytes of the dictionary contract.
Decompress(bytes, dictBytes) ==
    LET codes == SelectSeq(CodesOf(bytes), LAMBDA c : c # 0)
    IN FlattenSeq([i \in DOMAIN codes |-> TokenAt(dictBytes, CodeOffset(codes[i]), TokenLength(codes[i]))])

-----------------------------------------------------------------------------
(***************************************************************************)
(* Batches: the number of messages, the offset of each body, the bodies    *)
(* and an opaque trailer, whose length is known from outside.              *)
(***************************************************************************)
OffsetBytes == 2
BodyHeader == SenderBytes + NonceBytes

EncodeBatchBPE(messages, trailer, dict) ==
    LET body(m) == WriteBE(m.sender, SenderBytes) \o WriteBE(m.nonce, NonceBytes)
                        \o BpeEncode(m.contents, dict)
        header == OffsetBytes + OffsetBytes * Len(messages)
        offset(i) == header + Len(FlattenSeq([j \in 1 .. i - 1 |-> body(messages[j])]))
    IN WriteBE(Len(messages), OffsetBytes)
        \o FlattenSeq([i \in DOMAIN messages |-> WriteBE(offset(i), OffsetBytes)])
        \o FlattenSeq([i \in DOMAIN messages |-> body(messages[i])]) \o trailer

\* The bodies as both decoders delimit them, each refused unless it lies before the trailer.
BodiesOf(payload, trailerLength) ==
    LET count == ReadBE(payload, 0, OffsetBytes)
        end == Len(payload) - trailerLength
        startOf(i) == ReadBE(payload, OffsetBytes * i, OffsetBytes)
        endOf(i) == IF i < count THEN startOf(i + 1) ELSE end
    IN IF \/ Len(payload) < OffsetBytes + trailerLength
          \/ OffsetBytes + OffsetBytes * count > end
          \/ \E i \in 1 .. count : endOf(i) < startOf(i) + BodyHeader \/ endOf(i) > end
          \/ \E i \in 1 .. count : (endOf(i) - startOf(i) - BodyHeader) % 3 # 0
       THEN Rejected
       ELSE [i \in 1 .. count |->
                [sender |-> ReadBE(payload, startOf(i), SenderBytes),
                 nonce |-> ReadBE(payload, startOf(i) + SenderBytes, NonceBytes),
                 encoded |-> Slice(payload, startOf(i) + BodyHeader, endOf(i))]]

DecodeBatchBPE(payload, trailerLength, dict) ==
    LET bodies == BodiesOf(payload, trailerLength)
    IN IF payload = <<>> THEN <<>> ELSE IF bodies = Rejected THEN Rejected
       ELSE [i \in DOMAIN bodies |-> [sender |-> bodies[i].sender, nonce |-> bodies[i].nonce,
                                      contents |-> BpeDecode(bodies[i].encoded, dict)]]

DecodeOnChain(payload, unit, perMessage, dictBytes) ==
    LET trailerLength == IF perMessage THEN unit * ReadBE(payload, 0, OffsetBytes) ELSE unit
        bodies == BodiesOf(payload, trailerLength)
    IN IF payload = <<>> THEN <<>> ELSE IF bodies = Rejected THEN Rejected
       ELSE [i \in DOMAIN bodies |-> [sender |-> bodies[i].sender, nonce |-> bodies[i].nonce,
                                      contents |-> Decompress(bodies[i].encoded, dictBytes)]]

PageInit ==
    page \in [corpus : Corpora, dict : {<<>>}, source : {"corpus"}, stage : {"new"},
              perMessage : {FALSE}, written : {<<>>}, payload : {<<>>}, sdk : {<<>>}, chain : {<<>>}]
NoPage == page = [stage |-> "none"]

BuildDictionary ==
    /\ page.stage = "new"
    /\ page' = [page EXCEPT !.stage = "built", !.dict = BuildDictionaryOf(page.corpus)]
    /\ UNCHANGED <<exposure, wire, check>>

\* Read back from a file, or from the contract its bytes were deployed to.
LoadDictionary ==
    /\ page.stage = "built" /\ page.source = "corpus"
    /\ \/ page' = [page EXCEPT !.source = "file", !.dict = DeserializeDictionary(@)]
       \/ page' = [page EXCEPT !.source = "contract", !.dict = BpeDictionaryFromBytes(@.bytes)]
    /\ UNCHANGED <<exposure, wire, check>>

TrailerLength(messages, perMessage) ==
    IF perMessage THEN SignatureBytes * Len(messages) ELSE SignatureBytes

WritePage ==
    /\ page.stage = "built"
    /\ \E messages \in Pages, perMessage \in BOOLEAN :
        page' = [page EXCEPT !.stage = "written", !.written = messages, !.perMessage = perMessage,
            !.payload = EncodeBatchBPE(messages,
                [i \in 1 .. TrailerLength(messages, perMessage) |-> Base - 1], page.dict)]
    /\ UNCHANGED <<exposure, wire, check>>

ReadPage ==
    /\ page.stage = "written"
    /\ page' = [page EXCEPT !.stage = "read",
            !.sdk = DecodeBatchBPE(page.payload, TrailerLength(page.written, page.perMessage), page.dict),
            !.chain = DecodeOnChain(page.payload, SignatureBytes, page.perMessage, page.dict.bytes)]
    /\ UNCHANGED <<exposure, wire, check>>

-----------------------------------------------------------------------------
(***************************************************************************)
(* Exposure batches: a header, then each message behind its length.  The   *)
(* offsets of the messages count usable bytes of the blob.                 *)
(***************************************************************************)
UsablePerBlob == FEBytes * FieldElements
ExposureHeader == <<9, 1, 0>>       \* magic, version, flags
ExposureHeaderSize == Len(ExposureHeader) + LengthBytes + SignatureBytes
TimestampBytes == 1

RawMessage(m) ==
    WriteBE(m.sender, SenderBytes) \o WriteBE(m.timestamp, TimestampBytes)
        \o WriteBE(m.nonce, NonceBytes) \o m.contents
RawHeader == SenderBytes + TimestampBytes + NonceBytes

EncodeExposureBatch(messages) ==
    ExposureHeader \o WriteBE(Len(messages), LengthBytes) \o Zeros(SignatureBytes)
        \o FlattenSeq([i \in DOMAIN messages |->
                WriteBE(Len(RawMessage(messages[i])), LengthBytes) \o RawMessage(messages[i])])

BlobAt(data, start) ==
    LET bytes == [i \in 1 .. UsablePerBlob |->
                    IF i - start \in DOMAIN data THEN data[i - start] ELSE 0]
    IN [fe \in 0 .. FieldElements - 1 |-> <<0>> \o Slice(bytes, fe * FEBytes, (fe + 1) * FEBytes)]

UsableBytesFrom(blob, start) ==
    Slice(FlattenSeq([i \in 1 .. FieldElements |-> Tail(blob[i - 1])]), start, UsablePerBlob)

\* Each message with its offset from the start of the batch, its length and its bytes.
ParseBlob(blob, start) ==
    LET data == UsableBytesFrom(blob, start)
        count == ReadBE(data, Len(ExposureHeader), LengthBytes)
        read(done, i) ==
            LET at == done.at + LengthBytes
                length == ReadBE(data, done.at, LengthBytes)
            IN IF done.failed \/ at > Len(data) \/ length < RawHeader \/ at + length > Len(data)
               THEN [done EXCEPT !.failed = TRUE]
               ELSE [failed |-> FALSE, at |-> at + length,
                     messages |-> Append(done.messages, [byteOffset |-> at, byteLength |-> length,
                                                         bytes |-> Slice(data, at, at + length)])]
        done == FoldLeft(read, [failed |-> FALSE, at |-> ExposureHeaderSize, messages |-> <<>>],
                         [i \in 1 .. count |-> i])
    IN IF SubSeq(data, 1, 2) # SubSeq(ExposureHeader, 1, 2) \/ done.failed THEN Rejected
       ELSE done.messages

CalculateFieldElements(byteOffset, byteLength) ==
    byteOffset \div FEBytes .. (byteOffset + byteLength - 1) \div FEBytes

GenerateProofsForByteRange(blob, byteOffset, byteLength) ==
    LET range == CalculateFieldElements(byteOffset, byteLength)
        first == byteOffset \div FEBytes
    IN [i \in 1 .. Cardinality(range) |->
            [z |-> first + i - 1, y |-> ReadBE(blob[first + i - 1], 0, 1 + FEBytes)]]

\* External: the precompile accepts the value of the field element and nothing else.
PointEvaluates(blob, proof) == proof.y = ReadBE(blob[proof.z], 0, 1 + FEBytes)

VerifyAndExtractShifted(blob, proofs, byteOffset, byteLength) ==   \* mutant: always from the first byte
    LET first == byteOffset \div FEBytes
        required == (byteOffset + byteLength - 1) \div FEBytes - first + 1
        valueBytes == FlattenSeq([i \in 1 .. required |-> Tail(WriteBE(proofs[i].y, 1 + FEBytes))])
    IN IF \/ byteOffset + byteLength > UsablePerBlob \/ Len(proofs) < required
          \/ \E i \in 1 .. required : proofs[i].z # first + i - 1 \/ ~PointEvaluates(blob, proofs[i])
       THEN Rejected
       ELSE Slice(valueBytes, 0, byteLength)

VerifyAndExtract(blob, proofs, byteOffset, byteLength) ==
    LET first == byteOffset \div FEBytes
        required == (byteOffset + byteLength - 1) \div FEBytes - first + 1
        valueBytes == FlattenSeq([i \in 1 .. required |-> Tail(WriteBE(proofs[i].y, 1 + FEBytes))])
        skipped == byteOffset % FEBytes
    IN IF \/ byteOffset + byteLength > UsablePerBlob \/ Len(proofs) < required
          \/ \E i \in 1 .. required : proofs[i].z # first + i - 1 \/ ~PointEvaluates(blob, proofs[i])
       THEN Rejected
       ELSE Slice(valueBytes, skipped, skipped + byteLength)

\* BLSExposer's reading of the message.
ParsedByExposer(bytes) ==
    [sender |-> ReadBE(bytes, 0, SenderBytes),
     nonce |-> ReadBE(bytes, SenderBytes + TimestampBytes, NonceBytes),
     contents |-> SubSeq(bytes, RawHeader + 1, Len(bytes))]

ExposureBatchInit ==
    /\ exposure \in [messages : ExposedBatches, start : ExposureStarts, blob : {<<>>},
                     stage : {"new"}, parsed : {<<>>}, index : {0}, params : {<<>>}, outcome : {<<>>}]
    /\ exposure.start + Len(EncodeExposureBatch(exposure.messages)) <= UsablePerBlob
NoExposure == exposure = [stage |-> "none"]

PublishExposureBatch ==
    /\ exposure.stage = "new"
    /\ exposure' = [exposure EXCEPT !.stage = "published",
            !.blob = BlobAt(EncodeExposureBatch(exposure.messages), exposure.start)]
    /\ UNCHANGED <<page, wire, check>>

ParseExposureBatch ==
    /\ exposure.stage = "published"
    /\ exposure' = [exposure EXCEPT !.stage = "parsed", !.parsed = ParseBlob(exposure.blob, exposure.start)]
    /\ UNCHANGED <<page, wire, check>>

\* Proofs are made for the position in the blob; the offset that goes along counts from the batch.
BuildExposureParams ==
    /\ exposure.stage = "parsed"
    /\ \E i \in DOMAIN exposure.parsed :
        LET message == exposure.parsed[i]
        IN exposure' = [exposure EXCEPT !.stage = "proven", !.index = i,
                !.params = [proofs |-> GenerateProofsForByteRange(exposure.blob,
                                exposure.start + message.byteOffset, message.byteLength),
                            byteOffset |-> message.byteOffset,
                            byteLength |-> message.byteLength,
                            messageBytes |-> message.bytes]]
    /\ UNCHANGED <<page, wire, check>>

ExposeOnChain ==
    /\ exposure.stage = "proven"
    /\ LET params == exposure.params
           extracted == VerifyAndExtract(exposure.blob, params.proofs, params.byteOffset, params.byteLength)
       IN exposure' = [exposure EXCEPT !.stage = "exposed",
            !.outcome = IF extracted = params.messageBytes THEN <<ParsedByExposer(extracted)>> ELSE <<>>]
    /\ UNCHANGED <<page, wire, check>>

OnChainNext ==
    \/ BuildDictionary
    \/ LoadDictionary
    \/ WritePage
    \/ ReadPage
    \/ PublishExposureBatch
    \/ ParseExposureBatch
    \/ BuildExposureParams
    \/ ExposeOnChain

-----------------------------------------------------------------------------
(***************************************************************************)
(* Properties.                                                             *)
(***************************************************************************)

\* What the SDK compresses, the SDK reads back, from whichever copy of the dictionary; and so does
\* the contract, unless the batch was written with the SDK's own layout of a corpus that has four
\* zero bytes among its most frequent windows: the zero token then leaves code 0, its tier is laid
\* out from code 1, and the contract reads every token one slot too far.
BatchDecodes ==
    page.stage = "read" =>
        /\ page.sdk = page.written
        /\ page.source = "contract" \/ page.dict.length[0] > 0 => page.chain = page.written

\* A message of an exposure batch at the start of its blob is proven at the position the SDK
\* parsed, and the contract reads the sender, the nonce and the contents that were written; a
\* batch that starts elsewhere is never misread.
ExposedAsWritten ==
    exposure.stage = "exposed" =>
        LET m == exposure.messages[exposure.index]
            read == [sender |-> m.sender, nonce |-> m.nonce, contents |-> m.contents]
        IN /\ exposure.start = 0 => exposure.outcome = <<read>>
           /\ exposure.outcome \in {<<>>, <<read>>}

\* The contracts read what the SDK wrote: dictionary-compressed batches (bpe.ts, BPEDecoder.sol)
\* and messages opened from a blob by KZG proofs (exposure/, KZGVerifier.sol, BLSExposer.sol).
ContractReadsAsWritten == BatchDecodes /\ ExposedAsWritten
=============================================================================
