------------------------------- MODULE Codec -------------------------------
(***************************************************************************)
(* The wire formats: a batch of signed messages, the segments of a blob,   *)
(* and who reads them back - the Reader through bam-sdk, the zkVM guest of *)
(* the coprocessor through its own port - the contents of the messages,    *)
(* and the signature checks of the SDK, the guest and the registry.        *)
(*                                                                         *)
(* A byte is a digit of base Base and an integer field is big-endian; the  *)
(* widths of the fields are constants, so that a small instance has every  *)
(* boundary of the real format (20, 8, 4 and 65 bytes; 31 bytes per field  *)
(* element, 4096 elements per blob).                                       *)
(***************************************************************************)
EXTENDS Contents, FiniteSets

CONSTANTS
    SenderBytes, NonceBytes, LengthBytes, SignatureBytes,   \* widths of the fields of a record
    FEBytes,         \* usable bytes of a field element; its first byte stays 0
    FieldElements,   \* field elements of a blob
    Batches,         \* batches of messages that are written
    Neighbours,      \* payload lengths of the segment written in front
    UsableBytes,     \* length of the segment a compressed batch came in
    FrameSizes,      \* content sizes of its frame
    StrayBytes,      \* values a byte of the batch is changed to
    Numbers, Texts   \* values of the fields of contents that are written

\* The fields of a message fit their widths, and the length of a blob fits the field of a length.
ASSUME CodecAssumption ==
    /\ Base \in Nat /\ Base > 2 /\ StrayBytes \subseteq Byte
    /\ SenderBytes \in Nat /\ NonceBytes \in Nat /\ LengthBytes \in Nat \ {0} /\ SignatureBytes \in Nat
    /\ FEBytes \in Nat \ {0} /\ FieldElements \in Nat /\ FEBytes * FieldElements < Power(LengthBytes)
    /\ Neighbours \subseteq Nat /\ UsableBytes \in Nat /\ FrameSizes \subseteq Nat
    /\ \A messages \in Batches :
        messages \in Seq([sender : 0 .. Power(SenderBytes) - 1, nonce : 0 .. Power(NonceBytes) - 1,
                          contents : Seq(Byte), signature : 0 .. Power(SignatureBytes) - 1])

VARIABLES
    wire,      \* a batch on its way: the messages, the bytes, their segment, and what was read
    check      \* a signature and what each verifier says of it

codecVars == <<wire, check>>

Version == 2
CodecNone == 0
CodecZstd == 1
HeaderBytes == 2 + 2 * LengthBytes
RecordOverhead == SenderBytes + NonceBytes + LengthBytes + SignatureBytes

Rejected == <<[rejected |-> TRUE]>>     \* a decoder that throws

-----------------------------------------------------------------------------
(***************************************************************************)
(* encodeBatch and decodeBatch of the SDK.                                 *)
(***************************************************************************)
EncodeRecord(m) ==
    WriteBE(m.sender, SenderBytes) \o WriteBE(m.nonce, NonceBytes)
        \o WriteBE(Len(m.contents), LengthBytes) \o m.contents \o WriteBE(m.signature, SignatureBytes)

EncodeBatch(messages) ==
    LET payload == FlattenSeq([i \in DOMAIN messages |-> EncodeRecord(messages[i])])
    IN <<Version, CodecNone>> \o WriteBE(Len(messages), LengthBytes)
            \o WriteBE(Len(payload), LengthBytes) \o payload

\* One record: the messages read so far and the offset behind them, or a failure.
ReadRecord(payload, read) ==
    LET header == SenderBytes + NonceBytes + LengthBytes
        body == read.at + header
        contentsLength == ReadBE(payload, body - LengthBytes, LengthBytes)
        end == body + contentsLength + SignatureBytes
    IN IF read.failed \/ body > Len(payload) \/ end > Len(payload)
       THEN [read EXCEPT !.failed = TRUE]
       ELSE [failed |-> FALSE, at |-> end,
             messages |-> Append(read.messages,
                [sender |-> ReadBE(payload, read.at, SenderBytes),
                 nonce |-> ReadBE(payload, read.at + SenderBytes, NonceBytes),
                 contents |-> Slice(payload, body, body + contentsLength),
                 signature |-> ReadBE(payload, body + contentsLength, SignatureBytes)])]

ReadRecords(payload, count) ==
    LET read[n \in 0 .. count] == IF n = 0 THEN [failed |-> FALSE, at |-> 0, messages |-> <<>>]
                                  ELSE ReadRecord(payload, read[n - 1])
    IN read[count]

\* Decompression fails on what is not a ZSTD frame; no writer makes one (compress is a stub).
DecodeBatch(bytes) ==
    LET count == ReadBE(bytes, 2, LengthBytes)
        payloadLength == ReadBE(bytes, 2 + LengthBytes, LengthBytes)
        payload == Slice(bytes, HeaderBytes, HeaderBytes + payloadLength)
        read == ReadRecords(payload, count)
    IN IF \/ Len(bytes) < HeaderBytes
          \/ bytes[1] # Version \/ bytes[2] # CodecNone
          \/ HeaderBytes + payloadLength > Len(bytes)
          \/ read.failed \/ read.at # Len(payload)
       THEN Rejected ELSE read.messages

-----------------------------------------------------------------------------
(***************************************************************************)
(* The segments of a blob.  A field element is a zero byte and FEBytes     *)
(* bytes of payload; a segment takes whole field elements.                 *)
(***************************************************************************)
SegmentFEs(length) == (length + FEBytes - 1) \div FEBytes

AssembleMultiSegmentBlob(payloads) ==
    LET endFE[i \in 0 .. Len(payloads)] == IF i = 0 THEN 0 ELSE endFE[i - 1] + SegmentFEs(Len(payloads[i]))
        segment(i) == [startFE |-> endFE[i - 1], endFE |-> endFE[i]]
        byteAt(fe, k) ==
            LET mine == {i \in DOMAIN payloads : fe \in segment(i).startFE .. segment(i).endFE - 1}
                i == CHOOSE j \in mine : TRUE
                at == (fe - segment(i).startFE) * FEBytes + k
            IN IF mine = {} THEN 0 ELSE IF at <= Len(payloads[i]) THEN payloads[i][at] ELSE 0
    IN [fits |-> endFE[Len(payloads)] <= FieldElements,
        blob |-> [fe \in 0 .. FieldElements - 1 |-> <<0>> \o [k \in 1 .. FEBytes |-> byteAt(fe, k)]],
        segments |-> [i \in DOMAIN payloads |-> segment(i)]]

ValidSegmentRange(startFE, endFE) == 0 <= startFE /\ startFE < endFE /\ endFE <= FieldElements

ExtractSegmentBytes(blob, startFE, endFE) ==
    FlattenSeq([i \in 1 .. endFE - startFE |-> Tail(blob[startFE + i - 1])])

-----------------------------------------------------------------------------
(***************************************************************************)
(* The zkVM guest's port.                                                  *)
(***************************************************************************)
GuestExtract(blob, startFE, endFE) ==
    FlattenSeq([fe \in 1 .. endFE - startFE |-> SubSeq(blob[startFE + fe - 1], 2, FEBytes + 1)])

DecodeBamPayloadLoose(bytes) ==   \* mutant: bytes behind the last record are taken
    LET count == ReadBE(bytes, 2, LengthBytes)
        payloadLength == ReadBE(bytes, 2 + LengthBytes, LengthBytes)
        payload == Slice(bytes, HeaderBytes, HeaderBytes + payloadLength)
        read == ReadRecords(payload, count)
    IN IF \/ Len(bytes) < HeaderBytes
          \/ bytes[1] # Version \/ bytes[2] # CodecNone
          \/ HeaderBytes + payloadLength > Len(bytes)
          \/ count > Len(payload) \div RecordOverhead
          \/ read.failed
       THEN Rejected ELSE read.messages

DecodeBamPayload(bytes) ==
    LET count == ReadBE(bytes, 2, LengthBytes)
        payloadLength == ReadBE(bytes, 2 + LengthBytes, LengthBytes)
        payload == Slice(bytes, HeaderBytes, HeaderBytes + payloadLength)
        read == ReadRecords(payload, count)
    IN IF \/ Len(bytes) < HeaderBytes
          \/ bytes[1] # Version \/ bytes[2] # CodecNone
          \/ HeaderBytes + payloadLength > Len(bytes)
          \/ count > Len(payload) \div RecordOverhead
          \/ read.failed \/ read.at # Len(payload)
       THEN Rejected ELSE read.messages

-----------------------------------------------------------------------------
(***************************************************************************)
(* The Reader's guard in front of decodeBatch: a ZSTD frame is refused     *)
(* unless its header declares a content size within twice the segment.     *)
(* What a compressor writes behind the magic number of a frame is          *)
(* FrameHeader: a window byte unless the frame is a single segment, the    *)
(* dictionary's id, and the content size, little-endian.                   *)
(***************************************************************************)
DictIdBytes(flag) == <<0, 1, 2, 4>>[flag + 1]
ContentSizeBytes(frame) ==
    IF frame.fcsFlag > 0 THEN 2 ^ frame.fcsFlag ELSE IF frame.singleSegment THEN 1 ELSE 0

FrameHeader(frame) ==
    LET stored == IF frame.fcsFlag = 1 THEN frame.size - Base ELSE frame.size
        prefix == (IF frame.singleSegment THEN 0 ELSE 1) + DictIdBytes(frame.dictIdFlag)
    IN [i \in 1 .. prefix |-> Base - 1]
        \o [i \in 1 .. ContentSizeBytes(frame) |-> (stored \div Power(i - 1)) % Base]

ReadFrameContentSize(frame, bytes) ==
    LET width == ContentSizeBytes(frame)
        offset == (IF frame.singleSegment THEN 0 ELSE 1) + DictIdBytes(frame.dictIdFlag)
        size[i \in 0 .. width] == IF i = 0 THEN 0 ELSE size[i - 1] + bytes[offset + i] * Power(i - 1)
    IN IF width = 0 \/ Len(bytes) < offset + width THEN -1
       ELSE IF frame.fcsFlag = 1 THEN size[width] + Base ELSE size[width]

ZstdWithinBound(frame, bytes) ==
    ReadFrameContentSize(frame, bytes) \in 0 .. 2 * UsableBytes

\* decode: the zero decoder is the SDK behind the guard, which refuses a batch that says it is
\* compressed and is no frame; any other decoder is called on the chain.  A refusal of the guard
\* and a failed call are a failed dispatch, a batch the SDK rejects is malformed.
Decode(decoder, bytes, answer) ==
    LET advertised == Len(bytes) >= HeaderBytes /\ bytes[2] = CodecZstd
        whole == HeaderBytes + ReadBE(bytes, 2 + LengthBytes, LengthBytes) <= Len(bytes)
        result == IF decoder = "zero" THEN DecodeBatch(bytes) ELSE answer
    IN [messages |-> result,
        status |-> IF result # Rejected THEN "decoded"
                   ELSE IF decoder = "zero" /\ ~(advertised /\ whole) THEN "malformed"
                   ELSE "dispatch_failed"]

-----------------------------------------------------------------------------
(***************************************************************************)
(* A batch on its way.  Another segment may lie in front of it in the      *)
(* blob; whoever writes blobs may change it.                               *)
(***************************************************************************)
WireInit ==
    wire \in [written : Batches, neighbour : Neighbours, bytes : {<<>>}, sdk : {<<>>}, guest : {<<>>},
              stage : {"new"}]

\* Instead of a batch, a compressed one: its content size and the flags a compressor may choose.
FrameInit ==
    \E size \in FrameSizes, fcsFlag \in 0 .. 3, singleSegment \in BOOLEAN, dictIdFlag \in 0 .. 3 :
        /\ CASE fcsFlag = 0 -> size < Base
             [] fcsFlag = 1 -> size \in Base .. Base + Power(2) - 1
             [] fcsFlag = 2 -> size < Power(4)
             [] fcsFlag = 3 -> size \div Power(7) < Base
        /\ wire = [stage |-> "frame", admitted |-> FALSE, size |-> size, fcsFlag |-> fcsFlag,
                   singleSegment |-> singleSegment, dictIdFlag |-> dictIdFlag]

\* Or contents an application writes.
ContentsInit ==
    \E app \in Applications :
        \E layout \in LayoutsOf(app) :
            LET valuesOf(field) == IF field \in {"tag", "text"} THEN Texts ELSE {<<n>> : n \in Numbers}
                fields == layout.fields
            IN \E values \in {v \in [DOMAIN fields -> UNION {valuesOf(fields[i]) : i \in DOMAIN fields}] :
                                \A i \in DOMAIN fields : v[i] \in valuesOf(fields[i])} :
                 wire = [stage |-> "contents", app |-> app, sent |-> <<>>, arrived |-> <<>>, read |-> Undecoded,
                         composed |-> [head |-> layout.head, values |-> values]]

NoWire == wire = [stage |-> "none"]

Encode ==
    /\ wire.stage = "new"
    /\ wire' = [wire EXCEPT !.stage = "encoded", !.bytes = EncodeBatch(wire.written)]
    /\ UNCHANGED check

Tamper ==
    /\ wire.stage = "encoded"
    /\ \/ \E i \in DOMAIN wire.bytes, b \in StrayBytes :
            wire' = [wire EXCEPT !.stage = "tampered", !.bytes[i] = b]
       \/ \E n \in 1 .. Len(wire.bytes) - 1 :
            wire' = [wire EXCEPT !.stage = "tampered", !.bytes = SubSeq(@, 1, n)]
    /\ UNCHANGED check

ReadBack ==
    /\ wire.stage \in {"encoded", "tampered"}
    /\ LET front == [i \in 1 .. wire.neighbour |-> 1]
       IN \E assembled \in {AssembleMultiSegmentBlob(<<front, wire.bytes>>)} :
            LET mine == assembled.segments[2]
            IN /\ assembled.fits /\ ValidSegmentRange(mine.startFE, mine.endFE)
               /\ wire' = [wire EXCEPT
                    !.stage = IF @ = "encoded" THEN "read" ELSE "read tampered",
                    !.sdk = Decode("zero", ExtractSegmentBytes(assembled.blob, mine.startFE, mine.endFE),
                                   Rejected).messages,
                    !.guest = DecodeBamPayload(GuestExtract(assembled.blob, mine.startFE, mine.endFE))]
    /\ UNCHANGED check

\* An encoder throws, or its bytes are sent.
Compose ==
    /\ wire.stage = "contents" /\ Encodable(LayoutsOf(wire.app), wire.composed)
    /\ wire' = [wire EXCEPT !.stage = "contents sent", !.sent = EncodeContents(wire.app, wire.composed)]
    /\ UNCHANGED check

\* They arrive as they are, cut, with a byte behind them, or changed.
Arrivals(sent) ==
    {SubSeq(sent, 1, n) : n \in 0 .. Len(sent)}
        \cup {Append(sent, b) : b \in StrayBytes}
        \cup {[sent EXCEPT ![i] = b] : i \in DOMAIN sent, b \in StrayBytes}

ReadContents ==
    /\ wire.stage = "contents sent"
    /\ \E bytes \in Arrivals(wire.sent) :
            wire' = [wire EXCEPT !.stage = "contents read", !.arrived = bytes,
                                 !.read = DecodeContents(wire.app, bytes)]
    /\ UNCHANGED check

\* The frame arrives, perhaps cut.
Guard ==
    /\ wire.stage = "frame"
    /\ \E n \in 0 .. Len(FrameHeader(wire)) :
        wire' = [wire EXCEPT !.stage = "guarded",
                    !.admitted = ZstdWithinBound(wire, SubSeq(FrameHeader(wire), 1, n))]
    /\ UNCHANGED check

-----------------------------------------------------------------------------
(***************************************************************************)
(* Signatures.  One has a length, a recovery byte, the half its s lies in, *)
(* a signer and the digest it is over; with the other recovery bit it      *)
(* recovers to a stranger.                                                 *)
(***************************************************************************)
Signers == {"sender", "delegate", "stranger"}
Digest == <<"EIP-712", "tag", "chain">>      \* of the message under its tag on the Poster's chain
Digests == {Digest, <<"EIP-712", "other tag", "chain">>, <<"EIP-712", "tag", "other chain">>}

Recovered(sig, bit, digest) == IF bit = 0 /\ sig.over = digest THEN sig.signer ELSE "stranger"

VerifyECDSAHighS(sig, digest, sender) ==   \* mutant: the upper half of s is not refused
    LET bit == IF sig.v >= 27 THEN sig.v - 27 ELSE sig.v
    IN sig.whole /\ bit \in {0, 1} /\ Recovered(sig, bit, digest) = sender

\* The SDK's check, which ingest makes, and the Reader's without a registry.
VerifyECDSA(sig, digest, sender) ==
    LET bit == IF sig.v >= 27 THEN sig.v - 27 ELSE sig.v
    IN sig.whole /\ bit \in {0, 1} /\ ~sig.highS /\ Recovered(sig, bit, digest) = sender

GuestVerifyECDSA(sig, digest, sender) ==
    LET bit == IF sig.v >= 27 THEN sig.v - 27 ELSE sig.v
    IN sig.whole /\ bit \in 0 .. 3 /\ ~sig.highS /\ Recovered(sig, bit, digest) = sender

\* The SDK's mirror of the registry's ECDSA.tryRecover: v must be canonical.
VerifyEcdsaLocal(sig, digest, owner, delegate) ==
    /\ sig.whole /\ sig.v \in {27, 28} /\ ~sig.highS
    /\ Recovered(sig, sig.v - 27, digest) = (IF delegate = "none" THEN owner ELSE delegate)

\* The Reader's dispatch.  Without a client, and when the call reverts, exceeds its gas or times
\* out, the message does not verify.
VerifyMessage(sig, registry, delegate, callAnswers) ==
    IF registry = "zero" THEN VerifyECDSA(sig, Digest, "sender")
    ELSE callAnswers /\ VerifyEcdsaLocal(sig, Digest, "sender", delegate)

\* What signECDSA makes of a wallet's signature: v is made canonical, or it throws.
Normalizable(sig) == sig.whole /\ sig.v \in {0, 1, 27, 28}
NormalizeEcdsaV(sig) == [sig EXCEPT !.v = IF @ < 27 THEN @ + 27 ELSE @]

CheckInit ==
    check \in [sig : [whole : BOOLEAN, v : {0, 1, 27, 28, 29}, highS : BOOLEAN, signer : Signers,
                      over : Digests],
               signedBySdk : {FALSE}, delegate : {"none", "delegate"},
               stage : {"new"}, verdicts : {<<>>}]
NoCheck == check = [stage |-> "none"]

SignECDSA ==
    /\ check.stage = "new" /\ Normalizable(check.sig) /\ ~check.signedBySdk
    /\ check' = [check EXCEPT !.sig = NormalizeEcdsaV(@), !.signedBySdk = TRUE]
    /\ UNCHANGED wire

Judge ==
    /\ check.stage = "new"
    /\ \E answers \in BOOLEAN :
        check' = [check EXCEPT !.stage = "judged",
            !.verdicts = [ingest |-> VerifyECDSA(check.sig, Digest, "sender"),
                          reader |-> VerifyMessage(check.sig, "zero", check.delegate, answers),
                          registry |-> VerifyMessage(check.sig, "registry", check.delegate, answers),
                          guest |-> GuestVerifyECDSA(check.sig, Digest, "sender"),
                          called |-> answers]]
    /\ UNCHANGED wire

CodecNext ==
    \/ Encode
    \/ Tamper
    \/ ReadBack
    \/ Guard
    \/ Compose
    \/ ReadContents
    \/ SignECDSA
    \/ Judge

\* A batch, a frame or contents on their way, a signature, or none of them.
CodecInit == (WireInit \/ FrameInit \/ ContentsInit \/ NoWire) /\ (CheckInit \/ NoCheck)
CodecSpec == CodecInit /\ [][CodecNext]_codecVars

-----------------------------------------------------------------------------
(***************************************************************************)
(* Properties.                                                             *)
(***************************************************************************)
\* What an application wrote is read as it was meant, less a byte order mark in front of a text; cut
\* short it is read as nothing at all; and whatever is read from any bytes is what the encoder of
\* the application would have written there, so that two readings never share their bytes.
ContentsReadAsMeant ==
    LET texts(m) == {i \in DOMAIN m.values :
                        LayoutOf(LayoutsOf(wire.app), m).fields[i] = "text"}
        heard(m) == [m EXCEPT !.values = [i \in DOMAIN @ |-> IF i \in texts(m) THEN DecodeUtf8(@[i]) ELSE @[i]]]
    IN /\ wire.arrived = wire.sent => wire.read = <<heard(wire.composed)>>
       /\ IsStrictPrefix(wire.arrived, wire.sent) => wire.read = Undecoded
       /\ /\ wire.read # Undecoded /\ Encodable(LayoutsOf(wire.app), wire.read[1])
          /\ ~Contains(wire.arrived, Bom)
          => IsPrefix(EncodeContents(wire.app, wire.read[1]), wire.arrived)

\* What was written is read back by the Reader and by the guest, message for message, wherever
\* the segment lies in its blob; and of bytes that were changed or cut on the way the two make
\* the same messages or both reject them: the guest proves what the Reader lists.  A compressed
\* batch is never decompressed beyond the Reader's bound, and the contents of a message mean to its
\* readers what they meant to its writer.
EveryReaderAgrees ==
    /\ wire.stage = "read" => wire.sdk = wire.written
    /\ wire.stage = "contents read" => ContentsReadAsMeant
    /\ wire.stage = "guarded" /\ wire.admitted => wire.size <= 2 * UsableBytes
    /\ wire.stage \in {"read", "read tampered"} => wire.guest = wire.sdk

\* A signature that ingest accepts is the sender's over this tag and chain; it is accepted by the
\* Reader and by the guest, and by the registry once the call is answered, unless its v is not
\* canonical or the sender has named a delegate there; the SDK's own signer makes v canonical.
AcceptedVerifies ==
    check.stage = "judged" =>
        LET says == check.verdicts
        IN /\ says.ingest => check.sig.signer = "sender" /\ check.sig.over = Digest
           /\ says.ingest <=> says.reader
           /\ says.ingest <=> says.guest
           /\ says.ingest /\ says.called /\ check.delegate = "none"
                /\ (check.signedBySdk \/ check.sig.v >= 27) => says.registry
           /\ says.registry /\ check.delegate = "none" => says.ingest
=============================================================================
