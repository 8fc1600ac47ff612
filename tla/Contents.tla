------------------------------ MODULE Contents ------------------------------
(***************************************************************************)
(* The contents of a message, as each application writes and reads them:   *)
(* a head that names the version and the kind, and the fields of a layout. *)
(* A byte is a digit of base Base; integers are big-endian.                *)
(***************************************************************************)
EXTENDS Integers, Sequences, SequencesExt

CONSTANTS
    Base,                                  \* values of a byte
    TimeBytes, HashBytes, TextLengthBytes, \* widths of the fields (8, 32 and 4)
    MaxTimestamp,        \* 0xffffffffffff: the latest time most encoders take
    MaxSafeInteger, \* a larger integer that becomes a Number is rounded
    MaxTagLen,
    NoUtf8,         \* a byte no UTF-8 text has
    Bom             \* the byte order mark

Byte == 0 .. Base - 1

\* How many values n bytes have.
Power(n) ==
    LET power[k \in 0 .. n] == IF k = 0 THEN 1 ELSE Base * power[k - 1]
    IN power[n]

WriteBE(value, width) == [i \in 1 .. width |-> (value \div Power(width - i)) % Base]

ReadBE(bytes, offset, width) ==
    LET value[n \in 0 .. width] == IF n = 0 THEN 0 ELSE value[n - 1] * Base + bytes[offset + n]
    IN value[width]

Slice(bytes, from, to) == SubSeq(bytes, from + 1, to)

\* Number(): exact up to 2^53.
ToNumber(value) == IF value <= MaxSafeInteger THEN value ELSE value - (value % 2)

\* The decoder of texts drops a byte order mark in front.
DecodeUtf8(bytes) == IF bytes # <<>> /\ Head(bytes) = Bom THEN Tail(bytes) ELSE bytes

-----------------------------------------------------------------------------
(***************************************************************************)
(* Layouts.  A message is the head of its layout and a value for each      *)
(* field; a value is a sequence, of one number or of bytes.                *)
(***************************************************************************)
Layout(head, fields) == [head |-> head, fields |-> fields]
LayoutOf(layouts, m) == CHOOSE l \in layouts : l.head = m.head

PostReplyLayouts == {Layout(<<1, 0>>, <<"time", "text">>), Layout(<<1, 1>>, <<"time", "hash", "text">>)}
CommentLayouts == {Layout(<<1, 0>>, <<"hash", "time", "text">>),
                   Layout(<<1, 1>>, <<"hash", "time", "hash", "text">>)}
ForumLayouts == {Layout(<<2, 0>>, <<"bigint time", "tag", "text", "text">>),
                 Layout(<<1, 1>>, <<"bigint time", "hash", "text">>),
                 Layout(<<1, 2>>, <<"bigint time", "hash">>)}
SocialLayouts == {Layout(<<>>, <<"time", "text">>)}

\* What an encoder refuses.
Writable(field, value) ==
    CASE field = "time" -> value[1] <= MaxTimestamp
      [] field = "bigint time" -> value[1] < Power(TimeBytes)
      [] field = "hash" -> value[1] < Power(HashBytes)
      [] field = "tag" -> Len(value) <= MaxTagLen
      [] field = "text" -> Len(value) < Power(TextLengthBytes)

WriteField(field, value) ==
    CASE field \in {"time", "bigint time"} -> WriteBE(value[1], TimeBytes)
      [] field = "hash" -> WriteBE(value[1], HashBytes)
      [] field = "tag" -> <<Len(value)>> \o value
      [] field = "text" -> WriteBE(Len(value), TextLengthBytes) \o value

Encodable(layouts, m) ==
    LET fields == LayoutOf(layouts, m).fields
    IN \A i \in DOMAIN fields : Writable(fields[i], m.values[i])

EncodeBy(layouts, m) ==
    LET fields == LayoutOf(layouts, m).fields
    IN m.head \o FlattenSeq([i \in DOMAIN fields |-> WriteField(fields[i], m.values[i])])

\* One field: the values read so far and the offset behind them, or a failure.  Bytes behind the
\* last field are ignored.
ReadField(bytes, read, field) ==
    LET fixed == CASE field \in {"time", "bigint time"} -> TimeBytes
                   [] field = "hash" -> HashBytes
                   [] field = "tag" -> 1
                   [] field = "text" -> TextLengthBytes
        body == read.at + fixed
        number == ReadBE(bytes, read.at, fixed)
        end == IF field \in {"tag", "text"} THEN body + number ELSE body
        value == CASE field = "time" -> <<ToNumber(number)>>
                   [] field \in {"bigint time", "hash"} -> <<number>>
                   [] field = "tag" -> Slice(bytes, body, end)
                   [] field = "text" -> DecodeUtf8(Slice(bytes, body, end))
    IN IF \/ read.failed \/ body > Len(bytes) \/ end > Len(bytes)
          \/ field = "tag" /\ number > MaxTagLen
          \/ field = "text" /\ \E i \in body + 1 .. end : bytes[i] = NoUtf8
       THEN [read EXCEPT !.failed = TRUE]
       ELSE [failed |-> FALSE, at |-> end, values |-> Append(read.values, value)]

Undecoded == <<>>     \* a decoder that throws
DecodeBy(layouts, bytes) ==
    LET mine == {l \in layouts : IsPrefix(l.head, bytes)}
        layout == CHOOSE l \in mine : TRUE
        read[n \in 0 .. Len(layout.fields)] ==
            IF n = 0 THEN [failed |-> FALSE, at |-> Len(layout.head), values |-> <<>>]
            ELSE ReadField(bytes, read[n - 1], layout.fields[n])
        last == read[Len(layout.fields)]
    IN IF mine = {} THEN Undecoded
       ELSE IF last.failed THEN Undecoded ELSE <<[head |-> layout.head, values |-> last.values]>>

-----------------------------------------------------------------------------
(***************************************************************************)
(* The applications.                                                       *)
(***************************************************************************)
EncodePostReplyContents(m) == EncodeBy(PostReplyLayouts, m)
DecodePostReplyContents(bytes) == DecodeBy(PostReplyLayouts, bytes)
DecodeTwitterContents(bytes) == DecodeBy(PostReplyLayouts, bytes)     \* the copy of apps/bam-indexer
EncodeCommentContents(m) == EncodeBy(CommentLayouts, m)
DecodeCommentContents(bytes) == DecodeBy(CommentLayouts, bytes)
EncodeForumContents(m) == EncodeBy(ForumLayouts, m)
DecodeForumContents(bytes) == DecodeBy(ForumLayouts, bytes)
EncodeSocialContents(m) == EncodeBy(SocialLayouts, m)
DecodeSocialContents(bytes) == DecodeBy(SocialLayouts, bytes)

Applications == {"post-reply", "twitter", "comments", "forum", "social"}
LayoutsOf(app) ==
    CASE app \in {"post-reply", "twitter"} -> PostReplyLayouts
      [] app = "comments" -> CommentLayouts
      [] app = "forum" -> ForumLayouts
      [] app = "social" -> SocialLayouts

EncodeContents(app, m) ==
    CASE app \in {"post-reply", "twitter"} -> EncodePostReplyContents(m)
      [] app = "comments" -> EncodeCommentContents(m)
      [] app = "forum" -> EncodeForumContents(m)
      [] app = "social" -> EncodeSocialContents(m)

DecodeContents(app, bytes) ==
    CASE app = "post-reply" -> DecodePostReplyContents(bytes)
      [] app = "twitter" -> DecodeTwitterContents(bytes)
      [] app = "comments" -> DecodeCommentContents(bytes)
      [] app = "forum" -> DecodeForumContents(bytes)
      [] app = "social" -> DecodeSocialContents(bytes)
=============================================================================
