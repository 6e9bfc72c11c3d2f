------------------------------ MODULE BasicTypes ------------------------------
(***************************************************************************)
(* The basic types of the data model and their two codings: BER with tag   *)
(* and length for GOOSE (gseEncodeBasic.c, gseDecodeBasic.c), and bytes    *)
(* alone for Sampled Values (svEncodeBasic.c, svDecodeBasic.c).            *)
(*                                                                         *)
(* A value is its bytes in memory, the lowest first.  An encoder gives the *)
(* bytes it fills; a decoder gets the bytes from buf on and the value that *)
(* was there, and gives the value it leaves and how many bytes it used.    *)
(* VISSTRING255, which no structure has, is left out.                      *)
(***************************************************************************)
EXTENDS Ber

Signeds == {"ENUM", "INT8", "INT16", "INT32", "INT8U"}
Unsigneds == {"INT16U", "INT32U"}
BasicTypes ==
  Signeds \cup Unsigneds
    \cup {"FLOAT32", "FLOAT64", "QUALITY", "TIMESTAMP", "BOOLEAN", "DBPOS"}

\* Bytes of a value.
SV_GET_LENGTH(type) ==
  CASE type \in {"INT8", "INT8U", "BOOLEAN"} -> 1
    [] type \in {"INT16", "INT16U"} -> 2
    [] type \in {"FLOAT64", "TIMESTAMP"} -> 8
    [] OTHER -> 4

Octets(n) == [1 .. n -> Byte]
Zeros(n) == [i \in 1 .. n |-> 0]

Rest(buf, n) == SubSeq(buf, n + 1, Len(buf))

\* memcpy to old.
Over(old, bytes) == bytes \o Rest(old, Len(bytes))

--------------------------------------------------------------------------------
(* BER, without GOOSE_FIXED_SIZE. *)

ASN1_TAG_BOOLEAN == 131
ASN1_TAG_BIT_STRING == 132
ASN1_TAG_INTEGER == 133
ASN1_TAG_UNSIGNED == 134
ASN1_TAG_FLOATING_POINT == 135
ASN1_TAG_OCTET_STRING == 137

QUALITY_UNUSED_BITS == 3

\* Length of the contents.
BER_GET_LENGTH(type, value) ==
  CASE type \in {"FLOAT32", "FLOAT64"} -> SV_GET_LENGTH(type) + 1
    [] type = "QUALITY" -> 2 + 1
    [] type \in Signeds \cup Unsigneds -> ber_integer_length(value)
    [] OTHER -> SV_GET_LENGTH(type)

Element(tag, type, value, contents) ==
  <<tag>> \o encodeLength(BER_GET_LENGTH(type, value)) \o contents

BER_ENCODE_FLOAT(type, value) ==
  LET exponent == IF type = "FLOAT32" THEN 8 ELSE 11
  IN  Element(ASN1_TAG_FLOATING_POINT, type, value, <<exponent>> \o netmemcpy(value))

\* The two lower bytes of four.
BER_ENCODE_QUALITY(value) ==
  Element(ASN1_TAG_BIT_STRING, "QUALITY", value,
          <<QUALITY_UNUSED_BITS>> \o netmemcpy(SubSeq(value, 1, 2)))

BER_ENCODE_TIMESTAMP(value) ==
  Element(ASN1_TAG_OCTET_STRING, "TIMESTAMP", value, value)

BER_ENCODE_INTEGER(type, value) ==
  LET tag == IF type \in Unsigneds THEN ASN1_TAG_UNSIGNED ELSE ASN1_TAG_INTEGER
  IN  Element(tag, type, value, ber_encode_integer(value))

\* BOOLEAN and DBPOS.
BER_ENCODE_PLAIN(type, value) ==
  LET tag == IF type = "BOOLEAN" THEN ASN1_TAG_BOOLEAN ELSE 133
  IN  Element(tag, type, value, netmemcpy(value))

BER_ENCODE(type, value) ==
  CASE type \in {"FLOAT32", "FLOAT64"} -> BER_ENCODE_FLOAT(type, value)
    [] type = "QUALITY" -> BER_ENCODE_QUALITY(value)
    [] type = "TIMESTAMP" -> BER_ENCODE_TIMESTAMP(value)
    [] type \in Signeds \cup Unsigneds -> BER_ENCODE_INTEGER(type, value)
    [] OTHER -> BER_ENCODE_PLAIN(type, value)

Decoded(used, value) == [used |-> used, value |-> value]

\* What a decoder does that finds its tag, or not; Read is the value it makes of
\* the contents and their length.
IfTag(tag, buf, old, Read(_, _)) ==
  IF buf[1] # tag THEN Decoded(1, old)
  ELSE LET length == decodeLength(Rest(buf, 1))
           at == 1 + getLengthFieldSize(buf[2])
       IN  Decoded(at + length, Read(Rest(buf, at), length))

\* With the byte that says the size of the exponent, or none.
BER_DECODE_FLOAT(type, buf, old) ==
  LET size == SV_GET_LENGTH(type)
      exponent == IF type = "FLOAT32" THEN 8 ELSE 11
      Read(contents, length) ==
        CASE length = size + 1 /\ contents[1] = exponent ->
               netmemcpy(SubSeq(contents, 2, size + 1))
          [] length = size -> netmemcpy(SubSeq(contents, 1, size))
          [] OTHER -> old
  IN  IfTag(ASN1_TAG_FLOATING_POINT, buf, old, Read)

\* The only one that uses no byte if the tag is wrong.
BER_DECODE_QUALITY(buf, old) ==
  LET Read(contents, length) == Over(old, netmemcpy(SubSeq(contents, 2, length)))
  IN  IF buf[1] # ASN1_TAG_BIT_STRING THEN Decoded(0, old)
      ELSE IfTag(ASN1_TAG_BIT_STRING, buf, old, Read)

BER_DECODE_TIMESTAMP(buf, old) ==
  LET Read(contents, length) == Over(old, netmemcpy(SubSeq(contents, 1, length)))
  IN  IfTag(ASN1_TAG_OCTET_STRING, buf, old, Read)

\* As BER_DECODE_INTEGER would be if it padded with zeros.
BER_DECODE_INTEGER_Unsigned(type, buf, old) ==
  LET tag == IF type \in Unsigneds \cup {"ENUM"} THEN ASN1_TAG_UNSIGNED
                                                 ELSE ASN1_TAG_INTEGER
      Read(contents, length) == DecodeUnsigned(contents, length, SV_GET_LENGTH(type))
  IN  IfTag(tag, buf, old, Read)

\* An ENUM is expected with the tag that the encoder does not give it.
BER_DECODE_INTEGER(type, buf, old) ==
  LET tag == IF type \in Unsigneds \cup {"ENUM"} THEN ASN1_TAG_UNSIGNED
                                                 ELSE ASN1_TAG_INTEGER
      Read(contents, length) == ber_decode_integer(contents, length, SV_GET_LENGTH(type))
  IN  IfTag(tag, buf, old, Read)

BER_DECODE_BOOLEAN(buf, old) ==
  LET Read(contents, length) == Over(old, netmemcpy(SubSeq(contents, 1, length)))
  IN  IfTag(ASN1_TAG_BOOLEAN, buf, old, Read)

\* No tag and no length.
BER_DECODE_DBPOS(buf) == Decoded(4, netmemcpy(SubSeq(buf, 1, 4)))

BER_DECODE(type, buf, old) ==
  CASE type \in {"FLOAT32", "FLOAT64"} -> BER_DECODE_FLOAT(type, buf, old)
    [] type = "QUALITY" -> BER_DECODE_QUALITY(buf, old)
    [] type = "TIMESTAMP" -> BER_DECODE_TIMESTAMP(buf, old)
    [] type \in Signeds \cup Unsigneds -> BER_DECODE_INTEGER(type, buf, old)
    [] type = "BOOLEAN" -> BER_DECODE_BOOLEAN(buf, old)
    [] OTHER -> BER_DECODE_DBPOS(buf)

--------------------------------------------------------------------------------
(* Sampled Values. *)

\* A quality fills two of its four bytes; the others stay as they are in buf.
ENCODE_CTYPE(type, value, buf) ==
  IF type = "QUALITY" THEN SubSeq(buf, 1, 2) \o netmemcpy(SubSeq(value, 1, 2))
                      ELSE netmemcpy(value)

DECODE_CTYPE(type, buf) ==
  Decoded(SV_GET_LENGTH(type), netmemcpy(SubSeq(buf, 1, SV_GET_LENGTH(type))))

--------------------------------------------------------------------------------
(* What a value should become on its way. *)

\* By BER a quality keeps the upper half of what it is decoded over; a timestamp is
\* turned round; an ENUM is not decoded, for its tag; of a DBPOS tag and length are
\* taken for the upper half and the lower half is lost.
ArrivedByBER(type, value, before) ==
  CASE type = "QUALITY" -> SubSeq(value, 1, 2) \o SubSeq(before, 3, 4)
    [] type = "TIMESTAMP" -> netmemcpy(value)
    [] type = "ENUM" -> before
    [] type = "DBPOS" -> SubSeq(value, 3, 4) \o <<4, 133>>
    [] OTHER -> value

\* Plain, a quality gets there what was in the encoder's buffer.
ArrivedPlain(type, value, stale) ==
  IF type = "QUALITY" THEN SubSeq(value, 1, 2) \o stale ELSE value
================================================================================
