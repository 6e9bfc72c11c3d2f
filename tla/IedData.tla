-------------------------------- MODULE IedData -------------------------------
(***************************************************************************)
(* The structures of the data model and their generated coders: BER for    *)
(* GOOSE (gseEncode.c, gseDecode.c), plain bytes for Sampled Values        *)
(* (svEncode.c, svDecode.c).                                               *)
(*                                                                         *)
(* The generated functions differ only in the structure they are for, so   *)
(* each family is one operator over the table Components.  A value of a    *)
(* structure is the sequence of the values of its components.              *)
(*                                                                         *)
(* The state is that of one value on its way: encoded into a buffer that   *)
(* is not empty, then decoded over another value.                          *)
(***************************************************************************)
EXTENDS BasicTypes, SequencesExt

CONSTANTS
  Values,       \* the values of each type that are sent
  Targets,      \* the values of each type that they may be decoded over
  Stale         \* the bytes that a buffer may be full of

VARIABLES
  call,     \* what is encoded: "value", or something else
  coding,   \* "GSE" or "SV"
  type,
  sent,     \* the value, and
  old,      \*   the one that it is decoded over
  stale,    \* the byte that the buffer is full of
  coded,    \* the bytes written to it
  out       \* what the decoder leaves

dataVars == <<call, coding, type, sent, old, stale, coded, out>>

--------------------------------------------------------------------------------
(* The data model. *)

Structures ==
  {"IEC_61850_9_2LEAV", "IEC_61850_9_2LEsVC", "IEC_61850_9_2LESAV", "IEC_61850_9_2LEINC"}

\* LE_IED_MUnn_PhsMeas1 and 2 are alike.
Datasets == {"LE_IED_MUnn_PhsMeas"}

\* LEsVCAmp and LEsVCVol are alike, and so are LESAVAmp and LESAVVol.
Components(t) ==
  CASE t = "IEC_61850_9_2LEAV"   -> <<"INT32">>
    [] t = "IEC_61850_9_2LEsVC"  -> <<"FLOAT32", "FLOAT32">>
    [] t = "IEC_61850_9_2LESAV"  -> <<"IEC_61850_9_2LEAV", "QUALITY", "IEC_61850_9_2LEsVC">>
    [] t = "IEC_61850_9_2LEINC"  -> <<"INT32", "INT32", "QUALITY", "TIMESTAMP">>
    [] t = "LE_IED_MUnn_PhsMeas" ->
         [i \in 1 .. 16 |-> IF i % 2 = 1 THEN "IEC_61850_9_2LEAV" ELSE "QUALITY"]

Types == BasicTypes \cup Structures \cup Datasets

\* A component is of a basic type or a structure that only has components of basic
\* types.  So the functions of a family call each other at most twice: the one for
\* a structure calls those for its components, named ..._part here, and they call
\* those for basic types.  One operator says what a function of the family does,
\* with the functions it calls as a parameter.

HasParts(Is(_, _), t, v) ==
  /\ v = [i \in DOMAIN Components(t) |-> v[i]]
  /\ \A i \in DOMAIN Components(t) : Is(Components(t)[i], v[i])

IsBasic(t, v) == v \in Octets(SV_GET_LENGTH(t))
IsPart(t, v) == IF t \in BasicTypes THEN IsBasic(t, v) ELSE HasParts(IsBasic, t, v)
IsValue(t, v) == IF t \in BasicTypes THEN IsBasic(t, v) ELSE HasParts(IsPart, t, v)

ASSUME DataAssumption ==
  /\ Stale \subseteq Byte
  /\ \A t \in Types : \A v \in Values[t] \cup Targets[t] : IsValue(t, v)

--------------------------------------------------------------------------------
(* GOOSE. *)

STRUCTURE == 162   \* 0xA2

LengthOf(Length(_, _), t, value) ==
  Total([i \in DOMAIN Components(t) |->
    LET len == Length(Components(t)[i], value[i]) IN len + getLengthBytes(len) + 1])

ber_get_length_part(t, value) ==
  IF t \in BasicTypes THEN BER_GET_LENGTH(t, value)
                      ELSE LengthOf(BER_GET_LENGTH, t, value)

\* As ber_get_length would be if it left the length fields of the components out.
ShortLength(t, value) ==
  IF t \in BasicTypes THEN BER_GET_LENGTH(t, value)
  ELSE Total([i \in DOMAIN Components(t) |->
         ber_get_length_part(Components(t)[i], value[i]) + 1])

\* ber_get_length_...: the length of the contents.
ber_get_length(t, value) ==
  IF t \in BasicTypes THEN BER_GET_LENGTH(t, value)
                      ELSE LengthOf(ber_get_length_part, t, value)

\* A dataset has no tag and length of its own.
Encoded(Encode(_, _), t, value) ==
  LET contents == FlattenSeq([i \in DOMAIN Components(t) |->
                    Encode(Components(t)[i], value[i])])
  IN  IF t \in Datasets THEN contents
      ELSE (<<STRUCTURE>> \o encodeLength(ber_get_length(t, value))) \o contents

ber_encode_part(t, value) ==
  IF t \in BasicTypes THEN BER_ENCODE(t, value) ELSE Encoded(BER_ENCODE, t, value)

ber_encode(t, value) ==
  IF t \in BasicTypes THEN BER_ENCODE(t, value) ELSE Encoded(ber_encode_part, t, value)

\* The decoders of the components of a structure, each for its own.
Readers(Decode(_, _, _), t, value) ==
  [i \in DOMAIN Components(t) |->
    [buf \in Seq(Byte) |-> Decode(Components(t)[i], buf, value[i])]]

\* They are called one after the other, with offset += what each one returns.
InTurn(readers, buf) ==
  LET offset[i \in 0 .. Len(readers)] ==
        IF i = 0 THEN 0
        ELSE LET before == offset[i - 1]
             IN  before + readers[i][Rest(buf, before)].used
  IN  Decoded(offset[Len(readers)],
              [i \in DOMAIN readers |-> readers[i][Rest(buf, offset[i - 1])].value])

\* The length of a structure is stepped over; its components say where it ends.
DecodedBy(Decode(_, _, _), t, buf, value) ==
  IF t \in Datasets THEN InTurn(Readers(Decode, t, value), buf)
  ELSE IF buf[1] # STRUCTURE THEN Decoded(1, value)
  ELSE LET first == 1 + getLengthFieldSize(buf[2])
           inside == InTurn(Readers(Decode, t, value), Rest(buf, first))
       IN  Decoded(first + inside.used, inside.value)

ber_decode_part(t, buf, value) ==
  IF t \in BasicTypes THEN BER_DECODE(t, buf, value)
                      ELSE DecodedBy(BER_DECODE, t, buf, value)

ber_decode(t, buf, value) ==
  IF t \in BasicTypes THEN BER_DECODE(t, buf, value)
                      ELSE DecodedBy(ber_decode_part, t, buf, value)

--------------------------------------------------------------------------------
(* Sampled Values. *)

sv_length_part(t) ==
  IF t \in BasicTypes THEN SV_GET_LENGTH(t)
  ELSE Total([i \in DOMAIN Components(t) |-> SV_GET_LENGTH(Components(t)[i])])

\* Where component i of a structure begins.
Offset(t, i) == Total([j \in 1 .. i - 1 |-> sv_length_part(Components(t)[j])])

sv_length(t) ==
  IF t \in BasicTypes THEN SV_GET_LENGTH(t) ELSE Offset(t, Len(Components(t)) + 1)

SvEncoded(Encode(_, _, _), t, value, buf) ==
  FlattenSeq([i \in DOMAIN Components(t) |->
    Encode(Components(t)[i], value[i], Rest(buf, Offset(t, i)))])

sv_encode_part(t, value, buf) ==
  IF t \in BasicTypes THEN ENCODE_CTYPE(t, value, buf)
                      ELSE SvEncoded(ENCODE_CTYPE, t, value, buf)

sv_encode(t, value, buf) ==
  IF t \in BasicTypes THEN ENCODE_CTYPE(t, value, buf)
                      ELSE SvEncoded(sv_encode_part, t, value, buf)

\* A plain value replaces what was there, whatever that is.
SvDecodeBasic(t, buf, value) == DECODE_CTYPE(t, buf)

sv_decode_part(t, buf, value) ==
  IF t \in BasicTypes THEN SvDecodeBasic(t, buf, value)
                      ELSE InTurn(Readers(SvDecodeBasic, t, value), buf)

sv_decode(t, buf, value) ==
  IF t \in BasicTypes THEN SvDecodeBasic(t, buf, value)
                      ELSE InTurn(Readers(sv_decode_part, t, value), buf)

--------------------------------------------------------------------------------
(* One value on its way. *)

\* What init_datatypes leaves of a structure: 0.001 in the currents, 0.01 in the
\* voltages, and 0 everywhere else.
ScaleFactors == {<<111, 18, 131, 58>>, <<10, 215, 35, 60>>}

InitialPart(t, scaleFactor) ==
  IF t \in BasicTypes THEN Zeros(SV_GET_LENGTH(t))
  ELSE IF t = "IEC_61850_9_2LEsVC" THEN <<scaleFactor, Zeros(4)>>
  ELSE [i \in DOMAIN Components(t) |-> Zeros(SV_GET_LENGTH(Components(t)[i]))]

Initial(t, scaleFactor) ==
  IF t \in BasicTypes \cup {"IEC_61850_9_2LEsVC"} THEN InitialPart(t, scaleFactor)
  ELSE [i \in DOMAIN Components(t) |-> InitialPart(Components(t)[i], scaleFactor)]

Filled(n) == [i \in 1 .. n |-> stale]

DataInit ==
  /\ call = "value"
  /\ coding \in {"GSE", "SV"}
  /\ type \in Types
  /\ sent \in Values[type]
  /\ old \in Targets[type]
  /\ stale \in Stale
  /\ coded = <<>>
  /\ out = Decoded(0, old)

\* ber_encode_... or encode_...
EncodeValue ==
  /\ call = "value"
  /\ coded = <<>>
  /\ coded' = IF coding = "GSE" THEN ber_encode(type, sent)
              ELSE sv_encode(type, sent, Filled(sv_length(type)))
  /\ UNCHANGED <<call, coding, type, sent, old, stale, out>>

\* ber_decode_... or decode_..., which do not know how much was written.
DecodeValue ==
  /\ call = "value"
  /\ coded # <<>>
  /\ out.used = 0
  /\ out' = LET buf == coded \o Filled(8) IN
              IF coding = "GSE" THEN ber_decode(type, buf, old)
              ELSE sv_decode(type, buf, old)
  /\ UNCHANGED <<call, coding, type, sent, old, stale, coded>>

DataNext == EncodeValue \/ DecodeValue

--------------------------------------------------------------------------------
(* Properties. *)

\* The element that b begins with, by the length that it announces: its size and its
\* contents.  One that does not fit into b is as large as to fit into nothing.
Opened(b) ==
  LET first == 1 + getLengthFieldSize(b[2])
      size == first + decodeLength(Rest(b, 1))
  IN  IF Len(b) >= 2 /\ first <= Len(b) /\ size <= Len(b)
        THEN Decoded(size, SubSeq(b, first + 1, size))
        ELSE Decoded(Len(b) + 1, <<>>)

\* s is one element of each type of ts in turn and nothing else, and the contents of
\* each one are as Inside says.
FitInto(s, ts, Inside(_, _)) ==
  LET elements == InTurn([i \in DOMAIN ts |-> [b \in Seq(Byte) |-> Opened(b)]], s)
  IN  /\ elements.used = Len(s)
      /\ \A i \in DOMAIN ts : Inside(ts[i], elements.value[i])

Anything(t, contents) == TRUE
PartFits(t, contents) ==
  t \in Structures => FitInto(contents, Components(t), Anything)
Fits(t, contents) ==
  t \in Structures => FitInto(contents, Components(t), PartFits)

DataLengths ==
  call = "value" /\ coding = "GSE" /\ coded # <<>> =>
    IF type \in Datasets THEN FitInto(coded, Components(type), PartFits)
                         ELSE FitInto(coded, <<type>>, Fits)

\* What a value should become.
Arrived(t, value, before) ==
  IF coding = "GSE" THEN ArrivedByBER(t, value, before)
                    ELSE ArrivedPlain(t, value, Filled(2))
AllArrived(Arrives(_, _, _), t, value, before) ==
  [i \in DOMAIN Components(t) |-> Arrives(Components(t)[i], value[i], before[i])]
PartArrived(t, value, before) ==
  IF t \in BasicTypes THEN Arrived(t, value, before)
                      ELSE AllArrived(Arrived, t, value, before)
ValueArrived(t, value, before) ==
  IF t \in BasicTypes THEN Arrived(t, value, before)
                      ELSE AllArrived(PartArrived, t, value, before)

(* Whatever was in the buffer and in the value before, each part of a value *)
(* arrives, changed at most as its type and the coding say; and the         *)
(* decoder, which is not told the length, uses just the bytes that were     *)
(* written, but for the two types that it decodes with no regard to theirs. *)
DataDecodes ==
  call = "value" /\ out.used > 0 =>
    /\ out.value = ValueArrived(type, sent, old)
    /\ coding = "SV" \/ type \notin {"ENUM", "DBPOS"} => out.used = Len(coded)

================================================================================
