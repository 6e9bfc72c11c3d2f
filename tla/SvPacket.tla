------------------------------- MODULE SvPacket --------------------------------
(***************************************************************************)
(* A Sampled Values packet as bytes: what svEncodePacket and               *)
(* svEncodePacket_compress write behind the Ethernet header, and how       *)
(* svDecode and svDecode_compress walk through it.                         *)
(*                                                                         *)
(* A packet is nested: savPdu, sequence of ASDUs, ASDU, its fields, each a *)
(* tag, a length of one to three bytes and contents.  The encoder computes *)
(* the lengths from the sizes of the datasets before it writes anything.   *)
(* The decoder calls itself for what is in or behind an element; these are *)
(* its last calls, so the state is where it is, not a stack.  The samples  *)
(* of the packet are put one by one into buffers that are never cleared.   *)
(*                                                                         *)
(* A byte of the compressed form holds a number below Flag, which is 128;  *)
(* it may be smaller here, and all numbers with it: a byte holds twice     *)
(* that, and a measurement is four bytes.                                  *)
(***************************************************************************)
EXTENDS SvSample, Ber, FiniteSetsExt, SequencesExt

CONSTANTS
  Flag,         \* the bit of a byte that says that another one follows
  Samples,      \* the measurements of NoASDU samples, to choose from
  SmpCnt        \* smpCnt of the first sample

VARIABLES
  mode,     \* how the packet is encoded
  sample,   \* the samples
  left,     \* the same samples were encoded the other way before
  read,     \* which decoder reads it
  data,     \* data.data of the ASDUs of the control block, as far as it is used,
  size,     \*   and data.size
  filler,   \* the byte the receive buffer is filled with behind the packet
  packet,   \* bytes from the field 'length' to the end
  pc,       \* "update", "apdu" in svDecodeAPDU, "asdu" in svDecodeASDU, "done"
  apdu,     \* buf of svDecodeAPDU
  number,   \* ASDUCount of the control block; its parameters ASDU
  total,    \*   and totalASDUs
  elem,     \* buf + i of svDecodeASDU
  svID,     \* its svID is not NULL
  smpCnt,   \* its smpCnt
  decoded,  \* LE_IED_MUnn_PhsMeas1[] of sv_inputs, which is all zero before:
  quality,  \*   its measurements, and their qualities
  counted   \* smpCnt of sv_inputs

chosen == <<mode, sample, left, read, filler>>
made == <<data, size, packet>>
svVars == <<chosen, made, pc, apdu, number, total, elem, svID, smpCnt, decoded, quality, counted>>

--------------------------------------------------------------------------------
(* Numbers. *)

\* A byte, and a measurement or quality of four.
ByteBase == 2 * Flag
Half == Flag * ByteBase * ByteBase * ByteBase
WordBase == 2 * Half

\* v as a signed number.
Signed(v) == ((v + Half) % WordBase) - Half

\* (value >> 31) ^ (value << 1) of encode_int32_t, and its inverse.
ZigZag(v) == IF v >= 0 THEN 2 * v ELSE -2 * v - 1
UnZigZag(n) == IF n % 2 = 0 THEN n \div 2 ELSE -(n \div 2) - 1

\* encode_uint32_t: the value after so many turns of its loop, and the bytes.
MaxGroups == 5
Shifted(n) ==
  LET value[i \in 0 .. MaxGroups] == IF i = 0 THEN n ELSE value[i - 1] \div Flag
  IN  value
Turns(n) ==
  CHOOSE i \in 0 .. MaxGroups - 1 :
    /\ Shifted(n)[i] < Flag
    /\ \A j \in 0 .. i - 1 : Shifted(n)[j] >= Flag
Groups(n) ==
  [i \in 1 .. Turns(n) + 1 |->
    (Shifted(n)[i - 1] % Flag) + (IF i <= Turns(n) THEN Flag ELSE 0)]

BigEndian(n) ==
  LET byte[i \in 0 .. 4] == IF i = 0 THEN n ELSE byte[i - 1] \div ByteBase
  IN  [i \in 1 .. 4 |-> byte[4 - i] % ByteBase]

--------------------------------------------------------------------------------
(* The datasets: eight measurements, each with its quality. *)

Measurements == 0 .. 7

ASSUME SvPacketAssumption ==
  /\ NoASDU \in 1 .. 127
  /\ Flag \in {16, 32, 64, 128}
  /\ Samples \subseteq [Index -> [Measurements -> -Half .. Half - 1]]
  /\ SmpCnt \in Nat /\ SmpCnt + NoASDU <= 256 * 256

\* encode_LE_IED_MUnn_PhsMeas1_compress: differences to the sample before; every
\* quality is 0 and so is its difference.
Difference(k, f) == Signed(sample[k - 1][f] - sample[k][f])
DifferenceBytes(k) ==
  FlattenSeq([f \in 1 .. 8 |-> Groups(ZigZag(Difference(k, f - 1))) \o Groups(0)])

FullSize == 64
NoBytes == [i \in 1 .. FullSize |-> 0]

\* The bytes of area with sample k written to it.  In full: of the four bytes of a
\* quality, ENCODE_CTYPE_QUALITY fills the last two.
FullOver(area, k) ==
  [b \in 1 .. FullSize |->
    LET f == (b - 1) \div 8
        i == b - 8 * f
    IN  IF i <= 4 THEN BigEndian(sample[k][f] % WordBase)[i]
        ELSE IF i <= 6 THEN area[b] ELSE 0]
DifferencesOver(area, k) ==
  LET bytes == DifferenceBytes(k) IN bytes \o SubSeq(area, Len(bytes) + 1, FullSize)

SampleOver(m, area, k) ==
  IF InFull(m, k) THEN FullOver(area, k) ELSE DifferencesOver(area, k)

\* data.data of ASDU k.
DataBytes(k) == SubSeq(data[k], 1, size[k])

--------------------------------------------------------------------------------
(* The encoders. *)

SAVPDU == 96
NOASDU == 128
SEQUENCEOFASDU == 162
ASDUTAG == 48
SVID == 128
SMPCNT == 130
CONFREV == 131
SMPSYNCH == 133
SEQUENCEOFDATA == 135

ASDUHeaderLength == (9 + 2) + (2 + 2) + (4 + 2) + (1 + 2)

\* Contents of that length with their tag and length.
ElementLength(len) == len + getLengthBytes(len) + 1

\* svASDULength, which looks at ASDU 0 only, and svASDULength_compress.
svASDULength == ASDUHeaderLength + ElementLength(size[0])
svASDULength_compress(k) ==
  (IF HasHeader(mode, k) THEN ASDUHeaderLength ELSE 0) + ElementLength(size[k])
ASDULength(k) ==
  IF mode = "NO_COMPRESSION" THEN svASDULength ELSE svASDULength_compress(k)

WholeASDU(k) == ElementLength(ASDULength(k))

\* As SeqLength_compress would be if it took all ASDUs for as long as the first,
\* which svSeqLength does.
SeqLengthOfFirst == NoASDU * WholeASDU(0)

svSeqLength == NoASDU * WholeASDU(0)
svSeqLength_compress == Total([i \in 1 .. NoASDU |-> WholeASDU(i - 1)])
SeqLength ==
  IF mode = "NO_COMPRESSION" THEN svSeqLength ELSE svSeqLength_compress

svAPDULength == ElementLength(SeqLength) + 3

\* svID, smpCnt, confRev and smpSynch; the characters of svID are all alike here.
HeaderBytes(k) ==
  <<SVID, 9>> \o [i \in 1 .. 9 |-> 48]
    \o <<SMPCNT, 2, (SmpCnt + k) \div 256, (SmpCnt + k) % 256>>
    \o <<CONFREV, 4, 0, 0, 0, 1>>
    \o <<SMPSYNCH, 1, 1>>

ASDUBytes(k) ==
  <<ASDUTAG>> \o encodeLength(ASDULength(k))
    \o (IF HasHeader(mode, k) THEN HeaderBytes(k) ELSE <<>>)
    \o <<SEQUENCEOFDATA>> \o encodeLength(size[k]) \o DataBytes(k)

\* The value of 'length' counts the two bytes of APPID before it.
PacketLength == ElementLength(svAPDULength) + 8

svEncodePacket ==
  <<PacketLength \div 256, PacketLength % 256, 0, 0, 0, 0>>
    \o <<SAVPDU>> \o encodeLength(svAPDULength)
    \o <<NOASDU, 1, NoASDU>>
    \o <<SEQUENCEOFASDU>> \o encodeLength(SeqLength)
    \o FlattenSeq([k \in 1 .. NoASDU |-> ASDUBytes(k - 1)])

--------------------------------------------------------------------------------
(* The decoders. *)

ByteAt(p) == IF p <= Len(packet) THEN packet[p] ELSE filler

\* The element at p: where its contents begin, and where it ends.
LengthField(p) == <<ByteAt(p + 1), ByteAt(p + 2), ByteAt(p + 3)>>
ContentsAt(p) == p + 1 + getLengthFieldSize(ByteAt(p + 1))
EndAt(p) == ContentsAt(p) + decodeLength(LengthField(p))

\* inputSize of decode_int32_t and decode_uint32_t.
MaxBytes == 4

\* As NumberOfBytes would be if it counted the bytes decode_uint32_t reads.
NumberOfBytesRead(p) ==
  LET last == {i \in 0 .. MaxBytes - 1 : ByteAt(p + i) < Flag} IN
    IF last = {} THEN MaxBytes ELSE 1 + Min(last)

\* decode_uint32_t at p: number_of_bytes is one more than the index of the byte
\* without the flag or, if there is none, than inputSize.
NumberOfBytes(p) ==
  LET last == {i \in 0 .. MaxBytes - 1 : ByteAt(p + i) < Flag} IN
    1 + (IF last = {} THEN MaxBytes ELSE Min(last))
Ungrouped(p) ==
  LET taken == Min({NumberOfBytes(p), MaxBytes})
      value[i \in 0 .. MaxBytes] ==
        IF i = 0 THEN 0
        ELSE Flag * value[i - 1] + (ByteAt(p + taken - i) % Flag)
  IN  value[taken]

\* Where decode_LE_IED_MUnn_PhsMeas1_compress finds the fields of a dataset at
\* p: measurements and qualities in turn, and the end.
FieldsAt(p) ==
  LET at[i \in 0 .. 16] ==
        IF i = 0 THEN p ELSE LET q == at[i - 1] IN q + NumberOfBytes(q)
  IN  at

\* Four bytes of a packet as a number.
WordAt(p) ==
  ((ByteAt(p) * ByteBase + ByteAt(p + 1)) * ByteBase + ByteAt(p + 2)) * ByteBase
    + ByteAt(p + 3)

\* As FullAt would be if it did not step over the qualities.
FullAtDense(p) == [f \in Measurements |-> Signed(WordAt(p + 4 * f))]

\* As QualitiesAt would be if it took the half that the encoder does not fill.
QualitiesAtUpper(p) == [f \in Measurements |-> WordAt(p + 8 * f + 2) % (ByteBase * ByteBase)]

\* decode_LE_IED_MUnn_PhsMeas1, measurements and qualities.
FullAt(p) == [f \in Measurements |-> Signed(WordAt(p + 8 * f))]
QualitiesAt(p) == [f \in Measurements |-> WordAt(p + 8 * f + 4)]

\* decode_LE_IED_MUnn_PhsMeas1_compress: the differences alone.
DifferencesAt(p) ==
  LET at == FieldsAt(p) IN
    [f \in Measurements |-> Signed(UnZigZag(Ungrouped(at[2 * f])))]
QualityDifferencesAt(p) ==
  LET at == FieldsAt(p) IN [f \in Measurements |-> Ungrouped(at[2 * f + 1])]

\* svDecodeDataset.
TakeFull(p) ==
  /\ decoded' = [decoded EXCEPT ![number] = FullAt(p)]
  /\ quality' = [quality EXCEPT ![number] = QualitiesAt(p)]

\* svDecodeDataset_compress for another sample than the first: its differences
\* are added to the sample before.
TakeDifferences(p) ==
  LET difference == DifferencesAt(p)
      qualityDifference == QualityDifferencesAt(p)
  IN  /\ decoded' = [decoded EXCEPT ![number] =
            [f \in Measurements |-> Signed(difference[f] + decoded[number - 1][f])]]
      /\ quality' = [quality EXCEPT ![number] =
            [f \in Measurements |->
               (qualityDifference[f] + quality[number - 1][f]) % WordBase]]

Zero == [f \in Measurements |-> 0]

\* svDecode, svDecode_compress: cuts out the frame header.
APDUStart == 7

SvInit ==
  /\ mode \in Modes
  /\ sample \in Samples
  /\ left \in BOOLEAN
  /\ data = [k \in Index |->
       IF left THEN SampleOver(OtherMode(mode), NoBytes, k) ELSE NoBytes]
  /\ read \in Modes
  /\ filler \in {0, Flag}
  /\ size = [k \in Index |-> 0]
  /\ packet = <<>>
  /\ pc = "update"
  /\ apdu = APDUStart
  /\ number = 0
  /\ total = 0
  /\ elem = 0
  /\ svID = FALSE
  /\ smpCnt = 0
  /\ decoded = [k \in Index |-> Zero]
  /\ quality = [k \in Index |-> Zero]
  /\ counted = 0

\* sv_update_... with the next sample; the last one completes the packet.
Update ==
  /\ pc = "update"
  /\ UNCHANGED <<chosen, apdu, total, elem, svID, smpCnt, decoded, quality, counted>>
  /\ data' = [data EXCEPT ![number] = SampleOver(mode, @, number)]
  /\ size' = [size EXCEPT ![number] =
                IF InFull(mode, number) THEN FullSize ELSE Len(DifferenceBytes(number))]
  /\ IF number + 1 = NoASDU
       THEN number' = 0 /\ packet' = svEncodePacket' /\ pc' = "apdu"
       ELSE number' = number + 1 /\ UNCHANGED <<packet, pc>>

\* SV_TAG_SAVPDU, SV_TAG_SEQUENCEOFASDU: go on inside.
Enter ==
  /\ pc = "apdu"
  /\ ByteAt(apdu) \in {SAVPDU, SEQUENCEOFASDU}
  /\ apdu' = ContentsAt(apdu)
  /\ UNCHANGED <<chosen, made, pc, number, total, elem, svID, smpCnt, decoded, quality, counted>>

\* SV_TAG_NOASDU: go on behind it.
TakeNumber ==
  /\ pc = "apdu"
  /\ ByteAt(apdu) = NOASDU
  /\ total' = ByteAt(ContentsAt(apdu))
  /\ apdu' = EndAt(apdu)
  /\ UNCHANGED <<chosen, made, pc, number, elem, svID, smpCnt, decoded, quality, counted>>

\* SV_TAG_ASDU: svDecodeASDU or svDecodeASDU_compress, with no svID yet.
EnterASDU ==
  /\ pc = "apdu"
  /\ ByteAt(apdu) = ASDUTAG
  /\ pc' = "asdu"
  /\ elem' = ContentsAt(apdu)
  /\ svID' = FALSE
  /\ smpCnt' = IF read = "NO_COMPRESSION" THEN 0 ELSE -1
  /\ UNCHANGED <<chosen, made, apdu, number, total, decoded, quality, counted>>

\* One turn of the loop of svDecodeASDU.  The svID of the packet is the one that
\* svDecodeDataset asks for.
Field(TakeDataset(_)) ==
  /\ pc = "asdu"
  /\ elem < EndAt(apdu)
  /\ svID' = (svID \/ ByteAt(elem) = SVID)
  /\ smpCnt' = IF ByteAt(elem) = SMPCNT
                 THEN ByteAt(ContentsAt(elem)) * 256 + ByteAt(ContentsAt(elem) + 1)
                 ELSE smpCnt
  /\ IF ByteAt(elem) = SEQUENCEOFDATA /\ svID
       THEN /\ TakeDataset(ContentsAt(elem))
            /\ counted' = smpCnt
       ELSE UNCHANGED <<decoded, quality, counted>>
  /\ elem' = EndAt(elem)
  /\ UNCHANGED <<chosen, made, pc, apdu, number, total>>

\* svDecodeASDU and, for the first sample and the others, svDecodeASDU_compress.
PlainField == read = "NO_COMPRESSION" /\ Field(TakeFull)
FirstField == read = "COMPRESSION" /\ number = 0 /\ Field(TakeFull)
DifferenceField == read = "COMPRESSION" /\ number > 0 /\ Field(TakeDifferences)

\* The end of svDecodeASDU: the next one, until the number announced.
LeaveASDU ==
  /\ pc = "asdu"
  /\ elem >= EndAt(apdu)
  /\ number' = number + 1
  /\ IF number + 1 < total
       THEN pc' = "apdu" /\ apdu' = EndAt(apdu)
       ELSE pc' = "done" /\ UNCHANGED apdu
  /\ UNCHANGED <<chosen, made, total, elem, svID, smpCnt, decoded, quality, counted>>

\* svDecodeAPDU and svDecodeAPDU_compress, which do the same but for the fields.
\* Their default case, no such tag, has no action: by LengthsAgree they never meet
\* one.
SvNext ==
  \/ Update
  \/ Enter
  \/ TakeNumber
  \/ EnterASDU
  \/ PlainField
  \/ FirstField
  \/ DifferenceField
  \/ LeaveASDU

SvSpec == SvInit /\ [][SvNext]_svVars

--------------------------------------------------------------------------------
(* Properties. *)

(* The lengths that the encoder computes from the sizes of the datasets,    *)
(* their own one to three bytes included, are those of what it writes: the  *)
(* decoder only ever stands on an element of its kind, in the end has seen  *)
(* every ASDU and the whole packet, and 'length' is that of the frame.      *)
LengthsAgree ==
  /\ pc = "apdu" => ByteAt(apdu) \in {SAVPDU, NOASDU, SEQUENCEOFASDU, ASDUTAG}
  /\ pc = "asdu" /\ elem # EndAt(apdu) =>
       /\ elem < EndAt(apdu)
       /\ ByteAt(elem) \in {SVID, SMPCNT, CONFREV, SMPSYNCH, SEQUENCEOFDATA}
  /\ pc = "done" => number = NoASDU /\ EndAt(apdu) = Len(packet) + 1
  /\ pc # "update" => packet[1] * 256 + packet[2] = Len(packet) + 2

(* Reading a dataset of differences as such consumes it to its last byte,   *)
(* however many bytes its numbers take, and gives the differences that were *)
(* put in as long as they fit into MaxBytes bytes.                          *)
DifferencesDecode ==
  pc = "asdu" /\ ByteAt(elem) = SEQUENCEOFDATA /\ ~InFull(mode, number) =>
    /\ FieldsAt(ContentsAt(elem))[16] = EndAt(elem)
    /\ LET difference == DifferencesAt(ContentsAt(elem)) IN
         \A f \in Measurements :
           LET d == Difference(number, f) IN
             ZigZag(d) < Flag * Flag * Flag * Flag => difference[f] = d

(* What is decoded is what SvTiming takes it to be, in all four combinations *)
(* of encoder and decoder; and the sample count that is kept is that of the  *)
(* last sample that was decoded.                                             *)
DecodesAsModelled ==
  pc = "done" =>
    /\ \A k \in Index, f \in Measurements :
         decoded[k][f] = DecodedSample(read, k, HasHeader(mode, k), InFull(mode, k),
                                 sample[k][f], 0, decoded[k][f])
    /\ counted = SmpCnt + Max({k \in Index : HasHeader(mode, k)})

(* A decoded quality has in its lower half what was sent.  So has its upper  *)
(* half as long as the sender never compressed: after that, a sample in full *)
(* keeps there the bytes of a difference that were in its ASDU before, and   *)
(* only the first sample of a packet is safe from them.                      *)
QualitiesDecode ==
  pc = "done" /\ read = mode =>
    \A k \in Index, f \in Measurements :
      LET upper == quality[k][f] \div (ByteBase * ByteBase)
          before == DifferencesOver(NoBytes, k)
      IN  /\ quality[k][f] % (ByteBase * ByteBase) = 0
          /\ upper # 0 =>
               /\ mode = "NO_COMPRESSION" /\ left /\ k > 0
               /\ upper = before[8 * f + 5] * ByteBase + before[8 * f + 6]

================================================================================
