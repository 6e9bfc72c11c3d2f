------------------------------ MODULE GoosePacket ------------------------------
(***************************************************************************)
(* A GOOSE packet, written by gseEncodePacket.c and read by                *)
(* gseDecodePacket.c behind the filter of ctypes.c.                        *)
(*                                                                         *)
(* The encoder announces lengths before it writes; the decoder walks from  *)
(* tag to tag with no end but the tag of allData, over a buffer that may   *)
(* hold anything behind the packet.                                        *)
(***************************************************************************)
EXTENDS BasicTypes

CONSTANTS
  Controls,     \* the control blocks gseControl to choose from
  Junk          \* the bytes that may lie behind a packet

Halfword == {n \in Nat : n < 256 * 256}

\* The encoder writes the length of a name in one byte.
Names == {s \in Seq(Byte) : Len(s) <= 126}

GseControl ==
  [destMACAddress : Octets(6), APPID : Halfword,
   gocbRef : Names, timeAllowedToLive : Octets(4), datSet : Names, goID : Names,
   t : Octets(8), stNum : Octets(4), sqNum : Octets(4), test : Octets(1),
   confRev : Octets(4), ndsCom : Octets(1), numDatSetEntries : Octets(4)]

ASSUME PacketAssumption == Controls \subseteq GseControl /\ Junk \subseteq Byte

VARIABLES
  gse,      \* the gseControl that is sent
  rest,     \* the byte the receive buffer is filled with behind the packet
  frame,    \* the bytes written
  at,       \* "encode", "filter", "pdu" in gseDecodePDU, "svDecode", "end"
  pos,      \* buf of gseDecodePDU
  locals    \* what it keeps of the packet, gocbRef as position and length

packetVars == <<gse, rest, frame, at, pos, locals>>

--------------------------------------------------------------------------------
(* The encoder. *)

ASN1_TAG_SEQUENCE == 97
GSE_TAG_GOCBREF == 128
GSE_TAG_TIME_ALLOWED_TO_LIVE == 129
GSE_TAG_DATSET == 130
GSE_TAG_GOID == 131
GSE_TAG_T == 132
GSE_TAG_STNUM == 133
GSE_TAG_SQNUM == 134
GSE_TAG_SIMULATION == 135
GSE_TAG_CONFREV == 136
GSE_TAG_NDSCOM == 137
GSE_TAG_NUMDATSETENTRIES == 138
GSE_TAG_ALLDATA == 171

LOCAL_MAC_ADDRESS == <<1, 12, 205, 1, 0, 2>>

\* size + getLengthBytes(size) + 1, of a name and of a number.
Whole(size) == size + getLengthBytes(size) + 1
WholeName(string) == Whole(Len(string))
WholeNumber(value) == Whole(BER_GET_LENGTH("INT32U", value))

\* The last one counts twice: size is still that when that of allData should be
\* added.
getGseHeaderLength ==
  WholeName(gse.gocbRef) + WholeNumber(gse.timeAllowedToLive)
    + WholeName(gse.datSet) + WholeName(gse.goID)
    + Whole(BER_GET_LENGTH("TIMESTAMP", gse.t))
    + WholeNumber(gse.stNum) + WholeNumber(gse.sqNum)
    + Whole(BER_GET_LENGTH("BOOLEAN", gse.test)) + WholeNumber(gse.confRev)
    + Whole(BER_GET_LENGTH("BOOLEAN", gse.ndsCom)) + WholeNumber(gse.numDatSetEntries)
    + WholeNumber(gse.numDatSetEntries)

Name(tag, string) == <<tag, Len(string)>> \o string
Number(tag, value) ==
  <<tag>> \o encodeLength(ber_integer_length(value)) \o ber_encode_integer(value)

TwoBytesOf(n) == <<n \div 256, n % 256>>

gseEncodePacket ==
  LET ADPULength == getGseHeaderLength
      len == ADPULength + 9 + getLengthBytes(ADPULength)
  IN  gse.destMACAddress \o LOCAL_MAC_ADDRESS
        \o <<129, 0>> \o <<128, 0>>     \* VLAN tag, priority 4
        \o <<136, 184>> \o TwoBytesOf(gse.APPID) \o TwoBytesOf(len) \o Zeros(4)
        \o <<ASN1_TAG_SEQUENCE>> \o encodeLength(ADPULength)
        \o Name(GSE_TAG_GOCBREF, gse.gocbRef)
        \o Number(GSE_TAG_TIME_ALLOWED_TO_LIVE, gse.timeAllowedToLive)
        \o Name(GSE_TAG_DATSET, gse.datSet)
        \o Name(GSE_TAG_GOID, gse.goID)
        \o <<GSE_TAG_T>> \o encodeLength(8) \o gse.t
        \o Number(GSE_TAG_STNUM, gse.stNum)
        \o Number(GSE_TAG_SQNUM, gse.sqNum)
        \o Number(GSE_TAG_SIMULATION, gse.test)
        \o Number(GSE_TAG_CONFREV, gse.confRev)
        \o Number(GSE_TAG_NDSCOM, gse.ndsCom)
        \o Number(GSE_TAG_NUMDATSETENTRIES, gse.numDatSetEntries)
        \o <<GSE_TAG_ALLDATA>>

--------------------------------------------------------------------------------
(* States. *)

NoPacket == [destMACAddress |-> Zeros(6)]
NothingRead ==
  [gocbRef |-> 0, gocbRefLength |-> 0, timeAllowedToLive |-> Zeros(4),
   T |-> Zeros(8), stNum |-> Zeros(4), sqNum |-> Zeros(4)]

\* Any control block that has been filled in.
PacketInit ==
  /\ gse \in Controls
  /\ rest \in Junk
  /\ frame = <<>>
  /\ at = "encode"
  /\ pos = 0
  /\ locals = NothingRead

EncodePacket ==
  /\ at = "encode"
  /\ frame' = gseEncodePacket
  /\ at' = "filter"
  /\ UNCHANGED <<gse, rest, pos, locals>>

--------------------------------------------------------------------------------
(* The decoder. *)

\* The buffer from p on, the packet and the bytes behind it.
From(p) == SubSeq(frame, p, Len(frame)) \o [i \in 1 .. 8 |-> rest]

Inside(p) == p + 1 + getLengthFieldSize(From(p)[2])
LengthValue(p) == decodeLength(Rest(From(p), 1))
Behind(p) == Inside(p) + LengthValue(p)

\* gse_sv_packet_filter, and gseDecode: by the destination, and behind the
\* frame header with or without a VLAN tag.
gse_sv_packet_filter ==
  LET destination == SubSeq(frame, 1, 4) IN
    /\ at = "filter"
    /\ CASE destination = <<1, 12, 205, 1>> ->
              /\ at' = "pdu"
              /\ pos' = 1 + (IF frame[13] = 129 /\ frame[14] = 0 THEN 26 ELSE 22)
         [] destination = <<1, 12, 205, 4>> -> at' = "svDecode" /\ UNCHANGED pos
         [] OTHER -> at' = "end" /\ UNCHANGED pos
    /\ UNCHANGED <<gse, rest, frame, locals>>

\* One turn of the loop of gseDecodePDU, at an element with this tag: keep what
\* it says and go on behind it.
Take(tag, kept) ==
  /\ at = "pdu"
  /\ From(pos)[1] = tag
  /\ locals' = kept
  /\ pos' = Behind(pos)
  /\ UNCHANGED <<gse, rest, frame, at>>

NumberAt(p) == ber_decode_integer(Rest(From(p), Inside(p) - p), LengthValue(p), 4)

TakeGocbRef ==
  Take(GSE_TAG_GOCBREF,
       [locals EXCEPT !.gocbRef = Inside(pos), !.gocbRefLength = LengthValue(pos)])
TakeTimeAllowedToLive ==
  Take(GSE_TAG_TIME_ALLOWED_TO_LIVE, [locals EXCEPT !.timeAllowedToLive = NumberAt(pos)])
TakeT ==
  Take(GSE_TAG_T, [locals EXCEPT !.T = SubSeq(From(pos), Inside(pos) - pos + 1,
                                              Inside(pos) - pos + 8)])
TakeStNum == Take(GSE_TAG_STNUM, [locals EXCEPT !.stNum = NumberAt(pos)])
TakeSqNum == Take(GSE_TAG_SQNUM, [locals EXCEPT !.sqNum = NumberAt(pos)])

\* As EnterSequence would be if it went on behind the sequence.
SkipSequence == Take(ASN1_TAG_SEQUENCE, locals)

EnterSequence ==
  /\ at = "pdu"
  /\ From(pos)[1] = ASN1_TAG_SEQUENCE
  /\ pos' = Inside(pos)
  /\ UNCHANGED <<gse, rest, frame, at, locals>>

\* GSE_TAG_DATSET, and those with no case of their own.
Skip ==
  \E tag \in Byte \ {GSE_TAG_GOCBREF, GSE_TAG_TIME_ALLOWED_TO_LIVE, ASN1_TAG_SEQUENCE,
                     GSE_TAG_T, GSE_TAG_STNUM, GSE_TAG_SQNUM, GSE_TAG_ALLDATA} :
    Take(tag, locals)

\* gseDecodeDataset, which does nothing with what it is given.
TakeAllData ==
  /\ at = "pdu"
  /\ From(pos)[1] = GSE_TAG_ALLDATA
  /\ at' = "end"
  /\ UNCHANGED <<gse, rest, frame, pos, locals>>

gseDecodePDU ==
  \/ TakeGocbRef
  \/ TakeTimeAllowedToLive
  \/ EnterSequence
  \/ TakeT
  \/ TakeStNum
  \/ TakeSqNum
  \/ Skip
  \/ TakeAllData

PacketNext ==
  \/ EncodePacket
  \/ gse_sv_packet_filter
  \/ gseDecodePDU

--------------------------------------------------------------------------------
(* Properties. *)

(* Both lengths that a packet announces are those of what is written, but   *)
(* for the number of its dataset entries, which they count once again, and  *)
(* a byte for the length of allData, which is not there.                    *)
PacketLengths ==
  frame # <<>> =>
    LET missing == BER_GET_LENGTH("INT32U", gse.numDatSetEntries) + 1 IN
      /\ Behind(27) = Len(frame) + 1 + missing
      /\ frame[21] * 256 + frame[22] = Len(frame) - 18 + missing

\* The destination is that of GOOSE messages.
IsGoose == SubSeq(gse.destMACAddress, 1, 4) = <<1, 12, 205, 1>>

(* The walk through a packet, whatever lies behind it, never leaves it: it  *)
(* ends at its last byte, the tag of allData, whose length it would have to *)
(* read from behind, and by then has found what was sent; and a frame for   *)
(* any other destination is not walked through.                             *)
GooseDecodes ==
  /\ at = "pdu" => pos <= Len(frame)
  /\ at = "end" /\ IsGoose =>
       /\ pos = Len(frame)
       /\ SubSeq(frame, locals.gocbRef, locals.gocbRef + locals.gocbRefLength - 1)
            = gse.gocbRef
       /\ locals.timeAllowedToLive = gse.timeAllowedToLive
       /\ locals.T = gse.t
       /\ locals.stNum = gse.stNum
       /\ locals.sqNum = gse.sqNum
  /\ ~IsGoose => locals = NothingRead
================================================================================
