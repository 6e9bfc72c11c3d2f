--------------------------------- MODULE Ber ----------------------------------
(***************************************************************************)
(* Bytes on the wire and in memory: byte order, the variable length        *)
(* integers of ctypes.c, and the length fields of encodePacket.c and       *)
(* decodePacket.c.                                                         *)
(*                                                                         *)
(* A number is the sequence of its bytes in memory, the lowest first, as   *)
(* the processor keeps it (LITTLE_ENDIAN); its sign bit is the top one of  *)
(* the last byte.  A function that fills a buffer and returns how many     *)
(* bytes it used is the sequence of these bytes; one that reads from a     *)
(* buffer takes the bytes from there on, at least as many as it looks at.  *)
(***************************************************************************)
EXTENDS Integers, Sequences

Byte == 0 .. 255

\* netmemcpy, in both directions: the bytes in reverse.
netmemcpy(v) == [i \in 1 .. Len(v) |-> v[Len(v) + 1 - i]]

--------------------------------------------------------------------------------
(* Integers. *)

\* b & 0x80.
Negative(b) == b >= 128

\* Byte i only repeats the sign of the next one.
Superfluous(buf, i) ==
  \/ buf[i] = 0 /\ ~Negative(buf[i + 1])
  \/ buf[i] = 255 /\ Negative(buf[i + 1])

\* Where the loop over the superfluous leading bytes stops, at the last byte at
\* the latest.
Shift(buf) ==
  CHOOSE s \in 0 .. Len(buf) - 1 :
    /\ \A i \in 1 .. s : Superfluous(buf, i)
    /\ s = Len(buf) - 1 \/ ~Superfluous(buf, s + 1)

ber_integer_length(value) == Len(value) - Shift(netmemcpy(value))

ber_encode_integer(value) ==
  LET buf == netmemcpy(value) IN SubSeq(buf, Shift(buf) + 1, Len(buf))

\* As ber_decode_integer would be if it padded with zeros.
DecodeUnsigned(buf, length, maxLength) ==
  netmemcpy([i \in 1 .. maxLength |->
    IF i + length <= maxLength THEN 0 ELSE buf[i - (maxLength - length)]])

\* The byte of the sign, to pad with.
Padding(b) == IF Negative(b) THEN 255 ELSE 0

\* length bytes of buf as a number of maxLength bytes: padded in front with its
\* sign or, if there are too many, the last of them.
ber_decode_integer(buf, length, maxLength) ==
  netmemcpy([i \in 1 .. maxLength |->
    IF i + length <= maxLength THEN Padding(buf[1])
                               ELSE buf[i - (maxLength - length)]])

--------------------------------------------------------------------------------
(* Lengths. *)

getLengthBytes(len) == IF len <= 126 THEN 1 ELSE IF len <= 255 THEN 2 ELSE 3

\* len of what computes a length, after its last +=.
Total(lengths) ==
  LET sum[i \in 0 .. Len(lengths)] == IF i = 0 THEN 0 ELSE sum[i - 1] + lengths[i]
  IN  sum[Len(lengths)]

encodeLength(len) ==
  IF len <= 126 THEN <<len>>
  ELSE IF len <= 255 THEN <<129, len>>
  ELSE <<130, (len \div 256) % 256, len % 256>>

getLengthFieldSize(byte) == IF byte <= 126 THEN 1 ELSE 1 + (byte % 128)

decodeLength(buf) ==
  IF buf[1] <= 126 THEN buf[1]
  ELSE IF buf[1] % 128 = 1 THEN buf[2]
  ELSE IF buf[1] % 128 = 2 THEN buf[2] * 256 + buf[3]
  ELSE 0
================================================================================
