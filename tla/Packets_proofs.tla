------------------------------ MODULE Packets_proofs ---------------------------
(***************************************************************************)
(* What the coders of GOOSE and of Sampled Values write is what their      *)
(* decoders read: the invariants of Goose and of SvPacket.  They are in    *)
(* one module because they rest on the same lemmas about bytes, lengths,   *)
(* sums and sequences put together.                                        *)
(*                                                                         *)
(* Goose, for every value of every type, every control block (with names   *)
(* of any letters up to 126 bytes), and whatever was in the buffers: a     *)
(* value that is encoded and decoded arrives part by part as it should, by *)
(* BER and plain; every length that is announced is that of what is        *)
(* written; and the walk through a GOOSE packet ends on its last byte and  *)
(* has found what was sent.                                                *)
(*                                                                         *)
(* From the bottom up: what ber_encode_integer writes is as long as        *)
(* ber_integer_length says, has no superfluous byte in front, and gives a  *)
(* number of any size back when it is decoded; a length field says the     *)
(* length and its own size; an element is read from its place in a packet, *)
(* a value of a basic type from wherever it begins; and decoders that are  *)
(* called in turn, each of which reads its own part whatever is behind it, *)
(* read all the parts.  The last one is used at both levels of the data    *)
(* model.                                                                  *)
(*                                                                         *)
(* SvPacket, for up to 127 samples with any measurements, in all four      *)
(* combinations of encoder and decoder.  From the bottom up: a number in   *)
(* groups of bits is read back if it fits into four bytes, and stepped     *)
(* over in any case; the areas of the datasets have what was put there and *)
(* what was there before; and a packet is laid out (Laid) as its lengths   *)
(* announce, so that the decoder always stands on an element (Decoding)    *)
(* and has decoded what lies before it (Got).                              *)
(***************************************************************************)
EXTENDS Goose, SvPacket, SequenceTheorems, WellFoundedInduction, TLAPS

--------------------------------------------------------------------------------
(* Integers and lengths. *)

(* A set of natural numbers that is not empty has a least element. *)
LEMMA LeastNumber ==
  ASSUME NEW T \in SUBSET Nat, T # {}
  PROVE  \E x \in T : \A y \in T : x <= y
<1> DEFINE R == OpToRel(<, Nat)
<1>1. IsWellFoundedOn(R, Nat)
  BY NatLessThanWellFounded
<1>2. \A x, y \in Nat : y < x => <<y, x>> \in R
  BY DEF OpToRel
<1> HIDE DEF R
<1>3. PICK x \in T : \A y \in T : ~ (<<y, x>> \in R)
  BY <1>1, WFMin
<1>4. \A y \in T : x <= y
  <2> TAKE y \in T
  <2>1. x \in Nat /\ y \in Nat
    BY <1>3
  <2>2. ~ (y < x)
    BY <1>2, <1>3, <2>1, Zenon
  <2> QED  BY <2>1, <2>2
<1> QED  BY <1>4

(* netmemcpy keeps bytes and their number, and undoes itself. *)
LEMMA NetmemcpyTwice ==
  ASSUME NEW v \in Seq(Byte)
  PROVE  /\ netmemcpy(v) \in Seq(Byte)
         /\ Len(netmemcpy(v)) = Len(v)
         /\ netmemcpy(netmemcpy(v)) = v
<1> DEFINE n == Len(v)
           r == netmemcpy(v)
<1>1. n \in Nat /\ v \in [1 .. n -> Byte]
  OBVIOUS
<1>2. r = [i \in 1 .. n |-> v[n + 1 - i]]
  BY DEF netmemcpy
<1>3. r \in [1 .. n -> Byte]
  <2>1. \A i \in 1 .. n : n + 1 - i \in 1 .. n
    BY <1>1
  <2> QED  BY <1>1, <1>2, <2>1
<1>4. r \in Seq(Byte) /\ Len(r) = n
  BY <1>1, <1>3
<1>5. netmemcpy(r) = [i \in 1 .. n |-> r[n + 1 - i]]
  BY <1>4 DEF netmemcpy
<1>6. \A i \in 1 .. n : r[n + 1 - i] = v[i]
  <2> TAKE i \in 1 .. n
  <2>1. n + 1 - i \in 1 .. n /\ n + 1 - (n + 1 - i) = i
    BY <1>1
  <2> QED  BY <1>2, <2>1
<1>7. netmemcpy(r) = v
  BY <1>1, <1>5, <1>6
<1> QED  BY <1>4, <1>7

(* The loop over the leading bytes stops at a byte before the last that is  *)
(* not superfluous, or at the last one, and passed superfluous ones only.   *)
LEMMA ShiftStops ==
  ASSUME NEW buf \in Seq(Byte), Len(buf) > 0
  PROVE  /\ Shift(buf) \in 0 .. Len(buf) - 1
         /\ \A i \in 1 .. Shift(buf) : Superfluous(buf, i)
         /\ Shift(buf) = Len(buf) - 1 \/ ~Superfluous(buf, Shift(buf) + 1)
<1> DEFINE n == Len(buf)
           Stops(s) == s = n - 1 \/ ~Superfluous(buf, s + 1)
           T == {s \in 0 .. n - 1 : Stops(s)}
<1>1. n \in Nat /\ n > 0
  OBVIOUS
<1>2. T \in SUBSET Nat /\ n - 1 \in T
  BY <1>1
<1>3. PICK s \in T : \A y \in T : s <= y
  BY <1>2, LeastNumber
<1>4. \A i \in 1 .. s : Superfluous(buf, i)
  <2> SUFFICES ASSUME NEW i \in 1 .. s, ~Superfluous(buf, i)
               PROVE  FALSE
    OBVIOUS
  <2>1. s \in 0 .. n - 1
    BY <1>3
  <2>2. i - 1 \in 0 .. n - 1 /\ (i - 1) + 1 = i
    BY <1>1, <2>1
  <2>3. i - 1 \in T
    BY <2>2
  <2>4. s <= i - 1
    BY <1>3, <2>3
  <2> QED  BY <2>1, <2>4
<1>5. s \in 0 .. n - 1 /\ Stops(s)
  BY <1>3
<1>6. \E k \in 0 .. n - 1 : (\A i \in 1 .. k : Superfluous(buf, i)) /\ Stops(k)
  BY <1>4, <1>5
<1> QED  BY <1>6 DEF Shift

(* The bytes that are left out repeat the sign of the first that is kept. *)
LEMMA SkippedIsPadding ==
  ASSUME NEW buf \in Seq(Byte), Len(buf) > 0
  PROVE  \A i \in 1 .. Shift(buf) : buf[i] = Padding(buf[Shift(buf) + 1])
<1> DEFINE n == Len(buf)
           s == Shift(buf)
           pad == Padding(buf[s + 1])
           Wrong == {i \in 1 .. s : buf[i] # pad}
           T == {s - i : i \in Wrong}
<1>1. n \in Nat /\ s \in 0 .. n - 1 /\ \A i \in 1 .. s : Superfluous(buf, i)
  BY ShiftStops
<1>2. \A i \in 1 .. n : buf[i] \in Byte
  OBVIOUS
<1> HIDE DEF s, n
<1>3. ASSUME Wrong # {}
      PROVE  FALSE
  <2>1. T \in SUBSET Nat /\ T # {}
    BY <1>1, <1>3
  <2>2. PICK x \in T : \A y \in T : x <= y
    <3> HIDE DEF T
    <3> QED  BY <2>1, LeastNumber
  <2>3. PICK i \in Wrong : x = s - i
    BY <2>2
  <2>4. i \in 1 .. s /\ i + 1 \in 1 .. n /\ i \in 1 .. n /\ Superfluous(buf, i)
    BY <1>1, <2>3
  <2>5. buf[i] = Padding(buf[i + 1])
    BY <2>4 DEF Superfluous, Padding
  <2>6. CASE i = s
    BY <2>3, <2>5, <2>6
  <2>7. CASE i # s
    <3>1. i + 1 \in 1 .. s
      BY <1>1, <2>4, <2>7
    <3>2. buf[i + 1] = pad
      <4> SUFFICES ASSUME buf[i + 1] # pad PROVE FALSE
        OBVIOUS
      <4>1. s - (i + 1) \in T
        BY <3>1
      <4>2. s - i <= s - (i + 1)
        BY <2>2, <2>3, <4>1
      <4> QED  BY <1>1, <2>4, <4>2
    <3>3. pad \in {0, 255} /\ Padding(pad) = pad
      BY DEF Padding, Negative
    <3> QED  BY <2>3, <2>5, <3>2, <3>3
  <2> QED  BY <2>6, <2>7
<1> QED  BY <1>3 DEF s

(* What was encoded gives the number back, with no byte in front that only  *)
(* repeats the sign, and in as many bytes as the length announced.          *)
THEOREM IntegerComesBack ==
  ASSUME NEW value \in Seq(Byte), Len(value) > 0,
         NEW behind \in Seq(Byte)
  PROVE  LET c == ber_encode_integer(value)
             length == ber_integer_length(value)
         IN  /\ length \in 1 .. Len(value)
             /\ Len(c) = length
             /\ length > 1 => ~Superfluous(c, 1)
             /\ ber_decode_integer(c \o behind, length, Len(value)) = value
<1> DEFINE n == Len(value)
           b == netmemcpy(value)
           s == Shift(b)
           c == SubSeq(b, s + 1, n)
           buf == c \o behind
<1>1. /\ n \in Nat /\ n > 0
      /\ b \in Seq(Byte) /\ Len(b) = n /\ netmemcpy(b) = value
  BY NetmemcpyTwice
<1>2. /\ s \in 0 .. n - 1
      /\ s = n - 1 \/ ~Superfluous(b, s + 1)
      /\ \A i \in 1 .. s : b[i] = Padding(b[s + 1])
  BY <1>1, ShiftStops, SkippedIsPadding
<1>3. ber_integer_length(value) = n - s /\ ber_encode_integer(value) = c
  BY <1>1 DEF ber_integer_length, ber_encode_integer
<1> HIDE DEF n, s, b
<1>4. /\ c \in Seq(Byte) /\ Len(c) = n - s
      /\ \A i \in 1 .. n - s : c[i] = b[s + i]
  BY <1>1, <1>2
<1>5. n - s > 1 => ~Superfluous(c, 1)
  <2> SUFFICES ASSUME n - s > 1 PROVE ~Superfluous(c, 1)
    OBVIOUS
  <2>1. c[1] = b[s + 1] /\ c[1 + 1] = b[(s + 1) + 1]
    BY <1>1, <1>2, <1>4
  <2>2. ~Superfluous(b, s + 1)
    BY <1>1, <1>2
  <2> QED  BY <2>1, <2>2 DEF Superfluous
<1> HIDE DEF c
<1>6. \A i \in 1 .. n - s : buf[i] = b[s + i]
  BY <1>1, <1>2, <1>4
<1>7. ber_decode_integer(buf, n - s, n) = value
  <2> DEFINE e == [i \in 1 .. n |-> IF i + (n - s) <= n THEN Padding(buf[1])
                                    ELSE buf[i - (n - (n - s))]]
  <2>1. \A i \in 1 .. n : e[i] = b[i]
    <3> TAKE i \in 1 .. n
    <3>1. CASE i <= s
      <4>1. i \in 1 .. s /\ i + (n - s) <= n
        BY <1>1, <1>2, <3>1
      <4>2. buf[1] = b[s + 1]
        <5>1. 1 \in 1 .. n - s
          BY <1>1, <1>2
        <5> QED  BY <1>6, <5>1
      <4>3. b[i] = Padding(b[s + 1])
        BY <1>2, <4>1
      <4> QED  BY <4>1, <4>2, <4>3
    <3>2. CASE ~(i <= s)
      <4>1. ~(i + (n - s) <= n) /\ i - (n - (n - s)) = i - s
        BY <1>1, <1>2, <3>2
      <4>2. i - s \in 1 .. n - s /\ s + (i - s) = i
        BY <1>1, <1>2, <3>2
      <4>3. buf[i - s] = b[i]
        BY <1>6, <4>2
      <4> QED  BY <4>1, <4>3
    <3> QED  BY <3>1, <3>2
  <2>2. e = b
    <3>1. b \in [1 .. n -> Byte]
      BY <1>1
    <3> QED  BY <2>1, <3>1
  <2> QED  BY <1>1, <2>2 DEF ber_decode_integer
<1> QED  BY <1>1, <1>2, <1>3, <1>4, <1>5, <1>7 DEF n

(* Division by 256, of a number of two bytes and of one byte. *)
LEMMA QuotientOfByte ==
  ASSUME NEW n \in Nat, n < 256 * 256, NEW q \in Int, NEW r \in 0 .. 255,
         q * 256 + r = n
  PROVE  q \in 0 .. 255
<1>1. r \in Int /\ 0 <= r /\ r <= 255 /\ 0 <= n
  OBVIOUS
<1>2. q >= 0
  BY <1>1
<1>3. q <= 255
  BY <1>1
<1> QED  BY <1>2, <1>3

LEMMA TwoBytes ==
  ASSUME NEW len \in Nat, len < 256 * 256
  PROVE  /\ len \div 256 \in 0 .. 255
         /\ len % 256 \in 0 .. 255
         /\ (len \div 256) % 256 = len \div 256
         /\ (len \div 256) * 256 + (len % 256) = len
<1> DEFINE q == len \div 256
           r == len % 256
<1>1. q \in Int /\ r \in 0 .. 255 /\ q * 256 + r = len
  OBVIOUS
<1> HIDE DEF q, r
<1>2. q \in 0 .. 255
  BY <1>1, QuotientOfByte
<1>3. q \div 256 \in Int /\ q % 256 \in 0 .. 255 /\ (q \div 256) * 256 + (q % 256) = q
  BY <1>2
<1>4. q % 256 = q
  <2> DEFINE d == q \div 256
             m == q % 256
  <2> HIDE DEF d, m
  <2>1. d \in Int /\ m \in 0 .. 255 /\ d * 256 + m = q
    BY <1>3 DEF d, m
  <2>2. d = 0
    BY <1>2, <2>1
  <2> QED  BY <1>2, <2>1, <2>2 DEF m
<1> QED  BY <1>1, <1>2, <1>4 DEF q, r

(* A length field of up to three bytes says the length that was encoded and *)
(* its own size, whatever comes behind it.                                  *)
THEOREM LengthComesBack ==
  ASSUME NEW len \in Nat, len < 256 * 256,
         NEW behind \in Seq(Byte)
  PROVE  LET buf == encodeLength(len) \o behind
         IN  /\ Len(encodeLength(len)) = getLengthBytes(len)
             /\ getLengthFieldSize(buf[1]) = getLengthBytes(len)
             /\ decodeLength(buf) = len
<1> DEFINE high == (len \div 256) % 256
           low == len % 256
           one == <<len>>
           two == <<129, len>>
           three == <<130, high, low>>
           f == encodeLength(len)
           buf == f \o behind
<1>1. f = IF len <= 126 THEN one ELSE IF len <= 255 THEN two ELSE three
  BY DEF encodeLength
<1>2. high \in 0 .. 255 /\ low \in 0 .. 255 /\ high * 256 + low = len
  <2>1. (len \div 256) % 256 \in 0 .. 255
    BY TwoBytes
  <2>2. len % 256 \in 0 .. 255
    BY TwoBytes
  <2>3. ((len \div 256) % 256) * 256 + (len % 256) = len
    BY TwoBytes
  <2> QED  BY <2>1, <2>2, <2>3
<1> HIDE DEF high, low
<1>3. one \in Seq(Int) /\ two \in Seq(Int) /\ three \in Seq(Int)
  BY <1>2
<1> SUFFICES /\ Len(f) = getLengthBytes(len)
             /\ getLengthFieldSize(buf[1]) = getLengthBytes(len)
             /\ decodeLength(buf) = len
  OBVIOUS
<1>4. CASE len <= 126
  <2>1. f = one
    <3> HIDE DEF f, one, two, three
    <3> QED  BY <1>1, <1>4
  <2>2. buf[1] = len /\ Len(f) = 1
    <3> HIDE DEF f
    <3> QED  BY <2>1
  <2> HIDE DEF buf, f
  <2>3. decodeLength(buf) = len /\ getLengthFieldSize(buf[1]) = 1
    BY <1>4, <2>2 DEF getLengthFieldSize, decodeLength
  <2> QED  BY <1>4, <2>2, <2>3 DEF getLengthBytes
<1>5. CASE 126 < len /\ len <= 255
  <2>1. f = two
    <3> HIDE DEF f, one, two, three
    <3> QED  BY <1>1, <1>5
  <2>2. buf[1] = 129 /\ buf[2] = len /\ Len(f) = 2
    <3> HIDE DEF f
    <3> QED  BY <2>1
  <2>3. 129 % 128 = 1
    OBVIOUS
  <2> HIDE DEF buf, f
  <2>4. decodeLength(buf) = len /\ getLengthFieldSize(buf[1]) = 2
    BY <2>2, <2>3 DEF getLengthFieldSize, decodeLength
  <2> QED  BY <1>5, <2>2, <2>4 DEF getLengthBytes
<1>6. CASE 255 < len
  <2>1. f = three
    <3> HIDE DEF f, one, two, three
    <3> QED  BY <1>1, <1>6
  <2>2. buf[1] = 130 /\ buf[2] = high /\ buf[3] = low /\ Len(f) = 3
    <3> HIDE DEF f
    <3> QED  BY <2>1
  <2>3. 130 % 128 = 2
    OBVIOUS
  <2> HIDE DEF buf, f
  <2>4. decodeLength(buf) = buf[2] * 256 + buf[3] /\ getLengthFieldSize(buf[1]) = 3
    BY <2>2, <2>3 DEF getLengthFieldSize, decodeLength
  <2>5. decodeLength(buf) = len
    BY <1>2, <2>2, <2>4
  <2> QED  BY <1>6, <2>2, <2>4, <2>5 DEF getLengthBytes
<1> HIDE DEF f, buf, one, two, three
<1> QED  BY <1>4, <1>5, <1>6

--------------------------------------------------------------------------------
(* Bytes put together and taken apart. *)

LEMMA Cat ==
  \A a, b \in Seq(Byte) :
    /\ a \o b \in Seq(Byte)
    /\ Len(a \o b) = Len(a) + Len(b)
<1> TAKE a, b \in Seq(Byte)
<1> QED  BY ConcatProperties

LEMMA CatCat ==
  \A a, b, c \in Seq(Byte) : (a \o b) \o c = a \o (b \o c)
<1> TAKE a, b, c \in Seq(Byte)
<1> QED  BY ConcatAssociative

LEMMA CatAt ==
  \A a, b \in Seq(Byte) :
    /\ \A i \in 1 .. Len(a) : (a \o b)[i] = a[i]
    /\ \A i \in 1 .. Len(b) : (a \o b)[Len(a) + i] = b[i]
<1> TAKE a, b \in Seq(Byte)
<1>1. Len(a) \in Nat /\ Len(b) \in Nat
  OBVIOUS
<1>2. \A i \in 1 .. Len(a) + Len(b) :
        (a \o b)[i] = IF i <= Len(a) THEN a[i] ELSE b[i - Len(a)]
  BY ConcatProperties
<1>3. ASSUME NEW i \in 1 .. Len(a)
      PROVE  (a \o b)[i] = a[i]
  <2>1. i \in 1 .. Len(a) + Len(b) /\ i <= Len(a)
    BY <1>1
  <2> QED  BY <1>2, <2>1
<1>4. ASSUME NEW i \in 1 .. Len(b)
      PROVE  (a \o b)[Len(a) + i] = b[i]
  <2>1. /\ Len(a) + i \in 1 .. Len(a) + Len(b) /\ ~ (Len(a) + i <= Len(a))
        /\ (Len(a) + i) - Len(a) = i
    BY <1>1
  <2> QED  BY <1>2, <2>1
<1> QED  BY <1>3, <1>4

(* What comes behind the first part, and the part in the middle. *)
LEMMA Middle ==
  \A a, b, c \in Seq(Byte) :
    SubSeq(a \o (b \o c), Len(a) + 1, Len(a) + Len(b)) = b
<1> TAKE a, b, c \in Seq(Byte)
<1> DEFINE m == Len(a)
           n == Len(b)
           s == a \o (b \o c)
           u == SubSeq(s, m + 1, m + n)
<1>1. m \in Nat /\ n \in Nat /\ Len(c) \in Nat
  OBVIOUS
<1>2. /\ b \o c \in Seq(Byte) /\ Len(b \o c) = n + Len(c)
      /\ \A i \in 1 .. n : (b \o c)[i] = b[i]
  BY Cat, CatAt
<1>3. /\ s \in Seq(Byte) /\ Len(s) = m + (n + Len(c))
      /\ \A i \in 1 .. n : s[m + i] = b[i]
  <2> DEFINE d == b \o c
  <2> HIDE DEF d
  <2>1. d \in Seq(Byte) /\ Len(d) = n + Len(c) /\ \A i \in 1 .. n : d[i] = b[i]
    BY <1>2 DEF d
  <2>2. /\ a \o d \in Seq(Byte) /\ Len(a \o d) = m + Len(d)
        /\ \A i \in 1 .. Len(d) : (a \o d)[m + i] = d[i]
    BY <2>1, Cat, CatAt
  <2>3. \A i \in 1 .. n : i \in 1 .. Len(d)
    BY <1>1, <2>1
  <2> QED  BY <2>1, <2>2, <2>3 DEF d
<1> HIDE DEF s, m, n
<1>4. \A i \in m + 1 .. m + n : s[i] \in Byte
  BY <1>1, <1>3
<1>5. /\ u \in Seq(Byte)
      /\ Len(u) = IF m + 1 <= m + n THEN (m + n) - (m + 1) + 1 ELSE 0
      /\ \A i \in 1 .. (m + n) - (m + 1) + 1 : u[i] = s[(m + 1) + i - 1]
  <2>1. m + 1 \in Int /\ m + n \in Int
    BY <1>1
  <2> QED  BY <1>4, <2>1, SubSeqProperties
<1> HIDE DEF u
<1>6. Len(u) = n
  BY <1>1, <1>5
<1>7. \A i \in 1 .. Len(u) : u[i] = b[i]
  <2> TAKE i \in 1 .. Len(u)
  <2>1. i \in 1 .. n /\ i \in 1 .. (m + n) - (m + 1) + 1 /\ (m + 1) + i - 1 = m + i
    BY <1>1, <1>6
  <2>2. u[i] = s[m + i]
    BY <1>5, <2>1
  <2> QED  BY <1>3, <2>1, <2>2
<1>8. u = b
  <2>1. Len(u) = Len(b)
    BY <1>6 DEF n
  <2> QED  BY <1>5, <1>7, <2>1, SeqEqual
<1> QED  BY <1>8 DEF u, s, m, n

LEMMA Dropped ==
  \A a, b \in Seq(Byte) :
    /\ SubSeq(a \o b, Len(a) + 1, Len(a \o b)) = b
    /\ Rest(a \o b, Len(a)) = b
<1> TAKE a, b \in Seq(Byte)
<1>1. <<>> \in Seq(Byte) /\ b \o <<>> = b
  BY EmptySeq, ConcatEmptySeq
<1>2. SubSeq(a \o (b \o <<>>), Len(a) + 1, Len(a) + Len(b)) = b
  BY <1>1, Middle
<1>3. Len(a \o b) = Len(a) + Len(b)
  BY Cat
<1> QED  BY <1>1, <1>2, <1>3 DEF Rest

--------------------------------------------------------------------------------
(* Elements. *)

\* Tag and length in front of n bytes, and an element.
Heading(tag, n) == <<tag>> \o encodeLength(n)
Complete(tag, c) == Heading(tag, Len(c)) \o c

\* What is read behind the packet.
Beyond == [i \in 1 .. 8 |-> rest]

LEMMA LengthInBytes ==
  \A n \in Nat : n < 256 * 256 =>
    /\ encodeLength(n) \in Seq(Byte)
    /\ Len(encodeLength(n)) = getLengthBytes(n)
    /\ getLengthBytes(n) \in 1 .. 3
<1> TAKE n \in Nat
<1> HAVE n < 256 * 256
<1> DEFINE high == (n \div 256) % 256
           low == n % 256
<1>1. high \in Byte /\ low \in Byte
  BY TwoBytes DEF Byte
<1>2. encodeLength(n) = IF n <= 126 THEN <<n>> ELSE IF n <= 255 THEN <<129, n>>
                        ELSE <<130, high, low>>
  BY DEF encodeLength
<1> HIDE DEF high, low
<1>3. getLengthBytes(n) = IF n <= 126 THEN 1 ELSE IF n <= 255 THEN 2 ELSE 3
  BY DEF getLengthBytes
<1>4. CASE n <= 126
  <2>1. n \in Byte /\ encodeLength(n) = <<n>>
    BY <1>2, <1>4 DEF Byte
  <2> QED  BY <1>3, <1>4, <2>1
<1>5. CASE ~ (n <= 126) /\ n <= 255
  <2>1. n \in Byte /\ 129 \in Byte /\ encodeLength(n) = <<129, n>>
    BY <1>2, <1>5 DEF Byte
  <2> QED  BY <1>3, <1>5, <2>1
<1>6. CASE ~ (n <= 255)
  <2>1. 130 \in Byte /\ encodeLength(n) = <<130, high, low>>
    BY <1>2, <1>6 DEF Byte
  <2> QED  BY <1>1, <1>3, <1>6, <2>1
<1> QED  BY <1>4, <1>5, <1>6

LEMMA HeadingInBytes ==
  \A tag \in Byte, n \in Nat : n < 256 * 256 =>
    /\ Heading(tag, n) \in Seq(Byte)
    /\ Len(Heading(tag, n)) = 1 + getLengthBytes(n)
<1> TAKE tag \in Byte, n \in Nat
<1> HAVE n < 256 * 256
<1>1. <<tag>> \in Seq(Byte) /\ Len(<<tag>>) = 1
  OBVIOUS
<1> QED  BY <1>1, Cat, LengthInBytes DEF Heading

\* The packet is front and what, and so what the decoder sees behind front is what.
Stands(front, what) == frame = front \o what

\* What the decoder makes of an element at p that announces n bytes.
HeadingRead(p, front, tag, n, tail) ==
  /\ From(p)[1] = tag
  /\ Inside(p) = p + 1 + getLengthBytes(n)
  /\ Inside(p) = Len(front \o Heading(tag, n)) + 1
  /\ LengthValue(p) = n
  /\ From(p) = Heading(tag, n) \o (tail \o Beyond)
  /\ Rest(From(p), Inside(p) - p) = tail \o Beyond
  /\ Beyond \in Seq(Byte)

(* Where an element stands, whatever it announces: its tag, its length, and *)
(* what its contents begin with.                                            *)
LEMMA AtHeading ==
  \A front, tail \in Seq(Byte), tag \in Byte, n \in Nat :
    n < 256 * 256 /\ rest \in Byte /\ Stands(front, Heading(tag, n) \o tail) =>
      HeadingRead(Len(front) + 1, front, tag, n, tail)
<1> TAKE front, tail \in Seq(Byte), tag \in Byte, n \in Nat
<1> HAVE n < 256 * 256 /\ rest \in Byte /\ Stands(front, Heading(tag, n) \o tail)
<1>0. frame = front \o (Heading(tag, n) \o tail)
  BY DEF Stands
<1> DEFINE p == Len(front) + 1
<1> HIDE DEF p
<1> DEFINE e == encodeLength(n)
           h == Heading(tag, n)
           b == e \o (tail \o Beyond)
<1>1. Beyond \in Seq(Byte) /\ tail \o Beyond \in Seq(Byte)
  <2>1. Beyond \in Seq(Byte)
    BY DEF Beyond
  <2> QED  BY <2>1, Cat
<1>2. /\ h \in Seq(Byte) /\ Len(h) = 1 + getLengthBytes(n)
      /\ h \o tail \in Seq(Byte)
      /\ e \in Seq(Byte) /\ Len(e) = getLengthBytes(n) /\ getLengthBytes(n) \in 1 .. 3
      /\ b \in Seq(Byte)
  BY <1>1, HeadingInBytes, LengthInBytes, Cat
<1>3. <<tag>> \in Seq(Byte) /\ Len(<<tag>>) = 1 /\ <<tag>>[1] = tag
  OBVIOUS
<1>4. From(p) = h \o (tail \o Beyond)
  <2>1. SubSeq(frame, p, Len(frame)) = h \o tail
    BY <1>0, <1>2, Dropped DEF p
  <2>2. From(p) = (h \o tail) \o Beyond
    BY <2>1 DEF From, Beyond
  <2>3. h \in Seq(Byte)
    BY <1>2
  <2> HIDE DEF h
  <2>4. (h \o tail) \o Beyond = h \o (tail \o Beyond)
    BY <1>1, <2>3, CatCat
  <2> QED  BY <2>2, <2>4
<1>5. From(p) = <<tag>> \o b
  <2>1. h = <<tag>> \o e
    BY DEF Heading
  <2> HIDE DEF h, e
  <2>2. (<<tag>> \o e) \o (tail \o Beyond) = <<tag>> \o (e \o (tail \o Beyond))
    BY <1>1, <1>2, <1>3, CatCat
  <2> QED  BY <1>4, <2>1, <2>2
<1> HIDE DEF h
<1>6. Rest(From(p), 1) = b /\ From(p)[1] = tag
  <2>1. Rest(<<tag>> \o b, Len(<<tag>>)) = b
    BY <1>2, <1>3, Dropped
  <2>2. (<<tag>> \o b)[1] = <<tag>>[1]
    BY <1>2, <1>3, CatAt
  <2> QED  BY <1>3, <1>5, <2>1, <2>2
<1>7. From(p)[2] = b[1]
  <2>1. Len(b) = Len(e) + Len(tail \o Beyond) /\ Len(tail \o Beyond) \in Nat
    BY <1>1, <1>2, Cat
  <2>2. b \in Seq(Byte) /\ Len(e) \in 1 .. 3 /\ From(p) = <<tag>> \o b
    BY <1>2, <1>5
  <2> HIDE DEF b, e
  <2>3. 1 \in 1 .. Len(b)
    BY <2>1, <2>2
  <2>4. (<<tag>> \o b)[Len(<<tag>>) + 1] = b[1]
    BY <1>3, <2>2, <2>3, CatAt
  <2>5. Len(<<tag>>) + 1 = 2
    BY <1>3
  <2> QED  BY <2>2, <2>4, <2>5
<1>8. getLengthFieldSize(b[1]) = getLengthBytes(n) /\ decodeLength(b) = n
  BY <1>1, LengthComesBack
<1> HIDE DEF b
<1>9. Inside(p) = p + 1 + getLengthBytes(n) /\ LengthValue(p) = n
  BY <1>6, <1>7, <1>8 DEF Inside, LengthValue
<1>10. Rest(From(p), Inside(p) - p) = tail \o Beyond
  <2>1. Inside(p) - p = Len(h)
    <3>1. p \in Nat
      BY DEF p
    <3> QED  BY <1>2, <1>9, <3>1
  <2>2. Rest(h \o (tail \o Beyond), Len(h)) = tail \o Beyond
    BY <1>1, <1>2, Dropped
  <2> QED  BY <1>4, <2>1, <2>2
<1>11. Inside(p) = Len(front \o h) + 1
  <2>1. Len(front \o h) = Len(front) + Len(h) /\ Len(front) \in Nat
    BY <1>2, Cat
  <2> QED  BY <1>2, <1>9, <2>1 DEF p
<1> QED  BY <1>1, <1>4, <1>6, <1>9, <1>10, <1>11 DEF h, p, HeadingRead

\* What it makes of one that announces what it has.
ElementRead(p, front, tag, c) ==
  /\ From(p)[1] = tag
  /\ Inside(p) = p + 1 + getLengthBytes(Len(c))
  /\ LengthValue(p) = Len(c)
  /\ Behind(p) = Len(front \o Complete(tag, c)) + 1
  /\ \E more \in Seq(Byte) : Rest(From(p), Inside(p) - p) = c \o more
  /\ SubSeq(From(p), Inside(p) - p + 1, Inside(p) - p + Len(c)) = c
  /\ SubSeq(frame, Inside(p), Inside(p) + Len(c) - 1) = c

(* Where an element stands that announces what it has: its contents, and    *)
(* what is behind it.                                                       *)
LEMMA AtElement ==
  \A front, tail, c \in Seq(Byte), tag \in Byte :
    Len(c) < 256 * 256 /\ rest \in Byte /\ Stands(front, Complete(tag, c) \o tail) =>
      ElementRead(Len(front) + 1, front, tag, c)
<1> TAKE front, tail, c \in Seq(Byte), tag \in Byte
<1> HAVE Len(c) < 256 * 256 /\ rest \in Byte /\ Stands(front, Complete(tag, c) \o tail)
<1> DEFINE h == Heading(tag, Len(c))
           p == Len(front) + 1
           t == c \o tail
           m == Len(front \o h)
<1>1. Len(c) \in Nat /\ t \in Seq(Byte)
  BY Cat
<1>2. h \in Seq(Byte) /\ Len(h) = 1 + getLengthBytes(Len(c)) /\ h \o c \in Seq(Byte)
      /\ getLengthBytes(Len(c)) \in 1 .. 3
  BY <1>1, HeadingInBytes, LengthInBytes, Cat
<1>3. Stands(front, h \o t) /\ Complete(tag, c) = h \o c
  <2>1. (h \o c) \o tail = h \o (c \o tail)
    BY <1>2, CatCat
  <2> QED  BY <2>1 DEF Complete, Stands
<1> HIDE DEF t, p
<1>4. HeadingRead(p, front, tag, Len(c), t)
  BY <1>1, <1>3, AtHeading DEF p
<1>5. /\ From(p)[1] = tag
      /\ Inside(p) = p + 1 + getLengthBytes(Len(c))
      /\ Inside(p) = m + 1
      /\ LengthValue(p) = Len(c)
      /\ From(p) = h \o (t \o Beyond)
      /\ Rest(From(p), Inside(p) - p) = t \o Beyond
      /\ Beyond \in Seq(Byte)
  BY <1>4 DEF HeadingRead
<1> HIDE DEF h
<1>6. /\ t \o Beyond = c \o (tail \o Beyond)
      /\ tail \o Beyond \in Seq(Byte)
  BY <1>5, Cat, CatCat DEF t
<1>7. front \o h \in Seq(Byte) /\ m \in Nat /\ m = Len(front) + Len(h)
  BY <1>2, Cat
<1>8. Behind(p) = Len(front \o Complete(tag, c)) + 1
  <2>1. /\ Len(h \o c) = Len(h) + Len(c)
        /\ Len(front \o (h \o c)) = Len(front) + Len(h \o c)
        /\ Len(front) \in Nat
    BY <1>2, Cat
  <2>2. Behind(p) = Inside(p) + Len(c)
    BY <1>5 DEF Behind
  <2> QED  BY <1>1, <1>2, <1>3, <1>5, <1>7, <2>1, <2>2
<1>9. SubSeq(From(p), Inside(p) - p + 1, Inside(p) - p + Len(c)) = c
  <2>1. Inside(p) - p = Len(h)
    BY <1>1, <1>2, <1>5 DEF p
  <2>2. SubSeq(h \o (c \o (tail \o Beyond)), Len(h) + 1, Len(h) + Len(c)) = c
    BY <1>2, <1>6, Middle
  <2> QED  BY <1>5, <1>6, <2>1, <2>2
<1>10. SubSeq(frame, Inside(p), Inside(p) + Len(c) - 1) = c
  <2>1. (front \o h) \o t = front \o (h \o t)
    BY <1>1, <1>2, CatCat
  <2>2. frame = (front \o h) \o (c \o tail)
    BY <1>3, <2>1 DEF Stands, t
  <2>3. SubSeq((front \o h) \o (c \o tail), m + 1, m + Len(c)) = c
    BY <1>7, Middle
  <2> HIDE DEF m
  <2>4. Inside(p) = m + 1 /\ Inside(p) + Len(c) - 1 = m + Len(c)
    BY <1>1, <1>5, <1>7
  <2> QED  BY <2>2, <2>3, <2>4
<1>11. \E more \in Seq(Byte) : Rest(From(p), Inside(p) - p) = c \o more
  BY <1>5, <1>6
<1> QED  BY <1>5, <1>8, <1>9, <1>10, <1>11 DEF ElementRead, p

LEMMA CompleteInBytes ==
  \A tag \in Byte, c \in Seq(Byte) : Len(c) < 256 * 256 =>
    /\ Complete(tag, c) \in Seq(Byte)
    /\ Len(Complete(tag, c)) = Whole(Len(c))
    /\ Whole(Len(c)) \in Nat
<1> TAKE tag \in Byte, c \in Seq(Byte)
<1> HAVE Len(c) < 256 * 256
<1>1. Len(c) \in Nat
  OBVIOUS
<1>2. /\ Heading(tag, Len(c)) \in Seq(Byte)
      /\ Len(Heading(tag, Len(c))) = 1 + getLengthBytes(Len(c))
      /\ getLengthBytes(Len(c)) \in 1 .. 3
  BY <1>1, HeadingInBytes, LengthInBytes
<1>3. /\ Heading(tag, Len(c)) \o c \in Seq(Byte)
      /\ Len(Heading(tag, Len(c)) \o c) = Len(Heading(tag, Len(c))) + Len(c)
  BY <1>2, Cat
<1> QED  BY <1>1, <1>2, <1>3 DEF Complete, Whole

LEMMA NamesAreBytes ==
  \A string \in Names : string \in Seq(Byte) /\ Len(string) \in Nat /\ Len(string) <= 126
<1> TAKE string \in Names
<1>1. string \in Seq(Byte) /\ Len(string) <= 126
  BY Zenon DEF Names
<1>2. Len(string) \in Nat
  BY <1>1, LenProperties
<1> QED  BY <1>1, <1>2

LEMMA OctetsAreBytes ==
  \A n \in Nat : \A v \in Octets(n) : v \in Seq(Byte) /\ Len(v) = n
<1> TAKE n \in Nat
<1> TAKE v \in Octets(n)
<1>1. v \in [1 .. n -> Byte]
  BY DEF Octets
<1> QED  BY <1>1

LEMMA ControlFields ==
  ASSUME gse \in GseControl
  PROVE  /\ gse.destMACAddress \in Octets(6) /\ gse.APPID \in Halfword
         /\ gse.gocbRef \in Names /\ gse.datSet \in Names /\ gse.goID \in Names
         /\ gse.timeAllowedToLive \in Octets(4) /\ gse.t \in Octets(8)
         /\ gse.stNum \in Octets(4) /\ gse.sqNum \in Octets(4) /\ gse.test \in Octets(1)
         /\ gse.confRev \in Octets(4) /\ gse.ndsCom \in Octets(1)
         /\ gse.numDatSetEntries \in Octets(4)
<1> QED  BY DEF GseControl

\* Those of a control block.
LEMMA OctetsAreValues ==
  /\ \A v \in Octets(1) : v \in Seq(Byte) /\ Len(v) = 1 /\ Len(v) > 0
  /\ \A v \in Octets(4) : v \in Seq(Byte) /\ Len(v) = 4 /\ Len(v) > 0
  /\ \A v \in Octets(6) : v \in Seq(Byte) /\ Len(v) = 6 /\ Len(v) > 0
  /\ \A v \in Octets(8) : v \in Seq(Byte) /\ Len(v) = 8 /\ Len(v) > 0
<1>1. /\ 1 \in Nat /\ 4 \in Nat /\ 6 \in Nat /\ 8 \in Nat
      /\ 1 > 0 /\ 4 > 0 /\ 6 > 0 /\ 8 > 0
  OBVIOUS
<1>2. \A n \in Nat : n > 0 => \A v \in Octets(n) : Len(v) > 0
  <2> TAKE n \in Nat
  <2> HAVE n > 0
  <2> TAKE v \in Octets(n)
  <2>1. Len(v) = n
    BY OctetsAreBytes
  <2> QED  BY <2>1
<1> QED  BY <1>1, <1>2, OctetsAreBytes, Zenon

LEMMA NameIsElement ==
  \A tag \in Byte, string \in Names :
    /\ Name(tag, string) = Complete(tag, string)
    /\ string \in Seq(Byte) /\ Len(string) \in Nat /\ Len(string) <= 126
<1> TAKE tag \in Byte, string \in Names
<1>1. string \in Seq(Byte) /\ Len(string) \in Nat /\ Len(string) <= 126
  BY NamesAreBytes
<1> DEFINE n == Len(string)
<1>2. n \in Nat /\ n <= 126
  BY <1>1
<1> HIDE DEF n
<1>3. encodeLength(n) = <<n>>
  BY <1>2 DEF encodeLength
<1>4. <<tag>> \o <<n>> = <<tag, n>>
  <2>1. /\ <<tag>> \in Seq(Byte) /\ Len(<<tag>>) = 1 /\ <<tag>>[1] = tag
        /\ <<n>> \in Seq(Byte) /\ Len(<<n>>) = 1 /\ <<n>>[1] = n
        /\ <<tag, n>> \in Seq(Byte) /\ Len(<<tag, n>>) = 2
        /\ <<tag, n>>[1] = tag /\ <<tag, n>>[2] = n
    <3>1. n \in Byte
      BY <1>2 DEF Byte
    <3> QED  BY <3>1
  <2> DEFINE a == <<tag>>
             b == <<n>>
             c == <<tag, n>>
  <2>2. /\ a \in Seq(Byte) /\ Len(a) = 1 /\ a[1] = tag
        /\ b \in Seq(Byte) /\ Len(b) = 1 /\ b[1] = n
        /\ c \in Seq(Byte) /\ Len(c) = 2 /\ c[1] = tag /\ c[2] = n
    BY <2>1
  <2> HIDE DEF a, b, c
  <2>3. /\ a \o b \in Seq(Byte) /\ Len(a \o b) = 2
        /\ (a \o b)[1] = tag /\ (a \o b)[2] = n
    <3>1. a \o b \in Seq(Byte) /\ Len(a \o b) = 2
      <4>1. a \o b \in Seq(Byte) /\ Len(a \o b) = Len(a) + Len(b)
        BY <2>2, Cat
      <4> QED  BY <2>2, <4>1
    <3>2. 1 \in 1 .. Len(a) /\ 1 \in 1 .. Len(b) /\ Len(a) + 1 = 2
      BY <2>2
    <3>3. (a \o b)[1] = a[1] /\ (a \o b)[Len(a) + 1] = b[1]
      BY <2>2, <3>2, CatAt
    <3> QED  BY <2>2, <3>1, <3>2, <3>3
  <2>4. \A i \in 1 .. Len(c) : (a \o b)[i] = c[i]
    BY <2>2, <2>3
  <2>5. a \o b = c
    BY <2>2, <2>3, <2>4, SeqEqual
  <2> QED  BY <2>5 DEF a, b, c
<1> QED  BY <1>1, <1>3, <1>4 DEF Name, Complete, Heading, n

(* The bytes of a number, of which there are as many as announced.          *)
LEMMA NumberInBytes ==
  \A value \in Seq(Byte) : Len(value) > 0 =>
    /\ ber_encode_integer(value) \in Seq(Byte)
    /\ Len(ber_encode_integer(value)) = ber_integer_length(value)
    /\ ber_integer_length(value) \in 1 .. Len(value)
<1> TAKE value \in Seq(Byte)
<1> HAVE Len(value) > 0
<1>1. /\ ber_integer_length(value) \in 1 .. Len(value)
      /\ Len(ber_encode_integer(value)) = ber_integer_length(value)
  <2>1. <<>> \in Seq(Byte)
    OBVIOUS
  <2> QED  BY <2>1, IntegerComesBack
<1> DEFINE b == netmemcpy(value)
           s == Shift(b)
<1>2. b \in Seq(Byte) /\ Len(b) = Len(value)
  BY NetmemcpyTwice
<1>3. s \in 0 .. Len(b) - 1
  BY <1>2, ShiftStops
<1>4. ber_encode_integer(value) = SubSeq(b, s + 1, Len(b))
  BY DEF ber_encode_integer
<1> HIDE DEF b, s
<1>5. SubSeq(b, s + 1, Len(b)) \in Seq(Byte)
  BY <1>2, <1>3
<1> QED  BY <1>1, <1>4, <1>5

LEMMA NumberIsElement ==
  \A tag \in Byte, value \in Seq(Byte) : Len(value) > 0 =>
    Number(tag, value) = Complete(tag, ber_encode_integer(value))
<1> TAKE tag \in Byte, value \in Seq(Byte)
<1> HAVE Len(value) > 0
<1> QED  BY NumberInBytes DEF Number, Complete, Heading

(* A number of four bytes is read from its element as it was.               *)
LEMMA NumberComesBack ==
  \A value \in Octets(4), more \in Seq(Byte) :
    ber_decode_integer(ber_encode_integer(value) \o more,
                       Len(ber_encode_integer(value)), 4) = value
<1> TAKE value \in Octets(4), more \in Seq(Byte)
<1>1. value \in Seq(Byte) /\ Len(value) = 4 /\ Len(value) > 0
  BY OctetsAreValues
<1>2. /\ Len(ber_encode_integer(value)) = ber_integer_length(value)
      /\ ber_decode_integer(ber_encode_integer(value) \o more,
                            ber_integer_length(value), Len(value)) = value
  BY <1>1, IntegerComesBack
<1> QED  BY <1>1, <1>2

--------------------------------------------------------------------------------
(* The packet as a row of elements. *)

Tag(k) == 127 + k

Contents(k) ==
  <<gse.gocbRef, ber_encode_integer(gse.timeAllowedToLive), gse.datSet, gse.goID,
    gse.t, ber_encode_integer(gse.stNum), ber_encode_integer(gse.sqNum),
    ber_encode_integer(gse.test), ber_encode_integer(gse.confRev),
    ber_encode_integer(gse.ndsCom), ber_encode_integer(gse.numDatSetEntries)>>[k]

Item(k) == Complete(Tag(k), Contents(k))

LEMMA ContentsAre ==
  /\ Contents(1) = gse.gocbRef
  /\ Contents(2) = ber_encode_integer(gse.timeAllowedToLive)
  /\ Contents(3) = gse.datSet
  /\ Contents(4) = gse.goID
  /\ Contents(5) = gse.t
  /\ Contents(6) = ber_encode_integer(gse.stNum)
  /\ Contents(7) = ber_encode_integer(gse.sqNum)
  /\ Contents(8) = ber_encode_integer(gse.test)
  /\ Contents(9) = ber_encode_integer(gse.confRev)
  /\ Contents(10) = ber_encode_integer(gse.ndsCom)
  /\ Contents(11) = ber_encode_integer(gse.numDatSetEntries)
BY DEF Contents

\* So few bytes that a length of one byte announces them.
Few(c) == c \in Seq(Byte) /\ Len(c) \in Nat /\ Len(c) <= 126

LEMMA FewBytes ==
  /\ \A string \in Names : Few(string)
  /\ \A n \in 1 .. 8 : \A v \in Octets(n) : Few(v) /\ Few(ber_encode_integer(v))
<1>1. \A string \in Names : Few(string)
  BY NamesAreBytes DEF Few
<1>2. ASSUME NEW n \in 1 .. 8, NEW v \in Octets(n)
      PROVE  Few(v) /\ Few(ber_encode_integer(v))
  <2>1. v \in Seq(Byte) /\ Len(v) = n /\ n > 0 /\ n <= 126 /\ n \in Nat
    <3>1. n \in Nat /\ n > 0 /\ n <= 126
      OBVIOUS
    <3> QED  BY <3>1, OctetsAreBytes
  <2> DEFINE m == ber_integer_length(v)
  <2>2. /\ ber_encode_integer(v) \in Seq(Byte)
        /\ Len(ber_encode_integer(v)) = m /\ m \in 1 .. n
    BY <2>1, NumberInBytes
  <2> HIDE DEF m
  <2>3. m \in Nat /\ m <= 126
    BY <2>1, <2>2
  <2> QED  BY <2>1, <2>2, <2>3 DEF Few
<1> QED  BY <1>1, <1>2

(* The contents of every element are.                                       *)
LEMMA ContentsInBytes ==
  ASSUME gse \in GseControl
  PROVE  \A k \in 1 .. 11 :
           /\ Tag(k) \in Byte /\ Few(Contents(k))
           /\ Item(k) \in Seq(Byte) /\ Len(Item(k)) = Len(Contents(k)) + 2
<1>1. /\ Few(gse.gocbRef) /\ Few(gse.datSet) /\ Few(gse.goID) /\ Few(gse.t)
      /\ Few(ber_encode_integer(gse.timeAllowedToLive))
      /\ Few(ber_encode_integer(gse.stNum)) /\ Few(ber_encode_integer(gse.sqNum))
      /\ Few(ber_encode_integer(gse.test)) /\ Few(ber_encode_integer(gse.confRev))
      /\ Few(ber_encode_integer(gse.ndsCom))
      /\ Few(ber_encode_integer(gse.numDatSetEntries))
  <2>1. 1 \in 1 .. 8 /\ 4 \in 1 .. 8 /\ 8 \in 1 .. 8
    OBVIOUS
  <2> QED  BY <2>1, ControlFields, FewBytes, Zenon
<1>2. ASSUME NEW k \in 1 .. 11
      PROVE  Few(Contents(k))
  <2>1. \/ k = 1 \/ k = 2 \/ k = 3 \/ k = 4 \/ k = 5 \/ k = 6
        \/ k = 7 \/ k = 8 \/ k = 9 \/ k = 10 \/ k = 11
    OBVIOUS
  <2> QED  BY <1>1, <2>1, ContentsAre, Zenon
<1>3. ASSUME NEW k \in 1 .. 11
      PROVE  /\ Tag(k) \in Byte
             /\ Item(k) \in Seq(Byte) /\ Len(Item(k)) = Len(Contents(k)) + 2
  <2> DEFINE c == Contents(k)
             t == Tag(k)
             n == Len(c)
  <2>1. t \in Byte
    BY DEF Tag, Byte
  <2>2. c \in Seq(Byte) /\ n \in Nat /\ n <= 126
    BY <1>2 DEF Few
  <2> HIDE DEF n
  <2>3. n < 256 * 256 /\ Whole(n) = n + 2
    BY <2>2 DEF Whole, getLengthBytes
  <2> HIDE DEF c, t
  <2>4. Complete(t, c) \in Seq(Byte) /\ Len(Complete(t, c)) = Whole(n)
    BY <2>1, <2>2, <2>3, CompleteInBytes DEF n
  <2> QED  BY <2>1, <2>3, <2>4 DEF Item, c, t, n
<1> QED  BY <1>2, <1>3

(* The frame header and the elements, each one behind those before it.      *)
AnnouncedLength == getGseHeaderLength + 9 + getLengthBytes(getGseHeaderLength)
Front0 ==
  gse.destMACAddress \o LOCAL_MAC_ADDRESS \o <<129, 0>> \o <<128, 0>> \o <<136, 184>>
    \o TwoBytesOf(gse.APPID) \o TwoBytesOf(AnnouncedLength) \o Zeros(4)
Front1 == (Front0 \o <<ASN1_TAG_SEQUENCE>>) \o encodeLength(getGseHeaderLength)
Front2 == Front1 \o Name(GSE_TAG_GOCBREF, gse.gocbRef)
Front3 == Front2 \o Number(GSE_TAG_TIME_ALLOWED_TO_LIVE, gse.timeAllowedToLive)
Front4 == Front3 \o Name(GSE_TAG_DATSET, gse.datSet)
Front5 == Front4 \o Name(GSE_TAG_GOID, gse.goID)
Front6 == Front5 \o <<GSE_TAG_T>> \o encodeLength(8) \o gse.t
Front7 == Front6 \o Number(GSE_TAG_STNUM, gse.stNum)
Front8 == Front7 \o Number(GSE_TAG_SQNUM, gse.sqNum)
Front9 == Front8 \o Number(GSE_TAG_SIMULATION, gse.test)
Front10 == Front9 \o Number(GSE_TAG_CONFREV, gse.confRev)
Front11 == Front10 \o Number(GSE_TAG_NDSCOM, gse.ndsCom)
Front12 == Front11 \o Number(GSE_TAG_NUMDATSETENTRIES, gse.numDatSetEntries)

Ahead(k) == <<Front1, Front2, Front3, Front4, Front5, Front6, Front7, 
              Front8, Front9, Front10, Front11, Front12>>[k]

\* What is behind the first elements.
Back12 == <<GSE_TAG_ALLDATA>>
Back11 == Item(11) \o Back12
Back10 == Item(10) \o Back11
Back9 == Item(9) \o Back10
Back8 == Item(8) \o Back9
Back7 == Item(7) \o Back8
Back6 == Item(6) \o Back7
Back5 == Item(5) \o Back6
Back4 == Item(4) \o Back5
Back3 == Item(3) \o Back4
Back2 == Item(2) \o Back3
Back1 == Item(1) \o Back2

Back(k) == <<Back1, Back2, Back3, Back4, Back5, Back6, Back7, 
             Back8, Back9, Back10, Back11, Back12>>[k]

LEMMA FrontAndBack ==
  /\ Ahead(1) = Front1 /\ Back(1) = Back1
  /\ Ahead(2) = Front2 /\ Back(2) = Back2
  /\ Ahead(3) = Front3 /\ Back(3) = Back3
  /\ Ahead(4) = Front4 /\ Back(4) = Back4
  /\ Ahead(5) = Front5 /\ Back(5) = Back5
  /\ Ahead(6) = Front6 /\ Back(6) = Back6
  /\ Ahead(7) = Front7 /\ Back(7) = Back7
  /\ Ahead(8) = Front8 /\ Back(8) = Back8
  /\ Ahead(9) = Front9 /\ Back(9) = Back9
  /\ Ahead(10) = Front10 /\ Back(10) = Back10
  /\ Ahead(11) = Front11 /\ Back(11) = Back11
  /\ Ahead(12) = Front12 /\ Back(12) = Back12
BY DEF Ahead, Back

LEMMA PacketIsFront ==
  gseEncodePacket = Front12 \o Back12
BY DEF gseEncodePacket, Back12, Front0, Front1, Front2, Front3, Front4, Front5, Front6, Front7, Front8,
       Front9, Front10, Front11, Front12, AnnouncedLength

(* Each element as it is written is an element of its contents.             *)
LEMMA FrontGrows ==
  ASSUME gse \in GseControl
  PROVE  /\ Front2 = Front1 \o Item(1)
         /\ Front3 = Front2 \o Item(2)
         /\ Front4 = Front3 \o Item(3)
         /\ Front5 = Front4 \o Item(4)
         /\ Front5 \in Seq(Byte) => Front6 = Front5 \o Item(5)
         /\ Front7 = Front6 \o Item(6)
         /\ Front8 = Front7 \o Item(7)
         /\ Front9 = Front8 \o Item(8)
         /\ Front10 = Front9 \o Item(9)
         /\ Front11 = Front10 \o Item(10)
         /\ Front12 = Front11 \o Item(11)
<1> USE ControlFields, ContentsAre DEF Item, Tag
<1>1. Name(GSE_TAG_GOCBREF, gse.gocbRef) = Item(1)
  <2>1. GSE_TAG_GOCBREF \in Byte /\ Tag(1) = GSE_TAG_GOCBREF
    BY DEF GSE_TAG_GOCBREF, Byte
  <2>2. gse.gocbRef \in Names
    OBVIOUS
  <2> QED  BY <2>1, <2>2, NameIsElement
<1>2. Number(GSE_TAG_TIME_ALLOWED_TO_LIVE, gse.timeAllowedToLive) = Item(2)
  <2>1. GSE_TAG_TIME_ALLOWED_TO_LIVE \in Byte /\ Tag(2) = GSE_TAG_TIME_ALLOWED_TO_LIVE
    BY DEF GSE_TAG_TIME_ALLOWED_TO_LIVE, Byte
  <2>2. gse.timeAllowedToLive \in Seq(Byte) /\ Len(gse.timeAllowedToLive) > 0
    BY OctetsAreValues
  <2> QED  BY <2>1, <2>2, NumberIsElement
<1>3. Name(GSE_TAG_DATSET, gse.datSet) = Item(3)
  <2>1. GSE_TAG_DATSET \in Byte /\ Tag(3) = GSE_TAG_DATSET
    BY DEF GSE_TAG_DATSET, Byte
  <2>2. gse.datSet \in Names
    OBVIOUS
  <2> QED  BY <2>1, <2>2, NameIsElement
<1>4. Name(GSE_TAG_GOID, gse.goID) = Item(4)
  <2>1. GSE_TAG_GOID \in Byte /\ Tag(4) = GSE_TAG_GOID
    BY DEF GSE_TAG_GOID, Byte
  <2>2. gse.goID \in Names
    OBVIOUS
  <2> QED  BY <2>1, <2>2, NameIsElement
<1>5. ASSUME Front5 \in Seq(Byte)
      PROVE  Front6 = Front5 \o Item(5)
  <2> DEFINE a == <<GSE_TAG_T>>
             e == encodeLength(8)
             c == gse.t
  <2>1. a \in Seq(Byte) /\ Tag(5) = GSE_TAG_T
    BY DEF GSE_TAG_T, Byte
  <2>2. c \in Seq(Byte) /\ Len(c) = 8
    BY OctetsAreValues
  <2>3. e \in Seq(Byte)
    BY LengthInBytes
  <2>4. Item(5) = (a \o e) \o c
    BY <2>1, <2>2 DEF Complete, Heading
  <2>5. Front6 = ((Front5 \o a) \o e) \o c
    BY DEF Front6
  <2> HIDE DEF a, e, c
  <2>6. (Front5 \o a) \o e = Front5 \o (a \o e) /\ a \o e \in Seq(Byte)
    BY <1>5, <2>1, <2>3, Cat, CatCat
  <2>7. (Front5 \o (a \o e)) \o c = Front5 \o ((a \o e) \o c)
    BY <1>5, <2>2, <2>6, CatCat
  <2> QED  BY <2>4, <2>5, <2>6, <2>7
<1>6. Number(GSE_TAG_STNUM, gse.stNum) = Item(6)
  <2>1. GSE_TAG_STNUM \in Byte /\ Tag(6) = GSE_TAG_STNUM
    BY DEF GSE_TAG_STNUM, Byte
  <2>2. gse.stNum \in Seq(Byte) /\ Len(gse.stNum) > 0
    BY OctetsAreValues
  <2> QED  BY <2>1, <2>2, NumberIsElement
<1>7. Number(GSE_TAG_SQNUM, gse.sqNum) = Item(7)
  <2>1. GSE_TAG_SQNUM \in Byte /\ Tag(7) = GSE_TAG_SQNUM
    BY DEF GSE_TAG_SQNUM, Byte
  <2>2. gse.sqNum \in Seq(Byte) /\ Len(gse.sqNum) > 0
    BY OctetsAreValues
  <2> QED  BY <2>1, <2>2, NumberIsElement
<1>8. Number(GSE_TAG_SIMULATION, gse.test) = Item(8)
  <2>1. GSE_TAG_SIMULATION \in Byte /\ Tag(8) = GSE_TAG_SIMULATION
    BY DEF GSE_TAG_SIMULATION, Byte
  <2>2. gse.test \in Seq(Byte) /\ Len(gse.test) > 0
    BY OctetsAreValues
  <2> QED  BY <2>1, <2>2, NumberIsElement
<1>9. Number(GSE_TAG_CONFREV, gse.confRev) = Item(9)
  <2>1. GSE_TAG_CONFREV \in Byte /\ Tag(9) = GSE_TAG_CONFREV
    BY DEF GSE_TAG_CONFREV, Byte
  <2>2. gse.confRev \in Seq(Byte) /\ Len(gse.confRev) > 0
    BY OctetsAreValues
  <2> QED  BY <2>1, <2>2, NumberIsElement
<1>10. Number(GSE_TAG_NDSCOM, gse.ndsCom) = Item(10)
  <2>1. GSE_TAG_NDSCOM \in Byte /\ Tag(10) = GSE_TAG_NDSCOM
    BY DEF GSE_TAG_NDSCOM, Byte
  <2>2. gse.ndsCom \in Seq(Byte) /\ Len(gse.ndsCom) > 0
    BY OctetsAreValues
  <2> QED  BY <2>1, <2>2, NumberIsElement
<1>11. Number(GSE_TAG_NUMDATSETENTRIES, gse.numDatSetEntries) = Item(11)
  <2>1. GSE_TAG_NUMDATSETENTRIES \in Byte /\ Tag(11) = GSE_TAG_NUMDATSETENTRIES
    BY DEF GSE_TAG_NUMDATSETENTRIES, Byte
  <2>2. gse.numDatSetEntries \in Seq(Byte) /\ Len(gse.numDatSetEntries) > 0
    BY OctetsAreValues
  <2> QED  BY <2>1, <2>2, NumberIsElement
<1> QED  BY <1>1, <1>2, <1>3, <1>4, <1>5, <1>6, <1>7, <1>8, <1>9, <1>10, <1>11
         DEF Front2, Front3, Front4, Front5, Front7, Front8, Front9, Front10, Front11, Front12

\* The size of each element, and of all.
Size(k) == Len(Item(k))
AllSizes ==
  Size(1) + Size(2) + Size(3) + Size(4) + Size(5) + Size(6)
    + Size(7) + Size(8) + Size(9) + Size(10) + Size(11)

(* What the encoder computes first is the size of all elements, the last    *)
(* one twice.                                                               *)
LEMMA HeaderLength ==
  ASSUME gse \in GseControl
  PROVE  /\ getGseHeaderLength = AllSizes + Size(11)
         /\ Size(11) = BER_GET_LENGTH("INT32U", gse.numDatSetEntries) + 2
         /\ BER_GET_LENGTH("INT32U", gse.numDatSetEntries) \in Nat
         /\ \A k \in 1 .. 11 : Size(k) \in Nat /\ Size(k) <= 128
         /\ getGseHeaderLength \in Nat /\ getGseHeaderLength <= 1536
<1>1. \A k \in 1 .. 11 : /\ Size(k) = Len(Contents(k)) + 2
                         /\ Len(Contents(k)) \in Nat /\ Len(Contents(k)) <= 126
  BY ContentsInBytes DEF Size, Few
<1>2. ASSUME NEW k \in 1 .. 11
      PROVE  Size(k) \in Nat /\ Size(k) <= 128 /\ Whole(Len(Contents(k))) = Size(k)
  <2> DEFINE n == Len(Contents(k))
  <2>1. n \in Nat /\ n <= 126 /\ Size(k) = n + 2
    BY <1>1
  <2> HIDE DEF n
  <2>2. Whole(n) = n + 2
    BY <2>1 DEF Whole, getLengthBytes
  <2> QED  BY <2>1, <2>2 DEF n
<1>3. \A v \in Octets(4) : BER_GET_LENGTH("INT32U", v) = Len(ber_encode_integer(v))
  <2> TAKE v \in Octets(4)
  <2>1. BER_GET_LENGTH("INT32U", v) = ber_integer_length(v)
    BY DEF BER_GET_LENGTH, Signeds, Unsigneds
  <2> QED  BY <2>1, OctetsAreValues, NumberInBytes
<1>4. \A v \in Octets(1) : BER_GET_LENGTH("BOOLEAN", v) = Len(ber_encode_integer(v))
  <2> TAKE v \in Octets(1)
  <2>1. BER_GET_LENGTH("BOOLEAN", v) = 1
    BY DEF BER_GET_LENGTH, SV_GET_LENGTH, Signeds, Unsigneds
  <2> DEFINE m == ber_integer_length(v)
  <2>2. Len(ber_encode_integer(v)) = m /\ m \in 1 .. Len(v) /\ Len(v) = 1
    BY OctetsAreValues, NumberInBytes
  <2> HIDE DEF m
  <2>3. m = 1
    BY <2>2
  <2> QED  BY <2>1, <2>2, <2>3
<1>5. \A v \in Octets(8) : BER_GET_LENGTH("TIMESTAMP", v) = Len(v)
  <2> TAKE v \in Octets(8)
  <2>1. BER_GET_LENGTH("TIMESTAMP", v) = 8
    BY DEF BER_GET_LENGTH, SV_GET_LENGTH, Signeds, Unsigneds
  <2> QED  BY <2>1, OctetsAreValues
<1>6. /\ Whole(Len(Contents(1))) = Size(1)
      /\ Whole(Len(Contents(2))) = Size(2)
      /\ Whole(Len(Contents(3))) = Size(3)
      /\ Whole(Len(Contents(4))) = Size(4)
      /\ Whole(Len(Contents(5))) = Size(5)
      /\ Whole(Len(Contents(6))) = Size(6)
      /\ Whole(Len(Contents(7))) = Size(7)
      /\ Whole(Len(Contents(8))) = Size(8)
      /\ Whole(Len(Contents(9))) = Size(9)
      /\ Whole(Len(Contents(10))) = Size(10)
      /\ Whole(Len(Contents(11))) = Size(11)
  BY <1>2
<1>7. WholeName(gse.gocbRef) = Size(1)
  BY <1>6, ControlFields, ContentsAre, Zenon DEF WholeName
<1>8. WholeNumber(gse.timeAllowedToLive) = Size(2)
  BY <1>6, <1>3, ControlFields, ContentsAre, Zenon DEF WholeNumber
<1>9. WholeName(gse.datSet) = Size(3)
  BY <1>6, ControlFields, ContentsAre, Zenon DEF WholeName
<1>10. WholeName(gse.goID) = Size(4)
  BY <1>6, ControlFields, ContentsAre, Zenon DEF WholeName
<1>11. Whole(BER_GET_LENGTH("TIMESTAMP", gse.t)) = Size(5)
  BY <1>6, <1>5, ControlFields, ContentsAre, Zenon
<1>12. WholeNumber(gse.stNum) = Size(6)
  BY <1>6, <1>3, ControlFields, ContentsAre, Zenon DEF WholeNumber
<1>13. WholeNumber(gse.sqNum) = Size(7)
  BY <1>6, <1>3, ControlFields, ContentsAre, Zenon DEF WholeNumber
<1>14. Whole(BER_GET_LENGTH("BOOLEAN", gse.test)) = Size(8)
  BY <1>6, <1>4, ControlFields, ContentsAre, Zenon
<1>15. WholeNumber(gse.confRev) = Size(9)
  BY <1>6, <1>3, ControlFields, ContentsAre, Zenon DEF WholeNumber
<1>16. Whole(BER_GET_LENGTH("BOOLEAN", gse.ndsCom)) = Size(10)
  BY <1>6, <1>4, ControlFields, ContentsAre, Zenon
<1>17. WholeNumber(gse.numDatSetEntries) = Size(11)
  BY <1>6, <1>3, ControlFields, ContentsAre, Zenon DEF WholeNumber
<1>18. /\ Size(1) \in Nat /\ Size(2) \in Nat /\ Size(3) \in Nat /\ Size(4) \in Nat
       /\ Size(5) \in Nat /\ Size(6) \in Nat /\ Size(7) \in Nat /\ Size(8) \in Nat
       /\ Size(9) \in Nat /\ Size(10) \in Nat /\ Size(11) \in Nat
       /\ Size(1) <= 128 /\ Size(2) <= 128 /\ Size(3) <= 128 /\ Size(4) <= 128
       /\ Size(5) <= 128 /\ Size(6) <= 128 /\ Size(7) <= 128 /\ Size(8) <= 128
       /\ Size(9) <= 128 /\ Size(10) <= 128 /\ Size(11) <= 128
  BY <1>2
<1>19. getGseHeaderLength = AllSizes + Size(11)
  BY <1>7, <1>8, <1>9, <1>10, <1>11, <1>12, <1>13, <1>14, <1>15, <1>16, <1>17, <1>18
     DEF getGseHeaderLength, AllSizes
<1>20. AllSizes + Size(11) \in Nat /\ AllSizes + Size(11) <= 1536
  BY <1>18 DEF AllSizes
<1>21. /\ Size(11) = BER_GET_LENGTH("INT32U", gse.numDatSetEntries) + 2
       /\ BER_GET_LENGTH("INT32U", gse.numDatSetEntries) \in Nat
  <2>1. Size(11) = Len(Contents(11)) + 2 /\ Len(Contents(11)) \in Nat
    BY <1>1
  <2>2. Len(Contents(11)) = BER_GET_LENGTH("INT32U", gse.numDatSetEntries)
    BY <1>3, ControlFields, ContentsAre, Zenon
  <2> QED  BY <2>1, <2>2
<1> QED  BY <1>2, <1>19, <1>20, <1>21

LEMMA Announced ==
  ASSUME gse \in GseControl
  PROVE  /\ getLengthBytes(getGseHeaderLength) \in 1 .. 3
         /\ AnnouncedLength \in Nat /\ AnnouncedLength < 256 * 256
         /\ AnnouncedLength = getGseHeaderLength + 9 + getLengthBytes(getGseHeaderLength)
<1>1. getGseHeaderLength \in Nat /\ getGseHeaderLength <= 1536
  BY HeaderLength
<1>2. getLengthBytes(getGseHeaderLength) \in 1 .. 3
  BY <1>1, LengthInBytes
<1> QED  BY <1>1, <1>2 DEF AnnouncedLength

\* b is a, which has n bytes, with the m bytes of tail behind it.
Extends(a, n, b, tail, m) ==
  /\ b \in Seq(Byte)
  /\ Len(b) = n + m
  /\ \A i \in 1 .. n : b[i] = a[i]
  /\ \A i \in 1 .. m : b[n + i] = tail[i]

LEMMA CatExtends ==
  \A n, m \in Nat : \A a, b \in Seq(Byte) :
    Len(a) = n /\ Len(b) = m => Extends(a, n, a \o b, b, m)
<1> TAKE n, m \in Nat
<1> TAKE a, b \in Seq(Byte)
<1> HAVE Len(a) = n /\ Len(b) = m
<1>1. /\ a \o b \in Seq(Byte)
      /\ Len(a \o b) = Len(a) + Len(b)
      /\ \A i \in 1 .. Len(a) : (a \o b)[i] = a[i]
      /\ \A i \in 1 .. Len(b) : (a \o b)[Len(a) + i] = b[i]
  BY Cat, CatAt
<1>2. /\ a \o b \in Seq(Byte)
      /\ Len(a \o b) = n + m
      /\ \A i \in 1 .. n : (a \o b)[i] = a[i]
      /\ \A i \in 1 .. m : (a \o b)[n + i] = b[i]
  BY <1>1
<1> QED  BY <1>2, Zenon DEF Extends

LEMMA Kept ==
  \A n, m, i \in Nat : \A a, b, tail :
    Extends(a, n, b, tail, m) /\ 1 <= i /\ i <= n => b[i] = a[i]
<1> TAKE n, m, i \in Nat
<1> TAKE a, b, tail
<1> HAVE Extends(a, n, b, tail, m) /\ 1 <= i /\ i <= n
<1>1. i \in 1 .. n
  OBVIOUS
<1>2. \A j \in 1 .. n : b[j] = a[j]
  BY DEF Extends
<1> QED  BY <1>1, <1>2

LEMMA HalfwordIsSmall ==
  \A n \in Halfword : n \in Nat /\ n < 256 * 256
BY DEF Halfword

LEMMA TwoBytesInBytes ==
  \A n \in Nat : n < 256 * 256 =>
    /\ TwoBytesOf(n) \in Seq(Byte) /\ Len(TwoBytesOf(n)) = 2
    /\ TwoBytesOf(n)[1] * 256 + TwoBytesOf(n)[2] = n
<1> TAKE n \in Nat
<1> HAVE n < 256 * 256
<1> DEFINE q == n \div 256
           r == n % 256
<1>1. q \in Byte /\ r \in Byte /\ q * 256 + r = n
  BY TwoBytes DEF Byte
<1>2. TwoBytesOf(n) = <<q, r>>
  BY DEF TwoBytesOf
<1> HIDE DEF q, r
<1> QED  BY <1>1, <1>2

(* The frame header has 26 bytes and in it, where the decoder looks for     *)
(* them, the destination, the VLAN tag and the length.                      *)
LEMMA FrameHeader ==
  ASSUME gse \in GseControl
  PROVE  /\ Front0 \in Seq(Byte) /\ Len(Front0) = 26
         /\ \A i \in 1 .. 4 : Front0[i] = gse.destMACAddress[i]
         /\ Front0[13] = 129 /\ Front0[14] = 0
         /\ Front0[21] * 256 + Front0[22] = AnnouncedLength
<1> DEFINE d == gse.destMACAddress
           two == TwoBytesOf(AnnouncedLength)
           appid == TwoBytesOf(gse.APPID)
           tag == <<129, 0>>
           tci == <<128, 0>>
           etype == <<136, 184>>
           zeros == Zeros(4)
<1>1. d \in Seq(Byte) /\ Len(d) = 6
  BY ControlFields, OctetsAreValues
<1>2. LOCAL_MAC_ADDRESS \in Seq(Byte) /\ Len(LOCAL_MAC_ADDRESS) = 6
  BY DEF LOCAL_MAC_ADDRESS, Byte
<1>3. tag \in Seq(Byte) /\ Len(tag) = 2 /\ tag[1] = 129 /\ tag[2] = 0
  BY DEF Byte
<1>7. tci \in Seq(Byte) /\ Len(tci) = 2
  BY DEF Byte
<1>8. etype \in Seq(Byte) /\ Len(etype) = 2
  BY DEF Byte
<1>10. tag \in Seq(Byte) /\ Len(tag) = 2
  BY <1>3
<1>4. appid \in Seq(Byte) /\ Len(appid) = 2
  <2>1. gse.APPID \in Nat /\ gse.APPID < 256 * 256
    BY ControlFields, HalfwordIsSmall
  <2> QED  BY <2>1, TwoBytesInBytes
<1>5. /\ two \in Seq(Byte) /\ Len(two) = 2
      /\ two[1] * 256 + two[2] = AnnouncedLength
  BY Announced, TwoBytesInBytes
<1>6. zeros \in Seq(Byte) /\ Len(zeros) = 4
  BY DEF Zeros, Byte
<1> HIDE DEF d, two, appid, tag, tci, etype, zeros
<1>9. 2 \in Nat /\ 4 \in Nat /\ 6 \in Nat /\ 12 \in Nat /\ 14 \in Nat /\ 16 \in Nat
      /\ 18 \in Nat /\ 20 \in Nat /\ 22 \in Nat
  OBVIOUS
<1> DEFINE a1 == d \o LOCAL_MAC_ADDRESS
<1>11. Extends(d, 6, a1, LOCAL_MAC_ADDRESS, 6) /\ a1 \in Seq(Byte) /\ Len(a1) = 12
  <2>1. Extends(d, 6, a1, LOCAL_MAC_ADDRESS, 6)
    BY <1>1, <1>2, <1>9, CatExtends, Zenon
  <2> HIDE DEF a1
  <2> QED  BY <2>1 DEF Extends
<1> HIDE DEF a1
<1> DEFINE a2 == a1 \o tag
<1>12. Extends(a1, 12, a2, tag, 2) /\ a2 \in Seq(Byte) /\ Len(a2) = 14
  <2>1. Extends(a1, 12, a2, tag, 2)
    BY <1>11, <1>10, <1>9, CatExtends, Zenon
  <2> HIDE DEF a2
  <2> QED  BY <2>1 DEF Extends
<1> HIDE DEF a2
<1> DEFINE a3 == a2 \o tci
<1>13. Extends(a2, 14, a3, tci, 2) /\ a3 \in Seq(Byte) /\ Len(a3) = 16
  <2>1. Extends(a2, 14, a3, tci, 2)
    BY <1>12, <1>7, <1>9, CatExtends, Zenon
  <2> HIDE DEF a3
  <2> QED  BY <2>1 DEF Extends
<1> HIDE DEF a3
<1> DEFINE a4 == a3 \o etype
<1>14. Extends(a3, 16, a4, etype, 2) /\ a4 \in Seq(Byte) /\ Len(a4) = 18
  <2>1. Extends(a3, 16, a4, etype, 2)
    BY <1>13, <1>8, <1>9, CatExtends, Zenon
  <2> HIDE DEF a4
  <2> QED  BY <2>1 DEF Extends
<1> HIDE DEF a4
<1> DEFINE a5 == a4 \o appid
<1>15. Extends(a4, 18, a5, appid, 2) /\ a5 \in Seq(Byte) /\ Len(a5) = 20
  <2>1. Extends(a4, 18, a5, appid, 2)
    BY <1>14, <1>4, <1>9, CatExtends, Zenon
  <2> HIDE DEF a5
  <2> QED  BY <2>1 DEF Extends
<1> HIDE DEF a5
<1> DEFINE a6 == a5 \o two
<1>16. Extends(a5, 20, a6, two, 2) /\ a6 \in Seq(Byte) /\ Len(a6) = 22
  <2>1. Extends(a5, 20, a6, two, 2)
    BY <1>15, <1>5, <1>9, CatExtends, Zenon
  <2> HIDE DEF a6
  <2> QED  BY <2>1 DEF Extends
<1> HIDE DEF a6
<1> DEFINE a7 == a6 \o zeros
<1>17. Extends(a6, 22, a7, zeros, 4) /\ a7 \in Seq(Byte) /\ Len(a7) = 26
  <2>1. Extends(a6, 22, a7, zeros, 4)
    BY <1>16, <1>6, <1>9, CatExtends, Zenon
  <2> HIDE DEF a7
  <2> QED  BY <2>1 DEF Extends
<1> HIDE DEF a7
<1>18. \A i \in 1 .. 4 : a7[i] = d[i]
  <2> TAKE i \in 1 .. 4
  <2>10. i \in Nat /\ 1 <= i /\ i <= 4
    OBVIOUS
  <2>1. a1[i] = d[i]
    BY <1>11, <2>10, <1>9, Kept
  <2>2. a2[i] = a1[i]
    BY <1>12, <2>10, <1>9, Kept
  <2>3. a3[i] = a2[i]
    BY <1>13, <2>10, <1>9, Kept
  <2>4. a4[i] = a3[i]
    BY <1>14, <2>10, <1>9, Kept
  <2>5. a5[i] = a4[i]
    BY <1>15, <2>10, <1>9, Kept
  <2>6. a6[i] = a5[i]
    BY <1>16, <2>10, <1>9, Kept
  <2>7. a7[i] = a6[i]
    BY <1>17, <2>10, <1>9, Kept
  <2> QED  BY <2>1, <2>2, <2>3, <2>4, <2>5, <2>6, <2>7
<1>19. \A i \in {1, 2} : a7[12 + i] = tag[i]
  <2> TAKE i \in {1, 2}
  <2>10. 12 + i \in Nat /\ 1 <= 12 + i /\ 12 + i <= 14
    OBVIOUS
  <2>2. a2[12 + i] = tag[i]
    BY <1>12 DEF Extends
  <2>3. a3[12 + i] = a2[12 + i]
    BY <1>13, <2>10, <1>9, Kept
  <2>4. a4[12 + i] = a3[12 + i]
    BY <1>14, <2>10, <1>9, Kept
  <2>5. a5[12 + i] = a4[12 + i]
    BY <1>15, <2>10, <1>9, Kept
  <2>6. a6[12 + i] = a5[12 + i]
    BY <1>16, <2>10, <1>9, Kept
  <2>7. a7[12 + i] = a6[12 + i]
    BY <1>17, <2>10, <1>9, Kept
  <2> QED  BY <2>2, <2>3, <2>4, <2>5, <2>6, <2>7
<1>20. \A i \in {1, 2} : a7[20 + i] = two[i]
  <2> TAKE i \in {1, 2}
  <2>10. 20 + i \in Nat /\ 1 <= 20 + i /\ 20 + i <= 22
    OBVIOUS
  <2>1. a6[20 + i] = two[i]
    BY <1>16 DEF Extends
  <2>2. a7[20 + i] = a6[20 + i]
    BY <1>17, <2>10, <1>9, Kept
  <2> QED  BY <2>1, <2>2
<1>21. a7[13] = tag[1] /\ a7[14] = tag[2] /\ a7[21] = two[1] /\ a7[22] = two[2]
  <2>1. 12 + 1 = 13 /\ 12 + 2 = 14 /\ 20 + 1 = 21 /\ 20 + 2 = 22
    OBVIOUS
  <2> QED  BY <1>19, <1>20, <2>1
<1>22. Front0 = a7
  BY DEF Front0, a1, a2, a3, a4, a5, a6, a7, d, two, appid, tag, tci, etype, zeros
<1> QED  BY <1>3, <1>5, <1>17, <1>18, <1>21, <1>22 DEF d

\* One element more in front is one less behind.
LEMMA StandsBefore ==
  \A front, item, back \in Seq(Byte) :
    Stands(front \o item, back) => Stands(front, item \o back)
<1> TAKE front, item, back \in Seq(Byte)
<1> HAVE Stands(front \o item, back)
<1> QED  BY CatCat DEF Stands

(* The elements in front of each place are bytes and have their sizes; those *)
(* behind it are bytes too.                                                  *)
LEMMA Fronts ==
  ASSUME gse \in GseControl
  PROVE  /\ Front1 = Front0 \o Heading(ASN1_TAG_SEQUENCE, getGseHeaderLength)
         /\ Heading(ASN1_TAG_SEQUENCE, getGseHeaderLength) \in Seq(Byte)
         /\ Front1 \in Seq(Byte) /\ Back1 \in Seq(Byte)
         /\ Front2 \in Seq(Byte) /\ Back2 \in Seq(Byte)
         /\ Front3 \in Seq(Byte) /\ Back3 \in Seq(Byte)
         /\ Front4 \in Seq(Byte) /\ Back4 \in Seq(Byte)
         /\ Front5 \in Seq(Byte) /\ Back5 \in Seq(Byte)
         /\ Front6 \in Seq(Byte) /\ Back6 \in Seq(Byte)
         /\ Front7 \in Seq(Byte) /\ Back7 \in Seq(Byte)
         /\ Front8 \in Seq(Byte) /\ Back8 \in Seq(Byte)
         /\ Front9 \in Seq(Byte) /\ Back9 \in Seq(Byte)
         /\ Front10 \in Seq(Byte) /\ Back10 \in Seq(Byte)
         /\ Front11 \in Seq(Byte) /\ Back11 \in Seq(Byte)
         /\ Front12 \in Seq(Byte) /\ Back12 \in Seq(Byte)
         /\ Front2 = Front1 \o Item(1) /\ Back1 = Item(1) \o Back2
         /\ Front3 = Front2 \o Item(2) /\ Back2 = Item(2) \o Back3
         /\ Front4 = Front3 \o Item(3) /\ Back3 = Item(3) \o Back4
         /\ Front5 = Front4 \o Item(4) /\ Back4 = Item(4) \o Back5
         /\ Front6 = Front5 \o Item(5) /\ Back5 = Item(5) \o Back6
         /\ Front7 = Front6 \o Item(6) /\ Back6 = Item(6) \o Back7
         /\ Front8 = Front7 \o Item(7) /\ Back7 = Item(7) \o Back8
         /\ Front9 = Front8 \o Item(8) /\ Back8 = Item(8) \o Back9
         /\ Front10 = Front9 \o Item(9) /\ Back9 = Item(9) \o Back10
         /\ Front11 = Front10 \o Item(10) /\ Back10 = Item(10) \o Back11
         /\ Front12 = Front11 \o Item(11) /\ Back11 = Item(11) \o Back12
         /\ Len(Front12) = 27 + getLengthBytes(getGseHeaderLength) + AllSizes
<1> DEFINE h == Heading(ASN1_TAG_SEQUENCE, getGseHeaderLength)
           e == encodeLength(getGseHeaderLength)
           b == getLengthBytes(getGseHeaderLength)
           a == <<ASN1_TAG_SEQUENCE>>
<1>30. getGseHeaderLength \in Nat /\ getGseHeaderLength < 256 * 256
  BY HeaderLength
<1>31. ASN1_TAG_SEQUENCE \in Byte /\ a \in Seq(Byte)
  BY DEF ASN1_TAG_SEQUENCE, Byte
<1>32. h \in Seq(Byte) /\ Len(h) = 1 + b /\ b \in Nat
  BY <1>30, <1>31, HeadingInBytes, LengthInBytes
<1>33. e \in Seq(Byte)
  BY <1>30, LengthInBytes
<1>34. Front0 \in Seq(Byte) /\ Len(Front0) = 26
  BY FrameHeader
<1>35. Front1 = Front0 \o h
  <2>1. Front1 = (Front0 \o a) \o e /\ h = a \o e
    BY DEF Front1, Heading
  <2> HIDE DEF a, e, h
  <2>2. (Front0 \o a) \o e = Front0 \o (a \o e)
    BY <1>31, <1>33, <1>34, CatCat
  <2> QED  BY <2>1, <2>2
<1> HIDE DEF h, b
<1>36. /\ Item(1) \in Seq(Byte) /\ Size(1) = Len(Item(1)) /\ Size(1) \in Nat
       /\ Item(2) \in Seq(Byte) /\ Size(2) = Len(Item(2)) /\ Size(2) \in Nat
       /\ Item(3) \in Seq(Byte) /\ Size(3) = Len(Item(3)) /\ Size(3) \in Nat
       /\ Item(4) \in Seq(Byte) /\ Size(4) = Len(Item(4)) /\ Size(4) \in Nat
       /\ Item(5) \in Seq(Byte) /\ Size(5) = Len(Item(5)) /\ Size(5) \in Nat
       /\ Item(6) \in Seq(Byte) /\ Size(6) = Len(Item(6)) /\ Size(6) \in Nat
       /\ Item(7) \in Seq(Byte) /\ Size(7) = Len(Item(7)) /\ Size(7) \in Nat
       /\ Item(8) \in Seq(Byte) /\ Size(8) = Len(Item(8)) /\ Size(8) \in Nat
       /\ Item(9) \in Seq(Byte) /\ Size(9) = Len(Item(9)) /\ Size(9) \in Nat
       /\ Item(10) \in Seq(Byte) /\ Size(10) = Len(Item(10)) /\ Size(10) \in Nat
       /\ Item(11) \in Seq(Byte) /\ Size(11) = Len(Item(11)) /\ Size(11) \in Nat
  <2>1. \A k \in 1 .. 11 : Item(k) \in Seq(Byte)
    BY ContentsInBytes
  <2>2. \A k \in 1 .. 11 : Size(k) \in Nat
    BY HeaderLength
  <2>3. \A k \in 1 .. 11 : Size(k) = Len(Item(k))
    BY DEF Size
  <2>4. \A k \in 1 .. 11 :
          Item(k) \in Seq(Byte) /\ Size(k) = Len(Item(k)) /\ Size(k) \in Nat
    BY <2>1, <2>2, <2>3
  <2> QED  BY <2>4
<1> DEFINE n1 == Len(Front1)
           n2 == Len(Front2)
           n3 == Len(Front3)
           n4 == Len(Front4)
           n5 == Len(Front5)
           n6 == Len(Front6)
           n7 == Len(Front7)
           n8 == Len(Front8)
           n9 == Len(Front9)
           n10 == Len(Front10)
           n11 == Len(Front11)
           n12 == Len(Front12)
<1>37. /\ n1 = Len(Front1)
       /\ n2 = Len(Front2)
       /\ n3 = Len(Front3)
       /\ n4 = Len(Front4)
       /\ n5 = Len(Front5)
       /\ n6 = Len(Front6)
       /\ n7 = Len(Front7)
       /\ n8 = Len(Front8)
       /\ n9 = Len(Front9)
       /\ n10 = Len(Front10)
       /\ n11 = Len(Front11)
       /\ n12 = Len(Front12)
  OBVIOUS
<1> HIDE DEF n1, n2, n3, n4, n5, n6, n7, n8, n9, n10, n11, n12
<1>1. Front1 \in Seq(Byte) /\ Len(Front1) = n1 /\ n1 = 26 + (1 + b)
  <2>1. Front0 \o h \in Seq(Byte) /\ Len(Front0 \o h) = Len(Front0) + Len(h)
    BY <1>32, <1>34, Cat
  <2> QED  BY <1>32, <1>34, <1>35, <1>37, <2>1, Zenon
<1>2. /\ Front2 \in Seq(Byte) /\ Len(Front2) = n2 /\ n2 = n1 + Size(1)
      /\ Front2 = Front1 \o Item(1)
  <2>1. Front2 = Front1 \o Item(1)
    BY <1>1, FrontGrows
  <2>2. Item(1) \in Seq(Byte) /\ Len(Item(1)) = Size(1)
    BY <1>36, Zenon
  <2>3. Front1 \o Item(1) \in Seq(Byte) /\ Len(Front1 \o Item(1)) = Len(Front1) + Len(Item(1))
    BY <1>1, <2>2, Cat
  <2> QED  BY <1>37, <2>1, <2>2, <2>3, Zenon
<1>3. /\ Front3 \in Seq(Byte) /\ Len(Front3) = n3 /\ n3 = n2 + Size(2)
      /\ Front3 = Front2 \o Item(2)
  <2>1. Front3 = Front2 \o Item(2)
    BY <1>2, FrontGrows
  <2>2. Item(2) \in Seq(Byte) /\ Len(Item(2)) = Size(2)
    BY <1>36, Zenon
  <2>3. Front2 \o Item(2) \in Seq(Byte) /\ Len(Front2 \o Item(2)) = Len(Front2) + Len(Item(2))
    BY <1>2, <2>2, Cat
  <2> QED  BY <1>37, <2>1, <2>2, <2>3, Zenon
<1>4. /\ Front4 \in Seq(Byte) /\ Len(Front4) = n4 /\ n4 = n3 + Size(3)
      /\ Front4 = Front3 \o Item(3)
  <2>1. Front4 = Front3 \o Item(3)
    BY <1>3, FrontGrows
  <2>2. Item(3) \in Seq(Byte) /\ Len(Item(3)) = Size(3)
    BY <1>36, Zenon
  <2>3. Front3 \o Item(3) \in Seq(Byte) /\ Len(Front3 \o Item(3)) = Len(Front3) + Len(Item(3))
    BY <1>3, <2>2, Cat
  <2> QED  BY <1>37, <2>1, <2>2, <2>3, Zenon
<1>5. /\ Front5 \in Seq(Byte) /\ Len(Front5) = n5 /\ n5 = n4 + Size(4)
      /\ Front5 = Front4 \o Item(4)
  <2>1. Front5 = Front4 \o Item(4)
    BY <1>4, FrontGrows
  <2>2. Item(4) \in Seq(Byte) /\ Len(Item(4)) = Size(4)
    BY <1>36, Zenon
  <2>3. Front4 \o Item(4) \in Seq(Byte) /\ Len(Front4 \o Item(4)) = Len(Front4) + Len(Item(4))
    BY <1>4, <2>2, Cat
  <2> QED  BY <1>37, <2>1, <2>2, <2>3, Zenon
<1>6. /\ Front6 \in Seq(Byte) /\ Len(Front6) = n6 /\ n6 = n5 + Size(5)
      /\ Front6 = Front5 \o Item(5)
  <2>1. Front6 = Front5 \o Item(5)
    BY <1>5, FrontGrows
  <2>2. Item(5) \in Seq(Byte) /\ Len(Item(5)) = Size(5)
    BY <1>36, Zenon
  <2>3. Front5 \o Item(5) \in Seq(Byte) /\ Len(Front5 \o Item(5)) = Len(Front5) + Len(Item(5))
    BY <1>5, <2>2, Cat
  <2> QED  BY <1>37, <2>1, <2>2, <2>3, Zenon
<1>7. /\ Front7 \in Seq(Byte) /\ Len(Front7) = n7 /\ n7 = n6 + Size(6)
      /\ Front7 = Front6 \o Item(6)
  <2>1. Front7 = Front6 \o Item(6)
    BY <1>6, FrontGrows
  <2>2. Item(6) \in Seq(Byte) /\ Len(Item(6)) = Size(6)
    BY <1>36, Zenon
  <2>3. Front6 \o Item(6) \in Seq(Byte) /\ Len(Front6 \o Item(6)) = Len(Front6) + Len(Item(6))
    BY <1>6, <2>2, Cat
  <2> QED  BY <1>37, <2>1, <2>2, <2>3, Zenon
<1>8. /\ Front8 \in Seq(Byte) /\ Len(Front8) = n8 /\ n8 = n7 + Size(7)
      /\ Front8 = Front7 \o Item(7)
  <2>1. Front8 = Front7 \o Item(7)
    BY <1>7, FrontGrows
  <2>2. Item(7) \in Seq(Byte) /\ Len(Item(7)) = Size(7)
    BY <1>36, Zenon
  <2>3. Front7 \o Item(7) \in Seq(Byte) /\ Len(Front7 \o Item(7)) = Len(Front7) + Len(Item(7))
    BY <1>7, <2>2, Cat
  <2> QED  BY <1>37, <2>1, <2>2, <2>3, Zenon
<1>9. /\ Front9 \in Seq(Byte) /\ Len(Front9) = n9 /\ n9 = n8 + Size(8)
      /\ Front9 = Front8 \o Item(8)
  <2>1. Front9 = Front8 \o Item(8)
    BY <1>8, FrontGrows
  <2>2. Item(8) \in Seq(Byte) /\ Len(Item(8)) = Size(8)
    BY <1>36, Zenon
  <2>3. Front8 \o Item(8) \in Seq(Byte) /\ Len(Front8 \o Item(8)) = Len(Front8) + Len(Item(8))
    BY <1>8, <2>2, Cat
  <2> QED  BY <1>37, <2>1, <2>2, <2>3, Zenon
<1>10. /\ Front10 \in Seq(Byte) /\ Len(Front10) = n10 /\ n10 = n9 + Size(9)
      /\ Front10 = Front9 \o Item(9)
  <2>1. Front10 = Front9 \o Item(9)
    BY <1>9, FrontGrows
  <2>2. Item(9) \in Seq(Byte) /\ Len(Item(9)) = Size(9)
    BY <1>36, Zenon
  <2>3. Front9 \o Item(9) \in Seq(Byte) /\ Len(Front9 \o Item(9)) = Len(Front9) + Len(Item(9))
    BY <1>9, <2>2, Cat
  <2> QED  BY <1>37, <2>1, <2>2, <2>3, Zenon
<1>11. /\ Front11 \in Seq(Byte) /\ Len(Front11) = n11 /\ n11 = n10 + Size(10)
      /\ Front11 = Front10 \o Item(10)
  <2>1. Front11 = Front10 \o Item(10)
    BY <1>10, FrontGrows
  <2>2. Item(10) \in Seq(Byte) /\ Len(Item(10)) = Size(10)
    BY <1>36, Zenon
  <2>3. Front10 \o Item(10) \in Seq(Byte) /\ Len(Front10 \o Item(10)) = Len(Front10) + Len(Item(10))
    BY <1>10, <2>2, Cat
  <2> QED  BY <1>37, <2>1, <2>2, <2>3, Zenon
<1>12. /\ Front12 \in Seq(Byte) /\ Len(Front12) = n12 /\ n12 = n11 + Size(11)
      /\ Front12 = Front11 \o Item(11)
  <2>1. Front12 = Front11 \o Item(11)
    BY <1>11, FrontGrows
  <2>2. Item(11) \in Seq(Byte) /\ Len(Item(11)) = Size(11)
    BY <1>36, Zenon
  <2>3. Front11 \o Item(11) \in Seq(Byte) /\ Len(Front11 \o Item(11)) = Len(Front11) + Len(Item(11))
    BY <1>11, <2>2, Cat
  <2> QED  BY <1>37, <2>1, <2>2, <2>3, Zenon
<1>40. Back12 \in Seq(Byte)
  BY DEF Back12, GSE_TAG_ALLDATA, Byte
<1>41. Back11 \in Seq(Byte) /\ Back11 = Item(11) \o Back12
  <2>1. Item(11) \in Seq(Byte)
    BY <1>36, Zenon
  <2> QED  BY <1>40, <2>1, Cat DEF Back11
<1>42. Back10 \in Seq(Byte) /\ Back10 = Item(10) \o Back11
  <2>1. Item(10) \in Seq(Byte)
    BY <1>36, Zenon
  <2> QED  BY <1>41, <2>1, Cat DEF Back10
<1>43. Back9 \in Seq(Byte) /\ Back9 = Item(9) \o Back10
  <2>1. Item(9) \in Seq(Byte)
    BY <1>36, Zenon
  <2> QED  BY <1>42, <2>1, Cat DEF Back9
<1>44. Back8 \in Seq(Byte) /\ Back8 = Item(8) \o Back9
  <2>1. Item(8) \in Seq(Byte)
    BY <1>36, Zenon
  <2> QED  BY <1>43, <2>1, Cat DEF Back8
<1>45. Back7 \in Seq(Byte) /\ Back7 = Item(7) \o Back8
  <2>1. Item(7) \in Seq(Byte)
    BY <1>36, Zenon
  <2> QED  BY <1>44, <2>1, Cat DEF Back7
<1>46. Back6 \in Seq(Byte) /\ Back6 = Item(6) \o Back7
  <2>1. Item(6) \in Seq(Byte)
    BY <1>36, Zenon
  <2> QED  BY <1>45, <2>1, Cat DEF Back6
<1>47. Back5 \in Seq(Byte) /\ Back5 = Item(5) \o Back6
  <2>1. Item(5) \in Seq(Byte)
    BY <1>36, Zenon
  <2> QED  BY <1>46, <2>1, Cat DEF Back5
<1>48. Back4 \in Seq(Byte) /\ Back4 = Item(4) \o Back5
  <2>1. Item(4) \in Seq(Byte)
    BY <1>36, Zenon
  <2> QED  BY <1>47, <2>1, Cat DEF Back4
<1>49. Back3 \in Seq(Byte) /\ Back3 = Item(3) \o Back4
  <2>1. Item(3) \in Seq(Byte)
    BY <1>36, Zenon
  <2> QED  BY <1>48, <2>1, Cat DEF Back3
<1>50. Back2 \in Seq(Byte) /\ Back2 = Item(2) \o Back3
  <2>1. Item(2) \in Seq(Byte)
    BY <1>36, Zenon
  <2> QED  BY <1>49, <2>1, Cat DEF Back2
<1>51. Back1 \in Seq(Byte) /\ Back1 = Item(1) \o Back2
  <2>1. Item(1) \in Seq(Byte)
    BY <1>36, Zenon
  <2> QED  BY <1>50, <2>1, Cat DEF Back1
<1>60. n12 = 27 + b + AllSizes
  <2>1. n1 = 26 + (1 + b) /\ b \in Nat
    BY <1>1, <1>32
  <2>2. n2 = n1 + Size(1) /\ Size(1) \in Nat
    BY <1>2, <1>36, Zenon
  <2>3. n3 = n2 + Size(2) /\ Size(2) \in Nat
    BY <1>3, <1>36, Zenon
  <2>4. n4 = n3 + Size(3) /\ Size(3) \in Nat
    BY <1>4, <1>36, Zenon
  <2>5. n5 = n4 + Size(4) /\ Size(4) \in Nat
    BY <1>5, <1>36, Zenon
  <2>6. n6 = n5 + Size(5) /\ Size(5) \in Nat
    BY <1>6, <1>36, Zenon
  <2>7. n7 = n6 + Size(6) /\ Size(6) \in Nat
    BY <1>7, <1>36, Zenon
  <2>8. n8 = n7 + Size(7) /\ Size(7) \in Nat
    BY <1>8, <1>36, Zenon
  <2>9. n9 = n8 + Size(8) /\ Size(8) \in Nat
    BY <1>9, <1>36, Zenon
  <2>10. n10 = n9 + Size(9) /\ Size(9) \in Nat
    BY <1>10, <1>36, Zenon
  <2>11. n11 = n10 + Size(10) /\ Size(10) \in Nat
    BY <1>11, <1>36, Zenon
  <2>12. n12 = n11 + Size(11) /\ Size(11) \in Nat
    BY <1>12, <1>36, Zenon
  <2> QED  BY <2>1, <2>2, <2>3, <2>4, <2>5, <2>6, <2>7, <2>8, <2>9, <2>10, <2>11, <2>12 DEF AllSizes
<1> QED  BY <1>1, <1>2, <1>3, <1>4, <1>5, <1>6, <1>7, <1>8, <1>9, <1>10, <1>11, <1>12,
         <1>32, <1>35, <1>37, <1>40, <1>41, <1>42, <1>43, <1>44, <1>45, <1>46, <1>47,
         <1>48, <1>49, <1>50, <1>51, <1>60, Zenon DEF b, h

(* Wherever the decoder may be, it is between what is in front and what is  *)
(* behind.                                                                  *)
LEMMA Layout ==
  ASSUME gse \in GseControl, frame = gseEncodePacket
  PROVE  /\ \A k \in 1 .. 12 : Ahead(k) \in Seq(Byte)
         /\ \A k \in 1 .. 11 : /\ Ahead(k + 1) = Ahead(k) \o Item(k)
                              /\ Back(k + 1) \in Seq(Byte)
                              /\ Stands(Ahead(k), Item(k) \o Back(k + 1))
         /\ Stands(Front12, <<GSE_TAG_ALLDATA>>)
         /\ Stands(Front0, Heading(ASN1_TAG_SEQUENCE, getGseHeaderLength) \o Back1)
<1> USE Fronts
<1>12. Stands(Front12, Back12)
  BY PacketIsFront DEF Stands
<1>11. Stands(Front11, Back11) /\ Stands(Front11, Item(11) \o Back12)
  <2>1. Item(11) \in Seq(Byte)
    BY ContentsInBytes
  <2>2. Front12 = Front11 \o Item(11) /\ Back11 = Item(11) \o Back12
        /\ Front11 \in Seq(Byte) /\ Back12 \in Seq(Byte)
    OBVIOUS
  <2> QED  BY <1>12, <2>1, <2>2, StandsBefore, Zenon
<1>10. Stands(Front10, Back10) /\ Stands(Front10, Item(10) \o Back11)
  <2>1. Item(10) \in Seq(Byte)
    BY ContentsInBytes
  <2>2. Front11 = Front10 \o Item(10) /\ Back10 = Item(10) \o Back11
        /\ Front10 \in Seq(Byte) /\ Back11 \in Seq(Byte)
    OBVIOUS
  <2> QED  BY <1>11, <2>1, <2>2, StandsBefore, Zenon
<1>9. Stands(Front9, Back9) /\ Stands(Front9, Item(9) \o Back10)
  <2>1. Item(9) \in Seq(Byte)
    BY ContentsInBytes
  <2>2. Front10 = Front9 \o Item(9) /\ Back9 = Item(9) \o Back10
        /\ Front9 \in Seq(Byte) /\ Back10 \in Seq(Byte)
    OBVIOUS
  <2> QED  BY <1>10, <2>1, <2>2, StandsBefore, Zenon
<1>8. Stands(Front8, Back8) /\ Stands(Front8, Item(8) \o Back9)
  <2>1. Item(8) \in Seq(Byte)
    BY ContentsInBytes
  <2>2. Front9 = Front8 \o Item(8) /\ Back8 = Item(8) \o Back9
        /\ Front8 \in Seq(Byte) /\ Back9 \in Seq(Byte)
    OBVIOUS
  <2> QED  BY <1>9, <2>1, <2>2, StandsBefore, Zenon
<1>7. Stands(Front7, Back7) /\ Stands(Front7, Item(7) \o Back8)
  <2>1. Item(7) \in Seq(Byte)
    BY ContentsInBytes
  <2>2. Front8 = Front7 \o Item(7) /\ Back7 = Item(7) \o Back8
        /\ Front7 \in Seq(Byte) /\ Back8 \in Seq(Byte)
    OBVIOUS
  <2> QED  BY <1>8, <2>1, <2>2, StandsBefore, Zenon
<1>6. Stands(Front6, Back6) /\ Stands(Front6, Item(6) \o Back7)
  <2>1. Item(6) \in Seq(Byte)
    BY ContentsInBytes
  <2>2. Front7 = Front6 \o Item(6) /\ Back6 = Item(6) \o Back7
        /\ Front6 \in Seq(Byte) /\ Back7 \in Seq(Byte)
    OBVIOUS
  <2> QED  BY <1>7, <2>1, <2>2, StandsBefore, Zenon
<1>5. Stands(Front5, Back5) /\ Stands(Front5, Item(5) \o Back6)
  <2>1. Item(5) \in Seq(Byte)
    BY ContentsInBytes
  <2>2. Front6 = Front5 \o Item(5) /\ Back5 = Item(5) \o Back6
        /\ Front5 \in Seq(Byte) /\ Back6 \in Seq(Byte)
    OBVIOUS
  <2> QED  BY <1>6, <2>1, <2>2, StandsBefore, Zenon
<1>4. Stands(Front4, Back4) /\ Stands(Front4, Item(4) \o Back5)
  <2>1. Item(4) \in Seq(Byte)
    BY ContentsInBytes
  <2>2. Front5 = Front4 \o Item(4) /\ Back4 = Item(4) \o Back5
        /\ Front4 \in Seq(Byte) /\ Back5 \in Seq(Byte)
    OBVIOUS
  <2> QED  BY <1>5, <2>1, <2>2, StandsBefore, Zenon
<1>3. Stands(Front3, Back3) /\ Stands(Front3, Item(3) \o Back4)
  <2>1. Item(3) \in Seq(Byte)
    BY ContentsInBytes
  <2>2. Front4 = Front3 \o Item(3) /\ Back3 = Item(3) \o Back4
        /\ Front3 \in Seq(Byte) /\ Back4 \in Seq(Byte)
    OBVIOUS
  <2> QED  BY <1>4, <2>1, <2>2, StandsBefore, Zenon
<1>2. Stands(Front2, Back2) /\ Stands(Front2, Item(2) \o Back3)
  <2>1. Item(2) \in Seq(Byte)
    BY ContentsInBytes
  <2>2. Front3 = Front2 \o Item(2) /\ Back2 = Item(2) \o Back3
        /\ Front2 \in Seq(Byte) /\ Back3 \in Seq(Byte)
    OBVIOUS
  <2> QED  BY <1>3, <2>1, <2>2, StandsBefore, Zenon
<1>1. Stands(Front1, Back1) /\ Stands(Front1, Item(1) \o Back2)
  <2>1. Item(1) \in Seq(Byte)
    BY ContentsInBytes
  <2>2. Front2 = Front1 \o Item(1) /\ Back1 = Item(1) \o Back2
        /\ Front1 \in Seq(Byte) /\ Back2 \in Seq(Byte)
    OBVIOUS
  <2> QED  BY <1>2, <2>1, <2>2, StandsBefore, Zenon
<1>13. Stands(Front0, Heading(ASN1_TAG_SEQUENCE, getGseHeaderLength) \o Back1)
  <2>1. Front0 \in Seq(Byte)
    BY FrameHeader
  <2>2. /\ Front1 = Front0 \o Heading(ASN1_TAG_SEQUENCE, getGseHeaderLength)
        /\ Heading(ASN1_TAG_SEQUENCE, getGseHeaderLength) \in Seq(Byte)
        /\ Back1 \in Seq(Byte)
    OBVIOUS
  <2> QED  BY <1>1, <2>1, <2>2, StandsBefore, Zenon
<1>14. ASSUME NEW k \in 1 .. 12
       PROVE  Ahead(k) \in Seq(Byte)
  <2>1. \/ k = 1 \/ k = 2 \/ k = 3 \/ k = 4 \/ k = 5 \/ k = 6
        \/ k = 7 \/ k = 8 \/ k = 9 \/ k = 10 \/ k = 11 \/ k = 12
    OBVIOUS
  <2> QED  BY <2>1, FrontAndBack, Zenon
<1>15. ASSUME NEW k \in 1 .. 11
       PROVE  /\ Ahead(k + 1) = Ahead(k) \o Item(k)
              /\ Back(k + 1) \in Seq(Byte)
              /\ Stands(Ahead(k), Item(k) \o Back(k + 1))
  <2>1. CASE k = 1
    <3>1. k + 1 = 2
      BY <2>1
    <3>2. /\ Front2 = Front1 \o Item(1) /\ Back2 \in Seq(Byte)
          /\ Stands(Front1, Item(1) \o Back2)
      BY <1>1
    <3> QED  BY <2>1, <3>1, <3>2, FrontAndBack, Zenon
  <2>2. CASE k = 2
    <3>1. k + 1 = 3
      BY <2>2
    <3>2. /\ Front3 = Front2 \o Item(2) /\ Back3 \in Seq(Byte)
          /\ Stands(Front2, Item(2) \o Back3)
      BY <1>2
    <3> QED  BY <2>2, <3>1, <3>2, FrontAndBack, Zenon
  <2>3. CASE k = 3
    <3>1. k + 1 = 4
      BY <2>3
    <3>2. /\ Front4 = Front3 \o Item(3) /\ Back4 \in Seq(Byte)
          /\ Stands(Front3, Item(3) \o Back4)
      BY <1>3
    <3> QED  BY <2>3, <3>1, <3>2, FrontAndBack, Zenon
  <2>4. CASE k = 4
    <3>1. k + 1 = 5
      BY <2>4
    <3>2. /\ Front5 = Front4 \o Item(4) /\ Back5 \in Seq(Byte)
          /\ Stands(Front4, Item(4) \o Back5)
      BY <1>4
    <3> QED  BY <2>4, <3>1, <3>2, FrontAndBack, Zenon
  <2>5. CASE k = 5
    <3>1. k + 1 = 6
      BY <2>5
    <3>2. /\ Front6 = Front5 \o Item(5) /\ Back6 \in Seq(Byte)
          /\ Stands(Front5, Item(5) \o Back6)
      BY <1>5
    <3> QED  BY <2>5, <3>1, <3>2, FrontAndBack, Zenon
  <2>6. CASE k = 6
    <3>1. k + 1 = 7
      BY <2>6
    <3>2. /\ Front7 = Front6 \o Item(6) /\ Back7 \in Seq(Byte)
          /\ Stands(Front6, Item(6) \o Back7)
      BY <1>6
    <3> QED  BY <2>6, <3>1, <3>2, FrontAndBack, Zenon
  <2>7. CASE k = 7
    <3>1. k + 1 = 8
      BY <2>7
    <3>2. /\ Front8 = Front7 \o Item(7) /\ Back8 \in Seq(Byte)
          /\ Stands(Front7, Item(7) \o Back8)
      BY <1>7
    <3> QED  BY <2>7, <3>1, <3>2, FrontAndBack, Zenon
  <2>8. CASE k = 8
    <3>1. k + 1 = 9
      BY <2>8
    <3>2. /\ Front9 = Front8 \o Item(8) /\ Back9 \in Seq(Byte)
          /\ Stands(Front8, Item(8) \o Back9)
      BY <1>8
    <3> QED  BY <2>8, <3>1, <3>2, FrontAndBack, Zenon
  <2>9. CASE k = 9
    <3>1. k + 1 = 10
      BY <2>9
    <3>2. /\ Front10 = Front9 \o Item(9) /\ Back10 \in Seq(Byte)
          /\ Stands(Front9, Item(9) \o Back10)
      BY <1>9
    <3> QED  BY <2>9, <3>1, <3>2, FrontAndBack, Zenon
  <2>10. CASE k = 10
    <3>1. k + 1 = 11
      BY <2>10
    <3>2. /\ Front11 = Front10 \o Item(10) /\ Back11 \in Seq(Byte)
          /\ Stands(Front10, Item(10) \o Back11)
      BY <1>10
    <3> QED  BY <2>10, <3>1, <3>2, FrontAndBack, Zenon
  <2>11. CASE k = 11
    <3>1. k + 1 = 12
      BY <2>11
    <3>2. /\ Front12 = Front11 \o Item(11) /\ Back12 \in Seq(Byte)
          /\ Stands(Front11, Item(11) \o Back12)
      BY <1>11
    <3> QED  BY <2>11, <3>1, <3>2, FrontAndBack, Zenon
  <2>12. \/ k = 1 \/ k = 2 \/ k = 3 \/ k = 4 \/ k = 5 \/ k = 6
         \/ k = 7 \/ k = 8 \/ k = 9 \/ k = 10 \/ k = 11
    OBVIOUS
  <2> QED  BY <2>1, <2>2, <2>3, <2>4, <2>5, <2>6, <2>7, <2>8, <2>9, <2>10, <2>11,
              <2>12, Zenon
<1> QED  BY <1>12, <1>13, <1>14, <1>15, Zenon DEF Back12
--------------------------------------------------------------------------------
(* What the decoder sees at each place of the packet. *)

Place(k) == Len(Ahead(k)) + 1

LEMMA AtPlaces ==
  ASSUME gse \in GseControl, rest \in Byte, frame = gseEncodePacket
  PROVE  \A k \in 1 .. 11 :
           /\ ElementRead(Place(k), Ahead(k), Tag(k), Contents(k))
           /\ Behind(Place(k)) = Place(k + 1)
           /\ Place(k) \in Nat /\ Place(k) <= Len(frame)
<1> TAKE k \in 1 .. 11
<1> DEFINE f == Ahead(k)
           i == Item(k)
           b == Back(k + 1)
           c == Contents(k)
<1>1. /\ f \in Seq(Byte) /\ Ahead(k + 1) = f \o i
      /\ b \in Seq(Byte) /\ Stands(f, i \o b)
  <2>1. k \in 1 .. 12
    OBVIOUS
  <2> QED  BY <2>1, Layout
<1>2. /\ Tag(k) \in Byte /\ Few(c) /\ i \in Seq(Byte) /\ Len(i) = Len(c) + 2
      /\ i = Complete(Tag(k), c)
  BY ContentsInBytes DEF Item
<1>3. c \in Seq(Byte) /\ Len(c) \in Nat /\ Len(c) <= 126
  BY <1>2 DEF Few
<1> HIDE DEF f, i, b, c
<1>4. Len(c) < 256 * 256
  BY <1>3
<1>5. ElementRead(Len(f) + 1, f, Tag(k), c)
  BY <1>1, <1>2, <1>3, <1>4, AtElement
<1>6. Behind(Len(f) + 1) = Len(f \o i) + 1
  BY <1>2, <1>5 DEF ElementRead
<1>7. Len(f) \in Nat /\ Len(f) + 1 <= Len(frame)
  <2>1. /\ Len(i \o b) = Len(i) + Len(b)
        /\ i \o b \in Seq(Byte)
        /\ Len(i) \in Nat /\ Len(b) \in Nat /\ Len(f) \in Nat
    <3>1. f \in Seq(Byte) /\ i \in Seq(Byte) /\ b \in Seq(Byte)
      BY <1>1, <1>2
    <3>2. Len(i) \in Nat /\ Len(b) \in Nat /\ Len(f) \in Nat
      BY <3>1, LenProperties
    <3> QED  BY <3>1, <3>2, Cat, Zenon
  <2>2. Len(frame) = Len(f) + Len(i \o b)
    BY <1>1, <2>1, Cat DEF Stands
  <2> QED  BY <1>2, <1>3, <2>1, <2>2
<1> QED  BY <1>1, <1>5, <1>6, <1>7 DEF Place, f, i, c

LEMMA AtLastPlace ==
  ASSUME gse \in GseControl, rest \in Byte, frame = gseEncodePacket
  PROVE  /\ From(Place(12))[1] = GSE_TAG_ALLDATA
         /\ Place(12) = Len(frame)
         /\ Len(frame) \in Nat
         /\ Len(frame) = 28 + getLengthBytes(getGseHeaderLength) + AllSizes
<1> DEFINE a == <<GSE_TAG_ALLDATA>>
           f == Front12
<1>1. f \in Seq(Byte) /\ frame = f \o a /\ Ahead(12) = f
  BY Fronts, Layout, FrontAndBack, Zenon DEF Stands
<1>2. Len(f) = 27 + getLengthBytes(getGseHeaderLength) + AllSizes
  BY Fronts, Zenon
<1>3. a \in Seq(Byte) /\ Len(a) = 1 /\ a[1] = GSE_TAG_ALLDATA
  BY DEF GSE_TAG_ALLDATA, Byte
<1>4. Beyond \in Seq(Byte)
  BY DEF Beyond
<1> HIDE DEF a, f
<1>5. From(Len(f) + 1) = a \o Beyond
  BY <1>1, <1>3, Dropped DEF From, Beyond
<1>6. (a \o Beyond)[1] = GSE_TAG_ALLDATA
  <2>1. 1 \in 1 .. Len(a)
    BY <1>3
  <2> QED  BY <1>3, <1>4, <2>1, CatAt
<1>7. Len(f) \in Nat /\ Len(frame) = Len(f) + 1
  <2>1. Len(f) \in Nat
    BY <1>1, LenProperties
  <2>2. Len(f \o a) = Len(f) + Len(a)
    BY <1>1, <1>3, Cat, Zenon
  <2> QED  BY <1>1, <1>3, <2>1, <2>2
<1>8. /\ getLengthBytes(getGseHeaderLength) \in Nat
      /\ AllSizes \in Nat
  <2>1. getLengthBytes(getGseHeaderLength) \in 1 .. 3
    BY Announced
  <2>2. \A k \in 1 .. 11 : Size(k) \in Nat
    BY HeaderLength
  <2> QED  BY <2>1, <2>2 DEF AllSizes
<1>9. Len(frame) = 28 + getLengthBytes(getGseHeaderLength) + AllSizes
  BY <1>2, <1>7, <1>8
<1> QED  BY <1>1, <1>5, <1>6, <1>7, <1>9 DEF Place

LEMMA AtSequence ==
  ASSUME gse \in GseControl, rest \in Byte, frame = gseEncodePacket
  PROVE  /\ From(27)[1] = ASN1_TAG_SEQUENCE
         /\ Inside(27) = Place(1)
         /\ Inside(27) = 28 + getLengthBytes(getGseHeaderLength)
         /\ LengthValue(27) = getGseHeaderLength
<1> DEFINE h == Heading(ASN1_TAG_SEQUENCE, getGseHeaderLength)
<1>1. Front0 \in Seq(Byte) /\ Len(Front0) = 26
  BY FrameHeader
<1>2. Front1 = Front0 \o h /\ Back1 \in Seq(Byte)
  BY Fronts, Zenon
<1>3. Stands(Front0, h \o Back1)
  BY Layout
<1>4. getGseHeaderLength \in Nat /\ getGseHeaderLength < 256 * 256
  BY HeaderLength
<1>5. ASN1_TAG_SEQUENCE \in Byte
  BY DEF ASN1_TAG_SEQUENCE, Byte
<1>6. HeadingRead(Len(Front0) + 1, Front0, ASN1_TAG_SEQUENCE, getGseHeaderLength, Back1)
  BY <1>1, <1>2, <1>3, <1>4, <1>5, AtHeading
<1>7. Len(Front0) + 1 = 27
  BY <1>1
<1>8. HeadingRead(27, Front0, ASN1_TAG_SEQUENCE, getGseHeaderLength, Back1)
  BY <1>6, <1>7
<1>9. /\ From(27)[1] = ASN1_TAG_SEQUENCE
      /\ Inside(27) = 27 + 1 + getLengthBytes(getGseHeaderLength)
      /\ Inside(27) = Len(Front0 \o h) + 1
      /\ LengthValue(27) = getGseHeaderLength
  BY <1>8, Zenon DEF HeadingRead
<1>10. 27 + 1 + getLengthBytes(getGseHeaderLength)
         = 28 + getLengthBytes(getGseHeaderLength)
  <2>1. getLengthBytes(getGseHeaderLength) \in 1 .. 3
    BY Announced
  <2> QED  BY <2>1
<1>11. Place(1) = Len(Front0 \o h) + 1
  BY <1>2, FrontAndBack DEF Place
<1> QED  BY <1>9, <1>10, <1>11

\* The frame header is where the filter and gseDecode look for it.
LEMMA AtFilter ==
  ASSUME gse \in GseControl, frame = gseEncodePacket
  PROVE  /\ SubSeq(frame, 1, 4) = SubSeq(gse.destMACAddress, 1, 4)
         /\ frame[13] = 129 /\ frame[14] = 0
         /\ frame[21] * 256 + frame[22] = AnnouncedLength
         /\ 27 <= Len(frame)
<1> DEFINE b == Heading(ASN1_TAG_SEQUENCE, getGseHeaderLength) \o Back1
           d == gse.destMACAddress
           f == Front0
<1>1. f \in Seq(Byte) /\ Len(f) = 26
  BY FrameHeader
<1>2. b \in Seq(Byte) /\ frame = f \o b
  <2>1. Heading(ASN1_TAG_SEQUENCE, getGseHeaderLength) \in Seq(Byte) /\ Back1 \in Seq(Byte)
    BY Fronts, Zenon
  <2> QED  BY <2>1, Cat, Layout DEF Stands
<1>3. /\ f[1] = d[1] /\ f[2] = d[2] /\ f[3] = d[3] /\ f[4] = d[4]
      /\ f[13] = 129 /\ f[14] = 0 /\ f[21] * 256 + f[22] = AnnouncedLength
  BY FrameHeader
<1>4. d \in Seq(Byte) /\ Len(d) = 6
  BY ControlFields, OctetsAreValues
<1> HIDE DEF b, f
<1>5. \A i \in 1 .. 26 : frame[i] = f[i]
  <2>1. \A i \in 1 .. Len(f) : (f \o b)[i] = f[i]
    BY <1>1, <1>2, CatAt, Zenon
  <2> QED  BY <1>1, <1>2, <2>1
<1>6. frame \in Seq(Byte) /\ Len(frame) = Len(f) + Len(b)
  BY <1>1, <1>2, Cat
<1>7. 27 <= Len(frame)
  <2>1. frame = Front12 \o <<GSE_TAG_ALLDATA>> /\ Front12 \in Seq(Byte)
    BY Layout, Fronts, Zenon DEF Stands
  <2>2. AllSizes \in Nat
    <3>1. \A k \in 1 .. 11 : Size(k) \in Nat
      BY HeaderLength
    <3> QED  BY <3>1 DEF AllSizes
  <2>3. getLengthBytes(getGseHeaderLength) \in 1 .. 3
    BY Announced
  <2>4. Len(Front12) = 27 + getLengthBytes(getGseHeaderLength) + AllSizes
    BY Fronts, Zenon
  <2>5. <<GSE_TAG_ALLDATA>> \in Seq(Byte) /\ Len(<<GSE_TAG_ALLDATA>>) = 1
    BY DEF GSE_TAG_ALLDATA, Byte
  <2>6. Len(frame) = Len(Front12) + 1
    BY <2>1, <2>5, Cat
  <2> QED  BY <2>2, <2>3, <2>4, <2>6
<1>8. SubSeq(frame, 1, 4) = SubSeq(d, 1, 4)
  <2>1. /\ frame[1] = d[1] /\ frame[2] = d[2] /\ frame[3] = d[3] /\ frame[4] = d[4]
    BY <1>3, <1>5
  <2>2. \A i \in 1 .. 4 : frame[i] = d[i]
    BY <2>1
  <2>3. \A i \in 1 .. 4 : i \in 1 .. Len(frame) /\ i \in 1 .. Len(d)
    BY <1>4, <1>7
  <2>4. \A i \in 1 .. 4 : frame[i] \in Byte /\ d[i] \in Byte
    BY <1>4, <1>6, <2>3
  <2>5. \A s \in Seq(Byte) : (\A i \in 1 .. 4 : s[i] \in Byte) =>
          /\ SubSeq(s, 1, 4) \in Seq(Byte) /\ Len(SubSeq(s, 1, 4)) = 4
          /\ \A i \in 1 .. 4 : SubSeq(s, 1, 4)[i] = s[i]
    <3> TAKE s \in Seq(Byte)
    <3> HAVE \A i \in 1 .. 4 : s[i] \in Byte
    <3>1. /\ SubSeq(s, 1, 4) \in Seq(Byte)
          /\ Len(SubSeq(s, 1, 4)) = IF 1 <= 4 THEN 4 - 1 + 1 ELSE 0
          /\ \A i \in 1 .. 4 - 1 + 1 : SubSeq(s, 1, 4)[i] = s[1 + i - 1]
      BY SubSeqProperties
    <3> QED  BY <3>1
  <2> DEFINE u == SubSeq(frame, 1, 4)
             v == SubSeq(d, 1, 4)
  <2>6. /\ u \in Seq(Byte) /\ Len(u) = 4 /\ \A i \in 1 .. 4 : u[i] = frame[i]
        /\ v \in Seq(Byte) /\ Len(v) = 4 /\ \A i \in 1 .. 4 : v[i] = d[i]
    BY <1>4, <1>6, <2>4, <2>5
  <2> HIDE DEF u, v
  <2>7. Len(u) = Len(v) /\ \A i \in 1 .. Len(u) : u[i] = v[i]
    BY <2>2, <2>6
  <2>8. u = v
    BY <2>6, <2>7, SeqEqual
  <2> QED  BY <2>8 DEF u, v
<1>9. /\ frame[13] = 129 /\ frame[14] = 0
      /\ frame[21] * 256 + frame[22] = AnnouncedLength
  <2>1. /\ frame[13] = f[13] /\ frame[14] = f[14]
        /\ frame[21] = f[21] /\ frame[22] = f[22]
    BY <1>5
  <2> QED  BY <1>3, <2>1
<1> QED  BY <1>7, <1>8, <1>9
--------------------------------------------------------------------------------
(* The walk. *)

LEMMA ValuesFound ==
  ASSUME gse \in GseControl, rest \in Byte, frame = gseEncodePacket
  PROVE  /\ Inside(Place(1)) \in Nat /\ LengthValue(Place(1)) \in Nat
         /\ SubSeq(frame, Inside(Place(1)), Inside(Place(1)) + LengthValue(Place(1)) - 1)
              = gse.gocbRef
         /\ NumberAt(Place(2)) = gse.timeAllowedToLive
         /\ SubSeq(From(Place(5)), Inside(Place(5)) - Place(5) + 1,
                   Inside(Place(5)) - Place(5) + 8) = gse.t
         /\ NumberAt(Place(6)) = gse.stNum
         /\ NumberAt(Place(7)) = gse.sqNum
<1>1. \A k \in 1 .. 11 :
        /\ ElementRead(Place(k), Ahead(k), Tag(k), Contents(k))
        /\ Place(k) \in Nat
  BY AtPlaces
<1>2. ASSUME NEW k \in 1 .. 11, NEW value \in Octets(4),
             Contents(k) = ber_encode_integer(value)
      PROVE  NumberAt(Place(k)) = value
  <2> DEFINE p == Place(k)
  <2>1. /\ LengthValue(p) = Len(ber_encode_integer(value))
        /\ \E more \in Seq(Byte) :
             Rest(From(p), Inside(p) - p) = ber_encode_integer(value) \o more
    BY <1>1, <1>2, Zenon DEF ElementRead
  <2>2. PICK more \in Seq(Byte) :
          Rest(From(p), Inside(p) - p) = ber_encode_integer(value) \o more
    BY <2>1
  <2>3. ber_decode_integer(ber_encode_integer(value) \o more,
                           Len(ber_encode_integer(value)), 4) = value
    BY NumberComesBack
  <2> QED  BY <2>1, <2>2, <2>3, Zenon DEF NumberAt
<1>3. 1 \in 1 .. 11 /\ 2 \in 1 .. 11 /\ 5 \in 1 .. 11 /\ 6 \in 1 .. 11 /\ 7 \in 1 .. 11
  OBVIOUS
<1>4. /\ NumberAt(Place(2)) = gse.timeAllowedToLive
      /\ NumberAt(Place(6)) = gse.stNum
      /\ NumberAt(Place(7)) = gse.sqNum
  BY <1>2, <1>3, ControlFields, ContentsAre, Zenon
<1>5. SubSeq(From(Place(5)), Inside(Place(5)) - Place(5) + 1,
             Inside(Place(5)) - Place(5) + 8) = gse.t
  <2>1. Len(gse.t) = 8
    BY ControlFields, OctetsAreValues
  <2>2. SubSeq(From(Place(5)), Inside(Place(5)) - Place(5) + 1,
               Inside(Place(5)) - Place(5) + Len(gse.t)) = gse.t
    BY <1>1, <1>3, ContentsAre, Zenon DEF ElementRead
  <2> QED  BY <2>1, <2>2, Zenon
<1>6. /\ Inside(Place(1)) \in Nat /\ LengthValue(Place(1)) \in Nat
      /\ SubSeq(frame, Inside(Place(1)), Inside(Place(1)) + LengthValue(Place(1)) - 1)
           = gse.gocbRef
  <2>1. /\ Inside(Place(1)) = Place(1) + 1 + getLengthBytes(Len(gse.gocbRef))
        /\ LengthValue(Place(1)) = Len(gse.gocbRef)
        /\ SubSeq(frame, Inside(Place(1)), Inside(Place(1)) + Len(gse.gocbRef) - 1)
             = gse.gocbRef
        /\ Place(1) \in Nat
    BY <1>1, <1>3, ContentsAre, Zenon DEF ElementRead
  <2> DEFINE n == Len(gse.gocbRef)
  <2>2. n \in Nat /\ n <= 126
    BY ControlFields, NamesAreBytes
  <2> HIDE DEF n
  <2>3. getLengthBytes(n) = 1
    BY <2>2 DEF getLengthBytes
  <2>4. Inside(Place(1)) \in Nat
    BY <2>1, <2>3 DEF n
  <2> QED  BY <2>1, <2>2, <2>4, Zenon DEF n
<1> QED  BY <1>4, <1>5, <1>6

(* What one turn of the loop does depends on the tag only.                  *)
LEMMA OneTurn ==
  ASSUME gseDecodePDU
  PROVE  /\ at = "pdu" /\ UNCHANGED <<gse, rest, frame>>
         /\ From(pos)[1] = ASN1_TAG_SEQUENCE => EnterSequence
         /\ From(pos)[1] = Tag(1) => TakeGocbRef
         /\ From(pos)[1] = Tag(2) => TakeTimeAllowedToLive
         /\ From(pos)[1] = Tag(5) => TakeT
         /\ From(pos)[1] = Tag(6) => TakeStNum
         /\ From(pos)[1] = Tag(7) => TakeSqNum
         /\ From(pos)[1] = GSE_TAG_ALLDATA => TakeAllData
         /\ \A k \in {3, 4, 8, 9, 10, 11} :
              From(pos)[1] = Tag(k) => Take(Tag(k), locals)
<1> USE DEF ASN1_TAG_SEQUENCE, GSE_TAG_GOCBREF, GSE_TAG_TIME_ALLOWED_TO_LIVE, GSE_TAG_T,
            GSE_TAG_STNUM, GSE_TAG_SQNUM, GSE_TAG_ALLDATA, Tag
<1> DEFINE x == From(pos)[1]
<1>1. \/ TakeGocbRef /\ x = 128
      \/ TakeTimeAllowedToLive /\ x = 129
      \/ EnterSequence /\ x = 97
      \/ TakeT /\ x = 132
      \/ TakeStNum /\ x = 133
      \/ TakeSqNum /\ x = 134
      \/ Take(x, locals) /\ x \in Byte \ {128, 129, 97, 132, 133, 134, 171}
      \/ TakeAllData /\ x = 171
  BY DEF gseDecodePDU, TakeGocbRef, TakeTimeAllowedToLive, EnterSequence, TakeT,
         TakeStNum, TakeSqNum, Skip, TakeAllData, Take
<1>2. at = "pdu" /\ UNCHANGED <<gse, rest, frame>>
  BY DEF gseDecodePDU, TakeGocbRef, TakeTimeAllowedToLive, EnterSequence, TakeT,
         TakeStNum, TakeSqNum, Skip, TakeAllData, Take
<1> HIDE DEF x
<1>3. /\ x = 97 => EnterSequence
      /\ x = 128 => TakeGocbRef
      /\ x = 129 => TakeTimeAllowedToLive
      /\ x = 132 => TakeT
      /\ x = 133 => TakeStNum
      /\ x = 134 => TakeSqNum
      /\ x = 171 => TakeAllData
      /\ x \in {130, 131, 135, 136, 137, 138} => Take(x, locals)
  BY <1>1
<1>4. ASSUME NEW k \in {3, 4, 8, 9, 10, 11}, x = Tag(k)
      PROVE  Take(Tag(k), locals)
  <2>1. x \in {130, 131, 135, 136, 137, 138}
    BY <1>4
  <2> QED  BY <1>3, <1>4, <2>1
<1> QED  BY <1>2, <1>3, <1>4 DEF x
Locals ==
  [gocbRef : Nat, gocbRefLength : Nat, timeAllowedToLive : Octets(4), T : Octets(8),
   stNum : Octets(4), sqNum : Octets(4)]

\* What the walk knows of the packet when it stands at element k.
Found(k) ==
  /\ k > 1 => SubSeq(frame, locals.gocbRef, locals.gocbRef + locals.gocbRefLength - 1)
                = gse.gocbRef
  /\ k > 2 => locals.timeAllowedToLive = gse.timeAllowedToLive
  /\ k > 5 => locals.T = gse.t
  /\ k > 6 => locals.stNum = gse.stNum
  /\ k > 7 => locals.sqNum = gse.sqNum

StandsAt(k) == pos = Place(k) /\ Found(k)

\* The walk is at the sequence or at one of the elements in it, 12 that of allData.
WalkInv ==
  /\ gse \in GseControl /\ rest \in Byte /\ locals \in Locals
  /\ at \in {"encode", "filter", "pdu", "svDecode", "end"}
  /\ at = "encode" => frame = <<>>
  /\ at # "encode" => frame = gseEncodePacket
  /\ at \in {"encode", "filter", "svDecode"} => locals = NothingRead
  /\ at = "pdu" => IsGoose /\ (pos = 27 \/ \E k \in 1 .. 12 : StandsAt(k))
  /\ at = "end" => IF IsGoose THEN StandsAt(12) ELSE locals = NothingRead

LEMMA NothingReadIsLocals ==
  NothingRead \in Locals
<1>1. Zeros(4) \in Octets(4) /\ Zeros(8) \in Octets(8)
  BY DEF Zeros, Octets, Byte
<1> QED  BY <1>1, Zenon DEF NothingRead, Locals

\* Nothing in the packet changes while it is read.
LEMMA PacketStays ==
  ASSUME UNCHANGED gse
  PROVE  /\ gseEncodePacket' = gseEncodePacket
         /\ IsGoose' = IsGoose
         /\ \A k : Place(k)' = Place(k)
<1>1. gseEncodePacket' = gseEncodePacket
  BY DEF gseEncodePacket, getGseHeaderLength, WholeName, WholeNumber, Name, Number
<1>2. IsGoose' = IsGoose
  BY DEF IsGoose
<1>3. \A k : Item(k)' = Item(k)
  BY DEF Item, Contents
<1>4. getGseHeaderLength' = getGseHeaderLength
  BY DEF getGseHeaderLength, WholeName, WholeNumber
<1>5. Front5' = Front5
  BY <1>4 DEF Front5, Front4, Front3, Front2, Front1, Front0, AnnouncedLength, Name, Number
<1>6. Front1' = Front1 /\ Front2' = Front2 /\ Front3' = Front3 /\ Front4' = Front4
  BY <1>4 DEF Front4, Front3, Front2, Front1, Front0, AnnouncedLength, Name, Number
<1>7. Front6' = Front6
  BY <1>5 DEF Front6
<1>8. Front7' = Front7
  BY <1>7 DEF Front7, Number
<1>9. Front8' = Front8
  BY <1>8 DEF Front8, Number
<1>10. Front9' = Front9
  BY <1>9 DEF Front9, Number
<1>11. Front10' = Front10
  BY <1>10 DEF Front10, Number
<1>12. Front11' = Front11
  BY <1>11 DEF Front11, Number
<1>13. Front12' = Front12
  BY <1>12 DEF Front12, Number
<1>14. \A k : Place(k)' = Place(k)
  BY <1>5, <1>6, <1>7, <1>8, <1>9, <1>10, <1>11, <1>12, <1>13, Zenon DEF Place, Ahead
<1> QED  BY <1>1, <1>2, <1>14

(* From an element to the next, with what it says.                          *)
LEMMA WalkOn ==
  ASSUME WalkInv, gseDecodePDU, NEW k \in 1 .. 11, StandsAt(k)
  PROVE  StandsAt(k + 1)' /\ locals' \in Locals /\ UNCHANGED at
<1>1. /\ gse \in GseControl /\ rest \in Byte /\ locals \in Locals
      /\ at = "pdu" /\ frame = gseEncodePacket
      /\ UNCHANGED <<gse, rest, frame>>
  BY OneTurn DEF WalkInv
<1>2. pos = Place(k) /\ Found(k)
  BY DEF StandsAt
<1>3. From(pos)[1] = Tag(k) /\ Behind(pos) = Place(k + 1)
  BY <1>1, <1>2, AtPlaces DEF ElementRead
<1>4. Place(k + 1)' = Place(k + 1)
  BY <1>1, PacketStays
<1>5. /\ gse.gocbRef \in Names /\ gse.timeAllowedToLive \in Octets(4)
      /\ gse.t \in Octets(8) /\ gse.stNum \in Octets(4) /\ gse.sqNum \in Octets(4)
  BY <1>1, ControlFields
<1>6. CASE k = 1
  <2>1. TakeGocbRef
    BY <1>3, <1>6, OneTurn
  <2> DEFINE i == Inside(pos)
             n == LengthValue(pos)
  <2>2. i \in Nat /\ n \in Nat /\ SubSeq(frame, i, i + n - 1) = gse.gocbRef
    BY <1>1, <1>2, <1>6, ValuesFound
  <2>3. /\ locals' = [locals EXCEPT !.gocbRef = i, !.gocbRefLength = n]
        /\ pos' = Behind(pos) /\ UNCHANGED at
    BY <2>1 DEF TakeGocbRef, Take
  <2> HIDE DEF i, n
  <2>4. locals' \in Locals /\ locals'.gocbRef = i /\ locals'.gocbRefLength = n
    BY <1>1, <2>2, <2>3 DEF Locals
  <2>5. k + 1 = 2
    BY <1>6
  <2> QED  BY <1>1, <1>3, <1>4, <2>2, <2>3, <2>4, <2>5 DEF StandsAt, Found
<1>7. CASE k = 2
  <2>1. TakeTimeAllowedToLive
    BY <1>3, <1>7, OneTurn
  <2>2. NumberAt(pos) = gse.timeAllowedToLive
    BY <1>1, <1>2, <1>7, ValuesFound
  <2>3. /\ locals' = [locals EXCEPT !.timeAllowedToLive = gse.timeAllowedToLive]
        /\ pos' = Behind(pos) /\ UNCHANGED at
    BY <2>1, <2>2 DEF TakeTimeAllowedToLive, Take
  <2>4. /\ locals' \in Locals /\ locals'.timeAllowedToLive = gse.timeAllowedToLive
        /\ locals'.gocbRef = locals.gocbRef
        /\ locals'.gocbRefLength = locals.gocbRefLength
    BY <1>1, <1>5, <2>3 DEF Locals
  <2>5. k + 1 = 3
    BY <1>7
  <2> QED  BY <1>1, <1>2, <1>3, <1>4, <1>7, <2>3, <2>4, <2>5 DEF StandsAt, Found
<1>8. CASE k = 5
  <2>1. TakeT
    BY <1>3, <1>8, OneTurn
  <2>2. SubSeq(From(pos), Inside(pos) - pos + 1, Inside(pos) - pos + 8) = gse.t
    BY <1>1, <1>2, <1>8, ValuesFound
  <2>3. /\ locals' = [locals EXCEPT !.T = gse.t]
        /\ pos' = Behind(pos) /\ UNCHANGED at
    BY <2>1, <2>2 DEF TakeT, Take
  <2>4. /\ locals' \in Locals /\ locals'.T = gse.t
        /\ locals'.gocbRef = locals.gocbRef
        /\ locals'.gocbRefLength = locals.gocbRefLength
        /\ locals'.timeAllowedToLive = locals.timeAllowedToLive
    BY <1>1, <1>5, <2>3 DEF Locals
  <2>5. k + 1 = 6
    BY <1>8
  <2> QED  BY <1>1, <1>2, <1>3, <1>4, <1>8, <2>3, <2>4, <2>5 DEF StandsAt, Found
<1>9. CASE k = 6
  <2>1. TakeStNum
    BY <1>3, <1>9, OneTurn
  <2>2. NumberAt(pos) = gse.stNum
    BY <1>1, <1>2, <1>9, ValuesFound
  <2>3. /\ locals' = [locals EXCEPT !.stNum = gse.stNum]
        /\ pos' = Behind(pos) /\ UNCHANGED at
    BY <2>1, <2>2 DEF TakeStNum, Take
  <2>4. /\ locals' \in Locals /\ locals'.stNum = gse.stNum /\ locals'.T = locals.T
        /\ locals'.gocbRef = locals.gocbRef
        /\ locals'.gocbRefLength = locals.gocbRefLength
        /\ locals'.timeAllowedToLive = locals.timeAllowedToLive
    BY <1>1, <1>5, <2>3 DEF Locals
  <2>5. k + 1 = 7
    BY <1>9
  <2> QED  BY <1>1, <1>2, <1>3, <1>4, <1>9, <2>3, <2>4, <2>5 DEF StandsAt, Found
<1>10. CASE k = 7
  <2>1. TakeSqNum
    BY <1>3, <1>10, OneTurn
  <2>2. NumberAt(pos) = gse.sqNum
    BY <1>1, <1>2, <1>10, ValuesFound
  <2>3. /\ locals' = [locals EXCEPT !.sqNum = gse.sqNum]
        /\ pos' = Behind(pos) /\ UNCHANGED at
    BY <2>1, <2>2 DEF TakeSqNum, Take
  <2>4. /\ locals' \in Locals /\ locals'.sqNum = gse.sqNum
        /\ locals'.stNum = locals.stNum /\ locals'.T = locals.T
        /\ locals'.gocbRef = locals.gocbRef
        /\ locals'.gocbRefLength = locals.gocbRefLength
        /\ locals'.timeAllowedToLive = locals.timeAllowedToLive
    BY <1>1, <1>5, <2>3 DEF Locals
  <2>5. k + 1 = 8
    BY <1>10
  <2> QED  BY <1>1, <1>2, <1>3, <1>4, <1>10, <2>3, <2>4, <2>5 DEF StandsAt, Found
<1>11. CASE k \in {3, 4, 8, 9, 10, 11}
  <2>1. Take(Tag(k), locals)
    BY <1>3, <1>11, OneTurn
  <2>2. UNCHANGED locals /\ pos' = Behind(pos) /\ UNCHANGED at
    BY <2>1 DEF Take
  <2>3. Found(k + 1)'
    <3>1. /\ k + 1 > 1 => k > 1
          /\ k + 1 > 2 => k > 2
          /\ k + 1 > 5 => k > 5
          /\ k + 1 > 6 => k > 6
          /\ k + 1 > 7 => k > 7
      BY <1>11
    <3> QED  BY <1>1, <1>2, <2>2, <3>1, Zenon DEF Found
  <2> QED  BY <1>1, <1>3, <1>4, <2>2, <2>3 DEF StandsAt
<1>12. \/ k = 1 \/ k = 2 \/ k = 5 \/ k = 6 \/ k = 7
       \/ k \in {3, 4, 8, 9, 10, 11}
  OBVIOUS
<1> QED  BY <1>6, <1>7, <1>8, <1>9, <1>10, <1>11, <1>12
LEMMA WalkInvInit ==
  PacketInit => WalkInv
<1> SUFFICES ASSUME PacketInit
             PROVE  WalkInv
  OBVIOUS
<1>1. /\ gse \in Controls /\ rest \in Junk /\ frame = <<>>
      /\ at = "encode" /\ locals = NothingRead
  BY DEF PacketInit
<1>2. gse \in GseControl /\ rest \in Byte
  BY <1>1, PacketAssumption
<1> QED  BY <1>1, <1>2, NothingReadIsLocals DEF WalkInv

LEMMA WalkInvStep ==
  WalkInv /\ [PacketNext]_packetVars => WalkInv'
<1> SUFFICES ASSUME WalkInv, [PacketNext]_packetVars
             PROVE  WalkInv'
  OBVIOUS
<1>1. gse \in GseControl /\ rest \in Byte /\ locals \in Locals
  BY DEF WalkInv
<1>2. CASE EncodePacket
  <2>1. /\ UNCHANGED <<gse, rest, locals>> /\ at = "encode" /\ at' = "filter"
        /\ frame' = gseEncodePacket
    BY <1>2 DEF EncodePacket
  <2>2. gseEncodePacket' = gseEncodePacket
    BY <2>1, PacketStays
  <2>3. locals = NothingRead
    BY <2>1 DEF WalkInv
  <2> QED  BY <1>1, <2>1, <2>2, <2>3 DEF WalkInv, NothingRead, Zeros
<1>3. CASE gse_sv_packet_filter
  <2>1. /\ at = "filter" /\ UNCHANGED <<gse, rest, frame, locals>>
    BY <1>3 DEF gse_sv_packet_filter
  <2>2. frame = gseEncodePacket /\ locals = NothingRead
    BY <2>1 DEF WalkInv
  <2> DEFINE destination == SubSeq(frame, 1, 4)
  <2>3. /\ destination = SubSeq(gse.destMACAddress, 1, 4)
        /\ frame[13] = 129 /\ frame[14] = 0
    BY <1>1, <2>2, AtFilter
  <2>4. destination = <<1, 12, 205, 1>> <=> IsGoose
    BY <2>3 DEF IsGoose
  <2>5. IF destination = <<1, 12, 205, 1>>
          THEN at' = "pdu" /\ pos' = 1 + (IF frame[13] = 129 /\ frame[14] = 0 THEN 26 ELSE 22)
          ELSE at' \in {"svDecode", "end"}
    <3> HIDE DEF destination
    <3>1. <<1, 12, 205, 1>> # <<1, 12, 205, 4>>
      OBVIOUS
    <3> QED  BY <1>3, <3>1 DEF gse_sv_packet_filter, destination
  <2>6. gseEncodePacket' = gseEncodePacket /\ IsGoose' = IsGoose /\ NothingRead' = NothingRead
    BY <2>1, PacketStays DEF NothingRead, Zeros
  <2> HIDE DEF destination
  <2>7. CASE IsGoose
    <3>1. at' = "pdu" /\ pos' = 27
      BY <2>3, <2>4, <2>5, <2>7
    <3> QED  BY <1>1, <2>1, <2>2, <2>6, <2>7, <3>1 DEF WalkInv
  <2>8. CASE ~ IsGoose
    <3>1. at' \in {"svDecode", "end"}
      BY <2>4, <2>5, <2>8
    <3> QED  BY <1>1, <2>1, <2>2, <2>6, <2>8, <3>1 DEF WalkInv
  <2> QED  BY <2>7, <2>8
<1>4. CASE gseDecodePDU
  <2>1. at = "pdu" /\ UNCHANGED <<gse, rest, frame>>
    BY <1>4, OneTurn
  <2>2. /\ frame = gseEncodePacket /\ IsGoose
        /\ pos = 27 \/ \E k \in 1 .. 12 : StandsAt(k)
    BY <2>1 DEF WalkInv
  <2>3. /\ gseEncodePacket' = gseEncodePacket /\ IsGoose' = IsGoose
        /\ \A k : Place(k)' = Place(k)
    BY <2>1, PacketStays
  <2>4. CASE pos = 27
    <3>1. From(pos)[1] = ASN1_TAG_SEQUENCE /\ Inside(pos) = Place(1)
      BY <1>1, <2>2, <2>4, AtSequence
    <3>2. pos' = Place(1) /\ UNCHANGED <<at, locals>>
      BY <1>4, <3>1, OneTurn DEF EnterSequence
    <3>3. StandsAt(1)'
      BY <2>3, <3>2 DEF StandsAt, Found
    <3> QED  BY <1>1, <2>1, <2>2, <2>3, <3>2, <3>3 DEF WalkInv
  <2>5. ASSUME NEW k \in 1 .. 11, StandsAt(k)
        PROVE  WalkInv'
    <3>1. StandsAt(k + 1)' /\ locals' \in Locals /\ UNCHANGED at
      BY <1>4, <2>5, WalkOn
    <3>2. k + 1 \in 1 .. 12
      OBVIOUS
    <3>3. (\E j \in 1 .. 12 : StandsAt(j))'
      BY <3>1, <3>2
    <3> QED  BY <1>1, <2>1, <2>2, <2>3, <3>1, <3>3 DEF WalkInv
  <2>6. CASE StandsAt(12)
    <3>1. pos = Place(12) /\ From(pos)[1] = GSE_TAG_ALLDATA
      BY <1>1, <2>2, <2>6, AtLastPlace DEF StandsAt
    <3>2. at' = "end" /\ UNCHANGED <<pos, locals>>
      BY <1>4, <3>1, OneTurn DEF TakeAllData
    <3>3. StandsAt(12)'
      BY <2>1, <2>3, <2>6, <3>2 DEF StandsAt, Found
    <3> QED  BY <1>1, <2>1, <2>2, <2>3, <3>2, <3>3 DEF WalkInv
  <2>7. \A k \in 1 .. 12 : k \in 1 .. 11 \/ k = 12
    OBVIOUS
  <2> QED  BY <2>2, <2>4, <2>5, <2>6, <2>7
<1>5. CASE UNCHANGED packetVars
  <2>1. UNCHANGED <<gse, rest, frame, at, pos, locals>>
    BY <1>5 DEF packetVars
  <2>2. /\ gseEncodePacket' = gseEncodePacket /\ IsGoose' = IsGoose
        /\ \A k : Place(k)' = Place(k)
    BY <2>1, PacketStays
  <2>3. \A k : StandsAt(k)' <=> StandsAt(k)
    BY <2>1, <2>2, Zenon DEF StandsAt, Found
  <2> QED  BY <2>1, <2>2, <2>3 DEF WalkInv
<1> QED  BY <1>2, <1>3, <1>4, <1>5 DEF PacketNext

(* Wherever the walk is, it is in the packet; and at its end it has found   *)
(* what was sent.                                                           *)
LEMMA WalkDecodes ==
  WalkInv => GooseDecodes
<1>1. ASSUME WalkInv
      PROVE  GooseDecodes
  <2>1. gse \in GseControl /\ rest \in Byte
    BY <1>1 DEF WalkInv
  <2>2. ASSUME at = "pdu"
        PROVE  pos <= Len(frame)
    <3>1. /\ frame = gseEncodePacket
          /\ pos = 27 \/ \E k \in 1 .. 12 : StandsAt(k)
      BY <1>1, <2>2 DEF WalkInv
    <3>2. \A k \in 1 .. 11 : Place(k) <= Len(frame)
      BY <2>1, <3>1, AtPlaces
    <3>3. Place(12) = Len(frame) /\ Len(frame) \in Nat /\ 27 <= Len(frame)
      BY <2>1, <3>1, AtLastPlace, AtFilter
    <3>4. \A k \in 1 .. 12 : k \in 1 .. 11 \/ k = 12
      OBVIOUS
    <3> QED  BY <3>1, <3>2, <3>3, <3>4 DEF StandsAt
  <2>3. ASSUME at = "end", IsGoose
        PROVE  /\ pos = Len(frame)
               /\ SubSeq(frame, locals.gocbRef, locals.gocbRef + locals.gocbRefLength - 1)
                    = gse.gocbRef
               /\ locals.timeAllowedToLive = gse.timeAllowedToLive
               /\ locals.T = gse.t
               /\ locals.stNum = gse.stNum
               /\ locals.sqNum = gse.sqNum
    <3>1. frame = gseEncodePacket /\ pos = Place(12) /\ Found(12)
      BY <1>1, <2>3 DEF WalkInv, StandsAt
    <3>2. Place(12) = Len(frame)
      BY <2>1, <3>1, AtLastPlace
    <3>3. 12 > 1 /\ 12 > 2 /\ 12 > 5 /\ 12 > 6 /\ 12 > 7
      OBVIOUS
    <3> QED  BY <3>1, <3>2, <3>3, Zenon DEF Found
  <2>4. ASSUME ~ IsGoose
        PROVE  locals = NothingRead
    BY <1>1, <2>4 DEF WalkInv
  <2> QED  BY <2>2, <2>3, <2>4, Zenon DEF GooseDecodes
<1> QED  BY <1>1

(* The two lengths in a packet, that in the frame header and that of the    *)
(* sequence, are what is written and what the encoder counts twice, for     *)
(* every control block.                                                     *)
LEMMA WalkLengths ==
  WalkInv => PacketLengths
<1>1. ASSUME WalkInv, frame # <<>>
      PROVE  LET missing == BER_GET_LENGTH("INT32U", gse.numDatSetEntries) + 1 IN
               /\ Behind(27) = Len(frame) + 1 + missing
               /\ frame[21] * 256 + frame[22] = Len(frame) - 18 + missing
  <2> DEFINE n == BER_GET_LENGTH("INT32U", gse.numDatSetEntries)
             b == getLengthBytes(getGseHeaderLength)
             g == getGseHeaderLength
             l == Len(frame)
             s == AllSizes
             e == Size(11)
  <2>1. gse \in GseControl /\ rest \in Byte /\ frame = gseEncodePacket
    BY <1>1 DEF WalkInv
  <2>2. Inside(27) = 28 + b /\ LengthValue(27) = g
    BY <2>1, AtSequence
  <2>3. l = 28 + b + s /\ l \in Nat
    BY <2>1, AtLastPlace
  <2>4. g = s + e /\ e = n + 2 /\ n \in Nat /\ g \in Nat
    BY <2>1, HeaderLength
  <2>5. s \in Nat
    <3>1. \A k \in 1 .. 11 : Size(k) \in Nat
      BY <2>1, HeaderLength
    <3> QED  BY <3>1 DEF AllSizes
  <2>6. b \in 1 .. 3 /\ AnnouncedLength = g + 9 + b
    BY <2>1, Announced
  <2>7. frame[21] * 256 + frame[22] = AnnouncedLength
    BY <2>1, AtFilter
  <2>8. Behind(27) = Inside(27) + LengthValue(27)
    BY DEF Behind
  <2> HIDE DEF n, b, g, l, s, e
  <2>9. Behind(27) = l + 1 + (n + 1)
    BY <2>2, <2>3, <2>4, <2>5, <2>6, <2>8
  <2>10. AnnouncedLength = l - 18 + (n + 1)
    BY <2>3, <2>4, <2>5, <2>6
  <2>11. frame[21] * 256 + frame[22] = l - 18 + (n + 1)
    BY <2>7, <2>10
  <2> QED  BY <2>9, <2>11 DEF n, l
<1>2. WalkInv => PacketLengths
  BY <1>1 DEF PacketLengths
<1> QED  BY <1>2
--------------------------------------------------------------------------------
(* Values of the basic types. *)

\* What a decoder makes of a buffer that begins with an element.
ReadsAs(buf, tag, c, tail) ==
  /\ buf[1] = tag
  /\ decodeLength(Rest(buf, 1)) = Len(c)
  /\ Rest(buf, 1 + getLengthFieldSize(buf[2])) = c \o tail
  /\ 1 + getLengthFieldSize(buf[2]) + Len(c) = Len(Complete(tag, c))

LEMMA ElementInBuffer ==
  \A c, tail \in Seq(Byte), tag \in Byte :
    Len(c) < 256 * 256 => ReadsAs(Complete(tag, c) \o tail, tag, c, tail)
<1> TAKE c, tail \in Seq(Byte), tag \in Byte
<1> HAVE Len(c) < 256 * 256
<1> DEFINE n == Len(c)
           e == encodeLength(n)
           h == Heading(tag, n)
           a == <<tag>>
           t == c \o tail
           b == e \o t
           buf == Complete(tag, c) \o tail
<1>1. n \in Nat /\ n < 256 * 256
  BY LenProperties
<1>2. /\ e \in Seq(Byte) /\ h \in Seq(Byte) /\ a \in Seq(Byte) /\ t \in Seq(Byte)
      /\ Len(e) = getLengthBytes(n) /\ Len(h) = 1 + getLengthBytes(n)
      /\ getLengthBytes(n) \in 1 .. 3
      /\ Len(a) = 1 /\ a[1] = tag
  <2> HIDE DEF n
  <2> QED  BY <1>1, HeadingInBytes, LengthInBytes, Cat
<1>3. buf = h \o t
  <2> HIDE DEF h
  <2>1. h \in Seq(Byte)
    BY <1>2
  <2>2. (h \o c) \o tail = h \o (c \o tail)
    BY <2>1, CatCat, Zenon
  <2> QED  BY <2>2 DEF Complete, h
<1>4. buf = a \o b
  <2>1. h = a \o e
    BY DEF Heading
  <2> HIDE DEF a, e, t, h
  <2>2. (a \o e) \o t = a \o (e \o t)
    BY <1>2, CatCat
  <2> QED  BY <1>3, <2>1, <2>2
<1>5. /\ getLengthFieldSize(b[1]) = getLengthBytes(n)
      /\ decodeLength(b) = n
  <2> HIDE DEF t, n
  <2> QED  BY <1>1, <1>2, LengthComesBack
<1>6. b \in Seq(Byte) /\ Len(b) = Len(e) + Len(t)
  <2> HIDE DEF e, t
  <2> QED  BY <1>2, Cat
<1> HIDE DEF buf, a, b, h, n, e, t
<1>7. buf[1] = tag /\ buf[2] = b[1]
  <2>1. Len(t) \in Nat
    BY <1>2, LenProperties
  <2>2. 1 \in 1 .. Len(a) /\ 1 \in 1 .. Len(b) /\ Len(a) + 1 = 2
    BY <1>2, <1>6, <2>1
  <2>3. (a \o b)[1] = a[1] /\ (a \o b)[Len(a) + 1] = b[1]
    BY <1>2, <1>6, <2>2, CatAt, Zenon
  <2> QED  BY <1>2, <1>4, <2>2, <2>3, Zenon
<1>8. Rest(buf, 1) = b
  <2>1. Rest(a \o b, Len(a)) = b
    BY <1>2, <1>6, Dropped, Zenon
  <2> QED  BY <1>2, <1>4, <2>1, Zenon
<1>9. Rest(buf, 1 + getLengthBytes(n)) = t
  <2>1. Rest(h \o t, Len(h)) = t
    BY <1>2, Dropped, Zenon
  <2> QED  BY <1>2, <1>3, <2>1, Zenon
<1>10. 1 + getLengthBytes(n) + n = Len(Complete(tag, c))
  <2>1. Len(h \o c) = Len(h) + n
    BY <1>2, Cat, Zenon DEF n
  <2>2. Complete(tag, c) = h \o c
    BY DEF Complete, h, n
  <2> QED  BY <1>1, <1>2, <2>1, <2>2
<1> QED  BY <1>5, <1>7, <1>8, <1>9, <1>10 DEF ReadsAs, buf, n, t

LEMMA IntegerReturns ==
  \A basic \in (Signeds \cup Unsigneds) \ {"ENUM"} :
    \A value, before \in Octets(SV_GET_LENGTH(basic)), tail \in Seq(Byte) :
      BER_DECODE_INTEGER(basic, BER_ENCODE_INTEGER(basic, value) \o tail, before)
        = Decoded(Len(BER_ENCODE_INTEGER(basic, value)), value)
<1> TAKE basic \in (Signeds \cup Unsigneds) \ {"ENUM"}
<1> TAKE value, before \in Octets(SV_GET_LENGTH(basic)), tail \in Seq(Byte)
<1> DEFINE tag == IF basic \in Unsigneds THEN ASN1_TAG_UNSIGNED ELSE ASN1_TAG_INTEGER
           c == ber_encode_integer(value)
           width == SV_GET_LENGTH(basic)
           buf == Complete(tag, c) \o tail
<1>1. width \in 1 .. 8
  BY DEF SV_GET_LENGTH
<1>2. value \in Seq(Byte) /\ Len(value) = width /\ Len(value) > 0
  <2> HIDE DEF width
  <2>1. width \in Nat /\ width > 0
    BY <1>1
  <2> QED  BY <2>1, OctetsAreBytes DEF width
<1>3. Few(c) /\ Len(c) = ber_integer_length(value)
  <2> HIDE DEF width
  <2> QED  BY <1>1, <1>2, FewBytes, NumberInBytes DEF width
<1>4. tag \in Byte
  BY DEF ASN1_TAG_UNSIGNED, ASN1_TAG_INTEGER, Byte
<1>5. BER_ENCODE_INTEGER(basic, value) = Complete(tag, c)
  <2>1. BER_GET_LENGTH(basic, value) = ber_integer_length(value)
    BY DEF BER_GET_LENGTH, Signeds, Unsigneds
  <2> QED  BY <1>3, <2>1 DEF BER_ENCODE_INTEGER, Element, Complete, Heading
<1>6. BER_DECODE_INTEGER(basic, buf, before)
        = IF buf[1] # tag THEN Decoded(1, before)
          ELSE Decoded(1 + getLengthFieldSize(buf[2]) + decodeLength(Rest(buf, 1)),
                       ber_decode_integer(Rest(buf, 1 + getLengthFieldSize(buf[2])),
                                          decodeLength(Rest(buf, 1)), width))
  <2>1. tag = IF basic \in Unsigneds \cup {"ENUM"} THEN ASN1_TAG_UNSIGNED
                                                 ELSE ASN1_TAG_INTEGER
    OBVIOUS
  <2> HIDE DEF buf, tag
  <2> QED  BY <2>1 DEF BER_DECODE_INTEGER, IfTag
<1>7. ReadsAs(buf, tag, c, tail)
  <2>1. c \in Seq(Byte) /\ Len(c) < 256 * 256
    BY <1>3 DEF Few
  <2> QED  BY <1>4, <2>1, ElementInBuffer
<1>8. ber_decode_integer(c \o tail, Len(c), width) = value
  BY <1>2, <1>3, IntegerComesBack
<1> HIDE DEF buf, tag, c, width
<1>9. BER_DECODE_INTEGER(basic, buf, before) = Decoded(Len(Complete(tag, c)), value)
  BY <1>6, <1>7, <1>8 DEF ReadsAs
<1> QED  BY <1>5, <1>9 DEF buf
\* The first part of a sequence, and the bytes of two parts turned round.
LEMMA FirstPart ==
  \A a, b \in Seq(Byte) : SubSeq(a \o b, 1, Len(a)) = a
<1> TAKE a, b \in Seq(Byte)
<1>1. <<>> \in Seq(Byte) /\ Len(<<>>) = 0
  BY EmptySeq
<1>2. SubSeq(<<>> \o (a \o b), Len(<<>>) + 1, Len(<<>>) + Len(a)) = a
  BY <1>1, Middle, Zenon
<1>3. <<>> \o (a \o b) = a \o b
  BY Cat, ConcatEmptySeq
<1>4. Len(a) \in Nat
  BY LenProperties
<1>5. Len(<<>>) + 1 = 1 /\ Len(<<>>) + Len(a) = Len(a)
  BY <1>1, <1>4
<1> QED  BY <1>2, <1>3, <1>5, Zenon

LEMMA Turned ==
  \A a, b \in Seq(Byte) : netmemcpy(a \o b) = netmemcpy(b) \o netmemcpy(a)
<1> TAKE a, b \in Seq(Byte)
<1> DEFINE m == Len(a)
           n == Len(b)
           ra == netmemcpy(a)
           rb == netmemcpy(b)
           u == netmemcpy(a \o b)
           v == rb \o ra
<1>1. m \in Nat /\ n \in Nat
  BY LenProperties
<1>2. /\ a \o b \in Seq(Byte) /\ Len(a \o b) = m + n
      /\ \A i \in 1 .. m : (a \o b)[i] = a[i]
      /\ \A i \in 1 .. n : (a \o b)[m + i] = b[i]
  BY Cat, CatAt
<1>3. /\ ra \in Seq(Byte) /\ Len(ra) = m /\ \A i \in 1 .. m : ra[i] = a[m + 1 - i]
      /\ rb \in Seq(Byte) /\ Len(rb) = n /\ \A i \in 1 .. n : rb[i] = b[n + 1 - i]
  <2>1. ra \in Seq(Byte) /\ Len(ra) = m /\ rb \in Seq(Byte) /\ Len(rb) = n
    BY NetmemcpyTwice
  <2> QED  BY <2>1 DEF netmemcpy
<1>4. /\ u \in Seq(Byte) /\ Len(u) = m + n
      /\ \A i \in 1 .. m + n : u[i] = (a \o b)[m + n + 1 - i]
  <2> DEFINE c == a \o b
  <2>1. c \in Seq(Byte) /\ Len(c) = m + n
    BY <1>2
  <2> HIDE DEF c
  <2>2. netmemcpy(c) \in Seq(Byte) /\ Len(netmemcpy(c)) = m + n
    BY <2>1, NetmemcpyTwice
  <2>3. \A i \in 1 .. m + n : netmemcpy(c)[i] = c[m + n + 1 - i]
    BY <2>1 DEF netmemcpy
  <2> QED  BY <2>2, <2>3 DEF c
<1> HIDE DEF m, n, ra, rb, u
<1>5. /\ v \in Seq(Byte) /\ Len(v) = n + m
      /\ \A i \in 1 .. n : v[i] = rb[i]
      /\ \A i \in 1 .. m : v[n + i] = ra[i]
  <2>1. /\ v \in Seq(Byte) /\ Len(v) = Len(rb) + Len(ra)
        /\ \A i \in 1 .. Len(rb) : v[i] = rb[i]
        /\ \A i \in 1 .. Len(ra) : v[Len(rb) + i] = ra[i]
    BY <1>3, Cat, CatAt, Zenon
  <2> QED  BY <1>3, <2>1
<1> HIDE DEF v
<1>6. ASSUME NEW i \in 1 .. m + n
      PROVE  u[i] = v[i]
  <2>1. CASE i <= n
    <3>1. i \in 1 .. n /\ n + 1 - i \in 1 .. n /\ m + n + 1 - i = m + (n + 1 - i)
      BY <1>1, <2>1
    <3>2. u[i] = (a \o b)[m + (n + 1 - i)]
      BY <1>4, <3>1
    <3>3. u[i] = b[n + 1 - i]
      BY <1>2, <3>1, <3>2
    <3> QED  BY <1>3, <1>5, <3>1, <3>3
  <2>2. CASE ~ (i <= n)
    <3> DEFINE j == i - n
    <3>1. j \in 1 .. m /\ m + 1 - j \in 1 .. m /\ m + n + 1 - i = m + 1 - j /\ i = n + j
      BY <1>1, <2>2
    <3> HIDE DEF j
    <3>2. u[i] = (a \o b)[m + 1 - j]
      BY <1>4, <3>1
    <3>3. u[i] = a[m + 1 - j]
      BY <1>2, <3>1, <3>2
    <3>4. v[i] = ra[j]
      BY <1>5, <3>1
    <3> QED  BY <1>3, <3>1, <3>3, <3>4
  <2> QED  BY <2>1, <2>2
<1>7. Len(u) = Len(v) /\ \A i \in 1 .. Len(u) : u[i] = v[i]
  BY <1>1, <1>4, <1>5, <1>6
<1>8. u = v
  BY <1>4, <1>5, <1>7, SeqEqual
<1> QED  BY <1>8 DEF u, v, ra, rb

\* A value of the whole length replaces what was there.
LEMMA OverAll ==
  \A a, b \in Seq(Byte) : Len(a) = Len(b) => Over(a, b) = b
<1> TAKE a, b \in Seq(Byte)
<1> HAVE Len(a) = Len(b)
<1>1. SubSeq(a, Len(a) + 1, Len(a)) = <<>>
  <2> DEFINE n == Len(a)
  <2>1. n \in Nat
    BY LenProperties
  <2> HIDE DEF n
  <2>2. ~ (n + 1 <= n)
    BY <2>1
  <2>3. SubSeq(a, n + 1, n) = <<>>
    BY <2>1, <2>2
  <2> QED  BY <2>3 DEF n
<1>2. b \o <<>> = b
  BY ConcatEmptySeq
<1> QED  BY <1>1, <1>2 DEF Over, Rest
LEMMA FloatReturns ==
  \A basic \in {"FLOAT32", "FLOAT64"} :
    \A value, before \in Octets(SV_GET_LENGTH(basic)), tail \in Seq(Byte) :
      BER_DECODE_FLOAT(basic, BER_ENCODE_FLOAT(basic, value) \o tail, before)
        = Decoded(Len(BER_ENCODE_FLOAT(basic, value)), value)
<1> TAKE basic \in {"FLOAT32", "FLOAT64"}
<1> TAKE value, before \in Octets(SV_GET_LENGTH(basic)), tail \in Seq(Byte)
<1> DEFINE tag == ASN1_TAG_FLOATING_POINT
           width == SV_GET_LENGTH(basic)
           exponent == IF basic = "FLOAT32" THEN 8 ELSE 11
           x == <<exponent>>
           d == netmemcpy(value)
           c == x \o d
           buf == Complete(tag, c) \o tail
<1>1. width \in Nat /\ width <= 8
  BY DEF SV_GET_LENGTH
<1>2. value \in Seq(Byte) /\ Len(value) = width
  <2> HIDE DEF width
  <2> QED  BY <1>1, OctetsAreBytes DEF width
<1>3. d \in Seq(Byte) /\ Len(d) = width /\ netmemcpy(d) = value
  BY <1>2, NetmemcpyTwice
<1>4. x \in Seq(Byte) /\ Len(x) = 1 /\ x[1] = exponent /\ tag \in Byte
  BY DEF ASN1_TAG_FLOATING_POINT, Byte
<1>5. BER_ENCODE_FLOAT(basic, value) = <<tag>> \o encodeLength(width + 1) \o c
  <2>1. BER_GET_LENGTH(basic, value) = width + 1
    BY DEF BER_GET_LENGTH, Signeds, Unsigneds
  <2> HIDE DEF width
  <2> QED  BY <2>1 DEF BER_ENCODE_FLOAT, Element
<1>6. BER_DECODE_FLOAT(basic, buf, before)
        = IF buf[1] # tag THEN Decoded(1, before)
          ELSE LET length == decodeLength(Rest(buf, 1))
                   contents == Rest(buf, 1 + getLengthFieldSize(buf[2]))
               IN  Decoded(1 + getLengthFieldSize(buf[2]) + length,
                     CASE length = width + 1 /\ contents[1] = exponent ->
                            netmemcpy(SubSeq(contents, 2, width + 1))
                       [] length = width -> netmemcpy(SubSeq(contents, 1, width))
                       [] OTHER -> before)
  <2> HIDE DEF buf
  <2> QED  BY Zenon DEF BER_DECODE_FLOAT, IfTag
<1> HIDE DEF d, x, width, exponent
<1>7. /\ c \in Seq(Byte) /\ Len(c) = width + 1 /\ Len(c) < 256 * 256
      /\ (c \o tail)[1] = exponent
      /\ SubSeq(c \o tail, 2, width + 1) = d
  <2>1. c \in Seq(Byte) /\ Len(c) = Len(x) + Len(d)
    BY <1>3, <1>4, Cat
  <2>2. Len(x) + Len(d) = width + 1 /\ Len(x) + 1 = 2
    BY <1>1, <1>3, <1>4
  <2>3. c \o tail = x \o (d \o tail) /\ d \o tail \in Seq(Byte)
    BY <1>3, <1>4, Cat, CatCat
  <2>4. SubSeq(x \o (d \o tail), Len(x) + 1, Len(x) + Len(d)) = d
    BY <1>3, <1>4, Middle
  <2>5. 1 \in 1 .. Len(x)
    BY <1>4
  <2>6. (x \o (d \o tail))[1] = x[1]
    BY <1>4, <2>3, <2>5, CatAt, Zenon
  <2>7. width + 1 < 256 * 256
    BY <1>1
  <2> HIDE DEF c
  <2> QED  BY <1>4, <2>1, <2>2, <2>3, <2>4, <2>6, <2>7
<1> HIDE DEF c
<1>8. ReadsAs(buf, tag, c, tail)
  BY <1>4, <1>7, ElementInBuffer
<1>9. Complete(tag, c) = BER_ENCODE_FLOAT(basic, value)
  BY <1>5, <1>7 DEF Complete, Heading
<1> HIDE DEF buf, tag
<1>10. BER_DECODE_FLOAT(basic, buf, before)
         = Decoded(Len(Complete(tag, c)), netmemcpy(SubSeq(c \o tail, 2, width + 1)))
  <2> DEFINE l == decodeLength(Rest(buf, 1))
             inside == 1 + getLengthFieldSize(buf[2])
             contents == Rest(buf, inside)
  <2>1. /\ buf[1] = tag /\ l = width + 1 /\ contents = c \o tail
        /\ inside + l = Len(Complete(tag, c)) /\ contents[1] = exponent
    BY <1>7, <1>8 DEF ReadsAs
  <2> HIDE DEF l, inside, contents
  <2>2. l # width
    BY <1>1, <2>1
  <2>3. BER_DECODE_FLOAT(basic, buf, before)
          = Decoded(inside + l,
              CASE l = width + 1 /\ contents[1] = exponent ->
                     netmemcpy(SubSeq(contents, 2, width + 1))
                [] l = width -> netmemcpy(SubSeq(contents, 1, width))
                [] OTHER -> before)
    BY <1>6, <2>1 DEF l, inside, contents
  <2> QED  BY <2>1, <2>2, <2>3
<1> QED  BY <1>3, <1>7, <1>9, <1>10 DEF buf

LEMMA Halves ==
  \A v \in Octets(4) :
    /\ SubSeq(v, 1, 2) \in Seq(Byte) /\ Len(SubSeq(v, 1, 2)) = 2
    /\ SubSeq(v, 3, 4) \in Seq(Byte) /\ Len(SubSeq(v, 3, 4)) = 2
    /\ v = SubSeq(v, 1, 2) \o SubSeq(v, 3, 4)
<1> TAKE v \in Octets(4)
<1> DEFINE l == SubSeq(v, 1, 2)
           h == SubSeq(v, 3, 4)
<1>1. v \in Seq(Byte) /\ Len(v) = 4
  BY OctetsAreValues
<1>2. v[1] \in Byte /\ v[2] \in Byte /\ v[3] \in Byte /\ v[4] \in Byte
  BY DEF Octets
<1>3. /\ l \in Seq(Byte) /\ Len(l) = 2 /\ l[1] = v[1] /\ l[2] = v[2]
  <2>1. \A i \in 1 .. 2 : v[i] \in Byte
    BY <1>2
  <2>2. /\ l \in Seq(Byte)
        /\ Len(l) = IF 1 <= 2 THEN 2 - 1 + 1 ELSE 0
        /\ \A i \in 1 .. 2 - 1 + 1 : l[i] = v[1 + i - 1]
    BY <1>1, <2>1, SubSeqProperties
  <2> HIDE DEF l
  <2> QED  BY <2>2
<1>4. /\ h \in Seq(Byte) /\ Len(h) = 2 /\ h[1] = v[3] /\ h[2] = v[4]
  <2>1. \A i \in 3 .. 4 : v[i] \in Byte
    BY <1>2
  <2>2. /\ h \in Seq(Byte)
        /\ Len(h) = IF 3 <= 4 THEN 4 - 3 + 1 ELSE 0
        /\ \A i \in 1 .. 4 - 3 + 1 : h[i] = v[3 + i - 1]
    BY <1>1, <2>1, SubSeqProperties
  <2> HIDE DEF h
  <2> QED  BY <2>2
<1> HIDE DEF l, h
<1>5. /\ l \o h \in Seq(Byte) /\ Len(l \o h) = 4
      /\ (l \o h)[1] = l[1] /\ (l \o h)[2] = l[2]
      /\ (l \o h)[3] = h[1] /\ (l \o h)[4] = h[2]
  <2>1. /\ l \o h \in Seq(Byte) /\ Len(l \o h) = Len(l) + Len(h)
        /\ \A i \in 1 .. Len(l) : (l \o h)[i] = l[i]
        /\ \A i \in 1 .. Len(h) : (l \o h)[Len(l) + i] = h[i]
    BY <1>3, <1>4, Cat, CatAt, Zenon
  <2>2. /\ 1 \in 1 .. Len(l) /\ 2 \in 1 .. Len(l) /\ 1 \in 1 .. Len(h) /\ 2 \in 1 .. Len(h)
        /\ Len(l) + 1 = 3 /\ Len(l) + 2 = 4 /\ Len(l) + Len(h) = 4
    BY <1>3, <1>4
  <2> QED  BY <2>1, <2>2, Zenon
<1>6. \A i \in 1 .. 4 : v[i] = (l \o h)[i]
  BY <1>3, <1>4, <1>5
<1>7. v = l \o h
  <2> DEFINE w == l \o h
  <2>1. w \in Seq(Byte) /\ Len(w) = 4 /\ \A i \in 1 .. 4 : v[i] = w[i]
    BY <1>5, <1>6
  <2> HIDE DEF w
  <2>2. Len(v) = Len(w) /\ \A i \in 1 .. Len(v) : v[i] = w[i]
    BY <1>1, <2>1
  <2>3. v = w
    BY <1>1, <2>1, <2>2, SeqEqual
  <2> QED  BY <2>3 DEF w
<1> QED  BY <1>3, <1>4, <1>7 DEF l, h

LEMMA QualityReturns ==
  \A value, before \in Octets(4), tail \in Seq(Byte) :
    BER_DECODE_QUALITY(BER_ENCODE_QUALITY(value) \o tail, before)
      = Decoded(Len(BER_ENCODE_QUALITY(value)),
                SubSeq(value, 1, 2) \o SubSeq(before, 3, 4))
<1> TAKE value, before \in Octets(4), tail \in Seq(Byte)
<1> DEFINE tag == ASN1_TAG_BIT_STRING
           x == <<QUALITY_UNUSED_BITS>>
           q == SubSeq(value, 1, 2)
           d == netmemcpy(q)
           c == x \o d
           buf == Complete(tag, c) \o tail
<1>1. /\ value \in Seq(Byte) /\ Len(value) = 4
      /\ before \in Seq(Byte) /\ Len(before) = 4
  BY OctetsAreValues
<1>2. q \in Seq(Byte) /\ Len(q) = 2
  BY Halves
<1> HIDE DEF q
<1>3. d \in Seq(Byte) /\ Len(d) = 2 /\ netmemcpy(d) = q
  BY <1>2, NetmemcpyTwice
<1>4. x \in Seq(Byte) /\ Len(x) = 1 /\ tag \in Byte
  BY DEF ASN1_TAG_BIT_STRING, QUALITY_UNUSED_BITS, Byte
<1>5. BER_ENCODE_QUALITY(value) = <<tag>> \o encodeLength(3) \o c
  <2>1. BER_GET_LENGTH("QUALITY", value) = 3
    BY DEF BER_GET_LENGTH, Signeds, Unsigneds
  <2> QED  BY <2>1 DEF BER_ENCODE_QUALITY, Element, q
<1>6. BER_DECODE_QUALITY(buf, before)
        = IF buf[1] # tag THEN Decoded(0, before)
          ELSE LET length == decodeLength(Rest(buf, 1))
                   contents == Rest(buf, 1 + getLengthFieldSize(buf[2]))
               IN  Decoded(1 + getLengthFieldSize(buf[2]) + length,
                           Over(before, netmemcpy(SubSeq(contents, 2, length))))
  <2> HIDE DEF buf
  <2> QED  BY DEF BER_DECODE_QUALITY, IfTag
<1> HIDE DEF d, x
<1>7. /\ c \in Seq(Byte) /\ Len(c) = 3 /\ Len(c) < 256 * 256
      /\ SubSeq(c \o tail, 2, 3) = d
  <2>1. c \in Seq(Byte) /\ Len(c) = Len(x) + Len(d)
    BY <1>3, <1>4, Cat
  <2>2. Len(x) + Len(d) = 3 /\ Len(x) + 1 = 2 /\ 3 < 256 * 256
    BY <1>3, <1>4
  <2>3. c \o tail = x \o (d \o tail) /\ d \o tail \in Seq(Byte)
    BY <1>3, <1>4, Cat, CatCat
  <2>4. SubSeq(x \o (d \o tail), Len(x) + 1, Len(x) + Len(d)) = d
    BY <1>3, <1>4, Middle
  <2> HIDE DEF c
  <2> QED  BY <2>1, <2>2, <2>3, <2>4
<1> HIDE DEF c
<1>8. ReadsAs(buf, tag, c, tail)
  BY <1>4, <1>7, ElementInBuffer
<1>9. Complete(tag, c) = BER_ENCODE_QUALITY(value)
  BY <1>5, <1>7 DEF Complete, Heading
<1> HIDE DEF buf, tag
<1>10. BER_DECODE_QUALITY(buf, before)
         = Decoded(Len(Complete(tag, c)), Over(before, netmemcpy(SubSeq(c \o tail, 2, 3))))
  BY <1>6, <1>7, <1>8 DEF ReadsAs
<1>11. Over(before, q) = q \o SubSeq(before, 3, 4)
  BY <1>1, <1>2 DEF Over, Rest
<1> QED  BY <1>3, <1>7, <1>9, <1>10, <1>11 DEF buf, q

LEMMA TimestampReturns ==
  \A value, before \in Octets(8), tail \in Seq(Byte) :
    BER_DECODE_TIMESTAMP(BER_ENCODE_TIMESTAMP(value) \o tail, before)
      = Decoded(Len(BER_ENCODE_TIMESTAMP(value)), netmemcpy(value))
<1> TAKE value, before \in Octets(8), tail \in Seq(Byte)
<1> DEFINE tag == ASN1_TAG_OCTET_STRING
           buf == Complete(tag, value) \o tail
<1>1. /\ value \in Seq(Byte) /\ Len(value) = 8 /\ 8 < 256 * 256
      /\ before \in Seq(Byte) /\ Len(before) = 8
  BY OctetsAreValues
<1>2. tag \in Byte
  BY DEF ASN1_TAG_OCTET_STRING, Byte
<1>3. BER_ENCODE_TIMESTAMP(value) = Complete(tag, value)
  <2>1. BER_GET_LENGTH("TIMESTAMP", value) = 8
    BY DEF BER_GET_LENGTH, SV_GET_LENGTH, Signeds, Unsigneds
  <2> QED  BY <1>1, <2>1 DEF BER_ENCODE_TIMESTAMP, Element, Complete, Heading
<1>4. BER_DECODE_TIMESTAMP(buf, before)
        = IF buf[1] # tag THEN Decoded(1, before)
          ELSE LET length == decodeLength(Rest(buf, 1))
                   contents == Rest(buf, 1 + getLengthFieldSize(buf[2]))
               IN  Decoded(1 + getLengthFieldSize(buf[2]) + length,
                           Over(before, netmemcpy(SubSeq(contents, 1, length))))
  <2> HIDE DEF buf
  <2> QED  BY DEF BER_DECODE_TIMESTAMP, IfTag
<1>5. ReadsAs(buf, tag, value, tail)
  BY <1>1, <1>2, ElementInBuffer
<1> HIDE DEF buf, tag
<1>6. SubSeq(value \o tail, 1, Len(value)) = value
  BY <1>1, FirstPart
<1>7. BER_DECODE_TIMESTAMP(buf, before)
        = Decoded(Len(Complete(tag, value)), Over(before, netmemcpy(value)))
  BY <1>4, <1>5, <1>6 DEF ReadsAs
<1>8. netmemcpy(value) \in Seq(Byte) /\ Len(netmemcpy(value)) = Len(before)
  BY <1>1, NetmemcpyTwice
<1>9. Over(before, netmemcpy(value)) = netmemcpy(value)
  BY <1>1, <1>8, OverAll
<1> QED  BY <1>3, <1>7, <1>9 DEF buf

LEMMA BooleanReturns ==
  \A value, before \in Octets(1), tail \in Seq(Byte) :
    BER_DECODE_BOOLEAN(BER_ENCODE_PLAIN("BOOLEAN", value) \o tail, before)
      = Decoded(Len(BER_ENCODE_PLAIN("BOOLEAN", value)), value)
<1> TAKE value, before \in Octets(1), tail \in Seq(Byte)
<1> DEFINE tag == ASN1_TAG_BOOLEAN
           c == netmemcpy(value)
           buf == Complete(tag, c) \o tail
<1>1. /\ value \in Seq(Byte) /\ Len(value) = 1
      /\ before \in Seq(Byte) /\ Len(before) = 1
  BY OctetsAreValues
<1>2. tag \in Byte
  BY DEF ASN1_TAG_BOOLEAN, Byte
<1>3. c \in Seq(Byte) /\ Len(c) = 1 /\ Len(c) < 256 * 256 /\ netmemcpy(c) = value
  <2>1. c \in Seq(Byte) /\ Len(c) = Len(value) /\ netmemcpy(c) = value
    BY <1>1, NetmemcpyTwice
  <2> HIDE DEF c
  <2> QED  BY <1>1, <2>1
<1>4. BER_ENCODE_PLAIN("BOOLEAN", value) = Complete(tag, c)
  <2>1. BER_GET_LENGTH("BOOLEAN", value) = 1
    BY DEF BER_GET_LENGTH, SV_GET_LENGTH, Signeds, Unsigneds
  <2> QED  BY <1>3, <2>1 DEF BER_ENCODE_PLAIN, Element, Complete, Heading
<1>5. BER_DECODE_BOOLEAN(buf, before)
        = IF buf[1] # tag THEN Decoded(1, before)
          ELSE LET length == decodeLength(Rest(buf, 1))
                   contents == Rest(buf, 1 + getLengthFieldSize(buf[2]))
               IN  Decoded(1 + getLengthFieldSize(buf[2]) + length,
                           Over(before, netmemcpy(SubSeq(contents, 1, length))))
  <2> HIDE DEF buf
  <2> QED  BY DEF BER_DECODE_BOOLEAN, IfTag
<1> HIDE DEF c
<1>6. ReadsAs(buf, tag, c, tail)
  BY <1>2, <1>3, ElementInBuffer
<1> HIDE DEF buf, tag
<1>7. SubSeq(c \o tail, 1, Len(c)) = c
  BY <1>3, FirstPart
<1>8. BER_DECODE_BOOLEAN(buf, before)
        = Decoded(Len(Complete(tag, c)), Over(before, netmemcpy(c)))
  BY <1>5, <1>6, <1>7 DEF ReadsAs
<1>9. Over(before, value) = value
  BY <1>1, OverAll
<1> QED  BY <1>3, <1>4, <1>8, <1>9 DEF buf

LEMMA DbposArrives ==
  \A value \in Octets(4), tail \in Seq(Byte) :
    BER_DECODE_DBPOS(BER_ENCODE_PLAIN("DBPOS", value) \o tail)
      = Decoded(4, SubSeq(value, 3, 4) \o <<4, 133>>)
<1> TAKE value \in Octets(4), tail \in Seq(Byte)
<1> DEFINE a == <<133>> \o encodeLength(4)
           l == SubSeq(value, 1, 2)
           h == SubSeq(value, 3, 4)
           rl == netmemcpy(l)
           rh == netmemcpy(h)
<1>1. value \in Seq(Byte) /\ Len(value) = 4
  BY OctetsAreValues
<1>2. l \in Seq(Byte) /\ Len(l) = 2 /\ h \in Seq(Byte) /\ Len(h) = 2 /\ value = l \o h
  BY Halves
<1>3. a \in Seq(Byte) /\ Len(a) = 2 /\ netmemcpy(a) = <<4, 133>>
  <2>1. encodeLength(4) = <<4>>
    BY DEF encodeLength
  <2> DEFINE x == <<133>>
             y == <<4>>
  <2>2. /\ x \in Seq(Byte) /\ Len(x) = 1 /\ x[1] = 133
        /\ y \in Seq(Byte) /\ Len(y) = 1 /\ y[1] = 4
    BY DEF Byte
  <2>3. a = x \o y
    BY <2>1, Zenon
  <2> HIDE DEF x, y, a
  <2>4. /\ a \in Seq(Byte) /\ Len(a) = 1 + 1
        /\ \A i \in 1 .. 1 : a[i] = x[i]
        /\ \A i \in 1 .. 1 : a[1 + i] = y[i]
    <3>1. Extends(x, 1, x \o y, y, 1)
      BY <2>2, CatExtends
    <3> QED  BY <2>3, <3>1, Zenon DEF Extends
  <2>5. Len(a) = 2 /\ a[1] = 133 /\ a[2] = 4
    BY <2>2, <2>4
  <2>6. netmemcpy(a) = <<4, 133>>
    BY <2>4, <2>5 DEF netmemcpy
  <2> QED  BY <2>4, <2>5, <2>6
<1>4. BER_ENCODE_PLAIN("DBPOS", value) = a \o netmemcpy(value)
  <2>1. BER_GET_LENGTH("DBPOS", value) = 4
    BY DEF BER_GET_LENGTH, SV_GET_LENGTH, Signeds, Unsigneds
  <2> QED  BY <2>1 DEF BER_ENCODE_PLAIN, Element
<1> HIDE DEF a, l, h
<1>5. /\ rl \in Seq(Byte) /\ Len(rl) = 2
      /\ rh \in Seq(Byte) /\ Len(rh) = 2 /\ netmemcpy(rh) = h
      /\ netmemcpy(value) = rh \o rl
  BY <1>2, NetmemcpyTwice, Turned
<1> HIDE DEF rl, rh
<1>6. (a \o (rh \o rl)) \o tail = (a \o rh) \o (rl \o tail)
      /\ a \o rh \in Seq(Byte) /\ rl \o tail \in Seq(Byte) /\ Len(a \o rh) = 4
  <2>1. /\ a \o rh \in Seq(Byte) /\ rl \o tail \in Seq(Byte) /\ rh \o rl \in Seq(Byte)
        /\ Len(a \o rh) = Len(a) + Len(rh)
    BY <1>3, <1>5, Cat
  <2>2. (a \o rh) \o rl = a \o (rh \o rl)
    <3>1. a \in Seq(Byte) /\ rh \in Seq(Byte) /\ rl \in Seq(Byte)
      BY <1>3, <1>5
    <3> QED  BY <3>1, CatCat
  <2>3. ((a \o rh) \o rl) \o tail = (a \o rh) \o (rl \o tail)
    <3> DEFINE w == a \o rh
    <3>1. w \in Seq(Byte) /\ rl \in Seq(Byte)
      BY <1>5, <2>1
    <3> HIDE DEF w
    <3>2. (w \o rl) \o tail = w \o (rl \o tail)
      BY <3>1, CatCat
    <3> QED  BY <3>2 DEF w
  <2>4. Len(a) + Len(rh) = 4
    BY <1>3, <1>5
  <2> QED  BY <2>1, <2>2, <2>3, <2>4, Zenon
<1>7. SubSeq((a \o rh) \o (rl \o tail), 1, 4) = a \o rh
  BY <1>6, FirstPart, Zenon
<1>8. netmemcpy(a \o rh) = h \o <<4, 133>>
  BY <1>3, <1>5, Turned
<1> QED  BY <1>4, <1>5, <1>6, <1>7, <1>8 DEF BER_DECODE_DBPOS, h
\* The types that are read as they are written.
LEMMA BERRead ==
  \A basic \in BasicTypes \ {"ENUM", "DBPOS"} :
    \A value, before \in Octets(SV_GET_LENGTH(basic)), tail \in Seq(Byte) :
      BER_DECODE(basic, BER_ENCODE(basic, value) \o tail, before)
        = Decoded(Len(BER_ENCODE(basic, value)), ArrivedByBER(basic, value, before))
<1> TAKE basic \in BasicTypes \ {"ENUM", "DBPOS"}
<1> TAKE value, before \in Octets(SV_GET_LENGTH(basic)), tail \in Seq(Byte)
<1> USE DEF Signeds, Unsigneds, BasicTypes
<1>1. CASE basic \in {"FLOAT32", "FLOAT64"}
  <2>1. /\ BER_ENCODE(basic, value) = BER_ENCODE_FLOAT(basic, value)
        /\ BER_DECODE(basic, BER_ENCODE(basic, value) \o tail, before)
             = BER_DECODE_FLOAT(basic, BER_ENCODE(basic, value) \o tail, before)
        /\ ArrivedByBER(basic, value, before) = value
    BY <1>1 DEF BER_ENCODE, BER_DECODE, ArrivedByBER
  <2>2. BER_DECODE_FLOAT(basic, BER_ENCODE_FLOAT(basic, value) \o tail, before)
          = Decoded(Len(BER_ENCODE_FLOAT(basic, value)), value)
    BY <1>1, FloatReturns
  <2> QED  BY <2>1, <2>2
<1>2. CASE basic = "QUALITY"
  <2>1. /\ BER_ENCODE(basic, value) = BER_ENCODE_QUALITY(value)
        /\ BER_DECODE(basic, BER_ENCODE(basic, value) \o tail, before)
             = BER_DECODE_QUALITY(BER_ENCODE(basic, value) \o tail, before)
        /\ ArrivedByBER(basic, value, before) = SubSeq(value, 1, 2) \o SubSeq(before, 3, 4)
    BY <1>2 DEF BER_ENCODE, BER_DECODE, ArrivedByBER
  <2>2. value \in Octets(4) /\ before \in Octets(4)
    BY <1>2 DEF SV_GET_LENGTH
  <2>3. BER_DECODE_QUALITY(BER_ENCODE_QUALITY(value) \o tail, before)
          = Decoded(Len(BER_ENCODE_QUALITY(value)),
                    SubSeq(value, 1, 2) \o SubSeq(before, 3, 4))
    BY <2>2, QualityReturns
  <2> QED  BY <2>1, <2>3
<1>3. CASE basic = "TIMESTAMP"
  <2>1. /\ BER_ENCODE(basic, value) = BER_ENCODE_TIMESTAMP(value)
        /\ BER_DECODE(basic, BER_ENCODE(basic, value) \o tail, before)
             = BER_DECODE_TIMESTAMP(BER_ENCODE(basic, value) \o tail, before)
        /\ ArrivedByBER(basic, value, before) = netmemcpy(value)
    BY <1>3 DEF BER_ENCODE, BER_DECODE, ArrivedByBER
  <2>2. value \in Octets(8) /\ before \in Octets(8)
    BY <1>3 DEF SV_GET_LENGTH
  <2>3. BER_DECODE_TIMESTAMP(BER_ENCODE_TIMESTAMP(value) \o tail, before)
          = Decoded(Len(BER_ENCODE_TIMESTAMP(value)), netmemcpy(value))
    BY <2>2, TimestampReturns
  <2> QED  BY <2>1, <2>3
<1>4. CASE basic \in (Signeds \cup Unsigneds) \ {"ENUM"}
  <2>1. /\ BER_ENCODE(basic, value) = BER_ENCODE_INTEGER(basic, value)
        /\ BER_DECODE(basic, BER_ENCODE(basic, value) \o tail, before)
             = BER_DECODE_INTEGER(basic, BER_ENCODE(basic, value) \o tail, before)
        /\ ArrivedByBER(basic, value, before) = value
    BY <1>4 DEF BER_ENCODE, BER_DECODE, ArrivedByBER
  <2>2. BER_DECODE_INTEGER(basic, BER_ENCODE_INTEGER(basic, value) \o tail, before)
          = Decoded(Len(BER_ENCODE_INTEGER(basic, value)), value)
    BY <1>4, IntegerReturns
  <2> QED  BY <2>1, <2>2
<1>5. CASE basic = "BOOLEAN"
  <2>1. /\ BER_ENCODE(basic, value) = BER_ENCODE_PLAIN("BOOLEAN", value)
        /\ BER_DECODE(basic, BER_ENCODE(basic, value) \o tail, before)
             = BER_DECODE_BOOLEAN(BER_ENCODE(basic, value) \o tail, before)
        /\ ArrivedByBER(basic, value, before) = value
    BY <1>5 DEF BER_ENCODE, BER_DECODE, ArrivedByBER
  <2>2. value \in Octets(1) /\ before \in Octets(1)
    BY <1>5 DEF SV_GET_LENGTH
  <2>3. BER_DECODE_BOOLEAN(BER_ENCODE_PLAIN("BOOLEAN", value) \o tail, before)
          = Decoded(Len(BER_ENCODE_PLAIN("BOOLEAN", value)), value)
    BY <2>2, BooleanReturns
  <2> QED  BY <2>1, <2>3
<1> QED  BY <1>1, <1>2, <1>3, <1>4, <1>5

(* A value of any basic type that is written in BER and read again, over    *)
(* whatever was there and with anything behind it, arrives as ArrivedByBER  *)
(* says; and the reader has used just the bytes written, but for the two    *)
(* types that it reads with no regard to them.                              *)
THEOREM BERReturns ==
  ASSUME NEW basic \in BasicTypes,
         NEW value \in Octets(SV_GET_LENGTH(basic)),
         NEW before \in Octets(SV_GET_LENGTH(basic)),
         NEW tail \in Seq(Byte)
  PROVE  LET written == BER_ENCODE(basic, value)
             result == BER_DECODE(basic, written \o tail, before)
         IN  /\ result.value = ArrivedByBER(basic, value, before)
             /\ basic \notin {"ENUM", "DBPOS"} => result.used = Len(written)
<1>1. CASE basic \notin {"ENUM", "DBPOS"}
  <2>1. BER_DECODE(basic, BER_ENCODE(basic, value) \o tail, before)
          = Decoded(Len(BER_ENCODE(basic, value)), ArrivedByBER(basic, value, before))
    BY <1>1, BERRead
  <2> QED  BY <2>1 DEF Decoded
<1> USE DEF Signeds, Unsigneds
<1>2. CASE basic = "DBPOS"
  <2>1. /\ BER_ENCODE(basic, value) = BER_ENCODE_PLAIN("DBPOS", value)
        /\ BER_DECODE(basic, BER_ENCODE(basic, value) \o tail, before)
             = BER_DECODE_DBPOS(BER_ENCODE(basic, value) \o tail)
        /\ ArrivedByBER(basic, value, before) = SubSeq(value, 3, 4) \o <<4, 133>>
    BY <1>2 DEF BER_ENCODE, BER_DECODE, ArrivedByBER
  <2>2. value \in Octets(4)
    BY <1>2 DEF SV_GET_LENGTH
  <2>3. BER_DECODE_DBPOS(BER_ENCODE_PLAIN("DBPOS", value) \o tail)
          = Decoded(4, SubSeq(value, 3, 4) \o <<4, 133>>)
    BY <2>2, DbposArrives
  <2> QED  BY <1>2, <2>1, <2>3 DEF Decoded
<1>3. CASE basic = "ENUM"
  <2> DEFINE c == ber_encode_integer(value)
             written == BER_ENCODE(basic, value)
             buf == Complete(ASN1_TAG_INTEGER, c) \o tail
  <2>1. written = BER_ENCODE_INTEGER(basic, value)
    BY <1>3 DEF BER_ENCODE
  <2>2. BER_GET_LENGTH(basic, value) = ber_integer_length(value)
    BY <1>3 DEF BER_GET_LENGTH
  <2>3. value \in Octets(4)
    BY <1>3 DEF SV_GET_LENGTH
  <2>4. Few(c) /\ Len(c) = ber_integer_length(value)
    <3>1. value \in Seq(Byte) /\ Len(value) > 0 /\ 4 \in 1 .. 8
      BY <2>3, OctetsAreValues
    <3> QED  BY <2>3, <3>1, FewBytes, NumberInBytes
  <2>5. written = Complete(ASN1_TAG_INTEGER, c)
    BY <1>3, <2>1, <2>2, <2>4 DEF BER_ENCODE_INTEGER, Element, Complete, Heading
  <2>6. ASN1_TAG_INTEGER \in Byte /\ c \in Seq(Byte) /\ Len(c) < 256 * 256
    BY <2>4 DEF ASN1_TAG_INTEGER, Byte, Few
  <2>7. buf[1] = ASN1_TAG_INTEGER
    BY <2>6, ElementInBuffer DEF ReadsAs
  <2>8. BER_DECODE(basic, buf, before) = BER_DECODE_INTEGER(basic, buf, before)
    <3> HIDE DEF buf
    <3> QED  BY <1>3 DEF BER_DECODE
  <2>9. BER_DECODE_INTEGER(basic, buf, before) = Decoded(1, before)
    <3> HIDE DEF buf
    <3> QED  BY <1>3, <2>7 DEF BER_DECODE_INTEGER, IfTag, ASN1_TAG_INTEGER, ASN1_TAG_UNSIGNED
  <2>10. ArrivedByBER(basic, value, before) = before
    BY <1>3 DEF ArrivedByBER
  <2> HIDE DEF written, c
  <2> QED  BY <1>3, <2>5, <2>8, <2>9, <2>10 DEF Decoded, written
<1> QED  BY <1>1, <1>2, <1>3

LEMMA PlainRead ==
  \A basic \in BasicTypes :
    \A value, buf \in Octets(SV_GET_LENGTH(basic)), tail \in Seq(Byte) :
      LET written == ENCODE_CTYPE(basic, value, buf) IN
        /\ written \in Seq(Byte) /\ Len(written) = SV_GET_LENGTH(basic)
        /\ DECODE_CTYPE(basic, written \o tail)
             = Decoded(Len(written), ArrivedPlain(basic, value, netmemcpy(SubSeq(buf, 1, 2))))
<1> TAKE basic \in BasicTypes
<1> TAKE value, buf \in Octets(SV_GET_LENGTH(basic)), tail \in Seq(Byte)
<1> DEFINE width == SV_GET_LENGTH(basic)
           written == ENCODE_CTYPE(basic, value, buf)
<1>1. width \in Nat
  BY DEF SV_GET_LENGTH
<1>2. ASSUME written \in Seq(Byte), Len(written) = width
      PROVE  DECODE_CTYPE(basic, written \o tail) = Decoded(Len(written), netmemcpy(written))
  <2> HIDE DEF written
  <2>1. SubSeq(written \o tail, 1, width) = written
    BY <1>2, FirstPart
  <2> QED  BY <1>2, <2>1 DEF DECODE_CTYPE
<1>3. value \in Seq(Byte) /\ Len(value) = width /\ buf \in Seq(Byte) /\ Len(buf) = width
  <2> HIDE DEF width
  <2> QED  BY <1>1, OctetsAreBytes DEF width
<1>4. CASE basic # "QUALITY"
  <2>1. written = netmemcpy(value)
    BY <1>4 DEF ENCODE_CTYPE
  <2>2. /\ netmemcpy(value) \in Seq(Byte) /\ Len(netmemcpy(value)) = width
        /\ netmemcpy(netmemcpy(value)) = value
    BY <1>3, NetmemcpyTwice
  <2>3. DECODE_CTYPE(basic, written \o tail) = Decoded(Len(written), value)
    BY <1>2, <2>1, <2>2, Zenon
  <2>4. ArrivedPlain(basic, value, netmemcpy(SubSeq(buf, 1, 2))) = value
    BY <1>4 DEF ArrivedPlain
  <2>5. written \in Seq(Byte) /\ Len(written) = width
    BY <2>1, <2>2
  <2> HIDE DEF written, width
  <2> QED  BY <2>3, <2>4, <2>5 DEF written, width
<1>5. CASE basic = "QUALITY"
  <2> DEFINE q == SubSeq(value, 1, 2)
             s == SubSeq(buf, 1, 2)
             r == netmemcpy(q)
  <2>1. width = 4 /\ value \in Octets(4) /\ buf \in Octets(4)
    BY <1>5 DEF SV_GET_LENGTH
  <2>2. q \in Seq(Byte) /\ Len(q) = 2 /\ s \in Seq(Byte) /\ Len(s) = 2
    BY <2>1, Halves
  <2>3. written = s \o r
    BY <1>5 DEF ENCODE_CTYPE
  <2> HIDE DEF written, q, s
  <2>4. r \in Seq(Byte) /\ Len(r) = 2 /\ netmemcpy(r) = q
    BY <2>2, NetmemcpyTwice
  <2> HIDE DEF r
  <2>5. written \in Seq(Byte) /\ Len(written) = width
    <3>1. s \o r \in Seq(Byte) /\ Len(s \o r) = Len(s) + Len(r)
      BY <2>2, <2>4, Cat
    <3>2. Len(s) + Len(r) = 4
      BY <2>2, <2>4
    <3> QED  BY <2>1, <2>3, <3>1, <3>2, Zenon
  <2>6. netmemcpy(written) = q \o netmemcpy(s)
    BY <2>2, <2>3, <2>4, Turned
  <2>7. DECODE_CTYPE(basic, written \o tail) = Decoded(Len(written), q \o netmemcpy(s))
    BY <1>2, <2>5, <2>6
  <2>8. ArrivedPlain(basic, value, netmemcpy(s)) = q \o netmemcpy(s)
    BY <1>5 DEF ArrivedPlain, q
  <2> HIDE DEF width
  <2> QED  BY <2>5, <2>7, <2>8 DEF written, s, width
<1> QED  BY <1>4, <1>5

(* The same for the plain coding: only of a quality the upper half is what  *)
(* was in the encoder's buffer before.                                      *)
THEOREM PlainReturns ==
  ASSUME NEW basic \in BasicTypes,
         NEW value \in Octets(SV_GET_LENGTH(basic)),
         NEW buf \in Octets(SV_GET_LENGTH(basic)),
         NEW tail \in Seq(Byte)
  PROVE  LET written == ENCODE_CTYPE(basic, value, buf)
             result == DECODE_CTYPE(basic, written \o tail)
         IN  /\ result.value = ArrivedPlain(basic, value, netmemcpy(SubSeq(buf, 1, 2)))
             /\ result.used = Len(written)
<1> DEFINE written == ENCODE_CTYPE(basic, value, buf)
<1>1. DECODE_CTYPE(basic, written \o tail)
        = Decoded(Len(written), ArrivedPlain(basic, value, netmemcpy(SubSeq(buf, 1, 2))))
  BY PlainRead
<1> HIDE DEF written
<1> QED  BY <1>1 DEF Decoded, written
--------------------------------------------------------------------------------
(* Sums, and sequences put together, by the least counterexample. *)

(* Induction up to n, over a set. *)
LEMMA Upwards ==
  \A n \in Nat : \A T \in SUBSET (0 .. n) :
    0 \in T /\ (\A i \in 1 .. n : i - 1 \in T => i \in T) => \A i \in 0 .. n : i \in T
<1> TAKE n \in Nat
<1> TAKE T \in SUBSET (0 .. n)
<1> HAVE 0 \in T /\ (\A i \in 1 .. n : i - 1 \in T => i \in T)
<1> DEFINE U == (0 .. n) \ T
<1>1. CASE U = {}
  BY <1>1
<1>2. CASE U # {}
  <2>1. U \in SUBSET Nat
    OBVIOUS
  <2>2. PICK x \in U : \A y \in U : x <= y
    BY <1>2, <2>1, LeastNumber
  <2>3. x \in 1 .. n /\ x - 1 \in 0 .. n /\ ~ (x <= x - 1)
    BY <2>2
  <2> QED  BY <2>2, <2>3
<1> QED  BY <1>1, <1>2

(* A function is there that is defined step by step. *)
Follows(f, a, n, step) == f[0] = a /\ \A i \in 1 .. n : f[i] = step[i][f[i - 1]]

LEMMA Recursion ==
  \A S : \A a \in S, n \in Nat : \A step \in [1 .. n -> [S -> S]] :
    \E f \in [0 .. n -> S] : Follows(f, a, n, step)
<1> SUFFICES ASSUME NEW S, NEW a \in S, NEW n \in Nat, NEW step \in [1 .. n -> [S -> S]]
             PROVE  \E f \in [0 .. n -> S] : Follows(f, a, n, step)
  OBVIOUS
<1> DEFINE Up(f, m) == f[0] = a /\ \A i \in 1 .. m : f[i] = step[i][f[i - 1]]
           T == {m \in 0 .. n : \E f \in [0 .. m -> S] : Up(f, m)}
<1>1. 0 \in T
  <2> DEFINE f == [i \in 0 .. 0 |-> a]
  <2>1. f \in [0 .. 0 -> S] /\ Up(f, 0)
    OBVIOUS
  <2>2. 0 \in 0 .. n
    OBVIOUS
  <2> HIDE DEF f, Up
  <2> QED  BY <2>1, <2>2, Zenon
<1>2. ASSUME NEW m \in 1 .. n, m - 1 \in T
      PROVE  m \in T
  <2>1. PICK f \in [0 .. m - 1 -> S] : Up(f, m - 1)
    BY <1>2
  <2> DEFINE g == [i \in 0 .. m |-> IF i = m THEN step[m][f[m - 1]] ELSE f[i]]
  <2>2. f[m - 1] \in S /\ step[m][f[m - 1]] \in S
    OBVIOUS
  <2>3. g \in [0 .. m -> S]
    BY <2>2
  <2>4. g[0] = a
    BY <2>1
  <2>5. ASSUME NEW i \in 1 .. m
        PROVE  g[i] = step[i][g[i - 1]]
    <3>1. i - 1 \in 0 .. m /\ i - 1 # m /\ i \in 0 .. m /\ m \in 0 .. m
      OBVIOUS
    <3>2. g[i - 1] = f[i - 1]
      BY <3>1
    <3>3. CASE i = m
      BY <3>1, <3>2, <3>3
    <3>4. CASE i # m
      <4>1. i \in 1 .. m - 1 /\ g[i] = f[i]
        BY <3>1, <3>4
      <4> QED  BY <2>1, <3>2, <4>1
    <3> QED  BY <3>3, <3>4
  <2> HIDE DEF g
  <2>6. Up(g, m)
    BY <2>4, <2>5
  <2>7. m \in 0 .. n
    OBVIOUS
  <2> HIDE DEF Up
  <2> QED  BY <2>3, <2>6, <2>7, Zenon
<1>3. T \in SUBSET (0 .. n)
  OBVIOUS
<1>4. \A m \in 1 .. n : m - 1 \in T => m \in T
  <2> HIDE DEF T
  <2> QED  BY <1>2
<1>5. n \in 0 .. n
  OBVIOUS
<1>6. n \in T
  <2> HIDE DEF T
  <2> QED  BY <1>1, <1>3, <1>4, <1>5, Upwards, Zenon
<1> QED  BY <1>6, Zenon DEF Follows

Sums(s, n, lengths) ==
  /\ s \in [0 .. n -> Nat]
  /\ s[0] = 0
  /\ \A i \in 1 .. n : s[i] = s[i - 1] + lengths[i]

LEMMA TotalIs ==
  ASSUME NEW n \in Nat, NEW lengths \in [1 .. n -> Nat]
  PROVE  \E s : Sums(s, n, lengths) /\ Total(lengths) = s[n]
<1> DEFINE step == [i \in 1 .. n |-> [x \in Nat |-> x + lengths[i]]]
           IsSum(f) == f = [i \in 0 .. n |-> IF i = 0 THEN 0 ELSE f[i - 1] + lengths[i]]
           sum == CHOOSE f : IsSum(f)
<1>1. step \in [1 .. n -> [Nat -> Nat]]
  OBVIOUS
<1>2. PICK g \in [0 .. n -> Nat] : Follows(g, 0, n, step)
  <2> HIDE DEF step
  <2>1. 0 \in Nat
    OBVIOUS
  <2> QED  BY <1>1, <2>1, Recursion, Zenon
<1>3. \A i \in 1 .. n : g[i - 1] \in Nat /\ g[i] = g[i - 1] + lengths[i]
  <2> TAKE i \in 1 .. n
  <2>1. i - 1 \in 0 .. n /\ g[i - 1] \in Nat
    OBVIOUS
  <2>2. step[i][g[i - 1]] = g[i - 1] + lengths[i]
    BY <2>1
  <2> HIDE DEF step
  <2> QED  BY <1>2, <2>1, <2>2 DEF Follows
<1>9. g[0] = 0
  BY <1>2 DEF Follows
<1>4. IsSum(g)
  <2>1. \A i \in 0 .. n : g[i] = IF i = 0 THEN 0 ELSE g[i - 1] + lengths[i]
    BY <1>3, <1>9
  <2> QED  BY <2>1
<1>5. IsSum(sum)
  <2> HIDE DEF IsSum
  <2> QED  BY <1>4
<1>6. Len(lengths) = n
  OBVIOUS
<1>7. Total(lengths) = sum[n]
  BY <1>6 DEF Total
<1> HIDE DEF sum
<1>8. sum[n] = g[n]
  <2> DEFINE T == {i \in 0 .. n : sum[i] = g[i]}
  <2>1. 0 \in T
    BY <1>9, <1>5
  <2>2. ASSUME NEW i \in 1 .. n, i - 1 \in T
        PROVE  i \in T
    <3>1. sum[i] = sum[i - 1] + lengths[i]
      BY <1>5
    <3> QED  BY <1>3, <2>2, <3>1
  <2>3. T \in SUBSET (0 .. n) /\ n \in 0 .. n
    OBVIOUS
  <2> HIDE DEF T
  <2>4. \A i \in 1 .. n : i - 1 \in T => i \in T
    BY <2>2
  <2>5. n \in T
    BY <2>1, <2>3, <2>4, Upwards, Zenon
  <2> QED  BY <2>5 DEF T
<1> QED  BY <1>9, <1>3, <1>7, <1>8 DEF Sums

(* The sequences of parts up to each of them. *)
Joins(f, n, parts) ==
  /\ f \in [0 .. n -> Seq(Byte)]
  /\ f[0] = <<>>
  /\ \A i \in 1 .. n : f[i] = f[i - 1] \o parts[i]

LEMMA JoinedIs ==
  \A n \in Nat : \A parts \in [1 .. n -> Seq(Byte)] :
    \E f : Joins(f, n, parts) /\ FlattenSeq(parts) = f[n]
<1> TAKE n \in Nat
<1> TAKE parts \in [1 .. n -> Seq(Byte)]
<1> DEFINE step == [i \in 1 .. n |-> [x \in Seq(Byte) |-> x \o parts[i]]]
           IsJoin(f) == f = [i \in 1 .. n |-> IF i = 1 THEN parts[i] ELSE f[i - 1] \o parts[i]]
           join == CHOOSE f : IsJoin(f)
<1>1. step \in [1 .. n -> [Seq(Byte) -> Seq(Byte)]]
  <2>1. ASSUME NEW i \in 1 .. n, NEW x \in Seq(Byte)
        PROVE  x \o parts[i] \in Seq(Byte)
    <3>1. parts[i] \in Seq(Byte)
      OBVIOUS
    <3> QED  BY <3>1, Cat
  <2> QED  BY <2>1
<1>2. PICK g \in [0 .. n -> Seq(Byte)] : Follows(g, <<>>, n, step)
  <2> HIDE DEF step
  <2>1. <<>> \in Seq(Byte)
    BY EmptySeq
  <2> QED  BY <1>1, <2>1, Recursion, Zenon
<1>3. g[0] = <<>>
  BY <1>2 DEF Follows
<1>4. \A i \in 1 .. n : g[i - 1] \in Seq(Byte) /\ g[i] = g[i - 1] \o parts[i]
  <2> TAKE i \in 1 .. n
  <2>1. i - 1 \in 0 .. n /\ g[i - 1] \in Seq(Byte)
    OBVIOUS
  <2>2. step[i][g[i - 1]] = g[i - 1] \o parts[i]
    BY <2>1
  <2> HIDE DEF step
  <2> QED  BY <1>2, <2>1, <2>2 DEF Follows
<1>5. Joins(g, n, parts)
  BY <1>3, <1>4 DEF Joins
<1>6. CASE n = 0
  <2>1. parts = <<>> /\ Len(parts) = 0
    BY <1>6
  <2>2. FlattenSeq(parts) = parts
    BY <2>1 DEF FlattenSeq
  <2> QED  BY <1>3, <1>5, <1>6, <2>1, <2>2
<1>7. CASE n # 0
  <2> DEFINE h == [i \in 1 .. n |-> g[i]]
  <2>1. 1 \in 1 .. n /\ g[1] = parts[1]
    <3>1. 1 \in 1 .. n /\ parts[1] \in Seq(Byte)
      BY <1>7
    <3>2. g[1] = <<>> \o parts[1]
      <4>1. g[1] = g[1 - 1] \o parts[1]
        BY <1>4, <3>1, Zenon
      <4>2. 1 - 1 = 0
        OBVIOUS
      <4> QED  BY <1>3, <4>1, <4>2
    <3> QED  BY <3>1, <3>2, ConcatEmptySeq
  <2>2. IsJoin(h)
    <3>1. \A i \in 1 .. n : h[i] = IF i = 1 THEN parts[i] ELSE h[i - 1] \o parts[i]
      <4> TAKE i \in 1 .. n
      <4>1. h[i] = g[i]
        OBVIOUS
      <4>2. CASE i = 1
        BY <2>1, <4>1, <4>2
      <4>3. CASE i # 1
        <5>1. i - 1 \in 1 .. n /\ h[i - 1] = g[i - 1]
          BY <4>3
        <5>2. g[i] = g[i - 1] \o parts[i]
          BY <1>4
        <5> HIDE DEF h
        <5> QED  BY <4>1, <4>3, <5>1, <5>2
      <4> QED  BY <4>2, <4>3
    <3> QED  BY <3>1
  <2>3. IsJoin(join)
    <3> HIDE DEF IsJoin, h
    <3> QED  BY <2>2
  <2>4. Len(parts) = n
    OBVIOUS
  <2>5. FlattenSeq(parts) = join[n]
    BY <1>7, <2>4 DEF FlattenSeq
  <2> HIDE DEF join
  <2> DEFINE T == {i \in 0 .. n : i = 0 \/ join[i] = g[i]}
  <2>6. 0 \in T
    OBVIOUS
  <2>7. ASSUME NEW i \in 1 .. n, i - 1 \in T
        PROVE  i \in T
    <3>1. join[i] = IF i = 1 THEN parts[i] ELSE join[i - 1] \o parts[i]
      BY <2>3
    <3>2. g[i] = g[i - 1] \o parts[i]
      BY <1>4
    <3>3. i # 1 => join[i - 1] = g[i - 1]
      BY <2>7
    <3>4. join[i] = g[i]
      BY <2>1, <3>1, <3>2, <3>3
    <3> QED  BY <3>4
  <2>8. T \in SUBSET (0 .. n) /\ n \in 0 .. n
    OBVIOUS
  <2> HIDE DEF T
  <2>9. \A i \in 1 .. n : i - 1 \in T => i \in T
    BY <2>7
  <2>10. n \in T
    BY <2>6, <2>8, <2>9, Upwards, Zenon
  <2>11. join[n] = g[n]
    BY <1>7, <2>10 DEF T
  <2> QED  BY <1>5, <2>5, <2>11
<1> QED  BY <1>6, <1>7

\* Each of them is a beginning of the whole.
Begins(f, n) == \A i \in 0 .. n : \E r \in Seq(Byte) : f[n] = f[i] \o r

LEMMA JoinedBefore ==
  \A n \in Nat : \A parts \in [1 .. n -> Seq(Byte)] : \A f :
    Joins(f, n, parts) => Begins(f, n)
<1> TAKE n \in Nat
<1> TAKE parts \in [1 .. n -> Seq(Byte)]
<1> TAKE f
<1> HAVE Joins(f, n, parts)
<1> DEFINE T == {k \in 0 .. n : \E r \in Seq(Byte) : f[n] = f[n - k] \o r}
<1>1. \A i \in 0 .. n : f[i] \in Seq(Byte)
  BY DEF Joins
<1>2. 0 \in T
  <2>1. f[n] = f[n - 0] \o <<>> /\ <<>> \in Seq(Byte)
    <3>1. n \in 0 .. n /\ n - 0 = n /\ f[n] \in Seq(Byte)
      BY <1>1
    <3> QED  BY <3>1, ConcatEmptySeq, EmptySeq
  <2>2. 0 \in 0 .. n
    OBVIOUS
  <2> QED  BY <2>1, <2>2, Zenon
<1>3. ASSUME NEW k \in 1 .. n, k - 1 \in T
      PROVE  k \in T
  <2>1. PICK r \in Seq(Byte) : f[n] = f[n - (k - 1)] \o r
    BY <1>3
  <2>2. /\ n - k \in 0 .. n /\ n - (k - 1) \in 1 .. n /\ (n - (k - 1)) - 1 = n - k
        /\ k \in 0 .. n
    OBVIOUS
  <2> DEFINE p == parts[n - (k - 1)]
  <2>3. f[n - (k - 1)] = f[n - k] \o p
    BY <2>2 DEF Joins
  <2>4. p \in Seq(Byte) /\ f[n - k] \in Seq(Byte)
    BY <1>1, <2>2
  <2> HIDE DEF p
  <2>5. (f[n - k] \o p) \o r = f[n - k] \o (p \o r) /\ p \o r \in Seq(Byte)
    BY <2>4, Cat, CatCat, Zenon
  <2>6. f[n] = f[n - k] \o (p \o r)
    BY <2>1, <2>3, <2>5, Zenon
  <2> QED  BY <2>2, <2>5, <2>6, Zenon
<1>4. T \in SUBSET (0 .. n)
  OBVIOUS
<1>5. \A k \in 1 .. n : k - 1 \in T => k \in T
  <2> HIDE DEF T
  <2> QED  BY <1>3
<1>6. \A k \in 0 .. n : k \in T
  <2> HIDE DEF T
  <2> QED  BY <1>2, <1>4, <1>5, Upwards, Zenon
<1> SUFFICES ASSUME NEW i \in 0 .. n
             PROVE  \E r \in Seq(Byte) : f[n] = f[i] \o r
  BY DEF Begins
<1>7. n - i \in 0 .. n /\ n - (n - i) = i
  OBVIOUS
<1>8. \E r \in Seq(Byte) : f[n] = f[n - (n - i)] \o r
  BY <1>6, <1>7, Zenon
<1> QED  BY <1>7, <1>8

(* The length of the whole. *)
LEMMA JoinedLength ==
  \A n \in Nat : \A parts \in [1 .. n -> Seq(Byte)] :
    /\ FlattenSeq(parts) \in Seq(Byte)
    /\ Len(FlattenSeq(parts)) = Total([i \in 1 .. n |-> Len(parts[i])])
<1> TAKE n \in Nat
<1> TAKE parts \in [1 .. n -> Seq(Byte)]
<1> DEFINE lengths == [i \in 1 .. n |-> Len(parts[i])]
<1>1. PICK f : Joins(f, n, parts) /\ FlattenSeq(parts) = f[n]
  BY JoinedIs
<1>2. lengths \in [1 .. n -> Nat]
  <2>1. \A i \in 1 .. n : Len(parts[i]) \in Nat
    BY LenProperties
  <2> QED  BY <2>1
<1>3. \A i \in 1 .. n : lengths[i] = Len(parts[i])
  OBVIOUS
<1> HIDE DEF lengths
<1>4. PICK s : Sums(s, n, lengths) /\ Total(lengths) = s[n]
  BY <1>2, TotalIs, Zenon
<1> DEFINE T == {i \in 0 .. n : Len(f[i]) = s[i]}
<1>5. 0 \in T
  BY <1>1, <1>4, EmptySeq DEF Joins, Sums
<1>6. ASSUME NEW i \in 1 .. n, i - 1 \in T
      PROVE  i \in T
  <2>1. /\ f[i] = f[i - 1] \o parts[i] /\ f[i - 1] \in Seq(Byte)
        /\ s[i] = s[i - 1] + Len(parts[i])
    <3>1. i - 1 \in 0 .. n
      OBVIOUS
    <3> QED  BY <1>1, <1>3, <1>4, <3>1 DEF Joins, Sums
  <2>2. parts[i] \in Seq(Byte)
    OBVIOUS
  <2>3. Len(f[i - 1] \o parts[i]) = Len(f[i - 1]) + Len(parts[i])
    BY <2>1, <2>2, Cat, Zenon
  <2>4. Len(f[i - 1]) = s[i - 1]
    BY <1>6
  <2>5. Len(f[i]) = s[i] /\ i \in 0 .. n
    <3>1. Len(f[i]) = Len(f[i - 1]) + Len(parts[i])
      BY <2>1, <2>3, Zenon
    <3> QED  BY <2>1, <2>4, <3>1
  <2> QED  BY <2>5
<1>7. T \in SUBSET (0 .. n) /\ n \in 0 .. n
  OBVIOUS
<1>8. Len(f[n]) = s[n]
  <2> HIDE DEF T
  <2>1. \A i \in 1 .. n : i - 1 \in T => i \in T
    BY <1>6
  <2>2. n \in T
    BY <1>5, <1>7, <2>1, Upwards, Zenon
  <2> QED  BY <2>2 DEF T
<1> QED  BY <1>1, <1>4, <1>7, <1>8 DEF Joins, lengths

\* Each reader reads its own part, whatever is behind it, and makes of it what arrives.
ReadEach(n, readers, parts, arrived) ==
  /\ DOMAIN readers = 1 .. n /\ Len(readers) = n
  /\ \A i \in 1 .. n : \A t \in Seq(Byte) :
       readers[i][parts[i] \o t] = Decoded(Len(parts[i]), arrived[i])

\* All that arrives.
Gathered(n, arrived) == [i \in 1 .. n |-> arrived[i]]

(* Such readers, one after the other, read all the parts.                   *)
LEMMA InTurnReads ==
  \A n \in Nat : \A parts \in [1 .. n -> Seq(Byte)], tail \in Seq(Byte) :
    \A readers, arrived :
      ReadEach(n, readers, parts, arrived) =>
        InTurn(readers, FlattenSeq(parts) \o tail)
          = Decoded(Len(FlattenSeq(parts)), Gathered(n, arrived))
<1> TAKE n \in Nat
<1> TAKE parts \in [1 .. n -> Seq(Byte)], tail \in Seq(Byte)
<1> TAKE readers, arrived
<1> HAVE ReadEach(n, readers, parts, arrived)
<1>16. /\ DOMAIN readers = 1 .. n /\ Len(readers) = n
       /\ \A i \in 1 .. n : \A t \in Seq(Byte) :
            readers[i][parts[i] \o t] = Decoded(Len(parts[i]), arrived[i])
  BY Zenon DEF ReadEach
<1> DEFINE buf == FlattenSeq(parts) \o tail
           Reads(o) == o = [i \in 0 .. n |-> IF i = 0 THEN 0
                              ELSE LET before == o[i - 1]
                                   IN  before + readers[i][Rest(buf, before)].used]
           offset == CHOOSE o : Reads(o)
<1>1. PICK f : Joins(f, n, parts) /\ FlattenSeq(parts) = f[n]
  BY JoinedIs
<1>2. \A i \in 0 .. n : f[i] \in Seq(Byte) /\ Len(f[i]) \in Nat
  BY <1>1, LenProperties DEF Joins
<1>3. f[0] = <<>> /\ Len(f[0]) = 0
  BY <1>1, EmptySeq DEF Joins
<1>4. ASSUME NEW i \in 1 .. n
      PROVE  /\ Len(f[i - 1]) \in Nat
             /\ Len(f[i]) = Len(f[i - 1]) + Len(parts[i])
             /\ readers[i][Rest(buf, Len(f[i - 1]))] = Decoded(Len(parts[i]), arrived[i])
  <2>1. i - 1 \in 0 .. n /\ i \in 0 .. n /\ parts[i] \in Seq(Byte)
    OBVIOUS
  <2>2. f[i] = f[i - 1] \o parts[i]
    BY <1>1 DEF Joins
  <2>3. PICK r \in Seq(Byte) : f[n] = f[i] \o r
    <3>1. Begins(f, n)
      BY <1>1, JoinedBefore, Zenon
    <3> QED  BY <2>1, <3>1, Zenon DEF Begins
  <2> DEFINE a == f[i - 1]
             p == parts[i]
  <2>4. a \in Seq(Byte) /\ Len(a) \in Nat /\ p \in Seq(Byte)
    BY <1>2, <2>1
  <2> HIDE DEF a, p
  <2>5. Len(a \o p) = Len(a) + Len(p) /\ a \o p \in Seq(Byte)
    BY <2>4, Cat, Zenon
  <2>6. buf = a \o (p \o (r \o tail))
    <3>1. f[n] = (a \o p) \o r
      BY <2>2, <2>3 DEF a, p
    <3>2. r \o tail \in Seq(Byte)
      BY Cat, Zenon
    <3>3. ((a \o p) \o r) \o tail = (a \o p) \o (r \o tail)
      BY <2>5, CatCat, Zenon
    <3>4. (a \o p) \o (r \o tail) = a \o (p \o (r \o tail))
      BY <2>4, <3>2, CatCat, Zenon
    <3>5. buf = ((a \o p) \o r) \o tail
      BY <1>1, <3>1
    <3> QED  BY <3>3, <3>4, <3>5, Zenon
  <2>7. r \o tail \in Seq(Byte)
    BY Cat, Zenon
  <2>8. p \o (r \o tail) \in Seq(Byte)
    BY <2>4, <2>7, Cat, Zenon
  <2>9. Rest(buf, Len(a)) = p \o (r \o tail)
    BY <2>4, <2>6, <2>8, Dropped, Zenon
  <2>10. readers[i][p \o (r \o tail)] = Decoded(Len(p), arrived[i])
    BY <1>16, <2>7, Zenon DEF p
  <2>11. /\ Len(a) \in Nat
         /\ Len(f[i]) = Len(a) + Len(p)
         /\ readers[i][Rest(buf, Len(a))] = Decoded(Len(p), arrived[i])
    <3>1. f[i] = a \o p
      BY <2>2 DEF a, p
    <3> QED  BY <2>4, <2>5, <2>9, <2>10, <3>1, Zenon
  <2> QED  BY <2>11 DEF a, p
<1>5. \A i \in 1 .. n : LET result == readers[i][Rest(buf, Len(f[i - 1]))] IN
         /\ Len(f[i]) = Len(f[i - 1]) + Len(parts[i])
         /\ result.used = Len(parts[i])
         /\ result.value = arrived[i]
  <2> HIDE DEF buf
  <2> TAKE i \in 1 .. n
  <2> DEFINE result == readers[i][Rest(buf, Len(f[i - 1]))]
  <2>1. result = Decoded(Len(parts[i]), arrived[i]) /\ Len(f[i]) = Len(f[i - 1]) + Len(parts[i])
    BY <1>4
  <2> HIDE DEF result
  <2>2. result.used = Len(parts[i]) /\ result.value = arrived[i]
    BY <2>1 DEF Decoded
  <2> QED  BY <2>1, <2>2 DEF result
<1> DEFINE g == [i \in 0 .. n |-> Len(f[i])]
<1> HIDE DEF buf
<1>6. Reads(g)
  <2>1. ASSUME NEW i \in 0 .. n
        PROVE  g[i] = IF i = 0 THEN 0
                      ELSE g[i - 1] + readers[i][Rest(buf, g[i - 1])].used
    <3>1. CASE i = 0
      BY <1>3, <3>1
    <3>2. CASE i # 0
      <4>1. i \in 1 .. n /\ i - 1 \in 0 .. n
        BY <3>2
      <4>2. g[i] = Len(f[i]) /\ g[i - 1] = Len(f[i - 1])
        BY <4>1
      <4>3. readers[i][Rest(buf, Len(f[i - 1]))].used = Len(parts[i])
        BY <1>5, <4>1
      <4>4. Len(f[i]) = Len(f[i - 1]) + Len(parts[i])
        BY <1>5, <4>1
      <4> HIDE DEF g
      <4> QED  BY <3>2, <4>2, <4>3, <4>4
    <3> QED  BY <3>1, <3>2
  <2>2. \A i \in 0 .. n : g[i] = IF i = 0 THEN 0
                                 ELSE g[i - 1] + readers[i][Rest(buf, g[i - 1])].used
    <3> HIDE DEF g
    <3> QED  BY <2>1
  <2> QED  BY <2>2
<1>7. Reads(offset)
  <2> HIDE DEF Reads, g
  <2> QED  BY <1>6
<1>8. \A i \in 1 .. n : offset[i] = offset[i - 1] + readers[i][Rest(buf, offset[i - 1])].used
  <2> TAKE i \in 1 .. n
  <2>1. i \in 0 .. n /\ i # 0
    OBVIOUS
  <2> HIDE DEF offset
  <2> QED  BY <1>7, <2>1
<1>9. offset[0] = 0
  <2> HIDE DEF offset
  <2> QED  BY <1>7
<1>10. InTurn(readers, buf)
        = Decoded(offset[n], [i \in 1 .. n |-> readers[i][Rest(buf, offset[i - 1])].value])
  BY <1>16 DEF InTurn
<1> HIDE DEF offset, Reads
<1>11. \A i \in 0 .. n : offset[i] = Len(f[i])
  <2> DEFINE T == {i \in 0 .. n : offset[i] = Len(f[i])}
  <2>1. 0 \in T
    BY <1>3, <1>9
  <2>2. ASSUME NEW i \in 1 .. n, i - 1 \in T
        PROVE  i \in T
    <3>1. offset[i - 1] = Len(f[i - 1])
      BY <2>2
    <3>2. readers[i][Rest(buf, offset[i - 1])].used = Len(parts[i])
      BY <1>5, <3>1
    <3>3. offset[i] = Len(f[i])
      BY <1>5, <1>8, <3>1, <3>2
    <3> QED  BY <3>3
  <2>3. T \in SUBSET (0 .. n)
    OBVIOUS
  <2>4. \A i \in 1 .. n : i - 1 \in T => i \in T
    <3> HIDE DEF T
    <3> QED  BY <2>2
  <2>5. \A i \in 0 .. n : i \in T
    <3> HIDE DEF T
    <3> QED  BY <2>1, <2>3, <2>4, Upwards, Zenon
  <2> QED  BY <2>5
<1>12. \A i \in 1 .. n : readers[i][Rest(buf, offset[i - 1])].value = arrived[i]
  <2> TAKE i \in 1 .. n
  <2>1. i - 1 \in 0 .. n
    OBVIOUS
  <2> QED  BY <1>5, <1>11, <2>1
<1>13. n \in 0 .. n
  OBVIOUS
<1>14. offset[n] = Len(FlattenSeq(parts))
  BY <1>1, <1>11, <1>13
<1>15. [i \in 1 .. n |-> readers[i][Rest(buf, offset[i - 1])].value]
         = Gathered(n, arrived)
  BY <1>12 DEF Gathered
<1> QED  BY <1>10, <1>14, <1>15, Zenon DEF buf

(* A few small numbers have a small sum. *)
LEMMA TotalSmall ==
  \A n \in Nat : \A lengths \in [1 .. n -> Nat] : \A m \in Nat :
    (\A i \in 1 .. n : lengths[i] <= m) => Total(lengths) \in Nat /\ Total(lengths) <= n * m
<1> TAKE n \in Nat
<1> TAKE lengths \in [1 .. n -> Nat]
<1> TAKE m \in Nat
<1> HAVE \A i \in 1 .. n : lengths[i] <= m
<1>1. PICK s : Sums(s, n, lengths) /\ Total(lengths) = s[n]
  BY TotalIs
<1> DEFINE T == {i \in 0 .. n : s[i] <= i * m}
<1>2. 0 \in T
  BY <1>1 DEF Sums
<1>3. ASSUME NEW i \in 1 .. n, i - 1 \in T
      PROVE  i \in T
  <2>1. s[i - 1] <= (i - 1) * m /\ s[i - 1] \in Nat
    BY <1>1, <1>3 DEF Sums
  <2>2. s[i] = s[i - 1] + lengths[i] /\ lengths[i] \in Nat /\ lengths[i] <= m
    BY <1>1 DEF Sums
  <2>3. (i - 1) * m + m = i * m /\ (i - 1) * m \in Nat /\ i * m \in Nat
    OBVIOUS
  <2>4. s[i] <= i * m
    <3> DEFINE b == (i - 1) * m
               c == i * m
    <3>1. s[i - 1] <= b /\ b + m = c /\ b \in Nat /\ c \in Nat
      BY <2>1, <2>3
    <3> HIDE DEF b, c
    <3>2. s[i] <= c
      BY <2>1, <2>2, <3>1
    <3> QED  BY <3>2 DEF c
  <2> QED  BY <2>4
<1>4. T \in SUBSET (0 .. n) /\ n \in 0 .. n
  OBVIOUS
<1> HIDE DEF T
<1>5. \A i \in 1 .. n : i - 1 \in T => i \in T
  BY <1>3
<1>6. n \in T
  BY <1>2, <1>4, <1>5, Upwards, Zenon
<1>7. s[n] \in Nat /\ s[n] <= n * m
  BY <1>1, <1>6 DEF Sums, T
<1> QED  BY <1>1, <1>7

--------------------------------------------------------------------------------
(* Elements in elements: GOOSE. *)

\* An element of one of the basic types or structures that announces n bytes.
IsElement(s, n) ==
  \E tag \in Byte, c \in Seq(Byte) : s = Complete(tag, c) /\ Len(c) = n

(* An encoder writes an element with the length that is computed for it, of *)
(* nine bytes at most.                                                      *)
LEMMA BERWritten ==
  \A t \in BasicTypes : \A v \in Octets(SV_GET_LENGTH(t)) :
    /\ IsElement(BER_ENCODE(t, v), BER_GET_LENGTH(t, v))
    /\ BER_GET_LENGTH(t, v) \in 1 .. 9
<1> TAKE t \in BasicTypes
<1> TAKE v \in Octets(SV_GET_LENGTH(t))
<1> DEFINE width == SV_GET_LENGTH(t)
           n == BER_GET_LENGTH(t, v)
<1>1. width \in 1 .. 8
  BY DEF SV_GET_LENGTH
<1>2. v \in Seq(Byte) /\ Len(v) = width /\ Len(v) > 0
  <2> HIDE DEF width
  <2>1. width \in Nat /\ width > 0
    BY <1>1
  <2> QED  BY <2>1, OctetsAreBytes DEF width
<1>3. netmemcpy(v) \in Seq(Byte) /\ Len(netmemcpy(v)) = width
  BY <1>2, NetmemcpyTwice
<1>4. \A tag \in Byte : \A c \in Seq(Byte) :
        Len(c) = n => IsElement(Element(tag, t, v, c), n)
  <2> TAKE tag \in Byte
  <2> TAKE c \in Seq(Byte)
  <2> HAVE Len(c) = n
  <2>1. Element(tag, t, v, c) = Complete(tag, c)
    BY DEF Element, Complete, Heading
  <2> HIDE DEF n
  <2> QED  BY <2>1, Zenon DEF IsElement
<1> HIDE DEF n
<1> SUFFICES IsElement(BER_ENCODE(t, v), n) /\ n \in 1 .. 9
  BY DEF n
<1>5. ASSUME NEW tag \in Byte, NEW c \in Seq(Byte), Len(c) = n,
             BER_ENCODE(t, v) = Element(tag, t, v, c)
      PROVE  IsElement(BER_ENCODE(t, v), n)
  BY <1>4, <1>5, Zenon
<1> USE DEF Signeds, Unsigneds, BasicTypes
<1>6. CASE t \in {"FLOAT32", "FLOAT64"}
  <2> DEFINE exponent == IF t = "FLOAT32" THEN 8 ELSE 11
             c == <<exponent>> \o netmemcpy(v)
  <2>1. n = width + 1
    BY <1>6 DEF BER_GET_LENGTH, n
  <2>2. BER_ENCODE(t, v) = Element(ASN1_TAG_FLOATING_POINT, t, v, c)
    BY <1>6 DEF BER_ENCODE, BER_ENCODE_FLOAT
  <2>3. <<exponent>> \in Seq(Byte) /\ Len(<<exponent>>) = 1
    BY DEF Byte
  <2>4. c \in Seq(Byte) /\ Len(c) = 1 + width
    <3> DEFINE e == <<exponent>>
    <3>1. e \in Seq(Byte) /\ Len(e) = 1
      BY <2>3
    <3> HIDE DEF e
    <3>2. e \o netmemcpy(v) \in Seq(Byte) /\ Len(e \o netmemcpy(v)) = Len(e) + Len(netmemcpy(v))
      BY <1>3, <3>1, Cat, Zenon
    <3> QED  BY <1>3, <3>1, <3>2 DEF e
  <2>5. ASN1_TAG_FLOATING_POINT \in Byte
    BY DEF ASN1_TAG_FLOATING_POINT, Byte
  <2>6. n \in 1 .. 9 /\ 1 + width = n
    BY <1>1, <2>1
  <2> HIDE DEF c
  <2>7. Len(c) = n
    BY <2>4, <2>6
  <2> QED  BY <1>5, <2>2, <2>4, <2>5, <2>6, <2>7
<1>7. CASE t = "QUALITY"
  <2> DEFINE q == netmemcpy(SubSeq(v, 1, 2))
             c == <<QUALITY_UNUSED_BITS>> \o q
  <2>1. n = 3
    BY <1>7 DEF BER_GET_LENGTH, n
  <2>2. BER_ENCODE(t, v) = Element(ASN1_TAG_BIT_STRING, t, v, c)
    BY <1>7 DEF BER_ENCODE, BER_ENCODE_QUALITY
  <2>3. v \in Octets(4)
    BY <1>7 DEF SV_GET_LENGTH
  <2>4. q \in Seq(Byte) /\ Len(q) = 2
    <3>1. SubSeq(v, 1, 2) \in Seq(Byte) /\ Len(SubSeq(v, 1, 2)) = 2
      BY <2>3, Halves
    <3> QED  BY <3>1, NetmemcpyTwice
  <2>5. c \in Seq(Byte) /\ Len(c) = 3
    <3> DEFINE e == <<QUALITY_UNUSED_BITS>>
    <3>1. e \in Seq(Byte) /\ Len(e) = 1
      BY DEF QUALITY_UNUSED_BITS, Byte
    <3> HIDE DEF e, q
    <3>2. e \o q \in Seq(Byte) /\ Len(e \o q) = Len(e) + Len(q)
      BY <2>4, <3>1, Cat, Zenon
    <3> QED  BY <2>4, <3>1, <3>2 DEF e
  <2>6. ASN1_TAG_BIT_STRING \in Byte
    BY DEF ASN1_TAG_BIT_STRING, Byte
  <2> HIDE DEF c
  <2>7. IsElement(BER_ENCODE(t, v), n)
    BY <1>5, <2>1, <2>2, <2>5, <2>6
  <2> QED  BY <2>1, <2>7
<1>8. CASE t = "TIMESTAMP"
  <2>1. n = width
    BY <1>8 DEF BER_GET_LENGTH, n
  <2>2. BER_ENCODE(t, v) = Element(ASN1_TAG_OCTET_STRING, t, v, v)
    BY <1>8 DEF BER_ENCODE, BER_ENCODE_TIMESTAMP
  <2>3. ASN1_TAG_OCTET_STRING \in Byte
    BY DEF ASN1_TAG_OCTET_STRING, Byte
  <2>4. n \in 1 .. 9
    BY <1>1, <2>1
  <2> QED  BY <1>2, <1>5, <2>1, <2>2, <2>3, <2>4
<1>9. CASE t \in Signeds \cup Unsigneds
  <2> DEFINE tag == IF t \in Unsigneds THEN ASN1_TAG_UNSIGNED ELSE ASN1_TAG_INTEGER
             c == ber_encode_integer(v)
  <2>1. n = ber_integer_length(v)
    BY <1>9 DEF BER_GET_LENGTH, n
  <2>2. BER_ENCODE(t, v) = Element(tag, t, v, c)
    BY <1>9 DEF BER_ENCODE, BER_ENCODE_INTEGER
  <2>3. c \in Seq(Byte) /\ Len(c) = n /\ n \in 1 .. width
    BY <1>2, <2>1, NumberInBytes
  <2>4. tag \in Byte
    BY DEF ASN1_TAG_UNSIGNED, ASN1_TAG_INTEGER, Byte
  <2>5. n \in 1 .. 9
    BY <1>1, <2>3
  <2> HIDE DEF c, tag
  <2>6. IsElement(BER_ENCODE(t, v), n)
    BY <1>5, <2>2, <2>3, <2>4
  <2> QED  BY <2>5, <2>6
<1>10. CASE t \in {"BOOLEAN", "DBPOS"}
  <2> DEFINE tag == IF t = "BOOLEAN" THEN ASN1_TAG_BOOLEAN ELSE 133
             c == netmemcpy(v)
  <2>1. n = width
    BY <1>10 DEF BER_GET_LENGTH, n
  <2>2. BER_ENCODE(t, v) = Element(tag, t, v, c)
    BY <1>10 DEF BER_ENCODE, BER_ENCODE_PLAIN
  <2>3. tag \in Byte
    BY DEF ASN1_TAG_BOOLEAN, Byte
  <2>4. n \in 1 .. 9
    BY <1>1, <2>1
  <2> HIDE DEF c, tag
  <2>5. c \in Seq(Byte) /\ Len(c) = n
    BY <1>3, <2>1 DEF c
  <2>6. IsElement(BER_ENCODE(t, v), n)
    BY <1>5, <2>2, <2>3, <2>5
  <2> QED  BY <2>4, <2>6
<1> QED  BY <1>6, <1>7, <1>8, <1>9, <1>10

(* The table of the structures. *)
Plain == {"INT32", "FLOAT32", "QUALITY", "TIMESTAMP"}
Inner == {"IEC_61850_9_2LEAV", "IEC_61850_9_2LEsVC", "IEC_61850_9_2LEINC"}

LEMMA TableOfStructures ==
  /\ Plain \subseteq BasicTypes \ {"ENUM", "DBPOS"}
  /\ Inner \subseteq Structures
  /\ \A t \in Structures \cup Datasets :
       /\ t \notin BasicTypes
       /\ Len(Components(t)) \in 1 .. 16
       /\ DOMAIN Components(t) = 1 .. Len(Components(t))
       /\ \A i \in DOMAIN Components(t) : Components(t)[i] \in Plain \cup Inner
  /\ \A t \in Inner : \A i \in DOMAIN Components(t) : Components(t)[i] \in Plain
<1> USE DEF Plain, Inner, Structures, Datasets, BasicTypes, Signeds, Unsigneds
<1>1. /\ Plain \subseteq BasicTypes \ {"ENUM", "DBPOS"}
      /\ Inner \subseteq Structures
      /\ \A t \in Structures \cup Datasets : t \notin BasicTypes
  OBVIOUS
<1> DEFINE Fine(t, n, parts) ==
             /\ Len(Components(t)) = n
             /\ DOMAIN Components(t) = 1 .. n
             /\ \A i \in DOMAIN Components(t) : Components(t)[i] \in parts
<1>2. Fine("IEC_61850_9_2LEAV", 1, Plain)
  BY DEF Components
<1>3. Fine("IEC_61850_9_2LEsVC", 2, Plain)
  BY DEF Components
<1>4. Fine("IEC_61850_9_2LESAV", 3, Plain \cup Inner)
  BY DEF Components
<1>5. Fine("IEC_61850_9_2LEINC", 4, Plain)
  BY DEF Components
<1>6. Fine("LE_IED_MUnn_PhsMeas", 16, Plain \cup Inner)
  BY DEF Components
<1> QED  BY <1>1, <1>2, <1>3, <1>4, <1>5, <1>6

\* What an element with so many bytes of contents needs.
LEMMA ElementSize ==
  \A s : \A n \in Nat : IsElement(s, n) /\ n < 256 * 256 =>
    s \in Seq(Byte) /\ Len(s) = n + getLengthBytes(n) + 1
<1> TAKE s
<1> TAKE n \in Nat
<1> HAVE IsElement(s, n) /\ n < 256 * 256
<1>1. PICK tag \in Byte, c \in Seq(Byte) : s = Complete(tag, c) /\ Len(c) = n
  BY Zenon DEF IsElement
<1>2. s \in Seq(Byte) /\ Len(s) = Whole(n)
  BY <1>1, CompleteInBytes
<1> QED  BY <1>2 DEF Whole

\* Each part is an element that announces so many bytes, and they are few.
WriteEach(n, m, parts, lens) ==
  /\ parts = [i \in 1 .. n |-> parts[i]]
  /\ \A i \in 1 .. n : IsElement(parts[i], lens[i]) /\ lens[i] \in 0 .. m

\* What they need.
Sizes(n, lens) == [i \in 1 .. n |-> LET len == lens[i] IN len + getLengthBytes(len) + 1]

(* The contents of a structure are as long as the sum of the lengths, and   *)
(* a structure of structures is still small.                                *)
LEMMA StructureWritten ==
  \A n \in 1 .. 16, m \in {9, 208} : \A parts, lens :
    WriteEach(n, m, parts, lens) =>
      /\ parts \in [1 .. n -> Seq(Byte)]
      /\ FlattenSeq(parts) \in Seq(Byte)
      /\ Len(FlattenSeq(parts)) = Total(Sizes(n, lens))
      /\ Total(Sizes(n, lens)) \in 0 .. 16 * (m + 4)
<1> TAKE n \in 1 .. 16, m \in {9, 208}
<1> TAKE parts, lens
<1> HAVE WriteEach(n, m, parts, lens)
<1> DEFINE sizes == [i \in 1 .. n |-> Len(parts[i])]
<1>10. \A i \in 1 .. n : IsElement(parts[i], lens[i]) /\ lens[i] \in 0 .. m
  BY DEF WriteEach
<1>1. ASSUME NEW i \in 1 .. n
      PROVE  /\ parts[i] \in Seq(Byte)
             /\ Len(parts[i]) = lens[i] + getLengthBytes(lens[i]) + 1
             /\ Len(parts[i]) \in Nat /\ Len(parts[i]) <= m + 4
  <2> DEFINE p == parts[i]
             l == lens[i]
  <2>1. IsElement(p, l) /\ l \in 0 .. m
    BY <1>10
  <2> HIDE DEF p, l
  <2>2. l \in Nat /\ l <= m /\ l < 256 * 256
    BY <2>1
  <2>3. p \in Seq(Byte) /\ Len(p) = l + getLengthBytes(l) + 1
    BY <2>1, <2>2, ElementSize
  <2>4. getLengthBytes(l) \in 1 .. 3
    BY DEF getLengthBytes
  <2>5. Len(p) \in Nat /\ Len(p) <= m + 4
    BY <2>2, <2>3, <2>4
  <2> QED  BY <2>3, <2>5 DEF p, l
<1>2. parts \in [1 .. n -> Seq(Byte)]
  <2> DEFINE again == [i \in 1 .. n |-> parts[i]]
  <2>1. \A i \in 1 .. n : parts[i] \in Seq(Byte)
    BY <1>1
  <2>2. again \in [1 .. n -> Seq(Byte)]
    BY <2>1
  <2>3. parts = again
    BY Zenon DEF WriteEach
  <2> HIDE DEF again
  <2> QED  BY <2>2, <2>3
<1>3. sizes = Sizes(n, lens)
  <2>1. \A i \in 1 .. n : Len(parts[i]) = lens[i] + getLengthBytes(lens[i]) + 1
    BY <1>1
  <2> QED  BY <2>1 DEF Sizes
<1>4. n \in Nat
  OBVIOUS
<1>5. FlattenSeq(parts) \in Seq(Byte) /\ Len(FlattenSeq(parts)) = Total(sizes)
  BY <1>2, <1>4, JoinedLength
<1>6. sizes \in [1 .. n -> Nat] /\ \A i \in 1 .. n : sizes[i] <= m + 4
  BY <1>1
<1> HIDE DEF sizes
<1>7. Total(sizes) \in Nat /\ Total(sizes) <= n * (m + 4)
  <2>1. m + 4 \in Nat
    OBVIOUS
  <2> QED  BY <1>4, <1>6, <2>1, TotalSmall, Zenon
<1>8. n * (m + 4) <= 16 * (m + 4)
  <2>1. CASE m = 9
    BY <2>1
  <2>2. CASE m = 208
    BY <2>2
  <2> QED  BY <2>1, <2>2
<1>9. Total(sizes) \in 0 .. 16 * (m + 4)
  <2> DEFINE a == n * (m + 4)
             b == 16 * (m + 4)
  <2>1. Total(sizes) \in Nat /\ Total(sizes) <= a /\ a <= b /\ a \in Int /\ b \in Int
    BY <1>7, <1>8
  <2> HIDE DEF a, b
  <2>2. Total(sizes) \in 0 .. b
    BY <2>1
  <2> QED  BY <2>2 DEF b
<1> QED  BY <1>2, <1>3, <1>5, <1>9

\* What a decoder of a structure does that finds the tag.
Entered(readers, buf) ==
  LET first == 1 + getLengthFieldSize(buf[2])
      inside == InTurn(readers, Rest(buf, first))
  IN  Decoded(first + inside.used, inside.value)

\* The decoder of a structure finds its tag and reads all of it.
LEMMA StructureRead ==
  \A n \in Nat : \A parts \in [1 .. n -> Seq(Byte)], tail \in Seq(Byte) :
    \A readers, arrived :
      ReadEach(n, readers, parts, arrived) /\ Len(FlattenSeq(parts)) < 256 * 256 =>
        LET whole == Complete(STRUCTURE, FlattenSeq(parts)) IN
          /\ (whole \o tail)[1] = STRUCTURE
          /\ Entered(readers, whole \o tail) = Decoded(Len(whole), Gathered(n, arrived))
<1> TAKE n \in Nat
<1> TAKE parts \in [1 .. n -> Seq(Byte)], tail \in Seq(Byte)
<1> TAKE readers, arrived
<1> HAVE ReadEach(n, readers, parts, arrived) /\ Len(FlattenSeq(parts)) < 256 * 256
<1> DEFINE c == FlattenSeq(parts)
           whole == Complete(STRUCTURE, c)
           buf == whole \o tail
           first == 1 + getLengthFieldSize(buf[2])
           inside == InTurn(readers, Rest(buf, first))
<1>1. c \in Seq(Byte) /\ Len(c) < 256 * 256
  BY JoinedLength
<1>2. STRUCTURE \in Byte
  BY DEF STRUCTURE, Byte
<1>3. ReadsAs(buf, STRUCTURE, c, tail)
  <2> HIDE DEF c
  <2> QED  BY <1>1, <1>2, ElementInBuffer, Zenon
<1>4. buf[1] = STRUCTURE /\ Rest(buf, first) = c \o tail /\ first + Len(c) = Len(whole)
  <2> HIDE DEF buf, whole
  <2> QED  BY <1>3 DEF ReadsAs, whole
<1>5. InTurn(readers, c \o tail) = Decoded(Len(c), Gathered(n, arrived))
  BY InTurnReads, Zenon
<1> HIDE DEF c, buf, whole
<1>6. inside = Decoded(Len(c), Gathered(n, arrived))
  BY <1>4, <1>5
<1> HIDE DEF inside, first
<1>7. inside.used = Len(c) /\ inside.value = Gathered(n, arrived)
  BY <1>6 DEF Decoded
<1>8. Entered(readers, buf) = Decoded(first + inside.used, inside.value)
  BY DEF Entered, inside, first
<1>9. Entered(readers, buf) = Decoded(Len(whole), Gathered(n, arrived))
  BY <1>4, <1>7, <1>8 DEF first
<1> QED  BY <1>4, <1>9, Zenon DEF c, buf, whole

\* How the components of a structure are written, if they are of basic types.
BasicParts(t, v) == [i \in DOMAIN Components(t) |-> BER_ENCODE(Components(t)[i], v[i])]
BasicLengths(t, v) ==
  [i \in DOMAIN Components(t) |-> BER_GET_LENGTH(Components(t)[i], v[i])]

\* The components of a value of such a structure are of their types.
LEMMA InnerValues ==
  \A t \in Inner : \A v : IsPart(t, v) =>
    \A i \in DOMAIN Components(t) : v[i] \in Octets(SV_GET_LENGTH(Components(t)[i]))
<1> TAKE t \in Inner
<1> TAKE v
<1> HAVE IsPart(t, v)
<1>1. t \notin BasicTypes
  BY TableOfStructures
<1> QED  BY <1>1 DEF IsPart, HasParts, IsBasic

(* A structure of basic types is an element of its parts, as long as        *)
(* computed.                                                                *)
LEMMA InnerWritten ==
  \A t \in Inner : \A v : IsPart(t, v) =>
    LET n == Len(Components(t))
        c == FlattenSeq(BasicParts(t, v))
    IN  /\ n \in 1 .. 16
        /\ BasicParts(t, v) \in [1 .. n -> Seq(Byte)]
        /\ \A i \in 1 .. n : IsElement(BasicParts(t, v)[i], BasicLengths(t, v)[i])
                               /\ BasicLengths(t, v)[i] \in 0 .. 9
        /\ c \in Seq(Byte) /\ Len(c) = ber_get_length_part(t, v) /\ Len(c) \in 0 .. 208
        /\ ber_encode_part(t, v) = Complete(STRUCTURE, c)
<1> TAKE t \in Inner
<1> TAKE v
<1> HAVE IsPart(t, v)
<1> DEFINE n == Len(Components(t))
           parts == BasicParts(t, v)
           lens == BasicLengths(t, v)
           c == FlattenSeq(parts)
<1>1. /\ t \notin BasicTypes /\ t \notin Datasets
      /\ n \in 1 .. 16 /\ DOMAIN Components(t) = 1 .. n
      /\ \A i \in 1 .. n : Components(t)[i] \in Plain /\ Components(t)[i] \in BasicTypes
  BY TableOfStructures DEF Structures, Datasets
<1>2. \A i \in 1 .. n : v[i] \in Octets(SV_GET_LENGTH(Components(t)[i]))
  BY <1>1, InnerValues
<1>3. \A i \in 1 .. n : /\ parts[i] = BER_ENCODE(Components(t)[i], v[i])
                        /\ lens[i] = BER_GET_LENGTH(Components(t)[i], v[i])
  BY <1>1 DEF BasicParts, BasicLengths
<1>4. \A i \in 1 .. n : IsElement(parts[i], lens[i]) /\ lens[i] \in 0 .. 9
  <2> TAKE i \in 1 .. n
  <2> DEFINE s == Components(t)[i]
             u == v[i]
  <2>1. s \in BasicTypes /\ u \in Octets(SV_GET_LENGTH(s))
    BY <1>1, <1>2
  <2>2. parts[i] = BER_ENCODE(s, u) /\ lens[i] = BER_GET_LENGTH(s, u)
    BY <1>3
  <2> HIDE DEF s, u, parts, lens
  <2>3. IsElement(BER_ENCODE(s, u), BER_GET_LENGTH(s, u)) /\ BER_GET_LENGTH(s, u) \in 1 .. 9
    BY <2>1, BERWritten
  <2> QED  BY <2>2, <2>3
<1>5. parts = [i \in 1 .. n |-> parts[i]]
  BY <1>1 DEF BasicParts
<1> HIDE DEF parts, lens, n
<1>6. WriteEach(n, 9, parts, lens)
  BY <1>4, <1>5 DEF WriteEach
<1>7. /\ parts \in [1 .. n -> Seq(Byte)]
      /\ c \in Seq(Byte) /\ Len(c) = Total(Sizes(n, lens)) /\ Len(c) \in 0 .. 208
  <2>1. 9 \in {9, 208} /\ n \in 1 .. 16
    BY <1>1
  <2>2. /\ parts \in [1 .. n -> Seq(Byte)]
        /\ c \in Seq(Byte) /\ Len(c) = Total(Sizes(n, lens))
        /\ Total(Sizes(n, lens)) \in 0 .. 16 * (9 + 4)
    BY <1>6, <2>1, StructureWritten, Zenon
  <2> QED  BY <2>2
<1>8. ber_get_length_part(t, v) = Total(Sizes(n, lens))
  <2>1. ber_get_length_part(t, v) = LengthOf(BER_GET_LENGTH, t, v)
    BY <1>1 DEF ber_get_length_part
  <2> DEFINE sizes == [i \in DOMAIN Components(t) |->
                LET len == BER_GET_LENGTH(Components(t)[i], v[i])
                IN  len + getLengthBytes(len) + 1]
  <2>2. sizes = Sizes(n, lens)
    BY <1>1, <1>3 DEF Sizes
  <2>3. LengthOf(BER_GET_LENGTH, t, v) = Total(sizes)
    BY DEF LengthOf
  <2> QED  BY <2>1, <2>2, <2>3
<1>9. ber_get_length(t, v) = Total(Sizes(n, lens))
  <2>1. ber_get_length(t, v) = LengthOf(ber_get_length_part, t, v)
    BY <1>1 DEF ber_get_length
  <2> DEFINE sizes == [i \in DOMAIN Components(t) |->
                LET len == ber_get_length_part(Components(t)[i], v[i])
                IN  len + getLengthBytes(len) + 1]
  <2>2. \A i \in 1 .. n : ber_get_length_part(Components(t)[i], v[i]) = lens[i]
    BY <1>1, <1>3 DEF ber_get_length_part
  <2>3. sizes = Sizes(n, lens)
    BY <1>1, <2>2 DEF Sizes
  <2>4. LengthOf(ber_get_length_part, t, v) = Total(sizes)
    BY DEF LengthOf
  <2> QED  BY <2>1, <2>3, <2>4
<1>10. ber_encode_part(t, v) = Complete(STRUCTURE, c)
  <2>1. ber_encode_part(t, v) = Encoded(BER_ENCODE, t, v)
    BY <1>1 DEF ber_encode_part
  <2>2. Encoded(BER_ENCODE, t, v) = (<<STRUCTURE>> \o encodeLength(ber_get_length(t, v))) \o c
    BY <1>1, Zenon DEF Encoded, BasicParts, parts
  <2>3. ber_get_length(t, v) = Len(c)
    BY <1>7, <1>9
  <2> HIDE DEF c
  <2> QED  BY <2>1, <2>2, <2>3, Zenon DEF Complete, Heading
<1>11. Len(c) = ber_get_length_part(t, v)
  BY <1>7, <1>8
<1> QED  BY <1>1, <1>4, <1>7, <1>10, <1>11 DEF n, parts, lens, c

(* Components are written as elements that announce their length.           *)
LEMMA PartWritten ==
  \A t \in Plain \cup Inner : \A v : IsPart(t, v) =>
    /\ IsElement(ber_encode_part(t, v), ber_get_length_part(t, v))
    /\ ber_get_length_part(t, v) \in 0 .. 208
<1> TAKE t \in Plain \cup Inner
<1> TAKE v
<1> HAVE IsPart(t, v)
<1>1. CASE t \in Plain
  <2>1. t \in BasicTypes
    BY <1>1, TableOfStructures
  <2>2. v \in Octets(SV_GET_LENGTH(t))
    BY <2>1 DEF IsPart, IsBasic
  <2>3. IsElement(BER_ENCODE(t, v), BER_GET_LENGTH(t, v)) /\ BER_GET_LENGTH(t, v) \in 1 .. 9
    BY <2>1, <2>2, BERWritten
  <2> QED  BY <2>1, <2>3 DEF ber_encode_part, ber_get_length_part
<1>2. CASE t \in Inner
  <2> DEFINE c == FlattenSeq(BasicParts(t, v))
  <2>1. /\ c \in Seq(Byte) /\ Len(c) = ber_get_length_part(t, v) /\ Len(c) \in 0 .. 208
        /\ ber_encode_part(t, v) = Complete(STRUCTURE, c)
    BY <1>2, InnerWritten, Zenon
  <2>2. STRUCTURE \in Byte
    BY DEF STRUCTURE, Byte
  <2> HIDE DEF c
  <2>3. IsElement(ber_encode_part(t, v), ber_get_length_part(t, v))
    BY <2>1, <2>2, Zenon DEF IsElement
  <2> QED  BY <2>1, <2>3
<1> QED  BY <1>1, <1>2

\* What arrives of them, and who reads it.
BasicArrived(t, v, before) ==
  [i \in DOMAIN Components(t) |-> Arrived(Components(t)[i], v[i], before[i])]

\* Each one is read by the decoder for its type.
LEMMA BasicReadEach ==
  coding = "GSE" =>
    \A t \in Inner : \A v, before : IsPart(t, v) /\ IsPart(t, before) =>
      ReadEach(Len(Components(t)), Readers(BER_DECODE, t, before), BasicParts(t, v),
               BasicArrived(t, v, before))
<1> HAVE coding = "GSE"
<1> TAKE t \in Inner
<1> TAKE v, before
<1> HAVE IsPart(t, v) /\ IsPart(t, before)
<1> DEFINE n == Len(Components(t))
           readers == Readers(BER_DECODE, t, before)
           parts == BasicParts(t, v)
           arrived == BasicArrived(t, v, before)
<1>1. /\ n \in 1 .. 16 /\ DOMAIN Components(t) = 1 .. n
      /\ \A i \in 1 .. n : Components(t)[i] \in Plain
  BY TableOfStructures
<1>2. \A i \in 1 .. n : /\ v[i] \in Octets(SV_GET_LENGTH(Components(t)[i]))
                        /\ before[i] \in Octets(SV_GET_LENGTH(Components(t)[i]))
  BY <1>1, InnerValues
<1>3. parts \in [1 .. n -> Seq(Byte)]
  BY InnerWritten
<1>4. DOMAIN readers = 1 .. n /\ Len(readers) = n
  BY <1>1 DEF Readers
<1>5. ASSUME NEW i \in 1 .. n, NEW tail \in Seq(Byte)
      PROVE  readers[i][parts[i] \o tail] = Decoded(Len(parts[i]), arrived[i])
  <2> DEFINE s == Components(t)[i]
             u == v[i]
             w == before[i]
             p == parts[i]
  <2>1. /\ s \in Plain /\ u \in Octets(SV_GET_LENGTH(s)) /\ w \in Octets(SV_GET_LENGTH(s))
        /\ p \in Seq(Byte)
    BY <1>1, <1>2, <1>3
  <2>2. s \in BasicTypes \ {"ENUM", "DBPOS"}
    BY <2>1, TableOfStructures
  <2>3. p = BER_ENCODE(s, u)
    BY <1>1 DEF BasicParts
  <2>4. arrived[i] = ArrivedByBER(s, u, w)
    BY <1>1 DEF BasicArrived, Arrived
  <2>5. readers[i] = [buf \in Seq(Byte) |-> BER_DECODE(s, buf, w)]
    BY <1>1 DEF Readers
  <2> HIDE DEF s, u, w, p, readers, arrived, parts
  <2>6. p \o tail \in Seq(Byte)
    BY <2>1, Cat
  <2>7. readers[i][p \o tail] = BER_DECODE(s, p \o tail, w)
    BY <2>5, <2>6
  <2>8. BER_DECODE(s, BER_ENCODE(s, u) \o tail, w)
          = Decoded(Len(BER_ENCODE(s, u)), ArrivedByBER(s, u, w))
    BY <2>1, <2>2, BERRead, Zenon
  <2>9. readers[i][p \o tail] = Decoded(Len(p), arrived[i])
    BY <2>3, <2>4, <2>7, <2>8, Zenon
  <2> QED  BY <2>9 DEF p
<1> HIDE DEF readers, parts, arrived, n
<1>6. ReadEach(n, readers, parts, arrived)
  BY <1>4, <1>5 DEF ReadEach
<1> QED  BY <1>6 DEF readers, parts, arrived, n

(* Components are read as they were written, whatever is behind them.       *)
LEMMA PartRead ==
  coding = "GSE" =>
    \A t \in Plain \cup Inner : \A v, before : IsPart(t, v) /\ IsPart(t, before) =>
      \A tail \in Seq(Byte) :
        ber_decode_part(t, ber_encode_part(t, v) \o tail, before)
          = Decoded(Len(ber_encode_part(t, v)), PartArrived(t, v, before))
<1> HAVE coding = "GSE"
<1> TAKE t \in Plain \cup Inner
<1> TAKE v, before
<1> HAVE IsPart(t, v) /\ IsPart(t, before)
<1> TAKE tail \in Seq(Byte)
<1>1. CASE t \in Plain
  <2>1. t \in BasicTypes \ {"ENUM", "DBPOS"} /\ t \in BasicTypes
    BY <1>1, TableOfStructures
  <2>2. v \in Octets(SV_GET_LENGTH(t)) /\ before \in Octets(SV_GET_LENGTH(t))
    BY <2>1 DEF IsPart, IsBasic
  <2>3. BER_DECODE(t, BER_ENCODE(t, v) \o tail, before)
          = Decoded(Len(BER_ENCODE(t, v)), ArrivedByBER(t, v, before))
    BY <2>1, <2>2, BERRead, Zenon
  <2>4. /\ ber_encode_part(t, v) = BER_ENCODE(t, v)
        /\ PartArrived(t, v, before) = ArrivedByBER(t, v, before)
    BY <2>1 DEF ber_encode_part, PartArrived, Arrived
  <2>5. \A buf : ber_decode_part(t, buf, before) = BER_DECODE(t, buf, before)
    BY <2>1 DEF ber_decode_part
  <2> QED  BY <2>3, <2>4, <2>5
<1>2. CASE t \in Inner
  <2> DEFINE n == Len(Components(t))
             parts == BasicParts(t, v)
             arrived == BasicArrived(t, v, before)
             readers == Readers(BER_DECODE, t, before)
             whole == Complete(STRUCTURE, FlattenSeq(parts))
             buf == whole \o tail
  <2>1. t \notin BasicTypes /\ t \notin Datasets /\ n \in Nat /\ DOMAIN Components(t) = 1 .. n
    BY <1>2, TableOfStructures DEF Structures, Datasets, Inner
  <2>2. /\ parts \in [1 .. n -> Seq(Byte)] /\ Len(FlattenSeq(parts)) \in 0 .. 208
        /\ ber_encode_part(t, v) = whole
    BY <1>2, InnerWritten, Zenon
  <2>3. ReadEach(n, readers, parts, arrived)
    BY <1>2, BasicReadEach, Zenon
  <2>4. Len(FlattenSeq(parts)) < 256 * 256
    <3> DEFINE width == Len(FlattenSeq(parts))
    <3>1. width \in 0 .. 208
      BY <2>2, Zenon
    <3> HIDE DEF width
    <3>2. width < 256 * 256
      BY <3>1
    <3> QED  BY <3>2 DEF width
  <2>5. buf[1] = STRUCTURE /\ Entered(readers, buf) = Decoded(Len(whole), Gathered(n, arrived))
    <3> HIDE DEF n, parts, arrived, readers
    <3> QED  BY <2>1, <2>2, <2>3, <2>4, StructureRead, Zenon
  <2>6. PartArrived(t, v, before) = Gathered(n, arrived)
    BY <2>1 DEF PartArrived, AllArrived, BasicArrived, Gathered
  <2>7. ber_decode_part(t, buf, before) = Entered(readers, buf)
    <3> HIDE DEF whole
    <3>1. ber_decode_part(t, buf, before) = DecodedBy(BER_DECODE, t, buf, before)
      BY <2>1 DEF ber_decode_part
    <3> QED  BY <2>1, <2>5, <3>1, Zenon DEF DecodedBy, Entered
  <2> HIDE DEF whole, n, arrived
  <2> QED  BY <2>2, <2>5, <2>6, <2>7
<1> QED  BY <1>1, <1>2

\* The same for the components of any structure, and of a dataset.
ValueParts(t, v) == [i \in DOMAIN Components(t) |-> ber_encode_part(Components(t)[i], v[i])]
ValueLengths(t, v) ==
  [i \in DOMAIN Components(t) |-> ber_get_length_part(Components(t)[i], v[i])]

\* The components of a value of any structure are of their types.
LEMMA ComponentValues ==
  \A t \in Structures \cup Datasets : \A v : IsValue(t, v) =>
    \A i \in DOMAIN Components(t) : IsPart(Components(t)[i], v[i])
<1> TAKE t \in Structures \cup Datasets
<1> TAKE v
<1> HAVE IsValue(t, v)
<1>1. t \notin BasicTypes
  BY TableOfStructures
<1> QED  BY <1>1 DEF IsValue, HasParts

(* A structure is an element of its components, a dataset is its components. *)
LEMMA ValueWritten ==
  \A t \in Structures \cup Datasets : \A v : IsValue(t, v) =>
    LET n == Len(Components(t))
        c == FlattenSeq(ValueParts(t, v))
    IN  /\ n \in 1 .. 16
        /\ ValueParts(t, v) \in [1 .. n -> Seq(Byte)]
        /\ \A i \in 1 .. n : IsElement(ValueParts(t, v)[i], ValueLengths(t, v)[i])
                               /\ ValueLengths(t, v)[i] \in 0 .. 208
        /\ c \in Seq(Byte) /\ Len(c) < 256 * 256
        /\ ber_encode(t, v) = IF t \in Datasets THEN c ELSE Complete(STRUCTURE, c)
<1> TAKE t \in Structures \cup Datasets
<1> TAKE v
<1> HAVE IsValue(t, v)
<1> DEFINE n == Len(Components(t))
           parts == ValueParts(t, v)
           lens == ValueLengths(t, v)
           c == FlattenSeq(parts)
<1>1. /\ t \notin BasicTypes
      /\ n \in 1 .. 16 /\ DOMAIN Components(t) = 1 .. n
      /\ \A i \in 1 .. n : Components(t)[i] \in Plain \cup Inner
  BY TableOfStructures
<1>2. \A i \in 1 .. n : IsPart(Components(t)[i], v[i])
  BY <1>1, ComponentValues
<1>3. \A i \in 1 .. n : /\ parts[i] = ber_encode_part(Components(t)[i], v[i])
                        /\ lens[i] = ber_get_length_part(Components(t)[i], v[i])
  BY <1>1 DEF ValueParts, ValueLengths
<1>4. \A i \in 1 .. n : IsElement(parts[i], lens[i]) /\ lens[i] \in 0 .. 208
  <2> TAKE i \in 1 .. n
  <2> DEFINE s == Components(t)[i]
             u == v[i]
  <2>1. s \in Plain \cup Inner /\ IsPart(s, u)
    BY <1>1, <1>2
  <2>2. parts[i] = ber_encode_part(s, u) /\ lens[i] = ber_get_length_part(s, u)
    BY <1>3
  <2> HIDE DEF s, u, parts, lens
  <2>3. /\ IsElement(ber_encode_part(s, u), ber_get_length_part(s, u))
        /\ ber_get_length_part(s, u) \in 0 .. 208
    BY <2>1, PartWritten, Zenon
  <2> QED  BY <2>2, <2>3
<1>5. parts = [i \in 1 .. n |-> parts[i]]
  BY <1>1 DEF ValueParts
<1> HIDE DEF parts, lens, n
<1>6. WriteEach(n, 208, parts, lens)
  BY <1>4, <1>5 DEF WriteEach
<1>7. /\ parts \in [1 .. n -> Seq(Byte)]
      /\ c \in Seq(Byte) /\ Len(c) = Total(Sizes(n, lens)) /\ Len(c) < 256 * 256
  <2>1. 208 \in {9, 208} /\ n \in 1 .. 16
    BY <1>1
  <2>2. /\ parts \in [1 .. n -> Seq(Byte)]
        /\ c \in Seq(Byte) /\ Len(c) = Total(Sizes(n, lens))
        /\ Total(Sizes(n, lens)) \in 0 .. 16 * (208 + 4)
    BY <1>6, <2>1, StructureWritten, Zenon
  <2> DEFINE width == Total(Sizes(n, lens))
  <2>3. width < 256 * 256
    <3>1. width \in 0 .. 16 * (208 + 4)
      BY <2>2, Zenon
    <3> HIDE DEF width
    <3> QED  BY <3>1
  <2>4. Len(c) = width
    BY <2>2, Zenon
  <2>5. Len(c) < 256 * 256
    <3> HIDE DEF width, c
    <3> QED  BY <2>3, <2>4
  <2> QED  BY <2>2, <2>5, Zenon
<1>8. ber_get_length(t, v) = Total(Sizes(n, lens))
  <2>1. ber_get_length(t, v) = LengthOf(ber_get_length_part, t, v)
    BY <1>1 DEF ber_get_length
  <2> DEFINE sizes == [i \in DOMAIN Components(t) |->
                LET len == ber_get_length_part(Components(t)[i], v[i])
                IN  len + getLengthBytes(len) + 1]
  <2>2. sizes = Sizes(n, lens)
    BY <1>1, <1>3 DEF Sizes
  <2>3. LengthOf(ber_get_length_part, t, v) = Total(sizes)
    BY DEF LengthOf
  <2> QED  BY <2>1, <2>2, <2>3
<1>9. ber_encode(t, v) = IF t \in Datasets THEN c ELSE Complete(STRUCTURE, c)
  <2>1. ber_encode(t, v) = Encoded(ber_encode_part, t, v)
    BY <1>1 DEF ber_encode
  <2>2. Encoded(ber_encode_part, t, v)
          = IF t \in Datasets THEN c
            ELSE (<<STRUCTURE>> \o encodeLength(ber_get_length(t, v))) \o c
    BY Zenon DEF Encoded, ValueParts, parts
  <2>3. ber_get_length(t, v) = Len(c)
    BY <1>7, <1>8
  <2> HIDE DEF c
  <2> QED  BY <2>1, <2>2, <2>3, Zenon DEF Complete, Heading
<1> QED  BY <1>1, <1>4, <1>7, <1>9 DEF n, parts, lens, c

\* What arrives of them, and who reads it.
PartsArrived(t, v, before) ==
  [i \in DOMAIN Components(t) |-> PartArrived(Components(t)[i], v[i], before[i])]

\* Each one is read by the decoder for its type.
LEMMA ValueReadEach ==
  coding = "GSE" =>
    \A t \in Structures \cup Datasets : \A v, before : IsValue(t, v) /\ IsValue(t, before) =>
      ReadEach(Len(Components(t)), Readers(ber_decode_part, t, before), ValueParts(t, v),
               PartsArrived(t, v, before))
<1> HAVE coding = "GSE"
<1> TAKE t \in Structures \cup Datasets
<1> TAKE v, before
<1> HAVE IsValue(t, v) /\ IsValue(t, before)
<1> DEFINE n == Len(Components(t))
           readers == Readers(ber_decode_part, t, before)
           parts == ValueParts(t, v)
           arrived == PartsArrived(t, v, before)
<1>1. /\ n \in 1 .. 16 /\ DOMAIN Components(t) = 1 .. n
      /\ \A i \in 1 .. n : Components(t)[i] \in Plain \cup Inner
  BY TableOfStructures
<1>2. \A i \in 1 .. n : /\ IsPart(Components(t)[i], v[i])
                        /\ IsPart(Components(t)[i], before[i])
  BY <1>1, ComponentValues
<1>3. parts \in [1 .. n -> Seq(Byte)]
  BY ValueWritten
<1>4. DOMAIN readers = 1 .. n /\ Len(readers) = n
  BY <1>1 DEF Readers
<1>5. ASSUME NEW i \in 1 .. n, NEW tail \in Seq(Byte)
      PROVE  readers[i][parts[i] \o tail] = Decoded(Len(parts[i]), arrived[i])
  <2> DEFINE s == Components(t)[i]
             u == v[i]
             w == before[i]
             p == parts[i]
  <2>1. /\ s \in Plain \cup Inner /\ IsPart(s, u) /\ IsPart(s, w)
        /\ p \in Seq(Byte)
    BY <1>1, <1>2, <1>3
  <2>3. p = ber_encode_part(s, u)
    BY <1>1 DEF ValueParts
  <2>4. arrived[i] = PartArrived(s, u, w)
    BY <1>1 DEF PartsArrived
  <2>5. readers[i] = [buf \in Seq(Byte) |-> ber_decode_part(s, buf, w)]
    BY <1>1 DEF Readers
  <2> HIDE DEF s, u, w, p, readers, arrived, parts
  <2>6. p \o tail \in Seq(Byte)
    BY <2>1, Cat
  <2>7. readers[i][p \o tail] = ber_decode_part(s, p \o tail, w)
    BY <2>5, <2>6
  <2>8. ber_decode_part(s, ber_encode_part(s, u) \o tail, w)
          = Decoded(Len(ber_encode_part(s, u)), PartArrived(s, u, w))
    BY <2>1, PartRead, Zenon
  <2>9. readers[i][p \o tail] = Decoded(Len(p), arrived[i])
    BY <2>3, <2>4, <2>7, <2>8, Zenon
  <2> QED  BY <2>9 DEF p
<1> HIDE DEF readers, parts, arrived, n
<1>6. ReadEach(n, readers, parts, arrived)
  BY <1>4, <1>5 DEF ReadEach
<1> QED  BY <1>6 DEF readers, parts, arrived, n

(* A value is read as it was written, whatever is behind it.                *)
LEMMA ValueRead ==
  coding = "GSE" =>
    \A t \in Types \ {"ENUM", "DBPOS"} : \A v, before : IsValue(t, v) /\ IsValue(t, before) =>
      \A tail \in Seq(Byte) :
        ber_decode(t, ber_encode(t, v) \o tail, before)
          = Decoded(Len(ber_encode(t, v)), ValueArrived(t, v, before))
<1> HAVE coding = "GSE"
<1> TAKE t \in Types \ {"ENUM", "DBPOS"}
<1> TAKE v, before
<1> HAVE IsValue(t, v) /\ IsValue(t, before)
<1> TAKE tail \in Seq(Byte)
<1>1. CASE t \in BasicTypes
  <2>1. t \in BasicTypes \ {"ENUM", "DBPOS"}
    BY <1>1
  <2>2. v \in Octets(SV_GET_LENGTH(t)) /\ before \in Octets(SV_GET_LENGTH(t))
    BY <1>1 DEF IsValue, IsBasic
  <2>3. BER_DECODE(t, BER_ENCODE(t, v) \o tail, before)
          = Decoded(Len(BER_ENCODE(t, v)), ArrivedByBER(t, v, before))
    BY <2>1, <2>2, BERRead, Zenon
  <2>4. /\ ber_encode(t, v) = BER_ENCODE(t, v)
        /\ ValueArrived(t, v, before) = ArrivedByBER(t, v, before)
    BY <1>1 DEF ber_encode, ValueArrived, Arrived
  <2>5. \A buf : ber_decode(t, buf, before) = BER_DECODE(t, buf, before)
    BY <1>1 DEF ber_decode
  <2> QED  BY <2>3, <2>4, <2>5
<1>2. CASE t \in Structures \cup Datasets
  <2> DEFINE n == Len(Components(t))
             parts == ValueParts(t, v)
             arrived == PartsArrived(t, v, before)
             readers == Readers(ber_decode_part, t, before)
             c == FlattenSeq(parts)
             whole == Complete(STRUCTURE, c)
  <2>1. t \notin BasicTypes /\ n \in Nat /\ DOMAIN Components(t) = 1 .. n
    BY <1>2, TableOfStructures
  <2>2. /\ parts \in [1 .. n -> Seq(Byte)] /\ Len(c) < 256 * 256
        /\ ber_encode(t, v) = IF t \in Datasets THEN c ELSE whole
    BY <1>2, ValueWritten, Zenon
  <2>3. ReadEach(n, readers, parts, arrived)
    BY <1>2, ValueReadEach, Zenon
  <2>4. ValueArrived(t, v, before) = Gathered(n, arrived)
    BY <2>1 DEF ValueArrived, AllArrived, PartsArrived, Gathered
  <2>5. \A buf : ber_decode(t, buf, before) = DecodedBy(ber_decode_part, t, buf, before)
    BY <2>1 DEF ber_decode
  <2>6. CASE t \in Datasets
    <3> HIDE DEF n, parts, arrived, readers
    <3>1. InTurn(readers, c \o tail) = Decoded(Len(c), Gathered(n, arrived))
      BY <2>1, <2>2, <2>3, InTurnReads, Zenon
    <3>2. DecodedBy(ber_decode_part, t, c \o tail, before) = InTurn(readers, c \o tail)
      BY <2>6, Zenon DEF DecodedBy, readers
    <3>3. ber_encode(t, v) = c
      BY <2>2, <2>6, Zenon
    <3> HIDE DEF c
    <3> QED  BY <2>4, <2>5, <3>1, <3>2, <3>3, Zenon
  <2>7. CASE t \notin Datasets
    <3> HIDE DEF n, parts, arrived, readers
    <3>1. /\ (whole \o tail)[1] = STRUCTURE
          /\ Entered(readers, whole \o tail) = Decoded(Len(whole), Gathered(n, arrived))
      BY <2>1, <2>2, <2>3, StructureRead, Zenon
    <3>3. ber_encode(t, v) = whole
      BY <2>2, <2>7, Zenon
    <3> HIDE DEF whole
    <3>2. DecodedBy(ber_decode_part, t, whole \o tail, before) = Entered(readers, whole \o tail)
      BY <2>7, <3>1, Zenon DEF DecodedBy, Entered, readers
    <3> QED  BY <2>4, <2>5, <3>1, <3>2, <3>3, Zenon
  <2> QED  BY <2>6, <2>7
<1> QED  BY <1>1, <1>2 DEF Types

--------------------------------------------------------------------------------
(* What the lengths announce. *)

\* A part is an element of c.
Holds(part, c) ==
  /\ c \in Seq(Byte) /\ Len(c) < 256 * 256
  /\ \E tag \in Byte : part = Complete(tag, c)

(* An element is opened by the length that it announces, whatever is behind *)
(* it.                                                                      *)
LEMMA OpenedElement ==
  \A part, c : \A tail \in Seq(Byte) :
    Holds(part, c) =>
      part \in Seq(Byte) /\ Opened(part \o tail) = Decoded(Len(part), c)
<1> TAKE part, c
<1> TAKE tail \in Seq(Byte)
<1> HAVE Holds(part, c)
<1>1. PICK tag \in Byte : part = Complete(tag, c)
  BY Zenon DEF Holds
<1>2. c \in Seq(Byte) /\ Len(c) < 256 * 256
  BY Zenon DEF Holds
<1>3. Len(c) \in Nat
  BY <1>2, LenProperties
<1>4. part \in Seq(Byte) /\ Len(part) = Whole(Len(c))
  BY <1>1, <1>2, CompleteInBytes
<1> DEFINE h == Heading(tag, Len(c))
           n == Len(c)
           buf == part \o tail
           first == 1 + getLengthFieldSize(buf[2])
           width == first + decodeLength(Rest(buf, 1))
<1>5. h \in Seq(Byte) /\ Len(h) = 1 + getLengthBytes(n)
  BY <1>2, <1>3, HeadingInBytes
<1>6. getLengthBytes(n) \in 1 .. 3
  BY DEF getLengthBytes
<1>7. Len(part) = n + getLengthBytes(n) + 1
  BY <1>4 DEF Whole
<1>8. ReadsAs(buf, tag, c, tail)
  BY <1>1, <1>2, ElementInBuffer
<1>9. width = first + n /\ first + n = Len(part)
  <2> HIDE DEF buf
  <2> QED  BY <1>1, <1>8 DEF ReadsAs
<1>10. buf \in Seq(Byte) /\ Len(buf) = Len(part) + Len(tail) /\ Len(tail) \in Nat
  BY <1>4, Cat, LenProperties
<1> HIDE DEF buf, first, width, n, h
<1>11. first = Len(h) /\ Len(buf) >= 2 /\ first <= Len(buf) /\ width <= Len(buf)
  <2>1. n \in Nat
    BY <1>3 DEF n
  <2>2. first \in Int
    <3>1. buf[2] \in Nat
      <4>1. 2 \in 1 .. Len(buf)
        BY <1>6, <1>7, <1>10, <2>1
      <4>2. buf[2] \in Byte
        BY <1>10, <4>1, ElementOfSeq
      <4>3. \A x \in Byte : x \in Nat
        BY DEF Byte
      <4> QED  BY <4>2, <4>3, Zenon
    <3> QED  BY <3>1 DEF first, getLengthFieldSize
  <2> QED  BY <1>5, <1>6, <1>7, <1>9, <1>10, <2>1, <2>2
<1>12. SubSeq(buf, first + 1, width) = c
  <2>1. buf = h \o (c \o tail)
    <3>1. part = h \o c
      BY <1>1 DEF Complete, h
    <3>2. (h \o c) \o tail = h \o (c \o tail)
      BY <1>2, <1>5, CatCat, Zenon
    <3> QED  BY <3>1, <3>2 DEF buf
  <2>2. SubSeq(h \o (c \o tail), Len(h) + 1, Len(h) + Len(c)) = c
    BY <1>2, <1>5, Middle, Zenon
  <2>3. width = Len(h) + Len(c)
    BY <1>9, <1>11 DEF n
  <2> QED  BY <1>11, <2>1, <2>2, <2>3
<1>13. width = Len(part)
  BY <1>9
<1>14. Opened(buf) = Decoded(width, SubSeq(buf, first + 1, width))
  BY <1>11 DEF Opened, first, width
<1> QED  BY <1>4, <1>12, <1>13, <1>14 DEF buf

\* An element has only one content.
LEMMA HoldsOne ==
  \A part, c, d : Holds(part, c) /\ Holds(part, d) => c = d
<1> TAKE part, c, d
<1> HAVE Holds(part, c) /\ Holds(part, d)
<1>1. <<>> \in Seq(Byte)
  BY EmptySeq
<1>2. Decoded(Len(part), c) = Decoded(Len(part), d)
  BY <1>1, OpenedElement, Zenon
<1> QED  BY <1>2 DEF Decoded

\* What is an element has a content.
LEMMA ElementHolds ==
  \A part : \A n \in Nat : IsElement(part, n) /\ n < 256 * 256 => \E c : Holds(part, c)
BY DEF IsElement, Holds

\* What opens n elements.
Openers(n) == [i \in 1 .. n |-> [b \in Seq(Byte) |-> Opened(b)]]
HoldsEach(n, parts, contents) == \A i \in 1 .. n : Holds(parts[i], contents[i])

(* Elements in a row are opened one after the other.                        *)
LEMMA ElementsOpened ==
  \A n \in Nat : \A parts \in [1 .. n -> Seq(Byte)] : \A contents :
    HoldsEach(n, parts, contents) =>
      InTurn(Openers(n), FlattenSeq(parts))
        = Decoded(Len(FlattenSeq(parts)), Gathered(n, contents))
<1> TAKE n \in Nat
<1> TAKE parts \in [1 .. n -> Seq(Byte)]
<1> TAKE contents
<1> HAVE HoldsEach(n, parts, contents)
<1>1. DOMAIN Openers(n) = 1 .. n /\ Len(Openers(n)) = n
  BY DEF Openers
<1>2. ASSUME NEW i \in 1 .. n, NEW t \in Seq(Byte)
      PROVE  Openers(n)[i][parts[i] \o t] = Decoded(Len(parts[i]), contents[i])
  <2> DEFINE p == parts[i]
             c == contents[i]
  <2>1. Openers(n)[i] = [b \in Seq(Byte) |-> Opened(b)]
    BY DEF Openers
  <2>2. p \in Seq(Byte) /\ Holds(p, c)
    BY DEF HoldsEach
  <2> HIDE DEF p, c
  <2>3. p \o t \in Seq(Byte)
    BY <2>2, Cat
  <2>4. Opened(p \o t) = Decoded(Len(p), c)
    BY <2>2, OpenedElement, Zenon
  <2>5. Openers(n)[i][p \o t] = Decoded(Len(p), c)
    BY <2>1, <2>3, <2>4
  <2> QED  BY <2>5 DEF p, c
<1>3. ReadEach(n, Openers(n), parts, contents)
  BY <1>1, <1>2 DEF ReadEach
<1>4. <<>> \in Seq(Byte)
  BY EmptySeq
<1>5. InTurn(Openers(n), FlattenSeq(parts) \o <<>>)
        = Decoded(Len(FlattenSeq(parts)), Gathered(n, contents))
  BY <1>3, <1>4, InTurnReads, Zenon
<1>6. FlattenSeq(parts) \o <<>> = FlattenSeq(parts)
  BY JoinedLength, ConcatEmptySeq
<1> QED  BY <1>5, <1>6

(* The contents of a structure of basic types are its components and        *)
(* nothing else.                                                            *)
LEMMA InnerFits ==
  \A t \in Inner : \A v : IsPart(t, v) =>
    FitInto(FlattenSeq(BasicParts(t, v)), Components(t), Anything)
<1> TAKE t \in Inner
<1> TAKE v
<1> HAVE IsPart(t, v)
<1> DEFINE n == Len(Components(t))
           parts == BasicParts(t, v)
           lens == BasicLengths(t, v)
           contents == [i \in 1 .. n |-> CHOOSE c : Holds(parts[i], c)]
<1>1. /\ n \in Nat /\ DOMAIN Components(t) = 1 .. n
  BY TableOfStructures
<1>2. /\ parts \in [1 .. n -> Seq(Byte)]
      /\ \A i \in 1 .. n : IsElement(parts[i], lens[i]) /\ lens[i] \in 0 .. 9
  BY InnerWritten
<1>3. \A i \in 1 .. n : \E c : Holds(parts[i], c)
  <2> TAKE i \in 1 .. n
  <2> DEFINE p == parts[i]
             l == lens[i]
  <2>1. IsElement(p, l) /\ l \in 0 .. 9
    BY <1>2
  <2> HIDE DEF p, l
  <2>2. l \in Nat /\ l < 256 * 256
    BY <2>1
  <2>3. \E c : Holds(p, c)
    BY <2>1, <2>2, ElementHolds
  <2> QED  BY <2>3 DEF p
<1> HIDE DEF n, parts
<1>4. HoldsEach(n, parts, contents)
  BY <1>3 DEF HoldsEach
<1> HIDE DEF contents
<1>5. InTurn(Openers(n), FlattenSeq(parts))
        = Decoded(Len(FlattenSeq(parts)), Gathered(n, contents))
  BY <1>1, <1>2, <1>4, ElementsOpened, Zenon
<1>6. [i \in DOMAIN Components(t) |-> [b \in Seq(Byte) |-> Opened(b)]] = Openers(n)
  BY <1>1, Zenon DEF Openers
<1>7. FitInto(FlattenSeq(parts), Components(t), Anything)
  BY <1>5, <1>6 DEF FitInto, Anything, Decoded
<1> QED  BY <1>7 DEF parts

\* The same for any structure, and for the structures in it.
LEMMA ComponentsFit ==
  \A t \in Structures \cup Datasets : \A v : IsValue(t, v) =>
    FitInto(FlattenSeq(ValueParts(t, v)), Components(t), PartFits)
<1> TAKE t \in Structures \cup Datasets
<1> TAKE v
<1> HAVE IsValue(t, v)
<1> DEFINE n == Len(Components(t))
           parts == ValueParts(t, v)
           lens == ValueLengths(t, v)
           contents == [i \in 1 .. n |-> CHOOSE c : Holds(parts[i], c)]
<1>1. /\ n \in Nat /\ DOMAIN Components(t) = 1 .. n
      /\ \A i \in 1 .. n : Components(t)[i] \in Plain \cup Inner
  BY TableOfStructures
<1>2. /\ parts \in [1 .. n -> Seq(Byte)]
      /\ \A i \in 1 .. n : IsElement(parts[i], lens[i]) /\ lens[i] \in 0 .. 208
  BY ValueWritten
<1>3. \A i \in 1 .. n : \E c : Holds(parts[i], c)
  <2> TAKE i \in 1 .. n
  <2> DEFINE p == parts[i]
             l == lens[i]
  <2>1. IsElement(p, l) /\ l \in 0 .. 208
    BY <1>2
  <2> HIDE DEF p, l
  <2>2. l \in Nat /\ l < 256 * 256
    BY <2>1
  <2>3. \E c : Holds(p, c)
    BY <2>1, <2>2, ElementHolds
  <2> QED  BY <2>3 DEF p
<1>8. \A i \in 1 .. n : IsPart(Components(t)[i], v[i])
                          /\ parts[i] = ber_encode_part(Components(t)[i], v[i])
  BY <1>1, ComponentValues DEF ValueParts
<1> HIDE DEF n, parts
<1>4. HoldsEach(n, parts, contents)
  BY <1>3 DEF HoldsEach
<1> HIDE DEF contents
<1>5. InTurn(Openers(n), FlattenSeq(parts))
        = Decoded(Len(FlattenSeq(parts)), Gathered(n, contents))
  BY <1>1, <1>2, <1>4, ElementsOpened, Zenon
<1>6. [i \in DOMAIN Components(t) |-> [b \in Seq(Byte) |-> Opened(b)]] = Openers(n)
  BY <1>1, Zenon DEF Openers
<1>9. ASSUME NEW i \in 1 .. n
      PROVE  PartFits(Components(t)[i], contents[i])
  <2> DEFINE s == Components(t)[i]
             u == v[i]
             c == contents[i]
             d == FlattenSeq(BasicParts(s, u))
  <2>1. /\ s \in Plain \cup Inner /\ IsPart(s, u) /\ Holds(ber_encode_part(s, u), c)
    BY <1>1, <1>4, <1>8 DEF HoldsEach
  <2> SUFFICES PartFits(s, c)
    BY DEF s, c
  <2> HIDE DEF s, u, c
  <2>2. CASE s \in Plain
    <3>1. s \notin Structures
      BY <2>2, TableOfStructures
    <3> QED  BY <3>1 DEF PartFits
  <2>3. CASE s \in Inner
    <3>1. d \in Seq(Byte) /\ Len(d) \in 0 .. 208 /\ ber_encode_part(s, u) = Complete(STRUCTURE, d)
      BY <2>1, <2>3, InnerWritten, Zenon
    <3>2. FitInto(d, Components(s), Anything)
      BY <2>1, <2>3, InnerFits, Zenon
    <3> HIDE DEF d
    <3>3. STRUCTURE \in Byte /\ Len(d) < 256 * 256
      <4>1. STRUCTURE \in Byte
        BY DEF STRUCTURE, Byte
      <4> DEFINE width == Len(d)
      <4>2. width \in 0 .. 208
        BY <3>1, Zenon
      <4> HIDE DEF width
      <4>3. width < 256 * 256
        BY <4>2
      <4> QED  BY <4>1, <4>3 DEF width
    <3>4. Holds(ber_encode_part(s, u), d)
      BY <3>1, <3>3, Zenon DEF Holds
    <3>5. c = d
      BY <2>1, <3>4, HoldsOne, Zenon
    <3> QED  BY <3>2, <3>5, Zenon DEF PartFits
  <2> QED  BY <2>1, <2>2, <2>3
<1>10. \A i \in DOMAIN Components(t) : PartFits(Components(t)[i], Gathered(n, contents)[i])
  BY <1>1, <1>9 DEF Gathered
<1>7. FitInto(FlattenSeq(parts), Components(t), PartFits)
  <2> DEFINE elements == InTurn(Openers(n), FlattenSeq(parts))
  <2>1. elements.used = Len(FlattenSeq(parts)) /\ elements.value = Gathered(n, contents)
    BY <1>5 DEF Decoded
  <2> HIDE DEF elements
  <2>2. \A i \in DOMAIN Components(t) : PartFits(Components(t)[i], elements.value[i])
    BY <1>10, <2>1
  <2> QED  BY <1>6, <2>1, <2>2, Zenon DEF FitInto, elements
<1> QED  BY <1>7 DEF parts

\* An element alone is opened.
LEMMA SingleElement ==
  \A s, c : Holds(s, c) =>
    InTurn(Openers(1), s) = Decoded(Len(s), Gathered(1, [i \in 1 .. 1 |-> c]))
<1> TAKE s, c
<1> HAVE Holds(s, c)
<1> DEFINE parts == [i \in 1 .. 1 |-> s]
           contents == [i \in 1 .. 1 |-> c]
<1>1. s \in Seq(Byte)
  BY OpenedElement, EmptySeq, Zenon
<1>2. parts \in [1 .. 1 -> Seq(Byte)] /\ parts[1] = s
  BY <1>1
<1>3. HoldsEach(1, parts, contents)
  BY DEF HoldsEach
<1> HIDE DEF parts, contents
<1>4. 1 \in Nat /\ 1 \in 1 .. 1 /\ 1 - 1 = 0
  OBVIOUS
<1>5. InTurn(Openers(1), FlattenSeq(parts))
        = Decoded(Len(FlattenSeq(parts)), Gathered(1, contents))
  BY <1>2, <1>3, <1>4, ElementsOpened, Zenon
<1>6. PICK f : Joins(f, 1, parts) /\ FlattenSeq(parts) = f[1]
  BY <1>2, <1>4, JoinedIs, Zenon
<1>7. f[1] = f[0] \o s /\ f[0] = <<>>
  BY <1>2, <1>4, <1>6 DEF Joins
<1>8. FlattenSeq(parts) = s
  BY <1>1, <1>6, <1>7, ConcatEmptySeq
<1> QED  BY <1>5, <1>8 DEF contents

\* What is written of a value is one element, or those of a dataset, and inside
\* them nothing but elements, down to the basic types.
LEMMA ValueFits ==
  \A t \in Types : \A v : IsValue(t, v) =>
    IF t \in Datasets THEN FitInto(ber_encode(t, v), Components(t), PartFits)
                      ELSE FitInto(ber_encode(t, v), <<t>>, Fits)
<1> TAKE t \in Types
<1> TAKE v
<1> HAVE IsValue(t, v)
<1> DEFINE s == ber_encode(t, v)
           ts == <<t>>
<1>1. \A c : Holds(s, c) /\ Fits(t, c) => FitInto(s, ts, Fits)
  <2> TAKE c
  <2> HAVE Holds(s, c) /\ Fits(t, c)
  <2> HIDE DEF s
  <2> DEFINE contents == [i \in 1 .. 1 |-> c]
             elements == InTurn(Openers(1), s)
  <2>1. elements = Decoded(Len(s), Gathered(1, contents))
    BY SingleElement, Zenon
  <2>2. Gathered(1, contents)[1] = c
    BY DEF Gathered
  <2> HIDE DEF elements, contents
  <2>3. elements.used = Len(s) /\ elements.value[1] = c
    BY <2>1, <2>2 DEF Decoded
  <2>4. DOMAIN ts = 1 .. 1 /\ ts[1] = t
    OBVIOUS
  <2> HIDE DEF ts
  <2>5. \A i \in DOMAIN ts : Fits(ts[i], elements.value[i])
    BY <2>3, <2>4
  <2>6. [i \in DOMAIN ts |-> [b \in Seq(Byte) |-> Opened(b)]] = Openers(1)
    BY <2>4, Zenon DEF Openers
  <2> QED  BY <2>3, <2>5, <2>6, Zenon DEF FitInto, elements
<1>2. CASE t \in BasicTypes
  <2>1. s = BER_ENCODE(t, v) /\ v \in Octets(SV_GET_LENGTH(t))
    BY <1>2 DEF ber_encode, IsValue, IsBasic
  <2>2. t \notin Structures /\ t \notin Datasets
    BY <1>2, TableOfStructures
  <2> DEFINE n == BER_GET_LENGTH(t, v)
  <2>3. IsElement(BER_ENCODE(t, v), n) /\ n \in 1 .. 9
    BY <1>2, <2>1, BERWritten, Zenon
  <2> HIDE DEF s, n
  <2>4. n \in Nat /\ n < 256 * 256
    BY <2>3
  <2>5. PICK c : Holds(s, c)
    BY <2>1, <2>3, <2>4, ElementHolds
  <2>6. Fits(t, c)
    BY <2>2, Zenon DEF Fits
  <2> QED  BY <1>1, <2>2, <2>5, <2>6, Zenon DEF s
<1>3. CASE t \in Structures \cup Datasets
  <2> DEFINE c == FlattenSeq(ValueParts(t, v))
  <2>1. /\ c \in Seq(Byte) /\ Len(c) < 256 * 256
        /\ s = IF t \in Datasets THEN c ELSE Complete(STRUCTURE, c)
    BY <1>3, ValueWritten, Zenon
  <2>2. FitInto(c, Components(t), PartFits)
    BY <1>3, ComponentsFit, Zenon
  <2> HIDE DEF s, c
  <2>3. CASE t \in Datasets
    BY <2>1, <2>2, <2>3, Zenon DEF s
  <2>4. CASE t \notin Datasets
    <3>1. STRUCTURE \in Byte
      BY DEF STRUCTURE, Byte
    <3>2. Holds(s, c)
      BY <2>1, <2>4, <3>1, Zenon DEF Holds
    <3>3. Fits(t, c)
      BY <2>2, Zenon DEF Fits
    <3> QED  BY <1>1, <2>4, <3>2, <3>3, Zenon DEF s
  <2> QED  BY <2>3, <2>4
<1> QED  BY <1>2, <1>3 DEF Types

--------------------------------------------------------------------------------
(* Structures in a buffer: Sampled Values. *)

(* Sums only grow, and the sum of the first few is one of them.             *)
LEMMA SumsGrow ==
  \A n \in Nat : \A lengths \in [1 .. n -> Nat] : \A s :
    Sums(s, n, lengths) => \A i \in 0 .. n : s[i] \in Nat /\ s[n] \in Nat /\ s[i] <= s[n]
<1> TAKE n \in Nat
<1> TAKE lengths \in [1 .. n -> Nat]
<1> TAKE s
<1> HAVE Sums(s, n, lengths)
<1> DEFINE T == {k \in 0 .. n : s[n - k] <= s[n]}
<1>1. s \in [0 .. n -> Nat] /\ \A i \in 1 .. n : s[i] = s[i - 1] + lengths[i]
  BY DEF Sums
<1>2. 0 \in T
  <2>1. n - 0 = n /\ n \in 0 .. n /\ s[n] \in Nat
    BY <1>1
  <2> QED  BY <2>1
<1>3. ASSUME NEW k \in 1 .. n, k - 1 \in T
      PROVE  k \in T
  <2>1. n - (k - 1) \in 1 .. n /\ (n - (k - 1)) - 1 = n - k /\ n - k \in 0 .. n
    OBVIOUS
  <2> DEFINE i == n - (k - 1)
             l == lengths[i]
  <2>2. s[i] = s[n - k] + l /\ l \in Nat /\ s[n - k] \in Nat /\ s[n] \in Nat
    BY <1>1, <2>1
  <2>3. s[i] <= s[n]
    BY <1>3
  <2> HIDE DEF i, l
  <2>4. s[n - k] <= s[n] /\ k \in 0 .. n
    BY <2>2, <2>3
  <2> QED  BY <2>4
<1>4. T \in SUBSET (0 .. n)
  OBVIOUS
<1>5. \A k \in 1 .. n : k - 1 \in T => k \in T
  <2> HIDE DEF T
  <2> QED  BY <1>3
<1>6. \A k \in 0 .. n : k \in T
  <2> HIDE DEF T
  <2> QED  BY <1>2, <1>4, <1>5, Upwards, Zenon
<1> TAKE i \in 0 .. n
<1>7. n - i \in 0 .. n /\ n - (n - i) = i /\ n \in 0 .. n
  OBVIOUS
<1>8. s[n - (n - i)] <= s[n]
  BY <1>6, <1>7
<1> QED  BY <1>1, <1>7, <1>8

\* The total of the first few is the sum up to them.
LEMMA FirstTotal ==
  \A n \in Nat : \A lengths \in [1 .. n -> Nat] : \A s : \A i \in 0 .. n :
    Sums(s, n, lengths) => Total([j \in 1 .. i |-> lengths[j]]) = s[i]
<1> TAKE n \in Nat
<1> TAKE lengths \in [1 .. n -> Nat]
<1> TAKE s
<1> TAKE i \in 0 .. n
<1> HAVE Sums(s, n, lengths)
<1> DEFINE few == [j \in 1 .. i |-> lengths[j]]
<1>1. few \in [1 .. i -> Nat] /\ i \in Nat
  OBVIOUS
<1>2. \A j \in 1 .. i : few[j] = lengths[j]
  OBVIOUS
<1> HIDE DEF few
<1>3. PICK r : Sums(r, i, few) /\ Total(few) = r[i]
  BY <1>1, TotalIs
<1> DEFINE T == {k \in 0 .. i : r[k] = s[k]}
<1>4. 0 \in T
  BY <1>3 DEF Sums
<1>5. ASSUME NEW k \in 1 .. i, k - 1 \in T
      PROVE  k \in T
  <2>1. k \in 1 .. n /\ k \in 0 .. i
    OBVIOUS
  <2>2. r[k] = r[k - 1] + lengths[k] /\ s[k] = s[k - 1] + lengths[k]
    BY <1>2, <1>3, <2>1 DEF Sums
  <2>3. r[k - 1] = s[k - 1]
    BY <1>5
  <2> QED  BY <2>1, <2>2, <2>3
<1>6. T \in SUBSET (0 .. i) /\ i \in 0 .. i
  OBVIOUS
<1> HIDE DEF T
<1>7. \A k \in 1 .. i : k - 1 \in T => k \in T
  BY <1>5
<1>8. i \in T
  BY <1>1, <1>4, <1>6, <1>7, Upwards, Zenon
<1> QED  BY <1>3, <1>8 DEF T, few

(* Each component is written within the length computed for the whole.      *)
LEMMA SvLengths ==
  \A t \in Structures \cup Datasets :
    /\ sv_length(t) \in Nat
    /\ t \in Inner => sv_length_part(t) = sv_length(t)
    /\ \A i \in DOMAIN Components(t) :
         /\ Offset(t, i) \in Nat
         /\ sv_length_part(Components(t)[i]) \in Nat
         /\ Offset(t, i) + sv_length_part(Components(t)[i]) <= sv_length(t)
<1> TAKE t \in Structures \cup Datasets
<1> DEFINE n == Len(Components(t))
           lengths == [i \in 1 .. n |-> sv_length_part(Components(t)[i])]
<1>1. /\ n \in 1 .. 16 /\ DOMAIN Components(t) = 1 .. n /\ t \notin BasicTypes
      /\ \A i \in 1 .. n : Components(t)[i] \in Plain \cup Inner
      /\ t \in Inner => \A i \in 1 .. n : Components(t)[i] \in BasicTypes
  BY TableOfStructures
<1>2. \A s \in BasicTypes : SV_GET_LENGTH(s) \in Nat
  BY DEF SV_GET_LENGTH
<1>3. \A s \in Inner : sv_length_part(s) \in Nat
  <2> TAKE s \in Inner
  <2> DEFINE m == Len(Components(s))
             sizes == [i \in 1 .. m |-> SV_GET_LENGTH(Components(s)[i])]
  <2>1. /\ m \in Nat /\ DOMAIN Components(s) = 1 .. m /\ s \notin BasicTypes
        /\ \A i \in 1 .. m : Components(s)[i] \in BasicTypes
    BY TableOfStructures
  <2>2. sizes \in [1 .. m -> Nat]
    BY <1>2, <2>1
  <2>3. sv_length_part(s) = Total(sizes)
    BY <2>1 DEF sv_length_part
  <2> HIDE DEF sizes, m
  <2>4. PICK r : Sums(r, m, sizes) /\ Total(sizes) = r[m]
    BY <2>1, <2>2, TotalIs
  <2>5. m \in 0 .. m
    BY <2>1
  <2> QED  BY <2>3, <2>4, <2>5 DEF Sums
<1>4. \A i \in 1 .. n : sv_length_part(Components(t)[i]) \in Nat
  <2> TAKE i \in 1 .. n
  <2>1. CASE Components(t)[i] \in Plain
    <3>1. Components(t)[i] \in BasicTypes
      BY <2>1, TableOfStructures
    <3> QED  BY <1>2, <3>1 DEF sv_length_part
  <2>2. CASE Components(t)[i] \in Inner
    BY <1>3, <2>2
  <2> QED  BY <1>1, <2>1, <2>2
<1>5. lengths \in [1 .. n -> Nat] /\ n \in Nat
  BY <1>1, <1>4
<1>6. \A i \in 1 .. n : lengths[i] = sv_length_part(Components(t)[i])
  OBVIOUS
<1>7. PICK s : Sums(s, n, lengths) /\ Total(lengths) = s[n]
  <2> HIDE DEF lengths, n
  <2> QED  BY <1>5, TotalIs
<1>8. \A i \in 1 .. n + 1 : Offset(t, i) = s[i - 1]
  <2> TAKE i \in 1 .. n + 1
  <2> DEFINE few == [j \in 1 .. i - 1 |-> lengths[j]]
             offsets == [j \in 1 .. i - 1 |-> sv_length_part(Components(t)[j])]
  <2>1. i - 1 \in 0 .. n
    BY <1>5
  <2>2. few = offsets
    <3>1. \A j \in 1 .. i - 1 : j \in 1 .. n
      BY <1>5, <2>1
    <3> QED  BY <1>6, <3>1
  <2>3. Offset(t, i) = Total(offsets)
    BY DEF Offset
  <2>4. Total(few) = s[i - 1]
    <3> HIDE DEF lengths, n
    <3> QED  BY <1>5, <1>7, <2>1, FirstTotal
  <2> QED  BY <2>2, <2>3, <2>4
<1>9. sv_length(t) = s[n]
  <2>1. sv_length(t) = Offset(t, n + 1)
    BY <1>1 DEF sv_length
  <2>2. n + 1 \in 1 .. n + 1 /\ (n + 1) - 1 = n
    BY <1>5
  <2> QED  BY <1>8, <2>1, <2>2
<1>10. t \in Inner => sv_length_part(t) = sv_length(t)
  <2> HAVE t \in Inner
  <2> DEFINE sizes == [i \in DOMAIN Components(t) |-> SV_GET_LENGTH(Components(t)[i])]
  <2>1. sizes = lengths
    BY <1>1, <1>6 DEF sv_length_part
  <2>2. sv_length_part(t) = Total(sizes)
    BY <1>1 DEF sv_length_part
  <2> QED  BY <1>7, <1>9, <2>1, <2>2
<1> HIDE DEF lengths, n
<1>11. \A i \in 0 .. n : s[i] \in Nat /\ s[n] \in Nat /\ s[i] <= s[n]
  BY <1>5, <1>7, SumsGrow
<1>12. ASSUME NEW i \in 1 .. n
       PROVE  /\ Offset(t, i) \in Nat
              /\ sv_length_part(Components(t)[i]) \in Nat
              /\ Offset(t, i) + sv_length_part(Components(t)[i]) <= sv_length(t)
  <2>1. i \in 1 .. n + 1 /\ i - 1 \in 0 .. n /\ i \in 0 .. n
    BY <1>5
  <2>2. Offset(t, i) = s[i - 1]
    BY <1>8, <2>1
  <2>3. s[i] = s[i - 1] + lengths[i] /\ lengths[i] = sv_length_part(Components(t)[i])
    BY <1>6, <1>7 DEF Sums
  <2> QED  BY <1>4, <1>9, <1>11, <2>1, <2>2, <2>3
<1>13. n \in 0 .. n
  BY <1>5
<1> QED  BY <1>1, <1>9, <1>10, <1>11, <1>12, <1>13

(* What the buffer is full of, from anywhere on.                            *)
LEMMA FilledBytes ==
  stale \in Byte =>
    /\ \A m \in Nat : Filled(m) \in Octets(m) /\ Filled(m) \in Seq(Byte)
    /\ \A m \in Nat : \A k \in 0 .. m : Rest(Filled(m), k) = Filled(m - k)
    /\ \A m \in Nat : m >= 2 => SubSeq(Filled(m), 1, 2) = Filled(2)
    /\ netmemcpy(Filled(2)) = Filled(2)
<1> HAVE stale \in Byte
<1>1. ASSUME NEW m \in Nat
      PROVE  /\ Filled(m) \in Octets(m) /\ Filled(m) \in Seq(Byte)
             /\ Len(Filled(m)) = m /\ DOMAIN Filled(m) = 1 .. m
             /\ \A i \in 1 .. m : Filled(m)[i] = stale
  BY DEF Filled, Octets
<1>2. ASSUME NEW m \in Nat, NEW k \in 0 .. m
      PROVE  Rest(Filled(m), k) = Filled(m - k)
  <2> DEFINE buf == Filled(m)
             r == SubSeq(buf, k + 1, m)
  <2>1. buf \in Seq(Byte) /\ Len(buf) = m
    BY <1>1
  <2>2. Rest(Filled(m), k) = r
    BY <1>1 DEF Rest
  <2>3. m - k \in Nat /\ m - (k + 1) + 1 = m - k
    OBVIOUS
  <2>4. r = [i \in 1 .. m - k |-> buf[i + k]]
    <3> HIDE DEF buf
    <3> QED  BY <2>1
  <2>5. \A i \in 1 .. m - k : buf[i + k] = stale
    BY <1>1
  <2> QED  BY <2>2, <2>4, <2>5 DEF Filled
<1>3. ASSUME NEW m \in Nat, m >= 2
      PROVE  SubSeq(Filled(m), 1, 2) = Filled(2)
  <2> DEFINE buf == Filled(m)
             r == SubSeq(buf, 1, 2)
  <2>1. buf \in Seq(Byte) /\ Len(buf) = m
    BY <1>1
  <2>4. r = [i \in 1 .. 2 |-> buf[i]]
    <3> HIDE DEF buf
    <3> QED  BY <1>3, <2>1
  <2>5. \A i \in 1 .. 2 : buf[i] = stale
    BY <1>1, <1>3
  <2> QED  BY <2>4, <2>5 DEF Filled
<1>4. netmemcpy(Filled(2)) = Filled(2)
  BY DEF netmemcpy, Filled
<1> QED  BY <1>1, <1>2, <1>3, <1>4

(* A value of a basic type in a buffer that has room for it.                *)
LEMMA BasicInBuffer ==
  stale \in Byte /\ coding = "SV" =>
    \A t \in BasicTypes : \A v \in Octets(SV_GET_LENGTH(t)), m \in Nat :
      m >= SV_GET_LENGTH(t) =>
        /\ ENCODE_CTYPE(t, v, Filled(m)) \in Seq(Byte)
        /\ \A before : \A tail \in Seq(Byte) :
             DECODE_CTYPE(t, ENCODE_CTYPE(t, v, Filled(m)) \o tail)
               = Decoded(Len(ENCODE_CTYPE(t, v, Filled(m))), Arrived(t, v, before))
<1> HAVE stale \in Byte /\ coding = "SV"
<1> TAKE t \in BasicTypes
<1> TAKE v \in Octets(SV_GET_LENGTH(t)), m \in Nat
<1> HAVE m >= SV_GET_LENGTH(t)
<1> DEFINE width == SV_GET_LENGTH(t)
           buf == Filled(width)
<1>1. width \in 1 .. 8 /\ (t = "QUALITY" => width = 4)
  BY DEF SV_GET_LENGTH
<1>2. buf \in Octets(SV_GET_LENGTH(t))
  <2>1. \A k \in Nat : Filled(k) \in Octets(k)
    BY FilledBytes
  <2> DEFINE k == SV_GET_LENGTH(t)
  <2>2. k \in Nat
    BY <1>1
  <2> HIDE DEF k
  <2>3. Filled(k) \in Octets(k)
    BY <2>1, <2>2
  <2> QED  BY <2>3 DEF k
<1>3. t = "QUALITY" => /\ SubSeq(Filled(m), 1, 2) = Filled(2)
                       /\ SubSeq(buf, 1, 2) = Filled(2)
  <2> HIDE DEF width
  <2>1. t = "QUALITY" => m >= 2 /\ width >= 2 /\ width \in Nat
    BY <1>1 DEF width
  <2> QED  BY <2>1, FilledBytes
<1>4. ENCODE_CTYPE(t, v, Filled(m)) = ENCODE_CTYPE(t, v, buf)
  BY <1>3 DEF ENCODE_CTYPE
<1>5. \A before : ArrivedPlain(t, v, netmemcpy(SubSeq(buf, 1, 2))) = Arrived(t, v, before)
  <2> TAKE before
  <2>1. t = "QUALITY" => netmemcpy(SubSeq(buf, 1, 2)) = Filled(2)
    BY <1>3, FilledBytes
  <2>2. Arrived(t, v, before) = ArrivedPlain(t, v, Filled(2))
    BY DEF Arrived
  <2> HIDE DEF buf
  <2> QED  BY <2>1, <2>2, Zenon DEF ArrivedPlain
<1> DEFINE written == ENCODE_CTYPE(t, v, buf)
<1>6. \A tail \in Seq(Byte) :
        /\ written \in Seq(Byte)
        /\ DECODE_CTYPE(t, written \o tail)
             = Decoded(Len(written), ArrivedPlain(t, v, netmemcpy(SubSeq(buf, 1, 2))))
  <2> HIDE DEF buf
  <2> QED  BY <1>2, PlainRead, Zenon
<1> HIDE DEF written, buf
<1>7. <<>> \in Seq(Byte)
  BY EmptySeq
<1> QED  BY <1>4, <1>5, <1>6, <1>7, Zenon DEF written

\* How a structure of basic types is written into a buffer of m bytes, and read.
SvBasicParts(t, v, m) ==
  [i \in DOMAIN Components(t) |->
    ENCODE_CTYPE(Components(t)[i], v[i], Rest(Filled(m), Offset(t, i)))]

\* Each component is written where there is room for it, and read.
LEMMA SvInnerRead ==
  stale \in Byte /\ coding = "SV" =>
    \A t \in Inner : \A v : \A m \in Nat : IsPart(t, v) /\ m >= sv_length_part(t) =>
      /\ SvBasicParts(t, v, m) \in [1 .. Len(Components(t)) -> Seq(Byte)]
      /\ \A before :
           ReadEach(Len(Components(t)), Readers(SvDecodeBasic, t, before),
                    SvBasicParts(t, v, m), BasicArrived(t, v, before))
<1> HAVE stale \in Byte /\ coding = "SV"
<1> TAKE t \in Inner
<1> TAKE v
<1> TAKE m \in Nat
<1> HAVE IsPart(t, v) /\ m >= sv_length_part(t)
<1> DEFINE n == Len(Components(t))
           parts == SvBasicParts(t, v, m)
<1>1. /\ n \in Nat /\ DOMAIN Components(t) = 1 .. n
      /\ \A i \in 1 .. n : Components(t)[i] \in BasicTypes
      /\ t \in Structures \cup Datasets
  BY TableOfStructures
<1>2. \A i \in 1 .. n : v[i] \in Octets(SV_GET_LENGTH(Components(t)[i]))
  BY <1>1, InnerValues
<1>3. ASSUME NEW i \in 1 .. n
      PROVE  /\ parts[i] \in Seq(Byte)
             /\ \A before : \A tail \in Seq(Byte) :
                  DECODE_CTYPE(Components(t)[i], parts[i] \o tail)
                    = Decoded(Len(parts[i]), Arrived(Components(t)[i], v[i], before))
  <2> DEFINE s == Components(t)[i]
             u == v[i]
             o == Offset(t, i)
             l == SV_GET_LENGTH(s)
  <2>1. s \in BasicTypes /\ u \in Octets(SV_GET_LENGTH(s))
    BY <1>1, <1>2
  <2>2. /\ o \in Nat /\ l \in Nat /\ o + l <= sv_length(t)
        /\ sv_length(t) = sv_length_part(t) /\ sv_length(t) \in Nat
    <3>1. sv_length_part(s) = l
      BY <2>1 DEF sv_length_part
    <3>2. /\ o \in Nat /\ sv_length_part(s) \in Nat /\ o + sv_length_part(s) <= sv_length(t)
          /\ sv_length(t) = sv_length_part(t) /\ sv_length(t) \in Nat
      BY <1>1, SvLengths
    <3> QED  BY <3>1, <3>2
  <2>3. parts[i] = ENCODE_CTYPE(s, u, Rest(Filled(m), o))
    BY <1>1 DEF SvBasicParts
  <2> HIDE DEF s, u, o, l, parts
  <2>4. o \in 0 .. m /\ m - o \in Nat /\ m - o >= l
    BY <2>2
  <2>5. Rest(Filled(m), o) = Filled(m - o)
    BY <2>4, FilledBytes
  <2> DEFINE k == m - o
  <2>6. k \in Nat /\ k >= SV_GET_LENGTH(s)
    BY <2>4 DEF l
  <2>7. parts[i] = ENCODE_CTYPE(s, u, Filled(k))
    BY <2>3, <2>5
  <2> HIDE DEF k
  <2>8. /\ ENCODE_CTYPE(s, u, Filled(k)) \in Seq(Byte)
        /\ \A before : \A tail \in Seq(Byte) :
             DECODE_CTYPE(s, ENCODE_CTYPE(s, u, Filled(k)) \o tail)
               = Decoded(Len(ENCODE_CTYPE(s, u, Filled(k))), Arrived(s, u, before))
    BY <2>1, <2>6, BasicInBuffer, Zenon
  <2>9. /\ parts[i] \in Seq(Byte)
        /\ \A before : \A tail \in Seq(Byte) :
             DECODE_CTYPE(s, parts[i] \o tail)
               = Decoded(Len(parts[i]), Arrived(s, u, before))
    BY <2>7, <2>8
  <2> QED  BY <2>9 DEF s, u
<1>4. parts \in [1 .. n -> Seq(Byte)]
  <2> DEFINE Written(i) ==
               ENCODE_CTYPE(Components(t)[i], v[i], Rest(Filled(m), Offset(t, i)))
  <2>1. parts = [i \in 1 .. n |-> Written(i)]
    BY <1>1 DEF SvBasicParts
  <2> HIDE DEF Written, parts, n
  <2>2. \A i \in 1 .. n : parts[i] = Written(i)
    BY <2>1
  <2>3. \A i \in 1 .. n : Written(i) \in Seq(Byte)
    BY <1>3, <2>2
  <2> QED  BY <2>1, <2>3
<1>5. ASSUME NEW before
      PROVE  ReadEach(n, Readers(SvDecodeBasic, t, before), parts, BasicArrived(t, v, before))
  <2> DEFINE readers == Readers(SvDecodeBasic, t, before)
             arrived == BasicArrived(t, v, before)
  <2>1. DOMAIN readers = 1 .. n /\ Len(readers) = n
    BY <1>1 DEF Readers
  <2>2. ASSUME NEW i \in 1 .. n, NEW tail \in Seq(Byte)
        PROVE  readers[i][parts[i] \o tail] = Decoded(Len(parts[i]), arrived[i])
    <3> DEFINE s == Components(t)[i]
               w == before[i]
               p == parts[i]
    <3>1. readers[i] = [buf \in Seq(Byte) |-> SvDecodeBasic(s, buf, w)]
      BY <1>1 DEF Readers
    <3>2. arrived[i] = Arrived(s, v[i], w)
      BY <1>1 DEF BasicArrived
    <3>3. p \in Seq(Byte) /\ DECODE_CTYPE(s, p \o tail) = Decoded(Len(p), Arrived(s, v[i], w))
      BY <1>3, Zenon
    <3> HIDE DEF s, w, p, readers, arrived, parts
    <3>4. p \o tail \in Seq(Byte)
      BY <3>3, Cat
    <3>5. readers[i][p \o tail] = SvDecodeBasic(s, p \o tail, w)
      BY <3>1, <3>4
    <3>6. readers[i][p \o tail] = Decoded(Len(p), arrived[i])
      BY <3>2, <3>3, <3>5, Zenon DEF SvDecodeBasic
    <3> QED  BY <3>6 DEF p
  <2> HIDE DEF readers, arrived, parts, n
  <2>3. ReadEach(n, readers, parts, arrived)
    BY <2>1, <2>2 DEF ReadEach
  <2> QED  BY <2>3 DEF readers, arrived
<1> QED  BY <1>4, <1>5

(* Components are read as they were written into a buffer with room.        *)
LEMMA SvPartRead ==
  stale \in Byte /\ coding = "SV" =>
    \A t \in Plain \cup Inner : \A v : \A m \in Nat : IsPart(t, v) /\ m >= sv_length_part(t) =>
      /\ sv_encode_part(t, v, Filled(m)) \in Seq(Byte)
      /\ \A before : \A tail \in Seq(Byte) :
           sv_decode_part(t, sv_encode_part(t, v, Filled(m)) \o tail, before)
             = Decoded(Len(sv_encode_part(t, v, Filled(m))), PartArrived(t, v, before))
<1> HAVE stale \in Byte /\ coding = "SV"
<1> TAKE t \in Plain \cup Inner
<1> TAKE v
<1> TAKE m \in Nat
<1> HAVE IsPart(t, v) /\ m >= sv_length_part(t)
<1>1. CASE t \in Plain
  <2>1. t \in BasicTypes
    BY <1>1, TableOfStructures
  <2>2. v \in Octets(SV_GET_LENGTH(t)) /\ m >= SV_GET_LENGTH(t)
    BY <2>1 DEF IsPart, IsBasic, sv_length_part
  <2> DEFINE p == ENCODE_CTYPE(t, v, Filled(m))
  <2>3. /\ p \in Seq(Byte)
        /\ \A before : \A tail \in Seq(Byte) :
             DECODE_CTYPE(t, p \o tail) = Decoded(Len(p), Arrived(t, v, before))
    BY <2>1, <2>2, BasicInBuffer, Zenon
  <2>4. sv_encode_part(t, v, Filled(m)) = p
    BY <2>1 DEF sv_encode_part
  <2>5. \A before : PartArrived(t, v, before) = Arrived(t, v, before)
    BY <2>1 DEF PartArrived
  <2>6. \A buf, before : sv_decode_part(t, buf, before) = DECODE_CTYPE(t, buf)
    BY <2>1 DEF sv_decode_part, SvDecodeBasic
  <2> HIDE DEF p
  <2> QED  BY <2>3, <2>4, <2>5, <2>6
<1>2. CASE t \in Inner
  <2> DEFINE n == Len(Components(t))
             parts == SvBasicParts(t, v, m)
             c == FlattenSeq(parts)
  <2>1. n \in Nat /\ DOMAIN Components(t) = 1 .. n /\ t \notin BasicTypes
    BY <1>2, TableOfStructures
  <2>2. /\ parts \in [1 .. n -> Seq(Byte)]
        /\ \A before :
             ReadEach(n, Readers(SvDecodeBasic, t, before), parts, BasicArrived(t, v, before))
    BY <1>2, SvInnerRead, Zenon
  <2>3. sv_encode_part(t, v, Filled(m)) = c
    <3>1. sv_encode_part(t, v, Filled(m)) = SvEncoded(ENCODE_CTYPE, t, v, Filled(m))
      BY <2>1 DEF sv_encode_part
    <3> QED  BY <3>1, Zenon DEF SvEncoded, SvBasicParts
  <2>4. \A buf, before :
          sv_decode_part(t, buf, before) = InTurn(Readers(SvDecodeBasic, t, before), buf)
    BY <2>1 DEF sv_decode_part
  <2>5. \A before : PartArrived(t, v, before) = Gathered(n, BasicArrived(t, v, before))
    BY <2>1 DEF PartArrived, AllArrived, BasicArrived, Gathered
  <2> HIDE DEF n, parts
  <2>6. c \in Seq(Byte)
    BY <2>1, <2>2, JoinedLength, Zenon
  <2>7. \A before : \A tail \in Seq(Byte) :
          InTurn(Readers(SvDecodeBasic, t, before), c \o tail)
            = Decoded(Len(c), Gathered(n, BasicArrived(t, v, before)))
    <3> TAKE before
    <3> TAKE tail \in Seq(Byte)
    <3> DEFINE readers == Readers(SvDecodeBasic, t, before)
               arrived == BasicArrived(t, v, before)
    <3>1. ReadEach(n, readers, parts, arrived)
      BY <2>2, Zenon
    <3>2. n \in Nat /\ parts \in [1 .. n -> Seq(Byte)]
      BY <2>1, <2>2, Zenon
    <3> HIDE DEF readers, arrived
    <3>3. InTurn(readers, c \o tail) = Decoded(Len(c), Gathered(n, arrived))
      BY <3>1, <3>2, InTurnReads
    <3> QED  BY <3>3 DEF readers, arrived
  <2> HIDE DEF c
  <2> QED  BY <2>3, <2>4, <2>5, <2>6, <2>7
<1> QED  BY <1>1, <1>2

\* The same for any structure.
SvValueParts(t, v, m) ==
  [i \in DOMAIN Components(t) |->
    sv_encode_part(Components(t)[i], v[i], Rest(Filled(m), Offset(t, i)))]

\* Each component is written where there is room for it, and read.
LEMMA SvStructureRead ==
  stale \in Byte /\ coding = "SV" =>
    \A t \in Structures \cup Datasets : \A v : IsValue(t, v) =>
      /\ SvValueParts(t, v, sv_length(t)) \in [1 .. Len(Components(t)) -> Seq(Byte)]
      /\ \A before :
           ReadEach(Len(Components(t)), Readers(sv_decode_part, t, before),
                    SvValueParts(t, v, sv_length(t)), PartsArrived(t, v, before))
<1> HAVE stale \in Byte /\ coding = "SV"
<1> TAKE t \in Structures \cup Datasets
<1> TAKE v
<1> HAVE IsValue(t, v)
<1> DEFINE n == Len(Components(t))
           m == sv_length(t)
           parts == SvValueParts(t, v, m)
<1>1. /\ n \in Nat /\ DOMAIN Components(t) = 1 .. n
      /\ \A i \in 1 .. n : Components(t)[i] \in Plain \cup Inner
  BY TableOfStructures
<1>2. \A i \in 1 .. n : IsPart(Components(t)[i], v[i])
  BY <1>1, ComponentValues
<1>3. ASSUME NEW i \in 1 .. n
      PROVE  /\ parts[i] \in Seq(Byte)
             /\ \A before : \A tail \in Seq(Byte) :
                  sv_decode_part(Components(t)[i], parts[i] \o tail, before)
                    = Decoded(Len(parts[i]), PartArrived(Components(t)[i], v[i], before))
  <2> DEFINE s == Components(t)[i]
             u == v[i]
             o == Offset(t, i)
             l == sv_length_part(s)
  <2>1. s \in Plain \cup Inner /\ IsPart(s, u)
    BY <1>1, <1>2
  <2>2. o \in Nat /\ l \in Nat /\ o + l <= m /\ m \in Nat
    BY <1>1, SvLengths
  <2>3. parts[i] = sv_encode_part(s, u, Rest(Filled(m), o))
    BY <1>1 DEF SvValueParts
  <2> HIDE DEF s, u, o, l, parts, m
  <2>4. o \in 0 .. m /\ m - o \in Nat /\ m - o >= l
    BY <2>2
  <2>5. Rest(Filled(m), o) = Filled(m - o)
    BY <2>2, <2>4, FilledBytes
  <2> DEFINE k == m - o
  <2>6. k \in Nat /\ k >= sv_length_part(s)
    BY <2>4 DEF l
  <2>7. parts[i] = sv_encode_part(s, u, Filled(k))
    BY <2>3, <2>5
  <2> HIDE DEF k
  <2>8. /\ sv_encode_part(s, u, Filled(k)) \in Seq(Byte)
        /\ \A before : \A tail \in Seq(Byte) :
             sv_decode_part(s, sv_encode_part(s, u, Filled(k)) \o tail, before)
               = Decoded(Len(sv_encode_part(s, u, Filled(k))), PartArrived(s, u, before))
    BY <2>1, <2>6, SvPartRead, Zenon
  <2>9. /\ parts[i] \in Seq(Byte)
        /\ \A before : \A tail \in Seq(Byte) :
             sv_decode_part(s, parts[i] \o tail, before)
               = Decoded(Len(parts[i]), PartArrived(s, u, before))
    BY <2>7, <2>8
  <2> QED  BY <2>9 DEF s, u
<1>4. parts \in [1 .. n -> Seq(Byte)]
  <2> DEFINE Written(i) ==
               sv_encode_part(Components(t)[i], v[i], Rest(Filled(m), Offset(t, i)))
  <2>1. parts = [i \in 1 .. n |-> Written(i)]
    BY <1>1 DEF SvValueParts
  <2> HIDE DEF Written, parts, n
  <2>2. \A i \in 1 .. n : parts[i] = Written(i)
    BY <2>1
  <2>3. \A i \in 1 .. n : Written(i) \in Seq(Byte)
    BY <1>3, <2>2
  <2> QED  BY <2>1, <2>3
<1>5. ASSUME NEW before
      PROVE  ReadEach(n, Readers(sv_decode_part, t, before), parts, PartsArrived(t, v, before))
  <2> DEFINE readers == Readers(sv_decode_part, t, before)
             arrived == PartsArrived(t, v, before)
  <2>1. DOMAIN readers = 1 .. n /\ Len(readers) = n
    BY <1>1 DEF Readers
  <2>2. ASSUME NEW i \in 1 .. n, NEW tail \in Seq(Byte)
        PROVE  readers[i][parts[i] \o tail] = Decoded(Len(parts[i]), arrived[i])
    <3> DEFINE s == Components(t)[i]
               w == before[i]
               p == parts[i]
    <3>1. readers[i] = [buf \in Seq(Byte) |-> sv_decode_part(s, buf, w)]
      BY <1>1 DEF Readers
    <3>2. arrived[i] = PartArrived(s, v[i], w)
      BY <1>1 DEF PartsArrived
    <3>3. /\ p \in Seq(Byte)
          /\ sv_decode_part(s, p \o tail, w) = Decoded(Len(p), PartArrived(s, v[i], w))
      BY <1>3, Zenon
    <3> HIDE DEF s, w, p, readers, arrived, parts
    <3>4. p \o tail \in Seq(Byte)
      BY <3>3, Cat
    <3>5. readers[i][p \o tail] = sv_decode_part(s, p \o tail, w)
      BY <3>1, <3>4
    <3>6. readers[i][p \o tail] = Decoded(Len(p), arrived[i])
      BY <3>2, <3>3, <3>5, Zenon
    <3> QED  BY <3>6 DEF p
  <2> HIDE DEF readers, arrived, parts, n
  <2>3. ReadEach(n, readers, parts, arrived)
    BY <2>1, <2>2 DEF ReadEach
  <2> QED  BY <2>3 DEF readers, arrived
<1> QED  BY <1>4, <1>5

(* A value is read as it was written into a buffer that is just large       *)
(* enough.                                                                  *)
LEMMA SvValueRead ==
  stale \in Byte /\ coding = "SV" =>
    \A t \in Types : \A v, before : \A tail \in Seq(Byte) : IsValue(t, v) =>
      LET written == sv_encode(t, v, Filled(sv_length(t))) IN
        sv_decode(t, written \o tail, before)
          = Decoded(Len(written), ValueArrived(t, v, before))
<1> HAVE stale \in Byte /\ coding = "SV"
<1> TAKE t \in Types
<1> TAKE v, before
<1> TAKE tail \in Seq(Byte)
<1> HAVE IsValue(t, v)
<1> DEFINE m == sv_length(t)
           written == sv_encode(t, v, Filled(m))
<1>1. CASE t \in BasicTypes
  <2>2. /\ v \in Octets(SV_GET_LENGTH(t)) /\ m = SV_GET_LENGTH(t)
        /\ SV_GET_LENGTH(t) \in Nat /\ m >= SV_GET_LENGTH(t) /\ m \in Nat
    BY <1>1 DEF IsValue, IsBasic, sv_length, SV_GET_LENGTH
  <2> DEFINE p == ENCODE_CTYPE(t, v, Filled(m))
  <2> HIDE DEF m
  <2>3. DECODE_CTYPE(t, p \o tail) = Decoded(Len(p), Arrived(t, v, before))
    BY <1>1, <2>2, BasicInBuffer, Zenon
  <2>4. written = p
    BY <1>1 DEF sv_encode
  <2>5. ValueArrived(t, v, before) = Arrived(t, v, before)
    BY <1>1 DEF ValueArrived
  <2>6. \A buf : sv_decode(t, buf, before) = DECODE_CTYPE(t, buf)
    BY <1>1 DEF sv_decode, SvDecodeBasic
  <2> HIDE DEF p, written
  <2>7. sv_decode(t, written \o tail, before) = Decoded(Len(written), ValueArrived(t, v, before))
    BY <2>3, <2>4, <2>5, <2>6
  <2> QED  BY <2>7 DEF written, m
<1>2. CASE t \in Structures \cup Datasets
  <2> DEFINE n == Len(Components(t))
             parts == SvValueParts(t, v, m)
             c == FlattenSeq(parts)
             readers == Readers(sv_decode_part, t, before)
             arrived == PartsArrived(t, v, before)
  <2>1. n \in Nat /\ DOMAIN Components(t) = 1 .. n /\ t \notin BasicTypes
    BY <1>2, TableOfStructures
  <2>2. parts \in [1 .. n -> Seq(Byte)] /\ ReadEach(n, readers, parts, arrived)
    BY <1>2, SvStructureRead, Zenon
  <2>3. written = c
    <3>1. written = SvEncoded(sv_encode_part, t, v, Filled(m))
      BY <2>1 DEF sv_encode
    <3> HIDE DEF m, written
    <3> QED  BY <3>1, Zenon DEF SvEncoded, SvValueParts
  <2>4. \A buf : sv_decode(t, buf, before) = InTurn(readers, buf)
    BY <2>1 DEF sv_decode
  <2>5. ValueArrived(t, v, before) = Gathered(n, arrived)
    BY <2>1 DEF ValueArrived, AllArrived, PartsArrived, Gathered
  <2> HIDE DEF n, parts, readers, arrived
  <2>7. InTurn(readers, c \o tail) = Decoded(Len(c), Gathered(n, arrived))
    BY <2>1, <2>2, InTurnReads, Zenon
  <2> HIDE DEF c, written
  <2>8. sv_decode(t, written \o tail, before) = Decoded(Len(written), ValueArrived(t, v, before))
    BY <2>3, <2>4, <2>5, <2>7
  <2> QED  BY <2>8 DEF written, m
<1> QED  BY <1>1, <1>2 DEF Types

--------------------------------------------------------------------------------
(* A value or a packet on its way. *)

\* What is written of the value, and what is read from it.
Writing ==
  IF coding = "GSE" THEN ber_encode(type, sent)
  ELSE sv_encode(type, sent, Filled(sv_length(type)))
Reading ==
  LET buf == Writing \o Filled(8) IN
    IF coding = "GSE" THEN ber_decode(type, buf, old) ELSE sv_decode(type, buf, old)

\* A value on its way has been written or not, and read or not.
DataInv ==
  /\ coding \in {"GSE", "SV"} /\ type \in Types /\ stale \in Byte
  /\ IsValue(type, sent) /\ IsValue(type, old)
  /\ coded \in {<<>>, Writing}
  /\ out = Decoded(0, old) \/ (coded = Writing /\ out = Reading)

\* There is a value on its way, or a packet.
OnTheWay ==
  \/ call = "value" /\ DataInv /\ PacketIdle
  \/ call = "packet" /\ WalkInv

\* That is so at the beginning.
LEMMA OnTheWayInit ==
  Init => OnTheWay
<1> SUFFICES ASSUME Init
             PROVE  OnTheWay
  OBVIOUS
<1>1. CASE DataInit /\ PacketIdle
  <2>1. type \in Types /\ sent \in Values[type] /\ old \in Targets[type] /\ stale \in Stale
    BY <1>1 DEF DataInit
  <2>2. IsValue(type, sent) /\ IsValue(type, old) /\ stale \in Byte
    BY <2>1, DataAssumption
  <2> QED  BY <1>1, <2>2 DEF DataInit, DataInv, OnTheWay
<1>2. CASE PacketInit /\ DataIdle
  BY <1>2, WalkInvInit DEF DataIdle, OnTheWay
<1> QED  BY <1>1, <1>2 DEF Init

\* It stays so.
LEMMA OnTheWayStep ==
  OnTheWay /\ [Next]_vars => OnTheWay'
<1> SUFFICES ASSUME OnTheWay, [Next]_vars
             PROVE  OnTheWay'
  OBVIOUS
<1>1. CASE DataNext /\ UNCHANGED packetVars
  <2>1. /\ call = "value" /\ DataInv /\ PacketIdle
        /\ UNCHANGED <<call, coding, type, sent, old, stale>>
    BY <1>1 DEF DataNext, EncodeValue, DecodeValue, OnTheWay
  <2>2. PacketIdle'
    BY <1>1, <2>1 DEF PacketIdle, packetVars
  <2>3. Writing' = Writing /\ Reading' = Reading
    BY <2>1 DEF Writing, Reading, Filled
  <2>4. /\ coded' \in {<<>>, Writing}
        /\ out' = Decoded(0, old) \/ (coded' = Writing /\ out' = Reading)
    <3>1. CASE EncodeValue
      BY <2>1, <3>1 DEF EncodeValue, DataInv, Writing
    <3>2. CASE DecodeValue
      <4>1. coded = Writing
        BY <2>1, <3>2 DEF DecodeValue, DataInv
      <4>2. out' = Reading /\ coded' = coded
        BY <3>2, <4>1, Zenon DEF DecodeValue, Reading
      <4> QED  BY <4>1, <4>2
    <3> QED  BY <1>1, <3>1, <3>2 DEF DataNext
  <2>5. DataInv'
    BY <2>1, <2>3, <2>4, Zenon DEF DataInv
  <2> QED  BY <2>1, <2>2, <2>5 DEF OnTheWay
<1>2. CASE PacketNext /\ UNCHANGED dataVars
  <2>1. at # "end"
    BY <1>2 DEF PacketNext, EncodePacket, gse_sv_packet_filter, gseDecodePDU, TakeGocbRef,
       TakeTimeAllowedToLive, EnterSequence, TakeT, TakeStNum, TakeSqNum, Skip, TakeAllData,
       Take
  <2>2. call = "packet" /\ WalkInv
    BY <2>1 DEF OnTheWay, PacketIdle
  <2>3. WalkInv' /\ call' = call
    BY <1>2, <2>2, WalkInvStep DEF dataVars
  <2> QED  BY <2>2, <2>3 DEF OnTheWay
<1>3. CASE UNCHANGED vars
  <2>1. /\ UNCHANGED <<call, coding, type, sent, old, stale, coded, out>>
        /\ UNCHANGED packetVars
    BY <1>3 DEF vars, dataVars
  <2>2. Writing' = Writing /\ Reading' = Reading
    BY <2>1 DEF Writing, Reading, Filled
  <2>3. DataInv => DataInv'
    BY <2>1, <2>2, Zenon DEF DataInv
  <2>4. PacketIdle => PacketIdle'
    BY <2>1 DEF PacketIdle, packetVars
  <2>5. WalkInv => WalkInv'
    BY <2>1, WalkInvStep
  <2> QED  BY <2>1, <2>3, <2>4, <2>5 DEF OnTheWay
<1> QED  BY <1>1, <1>2, <1>3 DEF Next

\* So it is always so.
LEMMA OnTheWayAlways ==
  Spec => []OnTheWay
BY OnTheWayInit, OnTheWayStep, PTL DEF Spec

(* Every value of every type arrives through either coding as ArrivedByBER  *)
(* and ArrivedPlain say of its parts: for all values and whatever was in    *)
(* the buffer and in the value that it is decoded over.                     *)
THEOREM ValuesArrive ==
  Spec => []DataDecodes
<1>1. ASSUME DataInv
      PROVE  DataDecodes
  <2> SUFFICES ASSUME out.used > 0
               PROVE  /\ out.value = ValueArrived(type, sent, old)
                      /\ coding = "SV" \/ type \notin {"ENUM", "DBPOS"} => out.used = Len(coded)
    BY DEF DataDecodes
  <2>1. /\ coding \in {"GSE", "SV"} /\ type \in Types /\ stale \in Byte
        /\ IsValue(type, sent) /\ IsValue(type, old)
    BY <1>1 DEF DataInv
  <2>2. out = Reading /\ coded = Writing
    <3>1. out # Decoded(0, old)
      BY DEF Decoded
    <3> QED  BY <1>1, <3>1, Zenon DEF DataInv
  <2>4. Filled(8) \in Seq(Byte)
    BY <2>1, FilledBytes
  <2> DEFINE w == Writing
             v == ValueArrived(type, sent, old)
  <2>5. CASE coding = "SV"
    <3>1. Reading = Decoded(Len(w), v)
      <4>1. /\ w = sv_encode(type, sent, Filled(sv_length(type)))
            /\ Reading = sv_decode(type, w \o Filled(8), old)
        BY <2>5 DEF Writing, Reading
      <4> HIDE DEF w
      <4> QED  BY <2>1, <2>4, <2>5, <4>1, SvValueRead, Zenon
    <3> HIDE DEF w
    <3> QED  BY <2>2, <3>1 DEF Decoded, w
  <2>6. CASE coding = "GSE" /\ type \notin {"ENUM", "DBPOS"}
    <3>1. Reading = Decoded(Len(w), v)
      <4>1. w = ber_encode(type, sent) /\ Reading = ber_decode(type, w \o Filled(8), old)
        BY <2>6 DEF Writing, Reading
      <4>2. type \in Types \ {"ENUM", "DBPOS"} /\ coding = "GSE"
        BY <2>1, <2>6
      <4> HIDE DEF w
      <4> QED  BY <2>1, <2>4, <4>1, <4>2, ValueRead, Zenon
    <3> HIDE DEF w
    <3> QED  BY <2>2, <3>1 DEF Decoded, w
  <2>7. CASE coding = "GSE" /\ type \in {"ENUM", "DBPOS"}
    <3>1. type \in BasicTypes
      BY <2>7 DEF BasicTypes, Signeds
    <3>2. /\ sent \in Octets(SV_GET_LENGTH(type)) /\ old \in Octets(SV_GET_LENGTH(type))
      BY <2>1, <3>1 DEF IsValue, IsBasic
    <3>3. v = ArrivedByBER(type, sent, old)
      BY <2>7, <3>1 DEF ValueArrived, Arrived
    <3>4. Reading = BER_DECODE(type, BER_ENCODE(type, sent) \o Filled(8), old)
      BY <2>7, <3>1 DEF Writing, Reading, ber_encode, ber_decode
    <3>5. Reading.value = v
      BY <2>4, <3>1, <3>2, <3>3, <3>4, BERReturns
    <3> QED  BY <2>2, <2>7, <3>5
  <2> QED  BY <2>1, <2>5, <2>6, <2>7
<1>2. OnTheWay => DataDecodes
  <2>1. call = "packet" => DataDecodes
    BY DEF DataDecodes
  <2> QED  BY <1>1, <2>1 DEF OnTheWay
<1> QED  BY <1>2, OnTheWayAlways, PTL

(* Every length that is announced is that of what is written: of a value of *)
(* any type, through all levels of its structure; of a packet, but for what *)
(* its encoder counts twice.                                                *)
THEOREM LengthsHold ==
  Spec => []LengthsAnnounced
<1>1. ASSUME DataInv
      PROVE  DataLengths
  <2> SUFFICES ASSUME coding = "GSE", coded # <<>>
               PROVE  IF type \in Datasets THEN FitInto(coded, Components(type), PartFits)
                                            ELSE FitInto(coded, <<type>>, Fits)
    BY DEF DataLengths
  <2>1. type \in Types /\ IsValue(type, sent) /\ coded = ber_encode(type, sent)
    BY <1>1 DEF DataInv, Writing
  <2> QED  BY <2>1, ValueFits
<1>2. PacketIdle => PacketLengths
  BY DEF PacketIdle, PacketLengths
<1>3. call = "packet" => DataLengths
  BY DEF DataLengths
<1>4. OnTheWay => LengthsAnnounced
  BY <1>1, <1>2, <1>3, WalkLengths DEF OnTheWay, LengthsAnnounced
<1> QED  BY <1>4, OnTheWayAlways, PTL

(* The decoder finds in the packet what the encoder put there, for every    *)
(* control block and whatever lies behind the packet: it enters the         *)
(* sequence, goes from each of the eleven elements to the next and stops at *)
(* the last byte; a frame with another destination it leaves alone.         *)
THEOREM GooseWalk ==
  Spec => []GooseDecodes
<1>1. PacketIdle => GooseDecodes
  <2> SUFFICES ASSUME PacketIdle
               PROVE  GooseDecodes
    OBVIOUS
  <2>1. at = "end" /\ locals = NothingRead /\ gse = NoPacket
    BY DEF PacketIdle
  <2>2. ~ IsGoose
    <3> DEFINE a == Zeros(6)
               b == SubSeq(a, 1, 4)
    <3>1. gse.destMACAddress = a
      BY <2>1 DEF NoPacket
    <3>2. b[1] = 0
      BY DEF Zeros
    <3> HIDE DEF b
    <3>3. IsGoose => b = <<1, 12, 205, 1>>
      BY <3>1, Zenon DEF IsGoose, b
    <3> QED  BY <3>2, <3>3
  <2> QED  BY <2>1, <2>2 DEF GooseDecodes
<1>2. OnTheWay => GooseDecodes
  BY <1>1, WalkDecodes DEF OnTheWay
<1> QED  BY <1>2, OnTheWayAlways, PTL


--------------------------------------------------------------------------------
(* The numbers of Sampled Values. *)

(* The numbers that a byte, half a word and a word have, for each Flag.      *)
LEMMA FlagIs ==
  \/ Flag = 16 /\ ByteBase = 32 /\ Half = 524288 /\ WordBase = 1048576
  \/ Flag = 32 /\ ByteBase = 64 /\ Half = 8388608 /\ WordBase = 16777216
  \/ Flag = 64 /\ ByteBase = 128 /\ Half = 134217728 /\ WordBase = 268435456
  \/ Flag = 128 /\ ByteBase = 256 /\ Half = 2147483648 /\ WordBase = 4294967296
<1>1. Flag \in {16, 32, 64, 128}
  BY SvPacketAssumption
<1> QED  BY <1>1 DEF ByteBase, Half, WordBase

LEMMA SignedIs ==
  \A v \in Int :
    /\ Signed(v) \in -Half .. Half - 1
    /\ v \in -Half .. Half - 1 => Signed(v) = v /\ Signed(v % WordBase) = v
                                  /\ v % WordBase \in 0 .. WordBase - 1
<1> TAKE v \in Int
<1> QED  BY FlagIs DEF Signed

LEMMA ZigZagComesBack ==
  \A v \in -Half .. Half - 1 :
    ZigZag(v) \in 0 .. WordBase - 1 /\ UnZigZag(ZigZag(v)) = v
<1> TAKE v \in -Half .. Half - 1
<1>1. Half \in Int /\ v \in Int /\ WordBase = 2 * Half
  BY FlagIs
<1>2. CASE v >= 0
  <2>1. ZigZag(v) = 2 * v /\ (2 * v) % 2 = 0 /\ (2 * v) \div 2 = v
    BY <1>1, <1>2 DEF ZigZag
  <2> QED  BY <1>1, <1>2, <2>1 DEF UnZigZag
<1>3. CASE ~ (v >= 0)
  <2>1. /\ ZigZag(v) = -2 * v - 1 /\ (-2 * v - 1) % 2 = 1
        /\ -((-2 * v - 1) \div 2) - 1 = v
    BY <1>1, <1>3 DEF ZigZag
  <2> QED  BY <1>1, <1>3, <2>1 DEF UnZigZag
<1> QED  BY <1>2, <1>3

(* Four bytes, the highest first, are the number they are taken from.        *)
Word(b) == ((b[1] * ByteBase + b[2]) * ByteBase + b[3]) * ByteBase + b[4]

LEMMA BigEndianIs ==
  \A n \in 0 .. WordBase - 1 :
    /\ \A i \in 1 .. 4 : BigEndian(n)[i] \in 0 .. ByteBase - 1
    /\ Word(BigEndian(n)) = n
<1> TAKE n \in 0 .. WordBase - 1
<1> DEFINE IsByte(f) == f = [i \in 0 .. 4 |-> IF i = 0 THEN n ELSE f[i - 1] \div ByteBase]
           byte == CHOOSE f : IsByte(f)
           b1 == n \div ByteBase
           b2 == b1 \div ByteBase
           b3 == b2 \div ByteBase
           b4 == b3 \div ByteBase
           g == [i \in 0 .. 4 |-> IF i = 0 THEN n ELSE IF i = 1 THEN b1
                                  ELSE IF i = 2 THEN b2 ELSE IF i = 3 THEN b3 ELSE b4]
<1>1. IsByte(g)
  <2> HIDE DEF b1, b2, b3, b4
  <2>1. \A i \in 0 .. 4 : g[i] = IF i = 0 THEN n ELSE g[i - 1] \div ByteBase
    <3>1. g[0] = n /\ g[1] = b1 /\ g[2] = b2 /\ g[3] = b3 /\ g[4] = b4
      OBVIOUS
    <3> HIDE DEF g
    <3>2. g[1] = g[0] \div ByteBase /\ g[2] = g[1] \div ByteBase
      BY <3>1 DEF b1, b2
    <3>3. g[3] = g[2] \div ByteBase /\ g[4] = g[3] \div ByteBase
      BY <3>1 DEF b3, b4
    <3> QED  BY <3>1, <3>2, <3>3
  <2> QED  BY <2>1
<1>2. IsByte(byte)
  <2> HIDE DEF IsByte
  <2> QED  BY <1>1
<1>3. byte[0] = n /\ byte[1] = b1 /\ byte[2] = b2 /\ byte[3] = b3
  <2> HIDE DEF byte
  <2>1. byte[0] = n
    BY <1>2
  <2>2. byte[1] = b1
    BY <1>2, <2>1
  <2>3. byte[2] = b2
    BY <1>2, <2>2
  <2> QED  BY <1>2, <2>1, <2>2, <2>3
<1>4. BigEndian(n) = [i \in 1 .. 4 |-> byte[4 - i] % ByteBase]
  BY DEF BigEndian
<1> HIDE DEF byte, g, IsByte
<1>5. /\ BigEndian(n)[1] = b3 % ByteBase /\ BigEndian(n)[2] = b2 % ByteBase
      /\ BigEndian(n)[3] = b1 % ByteBase /\ BigEndian(n)[4] = n % ByteBase
  BY <1>3, <1>4
<1>6. b3 \in 0 .. ByteBase - 1 /\ b2 \in Nat /\ b1 \in Nat /\ ByteBase \in Nat
  BY FlagIs
<1>7. /\ n = b1 * ByteBase + (n % ByteBase) /\ b1 = b2 * ByteBase + (b1 % ByteBase)
      /\ b2 = b3 * ByteBase + (b2 % ByteBase) /\ b3 % ByteBase = b3
      /\ n % ByteBase \in 0 .. ByteBase - 1 /\ b1 % ByteBase \in 0 .. ByteBase - 1
      /\ b2 % ByteBase \in 0 .. ByteBase - 1
  BY <1>6, FlagIs
<1> HIDE DEF b1, b2, b3
<1> QED  BY <1>5, <1>6, <1>7 DEF Word

(* What the loop of encode_uint32_t goes through, and the bytes it leaves.   *)
Steps5(s, n) ==
  /\ s[0] = n
  /\ \A i \in 1 .. 5 : s[i] = s[i - 1] \div Flag
  /\ \A i \in 0 .. 5 : s[i] \in Nat

Grouped(b, s, t) ==
  /\ t \in 0 .. 4
  /\ s[t] < Flag
  /\ \A i \in 0 .. t - 1 : s[i] >= Flag
  /\ b \in Seq(Byte)
  /\ Len(b) = t + 1
  /\ \A i \in 1 .. t + 1 : b[i] = (s[i - 1] % Flag) + (IF i <= t THEN Flag ELSE 0)

LEMMA ShiftedIs ==
  \A n \in 0 .. WordBase - 1 : Steps5(Shifted(n), n) /\ Shifted(n)[4] < Flag
<1> TAKE n \in 0 .. WordBase - 1
<1> DEFINE IsShifted(f) == f = [i \in 0 .. 5 |-> IF i = 0 THEN n ELSE f[i - 1] \div Flag]
           value == CHOOSE f : IsShifted(f)
           b1 == n \div Flag
           b2 == b1 \div Flag
           b3 == b2 \div Flag
           b4 == b3 \div Flag
           b5 == b4 \div Flag
           g == [i \in 0 .. 5 |-> IF i = 0 THEN n ELSE IF i = 1 THEN b1
                                  ELSE IF i = 2 THEN b2 ELSE IF i = 3 THEN b3
                                  ELSE IF i = 4 THEN b4 ELSE b5]
<1>1. IsShifted(g)
  <2> HIDE DEF b1, b2, b3, b4, b5
  <2>1. \A i \in 0 .. 5 : g[i] = IF i = 0 THEN n ELSE g[i - 1] \div Flag
    <3>1. g[0] = n /\ g[1] = b1 /\ g[2] = b2 /\ g[3] = b3 /\ g[4] = b4 /\ g[5] = b5
      OBVIOUS
    <3> HIDE DEF g
    <3>2. g[1] = g[0] \div Flag /\ g[2] = g[1] \div Flag
      BY <3>1 DEF b1, b2
    <3>3. g[3] = g[2] \div Flag /\ g[4] = g[3] \div Flag /\ g[5] = g[4] \div Flag
      BY <3>1 DEF b3, b4, b5
    <3> QED  BY <3>1, <3>2, <3>3
  <2> QED  BY <2>1
<1>2. IsShifted(value)
  <2> HIDE DEF IsShifted
  <2> QED  BY <1>1
<1>3. Shifted(n) = value
  BY DEF Shifted, MaxGroups
<1> HIDE DEF value
<1>4. value[0] = n /\ \A i \in 1 .. 5 : value[i] = value[i - 1] \div Flag
  BY <1>2
<1> HIDE DEF IsShifted, g
<1>5. /\ value[1] = b1 /\ value[2] = b2 /\ value[3] = b3 /\ value[4] = b4 /\ value[5] = b5
  <2>1. value[1] = b1
    BY <1>4
  <2>2. value[2] = b2
    BY <1>4, <2>1
  <2>3. value[3] = b3
    BY <1>4, <2>2
  <2>4. value[4] = b4
    BY <1>4, <2>3
  <2> QED  BY <1>4, <2>1, <2>2, <2>3, <2>4
<1>6. /\ n \in Nat /\ b1 \in Nat /\ b2 \in Nat /\ b3 \in Nat /\ b4 \in Nat /\ b5 \in Nat
      /\ b4 < Flag
  BY FlagIs
<1> HIDE DEF b1, b2, b3, b4, b5
<1>7. \A i \in 0 .. 5 : value[i] \in Nat
  BY <1>4, <1>5, <1>6
<1> QED  BY <1>3, <1>4, <1>5, <1>6, <1>7 DEF Steps5

LEMMA GroupsAre ==
  \A n \in 0 .. WordBase - 1 : Grouped(Groups(n), Shifted(n), Turns(n))
<1> TAKE n \in 0 .. WordBase - 1
<1> DEFINE s == Shifted(n)
           t == Turns(n)
           Stops(i) == s[i] < Flag /\ \A j \in 0 .. i - 1 : s[j] >= Flag
<1>1. Steps5(s, n) /\ s[4] < Flag
  BY ShiftedIs
<1>2. Flag \in Nat /\ Flag <= 128 /\ Flag > 0
  BY FlagIs
<1>3. t = CHOOSE i \in 0 .. 4 : Stops(i)
  BY DEF Turns, MaxGroups
<1>4. Groups(n) = [i \in 1 .. t + 1 |-> (s[i - 1] % Flag) + (IF i <= t THEN Flag ELSE 0)]
  BY DEF Groups
<1> HIDE DEF s, t
<1>5. \E i \in 0 .. 4 : Stops(i)
  <2>1. \A i \in 0 .. 4 : s[i] \in Nat
    BY <1>1 DEF Steps5
  <2>2. PICK i \in {j \in 0 .. 4 : s[j] < Flag} : \A j \in {j \in 0 .. 4 : s[j] < Flag} : i <= j
    <3>1. 4 \in {j \in 0 .. 4 : s[j] < Flag} /\ {j \in 0 .. 4 : s[j] < Flag} \in SUBSET Nat
      BY <1>1
    <3> QED  BY <3>1, LeastNumber
  <2>3. ASSUME NEW j \in 0 .. i - 1
        PROVE  s[j] >= Flag
    <3>1. j \in 0 .. 4 /\ ~ (i <= j)
      BY <2>2
    <3>2. ~ (s[j] < Flag)
      BY <2>2, <3>1
    <3> QED  BY <1>2, <2>1, <3>1, <3>2
  <2> QED  BY <2>2, <2>3
<1>6. t \in 0 .. 4 /\ Stops(t)
  <2> HIDE DEF Stops
  <2> QED  BY <1>3, <1>5
<1>7. \A i \in 1 .. t + 1 : (s[i - 1] % Flag) + (IF i <= t THEN Flag ELSE 0) \in Byte
  <2> TAKE i \in 1 .. t + 1
  <2>1. s[i - 1] \in Nat
    BY <1>1, <1>6 DEF Steps5
  <2>2. s[i - 1] % Flag \in 0 .. Flag - 1
    BY <2>1, FlagIs
  <2> QED  BY <1>2, <2>2 DEF Byte
<1>8. Groups(n) \in Seq(Byte) /\ Len(Groups(n)) = t + 1
  <2>1. t + 1 \in Nat
    BY <1>6
  <2> QED  BY <1>4, <1>7, <2>1
<1>9. \A i \in 1 .. t + 1 : Groups(n)[i] = (s[i - 1] % Flag) + (IF i <= t THEN Flag ELSE 0)
  BY <1>4
<1> QED  BY <1>6, <1>8, <1>9 DEF Grouped, s, t

--------------------------------------------------------------------------------
(* What lies in the packet. *)

Lies(p, s) == \A i \in 1 .. Len(s) : ByteAt(p + (i - 1)) = s[i]

LEMMA LiesApart ==
  \A p \in Nat, a, b \in Seq(Byte) :
    Lies(p, a \o b) => Lies(p, a) /\ Lies(p + Len(a), b)
<1> TAKE p \in Nat, a, b \in Seq(Byte)
<1> HAVE Lies(p, a \o b)
<1> DEFINE m == Len(a)
           n == Len(b)
           s == a \o b
<1>1. m \in Nat /\ n \in Nat
  OBVIOUS
<1>2. /\ Len(s) = m + n
      /\ \A i \in 1 .. m : s[i] = a[i]
      /\ \A i \in 1 .. n : s[m + i] = b[i]
  BY Cat, CatAt
<1>3. \A i \in 1 .. m + n : ByteAt(p + (i - 1)) = s[i]
  BY <1>2 DEF Lies
<1> HIDE DEF s, m, n
<1>4. \A i \in 1 .. m : ByteAt(p + (i - 1)) = a[i]
  BY <1>1, <1>2, <1>3
<1>5. \A i \in 1 .. n : ByteAt((p + m) + (i - 1)) = b[i]
  <2> TAKE i \in 1 .. n
  <2>1. m + i \in 1 .. m + n /\ p + ((m + i) - 1) = (p + m) + (i - 1)
    BY <1>1
  <2>2. ByteAt(p + ((m + i) - 1)) = s[m + i]
    BY <1>3, <2>1
  <2> QED  BY <1>2, <2>1, <2>2
<1> QED  BY <1>4, <1>5 DEF Lies, m, n

(* Of sequences put together, each lies behind those before it.              *)
LEMMA LiesJoined ==
  \A n \in Nat : \A parts \in [1 .. n -> Seq(Byte)] : \A f : \A p \in Nat :
    Joins(f, n, parts) /\ Lies(p, f[n]) =>
      \A i \in 1 .. n : Lies(p + Len(f[i - 1]), parts[i])
<1> TAKE n \in Nat
<1> TAKE parts \in [1 .. n -> Seq(Byte)]
<1> TAKE f
<1> TAKE p \in Nat
<1> HAVE Joins(f, n, parts) /\ Lies(p, f[n])
<1> TAKE i \in 1 .. n
<1>1. i \in 0 .. n /\ i - 1 \in 0 .. n
  OBVIOUS
<1>2. f[i] \in Seq(Byte) /\ f[i - 1] \in Seq(Byte) /\ parts[i] \in Seq(Byte)
      /\ f[i] = f[i - 1] \o parts[i]
  BY <1>1 DEF Joins
<1>3. PICK r \in Seq(Byte) : f[n] = f[i] \o r
  <2>1. Begins(f, n)
    BY JoinedBefore, Zenon
  <2> QED  BY <1>1, <2>1 DEF Begins
<1>4. Lies(p, f[i])
  <2>1. Lies(p, f[i] \o r)
    BY <1>3
  <2> QED  BY <1>2, <2>1, LiesApart, Zenon
<1> QED  BY <1>2, <1>4, LiesApart

(* What lies there as the first and the last of those put together.          *)
LEMMA GroupsRead ==
  \A n \in 0 .. WordBase - 1, p \in Nat :
    Lies(p, Groups(n)) =>
      /\ NumberOfBytes(p) = Len(Groups(n))
      /\ n < Flag * Flag * Flag * Flag => Ungrouped(p) = n
<1> TAKE n \in 0 .. WordBase - 1, p \in Nat
<1> HAVE Lies(p, Groups(n))
<1> DEFINE b == Groups(n)
           s == Shifted(n)
           t == Turns(n)
           last == {i \in 0 .. 3 : ByteAt(p + i) < Flag}
<1>1. Grouped(b, s, t) /\ Steps5(s, n)
  BY GroupsAre, ShiftedIs
<1> HIDE DEF b, s, t
<1>2. /\ t \in 0 .. 4 /\ Len(b) = t + 1
      /\ s[t] < Flag /\ \A i \in 0 .. t - 1 : s[i] >= Flag
      /\ \A i \in 1 .. t + 1 : b[i] = (s[i - 1] % Flag) + (IF i <= t THEN Flag ELSE 0)
  BY <1>1 DEF Grouped
<1>3. /\ s[0] = n /\ \A i \in 1 .. 5 : s[i] = s[i - 1] \div Flag
      /\ \A i \in 0 .. 5 : s[i] \in Nat
  BY <1>1 DEF Steps5
<1>4. \A i \in 0 .. t : ByteAt(p + i) = (s[i] % Flag) + (IF i < t THEN Flag ELSE 0)
  <2> TAKE i \in 0 .. t
  <2>1. /\ i + 1 \in 1 .. t + 1 /\ i + 1 \in 1 .. Len(b) /\ (i + 1) - 1 = i
        /\ (i + 1 <= t <=> i < t)
    BY <1>2
  <2>2. ByteAt(p + i) = b[i + 1]
    BY <2>1 DEF Lies, b
  <2> QED  BY <1>2, <2>1, <2>2
<1>5. Flag \in Nat /\ Flag > 0
  BY FlagIs
<1>6. \A i \in 0 .. 5 : /\ s[i] % Flag \in 0 .. Flag - 1
                        /\ ((s[i] % Flag) + Flag) % Flag = s[i] % Flag
                        /\ (s[i] % Flag) % Flag = s[i] % Flag
                        /\ s[i] < Flag => s[i] % Flag = s[i]
  <2> TAKE i \in 0 .. 5
  <2> DEFINE x == s[i]
  <2>1. x \in Nat
    BY <1>3
  <2> HIDE DEF x
  <2>2. /\ x % Flag \in 0 .. Flag - 1
        /\ ((x % Flag) + Flag) % Flag = x % Flag
        /\ (x % Flag) % Flag = x % Flag
        /\ x < Flag => x % Flag = x
    BY <2>1, FlagIs
  <2> QED  BY <2>2 DEF x
<1>7. \A i \in 0 .. t : ByteAt(p + i) \in Nat /\ (ByteAt(p + i) < Flag <=> i = t)
  <2> TAKE i \in 0 .. t
  <2> DEFINE x == s[i] % Flag
  <2>1. i \in 0 .. 5 /\ t \in 0 .. 5
    BY <1>2
  <2>2. x \in 0 .. Flag - 1
    BY <1>6, <2>1
  <2>3. ByteAt(p + i) = x + (IF i < t THEN Flag ELSE 0)
    BY <1>4
  <2> HIDE DEF x
  <2> QED  BY <1>2, <1>5, <2>2, <2>3
<1>8. NumberOfBytes(p) = t + 1
  <2>1. NumberOfBytes(p) = 1 + (IF last = {} THEN 4 ELSE Min(last))
    BY DEF NumberOfBytes, MaxBytes
  <2>2. CASE t = 4
    <3>1. \A i \in 0 .. 3 : ~ (ByteAt(p + i) < Flag)
      BY <1>7, <2>2
    <3>2. last = {}
      BY <3>1
    <3> QED  BY <2>1, <2>2, <3>2
  <2>3. CASE t # 4
    <3>1. t \in 0 .. 3 /\ t \in 0 .. t
      BY <1>2, <2>3
    <3>2. t \in last
      BY <1>7, <3>1
    <3>3. \A i \in last : t <= i
      <4> TAKE i \in last
      <4>1. CASE i \in 0 .. t
        BY <1>7, <4>1
      <4>2. CASE i \notin 0 .. t
        BY <1>2, <4>2
      <4> QED  BY <4>1, <4>2
    <3>4. Min(last) \in last /\ \A y \in last : Min(last) <= y
      <4> HIDE DEF last
      <4> QED  BY <3>2, <3>3 DEF Min
    <3>5. Min(last) = t
      BY <3>1, <3>2, <3>3, <3>4
    <3> QED  BY <2>1, <3>2, <3>5
  <2> QED  BY <2>2, <2>3
<1>9. n < Flag * Flag * Flag * Flag => Ungrouped(p) = n
  <2> HAVE n < Flag * Flag * Flag * Flag
  <2> DEFINE Low(i) == ByteAt(p + (t + 1) - i) % Flag
             IsTaken(f) == f = [i \in 0 .. 4 |-> IF i = 0 THEN 0
                                               ELSE Flag * f[i - 1] + Low(i)]
             value == CHOOSE f : IsTaken(f)
             v1 == Flag * 0 + Low(1)
             v2 == Flag * v1 + Low(2)
             v3 == Flag * v2 + Low(3)
             v4 == Flag * v3 + Low(4)
             g == [i \in 0 .. 4 |-> IF i = 0 THEN 0 ELSE IF i = 1 THEN v1
                                    ELSE IF i = 2 THEN v2 ELSE IF i = 3 THEN v3 ELSE v4]
  <2>1. t <= 3
    <3>1. s[1] = n \div Flag /\ s[2] = s[1] \div Flag /\ s[3] = s[2] \div Flag
      BY <1>3
    <3>2. s[3] < Flag
      <4>1. n \in Nat /\ ((n \div Flag) \div Flag) \div Flag < Flag
        BY FlagIs
      <4> QED  BY <3>1, <4>1
    <3>3. s[3] \in Nat
      BY <1>3
    <3>4. t = 4 => s[3] >= Flag
      BY <1>2
    <3> QED  BY <1>2, <1>5, <3>2, <3>3, <3>4
  <2>2. Min({NumberOfBytes(p), MaxBytes}) = t + 1
    <3> DEFINE m == Min({t + 1, 4})
    <3>1. t + 1 \in {t + 1, 4} /\ \A y \in {t + 1, 4} : t + 1 <= y
      BY <1>2, <2>1
    <3>2. m \in {t + 1, 4} /\ \A y \in {t + 1, 4} : m <= y
      BY <3>1 DEF Min
    <3> HIDE DEF m
    <3>3. m = t + 1
      BY <1>2, <2>1, <3>2
    <3> QED  BY <1>8, <3>3 DEF m, MaxBytes
  <2>3. Ungrouped(p) = value[t + 1]
    BY <2>2 DEF Ungrouped, MaxBytes
  <2>4. IsTaken(g)
    <3> HIDE DEF v1, v2, v3, v4, Low
    <3>1. \A i \in 0 .. 4 : g[i] = IF i = 0 THEN 0 ELSE Flag * g[i - 1] + Low(i)
      <4>1. g[0] = 0 /\ g[1] = v1 /\ g[2] = v2 /\ g[3] = v3 /\ g[4] = v4
        OBVIOUS
      <4> HIDE DEF g
      <4>2. g[1] = Flag * g[0] + Low(1) /\ g[2] = Flag * g[1] + Low(2)
        BY <4>1 DEF v1, v2
      <4>3. g[3] = Flag * g[2] + Low(3) /\ g[4] = Flag * g[3] + Low(4)
        BY <4>1 DEF v3, v4
      <4> QED  BY <4>1, <4>2, <4>3
    <3> QED  BY <3>1
  <2>5. IsTaken(value)
    <3> HIDE DEF IsTaken
    <3> QED  BY <2>4
  <2> HIDE DEF value, g
  <2>6. value[0] = 0 /\ \A i \in 1 .. 4 : value[i] = Flag * value[i - 1] + Low(i)
    BY <2>5
  <2> HIDE DEF IsTaken
  <2>7. \A i \in 1 .. t + 1 : Low(i) = s[(t + 1) - i] % Flag
    <3> TAKE i \in 1 .. t + 1
    <3> DEFINE j == (t + 1) - i
    <3>1. j \in 0 .. t /\ j \in 0 .. 5 /\ p + (t + 1) - i = p + j
      BY <1>2
    <3> HIDE DEF j
    <3>2. ByteAt(p + j) % Flag = s[j] % Flag
      BY <1>4, <1>6, <3>1
    <3> QED  BY <3>1, <3>2 DEF j
  <2> HIDE DEF Low
  <2>8. value[1] = s[t]
    <3>1. value[1] = Flag * value[0] + Low(1)
      BY <2>6
    <3>2. Low(1) = s[t] /\ s[t] \in Nat
      <4>1. 1 \in 1 .. t + 1 /\ (t + 1) - 1 = t /\ t \in 0 .. 5
        BY <1>2
      <4> QED  BY <1>2, <1>3, <1>6, <2>7, <4>1
    <3> QED  BY <1>5, <2>6, <3>1, <3>2
  <2>9. ASSUME NEW i \in 1 .. t, value[i] = s[(t + 1) - i]
        PROVE  value[i + 1] = s[(t + 1) - (i + 1)]
    <3> DEFINE j == (t + 1) - i
    <3>1. /\ j \in 1 .. 5 /\ j - 1 \in 0 .. 5 /\ j - 1 = (t + 1) - (i + 1)
          /\ i + 1 \in 1 .. 4 /\ (i + 1) - 1 = i /\ i + 1 \in 1 .. t + 1
      BY <1>2, <2>1
    <3>2. value[i + 1] = Flag * value[i] + Low(i + 1)
      BY <2>6, <3>1
    <3>3. Low(i + 1) = s[j - 1] % Flag
      BY <2>7, <3>1
    <3>4. value[i] = s[j]
      BY <2>9
    <3> HIDE DEF j
    <3>5. s[j] = s[j - 1] \div Flag /\ s[j - 1] \in Nat
      BY <1>3, <3>1
    <3> DEFINE x == s[j - 1]
    <3>6. Flag * (x \div Flag) + (x % Flag) = x
      <4>1. x \in Nat
        BY <3>5
      <4> HIDE DEF x
      <4> QED  BY <4>1, FlagIs
    <3> QED  BY <3>1, <3>2, <3>3, <3>4, <3>5, <3>6
  <2>10. value[t + 1] = s[0]
    <3>1. CASE t = 0
      BY <2>8, <3>1
    <3>2. CASE t = 1
      BY <2>8, <2>9, <3>2
    <3>3. CASE t = 2
      <4>1. value[2] = s[1]
        BY <2>8, <2>9, <3>3
      <4> QED  BY <2>9, <3>3, <4>1
    <3>4. CASE t = 3
      <4>1. value[2] = s[2]
        BY <2>8, <2>9, <3>4
      <4>2. value[3] = s[1]
        BY <2>9, <3>4, <4>1
      <4> QED  BY <2>9, <3>4, <4>2
    <3> QED  BY <1>2, <2>1, <3>1, <3>2, <3>3, <3>4
  <2> QED  BY <1>3, <2>3, <2>10
<1> QED  BY <1>2, <1>8, <1>9 DEF b

--------------------------------------------------------------------------------
(* A dataset of differences. *)

\* The samples are of those to choose from.
Chosen == sample \in Samples

LEMMA SamplesAre ==
  Chosen => \A k \in Index, f \in Measurements : sample[k][f] \in -Half .. Half - 1
BY SvPacketAssumption DEF Chosen

\* The bytes of a measurement's difference and of its quality's.
DifferenceParts(k) ==
  [f \in 1 .. 8 |-> Groups(ZigZag(Difference(k, f - 1))) \o Groups(0)]

LEMMA DifferenceIs ==
  Chosen => \A k \in 1 .. NoASDU - 1, f \in Measurements :
    /\ Difference(k, f) \in -Half .. Half - 1
    /\ ZigZag(Difference(k, f)) \in 0 .. WordBase - 1
    /\ UnZigZag(ZigZag(Difference(k, f))) = Difference(k, f)
<1> HAVE Chosen
<1> TAKE k \in 1 .. NoASDU - 1, f \in Measurements
<1>1. k \in Index /\ k - 1 \in Index
  BY SvPacketAssumption DEF Index
<1>2. sample[k][f] \in -Half .. Half - 1 /\ sample[k - 1][f] \in -Half .. Half - 1
  BY <1>1, SamplesAre
<1>3. sample[k - 1][f] - sample[k][f] \in Int
  BY <1>2, FlagIs
<1>4. Difference(k, f) \in -Half .. Half - 1
  BY <1>3, SignedIs DEF Difference
<1> QED  BY <1>4, ZigZagComesBack

LEMMA GroupsOfZero ==
  0 \in 0 .. WordBase - 1 /\ Groups(0) \in Seq(Byte) /\ Len(Groups(0)) = 1
<1>1. 0 \in 0 .. WordBase - 1 /\ Flag > 0 /\ Flag \in Nat
  BY FlagIs
<1>2. Grouped(Groups(0), Shifted(0), Turns(0)) /\ Steps5(Shifted(0), 0)
  BY <1>1, GroupsAre, ShiftedIs
<1> DEFINE b == Groups(0)
           s == Shifted(0)
           t == Turns(0)
<1> HIDE DEF b, s, t
<1>3. s[0] = 0 /\ t \in 0 .. 4 /\ b \in Seq(Byte) /\ Len(b) = t + 1
      /\ \A i \in 0 .. t - 1 : s[i] >= Flag
  BY <1>2 DEF Grouped, Steps5, b, s, t
<1>4. t = 0
  <2>1. t # 0 => 0 \in 0 .. t - 1
    BY <1>3
  <2> QED  BY <1>1, <1>3, <2>1
<1> QED  BY <1>1, <1>3, <1>4 DEF b

LEMMA PartsInBytes ==
  Chosen => \A k \in 1 .. NoASDU - 1 :
    /\ DifferenceParts(k) \in [1 .. 8 -> Seq(Byte)]
    /\ \A f \in 1 .. 8 :
         LET b == Groups(ZigZag(Difference(k, f - 1))) IN
           /\ b \in Seq(Byte)
           /\ Len(b) \in 1 .. 5
           /\ DifferenceParts(k)[f] = b \o Groups(0)
           /\ Len(DifferenceParts(k)[f]) = Len(b) + 1
<1> HAVE Chosen
<1> TAKE k \in 1 .. NoASDU - 1
<1>1. ASSUME NEW f \in 1 .. 8
      PROVE  LET b == Groups(ZigZag(Difference(k, f - 1))) IN
               /\ b \in Seq(Byte)
               /\ Len(b) \in 1 .. 5
               /\ b \o Groups(0) \in Seq(Byte)
               /\ Len(b \o Groups(0)) = Len(b) + 1
  <2> DEFINE n == ZigZag(Difference(k, f - 1))
             b == Groups(n)
  <2>1. f - 1 \in Measurements
    BY DEF Measurements
  <2>2. n \in 0 .. WordBase - 1
    BY <2>1, DifferenceIs
  <2> HIDE DEF n
  <2>3. Grouped(b, Shifted(n), Turns(n))
    BY <2>2, GroupsAre
  <2> HIDE DEF b
  <2>4. b \in Seq(Byte) /\ Len(b) \in 1 .. 5
    BY <2>3 DEF Grouped
  <2>5. b \o Groups(0) \in Seq(Byte) /\ Len(b \o Groups(0)) = Len(b) + 1
    BY <2>4, GroupsOfZero, Cat
  <2> QED  BY <2>4, <2>5 DEF b, n
<1>2. \A f \in 1 .. 8 : DifferenceParts(k)[f] = Groups(ZigZag(Difference(k, f - 1))) \o Groups(0)
  BY DEF DifferenceParts
<1>3. DifferenceParts(k) \in [1 .. 8 -> Seq(Byte)]
  BY <1>1 DEF DifferenceParts
<1> QED  BY <1>1, <1>2, <1>3

LEMMA DifferencesInBytes ==
  Chosen => \A k \in 1 .. NoASDU - 1 :
    DifferenceBytes(k) \in Seq(Byte) /\ Len(DifferenceBytes(k)) \in 0 .. 48
<1> HAVE Chosen
<1> TAKE k \in 1 .. NoASDU - 1
<1> DEFINE parts == DifferenceParts(k)
           lengths == [f \in 1 .. 8 |-> Len(parts[f])]
<1>1. DifferenceBytes(k) = FlattenSeq(parts)
  BY DEF DifferenceBytes, DifferenceParts
<1>2. parts \in [1 .. 8 -> Seq(Byte)] /\ \A f \in 1 .. 8 : Len(parts[f]) \in 2 .. 6
  <2>1. parts \in [1 .. 8 -> Seq(Byte)]
    BY PartsInBytes
  <2>2. ASSUME NEW f \in 1 .. 8
        PROVE  Len(parts[f]) \in 2 .. 6
    <3> DEFINE b == Groups(ZigZag(Difference(k, f - 1)))
           m == Len(b)
           l == Len(parts[f])
    <3>1. m \in 1 .. 5 /\ l = m + 1
      BY PartsInBytes
    <3> HIDE DEF l, m
    <3>2. l \in 2 .. 6
      BY <3>1
    <3> QED  BY <3>2 DEF l
  <2> QED  BY <2>1, <2>2
<1> HIDE DEF parts
<1>3. FlattenSeq(parts) \in Seq(Byte) /\ Len(FlattenSeq(parts)) = Total(lengths)
  BY <1>2, JoinedLength
<1>4. lengths \in [1 .. 8 -> Nat] /\ \A f \in 1 .. 8 : lengths[f] <= 6
  <2>1. \A n \in 2 .. 6 : n \in Nat /\ n <= 6
    OBVIOUS
  <2>2. \A f \in 1 .. 8 : Len(parts[f]) \in Nat /\ Len(parts[f]) <= 6
    BY <1>2, <2>1, Zenon
  <2> QED  BY <2>2
<1> HIDE DEF lengths
<1>5. Total(lengths) \in Nat /\ Total(lengths) <= 8 * 6
  BY <1>4, TotalSmall
<1> DEFINE n == Total(lengths)
<1>6. n \in 0 .. 48
  <2> HIDE DEF n
  <2>1. n \in Nat /\ n <= 8 * 6
    BY <1>5 DEF n
  <2> QED  BY <2>1
<1> QED  BY <1>1, <1>3, <1>6

LEMMA NumberOfBytesIs ==
  \A p : NumberOfBytes(p) \in 1 .. 5
<1> TAKE p
<1> DEFINE last == {i \in 0 .. 3 : ByteAt(p + i) < Flag}
<1>1. NumberOfBytes(p) = 1 + (IF last = {} THEN 4 ELSE Min(last))
  BY DEF NumberOfBytes, MaxBytes
<1>2. last \in SUBSET (0 .. 3)
  OBVIOUS
<1> HIDE DEF last
<1>3. last # {} => Min(last) \in last
  <2> HAVE last # {}
  <2>1. last \in SUBSET Nat
    BY <1>2
  <2>2. PICK x \in last : \A y \in last : x <= y
    BY <2>1, LeastNumber
  <2> QED  BY <2>2 DEF Min
<1> DEFINE m == Min(last)
<1>4. last # {} => m \in 0 .. 3
  BY <1>2, <1>3
<1> HIDE DEF m
<1>5. NumberOfBytes(p) = 1 + (IF last = {} THEN 4 ELSE m)
  BY <1>1 DEF m
<1> QED  BY <1>4, <1>5

LEMMA FieldsAtIs ==
  \A p \in Nat :
    /\ FieldsAt(p)[0] = p
    /\ \A i \in 1 .. 16 :
         FieldsAt(p)[i] = FieldsAt(p)[i - 1] + NumberOfBytes(FieldsAt(p)[i - 1])
<1> TAKE p \in Nat
<1> DEFINE Turn(q) == q + NumberOfBytes(q)
           step == [i \in 1 .. 16 |-> [q \in Nat |-> Turn(q)]]
           IsAt(f) == f = [i \in 0 .. 16 |-> IF i = 0 THEN p ELSE Turn(f[i - 1])]
           place == CHOOSE f : IsAt(f)
<1>1. step \in [1 .. 16 -> [Nat -> Nat]]
  BY NumberOfBytesIs
<1>2. PICK g \in [0 .. 16 -> Nat] : Follows(g, p, 16, step)
  <2> HIDE DEF step
  <2> QED  BY <1>1, Recursion, Zenon
<1>3. \A i \in 1 .. 16 : g[i] = Turn(g[i - 1])
  <2> TAKE i \in 1 .. 16
  <2>1. i - 1 \in 0 .. 16 /\ g[i - 1] \in Nat
    OBVIOUS
  <2>2. step[i][g[i - 1]] = Turn(g[i - 1])
    BY <2>1
  <2> HIDE DEF step, Turn
  <2> QED  BY <1>2, <2>2 DEF Follows
<1> HIDE DEF step, Turn
<1>4. IsAt(g)
  <2>1. \A i \in 0 .. 16 : g[i] = IF i = 0 THEN p ELSE Turn(g[i - 1])
    BY <1>2, <1>3 DEF Follows
  <2> QED  BY <2>1
<1>5. IsAt(place)
  <2> HIDE DEF IsAt
  <2> QED  BY <1>4
<1>6. FieldsAt(p) = place
  BY DEF FieldsAt, Turn
<1> HIDE DEF place
<1>7. place[0] = p /\ \A i \in 1 .. 16 : place[i] = Turn(place[i - 1])
  BY <1>5
<1> QED  BY <1>6, <1>7 DEF Turn

(* The decoder finds every field of the dataset where it was put, and takes  *)
(* all of its bytes.                                                         *)
LEMMA FieldsRead ==
  Chosen => \A k \in 1 .. NoASDU - 1, p \in Nat :
    Lies(p, DifferenceBytes(k)) =>
      /\ FieldsAt(p)[16] = p + Len(DifferenceBytes(k))
      /\ \A f \in 1 .. 8 :
           /\ FieldsAt(p)[2 * (f - 1)] \in Nat
           /\ Lies(FieldsAt(p)[2 * (f - 1)], Groups(ZigZag(Difference(k, f - 1))))
<1> HAVE Chosen
<1> TAKE k \in 1 .. NoASDU - 1, p \in Nat
<1> HAVE Lies(p, DifferenceBytes(k))
<1> DEFINE parts == DifferenceParts(k)
           a == FieldsAt(p)
           G(f) == Groups(ZigZag(Difference(k, f - 1)))
<1>1. DifferenceBytes(k) = FlattenSeq(parts)
  BY DEF DifferenceBytes, DifferenceParts
<1>2. /\ parts \in [1 .. 8 -> Seq(Byte)]
      /\ \A f \in 1 .. 8 : /\ G(f) \in Seq(Byte) /\ Len(G(f)) \in 1 .. 5
                           /\ parts[f] = G(f) \o Groups(0)
                           /\ Len(parts[f]) = Len(G(f)) + 1
  BY PartsInBytes
<1>3. \A f \in 1 .. 8 : ZigZag(Difference(k, f - 1)) \in 0 .. WordBase - 1
  <2> TAKE f \in 1 .. 8
  <2>1. f - 1 \in Measurements
    BY DEF Measurements
  <2> QED  BY <2>1, DifferenceIs
<1>4. /\ a[0] = p
      /\ \A i \in 1 .. 16 : a[i] = a[i - 1] + NumberOfBytes(a[i - 1])
  BY FieldsAtIs
<1> HIDE DEF parts, a
<1>5. PICK j : Joins(j, 8, parts) /\ FlattenSeq(parts) = j[8]
  BY <1>2, JoinedIs
<1>6. \A f \in 1 .. 8 : Lies(p + Len(j[f - 1]), parts[f])
  <2>1. Lies(p, j[8])
    BY <1>1, <1>5
  <2> QED  BY <1>2, <1>5, <2>1, LiesJoined
<1>7. /\ \A f \in 0 .. 8 : j[f] \in Seq(Byte) /\ Len(j[f]) \in Nat
      /\ j[0] = <<>>
      /\ \A f \in 1 .. 8 : j[f] = j[f - 1] \o parts[f] /\ Len(G(f)) \in Nat
  <2>1. \A f \in 0 .. 8 : j[f] \in Seq(Byte)
    BY <1>5 DEF Joins
  <2>2. \A f \in 0 .. 8 : Len(j[f]) \in Nat
    BY <2>1, LenProperties
  <2>3. \A f \in 1 .. 8 : Len(G(f)) \in Nat
    BY <1>2, LenProperties
  <2> QED  BY <1>5, <2>1, <2>2, <2>3 DEF Joins
<1>8. \A f \in 1 .. 8 : Len(j[f]) = Len(j[f - 1]) + Len(G(f)) + 1
  <2> TAKE f \in 1 .. 8
  <2> DEFINE x == j[f - 1]
             y == parts[f]
  <2>1. x \in Seq(Byte) /\ y \in Seq(Byte) /\ j[f] = x \o y
    <3>1. f - 1 \in 0 .. 8
      OBVIOUS
    <3> QED  BY <1>2, <1>7, <3>1
  <2>2. Len(y) = Len(G(f)) + 1
    BY <1>2
  <2> HIDE DEF x, y
  <2>3. Len(x \o y) = Len(x) + Len(y)
    BY <2>1, Cat, Zenon
  <2> DEFINE lx == Len(x)
             lg == Len(G(f))
  <2>4. lx \in Nat /\ lg \in Nat
    <3>1. Len(x) \in Nat
      BY <2>1, LenProperties
    <3> QED  BY <1>7, <3>1
  <2>5. Len(j[f]) = lx + (lg + 1)
    BY <2>1, <2>2, <2>3
  <2> HIDE DEF lx, lg
  <2>6. Len(j[f]) = lx + lg + 1
    BY <2>4, <2>5
  <2> QED  BY <2>6 DEF lx, lg, x
<1> DEFINE q(f) == p + Len(j[f - 1])
<1>9. \A f \in 1 .. 8 : /\ q(f) \in Nat /\ Lies(q(f), G(f))
                        /\ NumberOfBytes(q(f)) = Len(G(f))
                        /\ NumberOfBytes(q(f) + Len(G(f))) = 1
  <2> TAKE f \in 1 .. 8
  <2> DEFINE g == G(f)
             z == Groups(0)
             u == q(f)
  <2>1. u \in Nat
    <3> DEFINE lj == Len(j[f - 1])
    <3>1. f - 1 \in 0 .. 8
      OBVIOUS
    <3>2. lj \in Nat
      BY <1>7, <3>1
    <3> HIDE DEF lj
    <3>3. p + lj \in Nat
      BY <3>2
    <3> QED  BY <3>3 DEF lj
  <2>2. Lies(u, parts[f]) /\ parts[f] = g \o z /\ g \in Seq(Byte)
    BY <1>2, <1>6
  <2>3. z \in Seq(Byte) /\ Len(z) = 1
    BY GroupsOfZero
  <2> HIDE DEF u, z
  <2>4. Lies(u, g) /\ Lies(u + Len(g), z)
    <3> HIDE DEF g
    <3> QED  BY <2>1, <2>2, <2>3, LiesApart
  <2>5. NumberOfBytes(u) = Len(g)
    BY <1>3, <2>1, <2>4, GroupsRead
  <2>6. u + Len(g) \in Nat
    BY <2>1, <2>2
  <2>7. NumberOfBytes(u + Len(g)) = Len(z)
    <3> HIDE DEF g
    <3> QED  BY <2>4, <2>6, GroupsRead, GroupsOfZero DEF z
  <2> QED  BY <2>1, <2>3, <2>4, <2>5, <2>7 DEF u
<1> DEFINE T == {f \in 0 .. 8 : a[2 * f] = p + Len(j[f])}
<1>10. 0 \in T
  <2>1. Len(<<>>) = 0 /\ 2 * 0 = 0
    OBVIOUS
  <2>2. a[2 * 0] = p + Len(j[0])
    BY <1>4, <1>7, <2>1
  <2> QED  BY <2>2
<1>11. ASSUME NEW f \in 1 .. 8, f - 1 \in T
       PROVE  f \in T
  <2> DEFINE lg == Len(G(f))
             u == q(f)
  <2>1. a[2 * (f - 1)] = u
    BY <1>11
  <2>2. /\ 2 * f - 1 \in 1 .. 16 /\ (2 * f - 1) - 1 = 2 * (f - 1)
        /\ 2 * f \in 1 .. 16
    OBVIOUS
  <2>3. a[2 * f - 1] = u + lg
    BY <1>4, <1>9, <2>1, <2>2
  <2>4. a[2 * f] = (u + lg) + 1
    BY <1>4, <1>9, <2>2, <2>3
  <2>5. lg \in Nat /\ u \in Nat /\ Len(j[f - 1]) \in Nat
    <3>1. f - 1 \in 0 .. 8
      OBVIOUS
    <3> QED  BY <1>7, <1>9, <3>1
  <2>6. Len(j[f]) = Len(j[f - 1]) + lg + 1
    BY <1>8
  <2> DEFINE lj == Len(j[f - 1])
  <2>7. u = p + lj
    OBVIOUS
  <2> HIDE DEF u, lg, lj
  <2>8. a[2 * f] = p + Len(j[f])
    BY <2>4, <2>5, <2>6, <2>7 DEF lj
  <2> QED  BY <2>8
<1>12. T \in SUBSET (0 .. 8)
  OBVIOUS
<1>13. \A f \in 0 .. 8 : a[2 * f] = p + Len(j[f])
  <2>1. \A f \in 0 .. 8 : f \in T
    <3> HIDE DEF T
    <3>1. \A f \in 1 .. 8 : f - 1 \in T => f \in T
      BY <1>11
    <3>2. 8 \in Nat
      OBVIOUS
    <3> QED  BY <1>10, <1>12, <3>1, <3>2, Upwards, Zenon
  <2> QED  BY <2>1
<1>14. a[16] = p + Len(DifferenceBytes(k))
  <2>1. a[2 * 8] = p + Len(j[8])
    BY <1>13
  <2> QED  BY <1>1, <1>5, <2>1
<1>15. ASSUME NEW f \in 1 .. 8
       PROVE  a[2 * (f - 1)] \in Nat /\ Lies(a[2 * (f - 1)], G(f))
  <2>1. f - 1 \in 0 .. 8
    OBVIOUS
  <2>2. a[2 * (f - 1)] = q(f)
    BY <1>13, <2>1
  <2> QED  BY <1>9, <2>2
<1> QED  BY <1>14, <1>15 DEF a

(* Differences that fit into MaxBytes bytes are decoded.                     *)
LEMMA DifferencesRead ==
  Chosen => \A k \in 1 .. NoASDU - 1, p \in Nat :
    Lies(p, DifferenceBytes(k)) =>
      \A f \in Measurements :
        ZigZag(Difference(k, f)) < Flag * Flag * Flag * Flag =>
          DifferencesAt(p)[f] = Difference(k, f)
<1> HAVE Chosen
<1> TAKE k \in 1 .. NoASDU - 1, p \in Nat
<1> HAVE Lies(p, DifferenceBytes(k))
<1> TAKE f \in Measurements
<1> DEFINE d == Difference(k, f)
           q == FieldsAt(p)[2 * f]
<1> HAVE ZigZag(d) < Flag * Flag * Flag * Flag
<1>1. /\ d \in -Half .. Half - 1 /\ ZigZag(d) \in 0 .. WordBase - 1
      /\ UnZigZag(ZigZag(d)) = d
  BY DifferenceIs
<1>2. q \in Nat /\ Lies(q, Groups(ZigZag(d)))
  <2>1. f + 1 \in 1 .. 8 /\ (f + 1) - 1 = f
    BY DEF Measurements
  <2> QED  BY <2>1, FieldsRead
<1>3. DifferencesAt(p)[f] = Signed(UnZigZag(Ungrouped(q)))
  BY DEF DifferencesAt
<1> HIDE DEF d, q
<1>4. Ungrouped(q) = ZigZag(d)
  BY <1>1, <1>2, GroupsRead
<1>5. Signed(d) = d
  BY <1>1, SignedIs, FlagIs
<1> QED  BY <1>1, <1>3, <1>4, <1>5 DEF d

--------------------------------------------------------------------------------
(* The areas of the datasets. *)

Picked ==
  /\ Chosen
  /\ mode \in Modes
  /\ read \in Modes
  /\ left \in BOOLEAN
  /\ filler \in {0, Flag}

\* data.data of ASDU k before and after its sample is put there, data.size, and
\* what of it is sent.
Before(k) == IF left THEN SampleOver(OtherMode(mode), NoBytes, k) ELSE NoBytes
After(k) == SampleOver(mode, Before(k), k)
SizeOf(k) == IF InFull(mode, k) THEN FullSize ELSE Len(DifferenceBytes(k))
Sent(k) == SubSeq(After(k), 1, SizeOf(k))

IsArea(area) == area \in Seq(Byte) /\ Len(area) = 64

LEMMA AreaBytes ==
  \A area : IsArea(area) => \A b \in 1 .. 64 : area[b] \in Byte /\ area[b] \in Int
<1> TAKE area
<1> HAVE IsArea(area)
<1> TAKE b \in 1 .. 64
<1>1. area \in Seq(Byte) /\ b \in 1 .. Len(area)
  BY DEF IsArea
<1>2. area[b] \in Byte
  BY <1>1, ElementOfSeq
<1> QED  BY <1>2 DEF Byte

LEMMA BytesInRow ==
  \A n \in Nat : \A f \in [1 .. n -> Byte] : f \in Seq(Byte) /\ Len(f) = n
OBVIOUS

LEMMA FirstOf ==
  \A a, b \in Seq(Byte) : SubSeq(a \o b, 1, Len(a)) = a
<1> TAKE a, b \in Seq(Byte)
<1>1. <<>> \in Seq(Byte) /\ Len(<<>>) = 0 /\ a \o b \in Seq(Byte) /\ Len(a) \in Nat
  BY EmptySeq, Cat
<1>2. SubSeq(<<>> \o (a \o b), Len(<<>>) + 1, Len(<<>>) + Len(a)) = a
  BY <1>1, Middle
<1>3. <<>> \o (a \o b) = a \o b
  BY <1>1, ConcatEmptySeq
<1>4. Len(<<>>) + 1 = 1 /\ Len(<<>>) + Len(a) = Len(a)
  BY <1>1
<1> QED  BY <1>2, <1>3, <1>4

LEMMA WholeOf ==
  \A a \in Seq(Byte) : SubSeq(a, 1, Len(a)) = a
<1> TAKE a \in Seq(Byte)
<1>1. a \o <<>> = a /\ <<>> \in Seq(Byte)
  BY EmptySeq, ConcatEmptySeq
<1>2. SubSeq(a \o <<>>, 1, Len(a)) = a
  BY <1>1, FirstOf
<1> QED  BY <1>1, <1>2

LEMMA NoBytesIs ==
  IsArea(NoBytes) /\ \A b \in 1 .. 64 : NoBytes[b] = 0
BY DEF IsArea, NoBytes, FullSize, Byte

(* A sample in full, byte by byte.                                           *)
LEMMA FullBytes ==
  Chosen => \A area : IsArea(area) => \A k \in Index :
    /\ IsArea(FullOver(area, k))
    /\ \A f \in Measurements :
         /\ \A i \in 1 .. 4 : FullOver(area, k)[8 * f + i] = BigEndian(sample[k][f] % WordBase)[i]
         /\ \A i \in 5 .. 6 : FullOver(area, k)[8 * f + i] = area[8 * f + i]
         /\ \A i \in 7 .. 8 : FullOver(area, k)[8 * f + i] = 0
<1> HAVE Chosen
<1> TAKE area
<1> HAVE IsArea(area)
<1> TAKE k \in Index
<1> DEFINE full == FullOver(area, k)
           At(b, f, i) == IF i <= 4 THEN BigEndian(sample[k][f] % WordBase)[i]
                          ELSE IF i <= 6 THEN area[b] ELSE 0
           byte(b) == At(b, (b - 1) \div 8, b - 8 * ((b - 1) \div 8))
<1>1. full = [b \in 1 .. 64 |-> byte(b)]
  BY DEF FullOver, FullSize
<1>2. \A b \in 1 .. 64 : area[b] \in Byte
  BY AreaBytes
<1>3. ASSUME NEW f \in Measurements, NEW i \in 1 .. 4
      PROVE  BigEndian(sample[k][f] % WordBase)[i] \in Byte
  <2>1. sample[k][f] % WordBase \in 0 .. WordBase - 1
    <3>1. sample[k][f] \in -Half .. Half - 1 /\ sample[k][f] \in Int
      BY SamplesAre, FlagIs
    <3> QED  BY <3>1, SignedIs
  <2>2. BigEndian(sample[k][f] % WordBase)[i] \in 0 .. ByteBase - 1
    BY <2>1, BigEndianIs
  <2>3. ByteBase \in Nat /\ ByteBase <= 256
    BY FlagIs
  <2> QED  BY <2>2, <2>3 DEF Byte
<1>4. ASSUME NEW b \in 1 .. 64, NEW f \in Measurements, NEW i \in 1 .. 8
      PROVE  At(b, f, i) \in Byte
  <2>1. 0 \in Byte
    BY DEF Byte
  <2>2. i <= 4 => i \in 1 .. 4
    OBVIOUS
  <2> QED  BY <1>2, <1>3, <2>1, <2>2
<1>5. \A b \in 1 .. 64 : byte(b) \in Byte
  <2> TAKE b \in 1 .. 64
  <2> DEFINE f == (b - 1) \div 8
             i == b - 8 * f
  <2>1. f \in Measurements /\ i \in 1 .. 8
    BY DEF Measurements
  <2> HIDE DEF f, At
  <2>2. At(b, f, i) \in Byte
    BY <1>4, <2>1
  <2> QED  BY <2>2 DEF f
<1>6. IsArea(full)
  <2> HIDE DEF byte
  <2>1. full \in Seq(Byte) /\ Len(full) = 64
    <3>1. 64 \in Nat
      OBVIOUS
    <3> HIDE DEF full
    <3>2. full \in [1 .. 64 -> Byte]
      BY <1>1, <1>5
    <3> QED  BY <3>1, <3>2, BytesInRow
  <2> QED  BY <2>1 DEF IsArea
<1>7. ASSUME NEW f \in Measurements, NEW i \in 1 .. 8
      PROVE  full[8 * f + i] = At(8 * f + i, f, i)
  <2> DEFINE b == 8 * f + i
  <2>1. b \in 1 .. 64 /\ (b - 1) \div 8 = f /\ b - 8 * f = i
    BY DEF Measurements
  <2> HIDE DEF b, At, full
  <2>2. full[b] = byte(b)
    BY <1>1, <2>1
  <2> QED  BY <2>1, <2>2 DEF b
<1> HIDE DEF full
<1> SUFFICES ASSUME NEW f \in Measurements
             PROVE  /\ \A i \in 1 .. 4 : full[8 * f + i] = BigEndian(sample[k][f] % WordBase)[i]
                    /\ \A i \in 5 .. 6 : full[8 * f + i] = area[8 * f + i]
                    /\ \A i \in 7 .. 8 : full[8 * f + i] = 0
  BY <1>6 DEF full
<1>8. ASSUME NEW i \in 1 .. 4
      PROVE  full[8 * f + i] = BigEndian(sample[k][f] % WordBase)[i]
  <2>1. i \in 1 .. 8 /\ i <= 4
    OBVIOUS
  <2> QED  BY <1>7, <2>1
<1>9. ASSUME NEW i \in 5 .. 6
      PROVE  full[8 * f + i] = area[8 * f + i]
  <2>1. i \in 1 .. 8 /\ ~ (i <= 4) /\ i <= 6
    OBVIOUS
  <2> QED  BY <1>7, <2>1
<1>10. ASSUME NEW i \in 7 .. 8
       PROVE  full[8 * f + i] = 0
  <2>1. i \in 1 .. 8 /\ ~ (i <= 4) /\ ~ (i <= 6)
    OBVIOUS
  <2> QED  BY <1>7, <2>1
<1> QED  BY <1>8, <1>9, <1>10

LEMMA DifferencesFill ==
  Chosen => \A area : IsArea(area) => \A k \in 1 .. NoASDU - 1 :
    /\ IsArea(DifferencesOver(area, k))
    /\ SubSeq(DifferencesOver(area, k), 1, Len(DifferenceBytes(k))) = DifferenceBytes(k)
<1> HAVE Chosen
<1> TAKE area
<1> HAVE IsArea(area)
<1> TAKE k \in 1 .. NoASDU - 1
<1> DEFINE bytes == DifferenceBytes(k)
           m == Len(bytes)
           others == SubSeq(area, m + 1, 64)
<1>1. bytes \in Seq(Byte) /\ m \in 0 .. 48
  BY DifferencesInBytes
<1>2. others \in Seq(Byte) /\ Len(others) = 64 - m
  <2>1. area \in Seq(Byte) /\ Len(area) = 64
    BY DEF IsArea
  <2> HIDE DEF m
  <2>2. \A i \in m + 1 .. 64 : area[i] \in Byte
    <3>1. \A i \in m + 1 .. 64 : i \in 1 .. 64
      BY <1>1
    <3> QED  BY <3>1, AreaBytes
  <2>3. /\ others \in Seq(Byte)
        /\ Len(others) = IF m + 1 <= 64 THEN 64 - (m + 1) + 1 ELSE 0
    BY <1>1, <2>2, SubSeqProperties
  <2> QED  BY <1>1, <2>3
<1>3. DifferencesOver(area, k) = bytes \o others
  BY DEF DifferencesOver, FullSize
<1> HIDE DEF others, bytes
<1>4. bytes \o others \in Seq(Byte) /\ Len(bytes \o others) = m + (64 - m)
  BY <1>1, <1>2, Cat
<1>5. m + (64 - m) = 64
  BY <1>1
<1>6. SubSeq(bytes \o others, 1, m) = bytes
  BY <1>1, <1>2, FirstOf
<1> QED  BY <1>3, <1>4, <1>5, <1>6 DEF bytes, IsArea

\* The area of a sample is the one or the other.
LEMMA SampleFills ==
  Chosen => \A m \in Modes : \A area : IsArea(area) => \A k \in Index :
    /\ IsArea(SampleOver(m, area, k))
    /\ InFull(m, k) => SampleOver(m, area, k) = FullOver(area, k)
    /\ ~ InFull(m, k) =>
         SampleOver(m, area, k) = DifferencesOver(area, k) /\ k \in 1 .. NoASDU - 1
<1> HAVE Chosen
<1> TAKE m \in Modes
<1> TAKE area
<1> HAVE IsArea(area)
<1> TAKE k \in Index
<1>1. ~ InFull(m, k) => k \in 1 .. NoASDU - 1
  BY SvPacketAssumption DEF InFull, Index
<1>2. IsArea(FullOver(area, k))
  BY FullBytes
<1>3. k \in 1 .. NoASDU - 1 => IsArea(DifferencesOver(area, k))
  BY DifferencesFill
<1> QED  BY <1>1, <1>2, <1>3 DEF SampleOver

LEMMA AreasAre ==
  Picked => \A k \in Index :
    /\ IsArea(Before(k))
    /\ Sent(k) \in Seq(Byte)
    /\ Len(Sent(k)) = SizeOf(k)
    /\ SizeOf(k) \in 0 .. 64
    /\ InFull(mode, k) => Sent(k) = FullOver(Before(k), k) /\ SizeOf(k) = 64
    /\ ~ InFull(mode, k) => Sent(k) = DifferenceBytes(k) /\ k \in 1 .. NoASDU - 1
<1> HAVE Picked
<1> TAKE k \in Index
<1>1. Chosen /\ mode \in Modes /\ OtherMode(mode) \in Modes /\ left \in BOOLEAN
  BY DEF Picked, OtherMode, Modes
<1>2. IsArea(Before(k))
  BY <1>1, NoBytesIs, SampleFills DEF Before
<1>3. CASE InFull(mode, k)
  <2> DEFINE full == FullOver(Before(k), k)
  <2>1. After(k) = full /\ IsArea(After(k)) /\ SizeOf(k) = 64
    BY <1>1, <1>2, <1>3, SampleFills DEF After, SizeOf, FullSize
  <2> HIDE DEF full
  <2>2. full \in Seq(Byte) /\ Len(full) = 64 /\ Sent(k) = SubSeq(full, 1, 64)
    BY <2>1 DEF IsArea, Sent
  <2>3. Sent(k) = full
    BY <2>2, WholeOf
  <2>4. 64 \in 0 .. 64
    OBVIOUS
  <2> QED  BY <1>2, <1>3, <2>1, <2>2, <2>3, <2>4 DEF full
<1>4. CASE ~ InFull(mode, k)
  <2> DEFINE bytes == DifferenceBytes(k)
  <2>1. /\ After(k) = DifferencesOver(Before(k), k) /\ k \in 1 .. NoASDU - 1
        /\ SizeOf(k) = Len(bytes)
    BY <1>1, <1>2, <1>4, SampleFills DEF After, SizeOf
  <2>2. Sent(k) = bytes
    BY <1>1, <1>2, <2>1, DifferencesFill DEF Sent
  <2>3. bytes \in Seq(Byte) /\ Len(bytes) \in 0 .. 48
    BY <1>1, <2>1, DifferencesInBytes
  <2> HIDE DEF bytes
  <2>4. Len(bytes) \in 0 .. 64
    <3> DEFINE n == Len(bytes)
    <3>1. n \in 0 .. 48
      BY <2>3
    <3> HIDE DEF n
    <3>2. n \in 0 .. 64
      BY <3>1
    <3> QED  BY <3>2 DEF n
  <2> QED  BY <1>2, <1>4, <2>1, <2>2, <2>3, <2>4 DEF bytes
<1> QED  BY <1>3, <1>4

(* What is decoded from a sample in full: its measurements, and of each      *)
(* quality the half that was there before.                                   *)
LEMMA FullRead ==
  Chosen => \A area : IsArea(area) => \A k \in Index, p \in Nat :
    Lies(p, FullOver(area, k)) =>
      /\ FullAt(p) = sample[k]
      /\ \A f \in Measurements :
           QualitiesAt(p)[f] = (area[8 * f + 5] * ByteBase + area[8 * f + 6]) * (ByteBase * ByteBase)
<1> HAVE Chosen
<1> TAKE area
<1> HAVE IsArea(area)
<1> TAKE k \in Index, p \in Nat
<1> HAVE Lies(p, FullOver(area, k))
<1> DEFINE full == FullOver(area, k)
<1>1. Len(full) = 64
  BY FullBytes DEF IsArea
<1>2. ASSUME NEW f \in Measurements
      PROVE  \A i \in 1 .. 8 : ByteAt(p + 8 * f + (i - 1)) = full[8 * f + i]
  <2> HIDE DEF full
  <2> TAKE i \in 1 .. 8
  <2>1. 8 * f + i \in 1 .. 64 /\ p + ((8 * f + i) - 1) = p + 8 * f + (i - 1)
    BY DEF Measurements
  <2>2. \A j \in 1 .. 64 : ByteAt(p + (j - 1)) = full[j]
    BY <1>1 DEF Lies, full
  <2>3. ByteAt(p + ((8 * f + i) - 1)) = full[8 * f + i]
    BY <2>1, <2>2
  <2> QED  BY <2>1, <2>3
<1>3. ASSUME NEW f \in Measurements
      PROVE  Signed(WordAt(p + 8 * f)) = sample[k][f]
  <2> DEFINE v == sample[k][f]
             b == BigEndian(v % WordBase)
             q == p + 8 * f
  <2>1. v \in Int /\ v % WordBase \in 0 .. WordBase - 1 /\ Signed(v % WordBase) = v
    <3>1. v \in -Half .. Half - 1 /\ v \in Int
      BY SamplesAre, FlagIs
    <3> QED  BY <3>1, SignedIs
  <2>2. full[8 * f + 1] = b[1] /\ full[8 * f + 2] = b[2]
        /\ full[8 * f + 3] = b[3] /\ full[8 * f + 4] = b[4]
    BY FullBytes
  <2>3. Word(b) = v % WordBase
    BY <2>1, BigEndianIs
  <2>4. q \in Nat
    BY DEF Measurements
  <2> HIDE DEF full, b, v
  <2>5. ByteAt(q) = b[1] /\ ByteAt(q + 1) = b[2] /\ ByteAt(q + 2) = b[3] /\ ByteAt(q + 3) = b[4]
    <3>1. q + (1 - 1) = q /\ q + (2 - 1) = q + 1 /\ q + (3 - 1) = q + 2 /\ q + (4 - 1) = q + 3
      BY <2>4
    <3>2. /\ ByteAt(q + (1 - 1)) = full[8 * f + 1] /\ ByteAt(q + (2 - 1)) = full[8 * f + 2]
          /\ ByteAt(q + (3 - 1)) = full[8 * f + 3] /\ ByteAt(q + (4 - 1)) = full[8 * f + 4]
      BY <1>2
    <3> HIDE DEF q
    <3> QED  BY <2>2, <3>1, <3>2
  <2>6. WordAt(q) = Word(b)
    <3> HIDE DEF q
    <3> QED  BY <2>5 DEF WordAt, Word
  <2> QED  BY <2>1, <2>3, <2>6 DEF v
<1>4. FullAt(p) = sample[k]
  <2>1. sample[k] \in [Measurements -> -Half .. Half - 1]
    BY SvPacketAssumption DEF Chosen
  <2> QED  BY <1>3, <2>1 DEF FullAt
<1>5. ASSUME NEW f \in Measurements
      PROVE  QualitiesAt(p)[f] = (area[8 * f + 5] * ByteBase + area[8 * f + 6]) * (ByteBase * ByteBase)
  <2> DEFINE q == p + 8 * f + 4
             a == area[8 * f + 5]
             b == area[8 * f + 6]
  <2>1. /\ full[8 * f + 5] = a /\ full[8 * f + 6] = b
        /\ full[8 * f + 7] = 0 /\ full[8 * f + 8] = 0
    BY FullBytes
  <2>2. p + 8 * f \in Nat
    BY DEF Measurements
  <2> HIDE DEF full
  <2>3. ByteAt(q) = a /\ ByteAt(q + 1) = b /\ ByteAt(q + 2) = 0 /\ ByteAt(q + 3) = 0
    <3> DEFINE r == p + 8 * f
    <3>1. /\ ByteAt(r + (5 - 1)) = full[8 * f + 5] /\ ByteAt(r + (6 - 1)) = full[8 * f + 6]
          /\ ByteAt(r + (7 - 1)) = full[8 * f + 7] /\ ByteAt(r + (8 - 1)) = full[8 * f + 8]
      BY <1>2
    <3>2. r \in Nat
      BY <2>2
    <3> HIDE DEF r, a, b
    <3>3. r + (5 - 1) = r + 4 /\ r + (6 - 1) = r + 4 + 1 /\ r + (7 - 1) = r + 4 + 2
          /\ r + (8 - 1) = r + 4 + 3
      BY <3>2
    <3>4. /\ ByteAt(r + 4) = a /\ ByteAt(r + 4 + 1) = b
          /\ ByteAt(r + 4 + 2) = 0 /\ ByteAt(r + 4 + 3) = 0
      BY <2>1, <3>1, <3>3
    <3> QED  BY <3>4 DEF r
  <2>4. a \in Int /\ b \in Int
    <3>1. 8 * f + 5 \in 1 .. 64 /\ 8 * f + 6 \in 1 .. 64
      BY DEF Measurements
    <3> QED  BY <3>1, AreaBytes
  <2>5. QualitiesAt(p)[f] = WordAt(q)
    BY DEF QualitiesAt
  <2> HIDE DEF q, a, b
  <2>6. WordAt(q) = ((a * ByteBase + b) * ByteBase + 0) * ByteBase + 0
    BY <2>3 DEF WordAt
  <2>7. ((a * ByteBase + b) * ByteBase + 0) * ByteBase + 0 = (a * ByteBase + b) * (ByteBase * ByteBase)
    <3> HIDE DEF ByteBase
    <3> DEFINE c == a * ByteBase + b
    <3>1. ByteBase \in Int
      BY FlagIs
    <3>2. c \in Int
      BY <2>4, <3>1
    <3> HIDE DEF c
    <3>3. (c * ByteBase + 0) * ByteBase + 0 = c * (ByteBase * ByteBase)
      BY <3>1, <3>2
    <3> QED  BY <3>3 DEF c
  <2> QED  BY <2>5, <2>6, <2>7 DEF a, b
<1> QED  BY <1>4, <1>5

--------------------------------------------------------------------------------
(* The elements of the packet. *)

\* An element with that tag, contents and end.
ElementIs(p, tag, q, e) == ByteAt(p) = tag /\ ContentsAt(p) = q /\ EndAt(p) = e

LEMMA HeadingAt ==
  \A p \in Nat, n \in Nat : n < 256 * 256 /\ Lies(p + 1, encodeLength(n)) =>
    /\ ContentsAt(p) = p + 1 + getLengthBytes(n)
    /\ EndAt(p) = p + 1 + getLengthBytes(n) + n
<1> TAKE p \in Nat, n \in Nat
<1> HAVE n < 256 * 256 /\ Lies(p + 1, encodeLength(n))
<1> DEFINE high == (n \div 256) % 256
           low == n % 256
           a == ByteAt(p + 1)
           b == ByteAt(p + 2)
           c == ByteAt(p + 3)
<1>1. high \in Nat /\ low \in Nat /\ high * 256 + low = n
  BY TwoBytes
<1>2. /\ encodeLength(n) = IF n <= 126 THEN <<n>> ELSE IF n <= 255 THEN <<129, n>>
                           ELSE <<130, high, low>>
      /\ getLengthBytes(n) = IF n <= 126 THEN 1 ELSE IF n <= 255 THEN 2 ELSE 3
  BY DEF encodeLength, getLengthBytes
<1>3. \A i \in 1 .. Len(encodeLength(n)) : ByteAt((p + 1) + (i - 1)) = encodeLength(n)[i]
  BY DEF Lies
<1>4. (p + 1) + (1 - 1) = p + 1 /\ (p + 1) + (2 - 1) = p + 2 /\ (p + 1) + (3 - 1) = p + 3
  OBVIOUS
<1>5. /\ ContentsAt(p) = p + 1 + (IF a <= 126 THEN 1 ELSE 1 + (a % 128))
      /\ EndAt(p) = ContentsAt(p) + (IF a <= 126 THEN a ELSE IF a % 128 = 1 THEN b
                                     ELSE IF a % 128 = 2 THEN b * 256 + c ELSE 0)
  BY DEF ContentsAt, EndAt, LengthField, getLengthFieldSize, decodeLength
<1> HIDE DEF high, low, a, b, c
<1>6. CASE n <= 126
  <2>1. encodeLength(n) = <<n>>
    BY <1>2, <1>6
  <2>2. a = n
    BY <1>3, <1>4, <2>1 DEF a
  <2> QED  BY <1>2, <1>5, <1>6, <2>2
<1>7. CASE ~ (n <= 126) /\ n <= 255
  <2>1. encodeLength(n) = <<129, n>>
    BY <1>2, <1>7
  <2>2. a = 129 /\ b = n
    BY <1>3, <1>4, <2>1 DEF a, b
  <2> QED  BY <1>2, <1>5, <1>7, <2>2
<1>8. CASE ~ (n <= 255)
  <2>1. encodeLength(n) = <<130, high, low>>
    BY <1>2, <1>8
  <2>2. a = 130 /\ b = high /\ c = low
    BY <1>3, <1>4, <2>1 DEF a, b, c
  <2> QED  BY <1>1, <1>2, <1>5, <1>8, <2>2
<1> QED  BY <1>6, <1>7, <1>8

LEMMA ShortAt ==
  \A p \in Nat, n \in 0 .. 126 : ByteAt(p + 1) = n =>
    ContentsAt(p) = p + 2 /\ EndAt(p) = p + 2 + n
BY DEF ContentsAt, EndAt, LengthField, getLengthFieldSize, decodeLength

OfLength(a, m) == a \in Seq(Byte) /\ m \in Nat /\ Len(a) = m

LEMMA CatLength ==
  \A a, b, m, n : OfLength(a, m) /\ OfLength(b, n) => OfLength(a \o b, m + n)
<1> TAKE a, b, m, n
<1> HAVE OfLength(a, m) /\ OfLength(b, n)
<1>1. a \in Seq(Byte) /\ b \in Seq(Byte) /\ m \in Nat /\ n \in Nat
      /\ Len(a) = m /\ Len(b) = n
  BY DEF OfLength
<1>2. a \o b \in Seq(Byte) /\ Len(a \o b) = Len(a) + Len(b)
  BY <1>1, Cat
<1> QED  BY <1>1, <1>2 DEF OfLength

LEMMA LiesSplit ==
  \A p \in Nat : \A a, b, m, n : OfLength(a, m) /\ OfLength(b, n) /\ Lies(p, a \o b) =>
    Lies(p, a) /\ Lies(p + m, b)
<1> TAKE p \in Nat
<1> TAKE a, b, m, n
<1> HAVE OfLength(a, m) /\ OfLength(b, n) /\ Lies(p, a \o b)
<1>1. a \in Seq(Byte) /\ b \in Seq(Byte) /\ Len(a) = m
  BY DEF OfLength
<1> QED  BY <1>1, LiesApart

\* What the header of ASDU k is made of.
HeaderLaid(p, k) ==
  /\ ElementIs(p, SVID, p + 2, p + 11)
  /\ ElementIs(p + 11, SMPCNT, p + 13, p + 15)
  /\ ByteAt(p + 13) * 256 + ByteAt(p + 14) = SmpCnt + k
  /\ ElementIs(p + 15, CONFREV, p + 17, p + 21)
  /\ ElementIs(p + 21, SMPSYNCH, p + 23, p + 24)

LEMMA HeaderRead ==
  \A k \in Index, p \in Nat :
    /\ OfLength(HeaderBytes(k), 24)
    /\ Lies(p, HeaderBytes(k)) => HeaderLaid(p, k)
<1> TAKE k \in Index, p \in Nat
<1> DEFINE n == SmpCnt + k
           h1 == <<SVID, 9>>
           h2 == [i \in 1 .. 9 |-> 48]
           h3 == <<SMPCNT, 2, n \div 256, n % 256>>
           h4 == <<CONFREV, 4, 0, 0, 0, 1>>
           h5 == <<SMPSYNCH, 1, 1>>
<1>1. n \in Nat /\ n < 256 * 256
  BY SvPacketAssumption DEF Index
<1>2. /\ n \div 256 \in Byte /\ n % 256 \in Byte
      /\ (n \div 256) * 256 + (n % 256) = n
  BY <1>1, TwoBytes DEF Byte
<1>3. HeaderBytes(k) = (((h1 \o h2) \o h3) \o h4) \o h5
  BY DEF HeaderBytes
<1> HIDE DEF n
<1> DEFINE hi == n \div 256
           lo == n % 256
<1> HIDE DEF hi, lo
<1>4. OfLength(h1, 2) /\ OfLength(h3, 4) /\ OfLength(h4, 6) /\ OfLength(h5, 3)
  <2>1. hi \in Byte /\ lo \in Byte
    BY <1>2 DEF hi, lo
  <2>2. h3 = <<SMPCNT, 2, hi, lo>>
    BY DEF hi, lo
  <2> HIDE DEF h3
  <2>3. OfLength(h1, 2) /\ OfLength(h5, 3)
    BY DEF SVID, SMPSYNCH, Byte, OfLength
  <2>4. OfLength(h3, 4)
    BY <2>1, <2>2 DEF SMPCNT, Byte, OfLength
  <2>5. OfLength(h4, 6)
    BY DEF CONFREV, Byte, OfLength
  <2> QED  BY <2>3, <2>4, <2>5
<1>5. OfLength(h2, 9)
  <2>1. h2 \in [1 .. 9 -> Byte]
    BY DEF Byte
  <2> HIDE DEF h2
  <2> QED  BY <2>1, BytesInRow DEF OfLength
<1>6. /\ h1[1] = SVID /\ h1[2] = 9
      /\ h3[1] = SMPCNT /\ h3[2] = 2 /\ h3[3] = n \div 256 /\ h3[4] = n % 256
      /\ h4[1] = CONFREV /\ h4[2] = 4 /\ h5[1] = SMPSYNCH /\ h5[2] = 1
  OBVIOUS
<1> HIDE DEF h1, h2, h3, h4, h5
<1> DEFINE g2 == h1 \o h2
           g3 == g2 \o h3
           g4 == g3 \o h4
<1>7. OfLength(g2, 11)
  <2>1. OfLength(g2, 2 + 9)
    BY <1>4, <1>5, CatLength, Zenon
  <2> HIDE DEF g2
  <2> QED  BY <2>1
<1> HIDE DEF g2
<1>8. OfLength(g3, 15)
  <2>1. OfLength(g3, 11 + 4)
    BY <1>4, <1>7, CatLength, Zenon
  <2> HIDE DEF g3
  <2> QED  BY <2>1
<1> HIDE DEF g3
<1>9. OfLength(g4, 21)
  <2>1. OfLength(g4, 15 + 6)
    BY <1>4, <1>8, CatLength, Zenon
  <2> HIDE DEF g4
  <2> QED  BY <2>1
<1> HIDE DEF g4
<1>23. OfLength(HeaderBytes(k), 24)
  <2>1. OfLength(g4 \o h5, 21 + 3)
    BY <1>4, <1>9, CatLength, Zenon
  <2>2. HeaderBytes(k) = g4 \o h5
    BY <1>3 DEF g2, g3, g4
  <2> QED  BY <2>1, <2>2
<1> SUFFICES ASSUME Lies(p, HeaderBytes(k))
             PROVE  HeaderLaid(p, k)
  BY <1>23
<1>10. Lies(p, g4) /\ Lies(p + 21, h5)
  <2>1. Lies(p, g4 \o h5)
    BY <1>3 DEF g2, g3, g4
  <2> QED  BY <1>4, <1>9, <2>1, LiesSplit, Zenon
<1>11. Lies(p, g3) /\ Lies(p + 15, h4)
  <2>1. Lies(p, g3 \o h4)
    BY <1>10 DEF g4
  <2> QED  BY <1>4, <1>8, <2>1, LiesSplit
<1>12. Lies(p, g2) /\ Lies(p + 11, h3)
  <2>1. Lies(p, g2 \o h3)
    BY <1>11 DEF g3
  <2> QED  BY <1>4, <1>7, <2>1, LiesSplit, Zenon
<1>13. Lies(p, h1)
  <2>1. Lies(p, h1 \o h2)
    BY <1>12 DEF g2
  <2> QED  BY <1>4, <1>5, <2>1, LiesSplit, Zenon
<1>14. ByteAt(p) = SVID /\ ByteAt(p + 1) = 9
  <2>1. p + (1 - 1) = p /\ p + (2 - 1) = p + 1
    OBVIOUS
  <2> QED  BY <1>4, <1>6, <1>13, <2>1 DEF Lies, OfLength
<1>15. /\ ByteAt(p + 11) = SMPCNT /\ ByteAt(p + 12) = 2
       /\ ByteAt(p + 13) = n \div 256 /\ ByteAt(p + 14) = n % 256
  <2>1. /\ (p + 11) + (1 - 1) = p + 11 /\ (p + 11) + (2 - 1) = p + 12
        /\ (p + 11) + (3 - 1) = p + 13 /\ (p + 11) + (4 - 1) = p + 14
    OBVIOUS
  <2> QED  BY <1>4, <1>6, <1>12, <2>1 DEF Lies, OfLength
<1>16. ByteAt(p + 15) = CONFREV /\ ByteAt(p + 16) = 4
  <2>1. (p + 15) + (1 - 1) = p + 15 /\ (p + 15) + (2 - 1) = p + 16
    OBVIOUS
  <2> QED  BY <1>4, <1>6, <1>11, <2>1 DEF Lies, OfLength
<1>17. ByteAt(p + 21) = SMPSYNCH /\ ByteAt(p + 22) = 1
  <2>1. (p + 21) + (1 - 1) = p + 21 /\ (p + 21) + (2 - 1) = p + 22
    OBVIOUS
  <2> QED  BY <1>4, <1>6, <1>10, <2>1 DEF Lies, OfLength
<1>18. ElementIs(p, SVID, p + 2, p + 11)
  BY <1>14, ShortAt DEF ElementIs
<1>19. ElementIs(p + 11, SMPCNT, p + 13, p + 15)
  <2>1. ContentsAt(p + 11) = (p + 11) + 2 /\ EndAt(p + 11) = (p + 11) + 2 + 2
    <3>1. p + 11 \in Nat /\ (p + 11) + 1 = p + 12 /\ 2 \in 0 .. 126
      OBVIOUS
    <3> QED  BY <1>15, <3>1, ShortAt
  <2> QED  BY <1>15, <2>1 DEF ElementIs
<1>20. ElementIs(p + 15, CONFREV, p + 17, p + 21)
  <2>1. ContentsAt(p + 15) = (p + 15) + 2 /\ EndAt(p + 15) = (p + 15) + 2 + 4
    <3>1. p + 15 \in Nat /\ (p + 15) + 1 = p + 16 /\ 4 \in 0 .. 126
      OBVIOUS
    <3> QED  BY <1>16, <3>1, ShortAt
  <2> QED  BY <1>16, <2>1 DEF ElementIs
<1>21. ElementIs(p + 21, SMPSYNCH, p + 23, p + 24)
  <2>1. ContentsAt(p + 21) = (p + 21) + 2 /\ EndAt(p + 21) = (p + 21) + 2 + 1
    <3>1. p + 21 \in Nat /\ (p + 21) + 1 = p + 22 /\ 1 \in 0 .. 126
      OBVIOUS
    <3> QED  BY <1>17, <3>1, ShortAt
  <2> QED  BY <1>17, <2>1 DEF ElementIs
<1>22. ByteAt(p + 13) * 256 + ByteAt(p + 14) = SmpCnt + k
  BY <1>2, <1>15 DEF n
<1> QED  BY <1>18, <1>19, <1>20, <1>21, <1>22 DEF HeaderLaid

\* The packet is complete but for its being encoded.
Ready ==
  /\ data = [k \in Index |-> After(k)]
  /\ size = [k \in Index |-> SizeOf(k)]

LEMMA LengthsKnown ==
  Picked /\ Ready => \A k \in Index :
    /\ size[k] = SizeOf(k) /\ SizeOf(k) \in 0 .. 64
    /\ DataBytes(k) = Sent(k)
    /\ ASDULength(k) = (IF HasHeader(mode, k) THEN 24 ELSE 0) + (SizeOf(k) + 2)
    /\ ASDULength(k) \in 2 .. 90
    /\ WholeASDU(k) = ASDULength(k) + 2
<1> HAVE Picked /\ Ready
<1> TAKE k \in Index
<1>1. 0 \in Index
  BY SvPacketAssumption DEF Index
<1>2. size[k] = SizeOf(k) /\ data[k] = After(k) /\ size[0] = SizeOf(0)
  BY <1>1 DEF Ready
<1>3. DataBytes(k) = Sent(k)
  BY <1>2 DEF DataBytes, Sent
<1>4. SizeOf(k) \in 0 .. 64
  BY AreasAre
<1>5. mode \in Modes
  BY DEF Picked
<1>6. ASDUHeaderLength = 24
  BY DEF ASDUHeaderLength
<1>7. ElementLength(SizeOf(k)) = SizeOf(k) + 2
  <2> HIDE DEF SizeOf
  <2> QED  BY <1>4 DEF ElementLength, getLengthBytes
<1>8. ASDULength(k) = (IF HasHeader(mode, k) THEN 24 ELSE 0) + (SizeOf(k) + 2)
  <2>1. CASE mode = "NO_COMPRESSION"
    <3>1. SizeOf(k) = 64 /\ SizeOf(0) = 64 /\ HasHeader(mode, k)
      BY <2>1 DEF SizeOf, FullSize, InFull, HasHeader
    <3>2. ElementLength(size[0]) = SizeOf(k) + 2
      BY <1>2, <1>7, <3>1
    <3> QED  BY <1>6, <2>1, <3>1, <3>2 DEF ASDULength, svASDULength
  <2>2. CASE mode # "NO_COMPRESSION"
    <3>1. ASDULength(k) = svASDULength_compress(k)
      BY <2>2 DEF ASDULength
    <3> QED  BY <1>2, <1>6, <1>7, <3>1 DEF svASDULength_compress
  <2> QED  BY <2>1, <2>2
<1> DEFINE l == ASDULength(k)
           n == SizeOf(k)
           h == IF HasHeader(mode, k) THEN 24 ELSE 0
<1>9. l \in 2 .. 90
  <2>1. h \in {0, 24}
    OBVIOUS
  <2>2. l = h + (n + 2) /\ n \in 0 .. 64
    BY <1>4, <1>8
  <2> HIDE DEF l, n, h
  <2> QED  BY <2>1, <2>2
<1>10. WholeASDU(k) = l + 2
  <2> HIDE DEF l
  <2>1. ElementLength(l) = l + 2
    BY <1>9 DEF ElementLength, getLengthBytes
  <2> QED  BY <2>1 DEF WholeASDU, l
<1> QED  BY <1>2, <1>3, <1>4, <1>8, <1>9, <1>10

\* What ASDU k is made of.
DataLaid(p, e, k) ==
  /\ ElementIs(p, SEQUENCEOFDATA, p + 2, e)
  /\ p < e
  /\ Lies(p + 2, Sent(k))
  /\ e = p + 2 + SizeOf(k)

ASDULaid(p, e, k) ==
  /\ ElementIs(p, ASDUTAG, p + 2, e)
  /\ HasHeader(mode, k) => HeaderLaid(p + 2, k) /\ DataLaid(p + 26, e, k)
  /\ ~ HasHeader(mode, k) => DataLaid(p + 2, e, k)

LEMMA ByteThere ==
  \A p \in Nat : \A b : Lies(p, <<b>>) => ByteAt(p) = b
<1> TAKE p \in Nat
<1> TAKE b
<1> HAVE Lies(p, <<b>>)
<1>1. p + (1 - 1) = p /\ Len(<<b>>) = 1 /\ <<b>>[1] = b
  OBVIOUS
<1> QED  BY <1>1 DEF Lies

LEMMA OneByte ==
  \A b \in Byte : OfLength(<<b>>, 1)
BY DEF OfLength

LEMMA ASDURead ==
  Picked /\ Ready => \A k \in Index :
    /\ OfLength(ASDUBytes(k), WholeASDU(k))
    /\ \A p \in Nat : Lies(p, ASDUBytes(k)) => ASDULaid(p, p + WholeASDU(k), k)
<1> HAVE Picked /\ Ready
<1> TAKE k \in Index
<1> DEFINE l == ASDULength(k)
           n == SizeOf(k)
           m == IF HasHeader(mode, k) THEN 24 ELSE 0
           a1 == <<ASDUTAG>>
           a2 == encodeLength(l)
           a3 == IF HasHeader(mode, k) THEN HeaderBytes(k) ELSE <<>>
           a4 == <<SEQUENCEOFDATA>>
           a5 == encodeLength(n)
           a6 == Sent(k)
<1>1. l = m + (n + 2) /\ l \in 2 .. 90 /\ n \in 0 .. 64 /\ WholeASDU(k) = l + 2
  BY LengthsKnown
<1>2. ASDUBytes(k) = ((((a1 \o a2) \o a3) \o a4) \o a5) \o a6
  <2>1. size[k] = n /\ DataBytes(k) = a6
    BY LengthsKnown
  <2> QED  BY <2>1 DEF ASDUBytes
<1>3. OfLength(a6, n)
  BY <1>1, AreasAre DEF OfLength
<1>4. OfLength(a3, m) /\ m \in Nat
  <2>1. OfLength(<<>>, 0)
    BY EmptySeq DEF OfLength
  <2>2. OfLength(HeaderBytes(k), 24)
    BY HeaderRead
  <2> QED  BY <2>1, <2>2
<1> HIDE DEF l, n, m, a3, a6
<1>5. a2 = <<l>> /\ a5 = <<n>>
  BY <1>1 DEF encodeLength
<1> HIDE DEF a2, a5
<1>6. OfLength(a1, 1) /\ OfLength(a2, 1) /\ OfLength(a4, 1) /\ OfLength(a5, 1)
  <2>1. l \in Byte /\ n \in Byte /\ ASDUTAG \in Byte /\ SEQUENCEOFDATA \in Byte
    BY <1>1 DEF Byte, ASDUTAG, SEQUENCEOFDATA
  <2> QED  BY <1>5, <2>1, OneByte
<1> DEFINE g2 == a1 \o a2
           g3 == g2 \o a3
           g4 == g3 \o a4
           g5 == g4 \o a5
<1> HIDE DEF a1, a4
<1>7. OfLength(g2, 2)
  <2>1. OfLength(g2, 1 + 1)
    BY <1>6, CatLength, Zenon
  <2> HIDE DEF g2
  <2> QED  BY <2>1
<1> HIDE DEF g2
<1>8. OfLength(g3, 2 + m)
  BY <1>4, <1>7, CatLength, Zenon
<1> HIDE DEF g3
<1>9. OfLength(g4, (2 + m) + 1)
  BY <1>6, <1>8, CatLength, Zenon
<1> HIDE DEF g4
<1>10. OfLength(g5, ((2 + m) + 1) + 1)
  BY <1>6, <1>9, CatLength, Zenon
<1> HIDE DEF g5
<1>11. ASDUBytes(k) = g5 \o a6
  BY <1>2 DEF g2, g3, g4, g5
<1>12. OfLength(ASDUBytes(k), WholeASDU(k))
  <2>1. OfLength(g5 \o a6, (((2 + m) + 1) + 1) + n)
    BY <1>3, <1>10, CatLength, Zenon
  <2>2. (((2 + m) + 1) + 1) + n = l + 2
    BY <1>1, <1>4
  <2> QED  BY <1>1, <1>11, <2>1, <2>2
<1> SUFFICES ASSUME NEW p \in Nat, Lies(p, ASDUBytes(k))
             PROVE  ASDULaid(p, p + WholeASDU(k), k)
  BY <1>12
<1>13. Lies(p, g5) /\ Lies(p + (((2 + m) + 1) + 1), a6)
  <2>1. Lies(p, g5 \o a6)
    BY <1>11
  <2> QED  BY <1>3, <1>10, <2>1, LiesSplit
<1>14. Lies(p, g4) /\ Lies(p + ((2 + m) + 1), a5)
  <2>1. Lies(p, g4 \o a5)
    BY <1>13 DEF g5
  <2> QED  BY <1>6, <1>9, <2>1, LiesSplit
<1>15. Lies(p, g3) /\ Lies(p + (2 + m), a4)
  <2>1. Lies(p, g3 \o a4)
    BY <1>14 DEF g4
  <2> QED  BY <1>6, <1>8, <2>1, LiesSplit
<1>16. Lies(p, g2) /\ Lies(p + 2, a3)
  <2>1. Lies(p, g2 \o a3)
    BY <1>15 DEF g3
  <2> QED  BY <1>4, <1>7, <2>1, LiesSplit
<1>17. Lies(p, a1) /\ Lies(p + 1, a2)
  <2>1. Lies(p, a1 \o a2)
    BY <1>16 DEF g2
  <2> QED  BY <1>6, <2>1, LiesSplit
<1> DEFINE e == p + WholeASDU(k)
           d == p + (2 + m)
<1>18. e = p + (l + 2) /\ e = d + 2 + n /\ d \in Nat /\ e \in Nat
  BY <1>1, <1>4
<1>19. ElementIs(p, ASDUTAG, p + 2, e)
  <2>1. ByteAt(p) = ASDUTAG
    BY <1>17, ByteThere DEF a1
  <2>2. ByteAt(p + 1) = l
    BY <1>5, <1>17, ByteThere
  <2>3. ContentsAt(p) = p + 2 /\ EndAt(p) = p + 2 + l
    BY <1>1, <2>2, ShortAt
  <2>4. e = p + 2 + l
    BY <1>1, <1>18
  <2> QED  BY <2>1, <2>3, <2>4 DEF ElementIs
<1> HIDE DEF e
<1>20. DataLaid(d, e, k)
  <2>1. ByteAt(d) = SEQUENCEOFDATA
    BY <1>15, <1>18, ByteThere DEF a4
  <2>2. ByteAt(d + 1) = n
    <3>1. d + 1 = p + ((2 + m) + 1)
      BY <1>4
    <3> QED  BY <1>5, <1>14, <1>18, <3>1, ByteThere
  <2>3. ContentsAt(d) = d + 2 /\ EndAt(d) = d + 2 + n
    BY <1>1, <1>18, <2>2, ShortAt
  <2>4. Lies(d + 2, a6)
    <3>1. d + 2 = p + (((2 + m) + 1) + 1)
      BY <1>4
    <3> QED  BY <1>13, <3>1
  <2>5. d < e
    BY <1>1, <1>18
  <2> HIDE DEF d
  <2> QED  BY <1>18, <2>1, <2>3, <2>4, <2>5 DEF DataLaid, ElementIs, a6, n
<1>21. CASE HasHeader(mode, k)
  <2>1. m = 24 /\ a3 = HeaderBytes(k)
    BY <1>21 DEF m, a3
  <2>2. d = p + 26
    BY <2>1
  <2>3. HeaderLaid(p + 2, k)
    BY <1>16, <2>1, HeaderRead
  <2> QED  BY <1>19, <1>20, <1>21, <2>2, <2>3 DEF ASDULaid, e
<1>22. CASE ~ HasHeader(mode, k)
  <2>1. m = 0
    BY <1>22 DEF m
  <2>2. d = p + 2
    BY <2>1
  <2> QED  BY <1>19, <1>20, <1>22, <2>2 DEF ASDULaid, e
<1> QED  BY <1>21, <1>22

LEMMA TotalAlike ==
  \A n, c \in Nat : \A lengths \in [1 .. n -> Nat] :
    (\A i \in 1 .. n : lengths[i] = c) => Total(lengths) = n * c
<1> TAKE n, c \in Nat
<1> TAKE lengths \in [1 .. n -> Nat]
<1> HAVE \A i \in 1 .. n : lengths[i] = c
<1>1. PICK s : Sums(s, n, lengths) /\ Total(lengths) = s[n]
  BY TotalIs
<1> DEFINE T == {i \in 0 .. n : s[i] = i * c}
<1>2. T \in SUBSET (0 .. n)
  OBVIOUS
<1>3. 0 \in T
  <2>1. 0 * c = 0 /\ s[0] = 0
    BY <1>1 DEF Sums
  <2> QED  BY <2>1
<1>4. ASSUME NEW i \in 1 .. n, i - 1 \in T
      PROVE  i \in T
  <2>1. s[i] = s[i - 1] + c /\ s[i - 1] = (i - 1) * c
    BY <1>1, <1>4 DEF Sums
  <2>2. (i - 1) * c + c = i * c
    OBVIOUS
  <2>3. i \in 0 .. n
    OBVIOUS
  <2> QED  BY <2>1, <2>2, <2>3
<1> HIDE DEF T
<1>5. n \in T
  BY <1>2, <1>3, <1>4, Upwards
<1> QED  BY <1>1, <1>5 DEF T

(* The length of all ASDUs, whichever way it is computed.                    *)
LEMMA SeqLengthIs ==
  Picked /\ Ready =>
    /\ SeqLength = Total([i \in 1 .. NoASDU |-> WholeASDU(i - 1)])
    /\ SeqLength \in Nat /\ SeqLength <= 11684
<1> HAVE Picked /\ Ready
<1> DEFINE lengths == [i \in 1 .. NoASDU |-> WholeASDU(i - 1)]
<1>1. NoASDU \in Nat /\ NoASDU \in 1 .. 127
  BY SvPacketAssumption
<1>2. ASSUME NEW i \in 1 .. NoASDU
      PROVE  /\ WholeASDU(i - 1) \in Nat /\ WholeASDU(i - 1) <= 92
             /\ mode = "NO_COMPRESSION" => WholeASDU(i - 1) = 92
  <2>1. i - 1 \in Index
    BY <1>1 DEF Index
  <2> DEFINE l == ASDULength(i - 1)
             h == IF HasHeader(mode, i - 1) THEN 24 ELSE 0
             n == SizeOf(i - 1)
  <2>2. l \in 2 .. 90 /\ WholeASDU(i - 1) = l + 2 /\ l = h + (n + 2)
    BY <2>1, LengthsKnown
  <2>3. mode = "NO_COMPRESSION" => h = 24 /\ n = 64
    BY DEF HasHeader, SizeOf, InFull, FullSize
  <2> HIDE DEF l, h, n
  <2> QED  BY <2>2, <2>3
<1>3. lengths \in [1 .. NoASDU -> Nat] /\ \A i \in 1 .. NoASDU : lengths[i] <= 92
  BY <1>2
<1>4. mode = "NO_COMPRESSION" => Total(lengths) = NoASDU * 92
  <2> HAVE mode = "NO_COMPRESSION"
  <2>1. \A i \in 1 .. NoASDU : lengths[i] = 92
    BY <1>2
  <2> HIDE DEF lengths
  <2> QED  BY <1>1, <1>3, <2>1, TotalAlike
<1>5. mode = "NO_COMPRESSION" => WholeASDU(0) = 92
  <2>1. 1 \in 1 .. NoASDU /\ 1 - 1 = 0
    BY <1>1
  <2> QED  BY <1>2, <2>1
<1>6. SeqLength = Total(lengths)
  BY <1>4, <1>5 DEF SeqLength, svSeqLength, svSeqLength_compress
<1> HIDE DEF lengths
<1>7. Total(lengths) \in Nat /\ Total(lengths) <= NoASDU * 92
  BY <1>1, <1>3, TotalSmall
<1>8. Total(lengths) \in Nat /\ Total(lengths) <= 11684
  BY <1>1, <1>7
<1> QED  BY <1>6, <1>8 DEF lengths

\* Where the ASDUs begin, one after the other, and where the packet ends; q is what
\* comes first inside.
Laid(s, q) ==
  /\ s \in [0 .. NoASDU -> Nat] /\ q \in Nat
  /\ ByteAt(7) = SAVPDU /\ ContentsAt(7) = q
  /\ ElementIs(q, NOASDU, q + 2, q + 3)
  /\ ByteAt(q + 2) = NoASDU
  /\ ByteAt(q + 3) = SEQUENCEOFASDU /\ ContentsAt(q + 3) = s[0]
  /\ \A k \in Index : ASDULaid(s[k], s[k + 1], k)
  /\ s[NoASDU] = Len(packet) + 1 /\ Len(packet) \in Nat
  /\ packet[1] * 256 + packet[2] = Len(packet) + 2

(* The ASDUs lie one behind the other.                                       *)
LEMMA ASDUsLaid ==
  Picked /\ Ready => \A z \in Nat :
    LET parts == [k \in 1 .. NoASDU |-> ASDUBytes(k - 1)] IN
      /\ OfLength(FlattenSeq(parts), SeqLength)
      /\ Lies(z, FlattenSeq(parts)) =>
           \E s \in [0 .. NoASDU -> Nat] :
             /\ s[0] = z
             /\ \A k \in Index : ASDULaid(s[k], s[k + 1], k)
             /\ s[NoASDU] = z + SeqLength
<1> HAVE Picked /\ Ready
<1> TAKE z \in Nat
<1> DEFINE parts == [k \in 1 .. NoASDU |-> ASDUBytes(k - 1)]
<1>1. NoASDU \in Nat /\ NoASDU \in 1 .. 127
  BY SvPacketAssumption
<1>2. ASSUME NEW k \in 1 .. NoASDU
      PROVE  /\ k - 1 \in Index /\ OfLength(ASDUBytes(k - 1), WholeASDU(k - 1))
             /\ \A p \in Nat : Lies(p, ASDUBytes(k - 1)) =>
                  ASDULaid(p, p + WholeASDU(k - 1), k - 1)
  <2>1. k - 1 \in Index
    BY <1>1 DEF Index
  <2> QED  BY <2>1, ASDURead
<1>3. parts \in [1 .. NoASDU -> Seq(Byte)]
  BY <1>2 DEF OfLength
<1>4. PICK f : Joins(f, NoASDU, parts) /\ FlattenSeq(parts) = f[NoASDU]
  <2> HIDE DEF parts
  <2> QED  BY <1>1, <1>3, JoinedIs
<1>5. FlattenSeq(parts) \in Seq(Byte) /\ Len(FlattenSeq(parts)) = SeqLength
  <2>1. [i \in 1 .. NoASDU |-> Len(parts[i])] = [i \in 1 .. NoASDU |-> WholeASDU(i - 1)]
    BY <1>2 DEF OfLength
  <2>2. SeqLength = Total([i \in 1 .. NoASDU |-> WholeASDU(i - 1)])
    BY SeqLengthIs
  <2> HIDE DEF parts
  <2>3. /\ FlattenSeq(parts) \in Seq(Byte)
        /\ Len(FlattenSeq(parts)) = Total([i \in 1 .. NoASDU |-> Len(parts[i])])
    BY <1>1, <1>3, JoinedLength
  <2> QED  BY <2>1, <2>2, <2>3
<1>6. OfLength(FlattenSeq(parts), SeqLength)
  BY <1>5, SeqLengthIs DEF OfLength
<1> SUFFICES ASSUME Lies(z, FlattenSeq(parts))
             PROVE  \E s \in [0 .. NoASDU -> Nat] :
                      /\ s[0] = z
                      /\ \A k \in Index : ASDULaid(s[k], s[k + 1], k)
                      /\ s[NoASDU] = z + SeqLength
  BY <1>6
<1> DEFINE s == [i \in 0 .. NoASDU |-> z + Len(f[i])]
<1>7. \A i \in 1 .. NoASDU : parts[i] = ASDUBytes(i - 1)
  OBVIOUS
<1> HIDE DEF parts
<1>8. \A i \in 0 .. NoASDU : f[i] \in Seq(Byte) /\ Len(f[i]) \in Nat
  BY <1>4 DEF Joins
<1>9. s \in [0 .. NoASDU -> Nat] /\ s[0] = z
  <2>1. f[0] = <<>> /\ Len(<<>>) = 0
    BY <1>4 DEF Joins
  <2>2. 0 \in 0 .. NoASDU
    BY <1>1
  <2> QED  BY <1>8, <2>1, <2>2
<1>10. s[NoASDU] = z + SeqLength
  <2>1. NoASDU \in 0 .. NoASDU
    BY <1>1
  <2> QED  BY <1>4, <1>5, <2>1
<1>11. ASSUME NEW k \in Index
       PROVE  ASDULaid(s[k], s[k + 1], k)
  <2> DEFINE i == k + 1
  <2>1. i \in 1 .. NoASDU /\ i \in 0 .. NoASDU /\ i - 1 = k /\ k \in 0 .. NoASDU
    BY <1>1 DEF Index
  <2>2. Lies(z + Len(f[k]), ASDUBytes(k))
    <3>1. \A j \in 1 .. NoASDU : Lies(z + Len(f[j - 1]), parts[j])
      BY <1>1, <1>3, <1>4, LiesJoined
    <3>2. Lies(z + Len(f[i - 1]), parts[i])
      BY <2>1, <3>1
    <3>3. parts[i] = ASDUBytes(k)
      BY <1>7, <2>1
    <3> QED  BY <2>1, <3>2, <3>3
  <2>3. OfLength(ASDUBytes(k), WholeASDU(k))
    BY ASDURead
  <2>4. f[i] = f[k] \o ASDUBytes(k) /\ f[k] \in Seq(Byte)
    BY <1>4, <1>7, <1>8, <2>1 DEF Joins
  <2>5. Len(f[i]) = Len(f[k]) + WholeASDU(k)
    BY <2>3, <2>4, Cat DEF OfLength
  <2>6. s[k] = z + Len(f[k]) /\ s[i] = z + Len(f[i])
    BY <2>1
  <2>7. s[k] \in Nat
    BY <1>9, <2>1
  <2>8. s[i] = s[k] + WholeASDU(k)
    <3> DEFINE n == Len(f[k])
    <3>1. n \in Nat /\ WholeASDU(k) \in Nat
      BY <1>8, <2>1, <2>3 DEF OfLength
    <3> HIDE DEF n, s, i
    <3>2. z + (n + WholeASDU(k)) = (z + n) + WholeASDU(k)
      BY <3>1
    <3> QED  BY <2>5, <2>6, <3>2 DEF n
  <2>9. Lies(s[k], ASDUBytes(k))
    BY <2>2, <2>6
  <2> HIDE DEF s
  <2> QED  BY <2>7, <2>8, <2>9, ASDURead DEF i
<1> HIDE DEF s
<1> QED  BY <1>9, <1>10, <1>11

(* A complete packet.                                                        *)
LEMMA PacketLaid ==
  Picked /\ Ready /\ packet = svEncodePacket => \E s, q : Laid(s, q)
<1> HAVE Picked /\ Ready /\ packet = svEncodePacket
<1> DEFINE l == SeqLength
           v == svAPDULength
           x == getLengthBytes(v)
           y == getLengthBytes(l)
           high == PacketLength \div 256
           low == PacketLength % 256
           b1 == <<high, low, 0, 0, 0, 0>>
           b2 == <<SAVPDU>>
           b3 == encodeLength(v)
           b4 == <<NOASDU, 1, NoASDU>>
           b5 == <<SEQUENCEOFASDU>>
           b6 == encodeLength(l)
           b7 == FlattenSeq([k \in 1 .. NoASDU |-> ASDUBytes(k - 1)])
<1>1. packet = (((((b1 \o b2) \o b3) \o b4) \o b5) \o b6) \o b7
  BY DEF svEncodePacket
<1>2. l \in Nat /\ l <= 11684 /\ v = l + y + 1 + 3 /\ PacketLength = v + x + 1 + 8
  BY SeqLengthIs DEF svAPDULength, PacketLength, ElementLength
<1>3. OfLength(b7, l)
  <2>1. 0 \in Nat
    OBVIOUS
  <2> QED  BY <2>1, ASDUsLaid
<1> HIDE DEF l, v, b7
<1>4. OfLength(b6, y) /\ y \in 1 .. 3
  BY <1>2, LengthInBytes DEF OfLength
<1>5. OfLength(b3, x) /\ x \in 1 .. 3 /\ v \in Nat /\ v < 256 * 256
  <2>1. v \in Nat /\ v < 256 * 256
    BY <1>2, <1>4
  <2> QED  BY <2>1, LengthInBytes DEF OfLength
<1>6. PacketLength \in Nat /\ PacketLength < 256 * 256
  BY <1>2, <1>4, <1>5
<1>7. high \in Byte /\ low \in Byte /\ high * 256 + low = PacketLength
  BY <1>6, TwoBytes DEF Byte
<1> HIDE DEF x, y, high, low, b3, b6
<1>8. OfLength(b1, 6) /\ b1[1] = high /\ b1[2] = low
  BY <1>7 DEF OfLength, Byte
<1>9. OfLength(b2, 1) /\ OfLength(b5, 1)
  BY OneByte DEF SAVPDU, SEQUENCEOFASDU, Byte
<1>10. OfLength(b4, 3) /\ b4[1] = NOASDU /\ b4[2] = 1 /\ b4[3] = NoASDU
  <2>1. NoASDU \in Byte
    BY SvPacketAssumption DEF Byte
  <2> QED  BY <2>1 DEF OfLength, Byte, NOASDU
<1> HIDE DEF b1, b2, b4, b5
<1> DEFINE g2 == b1 \o b2
           g3 == g2 \o b3
           g4 == g3 \o b4
           g5 == g4 \o b5
           g6 == g5 \o b6
<1>11. OfLength(g2, 7)
  <2>1. OfLength(g2, 6 + 1)
    BY <1>8, <1>9, CatLength, Zenon
  <2> HIDE DEF g2
  <2> QED  BY <2>1
<1> HIDE DEF g2
<1>12. OfLength(g3, 7 + x)
  BY <1>5, <1>11, CatLength, Zenon
<1> HIDE DEF g3
<1>13. OfLength(g4, (7 + x) + 3)
  BY <1>10, <1>12, CatLength, Zenon
<1> HIDE DEF g4
<1>14. OfLength(g5, ((7 + x) + 3) + 1)
  BY <1>9, <1>13, CatLength, Zenon
<1> HIDE DEF g5
<1>15. OfLength(g6, (((7 + x) + 3) + 1) + y)
  BY <1>4, <1>14, CatLength, Zenon
<1> HIDE DEF g6
<1>16. packet = g6 \o b7
  BY <1>1 DEF g2, g3, g4, g5, g6
<1>17. OfLength(packet, ((((7 + x) + 3) + 1) + y) + l)
  BY <1>3, <1>15, <1>16, CatLength, Zenon
<1> DEFINE q == 8 + x
           z == 12 + x + y
<1>18. /\ 1 + 6 = 7 /\ 1 + 7 = 8 /\ 1 + (7 + x) = q /\ 1 + ((7 + x) + 3) = q + 3
       /\ 1 + (((7 + x) + 3) + 1) = q + 4 /\ 1 + ((((7 + x) + 3) + 1) + y) = z
       /\ q \in Nat /\ z \in Nat /\ q + 3 \in Nat
       /\ Len(packet) + 1 = z + l /\ Len(packet) + 2 = PacketLength
  BY <1>2, <1>4, <1>5, <1>17 DEF OfLength
<1>19. Lies(1, packet)
  <2> DEFINE n == Len(packet)
  <2>1. n \in Nat
    BY <1>17 DEF OfLength
  <2>2. \A i \in 1 .. n : ByteAt(1 + (i - 1)) = packet[i]
    <3> TAKE i \in 1 .. n
    <3> HIDE DEF n
    <3>1. 1 + (i - 1) = i /\ i <= n
      BY <2>1
    <3> QED  BY <3>1 DEF ByteAt, n
  <2> QED  BY <2>2 DEF Lies
<1> HIDE DEF q, z
<1>20. Lies(1, g6) /\ Lies(z, b7)
  BY <1>3, <1>15, <1>16, <1>18, <1>19, LiesSplit
<1>21. Lies(1, g5) /\ Lies(q + 4, b6)
  BY <1>4, <1>14, <1>18, <1>20, LiesSplit DEF g6
<1>22. Lies(1, g4) /\ Lies(q + 3, b5)
  BY <1>9, <1>13, <1>18, <1>21, LiesSplit DEF g5
<1>23. Lies(1, g3) /\ Lies(q, b4)
  BY <1>10, <1>12, <1>18, <1>22, LiesSplit DEF g4
<1>24. Lies(1, g2) /\ Lies(8, b3)
  BY <1>5, <1>11, <1>18, <1>23, LiesSplit DEF g3
<1>25. Lies(1, b1) /\ Lies(7, b2)
  BY <1>8, <1>9, <1>18, <1>24, LiesSplit DEF g2
<1>26. ByteAt(7) = SAVPDU /\ ContentsAt(7) = q
  <2>1. ByteAt(7) = SAVPDU
    BY <1>25, ByteThere DEF b2
  <2>2. ContentsAt(7) = 7 + 1 + x
    BY <1>5, <1>24, HeadingAt DEF b3, x
  <2> QED  BY <1>5, <2>1, <2>2 DEF q
<1>27. ByteAt(q) = NOASDU /\ ByteAt(q + 1) = 1 /\ ByteAt(q + 2) = NoASDU
  <2>1. q + (1 - 1) = q /\ q + (2 - 1) = q + 1 /\ q + (3 - 1) = q + 2
    BY <1>18
  <2> QED  BY <1>10, <1>23, <2>1 DEF Lies, OfLength
<1>28. ElementIs(q, NOASDU, q + 2, q + 3)
  <2>1. ContentsAt(q) = q + 2 /\ EndAt(q) = q + 2 + 1
    BY <1>18, <1>27, ShortAt
  <2> QED  BY <1>18, <1>27, <2>1 DEF ElementIs
<1>29. ByteAt(q + 3) = SEQUENCEOFASDU /\ ContentsAt(q + 3) = z
  <2>1. ByteAt(q + 3) = SEQUENCEOFASDU
    BY <1>18, <1>22, ByteThere DEF b5
  <2>2. (q + 3) + 1 = q + 4
    BY <1>18
  <2>3. ContentsAt(q + 3) = (q + 3) + 1 + y
    BY <1>2, <1>18, <1>21, <2>2, HeadingAt DEF b6, y
  <2>4. (q + 3) + 1 + y = z
    BY <1>4, <1>5 DEF q, z
  <2> QED  BY <2>1, <2>3, <2>4
<1>30. PICK s \in [0 .. NoASDU -> Nat] :
         /\ s[0] = z
         /\ \A k \in Index : ASDULaid(s[k], s[k + 1], k)
         /\ s[NoASDU] = z + l
  BY <1>18, <1>20, ASDUsLaid DEF b7, l
<1>31. packet[1] * 256 + packet[2] = Len(packet) + 2
  <2>1. 1 + (1 - 1) = 1 /\ 1 + (2 - 1) = 2 /\ 1 \in 1 .. 6 /\ 2 \in 1 .. 6
    OBVIOUS
  <2>2. ByteAt(1) = high /\ ByteAt(2) = low
    BY <1>8, <1>25, <2>1 DEF Lies, OfLength
  <2>3. 1 <= Len(packet) /\ 2 <= Len(packet)
    <3> DEFINE n == Len(packet)
    <3>1. n = ((((7 + x) + 3) + 1) + y) + l
      BY <1>17 DEF OfLength
    <3> HIDE DEF n
    <3>2. 1 <= n /\ 2 <= n
      BY <1>2, <1>4, <1>5, <3>1
    <3> QED  BY <3>2 DEF n
  <2>4. packet[1] = high /\ packet[2] = low
    BY <2>2, <2>3 DEF ByteAt
  <2> QED  BY <1>7, <1>18, <2>4
<1>32. Laid(s, q)
  BY <1>17, <1>18, <1>26, <1>27, <1>28, <1>29, <1>30, <1>31 DEF Laid, OfLength
<1> QED  BY <1>32

--------------------------------------------------------------------------------
(* What the decoders have of a packet. *)

\* Of a quality sent in full, what was in its bytes before.
LeftIn(k, f) ==
  (Before(k)[8 * f + 5] * ByteBase + Before(k)[8 * f + 6]) * (ByteBase * ByteBase)

\* The last ASDU before n that has a header.
Headed(n) == IF mode = "NO_COMPRESSION" THEN n - 1 ELSE 0

\* What is known once the ASDUs before n are decoded.
Got(n) ==
  /\ decoded = [k \in Index |-> decoded[k]]
  /\ quality = [k \in Index |-> quality[k]]
  /\ \A k \in Index :
       /\ k >= n \/ ~ HasHeader(mode, k) => decoded[k] = Zero /\ quality[k] = Zero
       /\ k < n /\ HasHeader(mode, k) /\ InFull(read, k) =>
            /\ decoded[k] = sample[k]
            /\ \A f \in Measurements : quality[k][f] = LeftIn(k, f)
  /\ n > 0 => counted = SmpCnt + Headed(n)

LEMMA ChosenStays ==
  ASSUME UNCHANGED chosen
  PROVE  /\ \A k : Before(k)' = Before(k) /\ After(k)' = After(k)
         /\ \A k : SizeOf(k)' = SizeOf(k) /\ Sent(k)' = Sent(k)
<1>1. mode' = mode /\ sample' = sample /\ left' = left
  BY DEF chosen
<1>2. \A k, f : Difference(k, f)' = Difference(k, f)
  BY <1>1 DEF Difference
<1>3. \A k : DifferenceBytes(k)' = DifferenceBytes(k)
  <2> TAKE k
  <2> DEFINE a == [f \in 1 .. 8 |-> Groups(ZigZag(Difference(k, f - 1))) \o Groups(0)]
             b == [f \in 1 .. 8 |-> Groups(ZigZag(Difference(k, f - 1)')) \o Groups(0)]
  <2>1. a = b
    BY <1>2
  <2>2. DifferenceBytes(k) = FlattenSeq(a) /\ DifferenceBytes(k)' = FlattenSeq(b)
    BY DEF DifferenceBytes
  <2> QED  BY <2>1, <2>2
<1>4. \A area, k : FullOver(area, k)' = FullOver(area, k)
  BY <1>1 DEF FullOver
<1>5. \A area, k : DifferencesOver(area, k)' = DifferencesOver(area, k)
  BY <1>3 DEF DifferencesOver
<1>6. \A m, area, k : SampleOver(m, area, k)' = SampleOver(m, area, k)
  BY <1>4, <1>5 DEF SampleOver
<1>7. \A k : Before(k)' = Before(k)
  BY <1>1, <1>6 DEF Before
<1>8. \A k : After(k)' = After(k)
  BY <1>1, <1>6, <1>7 DEF After
<1>9. \A k : SizeOf(k)' = SizeOf(k)
  BY <1>1, <1>3 DEF SizeOf
<1>10. \A k : Sent(k)' = Sent(k)
  BY <1>8, <1>9 DEF Sent
<1> QED  BY <1>7, <1>8, <1>9, <1>10

LEMMA PickedStays ==
  Picked /\ UNCHANGED chosen => Picked'
BY DEF Picked, Chosen, chosen

LEMMA LaidStays ==
  ASSUME NEW s, NEW q, Laid(s, q), UNCHANGED <<chosen, made>>
  PROVE  Laid(s, q)'
<1>1. UNCHANGED chosen /\ mode' = mode /\ filler' = filler /\ packet' = packet
  BY DEF chosen, made
<1>2. \A p : ByteAt(p)' = ByteAt(p)
  BY <1>1 DEF ByteAt
<1>3. \A p : ContentsAt(p)' = ContentsAt(p)
  BY <1>2 DEF ContentsAt
<1>4. \A p : EndAt(p)' = EndAt(p)
  BY <1>2, <1>3 DEF EndAt, LengthField
<1>5. \A p, tag, c, e : ElementIs(p, tag, c, e) => ElementIs(p, tag, c, e)'
  BY <1>2, <1>3, <1>4 DEF ElementIs
<1>6. \A p, b : Lies(p, b) => Lies(p, b)'
  BY <1>2 DEF Lies
<1>7. \A p, e, k : DataLaid(p, e, k) => DataLaid(p, e, k)'
  BY <1>1, <1>5, <1>6, ChosenStays DEF DataLaid
<1>8. \A p, k : HeaderLaid(p, k) => HeaderLaid(p, k)'
  BY <1>2, <1>5 DEF HeaderLaid
<1>9. \A p, e, k : ASDULaid(p, e, k) => ASDULaid(p, e, k)'
  BY <1>1, <1>5, <1>7, <1>8 DEF ASDULaid
<1> QED  BY <1>1, <1>2, <1>3, <1>5, <1>9 DEF Laid

LEMMA GotStays ==
  ASSUME NEW n, Got(n), UNCHANGED <<chosen, decoded, quality, counted>>
  PROVE  Got(n)'
<1>1. UNCHANGED chosen /\ mode' = mode /\ read' = read /\ sample' = sample
  BY DEF chosen
<1>2. \A k, f : LeftIn(k, f)' = LeftIn(k, f)
  <2>1. \A k : Before(k)' = Before(k)
    BY <1>1, ChosenStays
  <2> TAKE k, f
  <2>2. Before(k)' = Before(k)
    BY <2>1
  <2> QED  BY <2>2 DEF LeftIn
<1> QED  BY <1>1, <1>2 DEF Got, Headed

\* Where the decoder stands in ASDU number, which is at p and ends at e.
InHeader(p) ==
  /\ HasHeader(mode, number)
  /\ \/ elem = p + 2
     \/ elem = p + 13 /\ svID
     \/ elem \in {p + 17, p + 23, p + 26} /\ svID /\ smpCnt = SmpCnt + number

InASDU(p, e) ==
  \/ InHeader(p) /\ Got(number)
  \/ ~ HasHeader(mode, number) /\ elem = p + 2 /\ ~ svID /\ Got(number)
  \/ elem = e /\ Got(number + 1)

\* Where it stands in a packet of that layout, and what it has.
BeforeASDUs(q) ==
  /\ pc = "apdu" /\ number = 0 /\ Got(0)
  /\ \/ apdu = 7
     \/ apdu = q
     \/ apdu = q + 3 /\ total = NoASDU

AtASDU(s) ==
  /\ total = NoASDU /\ number \in Index /\ apdu = s[number]
  /\ \/ pc = "apdu" /\ Got(number)
     \/ pc = "asdu" /\ InASDU(s[number], s[number + 1])

BehindASDUs(s) ==
  pc = "done" /\ number = NoASDU /\ apdu = s[NoASDU - 1] /\ Got(NoASDU)

Decoding(s, q) == BeforeASDUs(q) \/ AtASDU(s) \/ BehindASDUs(s)

\* While the samples are put into their ASDUs.
Filling ==
  /\ pc = "update" /\ number \in Index /\ apdu = 7
  /\ data = [k \in Index |-> IF k < number THEN After(k) ELSE Before(k)]
  /\ size = [k \in Index |-> IF k < number THEN SizeOf(k) ELSE 0]
  /\ Got(0)

SvInv == Picked /\ (Filling \/ \E s, q : Laid(s, q) /\ Decoding(s, q))

LEMMA SvStart ==
  SvInit => SvInv
<1> HAVE SvInit
<1>1. Picked
  BY DEF SvInit, Picked, Chosen
<1>2. NoASDU \in 1 .. 127
  BY SvPacketAssumption
<1>3. 0 \in Index /\ \A k \in Index : ~ (k < 0)
  BY <1>2 DEF Index
<1>4. data = [k \in Index |-> IF k < 0 THEN After(k) ELSE Before(k)]
  BY <1>3 DEF SvInit, Before
<1>5. size = [k \in Index |-> IF k < 0 THEN SizeOf(k) ELSE 0]
  BY <1>3 DEF SvInit
<1>6. Got(0)
  BY <1>3 DEF SvInit, Got
<1>7. pc = "update" /\ number = 0 /\ apdu = 7
  BY DEF SvInit, APDUStart
<1> QED  BY <1>1, <1>3, <1>4, <1>5, <1>6, <1>7 DEF SvInv, Filling

(* The packet is complete with its last sample, and encoded then.            *)
LEMMA UpdateStep ==
  SvInv /\ Update => SvInv'
<1> HAVE SvInv /\ Update
<1>1. Picked /\ UNCHANGED chosen
  BY DEF SvInv, Update
<1>2. Picked'
  BY <1>1, PickedStays
<1>3. Filling
  BY DEF SvInv, Decoding, BeforeASDUs, AtASDU, BehindASDUs, Update
<1>4. NoASDU \in 1 .. 127
  BY SvPacketAssumption
<1>5. Got(0)'
  <2>1. Got(0) /\ UNCHANGED <<chosen, decoded, quality, counted>>
    BY <1>3 DEF Filling, Update
  <2> QED  BY <2>1, GotStays
<1>6. \A k : Before(k)' = Before(k) /\ After(k)' = After(k) /\ SizeOf(k)' = SizeOf(k)
  BY <1>1, ChosenStays
<1> DEFINE n == number + 1
<1>7. number \in Index /\ number \in Nat /\ n \in 1 .. NoASDU
  BY <1>3, <1>4 DEF Filling, Index
<1>8. \A k \in Index : k < n <=> (k < number \/ k = number)
  BY <1>7 DEF Index
<1>9. data' = [k \in Index |-> IF k < n THEN After(k) ELSE Before(k)]
  <2>1. data = [k \in Index |-> IF k < number THEN After(k) ELSE Before(k)]
    BY <1>3 DEF Filling
  <2>2. ~ (number < number)
    BY <1>7
  <2>3. data[number] = Before(number)
    BY <1>7, <2>1, <2>2
  <2>4. data' = [data EXCEPT ![number] = After(number)]
    BY <2>3 DEF Update, After
  <2> HIDE DEF n
  <2> QED  BY <1>7, <1>8, <2>1, <2>4
<1>10. size' = [k \in Index |-> IF k < n THEN SizeOf(k) ELSE 0]
  <2>1. size = [k \in Index |-> IF k < number THEN SizeOf(k) ELSE 0]
    BY <1>3 DEF Filling
  <2>2. size' = [size EXCEPT ![number] = SizeOf(number)]
    BY DEF Update, SizeOf
  <2> HIDE DEF n
  <2> QED  BY <1>7, <1>8, <2>1, <2>2
<1>11. apdu' = 7
  BY <1>3 DEF Filling, Update
<1>12. CASE n = NoASDU
  <2>1. number' = 0 /\ packet' = svEncodePacket' /\ pc' = "apdu"
    BY <1>12 DEF Update
  <2>2. \A k \in Index : k < n
    BY <1>12, <1>4 DEF Index
  <2>3. Ready'
    <3>1. data' = [k \in Index |-> After(k)'] /\ size' = [k \in Index |-> SizeOf(k)']
      BY <1>6, <1>9, <1>10, <2>2
    <3> QED  BY <3>1 DEF Ready
  <2>4. (Picked /\ Ready /\ packet = svEncodePacket => \E s, q : Laid(s, q))'
    BY PacketLaid, PTL
  <2>5. PICK s, q : Laid(s, q)'
    BY <1>2, <2>1, <2>3, <2>4
  <2>6. Decoding(s, q)'
    BY <1>5, <1>11, <2>1 DEF Decoding, BeforeASDUs
  <2> QED  BY <1>2, <2>5, <2>6 DEF SvInv
<1>13. CASE n # NoASDU
  <2>1. number' = n /\ pc' = "update"
    BY <1>3, <1>13 DEF Update, Filling
  <2>2. n \in Index
    BY <1>4, <1>7, <1>13 DEF Index
  <2>3. data' = [k \in Index |-> IF k < number' THEN After(k)' ELSE Before(k)']
    BY <1>6, <1>9, <2>1
  <2>4. size' = [k \in Index |-> IF k < number' THEN SizeOf(k)' ELSE 0]
    BY <1>6, <1>10, <2>1
  <2>5. Filling'
    BY <1>5, <1>11, <2>1, <2>2, <2>3, <2>4 DEF Filling
  <2> QED  BY <1>2, <2>5 DEF SvInv
<1> QED  BY <1>12, <1>13

(* What the elements of ASDU k are, counted from where it begins.            *)
LEMMA ASDUPlaces ==
  ASSUME NEW s, NEW q, Laid(s, q), NEW k \in Index
  PROVE  /\ s[k] \in Nat /\ s[k + 1] \in Nat
         /\ ElementIs(s[k], ASDUTAG, s[k] + 2, s[k + 1])
         /\ HasHeader(mode, k) =>
              /\ s[k] + 26 < s[k + 1]
              /\ ByteAt(s[k] + 2) = SVID /\ EndAt(s[k] + 2) = s[k] + 13
              /\ ByteAt(s[k] + 13) = SMPCNT /\ EndAt(s[k] + 13) = s[k] + 17
              /\ ByteAt(ContentsAt(s[k] + 13)) * 256 + ByteAt(ContentsAt(s[k] + 13) + 1)
                   = SmpCnt + k
              /\ ByteAt(s[k] + 17) = CONFREV /\ EndAt(s[k] + 17) = s[k] + 23
              /\ ByteAt(s[k] + 23) = SMPSYNCH /\ EndAt(s[k] + 23) = s[k] + 26
              /\ DataLaid(s[k] + 26, s[k + 1], k)
         /\ ~ HasHeader(mode, k) =>
              /\ s[k] + 2 < s[k + 1]
              /\ DataLaid(s[k] + 2, s[k + 1], k)
<1> DEFINE p == s[k]
           e == s[k + 1]
<1>1. k \in 0 .. NoASDU /\ k + 1 \in 0 .. NoASDU
  BY SvPacketAssumption DEF Index
<1>2. p \in Nat /\ e \in Nat
  BY <1>1 DEF Laid
<1>3. ASDULaid(p, e, k)
  BY DEF Laid
<1> HIDE DEF p, e
<1>4. ElementIs(p, ASDUTAG, p + 2, e)
  BY <1>3 DEF ASDULaid
<1>5. ~ HasHeader(mode, k) => p + 2 < e /\ DataLaid(p + 2, e, k)
  BY <1>3 DEF ASDULaid, DataLaid
<1>6. HasHeader(mode, k) => DataLaid(p + 26, e, k) /\ p + 26 < e /\ HeaderLaid(p + 2, k)
  BY <1>3 DEF ASDULaid, DataLaid
<1>7. /\ (p + 2) + 2 = p + 4 /\ (p + 2) + 11 = p + 13 /\ (p + 2) + 13 = p + 15
      /\ (p + 2) + 14 = p + 16 /\ (p + 2) + 15 = p + 17 /\ (p + 2) + 17 = p + 19
      /\ (p + 2) + 21 = p + 23 /\ (p + 2) + 23 = p + 25 /\ (p + 2) + 24 = p + 26
      /\ (p + 15) + 1 = p + 16
  BY <1>2
<1>8. HasHeader(mode, k) =>
        /\ ElementIs(p + 2, SVID, p + 4, p + 13)
        /\ ElementIs(p + 13, SMPCNT, p + 15, p + 17)
        /\ ByteAt(p + 15) * 256 + ByteAt(p + 16) = SmpCnt + k
        /\ ElementIs(p + 17, CONFREV, p + 19, p + 23)
        /\ ElementIs(p + 23, SMPSYNCH, p + 25, p + 26)
  <2> HAVE HasHeader(mode, k)
  <2>1. HeaderLaid(p + 2, k)
    BY <1>6
  <2> QED  BY <1>7, <2>1 DEF HeaderLaid
<1>9. HasHeader(mode, k) =>
        /\ ByteAt(p + 2) = SVID /\ EndAt(p + 2) = p + 13
        /\ ByteAt(p + 13) = SMPCNT /\ EndAt(p + 13) = p + 17 /\ ContentsAt(p + 13) = p + 15
        /\ ByteAt(p + 17) = CONFREV /\ EndAt(p + 17) = p + 23
        /\ ByteAt(p + 23) = SMPSYNCH /\ EndAt(p + 23) = p + 26
  BY <1>8 DEF ElementIs
<1> QED  BY <1>2, <1>4, <1>5, <1>6, <1>7, <1>8, <1>9 DEF p, e

(* An ASDU that is decoded, and one that is not.                             *)
LEMMA GotMore ==
  ASSUME NEW n \in Index, Got(n), HasHeader(mode, n), UNCHANGED chosen,
         NEW d, NEW u,
         decoded' = [decoded EXCEPT ![n] = d], quality' = [quality EXCEPT ![n] = u],
         InFull(read, n) => d = sample[n] /\ \A f \in Measurements : u[f] = LeftIn(n, f),
         counted' = SmpCnt + n
  PROVE  Got(n + 1)'
<1>1. NoASDU \in 1 .. 127 /\ n \in Nat
  BY SvPacketAssumption DEF Index
<1>2. mode' = mode /\ read' = read /\ sample' = sample
  BY DEF chosen
<1>3. \A k, f : LeftIn(k, f)' = LeftIn(k, f)
  <2>1. \A k : Before(k)' = Before(k)
    BY ChosenStays
  <2> TAKE k, f
  <2>2. Before(k)' = Before(k)
    BY <2>1
  <2> QED  BY <2>2 DEF LeftIn
<1>4. /\ decoded = [k \in Index |-> decoded[k]]
      /\ quality = [k \in Index |-> quality[k]]
  BY DEF Got
<1>5. /\ decoded' = [k \in Index |-> IF k = n THEN d ELSE decoded[k]]
      /\ quality' = [k \in Index |-> IF k = n THEN u ELSE quality[k]]
  BY <1>4
<1>6. /\ decoded' = [k \in Index |-> decoded'[k]]
      /\ quality' = [k \in Index |-> quality'[k]]
  BY <1>5
<1>7. counted' = SmpCnt + Headed(n + 1)'
  BY <1>1, <1>2 DEF Headed, HasHeader
<1>8. ASSUME NEW k \in Index
      PROVE  /\ k >= n + 1 \/ ~ HasHeader(mode, k) => decoded'[k] = Zero /\ quality'[k] = Zero
             /\ k < n + 1 /\ HasHeader(mode, k) /\ InFull(read, k) =>
                  /\ decoded'[k] = sample[k]
                  /\ \A f \in Measurements : quality'[k][f] = LeftIn(k, f)
  <2>1. CASE k = n
    <3>1. decoded'[k] = d /\ quality'[k] = u /\ ~ (k >= n + 1)
      BY <1>1, <1>5, <2>1
    <3> QED  BY <2>1, <3>1
  <2>2. CASE k # n
    <3>1. decoded'[k] = decoded[k] /\ quality'[k] = quality[k]
      BY <1>5, <2>2
    <3>2. (k >= n + 1 => k >= n) /\ (k < n + 1 => k < n)
      BY <1>1, <2>2 DEF Index
    <3> QED  BY <3>1, <3>2 DEF Got
  <2> QED  BY <2>1, <2>2
<1> HIDE DEF InFull, HasHeader
<1> QED  BY <1>2, <1>3, <1>6, <1>7, <1>8 DEF Got

LEMMA GotSkip ==
  ASSUME NEW n \in Index, Got(n), ~ HasHeader(mode, n)
  PROVE  Got(n + 1)
<1>1. NoASDU \in 1 .. 127 /\ n \in Nat
  BY SvPacketAssumption DEF Index
<1>2. n > 0 /\ mode # "NO_COMPRESSION"
  BY <1>1 DEF HasHeader
<1>3. counted = SmpCnt + Headed(n + 1)
  BY <1>2 DEF Got, Headed
<1>4. ASSUME NEW k \in Index
      PROVE  /\ k >= n + 1 => k >= n
             /\ k < n + 1 /\ HasHeader(mode, k) => k < n
  <2>1. k < n + 1 => k < n \/ k = n
    BY <1>1 DEF Index
  <2>2. k >= n + 1 => k >= n
    BY <1>1 DEF Index
  <2> QED  BY <2>1, <2>2
<1> HIDE DEF InFull, HasHeader
<1> QED  BY <1>3, <1>4 DEF Got

--------------------------------------------------------------------------------
(* The steps of the decoders. *)

LEMMA EnterStep ==
  ASSUME NEW s, NEW q, Laid(s, q), Decoding(s, q), Enter
  PROVE  Decoding(s, q)'
<1>1. /\ UNCHANGED chosen /\ UNCHANGED <<chosen, decoded, quality, counted>>
      /\ pc = "apdu" /\ pc' = pc /\ number' = number /\ total' = total
      /\ apdu' = ContentsAt(apdu) /\ ByteAt(apdu) \in {SAVPDU, SEQUENCEOFASDU}
  BY DEF Enter
<1>2. NoASDU \in 1 .. 127 /\ 0 \in Index
  BY SvPacketAssumption DEF Index
<1>3. CASE BeforeASDUs(q)
  <2>1. Got(0) /\ number = 0
    BY <1>3 DEF BeforeASDUs
  <2>2. Got(0)'
    BY <1>1, <2>1, GotStays
  <2>3. CASE apdu = 7
    <3>1. apdu' = q
      BY <1>1, <2>3 DEF Laid
    <3>2. BeforeASDUs(q)'
      BY <1>1, <2>1, <2>2, <3>1 DEF BeforeASDUs
    <3> QED  BY <3>2 DEF Decoding
  <2>4. CASE apdu = q
    BY <1>1, <2>4 DEF Laid, ElementIs, NOASDU, SAVPDU, SEQUENCEOFASDU
  <2>5. CASE apdu = q + 3 /\ total = NoASDU
    <3>1. apdu' = s[0]
      BY <1>1, <2>5 DEF Laid
    <3>2. AtASDU(s)'
      BY <1>1, <1>2, <2>1, <2>2, <2>5, <3>1 DEF AtASDU
    <3> QED  BY <3>2 DEF Decoding
  <2> QED  BY <1>3, <2>3, <2>4, <2>5 DEF BeforeASDUs
<1>4. CASE AtASDU(s)
  <2>1. ByteAt(apdu) = ASDUTAG
    BY <1>4, ASDUPlaces DEF AtASDU, ElementIs
  <2> QED  BY <1>1, <2>1 DEF ASDUTAG, SAVPDU, SEQUENCEOFASDU
<1>5. CASE BehindASDUs(s)
  BY <1>1, <1>5 DEF BehindASDUs
<1> QED  BY <1>3, <1>4, <1>5 DEF Decoding

LEMMA TakeNumberStep ==
  ASSUME NEW s, NEW q, Laid(s, q), Decoding(s, q), TakeNumber
  PROVE  Decoding(s, q)'
<1>1. /\ UNCHANGED chosen /\ UNCHANGED <<chosen, decoded, quality, counted>>
      /\ pc = "apdu" /\ pc' = pc /\ number' = number /\ total' = ByteAt(ContentsAt(apdu))
      /\ apdu' = EndAt(apdu) /\ ByteAt(apdu) = NOASDU
  BY DEF TakeNumber
<1>2. CASE BeforeASDUs(q)
  <2>1. Got(0) /\ number = 0
    BY <1>2 DEF BeforeASDUs
  <2>2. Got(0)'
    BY <1>1, <2>1, GotStays
  <2>3. CASE apdu = q
    <3>1. apdu' = q + 3 /\ total' = NoASDU
      BY <1>1, <2>3 DEF Laid, ElementIs
    <3>2. BeforeASDUs(q)'
      BY <1>1, <2>1, <2>2, <3>1 DEF BeforeASDUs
    <3> QED  BY <3>2 DEF Decoding
  <2>4. CASE apdu = 7 \/ apdu = q + 3
    BY <1>1, <2>4 DEF Laid, NOASDU, SAVPDU, SEQUENCEOFASDU
  <2> QED  BY <1>2, <2>3, <2>4 DEF BeforeASDUs
<1>3. CASE AtASDU(s)
  <2>1. ByteAt(apdu) = ASDUTAG
    BY <1>3, ASDUPlaces DEF AtASDU, ElementIs
  <2> QED  BY <1>1, <2>1 DEF ASDUTAG, NOASDU
<1>4. CASE BehindASDUs(s)
  BY <1>1, <1>4 DEF BehindASDUs
<1> QED  BY <1>2, <1>3, <1>4 DEF Decoding

LEMMA EnterASDUStep ==
  ASSUME NEW s, NEW q, Laid(s, q), Decoding(s, q), EnterASDU
  PROVE  Decoding(s, q)'
<1>1. /\ UNCHANGED chosen /\ UNCHANGED <<chosen, decoded, quality, counted>>
      /\ pc = "apdu" /\ pc' = "asdu" /\ number' = number /\ total' = total
      /\ apdu' = apdu /\ ByteAt(apdu) = ASDUTAG
      /\ elem' = ContentsAt(apdu) /\ ~ svID' /\ mode' = mode
  BY DEF EnterASDU, chosen
<1>2. CASE BeforeASDUs(q)
  <2>1. ByteAt(apdu) \in {SAVPDU, NOASDU, SEQUENCEOFASDU}
    BY <1>2 DEF BeforeASDUs, Laid, ElementIs
  <2> QED  BY <1>1, <2>1 DEF ASDUTAG, SAVPDU, NOASDU, SEQUENCEOFASDU
<1>3. CASE AtASDU(s)
  <2>1. number \in Index /\ apdu = s[number] /\ total = NoASDU /\ Got(number)
    BY <1>1, <1>3 DEF AtASDU
  <2>2. elem' = s[number] + 2
    BY <1>1, <2>1, ASDUPlaces DEF ElementIs
  <2>3. Got(number)'
    <3> DEFINE n == number
    <3>1. Got(n)
      BY <2>1
    <3>2. \A m : Got(m) => Got(m)'
      BY <1>1, GotStays
    <3>3. \A m : m = number /\ Got(m)' => Got(number)'
      BY <1>1
    <3> QED  BY <2>1, <3>2, <3>3
  <2>4. InASDU(s[number], s[number + 1])'
    BY <1>1, <2>2, <2>3 DEF InASDU, InHeader
  <2>5. AtASDU(s)'
    BY <1>1, <2>1, <2>4 DEF AtASDU
  <2> QED  BY <2>5 DEF Decoding
<1>4. CASE BehindASDUs(s)
  BY <1>1, <1>4 DEF BehindASDUs
<1> QED  BY <1>2, <1>3, <1>4 DEF Decoding

\* What the three decoders of a field have in common: all take the one dataset, with
\* what it says if they read it in full.
FieldTaken ==
  /\ UNCHANGED chosen
  /\ pc = "asdu" /\ pc' = pc /\ elem < EndAt(apdu)
  /\ apdu' = apdu /\ number' = number /\ total' = total
  /\ elem' = EndAt(elem)
  /\ svID \/ ByteAt(elem) = SVID => svID'
  /\ ByteAt(elem) = SMPCNT =>
       smpCnt' = ByteAt(ContentsAt(elem)) * 256 + ByteAt(ContentsAt(elem) + 1)
  /\ ByteAt(elem) # SMPCNT => smpCnt' = smpCnt
  /\ ~ (ByteAt(elem) = SEQUENCEOFDATA /\ svID) =>
       UNCHANGED decoded /\ UNCHANGED quality /\ UNCHANGED counted
  /\ ByteAt(elem) = SEQUENCEOFDATA /\ svID =>
       /\ counted' = smpCnt
       /\ \E d, u :
            /\ decoded' = [decoded EXCEPT ![number] = d]
            /\ quality' = [quality EXCEPT ![number] = u]
            /\ InFull(read, number) =>
                 d = FullAt(ContentsAt(elem)) /\ u = QualitiesAt(ContentsAt(elem))

LEMMA FieldsTaken ==
  PlainField \/ FirstField \/ DifferenceField => FieldTaken
<1>1. PlainField => FieldTaken
  BY DEF PlainField, Field, TakeFull, FieldTaken
<1>2. FirstField => FieldTaken
  BY DEF FirstField, Field, TakeFull, FieldTaken
<1>3. DifferenceField => FieldTaken
  <2> HAVE DifferenceField
  <2>1. ~ InFull(read, number)
    BY DEF DifferenceField, InFull
  <2> QED  BY <2>1 DEF DifferenceField, Field, TakeDifferences, FieldTaken
<1> QED  BY <1>1, <1>2, <1>3

\* The dataset of an ASDU with a header.
LEMMA DatasetStep ==
  ASSUME NEW s, NEW q, Picked, Laid(s, q), FieldTaken,
         number \in Index, HasHeader(mode, number), Got(number),
         elem = s[number] + 26, svID, smpCnt = SmpCnt + number
  PROVE  elem' = s[number + 1] /\ Got(number + 1)'
<1> DEFINE n == number
           p == s[n] + 26
           e == s[n + 1]
<1>1. p \in Nat /\ DataLaid(p, e, n)
  BY ASDUPlaces
<1> HIDE DEF p, e
<1>2. elem = p /\ ByteAt(p) = SEQUENCEOFDATA /\ ContentsAt(p) = p + 2 /\ EndAt(p) = e
      /\ Lies(p + 2, Sent(n))
  BY <1>1 DEF p, DataLaid, ElementIs
<1>3. elem' = e /\ counted' = SmpCnt + n /\ UNCHANGED chosen /\ n' = n
  BY <1>2 DEF FieldTaken
<1>4. PICK d, u :
        /\ decoded' = [decoded EXCEPT ![n] = d]
        /\ quality' = [quality EXCEPT ![n] = u]
        /\ InFull(read, n) => d = FullAt(p + 2) /\ u = QualitiesAt(p + 2)
  BY <1>2 DEF FieldTaken
<1>5. /\ FullAt(p + 2) = sample[n]
      /\ \A f \in Measurements : QualitiesAt(p + 2)[f] = LeftIn(n, f)
  <2>1. InFull(mode, n)
    BY DEF InFull, HasHeader
  <2>2. IsArea(Before(n)) /\ Sent(n) = FullOver(Before(n), n)
    BY <2>1, AreasAre
  <2>3. Lies(p + 2, FullOver(Before(n), n))
    BY <1>2, <2>2
  <2>4. p + 2 \in Nat /\ Chosen
    BY <1>1 DEF Picked
  <2> QED  BY <2>2, <2>3, <2>4, FullRead DEF LeftIn
<1>6. Got(n + 1)'
  <2>1. \A m : m = n => (Got(m + 1)' => Got(n + 1)')
    BY <1>3
  <2>2. InFull(read, n) => d = sample[n] /\ \A f \in Measurements : u[f] = LeftIn(n, f)
    BY <1>4, <1>5
  <2>3. \E m : m = n
    OBVIOUS
  <2>4. PICK m : m = n
    BY <2>3
  <2>5. /\ m \in Index /\ Got(m) /\ HasHeader(mode, m)
        /\ decoded' = [decoded EXCEPT ![m] = d] /\ quality' = [quality EXCEPT ![m] = u]
        /\ InFull(read, m) => d = sample[m] /\ \A f \in Measurements : u[f] = LeftIn(m, f)
        /\ counted' = SmpCnt + m
    BY <1>3, <1>4, <2>2, <2>4
  <2>6. Got(m + 1)'
    BY <1>3, <2>5, GotMore
  <2> QED  BY <2>1, <2>4, <2>6
<1> QED  BY <1>3, <1>6 DEF e

LEMMA FieldStep ==
  ASSUME NEW s, NEW q, Picked, Laid(s, q), Decoding(s, q), FieldTaken
  PROVE  Decoding(s, q)'
<1>1. /\ UNCHANGED chosen /\ mode' = mode /\ pc = "asdu" /\ pc' = "asdu"
      /\ apdu' = apdu /\ number' = number /\ total' = total
      /\ elem' = EndAt(elem) /\ elem < EndAt(apdu)
  BY DEF FieldTaken, chosen
<1>2. AtASDU(s)
  BY <1>1 DEF Decoding, BeforeASDUs, BehindASDUs
<1> DEFINE n == number
           p == s[n]
           e == s[n + 1]
<1>3. n \in Index /\ apdu = p /\ total = NoASDU /\ InASDU(p, e)
  BY <1>1, <1>2 DEF AtASDU
<1>4. p \in Nat /\ e \in Nat /\ EndAt(p) = e
  BY <1>3, ASDUPlaces DEF ElementIs
<1>5. HasHeader(mode, n) =>
        /\ ByteAt(p + 2) = SVID /\ EndAt(p + 2) = p + 13
        /\ ByteAt(p + 13) = SMPCNT /\ EndAt(p + 13) = p + 17
        /\ ByteAt(ContentsAt(p + 13)) * 256 + ByteAt(ContentsAt(p + 13) + 1) = SmpCnt + n
        /\ ByteAt(p + 17) = CONFREV /\ EndAt(p + 17) = p + 23
        /\ ByteAt(p + 23) = SMPSYNCH /\ EndAt(p + 23) = p + 26
  BY <1>3, ASDUPlaces
<1>6. ~ HasHeader(mode, n) => DataLaid(p + 2, e, n)
  BY <1>3, ASDUPlaces
<1>7. SVID # SEQUENCEOFDATA /\ SMPCNT # SEQUENCEOFDATA /\ CONFREV # SEQUENCEOFDATA
      /\ SMPSYNCH # SEQUENCEOFDATA /\ CONFREV # SMPCNT /\ SMPSYNCH # SMPCNT
  BY DEF SVID, SMPCNT, CONFREV, SMPSYNCH, SEQUENCEOFDATA
<1>8. Got(n) /\ UNCHANGED <<decoded, quality, counted>> => Got(n)'
  <2> HAVE Got(n) /\ UNCHANGED <<decoded, quality, counted>>
  <2>1. \A m : Got(m) => Got(m)'
    BY <1>1, GotStays
  <2>2. \A m : m = number /\ Got(m)' => Got(number)'
    BY <1>1
  <2> QED  BY <2>1, <2>2
<1>9. (InHeader(p)' /\ Got(n)') \/ (elem' = e /\ Got(n + 1)') => Decoding(s, q)'
  <2> HAVE (InHeader(p)' /\ Got(n)') \/ (elem' = e /\ Got(n + 1)')
  <2>1. InASDU(p, e)'
    BY <1>1 DEF InASDU
  <2>2. AtASDU(s)'
    BY <1>1, <1>3, <2>1 DEF AtASDU
  <2> QED  BY <2>2 DEF Decoding
<1> HIDE DEF p, e
<1>10. CASE InHeader(p) /\ Got(n) /\ elem # p + 26
  <2>1. HasHeader(mode, n) /\ HasHeader(mode, n)'
    BY <1>1, <1>10 DEF InHeader
  <2>2. ByteAt(elem) # SEQUENCEOFDATA
    BY <1>5, <1>7, <1>10, <2>1 DEF InHeader
  <2>3. Got(n)'
    BY <1>8, <1>10, <2>2 DEF FieldTaken
  <2>4. CASE elem = p + 2
    <3>1. elem' = p + 13 /\ svID'
      BY <1>1, <1>5, <2>1, <2>4 DEF FieldTaken
    <3>2. p' = p
      BY <1>1 DEF p
    <3>3. InHeader(p)'
      BY <1>1, <2>1, <3>1, <3>2 DEF InHeader
    <3> QED  BY <1>9, <2>3, <3>3
  <2>5. CASE elem = p + 13 /\ svID
    <3>1. elem' = p + 17 /\ svID' /\ smpCnt' = SmpCnt + n
      BY <1>1, <1>5, <2>1, <2>5 DEF FieldTaken
    <3>2. p' = p
      BY <1>1 DEF p
    <3>3. InHeader(p)'
      BY <1>1, <2>1, <3>1, <3>2 DEF InHeader
    <3> QED  BY <1>9, <2>3, <3>3
  <2>6. CASE elem \in {p + 17, p + 23} /\ svID /\ smpCnt = SmpCnt + n
    <3>1. elem' \in {p + 23, p + 26} /\ svID' /\ smpCnt' = SmpCnt + n
      BY <1>1, <1>5, <1>7, <2>1, <2>6 DEF FieldTaken
    <3>2. p' = p
      BY <1>1 DEF p
    <3>3. InHeader(p)'
      BY <1>1, <2>1, <3>1, <3>2 DEF InHeader
    <3> QED  BY <1>9, <2>3, <3>3
  <2> QED  BY <1>10, <2>4, <2>5, <2>6 DEF InHeader
<1>11. CASE InHeader(p) /\ Got(n) /\ elem = p + 26
  <2>1. HasHeader(mode, n) /\ svID /\ smpCnt = SmpCnt + n
    <3>1. p + 2 # p + 26 /\ p + 13 # p + 26
      BY <1>4
    <3> QED  BY <1>11, <3>1 DEF InHeader
  <2>2. elem' = e /\ Got(n + 1)'
    BY <1>3, <1>11, <2>1, DatasetStep DEF p, e
  <2> QED  BY <1>9, <2>2
<1>12. CASE ~ HasHeader(mode, n) /\ elem = p + 2 /\ ~ svID /\ Got(n)
  <2>1. elem' = e
    BY <1>1, <1>6, <1>12 DEF DataLaid, ElementIs
  <2>2. Got(n + 1)
    BY <1>3, <1>12, GotSkip
  <2>3. UNCHANGED <<decoded, quality, counted>>
    BY <1>12 DEF FieldTaken
  <2>4. Got(n + 1)'
    <3>1. \A m : Got(m) => Got(m)'
      BY <1>1, <2>3, GotStays
    <3>2. \A m : m = n + 1 /\ Got(m)' => Got(n + 1)'
      BY <1>1
    <3> QED  BY <2>2, <3>1, <3>2
  <2> QED  BY <1>9, <2>1, <2>4
<1>13. elem # e
  BY <1>1, <1>3, <1>4
<1> QED  BY <1>3, <1>10, <1>11, <1>12, <1>13 DEF InASDU

LEMMA LeaveStep ==
  ASSUME NEW s, NEW q, Picked, Laid(s, q), Decoding(s, q), LeaveASDU
  PROVE  Decoding(s, q)'
<1>1. /\ UNCHANGED chosen /\ UNCHANGED <<chosen, decoded, quality, counted>>
      /\ pc = "asdu" /\ number' = number + 1 /\ total' = total
      /\ elem >= EndAt(apdu)
  BY DEF LeaveASDU
<1>2. AtASDU(s)
  BY <1>1 DEF Decoding, BeforeASDUs, BehindASDUs
<1> DEFINE n == number
           p == s[n]
           e == s[n + 1]
<1>3. n \in Index /\ apdu = p /\ total = NoASDU /\ InASDU(p, e)
  BY <1>1, <1>2 DEF AtASDU
<1>4. p \in Nat /\ e \in Nat /\ EndAt(p) = e
  BY <1>3, ASDUPlaces DEF ElementIs
<1>5. /\ HasHeader(mode, n) => p + 26 < e
      /\ ~ HasHeader(mode, n) => p + 2 < e
  BY <1>3, ASDUPlaces
<1> HIDE DEF p, e
<1>6. elem = e /\ Got(n + 1)
  <2>1. ~ InHeader(p)
    BY <1>1, <1>3, <1>4, <1>5 DEF InHeader
  <2>2. ~ (~ HasHeader(mode, n) /\ elem = p + 2)
    BY <1>1, <1>3, <1>4, <1>5
  <2> QED  BY <1>3, <2>1, <2>2 DEF InASDU
<1>7. Got(number)'
  <2>1. \A m : Got(m) => Got(m)'
    BY <1>1, GotStays
  <2>2. \A m : m = n + 1 /\ Got(m)' => Got(number)'
    BY <1>1
  <2> QED  BY <1>6, <2>1, <2>2
<1>8. NoASDU \in 1 .. 127 /\ n \in Nat /\ n + 1 <= NoASDU
  BY <1>3, SvPacketAssumption DEF Index
<1>9. CASE n + 1 < NoASDU
  <2>1. pc' = "apdu" /\ apdu' = e
    BY <1>1, <1>3, <1>4, <1>9 DEF LeaveASDU
  <2>2. number' \in Index /\ apdu' = s[number'] /\ total' = NoASDU
    BY <1>1, <1>3, <1>8, <1>9, <2>1 DEF Index, e
  <2>3. AtASDU(s)'
    BY <1>7, <2>1, <2>2 DEF AtASDU
  <2> QED  BY <2>3 DEF Decoding
<1>10. CASE ~ (n + 1 < NoASDU)
  <2>1. pc' = "done" /\ apdu' = p
    BY <1>1, <1>3, <1>10 DEF LeaveASDU
  <2>2. number' = NoASDU /\ NoASDU - 1 = n
    BY <1>1, <1>8, <1>10
  <2>3. Got(NoASDU)'
    <3>1. \A m : m = number' /\ Got(number)' => Got(m)'
      OBVIOUS
    <3> QED  BY <1>7, <2>2, <3>1
  <2>4. BehindASDUs(s)'
    BY <2>1, <2>2, <2>3 DEF BehindASDUs, p
  <2> QED  BY <2>4 DEF Decoding
<1> QED  BY <1>9, <1>10

LEMMA SvStep ==
  SvInv /\ [SvNext]_svVars => SvInv'
<1> HAVE SvInv /\ [SvNext]_svVars
<1>1. CASE Update
  BY <1>1, UpdateStep
<1>2. CASE UNCHANGED svVars
  <2>1. UNCHANGED chosen /\ UNCHANGED <<chosen, made>>
        /\ UNCHANGED <<chosen, decoded, quality, counted>>
    BY <1>2 DEF svVars
  <2>2. Picked'
    BY <2>1, PickedStays DEF SvInv
  <2>3. \A m : Got(m) => Got(m)'
    BY <2>1, GotStays
  <2>4. mode' = mode /\ number' = number /\ elem' = elem /\ svID' = svID /\ smpCnt' = smpCnt
        /\ pc' = pc /\ apdu' = apdu /\ total' = total /\ data' = data /\ size' = size
    BY <1>2 DEF svVars, chosen, made
  <2>5. CASE Filling
    <3>1. \A k : Before(k)' = Before(k) /\ After(k)' = After(k) /\ SizeOf(k)' = SizeOf(k)
      BY <2>1, ChosenStays
    <3>2. data' = [k \in Index |-> IF k < number' THEN After(k)' ELSE Before(k)']
      BY <2>4, <2>5, <3>1 DEF Filling
    <3>3. size' = [k \in Index |-> IF k < number' THEN SizeOf(k)' ELSE 0]
      BY <2>4, <2>5, <3>1 DEF Filling
    <3>4. Filling'
      BY <2>3, <2>4, <2>5, <3>2, <3>3 DEF Filling
    <3> QED  BY <2>2, <3>4 DEF SvInv
  <2>6. ASSUME NEW s, NEW q, Laid(s, q), Decoding(s, q)
        PROVE  SvInv'
    <3>1. Laid(s, q)'
      BY <2>1, <2>6, LaidStays
    <3>2. Got(number) => Got(number)'
      <4>1. \A m : m = number /\ Got(m)' => Got(number)'
        BY <2>4
      <4> QED  BY <2>3, <4>1
    <3>3. Got(number + 1) => Got(number + 1)'
      <4>1. \A m : m = number + 1 /\ Got(m)' => Got(number + 1)'
        BY <2>4
      <4> QED  BY <2>3, <4>1
    <3>4. BeforeASDUs(q) => BeforeASDUs(q)'
      BY <2>3, <2>4 DEF BeforeASDUs
    <3>5. BehindASDUs(s) => BehindASDUs(s)'
      BY <2>3, <2>4 DEF BehindASDUs
    <3>6. InASDU(s[number], s[number + 1]) => InASDU(s[number], s[number + 1])'
      BY <2>4, <3>2, <3>3 DEF InASDU, InHeader
    <3>7. AtASDU(s) => AtASDU(s)'
      BY <2>4, <3>2, <3>6 DEF AtASDU
    <3> QED  BY <2>2, <2>6, <3>1, <3>4, <3>5, <3>7 DEF SvInv, Decoding
  <2> QED  BY <2>5, <2>6 DEF SvInv
<1>3. CASE SvNext /\ ~ Update
  <2>1. \/ Enter \/ TakeNumber \/ EnterASDU \/ LeaveASDU
        \/ PlainField \/ FirstField \/ DifferenceField
    BY <1>3 DEF SvNext
  <2>2. pc # "update" /\ UNCHANGED <<chosen, made>> /\ UNCHANGED chosen
    BY <2>1 DEF Enter, TakeNumber, EnterASDU, LeaveASDU, PlainField, FirstField,
                DifferenceField, Field, made
  <2>3. PICK s, q : Laid(s, q) /\ Decoding(s, q)
    BY <2>2 DEF SvInv, Filling
  <2>4. Laid(s, q)'
    BY <2>2, <2>3, LaidStays
  <2>5. Picked
    BY DEF SvInv
  <2>6. Decoding(s, q)'
    BY <2>1, <2>3, <2>5, EnterStep, TakeNumberStep, EnterASDUStep, FieldsTaken, FieldStep,
       LeaveStep
  <2>7. Picked'
    BY <2>2, <2>5, PickedStays
  <2> QED  BY <2>4, <2>6, <2>7 DEF SvInv
<1> QED  BY <1>1, <1>2, <1>3

(* At every step, the decoder stands on an element of a packet that is laid  *)
(* out as it was announced, and has what the ASDUs before it say.            *)
THEOREM PacketDecoded ==
  SvSpec => []SvInv
<1>1. SvInit => SvInv
  BY SvStart
<1>2. SvInv /\ [SvNext]_svVars => SvInv'
  BY SvStep
<1> QED  BY <1>1, <1>2, PTL DEF SvSpec

LEMMA SvInvLengths ==
  SvInv => LengthsAgree
<1> HAVE SvInv
<1>1. CASE Filling
  BY <1>1 DEF Filling, LengthsAgree
<1>2. ASSUME NEW s, NEW q, Laid(s, q), Decoding(s, q)
      PROVE  LengthsAgree
  <2>1. pc # "update" /\ packet[1] * 256 + packet[2] = Len(packet) + 2
    BY <1>2 DEF Decoding, BeforeASDUs, AtASDU, BehindASDUs, Laid
  <2>2. CASE BeforeASDUs(q)
    <3>1. pc = "apdu" /\ ByteAt(apdu) \in {SAVPDU, NOASDU, SEQUENCEOFASDU}
      BY <1>2, <2>2 DEF BeforeASDUs, Laid, ElementIs
    <3> QED  BY <2>1, <3>1 DEF LengthsAgree
  <2>3. CASE AtASDU(s)
    <3> DEFINE n == number
               p == s[n]
               e == s[n + 1]
    <3>1. n \in Index /\ apdu = p
      BY <2>3 DEF AtASDU
    <3>2. p \in Nat /\ e \in Nat /\ EndAt(p) = e /\ ByteAt(p) = ASDUTAG
      BY <1>2, <3>1, ASDUPlaces DEF ElementIs
    <3>3. CASE pc = "apdu"
      BY <2>1, <3>1, <3>2, <3>3 DEF LengthsAgree
    <3>4. CASE pc = "asdu"
      <4>1. InASDU(p, e)
        BY <2>3, <3>4 DEF AtASDU
      <4>2. HasHeader(mode, n) =>
              /\ p + 26 < e
              /\ ByteAt(p + 2) = SVID /\ ByteAt(p + 13) = SMPCNT /\ ByteAt(p + 17) = CONFREV
              /\ ByteAt(p + 23) = SMPSYNCH /\ ByteAt(p + 26) = SEQUENCEOFDATA
        BY <1>2, <3>1, ASDUPlaces DEF DataLaid, ElementIs
      <4>3. ~ HasHeader(mode, n) => p + 2 < e /\ ByteAt(p + 2) = SEQUENCEOFDATA
        BY <1>2, <3>1, ASDUPlaces DEF DataLaid, ElementIs
      <4> HIDE DEF p, e
      <4>4. elem # e => /\ elem < e
                        /\ ByteAt(elem) \in {SVID, SMPCNT, CONFREV, SMPSYNCH, SEQUENCEOFDATA}
        <5>1. CASE InHeader(p)
          <6>1. elem \in {p + 2, p + 13, p + 17, p + 23, p + 26} /\ HasHeader(mode, n)
            BY <5>1 DEF InHeader
          <6>2. elem < e
            BY <3>2, <4>2, <6>1
          <6>3. ByteAt(elem) \in {SVID, SMPCNT, CONFREV, SMPSYNCH, SEQUENCEOFDATA}
            BY <4>2, <6>1
          <6> QED  BY <6>2, <6>3
        <5>2. CASE ~ HasHeader(mode, n) /\ elem = p + 2
          BY <4>3, <5>2
        <5> QED  BY <4>1, <5>1, <5>2 DEF InASDU
      <4> QED  BY <2>1, <3>1, <3>2, <3>4, <4>4 DEF LengthsAgree
    <3> QED  BY <2>3, <3>3, <3>4 DEF AtASDU
  <2>4. CASE BehindASDUs(s)
    <3>1. pc = "done" /\ number = NoASDU /\ apdu = s[NoASDU - 1]
      BY <2>4 DEF BehindASDUs
    <3>2. NoASDU - 1 \in Index /\ (NoASDU - 1) + 1 = NoASDU
      BY SvPacketAssumption DEF Index
    <3>3. EndAt(apdu) = s[NoASDU]
      BY <1>2, <3>1, <3>2, ASDUPlaces DEF ElementIs
    <3>4. s[NoASDU] = Len(packet) + 1
      BY <1>2 DEF Laid
    <3> QED  BY <2>1, <3>1, <3>3, <3>4 DEF LengthsAgree
  <2> QED  BY <1>2, <2>2, <2>3, <2>4 DEF Decoding
<1> QED  BY <1>1, <1>2 DEF SvInv

LEMMA SvInvDifferences ==
  SvInv => DifferencesDecode
<1> HAVE SvInv
<1> SUFFICES ASSUME pc = "asdu", ByteAt(elem) = SEQUENCEOFDATA, ~ InFull(mode, number)
             PROVE  /\ FieldsAt(ContentsAt(elem))[16] = EndAt(elem)
                    /\ LET difference == DifferencesAt(ContentsAt(elem)) IN
                         \A f \in Measurements :
                           LET d == Difference(number, f) IN
                             ZigZag(d) < Flag * Flag * Flag * Flag => difference[f] = d
  BY DEF DifferencesDecode
<1>1. PICK s, q : Laid(s, q) /\ AtASDU(s)
  BY DEF SvInv, Filling, Decoding, BeforeASDUs, BehindASDUs
<1> DEFINE n == number
           p == s[n]
           e == s[n + 1]
<1>2. n \in Index /\ InASDU(p, e)
  BY <1>1 DEF AtASDU
<1>3. ~ HasHeader(mode, n)
  BY DEF InFull, HasHeader
<1>4. p \in Nat /\ e \in Nat /\ DataLaid(p + 2, e, n)
  BY <1>1, <1>2, <1>3, ASDUPlaces
<1>5. ByteAt(e) # SEQUENCEOFDATA
  <2>1. NoASDU \in 1 .. 127 /\ n \in Nat
    BY <1>2, SvPacketAssumption DEF Index
  <2>2. CASE n + 1 \in Index
    <3>1. ByteAt(e) = ASDUTAG
      BY <1>1, <2>2, ASDUPlaces DEF ElementIs
    <3> QED  BY <3>1 DEF ASDUTAG, SEQUENCEOFDATA
  <2>3. CASE n + 1 \notin Index
    <3>1. n + 1 = NoASDU
      BY <1>2, <2>1, <2>3 DEF Index
    <3>2. e = Len(packet) + 1 /\ Len(packet) \in Nat
      BY <1>1, <3>1 DEF Laid
    <3>3. ByteAt(e) = filler
      <4> DEFINE l == Len(packet)
      <4>1. e = l + 1 /\ l \in Nat
        BY <3>2
      <4> HIDE DEF l
      <4>2. ~ (l + 1 <= l)
        BY <4>1
      <4> HIDE DEF e
      <4> QED  BY <4>1, <4>2 DEF ByteAt, l
    <3>4. filler \in {0, 16, 32, 64, 128}
      BY SvPacketAssumption DEF SvInv, Picked
    <3> QED  BY <3>3, <3>4 DEF SEQUENCEOFDATA
  <2> QED  BY <2>2, <2>3
<1> HIDE DEF p, e
<1>6. elem = p + 2
  BY <1>2, <1>3, <1>5 DEF InASDU, InHeader
<1> DEFINE c == p + 4
<1>7. /\ ContentsAt(elem) = c /\ EndAt(elem) = e /\ Lies(c, Sent(n))
      /\ e = c + SizeOf(n) /\ c \in Nat
  <2>1. (p + 2) + 2 = p + 4 /\ p + 4 \in Nat
    BY <1>4
  <2> QED  BY <1>4, <1>6, <2>1 DEF DataLaid, ElementIs
<1> HIDE DEF c
<1>8. /\ Sent(n) = DifferenceBytes(n) /\ n \in 1 .. NoASDU - 1
      /\ SizeOf(n) = Len(DifferenceBytes(n)) /\ Chosen
  <2>1. Picked
    BY DEF SvInv
  <2> QED  BY <1>2, <2>1, AreasAre DEF SizeOf, Picked
<1>9. Lies(c, DifferenceBytes(n))
  BY <1>7, <1>8
<1>10. FieldsAt(c)[16] = e
  BY <1>7, <1>8, <1>9, FieldsRead
<1>11. \A f \in Measurements :
         ZigZag(Difference(n, f)) < Flag * Flag * Flag * Flag =>
           DifferencesAt(c)[f] = Difference(n, f)
  BY <1>7, <1>8, <1>9, DifferencesRead
<1> QED  BY <1>7, <1>10, <1>11

LEMMA SvInvDone ==
  SvInv /\ pc = "done" => Got(NoASDU)
BY DEF SvInv, Filling, Decoding, BeforeASDUs, AtASDU, BehindASDUs

LEMMA SvInvDecodes ==
  SvInv => DecodesAsModelled
<1> HAVE SvInv
<1> SUFFICES ASSUME pc = "done"
             PROVE  /\ \A k \in Index, f \in Measurements :
                         decoded[k][f] =
                           DecodedSample(read, k, HasHeader(mode, k), InFull(mode, k),
                                         sample[k][f], 0, decoded[k][f])
                    /\ counted = SmpCnt + Max({k \in Index : HasHeader(mode, k)})
  BY DEF DecodesAsModelled
<1>1. Got(NoASDU)
  BY SvInvDone
<1>2. NoASDU \in 1 .. 127
  BY SvPacketAssumption
<1>3. ASSUME NEW k \in Index, NEW f \in Measurements
      PROVE  decoded[k][f] = DecodedSample(read, k, HasHeader(mode, k), InFull(mode, k),
                                           sample[k][f], 0, decoded[k][f])
  <2>1. k < NoASDU
    BY <1>2 DEF Index
  <2>2. ~ HasHeader(mode, k) => decoded[k][f] = 0
    BY <1>1 DEF Got, Zero
  <2>3. HasHeader(mode, k) /\ InFull(read, k) => decoded[k] = sample[k]
    BY <1>1, <2>1 DEF Got
  <2> HIDE DEF HasHeader, InFull
  <2> QED  BY <2>2, <2>3 DEF DecodedSample
<1>4. counted = SmpCnt + Headed(NoASDU)
  BY <1>1, <1>2 DEF Got
<1>5. Max({k \in Index : HasHeader(mode, k)}) = Headed(NoASDU)
  <2> DEFINE headed == {k \in Index : HasHeader(mode, k)}
             last == Headed(NoASDU)
  <2>1. last \in headed /\ \A k \in headed : k <= last
    BY <1>2 DEF Headed, HasHeader, Index
  <2>2. headed \subseteq Int
    BY DEF Index
  <2> HIDE DEF headed, last
  <2>3. \A m \in headed : (\A k \in headed : k <= m) => m = last
    BY <2>1, <2>2
  <2> QED  BY <2>1, <2>3 DEF Max, headed, last
<1> QED  BY <1>3, <1>4, <1>5

LEMMA SvInvQualities ==
  SvInv => QualitiesDecode
<1> HAVE SvInv
<1> SUFFICES ASSUME pc = "done", read = mode, NEW k \in Index, NEW f \in Measurements
             PROVE  LET upper == quality[k][f] \div (ByteBase * ByteBase)
                        before == DifferencesOver(NoBytes, k)
                    IN  /\ quality[k][f] % (ByteBase * ByteBase) = 0
                        /\ upper # 0 =>
                             /\ mode = "NO_COMPRESSION" /\ left /\ k > 0
                             /\ upper = before[8 * f + 5] * ByteBase + before[8 * f + 6]
  BY DEF QualitiesDecode
<1>1. Got(NoASDU) /\ Picked
  BY SvInvDone DEF SvInv
<1>2. NoASDU \in 1 .. 127 /\ k \in Nat /\ k < NoASDU
  BY SvPacketAssumption DEF Index
<1> DEFINE a == 8 * f + 5
           b == 8 * f + 6
           high == Before(k)[a]
           low == Before(k)[b]
           h == high * ByteBase + low
           square == ByteBase * ByteBase
<1>3. a \in 1 .. 64 /\ b \in 1 .. 64
  BY DEF Measurements
<1>4. high \in Nat /\ low \in Nat
  <2>1. IsArea(Before(k))
    BY <1>1, AreasAre
  <2>2. high \in Byte /\ low \in Byte
    BY <1>3, <2>1, AreaBytes
  <2> QED  BY <2>2 DEF Byte
<1>5. square \in {1024, 4096, 16384, 65536} /\ ByteBase \in Nat
  BY FlagIs
<1>6. CASE ~ HasHeader(mode, k)
  <2>1. quality[k][f] = 0
    BY <1>1, <1>6 DEF Got, Zero
  <2>2. 0 % square = 0 /\ 0 \div square = 0
    BY <1>5
  <2> QED  BY <2>1, <2>2
<1>7. CASE HasHeader(mode, k)
  <2>1. InFull(read, k)
    BY <1>7 DEF HasHeader, InFull
  <2>2. quality[k][f] = h * square
    BY <1>1, <1>2, <1>7, <2>1 DEF Got, LeftIn
  <2>3. h \in Nat
    BY <1>4, FlagIs
  <2> HIDE DEF h, square
  <2>4. (h * square) % square = 0 /\ (h * square) \div square = h
    BY <1>5, <2>3
  <2>5. h # 0 => mode = "NO_COMPRESSION" /\ left /\ k > 0
    <3> SUFFICES ASSUME ~ (mode = "NO_COMPRESSION" /\ left /\ k > 0)
                 PROVE  h = 0
      OBVIOUS
    <3>1. high = 0 /\ low = 0
      <4>1. CASE ~ left
        <5>1. Before(k) = NoBytes
          BY <4>1 DEF Before
        <5> QED  BY <1>3, <5>1, NoBytesIs
      <4>2. CASE left
        <5>1. InFull(OtherMode(mode), k)
          BY <1>1, <1>2, <1>7, <4>2 DEF HasHeader, InFull, OtherMode, Picked, Modes
        <5>2. Before(k) = FullOver(NoBytes, k)
          BY <4>2, <5>1 DEF Before, SampleOver
        <5>3. FullOver(NoBytes, k)[a] = NoBytes[a] /\ FullOver(NoBytes, k)[b] = NoBytes[b]
          <6>1. /\ (a - 1) \div 8 = f /\ (b - 1) \div 8 = f
                /\ a - 8 * f = 5 /\ b - 8 * f = 6
            BY DEF Measurements
          <6> HIDE DEF a, b
          <6> QED  BY <1>3, <6>1 DEF FullOver, FullSize
        <5> QED  BY <1>3, <5>2, <5>3, NoBytesIs
      <4> QED  BY <4>1, <4>2
    <3> QED  BY <1>5, <3>1 DEF h
  <2>6. h # 0 => Before(k) = DifferencesOver(NoBytes, k)
    <3> HAVE h # 0
    <3>1. mode = "NO_COMPRESSION" /\ left /\ k > 0
      BY <2>5
    <3> QED  BY <3>1 DEF Before, SampleOver, InFull, OtherMode
  <2> QED  BY <2>2, <2>4, <2>5, <2>6 DEF h, square
<1> QED  BY <1>6, <1>7

(* Behind every length stands what it announces, whatever the sizes of the   *)
(* datasets: the decoder never meets an element that it does not expect.     *)
THEOREM PacketLengthsAgree ==
  SvSpec => []LengthsAgree
BY PacketDecoded, SvInvLengths, PTL

(* Differences are read to their last byte, and come back as they were.      *)
THEOREM PacketDifferences ==
  SvSpec => []DifferencesDecode
BY PacketDecoded, SvInvDifferences, PTL

(* A packet becomes what SvTiming takes it to become.                        *)
THEOREM PacketDecodesAsModelled ==
  SvSpec => []DecodesAsModelled
BY PacketDecoded, SvInvDecodes, PTL

(* A quality only ever has what an encoder of differences left behind.       *)
THEOREM PacketQualities ==
  SvSpec => []QualitiesDecode
BY PacketDecoded, SvInvQualities, PTL

================================================================================
