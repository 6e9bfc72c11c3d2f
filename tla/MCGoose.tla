-------------------------------- MODULE MCGoose -------------------------------
(* Instances of Goose for TLC. *)
EXTENDS Goose

\* Bytes at the edges of what is signed, and superfluous in front.
MCBytes == {0, 1, 127, 128, 255}

\* Numbers of one to four bytes, with and without a leading one.
Numbers == {<<0, 0, 0, 0>>, <<128, 0, 0, 0>>, <<255, 255, 127, 0>>,
            <<5, 0, 0, 200>>, <<200, 255, 255, 255>>}

\* Values whose numbers, of either sign, need from one byte to all of them.
RECURSIVE Variant(_, _)
Variant(t, v) ==
  IF t \in BasicTypes
    THEN [b \in 1 .. SV_GET_LENGTH(t) |->
            IF b <= v % (SV_GET_LENGTH(t) + 1) THEN 126 + (v % 4)
            ELSE IF v % 2 = 1 THEN 255 ELSE 0]
    ELSE [i \in DOMAIN Components(t) |-> Variant(Components(t)[i], v + i)]

Variants == 20

MCValues == [t \in Types |->
  {Initial(t, scaleFactor) : scaleFactor \in ScaleFactors}
    \cup {Variant(t, v) : v \in 1 .. Variants}
    \cup (IF t \in BasicTypes /\ SV_GET_LENGTH(t) <= 4
            THEN [1 .. SV_GET_LENGTH(t) -> MCBytes] ELSE {})]

MCTargets == [t \in Types |->
  {Initial(t, CHOOSE s \in ScaleFactors : TRUE), Variant(t, Variants)}]

MCStale == {0, 255}

\* No letter, and as many that the length of the packet takes one, two and three
\* bytes.
Letters(n) == [i \in 1 .. n |-> 65]
NameLengths == {0, 30, 126}

\* GOOSE, Sampled Values and neither; some fields take the value of another one, to
\* keep their number down.
MCControls ==
  {[destMACAddress |-> <<1, 12, 205, group, 0, 1>>, APPID |-> 1,
    gocbRef |-> Letters(ref), timeAllowedToLive |-> ttl,
    datSet |-> Letters(other), goID |-> Letters(ref),
    t |-> [i \in 1 .. 8 |-> 127 + i], stNum |-> st, sqNum |-> sq,
    test |-> <<bit>>, confRev |-> ttl, ndsCom |-> <<1 - bit>>,
    numDatSetEntries |-> sq] :
     group \in {1, 4, 9}, ref \in NameLengths, other \in {0, 126},
     ttl \in Numbers, st \in Numbers, sq \in Numbers, bit \in {0, 1}}

\* Two that are tags, too.
MCJunk == {0, GSE_TAG_TIME_ALLOWED_TO_LIVE, GSE_TAG_STNUM}
================================================================================
