--------------------------- MODULE SvTiming_proofs -----------------------------
(* What SvTiming promises, for every number of samples and packets.        *)
EXTENDS SvTiming, SequenceTheorems, TLAPS

(* Arithmetic of the counters: q packets and a samples are either a sample  *)
(* short of a whole packet, which is the last of the second or is not, or   *)
(* are not.                                                                 *)
LEMMA CountBound ==
  ASSUME NEW q \in 0 .. PacketsPerSecond - 1, NEW a \in Index
  PROVE  /\ q * NoASDU + a \in Counts
         /\ q * NoASDU + a + 1 = smpRate
              <=> (a + 1 = NoASDU /\ q + 1 = PacketsPerSecond)
         /\ q * NoASDU \in Nat
         /\ (q + 1) * NoASDU = q * NoASDU + NoASDU
<1> DEFINE d == PacketsPerSecond - (q + 1)
<1>1. d \in Nat /\ q \in Nat /\ NoASDU \in Nat \ {0} /\ PacketsPerSecond = q + 1 + d
  BY SampleAssumption, TimingAssumption
<1>2. /\ q * NoASDU \in Nat
      /\ (q + 1) * NoASDU = q * NoASDU + NoASDU
  BY <1>1
<1>3. smpRate = q * NoASDU + NoASDU + d * NoASDU
  BY <1>1 DEF smpRate
<1>4. d * NoASDU \in Nat /\ (d = 0 => d * NoASDU = 0) /\ (d # 0 => d * NoASDU > 0)
  BY <1>1
<1>5. a \in Nat /\ a < NoASDU
  BY <1>1 DEF Index
<1> HIDE DEF d
<1>6. QED
  BY <1>1, <1>2, <1>3, <1>4, <1>5 DEF Counts

LEMMA InitInv == Init => IInv
<1> SUFFICES ASSUME Init PROVE IInv
  OBVIOUS
<1> USE SampleAssumption, TimingAssumption
<1>0. 0 \in Index /\ 0 \in 0 .. PacketsPerSecond - 1
  BY DEF Index
<1>1. 0 * NoASDU + 0 = 0
  BY DEF Index
<1>1a. 0 \in Counts
  BY <1>0, <1>1, CountBound
<1>2. TypeOK
  <2>1. asdu \in [Index -> Entry]
    BY <1>1a DEF Init, Entry
  <2>2. net \in Seq(PacketType)
    BY DEF Init
  <2>3. /\ sv_mode \in Modes /\ sv_mode_recv \in Modes
        /\ rx \in {"offset", "share", "filter", "ready"}
        /\ ASDU \in Index /\ ASDUCount \in Index /\ smpCounter \in Counts
        /\ prev \in Int /\ decoded = Cleared
    BY <1>0, <1>1a DEF Init, Modes
  <2>4. report \in {None} \cup [sent : Modes, read : Modes, passed : BOOLEAN]
    BY DEF Init
  <2>5. lostOdd \in BOOLEAN
    BY DEF Init
  <2>6. QED
    BY <2>1, <2>2, <2>3, <2>4, <2>5 DEF TypeOK
<1>3. CountersAgree
  BY <1>0, <1>1 DEF Init, CountersAgree
<1>4. PartWhole /\ PacketsWhole /\ ModesAlternate /\ PlainInStepPasses
  BY DEF Init, PartWhole, PacketsWhole, ModesAlternate, ModeAt, PlainInStepPasses
<1>5. QED
  BY <1>2, <1>3, <1>4 DEF IInv

--------------------------------------------------------------------------------
(* The sender. *)

(* The sample that is put in continues the packet in the making. *)
LEMMA FilledGood ==
  ASSUME IInv
  PROVE  /\ Filled \in [Index -> Entry]
         /\ \A k \in 0 .. ASDUCount :
              IsSample(Filled[k], sv_mode, k, smpCounter - ASDUCount)
<1> USE SampleAssumption, TimingAssumption
<1> USE DEF IInv
<1>1. /\ ASDU = ASDUCount /\ ASDUCount \in Index /\ ASDUCount \in Nat
      /\ smpCounter \in Counts /\ smpCounter \in Int
      /\ asdu \in [Index -> Entry] /\ sv_mode \in Modes /\ prev \in Int
  BY DEF TypeOK, CountersAgree, Index, Counts
<1> DEFINE e == Dataset(sv_mode, ASDUCount, Value[ASDU], prev)
           new == [full |-> e.full, v |-> e.v, smpCnt |-> smpCounter]
<1>2. Value[ASDU] \in Int /\ (ASDUCount > 0 => Value[ASDUCount - 1] \in Int)
  BY <1>1 DEF Index
<1>3. /\ e.full = InFull(sv_mode, ASDUCount)
      /\ e.v = IF InFull(sv_mode, ASDUCount) THEN Value[ASDUCount]
               ELSE Value[ASDUCount - 1] - Value[ASDUCount]
      /\ e.v \in Int
  <2>1. CASE InFull(sv_mode, ASDUCount)
    BY <2>1, <1>1, <1>2 DEF Dataset
  <2>2. CASE ~InFull(sv_mode, ASDUCount)
    <3>1. sv_mode = "COMPRESSION" /\ ASDUCount > 0
      BY <2>2, <1>1 DEF InFull, Modes
    <3>2. prev = Value[ASDUCount - 1]
      BY <3>1 DEF PartWhole
    <3>3. e = [full |-> FALSE, v |-> prev - Value[ASDU]]
      BY <2>2 DEF Dataset
    <3>4. e.full = FALSE /\ e.v = Value[ASDUCount - 1] - Value[ASDUCount]
      BY <3>2, <3>3, <1>1
    <3>5. e.v \in Int
      BY <3>1, <3>4, <1>1, <1>2
    <3>6. QED
      BY <2>2, <3>4, <3>5 DEF InFull
  <2>3. QED
    BY <2>1, <2>2
<1>4. e.full \in BOOLEAN
  BY <1>3 DEF InFull
<1> HIDE DEF e
<1>5. new \in Entry
  BY <1>1, <1>3, <1>4 DEF Entry
<1>6. Filled = [asdu EXCEPT ![ASDUCount] = new]
  BY DEF Filled, e
<1>7. Filled \in [Index -> Entry]
  BY <1>1, <1>5, <1>6
<1>8. IsSample(new, sv_mode, ASDUCount, smpCounter - ASDUCount)
  BY <1>1, <1>3 DEF IsSample
<1>9. ASSUME NEW k \in 0 .. ASDUCount
      PROVE  IsSample(Filled[k], sv_mode, k, smpCounter - ASDUCount)
  <2>0. k \in Index
    BY <1>1 DEF Index
  <2>1. CASE k = ASDUCount
    BY <2>1, <2>0, <1>1, <1>6, <1>8
  <2>2. CASE k # ASDUCount
    <3>1. Filled[k] = asdu[k] /\ k \in 0 .. ASDUCount - 1
      BY <2>2, <2>0, <1>1, <1>6
    <3>2. IsSample(asdu[k], sv_mode, k, smpCounter - ASDUCount)
      BY <3>1 DEF PartWhole
    <3>3. QED
      BY <3>1, <3>2
  <2>3. QED
    BY <2>1, <2>2
<1>10. QED
  BY <1>7, <1>9

(* Its packet, when it is the last of the cycle, is a whole one. *)
LEMMA PacketGood ==
  ASSUME IInv, ASDUCount + 1 = NoASDU
  PROVE  /\ Packet(sv_mode, Filled) \in PacketType
         /\ Packet(sv_mode, Filled).mode = sv_mode
         /\ Whole(Packet(sv_mode, Filled))
<1> DEFINE p == Packet(sv_mode, Filled)
<1> USE SampleAssumption
<1>1. sv_mode \in Modes /\ ASDUCount \in Nat /\ smpCounter \in Int
  BY DEF IInv, TypeOK, Index, Counts
<1>2. Filled \in [Index -> Entry]
  BY FilledGood
<1>3. \A k \in Index : IsSample(Filled[k], sv_mode, k, smpCounter - ASDUCount)
  BY FilledGood, <1>1 DEF Index
<1>4. /\ p.mode = sv_mode
      /\ \A k \in Index : /\ p.asdu[k].header = HasHeader(sv_mode, k)
                           /\ p.asdu[k].full = Filled[k].full
                           /\ p.asdu[k].v = Filled[k].v
                           /\ p.asdu[k].smpCnt = Filled[k].smpCnt
  BY DEF Packet
<1>5. p \in PacketType
  <2>1. \A k \in Index : HasHeader(sv_mode, k) \in BOOLEAN
    BY DEF HasHeader
  <2>2. \A k \in Index : /\ Filled[k].full \in BOOLEAN /\ Filled[k].v \in Int
                         /\ Filled[k].smpCnt \in Counts
    BY <1>2 DEF Entry
  <2>3. QED
    BY <1>1, <2>1, <2>2 DEF Packet, PacketType
<1>6. 0 \in Index
  BY DEF Index
<1> HIDE DEF p
<1>7. p.asdu[0].smpCnt = smpCounter - ASDUCount
  <2>1. Filled[0].smpCnt = (smpCounter - ASDUCount) + 0
    BY <1>3, <1>6 DEF IsSample
  <2>2. p.asdu[0].smpCnt = Filled[0].smpCnt
    BY <1>4, <1>6
  <2>3. QED
    BY <1>1, <2>1, <2>2
<1>8. Whole(p)
  <2> SUFFICES ASSUME NEW k \in Index
               PROVE  /\ p.asdu[k].header = HasHeader(p.mode, k)
                      /\ IsSample(p.asdu[k], p.mode, k, p.asdu[0].smpCnt)
    BY DEF Whole
  <2>1. IsSample(Filled[k], sv_mode, k, smpCounter - ASDUCount)
    BY <1>3
  <2>2. QED
    BY <1>4, <1>7, <2>1 DEF IsSample
<1>9. QED
  BY <1>4, <1>5, <1>8 DEF p

(* The counters after a sample. *)
LEMMA CountersStep ==
  ASSUME IInv, SendFrame
  PROVE  /\ CountersAgree' /\ ASDU' \in Index /\ ASDUCount' \in Index
         /\ smpCounter' \in Counts
         /\ ASDUCount + 1 # NoASDU =>
              ASDUCount' = ASDUCount + 1 /\ smpCounter' = smpCounter + 1
<1> USE SampleAssumption, TimingAssumption
<1>1. ASDU = ASDUCount /\ ASDUCount \in Index /\ ASDUCount \in Nat
  BY DEF IInv, TypeOK, CountersAgree, Index
<1>2. PICK q \in 0 .. PacketsPerSecond - 1 : smpCounter = q * NoASDU + ASDUCount
  BY DEF IInv, CountersAgree
<1>3. /\ smpCounter \in Int /\ q * NoASDU \in Nat
      /\ smpCounter + 1 = smpRate
           <=> (ASDUCount + 1 = NoASDU /\ q + 1 = PacketsPerSecond)
      /\ (q + 1) * NoASDU = q * NoASDU + NoASDU
  <2>1. /\ q * NoASDU + ASDUCount + 1 = smpRate
             <=> (ASDUCount + 1 = NoASDU /\ q + 1 = PacketsPerSecond)
        /\ q * NoASDU \in Nat
        /\ (q + 1) * NoASDU = q * NoASDU + NoASDU
    BY <1>1, CountBound
  <2>2. QED
    BY <2>1, <1>1, <1>2
<1>4. /\ ASDU' = IF ASDUCount + 1 = NoASDU THEN 0 ELSE ASDUCount + 1
      /\ ASDUCount' = IF ASDUCount + 1 = NoASDU THEN 0 ELSE ASDUCount + 1
      /\ smpCounter' = IF smpCounter + 1 = smpRate THEN 0 ELSE smpCounter + 1
  BY <1>1 DEF SendFrame, Update
<1>5. /\ ASDU' = ASDUCount' /\ ASDUCount' \in Index
      /\ ASDUCount' = IF ASDUCount + 1 = NoASDU THEN 0 ELSE ASDUCount + 1
  BY <1>1, <1>4 DEF Index
<1>6. \E r \in 0 .. PacketsPerSecond - 1 : smpCounter' = r * NoASDU + ASDUCount'
  <2>1. CASE ASDUCount + 1 # NoASDU
    BY <2>1, <1>1, <1>2, <1>3, <1>4
  <2>2. CASE ASDUCount + 1 = NoASDU /\ q + 1 = PacketsPerSecond
    <3>1. smpCounter' = 0 /\ ASDUCount' = 0
      BY <2>2, <1>3, <1>4
    <3>2. 0 * NoASDU = 0 /\ 0 \in 0 .. PacketsPerSecond - 1
      OBVIOUS
    <3>3. QED
      BY <3>1, <3>2
  <2>3. CASE ASDUCount + 1 = NoASDU /\ q + 1 # PacketsPerSecond
    <3>1. smpCounter' = (q + 1) * NoASDU /\ ASDUCount' = 0
      BY <2>3, <1>1, <1>2, <1>3, <1>4
    <3>2. q + 1 \in 0 .. PacketsPerSecond - 1
      BY <2>3
    <3>3. (q + 1) * NoASDU + 0 = (q + 1) * NoASDU
      BY <1>3
    <3>4. QED
      BY <3>1, <3>2, <3>3
  <2>4. QED
    BY <2>1, <2>2, <2>3
<1>7. smpCounter' \in Counts
  BY <1>5, <1>6, CountBound
<1>8. ASDUCount + 1 # NoASDU =>
        ASDUCount' = ASDUCount + 1 /\ smpCounter' = smpCounter + 1
  BY <1>3, <1>4
<1>9. QED
  BY <1>5, <1>6, <1>7, <1>8 DEF CountersAgree

LEMMA SendFrameInv == ASSUME IInv, SendFrame PROVE IInv'
<1> USE SampleAssumption, TimingAssumption
<1>0. /\ TypeOK /\ PacketsWhole /\ ModesAlternate /\ PlainInStepPasses /\ PartWhole
      /\ ASDU = ASDUCount
  BY DEF IInv, CountersAgree
<1>1. /\ CountersAgree' /\ ASDU' \in Index /\ ASDUCount' \in Index
      /\ smpCounter' \in Counts
  BY CountersStep
<1>2. Filled \in [Index -> Entry] /\ asdu' = Filled
  BY FilledGood DEF SendFrame, Update
<1>3. /\ UNCHANGED <<rx, sv_mode_recv, decoded, report, lostOdd>>
      /\ Cleared' = Cleared
  BY DEF SendFrame, rxVars, Cleared, Index
<1>4. prev' \in Int
  BY <1>0 DEF SendFrame, Update, TypeOK
<1>5. CASE ASDUCount + 1 = NoASDU
  <2> DEFINE p == Packet(sv_mode, Filled)
  <2>1. net' = Append(net, p) /\ sv_mode' = OtherMode(sv_mode) /\ ASDUCount' = 0
    BY <1>0, <1>5 DEF SendFrame, Update
  <2>2. p \in PacketType /\ p.mode = sv_mode /\ Whole(p)
    BY <1>5, PacketGood
  <2> HIDE DEF p
  <2>3. net \in Seq(PacketType) /\ Len(net) \in Nat
    BY <1>0 DEF TypeOK
  <2>4. /\ net' \in Seq(PacketType)
        /\ Len(net') = Len(net) + 1
        /\ \A i \in 1 .. Len(net) : net'[i] = net[i]
        /\ net'[Len(net) + 1] = p
    BY <2>1, <2>2, <2>3
  <2>5. sv_mode' \in Modes
    BY <2>1 DEF OtherMode, Modes
  <2>6. TypeOK'
    BY <1>0, <1>1, <1>2, <1>3, <1>4, <2>4, <2>5 DEF TypeOK
  <2>7. PartWhole'
    BY <2>1 DEF PartWhole
  <2>8. PacketsWhole'
    <3> SUFFICES ASSUME NEW i \in 1 .. Len(net) + 1 PROVE Whole(net'[i])
      BY <2>4 DEF PacketsWhole, Whole, IsSample
    <3>1. CASE i = Len(net) + 1
      BY <3>1, <2>2, <2>4
    <3>2. CASE i \in 1 .. Len(net)
      BY <3>2, <1>0, <2>4 DEF PacketsWhole
    <3>3. QED
      BY <3>1, <3>2, <2>3
  <2>9. /\ \A i \in 1 .. Len(net) + 1 : ModeAt(i)' = ModeAt(i)
        /\ ModeAt(Len(net) + 1) = sv_mode
        /\ ModeAt(Len(net) + 2)' = sv_mode'
    BY <2>2, <2>3, <2>4 DEF ModeAt
  <2>10. ModesAlternate'
    <3>1. ASSUME NEW i \in 1 .. Len(net) + 1
          PROVE  ModeAt(i + 1)' = OtherMode(ModeAt(i)')
      <4>1. CASE i = Len(net) + 1
        <5>1. ModeAt(i)' = sv_mode
          BY <4>1, <2>2, <2>4, <2>3 DEF ModeAt
        <5>2. ModeAt(i + 1)' = sv_mode'
          BY <4>1, <2>3, <2>4 DEF ModeAt
        <5>3. QED
          BY <5>1, <5>2, <2>1
      <4>2. CASE i # Len(net) + 1
        <5>1. i \in 1 .. Len(net) /\ i + 1 \in 1 .. Len(net) + 1
          BY <4>2, <2>3
        <5>2. ModeAt(i + 1) = OtherMode(ModeAt(i))
          BY <5>1, <1>0 DEF ModesAlternate
        <5>3. QED
          BY <5>1, <5>2, <2>9
      <4>3. QED
        BY <4>1, <4>2
    <3>2. ModeAt(1)' = ModeAt(1)
      BY <2>3, <2>9
    <3>3. QED
      BY <3>1, <3>2, <1>0, <1>3, <2>4 DEF ModesAlternate, OtherMode
  <2>11. PlainInStepPasses'
    BY <1>0, <1>3 DEF PlainInStepPasses
  <2>12. QED
    BY <1>1, <2>6, <2>7, <2>8, <2>10, <2>11 DEF IInv
<1>6. CASE ASDUCount + 1 # NoASDU
  <2>1. net' = net /\ sv_mode' = sv_mode
    BY <1>0, <1>6 DEF SendFrame, Update
  <2>2. TypeOK'
    BY <1>0, <1>1, <1>2, <1>3, <1>4, <2>1 DEF TypeOK
  <2>3. ASDUCount \in Nat /\ ASDUCount' = ASDUCount + 1
        /\ smpCounter' - ASDUCount' = smpCounter - ASDUCount
    BY <1>0, <1>6, CountersStep DEF TypeOK, Index, Counts
  <2>4. ASSUME NEW k \in 0 .. ASDUCount' - 1
        PROVE  IsSample(asdu'[k], sv_mode', k, smpCounter' - ASDUCount')
    <3>1. k \in 0 .. ASDUCount
      BY <2>3
    <3>2. IsSample(Filled[k], sv_mode, k, smpCounter - ASDUCount)
      BY <3>1, FilledGood
    <3>3. QED
      BY <3>2, <1>2, <2>1, <2>3
  <2>5. sv_mode' = "COMPRESSION" => prev' = Value[ASDUCount' - 1]
    <3>1. sv_mode = "COMPRESSION" => prev' = Value[ASDUCount]
      BY <1>0 DEF SendFrame, Update
    <3>2. ASDUCount' - 1 = ASDUCount
      BY <2>3
    <3>3. QED
      BY <2>1, <3>1, <3>2
  <2>6. PartWhole'
    BY <2>4, <2>5 DEF PartWhole, IsSample
  <2>7. PacketsWhole' /\ ModesAlternate' /\ PlainInStepPasses'
    BY <1>0, <1>3, <2>1
    DEF PacketsWhole, Whole, IsSample, ModesAlternate, ModeAt, PlainInStepPasses
  <2>8. QED
    BY <1>1, <2>2, <2>6, <2>7 DEF IInv
<1>7. QED
  BY <1>5, <1>6

--------------------------------------------------------------------------------
(* The receiver and the way to it. *)

(* What removing the oldest packet leaves. *)
LEMMA TailGood ==
  ASSUME IInv, net # <<>>, net' = Tail(net), UNCHANGED sv_mode
  PROVE  /\ Head(net) \in PacketType /\ Whole(Head(net)) /\ ModeAt(1) = Head(net).mode
         /\ net' \in Seq(PacketType)
         /\ PacketsWhole'
         /\ \A i \in 1 .. Len(net') : ModeAt(i + 1)' = OtherMode(ModeAt(i)')
         /\ ModeAt(1)' = OtherMode(ModeAt(1))
<1>1. /\ net \in Seq(PacketType) /\ PacketsWhole
      /\ \A i \in 1 .. Len(net) : ModeAt(i + 1) = OtherMode(ModeAt(i))
  BY DEF IInv, TypeOK, ModesAlternate
<1>2. /\ net' \in Seq(PacketType) /\ Len(net') = Len(net) - 1
      /\ \A i \in 1 .. Len(net') : net'[i] = net[i + 1]
      /\ Head(net) = net[1] /\ Len(net) \in Nat /\ Len(net) > 0
      /\ Head(net) \in PacketType
  BY <1>1
<1>3. \A i \in 1 .. Len(net) : ModeAt(i)' = ModeAt(i + 1)
  <2> SUFFICES ASSUME NEW i \in 1 .. Len(net) PROVE ModeAt(i)' = ModeAt(i + 1)
    OBVIOUS
  <2>1. CASE i \in 1 .. Len(net')
    BY <2>1, <1>2 DEF ModeAt
  <2>2. CASE i \notin 1 .. Len(net')
    BY <2>2, <1>2 DEF ModeAt
  <2>3. QED
    BY <2>1, <2>2
<1>4. ASSUME NEW i \in 1 .. Len(net')
      PROVE  ModeAt(i + 1)' = OtherMode(ModeAt(i)')
  <2>1. i \in 1 .. Len(net) /\ i + 1 \in 1 .. Len(net)
    BY <1>2
  <2>2. ModeAt(i)' = ModeAt(i + 1) /\ ModeAt(i + 1)' = ModeAt((i + 1) + 1)
    BY <2>1, <1>3
  <2>3. ModeAt((i + 1) + 1) = OtherMode(ModeAt(i + 1))
    BY <2>1, <1>1
  <2>4. QED
    BY <2>2, <2>3
<1>5. ModeAt(1)' = OtherMode(ModeAt(1))
  <2>1. 1 \in 1 .. Len(net)
    BY <1>2
  <2>2. ModeAt(1)' = ModeAt(1 + 1)
    BY <2>1, <1>3
  <2>3. QED
    BY <2>1, <2>2, <1>1
<1>6. PacketsWhole'
  <2> SUFFICES ASSUME NEW i \in 1 .. Len(net') PROVE Whole(net'[i])
    BY DEF PacketsWhole, Whole, IsSample
  <2>1. i + 1 \in 1 .. Len(net) /\ net'[i] = net[i + 1]
    BY <1>2
  <2>2. QED
    BY <2>1, <1>1 DEF PacketsWhole
<1>7. Whole(Head(net)) /\ ModeAt(1) = Head(net).mode
  BY <1>1, <1>2 DEF PacketsWhole, ModeAt
<1>8. QED
  BY <1>2, <1>4, <1>5, <1>6, <1>7

(* Steps that leave the sender alone keep what is said of it. *)
LEMMA SenderKept ==
  ASSUME IInv, UNCHANGED txVars
  PROVE  CountersAgree' /\ PartWhole'
BY DEF IInv, txVars, CountersAgree, PartWhole, IsSample

LEMMA StartInv ==
  ASSUME IInv, NEW to \in {"share", "filter", "ready"},
         rx' = to, UNCHANGED <<txVars, net, rxVars, lostOdd>>
  PROVE  IInv'
<1>1. UNCHANGED txVars
  OBVIOUS
<1>2. CountersAgree' /\ PartWhole'
  BY <1>1, SenderKept
<1>3. TypeOK'
  BY DEF IInv, TypeOK, txVars, rxVars, Cleared
<1>4. PacketsWhole' /\ ModesAlternate' /\ PlainInStepPasses'
  BY DEF IInv, txVars, rxVars, PacketsWhole, Whole, IsSample, ModesAlternate,
         ModeAt, PlainInStepPasses
<1>5. QED
  BY <1>2, <1>3, <1>4 DEF IInv

LEMMA LoseInv == ASSUME IInv, Lose PROVE IInv'
<1>1. /\ net # <<>> /\ net' = Tail(net) /\ lostOdd' = ~lostOdd
      /\ UNCHANGED txVars /\ UNCHANGED sv_mode /\ UNCHANGED rx
      /\ UNCHANGED <<sv_mode_recv, decoded, report>>
  BY DEF Lose, txVars, rxVars
<1>2. CountersAgree' /\ PartWhole'
  BY <1>1, SenderKept
<1>3. TypeOK'
  BY <1>1, TailGood DEF IInv, TypeOK, txVars, Cleared
<1>4. sv_mode_recv \in Modes /\ ModeAt(1) \in Modes
      /\ ((ModeAt(1) = sv_mode_recv) <=> ~lostOdd)
  BY <1>1, TailGood DEF IInv, TypeOK, ModesAlternate, PacketType
<1>5. (ModeAt(1)' = sv_mode_recv') <=> ~lostOdd'
  <2>1. ModeAt(1)' = OtherMode(ModeAt(1))
    BY <1>1, TailGood
  <2>2. (OtherMode(ModeAt(1)) = sv_mode_recv) <=> ~(ModeAt(1) = sv_mode_recv)
    BY <1>4 DEF OtherMode, Modes
  <2>3. QED
    BY <2>1, <2>2, <1>1, <1>4
<1>6. PacketsWhole' /\ ModesAlternate'
  BY <1>1, <1>5, TailGood DEF ModesAlternate
<1>7. PlainInStepPasses'
  BY <1>1 DEF IInv, PlainInStepPasses
<1>8. QED
  BY <1>2, <1>3, <1>6, <1>7 DEF IInv

(* A whole packet without compression decodes to its samples. *)
LEMMA DecodePlain ==
  ASSUME NEW p, Whole(p), p.mode = "NO_COMPRESSION", NEW junk,
         sv_mode_recv = "NO_COMPRESSION"
  PROVE  Decode(p, junk) = Value
<1>1. ASSUME NEW k \in Index PROVE Decode(p, junk)[k] = Value[k]
  <2>1. /\ p.asdu[k].header = TRUE /\ p.asdu[k].full = TRUE
        /\ p.asdu[k].v = Value[k]
    BY DEF Whole, IsSample, HasHeader, InFull
  <2>2. InFull(sv_mode_recv, k)
    BY DEF InFull
  <2>3. QED
    BY <2>1, <2>2 DEF Decode, DecodedSample
<1>2. Decode(p, junk) = [k \in Index |-> Decode(p, junk)[k]]
  BY DEF Decode
<1>3. Value = [k \in Index |-> Value[k]]
  BY TimingAssumption
<1>4. QED
  BY <1>1, <1>2, <1>3

LEMMA ReceiveInv == ASSUME IInv, Receive PROVE IInv'
<1>1. /\ net # <<>> /\ net' = Tail(net) /\ UNCHANGED <<txVars, rx, lostOdd>>
      /\ UNCHANGED sv_mode /\ UNCHANGED lostOdd
      /\ sv_mode_recv' = OtherMode(sv_mode_recv) /\ decoded' = Cleared
  BY DEF Receive, txVars
<1> DEFINE p == Head(net)
<1>2. PICK junk \in JunkFor(p) :
        report' = [sent |-> p.mode, read |-> sv_mode_recv,
                   passed |-> Decode(p, junk) = Value]
  BY DEF Receive
<1>3. p.mode \in Modes /\ Whole(p) /\ ModeAt(1) = p.mode /\ sv_mode_recv \in Modes
  BY <1>1, TailGood DEF IInv, TypeOK, PacketType
<1> HIDE DEF p
<1>4. CountersAgree' /\ PartWhole'
  BY <1>1, SenderKept
<1>5. report' \in [sent : Modes, read : Modes, passed : BOOLEAN]
  <2>1. (Decode(p, junk) = Value) \in BOOLEAN
    OBVIOUS
  <2>2. QED
    BY <2>1, <1>2, <1>3
<1>6. sv_mode_recv' \in Modes
  BY <1>1, <1>3 DEF OtherMode, Modes
<1>7. TypeOK'
  <2>1. net' \in Seq(PacketType)
    BY <1>1, TailGood
  <2>2. QED
    BY <1>1, <1>5, <1>6, <2>1 DEF IInv, TypeOK, txVars, Cleared
<1>8. (ModeAt(1)' = sv_mode_recv') <=> ~lostOdd'
  <2>1. ModeAt(1)' = OtherMode(ModeAt(1))
    BY <1>1, TailGood
  <2>2. (ModeAt(1) = sv_mode_recv) <=> ~lostOdd
    BY DEF IInv, ModesAlternate
  <2>3. (OtherMode(ModeAt(1)) = OtherMode(sv_mode_recv)) <=> (ModeAt(1) = sv_mode_recv)
    BY <1>3 DEF OtherMode, Modes
  <2>4. QED
    BY <2>1, <2>2, <2>3, <1>1
<1>9. PacketsWhole' /\ ModesAlternate'
  BY <1>1, <1>8, TailGood DEF ModesAlternate
<1>10. PlainInStepPasses'
  <2> SUFFICES ASSUME report'.sent = "NO_COMPRESSION", report'.read = report'.sent
               PROVE  report'.passed
    BY DEF PlainInStepPasses
  <2>1. p.mode = "NO_COMPRESSION" /\ sv_mode_recv = "NO_COMPRESSION"
    BY <1>2
  <2>2. Decode(p, junk) = Value
    BY <2>1, <1>3, DecodePlain
  <2>3. QED
    BY <2>2, <1>2
<1>11. QED
  BY <1>4, <1>7, <1>9, <1>10 DEF IInv

--------------------------------------------------------------------------------
(* The theorems. *)

LEMMA NextInv == ASSUME IInv, [Next]_vars PROVE IInv'
<1>1. CASE SendFrame
  BY <1>1, SendFrameInv
<1>2. CASE GetOffset \/ ShareOffset \/ SetFilter
  BY <1>2, StartInv DEF GetOffset, ShareOffset, SetFilter, StartStep
<1>3. CASE Lose
  BY <1>3, LoseInv
<1>4. CASE Receive
  BY <1>4, ReceiveInv
<1>5. CASE UNCHANGED vars
  <2>1. UNCHANGED txVars /\ UNCHANGED <<net, rx, rxVars, lostOdd>>
    BY <1>5 DEF vars
  <2>2. CountersAgree' /\ PartWhole'
    BY <2>1, SenderKept
  <2>3. TypeOK'
    BY <2>1 DEF IInv, TypeOK, txVars, rxVars, Cleared
  <2>4. PacketsWhole' /\ ModesAlternate' /\ PlainInStepPasses'
    BY <2>1 DEF IInv, txVars, rxVars, PacketsWhole, Whole, IsSample,
                ModesAlternate, ModeAt, PlainInStepPasses
  <2>5. QED
    BY <2>2, <2>3, <2>4 DEF IInv
<1>6. QED
  BY <1>1, <1>2, <1>3, <1>4, <1>5 DEF Next

(* Types, counters, the packets and the modes of sender and receiver agree, *)
(* for any number of samples, any samples and any length of a second.       *)
THEOREM TimingInvariant == Spec => []IInv
<1>1. Init => IInv
  BY InitInv
<1>2. IInv /\ [Next]_vars => IInv'
  BY NextInv
<1>3. QED
  BY <1>1, <1>2, PTL DEF Spec

(* Every packet is one cycle, in one mode, with consecutive sample counts.  *)
THEOREM TimingPacketsWhole == Spec => []PacketsWhole
<1>1. IInv => PacketsWhole
  BY DEF IInv
<1>2. QED
  BY <1>1, TimingInvariant, PTL

(* The receiver reads a packet as it was encoded exactly when an even       *)
(* number of packets was lost before it.                                    *)
THEOREM TimingModesFollowLosses == Spec => []ModesFollowLosses
<1>1. IInv => ModesFollowLosses
  <2> SUFFICES ASSUME IInv, net # <<>>
               PROVE  Head(net).mode = sv_mode_recv <=> ~lostOdd
    BY DEF ModesFollowLosses
  <2>1. net \in Seq(PacketType)
    BY DEF IInv, TypeOK
  <2>2. ModeAt(1) = Head(net).mode
    BY <2>1 DEF ModeAt
  <2>3. QED
    BY <2>2 DEF IInv, ModesAlternate
<1>2. QED
  BY <1>1, TimingInvariant, PTL

(* A packet without compression that is read as such passes the validation. *)
THEOREM TimingPlainInStepPasses == Spec => []PlainInStepPasses
<1>1. IInv => PlainInStepPasses
  BY DEF IInv
<1>2. QED
  BY <1>1, TimingInvariant, PTL
================================================================================
