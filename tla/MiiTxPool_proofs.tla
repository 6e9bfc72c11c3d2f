--------------------------- MODULE MiiTxPool_proofs ---------------------------
(***************************************************************************)
(* When a packet sent leaves a byte of its reservation unused, or finds    *)
(* the pool empty and large enough (PacketsFit), IInv is an inductive      *)
(* invariant of every transmit pool, and the safety properties of          *)
(* MiiTxPool follow from it.                                               *)
(***************************************************************************)
EXTENDS MiiTxPool, MiiMempool_proofs

(* The part of IInv that a store into free space can disturb. *)
PoolInv ==
  /\ PoolTypeOK
  /\ unread \subseteq HdrAddr /\ held \subseteq HdrAddr
  /\ FlagOK
  /\ Chain(mem, queued, rdptr, wrptr)
  /\ StatusOK
  /\ FreeOK

producerTypes ==
  /\ ppc \in {"idle", "fill", "link", "publish"}
  /\ dptr \in Addr
  /\ left \in Words
  /\ end_ptr \in HdrAddr

LEMMA IInvParts == IInv <=> PoolInv /\ producerTypes /\ ProducerOK
BY DEF IInv, PoolInv, producerTypes, TypeOK

LEMMA AddrFacts ==
  /\ HdrAddr \subseteq Addr
  /\ Addr \subseteq Int
  /\ \A a \in Addr : a >= 1 /\ a < End
  /\ \A h \in HdrAddr : h >= Start /\ h + MinUsage <= End
  /\ Start \in HdrAddr
  /\ 0 \notin HdrAddr
BY PoolAssumption DEF HdrAddr, Addr

LEMMA WordsFacts ==
  /\ 0 \in Words
  /\ Words \subseteq Nat
  /\ \A n \in Words : n > 0 => n - 1 \in Words
BY TxAssumption DEF Words

(* A store anywhere in the free stretch, which starts at wrptr, disturbs    *)
(* no packet.                                                               *)
LEMMA WriteFree ==
  ASSUME PoolInv, NEW W \in SUBSET Addr,
         \A x \in W : x = wrptr \/ Between(wrptr, x, rdptr),
         mem' \in [Addr -> Int],
         \A a \in Addr \ W : mem'[a] = mem[a],
         UNCHANGED <<rdptr, wrptr, rdptr_at_start, freeVars, queued,
                     unread, held>>
  PROVE  PoolInv'
<1> USE DEF PoolInv
<1>1. \A h \in queued : h \in Addr \ W
  BY AddrFacts, FreeNotInChain DEF PoolTypeOK
<1>2. \A h \in queued : mem'[h] = mem[h] /\ NextIn(mem', h) = NextIn(mem, h)
  BY <1>1 DEF NextIn
<1>3. Chain(mem', queued, rdptr, wrptr)
  BY <1>2, ChainFrame
<1>4. StatusOK'
  BY <1>2 DEF StatusOK, freeVars
<1>5. FreeOK'
  BY DEF FreeOK, freeVars
<1>6. PoolTypeOK' /\ FlagOK'
  BY DEF PoolTypeOK, FlagOK, freeVars
<1> QED BY <1>3, <1>4, <1>5, <1>6

(* A reservation granted covers the fields of the packet, the words of the  *)
(* longest packet, and a word more.                                         *)
LEMMA ReservedRoom ==
  ASSUME PacketsFit, rdptr \in HdrAddr, wrptr \in HdrAddr,
         HasRoom
  PROVE  /\ LeadWords \subseteq Addr
         /\ \A x \in LeadWords : Between(wrptr, x, rdptr)
         /\ wrptr + Lead \in Addr
         /\ Between(wrptr, wrptr + Lead, rdptr)
         /\ WordsAhead(wrptr + Lead) > SentWords
         /\ rdptr = Start => End - (wrptr + Lead) >= SentWords + MinUsage
<1>1. /\ rdptr \in Int /\ wrptr \in Int /\ wrptr >= Start /\ wrptr + MinUsage <= End
      /\ rdptr >= Start /\ rdptr + MinUsage <= End
      /\ Start \in Int /\ End \in Int /\ MinUsage \in Int /\ Lead \in Int
      /\ SentWords \in Int /\ FullPacketSize \in Int
      /\ Start >= 1 /\ Lead >= 1 /\ Lead < MinUsage /\ SentWords >= 0
      /\ Start + MinUsage <= End
  BY AddrFacts, PoolAssumption, TxAssumption
<1>2. 4 * (Lead + SentWords) < FullPacketSize
  BY Zenon DEF PacketsFit
<1>3. CASE rdptr > wrptr
  BY <1>1, <1>2, <1>3
     DEF HasRoom, SpaceLeft, SizeNeeded, LeadWords, Between, WordsAhead, Addr
<1>4. CASE rdptr <= wrptr
  <2>1. CASE rdptr = Start
    BY <1>1, <1>2, <1>4, <2>1
       DEF HasRoom, SpaceLeft, SizeNeeded, LeadWords, Between, WordsAhead, Addr
  <2>2. CASE rdptr # Start
    BY <1>1, <1>2, <1>4, <2>2
       DEF HasRoom, SpaceLeft, SizeNeeded, LeadWords, Between, WordsAhead, Addr
  <2> QED BY <2>1, <2>2
<1> QED BY <1>1, <1>3, <1>4

(* An empty pool has room for the longest packet of all, which may wrap.    *)
LEMMA EmptyPoolRoom ==
  ASSUME PacketsFit, wrptr \in HdrAddr, queued = {},
         Chain(mem, queued, rdptr, wrptr)
  PROVE  /\ WordsAhead(wrptr + Lead) > LoneWords
         /\ rdptr = Start => End - (wrptr + Lead) >= LoneWords + MinUsage
<1>1. rdptr = wrptr
  BY Zenon DEF Chain
<1>2. /\ wrptr \in Int /\ Start \in Int /\ End \in Int /\ LoneWords \in Int
      /\ Lead \in Int /\ Lead >= 1 /\ MinUsage \in Int /\ MinUsage >= 1
  BY AddrFacts, PoolAssumption, TxAssumption
<1>3. Lead + LoneWords + MinUsage <= End - Start
  BY Zenon DEF PacketsFit
<1> QED BY <1>1, <1>2, <1>3 DEF WordsAhead

(* A packet that a client may send fits into the room that was found.       *)
LEMMA SentPacketRoom ==
  ASSUME PacketsFit, rdptr \in HdrAddr, wrptr \in HdrAddr, HasRoom,
         Chain(mem, queued, rdptr, wrptr), NEW n \in WordsSent
  PROVE  /\ n \in Words
         /\ WordsAhead(wrptr + Lead) > n
         /\ rdptr = Start => End - (wrptr + Lead) >= n + MinUsage
<1>1. /\ WordsAhead(wrptr + Lead) \in Int /\ End - (wrptr + Lead) \in Int
      /\ SentWords \in Int /\ LoneWords \in Int /\ MinUsage \in Int
  BY PoolAssumption, TxAssumption DEF WordsAhead, HdrAddr
<1>2. n \in Words
  BY DEF WordsSent, Words
<1>3. n \in Int /\ (n <= SentWords \/ (queued = {} /\ n <= LoneWords))
  BY TxAssumption DEF WordsSent, Words
<1>4. CASE n <= SentWords
  <2>1. /\ WordsAhead(wrptr + Lead) > SentWords
        /\ rdptr = Start => End - (wrptr + Lead) >= SentWords + MinUsage
    BY ReservedRoom
  <2> QED BY <1>1, <1>2, <1>3, <1>4, <2>1
<1>5. CASE queued = {} /\ n <= LoneWords
  <2>1. /\ WordsAhead(wrptr + Lead) > LoneWords
        /\ rdptr = Start => End - (wrptr + Lead) >= LoneWords + MinUsage
    BY <1>5, EmptyPoolRoom
  <2> QED BY <1>1, <1>2, <1>3, <1>5, <2>1
<1> QED BY <1>3, <1>4, <1>5

LEMMA LeadWordsInPool == wrptr \in HdrAddr => LeadWords \subseteq Addr
BY PoolAssumption DEF LeadWords, HdrAddr, Addr

(* Copying a word keeps the room ahead for the words that remain.           *)
LEMMA NextWordRoom ==
  ASSUME rdptr \in HdrAddr, wrptr \in HdrAddr, dptr \in Addr, left \in Nat,
         left > 0, Between(wrptr, dptr, rdptr), WordsAhead(dptr) > left,
         rdptr = Start => End - dptr >= left + MinUsage
  PROVE  /\ NextWord(dptr) \in Addr
         /\ Between(wrptr, NextWord(dptr), rdptr)
         /\ WordsAhead(NextWord(dptr)) > left - 1
         /\ rdptr = Start => End - NextWord(dptr) >= left - 1 + MinUsage
<1>1. /\ rdptr \in Int /\ wrptr \in Int /\ dptr \in Int /\ left \in Int
      /\ wrptr >= Start /\ wrptr + MinUsage <= End
      /\ rdptr >= Start /\ rdptr + MinUsage <= End
      /\ dptr >= Start /\ dptr < End
      /\ Start \in Int /\ End \in Int /\ MinUsage \in Int /\ MinUsage > 1
  BY PoolAssumption DEF HdrAddr, Addr
<1>2. CASE dptr + 1 = End
  BY <1>1, <1>2 DEF NextWord, Between, WordsAhead, Addr
<1>3. CASE dptr + 1 # End
  BY <1>1, <1>3 DEF NextWord, Between, WordsAhead, Addr
<1> QED BY <1>2, <1>3

(* With the copy complete mii_commit has no reason to discard, and the next *)
(* header falls in the free stretch.                                        *)
LEMMA EndPtrFree ==
  ASSUME rdptr \in HdrAddr, wrptr \in HdrAddr, dptr \in Addr, FlagOK,
         Between(wrptr, dptr, rdptr), rdptr = Start => End - dptr >= MinUsage
  PROVE  /\ ~Discards(dptr)
         /\ EndPtr(dptr) \in HdrAddr
         /\ Between(wrptr, EndPtr(dptr), rdptr)
<1>1. CASE TooCloseToEnd(dptr)
  <2>1. rdptr # Start
    BY <1>1, PoolAssumption DEF TooCloseToEnd, Addr
  <2>2. ~Discards(dptr)
    BY <2>1, Zenon DEF Discards, FlagOK
  <2> QED
    BY <1>1, <2>1, <2>2, PoolAssumption
       DEF EndPtr, TooCloseToEnd, Between, Addr, HdrAddr
<1>2. CASE ~TooCloseToEnd(dptr)
  BY <1>2, PoolAssumption DEF Discards, EndPtr, TooCloseToEnd, Addr, HdrAddr
<1> QED BY <1>1, <1>2

-----------------------------------------------------------------------------
(* One lemma per step of the transmit server. *)

LEMMA InitIInv == Init => IInv
<1> SUFFICES ASSUME Init PROVE IInv
  OBVIOUS
<1>1. mem \in [Addr -> Int]
  BY PoolAssumption DEF Init, PoolInit, Addr
<1>2. /\ rdptr = Start /\ wrptr = Start /\ rdptr_at_start = TRUE /\ dptr = Start
      /\ fpc = "idle" /\ fhdr = 0 /\ queued = {} /\ ppc = "idle" /\ left = 0
      /\ end_ptr = Start /\ unread = {} /\ held = {}
  BY DEF Init, PoolInit
<1>3. Start \in HdrAddr /\ Start \in Addr /\ 0 \in Words
  BY PoolAssumption, WordsFacts DEF HdrAddr, Addr
<1>4. TypeOK
  BY <1>1, <1>2, <1>3 DEF TypeOK, PoolTypeOK
<1>5. FlagOK
  BY <1>2, Zenon DEF FlagOK
<1>6. Chain(mem, queued, rdptr, wrptr)
  BY <1>2 DEF Chain
<1>7. StatusOK /\ FreeOK /\ ProducerOK
  BY <1>2 DEF StatusOK, FreeOK, ProducerOK
<1> QED BY <1>4, <1>5, <1>6, <1>7 DEF IInv

LEMMA ReserveStep == ASSUME PacketsFit, IInv, TxReserve PROVE IInv'
<1>1. /\ rdptr \in HdrAddr /\ wrptr \in HdrAddr /\ mem \in [Addr -> Int]
      /\ HasRoom
  BY DEF TxReserve, IInv, TypeOK, PoolTypeOK
<1>2. PICK j \in Junk : mem' = [a \in Addr |-> IF a \in LeadWords THEN j ELSE mem[a]]
  BY DEF TxReserve, WriteLead
<1>3. mem' \in [Addr -> Int] /\ \A a \in Addr \ LeadWords : mem'[a] = mem[a]
  BY <1>1, <1>2, PoolAssumption
<1>4. /\ UNCHANGED <<rdptr, wrptr, rdptr_at_start, freeVars, queued, unread, held>>
      /\ UNCHANGED end_ptr
      /\ ppc' = "fill" /\ dptr' = wrptr + Lead /\ left' \in WordsSent
  BY DEF TxReserve
<1>5. /\ left' \in Words /\ left' \in Int
      /\ WordsAhead(wrptr + Lead) > left'
      /\ rdptr = Start => End - (wrptr + Lead) >= left' + MinUsage
  <2>1. Chain(mem, queued, rdptr, wrptr)
    BY DEF IInv
  <2>2. PICK n \in WordsSent : left' = n
    BY <1>4
  <2>3. /\ n \in Words
        /\ WordsAhead(wrptr + Lead) > n
        /\ rdptr = Start => End - (wrptr + Lead) >= n + MinUsage
    BY <1>1, <2>1, SentPacketRoom
  <2>4. n \in Int
    BY <2>3, WordsFacts
  <2> QED BY <2>2, <2>3, <2>4
<1>6. PoolInv'
  BY <1>1, <1>3, <1>4, ReservedRoom, WriteFree, IInvParts
<1>7. producerTypes'
  BY <1>1, <1>4, <1>5, ReservedRoom DEF producerTypes, IInv, TypeOK
<1>8. ProducerOK'
  <2>1. Between(wrptr, dptr, rdptr)'
    BY <1>1, <1>4, ReservedRoom DEF Between
  <2>2. WordsAhead(dptr)' > left'
    BY <1>4, <1>5 DEF WordsAhead
  <2>3. rdptr' = Start => End - dptr' >= left' + MinUsage
    BY <1>4, <1>5
  <2>4. (\A x \in LeadWords : Between(wrptr, x, rdptr))'
    BY <1>1, <1>4, ReservedRoom DEF LeadWords, Between
  <2> QED BY <1>4, <2>1, <2>2, <2>3, <2>4 DEF ProducerOK
<1> QED BY <1>6, <1>7, <1>8, IInvParts, PTL

LEMMA WordStep == IInv /\ TxWord => IInv'
<1> SUFFICES ASSUME IInv, TxWord PROVE IInv'
  OBVIOUS
<1>1. /\ ppc = "fill" /\ left > 0 /\ left \in Words
      /\ dptr \in Addr /\ rdptr \in HdrAddr /\ wrptr \in HdrAddr
      /\ mem \in [Addr -> Int]
  BY DEF TxWord, IInv, TypeOK, PoolTypeOK
<1>2. /\ Between(wrptr, dptr, rdptr)
      /\ WordsAhead(dptr) > left
      /\ rdptr = Start => End - dptr >= left + MinUsage
  BY <1>1 DEF IInv, ProducerOK
<1>3. PICK j \in Junk : mem' = [mem EXCEPT ![dptr] = j]
  BY DEF TxWord
<1>4. mem' \in [Addr -> Int] /\ \A a \in Addr \ {dptr} : mem'[a] = mem[a]
  BY <1>1, <1>3, PoolAssumption
<1>5. /\ UNCHANGED <<rdptr, wrptr, rdptr_at_start, freeVars, queued, unread, held>>
      /\ dptr' = NextWord(dptr) /\ left' = left - 1 /\ UNCHANGED <<ppc, end_ptr>>
  BY DEF TxWord
<1>6. PoolInv'
  <2> DEFINE W == {dptr}
  <2>1. W \in SUBSET Addr /\ \A x \in W : Between(wrptr, x, rdptr)
    BY <1>1, <1>2
  <2>2. \A a \in Addr \ W : mem'[a] = mem[a]
    BY <1>4
  <2> HIDE DEF W
  <2> QED BY <1>4, <1>5, <2>1, <2>2, WriteFree, IInvParts
<1>7. producerTypes' /\ ProducerOK'
  <2>1. left \in Nat /\ left' \in Words
    BY <1>1, <1>5, WordsFacts
  <2>2. /\ NextWord(dptr) \in Addr
        /\ Between(wrptr, NextWord(dptr), rdptr)
        /\ WordsAhead(NextWord(dptr)) > left - 1
        /\ rdptr = Start => End - NextWord(dptr) >= left - 1 + MinUsage
    BY <1>1, <1>2, <2>1, NextWordRoom
  <2>3. producerTypes'
    BY <1>5, <2>1, <2>2 DEF producerTypes, IInv, TypeOK
  <2>4. ProducerOK'
    BY <1>1, <1>5, <2>2 DEF IInv, ProducerOK, Between, WordsAhead, LeadWords
  <2> QED BY <2>3, <2>4
<1> QED BY <1>6, <1>7, IInvParts, PTL

LEMMA CommitTestStep == IInv /\ (TxCommitTest \/ TxOtherPort) => IInv'
<1> SUFFICES ASSUME IInv, TxCommitTest \/ TxOtherPort PROVE IInv'
  OBVIOUS
<1>1. /\ UNCHANGED <<rdptr, wrptr, rdptr_at_start, freeVars, queued>>
      /\ UNCHANGED <<dptr, left, unread, held>>
  BY DEF TxCommitTest, TxOtherPort, poolVars, freeVars
<1>2. PoolInv'
  <2>1. CASE TxCommitTest
    <3>1. PICK j \in Junk : mem' = [a \in Addr |-> IF a \in LeadWords THEN j ELSE mem[a]]
      BY <2>1 DEF TxCommitTest, WriteLead
    <3>2. mem \in [Addr -> Int] /\ wrptr \in HdrAddr
      BY DEF IInv, TypeOK, PoolTypeOK
    <3>3. mem' \in [Addr -> Int] /\ \A a \in Addr \ LeadWords : mem'[a] = mem[a]
      BY <3>1, <3>2, PoolAssumption
    <3>4. LeadWords \in SUBSET Addr /\ \A x \in LeadWords : Between(wrptr, x, rdptr)
      BY <2>1, <3>2, LeadWordsInPool DEF TxCommitTest, IInv, ProducerOK
    <3> QED BY <1>1, <3>3, <3>4, WriteFree, IInvParts
  <2>2. CASE TxOtherPort
    BY <2>2, IInvParts
       DEF TxOtherPort, PoolInv, poolVars, PoolTypeOK, FlagOK, Chain, Between,
           NextIn, StatusOK, FreeOK
  <2> QED BY <2>1, <2>2
<1>3. producerTypes' /\ ProducerOK'
  <2>1. CASE ppc' = "idle"
    BY <1>1, <2>1
       DEF TxCommitTest, TxOtherPort, producerTypes, ProducerOK, IInv, TypeOK
  <2>2. CASE TxCommitTest /\ ~Discards(dptr)
    <3>1. /\ rdptr \in HdrAddr /\ wrptr \in HdrAddr /\ dptr \in Addr /\ FlagOK
          /\ Between(wrptr, dptr, rdptr)
          /\ rdptr = Start => End - dptr >= 0 + MinUsage
      BY <2>2 DEF IInv, TypeOK, PoolTypeOK, ProducerOK, TxCommitTest
    <3>2. 0 + MinUsage = MinUsage
      BY PoolAssumption
    <3>3. EndPtr(dptr) \in HdrAddr /\ Between(wrptr, EndPtr(dptr), rdptr)
      BY <3>1, <3>2, EndPtrFree
    <3> QED
      BY <1>1, <2>2, <3>3
         DEF TxCommitTest, producerTypes, ProducerOK, Between, IInv, TypeOK
  <2> QED BY <2>1, <2>2 DEF TxCommitTest, TxOtherPort
<1> QED BY <1>2, <1>3, IInvParts, PTL

LEMMA LinkStep == IInv /\ TxCommitLink => IInv'
<1> SUFFICES ASSUME IInv, TxCommitLink PROVE IInv'
  OBVIOUS
<1>1. wrptr \in HdrAddr /\ wrptr \in Addr /\ mem \in [Addr -> Int] /\ end_ptr \in Int
  BY AddrFacts DEF IInv, TypeOK, PoolTypeOK
<1>2. mem' \in [Addr -> Int] /\ mem'[wrptr] = end_ptr
      /\ \A a \in Addr \ {wrptr} : mem'[a] = mem[a]
  BY <1>1 DEF TxCommitLink, LinkPacket
<1>3. UNCHANGED <<rdptr, wrptr, rdptr_at_start, freeVars, queued, unread, held>>
  BY DEF TxCommitLink
<1>4. PoolInv'
  <2> DEFINE W == {wrptr}
  <2>1. W \in SUBSET Addr /\ \A x \in W : x = wrptr
    BY <1>1
  <2>2. \A a \in Addr \ W : mem'[a] = mem[a]
    BY <1>2
  <2> HIDE DEF W
  <2> QED BY <1>2, <1>3, <2>1, <2>2, WriteFree, IInvParts
<1>5. producerTypes' /\ ProducerOK'
  BY <1>2, <1>3
     DEF TxCommitLink, producerTypes, ProducerOK, Between, IInv, TypeOK
<1> QED BY <1>4, <1>5, IInvParts, PTL

LEMMA PublishStep == IInv /\ TxCommitPublish => IInv'
<1> SUFFICES ASSUME IInv, TxCommitPublish PROVE IInv'
  OBVIOUS
<1> DEFINE e == end_ptr
<1>1. /\ rdptr \in HdrAddr /\ wrptr \in HdrAddr /\ e \in HdrAddr
      /\ mem \in [Addr -> Int] /\ queued \subseteq HdrAddr
  BY DEF IInv, TypeOK, PoolTypeOK
<1>2. /\ wrptr' = e /\ queued' = queued \cup {wrptr} /\ unread' = unread \cup {wrptr}
      /\ ppc' = "idle"
      /\ UNCHANGED <<rdptr, rdptr_at_start, mem, freeVars, dptr, left, end_ptr, held>>
  BY DEF TxCommitPublish, Publish
<1>3. Between(wrptr, e, rdptr) /\ mem[wrptr] = e
  BY DEF TxCommitPublish, IInv, ProducerOK
<1>4. e \in Int /\ e > 0 /\ NextIn(mem, wrptr) = e
  BY <1>1, <1>3, AddrFacts DEF NextIn, Abs
<1>5. Chain(mem, queued', rdptr, e)
  BY <1>1, <1>2, <1>3, <1>4, ChainPush DEF IInv
<1>6. wrptr \notin queued
  BY DEF IInv, Chain
<1>7. StatusOK'
  <2>1. StatusOK
    BY DEF IInv
  <2>2. /\ unread' \subseteq queued' /\ held' \subseteq queued'
        /\ unread' \cap held' = {} /\ queued' \ {rdptr'} \subseteq unread'
    BY <1>2, <1>6, <2>1 DEF StatusOK
  <2>3. \A h \in queued' : mem'[h] > 0
    BY <1>2, <1>3, <1>4, <2>1 DEF StatusOK
  <2> QED BY <2>2, <2>3 DEF StatusOK
<1>8. FreeOK'
  <2>1. rdptr # e
    BY <1>1, <1>3, AddrFacts DEF Between
  <2>2. FreeOK /\ StatusOK /\ fpc' = fpc /\ fhdr' = fhdr /\ rdptr' = rdptr /\ mem' = mem
    BY <1>2 DEF IInv, freeVars
  <2> QED BY <1>2, <1>6, <2>1, <2>2 DEF FreeOK, StatusOK
<1>9. TypeOK' /\ FlagOK' /\ ProducerOK'
  BY <1>1, <1>2
     DEF IInv, TypeOK, PoolTypeOK, FlagOK, ProducerOK, freeVars
<1> QED BY <1>2, <1>5, <1>7, <1>8, <1>9 DEF IInv

-----------------------------------------------------------------------------
(* mii_tx_pins and mii_free. *)

LEMMA TakeStep == IInv /\ TxTake => IInv'
<1> SUFFICES ASSUME IInv, TxTake PROVE IInv'
  OBVIOUS
<1>1. /\ rdptr \in unread /\ unread' = unread \ {rdptr} /\ held' = held \cup {rdptr}
      /\ UNCHANGED <<rdptr, wrptr, rdptr_at_start, mem, fpc, fhdr, queued,
                     ppc, dptr, left, end_ptr>>
  BY DEF TxTake, poolVars, txVars
<1>2. StatusOK' /\ FreeOK'
  BY <1>1 DEF IInv, StatusOK, FreeOK
<1>3. TypeOK' /\ FlagOK' /\ ProducerOK'
  BY <1>1
     DEF IInv, TypeOK, PoolTypeOK, FlagOK, ProducerOK, WordsAhead, LeadWords, Between
<1>4. Chain(mem, queued, rdptr, wrptr)'
  BY <1>1 DEF IInv
<1> QED BY <1>2, <1>3, <1>4 DEF IInv

LEMMA ReleaseStep == ASSUME IInv, NEW h \in held, Release(h) PROVE IInv'
<1>1. /\ fpc = "idle" /\ fpc' = "check" /\ fhdr' = h /\ held' = held \ {h}
      /\ UNCHANGED <<rdptr, wrptr, rdptr_at_start, mem, queued,
                     ppc, dptr, left, end_ptr, unread>>
  BY DEF Release, FreeStart, txVars
<1>2. h \in queued /\ h \notin unread /\ h = rdptr
  BY DEF IInv, StatusOK
<1>3. StatusOK' /\ FreeOK'
  BY <1>1, <1>2 DEF IInv, StatusOK, FreeOK
<1>4. TypeOK' /\ FlagOK' /\ ProducerOK'
  BY <1>1
     DEF IInv, TypeOK, PoolTypeOK, FlagOK, ProducerOK, WordsAhead, LeadWords, Between
<1>5. Chain(mem, queued, rdptr, wrptr)'
  BY <1>1 DEF IInv
<1> QED BY <1>3, <1>4, <1>5 DEF IInv

LEMMA UnlinkStep == ASSUME IInv, FreeUnlink, UNCHANGED <<txVars, unread, held>>
                    PROVE  IInv'
<1> DEFINE n == NextIn(mem, rdptr)
<1>1. /\ rdptr \in HdrAddr /\ wrptr \in HdrAddr /\ mem \in [Addr -> Int]
      /\ queued \subseteq HdrAddr /\ rdptr \in Addr
  BY AddrFacts DEF IInv, TypeOK, PoolTypeOK
<1>2. /\ fpc = "check" /\ fhdr = rdptr /\ fpc' = "testWrptr"
      /\ rdptr' = n /\ fhdr' = n /\ rdptr_at_start' = (n = Start)
      /\ mem' = [mem EXCEPT ![rdptr] = 0] /\ queued' = queued \ {rdptr}
      /\ UNCHANGED <<wrptr, ppc, dptr, left, end_ptr, unread, held>>
  BY DEF FreeUnlink, txVars
<1>3. rdptr \in queued /\ rdptr \notin unread /\ rdptr \notin held
  BY <1>2 DEF IInv, FreeOK
<1>4. rdptr # wrptr
  BY <1>3 DEF IInv, Chain
<1>5. n \in HdrAddr /\ n # rdptr /\ Chain(mem, queued', n, wrptr)
  BY <1>1, <1>2, <1>4, ChainPop DEF IInv
<1>6. /\ mem' \in [Addr -> Int]
      /\ \A h \in queued' : mem'[h] = mem[h] /\ NextIn(mem', h) = NextIn(mem, h)
      /\ wrptr \in Addr /\ mem'[wrptr] = mem[wrptr]
  BY <1>1, <1>2, <1>4, AddrFacts DEF NextIn
<1>7. Chain(mem', queued', rdptr', wrptr')
  BY <1>2, <1>5, <1>6, ChainFrame
<1>8. StatusOK' /\ FreeOK'
  BY <1>2, <1>3, <1>6 DEF IInv, StatusOK, FreeOK
<1>9. ProducerOK'
  <2>1. \A x \in Addr : Between(wrptr, x, rdptr) => Between(wrptr, x, n)
    BY <1>1, <1>4, FreeGrows DEF IInv
  <2>2. dptr \in Addr /\ end_ptr \in Addr /\ left \in Int
    BY AddrFacts, WordsFacts DEF IInv, TypeOK
  <2>3. ppc = "fill" => /\ WordsAhead(dptr)' > left
                        /\ n = Start => End - dptr >= left + MinUsage
    <3> SUFFICES ASSUME ppc = "fill"
                 PROVE  /\ WordsAhead(dptr)' > left
                        /\ n = Start => End - dptr >= left + MinUsage
      OBVIOUS
    <3>1. Between(wrptr, dptr, rdptr) /\ WordsAhead(dptr) > left
      BY DEF IInv, ProducerOK
    <3>2. n = wrptr \/ Between(rdptr, n, wrptr)
      BY <1>3, <1>4, <1>5, <1>1 DEF IInv, Chain
    <3> HIDE DEF n
    <3>3. /\ n \in Int /\ rdptr \in Int /\ wrptr \in Int /\ dptr \in Int
          /\ rdptr >= Start /\ rdptr + MinUsage <= End
          /\ n >= Start /\ n + MinUsage <= End
          /\ wrptr >= Start /\ wrptr + MinUsage <= End
          /\ dptr >= Start /\ dptr < End
      BY <1>1, <1>5, <2>2, AddrFacts DEF Addr
    <3>4. rdptr' = n /\ dptr' = dptr
      BY <1>2
    <3>5. Start \in Int /\ End \in Int /\ MinUsage \in Int /\ MinUsage >= 1
      BY PoolAssumption
    <3> QED
      BY <1>4, <1>5, <2>2, <3>1, <3>2, <3>3, <3>4, <3>5 DEF Between, WordsAhead
  <2>4. (Between(wrptr, dptr, n) => Between(wrptr, dptr, rdptr)')
        /\ (Between(wrptr, end_ptr, n) => Between(wrptr, end_ptr, rdptr)')
    BY <1>2 DEF Between
  <2>5. ppc = "fill" => (\A x \in LeadWords : Between(wrptr, x, rdptr))'
    BY <1>1, <1>2, <2>1, LeadWordsInPool DEF IInv, ProducerOK, LeadWords, Between
  <2> QED BY <1>2, <1>6, <2>1, <2>2, <2>3, <2>4, <2>5 DEF IInv, ProducerOK
<1>10. TypeOK' /\ FlagOK'
  BY <1>2, <1>5, <1>6 DEF IInv, TypeOK, PoolTypeOK, FlagOK
<1> QED BY <1>7, <1>8, <1>9, <1>10 DEF IInv

(* Frees come in order, so the loop of mii_free never finds a packet to     *)
(* mark, nor one marked before.                                             *)
LEMMA TestStep == ASSUME IInv, FreeMark \/ FreeTestWrptr \/ FreeTestNext,
                         UNCHANGED <<txVars, unread, held>>
                  PROVE  IInv'
<1>1. ~FreeMark
  BY DEF FreeMark, IInv, FreeOK
<1>2. UNCHANGED <<rdptr, wrptr, rdptr_at_start, mem, queued,
                  ppc, dptr, left, end_ptr, unread, held>>
  BY <1>1 DEF FreeTestWrptr, FreeTestNext, txVars
<1>3. FreeOK' /\ StatusOK'
  <2>1. CASE FreeTestWrptr
    BY <1>2, <2>1 DEF FreeTestWrptr, FreeOK, IInv, StatusOK
  <2>2. CASE FreeTestNext
    <3>1. mem[fhdr] > 0
      BY <2>2 DEF FreeTestNext, IInv, FreeOK, StatusOK, Chain
    <3> QED BY <1>2, <2>2, <3>1 DEF FreeTestNext, FreeOK, IInv, StatusOK
  <2> QED BY <1>1, <2>1, <2>2
<1>4. TypeOK' /\ FlagOK' /\ ProducerOK'
  BY <1>1, <1>2
     DEF FreeTestWrptr, FreeTestNext, IInv, TypeOK, PoolTypeOK, FlagOK,
         ProducerOK, WordsAhead, LeadWords, Between
<1>5. Chain(mem, queued, rdptr, wrptr)'
  BY <1>2 DEF IInv
<1> QED BY <1>3, <1>4, <1>5 DEF IInv

LEMMA NextIInv == ASSUME PacketsFit PROVE IInv /\ [Next]_vars => IInv'
<1> SUFFICES ASSUME IInv, [Next]_vars PROVE IInv'
  OBVIOUS
<1>1. CASE TxReserve
  BY <1>1, ReserveStep
<1>2. CASE TxWord
  BY <1>2, WordStep
<1>3. CASE TxCommitTest \/ TxOtherPort
  BY <1>3, CommitTestStep
<1>4. CASE TxCommitLink
  BY <1>4, LinkStep
<1>5. CASE TxCommitPublish
  BY <1>5, PublishStep
<1>6. CASE TxTake
  BY <1>6, TakeStep
<1>7. CASE \E h \in held : Release(h)
  BY <1>7, ReleaseStep
<1>8. CASE Free
  <2>1. FreeStep /\ UNCHANGED <<txVars, unread, held>>
    BY <1>8 DEF Free
  <2> QED BY <2>1, UnlinkStep, TestStep DEF FreeStep
<1>9. CASE UNCHANGED vars
  BY <1>9
     DEF vars, poolVars, txVars, IInv, TypeOK, PoolTypeOK, FlagOK, StatusOK,
         FreeOK, ProducerOK, WordsAhead, LeadWords, Chain, NextIn, Between
<1> QED
  BY <1>1, <1>2, <1>3, <1>4, <1>5, <1>6, <1>7, <1>8, <1>9 DEF Next

-----------------------------------------------------------------------------
(* A transmit pool keeps its inductive invariant as long as a packet sent   *)
(* fits its reservation with a byte to spare, or is alone in a pool that is *)
(* large enough.                                                            *)
THEOREM TxPoolInvariant == ASSUME PacketsFit PROVE Spec => []IInv
BY InitIInv, NextIInv, PTL DEF Spec

(* Under PacketsFit the copy of a packet never makes the pool look empty.   *)
THEOREM TxEmptyOnlyWhenDrained ==
  ASSUME PacketsFit PROVE Spec => []EmptyOnlyWhenDrained
<1>1. IInv => EmptyOnlyWhenDrained
  BY DEF IInv, Chain, EmptyOnlyWhenDrained
<1> QED BY <1>1, TxPoolInvariant, PTL

(* Under PacketsFit mii_commit never gives up a packet of the server, which *)
(* does not look at its result.                                             *)
THEOREM TxReservationSuffices ==
  ASSUME PacketsFit PROVE Spec => []ReservationSuffices
<1>1. IInv => ReservationSuffices
  <2> SUFFICES ASSUME IInv, ppc = "fill", left = 0 PROVE ~Discards(dptr)
    BY DEF ReservationSuffices
  <2>1. /\ rdptr \in HdrAddr /\ wrptr \in HdrAddr /\ dptr \in Addr /\ FlagOK
        /\ Between(wrptr, dptr, rdptr)
        /\ rdptr = Start => End - dptr >= 0 + MinUsage
    BY DEF IInv, TypeOK, PoolTypeOK, ProducerOK
  <2>2. 0 + MinUsage = MinUsage
    BY PoolAssumption
  <2> QED BY <2>1, <2>2, EndPtrFree
<1> QED BY <1>1, TxPoolInvariant, PTL

(* What mii_tx_pins reads without the lock is the header of a queued packet *)
(* with its next pointer in place.                                          *)
THEOREM TxHeadIsLinked == ASSUME PacketsFit PROVE Spec => []HeadIsLinked
<1>1. IInv => HeadIsLinked
  BY DEF IInv, Chain, StatusOK, HeadIsLinked
<1> QED BY <1>1, TxPoolInvariant, PTL

(* Under PacketsFit the copy of a packet, and the stores into its first     *)
(* words, stay clear of what is queued.                                     *)
THEOREM TxNoOverwrite == ASSUME PacketsFit PROVE Spec => []NoOverwrite
<1>1. IInv => NoOverwrite
  <2> SUFFICES ASSUME IInv, NEW h \in queued, NEW x \in NextWrites \cap Footprint(h)
               PROVE  FALSE
    BY DEF NoOverwrite
  <2>1. x \in Addr /\ (x = h \/ Between(h, x, NextIn(mem, h)))
    BY DEF Footprint
  <2>2. /\ rdptr \in HdrAddr /\ wrptr \in HdrAddr /\ h \in HdrAddr
        /\ queued \subseteq HdrAddr
    BY DEF IInv, TypeOK, PoolTypeOK
  <2>3. x = wrptr \/ Between(wrptr, x, rdptr)
    BY <2>2, ReservedRoom DEF NextWrites, IInv, ProducerOK
  <2>4. /\ rdptr # wrptr /\ rdptr \in queued
        /\ h # wrptr /\ (h = rdptr \/ Between(rdptr, h, wrptr))
        /\ NextIn(mem, h) \in queued \cup {wrptr} /\ NextIn(mem, h) # h
        /\ ~Between(h, rdptr, NextIn(mem, h)) /\ ~Between(h, wrptr, NextIn(mem, h))
    BY DEF IInv, Chain
  <2>5. /\ x \in Int /\ h \in Int /\ rdptr \in Int /\ wrptr \in Int
        /\ NextIn(mem, h) \in Int
    BY <2>1, <2>2, <2>4, AddrFacts
  <2>6. x # h
    BY <2>3, <2>4, <2>5 DEF Between
  <2> QED BY <2>1, <2>3, <2>4, <2>5, <2>6 DEF Between
<1> QED BY <1>1, TxPoolInvariant, PTL

(* Under PacketsFit the room of every packet sent and freed comes back.     *)
THEOREM TxAllReclaimed == ASSUME PacketsFit PROVE Spec => []AllReclaimed
<1>1. IInv => AllReclaimed
  BY DEF IInv, FreeOK, Chain, AllReclaimed
<1> QED BY <1>1, TxPoolInvariant, PTL

-----------------------------------------------------------------------------
(* The pool implements a fifo of packets. *)

LEMMA FifoUnchanged == UNCHANGED <<queued, rdptr, unread, held>> => UNCHANGED Fifo
BY DEF Fifo, FifoOf, Packet, InOrder, Place, Older, Age

LEMMA PublishPuts == IInv /\ TxCommitPublish => PF!Next
<1> SUFFICES ASSUME IInv, TxCommitPublish PROVE PF!Next
  OBVIOUS
<1>1. /\ rdptr \in HdrAddr /\ wrptr \in HdrAddr /\ queued \subseteq HdrAddr
      /\ Chain(mem, queued, rdptr, wrptr)
  BY DEF IInv, TypeOK, PoolTypeOK
<1>2. /\ queued' = queued \cup {wrptr} /\ unread' = unread \cup {wrptr}
      /\ rdptr' = rdptr /\ held' = held
  BY DEF TxCommitPublish, Publish
<1>3. Fifo' = FifoOf(queued \cup {wrptr}, rdptr, unread \cup {wrptr}, held)
  BY <1>2 DEF Fifo, FifoOf, Packet, InOrder, Place, Older, Age
<1>4. Behind(queued, rdptr, wrptr)
  BY <1>1, ChainAges
<1>5. WithLast(Fifo', Fifo, wrptr)
  BY <1>1, <1>3, <1>4, FifoPut DEF Fifo
<1>6. PF!Put(wrptr)
  BY <1>5 DEF PF!Put, WithLast
<1> QED BY <1>1, <1>6 DEF PF!Next

LEMMA TakeTakes == IInv /\ TxTake => PF!Next
<1> SUFFICES ASSUME IInv, TxTake PROVE PF!Next
  OBVIOUS
<1>1. /\ rdptr \in HdrAddr /\ queued \subseteq HdrAddr
      /\ rdptr \in queued /\ rdptr \in unread
  BY DEF TxTake, IInv, TypeOK, PoolTypeOK, StatusOK
<1>2. /\ queued' = queued /\ rdptr' = rdptr
      /\ unread' = unread \ {rdptr} /\ held' = held \cup {rdptr}
  BY DEF TxTake, poolVars
<1>3. Fifo' = FifoOf(queued, rdptr, unread \ {rdptr}, held \cup {rdptr})
  BY <1>2 DEF Fifo, FifoOf, Packet, InOrder, Place, Older, Age
<1>4. Foremost(queued, unread, rdptr, rdptr)
  <2>1. \A g \in HdrAddr : Age(rdptr, g) \in Nat /\ Age(rdptr, rdptr) = 0
    BY <1>1, AgeInjective
  <2> QED BY <1>1, <2>1 DEF Foremost
<1> DEFINE F == FifoOf(queued, rdptr, unread, held)
<1>5. \E k \in DOMAIN F :
        /\ F[k].use = "unread"
        /\ \A j \in 1 .. (k - 1) : F[j].use # "unread"
        /\ FifoOf(queued, rdptr, unread \ {rdptr}, held \cup {rdptr})
             = WithUse(F, k, "held")
  BY <1>1, <1>4, FifoTake
<1>6. Fifo = F
  BY DEF Fifo
<1> HIDE DEF F
<1>7. PF!Take
  BY <1>3, <1>5, <1>6, Zenon DEF PF!Take, WithUse, SetUse
<1> QED BY <1>7 DEF PF!Next

LEMMA ReleaseReleases == ASSUME IInv, NEW h \in held, Release(h) PROVE PF!Next
<1>1. /\ rdptr \in HdrAddr /\ queued \subseteq HdrAddr
      /\ h \in queued /\ h \notin unread
  BY DEF IInv, TypeOK, PoolTypeOK, StatusOK
<1>2. queued' = queued /\ rdptr' = rdptr /\ unread' = unread /\ held' = held \ {h}
  BY DEF Release, FreeStart
<1>3. Fifo' = FifoOf(queued, rdptr, unread, held \ {h})
  BY <1>2 DEF Fifo, FifoOf, Packet, InOrder, Place, Older, Age
<1> DEFINE F == FifoOf(queued, rdptr, unread, held)
<1>4. \E k \in DOMAIN F :
        /\ F[k].use = "held"
        /\ FifoOf(queued, rdptr, unread, held \ {h}) = WithUse(F, k, "freed")
  BY <1>1, FifoRelease
<1>5. Fifo = F
  BY DEF Fifo
<1> HIDE DEF F
<1>6. PF!Release
  BY <1>3, <1>4, <1>5, Zenon DEF PF!Release, WithUse, SetUse
<1> QED BY <1>6 DEF PF!Next

LEMMA UnlinkReclaims ==
  ASSUME IInv, FreeUnlink, UNCHANGED <<unread, held>> PROVE PF!Next
<1> DEFINE n == NextIn(mem, rdptr)
<1>1. /\ rdptr \in HdrAddr /\ wrptr \in HdrAddr /\ queued \subseteq HdrAddr
      /\ mem \in [Addr -> Int] /\ Chain(mem, queued, rdptr, wrptr)
  BY DEF IInv, TypeOK, PoolTypeOK
<1>2. rdptr \in queued /\ rdptr \notin unread /\ rdptr \notin held
  BY DEF FreeUnlink, IInv, FreeOK
<1>3. n \in HdrAddr
  BY <1>1, <1>2 DEF Chain
<1>4. /\ queued' = queued \ {rdptr} /\ rdptr' = n
      /\ unread' = unread /\ held' = held
  BY DEF FreeUnlink
<1>5. Fifo' = FifoOf(queued \ {rdptr}, n, unread, held)
  BY <1>4 DEF Fifo, FifoOf, Packet, InOrder, Place, Older, Age
<1>6. SameOrder(queued, rdptr, n)
  BY <1>1, <1>2, ChainPopAges
<1> HIDE DEF n
<1>7. WithoutFirst(Fifo', Fifo)
  BY <1>1, <1>2, <1>3, <1>5, <1>6, FifoReclaim DEF Fifo
<1>8. PF!Reclaim
  BY <1>7 DEF PF!Reclaim, WithoutFirst
<1> QED BY <1>8 DEF PF!Next

(* Under PacketsFit a transmit pool implements the safety part of           *)
(* PacketFifo: mii_tx_pins starts on the packets in the order they were     *)
(* committed, on each once, and mii_free reclaims the oldest and only after *)
(* it was freed.                                                            *)
THEOREM TxPoolImplementsFifo == ASSUME PacketsFit PROVE Spec => PF!Safety
<1>1. Init => PF!Init
  <2> SUFFICES ASSUME Init PROVE Fifo = <<>>
    BY DEF PF!Init
  <2>1. queued = {}
    BY DEF Init, PoolInit
  <2>2. Cardinality(queued) = 0
    BY <2>1, FS_EmptySet
  <2> QED BY <2>2 DEF Fifo, FifoOf
<1>2. IInv /\ [Next]_vars => [PF!Next]_Fifo
  <2> SUFFICES ASSUME IInv, [Next]_vars PROVE PF!Next \/ UNCHANGED Fifo
    OBVIOUS
  <2>1. CASE TxCommitPublish
    BY <2>1, PublishPuts
  <2>2. CASE TxTake
    BY <2>2, TakeTakes
  <2>3. CASE \E h \in held : Release(h)
    BY <2>3, ReleaseReleases
  <2>4. CASE Free /\ FreeUnlink
    BY <2>4, UnlinkReclaims DEF Free
  <2>5. CASE Free /\ ~FreeUnlink
    <3>1. UNCHANGED <<queued, rdptr, unread, held>>
      BY <2>5 DEF Free, FreeStep, FreeMark, FreeTestWrptr, FreeTestNext
    <3> QED BY <3>1, FifoUnchanged
  <2>6. CASE \/ TxReserve \/ TxWord \/ TxOtherPort
             \/ TxCommitTest \/ TxCommitLink \/ UNCHANGED vars
    <3>1. UNCHANGED <<queued, rdptr, unread, held>>
      BY <2>6 DEF TxReserve, TxWord, TxOtherPort, TxCommitTest, TxCommitLink,
                  vars, poolVars
    <3> QED BY <3>1, FifoUnchanged
  <2> QED BY <2>1, <2>2, <2>3, <2>4, <2>5, <2>6 DEF Next
<1> QED BY <1>1, <1>2, TxPoolInvariant, PTL DEF Spec, PF!Safety

=============================================================================
