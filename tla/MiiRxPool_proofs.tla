--------------------------- MODULE MiiRxPool_proofs ---------------------------
(***************************************************************************)
(* IInv is an inductive invariant of every receive pool, whatever its size *)
(* and whatever the frames, and the safety properties of MiiRxPool follow  *)
(* from it.                                                                *)
(***************************************************************************)
EXTENDS MiiRxPool, MiiMempool_proofs

(* The part of IInv that a store into free space can disturb. *)
PoolInv ==
  /\ PoolTypeOK
  /\ my \in HdrAddr /\ unread \subseteq HdrAddr /\ held \subseteq HdrAddr
  /\ FlagOK
  /\ Chain(mem, queued, rdptr, wrptr)
  /\ Chain(mem, unread, my, wrptr)
  /\ StatusOK
  /\ FreeOK

producerTypes ==
  /\ ppc \in {"reserve", "sof", "data", "commit", "link", "publish"}
  /\ dptr \in Addr
  /\ end_ptr \in HdrAddr

LEMMA IInvParts == IInv <=> PoolInv /\ producerTypes /\ ProducerOK
BY DEF IInv, PoolInv, producerTypes, TypeOK

LEMMA AddrFacts ==
  /\ HdrAddr \subseteq Addr
  /\ Addr \subseteq Int
  /\ \A a \in Addr : a >= 1 /\ a < End
  /\ \A h \in HdrAddr : h >= Start /\ h + MinUsage <= End
  /\ Start \in HdrAddr
  /\ 0 \notin HdrAddr
BY PoolAssumption DEF HdrAddr, Addr

(* A store anywhere in the free stretch, which starts at wrptr, disturbs    *)
(* no packet.                                                               *)
LEMMA WriteFree ==
  ASSUME PoolInv, NEW W \in SUBSET Addr,
         \A x \in W : x = wrptr \/ Between(wrptr, x, rdptr),
         mem' \in [Addr -> Int],
         \A a \in Addr \ W : mem'[a] = mem[a],
         UNCHANGED <<rdptr, wrptr, rdptr_at_start, freeVars, queued,
                     my, unread, held>>
  PROVE  PoolInv'
<1> USE DEF PoolInv
<1>1. \A h \in queued : h \in Addr \ W
  BY AddrFacts, FreeNotInChain DEF PoolTypeOK
<1>2. \A h \in queued : mem'[h] = mem[h] /\ NextIn(mem', h) = NextIn(mem, h)
  BY <1>1 DEF NextIn
<1>3. Chain(mem', queued, rdptr, wrptr)
  BY <1>2, ChainFrame
<1>4. Chain(mem', unread, my, wrptr)
  BY <1>2, ChainFrame DEF StatusOK
<1>5. StatusOK'
  BY <1>2 DEF StatusOK, freeVars
<1>6. FreeOK'
  <2>1. IF rdptr = wrptr THEN queued = {} ELSE rdptr \in queued
    BY DEF Chain
  <2> QED BY <1>2, <2>1 DEF FreeOK, freeVars
<1>7. PoolTypeOK' /\ FlagOK'
  BY DEF PoolTypeOK, FlagOK, freeVars
<1> QED BY <1>3, <1>4, <1>5, <1>6, <1>7

(* The words stored unchecked, and the word at dptr, are free.              *)
LEMMA LeadWordsFree ==
  ASSUME IInv, ppc = "sof"
  PROVE  /\ LeadWords \subseteq Addr
         /\ \A x \in LeadWords : Between(wrptr, x, rdptr)
         /\ wrptr + Lead \in Addr
         /\ Between(wrptr, wrptr + Lead, rdptr)
<1>1. wrptr \in HdrAddr /\ rdptr \in HdrAddr
  BY DEF IInv, TypeOK, PoolTypeOK
<1>2. wrptr >= rdptr \/ rdptr - wrptr >= MinUsage
  BY <1>1, AddrFacts DEF IInv, ProducerOK, RoomToReserve
<1>3. wrptr \in Int /\ rdptr \in Int /\ wrptr >= Start /\ wrptr + MinUsage <= End
  BY <1>1, AddrFacts
<1> QED BY <1>2, <1>3, PoolAssumption DEF LeadWords, Between, Addr

LEMMA NextWordFree ==
  ASSUME rdptr \in HdrAddr, wrptr \in HdrAddr, dptr \in Addr,
         Between(wrptr, dptr, rdptr)
  PROVE  /\ NextWord(dptr) \in Addr
         /\ NextWord(dptr) = rdptr \/ Between(wrptr, NextWord(dptr), rdptr)
BY PoolAssumption DEF NextWord, Between, Addr, HdrAddr

LEMMA EndPtrFree ==
  ASSUME rdptr \in HdrAddr, wrptr \in HdrAddr, dptr \in Addr, FlagOK,
         Between(wrptr, dptr, rdptr), ~Discards(dptr)
  PROVE  EndPtr(dptr) \in HdrAddr /\ Between(wrptr, EndPtr(dptr), rdptr)
<1>1. CASE TooCloseToEnd(dptr)
  <2>1. rdptr # Start
    BY <1>1, Zenon DEF Discards, FlagOK
  <2> QED
    BY <1>1, <2>1, PoolAssumption
       DEF EndPtr, TooCloseToEnd, Between, Addr, HdrAddr
<1>2. CASE ~TooCloseToEnd(dptr)
  BY <1>2, PoolAssumption DEF EndPtr, TooCloseToEnd, Addr, HdrAddr
<1> QED BY <1>1, <1>2

-----------------------------------------------------------------------------
(* One lemma per step of mii_rx_pins. *)

LEMMA InitIInv == Init => IInv
<1> SUFFICES ASSUME Init PROVE IInv
  OBVIOUS
<1>1. mem \in [Addr -> Int]
  BY PoolAssumption DEF Init, PoolInit, Addr
<1> QED
  BY <1>1, AddrFacts
     DEF Init, PoolInit, IInv, TypeOK, PoolTypeOK, FlagOK, Chain, StatusOK,
         FreeOK, ProducerOK

LEMMA ReserveStep == IInv /\ RxReserve => IInv'
<1> SUFFICES ASSUME IInv, RxReserve PROVE IInv'
  OBVIOUS
<1> QED
  BY DEF IInv, RxReserve, poolVars, TypeOK, PoolTypeOK, FlagOK, Chain,
         Between, NextIn, StatusOK, FreeOK, ProducerOK, RoomToReserve

LEMMA LeadStep == IInv /\ (RxStart \/ RxOtherPool) => IInv'
<1> SUFFICES ASSUME IInv, RxStart \/ RxOtherPool PROVE IInv'
  OBVIOUS
<1>1. ppc = "sof" /\ WriteLead
  BY DEF RxStart, RxOtherPool
<1>2. PICK j \in Junk : mem' = [a \in Addr |-> IF a \in LeadWords THEN j ELSE mem[a]]
  BY <1>1 DEF WriteLead
<1>3. mem' \in [Addr -> Int] /\ \A a \in Addr \ LeadWords : mem'[a] = mem[a]
  BY <1>2, PoolAssumption DEF IInv, TypeOK, PoolTypeOK
<1>4. UNCHANGED <<rdptr, wrptr, rdptr_at_start, freeVars, queued, my, unread, held>>
  BY DEF RxStart, RxOtherPool
<1>5. PoolInv'
  BY <1>1, <1>3, <1>4, LeadWordsFree, WriteFree, IInvParts
<1>6. CASE RxStart
  <2>1. producerTypes' /\ ProducerOK'
    BY <1>1, <1>4, <1>6, LeadWordsFree
       DEF RxStart, producerTypes, ProducerOK, Between, IInv, TypeOK
  <2> QED BY <1>5, <2>1, IInvParts, PTL
<1>7. CASE RxOtherPool
  <2>1. producerTypes' /\ ProducerOK'
    BY <1>7 DEF RxOtherPool, producerTypes, ProducerOK, IInv, TypeOK
  <2> QED BY <1>5, <2>1, IInvParts, PTL
<1> QED BY <1>6, <1>7

LEMMA WordStep == IInv /\ (RxWord \/ RxEof) => IInv'
<1> SUFFICES ASSUME IInv, RxWord \/ RxEof PROVE IInv'
  OBVIOUS
<1>1. /\ ppc = "data" /\ dptr # rdptr
      /\ dptr \in Addr /\ rdptr \in HdrAddr /\ wrptr \in HdrAddr
      /\ mem \in [Addr -> Int]
  BY DEF RxWord, RxEof, IInv, TypeOK, PoolTypeOK
<1>2. Between(wrptr, dptr, rdptr)
  BY <1>1 DEF IInv, ProducerOK
<1>3. PICK j \in Junk : mem' = [mem EXCEPT ![dptr] = j]
  BY DEF RxWord, RxEof
<1>4. mem' \in [Addr -> Int] /\ \A a \in Addr \ {dptr} : mem'[a] = mem[a]
  BY <1>1, <1>3, PoolAssumption
<1>5. UNCHANGED <<rdptr, wrptr, rdptr_at_start, freeVars, queued, my, unread, held>>
  BY DEF RxWord, RxEof
<1>6. PoolInv'
  <2> DEFINE W == {dptr}
  <2>1. W \in SUBSET Addr /\ \A x \in W : Between(wrptr, x, rdptr)
    BY <1>1, <1>2
  <2>2. \A a \in Addr \ W : mem'[a] = mem[a]
    BY <1>4
  <2> HIDE DEF W
  <2> QED BY <1>4, <1>5, <2>1, <2>2, WriteFree, IInvParts
<1>7. CASE RxWord
  <2>1. producerTypes' /\ ProducerOK'
    BY <1>1, <1>2, <1>7, NextWordFree
       DEF RxWord, producerTypes, ProducerOK, Between, IInv, TypeOK
  <2> QED BY <1>6, <2>1, IInvParts, PTL
<1>8. CASE RxEof
  <2>1. producerTypes' /\ ProducerOK'
    BY <1>2, <1>8 DEF RxEof, producerTypes, ProducerOK, Between, IInv, TypeOK
  <2> QED BY <1>6, <2>1, IInvParts, PTL
<1> QED BY <1>7, <1>8

LEMMA CommitTestStep == IInv /\ (RxCommitTest \/ RxOverflow) => IInv'
<1> SUFFICES ASSUME IInv, RxCommitTest \/ RxOverflow PROVE IInv'
  OBVIOUS
<1>1. UNCHANGED poolVars /\ UNCHANGED <<dptr, my, unread, held>>
  BY DEF RxCommitTest, RxOverflow
<1>2. PoolInv'
  BY <1>1, IInvParts
     DEF PoolInv, poolVars, PoolTypeOK, FlagOK, Chain, Between, NextIn,
         StatusOK, FreeOK
<1>3. producerTypes' /\ ProducerOK'
  <2>1. CASE ppc' = "reserve"
    BY <1>1, <2>1
       DEF RxCommitTest, RxOverflow, producerTypes, ProducerOK, IInv, TypeOK
  <2>2. CASE RxCommitTest /\ ~Discards(dptr)
    <3>1. EndPtr(dptr) \in HdrAddr /\ Between(wrptr, EndPtr(dptr), rdptr)
      BY <2>2, EndPtrFree DEF IInv, TypeOK, PoolTypeOK, ProducerOK, RxCommitTest
    <3> QED
      BY <1>1, <2>2, <3>1
         DEF RxCommitTest, producerTypes, ProducerOK, Between, poolVars, IInv, TypeOK
  <2> QED BY <2>1, <2>2 DEF RxCommitTest, RxOverflow
<1> QED BY <1>2, <1>3, IInvParts, PTL

LEMMA LinkStep == IInv /\ RxCommitLink => IInv'
<1> SUFFICES ASSUME IInv, RxCommitLink PROVE IInv'
  OBVIOUS
<1>1. wrptr \in HdrAddr /\ wrptr \in Addr /\ mem \in [Addr -> Int] /\ end_ptr \in Int
  BY AddrFacts DEF IInv, TypeOK, PoolTypeOK
<1>2. mem' \in [Addr -> Int] /\ mem'[wrptr] = end_ptr
      /\ \A a \in Addr \ {wrptr} : mem'[a] = mem[a]
  BY <1>1 DEF RxCommitLink, LinkPacket
<1>3. UNCHANGED <<rdptr, wrptr, rdptr_at_start, freeVars, queued, my, unread, held>>
  BY DEF RxCommitLink
<1>4. PoolInv'
  <2> DEFINE W == {wrptr}
  <2>1. W \in SUBSET Addr /\ \A x \in W : x = wrptr
    BY <1>1
  <2>2. \A a \in Addr \ W : mem'[a] = mem[a]
    BY <1>2
  <2> HIDE DEF W
  <2> QED BY <1>2, <1>3, <2>1, <2>2, WriteFree, IInvParts
<1>5. producerTypes' /\ ProducerOK'
  BY <1>2, <1>3
     DEF RxCommitLink, producerTypes, ProducerOK, Between, IInv, TypeOK
<1> QED BY <1>4, <1>5, IInvParts, PTL

LEMMA PublishStep == IInv /\ RxCommitPublish => IInv'
<1> SUFFICES ASSUME IInv, RxCommitPublish PROVE IInv'
  OBVIOUS
<1> DEFINE e == end_ptr
<1>1. /\ rdptr \in HdrAddr /\ wrptr \in HdrAddr /\ e \in HdrAddr /\ my \in HdrAddr
      /\ mem \in [Addr -> Int]
      /\ queued \subseteq HdrAddr /\ unread \subseteq HdrAddr
  BY DEF IInv, TypeOK, PoolTypeOK
<1>2. /\ wrptr' = e /\ queued' = queued \cup {wrptr} /\ unread' = unread \cup {wrptr}
      /\ ppc' = "reserve"
      /\ UNCHANGED <<rdptr, rdptr_at_start, mem, freeVars, dptr, end_ptr, my, held>>
  BY DEF RxCommitPublish, Publish
<1>3. Between(wrptr, e, rdptr) /\ mem[wrptr] = e
  BY DEF RxCommitPublish, IInv, ProducerOK
<1>4. e \in Int /\ e > 0 /\ NextIn(mem, wrptr) = e
  BY <1>1, <1>3, AddrFacts DEF NextIn, Abs
<1>5. Chain(mem, queued', rdptr, e)
  BY <1>1, <1>2, <1>3, <1>4, ChainPush DEF IInv
<1>6. Between(wrptr, e, my)
  <2>1. my = wrptr \/ my \in queued
    BY DEF IInv, Chain, StatusOK
  <2>2. my = wrptr \/ (rdptr # wrptr /\ (my = rdptr \/ Between(rdptr, my, wrptr)))
    BY <2>1 DEF IInv, Chain
  <2>3. my \in Int /\ rdptr \in Int /\ wrptr \in Int /\ e \in Int
    BY <1>1, AddrFacts
  <2> QED BY <1>3, <2>2, <2>3 DEF Between
<1>7. Chain(mem, unread', my, e)
  BY <1>1, <1>2, <1>4, <1>6, ChainPush DEF IInv
<1>8. wrptr \notin queued
  BY DEF IInv, Chain
<1>9. StatusOK'
  <2>1. StatusOK
    BY DEF IInv
  <2>2. unread' \subseteq queued' /\ held' \subseteq queued' /\ unread' \cap held' = {}
    BY <1>2, <1>8, <2>1 DEF StatusOK
  <2>3. \A h \in unread' \cup held' : mem'[h] > 0
    BY <1>2, <1>3, <1>4, <2>1 DEF StatusOK
  <2>4. ASSUME NEW h \in queued' \ (unread' \cup held')
        PROVE  mem'[h] < 0 \/ (fpc' = "check" /\ fhdr' = h)
    BY <1>2, <2>1 DEF StatusOK, freeVars
  <2> QED BY <2>2, <2>3, <2>4 DEF StatusOK
<1>10. FreeOK'
  <2>1. IF rdptr = wrptr THEN queued = {} ELSE rdptr \in queued
    BY DEF IInv, Chain
  <2>2. rdptr # e
    BY <1>1, <1>3, AddrFacts DEF Between
  <2>3. FreeOK /\ StatusOK /\ fpc' = fpc /\ fhdr' = fhdr /\ rdptr' = rdptr /\ mem' = mem
    BY <1>2 DEF IInv, freeVars
  <2>4. CASE fpc = "idle"
    BY <1>3, <1>4, <2>1, <2>3, <2>4 DEF FreeOK
  <2>5. CASE fpc = "check"
    BY <1>2, <1>8, <2>3, <2>5 DEF FreeOK
  <2>6. CASE fpc \in {"testWrptr", "testNext"}
    BY <1>2, <2>2, <2>3, <2>6 DEF FreeOK
  <2> QED BY <2>3, <2>4, <2>5, <2>6 DEF FreeOK, IInv, TypeOK, PoolTypeOK
<1>11. TypeOK' /\ FlagOK' /\ ProducerOK'
  BY <1>1, <1>2
     DEF IInv, TypeOK, PoolTypeOK, FlagOK, ProducerOK, freeVars
<1> QED BY <1>2, <1>5, <1>7, <1>9, <1>10, <1>11 DEF IInv

-----------------------------------------------------------------------------
(* The receive server and mii_free. *)

LEMMA TakeStep == IInv /\ TakePacket => IInv'
<1> SUFFICES ASSUME IInv, TakePacket PROVE IInv'
  OBVIOUS
<1>1. /\ wrptr \in HdrAddr /\ my \in HdrAddr /\ mem \in [Addr -> Int]
      /\ unread \subseteq HdrAddr /\ my # wrptr
  BY DEF TakePacket, IInv, TypeOK, PoolTypeOK
<1>2. /\ my' = mem[my] /\ unread' = unread \ {my} /\ held' = held \cup {my}
      /\ UNCHANGED <<rdptr, wrptr, rdptr_at_start, mem, fpc, fhdr, queued,
                     ppc, dptr, end_ptr>>
  BY DEF TakePacket, poolVars, rxVars
<1>3. my \in unread /\ mem[my] > 0
  BY <1>1 DEF IInv, Chain, StatusOK
<1>4. mem[my] = NextIn(mem, my)
  BY <1>1, <1>3, AddrFacts DEF NextIn, Abs
<1>5. my' \in HdrAddr /\ Chain(mem, unread', my', wrptr)
  BY <1>1, <1>2, <1>4, ChainPop DEF IInv
<1>6. StatusOK' /\ FreeOK'
  BY <1>2, <1>3 DEF IInv, StatusOK, FreeOK
<1>7. TypeOK' /\ FlagOK' /\ ProducerOK'
  BY <1>1, <1>2, <1>3, <1>5
     DEF IInv, TypeOK, PoolTypeOK, FlagOK, ProducerOK, RoomToReserve, Between
<1>8. Chain(mem, queued, rdptr, wrptr)'
  BY <1>2 DEF IInv
<1> QED BY <1>2, <1>5, <1>6, <1>7, <1>8 DEF IInv

LEMMA ReleaseStep == ASSUME IInv, NEW h \in held, Release(h) PROVE IInv'
<1>1. /\ fpc = "idle" /\ fpc' = "check" /\ fhdr' = h /\ held' = held \ {h}
      /\ UNCHANGED <<rdptr, wrptr, rdptr_at_start, mem, queued,
                     ppc, dptr, end_ptr, my, unread>>
  BY DEF Release, FreeStart, rxVars
<1>2. h \in queued /\ h \notin unread /\ mem[h] > 0
  BY DEF IInv, StatusOK
<1>3. rdptr # wrptr
  BY <1>2 DEF IInv, Chain
<1>4. StatusOK' /\ FreeOK'
  BY <1>1, <1>2, <1>3 DEF IInv, StatusOK, FreeOK
<1>5. TypeOK' /\ FlagOK' /\ ProducerOK'
  BY <1>1
     DEF IInv, TypeOK, PoolTypeOK, FlagOK, ProducerOK, RoomToReserve, Between
<1>6. Chain(mem, queued, rdptr, wrptr)' /\ Chain(mem, unread, my, wrptr)'
  BY <1>1 DEF IInv
<1> QED BY <1>4, <1>5, <1>6 DEF IInv

LEMMA UnlinkStep == ASSUME IInv, FreeUnlink, UNCHANGED <<rxVars, my, unread, held>>
                    PROVE  IInv'
<1> DEFINE n == NextIn(mem, rdptr)
<1>1. /\ rdptr \in HdrAddr /\ wrptr \in HdrAddr /\ mem \in [Addr -> Int]
      /\ queued \subseteq HdrAddr /\ unread \subseteq HdrAddr
      /\ rdptr \in Addr
  BY AddrFacts DEF IInv, TypeOK, PoolTypeOK
<1>2. /\ fpc = "check" /\ fhdr = rdptr /\ fpc' = "testWrptr"
      /\ rdptr' = n /\ fhdr' = n /\ rdptr_at_start' = (n = Start)
      /\ mem' = [mem EXCEPT ![rdptr] = 0] /\ queued' = queued \ {rdptr}
      /\ UNCHANGED <<wrptr, ppc, dptr, end_ptr, my, unread, held>>
  BY DEF FreeUnlink, rxVars
<1>3. rdptr \in queued /\ rdptr \notin unread /\ rdptr \notin held
  BY <1>2 DEF IInv, FreeOK
<1>4. rdptr # wrptr
  BY <1>3 DEF IInv, Chain
<1>5. n \in HdrAddr /\ n # rdptr /\ Chain(mem, queued', n, wrptr)
  BY <1>1, <1>2, <1>4, ChainPop DEF IInv
<1>6. /\ mem' \in [Addr -> Int]
      /\ \A a \in Addr \ {rdptr} : mem'[a] = mem[a] /\ NextIn(mem', a) = NextIn(mem, a)
  BY <1>1, <1>2 DEF NextIn
<1>7. Chain(mem', queued', rdptr', wrptr')
  <2>1. \A h \in queued' : NextIn(mem', h) = NextIn(mem, h)
    BY <1>1, <1>2, <1>6, AddrFacts
  <2> QED BY <1>2, <1>5, <2>1, ChainFrame
<1>8. Chain(mem', unread', my', wrptr')
  <2>1. \A h \in unread : NextIn(mem', h) = NextIn(mem, h)
    BY <1>1, <1>3, <1>6, AddrFacts
  <2>2. Chain(mem, unread, my, wrptr)
    BY DEF IInv
  <2> QED BY <1>2, <2>1, <2>2, ChainFrame
<1>9. StatusOK'
  <2>1. \A h \in queued' : mem'[h] = mem[h]
    BY <1>1, <1>2, <1>6, AddrFacts
  <2>2. unread' \subseteq queued' /\ held' \subseteq queued' /\ unread' \cap held' = {}
    BY <1>2, <1>3 DEF IInv, StatusOK
  <2>3. \A h \in unread' \cup held' : mem'[h] > 0
    BY <1>2, <2>1, <2>2 DEF IInv, StatusOK
  <2>4. \A h \in queued' \ (unread' \cup held') : mem'[h] < 0
    BY <1>2, <2>1 DEF IInv, StatusOK
  <2> QED BY <2>2, <2>3, <2>4 DEF StatusOK
<1>10. FreeOK'
  BY <1>2 DEF FreeOK
<1>11. ProducerOK'
  <2>1. \A x \in Addr : x = rdptr \/ Between(wrptr, x, rdptr) => Between(wrptr, x, n)
    BY <1>1, <1>4, FreeGrows DEF IInv
  <2>2. RoomToReserve => RoomToReserve'
    <3>1. n = wrptr \/ Between(rdptr, n, wrptr)
      BY <1>5, <1>3, <1>4, <1>1 DEF IInv, Chain
    <3>2. MinUsage \in Int
      BY PoolAssumption
    <3>3. HdrAddr \subseteq Int
      BY DEF HdrAddr
    <3> HIDE DEF n
    <3>4. n \in Int /\ rdptr \in Int /\ wrptr \in Int
      BY <1>1, <1>5, <3>3
    <3>5. rdptr' = n /\ wrptr' = wrptr
      BY <1>2
    <3> QED BY <1>4, <3>1, <3>2, <3>4, <3>5 DEF RoomToReserve, Between
  <2>3. dptr \in Addr /\ end_ptr \in Addr
    BY AddrFacts DEF IInv, TypeOK
  <2>4. ppc' = "publish" => mem'[wrptr'] = end_ptr'
    BY <1>1, <1>2, <1>4, <1>6, AddrFacts DEF IInv, ProducerOK
  <2>5. (Between(wrptr, dptr, n) => Between(wrptr, dptr, rdptr)')
        /\ (Between(wrptr, end_ptr, n) => Between(wrptr, end_ptr, rdptr)')
    BY <1>2 DEF Between
  <2> QED BY <1>2, <2>1, <2>2, <2>3, <2>4, <2>5 DEF IInv, ProducerOK
<1>12. TypeOK' /\ FlagOK'
  BY <1>2, <1>5, <1>6 DEF IInv, TypeOK, PoolTypeOK, FlagOK
<1> QED BY <1>7, <1>8, <1>9, <1>10, <1>11, <1>12 DEF IInv

LEMMA MarkStep == ASSUME IInv, FreeMark, UNCHANGED <<rxVars, my, unread, held>>
                  PROVE  IInv'
<1>1. /\ mem \in [Addr -> Int] /\ queued \subseteq HdrAddr
      /\ unread \subseteq queued /\ held \subseteq queued
  BY DEF IInv, TypeOK, PoolTypeOK, StatusOK
<1>2. /\ fpc = "check" /\ fhdr # rdptr /\ fpc' = "idle" /\ fhdr' = 0
      /\ mem' = [mem EXCEPT ![fhdr] = -mem[fhdr]]
      /\ UNCHANGED <<rdptr, wrptr, rdptr_at_start, queued,
                     ppc, dptr, end_ptr, my, unread, held>>
  BY DEF FreeMark, rxVars
<1>3. /\ fhdr \in queued \ (unread \cup held) /\ fhdr \in Addr
      /\ mem[fhdr] > 0 /\ mem[rdptr] > 0
  BY <1>1, <1>2, AddrFacts DEF IInv, FreeOK
<1>4. /\ mem' \in [Addr -> Int] /\ mem'[fhdr] = -mem[fhdr]
      /\ \A a \in Addr \ {fhdr} : mem'[a] = mem[a]
  BY <1>1, <1>2, <1>3
<1>5. \A h \in queued : NextIn(mem', h) = NextIn(mem, h)
  BY <1>1, <1>3, <1>4, AddrFacts DEF NextIn, Abs
<1>6. Chain(mem, queued, rdptr, wrptr)' /\ Chain(mem, unread, my, wrptr)'
  <2>1. Chain(mem, queued, rdptr, wrptr) /\ Chain(mem, unread, my, wrptr)
    BY DEF IInv
  <2> QED BY <1>1, <1>2, <1>5, <2>1, ChainFrame
<1>7. StatusOK'
  <2>1. \A h \in unread \cup held : mem'[h] = mem[h]
    BY <1>1, <1>3, <1>4, AddrFacts
  <2>2. ASSUME NEW h \in queued \ (unread \cup held)
        PROVE  mem'[h] < 0
    <3>1. CASE h = fhdr
      BY <1>1, <1>3, <1>4, <3>1
    <3>2. CASE h # fhdr
      BY <1>1, <1>2, <1>4, <3>2, AddrFacts DEF IInv, StatusOK
    <3> QED BY <3>1, <3>2
  <2> QED BY <1>2, <2>1, <2>2 DEF IInv, StatusOK
<1>8. FreeOK'
  BY <1>2, <1>3, <1>4, AddrFacts DEF FreeOK, IInv, TypeOK, PoolTypeOK
<1>9. ProducerOK'
  <2>1. wrptr \in Addr /\ wrptr # fhdr
    BY <1>3, AddrFacts DEF IInv, TypeOK, PoolTypeOK, Chain
  <2> QED BY <1>2, <1>4, <2>1 DEF IInv, ProducerOK, RoomToReserve, Between
<1>10. TypeOK' /\ FlagOK'
  BY <1>2, <1>4 DEF IInv, TypeOK, PoolTypeOK, FlagOK
<1> QED BY <1>6, <1>7, <1>8, <1>9, <1>10 DEF IInv

LEMMA TestStep == ASSUME IInv, FreeTestWrptr \/ FreeTestNext,
                         UNCHANGED <<rxVars, my, unread, held>>
                  PROVE  IInv'
<1>1. UNCHANGED <<rdptr, wrptr, rdptr_at_start, mem, queued,
                  ppc, dptr, end_ptr, my, unread, held>>
  BY DEF FreeTestWrptr, FreeTestNext, rxVars
<1>2. fhdr = rdptr /\ fpc \in {"testWrptr", "testNext"}
  BY DEF FreeTestWrptr, FreeTestNext, IInv, FreeOK
<1>3. IF rdptr = wrptr THEN queued = {} ELSE rdptr \in queued
  BY DEF IInv, Chain
<1>4. rdptr \in Addr /\ mem[rdptr] \in Int
  BY AddrFacts DEF IInv, TypeOK, PoolTypeOK
<1>5. FreeOK' /\ StatusOK'
  <2>1. CASE FreeTestWrptr
    BY <1>1, <1>2, <2>1 DEF FreeTestWrptr, FreeOK, IInv, StatusOK
  <2>2. CASE FreeTestNext /\ mem[rdptr] > 0
    BY <1>1, <1>2, <2>2 DEF FreeTestNext, FreeOK, IInv, StatusOK
  <2>3. CASE FreeTestNext /\ ~(mem[rdptr] > 0)
    <3>1. rdptr \in queued \ (unread \cup held)
      BY <1>2, <1>3, <2>3 DEF FreeTestNext, IInv, FreeOK, StatusOK
    <3> QED BY <1>1, <1>2, <2>3, <3>1 DEF FreeTestNext, FreeOK, IInv, StatusOK
  <2> QED BY <2>1, <2>2, <2>3
<1>6. TypeOK' /\ FlagOK' /\ ProducerOK'
  BY <1>1
     DEF FreeTestWrptr, FreeTestNext, IInv, TypeOK, PoolTypeOK, FlagOK,
         ProducerOK, RoomToReserve, Between
<1>7. Chain(mem, queued, rdptr, wrptr)' /\ Chain(mem, unread, my, wrptr)'
  BY <1>1 DEF IInv
<1> QED BY <1>5, <1>6, <1>7 DEF IInv

LEMMA NextIInv == IInv /\ [Next]_vars => IInv'
<1> SUFFICES ASSUME IInv, [Next]_vars PROVE IInv'
  OBVIOUS
<1>1. CASE RxReserve
  BY <1>1, ReserveStep
<1>2. CASE RxStart \/ RxOtherPool
  BY <1>2, LeadStep
<1>3. CASE RxWord \/ RxEof
  BY <1>3, WordStep
<1>4. CASE RxCommitTest \/ RxOverflow
  BY <1>4, CommitTestStep
<1>5. CASE RxCommitLink
  BY <1>5, LinkStep
<1>6. CASE RxCommitPublish
  BY <1>6, PublishStep
<1>7. CASE TakePacket
  BY <1>7, TakeStep
<1>8. CASE \E h \in held : Release(h)
  BY <1>8, ReleaseStep
<1>9. CASE Free
  <2>1. FreeStep /\ UNCHANGED <<rxVars, my, unread, held>>
    BY <1>9 DEF Free
  <2> QED BY <2>1, UnlinkStep, MarkStep, TestStep DEF FreeStep
<1>10. CASE UNCHANGED vars
  BY <1>10
     DEF vars, poolVars, rxVars, IInv, TypeOK, PoolTypeOK, FlagOK, StatusOK,
         FreeOK, ProducerOK, RoomToReserve, Chain, NextIn, Between
<1> QED
  BY <1>1, <1>2, <1>3, <1>4, <1>5, <1>6, <1>7, <1>8, <1>9, <1>10 DEF Next

-----------------------------------------------------------------------------
(* A receive pool keeps its inductive invariant: the pool is a chain of     *)
(* packets from rdptr to wrptr, mii_rx_pins writes only between wrptr and   *)
(* rdptr, and every packet is unread, held, or freed and marked so.         *)
THEOREM RxPoolInvariant == Spec => []IInv
BY InitIInv, NextIInv, PTL DEF Spec

(* The pool looks empty only when it is.                                    *)
THEOREM RxEmptyOnlyWhenDrained == Spec => []EmptyOnlyWhenDrained
<1>1. IInv => EmptyOnlyWhenDrained
  BY DEF IInv, Chain, EmptyOnlyWhenDrained
<1> QED BY <1>1, RxPoolInvariant, PTL

(* No word mii_rx_pins or mii_commit is about to store falls in a packet    *)
(* still queued.                                                            *)
THEOREM RxNoOverwrite == Spec => []NoOverwrite
<1>1. IInv => NoOverwrite
  <2> SUFFICES ASSUME IInv, NEW h \in queued, NEW x \in NextWrites \cap Footprint(h)
               PROVE  FALSE
    BY DEF NoOverwrite
  <2>1. x \in Addr /\ (x = h \/ Between(h, x, NextIn(mem, h)))
    BY DEF Footprint
  <2>2. x = wrptr \/ Between(wrptr, x, rdptr)
    BY LeadWordsFree DEF NextWrites, IInv, ProducerOK
  <2>3. /\ rdptr \in HdrAddr /\ wrptr \in HdrAddr /\ h \in HdrAddr
        /\ queued \subseteq HdrAddr
    BY DEF IInv, TypeOK, PoolTypeOK
  <2>4. /\ rdptr # wrptr /\ rdptr \in queued
        /\ h # wrptr /\ (h = rdptr \/ Between(rdptr, h, wrptr))
        /\ NextIn(mem, h) \in queued \cup {wrptr} /\ NextIn(mem, h) # h
        /\ ~Between(h, rdptr, NextIn(mem, h)) /\ ~Between(h, wrptr, NextIn(mem, h))
    BY DEF IInv, Chain
  <2>5. /\ x \in Int /\ h \in Int /\ rdptr \in Int /\ wrptr \in Int
        /\ NextIn(mem, h) \in Int
    BY <2>1, <2>3, <2>4, AddrFacts
  <2>6. x # h
    BY <2>2, <2>4, <2>5 DEF Between
  <2> QED BY <2>1, <2>2, <2>4, <2>5, <2>6 DEF Between
<1> QED BY <1>1, RxPoolInvariant, PTL

(* mii_free leaves no packet behind that it could have reclaimed.           *)
THEOREM RxAllReclaimed == Spec => [](OldestIsInUse /\ AllReclaimed)
<1>1. IInv => OldestIsInUse /\ AllReclaimed
  <2> SUFFICES ASSUME IInv PROVE OldestIsInUse /\ AllReclaimed
    OBVIOUS
  <2>1. OldestIsInUse
    BY DEF IInv, FreeOK, OldestIsInUse
  <2>2. ASSUME fpc = "idle", unread = {}, held = {}, rdptr # wrptr
        PROVE  FALSE
    <3>1. rdptr \in queued /\ mem[rdptr] > 0 /\ mem[rdptr] < 0
      BY <2>1, <2>2 DEF IInv, Chain, StatusOK, OldestIsInUse
    <3>2. rdptr \in Addr /\ mem[rdptr] \in Int
      BY AddrFacts DEF IInv, TypeOK, PoolTypeOK
    <3> QED BY <3>1, <3>2
  <2> QED BY <2>1, <2>2 DEF AllReclaimed
<1> QED BY <1>1, RxPoolInvariant, PTL

(* The assertion of mii_update_my_rdptr cannot fail.                        *)
THEOREM RxReaderNextPositive == Spec => []ReaderNextPositive
<1>1. IInv => ReaderNextPositive
  <2> SUFFICES ASSUME IInv, my # wrptr
               PROVE  mem[my] > 0 /\ mem[my] \in unread \cup {wrptr}
    BY DEF ReaderNextPositive
  <2>1. my \in unread /\ mem[my] > 0 /\ NextIn(mem, my) \in unread \cup {wrptr}
    BY DEF IInv, Chain, StatusOK
  <2>2. mem[my] \in Int
    BY AddrFacts DEF IInv, TypeOK, PoolTypeOK
  <2> QED BY <2>1, <2>2 DEF NextIn, Abs
<1> QED BY <1>1, RxPoolInvariant, PTL

-----------------------------------------------------------------------------
(* The pool implements a fifo of packets. *)

LEMMA FifoUnchanged == UNCHANGED <<queued, rdptr, unread, held>> => UNCHANGED Fifo
BY DEF Fifo, FifoOf, Packet, InOrder, Place, Older, Age

LEMMA PublishPuts == IInv /\ RxCommitPublish => PF!Next
<1> SUFFICES ASSUME IInv, RxCommitPublish PROVE PF!Next
  OBVIOUS
<1>1. /\ rdptr \in HdrAddr /\ wrptr \in HdrAddr /\ queued \subseteq HdrAddr
      /\ Chain(mem, queued, rdptr, wrptr)
  BY DEF IInv, TypeOK, PoolTypeOK
<1>2. /\ queued' = queued \cup {wrptr} /\ unread' = unread \cup {wrptr}
      /\ rdptr' = rdptr /\ held' = held
  BY DEF RxCommitPublish, Publish
<1>3. Fifo' = FifoOf(queued \cup {wrptr}, rdptr, unread \cup {wrptr}, held)
  BY <1>2 DEF Fifo, FifoOf, Packet, InOrder, Place, Older, Age
<1>4. Behind(queued, rdptr, wrptr)
  BY <1>1, ChainAges
<1>5. WithLast(Fifo', Fifo, wrptr)
  BY <1>1, <1>3, <1>4, FifoPut DEF Fifo
<1>6. PF!Put(wrptr)
  BY <1>5 DEF PF!Put, WithLast
<1> QED BY <1>1, <1>6 DEF PF!Next

LEMMA TakeTakes == IInv /\ TakePacket => PF!Next
<1> SUFFICES ASSUME IInv, TakePacket PROVE PF!Next
  OBVIOUS
<1>1. /\ rdptr \in HdrAddr /\ wrptr \in HdrAddr /\ my \in HdrAddr
      /\ queued \subseteq HdrAddr /\ unread \subseteq queued
      /\ Chain(mem, queued, rdptr, wrptr) /\ Chain(mem, unread, my, wrptr)
  BY DEF IInv, TypeOK, PoolTypeOK, StatusOK
<1>2. /\ queued' = queued /\ rdptr' = rdptr /\ my # wrptr
      /\ unread' = unread \ {my} /\ held' = held \cup {my}
  BY DEF TakePacket, poolVars
<1>3. Fifo' = FifoOf(queued, rdptr, unread \ {my}, held \cup {my})
  BY <1>2 DEF Fifo, FifoOf, Packet, InOrder, Place, Older, Age
<1>4. Foremost(queued, unread, rdptr, my)
  BY <1>1, <1>2, ChainFirst
<1>5. my \in queued
  BY <1>1, <1>4 DEF Foremost
<1> DEFINE F == FifoOf(queued, rdptr, unread, held)
<1>6. \E k \in DOMAIN F :
        /\ F[k].use = "unread"
        /\ \A j \in 1 .. (k - 1) : F[j].use # "unread"
        /\ FifoOf(queued, rdptr, unread \ {my}, held \cup {my}) = WithUse(F, k, "held")
  BY <1>1, <1>4, <1>5, FifoTake
<1>7. Fifo = F
  BY DEF Fifo
<1> HIDE DEF F
<1>8. PF!Take
  BY <1>3, <1>6, <1>7, Zenon DEF PF!Take, WithUse, SetUse
<1> QED BY <1>8 DEF PF!Next

LEMMA ReleaseReleases == ASSUME IInv, NEW h \in held, Release(h) PROVE PF!Next
<1>1. /\ rdptr \in HdrAddr /\ queued \subseteq HdrAddr
      /\ h \in queued /\ h \notin unread
  BY DEF IInv, TypeOK, PoolTypeOK, StatusOK
<1>2. queued' = queued /\ rdptr' = rdptr /\ unread' = unread /\ held' = held \ {h}
  BY DEF Release, FreeStart
<1>3. Fifo' = FifoOf(queued, rdptr, unread, held \ {h})
  BY <1>2 DEF Fifo, FifoOf, Packet, InOrder, Place, Older, Age
<1> DEFINE F == FifoOf(queued, rdptr, unread, held)
<1>4. \E k \in DOMAIN F :
        /\ F[k].use = "held"
        /\ FifoOf(queued, rdptr, unread, held \ {h}) = WithUse(F, k, "freed")
  BY <1>1, FifoRelease
<1>5. Fifo = F
  BY DEF Fifo
<1> HIDE DEF F
<1>6. PF!Release
  BY <1>3, <1>4, <1>5, Zenon DEF PF!Release, WithUse, SetUse
<1> QED BY <1>6 DEF PF!Next

LEMMA UnlinkReclaims ==
  ASSUME IInv, FreeUnlink, UNCHANGED <<unread, held>> PROVE PF!Next
<1> DEFINE n == NextIn(mem, rdptr)
<1>1. /\ rdptr \in HdrAddr /\ wrptr \in HdrAddr /\ queued \subseteq HdrAddr
      /\ mem \in [Addr -> Int] /\ Chain(mem, queued, rdptr, wrptr)
  BY DEF IInv, TypeOK, PoolTypeOK
<1>2. rdptr \in queued /\ rdptr \notin unread /\ rdptr \notin held
  BY DEF FreeUnlink, IInv, FreeOK
<1>3. n \in HdrAddr
  BY <1>1, <1>2 DEF Chain
<1>4. /\ queued' = queued \ {rdptr} /\ rdptr' = n
      /\ unread' = unread /\ held' = held
  BY DEF FreeUnlink
<1>5. Fifo' = FifoOf(queued \ {rdptr}, n, unread, held)
  BY <1>4 DEF Fifo, FifoOf, Packet, InOrder, Place, Older, Age
<1>6. SameOrder(queued, rdptr, n)
  BY <1>1, <1>2, ChainPopAges
<1> HIDE DEF n
<1>7. WithoutFirst(Fifo', Fifo)
  BY <1>1, <1>2, <1>3, <1>5, <1>6, FifoReclaim DEF Fifo
<1>8. PF!Reclaim
  BY <1>7 DEF PF!Reclaim, WithoutFirst
<1> QED BY <1>8 DEF PF!Next

(* A receive pool implements the safety part of PacketFifo, whatever its    *)
(* size, the frames and the order in which its packets are freed: commits   *)
(* put packets at the back, the server takes them in that order, each once, *)
(* and mii_free reclaims the oldest and only after it was freed.            *)
THEOREM RxPoolImplementsFifo == Spec => PF!Safety
<1>1. Init => PF!Init
  <2> SUFFICES ASSUME Init PROVE Fifo = <<>>
    BY DEF PF!Init
  <2>1. queued = {}
    BY DEF Init, PoolInit
  <2>2. Cardinality(queued) = 0
    BY <2>1, FS_EmptySet
  <2> QED BY <2>2 DEF Fifo, FifoOf
<1>2. IInv /\ [Next]_vars => [PF!Next]_Fifo
  <2> SUFFICES ASSUME IInv, [Next]_vars PROVE PF!Next \/ UNCHANGED Fifo
    OBVIOUS
  <2>1. CASE RxCommitPublish
    BY <2>1, PublishPuts
  <2>2. CASE TakePacket
    BY <2>2, TakeTakes
  <2>3. CASE \E h \in held : Release(h)
    BY <2>3, ReleaseReleases
  <2>4. CASE Free /\ FreeUnlink
    BY <2>4, UnlinkReclaims DEF Free
  <2>5. CASE Free /\ ~FreeUnlink
    <3>1. UNCHANGED <<queued, rdptr, unread, held>>
      BY <2>5 DEF Free, FreeStep, FreeMark, FreeTestWrptr, FreeTestNext
    <3> QED BY <3>1, FifoUnchanged
  <2>6. CASE \/ RxReserve \/ RxStart \/ RxOtherPool \/ RxWord \/ RxEof
             \/ RxOverflow \/ RxCommitTest \/ RxCommitLink \/ UNCHANGED vars
    <3>1. UNCHANGED <<queued, rdptr, unread, held>>
      BY <2>6 DEF RxReserve, RxStart, RxOtherPool, RxWord, RxEof, RxOverflow,
                  RxCommitTest, RxCommitLink, vars, poolVars
    <3> QED BY <3>1, FifoUnchanged
  <2> QED BY <2>1, <2>2, <2>3, <2>4, <2>5, <2>6 DEF Next
<1> QED BY <1>1, <1>2, RxPoolInvariant, PTL DEF Spec, PF!Safety

=============================================================================
