-------------------------- MODULE FrameFlow_proofs ---------------------------
(***************************************************************************)
(* Every packet is used by those it was given to, each once, and freed     *)
(* after the last of them and not before, for any number of packets and    *)
(* clients and any verdict of the filter.                                  *)
(***************************************************************************)
EXTENDS FrameFlow, FiniteSetTheorems, WellFoundedInduction, TLAPS

--------------------------------------------------------------------------------
(* Pools as sequences. *)

(* A set of natural numbers that is not empty has a least element. *)
LEMMA LeastPlace ==
  ASSUME NEW T \in SUBSET Nat, T # {}
  PROVE  \E x \in T : \A y \in T : x <= y
<1> DEFINE R == OpToRel(<, Nat)
<1>1. IsWellFoundedOn(R, Nat)
  BY NatLessThanWellFounded
<1>2. \A x, y \in Nat : y < x => <<y, x>> \in R
  BY DEF OpToRel
<1> HIDE DEF R
<1>3. PICK x \in T : \A y \in T : ~ (<<y, x>> \in R)
  BY <1>1, WFMin
<1>4. \A y \in T : ~ (y < x)
  BY <1>2, <1>3, Zenon
<1> QED  BY <1>3, <1>4

(* Unfreed cuts off packets that were freed, and nothing behind them.       *)
LEMMA UnfreedIsSuffix ==
  ASSUME NEW s \in Seq(Packets), NEW fr \in [Packets -> BOOLEAN]
  PROVE  \E m \in 0 .. Len(s) :
           /\ Unfreed(s, fr) = SubSeq(s, m + 1, Len(s))
           /\ \A j \in 1 .. m : fr[s[j]]
<1> DEFINE live == {k \in DOMAIN s : ~fr[s[k]]}
           First(k) == k \in live /\ \A j \in live : k <= j
<1>1. DOMAIN s = 1 .. Len(s) /\ Len(s) \in Nat /\ \A j \in 1 .. Len(s) : s[j] \in Packets
  OBVIOUS
<1>2. CASE live = {}
  <2>1. Unfreed(s, fr) = <<>>
    BY <1>2 DEF Unfreed
  <2>2. SubSeq(s, Len(s) + 1, Len(s)) = <<>>
    BY <1>1
  <2>3. \A j \in 1 .. Len(s) : fr[s[j]]
    BY <1>1, <1>2
  <2>4. Unfreed(s, fr) = SubSeq(s, Len(s) + 1, Len(s))
    BY <2>1, <2>2
  <2>5. Len(s) \in 0 .. Len(s)
    BY <1>1
  <2> HIDE DEF live
  <2> QED  BY <2>3, <2>4, <2>5
<1>3. CASE live # {}
  <2>1. \E k : First(k)
    <3>1. live \in SUBSET Nat
      BY <1>1
    <3> HIDE DEF live
    <3>2. \E k \in live : \A j \in live : k <= j
      BY <1>3, <3>1, LeastPlace
    <3> QED  BY <3>2
  <2> DEFINE k == CHOOSE k \in live : \A j \in live : k <= j
  <2>2. First(k)
    BY <2>1
  <2>3. Unfreed(s, fr) = SubSeq(s, k, Len(s))
    BY <1>3 DEF Unfreed
  <2> HIDE DEF k
  <2>4. \A j \in 1 .. k - 1 : fr[s[j]]
    BY <1>1, <2>2
  <2>5. k - 1 \in 0 .. Len(s) /\ (k - 1) + 1 = k
    BY <1>1, <2>2
  <2> HIDE DEF live
  <2> QED  BY <2>3, <2>4, <2>5
<1> QED  BY <1>2, <1>3

(* So it keeps every packet that was not freed, in its order. *)
LEMMA UnfreedKeeps ==
  ASSUME NEW s \in Seq(Packets), NEW fr \in [Packets -> BOOLEAN]
  PROVE  /\ Unfreed(s, fr) \in Seq(Packets)
         /\ \A p : InSeq(p, Unfreed(s, fr)) => InSeq(p, s)
         /\ \A p : InSeq(p, s) /\ ~fr[p] => InSeq(p, Unfreed(s, fr))
         /\ \E m \in 0 .. Len(s) :
              \A j \in DOMAIN Unfreed(s, fr) :
                j + m \in DOMAIN s /\ Unfreed(s, fr)[j] = s[j + m]
<1>1. PICK m \in 0 .. Len(s) : /\ Unfreed(s, fr) = SubSeq(s, m + 1, Len(s))
                               /\ \A j \in 1 .. m : fr[s[j]]
  BY UnfreedIsSuffix
<1> DEFINE t == SubSeq(s, m + 1, Len(s))
<1>2. /\ t \in Seq(Packets)
      /\ Len(t) = Len(s) - m
      /\ \A j \in 1 .. Len(t) : j + m \in 1 .. Len(s) /\ t[j] = s[j + m]
  BY <1>1
<1>3. \A j \in (m + 1) .. Len(s) : j - m \in 1 .. Len(t) /\ t[j - m] = s[j]
  BY <1>1
<1> HIDE DEF t
<1>4. \A p : InSeq(p, t) => InSeq(p, s)
  <2> SUFFICES ASSUME NEW p, NEW j \in DOMAIN t, t[j] = p
               PROVE  \E k \in DOMAIN s : s[k] = p
    BY DEF InSeq
  <2>1. j + m \in DOMAIN s /\ s[j + m] = p
    BY <1>2
  <2> QED  BY <2>1
<1>5. \A p : InSeq(p, s) /\ ~fr[p] => InSeq(p, t)
  <2> SUFFICES ASSUME NEW p, NEW j \in 1 .. Len(s), s[j] = p, ~fr[p]
               PROVE  InSeq(p, t)
    BY DEF InSeq
  <2>1. j \in (m + 1) .. Len(s)
    BY <1>1
  <2> QED  BY <1>2, <1>3, <2>1 DEF InSeq
<1> QED  BY <1>1, <1>2, <1>4, <1>5 DEF t

LEMMA InAppended ==
  ASSUME NEW s \in Seq(Packets), NEW p \in Packets
  PROVE  /\ Append(s, p) \in Seq(Packets)
         /\ \A o : InSeq(o, Append(s, p)) <=> InSeq(o, s) \/ o = p
<1>1. /\ Append(s, p) \in Seq(Packets)
      /\ DOMAIN Append(s, p) = 1 .. Len(s) + 1 /\ DOMAIN s = 1 .. Len(s)
      /\ \A j \in 1 .. Len(s) : Append(s, p)[j] = s[j]
      /\ Append(s, p)[Len(s) + 1] = p
      /\ Len(s) \in Nat
  OBVIOUS
<1>2. \A o : InSeq(o, Append(s, p)) => InSeq(o, s) \/ o = p
  <2> SUFFICES ASSUME NEW o, NEW j \in 1 .. Len(s) + 1, Append(s, p)[j] = o
               PROVE  InSeq(o, s) \/ o = p
    BY <1>1 DEF InSeq
  <2>1. CASE j = Len(s) + 1
    BY <1>1, <2>1
  <2>2. CASE j # Len(s) + 1
    BY <1>1, <2>2 DEF InSeq
  <2> QED  BY <2>1, <2>2
<1>3. \A o : InSeq(o, s) \/ o = p => InSeq(o, Append(s, p))
  BY <1>1 DEF InSeq
<1> QED  BY <1>1, <1>2, <1>3

(* If no packet is in s twice, all but the first are in the rest. *)
LEMMA InTail ==
  ASSUME NEW s \in Seq(Packets), s # <<>>,
         \A j, k \in DOMAIN s : s[j] = s[k] => j = k
  PROVE  /\ Head(s) \in Packets /\ InSeq(Head(s), s)
         /\ Tail(s) \in Seq(Packets)
         /\ \A o : InSeq(o, Tail(s)) <=> InSeq(o, s) /\ o # Head(s)
         /\ \A j, k \in DOMAIN Tail(s) : Tail(s)[j] = Tail(s)[k] => j = k
<1>1. /\ Head(s) = s[1] /\ s[1] \in Packets /\ 1 \in DOMAIN s
      /\ Len(s) \in Nat /\ DOMAIN s = 1 .. Len(s)
      /\ Tail(s) \in Seq(Packets)
      /\ DOMAIN Tail(s) = 1 .. Len(s) - 1
      /\ \A j \in 1 .. Len(s) - 1 : Tail(s)[j] = s[j + 1]
  OBVIOUS
<1>2. \A o : InSeq(o, Tail(s)) => InSeq(o, s) /\ o # Head(s)
  BY <1>1 DEF InSeq
<1>3. \A o : InSeq(o, s) /\ o # Head(s) => InSeq(o, Tail(s))
  <2> SUFFICES ASSUME NEW o, NEW j \in DOMAIN s, s[j] = o, o # Head(s)
               PROVE  InSeq(o, Tail(s))
    BY DEF InSeq
  <2>1. j - 1 \in 1 .. Len(s) - 1 /\ (j - 1) + 1 = j
    BY <1>1
  <2> QED  BY <1>1, <2>1 DEF InSeq
<1>4. \A j, k \in DOMAIN Tail(s) : Tail(s)[j] = Tail(s)[k] => j = k
  BY <1>1
<1>5. InSeq(Head(s), s)
  BY <1>1 DEF InSeq
<1> QED  BY <1>1, <1>2, <1>3, <1>4, <1>5

--------------------------------------------------------------------------------
(* What frees and counts do. *)

LEMMA PoolsAreSequences ==
  ASSUME TypeOK
  PROVE  \A q \in Pools : /\ pool[q] \in Seq(Packets)
                          /\ \A k \in DOMAIN pool[q] : pool[q][k] \in Packets
BY DEF TypeOK

(* mii_free takes packets out of the pools, but only freed ones.            *)
LEMMA FreeKeepsPools ==
  ASSUME TypeOK, OncePooled, NEW p \in Packets, FreePacket(p)
  PROVE  /\ freed' = [freed EXCEPT ![p] = TRUE]
         /\ freed' \in [Packets -> BOOLEAN]
         /\ pool' \in [Pools -> Seq(Packets)]
         /\ OncePooled'
         /\ \A q \in Pools, o \in Packets :
              InSeq(o, pool[q]) /\ ~freed'[o] => InSeq(o, pool'[q])
<1>1. /\ freed' = [freed EXCEPT ![p] = TRUE]
      /\ freed' \in [Packets -> BOOLEAN]
      /\ pool' = [q \in Pools |-> Unfreed(pool[q], freed')]
  BY DEF FreePacket, TypeOK
<1>2. \A q \in Pools :
        /\ pool'[q] \in Seq(Packets)
        /\ \A o : InSeq(o, pool[q]) /\ ~freed'[o] => InSeq(o, pool'[q])
        /\ \E m \in 0 .. Len(pool[q]) :
             \A j \in DOMAIN pool'[q] :
               j + m \in DOMAIN pool[q] /\ pool'[q][j] = pool[q][j + m]
  <2> TAKE q \in Pools
  <2>1. pool'[q] = Unfreed(pool[q], freed') /\ pool[q] \in Seq(Packets)
    BY <1>1, PoolsAreSequences
  <2>2. /\ Unfreed(pool[q], freed') \in Seq(Packets)
        /\ \A o : InSeq(o, pool[q]) /\ ~freed'[o] => InSeq(o, Unfreed(pool[q], freed'))
        /\ \E m \in 0 .. Len(pool[q]) :
             \A j \in DOMAIN Unfreed(pool[q], freed') :
               /\ j + m \in DOMAIN pool[q]
               /\ Unfreed(pool[q], freed')[j] = pool[q][j + m]
    BY <1>1, <2>1, UnfreedKeeps
  <2> QED  BY <2>1, <2>2
<1>3. pool' \in [Pools -> Seq(Packets)]
  BY <1>1, <1>2
<1>4. OncePooled'
  <2> SUFFICES ASSUME NEW q \in Pools, NEW r \in Pools,
                      NEW j \in DOMAIN pool'[q], NEW k \in DOMAIN pool'[r],
                      pool'[q][j] = pool'[r][k]
               PROVE  q = r /\ j = k
    BY DEF OncePooled
  <2>1. PICK m \in 0 .. Len(pool[q]) :
          \A i \in DOMAIN pool'[q] :
            i + m \in DOMAIN pool[q] /\ pool'[q][i] = pool[q][i + m]
    BY <1>2
  <2>2. PICK n \in 0 .. Len(pool[r]) :
          \A i \in DOMAIN pool'[r] :
            i + n \in DOMAIN pool[r] /\ pool'[r][i] = pool[r][i + n]
    BY <1>2
  <2>3. q = r /\ j + m = k + n
    BY <2>1, <2>2 DEF OncePooled
  <2>4. \A i \in DOMAIN pool'[q] : pool'[q][i] = pool'[q][j] => i = j
    <3> TAKE i \in DOMAIN pool'[q]
    <3>1. pool'[q][i] = pool'[q][j] => i + m = j + m
      BY <2>1 DEF OncePooled
    <3>2. pool'[q] \in Seq(Packets) /\ pool[q] \in Seq(Packets)
      BY <1>2, PoolsAreSequences
    <3>3. DOMAIN pool'[q] = 1 .. Len(pool'[q])
      BY <3>2
    <3>4. i \in Int /\ j \in Int /\ m \in Int
      BY <3>2, <3>3
    <3> QED  BY <3>1, <3>4
  <2> QED  BY <2>3, <2>4
<1> QED  BY <1>1, <1>2, <1>3, <1>4

LEMMA TodoIsFinite ==
  ASSUME TypeOK, NEW p \in Packets
  PROVE  IsFiniteSet(todo[p]) /\ todo[p] \subseteq Clients \cup {"port"}
<1>1. IsFiniteSet(Clients \cup {"port"})
  BY FlowAssumption, FS_AddElement
<1>2. todo[p] \subseteq Clients \cup {"port"}
  BY DEF TypeOK
<1> QED  BY <1>1, <1>2, FS_Subset

(* A holder that has used a packet counts it down or, as the last one, frees *)
(* it; the packets that others are still to use stay.                       *)
LEMMA UseOnce ==
  ASSUME IInv, NEW p \in Packets, NEW h \in todo[p],
         GetAndDec(p), todo' = [todo EXCEPT ![p] = @ \ {h}], UNCHANGED seen
  PROVE  /\ pool' \in [Pools -> Seq(Packets)]
         /\ tcount' \in [Packets -> Nat]
         /\ freed' \in [Packets -> BOOLEAN]
         /\ todo' \in [Packets -> SUBSET (Clients \cup {"port"})]
         /\ OncePooled'
         /\ TodoIsCounted'
         /\ PooledUntilFreed'
         /\ \A q \in Pools, o \in Packets :
              InSeq(o, pool[q]) /\ todo'[o] # {} => InSeq(o, pool'[q])
<1>1. TypeOK /\ OncePooled /\ TodoIsCounted /\ PooledUntilFreed
  BY DEF IInv
<1>2. /\ p \in seen /\ ~freed[p]
      /\ IsFiniteSet(todo[p])
      /\ Cardinality(todo[p]) \in Nat /\ tcount[p] = Cardinality(todo[p]) - 1
  BY <1>1, TodoIsFinite, FS_CardinalityType DEF TodoIsCounted
<1>3. /\ todo'[p] = todo[p] \ {h}
      /\ Cardinality(todo'[p]) = Cardinality(todo[p]) - 1
      /\ todo'[p] = {} <=> Cardinality(todo[p]) = 1
  <2>1. todo'[p] = todo[p] \ {h}
    BY <1>1 DEF TypeOK
  <2>2. /\ IsFiniteSet(todo[p] \ {h})
        /\ Cardinality(todo[p] \ {h}) = Cardinality(todo[p]) - 1
    BY <1>2, FS_RemoveElement
  <2>3. todo[p] \ {h} = {} <=> Cardinality(todo[p] \ {h}) = 0
    BY <2>2, FS_EmptySet
  <2> QED  BY <1>2, <2>1, <2>2, <2>3
<1>4. /\ todo' \in [Packets -> SUBSET (Clients \cup {"port"})]
      /\ \A o \in Packets : o # p => todo'[o] = todo[o]
  BY <1>1 DEF TypeOK
<1>5. CASE tcount[p] = 0
  <2>1. FreePacket(p) /\ UNCHANGED tcount
    BY <1>5 DEF GetAndDec
  <2>2. /\ freed' = [freed EXCEPT ![p] = TRUE]
        /\ freed' \in [Packets -> BOOLEAN]
        /\ pool' \in [Pools -> Seq(Packets)]
        /\ OncePooled'
        /\ \A q \in Pools, o \in Packets :
             InSeq(o, pool[q]) /\ ~freed'[o] => InSeq(o, pool'[q])
    BY <1>1, <2>1, FreeKeepsPools
  <2>3. todo'[p] = {}
    BY <1>2, <1>3, <1>5
  <2>4. TodoIsCounted'
    <3> SUFFICES ASSUME NEW o \in Packets
                 PROVE  /\ todo'[o] # {} => /\ o \in seen
                                            /\ tcount'[o] = Cardinality(todo'[o]) - 1
                        /\ freed'[o] <=> o \in seen /\ todo'[o] = {}
      BY DEF TodoIsCounted
    <3>1. CASE o = p
      BY <1>1, <1>2, <2>2, <2>3, <3>1 DEF TypeOK
    <3>2. CASE o # p
      <4>1. freed'[o] = freed[o] /\ tcount'[o] = tcount[o] /\ todo'[o] = todo[o]
        BY <1>1, <1>4, <2>1, <2>2, <3>2 DEF TypeOK
      <4> QED  BY <1>1, <4>1 DEF TodoIsCounted
    <3> QED  BY <3>1, <3>2
  <2>5. PooledUntilFreed'
    <3> SUFFICES ASSUME NEW o \in seen, ~freed'[o]
                 PROVE  \E q \in Pools : InSeq(o, pool'[q])
      BY DEF PooledUntilFreed, InPool
    <3>1. o \in Packets /\ ~freed[o]
      BY <1>1, <2>2 DEF TypeOK
    <3>2. \E q \in Pools : InSeq(o, pool[q])
      BY <1>1, <3>1 DEF PooledUntilFreed, InPool
    <3> QED  BY <2>2, <3>1, <3>2
  <2>6. \A q \in Pools, o \in Packets :
          InSeq(o, pool[q]) /\ todo'[o] # {} => InSeq(o, pool'[q])
    BY <2>2, <2>4 DEF TodoIsCounted
  <2> QED  BY <1>1, <1>4, <2>1, <2>2, <2>4, <2>5, <2>6 DEF TypeOK
<1>6. CASE tcount[p] # 0
  <2>1. tcount' = [tcount EXCEPT ![p] = @ - 1] /\ UNCHANGED <<freed, pool>>
    BY <1>6 DEF GetAndDec
  <2>2. tcount' \in [Packets -> Nat] /\ tcount'[p] = tcount[p] - 1
    BY <1>1, <1>6, <2>1 DEF TypeOK
  <2>3. todo'[p] # {} /\ tcount'[p] = Cardinality(todo'[p]) - 1
    BY <1>2, <1>3, <1>6, <2>2
  <2>4. TodoIsCounted'
    <3> SUFFICES ASSUME NEW o \in Packets
                 PROVE  /\ todo'[o] # {} => /\ o \in seen
                                            /\ tcount'[o] = Cardinality(todo'[o]) - 1
                        /\ freed[o] <=> o \in seen /\ todo'[o] = {}
      BY <2>1 DEF TodoIsCounted
    <3>1. CASE o = p
      BY <1>2, <2>3, <3>1
    <3>2. CASE o # p
      <4>1. tcount'[o] = tcount[o] /\ todo'[o] = todo[o]
        BY <1>1, <1>4, <2>1, <3>2 DEF TypeOK
      <4> QED  BY <1>1, <4>1 DEF TodoIsCounted
    <3> QED  BY <3>1, <3>2
  <2>5. PooledUntilFreed' /\ OncePooled'
    BY <1>1, <2>1 DEF PooledUntilFreed, InPool, OncePooled
  <2> QED  BY <1>1, <1>4, <2>1, <2>2, <2>4, <2>5 DEF TypeOK
<1> QED  BY <1>5, <1>6

--------------------------------------------------------------------------------
(* Steps. *)

LEMMA InitIInv == Init => IInv
<1> SUFFICES ASSUME Init PROVE IInv
  OBVIOUS
<1>1. Stale \subseteq Results \cup {None}
  BY DEF Stale, Results
<1>2. TypeOK
  BY <1>1 DEF Init, TypeOK
<1>3. OncePooled /\ PooledUntilFreed /\ TodoIsFiltered /\ TodoIsCounted
  BY DEF Init, OncePooled, PooledUntilFreed, TodoIsFiltered, TodoIsCounted
<1>4. TodoIsHeld
  BY FlowAssumption DEF Init, TodoIsHeld, InSeq
<1>5. SendsForeign
  BY DEF Init, SendsForeign
<1> QED  BY <1>2, <1>3, <1>4, <1>5 DEF IInv

(* The two transmit threads look at different pools. *)
LEMMA SendersDiffer ==
  ASSUME IInv, NEW i \in Ports, NEW j \in Ports, tx[i] # None, tx[i] = tx[j]
  PROVE  i = j
<1>1. PICK prio \in Priorities : InSeq(tx[i], pool[<<1 - i, prio>>])
  BY DEF IInv, SendsForeign
<1>2. PICK priority \in Priorities : InSeq(tx[i], pool[<<1 - j, priority>>])
  BY DEF IInv, SendsForeign
<1>3. <<1 - i, prio>> \in Pools /\ <<1 - j, priority>> \in Pools
  BY DEF Pools, Ports
<1>4. <<1 - i, prio>> = <<1 - j, priority>>
  BY <1>1, <1>2, <1>3 DEF IInv, OncePooled, InSeq
<1>5. 1 - i = 1 - j
  BY <1>4
<1> QED  BY <1>5 DEF Ports

(* Who sends a packet is a holder of it. *)
LEMMA SenderHolds ==
  ASSUME IInv, NEW i \in Ports, tx[i] # None
  PROVE  tx[i] \in Packets /\ "port" \in todo[tx[i]]
BY DEF IInv, TypeOK, TodoIsHeld

LEMMA CommitStep ==
  ASSUME IInv, NEW q \in Pools, NEW p \in Packets, Commit(q, p)
  PROVE  IInv'
<1> USE DEF packetVars
<1>1. /\ pool' = [pool EXCEPT ![q] = Append(@, p)]
      /\ UNCHANGED <<stage, result, forwarding, tcount, freed, seen, spc, queue, tx, txpc, todo>>
      /\ pool \in [Pools -> Seq(Packets)]
      /\ \A r \in Pools : ~InSeq(p, pool[r])
  BY DEF Commit, InPool, IInv, TypeOK
<1>2. /\ \A r \in Pools : r # q => pool'[r] = pool[r]
      /\ pool'[q] = Append(pool[q], p)
      /\ pool[q] \in Seq(Packets)
  BY <1>1
<1>3. TypeOK'
  BY <1>1, <1>2, InAppended DEF IInv, TypeOK
<1>4. \A r \in Pools : \A o : InSeq(o, pool[r]) => InSeq(o, pool'[r])
  <2>1. \A o : InSeq(o, pool[q]) => InSeq(o, Append(pool[q], p))
    BY <1>2, InAppended
  <2> QED  BY <1>2, <2>1
<1>5. OncePooled'
  <2>1. \A r \in Pools : \A j \in DOMAIN pool'[r] :
          \/ j \in DOMAIN pool[r] /\ pool'[r][j] = pool[r][j]
          \/ r = q /\ j = Len(pool[q]) + 1 /\ pool'[r][j] = p
    BY <1>1, <1>2
  <2>2. \A r \in Pools : \A j \in DOMAIN pool[r] : pool[r][j] # p
    BY <1>1 DEF InSeq
  <2> QED  BY <2>1, <2>2 DEF OncePooled, IInv
<1>6. TodoIsHeld' /\ TodoIsCounted' /\ TodoIsFiltered'
  BY <1>1 DEF IInv, TodoIsHeld, TodoIsCounted, TodoIsFiltered
<1>7. PooledUntilFreed'
  BY <1>1, <1>4 DEF IInv, PooledUntilFreed, InPool
<1>8. SendsForeign'
  <2>1. \A i \in Ports, prio \in Priorities : <<1 - i, prio>> \in Pools
    BY DEF Pools, Ports
  <2> QED  BY <1>1, <1>4, <2>1 DEF IInv, SendsForeign
<1> QED  BY <1>3, <1>5, <1>6, <1>7, <1>8 DEF IInv

LEMMA FilterStep ==
  ASSUME IInv, NEW i \in Ports, Filter(i)
  PROVE  IInv'
<1>1. PICK p \in Packets :
        /\ stage[p] = 0
        /\ \E r \in Results \cup {None} : result' = [result EXCEPT ![p] = r]
        /\ stage' = [stage EXCEPT ![p] = 1]
        /\ UNCHANGED <<pool, forwarding, tcount, freed, seen, spc, queue, tx, txpc, todo>>
  BY DEF Filter
<1>2. TypeOK'
  BY <1>1 DEF IInv, TypeOK
<1>3. todo[p] = {}
  BY <1>1 DEF IInv, TodoIsFiltered
<1>4. TodoIsFiltered'
  BY <1>1, <1>3 DEF IInv, TypeOK, TodoIsFiltered
<1>5. OncePooled' /\ TodoIsHeld' /\ TodoIsCounted'
  BY <1>1 DEF IInv, OncePooled, TodoIsHeld, TodoIsCounted
<1>6. PooledUntilFreed' /\ SendsForeign'
  BY <1>1 DEF IInv, PooledUntilFreed, InPool, SendsForeign
<1> QED  BY <1>2, <1>4, <1>5, <1>6 DEF IInv

LEMMA SendToClientStep ==
  ASSUME IInv, NEW c \in Clients, SendToClient(c)
  PROVE  IInv'
<1> DEFINE p == Head(queue[c])
<1>1. /\ GetAndDec(p)
      /\ todo' = [todo EXCEPT ![p] = @ \ {c}]
      /\ queue' = [queue EXCEPT ![c] = Tail(@)]
      /\ UNCHANGED <<stage, result, forwarding, seen, spc, tx, txpc>>
      /\ queue[c] # <<>>
  BY DEF SendToClient
<1>2. /\ queue[c] \in Seq(Packets)
      /\ \A j, k \in DOMAIN queue[c] : queue[c][j] = queue[c][k] => j = k
  BY DEF IInv, TypeOK, TodoIsHeld
<1>3. /\ p \in Packets /\ InSeq(p, queue[c])
      /\ Tail(queue[c]) \in Seq(Packets)
      /\ \A o : InSeq(o, Tail(queue[c])) <=> InSeq(o, queue[c]) /\ o # p
      /\ \A j, k \in DOMAIN Tail(queue[c]) :
           Tail(queue[c])[j] = Tail(queue[c])[k] => j = k
  BY <1>1, <1>2, InTail
<1> HIDE DEF p
<1>4. c \in todo[p] /\ c # "port"
  BY <1>3, FlowAssumption DEF IInv, TodoIsHeld
<1>5. /\ pool' \in [Pools -> Seq(Packets)]
      /\ tcount' \in [Packets -> Nat]
      /\ freed' \in [Packets -> BOOLEAN]
      /\ todo' \in [Packets -> SUBSET (Clients \cup {"port"})]
      /\ OncePooled' /\ TodoIsCounted' /\ PooledUntilFreed'
      /\ \A q \in Pools, o \in Packets :
           InSeq(o, pool[q]) /\ todo'[o] # {} => InSeq(o, pool'[q])
  BY <1>1, <1>3, <1>4, UseOnce
<1>6. /\ queue' \in [Clients -> Seq(Packets)]
      /\ queue'[c] = Tail(queue[c])
      /\ \A d \in Clients : d # c => queue'[d] = queue[d]
  BY <1>1, <1>3 DEF IInv, TypeOK
<1>7. TypeOK'
  BY <1>1, <1>5, <1>6 DEF IInv, TypeOK
<1>8. /\ todo'[p] = todo[p] \ {c}
      /\ \A o \in Packets : o # p => todo'[o] = todo[o]
  BY <1>1, <1>3 DEF IInv, TypeOK
<1>9. TodoIsHeld'
  <2>1. \A o \in Packets, d \in Clients : d \in todo'[o] <=> InSeq(o, queue'[d])
    <3> TAKE o \in Packets, d \in Clients
    <3>1. d \in todo[o] <=> InSeq(o, queue[d])
      BY DEF IInv, TodoIsHeld
    <3>2. CASE d = c
      BY <1>3, <1>6, <1>8, <3>1, <3>2
    <3>3. CASE d # c
      BY <1>6, <1>8, <3>1, <3>3
    <3> QED  BY <3>2, <3>3
  <2>2. \A o \in Packets : "port" \in todo'[o] <=> "port" \in todo[o]
    BY <1>4, <1>8
  <2>3. \A d \in Clients : \A j, k \in DOMAIN queue'[d] :
          queue'[d][j] = queue'[d][k] => j = k
    <3> TAKE d \in Clients
    <3>1. CASE d = c
      BY <1>3, <1>6, <3>1
    <3>2. CASE d # c
      BY <1>6, <3>2 DEF IInv, TodoIsHeld
    <3> QED  BY <3>1, <3>2
  <2>4. \A o \in Packets :
          "port" \in todo'[o] <=> forwarding'[o] \/ \E i \in Ports : tx'[i] = o
    BY <1>1, <2>2 DEF IInv, TodoIsHeld
  <2> QED  BY <2>1, <2>3, <2>4 DEF TodoIsHeld
<1>10. TodoIsFiltered'
  BY <1>1, <1>8 DEF IInv, TodoIsFiltered
<1>11. SendsForeign'
  <2>1. \A i \in Ports : tx[i] # None =>
          \E prio \in Priorities : InSeq(tx[i], pool'[<<1 - i, prio>>])
    <3> SUFFICES ASSUME NEW i \in Ports, tx[i] # None
                 PROVE  \E prio \in Priorities : InSeq(tx[i], pool'[<<1 - i, prio>>])
      OBVIOUS
    <3>1. PICK prio \in Priorities : InSeq(tx[i], pool[<<1 - i, prio>>])
      BY DEF IInv, SendsForeign
    <3>2. <<1 - i, prio>> \in Pools
      BY DEF Pools, Ports
    <3>3. tx[i] \in Packets /\ todo'[tx[i]] # {}
      BY <1>4, <1>8, SenderHolds
    <3> QED  BY <1>5, <3>1, <3>2, <3>3
  <2> QED  BY <1>1, <2>1 DEF IInv, SendsForeign
<1> QED  BY <1>5, <1>7, <1>9, <1>10, <1>11 DEF IInv

LEMMA TxStartStep ==
  ASSUME IInv, NEW i \in Ports, TxStart(i)
  PROVE  IInv'
<1>1. /\ txpc[i] = "idle"
      /\ txpc' = [txpc EXCEPT ![i] = "clear"]
      /\ UNCHANGED <<pool, stage, result, forwarding, tcount, freed, seen, spc, queue, todo>>
  BY DEF TxStart, packetVars
<1>2. PICK prio \in Priorities :
        \E p \in ToForward(i, prio) : tx' = [tx EXCEPT ![i] = p]
  BY DEF TxStart, Priorities
<1> PICK p \in ToForward(i, prio) : tx' = [tx EXCEPT ![i] = p]
  BY <1>2
<1>3. <<1 - i, prio>> \in Pools
  BY DEF Pools, Ports
<1>4. p = Head(pool[<<1 - i, prio>>]) /\ pool[<<1 - i, prio>>] # <<>> /\ forwarding[p]
  BY DEF ToForward
<1>5. p \in Packets /\ InSeq(p, pool[<<1 - i, prio>>])
  <2>1. pool[<<1 - i, prio>>] \in Seq(Packets)
    BY <1>3 DEF IInv, TypeOK
  <2>2. /\ p = pool[<<1 - i, prio>>][1] /\ p \in Packets
        /\ 1 \in DOMAIN pool[<<1 - i, prio>>]
    BY <1>4, <2>1
  <2> QED  BY <2>2 DEF InSeq
<1>6. /\ tx' \in [Ports -> Packets \cup {None}] /\ tx'[i] = p /\ p # None
      /\ txpc' \in [Ports -> {"idle", "clear", "count"}] /\ txpc'[i] = "clear"
      /\ \A j \in Ports : j # i => tx'[j] = tx[j] /\ txpc'[j] = txpc[j]
  BY <1>1, <1>5, FlowAssumption DEF IInv, TypeOK
<1>7. TypeOK'
  BY <1>1, <1>6 DEF IInv, TypeOK
<1>8. TodoIsHeld'
  <2>1. tx[i] = None
    BY <1>1 DEF IInv, SendsForeign
  <2>2. \A o \in Packets :
          "port" \in todo[o] <=> forwarding[o] \/ \E j \in Ports : tx'[j] = o
    BY <1>4, <1>6, <2>1, FlowAssumption DEF IInv, TodoIsHeld
  <2> QED  BY <1>1, <2>2 DEF IInv, TodoIsHeld
<1>9. SendsForeign'
  BY <1>1, <1>4, <1>5, <1>6 DEF IInv, SendsForeign
<1>10. OncePooled' /\ TodoIsCounted' /\ PooledUntilFreed' /\ TodoIsFiltered'
  BY <1>1 DEF IInv, OncePooled, TodoIsCounted, PooledUntilFreed, InPool, TodoIsFiltered
<1> QED  BY <1>7, <1>8, <1>9, <1>10 DEF IInv

LEMMA TxClearStep ==
  ASSUME IInv, NEW i \in Ports, TxClear(i)
  PROVE  IInv'
<1> DEFINE p == tx[i]
<1>1. /\ txpc[i] = "clear"
      /\ forwarding' = [forwarding EXCEPT ![p] = FALSE]
      /\ txpc' = [txpc EXCEPT ![i] = "count"]
      /\ UNCHANGED <<pool, stage, result, tcount, freed, seen, spc, queue, tx, todo>>
  BY DEF TxClear
<1>2. p # None /\ p \in Packets /\ "port" \in todo[p]
  <2>1. tx[i] # None
    BY <1>1 DEF IInv, SendsForeign
  <2> QED  BY <2>1, SenderHolds
<1> HIDE DEF p
<1>3. /\ forwarding' \in [Packets -> BOOLEAN] /\ ~forwarding'[p]
      /\ \A o \in Packets : o # p => forwarding'[o] = forwarding[o]
      /\ txpc' \in [Ports -> {"idle", "clear", "count"}] /\ txpc'[i] = "count"
      /\ \A j \in Ports : j # i => txpc'[j] = txpc[j]
  BY <1>1, <1>2 DEF IInv, TypeOK
<1>4. TypeOK'
  BY <1>1, <1>3 DEF IInv, TypeOK
<1>5. TodoIsHeld'
  <2>1. \A o \in Packets :
          "port" \in todo[o] <=> forwarding'[o] \/ \E j \in Ports : tx[j] = o
    <3> TAKE o \in Packets
    <3>1. CASE o = p
      BY <1>2, <3>1 DEF p
    <3>2. CASE o # p
      BY <1>3, <3>2 DEF IInv, TodoIsHeld
    <3> QED  BY <3>1, <3>2
  <2> QED  BY <1>1, <2>1 DEF IInv, TodoIsHeld
<1>6. SendsForeign'
  <2>1. \A j \in Ports : j # i /\ tx[j] # None =>
          tx[j] \in Packets /\ forwarding'[tx[j]] = forwarding[tx[j]]
    <3> SUFFICES ASSUME NEW j \in Ports, j # i, tx[j] # None
                 PROVE  tx[j] \in Packets /\ forwarding'[tx[j]] = forwarding[tx[j]]
      OBVIOUS
    <3>1. tx[j] # p /\ tx[j] \in Packets
      BY <1>2, SendersDiffer, SenderHolds DEF p
    <3> QED  BY <1>3, <3>1
  <2>2. \A j \in Ports :
          /\ txpc'[j] = "idle" <=> tx[j] = None
          /\ txpc'[j] = "clear" => forwarding'[tx[j]]
          /\ txpc'[j] = "count" => ~forwarding'[tx[j]]
    <3> TAKE j \in Ports
    <3>1. CASE j = i
      BY <1>2, <1>3, <3>1 DEF p
    <3>2. CASE j # i
      <4>1. /\ txpc'[j] = txpc[j]
            /\ txpc[j] = "idle" <=> tx[j] = None
            /\ txpc[j] = "clear" => forwarding[tx[j]]
            /\ txpc[j] = "count" => ~forwarding[tx[j]]
        BY <1>3, <3>2 DEF IInv, SendsForeign
      <4> QED  BY <2>1, <3>2, <4>1
    <3> QED  BY <3>1, <3>2
  <2> QED  BY <1>1, <2>2 DEF IInv, SendsForeign
<1>7. OncePooled' /\ TodoIsCounted' /\ PooledUntilFreed' /\ TodoIsFiltered'
  BY <1>1 DEF IInv, OncePooled, TodoIsCounted, PooledUntilFreed, InPool, TodoIsFiltered
<1> QED  BY <1>4, <1>5, <1>6, <1>7 DEF IInv

LEMMA TxCountStep ==
  ASSUME IInv, NEW i \in Ports, TxCount(i)
  PROVE  IInv'
<1> DEFINE p == tx[i]
<1>1. /\ txpc[i] = "count"
      /\ GetAndDec(p)
      /\ todo' = [todo EXCEPT ![p] = @ \ {"port"}]
      /\ tx' = [tx EXCEPT ![i] = None]
      /\ txpc' = [txpc EXCEPT ![i] = "idle"]
      /\ UNCHANGED <<stage, result, forwarding, seen, spc, queue>>
  BY DEF TxCount
<1>2. p # None /\ p \in Packets /\ "port" \in todo[p] /\ ~forwarding[p]
  <2>1. tx[i] # None /\ ~forwarding[tx[i]]
    BY <1>1 DEF IInv, SendsForeign
  <2> QED  BY <2>1, SenderHolds
<1>3. \A j \in Ports : j # i => tx[j] # p
  BY <1>2, SendersDiffer
<1> HIDE DEF p
<1>4. /\ pool' \in [Pools -> Seq(Packets)]
      /\ tcount' \in [Packets -> Nat]
      /\ freed' \in [Packets -> BOOLEAN]
      /\ todo' \in [Packets -> SUBSET (Clients \cup {"port"})]
      /\ OncePooled' /\ TodoIsCounted' /\ PooledUntilFreed'
      /\ \A q \in Pools, o \in Packets :
           InSeq(o, pool[q]) /\ todo'[o] # {} => InSeq(o, pool'[q])
  BY <1>1, <1>2, UseOnce
<1>5. /\ tx' \in [Ports -> Packets \cup {None}] /\ tx'[i] = None
      /\ txpc' \in [Ports -> {"idle", "clear", "count"}] /\ txpc'[i] = "idle"
      /\ \A j \in Ports : j # i => tx'[j] = tx[j] /\ txpc'[j] = txpc[j]
  BY <1>1 DEF IInv, TypeOK
<1>6. TypeOK'
  BY <1>1, <1>4, <1>5 DEF IInv, TypeOK
<1>7. /\ todo'[p] = todo[p] \ {"port"}
      /\ \A o \in Packets : o # p => todo'[o] = todo[o]
  BY <1>1, <1>2 DEF IInv, TypeOK
<1>8. TodoIsHeld'
  <2>1. \A o \in Packets, c \in Clients : c \in todo'[o] <=> c \in todo[o]
    BY <1>7, FlowAssumption
  <2>2. \A o \in Packets :
          "port" \in todo'[o] <=> forwarding[o] \/ \E j \in Ports : tx'[j] = o
    <3> TAKE o \in Packets
    <3>1. "port" \in todo[o] <=> forwarding[o] \/ \E j \in Ports : tx[j] = o
      BY DEF IInv, TodoIsHeld
    <3>2. o # None
      BY FlowAssumption
    <3>3. CASE o = p
      BY <1>2, <1>3, <1>5, <1>7, <3>2, <3>3
    <3>4. CASE o # p
      BY <1>5, <1>7, <3>1, <3>2, <3>4 DEF p
    <3> QED  BY <3>3, <3>4
  <2> QED  BY <1>1, <2>1, <2>2 DEF IInv, TodoIsHeld
<1>9. TodoIsFiltered'
  BY <1>1, <1>7 DEF IInv, TodoIsFiltered
<1>10. SendsForeign'
  <2>1. \A j \in Ports : j # i /\ tx[j] # None =>
          \E prio \in Priorities : InSeq(tx[j], pool'[<<1 - j, prio>>])
    <3> SUFFICES ASSUME NEW j \in Ports, j # i, tx[j] # None
                 PROVE  \E prio \in Priorities : InSeq(tx[j], pool'[<<1 - j, prio>>])
      OBVIOUS
    <3>1. PICK prio \in Priorities : InSeq(tx[j], pool[<<1 - j, prio>>])
      BY DEF IInv, SendsForeign
    <3>2. <<1 - j, prio>> \in Pools
      BY DEF Pools, Ports
    <3>3. tx[j] \in Packets /\ todo'[tx[j]] # {}
      BY <1>3, <1>7, SenderHolds
    <3> QED  BY <1>4, <3>1, <3>2, <3>3
  <2> QED  BY <1>1, <1>5, <2>1 DEF IInv, SendsForeign
<1> QED  BY <1>4, <1>6, <1>8, <1>9, <1>10 DEF IInv

(* The server gives a packet that nobody holds to its holders, or frees it. *)
LEMMA ProcessFrameStep ==
  ASSUME IInv, NEW port \in Ports, NEW p \in Packets, p \notin seen, InPool(p),
         stage[p] = 1, ProcessFrame(port, p), spc' \in {"select", "lp"}
  PROVE  IInv'
<1> DEFINE takers == Takers(port, p)
           holders == Holders(port, p)
<1>1. /\ seen' = seen \cup {p}
      /\ queue' = [c \in Clients |-> IF c \in takers THEN Append(queue[c], p)
                                                    ELSE queue[c]]
      /\ UNCHANGED <<stage, result, tx, txpc>>
  BY DEF ProcessFrame
<1>2. /\ takers \subseteq Clients
      /\ holders = takers \cup (IF Forwards(port, p) THEN {"port"} ELSE {})
      /\ Forwards(port, p) \in BOOLEAN
      /\ holders # {} => result[p] # None
      /\ \A c \in takers : c \in result[p].match
  BY DEF Takers, Holders, Forwards
<1>3. /\ todo[p] = {} /\ ~freed[p] /\ ~forwarding[p]
      /\ \A c \in Clients : ~InSeq(p, queue[c])
      /\ \A i \in Ports : tx[i] # p
  BY DEF IInv, TodoIsCounted, TodoIsHeld
<1>4. /\ queue' \in [Clients -> Seq(Packets)]
      /\ \A c \in Clients, o \in Packets :
           InSeq(o, queue'[c]) <=> InSeq(o, queue[c]) \/ (c \in takers /\ o = p)
      /\ \A c \in Clients : \A j, k \in DOMAIN queue'[c] :
           queue'[c][j] = queue'[c][k] => j = k
  <2>1. \A c \in Clients : queue[c] \in Seq(Packets)
    BY DEF IInv, TypeOK
  <2>2. \A c \in Clients :
          /\ queue'[c] \in Seq(Packets)
          /\ \A o \in Packets :
               InSeq(o, queue'[c]) <=> InSeq(o, queue[c]) \/ (c \in takers /\ o = p)
          /\ \A j, k \in DOMAIN queue'[c] : queue'[c][j] = queue'[c][k] => j = k
    <3> TAKE c \in Clients
    <3>1. \A j, k \in DOMAIN queue[c] : queue[c][j] = queue[c][k] => j = k
      BY DEF IInv, TodoIsHeld
    <3>2. CASE c \notin takers
      <4>1. queue'[c] = queue[c]
        BY <1>1, <3>2
      <4> QED  BY <2>1, <3>1, <3>2, <4>1
    <3>3. CASE c \in takers
      <4>1. queue'[c] = Append(queue[c], p)
        BY <1>1, <3>3
      <4>2. /\ Append(queue[c], p) \in Seq(Packets)
            /\ \A o : InSeq(o, Append(queue[c], p)) <=> InSeq(o, queue[c]) \/ o = p
        BY <2>1, InAppended
      <4>3. \A j \in DOMAIN queue[c] : queue[c][j] # p
        BY <1>3 DEF InSeq
      <4>4. \A j, k \in DOMAIN Append(queue[c], p) :
              Append(queue[c], p)[j] = Append(queue[c], p)[k] => j = k
        BY <2>1, <3>1, <4>3
      <4> QED  BY <3>3, <4>1, <4>2, <4>4
    <3> QED  BY <3>2, <3>3
  <2> QED  BY <1>1, <2>2
<1>5. /\ pool' \in [Pools -> Seq(Packets)]
      /\ forwarding' \in [Packets -> BOOLEAN] /\ forwarding'[p] = Forwards(port, p)
      /\ tcount' \in [Packets -> Nat]
      /\ freed' \in [Packets -> BOOLEAN] /\ (freed'[p] <=> holders = {})
      /\ todo' \in [Packets -> SUBSET (Clients \cup {"port"})]
      /\ todo'[p] = holders
      /\ holders # {} => tcount'[p] = Cardinality(holders) - 1
      /\ \A o \in Packets : o # p => /\ forwarding'[o] = forwarding[o]
                                     /\ tcount'[o] = tcount[o]
                                     /\ freed'[o] = freed[o]
                                     /\ todo'[o] = todo[o]
      /\ OncePooled'
      /\ \A q \in Pools, o \in Packets :
           InSeq(o, pool[q]) /\ ~freed'[o] => InSeq(o, pool'[q])
  <2>1. TypeOK /\ OncePooled
    BY DEF IInv
  <2>2. CASE holders = {}
    <3>1. FreePacket(p) /\ UNCHANGED <<forwarding, tcount, todo>>
      BY <2>2 DEF ProcessFrame
    <3>2. /\ freed' = [freed EXCEPT ![p] = TRUE]
          /\ freed' \in [Packets -> BOOLEAN]
          /\ pool' \in [Pools -> Seq(Packets)]
          /\ OncePooled'
          /\ \A q \in Pools, o \in Packets :
               InSeq(o, pool[q]) /\ ~freed'[o] => InSeq(o, pool'[q])
      BY <2>1, <3>1, FreeKeepsPools
    <3>3. ~Forwards(port, p)
      BY <1>2, <2>2
    <3>4. freed'[p] /\ \A o \in Packets : o # p => freed'[o] = freed[o]
      BY <2>1, <3>2 DEF TypeOK
    <3> HIDE DEF holders
    <3> QED  BY <1>2, <1>3, <2>1, <2>2, <3>1, <3>2, <3>3, <3>4 DEF TypeOK
  <2>3. CASE holders # {}
    <3>1. /\ forwarding' = [forwarding EXCEPT ![p] = @ \/ Forwards(port, p)]
          /\ tcount' = [tcount EXCEPT ![p] = Cardinality(holders) - 1]
          /\ todo' = [todo EXCEPT ![p] = holders]
          /\ UNCHANGED <<pool, freed>>
      BY <2>3 DEF ProcessFrame, CountFor
    <3>2. Cardinality(holders) - 1 \in Nat
      <4>1. IsFiniteSet(Clients \cup {"port"})
        BY FlowAssumption, FS_AddElement
      <4>2. IsFiniteSet(holders)
        BY <1>2, <4>1, FS_Subset
      <4> HIDE DEF holders
      <4>3. Cardinality(holders) \in Nat /\ Cardinality(holders) # 0
        BY <2>3, <4>2, FS_CardinalityType, FS_EmptySet
      <4> QED  BY <4>3
    <3>3. holders \subseteq Clients \cup {"port"}
      BY <1>2
    <3> HIDE DEF holders
    <3>4. /\ forwarding' \in [Packets -> BOOLEAN] /\ forwarding'[p] = Forwards(port, p)
          /\ \A o \in Packets : o # p => forwarding'[o] = forwarding[o]
      BY <1>2, <1>3, <2>1, <3>1 DEF TypeOK
    <3>5. /\ tcount' \in [Packets -> Nat] /\ tcount'[p] = Cardinality(holders) - 1
          /\ \A o \in Packets : o # p => tcount'[o] = tcount[o]
      BY <2>1, <3>1, <3>2 DEF TypeOK
    <3>6. /\ todo' \in [Packets -> SUBSET (Clients \cup {"port"})] /\ todo'[p] = holders
          /\ \A o \in Packets : o # p => todo'[o] = todo[o]
      BY <2>1, <3>1, <3>3 DEF TypeOK
    <3>7. OncePooled'
      BY <2>1, <3>1 DEF OncePooled
    <3> QED  BY <1>3, <2>1, <2>3, <3>1, <3>4, <3>5, <3>6, <3>7 DEF TypeOK
  <2> QED  BY <2>2, <2>3
<1> HIDE DEF takers, holders
<1>6. TypeOK'
  BY <1>1, <1>4, <1>5 DEF IInv, TypeOK
<1>7. TodoIsHeld'
  <2>1. \A o \in Packets, c \in Clients : c \in todo'[o] <=> InSeq(o, queue'[c])
    <3> TAKE o \in Packets, c \in Clients
    <3>1. c # "port"
      BY FlowAssumption
    <3>2. CASE o = p
      BY <1>2, <1>3, <1>4, <1>5, <3>1, <3>2
    <3>3. CASE o # p
      BY <1>4, <1>5, <3>3 DEF IInv, TodoIsHeld
    <3> QED  BY <3>2, <3>3
  <2>2. \A o \in Packets :
          "port" \in todo'[o] <=> forwarding'[o] \/ \E i \in Ports : tx[i] = o
    <3> TAKE o \in Packets
    <3>1. CASE o = p
      BY <1>2, <1>3, <1>5, <3>1, FlowAssumption
    <3>2. CASE o # p
      BY <1>5, <3>2 DEF IInv, TodoIsHeld
    <3> QED  BY <3>1, <3>2
  <2> QED  BY <1>1, <1>4, <2>1, <2>2 DEF TodoIsHeld
<1>8. TodoIsCounted'
  <2> SUFFICES ASSUME NEW o \in Packets
               PROVE  /\ todo'[o] # {} => o \in seen' /\ tcount'[o] = Cardinality(todo'[o]) - 1
                      /\ freed'[o] <=> o \in seen' /\ todo'[o] = {}
    BY DEF TodoIsCounted
  <2>1. CASE o = p
    BY <1>1, <1>5, <2>1
  <2>2. CASE o # p
    <3>1. o \in seen' <=> o \in seen
      BY <1>1, <2>2
    <3> QED  BY <1>5, <2>2, <3>1 DEF IInv, TodoIsCounted
  <2> QED  BY <2>1, <2>2
<1>9. PooledUntilFreed'
  <2> SUFFICES ASSUME NEW o \in seen', ~freed'[o]
               PROVE  \E q \in Pools : InSeq(o, pool'[q])
    BY DEF PooledUntilFreed, InPool
  <2>1. o \in Packets
    BY <1>1 DEF IInv, TypeOK
  <2>2. InPool(o)
    BY <1>1, <1>5, <2>1 DEF IInv, PooledUntilFreed
  <2> QED  BY <1>5, <2>1, <2>2 DEF InPool
<1>10. TodoIsFiltered'
  <2> SUFFICES ASSUME NEW o \in Packets, todo'[o] # {}
               PROVE  /\ stage[o] = 1 /\ result[o] # None
                      /\ \A c \in Clients \cap todo'[o] : c \in result[o].match
    BY <1>1 DEF TodoIsFiltered
  <2>1. CASE o = p
    BY <1>2, <1>5, <2>1, FlowAssumption
  <2>2. CASE o # p
    BY <1>5, <2>2 DEF IInv, TodoIsFiltered
  <2> QED  BY <2>1, <2>2
<1>11. SendsForeign'
  <2>1. \A i \in Ports : tx[i] # None =>
          /\ forwarding'[tx[i]] = forwarding[tx[i]]
          /\ \E prio \in Priorities : InSeq(tx[i], pool'[<<1 - i, prio>>])
    <3> SUFFICES ASSUME NEW i \in Ports, tx[i] # None
                 PROVE  /\ forwarding'[tx[i]] = forwarding[tx[i]]
                        /\ \E prio \in Priorities : InSeq(tx[i], pool'[<<1 - i, prio>>])
      OBVIOUS
    <3>1. PICK prio \in Priorities : InSeq(tx[i], pool[<<1 - i, prio>>])
      BY DEF IInv, SendsForeign
    <3>2. <<1 - i, prio>> \in Pools
      BY DEF Pools, Ports
    <3>3. tx[i] \in Packets /\ tx[i] # p /\ todo[tx[i]] # {}
      BY <1>3, SenderHolds
    <3>4. ~freed'[tx[i]]
      BY <1>5, <3>3 DEF IInv, TodoIsCounted
    <3> QED  BY <1>5, <3>1, <3>2, <3>3, <3>4
  <2> QED  BY <1>1, <2>1 DEF IInv, SendsForeign
<1> QED  BY <1>5, <1>6, <1>7, <1>8, <1>9, <1>10, <1>11 DEF IInv

LEMMA PassStep ==
  ASSUME IInv, NEW prio \in Priorities, Pass(prio), spc' \in {"select", "lp"}
  PROVE  IInv'
<1> DEFINE ready == {i \in Ports : Ready(<<i, prio>>) # {}}
<1>1. CASE ready = {}
  <2>1. UNCHANGED <<pool, stage, result, forwarding, tcount, freed, seen, queue, tx, txpc, todo>>
    BY <1>1 DEF Pass, packetVars
  <2>2. TypeOK' /\ OncePooled' /\ TodoIsHeld'
    BY <2>1 DEF IInv, TypeOK, OncePooled, TodoIsHeld
  <2>3. TodoIsCounted' /\ PooledUntilFreed' /\ TodoIsFiltered' /\ SendsForeign'
    BY <2>1 DEF IInv, TodoIsCounted, PooledUntilFreed, InPool, TodoIsFiltered, SendsForeign
  <2> QED  BY <2>2, <2>3 DEF IInv
<1>2. CASE ready # {}
  <2> DEFINE port == IF 0 \in ready THEN 0 ELSE 1
             k == CHOOSE k \in Ready(<<port, prio>>) : TRUE
             p == pool[<<port, prio>>][k]
  <2>1. port \in Ports /\ port \in ready
    BY <1>2 DEF Ports
  <2>2. ProcessFrame(port, p)
    BY <1>2 DEF Pass
  <2>3. <<port, prio>> \in Pools
    BY <2>1 DEF Pools
  <2>4. Ready(<<port, prio>>) # {}
    BY <2>1
  <2> HIDE DEF port, ready
  <2>5. k \in Ready(<<port, prio>>)
    BY <2>4
  <2> HIDE DEF k
  <2>6. k \in DOMAIN pool[<<port, prio>>] /\ p \notin seen /\ stage[p] = 1
    BY <2>5 DEF Ready
  <2>7. p \in Packets /\ InPool(p)
    BY <2>3, <2>6, PoolsAreSequences DEF IInv, InPool, InSeq
  <2> HIDE DEF p
  <2> QED  BY <2>1, <2>2, <2>6, <2>7, ProcessFrameStep
<1> QED  BY <1>1, <1>2

--------------------------------------------------------------------------------
(* Theorems. *)

(* IInv is an inductive invariant of the way of the packets: filter, server, *)
(* clients and transmit threads keep the same account of who holds what.    *)
THEOREM FlowInvariant == Spec => []IInv
<1>1. Init => IInv
  BY InitIInv
<1>2. IInv /\ [Next]_vars => IInv'
  <2> SUFFICES ASSUME IInv, [Next]_vars PROVE IInv'
    OBVIOUS
  <2>1. CASE \E q \in Pools, p \in Packets : Commit(q, p)
    BY <2>1, CommitStep
  <2>2. CASE \E i \in Ports : Filter(i)
    BY <2>2, FilterStep
  <2>3. CASE PassHp
    BY <2>3, PassStep DEF PassHp, Priorities
  <2>4. CASE PassLp
    BY <2>4, PassStep DEF PassLp, Priorities
  <2>5. CASE \E c \in Clients : SendToClient(c)
    BY <2>5, SendToClientStep
  <2>6. CASE \E i \in Ports : Transmit(i)
    BY <2>6, TxStartStep, TxClearStep, TxCountStep DEF Transmit
  <2>7. CASE UNCHANGED vars
    <3>1. UNCHANGED <<pool, stage, result, forwarding, tcount, freed, seen, spc,
                      queue, tx, txpc, todo>>
      BY <2>7 DEF vars, packetVars
    <3>2. TypeOK' /\ OncePooled' /\ TodoIsHeld' /\ TodoIsCounted'
      BY <3>1 DEF IInv, TypeOK, OncePooled, TodoIsHeld, TodoIsCounted
    <3>3. PooledUntilFreed' /\ TodoIsFiltered' /\ SendsForeign'
      BY <3>1 DEF IInv, PooledUntilFreed, InPool, TodoIsFiltered, SendsForeign
    <3> QED  BY <3>2, <3>3 DEF IInv
  <2> QED  BY <2>1, <2>2, <2>3, <2>4, <2>5, <2>6, <2>7 DEF Next, Server
<1> QED  BY <1>1, <1>2, PTL DEF Spec

(* The queues and the transmit threads hold what was given out.             *)
LEMMA HeldByTodo ==
  ASSUME IInv, NEW p \in Packets
  PROVE  HeldBy(p) = todo[p]
<1>1. todo[p] \subseteq Clients \cup {"port"}
  BY DEF IInv, TypeOK
<1>2. /\ \A c \in Clients : c \in todo[p] <=> InSeq(p, queue[c])
      /\ "port" \in todo[p] <=> forwarding[p] \/ \E i \in Ports : tx[i] = p
  BY DEF IInv, TodoIsHeld
<1> QED  BY <1>1, <1>2, FlowAssumption DEF HeldBy

(* A packet in a queue, marked for forwarding or being sent is in its pool   *)
(* and was not freed.                                                       *)
THEOREM FlowNoUseAfterFree == Spec => []NoUseAfterFree
<1>1. IInv => NoUseAfterFree
  <2> SUFFICES ASSUME IInv, NEW p \in Packets, HeldBy(p) # {}
               PROVE  ~freed[p] /\ InPool(p)
    BY DEF NoUseAfterFree
  <2>1. todo[p] # {}
    BY HeldByTodo
  <2> QED  BY <2>1 DEF IInv, TodoIsCounted, PooledUntilFreed
<1> QED  BY <1>1, FlowInvariant, PTL

(* The holders of a packet are those it was given to and that have not used  *)
(* it, each has it once, and it is on one wire at most.                     *)
THEOREM FlowHeldOnce == Spec => []HeldOnce
<1>1. IInv => HeldOnce
  <2> SUFFICES ASSUME IInv, NEW p \in Packets
               PROVE  /\ HeldBy(p) = todo[p]
                      /\ \A c \in Clients : \A j, k \in DOMAIN queue[c] :
                           queue[c][j] = p /\ queue[c][k] = p => j = k
                      /\ \A i, j \in Ports : tx[i] = p /\ tx[j] = p => i = j
    BY DEF HeldOnce
  <2>1. p # None
    BY FlowAssumption
  <2>2. \A i, j \in Ports : tx[i] = p /\ tx[j] = p => i = j
    BY <2>1, SendersDiffer
  <2>3. \A c \in Clients : \A j, k \in DOMAIN queue[c] :
          queue[c][j] = p /\ queue[c][k] = p => j = k
    BY DEF IInv, TodoIsHeld
  <2> QED  BY <2>2, <2>3, HeldByTodo
<1> QED  BY <1>1, FlowInvariant, PTL

(* The transmit count of a packet is the number of its holders less one.     *)
THEOREM FlowCountIsHolders == Spec => []CountIsHolders
<1>1. IInv => CountIsHolders
  BY HeldByTodo DEF CountIsHolders, IInv, TodoIsCounted
<1> QED  BY <1>1, FlowInvariant, PTL

(* A packet that the server passed and nobody holds was freed.               *)
THEOREM FlowNoLeak == Spec => []NoLeak
<1>1. IInv => NoLeak
  <2> SUFFICES ASSUME IInv, NEW p \in seen, HeldBy(p) = {}
               PROVE  freed[p]
    BY DEF NoLeak
  <2>1. p \in Packets
    BY DEF IInv, TypeOK
  <2> QED  BY <2>1, HeldByTodo DEF IInv, TodoIsCounted
<1> QED  BY <1>1, FlowInvariant, PTL

(* The server reads the filter's result of this packet, and not what an      *)
(* earlier one left in the same memory.                                      *)
THEOREM FlowFilteredFirst == Spec => []FilteredFirst
<1>1. IInv => FilteredFirst
  <2> SUFFICES ASSUME IInv, NEW p \in Packets, HeldBy(p) # {}
               PROVE  /\ stage[p] = 1 /\ result[p] # None
                      /\ \A c \in Clients : InSeq(p, queue[c]) => c \in result[p].match
    BY DEF FilteredFirst
  <2>1. todo[p] # {}
    BY HeldByTodo
  <2>2. \A c \in Clients : c \in todo[p] <=> InSeq(p, queue[c])
    BY DEF IInv, TodoIsHeld
  <2> QED  BY <2>1, <2>2 DEF IInv, TodoIsFiltered
<1> QED  BY <1>1, FlowInvariant, PTL
================================================================================
