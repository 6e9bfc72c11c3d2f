--------------------------- MODULE MiiMempool_proofs ---------------------------
(***************************************************************************)
(* Facts about chains of packets on the circle of a pool, for every memory *)
(* and every set of headers.  MiiRxPool_proofs and MiiTxPool_proofs build  *)
(* the inductive invariants of the two kinds of pool on them.              *)
(***************************************************************************)
EXTENDS MiiMempool, FiniteSetTheorems, SequenceTheorems, TLAPS

(* A chain whose first packet is unlinked is a chain from the next one:     *)
(* this is what mii_free does to the pool, and mii_update_my_rdptr to what  *)
(* the reader has still to see.                                             *)
LEMMA ChainPop ==
  ASSUME NEW m \in [Addr -> Int], NEW S \in SUBSET HdrAddr,
         NEW r \in HdrAddr, NEW w \in HdrAddr,
         Chain(m, S, r, w), r # w
  PROVE  /\ NextIn(m, r) \in S \cup {w}
         /\ NextIn(m, r) # r
         /\ Chain(m, S \ {r}, NextIn(m, r), w)
<1> DEFINE n == NextIn(m, r)
           T == S \ {r}
<1>1. r \in S /\ HdrAddr \subseteq Int
  BY DEF Chain, HdrAddr
<1>2. n \in S \cup {w} /\ n # r /\ \A g \in S \cup {w} : ~Between(r, g, n)
  BY <1>1 DEF Chain
<1>3. n \in HdrAddr
  BY <1>2
<1>4. IF n = w THEN T = {} ELSE n \in T
  <2>1. CASE n = w
    <3>1. \A g \in T : FALSE
      BY <1>2, <2>1 DEF Chain
    <3> QED BY <3>1, <2>1
  <2>2. CASE n # w
    BY <1>2, <2>2
  <2> QED BY <2>1, <2>2
<1>5. ASSUME NEW h \in T
      PROVE  /\ h # w
             /\ h = n \/ Between(n, h, w)
             /\ NextIn(m, h) \in T \cup {w}
             /\ NextIn(m, h) # h
             /\ \A g \in T \cup {w} : ~Between(h, g, NextIn(m, h))
  <2>1. /\ h # w /\ h # r
        /\ Between(r, h, w)
        /\ NextIn(m, h) \in S \cup {w}
        /\ NextIn(m, h) # h
        /\ \A g \in S \cup {w} : ~Between(h, g, NextIn(m, h))
    BY DEF Chain
  <2>2. h \in Int /\ r \in Int /\ w \in Int /\ n \in Int
    BY <1>1, <1>3
  <2>3. ~Between(r, h, n)
    BY <1>2
  <2>4. h = n \/ Between(n, h, w)
    <3>1. n = w \/ Between(r, n, w)
      BY <1>2 DEF Chain
    <3> QED BY <2>1, <2>2, <2>3, <3>1, <1>2 DEF Between
  <2>5. NextIn(m, h) # r
    <3>1. ~Between(h, w, NextIn(m, h))
      BY <2>1
    <3> QED BY <3>1, <2>1, <2>2 DEF Between
  <2> QED BY <2>1, <2>4, <2>5
<1> QED BY <1>2, <1>4, <1>5 DEF Chain

(* A packet linked at w and published makes the chain one longer, when the  *)
(* new end e lies in the free stretch from w to r.                          *)
LEMMA ChainPush ==
  ASSUME NEW m \in [Addr -> Int], NEW S \in SUBSET HdrAddr,
         NEW r \in HdrAddr, NEW w \in HdrAddr, NEW e \in HdrAddr,
         Chain(m, S, r, w), Between(w, e, r), NextIn(m, w) = e
  PROVE  Chain(m, S \cup {w}, r, e)
<1>1. HdrAddr \subseteq Int
  BY DEF HdrAddr
<1>2. r \in Int /\ w \in Int /\ e \in Int
  BY <1>1
<1>3. e # r /\ e # w /\ (r = w \/ Between(r, w, e))
  BY <1>2 DEF Between
<1>4. r \in S \cup {w}
  BY DEF Chain
<1>5. ASSUME NEW h \in S
      PROVE  /\ h # e
             /\ h = r \/ Between(r, h, e)
             /\ NextIn(m, h) \in S \cup {w} \cup {e}
             /\ NextIn(m, h) # h
             /\ \A g \in S \cup {w} \cup {e} : ~Between(h, g, NextIn(m, h))
  <2>1. /\ h # w
        /\ h = r \/ Between(r, h, w)
        /\ NextIn(m, h) \in S \cup {w}
        /\ NextIn(m, h) # h
        /\ \A g \in S \cup {w} : ~Between(h, g, NextIn(m, h))
    BY DEF Chain
  <2>2. r # w
    BY DEF Chain
  <2>3. h \in Int /\ NextIn(m, h) \in Int
    BY <1>1, <2>1
  <2>4. h # e /\ (h = r \/ Between(r, h, e))
    BY <1>2, <2>1, <2>2, <2>3 DEF Between
  <2>5. ~Between(h, w, NextIn(m, h))
    BY <2>1
  <2>6. ~Between(h, r, NextIn(m, h))
    BY <2>1, <2>2 DEF Chain
  <2>7. ~Between(h, e, NextIn(m, h))
    BY <1>2, <2>1, <2>2, <2>3, <2>4, <2>5, <2>6 DEF Between
  <2> QED BY <2>1, <2>4, <2>7
<1>6. /\ w # e
      /\ w = r \/ Between(r, w, e)
      /\ NextIn(m, w) \in S \cup {w} \cup {e}
      /\ NextIn(m, w) # w
      /\ \A g \in S \cup {w} \cup {e} : ~Between(w, g, NextIn(m, w))
  <2>1. ASSUME NEW g \in S
        PROVE  ~Between(w, g, e)
    <3>1. g \in Int /\ r # w /\ (g = r \/ Between(r, g, w))
      BY <1>1 DEF Chain
    <3> QED BY <3>1, <1>2 DEF Between
  <2>2. ~Between(w, w, e) /\ ~Between(w, e, e)
    BY <1>2, <1>3 DEF Between
  <2> QED BY <1>3, <2>1, <2>2
<1> QED BY <1>3, <1>4, <1>5, <1>6 DEF Chain

(* Writing outside a chain, or marking a packet of it, leaves the chain.    *)
LEMMA ChainFrame ==
  ASSUME NEW m, NEW n, NEW S, NEW r, NEW w,
         Chain(m, S, r, w),
         \A h \in S : NextIn(n, h) = NextIn(m, h)
  PROVE  Chain(n, S, r, w)
BY DEF Chain

(* No packet of a chain lies in the free stretch from w to r.               *)
LEMMA FreeNotInChain ==
  ASSUME NEW m, NEW S \in SUBSET HdrAddr,
         NEW r \in HdrAddr, NEW w \in HdrAddr, NEW x \in Addr,
         Chain(m, S, r, w),
         x = w \/ Between(w, x, r)
  PROVE  x \notin S
<1>1. HdrAddr \subseteq Int /\ Addr \subseteq Int
  BY DEF HdrAddr, Addr
<1> QED BY <1>1 DEF Chain, Between

(* When the oldest packet goes, the free stretch from w grows: it keeps     *)
(* every word it had, and gains the words of that packet.                   *)
LEMMA FreeGrows ==
  ASSUME NEW m \in [Addr -> Int], NEW S \in SUBSET HdrAddr,
         NEW r \in HdrAddr, NEW w \in HdrAddr, NEW x \in Addr,
         Chain(m, S, r, w), r # w,
         x = r \/ Between(w, x, r)
  PROVE  Between(w, x, NextIn(m, r))
<1>1. HdrAddr \subseteq Int /\ Addr \subseteq Int
  BY DEF HdrAddr, Addr
<1>2. /\ NextIn(m, r) \in S \cup {w} /\ NextIn(m, r) # r
      /\ NextIn(m, r) = w \/ Between(r, NextIn(m, r), w)
  BY DEF Chain
<1>3. x \in Int /\ r \in Int /\ w \in Int /\ NextIn(m, r) \in Int
  BY <1>1, <1>2
<1>4. ~Between(r, w, NextIn(m, r))
  BY DEF Chain
<1> QED BY <1>2, <1>3, <1>4 DEF Between

-----------------------------------------------------------------------------
(* The packets of a pool in the order of their places. *)

LEMMA HeadersFinite ==
  ASSUME NEW S \in SUBSET HdrAddr
  PROVE  IsFiniteSet(S) /\ Cardinality(S) \in Nat
<1>1. Start \in Int /\ End - MinUsage \in Int
  BY PoolAssumption
<1>2. IsFiniteSet(HdrAddr)
  BY <1>1, FS_Interval DEF HdrAddr
<1>3. IsFiniteSet(S)
  BY <1>2, FS_Subset
<1> QED BY <1>3, FS_CardinalityType

\* Headers at different places are at different distances from the oldest.
LEMMA AgeInjective ==
  ASSUME NEW r \in HdrAddr, NEW g \in HdrAddr, NEW h \in HdrAddr
  PROVE  /\ Age(r, h) \in Nat
         /\ Age(r, r) = 0
         /\ Age(r, g) = Age(r, h) => g = h
BY PoolAssumption DEF Age, HdrAddr

LEMMA PlaceInRange ==
  ASSUME NEW S \in SUBSET HdrAddr, NEW r \in HdrAddr, NEW h \in S
  PROVE  /\ Place(S, r, h) \in 1 .. Cardinality(S)
         /\ Place(S, r, h) = Cardinality(Older(S, r, h)) + 1
<1>1. IsFiniteSet(S) /\ Cardinality(S) \in Nat
  BY HeadersFinite
<1>2. h \notin Older(S, r, h)
  BY AgeInjective DEF Older
<1>3. Older(S, r, h) \in SUBSET (S \ {h})
  BY <1>2 DEF Older
<1>4. IsFiniteSet(S \ {h}) /\ Cardinality(S \ {h}) = Cardinality(S) - 1
  BY <1>1, FS_RemoveElement
<1>5. /\ Cardinality(Older(S, r, h)) <= Cardinality(S) - 1
      /\ IsFiniteSet(Older(S, r, h))
  BY <1>3, <1>4, FS_Subset
<1>6. Cardinality(Older(S, r, h)) \in Nat
  BY <1>5, FS_CardinalityType
<1> QED BY <1>1, <1>5, <1>6 DEF Place

LEMMA PlaceIncreases ==
  ASSUME NEW S \in SUBSET HdrAddr, NEW r \in HdrAddr, NEW g \in S, NEW h \in S,
         Age(r, g) < Age(r, h)
  PROVE  Place(S, r, g) < Place(S, r, h)
<1> DEFINE G == Older(S, r, g)
           H == Older(S, r, h)
<1>1. G \subseteq S /\ H \in SUBSET HdrAddr /\ G \in SUBSET HdrAddr
  BY DEF Older
<1>2. IsFiniteSet(G) /\ IsFiniteSet(H) /\ Cardinality(G) \in Nat /\ Cardinality(H) \in Nat
  BY <1>1, HeadersFinite
<1>3. g \notin G
  BY AgeInjective DEF Older
<1>4. G \cup {g} \in SUBSET H
  <2>1. ASSUME NEW x \in G PROVE x \in H
    <3>1. Age(r, x) \in Nat /\ Age(r, g) \in Nat /\ Age(r, h) \in Nat
      BY <1>1, AgeInjective
    <3> QED BY <3>1 DEF Older
  <2>2. g \in H
    BY DEF Older
  <2> QED BY <2>1, <2>2
<1>5. Cardinality(G \cup {g}) = Cardinality(G) + 1
  BY <1>2, <1>3, FS_AddElement
<1>6. Cardinality(G \cup {g}) <= Cardinality(H)
  BY <1>2, <1>4, FS_Subset
<1> QED BY <1>2, <1>5, <1>6 DEF Place

LEMMA PlaceInjective ==
  ASSUME NEW S \in SUBSET HdrAddr, NEW r \in HdrAddr, NEW g \in S, NEW h \in S
  PROVE  /\ Place(S, r, g) = Place(S, r, h) => g = h
         /\ Place(S, r, g) < Place(S, r, h) => Age(r, g) < Age(r, h)
<1>1. Age(r, g) \in Nat /\ Age(r, h) \in Nat /\ (Age(r, g) = Age(r, h) => g = h)
  BY AgeInjective
<1>2. Place(S, r, g) \in Int /\ Place(S, r, h) \in Int
  BY PlaceInRange
<1>3. CASE Age(r, g) < Age(r, h)
  BY <1>2, <1>3, PlaceIncreases
<1>4. CASE Age(r, h) < Age(r, g)
  BY <1>2, <1>4, PlaceIncreases
<1>5. CASE g = h
  BY <1>2, <1>5
<1> QED BY <1>1, <1>3, <1>4, <1>5

\* Every place is taken.
LEMMA PlaceOnto ==
  ASSUME NEW S \in SUBSET HdrAddr, NEW r \in HdrAddr, NEW k \in 1 .. Cardinality(S)
  PROVE  \E h \in S : Place(S, r, h) = k
<1> DEFINE T == 1 .. Cardinality(S)
           f == [h \in S |-> Place(S, r, h)]
<1>1. Cardinality(S) \in Nat
  BY HeadersFinite
<1>2. IsFiniteSet(T) /\ Cardinality(T) = Cardinality(S)
  BY <1>1, FS_Interval
<1>3. f \in [S -> T]
  BY PlaceInRange
<1>4. \A g, h \in S : f[g] = f[h] => g = h
  BY PlaceInjective
<1>5. f \in Injection(S, T)
  BY <1>3, <1>4 DEF Injection, IsInjective
<1>6. f \in Surjection(S, T)
  BY <1>2, <1>5, FS_Injection
<1>7. PICK h \in S : f[h] = k
  BY <1>6 DEF Surjection
<1> QED BY <1>7

LEMMA InOrderPlaces ==
  ASSUME NEW S \in SUBSET HdrAddr, NEW r \in HdrAddr
  PROVE  /\ \A k \in 1 .. Cardinality(S) :
              InOrder(S, r)[k] \in S /\ Place(S, r, InOrder(S, r)[k]) = k
         /\ \A h \in S : InOrder(S, r)[Place(S, r, h)] = h
<1>1. ASSUME NEW k \in 1 .. Cardinality(S)
      PROVE  InOrder(S, r)[k] \in S /\ Place(S, r, InOrder(S, r)[k]) = k
  <2>1. \E h \in S : Place(S, r, h) = k
    BY PlaceOnto
  <2>2. InOrder(S, r)[k] = CHOOSE h \in S : Place(S, r, h) = k
    BY DEF InOrder
  <2> QED BY <2>1, <2>2
<1>2. ASSUME NEW h \in S
      PROVE  InOrder(S, r)[Place(S, r, h)] = h
  <2>1. Place(S, r, h) \in 1 .. Cardinality(S)
    BY PlaceInRange
  <2> QED BY <2>1, <1>1, PlaceInjective
<1> QED BY <1>1, <1>2

packets == [id : HdrAddr, use : {"unread", "held", "freed"}]

LEMMA FifoIsSequence ==
  ASSUME NEW S \in SUBSET HdrAddr, NEW r \in HdrAddr, NEW U, NEW H
  PROVE  /\ DOMAIN FifoOf(S, r, U, H) = 1 .. Cardinality(S)
         /\ Len(FifoOf(S, r, U, H)) = Cardinality(S)
         /\ FifoOf(S, r, U, H) \in Seq(packets)
         /\ \A k \in 1 .. Cardinality(S) :
              FifoOf(S, r, U, H)[k] = Packet(InOrder(S, r)[k], U, H)
<1>1. Cardinality(S) \in Nat
  BY HeadersFinite
<1>2. \A k \in 1 .. Cardinality(S) : InOrder(S, r)[k] \in S
  BY InOrderPlaces
<1>3. FifoOf(S, r, U, H) \in [1 .. Cardinality(S) -> packets]
  <2>1. \A h \in S : Packet(h, U, H) \in packets
    BY DEF Packet, packets
  <2> QED BY <1>2, <2>1 DEF FifoOf
<1>4. \A k \in 1 .. Cardinality(S) :
        FifoOf(S, r, U, H)[k] = Packet(InOrder(S, r)[k], U, H)
  BY DEF FifoOf
<1> QED BY <1>1, <1>3, <1>4

\* w lies behind all packets of S.
Behind(S, r, w) == w \notin S /\ \A h \in S : Age(r, h) < Age(r, w)

\* h is the oldest packet of S that is in U.
Foremost(S, U, r, h) ==
  h \in U /\ \A g \in S : g \in U => ~(Age(r, g) < Age(r, h))

\* Counted from n the packets behind r are in the order they have from r.
SameOrder(S, r, n) ==
  \A g, h \in S \ {r} : Age(n, g) < Age(n, h) <=> Age(r, g) < Age(r, h)

\* G is F with the unread packet w, which F did not have, at its end.
WithLast(G, F, w) ==
  /\ \A k \in DOMAIN F : F[k].id # w
  /\ G = Append(F, [id |-> w, use |-> "unread"])

\* G is F without its first packet, which was freed.
WithoutFirst(G, F) == F # <<>> /\ Head(F).use = "freed" /\ G = Tail(F)

(* A packet younger than all others comes last, and the others keep their   *)
(* places.                                                                  *)
LEMMA FifoPut ==
  ASSUME NEW S \in SUBSET HdrAddr, NEW r \in HdrAddr, NEW w \in HdrAddr,
         NEW U, NEW H, Behind(S, r, w)
  PROVE  WithLast(FifoOf(S \cup {w}, r, U \cup {w}, H), FifoOf(S, r, U, H), w)
<1> DEFINE c == Cardinality(S)
           T == S \cup {w}
           V == U \cup {w}
           F == FifoOf(S, r, U, H)
           G == FifoOf(T, r, V, H)
           p == [id |-> w, use |-> "unread"]
<1> USE DEF Behind
<1>1. c \in Nat /\ T \in SUBSET HdrAddr /\ Cardinality(T) = c + 1
  BY HeadersFinite, FS_AddElement
<1>2. /\ \A h \in S : Place(T, r, h) = Place(S, r, h)
      /\ Place(T, r, w) = c + 1
  <2>1. ASSUME NEW h \in S PROVE Older(T, r, h) = Older(S, r, h)
    <3>1. Age(r, w) \in Nat /\ Age(r, h) \in Nat
      BY AgeInjective
    <3> QED BY <3>1 DEF Older
  <2>2. Older(T, r, w) = S
    BY AgeInjective DEF Older
  <2> QED BY <2>1, <2>2 DEF Place
<1>3. \A k \in 1 .. c : InOrder(T, r)[k] = InOrder(S, r)[k]
  <2> SUFFICES ASSUME NEW k \in 1 .. c
               PROVE  InOrder(T, r)[k] = InOrder(S, r)[k]
    OBVIOUS
  <2>1. InOrder(S, r)[k] \in S /\ Place(S, r, InOrder(S, r)[k]) = k
    BY InOrderPlaces
  <2>2. Place(T, r, InOrder(S, r)[k]) = k
    BY <1>2, <2>1
  <2> QED BY <1>1, <2>1, <2>2, InOrderPlaces
<1>4. InOrder(T, r)[c + 1] = w
  BY <1>1, <1>2, InOrderPlaces
<1>5. /\ DOMAIN F = 1 .. c /\ Len(F) = c /\ F \in Seq(packets)
      /\ \A k \in 1 .. c : F[k] = Packet(InOrder(S, r)[k], U, H)
  BY FifoIsSequence
<1>6. G = [k \in 1 .. (c + 1) |-> Packet(InOrder(T, r)[k], V, H)]
  BY <1>1 DEF FifoOf
<1>7. \A k \in 1 .. c : F[k].id # w /\ Packet(InOrder(T, r)[k], V, H) = F[k]
  <2> SUFFICES ASSUME NEW k \in 1 .. c
               PROVE  F[k].id # w /\ Packet(InOrder(T, r)[k], V, H) = F[k]
    OBVIOUS
  <2> DEFINE x == InOrder(S, r)[k]
  <2>1. x # w
    BY InOrderPlaces
  <2>2. InOrder(T, r)[k] = x /\ F[k] = Packet(x, U, H)
    BY <1>3, <1>5
  <2> HIDE DEF x
  <2>3. Packet(x, V, H) = Packet(x, U, H) /\ Packet(x, U, H).id = x
    BY <2>1 DEF Packet
  <2> QED BY <2>1, <2>2, <2>3
<1>8. Packet(InOrder(T, r)[c + 1], V, H) = p
  BY <1>4 DEF Packet
<1> HIDE DEF F, G, c, p
<1>9. G = Append(F, p)
  <2> DEFINE A == Append(F, p)
  <2>1. F \in Seq(packets) /\ p \in packets
    BY <1>5 DEF p, packets
  <2>2. /\ A \in Seq(packets) /\ Len(A) = c + 1
        /\ \A k \in 1 .. c : A[k] = F[k]
        /\ A[c + 1] = p
    BY <1>5, <2>1, AppendProperties
  <2>3. A = [k \in 1 .. (c + 1) |-> A[k]]
    BY <2>2, LenProperties
  <2> HIDE DEF A
  <2>4. \A k \in 1 .. (c + 1) : Packet(InOrder(T, r)[k], V, H) = A[k]
    <3>1. c \in Nat
      BY <1>1 DEF c
    <3>2. \A k \in 1 .. (c + 1) : k \in 1 .. c \/ k = c + 1
      BY <3>1
    <3> QED BY <1>7, <1>8, <2>2, <3>2
  <2>5. G = A
    BY <1>6, <2>3, <2>4
  <2> QED BY <2>5 DEF A
<1> QED BY <1>5, <1>7, <1>9 DEF F, G, p, WithLast

SetUse(p, u) == [p EXCEPT !.use = u]

WithUse(F, k, u) == [F EXCEPT ![k] = SetUse(F[k], u)]

(* Only the use of one packet changes.                                      *)
LEMMA FifoUse ==
  ASSUME NEW S \in SUBSET HdrAddr, NEW r \in HdrAddr, NEW h \in S,
         NEW U, NEW H, NEW V, NEW J, NEW u,
         \A g \in S \ {h} : Packet(g, V, J) = Packet(g, U, H),
         Packet(h, V, J) = [id |-> h, use |-> u]
  PROVE  /\ Place(S, r, h) \in DOMAIN FifoOf(S, r, U, H)
         /\ FifoOf(S, r, U, H)[Place(S, r, h)] = Packet(h, U, H)
         /\ FifoOf(S, r, V, J) = WithUse(FifoOf(S, r, U, H), Place(S, r, h), u)
<1> DEFINE c == Cardinality(S)
           q == Place(S, r, h)
           F == FifoOf(S, r, U, H)
<1>1. q \in 1 .. c /\ InOrder(S, r)[q] = h
  BY PlaceInRange, InOrderPlaces
<1>2. \A k \in 1 .. c : InOrder(S, r)[k] \in S /\ (InOrder(S, r)[k] = h => k = q)
  BY InOrderPlaces
<1>3. F = [k \in 1 .. c |-> Packet(InOrder(S, r)[k], U, H)]
  BY DEF FifoOf
<1>4. FifoOf(S, r, V, J) = [k \in 1 .. c |-> Packet(InOrder(S, r)[k], V, J)]
  BY DEF FifoOf
<1>5. F[q] = Packet(h, U, H) /\ q \in DOMAIN F
  BY <1>1, <1>3
<1>6. SetUse(F[q], u) = [id |-> h, use |-> u]
  <2>1. SetUse(Packet(h, U, H), u) = [id |-> h, use |-> u]
    BY DEF SetUse, Packet
  <2> QED BY <1>5, <2>1
<1>7. \A k \in 1 .. c : Packet(InOrder(S, r)[k], V, J)
                          = IF k = q THEN SetUse(F[q], u) ELSE F[k]
  BY <1>1, <1>2, <1>3, <1>6
<1>8. [F EXCEPT ![q] = SetUse(F[q], u)]
        = [k \in 1 .. c |-> IF k = q THEN SetUse(F[q], u) ELSE F[k]]
  BY <1>3
<1>9. FifoOf(S, r, V, J) = [F EXCEPT ![q] = SetUse(F[q], u)]
  BY <1>4, <1>7, <1>8
<1> QED BY <1>5, <1>9 DEF WithUse

(* The reader takes the oldest of the packets it has still to see.          *)
LEMMA FifoTake ==
  ASSUME NEW S \in SUBSET HdrAddr, NEW r \in HdrAddr, NEW h \in S,
         NEW U, NEW H, Foremost(S, U, r, h)
  PROVE  \E k \in DOMAIN FifoOf(S, r, U, H) :
           /\ FifoOf(S, r, U, H)[k].use = "unread"
           /\ \A j \in 1 .. (k - 1) : FifoOf(S, r, U, H)[j].use # "unread"
           /\ FifoOf(S, r, U \ {h}, H \cup {h}) = WithUse(FifoOf(S, r, U, H), k, "held")
<1> DEFINE F == FifoOf(S, r, U, H)
           q == Place(S, r, h)
           V == U \ {h}
           J == H \cup {h}
<1>1. /\ \A g \in S \ {h} : Packet(g, V, J) = Packet(g, U, H)
      /\ Packet(h, V, J) = [id |-> h, use |-> "held"]
      /\ Packet(h, U, H).use = "unread"
  BY DEF Packet, Foremost
<1> HIDE DEF V, J
<1>2. /\ q \in DOMAIN F /\ F[q] = Packet(h, U, H)
      /\ FifoOf(S, r, V, J) = WithUse(F, q, "held")
  BY <1>1, FifoUse
<1>3. ASSUME NEW j \in 1 .. (q - 1)
      PROVE  F[j].use # "unread"
  <2> DEFINE x == InOrder(S, r)[j]
  <2>1. q \in 1 .. Cardinality(S) /\ Cardinality(S) \in Nat
    BY PlaceInRange, HeadersFinite
  <2>2. j \in 1 .. Cardinality(S) /\ j < q
    BY <2>1
  <2>3. x \in S /\ Place(S, r, x) = j
    BY <2>2, InOrderPlaces
  <2>4. F[j] = Packet(x, U, H)
    BY <2>2, FifoIsSequence
  <2> HIDE DEF x
  <2>5. Age(r, x) < Age(r, h)
    BY <2>2, <2>3, PlaceInjective
  <2>6. x \notin U
    BY <2>3, <2>5 DEF Foremost
  <2> QED BY <2>4, <2>6 DEF Packet
<1> QED BY <1>1, <1>2, <1>3 DEF V, J

LEMMA FifoRelease ==
  ASSUME NEW S \in SUBSET HdrAddr, NEW r \in HdrAddr, NEW h \in S,
         NEW U, NEW H, h \in H, h \notin U
  PROVE  \E k \in DOMAIN FifoOf(S, r, U, H) :
           /\ FifoOf(S, r, U, H)[k].use = "held"
           /\ FifoOf(S, r, U, H \ {h}) = WithUse(FifoOf(S, r, U, H), k, "freed")
<1> DEFINE F == FifoOf(S, r, U, H)
           q == Place(S, r, h)
           J == H \ {h}
<1>1. /\ \A g \in S \ {h} : Packet(g, U, J) = Packet(g, U, H)
      /\ Packet(h, U, J) = [id |-> h, use |-> "freed"]
      /\ Packet(h, U, H).use = "held"
  BY DEF Packet
<1> HIDE DEF J
<1>2. /\ q \in DOMAIN F /\ F[q] = Packet(h, U, H)
      /\ FifoOf(S, r, U, J) = WithUse(F, q, "freed")
  BY <1>1, FifoUse
<1> QED BY <1>1, <1>2 DEF J

(* The oldest packet is unlinked: every other moves one place forward.      *)
LEMMA FifoReclaim ==
  ASSUME NEW S \in SUBSET HdrAddr, NEW r \in S, NEW n \in HdrAddr,
         NEW U, NEW H, r \notin U, r \notin H,
         SameOrder(S, r, n)
  PROVE  WithoutFirst(FifoOf(S \ {r}, n, U, H), FifoOf(S, r, U, H))
<1> DEFINE c == Cardinality(S)
           T == S \ {r}
           F == FifoOf(S, r, U, H)
           G == FifoOf(T, n, U, H)
<1>1. /\ c \in Nat /\ T \in SUBSET HdrAddr /\ Cardinality(T) = c - 1 /\ r \in HdrAddr
      /\ IsFiniteSet(S)
  BY HeadersFinite, FS_RemoveElement
<1>2. c >= 1
  BY <1>1, FS_EmptySet
<1>3. \A h \in T : Place(T, n, h) = Place(S, r, h) - 1
  <2> SUFFICES ASSUME NEW h \in T PROVE Place(T, n, h) = Place(S, r, h) - 1
    OBVIOUS
  <2>1. r \in Older(S, r, h)
    BY <1>1, AgeInjective DEF Older
  <2>2. Older(T, n, h) = Older(S, r, h) \ {r}
    BY DEF Older, SameOrder
  <2>3. Older(S, r, h) \in SUBSET HdrAddr
    BY DEF Older
  <2>4. IsFiniteSet(Older(S, r, h)) /\ Cardinality(Older(S, r, h)) \in Nat
    BY <2>3, HeadersFinite
  <2>5. Cardinality(Older(S, r, h) \ {r}) = Cardinality(Older(S, r, h)) - 1
    BY <2>1, <2>4, FS_RemoveElement
  <2>6. Cardinality(Older(T, n, h)) = Cardinality(Older(S, r, h)) - 1
    BY <2>2, <2>5
  <2> QED BY <2>4, <2>6 DEF Place
<1>4. InOrder(S, r)[1] = r
  <2>1. Older(S, r, r) = {}
    BY <1>1, AgeInjective DEF Older
  <2>2. Place(S, r, r) = 1
    BY <2>1, FS_EmptySet DEF Place
  <2> QED BY <1>1, <2>2, InOrderPlaces
<1>5. \A k \in 1 .. (c - 1) : InOrder(T, n)[k] = InOrder(S, r)[k + 1]
  <2> SUFFICES ASSUME NEW k \in 1 .. (c - 1)
               PROVE  InOrder(T, n)[k] = InOrder(S, r)[k + 1]
    OBVIOUS
  <2> DEFINE x == InOrder(T, n)[k]
  <2>1. x \in T /\ Place(T, n, x) = k
    BY <1>1, InOrderPlaces
  <2>2. Place(S, r, x) \in Int
    BY <1>1, <2>1, PlaceInRange
  <2> HIDE DEF x
  <2>3. Place(S, r, x) = k + 1
    <3>1. k = Place(S, r, x) - 1
      BY <1>3, <2>1
    <3> QED BY <2>2, <3>1
  <2>4. InOrder(S, r)[Place(S, r, x)] = x
    BY <1>1, <2>1, InOrderPlaces
  <2> QED BY <2>3, <2>4 DEF x
<1>6. /\ Len(F) = c /\ F \in Seq(packets)
      /\ \A k \in 1 .. c : F[k] = Packet(InOrder(S, r)[k], U, H)
  BY <1>1, FifoIsSequence
<1>7. G = [k \in 1 .. (c - 1) |-> Packet(InOrder(T, n)[k], U, H)]
  BY <1>1 DEF FifoOf
<1>8. \A k \in 1 .. (c - 1) : Packet(InOrder(T, n)[k], U, H) = F[k + 1]
  <2> SUFFICES ASSUME NEW k \in 1 .. (c - 1)
               PROVE  Packet(InOrder(T, n)[k], U, H) = F[k + 1]
    OBVIOUS
  <2>1. k + 1 \in 1 .. c
    BY <1>1
  <2>2. F[k + 1] = Packet(InOrder(S, r)[k + 1], U, H)
    BY <1>6, <2>1
  <2> QED BY <1>5, <2>2
<1>9. F[1] = Packet(r, U, H)
  BY <1>1, <1>2, <1>4, <1>6
<1> HIDE DEF F, G, c
<1>10. F # <<>> /\ Head(F) = F[1]
  BY <1>1, <1>2, <1>6
<1>11. Packet(r, U, H).use = "freed"
  BY DEF Packet
<1>12. G = Tail(F)
  <2>1. /\ Tail(F) \in Seq(packets) /\ Len(Tail(F)) = c - 1
        /\ \A k \in 1 .. (c - 1) : Tail(F)[k] = F[k + 1]
    BY <1>6, <1>10, HeadTailProperties
  <2>2. Tail(F) = [k \in 1 .. (c - 1) |-> Tail(F)[k]]
    BY <2>1, LenProperties
  <2> QED BY <1>7, <1>8, <2>1, <2>2
<1> QED BY <1>9, <1>10, <1>11, <1>12 DEF F, G, WithoutFirst

-----------------------------------------------------------------------------
(* In a chain the order of the places is the order of the commits. *)

\* Along the circle from r, what lies strictly before b is nearer to r.
LEMMA BetweenAge ==
  ASSUME NEW r \in HdrAddr, NEW x \in HdrAddr, NEW b \in HdrAddr, r # b
  PROVE  Age(r, x) < Age(r, b) <=> x = r \/ Between(r, x, b)
BY PoolAssumption DEF Age, Between, HdrAddr

LEMMA ChainAges ==
  ASSUME NEW m, NEW S \in SUBSET HdrAddr, NEW r \in HdrAddr, NEW w \in HdrAddr,
         Chain(m, S, r, w)
  PROVE  Behind(S, r, w)
<1> SUFFICES ASSUME NEW h \in S PROVE h # w /\ Age(r, h) < Age(r, w)
  BY DEF Behind
<1>1. h # w /\ r # w /\ (h = r \/ Between(r, h, w))
  BY DEF Chain
<1> QED BY <1>1, BetweenAge

\* The next packet of a reader is the oldest one it has still to see.
LEMMA ChainFirst ==
  ASSUME NEW m, NEW S \in SUBSET HdrAddr, NEW U \in SUBSET S,
         NEW r \in HdrAddr, NEW y \in HdrAddr, NEW w \in HdrAddr,
         Chain(m, S, r, w), Chain(m, U, y, w), y # w
  PROVE  Foremost(S, U, r, y)
<1>1. y \in U
  BY DEF Chain
<1> SUFFICES ASSUME NEW h \in U, Age(r, h) < Age(r, y) PROVE FALSE
  BY <1>1 DEF Foremost
<1>2. h = y \/ Between(y, h, w)
  BY DEF Chain
<1>3. r # w /\ (y = r \/ Between(r, y, w)) /\ (h = r \/ Between(r, h, w))
  BY <1>1 DEF Chain
<1>4. h \in HdrAddr
  OBVIOUS
<1> QED BY <1>2, <1>3, <1>4, PoolAssumption DEF Age, Between, HdrAddr

\* Counted from the packet after it, what follows the oldest stays in order.
LEMMA ChainPopAges ==
  ASSUME NEW m \in [Addr -> Int], NEW S \in SUBSET HdrAddr,
         NEW r \in S, NEW w \in HdrAddr, Chain(m, S, r, w)
  PROVE  SameOrder(S, r, NextIn(m, r))
<1> DEFINE n == NextIn(m, r)
<1>1. r \in HdrAddr /\ r # w
  BY DEF Chain
<1>2. n \in S \cup {w} /\ n # r /\ \A g \in S : ~Between(r, g, n)
  BY DEF Chain
<1>3. n \in HdrAddr
  BY <1>2
<1> HIDE DEF n
<1>4. \A g \in S \ {r} : Age(n, g) = Age(r, g) - Age(r, n)
  <2> SUFFICES ASSUME NEW g \in S \ {r} PROVE Age(n, g) = Age(r, g) - Age(r, n)
    OBVIOUS
  <2>1. g \in HdrAddr /\ g # r /\ ~Between(r, g, n)
    BY <1>2
  <2> QED BY <1>1, <1>2, <1>3, <2>1, PoolAssumption DEF Age, Between, HdrAddr
<1> SUFFICES ASSUME NEW g \in S \ {r}, NEW h \in S \ {r}
             PROVE  Age(n, g) < Age(n, h) <=> Age(r, g) < Age(r, h)
  BY DEF n, SameOrder
<1>5. Age(r, g) \in Nat /\ Age(r, h) \in Nat /\ Age(r, n) \in Nat
  BY <1>1, <1>3, AgeInjective
<1> QED BY <1>4, <1>5

=============================================================================
