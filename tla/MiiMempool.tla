------------------------------ MODULE MiiMempool ------------------------------
(***************************************************************************)
(* The packet memory pool of the full Ethernet MAC (mii_malloc.c): a       *)
(* circular buffer of words in which one producer reserves and commits     *)
(* packets without a lock, readers follow the chain of headers, and        *)
(* several threads free packets, in any order, under one lock.             *)
(*                                                                         *)
(* This module holds the state of a pool and the operations that every     *)
(* user of a pool shares.  MiiRxPool and MiiTxPool add the producer and    *)
(* the readers of a receive and of a transmit pool.                        *)
(*                                                                         *)
(* Addresses are word addresses.  The first word of a packet header,       *)
(* hdr->next, is the word of mem at the header's address; the other words  *)
(* of a packet matter only in that writing them can destroy a header, so   *)
(* what is written there is any value of Junk.                             *)
(***************************************************************************)
EXTENDS Integers, FiniteSets, Sequences

CONSTANTS
  Start,     \* info->start
  End,       \* info->end: the word that holds the wrap pointer
  MinUsage,  \* MIN_USAGE: the least number of words a packet needs
  Lead,      \* words from a header to the first word stored by the copy loop
  Junk       \* what a data word may look like when read as a next pointer

ASSUME PoolAssumption ==
  /\ Start \in Nat /\ Start >= 1
  /\ End \in Nat /\ Start + MinUsage <= End
  /\ MinUsage \in Nat /\ Lead \in Nat
  /\ 1 <= Lead /\ Lead < MinUsage
  /\ Junk \subseteq Int /\ Junk # {}

VARIABLES
  rdptr,          \* info->rdptr: the header of the oldest packet
  wrptr,          \* info->wrptr: the header of the packet being built
  rdptr_at_start, \* info->rdptr_at_start
  mem,            \* the words from Start to End - 1
  fpc,            \* where the holder of the lock is in mii_free
  fhdr,           \* its local hdr; 0 when nobody frees
  queued          \* history: headers of the packets committed, not reclaimed

freeVars == <<fpc, fhdr>>
poolVars == <<rdptr, wrptr, rdptr_at_start, mem, fpc, fhdr, queued>>

Addr == Start .. (End - 1)

\* A header is never placed in the last MinUsage words of the pool.
HdrAddr == Start .. (End - MinUsage)

Abs(n) == IF n < 0 THEN -n ELSE n

\* Where the header at h points in memory m, whatever its mark.
NextIn(m, h) == Abs(m[h])

\* dptr += 4; if (dptr == wrap_ptr) dptr = *wrap_ptr
NextWord(d) == IF d + 1 = End THEN Start ELSE d + 1

\* x lies strictly inside the stretch of the circle that runs from a to b.
Between(a, x, b) == IF a < b THEN a < x /\ x < b ELSE a < x \/ x < b

PoolInit ==
  /\ rdptr = Start
  /\ wrptr = Start
  /\ rdptr_at_start = TRUE
  /\ mem \in {[a \in Addr |-> IF a = Start THEN 0 ELSE j] : j \in Junk}
  /\ fpc = "idle"
  /\ fhdr = 0
  /\ queued = {}

-----------------------------------------------------------------------------
(***************************************************************************)
(* Bugs the operations below might have had: each is a wrong version of    *)
(* the definition it is named after, for checking that a property notices. *)
(***************************************************************************)

\* mii_commit wraps without asking what it would wrap onto.
DiscardsNever(e) == FALSE

\* mii_free does not maintain rdptr_at_start.
FreeUnlinkStaleFlag ==
  /\ fpc = "check"
  /\ fhdr = rdptr
  /\ rdptr' = NextIn(mem, fhdr)
  /\ fhdr' = NextIn(mem, fhdr)
  /\ mem' = [mem EXCEPT ![fhdr] = 0]
  /\ queued' = queued \ {fhdr}
  /\ fpc' = "testWrptr"
  /\ UNCHANGED <<wrptr, rdptr_at_start>>

\* mii_free leaves a packet that is not the oldest without marking it.
FreeMarkForgotten ==
  /\ fpc = "check"
  /\ fhdr # rdptr
  /\ fpc' = "idle"
  /\ fhdr' = 0
  /\ UNCHANGED <<rdptr, wrptr, rdptr_at_start, mem, queued>>

\* mii_free tests the same packet again instead of going on with it.
FreeTestNextRepeats ==
  /\ fpc = "testNext"
  /\ IF mem[fhdr] > 0
       THEN fpc' = "idle" /\ fhdr' = 0
       ELSE fpc' = "testWrptr" /\ UNCHANGED fhdr
  /\ UNCHANGED <<rdptr, wrptr, rdptr_at_start, mem, queued>>

-----------------------------------------------------------------------------
(***************************************************************************)
(* mii_commit.  It takes no lock: it reads rdptr_at_start, writes the next *)
(* pointer of the new packet and only then publishes it in wrptr, and a    *)
(* thread that frees or reads may run between any two of these.            *)
(***************************************************************************)

\* A packet that ended at e would leave too little room for the next one.
TooCloseToEnd(e) == End - e < MinUsage

\* mii_commit gives the packet up instead of making the pool look empty.
Discards(e) == TooCloseToEnd(e) /\ rdptr_at_start

\* The address of the header that follows a packet that ends at e.
EndPtr(e) == IF TooCloseToEnd(e) THEN Start ELSE e

\* hdr->next = end_ptr
LinkPacket(e) == mem' = [mem EXCEPT ![wrptr] = e]

\* info->wrptr = end_ptr
Publish(e) ==
  /\ wrptr' = e
  /\ queued' = queued \cup {wrptr}

-----------------------------------------------------------------------------
(***************************************************************************)
(* mii_free, one action per iteration step of its loop; fpc is not "idle"  *)
(* exactly while some thread holds the lock.                               *)
(***************************************************************************)

FreeStart(h) ==
  /\ fpc = "idle"
  /\ fpc' = "check"
  /\ fhdr' = h
  /\ UNCHANGED <<rdptr, wrptr, rdptr_at_start, mem, queued>>

\* hdr is the oldest packet: move rdptr past it.
FreeUnlink ==
  /\ fpc = "check"
  /\ fhdr = rdptr
  /\ LET nx == NextIn(mem, fhdr) IN
       /\ rdptr' = nx
       /\ rdptr_at_start' = (nx = Start)
       /\ fhdr' = nx
  /\ mem' = [mem EXCEPT ![fhdr] = 0]
  /\ queued' = queued \ {fhdr}
  /\ fpc' = "testWrptr"
  /\ UNCHANGED wrptr

\* hdr is not the oldest packet: mark it and leave it for a later free.
FreeMark ==
  /\ fpc = "check"
  /\ fhdr # rdptr
  /\ mem' = [mem EXCEPT ![fhdr] = -mem[fhdr]]
  /\ fpc' = "idle"
  /\ fhdr' = 0
  /\ UNCHANGED <<rdptr, wrptr, rdptr_at_start, queued>>

\* The first operand of the ||: has the loop reached the end of the fifo?
FreeTestWrptr ==
  /\ fpc = "testWrptr"
  /\ IF fhdr = wrptr
       THEN fpc' = "idle" /\ fhdr' = 0
       ELSE fpc' = "testNext" /\ UNCHANGED fhdr
  /\ UNCHANGED <<rdptr, wrptr, rdptr_at_start, mem, queued>>

\* The second operand: is the packet at hdr still in use?
FreeTestNext ==
  /\ fpc = "testNext"
  /\ IF mem[fhdr] > 0
       THEN fpc' = "idle" /\ fhdr' = 0
       ELSE fpc' = "check" /\ UNCHANGED fhdr
  /\ UNCHANGED <<rdptr, wrptr, rdptr_at_start, mem, queued>>

FreeStep ==
  \/ FreeUnlink
  \/ FreeMark
  \/ FreeTestWrptr
  \/ FreeTestNext

-----------------------------------------------------------------------------
(***************************************************************************)
(* Properties of a pool, whoever uses it.                                  *)
(***************************************************************************)

PoolTypeOK ==
  /\ rdptr \in HdrAddr
  /\ wrptr \in HdrAddr
  /\ rdptr_at_start \in BOOLEAN
  /\ mem \in [Addr -> Int]
  /\ fpc \in {"idle", "check", "testWrptr", "testNext"}
  /\ fhdr \in HdrAddr \cup {0}
  /\ queued \subseteq HdrAddr

(***************************************************************************)
(* In memory m the packets of S form a chain from r to w: following next   *)
(* pointers from r visits every packet of S, in the order they lie on the  *)
(* circle, and ends at w.  It holds of the packets in the pool, and of     *)
(* those a reader has still to see.                                        *)
(***************************************************************************)
Chain(m, S, r, w) ==
  /\ IF r = w THEN S = {} ELSE r \in S
  /\ \A h \in S :
       /\ h # w
       /\ h = r \/ Between(r, h, w)
       /\ NextIn(m, h) \in S \cup {w}
       /\ NextIn(m, h) # h
       /\ \A g \in S \cup {w} : ~Between(h, g, NextIn(m, h))

\* The words a packet occupies, its header first.
Footprint(h) == {x \in Addr : x = h \/ Between(h, x, NextIn(mem, h))}

-----------------------------------------------------------------------------
(***************************************************************************)
(* The packets of a pool as the sequence that PacketFifo speaks of: in the *)
(* order of their places on the circle, starting from the oldest.          *)
(***************************************************************************)

\* Distance of the header h from the header r, along the circle.
Age(r, h) == IF h >= r THEN h - r ELSE h - r + (End - Start)

Older(S, r, h) == {g \in S : Age(r, g) < Age(r, h)}

Place(S, r, h) == Cardinality(Older(S, r, h)) + 1

InOrder(S, r) == [k \in 1 .. Cardinality(S) |-> CHOOSE h \in S : Place(S, r, h) = k]

\* A packet of the pool, when those of U are unread and those of H held.
Packet(h, U, H) ==
  [id |-> h, use |-> IF h \in U THEN "unread" ELSE IF h \in H THEN "held" ELSE "freed"]

FifoOf(S, r, U, H) == [k \in 1 .. Cardinality(S) |-> Packet(InOrder(S, r)[k], U, H)]

=============================================================================
