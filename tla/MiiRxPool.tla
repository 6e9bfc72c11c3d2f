------------------------------- MODULE MiiRxPool ------------------------------
(***************************************************************************)
(* A receive pool at work: mii_rx_pins fills it from the wire, the receive *)
(* server walks it with a read pointer of its own, and whoever holds a     *)
(* packet last (the server, or the transmit thread of the other port when  *)
(* the packet was forwarded) frees it.                                     *)
(*                                                                         *)
(* The wire does not wait: a word arrives every 320 ns whether or not      *)
(* there is room, so mii_rx_pins compares dptr with the live rdptr before  *)
(* each store and drops the word when they are equal.                      *)
(***************************************************************************)
EXTENDS MiiMempool

VARIABLES
  ppc,     \* where mii_rx_pins is
  dptr,    \* its write position
  end_ptr, \* end_ptr of the mii_commit under way
  my,      \* rdptr_lp or rdptr_hp of the receive server
  unread,  \* history: packets the server has not taken yet
  held     \* history: packets taken and not yet passed to mii_free

rxVars == <<ppc, dptr, end_ptr>>
vars == <<poolVars, rxVars, my, unread, held>>

Init ==
  /\ PoolInit
  /\ ppc = "reserve"
  /\ dptr = Start
  /\ end_ptr = Start
  /\ my = rdptr
  /\ unread = {}
  /\ held = {}

-----------------------------------------------------------------------------
(* Wrong versions of definitions below, for checking the properties. *)

\* mii_reserve hands out the room ahead of wrptr however short it is.
AlwaysRoom == TRUE

\* The server asks for the oldest packet of the pool, not for its own next.
TakeOldest ==
  /\ rdptr # wrptr
  /\ my' = mem[rdptr]
  /\ unread' = unread \ {rdptr}
  /\ held' = held \cup {rdptr}
  /\ UNCHANGED <<poolVars, rxVars>>

-----------------------------------------------------------------------------
(* The producer. *)

\* mii_reserve refuses only when the free stretch ahead of wrptr ends at
\* rdptr and is too short; otherwise it trusts HdrAddr for the room.
RoomToReserve == rdptr > wrptr => rdptr - wrptr >= MinUsage

RxReserve ==
  /\ ppc = "reserve"
  /\ RoomToReserve
  /\ ppc' = "sof"
  /\ UNCHANGED <<poolVars, dptr, end_ptr, my, unread, held>>

\* The first words of a frame, and the packet's own fields, are stored with
\* no look at rdptr; hdr->next is not among them.
LeadWords == (wrptr + 1) .. (wrptr + Lead - 1)

WriteLead ==
  \E j \in Junk : mem' = [a \in Addr |-> IF a \in LeadWords THEN j ELSE mem[a]]

\* The frame's ethertype selects this pool.
RxStart ==
  /\ ppc = "sof"
  /\ WriteLead
  /\ dptr' = wrptr + Lead
  /\ ppc' = "data"
  /\ UNCHANGED <<rdptr, wrptr, rdptr_at_start, freeVars, queued,
                 end_ptr, my, unread, held>>

\* The ethertype selects the pool of the other priority: the words stored so
\* far are abandoned and the next frame reserves again.
RxOtherPool ==
  /\ ppc = "sof"
  /\ WriteLead
  /\ ppc' = "reserve"
  /\ UNCHANGED <<rdptr, wrptr, rdptr_at_start, freeVars, queued,
                 dptr, end_ptr, my, unread, held>>

\* A word arrives and there is room for it.  When dptr = rdptr it is dropped
\* and nothing changes.
RxWord ==
  /\ ppc = "data"
  /\ dptr # rdptr
  /\ \E j \in Junk : mem' = [mem EXCEPT ![dptr] = j]
  /\ dptr' = NextWord(dptr)
  /\ UNCHANGED <<rdptr, wrptr, rdptr_at_start, freeVars, queued,
                 ppc, end_ptr, my, unread, held>>

\* The frame ends and there is room for the word that holds its tail.
RxEof ==
  /\ ppc = "data"
  /\ dptr # rdptr
  /\ \E j \in Junk : mem' = [mem EXCEPT ![dptr] = j]
  /\ ppc' = "commit"
  /\ UNCHANGED <<rdptr, wrptr, rdptr_at_start, freeVars, queued,
                 dptr, end_ptr, my, unread, held>>

\* The frame ends with the pool full: it is not committed.
RxOverflow ==
  /\ ppc = "data"
  /\ dptr = rdptr
  /\ ppc' = "reserve"
  /\ UNCHANGED <<poolVars, dptr, end_ptr, my, unread, held>>

\* mii_commit up to its decision.
RxCommitTest ==
  /\ ppc = "commit"
  /\ IF Discards(dptr)
       THEN ppc' = "reserve" /\ UNCHANGED end_ptr
       ELSE ppc' = "link" /\ end_ptr' = EndPtr(dptr)
  /\ UNCHANGED <<poolVars, dptr, my, unread, held>>

RxCommitLink ==
  /\ ppc = "link"
  /\ LinkPacket(end_ptr)
  /\ ppc' = "publish"
  /\ UNCHANGED <<rdptr, wrptr, rdptr_at_start, freeVars, queued,
                 dptr, end_ptr, my, unread, held>>

RxCommitPublish ==
  /\ ppc = "publish"
  /\ Publish(end_ptr)
  /\ unread' = unread \cup {wrptr}
  /\ ppc' = "reserve"
  /\ UNCHANGED <<rdptr, rdptr_at_start, mem, freeVars, dptr, end_ptr, my, held>>

-----------------------------------------------------------------------------
(* The receive server, and the threads that free. *)

\* mii_get_my_next_buf, then mii_update_my_rdptr, for a packet the filter is
\* done with.
TakePacket ==
  /\ my # wrptr
  /\ my' = mem[my]
  /\ unread' = unread \ {my}
  /\ held' = held \cup {my}
  /\ UNCHANGED <<poolVars, rxVars>>

\* The last holder of a packet frees it.
Release(h) ==
  /\ h \in held
  /\ FreeStart(h)
  /\ held' = held \ {h}
  /\ UNCHANGED <<rxVars, my, unread>>

Free ==
  /\ FreeStep
  /\ UNCHANGED <<rxVars, my, unread, held>>

Next ==
  \/ RxReserve
  \/ RxStart
  \/ RxOtherPool
  \/ RxWord
  \/ RxEof
  \/ RxOverflow
  \/ RxCommitTest
  \/ RxCommitLink
  \/ RxCommitPublish
  \/ TakePacket
  \/ \E h \in held : Release(h)
  \/ Free

Spec == Init /\ [][Next]_vars

-----------------------------------------------------------------------------

TypeOK ==
  /\ PoolTypeOK
  /\ ppc \in {"reserve", "sof", "data", "commit", "link", "publish"}
  /\ dptr \in Addr
  /\ end_ptr \in HdrAddr
  /\ my \in HdrAddr
  /\ unread \subseteq HdrAddr
  /\ held \subseteq HdrAddr

(* The inductive invariant, part by part. *)

FlagOK == rdptr_at_start = (rdptr = Start)

\* Every packet in the pool is unread, held, or freed and not yet reclaimed.
StatusOK ==
  /\ unread \subseteq queued
  /\ held \subseteq queued
  /\ unread \cap held = {}
  /\ \A h \in unread \cup held : mem[h] > 0
  /\ \A h \in queued \ (unread \cup held) :
        mem[h] < 0 \/ (fpc = "check" /\ fhdr = h)

FreeOK ==
  /\ fpc = "idle" => fhdr = 0 /\ (rdptr # wrptr => mem[rdptr] > 0)
  /\ fpc = "check" =>
       /\ fhdr \in queued \ (unread \cup held)
       /\ fhdr # rdptr => mem[fhdr] > 0 /\ mem[rdptr] > 0
  /\ fpc \in {"testWrptr", "testNext"} => fhdr = rdptr
  /\ fpc = "testNext" => rdptr # wrptr

ProducerOK ==
  /\ ppc = "sof" => RoomToReserve
  /\ ppc = "data" => dptr = rdptr \/ Between(wrptr, dptr, rdptr)
  /\ ppc = "commit" => Between(wrptr, dptr, rdptr)
  /\ ppc \in {"link", "publish"} => Between(wrptr, end_ptr, rdptr)
  /\ ppc = "publish" => mem[wrptr] = end_ptr

IInv ==
  /\ TypeOK
  /\ FlagOK
  /\ Chain(mem, queued, rdptr, wrptr)
  /\ Chain(mem, unread, my, wrptr)
  /\ StatusOK
  /\ FreeOK
  /\ ProducerOK

-----------------------------------------------------------------------------
(* Properties. *)

(* The pool looks empty (rdptr = wrptr) only when every packet was          *)
(* reclaimed: mii_commit never publishes a wrptr that hides what is queued. *)
EmptyOnlyWhenDrained == rdptr = wrptr => queued = {}

(* The words the next step of mii_rx_pins or mii_commit may store into. *)
NextWrites ==
  CASE ppc = "sof" -> LeadWords
    [] ppc = "data" /\ dptr # rdptr -> {dptr}
    [] ppc = "link" -> {wrptr}
    [] OTHER -> {}

(* The unchecked stores of the first words, and the stores guarded by one   *)
(* comparison with rdptr, never reach a word of a packet that is queued,    *)
(* whatever frees happen in between.                                        *)
NoOverwrite == \A h \in queued : NextWrites \cap Footprint(h) = {}

(* When nobody is in mii_free the oldest packet is one still in use: a run  *)
(* of packets freed out of order is coalesced by the free that closes it.   *)
OldestIsInUse == fpc = "idle" /\ rdptr # wrptr => mem[rdptr] > 0

(* No packet is lost for reuse: once all packets are taken and freed, the   *)
(* pool is empty again.                                                     *)
AllReclaimed == fpc = "idle" /\ unread = {} /\ held = {} => rdptr = wrptr

(* mii_update_my_rdptr, called whenever mii_get_my_next_buf saw a packet,   *)
(* "should always be a positive next pointer": the packet is linked and not *)
(* freed, and the chain never leads the server's pointer into free space.   *)
ReaderNextPositive == my # wrptr => mem[my] > 0 /\ mem[my] \in unread \cup {wrptr}

(* The loop of mii_free ends, though commits keep extending the chain it    *)
(* follows: a thread gives the lock back.                                   *)
FreeTerminates == fpc # "idle" ~> fpc = "idle"

(* Hardware threads run without being scheduled away, so a thread inside    *)
(* mii_free takes its next step.  Nothing is assumed of the wire, of the    *)
(* server or of when a holder frees.                                        *)
FairSpec == Spec /\ WF_vars(Free)

-----------------------------------------------------------------------------
(* The fifo the pool implements. *)

Fifo == FifoOf(queued, rdptr, unread, held)

PF == INSTANCE PacketFifo WITH Ids <- HdrAddr, fifo <- Fifo

(* The pool is a fifo: the chain in memory keeps the order of the commits,  *)
(* the server meets each packet once and in that order, and a packet whose  *)
(* turn has come is reclaimed after it is freed.                            *)
ImplementsFifo == PF!Spec

=============================================================================
