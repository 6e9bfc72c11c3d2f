------------------------------- MODULE MiiTxPool ------------------------------
(***************************************************************************)
(* A transmit pool at work: the transmit server reserves room for a        *)
(* largest packet before it asks the client for the data, copies the words *)
(* without looking at rdptr again and commits; mii_tx_pins sends the       *)
(* oldest packet, and it or (for a timed packet) the transmit server frees *)
(* it.                                                                     *)
(*                                                                         *)
(* The server ignores the result of mii_commit, so a reservation that was  *)
(* granted has to be enough.                                               *)
(***************************************************************************)
EXTENDS MiiMempool

CONSTANTS
  FullPacketSize, \* MII_MALLOC_FULL_PACKET_SIZE_HP or _LP, in bytes
  SentWords,      \* words copied for the longest packet clients send
  LoneWords       \* words of the longest packet that is sent into an empty pool

ASSUME TxAssumption ==
  /\ FullPacketSize \in Nat
  /\ SentWords \in Nat
  /\ LoneWords \in Nat

(***************************************************************************)
(* The longest packet leaves at least a byte of its reservation unused.    *)
(* With MII_MALLOC_FULL_PACKET_SIZE_LP = 48 + 1518 bytes this is so of     *)
(* packets of up to 1516 bytes, and with _HP = 48 + 300 of packets of up   *)
(* to 296: the words are rounded up, the reservation is not.               *)
(*                                                                         *)
(* No length is checked, and a packet may be longer than its reservation.  *)
(* An uncompressed Sampled Values packet is: 589 bytes for the 300 of hp.  *)
(* In an empty pool only the size of the pool limits it.                   *)
(***************************************************************************)
PacketsFit ==
  /\ 4 * (Lead + SentWords) < FullPacketSize
  /\ Lead + LoneWords + MinUsage <= End - Start

Words == 0 .. SentWords \cup 0 .. LoneWords

VARIABLES
  ppc,     \* where the transmit server is with this pool
  dptr,    \* its write position
  left,    \* words of the packet it has still to copy
  end_ptr, \* end_ptr of the mii_commit under way
  unread,  \* history: packets mii_tx_pins has not started on
  held     \* history: packets sent or being sent, not yet passed to mii_free

txVars == <<ppc, dptr, left, end_ptr>>
vars == <<poolVars, txVars, unread, held>>

Init ==
  /\ PoolInit
  /\ ppc = "idle"
  /\ dptr = Start
  /\ left = 0
  /\ end_ptr = Start
  /\ unread = {}
  /\ held = {}

-----------------------------------------------------------------------------
(* Wrong versions of definitions below, for checking the properties. *)

\* A reservation that leaves out a word of the header.
SizeNeededOneWordShort ==
  FullPacketSize - 4 + (IF rdptr = Start THEN 4 * MinUsage ELSE 0)

\* A reservation that does not care where rdptr is.
SizeNeededAnywhere == FullPacketSize

\* A client that sends its next long packet before the last one was freed.
WordsSentAtAnyTime == Words

\* A packet sent is looked at again while it waits for its timestamp.
TxTakeAnyStage ==
  /\ rdptr # wrptr
  /\ unread' = unread \ {rdptr}
  /\ held' = held \cup {rdptr}
  /\ UNCHANGED <<poolVars, txVars>>

\* The last holder of a packet drops it without freeing it.
ReleaseForgotten(h) ==
  /\ h \in held
  /\ held' = held \ {h}
  /\ UNCHANGED <<poolVars, txVars, unread>>

-----------------------------------------------------------------------------
(* The producer: ethernet_tx_server. *)

SpaceLeft ==
  4 * (IF rdptr > wrptr THEN rdptr - wrptr ELSE rdptr - wrptr + (End - Start))

\* min_size of mii_reserve_at_least, MIN_USAGE larger when rdptr is at start.
SizeNeeded == FullPacketSize + (IF rdptr = Start THEN 4 * MinUsage ELSE 0)

HasRoom == SpaceLeft >= SizeNeeded

\* hdr->info and the fields of the packet.
LeadWords == (wrptr + 1) .. (wrptr + Lead - 1)

WriteLead ==
  \E j \in Junk : mem' = [a \in Addr |-> IF a \in LeadWords THEN j ELSE mem[a]]

\* How many words a client may send.  sv_send_frame, whose packets are longer than
\* what is reserved for them, is the one sender of its pool and waits for the time
\* of sending.  The server frees a packet as soon as it has told the time, before
\* it takes the next (TimedOneAtATime in TxServer), so the pool is empty by then.
WordsSent ==
  IF queued = {} THEN Words ELSE 0 .. SentWords

\* Both ports' pools have room; the client is told to send its packet.  The
\* reservation stores hdr->info.
TxReserve ==
  /\ ppc = "idle"
  /\ HasRoom
  /\ WriteLead
  /\ dptr' = wrptr + Lead
  /\ left' \in WordsSent
  /\ ppc' = "fill"
  /\ UNCHANGED <<rdptr, wrptr, rdptr_at_start, freeVars, queued,
                 end_ptr, unread, held>>

TxWord ==
  /\ ppc = "fill"
  /\ left > 0
  /\ \E j \in Junk : mem' = [mem EXCEPT ![dptr] = j]
  /\ dptr' = NextWord(dptr)
  /\ left' = left - 1
  /\ UNCHANGED <<rdptr, wrptr, rdptr_at_start, freeVars, queued,
                 ppc, end_ptr, unread, held>>

\* The packet was for the other port: the copy in this pool is dropped.
TxOtherPort ==
  /\ ppc = "fill"
  /\ left = 0
  /\ ppc' = "idle"
  /\ UNCHANGED <<poolVars, dptr, left, end_ptr, unread, held>>

\* The length and the timestamp id are stored and mii_commit is called, here up
\* to its decision.  When it gives the packet up nobody is told.
TxCommitTest ==
  /\ ppc = "fill"
  /\ left = 0
  /\ IF Discards(dptr)
       THEN ppc' = "idle" /\ UNCHANGED end_ptr
       ELSE ppc' = "link" /\ end_ptr' = EndPtr(dptr)
  /\ WriteLead
  /\ UNCHANGED <<rdptr, wrptr, rdptr_at_start, freeVars, queued,
                 dptr, left, unread, held>>

TxCommitLink ==
  /\ ppc = "link"
  /\ LinkPacket(end_ptr)
  /\ ppc' = "publish"
  /\ UNCHANGED <<rdptr, wrptr, rdptr_at_start, freeVars, queued,
                 dptr, left, end_ptr, unread, held>>

TxCommitPublish ==
  /\ ppc = "publish"
  /\ Publish(end_ptr)
  /\ unread' = unread \cup {wrptr}
  /\ ppc' = "idle"
  /\ UNCHANGED <<rdptr, rdptr_at_start, mem, freeVars, dptr, left, end_ptr, held>>

-----------------------------------------------------------------------------
(* mii_tx_pins, and the server when it answers a timestamp request. *)

\* mii_get_next_buf finds a packet, and it is one not sent before.
TxTake ==
  /\ rdptr # wrptr
  /\ rdptr \in unread
  /\ unread' = unread \ {rdptr}
  /\ held' = held \cup {rdptr}
  /\ UNCHANGED <<poolVars, txVars>>

Release(h) ==
  /\ h \in held
  /\ FreeStart(h)
  /\ held' = held \ {h}
  /\ UNCHANGED <<txVars, unread>>

Free ==
  /\ FreeStep
  /\ UNCHANGED <<txVars, unread, held>>

Next ==
  \/ TxReserve
  \/ TxWord
  \/ TxOtherPort
  \/ TxCommitTest
  \/ TxCommitLink
  \/ TxCommitPublish
  \/ TxTake
  \/ \E h \in held : Release(h)
  \/ Free

Spec == Init /\ [][Next]_vars

-----------------------------------------------------------------------------

TypeOK ==
  /\ PoolTypeOK
  /\ ppc \in {"idle", "fill", "link", "publish"}
  /\ dptr \in Addr
  /\ left \in Words
  /\ end_ptr \in HdrAddr
  /\ unread \subseteq HdrAddr
  /\ held \subseteq HdrAddr

(* The inductive invariant, part by part. *)

FlagOK == rdptr_at_start = (rdptr = Start)

\* Only the oldest packet is ever taken, so only it can be held or freed.
StatusOK ==
  /\ unread \subseteq queued
  /\ held \subseteq queued
  /\ unread \cap held = {}
  /\ queued \ {rdptr} \subseteq unread
  /\ \A h \in queued : mem[h] > 0

FreeOK ==
  /\ fpc = "idle" => fhdr = 0
  /\ fpc = "check" => fhdr = rdptr /\ rdptr \in queued \ (unread \cup held)
  /\ fpc # "check" => queued = unread \cup held
  /\ fpc \in {"testWrptr", "testNext"} => fhdr = rdptr
  /\ fpc = "testNext" => rdptr # wrptr

\* Words from d up to rdptr, along the circle.
WordsAhead(d) == IF d <= rdptr THEN rdptr - d ELSE rdptr - d + (End - Start)

ProducerOK ==
  /\ ppc = "fill" =>
       /\ \A x \in LeadWords : Between(wrptr, x, rdptr)
       /\ Between(wrptr, dptr, rdptr)
       /\ WordsAhead(dptr) > left
       /\ rdptr = Start => End - dptr >= left + MinUsage
  /\ ppc \in {"link", "publish"} => Between(wrptr, end_ptr, rdptr)
  /\ ppc = "publish" => mem[wrptr] = end_ptr

IInv ==
  /\ TypeOK
  /\ FlagOK
  /\ Chain(mem, queued, rdptr, wrptr)
  /\ StatusOK
  /\ FreeOK
  /\ ProducerOK

-----------------------------------------------------------------------------
(* Properties. *)

(* The pool looks empty (rdptr = wrptr) only when every packet was          *)
(* reclaimed.  mii_commit promises it: "if committing would cause the       *)
(* buffer to look empty (setting the wrptr to the same value as the rdptr)  *)
(* then discard".                                                           *)
EmptyOnlyWhenDrained == rdptr = wrptr => queued = {}

(* A packet for which room was reserved is never discarded by mii_commit,   *)
(* whose result the server does not look at: it would go on to mark a       *)
(* packet that is not queued, and a timed client would wait for ever.       *)
ReservationSuffices == ppc = "fill" /\ left = 0 => ~Discards(dptr)

(* The words the next step of the server may store into. *)
NextWrites ==
  CASE ppc = "idle" /\ HasRoom -> LeadWords
    [] ppc = "fill" /\ left > 0 -> {dptr}
    [] ppc = "fill" /\ left = 0 -> LeadWords
    [] ppc = "link" -> {wrptr}
    [] OTHER -> {}

(* The copy, which never looks at rdptr, does not reach a queued packet, nor *)
(* do the stores into the first words of a packet before and after it.      *)
NoOverwrite == \A h \in queued : NextWrites \cap Footprint(h) = {}

(* mii_tx_pins reads rdptr and wrptr with no lock; a header it finds is one *)
(* of a queued packet with its next pointer in place, even while the server *)
(* is inside mii_free.                                                      *)
HeadIsLinked == rdptr # wrptr => rdptr \in queued /\ mem[rdptr] > 0

(* Freeing packets in order never leaves one behind. *)
AllReclaimed == fpc = "idle" /\ unread = {} /\ held = {} => rdptr = wrptr

(* The threads that free and the thread that sends run on hardware threads  *)
(* of their own.                                                            *)
FairSpec == Spec /\ WF_vars(Free)

-----------------------------------------------------------------------------
(* The fifo the pool implements. *)

Fifo == FifoOf(queued, rdptr, unread, held)

PF == INSTANCE PacketFifo WITH Ids <- HdrAddr, fifo <- Fifo

(* A transmit pool is a fifo: packets are sent in the order they were       *)
(* committed and the room of a packet sent comes back.                      *)
ImplementsFifo == PF!Spec

=============================================================================
