------------------------------ MODULE FrameFlow -------------------------------
(***************************************************************************)
(* The way of a received packet through the MAC, from the commit of        *)
(* mii_rx_pins to the free that gives its memory back: the filter thread   *)
(* decides who it is for, the receive server puts it into the queues of    *)
(* those clients and marks it for the other port, and each of these        *)
(* holders uses it and counts it down; the one that finds the count at     *)
(* zero frees it.                                                          *)
(*                                                                         *)
(* mii_rx_pins, the filter, the server and a mii_tx_pins for each port run *)
(* at the same time and share the packets.  The pools appear here as the   *)
(* fifos that MiiRxPool implements, and the exchange with a client, which  *)
(* RxClientLink describes, as one step.                                    *)
(***************************************************************************)
EXTENDS Integers, Sequences, FiniteSets

CONSTANTS
  MaxPackets,   \* bound: the packets that arrive, numbered as they do
  Clients,      \* links of the receive server
  QueueSize,    \* packets a client's queue takes
  Forwarding,   \* is the build without DISABLE_ETHERNET_PORT_FORWARDING
  None          \* no packet, no filter result

Packets == 1 .. MaxPackets

ASSUME FlowAssumption ==
  /\ IsFiniteSet(Clients)
  /\ MaxPackets \in Nat
  /\ QueueSize \in Nat
  /\ Forwarding \in BOOLEAN
  /\ "port" \notin Clients /\ None \notin Packets

Ports == {0, 1}
Priorities == {"hp", "lp"}
Pools == Ports \X Priorities

\* What the filter may say of a packet: 0, or some bits, which meet the masks
\* of some clients and may include MII_FILTER_FORWARD_TO_OTHER_PORTS.
Results == [match : SUBSET Clients, forward : BOOLEAN]

\* What may be in the field before the filter writes it: an earlier packet's.
Stale == {None, [match |-> Clients, forward |-> TRUE]}

VARIABLES
  pool,       \* for each pool its packets, the oldest first
  stage,      \* fields of a packet: 0 until the filter is done with it,
  result,     \*   its filter_result, a member of Results or None for 0,
  forwarding, \*   is it waiting to be forwarded,
  tcount,     \*   the holders it has after the first,
  freed,      \*   was mii_free called for it
  seen,       \* packets the server's read pointers have passed
  spc,        \* "select": the server is at its select; "lp": between its pools
  queue,      \* fifo of each client in link_status
  tx,         \* for each port what its mii_tx_pins is sending,
  txpc,       \*   and where it is with that packet
  todo        \* history: the holders that have not used the packet yet

packetVars == <<stage, result, forwarding, tcount, freed>>
vars == <<pool, packetVars, seen, spc, queue, tx, txpc, todo>>

Init ==
  /\ pool = [q \in Pools |-> <<>>]
  /\ stage = [p \in Packets |-> 0]
  /\ result \in [Packets -> Stale]
  /\ forwarding = [p \in Packets |-> FALSE]
  /\ tcount = [p \in Packets |-> 0]
  /\ freed = [p \in Packets |-> FALSE]
  /\ seen = {}
  /\ spc = "select"
  /\ queue = [c \in Clients |-> <<>>]
  /\ tx = [i \in Ports |-> None]
  /\ txpc = [i \in Ports |-> "idle"]
  /\ todo = [p \in Packets |-> {}]

InSeq(p, s) == \E k \in DOMAIN s : s[k] = p

InPool(p) == \E q \in Pools : InSeq(p, pool[q])

\* s without the freed packets at its front.
Unfreed(s, fr) ==
  LET live == {k \in DOMAIN s : ~fr[s[k]]}
  IN  IF live = {} THEN <<>>
      ELSE SubSeq(s, CHOOSE k \in live : \A j \in live : k <= j, Len(s))

\* A wrong version of FreePacket: those freed behind p stay.
FreeOnlyThis(p) ==
  /\ freed' = [freed EXCEPT ![p] = TRUE]
  /\ pool' = [q \in Pools |-> IF pool[q] # <<>> /\ Head(pool[q]) = p THEN Tail(pool[q])
                                                                   ELSE pool[q]]

\* mii_free(p), as MiiRxPool describes it.
FreePacket(p) ==
  /\ freed' = [freed EXCEPT ![p] = TRUE]
  /\ pool' = [q \in Pools |-> Unfreed(pool[q], freed')]

-----------------------------------------------------------------------------
(* Wrong versions of definitions below, for checking the properties. *)

\* The count is of all holders, as if the last one did not free at zero.
LastHolder(holders) == Cardinality(holders)

\* Each holder frees the packet without counting it down.
GetAndDecAlwaysZero(p) == FreePacket(p) /\ UNCHANGED tcount

\* The count goes down whatever it is.
GetAndDecPastZero(p) ==
  /\ tcount' = [tcount EXCEPT ![p] = @ - 1]
  /\ IF tcount[p] = 0 THEN FreePacket(p) ELSE UNCHANGED <<freed, pool>>

\* The transmit thread does not clear the forwarding bits.
ClearNothing(i) ==
  /\ txpc[i] = "clear"
  /\ txpc' = [txpc EXCEPT ![i] = "count"]
  /\ UNCHANGED <<pool, packetVars, seen, spc, queue, tx, todo>>

\* The server does not wait for the filter.
ReadyUnfiltered(q) ==
  {k \in DOMAIN pool[q] : pool[q][k] \notin seen /\ \A j \in 1 .. (k - 1) : pool[q][j] \in seen}

-----------------------------------------------------------------------------
(* mii_rx_pins and the filter. *)

\* mii_commit: stage and forwarding are cleared, the rest is as it was.
Commit(q, p) ==
  /\ ~InPool(p) /\ p \notin seen
  /\ \A o \in 1 .. (p - 1) : InPool(o) \/ o \in seen
  /\ pool' = [pool EXCEPT ![q] = Append(@, p)]
  /\ UNCHANGED <<packetVars, seen, spc, queue, tx, txpc, todo>>

OfPort(i, p) == \E prio \in Priorities : InSeq(p, pool[<<i, prio>>])

\* ethernet_filter, in the order in which port i committed its packets.
Filter(i) ==
  \E p \in Packets :
    /\ OfPort(i, p) /\ stage[p] = 0
    /\ \A o \in 1 .. (p - 1) : OfPort(i, o) => stage[o] = 1
    /\ \E r \in Results \cup {None} : result' = [result EXCEPT ![p] = r]
    /\ stage' = [stage EXCEPT ![p] = 1]
    /\ UNCHANGED <<pool, forwarding, tcount, freed, seen, spc, queue, tx, txpc, todo>>

-----------------------------------------------------------------------------
(* The receive server. *)

\* The place of the server's next packet in pool q, if the filter is done with it.
Ready(q) ==
  {k \in DOMAIN pool[q] :
     /\ pool[q][k] \notin seen
     /\ \A j \in 1 .. (k - 1) : pool[q][j] \in seen
     /\ stage[pool[q][k]] = 1}

\* The clients that take p: it came from port 1, and there is room.
Takers(port, p) ==
  {c \in Clients : /\ result[p] # None /\ c \in result[p].match
                   /\ port = 1
                   /\ Len(queue[c]) < QueueSize}

Forwards(port, p) ==
  Forwarding /\ result[p] # None /\ (result[p].forward \/ port = 0)

Holders(port, p) == Takers(port, p) \cup (IF Forwards(port, p) THEN {"port"} ELSE {})

\* What mii_packet_set_tcount is told.
CountFor(holders) == Cardinality(holders) - 1

\* process_received_frame.
ProcessFrame(port, p) ==
  LET holders == Holders(port, p) IN
    /\ seen' = seen \cup {p}
    /\ queue' = [c \in Clients |-> IF c \in Takers(port, p) THEN Append(queue[c], p)
                                                            ELSE queue[c]]
    /\ IF holders = {}
         THEN FreePacket(p) /\ UNCHANGED <<forwarding, tcount, todo>>
         ELSE /\ forwarding' = [forwarding EXCEPT ![p] = @ \/ Forwards(port, p)]
              /\ tcount' = [tcount EXCEPT ![p] = CountFor(holders)]
              /\ todo' = [todo EXCEPT ![p] = holders]
              /\ UNCHANGED <<pool, freed>>
    /\ UNCHANGED <<stage, result, tx, txpc>>

\* One pass over the pools of a priority takes one packet, port 0 first.
Pass(prio) ==
  LET ready == {i \in Ports : Ready(<<i, prio>>) # {}} IN
    IF ready = {}
      THEN UNCHANGED <<pool, packetVars, seen, queue, tx, txpc, todo>>
      ELSE LET port == IF 0 \in ready THEN 0 ELSE 1
               k == CHOOSE k \in Ready(<<port, prio>>) : TRUE
           IN  ProcessFrame(port, pool[<<port, prio>>][k])

PassHp ==
  /\ spc = "select"
  /\ \E q \in Pools : Ready(q) # {}
  /\ Pass("hp")
  /\ spc' = "lp"

PassLp ==
  /\ spc = "lp"
  /\ Pass("lp")
  /\ spc' = "select"

\* get_and_dec_transmit_count; the holder that finds zero frees the packet.
GetAndDec(p) ==
  IF tcount[p] = 0
    THEN FreePacket(p) /\ UNCHANGED tcount
    ELSE /\ tcount' = [tcount EXCEPT ![p] = @ - 1]
         /\ UNCHANGED <<freed, pool>>

\* A client asked for its oldest packet.
SendToClient(c) ==
  /\ spc = "select"
  /\ queue[c] # <<>>
  /\ LET p == Head(queue[c]) IN
       /\ GetAndDec(p)
       /\ todo' = [todo EXCEPT ![p] = @ \ {c}]
  /\ queue' = [queue EXCEPT ![c] = Tail(@)]
  /\ UNCHANGED <<stage, result, forwarding, seen, spc, tx, txpc>>

-----------------------------------------------------------------------------
(* mii_tx_pins of port i, when it has nothing of its own to send. *)

\* The oldest packet of the other port's pool, if it is to be forwarded.
ToForward(i, prio) ==
  LET s == pool[<<1 - i, prio>>]
  IN  IF s # <<>> /\ forwarding[Head(s)] THEN {Head(s)} ELSE {}

TxStart(i) ==
  /\ txpc[i] = "idle"
  /\ \E p \in IF ToForward(i, "hp") # {} THEN ToForward(i, "hp") ELSE ToForward(i, "lp") :
       /\ stage[p] = 1
       /\ tx' = [tx EXCEPT ![i] = p]
  /\ txpc' = [txpc EXCEPT ![i] = "clear"]
  /\ UNCHANGED <<pool, packetVars, seen, spc, queue, todo>>

\* The packet is on the wire: the forwarding bits are cleared, all of them.
TxClear(i) ==
  /\ txpc[i] = "clear"
  /\ forwarding' = [forwarding EXCEPT ![tx[i]] = FALSE]
  /\ txpc' = [txpc EXCEPT ![i] = "count"]
  /\ UNCHANGED <<pool, stage, result, tcount, freed, seen, spc, queue, tx, todo>>

TxCount(i) ==
  /\ txpc[i] = "count"
  /\ GetAndDec(tx[i])
  /\ todo' = [todo EXCEPT ![tx[i]] = @ \ {"port"}]
  /\ tx' = [tx EXCEPT ![i] = None]
  /\ txpc' = [txpc EXCEPT ![i] = "idle"]
  /\ UNCHANGED <<stage, result, forwarding, seen, spc, queue>>

-----------------------------------------------------------------------------

Server == PassHp \/ PassLp

Transmit(i) == TxStart(i) \/ TxClear(i) \/ TxCount(i)

Next ==
  \/ \E q \in Pools, p \in Packets : Commit(q, p)
  \/ \E i \in Ports : Filter(i)
  \/ Server
  \/ \E c \in Clients : SendToClient(c)
  \/ \E i \in Ports : Transmit(i)

Spec == Init /\ [][Next]_vars

-----------------------------------------------------------------------------
(* Properties. *)

TypeOK ==
  /\ pool \in [Pools -> Seq(Packets)]
  /\ stage \in [Packets -> {0, 1}]
  /\ result \in [Packets -> Results \cup {None}]
  /\ forwarding \in [Packets -> BOOLEAN]
  /\ tcount \in [Packets -> Nat]
  /\ freed \in [Packets -> BOOLEAN]
  /\ seen \subseteq Packets
  /\ spc \in {"select", "lp"}
  /\ queue \in [Clients -> Seq(Packets)]
  /\ tx \in [Ports -> Packets \cup {None}]
  /\ txpc \in [Ports -> {"idle", "clear", "count"}]
  /\ todo \in [Packets -> SUBSET (Clients \cup {"port"})]

(* Who is holding p, told from the queues and the transmit threads. *)
HeldBy(p) ==
  {c \in Clients : InSeq(p, queue[c])}
    \cup IF forwarding[p] \/ \E i \in Ports : tx[i] = p THEN {"port"} ELSE {}

(* A packet that is in a client's queue, or marked for forwarding, or being *)
(* sent has not been freed: its memory is not written over by new packets.  *)
NoUseAfterFree ==
  \A p \in Packets : HeldBy(p) # {} => ~freed[p] /\ InPool(p)

(* The holders of a packet are those it was given to and that have not used *)
(* it; each uses it once, and one packet is never on both wires or twice on *)
(* one, although the forwarding bits are cleared after the packet was sent. *)
HeldOnce ==
  \A p \in Packets :
    /\ HeldBy(p) = todo[p]
    /\ \A c \in Clients : \A j, k \in DOMAIN queue[c] :
         queue[c][j] = p /\ queue[c][k] = p => j = k
    /\ \A i, j \in Ports : tx[i] = p /\ tx[j] = p => i = j

(* tcount is the number of holders less one while there are any.            *)
CountIsHolders ==
  \A p \in Packets : HeldBy(p) # {} => tcount[p] = Cardinality(HeldBy(p)) - 1

(* A packet that nobody will use any more was freed: the pools do not leak. *)
NoLeak == \A p \in seen : HeldBy(p) = {} => freed[p]

(* A packet is held only when the filter is done with it and let it pass,   *)
(* and a client only has packets that were matched for it: the result the   *)
(* server reads is never that of an earlier packet in the same memory.      *)
FilteredFirst ==
  \A p \in Packets : HeldBy(p) # {} =>
    /\ stage[p] = 1 /\ result[p] # None
    /\ \A c \in Clients : InSeq(p, queue[c]) => c \in result[p].match

\* A packet is at one place of one pool.
OncePooled ==
  \A q, r \in Pools : \A j \in DOMAIN pool[q], k \in DOMAIN pool[r] :
    pool[q][j] = pool[r][k] => q = r /\ j = k

\* Who is to use a packet is who is holding it, and has it once.
TodoIsHeld ==
  /\ \A p \in Packets, c \in Clients : c \in todo[p] <=> InSeq(p, queue[c])
  /\ \A p \in Packets :
       "port" \in todo[p] <=> forwarding[p] \/ \E i \in Ports : tx[i] = p
  /\ \A c \in Clients : \A j, k \in DOMAIN queue[c] :
       queue[c][j] = queue[c][k] => j = k

\* The count while there are holders; and who has none was freed.
TodoIsCounted ==
  \A p \in Packets :
    /\ todo[p] # {} => p \in seen /\ tcount[p] = Cardinality(todo[p]) - 1
    /\ freed[p] <=> p \in seen /\ todo[p] = {}

\* A packet the server passed stays in its pool until it is freed.
PooledUntilFreed == \A p \in seen : freed[p] \/ InPool(p)

\* The server gives out only what the filter let pass.
TodoIsFiltered ==
  \A p \in Packets : todo[p] # {} =>
    /\ stage[p] = 1 /\ result[p] # None
    /\ \A c \in Clients \cap todo[p] : c \in result[p].match

\* A transmit thread sends a packet of the other port, which no other thread
\* looks at, and its forwarding bits are set until they are cleared.
SendsForeign ==
  \A i \in Ports :
    /\ txpc[i] = "idle" <=> tx[i] = None
    /\ txpc[i] = "clear" => forwarding[tx[i]]
    /\ txpc[i] = "count" => ~forwarding[tx[i]]
    /\ tx[i] # None => \E prio \in Priorities : InSeq(tx[i], pool[<<1 - i, prio>>])

(* The inductive invariant: who is to use a packet, by the history of the   *)
(* server's decision, against the queues, the transmit threads, the count,  *)
(* the frees and the pools.                                                 *)
IInv ==
  /\ TypeOK
  /\ OncePooled
  /\ TodoIsHeld
  /\ TodoIsCounted
  /\ PooledUntilFreed
  /\ TodoIsFiltered
  /\ SendsForeign

(* The pools drain, the oldest packet first, though forwarding looks only   *)
(* at the oldest packet of a pool and waits behind one that a client has    *)
(* still to take.                                                           *)
EverythingReclaimed == \A p \in Packets : InPool(p) ~> ~InPool(p)

(* Every hardware thread keeps running; clients ask for the packets they    *)
(* are notified of, which RxClientLink shows them able to.  Packets come in *)
(* a burst and then stop.                                                   *)
FairSpec ==
  /\ Spec
  /\ WF_vars(Server)
  /\ \A i \in Ports : WF_vars(Filter(i))
  /\ \A c \in Clients : SF_vars(SendToClient(c))
  /\ \A i \in Ports : WF_vars(Transmit(i))

=============================================================================
