------------------------------- MODULE TxServer -------------------------------
(***************************************************************************)
(* Sending packets: the clients in ethernet_tx_client.xc, the thread       *)
(* ethernet_tx_server that copies their packets into the pools of the      *)
(* ports, a mii_tx_pins for each port that puts them on the wire, and the  *)
(* queue in which it returns those whose client waits for the time of      *)
(* sending.                                                                *)
(*                                                                         *)
(* The pools appear as the fifos that MiiTxPool implements.  How many      *)
(* packets fit depends on their sizes and on where the pool's pointers     *)
(* are: an empty pool has room for one, a pool of Depth packets has none,  *)
(* and between these a reservation may be refused.  A word or transaction  *)
(* on a channel blocks both ends until both are there, so each exchange is *)
(* one step of the client and the server together.  Packets forwarded from *)
(* the other port are the subject of FrameFlow.                            *)
(***************************************************************************)
EXTENDS Integers, Sequences, FiniteSets

CONSTANTS
  NumTx,        \* clients, num_tx
  Requests,     \* what each client asks for: some of AllRequests
  Depth,        \* packets a pool may hold
  Entries,      \* MAC_MAX_ENTRIES, the size of a timestamp queue's ring
  MaxRequests,  \* bound: requests of each client
  None

Clients == 1 .. NumTx
Ports == {0, 1}
Priorities == {"hp", "lp"}

\* mac_tx and mac_tx_timed, for each destination; mac_get_macaddr is None.
AllRequests ==
  [timed : BOOLEAN, prio : Priorities, to : {{0}, {1}, Ports}] \cup {None}

Packets ==
  [client : Clients, n : Nat, prio : Priorities, timed : BOOLEAN, stage : {1, 2}]

ASSUME TxAssumption ==
  /\ NumTx \in Nat \ {0}
  /\ Requests \in [Clients -> SUBSET AllRequests]
  /\ Depth \in Nat \ {0}
  /\ Entries \in Nat /\ Entries > Cardinality(Priorities)
  /\ MaxRequests \in [Clients -> Nat]
  /\ None \notin Packets

VARIABLES
  cpc,         \* a client: "idle", "command" (has one for the server), "transfer"
               \*   (of a packet), "stamp" (waits for the time of sending)
  request,     \* its latest request,
  asked,       \*   and how many there were
  spc,         \* the server: "serve" (its for loop), "commit", "select", "stamps"
               \*   (its last loop), "tell" (a client a time), "free"
  at,          \* the client or, in "stamps", the port its loop is at
  port,        \* port of the loop of "commit"
  enabled,     \* does its select hear client i
  pendingCmd,  \* has client i's command not been carried out
  held,        \* the packet whose time the server tells
  pool,        \* the packets in the pool of a port and priority, oldest first
  tsRing,      \* fifo, rdIndex and wrIndex of each timestamp queue
  txpc,        \* mii_tx_pins: "hp" and "lp" (looks at that pool), "send"
  tx,          \*   and the packet it sends
  wire,        \* history: what was sent
  overtaken    \* history: low priority packets that went before the waiting
               \*   high priority packet of a port

clientVars == <<cpc, request, asked>>
serverVars == <<spc, at, port, enabled, pendingCmd, held>>
pinVars == <<txpc, tx, wire, overtaken>>
vars == <<clientVars, serverVars, pool, tsRing, pinVars>>

Init ==
  /\ cpc = [c \in Clients |-> "idle"]
  /\ request = [c \in Clients |-> None]
  /\ asked = [c \in Clients |-> 0]
  /\ spc = "serve" /\ at = 1 /\ port = 0
  /\ enabled = [c \in Clients |-> TRUE]
  /\ pendingCmd = [c \in Clients |-> FALSE]
  /\ held = None
  /\ pool = [p \in Ports |-> [q \in Priorities |-> <<>>]]
  /\ tsRing = [p \in Ports |-> [fifo |-> [k \in 0 .. (Entries - 1) |-> None],
                                rdIndex |-> 0, wrIndex |-> 0]]
  /\ txpc = [p \in Ports |-> "hp"]
  /\ tx = [p \in Ports |-> None]
  /\ wire = {}
  /\ overtaken = [p \in Ports |-> 0]

\* A packet is the request it came from, and its stage: 1 to be sent, 2 sent.
Packet(c, stage) ==
  [client |-> c, n |-> asked[c], prio |-> request[c].prio, timed |-> request[c].timed,
   stage |-> stage]

-----------------------------------------------------------------------------
(* Wrong versions of definitions below, for checking the properties. *)

TimedAlways(c) == [Packet(c, 1) EXCEPT !.timed = TRUE]
TimedNever(c) == [Packet(c, 1) EXCEPT !.timed = FALSE]
SendAnyStage(pkt) == pkt.stage # 0
LowFirst(p) == "lp"
FreeForgotten(p, q) == UNCHANGED pool
EnabledAsBefore == enabled
NextEntryLast(k) == k + 1

-----------------------------------------------------------------------------
(* The packets. *)

\* What the server puts into the pools for client c; timestamp_id says if timed.
NewPacket(c) == Packet(c, 1)

\* mii_free of the packet at the head of a pool: no later one was taken.
FreeHead(p, q) == pool' = [pool EXCEPT ![p][q] = Tail(@)]

\* rdIndex++; rdIndex *= (rdIndex != MAC_MAX_ENTRIES), and so wrIndex.
NextEntry(k) == IF k + 1 = Entries THEN 0 ELSE k + 1

\* add_ts_queue_entry, which does not look whether the queue is full.
AddEntry(p, pkt) ==
  tsRing' = [tsRing EXCEPT ![p].fifo[tsRing[p].wrIndex] = pkt,
                           ![p].wrIndex = NextEntry(@)]

-----------------------------------------------------------------------------
(* The clients. *)

\* A call of mac_tx, mac_tx_timed or mac_get_macaddr.
Ask(c) ==
  /\ cpc[c] = "idle" /\ asked[c] < MaxRequests[c]
  /\ \E r \in Requests[c] : request' = [request EXCEPT ![c] = r]
  /\ asked' = [asked EXCEPT ![c] = @ + 1]
  /\ cpc' = [cpc EXCEPT ![c] = "command"]
  /\ UNCHANGED <<serverVars, pool, tsRing, pinVars>>

-----------------------------------------------------------------------------
(* ethernet_tx_server. *)

\* mii_reserve_at_least succeeds, as far as the packets in the pool tell.
MayReserve(p, q) == Len(pool[p][q]) < Depth
MustReserve(p, q) == pool[p][q] = <<>>

NextClient(c) ==
  IF c = NumTx THEN spc' = "select" /\ at' = 1
               ELSE spc' = "serve" /\ at' = c + 1

\* No command of client at, or no room for its packet in one of the ports.
ServeNone ==
  /\ spc = "serve"
  /\ pendingCmd[at] =>
       \E p \in Ports : ~MustReserve(p, request[at].prio)
  /\ NextClient(at)
  /\ UNCHANGED <<clientVars, port, enabled, pendingCmd, held, pool, tsRing, pinVars>>

\* Room in both ports, whatever the destination: get_packet_from_client.
ServeTransfer ==
  /\ spc = "serve" /\ pendingCmd[at]
  /\ \A p \in Ports : MayReserve(p, request[at].prio)
  /\ cpc[at] = "transfer"
  /\ cpc' = [cpc EXCEPT ![at] = IF request[at].timed THEN "stamp" ELSE "idle"]
  /\ spc' = "commit" /\ port' = 0
  /\ held' = [packet |-> NewPacket(at), to |-> request[at].to]
  /\ UNCHANGED <<request, asked, at, enabled, pendingCmd, pool, tsRing, pinVars>>

\* mii_commit and stage 1, for each port of the destination.
Commit ==
  /\ spc = "commit"
  /\ pool' = IF port \in held.to
               THEN [pool EXCEPT ![port][held.packet.prio] = Append(@, held.packet)]
               ELSE pool
  /\ IF port = 1
       THEN /\ NextClient(at)
            /\ enabled' = [enabled EXCEPT ![at] = FALSE]
            /\ pendingCmd' = [pendingCmd EXCEPT ![at] = FALSE]
            /\ held' = None /\ port' = 0
       ELSE port' = port + 1 /\ UNCHANGED <<spc, at, enabled, pendingCmd, held>>
  /\ UNCHANGED <<clientVars, tsRing, pinVars>>

Heard == {c \in Clients : enabled[c] /\ cpc[c] = "command"}

\* A command of client c: for a packet it is noted, the address is sent at once.
SelectCommand(c) ==
  /\ spc = "select" /\ c \in Heard
  /\ pendingCmd' = [pendingCmd EXCEPT ![c] = request[c] # None]
  /\ cpc' = [cpc EXCEPT ![c] = IF request[c] # None THEN "transfer" ELSE "idle"]
  /\ spc' = "stamps" /\ at' = 0
  /\ UNCHANGED <<request, asked, port, enabled, held, pool, tsRing, pinVars>>

\* The clients heard next time, when there was no event.
EnabledNext == [c \in Clients |-> TRUE]

SelectDefault ==
  /\ spc = "select" /\ Heard = {}
  /\ enabled' = EnabledNext
  /\ spc' = "stamps" /\ at' = 0
  /\ UNCHANGED <<clientVars, port, pendingCmd, held, pool, tsRing, pinVars>>

\* The time to look at the links has come.
SelectLinkCheck ==
  /\ spc = "select"
  /\ spc' = "stamps" /\ at' = 0
  /\ UNCHANGED <<clientVars, port, enabled, pendingCmd, held, pool, tsRing, pinVars>>

NextPort(p) ==
  IF p = 1 THEN spc' = "serve" /\ at' = 1
           ELSE spc' = "stamps" /\ at' = p + 1

\* get_ts_queue_entry of port at.
GetEntry ==
  /\ spc = "stamps"
  /\ LET r == tsRing[at] IN
       IF r.rdIndex = r.wrIndex
         THEN NextPort(at) /\ UNCHANGED <<held, tsRing>>
         ELSE /\ held' = r.fifo[r.rdIndex]
              /\ tsRing' = [tsRing EXCEPT ![at].rdIndex = NextEntry(@)]
              /\ spc' = "tell" /\ UNCHANGED at
  /\ UNCHANGED <<clientVars, port, enabled, pendingCmd, pool, pinVars>>

\* The server waits until the client named in the packet takes the time.
Tell ==
  /\ spc = "tell"
  /\ cpc[held.client] = "stamp"
  /\ cpc' = [cpc EXCEPT ![held.client] = "idle"]
  /\ spc' = "free"
  /\ UNCHANGED <<request, asked, at, port, enabled, pendingCmd, held, pool, tsRing, pinVars>>

FreeTold ==
  /\ spc = "free"
  /\ FreeHead(at, held.prio)
  /\ held' = None
  /\ NextPort(at)
  /\ UNCHANGED <<clientVars, port, enabled, pendingCmd, tsRing, pinVars>>

-----------------------------------------------------------------------------
(* mii_tx_pins of port p. *)

Sendable(pkt) == pkt.stage = 1

Waiting(p, q) == pool[p][q] # <<>> /\ Sendable(Head(pool[p][q]))

\* After a packet, or when there was none.
LookAgain(p) == "hp"

\* Only the oldest packet of a pool is looked at.
Look(p, q) ==
  /\ txpc[p] = q
  /\ IF Waiting(p, q)
       THEN /\ tx' = [tx EXCEPT ![p] = Head(pool[p][q])]
            /\ txpc' = [txpc EXCEPT ![p] = "send"]
            /\ overtaken' = [overtaken EXCEPT ![p] =
                               IF q = "lp" /\ Waiting(p, "hp") THEN @ + 1 ELSE 0]
       ELSE /\ txpc' = [txpc EXCEPT ![p] = IF q = "hp" THEN "lp" ELSE LookAgain(p)]
            /\ UNCHANGED <<tx, overtaken>>
  /\ UNCHANGED <<clientVars, serverVars, pool, tsRing, wire>>

\* The packet was sent: its client wants the time, or it is freed.
Sent(p) ==
  /\ txpc[p] = "send"
  /\ LET pkt == tx[p]
         sent == [pkt EXCEPT !.stage = 2]
     IN  /\ IF pkt.timed
              THEN /\ pool' = [pool EXCEPT ![p][pkt.prio] = <<sent>> \o Tail(@)]
                   /\ AddEntry(p, sent)
              ELSE FreeHead(p, pkt.prio) /\ UNCHANGED tsRing
         /\ wire' = wire \cup {[port |-> p, packet |-> pkt]}
  /\ tx' = [tx EXCEPT ![p] = None]
  /\ txpc' = [txpc EXCEPT ![p] = LookAgain(p)]
  /\ UNCHANGED <<clientVars, serverVars, overtaken>>

-----------------------------------------------------------------------------

Serve == ServeNone \/ ServeTransfer \/ Commit

Stamps == GetEntry \/ Tell \/ FreeTold

Pins(p) == Sent(p) \/ \E q \in Priorities : Look(p, q)

Next ==
  \/ \E c \in Clients : Ask(c) \/ SelectCommand(c)
  \/ Serve
  \/ SelectDefault
  \/ SelectLinkCheck
  \/ Stamps
  \/ \E p \in Ports : Pins(p)

Spec == Init /\ [][Next]_vars

-----------------------------------------------------------------------------
(* Properties. *)

TypeOK ==
  /\ cpc \in [Clients -> {"idle", "command", "transfer", "stamp"}]
  /\ request \in [Clients -> AllRequests]
  /\ asked \in [Clients -> Nat]
  /\ spc \in {"serve", "commit", "select", "stamps", "tell", "free"}
  /\ at \in Clients \cup Ports /\ port \in Ports
  /\ enabled \in [Clients -> BOOLEAN] /\ pendingCmd \in [Clients -> BOOLEAN]
  /\ spc \in {"tell", "free"} => held \in Packets
  /\ pool \in [Ports -> [Priorities -> Seq(Packets)]]
  /\ tsRing \in [Ports -> [fifo : [0 .. (Entries - 1) -> Packets \cup {None}],
                          rdIndex : 0 .. (Entries - 1), wrIndex : 0 .. (Entries - 1)]]
  /\ txpc \in [Ports -> {"hp", "lp", "send"}] /\ tx \in [Ports -> Packets \cup {None}]
  /\ wire \subseteq [port : Ports, packet : Packets]
  /\ overtaken \in [Ports -> Nat]

(* The time the server is about to send on a channel is that of the packet  *)
(* which the client at its other end waits for, so the server does not wait *)
(* for ever in its last loop, and mac_tx_timed returns the time of its own  *)
(* packet.                                                                  *)
StampIsAwaited ==
  spc = "tell" => cpc[held.client] = "stamp" /\ held.n = asked[held.client]

\* Where the entries are, from rdIndex to before wrIndex.
Entered(p) ==
  LET r == tsRing[p] IN
    {k \in 0 .. (Entries - 1) :
       IF r.rdIndex <= r.wrIndex THEN r.rdIndex <= k /\ k < r.wrIndex
                                 ELSE r.rdIndex <= k \/ k < r.wrIndex}

SentPackets(p) ==
  UNION {{pkt \in {pool[p][q][k] : k \in DOMAIN pool[p][q]} : pkt.stage = 2} : q \in Priorities}

\* The server has taken the packet out of the queue of port p.
Telling(p) == spc \in {"tell", "free"} /\ at = p

(* The entries of a timestamp queue are the packets of that port that were  *)
(* sent and whose client has not been told, each once: add_ts_queue_entry,  *)
(* which does not look for room, never overwrites one, as a sent packet     *)
(* keeps those behind it in its pool from being sent.  What is being sent,  *)
(* and what is freed after its client was told, is the oldest of its pool:  *)
(* the free never removes a packet from behind another.                     *)
RingHoldsSent ==
  \A p \in Ports :
    /\ \A j, k \in Entered(p) : tsRing[p].fifo[j] = tsRing[p].fifo[k] => j = k
    /\ {tsRing[p].fifo[k] : k \in Entered(p)} \cup (IF Telling(p) THEN {held} ELSE {}) =
         SentPackets(p)
    /\ tx[p] # None =>
         pool[p][tx[p].prio] # <<>> /\ Head(pool[p][tx[p].prio]) = tx[p]
    /\ Telling(p) => pool[p][held.prio] # <<>> /\ Head(pool[p][held.prio]) = held

(* A packet goes out once on each port, and a client's packets of one       *)
(* priority go out in the order in which it asked, though the head of a     *)
(* pool remains there after it was sent.                                    *)
SentOnceInOrder ==
  \A p \in Ports : tx[p] # None =>
    \A w \in wire : w.port = p /\ w.packet.client = tx[p].client
                   /\ w.packet.prio = tx[p].prio => w.packet.n < tx[p].n

(* When the server carries out a command of a client whose last packet was  *)
(* a timed one, that packet has left the pools: a client that only sends    *)
(* timed packets, as sv_send_frame does, has one packet in them at a time.  *)
TimedOneAtATime ==
  \A c \in Clients, p \in Ports, q \in Priorities : \A k \in DOMAIN pool[p][q] :
    LET pkt == pool[p][q][k] IN
      pkt.client = c /\ pkt.timed =>
        \/ pkt.n = asked[c] /\ cpc[c] = "stamp"
        \/ spc = "free" /\ held = pkt

(* While the oldest high priority packet of a port waits to be sent, at     *)
(* most one low priority packet is begun: the one the transmit thread came  *)
(* to after it had found the high priority pool without a packet to send.   *)
OvertakenOnce == \A p \in Ports : overtaken[p] <= 1

-----------------------------------------------------------------------------
(* What the proofs need besides. *)

\* What the server has in hand, and for whom.
ServerHolds ==
  /\ spc \in {"serve", "commit"} => at \in Clients
  /\ spc \in {"stamps", "tell", "free"} => at \in Ports
  /\ spc = "commit" => /\ held \in [packet : Packets, to : SUBSET Ports]
                       /\ held.packet.client = at /\ held.packet.stage = 1
  /\ \A p \in Ports : Telling(p) =>
       /\ held.stage = 2
       /\ pool[p][held.prio] # <<>> /\ Head(pool[p][held.prio]) = held
  /\ \A c \in Clients :
       /\ cpc[c] \in {"transfer", "stamp"} => request[c] # None
       /\ request[c] \in Requests[c] \cup {None}

\* A pool has packets of its priority, those of a client in the order it asked,
\* and one that was sent remains only as the oldest, if its client wants the time.
PoolsInOrder ==
  \A p \in Ports, q \in Priorities : \A k \in DOMAIN pool[p][q] :
    /\ pool[p][q][k].prio = q
    /\ pool[p][q][k].stage = 2 => k = 1 /\ pool[p][q][k].timed
    /\ \A j \in DOMAIN pool[p][q] :
         j < k /\ pool[p][q][j].client = pool[p][q][k].client =>
           pool[p][q][j].n < pool[p][q][k].n

\* A transmit thread sends the oldest packet of a pool.
PinsSendHead ==
  \A p \in Ports :
    /\ txpc[p] = "send" <=> tx[p] # None
    /\ tx[p] # None => /\ Waiting(p, tx[p].prio)
                       /\ tx[p] = Head(pool[p][tx[p].prio])

\* The call for the packet was made, and its client is past handing it over.
Issued(pkt) ==
  IF cpc[pkt.client] \in {"command", "transfer"} THEN pkt.n < asked[pkt.client]
                                                 ELSE pkt.n <= asked[pkt.client]

AllIssued ==
  /\ \A p \in Ports, q \in Priorities : \A k \in DOMAIN pool[p][q] : Issued(pool[p][q][k])
  /\ \A w \in wire : Issued(w.packet)
  /\ spc = "commit" => Issued(held.packet)

\* Port p has had its copy of the packet the server commits.
Committed(p) == p < port /\ p \in held.to

\* What its client sent before is older, in the pools and on the wire.
CommitsNewest ==
  spc = "commit" => \A p \in Ports : Committed(p) \/
    /\ \A q \in Priorities : \A k \in DOMAIN pool[p][q] :
         pool[p][q][k].client = at => pool[p][q][k].n < held.packet.n
    /\ \A w \in wire :
         w.port = p /\ w.packet.client = at => w.packet.n < held.packet.n

\* What is yet to be sent is newer than what was.
WireIsOlder ==
  \A p \in Ports, q \in Priorities : \A k \in DOMAIN pool[p][q], w \in wire :
    /\ w.port = p /\ w.packet.prio = q /\ w.packet.client = pool[p][q][k].client
    /\ pool[p][q][k].stage = 1
    => w.packet.n < pool[p][q][k].n

\* The client of the packet at the head of a pool has to be told, and the server
\* has not begun to.
Untold(p, q) ==
  /\ pool[p][q] # <<>> /\ Head(pool[p][q]).stage = 2
  /\ ~(Telling(p) /\ held.prio = q)

\* The ring has none, one or two entries: at most one of each pool of its port.
RingOfHeads ==
  \A p \in Ports :
    LET r == tsRing[p]
        second == NextEntry(r.rdIndex)
    IN  \/ /\ r.wrIndex = r.rdIndex
           /\ \A q \in Priorities : ~Untold(p, q)
        \/ /\ r.wrIndex = second
           /\ \E q \in Priorities :
                /\ Untold(p, q) /\ r.fifo[r.rdIndex] = Head(pool[p][q])
                /\ \A o \in Priorities : Untold(p, o) => o = q
        \/ /\ r.wrIndex = NextEntry(second)
           /\ \E q, o \in Priorities :
                /\ q # o /\ Untold(p, q) /\ Untold(p, o)
                /\ r.fifo[r.rdIndex] = Head(pool[p][q])
                /\ r.fifo[second] = Head(pool[p][o])

\* Once overtaken, a packet still waits, and the thread comes to it next.
OvertakenIsNext ==
  \A p \in Ports :
    /\ overtaken[p] <= 1
    /\ overtaken[p] = 1 => /\ Waiting(p, "hp")
                           /\ \/ txpc[p] = "hp"
                              \/ txpc[p] = "send" /\ tx[p].prio = "lp"

(* The inductive invariant: the packets of a client are in every pool, on   *)
(* the wire and in the server's hand in the order of its calls, and the     *)
(* ring has the heads of the pools that were sent and whose clients were    *)
(* not told.                                                                *)
IInv ==
  /\ TypeOK
  /\ ServerHolds
  /\ PoolsInOrder
  /\ PinsSendHead
  /\ AllIssued
  /\ CommitsNewest
  /\ WireIsOlder
  /\ RingOfHeads
  /\ OvertakenIsNext

\* No client asks for the time of a packet to both ports: it would come twice.
NoTimedBroadcast ==
  \A c \in Clients : \A r \in Requests[c] : r # None /\ r.timed => r.to # Ports

\* Until a timed packet is in its pool, its client waits.
CommitAwaited ==
  spc = "commit" /\ held.packet.timed =>
    /\ cpc[at] = "stamp" /\ held.packet.n = asked[at]
    /\ held.to # Ports

\* A timed packet is in one place of one pool.
TimedOncePooled ==
  \A p, pp \in Ports, q, qq \in Priorities :
    \A k \in DOMAIN pool[p][q], kk \in DOMAIN pool[pp][qq] :
      /\ pool[p][q][k].timed /\ pool[pp][qq][kk].timed
      /\ pool[p][q][k].client = pool[pp][qq][kk].client
      /\ pool[p][q][k].n = pool[pp][qq][kk].n
      => p = pp /\ q = qq /\ k = kk

(* With NoTimedBroadcast this is inductive, too. *)
TimedInv ==
  /\ IInv
  /\ CommitAwaited
  /\ TimedOncePooled
  /\ TimedOneAtATime

(* Every call returns: mac_tx when the packet is in the pools, mac_tx_timed *)
(* when it was sent and the time came back.                                 *)
CallsReturn == \A c \in Clients : cpc[c] # "idle" ~> cpc[c] = "idle"

(* Every packet leaves the pools.                                           *)
PoolsDrain ==
  \A p \in Ports, q \in Priorities : pool[p][q] # <<>> ~> pool[p][q] = <<>>

(* The server and the transmit threads run for ever.  The link timer comes  *)
(* so rarely that the other alternatives of the select are not kept out by  *)
(* it, and a command that is heard again and again is taken.                *)
FairSpec ==
  /\ Spec
  /\ WF_vars(Serve) /\ WF_vars(Stamps)
  /\ WF_vars(SelectLinkCheck)
  /\ SF_vars(SelectDefault)
  /\ \A c \in Clients : SF_vars(SelectCommand(c))
  /\ \A p \in Ports : WF_vars(Pins(p))

=============================================================================
