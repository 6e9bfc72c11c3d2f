--------------------------- MODULE TxServer_proofs ---------------------------
(***************************************************************************)
(* The ring of a timestamp queue holds the sent packets that are due their *)
(* client, packets are sent once and in order, and one of high priority is *)
(* overtaken once, for any number of clients and any requests; and if none *)
(* asks for the time of a packet to both ports, every time told is awaited.*)
(***************************************************************************)
EXTENDS TxServer, FiniteSetTheorems, TLAPS

-----------------------------------------------------------------------------
(* Constants and types. *)

LEMMA TwoPriorities == Entries \in Nat /\ Entries > 2
<1>1. Cardinality(Priorities) = 2
  <2>1. IsFiniteSet({}) /\ Cardinality({}) = 0
    BY FS_EmptySet
  <2>2. IsFiniteSet({"hp"}) /\ Cardinality({"hp"}) = 1
    BY FS_Singleton
  <2>3. {"hp"} \cup {"lp"} = Priorities /\ "lp" \notin {"hp"}
    BY DEF Priorities
  <2> QED  BY <2>2, <2>3, FS_AddElement
<1> QED  BY <1>1, TxAssumption

(* The ring has room for three entries before it comes round. *)
LEMMA NextEntryIsNext ==
  ASSUME NEW k \in 0 .. Entries - 1
  PROVE  /\ NextEntry(k) \in 0 .. Entries - 1
         /\ NextEntry(k) # k
         /\ NextEntry(NextEntry(k)) \in 0 .. Entries - 1
         /\ NextEntry(NextEntry(k)) # k
         /\ NextEntry(NextEntry(k)) # NextEntry(k)
         /\ NextEntry(NextEntry(NextEntry(k))) \in 0 .. Entries - 1
  BY TwoPriorities DEF NextEntry

LEMMA PoolIsSequence ==
  ASSUME TypeOK, NEW p \in Ports, NEW q \in Priorities
  PROVE  /\ pool[p][q] \in Seq(Packets)
         /\ Len(pool[p][q]) \in Nat
         /\ DOMAIN pool[p][q] = 1 .. Len(pool[p][q])
         /\ \A k \in DOMAIN pool[p][q] : pool[p][q][k] \in Packets
         /\ pool[p][q] # <<>> => 1 \in DOMAIN pool[p][q] /\ Head(pool[p][q]) = pool[p][q][1]
  BY DEF TypeOK

LEMMA PacketFields ==
  ASSUME NEW pkt \in Packets
  PROVE  /\ pkt.client \in Clients /\ pkt.n \in Nat /\ pkt.prio \in Priorities
         /\ pkt.timed \in BOOLEAN /\ pkt.stage \in {1, 2}
  BY DEF Packets

LEMMA NewPacketFields ==
  ASSUME TypeOK, NEW c \in Clients, request[c] # None
  PROVE  /\ NewPacket(c) \in Packets
         /\ NewPacket(c).client = c /\ NewPacket(c).n = asked[c]
         /\ NewPacket(c).timed = request[c].timed /\ NewPacket(c).stage = 1
         /\ request[c].to \in {{0}, {1}, Ports} /\ request[c].timed \in BOOLEAN
<1>1. request[c] \in [timed : BOOLEAN, prio : Priorities, to : {{0}, {1}, Ports}]
  BY DEF TypeOK, AllRequests
<1>2. asked[c] \in Nat
  BY DEF TypeOK
<1> QED  BY <1>1, <1>2 DEF NewPacket, Packet, Packets

(* The loop of the server over the clients stays among them. *)
LEMMA NextClientIsClient ==
  ASSUME NEW c \in Clients, NextClient(c)
  PROVE  /\ spc' \in {"select", "serve"}
         /\ at' \in Clients
  BY TxAssumption DEF NextClient, Clients

LEMMA NextPortIsPort ==
  ASSUME NEW p \in Ports, NextPort(p)
  PROVE  /\ at' \in Clients \cup Ports
         /\ (spc' = "serve" /\ at' \in Clients) \/ (spc' = "stamps" /\ at' \in Ports)
  BY TxAssumption DEF NextPort, Clients, Ports

-----------------------------------------------------------------------------
(* What a step does not touch. *)

LEMMA PoolsStay ==
  ASSUME IInv, UNCHANGED pool
  PROVE  PoolsInOrder'
  BY DEF IInv, PoolsInOrder

LEMMA PinsStay ==
  ASSUME IInv, UNCHANGED <<pool, txpc, tx>>
  PROVE  PinsSendHead'
  BY DEF IInv, PinsSendHead, Waiting, Sendable

LEMMA WireStays ==
  ASSUME IInv, UNCHANGED <<pool, wire>>
  PROVE  WireIsOlder'
  BY DEF IInv, WireIsOlder

LEMMA OvertakenStays ==
  ASSUME IInv, UNCHANGED <<pool, pinVars>>
  PROVE  OvertakenIsNext'
  BY DEF IInv, OvertakenIsNext, Waiting, Sendable, pinVars

LEMMA RingStays ==
  ASSUME IInv, UNCHANGED <<pool, tsRing>>,
         \A p \in Ports : Telling(p)' <=> Telling(p),
         \A p \in Ports : Telling(p) => held' = held
  PROVE  RingOfHeads'
<1>1. \A p \in Ports, q \in Priorities : Untold(p, q)' <=> Untold(p, q)
  BY DEF Untold
<1>2. \A p \in Ports : tsRing'[p] = tsRing[p]
  OBVIOUS
<1>3. \A k : NextEntry(k)' = NextEntry(k)
  BY DEF NextEntry
<1> QED  BY <1>1, <1>2 DEF IInv, RingOfHeads, NextEntry

LEMMA IssuedStays ==
  ASSUME IInv, UNCHANGED <<pool, wire>>,
         spc' = "commit" => spc = "commit" /\ held' = held,
         \A pkt \in Packets : Issued(pkt) => Issued(pkt)'
  PROVE  AllIssued'
<1>1. \A p \in Ports, q \in Priorities : \A k \in DOMAIN pool[p][q] : pool[p][q][k] \in Packets
  BY PoolIsSequence DEF IInv
<1>2. \A w \in wire : w.packet \in Packets
  BY DEF IInv, TypeOK
<1>3. spc = "commit" => held.packet \in Packets
  BY DEF IInv, ServerHolds
<1>4. \A p \in Ports, q \in Priorities : \A k \in DOMAIN pool'[p][q] : Issued(pool[p][q][k])'
  BY <1>1 DEF IInv, AllIssued, Issued
<1>5. \A w \in wire' : Issued(w.packet)'
  BY <1>2 DEF IInv, AllIssued, Issued
<1>6. spc' = "commit" => Issued(held.packet)'
  BY <1>3 DEF IInv, AllIssued, Issued
<1> QED  BY <1>4, <1>5, <1>6 DEF AllIssued

(* A step of the server outside its commits and its last loop. *)
LEMMA ServerMoves ==
  ASSUME IInv, UNCHANGED <<pool, tsRing, pinVars>>,
         \A p \in Ports : ~Telling(p) /\ ~Telling(p)'
  PROVE  PoolsInOrder' /\ PinsSendHead' /\ WireIsOlder' /\ RingOfHeads' /\ OvertakenIsNext'
<1>1. UNCHANGED <<pool, txpc, tx, wire>>
  BY DEF pinVars
<1> QED  BY <1>1, PoolsStay, PinsStay, WireStays, OvertakenStays, RingStays

LEMMA InitIInv == Init => IInv
<1> SUFFICES ASSUME Init PROVE IInv
  OBVIOUS
<1>1. 1 \in Clients
  BY TxAssumption DEF Clients
<1>2. 0 \in 0 .. Entries - 1
  BY TwoPriorities
<1>3. \A p \in Ports, q \in Priorities : pool[p][q] = <<>>
  BY DEF Init
<1>4. \A p \in Ports, q \in Priorities : DOMAIN pool[p][q] = {}
  BY <1>3
<1>5. TypeOK
  <2>1. pool \in [Ports -> [Priorities -> Seq(Packets)]]
    BY DEF Init
  <2>2. tsRing \in [Ports -> [fifo : [0 .. (Entries - 1) -> Packets \cup {None}],
                          rdIndex : 0 .. (Entries - 1), wrIndex : 0 .. (Entries - 1)]]
    BY <1>2 DEF Init
  <2>3. wire \subseteq [port : Ports, packet : Packets]
    BY DEF Init
  <2> QED  BY <1>1, <2>1, <2>2, <2>3 DEF Init, TypeOK, AllRequests, Ports
<1>6. ServerHolds
  BY <1>1 DEF Init, ServerHolds, Telling
<1>7. PoolsInOrder /\ PinsSendHead /\ AllIssued /\ CommitsNewest /\ WireIsOlder
  BY <1>3, <1>4 DEF Init, PoolsInOrder, PinsSendHead, AllIssued, CommitsNewest, WireIsOlder
<1>8. RingOfHeads
  BY <1>3 DEF Init, RingOfHeads, Untold
<1>9. OvertakenIsNext
  BY DEF Init, OvertakenIsNext
<1> QED  BY <1>5, <1>6, <1>7, <1>8, <1>9 DEF IInv

-----------------------------------------------------------------------------
(* The steps of the clients and of the server's first loops. *)

LEMMA AskStep ==
  ASSUME IInv, NEW c \in Clients, Ask(c)
  PROVE  IInv'
<1>1. /\ cpc[c] = "idle"
      /\ cpc' = [cpc EXCEPT ![c] = "command"]
      /\ asked' = [asked EXCEPT ![c] = @ + 1]
      /\ UNCHANGED <<serverVars, pool, tsRing, pinVars>>
  BY DEF Ask
<1>2. PICK r \in Requests[c] : request' = [request EXCEPT ![c] = r]
  BY DEF Ask
<1>3. r \in AllRequests
  BY TxAssumption
<1>4. UNCHANGED <<spc, at, port, enabled, pendingCmd, held, txpc, tx, wire, overtaken>>
  BY <1>1 DEF serverVars, pinVars
<1>5. TypeOK'
  BY <1>1, <1>2, <1>3, <1>4 DEF IInv, TypeOK
<1>6. ServerHolds'
  BY <1>1, <1>2, <1>4 DEF IInv, TypeOK, ServerHolds, Telling
<1>7. AllIssued'
  <2>1. \A pkt \in Packets : Issued(pkt) => Issued(pkt)'
    BY <1>1, PacketFields DEF Issued, IInv, TypeOK
  <2> QED  BY <1>1, <1>4, <2>1, IssuedStays
<1>8. CommitsNewest'
  BY <1>1, <1>4 DEF IInv, CommitsNewest, Committed
<1>9. RingOfHeads'
  BY <1>1, <1>4, RingStays DEF Telling
<1> QED  BY <1>1, <1>4, <1>5, <1>6, <1>7, <1>8, <1>9, PoolsStay, PinsStay, WireStays,
            OvertakenStays DEF IInv

LEMMA ServeNoneStep ==
  ASSUME IInv, ServeNone
  PROVE  IInv'
<1>1. /\ spc = "serve" /\ NextClient(at)
      /\ UNCHANGED <<cpc, request, asked, port, enabled, pendingCmd, held, pool, tsRing, pinVars>>
  BY DEF ServeNone, clientVars
<1>2. UNCHANGED <<txpc, tx, wire, overtaken>>
  BY <1>1 DEF pinVars
<1>3. spc' \in {"select", "serve"} /\ at' \in Clients
  BY <1>1, NextClientIsClient DEF IInv, ServerHolds
<1>4. TypeOK'
  BY <1>1, <1>2, <1>3 DEF IInv, TypeOK
<1>5. ServerHolds'
  BY <1>1, <1>3 DEF IInv, ServerHolds, Telling
<1>6. AllIssued'
  BY <1>1, <1>2, <1>3, IssuedStays DEF Issued
<1>7. CommitsNewest'
  BY <1>3 DEF CommitsNewest
<1> QED  BY <1>1, <1>3, <1>4, <1>5, <1>6, <1>7, ServerMoves DEF IInv, Telling

LEMMA ServeTransferStep ==
  ASSUME IInv, ServeTransfer
  PROVE  IInv'
<1>1. /\ spc = "serve" /\ cpc[at] = "transfer"
      /\ cpc' = [cpc EXCEPT ![at] = IF request[at].timed THEN "stamp" ELSE "idle"]
      /\ spc' = "commit" /\ port' = 0
      /\ held' = [packet |-> NewPacket(at), to |-> request[at].to]
      /\ UNCHANGED <<request, asked, at, enabled, pendingCmd, pool, tsRing, pinVars>>
  BY DEF ServeTransfer
<1>2. UNCHANGED <<txpc, tx, wire, overtaken>>
  BY <1>1 DEF pinVars
<1>3. at \in Clients /\ request[at] # None
  BY <1>1 DEF IInv, ServerHolds
<1> DEFINE pkt == NewPacket(at)
<1>4. /\ pkt \in Packets
      /\ pkt.client = at /\ pkt.n = asked[at] /\ pkt.stage = 1
      /\ request[at].to \in SUBSET Ports /\ request[at].timed \in BOOLEAN
  BY <1>3, NewPacketFields DEF IInv, Ports
<1> HIDE DEF pkt
<1>5. held'.packet = pkt /\ held'.to = request[at].to
  BY <1>1 DEF pkt
<1>6. TypeOK'
  BY <1>1, <1>2, <1>3 DEF IInv, TypeOK, Ports
<1>7. ServerHolds'
  <2>1. held' \in [packet : Packets, to : SUBSET Ports]
    BY <1>1, <1>4 DEF pkt
  <2> QED  BY <1>1, <1>3, <1>4, <1>5, <2>1 DEF IInv, TypeOK, ServerHolds, Telling
<1>8. \A o \in Packets : Issued(o) => Issued(o)' /\ (o.client = at => o.n < asked[at])
  BY <1>1, <1>3, PacketFields DEF Issued, IInv, TypeOK
<1>9. /\ \A p \in Ports, q \in Priorities : \A k \in DOMAIN pool[p][q] :
           pool[p][q][k] \in Packets /\ Issued(pool[p][q][k])
      /\ \A w \in wire : w.packet \in Packets /\ Issued(w.packet)
  BY PoolIsSequence DEF IInv, TypeOK, AllIssued
<1>10. AllIssued'
  <2>1. cpc'[at] \in {"stamp", "idle"} /\ asked' = asked /\ asked[at] \in Nat
    BY <1>1, <1>3 DEF IInv, TypeOK
  <2>2. Issued(held.packet)'
    BY <1>4, <1>5, <2>1 DEF Issued
  <2>3. \A p \in Ports, q \in Priorities : \A k \in DOMAIN pool'[p][q] : Issued(pool[p][q][k])'
    BY <1>1, <1>8, <1>9 DEF Issued
  <2>4. \A w \in wire' : Issued(w.packet)'
    BY <1>2, <1>8, <1>9 DEF Issued
  <2> QED  BY <2>2, <2>3, <2>4 DEF AllIssued
<1>11. CommitsNewest'
  BY <1>1, <1>2, <1>4, <1>5, <1>8, <1>9 DEF CommitsNewest
<1> QED  BY <1>1, <1>6, <1>7, <1>10, <1>11, ServerMoves DEF IInv, Telling

LEMMA SelectStep ==
  ASSUME IInv, SelectDefault \/ SelectLinkCheck
  PROVE  IInv'
<1>1. /\ spc = "select" /\ spc' = "stamps" /\ at' = 0
      /\ enabled' \in [Clients -> BOOLEAN]
      /\ UNCHANGED <<cpc, request, asked, port, pendingCmd, held, pool, tsRing, pinVars>>
  BY DEF SelectDefault, SelectLinkCheck, EnabledNext, clientVars, IInv, TypeOK
<1>2. UNCHANGED <<txpc, tx, wire, overtaken>>
  BY <1>1 DEF pinVars
<1>3. TypeOK'
  BY <1>1, <1>2 DEF IInv, TypeOK, Ports
<1>4. ServerHolds'
  BY <1>1 DEF IInv, ServerHolds, Telling, Ports
<1>5. AllIssued'
  BY <1>1, <1>2, IssuedStays DEF Issued
<1>6. CommitsNewest'
  BY <1>1 DEF CommitsNewest
<1> QED  BY <1>1, <1>3, <1>4, <1>5, <1>6, ServerMoves DEF IInv, Telling

LEMMA SelectCommandStep ==
  ASSUME IInv, NEW c \in Clients, SelectCommand(c)
  PROVE  IInv'
<1>1. /\ spc = "select" /\ cpc[c] = "command"
      /\ pendingCmd' = [pendingCmd EXCEPT ![c] = request[c] # None]
      /\ cpc' = [cpc EXCEPT ![c] = IF request[c] # None THEN "transfer" ELSE "idle"]
      /\ spc' = "stamps" /\ at' = 0
      /\ UNCHANGED <<request, asked, port, enabled, held, pool, tsRing, pinVars>>
  BY DEF SelectCommand, Heard
<1>2. UNCHANGED <<txpc, tx, wire, overtaken>>
  BY <1>1 DEF pinVars
<1>3. TypeOK'
  <2>1. pendingCmd' \in [Clients -> BOOLEAN]
    BY <1>1 DEF IInv, TypeOK
  <2> QED  BY <1>1, <1>2, <2>1 DEF IInv, TypeOK, Ports
<1>4. ServerHolds'
  BY <1>1 DEF IInv, TypeOK, ServerHolds, Telling, Ports
<1>5. AllIssued'
  <2>1. \A pkt \in Packets : Issued(pkt) => Issued(pkt)'
    BY <1>1, PacketFields DEF Issued, IInv, TypeOK
  <2> QED  BY <1>1, <1>2, <2>1, IssuedStays
<1>6. CommitsNewest'
  BY <1>1 DEF CommitsNewest
<1> QED  BY <1>1, <1>3, <1>4, <1>5, <1>6, ServerMoves DEF IInv, Telling

-----------------------------------------------------------------------------
(* The commit of a packet. *)

(* The pool the packet in the server's hand goes into. *)
Into(p, q) == port \in held.to /\ p = port /\ q = held.packet.prio

(* Every pool is as before, but for the packet behind the others of one. *)
LEMMA CommitPool ==
  ASSUME IInv, Commit
  PROVE  \A p \in Ports, q \in Priorities :
           /\ pool'[p][q] \in Seq(Packets)
           /\ \A k \in DOMAIN pool'[p][q] :
                \/ k \in DOMAIN pool[p][q] /\ pool'[p][q][k] = pool[p][q][k]
                \/ /\ Into(p, q)
                   /\ pool'[p][q][k] = held.packet
                   /\ k = Len(pool[p][q]) + 1
           /\ pool[p][q] # <<>> => pool'[p][q] # <<>> /\ Head(pool'[p][q]) = Head(pool[p][q])
           /\ pool[p][q] = <<>> /\ pool'[p][q] # <<>> => Head(pool'[p][q]) = held.packet
           /\ ~Into(p, q) => pool'[p][q] = pool[p][q]
<1> DEFINE pkt == held.packet
           q0 == pkt.prio
<1>1. pool' = IF port \in held.to THEN [pool EXCEPT ![port][q0] = Append(@, pkt)] ELSE pool
  BY DEF Commit
<1>2. port \in Ports /\ pkt \in Packets /\ q0 \in Priorities
  <2>1. port \in Ports /\ pkt \in Packets
    BY DEF Commit, IInv, ServerHolds, TypeOK
  <2> HIDE DEF pkt
  <2> QED  BY <2>1, PacketFields
<1> HIDE DEF pkt, q0
<1>3. \A p \in Ports, q \in Priorities :
        IF port \in held.to /\ p = port /\ q = q0
          THEN pool'[p][q] = Append(pool[p][q], pkt)
          ELSE pool'[p][q] = pool[p][q]
  BY <1>1, <1>2 DEF IInv, TypeOK
<1> SUFFICES ASSUME NEW p \in Ports, NEW q \in Priorities
             PROVE  /\ pool'[p][q] \in Seq(Packets)
                    /\ \A k \in DOMAIN pool'[p][q] :
                         \/ k \in DOMAIN pool[p][q] /\ pool'[p][q][k] = pool[p][q][k]
                         \/ /\ Into(p, q)
                            /\ pool'[p][q][k] = pkt
                            /\ k = Len(pool[p][q]) + 1
                    /\ pool[p][q] # <<>> =>
                         pool'[p][q] # <<>> /\ Head(pool'[p][q]) = Head(pool[p][q])
                    /\ pool[p][q] = <<>> /\ pool'[p][q] # <<>> => Head(pool'[p][q]) = pkt
                    /\ ~Into(p, q) => pool'[p][q] = pool[p][q]
  BY DEF pkt
<1>4. pool[p][q] \in Seq(Packets)
  BY PoolIsSequence DEF IInv
<1>5. CASE Into(p, q)
  <2> DEFINE s == pool[p][q]
             t == Append(s, pkt)
  <2>1. s \in Seq(Packets) /\ pool'[p][q] = t /\ pool[p][q] = s
    BY <1>3, <1>4, <1>5 DEF Into, q0, pkt
  <2> HIDE DEF s
  <2>2. /\ t \in Seq(Packets)
        /\ DOMAIN s = 1 .. Len(s) /\ DOMAIN t = 1 .. Len(s) + 1
        /\ Len(s) \in Nat
        /\ \A k \in 1 .. Len(s) : t[k] = s[k]
        /\ t[Len(s) + 1] = pkt
        /\ s # <<>> => t # <<>> /\ Head(t) = Head(s)
        /\ s = <<>> => Head(t) = pkt
    BY <1>2, <2>1
  <2> HIDE DEF t
  <2>3. ASSUME NEW k \in DOMAIN t
        PROVE  (k \in DOMAIN s /\ t[k] = s[k]) \/ (t[k] = pkt /\ k = Len(s) + 1)
    <3>1. k \in 1 .. Len(s) \/ k = Len(s) + 1
      BY <2>2, <2>3
    <3> QED  BY <2>2, <3>1
  <2>4. \A k \in DOMAIN pool'[p][q] :
          \/ k \in DOMAIN pool[p][q] /\ pool'[p][q][k] = pool[p][q][k]
          \/ /\ Into(p, q)
             /\ pool'[p][q][k] = pkt
             /\ k = Len(pool[p][q]) + 1
    BY <1>5, <2>1, <2>3
  <2> QED  BY <1>5, <2>1, <2>2, <2>4
<1>6. CASE ~Into(p, q)
  <2>1. pool'[p][q] = pool[p][q]
    BY <1>3, <1>6 DEF Into, q0, pkt
  <2> QED  BY <1>4, <1>6, <2>1
<1> QED  BY <1>5, <1>6

LEMMA CommitStep ==
  ASSUME IInv, Commit
  PROVE  IInv'
<1> DEFINE pkt == held.packet
           q0 == pkt.prio
           into == port \in held.to
<1>1. /\ spc = "commit"
      /\ pool' = IF into THEN [pool EXCEPT ![port][q0] = Append(@, pkt)] ELSE pool
      /\ UNCHANGED <<cpc, request, asked, tsRing, txpc, tx, wire, overtaken>>
  BY DEF Commit, clientVars, pinVars
<1>2. \/ /\ port = 1 /\ NextClient(at)
         /\ enabled' = [enabled EXCEPT ![at] = FALSE]
         /\ pendingCmd' = [pendingCmd EXCEPT ![at] = FALSE]
         /\ port' = 0
      \/ port # 1 /\ port' = port + 1 /\ UNCHANGED <<spc, at, enabled, pendingCmd, held>>
  BY DEF Commit
<1>3. /\ at \in Clients /\ port \in {0, 1}
      /\ pkt \in Packets /\ q0 \in Priorities /\ held.to \in SUBSET Ports
      /\ pkt.client = at /\ pkt.stage = 1
  BY <1>1, PacketFields DEF IInv, ServerHolds, TypeOK, Ports
<1> HIDE DEF pkt, q0, into
<1>4. \/ spc' \in {"select", "serve"} /\ port = 1 /\ port' = 0 /\ at' \in Clients
      \/ spc' = "commit" /\ port = 0 /\ port' = 1 /\ at' = at /\ held' = held
  BY <1>1, <1>2, <1>3, NextClientIsClient
<1>6. \A p \in Ports, q \in Priorities : pool[p][q] \in Seq(Packets)
  BY PoolIsSequence DEF IInv
<1>5. \A p \in Ports, q \in Priorities :
        ~(into /\ p = port /\ q = q0) => pool'[p][q] = pool[p][q]
  BY CommitPool DEF Into, pkt, q0, into
<1>7. \A p \in Ports, q \in Priorities :
        /\ pool'[p][q] \in Seq(Packets)
        /\ \A k \in DOMAIN pool'[p][q] :
             \/ k \in DOMAIN pool[p][q] /\ pool'[p][q][k] = pool[p][q][k]
             \/ /\ into /\ p = port /\ q = q0
                /\ pool'[p][q][k] = pkt
                /\ k = Len(pool[p][q]) + 1
        /\ pool[p][q] # <<>> => pool'[p][q] # <<>> /\ Head(pool'[p][q]) = Head(pool[p][q])
        /\ pool[p][q] = <<>> /\ pool'[p][q] # <<>> => Head(pool'[p][q]) = pkt
  BY CommitPool DEF Into, pkt, q0, into
<1>8. \A p \in Ports, q \in Priorities :
        /\ DOMAIN pool[p][q] = 1 .. Len(pool[p][q]) /\ Len(pool[p][q]) \in Nat
        /\ \A k \in DOMAIN pool[p][q] : pool[p][q][k] \in Packets
  BY <1>6
<1>9. \A p \in Ports, q \in Priorities : Waiting(p, q) => Waiting(p, q)'
  BY <1>7 DEF Waiting, Sendable
<1>10. \A p \in Ports : ~Telling(p) /\ ~Telling(p)'
  BY <1>1, <1>4 DEF Telling
<1>11. TypeOK'
  <2>1. pool' \in [Ports -> [Priorities -> Seq(Packets)]]
    <3>1. /\ DOMAIN pool' = Ports
          /\ \A p \in Ports : pool'[p] = [q \in Priorities |-> pool'[p][q]]
      BY <1>1, <1>3 DEF IInv, TypeOK
    <3>2. pool' = [p \in Ports |-> pool'[p]]
      BY <1>1, <1>3 DEF IInv, TypeOK
    <3> QED  BY <1>7, <3>1, <3>2
  <2>2. /\ enabled' \in [Clients -> BOOLEAN] /\ pendingCmd' \in [Clients -> BOOLEAN]
        /\ spc' \in {"serve", "commit", "select"} /\ at' \in Clients /\ port' \in Ports
    BY <1>2, <1>3, <1>4 DEF IInv, TypeOK, Ports
  <2> QED  BY <1>1, <2>1, <2>2 DEF IInv, TypeOK
<1>12. ServerHolds'
  BY <1>1, <1>3, <1>4, <1>10 DEF IInv, ServerHolds
<1>13. CommitsNewest
  BY DEF IInv
<1>14. Issued(pkt)
  BY <1>1 DEF IInv, AllIssued, pkt
<1>15. into => ~Committed(port)
  BY <1>3 DEF Committed
<1>16. into => /\ \A q \in Priorities : \A k \in DOMAIN pool[port][q] :
                    pool[port][q][k].client = at => pool[port][q][k].n < pkt.n
               /\ \A w \in wire : w.port = port /\ w.packet.client = at => w.packet.n < pkt.n
  BY <1>1, <1>3, <1>13, <1>15 DEF CommitsNewest, pkt, Ports
<1>17. PoolsInOrder'
  <2> SUFFICES ASSUME NEW p \in Ports, NEW q \in Priorities, NEW k \in DOMAIN pool'[p][q]
               PROVE  /\ pool'[p][q][k].prio = q
                      /\ pool'[p][q][k].stage = 2 => k = 1 /\ pool'[p][q][k].timed
                      /\ \A j \in DOMAIN pool'[p][q] :
                           j < k /\ pool'[p][q][j].client = pool'[p][q][k].client =>
                             pool'[p][q][j].n < pool'[p][q][k].n
    BY DEF PoolsInOrder
  <2>1. CASE k \in DOMAIN pool[p][q] /\ pool'[p][q][k] = pool[p][q][k]
    <3>1. \A j \in DOMAIN pool'[p][q] :
            j < k => j \in DOMAIN pool[p][q] /\ pool'[p][q][j] = pool[p][q][j]
      BY <1>7, <1>8, <2>1
    <3> QED  BY <2>1, <3>1 DEF IInv, PoolsInOrder
  <2>2. CASE /\ into /\ p = port /\ q = q0
             /\ pool'[p][q][k] = pkt /\ k = Len(pool[p][q]) + 1
    <3>1. \A j \in DOMAIN pool'[p][q] :
            j < k => j \in DOMAIN pool[p][q] /\ pool'[p][q][j] = pool[p][q][j]
      BY <1>7, <1>8, <2>2
    <3> QED  BY <1>3, <1>16, <2>2, <3>1 DEF q0
  <2> QED  BY <1>7, <2>1, <2>2
<1>18. PinsSendHead'
  <2> SUFFICES ASSUME NEW p \in Ports, tx[p] # None
               PROVE  Waiting(p, tx[p].prio)' /\ tx[p] = Head(pool'[p][tx[p].prio])
    BY <1>1 DEF IInv, PinsSendHead
  <2>1. /\ Waiting(p, tx[p].prio) /\ tx[p] = Head(pool[p][tx[p].prio])
        /\ tx[p].prio \in Priorities
    BY PacketFields DEF IInv, TypeOK, PinsSendHead
  <2>2. pool[p][tx[p].prio] # <<>>
    BY <2>1 DEF Waiting
  <2>3. Head(pool'[p][tx[p].prio]) = Head(pool[p][tx[p].prio])
    BY <1>7, <2>1, <2>2
  <2>4. \A q \in Priorities : Waiting(p, q) => Waiting(p, q)'
    BY <1>9
  <2> QED  BY <1>1, <2>1, <2>3, <2>4 DEF Waiting, Sendable
<1>19. AllIssued'
  <2>1. \A p \in Ports, q \in Priorities : \A k \in DOMAIN pool'[p][q] :
          Issued(pool'[p][q][k])
    BY <1>7, <1>14 DEF IInv, AllIssued
  <2>2. \A o : Issued(o)' <=> Issued(o)
    BY <1>1 DEF Issued
  <2>3. (\A w \in wire : Issued(w.packet)) /\ (spc = "commit" => Issued(held.packet))
    BY DEF IInv, AllIssued
  <2> QED  BY <1>1, <1>4, <2>1, <2>3 DEF AllIssued, Issued
<1>20. CommitsNewest'
  <2> SUFFICES ASSUME spc' = "commit", NEW p \in Ports, ~Committed(p)'
               PROVE  /\ \A q \in Priorities : \A k \in DOMAIN pool'[p][q] :
                           pool'[p][q][k].client = at => pool'[p][q][k].n < pkt.n
                      /\ \A w \in wire :
                           w.port = p /\ w.packet.client = at => w.packet.n < pkt.n
    BY <1>1, <1>4 DEF CommitsNewest, pkt
  <2>1. port = 0 /\ port' = 1 /\ held' = held
    BY <1>4
  <2>2. ~Committed(p) /\ ~(into /\ p = port)
    BY <2>1 DEF Committed, into, Ports
  <2>3. \A q \in Priorities : pool'[p][q] = pool[p][q]
    BY <1>5, <2>2
  <2> QED  BY <1>1, <1>13, <2>2, <2>3 DEF CommitsNewest, pkt
<1>21. WireIsOlder'
  <2> SUFFICES ASSUME NEW p \in Ports, NEW q \in Priorities,
                      NEW k \in DOMAIN pool'[p][q], NEW w \in wire,
                      w.port = p, w.packet.prio = q,
                      w.packet.client = pool'[p][q][k].client, pool'[p][q][k].stage = 1
               PROVE  w.packet.n < pool'[p][q][k].n
    BY <1>1 DEF WireIsOlder
  <2>1. CASE k \in DOMAIN pool[p][q] /\ pool'[p][q][k] = pool[p][q][k]
    BY <2>1 DEF IInv, WireIsOlder
  <2>2. CASE into /\ p = port /\ pool'[p][q][k] = pkt
    BY <1>3, <1>16, <2>2
  <2> QED  BY <1>7, <2>1, <2>2
<1>22. RingOfHeads'
  <2>1. \A p \in Ports, q \in Priorities : Untold(p, q)' <=> Untold(p, q)
    BY <1>3, <1>7, <1>10 DEF Untold
  <2>2. \A p \in Ports, q \in Priorities : Untold(p, q) => Head(pool'[p][q]) = Head(pool[p][q])
    BY <1>7 DEF Untold
  <2> QED  BY <1>1, <2>1, <2>2 DEF IInv, RingOfHeads, NextEntry
<1>23. OvertakenIsNext'
  BY <1>1, <1>9 DEF IInv, OvertakenIsNext, Priorities
<1> QED  BY <1>11, <1>12, <1>17, <1>18, <1>19, <1>20, <1>21, <1>22, <1>23 DEF IInv

-----------------------------------------------------------------------------
(* The last loop of the server. *)

LEMMA UntoldHead ==
  ASSUME IInv, NEW p \in Ports, NEW q \in Priorities, pool[p][q] # <<>>
  PROVE  /\ Head(pool[p][q]) \in Packets /\ Head(pool[p][q]).prio = q
         /\ Head(pool[p][q]).stage = 2 => Head(pool[p][q]).timed
<1>1. 1 \in DOMAIN pool[p][q] /\ Head(pool[p][q]) = pool[p][q][1] /\ pool[p][q][1] \in Packets
  BY PoolIsSequence DEF IInv
<1> QED  BY <1>1 DEF IInv, PoolsInOrder

LEMMA GetEntryStep ==
  ASSUME IInv, GetEntry
  PROVE  IInv'
<1> DEFINE r == tsRing[at]
           second == NextEntry(r.rdIndex)
<1>1. /\ spc = "stamps"
      /\ UNCHANGED <<cpc, request, asked, port, enabled, pendingCmd, pool, txpc, tx, wire,
                     overtaken, pinVars>>
  BY DEF GetEntry, clientVars, pinVars
<1>2. at \in Ports
  BY <1>1 DEF IInv, ServerHolds
<1>3. /\ r.rdIndex \in 0 .. Entries - 1 /\ second \in 0 .. Entries - 1
      /\ second # r.rdIndex
      /\ NextEntry(second) # r.rdIndex /\ NextEntry(second) # second
  BY <1>2, NextEntryIsNext DEF IInv, TypeOK
<1>4. CASE r.rdIndex = r.wrIndex
  <2>1. /\ NextPort(at) /\ UNCHANGED <<held, tsRing>>
    BY <1>4 DEF GetEntry
  <2>2. /\ at' \in Clients \cup Ports
        /\ (spc' = "serve" /\ at' \in Clients) \/ (spc' = "stamps" /\ at' \in Ports)
    BY <1>2, <2>1, NextPortIsPort
  <2>3. TypeOK'
    BY <1>1, <2>1, <2>2 DEF IInv, TypeOK
  <2>4. ServerHolds'
    BY <1>1, <2>1, <2>2 DEF IInv, ServerHolds, Telling
  <2>5. AllIssued'
    BY <1>1, <2>1, <2>2, IssuedStays DEF Issued
  <2>6. CommitsNewest'
    BY <2>2 DEF CommitsNewest
  <2> QED  BY <1>1, <2>1, <2>2, <2>3, <2>4, <2>5, <2>6, ServerMoves DEF IInv, Telling
<1>5. CASE r.rdIndex # r.wrIndex
  <2>1. /\ held' = r.fifo[r.rdIndex]
        /\ tsRing' = [tsRing EXCEPT ![at].rdIndex = NextEntry(@)]
        /\ spc' = "tell" /\ at' = at
    BY <1>5 DEF GetEntry
  <2>2. /\ tsRing' \in [Ports -> [fifo : [0 .. (Entries - 1) -> Packets \cup {None}],
                          rdIndex : 0 .. (Entries - 1), wrIndex : 0 .. (Entries - 1)]]
        /\ tsRing'[at].fifo = r.fifo /\ tsRing'[at].wrIndex = r.wrIndex
        /\ tsRing'[at].rdIndex = second
        /\ \A p \in Ports : p # at => tsRing'[p] = tsRing[p]
    BY <1>2, <1>3, <2>1 DEF IInv, TypeOK
  <2> PICK a \in Ports : a = at
    BY <1>2
  <2> HIDE DEF r
  <2> DEFINE Only(q) == /\ r.wrIndex = second
                        /\ Untold(a, q) /\ r.fifo[r.rdIndex] = Head(pool[a][q])
                        /\ \A o \in Priorities : Untold(a, o) => o = q
             Both(q, o) == /\ r.wrIndex = NextEntry(second)
                           /\ q # o /\ Untold(a, q) /\ Untold(a, o)
                           /\ r.fifo[r.rdIndex] = Head(pool[a][q])
                           /\ r.fifo[second] = Head(pool[a][o])
  <2>3. \E q \in Priorities : Only(q) \/ \E o \in Priorities : Both(q, o)
    BY <1>2, <1>5 DEF IInv, RingOfHeads, r
  <2>4. PICK q \in Priorities : Only(q) \/ \E o \in Priorities : Both(q, o)
    BY <2>3
  <2>5. /\ Untold(a, q) /\ held' = Head(pool[a][q])
    BY <2>1, <2>4
  <2>6. /\ pool[a][q] # <<>> /\ held'.stage = 2
        /\ held' \in Packets /\ held'.prio = q
    BY <1>2, <2>5, UntoldHead DEF Untold
  <2>7. \A p \in Ports : ~Telling(p) /\ (Telling(p)' <=> p = a)
    BY <1>1, <2>1 DEF Telling
  <2>8. TypeOK'
    BY <1>1, <1>2, <2>1, <2>2, <2>6 DEF IInv, TypeOK
  <2>9. ServerHolds'
    BY <1>1, <1>2, <2>1, <2>5, <2>6, <2>7 DEF IInv, ServerHolds
  <2>10. AllIssued'
    BY <1>1, <2>1, IssuedStays DEF Issued
  <2>11. CommitsNewest'
    BY <2>1 DEF CommitsNewest
  <2>12. /\ \A p \in Ports, o \in Priorities : p # a => (Untold(p, o)' <=> Untold(p, o))
         /\ \A o \in Priorities : o # q => (Untold(a, o)' <=> Untold(a, o))
         /\ ~Untold(a, q)'
    BY <1>1, <1>2, <2>1, <2>6, <2>7 DEF Untold
  <2>13. /\ (Only(q) => r.wrIndex = second /\ \A o \in Priorities : ~Untold(a, o)')
         /\ \A o \in Priorities : Both(q, o) =>
              /\ r.wrIndex = NextEntry(second)
              /\ Untold(a, o)' /\ r.fifo[second] = Head(pool[a][o])
              /\ \A x \in Priorities : Untold(a, x)' => x = o
    BY <2>12 DEF Priorities
  <2>14. \/ /\ tsRing'[a].wrIndex = tsRing'[a].rdIndex
            /\ \A o \in Priorities : ~Untold(a, o)'
         \/ /\ tsRing'[a].wrIndex = NextEntry(tsRing'[a].rdIndex)
            /\ \E o \in Priorities :
                 /\ Untold(a, o)' /\ tsRing'[a].fifo[tsRing'[a].rdIndex] = Head(pool'[a][o])
                 /\ \A x \in Priorities : Untold(a, x)' => x = o
    <3>1. CASE Only(q)
      BY <2>2, <2>13, <3>1
    <3>2. CASE \E o \in Priorities : Both(q, o)
      BY <1>1, <2>2, <2>13, <3>2
    <3> QED  BY <2>4, <3>1, <3>2
  <2>15. RingOfHeads'
    <3> SUFFICES ASSUME NEW p \in Ports
                 PROVE  LET n == NextEntry(tsRing'[p].rdIndex) IN
                        \/ /\ tsRing'[p].wrIndex = tsRing'[p].rdIndex
                           /\ \A o \in Priorities : ~Untold(p, o)'
                        \/ /\ tsRing'[p].wrIndex = n
                           /\ \E o \in Priorities :
                                /\ Untold(p, o)'
                                /\ tsRing'[p].fifo[tsRing'[p].rdIndex] = Head(pool'[p][o])
                                /\ \A x \in Priorities : Untold(p, x)' => x = o
                        \/ /\ tsRing'[p].wrIndex = NextEntry(n)
                           /\ \E o, x \in Priorities :
                                /\ o # x /\ Untold(p, o)' /\ Untold(p, x)'
                                /\ tsRing'[p].fifo[tsRing'[p].rdIndex] = Head(pool'[p][o])
                                /\ tsRing'[p].fifo[n] = Head(pool'[p][x])
      BY DEF RingOfHeads, NextEntry
    <3>1. CASE p = a
      BY <2>14, <3>1
    <3>2. CASE p # a
      <4>1. \A o \in Priorities : (Untold(p, o)' <=> Untold(p, o)) /\ pool'[p][o] = pool[p][o]
        BY <1>1, <2>12, <3>2
      <4>2. tsRing'[p] = tsRing[p]
        BY <2>2, <3>2
      <4>3. RingOfHeads
        BY DEF IInv
      <4> QED  BY <4>1, <4>2, <4>3 DEF RingOfHeads
    <3> QED  BY <3>1, <3>2
  <2> QED  BY <1>1, <2>8, <2>9, <2>10, <2>11, <2>15, PoolsStay, PinsStay, WireStays,
              OvertakenStays DEF IInv
<1> QED  BY <1>4, <1>5

LEMMA TellStep ==
  ASSUME IInv, Tell
  PROVE  IInv'
<1>1. /\ spc = "tell" /\ spc' = "free" /\ cpc[held.client] = "stamp"
      /\ cpc' = [cpc EXCEPT ![held.client] = "idle"]
      /\ UNCHANGED <<request, asked, at, port, enabled, pendingCmd, held, pool, tsRing, pinVars>>
  BY DEF Tell
<1>2. UNCHANGED <<txpc, tx, wire, overtaken>>
  BY <1>1 DEF pinVars
<1>3. held \in Packets /\ held.client \in Clients
  BY <1>1, PacketFields DEF IInv, TypeOK
<1>4. TypeOK'
  BY <1>1, <1>2, <1>3 DEF IInv, TypeOK
<1>5. ServerHolds'
  BY <1>1, <1>3 DEF IInv, TypeOK, ServerHolds, Telling
<1>6. AllIssued'
  <2>1. \A pkt \in Packets : Issued(pkt) => Issued(pkt)'
    BY <1>1, <1>3, PacketFields DEF Issued, IInv, TypeOK
  <2> QED  BY <1>1, <1>2, <2>1, IssuedStays
<1>7. CommitsNewest'
  BY <1>1 DEF CommitsNewest
<1>8. RingOfHeads'
  BY <1>1, RingStays DEF Telling
<1> QED  BY <1>1, <1>2, <1>4, <1>5, <1>6, <1>7, <1>8, PoolsStay, PinsStay, WireStays,
            OvertakenStays DEF IInv

(* A packet after it was sent. *)
Marked(pkt) == [pkt EXCEPT !.stage = 2]

(* What is in a pool after one was sent was there before: one place behind, *)
(* if that was freed.                                                       *)
Remains(p, q, timed) ==
  \A k \in DOMAIN pool'[p][q] : \E j \in DOMAIN pool[p][q] :
    /\ pool'[p][q][k].client = pool[p][q][j].client
    /\ pool'[p][q][k].n = pool[p][q][j].n
    /\ pool'[p][q][k].timed = pool[p][q][j].timed
    /\ j = IF timed THEN k ELSE k + 1
    /\ pool'[p][q][k].stage = 1 => 1 < j /\ pool'[p][q][k] = pool[p][q][j]

(* A pool without its oldest packet. *)
LEMMA FreedPool ==
  ASSUME IInv, NEW p \in Ports, NEW q \in Priorities, pool[p][q] # <<>>, FreeHead(p, q)
  PROVE  /\ pool' \in [Ports -> [Priorities -> Seq(Packets)]]
         /\ \A pp \in Ports, qq \in Priorities :
              pp # p \/ qq # q => pool'[pp][qq] = pool[pp][qq]
         /\ \A k \in DOMAIN pool'[p][q] :
              /\ k + 1 \in DOMAIN pool[p][q] /\ k + 1 > 1
              /\ pool'[p][q][k] = pool[p][q][k + 1]
         /\ PoolsInOrder'
         /\ pool'[p][q] # <<>> => Head(pool'[p][q]).stage = 1
<1> DEFINE s == pool[p][q]
<1>1. s \in Seq(Packets) /\ s # <<>>
  BY PoolIsSequence DEF IInv
<1>2. /\ pool' = [pool EXCEPT ![p][q] = Tail(s)]
      /\ pool \in [Ports -> [Priorities -> Seq(Packets)]]
  BY DEF FreeHead, IInv, TypeOK
<1> HIDE DEF s
<1>3. /\ Tail(s) \in Seq(Packets)
      /\ DOMAIN Tail(s) = 1 .. Len(s) - 1 /\ DOMAIN s = 1 .. Len(s) /\ Len(s) \in Nat
      /\ \A k \in 1 .. Len(s) - 1 : Tail(s)[k] = s[k + 1]
      /\ Tail(s) # <<>> => 1 \in DOMAIN Tail(s) /\ Head(Tail(s)) = Tail(s)[1]
  BY <1>1
<1>4. /\ pool' \in [Ports -> [Priorities -> Seq(Packets)]]
      /\ \A pp \in Ports, qq \in Priorities :
              pp # p \/ qq # q => pool'[pp][qq] = pool[pp][qq]
      /\ pool'[p][q] = Tail(s)
  BY <1>2, <1>3
<1>5. \A k \in DOMAIN pool'[p][q] : /\ k \in Nat /\ k + 1 \in DOMAIN pool[p][q] /\ k + 1 > 1
                                    /\ pool'[p][q][k] = pool[p][q][k + 1]
  BY <1>3, <1>4 DEF s
<1>6. \A k \in DOMAIN s : s[k] \in Packets /\ (s[k].stage = 2 => k = 1)
  BY PoolIsSequence DEF IInv, PoolsInOrder, s
<1>7. \A k \in DOMAIN pool'[p][q] : pool'[p][q][k].stage # 2 /\ pool'[p][q][k] \in Packets
  BY <1>5, <1>6 DEF s
<1>8. PoolsInOrder'
  <2> SUFFICES ASSUME NEW pp \in Ports, NEW qq \in Priorities, NEW k \in DOMAIN pool'[pp][qq]
               PROVE  /\ pool'[pp][qq][k].prio = qq
                      /\ pool'[pp][qq][k].stage = 2 => k = 1 /\ pool'[pp][qq][k].timed
                      /\ \A j \in DOMAIN pool'[pp][qq] :
                           j < k /\ pool'[pp][qq][j].client = pool'[pp][qq][k].client =>
                             pool'[pp][qq][j].n < pool'[pp][qq][k].n
    BY DEF PoolsInOrder
  <2>1. CASE pp = p /\ qq = q
    <3>1. \A j \in DOMAIN pool'[p][q] : j < k => j + 1 < k + 1
      BY <1>5, <2>1
    <3>2. \A j \in DOMAIN pool[p][q] : \A i \in DOMAIN pool[p][q] :
            i < j /\ pool[p][q][i].client = pool[p][q][j].client =>
              pool[p][q][i].n < pool[p][q][j].n
      BY DEF IInv, PoolsInOrder
    <3>3. pool'[p][q][k].prio = q
      BY <1>5, <2>1 DEF IInv, PoolsInOrder
    <3> QED  BY <1>5, <1>7, <2>1, <3>1, <3>2, <3>3
  <2>2. CASE pp # p \/ qq # q
    <3>1. pool'[pp][qq] = pool[pp][qq]
      BY <1>4, <2>2
    <3> QED  BY <3>1 DEF IInv, PoolsInOrder
  <2> QED  BY <2>1, <2>2
<1>9. pool'[p][q] # <<>> => Head(pool'[p][q]).stage = 1
  <2>1. pool'[p][q] # <<>> => 1 \in DOMAIN pool'[p][q] /\ Head(pool'[p][q]) = pool'[p][q][1]
    BY <1>3, <1>4
  <2>2. \A pkt \in Packets : pkt.stage \in {1, 2}
    BY PacketFields
  <2> QED  BY <1>7, <2>1, <2>2
<1>10. \A k \in DOMAIN pool'[p][q] :
              /\ k + 1 \in DOMAIN pool[p][q] /\ k + 1 > 1
              /\ pool'[p][q][k] = pool[p][q][k + 1]
  BY <1>5
<1> QED  BY <1>4, <1>8, <1>9, <1>10

LEMMA FreeToldStep ==
  ASSUME IInv, FreeTold
  PROVE  IInv'
<1> DEFINE q0 == held.prio
<1>1. /\ spc = "free" /\ FreeHead(at, q0) /\ NextPort(at)
      /\ UNCHANGED <<cpc, request, asked, port, enabled, pendingCmd, tsRing, txpc, tx, wire,
                     overtaken>>
  BY DEF FreeTold, clientVars, pinVars
<1>2. /\ at \in Ports /\ Telling(at)
      /\ held \in Packets /\ q0 \in Priorities
  BY <1>1, PacketFields DEF IInv, TypeOK, ServerHolds, Telling
<1>3. pool[at][q0] # <<>> /\ Head(pool[at][q0]) = held /\ held.stage = 2
  BY <1>2 DEF IInv, ServerHolds
<1> HIDE DEF q0
<1>4. /\ at' \in Clients \cup Ports
      /\ (spc' = "serve" /\ at' \in Clients) \/ (spc' = "stamps" /\ at' \in Ports)
  BY <1>1, <1>2, NextPortIsPort
<1>5. /\ pool' \in [Ports -> [Priorities -> Seq(Packets)]]
      /\ \A pp \in Ports, qq \in Priorities :
           pp # at \/ qq # q0 => pool'[pp][qq] = pool[pp][qq]
      /\ \A k \in DOMAIN pool'[at][q0] :
              /\ k + 1 \in DOMAIN pool[at][q0]
              /\ pool'[at][q0][k] = pool[at][q0][k + 1]
      /\ PoolsInOrder'
      /\ pool'[at][q0] # <<>> => Head(pool'[at][q0]).stage = 1
  BY <1>1, <1>2, <1>3, FreedPool
<1>6. \A p \in Ports, q \in Priorities : \A k \in DOMAIN pool'[p][q] :
        \E j \in DOMAIN pool[p][q] : pool'[p][q][k] = pool[p][q][j]
  BY <1>5
<1>7. \A p \in Ports : ~Telling(p)' /\ (Telling(p) <=> p = at)
  BY <1>1, <1>4 DEF Telling
<1>8. \A p \in Ports, q \in Priorities : Waiting(p, q) => Waiting(p, q)' /\ ~(p = at /\ q = q0)
  <2>1. ~Waiting(at, q0)
    BY <1>3 DEF Waiting, Sendable
  <2> QED  BY <1>5, <2>1 DEF Waiting, Sendable
<1>9. TypeOK'
  BY <1>1, <1>4, <1>5 DEF IInv, TypeOK
<1>10. ServerHolds'
  BY <1>1, <1>4, <1>7 DEF IInv, ServerHolds
<1>11. PinsSendHead'
  <2> SUFFICES ASSUME NEW p \in Ports, tx[p] # None
               PROVE  Waiting(p, tx[p].prio)' /\ tx[p] = Head(pool'[p][tx[p].prio])
    BY <1>1 DEF IInv, PinsSendHead
  <2>1. /\ Waiting(p, tx[p].prio) /\ tx[p] = Head(pool[p][tx[p].prio])
        /\ tx[p].prio \in Priorities
    BY PacketFields DEF IInv, TypeOK, PinsSendHead
  <2>2. pool'[p][tx[p].prio] = pool[p][tx[p].prio]
    BY <1>5, <1>8, <2>1
  <2> QED  BY <1>1, <2>1, <2>2 DEF Waiting, Sendable
<1>12. AllIssued'
  <2>1. \A p \in Ports, q \in Priorities : \A k \in DOMAIN pool'[p][q] : Issued(pool'[p][q][k])
    BY <1>6 DEF IInv, AllIssued
  <2>2. (\A w \in wire : Issued(w.packet))
    BY DEF IInv, AllIssued
  <2> QED  BY <1>1, <1>4, <2>1, <2>2 DEF AllIssued, Issued
<1>13. CommitsNewest'
  BY <1>4 DEF CommitsNewest
<1>14. WireIsOlder'
  BY <1>1, <1>6 DEF IInv, WireIsOlder
<1>15. RingOfHeads'
  <2>1. \A p \in Ports, q \in Priorities : Untold(p, q)' <=> Untold(p, q)
    <3> TAKE p \in Ports, q \in Priorities
    <3>1. CASE p = at /\ q = q0
      BY <1>5, <1>7, <3>1 DEF Untold, q0
    <3>2. CASE p # at \/ q # q0
      BY <1>5, <1>7, <3>2 DEF Untold, q0
    <3> QED  BY <3>1, <3>2
  <2>2. ~Untold(at, q0)
    BY <1>2 DEF Untold, q0
  <2>3. \A p \in Ports, q \in Priorities : Untold(p, q) => Head(pool'[p][q]) = Head(pool[p][q])
    BY <1>5, <2>2
  <2> QED  BY <1>1, <2>1, <2>3 DEF IInv, RingOfHeads, NextEntry
<1>16. OvertakenIsNext'
  BY <1>1, <1>8 DEF IInv, OvertakenIsNext, Priorities
<1> QED  BY <1>5, <1>9, <1>10, <1>11, <1>12, <1>13, <1>14, <1>15, <1>16 DEF IInv

-----------------------------------------------------------------------------
(* The transmit threads. *)

LEMMA LookStep ==
  ASSUME IInv, NEW p \in Ports, NEW q \in Priorities, Look(p, q)
  PROVE  IInv'
<1>1. /\ txpc[p] = q
      /\ UNCHANGED <<cpc, request, asked, spc, at, port, enabled, pendingCmd, held, pool,
                     tsRing, wire>>
  BY DEF Look, clientVars, serverVars
<1>2. q = "hp" \/ q = "lp"
  BY DEF Priorities
<1>3. /\ AllIssued' /\ CommitsNewest' /\ RingOfHeads' /\ PoolsInOrder' /\ WireIsOlder'
  <2>1. AllIssued'
    BY <1>1, IssuedStays DEF Issued
  <2>2. CommitsNewest'
    BY <1>1 DEF IInv, CommitsNewest, Committed
  <2>3. RingOfHeads'
    BY <1>1, RingStays DEF Telling
  <2> QED  BY <1>1, <2>1, <2>2, <2>3, PoolsStay, WireStays
<1>4. ServerHolds'
  BY <1>1 DEF IInv, ServerHolds, Telling
<1>5. \A i \in Ports, o \in Priorities : Waiting(i, o)' <=> Waiting(i, o)
  BY <1>1 DEF Waiting, Sendable
<1>6. CASE Waiting(p, q)
  <2> DEFINE pkt == Head(pool[p][q])
  <2>1. /\ tx' = [tx EXCEPT ![p] = pkt]
        /\ txpc' = [txpc EXCEPT ![p] = "send"]
        /\ overtaken' = [overtaken EXCEPT ![p] =
                               IF q = "lp" /\ Waiting(p, "hp") THEN @ + 1 ELSE 0]
    BY <1>6 DEF Look
  <2>2. pkt \in Packets /\ pkt.prio = q /\ pkt # None
    BY <1>6, UntoldHead, TxAssumption DEF Waiting
  <2>3. TypeOK'
    <3>1. overtaken' \in [Ports -> Nat]
      BY <2>1 DEF IInv, TypeOK
    <3> HIDE DEF pkt
    <3> QED  BY <1>1, <2>1, <2>2, <3>1 DEF IInv, TypeOK
  <2>4. PinsSendHead'
    <3>1. \A i \in Ports : i # p => tx'[i] = tx[i] /\ txpc'[i] = txpc[i]
      BY <2>1 DEF IInv, TypeOK
    <3>2. tx'[p] = pkt /\ txpc'[p] = "send"
      BY <2>1 DEF IInv, TypeOK
    <3> SUFFICES ASSUME NEW i \in Ports
                 PROVE  /\ txpc'[i] = "send" <=> tx'[i] # None
                        /\ tx'[i] # None => /\ Waiting(i, tx'[i].prio)
                                            /\ tx'[i] = Head(pool[i][tx'[i].prio])
      BY <1>1 DEF PinsSendHead, Waiting, Sendable
    <3>3. CASE i = p
      <4>1. tx'[i] = pkt /\ pkt # None /\ pkt.prio = q /\ txpc'[i] = "send"
        BY <2>2, <3>2, <3>3
      <4>2. Waiting(i, q) /\ pkt = Head(pool[i][q])
        BY <1>6, <3>3
      <4> HIDE DEF pkt
      <4> QED  BY <4>1, <4>2
    <3>4. CASE i # p
      BY <3>1, <3>4 DEF IInv, PinsSendHead
    <3> QED  BY <3>3, <3>4
  <2>5. OvertakenIsNext'
    <3>1. \A i \in Ports : i # p => /\ tx'[i] = tx[i] /\ txpc'[i] = txpc[i]
                                    /\ overtaken'[i] = overtaken[i]
      BY <2>1 DEF IInv, TypeOK
    <3>2. /\ tx'[p] = pkt /\ txpc'[p] = "send" /\ pkt.prio = q
          /\ overtaken'[p] = IF q = "lp" /\ Waiting(p, "hp") THEN overtaken[p] + 1 ELSE 0
      <4>1. pkt.prio = q
        BY <2>2
      <4> HIDE DEF pkt
      <4> QED  BY <2>1, <4>1 DEF IInv, TypeOK
    <3> HIDE DEF pkt
    <3>3. q = "lp" => overtaken[p] = 0
      <4>1. overtaken[p] \in Nat /\ overtaken[p] <= 1
        BY DEF IInv, TypeOK, OvertakenIsNext
      <4>2. q = "lp" => overtaken[p] # 1
        BY <1>1 DEF IInv, OvertakenIsNext
      <4> QED  BY <4>1, <4>2
    <3> SUFFICES ASSUME NEW i \in Ports
                 PROVE  /\ overtaken'[i] <= 1
                        /\ overtaken'[i] = 1 => /\ Waiting(i, "hp")
                                                /\ \/ txpc'[i] = "hp"
                                                   \/ txpc'[i] = "send" /\ tx'[i].prio = "lp"
      BY <1>5 DEF OvertakenIsNext, Priorities
    <3>4. CASE i = p
      BY <3>2, <3>3, <3>4
    <3>5. CASE i # p
      BY <3>1, <3>5 DEF IInv, OvertakenIsNext
    <3> QED  BY <3>4, <3>5
  <2> QED  BY <1>3, <1>4, <2>3, <2>4, <2>5 DEF IInv
<1>7. CASE ~Waiting(p, q)
  <2>1. /\ txpc' = [txpc EXCEPT ![p] = IF q = "hp" THEN "lp" ELSE "hp"]
        /\ UNCHANGED <<tx, overtaken>>
    BY <1>7 DEF Look, LookAgain
  <2>2. TypeOK'
    BY <1>1, <2>1 DEF IInv, TypeOK
  <2>3. PinsSendHead'
    BY <1>1, <1>2, <2>1 DEF IInv, TypeOK, PinsSendHead, Waiting, Sendable
  <2>4. OvertakenIsNext'
    <3>1. overtaken[p] # 1 \/ (txpc[p] = "hp" /\ Waiting(p, "hp"))
      BY <1>1, <1>2 DEF IInv, OvertakenIsNext
    <3>2. overtaken[p] # 1
      BY <1>1, <1>7, <3>1
    <3>3. \A i \in Ports : i # p => txpc'[i] = txpc[i]
      BY <2>1 DEF IInv, TypeOK
    <3> QED  BY <1>5, <2>1, <3>2, <3>3 DEF IInv, OvertakenIsNext, Priorities
  <2> QED  BY <1>3, <1>4, <2>2, <2>3, <2>4 DEF IInv
<1> QED  BY <1>6, <1>7

(* The packet at the head of a pool was sent: it is gone, or marked. *)
LEMMA SentPool ==
  ASSUME IInv, NEW p \in Ports, Sent(p),
         NEW pkt, pkt = tx[p],
         NEW q, q = pkt.prio,
         NEW sent, sent = Marked(pkt)
  PROVE  /\ pkt \in Packets /\ q \in Priorities /\ Waiting(p, q)
         /\ pool[p][q] # <<>> /\ Head(pool[p][q]) = pkt
         /\ pkt = pool[p][q][1] /\ 1 \in DOMAIN pool[p][q]
         /\ pool' \in [Ports -> [Priorities -> Seq(Packets)]]
         /\ \A pp \in Ports, qq \in Priorities :
              pp # p \/ qq # q => pool'[pp][qq] = pool[pp][qq]
         /\ Remains(p, q, pkt.timed)
         /\ PoolsInOrder'
         /\ IF pkt.timed
              THEN pool'[p][q] # <<>> /\ Head(pool'[p][q]) = sent
                   /\ sent \in Packets /\ sent.stage = 2 /\ sent.prio = q
              ELSE pool'[p][q] # <<>> => Head(pool'[p][q]).stage = 1
<1> DEFINE s == pool[p][q]
<1>1. pkt # None /\ Waiting(p, q) /\ pkt = Head(s)
  BY DEF Sent, IInv, PinsSendHead
<1>2. pkt \in Packets /\ q \in Priorities /\ pkt.timed \in BOOLEAN /\ pkt.stage = 1
  <2>1. pkt \in Packets
    BY <1>1 DEF IInv, TypeOK
  <2>2. pkt.stage = 1
    BY <1>1 DEF Waiting, Sendable
  <2> QED  BY <2>1, <2>2, PacketFields
<1>3. /\ sent \in Packets /\ sent.client = pkt.client /\ sent.n = pkt.n
      /\ sent.timed = pkt.timed /\ sent.stage = 2 /\ sent.prio = q
  BY <1>2 DEF Packets, Marked
<1>4. s \in Seq(Packets) /\ s # <<>>
  BY <1>1, <1>2, PoolIsSequence DEF IInv, Waiting
<1>5. pool' = IF pkt.timed THEN [pool EXCEPT ![p][q] = <<sent>> \o Tail(s)]
                           ELSE [pool EXCEPT ![p][q] = Tail(s)]
  BY <1>2 DEF Sent, FreeHead, Marked
<1>6. pool \in [Ports -> [Priorities -> Seq(Packets)]]
  BY DEF IInv, TypeOK
<1>7. /\ Len(s) \in Nat /\ Len(s) > 0 /\ DOMAIN s = 1 .. Len(s) /\ Head(s) = s[1]
      /\ \A k \in DOMAIN s : s[k] \in Packets /\ s[k].prio = q
                             /\ (s[k].stage = 2 => k = 1)
      /\ \A j, k \in DOMAIN s : j < k /\ s[j].client = s[k].client => s[j].n < s[k].n
  <2>1. Len(s) \in Nat /\ Len(s) > 0 /\ DOMAIN s = 1 .. Len(s) /\ Head(s) = s[1]
    BY <1>4
  <2>2. \A k \in DOMAIN s : s[k] \in Packets /\ s[k].prio = q /\ (s[k].stage = 2 => k = 1)
    BY <1>2, PoolIsSequence DEF IInv, PoolsInOrder
  <2>3. \A j, k \in DOMAIN s : j < k /\ s[j].client = s[k].client => s[j].n < s[k].n
    BY <1>2 DEF IInv, PoolsInOrder
  <2> QED  BY <2>1, <2>2, <2>3
<1>0. pool[p][q] = s
  OBVIOUS
<1> HIDE DEF s
<1>8. CASE ~pkt.timed
  <2>0. 1 \in DOMAIN s /\ pkt = s[1]
    BY <1>1, <1>7
  <2>1. pool[p][q] # <<>> /\ FreeHead(p, q)
    BY <1>4, <1>5, <1>8 DEF FreeHead, s
  <2>2. /\ pool' \in [Ports -> [Priorities -> Seq(Packets)]]
        /\ \A pp \in Ports, qq \in Priorities :
              pp # p \/ qq # q => pool'[pp][qq] = pool[pp][qq]
        /\ \A k \in DOMAIN pool'[p][q] :
              /\ k + 1 \in DOMAIN pool[p][q] /\ k + 1 > 1
              /\ pool'[p][q][k] = pool[p][q][k + 1]
        /\ PoolsInOrder'
        /\ pool'[p][q] # <<>> => Head(pool'[p][q]).stage = 1
    BY <1>2, <2>1, FreedPool
  <2>3. Remains(p, q, pkt.timed)
    <3> SUFFICES ASSUME NEW k \in DOMAIN pool'[p][q]
                 PROVE  /\ k + 1 \in DOMAIN pool[p][q] /\ 1 < k + 1
                        /\ pool'[p][q][k] = pool[p][q][k + 1]
      BY <1>8 DEF Remains
    <3>1. k + 1 > 1 /\ pool'[p][q] \in Seq(Packets)
      BY <1>2, <2>2
    <3>2. k \in Nat
      BY <3>1
    <3> QED  BY <2>2, <3>1, <3>2
  <2> QED  BY <1>0, <1>1, <1>2, <1>4, <1>8, <2>0, <2>2, <2>3, Zenon
<1>9. CASE pkt.timed
  <2> DEFINE t == <<sent>> \o Tail(s)
  <2>1. /\ t \in Seq(Packets) /\ DOMAIN t = DOMAIN s
        /\ t[1] = sent /\ t # <<>> /\ Head(t) = sent
        /\ \A k \in DOMAIN s : k # 1 => t[k] = s[k] /\ k > 1
    BY <1>3, <1>4, <1>7
  <2>2. pool' = [pool EXCEPT ![p][q] = t]
    BY <1>5, <1>9
  <2> HIDE DEF t
  <2>3. /\ pool' \in [Ports -> [Priorities -> Seq(Packets)]]
        /\ \A pp \in Ports, qq \in Priorities :
              pp # p \/ qq # q => pool'[pp][qq] = pool[pp][qq]
        /\ pool'[p][q] = t
    BY <1>2, <1>6, <2>1, <2>2
  <2>4. \A k \in DOMAIN t :
          /\ t[k].client = s[k].client /\ t[k].n = s[k].n /\ t[k].timed = s[k].timed
          /\ t[k].prio = q
          /\ t[k].stage = 1 => 1 < k /\ t[k] = s[k]
          /\ t[k].stage = 2 => k = 1
    <3> SUFFICES ASSUME NEW k \in DOMAIN s
                 PROVE  /\ t[k].client = s[k].client /\ t[k].n = s[k].n
                        /\ t[k].timed = s[k].timed /\ t[k].prio = q
                        /\ t[k].stage = 1 => 1 < k /\ t[k] = s[k]
                        /\ t[k].stage = 2 => k = 1
      BY <2>1
    <3>1. CASE k = 1
      <4>1. s[k] = pkt /\ t[k] = sent
        BY <1>1, <1>7, <2>1, <3>1
      <4> QED  BY <1>3, <3>1, <4>1
    <3>2. CASE k # 1
      BY <1>7, <2>1, <3>2
    <3> QED  BY <3>1, <3>2
  <2>5. PoolsInOrder'
    <3> SUFFICES ASSUME NEW pp \in Ports, NEW qq \in Priorities, NEW k \in DOMAIN pool'[pp][qq]
                 PROVE  /\ pool'[pp][qq][k].prio = qq
                        /\ pool'[pp][qq][k].stage = 2 => k = 1 /\ pool'[pp][qq][k].timed
                        /\ \A j \in DOMAIN pool'[pp][qq] :
                           j < k /\ pool'[pp][qq][j].client = pool'[pp][qq][k].client =>
                             pool'[pp][qq][j].n < pool'[pp][qq][k].n
      BY DEF PoolsInOrder
    <3>1. CASE pp = p /\ qq = q
      <4>1. t[1].timed
        BY <1>3, <1>9, <2>1
      <4>2. k \in DOMAIN s /\ k \in DOMAIN t /\ pool'[pp][qq] = t
        BY <2>1, <2>3, <3>1
      <4>3. \A j \in DOMAIN t : j < k /\ t[j].client = t[k].client => t[j].n < t[k].n
        <5>1. \A j \in DOMAIN t : /\ j \in DOMAIN s
                                 /\ t[j].client = s[j].client /\ t[j].n = s[j].n
          BY <2>1, <2>4
        <5> QED  BY <1>7, <4>2, <5>1
      <4>4. t[k].prio = q /\ (t[k].stage = 2 => k = 1)
        BY <2>4, <4>2
      <4> QED  BY <3>1, <4>1, <4>2, <4>3, <4>4
    <3>2. CASE pp # p \/ qq # q
      <4>1. pool'[pp][qq] = pool[pp][qq]
        BY <2>3, <3>2
      <4> QED  BY <4>1 DEF IInv, PoolsInOrder
    <3> QED  BY <3>1, <3>2
  <2>6. Remains(p, q, pkt.timed)
    <3>1. DOMAIN pool'[p][q] = DOMAIN t /\ DOMAIN pool[p][q] = DOMAIN t
      BY <1>0, <2>1, <2>3
    <3>2. \A k \in DOMAIN t : pool'[p][q][k] = t[k] /\ pool[p][q][k] = s[k]
      BY <1>0, <2>3
    <3> HIDE DEF s
    <3> QED  BY <1>9, <2>4, <3>1, <3>2 DEF Remains
  <2>7. pool'[p][q] # <<>> /\ Head(pool'[p][q]) = sent
    BY <2>1, <2>3
  <2>8. 1 \in DOMAIN s /\ pkt = s[1]
    BY <1>1, <1>7
  <2> QED  BY <1>0, <1>1, <1>2, <1>3, <1>4, <1>9, <2>3, <2>5, <2>6, <2>7, <2>8, Zenon
<1> QED  BY <1>2, <1>8, <1>9

LEMMA HeadIsFirst ==
  ASSUME IInv, NEW p \in Ports, NEW q \in Priorities,
         NEW j \in DOMAIN pool[p][q], 1 \in DOMAIN pool[p][q], 1 < j
  PROVE  pool[p][q][1].client = pool[p][q][j].client => pool[p][q][1].n < pool[p][q][j].n
BY DEF IInv, PoolsInOrder

LEMMA AddEntryAdds ==
  ASSUME TypeOK, NEW p \in Ports, NEW pkt \in Packets, AddEntry(p, pkt)
  PROVE  /\ tsRing' \in [Ports -> [fifo : [0 .. (Entries - 1) -> Packets \cup {None}],
                          rdIndex : 0 .. (Entries - 1), wrIndex : 0 .. (Entries - 1)]]
         /\ \A i \in Ports : i # p => tsRing'[i] = tsRing[i]
         /\ tsRing'[p].rdIndex = tsRing[p].rdIndex
         /\ tsRing'[p].wrIndex = NextEntry(tsRing[p].wrIndex)
         /\ tsRing'[p].fifo[tsRing[p].wrIndex] = pkt
         /\ \A k \in 0 .. Entries - 1 :
              k # tsRing[p].wrIndex => tsRing'[p].fifo[k] = tsRing[p].fifo[k]
<1> DEFINE r == tsRing[p]
           fifo == [r.fifo EXCEPT ![r.wrIndex] = pkt]
           next == NextEntry(r.wrIndex)
           new == [r EXCEPT !.fifo = fifo, !.wrIndex = next]
<1>1. /\ r \in [fifo : [0 .. (Entries - 1) -> Packets \cup {None}],
                rdIndex : 0 .. (Entries - 1), wrIndex : 0 .. (Entries - 1)]
      /\ tsRing \in [Ports -> [fifo : [0 .. (Entries - 1) -> Packets \cup {None}],
                     rdIndex : 0 .. (Entries - 1), wrIndex : 0 .. (Entries - 1)]]
  BY DEF TypeOK
<1>2. tsRing' = [tsRing EXCEPT ![p] = new]
  BY <1>1 DEF AddEntry
<1>3. next \in 0 .. Entries - 1
  BY <1>1, NextEntryIsNext
<1>4. /\ fifo \in [0 .. (Entries - 1) -> Packets \cup {None}]
      /\ fifo[r.wrIndex] = pkt
      /\ \A k \in 0 .. Entries - 1 : k # r.wrIndex => fifo[k] = r.fifo[k]
  BY <1>1
<1> HIDE DEF fifo, next
<1>5. /\ new \in [fifo : [0 .. (Entries - 1) -> Packets \cup {None}],
                  rdIndex : 0 .. (Entries - 1), wrIndex : 0 .. (Entries - 1)]
      /\ new.fifo = fifo /\ new.wrIndex = next /\ new.rdIndex = r.rdIndex
  BY <1>1, <1>3, <1>4
<1> HIDE DEF new
<1>6. /\ tsRing' \in [Ports -> [fifo : [0 .. (Entries - 1) -> Packets \cup {None}],
                     rdIndex : 0 .. (Entries - 1), wrIndex : 0 .. (Entries - 1)]]
      /\ tsRing'[p] = new
      /\ \A i \in Ports : i # p => tsRing'[i] = tsRing[i]
  BY <1>1, <1>2, <1>5
<1> QED  BY <1>4, <1>5, <1>6 DEF next

LEMMA SentStep ==
  ASSUME IInv, NEW p \in Ports, Sent(p),
         NEW pkt, pkt = tx[p],
         NEW q, q = pkt.prio,
         NEW sent, sent = Marked(pkt)
  PROVE  IInv'
<1>1. /\ txpc[p] = "send"
      /\ wire' = wire \cup {[port |-> p, packet |-> pkt]}
      /\ tx' = [tx EXCEPT ![p] = None]
      /\ txpc' = [txpc EXCEPT ![p] = "hp"]
      /\ IF pkt.timed THEN AddEntry(p, sent) ELSE tsRing' = tsRing
      /\ UNCHANGED <<cpc, request, asked, spc, at, port, enabled, pendingCmd, held, overtaken>>
  BY DEF Sent, LookAgain, clientVars, serverVars, Marked
<1>2. /\ pkt \in Packets /\ q \in Priorities /\ Waiting(p, q)
      /\ pool[p][q] # <<>> /\ Head(pool[p][q]) = pkt
      /\ pkt = pool[p][q][1] /\ 1 \in DOMAIN pool[p][q]
  BY SentPool
<1>a. /\ pool' \in [Ports -> [Priorities -> Seq(Packets)]]
      /\ \A pp \in Ports, qq \in Priorities :
           pp # p \/ qq # q => pool'[pp][qq] = pool[pp][qq]
  BY SentPool
<1>b. \A k \in DOMAIN pool'[p][q] : \E j \in DOMAIN pool[p][q] :
        /\ pool'[p][q][k].client = pool[p][q][j].client
        /\ pool'[p][q][k].n = pool[p][q][j].n
        /\ pool'[p][q][k].stage = 1 => 1 < j /\ pool'[p][q][k] = pool[p][q][j]
  <2>1. Remains(p, q, pkt.timed)
    BY SentPool
  <2> QED  BY <2>1 DEF Remains
<1>c. PoolsInOrder'
  BY SentPool
<1>d. IF pkt.timed
        THEN pool'[p][q] # <<>> /\ Head(pool'[p][q]) = sent
             /\ sent \in Packets /\ sent.stage = 2 /\ sent.prio = q
        ELSE pool'[p][q] # <<>> => Head(pool'[p][q]).stage = 1
  BY SentPool
<1>3. pkt.stage = 1 /\ Issued(pkt)
  BY <1>2 DEF Waiting, Sendable, IInv, AllIssued
<1>4. \A pp \in Ports, qq \in Priorities : \A k \in DOMAIN pool'[pp][qq] :
        \E j \in DOMAIN pool[pp][qq] :
          /\ pool'[pp][qq][k].client = pool[pp][qq][j].client
          /\ pool'[pp][qq][k].n = pool[pp][qq][j].n
          /\ pool'[pp][qq][k].stage = 1 => pool'[pp][qq][k] = pool[pp][qq][j]
  <2> TAKE pp \in Ports, qq \in Priorities
  <2>1. CASE pp = p /\ qq = q
    BY <1>b, <2>1
  <2>2. CASE pp # p \/ qq # q
    <3>1. pool'[pp][qq] = pool[pp][qq]
      BY <1>a, <2>2
    <3> QED  BY <3>1
  <2> QED  BY <2>1, <2>2
<1>5. \A i \in Ports : /\ i # p => tx'[i] = tx[i] /\ txpc'[i] = txpc[i]
                       /\ i = p => tx'[i] = None /\ txpc'[i] = "hp"
  BY <1>1 DEF IInv, TypeOK
<1>6. \A i \in Ports : Telling(i)' <=> Telling(i)
  BY <1>1 DEF Telling
<1>7. \A i \in Ports : Telling(i) =>
        /\ held.prio \in Priorities
        /\ ~(i = p /\ held.prio = q)
        /\ pool'[i][held.prio] = pool[i][held.prio]
  <2> SUFFICES ASSUME NEW i \in Ports, Telling(i)
               PROVE  held.prio \in Priorities /\ ~(i = p /\ held.prio = q)
    BY <1>a
  <2>1. held \in Packets /\ held.stage = 2 /\ Head(pool[i][held.prio]) = held
    BY DEF IInv, TypeOK, ServerHolds, Telling
  <2>2. held.prio \in Priorities
    BY <2>1, PacketFields
  <2>3. ~(i = p /\ held.prio = q)
    <3> SUFFICES ASSUME i = p, held.prio = q PROVE FALSE
      OBVIOUS
    <3>1. Head(pool[p][q]) = held /\ held.stage = 2
      BY <2>1
    <3>2. pkt = held
      BY <1>2, <3>1
    <3> QED  BY <1>3, <3>1, <3>2
  <2> QED  BY <2>2, <2>3
<1>8. TypeOK'
  <2>1. tsRing' \in [Ports -> [fifo : [0 .. (Entries - 1) -> Packets \cup {None}],
                          rdIndex : 0 .. (Entries - 1), wrIndex : 0 .. (Entries - 1)]]
    <3>1. CASE pkt.timed
      BY <1>1, <1>d, <3>1, AddEntryAdds DEF IInv
    <3>2. CASE ~pkt.timed
      BY <1>1, <3>2 DEF IInv, TypeOK
    <3> QED  BY <3>1, <3>2
  <2>2. wire' \subseteq [port : Ports, packet : Packets]
    <3>1. [port |-> p, packet |-> pkt] \in [port : Ports, packet : Packets]
      BY <1>2
    <3>2. wire \subseteq [port : Ports, packet : Packets]
      BY DEF IInv, TypeOK
    <3> QED  BY <1>1, <3>1, <3>2
  <2>3. tx' \in [Ports -> Packets \cup {None}] /\ txpc' \in [Ports -> {"hp", "lp", "send"}]
    BY <1>1 DEF IInv, TypeOK
  <2> QED  BY <1>1, <1>a, <2>1, <2>2, <2>3 DEF IInv, TypeOK
<1>9. ServerHolds'
  <2>1. \A i \in Ports : Telling(i)' =>
          held.stage = 2 /\ pool'[i][held.prio] # <<>> /\ Head(pool'[i][held.prio]) = held
    BY <1>6, <1>7 DEF IInv, ServerHolds
  <2>2. UNCHANGED <<cpc, request, spc, at, held>>
    BY <1>1
  <2> QED  BY <2>1, <2>2 DEF IInv, ServerHolds
<1>10. PinsSendHead'
  <2> SUFFICES ASSUME NEW i \in Ports
               PROVE  /\ txpc'[i] = "send" <=> tx'[i] # None
                      /\ tx'[i] # None => /\ pool'[i][tx'[i].prio] # <<>>
                                          /\ Head(pool'[i][tx'[i].prio]).stage = 1
                                          /\ tx'[i] = Head(pool'[i][tx'[i].prio])
    BY DEF PinsSendHead, Waiting, Sendable
  <2>1. CASE i = p
    BY <1>5, <2>1
  <2>2. CASE i # p
    <3>1. tx'[i] = tx[i] /\ txpc'[i] = txpc[i]
      BY <1>5, <2>2
    <3>2. tx[i] # None => tx[i].prio \in Priorities
      BY PacketFields DEF IInv, TypeOK
    <3>3. tx[i] # None => pool'[i][tx[i].prio] = pool[i][tx[i].prio]
      BY <1>a, <2>2, <3>2
    <3> QED  BY <3>1, <3>3 DEF IInv, PinsSendHead, Waiting, Sendable
  <2> QED  BY <2>1, <2>2
<1>11. AllIssued'
  <2>1. \A pp \in Ports, qq \in Priorities : \A k \in DOMAIN pool'[pp][qq] :
          Issued(pool'[pp][qq][k])
    <3> SUFFICES ASSUME NEW pp \in Ports, NEW qq \in Priorities, NEW k \in DOMAIN pool'[pp][qq]
                 PROVE  Issued(pool'[pp][qq][k])
      OBVIOUS
    <3>1. PICK j \in DOMAIN pool[pp][qq] :
            /\ pool'[pp][qq][k].client = pool[pp][qq][j].client
            /\ pool'[pp][qq][k].n = pool[pp][qq][j].n
      BY <1>4
    <3> QED  BY <3>1 DEF IInv, AllIssued, Issued
  <2>2. \A w \in wire' : Issued(w.packet)
    <3>1. \A w \in wire : Issued(w.packet)
      BY DEF IInv, AllIssued
    <3> QED  BY <1>1, <1>3, <3>1
  <2>3. spc = "commit" => Issued(held.packet)
    BY DEF IInv, AllIssued
  <2> QED  BY <1>1, <2>1, <2>2, <2>3 DEF AllIssued, Issued
<1>12. CommitsNewest'
  <2> SUFFICES ASSUME spc = "commit", NEW i \in Ports, ~Committed(i)
               PROVE  /\ \A qq \in Priorities : \A k \in DOMAIN pool'[i][qq] :
                           pool'[i][qq][k].client = at => pool'[i][qq][k].n < held.packet.n
                      /\ \A w \in wire' :
                           w.port = i /\ w.packet.client = at => w.packet.n < held.packet.n
    BY <1>1 DEF CommitsNewest, Committed
  <2>1. /\ \A qq \in Priorities : \A k \in DOMAIN pool[i][qq] :
             pool[i][qq][k].client = at => pool[i][qq][k].n < held.packet.n
        /\ \A w \in wire :
             w.port = i /\ w.packet.client = at => w.packet.n < held.packet.n
    BY DEF IInv, CommitsNewest
  <2>2. \A qq \in Priorities : \A k \in DOMAIN pool'[i][qq] :
          pool'[i][qq][k].client = at => pool'[i][qq][k].n < held.packet.n
    BY <1>4, <2>1
  <2>3. i = p /\ pkt.client = at => pkt.n < held.packet.n
    BY <1>2, <2>1
  <2> QED  BY <1>1, <2>1, <2>2, <2>3
<1>13. WireIsOlder'
  <2> SUFFICES ASSUME NEW i \in Ports, NEW o \in Priorities,
                      NEW k \in DOMAIN pool'[i][o], NEW w \in wire',
                      w.port = i, w.packet.prio = o,
                      w.packet.client = pool'[i][o][k].client, pool'[i][o][k].stage = 1
               PROVE  w.packet.n < pool'[i][o][k].n
    BY DEF WireIsOlder
  <2> DEFINE new == [port |-> p, packet |-> pkt]
  <2>0. wire' = wire \cup {new}
    BY <1>1
  <2> HIDE DEF new
  <2>1. CASE w \in wire
    <3>1. PICK j \in DOMAIN pool[i][o] : pool'[i][o][k] = pool[i][o][j]
      BY <1>4
    <3> QED  BY <2>1, <3>1 DEF IInv, WireIsOlder
  <2>2. CASE w = new
    <3>1. i = p /\ o = q /\ w.packet = pkt
      BY <2>2 DEF new
    <3>2. PICK j \in DOMAIN pool[p][q] : 1 < j /\ pool'[p][q][k] = pool[p][q][j]
      BY <1>b, <3>1
    <3>3. pool[p][q][1].client = pool[p][q][j].client => pool[p][q][1].n < pool[p][q][j].n
      <4>1. j \in DOMAIN pool[p][q] /\ 1 \in DOMAIN pool[p][q] /\ 1 < j /\ q \in Priorities
        BY <1>2, <3>2
      <4> QED  BY <4>1, HeadIsFirst
    <3> QED  BY <1>2, <3>1, <3>2, <3>3
  <2>3. w \in wire \/ w = new
    BY <2>0
  <2> QED  BY <2>1, <2>2, <2>3
<1>14. ~Untold(p, q)
  <2>1. Head(pool[p][q]).stage = 1
    BY <1>2, <1>3
  <2> QED  BY <2>1 DEF Untold
<1>15. \A i \in Ports, o \in Priorities :
         i # p \/ o # q => /\ Untold(i, o)' <=> Untold(i, o)
                           /\ pool'[i][o] = pool[i][o]
  BY <1>1, <1>a, <1>6 DEF Untold
<1>16. RingOfHeads'
  <2>1. CASE ~pkt.timed
    <3>1. ~Untold(p, q)'
      BY <1>d, <2>1 DEF Untold
    <3>2. \A i \in Ports, o \in Priorities :
            /\ Untold(i, o)' <=> Untold(i, o)
            /\ Untold(i, o) => pool'[i][o] = pool[i][o]
      BY <1>14, <1>15, <3>1
    <3> QED  BY <1>1, <2>1, <3>2 DEF IInv, RingOfHeads, NextEntry
  <2>2. CASE pkt.timed
    <3>1. /\ \A i \in Ports : i # p => tsRing'[i] = tsRing[i]
          /\ tsRing'[p].rdIndex = tsRing[p].rdIndex
          /\ tsRing'[p].wrIndex = NextEntry(tsRing[p].wrIndex)
          /\ tsRing'[p].fifo[tsRing[p].wrIndex] = sent
          /\ \A k \in 0 .. Entries - 1 :
               k # tsRing[p].wrIndex => tsRing'[p].fifo[k] = tsRing[p].fifo[k]
      BY <1>1, <1>d, <2>2, AddEntryAdds DEF IInv
    <3>2. Head(pool'[p][q]) = sent /\ pool'[p][q] # <<>> /\ sent.stage = 2
      BY <1>d, <2>2
    <3>3. Untold(p, q)'
      BY <1>6, <1>7, <1>1, <3>2 DEF Untold
    <3> DEFINE rd == tsRing[p].rdIndex
               wr == tsRing[p].wrIndex
               second == NextEntry(rd)
    <3>4. /\ rd \in 0 .. Entries - 1 /\ second \in 0 .. Entries - 1 /\ second # rd
      BY NextEntryIsNext DEF IInv, TypeOK
    <3> DEFINE None0 == wr = rd /\ \A o \in Priorities : ~Untold(p, o)
               Only(x) == /\ wr = second
                          /\ Untold(p, x) /\ tsRing[p].fifo[rd] = Head(pool[p][x])
                          /\ \A o \in Priorities : Untold(p, o) => o = x
               Both == \E x, o \in Priorities : x # o /\ Untold(p, x) /\ Untold(p, o)
    <3>5. None0 \/ (\E x \in Priorities : Only(x)) \/ Both
      BY DEF IInv, RingOfHeads
    <3>6. ~Both
      BY <1>14, <1>2 DEF Priorities
    <3>7. None0 => /\ tsRing'[p].wrIndex = NextEntry(tsRing'[p].rdIndex)
                   /\ tsRing'[p].fifo[tsRing'[p].rdIndex] = Head(pool'[p][q])
                   /\ \A o \in Priorities : Untold(p, o)' => o = q
      <4>1. None0 => \A o \in Priorities : Untold(p, o)' => o = q
        BY <1>15
      <4> QED  BY <3>1, <3>2, <4>1
    <3>8. \A x \in Priorities : Only(x) =>
            /\ x # q /\ Untold(p, x)'
            /\ tsRing'[p].wrIndex = NextEntry(NextEntry(tsRing'[p].rdIndex))
            /\ tsRing'[p].fifo[tsRing'[p].rdIndex] = Head(pool'[p][x])
            /\ tsRing'[p].fifo[NextEntry(tsRing'[p].rdIndex)] = Head(pool'[p][q])
      <4> SUFFICES ASSUME NEW x \in Priorities, Only(x)
                   PROVE  /\ x # q /\ Untold(p, x)'
                          /\ tsRing'[p].wrIndex = NextEntry(NextEntry(tsRing'[p].rdIndex))
                          /\ tsRing'[p].fifo[tsRing'[p].rdIndex] = Head(pool'[p][x])
                          /\ tsRing'[p].fifo[NextEntry(tsRing'[p].rdIndex)] = Head(pool'[p][q])
        OBVIOUS
      <4>1. x # q
        BY <1>14
      <4>2. Untold(p, x)' /\ pool'[p][x] = pool[p][x]
        BY <1>15, <4>1
      <4> QED  BY <3>1, <3>2, <3>4, <4>1, <4>2
    <3> HIDE DEF None0, Only, Both
    <3> SUFFICES ASSUME NEW i \in Ports
                 PROVE  LET n == NextEntry(tsRing'[i].rdIndex) IN
                        \/ /\ tsRing'[i].wrIndex = tsRing'[i].rdIndex
                           /\ \A o \in Priorities : ~Untold(i, o)'
                        \/ /\ tsRing'[i].wrIndex = n
                           /\ \E o \in Priorities :
                                /\ Untold(i, o)'
                                /\ tsRing'[i].fifo[tsRing'[i].rdIndex] = Head(pool'[i][o])
                                /\ \A x \in Priorities : Untold(i, x)' => x = o
                        \/ /\ tsRing'[i].wrIndex = NextEntry(n)
                           /\ \E o, x \in Priorities :
                                /\ o # x /\ Untold(i, o)' /\ Untold(i, x)'
                                /\ tsRing'[i].fifo[tsRing'[i].rdIndex] = Head(pool'[i][o])
                                /\ tsRing'[i].fifo[n] = Head(pool'[i][x])
      BY DEF RingOfHeads, NextEntry
    <3>9. CASE i = p
      BY <1>2, <3>3, <3>5, <3>6, <3>7, <3>8, <3>9
    <3>10. CASE i # p
      <4>1. \A o \in Priorities : (Untold(i, o)' <=> Untold(i, o)) /\ pool'[i][o] = pool[i][o]
        BY <1>15, <3>10
      <4>2. tsRing'[i] = tsRing[i]
        BY <3>1, <3>10
      <4>3. RingOfHeads
        BY DEF IInv
      <4> QED  BY <4>1, <4>2, <4>3 DEF RingOfHeads
    <3> QED  BY <3>9, <3>10
  <2> QED  BY <2>1, <2>2
<1>17. OvertakenIsNext'
  <2> SUFFICES ASSUME NEW i \in Ports
               PROVE  /\ overtaken[i] <= 1
                      /\ overtaken[i] = 1 =>
                           /\ Waiting(i, "hp")'
                           /\ \/ txpc'[i] = "hp"
                              \/ txpc'[i] = "send" /\ tx'[i].prio = "lp"
    BY <1>1 DEF OvertakenIsNext
  <2>1. /\ overtaken[i] <= 1
        /\ overtaken[i] = 1 => /\ Waiting(i, "hp")
                               /\ \/ txpc[i] = "hp"
                                  \/ txpc[i] = "send" /\ tx[i].prio = "lp"
    BY DEF IInv, OvertakenIsNext
  <2>2. CASE i = p
    <3>1. overtaken[i] = 1 => q = "lp"
      BY <1>1, <2>1, <2>2
    <3>2. overtaken[i] = 1 => pool'[i]["hp"] = pool[i]["hp"]
      BY <1>a, <3>1 DEF Priorities
    <3>3. txpc'[i] = "hp"
      BY <1>5, <2>2
    <3> QED  BY <2>1, <3>2, <3>3 DEF Waiting, Sendable
  <2>3. CASE i # p
    <3>1. pool'[i]["hp"] = pool[i]["hp"] /\ tx'[i] = tx[i] /\ txpc'[i] = txpc[i]
      BY <1>a, <1>5, <2>3 DEF Priorities
    <3> QED  BY <2>1, <3>1 DEF Waiting, Sendable
  <2> QED  BY <2>2, <2>3
<1> QED  BY <1>c, <1>8, <1>9, <1>10, <1>11, <1>12, <1>13, <1>16, <1>17 DEF IInv

-----------------------------------------------------------------------------
(* Every step. *)

LEMMA NextKeepsIInv == IInv /\ [Next]_vars => IInv'
<1> SUFFICES ASSUME IInv, [Next]_vars PROVE IInv'
  OBVIOUS
<1>1. CASE \E c \in Clients : Ask(c) \/ SelectCommand(c)
  BY <1>1, AskStep, SelectCommandStep
<1>2. CASE Serve
  BY <1>2, ServeNoneStep, ServeTransferStep, CommitStep DEF Serve
<1>3. CASE SelectDefault \/ SelectLinkCheck
  BY <1>3, SelectStep
<1>4. CASE Stamps
  BY <1>4, GetEntryStep, TellStep, FreeToldStep DEF Stamps
<1>5. CASE \E p \in Ports : Pins(p)
  BY <1>5, SentStep, LookStep DEF Pins
<1>6. CASE UNCHANGED vars
  <2>1. UNCHANGED <<cpc, request, asked, spc, at, port, enabled, pendingCmd, held, pool,
                    tsRing, txpc, tx, wire, overtaken, pinVars>>
    BY <1>6 DEF vars, clientVars, serverVars, pinVars
  <2>2. TypeOK'
    BY <2>1 DEF IInv, TypeOK
  <2>3. ServerHolds'
    BY <2>1 DEF IInv, ServerHolds, Telling
  <2>4. AllIssued'
    BY <2>1, IssuedStays DEF Issued
  <2>5. CommitsNewest'
    BY <2>1 DEF IInv, CommitsNewest, Committed
  <2>6. RingOfHeads'
    BY <2>1, RingStays DEF Telling
  <2> QED  BY <2>1, <2>2, <2>3, <2>4, <2>5, <2>6, PoolsStay, PinsStay, WireStays,
              OvertakenStays DEF IInv
<1> QED  BY <1>1, <1>2, <1>3, <1>4, <1>5, <1>6 DEF Next

-----------------------------------------------------------------------------
(* The times of sending. *)

(* A step that puts nothing into the pools and takes nothing out of them.   *)
LEMMA TimedStays ==
  ASSUME TimedInv, UNCHANGED pool,
         \A c \in Clients : cpc[c] = "stamp" => cpc'[c] = "stamp" /\ asked'[c] = asked[c],
         spc = "free" => spc' = "free" /\ held' = held
  PROVE  /\ TimedOncePooled' /\ TimedOneAtATime'
         /\ (spc' = "commit" => spc = "commit" /\ at' = at /\ held' = held) => CommitAwaited'
<1>1. TimedOncePooled'
  BY DEF TimedInv, TimedOncePooled
<1>2. TimedOneAtATime'
  BY DEF TimedInv, TimedOneAtATime
<1>3. ASSUME spc' = "commit", spc = "commit", at' = at, held' = held
      PROVE  CommitAwaited'
  <2>1. at \in Clients
    BY <1>3 DEF TimedInv, IInv, ServerHolds
  <2> QED  BY <1>3, <2>1 DEF TimedInv, CommitAwaited
<1>4. spc' # "commit" => CommitAwaited'
  BY DEF CommitAwaited
<1> QED  BY <1>1, <1>2, <1>3, <1>4

(* The packets of one pool keep their fields, and move up or stay.          *)
LEMMA TimedMoves ==
  ASSUME TimedInv, NEW p \in Ports, NEW q \in Priorities, NEW d \in {0, 1},
         \A pp \in Ports, qq \in Priorities :
           pp # p \/ qq # q => pool'[pp][qq] = pool[pp][qq],
         \A k \in DOMAIN pool'[p][q] :
           /\ k \in Nat /\ k + d \in DOMAIN pool[p][q]
           /\ pool'[p][q][k].client = pool[p][q][k + d].client
           /\ pool'[p][q][k].n = pool[p][q][k + d].n
           /\ pool'[p][q][k].timed = pool[p][q][k + d].timed
  PROVE  TimedOncePooled'
<1> DEFINE Place(pp, qq, k) == IF pp = p /\ qq = q THEN k + d ELSE k
<1>1. ASSUME NEW pp \in Ports, NEW qq \in Priorities, NEW k \in DOMAIN pool'[pp][qq]
      PROVE  /\ Place(pp, qq, k) \in DOMAIN pool[pp][qq]
             /\ pool'[pp][qq][k].client = pool[pp][qq][Place(pp, qq, k)].client
             /\ pool'[pp][qq][k].n = pool[pp][qq][Place(pp, qq, k)].n
             /\ pool'[pp][qq][k].timed = pool[pp][qq][Place(pp, qq, k)].timed
  <2>1. CASE pp = p /\ qq = q
    BY <2>1
  <2>2. CASE pp # p \/ qq # q
    <3>1. pool'[pp][qq] = pool[pp][qq] /\ Place(pp, qq, k) = k
      BY <2>2
    <3> QED  BY <3>1
  <2> QED  BY <2>1, <2>2
<1>2. ASSUME NEW pp \in Ports, NEW qq \in Priorities,
             NEW j \in DOMAIN pool'[pp][qq], NEW k \in DOMAIN pool'[pp][qq],
             Place(pp, qq, j) = Place(pp, qq, k)
      PROVE  j = k
  BY <1>2
<1> HIDE DEF Place
<1> SUFFICES ASSUME NEW pp \in Ports, NEW qq \in Priorities, NEW k \in DOMAIN pool'[pp][qq],
                    NEW po \in Ports, NEW qo \in Priorities, NEW ko \in DOMAIN pool'[po][qo],
                    pool'[pp][qq][k].timed, pool'[po][qo][ko].timed,
                    pool'[pp][qq][k].client = pool'[po][qo][ko].client,
                    pool'[pp][qq][k].n = pool'[po][qo][ko].n
             PROVE  pp = po /\ qq = qo /\ k = ko
  BY DEF TimedOncePooled
<1> DEFINE j == Place(pp, qq, k)
           jo == Place(po, qo, ko)
<1>3. /\ j \in DOMAIN pool[pp][qq] /\ jo \in DOMAIN pool[po][qo]
      /\ pool[pp][qq][j].timed /\ pool[po][qo][jo].timed
      /\ pool[pp][qq][j].client = pool[po][qo][jo].client
      /\ pool[pp][qq][j].n = pool[po][qo][jo].n
  BY <1>1
<1>4. pp = po /\ qq = qo /\ j = jo
  <2> HIDE DEF j, jo
  <2> QED  BY <1>3 DEF TimedInv, TimedOncePooled
<1> QED  BY <1>2, <1>4

LEMMA TransferTimed ==
  ASSUME NoTimedBroadcast, TimedInv, ServeTransfer
  PROVE  CommitAwaited' /\ TimedOncePooled' /\ TimedOneAtATime'
<1>1. /\ spc = "serve" /\ cpc[at] = "transfer"
      /\ cpc' = [cpc EXCEPT ![at] = IF request[at].timed THEN "stamp" ELSE "idle"]
      /\ held' = [packet |-> NewPacket(at), to |-> request[at].to]
      /\ UNCHANGED <<request, asked, at, pool>>
  BY DEF ServeTransfer
<1>2. at \in Clients /\ request[at] # None /\ request[at] \in Requests[at]
  BY <1>1 DEF TimedInv, IInv, ServerHolds
<1>3. /\ NewPacket(at).n = asked[at] /\ NewPacket(at).timed = request[at].timed
  BY <1>2, NewPacketFields DEF TimedInv, IInv
<1>4. cpc'[at] = (IF request[at].timed THEN "stamp" ELSE "idle")
      /\ \A c \in Clients : c # at => cpc'[c] = cpc[c]
  BY <1>1, <1>2 DEF TimedInv, IInv, TypeOK
<1>5. TimedOncePooled' /\ TimedOneAtATime'
  BY <1>1, <1>4, TimedStays
<1>6. CommitAwaited'
  <2> SUFFICES ASSUME held'.packet.timed
               PROVE  cpc'[at] = "stamp" /\ held'.packet.n = asked[at] /\ held'.to # Ports
    BY <1>1 DEF CommitAwaited
  <2> DEFINE pkt == NewPacket(at)
  <2>1. held'.packet = pkt /\ held'.to = request[at].to
    BY <1>1
  <2>2. pkt.n = asked[at] /\ pkt.timed = request[at].timed
    BY <1>3
  <2> HIDE DEF pkt
  <2>3. request[at].timed
    BY <2>1, <2>2
  <2> QED  BY <1>2, <1>4, <2>1, <2>2, <2>3 DEF NoTimedBroadcast
<1> QED  BY <1>5, <1>6

LEMMA CommitTimed ==
  ASSUME TimedInv, Commit
  PROVE  CommitAwaited' /\ TimedOncePooled' /\ TimedOneAtATime'
<1> DEFINE pkt == held.packet
<1>1. /\ spc = "commit" /\ UNCHANGED <<cpc, asked>>
      /\ spc' = "commit" => at' = at /\ held' = held
  BY DEF Commit, NextClient, clientVars
<1>2. /\ at \in Clients /\ pkt.client = at /\ held.to \in SUBSET Ports
      /\ pkt \in Packets /\ port \in Ports
  BY <1>1 DEF TimedInv, IInv, TypeOK, ServerHolds
<1>3. pkt.timed => cpc[at] = "stamp" /\ pkt.n = asked[at] /\ held.to # Ports
  BY <1>1 DEF TimedInv, CommitAwaited
<1>4. pkt.n \in Nat
  BY <1>2, PacketFields
<1>5. \A p \in Ports, q \in Priorities : \A k \in DOMAIN pool'[p][q] :
        \/ k \in DOMAIN pool[p][q] /\ pool'[p][q][k] = pool[p][q][k]
        \/ /\ Into(p, q)
           /\ pool'[p][q][k] = pkt
           /\ k = Len(pool[p][q]) + 1
  BY CommitPool DEF TimedInv
<1>6. \A p \in Ports, q \in Priorities : \A k \in DOMAIN pool[p][q] :
        pool[p][q][k].client = at /\ pool[p][q][k].n = pkt.n => p < port /\ p \in held.to
  <2> TAKE p \in Ports, q \in Priorities
  <2> TAKE k \in DOMAIN pool[p][q]
  <2>1. Committed(p) \/ (pool[p][q][k].client = at => pool[p][q][k].n < pkt.n)
    BY <1>1 DEF TimedInv, IInv, CommitsNewest
  <2> HIDE DEF pkt
  <2> QED  BY <1>4, <2>1 DEF Committed
<1>7. \A p, pp \in Ports : ~(p < pp /\ p \in held.to /\ pp \in held.to /\ pkt.timed)
  BY <1>2, <1>3 DEF Ports
<1> DEFINE Was(p, q, k) == k \in DOMAIN pool[p][q] /\ pool'[p][q][k] = pool[p][q][k]
           IsNew(p, q, k) == /\ Into(p, q)
                             /\ pool'[p][q][k] = pkt
                             /\ k = Len(pool[p][q]) + 1
<1>8. CommitAwaited'
  BY <1>1, <1>2 DEF TimedInv, CommitAwaited
<1>9. TimedOncePooled'
  <2> SUFFICES ASSUME NEW pp \in Ports, NEW qq \in Priorities, NEW k \in DOMAIN pool'[pp][qq],
                      NEW po \in Ports, NEW qo \in Priorities, NEW ko \in DOMAIN pool'[po][qo],
                      pool'[pp][qq][k].timed, pool'[po][qo][ko].timed,
                      pool'[pp][qq][k].client = pool'[po][qo][ko].client,
                      pool'[pp][qq][k].n = pool'[po][qo][ko].n
               PROVE  pp = po /\ qq = qo /\ k = ko
    BY DEF TimedOncePooled
  <2>1. /\ Was(pp, qq, k) \/ IsNew(pp, qq, k)
        /\ Was(po, qo, ko) \/ IsNew(po, qo, ko)
    BY <1>5
  <2>2. CASE Was(pp, qq, k) /\ Was(po, qo, ko)
    BY <2>2 DEF TimedInv, TimedOncePooled
  <2>3. CASE IsNew(pp, qq, k) /\ IsNew(po, qo, ko)
    BY <2>3 DEF Into
  <2>4. ~(Was(pp, qq, k) /\ IsNew(po, qo, ko))
    <3> SUFFICES ASSUME Was(pp, qq, k), IsNew(po, qo, ko) PROVE FALSE
      OBVIOUS
    <3>1. pkt.timed /\ po = port /\ port \in held.to
      BY DEF Into
    <3>2. pool[pp][qq][k].client = at /\ pool[pp][qq][k].n = pkt.n
      BY <1>2
    <3> QED  BY <1>2, <1>6, <1>7, <3>1, <3>2
  <2>5. ~(IsNew(pp, qq, k) /\ Was(po, qo, ko))
    <3> SUFFICES ASSUME IsNew(pp, qq, k), Was(po, qo, ko) PROVE FALSE
      OBVIOUS
    <3>1. pkt.timed /\ pp = port /\ port \in held.to
      BY DEF Into
    <3>2. pool[po][qo][ko].client = at /\ pool[po][qo][ko].n = pkt.n
      BY <1>2
    <3> QED  BY <1>2, <1>6, <1>7, <3>1, <3>2
  <2> HIDE DEF Was, IsNew
  <2> QED  BY <2>1, <2>2, <2>3, <2>4, <2>5
<1>10. TimedOneAtATime'
  <2> SUFFICES ASSUME NEW c \in Clients, NEW p \in Ports, NEW q \in Priorities,
                      NEW k \in DOMAIN pool'[p][q],
                      pool'[p][q][k].client = c, pool'[p][q][k].timed
               PROVE  pool'[p][q][k].n = asked[c] /\ cpc[c] = "stamp"
    BY <1>1 DEF TimedOneAtATime
  <2>1. CASE Was(p, q, k)
    BY <1>1, <2>1 DEF TimedInv, TimedOneAtATime
  <2>2. CASE IsNew(p, q, k)
    BY <1>2, <1>3, <2>2
  <2>3. Was(p, q, k) \/ IsNew(p, q, k)
    BY <1>5
  <2> QED  BY <2>1, <2>2, <2>3
<1> QED  BY <1>8, <1>9, <1>10

(* What the server tells is at the head of its pool, and timed.             *)
LEMMA ToldIsTimed ==
  ASSUME IInv, NEW p \in Ports, Telling(p)
  PROVE  /\ held \in Packets /\ held.client \in Clients /\ held.prio \in Priorities
         /\ held.timed /\ held.stage = 2
         /\ 1 \in DOMAIN pool[p][held.prio] /\ pool[p][held.prio][1] = held
<1>1. held \in Packets /\ held.client \in Clients /\ held.prio \in Priorities
  BY PacketFields DEF IInv, TypeOK, Telling
<1>2. held.stage = 2 /\ pool[p][held.prio] # <<>> /\ Head(pool[p][held.prio]) = held
  BY DEF IInv, ServerHolds
<1>3. 1 \in DOMAIN pool[p][held.prio] /\ pool[p][held.prio][1] = held
  BY <1>1, <1>2, PoolIsSequence DEF IInv
<1>4. held.timed
  BY <1>1, <1>2, <1>3 DEF IInv, PoolsInOrder
<1> QED  BY <1>1, <1>2, <1>3, <1>4

(* It is nowhere else.                                                      *)
LEMMA ToldIsFirst ==
  ASSUME TimedInv, NEW i \in Ports, Telling(i),
         NEW p \in Ports, NEW q \in Priorities, NEW j \in DOMAIN pool[p][q],
         pool[p][q][j] = held
  PROVE  p = i /\ q = held.prio /\ j = 1
<1>1. /\ held.prio \in Priorities /\ held.timed
      /\ 1 \in DOMAIN pool[i][held.prio] /\ pool[i][held.prio][1] = held
  BY ToldIsTimed DEF TimedInv
<1> QED  BY <1>1 DEF TimedInv, TimedOncePooled

LEMMA TellTimed ==
  ASSUME TimedInv, Tell
  PROVE  CommitAwaited' /\ TimedOncePooled' /\ TimedOneAtATime'
<1>1. /\ spc = "tell" /\ spc' = "free"
      /\ cpc' = [cpc EXCEPT ![held.client] = "idle"]
      /\ UNCHANGED <<asked, at, held, pool>>
  BY DEF Tell
<1>2. at \in Ports /\ Telling(at)
  BY <1>1 DEF TimedInv, IInv, ServerHolds, Telling
<1>3. /\ held.client \in Clients /\ held.prio \in Priorities /\ held.timed
      /\ 1 \in DOMAIN pool[at][held.prio] /\ pool[at][held.prio][1] = held
  BY <1>2, ToldIsTimed DEF TimedInv
<1>4. held.n = asked[held.client]
  BY <1>1, <1>2, <1>3 DEF TimedInv, TimedOneAtATime
<1>5. \A c \in Clients : c # held.client => cpc'[c] = cpc[c]
  BY <1>1, <1>3 DEF TimedInv, IInv, TypeOK
<1>6. TimedOneAtATime'
  <2> SUFFICES ASSUME NEW c \in Clients, NEW p \in Ports, NEW q \in Priorities,
                      NEW k \in DOMAIN pool[p][q],
                      pool[p][q][k].client = c, pool[p][q][k].timed
               PROVE  \/ pool[p][q][k].n = asked[c] /\ cpc'[c] = "stamp"
                      \/ held = pool[p][q][k]
    BY <1>1 DEF TimedOneAtATime
  <2>1. pool[p][q][k].n = asked[c] /\ cpc[c] = "stamp"
    BY <1>1 DEF TimedInv, TimedOneAtATime
  <2>2. CASE c = held.client
    <3>1. p = at /\ q = held.prio /\ k = 1
      BY <1>2, <1>3, <1>4, <2>1, <2>2 DEF TimedInv, TimedOncePooled
    <3> QED  BY <1>3, <3>1
  <2>3. CASE c # held.client
    BY <1>5, <2>1, <2>3
  <2> QED  BY <2>2, <2>3
<1>7. TimedOncePooled'
  BY <1>1 DEF TimedInv, TimedOncePooled
<1> QED  BY <1>1, <1>6, <1>7 DEF CommitAwaited

LEMMA FreeToldTimed ==
  ASSUME TimedInv, FreeTold
  PROVE  CommitAwaited' /\ TimedOncePooled' /\ TimedOneAtATime'
<1> DEFINE q0 == held.prio
<1>1. /\ spc = "free" /\ FreeHead(at, q0) /\ NextPort(at)
      /\ UNCHANGED <<cpc, asked>>
  BY DEF FreeTold, clientVars
<1>2. at \in Ports /\ Telling(at)
  BY <1>1 DEF TimedInv, IInv, ServerHolds, Telling
<1>3. /\ q0 \in Priorities /\ held.timed
      /\ 1 \in DOMAIN pool[at][q0] /\ pool[at][q0][1] = held /\ pool[at][q0] # <<>>
  <2>1. /\ q0 \in Priorities /\ held.timed
        /\ 1 \in DOMAIN pool[at][q0] /\ pool[at][q0][1] = held
    BY <1>2, ToldIsTimed DEF TimedInv
  <2> QED  BY <2>1
<1> HIDE DEF q0
<1>4. spc' # "commit"
  BY <1>1, <1>2, NextPortIsPort
<1>5. /\ \A pp \in Ports, qq \in Priorities :
           pp # at \/ qq # q0 => pool'[pp][qq] = pool[pp][qq]
      /\ \A k \in DOMAIN pool'[at][q0] :
           /\ k + 1 \in DOMAIN pool[at][q0] /\ k + 1 > 1
           /\ pool'[at][q0][k] = pool[at][q0][k + 1]
      /\ pool'[at][q0] \in Seq(Packets)
  <2>1. IInv
    BY DEF TimedInv
  <2>2. /\ pool' \in [Ports -> [Priorities -> Seq(Packets)]]
        /\ \A pp \in Ports, qq \in Priorities :
             pp # at \/ qq # q0 => pool'[pp][qq] = pool[pp][qq]
        /\ \A k \in DOMAIN pool'[at][q0] :
             /\ k + 1 \in DOMAIN pool[at][q0] /\ k + 1 > 1
             /\ pool'[at][q0][k] = pool[at][q0][k + 1]
    BY <1>1, <1>2, <1>3, <2>1, FreedPool
  <2> QED  BY <1>2, <1>3, <2>2
<1>6. TimedOncePooled'
  <2>1. \A k \in DOMAIN pool'[at][q0] : k \in Nat
    BY <1>5
  <2>2. \A k \in DOMAIN pool'[at][q0] :
          /\ k \in Nat /\ k + 1 \in DOMAIN pool[at][q0]
          /\ pool'[at][q0][k].client = pool[at][q0][k + 1].client
          /\ pool'[at][q0][k].n = pool[at][q0][k + 1].n
          /\ pool'[at][q0][k].timed = pool[at][q0][k + 1].timed
    BY <1>5, <2>1
  <2>3. 1 \in {0, 1}
    OBVIOUS
  <2> QED  BY <1>2, <1>3, <1>5, <2>2, <2>3, TimedMoves
<1>7. TimedOneAtATime'
  <2> SUFFICES ASSUME NEW c \in Clients, NEW p \in Ports, NEW q \in Priorities,
                      NEW k \in DOMAIN pool'[p][q],
                      pool'[p][q][k].client = c, pool'[p][q][k].timed
               PROVE  pool'[p][q][k].n = asked[c] /\ cpc[c] = "stamp"
    BY <1>1 DEF TimedOneAtATime
  <2>1. PICK j \in DOMAIN pool[p][q] :
          /\ pool'[p][q][k] = pool[p][q][j]
          /\ ~(p = at /\ q = q0 /\ j = 1)
    <3>1. CASE p = at /\ q = q0
      BY <1>5, <3>1
    <3>2. CASE p # at \/ q # q0
      <4>1. pool'[p][q] = pool[p][q]
        BY <1>5, <3>2
      <4> QED  BY <3>2, <4>1
    <3> QED  BY <3>1, <3>2
  <2>2. held # pool[p][q][j]
    BY <1>2, <2>1, ToldIsFirst DEF q0
  <2> QED  BY <2>1, <2>2 DEF TimedInv, TimedOneAtATime
<1> QED  BY <1>4, <1>6, <1>7 DEF CommitAwaited

LEMMA SentTimed ==
  ASSUME TimedInv, NEW p \in Ports, Sent(p),
         NEW pkt, pkt = tx[p],
         NEW q, q = pkt.prio
  PROVE  CommitAwaited' /\ TimedOncePooled' /\ TimedOneAtATime'
<1> DEFINE d == IF pkt.timed THEN 0 ELSE 1
<1>1. UNCHANGED <<cpc, asked, spc, at, held>>
  BY DEF Sent, clientVars, serverVars
<1>2. IInv
  BY DEF TimedInv
<1>3. PICK sent : sent = Marked(pkt)
  OBVIOUS
<1>4. /\ q \in Priorities
      /\ pkt = pool[p][q][1] /\ Waiting(p, q) /\ Head(pool[p][q]) = pkt
      /\ pool' \in [Ports -> [Priorities -> Seq(Packets)]]
      /\ \A pp \in Ports, qq \in Priorities :
           pp # p \/ qq # q => pool'[pp][qq] = pool[pp][qq]
      /\ Remains(p, q, pkt.timed)
  BY <1>2, <1>3, SentPool
<1>5. pkt.stage = 1
  BY <1>4 DEF Waiting, Sendable
<1>6. \A k \in DOMAIN pool'[p][q] :
        /\ k \in Nat /\ k + d \in DOMAIN pool[p][q]
        /\ pool'[p][q][k].client = pool[p][q][k + d].client
        /\ pool'[p][q][k].n = pool[p][q][k + d].n
        /\ pool'[p][q][k].timed = pool[p][q][k + d].timed
  <2> TAKE k \in DOMAIN pool'[p][q]
  <2>1. pool'[p][q] \in Seq(Packets)
    BY <1>4
  <2>2. k \in Nat
    BY <2>1
  <2>3. PICK j \in DOMAIN pool[p][q] :
          /\ pool'[p][q][k].client = pool[p][q][j].client
          /\ pool'[p][q][k].n = pool[p][q][j].n
          /\ pool'[p][q][k].timed = pool[p][q][j].timed
          /\ j = IF pkt.timed THEN k ELSE k + 1
    BY <1>4 DEF Remains
  <2>4. j = k + d
    BY <2>2, <2>3
  <2> QED  BY <2>2, <2>3, <2>4
<1>7. d \in {0, 1}
  OBVIOUS
<1> HIDE DEF d
<1>8. TimedOncePooled'
  BY <1>4, <1>6, <1>7, TimedMoves
<1>9. TimedOneAtATime'
  <2> SUFFICES ASSUME NEW c \in Clients, NEW pp \in Ports, NEW qq \in Priorities,
                      NEW k \in DOMAIN pool'[pp][qq],
                      pool'[pp][qq][k].client = c, pool'[pp][qq][k].timed
               PROVE  \/ pool'[pp][qq][k].n = asked[c] /\ cpc[c] = "stamp"
                      \/ spc = "free" /\ held = pool'[pp][qq][k]
    BY <1>1 DEF TimedOneAtATime
  <2>1. CASE pp # p \/ qq # q
    <3>1. pool'[pp][qq] = pool[pp][qq]
      BY <1>4, <2>1
    <3> QED  BY <3>1 DEF TimedInv, TimedOneAtATime
  <2>2. CASE pp = p /\ qq = q
    <3>1. /\ k + d \in DOMAIN pool[p][q]
          /\ pool[p][q][k + d].client = c /\ pool[p][q][k + d].timed
          /\ pool[p][q][k + d].n = pool'[pp][qq][k].n
      BY <1>6, <2>2
    <3>2. ~(spc = "free" /\ held = pool[p][q][k + d])
      <4> SUFFICES ASSUME spc = "free", held = pool[p][q][k + d] PROVE FALSE
        OBVIOUS
      <4>1. at \in Ports /\ Telling(at)
        BY <1>2 DEF IInv, ServerHolds, Telling
      <4>2. /\ held.prio \in Priorities /\ held.timed /\ held.stage = 2
            /\ 1 \in DOMAIN pool[at][held.prio] /\ pool[at][held.prio][1] = held
        BY <1>2, <4>1, ToldIsTimed
      <4> PICK j : j = k + d
        OBVIOUS
      <4>3. j \in DOMAIN pool[p][q] /\ pool[p][q][j] = held
        BY <3>1
      <4>4. p = at /\ q = held.prio /\ j = 1
        <5>1. q \in Priorities
          BY <1>4
        <5> QED  BY <4>1, <4>3, <5>1, ToldIsFirst
      <4>5. held = pkt
        BY <1>4, <4>3, <4>4
      <4> QED  BY <1>5, <4>2, <4>5
    <3> QED  BY <1>4, <3>1, <3>2 DEF TimedInv, TimedOneAtATime
  <2> QED  BY <2>1, <2>2
<1>10. CommitAwaited'
  BY <1>1 DEF TimedInv, CommitAwaited
<1> QED  BY <1>8, <1>9, <1>10

LEMMA NextKeepsTimedInv ==
  ASSUME NoTimedBroadcast, TimedInv, [Next]_vars
  PROVE  TimedInv'
<1> USE DEF TimedInv
<1>1. IInv'
  BY NextKeepsIInv
<1>2. ASSUME NEW c \in Clients, Ask(c)
      PROVE  CommitAwaited' /\ TimedOncePooled' /\ TimedOneAtATime'
  <2>1. /\ cpc[c] = "idle" /\ UNCHANGED <<spc, at, held, pool>>
        /\ cpc' = [cpc EXCEPT ![c] = "command"]
        /\ asked' = [asked EXCEPT ![c] = @ + 1]
    BY <1>2 DEF Ask, serverVars
  <2>2. \A o \in Clients : cpc[o] = "stamp" => cpc'[o] = "stamp" /\ asked'[o] = asked[o]
    BY <2>1 DEF IInv, TypeOK
  <2> QED  BY <2>1, <2>2, TimedStays
<1>3. ASSUME NEW c \in Clients, SelectCommand(c)
      PROVE  CommitAwaited' /\ TimedOncePooled' /\ TimedOneAtATime'
  <2>1. /\ cpc[c] = "command" /\ UNCHANGED <<asked, pool>>
        /\ spc = "select" /\ spc' = "stamps"
        /\ \A o \in Clients : o # c => cpc'[o] = cpc[o]
    BY <1>3 DEF SelectCommand, Heard, IInv, TypeOK
  <2> QED  BY <2>1, TimedStays
<1>4. ASSUME SelectDefault \/ SelectLinkCheck
      PROVE  CommitAwaited' /\ TimedOncePooled' /\ TimedOneAtATime'
  <2>1. UNCHANGED <<cpc, asked, pool>> /\ spc = "select" /\ spc' = "stamps"
    BY <1>4 DEF SelectDefault, SelectLinkCheck, clientVars
  <2> QED  BY <2>1, TimedStays
<1>5. ASSUME ServeNone
      PROVE  CommitAwaited' /\ TimedOncePooled' /\ TimedOneAtATime'
  <2>1. UNCHANGED <<cpc, asked, pool>> /\ spc = "serve" /\ spc' # "commit"
    BY <1>5 DEF ServeNone, NextClient, clientVars
  <2> QED  BY <2>1, TimedStays
<1>6. ASSUME GetEntry
      PROVE  CommitAwaited' /\ TimedOncePooled' /\ TimedOneAtATime'
  <2>1. UNCHANGED <<cpc, asked, pool>> /\ spc = "stamps" /\ spc' # "commit"
    BY <1>6 DEF GetEntry, NextPort, clientVars
  <2> QED  BY <2>1, TimedStays
<1>7. ASSUME NEW p \in Ports, Pins(p)
      PROVE  CommitAwaited' /\ TimedOncePooled' /\ TimedOneAtATime'
  <2>1. CASE Sent(p)
    BY <2>1, SentTimed
  <2>2. CASE \E q \in Priorities : Look(p, q)
    <3>1. UNCHANGED <<cpc, asked, pool, spc, at, held>>
      BY <2>2 DEF Look, clientVars, serverVars
    <3> QED  BY <3>1, TimedStays
  <2> QED  BY <1>7, <2>1, <2>2 DEF Pins
<1>8. ASSUME UNCHANGED vars
      PROVE  CommitAwaited' /\ TimedOncePooled' /\ TimedOneAtATime'
  <2>1. UNCHANGED <<cpc, asked, pool, spc, at, held>>
    BY <1>8 DEF vars, clientVars, serverVars
  <2> QED  BY <2>1, TimedStays
<1> QED  BY <1>1, <1>2, <1>3, <1>4, <1>5, <1>6, <1>7, <1>8, TransferTimed, CommitTimed,
            TellTimed, FreeToldTimed DEF Next, Serve, Stamps

-----------------------------------------------------------------------------
(* Theorems. *)

(* IInv is an inductive invariant of the clients, the server and the        *)
(* transmit threads.                                                        *)
THEOREM TxInvariant == Spec => []IInv
<1>1. Init => IInv
  BY InitIInv
<1>2. IInv /\ [Next]_vars => IInv'
  BY NextKeepsIInv
<1> QED  BY <1>1, <1>2, PTL DEF Spec

(* A packet goes out once on each port, a client's packets of one priority  *)
(* in the order in which it asked.                                          *)
THEOREM TxSentOnceInOrder == Spec => []SentOnceInOrder
<1>1. IInv => SentOnceInOrder
  <2> SUFFICES ASSUME IInv, NEW p \in Ports, tx[p] # None, NEW w \in wire,
                      w.port = p, w.packet.client = tx[p].client, w.packet.prio = tx[p].prio
               PROVE  w.packet.n < tx[p].n
    BY DEF SentOnceInOrder
  <2>1. tx[p].prio \in Priorities
    BY PacketFields DEF IInv, TypeOK
  <2>2. Waiting(p, tx[p].prio) /\ tx[p] = Head(pool[p][tx[p].prio])
    BY DEF IInv, PinsSendHead
  <2>3. 1 \in DOMAIN pool[p][tx[p].prio] /\ tx[p] = pool[p][tx[p].prio][1] /\ tx[p].stage = 1
    BY <2>1, <2>2, PoolIsSequence DEF IInv, Waiting, Sendable
  <2> QED  BY <2>1, <2>3 DEF IInv, WireIsOlder
<1> QED  BY <1>1, TxInvariant, PTL

(* At most one low priority packet is begun while one of high priority waits. *)
THEOREM TxOvertakenOnce == Spec => []OvertakenOnce
<1>1. IInv => OvertakenOnce
  BY DEF IInv, OvertakenIsNext, OvertakenOnce
<1> QED  BY <1>1, TxInvariant, PTL

(* The entries of a timestamp queue are the sent packets of its port whose  *)
(* client is still to be told, each once, and none was overwritten.         *)
THEOREM TxRingHoldsSent == Spec => []RingHoldsSent
<1>1. IInv => RingHoldsSent
  <2> SUFFICES ASSUME IInv, NEW p \in Ports
               PROVE  /\ \A j, k \in Entered(p) :
                           tsRing[p].fifo[j] = tsRing[p].fifo[k] => j = k
                      /\ {tsRing[p].fifo[k] : k \in Entered(p)}
                           \cup (IF Telling(p) THEN {held} ELSE {}) = SentPackets(p)
                      /\ tx[p] # None =>
                           pool[p][tx[p].prio] # <<>> /\ Head(pool[p][tx[p].prio]) = tx[p]
                      /\ Telling(p) => pool[p][held.prio] # <<>> /\ Head(pool[p][held.prio]) = held
    BY DEF RingHoldsSent
  <2> DEFINE r == tsRing[p]
             second == NextEntry(r.rdIndex)
             Sent2(q) == pool[p][q] # <<>> /\ Head(pool[p][q]).stage = 2
  <2>1. /\ tx[p] # None =>
             pool[p][tx[p].prio] # <<>> /\ Head(pool[p][tx[p].prio]) = tx[p]
        /\ Telling(p) => pool[p][held.prio] # <<>> /\ Head(pool[p][held.prio]) = held
    BY DEF IInv, PinsSendHead, ServerHolds, Waiting
  <2>2. SentPackets(p) = {Head(pool[p][q]) : q \in {q \in Priorities : Sent2(q)}}
    <3>1. \A q \in Priorities :
            {pkt \in {pool[p][q][k] : k \in DOMAIN pool[p][q]} : pkt.stage = 2}
              = IF Sent2(q) THEN {Head(pool[p][q])} ELSE {}
      <4> TAKE q \in Priorities
      <4>1. pool[p][q] # <<>> => 1 \in DOMAIN pool[p][q] /\ Head(pool[p][q]) = pool[p][q][1]
        BY PoolIsSequence DEF IInv
      <4>2. \A k \in DOMAIN pool[p][q] : pool[p][q] # <<>> /\ (pool[p][q][k].stage = 2 => k = 1)
        BY PoolIsSequence DEF IInv, PoolsInOrder
      <4> QED  BY <4>1, <4>2
    <3> QED  BY <3>1 DEF SentPackets
  <2>3. \A q \in Priorities : Sent2(q) => Head(pool[p][q]).prio = q
    BY UntoldHead
  <2>4. \A q \in Priorities :
          /\ Sent2(q) => Untold(p, q) \/ (Telling(p) /\ held.prio = q)
          /\ Untold(p, q) => Sent2(q)
          /\ Telling(p) /\ held.prio = q => Sent2(q)
    <3> TAKE q \in Priorities
    <3>1. Telling(p) /\ held.prio = q => Sent2(q)
      BY DEF IInv, ServerHolds
    <3>2. Sent2(q) => Untold(p, q) \/ (Telling(p) /\ held.prio = q)
      BY DEF Untold
    <3>3. Untold(p, q) => Sent2(q)
      BY DEF Untold
    <3> QED  BY <3>1, <3>2, <3>3
  <2>5. Telling(p) => held.prio \in Priorities /\ held = Head(pool[p][held.prio])
    BY PacketFields DEF IInv, TypeOK, ServerHolds, Telling
  <2>6. SentPackets(p) = {Head(pool[p][q]) : q \in {q \in Priorities : Untold(p, q)}}
                           \cup (IF Telling(p) THEN {held} ELSE {})
    <3> DEFINE S == {Head(pool[p][q]) : q \in {q \in Priorities : Sent2(q)}}
               U == {Head(pool[p][q]) : q \in {q \in Priorities : Untold(p, q)}}
               T == IF Telling(p) THEN {held} ELSE {}
    <3> HIDE DEF Sent2
    <3>1. \A x : x \in S => x \in U \cup T
      <4> SUFFICES ASSUME NEW q \in Priorities, Sent2(q)
                   PROVE  Head(pool[p][q]) \in U \cup T
        OBVIOUS
      <4>1. CASE Untold(p, q)
        BY <4>1
      <4>2. CASE Telling(p) /\ held.prio = q
        BY <2>5, <4>2
      <4> QED  BY <2>4, <4>1, <4>2
    <3>2. \A x : x \in U => x \in S
      <4> SUFFICES ASSUME NEW q \in Priorities, Untold(p, q)
                   PROVE  Head(pool[p][q]) \in S
        OBVIOUS
      <4> QED  BY <2>4
    <3>3. \A x : x \in T => x \in S
      BY <2>4, <2>5
    <3> HIDE DEF S, U, T
    <3>4. S = U \cup T
      BY <3>1, <3>2, <3>3
    <3> QED  BY <2>2, <3>4 DEF S, U, T
  <2>7. /\ r.rdIndex \in 0 .. Entries - 1 /\ second \in 0 .. Entries - 1
        /\ second # r.rdIndex
    BY NextEntryIsNext DEF IInv, TypeOK
  <2>8. CASE r.wrIndex = r.rdIndex /\ \A q \in Priorities : ~Untold(p, q)
    <3>1. Entered(p) = {}
      BY <2>7, <2>8 DEF Entered
    <3> QED  BY <2>1, <2>6, <2>8, <3>1
  <2>9. CASE /\ r.wrIndex = second
             /\ \E q \in Priorities :
                  /\ Untold(p, q) /\ r.fifo[r.rdIndex] = Head(pool[p][q])
                  /\ \A o \in Priorities : Untold(p, o) => o = q
    <3>1. Entered(p) = {r.rdIndex}
      BY <2>7, <2>9 DEF Entered, NextEntry
    <3> QED  BY <2>1, <2>6, <2>9, <3>1
  <2>10. CASE /\ r.wrIndex = NextEntry(second)
              /\ \E q, o \in Priorities :
                   /\ q # o /\ Untold(p, q) /\ Untold(p, o)
                   /\ r.fifo[r.rdIndex] = Head(pool[p][q])
                   /\ r.fifo[second] = Head(pool[p][o])
    <3>1. Entered(p) = {r.rdIndex, second}
      BY <2>7, <2>10, TwoPriorities DEF Entered, NextEntry
    <3>2. PICK q \in Priorities, o \in Priorities :
                   /\ q # o /\ Untold(p, q) /\ Untold(p, o)
                   /\ r.fifo[r.rdIndex] = Head(pool[p][q])
                   /\ r.fifo[second] = Head(pool[p][o])
      BY <2>10
    <3>3. Head(pool[p][q]) # Head(pool[p][o])
      BY <2>3, <3>2 DEF Untold
    <3>4. {q1 \in Priorities : Untold(p, q1)} = {q, o}
      BY <3>2 DEF Priorities
    <3> QED  BY <2>1, <2>6, <3>1, <3>2, <3>3, <3>4
  <2> QED  BY <2>8, <2>9, <2>10 DEF IInv, RingOfHeads
<1> QED  BY <1>1, TxInvariant, PTL

(* If no client asks for the time of a packet to both ports, TimedInv is an *)
(* inductive invariant as well: a timed packet is in one place of one pool, *)
(* and its client waits.                                                    *)
THEOREM TxTimedInvariant ==
  ASSUME NoTimedBroadcast
  PROVE  Spec => []TimedInv
<1>1. Init => TimedInv
  <2> SUFFICES ASSUME Init PROVE TimedInv
    OBVIOUS
  <2>1. IInv
    BY InitIInv
  <2>2. spc # "commit" /\ \A p \in Ports, q \in Priorities : pool[p][q] = <<>>
    BY DEF Init
  <2>3. \A p \in Ports, q \in Priorities : DOMAIN pool[p][q] = {}
    BY <2>2
  <2> QED  BY <2>1, <2>2, <2>3 DEF TimedInv, CommitAwaited, TimedOncePooled, TimedOneAtATime
<1>2. TimedInv /\ [Next]_vars => TimedInv'
  BY NextKeepsTimedInv
<1> QED  BY <1>1, <1>2, PTL DEF Spec

(* A client whose last packet was a timed one has no other in the pools.    *)
THEOREM TxTimedOneAtATime ==
  ASSUME NoTimedBroadcast
  PROVE  Spec => []TimedOneAtATime
<1>1. TimedInv => TimedOneAtATime
  BY DEF TimedInv
<1> QED  BY <1>1, TxTimedInvariant, PTL

(* The time the server sends on a channel is the one that the client at its *)
(* other end waits for.                                                     *)
THEOREM TxStampIsAwaited ==
  ASSUME NoTimedBroadcast
  PROVE  Spec => []StampIsAwaited
<1>1. TimedInv => StampIsAwaited
  <2> SUFFICES ASSUME TimedInv, spc = "tell"
               PROVE  cpc[held.client] = "stamp" /\ held.n = asked[held.client]
    BY DEF StampIsAwaited
  <2>1. at \in Ports /\ Telling(at)
    BY DEF TimedInv, IInv, ServerHolds, Telling
  <2>2. /\ held.client \in Clients /\ held.prio \in Priorities /\ held.timed
        /\ 1 \in DOMAIN pool[at][held.prio] /\ pool[at][held.prio][1] = held
    BY <2>1, ToldIsTimed DEF TimedInv
  <2> QED  BY <2>1, <2>2 DEF TimedInv, TimedOneAtATime
<1> QED  BY <1>1, TxTimedInvariant, PTL

=============================================================================
