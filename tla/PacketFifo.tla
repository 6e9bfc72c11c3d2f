------------------------------ MODULE PacketFifo ------------------------------
(***************************************************************************)
(* What a packet pool promises, with no memory in it: a fifo of packets.   *)
(* Packets are put at the back, taken by the reader in the order they were *)
(* put, each once, and released in any order; the room of a packet comes   *)
(* back when it is released and no older packet is still there, and that   *)
(* happens without anybody asking for it again.                            *)
(***************************************************************************)
EXTENDS Naturals, Sequences

CONSTANT Ids      \* what a packet in the pool is known by

VARIABLE fifo     \* sequence of packets, the oldest first

Uses == {"unread", "held", "freed"}

TypeOK == fifo \in Seq([id : Ids, use : Uses])

Init == fifo = <<>>

Put(i) ==
  /\ \A k \in DOMAIN fifo : fifo[k].id # i
  /\ fifo' = Append(fifo, [id |-> i, use |-> "unread"])

Take ==
  \E k \in DOMAIN fifo :
    /\ fifo[k].use = "unread"
    /\ \A j \in 1 .. (k - 1) : fifo[j].use # "unread"
    /\ fifo' = [fifo EXCEPT ![k].use = "held"]

Release ==
  \E k \in DOMAIN fifo :
    /\ fifo[k].use = "held"
    /\ fifo' = [fifo EXCEPT ![k].use = "freed"]

Reclaim ==
  /\ fifo # <<>>
  /\ Head(fifo).use = "freed"
  /\ fifo' = Tail(fifo)

Next ==
  \/ \E i \in Ids : Put(i)
  \/ Take
  \/ Release
  \/ Reclaim

(* What the fifo never does, and what it does in the end.                   *)
Safety == Init /\ [][Next]_fifo

Spec == Safety /\ WF_fifo(Reclaim)

=============================================================================
