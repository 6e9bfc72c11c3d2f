------------------------------ MODULE RxMailbox ------------------------------
(***************************************************************************)
(* What the receive server promises a client: a mailbox of bounded         *)
(* capacity that may turn a frame away but hands over the frames it took,  *)
(* each once and in order, and does not keep one for ever.                 *)
(***************************************************************************)
EXTENDS Naturals, Sequences

CONSTANTS Frames, Capacity, Nothing

VARIABLES
  box, \* frames taken in, the oldest first
  got  \* what was handed over last

Init == box = <<>> /\ got = Nothing

Accept(f) ==
  /\ Len(box) < Capacity
  /\ box' = Append(box, f)
  /\ UNCHANGED got

HandOver ==
  /\ box # <<>>
  /\ got' = Head(box)
  /\ box' = Tail(box)

Next == HandOver \/ \E f \in Frames : Accept(f)

(* What the mailbox never does, and what it does in the end.                *)
Safety == Init /\ [][Next]_<<box, got>>

Spec == Safety /\ WF_<<box, got>>(HandOver)

=============================================================================
