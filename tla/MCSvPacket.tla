------------------------------ MODULE MCSvPacket -------------------------------
(* Instances of SvPacket for TLC. *)
EXTENDS SvPacket

\* A measurement of 28 bits, six of them in a byte of the compressed form.
Width == 28

\* The differences around which a number takes a byte more, 2^5, 2^11, 2^17 and 2^23,
\* others between them, 0 and the largest: the power and the one before, and what
\* ZigZag takes to the number after.
Steps ==
  LET Powers == {2^i : i \in {j \in 0 .. Width - 2 : j % 3 = 2}}
      Up == UNION {{n - 1, n} : n \in Powers} \cup {0, 2^(Width - 1) - 1}
  IN  Up \cup {-n - 1 : n \in Up}

\* By as much as step do so many of the eight measurements change from sample to
\* sample, up to one of the last.
MCSamples ==
  {[k \in Index |-> [f \in Measurements |->
     IF f < moving THEN Signed(Min({k, until}) * step) ELSE 0]] :
   step \in Steps, moving \in {0, 1, 7, 8}, until \in NoASDU - 3 .. NoASDU - 1}
================================================================================
