------------------------------- MODULE SvSample --------------------------------
(***************************************************************************)
(* What a Sampled Values packet carries of each of its samples, and what a *)
(* decoder makes of it.  SvTiming is built on this view of a packet;       *)
(* SvPacket shows that the bytes really written and read agree with it.    *)
(*                                                                         *)
(* A sample stands for a dataset of eight measurements and their quality.  *)
(***************************************************************************)
EXTENDS Integers

CONSTANT
  NoASDU        \* noASDU of the control block: the samples in a packet

ASSUME SampleAssumption == NoASDU \in Nat \ {0}

Index == 0 .. NoASDU - 1

Modes == {"NO_COMPRESSION", "COMPRESSION"}

OtherMode(mode) ==
  IF mode = "NO_COMPRESSION" THEN "COMPRESSION" ELSE "NO_COMPRESSION"

\* The sample is there in full, and not as its difference from the one before.
InFull(mode, k) == mode = "NO_COMPRESSION" \/ k = 0

\* The dataset put into ASDU number k for the sample cur after last.
Dataset(mode, k, cur, last) ==
  IF InFull(mode, k) THEN [full |-> TRUE, v |-> cur]
                     ELSE [full |-> FALSE, v |-> last - cur]

\* svID, smpCnt, confRev and smpSynch are in this ASDU.
HasHeader(mode, k) == mode = "NO_COMPRESSION" \/ k = 0

(* What a decoder in mode read leaves of ASDU k where old was before.  An   *)
(* ASDU with no svID is not decoded at all: svDecodeAPDU_compress passes    *)
(* its prev_svID by value, and never has one to pass on.  A full dataset    *)
(* read as differences gives what its bytes happen to say, junk.            *)
DecodedSample(read, k, header, full, v, old, junk) ==
  IF ~header THEN old
  ELSE IF full /\ InFull(read, k) THEN v
  ELSE junk
================================================================================
