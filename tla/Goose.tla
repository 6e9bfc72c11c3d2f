--------------------------------- MODULE Goose --------------------------------
(***************************************************************************)
(* What the GOOSE part of the library is called for: the coders of the     *)
(* data (IedData), or a packet on its way (GoosePacket).  One such call is *)
(* made at a time.                                                         *)
(***************************************************************************)
EXTENDS IedData, GoosePacket

vars == <<dataVars, packetVars>>

DataIdle ==
  /\ call = "packet"
  /\ coding = "GSE"
  /\ type = "INT32"
  /\ sent = Zeros(4)
  /\ old = Zeros(4)
  /\ stale = 0
  /\ coded = <<>>
  /\ out = Decoded(0, Zeros(4))

PacketIdle ==
  /\ gse = NoPacket
  /\ rest = 0
  /\ frame = <<>>
  /\ at = "end"
  /\ pos = 0
  /\ locals = NothingRead

Init ==
  \/ DataInit /\ PacketIdle
  \/ PacketInit /\ DataIdle

Next ==
  \/ DataNext /\ UNCHANGED packetVars
  \/ PacketNext /\ UNCHANGED dataVars

Spec == Init /\ [][Next]_vars

(* Every length that a GOOSE encoder computes before it writes is that of   *)
(* what it then writes, through all levels of a structure; only the packet  *)
(* announces more than it has.                                              *)
LengthsAnnounced == DataLengths /\ PacketLengths
================================================================================
