------------------------------- MODULE SvTiming --------------------------------
(***************************************************************************)
(* main.xc: sv_timing_tx makes a packet of NoASDU samples, alternately     *)
(* compressed and not, and sends it from one port; sv_timing_rx receives   *)
(* it at the other and decodes it, alternately as compressed and not.      *)
(* Nothing in a packet says which of the two it is, and no message tells   *)
(* the receiver where the sender is: they agree as long as both count the  *)
(* same packets.  The MAC and the cable between them may lose packets, but *)
(* keep their order.                                                       *)
(*                                                                         *)
(* Two counters run in the sender, ASDU of main.xc and ASDUCount of the    *)
(* control block, which sv_update_... advances whatever the mode is.       *)
(* Times, and what is plotted of them, are left out.                       *)
(***************************************************************************)
EXTENDS SvSample, Sequences

CONSTANTS
  Value,             \* value[][ASDU]: the samples, the same in every cycle
  PacketsPerSecond,  \* smpRate / noASDU
  MaxInFlight,       \* bound: packets between the sender and the receiver
  Junk,              \* values a dataset may decode to in the wrong mode
  None               \* nothing received yet

ASSUME TimingAssumption ==
  /\ Value \in [Index -> Int]
  /\ PacketsPerSecond \in Nat \ {0}
  /\ MaxInFlight \in Nat \ {0}
  /\ Junk \subseteq Int

smpRate == PacketsPerSecond * NoASDU

VARIABLES
  ASDU,         \* in main.xc: next sample of the cycle
  sv_mode,      \* how the sender encodes
  ASDUCount,    \* in the control block: next ASDU to fill
  smpCounter,   \* sampleCountMaster
  asdu,         \* ASDU[].data and smpCnt of the control block
  prev,         \* prev_dataset_values
  net,          \* packets sent and neither received nor lost
  rx,           \* where sv_timing_rx is
  sv_mode_recv, \* how the receiver decodes the next packet
  decoded,      \* the receiver's sv_inputs: a value for each sample
  report,       \* what the last validation said, and in which modes
  lostOdd       \* history: an odd number of packets was lost so far

txVars == <<ASDU, sv_mode, ASDUCount, smpCounter, asdu, prev>>
rxVars == <<sv_mode_recv, decoded, report>>
vars == <<txVars, net, rx, rxVars, lostOdd>>

Cleared == [k \in Index |-> 0]

Init ==
  /\ ASDU = 0
  /\ sv_mode = "NO_COMPRESSION"
  /\ ASDUCount = 0
  /\ smpCounter = 0
  /\ asdu = [k \in Index |-> [full |-> TRUE, v |-> 0, smpCnt |-> 0]]
  /\ prev = 0
  /\ net = <<>>
  /\ rx = "offset"
  /\ sv_mode_recv = "NO_COMPRESSION"
  /\ decoded = Cleared
  /\ report = None
  /\ lostOdd = FALSE

--------------------------------------------------------------------------------
(* The sender. *)

\* The control block after the next sample went into ASDU number ASDUCount.
Filled ==
  LET e == Dataset(sv_mode, ASDUCount, Value[ASDU], prev)
  IN  [asdu EXCEPT ![ASDUCount] =
         [full |-> e.full, v |-> e.v, smpCnt |-> smpCounter]]

\* The packet made of control block a, by the encoder of that mode.
Packet(mode, a) ==
  [mode |-> mode,
   asdu |-> [k \in Index |-> [header |-> HasHeader(mode, k),
                              full |-> a[k].full,
                              v |-> a[k].v,
                              smpCnt |-> a[k].smpCnt]]]

\* As Update would be if the copy of the previous sample, which the last ASDU
\* does not need (a TODO of the code), were left out one ASDU too early.
UpdateCopyingLess ==
  /\ asdu' = Filled
  /\ prev' = IF sv_mode = "COMPRESSION" /\ ASDUCount < NoASDU - 2
               THEN Value[ASDU] ELSE prev
  /\ smpCounter' = IF smpCounter + 1 = smpRate THEN 0 ELSE smpCounter + 1
  /\ IF ASDUCount + 1 = NoASDU
       THEN ASDUCount' = 0 /\ net' = Append(net, Packet(sv_mode, Filled))
       ELSE ASDUCount' = ASDUCount + 1 /\ UNCHANGED net

\* sv_update_...: put the sample in, and encode a packet when it is the last.
Update ==
  /\ asdu' = Filled
  /\ prev' = IF sv_mode = "COMPRESSION" THEN Value[ASDU] ELSE prev
  /\ smpCounter' = IF smpCounter + 1 = smpRate THEN 0 ELSE smpCounter + 1
  /\ IF ASDUCount + 1 = NoASDU
       THEN /\ ASDUCount' = 0
            /\ net' = Append(net, Packet(sv_mode, Filled))
       ELSE /\ ASDUCount' = ASDUCount + 1
            /\ UNCHANGED net

\* As SendFrame would be if it tested ASDU before it counts.
SendFrameFlipsEarly ==
  /\ Len(net) < MaxInFlight
  /\ Update
  /\ ASDU' = IF ASDU + 1 = NoASDU THEN 0 ELSE ASDU + 1
  /\ sv_mode' = IF ASDU' = NoASDU - 1 THEN OtherMode(sv_mode) ELSE sv_mode
  /\ UNCHANGED <<rx, rxVars, lostOdd>>

\* sv_send_frame, at each timeout.
SendFrame ==
  /\ Len(net) < MaxInFlight
  /\ Update
  /\ IF ASDU + 1 = NoASDU
       THEN ASDU' = 0 /\ sv_mode' = OtherMode(sv_mode)
       ELSE ASDU' = ASDU + 1 /\ UNCHANGED sv_mode
  /\ UNCHANGED <<rx, rxVars, lostOdd>>

--------------------------------------------------------------------------------
(* The receiver. *)

\* mac_get_tile_timer_offset, the channel to the sender, mac_set_custom_filter.
StartStep(from, to) ==
  /\ rx = from
  /\ rx' = to
  /\ UNCHANGED <<txVars, net, rxVars, lostOdd>>

GetOffset == StartStep("offset", "share")
ShareOffset == StartStep("share", "filter")
SetFilter == StartStep("filter", "ready")

\* A packet goes missing: the filter is not set yet, a buffer or the queue of
\* the client is full, the frame has an error.
Lose ==
  /\ net # <<>>
  /\ net' = Tail(net)
  /\ lostOdd' = ~lostOdd
  /\ UNCHANGED <<txVars, rx, rxVars>>

\* The receiver's samples after it decoded packet p.
Decode(p, junk) ==
  [k \in Index |-> DecodedSample(sv_mode_recv, k, p.asdu[k].header, p.asdu[k].full,
                           p.asdu[k].v, decoded[k], junk[k])]

\* The junk a decoder can meet: none unless the modes differ.
JunkFor(p) ==
  IF p.mode = sv_mode_recv THEN {Cleared} ELSE [Index -> Junk]

\* As Receive would be if it took a packet that fails for one it need not count.
ReceiveCountsPassed ==
  /\ rx = "ready"
  /\ net # <<>>
  /\ \E junk \in JunkFor(Head(net)) :
       LET ok == Decode(Head(net), junk) = Value IN
         /\ report' = [sent |-> Head(net).mode, read |-> sv_mode_recv, passed |-> ok]
         /\ sv_mode_recv' = IF ok THEN OtherMode(sv_mode_recv) ELSE sv_mode_recv
  /\ net' = Tail(net)
  /\ decoded' = Cleared
  /\ UNCHANGED <<txVars, rx, lostOdd>>

\* sv_recv_and_process_packet: decode, validate, take the other mode, clear.
Receive ==
  /\ rx = "ready"
  /\ net # <<>>
  /\ \E junk \in JunkFor(Head(net)) :
       report' = [sent |-> Head(net).mode, read |-> sv_mode_recv,
                  passed |-> Decode(Head(net), junk) = Value]
  /\ net' = Tail(net)
  /\ sv_mode_recv' = OtherMode(sv_mode_recv)
  /\ decoded' = Cleared
  /\ UNCHANGED <<txVars, rx, lostOdd>>

Next ==
  \/ SendFrame
  \/ GetOffset
  \/ ShareOffset
  \/ SetFilter
  \/ Lose
  \/ Receive

Spec == Init /\ [][Next]_vars

--------------------------------------------------------------------------------
(* Properties. *)

Counts == 0 .. smpRate - 1

Entry == [full : BOOLEAN, v : Int, smpCnt : Counts]

PacketType ==
  [mode : Modes,
   asdu : [Index -> [header : BOOLEAN, full : BOOLEAN, v : Int, smpCnt : Counts]]]

\* The type invariant.
TypeOK ==
  /\ ASDU \in Index
  /\ ASDUCount \in Index
  /\ sv_mode \in Modes
  /\ smpCounter \in Counts
  /\ asdu \in [Index -> Entry]
  /\ prev \in Int
  /\ net \in Seq(PacketType)
  /\ rx \in {"offset", "share", "filter", "ready"}
  /\ sv_mode_recv \in Modes
  /\ decoded = Cleared
  /\ report \in {None} \cup [sent : Modes, read : Modes, passed : BOOLEAN]
  /\ lostOdd \in BOOLEAN

\* Entry e is that of sample k, encoded in this mode, in a packet that starts
\* with sample count first.
IsSample(e, mode, k, first) ==
  /\ e.full = InFull(mode, k)
  /\ e.v = IF InFull(mode, k) THEN Value[k] ELSE Value[k - 1] - Value[k]
  /\ e.smpCnt = first + k

Whole(p) ==
  \A k \in Index : /\ p.asdu[k].header = HasHeader(p.mode, k)
                   /\ IsSample(p.asdu[k], p.mode, k, p.asdu[0].smpCnt)

(* A packet on its way is one cycle of the sampling: encoded in one mode    *)
(* from end to end, each difference taken to the sample before it in the    *)
(* same packet, and its sample counts follow each other without the wrap at *)
(* the end of the second.  sv_mode and ASDU of main.xc, ASDUCount,          *)
(* sampleCountMaster and prev_dataset_values are advanced separately.       *)
PacketsWhole == \A i \in 1 .. Len(net) : Whole(net[i])

(* The receiver is going to read the next packet in the mode it was encoded *)
(* in if and only if an even number of packets was lost before it: a single *)
(* loss puts every later packet out of step, until another one is lost.     *)
ModesFollowLosses ==
  net # <<>> => (Head(net).mode = sv_mode_recv <=> ~lostOdd)

(* proxy_test_decoded_values finds the samples that were encoded, whenever  *)
(* a packet without compression is read as such.                            *)
PlainInStepPasses ==
  (report # None /\ report.sent = "NO_COMPRESSION" /\ report.read = report.sent)
    => report.passed

(* The same of every packet read in its own mode: main.xc prints            *)
(* "validation failed" otherwise.  It does not hold of compressed packets.  *)
InStepPasses ==
  (report # None /\ report.read = report.sent) => report.passed

--------------------------------------------------------------------------------
(* The inductive invariant behind them. *)

\* The sender's two counters agree, and the packets start at fixed counts.
CountersAgree ==
  /\ ASDU = ASDUCount
  /\ \E q \in 0 .. PacketsPerSecond - 1 : smpCounter = q * NoASDU + ASDUCount

\* The ASDUs filled so far are of the packet in the making.
PartWhole ==
  /\ \A k \in 0 .. ASDUCount - 1 :
       IsSample(asdu[k], sv_mode, k, smpCounter - ASDUCount)
  /\ (sv_mode = "COMPRESSION" /\ ASDUCount > 0) => prev = Value[ASDUCount - 1]

\* The mode of packet number i, or of the packet in the making.
ModeAt(i) == IF i \in 1 .. Len(net) THEN net[i].mode ELSE sv_mode

\* The modes alternate from the receiver through the packets to the sender.
ModesAlternate ==
  /\ \A i \in 1 .. Len(net) : ModeAt(i + 1) = OtherMode(ModeAt(i))
  /\ (ModeAt(1) = sv_mode_recv) <=> ~lostOdd

IInv ==
  /\ TypeOK
  /\ CountersAgree
  /\ PartWhole
  /\ PacketsWhole
  /\ ModesAlternate
  /\ PlainInStepPasses
================================================================================
