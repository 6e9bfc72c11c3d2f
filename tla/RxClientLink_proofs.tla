-------------------------- MODULE RxClientLink_proofs --------------------------
(***************************************************************************)
(* The two ends of a client link agree on the tokens under way, whatever   *)
(* the size of the ring and however many commands the client issues.       *)
(***************************************************************************)
EXTENDS RxClientLink, SequenceTheorems, TLAPS

LEMMA NextIndexInRing ==
  ASSUME NEW i \in Slots PROVE NextIndex(i) \in Slots /\ NextIndex(i) # i
BY LinkAssumption DEF Slots, NextIndex

LEMMA InitIInv == Init => IInv
<1> SUFFICES ASSUME Init PROVE IInv
  OBVIOUS
<1>1. 0 \in Slots /\ N \in Int /\ MaxCommands \in 0 .. MaxCommands
  BY LinkAssumption DEF Slots
<1>2. TypeOK
  BY <1>1 DEF Init, TypeOK
<1>3. NotifiedOfQueue
  BY DEF Init, NotifiedOfQueue
<1>4. TokensAgree
  BY DEF Init, TokensAgree, Pending
<1> QED BY <1>2, <1>3, <1>4 DEF IInv

(* A frame queued while the client is told of others adds no token.         *)
LEMMA ProcessFrameStep == ASSUME IInv, NEW f \in Frames, ProcessFrame(f) PROVE IInv'
<1>1. NextIndex(wrIndex) \in Slots /\ NextIndex(wrIndex) # rdIndex
  BY NextIndexInRing DEF ProcessFrame, HasRoom, IInv, TypeOK
<1>2. TypeOK'
  BY <1>1 DEF ProcessFrame, IInv, TypeOK
<1>3. NotifiedOfQueue'
  BY <1>1 DEF ProcessFrame, NotifiedOfQueue
<1>4. TokensAgree'
  BY DEF ProcessFrame, IInv, TokensAgree, Pending, Settings
<1> QED BY <1>2, <1>3, <1>4 DEF IInv

LEMMA HelloStep == IInv /\ ServiceHello => IInv'
<1> SUFFICES ASSUME IInv, ServiceHello PROVE IInv'
  OBVIOUS
<1>1. TypeOK'
  BY DEF ServiceHello, queueVars, IInv, TypeOK
<1>2. NotifiedOfQueue'
  BY DEF ServiceHello, queueVars, IInv, NotifiedOfQueue
<1>3. TokensAgree'
  BY DEF ServiceHello, AckDue, IInv, TypeOK, TokensAgree, Pending, Settings, None
<1> QED BY <1>1, <1>2, <1>3 DEF IInv

LEMMA WordStep == IInv /\ ServiceWord => IInv'
<1> SUFFICES ASSUME IInv, ServiceWord PROVE IInv'
  OBVIOUS
<1>1. TypeOK'
  BY DEF ServiceWord, queueVars, IInv, TypeOK
<1>2. NotifiedOfQueue'
  BY DEF ServiceWord, queueVars, IInv, NotifiedOfQueue
<1>3. TokensAgree'
  BY DEF ServiceWord, queueVars, IInv, TypeOK, TokensAgree, Pending, Settings, None
<1> QED BY <1>1, <1>2, <1>3 DEF IInv

(* The last packet taken ends the notification; otherwise it is renewed.    *)
LEMMA SendFrameStep == IInv /\ SendFrame => IInv'
<1> SUFFICES ASSUME IInv, SendFrame PROVE IInv'
  OBVIOUS
<1>1. rdIndex # wrIndex
  <2>1. notified
    BY DEF SendFrame, IInv, TokensAgree, Settings
  <2> QED BY <2>1 DEF IInv, NotifiedOfQueue
<1>2. NextIndex(rdIndex) \in Slots
  BY NextIndexInRing DEF IInv, TypeOK
<1>3. TypeOK'
  <2>1. ends' \in Nat /\ notified' \in BOOLEAN
    <3>1. ends \in Nat /\ notified \in BOOLEAN
      BY DEF IInv, TypeOK
    <3>2. CASE NextIndex(rdIndex) # wrIndex
      BY <1>1, <3>1, <3>2 DEF SendFrame, NotifyRest
    <3>3. CASE NextIndex(rdIndex) = wrIndex
      BY <1>1, <3>1, <3>3 DEF SendFrame, NotifyRest
    <3> QED BY <3>2, <3>3
  <2>2. rdIndex' \in Slots /\ got' \in Frames \cup {None}
    BY <1>1, <1>2 DEF SendFrame, IInv, TypeOK
  <2> QED BY <1>1, <2>1, <2>2 DEF SendFrame, IInv, TypeOK
<1>4. NotifiedOfQueue' /\ TokensAgree'
  <2>1. CASE NextIndex(rdIndex) # wrIndex
    BY <1>1, <2>1
       DEF SendFrame, NotifyRest, IInv, NotifiedOfQueue, TypeOK, TokensAgree,
           Pending, Settings, None
  <2>2. CASE NextIndex(rdIndex) = wrIndex
    BY <1>1, <2>2
       DEF SendFrame, NotifyRest, IInv, NotifiedOfQueue, TypeOK, TokensAgree,
           Pending, Settings, None
  <2> QED BY <2>1, <2>2
<1> QED BY <1>3, <1>4 DEF IInv

LEMMA SettingStep == IInv /\ Setting => IInv'
<1> SUFFICES ASSUME IInv, Setting PROVE IInv'
  OBVIOUS
<1>1. max_queue_size' \in Int /\ mask' \in BOOLEAN
  BY LinkAssumption DEF Setting, IInv, TypeOK
<1>2. TypeOK'
  BY <1>1 DEF Setting, queueVars, IInv, TypeOK
<1>3. NotifiedOfQueue'
  BY DEF Setting, queueVars, IInv, NotifiedOfQueue
<1>4. TokensAgree'
  BY DEF Setting, queueVars, IInv, TypeOK, TokensAgree, Pending, Settings, None
<1> QED BY <1>2, <1>3, <1>4 DEF IInv

LEMMA ClientStep == IInv /\ (Client \/ ClientCommand) => IInv'
<1> SUFFICES ASSUME IInv, Client \/ ClientCommand PROVE IInv'
  OBVIOUS
<1> USE DEF serverVars, queueVars
<1>1. UNCHANGED serverVars
  BY DEF Client, ClientCommand, ClientNotified, ClientAck, ClientTransfer,
         ClientCommandAck, ClientParameter
<1>2. NotifiedOfQueue'
  BY <1>1 DEF IInv, NotifiedOfQueue
<1>3. TypeOK'
  <2>1. CASE ClientCommand
    BY <1>1, <2>1, LinkAssumption DEF ClientCommand, IInv, TypeOK
  <2>2. CASE Client
    BY <1>1, <2>2 DEF Client, ClientNotified, ClientAck, ClientTransfer,
                      ClientCommandAck, ClientParameter, IInv, TypeOK
  <2> QED BY <2>1, <2>2
<1>4. TokensAgree'
  <2> USE DEF IInv, TypeOK, TokensAgree, Pending, Settings, None
  <2>1. CASE ClientCommand
    BY <1>1, <2>1 DEF ClientCommand
  <2>2. CASE ClientNotified
    BY <1>1, <2>2 DEF ClientNotified
  <2>3. CASE ClientAck
    BY <1>1, <2>3 DEF ClientAck
  <2>4. CASE ClientTransfer
    BY <1>1, <2>4 DEF ClientTransfer
  <2>5. CASE ClientCommandAck
    BY <1>1, <2>5 DEF ClientCommandAck
  <2>6. CASE ClientParameter
    BY <1>1, <2>6 DEF ClientParameter
  <2> QED BY <2>1, <2>2, <2>3, <2>4, <2>5, <2>6 DEF Client
<1> QED BY <1>2, <1>3, <1>4 DEF IInv

(* IInv is an inductive invariant of the link.                              *)
THEOREM LinkInvariant == Spec => []IInv
<1>1. IInv /\ [Next]_vars => IInv'
  <2> SUFFICES ASSUME IInv, [Next]_vars PROVE IInv'
    OBVIOUS
  <2>1. CASE \E f \in Frames : ProcessFrame(f)
    BY <2>1, ProcessFrameStep
  <2>2. CASE Server
    BY <2>2, HelloStep, WordStep, SendFrameStep, SettingStep DEF Server
  <2>3. CASE Client \/ ClientCommand
    BY <2>3, ClientStep
  <2>4. CASE UNCHANGED vars
    BY <2>4 DEF vars, serverVars, queueVars, IInv, TypeOK, NotifiedOfQueue,
                TokensAgree, Pending
  <2> QED BY <2>1, <2>2, <2>3, <2>4 DEF Next
<1> QED BY <1>1, InitIInv, PTL DEF Spec

(* Every transfer starts with the channel empty of tokens.                  *)
THEOREM LinkTransferInStep == Spec => []TransferInStep
<1>1. IInv => TransferInStep
  BY DEF IInv, TokensAgree, TransferInStep
<1> QED BY <1>1, LinkInvariant, PTL

(* The server has a packet for every request.                               *)
THEOREM LinkRequestIsAnswered == Spec => []RequestIsAnswered
<1>1. IInv => RequestIsAnswered
  <2> SUFFICES ASSUME IInv, spc = "frame" PROVE rdIndex # wrIndex
    BY DEF RequestIsAnswered
  <2>1. notified
    BY DEF IInv, TokensAgree, Settings
  <2> QED BY <2>1 DEF IInv, NotifiedOfQueue
<1> QED BY <1>1, LinkInvariant, PTL

-----------------------------------------------------------------------------
(* The link implements a mailbox of N - 1 frames. *)

LEMMA SequenceIsFunction ==
  ASSUME NEW S, NEW s \in Seq(S)
  PROVE  s = [k \in 1 .. Len(s) |-> s[k]]
BY LenProperties

\* What the ring holds: at most N - 1 frames, the oldest at rdIndex.
LEMMA BoxLength ==
  ASSUME IInv
  PROVE  /\ QueueSize \in 0 .. (N - 1)
         /\ Box \in Seq(Frames \cup {None})
         /\ Len(Box) = QueueSize
<1>1. /\ N \in Nat /\ N >= 2
      /\ rdIndex \in 0 .. (N - 1) /\ wrIndex \in 0 .. (N - 1)
      /\ fifo \in [0 .. (N - 1) -> Frames \cup {None}]
  BY LinkAssumption DEF IInv, TypeOK, Slots
<1>2. QueueSize \in 0 .. (N - 1)
  BY <1>1 DEF QueueSize
<1>3. \A k \in 1 .. QueueSize : Slot(k - 1) \in 0 .. (N - 1)
  BY <1>1, <1>2 DEF Slot
<1>4. Box \in [1 .. QueueSize -> Frames \cup {None}]
  BY <1>1, <1>3 DEF Box
<1> QED BY <1>2, <1>4

LEMMA FrameBoxed ==
  ASSUME IInv, NEW f \in Frames, ProcessFrame(f)
  PROVE  Len(Box) < N - 1 /\ Box' = Append(Box, f)
<1> DEFINE q == QueueSize
           r == q + 1
<1>1. /\ N \in Nat /\ N >= 2
      /\ rdIndex \in 0 .. (N - 1) /\ wrIndex \in 0 .. (N - 1)
      /\ fifo \in [0 .. (N - 1) -> Frames \cup {None}]
  BY LinkAssumption DEF IInv, TypeOK, Slots
<1>2. /\ NextIndex(wrIndex) # rdIndex
      /\ wrIndex' = NextIndex(wrIndex)
      /\ fifo' = [fifo EXCEPT ![wrIndex] = f]
      /\ rdIndex' = rdIndex
  BY DEF ProcessFrame, HasRoom
<1>3. q \in 0 .. (N - 2) /\ QueueSize' = r
  BY <1>1, <1>2 DEF QueueSize, NextIndex
<1>4. \A k \in 1 .. q : Slot(k - 1) \in 0 .. (N - 1) /\ Slot(k - 1) # wrIndex
  BY <1>1 DEF Slot, QueueSize
<1>5. Slot(r - 1) = wrIndex
  BY <1>1 DEF Slot, QueueSize
<1>6. \A k \in 1 .. r : Slot(k - 1)' = Slot(k - 1)
  BY <1>2 DEF Slot
<1>7. Box' = [k \in 1 .. r |-> fifo'[Slot(k - 1)]]
  BY <1>3, <1>6 DEF Box
<1>8. \A k \in 1 .. q : fifo'[Slot(k - 1)] = Box[k]
  BY <1>1, <1>2, <1>4 DEF Box
<1>9. fifo'[Slot(r - 1)] = f
  BY <1>1, <1>2, <1>5
<1>10. Box \in Seq(Frames \cup {None}) /\ Len(Box) = q /\ q \in Nat
  BY BoxLength, <1>3
<1> HIDE DEF q
<1>11. Box' = Append(Box, f)
  <2> DEFINE t == Append(Box, f)
  <2>1. /\ t \in Seq(Frames \cup {None}) /\ Len(t) = r
        /\ \A k \in 1 .. q : t[k] = Box[k]
        /\ t[r] = f
    BY <1>10, AppendProperties
  <2>2. t = [k \in 1 .. r |-> t[k]]
    BY <2>1, SequenceIsFunction
  <2>3. \A k \in 1 .. r : t[k] = fifo'[Slot(k - 1)]
    BY <1>8, <1>9, <1>10, <2>1
  <2> QED BY <1>7, <2>2, <2>3
<1> QED BY <1>1, <1>3, <1>10, <1>11

LEMMA FrameUnboxed ==
  ASSUME IInv, rdIndex # wrIndex, rdIndex' = NextIndex(rdIndex),
         wrIndex' = wrIndex, fifo' = fifo
  PROVE  Box # <<>> /\ Head(Box) = fifo[rdIndex] /\ Box' = Tail(Box)
<1> DEFINE q == QueueSize
           r == q - 1
<1>1. /\ N \in Nat /\ N >= 2
      /\ rdIndex \in 0 .. (N - 1) /\ wrIndex \in 0 .. (N - 1)
      /\ fifo \in [0 .. (N - 1) -> Frames \cup {None}]
  BY LinkAssumption DEF IInv, TypeOK, Slots
<1>2. q \in 1 .. (N - 1) /\ QueueSize' = r
  BY <1>1 DEF QueueSize, NextIndex
<1>3. \A k \in 1 .. r : Slot(k - 1)' = Slot(k)
  BY <1>1, <1>2 DEF Slot, NextIndex, QueueSize
<1>4. Box' = [k \in 1 .. r |-> fifo[Slot(k)]]
  BY <1>2, <1>3 DEF Box
<1>5. \A k \in 1 .. r : fifo[Slot(k)] = Box[k + 1]
  BY <1>2 DEF Box
<1>6. Box[1] = fifo[rdIndex]
  BY <1>1, <1>2 DEF Box, Slot
<1>7. Box \in Seq(Frames \cup {None}) /\ Len(Box) = q
  BY BoxLength
<1> HIDE DEF q
<1>8. Tail(Box) = [k \in 1 .. r |-> Box[k + 1]]
  <2> DEFINE t == Tail(Box)
  <2>1. Box # <<>>
    BY <1>2, <1>7
  <2>2. /\ t \in Seq(Frames \cup {None}) /\ Len(t) = r
        /\ \A k \in 1 .. r : t[k] = Box[k + 1]
    BY <1>7, <2>1, HeadTailProperties
  <2>3. t = [k \in 1 .. r |-> t[k]]
    BY <2>2, SequenceIsFunction
  <2> QED BY <2>2, <2>3
<1> QED BY <1>2, <1>4, <1>5, <1>6, <1>7, <1>8

LEMMA BoxUnchanged == UNCHANGED queueVars => UNCHANGED Box
BY DEF queueVars, Box, Slot, QueueSize

(* The link takes a frame where the mailbox accepts it, hands over the      *)
(* oldest one where the mailbox does, and otherwise leaves both alone: no   *)
(* frame queued for a client is lost, doubled or overtaken, for a ring of   *)
(* every size and whatever commands the client issues meanwhile.            *)
THEOREM LinkImplementsMailbox == Spec => MB!Safety
<1>1. Init => MB!Init
  BY LinkAssumption DEF Init, MB!Init, Box, QueueSize
<1>2. IInv /\ [Next]_vars => [MB!Next]_<<Box, got>>
  <2> SUFFICES ASSUME IInv, [Next]_vars
               PROVE  MB!Next \/ UNCHANGED <<Box, got>>
    OBVIOUS
  <2>1. ASSUME NEW f \in Frames, ProcessFrame(f) PROVE MB!Next
    <3>1. MB!Accept(f)
      BY <2>1, FrameBoxed DEF MB!Accept, ProcessFrame
    <3> QED BY <3>1 DEF MB!Next
  <2>2. CASE SendFrame
    <3>1. CASE rdIndex = wrIndex
      BY <2>2, <3>1, BoxUnchanged DEF SendFrame, queueVars
    <3>2. CASE rdIndex # wrIndex
      <4>1. rdIndex' = NextIndex(rdIndex) /\ wrIndex' = wrIndex /\ fifo' = fifo
            /\ got' = fifo[rdIndex]
        BY <2>2, <3>2 DEF SendFrame
      <4>2. MB!HandOver
        BY <3>2, <4>1, FrameUnboxed DEF MB!HandOver
      <4> QED BY <4>2 DEF MB!Next
    <3> QED BY <3>1, <3>2
  <2>3. CASE ServiceHello \/ ServiceWord \/ Setting
    BY <2>3, BoxUnchanged DEF ServiceHello, ServiceWord, Setting
  <2>4. CASE Client \/ ClientCommand
    BY <2>4, BoxUnchanged
       DEF Client, ClientCommand, ClientNotified, ClientAck, ClientTransfer,
           ClientCommandAck, ClientParameter, serverVars
  <2>5. CASE UNCHANGED vars
    BY <2>5, BoxUnchanged DEF vars, serverVars
  <2> QED BY <2>1, <2>2, <2>3, <2>4, <2>5 DEF Next, Server
<1> QED BY <1>1, <1>2, LinkInvariant, PTL DEF Spec, MB!Safety

=============================================================================
