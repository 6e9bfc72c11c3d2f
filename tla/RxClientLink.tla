----------------------------- MODULE RxClientLink -----------------------------
(***************************************************************************)
(* The channel between the receive server and one of its clients: the      *)
(* server's queue for that client (link_status[i]), the select handler     *)
(* service_link_cmd that takes the client's requests, and the client's     *)
(* functions of ethernet_rx_client.xc.                                     *)
(*                                                                         *)
(* All the server ever sends outside a data transfer is the control token  *)
(* END, and it sends it for three reasons: a packet is waiting (notify), a *)
(* request was seen, a command was seen.  The client cannot tell them      *)
(* apart, so both sides must agree on how many are under way; a transfer   *)
(* that starts with a token left in the channel is out of step for good.   *)
(***************************************************************************)
EXTENDS Integers, Sequences

CONSTANTS
  Frames,      \* the frames that match the client's filter
  N,           \* NUM_MII_RX_BUF: entries of the ring fifo
  QueueSizes,  \* what clients pass to mac_set_queue_size
  MaxCommands  \* bound: how often the client issues a command

ASSUME LinkAssumption ==
  /\ N \in Nat /\ N >= 2
  /\ QueueSizes \subseteq Int
  /\ MaxCommands \in Nat

VARIABLES
  rdIndex, wrIndex, fifo,  \* link_status[i]: the ring,
  notified,                \* has the client been told of it,
  max_queue_size,
  mask,                    \* custom_filter_mask[i] selects these frames
  spc,        \* where the server is with this client
  renotify,   \* renotify of service_link_cmd
  ends,       \* END tokens on their way to the client
  hello,      \* the byte that opens a request, on its way to the server
  word,       \* the command word on its way to the server
  cpc,        \* where the client is
  commands,   \* commands the client will still issue
  got         \* history: what the client received last

queueVars == <<rdIndex, wrIndex, fifo>>
serverVars == <<queueVars, notified, max_queue_size, mask, spc, renotify>>
vars == <<serverVars, ends, hello, word, cpc, commands, got>>

Slots == 0 .. (N - 1)

None == "none"

Settings == {"filter", "drop_packets", "queue_size", "query"}

Init ==
  /\ rdIndex = 0 /\ wrIndex = 0
  /\ fifo = [s \in Slots |-> None]
  /\ notified = FALSE
  /\ max_queue_size = N
  /\ mask = FALSE
  /\ spc = "select"
  /\ renotify = FALSE
  /\ ends = 0
  /\ hello = None
  /\ word = None
  /\ cpc = "idle"
  /\ commands = MaxCommands
  /\ got = None

-----------------------------------------------------------------------------
(* Wrong versions of definitions below, for checking the properties. *)

\* The ring is full only when every slot is taken.
HasRoomAllSlots(size) == size < max_queue_size

\* An acknowledgment is sent whether or not a notification can stand for it.
AckAlways(isCommand) == TRUE

\* A client that still has packets queued is not told again.
NotifyRestForgotten(more) ==
  /\ ends' = ends
  /\ notified' = notified

\* A request for a packet is not acknowledged: the client has a notification.
AckUnnotified(isCommand) == ~notified

-----------------------------------------------------------------------------
(* The server's default branch: a frame the filter is done with. *)

NextIndex(i) == IF i + 1 = N THEN 0 ELSE i + 1

QueueSize == IF wrIndex < rdIndex THEN wrIndex - rdIndex + N ELSE wrIndex - rdIndex

HasRoom(size) == size < max_queue_size /\ NextIndex(wrIndex) # rdIndex

\* process_received_frame, for a frame whose filter result meets the mask.
\* A frame the queue has no room for is counted as dropped and forgotten.
ProcessFrame(f) ==
  /\ spc = "select"
  /\ mask
  /\ HasRoom(QueueSize)
  /\ fifo' = [fifo EXCEPT ![wrIndex] = f]
  /\ wrIndex' = NextIndex(wrIndex)
  /\ ends' = IF notified THEN ends ELSE ends + 1
  /\ notified' = TRUE
  /\ UNCHANGED <<rdIndex, max_queue_size, mask, spc, renotify, hello,
                 word, cpc, commands, got>>

-----------------------------------------------------------------------------
(* The server's select handler, service_link_cmd. *)

\* An acknowledgment is due, except that a notification the client has not
\* taken yet does for the acknowledgment of a command.
AckDue(isCommand) == ~notified \/ ~isCommand

ServiceHello ==
  /\ spc = "select"
  /\ hello # None
  /\ ends' = IF AckDue(hello = "command") THEN ends + 1 ELSE ends
  /\ renotify' = notified
  /\ hello' = None
  /\ spc' = "word"
  /\ UNCHANGED <<queueVars, notified, max_queue_size, mask,
                 word, cpc, commands, got>>

ServiceWord ==
  /\ spc = "word"
  /\ word # None
  /\ ends' = ends + 1
  /\ spc' = word
  /\ word' = None
  /\ UNCHANGED <<queueVars, notified, max_queue_size, mask,
                 renotify, hello, cpc, commands, got>>

\* After a packet was handed over: tell the client of the next, or note that
\* it has to be told when one comes.
NotifyRest(more) ==
  IF more THEN ends' = ends + 1 /\ UNCHANGED notified
          ELSE notified' = FALSE /\ UNCHANGED ends

\* The oldest queued packet goes to the client.  A "mac request without
\* notification" finds none and is not answered.
SendFrame ==
  /\ spc = "frame"
  /\ spc' = "select"
  /\ IF rdIndex = wrIndex
       THEN UNCHANGED <<got, rdIndex, ends, notified, cpc>>
       ELSE /\ cpc = "transfer"
            /\ cpc' = "idle"
            /\ got' = fifo[rdIndex]
            /\ rdIndex' = NextIndex(rdIndex)
            /\ NotifyRest(NextIndex(rdIndex) # wrIndex)
  /\ UNCHANGED <<wrIndex, fifo, max_queue_size, mask, renotify, hello, word, commands>>

\* The parameter of a setting, or the answer to a query, is exchanged.
Setting ==
  /\ spc \in Settings /\ cpc = "parameter"
  /\ IF spc = "filter" THEN mask' \in BOOLEAN ELSE UNCHANGED mask
  /\ CASE spc = "drop_packets" -> max_queue_size' \in {1, N}
       [] spc = "queue_size"   -> max_queue_size' \in QueueSizes
       [] OTHER                -> UNCHANGED max_queue_size
  /\ ends' = IF renotify THEN ends + 1 ELSE ends
  /\ spc' = "select" /\ cpc' = "idle"
  /\ UNCHANGED <<queueVars, notified, renotify, hello, word, commands, got>>

Server ==
  \/ ServiceHello
  \/ ServiceWord
  \/ SendFrame
  \/ Setting

-----------------------------------------------------------------------------
(* The client.  It blocks in inct or chkct until a token is there. *)

\* ethernet_unified_get_data, called or selected: a notification is there.
ClientNotified ==
  /\ cpc = "idle"
  /\ ends > 0
  /\ ends' = ends - 1
  /\ hello' = "data"
  /\ cpc' = "ack"
  /\ UNCHANGED <<serverVars, word, commands, got>>

ClientAck ==
  /\ cpc = "ack"
  /\ ends > 0
  /\ ends' = ends - 1
  /\ word' = "frame"
  /\ cpc' = "frame"
  /\ UNCHANGED <<serverVars, hello, commands, got>>

ClientTransfer ==
  /\ cpc = "frame"
  /\ ends > 0
  /\ ends' = ends - 1
  /\ cpc' = "transfer"
  /\ UNCHANGED <<serverVars, hello, word, commands, got>>

\* send_cmd.
ClientCommand ==
  /\ cpc = "idle"
  /\ commands > 0
  /\ commands' = commands - 1
  /\ hello' = "command"
  /\ cpc' = "command_ack"
  /\ UNCHANGED <<serverVars, ends, word, got>>

ClientCommandAck ==
  /\ cpc = "command_ack"
  /\ ends > 0
  /\ ends' = ends - 1
  /\ word' \in Settings
  /\ cpc' = "setting"
  /\ UNCHANGED <<serverVars, hello, commands, got>>

ClientParameter ==
  /\ cpc = "setting"
  /\ ends > 0
  /\ ends' = ends - 1
  /\ cpc' = "parameter"
  /\ UNCHANGED <<serverVars, hello, word, commands, got>>

Client ==
  \/ ClientNotified
  \/ ClientAck
  \/ ClientTransfer
  \/ ClientCommandAck
  \/ ClientParameter

Next ==
  \/ \E f \in Frames : ProcessFrame(f)
  \/ Server
  \/ Client
  \/ ClientCommand

Spec == Init /\ [][Next]_vars

-----------------------------------------------------------------------------
(* Properties. *)

TypeOK ==
  /\ rdIndex \in Slots /\ wrIndex \in Slots
  /\ fifo \in [Slots -> Frames \cup {None}]
  /\ notified \in BOOLEAN
  /\ max_queue_size \in Int
  /\ mask \in BOOLEAN
  /\ spc \in {"select", "word", "frame"} \cup Settings
  /\ renotify \in BOOLEAN
  /\ ends \in Nat
  /\ hello \in {None, "data", "command"}
  /\ word \in {None, "frame"} \cup Settings
  /\ cpc \in {"idle", "ack", "frame", "transfer",
              "command_ack", "setting", "parameter"}
  /\ commands \in 0 .. MaxCommands
  /\ got \in Frames \cup {None}

\* The client is notified exactly of a queue that is not empty.
NotifiedOfQueue == notified <=> rdIndex # wrIndex

Pending == IF notified THEN 1 ELSE 0

\* How many tokens are under way at each point of the exchange.
TokensAgree ==
  \/ cpc = "idle" /\ spc = "select" /\ hello = None /\ word = None /\ ends = Pending
  \* a packet is asked for
  \/ /\ cpc = "ack" /\ word = None /\ notified
     /\ \/ spc = "select" /\ hello = "data" /\ ends = 0
        \/ spc = "word" /\ hello = None /\ ends = 1
  \/ /\ cpc = "frame" /\ hello = None /\ notified
     /\ \/ spc = "word" /\ word = "frame" /\ ends = 0
        \/ spc = "frame" /\ word = None /\ ends = 1
  \/ cpc = "transfer" /\ spc = "frame" /\ hello = None /\ word = None
       /\ ends = 0 /\ notified
  \* a command is given: a notification may take the place of the first
  \* acknowledgment even before the server has seen the request
  \/ /\ cpc = "command_ack" /\ word = None
     /\ \/ spc = "select" /\ hello = "command" /\ ends = Pending
        \/ spc = "word" /\ hello = None /\ ends = 1 /\ renotify = notified
  \/ /\ cpc = "setting"
     /\ \/ spc = "select" /\ hello = "command" /\ word \in Settings
             /\ ends = 0 /\ notified
        \/ spc = "word" /\ hello = None /\ word \in Settings
             /\ ends = 0 /\ renotify = notified
        \/ spc \in Settings /\ hello = None /\ word = None
             /\ ends = 1 /\ renotify = notified
  \/ cpc = "parameter" /\ spc \in Settings /\ hello = None /\ word = None
       /\ ends = 0 /\ renotify = notified

(* The inductive invariant. *)
IInv ==
  /\ TypeOK
  /\ NotifiedOfQueue
  /\ TokensAgree

(* A transfer of data starts with no token left over in the channel: the    *)
(* client's chkct after the command word took the server's answer to that   *)
(* word, and not something sent before it.                                  *)
TransferInStep ==
  /\ cpc = "transfer" => spc = "frame" /\ ends = 0
  /\ cpc = "parameter" => spc \in Settings /\ ends = 0

(* A client that asks for a packet gets one: the server never meets the     *)
(* "mac request without notification" that it answers with silence, which   *)
(* the client would wait for ever to see end.                               *)
RequestIsAnswered == spc = "frame" => rdIndex # wrIndex

(* The threads of the server and of the client are never scheduled away.    *)
(* Its select is ordered, so that a request goes before the frames, and a   *)
(* client takes a notification up when it is done with its commands.        *)
FairSpec == Spec /\ WF_vars(Server) /\ WF_vars(Client)

-----------------------------------------------------------------------------
(* The mailbox the link implements. *)

\* The slot that is read k packets after the next one.
Slot(k) == IF rdIndex + k < N THEN rdIndex + k ELSE rdIndex + k - N

\* The frames in the ring, in the order they are read.
Box == [k \in 1 .. QueueSize |-> fifo[Slot(k - 1)]]

MB == INSTANCE RxMailbox WITH box <- Box, Capacity <- N - 1, Nothing <- None

(* The client gets the frames queued for it, each once and in order, and    *)
(* none waits for ever; of the N entries of the ring N - 1 are used.        *)
ImplementsMailbox == MB!Spec

=============================================================================
