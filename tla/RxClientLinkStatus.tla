-------------------------- MODULE RxClientLinkStatus --------------------------
(***************************************************************************)
(* The client link when the client has called mac_request_status_packets:  *)
(* the server also tells it of changes of the link's state, with the same  *)
(* token that tells of a packet.                                           *)
(*                                                                         *)
(* The state of the links comes from the transmit server's thread, which   *)
(* polls them, by link_status.c: two arrays that both threads use without  *)
(* a lock.  A change that falls between the receive server's read of the   *)
(* flag and its store of 0 is lost.                                        *)
(***************************************************************************)
EXTENDS RxClientLink

CONSTANT ChannelTokens  \* tokens the channel holds before outct blocks

Ports == {0, 1}

VARIABLES
  wants_status_updates,  \* 0 no, 1 yes, 2 a change waits to be told
  status, notify,        \* the arrays of link_status.c
  polled,                \* the port whose flag the server looks at next,
  ret                    \*   and what ethernet_link_status_notification read

linkVars == <<status, notify>>
pollVars == <<polled, ret>>
statusVars == <<vars, wants_status_updates, linkVars, pollVars>>

StatusInit ==
  /\ Init
  /\ wants_status_updates = 0
  /\ status = [p \in Ports |-> 0]
  /\ notify = [p \in Ports |-> FALSE]
  /\ polled = 0
  /\ ret = FALSE

\* do_link_check of the transmit server: ethernet_update_link_status.
LinkCheck(p) ==
  /\ \E new_status \in {0, 1} :
       /\ status' = [status EXCEPT ![p] = new_status]
       /\ notify' = [notify EXCEPT ![p] = @ \/ new_status # status[p]]
  /\ UNCHANGED <<vars, wants_status_updates, pollVars>>

\* The load of ethernet_link_status_notification.
ReadNotification ==
  /\ spc = "select"
  /\ ret' = notify[polled]
  /\ spc' = "notification"
  /\ UNCHANGED <<queueVars, notified, max_queue_size, mask, renotify, ends, hello,
                 word, cpc, commands, got, wants_status_updates, linkVars, polled>>

\* Its store, and the client is told if there was a change and it wants to know.
ClearNotification ==
  /\ spc = "notification"
  /\ notify' = [notify EXCEPT ![polled] = FALSE]
  /\ IF ret /\ wants_status_updates # 0
       THEN /\ ends < ChannelTokens
            /\ wants_status_updates' = 2
            /\ ends' = IF notified THEN ends ELSE ends + 1
       ELSE UNCHANGED <<wants_status_updates, ends>>
  /\ spc' = "select"
  /\ polled' = 1 - polled
  /\ ret' = FALSE
  /\ UNCHANGED <<queueVars, notified, max_queue_size, mask, renotify, hello,
                 word, cpc, commands, got, status>>

\* A status packet, which always has the state of port 0.
StatusPacket == [link_status |-> status[0]]

\* A change waits to be told: it goes before the packets.
SendStatus ==
  /\ spc = "frame" /\ cpc = "transfer"
  /\ wants_status_updates = 2
  /\ got' = StatusPacket
  /\ wants_status_updates' = 1
  /\ NotifyRest(rdIndex # wrIndex)
  /\ spc' = "select" /\ cpc' = "idle"
  /\ UNCHANGED <<queueVars, max_queue_size, mask, renotify, hello, word,
                 commands, linkVars, pollVars>>

\* send_cmd of mac_request_status_packets.
AskForStatus ==
  /\ cpc = "command_ack"
  /\ ends > 0
  /\ ends' = ends - 1
  /\ word' = "wants_status"
  /\ cpc' = "setting"
  /\ UNCHANGED <<serverVars, hello, commands, got, wants_status_updates,
                 linkVars, pollVars>>

SettingStatus ==
  /\ spc = "wants_status" /\ cpc = "parameter"
  /\ wants_status_updates' = 1
  /\ ends' = IF renotify THEN ends + 1 ELSE ends
  /\ spc' = "select" /\ cpc' = "idle"
  /\ UNCHANGED <<queueVars, notified, max_queue_size, mask, renotify,
                 hello, word, commands, got, linkVars, pollVars>>

StatusServer ==
  \/ /\ Server
     /\ spc = "frame" => wants_status_updates # 2
     /\ UNCHANGED <<wants_status_updates, linkVars, pollVars>>
  \/ SendStatus
  \/ SettingStatus
  \/ ReadNotification
  \/ ClearNotification

StatusNext ==
  \/ StatusServer
  \/ \E p \in Ports : LinkCheck(p)
  \/ AskForStatus
  \/ /\ Client \/ ClientCommand \/ \E f \in Frames : ProcessFrame(f)
     /\ UNCHANGED <<wants_status_updates, linkVars, pollVars>>

StatusSpec == StatusInit /\ [][StatusNext]_statusVars

-----------------------------------------------------------------------------

(* The client starts to receive a packet (master, after the chkct of the    *)
(* server's answer to its command word) with no token left over in the      *)
(* channel.                                                                 *)
StatusTransferInStep == cpc = "transfer" => spc = "frame" /\ ends = 0

=============================================================================
