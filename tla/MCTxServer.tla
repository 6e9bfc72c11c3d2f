----------------------------- MODULE MCTxServer -----------------------------
(***************************************************************************)
(* Two clients and two ports for TLC.  The ports are alike, so the packets *)
(* for one port are for port 0.                                            *)
(***************************************************************************)
EXTENDS TxServer

Ask1(timed, prio, to) == [timed |-> timed, prio |-> prio, to |-> to]

\* Two requests of one client and one of the other.  Between them they ask for
\* each kind, but for a timed packet to both ports, and for the address.
MCMaxRequests == <<2, 1>>
MCRequests ==
  <<{Ask1(TRUE, "hp", {0}), Ask1(FALSE, "lp", {0}), None},
    {Ask1(TRUE, "lp", {0}), Ask1(FALSE, "hp", Ports)}>>

\* One client, once, with a timed request to one port or to both.
MCOnce == <<1>>
MCTimedBroadcast == <<{Ask1(TRUE, "lp", {0}), Ask1(TRUE, "hp", Ports)}>>

=============================================================================
