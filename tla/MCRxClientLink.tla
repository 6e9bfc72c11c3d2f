---------------------------- MODULE MCRxClientLink ----------------------------
(***************************************************************************)
(* A client link for TLC.                                                  *)
(***************************************************************************)
EXTENDS RxClientLink

(* An exchange the client began ends, whatever frames and notifications     *)
(* come meanwhile.                                                          *)
ExchangeEnds == cpc # "idle" ~> cpc = "idle"
=============================================================================
