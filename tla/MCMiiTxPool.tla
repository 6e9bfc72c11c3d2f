----------------------------- MODULE MCMiiTxPool ------------------------------
(***************************************************************************)
(* A small transmit pool for TLC.                                          *)
(***************************************************************************)
EXTENDS MiiTxPool

\* See MCMiiRxPool.
JunkSet == {-1}
=============================================================================
