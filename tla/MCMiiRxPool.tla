----------------------------- MODULE MCMiiRxPool ------------------------------
(***************************************************************************)
(* A small receive pool for TLC.                                           *)
(***************************************************************************)
EXTENDS MiiRxPool

\* The worst a data word can be is a next pointer marked free: it is the value
\* that would make mii_free run on.
JunkSet == {-1}
=============================================================================
