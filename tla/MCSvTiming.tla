------------------------------ MODULE MCSvTiming -------------------------------
(* Instances of SvTiming for TLC. *)
EXTENDS SvTiming, TLC

\* Samples of which no two are alike, nor any like a difference.
MCValue == 0 :> 2 @@ 1 :> 5 @@ 2 :> 9 @@ 3 :> 14 @@ 4 :> 20 @@ 5 :> 27

\* A value that is one of them, and one that is none.
MCJunk == {5, 8}
================================================================================
