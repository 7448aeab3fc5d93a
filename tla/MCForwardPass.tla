--------------------------- MODULE MCForwardPass ----------------------------
(***************************************************************************)
(* Two concurrent forwards over three miners, of whom one never answers;   *)
(* a sample is at most two of them.                                        *)
(***************************************************************************)
EXTENDS ForwardPass
=============================================================================
