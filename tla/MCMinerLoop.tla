---------------------------- MODULE MCMinerLoop -----------------------------
(***************************************************************************)
(* Two callers, who are interchangeable, and an epoch of a few blocks.     *)
(***************************************************************************)
EXTENDS MinerLoop, TLC

AnyCaller == Permutations(Caller)
=============================================================================
