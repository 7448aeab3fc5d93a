---------------------------- MODULE MCValidator -----------------------------
(***************************************************************************)
(* Small subnets for TLC: two miners' uids at most, a miner's hotkey more  *)
(* than there are uids for, and scores in quarters.                        *)
(***************************************************************************)
EXTENDS ValidatorRefines, TLC

\* Hotkeys other than the validator's, and DIDs, are interchangeable.
SomeHotkeys == Permutations(Hotkey \ {Self}) \cup Permutations(Did)
=============================================================================
