----------------------------- MODULE MCIdentity -----------------------------
(***************************************************************************)
(* Two keys, which are interchangeable, one nonce, and up to two           *)
(* certificates of two updates.                                            *)
(***************************************************************************)
EXTENDS Identity, TLC

AnyKey == Permutations(Key)
=============================================================================
