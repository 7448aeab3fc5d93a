---------------------------- MODULE MCGossipExam ----------------------------
(***************************************************************************)
(* Few events, and limits that as few as that exceed.                      *)
(***************************************************************************)
EXTENDS GossipExam, TLC

\* Events are interchangeable, but for the garbled ones.
SomeEvents == Permutations(Event \ Garbled)
=============================================================================
