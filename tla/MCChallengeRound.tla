-------------------------- MODULE MCChallengeRound --------------------------
(***************************************************************************)
(* A corpus of two blocks and two recent events, fetch times on both sides *)
(* of the plausibility floor and of the latency target.                    *)
(***************************************************************************)
EXTENDS ChallengeRound, TLC

\* Blocks are interchangeable, and so are events.
CorpusIsAnySet == Permutations(Cid) \cup Permutations(Event)
=============================================================================
