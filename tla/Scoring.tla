------------------------------ MODULE Scoring -------------------------------
(***************************************************************************)
(* The component scores and the composite of gitlawbnet/validator/         *)
(* scoring.py, in integers: a component score of 1.0 is Whole, and the     *)
(* weights are percentages, so that a composite of 1.0 is 100 * Whole.     *)
(* With Whole = 900 no division below rounds, for up to 6 challenges,      *)
(* CIDs or events and fetch times that are multiples of 5 ms.              *)
(*                                                                         *)
(* A definition named in parentheses in a comment is a slip that the code  *)
(* does not make; no specification uses it.                                *)
(*                                                                         *)
(* An outcome is a record with the fields of ChallengeOutcome; a round     *)
(* takes at most one latency sample, its own median.                       *)
(***************************************************************************)
EXTENDS Integers, Sequences

Whole     == 900
Neutral   == Whole \div 2
Composite == 0 .. 100 * Whole

AtMost(x, limit)  == IF x < limit THEN x ELSE limit
AtLeast(x, limit) == IF x > limit THEN x ELSE limit

\* Of what was asked, the share that came back.
Share(part, all) == (Whole * part) \div all

UptimeScore(o) == IF o.sent = 0 THEN 0 ELSE Share(o.answered, o.sent)

\* (StorageZero: nothing to prove is nothing proved.)
StorageZero(o) == IF o.requested = 0 THEN 0 ELSE Share(o.proven, o.requested)
StorageScore(o) == IF o.requested = 0 THEN Neutral ELSE Share(o.proven, o.requested)

TargetMs == 500
MaxMs    == 5000

\* Whole up to the target, nothing from the maximum on, linear in between.
LatencyScore(o) ==
  IF o.samples = <<>> THEN Neutral
  ELSE LET median == o.samples[1]
       IN IF median <= TargetMs THEN Whole
          ELSE IF median >= MaxMs THEN 0
          ELSE Whole - (Whole * (median - TargetMs)) \div (MaxMs - TargetMs)

\* One hundredth per peer above four, five hundredths at most.
PeerBonus(o) ==
  AtMost((5 * Whole) \div 100, AtLeast(0, ((o.peers - 4) * Whole) \div 100))

\* (BonusOnTop: the share is cut at the whole before the bonus is added.)
BonusOnTop(o) ==
  IF o.probed = 0 THEN Neutral
  ELSE AtMost(Whole, Share(o.seen, o.probed)) + PeerBonus(o)
GossipScore(o) ==
  IF o.probed = 0 THEN Neutral
  ELSE AtLeast(0, AtMost(Whole, Share(o.seen, o.probed) + PeerBonus(o)))

CompositeScore(o) ==
  35 * UptimeScore(o) + 25 * StorageScore(o)
    + 20 * LatencyScore(o) + 20 * GossipScore(o)
=============================================================================
