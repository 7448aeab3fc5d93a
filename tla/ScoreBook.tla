----------------------------- MODULE ScoreBook ------------------------------
(***************************************************************************)
(* The validator's ScoreBook (gitlawbnet/validator/scoring.py) as          *)
(* operators on a record, one operator per method.  The record has the     *)
(* fields of the Python object                                             *)
(*                                                                         *)
(*   scores    the float32 array, indexed 0 .. size-1; here multiples of   *)
(*             1/Unit                                                      *)
(*   hotkeys   the hotkey list seen by the last resize; empty before it    *)
(*   did       uid_to_did, None for a uid that is not a key of the dict    *)
(*                                                                         *)
(* and two history fields, which the code does not have and which no       *)
(* guard reads:                                                            *)
(*                                                                         *)
(*   earned    whose challenge outcomes a uid's score was built from       *)
(*   prover    which hotkey proved the DID recorded for a uid              *)
(*                                                                         *)
(* A definition named in parentheses in a comment is a slip that the code  *)
(* does not make; no specification uses it.                                *)
(***************************************************************************)
EXTENDS Integers

CONSTANTS
  Hotkey,     \* hotkeys that may hold a uid of the subnet
  Did,        \* identities a gitlawb-node may prove in a handshake
  None,       \* no hotkey, no DID
  MaxUids,    \* the largest number of uids the subnet ever has
  Unit,       \* the score 1.0
  AlphaNum,   \* the EMA factor --neuron.moving_average_alpha is
  AlphaDen    \*   AlphaNum / AlphaDen

ASSUME NoneIsFresh == None \notin Hotkey /\ None \notin Did
ASSUME UidsAreBounded == MaxUids \in Nat \ {0}
ASSUME UnitIsPositive == Unit \in Nat \ {0}
ASSUME AlphaIsAFraction ==
  AlphaDen \in Nat \ {0} /\ AlphaNum \in Nat /\ AlphaNum <= AlphaDen

Uid   == 0 .. MaxUids - 1
Score == 0 .. Unit

\* The sets of uids a metagraph or an array can have: an initial segment.
UidRange == {0 .. n - 1 : n \in 0 .. MaxUids}

\* Arrays over S, of any size up to MaxUids.
Arrays(S) == UNION {[U -> S] : U \in UidRange}

NoHotkeys == [u \in {} |-> None]

Book == [scores : Arrays(Score), hotkeys : Arrays(Hotkey),
         did : [Uid -> Did \cup {None}],
         earned : [Uid -> SUBSET Hotkey], prover : [Uid -> Hotkey \cup {None}]]

\* ScoreBook(num_uids): zero scores, no hotkeys, no DIDs.
FreshBook(uids) ==
  [scores |-> [u \in uids |-> 0], hotkeys |-> NoHotkeys,
   did |-> [u \in Uid |-> None],
   earned |-> [u \in Uid |-> {}], prover |-> [u \in Uid |-> None]]

\* What a process that is not running has in memory.
NoBook == FreshBook({})

-----------------------------------------------------------------------------
(***************************************************************************)
(* resize(num_uids, hotkeys).  num_uids is always len(hotkeys).            *)
(***************************************************************************)

\* The uids in the overlap of the two lists whose hotkey changed.
\* (ReplacedNone: the list is overwritten before it is compared.)
ReplacedNone(book, keys) == {}
Replaced(book, keys) ==
  {u \in DOMAIN book.hotkeys \cap DOMAIN keys : book.hotkeys[u] # keys[u]}

\* The uids that keep their score.
Kept(book, keys) ==
  (DOMAIN book.scores \cap DOMAIN keys) \ Replaced(book, keys)

\* The array is cut or padded with zeros.
\* (ScoresSameSize: the array is never reallocated.)
ScoresSameSize(book, keys) ==
  [u \in DOMAIN book.scores |-> IF u \in Replaced(book, keys) THEN 0 ELSE book.scores[u]]
ResizedScores(book, keys) ==
  [u \in DOMAIN keys |-> IF u \in Kept(book, keys) THEN book.scores[u] ELSE 0]

\* A replaced uid loses its DID.  The one of a uid beyond the new size stays.
\* (DidsStay: only the score is reset.)
DidsStay(book, keys) == book.did
ResizedDids(book, keys) ==
  [u \in Uid |-> IF u \in Replaced(book, keys) THEN None ELSE book.did[u]]

Resize(book, keys) ==
  [scores  |-> ResizedScores(book, keys),
   hotkeys |-> keys,
   did     |-> ResizedDids(book, keys),
   earned  |-> [u \in Uid |-> IF u \in Kept(book, keys) THEN book.earned[u] ELSE {}],
   prover  |-> [u \in Uid |->
                  IF ResizedDids(book, keys)[u] = None THEN None ELSE book.prover[u]]]

-----------------------------------------------------------------------------
(***************************************************************************)
(* record_did, sybil_mask and update.  outcomes maps the sampled uids to   *)
(* records [did, score]: the DID proved in the handshake (None if it was   *)
(* not) and the composite score of the round.  keys are the hotkeys the    *)
(* challenges were sent to; only the history fields use them.              *)
(***************************************************************************)

RecordDids(book, outcomes, keys) ==
  LET proved == {u \in DOMAIN outcomes : outcomes[u].did # None}
  IN [book EXCEPT
        !.did    = [u \in Uid |-> IF u \in proved THEN outcomes[u].did ELSE @[u]],
        !.prover = [u \in Uid |-> IF u \in proved THEN keys[u] ELSE @[u]]]

\* The uids whose DID is claimed by two uids or more.
Sybils(book) ==
  {u \in Uid : /\ book.did[u] # None
               /\ \E v \in Uid \ {u} : book.did[v] = book.did[u]}

\* (EmaAdds: the old score is not scaled down.)
EmaAdds(old, new) == (AlphaDen * old + AlphaNum * new) \div AlphaDen
Ema(old, new) == ((AlphaDen - AlphaNum) * old + AlphaNum * new) \div AlphaDen

\* The score a uid's outcome counts for: nothing when its DID is shared.
\* (NewScoreAsGiven: the mask is not applied.)
NewScoreAsGiven(book, outcomes, u) == outcomes[u].score
NewScore(book, outcomes, u) ==
  IF u \in Sybils(book) THEN 0 ELSE outcomes[u].score

Update(book, outcomes, keys) ==
  LET judged == DOMAIN outcomes \cap DOMAIN book.scores
  IN [book EXCEPT
        !.scores = [u \in DOMAIN @ |->
                      IF u \in judged
                      THEN Ema(@[u], NewScore(book, outcomes, u)) ELSE @[u]],
        !.earned = [u \in Uid |->
                      IF u \in judged /\ NewScore(book, outcomes, u) > 0
                      THEN @[u] \cup {keys[u]} ELSE @[u]]]

\* A round's results in concurrent_forward(): the DIDs first.
\* (AbsorbLate: the scores first.)
AbsorbLate(book, outcomes, keys) ==
  RecordDids(Update(book, outcomes, keys), outcomes, keys)
Absorb(book, outcomes, keys) ==
  Update(RecordDids(book, outcomes, keys), outcomes, keys)

\* norm_value == 0 in set_weights: there is nothing to normalise.
AllZero(book) == \A u \in DOMAIN book.scores : book.scores[u] = 0
=============================================================================
