-------------------------- MODULE ValidatorRefines --------------------------
(***************************************************************************)
(* The validator's uid-indexed ScoreBook as the ledger of Ledger: the book *)
(* in memory and the one on disk are read through their own hotkey lists.  *)
(***************************************************************************)
EXTENDS Validator

Nowhere == -1

\* The uid of a hotkey in a hotkey list.
SeatIn(keys, h) ==
  IF \E u \in DOMAIN keys : keys[u] = h
  THEN CHOOSE u \in DOMAIN keys : keys[u] = h ELSE Nowhere

Seating(keys) == [h \in Hotkey |-> SeatIn(keys, h)]

\* What a book holds at a uid.
AccountAt(b, u) ==
  [seat |-> u, credit |-> IF u = Nowhere THEN 0 ELSE b.scores[u],
   did |-> IF u = Nowhere THEN None ELSE b.did[u]]

Accounts(b) == [h \in Hotkey |-> AccountAt(b, SeatIn(b.hotkeys, h))]

L == INSTANCE Ledger WITH
       Seat <- Uid, Average <- Ema,
       roll <- Seating(chainKeys), open <- Running, ledger <- Accounts(book),
       legible <- file = "whole", copy <- Accounts(saved)

\* Whatever registrations, resyncs, crashes and restarts lie between: the
\* array of scores and the dictionary of DIDs, matched to the chain by uid,
\* serve as one account per hotkey, which is what set_weights() supposes.
KeepsTheLedger == L!Spec
=============================================================================
