------------------------------- MODULE Ledger -------------------------------
(***************************************************************************)
(* What the validator promises about scores, without uids, arrays or       *)
(* resizing: an account per hotkey, which holds the score and the DID that *)
(* this hotkey earned on the seat it has, which a restart finds again, and *)
(* which is closed when the seat is lost.                                  *)
(***************************************************************************)
EXTENDS Integers

CONSTANTS
  Hotkey, Did, None,
  Seat,           \* seats are numbers
  Outcome,        \* what a round may say of a hotkey: [did, score]
  Average(_, _)   \* of the old score and that of a round

VARIABLES
  roll,     \* the seat of every hotkey on the chain
  open,     \* a validator is at work
  ledger,   \* its accounts
  legible,  \* the copy on disk can be read
  copy      \* the accounts in it

vars == <<roll, open, ledger, legible, copy>>

Nowhere == -1

\* The account of a hotkey that has just come to a seat, or has none.
NewAccount(seat) == [seat |-> seat, credit |-> 0, did |-> None]

NoAccounts == [h \in Hotkey |-> NewAccount(Nowhere)]

\* No two hotkeys on one seat.
Roll == {r \in [Hotkey -> Seat \cup {Nowhere}] :
           \A g, h \in Hotkey : r[g] = r[h] => g = h \/ r[g] = Nowhere}

\* An account survives exactly as long as its hotkey keeps its seat.
Revised(accounts) ==
  [h \in Hotkey |-> IF accounts[h].seat = roll[h] THEN accounts[h]
                    ELSE NewAccount(roll[h])]

Init ==
  /\ roll \in Roll /\ open = FALSE /\ ledger = NoAccounts
  /\ legible = TRUE /\ copy = [h \in Hotkey |-> NewAccount(roll[h])]

\* Hotkeys come, go, and take the seats of others.
Enrol == roll' \in Roll /\ UNCHANGED <<open, ledger, legible, copy>>

Open ==
  /\ ~open /\ legible
  /\ open' = TRUE /\ ledger' = Revised(copy)
  /\ UNCHANGED <<roll, legible, copy>>

Close ==
  /\ open' = FALSE /\ ledger' = NoAccounts
  /\ UNCHANGED <<roll, legible, copy>>

Revise == open /\ ledger' = Revised(ledger) /\ UNCHANGED <<roll, open, legible, copy>>

\* The identities on the accounts once those of a round are entered.
Proved(round, h) ==
  IF h \in DOMAIN round /\ round[h].did # None THEN round[h].did ELSE ledger[h].did

Shares(round, h) ==
  /\ Proved(round, h) # None
  /\ \E g \in Hotkey \ {h} : Proved(round, g) = Proved(round, h)

\* A round counts for nothing where the DID is known to be shared.
Earned(round, h) == IF Shares(round, h) THEN 0 ELSE round[h].score

Judge(round) ==
  ledger' = [h \in Hotkey |->
    [seat   |-> ledger[h].seat,
     did    |-> Proved(round, h),
     credit |-> IF h \in DOMAIN round
                THEN Average(ledger[h].credit, Earned(round, h)) ELSE ledger[h].credit]]

\* Some of those who have a seat are judged.
Round ==
  /\ open
  /\ \E J \in SUBSET {h \in Hotkey : ledger[h].seat # Nowhere} :
       \E round \in [J -> Outcome] : Judge(round)
  /\ UNCHANGED <<roll, open, legible, copy>>

\* The copy is erased before it is written.
Erase ==
  /\ open
  /\ legible' = FALSE /\ copy' = NoAccounts
  /\ UNCHANGED <<roll, open, ledger>>

Write ==
  /\ open
  /\ legible' = TRUE /\ copy' = ledger
  /\ UNCHANGED <<roll, open, ledger>>

Next == Enrol \/ Open \/ Close \/ Revise \/ Round \/ Erase \/ Write

Spec == Init /\ [][Next]_vars
=============================================================================
