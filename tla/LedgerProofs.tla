---------------------------- MODULE LedgerProofs -----------------------------
(***************************************************************************)
(* The validator keeps the ledger of module Ledger, for every subnet size, *)
(* EMA factor, sampling and set of faults.                                 *)
(***************************************************************************)
EXTENDS ValidatorRefines, ValidatorProofs

-----------------------------------------------------------------------------
(***************************************************************************)
(* Reading a book by hotkey.                                               *)
(***************************************************************************)

\* A uid is not Nowhere.
LEMMA UidsAreSomewhere == \A u \in Uid : u # Nowhere
BY UidsAreBounded DEF Uid, Nowhere

\* A hotkey sits where the list has it.
LEMMA SeatOfMember ==
  ASSUME NEW keys \in Arrays(Hotkey), Registered(keys), NEW u \in DOMAIN keys
  PROVE  SeatIn(keys, keys[u]) = u
<1>1. \A v \in DOMAIN keys : keys[v] = keys[u] => v = u
  BY DEF Registered
<1> QED
  BY <1>1 DEF SeatIn

\* A seat is a uid that holds the hotkey, or there is none.
LEMMA SeatsHold ==
  ASSUME NEW keys \in Arrays(Hotkey), NEW h
  PROVE  \/ SeatIn(keys, h) \in DOMAIN keys /\ SeatIn(keys, h) \in Uid
            /\ keys[SeatIn(keys, h)] = h /\ SeatIn(keys, h) # Nowhere
         \/ SeatIn(keys, h) = Nowhere /\ \A u \in DOMAIN keys : keys[u] # h
<1>1. CASE \E u \in DOMAIN keys : keys[u] = h
  <2>1. SeatIn(keys, h) \in DOMAIN keys /\ keys[SeatIn(keys, h)] = h
    BY <1>1 DEF SeatIn
  <2> QED
    BY <2>1, ArrayElim, UidsAreSomewhere
<1>2. CASE ~ \E u \in DOMAIN keys : keys[u] = h
  BY <1>2 DEF SeatIn
<1> QED
  BY <1>1, <1>2

\* Every table of the chain is a roll.
LEMMA SeatingIsARoll ==
  ASSUME NEW keys \in Arrays(Hotkey)
  PROVE  Seating(keys) \in L!Roll
<1>1. Seating(keys) \in [Hotkey -> Uid \cup {L!Nowhere}]
  BY SeatsHold DEF Seating, L!Nowhere, Nowhere
<1>2. ASSUME NEW g \in Hotkey, NEW h \in Hotkey, Seating(keys)[g] = Seating(keys)[h]
      PROVE  g = h \/ Seating(keys)[g] = L!Nowhere
  BY <1>2, SeatsHold DEF Seating, L!Nowhere, Nowhere
<1> QED
  BY <1>1, <1>2 DEF L!Roll

\* A process that is not running has no accounts, nor has a file cut short.
LEMMA NoBookNoAccounts == Accounts(NoBook) = L!NoAccounts
<1>1. \A h \in Hotkey : SeatIn(NoBook.hotkeys, h) = Nowhere
  BY DEF SeatIn, NoBook, FreshBook, NoHotkeys
<1> QED
  BY <1>1 DEF Accounts, AccountAt, L!NoAccounts, L!NewAccount, L!Nowhere, Nowhere

-----------------------------------------------------------------------------
(***************************************************************************)
(* The methods of the ScoreBook as operations on accounts.                 *)
(***************************************************************************)

\* A book that belongs to the hotkeys of its own list.
Sound(b) == b \in Book /\ Attributed(b) /\ DidAttributed(b) /\ Registered(b.hotkeys)

\* resize() keeps an account exactly when its hotkey keeps its uid.
LEMMA ResizeRevises ==
  ASSUME NEW b, Sound(b), NEW keys \in Arrays(Hotkey), Registered(keys), NEW h \in Hotkey
  PROVE  Accounts(Resize(b, keys))[h] =
           IF Accounts(b)[h].seat = SeatIn(keys, h) THEN Accounts(b)[h]
           ELSE L!NewAccount(SeatIn(keys, h))
<1> DEFINE u == SeatIn(keys, h)
           old == SeatIn(b.hotkeys, h)
<1>1. b.hotkeys \in Arrays(Hotkey) /\ DOMAIN b.scores = DOMAIN b.hotkeys /\ b \in Book
  BY DEF Sound, Attributed, Book
<1>2. Resize(b, keys).hotkeys = keys
  BY DEF Resize
<1>3. Accounts(b)[h] = AccountAt(b, old) /\ Accounts(b)[h].seat = old
  BY DEF Accounts, AccountAt
<1>4. Accounts(Resize(b, keys))[h] = AccountAt(Resize(b, keys), u)
  BY <1>2 DEF Accounts
<1>5. CASE u = Nowhere
  BY <1>3, <1>4, <1>5 DEF AccountAt, L!NewAccount
<1>6. CASE u # Nowhere
  <2>1. u \in DOMAIN keys /\ u \in Uid /\ keys[u] = h
    BY <1>6, SeatsHold
  <2>2. CASE old = u
    <3>1. u \in DOMAIN b.hotkeys /\ b.hotkeys[u] = h
      BY <1>1, <1>6, <2>2, SeatsHold
    <3>2. u \in Kept(b, keys) /\ u \notin Replaced(b, keys)
      BY <1>1, <2>1, <3>1 DEF Kept, Replaced
    <3>3. Resize(b, keys).scores[u] = b.scores[u] /\ Resize(b, keys).did[u] = b.did[u]
      BY <2>1, <3>2 DEF Resize, ResizedScores, ResizedDids
    <3> QED
      BY <1>3, <1>4, <2>2, <3>3 DEF AccountAt
  <2>3. CASE old # u
    <3>1. ~(u \in DOMAIN b.hotkeys /\ b.hotkeys[u] = h)
      BY <1>1, <2>3, SeatOfMember DEF Sound
    <3>2. u \notin Kept(b, keys)
      BY <1>1, <2>1, <3>1 DEF Kept, Replaced
    <3>3. Resize(b, keys).scores[u] = 0
      BY <2>1, <3>2 DEF Resize, ResizedScores
    <3>4. Resize(b, keys).did[u] = None
      <4>1. CASE u \in DOMAIN b.hotkeys
        BY <2>1, <3>1, <4>1 DEF Resize, ResizedDids, Replaced
      <4>2. CASE u \notin DOMAIN b.hotkeys
        <5>1. b.did[u] = None
          BY <2>1, <4>2 DEF Sound, DidAttributed
        <5> QED
          BY <2>1, <5>1 DEF Resize, ResizedDids
      <4> QED
        BY <4>1, <4>2
    <3> QED
      BY <1>3, <1>4, <1>6, <2>3, <3>3, <3>4 DEF AccountAt, L!NewAccount
  <2> QED
    BY <2>2, <2>3
<1> QED
  BY <1>5, <1>6

\* What concurrent_forward() does with the results of a round: the DIDs of
\* the round, then its scores, masked by the DIDs of the whole book.
LEMMA AbsorbEffect ==
  ASSUME NEW b, Sound(b), NEW keys, b.hotkeys = keys, NEW o, IsRound(o, keys),
         NEW u \in DOMAIN keys
  PROVE  LET r == RecordDids(b, o, keys) IN
         /\ Absorb(b, o, keys).did[u] = r.did[u]
         /\ r.did[u] = IF u \in DOMAIN o /\ o[u].did # None THEN o[u].did ELSE b.did[u]
         /\ Absorb(b, o, keys).scores[u] =
              IF u \in DOMAIN o THEN Ema(b.scores[u], NewScore(r, o, u)) ELSE b.scores[u]
<1> DEFINE r == RecordDids(b, o, keys)
<1>1. /\ b \in Book /\ keys \in Arrays(Hotkey)
      /\ DOMAIN b.scores = DOMAIN keys /\ u \in Uid
  BY ArrayElim DEF Sound, Attributed, Book
<1>2. r \in Book /\ r.scores = b.scores
  <2>1. r \in Book
    BY <1>1, RecordDidsType
  <2> QED
    BY <1>1, <2>1 DEF RecordDids, Book
<1>3. r.did[u] = IF u \in DOMAIN o /\ o[u].did # None THEN o[u].did ELSE b.did[u]
  BY <1>1 DEF RecordDids, Book
<1>4. /\ Update(r, o, keys).did = r.did
      /\ Update(r, o, keys).scores[u] =
           IF u \in DOMAIN o THEN Ema(r.scores[u], NewScore(r, o, u)) ELSE r.scores[u]
  <2> HIDE DEF r
  <2> QED
    BY <1>1, <1>2 DEF Update, Book
<1> HIDE DEF r
<1> QED
  BY <1>2, <1>3, <1>4 DEF Absorb, r

\* A round judges the hotkeys that the metagraph has at the sampled uids.
LEMMA ForwardJudges ==
  ASSUME Sound(book), book.hotkeys = metaKeys, NEW o \in Rounds,
         book' = Absorb(book, o, metaKeys)
  PROVE  \E J \in SUBSET {h \in Hotkey : Accounts(book)[h].seat # L!Nowhere} :
           \E round \in [J -> Outcome] : L!Judge(round)
<1> DEFINE keys == metaKeys
           seat(h) == SeatIn(keys, h)
           r == RecordDids(book, o, keys)
           J == {keys[u] : u \in DOMAIN o}
           round == [h \in J |-> o[seat(h)]]
<1>1. /\ keys \in Arrays(Hotkey) /\ Registered(keys) /\ IsRound(o, keys)
      /\ \A u \in DOMAIN o : o[u] \in Outcome
  BY RoundsAreRounds DEF Sound, Book, Rounds
<1>2. keys \in [DOMAIN keys -> Hotkey] /\ DOMAIN keys \subseteq Uid /\ DOMAIN o \subseteq DOMAIN keys
  BY <1>1, ArrayElim DEF IsRound
<1>3. \A u \in DOMAIN keys : seat(keys[u]) = u
  BY <1>1, SeatOfMember
<1>4. \A h \in Hotkey : \/ /\ seat(h) \in DOMAIN keys /\ seat(h) # Nowhere /\ keys[seat(h)] = h
                         \/ /\ seat(h) = Nowhere /\ seat(h) \notin DOMAIN keys
                            /\ \A u \in DOMAIN keys : keys[u] # h
  BY <1>1, <1>2, SeatsHold, UidsAreSomewhere
<1>5. \A h \in Hotkey : h \in J <=> seat(h) \in DOMAIN o
  BY <1>2, <1>3, <1>4
<1>6. J \in SUBSET {h \in Hotkey : Accounts(book)[h].seat # L!Nowhere}
  BY <1>2, <1>4, <1>5 DEF Accounts, AccountAt, L!Nowhere, Nowhere
<1>7. round \in [J -> Outcome]
  BY <1>1, <1>2, <1>5
<1>8. \A h \in Hotkey : L!Proved(round, h) = IF seat(h) = Nowhere THEN None ELSE r.did[seat(h)]
  <2> SUFFICES ASSUME NEW h \in Hotkey
               PROVE  L!Proved(round, h) = IF seat(h) = Nowhere THEN None ELSE r.did[seat(h)]
    OBVIOUS
  <2>1. Accounts(book)[h].did = IF seat(h) = Nowhere THEN None ELSE book.did[seat(h)]
    BY DEF Accounts, AccountAt
  <2>2. h \in DOMAIN round <=> seat(h) \in DOMAIN o
    BY <1>5
  <2>3. h \in DOMAIN round => round[h] = o[seat(h)]
    OBVIOUS
  <2>4. seat(h) # Nowhere => r.did[seat(h)] =
          IF seat(h) \in DOMAIN o /\ o[seat(h)].did # None THEN o[seat(h)].did
          ELSE book.did[seat(h)]
    BY <1>1, <1>4, AbsorbEffect
  <2> HIDE DEF round, r, J
  <2>5. seat(h) = Nowhere => h \notin DOMAIN round
    BY <1>2, <1>4, <2>2
  <2> QED
    BY <2>1, <2>2, <2>3, <2>4, <2>5 DEF L!Proved
<1>9. \A u \in Uid : r.did[u] # None => u \in DOMAIN keys
  BY <1>1 DEF RecordDids, IsRound, Sound, DidAttributed, Book
<1>10. \A h \in Hotkey : seat(h) # Nowhere => (L!Shares(round, h) <=> seat(h) \in Sybils(r))
  <2> SUFFICES ASSUME NEW h \in Hotkey, seat(h) # Nowhere
               PROVE  L!Shares(round, h) <=> seat(h) \in Sybils(r)
    OBVIOUS
  <2> HIDE DEF round, r, J
  <2>1. ASSUME NEW g \in Hotkey \ {h}, L!Proved(round, g) = L!Proved(round, h),
               L!Proved(round, h) # None
        PROVE  seat(h) \in Sybils(r)
    <3>1. seat(g) # Nowhere /\ r.did[seat(g)] = r.did[seat(h)] /\ r.did[seat(h)] # None
      BY <1>8, <2>1
    <3>2. seat(g) \in Uid /\ seat(h) \in Uid /\ seat(g) # seat(h)
      BY <1>2, <1>4, <3>1
    <3> QED
      BY <3>1, <3>2 DEF Sybils
  <2>2. ASSUME NEW v \in Uid \ {seat(h)}, r.did[v] = r.did[seat(h)], r.did[seat(h)] # None
        PROVE  L!Shares(round, h)
    <3>1. v \in DOMAIN keys /\ keys[v] \in Hotkey /\ seat(keys[v]) = v
      BY <1>2, <1>3, <1>9, <2>2
    <3>2. keys[v] # h /\ v # Nowhere
      BY <2>2, <3>1, UidsAreSomewhere
    <3>3. L!Proved(round, keys[v]) = L!Proved(round, h) /\ L!Proved(round, h) # None
      BY <1>8, <2>2, <3>1, <3>2
    <3> QED
      BY <3>1, <3>2, <3>3 DEF L!Shares
  <2> QED
    BY <2>1, <2>2 DEF L!Shares, Sybils
<1>11. L!Judge(round)
  <2> SUFFICES ASSUME NEW h \in Hotkey
               PROVE  Accounts(book')[h] =
                        [seat |-> Accounts(book)[h].seat, did |-> L!Proved(round, h),
                         credit |-> IF h \in DOMAIN round
                                    THEN Ema(Accounts(book)[h].credit, L!Earned(round, h))
                                    ELSE Accounts(book)[h].credit]
    BY DEF L!Judge, Accounts
  <2>1. book'.hotkeys = keys
    BY <1>1, AbsorbType DEF Sound
  <2>2. Accounts(book)[h] = AccountAt(book, seat(h)) /\ Accounts(book')[h] = AccountAt(book', seat(h))
    BY <2>1 DEF Accounts
  <2>3. h \in DOMAIN round <=> seat(h) \in DOMAIN o
    BY <1>5
  <2>4. h \in DOMAIN round => round[h] = o[seat(h)]
    OBVIOUS
  <2>5. CASE seat(h) = Nowhere
    <3>1. h \notin DOMAIN round /\ L!Proved(round, h) = None
      BY <1>2, <1>4, <1>8, <2>3, <2>5
    <3> HIDE DEF round, r, J
    <3> QED
      BY <2>2, <2>5, <3>1 DEF AccountAt
  <2>6. CASE seat(h) # Nowhere
    <3> HIDE DEF round
    <3>1. seat(h) \in DOMAIN keys
      BY <1>4, <2>6
    <3>2. /\ book'.did[seat(h)] = r.did[seat(h)]
          /\ book'.scores[seat(h)] =
               IF seat(h) \in DOMAIN o THEN Ema(book.scores[seat(h)], NewScore(r, o, seat(h)))
               ELSE book.scores[seat(h)]
      BY <1>1, <3>1, AbsorbEffect
    <3> HIDE DEF r, J
    <3>3. h \in DOMAIN round => L!Earned(round, h) = NewScore(r, o, seat(h))
      BY <1>10, <2>4, <2>6 DEF L!Earned, NewScore
    <3> QED
      BY <1>8, <2>2, <2>3, <2>6, <3>2, <3>3 DEF AccountAt
  <2> QED
    BY <2>5, <2>6
<1> QED
  BY <1>6, <1>7, <1>11

-----------------------------------------------------------------------------
(***************************************************************************)
(* The refinement.                                                         *)
(***************************************************************************)

\* What the steps need besides AttributionInv and DidInv: no list has a
\* hotkey twice, and nothing is left in memory or in a file cut short.
RollInv ==
  /\ Registered(chainKeys)
  /\ IF Running THEN Registered(metaKeys) ELSE book = NoBook
  /\ IF file = "whole" THEN Registered(saved.hotkeys) ELSE saved = NoBook

LedgerInv == TypeOK /\ AttributionInv /\ DidInv /\ RollInv

LEMMA RegisterKeepsRegistered ==
  ASSUME TypeOK, Registered(chainKeys), NEW h \in Hotkey, Register(h)
  PROVE  Registered(chainKeys')
<1>1. \A u \in DOMAIN chainKeys : chainKeys[u] # h
  BY DEF Register, Unregistered
<1>2. chainKeys \in [DOMAIN chainKeys -> Hotkey]
  BY ArrayElim DEF TypeOK
<1>3. CASE \E n \in 1 .. MaxUids - 1 :
             /\ DOMAIN chainKeys = 0 .. n - 1
             /\ chainKeys' = [u \in 0 .. n |-> IF u < n THEN chainKeys[u] ELSE h]
  BY <1>1, <1>3 DEF Registered
<1>4. CASE \E u \in Uid : DOMAIN chainKeys = Uid /\ chainKeys' = [chainKeys EXCEPT ![u] = h]
  BY <1>1, <1>2, <1>4 DEF Registered
<1> QED
  BY <1>3, <1>4 DEF Register

LEMMA RollStep ==
  ASSUME ShrinkAllowed = FALSE, Axonless \subseteq {FALSE}
  PROVE  LedgerInv /\ [Next]_vars => RollInv'
<1> SUFFICES ASSUME LedgerInv, [Next]_vars PROVE RollInv'
  OBVIOUS
<1> USE DEF chain, process, disk, RollInv, LedgerInv
<1>1. ASSUME NEW h \in Hotkey, Register(h) PROVE RollInv'
  BY <1>1, RegisterKeepsRegistered DEF Register, Running
<1>2. CASE Shrink \/ Tick \/ Include \/ Lose \/ OtherSets \/ UNCHANGED vars
  BY <1>2 DEF Shrink, Tick, Include, Lose, OtherSets, vars, Running
<1>3. CASE Boot
  BY <1>3 DEF Boot, Start, StartFails, Running, Looping
<1>4. CASE Forward
  BY <1>4 DEF Forward, Running, Looping
<1>5. CASE Sync \/ SkipSync \/ SetWeights \/ SkipWeights
  BY <1>5 DEF Sync, SkipSync, SetWeights, SkipWeights, Running, Looping
<1>6. CASE BeginSave
  BY <1>6 DEF BeginSave, Running, Looping
<1>7. CASE EndSave
  BY <1>7 DEF EndSave, AttributionInv, Running, Looping
<1>8. CASE Stops \/ NoEntry
  BY <1>8 DEF Stops, NoEntry, Exit, Kill, Raise, SaveFails, Leave, Running, Looping
<1> QED
  BY <1>1, <1>2, <1>3, <1>4, <1>5, <1>6, <1>7, <1>8 DEF Next, World, Turn

\* The books in use are sound.
LEMMA BooksAreSound ==
  ASSUME LedgerInv
  PROVE  /\ Running => Sound(book) /\ book.hotkeys = metaKeys
         /\ file = "whole" => Sound(saved)
BY DEF LedgerInv, RollInv, AttributionInv, DidInv, Sound, TypeOK

\* A resized book is the revised ledger.
LEMMA ResizedAccounts ==
  ASSUME LedgerInv, NEW b, Sound(b)
  PROVE  Accounts(Resize(b, chainKeys)) =
           [h \in Hotkey |-> IF Accounts(b)[h].seat = Seating(chainKeys)[h]
                             THEN Accounts(b)[h] ELSE L!NewAccount(Seating(chainKeys)[h])]
<1>1. chainKeys \in Arrays(Hotkey) /\ Registered(chainKeys)
  BY DEF LedgerInv, RollInv, TypeOK
<1>2. \A h \in Hotkey : Accounts(Resize(b, chainKeys))[h] =
        IF Accounts(b)[h].seat = Seating(chainKeys)[h] THEN Accounts(b)[h]
        ELSE L!NewAccount(Seating(chainKeys)[h])
  BY <1>1, ResizeRevises DEF Seating
<1> QED
  BY <1>2 DEF Accounts

\* The state file of a synced run is a copy of new accounts.
LEMMA InitImplements ==
  ASSUME FirstRun = FALSE
  PROVE  Init => L!Init
<1> SUFFICES ASSUME Init PROVE L!Init
  OBVIOUS
<1> DEFINE b == [FreshBook(DOMAIN chainKeys) EXCEPT !.hotkeys = chainKeys]
<1>1. chainKeys \in Arrays(Hotkey) /\ saved = b /\ file = "whole" /\ pc = "down" /\ book = NoBook
  BY DEF Init
<1>2. b.hotkeys = chainKeys /\ b.scores = [u \in DOMAIN chainKeys |-> 0]
      /\ b.did = [u \in Uid |-> None]
  BY DEF FreshBook
<1>3. Accounts(saved) = [h \in Hotkey |-> L!NewAccount(Seating(chainKeys)[h])]
  <2> SUFFICES ASSUME NEW h \in Hotkey
               PROVE  AccountAt(b, SeatIn(chainKeys, h)) = L!NewAccount(SeatIn(chainKeys, h))
    BY <1>1, <1>2 DEF Accounts, Seating
  <2> HIDE DEF b
  <2> QED
    BY <1>1, <1>2, SeatsHold DEF AccountAt, L!NewAccount
<1>4. Seating(chainKeys) \in L!Roll
  BY <1>1, SeatingIsARoll
<1> HIDE DEF b
<1> QED
  BY <1>1, <1>3, <1>4, NoBookNoAccounts DEF L!Init, Running, Looping

\* A step of the validator or of the chain is one of the ledger, or none.
LEMMA StepImplements ==
  ASSUME ShrinkAllowed = FALSE, Axonless \subseteq {FALSE}
  PROVE  LedgerInv /\ [Next]_vars => [L!Next]_(L!vars)
<1> SUFFICES ASSUME LedgerInv, [Next]_vars PROVE [L!Next]_(L!vars)
  OBVIOUS
<1> USE DEF chain, process, disk
<1>1. ASSUME NEW h \in Hotkey, Register(h) PROVE L!Enrol
  <2>1. chainKeys' \in Arrays(Hotkey)
    BY <1>1, ChainKeysType DEF LedgerInv
  <2>2. Seating(chainKeys)' \in L!Roll
    BY <2>1, SeatingIsARoll
  <2> QED
    BY <1>1, <2>2 DEF Register, L!Enrol, Running
<1>2. CASE Shrink \/ Tick \/ Include \/ Lose \/ OtherSets \/ UNCHANGED vars
  BY <1>2 DEF Shrink, Tick, Include, Lose, OtherSets, vars, L!vars, Running
<1>3. CASE Start
  <2>1. file = "whole" /\ ~Running
    BY <1>3 DEF Start, LedgerInv, AttributionInv, TypeOK, Running, Looping
  <2>2. Accounts(book') = L!Revised(Accounts(saved))
    BY <1>3, <2>1, BooksAreSound, ResizedAccounts DEF Start, L!Revised
  <2>3. UNCHANGED <<Seating(chainKeys), file, saved>> /\ Running'
    BY <1>3 DEF Start, Running, Looping
  <2> QED
    BY <2>1, <2>2, <2>3 DEF L!Next, L!Open
<1>4. CASE StartFails \/ SkipSync \/ SetWeights \/ SkipWeights
  BY <1>4 DEF StartFails, SkipSync, SetWeights, SkipWeights, L!vars, Running, Looping
<1>5. CASE Forward
  <2>1. PICK o \in Rounds : book' = Absorb(book, o, metaKeys)
    BY <1>5 DEF Forward
  <2>2. Running /\ Running' /\ UNCHANGED <<chainKeys, file, saved>>
    BY <1>5 DEF Forward, Running, Looping
  <2>3. L!Round
    BY <2>1, <2>2, BooksAreSound, ForwardJudges DEF L!Round
  <2> QED
    BY <2>3 DEF L!Next
<1>6. CASE Sync
  <2>1. Running /\ Running' /\ UNCHANGED <<chainKeys, file, saved>>
    BY <1>6 DEF Sync, Running, Looping
  <2>2. Accounts(book') = L!Revised(Accounts(book))
    BY <1>6, <2>1, BooksAreSound, ResizedAccounts DEF Sync, L!Revised
  <2> QED
    BY <2>1, <2>2 DEF L!Next, L!Revise
<1>7. CASE BeginSave
  BY <1>7, NoBookNoAccounts DEF BeginSave, L!Next, L!Erase, Running, Looping
<1>8. CASE EndSave
  BY <1>8 DEF EndSave, L!Next, L!Write, Running, Looping
<1>9. CASE Stops \/ NoEntry
  BY <1>9, NoBookNoAccounts
     DEF Stops, NoEntry, Exit, Kill, Raise, SaveFails, Leave, L!Next, L!Close, Running, Looping
<1> QED
  BY <1>1, <1>2, <1>3, <1>4, <1>5, <1>6, <1>7, <1>8, <1>9 DEF Next, World, Boot, Turn, L!Next

\* From the state file of a synced run on, and as long as no uid is removed,
\* the arrays matched by uid are one account per hotkey, kept exactly while
\* the hotkey keeps its seat, for every interleaving of registrations,
\* turns, faults and restarts.
THEOREM LedgerIsKept ==
  ASSUME FirstRun = FALSE, ShrinkAllowed = FALSE, Axonless \subseteq {FALSE}
  PROVE  Spec => KeepsTheLedger
<1>1. Init => LedgerInv
  <2> SUFFICES ASSUME Init PROVE LedgerInv
    OBVIOUS
  <2>1. TypeOK
    BY InitType
  <2>2. AttributionInv /\ DidInv
    BY InitAttributes
  <2>3. RollInv
    BY DEF Init, RollInv, FreshBook, Running, Looping
  <2> QED
    BY <2>1, <2>2, <2>3 DEF LedgerInv
<1>2. LedgerInv /\ [Next]_vars => LedgerInv'
  BY NextType, AttributionStep, DidStep, RollStep DEF LedgerInv
<1>3. Init => L!Init
  BY InitImplements
<1>4. LedgerInv /\ [Next]_vars => [L!Next]_(L!vars)
  BY StepImplements
<1> QED
  BY <1>1, <1>2, <1>3, <1>4, PTL DEF Spec, KeepsTheLedger, L!Spec
=============================================================================
