--------------------------- MODULE ValidatorProofs --------------------------
(***************************************************************************)
(* What holds of the validator for every subnet size, epoch length, EMA    *)
(* factor and set of faults.                                               *)
(***************************************************************************)
EXTENDS Validator, TLAPS

-----------------------------------------------------------------------------
(***************************************************************************)
(* Arithmetic of the moving average.                                       *)
(***************************************************************************)

\* A quotient is bounded by the factor that bounds the dividend.
LEMMA QuotientBound ==
  ASSUME NEW x \in Nat, NEW d \in Nat \ {0}, NEW m \in Nat, x <= d * m
  PROVE  x \div d \in 0 .. m
<1> DEFINE q == x \div d
<1>1. q \in Nat /\ x % d \in 0 .. d - 1 /\ x = d * q + (x % d)
  OBVIOUS
<1>2. SUFFICES ASSUME q > m PROVE FALSE
  BY <1>1
<1>3. q >= m + 1
  BY <1>1, <1>2
<1>4. d * q >= d * (m + 1)
  BY <1>1, <1>3
<1>5. d * (m + 1) = d * m + d
  OBVIOUS
<1> QED
  BY <1>1, <1>4, <1>5

\* A product grows with its right factor.
LEMMA ProductGrows ==
  ASSUME NEW k \in Nat, NEW x \in Nat, NEW y \in Nat, x <= y
  PROVE  k * x \in Nat /\ k * x <= k * y
OBVIOUS

\* The EMA of two scores is a score.
LEMMA EmaIsAScore ==
  ASSUME NEW old \in Score, NEW new \in Score
  PROVE  Ema(old, new) \in Score
<1> DEFINE k == AlphaDen - AlphaNum
<1>1. k \in Nat /\ AlphaNum \in Nat /\ AlphaDen \in Nat \ {0} /\ Unit \in Nat
  BY AlphaIsAFraction, UnitIsPositive
<1>2. old \in Nat /\ new \in Nat /\ old <= Unit /\ new <= Unit
  BY <1>1 DEF Score
<1>3. k * old \in Nat /\ k * old <= k * Unit
  BY <1>1, <1>2, ProductGrows
<1>4. AlphaNum * new \in Nat /\ AlphaNum * new <= AlphaNum * Unit
  BY <1>1, <1>2, ProductGrows
<1>5. k * Unit + AlphaNum * Unit = AlphaDen * Unit
  BY <1>1
<1>6. k * old + AlphaNum * new \in Nat
  BY <1>3, <1>4
<1>7. k * old + AlphaNum * new <= AlphaDen * Unit
  <2>1. k * Unit \in Nat /\ AlphaNum * Unit \in Nat
    BY <1>1
  <2> HIDE DEF k
  <2> QED
    BY <1>3, <1>4, <1>5, <2>1
<1>8. (k * old + AlphaNum * new) \div AlphaDen \in 0 .. Unit
  <2> HIDE DEF k
  <2> QED
    BY <1>1, <1>6, <1>7, QuotientBound
<1> QED
  BY <1>8 DEF Ema, Score

-----------------------------------------------------------------------------
(***************************************************************************)
(* Types of arrays, books and rounds.                                      *)
(***************************************************************************)

LEMMA ArrayElim ==
  ASSUME NEW S, NEW a \in Arrays(S)
  PROVE  /\ DOMAIN a \in UidRange /\ DOMAIN a \subseteq Uid
         /\ a \in [DOMAIN a -> S]
<1>1. PICK U \in UidRange : a \in [U -> S]
  BY DEF Arrays
<1>2. PICK n \in 0 .. MaxUids : U = 0 .. n - 1
  BY DEF UidRange
<1> QED
  BY <1>1, <1>2, UidsAreBounded DEF Uid

LEMMA ArrayIntro ==
  ASSUME NEW S, NEW n \in 0 .. MaxUids, NEW a \in [0 .. n - 1 -> S]
  PROVE  a \in Arrays(S)
<1>1. 0 .. n - 1 \in UidRange
  BY DEF UidRange
<1> QED
  BY <1>1 DEF Arrays

\* An array over the same uids is an array.
LEMMA SameRange ==
  ASSUME NEW S, NEW T, NEW a \in Arrays(S), NEW b \in [DOMAIN a -> T]
  PROVE  b \in Arrays(T)
BY ArrayElim DEF Arrays

LEMMA NoHotkeysIsAnArray == NoHotkeys \in Arrays(Hotkey)
<1>1. 0 .. 0 - 1 = {} /\ 0 \in 0 .. MaxUids
  BY UidsAreBounded
<1>2. NoHotkeys \in [0 .. 0 - 1 -> Hotkey]
  BY <1>1 DEF NoHotkeys
<1> QED
  BY <1>1, <1>2, ArrayIntro

LEMMA FreshBookType ==
  ASSUME NEW U \in UidRange
  PROVE  FreshBook(U) \in Book
<1>1. [u \in U |-> 0] \in [U -> Score]
  BY UnitIsPositive DEF Score
<1>2. [u \in U |-> 0] \in Arrays(Score)
  BY <1>1 DEF Arrays
<1> QED
  BY <1>2, NoHotkeysIsAnArray DEF FreshBook, Book

LEMMA NoBookType == NoBook \in Book
<1>1. {} \in UidRange
  <2>1. 0 .. 0 - 1 = {} /\ 0 \in 0 .. MaxUids
    BY UidsAreBounded
  <2> QED
    BY <2>1 DEF UidRange
<1> QED
  BY <1>1, FreshBookType DEF NoBook

LEMMA ResizeType ==
  ASSUME NEW b \in Book, NEW keys \in Arrays(Hotkey)
  PROVE  Resize(b, keys) \in Book
<1>1. ResizedScores(b, keys) \in [DOMAIN keys -> Score]
  <2>1. b.scores \in [DOMAIN b.scores -> Score]
    BY ArrayElim DEF Book
  <2>2. 0 \in Score
    BY UnitIsPositive DEF Score
  <2> QED
    BY <2>1, <2>2 DEF ResizedScores, Kept
<1>2. ResizedScores(b, keys) \in Arrays(Score)
  BY <1>1, SameRange
<1>3. ResizedDids(b, keys) \in [Uid -> Did \cup {None}]
  BY DEF ResizedDids, Book
<1> QED
  BY <1>2, <1>3 DEF Resize, Book

\* What a round returns: outcomes for some of the uids it was sent to.
IsRound(o, keys) ==
  /\ DOMAIN o \subseteq DOMAIN keys
  /\ \A u \in DOMAIN o : o[u].did \in Did \cup {None} /\ o[u].score \in Score

LEMMA RoundsAreRounds ==
  ASSUME NEW o \in Rounds
  PROVE  IsRound(o, metaKeys)
<1>1. PICK U \in SUBSET Candidates : o \in [U -> Outcome]
  BY DEF Rounds
<1>2. \A x \in Outcome : x.did \in Did \cup {None} /\ x.score \in Score
  BY OutcomesAreScores DEF Outcome
<1> QED
  BY <1>1, <1>2 DEF IsRound, Candidates

LEMMA RecordDidsType ==
  ASSUME NEW b \in Book, NEW keys \in Arrays(Hotkey), NEW o, IsRound(o, keys)
  PROVE  RecordDids(b, o, keys) \in Book
<1>1. keys \in [DOMAIN keys -> Hotkey]
  BY ArrayElim
<1> QED
  BY <1>1 DEF RecordDids, IsRound, Book

LEMMA UpdateType ==
  ASSUME NEW b \in Book, NEW keys \in Arrays(Hotkey), NEW o, IsRound(o, keys)
  PROVE  /\ Update(b, o, keys) \in Book
         /\ DOMAIN Update(b, o, keys).scores = DOMAIN b.scores
         /\ Update(b, o, keys).hotkeys = b.hotkeys
<1> DEFINE judged == DOMAIN o \cap DOMAIN b.scores
           scores == [u \in DOMAIN b.scores |->
                        IF u \in judged THEN Ema(b.scores[u], NewScore(b, o, u))
                        ELSE b.scores[u]]
           earned == [u \in Uid |->
                        IF u \in judged /\ NewScore(b, o, u) > 0
                        THEN b.earned[u] \cup {keys[u]} ELSE b.earned[u]]
<1>1. b.scores \in Arrays(Score) /\ b.scores \in [DOMAIN b.scores -> Score]
  BY ArrayElim DEF Book
<1>2. \A u \in DOMAIN o : NewScore(b, o, u) \in Score
  BY UnitIsPositive DEF NewScore, IsRound, Score
<1>3. scores \in [DOMAIN b.scores -> Score]
  BY <1>1, <1>2, EmaIsAScore
<1>4. scores \in Arrays(Score)
  BY <1>1, <1>3, SameRange
<1>5. earned \in [Uid -> SUBSET Hotkey]
  <2>1. keys \in [DOMAIN keys -> Hotkey]
    BY ArrayElim
  <2> QED
    BY <2>1 DEF IsRound, Book
<1>6. Update(b, o, keys) = [b EXCEPT !.scores = scores, !.earned = earned]
  BY DEF Update
<1> HIDE DEF scores, earned
<1> QED
  BY <1>3, <1>4, <1>5, <1>6 DEF Book

LEMMA AbsorbType ==
  ASSUME NEW b \in Book, NEW keys \in Arrays(Hotkey), NEW o, IsRound(o, keys)
  PROVE  /\ Absorb(b, o, keys) \in Book
         /\ DOMAIN Absorb(b, o, keys).scores = DOMAIN b.scores
         /\ Absorb(b, o, keys).hotkeys = b.hotkeys
<1>1. RecordDids(b, o, keys) \in Book
  BY RecordDidsType
<1>2. /\ RecordDids(b, o, keys).scores = b.scores
      /\ RecordDids(b, o, keys).hotkeys = b.hotkeys
  BY DEF RecordDids, Book
<1> QED
  BY <1>1, <1>2, UpdateType DEF Absorb

-----------------------------------------------------------------------------
(***************************************************************************)
(* Type correctness.                                                       *)
(***************************************************************************)

LEMMA OlderType == 0 \in Age /\ \A x \in Age : Older(x) \in Age
BY ConfigIsValid DEF Age, Older

\* Registrations and removals keep the chain's table an array of hotkeys.
LEMMA ChainKeysType ==
  ASSUME TypeOK, (\E h \in Hotkey : Register(h)) \/ Shrink
  PROVE  chainKeys' \in Arrays(Hotkey)
<1>1. chainKeys \in Arrays(Hotkey) /\ chainKeys \in [DOMAIN chainKeys -> Hotkey]
  BY ArrayElim DEF TypeOK
<1>2. ASSUME NEW h \in Hotkey, Register(h) PROVE chainKeys' \in Arrays(Hotkey)
  <2>1. CASE \E n \in 1 .. MaxUids - 1 :
               /\ DOMAIN chainKeys = 0 .. n - 1
               /\ chainKeys' = [u \in 0 .. n |-> IF u < n THEN chainKeys[u] ELSE h]
    <3>1. PICK n \in 1 .. MaxUids - 1 :
            /\ DOMAIN chainKeys = 0 .. n - 1
            /\ chainKeys' = [u \in 0 .. n |-> IF u < n THEN chainKeys[u] ELSE h]
      BY <2>1
    <3>2. n + 1 \in 0 .. MaxUids /\ (n + 1) - 1 = n
      BY UidsAreBounded
    <3>3. chainKeys' \in [0 .. (n + 1) - 1 -> Hotkey]
      BY <1>1, <3>1, <3>2
    <3> QED
      BY <3>2, <3>3, ArrayIntro
  <2>2. CASE \E u \in Uid : chainKeys' = [chainKeys EXCEPT ![u] = h]
    BY <1>1, <2>2, SameRange
  <2> QED
    BY <1>2, <2>1, <2>2 DEF Register
<1>3. ASSUME Shrink PROVE chainKeys' \in Arrays(Hotkey)
  <2>1. PICK n \in 1 .. MaxUids - 1 :
          /\ DOMAIN chainKeys = 0 .. n
          /\ chainKeys' = [u \in 0 .. n - 1 |-> chainKeys[u]]
    BY <1>3 DEF Shrink
  <2>2. n \in 0 .. MaxUids /\ chainKeys' \in [0 .. n - 1 -> Hotkey]
    BY <1>1, <2>1, UidsAreBounded
  <2> QED
    BY <2>2, ArrayIntro
<1> QED
  BY <1>2, <1>3

LEMMA InitType == Init => TypeOK
<1> SUFFICES ASSUME Init PROVE TypeOK
  OBVIOUS
<1>1. chainKeys \in Arrays(Hotkey) /\ DOMAIN chainKeys \in UidRange
  BY ArrayElim DEF Init
<1>2. 0 \in Age /\ 0 \in 0 .. Forwards - 1
  BY ConfigIsValid DEF Age
<1>3. saved \in Book
  <2>1. [FreshBook(DOMAIN chainKeys) EXCEPT !.hotkeys = chainKeys] \in Book
    BY <1>1, FreshBookType DEF Book
  <2> QED
    BY <2>1, NoBookType DEF Init
<1> QED
  BY <1>1, <1>2, <1>3, NoBookType, NoHotkeysIsAnArray, SelfIsAHotkey DEF Init, TypeOK

\* A process that leaves its loop leaves a well-typed state.
LEMMA LeaveType ==
  ASSUME TypeOK, NEW where \in {"down", "stopped"}, Leave(where)
  PROVE  TypeOK'
<1>1. 0 \in Age /\ 0 \in 0 .. Forwards - 1
  BY ConfigIsValid DEF Age
<1> QED
  BY <1>1, NoBookType, NoHotkeysIsAnArray DEF Leave, TypeOK, chain, disk

LEMMA NextType == TypeOK /\ [Next]_vars => TypeOK'
<1> SUFFICES ASSUME TypeOK, [Next]_vars PROVE TypeOK'
  OBVIOUS
<1> USE DEF chain, process, disk
<1>1. ASSUME NEW h \in Hotkey, Register(h) PROVE TypeOK'
  BY <1>1, ChainKeysType, OlderType DEF Register, TypeOK
<1>2. ASSUME Shrink PROVE TypeOK'
  BY <1>2, ChainKeysType DEF Shrink, TypeOK
<1>3. ASSUME Tick PROVE TypeOK'
  BY <1>3, OlderType DEF Tick, TypeOK
<1>4. ASSUME Include PROVE TypeOK'
  BY <1>4, OlderType DEF Include, TypeOK
<1>5. ASSUME Lose \/ OtherSets PROVE TypeOK'
  BY <1>5, OlderType DEF Lose, OtherSets, TypeOK
<1>6. ASSUME Boot PROVE TypeOK'
  <2>1. 0 \in 0 .. Forwards - 1
    BY ConfigIsValid
  <2>2. Resize(saved, chainKeys) \in Book
    BY ResizeType DEF TypeOK
  <2>3. FreshBook(DOMAIN chainKeys) \in Book
    BY ArrayElim, FreshBookType DEF TypeOK
  <2> QED
    BY <1>6, <2>1, <2>2, <2>3, ArrayElim DEF Boot, Start, StartFails, TypeOK, Looping
<1>7. ASSUME Forward PROVE TypeOK'
  <2>1. PICK o \in Rounds : book' = Absorb(book, o, metaKeys)
    BY <1>7 DEF Forward
  <2>2. book' \in Book
    BY <2>1, RoundsAreRounds, AbsorbType DEF TypeOK
  <2>3. batch' \in 0 .. Forwards - 1
    BY <1>7, ConfigIsValid DEF Forward, TypeOK
  <2> QED
    BY <1>7, <2>2, <2>3 DEF Forward, TypeOK, Looping
<1>8. ASSUME Sync PROVE TypeOK'
  <2>1. Resize(book, chainKeys) \in Book
    BY ResizeType DEF TypeOK
  <2> QED
    BY <1>8, <2>1 DEF Sync, TypeOK, Looping
<1>9. ASSUME SkipSync PROVE TypeOK'
  BY <1>9 DEF SkipSync, TypeOK, Looping
<1>10. ASSUME SetWeights PROVE TypeOK'
  BY <1>10 DEF SetWeights, TypeOK, Looping
<1>11. ASSUME SkipWeights PROVE TypeOK'
  BY <1>11 DEF SkipWeights, TypeOK, Looping
<1>12. ASSUME BeginSave PROVE TypeOK'
  BY <1>12, NoBookType DEF BeginSave, TypeOK, Looping
<1>13. ASSUME EndSave PROVE TypeOK'
  BY <1>13 DEF EndSave, TypeOK, Looping
<1>14. ASSUME Stops \/ NoEntry PROVE TypeOK'
  BY <1>14, LeaveType DEF Stops, NoEntry, Exit, Kill, Raise, SaveFails
<1>15. ASSUME UNCHANGED vars PROVE TypeOK'
  BY <1>15 DEF vars, TypeOK
<1> QED
  BY <1>1, <1>2, <1>3, <1>4, <1>5, <1>6, <1>7, <1>8, <1>9, <1>10, <1>11,
     <1>12, <1>13, <1>14, <1>15 DEF Next, World, Turn

\* Every variable keeps its type: in particular no EMA, resize or restart
\* takes a score outside 0 .. Unit, whatever the EMA factor.
THEOREM TypeCorrect == Spec => []TypeOK
BY InitType, NextType, PTL DEF Spec

-----------------------------------------------------------------------------
(***************************************************************************)
(* A hotkey list is empty or fits the score array.                         *)
(***************************************************************************)

Fits(b) == DOMAIN b.hotkeys \in {{}, DOMAIN b.scores}

LEMMA ResizeFits ==
  ASSUME NEW b \in Book, NEW keys \in Arrays(Hotkey)
  PROVE  /\ DOMAIN Resize(b, keys).scores = DOMAIN keys
         /\ Resize(b, keys).hotkeys = keys
         /\ Fits(Resize(b, keys))
BY DEF Resize, ResizedScores, Fits

LEMMA FreshBookFits == \A U \in UidRange : Fits(FreshBook(U)) /\ Fits(NoBook)
BY DEF FreshBook, NoBook, NoHotkeys, Fits

\* resize() never indexes the score array beyond its end, for any growth and
\* shrinking of the subnet, skipped resizes and crashes.
THEOREM HotkeysAlwaysFit == Spec => []HotkeysFitScores
<1>1. Init => HotkeysFitScores
  <2> SUFFICES ASSUME Init PROVE Fits(book) /\ Fits(saved)
    BY DEF HotkeysFitScores, Fits
  <2>1. DOMAIN chainKeys \in UidRange
    BY ArrayElim DEF Init
  <2>2. Fits(NoBook)
    BY <2>1, FreshBookFits
  <2>3. Fits([FreshBook(DOMAIN chainKeys) EXCEPT !.hotkeys = chainKeys])
    BY DEF FreshBook, Fits
  <2> QED
    BY <2>2, <2>3 DEF Init
<1>2. TypeOK /\ HotkeysFitScores /\ [Next]_vars => HotkeysFitScores'
  <2> SUFFICES ASSUME TypeOK, Fits(book), Fits(saved), [Next]_vars
               PROVE  Fits(book') /\ Fits(saved')
    BY DEF HotkeysFitScores, Fits
  <2> USE DEF chain, process, disk
  <2>1. Fits(NoBook) /\ Fits(FreshBook(DOMAIN chainKeys))
    BY ArrayElim, FreshBookFits DEF TypeOK
  <2>2. CASE World \/ UNCHANGED vars
    BY <2>2 DEF World, Register, Shrink, Tick, Include, Lose, OtherSets, vars
  <2>3. CASE Boot
    BY <2>1, <2>3, ResizeFits DEF Boot, Start, StartFails, TypeOK
  <2>4. CASE Forward
    <3>1. PICK o \in Rounds : book' = Absorb(book, o, metaKeys)
      BY <2>4 DEF Forward
    <3>2. /\ DOMAIN book'.scores = DOMAIN book.scores
          /\ book'.hotkeys = book.hotkeys
      BY <3>1, RoundsAreRounds, AbsorbType DEF TypeOK
    <3> QED
      BY <2>4, <3>2 DEF Forward, Fits
  <2>5. CASE Sync
    BY <2>5, ResizeFits DEF Sync, TypeOK
  <2>6. CASE SkipSync \/ SetWeights \/ SkipWeights
    BY <2>6 DEF SkipSync, SetWeights, SkipWeights
  <2>7. CASE BeginSave
    BY <2>1, <2>7 DEF BeginSave
  <2>8. CASE EndSave
    BY <2>8 DEF EndSave
  <2>9. CASE Stops \/ NoEntry
    BY <2>1, <2>9 DEF Stops, NoEntry, Exit, Kill, Raise, SaveFails, Leave
  <2> QED
    BY <2>2, <2>3, <2>4, <2>5, <2>6, <2>7, <2>8, <2>9 DEF Next, Turn
<1> QED
  BY <1>1, <1>2, TypeCorrect, PTL DEF Spec

-----------------------------------------------------------------------------
(***************************************************************************)
(* Scores belong to the hotkey they were earned by.                        *)
(***************************************************************************)

\* A book whose scores are those of its hotkeys.
Attributed(b) ==
  /\ DOMAIN b.scores = DOMAIN b.hotkeys
  /\ \A u \in Uid : b.earned[u] \subseteq
                      (IF u \in DOMAIN b.hotkeys THEN {b.hotkeys[u]} ELSE {})

\* The inductive strengthening: the book the file holds is attributed too,
\* and the book in memory has the metagraph's hotkeys.
AttributionInv ==
  /\ file # "absent"
  /\ file = "whole" => Attributed(saved)
  /\ Running => Attributed(book) /\ book.hotkeys = metaKeys

LEMMA ResizeAttributes ==
  ASSUME NEW b \in Book, NEW keys \in Arrays(Hotkey), Attributed(b)
  PROVE  Attributed(Resize(b, keys)) /\ Resize(b, keys).hotkeys = keys
<1>1. \A u \in Kept(b, keys) : u \in DOMAIN b.hotkeys /\ b.hotkeys[u] = keys[u]
  BY DEF Kept, Replaced, Attributed
<1>2. Kept(b, keys) \subseteq DOMAIN keys
  BY DEF Kept
<1> QED
  BY <1>1, <1>2 DEF Resize, ResizedScores, Attributed

LEMMA AbsorbAttributes ==
  ASSUME NEW b \in Book, NEW keys \in Arrays(Hotkey), NEW o, IsRound(o, keys),
         Attributed(b), b.hotkeys = keys
  PROVE  Attributed(Absorb(b, o, keys)) /\ Absorb(b, o, keys).hotkeys = keys
<1> DEFINE r == RecordDids(b, o, keys)
<1>1. /\ r \in Book /\ r.scores = b.scores /\ r.hotkeys = b.hotkeys
      /\ r.earned = b.earned
  <2>1. r \in Book
    BY RecordDidsType
  <2> QED
    BY <2>1 DEF RecordDids, Book
<1>2. \A u \in Uid : Absorb(b, o, keys).earned[u] \subseteq
                       (IF u \in DOMAIN o \cap DOMAIN b.scores
                        THEN b.earned[u] \cup {keys[u]} ELSE b.earned[u])
  <2> HIDE DEF r
  <2>1. \A u \in Uid : Update(r, o, keys).earned[u] \subseteq
                         (IF u \in DOMAIN o \cap DOMAIN r.scores
                          THEN r.earned[u] \cup {keys[u]} ELSE r.earned[u])
    BY <1>1 DEF Update, Book
  <2> QED
    BY <1>1, <2>1 DEF Absorb, r
<1>3. DOMAIN Absorb(b, o, keys).scores = DOMAIN keys
  BY AbsorbType DEF Attributed
<1>4. Absorb(b, o, keys).hotkeys = keys
  BY AbsorbType
<1> QED
  BY <1>2, <1>3, <1>4 DEF Attributed, IsRound

LEMMA AttributionStep ==
  ASSUME Axonless \subseteq {FALSE}
  PROVE  TypeOK /\ AttributionInv /\ [Next]_vars => AttributionInv'
<1> SUFFICES ASSUME TypeOK, AttributionInv, [Next]_vars PROVE AttributionInv'
  OBVIOUS
<1> USE DEF chain, process, disk
<1>1. CASE World \/ UNCHANGED vars
  BY <1>1 DEF World, Register, Shrink, Tick, Include, Lose, OtherSets, vars, AttributionInv, Running
<1>2. CASE Boot
  BY <1>2, ResizeAttributes DEF Boot, Start, StartFails, AttributionInv, TypeOK, Running, Looping
<1>3. CASE Forward
  <2>1. PICK o \in Rounds : book' = Absorb(book, o, metaKeys)
    BY <1>3 DEF Forward
  <2>2. Attributed(book) /\ book.hotkeys = metaKeys
    BY <1>3 DEF Forward, AttributionInv, Running, Looping
  <2>3. Attributed(book') /\ book'.hotkeys = metaKeys
    BY <2>1, <2>2, RoundsAreRounds, AbsorbAttributes DEF TypeOK
  <2> QED
    BY <1>3, <2>3 DEF Forward, AttributionInv
<1>4. CASE Sync
  <2>1. book' = Resize(book, chainKeys) /\ metaKeys' = chainKeys
    BY <1>4 DEF Sync
  <2>2. Attributed(book)
    BY <1>4 DEF Sync, AttributionInv, Running, Looping
  <2>3. Attributed(book') /\ book'.hotkeys = metaKeys'
    BY <2>1, <2>2, ResizeAttributes DEF TypeOK
  <2> QED
    BY <1>4, <2>3 DEF Sync, AttributionInv
<1>5. CASE SkipSync \/ SetWeights \/ SkipWeights
  BY <1>5 DEF SkipSync, SetWeights, SkipWeights, AttributionInv, Running, Looping
<1>6. CASE BeginSave
  BY <1>6 DEF BeginSave, AttributionInv, Running, Looping
<1>7. CASE EndSave
  BY <1>7 DEF EndSave, AttributionInv, Running, Looping
<1>8. CASE Stops \/ NoEntry
  BY <1>8 DEF Stops, NoEntry, Exit, Kill, Raise, SaveFails, Leave, AttributionInv, Running, Looping
<1> QED
  BY <1>1, <1>2, <1>3, <1>4, <1>5, <1>6, <1>7, <1>8 DEF Next, Turn

\* From the state file of a synced run on, no hotkey ever holds a score that
\* another earned, through any registrations, resyncs, crashes and restarts.
THEOREM ScoresAreAttributed ==
  ASSUME FirstRun = FALSE, Axonless \subseteq {FALSE}
  PROVE  Spec => []ScoreAttribution
<1>1. Init => AttributionInv
  <2> SUFFICES ASSUME Init PROVE AttributionInv
    OBVIOUS
  <2>1. Attributed([FreshBook(DOMAIN chainKeys) EXCEPT !.hotkeys = chainKeys])
    BY DEF FreshBook, Attributed
  <2> QED
    BY <2>1 DEF Init, AttributionInv, Running, Looping
<1>2. TypeOK /\ AttributionInv /\ [Next]_vars => AttributionInv'
  BY AttributionStep
<1>3. AttributionInv => ScoreAttribution
  BY DEF AttributionInv, Attributed, ScoreAttribution
<1> QED
  BY <1>1, <1>2, <1>3, TypeCorrect, PTL DEF Spec

-----------------------------------------------------------------------------
(***************************************************************************)
(* DIDs belong to the hotkey that proved them.                             *)
(***************************************************************************)

DidAttributed(b) ==
  \A u \in Uid : b.did[u] # None =>
    u \in DOMAIN b.hotkeys /\ b.prover[u] = b.hotkeys[u]

\* The subnet never shrinks below a table that the process or its file has.
DidInv ==
  /\ file = "whole" =>
       DidAttributed(saved) /\ DOMAIN saved.hotkeys \subseteq DOMAIN chainKeys
  /\ Running =>
       DidAttributed(book) /\ DOMAIN metaKeys \subseteq DOMAIN chainKeys

LEMMA ResizeAttributesDids ==
  ASSUME NEW b \in Book, NEW keys \in Arrays(Hotkey), DidAttributed(b),
         DOMAIN b.hotkeys \subseteq DOMAIN keys
  PROVE  DidAttributed(Resize(b, keys))
<1> SUFFICES ASSUME NEW u \in Uid, Resize(b, keys).did[u] # None
             PROVE  u \in DOMAIN keys /\ Resize(b, keys).prover[u] = keys[u]
  BY DEF DidAttributed, Resize
<1>1. u \notin Replaced(b, keys) /\ b.did[u] # None
  BY DEF Resize, ResizedDids
<1>2. Resize(b, keys).prover[u] = b.prover[u]
  BY DEF Resize
<1> QED
  BY <1>1, <1>2 DEF DidAttributed, Replaced

LEMMA AbsorbAttributesDids ==
  ASSUME NEW b \in Book, NEW keys \in Arrays(Hotkey), NEW o, IsRound(o, keys),
         DidAttributed(b), b.hotkeys = keys
  PROVE  DidAttributed(Absorb(b, o, keys))
<1> DEFINE r == RecordDids(b, o, keys)
<1>1. \A u \in Uid : r.did[u] # None => u \in DOMAIN keys /\ r.prover[u] = keys[u]
  BY DEF RecordDids, DidAttributed, IsRound, Book
<1>2. r \in Book
  BY RecordDidsType
<1>3. /\ Absorb(b, o, keys).did = r.did
      /\ Absorb(b, o, keys).prover = r.prover
  <2> HIDE DEF r
  <2>1. Update(r, o, keys).did = r.did /\ Update(r, o, keys).prover = r.prover
    BY <1>2 DEF Update, Book
  <2> QED
    BY <2>1 DEF Absorb, r
<1>4. Absorb(b, o, keys).hotkeys = keys
  BY AbsorbType
<1> QED
  BY <1>1, <1>3, <1>4 DEF DidAttributed

LEMMA DidStep ==
  ASSUME ShrinkAllowed = FALSE, Axonless \subseteq {FALSE}
  PROVE  TypeOK /\ AttributionInv /\ DidInv /\ [Next]_vars => DidInv'
<1> SUFFICES ASSUME TypeOK, AttributionInv, DidInv, [Next]_vars PROVE DidInv'
  OBVIOUS
<1> USE DEF chain, process, disk
<1>1. ASSUME NEW h \in Hotkey, Register(h) PROVE DidInv'
  <2>1. DOMAIN chainKeys \subseteq DOMAIN chainKeys'
    BY <1>1 DEF Register, TypeOK
  <2> QED
    BY <1>1, <2>1 DEF Register, DidInv, Running
<1>2. CASE Shrink \/ Tick \/ Include \/ Lose \/ OtherSets \/ UNCHANGED vars
  BY <1>2 DEF Shrink, Tick, Include, Lose, OtherSets, vars, DidInv, Running
<1>3. CASE Boot
  <2>1. pc' # "refused" => DidAttributed(book') /\ metaKeys' = chainKeys
    BY <1>3, ResizeAttributesDids DEF Boot, Start, StartFails, DidInv, AttributionInv, TypeOK
  <2> QED
    BY <1>3, <2>1 DEF Boot, Start, StartFails, DidInv, Running, Looping
<1>4. CASE Forward
  <2>1. PICK o \in Rounds : book' = Absorb(book, o, metaKeys)
    BY <1>4 DEF Forward
  <2>2. DidAttributed(book) /\ book.hotkeys = metaKeys
    BY <1>4 DEF Forward, AttributionInv, DidInv, Running, Looping
  <2>3. DidAttributed(book')
    BY <2>1, <2>2, RoundsAreRounds, AbsorbAttributesDids DEF TypeOK
  <2> QED
    BY <1>4, <2>3 DEF Forward, DidInv, Running, Looping
<1>5. CASE Sync
  <2>1. book' = Resize(book, chainKeys) /\ metaKeys' = chainKeys
    BY <1>5 DEF Sync
  <2>2. /\ DidAttributed(book) /\ book.hotkeys = metaKeys
        /\ DOMAIN metaKeys \subseteq DOMAIN chainKeys
    BY <1>5 DEF Sync, AttributionInv, DidInv, Running, Looping
  <2>3. DidAttributed(book')
    BY <2>1, <2>2, ResizeAttributesDids DEF TypeOK
  <2> QED
    BY <1>5, <2>1, <2>3 DEF Sync, DidInv
<1>6. CASE SkipSync \/ SetWeights \/ SkipWeights
  BY <1>6 DEF SkipSync, SetWeights, SkipWeights, DidInv, Running, Looping
<1>7. CASE BeginSave
  BY <1>7 DEF BeginSave, DidInv, Running, Looping
<1>8. CASE EndSave
  <2>1. DidAttributed(book) /\ DOMAIN book.hotkeys \subseteq DOMAIN chainKeys
    BY <1>8 DEF EndSave, AttributionInv, DidInv, Running, Looping
  <2> QED
    BY <1>8, <2>1 DEF EndSave, DidInv, Running, Looping
<1>9. CASE Stops \/ NoEntry
  BY <1>9 DEF Stops, NoEntry, Exit, Kill, Raise, SaveFails, Leave, DidInv, Running, Looping
<1> QED
  BY <1>1, <1>2, <1>3, <1>4, <1>5, <1>6, <1>7, <1>8, <1>9 DEF Next, World, Turn

LEMMA InitAttributes ==
  ASSUME FirstRun = FALSE
  PROVE  Init => AttributionInv /\ DidInv
<1> SUFFICES ASSUME Init PROVE AttributionInv /\ DidInv
  OBVIOUS
<1> DEFINE b == [FreshBook(DOMAIN chainKeys) EXCEPT !.hotkeys = chainKeys]
<1>1. Attributed(b) /\ DidAttributed(b) /\ b.hotkeys = chainKeys
  BY DEF FreshBook, Attributed, DidAttributed
<1>2. saved = b /\ file = "whole" /\ pc = "down"
  BY DEF Init
<1> HIDE DEF b
<1> QED
  BY <1>1, <1>2 DEF AttributionInv, DidInv, Running, Looping

\* From the state file of a synced run on, and as long as no uid is removed,
\* a DID on record was proved by the hotkey the metagraph has at its uid, so
\* a Sybil verdict is about hotkeys that are there.
THEOREM DidsAreAttributed ==
  ASSUME FirstRun = FALSE, ShrinkAllowed = FALSE, Axonless \subseteq {FALSE}
  PROVE  Spec => []DidAttribution
<1>1. Init => AttributionInv /\ DidInv
  BY InitAttributes
<1>2. TypeOK /\ AttributionInv /\ [Next]_vars => AttributionInv'
  BY AttributionStep
<1>3. TypeOK /\ AttributionInv /\ DidInv /\ [Next]_vars => DidInv'
  BY DidStep
<1>4. AttributionInv /\ DidInv => DidAttribution
  BY DEF AttributionInv, DidInv, DidAttributed, DidAttribution
<1> QED
  BY <1>1, <1>2, <1>3, <1>4, TypeCorrect, PTL DEF Spec

-----------------------------------------------------------------------------
(***************************************************************************)
(* A Sybil's score never rises.                                            *)
(***************************************************************************)

LEMMA EmaOfNothing ==
  ASSUME NEW old \in Score
  PROVE  Ema(old, 0) <= old
<1> DEFINE k == AlphaDen - AlphaNum
<1>1. k \in Nat /\ k <= AlphaDen /\ AlphaNum \in Nat /\ AlphaDen \in Nat \ {0}
  BY AlphaIsAFraction
<1>2. old \in Nat
  BY UnitIsPositive DEF Score
<1>3. old * k \in Nat /\ old * k <= old * AlphaDen
  BY <1>1, <1>2, ProductGrows
<1>4. k * old + AlphaNum * 0 = old * k /\ old * AlphaDen = AlphaDen * old
  BY <1>1, <1>2
<1>5. (old * k) \div AlphaDen \in 0 .. old
  <2> HIDE DEF k
  <2> QED
    BY <1>1, <1>2, <1>3, <1>4, QuotientBound
<1> QED
  BY <1>2, <1>4, <1>5 DEF Ema

LEMMA AbsorbSybils ==
  ASSUME NEW b \in Book, NEW keys \in Arrays(Hotkey), NEW o, IsRound(o, keys),
         NEW u \in DOMAIN b.scores, u \in Sybils(Absorb(b, o, keys))
  PROVE  Absorb(b, o, keys).scores[u] <= b.scores[u]
<1> DEFINE r == RecordDids(b, o, keys)
<1>1. r \in Book
  BY RecordDidsType
<1>2. r.scores = b.scores
  BY DEF RecordDids, Book
<1>3. /\ Update(r, o, keys).did = r.did
      /\ \/ Update(r, o, keys).scores[u] = r.scores[u]
         \/ Update(r, o, keys).scores[u] = Ema(r.scores[u], NewScore(r, o, u))
  <2> HIDE DEF r
  <2> QED
    BY <1>1, <1>2 DEF Update, Book
<1>4. u \in Sybils(r)
  <2> HIDE DEF r
  <2>1. u \in Sybils(Update(r, o, keys))
    BY DEF Absorb, r
  <2> QED
    BY <1>3, <2>1 DEF Sybils
<1>5. NewScore(r, o, u) = 0
  <2> HIDE DEF r
  <2> QED
    BY <1>4 DEF NewScore
<1>6. b.scores[u] \in Score /\ b.scores[u] \in Nat
  BY ArrayElim, UnitIsPositive DEF Book, Score
<1> HIDE DEF r
<1> QED
  BY <1>2, <1>3, <1>5, <1>6, EmaOfNothing DEF Absorb, r

\* A process that is down has no scores to raise.
DownIsEmpty == pc \in {"down", "refused"} => book = NoBook

LEMMA DownIsAlwaysEmpty == Spec => []DownIsEmpty
<1>1. Init => DownIsEmpty
  BY DEF Init, DownIsEmpty
<1>2. DownIsEmpty /\ [Next]_vars => DownIsEmpty'
  <2> SUFFICES ASSUME DownIsEmpty, [Next]_vars PROVE DownIsEmpty'
    OBVIOUS
  <2> USE DEF chain, process, disk, DownIsEmpty
  <2>1. CASE World \/ UNCHANGED vars
    BY <2>1 DEF World, Register, Shrink, Tick, Include, Lose, OtherSets, vars
  <2>2. CASE Boot
    BY <2>2 DEF Boot, Start, StartFails
  <2>3. CASE Turn
    BY <2>3 DEF Turn, Forward, Sync, SkipSync, SetWeights, SkipWeights, BeginSave, EndSave,
                  NoEntry, Leave
  <2>4. CASE Stops \/ NoEntry
    BY <2>4 DEF Stops, NoEntry, Exit, Kill, Raise, SaveFails, Leave
  <2> QED
    BY <2>1, <2>2, <2>3, <2>4 DEF Next
<1> QED
  BY <1>1, <1>2, PTL DEF Spec

\* Whatever a uid answers, and whatever the EMA factor, a round that leaves
\* it sharing a DID does not raise its score; nor does any other step.
THEOREM SybilsNeverGain == Spec => SybilNeverGains
<1> DEFINE Gains == \E u \in DOMAIN book.scores \cap DOMAIN book'.scores :
                      u \in Sybils(book') /\ ~(book'.scores[u] <= book.scores[u])
<1>1. TypeOK /\ DownIsEmpty /\ [Next]_vars => [~Gains]_vars
  <2> SUFFICES ASSUME TypeOK, DownIsEmpty, Next,
                      NEW u \in DOMAIN book.scores \cap DOMAIN book'.scores,
                      u \in Sybils(book')
               PROVE  book'.scores[u] <= book.scores[u]
    OBVIOUS
  <2> USE DEF chain, process, disk
  <2>1. book.scores[u] \in Nat
    BY ArrayElim, UnitIsPositive DEF TypeOK, Book, Score
  <2>2. ASSUME book' = book PROVE book'.scores[u] <= book.scores[u]
    BY <2>1, <2>2
  <2>3. CASE World \/ SkipSync \/ SetWeights \/ SkipWeights \/ BeginSave \/ EndSave
    BY <2>2, <2>3 DEF World, Register, Shrink, Tick, Include, Lose, OtherSets,
                      SkipSync, SetWeights, SkipWeights, BeginSave, EndSave
  <2>4. CASE Boot \/ Stops \/ NoEntry
    BY <2>4 DEF Boot, Start, StartFails, Stops, NoEntry, Exit, Kill, Raise, SaveFails, Leave, DownIsEmpty,
                NoBook, FreshBook
  <2>5. CASE Forward
    <3>1. PICK o \in Rounds : book' = Absorb(book, o, metaKeys)
      BY <2>5 DEF Forward
    <3> QED
      BY <3>1, RoundsAreRounds, AbsorbSybils DEF TypeOK
  <2>6. CASE Sync
    <3>1. CASE book' = Resize(book, chainKeys)
      <4>1. book'.scores[u] = book.scores[u] \/ book'.scores[u] = 0
        BY <3>1 DEF Resize, ResizedScores
      <4> QED
        BY <2>1, <4>1
    <3> QED
      BY <2>2, <2>6, <3>1 DEF Sync
  <2> QED
    BY <2>3, <2>4, <2>5, <2>6 DEF Next, Turn
<1>2. [~Gains]_vars <=> [\A u \in DOMAIN book.scores \cap DOMAIN book'.scores :
                          u \in Sybils(book') => book'.scores[u] <= book.scores[u]]_vars
  OBVIOUS
<1> QED
  BY <1>1, <1>2, TypeCorrect, DownIsAlwaysEmpty, PTL DEF Spec, SybilNeverGains

-----------------------------------------------------------------------------
(***************************************************************************)
(* Sizes and the state file.                                               *)
(***************************************************************************)

ScoresFit == Running => DOMAIN book.scores = DOMAIN metaKeys

LEMMA ScoresFitStep ==
  ASSUME Axonless \subseteq {FALSE}, TypeOK, ScoresFit, [Next]_vars
  PROVE  ScoresFit'
<1> USE DEF chain, process, disk, ScoresFit, Running, Looping
<1>1. CASE World \/ UNCHANGED vars
  BY <1>1 DEF World, Register, Shrink, Tick, Include, Lose, OtherSets, vars
<1>2. CASE Boot
  BY <1>2 DEF Boot, Start, StartFails, Resize, ResizedScores, FreshBook
<1>3. CASE Stops \/ NoEntry
  BY <1>3 DEF Stops, NoEntry, Exit, Kill, Raise, SaveFails, Leave
<1>4. CASE Forward
  <2>1. PICK o \in Rounds : book' = Absorb(book, o, metaKeys)
    BY <1>4 DEF Forward
  <2>2. DOMAIN book'.scores = DOMAIN book.scores
    <3>1. RecordDids(book, o, metaKeys).scores = book.scores
      BY DEF RecordDids, TypeOK, Book
    <3>2. ASSUME NEW b \in Book
          PROVE  DOMAIN Update(b, o, metaKeys).scores = DOMAIN b.scores
      BY DEF Update, Book
    <3>3. RecordDids(book, o, metaKeys) \in Book
      BY RecordDidsType, RoundsAreRounds DEF TypeOK
    <3> QED
      BY <2>1, <3>1, <3>2, <3>3 DEF Absorb
  <2>3. pc = "forward" /\ UNCHANGED metaKeys
    BY <1>4 DEF Forward
  <2> QED
    BY <2>2, <2>3
<1>5. CASE Sync
  <2>1. book' = Resize(book, chainKeys) /\ metaKeys' = chainKeys
    BY <1>5 DEF Sync
  <2>2. DOMAIN Resize(book, chainKeys).scores = DOMAIN chainKeys
    BY DEF Resize, ResizedScores
  <2> QED
    BY <2>1, <2>2
<1>6. CASE SkipSync \/ SetWeights \/ SkipWeights \/ BeginSave \/ EndSave
  BY <1>6 DEF SkipSync, SetWeights, SkipWeights, BeginSave, EndSave
<1> QED
  BY <1>1, <1>2, <1>3, <1>4, <1>5, <1>6 DEF Next, Turn

\* As long as no metagraph comes without any axon, set_weights() finds one
\* score per uid of the metagraph, on subnets that grow and shrink as well.
THEOREM WeightsAlwaysFit ==
  ASSUME Axonless \subseteq {FALSE}
  PROVE  Spec => []WeightsFitMetagraph
<1>1. Init => ScoresFit
  BY DEF Init, ScoresFit, Running, Looping
<1>2. TypeOK /\ ScoresFit /\ [Next]_vars => ScoresFit'
  BY ScoresFitStep
<1>3. ScoresFit => WeightsFitMetagraph
  BY DEF ScoresFit, Running, Looping, WeightsFitMetagraph
<1> QED
  BY <1>1, <1>2, <1>3, TypeCorrect, PTL DEF Spec

-----------------------------------------------------------------------------
(***************************************************************************)
(* A validator that keeps its registration keeps out of its own scores.    *)
(***************************************************************************)

\* The uid that the process looked up is, and stays, the only one of its
\* hotkey, on the chain and in the metagraph.
OwnUid(keys) == Registered(keys) /\ Sits(Self, uid, keys)

SelfInv ==
  /\ OwnUid(chainKeys) /\ (Running => OwnUid(metaKeys))
  /\ \A u \in Uid : Self \notin book.earned[u] /\ Self \notin saved.earned[u]

\* Registrations and removals of others leave the validator its seat.
LEMMA SeatIsKept ==
  ASSUME "ousted" \notin Faults, TypeOK, OwnUid(chainKeys),
         (\E h \in Hotkey : Register(h)) \/ Shrink
  PROVE  OwnUid(chainKeys)' /\ uid' = uid
<1>1. chainKeys \in [DOMAIN chainKeys -> Hotkey] /\ uid \in DOMAIN chainKeys /\ chainKeys[uid] = Self
      /\ DOMAIN chainKeys \subseteq Uid
  BY ArrayElim DEF TypeOK, OwnUid, Sits
<1>2. uid' = uid
  BY DEF Register, Shrink, process
<1>3. ASSUME NEW h \in Hotkey, Register(h) PROVE OwnUid(chainKeys)'
  <2>1. \A u \in DOMAIN chainKeys : chainKeys[u] # h
    BY <1>3 DEF Register, Unregistered
  <2>2. CASE \E n \in 1 .. MaxUids - 1 :
               /\ DOMAIN chainKeys = 0 .. n - 1
               /\ chainKeys' = [u \in 0 .. n |-> IF u < n THEN chainKeys[u] ELSE h]
    <3>1. PICK n \in 1 .. MaxUids - 1 :
            /\ DOMAIN chainKeys = 0 .. n - 1
            /\ chainKeys' = [u \in 0 .. n |-> IF u < n THEN chainKeys[u] ELSE h]
      BY <2>2
    <3>2. n \in Nat /\ DOMAIN chainKeys' = 0 .. n
          /\ chainKeys'[n] = h /\ \A u \in 0 .. n - 1 : chainKeys'[u] = chainKeys[u]
      BY <3>1
    <3>3. \A u \in 0 .. n : u = n \/ u \in 0 .. n - 1
      BY <3>2
    <3>4. Registered(chainKeys')
      BY <2>1, <3>1, <3>2, <3>3 DEF OwnUid, Registered
    <3>5. Sits(Self, uid, chainKeys')
      BY <1>1, <3>1, <3>2 DEF Sits
    <3> QED
      BY <1>2, <3>4, <3>5 DEF OwnUid
  <2>3. CASE \E u \in Uid : chainKeys[u] # Self /\ chainKeys' = [chainKeys EXCEPT ![u] = h]
    BY <1>1, <1>2, <2>1, <2>3 DEF OwnUid, Registered, Sits
  <2> QED
    BY <1>3, <2>2, <2>3 DEF Register
<1>4. ASSUME Shrink PROVE OwnUid(chainKeys)'
  <2>1. PICK n \in 1 .. MaxUids - 1 :
          /\ DOMAIN chainKeys = 0 .. n /\ chainKeys[n] # Self
          /\ chainKeys' = [u \in 0 .. n - 1 |-> chainKeys[u]]
    BY <1>4 DEF Shrink
  <2>2. uid \in 0 .. n - 1
    BY <1>1, <2>1
  <2>3. DOMAIN chainKeys' \subseteq DOMAIN chainKeys
        /\ \A u \in DOMAIN chainKeys' : chainKeys'[u] = chainKeys[u]
    BY <2>1
  <2> QED
    BY <1>1, <1>2, <2>1, <2>2, <2>3 DEF OwnUid, Registered, Sits
<1> QED
  BY <1>2, <1>3, <1>4

\* A round is credited to the hotkeys it was sent to, if to anybody.
LEMMA AbsorbCredits ==
  ASSUME NEW b \in Book, NEW keys \in Arrays(Hotkey), NEW o, IsRound(o, keys), NEW u \in Uid
  PROVE  Absorb(b, o, keys).earned[u] \subseteq
           b.earned[u] \cup {keys[v] : v \in DOMAIN o \cap {u}}
<1> DEFINE r == RecordDids(b, o, keys)
<1>1. r \in Book /\ r.earned = b.earned
  <2>1. r \in Book
    BY RecordDidsType
  <2> QED
    BY <2>1 DEF RecordDids, Book
<1>2. Update(r, o, keys).earned[u] \subseteq r.earned[u] \cup {keys[v] : v \in DOMAIN o \cap {u}}
  <2> HIDE DEF r
  <2> QED
    BY <1>1 DEF Update, Book
<1> HIDE DEF r
<1> QED
  BY <1>1, <1>2 DEF Absorb, r

LEMMA SelfStep ==
  ASSUME "ousted" \notin Faults
  PROVE  TypeOK /\ SelfInv /\ [Next]_vars => SelfInv'
<1> SUFFICES ASSUME TypeOK, SelfInv, [Next]_vars PROVE SelfInv'
  OBVIOUS
<1> USE DEF chain, process, disk
<1>1. ASSUME NEW h \in Hotkey, Register(h) PROVE SelfInv'
  BY <1>1, SeatIsKept DEF Register, SelfInv, OwnUid, Running
<1>2. CASE Shrink
  BY <1>2, SeatIsKept DEF Shrink, SelfInv, OwnUid, Running
<1>3. CASE Tick \/ Include \/ Lose \/ OtherSets \/ UNCHANGED vars
  BY <1>3 DEF Tick, Include, Lose, OtherSets, vars, SelfInv, OwnUid, Running
<1>4. \A u \in Uid : Self \notin NoBook.earned[u]
  BY DEF NoBook, FreshBook
<1>5. CASE Boot
  <2>1. CASE StartFails
    BY <1>5, <2>1 DEF StartFails, SelfInv, OwnUid, Running, Looping
  <2>2. CASE Start
    <3>1. uid' = uid /\ chainKeys' = chainKeys /\ metaKeys' = chainKeys /\ saved' = saved
      BY <2>2 DEF Start, SelfInv, OwnUid, Registered, Sits
    <3>2. \A u \in Uid : Self \notin book'.earned[u]
      BY <2>2 DEF Start, SelfInv, Resize, FreshBook
    <3> QED
      BY <3>1, <3>2 DEF SelfInv, OwnUid
  <2> QED
    BY <1>5, <2>1, <2>2 DEF Boot
<1>6. CASE Forward
  <2>1. PICK o \in Rounds : book' = Absorb(book, o, metaKeys)
    BY <1>6 DEF Forward
  <2>2. OwnUid(metaKeys)
    BY <1>6 DEF Forward, SelfInv, Running, Looping
  <2>3. IsRound(o, metaKeys) /\ DOMAIN o \subseteq Candidates
    <3>1. PICK U \in SUBSET Candidates : o \in [U -> Outcome]
      BY DEF Rounds
    <3> QED
      BY <3>1, RoundsAreRounds
  <2>4. \A v \in DOMAIN o : metaKeys[v] # Self
    BY <2>2, <2>3 DEF Candidates, OwnUid, Registered, Sits
  <2>5. \A u \in Uid : Self \notin book'.earned[u]
    BY <2>1, <2>3, <2>4, AbsorbCredits DEF SelfInv, TypeOK
  <2> QED
    BY <1>6, <2>5 DEF Forward, SelfInv, OwnUid, Running, Looping
<1>7. CASE Sync
  <2>1. \A u \in Uid : Self \notin book'.earned[u]
    BY <1>7 DEF Sync, SelfInv, Resize
  <2> QED
    BY <1>7, <2>1 DEF Sync, SelfInv, OwnUid
<1>8. CASE SkipSync \/ SetWeights \/ SkipWeights
  BY <1>8 DEF SkipSync, SetWeights, SkipWeights, SelfInv, OwnUid, Running, Looping
<1>9. CASE BeginSave
  BY <1>4, <1>9 DEF BeginSave, SelfInv, OwnUid, Running, Looping
<1>10. CASE EndSave
  BY <1>10 DEF EndSave, SelfInv, OwnUid, Running, Looping
<1>11. CASE Stops \/ NoEntry
  BY <1>4, <1>11 DEF Stops, NoEntry, Exit, Kill, Raise, SaveFails, Leave, SelfInv, OwnUid, Running, Looping
<1> QED
  BY <1>1, <1>2, <1>3, <1>5, <1>6, <1>7, <1>8, <1>9, <1>10, <1>11 DEF Next, World, Turn

\* As long as the validator keeps its registration, forward() never scores
\* the validator itself, through any resync, crash or restart: leaving out
\* the uid it looked up at its start is enough.
THEOREM SelfIsNotJudgedWhileRegistered ==
  ASSUME "ousted" \notin Faults
  PROVE  Spec => []SelfIsNeverJudged
<1>1. Init => SelfInv
  <2> SUFFICES ASSUME Init PROVE SelfInv
    OBVIOUS
  <2>1. \A u \in Uid : Self \notin NoBook.earned[u]
    BY DEF NoBook, FreshBook
  <2>2. \A u \in Uid : Self \notin saved.earned[u]
    BY <2>1 DEF Init, FreshBook
  <2> QED
    BY <2>1, <2>2 DEF Init, SelfInv, OwnUid, Running, Looping
<1>2. TypeOK /\ SelfInv /\ [Next]_vars => SelfInv'
  BY SelfStep
<1>3. SelfInv => SelfIsNeverJudged
  BY DEF SelfInv, SelfIsNeverJudged
<1> QED
  BY <1>1, <1>2, <1>3, TypeCorrect, PTL DEF Spec
=============================================================================
