---------------------------- MODULE GossipProofs -----------------------------
(***************************************************************************)
(* For any number of events, trusted nodes and limits: the miner reports   *)
(* what its window has room for, and an exam is empty only on a quiet      *)
(* network.                                                                *)
(***************************************************************************)
EXTENDS GossipExam, TLAPS, FiniteSetTheorems, SequenceTheorems

-----------------------------------------------------------------------------
(***************************************************************************)
(* The inductive invariant.                                                *)
(***************************************************************************)

\* Only the events that reached the miner since they were chosen push the
\* held ones down its list.
HeldInv ==
  /\ arrived <= Len(log[Miner])
  /\ \A e \in held : \E i \in DOMAIN log[Miner] :
       i <= Limit + arrived /\ log[Miner][i] = e

\* What a node with the right clock lists is ordered by age.
SortedInv ==
  \A n \in Trusted \ Ahead :
    /\ \A e \in Event : age[n][e] >= 0 /\ (e \notin Has(n) => age[n][e] = 0)
    /\ \A i, j \in DOMAIN log[n] : i <= j => age[n][log[n][i]] <= age[n][log[n][j]]

\* The trusted nodes that have had their turn.
Asked == IF phase = "ask" THEN Trusted ELSE 1 .. source - 1

\* As long as nothing was found, those that answered had nothing recent.
QuietSoFar ==
  /\ phase # "ask" => ids = {}
  /\ \A n \in Trusted : before[n] \subseteq Has(n)
  /\ phase # "idle" /\ ids = {} =>
       \A n \in Asked \ (failed \cup Ahead) : \A e \in before[n] : age[n][e] > MaxAge

IInv == TypeOK /\ HeldInv /\ SortedInv /\ QuietSoFar

-----------------------------------------------------------------------------
(***************************************************************************)
(* Lists.                                                                  *)
(***************************************************************************)

\* An event that is received is the newest; the others move down by one.
LEMMA ReceivedList ==
  ASSUME TypeOK, NEW n \in Node, NEW e \in Event, Receive(n, e)
  PROVE  /\ log' \in [Node -> Seq(Event)]
         /\ \A m \in Node \ {n} : log'[m] = log[m]
         /\ Len(log'[n]) = Len(log[n]) + 1
         /\ 1 \in DOMAIN log'[n] /\ log'[n][1] = e
         /\ \A i \in DOMAIN log[n] : i + 1 \in DOMAIN log'[n] /\ log'[n][i + 1] = log[n][i]
         /\ \A j \in DOMAIN log'[n] \ {1} : j - 1 \in DOMAIN log[n] /\ log'[n][j] = log[n][j - 1]
<1>1. log[n] \in Seq(Event) /\ log \in [Node -> Seq(Event)]
  BY DEF TypeOK
<1>2. log' = [log EXCEPT ![n] = <<e>> \o log[n]]
  BY DEF Receive
<1>3. <<e>> \o log[n] \in Seq(Event) /\ Len(<<e>> \o log[n]) = Len(log[n]) + 1
  BY <1>1
<1>4. \A j \in 1 .. Len(log[n]) + 1 :
        (<<e>> \o log[n])[j] = IF j = 1 THEN e ELSE log[n][j - 1]
  BY <1>1
<1>5. log'[n] = <<e>> \o log[n] /\ \A m \in Node \ {n} : log'[m] = log[m]
  BY <1>1, <1>2
<1>6. DOMAIN log[n] = 1 .. Len(log[n]) /\ DOMAIN log'[n] = 1 .. Len(log[n]) + 1
  BY <1>1, <1>3, <1>5
<1>7. log' \in [Node -> Seq(Event)]
  BY <1>1, <1>2, <1>3
<1>8. Len(log[n]) \in Nat
  BY <1>1
<1> QED
  BY <1>3, <1>4, <1>5, <1>6, <1>7, <1>8

\* It is in the list from then on.
LEMMA ReceivedIsHad ==
  ASSUME TypeOK, NEW n \in Node, NEW e \in Event, Receive(n, e)
  PROVE  /\ Has(n)' = Has(n) \cup {e}
         /\ \A m \in Node \ {n} : Has(m)' = Has(m)
<1>1. Has(n)' \subseteq Has(n) \cup {e}
  BY ReceivedList DEF Has, Range
<1>2. Has(n) \cup {e} \subseteq Has(n)'
  BY ReceivedList DEF Has, Range
<1>3. \A m \in Node \ {n} : Has(m)' = Has(m)
  BY ReceivedList DEF Has
<1> QED
  BY <1>1, <1>2, <1>3

\* A list without repetitions is no longer than there are events.
LEMMA ListsAreShort ==
  ASSUME NEW s \in Seq(Event), IsInjective(s)
  PROVE  Len(s) <= Cardinality(Event)
<1>1. s \in [1 .. Len(s) -> Event] /\ Len(s) \in Nat
  OBVIOUS
<1>2. s \in Injection(1 .. Len(s), Event)
  BY <1>1 DEF IsInjective, Injection
<1>3. Cardinality(1 .. Len(s)) <= Cardinality(Event)
  BY <1>2, EventsAreKnown, FS_Injection
<1>4. \A k \in Nat : Cardinality(1 .. k) = k
  BY FS_Interval
<1> QED
  BY <1>1, <1>3, <1>4

-----------------------------------------------------------------------------
(***************************************************************************)
(* The choice of the exam.                                                 *)
(***************************************************************************)

\* No more than Cap events are chosen: their ranks among the recent ones are
\* different numbers of 1 .. Cap.
LEMMA ChosenFits ==
  ASSUME TypeOK, NEW n \in Node
  PROVE  Chosen(n) \subseteq Event /\ Cardinality(Chosen(n)) <= Cap
<1> DEFINE R == RecentAt(n)
           S == {j \in R : Cardinality(R \cap 1 .. j) <= Cap}
           rank == [j \in S |-> Cardinality(R \cap 1 .. j)]
           pick == [j \in S |-> log[n][j]]
<1>1. log[n] \in Seq(Event) /\ Len(log[n]) \in Nat /\ DOMAIN log[n] = 1 .. Len(log[n])
  BY DEF TypeOK
<1>2. Cap \in Nat
  BY LimitsArePositive
<1>3. R \subseteq DOMAIN log[n] /\ R \subseteq Nat
  BY <1>1 DEF RecentAt
<1>4. IsFiniteSet(R)
  <2>1. IsFiniteSet(1 .. Len(log[n]))
    BY <1>1, FS_Interval
  <2> QED
    BY <1>1, <1>3, <2>1, FS_Subset
<1>5. \A j \in R : IsFiniteSet(R \cap 1 .. j) /\ Cardinality(R \cap 1 .. j) \in Nat
  BY <1>4, FS_Intersection, FS_CardinalityType
<1>6. \A j \in R : Cardinality(R \cap 1 .. j) # 0
  <2> TAKE j \in R
  <2>1. j \in R \cap 1 .. j
    BY <1>1, <1>3
  <2>2. R \cap 1 .. j # {}
    BY <2>1
  <2> QED
    BY <1>5, <2>2, FS_EmptySet
<1>7. ASSUME NEW i \in R, NEW j \in R, i < j
      PROVE  Cardinality(R \cap 1 .. i) # Cardinality(R \cap 1 .. j)
  <2>1. R \cap 1 .. i \subseteq R \cap 1 .. j
    BY <1>3, <1>7
  <2>2. j \in R \cap 1 .. j /\ j \notin R \cap 1 .. i
    BY <1>1, <1>3, <1>7
  <2>3. R \cap 1 .. i # R \cap 1 .. j
    BY <2>2
  <2> QED
    BY <1>5, <2>1, <2>3, FS_Subset
<1>8. rank \in Injection(S, 1 .. Cap)
  <2>1. \A j \in S : rank[j] \in 1 .. Cap
    BY <1>2, <1>5, <1>6
  <2>2. \A i, j \in S : rank[i] = rank[j] => i = j
    <3> TAKE i \in S, j \in S
    <3>1. i \in Nat /\ j \in Nat /\ i \in R /\ j \in R
      BY <1>3
    <3>2. i < j \/ j < i \/ i = j
      BY <3>1
    <3>3. rank[i] = Cardinality(R \cap 1 .. i) /\ rank[j] = Cardinality(R \cap 1 .. j)
      OBVIOUS
    <3> HIDE DEF R, S, rank
    <3> QED
      BY <1>7, <3>1, <3>2, <3>3
  <2>3. rank \in [S -> 1 .. Cap] /\ DOMAIN rank = S
    BY <2>1
  <2> HIDE DEF rank, S
  <2> QED
    BY <2>2, <2>3 DEF Injection, IsInjective
<1>9. IsFiniteSet(S) /\ Cardinality(S) <= Cap
  <2>1. IsFiniteSet(1 .. Cap) /\ Cardinality(1 .. Cap) = Cap
    BY <1>2, FS_Interval
  <2> HIDE DEF rank, S
  <2> QED
    BY <1>8, <2>1, FS_Injection
<1>10. pick \in Surjection(S, Chosen(n))
  <2>1. Chosen(n) = {log[n][j] : j \in S}
    BY DEF Chosen
  <2>2. pick \in [S -> Chosen(n)] /\ \A e \in Chosen(n) : \E j \in S : pick[j] = e
    <3> HIDE DEF S
    <3> QED
      BY <2>1
  <2> HIDE DEF pick, S
  <2> QED
    BY <2>2 DEF Surjection
<1>11. IsFiniteSet(Chosen(n)) /\ Cardinality(Chosen(n)) <= Cardinality(S)
  <2> HIDE DEF pick, S
  <2> QED
    BY <1>9, <1>10, FS_Surjection
<1>12. Chosen(n) \subseteq Event
  <2>1. \A j \in S : log[n][j] \in Event
    BY <1>1, <1>3
  <2>2. Chosen(n) = {log[n][j] : j \in S}
    BY DEF Chosen
  <2> HIDE DEF S
  <2> QED
    BY <2>1, <2>2
<1> QED
  <2>1. Cardinality(S) \in Nat /\ Cardinality(Chosen(n)) \in Nat
    BY <1>9, <1>11, FS_CardinalityType
  <2> HIDE DEF S
  <2> QED
    BY <1>2, <1>9, <1>11, <1>12, <2>1

\* Where nothing is chosen the newest event is not recent, and so none is.
LEMMA NothingRecent ==
  ASSUME TypeOK, SortedInv, NEW n \in Trusted \ Ahead, Chosen(n) = {}
  PROVE  \A e \in Has(n) : age[n][e] > MaxAge
<1>1. n \in Node /\ n \in Trusted
  BY DEF Node
<1>2. /\ log[n] \in Seq(Event) /\ Len(log[n]) \in Nat /\ DOMAIN log[n] = 1 .. Len(log[n])
      /\ age[n] \in [Event -> Age] /\ MaxAge \in Nat /\ Limit \in Nat \ {0} /\ Cap \in Nat \ {0}
  BY <1>1, LimitsArePositive DEF TypeOK
<1>3. CASE DOMAIN log[n] = {}
  BY <1>3 DEF Has, Range
<1>4. CASE DOMAIN log[n] # {}
  <2>1. 1 \in DOMAIN log[n] /\ log[n][1] \in Event
    BY <1>2, <1>4
  <2>2. ~ Recent(n, log[n][1])
    <3> SUFFICES ASSUME Recent(n, log[n][1]) PROVE FALSE
      OBVIOUS
    <3>1. 1 \in RecentAt(n)
      BY <1>2, <2>1 DEF RecentAt
    <3>2. RecentAt(n) \cap 1 .. 1 = {1}
      BY <3>1
    <3>3. Cardinality(RecentAt(n) \cap 1 .. 1) = 1
      BY <3>2, FS_Singleton, Zenon
    <3>4. Cardinality(RecentAt(n) \cap 1 .. 1) <= Cap
      BY <1>2, <3>3
    <3>5. 1 \in {j \in RecentAt(n) : Cardinality(RecentAt(n) \cap 1 .. j) <= Cap}
      BY <3>1, <3>4, Zenon
    <3>6. log[n][1] \in Chosen(n)
      BY <3>5, Zenon DEF Chosen
    <3> QED
      BY <3>6
  <2>3. age[n][log[n][1]] > MaxAge
    BY <1>2, <2>1, <2>2 DEF SortedInv, Recent, Age
  <2>4. \A i \in DOMAIN log[n] : age[n][log[n][1]] <= age[n][log[n][i]] /\ age[n][log[n][i]] \in Int
    BY <1>2, <2>1 DEF SortedInv, Age
  <2> QED
    BY <1>2, <2>1, <2>3, <2>4 DEF Has, Range, Age
<1> QED
  BY <1>3, <1>4

-----------------------------------------------------------------------------
(***************************************************************************)
(* The invariant is inductive.                                             *)
(***************************************************************************)

\* The numbers behind the names.
LEMMA Bounds ==
  /\ Sources \in Nat \ {0} /\ Limit \in Nat \ {0} /\ Window \in Nat \ {0}
  /\ Cap \in Nat \ {0} /\ MaxAge \in Nat \ {0} /\ Cardinality(Event) \in Nat
  /\ Trusted \subseteq Node /\ Miner \in Node /\ Miner \notin Trusted
  /\ Trusted = 1 .. Sources /\ 1 \in Trusted
BY LimitsArePositive, EventsAreKnown, FS_CardinalityType DEF Trusted, Node, Miner

LEMMA InitIInv == Init => IInv
<1> SUFFICES ASSUME Init PROVE IInv
  OBVIOUS
<1>1. TypeOK
  <2>1. IsFiniteSet({}) /\ Cardinality({}) = 0
    BY FS_EmptySet
  <2> QED
    BY <2>1, Bounds DEF Init, TypeOK, NothingYet, Age, IsInjective
<1>2. HeldInv
  BY Bounds DEF Init, HeldInv
<1>3. SortedInv
  BY DEF Init, SortedInv, Node, Has, Range
<1>4. QuietSoFar
  BY DEF Init, QuietSoFar, NothingYet
<1> QED
  BY <1>1, <1>2, <1>3, <1>4 DEF IInv

LEMMA ReceiveStep ==
  ASSUME IInv, NEW n \in Node, NEW e \in Event, Receive(n, e)
  PROVE  IInv'
<1> USE DEF IInv
<1>1. /\ log' \in [Node -> Seq(Event)] /\ \A m \in Node : DOMAIN log'[m] = 1 .. Len(log'[m])
      /\ log \in [Node -> Seq(Event)] /\ \A m \in Node : DOMAIN log[m] = 1 .. Len(log[m])
      /\ \A m \in Node : IsInjective(log[m])
  BY ReceivedList DEF TypeOK
<1>2. \A m \in Node : IsInjective(log'[m])
  <2>1. ASSUME NEW i \in DOMAIN log'[n], NEW j \in DOMAIN log'[n], log'[n][i] = log'[n][j]
        PROVE  i = j
    <3>1. \A k \in DOMAIN log[n] : log[n][k] # e
      BY DEF Receive, Has, Range
    <3>2. i \in Int /\ j \in Int
      BY <1>1
    <3>3. CASE i = 1 \/ j = 1
      BY <2>1, <3>1, <3>3, ReceivedList
    <3>4. CASE i # 1 /\ j # 1
      <4>1. /\ i - 1 \in DOMAIN log[n] /\ log'[n][i] = log[n][i - 1]
            /\ j - 1 \in DOMAIN log[n] /\ log'[n][j] = log[n][j - 1]
        BY <3>4, ReceivedList
      <4>2. i - 1 = j - 1
        BY <1>1, <2>1, <4>1 DEF IsInjective
      <4> QED
        BY <3>2, <4>2
    <3> QED
      BY <3>3, <3>4
  <2>2. IsInjective(log'[n])
    BY <2>1 DEF IsInjective
  <2>3. ASSUME NEW m \in Node \ {n} PROVE IsInjective(log'[m])
    <3>1. log'[m] = log[m]
      BY ReceivedList
    <3> QED
      BY <1>1, <3>1
  <2> QED
    BY <2>2, <2>3
<1>3. /\ age' \in [Trusted -> [Event -> Age]]
      /\ \A m \in Trusted \ Ahead : age'[m] = age[m]
  <2>1. -1 \in Age
    BY Bounds DEF Age
  <2> QED
    BY <2>1 DEF Receive, TypeOK
<1>4. arrived' \in 0 .. Cardinality(Event) /\ arrived' <= Len(log'[Miner])
  <2>1. Len(log'[Miner]) <= Cardinality(Event) /\ Len(log'[Miner]) \in Nat
    BY <1>1, <1>2, Bounds, ListsAreShort
  <2>2. Len(log'[Miner]) = IF n = Miner THEN Len(log[Miner]) + 1 ELSE Len(log[Miner])
    BY Bounds, ReceivedList
  <2>3. arrived' \in Nat /\ arrived' <= Len(log'[Miner])
    BY <1>1, <2>2, Bounds DEF Receive, TypeOK, HeldInv
  <2> QED
    BY <2>1, <2>3, Bounds
<1>5. TypeOK'
  BY <1>1, <1>2, <1>3, <1>4 DEF TypeOK, Receive
<1>6. HeldInv'
  <2>1. ASSUME NEW h \in held
        PROVE  \E i \in DOMAIN log'[Miner] : i <= Limit + arrived' /\ log'[Miner][i] = h
    <3>1. PICK i \in DOMAIN log[Miner] : i <= Limit + arrived /\ log[Miner][i] = h
      BY DEF HeldInv
    <3>2. i \in Int /\ arrived \in Int /\ Limit \in Int
      BY <1>1, Bounds DEF TypeOK
    <3>3. CASE n # Miner
      BY <3>1, <3>3, Bounds, ReceivedList DEF Receive
    <3>4. CASE n = Miner
      <4>1. phase = "ask"
        BY DEF QuietSoFar, TypeOK
      <4>2. arrived' = arrived + 1
        BY <3>4, <4>1 DEF Receive
      <4>3. i + 1 \in DOMAIN log'[Miner] /\ log'[Miner][i + 1] = h
        BY <3>1, <3>4, ReceivedList
      <4> QED
        BY <3>1, <3>2, <4>2, <4>3
    <3> QED
      BY <3>3, <3>4
  <2> QED
    BY <1>4, <2>1 DEF HeldInv, Receive
<1>7. SortedInv'
  <2> SUFFICES ASSUME NEW m \in Trusted \ Ahead
               PROVE  /\ \A f \in Event : age'[m][f] >= 0 /\ (f \notin Has(m)' => age'[m][f] = 0)
                      /\ \A i, j \in DOMAIN log'[m] :
                           i <= j => age'[m][log'[m][i]] <= age'[m][log'[m][j]]
    BY DEF SortedInv
  <2>1. age'[m] = age[m] /\ age[m] \in [Event -> Age] /\ m \in Node
    BY <1>3, Bounds DEF TypeOK
  <2>2. \A f \in Event : age[m][f] >= 0 /\ (f \notin Has(m) => age[m][f] = 0)
    BY DEF SortedInv
  <2>3. \A i, j \in DOMAIN log[m] : i <= j => age[m][log[m][i]] <= age[m][log[m][j]]
    BY DEF SortedInv
  <2>4. CASE m # n
    BY <2>1, <2>2, <2>3, <2>4, ReceivedList, ReceivedIsHad
  <2>5. CASE m = n
    <3>1. age[m][e] = 0
      BY <2>2, <2>5 DEF Receive
    <3>2. \A j \in DOMAIN log'[m] : log'[m][j] \in Event
      BY <1>1, <2>1
    <3>3. ASSUME NEW i \in DOMAIN log'[m], NEW j \in DOMAIN log'[m], i <= j
          PROVE  age[m][log'[m][i]] <= age[m][log'[m][j]]
      <4>1. CASE i = 1
        BY <2>1, <2>2, <2>5, <3>1, <3>2, <4>1, ReceivedList DEF Age
      <4>2. CASE i # 1
        <5>1. i \in 1 .. Len(log'[m]) /\ j \in 1 .. Len(log'[m])
          BY <1>1, <2>1
        <5>2. j # 1 /\ i - 1 <= j - 1
          BY <3>3, <4>2, <5>1
        <5>3. /\ i - 1 \in DOMAIN log[m] /\ log'[m][i] = log[m][i - 1]
              /\ j - 1 \in DOMAIN log[m] /\ log'[m][j] = log[m][j - 1]
          BY <2>5, <4>2, <5>2, ReceivedList
        <5> QED
          BY <2>3, <5>2, <5>3
      <4> QED
        BY <4>1, <4>2
    <3> QED
      BY <2>1, <2>2, <2>5, <3>3, ReceivedIsHad
  <2> QED
    BY <2>4, <2>5
<1>8. QuietSoFar'
  <2>1. \A m \in Trusted : Has(m) \subseteq Has(m)'
    BY Bounds, ReceivedIsHad
  <2>2. Asked' = Asked /\ UNCHANGED <<phase, ids, before, failed>>
    BY DEF Receive, Asked
  <2>3. Asked \subseteq Trusted
    BY Bounds DEF Asked, TypeOK
  <2> QED
    BY <1>3, <2>1, <2>2, <2>3 DEF QuietSoFar
<1> QED
  BY <1>5, <1>6, <1>7, <1>8

LEMMA TickStep == ASSUME IInv, Tick PROVE IInv'
<1> USE DEF IInv
<1>1. UNCHANGED <<log, phase, source, ids, seen, before, failed, held, arrived>>
  BY DEF Tick
<1>2. /\ age \in [Trusted -> [Event -> Age]]
      /\ \A n \in Node : log[n] \in Seq(Event)
  BY DEF TypeOK
<1>3. /\ \A n \in Trusted : \A e \in Event :
           age'[n][e] = IF e \in Has(n) /\ age[n][e] <= MaxAge
                        THEN age[n][e] + 1 ELSE age[n][e]
      /\ age' = [n \in Trusted |-> [e \in Event |-> age'[n][e]]]
  BY DEF Tick
<1>4. \A n \in Trusted : \A e \in Event : age[n][e] \in Age
  BY <1>2
<1>5. \A n \in Trusted : \A e \in Event : age'[n][e] \in Age
  BY <1>3, <1>4, Bounds DEF Age
<1>6. age' \in [Trusted -> [Event -> Age]]
  BY <1>3, <1>5
<1>7. \A n \in Node : Has(n)' = Has(n)
  BY <1>1 DEF Has
<1>8. TypeOK'
  BY <1>1, <1>6 DEF TypeOK
<1>9. HeldInv'
  BY <1>1 DEF HeldInv
<1>10. SortedInv'
  <2> SUFFICES ASSUME NEW n \in Trusted \ Ahead
               PROVE  /\ \A e \in Event : age'[n][e] >= 0 /\ (e \notin Has(n) => age'[n][e] = 0)
                      /\ \A i, j \in DOMAIN log[n] :
                           i <= j => age'[n][log[n][i]] <= age'[n][log[n][j]]
    BY <1>1, <1>7, Bounds DEF SortedInv
  <2>1. \A e \in Event : age[n][e] \in Int /\ age[n][e] >= 0 /\ (e \notin Has(n) => age[n][e] = 0)
    BY <1>4 DEF SortedInv, Age
  <2>2. \A i \in DOMAIN log[n] : log[n][i] \in Event /\ log[n][i] \in Has(n)
    BY <1>2, Bounds DEF Has, Range
  <2>3. \A i, j \in DOMAIN log[n] : i <= j => age[n][log[n][i]] <= age[n][log[n][j]]
    BY DEF SortedInv
  <2>4. \A i, j \in DOMAIN log[n] : i <= j => age'[n][log[n][i]] <= age'[n][log[n][j]]
    <3> TAKE i \in DOMAIN log[n], j \in DOMAIN log[n]
    <3>1. /\ age'[n][log[n][i]] = IF age[n][log[n][i]] <= MaxAge
                                 THEN age[n][log[n][i]] + 1 ELSE age[n][log[n][i]]
          /\ age'[n][log[n][j]] = IF age[n][log[n][j]] <= MaxAge
                                 THEN age[n][log[n][j]] + 1 ELSE age[n][log[n][j]]
      BY <1>3, <2>2
    <3> QED
      BY <2>1, <2>2, <2>3, <3>1, Bounds
  <2> QED
    BY <1>3, <2>1, <2>4, Bounds
<1>11. QuietSoFar'
  <2>1. Asked' = Asked /\ Asked \subseteq Trusted
    BY <1>1, Bounds DEF Asked, TypeOK
  <2>2. \A n \in Trusted : before[n] \subseteq Event
    BY DEF TypeOK
  <2>3. \A n \in Trusted : \A e \in before[n] : age[n][e] > MaxAge => age'[n][e] > MaxAge
    BY <1>3, <1>4, <2>2, Bounds DEF Age
  <2> QED
    BY <1>1, <1>7, <2>1, <2>3, Bounds DEF QuietSoFar
<1> QED
  BY <1>8, <1>9, <1>10, <1>11

LEMMA BeginStep == ASSUME IInv, BeginForward PROVE IInv'
<1> USE DEF IInv
<1>1. \A n \in Trusted : Has(n) \subseteq Event
  BY Bounds DEF TypeOK, Has, Range
<1>2. TypeOK'
  BY <1>1, Bounds DEF BeginForward, TypeOK
<1>3. HeldInv' /\ SortedInv'
  BY DEF BeginForward, HeldInv, SortedInv, Has
<1>4. QuietSoFar'
  <2>1. Asked' = {}
    BY DEF BeginForward, Asked
  <2> QED
    BY <2>1 DEF BeginForward, QuietSoFar, Has
<1> QED
  BY <1>2, <1>3, <1>4

LEMMA FetchStep == ASSUME IInv, Fetch PROVE IInv'
<1> USE DEF IInv
<1>1. PICK answers \in {TRUE, ~MayFail} :
        LET found == IF answers THEN Chosen(source) ELSE {}
        IN /\ ids' = found
           /\ before' = IF found = {} THEN before ELSE NothingYet
           /\ failed' = IF found # {} THEN {}
                        ELSE IF answers THEN failed ELSE failed \cup {source}
           /\ IF Settled(found, answers)
              THEN phase' = "ask" /\ source' = 1
              ELSE phase' = phase /\ source' = source + 1
           /\ held' = found \cap Latest(Miner, Limit)
  BY DEF Fetch
<1> DEFINE found == IF answers THEN Chosen(source) ELSE {}
<1>2. /\ phase = "fetch" /\ arrived' = 0 /\ UNCHANGED <<log, age, seen>>
      /\ source \in Trusted /\ source \in Node /\ answers \in BOOLEAN
  BY FailuresAreKnown, Bounds DEF Fetch, TypeOK
<1>3. found \subseteq Event /\ Cardinality(found) <= Cap
  BY <1>2, ChosenFits, FS_EmptySet, Bounds
<1>4. TypeOK'
  <2>1. source' \in Trusted
    BY <1>1, <1>2, Bounds DEF Settled
  <2>2. before' \in [Trusted -> SUBSET Event] /\ failed' \subseteq Trusted
    BY <1>1, <1>2 DEF TypeOK, NothingYet
  <2>3. phase' \in {"idle", "fetch", "ask"} /\ ids' = found /\ held' \subseteq found
    BY <1>1, <1>2
  <2> HIDE DEF found
  <2> QED
    BY <1>2, <1>3, <2>1, <2>2, <2>3, Bounds DEF TypeOK
<1>5. HeldInv'
  <2>1. \A e \in held' : \E i \in DOMAIN log[Miner] : i <= Limit /\ log[Miner][i] = e
    BY <1>1 DEF Latest
  <2>2. log[Miner] \in Seq(Event)
    BY Bounds DEF TypeOK
  <2> QED
    BY <1>2, <2>1, <2>2, Bounds DEF HeldInv
<1>6. SortedInv'
  BY <1>2 DEF SortedInv, Has
<1>7. QuietSoFar'
  <2>1. phase' # "ask" => ids' = {}
    BY <1>1 DEF Settled
  <2>2. \A n \in Trusted : before'[n] \subseteq Has(n)'
    BY <1>1, <1>2 DEF QuietSoFar, NothingYet, Has
  <2>3. ASSUME ids' = {}, NEW n \in Asked' \ (failed' \cup Ahead), NEW e \in before'[n]
        PROVE  age'[n][e] > MaxAge
    <3>1. found = {} /\ before' = before /\ failed \subseteq failed' /\ ids = {}
      BY <1>1, <1>2, <2>3 DEF QuietSoFar
    <3>2. n \in Asked \/ n = source
      BY <1>1, <1>2, <2>3, <3>1, Bounds DEF Asked, Settled
    <3>3. CASE n \in Asked
      BY <1>2, <2>3, <3>1, <3>3 DEF QuietSoFar
    <3>4. CASE n = source
      <4>1. answers /\ n \in Trusted \ Ahead
        BY <1>1, <1>2, <2>3, <3>1, <3>4
      <4>2. Chosen(n) = {} /\ e \in Has(n)
        BY <2>3, <3>1, <3>4, <4>1 DEF QuietSoFar
      <4> QED
        BY <1>2, <4>1, <4>2, NothingRecent
    <3> QED
      BY <3>2, <3>3, <3>4
  <2> QED
    BY <2>1, <2>2, <2>3 DEF QuietSoFar
<1> QED
  BY <1>4, <1>5, <1>6, <1>7

LEMMA AskStep == ASSUME IInv, Ask PROVE IInv'
<1> USE DEF IInv
<1>1. TypeOK'
  <2>1. IsFiniteSet({}) /\ Cardinality({}) = 0
    BY FS_EmptySet
  <2>2. IsFiniteSet(ids)
    BY EventsAreKnown, FS_Subset DEF TypeOK
  <2>3. Seen(ids) \subseteq ids
    BY DEF Seen
  <2>4. Cardinality(Seen(ids)) <= Cardinality(ids)
    BY <2>2, <2>3, FS_Subset
  <2>5. Cardinality(Seen(ids)) \in Nat /\ Cardinality(ids) \in Nat
    BY <2>2, <2>3, FS_Subset, FS_CardinalityType
  <2>6. seen' = None \/ (seen' \subseteq Event /\ Cardinality(seen') <= Cap)
    BY <2>3, <2>4, <2>5, Bounds DEF Ask, TypeOK
  <2> QED
    BY <2>1, <2>6, Bounds DEF Ask, TypeOK, NothingYet
<1>2. HeldInv'
  <2>1. log[Miner] \in Seq(Event)
    BY Bounds DEF TypeOK
  <2> QED
    BY <2>1 DEF Ask, HeldInv
<1>3. SortedInv' /\ QuietSoFar'
  BY DEF Ask, SortedInv, QuietSoFar, NothingYet, Has
<1> QED
  BY <1>1, <1>2, <1>3

LEMMA IInvStep == ASSUME IInv, [Next]_vars PROVE IInv'
<1>1. CASE Gossip
  BY <1>1, ReceiveStep, TickStep DEF Gossip
<1>2. CASE Forward
  BY <1>2, BeginStep, FetchStep, AskStep DEF Forward
<1>3. CASE UNCHANGED vars
  BY <1>3 DEF vars, IInv, TypeOK, HeldInv, SortedInv, QuietSoFar, Asked, Has
<1> QED
  BY <1>1, <1>2, <1>3 DEF Next

-----------------------------------------------------------------------------
(***************************************************************************)
(* Theorems.                                                               *)
(***************************************************************************)

\* No list has an event twice, no exam is longer than Cap, and nothing is
\* seen that there is not.
THEOREM GossipTypeCorrect == Spec => []TypeOK
<1>1. IInv => TypeOK
  BY DEF IInv
<1> QED
  BY <1>1, InitIInv, IInvStep, PTL DEF Spec

\* Whatever the limits, a miner reports the events that it had when they
\* were chosen, as long as no more than Window - Limit others come first.
THEOREM WindowAlwaysLeavesRoom == Spec => WindowLeavesRoom
<1> DEFINE A == Ask /\ seen' # None /\ arrived <= Window - Limit => held \subseteq seen'
<1>1. ASSUME IInv PROVE A
  <2> SUFFICES ASSUME Ask, seen' # None, arrived <= Window - Limit, NEW e \in held
               PROVE  e \in seen'
    OBVIOUS
  <2>1. PICK i \in DOMAIN log[Miner] : i <= Limit + arrived /\ log[Miner][i] = e
    BY <1>1 DEF IInv, HeldInv
  <2>2. log[Miner] \in Seq(Event) /\ arrived \in Int
    BY <1>1, Bounds DEF IInv, TypeOK
  <2>3. i <= Window
    BY <2>1, <2>2, Bounds
  <2>4. e \in ids /\ e \in Latest(Miner, Window)
    BY <1>1, <2>1, <2>3 DEF IInv, TypeOK, Latest
  <2> QED
    BY <2>4 DEF Ask, Seen
<1>2. IInv => [A]_vars
  BY <1>1
<1> QED
  BY <1>2, InitIInv, IInvStep, PTL DEF Spec, WindowLeavesRoom

\* However many trusted nodes are behind, silent or ahead of time, an exam
\* without events means that the others had nothing recent.
THEOREM EmptyAlwaysMeansQuiet == Spec => []EmptyMeansQuiet
<1>1. IInv => EmptyMeansQuiet
  BY DEF IInv, QuietSoFar, EmptyMeansQuiet, Asked
<1> QED
  BY <1>1, InitIInv, IInvStep, PTL DEF Spec
=============================================================================
