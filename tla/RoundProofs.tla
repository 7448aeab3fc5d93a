----------------------------- MODULE RoundProofs -----------------------------
(***************************************************************************)
(* What holds of every round of challenges, for any corpus, any events,    *)
(* fetch times, peer counts and failures.                                  *)
(***************************************************************************)
EXTENDS ChallengeRound, TLAPS, FiniteSetTheorems

-----------------------------------------------------------------------------
(***************************************************************************)
(* The inductive invariant.                                                *)
(***************************************************************************)

\* How many challenges may have been sent.
Sendable ==
  CASE phase \in {"idle", "handshake"}   -> 0
    [] phase = "storage"                 -> 1
    [] phase \in {"latency", "compare"}  -> 2
    [] phase = "gossip"                  -> 3
    [] phase = "refs"                    -> 4
    [] phase = "done"                    -> 5

CountInv ==
  /\ out.sent <= Sendable /\ out.answered <= out.sent /\ out.proven <= out.requested

\* The fields of the challenges to come are as they were at first.
ToCome ==
  /\ phase \in {"idle", "handshake"} => out = Blank
  /\ phase = "storage" => out.requested = 0 /\ out.proven = 0
  /\ phase \in {"storage", "latency", "compare"} => out.samples = <<>>
  /\ phase \in {"storage", "latency", "compare", "gossip"} => out.probed = 0 /\ out.seen = 0
  /\ phase = "compare" => exam.repos

\* Nothing but the handshake is sent without a DID, and nothing is credited.
SilentInv ==
  /\ phase \in {"storage", "latency", "compare", "gossip", "refs"} => out.did = SigningDid
  /\ phase = "done" /\ out.did = None =>
       /\ out.answered = 0 /\ out.requested = 0
       /\ out.samples = <<>> /\ out.probed = 0

\* The challenges that stay unanswered though nothing failed.
MissedLatency == IF exam.repos /\ out.samples = <<>> THEN 1 ELSE 0
MissedRefs    == IF exam.repos /\ ~node.certified THEN 1 ELSE 0

\* A round in which nothing has failed so far is exact so far.
ExactSoFar ==
  hurt = {} /\ phase # "idle" =>
    /\ node.up /\ exam.truth = Cid
    /\ phase # "handshake" => out.did = SigningDid
    /\ phase \notin {"handshake", "storage"} =>
         out.requested = Cardinality(Cid) /\ out.proven = Cardinality(node.pins)
    /\ phase \in {"storage", "latency", "compare"} => out.sent = out.answered
    /\ phase \in {"gossip", "refs"} => out.sent - out.answered = MissedLatency
    /\ phase \in {"refs", "done"} => out.seen = Cardinality(exam.ids \cap node.events)
    /\ phase = "done" => out.sent - out.answered = MissedLatency + MissedRefs

IInv == TypeOK /\ CountInv /\ ToCome /\ SilentInv /\ ExactSoFar /\ HonestProbeCounts

-----------------------------------------------------------------------------
(***************************************************************************)
(* Counts and numbers.                                                     *)
(***************************************************************************)

\* A part of the corpus, or of the events, is counted by no more than them.
LEMMA Counts ==
  /\ Cardinality(Cid) \in Nat /\ Cardinality(Event) \in Nat
  /\ Cardinality({}) = 0
  /\ \A A \in SUBSET Cid : \A B \in SUBSET A :
       /\ Cardinality(A) \in 0 .. Cardinality(Cid)
       /\ Cardinality(B) \in 0 .. Cardinality(A)
  /\ \A A \in SUBSET Event : \A B \in SUBSET A :
       /\ Cardinality(A) \in 0 .. Cardinality(Event)
       /\ Cardinality(B) \in 0 .. Cardinality(A)
<1>1. Cardinality(Cid) \in Nat /\ Cardinality(Event) \in Nat /\ Cardinality({}) = 0
  BY CorpusIsFinite, FS_CardinalityType, FS_EmptySet
<1>2. \A S : IsFiniteSet(S) =>
        \A A \in SUBSET S : /\ IsFiniteSet(A) /\ Cardinality(A) \in Nat
                            /\ Cardinality(S) \in Nat /\ Cardinality(A) <= Cardinality(S)
  BY FS_Subset, FS_CardinalityType
<1>3. \A S : IsFiniteSet(S) => \A A \in SUBSET S : \A B \in SUBSET A :
        /\ Cardinality(A) \in 0 .. Cardinality(S) /\ Cardinality(B) \in 0 .. Cardinality(A)
  BY <1>2
<1> QED
  BY <1>1, <1>3, CorpusIsFinite

\* What a node serves is a number of calls.
LEMMA Served ==
  /\ MaxCalls \in Nat /\ MaxCalls >= 2 /\ MaxCalls >= Cardinality(Cid)
  /\ \A served \in Calls : served \in 0 .. MaxCalls
BY Counts DEF MaxCalls, Calls, Serves

\* A challenge after which nothing has failed was served, and its answer came.
LEMMA HurtByNothing ==
  ASSUME NEW served \in Calls, NEW got, NEW answer,
         hurt \subseteq {"miner", "validator"}
  PROVE  /\ HurtBy(served, got, answer) \subseteq {"miner", "validator"}
         /\ HurtBy(served, got, answer) = {} =>
              hurt = {} /\ served = MaxCalls /\ got = answer
BY Served DEF HurtBy

\* An answer that is delivered is the handler's own or the empty one.
LEMMA DeliveredIs ==
  ASSUME NEW answer, NEW nothing, NEW got \in Delivered(answer, nothing)
  PROVE  got = answer \/ got = nothing
BY DEF Delivered

\* Whatever the answer, no more blocks are proven than the validator has.
LEMMA StorageVerdictFits ==
  ASSUME NEW truth \in SUBSET Cid, NEW got
  PROVE  VerifyStorage(got, truth) \in 0 .. Cardinality(truth)
<1>1. {c \in truth : got.digests[c] = "block"} \in SUBSET truth
  OBVIOUS
<1>2. Cardinality(truth) \in Nat
  BY Counts
<1>3. Cardinality({c \in truth : got.digests[c] = "block"}) \in 0 .. Cardinality(truth)
  BY <1>1, Counts
<1> QED
  BY <1>2, <1>3 DEF VerifyStorage

\* The verdict on the digests of a node counts its pins among the blocks.
LEMMA StorageVerdict ==
  ASSUME node \in Node, NEW truth \in SUBSET Cid
  PROVE  VerifyStorage([digests |-> Digests(node)], truth)
           = Cardinality(truth \cap node.pins)
<1> DEFINE d == Digests(node)
<1>1. DOMAIN d = Cid
  BY DEF Digests
<1>2. \A c \in truth : d[c] = "block" <=> c \in node.pins
  BY DEF Digests
<1>3. {c \in truth : d[c] = "block"} = truth \cap node.pins
  BY <1>2
<1>4. [digests |-> d].digests = d
  OBVIOUS
<1> HIDE DEF d
<1>5. VerifyStorage([digests |-> d], truth)
        = Cardinality({c \in truth : d[c] = "block"})
  BY <1>1, <1>4 DEF VerifyStorage
<1> QED
  BY <1>3, <1>5, Zenon DEF d

\* Digests are an answer.
LEMMA DigestsAreSet ==
  ASSUME node \in Node PROVE Digests(node) # None
<1>1. Digests(node) \in [Cid -> {"block", "zeros"}]
  BY DEF Digests
<1> QED
  BY <1>1, NoneIsNoAnswer

\* A set that is listed is listed once through.
LEMMA ListOfSet ==
  ASSUME NEW S, IsFiniteSet(S)
  PROVE  SetToSeq(S) \in [1 .. Cardinality(S) -> S]
<1>1. \E f \in [1 .. Cardinality(S) -> S] : IsInjective(f)
  <2>1. ExistsBijection(1 .. Cardinality(S), S)
    BY FS_CardinalityType
  <2> QED
    BY <2>1 DEF ExistsBijection, Bijection, Injection
<1> QED
  BY <1>1 DEF SetToSeq

\* The verdict on the list of a handler counts each event once.
LEMMA GossipVerdict ==
  ASSUME NEW ids \in SUBSET Event, NEW events, NEW peers
  PROVE  VerifyGossip(ids, [seen |-> SetToSeq(ids \cap events), peers |-> peers])
           = Cardinality(ids \cap events)
<1> DEFINE S == ids \cap events
           list == SetToSeq(S)
<1>1. IsFiniteSet(S) /\ Cardinality(S) \in Nat
  BY CorpusIsFinite, FS_Subset, FS_CardinalityType
<1>2. list \in [1 .. Cardinality(S) -> S]
  BY <1>1, ListOfSet
<1>3. {i \in DOMAIN list : list[i] \in ids} = 1 .. Cardinality(S)
  <2> HIDE DEF list
  <2> QED
    BY <1>2
<1>4. Cardinality(1 .. Cardinality(S)) = Cardinality(S)
  <2> DEFINE n == Cardinality(S)
  <2> HIDE DEF n
  <2>1. n \in Nat => Cardinality(1 .. n) = n
    BY FS_Interval
  <2> QED
    BY <1>1, <2>1 DEF n
<1>5. [seen |-> list, peers |-> peers].seen = list
  OBVIOUS
<1> HIDE DEF list, S
<1>6. VerifyGossip(ids, [seen |-> list, peers |-> peers]) = Cardinality(S)
  BY <1>3, <1>4, <1>5, Zenon DEF VerifyGossip
<1> QED
  BY <1>6 DEF list, S

\* The verdict on any other list is a number as well.
LEMMA ForeignVerdict ==
  ASSUME NEW ids, NEW got \in ForeignEvents
  PROVE  VerifyGossip(ids, got) \in Nat /\ got.peers \in Peers
<1>1. got \in [seen : UNION {[1 .. n -> Event] : n \in 0 .. MaxListed}, peers : Peers]
  BY DEF ForeignEvents
<1>2. PICK n \in 0 .. MaxListed : got.seen \in [1 .. n -> Event]
  BY <1>1
<1>3. IsFiniteSet(1 .. n)
  BY <1>2, BoundIsNatural, FS_Interval
<1>4. {i \in DOMAIN got.seen : got.seen[i] \in ids} \in SUBSET (1 .. n)
  BY <1>2
<1> QED
  BY <1>1, <1>3, <1>4, FS_Subset, FS_CardinalityType DEF VerifyGossip

\* Outcomes stay outcomes when fields are set to values of their type.
LEMMA OutcomeUpdates ==
  ASSUME NEW o \in Outcome, NEW a \in 0 .. 5, NEW b \in 0 .. 5
  PROVE  /\ [o EXCEPT !.sent = a] \in Outcome
         /\ [o EXCEPT !.sent = a, !.answered = b] \in Outcome
         /\ \A did \in {None, SigningDid} :
              [o EXCEPT !.sent = a, !.answered = b, !.did = did] \in Outcome
         /\ \A n \in 0 .. Cardinality(Cid) :
              /\ [o EXCEPT !.sent = a, !.requested = n] \in Outcome
              /\ [o EXCEPT !.answered = b, !.proven = n] \in Outcome
         /\ \A ms \in FetchMs : [o EXCEPT !.answered = b, !.samples = <<ms>>] \in Outcome
         /\ \A n \in 0 .. Cardinality(Event) :
              [o EXCEPT !.sent = a, !.probed = n] \in Outcome
         /\ \A n \in Nat, peers \in Peers \cup {0} :
              [o EXCEPT !.answered = b, !.seen = n, !.peers = peers] \in Outcome
<1>1. /\ [o EXCEPT !.sent = a] \in Outcome
      /\ [o EXCEPT !.sent = a, !.answered = b] \in Outcome
  BY DEF Outcome
<1>2. ASSUME NEW did \in {None, SigningDid}
      PROVE  [o EXCEPT !.sent = a, !.answered = b, !.did = did] \in Outcome
  BY DEF Outcome
<1>3. ASSUME NEW n \in 0 .. Cardinality(Cid)
      PROVE  /\ [o EXCEPT !.sent = a, !.requested = n] \in Outcome
             /\ [o EXCEPT !.answered = b, !.proven = n] \in Outcome
  BY DEF Outcome
<1>4. ASSUME NEW ms \in FetchMs
      PROVE  [o EXCEPT !.answered = b, !.samples = <<ms>>] \in Outcome
  <2>1. <<ms>> \in {<<>>} \cup {<<m>> : m \in FetchMs}
    OBVIOUS
  <2> DEFINE sample == <<ms>>
  <2> HIDE DEF sample
  <2>2. [o EXCEPT !.answered = b, !.samples = sample] \in Outcome
    BY <2>1 DEF Outcome, sample
  <2> QED
    BY <2>2 DEF sample
<1>5. ASSUME NEW n \in 0 .. Cardinality(Event)
      PROVE  [o EXCEPT !.sent = a, !.probed = n] \in Outcome
  BY DEF Outcome
<1>6. ASSUME NEW n \in Nat, NEW peers \in Peers \cup {0}
      PROVE  [o EXCEPT !.answered = b, !.seen = n, !.peers = peers] \in Outcome
  BY DEF Outcome
<1> QED
  BY <1>1, <1>2, <1>3, <1>4, <1>5, <1>6

\* The invariants of a state depend on these variables only.
LEMMA Stutter == ASSUME IInv, UNCHANGED vars PROVE IInv'
<1>1. TypeOK'
  BY DEF IInv, vars, TypeOK
<1>2. CountInv' /\ ToCome' /\ SilentInv'
  BY DEF IInv, vars, CountInv, Sendable, ToCome, SilentInv
<1>3. ExactSoFar' /\ HonestProbeCounts'
  BY DEF IInv, vars, ExactSoFar, MissedLatency, MissedRefs, HonestProbeCounts
<1> QED
  BY <1>1, <1>2, <1>3 DEF IInv

LEMMA InitIInv == ASSUME Init PROVE IInv
BY Counts DEF IInv, Init, TypeOK, CountInv, Sendable, ToCome, SilentInv, ExactSoFar,
       HonestProbeCounts, Blank, Outcome, NoExam, NoProbe, NoCache, Cache, Phases, Node

-----------------------------------------------------------------------------
(***************************************************************************)
(* The miner's side.                                                       *)
(***************************************************************************)

LEMMA NodeStopsKeeps == ASSUME IInv, NodeStops PROVE IInv'
<1>1. TypeOK'
  BY DEF IInv, NodeStops, TypeOK, Node
<1>2. hurt' # {}
  BY DEF NodeStops
<1>3. CountInv' /\ ToCome' /\ SilentInv'
  BY DEF IInv, NodeStops, CountInv, Sendable, ToCome, SilentInv
<1> QED
  BY <1>1, <1>2, <1>3 DEF IInv, ExactSoFar, HonestProbeCounts

LEMMA NodeStartsKeeps == ASSUME IInv, NodeStarts PROVE IInv'
<1>0. PICK did \in NodeDids : node' = [node EXCEPT !.up = TRUE, !.did = did]
  BY DEF NodeStarts
<1>1. TypeOK'
  BY <1>0, NodeDidsAreDids DEF IInv, NodeStarts, TypeOK, Node
<1>2. CountInv' /\ ToCome' /\ SilentInv'
  BY DEF IInv, NodeStarts, CountInv, Sendable, ToCome, SilentInv
<1>3. ExactSoFar'
  BY DEF IInv, NodeStarts, ExactSoFar
<1>4. node'.refs = node.refs
  BY <1>0 DEF IInv, TypeOK, Node
<1>5. HonestProbeCounts'
  BY <1>4 DEF IInv, NodeStarts, HonestProbeCounts
<1> QED
  BY <1>1, <1>2, <1>3, <1>5 DEF IInv

LEMMA MinerRestartsKeeps == ASSUME IInv, MinerRestarts PROVE IInv'
<1>1. TypeOK'
  BY DEF IInv, MinerRestarts, TypeOK, Cache, NoCache
<1>2. hurt' # {}
  BY DEF MinerRestarts
<1>3. CountInv' /\ ToCome' /\ SilentInv'
  BY DEF IInv, MinerRestarts, CountInv, Sendable, ToCome, SilentInv
<1> QED
  BY <1>1, <1>2, <1>3 DEF IInv, ExactSoFar, HonestProbeCounts

LEMMA PushKeeps == ASSUME IInv, Push PROVE IInv'
<1>1. TypeOK'
  BY DEF IInv, Push, TypeOK
<1>2. CountInv' /\ ToCome' /\ SilentInv'
  BY DEF IInv, Push, CountInv, Sendable, ToCome, SilentInv
<1>3. ExactSoFar' /\ HonestProbeCounts'
  BY DEF IInv, Push, ExactSoFar, HonestProbeCounts
<1> QED
  BY <1>1, <1>2, <1>3 DEF IInv

-----------------------------------------------------------------------------
(***************************************************************************)
(* The round begins and ends.                                              *)
(***************************************************************************)

LEMMA BeginRoundKeeps == ASSUME IInv, BeginRound PROVE IInv'
<1>1. exam' \in [truth : SUBSET Cid, ids : SUBSET Event, repos : BOOLEAN]
  BY DEF BeginRound, Truths
<1>2. TypeOK'
  <2>1. out' \in Outcome
    BY Counts DEF BeginRound, Blank, Outcome
  <2> QED
    BY <1>1, <2>1 DEF IInv, BeginRound, TypeOK, Phases, NoProbe
<1>3. CountInv' /\ ToCome' /\ SilentInv'
  BY DEF BeginRound, CountInv, Sendable, ToCome, SilentInv, Blank
<1>4. ExactSoFar' /\ HonestProbeCounts'
  BY DEF BeginRound, ExactSoFar, HonestProbeCounts
<1> QED
  BY <1>2, <1>3, <1>4 DEF IInv

LEMMA EndRoundKeeps == ASSUME IInv, EndRound PROVE IInv'
<1>1. TypeOK'
  <2>1. out' \in Outcome
    BY Counts DEF EndRound, Blank, Outcome
  <2> QED
    BY <2>1 DEF IInv, EndRound, TypeOK, Phases, NoProbe, NoExam
<1>2. CountInv' /\ ToCome' /\ SilentInv'
  BY DEF EndRound, CountInv, Sendable, ToCome, SilentInv, Blank
<1>3. ExactSoFar' /\ HonestProbeCounts'
  BY DEF EndRound, ExactSoFar, HonestProbeCounts
<1> QED
  BY <1>1, <1>2, <1>3 DEF IInv

LEMMA RoundRaisesKeeps == ASSUME IInv, RoundRaises PROVE IInv'
<1>1. TypeOK'
  <2>1. out' \in Outcome
    BY Counts DEF RoundRaises, Blank, Outcome
  <2> QED
    BY <2>1 DEF IInv, RoundRaises, TypeOK, Phases
<1>2. CountInv' /\ ToCome' /\ SilentInv'
  BY DEF RoundRaises, CountInv, Sendable, ToCome, SilentInv, Blank
<1>3. ExactSoFar' /\ HonestProbeCounts'
  BY DEF RoundRaises, ExactSoFar, HonestProbeCounts
<1> QED
  BY <1>1, <1>2, <1>3 DEF IInv

-----------------------------------------------------------------------------
(***************************************************************************)
(* The five challenges.                                                    *)
(***************************************************************************)

LEMMA ShakeHandsKeeps == ASSUME IInv, ShakeHands PROVE IInv'
<1>1. phase = "handshake" /\ out = Blank /\ TypeOK
  BY DEF ShakeHands, IInv, ToCome
<1>2. PICK served \in Calls :
        \E got \in Delivered(Handshake(cache, served), NoHandshake) :
          /\ IF VerifyHandshake(got)
             THEN /\ out' = [out EXCEPT !.sent = @ + 1, !.answered = @ + 1,
                                        !.did = got.did]
                  /\ phase' = "storage"
             ELSE /\ out' = [out EXCEPT !.sent = @ + 1]
                  /\ phase' = "done"
          /\ \/ cache' = HandshakeCache(cache, node, served)
             \/ got # Handshake(cache, served) /\ cache' = cache
          /\ vouched' = IF node.up THEN node.did ELSE None
          /\ hurt' = HurtBy(served, got, Handshake(cache, served))
  BY DEF ShakeHands
<1>3. PICK got \in Delivered(Handshake(cache, served), NoHandshake) :
        /\ IF VerifyHandshake(got)
           THEN /\ out' = [out EXCEPT !.sent = @ + 1, !.answered = @ + 1,
                                      !.did = got.did]
                /\ phase' = "storage"
           ELSE /\ out' = [out EXCEPT !.sent = @ + 1]
                /\ phase' = "done"
        /\ \/ cache' = HandshakeCache(cache, node, served)
           \/ got # Handshake(cache, served) /\ cache' = cache
        /\ vouched' = IF node.up THEN node.did ELSE None
        /\ hurt' = HurtBy(served, got, Handshake(cache, served))
  BY <1>2
<1>4. UNCHANGED <<exam, node, probe>>
  BY DEF ShakeHands
<1>5. VerifyHandshake(got) => got.did = SigningDid
  BY <1>3, DeliveredIs DEF VerifyHandshake, Handshake, NoHandshake
<1>6. served > 0 /\ got = Handshake(cache, served) => VerifyHandshake(got)
  BY DidsDiffer DEF VerifyHandshake, Handshake, InfoKnown
<1>7. /\ out' \in Outcome
      /\ out'.sent = 1 /\ out'.requested = 0 /\ out'.proven = 0
      /\ out'.samples = <<>> /\ out'.probed = 0 /\ out'.seen = 0
      /\ \/ phase' = "storage" /\ out'.answered = 1 /\ out'.did = SigningDid
         \/ /\ phase' = "done" /\ out'.answered = 0 /\ out'.did = None
            /\ ~VerifyHandshake(got)
  <2>0. /\ out \in Outcome /\ out.sent = 0 /\ out.answered = 0 /\ out.did = None
        /\ out.requested = 0 /\ out.proven = 0
        /\ out.samples = <<>> /\ out.probed = 0 /\ out.seen = 0
    BY <1>1, Counts DEF Blank, TypeOK
  <2>1. CASE VerifyHandshake(got)
    <3>1. /\ phase' = "storage"
          /\ out' = [out EXCEPT !.sent = @ + 1, !.answered = @ + 1, !.did = got.did]
      BY <1>3, <2>1
    <3>2. out' = [out EXCEPT !.sent = 1, !.answered = 1, !.did = SigningDid]
      <4>1. out.sent + 1 = 1 /\ out.answered + 1 = 1 /\ got.did = SigningDid
        BY <1>5, <2>0, <2>1
      <4> QED
        BY <3>1, <4>1, Zenon
    <3>3. out' \in Outcome
      <4>1. 1 \in 0 .. 5 /\ SigningDid \in {None, SigningDid}
        OBVIOUS
      <4> QED
        BY <2>0, <3>2, <4>1, OutcomeUpdates, Zenon
    <3>4. /\ out'.sent = 1 /\ out'.answered = 1 /\ out'.did = SigningDid
          /\ out'.requested = 0 /\ out'.proven = 0
          /\ out'.samples = <<>> /\ out'.probed = 0 /\ out'.seen = 0
      BY <2>0, <3>2 DEF Outcome
    <3> QED
      BY <3>1, <3>3, <3>4
  <2>2. CASE ~VerifyHandshake(got)
    <3>1. phase' = "done" /\ out' = [out EXCEPT !.sent = @ + 1]
      BY <1>3, <2>2
    <3> QED
      BY <2>0, <2>2, <3>1 DEF Outcome
  <2> QED
    BY <2>1, <2>2
<1>8. cache' \in Cache
  BY <1>1, <1>3 DEF TypeOK, Cache, HandshakeCache, Node
<1>9. hurt' \subseteq {"miner", "validator"} /\ (hurt' = {} => phase' = "storage" /\ hurt = {})
  BY <1>1, <1>3, <1>6, <1>7, Served, HurtByNothing DEF TypeOK
<1>10. TypeOK'
  BY <1>1, <1>3, <1>4, <1>7, <1>8, <1>9 DEF TypeOK, Phases, Node
<1>11. CountInv' /\ ToCome' /\ SilentInv'
  BY <1>7, DidsDiffer DEF CountInv, Sendable, ToCome, SilentInv
<1>12. ExactSoFar' /\ HonestProbeCounts'
  BY <1>1, <1>4, <1>7, <1>9 DEF IInv, ExactSoFar, HonestProbeCounts
<1> QED
  BY <1>10, <1>11, <1>12 DEF IInv

\* What is asked and credited of the storage challenge.
LEMMA AskStorageKeeps == ASSUME IInv, AskStorage PROVE IInv'
<1>1. /\ phase = "storage" /\ exam.truth # {} /\ phase' = "latency"
      /\ UNCHANGED <<exam, cache, node, probe, vouched>>
  BY DEF AskStorage
<1>2. /\ TypeOK /\ out \in Outcome /\ exam.truth \subseteq Cid /\ node \in Node
      /\ node.pins \subseteq Cid /\ hurt \subseteq {"miner", "validator"}
  BY DEF IInv, TypeOK, Node
<1>3. /\ out.sent <= 1 /\ out.answered <= out.sent /\ out.sent \in 0 .. 5 /\ out.answered \in 0 .. 5
      /\ out.requested = 0 /\ out.proven = 0 /\ out.did = SigningDid
      /\ out.samples = <<>> /\ out.probed = 0 /\ out.seen = 0
  BY <1>1, <1>2 DEF IInv, CountInv, Sendable, ToCome, SilentInv, Outcome
<1> DEFINE truth == Cardinality(exam.truth)
           asked == [out EXCEPT !.sent = @ + 1, !.requested = truth]
<1>4. PICK served \in Calls :
        \E got \in Delivered(Storage(node, served), NoStorage) \cup ForeignDigests :
          /\ out' = IF got.digests = None THEN asked
                    ELSE [asked EXCEPT !.answered = @ + 1,
                                       !.proven = VerifyStorage(got, exam.truth)]
          /\ hurt' = HurtBy(served, got, Storage(node, served))
  BY DEF AskStorage
<1>5. PICK got \in Delivered(Storage(node, served), NoStorage) \cup ForeignDigests :
          /\ out' = IF got.digests = None THEN asked
                    ELSE [asked EXCEPT !.answered = @ + 1,
                                       !.proven = VerifyStorage(got, exam.truth)]
          /\ hurt' = HurtBy(served, got, Storage(node, served))
  BY <1>4
<1> DEFINE proven == VerifyStorage(got, exam.truth)
<1>6. truth \in 0 .. Cardinality(Cid) /\ proven \in 0 .. truth
  BY <1>2, Counts, StorageVerdictFits
<1>7. /\ asked \in Outcome /\ asked.sent = out.sent + 1 /\ asked.answered = out.answered
      /\ asked.requested = truth /\ asked.proven = 0 /\ asked.did = SigningDid
      /\ asked.samples = <<>> /\ asked.probed = 0 /\ asked.seen = 0
  <2>1. asked \in Outcome
    <3>1. out.sent + 1 \in 0 .. 5
      BY <1>3
    <3> QED
      BY <1>2, <1>3, <1>6, <3>1, OutcomeUpdates, Zenon
  <2> QED
    BY <1>2, <1>3, <2>1 DEF Outcome
<1>8. served >= Cardinality(Cid) /\ got = Storage(node, served) =>
        got.digests # None /\ proven = Cardinality(exam.truth \cap node.pins)
  BY <1>2, DigestsAreSet, StorageVerdict, Counts, Served DEF Storage
<1> DEFINE credited == [asked EXCEPT !.answered = @ + 1, !.proven = proven]
<1>9. /\ out' = asked \/ out' = credited
      /\ got.digests # None => out' = credited
  BY <1>5, Zenon
<1>10. /\ credited \in Outcome /\ credited.sent = out.sent + 1
       /\ credited.answered = out.answered + 1
       /\ credited.requested = truth /\ credited.proven = proven /\ credited.did = SigningDid
       /\ credited.samples = <<>> /\ credited.probed = 0 /\ credited.seen = 0
  <2> HIDE DEF asked, proven, truth
  <2>1. asked.answered + 1 \in 0 .. 5 /\ proven \in 0 .. Cardinality(Cid)
    <3>1. truth <= Cardinality(Cid) /\ truth \in Nat /\ Cardinality(Cid) \in Nat
      BY <1>6, Counts
    <3> QED
      BY <1>3, <1>6, <1>7, <3>1
  <2>2. credited \in Outcome
    BY <1>7, <2>1, OutcomeUpdates, Zenon
  <2> QED
    BY <1>7, <2>2 DEF Outcome
<1>11. /\ hurt' \subseteq {"miner", "validator"}
       /\ hurt' = {} => /\ hurt = {} /\ out' = credited
                        /\ proven = Cardinality(exam.truth \cap node.pins)
  BY <1>2, <1>5, <1>8, <1>9, HurtByNothing, Served
<1> HIDE DEF asked, credited, truth, proven
<1>12. TypeOK'
  BY <1>1, <1>2, <1>7, <1>9, <1>10, <1>11 DEF TypeOK, Phases
<1>13. CountInv' /\ ToCome' /\ SilentInv'
  BY <1>1, <1>3, <1>6, <1>7, <1>9, <1>10 DEF CountInv, Sendable, ToCome, SilentInv
<1>14. ExactSoFar'
  <2> SUFFICES ASSUME hurt' = {} PROVE ExactSoFar'
    BY DEF ExactSoFar
  <2>1. node.up /\ exam.truth = Cid /\ out.sent = out.answered
    BY <1>1, <1>11 DEF IInv, ExactSoFar
  <2>2. exam.truth \cap node.pins = node.pins
    BY <1>2, <2>1
  <2>3. truth = Cardinality(Cid) /\ proven = Cardinality(node.pins)
    BY <1>11, <2>1, <2>2, Zenon DEF truth
  <2> QED
    BY <1>1, <1>10, <1>11, <2>1, <2>3 DEF ExactSoFar
<1>15. HonestProbeCounts'
  BY <1>1 DEF HonestProbeCounts
<1> QED
  BY <1>12, <1>13, <1>14, <1>15 DEF IInv

LEMMA SkipStorageKeeps == ASSUME IInv, SkipStorage PROVE IInv'
<1>1. /\ phase = "storage" /\ exam.truth = {} /\ phase' = "latency"
      /\ UNCHANGED <<exam, out, cache, node, probe, vouched, hurt>>
  BY DEF SkipStorage
<1>2. TypeOK'
  BY <1>1 DEF IInv, TypeOK, Phases
<1>3. CountInv' /\ ToCome' /\ SilentInv'
  BY <1>1 DEF IInv, CountInv, Sendable, ToCome, SilentInv, TypeOK, Outcome
<1>4. ExactSoFar'
  <2> SUFFICES ASSUME hurt = {} PROVE ExactSoFar'
    BY <1>1 DEF ExactSoFar
  <2>1. Cid = {} /\ node.pins = {}
    BY <1>1 DEF IInv, TypeOK, Node, ExactSoFar
  <2>2. Cardinality(Cid) = 0 /\ Cardinality(node.pins) = 0
    BY <2>1, Counts
  <2> QED
    BY <1>1, <2>2 DEF IInv, ToCome, ExactSoFar
<1>5. HonestProbeCounts'
  BY <1>1 DEF HonestProbeCounts
<1> QED
  BY <1>2, <1>3, <1>4, <1>5 DEF IInv

\* The validator's own fetch.
LEMMA TimeHeadKeeps == ASSUME IInv, TimeHead PROVE IInv'
<1>1. /\ phase = "latency" /\ exam.repos /\ phase' = "compare"
      /\ UNCHANGED <<exam, out, cache, node, vouched, hurt>>
  BY DEF TimeHead
<1>2. PICK ms \in ValidatorMs, head \in TrustedHeads :
        probe' = [NoProbe EXCEPT !.head = head, !.ms = ms]
  BY DEF TimeHead
<1>3. head \in {"current", "behind", None}
  BY <1>2 DEF TrustedHeads
<1>4. probe' \in [head : {"current", "behind", None}, ms : ValidatorMs \cup {0},
                  moved : BOOLEAN, slower : BOOLEAN]
  BY <1>2, <1>3 DEF NoProbe
<1>5. TypeOK'
  BY <1>1, <1>4 DEF IInv, TypeOK, Phases
<1>6. CountInv' /\ ToCome' /\ SilentInv'
  BY <1>1 DEF IInv, CountInv, Sendable, ToCome, SilentInv
<1>7. ExactSoFar' /\ HonestProbeCounts'
  BY <1>1 DEF IInv, ExactSoFar, HonestProbeCounts
<1> QED
  BY <1>5, <1>6, <1>7 DEF IInv

\* A fetch that is not faster than the validator's own is plausible, unless
\* one node is behind and the other is not, or the head has moved.
LEMMA HonestFetchIsPlausible ==
  ASSUME TypeOK, NEW ms \in FetchMs, ms >= probe.ms, ~probe.moved,
         {probe.head, node.refs} # {"current", "behind"}, NEW served \in Nat, served > 0
  PROVE  LatencyIsPlausible(
           Latency(IF probe.moved THEN "ahead" ELSE node.refs, served, ms),
           probe.head, probe.ms)
<1>1. ms \in Nat \ {0} /\ probe.ms \in Nat
  <2>1. probe.ms \in ValidatorMs \cup {0}
    BY DEF TypeOK
  <2>2. ms \in Nat \ {0}
    BY TimesArePositive
  <2>3. \A own \in ValidatorMs \cup {0} : own \in Nat
    BY TimesArePositive
  <2> QED
    BY <2>1, <2>2, <2>3
<1>2. ms # None
  BY <1>1, NoneIsNoAnswer
<1>3. probe.head # None => node.refs \in {probe.head, "none"}
  <2>1. /\ probe.head \in {"current", "behind", None}
        /\ node.refs \in {"current", "behind", "none"}
    BY DEF TypeOK, Node
  <2> QED
    BY <2>1
<1>4. 4 * ms >= 3 * probe.ms
  BY <1>1
<1>5. Latency(IF probe.moved THEN "ahead" ELSE node.refs, served, ms)
        = [ms |-> ms, head |-> node.refs]
  BY DEF Latency
<1> QED
  BY <1>2, <1>3, <1>4, <1>5 DEF LatencyIsPlausible

LEMMA AskLatencyKeeps == ASSUME IInv, AskLatency PROVE IInv'
<1>1. /\ phase = "compare" /\ phase' = "gossip"
      /\ UNCHANGED <<exam, cache, node, vouched>>
  BY DEF AskLatency
<1>2. /\ TypeOK /\ out \in Outcome /\ node \in Node
      /\ hurt \subseteq {"miner", "validator"}
  BY DEF IInv, TypeOK
<1>3. /\ out.sent <= 2 /\ out.answered <= out.sent /\ out.sent \in 0 .. 5 /\ out.answered \in 0 .. 5
      /\ out.samples = <<>> /\ out.probed = 0 /\ out.seen = 0 /\ out.proven <= out.requested
      /\ out.did = SigningDid /\ exam.repos
  BY <1>1, <1>2 DEF IInv, CountInv, Sendable, ToCome, SilentInv, Outcome
<1> DEFINE refs == IF probe.moved THEN "ahead" ELSE node.refs
           asked == [out EXCEPT !.sent = @ + 1]
<1>4. PICK served \in Calls, ms \in FetchMs :
        \E got \in Delivered(Latency(refs, served, ms), NoLatency) :
          /\ out' = IF ~LatencyIsPlausible(got, probe.head, probe.ms) THEN asked
                    ELSE [asked EXCEPT !.answered = @ + 1, !.samples = Append(@, got.ms)]
          /\ probe' = [probe EXCEPT !.ms = 0, !.slower = ms >= probe.ms]
          /\ hurt' = HurtBy(served, got, Latency(refs, served, ms))
  BY DEF AskLatency
<1>5. PICK got \in Delivered(Latency(refs, served, ms), NoLatency) :
          /\ out' = IF ~LatencyIsPlausible(got, probe.head, probe.ms) THEN asked
                    ELSE [asked EXCEPT !.answered = @ + 1, !.samples = Append(@, got.ms)]
          /\ probe' = [probe EXCEPT !.ms = 0, !.slower = ms >= probe.ms]
          /\ hurt' = HurtBy(served, got, Latency(refs, served, ms))
  BY <1>4
<1> DEFINE plausible == LatencyIsPlausible(got, probe.head, probe.ms)
<1>6. plausible => got.ms = ms
  BY DeliveredIs DEF LatencyIsPlausible, Latency, NoLatency
<1>7. /\ asked \in Outcome /\ asked.sent = out.sent + 1 /\ asked.answered = out.answered
      /\ asked.requested = out.requested /\ asked.proven = out.proven /\ asked.did = out.did
      /\ asked.samples = <<>> /\ asked.probed = 0 /\ asked.seen = 0
  <2>1. asked \in Outcome
    <3>1. out.sent + 1 \in 0 .. 5
      BY <1>3
    <3> QED
      BY <1>2, <1>3, <3>1, OutcomeUpdates, Zenon
  <2> QED
    BY <1>2, <1>3, <2>1 DEF Outcome
<1> DEFINE credited == [asked EXCEPT !.answered = @ + 1, !.samples = <<ms>>]
<1>8. IF plausible THEN out' = credited ELSE out' = asked
  <2> HIDE DEF asked, plausible
  <2>1. plausible => Append(asked.samples, got.ms) = <<ms>>
    BY <1>6, <1>7
  <2> QED
    BY <1>5, <2>1, Zenon DEF plausible
<1>9. /\ credited \in Outcome /\ credited.sent = out.sent + 1
      /\ credited.answered = out.answered + 1 /\ credited.did = out.did
      /\ credited.requested = out.requested /\ credited.proven = out.proven
      /\ credited.samples = <<ms>> /\ credited.probed = 0 /\ credited.seen = 0
  <2>1. asked.answered + 1 \in 0 .. 5
    BY <1>3, <1>7
  <2> HIDE DEF asked
  <2>2. credited \in Outcome
    BY <1>7, <2>1, OutcomeUpdates, Zenon
  <2> QED
    BY <1>7, <2>2 DEF Outcome
<1>10. /\ hurt' \subseteq {"miner", "validator"}
       /\ hurt' = {} => hurt = {} /\ served > 0 /\ got = Latency(refs, served, ms)
  BY <1>2, <1>5, HurtByNothing, Served
<1>11. /\ probe' \in [head : {"current", "behind", None}, ms : ValidatorMs \cup {0},
                      moved : BOOLEAN, slower : BOOLEAN]
       /\ probe'.head = probe.head /\ probe'.moved = probe.moved
       /\ probe'.slower <=> ms >= probe.ms
  <2> DEFINE slower == ms >= probe.ms
  <2>1. slower \in BOOLEAN
    OBVIOUS
  <2>2. probe' = [probe EXCEPT !.ms = 0, !.slower = slower]
    BY <1>5
  <2> HIDE DEF slower
  <2>3. /\ probe' \in [head : {"current", "behind", None}, ms : ValidatorMs \cup {0},
                       moved : BOOLEAN, slower : BOOLEAN]
        /\ probe'.head = probe.head /\ probe'.moved = probe.moved
        /\ probe'.slower = slower
    BY <1>2, <2>1, <2>2 DEF TypeOK
  <2> QED
    BY <2>3 DEF slower
<1>12. <<ms>> # <<>>
  OBVIOUS
<1> HIDE DEF asked, credited, plausible, refs
<1>13. TypeOK'
  BY <1>1, <1>2, <1>7, <1>8, <1>9, <1>10, <1>11 DEF TypeOK, Phases
<1>14. CountInv' /\ ToCome' /\ SilentInv'
  BY <1>1, <1>3, <1>7, <1>8, <1>9, DidsDiffer DEF CountInv, Sendable, ToCome, SilentInv, Outcome
<1>15. ExactSoFar'
  <2> SUFFICES ASSUME hurt' = {} PROVE ExactSoFar'
    BY DEF ExactSoFar
  <2>1. /\ node.up /\ exam.truth = Cid /\ out.sent = out.answered
        /\ out.requested = Cardinality(Cid) /\ out.proven = Cardinality(node.pins)
    BY <1>1, <1>10 DEF IInv, ExactSoFar
  <2>2. out'.sent - out'.answered = MissedLatency'
    <3>1. CASE plausible
      <4>1. out' = credited /\ out'.samples # <<>>
        BY <1>8, <1>9, <1>12, <3>1
      <4>2. MissedLatency' = 0
        BY <4>1 DEF MissedLatency
      <4>3. out'.sent = out.sent + 1 /\ out'.answered = out.sent + 1 /\ out.sent \in Int
        BY <1>3, <1>9, <2>1, <4>1
      <4> QED
        BY <4>2, <4>3
    <3>2. CASE ~plausible
      BY <1>1, <1>3, <1>7, <1>8, <2>1, <3>2 DEF MissedLatency
    <3> QED
      BY <3>1, <3>2
  <2>3. out'.requested = out.requested /\ out'.proven = out.proven /\ out'.did = out.did
    BY <1>7, <1>8, <1>9
  <2> QED
    BY <1>1, <1>3, <2>1, <2>2, <2>3 DEF ExactSoFar
<1>16. HonestProbeCounts'
  <2> SUFFICES ASSUME hurt' = {}, ~probe.moved, ms >= probe.ms,
                      {probe.head, node.refs} # {"current", "behind"}
               PROVE  out'.samples # <<>>
    BY <1>1, <1>11 DEF HonestProbeCounts
  <2>1. plausible
    BY <1>2, <1>10, HonestFetchIsPlausible, Served DEF plausible, refs
  <2> QED
    BY <1>8, <1>9, <1>12, <2>1
<1> QED
  BY <1>13, <1>14, <1>15, <1>16 DEF IInv

LEMMA SkipLatencyKeeps == ASSUME IInv, SkipLatency PROVE IInv'
<1>1. /\ phase = "latency" /\ ~exam.repos /\ phase' = "gossip"
      /\ UNCHANGED <<exam, out, cache, node, probe, vouched, hurt>>
  BY DEF SkipLatency
<1>2. TypeOK'
  BY <1>1 DEF IInv, TypeOK, Phases
<1>3. CountInv' /\ ToCome' /\ SilentInv'
  BY <1>1 DEF IInv, CountInv, Sendable, ToCome, SilentInv, TypeOK, Outcome
<1>4. out.sent - out.answered = 0 <=> out.sent = out.answered
  BY DEF IInv, TypeOK, Outcome
<1>5. ExactSoFar' /\ HonestProbeCounts'
  BY <1>1, <1>4 DEF IInv, ExactSoFar, MissedLatency, HonestProbeCounts
<1> QED
  BY <1>2, <1>3, <1>5 DEF IInv

\* The events that are asked for and reported.
LEMMA AskGossipKeeps == ASSUME IInv, AskGossip PROVE IInv'
<1>1. /\ phase = "gossip" /\ exam.ids # {} /\ phase' = "refs" /\ probe' = NoProbe
      /\ UNCHANGED <<exam, cache, node, vouched>>
  BY DEF AskGossip
<1>2. /\ TypeOK /\ out \in Outcome /\ node \in Node /\ exam.ids \subseteq Event
      /\ hurt \subseteq {"miner", "validator"}
  BY DEF IInv, TypeOK
<1>3. /\ out.sent <= 3 /\ out.answered <= out.sent /\ out.sent \in 0 .. 5 /\ out.answered \in 0 .. 5
      /\ out.probed = 0 /\ out.seen = 0 /\ out.proven <= out.requested /\ out.did = SigningDid
  BY <1>1, <1>2 DEF IInv, CountInv, Sendable, ToCome, SilentInv, Outcome
<1> DEFINE ids == Cardinality(exam.ids)
           asked == [out EXCEPT !.sent = @ + 1, !.probed = ids]
<1>4. PICK served \in Calls, peers \in Peers :
        \E got \in Delivered(Gossip(node, served, exam.ids, peers), NoGossip) \cup ForeignEvents :
          /\ out' = IF got.seen = None THEN asked
                    ELSE [asked EXCEPT !.answered = @ + 1,
                                       !.seen = VerifyGossip(exam.ids, got),
                                       !.peers = PeersOf(got)]
          /\ hurt' = HurtBy(served, got, Gossip(node, served, exam.ids, peers))
  BY DEF AskGossip
<1>5. PICK got \in Delivered(Gossip(node, served, exam.ids, peers), NoGossip) \cup ForeignEvents :
          /\ out' = IF got.seen = None THEN asked
                    ELSE [asked EXCEPT !.answered = @ + 1,
                                       !.seen = VerifyGossip(exam.ids, got),
                                       !.peers = PeersOf(got)]
          /\ hurt' = HurtBy(served, got, Gossip(node, served, exam.ids, peers))
  BY <1>4
<1> DEFINE seen == VerifyGossip(exam.ids, got)
<1>6. ids \in 0 .. Cardinality(Event)
  BY <1>2, Counts
<1>7. /\ asked \in Outcome /\ asked.sent = out.sent + 1 /\ asked.answered = out.answered
      /\ asked.requested = out.requested /\ asked.proven = out.proven /\ asked.did = out.did
      /\ asked.samples = out.samples /\ asked.probed = ids /\ asked.seen = 0
  <2>1. asked \in Outcome
    <3>1. out.sent + 1 \in 0 .. 5
      BY <1>3
    <3> QED
      BY <1>2, <1>3, <1>6, <3>1, OutcomeUpdates, Zenon
  <2> QED
    BY <1>2, <1>3, <2>1 DEF Outcome
<1>8. got.seen # None => seen \in Nat /\ PeersOf(got) \in Peers \cup {0}
  <2> SUFFICES ASSUME got.seen # None PROVE seen \in Nat /\ PeersOf(got) \in Peers \cup {0}
    OBVIOUS
  <2>1. CASE got \in ForeignEvents
    BY <2>1, ForeignVerdict DEF PeersOf
  <2>2. CASE got \notin ForeignEvents
    <3>1. got = Gossip(node, served, exam.ids, peers) \/ got = NoGossip
      BY <1>5, <2>2, DeliveredIs
    <3> DEFINE reported == IF served > 1 THEN peers ELSE None
    <3>2. got = [seen |-> SetToSeq(exam.ids \cap node.events), peers |-> reported]
      BY <3>1 DEF Gossip, NoGossip
    <3>3. got.peers \in Peers \cup {None}
      BY <3>2
    <3>4. seen = Cardinality(exam.ids \cap node.events)
      <4> HIDE DEF reported
      <4>1. VerifyGossip(exam.ids,
              [seen |-> SetToSeq(exam.ids \cap node.events), peers |-> reported])
              = Cardinality(exam.ids \cap node.events)
        BY <1>2, GossipVerdict
      <4> QED
        BY <3>2, <4>1, Zenon
    <3>5. Cardinality(exam.ids \cap node.events) \in Nat
      BY <1>2, Counts
    <3> QED
      BY <3>3, <3>4, <3>5 DEF PeersOf
  <2> QED
    BY <2>1, <2>2
<1>9. ASSUME served > 0, got = Gossip(node, served, exam.ids, peers)
      PROVE  got.seen # None /\ seen = Cardinality(exam.ids \cap node.events)
  <2> DEFINE reported == IF served > 1 THEN peers ELSE None
  <2>1. got = [seen |-> SetToSeq(exam.ids \cap node.events), peers |-> reported]
    BY <1>9 DEF Gossip
  <2>2. SetToSeq(exam.ids \cap node.events) # None
    BY <1>2, NoneIsNoAnswer
  <2>3. VerifyGossip(exam.ids,
          [seen |-> SetToSeq(exam.ids \cap node.events), peers |-> reported])
          = Cardinality(exam.ids \cap node.events)
    <3> HIDE DEF reported
    <3> QED
      BY <1>2, GossipVerdict
  <2>4. got.seen # None
    BY <2>1, <2>2
  <2> HIDE DEF reported
  <2>5. seen = Cardinality(exam.ids \cap node.events)
    BY <2>1, <2>3, Zenon
  <2> QED
    BY <2>4, <2>5
<1> DEFINE credited == [asked EXCEPT !.answered = @ + 1, !.seen = seen, !.peers = PeersOf(got)]
<1>11. IF got.seen = None THEN out' = asked ELSE out' = credited
  BY <1>5, Zenon
<1>12. got.seen # None =>
         /\ credited \in Outcome /\ credited.sent = out.sent + 1
         /\ credited.answered = out.answered + 1 /\ credited.did = out.did
         /\ credited.requested = out.requested /\ credited.proven = out.proven
         /\ credited.samples = out.samples /\ credited.probed = ids /\ credited.seen = seen
  <2> SUFFICES ASSUME got.seen # None PROVE
         /\ credited \in Outcome /\ credited.sent = out.sent + 1
         /\ credited.answered = out.answered + 1 /\ credited.did = out.did
         /\ credited.requested = out.requested /\ credited.proven = out.proven
         /\ credited.samples = out.samples /\ credited.probed = ids /\ credited.seen = seen
    OBVIOUS
  <2> HIDE DEF asked, seen, ids
  <2>1. asked.answered + 1 \in 0 .. 5
    BY <1>3, <1>7
  <2>2. credited \in Outcome
    <3> DEFINE number == PeersOf(got)
               more == asked.answered + 1
    <3>1. number \in Peers \cup {0} /\ more \in 0 .. 5
      BY <1>8, <2>1
    <3> HIDE DEF number, more
    <3>2. \A n \in Nat : \A p \in Peers \cup {0} :
            [asked EXCEPT !.answered = more, !.seen = n, !.peers = p] \in Outcome
      <4>1. asked \in Outcome
        BY <1>7
      <4> QED
        BY <3>1, <4>1, OutcomeUpdates
    <3>3. [asked EXCEPT !.answered = more, !.seen = seen, !.peers = number] \in Outcome
      BY <1>8, <3>1, <3>2, Zenon
    <3> QED
      BY <3>3, Zenon DEF number, more
  <2> QED
    BY <1>7, <2>2 DEF Outcome
<1>13. /\ hurt' \subseteq {"miner", "validator"}
       /\ hurt' = {} => /\ hurt = {} /\ got.seen # None
                        /\ seen = Cardinality(exam.ids \cap node.events)
  <2>1. /\ hurt' \subseteq {"miner", "validator"}
        /\ hurt' = {} => hurt = {} /\ served > 0 /\ got = Gossip(node, served, exam.ids, peers)
    BY <1>2, <1>5, HurtByNothing, Served
  <2> HIDE DEF seen
  <2> QED
    BY <1>9, <2>1
<1> HIDE DEF asked, credited, ids, seen
<1>14. TypeOK'
  BY <1>1, <1>2, <1>7, <1>11, <1>12, <1>13 DEF TypeOK, Phases, NoProbe
<1>15. CountInv' /\ ToCome' /\ SilentInv'
  <2>1. /\ out'.sent = out.sent + 1 /\ out'.answered \in {out.answered, out.answered + 1}
        /\ out'.proven = out.proven /\ out'.requested = out.requested /\ out'.did = SigningDid
    BY <1>3, <1>7, <1>11, <1>12
  <2> QED
    BY <1>1, <1>3, <2>1 DEF CountInv, Sendable, ToCome, SilentInv
<1>16. ExactSoFar'
  <2> SUFFICES ASSUME hurt' = {} PROVE ExactSoFar'
    BY DEF ExactSoFar
  <2>1. /\ node.up /\ exam.truth = Cid /\ out.sent - out.answered = MissedLatency
        /\ out.requested = Cardinality(Cid) /\ out.proven = Cardinality(node.pins)
    BY <1>1, <1>13 DEF IInv, ExactSoFar
  <2>2. /\ out'.samples = out.samples /\ out'.sent = out.sent + 1 /\ out'.answered = out.answered + 1
        /\ out'.requested = out.requested /\ out'.proven = out.proven /\ out'.did = SigningDid
        /\ out'.seen = Cardinality(exam.ids \cap node.events)
    BY <1>3, <1>11, <1>12, <1>13
  <2>3. MissedLatency' = MissedLatency
    BY <1>1, <2>2 DEF MissedLatency
  <2>4. out'.sent - out'.answered = MissedLatency'
    BY <1>3, <2>1, <2>2, <2>3
  <2> QED
    BY <1>1, <2>1, <2>2, <2>4 DEF ExactSoFar
<1>17. HonestProbeCounts'
  BY <1>1 DEF HonestProbeCounts
<1> QED
  BY <1>14, <1>15, <1>16, <1>17 DEF IInv

LEMMA SkipGossipKeeps == ASSUME IInv, SkipGossip PROVE IInv'
<1>1. /\ phase = "gossip" /\ exam.ids = {} /\ phase' = "refs" /\ probe' = NoProbe
      /\ UNCHANGED <<exam, out, cache, node, vouched, hurt>>
  BY DEF SkipGossip
<1>2. TypeOK'
  BY <1>1 DEF IInv, TypeOK, Phases, NoProbe
<1>3. CountInv' /\ ToCome' /\ SilentInv'
  BY <1>1 DEF IInv, CountInv, Sendable, ToCome, SilentInv, TypeOK, Outcome
<1>4. exam.ids \cap node.events = {}
  BY <1>1
<1>5. Cardinality(exam.ids \cap node.events) = 0
  BY <1>4, Counts
<1>6. ExactSoFar' /\ HonestProbeCounts'
  BY <1>1, <1>5 DEF IInv, ToCome, ExactSoFar, MissedLatency, HonestProbeCounts
<1> QED
  BY <1>2, <1>3, <1>6 DEF IInv

\* The certificate of the repository.
LEMMA AskRefsKeeps == ASSUME IInv, AskRefs PROVE IInv'
<1>1. /\ phase = "refs" /\ exam.repos /\ phase' = "done"
      /\ UNCHANGED <<exam, cache, node, probe, vouched>>
  BY DEF AskRefs
<1>2. /\ TypeOK /\ out \in Outcome /\ node \in Node /\ node.certified \in BOOLEAN
      /\ hurt \subseteq {"miner", "validator"}
  BY DEF IInv, TypeOK, Node
<1>3. /\ out.sent <= 4 /\ out.answered <= out.sent /\ out.sent \in 0 .. 5 /\ out.answered \in 0 .. 5
      /\ out.proven <= out.requested /\ out.did = SigningDid
  BY <1>1, <1>2 DEF IInv, CountInv, Sendable, SilentInv, Outcome
<1>4. PICK served \in Calls :
        \E got \in Delivered(RefIntegrity(node, served), NoRefs) :
          /\ out' = [out EXCEPT !.sent = @ + 1,
                       !.answered = IF got.certified = TRUE THEN @ + 1 ELSE @]
          /\ hurt' = HurtBy(served, got, RefIntegrity(node, served))
  BY DEF AskRefs
<1>5. PICK got \in Delivered(RefIntegrity(node, served), NoRefs) :
          /\ out' = [out EXCEPT !.sent = @ + 1,
                       !.answered = IF got.certified = TRUE THEN @ + 1 ELSE @]
          /\ hurt' = HurtBy(served, got, RefIntegrity(node, served))
  BY <1>4
<1> DEFINE answered == IF got.certified = TRUE THEN out.answered + 1 ELSE out.answered
<1>6. answered \in 0 .. 5 /\ answered <= out.sent + 1 /\ out.sent + 1 \in 0 .. 5
  BY <1>3
<1>7. out' = [out EXCEPT !.sent = out.sent + 1, !.answered = answered]
  BY <1>5
<1> HIDE DEF answered
<1>8. /\ out' \in Outcome /\ out'.sent = out.sent + 1 /\ out'.answered = answered
      /\ out'.requested = out.requested /\ out'.proven = out.proven /\ out'.did = out.did
      /\ out'.samples = out.samples /\ out'.probed = out.probed /\ out'.seen = out.seen
  <2>1. out' \in Outcome
    BY <1>2, <1>6, <1>7, OutcomeUpdates, Zenon
  <2> QED
    BY <1>2, <1>7, <2>1 DEF Outcome
<1>9. /\ hurt' \subseteq {"miner", "validator"}
      /\ hurt' = {} => hurt = {} /\ served > 0 /\ got = RefIntegrity(node, served)
  BY <1>2, <1>5, HurtByNothing, Served
<1>10. TypeOK'
  BY <1>1, <1>2, <1>8, <1>9 DEF TypeOK, Phases
<1>11. CountInv' /\ ToCome' /\ SilentInv'
  BY <1>1, <1>3, <1>6, <1>8, DidsDiffer DEF CountInv, Sendable, ToCome, SilentInv
<1>12. ExactSoFar'
  <2> SUFFICES ASSUME hurt' = {} PROVE ExactSoFar'
    BY DEF ExactSoFar
  <2>1. /\ node.up /\ exam.truth = Cid /\ out.sent - out.answered = MissedLatency
        /\ out.requested = Cardinality(Cid) /\ out.proven = Cardinality(node.pins)
        /\ out.seen = Cardinality(exam.ids \cap node.events)
    BY <1>1, <1>9 DEF IInv, ExactSoFar
  <2>2. got.certified = node.certified
    BY <1>9 DEF RefIntegrity
  <2>3. MissedLatency' = MissedLatency /\ MissedRefs' = MissedRefs
    BY <1>1, <1>8 DEF MissedLatency, MissedRefs
  <2>4. MissedLatency \in Int
    BY DEF MissedLatency
  <2>5. out'.sent - out'.answered = MissedLatency + MissedRefs
    <3>1. CASE node.certified
      <4>1. answered = out.answered + 1
        BY <1>2, <2>2, <3>1 DEF answered
      <4>2. MissedRefs = 0
        BY <3>1 DEF MissedRefs
      <4> QED
        BY <1>3, <1>8, <2>1, <2>4, <4>1, <4>2
    <3>2. CASE ~node.certified
      <4>1. answered = out.answered
        BY <1>2, <2>2, <3>2 DEF answered
      <4>2. MissedRefs = 1
        BY <1>1, <3>2 DEF MissedRefs
      <4> QED
        BY <1>3, <1>8, <2>1, <2>4, <4>1, <4>2
    <3> QED
      BY <3>1, <3>2
  <2> QED
    BY <1>1, <1>3, <1>8, <2>1, <2>3, <2>5 DEF ExactSoFar
<1>13. HonestProbeCounts'
  BY <1>1 DEF HonestProbeCounts
<1> QED
  BY <1>10, <1>11, <1>12, <1>13 DEF IInv

LEMMA SkipRefsKeeps == ASSUME IInv, SkipRefs PROVE IInv'
<1>1. /\ phase = "refs" /\ ~exam.repos /\ phase' = "done"
      /\ UNCHANGED <<exam, out, cache, node, probe, vouched, hurt>>
  BY DEF SkipRefs
<1>2. TypeOK'
  BY <1>1 DEF IInv, TypeOK, Phases
<1>3. CountInv' /\ ToCome' /\ SilentInv'
  BY <1>1, DidsDiffer DEF IInv, CountInv, Sendable, ToCome, SilentInv, TypeOK, Outcome
<1>4. MissedRefs = 0 /\ MissedLatency \in Int
  BY <1>1 DEF MissedRefs, MissedLatency
<1>5. ExactSoFar'
  <2>1. MissedLatency' = MissedLatency /\ MissedRefs' = MissedRefs
    BY <1>1 DEF MissedLatency, MissedRefs
  <2> QED
    BY <1>1, <1>4, <2>1 DEF IInv, ExactSoFar
<1>6. HonestProbeCounts'
  BY <1>1 DEF HonestProbeCounts
<1> QED
  BY <1>2, <1>3, <1>5, <1>6 DEF IInv

-----------------------------------------------------------------------------
(***************************************************************************)
(* Scores.                                                                 *)
(***************************************************************************)

\* A quotient is bounded by the factor that bounds the dividend.
LEMMA QuotientBound ==
  ASSUME NEW x \in Nat, NEW d \in Nat \ {0}, NEW m \in Nat, x <= d * m
  PROVE  x \div d \in 0 .. m
<1> DEFINE q == x \div d
<1>1. q \in Nat /\ x % d \in 0 .. d - 1 /\ x = d * q + (x % d)
  OBVIOUS
<1>2. SUFFICES ASSUME q >= m + 1 PROVE FALSE
  BY <1>1
<1>3. d * q >= d * (m + 1)
  BY <1>1, <1>2
<1>4. d * (m + 1) = d * m + d
  OBVIOUS
<1> QED
  BY <1>1, <1>3, <1>4

\* What is listed more often than it was asked for still gives a number.
LEMMA ShareIsANumber ==
  ASSUME NEW all \in Nat \ {0}, NEW part \in Nat PROVE Share(part, all) \in Nat
<1>1. Whole * part \in Nat /\ Whole * part <= all * (Whole * part)
  <2>1. Whole * part \in Nat
    BY DEF Whole
  <2> DEFINE x == Whole * part
  <2> HIDE DEF x
  <2>2. x \in Nat => x <= all * x
    OBVIOUS
  <2> QED
    BY <2>1, <2>2 DEF x
<1>2. (Whole * part) \div all \in 0 .. Whole * part
  BY <1>1, QuotientBound
<1> QED
  BY <1>1, <1>2 DEF Share

\* A share of what was asked is between none and all of it.
LEMMA ShareIsAScore ==
  ASSUME NEW all \in Nat \ {0}, NEW part \in 0 .. all
  PROVE  Share(part, all) \in 0 .. Whole /\ (part = 0 => Share(part, all) = 0)
<1>1. Whole * part \in Nat /\ Whole * part <= all * Whole
  BY DEF Whole
<1>2. (Whole * part) \div all \in 0 .. Whole
  BY <1>1, QuotientBound DEF Whole
<1>3. part = 0 => (Whole * part) \div all \in 0 .. 0
  <2> SUFFICES ASSUME part = 0 PROVE (Whole * part) \div all \in 0 .. 0
    OBVIOUS
  <2>1. Whole * part = 0 /\ all * 0 = 0
    BY DEF Whole
  <2> QED
    BY <2>1, QuotientBound
<1> QED
  BY <1>2, <1>3 DEF Share

\* Each component of a countable outcome is a score, repeated ids and the peer
\* bonus included.
LEMMA ComponentsAreScores ==
  ASSUME NEW o \in Outcome, o.answered <= o.sent, o.proven <= o.requested
  PROVE  /\ UptimeScore(o) \in 0 .. Whole /\ StorageScore(o) \in 0 .. Whole
         /\ LatencyScore(o) \in 0 .. Whole /\ GossipScore(o) \in 0 .. Whole
<1>1. /\ o.sent \in Nat /\ o.answered \in 0 .. o.sent
      /\ o.requested \in Nat /\ o.proven \in 0 .. o.requested
      /\ o.probed \in Nat /\ o.seen \in Nat
  BY Counts DEF Outcome
<1>2. UptimeScore(o) \in 0 .. Whole
  <2>1. o.sent # 0 => Share(o.answered, o.sent) \in 0 .. Whole
    BY <1>1, ShareIsAScore
  <2> QED
    BY <2>1 DEF UptimeScore, Whole
<1>3. StorageScore(o) \in 0 .. Whole
  <2>1. o.requested # 0 => Share(o.proven, o.requested) \in 0 .. Whole
    BY <1>1, ShareIsAScore
  <2> QED
    BY <2>1 DEF StorageScore, Neutral, Whole
<1>4. LatencyScore(o) \in 0 .. Whole
  <2>1. CASE o.samples = <<>>
    BY <2>1 DEF LatencyScore, Neutral, Whole
  <2>2. CASE o.samples # <<>>
    <3>1. PICK ms \in FetchMs : o.samples = <<ms>>
      BY <2>2 DEF Outcome
    <3>2. o.samples[1] = ms /\ ms \in Nat
      BY <3>1, TimesArePositive
    <3> QED
      BY <2>2, <3>2 DEF LatencyScore, Whole, TargetMs, MaxMs
  <2> QED
    BY <2>1, <2>2
<1>5. GossipScore(o) \in 0 .. Whole
  <2>1. CASE o.probed = 0
    BY <2>1 DEF GossipScore, Neutral, Whole
  <2>2. CASE o.probed # 0
    <3>1. Share(o.seen, o.probed) \in Nat
      BY <1>1, <2>2, ShareIsANumber
    <3>2. o.peers \in Nat
      <4>1. o.peers \in Peers \cup {0}
        BY DEF Outcome
      <4>2. \A n \in Peers \cup {0} : n \in Nat
        BY TimesArePositive
      <4> QED
        BY <4>1, <4>2
    <3>3. PeerBonus(o) \in Int
      BY <3>2 DEF PeerBonus, AtMost, AtLeast, Whole
    <3> DEFINE share == Share(o.seen, o.probed)
               bonus == PeerBonus(o)
    <3>4. GossipScore(o) = AtLeast(0, AtMost(Whole, share + bonus))
      BY <2>2 DEF GossipScore
    <3> HIDE DEF share, bonus
    <3>5. Whole = 900
      BY DEF Whole
    <3>6. share + bonus \in Int
      BY <3>1, <3>3, <3>5 DEF share, bonus
    <3> QED
      BY <3>4, <3>5, <3>6 DEF AtMost, AtLeast
  <2> QED
    BY <2>1, <2>2
<1> QED
  BY <1>2, <1>3, <1>4, <1>5

\* The weights add up to the whole.
LEMMA WeightsAddUp ==
  ASSUME NEW u \in 0 .. Whole, NEW s \in 0 .. Whole, NEW l \in 0 .. Whole, NEW g \in 0 .. Whole
  PROVE  35 * u + 25 * s + 20 * l + 20 * g \in Composite
<1>1. Whole \in Nat
  BY DEF Whole
<1> DEFINE total == 35 * u + 25 * s + 20 * l + 20 * g
<1>2. total \in Int /\ total >= 0 /\ total <= 100 * Whole
  BY <1>1
<1> HIDE DEF total
<1>3. total \in 0 .. 100 * Whole
  BY <1>1, <1>2
<1> QED
  BY <1>3 DEF total, Composite

LEMMA CompositeFits ==
  ASSUME NEW o \in Outcome, o.answered <= o.sent, o.proven <= o.requested
  PROVE  CompositeScore(o) \in Composite
BY ComponentsAreScores, WeightsAddUp DEF CompositeScore

\* Of a miner of which nothing is known, the score is that of silence.
LEMMA SilenceIsNeutral ==
  ASSUME NEW o \in Outcome, o.answered = 0, o.requested = 0,
         o.samples = <<>>, o.probed = 0
  PROVE  CompositeScore(o) = 65 * Neutral
<1>1. UptimeScore(o) = 0
  <2>1. o.sent \in Nat
    BY DEF Outcome
  <2> QED
    BY <2>1, ShareIsAScore DEF UptimeScore
<1>2. StorageScore(o) = Neutral /\ LatencyScore(o) = Neutral /\ GossipScore(o) = Neutral
  BY DEF StorageScore, LatencyScore, GossipScore
<1> QED
  BY <1>1, <1>2 DEF CompositeScore, Neutral, Whole

-----------------------------------------------------------------------------
(***************************************************************************)
(* The theorems.                                                           *)
(***************************************************************************)

LEMMA StepKeepsIInv == ASSUME IInv, [Next]_vars PROVE IInv'
<1>1. CASE Miner
  BY <1>1, NodeStopsKeeps, NodeStartsKeeps, MinerRestartsKeeps, PushKeeps DEF Miner
<1>2. CASE Round
  BY <1>2, BeginRoundKeeps, ShakeHandsKeeps, AskStorageKeeps, SkipStorageKeeps,
     TimeHeadKeeps, AskLatencyKeeps, SkipLatencyKeeps, AskGossipKeeps,
     SkipGossipKeeps, AskRefsKeeps, SkipRefsKeeps, RoundRaisesKeeps, EndRoundKeeps
     DEF Round
<1>3. CASE UNCHANGED vars
  BY <1>3, Stutter
<1> QED
  BY <1>1, <1>2, <1>3 DEF Next

LEMMA AlwaysIInv == Spec => []IInv
BY InitIInv, StepKeepsIInv, PTL DEF Spec

\* Every variable keeps its type: what _challenge_one_miner() counts stays
\* within the corpus and the events of the round, whatever fails.
THEOREM RoundTypeCorrect == Spec => []TypeOK
<1>1. IInv => TypeOK
  BY DEF IInv
<1> QED
  BY <1>1, AlwaysIInv, PTL

\* However calls fail, answers are lost and trusted nodes lack blocks, and
\* whatever lists a miner answers with, no more blocks are credited than were
\* asked for, and score() gives a number of [0, 1]: an id that is listed again
\* counts again in verify_gossip(), and the bounds of the gossip component keep
\* it from giving more than the whole.
THEOREM CountsAlwaysFit == Spec => []CountsFit
<1>1. IInv => CountsFit
  BY CompositeFits DEF IInv, TypeOK, CountInv, CountsFit
<1> QED
  BY <1>1, AlwaysIInv, PTL

\* A round without a proved DID is worth what silence is worth: a failed
\* handshake ends it, and an exception discards what was credited before.
THEOREM SilenceIsAlwaysNeutral == Spec => []SilentIsNeutral
<1>1. IInv => SilentIsNeutral
  BY SilenceIsNeutral DEF IInv, TypeOK, SilentInv, SilentIsNeutral
<1> QED
  BY <1>1, AlwaysIInv, PTL

\* The challenges that an undisturbed round leaves unanswered are counted by
\* the two reasons there are.
LEMMA MissedAreCounted ==
  ASSUME TypeOK
  PROVE  Cardinality({c \in {"latency", "refs"} :
           exam.repos /\ IF c = "latency" THEN out.samples = <<>> ELSE ~node.certified})
           = MissedLatency + MissedRefs
<1> DEFINE late == exam.repos /\ out.samples = <<>>
           bare == exam.repos /\ ~node.certified
           missed == {c \in {"latency", "refs"} :
             exam.repos /\ IF c = "latency" THEN out.samples = <<>> ELSE ~node.certified}
<1>1. /\ "latency" \in missed <=> late
      /\ "refs" \in missed <=> bare
      /\ missed \subseteq {"latency", "refs"}
  OBVIOUS
<1>2. /\ Cardinality({}) = 0 /\ Cardinality({"latency"}) = 1
      /\ Cardinality({"refs"}) = 1 /\ Cardinality({"latency", "refs"}) = 2
  <2>1. Cardinality({}) = 0 /\ IsFiniteSet({"latency"})
        /\ Cardinality({"latency"}) = 1 /\ Cardinality({"refs"}) = 1
    BY FS_EmptySet, FS_Singleton
  <2>2. {"latency", "refs"} = {"latency"} \cup {"refs"} /\ "refs" \notin {"latency"}
    OBVIOUS
  <2>3. Cardinality({"latency"} \cup {"refs"}) = Cardinality({"latency"}) + 1
    BY <2>1, <2>2, FS_AddElement
  <2> QED
    BY <2>1, <2>2, <2>3
<1>3. /\ late => MissedLatency = 1
      /\ ~late => MissedLatency = 0
      /\ bare => MissedRefs = 1
      /\ ~bare => MissedRefs = 0
  BY DEF MissedLatency, MissedRefs
<1> HIDE DEF missed, late, bare
<1>4. ASSUME late /\ bare PROVE Cardinality(missed) = MissedLatency + MissedRefs
  <2>1. missed = {"latency", "refs"}
    BY <1>1, <1>4
  <2> QED
    <3>1. Cardinality(missed) = 2
      BY <1>2, <2>1, Zenon
    <3> QED
      BY <1>3, <1>4, <3>1
<1>5. ASSUME late /\ ~bare PROVE Cardinality(missed) = MissedLatency + MissedRefs
  <2>1. missed = {"latency"}
    BY <1>1, <1>5
  <2> QED
    <3>1. Cardinality(missed) = 1
      BY <1>2, <2>1, Zenon
    <3> QED
      BY <1>3, <1>5, <3>1
<1>6. ASSUME ~late /\ bare PROVE Cardinality(missed) = MissedLatency + MissedRefs
  <2>1. missed = {"refs"}
    BY <1>1, <1>6
  <2> QED
    <3>1. Cardinality(missed) = 1
      BY <1>2, <2>1, Zenon
    <3> QED
      BY <1>3, <1>6, <3>1
<1>7. ASSUME ~late /\ ~bare PROVE Cardinality(missed) = MissedLatency + MissedRefs
  <2>1. missed = {}
    BY <1>1, <1>7
  <2> QED
    <3>1. Cardinality(missed) = 0
      BY <1>2, <2>1, Zenon
    <3> QED
      BY <1>3, <1>7, <3>1
<1>8. Cardinality(missed) = MissedLatency + MissedRefs
  BY <1>4, <1>5, <1>6, <1>7
<1> QED
  BY <1>8 DEF missed

\* In a round in which nothing failed the miner is credited with exactly what
\* its node holds, for any corpus and any events.
THEOREM UndisturbedRoundIsAlwaysExact == Spec => []UndisturbedRoundIsExact
<1>1. IInv => UndisturbedRoundIsExact
  <2> SUFFICES ASSUME IInv, phase = "done", hurt = {} PROVE UndisturbedRoundIsExact
    BY DEF UndisturbedRoundIsExact
  <2>1. /\ out.did = SigningDid
        /\ out.requested = Cardinality(Cid) /\ out.proven = Cardinality(node.pins)
        /\ out.seen = Cardinality(exam.ids \cap node.events)
        /\ out.sent - out.answered = MissedLatency + MissedRefs
    BY DEF IInv, ExactSoFar
  <2>2. TypeOK
    BY DEF IInv
  <2> QED
    BY <2>1, <2>2, MissedAreCounted, Zenon DEF UndisturbedRoundIsExact
<1> QED
  BY <1>1, AlwaysIInv, PTL

\* An honest miner that is not faster than the validator passes the latency
\* challenge, unless a push falls between the two fetches or one of the nodes
\* they were read from is behind the other.
THEOREM HonestProbesAlwaysCount == Spec => []HonestProbeCounts
<1>1. IInv => HonestProbeCounts
  BY DEF IInv
<1> QED
  BY <1>1, AlwaysIInv, PTL
=============================================================================
