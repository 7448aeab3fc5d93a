--------------------------- MODULE ChallengeRound ---------------------------
(***************************************************************************)
(* Rounds of challenges between the validator and one miner:               *)
(* _challenge_one_miner() of gitlawbnet/validator/forward.py with the      *)
(* verifiers of challenges.py on one side, the miner's handlers and its    *)
(* gitlawb-node on the other.                                              *)
(*                                                                         *)
(* forward() prepares the exam of a round, the blocks and the events that  *)
(* its trusted nodes served.  The five challenges follow in order, each    *)
(* one action: request, handler, answer and verdict.  Between two of them  *)
(* the miner's node may go down and come back, the miner's process may     *)
(* restart; between the two fetches of the latency challenge somebody may  *)
(* push.  Otherwise what the node holds is fixed.                          *)
(*                                                                         *)
(* A definition named in parentheses in a comment is a slip that the code  *)
(* does not make; no specification uses it.                                *)
(*                                                                         *)
(* What the miner answers is what its handlers compute.  An answer that is *)
(* late, or refused by the axon, leaves the synapse as the validator sent  *)
(* it, although the handler may have run.  To the two challenges whose     *)
(* verdict is a count, a miner that runs another program may answer any    *)
(* list ("foreign").                                                       *)
(***************************************************************************)
EXTENDS MinerHandlers, Scoring

CONSTANTS
  FetchMs,      \* what a fetch from the miner's node may take
  ValidatorMs,  \* what the validator's own fetch may take
  Peers,        \* peer counts of the miner's node
  NodeDids,     \* identities the node may have
  MaxListed,    \* bound: entries of a foreign list of events
  MayFail       \* which of the failures below may happen

ASSUME TimesArePositive ==
  FetchMs \subseteq Nat \ {0} /\ ValidatorMs \subseteq Nat \ {0} /\ Peers \subseteq Nat
ASSUME BoundIsNatural == MaxListed \in Nat
ASSUME NodeDidsAreDids == NodeDids \subseteq {SigningDid, OtherDid}
ASSUME FailuresAreKnown ==
  MayFail \subseteq {"node",     \* the node goes down and comes back
                     "call",     \* a single call to it fails
                     "answer",   \* an answer does not reach the validator
                     "miner",    \* the miner process restarts
                     "foreign",  \* the miner is another program
                     "trusted",  \* the validator's trusted nodes fail
                     "lagging",  \* one that answers is behind the repository
                     "push",     \* the repository's head moves
                     "parse"}    \* a trusted node returns something not JSON

VARIABLES
  phase,    \* the challenge that is next
  exam,     \* truth: the blocks the validator has; ids: the events it asks
            \* for; repos: the corpus has a repository
  out,      \* the ChallengeOutcome
  cache,    \* the caches of the miner's Handlers
  node,     \* the miner's gitlawb-node
  probe,    \* the latency challenge: the head and the time of the validator's
            \* own fetch; moved: the head has moved on since; slower: the
            \* miner's fetch was not the faster one (history)
  vouched,  \* the DID the node itself gave for this round's handshake (history)
  hurt      \* which side failed during this round (history)

vars == <<phase, exam, out, cache, node, probe, vouched, hurt>>

Phases == {"idle", "handshake", "storage", "latency", "compare", "gossip",
           "refs", "done"}

Outcome == [sent : 0 .. 5, answered : 0 .. 5,
            requested : 0 .. Cardinality(Cid), proven : 0 .. Cardinality(Cid),
            samples : {<<>>} \cup {<<ms>> : ms \in FetchMs},
            probed : 0 .. Cardinality(Event), seen : Nat,
            peers : Peers \cup {0}, did : {None, SigningDid}]

\* ChallengeOutcome(): nothing sent, nothing answered.
Blank == [sent |-> 0, answered |-> 0, requested |-> 0, proven |-> 0,
          samples |-> <<>>, probed |-> 0, seen |-> 0, peers |-> 0, did |-> None]

NoProbe == [head |-> None, ms |-> 0, moved |-> FALSE, slower |-> FALSE]

NoExam == [truth |-> {}, ids |-> {}, repos |-> FALSE]

TypeOK ==
  /\ phase \in Phases
  /\ exam \in [truth : SUBSET Cid, ids : SUBSET Event, repos : BOOLEAN]
  /\ out \in Outcome
  /\ cache \in Cache /\ node \in Node
  /\ probe \in [head : {"current", "behind", None}, ms : ValidatorMs \cup {0},
                moved : BOOLEAN, slower : BOOLEAN]
  /\ vouched \in {None, SigningDid, OtherDid}
  /\ hurt \subseteq {"miner", "validator"}

Init ==
  /\ phase = "idle" /\ exam = NoExam /\ out = Blank
  /\ cache = NoCache
  /\ node \in {n \in Node : n.up /\ n.did \in NodeDids}
  /\ probe = NoProbe /\ vouched = None /\ hurt = {}

-----------------------------------------------------------------------------
(***************************************************************************)
(* The miner's side changes.                                               *)
(***************************************************************************)

NodeStops ==
  /\ "node" \in MayFail /\ node.up
  /\ node' = [node EXCEPT !.up = FALSE]
  /\ hurt' = hurt \cup {"miner"}
  /\ UNCHANGED <<phase, exam, out, cache, probe, vouched>>

\* The node comes back, perhaps with another identity.
NodeStarts ==
  /\ ~node.up
  /\ \E did \in NodeDids : node' = [node EXCEPT !.up = TRUE, !.did = did]
  /\ UNCHANGED <<phase, exam, out, cache, probe, vouched, hurt>>

MinerRestarts ==
  /\ "miner" \in MayFail
  /\ cache' = NoCache
  /\ hurt' = hurt \cup {"miner"}
  /\ UNCHANGED <<phase, exam, out, node, probe, vouched>>

-----------------------------------------------------------------------------
(***************************************************************************)
(* Verifiers.                                                              *)
(***************************************************************************)

VerifyHandshake(answer) == answer.did # None /\ answer.signer = answer.did

\* Blocks the validator has and the miner hashed; none at all when there are
\* not as many digests as CIDs.
\* (VerifyEvery: blocks the validator has not count as well.)
VerifyEvery(answer, truth) ==
  Cardinality({c \in DOMAIN answer.digests : answer.digests[c] = "block"})
VerifyStorage(answer, truth) ==
  IF DOMAIN answer.digests # Cid THEN 0
  ELSE Cardinality({c \in truth : answer.digests[c] = "block"})

\* Not faster than three quarters of the validator's own fetch, and the
\* trusted head where both sides have one.
\* (PlausibleByHead: a repository without refs is a head like any other.)
PlausibleByHead(answer, expected, validatorMs) ==
  /\ answer.ms # None
  /\ expected # None => answer.head = expected
  /\ 4 * answer.ms >= 3 * validatorMs
LatencyIsPlausible(answer, expected, validatorMs) ==
  /\ answer.ms # None
  /\ expected # None => answer.head \in {expected, "none"}
  /\ 4 * answer.ms >= 3 * validatorMs

\* The entries of the answer's list that were asked for, one by one: an id
\* that is listed twice counts twice.
VerifyGossip(ids, answer) ==
  Cardinality({i \in DOMAIN answer.seen : answer.seen[i] \in ids})

\* peer_count or 0.  (PeersRaw: a count that is not set is taken as it is.)
PeersRaw(answer) == answer.peers
PeersOf(answer)  == IF answer.peers = None THEN 0 ELSE answer.peers

-----------------------------------------------------------------------------
(***************************************************************************)
(* The round.                                                              *)
(***************************************************************************)

\* What the validator gets for an answer.
Delivered(answer, nothing) ==
  IF "answer" \in MayFail THEN {answer, nothing} ELSE {answer}

\* Lists that another program may answer with: digests of as many blocks as
\* it likes (none at all is no answer), events it was not asked for, or the
\* same ones again.
ForeignDigests ==
  IF "foreign" \in MayFail
  THEN [digests : UNION {[C -> {"block", "zeros"}] : C \in SUBSET Cid \ {{}}}] ELSE {}
ForeignEvents ==
  IF "foreign" \in MayFail
  THEN [seen : UNION {[1 .. n -> Event] : n \in 0 .. MaxListed}, peers : Peers]
  ELSE {}

Calls == Serves(node, "call" \in MayFail)

\* A call that fails, or an answer lost or made up, is the miner's side failing.
HurtBy(served, got, answer) ==
  IF served < MaxCalls \/ got # answer THEN hurt \cup {"miner"} ELSE hurt

\* _fetch_truth_block() of every CID: a block is had when one of the trusted
\* nodes or gateways serves it.
Truths == IF "trusted" \in MayFail THEN SUBSET Cid ELSE {Cid}

\* _trusted_head_sha(): the head of the first trusted node that answers and
\* has one, were it a replica that is behind.
TrustedHeads ==
  {"current"} \cup (IF "trusted" \in MayFail THEN {None} ELSE {})
              \cup (IF "lagging" \in MayFail THEN {"behind"} ELSE {})

\* forward(): truth blocks and recent events of the trusted nodes.
BeginRound ==
  /\ phase = "idle"
  /\ exam' \in [truth : Truths,
                ids : SUBSET Event, repos : BOOLEAN]
  /\ out' = Blank /\ vouched' = None
  /\ hurt' = (IF node.up THEN {} ELSE {"miner"})
               \cup (IF exam'.truth = Cid THEN {} ELSE {"validator"})
  /\ phase' = "handshake" /\ probe' = NoProbe
  /\ UNCHANGED <<cache, node>>

\* The round ends where the handshake fails.
ShakeHands ==
  /\ phase = "handshake"
  /\ \E served \in Calls :
       LET answer == Handshake(cache, served)
       IN \E got \in Delivered(answer, NoHandshake) :
            /\ IF VerifyHandshake(got)
               THEN /\ out' = [out EXCEPT !.sent = @ + 1, !.answered = @ + 1,
                                          !.did = got.did]
                    /\ phase' = "storage"
               ELSE /\ out' = [out EXCEPT !.sent = @ + 1]
                    /\ phase' = "done"
            /\ \/ cache' = HandshakeCache(cache, node, served)
               \/ got # answer /\ cache' = cache  \* the axon refused it
            /\ vouched' = IF node.up THEN node.did ELSE None
            /\ hurt' = HurtBy(served, got, answer)
  /\ UNCHANGED <<exam, node, probe>>

AskStorage ==
  /\ phase = "storage" /\ exam.truth # {}
  /\ \E served \in Calls :
       LET answer == Storage(node, served)
           asked  == [out EXCEPT !.sent = @ + 1,
                                 !.requested = Cardinality(exam.truth)]
       IN \E got \in Delivered(answer, NoStorage) \cup ForeignDigests :
            /\ out' = IF got.digests = None THEN asked
                      ELSE [asked EXCEPT !.answered = @ + 1,
                                         !.proven = VerifyStorage(got, exam.truth)]
            /\ hurt' = HurtBy(served, got, answer)
  /\ phase' = "latency"
  /\ UNCHANGED <<exam, cache, node, probe, vouched>>

SkipStorage ==
  /\ phase = "storage" /\ exam.truth = {}
  /\ phase' = "latency"
  /\ UNCHANGED <<exam, out, cache, node, probe, vouched, hurt>>

\* The validator times its own fetch, a failed attempt included.
TimeHead ==
  /\ phase = "latency" /\ exam.repos
  /\ \E ms \in ValidatorMs, head \in TrustedHeads :
       probe' = [NoProbe EXCEPT !.head = head, !.ms = ms]
  /\ phase' = "compare"
  /\ UNCHANGED <<exam, out, cache, node, vouched, hurt>>

\* A push that a node up to date has and the validator did not see.
Push ==
  /\ "push" \in MayFail
  /\ phase = "compare" /\ node.refs = "current" /\ ~probe.moved
  /\ probe' = [probe EXCEPT !.moved = TRUE]
  /\ UNCHANGED <<phase, exam, out, cache, node, vouched, hurt>>

\* Then it asks the miner.
AskLatency ==
  /\ phase = "compare"
  /\ \E served \in Calls, ms \in FetchMs :
       LET refs   == IF probe.moved THEN "ahead" ELSE node.refs
           answer == Latency(refs, served, ms)
           asked  == [out EXCEPT !.sent = @ + 1]
       IN \E got \in Delivered(answer, NoLatency) :
            /\ out' = IF ~LatencyIsPlausible(got, probe.head, probe.ms) THEN asked
                      ELSE [asked EXCEPT !.answered = @ + 1,
                                         !.samples = Append(@, got.ms)]
            /\ probe' = [probe EXCEPT !.ms = 0, !.slower = ms >= probe.ms]
            /\ hurt' = HurtBy(served, got, answer)
  /\ phase' = "gossip"
  /\ UNCHANGED <<exam, cache, node, vouched>>

SkipLatency ==
  /\ phase = "latency" /\ ~exam.repos
  /\ phase' = "gossip"
  /\ UNCHANGED <<exam, out, cache, node, probe, vouched, hurt>>

AskGossip ==
  /\ phase = "gossip" /\ exam.ids # {}
  /\ \E served \in Calls, peers \in Peers :
       LET answer == Gossip(node, served, exam.ids, peers)
           asked  == [out EXCEPT !.sent = @ + 1, !.probed = Cardinality(exam.ids)]
       IN \E got \in Delivered(answer, NoGossip) \cup ForeignEvents :
            /\ out' = IF got.seen = None THEN asked
                      ELSE [asked EXCEPT !.answered = @ + 1,
                                         !.seen = VerifyGossip(exam.ids, got),
                                         !.peers = PeersOf(got)]
            /\ hurt' = HurtBy(served, got, answer)
  /\ phase' = "refs" /\ probe' = NoProbe
  /\ UNCHANGED <<exam, cache, node, vouched>>

SkipGossip ==
  /\ phase = "gossip" /\ exam.ids = {}
  /\ phase' = "refs" /\ probe' = NoProbe
  /\ UNCHANGED <<exam, out, cache, node, vouched, hurt>>

AskRefs ==
  /\ phase = "refs" /\ exam.repos
  /\ \E served \in Calls :
       LET answer == RefIntegrity(node, served)
       IN \E got \in Delivered(answer, NoRefs) :
            /\ out' = [out EXCEPT !.sent = @ + 1,
                         !.answered = IF got.certified = TRUE THEN @ + 1 ELSE @]
            /\ hurt' = HurtBy(served, got, answer)
  /\ phase' = "done"
  /\ UNCHANGED <<exam, cache, node, probe, vouched>>

SkipRefs ==
  /\ phase = "refs" /\ ~exam.repos
  /\ phase' = "done"
  /\ UNCHANGED <<exam, out, cache, node, probe, vouched, hurt>>

\* one(uid) turns an exception into an empty outcome.  Only httpx errors of
\* the trusted nodes are caught before that.
RoundRaises ==
  /\ "parse" \in MayFail /\ phase = "latency" /\ exam.repos
  /\ out' = Blank /\ phase' = "done"
  /\ hurt' = hurt \cup {"validator"}
  /\ UNCHANGED <<exam, cache, node, probe, vouched>>

EndRound ==
  /\ phase = "done"
  /\ phase' = "idle" /\ exam' = NoExam /\ out' = Blank
  /\ probe' = NoProbe /\ vouched' = None /\ hurt' = {}
  /\ UNCHANGED <<cache, node>>

Miner == NodeStops \/ NodeStarts \/ MinerRestarts \/ Push
Round == \/ BeginRound \/ ShakeHands \/ AskStorage \/ SkipStorage \/ TimeHead
         \/ AskLatency \/ SkipLatency \/ AskGossip \/ SkipGossip \/ AskRefs \/ SkipRefs
         \/ RoundRaises \/ EndRound

Next == Miner \/ Round

Spec == Init /\ [][Next]_vars

-----------------------------------------------------------------------------
(***************************************************************************)
(* Properties.                                                             *)
(***************************************************************************)

\* Whatever fails on either side and whatever a miner lists, no more challenges
\* and blocks are credited than were asked for, and the composite is a number
\* of [0, 1], although ids that a list repeats count again.
CountsFit ==
  /\ out.answered <= out.sent /\ out.proven <= out.requested
  /\ CompositeScore(out) \in Composite

\* A round without a proved DID is worth 0.325, whether the handshake failed
\* or the whole round was thrown away.
SilentIsNeutral ==
  phase = "done" /\ out.did = None => CompositeScore(out) = 65 * Neutral

\* In a round in which nothing failed, the miner is credited with exactly
\* what its node holds, each event once, and only a fetch that was found
\* implausible, for its time or for its head, or the lack of a certificate
\* leaves a challenge unanswered.
UndisturbedRoundIsExact ==
  phase = "done" /\ hurt = {} =>
    /\ out.did = SigningDid
    /\ out.requested = Cardinality(Cid) /\ out.proven = Cardinality(node.pins)
    /\ out.seen = Cardinality(exam.ids \cap node.events)
    /\ out.sent - out.answered =
         Cardinality({c \in {"latency", "refs"} :
           exam.repos /\ IF c = "latency" THEN out.samples = <<>> ELSE ~node.certified})

\* A miner whose fetch was not faster than the validator's own passes the
\* latency challenge, unless a push fell between the two fetches, or one of
\* the two nodes that were read, its own and the trusted one, is behind the
\* repository and the other is not.  That it is the trusted one does not help
\* the miner; that no trusted node answered costs it nothing.
HonestProbeCounts ==
  phase = "gossip" /\ exam.repos /\ hurt = {} =>
    \/ ~probe.slower \/ probe.moved
    \/ {probe.head, node.refs} = {"current", "behind"}
    \/ out.samples # <<>>

\* Without a running node there is no DID: what a miner proves is the
\* identity of a node that is there.
NoNodeNoDid == out.did # None => vouched # None
=============================================================================
