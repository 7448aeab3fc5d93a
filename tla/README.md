# Gitlawbnet in TLA+

Gitlawbnet is a Bittensor subnet. Miners run a gitlawb-node (a git server with
IPFS pins and a gossip mesh); validators challenge them, keep a score per uid,
and set weights on chain. This directory models the two processes and the
protocol between them, checks the models with TLC and proves with TLAPS, for all
values of the constants, every safety property that a passing run checks, among
them that the ScoreBook implements an abstract ledger. Paths are relative to the repository;
`src/` is its root.

## 1. Inventory

| Part | State | Operations | Module |
|---|---|---|---|
| ScoreBook (`gitlawbnet/validator/scoring.py:98`) | `scores`, `hotkeys`, `uid_to_did` | `resize`, `record_did`, `sybil_mask`, `update`, `save`, `load` | `ScoreBook`, `Validator` |
| Validator process (`neurons/validator.py`) | the ScoreBook, the metagraph copy, `step`, `should_exit`, the state file | start, forward, resync, set weights, save, exit | `Validator` |
| Base neuron (`gitlawbnet/base/neuron.py`) | metagraph, `uid` | registration check and look-up of the uid, `should_sync_metagraph`, `resync_metagraph` | `Validator`, `MinerLoop` |
| Forward pass (`gitlawbnet/validator/forward.py`) | HTTP clients, truth blocks, event ids, one task and one outcome per uid | load the corpus, choose the exam, five challenges per miner, gather, close the clients | `ForwardPass`, `Validator`, `ChallengeRound`, `GossipExam` |
| Seed corpus (`gitlawbnet/validator/seed_corpus.py`) and `scripts/refresh_seed.py` | the corpus file | load; rewrite in place | `ForwardPass` |
| Identities (`gitlawbnet/utils/did.py`, `cert.py`) | the key file, key and DID of a miner | key to DID and back, sign, verify, canonical bytes of a certificate | `Identity` |
| Verifiers (`gitlawbnet/validator/challenges.py`) | none | `verify_*`, `latency_is_plausible` | `ChallengeRound` |
| Component scores (`scoring.py:52-94`) | none | uptime, storage, latency, gossip, composite | `Scoring` |
| Miner handlers (`gitlawbnet/miner/handlers.py`) | cached node info and p2p info | handshake, storage, latency, gossip, ref_integrity | `MinerHandlers` |
| Miner process (`neurons/miner.py`) | the axon, the metagraph copy, `should_exit` | preflight, serve, loop, blacklist | `MinerLoop` |
| Node client (`gitlawbnet/utils/gitlawb_client.py`) | none | one HTTP call per method | `Serves` in `MinerHandlers` |

Outside the code and modelled by their use: the chain (registration, blocks,
inclusion of extrinsics), dendrite and axon (deliver an answer or not), the
gitlawb-node, the gossip mesh.

**Interaction.** The validator's thread calls `forward()`, which fetches the
exam from trusted nodes, sends five synapses to each sampled miner and turns
the answers into `ChallengeOutcome`s. `concurrent_forward()` gives these to the
ScoreBook. Then, in the same turn: the metagraph is resynced and the ScoreBook
resized when the epoch is over; weights are submitted; the state file is
written. A miner's axon answers through the handlers, which query its node;
its own thread does nothing but resync the metagraph the blacklist reads.

**What is hard here.** The chain moves between any two steps, and the ScoreBook
is matched to it by uid, not by hotkey. Both processes may stop anywhere; the
state file is overwritten in place. An extrinsic is not awaited. Handlers fail
half way and return what they have set so far. The node info is cached for the
life of a miner. Events spread while the exam is under way. `PROJECT.json`
lists each of these under "hazards" with its line.

**What correctness means**, by part:
- ScoreBook and validator: a score and a DID belong to the hotkey that earned
  them; arrays, hotkey list and metagraph keep one length; a Sybil does not
  gain in the round that exposes it; weights keep reaching the chain, and
  registrations are noticed; the scores survive a restart (they do not survive
  every one, section 6). All in one: the uid-indexed
  arrays behave as one account per hotkey (`Ledger`).
- Forward pass: nothing a miner does ends the loop; clients are open while a
  task needs them and closed when a turn is over; every turn ends.
- Identities: what was signed verifies, in either encoding; certificates pass
  exactly when one is as its node issued it.
- Round: no more challenges and blocks are credited than were asked for, and the
  score is a number of [0, 1] although an id that a miner lists twice counts
  twice; an undisturbed round measures exactly what the node holds; a missing
  handshake has one fixed value; a miner that is not faster than the validator
  loses its latency sample to nothing but a push, or to one of the two nodes
  being behind when the other is not.
- Gossip: the exam is empty only on a quiet network; a miner that had an event
  still lists it when it is asked.
- Miner: stops when asked, serves only while its loop lives, and lets callers
  with a permit in.

## 2. Modules

```
ScoreBook <- Validator <- ValidatorRefines (L == INSTANCE Ledger) <- MCValidator
             Validator <- ValidatorProofs                 theorems
             ValidatorRefines, ValidatorProofs <- LedgerProofs   theorems
Scoring, MinerHandlers <- ChallengeRound <- MCChallengeRound, RoundProofs   theorems
GossipExam  <- MCGossipExam, GossipProofs                 theorems
ForwardPass <- MCForwardPass, ForwardProofs               theorems
MinerLoop   <- MCMinerLoop, MinerProofs                   theorems
Identity    <- MCIdentity, IdentityProofs                 theorems
```

`ScoreBook` has one operator per method, on a record with the fields of the
object. Two history fields, `earned` and `prover`, remember whose outcomes made
a score and who proved a DID; no guard reads them. The EMA is `Ema`, an integer
quotient of the two products (float32 rounding is abstracted; the proofs use
only that the result stays between 0 and `Unit`, and that an outcome of 0 does
not raise a score).

`Validator` cuts a turn of `run()` where the chain or a crash can come between:
`Forward` (one step per concurrent forward), `Sync`/`SkipSync`,
`SetWeights`/`SkipWeights`, `BeginSave` and `EndSave`. Block numbers appear
only as `block - last_update`, so the model keeps that difference for the chain
(`chainAge`) and for the metagraph copy (`metaAge`), up to `Epoch + 1`: beyond
that, nothing in the code tells values apart. `Boot` is `__init__`: a loaded
ScoreBook is resized, a new one is not and knows no hotkeys. `Leave` is the end
of the process or thread; what was in memory is forgotten. The faults a run
allows are a constant. `uid` is `self.uid`: with the fault "ousted" the
validator's own hotkey may lose it, to a newcomer or to a shrinking subnet, and
register anew elsewhere; the process goes on reading `last_update[self.uid]`,
which is somebody else's (`OtherSets`) or past the end (`NoEntry`).

`Ledger` is what this is for, without uids: an account per hotkey, with the
credit and the DID it earned on the seat it has, closed when the seat is lost
and found again by a restart. `ValidatorRefines` reads both books, the one in
memory and the one on disk, through their own hotkey lists (`Accounts`), the
chain's table as the roll of seats, and `Ema` as the ledger's `Average`; a resync
that resizes and a boot both become `Revised`, a forward becomes `Judge`, and
what only moves blocks, weights or the program counter is a stutter.

`ForwardPass` opens `Validator.Forward`: the concurrent forwards of one turn are
tasks of one event loop, each of which loads the corpus, opens its clients,
fetches the exam, starts a task per sampled miner, gathers and closes. It keeps
who waits for whom and what an exception leaves behind, and drops the scores.
`refresh_seed.py` is a second process that empties the file and then writes it.

`ChallengeRound` is `_challenge_one_miner()`, one action per challenge; request,
handler, answer and verdict are one step where the miner's side and the
validator's side share no state the other could change in between. They do in
the latency challenge, which reads the head of a repository twice: `TimeHead` is
the validator's fetch, `AskLatency` the miner's, and a `Push` may come between. The node and
the miner process may fail between challenges, and within one: `served` is the
number of HTTP calls that succeed. Several answers may be lost. A miner need not
run this program: to the two challenges whose verdict is a count it may answer
any list (`ForeignDigests`, `ForeignEvents`), the same event twice or one that it
was not asked for included, and `VerifyGossip` counts as the code does, entry by
entry. The head that the validator compares with is that of one trusted node
(`TrustedHeads`): the present one, an older one, or none. The record
`exam` is what `forward()` prepared. `Scoring` does the arithmetic of the
component scores exactly: a score of 1.0 is 900 units, which all divisors in use
divide.

`GossipExam` zooms into the events: `_recent_gossip_events()` node by node,
with its limit, recency test, cap and early end, against the miner's longer
list, while events arrive at every node in any order. The chosen ids are a set:
their order reaches the handler, which only asks which of them it lists.

`MinerLoop` is the miner's thread, with the epoch test of its own sleeping loop
(`<`) and that of `should_sync_metagraph` (`>`), and the blacklist as a
predicate (`Refused`) on its metagraph copy.

`Identity` has the miner's key file and its formats, the handshake, a node that
changes its key, and its list of certificates. A text is bytes and the encoding
they are written in; the decoder of the other encoding makes junk of it, which
may be nothing, bytes of another length, or 64 bytes. Verification must hold for
every kind of junk, so that it cannot lean on the encodings being disjoint.
A signature is the signer and what was signed; Ed25519 is assumed to be unforgeable.

In every module, a definition named in parentheses in a comment, as in
"(DidsStay: only the score is reset.)", is a plausible slip next to the correct
definition. It is used to show that a property notices it.

## 3. Runs

`tlc -workers 2 -config <run>.cfg <MC module>`

| Run | Shows | Bounds |
|---|---|---|
| `warm` | scores and DIDs stay with their hotkeys; weights fit the metagraph; Sybils do not gain; the ledger is kept | 2 miner uids, 3 miner hotkeys, 2 DIDs, scores in quarters, epoch 0, all faults but "ousted", resumed from a file |
| `stops` | the hotkey list fits the array, in memory and on disk | 3 uids, growth and shrinking, own uid 0 or 2 and lost at times, 2 concurrent forwards, skipped resizes, first run, dry-run mode |
| `live` | weights reach the chain again and again; registrations are noticed | 1 miner uid, 2 miner hotkeys, epoch 2, "ousted" the only fault, `LiveSpec` |
| `forward` | miners cannot end the loop; clients are open in use and closed in the end; turns end | 2 forwards, 3 miners of which one never answers, samples of 2, the corpus rewritten at any time |
| `round` | counts fit, a round without a DID is worth 0.325, an undisturbed round is exact, an honest probe counts | 2 blocks, 2 events, foreign lists of up to 2 entries (`MaxListed`), all 9 kinds of failure, two fetch times on each side of the thresholds, 12 peers or none reported |
| `gossip` | the exam is empty only on a quiet network; the miner's window covers the delay | 3 events, 2 trusted nodes, one with its clock ahead, limits 1 and 2; `Garbled` empty (with `Garbled = {e3}` the same was found to hold, 16.7 million states in 4 minutes) |
| `miner` | the thread ends when asked though no block comes; the axon never outlives the loop; while blocks come, a caller that keeps its permit is served for good | 2 callers, epoch of 3 |
| `identity` | handshakes verify in either encoding; certificates pass exactly when one is genuine | 2 keys, 1 nonce, 2 updates, 2 certificates, all junk |
| `cold_score`, `own_uid`, `dead_node`, `torn_state` | counterexamples, section 6 | |

Why the bounds are enough. Two miner uids are needed for two holders of one
DID, a third hotkey for a replacement on a full subnet. With an epoch of 0 each
block may end one, so that registrations, inclusion and resyncs come in every
order; `live` has an epoch long enough for turns that do not resync. Each score
is updated alone, so scores in quarters exercise gain, decay and zero. An own uid
of 2 out of 3 is one that shrinking can cut off, and 0 one that others can take.
Two forwards show one that raises or closes while the other works; a sample of
two among three, one of them mute, a task that outlives its neighbour. One
trusted node that is behind and one that is not make the early end of the search
matter. In `round`, each of the fetch times passes one of the validator's two
plausibility floors and not the other, or passes both; 12 peers are worth the
whole bonus, a count that is not reported none, and a list of two entries can
name the one event of an exam twice, which with the bonus on top is the largest
component there can be. In `identity`, two
certificates and two keys give a spoiled one before and after a genuine one,
under the old key and the new. Symmetry (`SomeHotkeys`, `CorpusIsAnySet`,
`SomeEvents`, `AnyKey`) is over values the specifications only compare, and
only in runs without liveness properties.
`CHECK_DEADLOCK` is on in all of them: none of the models stops.

`stops` is in dry-run mode (`--neuron.disable_set_weights`) to keep its state
space small; `warm` and `live` cover set_weights. `warm` has
processes that end in the middle of `save_state`, and what the next one then does
(`StartFails`); that this happens at all is `torn_state` (section 6).

`WeightsFitMetagraph` is checked and proved with `Axonless = {FALSE}`: a resync
that skips the resize (`neurons/validator.py:137`) leaves the two lengths
different. Only a metagraph whose axon list is empty or all `None` takes that
path; `stops` does, for `HotkeysFitScores`.

`Preflight` of `MinerLoop` may succeed or end the thread. Which of the two
happens in a thread that nobody has given an event loop
(`neurons/miner.py:118,160`) depends on the libraries: Python's own
`get_event_loop()` raises there, while one that `nest_asyncio` has patched, which
`bittensor` may do on import, makes a loop. The repository does not decide it, so
no property is about it.

**Fairness.** `LiveSpec` of `Validator`: `Tick` (the chain produces blocks),
`Include` (an extrinsic in flight is included), `Boot` (the operator starts the
process), `Turn` (the thread is scheduled, and calls that a turn makes have
timeouts). Registrations, shrinking and all faults are unfair: nothing makes
them happen; what the loss of the own uid leaves of the two properties is in
their premises. `ForwardPass` has `WF(Work)`: the event loop runs whatever is
ready, and the timeout of a request is a timer it runs (`Expire`); the script,
new turns and exceptions are unfair. `FairSpec` of `MinerLoop` schedules the
thread only, so `StopsWhenAsked` does not lean on new blocks;
`PermittedCallersAreServed` has them as a premise (`WF_vars(Tick)`). `Identity`,
`ChallengeRound` and `GossipExam` have safety properties only.

## 4. Proofs

Each with `tlapm <module>.tla`. The assumptions are the named ones on the
constants (a positive number of uids, a fraction for the EMA factor, outcomes
that are scores, faults among the known ones, values that are not `None`), and
those stated in a theorem.

`ValidatorProofs`:

- `TypeCorrect`: `TypeOK` is inductive. The work is in the ScoreBook: `EmaIsAScore`
  (a weighted mean of two scores, rounded down, is a score) and `ResizeType`,
  `UpdateType`, `AbsorbType` for its methods.
- `HotkeysAlwaysFit`: inductive with the type invariant; `Resize` makes the two
  lengths equal and nothing else changes either.
- `ScoresAreAttributed`, when `~FirstRun` and a resync always resizes
  (`Axonless \subseteq {FALSE}`). `ScoreAttribution` alone is not inductive: a
  restart reads the file. `AttributionInv` adds that the file, when whole, holds
  an attributed book, and that a running validator's hotkey list is the
  metagraph's, which is what makes the comparison in `resize` a comparison with
  the hotkeys that earned the scores.
- `DidsAreAttributed`, when moreover the subnet does not shrink. `DidInv` adds
  that uids on disk and in memory are still uids of the chain.
- `SybilsNeverGain`, in every configuration: `Absorb` records the DIDs first, so
  a uid that is a Sybil afterwards was one when the scores were updated
  (`AbsorbSybils`), and a zero outcome does not raise a score (`EmaOfNothing`).
  A resize removes scores but adds none; a boot starts from an empty array
  (`DownIsEmpty`), so that it raises nobody's score either.
- `WeightsAlwaysFit`, when a resync always resizes, on subnets that shrink too:
  `ScoresFit` has the two lengths agree at every place of the turn, since weights
  may be set on a metagraph that this turn did not touch.

The hypotheses of `ScoresAreAttributed` and `DidsAreAttributed` are not a
convenience: run `cold_score` shows the first fail on a first run, and
`DidAttribution` fails when a subnet shrinks, because `resize` cuts the scores
and leaves the DIDs.

`LedgerProofs`:

- `LedgerIsKept`: `Spec => KeepsTheLedger`, under the hypotheses of
  `DidsAreAttributed`. The mapping needs every table of hotkeys to be a roll
  without duplicates (`RollInv`, over the chain, the metagraph, both books), and
  the attribution invariants: together `LedgerInv`. `ResizeRevises` says
  that `resize` revises the accounts whatever the two sizes; `ForwardJudges` that
  recording the DIDs, masking and updating by uid is one judgement by hotkey.
  `StepImplements` has one case per action of `Next`.

`ForwardProofs`: `ByPlace` ties the clients and tasks of a forward to the place
it has reached; with the type invariant it is inductive, and the three safety
properties follow from it, for any number of forwards and miners.

`MinerProofs`: `ServesWhileLooping` is inductive with the type invariant.

`IdentityProofs`: `MinerInv` says that the running miner's DID is its key's, and
that an answer is signed by
the key its DID names, over the nonce that is asked; `CertInv` that what a node
issued is signed by the key its DID names over its own fields, and that what is
listed was issued, but for the ways in which it may be spoiled.
`OnlyGenuineVerifies` then turns a signature that verifies over the present
fields into a certificate that is as issued; `DidsRoundTrip` is the lemma that a
DID gives its key back. They hold for any keys, nonces, updates and junk.

`RoundProofs`: one inductive invariant, `IInv`, carries the five theorems about
the round, for any corpus, events, fetch times, peer counts and failures.

- `RoundTypeCorrect` needs `CountInv` with its bound on the challenges sent so
  far (`Sendable`), and the latter `ToCome`: the fields of the challenges to
  come are as `ChallengeOutcome()` left them.
- `CountsAlwaysFit` is `CountInv` and arithmetic, for lists of any length:
  `StorageVerdictFits` (whatever digests come, no more blocks are proven than the
  validator has), `ForeignVerdict` (whatever list of events comes, its count is a
  number, though perhaps more than was asked for), `ShareIsAScore` (a share of
  what was asked is between 0 and `Whole`), then `ComponentsAreScores`, where the
  gossip component is held to `Whole` by its clamp alone, and `WeightsAddUp`.
- `SilenceIsAlwaysNeutral`: `SilentInv` says that a round gets past the handshake
  only with the DID, and that one which ended without it was credited nothing.
- `UndisturbedRoundIsAlwaysExact`: `ExactSoFar` is the same for every prefix of a
  round, with the answers missed so far. What makes it inductive is that
  `hurt = {}` after a challenge means the node served every call and the answer
  came (`HurtByNothing`); the handler lists each event once, so that the count of
  its entries is the number of events (`GossipVerdict`).
- `HonestProbesAlwaysCount`: a fetch not faster than the validator's passes the
  floor of three quarters, and two nodes that are both up to date, or both
  behind, have one head as long as nobody pushes (`HonestFetchIsPlausible`). The
  theorem names all the other cases; in each of them TLC finds an honest miner
  without its sample.

With `Unit = 100 * Whole`, the second and third are what `Validator` assumes of
its `Marks` and `Silent` (`OutcomesAreScores`). The assumption `NoneIsNoAnswer`
says that a field that was set is told from one that was not, as in Python
`None` is from a number, a list and a dict.

`GossipProofs`, for any number of events and trusted nodes and any limits:

- `GossipTypeCorrect`: the work is `ChosenFits`. The ranks of the chosen
  positions among the recent ones are different numbers of `1 .. Cap`, so no more
  than `Cap` ids are asked for.
- `WindowAlwaysLeavesRoom`: `HeldInv` says that a held event is at most as many
  places below `Limit` as events have arrived since (`ReceivedList`: an arrival
  moves the list down by one).
- `EmptyAlwaysMeansQuiet`: `SortedInv` says that a node with the right clock lists
  events by age, so that its first one is at least as recent as any that `limit`
  cuts off;
  `QuietSoFar`, that the trusted nodes asked so far had nothing recent.

`SelfIsNotJudgedWhileRegistered` (`ValidatorProofs`) is the other half of run
`own_uid`: without the fault "ousted" the validator never scores itself. `SelfInv`
says that its uid is its own on the chain and in the metagraph, through
registrations, removals, resyncs and restarts, and that a metagraph has no hotkey
twice; leaving out that uid is then enough.

Only model-checked: the five liveness properties (the prover has no rule for
fairness and ENABLED that applies here). The properties of `cold_score`,
`dead_node` and `torn_state` are false.

## 5. Not modelled, and why

- Weight normalisation inside bittensor and the order of requests by
  `_shared_priority`: outside the code, or without effect on the state here.
- Argument parsing, paths and logging; the mock node, a test double; the scripts
  other than `refresh_seed.py`, which run once and keep nothing.
- Base58, base64, PEM, JSON and Ed25519 themselves: modelled by what they
  promise.
- Several miners' rounds on one node at once: rounds share only the exam and
  the clients; the exam is in `ChallengeRound`, the clients in `ForwardPass`.
- An exception of `axon.stop()`, which the end of both loops swallows
  (`neurons/miner.py:147-150`): the axon counts as stopped.
- Of the node client, URLs and timeouts, and the methods that neither process
  calls (`stats`, `list_repos`, `get_cert`, `peer_is_known`, `ping_peer`).

## 6. Where the code and its documents disagree

Shown by a run:
- `cold_score`: the first resync after a start without a state file compares
  with an empty hotkey list (`scoring.py:115`), so a new hotkey keeps the score
  of the one it replaced.
- `own_uid`: a validator that loses its uid and registers anew samples its own
  hotkey and scores it, because `self.uid` is looked up once (`neuron.py:68`);
  `forward.py:189-190` says it skips itself.
- `dead_node`: a miner whose node is gone still passes the handshake, from its
  cache (`handlers.py:46`).
- `torn_state`: the state file is written in place by a daemon thread
  (`scoring.py:156`) that a stop waits 10 seconds for (`neurons/validator.py:198`).
  A process that ends meanwhile leaves a file that the next start cannot load
  (`scoring.py:170`); `README.md:208` has the scores survive a restart.

Read in the code while modelling, and not given a run:
- Weights are submitted again each turn until the first submission is seen on
  chain (`neurons/validator.py:125,155`), against the epoch of `config.py:44`.
- A corpus read while `refresh_seed.py` rewrites it in place does not parse and
  ends the validator's loop (`seed_corpus.py:64`, `refresh_seed.py:65`).
- `last_update[self.uid]` is an IndexError once the subnet has shrunk below the
  uid (`neuron.py:99`); this too ends the loop.
- A first resync also leaves the DID of a replaced hotkey, and a shrinking
  subnet those of the removed uids (`scoring.py:115,121`): either may mask the
  only holder of a DID as a Sybil.
- A Sybil's score decays with the EMA (`scoring.py:144`); `scoring.py:103-104`
  and `docs/VERIFICATION_REPORT.md:85-86` say it is 0.
- A rejected `set_weights` is retried every turn, each with a full resync
  (`neurons/validator.py:132`).
- One exception ends the loop (`neurons/validator.py:176`) while `main` goes on
  logging "Validator alive".
- A node DID that is not the key's is only logged (`handlers.py:65`);
  `README.md:135-137` says the handshake fails.
- Storage, gossip and latency signatures are never verified
  (`forward.py:138-171`), against `protocol.py:5-7`.
- A latency probe without a plausible answer scores 0.5 (`scoring.py:68`), which
  the comment reserves for rounds without a probe; hence a miner that answers
  only the handshake can exceed the 0.35 of `docs/INCENTIVES.md:67`.
- `verify_gossip` counts the entries of the miner's list (`challenges.py:116`),
  though it is asked "how many of the challenged event_ids": an id that is listed
  twice counts twice. The component is cut at 1.0.
- The head that a miner's is compared with is that of the first trusted node
  that has refs (`forward.py:58-60`). When this node is behind, it is the miner
  that is up to date whose probe counts as a lie (`challenges.py:94`).
- The validator's fetch is timed over all its attempts, failed ones included
  (`forward.py:151-153`), so that the floor may be above what a fast and honest
  miner needs.
- The Sybil mask compares DIDs as strings (`scoring.py:135-136`), while one key
  has several that verify: `did:key`, `did:gitlawb`, and either with a path
  (`did.py:47-66`). "One gitlawb-node DID" (`scoring.py:102`) is a string, not a
  key; `Identity` has the forms, `ScoreBook` the strings, and nothing relates them.
- A trusted node whose body is not JSON raises past `except httpx.HTTPError`
  (`forward.py:61`) and costs the miner its whole round.
- A timestamp with three fractional digits and an offset is cut into one that
  does not parse, and counts as age 0 (`forward.py:87-90`).
- Events are asked for from age 0 on, before the mesh has delivered them
  (`forward.py:91`), against `forward.py:71`.
- A miner's `last_update` does not move, so after one epoch the loop of
  `neurons/miner.py:132-141` resyncs without a pause.

## 7. Plan

1. Done: the ScoreBook and the validator process, own deregistration included;
   the abstract ledger and the refinement, checked and proved; the forward pass;
   the round, with pushes; the gossip exam; the miner process; identities and
   certificates; the theorems of section 4, which state every safety property of
   a passing run.
2. A write of the state file that survives the end of the process, should the
   code get one: `ScoresSurviveRestart` then becomes a property of `warm`.
3. Compose rounds with the ScoreBook: outcomes of `Validator.Rounds` taken from
   `ChallengeRound` for two miners that share a node, instead of a set of marks.
4. With it, a theorem that a round, as seen from the ScoreBook, is one choice of
   an outcome in `Validator.Outcome`: the two modules are linked only by
   `OutcomesAreScores` so far.
5. Liveness stays with TLC.
