----------------------------- MODULE Validator ------------------------------
(***************************************************************************)
(* The validator process (neurons/validator.py over base/neuron.py): the   *)
(* run loop, its ScoreBook, its copy of the metagraph, its state file, and *)
(* the chain as the loop sees it.                                          *)
(*                                                                         *)
(* One turn of the loop is four steps, in the order of run():              *)
(*                                                                         *)
(*   forward -> sync -> weights -> save -> saving -> forward               *)
(*                                                                         *)
(* The chain moves between any two of them.  The block number is not kept: *)
(* the code only ever tests block - last_update[uid] > epoch_length, so    *)
(* chainAge and metaAge are that difference, for the chain's last_update   *)
(* and for the metagraph's copy of it, and stop growing at Epoch + 1.      *)
(* Only the entry of the uid that the process looked up when it started is *)
(* kept; whose it is may change.  Likewise step is 0 or 1, because the     *)
(* code only tests step == 0.                                              *)
(*                                                                         *)
(* A definition named in parentheses in a comment is a slip that the code  *)
(* does not make; no specification uses it.                                *)
(*                                                                         *)
(* Simplifications.  All extrinsics in flight count as one.  An outcome is *)
(* chosen when it is absorbed; nothing reads it earlier.                   *)
(***************************************************************************)
EXTENDS ScoreBook, FiniteSets

CONSTANTS
  Self,               \* the validator's own hotkey
  Seats,              \* uids the validator may have at the beginning
  Silent,             \* composite score of a miner that failed the handshake
  Marks,              \* composite scores of a miner that passed it
  SampleSize,         \* --neuron.sample_size
  Forwards,           \* --neuron.num_concurrent_forwards
  Epoch,              \* --neuron.epoch_length
  DisableSetWeights,  \* --neuron.disable_set_weights
  FirstRun,           \* TRUE: no state file; FALSE: one from a synced run
  Axonless,           \* the values of "every axon is None" after a sync
  ShrinkAllowed,      \* the chain may remove the highest uid
  Faults              \* which of the faults below may happen

ASSUME SelfIsAHotkey == Self \in Hotkey /\ Seats \subseteq Uid
ASSUME OutcomesAreScores == Silent \in Score /\ Marks \subseteq Score
ASSUME ConfigIsValid ==
  /\ SampleSize \in Nat /\ Forwards \in Nat \ {0} /\ Epoch \in Nat
  /\ DisableSetWeights \in BOOLEAN /\ FirstRun \in BOOLEAN
  /\ Axonless \subseteq BOOLEAN /\ ShrinkAllowed \in BOOLEAN
ASSUME FaultsAreKnown ==
  Faults \subseteq {"exit",    \* the operator stops it, the loop ends in time
                    "kill",    \* the process dies, or join(10) gives up on it
                    "raise",   \* an exception leaves the body of the loop
                    "disk",    \* writing the state file fails half way
                    "reject",  \* subtensor.set_weights returns False
                    "lost",    \* an extrinsic in flight is never included
                    "ousted"}  \* the validator loses its own registration

VARIABLES
  chainKeys,    \* the chain: hotkey of every uid
  chainAge,     \* blocks since the chain's last_update[self.uid]
  pending,      \* a set_weights extrinsic is in flight
  uid,          \* self.uid, of the present or else the last process
  pc,           \* where the validator process is
  batch,        \* forward results absorbed in this step
  step,         \* self.step
  metaKeys,     \* self.metagraph.hotkeys
  metaAge,      \* blocks since self.metagraph.last_update[self.uid]
  book,         \* self.scores
  file,         \* the state file
  saved         \* the book the file was last written from

chain   == <<chainKeys, chainAge, pending>>
process == <<uid, pc, batch, step, metaKeys, metaAge, book>>
disk    == <<file, saved>>
vars    == <<chain, process, disk>>

Age == 0 .. Epoch + 1
Older(age) == IF age > Epoch THEN age ELSE age + 1

Looping == {"forward", "sync", "weights", "save", "saving"}
Running == pc \in Looping

TypeOK ==
  /\ chainKeys \in Arrays(Hotkey) /\ chainAge \in Age
  /\ pending \in BOOLEAN /\ uid \in Uid
  /\ pc \in Looping \cup {"down", "refused", "stopped"}
  /\ batch \in 0 .. Forwards - 1 /\ step \in {0, 1}
  /\ metaKeys \in Arrays(Hotkey) /\ metaAge \in Age
  /\ book \in Book
  /\ file \in {"absent", "torn", "whole"} /\ saved \in Book

Sits(h, u, keys) == u \in DOMAIN keys /\ keys[u] = h

\* A registration table: no hotkey twice.
Registered(keys) == \A u, v \in DOMAIN keys : keys[u] = keys[v] => u = v

Init ==
  /\ chainKeys \in {keys \in Arrays(Hotkey) : Registered(keys)}
  /\ uid \in Seats /\ Sits(Self, uid, chainKeys)
  /\ chainAge \in Age /\ pending = FALSE
  /\ pc = "down" /\ batch = 0 /\ step = 0
  /\ metaKeys = NoHotkeys /\ metaAge = 0 /\ book = NoBook
  /\ IF FirstRun
     THEN file = "absent" /\ saved = NoBook
     ELSE /\ file = "whole"
          /\ saved = [FreshBook(DOMAIN chainKeys) EXCEPT !.hotkeys = chainKeys]

-----------------------------------------------------------------------------
(***************************************************************************)
(* The chain.                                                              *)
(***************************************************************************)

Unregistered == {h \in Hotkey : \A u \in DOMAIN chainKeys : chainKeys[u] # h}

\* A subnet with room gives a new hotkey the next uid; a full one gives it
\* the uid of somebody else.  A new entry is as old as its registration.
Register(h) ==
  /\ h \in Unregistered
  /\ \/ \E n \in 1 .. MaxUids - 1 :
          /\ DOMAIN chainKeys = 0 .. n - 1
          /\ chainKeys' = [u \in 0 .. n |-> IF u < n THEN chainKeys[u] ELSE h]
     \/ /\ DOMAIN chainKeys = Uid
        /\ \E u \in Uid :
             /\ chainKeys[u] # Self \/ "ousted" \in Faults
             /\ chainKeys' = [chainKeys EXCEPT ![u] = h]
  /\ chainAge' = IF Sits(h, uid, chainKeys') THEN 0 ELSE chainAge
  /\ UNCHANGED <<pending, process, disk>>

Shrink ==
  /\ ShrinkAllowed
  /\ \E n \in 1 .. MaxUids - 1 :
       /\ DOMAIN chainKeys = 0 .. n
       /\ chainKeys[n] # Self \/ "ousted" \in Faults
       /\ chainKeys' = [u \in 0 .. n - 1 |-> chainKeys[u]]
  /\ UNCHANGED <<chainAge, pending, process, disk>>

Tick ==
  /\ chainAge' = Older(chainAge)
  /\ metaAge' = IF Running THEN Older(metaAge) ELSE metaAge
  /\ UNCHANGED <<chainKeys, pending, uid, pc, batch, step, metaKeys, book, disk>>

\* The weights are those of the hotkey, and count at the uid it has by now.
Include ==
  /\ pending
  /\ pending' = FALSE
  /\ chainAge' = IF Sits(Self, uid, chainKeys) THEN 0 ELSE chainAge
  /\ UNCHANGED <<chainKeys, process, disk>>

Lose ==
  /\ "lost" \in Faults /\ pending
  /\ pending' = FALSE
  /\ UNCHANGED <<chainKeys, chainAge, process, disk>>

\* Whoever has the uid now sets weights.
OtherSets ==
  /\ \E h \in Hotkey \ {Self} : Sits(h, uid, chainKeys)
  /\ chainAge' = 0
  /\ UNCHANGED <<chainKeys, pending, process, disk>>

-----------------------------------------------------------------------------
(***************************************************************************)
(* The process comes and goes.                                             *)
(***************************************************************************)

\* Validator(config) of a registered hotkey: a metagraph from the chain, the
\* uid looked up in it, and a ScoreBook from the state file when there is
\* one.  Only a loaded book is resized, so only a loaded book knows whose
\* scores it holds.
Start ==
  /\ pc \in {"down", "refused"} /\ file # "torn"
  /\ pc' = "forward" /\ batch' = 0 /\ step' = 0
  /\ uid' \in DOMAIN chainKeys /\ chainKeys[uid'] = Self
  /\ chainAge' \in IF uid' = uid THEN {chainAge} ELSE Age
  /\ metaKeys' = chainKeys /\ metaAge' = chainAge'
  /\ book' = IF file = "whole" THEN Resize(saved, chainKeys)
                               ELSE FreshBook(DOMAIN chainKeys)
  /\ UNCHANGED <<chainKeys, pending, disk>>

\* A torn file makes np.load raise.
StartFails ==
  /\ pc \in {"down", "refused"} /\ file = "torn"
  /\ \E u \in DOMAIN chainKeys : chainKeys[u] = Self
  /\ pc' = "refused"
  /\ UNCHANGED <<chain, uid, batch, step, metaKeys, metaAge, book, disk>>

Boot == Start \/ StartFails

\* The end of the process's work: nothing reads its memory again.
Leave(where) ==
  /\ pc' = where /\ batch' = 0 /\ step' = 0
  /\ metaKeys' = NoHotkeys /\ metaAge' = 0 /\ book' = NoBook
  /\ UNCHANGED <<chain, uid, disk>>

\* should_exit is read at the top of the loop only.
Exit == "exit" \in Faults /\ pc = "forward" /\ batch = 0 /\ Leave("down")

\* The thread is a daemon: wherever it is, it dies with the process.
Kill == "kill" \in Faults /\ pc \in Looping \cup {"stopped"} /\ Leave("down")

\* The handler around the loop logs and returns: the thread ends, main goes
\* on printing.  Forwards raise before any of their results is absorbed.
Raise ==
  /\ "raise" \in Faults
  /\ pc \in {"forward", "sync", "weights"} /\ batch = 0
  /\ Leave("stopped")

-----------------------------------------------------------------------------
(***************************************************************************)
(* One turn of run().                                                      *)
(***************************************************************************)

Candidates == DOMAIN metaKeys \ {uid}

\* Without a DID there was no handshake, and the round ends there.
Outcome == {[did |-> None, score |-> Silent]}
             \cup [did : Did, score : Marks]

\* forward(): outcomes for a sample of the other uids.  The validator's own
\* axon has no handlers.
Rounds ==
  LET size == IF SampleSize < Cardinality(Candidates)
              THEN SampleSize ELSE Cardinality(Candidates)
  IN {outcomes \in UNION {[sample -> Outcome] :
              sample \in {U \in SUBSET Candidates : Cardinality(U) = size}} :
        \A u \in DOMAIN outcomes : metaKeys[u] = Self => outcomes[u].did = None}

\* concurrent_forward(): every result is absorbed in turn, its DIDs first.
Forward ==
  /\ pc = "forward"
  /\ \E outcomes \in Rounds :
       book' = Absorb(book, outcomes, metaKeys)
  /\ IF batch + 1 = Forwards THEN batch' = 0 /\ pc' = "sync"
                             ELSE batch' = batch + 1 /\ pc' = pc
  /\ UNCHANGED <<chain, uid, step, metaKeys, metaAge, disk>>

\* self.metagraph.last_update[self.uid] exists; it is an IndexError otherwise.
HasEntry == uid \in DOMAIN metaKeys

\* (ShouldSyncOnce: only the first turn resyncs.)
ShouldSyncOnce == step = 0 /\ metaAge > Epoch
ShouldSync == metaAge > Epoch

\* if should_sync_metagraph(): resync_metagraph().  The book is not resized
\* when the new metagraph has no axon at all.
Sync ==
  /\ pc = "sync" /\ HasEntry /\ ShouldSync
  /\ metaKeys' = chainKeys /\ metaAge' = chainAge
  /\ \E axonless \in Axonless :
       book' = IF axonless THEN book ELSE Resize(book, chainKeys)
  /\ pc' = "weights"
  /\ UNCHANGED <<chain, uid, batch, step, disk>>

SkipSync ==
  /\ pc = "sync" /\ HasEntry /\ ~ShouldSync
  /\ pc' = "weights"
  /\ UNCHANGED <<chain, uid, batch, step, metaKeys, metaAge, book, disk>>

\* The block is read again: it may be past the epoch now and not before.
MaySetWeights    == step # 0 /\ ~DisableSetWeights
ShouldSetWeights == MaySetWeights /\ metaAge > Epoch

\* set_weights() does not wait for inclusion, and a failure is only logged.
SetWeights ==
  /\ pc = "weights" /\ HasEntry /\ ShouldSetWeights /\ ~AllZero(book)
  /\ pending' = TRUE \/ ("reject" \in Faults /\ pending' = pending)
  /\ pc' = "save"
  /\ UNCHANGED <<chainKeys, chainAge, uid, batch, step, metaKeys, metaAge, book, disk>>

SkipWeights ==
  /\ pc = "weights" /\ (MaySetWeights => HasEntry)
  /\ ~ShouldSetWeights \/ AllZero(book)
  /\ pc' = "save"
  /\ UNCHANGED <<chain, uid, batch, step, metaKeys, metaAge, book, disk>>

\* The subnet has shrunk below the uid that the process looked up.
NoEntry ==
  /\ pc = "sync" \/ (pc = "weights" /\ MaySetWeights)
  /\ ~HasEntry
  /\ Leave("stopped")

\* np.savez truncates the file it is about to write.
BeginSave ==
  /\ pc = "save"
  /\ pc' = "saving" /\ file' = "torn" /\ saved' = NoBook
  /\ UNCHANGED <<chain, uid, batch, step, metaKeys, metaAge, book>>

\* (EndSaveUncounted: step is not incremented.)
EndSaveUncounted ==
  /\ pc = "saving"
  /\ file' = "whole" /\ saved' = book /\ pc' = "forward"
  /\ UNCHANGED <<chain, uid, batch, step, metaKeys, metaAge, book>>
EndSave ==
  /\ pc = "saving"
  /\ file' = "whole" /\ saved' = book
  /\ step' = 1 /\ pc' = "forward"
  /\ UNCHANGED <<chain, uid, batch, metaKeys, metaAge, book>>

SaveFails == "disk" \in Faults /\ pc = "saving" /\ Leave("stopped")

-----------------------------------------------------------------------------
World == \/ \E h \in Hotkey : Register(h)
         \/ Shrink \/ Tick \/ Include \/ Lose \/ OtherSets

Turn == \/ Forward \/ Sync \/ SkipSync \/ SetWeights \/ SkipWeights
        \/ NoEntry \/ BeginSave \/ EndSave

Stops == Exit \/ Kill \/ Raise \/ SaveFails

Next == World \/ Boot \/ Turn \/ Stops

Spec == Init /\ [][Next]_vars

\* Blocks are produced, a valid extrinsic is included, the thread is
\* scheduled and the process is started.  Nothing makes a hotkey register.
LiveSpec ==
  /\ Spec
  /\ WF_vars(Tick) /\ WF_vars(Include) /\ WF_vars(Boot) /\ WF_vars(Turn)

-----------------------------------------------------------------------------
(***************************************************************************)
(* Properties.                                                             *)
(***************************************************************************)

\* The loop of resize() writes scores[uid] for the uids of the old hotkey
\* list: the list is empty or exactly as long as the array, across growth,
\* shrinking, skipped resizes and restarts, in memory and on disk.
HotkeysFitScores ==
  \A b \in {book, saved} : DOMAIN b.hotkeys \in {{}, DOMAIN b.scores}

\* set_weights() pairs metagraph.uids with the score array by position: the
\* two have one length whenever it runs.
WeightsFitMetagraph ==
  pc = "weights" => DOMAIN book.scores = DOMAIN metaKeys

\* A score is built from the outcomes of one hotkey, the one the metagraph
\* has at the uid: nobody inherits a score, whatever registrations, resyncs
\* and restarts lie in between.
ScoreAttribution ==
  Running => \A u \in Uid :
    book.earned[u] \subseteq (IF u \in DOMAIN metaKeys THEN {metaKeys[u]} ELSE {})

\* A DID on record was proved by the hotkey that the metagraph has there.
DidAttribution ==
  Running => \A u \in Uid :
    book.did[u] # None => u \in DOMAIN metaKeys /\ book.prover[u] = metaKeys[u]

\* No step raises the score of a uid that is a Sybil by the end of it: the
\* DIDs of a round count in the update of the same round.
SybilNeverGains ==
  [][\A u \in DOMAIN book.scores \cap DOMAIN book'.scores :
       u \in Sybils(book') => book'.scores[u] <= book.scores[u]]_vars

\* The scores survive a restart: wherever the last process was when it ended,
\* the next one finds a state file that it can load, or none.
ScoresSurviveRestart == pc # "refused"

\* A validator keeps out of its own scores.
SelfIsNeverJudged == \A u \in Uid : Self \notin book.earned[u]

\* While the validator keeps the uid it reads, weights reach the chain again
\* and again, or there is nothing to set.
WeightsReachTheChain ==
  <>[](pc # "down" /\ Sits(Self, uid, chainKeys)) =>
    \/ []<>(chainAge = 0)
    \/ []<>(pc = "weights" /\ AllZero(book))

\* While the validator runs, a hotkey that keeps its uid is eventually the
\* one the ScoreBook has there, although last_update[self.uid], which times
\* the resyncs, may by then be somebody else's.
NewHotkeysAreNoticed ==
  \A u \in Uid, h \in Hotkey :
    <>[](pc # "down" /\ Sits(h, u, chainKeys)) => <>[]Sits(h, u, book.hotkeys)
=============================================================================
