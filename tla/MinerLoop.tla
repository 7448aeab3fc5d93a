----------------------------- MODULE MinerLoop ------------------------------
(***************************************************************************)
(* The miner process (neurons/miner.py over base/neuron.py): the thread    *)
(* that serves the axon and resyncs the metagraph, and the access control  *)
(* that reads this metagraph.                                              *)
(*                                                                         *)
(* A definition named in parentheses in a comment is a slip that the code  *)
(* does not make; no specification uses it.                                *)
(*                                                                         *)
(* The loop compares block - last_update[self.uid] to the epoch length, so *)
(* ages are kept instead of block numbers, up to Epoch + 1, as in          *)
(* Validator.  A miner sets no weights: its last_update moves only when    *)
(* its uid is registered anew.                                             *)
(***************************************************************************)
EXTENDS Integers

CONSTANTS
  Caller,              \* hotkeys that query the miner
  Epoch,               \* --neuron.epoch_length
  AllowNonRegistered,  \* --blacklist.allow_non_registered
  ForcePermit,         \* --blacklist.force_validator_permit
  MayHappen            \* which of the events below may happen

ASSUME ConfigIsValid ==
  /\ Epoch \in Nat
  /\ {AllowNonRegistered, ForcePermit} \subseteq BOOLEAN
ASSUME EventsAreKnown ==
  MayHappen \subseteq {"exit",     \* the context manager is left
                       "raise",    \* an exception in the loop, or just before
                       "sick",     \* an exception in _preflight()
                       "replace"}  \* somebody else gets the miner's uid

VARIABLES
  standing,   \* the chain: what it knows of every caller
  chainAge,   \* blocks since the chain's last_update[self.uid]
  pc,         \* where the thread is
  exit,       \* self.should_exit
  axon,       \* the axon serves requests
  known,      \* self.metagraph: the copy of standing
  metaAge     \* blocks since the metagraph's last_update[self.uid]

vars == <<standing, chainAge, pc, exit, axon, known, metaAge>>

Age == 0 .. Epoch + 1
Older(age) == IF age > Epoch THEN age ELSE age + 1

\* Registered with a permit or the stake for one, registered without, or not.
Standing == {"permitted", "poor", "unregistered"}

TypeOK ==
  /\ standing \in [Caller -> Standing] /\ known \in [Caller -> Standing]
  /\ chainAge \in Age /\ metaAge \in Age
  /\ pc \in {"preflight", "serve", "top", "wait", "tail", "stopped"}
  /\ exit \in BOOLEAN /\ axon \in BOOLEAN

Init ==
  /\ standing \in [Caller -> Standing] /\ known = standing
  /\ chainAge \in Age /\ metaAge = chainAge
  /\ pc = "preflight" /\ exit = FALSE /\ axon = FALSE

-----------------------------------------------------------------------------
\* The chain and the operator.
Tick ==
  /\ chainAge' = Older(chainAge) /\ metaAge' = Older(metaAge)
  /\ UNCHANGED <<standing, pc, exit, axon, known>>

Change(c) ==
  /\ \E s \in Standing \ {standing[c]} : standing' = [standing EXCEPT ![c] = s]
  /\ UNCHANGED <<chainAge, pc, exit, axon, known, metaAge>>

Replace ==
  /\ "replace" \in MayHappen
  /\ chainAge' = 0
  /\ UNCHANGED <<standing, pc, exit, axon, known, metaAge>>

AskToExit ==
  /\ "exit" \in MayHappen
  /\ exit' = TRUE
  /\ UNCHANGED <<standing, chainAge, pc, axon, known, metaAge>>

-----------------------------------------------------------------------------
(***************************************************************************)
(* run().                                                                  *)
(***************************************************************************)

\* _preflight() runs before the try: without a healthy node, or an event loop
\* for this thread, the exception ends the thread.
Preflight ==
  /\ pc = "preflight"
  /\ pc' = "serve" \/ ("sick" \in MayHappen /\ pc' = "stopped")
  /\ UNCHANGED <<standing, chainAge, exit, axon, known, metaAge>>

Serve ==
  /\ pc = "serve"
  /\ axon' = TRUE /\ pc' = "top"
  /\ UNCHANGED <<standing, chainAge, exit, known, metaAge>>

\* while not self.should_exit; the axon is stopped on the way out.
\* (TopForgets: the axon is left to the process.)
TopForgets ==
  /\ pc = "top"
  /\ pc' = IF exit THEN "stopped" ELSE "wait"
  /\ UNCHANGED <<standing, chainAge, exit, axon, known, metaAge>>
Top ==
  /\ pc = "top"
  /\ IF exit THEN pc' = "stopped" /\ axon' = FALSE
             ELSE pc' = "wait" /\ UNCHANGED axon
  /\ UNCHANGED <<standing, chainAge, exit, known, metaAge>>

\* Sleeps while the epoch lasts, unless it is time to exit.
\* (EpochOver: should_exit is not looked at while sleeping.)
EpochOver == metaAge >= Epoch
Awake     == metaAge >= Epoch \/ exit
Wait ==
  /\ pc = "wait" /\ Awake
  /\ pc' = "tail"
  /\ UNCHANGED <<standing, chainAge, exit, axon, known, metaAge>>

\* (ShouldSyncOnTheBlock: only on the block that ends the epoch.)
ShouldSyncOnTheBlock == metaAge = Epoch
ShouldSync == metaAge > Epoch

\* (ResyncRegistered: the copy has no place for other callers.)
ResyncRegistered ==
  /\ pc = "tail" /\ ShouldSync
  /\ known' = [c \in {x \in Caller : standing[x] # "unregistered"} |-> standing[c]]
  /\ metaAge' = chainAge /\ pc' = "top"
  /\ UNCHANGED <<standing, chainAge, exit, axon>>
Resync ==
  /\ pc = "tail" /\ ShouldSync
  /\ known' = standing /\ metaAge' = chainAge
  /\ pc' = "top"
  /\ UNCHANGED <<standing, chainAge, exit, axon>>

NoResync ==
  /\ pc = "tail" /\ ~ShouldSync
  /\ pc' = "top"
  /\ UNCHANGED <<standing, chainAge, exit, axon, known, metaAge>>

\* Any exception in the loop, a failed call to the chain for one, or of
\* axon.serve() before it.
Raise ==
  /\ "raise" \in MayHappen /\ pc \in {"serve", "wait", "tail"}
  /\ pc' = "stopped" /\ axon' = FALSE
  /\ UNCHANGED <<standing, chainAge, exit, known, metaAge>>

Thread == Preflight \/ Serve \/ Top \/ Wait \/ Resync \/ NoResync

Next == Tick \/ (\E c \in Caller : Change(c)) \/ Replace \/ AskToExit \/ Thread \/ Raise

Spec == Init /\ [][Next]_vars

\* The thread is scheduled, whatever the chain does.
FairSpec == Spec /\ WF_vars(Thread)

-----------------------------------------------------------------------------
(***************************************************************************)
(* Access control: _shared_blacklist().                                    *)
(***************************************************************************)

Refused(c) ==
  \/ known[c] = "unregistered" /\ ~AllowNonRegistered
  \/ known[c] = "poor" /\ ForcePermit

-----------------------------------------------------------------------------
(***************************************************************************)
(* Properties.                                                             *)
(***************************************************************************)

\* Requests are served only while the loop that keeps the metagraph fresh
\* is alive.
ServesWhileLooping == axon => pc \in {"top", "wait", "tail"}

\* Once asked to, the thread ends, even if no block is ever produced again.
StopsWhenAsked == exit ~> pc = "stopped"

\* While blocks are produced and the thread does not end, a caller that gets
\* a permit, and keeps it, is eventually served for good.
PermittedCallersAreServed ==
  WF_vars(Tick) => \A c \in Caller :
    <>[](standing[c] = "permitted") => <>[](axon /\ ~Refused(c)) \/ <>(pc = "stopped")
=============================================================================
