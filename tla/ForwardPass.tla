---------------------------- MODULE ForwardPass -----------------------------
(***************************************************************************)
(* The turns of the validator seen from inside: the concurrent forwards of *)
(* concurrent_forward() (neurons/validator.py), each with its load of the  *)
(* seed corpus, its HTTP clients and one task per sampled miner            *)
(* (forward() of gitlawbnet/validator/forward.py), while                   *)
(* scripts/refresh_seed.py rewrites the corpus in another process.         *)
(*                                                                         *)
(* The forwards are tasks of one event loop: they start in order, and      *)
(* switch only where they wait.  What a miner answers is ChallengeRound's  *)
(* subject; here an answer comes, comes too late or upsets the verifier.   *)
(*                                                                         *)
(* A definition named in parentheses in a comment is a slip that the code  *)
(* does not make; no specification uses it.                                *)
(***************************************************************************)
EXTENDS Integers, FiniteSets

CONSTANTS
  Miner,       \* uids of miners
  Mute,        \* those that never answer
  Forwards,    \* --neuron.num_concurrent_forwards
  SampleSize,  \* --neuron.sample_size
  Garbage      \* TRUE: a trusted node may answer with what is not JSON

ASSUME SizesAreNatural == Forwards \in Nat /\ SampleSize \in Nat
ASSUME MinersAreKnown ==
  IsFiniteSet(Miner) /\ Mute \subseteq Miner /\ Garbage \in BOOLEAN

VARIABLES
  seed,     \* the corpus file
  turn,     \* what the thread of run() does
  present,  \* uids of the metagraph other than the validator's
  at,       \* where every forward is
  clients,  \* the HTTP clients of every forward
  tasks     \* the tasks one(uid) of every forward

vars == <<seed, turn, present, at, clients, tasks>>

Fwd == 1 .. Forwards
NoTasks == [u \in {} |-> "asking"]

\* A corpus file is missing, half written, or whole, with or without CIDs.
Seed == {"absent", "torn", "blocks", "none"}

TypeOK ==
  /\ seed \in Seed
  /\ turn \in {"idle", "running", "stopped"}
  /\ present \subseteq Miner
  /\ at \in [Fwd -> {"ready", "truth", "gossip", "miners", "done", "raised"}]
  /\ clients \in [Fwd -> {"none", "open", "closed"}]
  /\ tasks \in [Fwd -> UNION {[s -> {"asking", "late", "judged"}] : s \in SUBSET present}]

Init ==
  /\ seed \in Seed \ {"torn"}
  /\ turn = "idle" /\ present = {}
  /\ at = [f \in Fwd |-> "done"] /\ clients = [f \in Fwd |-> "none"]
  /\ tasks = [f \in Fwd |-> NoTasks]

-----------------------------------------------------------------------------
(***************************************************************************)
(* refresh_seed.py: the file is opened for writing, which empties it, and  *)
(* then written.  The script may die before the end, or be run again.      *)
(***************************************************************************)

RefreshBegins ==
  /\ seed' = "torn"
  /\ UNCHANGED <<turn, present, at, clients, tasks>>

\* A node without pins gives a corpus without CIDs.
RefreshEnds ==
  /\ seed = "torn"
  /\ seed' \in {"blocks", "none"}
  /\ UNCHANGED <<turn, present, at, clients, tasks>>

-----------------------------------------------------------------------------
(***************************************************************************)
(* One forward.                                                            *)
(***************************************************************************)

\* Between two turns the metagraph may have been synced.
BeginTurn ==
  /\ turn = "idle"
  /\ turn' = "running" /\ present' \in SUBSET Miner
  /\ at' = [f \in Fwd |-> "ready"] /\ clients' = [f \in Fwd |-> "none"]
  /\ tasks' = [f \in Fwd |-> NoTasks]
  /\ UNCHANGED seed

Starting == \E f \in Fwd : at[f] = "ready"
Running(f, place) == turn = "running" /\ ~Starting /\ at[f] = place

\* Up to where it first waits: an empty sample ends it, a corpus that does
\* not parse raises before there are any clients, a missing file stands for a
\* corpus with nothing in it.
Start(f) ==
  /\ turn = "running" /\ at[f] = "ready"
  /\ \A g \in 1 .. f - 1 : at[g] # "ready"
  /\ IF SampleSize = 0 \/ present = {}
     THEN at' = [at EXCEPT ![f] = "done"] /\ UNCHANGED clients
     ELSE IF seed = "torn"
     THEN at' = [at EXCEPT ![f] = "raised"] /\ UNCHANGED clients
     ELSE /\ at' = [at EXCEPT ![f] = IF seed = "blocks" THEN "truth" ELSE "gossip"]
          /\ clients' = [clients EXCEPT ![f] = "open"]
  /\ UNCHANGED <<seed, turn, present, tasks>>

\* A trusted node or gateway that fails is passed over.
FetchTruth(f) ==
  /\ Running(f, "truth")
  /\ at' = [at EXCEPT ![f] = "gossip"]
  /\ UNCHANGED <<seed, turn, present, clients, tasks>>

\* (SamplesOfOld: a sample of the uids that used to be there.)
SamplesOfOld == {s \in SUBSET Miner : Cardinality(s) = SampleSize}
Samples == {s \in SUBSET present :
              \/ Cardinality(s) = SampleSize
              \/ s = present /\ Cardinality(s) < SampleSize}

\* The events of the exam are fetched, and then every sampled miner gets its
\* task.  Only the errors of HTTP are caught: others leave forward() before
\* the try.
FetchEvents(f) ==
  /\ Running(f, "gossip")
  /\ \/ /\ at' = [at EXCEPT ![f] = "miners"]
        /\ \E s \in Samples : tasks' = [tasks EXCEPT ![f] = [u \in s |-> "asking"]]
     \/ /\ Garbage
        /\ at' = [at EXCEPT ![f] = "raised"] /\ UNCHANGED tasks
  /\ UNCHANGED <<seed, turn, present, clients>>

Unjudged(f) == {u \in DOMAIN tasks[f] : tasks[f][u] # "judged"}

\* The timeout of the requests to a miner runs out.
Expire(f, u) ==
  /\ Running(f, "miners") /\ u \in Unjudged(f) /\ tasks[f][u] = "asking"
  /\ tasks' = [tasks EXCEPT ![f][u] = "late"]
  /\ UNCHANGED <<seed, turn, present, at, clients>>

\* dendrite() returns with the answer, or without it after the timeout.
\* (Answers: it waits for the answer.)
Answers(f, u) == u \notin Mute
Returns(f, u) == u \notin Mute \/ tasks[f][u] = "late"

Judge(f, u) ==
  /\ Running(f, "miners") /\ u \in Unjudged(f) /\ Returns(f, u)
  /\ tasks' = [tasks EXCEPT ![f][u] = "judged"]
  /\ UNCHANGED <<seed, turn, present, at, clients>>

\* An exception in a round becomes an empty outcome of its miner.
\* (RoundEscapes: it leaves forward(), whose finally closes the clients.)
RoundEscapes(f, u) ==
  /\ Running(f, "miners") /\ u \in Unjudged(f)
  /\ at' = [at EXCEPT ![f] = "raised"]
  /\ clients' = [clients EXCEPT ![f] = "closed"]
  /\ UNCHANGED <<seed, turn, present, tasks>>
RoundRaises(f, u) ==
  /\ Running(f, "miners") /\ u \in Unjudged(f)
  /\ tasks' = [tasks EXCEPT ![f][u] = "judged"]
  /\ UNCHANGED <<seed, turn, present, at, clients>>

\* gather() and the finally.
\* (FinishFirst: the first outcome is enough.  FinishLeaves: no finally.)
FinishFirst(f) ==
  /\ Running(f, "miners") /\ Unjudged(f) # DOMAIN tasks[f]
  /\ at' = [at EXCEPT ![f] = "done"]
  /\ clients' = [clients EXCEPT ![f] = "closed"]
  /\ UNCHANGED <<seed, turn, present, tasks>>
FinishLeaves(f) ==
  /\ Running(f, "miners") /\ Unjudged(f) = {}
  /\ at' = [at EXCEPT ![f] = "done"]
  /\ UNCHANGED <<seed, turn, present, clients, tasks>>
Finish(f) ==
  /\ Running(f, "miners") /\ Unjudged(f) = {}
  /\ at' = [at EXCEPT ![f] = "done"]
  /\ clients' = [clients EXCEPT ![f] = "closed"]
  /\ UNCHANGED <<seed, turn, present, tasks>>

-----------------------------------------------------------------------------
(***************************************************************************)
(* The turn.                                                               *)
(***************************************************************************)

\* All the forwards have returned: their outcomes are recorded, the rest of
\* the loop's body runs.
EndTurn ==
  /\ turn = "running" /\ \A f \in Fwd : at[f] = "done"
  /\ turn' = "idle"
  /\ UNCHANGED <<seed, present, at, clients, tasks>>

\* The first exception of a forward ends the loop of run(), and with it the
\* event loop: the other forwards stay where they are.
TurnRaises ==
  /\ turn = "running" /\ ~Starting /\ \E f \in Fwd : at[f] = "raised"
  /\ turn' = "stopped"
  /\ UNCHANGED <<seed, present, at, clients, tasks>>

Work ==
  \/ \E f \in Fwd :
       \/ Start(f) \/ FetchTruth(f) \/ FetchEvents(f) \/ Finish(f)
       \/ \E u \in present : Expire(f, u) \/ Judge(f, u)
  \/ EndTurn \/ TurnRaises

Next ==
  \/ RefreshBegins \/ RefreshEnds
  \/ BeginTurn \/ Work
  \/ \E f \in Fwd : \E u \in present : RoundRaises(f, u)

\* The event loop runs what is ready, timers included.
Spec == Init /\ [][Next]_vars /\ WF_vars(Work)

-----------------------------------------------------------------------------
(***************************************************************************)
(* Properties.                                                             *)
(***************************************************************************)

\* No miner can end the validator's loop: a forward that raises has not asked
\* any of them.
MinersCannotEndTheLoop ==
  \A f \in Fwd : at[f] = "raised" => tasks[f] = NoTasks

\* As long as one of its miners is not judged, and although other forwards
\* finish or raise meanwhile, a forward has its clients.
ClientsOpenInUse ==
  \A f \in Fwd : Unjudged(f) # {} => clients[f] = "open"

\* No turn that ends regularly leaves clients open.
ClientsAreClosed == turn = "idle" => \A f \in Fwd : clients[f] # "open"

\* Every turn ends, whatever the miners, the trusted nodes and the script do.
TurnEnds == turn = "running" ~> turn # "running"
=============================================================================
