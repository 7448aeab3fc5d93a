--------------------------- MODULE ForwardProofs ----------------------------
(***************************************************************************)
(* For any number of forwards, miners and samples: what a miner does stays *)
(* inside its own task, and the HTTP clients of a forward live as long as  *)
(* its tasks.                                                              *)
(***************************************************************************)
EXTENDS ForwardPass, TLAPS

\* What the place of a forward says of its tasks and clients.
ByPlace ==
  \A f \in Fwd :
    /\ at[f] \in {"ready", "truth", "gossip", "raised"} => tasks[f] = NoTasks
    /\ at[f] = "ready" => clients[f] = "none"
    /\ at[f] \in {"truth", "gossip", "miners"} => clients[f] = "open"
    /\ at[f] = "done" => clients[f] # "open" /\ Unjudged(f) = {}
    /\ turn = "idle" => at[f] = "done"

IInv == TypeOK /\ ByPlace

LEMMA NoTasksHasNone ==
  /\ DOMAIN NoTasks = {}
  /\ \A s : NoTasks \in UNION {[t -> {"asking", "late", "judged"}] : t \in SUBSET s}
<1>1. DOMAIN NoTasks = {}
  BY DEF NoTasks
<1>2. NoTasks \in [{} -> {"asking", "late", "judged"}]
  BY DEF NoTasks
<1> QED
  BY <1>1, <1>2

LEMMA InitIInv == Init => IInv
<1> SUFFICES ASSUME Init PROVE IInv
  OBVIOUS
<1>1. TypeOK
  BY NoTasksHasNone DEF Init, TypeOK, Seed
<1>2. ByPlace
  BY NoTasksHasNone DEF Init, ByPlace, Unjudged
<1> QED
  BY <1>1, <1>2 DEF IInv

\* A task that is there gets another status.
LEMMA TaskStepTyped ==
  ASSUME TypeOK, NEW f \in Fwd, NEW u \in DOMAIN tasks[f],
         NEW status \in {"asking", "late", "judged"},
         tasks' = [tasks EXCEPT ![f][u] = status],
         UNCHANGED <<seed, turn, present, at, clients>>
  PROVE  TypeOK'
<1>1. PICK s \in SUBSET present : tasks[f] \in [s -> {"asking", "late", "judged"}]
  BY DEF TypeOK
<1>2. [tasks[f] EXCEPT ![u] = status] \in [s -> {"asking", "late", "judged"}]
  BY <1>1
<1>3. tasks' \in [Fwd -> UNION {[t -> {"asking", "late", "judged"}] : t \in SUBSET present}]
  BY <1>1, <1>2 DEF TypeOK
<1> QED
  BY <1>3 DEF TypeOK

LEMMA IInvStep == ASSUME IInv, [Next]_vars PROVE IInv'
<1> USE DEF IInv
<1>1. CASE RefreshBegins \/ RefreshEnds
  BY <1>1 DEF RefreshBegins, RefreshEnds, TypeOK, Seed, ByPlace, Unjudged
<1>2. CASE BeginTurn
  <2>1. TypeOK'
    BY <1>2, NoTasksHasNone DEF BeginTurn, TypeOK
  <2>2. ByPlace'
    BY <1>2, NoTasksHasNone DEF BeginTurn, ByPlace, Unjudged
  <2> QED
    BY <2>1, <2>2
<1>3. ASSUME NEW f \in Fwd, Start(f) PROVE IInv'
  <2>1. TypeOK'
    BY <1>3 DEF Start, TypeOK
  <2>2. tasks[f] = NoTasks
    BY <1>3 DEF Start, ByPlace
  <2>3. ByPlace'
    BY <1>3, <2>2, NoTasksHasNone DEF Start, ByPlace, Unjudged, TypeOK
  <2> QED
    BY <2>1, <2>3
<1>4. ASSUME NEW f \in Fwd, FetchTruth(f) PROVE IInv'
  <2>1. TypeOK'
    BY <1>4 DEF FetchTruth, TypeOK
  <2>2. ByPlace'
    BY <1>4 DEF FetchTruth, Running, ByPlace, Unjudged, TypeOK
  <2> QED
    BY <2>1, <2>2
<1>5. ASSUME NEW f \in Fwd, FetchEvents(f) PROVE IInv'
  <2>1. CASE at' = [at EXCEPT ![f] = "raised"] /\ UNCHANGED tasks
    BY <1>5, <2>1 DEF FetchEvents, Running, TypeOK, ByPlace, Unjudged
  <2>2. ASSUME NEW s \in Samples, at' = [at EXCEPT ![f] = "miners"],
               tasks' = [tasks EXCEPT ![f] = [u \in s |-> "asking"]]
        PROVE  IInv'
    <3>1. [u \in s |-> "asking"]
            \in UNION {[t -> {"asking", "late", "judged"}] : t \in SUBSET present}
      <4>1. s \in SUBSET present
        BY DEF Samples
      <4>2. [u \in s |-> "asking"] \in [s -> {"asking", "late", "judged"}]
        OBVIOUS
      <4> QED
        BY <4>1, <4>2
    <3>2. TypeOK'
      BY <1>5, <2>2, <3>1 DEF FetchEvents, TypeOK
    <3>3. ByPlace'
      BY <1>5, <2>2 DEF FetchEvents, Running, ByPlace, Unjudged, TypeOK
    <3> QED
      BY <3>2, <3>3
  <2> QED
    BY <1>5, <2>1, <2>2 DEF FetchEvents
<1>6. ASSUME NEW f \in Fwd, Finish(f) PROVE IInv'
  <2>1. TypeOK'
    BY <1>6 DEF Finish, TypeOK
  <2>2. ByPlace'
    BY <1>6 DEF Finish, Running, ByPlace, Unjudged, TypeOK
  <2> QED
    BY <2>1, <2>2
<1>7. ASSUME NEW f \in Fwd, NEW u \in present,
             Expire(f, u) \/ Judge(f, u) \/ RoundRaises(f, u)
      PROVE  IInv'
  <2>1. PICK status \in {"asking", "late", "judged"} :
          /\ u \in DOMAIN tasks[f] /\ at[f] = "miners" /\ turn = "running"
          /\ tasks' = [tasks EXCEPT ![f][u] = status]
          /\ UNCHANGED <<seed, turn, present, at, clients>>
    BY <1>7 DEF Expire, Judge, RoundRaises, Running, Unjudged
  <2>2. TypeOK'
    BY <2>1, TaskStepTyped
  <2>3. ByPlace'
    BY <2>1 DEF ByPlace, Unjudged, TypeOK
  <2> QED
    BY <2>2, <2>3
<1>8. CASE EndTurn \/ TurnRaises
  BY <1>8 DEF EndTurn, TurnRaises, TypeOK, ByPlace, Unjudged
<1>9. CASE UNCHANGED vars
  BY <1>9 DEF vars, TypeOK, ByPlace, Unjudged
<1> QED
  BY <1>1, <1>2, <1>3, <1>4, <1>5, <1>6, <1>7, <1>8, <1>9 DEF Next, Work

\* Every variable keeps its type; in particular a task is always one of a uid
\* that the metagraph still has.
THEOREM ForwardTypeCorrect == Spec => []TypeOK
<1>1. IInv => TypeOK
  BY DEF IInv
<1> QED
  BY InitIInv, IInvStep, <1>1, PTL DEF Spec

\* A forward that raises, and so ends the loop of run(), has not asked any
\* miner: one(uid) keeps what a miner causes to that miner's outcome.
THEOREM MinersNeverEndTheLoop == Spec => []MinersCannotEndTheLoop
<1>1. IInv => MinersCannotEndTheLoop
  BY DEF IInv, ByPlace, MinersCannotEndTheLoop
<1> QED
  BY InitIInv, IInvStep, <1>1, PTL DEF Spec

\* No task ever uses a closed client, however forwards overlap, finish or
\* raise.
THEOREM ClientsAlwaysOpenInUse == Spec => []ClientsOpenInUse
<1>1. IInv => ClientsOpenInUse
  BY NoTasksHasNone DEF IInv, ByPlace, ClientsOpenInUse, Unjudged, TypeOK
<1> QED
  BY InitIInv, IInvStep, <1>1, PTL DEF Spec

\* Clients are left open by no turn that ends regularly.
THEOREM ClientsAlwaysClosed == Spec => []ClientsAreClosed
<1>1. IInv => ClientsAreClosed
  BY DEF IInv, ByPlace, ClientsAreClosed
<1> QED
  BY InitIInv, IInvStep, <1>1, PTL DEF Spec
=============================================================================
