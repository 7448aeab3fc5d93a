----------------------------- MODULE GossipExam -----------------------------
(***************************************************************************)
(* The gossip probe: which ref-update events the validator asks for        *)
(* (_recent_gossip_events() of gitlawbnet/validator/forward.py) and which  *)
(* of them the miner reports (its gossip handler, miner/handlers.py),      *)
(* while events go on spreading between the nodes.                         *)
(*                                                                         *)
(* A node lists the events that reached it, newest first; a list request   *)
(* has a limit.  The validator asks its trusted nodes one after the other, *)
(* and stops at the first that has a recent event.  The other challenges   *)
(* of the round lie between that and the question to the miner.            *)
(*                                                                         *)
(* Ages are in units of a clock of which max_age_s is MaxAge, and stop     *)
(* growing at MaxAge + 1.  An age is what the validator computes, negative *)
(* when a node's clock is ahead of its own.                                *)
(*                                                                         *)
(* A definition named in parentheses in a comment is a slip that the code  *)
(* does not make; no specification uses it.                                *)
(***************************************************************************)
EXTENDS Integers, FiniteSets, Sequences, Functions

CONSTANTS
  Event,      \* ids of the events there will ever be
  Garbled,    \* events whose timestamp fromisoformat() refuses
  Sources,    \* number of trusted nodes
  Ahead,      \* those of them whose clock is ahead
  Limit,      \* of the validator's list request, 100
  Window,     \* of the miner's list request, 200
  Cap,        \* event ids in a challenge, 20
  MaxAge,     \* max_age_s
  Delay,      \* an event reaches every node within Delay; from MaxAge + 1
              \*   on, no promise
  None,       \* a field that is not set
  MayFail     \* TRUE: a trusted node may not answer

ASSUME LimitsArePositive ==
  {Sources, Limit, Window, Cap, MaxAge, Delay} \subseteq Nat \ {0}
ASSUME EventsAreKnown ==
  IsFiniteSet(Event) /\ Garbled \subseteq Event /\ Ahead \subseteq 1 .. Sources
ASSUME FailuresAreKnown == MayFail \in BOOLEAN

Trusted == 1 .. Sources
Miner   == 0
Node    == {Miner} \cup Trusted

VARIABLES
  log,      \* what every node lists, newest first
  age,      \* age of a trusted node's events
  phase,    \* where forward() is
  source,   \* the trusted node that is next
  ids,      \* gossip_event_ids
  seen,     \* what the miner last reported, None if it did not
  before,   \* while there is nothing to ask: the events the trusted nodes
            \*   had when forward() began (history)
  failed,   \* and those of them that did not answer since (history)
  held,     \* ids among the miner's latest Limit when they were chosen (history)
  arrived   \* events that reached the miner's node since then (history)

vars == <<log, age, phase, source, ids, seen, before, failed, held, arrived>>

Age == -1 .. MaxAge + 1
Has(n)       == Range(log[n])
Latest(n, k) == {log[n][i] : i \in {j \in DOMAIN log[n] : j <= k}}

NothingYet == [n \in Trusted |-> {}]

TypeOK ==
  /\ log \in [Node -> Seq(Event)] /\ \A n \in Node : IsInjective(log[n])
  /\ age \in [Trusted -> [Event -> Age]]
  /\ phase \in {"idle", "fetch", "ask"} /\ source \in Trusted
  /\ ids \subseteq Event /\ Cardinality(ids) <= Cap
  /\ seen = None \/ (seen \subseteq Event /\ Cardinality(seen) <= Cap)
  /\ before \in [Trusted -> SUBSET Event] /\ failed \subseteq Trusted
  /\ held \subseteq ids /\ arrived \in 0 .. Cardinality(Event)

Init ==
  /\ log = [n \in Node |-> <<>>] /\ age = [n \in Trusted |-> [e \in Event |-> 0]]
  /\ phase = "idle" /\ source = 1 /\ ids = {} /\ seen = None
  /\ before = NothingYet /\ failed = {} /\ held = {} /\ arrived = 0

-----------------------------------------------------------------------------
(***************************************************************************)
(* Gossip.                                                                 *)
(***************************************************************************)

Receive(n, e) ==
  /\ e \notin Has(n)
  /\ log' = [log EXCEPT ![n] = <<e>> \o @]
  /\ age' = IF n \in Ahead THEN [age EXCEPT ![n][e] = -1] ELSE age
  /\ arrived' = IF n = Miner /\ phase = "ask" THEN arrived + 1 ELSE arrived
  /\ UNCHANGED <<phase, source, ids, seen, before, failed, held>>

\* Time passes, as long as no event is overdue anywhere.
Tick ==
  /\ \A n \in Trusted : \A e \in Has(n) :
       age[n][e] >= Delay => \A m \in Node : e \in Has(m)
  /\ age' = [n \in Trusted |-> [e \in Event |->
               IF e \in Has(n) /\ age[n][e] <= MaxAge THEN age[n][e] + 1 ELSE age[n][e]]]
  /\ \E n \in Trusted : age' # age
  /\ UNCHANGED <<log, phase, source, ids, seen, before, failed, held, arrived>>

-----------------------------------------------------------------------------
(***************************************************************************)
(* The validator and the miner.                                            *)
(***************************************************************************)

BeginForward ==
  /\ phase = "idle"
  /\ phase' = "fetch" /\ source' = 1 /\ seen' = None
  /\ before' = [n \in Trusted |-> Has(n)]
  /\ UNCHANGED <<log, age, ids, failed, held, arrived>>

\* A timestamp that cannot be parsed is as good as now.
Recent(n, e) == e \in Garbled \/ age[n][e] \in 0 .. MaxAge

\* The places of recent events in what a node lists.
RecentAt(n) == {i \in DOMAIN log[n] : i <= Limit /\ Recent(n, log[n][i])}

\* The events at the first Cap of them.
Chosen(n) ==
  {log[n][i] : i \in {j \in RecentAt(n) : Cardinality(RecentAt(n) \cap 1 .. j) <= Cap}}

\* After a trusted node that has nothing recent the next one is asked.
\* (SettledByAnswer: the first that answers decides.)
SettledByAnswer(found, answers) == answers \/ source = Sources
Settled(found, answers)  == found # {} \/ source = Sources

\* One trusted node's turn; one that does not answer has nothing.
Fetch ==
  /\ phase = "fetch"
  /\ \E answers \in {TRUE, ~MayFail} :
       LET found == IF answers THEN Chosen(source) ELSE {}
       IN /\ ids' = found
          /\ before' = IF found = {} THEN before ELSE NothingYet
          /\ failed' = IF found # {} THEN {}
                       ELSE IF answers THEN failed ELSE failed \cup {source}
          /\ IF Settled(found, answers)
             THEN phase' = "ask" /\ source' = 1
             ELSE phase' = phase /\ source' = source + 1
          /\ held' = found \cap Latest(Miner, Limit)
  /\ arrived' = 0
  /\ UNCHANGED <<log, age, seen>>

\* (SeenInLimit: the miner asks for no more than the validator did.)
SeenInLimit(exam) == exam \cap Latest(Miner, Limit)

\* (SeenAny: whatever its node lists.)
SeenAny(exam) == Latest(Miner, Window)

\* The handler: the ids that the miner's node lists.
Seen(exam) == exam \cap Latest(Miner, Window)

\* An empty exam is not put to the miner.
Ask ==
  /\ phase = "ask"
  /\ \/ ids # {} /\ seen' = Seen(ids)
     \/ ids = {} /\ seen' = None
  /\ phase' = "idle" /\ ids' = {}
  /\ before' = NothingYet /\ failed' = {} /\ held' = {} /\ arrived' = 0
  /\ UNCHANGED <<log, age, source>>

Gossip == (\E n \in Node, e \in Event : Receive(n, e)) \/ Tick
Forward == BeginForward \/ Fetch \/ Ask

Next == Gossip \/ Forward

Spec == Init /\ [][Next]_vars

-----------------------------------------------------------------------------
(***************************************************************************)
(* Properties.                                                             *)
(***************************************************************************)

\* A miner whose node had an event among its latest Limit when the validator
\* chose it reports it, although more events arrive before it is asked: the
\* miner's window leaves room for Window - Limit of them.
WindowLeavesRoom ==
  [][Ask /\ seen' # None /\ arrived <= Window - Limit => held \subseteq seen']_vars

\* The gossip component is neutral only on a quiet network: an event that a
\* trusted node had when forward() began, and that is still recent, is never
\* hidden by another trusted node that is behind or does not answer.
EmptyMeansQuiet ==
  phase = "ask" /\ ids = {} =>
    \A n \in Trusted \ (failed \cup Ahead) : \A e \in before[n] : age[n][e] > MaxAge
=============================================================================
