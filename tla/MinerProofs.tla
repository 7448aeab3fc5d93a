---------------------------- MODULE MinerProofs -----------------------------
(***************************************************************************)
(* For every epoch length, set of callers and access policy: the miner     *)
(* serves only while its loop lives.                                       *)
(***************************************************************************)
EXTENDS MinerLoop, TLAPS

IInv == TypeOK /\ ServesWhileLooping

LEMMA OlderIsAge == ASSUME NEW age \in Age PROVE Older(age) \in Age
BY ConfigIsValid DEF Age, Older

LEMMA InitIInv == Init => IInv
BY DEF Init, IInv, TypeOK, ServesWhileLooping

LEMMA IInvStep == ASSUME IInv, [Next]_vars PROVE IInv'
<1> USE DEF IInv, TypeOK, ServesWhileLooping
<1>1. CASE Tick
  BY <1>1, OlderIsAge DEF Tick
<1>2. ASSUME NEW c \in Caller, Change(c) PROVE IInv'
  BY <1>2 DEF Change
<1>3. CASE Replace
  <2>1. 0 \in Age
    BY ConfigIsValid DEF Age
  <2> QED
    BY <1>3, <2>1 DEF Replace
<1>4. CASE AskToExit
  BY <1>4 DEF AskToExit
<1>5. CASE Preflight
  BY <1>5 DEF Preflight
<1>6. CASE Serve
  BY <1>6 DEF Serve
<1>7. CASE Top
  BY <1>7 DEF Top
<1>8. CASE Wait
  BY <1>8 DEF Wait
<1>9. CASE Resync
  BY <1>9 DEF Resync
<1>10. CASE NoResync
  BY <1>10 DEF NoResync
<1>11. CASE Raise
  BY <1>11 DEF Raise
<1>12. CASE UNCHANGED vars
  BY <1>12 DEF vars
<1> QED
  BY <1>1, <1>2, <1>3, <1>4, <1>5, <1>6, <1>7, <1>8, <1>9, <1>10, <1>11, <1>12
     DEF Next, Thread

\* Every variable keeps its type, the copied metagraph included.
THEOREM MinerTypeCorrect == Spec => []TypeOK
<1>1. IInv => TypeOK
  BY DEF IInv
<1> QED
  BY InitIInv, IInvStep, <1>1, PTL DEF Spec

\* However the loop ends, asked to, by an exception in it or by a failed
\* preflight, the axon does not serve without it.
THEOREM ServesOnlyWhileLooping == Spec => []ServesWhileLooping
<1>1. IInv => ServesWhileLooping
  BY DEF IInv
<1> QED
  BY InitIInv, IInvStep, <1>1, PTL DEF Spec
=============================================================================
