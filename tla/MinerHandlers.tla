---------------------------- MODULE MinerHandlers ---------------------------
(***************************************************************************)
(* The five handlers of the miner (gitlawbnet/miner/handlers.py), one      *)
(* operator each, over the state of the gitlawb-node they query.           *)
(*                                                                         *)
(* A definition named in parentheses in a comment is a slip that the code  *)
(* does not make; no specification uses it.                                *)
(*                                                                         *)
(* A handler makes its HTTP calls in order; served is how many of them the *)
(* node serves before one fails.  The handler's own try stops there and    *)
(* the synapse is returned with the fields set so far; None is a field     *)
(* that was not set.  A block's digest is "block" when it is the salted    *)
(* hash of the block, and "zeros" for a block the node has not pinned.     *)
(***************************************************************************)
EXTENDS Integers, FiniteSets, SequencesExt

CONSTANTS
  Cid,        \* the corpus
  Event,      \* ids of ref-update events
  SigningDid, \* the DID of the key at --gitlawb.signing_key_path
  OtherDid,   \* another identity, which the node may have
  None        \* a field that is not set

ASSUME DidsDiffer == SigningDid # OtherDid /\ None \notin {SigningDid, OtherDid}
ASSUME CorpusIsFinite == IsFiniteSet(Cid) /\ IsFiniteSet(Event)
ASSUME NoneIsNoAnswer ==
  /\ None \notin Nat
  /\ \A ids \in SUBSET Event : SetToSeq(ids) # None
  /\ \A digests \in [Cid -> {"block", "zeros"}] : digests # None

Node == [up : BOOLEAN, did : {SigningDid, OtherDid},
         pins : SUBSET Cid, events : SUBSET Event,
         refs : {"current", "behind", "none"},  \* the repository's head
         certified : BOOLEAN]                   \* a certificate verifies

MaxCalls == Cardinality(Cid) + 2

\* What a node may serve of a handler's calls: a node that is up may still
\* fail any of them when calls are flaky.
Serves(node, flaky) ==
  IF ~node.up THEN {0} ELSE IF flaky THEN 0 .. MaxCalls ELSE {MaxCalls}

-----------------------------------------------------------------------------
\* The caches of the Handlers object: node_info()'s DID, and p2p_info().
Cache   == [info : {SigningDid, OtherDid, None},
            p2p : {"unknown", "known", "disabled"}]
NoCache == [info |-> None, p2p |-> "unknown"]

\* The answers before anything is set.
NoHandshake == [did |-> None, signer |-> None]
NoStorage   == [digests |-> None]
NoLatency   == [ms |-> None, head |-> None]
NoGossip    == [seen |-> None, peers |-> None]
NoRefs      == [certified |-> None]

\* handshake(): the node's info is fetched once per process, and so is its
\* p2p info, a failure of which is remembered like a success.  A node DID
\* that is not the key's is only logged.
InfoKnown(cache, served) == cache.info # None \/ served > 0
HandshakeCache(cache, node, served) ==
  IF ~InfoKnown(cache, served) THEN cache
  ELSE LET asked == IF cache.info = None THEN 1 ELSE 0
       IN [info |-> IF cache.info = None THEN node.did ELSE cache.info,
           p2p  |-> IF cache.p2p # "unknown" THEN cache.p2p
                    ELSE IF served > asked THEN "known" ELSE "disabled"]
Handshake(cache, served) ==
  IF InfoKnown(cache, served)
  THEN [did |-> SigningDid, signer |-> SigningDid] ELSE NoHandshake

\* storage(): one call per CID, then list_pins() and the signature, which the
\* validator does not read.
\* (DigestsOfPins: a block that is not pinned is left out.)
DigestsOfPins(node) == [c \in node.pins |-> "block"]
Digests(node) == [c \in Cid |-> IF c \in node.pins THEN "block" ELSE "zeros"]
Storage(node, served) ==
  IF served < Cardinality(Cid) THEN NoStorage ELSE [digests |-> Digests(node)]

\* latency(): the head is the empty string when the repo has no refs.
Latency(refs, served, ms) ==
  IF served = 0 THEN NoLatency ELSE [ms |-> ms, head |-> refs]

\* gossip(): list_ref_updates(), then list_peers() and the signature.  The ids
\* that are asked for are different ones, so each is listed at most once; the
\* order means nothing to the validator.
Gossip(node, served, ids, peers) ==
  IF served = 0 THEN NoGossip
  ELSE [seen  |-> SetToSeq(ids \cap node.events),
        peers |-> IF served > 1 THEN peers ELSE None]

\* ref_integrity(): certificates are the node's own.
RefIntegrity(node, served) ==
  IF served = 0 THEN NoRefs ELSE [certified |-> node.certified]
=============================================================================
