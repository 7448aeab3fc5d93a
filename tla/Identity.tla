------------------------------ MODULE Identity ------------------------------
(***************************************************************************)
(* Keys, DIDs and signatures (gitlawbnet/utils/did.py, cert.py) between    *)
(* the miner, which signs the validator's nonces with the key in its file, *)
(* its gitlawb-node, which signs certificates with a key that changes, and *)
(* the validator, which verifies both (challenges.py).                     *)
(*                                                                         *)
(* Base58 and base64 are not spelled out.  A text is bytes written in one  *)
(* of the two; to the decoder of the other it is junk, of any kind: that   *)
(* may well decode it, and even to the length of a signature.  Padding and *)
(* the two alphabets of base64 make no difference to _b64_decode_any().    *)
(*                                                                         *)
(* A definition named in parentheses in a comment is a slip that the code  *)
(* does not make; no specification uses it.                                *)
(***************************************************************************)
EXTENDS Integers, Sequences

CONSTANTS
  Key,       \* Ed25519 keys
  Nonce,     \* nonces of handshakes
  Update,    \* ref updates: a certificate's fields other than node_did and id
  MaxCerts,  \* bound: certificates the node has
  Noise,     \* 64 bytes that are nobody's signature
  Short,     \* bytes of another length
  None       \* no value: a decoder raises, a field is not set

ASSUME BoundIsNatural == MaxCerts \in Nat

VARIABLES
  file,     \* the key file: its format and its key
  key,      \* self.signing_key of the running miner
  did,      \* self.miner_did of the running miner
  nonce,    \* the nonce of the handshake
  answer,   \* the handshake the miner returns: the signer's DID, its signature
  nodeKey,  \* the key of the miner's node
  certs,    \* the certificates the node lists
  genuine   \* certificates as they were issued (history)

vars == <<file, key, did, nonce, answer, nodeKey, certs, genuine>>

-----------------------------------------------------------------------------
(***************************************************************************)
(* Texts.                                                                  *)
(***************************************************************************)

\* A DID: its method, whether its body begins with the z of multibase, and
\* what the body decodes to: the codec's prefix or not, and a key.  A path
\* after the body is cut off.
Did == [method : {"key", "gitlawb"}, z : BOOLEAN, codec : BOOLEAN, key : Key]

\* The signature of a key over a nonce, or over a certificate's bytes.
Signature == [by : Key, over : Nonce \cup (Update \X Did)]
Junk      == {Noise, Short, None}
Text      == [in : {"base64", "base58"}, sig : Signature]

ASSUME NoneIsNoValue == None \notin Key \cup Nonce \cup Text
ASSUME JunkIsUnsigned == Junk \cap Signature = {}

\* What a decoder makes of a text; junk is what it makes of the other's.
Decoded(text, decoder, junk) == IF text.in = decoder THEN text.sig ELSE junk

PubkeyFromDid(d) ==
  IF \/ d.method = "key" /\ d.z /\ d.codec
     \/ d.method = "gitlawb" /\ ~d.z /\ ~d.codec
  THEN d.key ELSE None

DidFromPubkey(k, method) ==
  [method |-> method, z |-> method = "key", codec |-> method = "key", key |-> k]

\* Each decoder is tried, base64 first; what is not 64 bytes or does not
\* verify is passed over.
\* (VerifyFirst: the first that gives 64 bytes decides.)
VerifyFirst(d, message, text, junk) ==
  LET first == Decoded(text, "base64", junk)
      sig   == IF first \in {Short, None} THEN Decoded(text, "base58", junk) ELSE first
  IN /\ PubkeyFromDid(d) # None
     /\ sig = [by |-> PubkeyFromDid(d), over |-> message]
VerifySignature(d, message, text, junk) ==
  /\ PubkeyFromDid(d) # None
  /\ \E decoder \in {"base64", "base58"} :
       Decoded(text, decoder, junk) = [by |-> PubkeyFromDid(d), over |-> message]

\* The fields that are signed, node_did among them, the row's id not.
Certificate == [id : Nat, update : Update, node : Did, sig : Text \cup {None}]
CanonicalBytes(c) == <<c.update, c.node>>

Verifies(c, junk) ==
  c.sig # None /\ VerifySignature(c.node, CanonicalBytes(c), c.sig, junk)

\* verify_ref_certificates().  (VerifyNewest: only the last one is looked at.)
VerifyNewest(cs, junk) == cs # <<>> /\ Verifies(cs[Len(cs)], junk[Len(cs)])
VerifyRefCertificates(cs, junk) == \E i \in DOMAIN cs : Verifies(cs[i], junk[i])

VerifyHandshake(n, a, junk) == VerifySignature(a.did, n, a.sig, junk)

-----------------------------------------------------------------------------
TypeOK ==
  /\ file \in [form : {"seed", "pem", "other"}, key : Key]
  /\ key \in Key \cup {None} /\ did \in Did \cup {None}
  /\ nonce \in Nonce \cup {None}
  /\ answer \in [did : Did, sig : Text] \cup {None}
  /\ nodeKey \in Key
  /\ certs \in Seq(Certificate) /\ Len(certs) <= MaxCerts
  /\ genuine \subseteq Certificate

Init ==
  /\ file \in [form : {"seed", "pem"}, key : Key]
  /\ key = None /\ did = None /\ nonce = None /\ answer = None
  /\ nodeKey \in Key /\ certs = <<>> /\ genuine = {}

-----------------------------------------------------------------------------
(***************************************************************************)
(* The miner.                                                              *)
(***************************************************************************)

\* The operator converts the key file, replaces the key, or spoils the file.
ReplaceFile ==
  /\ file' \in [form : {"seed", "pem", "other"}, key : Key]
  /\ UNCHANGED <<key, did, nonce, answer, nodeKey, certs, genuine>>

\* A miner is started.  The DID is the same whatever the format of the file;
\* a file that is neither a seed nor a PEM ends the start.
\* (StartUnnamed: the DID is left for later.)
StartUnnamed ==
  /\ key = None /\ file.form # "other"
  /\ key' = file.key
  /\ UNCHANGED <<file, did, nonce, answer, nodeKey, certs, genuine>>
StartMiner ==
  /\ key = None /\ file.form # "other"
  /\ key' = file.key /\ did' = DidFromPubkey(key', "key")
  /\ UNCHANGED <<file, nonce, answer, nodeKey, certs, genuine>>

StopMiner ==
  /\ key # None
  /\ key' = None /\ did' = None
  /\ UNCHANGED <<file, nonce, answer, nodeKey, certs, genuine>>

-----------------------------------------------------------------------------
(***************************************************************************)
(* Handshakes.                                                             *)
(***************************************************************************)

MakeHandshake ==
  /\ nonce' \in Nonce /\ answer' = None
  /\ UNCHANGED <<file, key, did, nodeKey, certs, genuine>>

\* The signature comes in base64 from this miner; verify_signature() is meant
\* for base58 as well.
Sign ==
  /\ key # None /\ nonce # None /\ answer = None
  /\ \E in \in {"base64", "base58"} :
       answer' = [did |-> did,
                  sig |-> [in |-> in, sig |-> [by |-> key, over |-> nonce]]]
  /\ UNCHANGED <<file, key, did, nonce, nodeKey, certs, genuine>>

-----------------------------------------------------------------------------
(***************************************************************************)
(* Certificates, of the node.                                              *)
(***************************************************************************)

Rekey ==
  /\ nodeKey' \in Key
  /\ UNCHANGED <<file, key, did, nonce, answer, certs, genuine>>

\* The node names itself by either method.
Issue ==
  /\ Len(certs) < MaxCerts
  /\ \E u \in Update, method \in {"key", "gitlawb"} :
       LET node == DidFromPubkey(nodeKey, method)
           sig  == [by |-> nodeKey, over |-> <<u, node>>]
           c    == [id |-> Len(certs) + 1, update |-> u, node |-> node,
                    sig |-> [in |-> "base64", sig |-> sig]]
       IN certs' = Append(certs, c) /\ genuine' = genuine \cup {c}
  /\ UNCHANGED <<file, key, did, nonce, answer, nodeKey>>

\* A certificate is listed with another update, without its signature, or
\* with a DID that does not parse.
Spoil ==
  /\ \E i \in DOMAIN certs :
       \/ \E u \in Update \ {certs[i].update} : certs' = [certs EXCEPT ![i].update = u]
       \/ certs' = [certs EXCEPT ![i].sig = None]
       \/ certs' = [certs EXCEPT ![i].node.codec = ~@]
  /\ UNCHANGED <<file, key, did, nonce, answer, nodeKey, genuine>>

Next ==
  \/ ReplaceFile \/ StartMiner \/ StopMiner \/ MakeHandshake \/ Sign
  \/ Rekey \/ Issue \/ Spoil

Spec == Init /\ [][Next]_vars

-----------------------------------------------------------------------------
(***************************************************************************)
(* Properties.                                                             *)
(***************************************************************************)

\* What the running miner signs verifies, in every encoding the verifier
\* takes, even where the text decodes in the other one too, and after the
\* miner has stopped or has got another key.
HandshakesVerify ==
  answer # None => \A junk \in Junk : VerifyHandshake(nonce, answer, junk)

\* A list of certificates passes when, and only when, one of them is listed
\* as a node issued it, whatever has become of that node's key and of the
\* other certificates.
GenuineCertificatesVerify ==
  \A junk \in [DOMAIN certs -> Junk] :
    VerifyRefCertificates(certs, junk) <=> \E i \in DOMAIN certs : certs[i] \in genuine
=============================================================================
