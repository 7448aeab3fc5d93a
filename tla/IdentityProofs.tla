--------------------------- MODULE IdentityProofs ---------------------------
(***************************************************************************)
(* For any keys, nonces and updates, and whatever the two decoders make of *)
(* each other's texts: what was signed verifies, and nothing else does.    *)
(***************************************************************************)
EXTENDS Identity, TLAPS

\* The running miner and its answer go by the did:key of their key.
MinerInv ==
  /\ key # None => did = DidFromPubkey(key, "key")
  /\ answer # None =>
       /\ answer.did = DidFromPubkey(answer.sig.sig.by, "key")
       /\ nonce # None /\ answer.sig.sig.over = nonce

\* A certificate as a node issues it.
IsGenuine(g) ==
  /\ g.sig \in Text
  /\ g.sig.sig.by = PubkeyFromDid(g.node) /\ PubkeyFromDid(g.node) # None
  /\ g.sig.sig.over = <<g.update, g.node>>

\* What is listed was issued, but for the ways in which it may be spoiled.
CertInv ==
  /\ \A g \in genuine : IsGenuine(g)
  /\ \A i \in DOMAIN certs : \E g \in genuine :
       certs[i].id = g.id /\ certs[i].sig \in {None, g.sig}

IInv == TypeOK /\ MinerInv /\ CertInv

-----------------------------------------------------------------------------
LEMMA DidsRoundTrip ==
  ASSUME NEW k \in Key, NEW method \in {"key", "gitlawb"}
  PROVE  /\ DidFromPubkey(k, method) \in Did
         /\ PubkeyFromDid(DidFromPubkey(k, method)) = k
BY DEF DidFromPubkey, PubkeyFromDid, Did

LEMMA PubkeyTyped == ASSUME NEW d \in Did PROVE PubkeyFromDid(d) \in Key \cup {None}
BY DEF PubkeyFromDid, Did

LEMMA InitIInv == Init => IInv
<1> SUFFICES ASSUME Init PROVE IInv
  OBVIOUS
<1>1. TypeOK
  BY BoundIsNatural DEF Init, TypeOK
<1>2. MinerInv /\ CertInv
  BY DEF Init, MinerInv, CertInv
<1> QED
  BY <1>1, <1>2 DEF IInv

LEMMA SignStep == ASSUME IInv, Sign PROVE IInv'
<1> DEFINE sig == [by |-> key, over |-> nonce]
<1>1. key \in Key /\ nonce \in Nonce /\ did = DidFromPubkey(key, "key")
  BY DEF IInv, TypeOK, MinerInv, Sign
<1>2. PICK in \in {"base64", "base58"} :
        answer' = [did |-> did, sig |-> [in |-> in, sig |-> sig]]
  BY DEF Sign
<1>3. [in |-> in, sig |-> sig] \in Text
  BY <1>1 DEF Text, Signature
<1>4. did \in Did
  BY <1>1, DidsRoundTrip
<1>5. TypeOK'
  BY <1>2, <1>3, <1>4 DEF Sign, IInv, TypeOK
<1>6. MinerInv'
  BY <1>1, <1>2, NoneIsNoValue DEF Sign, IInv, MinerInv
<1>7. CertInv'
  BY DEF Sign, IInv, CertInv
<1> QED
  BY <1>5, <1>6, <1>7 DEF IInv

LEMMA IssueStep == ASSUME IInv, Issue PROVE IInv'
<1>1. PICK u \in Update, method \in {"key", "gitlawb"} :
        LET node == DidFromPubkey(nodeKey, method)
            sig  == [by |-> nodeKey, over |-> <<u, node>>]
            c    == [id |-> Len(certs) + 1, update |-> u, node |-> node,
                     sig |-> [in |-> "base64", sig |-> sig]]
        IN certs' = Append(certs, c) /\ genuine' = genuine \cup {c}
  BY DEF Issue
<1> DEFINE node == DidFromPubkey(nodeKey, method)
           text == [in |-> "base64", sig |-> [by |-> nodeKey, over |-> <<u, node>>]]
           c    == [id |-> Len(certs) + 1, update |-> u, node |-> node, sig |-> text]
<1>2. certs' = Append(certs, c) /\ genuine' = genuine \cup {c}
  BY <1>1
<1>3. nodeKey \in Key /\ certs \in Seq(Certificate) /\ Len(certs) \in Nat
      /\ Len(certs) < MaxCerts
  BY DEF IInv, TypeOK, Issue
<1>4. node \in Did /\ PubkeyFromDid(node) = nodeKey
  BY <1>3, DidsRoundTrip
<1>5. text \in Text
  BY <1>3, <1>4 DEF Text, Signature
<1>6. c \in Certificate
  BY <1>3, <1>4, <1>5 DEF Certificate
<1>7. TypeOK'
  <2>1. certs' \in Seq(Certificate) /\ Len(certs') = Len(certs) + 1
    BY <1>2, <1>3, <1>6
  <2>2. Len(certs') <= MaxCerts
    BY <2>1, <1>3, BoundIsNatural
  <2> QED
    BY <1>2, <1>6, <2>1, <2>2 DEF Issue, IInv, TypeOK
<1>8. MinerInv'
  BY DEF Issue, IInv, MinerInv
<1>9. CertInv'
  <2>1. IsGenuine(c)
    BY <1>3, <1>4, <1>5, NoneIsNoValue DEF IsGenuine
  <2>2. \A g \in genuine' : IsGenuine(g)
    BY <2>1, <1>2 DEF IInv, CertInv
  <2>3. ASSUME NEW i \in DOMAIN certs'
        PROVE  \E g \in genuine' : certs'[i].id = g.id /\ certs'[i].sig \in {None, g.sig}
    <3>1. CASE i = Len(certs) + 1
      <4>1. certs'[i] = c /\ c \in genuine'
        BY <3>1, <1>2, <1>3
      <4>2. c.id = c.id /\ c.sig \in {None, c.sig}
        OBVIOUS
      <4> HIDE DEF c
      <4> QED
        BY <4>1, <4>2
    <3>2. CASE i # Len(certs) + 1
      <4>1. i \in DOMAIN certs /\ certs'[i] = certs[i]
        BY <3>2, <2>3, <1>2, <1>3
      <4> QED
        BY <4>1, <1>2 DEF IInv, CertInv
    <3> QED
      BY <3>1, <3>2
  <2> QED
    BY <2>2, <2>3 DEF CertInv
<1> QED
  BY <1>7, <1>8, <1>9 DEF IInv

LEMMA SpoilStep == ASSUME IInv, Spoil PROVE IInv'
<1>1. PICK i \in DOMAIN certs :
        \/ \E u \in Update : certs' = [certs EXCEPT ![i].update = u]
        \/ certs' = [certs EXCEPT ![i].sig = None]
        \/ certs' = [certs EXCEPT ![i].node.codec = ~@]
  BY DEF Spoil
<1>2. certs \in Seq(Certificate) /\ Len(certs) <= MaxCerts /\ certs[i] \in Certificate
  BY <1>1 DEF IInv, TypeOK
<1>3. PICK c \in Certificate :
        /\ certs' = [certs EXCEPT ![i] = c]
        /\ c.id = certs[i].id /\ c.sig \in {None, certs[i].sig}
  <2>1. ASSUME NEW u \in Update, certs' = [certs EXCEPT ![i].update = u]
        PROVE  \E c \in Certificate : /\ certs' = [certs EXCEPT ![i] = c]
                                      /\ c.id = certs[i].id
                                      /\ c.sig \in {None, certs[i].sig}
    <3>1. [certs[i] EXCEPT !.update = u] \in Certificate
      BY <1>2 DEF Certificate
    <3> QED
      BY <2>1, <3>1, <1>2 DEF Certificate
  <2>2. CASE certs' = [certs EXCEPT ![i].sig = None]
    <3>1. [certs[i] EXCEPT !.sig = None] \in Certificate
      BY <1>2 DEF Certificate
    <3> QED
      BY <2>2, <3>1, <1>2 DEF Certificate
  <2>3. CASE certs' = [certs EXCEPT ![i].node.codec = ~@]
    <3>1. [certs[i].node EXCEPT !.codec = ~@] \in Did
      BY <1>2 DEF Certificate, Did
    <3>2. [certs[i] EXCEPT !.node.codec = ~@] \in Certificate
      BY <3>1, <1>2 DEF Certificate
    <3> QED
      BY <2>3, <3>2, <1>2 DEF Certificate
  <2> QED
    BY <1>1, <2>1, <2>2, <2>3
<1>4. TypeOK'
  <2>1. certs' \in Seq(Certificate) /\ Len(certs') = Len(certs)
    BY <1>1, <1>2, <1>3
  <2> QED
    BY <2>1, <1>2 DEF Spoil, IInv, TypeOK
<1>5. MinerInv'
  BY DEF Spoil, IInv, MinerInv
<1>6. CertInv'
  <2>1. ASSUME NEW j \in DOMAIN certs'
        PROVE  \E g \in genuine : certs'[j].id = g.id /\ certs'[j].sig \in {None, g.sig}
    <3>1. j \in DOMAIN certs
      BY <1>2, <1>3
    <3>2. PICK g \in genuine : certs[j].id = g.id /\ certs[j].sig \in {None, g.sig}
      BY <3>1 DEF IInv, CertInv
    <3> QED
      BY <1>2, <1>3, <3>1, <3>2
  <2> QED
    BY <2>1 DEF Spoil, IInv, CertInv
<1> QED
  BY <1>4, <1>5, <1>6 DEF IInv

LEMMA IInvStep == ASSUME IInv, [Next]_vars PROVE IInv'
<1> USE DEF IInv
<1>1. CASE ReplaceFile
  BY <1>1 DEF ReplaceFile, TypeOK, MinerInv, CertInv
<1>2. CASE StartMiner
  <2>1. key' \in Key /\ did' = DidFromPubkey(key', "key") /\ did' \in Did
    BY <1>2, DidsRoundTrip DEF StartMiner, TypeOK
  <2>2. TypeOK'
    BY <1>2, <2>1 DEF StartMiner, TypeOK
  <2>3. MinerInv'
    BY <1>2, <2>1 DEF StartMiner, MinerInv
  <2>4. CertInv'
    BY <1>2 DEF StartMiner, CertInv
  <2> QED
    BY <2>2, <2>3, <2>4
<1>3. CASE StopMiner
  BY <1>3 DEF StopMiner, TypeOK, MinerInv, CertInv
<1>4. CASE MakeHandshake
  BY <1>4 DEF MakeHandshake, TypeOK, MinerInv, CertInv
<1>5. CASE Sign
  BY <1>5, SignStep
<1>6. CASE Rekey
  BY <1>6 DEF Rekey, TypeOK, MinerInv, CertInv
<1>7. CASE Issue
  BY <1>7, IssueStep
<1>8. CASE Spoil
  BY <1>8, SpoilStep
<1>9. CASE UNCHANGED vars
  BY <1>9 DEF vars, TypeOK, MinerInv, CertInv
<1> QED
  BY <1>1, <1>2, <1>3, <1>4, <1>5, <1>6, <1>7, <1>8, <1>9 DEF Next

-----------------------------------------------------------------------------
\* Every variable keeps its type.
THEOREM IdentityTypeCorrect == Spec => []TypeOK
<1>1. IInv => TypeOK
  BY DEF IInv
<1> QED
  BY InitIInv, IInvStep, <1>1, PTL DEF Spec

\* A miner's handshake verifies in either encoding, whatever the decoder of
\* the other one makes of it.
THEOREM HandshakesAlwaysVerify == Spec => []HandshakesVerify
<1>1. IInv => HandshakesVerify
  <2> SUFFICES ASSUME IInv, answer # None, NEW junk \in Junk
               PROVE  VerifyHandshake(nonce, answer, junk)
    BY DEF HandshakesVerify
  <2> DEFINE k == answer.sig.sig.by
  <2>1. /\ answer.sig \in Text /\ k \in Key
        /\ answer.sig.sig = [by |-> k, over |-> nonce]
        /\ answer.did = DidFromPubkey(k, "key")
    BY DEF IInv, TypeOK, MinerInv, Text, Signature
  <2>2. PubkeyFromDid(answer.did) = k /\ k # None
    BY <2>1, DidsRoundTrip, NoneIsNoValue
  <2>3. PICK decoder \in {"base64", "base58"} : answer.sig.in = decoder
    BY <2>1 DEF Text
  <2>4. Decoded(answer.sig, decoder, junk) = [by |-> k, over |-> nonce]
    BY <2>1, <2>3 DEF Decoded
  <2> QED
    BY <2>2, <2>4 DEF VerifyHandshake, VerifySignature
<1> QED
  BY InitIInv, IInvStep, <1>1, PTL DEF Spec

LEMMA OnlyGenuineVerifies ==
  ASSUME IInv, NEW i \in DOMAIN certs, NEW junk \in Junk
  PROVE  Verifies(certs[i], junk) <=> certs[i] \in genuine
<1> DEFINE c == certs[i]
           pk == PubkeyFromDid(c.node)
<1>1. c \in Certificate
  BY DEF IInv, TypeOK
<1>2. ASSUME Verifies(c, junk) PROVE c \in genuine
  <2>1. PICK g \in genuine : c.id = g.id /\ c.sig \in {None, g.sig}
    BY DEF IInv, CertInv
  <2>2. c.sig = g.sig /\ g \in Certificate /\ IsGenuine(g)
    BY <1>2, <2>1 DEF Verifies, IInv, TypeOK, CertInv
  <2>3. pk # None
    BY <1>2 DEF Verifies, VerifySignature
  <2>4. PICK decoder \in {"base64", "base58"} :
          Decoded(c.sig, decoder, junk) = [by |-> pk, over |-> <<c.update, c.node>>]
    BY <1>2 DEF Verifies, VerifySignature, CanonicalBytes
  <2>5. [by |-> pk, over |-> <<c.update, c.node>>] \in Signature
    <3>1. pk \in Key
      BY <1>1, <2>3, PubkeyTyped DEF Certificate
    <3>2. <<c.update, c.node>> \in Update \X Did
      BY <1>1 DEF Certificate
    <3> QED
      BY <3>1, <3>2 DEF Signature
  <2>6. g.sig.sig = [by |-> pk, over |-> <<c.update, c.node>>]
    BY <2>2, <2>4, <2>5, JunkIsUnsigned DEF Decoded
  <2>7. c.update = g.update /\ c.node = g.node
    <3>1. <<c.update, c.node>> = <<g.update, g.node>>
      BY <2>2, <2>6 DEF IsGenuine
    <3> QED
      BY <3>1
  <2> QED
    BY <1>1, <2>1, <2>2, <2>7 DEF Certificate
<1>3. ASSUME c \in genuine PROVE Verifies(c, junk)
  <2>1. IsGenuine(c) /\ c.sig # None
    BY <1>3, NoneIsNoValue DEF IInv, CertInv, IsGenuine
  <2>2. c.sig.sig = [by |-> pk, over |-> <<c.update, c.node>>]
    BY <2>1 DEF IsGenuine, Text, Signature
  <2>3. PICK decoder \in {"base64", "base58"} : c.sig.in = decoder
    BY <2>1 DEF IsGenuine, Text
  <2>4. Decoded(c.sig, decoder, junk) = [by |-> pk, over |-> <<c.update, c.node>>]
    BY <2>2, <2>3 DEF Decoded
  <2> QED
    BY <2>1, <2>4 DEF IsGenuine, Verifies, VerifySignature, CanonicalBytes
<1> QED
  BY <1>2, <1>3

\* A list of certificates passes exactly when one of them is as a node issued
\* it, through changes of the node's key and of the other certificates.
THEOREM GenuineCertificatesAlwaysVerify == Spec => []GenuineCertificatesVerify
<1>1. IInv => GenuineCertificatesVerify
  BY OnlyGenuineVerifies DEF GenuineCertificatesVerify, VerifyRefCertificates
<1> QED
  BY InitIInv, IInvStep, <1>1, PTL DEF Spec
=============================================================================
