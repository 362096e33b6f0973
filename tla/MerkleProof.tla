---------------------------- MODULE MerkleProof -----------------------------
(***************************************************************************)
(* Inclusion proofs (conformance/src/integrity/merkle.ts and               *)
(* verify-proof.ts): a tree is built over events, a proof is cut from it,  *)
(* event and root may be signed, proof and event are changed on their way, *)
(* and the event is verified with some key or none.                        *)
(*                                                                         *)
(* Hashes are symbolic: a leaf and a node are their inputs under a prefix, *)
(* as RFC 6962 tags them.                                                  *)
(***************************************************************************)
EXTENDS Naturals, SequencesExt, EventIntegrity

CONSTANTS
  MaxLeaves,   \* bound: leaves of the tree
  MaxEdits     \* bound: changes between the cut and the verification

ASSUME MerkleAssumption == MaxLeaves \in Nat \ {0} /\ MaxEdits \in Nat

VARIABLES
  leaves,    \* the digests the tree was built over: << >> before
  proof,     \* the proof document
  event,     \* the event it is presented with
  signer,    \* the keys event and root were signed with, as the owner's own
  edits,     \* changes so far
  key,       \* the key of the verification, if any: a set of at most one
  outcome    \* "none" until the proof has been verified

vars == <<leaves, proof, event, signer, edits, key, outcome>>

Stored(k) == sealEvent(Event(k))     \* the k-th event a producer sealed
E(k) == Stored(k).hash

leafHash(d) == <<"leaf", d>>
nodeHash(l, r) == <<"node", l, r>>

IsDigest(h) == h # Short       \* decodeDigest

(* The largest power of two smaller than n. *)
splitPoint(n) ==
  LET from[k \in 1 .. n] == IF 2 * k < n THEN from[2 * k] ELSE k
  IN from[1]

(* Recursion is on the number of leaves: treeHash(hashes)[n][a] is the     *)
(* hash over the slice of n leaves that starts at the a-th.                *)
treeHash(hashes) ==
  LET over[n \in 1 .. Len(hashes)] ==
        [a \in 1 .. Len(hashes) - n + 1 |->
           IF n = 1 THEN hashes[a]
           ELSE LET k == splitPoint(n) IN nodeHash(over[k][a], over[n - k][a + k])]
  IN over

LeafHashes(digests) == [i \in DOMAIN digests |-> leafHash(digests[i])]

merkleRoot(digests) == treeHash(LeafHashes(digests))[Len(digests)][1]

Step(side, hash) == [side |-> side, hash |-> hash]

(* The path within each slice, for the leaf at an index of that slice.     *)
pathOver(hashes) ==
  LET over[n \in 1 .. Len(hashes)] ==
        [a \in 1 .. Len(hashes) - n + 1 |-> [index \in 0 .. n - 1 |->
           IF n = 1 THEN << >>
           ELSE LET k == splitPoint(n) IN
                IF index < k
                THEN Append(over[k][a][index], Step("right", treeHash(hashes)[n - k][a + k]))
                ELSE Append(over[n - k][a + k][index - k], Step("left", treeHash(hashes)[k][a]))]]
  IN over

auditPath(digests, index) == pathOver(LeafHashes(digests))[Len(digests)][1][index]

(* Slip: the halves of a tree taken to be equal. *)
expectedSidesHalved(index, leafCount) ==
  LET sides[n \in 1 .. leafCount] ==
        [i \in 0 .. n - 1 |->
           IF n = 1 THEN << >>
           ELSE LET k == (n + 1) \div 2 IN
                IF i < k THEN Append(sides[k][i], "right") ELSE Append(sides[n - k][i - k], "left")]
  IN sides[leafCount][index]

expectedSides(index, leafCount) ==
  LET sides[n \in 1 .. leafCount] ==
        [i \in 0 .. n - 1 |->
           IF n = 1 THEN << >>
           ELSE LET k == splitPoint(n) IN
                IF i < k THEN Append(sides[k][i], "right") ELSE Append(sides[n - k][i - k], "left")]
  IN sides[leafCount][index]

rootFromPath(digest, path) ==
  LET after[n \in 0 .. Len(path)] ==
        IF n = 0 THEN leafHash(digest)
        ELSE IF path[n].side = "left" THEN nodeHash(path[n].hash, after[n - 1])
        ELSE nodeHash(after[n - 1], path[n].hash)
  IN after[Len(path)]

-----------------------------------------------------------------------------
(* verifyProof.                                                            *)

BadLength(p) ==
  ~IsDigest(p.leaf) \/ ~IsDigest(p.root) \/ \E i \in DOMAIN p.path : ~IsDigest(p.path[i].hash)

Sides(path) == [i \in DOMAIN path |-> path[i].side]

(* Slip: a position is checked against the tree and not against the path. *)
PositionFindingsInRange(p) ==
  IF p.index >= p.count THEN {"proof-position-invalid"} ELSE {}

PositionFindings(p) ==
  IF p.index >= p.count THEN {"proof-position-invalid"}
  ELSE IF Sides(p.path) # expectedSides(p.index, p.count) THEN {"proof-path-inconsistent"}
  ELSE {}

RootFindings(p) ==
  IF BadLength(p) THEN {"proof-digest-length-mismatch"}
  ELSE IF rootFromPath(p.leaf, p.path) # p.root THEN {"proof-root-mismatch"}
  ELSE {}

(* An event failure after which there is no hash to prove anything about. *)
LEAF_UNAVAILABLE ==
  {"integrity-missing", "hash-missing", "unsupported-canonicalization", "unsupported-algorithm"}

(* Slip: an event whose hash is wrong is one without a hash, and passes    *)
(* for the leaf it names.                                                  *)
LeafFindingsLenient(p, e, k) ==
  LET failures == verifyEventIntegrity(e, k) \ {"hash-mismatch"} IN
  IF failures = {} THEN IF e.hash # p.leaf THEN {"proof-leaf-mismatch"} ELSE {}
  ELSE IF failures \subseteq LEAF_UNAVAILABLE THEN {"proof-leaf-unavailable"}
  ELSE failures

LeafFindings(p, e, k) ==
  LET failures == verifyEventIntegrity(e, k) IN
  IF failures = {} THEN IF e.hash # p.leaf THEN {"proof-leaf-mismatch"} ELSE {}
  ELSE IF failures \subseteq LEAF_UNAVAILABLE THEN {"proof-leaf-unavailable"}
  ELSE failures

(* Slip: the signature covers the root hash and not the leaf count.        *)
RootInputHash(p) == <<"root", p.root>>

(* documentSignatureInput: the root without its signature.                 *)
RootInput(p) == <<"root", p.root, p.count>>

checkDeclaredDocumentSignature(p, k) == SignatureFindings(RootInput(p), p.signature, k)

Findings(p, e, k) ==
  checkDeclaredDocumentSignature(p, k)
  \cup IF ~p.supported THEN {"proof-algorithm-unsupported"}
       ELSE PositionFindings(p) \cup RootFindings(p) \cup LeafFindings(p, e, k)

(* Slip: an event without a hash settles the outcome.                     *)
OutcomeUnavailableFirst(p, e, k) ==
  IF ~p.conforms THEN "invalid-proof"
  ELSE IF "proof-leaf-unavailable" \in Findings(p, e, k) THEN "no-leaf"
  ELSE IF Findings(p, e, k) # {} THEN "failed"
  ELSE "verified"

Outcome(p, e, k) ==
  IF ~p.conforms THEN "invalid-proof"
  ELSE LET findings == Findings(p, e, k) IN
       IF findings \ {"proof-leaf-unavailable"} # {} THEN "failed"
       ELSE IF findings # {} THEN "no-leaf"
       ELSE "verified"

-----------------------------------------------------------------------------
Genuine(digests, i) ==
  [conforms |-> TRUE, supported |-> TRUE,
   leaf |-> digests[i], index |-> i - 1, path |-> auditPath(digests, i - 1),
   root |-> merkleRoot(digests), count |-> Len(digests), signature |-> {}]

SignEvent(e, k) == [e EXCEPT !.signature = {Sign(k, AlgorithmOf(k), Input(e))}]
SignRoot(p, k) == [p EXCEPT !.signature = {Sign(k, AlgorithmOf(k), RootInput(p))}]

Init ==
  /\ leaves = << >>
  /\ proof = Genuine(<<E(0)>>, 1)
  /\ event = Stored(0)
  /\ signer = {}
  /\ edits = 0
  /\ key = {}
  /\ outcome = "none"

(* The operator of the store builds a tree and cuts a proof for one leaf;  *)
(* events and roots are signed, or not, with the key that is published.    *)
Cut ==
  /\ leaves = << >>
  /\ \E n \in 1 .. MaxLeaves : \E i \in 1 .. n :
       LET digests == [k \in 1 .. n |-> E(k)] IN
       /\ leaves' = digests
       /\ \/ /\ signer' = {}
             /\ proof' = Genuine(digests, i)
             /\ event' = Stored(i)
          \/ \E k \in ProducerKeys :
               /\ signer' = {k}
               /\ proof' = SignRoot(Genuine(digests, i), k)
               /\ event' = SignEvent(Stored(i), k)
  /\ UNCHANGED <<edits, key, outcome>>

(* Every hash somebody who knows the events can compute over this tree.    *)
Known ==
  {Short} \cup {E(k) : k \in 0 .. MaxLeaves}
  \cup UNION {{treeHash(LeafHashes(leaves))[n][a] : a \in 1 .. Len(leaves) - n + 1} :
                n \in 1 .. Len(leaves)}

(* A signature can be dropped, damaged, relabelled, or made anew by        *)
(* somebody whose key is not the producer's.                               *)
AlteredSignatures(declared, data) ==
       {{}}
  \cup {{Sign(k, AlgorithmOf(k), data)} : k \in OtherKeys}
  \cup {{[s EXCEPT !.form = f]} : s \in declared, f \in SignatureForms}
  \cup {{[s EXCEPT !.algorithm = a]} : s \in declared, a \in DOMAIN KeyTypes \cup {"ES512"}}

Altered(p) ==
       {[p EXCEPT !.conforms = FALSE], [p EXCEPT !.supported = FALSE]}
  \cup {[p EXCEPT !.leaf = h] : h \in Known}
  \cup {[p EXCEPT !.root = h] : h \in Known}
  \cup {[p EXCEPT !.index = i] : i \in 0 .. MaxLeaves}
  \cup {[p EXCEPT !.count = n] : n \in 1 .. MaxLeaves + 1}
  \cup {[p EXCEPT !.path = Append(@, Step(s, h))] : s \in {"left", "right"}, h \in Known}
  \cup (UNION {{[p EXCEPT !.path = RemoveAt(@, j)],
                [p EXCEPT !.path[j].side = IF @ = "left" THEN "right" ELSE "left"]} :
                 j \in DOMAIN p.path})
  \cup {[p EXCEPT !.path[j].hash = h] : j \in DOMAIN p.path, h \in Known}
  \cup {[p EXCEPT !.signature = s] : s \in AlteredSignatures(p.signature, RootInput(p))}

Unsealed(e) ==
  [e EXCEPT !.integrity = FALSE, !.canonicalization = None, !.hashAlgorithm = None,
            !.hash = NoDigest, !.signature = {}]

(* Another event of the producer, or this one with other content; whoever  *)
(* changes the content can recalculate the hash.                           *)
Presented(e) ==
  LET changed ==
             {[e EXCEPT !.body = k] : k \in 0 .. MaxLeaves}
        \cup {[e EXCEPT !.specVersion = v] : v \in {"0.1", "2.0", "1"}}
        \cup {[e EXCEPT !.shape = s] : s \in {{}, {"0.1"}}}
        \cup {[e EXCEPT !.canonical = FALSE], [e EXCEPT !.canonicalization = "other"],
              [e EXCEPT !.hashAlgorithm = "BLAKE3"]}
  IN changed \cup {sealEvent(f) : f \in changed}
     \cup {Unsealed(e), [e EXCEPT !.hash = NoDigest], [e EXCEPT !.hash = Short]}
     \cup {SignEvent(Stored(k), s) : s \in signer, k \in 0 .. MaxLeaves}
     \cup {[e EXCEPT !.signature = s] : s \in AlteredSignatures(e.signature, Input(e))}

Edit ==
  /\ leaves # << >> /\ outcome = "none" /\ edits < MaxEdits
  /\ edits' = edits + 1
  /\ \/ proof' \in Altered(proof) /\ UNCHANGED event
     \/ event' \in Presented(event) /\ UNCHANGED proof
  /\ UNCHANGED <<leaves, signer, key, outcome>>

(* The tools load the key from its text, and refuse one they cannot use    *)
(* before they verify anything; a caller of the library hands one over,    *)
(* and what a tool loaded is handed over as well.                          *)
Verify ==
  /\ leaves # << >> /\ outcome = "none"
  /\ \E k \in {{}} \cup {{x} : x \in Keys} :
       \/ /\ \A x \in k : x.grade # "private"
          /\ key' = k
          /\ outcome' = Outcome(proof, event, k)
       \/ /\ \E x \in k : ~Loadable(x)
          /\ key' = {}
          /\ outcome' = "refused"
  /\ UNCHANGED <<leaves, proof, event, signer, edits>>

Next == Cut \/ Edit \/ Verify

Spec == Init /\ [][Next]_vars

-----------------------------------------------------------------------------
(***************************************************************************)
(* Properties.                                                             *)
(***************************************************************************)
IsRoot(hash) == leaves # << >> /\ hash = merkleRoot(leaves)

(* A verified proof shows that the event is a member of the tree the root  *)
(* describes (PROOF_NOT_PROVEN, cli.ts:149), content and all, whatever     *)
(* index and leaf count the proof claims: only the root hash need be the   *)
(* recorded one.  With the recorded leaf count it is the leaf at the       *)
(* claimed index, so one event never passes for another (expectedSides).   *)
VerifiedIsTheLeaf ==
  outcome = "verified" /\ IsRoot(proof.root) =>
    /\ calculateDigest(event) \in ToSet(leaves)
    /\ proof.count = Len(leaves) =>
         proof.index < Len(leaves) /\ leaves[proof.index + 1] = calculateDigest(event)

(* With the producer's key a declared signature of the root stands for the *)
(* anchor: the root need not be compared with the recorded one by hand.    *)
(* One signed root serves every proof cut from its tree                    *)
(* (specification/integrity.md:336).                                       *)
SignedRootProves ==
  outcome = "verified" /\ key # {} /\ key = signer /\ proof.signature # {} =>
    proof.index < Len(leaves) /\ leaves[proof.index + 1] = calculateDigest(event)

(* Every leaf of every tree can be proven: the audit path as it was cut    *)
(* has the shape the verifier expects and recomputes to the root, and the  *)
(* signatures verify with the published key and need none.                 *)
GenuineProofsVerify ==
  outcome \notin {"none", "refused"} /\ edits = 0 /\ key \in {{}, signer} => outcome = "verified"

(* No verdict is no failure in disguise: it is given only where the event  *)
(* whose hash the leaf is would have been verified.                        *)
NoLeafHidesNothing ==
  outcome = "no-leaf" =>
    \A k \in 0 .. MaxLeaves : proof.leaf = E(k) => Outcome(proof, Stored(k), key) = "verified"

(* What was verified with a key was signed by its holder, as it stands:    *)
(* nobody holds a degenerate key, so nothing is ever verified with one     *)
(* (specification/integrity.md:189).                                       *)
AcceptedWasSigned ==
  outcome = "verified" =>
    \A k \in key :
      /\ \A s \in event.signature : s.key = k /\ s.data = Input(event)
      /\ \A s \in proof.signature : s.key = k /\ s.data = RootInput(proof)

SoundKeys == {Key("anybody", KeyTypes[a], "sound") : a \in DOMAIN KeyTypes}

(* What a key adds is refusals: a verdict without one is never less than   *)
(* with one, and a signature no key could check here is never passed over  *)
(* (specification/integrity.md:334).                                       *)
UncheckableNeverVerifies ==
  outcome = "verified" =>
    /\ Outcome(proof, event, {}) = "verified"
    /\ \A s \in event.signature \cup proof.signature : \E k \in SoundKeys :
         verifySignature(s.data, Sign(k, s.algorithm, s.data), k) = {}
=============================================================================
