---------------------------- MODULE SealedEvents ----------------------------
(***************************************************************************)
(* The events the integrity tooling reads, reduced to what a digest, a     *)
(* chain and a checkpoint can tell apart, and the digest check of a single *)
(* event (conformance/src/integrity/verify-event.ts, digest.ts).           *)
(*                                                                         *)
(* A digest is symbolic: it is its own input under a tag.  Two inputs have *)
(* the same digest exactly when they are equal, which is the collision     *)
(* resistance every claim of the tooling rests on.  A scheme is a pair     *)
(* (hashAlgorithm, canonicalization).  Events carry no signature here.     *)
(***************************************************************************)
EXTENDS Naturals, Integers, Sequences

CONSTANTS
  Chains,        \* integrity.chainId values
  NoChainId,     \* the event has an integrity object without a chainId
  NoIntegrity,   \* the event has no integrity object
  Bodies,        \* everything in an event that is not chain metadata
  Rejected,      \* bodies the schema of an implemented version does not accept
  Schemes,       \* declared (hashAlgorithm, canonicalization) pairs
  Supported      \* the pairs this verifier implements

ASSUME ChainsAssumption == NoChainId \notin Chains /\ NoIntegrity \notin Chains
ASSUME BodiesAssumption == Rejected \subseteq Bodies
ASSUME SchemesAssumption == Supported \subseteq Schemes

(* An absent digest is the empty tuple, a digest a tuple of one component. *)
Absent == << >>
Digest(input) == << input >>

NoSequence == -1

(* calculateEventDigest: the whole event with hash and signature removed. *)
Input(e) == [chain |-> e.chain, seq |-> e.seq, body |-> e.body,
             scheme |-> e.scheme, prev |-> e.prev]

Seal(e) == [e EXCEPT !.hash = Digest(Input(e))]

Valid(e) == e.body \notin Rejected

(***************************************************************************)
(* verifyEventIntegrity with validateSchema false: the first check that    *)
(* fails is the finding, and an event with no finding is verified.         *)
(***************************************************************************)
DigestFindings(e) ==
  IF e.hash = Absent THEN {"hash-missing"}
  ELSE IF e.scheme \notin Supported THEN {"unsupported-algorithm"}
  ELSE IF e.hash # Digest(Input(e)) THEN {"hash-mismatch"}
  ELSE {}

(* The same sealed event, wherever it is stored. *)
Same(e, f) == Input(e) = Input(f) /\ e.hash = f.hash

EventFields == {"chain", "seq", "body", "scheme", "prev", "hash"}

IsDigest(d) == d = Absent \/ d = Digest(d[1])

(* The documents a JSON reader can hand to the verifier. *)
IsEvent(e) ==
  /\ DOMAIN e = EventFields
  /\ e.chain \in Chains \cup {NoChainId, NoIntegrity}
  /\ e.seq \in Nat \cup {NoSequence}
  /\ e.body \in Bodies
  /\ e.scheme \in Schemes
  /\ IsDigest(e.prev)
  /\ IsDigest(e.hash)
=============================================================================
