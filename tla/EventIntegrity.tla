--------------------------- MODULE EventIntegrity ---------------------------
(***************************************************************************)
(* The verification of one event: the schema its version selects           *)
(* (conformance/src/validator-interface.ts), its digest (verify-event.ts,  *)
(* digest.ts) and its signature under the key a verifying party holds      *)
(* (signature.ts), which also checks the signature of a document.          *)
(*                                                                         *)
(* Digests are symbolic and signatures perfect: a signature is who made it *)
(* over what.  The keys under which that does not hold, because anybody    *)
(* can sign, are "degenerate": an Ed25519 point of small order, an RSA     *)
(* exponent of one.  "Weak" ones are on another curve or too short, and a  *)
(* "private" one is a private key's text.                                  *)
(***************************************************************************)
None == "none"              \* an algorithm identifier that is absent
NoDigest == << >>           \* a hash that is absent
Short == <<"short">>        \* hexadecimal, and not as long as a digest

SUPPORTED_SPEC_VERSIONS == {"0.1", "1.0"}
SPEC_VERSION == "1.0"
WellFormedVersions == SUPPORTED_SPEC_VERSIONS \cup {"2.0"}   \* VERSION_FORM

(* An event: its body, the schemas that accept the rest of it whatever its *)
(* version says, and its integrity object, whose members are absent when   *)
(* it is.  A signature is a set of at most one.                            *)
Event(body) ==
  [body |-> body, specVersion |-> SPEC_VERSION, shape |-> SUPPORTED_SPEC_VERSIONS,
   canonical |-> TRUE, integrity |-> TRUE, canonicalization |-> "RFC8785",
   hashAlgorithm |-> "SHA-256", hash |-> NoDigest, signature |-> {}]

(* buildDigestInput: everything but hash and signature.                    *)
Input(e) == <<e.body, e.specVersion, e.shape, e.canonical, e.integrity,
              e.canonicalization, e.hashAlgorithm>>

calculateDigest(e) == <<"event", Input(e)>>

sealEvent(e) == [e EXCEPT !.hash = calculateDigest(e)]

-----------------------------------------------------------------------------
(* createVersionedValidator.                                               *)

declaredSpecVersion(e) ==
  IF e.specVersion \in SUPPORTED_SPEC_VERSIONS THEN "supported"
  ELSE IF e.specVersion \in WellFormedVersions THEN "unsupported"
  ELSE "malformed"

(* One version's schema: its own specVersion, the shape, and a hash only   *)
(* with the algorithms it was calculated with.                             *)
Conforms(e, version) ==
  /\ e.specVersion = version
  /\ version \in e.shape
  /\ e.hash # NoDigest => None \notin {e.canonicalization, e.hashAlgorithm}

validateEvent(e) ==
  CASE declaredSpecVersion(e) = "supported" ->
         IF Conforms(e, e.specVersion) THEN {} ELSE {"schema"}
    [] declaredSpecVersion(e) = "unsupported" -> {"specVersion-not-implemented"}
    [] declaredSpecVersion(e) = "malformed" ->
         IF Conforms(e, SPEC_VERSION) THEN {} ELSE {"schema"}

-----------------------------------------------------------------------------
(* Signatures and keys.                                                    *)

(* SIGNATURE_ALGORITHMS: the type of key each algorithm needs.             *)
KeyTypes ==
  [a \in {"Ed25519", "ECDSA-P256-SHA256", "RSA-PSS-SHA256"} |->
     CASE a = "Ed25519" -> "ed25519" [] a = "RSA-PSS-SHA256" -> "rsa" [] OTHER -> "ec"]
isSupportedSignatureAlgorithm(a) == a \in DOMAIN KeyTypes

Key(holder, type, grade) == [holder |-> holder, type |-> type, grade |-> grade]

Keys == {Key("producer", t, "sound") : t \in {"ed25519", "rsa"}}
        \cup {Key("nobody", t, "degenerate") : t \in {"ed25519", "rsa"}}
        \cup {Key("other", "ed25519", "sound"), Key("other", "ec", "weak"),
              Key("producer", "ed25519", "private")}

ProducerKeys == {k \in Keys : k.holder = "producer" /\ k.grade = "sound"}
OtherKeys == {k \in Keys : k.holder = "other"}

AlgorithmOf(key) == CHOOSE a \in DOMAIN KeyTypes : KeyTypes[a] = key.type

(* "foreign" is another encoding than base64, "smallR" an Ed25519 value    *)
(* whose R is a point of small order.                                      *)
SignatureForms == {"sound", "foreign", "short", "smallR"}

Sign(key, algorithm, data) ==
  [key |-> key, algorithm |-> algorithm, data |-> data, form |-> "sound"]

(* loadPublicKey.                                                          *)
Loadable(key) == key.grade \notin {"private", "degenerate"}

(* What the primitive answers on the most permissive of its builds.        *)
Primitive(data, s, key) ==
  key.grade = "degenerate" \/ (s.key = key /\ s.data = data)

(* Slip: a key that was not loaded here is held to its type alone.         *)
verifySignatureByType(data, s, key) ==
  IF ~isSupportedSignatureAlgorithm(s.algorithm) THEN {"unsupported-signature-algorithm"}
  ELSE IF KeyTypes[s.algorithm] # key.type THEN {"signature-invalid"}
  ELSE IF s.form \in {"foreign", "short"} THEN {"malformed-signature"}
  ELSE IF ~Primitive(data, s, key) THEN {"signature-invalid"}
  ELSE {}

verifySignature(data, s, key) ==
  IF ~isSupportedSignatureAlgorithm(s.algorithm) THEN {"unsupported-signature-algorithm"}
  ELSE IF KeyTypes[s.algorithm] # key.type \/ key.grade # "sound" THEN {"signature-invalid"}
  ELSE IF s.form \in {"foreign", "short"} THEN {"malformed-signature"}
  ELSE IF s.algorithm = "Ed25519" /\ s.form = "smallR" THEN {"signature-invalid"}
  ELSE IF ~Primitive(data, s, key) THEN {"signature-invalid"}
  ELSE {}

(* Slip: without a key nothing is asked of a declared signature.           *)
SignatureFindingsWithKey(data, declared, key) ==
  UNION {verifySignature(data, s, k) : s \in declared, k \in key}

(* An algorithm that is not implemented fails with or without a key,       *)
(* another is declared and not checked without one.  A key is a set of at  *)
(* most one.                                                               *)
SignatureFindings(data, declared, key) ==
  UNION {IF ~isSupportedSignatureAlgorithm(s.algorithm) THEN {"unsupported-signature-algorithm"}
         ELSE UNION {verifySignature(data, s, k) : k \in key} : s \in declared}

-----------------------------------------------------------------------------
checkSignature(e, key) == SignatureFindings(Input(e), e.signature, key)

(* verifyEventIntegrity: the first check that fails is the finding, and an *)
(* event without a finding is verified.  An identifier that is missing is  *)
(* one that is not implemented: the schema has refused it, and no verdict  *)
(* tells the two apart.                                                    *)
verifyEventIntegrity(e, key) ==
  IF validateEvent(e) # {} THEN {"schema-invalid"}
  ELSE IF ~e.integrity THEN {"integrity-missing"}
  ELSE IF e.hash = NoDigest THEN {"hash-missing"}
  ELSE IF e.canonicalization # "RFC8785" THEN {"unsupported-canonicalization"}
  ELSE IF e.hashAlgorithm # "SHA-256" THEN {"unsupported-algorithm"}
  ELSE IF e.hash = Short THEN {"digest-length-mismatch"}
  ELSE IF ~e.canonical THEN {"canonicalization-failed"}
  ELSE IF e.hash # calculateDigest(e) THEN {"hash-mismatch"}
  ELSE checkSignature(e, key)
=============================================================================
