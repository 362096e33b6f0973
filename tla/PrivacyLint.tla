----------------------------- MODULE PrivacyLint -----------------------------
(***************************************************************************)
(* The privacy linter (conformance/src/privacy/lint-event.ts): an event    *)
(* the schema accepts has its free-form containers traversed to a depth    *)
(* (traverse.ts), a few of its strings and its evidence references looked  *)
(* at, and its containers measured (size-analysis.ts).                     *)
(*                                                                         *)
(* A free-form container is the set of the values in it, itself included,  *)
(* each under the steps that lead to it.  The id is the string under that  *)
(* name, if there is one.  Confidence, wording and the order of findings   *)
(* are left out.                                                           *)
(***************************************************************************)
EXTENDS SchemaIssues

CONSTANTS
  DeepRoots, ScalarPaths,          \* the containers, the single strings
  MAX_LINT_DEPTH, MAX_PROFILE_DEPTH,
  MaxDepth, MaxProperties          \* SIZE_THRESHOLDS

(* 6 and 64 in the code. *)
ASSUME LintAssumption ==
  /\ {MAX_LINT_DEPTH, MAX_PROFILE_DEPTH, MaxDepth, MaxProperties} \subseteq Nat
  /\ MaxDepth < MAX_LINT_DEPTH /\ MaxDepth < MAX_PROFILE_DEPTH

Scalars == {"number", "boolean", "null"}
Containers == {"object", "array"}

(* A value under a deep root; "bulky" is over a threshold that counts      *)
(* bytes, characters or items.                                             *)
Value(root, steps, value) == [root |-> root, steps |-> steps, value |-> value]

IsEvent(e) ==
  /\ e.version \in {"supported", "unsupported", "malformed"}
  /\ \A x \in e.errors : IsError(x)
  /\ e.id \subseteq Texts /\ \A a, b \in e.id : a = b
  /\ e.version = "supported" /\ e.errors = {} => e.id # {}
  /\ e.bulky \subseteq DeepRoots
  /\ \A s \in e.strings : s.path \in ScalarPaths /\ s.value \in Texts
  /\ \A r \in e.evidence : r.path \in Indices /\ r.value \in Texts
  /\ \A n \in e.values :
       /\ n.root \in DeepRoots
       /\ n.steps \in Seq(Texts \cup Indices)
       /\ n.value \in Texts \cup Scalars \cup Containers
       /\ n.steps # << >> =>
            \A k \in 0 .. Len(n.steps) - 1 :
              \E m \in e.values : /\ m.root = n.root /\ m.value \in Containers
                                  /\ m.steps = SubSeq(n.steps, 1, k)

Keyed(n) == n.steps # << >> /\ n.steps[Len(n.steps)] \in Texts
KeyOf(n) == n.steps[Len(n.steps)]

isCredentialValue(value) ==
  value = "number" \/ (value \in Texts /\ ~isRedactionPlaceholder(value))

isPopulated(e, n) ==
  \/ isCredentialValue(n.value)
  \/ /\ n.value \in Containers
     /\ \E m \in e.values : /\ m.root = n.root /\ Len(m.steps) = Len(n.steps) + 1
                            /\ SubSeq(m.steps, 1, Len(n.steps)) = n.steps

nameFindings(e, n) ==
       {r \in {"PROHIBITED_CREDENTIAL_FIELD"} :
          Is(KeyOf(n), "prohibitedName") /\ isCredentialValue(n.value)}
  \cup {r \in {"RAW_PAYLOAD_FIELD"} : Is(KeyOf(n), "rawName") /\ isPopulated(e, n)}

(* The rules that recognise a string for what it is.                       *)
StrongFindings(text) ==
       {r \in {"AUTHORIZATION_HEADER_VALUE"} : matchesAuthorizationHeader(text)}
  \cup {r \in {"PRIVATE_KEY_MATERIAL"} : containsPrivateKeyMaterial(text)}
  \cup ({matchKnownTokenFormat(text)} \ {"none"})
  \cup {r \in {"CONNECTION_STRING_WITH_CREDENTIALS"} :
          analyzeConnectionString(text) = "credentialed"}
  \cup {r \in {"CONNECTION_STRING_WITHOUT_CREDENTIALS"} :
          analyzeConnectionString(text) = "uncredentialed"}
  \cup {r \in {"URL_USERINFO"} : hasUserinfo(text) /\ ~Is(text, "dataSystem")}

valueFindings(text) ==
  IF StrongFindings(text) = {} /\ isHighEntropyTokenCandidate(text)
  THEN {"HIGH_ENTROPY_TOKEN_CANDIDATE"}
  ELSE StrongFindings(text)

evidenceFindings(text) ==
  {r \in {"EVIDENCE_REFERENCE_QUERY"} :
     IF Is(text, "url") THEN Is(text, "query") \/ Is(text, "fragment") ELSE Is(text, "mark")}

-----------------------------------------------------------------------------
(* Slip: the deepest value is looked for below what was traversed. *)
OversizedBelow(e, root) ==
  LET measured == {n \in e.values : n.root = root /\ Len(n.steps) <= MAX_PROFILE_DEPTH}
  IN \/ root \in e.bulky
     \/ \E n \in measured : Len(n.steps) > MAX_LINT_DEPTH
     \/ Cardinality({n \in measured : Keyed(n)}) > MaxProperties

(* profileValue and exceededSignals: the measures stop descending as well. *)
Oversized(e, root) ==
  LET measured == {n \in e.values : n.root = root /\ Len(n.steps) <= MAX_PROFILE_DEPTH}
  IN \/ root \in e.bulky
     \/ \E n \in measured : Len(n.steps) > MaxDepth
     \/ Cardinality({n \in measured : Keyed(n)}) > MaxProperties

sizeRoots(e) ==
  {root \in DeepRoots :
     \E n \in e.values : n.root = root /\ n.steps = << >> /\ n.value \in Containers}

PrivacyFinding(rule, root, steps) == [rule |-> rule, root |-> root, steps |-> steps]

(* One visited value: its name by the name rules, its name and itself by   *)
(* the value rules.                                                        *)
RulesFor(e, n) ==
  (IF Keyed(n) THEN nameFindings(e, n) \cup valueFindings(KeyOf(n)) ELSE {})
  \cup (IF n.value \in Texts THEN valueFindings(n.value) ELSE {})

(* traverse, from every root. *)
Visited(e) == {n \in e.values : Len(n.steps) <= MAX_LINT_DEPTH}

(* One finding per rule and location.                                      *)
TraversalFindings(e) ==
  UNION {{PrivacyFinding(r, n.root, redactPointer(n.steps)) : r \in RulesFor(e, n)} :
           n \in Visited(e)}

ScalarFindings(e) ==
  UNION {{PrivacyFinding(r, s.path, << >>) : r \in valueFindings(s.value)} : s \in e.strings}

EvidenceFindings(e) ==
  UNION {{PrivacyFinding(r, "/evidence", << ref.path >>) :
            r \in evidenceFindings(ref.value) \cup valueFindings(ref.value)} : ref \in e.evidence}

SizeFindings(e) ==
  {PrivacyFinding("OVERSIZED_UNFILTERED_VALUE", root, << >>) :
     root \in {q \in sizeRoots(e) : Oversized(e, q)}}

Collected(e) ==
  TraversalFindings(e) \cup ScalarFindings(e) \cup EvidenceFindings(e) \cup SizeFindings(e)

(* A finding as it is returned: the event it is about goes by its id.      *)
Identified(e, f) == [rule |-> f.rule, root |-> f.root, steps |-> f.steps, eventId |-> e.id]

(* An event the schema does not accept is not looked at; its id is given   *)
(* all the same, as it stands.                                             *)
lintEvent(e) ==
  LET issues == validateIssues(e)
      findings == IF issues = {} THEN {Identified(e, f) : f \in Collected(e)} ELSE {}
  IN [status |-> IF issues # {} THEN "schema-invalid"
                 ELSE IF findings = {} THEN "clean" ELSE "findings",
      eventId |-> e.id, findings |-> findings, issues |-> issues]

(* Strings of an event, and where in a report they are repeated.           *)
Quotes(where, texts) == [where : {where}, text : texts]

(* Everything from the event that the report on a result repeats: the text *)
(* goes by the place of the event in its file, the JSON by its id as well. *)
QuotedByLint(result, json) ==
  Quotes("issue", QuotedByIssues(result.issues))
  \cup Quotes("finding", UNION {{f.steps[i] : i \in DOMAIN f.steps} : f \in result.findings})
  \cup Quotes("eventId", IF json THEN result.eventId ELSE {})

-----------------------------------------------------------------------------
(* An exposure: a string with the form of a credential, as a value or a    *)
(* name, or a credential or a body under a name that says so.              *)
Telling(e, n) ==
  \/ n.value \in Texts /\ isCredentialShaped(n.value)
  \/ Keyed(n) /\ (isCredentialShaped(KeyOf(n)) \/ nameFindings(e, n) # {})

(* "A document deep enough to reach it is reported by the size rule rather *)
(* than silently truncated" (traverse.ts:43): wherever an exposure lies,   *)
(* however deep, and whatever its name and its siblings' names become in   *)
(* the report, a finding is at its place or its container is reported.     *)
NothingPassedOver(e) ==
  validateIssues(e) = {} =>
    \A n \in e.values : Telling(e, n) =>
      \E f \in lintEvent(e).findings :
        /\ f.root = n.root
        /\ f.steps = redactPointer(n.steps) \/ f.rule = "OVERSIZED_UNFILTERED_VALUE"
=============================================================================
