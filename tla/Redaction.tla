----------------------------- MODULE Redaction ------------------------------
(***************************************************************************)
(* What the privacy linter can tell of a string (conformance/src/privacy:  *)
(* token-patterns.ts, url-analysis.ts, entropy.ts, field-names.ts), and    *)
(* the property names no report may repeat (redact-key.ts).                *)
(*                                                                         *)
(* A string is known by the tests it passes: its traits.                   *)
(***************************************************************************)
EXTENDS Naturals, Sequences, FiniteSets

CONSTANTS
  Texts,      \* strings: property names and values alike
  Has,        \* per string, its traits
  Indices,    \* positions in arrays, as a JSON Pointer spells them
  Redacted    \* REDACTED_SEGMENT

Traits ==
  {"header", "pem", "jwt", "prefixed",                  \* credentials by their form
   "url", "dataSystem", "user", "password", "query", "fragment",
   "mark",                                              \* contains a ? or a #
   "pairs", "secretPair",                               \* a key-value connection string
   "tokenLike", "safe", "placeholder",                  \* the gates of the entropy rule
   "prohibitedName", "rawName"}

(* Only a URL has parts, and only a connection string a secret in it.      *)
ASSUME RedactionAssumption ==
  /\ Has \in [Texts -> SUBSET Traits]
  /\ Texts \cap Indices = {} /\ Redacted \notin Texts \cup Indices
  /\ \A t \in Texts :
       /\ {"dataSystem", "user", "password", "query", "fragment"} \cap Has[t] # {}
            => "url" \in Has[t]
       /\ "secretPair" \in Has[t] => "pairs" \in Has[t]

Is(text, trait) == trait \in Has[text]

-----------------------------------------------------------------------------
matchesAuthorizationHeader(text) == Is(text, "header")
containsPrivateKeyMaterial(text) == Is(text, "pem")
isJwtStructured(text) == Is(text, "jwt")

matchKnownTokenFormat(text) ==
  IF isJwtStructured(text) THEN "JWT_TOKEN"
  ELSE IF Is(text, "prefixed") THEN "PREFIXED_TOKEN" ELSE "none"

hasUserinfo(text) == Is(text, "user") \/ Is(text, "password")

analyzeKeyValueConnectionString(text) ==
  IF ~Is(text, "pairs") THEN "none"
  ELSE IF Is(text, "secretPair") THEN "credentialed" ELSE "uncredentialed"

analyzeConnectionString(text) ==
  IF Is(text, "dataSystem")
  THEN IF Is(text, "password") THEN "credentialed" ELSE "uncredentialed"
  ELSE analyzeKeyValueConnectionString(text)

isRedactionPlaceholder(text) == Is(text, "placeholder")

isKnownSafeFormat(text) == Is(text, "safe") \/ isRedactionPlaceholder(text)

isHighEntropyTokenCandidate(text) == Is(text, "tokenLike") /\ ~isKnownSafeFormat(text)

-----------------------------------------------------------------------------
isCredentialShaped(text) ==
  \/ matchKnownTokenFormat(text) # "none"
  \/ containsPrivateKeyMaterial(text)
  \/ matchesAuthorizationHeader(text)
  \/ isHighEntropyTokenCandidate(text)
  \/ hasUserinfo(text)
  \/ analyzeConnectionString(text) = "credentialed"

(* A step of a pointer is a property name or a position.                   *)
redactKey(step) ==
  IF step \in Texts /\ isCredentialShaped(step) THEN Redacted ELSE step

(* Slip: only the member a pointer ends at is looked at. *)
redactLast(steps) ==
  [i \in DOMAIN steps |-> IF i = Len(steps) THEN redactKey(steps[i]) ELSE steps[i]]

redactPointer(steps) == [i \in DOMAIN steps |-> redactKey(steps[i])]
=============================================================================
