-------------------------- MODULE CommandRunProofs --------------------------
(***************************************************************************)
(* What the exit codes of the command line tool mean, and that its reports *)
(* repeat no credential but where an event's own id is one, proved for     *)
(* runs over any number of files and of events, whoever stops reading the  *)
(* output and whenever.                                                    *)
(*                                                                         *)
(* The invariant says what the counters know of the arguments: a verdict   *)
(* is counted exactly if an event read so far deserves it, and a failure   *)
(* exactly if a file read so far could not be read to its end.  At the end *)
(* of the input, "so far" is everything.                                   *)
(*                                                                         *)
(* First comes what the privacy linter and the rendering of schema issues  *)
(* promise of every event, of any size, and for any thresholds under which *)
(* the depth that is reported lies above the depths at which the traversal *)
(* and the measures stop.                                                  *)
(***************************************************************************)
EXTENDS CommandRun, SequenceTheorems, FiniteSetTheorems, TLAPS

(* A string that is fit for a report: a position, what stands for a        *)
(* redacted name, or a string that has not the form of a credential.       *)
Fit(text) ==
  /\ text \in Texts \cup Indices \cup {Redacted}
  /\ text \in Texts => ~isCredentialShaped(text)

-----------------------------------------------------------------------------
(* The rules for values and the test for names agree: a string that is     *)
(* redacted as a name is a finding as a value.                             *)
LEMMA ShapedIsFound ==
  ASSUME NEW text, isCredentialShaped(text)
  PROVE  valueFindings(text) # {}
<1>1. CASE isHighEntropyTokenCandidate(text)
  BY <1>1 DEF valueFindings
<1>2. ASSUME StrongFindings(text) # {} PROVE valueFindings(text) # {}
  BY <1>2 DEF valueFindings
<1>3. CASE matchKnownTokenFormat(text) # "none"
  <2>1. matchKnownTokenFormat(text) \in StrongFindings(text)
    BY <1>3 DEF StrongFindings
  <2> QED BY <1>2, <2>1
<1>4. CASE containsPrivateKeyMaterial(text)
  <2>1. "PRIVATE_KEY_MATERIAL" \in StrongFindings(text)
    BY <1>4 DEF StrongFindings
  <2> QED BY <1>2, <2>1
<1>5. CASE matchesAuthorizationHeader(text)
  <2>1. "AUTHORIZATION_HEADER_VALUE" \in StrongFindings(text)
    BY <1>5 DEF StrongFindings
  <2> QED BY <1>2, <2>1
<1>6. CASE analyzeConnectionString(text) = "credentialed"
  <2>1. "CONNECTION_STRING_WITH_CREDENTIALS" \in StrongFindings(text)
    BY <1>6 DEF StrongFindings
  <2> QED BY <1>2, <2>1
<1>7. CASE hasUserinfo(text) /\ ~Is(text, "dataSystem")
  <2>1. "URL_USERINFO" \in StrongFindings(text)
    BY <1>7 DEF StrongFindings
  <2> QED BY <1>2, <2>1
<1>8. CASE hasUserinfo(text) /\ Is(text, "dataSystem") /\ analyzeConnectionString(text) # "credentialed"
  <2>1. analyzeConnectionString(text) = "uncredentialed"
    BY <1>8 DEF analyzeConnectionString
  <2>2. "CONNECTION_STRING_WITHOUT_CREDENTIALS" \in StrongFindings(text)
    BY <2>1 DEF StrongFindings
  <2> QED BY <1>2, <2>2
<1> QED
  BY <1>1, <1>3, <1>4, <1>5, <1>6, <1>7, <1>8 DEF isCredentialShaped

(* A value that tells something is a finding, if it is visited.            *)
LEMMA TellingIsFound ==
  ASSUME NEW e, NEW n, Telling(e, n)
  PROVE  RulesFor(e, n) # {}
<1>1. CASE n.value \in Texts /\ isCredentialShaped(n.value)
  BY <1>1, ShapedIsFound DEF RulesFor
<1>2. CASE Keyed(n) /\ isCredentialShaped(KeyOf(n))
  BY <1>2, ShapedIsFound DEF RulesFor
<1>3. CASE Keyed(n) /\ nameFindings(e, n) # {}
  BY <1>3 DEF RulesFor
<1> QED BY <1>1, <1>2, <1>3 DEF Telling

(* A value below the depth of the traversal has a container above it that  *)
(* is deeper than the size rule allows and is measured.                    *)
LEMMA DeepIsOversized ==
  ASSUME NEW e, IsEvent(e), NEW n \in e.values, Len(n.steps) > MAX_LINT_DEPTH
  PROVE  n.root \in sizeRoots(e) /\ Oversized(e, n.root)
<1> DEFINE Prefix(k) == SubSeq(n.steps, 1, k)
<1>1. /\ n.steps \in Seq(Texts \cup Indices) /\ Len(n.steps) \in Nat
      /\ MAX_LINT_DEPTH \in Nat /\ MAX_PROFILE_DEPTH \in Nat /\ MaxDepth \in Nat
      /\ MaxDepth < MAX_LINT_DEPTH /\ MaxDepth < MAX_PROFILE_DEPTH
  BY LintAssumption DEF IsEvent
<1>2. n.steps # << >>
  BY <1>1
<1>3. ASSUME NEW k \in 0 .. Len(n.steps) - 1
      PROVE  /\ Len(Prefix(k)) = k
             /\ \E m \in e.values : /\ m.root = n.root /\ m.value \in Containers
                                    /\ m.steps = Prefix(k)
  <2>1. Len(Prefix(k)) = k
    BY <1>1, <1>3
  <2> QED BY <1>2, <1>3, <2>1 DEF IsEvent
<1>4. n.root \in sizeRoots(e)
  <2>1. PICK m \in e.values : m.root = n.root /\ m.value \in Containers /\ m.steps = Prefix(0)
    BY <1>1, <1>3
  <2>2. m.steps = << >>
    BY <1>1, <2>1, SubSeqEmpty
  <2>3. n.root \in DeepRoots
    BY DEF IsEvent
  <2> QED BY <2>1, <2>2, <2>3 DEF sizeRoots
<1>5. Oversized(e, n.root)
  <2>0. MaxDepth + 1 \in 0 .. Len(n.steps) - 1
    BY <1>1
  <2>1. PICK m \in e.values : m.root = n.root /\ m.steps = Prefix(MaxDepth + 1)
    BY <1>3, <2>0
  <2>2. Len(m.steps) = MaxDepth + 1
    BY <1>1, <1>3, <2>1
  <2> QED BY <1>1, <2>1, <2>2 DEF Oversized
<1> QED BY <1>4, <1>5

(* Wherever something that must not be in an event lies in it, however     *)
(* deep and under whatever names, there is a finding at its place or its   *)
(* container is reported.                                                  *)
THEOREM NothingPassedOverTheorem ==
  ASSUME NEW e, IsEvent(e)
  PROVE  NothingPassedOver(e)
<1> SUFFICES ASSUME validateIssues(e) = {}, NEW n \in e.values, Telling(e, n)
             PROVE  \E f \in Collected(e) :
                      /\ f.root = n.root
                      /\ \/ f.steps = redactPointer(n.steps)
                         \/ f.rule = "OVERSIZED_UNFILTERED_VALUE"
  <2>1. validateIssues(e) = {} =>
          \A f \in Collected(e) : Identified(e, f) \in lintEvent(e).findings
    BY DEF lintEvent
  <2>2. \A f : /\ Identified(e, f).root = f.root /\ Identified(e, f).steps = f.steps
               /\ Identified(e, f).rule = f.rule
    BY DEF Identified
  <2> QED BY <2>1, <2>2 DEF NothingPassedOver
<1>1. CASE Len(n.steps) <= MAX_LINT_DEPTH
  <2>1. n \in Visited(e)
    BY <1>1 DEF Visited
  <2>2. PICK rule \in RulesFor(e, n) : TRUE
    BY TellingIsFound
  <2>3. PrivacyFinding(rule, n.root, redactPointer(n.steps)) \in TraversalFindings(e)
    BY <2>1, <2>2 DEF TraversalFindings
  <2> QED BY <2>3 DEF PrivacyFinding, Collected
<1>2. CASE Len(n.steps) > MAX_LINT_DEPTH
  <2>1. PrivacyFinding("OVERSIZED_UNFILTERED_VALUE", n.root, << >>) \in SizeFindings(e)
    BY <1>2, DeepIsOversized DEF SizeFindings
  <2> QED BY <2>1 DEF PrivacyFinding, Collected
<1>3. Len(n.steps) \in Nat /\ MAX_LINT_DEPTH \in Nat
  BY LintAssumption DEF IsEvent
<1> QED BY <1>1, <1>2, <1>3

-----------------------------------------------------------------------------
LEMMA RedactedIsFit ==
  ASSUME NEW steps \in Seq(Texts \cup Indices), NEW i \in DOMAIN steps
  PROVE  Fit(redactPointer(steps)[i])
<1>1. redactPointer(steps)[i] = redactKey(steps[i]) /\ steps[i] \in Texts \cup Indices
  BY DEF redactPointer
<1> QED BY <1>1, RedactionAssumption DEF redactKey, Fit

(* The path of an issue holds names and positions.                         *)
LEMMA LocationIsSteps ==
  ASSUME NEW error, IsError(error)
  PROVE  Location(error) \in Seq(Texts \cup Indices)
<1>1. error.steps \in Seq(Texts \cup Indices) /\ error.names \subseteq Texts
  BY DEF IsError
<1>2. CASE error.names = {}
  BY <1>1, <1>2 DEF Location
<1>3. CASE error.names # {}
  <2> DEFINE name == CHOOSE n \in error.names : TRUE
  <2>1. name \in error.names
    BY <1>3
  <2>2. Location(error) = Append(error.steps, name)
    BY <1>3 DEF Location
  <2> HIDE DEF name
  <2> QED BY <1>1, <2>1, <2>2
<1> QED BY <1>2, <1>3

(* Issues repeat of an event what is not of the form of a credential.      *)
LEMMA RenderedIsFit ==
  ASSUME NEW errors, \A x \in errors : IsError(x), NEW text \in QuotedByIssues(toIssues(errors))
  PROVE  Fit(text)
<1>1. PICK issue \in toIssues(errors) :
        text \in issue.quotes \/ \E i \in DOMAIN issue.path : text = issue.path[i]
  BY DEF QuotedByIssues
<1>2. PICK error \in errors :
        issue.path = redactPointer(Location(error)) /\ issue.quotes = describe(error)
  BY <1>1 DEF toIssues
<1>3. CASE \E i \in DOMAIN issue.path : text = issue.path[i]
  <2>1. DOMAIN redactPointer(Location(error)) = DOMAIN Location(error)
    BY DEF redactPointer
  <2>2. Location(error) \in Seq(Texts \cup Indices)
    BY LocationIsSteps
  <2> QED BY <1>2, <1>3, <2>1, <2>2, RedactedIsFit
<1>4. CASE text \in describe(error)
  <2>1. CASE error.keyword \in {"required", "dependentRequired"}
    BY <1>4, <2>1 DEF describe, IsError, Fit
  <2>2. CASE error.keyword \in {"additionalProperties", "propertyNames"}
    <3>1. text \in {redactKey(name) : name \in error.names}
      BY <1>4, <2>2 DEF describe
    <3>2. error.names \subseteq Texts
      BY <1>2 DEF IsError
    <3> QED BY <3>1, <3>2, RedactionAssumption DEF redactKey, Fit
  <2>3. CASE error.keyword \notin {"required", "dependentRequired",
                                   "additionalProperties", "propertyNames"}
    BY <1>4, <2>3 DEF describe
  <2> QED BY <2>1, <2>2, <2>3
<1> QED BY <1>1, <1>2, <1>3, <1>4

LEMMA IssuesAreFit ==
  ASSUME NEW e, IsEvent(e), NEW text \in QuotedByIssues(validateIssues(e))
  PROVE  Fit(text)
<1>1. CASE e.version = "supported"
  BY <1>1, RenderedIsFit DEF validateIssues, IsEvent
<1>2. CASE e.version = "unsupported"
  BY <1>2 DEF validateIssues, QuotedByIssues
<1>3. CASE e.version = "malformed"
  <2> DEFINE errors == e.errors \cup {Error("const", << >>, {})}
  <2>1. \A x \in errors : IsError(x)
    <3>1. IsError(Error("const", << >>, {}))
      BY DEF IsError, Error, NOT_EVALUATED_KEYWORD
    <3>2. \A x \in e.errors : IsError(x)
      BY DEF IsEvent
    <3> QED BY <3>1, <3>2
  <2>2. validateIssues(e) = toIssues(errors)
    BY <1>3 DEF validateIssues
  <2> QED BY <2>1, <2>2, RenderedIsFit
<1> QED BY <1>1, <1>2, <1>3 DEF IsEvent

(* So do findings.                                                         *)
LEMMA FindingsAreFit ==
  ASSUME NEW e, IsEvent(e), NEW f \in Collected(e), NEW i \in DOMAIN f.steps
  PROVE  Fit(f.steps[i])
<1>1. CASE f \in TraversalFindings(e)
  <2>1. PICK n \in Visited(e) : f.steps = redactPointer(n.steps)
    BY <1>1 DEF TraversalFindings, PrivacyFinding
  <2>2. i \in DOMAIN n.steps /\ n.steps \in Seq(Texts \cup Indices)
    BY <2>1 DEF redactPointer, Visited, IsEvent
  <2> QED BY <2>1, <2>2, RedactedIsFit
<1>2. CASE f \in ScalarFindings(e) \cup SizeFindings(e)
  <2>1. f.steps = << >>
    BY <1>2 DEF ScalarFindings, SizeFindings, PrivacyFinding
  <2> QED BY <2>1
<1>3. CASE f \in EvidenceFindings(e)
  <2>1. PICK ref \in e.evidence : f.steps = << ref.path >>
    BY <1>3 DEF EvidenceFindings, PrivacyFinding
  <2>2. f.steps[i] = ref.path /\ ref.path \in Indices
    BY <2>1 DEF IsEvent
  <2> QED BY <2>2, RedactionAssumption DEF Fit
<1> QED BY <1>1, <1>2, <1>3 DEF Collected

(* What a report may quote: a fit string anywhere, any string as the id.   *)
QuoteOK(q, json) ==
  /\ q \in [where : {"issue", "finding", "eventId"}, text : Texts \cup Indices \cup {Redacted}]
  /\ Fit(q.text) \/ (q.where = "eventId" /\ json)

LEMMA ResultsAreFit ==
  ASSUME NEW e, IsEvent(e), NEW json, NEW q \in QuotedByLint(lintEvent(e), json)
  PROVE  QuoteOK(q, json)
<1> DEFINE findings == lintEvent(e).findings
<1>1. CASE q \in Quotes("issue", QuotedByIssues(lintEvent(e).issues))
  <2>1. q = [where |-> "issue", text |-> q.text] /\ q.text \in QuotedByIssues(validateIssues(e))
    BY <1>1 DEF Quotes, lintEvent
  <2> QED BY <2>1, IssuesAreFit DEF QuoteOK, Fit
<1>2. CASE q \in Quotes("finding", UNION {{f.steps[i] : i \in DOMAIN f.steps} : f \in findings})
  <2>1. q = [where |-> "finding", text |-> q.text]
    BY <1>2 DEF Quotes
  <2>2. PICK f \in findings : \E i \in DOMAIN f.steps : q.text = f.steps[i]
    BY <1>2 DEF Quotes
  <2>3. PICK g \in Collected(e) : f = Identified(e, g)
    BY <2>2 DEF lintEvent
  <2>4. \E i \in DOMAIN g.steps : q.text = g.steps[i]
    BY <2>2, <2>3 DEF Identified
  <2> QED BY <2>1, <2>3, <2>4, FindingsAreFit DEF QuoteOK, Fit
<1>3. CASE q \in Quotes("eventId", IF json THEN lintEvent(e).eventId ELSE {})
  <2>1. json /\ q = [where |-> "eventId", text |-> q.text] /\ q.text \in e.id
    BY <1>3 DEF Quotes, lintEvent
  <2> QED BY <2>1 DEF QuoteOK, IsEvent
<1> QED BY <1>1, <1>2, <1>3 DEF QuotedByLint

-----------------------------------------------------------------------------
(* The run.                                                                *)
Files == call.files

ReadSoFar(f, i) == f <= file \/ (f = file + 1 /\ i <= taken)

(* The arguments: what the exit code depends on of Calls.                  *)
EventOK(event) == event \in IF call.command \in Sampled THEN Samples ELSE Verdicts

CallOK ==
  /\ call.command \in Commands
  /\ call.document \in {"unreadable", "invalid", "silent", "agrees", "disagrees"}
  /\ call.command \notin Compares => call.document = "agrees"
  /\ call.command = "verify-proof" => call.document # "silent"
  /\ Len(Files) \in 0 .. MaxFiles /\ Given = 1 .. Len(Files)
  /\ \A f \in Given :
       /\ Len(Files[f].events) \in 0 .. MaxEvents
       /\ DOMAIN Files[f].events = 1 .. Len(Files[f].events)
       /\ \A i \in DOMAIN Files[f].events : EventOK(Files[f].events[i])

PlaceOK ==
  /\ file \in 0 .. Len(Files) /\ taken \in Nat
  /\ file < Len(Files) => taken <= Len(Files[file + 1].events)
  /\ file = Len(Files) => taken = 0

Seen(v) ==
  \E f \in Given : \E i \in DOMAIN Files[f].events :
    ReadSoFar(f, i) /\ Outcome(Files[f].events[i]) = v

TallyOK ==
  /\ tally \in [Verdicts -> Nat]
  /\ \A v \in Verdicts : tally[v] > 0 <=> Seen(v)

(* What lint-privacy reports by is counted apart from its verdicts.        *)
NotedOK == noted \in BOOLEAN /\ (call.command = "lint-privacy" => (noted <=> tally["fail"] > 0))

FailuresOK ==
  /\ failures \in Nat
  /\ failures > 0 <=> \E f \in Given : f <= file /\ Files[f].fails

(* A command that has come as far as judging has read everything.          *)
Everything ==
  file = Len(Files) /\ call.arguments = "good" /\ Total + failures > 0

PhaseOK ==
  /\ phase \in {"called", "reading", "judging", "reporting", "returned", "exited"}
  /\ phase = "reading" => call.arguments = "good"
  /\ phase \in {"judging", "reporting"} => Everything
  /\ phase = "reporting" => ~NothingToCompare
  /\ phase \in {"returned", "exited"} =>
       code = 2 \/ (code = Verdict /\ Everything /\ ~NothingToCompare)

(* Only a stream nobody reads is lost, and the exit code says which.       *)
ExitOK ==
  /\ lost \in {"none"} \cup Streams /\ lost \notin readers
  /\ exit = IF phase # "exited" THEN -1
            ELSE IF lost = "none" THEN code ELSE IF lost = "stdout" THEN 2 ELSE 1

ShownOK == \A q \in shown : QuoteOK(q, call.json)

IInv == CallOK /\ PlaceOK /\ TallyOK /\ NotedOK /\ FailuresOK /\ PhaseOK /\ ExitOK /\ ShownOK

-----------------------------------------------------------------------------
(* What is said of an event, and what it deserves.                         *)

LEMMA SampleIsEvent ==
  ASSUME NEW s \in Samples
  PROVE  IsEvent(Content[s])
BY CommandRunAssumption

(* The issues of an event that was judged are told from the one issue of   *)
(* an event that was not.                                                  *)
LEMMA JudgedIsEvaluated ==
  ASSUME NEW errors, \A x \in errors : IsError(x), errors # {}
  PROVE  toIssues(errors) # {} /\ ~wasNotEvaluated(toIssues(errors))
<1>1. PICK x \in errors : x.keyword # NOT_EVALUATED_KEYWORD
  BY DEF IsError
<1> DEFINE issue == [keyword |-> x.keyword, of |-> Location(x),
                     path |-> redactPointer(Location(x)), quotes |-> describe(x)]
<1>2. issue \in toIssues(errors) /\ issue.keyword = x.keyword
  BY DEF toIssues
<1> HIDE DEF issue
<1> QED BY <1>1, <1>2 DEF wasNotEvaluated

LEMMA ValidatedByVersion ==
  ASSUME NEW e, IsEvent(e)
  PROVE  /\ validateIssues(e) = {} <=> e.version = "supported" /\ e.errors = {}
         /\ validateIssues(e) # {} =>
              (wasNotEvaluated(validateIssues(e)) <=> e.version = "unsupported")
<1>1. CASE e.version = "supported"
  <2>1. validateIssues(e) = toIssues(e.errors)
    BY <1>1 DEF validateIssues
  <2>2. CASE e.errors = {}
    BY <1>1, <2>1, <2>2 DEF toIssues
  <2>3. CASE e.errors # {}
    BY <1>1, <2>1, <2>3, JudgedIsEvaluated DEF IsEvent
  <2> QED BY <2>2, <2>3
<1>2. CASE e.version = "unsupported"
  <2> DEFINE issue == [keyword |-> NOT_EVALUATED_KEYWORD, of |-> << >>, path |-> << >>, quotes |-> {}]
  <2>1. validateIssues(e) = {issue}
    BY <1>2 DEF validateIssues
  <2>2. issue.keyword = NOT_EVALUATED_KEYWORD
    OBVIOUS
  <2>3. Cardinality({issue}) = 1
    BY FS_Singleton
  <2> HIDE DEF issue
  <2> QED BY <1>2, <2>1, <2>2, <2>3 DEF wasNotEvaluated
<1>3. CASE e.version = "malformed"
  <2> DEFINE errors == e.errors \cup {Error("const", << >>, {})}
  <2>1. \A x \in errors : IsError(x)
    <3>1. IsError(Error("const", << >>, {}))
      BY DEF IsError, Error, NOT_EVALUATED_KEYWORD
    <3>2. \A x \in e.errors : IsError(x)
      BY DEF IsEvent
    <3> QED BY <3>1, <3>2
  <2>2. validateIssues(e) = toIssues(errors) /\ errors # {}
    BY <1>3 DEF validateIssues
  <2> HIDE DEF errors
  <2> QED BY <1>3, <2>1, <2>2, JudgedIsEvaluated
<1> QED BY <1>1, <1>2, <1>3 DEF IsEvent

LEMMA OutcomeIsDeserved ==
  ASSUME CallOK, NEW event, EventOK(event)
  PROVE  Outcome(event) = Deserves(event) /\ Outcome(event) \in Verdicts
<1>1. CASE call.command = "validate"
  <2>1. event \in Samples
    BY <1>1 DEF EventOK, Sampled
  <2>2. Issues[event] = validateIssues(Content[event])
    BY <2>1 DEF Issues
  <2>3. Outcome(event) = IF Issues[event] = {} THEN "pass"
                         ELSE IF wasNotEvaluated(Issues[event]) THEN "skip" ELSE "fail"
    BY <1>1 DEF Outcome
  <2>4. Deserves(event) =
          IF Content[event].version = "unsupported" THEN "skip"
          ELSE IF Content[event].version = "supported" /\ Content[event].errors = {} THEN "pass"
          ELSE "fail"
    BY <1>1 DEF Deserves
  <2> QED BY <2>1, <2>2, <2>3, <2>4, SampleIsEvent, ValidatedByVersion DEF Verdicts
<1>2. CASE call.command = "lint-privacy"
  <2>1. event \in Samples
    BY <1>2 DEF EventOK, Sampled
  <2>2. Linted[event].status \in {"clean", "findings", "schema-invalid"}
    BY <2>1 DEF Linted, lintEvent
  <2>3. Outcome(event) = CASE Linted[event].status = "clean" -> "pass"
                           [] Linted[event].status = "findings" -> "fail"
                           [] Linted[event].status = "schema-invalid" -> "skip"
    BY <1>2 DEF Outcome
  <2> QED BY <1>2, <2>2, <2>3 DEF Deserves, Verdicts
<1>3. CASE call.command \notin Sampled
  BY <1>3 DEF EventOK, Sampled, Outcome, Deserves
<1> QED BY <1>1, <1>2, <1>3 DEF Sampled

(* Findings are reported of an event exactly if the linter failed it.      *)
LEMMA NotedIsFailed ==
  ASSUME CallOK, NEW event, EventOK(event), call.command = "lint-privacy"
  PROVE  Noted(event) <=> Outcome(event) = "fail"
<1>1. event \in Samples
  BY DEF EventOK, Sampled
<1>2. Linted[event].status = IF validateIssues(Content[event]) # {} THEN "schema-invalid"
                             ELSE IF Linted[event].findings = {} THEN "clean" ELSE "findings"
  BY <1>1 DEF Linted, lintEvent
<1>3. validateIssues(Content[event]) # {} => Linted[event].findings = {}
  BY <1>1 DEF Linted, lintEvent
<1>4. Outcome(event) = CASE Linted[event].status = "clean" -> "pass"
                         [] Linted[event].status = "findings" -> "fail"
                         [] Linted[event].status = "schema-invalid" -> "skip"
  BY DEF Outcome
<1> QED BY <1>2, <1>3, <1>4 DEF Noted

LEMMA QuotedIsFit ==
  ASSUME CallOK, NEW event, EventOK(event), NEW q \in Quoted(event)
  PROVE  QuoteOK(q, call.json)
<1>1. CASE call.command = "validate"
  <2>1. event \in Samples
    BY <1>1 DEF EventOK, Sampled
  <2>2. q \in Quotes("issue", QuotedByIssues(validateIssues(Content[event])))
    BY <1>1, <2>1 DEF Quoted, Issues
  <2>3. /\ q = [where |-> "issue", text |-> q.text]
        /\ q.text \in QuotedByIssues(validateIssues(Content[event]))
    BY <2>2 DEF Quotes
  <2> QED BY <2>1, <2>3, SampleIsEvent, IssuesAreFit DEF QuoteOK, Fit
<1>2. CASE call.command = "lint-privacy"
  <2>1. event \in Samples
    BY <1>2 DEF EventOK, Sampled
  <2>2. q \in QuotedByLint(lintEvent(Content[event]), call.json)
    BY <1>2, <2>1 DEF Quoted, Linted
  <2> QED BY <2>1, <2>2, SampleIsEvent, ResultsAreFit
<1> QED BY <1>1, <1>2 DEF Quoted

-----------------------------------------------------------------------------
(* The arguments a command can be given.                                   *)
LEMMA ListedIsFiles ==
  ASSUME NEW events, NEW fs \in Listed(FilesOf(events))
  PROVE  /\ Len(fs) \in 0 .. MaxFiles /\ DOMAIN fs = 1 .. Len(fs)
         /\ \A f \in DOMAIN fs :
              /\ Len(fs[f].events) \in 0 .. MaxEvents
              /\ DOMAIN fs[f].events = 1 .. Len(fs[f].events)
              /\ \A i \in DOMAIN fs[f].events : fs[f].events[i] \in events
<1>1. PICK n \in 0 .. MaxFiles : fs \in [1 .. n -> FilesOf(events)]
  BY DEF Listed
<1>2. n \in Nat
  BY <1>1, CommandRunAssumption
<1>3. Len(fs) = n /\ DOMAIN fs = 1 .. n
  BY <1>1, <1>2
<1>4. ASSUME NEW f \in DOMAIN fs
      PROVE  /\ Len(fs[f].events) \in 0 .. MaxEvents
             /\ DOMAIN fs[f].events = 1 .. Len(fs[f].events)
             /\ \A i \in DOMAIN fs[f].events : fs[f].events[i] \in events
  <2>1. fs[f] \in FilesOf(events)
    BY <1>1, <1>3, <1>4
  <2>2. PICK m \in 0 .. MaxEvents : fs[f].events \in [1 .. m -> events]
    BY <2>1 DEF FilesOf
  <2>3. m \in Nat
    BY <2>2, CommandRunAssumption
  <2> QED BY <2>2, <2>3
<1> QED BY <1>1, <1>2, <1>3, <1>4

LEMMA CalledProperly ==
  ASSUME NEW command \in Commands, call \in Calls(command)
  PROVE  CallOK
<1>1. /\ call.command = command /\ call.files \in Inputs(command)
      /\ call.document \in {"unreadable", "invalid", "silent", "agrees", "disagrees"}
      /\ call.command \notin Compares => call.document = "agrees"
      /\ call.command = "verify-proof" => call.document # "silent"
  BY DEF Calls
<1>2. CASE command \in Sampled
  <2>1. call.files \in Listed(FilesOf(Samples))
    BY <1>1, <1>2 DEF Inputs
  <2> QED BY <1>1, <1>2, <2>1, ListedIsFiles DEF CallOK, EventOK, Files, Given
<1>3. CASE command \notin Sampled
  <2>1. call.files \in Listed(FilesOf(Verdicts))
    BY <1>1, <1>3 DEF Inputs
  <2> QED BY <1>1, <1>3, <2>1, ListedIsFiles DEF CallOK, EventOK, Files, Given
<1> QED BY <1>2, <1>3

LEMMA InitInvariant == Init => IInv
<1> SUFFICES ASSUME Init PROVE IInv
  OBVIOUS
<1>1. CallOK
  BY CalledProperly DEF Init
<1>2. PlaceOK
  BY <1>1 DEF Init, PlaceOK, CallOK, Files, Given
<1>3. TallyOK
  <2>1. tally = [v \in Verdicts |-> 0] /\ file = 0 /\ taken = 0
    BY DEF Init
  <2>2. \A f \in Given : \A i \in DOMAIN Files[f].events : ~ReadSoFar(f, i)
    BY <1>1, <2>1 DEF CallOK, ReadSoFar
  <2> QED BY <2>1, <2>2 DEF TallyOK, Seen
<1>4. NotedOK
  <2>1. noted = FALSE
    BY DEF Init
  <2>2. ~(tally["fail"] > 0)
    BY DEF Init, Verdicts
  <2> QED BY <2>1, <2>2, Zenon DEF NotedOK
<1>5. FailuresOK
  BY <1>1 DEF Init, FailuresOK, CallOK
<1>6. PhaseOK /\ ExitOK /\ ShownOK
  BY DEF Init, PhaseOK, ExitOK, ShownOK, Streams
<1> QED BY <1>1, <1>2, <1>3, <1>4, <1>5, <1>6 DEF IInv

-----------------------------------------------------------------------------
(* A step that reads nothing leaves what was read as it is.                *)
LEMMA NothingReadInvariant ==
  ASSUME IInv, UNCHANGED <<call, readVars, shown>>
  PROVE  CallOK' /\ PlaceOK' /\ TallyOK' /\ NotedOK' /\ FailuresOK' /\ ShownOK'
<1>1. call' = call /\ file' = file /\ taken' = taken /\ tally' = tally
      /\ noted' = noted /\ failures' = failures /\ shown' = shown
  BY DEF readVars
<1>2. CallOK'
  BY <1>1 DEF IInv, CallOK, Files, Given, EventOK
<1>3. PlaceOK'
  BY <1>1 DEF IInv, PlaceOK, Files
<1>4. \A v : Seen(v)' <=> Seen(v)
  BY <1>1 DEF Seen, Given, Files, ReadSoFar, Outcome
<1>5. TallyOK'
  BY <1>1, <1>4 DEF IInv, TallyOK
<1>6. NotedOK' /\ FailuresOK' /\ ShownOK'
  BY <1>1 DEF IInv, NotedOK, FailuresOK, ShownOK, Given, Files
<1> QED BY <1>2, <1>3, <1>5, <1>6

LEMMA UnchangedConclusions ==
  ASSUME UNCHANGED <<call, readVars>>
  PROVE  /\ Verdict' = Verdict /\ Everything' = Everything
         /\ NothingToCompare' = NothingToCompare
<1>1. call' = call /\ file' = file /\ taken' = taken /\ tally' = tally
      /\ noted' = noted /\ failures' = failures
  BY DEF readVars
<1>2. Verdict' = Verdict
  BY <1>1 DEF Verdict, Total, runValidate, runVerifyIntegrity, runVerifyChain,
              runVerifyCheckpoint, runVerifyProof, runLintPrivacy, runCheckProfile,
              runCheckCoverage
<1>3. Everything' = Everything /\ NothingToCompare' = NothingToCompare
  BY <1>1 DEF Everything, NothingToCompare, Total, Files
<1> QED BY <1>2, <1>3

(* A write loses no stream somebody reads, and only before the exit.       *)
LEMMA WriteLoses ==
  ASSUME ExitOK, NEW streams \in SUBSET Streams, Write(streams),
         phase # "exited", phase' # "exited", UNCHANGED <<readers, exit>>
  PROVE  ExitOK'
BY DEF ExitOK, Write, Streams

LEMMA NoWriteLoses ==
  ASSUME ExitOK, phase # "exited", phase' # "exited", UNCHANGED <<readers, exit, lost>>
  PROVE  ExitOK'
BY DEF ExitOK

LEMMA BeginInvariant == IInv /\ Begin => IInv'
<1> SUFFICES ASSUME IInv, Begin PROVE IInv'
  OBVIOUS
<1> USE DEF IInv
<1>1. CallOK' /\ PlaceOK' /\ TallyOK' /\ NotedOK' /\ FailuresOK' /\ ShownOK'
  BY NothingReadInvariant DEF Begin
<1>2. CASE Refuse
  <2>1. PhaseOK' /\ phase # "exited" /\ phase' # "exited"
    BY <1>2 DEF Begin, Refuse, Return, PhaseOK
  <2>2. ExitOK'
    BY <1>2, <2>1, WriteLoses DEF Begin, Refuse, Streams
  <2> QED BY <1>1, <2>1, <2>2
<1>3. CASE ~Refuse
  <2>1. PhaseOK' /\ phase # "exited" /\ phase' # "exited"
    BY <1>3 DEF Begin, PhaseOK
  <2>2. ExitOK'
    BY <1>3, <2>1, NoWriteLoses DEF Begin
  <2> QED BY <1>1, <2>1, <2>2
<1> QED BY <1>2, <1>3

LEMMA ThrowInvariant == IInv /\ Throw => IInv'
<1> SUFFICES ASSUME IInv, Throw PROVE IInv'
  OBVIOUS
<1> USE DEF IInv
<1>1. CallOK' /\ PlaceOK' /\ TallyOK' /\ NotedOK' /\ FailuresOK' /\ ShownOK'
  BY NothingReadInvariant DEF Throw
<1>2. PhaseOK' /\ phase # "exited" /\ phase' # "exited"
  BY DEF Throw, Refuse, Return, PhaseOK
<1>3. ExitOK'
  BY <1>2, WriteLoses DEF Throw, Refuse, Streams
<1> QED BY <1>1, <1>2, <1>3

LEMMA EndOfInputInvariant == IInv /\ EndOfInput => IInv'
<1> SUFFICES ASSUME IInv, EndOfInput PROVE IInv'
  OBVIOUS
<1> USE DEF IInv
<1>1. CallOK' /\ PlaceOK' /\ TallyOK' /\ NotedOK' /\ FailuresOK' /\ ShownOK'
  BY NothingReadInvariant DEF EndOfInput
<1>2. Everything' = Everything
  BY UnchangedConclusions DEF EndOfInput
<1>3. Total \in Nat /\ failures \in Nat
  BY DEF TallyOK, FailuresOK, Total, Verdicts
<1>4. phase = "reading" /\ phase' \in {"returned", "judging"}
  BY DEF EndOfInput, Refuse, Return
<1>5. phase' = "returned" => code' = 2
  BY DEF EndOfInput, Refuse, Return
<1>6. phase' = "judging" => Everything
  BY <1>3 DEF EndOfInput, Refuse, Return, Everything, Files, PhaseOK
<1>7. PhaseOK'
  BY <1>2, <1>4, <1>5, <1>6 DEF PhaseOK
<1>8. UNCHANGED lost \/ \E streams \in SUBSET Streams : Write(streams)
  BY DEF EndOfInput, Refuse, Streams
<1>9. ExitOK'
  BY <1>4, <1>8, WriteLoses, NoWriteLoses DEF EndOfInput
<1> QED BY <1>1, <1>7, <1>9

LEMMA JudgeInvariant == IInv /\ Judge => IInv'
<1> SUFFICES ASSUME IInv, Judge PROVE IInv'
  OBVIOUS
<1> USE DEF IInv
<1>1. CallOK' /\ PlaceOK' /\ TallyOK' /\ NotedOK' /\ FailuresOK' /\ ShownOK'
  BY NothingReadInvariant DEF Judge
<1>2. Everything' = Everything /\ NothingToCompare' = NothingToCompare
  BY UnchangedConclusions DEF Judge
<1>3. phase = "judging" /\ phase' \in {"returned", "reporting"}
  BY DEF Judge, Return
<1>4. PhaseOK'
  BY <1>2 DEF Judge, Return, PhaseOK
<1>5. \E streams \in SUBSET Streams : Write(streams)
  <2>1. CASE NothingToCompare
    <3> DEFINE streams == IF failures = 0 THEN {"stderr"}
                          ELSE IF call.command = "verify-proof" THEN {"stdout"}
                          ELSE {"stdout", "stderr"}
    <3>1. Write(streams) /\ streams \in SUBSET Streams
      BY <2>1 DEF Judge, Streams
    <3> QED BY <3>1
  <2>2. CASE ~NothingToCompare
    BY <2>2 DEF Judge, Streams
  <2> QED BY <2>1, <2>2
<1>6. ExitOK'
  BY <1>3, <1>5, WriteLoses DEF Judge
<1> QED BY <1>1, <1>4, <1>6

LEMMA ReportInvariant == IInv /\ Report => IInv'
<1> SUFFICES ASSUME IInv, Report PROVE IInv'
  OBVIOUS
<1> USE DEF IInv
<1>1. CallOK' /\ PlaceOK' /\ TallyOK' /\ NotedOK' /\ FailuresOK' /\ ShownOK'
  BY NothingReadInvariant DEF Report
<1>2. Everything' = Everything /\ NothingToCompare' = NothingToCompare /\ Verdict' = Verdict
  BY UnchangedConclusions DEF Report
<1>3. phase = "reporting" /\ phase' = "returned" /\ code' = Verdict
  BY DEF Report, Return
<1>4. PhaseOK'
  BY <1>2, <1>3 DEF PhaseOK
<1>5. UNCHANGED lost \/ \E streams \in SUBSET Streams : Write(streams)
  BY DEF Report, Streams
<1>6. ExitOK'
  BY <1>3, <1>5, WriteLoses, NoWriteLoses DEF Report
<1> QED BY <1>1, <1>4, <1>6

LEMMA ExitInvariant == IInv /\ Exit => IInv'
<1> SUFFICES ASSUME IInv, Exit PROVE IInv'
  OBVIOUS
<1> USE DEF IInv
<1>1. CallOK' /\ PlaceOK' /\ TallyOK' /\ NotedOK' /\ FailuresOK' /\ ShownOK'
  BY NothingReadInvariant DEF Exit
<1>2. Everything' = Everything /\ NothingToCompare' = NothingToCompare /\ Verdict' = Verdict
  BY UnchangedConclusions DEF Exit
<1>3. phase = "returned" /\ phase' = "exited" /\ code' = code
  BY DEF Exit
<1>4. PhaseOK'
  BY <1>2, <1>3 DEF PhaseOK
<1>5. ExitOK'
  BY DEF Exit, ExitOK
<1> QED BY <1>1, <1>4, <1>5

LEMMA CloseReaderInvariant == IInv /\ CloseReader => IInv'
<1> SUFFICES ASSUME IInv, CloseReader PROVE IInv'
  OBVIOUS
<1> USE DEF IInv
<1>1. CallOK' /\ PlaceOK' /\ TallyOK' /\ NotedOK' /\ FailuresOK' /\ ShownOK'
  BY NothingReadInvariant DEF CloseReader
<1>2. Everything' = Everything /\ NothingToCompare' = NothingToCompare /\ Verdict' = Verdict
  BY UnchangedConclusions DEF CloseReader
<1>3. PhaseOK'
  BY <1>2 DEF CloseReader, PhaseOK
<1>4. ExitOK'
  BY DEF CloseReader, ExitOK
<1> QED BY <1>1, <1>3, <1>4

(* The next event is counted under what it deserves, and under that alone. *)
LEMMA TakeEventInvariant == IInv /\ TakeEvent => IInv'
<1> SUFFICES ASSUME IInv, TakeEvent PROVE IInv'
  OBVIOUS
<1> USE DEF IInv
<1> DEFINE event == Current.events[taken + 1]
<1>1. /\ call' = call /\ file' = file /\ taken' = taken + 1 /\ failures' = failures
      /\ phase = "reading" /\ phase' = phase /\ file < Len(Files)
      /\ taken < Len(Files[file + 1].events)
  BY DEF TakeEvent, Reading, Current, Files
<1>2. /\ file + 1 \in Given /\ file \in Nat /\ taken \in Nat
      /\ taken + 1 \in DOMAIN Files[file + 1].events
      /\ event = Files[file + 1].events[taken + 1] /\ EventOK(event)
  BY <1>1 DEF CallOK, PlaceOK, Current, Files
<1>3. Outcome(event) \in Verdicts
  BY <1>2, OutcomeIsDeserved
<1>4. tally' = [tally EXCEPT ![Outcome(event)] = @ + 1]
  BY DEF TakeEvent
<1>5. CallOK'
  BY <1>1 DEF CallOK, Files, Given, EventOK
<1>6. PlaceOK'
  BY <1>1, <1>2 DEF PlaceOK, CallOK, Files
<1>7. ASSUME NEW v PROVE Seen(v)' <=> (Seen(v) \/ v = Outcome(event))
  <2>1. \A x : Outcome(x)' = Outcome(x)
    BY <1>1 DEF Outcome
  <2>2. \A f \in Given : \A i \in DOMAIN Files[f].events :
          ReadSoFar(f, i)' <=> ReadSoFar(f, i) \/ (f = file + 1 /\ i = taken + 1)
    BY <1>1, <1>2 DEF ReadSoFar, CallOK
  <2>3. Files' = Files /\ Given' = Given
    BY <1>1 DEF Files, Given
  <2> HIDE DEF event
  <2> QED BY <1>2, <2>1, <2>2, <2>3 DEF Seen
<1>8. TallyOK'
  <2>1. tally' \in [Verdicts -> Nat]
    BY <1>3, <1>4 DEF TallyOK
  <2>2. ASSUME NEW v \in Verdicts PROVE tally'[v] > 0 <=> Seen(v)'
    <3>1. CASE v = Outcome(event)
      BY <1>3, <1>4, <1>7, <3>1 DEF TallyOK
    <3>2. CASE v # Outcome(event)
      BY <1>3, <1>4, <1>7, <3>2 DEF TallyOK
    <3> QED BY <3>1, <3>2
  <2> QED BY <2>1, <2>2 DEF TallyOK
<1>9. NotedOK'
  <2>1. noted' = (noted \/ Noted(event))
    BY DEF TakeEvent
  <2>2. noted' \in BOOLEAN
    BY <2>1 DEF Noted
  <2>3. ASSUME call.command = "lint-privacy" PROVE noted' <=> tally'["fail"] > 0
    <3>1. Noted(event) <=> Outcome(event) = "fail"
      BY <1>2, <2>3, NotedIsFailed
    <3>2. noted <=> tally["fail"] > 0
      BY <2>3 DEF NotedOK
    <3>3. CASE Outcome(event) = "fail"
      <4>1. tally'["fail"] > 0
        BY <1>3, <1>4, <3>3 DEF TallyOK
      <4> QED BY <2>1, <3>1, <3>3, <4>1
    <3>4. CASE Outcome(event) # "fail"
      <4>1. tally'["fail"] = tally["fail"]
        BY <1>3, <1>4, <3>4 DEF TallyOK, Verdicts
      <4> QED BY <2>1, <3>1, <3>2, <3>4, <4>1
    <3> QED BY <3>3, <3>4
  <2> QED BY <1>1, <2>2, <2>3 DEF NotedOK
<1>10. FailuresOK'
  BY <1>1 DEF FailuresOK, Given, Files
<1>11. PhaseOK'
  BY <1>1 DEF PhaseOK
<1>12. ExitOK'
  <2>1. UNCHANGED lost \/ \E streams \in SUBSET Streams : Write(streams)
    BY DEF TakeEvent, Streams
  <2> QED BY <1>1, <2>1, WriteLoses, NoWriteLoses DEF TakeEvent
<1>13. ShownOK'
  <2>1. shown' = shown \cup Quoted(event)
    BY DEF TakeEvent
  <2> QED BY <1>1, <1>2, <2>1, QuotedIsFit DEF ShownOK, QuoteOK, Fit
<1> QED BY <1>5, <1>6, <1>8, <1>9, <1>10, <1>11, <1>12, <1>13

(* At the end of a file all of its events have been read.                  *)
LEMMA EndOfFileInvariant == IInv /\ EndOfFile => IInv'
<1> SUFFICES ASSUME IInv, EndOfFile PROVE IInv'
  OBVIOUS
<1> USE DEF IInv
<1>1. /\ call' = call /\ file' = file + 1 /\ taken' = 0 /\ tally' = tally
      /\ noted' = noted /\ shown' = shown
      /\ failures' = IF Files[file + 1].fails THEN failures + 1 ELSE failures
      /\ phase = "reading" /\ phase' = phase /\ file < Len(Files)
      /\ taken = Len(Files[file + 1].events)
  BY DEF EndOfFile, Reading, Current, Files
<1>2. /\ file + 1 \in Given /\ file \in Nat /\ Files' = Files /\ Given' = Given
  BY <1>1 DEF CallOK, PlaceOK, Files, Given
<1>3. CallOK'
  BY <1>1 DEF CallOK, Files, Given, EventOK
<1>4. PlaceOK'
  BY <1>1, <1>2 DEF PlaceOK, CallOK
<1>5. ASSUME NEW v PROVE Seen(v)' <=> Seen(v)
  <2>1. \A x : Outcome(x)' = Outcome(x)
    BY <1>1 DEF Outcome
  <2>2. \A f \in Given : \A i \in DOMAIN Files[f].events : ReadSoFar(f, i)' <=> ReadSoFar(f, i)
    BY <1>1, <1>2 DEF ReadSoFar, CallOK
  <2> QED BY <1>2, <2>1, <2>2 DEF Seen
<1>6. TallyOK' /\ NotedOK' /\ ShownOK'
  BY <1>1, <1>5 DEF TallyOK, NotedOK, ShownOK
<1>7. FailuresOK'
  <2>1. \A f \in Given : f <= file' <=> f <= file \/ f = file + 1
    BY <1>1, <1>2 DEF CallOK
  <2>2. CASE Files[file + 1].fails
    BY <1>1, <1>2, <2>1, <2>2 DEF FailuresOK
  <2>3. CASE ~Files[file + 1].fails
    BY <1>1, <1>2, <2>1, <2>3 DEF FailuresOK
  <2> QED BY <2>2, <2>3
<1>8. PhaseOK'
  BY <1>1 DEF PhaseOK
<1>9. ExitOK'
  <2>1. UNCHANGED lost \/ \E streams \in SUBSET Streams : Write(streams)
    BY DEF EndOfFile, Streams
  <2> QED BY <1>1, <2>1, WriteLoses, NoWriteLoses DEF EndOfFile
<1> QED BY <1>3, <1>4, <1>6, <1>7, <1>8, <1>9

LEMMA StutterInvariant == IInv /\ UNCHANGED vars => IInv'
<1> SUFFICES ASSUME IInv, UNCHANGED vars PROVE IInv'
  OBVIOUS
<1> USE DEF IInv
<1>1. CallOK' /\ PlaceOK' /\ TallyOK' /\ NotedOK' /\ FailuresOK' /\ ShownOK'
  BY NothingReadInvariant DEF vars, readVars
<1>2. Everything' = Everything /\ NothingToCompare' = NothingToCompare /\ Verdict' = Verdict
  BY UnchangedConclusions DEF vars, readVars
<1>3. PhaseOK' /\ ExitOK'
  BY <1>2 DEF vars, PhaseOK, ExitOK
<1> QED BY <1>1, <1>3

(* What the counters, the exit code and the output know of the arguments   *)
(* is so in every reachable state (the commands of cli.ts).                *)
THEOREM Invariant == Spec => []IInv
<1>1. IInv /\ [Next]_vars => IInv'
  BY BeginInvariant, TakeEventInvariant, EndOfFileInvariant, EndOfInputInvariant,
     JudgeInvariant, ReportInvariant, ExitInvariant, ThrowInvariant, CloseReaderInvariant,
     StutterInvariant
     DEF Next, Proceed
<1> QED BY InitInvariant, <1>1, PTL DEF Spec

-----------------------------------------------------------------------------
(* The counters are bounded by the arguments: every event is counted once, *)
(* every file fails at most once.                                          *)
RangesOK ==
  /\ Total <= file * MaxEvents + taken
  /\ failures <= file
  /\ code \in 0 .. 3 /\ readers \subseteq Streams

LEMMA CountsAreNumbers ==
  ASSUME IInv
  PROVE  /\ \A v \in Verdicts : tally[v] \in Nat
         /\ Total \in Nat /\ failures \in Nat /\ file \in Nat /\ taken \in Nat
         /\ MaxEvents \in Nat /\ MaxFiles \in Nat /\ file * MaxEvents \in Nat
<1>1. \A v \in Verdicts : tally[v] \in Nat
  BY DEF IInv, TallyOK
<1>2. Total \in Nat
  BY <1>1 DEF Verdicts, Total
<1>3. failures \in Nat /\ file \in Nat /\ taken \in Nat /\ MaxEvents \in Nat /\ MaxFiles \in Nat
  BY CommandRunAssumption DEF IInv, FailuresOK, PlaceOK
<1>4. file * MaxEvents \in Nat
  BY <1>3
<1> QED BY <1>1, <1>2, <1>3, <1>4

LEMMA VerdictIsExitCode ==
  ASSUME IInv
  PROVE  Verdict \in 0 .. 3
<1>1. call.command \in Commands
  BY DEF IInv, CallOK
<1>2. /\ runValidate \in 0 .. 3 /\ runVerifyIntegrity \in 0 .. 3 /\ runVerifyChain \in 0 .. 3
      /\ runVerifyCheckpoint \in 0 .. 3 /\ runVerifyProof \in 0 .. 3
      /\ runLintPrivacy \in 0 .. 3 /\ runCheckProfile \in 0 .. 3 /\ runCheckCoverage \in 0 .. 3
  BY DEF runValidate, runVerifyIntegrity, runVerifyChain, runVerifyCheckpoint,
         runVerifyProof, runLintPrivacy, runCheckProfile, runCheckCoverage
<1>3. CASE failures > 0 \/ call.document = "invalid"
  BY <1>3 DEF Verdict
<1>4. CASE ~(failures > 0 \/ call.document = "invalid")
  BY <1>1, <1>2, <1>4 DEF Verdict, Commands
<1> QED BY <1>3, <1>4

LEMMA NextKeepsRanges == IInv /\ RangesOK /\ [Next]_vars => RangesOK'
<1> SUFFICES ASSUME IInv, RangesOK, [Next]_vars PROVE RangesOK'
  OBVIOUS
<1>0. /\ \A v \in Verdicts : tally[v] \in Nat
      /\ Total \in Nat /\ failures \in Nat /\ file \in Nat /\ taken \in Nat
      /\ MaxEvents \in Nat /\ file * MaxEvents \in Nat
  BY CountsAreNumbers
<1>1. CASE TakeEvent
  <2> DEFINE event == Current.events[taken + 1]
  <2>1. Outcome(event) \in Verdicts
    <3>1. EventOK(event)
      BY <1>1 DEF TakeEvent, Reading, Current, Files, IInv, CallOK, PlaceOK
    <3> QED BY <3>1, OutcomeIsDeserved DEF IInv
  <2>2. tally' = [tally EXCEPT ![Outcome(event)] = @ + 1] /\ tally \in [Verdicts -> Nat]
    BY <1>1 DEF TakeEvent, IInv, TallyOK
  <2> HIDE DEF event
  <2>3. Total' = Total + 1
    BY <1>0, <2>1, <2>2 DEF Total, Verdicts
  <2>4. taken' = taken + 1 /\ UNCHANGED <<file, failures, code, readers>>
    BY <1>1 DEF TakeEvent
  <2> QED BY <1>0, <2>3, <2>4 DEF RangesOK
<1>2. CASE EndOfFile
  <2>1. /\ file' = file + 1 /\ taken' = 0 /\ failures' \in {failures, failures + 1}
        /\ UNCHANGED <<tally, code, readers>>
    BY <1>2 DEF EndOfFile
  <2>2. Total' = Total
    BY <2>1 DEF Total
  <2>3. taken <= MaxEvents
    BY <1>2 DEF EndOfFile, Reading, Current, IInv, CallOK, PlaceOK, Files
  <2>4. (file + 1) * MaxEvents = file * MaxEvents + MaxEvents
    BY <1>0
  <2> QED BY <1>0, <2>1, <2>2, <2>3, <2>4 DEF RangesOK
<1>3. ASSUME UNCHANGED readVars, code' \in {code, 2, Verdict}, readers' \subseteq readers
      PROVE  RangesOK'
  <2>1. Total' = Total
    BY <1>3 DEF readVars, Total
  <2> QED BY <1>3, <2>1, VerdictIsExitCode DEF RangesOK, readVars
<1>4. CASE Begin \/ Throw \/ EndOfInput \/ Judge
  BY <1>3, <1>4 DEF Begin, Throw, EndOfInput, Judge, Refuse, Return
<1>5. CASE Report
  BY <1>3, <1>5 DEF Report, Return
<1>6. CASE Exit \/ CloseReader
  BY <1>3, <1>6 DEF Exit, CloseReader
<1>7. CASE UNCHANGED vars
  BY <1>3, <1>7 DEF vars, readVars
<1> QED BY <1>1, <1>2, <1>4, <1>5, <1>6, <1>7 DEF Next, Proceed

(* Every variable keeps its type: no more is counted than was given, and   *)
(* what the output repeats of the events are names, positions and the mark *)
(* that stands for a redacted name.                                        *)
THEOREM TypeCorrect == Spec => []TypeOK
<1>1. Init => RangesOK
  <2> SUFFICES ASSUME Init PROVE RangesOK
    OBVIOUS
  <2>1. Total = 0 /\ file = 0 /\ taken = 0 /\ failures = 0 /\ code = 0 /\ readers = Streams
    BY DEF Init, Total, Verdicts
  <2>2. 0 * MaxEvents = 0
    BY CommandRunAssumption
  <2> QED BY <2>1, <2>2 DEF RangesOK
<1>2. ASSUME IInv, RangesOK PROVE TypeOK
  <2>0. /\ \A v \in Verdicts : tally[v] \in Nat
        /\ Total \in Nat /\ failures \in Nat /\ file \in Nat /\ taken \in Nat
        /\ MaxEvents \in Nat /\ MaxFiles \in Nat /\ file * MaxEvents \in Nat
    BY <1>2, CountsAreNumbers
  <2>1. file <= Len(Files) /\ Len(Files) \in Nat /\ Len(Files) <= MaxFiles /\ taken <= MaxEvents
        /\ (file = Len(Files) => taken = 0)
    BY <1>2, <2>0 DEF IInv, PlaceOK, CallOK
  <2>2. file * MaxEvents + taken <= MaxFiles * MaxEvents /\ MaxFiles * MaxEvents \in Nat
    <3>1. \A m, n \in Nat : m <= n => m * MaxEvents <= n * MaxEvents
      <4> SUFFICES ASSUME NEW m \in Nat, NEW n \in Nat, m <= n
                   PROVE  m * MaxEvents <= n * MaxEvents
        OBVIOUS
      <4>1. n * MaxEvents = m * MaxEvents + (n - m) * MaxEvents
        BY <2>0
      <4>2. (n - m) * MaxEvents \in Nat /\ m * MaxEvents \in Nat
        BY <2>0
      <4> QED BY <4>1, <4>2
    <3>2. CASE file = Len(Files)
      BY <2>0, <2>1, <3>1, <3>2
    <3>3. CASE file + 1 <= MaxFiles
      <4>1. (file + 1) * MaxEvents = file * MaxEvents + MaxEvents
        BY <2>0
      <4>2. (file + 1) * MaxEvents <= MaxFiles * MaxEvents
        BY <2>0, <3>1, <3>3
      <4>3. MaxFiles * MaxEvents \in Nat /\ (file + 1) * MaxEvents \in Nat
        BY <2>0
      <4> QED BY <2>0, <2>1, <4>1, <4>2, <4>3
    <3> QED BY <2>0, <2>1, <3>2, <3>3
  <2>3. tally \in [Verdicts -> 0 .. MaxFiles * MaxEvents]
    <3>1. \A v \in Verdicts : tally[v] <= Total
      BY <2>0 DEF Verdicts, Total
    <3>2. Total <= MaxFiles * MaxEvents
      BY <1>2, <2>0, <2>2 DEF RangesOK
    <3>3. \A v \in Verdicts : tally[v] \in 0 .. MaxFiles * MaxEvents
      BY <2>0, <2>2, <3>1, <3>2
    <3> QED BY <1>2, <3>3 DEF IInv, TallyOK
  <2>4. exit \in -1 .. 3 /\ lost \in Streams \cup {"none"}
    BY <1>2 DEF IInv, ExitOK, RangesOK
  <2>5. /\ noted \in BOOLEAN
        /\ shown \subseteq [where : {"issue", "finding", "eventId"},
                            text : Texts \cup Indices \cup {Redacted}]
    BY <1>2 DEF IInv, NotedOK, ShownOK, QuoteOK
  <2>6. file \in 0 .. Len(call.files) /\ taken \in 0 .. MaxEvents /\ failures \in 0 .. file
    BY <1>2, <2>0, <2>1 DEF RangesOK, Files
  <2> QED BY <1>2, <2>3, <2>4, <2>5, <2>6 DEF IInv, PhaseOK, RangesOK, TypeOK
<1>3. IInv /\ RangesOK => TypeOK
  BY <1>2
<1> QED BY <1>1, <1>3, NextKeepsRanges, Invariant, PTL DEF Spec

-----------------------------------------------------------------------------
(* When everything has been read, the counters are about the arguments.    *)
LEMMA ReadInFull ==
  ASSUME IInv, Everything
  PROVE  /\ \A verdicts \in SUBSET Verdicts :
              Some(verdicts) <=> \E v \in verdicts : tally[v] > 0
         /\ failures = 0 <=> \A f \in Given : ~Files[f].fails
<1> USE DEF IInv
<1>1. \A f \in Given : \A i \in DOMAIN Files[f].events : ReadSoFar(f, i)
  BY DEF Everything, CallOK, ReadSoFar
<1>2. \A f \in Given : \A i \in DOMAIN Files[f].events :
        /\ Outcome(Files[f].events[i]) = Deserves(Files[f].events[i])
        /\ Deserves(Files[f].events[i]) \in Verdicts
  <2>1. \A f \in Given : \A i \in DOMAIN Files[f].events : EventOK(Files[f].events[i])
    BY DEF CallOK
  <2> QED BY <2>1, OutcomeIsDeserved
<1>3. \A v \in Verdicts : tally[v] > 0 <=>
        \E f \in Given : \E i \in DOMAIN Files[f].events : Deserves(Files[f].events[i]) = v
  BY <1>1, <1>2 DEF TallyOK, Seen
<1>4. \A verdicts \in SUBSET Verdicts :
        Some(verdicts) <=> \E f \in Given : \E i \in DOMAIN Files[f].events :
                             Deserves(Files[f].events[i]) \in verdicts
  BY <1>2 DEF Some, All, Files
<1>5. failures = 0 <=> \A f \in Given : ~Files[f].fails
  BY DEF FailuresOK, Everything, CallOK
<1> QED BY <1>3, <1>4, <1>5

LEMMA AllIsNotSome ==
  ASSUME NEW verdicts \in SUBSET Verdicts
  PROVE  All(verdicts) <=> ~Some(Verdicts \ verdicts)
<1>1. Verdicts \ (Verdicts \ verdicts) = verdicts
  OBVIOUS
<1> QED BY <1>1 DEF Some

(* The three verdicts and the two failures to reach one, in terms of the   *)
(* arguments.                                                              *)
LEMMA Concluded ==
  ASSUME IInv, exit \in {0, 1, 3}, exit = 1 => "stderr" \in readers
  PROVE  /\ lost = "none" /\ Verdict = exit /\ exit # 2
         /\ Everything /\ ~NothingToCompare /\ failures = 0 /\ call.document # "invalid"
         /\ tally["pass"] \in Nat /\ tally["fail"] \in Nat /\ tally["skip"] \in Nat
         /\ call.document \in {"silent", "agrees", "disagrees"}
         /\ call.command \notin Compares => call.document = "agrees"
         /\ Total > 0
<1> USE DEF IInv
<1>1. phase = "exited" /\ lost = "none" /\ exit = code
  BY DEF ExitOK, Streams
<1>2. code = Verdict /\ Everything /\ ~NothingToCompare
  BY <1>1 DEF PhaseOK
<1>3. failures = 0 /\ call.document # "invalid"
  BY <1>1, <1>2 DEF Verdict, FailuresOK
<1>4. call.document \in {"silent", "agrees", "disagrees"}
  BY <1>2, <1>3 DEF NothingToCompare, CallOK
<1>5. tally["pass"] \in Nat /\ tally["fail"] \in Nat /\ tally["skip"] \in Nat
  BY DEF TallyOK, Verdicts
<1>6. Total > 0
  BY <1>2, <1>3, <1>5 DEF Everything, Total
<1> QED BY <1>1, <1>2, <1>3, <1>4, <1>5, <1>6 DEF CallOK

-----------------------------------------------------------------------------
(* Exit code 0 (README.md:102): every file was read to its end, some event *)
(* was judged and none failed, the document agrees and nobody missed a     *)
(* line of the output.                                                     *)
THEOREM ZeroIsEarnedTheorem == Spec => []ZeroIsEarned
<1>1. ASSUME IInv, exit = 0 PROVE ZeroIsEarned
  <2>1. /\ lost = "none" /\ Verdict = 0 /\ Everything /\ ~NothingToCompare /\ failures = 0
        /\ call.document # "invalid" /\ Total > 0
        /\ tally["pass"] \in Nat /\ tally["fail"] \in Nat /\ tally["skip"] \in Nat
        /\ call.document \in {"silent", "agrees", "disagrees"}
        /\ call.command \notin Compares => call.document = "agrees"
    BY <1>1, Concluded
  <2>2. call.arguments = "good" /\ \A f \in Given : ~call.files[f].fails
    BY <1>1, <2>1, ReadInFull DEF Everything, Files
  <2>3. /\ call.document = "agrees"
        /\ IF call.command = "check-coverage" THEN tally["pass"] > 0 \/ tally["fail"] > 0
                                             ELSE tally["pass"] > 0
        /\ call.command \notin {"check-profile", "check-coverage"} =>
              tally["fail"] = 0 /\ tally["skip"] = 0
        /\ call.command = "check-profile" => tally["fail"] = 0
    <3>1. call.command \in Commands /\ (call.command = "verify-proof" => call.document # "silent")
      BY <1>1 DEF IInv, CallOK
    <3>2. call.command = "lint-privacy" => (noted <=> tally["fail"] > 0)
      BY <1>1 DEF IInv, NotedOK
    <3>3. CASE call.command = "validate"
      BY <2>1, <3>3 DEF Verdict, runValidate, Total, Compares
    <3>4. CASE call.command = "verify-integrity"
      BY <2>1, <3>4 DEF Verdict, runVerifyIntegrity, Total, Compares
    <3>5. CASE call.command = "verify-chain"
      BY <2>1, <3>5 DEF Verdict, runVerifyChain, Total, Compares
    <3>6. CASE call.command = "verify-checkpoint"
      BY <2>1, <3>6 DEF Verdict, runVerifyCheckpoint, Total
    <3>7. CASE call.command = "verify-proof"
      BY <2>1, <3>1, <3>7 DEF Verdict, runVerifyProof, Total
    <3>8. CASE call.command = "lint-privacy"
      BY <2>1, <3>2, <3>8 DEF Verdict, runLintPrivacy, Total, Compares
    <3>9. CASE call.command = "check-profile"
      BY <2>1, <3>9 DEF Verdict, runCheckProfile, Total, Compares
    <3>10. CASE call.command = "check-coverage"
      BY <2>1, <3>10 DEF Verdict, runCheckCoverage, Total, Compares
    <3> QED BY <3>1, <3>3, <3>4, <3>5, <3>6, <3>7, <3>8, <3>9, <3>10 DEF Commands
  <2>4. \A verdicts \in SUBSET Verdicts :
          Some(verdicts) <=> \E v \in verdicts : tally[v] > 0
    BY <1>1, <2>1, ReadInFull
  <2>5. IF call.command = "check-coverage" THEN Some({"pass", "fail"}) ELSE Some({"pass"})
    BY <2>3, <2>4 DEF Verdicts
  <2>6. call.command \notin {"check-profile", "check-coverage"} => All({"pass"})
    <3>1. All({"pass"}) <=> ~Some(Verdicts \ {"pass"})
      BY AllIsNotSome DEF Verdicts
    <3> QED BY <2>1, <2>3, <2>4, <3>1 DEF Verdicts
  <2>7. call.command = "check-profile" => All({"pass", "skip"})
    <3>1. All({"pass", "skip"}) <=> ~Some(Verdicts \ {"pass", "skip"})
      BY AllIsNotSome DEF Verdicts
    <3> QED BY <2>1, <2>3, <2>4, <3>1 DEF Verdicts
  <2> QED BY <2>1, <2>2, <2>3, <2>5, <2>6, <2>7 DEF ZeroIsEarned
<1>2. IInv => ZeroIsEarned
  BY <1>1 DEF ZeroIsEarned
<1> QED BY Invariant, <1>2, PTL

(* Exit code 1 (README.md:103): every file was read, and some event did    *)
(* not pass or the document disagrees, while somebody reads the standard   *)
(* error.                                                                  *)
THEOREM OneMeansFailedTheorem == Spec => []OneMeansFailed
<1>1. ASSUME IInv, exit = 1, "stderr" \in readers PROVE VerdictFailed
  <2>1. /\ Verdict = 1 /\ Everything /\ failures = 0 /\ call.document # "invalid"
        /\ tally["pass"] \in Nat /\ tally["fail"] \in Nat /\ tally["skip"] \in Nat
        /\ call.document \in {"silent", "agrees", "disagrees"}
    BY <1>1, Concluded
  <2>2. call.arguments = "good" /\ \A f \in Given : ~call.files[f].fails
    BY <1>1, <2>1, ReadInFull DEF Everything, Files
  <2>3. call.document = "disagrees" \/ tally["fail"] > 0 \/ tally["skip"] > 0
    <3>1. call.command \in Commands
      BY <1>1 DEF IInv, CallOK
    <3>2. call.command = "lint-privacy" => (noted <=> tally["fail"] > 0)
      BY <1>1 DEF IInv, NotedOK
    <3>3. CASE call.command = "validate"
      BY <2>1, <3>3 DEF Verdict, runValidate
    <3>4. CASE call.command = "verify-integrity"
      BY <2>1, <3>4 DEF Verdict, runVerifyIntegrity
    <3>5. CASE call.command = "verify-chain"
      BY <2>1, <3>5 DEF Verdict, runVerifyChain
    <3>6. CASE call.command = "verify-checkpoint"
      BY <2>1, <3>6 DEF Verdict, runVerifyCheckpoint, Total
    <3>7. CASE call.command = "verify-proof"
      BY <2>1, <3>7 DEF Verdict, runVerifyProof
    <3>8. CASE call.command = "lint-privacy"
      BY <2>1, <3>2, <3>8 DEF Verdict, runLintPrivacy
    <3>9. CASE call.command = "check-profile"
      BY <2>1, <3>9 DEF Verdict, runCheckProfile
    <3>10. CASE call.command = "check-coverage"
      BY <2>1, <3>10 DEF Verdict, runCheckCoverage
    <3> QED BY <3>1, <3>3, <3>4, <3>5, <3>6, <3>7, <3>8, <3>9, <3>10 DEF Commands
  <2>4. Some({"fail", "skip"}) <=> \E v \in {"fail", "skip"} : tally[v] > 0
    BY <1>1, <2>1, ReadInFull DEF Verdicts
  <2> QED BY <2>2, <2>3, <2>4 DEF VerdictFailed
<1>2. IInv => OneMeansFailed
  BY <1>1 DEF OneMeansFailed
<1> QED BY Invariant, <1>2, PTL

(* Exit code 3 (README.md:105): no file was left unread, and no failure is *)
(* hidden behind the events that were not evaluated.                       *)
THEOREM ThreeHidesNothingTheorem == Spec => []ThreeHidesNothing
<1>1. ASSUME IInv, exit = 3 PROVE ThreeHidesNothing
  <2>1. /\ lost = "none" /\ Verdict = 3 /\ Everything /\ ~NothingToCompare /\ failures = 0
        /\ call.document # "invalid" /\ Total > 0
        /\ tally["pass"] \in Nat /\ tally["fail"] \in Nat /\ tally["skip"] \in Nat
    BY <1>1, Concluded
  <2>2. call.arguments = "good" /\ \A f \in Given : ~call.files[f].fails
    BY <1>1, <2>1, ReadInFull DEF Everything, Files
  <2>3. /\ tally["skip"] > 0 \/ call.document = "silent"
        /\ call.command # "verify-checkpoint" => tally["fail"] = 0
    <3>1. call.command \in Commands
      BY <1>1 DEF IInv, CallOK
    <3>2. call.command = "lint-privacy" => (noted <=> tally["fail"] > 0)
      BY <1>1 DEF IInv, NotedOK
    <3>3. CASE call.command = "validate"
      BY <2>1, <3>3 DEF Verdict, runValidate
    <3>4. CASE call.command = "verify-integrity"
      BY <2>1, <3>4 DEF Verdict, runVerifyIntegrity
    <3>5. CASE call.command = "verify-chain"
      BY <2>1, <3>5 DEF Verdict, runVerifyChain, Total
    <3>6. CASE call.command = "verify-checkpoint"
      BY <2>1, <3>6 DEF Verdict, runVerifyCheckpoint, Total
    <3>7. CASE call.command = "verify-proof"
      BY <2>1, <3>7 DEF Verdict, runVerifyProof
    <3>8. CASE call.command = "lint-privacy"
      BY <2>1, <3>2, <3>8 DEF Verdict, runLintPrivacy
    <3>9. CASE call.command = "check-profile"
      BY <2>1, <3>9 DEF Verdict, runCheckProfile, Total
    <3>10. CASE call.command = "check-coverage"
      BY <2>1, <3>10 DEF Verdict, runCheckCoverage, Total
    <3> QED BY <3>1, <3>3, <3>4, <3>5, <3>6, <3>7, <3>8, <3>9, <3>10 DEF Commands
  <2>4. \A verdicts \in SUBSET Verdicts :
          Some(verdicts) <=> \E v \in verdicts : tally[v] > 0
    BY <1>1, <2>1, ReadInFull
  <2>5. Some({"skip"}) \/ call.document = "silent"
    BY <2>3, <2>4 DEF Verdicts
  <2>6. call.command # "verify-checkpoint" => All({"pass", "skip"})
    <3>1. All({"pass", "skip"}) <=> ~Some(Verdicts \ {"pass", "skip"})
      BY AllIsNotSome DEF Verdicts
    <3> QED BY <2>1, <2>3, <2>4, <3>1 DEF Verdicts
  <2> QED BY <2>1, <2>2, <2>5, <2>6 DEF ThreeHidesNothing
<1>2. IInv => ThreeHidesNothing
  BY <1>1 DEF ThreeHidesNothing
<1> QED BY Invariant, <1>2, PTL

(* However many events a command describes, the one string of theirs with  *)
(* the form of a credential that its report can repeat is the id of one,   *)
(* and only the JSON report does (redact-key.ts:8, cli.ts:1217).           *)
THEOREM OnlyAnIdRepeatsASecretTheorem == Spec => []OnlyAnIdRepeatsASecret
<1>1. IInv => OnlyAnIdRepeatsASecret
  BY DEF IInv, ShownOK, QuoteOK, Fit, OnlyAnIdRepeatsASecret
<1> QED BY Invariant, <1>1, PTL

(* An event the linter calls clean has no exposure in it.                  *)
LEMMA CleanIsClean ==
  ASSUME NEW e, IsEvent(e), lintEvent(e).status = "clean"
  PROVE  /\ e.version = "supported" /\ e.errors = {}
         /\ \A n \in e.values : ~Telling(e, n)
         /\ \A s \in e.strings \cup e.evidence : ~isCredentialShaped(s.value)
<1>1. validateIssues(e) = {} /\ lintEvent(e).findings = {} /\ Collected(e) = {}
  BY DEF lintEvent
<1>2. e.version = "supported" /\ e.errors = {}
  BY <1>1, ValidatedByVersion
<1>3. \A n \in e.values : ~Telling(e, n)
  BY <1>1, NothingPassedOverTheorem DEF NothingPassedOver
<1>4. ASSUME NEW s \in e.strings, NEW r \in valueFindings(s.value) PROVE FALSE
  <2>1. PrivacyFinding(r, s.path, << >>) \in ScalarFindings(e)
    BY DEF ScalarFindings
  <2> QED BY <1>1, <2>1 DEF Collected
<1>5. ASSUME NEW s \in e.evidence, NEW r \in valueFindings(s.value) PROVE FALSE
  <2>1. PrivacyFinding(r, "/evidence", << s.path >>) \in EvidenceFindings(e)
    BY DEF EvidenceFindings
  <2> QED BY <1>1, <2>1 DEF Collected
<1> QED BY <1>2, <1>3, <1>4, <1>5, ShapedIsFound

(* Exit code 0 of lint-privacy: there is no exposure in any event given,   *)
(* at any depth and under any name.                                        *)
THEOREM CleanMeansNothingExposedTheorem == Spec => []CleanMeansNothingExposed
<1>1. ASSUME IInv, ZeroIsEarned, exit = 0, call.command = "lint-privacy",
             NEW f \in Given, NEW i \in DOMAIN call.files[f].events
      PROVE  LET e == Content[call.files[f].events[i]] IN
             /\ e.version = "supported" /\ e.errors = {}
             /\ \A n \in e.values : ~Telling(e, n)
             /\ \A s \in e.strings \cup e.evidence : ~isCredentialShaped(s.value)
  <2> DEFINE event == call.files[f].events[i]
  <2>1. Deserves(event) = "pass"
    BY <1>1 DEF ZeroIsEarned, All
  <2>2. event \in Samples
    BY <1>1 DEF IInv, CallOK, EventOK, Sampled, Files
  <2>3. Outcome(event) = "pass" /\ Linted[event].status \in {"clean", "findings", "schema-invalid"}
    BY <1>1, <2>1, <2>2 DEF Deserves, Linted, lintEvent
  <2>4. Outcome(event) = CASE Linted[event].status = "clean" -> "pass"
                           [] Linted[event].status = "findings" -> "fail"
                           [] Linted[event].status = "schema-invalid" -> "skip"
    BY <1>1 DEF Outcome
  <2>5. lintEvent(Content[event]).status = "clean"
    BY <2>2, <2>3, <2>4 DEF Linted
  <2> HIDE DEF event
  <2>6. IsEvent(Content[event])
    BY <2>2, SampleIsEvent
  <2>7. /\ Content[event].version = "supported" /\ Content[event].errors = {}
        /\ \A n \in Content[event].values : ~Telling(Content[event], n)
        /\ \A s \in Content[event].strings \cup Content[event].evidence : ~isCredentialShaped(s.value)
    BY <2>5, <2>6, CleanIsClean
  <2> QED BY <2>7 DEF event
<1>2. IInv /\ ZeroIsEarned => CleanMeansNothingExposed
  BY <1>1 DEF CleanMeansNothingExposed
<1> QED BY Invariant, ZeroIsEarnedTheorem, <1>2, PTL
=============================================================================
