---------------------------- MODULE ProfileEngine ----------------------------
(***************************************************************************)
(* Profile conformance (conformance/src/profiles): events are checked one  *)
(* at a time against the rules of a profile, as check-profile does, and    *)
(* the coverage of the profile is then counted over the same events, as    *)
(* check-coverage does: a second reading of the events that selects rules  *)
(* and evaluates conditions once more.                                     *)
(*                                                                         *)
(* An event is what a rule can ask about it: its name, and the value at    *)
(* each path.  A rule selects names, by exact name or prefix alike, under  *)
(* a condition if it has one (a set of at most one).                       *)
(***************************************************************************)
EXTENDS Naturals, SequencesExt

CONSTANTS
  Names,      \* values of /event/name
  Paths,      \* paths a rule can ask about
  Above,      \* per path, the paths it leads through
  TypeOf,     \* per value, its JSON type
  Empty,      \* the values that are not present: null, "", {}, []
  Absent,     \* no value
  Object,     \* an object with members
  Rules,      \* the rules a profile may be made of
  Events,     \* the events that may be read
  MaxRules, MaxEvents   \* bounds: rules of a profile, events of a run

Values == DOMAIN TypeOf

Types == {"string", "number", "integer", "boolean", "object", "array"}

(* What a rule can compare a value with. *)
Scalar == {v \in Values : TypeOf[v] \notin {"object", "array"}}

IsRule(r) ==
  /\ r.events \subseteq Names
  /\ r.when \subseteq [path : Paths, equals : Scalar]
  /\ r.severity \in {"info", "warning", "error"}
  /\ r.required \in Seq(Paths) /\ r.recommended \in Seq(Paths)
  /\ r.metadata \in Seq([path : Paths, type : Types])
  /\ r.values \in Seq([path : Paths, equals : Scalar])

IsEvent(e) ==
  /\ e.core \in {"valid", "invalid", "uncovered"}   \* uncovered: another core version
  /\ e.name \in Names
  /\ e.at \in [Paths -> Values \cup {Absent}]
  /\ \A p \in Paths : e.at[p] # Absent => \A a \in Above[p] : e.at[a] = Object

ASSUME ProfileAssumption ==
  /\ Above \in [Paths -> SUBSET Paths] /\ \A p \in Paths : p \notin Above[p]
  /\ TypeOf \in [Values -> Types] /\ Empty \subseteq Values /\ Absent \notin Values
  /\ Object \in Values \ Empty /\ TypeOf[Object] = "object"
  /\ \A r \in Rules : IsRule(r)
  /\ \A e \in Events : IsEvent(e)
  /\ MaxRules \in Nat \ {0} /\ MaxEvents \in Nat

VARIABLES
  profile,   \* its rules, in the order of the definition
  events,    \* the events read so far
  results,   \* per event, the result of checkProfile
  tally,     \* ProfileTally: its counts of statuses under "by"
  coverage,  \* the counters of summariseCoverage
  covered,   \* events coverage has looked at
  phase      \* checking, covering, done

vars == <<profile, events, results, tally, coverage, covered, phase>>

Ids(rules) == {rules[i].id : i \in DOMAIN rules}

-----------------------------------------------------------------------------
(* One rule and one event. *)

conditionHolds(e, r) == \A c \in r.when : e.at[c.path] = c.equals

isPresent(e, path) == e.at[path] \notin Empty \cup {Absent}

matchesMetadataType(value, type) ==
  TypeOf[value] = type \/ (type = "number" /\ TypeOf[value] = "integer")

Finding(r, path, what) == [ruleId |-> r.id, path |-> path, what |-> what]

Unmet(e, r) ==
       {Finding(r, p, "required") : p \in {q \in ToSet(r.required) : ~isPresent(e, q)}}
  \cup {Finding(r, m.path, "metadata") :
          m \in {n \in ToSet(r.metadata) : \/ ~isPresent(e, n.path)
                                           \/ ~matchesMetadataType(e.at[n.path], n.type)}}
  \cup {Finding(r, v.path, "valued") : v \in {w \in ToSet(r.values) : e.at[w.path] # w.equals}}

Unheeded(e, r) ==
  {Finding(r, p, "recommended") : p \in {q \in ToSet(r.recommended) : ~isPresent(e, q)}}

(* Slip: recommendations are collected before the condition is asked. *)
evaluateRuleWarningFirst(e, r) ==
  IF ~conditionHolds(e, r) THEN [errors |-> {}, warnings |-> Unheeded(e, r)]
  ELSE IF r.severity = "error"
       THEN [errors |-> Unmet(e, r), warnings |-> Unheeded(e, r)]
       ELSE [errors |-> {}, warnings |-> Unmet(e, r) \cup Unheeded(e, r)]

evaluateRule(e, r) ==
  IF ~conditionHolds(e, r) THEN [errors |-> {}, warnings |-> {}]
  ELSE IF r.severity = "error"
       THEN [errors |-> Unmet(e, r), warnings |-> Unheeded(e, r)]
       ELSE [errors |-> {}, warnings |-> Unmet(e, r) \cup Unheeded(e, r)]

(* Slip: the last rule that matches replaces the ones before it. *)
selectRulesLast(rules, name) ==
  {i \in DOMAIN rules :
     /\ name \in rules[i].events
     /\ ~\E j \in DOMAIN rules : j > i /\ name \in rules[j].events}

(* Slip: the first rule that matches is the only one. *)
selectRulesFirst(rules, name) ==
  {i \in DOMAIN rules :
     /\ name \in rules[i].events
     /\ ~\E j \in DOMAIN rules : j < i /\ name \in rules[j].events}

(* The positions of the selected rules: of rules with one id, the first.   *)
selectRules(rules, name) ==
  {i \in DOMAIN rules :
     /\ name \in rules[i].events
     /\ ~\E j \in DOMAIN rules :
          j < i /\ rules[j].id = rules[i].id /\ name \in rules[j].events}

-----------------------------------------------------------------------------
(* checkProfile *)

Result(status, matched, errors, warnings) ==
  [status |-> status, matched |-> matched, errors |-> errors, warnings |-> warnings]

checkProfile(e, rules) ==
  LET selected == selectRules(rules, e.name)
      errors == UNION {evaluateRule(e, rules[i]).errors : i \in selected}
      warnings == UNION {evaluateRule(e, rules[i]).warnings : i \in selected}
  IN IF e.core = "invalid" THEN Result("core-invalid", {}, {}, {})
     ELSE IF e.core = "uncovered" \/ selected = {} THEN Result("not-applicable", {}, {}, {})
     ELSE Result(IF errors = {} THEN "conforming" ELSE "violations",
                 {rules[i].id : i \in selected}, errors, warnings)

Statuses == {"conforming", "violations", "not-applicable", "core-invalid"}

StartTally == [events |-> 0, errors |-> 0, warnings |-> 0, by |-> [s \in Statuses |-> 0]]

addToProfileTally(t, result) ==
  [events |-> t.events + 1,
   errors |-> t.errors + Cardinality(result.errors),
   warnings |-> t.warnings + Cardinality(result.warnings),
   by |-> [t.by EXCEPT ![result.status] = @ + 1]]

StartCoverage(rules) ==
  LET zero == [id \in Ids(rules) |-> 0]
  IN [selected |-> zero, applied |-> zero, failed |-> zero,
      names |-> [n \in Names |-> 0], governed |-> {}]

Init ==
  /\ profile \in UNION {[1 .. n -> Rules] : n \in 1 .. MaxRules}
  /\ events = << >> /\ results = << >>
  /\ tally = StartTally
  /\ coverage = StartCoverage(profile)
  /\ covered = 0 /\ phase = "checking"

(* The next event of the stream, or of the documents loaded for coverage.  *)
Check ==
  /\ phase = "checking" /\ Len(events) < MaxEvents
  /\ \E e \in Events :
       /\ events' = Append(events, e)
       /\ results' = Append(results, checkProfile(e, profile))
       /\ tally' = addToProfileTally(tally, checkProfile(e, profile))
  /\ UNCHANGED <<profile, coverage, covered, phase>>

StartCovering ==
  /\ phase = "checking" /\ events # << >>
  /\ phase' = "covering"
  /\ UNCHANGED <<profile, events, results, tally, coverage, covered>>

(* Slip: an event of another core version counts towards coverage. *)
JudgedUncovered(e, result) == result.status # "core-invalid"

(* The events coverage can say something about. *)
Judged(e, result) == result.status # "core-invalid" /\ e.core # "uncovered"

CountIf(counts, ids) == [id \in DOMAIN counts |-> counts[id] + IF id \in ids THEN 1 ELSE 0]

(* The loop of summariseCoverage, for its next event. *)
Cover ==
  /\ phase = "covering" /\ covered < Len(events)
  /\ covered' = covered + 1
  /\ LET e == events[covered + 1]
         result == results[covered + 1]
         selected == selectRules(profile, e.name)
         ids == {profile[i].id : i \in selected}
     IN coverage' =
          IF ~Judged(e, result) THEN coverage
          ELSE [selected |-> CountIf(coverage.selected, ids),
                applied |-> CountIf(coverage.applied,
                              {profile[i].id : i \in {j \in selected :
                                                        conditionHolds(e, profile[j])}}),
                failed |-> CountIf(coverage.failed,
                                   ids \cap {f.ruleId : f \in result.errors}),
                names |-> [coverage.names EXCEPT ![e.name] = @ + 1],
                governed |-> IF selected = {} THEN coverage.governed
                             ELSE coverage.governed \cup {e.name}]
  /\ UNCHANGED <<profile, events, results, tally, phase>>

FinishCovering ==
  /\ phase = "covering" /\ covered = Len(events)
  /\ phase' = "done"
  /\ UNCHANGED <<profile, events, results, tally, coverage, covered>>

Next == Check \/ StartCovering \/ Cover \/ FinishCovering

Spec == Init /\ [][Next]_vars

-----------------------------------------------------------------------------
(***************************************************************************)
(* Properties.                                                             *)
(***************************************************************************)
Governed == tally.by["conforming"] + tally.by["violations"]

(* Two readings of the events, two selections and two evaluations of every *)
(* condition, one account (summariseCoverage and check-profile): every     *)
(* event is counted once, under its status; a name is governed if some     *)
(* event was judged by a rule, the events under governed names are the     *)
(* judged ones, no rule failed more often than it applied, and some rule   *)
(* failed exactly if some event is in violation.                           *)
VerdictsAndCoverageAgree ==
  phase = "done" =>
    /\ tally.events = Len(events) /\ SumFunction(tally.by) = Len(events)
    /\ SumFunctionOnSet(coverage.names, coverage.governed) = Governed
    /\ \A id \in Ids(profile) :
         /\ coverage.failed[id] <= coverage.applied[id]
         /\ coverage.applied[id] <= coverage.selected[id]
         /\ coverage.selected[id] <= Governed
    /\ (\E id \in Ids(profile) : coverage.failed[id] > 0) <=> tally.by["violations"] > 0

Linted(rules) == \A i, j \in DOMAIN rules : rules[i].id = rules[j].id => i = j

(* In a profile that lint-profiles passes no requirement is lost: an event *)
(* the core accepts violates it exactly if some rule for its name, whose   *)
(* condition holds and which is an error, is unmet, whatever other rules   *)
(* there are and in whatever order.                                        *)
NoRequirementLost ==
  Linted(profile) /\ phase = "checking" =>
    \A n \in DOMAIN events :
      LET e == events[n]
          for == {r \in ToSet(profile) : e.name \in r.events}
      IN e.core = "valid" =>
           /\ results[n].status = "violations" <=>
                \E r \in for : r.severity = "error" /\ conditionHolds(e, r) /\ Unmet(e, r) # {}
           /\ results[n].status = "not-applicable" <=> for = {}

(* A profile "can only ever add" (profiles/types.ts:4), and so can a rule: *)
(* a new rule, wherever it is put, takes away no finding of another one.   *)
RulesOnlyAdd ==
  phase = "checking" =>
    \A n \in DOMAIN events, r \in Rules, k \in 1 .. Len(profile) + 1 :
      r.id \notin Ids(profile) =>
        LET more == checkProfile(events[n], InsertAt(profile, k, r)) IN
        /\ results[n].errors \subseteq more.errors
        /\ results[n].warnings \subseteq more.warnings
        /\ results[n].matched \subseteq more.matched

Emptied(r) ==
  [r EXCEPT !.required = << >>, !.metadata = << >>, !.values = << >>, !.recommended = << >>]

WithIds(rules, ids) ==
  LET taken[n \in 0 .. Len(rules)] ==
        IF n = 0 THEN << >>
        ELSE IF rules[n].id \in ids THEN Append(taken[n - 1], rules[n])
        ELSE taken[n - 1]
  IN taken[Len(rules)]

(* What coverage.ts says of a rule that was selected and never applied,    *)
(* "a requirement that looked enforced and was not": had it asked for      *)
(* nothing, every result would be the same; and so would they without the  *)
(* rules that were never selected.                                         *)
UnappliedRulesChangeNothing ==
  phase = "done" =>
    LET asked == [i \in DOMAIN profile |->
                    IF coverage.applied[profile[i].id] = 0 THEN Emptied(profile[i])
                    ELSE profile[i]]
        selected == WithIds(asked, {id \in Ids(profile) : coverage.selected[id] > 0})
    IN \A n \in DOMAIN events : checkProfile(events[n], selected) = results[n]
=============================================================================
